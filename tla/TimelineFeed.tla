---------------------------- MODULE TimelineFeed ----------------------------
(***************************************************************************)
(* What one timeline hands to Account.Send: the cursor and the flag that   *)
(* TimeLine.refreshThread keeps, and the parsers of the three timelines.   *)
(*                                                                         *)
(* Twitter keeps the items that were posted and answers a refresh with     *)
(* those after the cursor.  Each session of the account polls with a thread*)
(* of its own, which starts with no cursor and hands on what its first     *)
(* refresh finds to nobody.                                                *)
(*                                                                         *)
(* Abstracted: an item (a status, an activity with its target, a direct    *)
(* message entry) is its place in the order of posting, which cursors and  *)
(* the ids of statuses and messages follow; the wait between two refreshes;*)
(* the users found (StreamSession); the way of a batch from Account.Send to*)
(* the clients (Broadcast).  Ids and positions parse, packets encode.      *)
(***************************************************************************)
EXTENDS Naturals, Sequences, FiniteSets, SequencesExt

CONSTANTS
  Filter,    \* the actions Config.Filter lets pass besides replies
  Threads,   \* refreshThread goroutines, one for each session
  NoCursor,  \* the empty cursor
  MaxItems,  \* bound: items posted
  Page       \* items in an answer, 200 where the code asks for a count

Action == {"reply", "retweet", "quote", "favorite"}

ASSUME FeedAssumption ==
  /\ Filter \subseteq {"retweet", "quote"}
  /\ NoCursor \notin Nat
  /\ MaxItems \in Nat
  /\ Page \in Nat \ {0}

VARIABLES
  timeline,   \* "home", "about_me" or "dm": its funcGetUrl and funcMain
  posted,     \* Twitter's items, in the order of posting
  pc,         \* where each thread is
  cancelled,  \* its context is cancelled
  cursor,     \* its cursor
  first,      \* isFirstRefresh
  batches,    \* the packet lists it has given to Account.Send
  opened,     \* history: items posted when it was started
  origin,     \* history: its first cursor
  lost        \* history: items left out of a full answer

twitterVars == <<timeline, posted>>
threadVars == <<pc, cancelled, cursor, first, batches, opened, origin, lost>>
vars == <<twitterVars, threadVars>>

\* What may be posted to each timeline.
Item ==
  CASE timeline = "home"     -> {"status"}
    [] timeline = "about_me" -> Action
    [] timeline = "dm"       -> {"message", "other"}

Blank == 0

Cursor == Nat \cup {NoCursor}

\* Every variable has its type, a cursor is the place of an item and never
\* goes back behind the first one, and nothing is given before the flag falls.
TypeOK ==
  /\ timeline \in {"home", "about_me", "dm"}
  /\ posted \in Seq(Item)
  /\ pc \in [Threads -> {"off", "check", "request", "wait", "done"}]
  /\ cancelled \in [Threads -> BOOLEAN]
  /\ cursor \in [Threads -> Cursor] /\ origin \in [Threads -> Cursor]
  /\ first \in [Threads -> BOOLEAN]
  /\ batches \in [Threads -> Seq(Seq(Nat))]
  /\ opened \in [Threads -> Nat]
  /\ lost \in [Threads -> SUBSET Nat]
  /\ \A t \in Threads :
       /\ cursor[t] # NoCursor =>
            cursor[t] \in 0..Len(posted) /\ origin[t] \in 0..cursor[t]
       /\ (cursor[t] = NoCursor) = (origin[t] = NoCursor)
       /\ first[t] => batches[t] = <<>>

Init ==
  /\ timeline \in {"home", "about_me", "dm"}
  /\ posted = <<>>
  /\ pc = [t \in Threads |-> "off"]
  /\ cancelled = [t \in Threads |-> FALSE]
  /\ cursor = [t \in Threads |-> NoCursor]
  /\ first = [t \in Threads |-> TRUE]
  /\ batches = [t \in Threads |-> <<>>]
  /\ opened = [t \in Threads |-> 0]
  /\ origin = [t \in Threads |-> NoCursor]
  /\ lost = [t \in Threads |-> {}]

Post ==
  /\ Len(posted) < MaxItems
  /\ \E i \in Item : posted' = Append(posted, i)
  /\ UNCHANGED <<timeline, threadVars>>

-----------------------------------------------------------------------------
(* The parsers.                                                            *)

\* If an item makes a packet.
Shown(i) ==
  CASE timeline = "home"     -> TRUE
    [] timeline = "about_me" -> posted[i] \in Filter \cup {"reply"}
    [] timeline = "dm"       -> posted[i] = "message"

\* The blank packets of a list made with the length of the entries and then
\* appended to; their id is zero.
Blanks(answer) ==
  IF timeline = "dm" THEN [i \in 1..Cardinality(answer) |-> Blank] ELSE <<>>

\* Packets, if no list of packets were sorted.
PacketsUnsorted(answer) ==
  {Blanks(answer) \o s : s \in SetToSeqs({i \in answer : Shown(i)})}

\* The list of packets for an answer, sorted by id.  For activities that is
\* the id of the target, any status of the user's, and the order is anyone's.
Packets(answer) ==
  {Blanks(answer) \o s :
     s \in {s \in SetToSeqs({i \in answer : Shown(i)}) :
              timeline # "about_me" => IsSorted(s, <)}}

Newest(answer) == CHOOSE i \in answer : \A j \in answer : j <= i

\* NextCursor, if the comparison with the greatest so far were reversed.
NextCursorOldest(answer) ==
  IF answer = {} THEN NoCursor ELSE CHOOSE i \in answer : \A j \in answer : i <= j

\* The cursor for an answer: the greatest id or position in it; for messages
\* the one Twitter sends, with no entries too.
NextCursor(answer) ==
  CASE timeline = "dm"                 -> Len(posted)
    [] timeline # "dm" /\ answer # {} -> Newest(answer)
    [] timeline # "dm" /\ answer = {} -> NoCursor

-----------------------------------------------------------------------------
(* Requests.                                                               *)

\* What was posted after the cursor.
Newer(t) ==
  {i \in DOMAIN posted : cursor[t] # NoCursor => i > cursor[t]}

\* Count, if every refresh asked for a page.
CountAlways(t) == Page

\* The number of items asked for: with no cursor, one, or the inbox.
Count(t) == IF cursor[t] = NoCursor /\ timeline # "dm" THEN 1 ELSE Page

\* Twitter's answer: the newest items of those asked for.
Answer(t) == {i \in Newer(t) : i + Count(t) > Len(posted)}

-----------------------------------------------------------------------------
(* TimeLine.                                                               *)

Goto(t, from, to) == pc[t] = from /\ pc' = [pc EXCEPT ![t] = to]

\* Of the account's session: a thread that was not told to stop.
Live(t) == pc[t] # "off" /\ ~cancelled[t]

Start(t) ==
  /\ \A u \in Threads : ~Live(u)
  /\ Goto(t, "off", "check")
  /\ opened' = [opened EXCEPT ![t] = Len(posted)]
  /\ UNCHANGED <<twitterVars, cancelled, cursor, first, batches, origin, lost>>

Stop(t) ==
  /\ Live(t)
  /\ cancelled' = [cancelled EXCEPT ![t] = TRUE]
  /\ UNCHANGED <<twitterVars, pc, cursor, first, batches, opened, origin, lost>>

Check(t) ==
  /\ Goto(t, "check", IF cancelled[t] THEN "done" ELSE "request")
  /\ UNCHANGED <<twitterVars, cancelled, cursor, first, batches, opened, origin, lost>>

\* RefreshFails, if the cursor of a failed refresh were taken.
RefreshFailsEmpty(t) ==
  /\ Goto(t, "request", "wait")
  /\ cursor' = [cursor EXCEPT ![t] = NoCursor]
  /\ first' = [first EXCEPT ![t] = FALSE]
  /\ UNCHANGED <<twitterVars, cancelled, batches, opened, origin, lost>>

\* RefreshFails, if the thread ended on an error.
RefreshFailsForGood(t) ==
  /\ Goto(t, "request", "done")
  /\ UNCHANGED <<twitterVars, cancelled, cursor, first, batches, opened, origin, lost>>

\* No answer, another status, or a body that is not what it should be or
\* that has no part with messages: nothing to give, and no cursor.
RefreshFails(t) ==
  /\ Goto(t, "request", "wait")
  /\ first' = [first EXCEPT ![t] = FALSE]
  /\ UNCHANGED <<twitterVars, cancelled, cursor, batches, opened, origin, lost>>

\* An answer, be it that the thread was told to stop meanwhile.
Refresh(t) ==
  /\ Goto(t, "request", "wait")
  /\ LET answer == Answer(t)
         c == NextCursor(answer)
     IN  /\ cursor' = [cursor EXCEPT ![t] = IF c = NoCursor THEN @ ELSE c]
         /\ origin' = [origin EXCEPT ![t] = IF @ = NoCursor THEN c ELSE @]
         /\ \E p \in Packets(answer) :
              batches' = [batches EXCEPT ![t] =
                            IF first[t] \/ p = <<>> THEN @ ELSE Append(@, p)]
         /\ lost' = [lost EXCEPT ![t] = IF cursor[t] = NoCursor THEN @
                                        ELSE @ \cup (Newer(t) \ answer)]
  /\ first' = [first EXCEPT ![t] = FALSE]
  /\ UNCHANGED <<twitterVars, cancelled, opened>>

\* The timer, or the context; with both ready, either.
WaitEnds(t) ==
  /\ \/ Goto(t, "wait", "check")
     \/ cancelled[t] /\ Goto(t, "wait", "done")
  /\ UNCHANGED <<twitterVars, cancelled, cursor, first, batches, opened, origin, lost>>

-----------------------------------------------------------------------------
Next ==
  \/ Post
  \/ \E t \in Threads :
       \/ Start(t) \/ Stop(t) \/ Check(t) \/ RefreshFails(t) \/ Refresh(t)
       \/ WaitEnds(t)

Spec == Init /\ [][Next]_vars

(* Every wait is finite, and a request answered or given up.  Twitter may  *)
(* fail again and again, but not for ever.                                 *)
Fairness ==
  \A t \in Threads :
    /\ WF_vars(Check(t)) /\ WF_vars(WaitEnds(t))
    /\ WF_vars(Refresh(t) \/ RefreshFails(t)) /\ SF_vars(Refresh(t))

FairSpec == Spec /\ Fairness

-----------------------------------------------------------------------------
(* Properties.                                                             *)

\* The packets a thread has given to Account.Send, by the number of the list
\* and the place in it; not the blank ones.
At(t, p) == batches[t][p[1]][p[2]]

Given(t) ==
  {p \in UNION {{m} \X (DOMAIN batches[t][m]) : m \in DOMAIN batches[t]} :
     At(t, p) # Blank}

Before(p, q) == p[1] < q[1] \/ (p[1] = q[1] /\ p[2] < q[2])

GivenItems(t) == {At(t, p) : p \in Given(t)}

\* A thread gives no item twice, whatever refreshes failed in between: the
\* cursor passes what was given and never goes back.
NoDuplicate ==
  \A t \in Threads : \A p, q \in Given(t) : At(t, p) = At(t, q) => p = q

\* A thread gives what it finds in the order of posting, from one list to the
\* next too, although a list is sorted alone and refreshes fail (not so for
\* activities: their targets may be older than their positions).
InOrder ==
  timeline # "about_me" =>
    \A t \in Threads :
      \A p, q \in Given(t) : Before(p, q) => At(t, p) < At(t, q)

\* From a thread's first cursor to its last one, every item that makes a
\* packet was given, but for what an answer was too short for.
NoGap ==
  \A t \in Threads :
    origin[t] # NoCursor /\ cursor[t] # NoCursor =>
      \A i \in origin[t] + 1 .. cursor[t] :
        Shown(i) => i \in GivenItems(t) \cup lost[t]

\* A client that connects is spared what was posted before, as the first
\* refresh is for the cursor only.  One item gets through, if that refresh
\* fails: the second asks for one and takes it for new (for messages, it asks
\* for the inbox and takes all of it for new).
OneOldItem ==
  timeline # "dm" =>
    \A t \in Threads :
      Cardinality({i \in GivenItems(t) : i <= opened[t]}) <= 1

\* What is posted while a thread with a cursor polls is given in the end.
ItemArrives ==
  \A t \in Threads, i \in 1..MaxItems :
    (i <= Len(posted) /\ origin[t] # NoCursor /\ i > origin[t] /\ Shown(i))
      ~> (i \in GivenItems(t) \cup lost[t] \/ cancelled[t])
=============================================================================
