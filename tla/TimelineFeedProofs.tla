------------------------- MODULE TimelineFeedProofs -------------------------
(* What a timeline hands on, for any filter, number of sessions and posts, *)
(* and any page: types, and that a thread gives each item once, in order,  *)
(* with no gap, at most one that is older than its session, and with one   *)
(* answer all there is.                                                    *)
EXTENDS TimelineFeed, FiniteSetTheorems, FunctionTheorems, SequenceTheorems, TLAPS

-----------------------------------------------------------------------------
(* Lists of packets.                                                       *)

\* The places of the packets in some lists, as Given has them, and what is there.
PlacesOf(lists) ==
  {p \in UNION {{m} \X (DOMAIN lists[m]) : m \in DOMAIN lists} :
     lists[p[1]][p[2]] # Blank}

LEMMA Placed ==
  ASSUME NEW lists \in Seq(Seq(Nat)), NEW p
  PROVE  p \in PlacesOf(lists) <=>
           \E m \in 1..Len(lists) : \E a \in 1..Len(lists[m]) :
             p = <<m, a>> /\ lists[m][a] # Blank
<1>1. DOMAIN lists = 1..Len(lists)
  BY LenProperties
<1>2. \A m \in 1..Len(lists) : lists[m] \in Seq(Nat) /\ DOMAIN lists[m] = 1..Len(lists[m])
  BY ElementOfSeq, LenProperties
<1>3. QED  BY <1>1, <1>2 DEF PlacesOf

LEMMA PlacedItem ==
  ASSUME NEW lists \in Seq(Seq(Nat)), NEW p \in PlacesOf(lists)
  PROVE  p[1] \in 1..Len(lists) /\ lists[p[1]][p[2]] \in Nat
<1>1. PICK m \in 1..Len(lists) : \E a \in 1..Len(lists[m]) : p = <<m, a>>
  BY Placed
<1>2. PICK a \in 1..Len(lists[m]) : p = <<m, a>>
  BY <1>1
<1>3. lists[m] \in Seq(Nat)
  BY ElementOfSeq
<1>4. lists[m][a] \in Nat
  BY <1>3, ElementOfSeq
<1>5. QED  BY <1>2, <1>4

\* What a list brings that is appended, as the one with number len.
Appended(lists, list, more, len) ==
  /\ more \in Seq(Seq(Nat))
  /\ \A p \in PlacesOf(lists) :
       p \in PlacesOf(more) /\ more[p[1]][p[2]] = lists[p[1]][p[2]]
  /\ \A a \in 1..Len(list) :
       /\ more[len][a] = list[a]
       /\ list[a] # Blank => <<len, a>> \in PlacesOf(more)
  /\ \A p \in PlacesOf(more) :
       p \in PlacesOf(lists)
       \/ \E a \in 1..Len(list) : p = <<len, a>> /\ list[a] # Blank

LEMMA PlacedAppend ==
  ASSUME NEW lists \in Seq(Seq(Nat)), NEW list \in Seq(Nat),
         NEW more, more = Append(lists, list), NEW len, len = Len(lists) + 1
  PROVE  Appended(lists, list, more, len)
<1>1. /\ Len(lists) \in Nat
      /\ more \in Seq(Seq(Nat)) /\ Len(more) = len /\ more[len] = list
      /\ \A m \in 1..Len(lists) : more[m] = lists[m]
  BY AppendProperties, LenProperties
<1>2. /\ \A p : p \in PlacesOf(more) <=>
                \E m \in 1..Len(more) : \E a \in 1..Len(more[m]) :
                  p = <<m, a>> /\ more[m][a] # Blank
      /\ \A p : p \in PlacesOf(lists) <=>
                \E m \in 1..Len(lists) : \E a \in 1..Len(lists[m]) :
                  p = <<m, a>> /\ lists[m][a] # Blank
  <2>1. more \in Seq(Seq(Nat))
    BY <1>1
  <2>2. QED  BY <2>1, Placed
<1>3. ASSUME NEW p \in PlacesOf(lists)
      PROVE  p \in PlacesOf(more) /\ more[p[1]][p[2]] = lists[p[1]][p[2]]
  <2>1. PICK m \in 1..Len(lists) :
          \E a \in 1..Len(lists[m]) : p = <<m, a>> /\ lists[m][a] # Blank
    BY <1>2
  <2>2. PICK a \in 1..Len(lists[m]) : p = <<m, a>> /\ lists[m][a] # Blank
    BY <2>1
  <2>3. m \in 1..Len(more) /\ more[m] = lists[m] /\ p[1] = m /\ p[2] = a
    BY <1>1, <2>2
  <2>4. p \in PlacesOf(more)
    <3>1. a \in 1..Len(more[m]) /\ more[m][a] # Blank
      BY <2>2, <2>3
    <3>2. QED  BY <1>2, <2>2, <2>3, <3>1, Zenon
  <2>5. QED  BY <2>2, <2>3, <2>4, Zenon
<1>4. ASSUME NEW a \in 1..Len(list)
      PROVE  /\ more[len][a] = list[a]
             /\ list[a] # Blank => <<len, a>> \in PlacesOf(more)
  <2>1. len \in 1..Len(more) /\ more[len] = list
    BY <1>1
  <2>2. more[len][a] = list[a] /\ a \in 1..Len(more[len])
    BY <1>4, <2>1
  <2>3. QED  BY <1>2, <2>1, <2>2, ZenonT(30)
<1>5. ASSUME NEW p \in PlacesOf(more), p \notin PlacesOf(lists)
      PROVE  \E a \in 1..Len(list) : p = <<len, a>> /\ list[a] # Blank
  <2>1. PICK m \in 1..Len(more) :
          \E a \in 1..Len(more[m]) : p = <<m, a>> /\ more[m][a] # Blank
    BY <1>2, <1>5
  <2>2. PICK a \in 1..Len(more[m]) : p = <<m, a>> /\ more[m][a] # Blank
    BY <2>1
  <2>3. m = len
    <3>1. SUFFICES ASSUME m # len PROVE FALSE
      OBVIOUS
    <3>2. m \in 1..Len(lists) /\ more[m] = lists[m]
      BY <1>1, <3>1
    <3>3. p \in PlacesOf(lists)
      BY <2>2, <3>2, Placed
    <3>4. QED  BY <1>5, <3>3
  <2>4. QED  BY <1>1, <2>2, <2>3, Zenon
<1>6. QED  BY <1>1, <1>3, <1>4, <1>5 DEF Appended

\* The list of packets for an answer: blank ones, then each item that is shown
\* once, for statuses and messages in order.
LEMMA PacketList ==
  ASSUME NEW answer \in SUBSET Nat, IsFiniteSet(answer), 0 \notin answer,
         NEW list \in Packets(answer)
  PROVE  /\ list \in Seq(Nat)
         /\ \A a \in 1..Len(list) :
              list[a] # Blank => list[a] \in answer
         /\ \A a, b \in 1..Len(list) : list[a] = list[b] /\ list[a] # Blank => a = b
         /\ \A i \in answer : Shown(i) => \E a \in 1..Len(list) : list[a] = i
         /\ timeline # "about_me" =>
              \A a, b \in 1..Len(list) :
                list[a] # Blank /\ list[b] # Blank /\ a < b => list[a] < list[b]
<1> DEFINE S == {i \in answer : Shown(i)}
           n == Cardinality(S)
           k == Len(Blanks(answer))
<1>1. PICK s \in SetToSeqs(S) :
        /\ list = Blanks(answer) \o s
        /\ timeline # "about_me" => IsSorted(s, <)
  BY DEF Packets
<1>2. IsFiniteSet(S) /\ n \in Nat /\ Cardinality(answer) \in Nat
  BY FS_Subset, FS_CardinalityType
<1>3. s \in [1..n -> S] /\ \A i, j \in 1..n : i # j => s[i] # s[j]
  BY <1>1 DEF SetToSeqs
<1>4. s \in Seq(Nat) /\ Len(s) = n
  <2>1. s \in [1..n -> Nat]
    BY <1>3
  <2> HIDE DEF n, S
  <2>2. QED  BY <2>1, <1>2, IsASeq, LenProperties
<1>5. \A i \in S : \E j \in 1..n : s[j] = i
  <2>1. IsFiniteSet(1..n) /\ Cardinality(1..n) = n
    <3> HIDE DEF n, S
    <3>1. IsFiniteSet(1..n) /\ Cardinality(1..n) = IF 1 > n THEN 0 ELSE n - 1 + 1
      BY <1>2, FS_Interval
    <3>2. QED  BY <1>2, <3>1
  <2>2. s \in Injection(1..n, S)
    BY <1>3 DEF Injection, IsInjective
  <2>3. s \in Surjection(1..n, S)
    BY <2>1, <2>2, <1>2, FS_Injection
  <2>4. QED  BY <2>3 DEF Surjection
<1>6. Blanks(answer) \in Seq(Nat) /\ k \in Nat /\ \A a \in 1..k : Blanks(answer)[a] = Blank
  <2>1. CASE timeline = "dm"
    <3> DEFINE c == Cardinality(answer)
               b == [i \in 1..c |-> Blank]
    <3>1. c \in Nat /\ b \in [1..c -> Nat]
      BY <1>2 DEF Blank
    <3>2. b \in Seq(Nat) /\ Len(b) = c
      <4> HIDE DEF c, b
      <4>1. QED  BY <3>1, IsASeq, LenProperties
    <3>3. Blanks(answer) = b
      BY <2>1 DEF Blanks
    <3>4. QED  BY <3>1, <3>2, <3>3
  <2>2. CASE timeline # "dm"
    <3>1. Blanks(answer) = <<>>
      BY <2>2 DEF Blanks
    <3>2. QED  BY <3>1
  <2>3. QED  BY <2>1, <2>2
<1> HIDE DEF n, k, S
<1>7. /\ list \in Seq(Nat) /\ Len(list) = k + n
      /\ \A a \in 1..(k + n) : list[a] = IF a <= k THEN Blank ELSE s[a - k]
  <2> DEFINE b == Blanks(answer)
  <2> HIDE DEF b
  <2>1. b \in Seq(Nat) /\ Len(b) = k /\ list = b \o s /\ \A a \in 1..k : b[a] = Blank
    BY <1>1, <1>6 DEF b, k
  <2>2. /\ list \in Seq(Nat) /\ Len(list) = k + n
        /\ \A a \in 1..(k + n) : list[a] = IF a <= k THEN b[a] ELSE s[a - k]
    <3>1. /\ b \o s \in Seq(Nat) /\ Len(b \o s) = Len(b) + Len(s)
          /\ \A a \in 1..(Len(b) + Len(s)) :
               (b \o s)[a] = IF a <= Len(b) THEN b[a] ELSE s[a - Len(b)]
      BY <2>1, <1>4, ConcatProperties, Zenon
    <3>2. QED  BY <3>1, <2>1, <1>4, Zenon
  <2>3. \A a \in 1..(k + n) : a <= k => a \in 1..k
    BY <1>6
  <2>4. QED  BY <2>1, <2>2, <2>3
<1>8. \A a \in 1..Len(list) : list[a] # Blank => a - k \in 1..n /\ list[a] = s[a - k]
  BY <1>2, <1>6, <1>7, SMTT(30)
<1>9. ASSUME NEW i \in S PROVE \E a \in 1..Len(list) : list[a] = i
  <2>1. PICK j \in 1..n : s[j] = i
    BY <1>5
  <2>2. k + j \in 1..Len(list) /\ list[k + j] = s[j]
    BY <1>2, <1>6, <1>7
  <2>3. QED  BY <2>1, <2>2
<1>10. \A a, b \in 1..Len(list) : list[a] = list[b] /\ list[a] # Blank => a = b
  <2>1. SUFFICES ASSUME NEW a \in 1..Len(list), NEW b \in 1..Len(list),
                        list[a] = list[b], list[a] # Blank
                 PROVE  a = b
    OBVIOUS
  <2>2. /\ a - k \in 1..n /\ b - k \in 1..n /\ s[a - k] = s[b - k]
    BY <1>8, <2>1
  <2>3. a - k = b - k
    BY <2>2, <1>3
  <2>4. QED  BY <2>3, <1>6
<1>11. timeline # "about_me" =>
         \A a, b \in 1..Len(list) :
           list[a] # Blank /\ list[b] # Blank /\ a < b => list[a] < list[b]
  <2>1. SUFFICES ASSUME timeline # "about_me", NEW a \in 1..Len(list), NEW b \in 1..Len(list),
                        list[a] # Blank, list[b] # Blank, a < b
                 PROVE  list[a] < list[b]
    OBVIOUS
  <2>2. \A i, j \in 1..n : i < j => s[i] < s[j]
    BY <1>1, <1>4, <2>1 DEF IsSorted
  <2>3. a - k \in 1..n /\ b - k \in 1..n /\ a - k < b - k
    BY <1>6, <1>8, <2>1
  <2>4. s[a - k] < s[b - k]
    BY <2>2, <2>3
  <2>5. QED  BY <2>4, <1>8, <2>1
<1>12. \A a \in 1..Len(list) : list[a] # Blank => list[a] \in answer
  BY <1>3, <1>8 DEF S
<1>13. QED  BY <1>7, <1>9, <1>10, <1>11, <1>12 DEF S

-----------------------------------------------------------------------------
(* The invariant.                                                          *)

Types ==
  /\ timeline \in {"home", "about_me", "dm"}
  /\ posted \in Seq(Item)
  /\ pc \in [Threads -> {"off", "check", "request", "wait", "done"}]
  /\ cancelled \in [Threads -> BOOLEAN]
  /\ cursor \in [Threads -> Cursor] /\ origin \in [Threads -> Cursor]
  /\ first \in [Threads -> BOOLEAN]
  /\ batches \in [Threads -> Seq(Seq(Nat))]
  /\ opened \in [Threads -> Nat]
  /\ lost \in [Threads -> SUBSET Nat]

\* The cursors, of a thread with first cursor org and cursor cur, that was
\* started with opn items posted and has given lists: but for messages, the
\* first cursor is no older than the session.
Cursors(cur, org, fst, opn, lists) ==
  /\ cur # NoCursor => /\ cur \in 0..Len(posted) /\ org \in 0..cur
                       /\ timeline # "dm" => opn <= org
  /\ cur = NoCursor <=> org = NoCursor
  /\ fst => cur = NoCursor /\ lists = <<>>
  /\ opn <= Len(posted)

\* What was given lies up to the cursor and, but for messages, from the first
\* cursor on.
Behind(cur, org, lists) ==
  \A p \in PlacesOf(lists) :
    /\ cur # NoCursor /\ lists[p[1]][p[2]] <= cur
    /\ timeline # "dm" => org <= lists[p[1]][p[2]]

Once(lists) ==
  \A p, q \in PlacesOf(lists) :
    lists[p[1]][p[2]] = lists[q[1]][q[2]] => p = q

Ordered(lists) ==
  timeline # "about_me" =>
    \A p, q \in PlacesOf(lists) :
      Before(p, q) => lists[p[1]][p[2]] < lists[q[1]][q[2]]

Complete(cur, org, lists, lst) ==
  cur # NoCursor =>
    \A i \in (org + 1)..cur :
      Shown(i) => i \in lst \/ \E p \in PlacesOf(lists) : lists[p[1]][p[2]] = i

FeedInv(t) ==
  /\ Cursors(cursor[t], origin[t], first[t], opened[t], batches[t])
  /\ Behind(cursor[t], origin[t], batches[t])
  /\ Once(batches[t])
  /\ Ordered(batches[t])
  /\ Complete(cursor[t], origin[t], batches[t], lost[t])
  /\ pc[t] = "off" => first[t]

IInv == Types /\ \A t \in Threads : FeedInv(t)

-----------------------------------------------------------------------------
(* An answer.                                                              *)

\* An answer has the newest item, unless there is none after the cursor, and
\* without a cursor nothing else, but for messages.
LEMMA AnswerFacts ==
  ASSUME Types, NEW t \in Threads,
         cursor[t] # NoCursor => cursor[t] \in 0..Len(posted)
  PROVE  /\ Len(posted) \in Nat
         /\ Answer(t) \subseteq 1..Len(posted) /\ Answer(t) \subseteq Newer(t)
         /\ Answer(t) \in SUBSET Nat /\ IsFiniteSet(Answer(t)) /\ 0 \notin Answer(t)
         /\ Newer(t) = {i \in 1..Len(posted) : cursor[t] # NoCursor => i > cursor[t]}
         /\ cursor[t] = NoCursor /\ timeline # "dm" => Answer(t) \subseteq {Len(posted)}
         /\ Answer(t) = {} => Newer(t) = {}
         /\ NextCursor(Answer(t)) = IF timeline = "dm" \/ Answer(t) # {}
                                    THEN Len(posted) ELSE NoCursor
<1> DEFINE N == Len(posted)
<1>1. N \in Nat /\ DOMAIN posted = 1..N /\ Page \in Nat \ {0}
  BY LenProperties, FeedAssumption DEF Types
<1>2. Newer(t) = {i \in 1..N : cursor[t] # NoCursor => i > cursor[t]}
  BY <1>1 DEF Newer
<1> HIDE DEF N
<1>3. Count(t) \in Nat \ {0} /\ (cursor[t] = NoCursor /\ timeline # "dm" => Count(t) = 1)
  BY <1>1 DEF Count
<1>4. Answer(t) = {i \in Newer(t) : i + Count(t) > N}
  BY DEF Answer, N
<1>5. Answer(t) \subseteq 1..N /\ Answer(t) \subseteq Newer(t)
  BY <1>2, <1>4
<1>6. Answer(t) \in SUBSET Nat /\ 0 \notin Answer(t)
  BY <1>1, <1>5
<1>7. IsFiniteSet(Answer(t))
  BY <1>1, <1>5, FS_Interval, FS_Subset
<1>8. cursor[t] = NoCursor /\ timeline # "dm" => Answer(t) \subseteq {N}
  BY <1>1, <1>2, <1>3, <1>4
<1>9. Newer(t) # {} => N \in Answer(t)
  <2>1. SUFFICES ASSUME NEW i \in Newer(t) PROVE N \in Newer(t) /\ N + Count(t) > N
    BY <1>4
  <2>2. CASE cursor[t] = NoCursor
    BY <2>1, <2>2, <1>1, <1>2, <1>3
  <2>3. CASE cursor[t] # NoCursor
    <3>1. cursor[t] \in Nat
      BY <2>3, <1>1 DEF N
    <3>2. QED  BY <2>1, <2>3, <3>1, <1>1, <1>2, <1>3
  <2>4. QED  BY <2>2, <2>3
<1>10. Answer(t) # {} => Newest(Answer(t)) = N
  <2>1. SUFFICES ASSUME Answer(t) # {} PROVE Newest(Answer(t)) = N
    OBVIOUS
  <2>2. N \in Answer(t) /\ \A j \in Answer(t) : j <= N
    BY <2>1, <1>1, <1>5, <1>9
  <2>3. \A i \in Answer(t) : (\A j \in Answer(t) : j <= i) => i = N
    BY <2>2, <1>1, <1>5
  <2>4. QED  BY <2>2, <2>3 DEF Newest
<1>11. NextCursor(Answer(t)) = IF timeline = "dm" \/ Answer(t) # {} THEN N ELSE NoCursor
  BY <1>10 DEF NextCursor, N
<1>12. QED  BY <1>1, <1>2, <1>5, <1>6, <1>7, <1>8, <1>9, <1>11 DEF N

\* What a refresh makes of a thread's feed, by its answer and the packets for it.
Refreshed(t, list, cur, org, lists, lst) ==
  LET c == NextCursor(Answer(t))
  IN  /\ cur = IF c = NoCursor THEN cursor[t] ELSE c
      /\ org = IF origin[t] = NoCursor THEN c ELSE origin[t]
      /\ lists = IF first[t] \/ list = <<>> THEN batches[t] ELSE Append(batches[t], list)
      /\ lst = IF cursor[t] = NoCursor THEN lost[t]
               ELSE lost[t] \cup (Newer(t) \ Answer(t))

Fed(t, cur, org, lists, lst) ==
  /\ cur \in Cursor /\ org \in Cursor /\ lists \in Seq(Seq(Nat)) /\ lst \in SUBSET Nat
  /\ Cursors(cur, org, FALSE, opened[t], lists)
  /\ Behind(cur, org, lists) /\ Once(lists) /\ Ordered(lists)
  /\ Complete(cur, org, lists, lst)

\* The feed of a thread after an answer, if its packets are given or not.
LEMMA RefreshFeed ==
  ASSUME IInv, NEW t \in Threads, NEW list \in Packets(Answer(t)),
         NEW cur, NEW org, NEW lists, NEW lst,
         Refreshed(t, list, cur, org, lists, lst)
  PROVE  Fed(t, cur, org, lists, lst)
<1> DEFINE c == NextCursor(Answer(t))
<1>a. /\ cur = IF c = NoCursor THEN cursor[t] ELSE c
      /\ org = IF origin[t] = NoCursor THEN c ELSE origin[t]
      /\ lists = IF first[t] \/ list = <<>> THEN batches[t] ELSE Append(batches[t], list)
      /\ lst = IF cursor[t] = NoCursor THEN lost[t]
               ELSE lost[t] \cup (Newer(t) \ Answer(t))
  BY DEF Refreshed
<1> USE <1>a
<1> DEFINE N == Len(posted)
           answer == Answer(t)
           old == batches[t]
<1>1. /\ Types /\ FeedInv(t) /\ old \in Seq(Seq(Nat)) /\ Len(old) \in Nat
      /\ cursor[t] \in Cursor /\ origin[t] \in Cursor /\ opened[t] \in Nat
      /\ lost[t] \in SUBSET Nat /\ first[t] \in BOOLEAN /\ NoCursor \notin Nat
  BY FeedAssumption, LenProperties DEF IInv, Types
<1>2. /\ Cursors(cursor[t], origin[t], first[t], opened[t], old)
      /\ Behind(cursor[t], origin[t], old) /\ Once(old) /\ Ordered(old)
      /\ Complete(cursor[t], origin[t], old, lost[t])
  BY <1>1 DEF FeedInv
<1>3. /\ N \in Nat /\ answer \subseteq 1..N /\ answer \subseteq Newer(t)
      /\ answer \in SUBSET Nat /\ IsFiniteSet(answer) /\ 0 \notin answer
      /\ Newer(t) = {i \in 1..N : cursor[t] # NoCursor => i > cursor[t]}
      /\ cursor[t] = NoCursor /\ timeline # "dm" => answer \subseteq {N}
      /\ answer = {} => Newer(t) = {}
      /\ c = IF timeline = "dm" \/ answer # {} THEN N ELSE NoCursor
  BY <1>1, <1>2, AnswerFacts DEF Cursors
<1> HIDE DEF c
<1>4. /\ list \in Seq(Nat)
      /\ \A a \in 1..Len(list) : list[a] # Blank => list[a] \in answer
      /\ \A a, b \in 1..Len(list) : list[a] = list[b] /\ list[a] # Blank => a = b
      /\ \A i \in answer : Shown(i) => \E a \in 1..Len(list) : list[a] = i
      /\ timeline # "about_me" =>
           \A a, b \in 1..Len(list) :
             list[a] # Blank /\ list[b] # Blank /\ a < b => list[a] < list[b]
  BY <1>3, PacketList, Zenon
<1> HIDE DEF answer, old
\* The cursor.
<1>5. /\ cur = IF c = NoCursor THEN cursor[t] ELSE N
      /\ c \in {N, NoCursor} /\ c # NoCursor => c = N
      /\ c = NoCursor => answer = {}
  BY <1>1, <1>3
<1>6. cur \in Cursor /\ org \in Cursor
  BY <1>1, <1>3, <1>5 DEF Cursor
<1>7. /\ cur # NoCursor => cur \in 0..N /\ org \in 0..cur /\ (timeline # "dm" => opened[t] <= org)
      /\ cur = NoCursor <=> org = NoCursor
      /\ opened[t] <= N
  <2>1. /\ cursor[t] # NoCursor => /\ cursor[t] \in 0..N /\ origin[t] \in 0..cursor[t]
                                   /\ timeline # "dm" => opened[t] <= origin[t]
        /\ cursor[t] = NoCursor <=> origin[t] = NoCursor
        /\ opened[t] <= N
    BY <1>2 DEF Cursors
  <2>2. CASE c = NoCursor
    <3>1. cur = cursor[t] /\ org = origin[t]
      BY <2>1, <2>2
    <3>2. QED  BY <2>1, <3>1
  <2>3. CASE c # NoCursor
    <3>1. cur = N /\ c = N
      BY <2>3, <1>5
    <3>2. CASE origin[t] = NoCursor
      BY <3>1, <3>2, <2>1, <2>3, <1>1, <1>3
    <3>3. CASE origin[t] # NoCursor
      BY <3>1, <3>3, <2>1, <2>3, <1>1, <1>3
    <3>4. QED  BY <3>2, <3>3
  <2>4. QED  BY <2>2, <2>3
\* What is new is newer than what was given.
<1>8. ASSUME NEW i \in answer
      PROVE  /\ cur = N /\ i \in 1..N
             /\ cursor[t] # NoCursor => i > cursor[t]
             /\ timeline # "dm" => org <= i
  <2>1. c = N /\ c # NoCursor /\ cur = N
    BY <1>1, <1>3, <1>5, <1>8
  <2>2. i \in 1..N /\ (cursor[t] # NoCursor => i > cursor[t])
    BY <1>3, <1>8
  <2>3. CASE cursor[t] = NoCursor
    <3>1. timeline # "dm" => i = N
      BY <2>3, <1>3, <1>8
    <3>2. org = N
      BY <2>1, <2>3, <1>2 DEF Cursors
    <3>3. QED  BY <2>1, <2>2, <2>3, <3>1, <3>2, <1>3
  <2>4. CASE cursor[t] # NoCursor
    <3>1. cursor[t] \in Nat /\ origin[t] \in 0..cursor[t] /\ origin[t] # NoCursor
      BY <2>4, <1>2, <1>3 DEF Cursors, N
    <3>2. org = origin[t]
      BY <3>1
    <3>3. QED  BY <2>1, <2>2, <2>4, <3>1, <3>2
  <2>5. QED  BY <2>3, <2>4
<1> HIDE DEF N
<1>9. Behind(cur, org, old)
  <2>1. SUFFICES ASSUME NEW p \in PlacesOf(old)
                 PROVE  /\ cur # NoCursor /\ old[p[1]][p[2]] <= cur
                        /\ timeline # "dm" => org <= old[p[1]][p[2]]
    BY DEF Behind
  <2> DEFINE i == old[p[1]][p[2]]
  <2>2. /\ cursor[t] # NoCursor /\ i <= cursor[t]
        /\ timeline # "dm" => origin[t] <= i
    BY <1>2 DEF Behind
  <2>3. i \in Nat
    BY <1>1, PlacedItem
  <2>4. cursor[t] \in 0..N /\ origin[t] # NoCursor
    BY <2>2, <1>2 DEF Cursors, N
  <2>5. org = origin[t] /\ cur \in {cursor[t], N}
    BY <2>4, <1>5
  <2> HIDE DEF i
  <2>6. /\ cur # NoCursor /\ i <= cur
        /\ timeline # "dm" => org <= i
    BY <2>2, <2>3, <2>4, <2>5, <1>1, <1>3
  <2>7. QED  BY <2>6 DEF i
<1>10. lst \in SUBSET Nat /\ lost[t] \subseteq lst
  BY <1>1, <1>3
\* Items that a cursor passes are given, left out, or not shown.
<1>11. ASSUME NEW i \in (org + 1)..cur, cur # NoCursor, Shown(i), i \notin lst
       PROVE  \/ \E p \in PlacesOf(old) : old[p[1]][p[2]] = i
              \/ i \in answer /\ ~first[t]
  <2>1. cur \in Nat /\ org \in Nat /\ i \in Nat /\ org < i /\ i <= cur /\ cur <= N
    BY <1>3, <1>7, <1>11
  <2>2. CASE cursor[t] = NoCursor
    <3>1. cur = c /\ org = c
      BY <2>2, <1>2, <1>11 DEF Cursors
    <3>2. QED  BY <2>1, <3>1
  <2>3. CASE cursor[t] # NoCursor
    <3>1. /\ cursor[t] \in Nat /\ origin[t] # NoCursor /\ org = origin[t] /\ ~first[t]
          /\ origin[t] \in Nat
      BY <2>3, <1>2, <1>3 DEF Cursors, N
    <3>2. CASE i <= cursor[t]
      <4>1. i \in (origin[t] + 1)..cursor[t]
        BY <2>1, <3>1, <3>2
      <4>2. i \notin lost[t]
        BY <1>10, <1>11
      <4>3. i \in lost[t] \/ \E p \in PlacesOf(old) : old[p[1]][p[2]] = i
        BY <4>1, <2>3, <1>2, <1>11, Zenon DEF Complete
      <4>4. QED  BY <4>2, <4>3, Zenon
    <3>3. CASE i > cursor[t]
      <4>1. i \in Newer(t)
        BY <2>1, <3>1, <3>3, <1>3
      <4>2. QED  BY <4>1, <3>1, <2>3, <1>11 DEF answer
    <3>4. QED  BY <2>1, <3>1, <3>2, <3>3
  <2>4. QED  BY <2>2, <2>3
<1> HIDE <1>a
<1>c. \A given : Cursors(cur, org, FALSE, opened[t], given)
  BY <1>7 DEF Cursors, N
<1>12. CASE first[t] \/ list = <<>>
  <2>1. lists = old
    BY <1>a, <1>12 DEF old
  <2>2. Complete(cur, org, old, lst)
    <3>1. SUFFICES ASSUME NEW i \in (org + 1)..cur, cur # NoCursor, Shown(i), i \notin lst
                   PROVE  \E p \in PlacesOf(old) : old[p[1]][p[2]] = i
      BY DEF Complete
    <3>2. SUFFICES ASSUME i \in answer, ~first[t] PROVE FALSE
      BY <3>1, <1>11
    <3>3. list = <<>> /\ \E a \in 1..Len(list) : list[a] = i
      BY <3>1, <3>2, <1>4, <1>12
    <3>4. QED  BY <3>3
  <2>3. QED  BY <2>1, <2>2, <1>c, <1>1, <1>2, <1>6, <1>9, <1>10 DEF Fed, old
<1>13. CASE ~first[t] /\ list # <<>>
  <2>1. lists = Append(old, list)
    BY <1>a, <1>13 DEF old
  <2> DEFINE len == Len(old) + 1
  <2>a. /\ len = Len(old) + 1 /\ len \in Nat
        /\ old \in Seq(Seq(Nat)) /\ list \in Seq(Nat)
    BY <1>1, <1>4
  <2> HIDE DEF len
  <2>2. /\ lists \in Seq(Seq(Nat))
        /\ \A p \in PlacesOf(old) :
             p \in PlacesOf(lists) /\ lists[p[1]][p[2]] = old[p[1]][p[2]]
        /\ \A a \in 1..Len(list) :
             /\ lists[len][a] = list[a]
             /\ list[a] # Blank => <<len, a>> \in PlacesOf(lists)
        /\ \A p \in PlacesOf(lists) :
             p \in PlacesOf(old) \/ \E a \in 1..Len(list) : p = <<len, a>> /\ list[a] # Blank
    <3>1. Appended(old, list, lists, len)
      BY <2>1, <2>a, PlacedAppend, Zenon
    <3>2. QED  BY <3>1, Zenon DEF Appended
  \* A packet of the new list.
  <2>3. ASSUME NEW p \in PlacesOf(lists), p \notin PlacesOf(old)
        PROVE  \E a \in 1..Len(list) :
                 /\ p = <<len, a>> /\ p[1] = len /\ p[2] = a
                 /\ lists[p[1]][p[2]] = list[a] /\ list[a] # Blank /\ list[a] \in answer
    <3>1. PICK a \in 1..Len(list) : p = <<len, a>> /\ list[a] # Blank
      BY <2>2, <2>3, Zenon
    <3>2. p[1] = len /\ p[2] = a
      BY <3>1
    <3>3. lists[p[1]][p[2]] = list[a] /\ list[a] \in answer
      BY <3>1, <3>2, <2>2, <1>4, Zenon
    <3>4. QED  BY <3>1, <3>2, <3>3, Zenon
  \* Of an old packet and a new one, the old one is the older.
  <2>4. ASSUME NEW p \in PlacesOf(old), NEW q \in PlacesOf(lists), q \notin PlacesOf(old)
        PROVE  /\ p[1] < q[1] /\ p[1] \in Nat /\ q[1] \in Nat
               /\ lists[p[1]][p[2]] < lists[q[1]][q[2]]
               /\ lists[p[1]][p[2]] # lists[q[1]][q[2]]
    <3>1. PICK a \in 1..Len(list) :
            q[1] = len /\ lists[q[1]][q[2]] = list[a] /\ list[a] \in answer
      BY <2>3, <2>4, Zenon
    <3>2. /\ cursor[t] # NoCursor /\ old[p[1]][p[2]] <= cursor[t]
          /\ lists[p[1]][p[2]] = old[p[1]][p[2]]
      BY <2>2, <1>2, Zenon DEF Behind
    <3>3. cursor[t] \in Nat /\ list[a] > cursor[t] /\ list[a] \in Nat
      BY <3>1, <3>2, <1>1, <1>3, <1>8 DEF Cursor
    <3>4. p[1] \in 1..Len(old) /\ old[p[1]][p[2]] \in Nat
      BY <1>1, PlacedItem
    <3>5. p[1] < len /\ p[1] \in Nat /\ len \in Nat
      <4>1. Len(old) \in Nat /\ len = Len(old) + 1
        BY <2>a, <1>1
      <4> HIDE DEF old
      <4>2. QED  BY <4>1, <3>4
    <3>6. old[p[1]][p[2]] < list[a]
      BY <3>2, <3>3, <3>4
    <3>7. old[p[1]][p[2]] \in Int /\ list[a] \in Int /\ old[p[1]][p[2]] # list[a]
      BY <3>3, <3>4, <3>6
    <3>8. QED  BY <3>1, <3>2, <3>5, <3>6, <3>7, Zenon
  <2>5. Behind(cur, org, lists)
    <3>1. SUFFICES ASSUME NEW p \in PlacesOf(lists)
                   PROVE  /\ cur # NoCursor /\ lists[p[1]][p[2]] <= cur
                          /\ timeline # "dm" => org <= lists[p[1]][p[2]]
      BY DEF Behind
    <3>2. CASE p \in PlacesOf(old)
      BY <3>2, <2>2, <1>9, Zenon DEF Behind
    <3>3. CASE p \notin PlacesOf(old)
      <4>1. PICK i \in answer : lists[p[1]][p[2]] = i
        BY <3>3, <2>3, Zenon
      <4>2. cur = N /\ i \in 1..N /\ (timeline # "dm" => org <= i)
        BY <1>8
      <4>3. cur # NoCursor /\ i <= cur
        BY <4>2, <1>1, <1>3
      <4>4. QED  BY <4>1, <4>2, <4>3
    <3>4. QED  BY <3>2, <3>3
  <2>6. Once(lists)
    <3>1. SUFFICES ASSUME NEW p \in PlacesOf(lists), NEW q \in PlacesOf(lists),
                          lists[p[1]][p[2]] = lists[q[1]][q[2]]
                   PROVE  p = q
      BY DEF Once
    <3>2. CASE p \in PlacesOf(old) /\ q \in PlacesOf(old)
      BY <3>1, <3>2, <2>2, <1>2, Zenon DEF Once
    <3>3. CASE p \in PlacesOf(old) /\ q \notin PlacesOf(old)
      BY <3>1, <3>3, <2>4, Zenon
    <3>4. CASE p \notin PlacesOf(old) /\ q \in PlacesOf(old)
      BY <3>1, <3>4, <2>4, Zenon
    <3>5. CASE p \notin PlacesOf(old) /\ q \notin PlacesOf(old)
      <4>1. PICK a \in 1..Len(list) :
              p = <<len, a>> /\ lists[p[1]][p[2]] = list[a] /\ list[a] # Blank
        BY <3>5, <2>3, Zenon
      <4>2. PICK b \in 1..Len(list) :
              q = <<len, b>> /\ lists[q[1]][q[2]] = list[b] /\ list[b] # Blank
        BY <3>5, <2>3, Zenon
      <4>3. a = b
        BY <3>1, <4>1, <4>2, <1>4, Zenon
      <4>4. QED  BY <4>1, <4>2, <4>3, Zenon
    <3>6. QED  BY <3>2, <3>3, <3>4, <3>5
  <2>7. Ordered(lists)
    <3>1. SUFFICES ASSUME timeline # "about_me",
                          NEW p \in PlacesOf(lists), NEW q \in PlacesOf(lists), Before(p, q)
                   PROVE  lists[p[1]][p[2]] < lists[q[1]][q[2]]
      BY DEF Ordered
    <3>2. CASE p \in PlacesOf(old) /\ q \in PlacesOf(old)
      BY <3>1, <3>2, <2>2, <1>2, Zenon DEF Ordered
    <3>3. CASE p \in PlacesOf(old) /\ q \notin PlacesOf(old)
      BY <3>3, <2>4
    <3>4. CASE p \notin PlacesOf(old) /\ q \in PlacesOf(old)
      <4>1. q[1] < p[1] /\ q[1] \in Nat /\ p[1] \in Nat
        BY <3>4, <2>4
      <4>2. QED  BY <3>1, <4>1 DEF Before
    <3>5. CASE p \notin PlacesOf(old) /\ q \notin PlacesOf(old)
      <4>1. PICK a \in 1..Len(list) :
              /\ p[1] = len /\ p[2] = a
              /\ lists[p[1]][p[2]] = list[a] /\ list[a] # Blank
        BY <3>5, <2>3, Zenon
      <4>2. PICK b \in 1..Len(list) :
              /\ q[1] = len /\ q[2] = b
              /\ lists[q[1]][q[2]] = list[b] /\ list[b] # Blank
        BY <3>5, <2>3, Zenon
      <4>3. a < b
        BY <3>1, <4>1, <4>2, <2>a DEF Before
      <4>4. QED  BY <3>1, <4>1, <4>2, <4>3, <1>4
    <3>6. QED  BY <3>2, <3>3, <3>4, <3>5
  <2>8. Complete(cur, org, lists, lst)
    <3>1. SUFFICES ASSUME NEW i \in (org + 1)..cur, cur # NoCursor, Shown(i), i \notin lst
                   PROVE  \E p \in PlacesOf(lists) : lists[p[1]][p[2]] = i
      BY DEF Complete
    <3>2. CASE \E p \in PlacesOf(old) : old[p[1]][p[2]] = i
      BY <3>2, <2>2, Zenon
    <3>3. CASE i \in answer
      <4>1. PICK a \in 1..Len(list) : list[a] = i
        BY <3>1, <3>3, <1>4
      <4>2. i # Blank
        BY <3>3, <1>3 DEF Blank
      <4>3. <<len, a>> \in PlacesOf(lists) /\ lists[len][a] = i
        BY <4>1, <4>2, <2>2, Zenon
      <4>4. QED  BY <4>3
    <3>4. QED  BY <3>1, <3>2, <3>3, <1>11
  <2>9. QED  BY <2>2, <2>5, <2>6, <2>7, <2>8, <1>c, <1>6, <1>10 DEF Fed
<1>14. QED  BY <1>12, <1>13

-----------------------------------------------------------------------------
(* The other steps.                                                        *)

\* A step that leaves the items and what a thread was given alone.
LEMMA SameFeed ==
  ASSUME NEW t \in Threads, FeedInv(t), UNCHANGED twitterVars,
         cursor'[t] = cursor[t], origin'[t] = origin[t], opened'[t] = opened[t],
         batches'[t] = batches[t], lost'[t] = lost[t],
         first'[t] => first[t], pc'[t] = "off" => first'[t]
  PROVE  FeedInv(t)'
<1>1. timeline' = timeline /\ posted' = posted
  BY DEF twitterVars
<1>2. \A i : Shown(i)' = Shown(i)
  BY <1>1 DEF Shown
<1>3. Cursors(cursor[t], origin[t], first[t], opened[t], batches[t])'
  BY <1>1 DEF FeedInv, Cursors
<1>4. Behind(cursor[t], origin[t], batches[t])'
  BY <1>1 DEF FeedInv, Behind
<1>5. Once(batches[t])' /\ Ordered(batches[t])'
  BY <1>1 DEF FeedInv, Once, Ordered
<1>6. Complete(cursor[t], origin[t], batches[t], lost[t])'
  BY <1>1, <1>2 DEF FeedInv, Complete
<1>7. QED  BY <1>3, <1>4, <1>5, <1>6 DEF FeedInv

LEMMA NoPackets == PlacesOf(<<>>) = {}
  BY DEF PlacesOf

LEMMA PostKeeps == ASSUME IInv, Post PROVE IInv'
<1> DEFINE N == Len(posted)
<1>1. PICK i \in Item : posted' = Append(posted, i)
  BY DEF Post
<1>2. timeline' = timeline /\ UNCHANGED threadVars
  BY DEF Post
<1>3. posted \in Seq(Item) /\ Item' = Item
  BY <1>2 DEF IInv, Types, Item
<1>4. /\ N \in Nat /\ posted' \in Seq(Item) /\ Len(posted') = N + 1
      /\ \A j \in 1..N : posted'[j] = posted[j]
  BY <1>1, <1>3, AppendProperties, LenProperties
<1>5. Types'
  BY <1>2, <1>3, <1>4 DEF IInv, Types, threadVars
<1>6. ASSUME NEW t \in Threads PROVE FeedInv(t)'
  <2>1. /\ FeedInv(t) /\ opened[t] \in Nat /\ NoCursor \notin Nat
        /\ cursor[t] \in Cursor /\ origin[t] \in Cursor
    BY FeedAssumption DEF IInv, Types
  <2>2. /\ cursor' = cursor /\ origin' = origin /\ first' = first /\ opened' = opened
        /\ batches' = batches /\ lost' = lost /\ pc' = pc
    BY <1>2 DEF threadVars
  <2>3. Cursors(cursor[t], origin[t], first[t], opened[t], batches[t])'
    BY <1>2, <1>4, <2>1, <2>2 DEF FeedInv, Cursors
  <2>4. Behind(cursor[t], origin[t], batches[t])'
    BY <1>2, <2>1, <2>2 DEF FeedInv, Behind
  <2>5. Once(batches[t])' /\ Ordered(batches[t])'
    BY <1>2, <2>1, <2>2 DEF FeedInv, Once, Ordered
  <2>6. Complete(cursor[t], origin[t], batches[t], lost[t])'
    <3>1. SUFFICES ASSUME cursor[t] # NoCursor, NEW j \in (origin[t] + 1)..cursor[t], Shown(j)'
                   PROVE  j \in lost[t]
                          \/ \E p \in PlacesOf(batches[t]) : batches[t][p[1]][p[2]] = j
      BY <2>2 DEF Complete
    <3>2. cursor[t] \in 0..N /\ origin[t] \in 0..cursor[t]
      BY <2>1, <3>1 DEF FeedInv, Cursors
    <3>3. j \in 1..N
      BY <1>4, <3>1, <3>2
    <3>4. Shown(j)
      BY <1>2, <1>4, <3>1, <3>3 DEF Shown
    <3>5. QED  BY <2>1, <3>1, <3>4 DEF FeedInv, Complete
  <2>7. QED  BY <2>1, <2>2, <2>3, <2>4, <2>5, <2>6 DEF FeedInv
<1>7. QED  BY <1>5, <1>6 DEF IInv

LEMMA StartKeeps == ASSUME IInv, NEW t \in Threads, Start(t) PROVE IInv'
<1>1. /\ pc[t] = "off" /\ pc' = [pc EXCEPT ![t] = "check"]
      /\ opened' = [opened EXCEPT ![t] = Len(posted)]
      /\ UNCHANGED twitterVars
      /\ UNCHANGED <<cancelled, cursor, first, batches, origin, lost>>
  BY DEF Start, Goto
<1>2. Len(posted) \in Nat
  BY LenProperties DEF IInv, Types
<1>3. Types'
  <2>1. Item' = Item
    BY <1>1 DEF Item, twitterVars
  <2>2. QED  BY <1>1, <1>2, <2>1 DEF IInv, Types, twitterVars
<1>4. ASSUME NEW u \in Threads PROVE FeedInv(u)'
  <2>1. FeedInv(u)
    BY DEF IInv
  <2>2. CASE u # t
    <3>1. opened'[u] = opened[u] /\ pc'[u] = pc[u]
      BY <1>1, <2>2 DEF IInv, Types
    <3>2. pc'[u] = "off" => first'[u]
      BY <1>1, <2>1, <3>1 DEF FeedInv
    <3>3. QED  BY <1>1, <2>1, <3>1, <3>2, SameFeed
  <2>3. CASE u = t
    <3>1. first[t] /\ cursor[t] = NoCursor /\ batches[t] = <<>> /\ origin[t] = NoCursor
      BY <1>1, <2>1, <2>3 DEF FeedInv, Cursors
    <3>2. opened'[t] = Len(posted') /\ pc'[t] = "check" /\ posted' = posted
      BY <1>1 DEF IInv, Types, twitterVars
    <3>3. /\ Cursors(NoCursor, NoCursor, first[t], opened[t], <<>>)'
          /\ Behind(NoCursor, NoCursor, <<>>)'
          /\ Once(<<>>)' /\ Ordered(<<>>)'
          /\ Complete(NoCursor, NoCursor, <<>>, lost[t])'
      BY <1>2, <3>2, NoPackets DEF Cursors, Behind, Once, Ordered, Complete
    <3>4. QED  BY <1>1, <2>3, <3>1, <3>2, <3>3 DEF FeedInv
  <2>4. QED  BY <2>2, <2>3
<1>5. QED  BY <1>3, <1>4 DEF IInv

\* A step of a thread that moves on, is told to stop, or fails.
Moves(t) ==
  /\ UNCHANGED twitterVars /\ UNCHANGED <<cursor, batches, opened, origin, lost>>
  /\ cancelled' \in [Threads -> BOOLEAN]
  /\ \/ pc' = pc
     \/ \E to \in {"check", "request", "wait", "done"} : pc' = [pc EXCEPT ![t] = to]
  /\ \/ first' = first
     \/ first' = [first EXCEPT ![t] = FALSE] /\ pc' = [pc EXCEPT ![t] = "wait"]

LEMMA MoveKeeps == ASSUME IInv, NEW t \in Threads, Moves(t) PROVE IInv'
<1>a. /\ UNCHANGED twitterVars /\ UNCHANGED <<cursor, batches, opened, origin, lost>>
      /\ cancelled' \in [Threads -> BOOLEAN]
      /\ \/ pc' = pc
         \/ \E to \in {"check", "request", "wait", "done"} : pc' = [pc EXCEPT ![t] = to]
      /\ \/ first' = first
         \/ first' = [first EXCEPT ![t] = FALSE] /\ pc' = [pc EXCEPT ![t] = "wait"]
  BY DEF Moves
<1> USE <1>a
<1>1. Types'
  <2>1. Item' = Item
    BY DEF Item, twitterVars
  <2>2. pc' \in [Threads -> {"off", "check", "request", "wait", "done"}]
    BY DEF IInv, Types
  <2>3. first' \in [Threads -> BOOLEAN]
    BY DEF IInv, Types
  <2>4. QED  BY <2>1, <2>2, <2>3 DEF IInv, Types, twitterVars
<1>2. ASSUME NEW u \in Threads PROVE FeedInv(u)'
  <2>1. FeedInv(u)
    BY DEF IInv
  <2>2. first'[u] => first[u]
    BY DEF IInv, Types
  <2>3. pc'[u] = "off" => pc[u] = "off" /\ first'[u] = first[u]
    BY DEF IInv, Types
  <2>4. pc'[u] = "off" => first'[u]
    BY <2>1, <2>3 DEF FeedInv
  <2>5. QED  BY <2>1, <2>2, <2>4, SameFeed
<1>3. QED  BY <1>1, <1>2 DEF IInv

LEMMA RefreshKeeps == ASSUME IInv, NEW t \in Threads, Refresh(t) PROVE IInv'
<1> DEFINE c == NextCursor(Answer(t))
           cur == IF c = NoCursor THEN cursor[t] ELSE c
           org == IF origin[t] = NoCursor THEN c ELSE origin[t]
           lst == IF cursor[t] = NoCursor THEN lost[t]
                  ELSE lost[t] \cup (Newer(t) \ Answer(t))
<1>1. PICK list \in Packets(Answer(t)) :
        batches' = [batches EXCEPT ![t] =
                      IF first[t] \/ list = <<>> THEN @ ELSE Append(@, list)]
  BY DEF Refresh
<1> DEFINE lists == IF first[t] \/ list = <<>> THEN batches[t]
                    ELSE Append(batches[t], list)
<1>2. /\ pc' = [pc EXCEPT ![t] = "wait"]
      /\ cursor' = [cursor EXCEPT ![t] = cur]
      /\ origin' = [origin EXCEPT ![t] = org]
      /\ batches' = [batches EXCEPT ![t] = lists]
      /\ lost' = [lost EXCEPT ![t] = lst]
      /\ first' = [first EXCEPT ![t] = FALSE]
      /\ UNCHANGED twitterVars /\ UNCHANGED <<cancelled, opened>>
  BY <1>1 DEF Refresh, Goto
<1>3. /\ cur \in Cursor /\ org \in Cursor /\ lists \in Seq(Seq(Nat)) /\ lst \in SUBSET Nat
      /\ Cursors(cur, org, FALSE, opened[t], lists)
      /\ Behind(cur, org, lists) /\ Once(lists) /\ Ordered(lists)
      /\ Complete(cur, org, lists, lst)
  <2>1. Refreshed(t, list, cur, org, lists, lst)
    BY DEF Refreshed
  <2> HIDE DEF c, cur, org, lst, lists
  <2>2. Fed(t, cur, org, lists, lst)
    BY <2>1, RefreshFeed, Zenon
  <2>3. QED  BY <2>2 DEF Fed
<1> HIDE DEF c, cur, org, lst, lists
<1>4. Types'
  <2>1. Item' = Item
    BY <1>2 DEF Item, twitterVars
  <2>2. QED  BY <1>2, <1>3, <2>1 DEF IInv, Types, twitterVars
<1>5. ASSUME NEW u \in Threads PROVE FeedInv(u)'
  <2>1. CASE u # t
    <3>1. /\ cursor'[u] = cursor[u] /\ origin'[u] = origin[u] /\ opened'[u] = opened[u]
          /\ batches'[u] = batches[u] /\ lost'[u] = lost[u]
          /\ first'[u] = first[u] /\ pc'[u] = pc[u]
      BY <1>2, <2>1 DEF IInv, Types
    <3>2. FeedInv(u)
      BY DEF IInv
    <3>3. pc'[u] = "off" => first'[u]
      BY <3>1, <3>2 DEF FeedInv
    <3>4. first'[u] => first[u]
      BY <3>1
    <3>5. QED  BY <1>2, <3>1, <3>2, <3>3, <3>4, SameFeed
  <2>2. CASE u = t
    <3>1. /\ cursor'[t] = cur /\ origin'[t] = org /\ opened'[t] = opened[t]
          /\ batches'[t] = lists /\ lost'[t] = lst
          /\ first'[t] = FALSE /\ pc'[t] = "wait"
          /\ timeline' = timeline /\ posted' = posted
      BY <1>2 DEF IInv, Types, twitterVars
    <3>2. \A i : Shown(i)' = Shown(i)
      BY <3>1 DEF Shown
    <3>3. Cursors(cursor[t], origin[t], first[t], opened[t], batches[t])'
      BY <1>3, <3>1 DEF Cursors
    <3>4. Behind(cursor[t], origin[t], batches[t])'
      BY <1>3, <3>1 DEF Behind
    <3>5. Once(batches[t])' /\ Ordered(batches[t])'
      BY <1>3, <3>1 DEF Once, Ordered
    <3>6. Complete(cursor[t], origin[t], batches[t], lost[t])'
      BY <1>3, <3>1, <3>2 DEF Complete
    <3>7. QED  BY <2>2, <3>1, <3>3, <3>4, <3>5, <3>6 DEF FeedInv
  <2>3. QED  BY <2>1, <2>2
<1>6. QED  BY <1>4, <1>5 DEF IInv

LEMMA InitHolds == Init => IInv
<1>1. SUFFICES ASSUME Init PROVE IInv
  OBVIOUS
<1>2. posted \in Seq(Item) /\ Len(posted) = 0 /\ <<>> \in Seq(Seq(Nat))
  BY <1>1 DEF Init
<1>3. Types
  BY <1>1, <1>2 DEF Init, Types, Cursor
<1>4. ASSUME NEW t \in Threads PROVE FeedInv(t)
  <2>1. /\ cursor[t] = NoCursor /\ origin[t] = NoCursor /\ first[t] /\ opened[t] = 0
        /\ batches[t] = <<>>
    BY <1>1 DEF Init
  <2>2. /\ Cursors(NoCursor, NoCursor, first[t], 0, <<>>)
        /\ Behind(NoCursor, NoCursor, <<>>)
        /\ Once(<<>>) /\ Ordered(<<>>)
        /\ Complete(NoCursor, NoCursor, <<>>, lost[t])
    BY <1>2, NoPackets DEF Cursors, Behind, Once, Ordered, Complete
  <2>3. QED  BY <2>1, <2>2 DEF FeedInv
<1>5. QED  BY <1>3, <1>4 DEF IInv

LEMMA StepKeeps == ASSUME IInv, [Next]_vars PROVE IInv'
<1>1. ASSUME NEW t \in Threads, Stop(t) \/ Check(t) \/ RefreshFails(t) \/ WaitEnds(t)
      PROVE  IInv'
  <2>1. UNCHANGED twitterVars /\ UNCHANGED <<cursor, batches, opened, origin, lost>>
    BY <1>1 DEF Stop, Check, RefreshFails, WaitEnds
  <2>2. cancelled' \in [Threads -> BOOLEAN]
    BY <1>1 DEF IInv, Types, Stop, Check, RefreshFails, WaitEnds
  <2>3. \/ pc' = pc
        \/ \E to \in {"check", "request", "wait", "done"} : pc' = [pc EXCEPT ![t] = to]
    BY <1>1 DEF Stop, Check, RefreshFails, WaitEnds, Goto
  <2>4. \/ first' = first
        \/ first' = [first EXCEPT ![t] = FALSE] /\ pc' = [pc EXCEPT ![t] = "wait"]
    BY <1>1 DEF Stop, Check, RefreshFails, WaitEnds, Goto
  <2>5. Moves(t)
    BY <2>1, <2>2, <2>3, <2>4 DEF Moves
  <2>6. QED  BY <2>5, MoveKeeps
<1>2. CASE UNCHANGED vars
  <2>1. UNCHANGED twitterVars /\ UNCHANGED threadVars
    BY <1>2 DEF vars
  <2>2. Types'
    BY <2>1 DEF IInv, Types, Item, twitterVars, threadVars
  <2>3. ASSUME NEW t \in Threads PROVE FeedInv(t)'
    <3>1. FeedInv(t)
      BY DEF IInv
    <3>2. QED  BY <2>1, <3>1, SameFeed DEF threadVars, FeedInv
  <2>4. QED  BY <2>2, <2>3 DEF IInv
<1>3. QED  BY <1>1, <1>2, PostKeeps, StartKeeps, RefreshKeeps DEF Next

-----------------------------------------------------------------------------
(* Theorems.                                                               *)

\* The feeds of all threads are as the invariant says, at any time.
THEOREM Invariance == Spec => []IInv
<1>1. Init => IInv
  BY InitHolds
<1>2. IInv /\ [Next]_vars => IInv'
  BY StepKeeps
<1>3. QED  BY <1>1, <1>2, PTL DEF Spec

\* Every variable has its type, a cursor is the place of an item and does not
\* go behind the first one, and nothing is given before the flag falls.
THEOREM TypeCorrect == Spec => []TypeOK
<1>1. IInv => TypeOK
  <2>1. SUFFICES ASSUME IInv PROVE TypeOK
    OBVIOUS
  <2>2. ASSUME NEW t \in Threads
        PROVE  /\ cursor[t] # NoCursor =>
                    cursor[t] \in 0..Len(posted) /\ origin[t] \in 0..cursor[t]
               /\ (cursor[t] = NoCursor) = (origin[t] = NoCursor)
               /\ first[t] => batches[t] = <<>>
    BY <2>1 DEF IInv, FeedInv, Cursors
  <2>3. QED  BY <2>1, <2>2 DEF IInv, Types, TypeOK
<1>2. QED  BY <1>1, Invariance, PTL

LEMMA GivenPlaces == \A t : Given(t) = PlacesOf(batches[t])
  BY DEF Given, PlacesOf, At

\* A thread gives no item twice, for any answers and failures.
THEOREM GivenOnce == Spec => []NoDuplicate
<1>1. IInv => NoDuplicate
  BY GivenPlaces DEF IInv, FeedInv, Once, NoDuplicate, At
<1>2. QED  BY <1>1, Invariance, PTL

\* A thread gives statuses and messages in the order of posting.
THEOREM GivenInOrder == Spec => []InOrder
<1>1. IInv => InOrder
  BY GivenPlaces DEF IInv, FeedInv, Ordered, InOrder, At
<1>2. QED  BY <1>1, Invariance, PTL

\* Nothing between a thread's first cursor and its last is passed over, but
\* for what an answer was too short for.
THEOREM NothingPassedOver == Spec => []NoGap
<1>1. IInv => NoGap
  <2>1. SUFFICES ASSUME IInv, NEW t \in Threads, cursor[t] # NoCursor,
                        NEW i \in (origin[t] + 1)..cursor[t], Shown(i), i \notin lost[t]
                 PROVE  i \in GivenItems(t)
    BY DEF NoGap
  <2>2. \E p \in PlacesOf(batches[t]) : batches[t][p[1]][p[2]] = i
    BY <2>1 DEF IInv, FeedInv, Complete
  <2>3. QED  BY <2>2, GivenPlaces DEF GivenItems, At
<1>2. QED  BY <1>1, Invariance, PTL

\* At most one status or activity from before its session is given by a thread.
THEOREM OldestIsOne == Spec => []OneOldItem
<1>1. IInv => OneOldItem
  <2>1. SUFFICES ASSUME IInv, timeline # "dm", NEW t \in Threads
                 PROVE  Cardinality({i \in GivenItems(t) : i <= opened[t]}) <= 1
    BY DEF OneOldItem
  <2> DEFINE old == {i \in GivenItems(t) : i <= opened[t]}
  <2>2. FeedInv(t) /\ batches[t] \in Seq(Seq(Nat)) /\ opened[t] \in Nat
    BY <2>1 DEF IInv, Types
  <2>3. \A i \in old : i = origin[t]
    <3>1. SUFFICES ASSUME NEW p \in PlacesOf(batches[t]),
                          batches[t][p[1]][p[2]] <= opened[t]
                   PROVE  batches[t][p[1]][p[2]] = origin[t]
      BY GivenPlaces DEF GivenItems, At
    <3>2. batches[t][p[1]][p[2]] \in Nat
      BY <2>2, PlacedItem
    <3>3. cursor[t] # NoCursor /\ origin[t] <= batches[t][p[1]][p[2]]
      BY <2>1, <2>2 DEF FeedInv, Behind
    <3>4. cursor[t] \in 0..Len(posted) /\ origin[t] \in 0..cursor[t] /\ opened[t] <= origin[t]
      BY <2>1, <2>2, <3>3 DEF FeedInv, Cursors
    <3>5. Len(posted) \in Nat
      BY <2>1, LenProperties DEF IInv, Types
    <3>6. origin[t] \in Nat
      BY <3>4, <3>5
    <3>7. \A i, open, org \in Nat : i <= open /\ open <= org /\ org <= i => i = org
      OBVIOUS
    <3>8. QED  BY <2>2, <3>1, <3>2, <3>3, <3>4, <3>6, <3>7, Zenon
  <2> HIDE DEF old
  <2>4. old \subseteq {origin[t]}
    BY <2>3
  <2>5. IsFiniteSet({origin[t]}) /\ Cardinality({origin[t]}) = 1
    BY FS_Singleton
  <2>6. Cardinality(old) <= 1
    BY <2>4, <2>5, FS_Subset
  <2>7. QED  BY <2>6 DEF old
<1>2. QED  BY <1>1, Invariance, PTL
-----------------------------------------------------------------------------
(* What makes ItemArrives true, step by step.                              *)

\* One answer is enough: with it a thread that has a cursor has given all that
\* was posted since its first cursor, whichever refreshes failed before and
\* however long ago the last answer was; and nothing but an answer moves the
\* cursor, which goes forward only.
OneAnswerSuffices ==
  [][\A t \in Threads :
       /\ Refresh(t) /\ origin[t] # NoCursor =>
            /\ cursor'[t] = Len(posted)
            /\ \A i \in (origin[t] + 1)..Len(posted) :
                 Shown(i) => i \in GivenItems(t)' \cup lost'[t]
       /\ Refresh(t) /\ posted # <<>> => origin'[t] # NoCursor
       /\ cursor[t] # NoCursor => /\ origin'[t] = origin[t]
                                  /\ cursor'[t] \in cursor[t]..Len(posted')
       /\ cursor'[t] # cursor[t] => Refresh(t)]_vars

\* The thread whose refresh is answered is at the newest item.
LEMMA RefreshCatchesUp ==
  ASSUME IInv, NEW t \in Threads, Refresh(t)
  PROVE  /\ UNCHANGED twitterVars
         /\ \A u \in Threads \ {t} : cursor'[u] = cursor[u] /\ origin'[u] = origin[u]
         /\ cursor[t] # NoCursor => cursor'[t] = Len(posted) /\ origin'[t] = origin[t]
         /\ posted # <<>> => origin'[t] # NoCursor
<1> DEFINE N == Len(posted)  c == NextCursor(Answer(t))
<1>1. Types /\ FeedInv(t) /\ NoCursor \notin Nat
  BY FeedAssumption DEF IInv
<1>2. /\ cursor[t] # NoCursor => cursor[t] \in 0..N
      /\ cursor[t] = NoCursor <=> origin[t] = NoCursor
  BY <1>1 DEF FeedInv, Cursors
<1>3. /\ N \in Nat
      /\ Newer(t) = {i \in 1..N : cursor[t] # NoCursor => i > cursor[t]}
      /\ Answer(t) = {} => Newer(t) = {}
      /\ c = IF timeline = "dm" \/ Answer(t) # {} THEN N ELSE NoCursor
  BY <1>1, <1>2, AnswerFacts
<1>4. /\ UNCHANGED twitterVars
      /\ cursor' = [cursor EXCEPT ![t] = IF c = NoCursor THEN @ ELSE c]
      /\ origin' = [origin EXCEPT ![t] = IF @ = NoCursor THEN c ELSE @]
      /\ DOMAIN cursor = Threads /\ DOMAIN origin = Threads
  BY <1>1 DEF Refresh, Types
<1> HIDE DEF c
<1>5. /\ cursor'[t] = IF c = NoCursor THEN cursor[t] ELSE c
      /\ origin'[t] = IF origin[t] = NoCursor THEN c ELSE origin[t]
      /\ \A u \in Threads \ {t} : cursor'[u] = cursor[u] /\ origin'[u] = origin[u]
  BY <1>4
<1>6. ASSUME cursor[t] # NoCursor PROVE cursor'[t] = N /\ origin'[t] = origin[t]
  <2>1. CASE c = NoCursor
    <3>1. Newer(t) = {}
      BY <2>1, <1>1, <1>3
    <3>2. ~(N > cursor[t]) \/ N = 0
      BY <3>1, <1>3, <1>6
    <3>3. cursor[t] = N
      BY <3>2, <1>2, <1>3, <1>6
    <3>4. QED  BY <2>1, <3>3, <1>2, <1>5, <1>6
  <2>2. CASE c # NoCursor
    BY <2>2, <1>2, <1>3, <1>5, <1>6
  <2>3. QED  BY <2>1, <2>2
<1>7. ASSUME posted # <<>> PROVE origin'[t] # NoCursor
  <2>1. CASE origin[t] # NoCursor
    BY <2>1, <1>5
  <2>2. CASE origin[t] = NoCursor
    <3>1. N # 0
      BY <1>1, <1>7, EmptySeq DEF Types
    <3>2. N \in Newer(t)
      BY <3>1, <2>2, <1>2, <1>3
    <3>3. c = N
      BY <3>2, <1>3
    <3>4. QED  BY <3>3, <2>2, <1>1, <1>3, <1>5
  <2>3. QED  BY <2>1, <2>2
<1>8. QED  BY <1>4, <1>5, <1>6, <1>7

\* What ItemArrives needs beside fairness: an answer gives all there is, and
\* what was given or passed stays so.
THEOREM AnswersSuffice == Spec => OneAnswerSuffices
<1> DEFINE Suffices(t) ==
       /\ Refresh(t) /\ origin[t] # NoCursor =>
            /\ cursor'[t] = Len(posted)
            /\ \A i \in (origin[t] + 1)..Len(posted) :
                 Shown(i) => i \in GivenItems(t)' \cup lost'[t]
       /\ Refresh(t) /\ posted # <<>> => origin'[t] # NoCursor
       /\ cursor[t] # NoCursor => /\ origin'[t] = origin[t]
                                  /\ cursor'[t] \in cursor[t]..Len(posted')
       /\ cursor'[t] # cursor[t] => Refresh(t)
<1>1. ASSUME IInv, Next, NEW t \in Threads PROVE Suffices(t)
  <2>1. /\ IInv' /\ Len(posted) \in Nat /\ NoCursor \notin Nat /\ posted \in Seq(Item)
        /\ cursor[t] # NoCursor => cursor[t] \in 0..Len(posted)
        /\ cursor[t] = NoCursor <=> origin[t] = NoCursor
    BY <1>1, StepKeeps, FeedAssumption, LenProperties DEF IInv, Types, FeedInv, Cursors
  <2>2. CASE Refresh(t)
    <3>1. /\ posted' = posted /\ timeline' = timeline
          /\ cursor[t] # NoCursor => cursor'[t] = Len(posted) /\ origin'[t] = origin[t]
          /\ posted # <<>> => origin'[t] # NoCursor
      BY <1>1, <2>2, RefreshCatchesUp DEF twitterVars
    <3>2. ASSUME origin[t] # NoCursor,
                 NEW i \in (origin[t] + 1)..Len(posted), Shown(i), i \notin lost'[t]
          PROVE  i \in GivenItems(t)'
      <4>1. cursor'[t] = Len(posted) /\ origin'[t] = origin[t] /\ cursor'[t] # NoCursor
        BY <2>1, <3>1, <3>2
      <4>2. Shown(i)'
        BY <3>1, <3>2 DEF Shown
      <4>3. i \in (origin'[t] + 1)..cursor'[t]
        BY <3>2, <4>1
      <4>4. Complete(cursor[t], origin[t], batches[t], lost[t])'
        BY <2>1 DEF IInv, FeedInv
      <4>5. \E p \in PlacesOf(batches'[t]) : batches'[t][p[1]][p[2]] = i
        BY <3>2, <4>1, <4>2, <4>3, <4>4 DEF Complete
      <4>6. QED  BY <4>5 DEF GivenItems, Given, PlacesOf, At
    <3>3. QED  BY <2>1, <2>2, <3>1, <3>2
  <2>3. CASE ~Refresh(t)
    <3>1. /\ cursor'[t] = cursor[t] /\ origin'[t] = origin[t]
      <4>1. CASE \E u \in Threads : Refresh(u)
        BY <4>1, <2>3, <1>1, RefreshCatchesUp
      <4>2. CASE ~\E u \in Threads : Refresh(u)
        BY <4>2, <1>1
        DEF Next, Post, Start, Stop, Check, RefreshFails, WaitEnds, threadVars
      <4>3. QED  BY <4>1, <4>2
    <3>2. Len(posted') \in Nat /\ Len(posted') >= Len(posted)
      <4>1. posted' = posted \/ \E i \in Item : posted' = Append(posted, i)
        BY <1>1
        DEF Next, Post, Start, Stop, Check, RefreshFails, Refresh, WaitEnds, twitterVars
      <4>2. QED  BY <2>1, <4>1
    <3>3. QED  BY <2>1, <2>3, <3>1, <3>2
  <2>4. QED  BY <2>2, <2>3
<1>3. IInv /\ [Next]_vars => [\A t \in Threads : Suffices(t)]_vars
  BY <1>1
<1>4. Spec => [][\A t \in Threads : Suffices(t)]_vars
  BY <1>3, Invariance, PTL DEF Spec
<1>5. QED  BY <1>4 DEF OneAnswerSuffices
=============================================================================
