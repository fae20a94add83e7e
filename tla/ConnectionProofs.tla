--------------------------- MODULE ConnectionProofs ---------------------------
(* Safety of one streaming connection for any number of senders, whichever *)
(* response writer it has.                                                 *)
EXTENDS Connection, TLAPS

\* The handler left its select because the context was done, and a context
\* stays done: this is what makes the select of a late sender refuse.
DoneBeforeLeaving == handler \in {"leave", "gone"} => ctxDone

IInv == TypeOK /\ DoneBeforeLeaving

LEMMA ReturnType ==
  ASSUME NEW c \in Callers
  PROVE  Return(c) \in {"loop", "rearm", "idle"}
  BY ConnectionAssumption DEF Return, Callers

\* A caller that moves about without the lock leaves its holder as it is.
LEMMA GotoUnlocked ==
  ASSUME TypeOK, NEW c \in Callers, NEW from, NEW to \in Waiting \cup Outside,
         from \in Waiting \cup Outside, Goto(c, from, to)
  PROVE  /\ pc' \in [Callers -> Waiting \cup Holding \cup Outside]
         /\ \A d \in Callers : pc'[d] \in Holding <=> writeLock = d
<1>1. pc' = [pc EXCEPT ![c] = to] /\ pc[c] \notin Holding /\ to \notin Holding
  BY DEF Goto, Waiting, Holding, Outside
<1>2. QED  BY <1>1 DEF TypeOK

-----------------------------------------------------------------------------
(* The caller's steps in sendInner.                                        *)

LEMMA SendStepKeeps ==
  ASSUME TypeOK, DoneBeforeLeaving, NEW c \in Callers, SendStep(c) \/ Lock(c)
  PROVE  TypeOK' /\ DoneBeforeLeaving'
<1> USE ConnectionAssumption, ReturnType
      DEF TypeOK, DoneBeforeLeaving, Goto, Waiting, Holding, Outside,
          environment, friendsVars
<1>1. CASE Check(c)
  <2>1. PICK to \in {"lock", "loop", "rearm", "idle"} : Goto(c, "check", to)
    BY <1>1 DEF Check
  <2>2. /\ pc' \in [Callers -> Waiting \cup Holding \cup Outside]
        /\ \A d \in Callers : pc'[d] \in Holding <=> writeLock = d
    BY <2>1, GotoUnlocked DEF Goto
  <2>3. QED  BY <1>1, <2>2 DEF Check
<1>2. CASE Lock(c)
  BY <1>2 DEF Lock
<1>3. CASE Select(c)
  <2>1. PICK to \in {"fail", "begin"} : Goto(c, "select", to)
    BY <1>3 DEF Select
  <2>2. pc' \in [Callers -> Waiting \cup Holding \cup Outside]
    BY <2>1
  <2>3. \A d \in Callers : pc'[d] \in Holding <=> pc[d] \in Holding
    BY <2>1
  <2>4. /\ notice' \in {"coming", "there", "taken"}
        /\ UNCHANGED <<writer, up, ctxDone, closed, writeLock, armed, tick,
                       handler, tmrWorking, tmrFriends>>
    BY <1>3 DEF Select
  <2>5. QED  BY <2>2, <2>3, <2>4
<1>4. CASE WriteOk(c)
  BY <1>4 DEF WriteOk
<1>5. CASE WriteFails(c)
  BY <1>5 DEF WriteFails
<1>6. CASE Fail(c)
  BY <1>6 DEF Fail
<1>7. CASE Reset(c)
  BY <1>7 DEF Reset
<1>8. CASE BeginWrite(c)
  BY <1>8 DEF BeginWrite
<1>9. QED  BY <1>1, <1>2, <1>3, <1>4, <1>5, <1>6, <1>7, <1>8 DEF SendStep

-----------------------------------------------------------------------------
(* Everybody else's.                                                       *)

LEMMA EnvironmentKeeps ==
  ASSUME TypeOK, DoneBeforeLeaving,
         ClientLeaves \/ ServerCancels \/ ServerNotifies \/ TimerExpires
  PROVE  TypeOK' /\ DoneBeforeLeaving'
<1> USE DEF TypeOK, DoneBeforeLeaving, friendsVars
<1>1. CASE ClientLeaves
  BY <1>1, ZenonT(30) DEF ClientLeaves
<1>2. CASE ServerCancels
  BY <1>2 DEF ServerCancels
<1>3. CASE ServerNotifies
  BY <1>3 DEF ServerNotifies
<1>4. CASE TimerExpires
  BY <1>4, ZenonT(30) DEF TimerExpires, environment
<1>5. QED  BY <1>1, <1>2, <1>3, <1>4

LEMMA CallerKeeps ==
  ASSUME TypeOK, DoneBeforeLeaving,
         \/ KeepAliveLoop \/ KeepAliveTick
         \/ \E s \in Senders : BeginSend(s)
         \/ Register \/ FriendsAnswered \/ FriendsRearm \/ FriendsFire
  PROVE  TypeOK' /\ DoneBeforeLeaving'
<1> USE DEF Waiting, Outside
<1>1. KeepAlive \in Callers /\ Friends \in Callers /\ Senders \subseteq Callers
  BY DEF Callers
<1>2. /\ pc' \in [Callers -> Waiting \cup Holding \cup Outside]
      /\ \A d \in Callers : pc'[d] \in Holding <=> writeLock = d
  <2>1. CASE UNCHANGED pc
    BY <2>1 DEF TypeOK
  <2>2. CASE \E c \in Callers, from \in Waiting \cup Outside,
                to \in Waiting \cup Outside : Goto(c, from, to)
    BY <2>2, GotoUnlocked
  <2>3. QED
    BY <1>1, <2>1, <2>2 DEF KeepAliveLoop, KeepAliveTick, BeginSend, Register,
       FriendsAnswered, FriendsRearm, FriendsFire
<1>3. /\ UNCHANGED <<writer, up, ctxDone, notice, closed, writeLock,
                     tmrWorking>>
      /\ tick' \in BOOLEAN /\ armed' \in BOOLEAN /\ tmrFriends' \in BOOLEAN
      /\ handler' \in {handler, "friends", "wait"}
  BY DEF TypeOK, KeepAliveLoop, KeepAliveTick, BeginSend, Register,
     FriendsAnswered, FriendsRearm, FriendsFire, environment, friendsVars
<1>4. QED  BY <1>2, <1>3 DEF TypeOK, DoneBeforeLeaving

LEMMA HandlerKeeps ==
  ASSUME TypeOK, DoneBeforeLeaving, Wake \/ Leave
  PROVE  TypeOK' /\ DoneBeforeLeaving'
  BY ZenonT(30) DEF TypeOK, DoneBeforeLeaving, Wake, Leave, environment

LEMMA StepKeeps == IInv /\ [Next]_vars => IInv'
<1>1. SUFFICES ASSUME TypeOK, DoneBeforeLeaving, [Next]_vars
               PROVE  TypeOK' /\ DoneBeforeLeaving'
  BY DEF IInv
<1>2. CASE UNCHANGED vars
  BY <1>1, <1>2 DEF TypeOK, DoneBeforeLeaving, vars, environment, friendsVars
<1>3. QED  BY <1>1, <1>2, SendStepKeeps, EnvironmentKeeps, CallerKeeps,
              HandlerKeeps DEF Next

LEMMA InitHolds == Init => IInv
  BY ConnectionAssumption
     DEF Init, IInv, TypeOK, DoneBeforeLeaving, Callers, Waiting, Holding, Outside

\* Every reachable state satisfies the inductive invariant.
THEOREM Invariance == Spec => []IInv
  BY InitHolds, StepKeeps, PTL DEF Spec

-----------------------------------------------------------------------------
\* The types hold, and writeLock is held exactly between Lock and Unlock.
THEOREM TypeCorrect == Spec => []TypeOK
<1>1. IInv => TypeOK
  BY DEF IInv
<1>2. QED  BY <1>1, Invariance, PTL

\* No two callers of sendInner write to the response at the same time.
THEOREM OneWriter == Spec => []WritesExclusive
<1>1. IInv => WritesExclusive
  BY DEF IInv, TypeOK, Holding, WritesExclusive
<1>2. QED  BY <1>1, Invariance, PTL

\* At most one write to the response is still to begin or to end when its
\* handler returns, and none follows it: who comes to the select later finds
\* the context done, whoever took the value of CloseNotify.
THEOREM OneLateWrite ==
  Spec => LateWriteIsTheLast /\ [](\A c, d \in PastSelect : c = d)
<1> DEFINE Late == handler = "gone" => PastSelect' \subseteq PastSelect
<1>1. ASSUME IInv, Next PROVE Late
  <2>1. SUFFICES ASSUME NEW c \in Callers, pc'[c] \in {"begin", "write"},
                        pc[c] \notin {"begin", "write"}, handler = "gone"
                 PROVE  FALSE
    BY DEF PastSelect
  <2>2. ctxDone
    BY <1>1, <2>1 DEF IInv, DoneBeforeLeaving
  <2>3. ASSUME NEW d \in Callers, SendStep(d) \/ Lock(d) PROVE FALSE
    BY <1>1, <2>1, <2>2, <2>3, ReturnType, ConnectionAssumption
       DEF IInv, TypeOK, SendStep, Check, Lock, Select, BeginWrite, WriteOk,
           WriteFails, Fail, Reset, Goto
  <2>4. QED
    BY <1>1, <2>1, <2>3, ConnectionAssumption
       DEF IInv, TypeOK, Next, Goto, Callers, friendsVars, ClientLeaves,
           ServerCancels, ServerNotifies, TimerExpires, KeepAliveLoop,
           KeepAliveTick, BeginSend, Register, FriendsAnswered, FriendsRearm,
           FriendsFire, Wake, Leave
<1>2. IInv /\ [Next]_vars => [Late]_vars
  BY <1>1
<1>3. IInv => \A c, d \in PastSelect : c = d
  BY DEF IInv, TypeOK, Holding, PastSelect
<1>4. QED  BY <1>2, <1>3, Invariance, PTL DEF Spec, LateWriteIsTheLast

-----------------------------------------------------------------------------
(* How it ends.  That the goroutines come to their ends is checked with    *)
(* fairness; here is what makes them come: each step is one of a bounded   *)
(* number, and nobody is left asleep.                                      *)

LEMMA CallersThere ==
  Friends \in Callers /\ KeepAlive \in Callers /\ Senders \subseteq Callers
  BY DEF Callers

\* Whoever finds the connection closed wakes keepAlive, which sleeps in a
\* receive with no timeout: it never sleeps on a closed connection without a
\* timer that runs, a value of it, or somebody about to reset it.
ClosedWakesKeepAlive ==
  closed /\ pc[KeepAlive] = "recv" =>
    armed \/ tick \/ \E c \in Callers : pc[c] = "reset"

LEMMA StepWakes ==
  IInv /\ ClosedWakesKeepAlive /\ [Next]_vars => ClosedWakesKeepAlive'
<1>1. SUFFICES ASSUME TypeOK, ClosedWakesKeepAlive, [Next]_vars,
                      closed', pc'[KeepAlive] = "recv"
               PROVE  armed' \/ tick' \/ \E c \in Callers : pc'[c] = "reset"
  BY DEF IInv, ClosedWakesKeepAlive
<1> USE <1>1, CallersThere, ConnectionAssumption
    DEF ClosedWakesKeepAlive, TypeOK, Goto, environment, friendsVars
<1>2. ASSUME NEW c \in Callers, SendStep(c) \/ Lock(c)
      PROVE  armed' \/ tick' \/ \E d \in Callers : pc'[d] = "reset"
  BY <1>2, ReturnType DEF SendStep, Check, Lock, Select, BeginWrite, WriteOk,
                          WriteFails, Fail, Reset
<1>3. CASE TimerExpires
  BY <1>3 DEF TimerExpires
<1>4. CASE KeepAliveLoop \/ KeepAliveTick
  BY <1>4 DEF KeepAliveLoop, KeepAliveTick
<1>5. CASE \/ ClientLeaves \/ ServerCancels \/ ServerNotifies \/ Wake \/ Leave
           \/ UNCHANGED vars
  BY <1>5 DEF ClientLeaves, ServerCancels, ServerNotifies, Wake, Leave, vars
<1>6. CASE \/ \E s \in Senders : BeginSend(s)
           \/ Register \/ FriendsAnswered \/ FriendsRearm \/ FriendsFire
  BY <1>6 DEF BeginSend, Register, FriendsAnswered, FriendsRearm, FriendsFire
<1>7. QED  BY <1>2, <1>3, <1>4, <1>5, <1>6 DEF Next

\* keepAlive never sleeps on a closed connection with nobody to wake it.
THEOREM NoLostWakeup == Spec => []ClosedWakesKeepAlive
<1>1. Init => ClosedWakesKeepAlive
  BY DEF Init, ClosedWakesKeepAlive
<1>2. QED  BY <1>1, StepWakes, Invariance, PTL DEF Spec

-----------------------------------------------------------------------------
\* What a send that has passed the test of closed has before its write ends.
Ahead(place) ==
  CASE place = "lock"   -> 4
    [] place = "select" -> 3
    [] place = "begin"  -> 2
    [] place = "write"  -> 1
    [] OTHER            -> 0

\* A connection found closed stays so, and each caller goes its last steps to
\* a write and then none: no step adds to them, and each one taken is used up.
ClosedFallsSilent ==
  [][closed =>
       /\ closed'
       /\ \A c \in Callers :
            \/ pc'[c] = pc[c]
            \/ Ahead(pc'[c]) < Ahead(pc[c]) \/ Ahead(pc'[c]) = 0]_vars

\* After the first failed send at most one more write of each caller begins.
THEOREM FallsSilent == Spec => ClosedFallsSilent
<1> DEFINE Falls(c) == \/ pc'[c] = pc[c]
                       \/ Ahead(pc'[c]) < Ahead(pc[c]) \/ Ahead(pc'[c]) = 0
           Silent == closed => closed' /\ \A c \in Callers : Falls(c)
<1>1. ASSUME IInv, Next PROVE Silent
  <2>1. SUFFICES ASSUME closed PROVE closed' /\ \A c \in Callers : Falls(c)
    OBVIOUS
  <2> USE <1>1, <2>1, CallersThere, ConnectionAssumption
      DEF IInv, TypeOK, Goto, environment, friendsVars
  <2>2. ASSUME NEW d \in Callers, SendStep(d) \/ Lock(d)
        PROVE  closed' /\ \A c \in Callers : Falls(c)
    <3>1. closed' /\ \A c \in Callers \ {d} : pc'[c] = pc[c]
      BY <2>2 DEF SendStep, Check, Lock, Select, BeginWrite, WriteOk,
                  WriteFails, Fail, Reset
    <3>2. \/ pc[d] = "lock" /\ pc'[d] = "select"
          \/ pc[d] = "select" /\ pc'[d] = "begin"
          \/ pc[d] = "begin" /\ pc'[d] = "write"
          \/ pc'[d] \in {"fail", "reset", Return(d)}
      BY <2>2 DEF SendStep, Check, Lock, Select, BeginWrite, WriteOk,
                  WriteFails, Fail, Reset
    <3>3. Falls(d)
      BY <3>2, ReturnType DEF Ahead
    <3>4. QED  BY <3>1, <3>3
  <2>3. ASSUME closed', NEW d \in Callers,
               NEW to \in Outside \cup {"check"}, NEW from, Goto(d, from, to)
        PROVE  \A c \in Callers : Falls(c)
    BY <2>3 DEF Ahead, Outside
  <2>4. CASE UNCHANGED pc
    BY <2>4, <2>2 DEF Next, ClientLeaves, ServerCancels, ServerNotifies,
       TimerExpires, KeepAliveLoop, KeepAliveTick, BeginSend, Register,
       FriendsAnswered, FriendsRearm, FriendsFire, Wake, Leave
  <2>5. CASE pc' # pc
    <3>1. \/ \E d \in Callers : SendStep(d) \/ Lock(d)
          \/ /\ closed'
             /\ \E d \in Callers, to \in Outside \cup {"check"},
                   from \in Waiting \cup Outside : Goto(d, from, to)
      BY <2>5 DEF Next, ClientLeaves, ServerCancels, ServerNotifies,
         TimerExpires, KeepAliveLoop, KeepAliveTick, BeginSend, Register,
         FriendsAnswered, FriendsRearm, FriendsFire, Wake, Leave, Outside,
         Waiting
    <3>2. QED  BY <3>1, <2>2, <2>3
  <2>6. QED  BY <2>4, <2>5
<1>2. IInv /\ [Next]_vars => [Silent]_vars
  BY <1>1
<1>3. QED  BY <1>2, Invariance, PTL DEF Spec, ClosedFallsSilent

-----------------------------------------------------------------------------
\* The friends list is never asked for twice at a time: the timer runs only
\* while neither the handler nor the callback is amid a request, and who has
\* left the select has told the timer to stop.
OneFriendsChain ==
  /\ tmrFriends => pc[Friends] = "idle"
  /\ handler = "join" => pc[Friends] = "idle" /\ ~tmrFriends
  /\ handler = "friends" => pc[Friends] # "idle"
  /\ handler \in {"leave", "gone"} <=> tmrWorking

LEMMA StepKeepsChain ==
  IInv /\ OneFriendsChain /\ [Next]_vars => OneFriendsChain'
<1>1. SUFFICES ASSUME TypeOK, OneFriendsChain, [Next]_vars
               PROVE  OneFriendsChain'
  BY DEF IInv
<1> USE <1>1, CallersThere, ConnectionAssumption
    DEF OneFriendsChain, TypeOK, Goto, environment, friendsVars
<1>2. ASSUME NEW c \in Callers, SendStep(c) \/ Lock(c)
      PROVE  OneFriendsChain'
  <2>1. /\ UNCHANGED friendsVars
        /\ c # Friends => pc'[Friends] = pc[Friends]
        /\ pc[c] # "idle"
    BY <1>2 DEF SendStep, Check, Lock, Select, BeginWrite, WriteOk, WriteFails,
                Fail, Reset
  <2>2. c = Friends => pc'[c] # "idle"
    BY <1>2 DEF SendStep, Check, Lock, Select, BeginWrite, WriteOk, WriteFails,
                Fail, Reset, Return
  <2>3. QED  BY <2>1, <2>2
<1>3. CASE \/ TimerExpires \/ KeepAliveLoop \/ KeepAliveTick
           \/ ClientLeaves \/ ServerCancels \/ ServerNotifies
           \/ UNCHANGED vars
  BY <1>3 DEF TimerExpires, KeepAliveLoop, KeepAliveTick, ClientLeaves,
              ServerCancels, ServerNotifies, vars
<1>4. CASE \/ \E s \in Senders : BeginSend(s)
           \/ Register \/ FriendsAnswered
  BY <1>4 DEF BeginSend, Register, FriendsAnswered
<1>5. CASE FriendsRearm
  BY <1>5 DEF FriendsRearm
<1>6. CASE FriendsFire
  BY <1>6 DEF FriendsFire
<1>7. CASE Wake
  <2>1. handler' = "leave" /\ tmrWorking' /\ UNCHANGED pc
    BY <1>7 DEF Wake
  <2>2. CASE tmrFriends' = FALSE
    BY <2>1, <2>2
  <2>3. CASE tmrFriends' = tmrFriends
    BY <2>1, <2>3
  <2>4. QED  BY <1>7, <2>2, <2>3 DEF Wake
<1>8. CASE Leave
  BY <1>8, ZenonT(30) DEF Leave
<1>9. QED  BY <1>2, <1>3, <1>4, <1>5, <1>6, <1>7, <1>8 DEF Next

LEMMA ChainHolds == Spec => []OneFriendsChain
<1>1. Init => OneFriendsChain
  BY CallersThere, ConnectionAssumption DEF Init, OneFriendsChain
<1>2. QED  BY <1>1, StepKeepsChain, Invariance, PTL DEF Spec

\* No two requests for the friends list at a time, whoever makes them.
THEOREM OneFriendsRequest == Spec => []OneFriendsChain
BY ChainHolds

\* The steps that the friends timer and its callback have before them, if
\* nothing sets the timer again but the callback that is under way.
ChainAhead ==
  CASE pc[Friends] = "request" -> 10
    [] pc[Friends] = "check"   -> 9
    [] pc[Friends] = "lock"    -> 8
    [] pc[Friends] = "select"  -> 7
    [] pc[Friends] = "begin"   -> 6
    [] pc[Friends] = "write"   -> 5
    [] pc[Friends] = "fail"    -> 4
    [] pc[Friends] = "reset"   -> 3
    [] pc[Friends] = "rearm"   -> 2
    [] OTHER                   -> IF tmrFriends THEN 1 ELSE 0

\* Once the handler has told the friends timer to stop, each step of the
\* timer, of its callback and of the timer that this one may set again brings
\* them nearer to their end, however Stop and the callback race.
FriendsChainWanes ==
  [][tmrWorking => /\ tmrWorking'
                   /\ \/ UNCHANGED <<pc[Friends], tmrFriends>>
                      \/ ChainAhead' < ChainAhead]_vars

\* After the handler has left, the friends chain takes at most ten steps.
THEOREM ChainWanes == Spec => FriendsChainWanes
<1> DEFINE Nearer == \/ UNCHANGED <<pc[Friends], tmrFriends>>
                     \/ ChainAhead' < ChainAhead
           Wanes == tmrWorking => tmrWorking' /\ Nearer
<1>1. ASSUME IInv, OneFriendsChain, Next PROVE Wanes
  <2>1. SUFFICES ASSUME tmrWorking PROVE tmrWorking' /\ Nearer
    OBVIOUS
  <2> USE <1>1, <2>1, CallersThere, ConnectionAssumption
      DEF IInv, TypeOK, OneFriendsChain, Goto, environment, friendsVars
  <2>2. ASSUME NEW c \in Callers, SendStep(c) \/ Lock(c)
        PROVE  tmrWorking' /\ Nearer
    <3>1. UNCHANGED friendsVars
      BY <2>2 DEF SendStep, Check, Lock, Select, BeginWrite, WriteOk,
                  WriteFails, Fail, Reset
    <3>2. CASE c # Friends
      BY <2>2, <3>1, <3>2 DEF SendStep, Check, Lock, Select, BeginWrite,
                              WriteOk, WriteFails, Fail, Reset
    <3>3. CASE c = Friends
      <4>1. Return(c) = "rearm"
        BY <3>3 DEF Return
      <4>2. \/ pc[c] = "check" /\ pc'[c] \in {"lock", "rearm"}
            \/ pc[c] = "lock" /\ pc'[c] = "select"
            \/ pc[c] = "select" /\ pc'[c] \in {"begin", "fail"}
            \/ pc[c] = "begin" /\ pc'[c] = "write"
            \/ pc[c] = "write" /\ pc'[c] \in {"rearm", "fail"}
            \/ pc[c] = "fail" /\ pc'[c] = "reset"
            \/ pc[c] = "reset" /\ pc'[c] = "rearm"
        BY <2>2, <3>3, <4>1 DEF SendStep, Check, Lock, Select, BeginWrite,
                                WriteOk, WriteFails, Fail, Reset
      <4>3. ChainAhead' < ChainAhead
        BY <3>3, <4>2 DEF ChainAhead
      <4>4. QED  BY <3>1, <4>3
    <3>4. QED  BY <3>2, <3>3
  <2>3. CASE \/ TimerExpires \/ KeepAliveLoop \/ KeepAliveTick
             \/ ClientLeaves \/ ServerCancels \/ ServerNotifies
             \/ \E s \in Senders : BeginSend(s)
             \/ Leave
    BY <2>3 DEF TimerExpires, KeepAliveLoop, KeepAliveTick, ClientLeaves,
                ServerCancels, ServerNotifies, BeginSend, Leave
  <2>4. CASE Register \/ Wake
    BY <2>4 DEF Register, Wake
  <2>5. CASE FriendsAnswered
    <3>1. pc[Friends] = "request" /\ pc'[Friends] \in {"check", "rearm"}
      BY <2>5 DEF FriendsAnswered
    <3>2. QED  BY <2>5, <3>1 DEF FriendsAnswered, ChainAhead
  <2>6. CASE FriendsRearm
    <3>1. pc[Friends] = "rearm" /\ pc'[Friends] = "idle"
      BY <2>6 DEF FriendsRearm
    <3>2. QED  BY <2>6, <3>1 DEF FriendsRearm, ChainAhead
  <2>7. CASE FriendsFire
    <3>1. pc[Friends] = "idle" /\ pc' = pc /\ tmrFriends /\ ~tmrFriends'
      BY <2>7 DEF FriendsFire
    <3>2. QED  BY <2>7, <3>1 DEF FriendsFire, ChainAhead
  <2>8. QED  BY <2>2, <2>3, <2>4, <2>5, <2>6, <2>7 DEF Next
<1>2. IInv /\ OneFriendsChain /\ [Next]_vars => [Wanes]_vars
  BY <1>1
<1>3. QED  BY <1>2, Invariance, ChainHolds, PTL DEF Spec, FriendsChainWanes
=============================================================================
