------------------------- MODULE StreamSessionProofs -------------------------
(* Safety of the streaming session for any number of handlers, timelines   *)
(* and refresh threads, and that it implements PolledTimelines.            *)
EXTENDS StreamSession, TLAPS

-----------------------------------------------------------------------------
(* The inductive invariant.  TimelinesFollowConnections speaks of states   *)
(* where the lock is free; to carry it over a critical section one has to  *)
(* say how far the holder has come, and to carry OneLiveThread that a live *)
(* thread is always the one its timeline would cancel.                     *)

LockHolder == \A h \in Handlers : Critical(h) <=> connLock = h

Registered ==
  \A h \in Handlers :
    h \in connections <=> pc[h] \in {"friends", "wait", "leave"}

Starting ==
  \A h \in Handlers : pc[h] = "start" =>
    /\ connections = {}
    /\ \A tl \in TimeLines : running[tl] = None <=> tl \in todo

Pushing ==
  \A h \in Handlers : pc[h] = "push" =>
    /\ connections # {} /\ todo = {}
    /\ \A tl \in TimeLines : running[tl] # None

Stopping ==
  \A h \in Handlers : pc[h] = "stop" =>
    /\ connections = {}
    /\ \A tl \in TimeLines : running[tl] # None <=> tl \in todo

Live(t) == tstate[t] # "done" /\ ~cancelled[t]

RunningIsLive ==
  \A tl \in TimeLines : running[tl] # None =>
    Live(running[tl]) /\ tline[running[tl]] = tl

LiveIsRunning ==
  \A t \in Threads : Live(t) =>
    tline[t] \in TimeLines /\ running[tline[t]] = t

IInv ==
  /\ TypeOK
  /\ LockHolder
  /\ Registered
  /\ TimelinesFollowConnections
  /\ Starting
  /\ Pushing
  /\ Stopping
  /\ RunningIsLive
  /\ LiveIsRunning

-----------------------------------------------------------------------------
(* The steps that leave the lock, the list and the timelines alone.        *)

LEMMA OpenKeeps ==
  ASSUME IInv, NEW h \in Handlers, Open(h)
  PROVE  IInv'
<1> USE SessionAssumption DEF IInv, TypeOK, Critical, Open, Goto,
      accountVars, handlerVars, threadVars
<1>1. TypeOK' /\ LockHolder' /\ Registered'
  BY DEF LockHolder, Registered, HandlerState, ThreadState
<1>2. TimelinesFollowConnections' /\ Starting' /\ Pushing' /\ Stopping'
  BY DEF TimelinesFollowConnections, Starting, Pushing, Stopping
<1>3. RunningIsLive' /\ LiveIsRunning'
  BY DEF RunningIsLive, LiveIsRunning, Live
<1>4. QED  BY <1>1, <1>2, <1>3

LEMMA ClientGoneKeeps ==
  ASSUME IInv, NEW h \in Handlers, ClientGone(h)
  PROVE  IInv'
<1> USE SessionAssumption DEF IInv, TypeOK, Critical, ClientGone,
      accountVars, handlerVars, threadVars
<1>1. TypeOK' /\ LockHolder' /\ Registered'
  BY DEF LockHolder, Registered, HandlerState, ThreadState
<1>2. TimelinesFollowConnections' /\ Starting' /\ Pushing' /\ Stopping'
  BY DEF TimelinesFollowConnections, Starting, Pushing, Stopping
<1>3. RunningIsLive' /\ LiveIsRunning'
  BY DEF RunningIsLive, LiveIsRunning, Live
<1>4. QED  BY <1>1, <1>2, <1>3

LEMMA FirstFriendsKeeps ==
  ASSUME IInv, NEW h \in Handlers, FirstFriends(h)
  PROVE  IInv'
<1> USE SessionAssumption DEF IInv, TypeOK, Critical, FirstFriends, Goto,
      accountVars, handlerVars, threadVars
<1>1. TypeOK' /\ LockHolder' /\ Registered'
  BY DEF LockHolder, Registered, HandlerState, ThreadState
<1>2. TimelinesFollowConnections' /\ Starting' /\ Pushing' /\ Stopping'
  BY DEF TimelinesFollowConnections, Starting, Pushing, Stopping
<1>3. RunningIsLive' /\ LiveIsRunning'
  BY DEF RunningIsLive, LiveIsRunning, Live
<1>4. QED  BY <1>1, <1>2, <1>3

LEMMA WakeKeeps ==
  ASSUME IInv, NEW h \in Handlers, Wake(h)
  PROVE  IInv'
<1> USE SessionAssumption DEF IInv, TypeOK, Critical, Wake, Goto,
      accountVars, handlerVars, threadVars
<1>1. TypeOK' /\ LockHolder' /\ Registered'
  BY DEF LockHolder, Registered, HandlerState, ThreadState
<1>2. TimelinesFollowConnections' /\ Starting' /\ Pushing' /\ Stopping'
  BY DEF TimelinesFollowConnections, Starting, Pushing, Stopping
<1>3. RunningIsLive' /\ LiveIsRunning'
  BY DEF RunningIsLive, LiveIsRunning, Live
<1>4. QED  BY <1>1, <1>2, <1>3

LEMMA RequestFailsKeeps ==
  ASSUME IInv, NEW t \in Threads, RequestFails(t)
  PROVE  IInv'
<1> USE SessionAssumption DEF IInv, TypeOK, Critical, RequestFails,
      StepThread,
      accountVars, handlerVars, threadVars
<1>1. TypeOK' /\ LockHolder' /\ Registered'
  BY DEF LockHolder, Registered, HandlerState, ThreadState
<1>2. TimelinesFollowConnections' /\ Starting' /\ Pushing' /\ Stopping'
  BY DEF TimelinesFollowConnections, Starting, Pushing, Stopping
<1>3. RunningIsLive' /\ LiveIsRunning'
  BY DEF RunningIsLive, LiveIsRunning, Live
<1>4. QED  BY <1>1, <1>2, <1>3

LEMMA RequestDecodedKeeps ==
  ASSUME IInv, NEW t \in Threads, RequestDecoded(t)
  PROVE  IInv'
<1> USE SessionAssumption DEF IInv, TypeOK, Critical, RequestDecoded,
      StepThread,
      accountVars, handlerVars, threadVars
<1>1. TypeOK' /\ LockHolder' /\ Registered'
  BY DEF LockHolder, Registered, HandlerState, ThreadState
<1>2. TimelinesFollowConnections' /\ Starting' /\ Pushing' /\ Stopping'
  BY DEF TimelinesFollowConnections, Starting, Pushing, Stopping
<1>3. RunningIsLive' /\ LiveIsRunning'
  BY DEF RunningIsLive, LiveIsRunning, Live
<1>4. QED  BY <1>1, <1>2, <1>3

LEMMA CacheLockKeeps ==
  ASSUME IInv, NEW t \in Threads, CacheLock(t)
  PROVE  IInv'
<1> USE SessionAssumption DEF IInv, TypeOK, Critical, CacheLock,
      accountVars, handlerVars, threadVars
<1>1. TypeOK' /\ LockHolder' /\ Registered'
  BY DEF LockHolder, Registered, HandlerState, ThreadState
<1>2. TimelinesFollowConnections' /\ Starting' /\ Pushing' /\ Stopping'
  BY DEF TimelinesFollowConnections, Starting, Pushing, Stopping
<1>3. RunningIsLive' /\ LiveIsRunning'
  BY DEF RunningIsLive, LiveIsRunning, Live
<1>4. QED  BY <1>1, <1>2, <1>3

LEMMA CacheStoreKeeps ==
  ASSUME IInv, NEW t \in Threads, CacheStore(t)
  PROVE  IInv'
<1> USE SessionAssumption DEF IInv, TypeOK, Critical, CacheStore,
      accountVars, handlerVars, threadVars
<1>1. TypeOK' /\ LockHolder' /\ Registered'
  BY DEF LockHolder, Registered, HandlerState, ThreadState
<1>2. TimelinesFollowConnections' /\ Starting' /\ Pushing' /\ Stopping'
  BY DEF TimelinesFollowConnections, Starting, Pushing, Stopping
<1>3. RunningIsLive' /\ LiveIsRunning'
  BY DEF RunningIsLive, LiveIsRunning, Live
<1>4. QED  BY <1>1, <1>2, <1>3

-----------------------------------------------------------------------------
(* The critical sections of connectionsLock.                               *)

LEMMA LockToJoinKeeps ==
  ASSUME IInv, NEW h \in Handlers, LockToJoin(h)
  PROVE  IInv'
<1> USE SessionAssumption DEF IInv, LockToJoin, Goto, Alone, accountVars,
      handlerVars, threadVars
<1>1. TypeOK'
  BY DEF TypeOK, Critical, HandlerState, ThreadState
<1>2. LockHolder'
  BY DEF TypeOK, LockHolder, Critical
<1>3. Registered'
  BY DEF TypeOK, Registered, LockHolder, Critical
<1>4. TimelinesFollowConnections'
  BY DEF TypeOK, Critical, TimelinesFollowConnections, Starting, Pushing,
     Stopping, LockHolder, Registered
<1>5. Starting'
  BY DEF TypeOK, Critical, Starting, LockHolder, Registered,
     TimelinesFollowConnections
<1>6. Pushing'
  BY DEF TypeOK, Critical, Pushing, LockHolder, Registered,
     TimelinesFollowConnections
<1>7. Stopping'
  BY DEF TypeOK, Critical, Stopping, LockHolder, Registered,
     TimelinesFollowConnections
<1>8. RunningIsLive'
  BY DEF TypeOK, RunningIsLive, LiveIsRunning, Live
<1>9. LiveIsRunning'
  BY DEF TypeOK, LiveIsRunning, RunningIsLive, Live
<1>10. QED  BY <1>1, <1>2, <1>3, <1>4, <1>5, <1>6, <1>7, <1>8, <1>9

LEMMA StartNextKeeps ==
  ASSUME IInv, NEW h \in Handlers, StartNext(h)
  PROVE  IInv'
<1> USE SessionAssumption DEF IInv, StartNext, Start, accountVars,
      handlerVars, threadVars
<1>1. TypeOK'
  <2>1. connLock' \in {g \in Handlers : Critical(g)'} \cup {None}
    BY DEF TypeOK, Critical
  <2>2. PICK tl \in todo : Start(tl) /\ todo' = todo \ {tl}
    BY DEF TypeOK
  <2>3. CASE running[tl] # None
    BY <2>1, <2>2, <2>3 DEF TypeOK
  <2>4. CASE running[tl] = None
    <3>1. PICK t \in Threads :
            /\ running' = [running EXCEPT ![tl] = t]
            /\ tstate' = [tstate EXCEPT ![t] = "check"]
            /\ tline' = [tline EXCEPT ![t] = tl]
            /\ cancelled' = [cancelled EXCEPT ![t] = FALSE]
      BY <2>2, <2>4
    <3>2. /\ tstate'[t] = "check"
          /\ \A u \in Threads : tstate[u] # "done" => tstate'[u] # "done"
      BY <3>1 DEF TypeOK
    <3>3. running' \in [TimeLines -> {u \in Threads : tstate'[u] # "done"} \cup {None}]
      BY <3>1, <3>2 DEF TypeOK
    <3>4. /\ tstate' \in [Threads -> ThreadState]
          /\ tline' \in [Threads -> TimeLines \cup {None}]
          /\ cancelled' \in [Threads -> BOOLEAN]
      BY <2>2, <3>1 DEF TypeOK, ThreadState
    <3>5. QED  BY <2>1, <2>2, <3>3, <3>4 DEF TypeOK
  <2>5. QED  BY <2>3, <2>4
<1>2. LockHolder'
  BY DEF TypeOK, LockHolder, Critical
<1>3. Registered'
  BY DEF TypeOK, Registered, LockHolder, Critical
<1>4. TimelinesFollowConnections'
  BY DEF TypeOK, Critical, TimelinesFollowConnections, Starting, Pushing,
     Stopping, LockHolder, Registered
<1>5. Starting'
  BY DEF TypeOK, Critical, Starting, LockHolder, Registered,
     TimelinesFollowConnections
<1>6. Pushing'
  BY DEF TypeOK, Critical, Pushing, LockHolder, Registered,
     TimelinesFollowConnections
<1>7. Stopping'
  BY DEF TypeOK, Critical, Stopping, LockHolder, Registered,
     TimelinesFollowConnections
<1>8. RunningIsLive'
  BY DEF TypeOK, RunningIsLive, LiveIsRunning, Live
<1>9. LiveIsRunning'
  BY DEF TypeOK, LiveIsRunning, RunningIsLive, Live
<1>10. QED  BY <1>1, <1>2, <1>3, <1>4, <1>5, <1>6, <1>7, <1>8, <1>9

LEMMA PushKeeps ==
  ASSUME IInv, NEW h \in Handlers, Push(h)
  PROVE  IInv'
<1> USE SessionAssumption DEF IInv, Push, Goto, accountVars, handlerVars,
      threadVars
<1>1. TypeOK'
  BY DEF TypeOK, Critical, HandlerState, ThreadState
<1>2. LockHolder'
  BY DEF TypeOK, LockHolder, Critical
<1>3. Registered'
  BY DEF TypeOK, Registered, LockHolder, Critical
<1>4. TimelinesFollowConnections'
  BY DEF TypeOK, Critical, TimelinesFollowConnections, Starting, Pushing,
     Stopping, LockHolder, Registered
<1>5. Starting'
  BY DEF TypeOK, Critical, Starting, LockHolder, Registered,
     TimelinesFollowConnections
<1>6. Pushing'
  BY DEF TypeOK, Critical, Pushing, LockHolder, Registered,
     TimelinesFollowConnections
<1>7. Stopping'
  BY DEF TypeOK, Critical, Stopping, LockHolder, Registered,
     TimelinesFollowConnections
<1>8. RunningIsLive'
  BY DEF TypeOK, RunningIsLive, LiveIsRunning, Live
<1>9. LiveIsRunning'
  BY DEF TypeOK, LiveIsRunning, RunningIsLive, Live
<1>10. QED  BY <1>1, <1>2, <1>3, <1>4, <1>5, <1>6, <1>7, <1>8, <1>9

LEMMA LockToLeaveKeeps ==
  ASSUME IInv, NEW h \in Handlers, LockToLeave(h)
  PROVE  IInv'
<1> USE SessionAssumption DEF IInv, LockToLeave, Goto, accountVars,
      handlerVars, threadVars
<1>1. TypeOK'
  BY DEF TypeOK, Critical, HandlerState, ThreadState
<1>2. LockHolder'
  BY DEF TypeOK, LockHolder, Critical
<1>3. Registered'
  BY DEF TypeOK, Registered, LockHolder, Critical
<1>4. TimelinesFollowConnections'
  BY DEF TypeOK, Critical, TimelinesFollowConnections, Starting, Pushing,
     Stopping, LockHolder, Registered
<1>5. Starting'
  BY DEF TypeOK, Critical, Starting, LockHolder, Registered,
     TimelinesFollowConnections
<1>6. Pushing'
  BY DEF TypeOK, Critical, Pushing, LockHolder, Registered,
     TimelinesFollowConnections
<1>7. Stopping'
  BY DEF TypeOK, Critical, Stopping, LockHolder, Registered,
     TimelinesFollowConnections
<1>8. RunningIsLive'
  BY DEF TypeOK, RunningIsLive, LiveIsRunning, Live
<1>9. LiveIsRunning'
  BY DEF TypeOK, LiveIsRunning, RunningIsLive, Live
<1>10. QED  BY <1>1, <1>2, <1>3, <1>4, <1>5, <1>6, <1>7, <1>8, <1>9

LEMMA StopNextKeeps ==
  ASSUME IInv, NEW h \in Handlers, StopNext(h)
  PROVE  IInv'
<1> USE SessionAssumption DEF IInv, StopNext, Stop, accountVars,
      handlerVars, threadVars
<1>1. TypeOK'
  BY DEF TypeOK, Critical, HandlerState, ThreadState
<1>2. LockHolder'
  BY DEF TypeOK, LockHolder, Critical
<1>3. Registered'
  BY DEF TypeOK, Registered, LockHolder, Critical
<1>4. TimelinesFollowConnections'
  BY DEF TypeOK, Critical, TimelinesFollowConnections, Starting, Pushing,
     Stopping, LockHolder, Registered
<1>5. Starting'
  BY DEF TypeOK, Critical, Starting, LockHolder, Registered,
     TimelinesFollowConnections
<1>6. Pushing'
  BY DEF TypeOK, Critical, Pushing, LockHolder, Registered,
     TimelinesFollowConnections
<1>7. Stopping'
  BY DEF TypeOK, Critical, Stopping, LockHolder, Registered,
     TimelinesFollowConnections
<1>8. RunningIsLive'
  BY DEF TypeOK, RunningIsLive, LiveIsRunning, Live
<1>9. LiveIsRunning'
  <2>1. SUFFICES ASSUME NEW t \in Threads, Live(t)'
                 PROVE  tline[t] \in TimeLines /\ running'[tline[t]] = t
    BY DEF LiveIsRunning
  <2>2. PICK tl \in todo : Stop(tl)
    BY DEF TypeOK
  <2>3. Live(t) /\ t # running[tl]
    BY <2>1, <2>2 DEF TypeOK, Live
  <2>4. tline[t] \in TimeLines /\ running[tline[t]] = t /\ tline[t] # tl
    BY <2>3 DEF LiveIsRunning
  <2>5. QED  BY <2>2, <2>4 DEF TypeOK
<1>10. QED  BY <1>1, <1>2, <1>3, <1>4, <1>5, <1>6, <1>7, <1>8, <1>9

LEMMA ClearCacheKeeps ==
  ASSUME IInv, NEW h \in Handlers, ClearCache(h)
  PROVE  IInv'
<1> USE SessionAssumption DEF IInv, ClearCache, Goto, accountVars,
      handlerVars, threadVars
<1>1. TypeOK'
  BY DEF TypeOK, Critical, HandlerState, ThreadState
<1>2. LockHolder'
  BY DEF TypeOK, LockHolder, Critical
<1>3. Registered'
  BY DEF TypeOK, Registered, LockHolder, Critical
<1>4. TimelinesFollowConnections'
  BY DEF TypeOK, Critical, TimelinesFollowConnections, Starting, Pushing,
     Stopping, LockHolder, Registered
<1>5. Starting'
  BY DEF TypeOK, Critical, Starting, LockHolder, Registered,
     TimelinesFollowConnections
<1>6. Pushing'
  BY DEF TypeOK, Critical, Pushing, LockHolder, Registered,
     TimelinesFollowConnections
<1>7. Stopping'
  BY DEF TypeOK, Critical, Stopping, LockHolder, Registered,
     TimelinesFollowConnections
<1>8. RunningIsLive'
  BY DEF TypeOK, RunningIsLive, LiveIsRunning, Live
<1>9. LiveIsRunning'
  BY DEF TypeOK, LiveIsRunning, RunningIsLive, Live
<1>10. QED  BY <1>1, <1>2, <1>3, <1>4, <1>5, <1>6, <1>7, <1>8, <1>9

-----------------------------------------------------------------------------
(* The steps in which a refresh thread may end.                            *)

LEMMA CheckKeeps ==
  ASSUME IInv, NEW t \in Threads, Check(t)
  PROVE  IInv'
<1> USE SessionAssumption DEF IInv, Check, StepThread, EndThread,
      accountVars, handlerVars, threadVars
<1>1. TypeOK'
  <2>1. ASSUME tstate'[t] = "done"
        PROVE  \A tl \in TimeLines : running[tl] # t
    BY <2>1 DEF TypeOK, RunningIsLive, Live
  <2>2. QED  BY <2>1 DEF TypeOK, Critical, HandlerState, ThreadState
<1>2. LockHolder' /\ Registered'
  BY DEF TypeOK, LockHolder, Registered, Critical
<1>3. TimelinesFollowConnections' /\ Starting' /\ Pushing' /\ Stopping'
  BY DEF TypeOK, TimelinesFollowConnections, Starting, Pushing, Stopping
<1>4. RunningIsLive' /\ LiveIsRunning'
  BY DEF TypeOK, RunningIsLive, LiveIsRunning, Live
<1>5. QED  BY <1>1, <1>2, <1>3, <1>4

LEMMA SleepKeeps ==
  ASSUME IInv, NEW t \in Threads, Sleep(t)
  PROVE  IInv'
<1> USE SessionAssumption DEF IInv, Sleep, StepThread, EndThread,
      accountVars, handlerVars, threadVars
<1>1. TypeOK'
  <2>1. ASSUME tstate'[t] = "done"
        PROVE  \A tl \in TimeLines : running[tl] # t
    BY <2>1 DEF TypeOK, RunningIsLive, Live
  <2>2. QED  BY <2>1 DEF TypeOK, Critical, HandlerState, ThreadState
<1>2. LockHolder' /\ Registered'
  BY DEF TypeOK, LockHolder, Registered, Critical
<1>3. TimelinesFollowConnections' /\ Starting' /\ Pushing' /\ Stopping'
  BY DEF TypeOK, TimelinesFollowConnections, Starting, Pushing, Stopping
<1>4. RunningIsLive' /\ LiveIsRunning'
  BY DEF TypeOK, RunningIsLive, LiveIsRunning, Live
<1>5. QED  BY <1>1, <1>2, <1>3, <1>4

-----------------------------------------------------------------------------
(* Every step keeps the invariant, and the invariant holds from the start. *)

LEMMA StepKeeps == IInv /\ [Next]_vars => IInv'
<1>1. SUFFICES ASSUME IInv, [Next]_vars PROVE IInv'
  OBVIOUS
<1>2. ASSUME NEW h \in Handlers, Open(h) \/ ClientGone(h) \/ HandlerStep(h)
      PROVE  IInv'
  BY <1>1, <1>2, OpenKeeps, ClientGoneKeeps, LockToJoinKeeps, StartNextKeeps,
     PushKeeps, FirstFriendsKeeps, WakeKeeps, LockToLeaveKeeps, StopNextKeeps,
     ClearCacheKeeps DEF HandlerStep
<1>3. ASSUME NEW t \in Threads, ThreadStep(t) \/ JobStep(t)
      PROVE  IInv'
  BY <1>1, <1>3, CheckKeeps, RequestFailsKeeps, RequestDecodedKeeps,
     SleepKeeps, CacheLockKeeps, CacheStoreKeeps DEF ThreadStep, JobStep
<1>4. CASE UNCHANGED vars
  BY <1>1, <1>4 DEF vars, accountVars, handlerVars, threadVars, IInv, TypeOK,
     Critical, LockHolder, Registered, TimelinesFollowConnections, Starting,
     Pushing, Stopping, RunningIsLive, LiveIsRunning, Live
<1>5. QED  BY <1>1, <1>2, <1>3, <1>4 DEF Next

LEMMA InitHolds == Init => IInv
  BY SessionAssumption DEF Init, IInv, TypeOK, Critical, HandlerState,
     ThreadState, LockHolder, Registered, TimelinesFollowConnections, Starting,
     Pushing, Stopping, RunningIsLive, LiveIsRunning, Live

\* Every reachable state satisfies the inductive invariant.
THEOREM Invariance == Spec => []IInv
  BY InitHolds, StepKeeps, PTL DEF Spec

\* The types hold, the lock of Account.connections is held only between its
\* Lock and its Unlock, and a cancel function belongs to a thread not ended.
THEOREM TypeCorrect == Spec => []TypeOK
<1>1. IInv => TypeOK
  BY DEF IInv
<1>2. QED  BY <1>1, Invariance, PTL

\* Outside the critical sections of AddConnectionAndWait, the timelines poll
\* exactly while a client is registered.
THEOREM PollingFollowsClients == Spec => []TimelinesFollowConnections
<1>1. IInv => TimelinesFollowConnections
  BY DEF IInv
<1>2. QED  BY <1>1, Invariance, PTL

\* However Start and Stop follow one another, no timeline has two refresh
\* threads with a live context.
THEOREM NoDoublePolling == Spec => []OneLiveThread
<1>1. IInv => OneLiveThread
  BY DEF IInv, LiveIsRunning, Live, OneLiveThread
<1>2. QED  BY <1>1, Invariance, PTL

-----------------------------------------------------------------------------
(* The refinement.  Where nobody is starting or stopping timelines, Poller *)
(* is running; where somebody is, no client is registered and Poller is    *)
(* idle.  A thread is ending exactly if it has not ended and is not live,  *)
(* or if the holder of the lock is about to stop it.                       *)

\* Who is in a critical section is there alone.
LEMMA Alone1 ==
  ASSUME IInv, NEW h \in Handlers, Critical(h)
  PROVE  /\ connLock = h
         /\ \A g \in Handlers : Critical(g) <=> g = h
  BY SessionAssumption DEF IInv, LockHolder

\* With the lock free, nobody is starting or stopping timelines.
LEMMA NobodySwitches ==
  ASSUME IInv, connLock = None
  PROVE  /\ \A g \in Handlers : ~Critical(g)
         /\ ~Switching /\ Poller = [tl \in TimeLines |-> running[tl]]
<1>1. \A g \in Handlers : ~Critical(g)
  BY SessionAssumption DEF IInv, LockHolder
<1>2. QED  BY <1>1 DEF Switching, Poller, Critical

\* What the abstract variables depend on.
LEMMA Stutter ==
  ASSUME UNCHANGED <<connections, running, tstate, cancelled>>,
         \A h \in Handlers : /\ pc'[h] = "start" <=> pc[h] = "start"
                             /\ pc'[h] = "stop" <=> pc[h] = "stop"
  PROVE  UNCHANGED Sessions!vars
<1>1. Switching' <=> Switching
  BY DEF Switching
<1>2. Poller' = Poller
  BY <1>1 DEF Poller
<1>3. Ending' = Ending
  BY DEF Ending
<1>4. QED  BY <1>2, <1>3 DEF Sessions!vars

-----------------------------------------------------------------------------
(* The critical sections.                                                  *)

LEMMA LockToJoinStutters ==
  ASSUME IInv, NEW h \in Handlers, LockToJoin(h)
  PROVE  UNCHANGED Sessions!vars
<1> USE DEF IInv, TypeOK, LockToJoin, Goto, threadVars, accountVars, handlerVars
<1>1. CASE ~Alone
  <2>1. \A g \in Handlers : /\ pc'[g] = "start" <=> pc[g] = "start"
                            /\ pc'[g] = "stop" <=> pc[g] = "stop"
    BY <1>1
  <2>2. QED  BY <2>1, Stutter
<1>2. CASE Alone
  <2>1. connLock = None /\ connections = {} /\ pc'[h] = "start"
    BY <1>2 DEF Alone
  <2>2. Poller' = [tl \in TimeLines |-> None]
    BY <2>1 DEF Poller, Switching
  <2>3. Poller = [tl \in TimeLines |-> None]
    <3>1. \A tl \in TimeLines : running[tl] = None
      BY <2>1 DEF TimelinesFollowConnections
    <3>2. QED  BY <2>1, <3>1, NobodySwitches
  <2>4. \A g \in Handlers : pc[g] # "stop" /\ pc'[g] # "stop"
    BY <1>2, <2>1, NobodySwitches DEF Critical
  <2>5. Ending' = Ending
    BY <2>4 DEF Ending
  <2>6. QED  BY <2>2, <2>3, <2>5 DEF Sessions!vars
<1>3. QED  BY <1>1, <1>2

LEMMA StartNextStutters ==
  ASSUME IInv, NEW h \in Handlers, StartNext(h)
  PROVE  UNCHANGED Sessions!vars
<1> USE DEF IInv, StartNext, Start, threadVars
<1>1. Switching /\ Switching'
  BY DEF Switching
<1>2. Poller' = Poller
  BY <1>1 DEF Poller
<1>3. \A g \in Handlers : pc[g] # "stop" /\ pc'[g] # "stop"
  BY Alone1 DEF Critical
<1>4. \A t \in Threads :
        (tstate'[t] # "done" /\ cancelled'[t]) <=> (tstate[t] # "done" /\ cancelled[t])
  BY DEF TypeOK
<1>5. Ending' = Ending
  BY <1>3, <1>4 DEF Ending
<1>6. QED  BY <1>2, <1>5 DEF Sessions!vars

LEMMA StopNextStutters ==
  ASSUME IInv, NEW h \in Handlers, StopNext(h)
  PROVE  UNCHANGED Sessions!vars
<1> USE DEF StopNext, Stop
<1>1. Switching /\ Switching' /\ \E g \in Handlers : pc[g] = "stop" /\ pc'[g] = "stop"
  BY DEF Switching
<1>2. Poller' = Poller
  BY <1>1 DEF Poller
<1>3. Ending' = Ending
  BY <1>1 DEF Ending
<1>4. QED  BY <1>2, <1>3 DEF Sessions!vars

\* The Push of the first or of a later handler is where its client joins.
LEMMA PushJoins ==
  ASSUME IInv, NEW h \in Handlers, Push(h)
  PROVE  Sessions!Join(h)
<1> USE DEF IInv, Push, Goto, threadVars
<1>1. Critical(h) /\ todo = {}
  BY DEF Critical
<1>2. h \notin connections /\ connections' = connections \cup {h}
  BY DEF Registered
<1>3. \A g \in Handlers : /\ pc'[g] \notin {"start", "stop"}
                          /\ pc[g] # "stop"
                          /\ g # h => pc[g] # "start"
  BY <1>1, Alone1 DEF Critical, TypeOK
<1>4. Poller' = [tl \in TimeLines |-> running[tl]]
  BY <1>3 DEF Poller, Switching
<1>5. Ending = {t \in Threads : tstate[t] # "done" /\ cancelled[t]}
  BY <1>3 DEF Ending
<1>6. Ending' = {t \in Threads : tstate[t] # "done" /\ cancelled[t]}
  BY <1>3 DEF Ending
<1>7. CASE pc[h] = "start"
  <2>1. connections = {} /\ \A tl \in TimeLines : running[tl] # None
    BY <1>1, <1>7 DEF Starting
  <2>2. \A tl \in TimeLines : /\ running[tl] \in Threads \ Ending
                              /\ tline[running[tl]] = tl
    BY <1>5, <2>1 DEF TypeOK, RunningIsLive, Live
  <2>3. /\ Poller' \in [TimeLines -> Threads \ Ending]
        /\ \A a, b \in TimeLines : Poller'[a] = Poller'[b] => a = b
    BY <1>4, <2>2
  <2>4. QED  BY <1>2, <1>5, <1>6, <2>1, <2>3 DEF Sessions!Join
<1>8. CASE pc[h] = "push"
  <2>1. connections # {}
    BY <1>8 DEF Pushing
  <2>2. ~Switching
    BY <1>3, <1>8 DEF Switching
  <2>3. Poller' = Poller
    BY <1>4, <2>2 DEF Poller
  <2>4. QED  BY <1>2, <1>5, <1>6, <2>1, <2>3 DEF Sessions!Join
<1>9. QED  BY <1>7, <1>8

LEMMA LockToLeaveLeaves ==
  ASSUME IInv, NEW h \in Handlers, LockToLeave(h)
  PROVE  Sessions!Leave(h)
<1> USE DEF IInv, LockToLeave, Goto, threadVars
<1>1. h \in connections /\ connections' = connections \ {h} /\ connLock = None
  BY DEF Registered
<1>2. \A g \in Handlers : pc[g] \notin {"start", "stop"}
  BY <1>1, NobodySwitches DEF Critical
<1>3. Poller = [tl \in TimeLines |-> running[tl]]
  BY <1>1, NobodySwitches
<1>4. Ending = {t \in Threads : tstate[t] # "done" /\ cancelled[t]}
  BY <1>2 DEF Ending
<1>5. CASE connections' = {}
  <2>1. pc'[h] = "stop"
    BY <1>5 DEF TypeOK
  <2>2. Poller' = Sessions!Idle
    BY <2>1 DEF Poller, Switching, Sessions!Idle
  <2>3. Ending' = {t \in Threads : tstate[t] # "done"}
    BY <2>1 DEF Ending
  <2>4. \A tl \in TimeLines : running[tl] # None
    BY <1>1 DEF TimelinesFollowConnections
  <2>5. {Poller[tl] : tl \in TimeLines} = {t \in Threads : Live(t)}
    <3>1. \A tl \in TimeLines : running[tl] \in Threads /\ Live(running[tl])
      BY <2>4 DEF TypeOK, RunningIsLive
    <3>2. \A t \in Threads : Live(t) => \E tl \in TimeLines : running[tl] = t
      BY DEF LiveIsRunning
    <3>3. QED  BY <1>3, <3>1, <3>2
  <2>6. Ending' = Ending \cup {Poller[tl] : tl \in TimeLines}
    BY <1>4, <2>3, <2>5 DEF Live
  <2>7. QED  BY <1>1, <1>5, <2>2, <2>6 DEF Sessions!Leave
<1>6. CASE connections' # {}
  <2>1. \A g \in Handlers : pc'[g] \notin {"start", "stop"}
    BY <1>2, <1>6 DEF TypeOK
  <2>2. Poller' = [tl \in TimeLines |-> running[tl]]
    BY <2>1 DEF Poller, Switching
  <2>3. Ending' = Ending
    BY <1>4, <2>1 DEF Ending
  <2>4. QED  BY <1>1, <1>3, <1>6, <2>2, <2>3 DEF Sessions!Leave
<1>7. QED  BY <1>5, <1>6

LEMMA ClearCacheStutters ==
  ASSUME IInv, NEW h \in Handlers, ClearCache(h)
  PROVE  UNCHANGED Sessions!vars
<1> USE DEF IInv, ClearCache, Goto, threadVars
<1>1. pc[h] = "stop" /\ todo = {}
  OBVIOUS
<1>2. \A g \in Handlers : pc'[g] \notin {"start", "stop"}
  BY <1>1, Alone1 DEF Critical, TypeOK
<1>3. \A tl \in TimeLines : running[tl] = None
  BY <1>1 DEF Stopping
<1>4. \A t \in Threads : ~Live(t)
  BY <1>3, SessionAssumption DEF LiveIsRunning
<1>5. Poller' = Poller
  <2>1. Poller = [tl \in TimeLines |-> None]
    BY <1>1 DEF Poller, Switching
  <2>2. Poller' = [tl \in TimeLines |-> running[tl]]
    BY <1>2 DEF Poller, Switching
  <2>3. QED  BY <1>3, <2>1, <2>2
<1>6. Ending' = Ending
  <2>1. Ending = {t \in Threads : tstate[t] # "done"}
    BY <1>1 DEF Ending
  <2>2. Ending' = {t \in Threads : tstate[t] # "done" /\ cancelled[t]}
    BY <1>2 DEF Ending
  <2>3. QED  BY <1>4, <2>1, <2>2 DEF Live
<1>7. QED  BY <1>5, <1>6 DEF Sessions!vars

-----------------------------------------------------------------------------
(* Everything else.                                                        *)

LEMMA EndThreadEnds ==
  ASSUME IInv, NEW t \in Threads, NEW from \in {"check", "sleep"},
         EndThread(t, from)
  PROVE  Sessions!End(t)
<1> USE DEF IInv, TypeOK, EndThread, accountVars, handlerVars
<1>1. t \in Ending
  BY DEF Ending
<1>2. Ending' = Ending \ {t}
  BY DEF Ending
<1>3. Poller' = Poller
  BY DEF Poller, Switching
<1>4. QED  BY <1>1, <1>2, <1>3 DEF Sessions!End

LEMMA StepThreadStutters ==
  ASSUME IInv, NEW t \in Threads, NEW from \in ThreadState \ {"done"},
         NEW to \in ThreadState \ {"done"}, StepThread(t, from, to)
  PROVE  UNCHANGED Sessions!vars
<1> USE DEF IInv, TypeOK, StepThread, accountVars, handlerVars
<1>1. \A u \in Threads : tstate'[u] # "done" <=> tstate[u] # "done"
  OBVIOUS
<1>2. Ending' = Ending
  BY <1>1 DEF Ending
<1>3. Poller' = Poller
  BY DEF Poller, Switching
<1>4. QED  BY <1>2, <1>3 DEF Sessions!vars

LEMMA StepRefines ==
  IInv /\ [Next]_vars => [Sessions!Next]_(Sessions!vars)
<1>1. SUFFICES ASSUME IInv, [Next]_vars
               PROVE  Sessions!Next \/ UNCHANGED Sessions!vars
  OBVIOUS
<1> USE DEF accountVars, handlerVars, threadVars
<1>2. ASSUME NEW h \in Handlers,
             Open(h) \/ ClientGone(h) \/ FirstFriends(h) \/ Wake(h)
      PROVE  UNCHANGED Sessions!vars
  <2>1. UNCHANGED <<connections, running, tstate, cancelled>>
    BY <1>2 DEF Open, ClientGone, FirstFriends, Wake
  <2>2. \A g \in Handlers : /\ pc'[g] = "start" <=> pc[g] = "start"
                            /\ pc'[g] = "stop" <=> pc[g] = "stop"
    BY <1>1, <1>2 DEF IInv, TypeOK, Open, ClientGone, FirstFriends, Wake, Goto
  <2>3. QED  BY <2>1, <2>2, Stutter
<1>3. ASSUME NEW h \in Handlers, HandlerStep(h)
      PROVE  Sessions!Next \/ UNCHANGED Sessions!vars
  BY <1>1, <1>2, <1>3, LockToJoinStutters, StartNextStutters, PushJoins,
     LockToLeaveLeaves, StopNextStutters, ClearCacheStutters
     DEF HandlerStep, Sessions!Next
<1>4. ASSUME NEW t \in Threads, ThreadStep(t)
      PROVE  Sessions!Next \/ UNCHANGED Sessions!vars
  <2>1. ASSUME NEW from \in {"check", "sleep"}, EndThread(t, from)
        PROVE  Sessions!Next
    BY <1>1, <2>1, EndThreadEnds DEF Sessions!Next
  <2>2. ASSUME NEW from \in ThreadState \ {"done"},
               NEW to \in ThreadState \ {"done"}, StepThread(t, from, to)
        PROVE  UNCHANGED Sessions!vars
    BY <1>1, <2>2, StepThreadStutters
  <2>3. QED  BY <1>4, <2>1, <2>2 DEF ThreadStep, Check, RequestFails,
                RequestDecoded, Sleep, ThreadState
<1>5. CASE UNCHANGED vars \/ \E t \in Threads : JobStep(t)
  <2>1. UNCHANGED <<connections, running, tstate, cancelled, pc>>
    BY <1>5 DEF vars, JobStep, CacheLock, CacheStore
  <2>2. QED  BY <2>1, Stutter
<1>6. QED  BY <1>1, <1>2, <1>3, <1>4, <1>5 DEF Next

LEMMA InitRefines == Init => Sessions!Init
<1>1. SUFFICES ASSUME Init PROVE Sessions!Init
  OBVIOUS
<1>2. Poller = Sessions!Idle
  BY <1>1 DEF Init, Poller, Switching, Sessions!Idle
<1>3. Ending = {}
  BY <1>1 DEF Init, Ending
<1>4. QED  BY <1>1, <1>2, <1>3 DEF Init, Sessions!Init

\* The sessions of an account follow one another as PolledTimelines has them,
\* although timelines are started and stopped one after another, while other
\* handlers wait for the lock and threads of earlier sessions still run.
THEOREM SessionsImplemented == Spec => OneSessionAtATime
  BY InitRefines, StepRefines, Invariance, PTL
     DEF Spec, OneSessionAtATime, Sessions!Spec
=============================================================================
