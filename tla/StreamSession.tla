---------------------------- MODULE StreamSession ----------------------------
(***************************************************************************)
(* The streaming session of one account.                                   *)
(*                                                                         *)
(* Every client that opens the user stream is served by one goroutine in   *)
(* Account.AddConnectionAndWait.  The first to register starts the polled  *)
(* timelines, the last to leave stops them and empties the user cache,     *)
(* both under Account.connectionsLock.  TimeLine.refreshThread polls until *)
(* its context is cancelled and hands what it finds to two goroutines it   *)
(* does not wait for, Account.Send and Account.UserCache, of which the     *)
(* second takes userCacheLock.                                             *)
(*                                                                         *)
(* Abstracted: what a response holds, so that any may have packets or      *)
(* users or none; Account.Send, which only reads the list of connections   *)
(* (Broadcast); the friends timer (Connection); the cache's entries.  The  *)
(* identity of a handler or of a thread is reused once it has ended, so    *)
(* that the number of sessions in a behaviour is not bounded; the jobs     *)
(* that threads of one identity left behind count as one.                  *)
(***************************************************************************)
EXTENDS Naturals, FiniteSets

CONSTANTS
  Handlers,   \* goroutines in AddConnectionAndWait, one per streaming request
  TimeLines,  \* the account's timelines: tlAboutMe, tlDm, tlHome
  Threads,    \* identities of refreshThread goroutines
  None        \* no owner, no thread

ASSUME SessionAssumption ==
  /\ None \notin Handlers \cup Threads
  /\ Handlers \cap Threads = {}

VARIABLES
  \* Account
  connections,  \* the handlers whose connection is in act.connections
  connLock,     \* writer holding connectionsLock, or None
  cacheLock,    \* goroutine holding userCacheLock, or None
  running,      \* TimeLine.runningCtxCancel: the thread it cancels, or None
  \* AddConnectionAndWait
  pc,           \* where each handler is
  todo,         \* timelines the lock's holder has still to start or stop
  ctxDone,      \* the request's context is done
  \* refreshThread
  tstate,       \* where each refresh thread is
  tline,        \* the timeline it polls
  cancelled,    \* its context is cancelled
  cacheJobs     \* threads that left a goroutine about to lock userCacheLock

accountVars == <<connections, connLock, cacheLock, running>>
handlerVars == <<pc, todo, ctxDone>>
threadVars  == <<tstate, tline, cancelled>>
vars == <<accountVars, handlerVars, threadVars, cacheJobs>>

HandlerState ==
  {"gone", "enter", "start", "push", "friends", "wait", "leave", "stop"}
ThreadState == {"done", "check", "request", "sleep"}

\* Between Lock and Unlock of connectionsLock.
Critical(h) == pc[h] \in {"start", "push", "stop"}

\* Every variable has its type; the connectionsLock is held only by a handler
\* between its Lock and its Unlock, and a running timeline's cancel function
\* belongs to a thread that has not ended.
TypeOK ==
  /\ connections \subseteq Handlers
  /\ connLock \in {h \in Handlers : Critical(h)} \cup {None}
  /\ cacheLock \in Threads \cup {None}
  /\ running \in [TimeLines -> {t \in Threads : tstate[t] # "done"} \cup {None}]
  /\ pc \in [Handlers -> HandlerState]
  /\ todo \subseteq TimeLines
  /\ ctxDone \in [Handlers -> BOOLEAN]
  /\ tstate \in [Threads -> ThreadState]
  /\ tline \in [Threads -> TimeLines \cup {None}]
  /\ cancelled \in [Threads -> BOOLEAN]
  /\ cacheJobs \subseteq Threads

(* Account.Init: no connection, no timeline running.  No handler and no    *)
(* thread exists yet; what is recorded of one that has ended is fixed.     *)
Init ==
  /\ connections = {} /\ connLock = None
  /\ cacheLock = None
  /\ running = [tl \in TimeLines |-> None]
  /\ pc = [h \in Handlers |-> "gone"]
  /\ todo = {}
  /\ ctxDone = [h \in Handlers |-> TRUE]
  /\ tstate = [t \in Threads |-> "done"]
  /\ tline = [t \in Threads |-> None]
  /\ cancelled = [t \in Threads |-> TRUE]
  /\ cacheJobs = {}

Goto(h, from, to) == pc[h] = from /\ pc' = [pc EXCEPT ![h] = to]

-----------------------------------------------------------------------------
(* TimeLine.Start and TimeLine.Stop.  Their runningLock is only ever taken *)
(* under connectionsLock, so it is never contended and each is one step.   *)

\* A new context and a new goroutine, unless the timeline has one already.
Start(tl) ==
  IF running[tl] # None
  THEN UNCHANGED <<running, threadVars>>
  ELSE \E t \in Threads :
         /\ tstate[t] = "done"
         /\ running' = [running EXCEPT ![tl] = t]
         /\ tstate' = [tstate EXCEPT ![t] = "check"]
         /\ tline' = [tline EXCEPT ![t] = tl]
         /\ cancelled' = [cancelled EXCEPT ![t] = FALSE]

\* Stop, if it forgot the cancel function without calling it.
StopWithoutCancel(tl) ==
  /\ running' = [running EXCEPT ![tl] = None]
  /\ UNCHANGED threadVars

\* Cancel the context of the timeline's thread and forget it.
Stop(tl) ==
  /\ cancelled' = [t \in Threads |-> cancelled[t] \/ t = running[tl]]
  /\ running' = [running EXCEPT ![tl] = None]
  /\ UNCHANGED <<tstate, tline>>

-----------------------------------------------------------------------------
(* AddConnectionAndWait.                                                   *)

\* A streaming request passed handleStreaming's checks: a new connection.
Open(h) ==
  /\ Goto(h, "gone", "enter")
  /\ ctxDone' = [ctxDone EXCEPT ![h] = FALSE]
  /\ UNCHANGED <<accountVars, todo, threadVars, cacheJobs>>

\* connections.Len() == 0, read under the lock.
Alone == connections = {}

\* Take connectionsLock; with no other connection, start the timelines.
LockToJoin(h) ==
  /\ connLock = None
  /\ connLock' = h
  /\ \/ Alone /\ Goto(h, "enter", "start") /\ todo' = TimeLines
     \/ ~Alone /\ Goto(h, "enter", "push") /\ todo' = {}
  /\ UNCHANGED <<connections, cacheLock, running, ctxDone, threadVars,
                 cacheJobs>>

StartNext(h) ==
  /\ pc[h] = "start"
  /\ \E tl \in todo : Start(tl) /\ todo' = todo \ {tl}
  /\ UNCHANGED <<connections, connLock, cacheLock, pc, ctxDone, cacheJobs>>

\* Push, if it returned without unlocking.
PushWithoutUnlock(h) ==
  /\ todo = {}
  /\ \/ Goto(h, "start", "friends")
     \/ Goto(h, "push", "friends")
  /\ connections' = connections \cup {h}
  /\ UNCHANGED <<connLock, cacheLock, running, todo, ctxDone, threadVars,
                 cacheJobs>>

\* PushBack and unlock.
Push(h) ==
  /\ todo = {}
  /\ \/ Goto(h, "start", "friends")
     \/ Goto(h, "push", "friends")
  /\ connections' = connections \cup {h}
  /\ connLock' = None
  /\ UNCHANGED <<cacheLock, running, todo, ctxDone, threadVars, cacheJobs>>

\* The first sendFriends, called in line.  Its request does not carry the
\* client's context, so it ends when the upstream answers or fails.
FirstFriends(h) ==
  /\ Goto(h, "friends", "wait")
  /\ UNCHANGED <<accountVars, todo, ctxDone, threadVars, cacheJobs>>

\* The select on ctx.Done() and chanClosed; nothing ever closes chanClosed.
Wake(h) ==
  /\ Goto(h, "wait", "leave")
  /\ ctxDone[h]
  /\ UNCHANGED <<accountVars, todo, ctxDone, threadVars, cacheJobs>>

\* LockToLeave, if Len() were tested before Remove.
LockToLeaveTestFirst(h) ==
  /\ connLock = None
  /\ connections' = connections \ {h}
  /\ \/ /\ connections = {} /\ Goto(h, "leave", "stop")
        /\ connLock' = h /\ todo' = TimeLines
     \/ /\ connections # {} /\ Goto(h, "leave", "gone")
        /\ UNCHANGED <<connLock, todo>>
  /\ UNCHANGED <<cacheLock, running, ctxDone, threadVars, cacheJobs>>

\* Take connectionsLock and remove the connection; the last one stops the
\* timelines, any other unlocks.
LockToLeave(h) ==
  /\ connLock = None
  /\ connections' = connections \ {h}
  /\ \/ /\ connections' = {} /\ Goto(h, "leave", "stop")
        /\ connLock' = h /\ todo' = TimeLines
     \/ /\ connections' # {} /\ Goto(h, "leave", "gone")
        /\ UNCHANGED <<connLock, todo>>
  /\ UNCHANGED <<cacheLock, running, ctxDone, threadVars, cacheJobs>>

StopNext(h) ==
  /\ pc[h] = "stop"
  /\ \E tl \in todo : Stop(tl) /\ todo' = todo \ {tl}
  /\ UNCHANGED <<connections, connLock, cacheLock, pc, ctxDone, cacheJobs>>

\* Empty the cache under userCacheLock, then unlock connectionsLock.
ClearCache(h) ==
  /\ todo = {}
  /\ Goto(h, "stop", "gone")
  /\ cacheLock = None
  /\ connLock' = None
  /\ UNCHANGED <<connections, cacheLock, running, todo, ctxDone, threadVars,
                 cacheJobs>>

\* The server cancels the context: it notices that the client is gone, or,
\* for HTTP/1, the ReadTimeout of main passes.
ClientGone(h) ==
  /\ pc[h] # "gone" /\ ~ctxDone[h]
  /\ ctxDone' = [ctxDone EXCEPT ![h] = TRUE]
  /\ UNCHANGED <<accountVars, pc, todo, threadVars, cacheJobs>>

-----------------------------------------------------------------------------
(* TimeLine.refreshThread and TimeLine.update.                             *)

StepThread(t, from, to) ==
  /\ tstate[t] = from
  /\ tstate' = [tstate EXCEPT ![t] = to]
  /\ UNCHANGED <<accountVars, handlerVars, tline, cancelled>>

\* The thread sees that its context is done and returns.
EndThread(t, from) ==
  /\ tstate[t] = from /\ cancelled[t]
  /\ tstate' = [tstate EXCEPT ![t] = "done"]
  /\ tline' = [tline EXCEPT ![t] = None]
  /\ UNCHANGED <<accountVars, handlerVars, cancelled, cacheJobs>>

\* Check, if the loop had no select at its top.
CheckNothing(t) == StepThread(t, "check", "request") /\ UNCHANGED cacheJobs

\* The select at the top of the loop.
Check(t) ==
  \/ EndThread(t, "check")
  \/ /\ ~cancelled[t]
     /\ StepThread(t, "check", "request")
     /\ UNCHANGED cacheJobs

\* The request fails, is cancelled with its context or is not answered 200.
RequestFails(t) == StepThread(t, "request", "sleep") /\ UNCHANGED cacheJobs

\* A response is read.  From here on the context is not consulted: whatever
\* has become of it, the goroutines for packets and users are started.
\* UserCache of no user changes nothing and is left out.
RequestDecoded(t) ==
  /\ StepThread(t, "request", "sleep")
  /\ cacheJobs' = cacheJobs \cup {t}

\* The select on ctx.Done() and time.After(w); with both ready, either.
Sleep(t) ==
  \/ EndThread(t, "sleep")
  \/ StepThread(t, "sleep", "check") /\ UNCHANGED cacheJobs

-----------------------------------------------------------------------------
(* Account.UserCache, in a goroutine of its own: it takes userCacheLock ...*)

CacheLock(t) ==
  /\ t \in cacheJobs /\ cacheLock = None
  /\ cacheLock' = t
  /\ cacheJobs' = cacheJobs \ {t}
  /\ UNCHANGED <<connections, connLock, running, handlerVars, threadVars>>

\* CacheStore, if it called Account.Send itself, with userCacheLock held.
CacheStoreSendingInline(t) ==
  /\ cacheLock = t
  /\ connLock = None
  /\ cacheLock' = None
  /\ UNCHANGED <<connections, connLock, running, handlerVars, threadVars,
                 cacheJobs>>

\* ... and stores the users; for one it already knew, yet another goroutine
\* calls Account.Send, so that connectionsLock is not awaited here.
CacheStore(t) ==
  /\ cacheLock = t
  /\ cacheLock' = None
  /\ UNCHANGED <<connections, connLock, running, handlerVars, threadVars,
                 cacheJobs>>

-----------------------------------------------------------------------------
HandlerStep(h) ==
  \/ LockToJoin(h) \/ StartNext(h) \/ Push(h) \/ FirstFriends(h) \/ Wake(h)
  \/ LockToLeave(h) \/ StopNext(h) \/ ClearCache(h)
ThreadStep(t) == Check(t) \/ RequestFails(t) \/ RequestDecoded(t) \/ Sleep(t)
JobStep(t) == CacheLock(t) \/ CacheStore(t)

Next ==
  \/ \E h \in Handlers : Open(h) \/ ClientGone(h) \/ HandlerStep(h)
  \/ \E t \in Threads : ThreadStep(t) \/ JobStep(t)

Spec == Init /\ [][Next]_vars

(* Goroutines are scheduled, sync.Mutex and sync.RWMutex do not starve a   *)
(* waiter (strong fairness where a lock is taken), and an upstream request *)
(* ends: a cancelled context ends it, and so does an answer, an error or   *)
(* ResponseHeaderTimeout.  A new request and a client that goes away are   *)
(* never owed.                                                             *)
Fairness ==
  /\ \A h \in Handlers : SF_vars(HandlerStep(h))
  /\ \A t \in Threads :
       /\ WF_vars(ThreadStep(t))
       /\ SF_vars(CacheLock(t))
       /\ WF_vars(CacheStore(t))

FairSpec == Spec /\ Fairness

-----------------------------------------------------------------------------
(* Properties.                                                             *)

\* While connectionsLock is free, every timeline polls if some client is
\* registered, and none does if there is no client.
TimelinesFollowConnections ==
  connLock = None =>
    \A tl \in TimeLines : running[tl] # None <=> connections # {}

\* For who reads under the lock: the threads of a session come and go at once.
Switching == \E h \in Handlers : pc[h] \in {"start", "stop"}

Poller == [tl \in TimeLines |-> IF Switching THEN None ELSE running[tl]]

Ending ==
  {t \in Threads : /\ tstate[t] # "done"
                   /\ cancelled[t] \/ \E h \in Handlers : pc[h] = "stop"}

Sessions == INSTANCE PolledTimelines WITH
  clients <- connections, poller <- Poller, ending <- Ending

\* The critical sections, which start and stop one timeline after another
\* while threads of earlier sessions still end, make sessions that follow one
\* another: one thread for each timeline, the same from the first client to
\* the last, and none of an earlier session.
OneSessionAtATime == Sessions!Spec

\* However quickly clients leave and come back, a timeline never has two
\* refresh threads whose contexts are live: it would poll twice as fast and
\* deliver every item twice.
OneLiveThread ==
  \A t, u \in Threads :
    /\ tstate[t] # "done" /\ ~cancelled[t]
    /\ tstate[u] # "done" /\ ~cancelled[u]
    /\ tline[t] = tline[u]
    => t = u

\* A request whose client is gone leaves AddConnectionAndWait, whatever the
\* goroutines that share its locks are doing.
LeaverLeaves ==
  \A h \in Handlers :
    (ctxDone[h] /\ pc[h] # "gone") ~> pc[h] = "gone"

\* A refresh thread whose context is cancelled ends, wherever it was.
StoppedThreadEnds == \A t \in Threads : cancelled[t] ~> tstate[t] = "done"
=============================================================================
