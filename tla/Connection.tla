----------------------------- MODULE Connection -----------------------------
(***************************************************************************)
(* One streaming connection, from newConnection to the return of the       *)
(* handler that made it and of the goroutines that outlive the handler.    *)
(*                                                                         *)
(* Three kinds of goroutine call Connection.sendInner: those of            *)
(* Account.Send, which found the connection in the list; the chain of      *)
(* sendFriends, first called by the handler and then by its own timer; and *)
(* keepAlive, which waits for tmrKeepAlive.                                *)
(*                                                                         *)
(* The response writer is net/http's (Served), whose server cancels the    *)
(* request's context when it sees the client gone, when a write fails or,  *)
(* for HTTP/1, when the ReadTimeout of main passes; or it is a             *)
(* ProxyResponseWriter of handleProxyHttpsMitm ("mitm"), whose request *)
(* was read by http.ReadRequest and has the background context.  The latter*)
(* is no CloseNotifier, and chanClosedWriter stays nil.                    *)
(*                                                                         *)
(* Abstracted: the bytes (Broadcast), the list (StreamSession).            *)
(***************************************************************************)
EXTENDS Naturals, FiniteSets

CONSTANTS
  Senders,    \* goroutines of Account.Send, each reused when it is done
  Friends,    \* the chain of sendFriends
  KeepAlive,  \* the goroutine of keepAlive
  Nobody      \* no holder of writeLock

Callers == Senders \cup {Friends, KeepAlive}

ASSUME ConnectionAssumption ==
  /\ Friends # KeepAlive
  /\ {Friends, KeepAlive} \cap Senders = {}
  /\ Nobody \notin Callers

VARIABLES
  writer,      \* whose http.ResponseWriter w is
  up,          \* the client is there
  ctxDone,     \* chanClosedRequest is closed
  notice,      \* the one value of chanClosedWriter: coming, there or taken
  closed,      \* Connection.closed
  writeLock,   \* Connection.writeLock
  armed,       \* tmrKeepAlive runs
  tick,        \* tmrKeepAlive.C holds a value
  pc,          \* where each caller is
  handler,     \* where AddConnectionAndWait is
  tmrWorking,  \* the friends timer has been told to stop
  tmrFriends   \* the friends timer runs

environment == <<writer, up, ctxDone, notice>>
friendsVars == <<handler, tmrWorking, tmrFriends>>
vars == <<environment, closed, writeLock, armed, tick, pc, friendsVars>>

\* Inside sendInner: before the lock, and from Lock to Unlock.
Waiting == {"check", "lock"}
Holding == {"select", "begin", "write", "fail", "reset"}
Outside == {"idle", "request", "rearm", "loop", "recv", "done"}

\* Every variable has its type, and writeLock is held by whoever is between
\* sendInner's Lock and its deferred Unlock, and by nobody else.
TypeOK ==
  /\ writer \in {"nethttp", "mitm"}
  /\ up \in BOOLEAN /\ ctxDone \in BOOLEAN
  /\ notice \in {"coming", "there", "taken"}
  /\ closed \in BOOLEAN /\ armed \in BOOLEAN /\ tick \in BOOLEAN
  /\ tmrWorking \in BOOLEAN /\ tmrFriends \in BOOLEAN
  /\ writeLock \in Callers \cup {Nobody}
  /\ pc \in [Callers -> Waiting \cup Holding \cup Outside]
  /\ handler \in {"join", "friends", "wait", "leave", "gone"}
  /\ \A c \in Callers : pc[c] \in Holding <=> writeLock = c

\* newConnection: NewTimer(0) runs and keepAlive is started.
Init ==
  /\ writer \in {"nethttp", "mitm"}
  /\ up = TRUE /\ ctxDone = FALSE /\ notice = "coming"
  /\ closed = FALSE
  /\ writeLock = Nobody
  /\ armed = TRUE /\ tick = FALSE
  /\ pc = [c \in Callers |-> IF c = KeepAlive THEN "loop" ELSE "idle"]
  /\ handler = "join"
  /\ tmrWorking = FALSE /\ tmrFriends = FALSE

Served == writer = "nethttp"

Goto(c, from, to) == pc[c] = from /\ pc' = [pc EXCEPT ![c] = to]

-----------------------------------------------------------------------------
(* The client and the server.                                              *)

ClientLeaves ==
  /\ up
  /\ up' = FALSE
  /\ UNCHANGED <<writer, ctxDone, notice, closed, writeLock, armed, tick, pc,
                 friendsVars>>

\* The server's background read fails, as the client is gone or the server's
\* ReadTimeout has passed, or a write did: it cancels the context ...
ServerCancels ==
  /\ Served /\ ~ctxDone
  /\ ctxDone' = TRUE
  /\ UNCHANGED <<writer, up, notice, closed, writeLock, armed, tick, pc,
                 friendsVars>>

\* ... and then may put the one value in CloseNotify's channel.
ServerNotifies ==
  /\ Served /\ ctxDone /\ notice = "coming"
  /\ notice' = "there"
  /\ UNCHANGED <<writer, up, ctxDone, closed, writeLock, armed, tick, pc,
                 friendsVars>>

-----------------------------------------------------------------------------
(* Connection.sendInner.                                                   *)

\* Where a caller goes when sendInner returns.
Return(c) ==
  CASE c = KeepAlive -> "loop"
    [] c = Friends   -> "rearm"
    [] OTHER         -> "idle"

\* Check, if sendInner did not look at closed.
CheckNothing(c) ==
  /\ Goto(c, "check", "lock")
  /\ UNCHANGED <<environment, closed, writeLock, armed, tick, friendsVars>>

\* The test of closed, before the lock is taken.
Check(c) ==
  /\ \/ closed /\ Goto(c, "check", Return(c))
     \/ ~closed /\ Goto(c, "check", "lock")
  /\ UNCHANGED <<environment, closed, writeLock, armed, tick, friendsVars>>

\* Lock, if keepAlive wrote without it.
LockUnlessKeepAlive(c) ==
  /\ Goto(c, "lock", "select")
  /\ c # KeepAlive => writeLock = Nobody
  /\ writeLock' = c
  /\ UNCHANGED <<environment, closed, armed, tick, friendsVars>>

Lock(c) ==
  /\ Goto(c, "lock", "select")
  /\ writeLock = Nobody
  /\ writeLock' = c
  /\ UNCHANGED <<environment, closed, armed, tick, friendsVars>>

\* Select, if it relied on the response writer's channel alone.
SelectOnWriter(c) ==
  /\ \/ notice = "there" /\ Goto(c, "select", "fail") /\ notice' = "taken"
     \/ notice # "there" /\ Goto(c, "select", "begin") /\ UNCHANGED notice
  /\ UNCHANGED <<writer, up, ctxDone, closed, writeLock, armed, tick,
                 friendsVars>>

\* The select: a closed request, a closed writer (whose one value is used
\* up), or neither, and then the default is left for the write.
Select(c) ==
  /\ \/ ctxDone /\ Goto(c, "select", "fail") /\ UNCHANGED notice
     \/ notice = "there" /\ Goto(c, "select", "fail") /\ notice' = "taken"
     \/ /\ ~ctxDone /\ notice # "there"
        /\ Goto(c, "select", "begin") /\ UNCHANGED notice
  /\ UNCHANGED <<writer, up, ctxDone, closed, writeLock, armed, tick,
                 friendsVars>>

\* The write begins.  The handler does not take writeLock: it may have
\* returned since the select.
BeginWrite(c) ==
  /\ Goto(c, "begin", "write")
  /\ UNCHANGED <<environment, closed, writeLock, armed, tick, friendsVars>>

\* WriteOk, if it returned without unlocking.
WriteOkLocked(c) ==
  /\ Goto(c, "write", Return(c))
  /\ UNCHANGED <<environment, closed, writeLock, armed, tick, friendsVars>>

\* The write ends well; buffers may hide for a while that the client is gone.
WriteOk(c) ==
  /\ Goto(c, "write", Return(c))
  /\ writeLock' = Nobody
  /\ UNCHANGED <<environment, closed, armed, tick, friendsVars>>

\* The client is gone, or the server's WriteTimeout has passed.
WriteFails(c) ==
  /\ ~up \/ Served
  /\ Goto(c, "write", "fail")
  /\ UNCHANGED <<environment, closed, writeLock, armed, tick, friendsVars>>

\* closed is set; keepAlive itself (resetKeepAlive is false) is done here.
Fail(c) ==
  /\ closed' = TRUE
  /\ \/ c = KeepAlive /\ Goto(c, "fail", Return(c)) /\ writeLock' = Nobody
     \/ c # KeepAlive /\ Goto(c, "fail", "reset") /\ UNCHANGED writeLock
  /\ UNCHANGED <<environment, armed, tick, friendsVars>>

\* Reset, if the timer were left alone.
ResetNothing(c) ==
  /\ Goto(c, "reset", Return(c))
  /\ writeLock' = Nobody
  /\ UNCHANGED <<environment, closed, armed, tick, friendsVars>>

\* Timer.Reset, so that keepAlive wakes up and sees closed; a value already
\* in the timer's channel stays there.
Reset(c) ==
  /\ Goto(c, "reset", Return(c))
  /\ armed' = TRUE
  /\ writeLock' = Nobody
  /\ UNCHANGED <<environment, closed, tick, friendsVars>>

SendStep(c) ==
  \/ Check(c) \/ Select(c) \/ BeginWrite(c) \/ WriteOk(c) \/ WriteFails(c)
  \/ Fail(c) \/ Reset(c)

-----------------------------------------------------------------------------
(* keepAlive and its timer.                                                *)

TimerExpires ==
  /\ armed
  /\ armed' = FALSE /\ tick' = TRUE
  /\ UNCHANGED <<environment, closed, writeLock, pc, friendsVars>>

\* The loop's condition.
KeepAliveLoop ==
  /\ \/ closed /\ Goto(KeepAlive, "loop", "done")
     \/ ~closed /\ Goto(KeepAlive, "loop", "recv")
  /\ UNCHANGED <<environment, closed, writeLock, armed, tick, friendsVars>>

\* <-tmrKeepAlive.C, then sendInner.  Nothing starts the timer again.
KeepAliveTick ==
  /\ tick
  /\ tick' = FALSE
  /\ Goto(KeepAlive, "recv", "check")
  /\ UNCHANGED <<environment, closed, writeLock, armed, friendsVars>>

-----------------------------------------------------------------------------
(* Account.Send finds the connection in the list, or found it there before *)
(* the handler removed it: the caller may dwell in "check".                *)

Registered == handler \in {"friends", "wait", "leave"}

BeginSend(s) ==
  /\ Registered
  /\ Goto(s, "idle", "check")
  /\ UNCHANGED <<environment, closed, writeLock, armed, tick, friendsVars>>

-----------------------------------------------------------------------------
(* AddConnectionAndWait and sendFriends.                                   *)

\* PushBack, then the first sendFriends in the handler's own goroutine.
Register ==
  /\ handler = "join" /\ handler' = "friends"
  /\ Goto(Friends, "idle", "request")
  /\ UNCHANGED <<environment, closed, writeLock, armed, tick, tmrWorking,
                 tmrFriends>>

\* The friends request is answered, and then sent, or not.
FriendsAnswered ==
  /\ \/ Goto(Friends, "request", "check")
     \/ Goto(Friends, "request", "rearm")
  /\ UNCHANGED <<environment, closed, writeLock, armed, tick, friendsVars>>

\* time.AfterFunc; the first time, the handler goes on to its select.
FriendsRearm ==
  /\ Goto(Friends, "rearm", "idle")
  /\ tmrFriends' = TRUE
  /\ handler' = IF handler = "friends" THEN "wait" ELSE handler
  /\ UNCHANGED <<environment, closed, writeLock, armed, tick, tmrWorking>>

\* FriendsFire, if the callback did not look at tmrWorking.
FriendsFireAnyway ==
  /\ tmrFriends
  /\ tmrFriends' = FALSE
  /\ Goto(Friends, "idle", "request")
  /\ UNCHANGED <<environment, closed, writeLock, armed, tick, handler,
                 tmrWorking>>

\* The timer fires; the callback gives up if tmrWorking is set.
FriendsFire ==
  /\ tmrFriends
  /\ tmrFriends' = FALSE
  /\ \/ tmrWorking /\ UNCHANGED pc
     \/ ~tmrWorking /\ Goto(Friends, "idle", "request")
  /\ UNCHANGED <<environment, closed, writeLock, armed, tick, handler,
                 tmrWorking>>

\* Wake, if the handler waited for chanClosed alone.
WakeOnChanClosed == FALSE /\ UNCHANGED vars

\* The select on ctx.Done() and chanClosed (which nothing closes), then
\* tmrWorking and tmrFriends.Stop().  The callback assigns tmrFriends with no
\* synchronisation, so that Stop may act on an earlier timer and do nothing.
Wake ==
  /\ handler = "wait" /\ handler' = "leave"
  /\ ctxDone
  /\ tmrWorking' = TRUE
  /\ tmrFriends' \in {FALSE, tmrFriends}
  /\ UNCHANGED <<environment, closed, writeLock, armed, tick, pc>>

\* The connection is taken off the list and the handler returns.
Leave ==
  /\ handler = "leave" /\ handler' = "gone"
  /\ UNCHANGED <<environment, closed, writeLock, armed, tick, pc, tmrWorking,
                 tmrFriends>>

-----------------------------------------------------------------------------
Next ==
  \/ ClientLeaves \/ ServerCancels \/ ServerNotifies
  \/ \E c \in Callers : SendStep(c) \/ Lock(c)
  \/ TimerExpires \/ KeepAliveLoop \/ KeepAliveTick
  \/ \E s \in Senders : BeginSend(s)
  \/ Register \/ FriendsAnswered \/ FriendsRearm \/ FriendsFire \/ Wake \/ Leave

Spec == Init /\ [][Next]_vars

(* Goroutines are scheduled, sync.Mutex does not starve a waiter, timers   *)
(* expire, an upstream request ends, a write ends, and net/http notices    *)
(* that a client is gone or that a write has failed.  Nobody owes a new    *)
(* packet, a departure or the value of CloseNotify.                        *)
Fairness ==
  /\ WF_vars((~up \/ closed) /\ ServerCancels)
  /\ \A c \in Callers : WF_vars(SendStep(c)) /\ SF_vars(Lock(c))
  /\ WF_vars(TimerExpires) /\ WF_vars(KeepAliveLoop) /\ WF_vars(KeepAliveTick)
  /\ WF_vars(Register) /\ WF_vars(FriendsAnswered) /\ WF_vars(FriendsRearm)
  /\ WF_vars(FriendsFire) /\ WF_vars(Wake) /\ WF_vars(Leave)

FairSpec == Spec /\ Fairness

-----------------------------------------------------------------------------
(* Properties.                                                             *)

\* http.ResponseWriter is not safe for concurrent use: packets, friends lists
\* and keep-alives never write at the same time.
WritesExclusive ==
  \A c, d \in Callers : pc[c] = "write" /\ pc[d] = "write" => c = d

\* Who has the select behind it and the end of its write before it.
PastSelect == {c \in Callers : pc[c] \in {"begin", "write"}}

\* A response writer should not be used once its handler has returned.  Between
\* its select and its write a sender does not see the handler return, so that
\* the one that holds writeLock then may still write; but nobody follows it,
\* although senders that hold a snapshot of the list outlive the handler and
\* the value of CloseNotify serves only the first of them.
LateWriteIsTheLast ==
  [][handler = "gone" => PastSelect' \subseteq PastSelect]_vars

\* Once a send has found the connection closed, keepAlive ends.
KeepAliveExits == closed ~> pc[KeepAlive] = "done"

\* A connection found closed falls silent: of the senders that had passed the
\* test of closed some may still write, and then none does.
ClosedGoesQuiet == closed ~> [](\A c \in Callers : pc[c] # "write")

\* The friends timer of a handler that has returned dies out, even if its
\* callback was amid a request when the handler stopped the timer.
FriendsTimerDies ==
  handler = "gone" ~> [](~tmrFriends /\ pc[Friends] = "idle")

\* A handler of net/http's does not outlive its connection: whichever of its
\* goroutines finds the connection closed, the handler leaves the list.
ClosedEndsServed == (closed /\ Served) ~> handler = "gone"

\* connection.go:27: chanClosed says that this connection is closed, and
\* AddConnectionAndWait waits for it: a closed connection ends its handler.
ClosedEndsStream == closed ~> handler = "gone"

\* connection.go:89: keepAlive sends keep-alive packets, for as long as the
\* client is there and the connection is open.
KeepAliveRecurs ==
  []<>(pc[KeepAlive] = "write" \/ ~up \/ ctxDone \/ closed)
=============================================================================
