------------------------------- MODULE Pacing -------------------------------
(***************************************************************************)
(* What an account's streams cost at Twitter: the handlers of streams that *)
(* verify its session, and the refresh thread of one of its timelines,     *)
(* that runs while one of them has a connection, on the same clock.        *)
(***************************************************************************)
EXTENDS VerifyCredentials, RefreshWait

vars == <<verifyVars, waitVars>>

Connected(who) == \E h \in Handlers : who[h] = "in"

Init == VerifyInit /\ WaitInit

-----------------------------------------------------------------------------
\* AddConnectionAndWait: the first connection starts the thread.
First ==
  ~Connected(caller) /\ Connected(caller') /\ StartThread

\* Last, if the connections were counted before the removal.
LastCounted == Connected(caller) /\ ~Connected(caller') /\ UNCHANGED waitVars

\* The last connection that is removed stops it.
Last ==
  Connected(caller) /\ ~Connected(caller') /\ StopThread

\* Another connection is there.
Other ==
  (Connected(caller) <=> Connected(caller')) /\ UNCHANGED waitVars

Stream(h) == VerifyStep(h) /\ (First \/ Last \/ Other)

Refresh == RefreshStep /\ UNCHANGED verifyVars

OtherPrograms == OtherUse /\ UNCHANGED verifyVars

Tick == VerifyTick /\ WaitTick

Next == Refresh \/ OtherPrograms \/ Tick \/ \E h \in Handlers : Stream(h)

\* Requests to verify end (ResponseHeaderTimeout; no body is read), pauses too,
\* and a sync.Mutex hands itself to who has waited long.  An answer of the
\* thread is used within MaxLatency.
Fairness ==
  /\ WF_vars(Tick) /\ WF_vars(Refresh /\ thread = "use")
  /\ \A h \in Handlers :
       /\ SF_vars(Stream(h) /\ caller[h] = "lock")
       /\ WF_vars(Stream(h) /\ caller[h] \in Holding)

Spec == Init /\ [][Next]_vars /\ Fairness

-----------------------------------------------------------------------------
\* The variables have their types, and the thread runs if and only if there is
\* a connection: a request of a thread that nobody started would be refused.
TypeOK ==
  /\ VerifyTypeOK /\ WaitTypeOK
  /\ Connected(caller) <=> thread # "off"
=============================================================================
