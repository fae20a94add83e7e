-------------------------- MODULE VerifyCredentials --------------------------
(***************************************************************************)
(* Account.VerifyCredentials: each handler of a stream asks, under         *)
(* verifiedLock, whether the account's session is valid.  A verdict is     *)
(* kept for a while; without one Twitter is asked, up to three times, with *)
(* a pause after each failure, and the lock is held all the time.          *)
(*                                                                         *)
(* Time passes in ticks, and verifiedAt is kept as the ticks since then.   *)
(***************************************************************************)
EXTENDS Naturals

CONSTANTS
  Handlers,  \* identities of handler goroutines
  Expires,   \* VerifyCredentialExpires, in ticks
  Pause      \* 3 * time.Second, in ticks

\* The loop of VerifyCredentials.
Tries == 3

ASSUME VerifyAssumption == Expires \in Nat \ {0} /\ Pause \in Nat \ {0}

VARIABLES
  caller,     \* where each handler is
  tries,      \* tries that have failed, for who holds verifiedLock
  pause,      \* ticks of its pause
  verdict,    \* verifiedResult
  age,        \* ticks since verifiedAt, at most Expires
  confirmed   \* ticks since Twitter last said OK, at most Expires

verifyVars == <<caller, tries, pause, verdict, age, confirmed>>

Holding == {"ask", "pause"}

\* Every variable has its type, and verifiedLock has one holder.
VerifyTypeOK ==
  /\ caller \in [Handlers -> {"out", "lock", "in", "refused"} \cup Holding]
  /\ tries \in 0..(Tries - 1) /\ pause \in 0..Pause
  /\ verdict \in BOOLEAN
  /\ age \in 0..Expires /\ confirmed \in 0..Expires
  /\ \A h, g \in Handlers : {caller[h], caller[g]} \subseteq Holding => h = g

\* verifiedAt is the zero time.
VerifyInit ==
  /\ caller = [h \in Handlers |-> "out"]
  /\ tries = 0 /\ pause = 0
  /\ verdict = FALSE /\ age = Expires /\ confirmed = Expires

Step(h, from, to) == caller[h] = from /\ caller' = [caller EXCEPT ![h] = to]

-----------------------------------------------------------------------------
\* handleStreaming has found the account; whether the client waits for the
\* answer is not looked at.
Enter(h) ==
  /\ Step(h, "out", "lock")
  /\ UNCHANGED <<tries, pause, verdict, age, confirmed>>

Unlocked == \A h \in Handlers : caller[h] \notin Holding

\* LockVerify, if a verdict were kept on by being used.
LockVerifySliding(h) ==
  /\ Unlocked
  /\ \/ /\ age < Expires
        /\ Step(h, "lock", IF verdict THEN "in" ELSE "refused")
        /\ age' = 0 /\ UNCHANGED tries
     \/ /\ age = Expires
        /\ Step(h, "lock", "ask")
        /\ tries' = 0 /\ UNCHANGED age
  /\ UNCHANGED <<pause, verdict, confirmed>>

\* verifiedLock is taken; a verdict that has not expired is returned.
LockVerify(h) ==
  /\ Unlocked
  /\ \/ /\ age < Expires
        /\ Step(h, "lock", IF verdict THEN "in" ELSE "refused")
        /\ UNCHANGED tries
     \/ /\ age = Expires
        /\ Step(h, "lock", "ask")
        /\ tries' = 0
  /\ UNCHANGED <<pause, verdict, age, confirmed>>

Confirmed(h) ==
  /\ Step(h, "ask", "in")
  /\ verdict' = TRUE /\ age' = 0 /\ confirmed' = 0
  /\ UNCHANGED <<tries, pause>>

\* No answer, or another status.
NotConfirmed(h) ==
  /\ Step(h, "ask", "pause")
  /\ pause' = Pause
  /\ UNCHANGED <<tries, verdict, age, confirmed>>

\* Pausing, if the tries were not counted.
PausingUncounted(h) ==
  /\ pause = 0
  /\ Step(h, "pause", "ask")
  /\ UNCHANGED <<tries, pause, verdict, age, confirmed>>

\* The pause is over: another try, or the verdict, which dates from now.
Pausing(h) ==
  /\ pause = 0
  /\ \/ /\ tries + 1 < Tries
        /\ Step(h, "pause", "ask")
        /\ tries' = tries + 1
        /\ UNCHANGED <<verdict, age>>
     \/ /\ tries + 1 = Tries
        /\ Step(h, "pause", "refused")
        /\ verdict' = FALSE /\ age' = 0
        /\ UNCHANGED tries
  /\ UNCHANGED <<pause, confirmed>>

\* The handler of a stream returns, or that of a refusal.
Depart(h) ==
  /\ Step(h, "in", "out") \/ Step(h, "refused", "out")
  /\ UNCHANGED <<tries, pause, verdict, age, confirmed>>

VerifyStep(h) ==
  \/ Enter(h) \/ LockVerify(h) \/ Confirmed(h) \/ NotConfirmed(h)
  \/ Pausing(h) \/ Depart(h)

\* One tick of the variables that measure time.
VerifyTick ==
  /\ pause' = IF pause > 0 THEN pause - 1 ELSE 0
  /\ age' = IF age < Expires THEN age + 1 ELSE Expires
  /\ confirmed' = IF confirmed < Expires THEN confirmed + 1 ELSE Expires
  /\ UNCHANGED <<caller, tries, verdict>>

VerifyNext == VerifyTick \/ \E h \in Handlers : VerifyStep(h)

VerifySpec == VerifyInit /\ [][VerifyNext]_verifyVars

-----------------------------------------------------------------------------
\* A handler is let in only if Twitter said OK within the time for which a
\* verdict holds, whoever asked it.
LetInOnFreshVerdict ==
  [][\A h \in Handlers :
       caller[h] # "in" /\ caller'[h] = "in" => confirmed' < Expires]_verifyVars

\* Every handler that waits for the lock gets a verdict, though others hold
\* the lock through their tries, and may come back.
WaiterAnswered ==
  \A h \in Handlers : caller[h] = "lock" ~> caller[h] \in {"in", "refused"}
=============================================================================
