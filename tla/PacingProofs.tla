---------------------------- MODULE PacingProofs ----------------------------
(* Verification and the waits of the refresh thread, for any number of     *)
(* handlers and any times: types, with the longest wait there is; that the *)
(* thread keeps within Twitter's quota; that nobody is let in on a verdict *)
(* that is too old, and what bounds the time for which verifiedLock is held*)
EXTENDS Pacing, TLAPS

-----------------------------------------------------------------------------
(* The wait.                                                               *)

LEMMA DivBounds ==
  ASSUME NEW a \in Int, NEW b \in Nat \ {0}
  PROVE  /\ a \div b \in Int
         /\ (a \div b) * b <= a /\ a < (a \div b) * b + b
BY Z3

LEMMA DivNat ==
  ASSUME NEW a \in Nat, NEW b \in Nat \ {0}
  PROVE  a \div b \in Nat /\ a \div b <= a
BY DivBounds

\* Whole seconds that begin before a whole second w end by then.
LEMMA WholeSeconds ==
  ASSUME NEW a \in Int, NEW b \in Nat \ {0}, NEW w \in Nat, w % b = 0, a <= w
  PROVE  ((a + b - 1) \div b) * b <= w
<1> DEFINE q == (a + b - 1) \div b
           k == w \div b
<1>1. w = k * b /\ k \in Int
  BY Z3
<1>2. q \in Int /\ q * b <= a + b - 1
  BY DivBounds
<1> HIDE DEF q, k
<1>3. q <= k
  BY <1>1, <1>2
<1>4. q * b <= k * b
  BY <1>1, <1>2, <1>3
<1>5. QED  BY <1>1, <1>4 DEF q

\* The time to the reset, in ticks and in whole seconds.
LEMMA SecondsBounded ==
  ASSUME NEW ticks \in Int, ticks <= Window - Skew
  PROVE  LET seconds == (ticks + Second - 1) \div Second
         IN  /\ seconds \in Int
             /\ seconds * Second <= Window + (IF Skew < 0 THEN Second - Skew ELSE 0)
             /\ ticks <= Window + (IF Skew < 0 THEN Second - Skew ELSE 0)
<1> DEFINE seconds == (ticks + Second - 1) \div Second
<1>1. /\ Second \in Nat \ {0} /\ Window \in Nat /\ Window % Second = 0 /\ Skew \in Int
  BY WaitAssumption
<1>2. seconds \in Int /\ seconds * Second <= ticks + Second - 1
  BY <1>1, DivBounds
<1>3. CASE Skew < 0
  <2> HIDE DEF seconds
  <2>1. QED  BY <1>1, <1>2, <1>3 DEF seconds
<1>4. CASE Skew >= 0
  <2>1. ticks <= Window
    BY <1>1, <1>4
  <2>2. seconds * Second <= Window
    BY <2>1, <1>1, WholeSeconds
  <2> HIDE DEF seconds
  <2>3. QED  BY <2>1, <2>2, <1>1, <1>2, <1>4 DEF seconds
<1>5. QED  BY <1>1, <1>3, <1>4

LEMMA WaitBounded ==
  ASSUME NEW ticks \in Int, ticks <= Window - Skew, reduce \in BOOLEAN,
         NEW rem \in {NoHeader} \cup 0..Limit
  PROVE  Wait(ticks, rem) \in 0..MaxWait
<1> DEFINE seconds == (ticks + Second - 1) \div Second
           longest == Window + (IF Skew < 0 THEN Second - Skew ELSE 0)
           ticksLeft == seconds * Second
           spread  == ticksLeft \div rem
<1>1. /\ Second \in Nat \ {0} /\ Window \in Nat /\ Skew \in Int /\ Limit \in Nat
      /\ TLWaitMin \in Nat /\ TLWaitError \in Nat /\ TLWaitMin <= TLWaitError
  BY WaitAssumption
<1>2. seconds \in Int /\ seconds * Second <= longest /\ ticks <= longest
  BY SecondsBounded
<1> HIDE DEF seconds
<1>3. longest \in Nat /\ MaxWait = 2 * longest + TLWaitError /\ MaxWait \in Nat
  BY <1>1 DEF MaxWait
<1> HIDE DEF longest
<1>4. CASE rem = NoHeader
  <2>1. Wait(ticks, rem) = AtLeast(TLWaitMin, TLWaitError)
    BY <1>4 DEF Wait, NoHeader
  <2>2. QED  BY <2>1, <1>1, <1>3 DEF AtLeast
<1>5. CASE rem # NoHeader /\ seconds < 0
  <2>1. Wait(ticks, rem) = AtLeast(TLWaitMin, TLWaitMin)
    BY <1>2, <1>5 DEF Wait, NoHeader, seconds
  <2>2. QED  BY <2>1, <1>1, <1>3 DEF AtLeast
<1>6. CASE rem = 0 /\ seconds >= 0
  <2>1. Wait(ticks, rem) = AtLeast(TLWaitMin, ticks)
    BY <1>6, <1>2 DEF Wait, NoHeader, seconds
  <2>2. QED  BY <2>1, <1>1, <1>2, <1>3 DEF AtLeast
<1>7. CASE rem > 0 /\ rem # NoHeader /\ seconds >= 0
  <2>1. rem \in Nat \ {0}
    BY <1>7, <1>1 DEF NoHeader
  <2>2. ticksLeft \in Nat /\ ticksLeft <= longest
    BY <1>1, <1>2, <1>7
  <2> HIDE DEF ticksLeft
  <2>3. spread \in Nat /\ spread <= longest
    BY <2>1, <2>2, <1>2, <1>3, DivNat
  <2>4. Wait(ticks, rem) = AtLeast(TLWaitMin, IF reduce THEN 2 * spread ELSE spread)
    BY <1>7, <1>2, <2>1 DEF Wait, NoHeader, seconds, ticksLeft
  <2> HIDE DEF spread
  <2>5. QED  BY <2>3, <2>4, <1>1, <1>3 DEF AtLeast
<1>8. QED  BY <1>1, <1>2, <1>4, <1>5, <1>6, <1>7 DEF NoHeader

-----------------------------------------------------------------------------
(* The refresh thread.                                                     *)

LEMMA StartThreadKeeps == WaitTypeOK /\ StartThread => WaitTypeOK' /\ thread' # "off"
BY DEF WaitTypeOK, StartThread

LEMMA StopThreadKeeps == WaitTypeOK /\ StopThread => WaitTypeOK' /\ thread' = "off"
<1>1. MaxLatency \in Nat /\ MaxWait \in Nat
  BY WaitAssumption DEF MaxWait
<1>2. QED  BY <1>1 DEF WaitTypeOK, StopThread

LEMMA UseKeeps == WaitTypeOK /\ Use => WaitTypeOK'
<1> SUFFICES ASSUME WaitTypeOK, Use PROVE WaitTypeOK'
  OBVIOUS
<1>1. Window \in Nat /\ Skew \in Int /\ MaxLatency \in Nat
  BY WaitAssumption
<1>2. Until - Skew \in Int /\ Until - Skew <= Window - Skew
  BY <1>1 DEF WaitTypeOK, Until
<1>3. sleep' \in 0..MaxWait
  BY <1>2, WaitBounded DEF WaitTypeOK, Use
<1>4. QED  BY <1>1, <1>3 DEF WaitTypeOK, Use

LEMMA RefreshKeeps ==
  WaitTypeOK /\ RefreshStep => WaitTypeOK' /\ (thread = "off" <=> thread' = "off")
<1> SUFFICES ASSUME WaitTypeOK, RefreshStep
             PROVE  WaitTypeOK' /\ (thread = "off" <=> thread' = "off")
  OBVIOUS
<1>1. Limit \in Nat
  BY WaitAssumption
<1>2. CASE Granted
  BY <1>1, <1>2 DEF WaitTypeOK, Granted
<1>3. CASE Refusal
  BY <1>1, <1>3 DEF WaitTypeOK, Refusal
<1>4. CASE Lost
  <2>1. left' \in 0..Limit
    BY <1>1, <1>4 DEF WaitTypeOK, Lost
  <2>2. QED  BY <1>4, <2>1, Zenon DEF WaitTypeOK, Lost
<1>5. CASE Use
  BY <1>5, UseKeeps DEF Use
<1>6. CASE Wake
  BY <1>6 DEF WaitTypeOK, Wake
<1>7. QED  BY <1>2, <1>3, <1>4, <1>5, <1>6 DEF RefreshStep

LEMMA OtherUseKeeps == WaitTypeOK /\ OtherUse => WaitTypeOK' /\ thread' = thread
<1>1. Limit \in Nat
  BY WaitAssumption
<1>2. WaitTypeOK /\ OtherUse => left' \in 0..Limit
  BY <1>1 DEF WaitTypeOK, OtherUse
<1>3. QED  BY <1>2, Zenon DEF WaitTypeOK, OtherUse

LEMMA WaitTickKeeps == WaitTypeOK /\ WaitTick => WaitTypeOK' /\ thread' = thread
<1>1. /\ Limit \in Nat /\ Window \in Nat /\ Window > 0 /\ MaxLatency \in Nat
      /\ MaxWait \in Nat
  BY WaitAssumption DEF MaxWait
<1>2. WaitTypeOK /\ WaitTick =>
        /\ toReset' \in 1..Window /\ left' \in 0..Limit
        /\ since' \in 0..MaxLatency /\ sleep' \in 0..MaxWait /\ refused' \in Nat
  BY <1>1 DEF WaitTypeOK, WaitTick
<1>3. QED  BY <1>2, Zenon DEF WaitTypeOK, WaitTick

-----------------------------------------------------------------------------
(* The quota.  Twitter refuses a request only when nothing is left of its  *)
(* window.  What keeps the thread from asking then is that it has seen so: *)
(* it took the last request itself, or was refused, and waits to the end   *)
(* of the window on its own clock.                                         *)

\* Refusals that a clock which is ahead has to answer for; -1 if not even the
\* one is used up that others' requests cost the thread.
Excess == refused - (IF alone THEN 0 ELSE 1)

\* Nothing is left, and the thread has seen it.
Informed == left = 0 /\ Excess >= 0

\* An informed thread that is about to ask is in the last Skew ticks of the
\* window, further in by TLWaitMin for each refusal in excess.
AskIsLate == Informed /\ thread = "ask" => toReset + Excess * TLWaitMin <= Skew

\* One that sleeps will be when it wakes.
WakeIsLate ==
  Informed /\ thread = "sleep" => toReset - sleep + Excess * TLWaitMin <= Skew

\* One that has an answer has one of this window that says so, and will sleep
\* through the rest of it; or else any wait is enough.
AnswerTells ==
  Informed /\ thread = "use" =>
    \/ remaining = 0 /\ Excess = 0 /\ since <= Window - toReset
    \/ toReset + (Excess - 1) * TLWaitMin <= Skew

\* A refusal means that nothing is left, and is one of a thread that runs.
RefusedIsSpent ==
  /\ left > 0 => refused = 0
  /\ thread = "off" => refused = 0
  /\ thread # "use" => since = 0

QuotaInv == RefusedIsSpent /\ AskIsLate /\ WakeIsLate /\ AnswerTells /\ RefusedSeldom

LEMMA DivAtLeast ==
  ASSUME NEW a \in Int, NEW b \in Nat \ {0}, NEW k \in Int, k * b <= a
  PROVE  k <= a \div b
<1> DEFINE q == a \div b
<1>1. q \in Int /\ a < q * b + b
  BY DivBounds
<1> HIDE DEF q
<1>2. k * b < (q + 1) * b
  BY <1>1
<1>3. k < q + 1
  BY <1>1, <1>2
<1>4. QED  BY <1>1, <1>3 DEF q

LEMMA EarlyType == Early \in Nat
<1>1. Skew \in Int /\ TLWaitMin \in Nat \ {0}
  BY WaitAssumption
<1>2. CASE Skew > 0
  <2>1. Skew + TLWaitMin - 1 \in Nat
    BY <1>1, <1>2
  <2>2. (Skew + TLWaitMin - 1) \div TLWaitMin \in Nat
    BY <1>1, <2>1, DivNat
  <2>3. QED  BY <1>2, <2>2 DEF Early
<1>3. CASE ~(Skew > 0)
  BY <1>3 DEF Early
<1>4. QED  BY <1>2, <1>3

\* Who asks with k refusals in excess, that late, may be refused once more.
LEMMA EarlyEnough ==
  ASSUME NEW k \in Nat, NEW ticks \in Nat \ {0}, ticks + k * TLWaitMin <= Skew
  PROVE  k + 1 <= Early
<1>1. Skew \in Int /\ TLWaitMin \in Nat \ {0}
  BY WaitAssumption
<1> DEFINE p == k * TLWaitMin
<1>2. p \in Nat /\ (k + 1) * TLWaitMin = p + TLWaitMin /\ ticks + p <= Skew
  BY <1>1
<1> HIDE DEF p
<1>3. Skew > 0 /\ (k + 1) * TLWaitMin <= Skew + TLWaitMin - 1
  BY <1>1, <1>2
<1>4. k + 1 <= (Skew + TLWaitMin - 1) \div TLWaitMin
  BY <1>1, <1>3, DivAtLeast
<1>5. QED  BY <1>3, <1>4 DEF Early

\* No wait is shorter than TLWaitMin, nor than what an exhausted quota takes.
LEMMA WaitLongEnough ==
  ASSUME NEW ticks \in Int, ticks <= Window - Skew, reduce \in BOOLEAN,
         NEW rem \in {NoHeader} \cup 0..Limit
  PROVE  /\ TLWaitMin <= Wait(ticks, rem)
         /\ rem = 0 => ticks <= Wait(ticks, rem)
<1> DEFINE seconds == (ticks + Second - 1) \div Second
<1>1. /\ Second \in Nat \ {0} /\ Limit \in Nat /\ TLWaitMin \in Nat /\ Window \in Nat
      /\ TLWaitError \in Nat /\ Skew \in Int
  BY WaitAssumption
<1>2. Wait(ticks, rem) \in Int
  <2>1. Wait(ticks, rem) \in 0..MaxWait
    BY WaitBounded
  <2>2. MaxWait \in Int
    BY <1>1 DEF MaxWait
  <2>3. QED  BY <2>1, <2>2
<1>3. PICK n : Wait(ticks, rem) = AtLeast(TLWaitMin, n)
  BY DEF Wait
<1>4. TLWaitMin <= Wait(ticks, rem)
  BY <1>1, <1>2, <1>3 DEF AtLeast
<1>5. ASSUME rem = 0 PROVE ticks <= Wait(ticks, rem)
  <2>1. seconds \in Int /\ ticks + Second - 1 < seconds * Second + Second
    BY <1>1, DivBounds
  <2> HIDE DEF seconds
  <2>2. CASE seconds < 0
    <3>1. seconds * Second <= -Second
      BY <1>1, <2>1, <2>2
    <3>2. ticks < 0
      BY <1>1, <2>1, <3>1
    <3>3. QED  BY <1>1, <1>2, <1>4, <3>2
  <2>3. CASE seconds >= 0
    <3>1. Wait(ticks, rem) = AtLeast(TLWaitMin, ticks)
      BY <1>5, <2>3, <2>1 DEF Wait, NoHeader, seconds
    <3>2. QED  BY <1>1, <3>1 DEF AtLeast
  <2>4. QED  BY <2>1, <2>2, <2>3
<1>6. QED  BY <1>4, <1>5

\* The facts about the variables that every step below uses.
LEMMA QuotaTypes ==
  ASSUME WaitTypeOK
  PROVE  /\ Skew \in Int /\ TLWaitMin \in Nat \ {0} /\ Window \in Nat /\ Limit \in Nat
         /\ TLWaitError \in Nat /\ TLWaitMin <= TLWaitError /\ Early \in Nat
         /\ toReset \in 1..Window /\ left \in 0..Limit /\ sleep \in Nat
         /\ since \in Nat /\ refused \in Nat /\ alone \in BOOLEAN
         /\ Excess \in Int
<1>1. MaxWait \in Nat /\ MaxLatency \in Nat
  BY WaitAssumption DEF MaxWait
<1>2. QED  BY <1>1, WaitAssumption, EarlyType DEF WaitTypeOK, Excess

LEMMA GrantedKeepsQuota == WaitTypeOK /\ QuotaInv /\ Granted => QuotaInv'
<1> SUFFICES ASSUME WaitTypeOK, QuotaInv, Granted PROVE QuotaInv'
  OBVIOUS
<1>1. /\ thread = "ask" /\ left > 0 /\ thread' = "use" /\ left' = left - 1
      /\ remaining' = left - 1
      /\ UNCHANGED <<toReset, since, sleep, refused, alone>>
  BY DEF Granted
<1>2. refused = 0 /\ since = 0 /\ refused' = 0 /\ since' = 0
  BY <1>1 DEF QuotaInv, RefusedIsSpent
<1>3. RefusedIsSpent' /\ RefusedSeldom'
  BY <1>1, <1>2 DEF QuotaInv, RefusedIsSpent, RefusedSeldom, Early
<1>4. AskIsLate' /\ WakeIsLate'
  BY <1>1 DEF AskIsLate, WakeIsLate
<1>5. AnswerTells'
  <2>1. Informed' => remaining' = 0 /\ Excess' = 0
    <3>1. Informed' => remaining' = 0
      BY <1>1 DEF Informed
    <3>2. CASE alone'
      <4>1. Excess' = 0 - (IF alone' THEN 0 ELSE 1)
        BY <1>2 DEF Excess
      <4>2. (IF alone' THEN 0 ELSE 1) = 0
        BY <3>2
      <4>3. Excess' = 0 - 0
        BY <4>1, <4>2
      <4>4. QED  BY <4>3, <3>1
    <3>3. CASE ~alone'
      BY <1>2, <3>3 DEF Excess, Informed
    <3>4. QED  BY <3>2, <3>3
  <2>2. since' <= Window - toReset'
    BY <1>1, <1>2, QuotaTypes
  <2>3. QED  BY <2>1, <2>2 DEF AnswerTells
<1>6. QED  BY <1>3, <1>4, <1>5 DEF QuotaInv

LEMMA RefusalKeepsQuota == WaitTypeOK /\ QuotaInv /\ Refusal => QuotaInv'
<1> SUFFICES ASSUME WaitTypeOK, QuotaInv, Refusal PROVE QuotaInv'
  OBVIOUS
<1> USE QuotaTypes
<1>1. /\ thread = "ask" /\ left = 0 /\ thread' = "use" /\ remaining' = 0
      /\ refused' = refused + 1
      /\ UNCHANGED <<toReset, left, since, sleep, alone>>
  BY DEF Refusal
<1>2. Excess' = Excess + 1 /\ since = 0 /\ since' = 0 /\ Excess >= -1
  BY <1>1 DEF Excess, QuotaInv, RefusedIsSpent
<1>3. RefusedIsSpent' /\ AskIsLate' /\ WakeIsLate'
  BY <1>1 DEF QuotaInv, RefusedIsSpent, AskIsLate, WakeIsLate
<1>4. CASE Excess = -1
  <2>1. AnswerTells'
    BY <1>1, <1>2, <1>4 DEF AnswerTells
  <2>2. RefusedSeldom'
    BY <1>1, <1>4 DEF RefusedSeldom, Excess, Early
  <2>3. QED  BY <1>3, <2>1, <2>2 DEF QuotaInv
<1>5. CASE Excess >= 0
  <2>1. toReset + Excess * TLWaitMin <= Skew
    BY <1>1, <1>5 DEF QuotaInv, AskIsLate, Informed
  <2>2. AnswerTells'
    BY <1>1, <1>2, <2>1 DEF AnswerTells
  <2>3. Excess + 1 <= Early
    BY <1>5, <2>1, EarlyEnough
  <2>4. RefusedSeldom'
    BY <1>1, <2>3 DEF RefusedSeldom, Excess, Early
  <2>5. QED  BY <1>3, <2>2, <2>4 DEF QuotaInv
<1>6. QED  BY <1>2, <1>4, <1>5

LEMMA LostKeepsQuota == WaitTypeOK /\ QuotaInv /\ Lost => QuotaInv'
<1> SUFFICES ASSUME WaitTypeOK, QuotaInv, Lost PROVE QuotaInv'
  OBVIOUS
<1> USE QuotaTypes
<1>1. /\ thread = "ask" /\ thread' = "use" /\ alone' = FALSE
      /\ left' \in {left, left - 1} /\ left' >= 0
      /\ UNCHANGED <<toReset, since, sleep, refused>>
  BY DEF Lost
<1>2. Excess' <= Excess /\ Excess' = refused - 1
  BY <1>1 DEF Excess
<1>3. RefusedIsSpent' /\ AskIsLate' /\ WakeIsLate'
  BY <1>1 DEF QuotaInv, RefusedIsSpent, AskIsLate, WakeIsLate
<1>4. AnswerTells'
  <2> SUFFICES ASSUME Informed'
               PROVE  toReset' + (Excess' - 1) * TLWaitMin <= Skew
    BY DEF AnswerTells
  <2>1. left = 0 /\ Excess >= 0
    BY <1>1, <1>2 DEF Informed, QuotaInv, RefusedIsSpent
  <2>2. toReset + Excess * TLWaitMin <= Skew
    BY <1>1, <2>1 DEF QuotaInv, AskIsLate, Informed
  <2>3. Excess' * TLWaitMin <= Excess * TLWaitMin /\ Excess' \in Int
    BY <1>1, <1>2
  <2>4. (Excess' - 1) * TLWaitMin = Excess' * TLWaitMin - TLWaitMin
    BY <2>3
  <2>5. QED  BY <1>1, <2>2, <2>3, <2>4
<1>5. RefusedSeldom'
  BY <1>1 DEF QuotaInv, RefusedSeldom, Early
<1>6. QED  BY <1>3, <1>4, <1>5 DEF QuotaInv

LEMMA UseKeepsQuota == WaitTypeOK /\ QuotaInv /\ Use => QuotaInv'
<1> SUFFICES ASSUME WaitTypeOK, QuotaInv, Use PROVE QuotaInv'
  OBVIOUS
<1> USE QuotaTypes
<1>1. /\ thread = "use" /\ thread' = "sleep"
      /\ sleep' = Wait(Until - Skew, remaining) /\ since' = 0
      /\ UNCHANGED <<toReset, left, refused, alone>>
  BY DEF Use
<1>2. Excess' = Excess /\ (Informed' <=> Informed)
  BY <1>1 DEF Excess, Informed
<1>3. RefusedIsSpent' /\ AskIsLate' /\ AnswerTells'
  BY <1>1 DEF QuotaInv, RefusedIsSpent, AskIsLate, AnswerTells
<1>4. Until \in Int /\ Until - Skew <= Window - Skew
  BY DEF Until
<1>5. /\ TLWaitMin <= sleep' /\ sleep' \in Int
      /\ remaining = 0 => Until - Skew <= sleep'
  <2>1. reduce \in BOOLEAN /\ remaining \in {NoHeader} \cup 0..Limit
    BY DEF WaitTypeOK
  <2>2. sleep' \in 0..MaxWait /\ MaxWait \in Nat
    BY <1>1, <1>4, <2>1, WaitBounded, WaitAssumption DEF MaxWait
  <2>3. QED  BY <1>1, <1>4, <2>1, <2>2, WaitLongEnough
<1>6. WakeIsLate'
  <2> SUFFICES ASSUME Informed
               PROVE  toReset - sleep' + Excess * TLWaitMin <= Skew
    BY <1>1, <1>2 DEF WakeIsLate
  <2>1. CASE remaining = 0 /\ Excess = 0 /\ since <= Window - toReset
    <3>1. Until = toReset /\ Excess * TLWaitMin = 0
      BY <2>1 DEF Until
    <3>2. QED  BY <1>4, <1>5, <2>1, <3>1
  <2>2. CASE toReset + (Excess - 1) * TLWaitMin <= Skew
    <3>1. (Excess - 1) * TLWaitMin = Excess * TLWaitMin - TLWaitMin
      OBVIOUS
    <3>2. Excess * TLWaitMin \in Int
      OBVIOUS
    <3>3. QED  BY <1>5, <2>2, <3>1, <3>2
  <2>3. QED  BY <1>1, <2>1, <2>2 DEF QuotaInv, AnswerTells
<1>7. RefusedSeldom'
  BY <1>1 DEF QuotaInv, RefusedSeldom, Early
<1>8. QED  BY <1>3, <1>6, <1>7 DEF QuotaInv

LEMMA WakeKeepsQuota == WaitTypeOK /\ QuotaInv /\ Wake => QuotaInv'
<1> SUFFICES ASSUME WaitTypeOK, QuotaInv, Wake PROVE QuotaInv'
  OBVIOUS
<1>1. /\ thread = "sleep" /\ sleep = 0 /\ thread' = "ask"
      /\ UNCHANGED <<toReset, left, remaining, since, sleep, refused, alone>>
  BY DEF Wake
<1>2. Excess' = Excess /\ (Informed' <=> Informed)
  BY <1>1 DEF Excess, Informed
<1>3. AskIsLate'
  BY <1>1, <1>2, QuotaTypes DEF QuotaInv, WakeIsLate, AskIsLate
<1>4. QED
  BY <1>1, <1>3 DEF QuotaInv, RefusedIsSpent, WakeIsLate, AnswerTells, RefusedSeldom, Early

LEMMA OtherUseKeepsQuota == WaitTypeOK /\ QuotaInv /\ OtherUse => QuotaInv'
<1> SUFFICES ASSUME WaitTypeOK, QuotaInv, OtherUse PROVE QuotaInv'
  OBVIOUS
<1>1. /\ left > 0 /\ alone' = FALSE
      /\ UNCHANGED <<toReset, thread, remaining, since, sleep, refused>>
  BY DEF OtherUse
<1>2. refused = 0
  BY <1>1 DEF QuotaInv, RefusedIsSpent
<1>3. ~Informed'
  BY <1>1, <1>2 DEF Informed, Excess
<1>4. RefusedIsSpent' /\ RefusedSeldom'
  BY <1>1, <1>2, EarlyType DEF QuotaInv, RefusedIsSpent, RefusedSeldom, Early
<1>5. QED  BY <1>3, <1>4 DEF QuotaInv, AskIsLate, WakeIsLate, AnswerTells

LEMMA StartThreadKeepsQuota == WaitTypeOK /\ QuotaInv /\ StartThread => QuotaInv'
<1> SUFFICES ASSUME WaitTypeOK, QuotaInv, StartThread PROVE QuotaInv'
  OBVIOUS
<1>1. /\ thread = "off" /\ thread' = "ask" /\ refused' = 0 /\ alone' = (left = Limit)
      /\ left' = left /\ since' = since
  BY DEF StartThread
<1>2. Limit \in Nat \ {0}
  BY WaitAssumption
<1>3. ~Informed'
  <2>1. CASE left = Limit
    BY <1>1, <1>2, <2>1 DEF Informed
  <2>2. CASE left # Limit
    <3>1. ~alone'
      BY <1>1, <2>2, Zenon
    <3>2. QED  BY <1>1, <3>1 DEF Informed, Excess
  <2>3. QED  BY <2>1, <2>2
<1>4. RefusedIsSpent' /\ RefusedSeldom'
  BY <1>1, EarlyType DEF QuotaInv, RefusedIsSpent, RefusedSeldom, Early
<1>5. QED  BY <1>3, <1>4 DEF QuotaInv, AskIsLate, WakeIsLate, AnswerTells

LEMMA StopThreadKeepsQuota == StopThread => QuotaInv'
<1> SUFFICES ASSUME StopThread PROVE QuotaInv'
  OBVIOUS
<1>1. thread' = "off" /\ refused' = 0 /\ since' = 0 /\ alone'
  BY DEF StopThread
<1>2. QED
  BY <1>1, EarlyType DEF QuotaInv, RefusedIsSpent, AskIsLate, WakeIsLate, AnswerTells,
     RefusedSeldom, Early

\* At the end of a window nothing is spent; before it, the end comes nearer by
\* as much as the thread has slept or its answer has aged.
LEMMA WaitTickKeepsQuota == WaitTypeOK /\ QuotaInv /\ WaitTick => QuotaInv'
<1> SUFFICES ASSUME WaitTypeOK, QuotaInv, WaitTick PROVE QuotaInv'
  OBVIOUS
<1> USE QuotaTypes
<1>1. /\ thread' = thread /\ remaining' = remaining
      /\ since' = IF thread = "use" THEN since + 1 ELSE 0
      /\ sleep' = IF sleep > 0 THEN sleep - 1 ELSE 0
  BY DEF WaitTick
<1>2. CASE toReset > 1
  <2>1. toReset' = toReset - 1 /\ UNCHANGED <<left, refused, alone>>
    BY <1>2 DEF WaitTick
  <2>2. Excess' = Excess /\ (Informed' <=> Informed)
    BY <2>1 DEF Excess, Informed
  <2>3. Excess * TLWaitMin \in Int /\ (Excess - 1) * TLWaitMin \in Int
    OBVIOUS
  <2>4. RefusedIsSpent' /\ RefusedSeldom'
    BY <1>1, <2>1 DEF QuotaInv, RefusedIsSpent, RefusedSeldom, Early
  <2>5. AskIsLate'
    BY <1>1, <2>1, <2>2, <2>3 DEF QuotaInv, AskIsLate
  <2>6. WakeIsLate'
    BY <1>1, <2>1, <2>2, <2>3 DEF QuotaInv, WakeIsLate
  <2>7. AnswerTells'
    BY <1>1, <2>1, <2>2, <2>3 DEF QuotaInv, AnswerTells
  <2>8. QED  BY <2>4, <2>5, <2>6, <2>7 DEF QuotaInv
<1>3. CASE ~(toReset > 1)
  <2>1. left' = Limit /\ refused' = 0 /\ alone'
    BY <1>3 DEF WaitTick
  <2>2. ~Informed'
    BY <2>1, WaitAssumption DEF Informed
  <2>3. RefusedIsSpent' /\ RefusedSeldom'
    BY <1>1, <2>1 DEF RefusedIsSpent, RefusedSeldom, Early
  <2>4. QED  BY <2>2, <2>3 DEF QuotaInv, AskIsLate, WakeIsLate, AnswerTells
<1>4. QED  BY <1>2, <1>3

LEMMA RefreshKeepsQuota == WaitTypeOK /\ QuotaInv /\ RefreshStep => QuotaInv'
BY GrantedKeepsQuota, RefusalKeepsQuota, LostKeepsQuota, UseKeepsQuota, WakeKeepsQuota
   DEF RefreshStep

-----------------------------------------------------------------------------
(* Verification.                                                           *)

\* A verdict that lets in is no younger than what Twitter last said.
VerifyInv == VerifyTypeOK /\ (verdict => confirmed <= age)

LEMMA VerifyStepKeeps ==
  ASSUME VerifyInv, NEW h \in Handlers, VerifyStep(h)
  PROVE  VerifyInv'
<1>1. Expires \in Nat \ {0} /\ Pause \in Nat \ {0}
  BY VerifyAssumption
<1>2. /\ caller \in [Handlers -> {"out", "lock", "in", "refused"} \cup Holding]
      /\ tries \in 0..(Tries - 1) /\ pause \in 0..Pause /\ verdict \in BOOLEAN
      /\ age \in 0..Expires /\ confirmed \in 0..Expires
      /\ verdict => confirmed <= age
      /\ \A f, g \in Handlers : caller[f] \in Holding /\ caller[g] \in Holding => f = g
  BY DEF VerifyInv, VerifyTypeOK
\* The lock: who comes to hold it found nobody to hold it.
<1>3. ASSUME caller' \in [Handlers -> {"out", "lock", "in", "refused"} \cup Holding],
             \A g \in Handlers \ {h} : caller'[g] = caller[g],
             caller'[h] \in Holding => caller[h] \in Holding \/ Unlocked,
             tries' \in 0..(Tries - 1), pause' \in 0..Pause, verdict' \in BOOLEAN,
             age' \in 0..Expires, confirmed' \in 0..Expires,
             verdict' => confirmed' <= age'
      PROVE  VerifyInv'
  <2>1. \A f, g \in Handlers : caller'[f] \in Holding /\ caller'[g] \in Holding => f = g
    BY <1>2, <1>3 DEF Unlocked
  <2>2. QED  BY <1>3, <2>1 DEF VerifyInv, VerifyTypeOK
<1>4. CASE Enter(h)
  BY <1>2, <1>3, <1>4 DEF Enter, Step, Holding
<1>5. CASE LockVerify(h)
  BY <1>1, <1>2, <1>3, <1>5 DEF LockVerify, Step, Holding, Tries
<1>6. CASE Confirmed(h)
  BY <1>1, <1>2, <1>3, <1>6 DEF Confirmed, Step, Holding
<1>7. CASE NotConfirmed(h)
  BY <1>1, <1>2, <1>3, <1>7 DEF NotConfirmed, Step, Holding
<1>8. CASE Pausing(h)
  <2>1. CASE tries + 1 < Tries
    BY <1>1, <1>2, <1>3, <1>8, <2>1 DEF Pausing, Step, Holding, Tries
  <2>2. CASE tries + 1 = Tries
    <3>1. /\ Step(h, "pause", "refused") /\ verdict' = FALSE /\ age' = 0
          /\ tries' = tries /\ pause' = pause /\ confirmed' = confirmed
      BY <1>8, <2>2, <1>2 DEF Pausing, Tries
    <3>2. verdict' \in BOOLEAN /\ ~verdict'
      BY <3>1, Zenon
    <3>3. age' \in 0..Expires
      BY <1>1, <3>1
    <3>4. QED  BY <1>2, <1>3, <3>1, <3>2, <3>3 DEF Step, Holding
  <2>3. QED  BY <1>8, <2>1, <2>2 DEF Pausing
<1>9. CASE Depart(h)
  BY <1>2, <1>3, <1>9 DEF Depart, Step, Holding
<1>10. QED  BY <1>4, <1>5, <1>6, <1>7, <1>8, <1>9 DEF VerifyStep

LEMMA VerifyTickKeeps == VerifyInv /\ VerifyTick => VerifyInv'
<1>1. Expires \in Nat \ {0} /\ Pause \in Nat \ {0}
  BY VerifyAssumption
<1>2. QED  BY <1>1 DEF VerifyInv, VerifyTypeOK, VerifyTick

\* Who gets in has a verdict that has not expired, or the answer.
LEMMA LetInFresh ==
  ASSUME VerifyInv, NEW g \in Handlers, VerifyStep(g), NEW h \in Handlers,
         caller[h] # "in", caller'[h] = "in"
  PROVE  confirmed' < Expires
<1>1. /\ Expires \in Nat \ {0} /\ age \in Nat /\ confirmed \in Nat
      /\ verdict => confirmed <= age
      /\ caller \in [Handlers -> {"out", "lock", "in", "refused"} \cup Holding]
  BY VerifyAssumption DEF VerifyInv, VerifyTypeOK
<1>2. ASSUME NEW from, NEW to, Step(g, from, to) PROVE g = h /\ to = "in"
  BY <1>1, <1>2 DEF Step
<1>3. ~Enter(g) /\ ~NotConfirmed(g) /\ ~Pausing(g) /\ ~Depart(g)
  BY <1>2 DEF Enter, NotConfirmed, Pausing, Depart
<1>4. CASE LockVerify(g)
  <2>1. age < Expires /\ confirmed' = confirmed
        /\ Step(g, "lock", IF verdict THEN "in" ELSE "refused")
    BY <1>2, <1>4 DEF LockVerify
  <2>2. verdict
    BY <1>2, <2>1
  <2>3. QED  BY <1>1, <2>1, <2>2
<1>5. CASE Confirmed(g)
  BY <1>1, <1>5 DEF Confirmed
<1>6. QED  BY <1>3, <1>4, <1>5 DEF VerifyStep

-----------------------------------------------------------------------------
(* Both.                                                                   *)

IInv ==
  VerifyInv /\ WaitTypeOK /\ QuotaInv /\ (Connected(caller) <=> thread # "off")

LEMMA InitHolds == Init => IInv
<1> SUFFICES ASSUME Init PROVE IInv
  OBVIOUS
<1>1. VerifyInv
  <2>1. verdict \in BOOLEAN /\ ~verdict
    BY Zenon DEF Init, VerifyInit
  <2>2. /\ tries \in 0..(Tries - 1) /\ pause \in 0..Pause
        /\ age \in 0..Expires /\ confirmed \in 0..Expires
    BY VerifyAssumption DEF Init, VerifyInit, Tries
  <2>3. /\ caller \in [Handlers -> {"out", "lock", "in", "refused"} \cup Holding]
        /\ \A h, g \in Handlers : {caller[h], caller[g]} \subseteq Holding => h = g
    BY DEF Init, VerifyInit, Holding
  <2>4. QED  BY <2>1, <2>2, <2>3, Zenon DEF VerifyInv, VerifyTypeOK
<1>2. WaitTypeOK
  <2>1. /\ Window \in Nat /\ Window > 0 /\ Limit \in Nat /\ MaxLatency \in Nat
        /\ MaxWait \in Nat
    BY WaitAssumption DEF MaxWait
  <2>2. QED  BY <2>1 DEF Init, WaitInit, WaitTypeOK
<1>3. Connected(caller) <=> thread # "off"
  BY DEF Init, VerifyInit, WaitInit, Connected
<1>4. QuotaInv
  BY EarlyType DEF Init, WaitInit, QuotaInv, RefusedIsSpent, AskIsLate, WakeIsLate,
     AnswerTells, RefusedSeldom
<1>5. QED  BY <1>1, <1>2, <1>3, <1>4 DEF IInv

LEMMA StepKeeps == IInv /\ [Next]_vars => IInv'
<1> SUFFICES ASSUME IInv, [Next]_vars PROVE IInv'
  OBVIOUS
<1>1. VerifyInv /\ WaitTypeOK /\ QuotaInv /\ (Connected(caller) <=> thread # "off")
  BY DEF IInv
<1>2. UNCHANGED verifyVars => VerifyInv' /\ caller' = caller
  BY <1>1 DEF verifyVars, VerifyInv, VerifyTypeOK
<1>3. UNCHANGED waitVars => WaitTypeOK' /\ QuotaInv' /\ thread' = thread
  <2>1. UNCHANGED waitVars => WaitTypeOK' /\ thread' = thread
    BY <1>1 DEF waitVars, WaitTypeOK
  <2>2. UNCHANGED waitVars => QuotaInv'
    BY <1>1 DEF waitVars, QuotaInv, RefusedIsSpent, AskIsLate, WakeIsLate, AnswerTells,
       Informed, Excess, RefusedSeldom, Early
  <2>3. QED  BY <2>1, <2>2
<1>4. CASE UNCHANGED vars
  BY <1>1, <1>2, <1>3, <1>4 DEF vars, IInv
<1>5. CASE Refresh
  BY <1>1, <1>2, <1>5, RefreshKeeps, RefreshKeepsQuota DEF Refresh, IInv
<1>6. CASE OtherPrograms
  BY <1>1, <1>2, <1>6, OtherUseKeeps, OtherUseKeepsQuota DEF OtherPrograms, IInv
<1>7. CASE Tick
  <2>1. caller' = caller
    BY <1>7 DEF Tick, VerifyTick
  <2>2. QED  BY <2>1, <1>1, <1>7, VerifyTickKeeps, WaitTickKeeps, WaitTickKeepsQuota
             DEF Tick, IInv
<1>8. ASSUME NEW h \in Handlers, Stream(h) PROVE IInv'
  <2>1. VerifyInv'
    BY <1>1, <1>8, VerifyStepKeeps DEF Stream
  <2>2. CASE First
    BY <2>1, <2>2, <1>1, StartThreadKeeps, StartThreadKeepsQuota DEF First, IInv
  <2>3. CASE Last
    BY <2>1, <2>3, <1>1, StopThreadKeeps, StopThreadKeepsQuota DEF Last, IInv
  <2>4. CASE Other
    BY <2>1, <2>4, <1>1, <1>3 DEF Other, IInv
  <2>5. QED  BY <1>8, <2>2, <2>3, <2>4 DEF Stream
<1>9. QED  BY <1>4, <1>5, <1>6, <1>7, <1>8 DEF Next

\* Every reachable state satisfies the inductive invariant.
THEOREM Invariance == Spec => []IInv
BY InitHolds, StepKeeps, PTL DEF Spec

\* The variables have their types, verifiedLock has one holder, no wait is longer
\* than MaxWait, and the thread runs exactly while there is a connection.
THEOREM TypeCorrect == Spec => []TypeOK
<1>1. IInv => TypeOK
  BY DEF IInv, VerifyInv, TypeOK
<1>2. QED  BY <1>1, Invariance, PTL

\* TimeLine.update keeps within the quota: a thread that has the quota for itself
\* is never refused, one that shares it once in a window, but for the polls that
\* a clock which is ahead makes too early.
THEOREM WithinQuota == Spec => []RefusedSeldom
<1>1. IInv => RefusedSeldom
  BY DEF IInv, QuotaInv
<1>2. QED  BY <1>1, Invariance, PTL

\* Account.VerifyCredentials lets no handler in on an answer of Twitter's that is
\* older than a verdict may be, whichever handler it was given to.
THEOREM FreshVerdict == Spec => LetInOnFreshVerdict
<1> DEFINE Fresh == \A h \in Handlers :
                      caller[h] # "in" /\ caller'[h] = "in" => confirmed' < Expires
<1>1. IInv /\ [Next]_vars => [Fresh]_verifyVars
  <2> SUFFICES ASSUME IInv, [Next]_vars, NEW h \in Handlers,
                      caller[h] # "in", caller'[h] = "in"
               PROVE  confirmed' < Expires
    OBVIOUS
  <2>1. caller' # caller
    OBVIOUS
  <2>2. PICK g \in Handlers : VerifyStep(g)
    BY <2>1 DEF Next, vars, verifyVars, Refresh, OtherPrograms, Tick, VerifyTick, Stream
  <2>3. QED  BY <2>2, LetInFresh DEF IInv
<1>2. QED  BY <1>1, Invariance, PTL DEF Spec, LetInOnFreshVerdict

-----------------------------------------------------------------------------
(* Who waits for verifiedLock waits for its holder, which asks and pauses  *)
(* under it.  That the waiter is answered is checked with fairness; this is*)
(* what the holder has still before it.                                    *)

\* The requests, and the ticks of pauses, that the holder h has before it.
HoldLeft(h) ==
  (Tries - tries) * (Pause + 2)
    - (IF caller[h] = "ask" THEN 0 ELSE Pause + 1 - pause)

\* Nobody else has a say in how long verifiedLock is held, neither another
\* handler nor the thread nor another program: each step of the holder and
\* each tick of its pause takes it nearer to the release, and it releases the
\* lock with a verdict.
HolderProceeds ==
  [][\A h \in Handlers : caller[h] \in Holding =>
       \/ caller'[h] \in {"in", "refused"}
       \/ caller'[h] \in Holding /\ HoldLeft(h)' \in 0..(HoldLeft(h) - 1)
       \/ /\ UNCHANGED <<caller[h], tries>>
          /\ caller[h] = "pause" => pause' = pause]_vars

\* Who holds the lock asks or pauses, in one of three tries.
LEMMA HolderIs ==
  ASSUME VerifyInv, NEW h \in Handlers, caller[h] \in Holding
  PROVE  /\ Pause \in Nat \ {0} /\ tries \in {0, 1, 2} /\ pause \in 0..Pause
         /\ caller[h] \in {"ask", "pause"}
  BY VerifyAssumption DEF VerifyInv, VerifyTypeOK, Holding, Tries

LEMMA HolderNears ==
  ASSUME VerifyInv, NEW h \in Handlers, caller[h] \in Holding, VerifyStep(h)
  PROVE  \/ caller'[h] \in {"in", "refused"}
         \/ caller'[h] \in Holding /\ HoldLeft(h)' \in 0..(HoldLeft(h) - 1)
<1>1. /\ Pause \in Nat \ {0} /\ tries \in {0, 1, 2} /\ pause \in 0..Pause
      /\ caller[h] \in {"ask", "pause"}
  BY HolderIs
<1>2. caller \in [Handlers -> {"out", "lock", "in", "refused", "ask", "pause"}]
  BY DEF VerifyInv, VerifyTypeOK, Holding
<1>3. CASE NotConfirmed(h)
  <2>1. /\ caller[h] = "ask" /\ caller'[h] = "pause"
        /\ pause' = Pause /\ tries' = tries
    BY <1>2, <1>3 DEF NotConfirmed, Step
  <2>2. CASE tries = 0
    BY <1>1, <2>1, <2>2 DEF HoldLeft, Tries, Holding
  <2>3. CASE tries = 1
    BY <1>1, <2>1, <2>3 DEF HoldLeft, Tries, Holding
  <2>4. CASE tries = 2
    BY <1>1, <2>1, <2>4 DEF HoldLeft, Tries, Holding
  <2>5. QED  BY <1>1, <2>2, <2>3, <2>4
<1>4. CASE Confirmed(h)
  BY <1>2, <1>4 DEF Confirmed, Step
<1>5. CASE Pausing(h)
  <2>1. caller[h] = "pause" /\ pause = 0 /\ pause' = pause
    BY <1>5 DEF Pausing, Step
  <2>2. CASE tries = 2
    BY <1>2, <1>5, <2>2 DEF Pausing, Step, Tries
  <2>3. CASE tries = 0
    <3>1. tries' = 1 /\ caller'[h] = "ask"
      BY <1>2, <1>5, <2>3 DEF Pausing, Step, Tries
    <3>2. QED  BY <1>1, <2>1, <2>3, <3>1 DEF HoldLeft, Tries, Holding
  <2>4. CASE tries = 1
    <3>1. tries' = 2 /\ caller'[h] = "ask"
      BY <1>2, <1>5, <2>4 DEF Pausing, Step, Tries
    <3>2. QED  BY <1>1, <2>1, <2>4, <3>1 DEF HoldLeft, Tries, Holding
  <2>5. QED  BY <1>1, <2>2, <2>3, <2>4
<1>6. CASE Enter(h) \/ LockVerify(h) \/ Depart(h)
  BY <1>1, <1>6 DEF Enter, LockVerify, Depart, Step
<1>7. QED  BY <1>3, <1>4, <1>5, <1>6 DEF VerifyStep

LEMMA TickNears ==
  ASSUME VerifyInv, NEW h \in Handlers, caller[h] \in Holding, VerifyTick
  PROVE  \/ caller'[h] \in Holding /\ HoldLeft(h)' \in 0..(HoldLeft(h) - 1)
         \/ /\ UNCHANGED <<caller[h], tries>>
            /\ caller[h] = "pause" => pause' = pause
<1>1. /\ Pause \in Nat \ {0} /\ tries \in {0, 1, 2} /\ pause \in 0..Pause
      /\ caller[h] \in {"ask", "pause"}
  BY HolderIs
<1>2. UNCHANGED <<caller, tries>>
  BY DEF VerifyTick
<1>3. CASE caller[h] = "ask" \/ pause = 0
  BY <1>2, <1>3 DEF VerifyTick
<1>4. CASE caller[h] = "pause" /\ pause > 0
  <2>1. pause' = pause - 1
    BY <1>4 DEF VerifyTick
  <2>2. CASE tries = 0
    BY <1>1, <1>2, <1>4, <2>1, <2>2 DEF HoldLeft, Tries
  <2>3. CASE tries = 1
    BY <1>1, <1>2, <1>4, <2>1, <2>3 DEF HoldLeft, Tries
  <2>4. CASE tries = 2
    BY <1>1, <1>2, <1>4, <2>1, <2>4 DEF HoldLeft, Tries
  <2>5. QED  BY <1>1, <1>2, <2>2, <2>3, <2>4
<1>5. QED  BY <1>1, <1>3, <1>4

\* A step of another handler's leaves the holder alone.
LEMMA OthersWait ==
  ASSUME VerifyInv, NEW h \in Handlers, caller[h] \in Holding,
         NEW g \in Handlers, g # h, VerifyStep(g)
  PROVE  UNCHANGED <<caller[h], tries, pause>>
<1>1. caller[g] \notin Holding /\ ~Unlocked
  BY DEF VerifyInv, VerifyTypeOK, Unlocked
<1>2. Enter(g) \/ Depart(g)
  BY <1>1 DEF VerifyStep, LockVerify, Confirmed, NotConfirmed, Pausing, Step,
              Holding
<1>3. QED  BY <1>2 DEF Enter, Depart, Step, VerifyInv, VerifyTypeOK

\* verifiedLock is held for three requests and three pauses at most.
THEOREM LockIsPassedOn == Spec => HolderProceeds
<1> DEFINE Nears(h) ==
             \/ caller'[h] \in {"in", "refused"}
             \/ caller'[h] \in Holding /\ HoldLeft(h)' \in 0..(HoldLeft(h) - 1)
             \/ /\ UNCHANGED <<caller[h], tries>>
                /\ caller[h] = "pause" => pause' = pause
           Proceeds == \A h \in Handlers : caller[h] \in Holding => Nears(h)
<1>1. ASSUME IInv, Next PROVE Proceeds
  <2>1. SUFFICES ASSUME NEW h \in Handlers, caller[h] \in Holding PROVE Nears(h)
    OBVIOUS
  <2>2. VerifyInv
    BY <1>1 DEF IInv
  <2>3. CASE Tick
    BY <2>1, <2>2, <2>3, TickNears DEF Tick
  <2>4. CASE Refresh \/ OtherPrograms
    BY <2>4 DEF Refresh, OtherPrograms, verifyVars
  <2>5. ASSUME NEW g \in Handlers, Stream(g) PROVE Nears(h)
    <3>1. VerifyStep(g)
      BY <2>5 DEF Stream
    <3>2. CASE g = h
      BY <2>1, <2>2, <3>1, <3>2, HolderNears
    <3>3. CASE g # h
      BY <2>1, <2>2, <3>1, <3>3, OthersWait
    <3>4. QED  BY <3>2, <3>3
  <2>6. QED  BY <1>1, <2>3, <2>4, <2>5 DEF Next
<1>2. IInv /\ [Next]_vars => [Proceeds]_vars
  BY <1>1
<1>3. QED  BY <1>2, Invariance, PTL DEF Spec, HolderProceeds
=============================================================================
