----------------------------- MODULE RefreshWait -----------------------------
(***************************************************************************)
(* How long a refresh thread waits between its requests: the rate limit in *)
(* the headers of an answer, and what Twitter makes of it.                 *)
(*                                                                         *)
(* Twitter grants Limit requests in each window of time, to all who use    *)
(* the account's session: the thread, earlier threads and the user's other *)
(* programs.  Time passes in ticks, Second ticks being a second: the reset *)
(* and time.Now().Unix() are whole seconds, a wait is not.  The local      *)
(* clock is Skew ticks ahead of Twitter's.                                 *)
(***************************************************************************)
EXTENDS Integers

CONSTANTS
  Second,      \* ticks in a second
  Window,      \* ticks in a window of the rate limit, whole seconds
  Limit,       \* requests granted in a window
  TLWaitMin,   \* TLWaitMin, in ticks
  TLWaitError, \* TLWaitError, in ticks
  Skew,        \* the local clock less Twitter's, in ticks
  MaxLatency   \* bound: ticks between an answer and its use

ASSUME WaitAssumption ==
  /\ {Second, Limit, TLWaitMin, TLWaitError} \subseteq Nat \ {0}
  /\ Window \in Nat /\ Window % Second = 0 /\ Window > 0
  /\ TLWaitMin <= TLWaitError
  /\ Skew \in Int /\ MaxLatency \in Nat

VARIABLES
  toReset,    \* ticks until Twitter's window ends
  left,       \* requests that Twitter still grants in it
  thread,     \* off, at its request, using the answer, or asleep
  remaining,  \* x-rate-limit-remaining of the answer; NoHeader without one
  since,      \* ticks since the answer was given
  sleep,      \* ticks of time.After
  reduce,     \* Config.ReduceApiCall
  refused,    \* requests of this thread refused in this window
  alone       \* no other has used the window, and no answer was lost

waitVars == <<toReset, left, thread, remaining, since, sleep, reduce, refused, alone>>

NoHeader == -1

\* The longest wait: twice a window and what the clock is behind.
MaxWait == 2 * (Window + (IF Skew < 0 THEN Second - Skew ELSE 0)) + TLWaitError

\* Every variable has its type.
WaitTypeOK ==
  /\ toReset \in 1..Window /\ left \in 0..Limit
  /\ thread \in {"off", "ask", "use", "sleep"}
  /\ remaining \in {NoHeader} \cup 0..Limit
  /\ since \in 0..MaxLatency /\ sleep \in 0..MaxWait
  /\ reduce \in BOOLEAN /\ alone \in BOOLEAN
  /\ refused \in Nat

WaitInit ==
  /\ toReset = Window /\ left = Limit
  /\ thread = "off" /\ remaining = NoHeader /\ since = 0 /\ sleep = 0
  /\ reduce \in BOOLEAN
  /\ refused = 0 /\ alone = TRUE

-----------------------------------------------------------------------------
(* TimeLine.update.                                                        *)

AtLeast(m, n) == IF m < n THEN n ELSE m

\* Wait, if an exhausted quota were not waited out.
WaitExhausted(ticks, rem) ==
  IF rem < 0 THEN TLWaitError
  ELSE AtLeast(TLWaitMin, IF rem = 0 THEN 0 ELSE ticks \div rem)

\* The wait, if the clock is ticks before the reset, that the answer names in
\* whole seconds, and nowUnix is rounded down to a second.
Wait(ticks, rem) ==
  LET seconds == (ticks + Second - 1) \div Second  \* reset - nowUnix
      spread  == (seconds * Second) \div rem
  IN AtLeast(TLWaitMin,
       CASE rem = NoHeader               -> TLWaitError
         [] rem # NoHeader /\ seconds < 0 -> TLWaitMin
         [] rem = 0 /\ seconds >= 0       -> ticks
         [] rem > 0 /\ seconds >= 0       -> IF reduce THEN 2 * spread ELSE spread)

\* Ticks until the reset that the answer names; the window may be over.
Until == IF Window - toReset < since THEN toReset - Window ELSE toReset

-----------------------------------------------------------------------------
\* Start and Stop; a thread remembers nothing of an earlier one.
StartThread ==
  /\ thread = "off"
  /\ thread' = "ask" /\ refused' = 0 /\ alone' = (left = Limit)
  /\ UNCHANGED <<toReset, left, remaining, since, sleep, reduce>>

StopThread ==
  /\ thread' = "off" /\ remaining' = NoHeader /\ since' = 0 /\ sleep' = 0
  /\ refused' = 0 /\ alone' = TRUE
  /\ UNCHANGED <<toReset, left, reduce>>

\* Twitter answers, and counts the request if it grants it.
Granted ==
  /\ thread = "ask" /\ left > 0
  /\ thread' = "use" /\ left' = left - 1 /\ remaining' = left - 1
  /\ UNCHANGED <<toReset, since, sleep, reduce, refused, alone>>

Refusal ==
  /\ thread = "ask" /\ left = 0
  /\ thread' = "use" /\ remaining' = 0 /\ refused' = refused + 1
  /\ UNCHANGED <<toReset, left, since, sleep, reduce, alone>>

\* There is no answer, or none with these headers; it may have been counted.
Lost ==
  /\ thread = "ask"
  /\ thread' = "use" /\ remaining' = NoHeader /\ alone' = FALSE
  /\ left' \in {left, left - 1} /\ left' >= 0
  /\ UNCHANGED <<toReset, since, sleep, reduce, refused>>

Use ==
  /\ thread = "use"
  /\ thread' = "sleep"
  /\ sleep' = Wait(Until - Skew, remaining)
  /\ remaining' = NoHeader /\ since' = 0
  /\ UNCHANGED <<toReset, left, reduce, refused, alone>>

Wake ==
  /\ thread = "sleep" /\ sleep = 0
  /\ thread' = "ask"
  /\ UNCHANGED <<toReset, left, remaining, since, sleep, reduce, refused, alone>>

\* The user's other programs make a request with the same session.
OtherUse ==
  /\ left > 0
  /\ left' = left - 1 /\ alone' = FALSE
  /\ UNCHANGED <<toReset, thread, remaining, since, sleep, reduce, refused>>

\* A tick, at the end of a window with the reset.
WaitTick ==
  /\ thread = "use" => since < MaxLatency
  /\ IF toReset > 1
       THEN toReset' = toReset - 1 /\ UNCHANGED <<left, refused, alone>>
       ELSE toReset' = Window /\ left' = Limit /\ refused' = 0 /\ alone' = TRUE
  /\ since' = IF thread = "use" THEN since + 1 ELSE 0
  /\ sleep' = IF sleep > 0 THEN sleep - 1 ELSE 0
  /\ UNCHANGED <<thread, remaining, reduce>>

RefreshStep == Granted \/ Refusal \/ Lost \/ Use \/ Wake

WaitNext == RefreshStep \/ OtherUse \/ WaitTick \/ StartThread \/ StopThread

WaitSpec == WaitInit /\ [][WaitNext]_waitVars

-----------------------------------------------------------------------------
\* Polls that a clock which is ahead makes between its reset and Twitter's.
Early == IF Skew > 0 THEN (Skew + TLWaitMin - 1) \div TLWaitMin ELSE 0

\* A thread that has the quota for itself is never refused: what it spends is
\* spread over the window.  If others spend it too, it is refused once in a
\* window, and then waits for the next; a clock that is ahead of Twitter's
\* costs one refusal more for each of the shortest waits that it is ahead.
RefusedSeldom == refused <= (IF alone THEN 0 ELSE 1) + Early
=============================================================================
