--------------------------- MODULE MitmProxyProofs ---------------------------
(* Safety of the intercepting proxy's loop, for any kinds of requests and  *)
(* any length of their answers.                                            *)
EXTENDS MitmProxy, TLAPS

\* The loop and the handlers meet at two places with no buffer and no timeout,
\* the channel of the status and the pipe.  Who is at one of them has the
\* other side there, or that side has closed it; only a removal that failed
\* calls WriteHeader when the loop receives no more, and only a user stream
\* keeps the pipe open for ever.
EveryWaitHasItsPartner ==
  /\ \A s \in Slots :
       /\ handler[s] \in {"call", "ask", "ok", "fail", "open"} =>
            loop = "await" /\ s = current
       /\ handler[s] = "body" =>
            rClosed[s] \/ (s = current /\ loop \in {"copy", "close", "failed"})
       /\ handler[s] = "again" =>
            s = current /\ loop \in {"copy", "failed", "done"} /\ kind[s] = "destroy"
       /\ handler[s] \in {"open", "stream"} => kind[s] = "stream"
  /\ loop = "copy" =>
       handler[current] \in {"body", "again", "stream", "return", "done"}
  /\ loop \in {"await", "copy"} =>
       ~rClosed[current] /\ (wClosed[current] <=> handler[current] = "done")

\* What a handler has given when it returns: all, while its pipe is open.  Only
\* of a HEAD request does the loop go on before that.
Settled ==
  /\ \A s \in Slots :
       handler[s] \in {"call", "ask", "fail", "open", "again", "stream"} =>
         left[s] = 0 /\ ~short[s]
  /\ loop = "copy" /\ handler[current] \in {"return", "done"} => left[current] = 0
  /\ loop = "close" /\ handler[current] # "done" =>
       handler[current] \in {"body", "stream", "return"}

IInv ==
  /\ TypeOK
  /\ EveryWaitHasItsPartner
  /\ OvertakenIsHarmless
  /\ Settled
  /\ WholeAnswers

-----------------------------------------------------------------------------
LEMMA LoopKeeps ==
  ASSUME IInv, LoopStep
  PROVE  IInv'
<1> USE DEF IInv, TypeOK, EveryWaitHasItsPartner, OvertakenIsHarmless, Settled,
        WholeAnswers, HandlerState, slotVars, pipeVars, answerVars
<1>1. CASE ReadRequest
  <2>1. PICK s \in Slots, k \in Kinds, h \in BOOLEAN :
          /\ handler[s] = "done" /\ errand[s] = "none"
          /\ current' = s
          /\ handler' = [handler EXCEPT ![s] = "call"]
          /\ kind' = [kind EXCEPT ![s] = k]
          /\ head' = [head EXCEPT ![s] = h]
          /\ left' = [left EXCEPT ![s] = 0]
          /\ short' = [short EXCEPT ![s] = FALSE]
          /\ unread' \in IF h THEN Body \ {"form"} ELSE Body
          /\ rClosed' = [rClosed EXCEPT ![s] = FALSE]
          /\ wClosed' = [wClosed EXCEPT ![s] = FALSE]
    BY <1>1, Zenon DEF ReadRequest
  <2>2. loop = "read" /\ loop' = "await" /\ up' = up /\ errand' = errand
    BY <1>1 DEF ReadRequest
  <2>3. unread' \in Body
    BY <2>1
  <2>4. TypeOK'
    BY <2>1, <2>2, <2>3, MitmAssumption
  <2>5. handler'[s] = "call" /\ ~wClosed'[s] /\ ~rClosed'[s]
        /\ left'[s] = 0 /\ ~short'[s]
    BY <2>1
  <2>6. \A t \in Slots \ {s} :
          /\ handler'[t] = handler[t] /\ kind'[t] = kind[t]
          /\ left'[t] = left[t] /\ short'[t] = short[t]
          /\ rClosed'[t] = rClosed[t]
          /\ handler[t] # "done" =>
               rClosed[t] /\ handler[t] \in {"body", "stream", "return"}
    BY <2>1, <2>2
  <2>7. EveryWaitHasItsPartner'
    BY <2>1, <2>2, <2>5, <2>6
  <2>8. OvertakenIsHarmless' /\ Settled' /\ WholeAnswers'
    BY <2>1, <2>2, <2>5, <2>6
  <2>9. QED  BY <2>4, <2>7, <2>8
<1>2. CASE ReadEnds
  BY <1>2 DEF ReadEnds
<1>3. CASE CopyFails
  BY <1>3 DEF CopyFails
<1>4. CASE CopyEnds
  <2>1. /\ loop = "copy" /\ loop' = "close"
        /\ UNCHANGED <<up, unread, current, handler, kind, head, left, short,
                       rClosed, wClosed, errand>>
    BY <1>4 DEF CopyEnds
  <2>2. CASE Brief(current)
    BY <2>1, <2>2 DEF Brief
  <2>3. CASE wClosed[current] /\ (short[current] => head[current])
    BY <2>1, <2>3
  <2>4. QED  BY <1>4, <2>2, <2>3 DEF CopyEnds
<1>5. CASE Close
  BY <1>5 DEF Close
<1>6. QED  BY <1>1, <1>2, <1>3, <1>4, <1>5 DEF LoopStep

\* Of the handlers that are not the current request's only the ends are left.
LEMMA HandlerKeeps ==
  ASSUME IInv, NEW s \in Slots, HandlerStep(s)
  PROVE  IInv'
<1> USE DEF IInv, TypeOK, EveryWaitHasItsPartner, OvertakenIsHarmless, Settled,
        WholeAnswers, HandlerState, slotVars, pipeVars, answerVars, Goto
<1>1. CASE Upstream(s) \/ SendDm(s)
  <2>1. /\ handler[s] = "ask" /\ s = current /\ loop = "await"
        /\ UNCHANGED <<up, unread, loop, current, kind, head, rClosed, wClosed,
                       errand>>
    BY <1>1 DEF Upstream, SendDm, Answer
  <2>2. PICK to \in {"ok", "fail", "open"}, n \in 0..MaxChunks, b \in BOOLEAN :
          /\ handler' = [handler EXCEPT ![s] = to]
          /\ left' = [left EXCEPT ![s] = n]
          /\ short' = [short EXCEPT ![s] = b]
          /\ to = "open" => kind[s] = "stream"
          /\ to \in {"open", "fail"} => n = 0 /\ ~b
    <3>1. CASE \E n \in 0..MaxChunks, b \in BOOLEAN : Answer(s, n, b)
      BY <3>1 DEF Answer
    <3>2. CASE \/ Goto(s, "ask", "fail") /\ UNCHANGED answerVars
               \/ /\ kind[s] = "stream"
                  /\ Goto(s, "ask", "open") /\ UNCHANGED answerVars
      <4>1. /\ left' = [left EXCEPT ![s] = left[s]] /\ left[s] = 0
            /\ short' = [short EXCEPT ![s] = short[s]] /\ short[s] = FALSE
        BY <2>1, <3>2
      <4>2. 0 \in 0..MaxChunks
        BY MitmAssumption
      <4>3. QED  BY <3>2, <4>1, <4>2
    <3>3. 0 \in 0..MaxChunks
      BY MitmAssumption
    <3>4. QED  BY <1>1, <3>1, <3>2, <3>3 DEF Upstream, SendDm
  <2>3. TypeOK'
    BY <2>1, <2>2
  <2>4. handler'[s] = to /\ left'[s] = n /\ short'[s] = b
        /\ \A t \in Slots \ {s} :
             handler'[t] = handler[t] /\ left'[t] = left[t] /\ short'[t] = short[t]
    BY <2>2
  <2>5. QED  BY <2>1, <2>2, <2>3, <2>4
<1>2. CASE WriteHeader(s)
  <2>1. /\ loop = "await" /\ loop' \in {"copy", "failed"}
        /\ s = current /\ current' = current
        /\ handler[s] \in {"ok", "open", "fail"}
        /\ handler' = [handler EXCEPT ![s] = AfterHeader(s)]
        /\ UNCHANGED <<up, unread, kind, head, left, short, rClosed, wClosed,
                       errand>>
    BY <1>2 DEF WriteHeader
  <2>2. PICK to \in {"body", "stream", "again", "return"} :
          /\ handler' = [handler EXCEPT ![s] = to]
          /\ to = "again" => kind[s] = "destroy" /\ handler[s] = "fail"
          /\ to = "stream" => kind[s] = "stream" /\ handler[s] = "open"
          /\ to = "return" => handler[s] = "fail"
    BY <2>1 DEF AfterHeader
  <2>3. TypeOK'
    BY <2>1, <2>2
  <2>4. handler'[s] = to /\ \A t \in Slots \ {s} : handler'[t] = handler[t]
    BY <2>2
  <2>5. EveryWaitHasItsPartner'
    BY <2>1, <2>2, <2>4
  <2>6. QED  BY <2>1, <2>2, <2>3, <2>4, <2>5
<1>3. CASE WriteBody(s)
  <2>1. left[s] - 1 \in 0..MaxChunks
    BY <1>3, MitmAssumption DEF WriteBody
  <2>2. left' \in [Slots -> 0..MaxChunks]
    BY <1>3, <2>1 DEF WriteBody
  <2>3. QED  BY <1>3, <2>2 DEF WriteBody
<1>4. CASE BodyEnds(s)
  <2>1. Errands(kind[s]) \subseteq Errand
    BY DEF Errands, Errand
  <2>2. errand' \in [Slots -> Errand]
    BY <1>4, <2>1 DEF BodyEnds
  <2>3. /\ handler[s] = "body" /\ handler' = [handler EXCEPT ![s] = "return"]
        /\ left[s] = 0 \/ rClosed[s]
        /\ UNCHANGED <<up, unread, loop, current, kind, head, left, short,
                       rClosed, wClosed>>
    BY <1>4 DEF BodyEnds
  <2>4. TypeOK'
    BY <2>2, <2>3
  <2>5. handler'[s] = "return" /\ \A t \in Slots \ {s} : handler'[t] = handler[t]
    BY <2>3
  <2>6. QED  BY <2>3, <2>4, <2>5
<1>5. CASE Return(s)
  <2>1. /\ handler[s] = "return" /\ handler' = [handler EXCEPT ![s] = "done"]
        /\ wClosed' = [wClosed EXCEPT ![s] = TRUE]
        /\ UNCHANGED <<up, unread, loop, current, kind, head, left, short,
                       rClosed, errand>>
    BY <1>5 DEF Return
  <2>2. TypeOK'
    BY <2>1
  <2>3. handler'[s] = "done" /\ wClosed'[s]
        /\ \A t \in Slots \ {s} :
             handler'[t] = handler[t] /\ wClosed'[t] = wClosed[t]
    BY <2>1
  <2>4. QED  BY <2>1, <2>2, <2>3
<1>6. CASE Identify(s)
  <2>1. /\ handler[s] = "call" /\ s = current /\ loop = "await"
        /\ handler' = [handler EXCEPT ![s] = "ask"]
        /\ UNCHANGED <<up, loop, current, kind, head, left, short, rClosed,
                       wClosed, errand>>
    BY <1>6 DEF Identify
  <2>2. unread' \in Body
    BY <1>6 DEF Identify, Body
  <2>3. TypeOK'
    BY <2>1, <2>2
  <2>4. handler'[s] = "ask" /\ \A t \in Slots \ {s} : handler'[t] = handler[t]
    BY <2>1
  <2>5. QED  BY <2>1, <2>3, <2>4
<1>7. QED  BY <1>1, <1>2, <1>3, <1>4, <1>5, <1>6 DEF HandlerStep

\* What the invariant but for the types speaks of.
watched == <<loop, current, handler, kind, head, left, short, rClosed, wClosed>>

\* The client and the goroutine of an errand touch nothing the loop looks at.
LEMMA StepKeeps == IInv /\ [Next]_vars => IInv'
<1>1. SUFFICES ASSUME IInv, [Next]_vars PROVE IInv'
  OBVIOUS
<1>2. CASE ClientLeaves \/ UNCHANGED vars \/ \E s \in Slots : ErrandStep(s)
  <2>1. UNCHANGED watched
    BY <1>2 DEF watched, ClientLeaves, vars, ErrandStep, Inquire, Tell,
                slotVars, pipeVars, answerVars
  <2>2. up' \in BOOLEAN /\ unread' = unread /\ errand' \in [Slots -> Errand]
    BY <1>1, <1>2 DEF IInv, TypeOK, ClientLeaves, vars, ErrandStep, Inquire,
                      Tell, Errand
  <2>3. QED
    BY <1>1, <2>1, <2>2 DEF watched, IInv, TypeOK, EveryWaitHasItsPartner,
       OvertakenIsHarmless, Settled, WholeAnswers
<1>3. QED  BY <1>1, <1>2, LoopKeeps, HandlerKeeps DEF Next

LEMMA InitHolds == Init => IInv
  BY MitmAssumption DEF Init, IInv, TypeOK, EveryWaitHasItsPartner, Settled,
     OvertakenIsHarmless, WholeAnswers, HandlerState, Body, Errand

\* Every reachable state satisfies the inductive invariant.
THEOREM Invariance == Spec => []IInv
  BY InitHolds, StepKeeps, PTL DEF Spec

\* The types hold, and the loop waits for a status only of a live handler.
THEOREM TypeCorrect == Spec => []TypeOK
<1>1. IInv => TypeOK
  BY DEF IInv
<1>2. QED  BY <1>1, Invariance, PTL

\* A handler that the loop has left behind has no hold on it, nor on the
\* client's reader.
THEOREM OvertakingIsHarmless == Spec => []OvertakenIsHarmless
<1>1. IInv => OvertakenIsHarmless
  BY DEF IInv
<1>2. QED  BY <1>1, Invariance, PTL

\* The loop goes on to the next request only after a whole answer.
THEOREM WholeOrNoMore == Spec => []WholeAnswers
<1>1. IInv => WholeAnswers
  BY DEF IInv
<1>2. QED  BY <1>1, Invariance, PTL

-----------------------------------------------------------------------------
(* Who waits for whom.  That answers arrive is checked with fairness; here *)
(* is why: whoever waits has a partner that will come, and a request is    *)
(* over after a bounded number of steps, but for what is named.            *)

\* Whoever waits at the status or at the pipe has a partner, but for a failed
\* removal and the user stream.
THEOREM PartnersMeet == Spec => []EveryWaitHasItsPartner
<1>1. IInv => EveryWaitHasItsPartner
  BY DEF IInv
<1>2. QED  BY <1>1, Invariance, PTL

-----------------------------------------------------------------------------
\* The steps of the handler and of the loop that a request has before it until
\* the loop has read the pipe to its end, or has failed.
StepsLeft ==
  IF loop \notin {"await", "copy"} THEN 0
  ELSE CASE handler[current] = "call"              -> MaxChunks + 6
         [] handler[current] = "ask"               -> MaxChunks + 5
         [] handler[current] = "ok"                -> left[current] + 4
         [] handler[current] \in {"fail", "open"}  -> 4
         [] handler[current] = "body"              -> left[current] + 3
         [] handler[current] = "return"            -> 2
         [] OTHER                                  -> 1

\* While the loop serves a request, nothing is done twice: each step of the
\* handler or of the loop leaves fewer before them.  (Those of the handlers and
\* errands of earlier requests and the client's departure leave as many.)
RequestProceeds ==
  [][loop = "await" \/ loop = "copy" =>
       \/ UNCHANGED <<loop, current, handler[current], left[current]>>
       \/ StepsLeft' \in 0..(StepsLeft - 1)]_vars

\* A request is over for the loop after at most MaxChunks + 6 steps.
THEOREM RequestsEnd == Spec => RequestProceeds
<1> DEFINE Proceeds == loop = "await" \/ loop = "copy" =>
             \/ UNCHANGED <<loop, current, handler[current], left[current]>>
             \/ StepsLeft' \in 0..(StepsLeft - 1)
<1>1. ASSUME IInv, Next PROVE Proceeds
  <2>1. SUFFICES ASSUME loop \in {"await", "copy"} PROVE Proceeds
    OBVIOUS
  <2> USE <1>1, <2>1, MitmAssumption
      DEF IInv, TypeOK, OvertakenIsHarmless, EveryWaitHasItsPartner,
          HandlerState, slotVars, pipeVars, answerVars, Goto
  <2>2. /\ left[current] \in 0..MaxChunks
        /\ StepsLeft \in Nat \ {0}
    BY DEF StepsLeft
  <2>3. CASE ClientLeaves \/ \E s \in Slots : ErrandStep(s)
    BY <2>3 DEF ClientLeaves, ErrandStep, Inquire, Tell
  <2>4. ASSUME loop' \notin {"await", "copy"} PROVE Proceeds
    <3>1. StepsLeft' = 0
      BY <2>4 DEF StepsLeft
    <3>2. QED  BY <2>2, <3>1
  <2>5. CASE LoopStep
    <3>1. loop' \notin {"await", "copy"}
      BY <2>5 DEF LoopStep, ReadRequest, ReadEnds, CopyFails, CopyEnds, Close
    <3>2. QED  BY <3>1, <2>4
  <2>6. ASSUME NEW s \in Slots, s # current, HandlerStep(s) PROVE Proceeds
    <3>1. BodyEnds(s) \/ Return(s)
      BY <2>6 DEF HandlerStep, Identify, Upstream, SendDm, Answer, WriteHeader,
                  WriteBody
    <3>2. QED  BY <2>6, <3>1 DEF BodyEnds, Return
  <2>7. ASSUME NEW s \in Slots, s = current, HandlerStep(s),
               loop' \in {"await", "copy"}
        PROVE  Proceeds
    <3>1. s = current /\ current' = current
      BY <2>7 DEF HandlerStep, Identify, Upstream, SendDm, WriteHeader,
                  WriteBody, BodyEnds, Return
    <3>2. loop' \in {"await", "copy"}
      BY <2>7
    <3>3. CASE Identify(s)
      <4>1. handler[s] = "call" /\ handler'[s] = "ask"
        BY <3>3 DEF Identify
      <4>2. QED  BY <3>1, <3>2, <4>1 DEF StepsLeft
    <3>4. CASE Upstream(s) \/ SendDm(s)
      <4>1. /\ handler[s] = "ask" /\ handler'[s] \in {"ok", "fail", "open"}
            /\ left'[s] \in 0..MaxChunks
        BY <3>4 DEF Upstream, SendDm, Answer
      <4>2. QED  BY <3>1, <3>2, <4>1 DEF StepsLeft
    <3>5. CASE WriteHeader(s)
      <4>1. /\ handler[s] \in {"ok", "fail", "open"} /\ left' = left
            /\ handler'[s] = AfterHeader(s)
        BY <3>5 DEF WriteHeader
      <4>2. /\ AfterHeader(s) \in {"body", "stream", "again", "return"}
            /\ AfterHeader(s) = "body" => handler[s] = "ok"
        BY <4>1 DEF AfterHeader
      <4>3. QED  BY <3>1, <3>2, <4>1, <4>2, <2>2 DEF StepsLeft
    <3>6. CASE WriteBody(s)
      <4>1. /\ handler[s] = "body" /\ handler' = handler
            /\ left[s] > 0 /\ left'[s] = left[s] - 1
        BY <3>6 DEF WriteBody
      <4>2. QED  BY <3>1, <3>2, <4>1, <2>2 DEF StepsLeft
    <3>7. CASE BodyEnds(s)
      <4>1. /\ handler[s] = "body" /\ handler'[s] = "return"
        BY <3>7 DEF BodyEnds
      <4>2. QED  BY <3>1, <3>2, <4>1, <2>2 DEF StepsLeft
    <3>8. CASE Return(s)
      <4>1. /\ handler[s] = "return" /\ handler'[s] = "done"
        BY <3>8 DEF Return
      <4>2. QED  BY <3>1, <3>2, <4>1, <2>2 DEF StepsLeft
    <3>9. QED  BY <2>7, <3>3, <3>4, <3>5, <3>6, <3>7, <3>8 DEF HandlerStep
  <2>8. QED  BY <2>3, <2>4, <2>5, <2>6, <2>7 DEF Next
<1>2. IInv /\ [Next]_vars => [Proceeds]_vars
  BY <1>1
<1>3. QED  BY <1>2, Invariance, PTL DEF Spec, RequestProceeds

-----------------------------------------------------------------------------
\* A removal that failed is never done: the handler stays at its second
\* WriteHeader, and once the loop has begun to write the answer it stays at the
\* pipe, whether the client is there or not.
RemovalHangs ==
  [][\A s \in Slots : handler[s] = "again" =>
       /\ handler'[s] = "again" /\ current' = s
       /\ loop = "copy" => loop' = "copy"]_vars

\* No step, not even the client's departure, frees a removal that failed.
THEOREM RemovalsHang == Spec => RemovalHangs
<1> DEFINE Hangs == \A s \in Slots : handler[s] = "again" =>
             /\ handler'[s] = "again" /\ current' = s
             /\ loop = "copy" => loop' = "copy"
<1>1. ASSUME IInv, Next PROVE Hangs
  <2>1. SUFFICES ASSUME NEW s \in Slots, handler[s] = "again"
                 PROVE  /\ handler'[s] = "again" /\ current' = s
                        /\ loop = "copy" => loop' = "copy"
    OBVIOUS
  <2> USE <1>1, <2>1
      DEF IInv, TypeOK, EveryWaitHasItsPartner, Settled, slotVars, pipeVars,
          answerVars, Goto
  <2>2. /\ current = s /\ loop \in {"copy", "failed", "done"}
        /\ loop = "copy" => ~wClosed[s] /\ ~Brief(s)
    BY DEF Brief
  <2>3. CASE ClientLeaves \/ \E t \in Slots : ErrandStep(t)
    BY <2>2, <2>3 DEF ClientLeaves, ErrandStep, Inquire, Tell
  <2>4. CASE LoopStep
    <3>1. CASE loop = "copy"
      BY <2>2, <2>4, <3>1 DEF LoopStep, ReadRequest, ReadEnds, CopyFails,
                              CopyEnds, Close
    <3>2. CASE loop # "copy"
      BY <2>2, <2>4, <3>2 DEF LoopStep, ReadRequest, ReadEnds, CopyFails,
                              CopyEnds, Close
    <3>3. QED  BY <3>1, <3>2
  <2>5. ASSUME NEW t \in Slots, HandlerStep(t)
        PROVE  t # s /\ handler'[s] = "again" /\ current' = s /\ loop' = loop
    BY <2>2, <2>5 DEF HandlerStep, Identify, Upstream, SendDm, Answer,
                      WriteHeader, WriteBody, BodyEnds, Return
  <2>6. QED  BY <2>3, <2>4, <2>5 DEF Next
<1>2. IInv /\ [Next]_vars => [Hangs]_vars
  BY <1>1
<1>3. QED  BY <1>2, Invariance, PTL DEF Spec, RemovalHangs
=============================================================================
