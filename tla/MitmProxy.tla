------------------------------ MODULE MitmProxy ------------------------------
(***************************************************************************)
(* handleProxyHttpsMitm: the loop that serves the requests of one client   *)
(* of the intercepting proxy, and the handlers it starts.                  *)
(*                                                                         *)
(* For each request the loop makes a pipe and a ProxyResponseWriter, starts*)
(* handleApi or handleStreaming in a goroutine, receives the status from   *)
(* the unbuffered channel of the writer, and lets Response.Write copy the  *)
(* pipe to the client until the handler's goroutine closes it.  To a HEAD  *)
(* request, Response.Write sends no body: it does not wait for the handler.*)
(*                                                                         *)
(* Abstracted: the requests, but for what is done with them (Kinds); what  *)
(* is written, but for its length in chunks; the handlers' other effects.  *)
(* A slot stands for the pipe, the writer and the goroutines of a request  *)
(* and is reused, so that the number of requests is not bounded.           *)
(***************************************************************************)
EXTENDS Naturals

CONSTANTS
  Slots,     \* identities of handler goroutines
  Kinds,     \* which requests the client makes, a subset of Kind
  MaxChunks  \* bound: chunks in the body of an answer

\* statuses/destroy or statuses/unretweet; statuses/retweet; statuses/update
\* of a text that is a direct message, or of another; any other call, or one
\* of no account; the user stream.
Kind == {"destroy", "retweet", "message", "update", "api", "stream"}

ASSUME MitmAssumption ==
  /\ Kinds \subseteq Kind
  /\ MaxChunks \in Nat

VARIABLES
  up,       \* the client is there
  unread,   \* the request's body, while it is in the client's reader
  loop,     \* where the loop is
  current,  \* the slot of the request it serves
  handler,  \* where each handler is
  kind,     \* what it was asked
  head,     \* it was asked with HEAD
  left,     \* chunks it has still to write
  short,    \* its answer has no body, but a Content-Length
  rClosed,  \* its pipe's read end is closed
  wClosed,  \* its pipe's write end is closed
  errand    \* what it left a goroutine of its own to do

pipeVars == <<kind, head, rClosed, wClosed>>
answerVars == <<left, short>>
slotVars == <<handler, answerVars, pipeVars>>
vars == <<up, unread, loop, current, slotVars, errand>>

\* A form that ParseForm reads to its end, or anything else: a multipart form,
\* JSON, a form of more than 10 MB, one of a method whose forms are not read.
Body == {"none", "form", "other"}

\* "show" and "check" are requests for a status, "part" and "removal" packets.
Errand == {"none", "show", "check", "part", "removal"}

\* "ask": the account was looked up; "ok", "fail" and "open": about to call
\* WriteHeader for an answer, for an internal server error and for the stream;
\* "again": to call it once more.
HandlerState ==
  {"call", "ask", "ok", "fail", "open", "again", "body", "stream", "return",
   "done"}

\* Every variable has its type, and the loop waits for a status only of a
\* handler that has not ended.
TypeOK ==
  /\ up \in BOOLEAN /\ unread \in Body
  /\ loop \in {"read", "await", "copy", "close", "failed", "done"}
  /\ current \in Slots
  /\ handler \in [Slots -> HandlerState]
  /\ kind \in [Slots -> Kind] /\ head \in [Slots -> BOOLEAN]
  /\ left \in [Slots -> 0..MaxChunks] /\ short \in [Slots -> BOOLEAN]
  /\ rClosed \in [Slots -> BOOLEAN] /\ wClosed \in [Slots -> BOOLEAN]
  /\ errand \in [Slots -> Errand]
  /\ loop = "await" => handler[current] \in {"call", "ask", "ok", "fail", "open"}

\* The client's TLS handshake is done; no request was read yet.
Init ==
  /\ up = TRUE /\ unread = "none"
  /\ loop = "read"
  /\ current \in Slots
  /\ handler = [s \in Slots |-> "done"]
  /\ kind \in {[s \in Slots |-> k] : k \in Kinds}
  /\ head = [s \in Slots |-> FALSE]
  /\ left = [s \in Slots |-> 0] /\ short = [s \in Slots |-> FALSE]
  /\ rClosed = [s \in Slots |-> TRUE] /\ wClosed = [s \in Slots |-> TRUE]
  /\ errand = [s \in Slots |-> "none"]

Goto(s, from, to) == handler[s] = from /\ handler' = [handler EXCEPT ![s] = to]

-----------------------------------------------------------------------------
ClientLeaves ==
  /\ up
  /\ up' = FALSE
  /\ UNCHANGED <<unread, loop, current, slotVars, errand>>

-----------------------------------------------------------------------------
(* The loop.                                                               *)

\* A request is read, be it that the client has left since, and a handler
\* is started.  The test for a request too large reads Content-Type, which
\* is never a number, and has no effect.
ReadRequest ==
  /\ loop = "read" /\ unread = "none"
  /\ \E s \in Slots, k \in Kinds, h \in BOOLEAN :
       /\ handler[s] = "done" /\ errand[s] = "none"
       /\ current' = s
       /\ handler' = [handler EXCEPT ![s] = "call"]
       /\ kind' = [kind EXCEPT ![s] = k]
       /\ head' = [head EXCEPT ![s] = h]
       /\ left' = [left EXCEPT ![s] = 0]
       /\ short' = [short EXCEPT ![s] = FALSE]
       /\ unread' \in IF h THEN Body \ {"form"} ELSE Body
       /\ rClosed' = [rClosed EXCEPT ![s] = FALSE]
       /\ wClosed' = [wClosed EXCEPT ![s] = FALSE]
  /\ loop' = "await"
  /\ UNCHANGED <<up, errand>>

\* The client has left, or what follows is no request (as is the body of the
\* last one, if its handler did not read it), or is a websocket's.
ReadEnds ==
  /\ loop = "read"
  /\ loop' = "done"
  /\ UNCHANGED <<up, unread, current, slotVars, errand>>

\* Response.Write asks no more of the pipe: a HEAD request's answer has no body,
\* and its length is known or, of the stream's, that it is not 0.
Brief(s) ==
  head[s] /\ (left[s] > 0 \/ short[s] \/ handler[s] = "stream")

\* Response.Write fails to write to the client, or finds at the end of the pipe
\* that it was promised more.
CopyFails ==
  /\ loop = "copy"
  /\ \/ /\ ~up
        /\ \/ wClosed[current] \/ Brief(current)
           \/ handler[current] = "body" /\ left[current] > 0
           \/ handler[current] = "stream"
     \/ wClosed[current] /\ short[current] /\ ~head[current]
  /\ loop' = "failed"
  /\ UNCHANGED <<up, unread, current, slotVars, errand>>

\* CopyEnds, if the answer were over with the last byte of its body.
CopyEndsAtLength ==
  /\ loop = "copy" /\ handler[current] \in {"return", "again", "done"}
  /\ loop' = "close"
  /\ UNCHANGED <<up, unread, current, slotVars, errand>>

\* Response.Write has read the pipe to its end, or need not.
CopyEnds ==
  /\ loop = "copy"
  /\ \/ Brief(current)
     \/ /\ wClosed[current]
        /\ short[current] => head[current]
  /\ loop' = "close"
  /\ UNCHANGED <<up, unread, current, slotVars, errand>>

\* Close, if the pipe were closed after an error alone, as having been read.
CloseOnError ==
  /\ \/ loop = "close" /\ loop' = "read" /\ UNCHANGED <<rClosed, wClosed>>
     \/ /\ loop = "failed" /\ loop' = "done"
        /\ rClosed' = [rClosed EXCEPT ![current] = TRUE]
        /\ wClosed' = [wClosed EXCEPT ![current] = TRUE]
  /\ UNCHANGED <<up, unread, current, handler, kind, head, answerVars, errand>>

\* Close, if the read end of the pipe were left open after an error.
CloseOnSuccess ==
  /\ \/ /\ loop = "close" /\ loop' = "read"
        /\ rClosed' = [rClosed EXCEPT ![current] = TRUE]
        /\ wClosed' = [wClosed EXCEPT ![current] = TRUE]
     \/ loop = "failed" /\ loop' = "done" /\ UNCHANGED <<rClosed, wClosed>>
  /\ UNCHANGED <<up, unread, current, handler, kind, head, answerVars, errand>>

\* Both ends of the pipe are closed; after an error, so is the connection.
Close ==
  /\ \/ loop = "close" /\ loop' = "read"
     \/ loop = "failed" /\ loop' = "done"
  /\ rClosed' = [rClosed EXCEPT ![current] = TRUE]
  /\ wClosed' = [wClosed EXCEPT ![current] = TRUE]
  /\ UNCHANGED <<up, unread, current, handler, kind, head, answerVars, errand>>

-----------------------------------------------------------------------------
(* A handler.                                                              *)

\* getTwitterClient: the Authorization header names an account, or the form
\* is read to find its name there.  handleApiUpdate reads it in any case; a
\* body that is no form is read, if at all, along with a search for the name.
Identify(s) ==
  /\ Goto(s, "call", "ask")
  /\ \/ unread' = "none"
     \/ unread' = unread /\ ~(unread = "form" /\ kind[s] \in {"message", "update"})
  /\ UNCHANGED <<up, loop, current, answerVars, pipeVars, errand>>

\* The handler is about to answer with a body, of n chunks or of less than its
\* length says.
Answer(s, n, b) ==
  /\ Goto(s, "ask", "ok")
  /\ left' = [left EXCEPT ![s] = n]
  /\ short' = [short EXCEPT ![s] = b]

\* Upstream, if tunnelAndGetResponse returned on an error with no answer.
UpstreamSilent(s) ==
  /\ \/ \E n \in 0..MaxChunks : Answer(s, n, FALSE)
     \/ Goto(s, "ask", "return") /\ UNCHANGED answerVars
  /\ UNCHANGED <<up, unread, loop, current, pipeVars, errand>>

\* What was read of the form is sent on.  The upstream answered, and the
\* answer was read into a buffer; or it did not; or the stream may be opened
\* (or is refused, which is an answer).  Twitter's answer to HEAD has no body,
\* nor has its 304, but they may have a length, which is copied.
Upstream(s) ==
  /\ kind[s] # "message"
  /\ \/ \E n \in 0..MaxChunks :
          /\ head[s] => n = 0 \/ kind[s] = "stream"
          /\ Answer(s, n, FALSE)
     \/ kind[s] # "stream" /\ Answer(s, 0, TRUE)
     \/ kind[s] # "stream" /\ Goto(s, "ask", "fail") /\ UNCHANGED answerVars
     \/ kind[s] = "stream" /\ Goto(s, "ask", "open") /\ UNCHANGED answerVars
  /\ UNCHANGED <<up, unread, loop, current, pipeVars, errand>>

\* A message is sent, and the answer has no body, but the length of Twitter's;
\* or Twitter refuses it, and the answer is its; or there is no such user, no
\* answer or not all of it.
SendDm(s) ==
  /\ kind[s] = "message"
  /\ \/ \E n \in 0..MaxChunks : Answer(s, n, FALSE)
     \/ Answer(s, 0, TRUE)
     \/ Goto(s, "ask", "fail") /\ UNCHANGED answerVars
  /\ UNCHANGED <<up, unread, loop, current, pipeVars, errand>>

\* Where WriteHeader returns to.  After an error, tunnelAndGetResponse has
\* called it, and handleApiDestroyOrUnretweet calls it a second time.
AfterHeader(s) ==
  CASE handler[s] = "ok"    -> "body"
    [] handler[s] = "open"  -> "stream"
    [] handler[s] = "fail"  -> IF kind[s] = "destroy" THEN "again" ELSE "return"
    [] handler[s] = "again" -> "return"

\* ProxyResponseWriter.WriteHeader and the loop's receive meet: the channel
\* has no buffer, and the loop receives once for each request.  It begins to
\* write the answer, which fails at once if it knows the client to be gone.
WriteHeader(s) ==
  /\ loop = "await" /\ current = s
  /\ handler[s] \in {"ok", "open", "fail", "again"}
  /\ handler' = [handler EXCEPT ![s] = AfterHeader(s)]
  /\ \/ loop' = "copy"
     \/ ~up /\ loop' = "failed"
  /\ UNCHANGED <<up, unread, current, answerVars, pipeVars, errand>>

\* A chunk goes through the pipe while the loop copies.
WriteBody(s) ==
  /\ loop = "copy" /\ current = s /\ ~rClosed[s] /\ ~head[s]
  /\ handler[s] = "body" /\ left[s] > 0
  /\ left' = [left EXCEPT ![s] = @ - 1]
  /\ UNCHANGED <<up, unread, loop, current, handler, short, pipeVars, errand>>

\* What a handler has still to do after the upstream's answer.  A retweet is
\* asked for, to be shown to the streams.  An update that was refused because
\* the status it replies to is gone is to be checked, but only a request that
\* names no such status is.  The answer to a removal is never decoded, and so
\* is not told.
Errands(k) ==
  CASE k = "retweet" -> {"none", "show"}
    [] k = "update"  -> {"none", "check"}
    [] OTHER         -> {"none"}

\* io.Copy ends, with the body or with the error of a closed pipe; according
\* to the status of the answer, there is an errand.
BodyEnds(s) ==
  /\ left[s] = 0 \/ rClosed[s]
  /\ Goto(s, "body", "return")
  /\ \E e \in Errands(kind[s]) : errand' = [errand EXCEPT ![s] = e]
  /\ UNCHANGED <<up, unread, loop, current, answerVars, pipeVars>>

\* Return, if the goroutine did not close the pipe.
ReturnOnly(s) ==
  /\ Goto(s, "return", "done")
  /\ UNCHANGED <<up, unread, loop, current, answerVars, pipeVars, errand>>

\* The handler returns and its goroutine closes the write end.  That of a
\* stream never does: its request has the background context.
Return(s) ==
  /\ Goto(s, "return", "done")
  /\ wClosed' = [wClosed EXCEPT ![s] = TRUE]
  /\ UNCHANGED <<up, unread, loop, current, kind, head, answerVars, rClosed, errand>>

-----------------------------------------------------------------------------
(* The goroutine of an errand.                                             *)

\* The status is asked for.  newPacketFromReader makes a packet of an answer
\* that could not be read to its end, and of no other; an answer without a
\* status, as that for status 0, makes a removal.  Or there is no answer.
Inquire(s) ==
  /\ \/ errand[s] = "show" /\ \E e \in {"none", "part"} : errand' = [errand EXCEPT ![s] = e]
     \/ errand[s] = "check" /\ \E e \in {"none", "removal"} : errand' = [errand EXCEPT ![s] = e]
  /\ UNCHANGED <<up, unread, loop, current, slotVars>>

\* Account.Send gives it to the account's streams.
Tell(s) ==
  /\ errand[s] \in {"part", "removal"}
  /\ errand' = [errand EXCEPT ![s] = "none"]
  /\ UNCHANGED <<up, unread, loop, current, slotVars>>

-----------------------------------------------------------------------------
LoopStep == ReadRequest \/ ReadEnds \/ CopyFails \/ CopyEnds \/ Close
HandlerStep(s) ==
  \/ Identify(s) \/ Upstream(s) \/ SendDm(s)
  \/ WriteHeader(s) \/ WriteBody(s) \/ BodyEnds(s) \/ Return(s)

ErrandStep(s) == Inquire(s) \/ Tell(s)

Next ==
  \/ ClientLeaves \/ LoopStep
  \/ \E s \in Slots : HandlerStep(s) \/ ErrandStep(s)

Spec == Init /\ [][Next]_vars

(* The goroutines are scheduled and the upstream answers or fails.  The    *)
(* client owes neither a request nor a departure; one that has left may    *)
(* still take what buffers hold, but not for ever.                         *)
Fairness ==
  /\ WF_vars(CopyFails) /\ WF_vars(CopyEnds) /\ WF_vars(Close)
  /\ \A s \in Slots : WF_vars(HandlerStep(s))

FairSpec == Spec /\ Fairness

-----------------------------------------------------------------------------
(* Properties.                                                             *)

\* The loop may take the next request while the handler of a HEAD request is
\* still at its answer, and that of a stream for ever.  Such a handler has no
\* hold on the loop: it reads no more from the client's one buffered reader, its
\* status was taken, and its pipe is closed.
OvertakenIsHarmless ==
  \A s \in Slots :
    handler[s] # "done" /\ ((s # current /\ loop # "done") \/ loop = "read")
      => rClosed[s] /\ handler[s] \in {"body", "stream", "return"}

\* An answer is followed by another only if it was whole: the handler has given
\* all it had to give and returned, and the client got what its Content-Length
\* promised.  A client that is given less does not take the next answer for it.
WholeAnswers ==
  loop = "close" /\ ~head[current] =>
    left[current] = 0 /\ ~short[current] /\ handler[current] = "done"

\* Every handler gives the loop the status it waits for, whatever becomes of
\* the upstream and of the client.
StatusArrives == loop = "await" ~> loop # "await"

\* A handler that writes its answer is not left in the pipe, be the client gone
\* or the loop at another request.
HandlerDrains ==
  \A s \in Slots : handler[s] = "body" ~> handler[s] = "done"

\* A call that deletes nothing is answered to the end, be the upstream there
\* or not, and the loop takes the next request of a client that is still there;
\* but an answer with less of a body than its length says ends the connection.
Answerable ==
  /\ loop = "copy" /\ kind[current] \in {"api", "message", "update", "retweet"}
  /\ short[current] => head[current]

ApiAnswered == Answerable ~> loop = "read" \/ ~up

\* server-handle-api.go:209: ok = false means an internal server error, that
\* is, an answer.  Every request but the user stream is answered to the end.
Answered ==
  (loop = "copy" /\ kind[current] # "stream") ~> loop \in {"read", "done"}
=============================================================================
