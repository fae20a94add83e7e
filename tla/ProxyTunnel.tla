----------------------------- MODULE ProxyTunnel -----------------------------
(***************************************************************************)
(* handleProxyTunnel: the plain HTTP proxy.  The loop takes one request of *)
(* the client at a time, dials its host, forwards it and copies the answer.*)
(*                                                                         *)
(* A request is its number.  remoteHost is never assigned, so that every   *)
(* request dials, and a connection to a remote has the number of the       *)
(* request it was dialled for; 0 is nil.  An answer is the number of the   *)
(* connection it came on; answers are those that end their exchange, as    *)
(* an interim one (100, 103) does not.  Abstracted: hosts, message bytes.  *)
(***************************************************************************)
EXTENDS Naturals, Sequences, FiniteSets

CONSTANT MaxRequests  \* bound: requests of the client

ASSUME ProxyAssumption == MaxRequests \in Nat \ {0}

VARIABLES
  loop,       \* where handleProxyTunnel is
  serving,    \* the request it serves
  asked,      \* requests the client has sent
  queue,      \* those of them that wait in the client's connection
  swallowed,  \* one was sent with the first, and lost by Hijack
  remote,     \* remoteConn
  open,       \* the connections to remotes that were not closed
  reader,     \* the connection that remoteConnReader reads
  surplus,    \* what remoteConnReader holds was sent after an answer
  answer,     \* the answer that is being copied
  answers,    \* the answers that the client has got to their end
  unended     \* it got an interim one, or one with no length: more is due

dialVars == <<remote, open, reader, surplus>>
clientVars == <<asked, queue, swallowed, answers, unended>>
proxyVars == <<loop, serving, answer, dialVars, clientVars>>

Numbers == 1..MaxRequests

\* Every variable has its type; at most one connection to a remote is open,
\* and while a request is written or answered it is the one of the request.
ProxyTypeOK ==
  /\ loop \in {"off", "dial", "write", "answer", "copy", "next", "ended"}
  /\ serving \in 0..MaxRequests /\ asked \in 0..MaxRequests
  /\ queue \in Seq(Numbers) /\ answers \in Seq(Numbers)
  /\ swallowed \in BOOLEAN /\ surplus \in BOOLEAN /\ unended \in BOOLEAN
  /\ remote \in 0..MaxRequests /\ reader \in 0..MaxRequests
  /\ answer \in 0..MaxRequests
  /\ open \subseteq Numbers /\ Cardinality(open) <= 1
  /\ loop \in {"write", "answer", "copy"} => open = {remote} /\ remote = serving

ProxyInit ==
  /\ loop = "off"
  /\ serving = 0 /\ answer = 0 /\ asked = 0
  /\ queue = <<>> /\ answers = <<>>
  /\ swallowed = FALSE /\ unended = FALSE
  /\ remote = 0 /\ open = {} /\ reader = 0 /\ surplus = FALSE

-----------------------------------------------------------------------------
(* The client and the start.                                               *)

\* handleProxyTunnel begins with the first request, which is read already.
\* Hijack returns the reader of net/http, which may hold the client's next
\* request; it is not used.
ProxyBegin ==
  /\ loop = "off"
  /\ loop' = "dial" /\ serving' = 1
  /\ swallowed' \in BOOLEAN /\ (swallowed' => MaxRequests > 1)
  /\ asked' = IF swallowed' THEN 2 ELSE 1
  /\ UNCHANGED <<answer, dialVars, queue, answers, unended>>

\* The client sends its next request, be the last one answered or not.
Ask ==
  /\ loop \notin {"off", "ended"} /\ asked < MaxRequests
  /\ asked' = asked + 1
  /\ queue' = Append(queue, asked + 1)
  /\ UNCHANGED <<loop, serving, answer, dialVars, swallowed, answers, unended>>

-----------------------------------------------------------------------------
(* The loop.                                                               *)

End(left) == loop' = "ended" /\ open' = left

\* ResetReader, if a reader that is bound already were left as it is.
ResetOnce(c) ==
  IF reader = 0 THEN reader' = c /\ surplus' = FALSE
                ELSE UNCHANGED <<reader, surplus>>

\* The reader is bound to a connection, and forgets what it held.
ResetReader(c) == reader' = c /\ surplus' = FALSE

\* http.ReadRequest.
NextRequest ==
  /\ loop = "next" /\ queue # <<>>
  /\ loop' = "dial"
  /\ serving' = Head(queue) /\ queue' = Tail(queue)
  /\ ResetReader(remote)
  /\ UNCHANGED <<answer, remote, open, asked, swallowed, answers, unended>>

\* The client is gone, and remoteConn is closed; or what it sent is no
\* request, and remoteConn is closed only if it is nil.
NoRequest ==
  /\ loop = "next" /\ queue = <<>>
  /\ \E left \in {{}, open} : End(left)
  /\ UNCHANGED <<serving, answer, remote, reader, surplus, clientVars>>

\* A request for a websocket: the address that is dialled has lost its port,
\* so that the dial fails, and the connection ends without an answer.
Websocket ==
  /\ loop = "dial"
  /\ End(open)
  /\ UNCHANGED <<serving, answer, remote, reader, surplus, clientVars>>

\* Dial, if the last remote were left open.
DialNext ==
  /\ loop = "dial"
  /\ loop' = "write"
  /\ remote' = serving /\ open' = open \cup {serving}
  /\ ResetReader(serving)
  /\ UNCHANGED <<serving, answer, clientVars>>

\* The last remote is closed and the next one dialled.
Dial ==
  /\ loop = "dial"
  /\ loop' = "write"
  /\ remote' = serving /\ open' = (open \ {remote}) \cup {serving}
  /\ ResetReader(serving)
  /\ UNCHANGED <<serving, answer, clientVars>>

\* DialFails, if the loop went on to the next request as it sets out to.
DialFailsSilently ==
  /\ loop = "dial"
  /\ loop' = "next" /\ open' = open \ {remote} /\ remote' = 0
  /\ UNCHANGED <<serving, answer, reader, surplus, clientVars>>

\* The answer 502 is written to the connection that could not be made, which
\* is nil: the handler panics, ServeHTTP recovers, the connection is closed.
DialFails ==
  /\ loop = "dial"
  /\ End(open \ {remote}) /\ remote' = 0
  /\ UNCHANGED <<serving, answer, reader, surplus, clientVars>>

\* Request.Write succeeds; or it fails for the request's own body, and the
\* answer 502 is written to the remote, whose answer is then read.
Forward ==
  /\ loop = "write"
  /\ loop' = "answer"
  /\ UNCHANGED <<serving, answer, dialVars, clientVars>>

\* Neither the request nor the answer 502 can be written, the remote gives no
\* answer, or the answer cannot be copied to its end.
RemoteFails ==
  /\ loop \in {"write", "answer", "copy"}
  /\ End(open \ {remote})
  /\ UNCHANGED <<serving, answer, remote, reader, surplus, clientVars>>

\* http.ReadResponse: what the reader holds, or what the remote sends, which
\* may be an interim answer.  With it the reader may take more, such as the
\* answer proper, or a notice that the remote will wait no longer.
ReadAnswer ==
  /\ loop = "answer"
  /\ surplus \/ reader \in open
  /\ loop' = "copy"
  /\ answer' = reader
  /\ surplus' \in BOOLEAN
  /\ UNCHANGED <<serving, remote, open, reader, clientVars>>

\* Response.Write, after which the loop is done with the request whatever the
\* answer was.  One with no length ends with its connection, which the loop
\* keeps; an interim one is followed by the answer proper, which the loop
\* does not read.  The client has got no end, waits for it, and takes the
\* answers that follow for more of this one.
CopyAnswer ==
  /\ loop = "copy"
  /\ loop' = "next"
  /\ \/ ~unended /\ answers' = Append(answers, answer) /\ UNCHANGED unended
     \/ unended' = TRUE /\ UNCHANGED answers
  /\ UNCHANGED <<serving, answer, dialVars, asked, queue, swallowed>>

ProxyLoop ==
  \/ NextRequest \/ Websocket \/ Dial \/ DialFails \/ Forward
  \/ RemoteFails \/ ReadAnswer \/ CopyAnswer

ProxyStep == ProxyBegin \/ Ask \/ NoRequest \/ ProxyLoop

ProxySpec == ProxyInit /\ [][ProxyStep]_proxyVars

\* The loop is scheduled, and a remote answers or fails.
ProxyFairness == WF_proxyVars(ProxyLoop)

-----------------------------------------------------------------------------
\* The n-th answer that a client gets is the one to its n-th request: none is
\* left over from an earlier remote, lost or given twice.  This is said up to
\* the first answer that is interim or has no length, and not of a client that
\* has sent its second request with the first one: both are out of step.
AnswersInTurn == ~swallowed => \A i \in 1..Len(answers) : answers[i] = i

\* Every request that reaches the loop is answered to its end, or the
\* connection is closed, so that the client does not wait in vain; unless an
\* answer was interim or had no length, after which it may.  That a remote
\* answers or fails is assumed: nothing bounds the time it takes.
ProxyAnswers ==
  \A i \in Numbers :
    (asked >= i /\ ~swallowed) ~> (Len(answers) >= i \/ loop = "ended" \/ unended)
=============================================================================
