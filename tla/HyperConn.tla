------------------------------ MODULE HyperConn ------------------------------
(***************************************************************************)
(* hyperConn, a connection of the TCP listener: its first six bytes tell   *)
(* TLS from plain HTTP, and are given back to whoever reads on.            *)
(*                                                                         *)
(* A byte is its place in what the client sends.  The network delivers the *)
(* bytes in pieces of any length, and Read is called with slices of any    *)
(* length.  hc.conn is the accepted connection, then a hyperConnInner or a *)
(* tls.Conn upon one; the inner connection is first the buffered one, then *)
(* the accepted one.  Abstracted: deadlines, writes and addresses, which   *)
(* are passed to the accepted connection.                                  *)
(***************************************************************************)
EXTENDS Naturals, Sequences

CONSTANTS
  Opening,  \* bound: bytes the client sends up to the end of its first request
  Sizes     \* bound: lengths of the slices that Read is called with

\* len(buff) in handshake.
Peeked == 6

ASSUME HyperAssumption ==
  /\ Opening \in Nat /\ Opening > Peeked
  /\ Sizes \subseteq Nat \ {0}

VARIABLES
  speaksTls,   \* what the client begins with
  arrived,     \* bytes that have arrived
  taken,       \* bytes read from the accepted connection
  handshaked,  \* handshaked
  conn,        \* hc.conn: accepted, inner or tls
  inner,       \* ci.Conn: none, buffered or accepted
  buff,        \* hyperConnBuffered.buff
  given        \* what the readers of the inner connection got

sniffVars == <<speaksTls, arrived, taken, handshaked, conn, inner, buff, given>>

Bytes(from, to) == [i \in 1..(to - from + 1) |-> from + i - 1]
Least(m, n) == IF m < n THEN m ELSE n

\* The first Read failed: net/http answers and closes, and reads no more.
Refused == handshaked /\ conn = "accepted"

\* Every variable has its type, and an emptied buffer is out of the way.
SniffTypeOK ==
  /\ speaksTls \in BOOLEAN /\ handshaked \in BOOLEAN
  /\ arrived \in 0..Opening /\ taken \in 0..arrived
  /\ conn \in {"accepted", "inner", "tls"}
  /\ inner \in {"none", "buffered", "accepted"}
  /\ buff \in Seq(1..Opening) /\ given \in Seq(1..Opening)
  /\ inner = "buffered" <=> buff # <<>>

SniffInit ==
  /\ speaksTls \in BOOLEAN
  /\ arrived = 0 /\ taken = 0
  /\ handshaked = FALSE
  /\ conn = "accepted" /\ inner = "none"
  /\ buff = <<>> /\ given = <<>>

-----------------------------------------------------------------------------
\* The network delivers some more of what the client sends.
Arrive ==
  /\ arrived' \in (arrived + 1)..Opening
  /\ UNCHANGED <<speaksTls, taken, handshaked, conn, inner, buff, given>>

\* One read of six bytes at most.  What is shorter is an error, and what was
\* read is dropped; handshaked is set before.
Handshake ==
  /\ ~handshaked /\ arrived > taken
  /\ handshaked' = TRUE
  /\ taken' = Least(Peeked, arrived)
  /\ IF taken' < Peeked
       THEN UNCHANGED <<conn, inner, buff>>
       ELSE /\ inner' = "buffered" /\ buff' = Bytes(1, Peeked)
            /\ conn' = IF speaksTls THEN "tls" ELSE "inner"
  /\ UNCHANGED <<speaksTls, arrived, given>>

\* Rest, if the slice were not advanced.
RestAll(n) == IF n < Len(buff) THEN buff ELSE <<>>

\* What is left of buff when n of its bytes were copied.
Rest(n) == SubSeq(buff, n + 1, Len(buff))

\* Read of the buffered connection with a slice of b bytes.  If the buffer
\* does not fill the slice the accepted connection is read too, which waits
\* for a byte more.
ReadBuffered(b) ==
  LET n    == Least(b, Len(buff))
      more == Least(b - n, arrived - taken)
  IN /\ inner = "buffered"
     /\ n < b => more > 0
     /\ given' = given \o SubSeq(buff, 1, n) \o Bytes(taken + 1, taken + more)
     /\ buff' = Rest(n)
     /\ inner' = IF buff' = <<>> THEN "accepted" ELSE "buffered"
     /\ taken' = taken + more
     /\ UNCHANGED <<speaksTls, arrived, handshaked, conn>>

\* Read of the accepted connection, when the buffered one is out of the way.
ReadAccepted(b) ==
  LET more == Least(b, arrived - taken)
  IN /\ inner = "accepted" /\ more > 0
     /\ given' = given \o Bytes(taken + 1, taken + more)
     /\ taken' = taken + more
     /\ UNCHANGED <<speaksTls, arrived, handshaked, conn, inner, buff>>

SniffStep ==
  \/ Arrive \/ Handshake
  \/ \E b \in Sizes : ReadBuffered(b) \/ ReadAccepted(b)

SniffSpec == SniffInit /\ [][SniffStep]_sniffVars

-----------------------------------------------------------------------------
\* What was read from the network is what the readers got and what is still
\* buffered, in order, with no byte lost or given twice; and TLS is spoken to
\* the clients that speak it only.
BytesInOrder ==
  handshaked /\ ~Refused =>
    /\ given \o buff = Bytes(1, taken)
    /\ conn = "tls" <=> speaksTls
=============================================================================
