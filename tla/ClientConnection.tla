-------------------------- MODULE ClientConnection --------------------------
(***************************************************************************)
(* One connection of a client to the TCP listener, from its first byte to  *)
(* its end: hyperConn tells TLS from plain HTTP, net/http reads requests,  *)
(* ServeHTTP routes each, and the plain proxy, a tunnel, the intercepting  *)
(* proxy (module MitmProxy), the stream (module Connection) or x/net's     *)
(* server of HTTP/2 takes the connection over.  The parts follow one another, and each begins in its  *)
(* own initial state.                                                      *)
(***************************************************************************)
EXTENDS HyperConn, Routing, ProxyTunnel, Relay

CONSTANT None  \* ServeHTTP has no request

ASSUME ClientAssumption == None \notin Requests

VARIABLES
  stage,   \* who has the connection
  request  \* the request that ServeHTTP has, or None

vars == <<stage, request, sniffVars, proxyVars, relayVars>>

\* Every variable has its type, ServeHTTP alone has a request, and a part has
\* begun only if it has the connection or had it last.
TypeOK ==
  /\ stage \in {"sniff", "idle", "serve", "proxy", "tunnel", "mitm", "stream",
                "h2", "closed"}
  /\ request \in Requests \cup {None}
  /\ request # None <=> stage = "serve"
  /\ SniffTypeOK /\ ProxyTypeOK /\ RelayTypeOK
  /\ loop # "off" => stage \in {"proxy", "closed"}
  /\ relay # "off" => stage \in {"tunnel", "closed"}
  /\ stage \notin {"sniff", "closed"} => Len(given) = Opening

Init ==
  /\ stage = "sniff" /\ request = None
  /\ SniffInit /\ ProxyInit /\ RelayInit

-----------------------------------------------------------------------------
(* net/http.                                                               *)

\* The bytes of the first request, up to its end.
Sniff ==
  /\ stage = "sniff"
  /\ SniffStep
  /\ UNCHANGED <<stage, request, proxyVars, relayVars>>

\* A request is read; the first of a connection through hyperConn.
Receive ==
  /\ stage = "idle" \/ (stage = "sniff" /\ Len(given) = Opening)
  /\ stage' = "serve"
  /\ request' \in Requests
  /\ UNCHANGED <<sniffVars, proxyVars, relayVars>>

\* Without a request net/http closes: hyperConn gave an error, the client has
\* left, or its time is over (ReadHeaderTimeout, IdleTimeout).
CloseIdle ==
  /\ stage \in {"sniff", "idle"}
  /\ stage' = "closed"
  /\ UNCHANGED <<request, sniffVars, proxyVars, relayVars>>

\* ServeHTTP's handler answers with a status, and the connection is kept.
Answer ==
  /\ stage = "serve" /\ Route(request).to = "answer"
  /\ stage' = "idle" /\ request' = None
  /\ UNCHANGED <<sniffVars, proxyVars, relayVars>>

-----------------------------------------------------------------------------
(* The connection is taken over.                                           *)

Takeover(part) ==
  /\ stage = "serve" /\ Route(request).to = part
  /\ stage' = part /\ request' = None
  /\ UNCHANGED sniffVars

ToProxy == Takeover("proxy") /\ ProxyBegin /\ UNCHANGED relayVars
ToTunnel == Takeover("tunnel") /\ RelayBegin /\ UNCHANGED proxyVars
ToOther ==
  /\ Takeover("mitm") \/ Takeover("stream") \/ Takeover("h2")
  /\ UNCHANGED <<proxyVars, relayVars>>

Proxy ==
  /\ stage = "proxy"
  /\ Ask \/ NoRequest \/ ProxyLoop
  /\ stage' = IF loop' = "ended" THEN "closed" ELSE "proxy"
  /\ UNCHANGED <<request, sniffVars, relayVars>>

Tunnel ==
  /\ stage = "tunnel"
  /\ RelayStep
  /\ stage' = IF relay' = "returned" THEN "closed" ELSE "tunnel"
  /\ UNCHANGED <<request, sniffVars, proxyVars>>

\* The connection of the intercepting proxy, or of HTTP/2, ends with it; after
\* a stream, or its refusal for a session that is not valid, net/http may keep
\* it.  The requests of HTTP/2 are answered by Mux and change nothing here.
OtherOver ==
  /\ \/ stage \in {"mitm", "h2"} /\ stage' = "closed"
     \/ stage = "stream" /\ stage' \in {"idle", "closed"}
  /\ UNCHANGED <<request, sniffVars, proxyVars, relayVars>>

Next ==
  \/ Sniff \/ Receive \/ CloseIdle \/ Answer
  \/ ToProxy \/ ToTunnel \/ ToOther
  \/ Proxy \/ Tunnel \/ OtherOver

Spec == Init /\ [][Next]_vars

(* The fairness of the proxy and of the relay.  The client owes nothing.   *)
FairSpec == Spec /\ ProxyFairness /\ RelayFairness
=============================================================================
