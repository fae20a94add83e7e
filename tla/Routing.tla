------------------------------ MODULE Routing ------------------------------
(***************************************************************************)
(* Where a request goes: the tests of ServeHTTP, the two authentications,  *)
(* the mux, and the account that a request names.                          *)
(*                                                                         *)
(* A request is a record of what these tests look at.  Credentials are     *)
(* absent (or not of the form Basic), wrong or right.                      *)
(***************************************************************************)
EXTENDS Naturals, Sequences

\* form:  CONNECT, an absolute URL, a path, or a path with the headers that ask
\*        for HTTP/2 on this connection (Upgrade: h2c).
\* host:  of CONNECT: api.twitter.com or userstream.twitter.com, or another.
\* path:  below /api.twitter.com/, the user stream, /userstream, or another.
\* named: where the request gives an account that is known, if it does:
\*        the query's id, the header's oauth_token or the form's.
Requests ==
  [form  : {"connect", "absolute", "path", "h2c"},
   host  : {"twitter", "other"},
   path  : {"api", "userstream", "self", "other"},
   proxy : {"none", "wrong", "right"},
   basic : {"none", "wrong", "right"},
   named : {"nowhere", "id", "header", "form"}]

-----------------------------------------------------------------------------
\* The header Proxy-Authorization is looked at whatever header is asked for.
CheckAuth(r) == "right" \in {r.proxy, r.basic}

\* The status with which the proxy refuses, or 200.
CheckProxyAuth(r) == [none |-> 407, wrong |-> 401, right |-> 200][r.proxy]

\* Only /userstream names the account by its id, and by nothing else; any
\* other request by the token in the header, the query or the body.
OwnerKnown(r) ==
  IF r.form \in {"path", "h2c"} /\ r.path = "self"
    THEN r.named = "id" ELSE r.named \in {"header", "form"}

\* The status of a request that is no proxy's, when it is over; so too of the
\* requests within a connection of HTTP/2, which come here without CheckAuth
\* and of which only the one that asked for HTTP/2 has passed it.  StripPrefix
\* takes the leading slash, so that handleApi knows none of its paths and
\* forwards a URL that has no scheme: the client that should fetch it fails.
\* 200 is the stream of an account, if its credentials are valid.
Mux(r) ==
  IF r.path = "api"   THEN 500 ELSE
  IF r.path = "other" THEN 404 ELSE
  IF OwnerKnown(r)    THEN 200 ELSE 401

Answered(status) == [to |-> "answer", status |-> status]
TakenBy(part)    == [to |-> part, status |-> 200]

\* What becomes of the request: a status, or what takes the connection over.
\* The preface of HTTP/2, sent at once, has no headers, and CheckAuth fails.
Route(r) ==
  LET refusal == CheckProxyAuth(r)
  IN IF r.form \in {"path", "h2c"}
       THEN IF ~CheckAuth(r)  THEN Answered(401) ELSE
            IF r.form = "h2c" THEN TakenBy("h2") ELSE
            IF Mux(r) = 200   THEN TakenBy("stream") ELSE Answered(Mux(r))
       ELSE IF refusal # 200       THEN Answered(refusal) ELSE
            IF r.form = "absolute" THEN TakenBy("proxy") ELSE
            IF r.host = "twitter"  THEN TakenBy("mitm") ELSE TakenBy("tunnel")
=============================================================================
