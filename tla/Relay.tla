-------------------------------- MODULE Relay --------------------------------
(***************************************************************************)
(* handleProxyHttpsTunnel and the relay of bytes that it becomes: copy runs*)
(* one copyOneway in a goroutine, from the client to the remote, and one   *)
(* itself, from the remote to the client, with one context for both.       *)
(*                                                                         *)
(* A direction waits for a byte or for the context (readerWithContext),    *)
(* or writes what it has read.  A read deadline is the ticks left of it.   *)
(* Abstracted: the bytes; the goroutine in Peek that a direction leaves    *)
(* behind, whose result nobody reads and which ends with the connection.   *)
(***************************************************************************)
EXTENDS Naturals

CONSTANT Patience  \* 30 * time.Second, in ticks

ASSUME RelayAssumption == Patience \in Nat \ {0}

Directions == {"up", "down"}
Ends == {"client", "remote"}

Source == [up |-> "client", down |-> "remote"]
Target == [up |-> "remote", down |-> "client"]

VARIABLES
  relay,      \* where handleProxyHttpsTunnel is
  way,        \* where the copyOneway of each direction is
  cancelled,  \* the context of copy is cancelled
  deadline,   \* the read deadline of each connection
  waiting,    \* bytes of each end wait to be read
  peer,       \* each end is there, has stopped reading, or is gone
  quiet       \* ticks since a direction read a byte, at most Patience

wayVars == <<way, cancelled, deadline, waiting, quiet>>
relayVars == <<relay, peer, wayVars>>

\* Every variable has its type; a direction that has ended has cancelled the
\* context, and copy returns when both have.
RelayTypeOK ==
  /\ relay \in {"off", "dial", "copy", "returned"}
  /\ way \in [Directions -> {"read", "write", "ended"}]
  /\ cancelled \in BOOLEAN
  /\ deadline \in [Ends -> 0..Patience]
  /\ waiting \in [Ends -> BOOLEAN]
  /\ peer \in [Ends -> {"there", "stalled", "gone"}]
  /\ quiet \in 0..Patience
  /\ relay = "copy" => (cancelled <=> \E d \in Directions : way[d] = "ended")

RelayInit ==
  /\ relay = "off"
  /\ way = [d \in Directions |-> "ended"]
  /\ cancelled = FALSE
  /\ deadline = [e \in Ends |-> Patience]
  /\ waiting = [e \in Ends |-> FALSE]
  /\ peer = [e \in Ends |-> "there"]
  /\ quiet = 0

-----------------------------------------------------------------------------
(* The ends and the time.                                                  *)

Sends(e) ==
  /\ relay = "copy" /\ peer[e] # "gone" /\ ~waiting[e]
  /\ waiting' = [waiting EXCEPT ![e] = TRUE]
  /\ UNCHANGED <<relay, peer, way, cancelled, deadline, quiet>>

\* An end takes no more of what is written to it, and keeps its connection.
Stalls(e) ==
  /\ relay = "copy" /\ peer[e] = "there"
  /\ peer' = [peer EXCEPT ![e] = "stalled"]
  /\ UNCHANGED <<relay, wayVars>>

Leaves(e) ==
  /\ relay \in {"dial", "copy"} /\ peer[e] # "gone"
  /\ peer' = [peer EXCEPT ![e] = "gone"]
  /\ UNCHANGED <<relay, wayVars>>

Less(n) == IF n = 0 THEN 0 ELSE n - 1

Tick ==
  /\ relay = "copy"
  /\ quiet < Patience \/ \E e \in Ends : deadline[e] > 0
  /\ deadline' = [e \in Ends |-> Less(deadline[e])]
  /\ quiet' = IF quiet < Patience THEN quiet + 1 ELSE quiet
  /\ UNCHANGED <<relay, peer, way, cancelled, waiting>>

-----------------------------------------------------------------------------
(* handleProxyHttpsTunnel.                                                 *)

RelayBegin ==
  /\ relay = "off"
  /\ relay' = "dial"
  /\ UNCHANGED <<peer, wayVars>>

\* The remote is dialled and the client told so.  Each direction sets the
\* deadline of what it reads.  What the client sent before was lost with the
\* reader that Hijack returned.
Established ==
  /\ relay = "dial" /\ peer["remote"] = "there"
  /\ relay' = "copy"
  /\ way' = [d \in Directions |-> "read"]
  /\ UNCHANGED <<cancelled, deadline, waiting, peer, quiet>>

\* The dial fails, and the client is answered 502; or the answer that the
\* connection is established cannot be written.
NotEstablished ==
  /\ relay = "dial"
  /\ relay' = "returned"
  /\ UNCHANGED <<peer, wayVars>>

\* copy waits for the goroutine when its own direction is over; then the
\* connections are closed.
Return ==
  /\ relay = "copy" /\ \A d \in Directions : way[d] = "ended"
  /\ relay' = "returned"
  /\ UNCHANGED <<peer, wayVars>>

-----------------------------------------------------------------------------
(* copyOneway.                                                             *)

\* Extend, if a direction minded its own connection only.
ExtendNothing(d) == deadline

\* What a byte read from one end does to the read deadline of the other.
Extend(d) == [deadline EXCEPT ![Target[d]] = Patience]

\* Peek has found a byte; be the context cancelled or not, select may take it.
\* The other direction is granted more time to wait.
Take(d) ==
  /\ relay = "copy" /\ way[d] = "read"
  /\ waiting[Source[d]]
  /\ waiting' = [waiting EXCEPT ![Source[d]] = FALSE]
  /\ way' = [way EXCEPT ![d] = "write"]
  /\ deadline' = Extend(d)
  /\ quiet' = 0
  /\ UNCHANGED <<relay, peer, cancelled>>

\* The write ends, and the direction sets its deadline and reads again.
Write(d) ==
  /\ way[d] = "write" /\ peer[Target[d]] = "there"
  /\ way' = [way EXCEPT ![d] = "read"]
  /\ deadline' = [deadline EXCEPT ![Source[d]] = Patience]
  /\ UNCHANGED <<relay, peer, cancelled, waiting, quiet>>

\* EndWay, if the context were not cancelled.
EndWayAlone(d) ==
  /\ way' = [way EXCEPT ![d] = "ended"]
  /\ UNCHANGED <<relay, peer, cancelled, deadline, waiting, quiet>>

\* A direction ends: its context is cancelled, and with it the other's.
EndWay(d) ==
  /\ way' = [way EXCEPT ![d] = "ended"]
  /\ cancelled' = TRUE
  /\ UNCHANGED <<relay, peer, deadline, waiting, quiet>>

\* Nothing can be written to an end that is gone; there is no deadline.
WriteFails(d) ==
  /\ way[d] = "write" /\ peer[Target[d]] = "gone"
  /\ EndWay(d)

\* The end of what is read, or the context.
ReadOver(d) ==
  /\ way[d] = "read"
  /\ cancelled \/ (peer[Source[d]] = "gone" /\ ~waiting[Source[d]])
  /\ EndWay(d)

\* The read deadline has passed.
ReadTimesOut(d) ==
  /\ way[d] = "read" /\ deadline[Source[d]] = 0
  /\ EndWay(d)

WayStep(d) ==
  Take(d) \/ Write(d) \/ WriteFails(d) \/ ReadOver(d) \/ ReadTimesOut(d)

EndStep(e) == Sends(e) \/ Stalls(e) \/ Leaves(e)

RelayStep ==
  \/ RelayBegin \/ Established \/ NotEstablished \/ Return \/ Tick
  \/ \E e \in Ends : EndStep(e)
  \/ \E d \in Directions : WayStep(d)

RelaySpec == RelayInit /\ [][RelayStep]_relayVars

\* The goroutines are scheduled, a dial ends, an end that reads takes what is
\* written, and select picks a context that is done in the end, be there a
\* byte or not.  That time passes is not assumed.
RelayFairness ==
  /\ WF_relayVars(Established \/ NotEstablished) /\ WF_relayVars(Return)
  /\ \A d \in Directions :
       /\ WF_relayVars(Write(d)) /\ WF_relayVars(WriteFails(d))
       /\ SF_relayVars(ReadOver(d))

-----------------------------------------------------------------------------
\* A direction gives up its read for want of bytes only if no byte came for
\* the whole time in either direction: a transfer one way keeps up the other.
OnlyIdleIsCut ==
  [][\A d \in Directions : ReadTimesOut(d) => quiet = Patience]_relayVars

\* When one direction has ended, for whatever reason, so does the other, and
\* the client's handler with it, without any deadline; unless an end keeps its
\* connection and takes nothing of what is written to it.
RelayReturns ==
  (relay = "copy" /\ \E d \in Directions : way[d] = "ended") ~>
    (relay = "returned" \/ \E e \in Ends : peer[e] = "stalled")
=============================================================================
