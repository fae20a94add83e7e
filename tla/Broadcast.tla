------------------------------ MODULE Broadcast ------------------------------
(***************************************************************************)
(* Account.Send: a list of packets goes to every registered connection.    *)
(*                                                                         *)
(* Each packet lives in a buffer of BytesPool, from newPacket to           *)
(* Packet.Release.  Send copies the list of connections under the read     *)
(* lock and starts one goroutine for each connection, which starts one     *)
(* goroutine for each packet; only the former are awaited before the       *)
(* buffers go back to the pool.                                            *)
(*                                                                         *)
(* Abstracted: what a packet says; Connection.Send, here one step that     *)
(* reads the buffer (Connection); who registers and leaves (StreamSession).*)
(***************************************************************************)
EXTENDS Naturals, SequencesExt

CONSTANTS
  Conns,      \* connections
  Calls,      \* goroutines that encode packets and call Account.Send
  Buffers,    \* buffers; one that nobody refers to is garbage, to be reused
  MaxPackets  \* bound: packets in one call

ASSUME BroadcastAssumption == MaxPackets \in Nat \ {0}

VARIABLES
  connections,  \* the registered connections, in the order of the list
  pooled,       \* how often each buffer is in BytesPool
  state,        \* where each call is
  packets,      \* packetList: the buffers of the call's packets
  connList,     \* the connections found when the list was read
  spawned,      \* how many of them the loop has started a goroutine for
  next,         \* for each of these goroutines, the packet it sends next
  started,      \* the sends of the call that were started, <<conn, packet>>
  writes        \* goroutines in Connection.Send, <<conn, buffer>>

callVars == <<state, packets, connList, spawned, next, started>>
vars == <<connections, pooled, callVars, writes>>

TypeOK ==
  /\ connections \in Seq(Conns)
  /\ pooled \in [Buffers -> Nat]
  /\ state \in [Calls -> {"encode", "spawn", "release"}]
  /\ packets \in [Calls -> Seq(Buffers)]
  /\ connList \in [Calls -> Seq(Conns)]
  /\ spawned \in [Calls -> Nat]
  /\ \A k \in Calls :
       /\ Len(packets[k]) <= MaxPackets
       /\ spawned[k] <= Len(connList[k])
       /\ next[k] \in [1..spawned[k] -> 1..Len(packets[k]) + 1]
  /\ started \in [Calls -> SUBSET (Conns \X (1..MaxPackets))]
  /\ writes \subseteq Conns \X Buffers

\* BytesPool starts empty.
Init ==
  /\ connections = <<>>
  /\ pooled = [b \in Buffers |-> 0]
  /\ state = [k \in Calls |-> "encode"]
  /\ packets = [k \in Calls |-> <<>>]
  /\ connList = [k \in Calls |-> <<>>]
  /\ spawned = [k \in Calls |-> 0]
  /\ next = [k \in Calls |-> <<>>]
  /\ started = [k \in Calls |-> {}]
  /\ writes = {}

\* The packets that hold a buffer, as their call and their place in its list.
Owners(b) ==
  {o \in Calls \X (1..MaxPackets) :
     o[2] \in DOMAIN packets[o[1]] /\ packets[o[1]][o[2]] = b}

Holds(k, b) == \E i \in DOMAIN packets[k] : packets[k][i] = b

-----------------------------------------------------------------------------
(* The list, kept by AddConnectionAndWait.                                 *)

Listed(c) == \E i \in DOMAIN connections : connections[i] = c

Join(c) ==
  /\ ~Listed(c)
  /\ connections' = Append(connections, c)
  /\ UNCHANGED <<pooled, callVars, writes>>

Leave(c) ==
  /\ \E i \in DOMAIN connections :
       connections[i] = c /\ connections' = RemoveAt(connections, i)
  /\ UNCHANGED <<pooled, callVars, writes>>

-----------------------------------------------------------------------------
(* newPacket.                                                              *)

\* BytesPool.Get: a buffer of the pool, or a new one, which sync.Pool may
\* prefer at any time; a new one is a buffer that nobody refers to.
Get(b) ==
  \/ pooled[b] > 0
  \/ /\ pooled[b] = 0
     /\ \A k \in Calls : ~Holds(k, b)
     /\ \A w \in writes : w[2] # b

Taken(b) == IF pooled[b] > 0 THEN pooled[b] - 1 ELSE 0

NewPacket(k) ==
  /\ state[k] = "encode" /\ Len(packets[k]) < MaxPackets
  /\ \E b \in Buffers :
       /\ Get(b)
       /\ pooled' = [pooled EXCEPT ![b] = Taken(b)]
       /\ packets' = [packets EXCEPT ![k] = Append(@, b)]
  /\ UNCHANGED <<connections, state, connList, spawned, next, started, writes>>

\* NewPacketFails, if the caller used the packet although ok is false.
NewPacketFailsUnseen(k) ==
  /\ state[k] = "encode" /\ Len(packets[k]) < MaxPackets
  /\ \E b \in Buffers :
       /\ Get(b)
       /\ pooled' = [pooled EXCEPT ![b] = Taken(b) + 1]
       /\ packets' = [packets EXCEPT ![k] = Append(@, b)]
  /\ UNCHANGED <<connections, state, connList, spawned, next, started, writes>>

\* The value cannot be encoded: the buffer goes back, there is no packet.
NewPacketFails(k) ==
  /\ state[k] = "encode" /\ Len(packets[k]) < MaxPackets
  /\ \E b \in Buffers :
       Get(b) /\ pooled' = [pooled EXCEPT ![b] = Taken(b) + 1]
  /\ UNCHANGED <<connections, callVars, writes>>

-----------------------------------------------------------------------------
(* Account.Send.                                                           *)

\* The copy of the list, under the read lock.
ReadList(k) ==
  /\ state[k] = "encode" /\ packets[k] # <<>>
  /\ state' = [state EXCEPT ![k] = "spawn"]
  /\ connList' = [connList EXCEPT ![k] = connections]
  /\ UNCHANGED <<connections, pooled, packets, spawned, next, started, writes>>

\* Spawn, if the loop went one turn too far.
SpawnPastEnd(k) ==
  /\ state[k] = "spawn" /\ spawned[k] <= Len(connList[k])
  /\ spawned' = [spawned EXCEPT ![k] = @ + 1]
  /\ next' = [next EXCEPT ![k] = Append(@, 1)]
  /\ UNCHANGED <<connections, pooled, state, packets, connList, started, writes>>

\* One turn of the loop over connList: wg.Add(1) and a goroutine.
Spawn(k) ==
  /\ state[k] = "spawn" /\ spawned[k] < Len(connList[k])
  /\ spawned' = [spawned EXCEPT ![k] = @ + 1]
  /\ next' = [next EXCEPT ![k] = Append(@, 1)]
  /\ UNCHANGED <<connections, pooled, state, packets, connList, started, writes>>

\* Recipient, if the goroutine used the loop's variable.
RecipientOfLoop(k, w) == connList[k][spawned[k]]

\* The connection the w-th goroutine sends to: c, copied in its own turn.
Recipient(k, w) == connList[k][w]

\* go c.Send(d.d) for the next packet of the w-th goroutine.
StartSend(k, w) ==
  /\ next[k][w] <= Len(packets[k])
  /\ next' = [next EXCEPT ![k][w] = @ + 1]
  /\ started' = [started EXCEPT ![k] = @ \cup {<<Recipient(k, w), next[k][w]>>}]
  /\ writes' = writes \cup {<<Recipient(k, w), packets[k][next[k][w]]>>}
  /\ UNCHANGED <<connections, pooled, state, packets, connList, spawned>>

\* wg.Wait: the loop is over and every per-connection goroutine has returned.
Await(k) ==
  /\ state[k] = "spawn" /\ spawned[k] = Len(connList[k])
  /\ \A w \in DOMAIN next[k] : next[k][w] > Len(packets[k])
  /\ state' = [state EXCEPT ![k] = "release"]
  /\ UNCHANGED <<connections, pooled, packets, connList, spawned, next, started,
                 writes>>

\* Packet.Release for each packet, and Send returns.
Release(k) ==
  /\ state[k] = "release"
  /\ pooled' = [b \in Buffers |-> pooled[b] + IF Holds(k, b) THEN 1 ELSE 0]
  /\ state' = [state EXCEPT ![k] = "encode"]
  /\ packets' = [packets EXCEPT ![k] = <<>>]
  /\ connList' = [connList EXCEPT ![k] = <<>>]
  /\ spawned' = [spawned EXCEPT ![k] = 0]
  /\ next' = [next EXCEPT ![k] = <<>>]
  /\ started' = [started EXCEPT ![k] = {}]
  /\ UNCHANGED <<connections, writes>>

\* Connection.Send reads the buffer and returns.
Written(w) ==
  /\ writes' = writes \ {w}
  /\ UNCHANGED <<connections, pooled, callVars>>

-----------------------------------------------------------------------------
Next ==
  \/ \E c \in Conns : Join(c) \/ Leave(c)
  \/ \E k \in Calls :
       \/ NewPacket(k) \/ NewPacketFails(k) \/ ReadList(k) \/ Spawn(k)
       \/ \E w \in DOMAIN next[k] : StartSend(k, w)
       \/ Await(k) \/ Release(k)
  \/ \E w \in writes : Written(w)

Spec == Init /\ [][Next]_vars

-----------------------------------------------------------------------------
(* Properties.                                                             *)

\* When Send stops waiting, it has started a send of every packet to every
\* connection the list held when it was read, although clients have come and
\* gone and the goroutines ran in any order.
FanOut ==
  \A k \in Calls : state[k] = "release" =>
    \A i \in DOMAIN connList[k], j \in DOMAIN packets[k] :
      <<connList[k][i], j>> \in started[k]

\* A buffer has one owner: it is in the pool, once, or in one packet of one
\* call, or is garbage or still read by late sends.  Were it in two places,
\* two packets would be encoded over one another.
OneOwner ==
  \A b \in Buffers :
    /\ pooled[b] <= 1
    /\ Owners(b) # {} => pooled[b] = 0
    /\ \A o, p \in Owners(b) : o = p

\* account.go:246: the packets given to Send are released after they were
\* sent.  No buffer is in the pool while a send of it is under way.
ReleasedAfterSent == \A w \in writes : pooled[w[2]] = 0
=============================================================================
