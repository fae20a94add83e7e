--------------------------- MODULE BroadcastProofs ---------------------------
(* Ownership of the pool's buffers, and delivery to every connection, once *)
(* each, for any number of calls, connections, buffers and packets.        *)
EXTENDS Broadcast, SequenceTheorems, TLAPS

\* As much of TypeOK as concerns buffers.
BufferTypes ==
  /\ pooled \in [Buffers -> Nat]
  /\ packets \in [Calls -> Seq(Buffers)]
  /\ \A k \in Calls : Len(packets[k]) <= MaxPackets

PooledOnce == \A b \in Buffers : pooled[b] <= 1

HeldNotPooled ==
  \A k \in Calls : \A i \in 1..Len(packets[k]) : pooled[packets[k][i]] = 0

\* OneOwner without the set of owners, one pair of places at a time.
NotShared ==
  \A k, l \in Calls :
    \A i \in 1..Len(packets[k]), j \in 1..Len(packets[l]) :
      packets[k][i] = packets[l][j] => k = l /\ i = j

IInv == BufferTypes /\ PooledOnce /\ HeldNotPooled /\ NotShared

-----------------------------------------------------------------------------
\* A buffer that Get may return is in no packet, and is in the pool no more.
LEMMA GetTakes ==
  ASSUME IInv, NEW b \in Buffers, Get(b)
  PROVE  /\ \A k \in Calls : \A i \in 1..Len(packets[k]) : packets[k][i] # b
         /\ Taken(b) = 0
<1> USE DEF IInv, BufferTypes, PooledOnce
<1>1. CASE pooled[b] > 0
  <2>1. pooled[b] = 1
    BY <1>1
  <2>2. QED  BY <2>1 DEF HeldNotPooled, Taken
<1>2. CASE pooled[b] = 0
  <2>1. \A k \in Calls : ~Holds(k, b)
    BY <1>2 DEF Get
  <2>2. \A k \in Calls : DOMAIN packets[k] = 1..Len(packets[k])
    OBVIOUS
  <2>3. QED  BY <1>2, <2>1, <2>2 DEF Holds, Taken
<1>3. QED  BY <1>1, <1>2

LEMMA NewPacketKeeps ==
  ASSUME IInv, NEW k \in Calls, NewPacket(k)
  PROVE  IInv'
<1>1. PICK b \in Buffers :
        /\ Get(b)
        /\ pooled' = [pooled EXCEPT ![b] = Taken(b)]
        /\ packets' = [packets EXCEPT ![k] = Append(@, b)]
  BY DEF NewPacket
<1>2. Len(packets[k]) < MaxPackets
  BY DEF NewPacket
<1>3. /\ \A l \in Calls : \A i \in 1..Len(packets[l]) : packets[l][i] # b
      /\ Taken(b) = 0
  BY <1>1, GetTakes
<1>4. /\ packets \in [Calls -> Seq(Buffers)] /\ pooled \in [Buffers -> Nat]
      /\ \A l \in Calls :
           /\ Len(packets[l]) \in Nat /\ Len(packets[l]) <= MaxPackets
           /\ \A i \in 1..Len(packets[l]) : packets[l][i] \in Buffers
      /\ MaxPackets \in Nat
  BY BroadcastAssumption DEF IInv, BufferTypes
<1>5. /\ packets' \in [Calls -> Seq(Buffers)]
      /\ packets'[k] = Append(packets[k], b)
      /\ \A l \in Calls \ {k} : packets'[l] = packets[l]
  BY <1>1, <1>4
<1>6. /\ Len(packets'[k]) = Len(packets[k]) + 1
      /\ packets'[k][Len(packets[k]) + 1] = b
      /\ \A i \in 1..Len(packets[k]) : packets'[k][i] = packets[k][i]
  BY <1>4, <1>5
<1>7. /\ pooled' \in [Buffers -> Nat] /\ pooled'[b] = 0
      /\ \A d \in Buffers \ {b} : pooled'[d] = pooled[d]
  BY <1>1, <1>3, <1>4
<1>8. \A l \in Calls : Len(packets'[l]) <= MaxPackets
  <2>1. Len(packets'[k]) <= MaxPackets
    BY <1>2, <1>4, <1>6
  <2>2. QED  BY <2>1, <1>4, <1>5
<1>9. BufferTypes'
  BY <1>5, <1>7, <1>8 DEF BufferTypes
<1>10. PooledOnce'
  BY <1>7 DEF IInv, PooledOnce
<1>11. ASSUME NEW l \in Calls, NEW i \in 1..Len(packets'[l])
       PROVE  \/ l = k /\ i = Len(packets[k]) + 1 /\ packets'[l][i] = b
              \/ i \in 1..Len(packets[l]) /\ packets'[l][i] = packets[l][i]
  <2>1. CASE l = k
    <3>1. i \in 1..Len(packets[k]) \/ i = Len(packets[k]) + 1
      BY <2>1, <1>4, <1>6, <1>11
    <3>2. QED  BY <3>1, <2>1, <1>6
  <2>2. CASE l # k
    BY <2>2, <1>5, <1>11
  <2>3. QED  BY <2>1, <2>2
<1>12. HeldNotPooled'
  <2>1. SUFFICES ASSUME NEW l \in Calls, NEW i \in 1..Len(packets'[l])
                 PROVE  pooled'[packets'[l][i]] = 0
    BY DEF HeldNotPooled
  <2>2. CASE packets'[l][i] = b
    BY <2>2, <1>7
  <2>3. CASE i \in 1..Len(packets[l]) /\ packets'[l][i] = packets[l][i]
    BY <2>3, <1>3, <1>4, <1>7 DEF IInv, HeldNotPooled
  <2>4. QED  BY <1>11, <2>2, <2>3
<1>13. NotShared'
  <2>1. SUFFICES ASSUME NEW l \in Calls, NEW i \in 1..Len(packets'[l]),
                        NEW m \in Calls, NEW j \in 1..Len(packets'[m]),
                        packets'[l][i] = packets'[m][j]
                 PROVE  l = m /\ i = j
    BY DEF NotShared
  <2>2. CASE l = k /\ i = Len(packets[k]) + 1 /\ packets'[l][i] = b
    BY <2>1, <2>2, <1>3, <1>11
  <2>3. CASE i \in 1..Len(packets[l]) /\ packets'[l][i] = packets[l][i]
    <3>1. j \in 1..Len(packets[m]) /\ packets'[m][j] = packets[m][j]
      BY <2>1, <2>3, <1>3, <1>11
    <3>2. packets[l][i] = packets[m][j]
      BY <2>1, <2>3, <3>1
    <3>3. NotShared
      BY DEF IInv
    <3>4. QED  BY <2>3, <3>1, <3>2, <3>3 DEF NotShared
  <2>4. QED  BY <1>11, <2>2, <2>3
<1>14. QED  BY <1>9, <1>10, <1>12, <1>13 DEF IInv

LEMMA NewPacketFailsKeeps ==
  ASSUME IInv, NEW k \in Calls, NewPacketFails(k)
  PROVE  IInv'
<1> USE DEF IInv, BufferTypes
<1>1. PICK b \in Buffers :
        Get(b) /\ pooled' = [pooled EXCEPT ![b] = Taken(b) + 1]
  BY DEF NewPacketFails
<1>2. packets' = packets
  BY DEF NewPacketFails, callVars
<1>3. /\ \A l \in Calls : \A i \in 1..Len(packets[l]) : packets[l][i] # b
      /\ Taken(b) = 0
  BY <1>1, GetTakes
<1>4. /\ pooled' \in [Buffers -> Nat] /\ pooled'[b] = 1
      /\ \A d \in Buffers \ {b} : pooled'[d] = pooled[d]
  BY <1>1, <1>3
<1>5. \A l \in Calls : \A i \in 1..Len(packets[l]) : packets[l][i] \in Buffers
  OBVIOUS
<1>6. HeldNotPooled'
  BY <1>2, <1>3, <1>4, <1>5 DEF HeldNotPooled
<1>7. PooledOnce'
  BY <1>4 DEF PooledOnce
<1>8. NotShared'
  BY <1>2 DEF NotShared
<1>9. QED  BY <1>2, <1>4, <1>6, <1>7, <1>8

\* What the call held goes to the pool, where it was not, and to no other
\* call, as no other held it.
LEMMA ReleaseKeeps ==
  ASSUME IInv, NEW k \in Calls, Release(k)
  PROVE  IInv'
<1> USE DEF IInv, BufferTypes
<1>1. /\ pooled' = [b \in Buffers |-> pooled[b] + IF Holds(k, b) THEN 1 ELSE 0]
      /\ packets' = [packets EXCEPT ![k] = <<>>]
  BY DEF Release
<1>2. \A l \in Calls : DOMAIN packets[l] = 1..Len(packets[l])
  OBVIOUS
<1>3. \A l \in Calls : \A i \in 1..Len(packets[l]) : packets[l][i] \in Buffers
  OBVIOUS
<1>4. \A b \in Buffers : Holds(k, b) => pooled[b] = 0 /\ pooled'[b] = 1
  BY <1>1, <1>2 DEF HeldNotPooled, Holds
<1>5. \A b \in Buffers : ~Holds(k, b) => pooled'[b] = pooled[b]
  BY <1>1
<1>6. /\ packets' \in [Calls -> Seq(Buffers)]
      /\ Len(packets'[k]) = 0
      /\ \A l \in Calls \ {k} : packets'[l] = packets[l]
  BY <1>1
<1>7. BufferTypes'
  BY <1>1, <1>6, BroadcastAssumption
<1>8. PooledOnce'
  BY <1>4, <1>5 DEF PooledOnce
<1>9. \A l \in Calls \ {k} : \A i \in 1..Len(packets[l]) :
        ~Holds(k, packets[l][i])
  BY <1>2 DEF NotShared, Holds
<1>10. HeldNotPooled'
  <2>1. SUFFICES ASSUME NEW l \in Calls, NEW i \in 1..Len(packets'[l])
                 PROVE  pooled'[packets'[l][i]] = 0
    BY DEF HeldNotPooled
  <2>2. l # k /\ packets'[l] = packets[l]
    BY <1>6, <2>1
  <2>3. packets[l][i] \in Buffers /\ ~Holds(k, packets[l][i])
    BY <1>3, <1>9, <2>2
  <2>4. pooled[packets[l][i]] = 0
    BY <2>2 DEF HeldNotPooled
  <2>5. QED  BY <1>5, <2>2, <2>3, <2>4
<1>11. NotShared'
  <2>1. SUFFICES ASSUME NEW l \in Calls, NEW i \in 1..Len(packets'[l]),
                        NEW m \in Calls, NEW j \in 1..Len(packets'[m]),
                        packets'[l][i] = packets'[m][j]
                 PROVE  l = m /\ i = j
    BY DEF NotShared
  <2>2. l # k /\ m # k
    <3>1. 1..Len(packets'[k]) = {}
      BY <1>6
    <3>2. QED  BY <3>1, <2>1
  <2>3. packets'[l] = packets[l] /\ packets'[m] = packets[m]
    BY <1>6, <2>2
  <2>4. QED  BY <2>1, <2>3 DEF NotShared
<1>12. QED  BY <1>7, <1>8, <1>10, <1>11

LEMMA StepKeeps == IInv /\ [Next]_vars => IInv'
<1>1. SUFFICES ASSUME IInv, [Next]_vars PROVE IInv'
  OBVIOUS
<1>2. CASE UNCHANGED <<pooled, packets>>
  BY <1>1, <1>2 DEF IInv, BufferTypes, PooledOnce, HeldNotPooled, NotShared
<1>3. CASE UNCHANGED vars
  BY <1>2, <1>3 DEF vars, callVars
<1>4. CASE \E c \in Conns : Join(c) \/ Leave(c)
  BY <1>2, <1>4 DEF Join, Leave, callVars
<1>5. CASE \E w \in writes : Written(w)
  BY <1>2, <1>5 DEF Written, callVars
<1>6. ASSUME NEW k \in Calls,
             \/ NewPacket(k) \/ NewPacketFails(k) \/ ReadList(k) \/ Spawn(k)
             \/ \E w \in DOMAIN next[k] : StartSend(k, w)
             \/ Await(k) \/ Release(k)
      PROVE  IInv'
  <2>1. CASE NewPacket(k)
    BY <1>1, <2>1, NewPacketKeeps
  <2>2. CASE NewPacketFails(k)
    BY <1>1, <2>2, NewPacketFailsKeeps
  <2>3. CASE ReadList(k)
    BY <1>2, <2>3 DEF ReadList
  <2>4. CASE Spawn(k)
    BY <1>2, <2>4 DEF Spawn
  <2>5. CASE \E w \in DOMAIN next[k] : StartSend(k, w)
    BY <1>2, <2>5 DEF StartSend
  <2>6. CASE Await(k)
    BY <1>2, <2>6 DEF Await
  <2>7. CASE Release(k)
    BY <1>1, <2>7, ReleaseKeeps
  <2>8. QED  BY <1>6, <2>1, <2>2, <2>3, <2>4, <2>5, <2>6, <2>7
<1>7. QED  BY <1>1, <1>3, <1>4, <1>5, <1>6 DEF Next

LEMMA InitHolds == Init => IInv
  BY BroadcastAssumption
     DEF Init, IInv, BufferTypes, PooledOnce, HeldNotPooled, NotShared

LEMMA Implied == IInv => OneOwner
<1>1. SUFFICES ASSUME IInv, NEW b \in Buffers
               PROVE  /\ pooled[b] <= 1
                      /\ Owners(b) # {} => pooled[b] = 0
                      /\ \A o, p \in Owners(b) : o = p
  BY DEF OneOwner
<1>2. \A o \in Owners(b) :
        /\ o \in Calls \X (1..MaxPackets)
        /\ o[2] \in 1..Len(packets[o[1]]) /\ packets[o[1]][o[2]] = b
  BY <1>1 DEF Owners, IInv, BufferTypes
<1>3. Owners(b) # {} => pooled[b] = 0
  BY <1>1, <1>2 DEF IInv, HeldNotPooled
<1>4. \A o, p \in Owners(b) : o = p
  <2>1. SUFFICES ASSUME NEW o \in Owners(b), NEW p \in Owners(b) PROVE o = p
    OBVIOUS
  <2>2. o[1] = p[1] /\ o[2] = p[2]
    BY <1>1, <1>2 DEF IInv, NotShared
  <2>3. QED  BY <1>2, <2>2
<1>5. QED  BY <1>1, <1>3, <1>4 DEF IInv, PooledOnce

\* Every reachable state satisfies the inductive invariant.
THEOREM Invariance == Spec => []IInv
  BY InitHolds, StepKeeps, PTL DEF Spec

\* No buffer is ever in two packets, or in a packet and in the pool.
THEOREM BuffersOwned == Spec => []OneOwner
  BY Invariance, Implied, PTL

-----------------------------------------------------------------------------
(* Delivery.                                                               *)

\* The loop of Send and its goroutines: each of those that run has one
\* connection of the list, in its order.
LoopTypes ==
  /\ connections \in Seq(Conns)
  /\ state \in [Calls -> {"encode", "spawn", "release"}]
  /\ connList \in [Calls -> Seq(Conns)]
  /\ spawned \in [Calls -> Nat]
  /\ \A k \in Calls :
       /\ spawned[k] <= Len(connList[k])
       /\ next[k] \in [1..spawned[k] -> 1..Len(packets[k]) + 1]
  /\ next = [k \in Calls |-> next[k]]
  /\ started \in [Calls -> SUBSET (Conns \X (1..MaxPackets))]
  /\ writes \subseteq Conns \X Buffers

\* Nothing is left of an earlier call.
Fresh ==
  \A k \in Calls : state[k] = "encode" => connList[k] = <<>> /\ spawned[k] = 0

\* What a goroutine has passed, it has started.
Passed ==
  \A k \in Calls : \A w \in 1..spawned[k] : \A j \in 1..Len(packets[k]) :
    j < next[k][w] => <<connList[k][w], j>> \in started[k]

\* Send waits for the last of them.
Awaited ==
  \A k \in Calls : state[k] = "release" =>
    /\ spawned[k] = Len(connList[k])
    /\ \A w \in 1..spawned[k] : next[k][w] > Len(packets[k])

FanInv == BufferTypes /\ LoopTypes /\ Fresh /\ Passed /\ Awaited

LEMMA BufferTypesKept == IInv /\ [Next]_vars => BufferTypes'
BY StepKeeps DEF IInv

LEMMA FanInitHolds == Init => FanInv
<1>1. SUFFICES ASSUME Init PROVE FanInv
  OBVIOUS
<1>2. /\ connections = <<>> /\ state = [k \in Calls |-> "encode"]
      /\ packets = [k \in Calls |-> <<>>] /\ connList = [k \in Calls |-> <<>>]
      /\ spawned = [k \in Calls |-> 0] /\ next = [k \in Calls |-> <<>>]
      /\ started = [k \in Calls |-> {}] /\ writes = {}
  BY <1>1 DEF Init
<1>3. BufferTypes
  BY <1>1, InitHolds DEF IInv
<1>4. \A k \in Calls : <<>> \in [1..0 -> 1..Len(packets[k]) + 1] /\ Len(<<>>) = 0
  OBVIOUS
<1>5. LoopTypes
  BY <1>2, <1>4 DEF LoopTypes
<1>6. Fresh /\ Passed /\ Awaited
  BY <1>2 DEF Fresh, Passed, Awaited
<1>7. QED  BY <1>3, <1>5, <1>6 DEF FanInv

\* What a step reads of the types.
LEMMA FanTypes ==
  ASSUME FanInv
  PROVE  /\ connections \in Seq(Conns)
         /\ packets \in [Calls -> Seq(Buffers)] /\ connList \in [Calls -> Seq(Conns)]
         /\ state \in [Calls -> {"encode", "spawn", "release"}]
         /\ spawned \in [Calls -> Nat] /\ DOMAIN next = Calls
         /\ started \in [Calls -> SUBSET (Conns \X (1..MaxPackets))]
         /\ writes \subseteq Conns \X Buffers /\ MaxPackets \in Nat
         /\ \A k \in Calls :
              /\ Len(packets[k]) \in Nat /\ Len(packets[k]) <= MaxPackets
              /\ spawned[k] <= Len(connList[k])
              /\ next[k] \in [1..spawned[k] -> 1..Len(packets[k]) + 1]
BY BroadcastAssumption DEF FanInv, LoopTypes, BufferTypes

\* The list of connections changes, and a send ends.
LEMMA ListKeeps ==
  ASSUME FanInv, BufferTypes', connections' \in Seq(Conns),
         writes' \subseteq Conns \X Buffers, UNCHANGED callVars
  PROVE  FanInv'
BY DEF FanInv, LoopTypes, Fresh, Passed, Awaited, callVars

LEMMA JoinLeaveKeep ==
  ASSUME FanInv, BufferTypes', NEW c \in Conns, Join(c) \/ Leave(c)
  PROVE  FanInv'
<1>1. connections \in Seq(Conns) /\ writes \subseteq Conns \X Buffers
  BY FanTypes
<1>2. UNCHANGED <<callVars, writes>>
  BY DEF Join, Leave
<1>3. CASE Join(c)
  <2>1. connections' \in Seq(Conns)
    BY <1>1, <1>3 DEF Join
  <2>2. QED  BY <1>1, <1>2, <2>1, ListKeeps
<1>4. CASE Leave(c)
  <2>1. PICK i \in DOMAIN connections : connections' = RemoveAt(connections, i)
    BY <1>4 DEF Leave
  <2>2. i \in 1..Len(connections)
    BY <1>1, <2>1
  <2>3. SubSeq(connections, 1, i - 1) \o SubSeq(connections, i + 1, Len(connections))
          \in Seq(Conns)
    BY <1>1, <2>2
  <2>4. connections' \in Seq(Conns)
    BY <2>1, <2>3, Zenon DEF RemoveAt
  <2>5. QED  BY <1>1, <1>2, <2>4, ListKeeps
<1>5. QED  BY <1>3, <1>4

\* No goroutine runs while packets are encoded.
LEMMA EncodeKeeps ==
  ASSUME FanInv, BufferTypes', NEW k \in Calls, NewPacket(k)
  PROVE  FanInv'
<1>1. /\ state[k] = "encode" /\ \E b \in Buffers : packets' = [packets EXCEPT ![k] = Append(@, b)]
      /\ UNCHANGED <<connections, state, connList, spawned, next, started, writes>>
  BY DEF NewPacket
<1>2. spawned[k] = 0 /\ 1..spawned[k] = {}
  BY <1>1 DEF FanInv, Fresh
<1>3. \A l \in Calls \ {k} : packets'[l] = packets[l]
  BY <1>1, FanTypes
<1>4. \A l \in Calls : next'[l] \in [1..spawned'[l] -> 1..Len(packets'[l]) + 1]
  <2>1. next[k] \in [{} -> 1..Len(packets[k]) + 1]
    BY <1>2, FanTypes, Zenon
  <2>2. next[k] \in [{} -> 1..Len(packets'[k]) + 1]
    BY <2>1
  <2>3. QED  BY <1>1, <1>2, <1>3, <2>2, FanTypes
<1>5. LoopTypes'
  BY <1>1, <1>4 DEF FanInv, LoopTypes
<1>6. Fresh' /\ Passed' /\ Awaited'
  BY <1>1, <1>2, <1>3 DEF FanInv, Fresh, Passed, Awaited
<1>7. QED  BY <1>5, <1>6 DEF FanInv

LEMMA ReadListKeeps ==
  ASSUME FanInv, BufferTypes', NEW k \in Calls, ReadList(k)
  PROVE  FanInv'
<1>1. /\ state[k] = "encode" /\ state' = [state EXCEPT ![k] = "spawn"]
      /\ connList' = [connList EXCEPT ![k] = connections]
      /\ UNCHANGED <<connections, packets, spawned, next, started, writes>>
  BY DEF ReadList
<1>2. /\ state \in [Calls -> {"encode", "spawn", "release"}]
      /\ connList \in [Calls -> Seq(Conns)] /\ connections \in Seq(Conns)
  BY FanTypes
<1>3. spawned[k] = 0 /\ 1..spawned[k] = {} /\ Len(connections) \in Nat
  BY <1>1, <1>2 DEF FanInv, Fresh
<1>4. /\ state'[k] = "spawn" /\ connList'[k] = connections
      /\ \A l \in Calls \ {k} : state'[l] = state[l] /\ connList'[l] = connList[l]
  BY <1>1, <1>2
<1>5. LoopTypes'
  <2>1. \A l \in Calls : spawned'[l] <= Len(connList'[l])
    BY <1>1, <1>3, <1>4, FanTypes
  <2>2. state' \in [Calls -> {"encode", "spawn", "release"}] /\ connList' \in [Calls -> Seq(Conns)]
    BY <1>1, <1>2
  <2>3. QED  BY <1>1, <2>1, <2>2 DEF FanInv, LoopTypes
<1>6. Fresh' /\ Passed' /\ Awaited'
  BY <1>1, <1>3, <1>4 DEF FanInv, Fresh, Passed, Awaited
<1>7. QED  BY <1>5, <1>6 DEF FanInv

LEMMA SpawnKeeps ==
  ASSUME FanInv, BufferTypes', NEW k \in Calls, Spawn(k)
  PROVE  FanInv'
<1>1. /\ state[k] = "spawn" /\ spawned[k] < Len(connList[k])
      /\ spawned' = [spawned EXCEPT ![k] = @ + 1]
      /\ next' = [next EXCEPT ![k] = Append(@, 1)]
      /\ UNCHANGED <<connections, state, packets, connList, started, writes>>
  BY DEF Spawn
<1>2. /\ spawned \in [Calls -> Nat] /\ DOMAIN next = Calls
      /\ next[k] \in [1..spawned[k] -> 1..Len(packets[k]) + 1] /\ Len(packets[k]) \in Nat
      /\ Len(connList[k]) \in Nat
  BY FanTypes
<1>3. /\ next'[k] = Append(next[k], 1) /\ spawned'[k] = spawned[k] + 1
      /\ \A l \in Calls \ {k} : next'[l] = next[l] /\ spawned'[l] = spawned[l]
      /\ DOMAIN next' = Calls /\ spawned' \in [Calls -> Nat]
  BY <1>1, <1>2
<1>4. /\ next'[k] \in [1..spawned'[k] -> 1..Len(packets[k]) + 1]
      /\ next'[k][spawned'[k]] = 1
      /\ \A w \in 1..spawned[k] : next'[k][w] = next[k][w]
  <2>1. next[k] \in Seq(1..Len(packets[k]) + 1) /\ Len(next[k]) = spawned[k]
    BY <1>2
  <2>2. 1 \in 1..Len(packets[k]) + 1
    BY <1>2
  <2>3. /\ Append(next[k], 1) \in Seq(1..Len(packets[k]) + 1)
        /\ Len(Append(next[k], 1)) = spawned[k] + 1
        /\ Append(next[k], 1)[spawned[k] + 1] = 1
        /\ \A w \in 1..spawned[k] : Append(next[k], 1)[w] = next[k][w]
    BY <2>1, <2>2, AppendProperties
  <2>4. Append(next[k], 1) \in [1..spawned[k] + 1 -> 1..Len(packets[k]) + 1]
    BY <2>3, LenProperties, Zenon
  <2>5. QED  BY <1>3, <2>3, <2>4, Zenon
<1>5. LoopTypes'
  <2>1. \A l \in Calls : /\ spawned'[l] <= Len(connList'[l])
                         /\ next'[l] \in [1..spawned'[l] -> 1..Len(packets'[l]) + 1]
    BY <1>1, <1>2, <1>3, <1>4, FanTypes
  <2>2. next' = [l \in Calls |-> next'[l]]
    BY <1>1, <1>3
  <2>3. QED  BY <1>1, <1>3, <2>1, <2>2 DEF FanInv, LoopTypes
<1>6. Passed'
  <2>1. ASSUME NEW l \in Calls, NEW w \in 1..spawned'[l],
               NEW j \in 1..Len(packets'[l]), j < next'[l][w]
        PROVE  <<connList'[l][w], j>> \in started'[l]
    <3>1. ~(j < 1)
      OBVIOUS
    <3>2. CASE l = k /\ w = spawned'[k]
      BY <2>1, <3>1, <3>2, <1>4
    <3>3. CASE ~(l = k /\ w = spawned'[k])
      <4>1. w \in 1..spawned[l] /\ next'[l][w] = next[l][w]
        <5>1. CASE l # k
          BY <5>1, <2>1, <1>3
        <5>2. CASE l = k
          <6>1. w \in 1..spawned[k] + 1 /\ w # spawned[k] + 1
            BY <5>2, <2>1, <3>3, <1>3
          <6>2. w \in 1..spawned[k]
            BY <6>1, <1>2
          <6>3. QED  BY <5>2, <6>2, <1>4
        <5>3. QED  BY <5>1, <5>2
      <4>2. QED  BY <4>1, <2>1, <1>1 DEF FanInv, Passed
    <3>4. QED  BY <3>2, <3>3
  <2>2. QED  BY <2>1 DEF Passed
<1>7. Fresh' /\ Awaited'
  BY <1>1, <1>3 DEF FanInv, Fresh, Awaited
<1>8. QED  BY <1>5, <1>6, <1>7 DEF FanInv

LEMMA StartSendKeeps ==
  ASSUME FanInv, BufferTypes', NEW k \in Calls, NEW w \in DOMAIN next[k], StartSend(k, w)
  PROVE  FanInv'
<1> DEFINE sent == <<connList[k][w], next[k][w]>>
<1>1. /\ next[k][w] <= Len(packets[k])
      /\ next' = [next EXCEPT ![k][w] = @ + 1]
      /\ started' = [started EXCEPT ![k] = @ \cup {sent}]
      /\ writes' = writes \cup {<<connList[k][w], packets[k][next[k][w]]>>}
      /\ UNCHANGED <<connections, state, packets, connList, spawned>>
  BY DEF StartSend, Recipient
<1>2. /\ spawned \in [Calls -> Nat] /\ DOMAIN next = Calls
      /\ next[k] \in [1..spawned[k] -> 1..Len(packets[k]) + 1]
      /\ Len(packets[k]) \in Nat /\ Len(packets[k]) <= MaxPackets /\ MaxPackets \in Nat
      /\ packets[k] \in Seq(Buffers) /\ connList[k] \in Seq(Conns)
      /\ spawned[k] <= Len(connList[k])
      /\ started \in [Calls -> SUBSET (Conns \X (1..MaxPackets))]
      /\ writes \subseteq Conns \X Buffers
  BY FanTypes
<1>3. w \in 1..spawned[k] /\ next[k][w] \in 1..Len(packets[k])
  BY <1>1, <1>2
<1>4. connList[k][w] \in Conns /\ packets[k][next[k][w]] \in Buffers
      /\ next[k][w] \in 1..MaxPackets
  BY <1>2, <1>3
<1>5. /\ next'[k] \in [1..spawned[k] -> 1..Len(packets[k]) + 1]
      /\ next'[k][w] = next[k][w] + 1
      /\ \A v \in 1..spawned[k] : v # w => next'[k][v] = next[k][v]
      /\ \A l \in Calls \ {k} : next'[l] = next[l]
      /\ DOMAIN next' = Calls
  <2>1. next'[k] = [next[k] EXCEPT ![w] = @ + 1] /\ DOMAIN next' = Calls
        /\ \A l \in Calls \ {k} : next'[l] = next[l]
    BY <1>1, <1>2
  <2>2. QED  BY <2>1, <1>2, <1>3
<1>6. /\ sent \in Conns \X (1..MaxPackets)
      /\ started' \in [Calls -> SUBSET (Conns \X (1..MaxPackets))]
      /\ started'[k] = started[k] \cup {sent}
      /\ \A l \in Calls \ {k} : started'[l] = started[l]
  BY <1>1, <1>2, <1>4, SMTT(30)
<1> HIDE DEF sent
<1>7. LoopTypes'
  <2>1. \A l \in Calls : /\ spawned'[l] <= Len(connList'[l])
                         /\ next'[l] \in [1..spawned'[l] -> 1..Len(packets'[l]) + 1]
    BY <1>1, <1>5, FanTypes
  <2>2. next' = [l \in Calls |-> next'[l]]
    BY <1>1, <1>2
  <2>3. writes' \subseteq Conns \X Buffers
    BY <1>1, <1>2, <1>4
  <2>4. QED  BY <1>1, <1>6, <2>1, <2>2, <2>3 DEF FanInv, LoopTypes
<1>8. Passed'
  <2>1. ASSUME NEW l \in Calls, NEW v \in 1..spawned'[l],
               NEW j \in 1..Len(packets'[l]), j < next'[l][v]
        PROVE  <<connList'[l][v], j>> \in started'[l]
    <3>1. CASE l = k /\ v = w /\ j = next[k][w]
      BY <3>1, <1>1, <1>6 DEF sent
    <3>2. CASE ~(l = k /\ v = w /\ j = next[k][w])
      <4>1. v \in 1..spawned[l] /\ j \in 1..Len(packets[l])
        BY <2>1, <1>1
      <4>2. j < next[l][v]
        BY <2>1, <3>2, <4>1, <1>2, <1>3, <1>5
      <4>3. <<connList[l][v], j>> \in started[l]
        BY <4>1, <4>2 DEF FanInv, Passed
      <4>4. QED  BY <4>3, <1>1, <1>6
    <3>3. QED  BY <3>1, <3>2
  <2>2. QED  BY <2>1 DEF Passed
<1>9. state[k] # "release"
  <2>1. state[k] = "release" => next[k][w] > Len(packets[k])
    BY <1>3, Zenon DEF FanInv, Awaited
  <2>2. QED  BY <2>1, <1>2, <1>3
<1>10. Fresh'
  BY <1>1, <1>5 DEF FanInv, Fresh
<1>11. Awaited'
  BY <1>1, <1>5, <1>9 DEF FanInv, Awaited
<1>12. QED  BY <1>7, <1>8, <1>10, <1>11 DEF FanInv

LEMMA AwaitKeeps ==
  ASSUME FanInv, BufferTypes', NEW k \in Calls, Await(k)
  PROVE  FanInv'
<1>1. /\ state' = [state EXCEPT ![k] = "release"] /\ spawned[k] = Len(connList[k])
      /\ \A w \in DOMAIN next[k] : next[k][w] > Len(packets[k])
      /\ UNCHANGED <<connections, packets, connList, spawned, next, started, writes>>
  BY DEF Await
<1>2. /\ state \in [Calls -> {"encode", "spawn", "release"}]
      /\ DOMAIN next[k] = 1..spawned[k]
  BY FanTypes
<1>3. /\ state'[k] = "release" /\ state' \in [Calls -> {"encode", "spawn", "release"}]
      /\ \A l \in Calls \ {k} : state'[l] = state[l]
  BY <1>1, <1>2
<1>4. LoopTypes'
  BY <1>1, <1>3 DEF FanInv, LoopTypes
<1>5. Fresh' /\ Passed' /\ Awaited'
  BY <1>1, <1>2, <1>3 DEF FanInv, Fresh, Passed, Awaited
<1>6. QED  BY <1>4, <1>5 DEF FanInv

LEMMA ReturnKeeps ==
  ASSUME FanInv, BufferTypes', NEW k \in Calls, Release(k)
  PROVE  FanInv'
<1>1. /\ state' = [state EXCEPT ![k] = "encode"] /\ packets' = [packets EXCEPT ![k] = <<>>]
      /\ connList' = [connList EXCEPT ![k] = <<>>]
      /\ spawned' = [spawned EXCEPT ![k] = 0] /\ next' = [next EXCEPT ![k] = <<>>]
      /\ started' = [started EXCEPT ![k] = {}]
      /\ UNCHANGED <<connections, writes>>
  BY DEF Release
<1>2. /\ state'[k] = "encode" /\ packets'[k] = <<>> /\ connList'[k] = <<>>
      /\ spawned'[k] = 0 /\ next'[k] = <<>>
      /\ \A l \in Calls \ {k} :
           /\ state'[l] = state[l] /\ packets'[l] = packets[l] /\ connList'[l] = connList[l]
           /\ spawned'[l] = spawned[l] /\ next'[l] = next[l] /\ started'[l] = started[l]
      /\ DOMAIN next' = Calls
  BY <1>1, FanTypes
<1>3. LoopTypes'
  <2>1. <<>> \in [1..0 -> 1..Len(<<>>) + 1] /\ Len(<<>>) = 0 /\ <<>> \in Seq(Conns)
    OBVIOUS
  <2>2. ASSUME NEW l \in Calls
        PROVE  /\ spawned'[l] <= Len(connList'[l])
               /\ next'[l] \in [1..spawned'[l] -> 1..Len(packets'[l]) + 1]
    <3>1. CASE l = k
      BY <3>1, <1>2, <2>1
    <3>2. CASE l # k
      BY <3>2, <1>2, FanTypes
    <3>3. QED  BY <3>1, <3>2
  <2>3. next' = [l \in Calls |-> next'[l]]
    BY <1>1, <1>2
  <2>4. /\ state' \in [Calls -> {"encode", "spawn", "release"}]
        /\ connList' \in [Calls -> Seq(Conns)] /\ spawned' \in [Calls -> Nat]
        /\ started' \in [Calls -> SUBSET (Conns \X (1..MaxPackets))]
    BY <1>1, <2>1, FanTypes
  <2>5. QED  BY <1>1, <2>2, <2>3, <2>4 DEF FanInv, LoopTypes
<1>4. Fresh' /\ Passed' /\ Awaited'
  BY <1>1, <1>2 DEF FanInv, Fresh, Passed, Awaited
<1>5. QED  BY <1>3, <1>4 DEF FanInv

LEMMA FanStepKeeps == FanInv /\ BufferTypes' /\ [Next]_vars => FanInv'
<1>1. SUFFICES ASSUME FanInv, BufferTypes', [Next]_vars PROVE FanInv'
  OBVIOUS
<1>2. connections \in Seq(Conns) /\ writes \subseteq Conns \X Buffers
  BY <1>1, FanTypes
<1>3. CASE UNCHANGED vars
  BY <1>1, <1>2, <1>3, ListKeeps DEF vars
<1>4. CASE \E w \in writes : Written(w)
  BY <1>1, <1>2, <1>4, ListKeeps DEF Written
<1>5. ASSUME NEW k \in Calls, NewPacketFails(k) PROVE FanInv'
  BY <1>1, <1>2, <1>5, ListKeeps DEF NewPacketFails
<1>6. QED
  BY <1>1, <1>3, <1>4, <1>5, JoinLeaveKeep, EncodeKeeps, ReadListKeeps, SpawnKeeps,
     StartSendKeeps, AwaitKeeps, ReturnKeeps DEF Next

\* Every reachable state satisfies the invariant of delivery.
THEOREM FanInvariance == Spec => []FanInv
<1>1. IInv /\ FanInv /\ [Next]_vars => (IInv /\ FanInv)'
  BY StepKeeps, BufferTypesKept, FanStepKeeps
<1>2. Init => IInv /\ FanInv
  BY InitHolds, FanInitHolds
<1>3. QED  BY <1>1, <1>2, PTL DEF Spec

\* Every variable of Account.Send has its type, and no goroutine is beyond the
\* packets or the connections there are.
THEOREM TypeCorrect == Spec => []TypeOK
<1>1. FanInv => TypeOK
  BY DEF FanInv, BufferTypes, LoopTypes, TypeOK
<1>2. QED  BY <1>1, FanInvariance, PTL

\* When Account.Send stops waiting, every packet is on its way to every
\* connection that was in the list, whoever has come and gone meanwhile.
THEOREM EverySendStarted == Spec => []FanOut
<1>1. ASSUME FanInv, NEW k \in Calls, state[k] = "release",
             NEW i \in DOMAIN connList[k], NEW j \in DOMAIN packets[k]
      PROVE  <<connList[k][i], j>> \in started[k]
  <2>1. i \in 1..Len(connList[k]) /\ j \in 1..Len(packets[k]) /\ Len(packets[k]) \in Nat
    BY <1>1, FanTypes
  <2>2. i \in 1..spawned[k] /\ next[k][i] > Len(packets[k]) /\ next[k][i] \in Nat
    BY <1>1, <2>1, FanTypes DEF FanInv, Awaited
  <2>3. j < next[k][i]
    BY <2>1, <2>2
  <2>4. QED  BY <1>1, <2>1, <2>2, <2>3 DEF FanInv, Passed
<1>2. FanInv => FanOut
  BY <1>1 DEF FanOut
<1>3. QED  BY <1>2, FanInvariance, PTL
-----------------------------------------------------------------------------
(* Nothing is sent twice.                                                  *)

\* No call of Account.Send starts the send of a packet to a connection that it
\* has started before, whoever joins and leaves and whichever of its
\* goroutines runs.
NothingSentTwice ==
  [][\A k \in Calls : \A w \in DOMAIN next[k] :
       StartSend(k, w) => <<Recipient(k, w), next[k][w]>> \notin started[k]]_vars

Distinct(list) ==
  \A i, j \in 1..Len(list) : list[i] = list[j] => i = j

\* A connection is listed once, and what was started is what some goroutine of
\* the call has passed.
OnceInv ==
  /\ Distinct(connections)
  /\ \A k \in Calls : Distinct(connList[k])
  /\ \A k \in Calls : \A s \in started[k] : \E w \in 1..spawned[k] :
       s[1] = connList[k][w] /\ s[2] < next[k][w]

LEMMA DistinctWithout ==
  ASSUME NEW s \in Seq(Conns), Distinct(s), NEW i \in 1..Len(s)
  PROVE  Distinct(RemoveAt(s, i))
<1> DEFINE l == SubSeq(s, 1, i - 1)  r == SubSeq(s, i + 1, Len(s))  t == l \o r
<1>1. Len(s) \in Nat /\ i \in Nat /\ i >= 1 /\ i <= Len(s)
  OBVIOUS
<1>2. /\ l \in Seq(Conns) /\ Len(l) = i - 1
      /\ \A a \in 1..(i - 1) : l[a] = s[a]
  BY <1>1
<1>3. /\ r \in Seq(Conns) /\ Len(r) = Len(s) - i
      /\ \A a \in 1..(Len(s) - i) : r[a] = s[i + a]
  BY <1>1
<1> HIDE DEF l, r
<1>4. /\ t \in Seq(Conns) /\ Len(t) = Len(l) + Len(r)
      /\ \A a \in 1..(Len(l) + Len(r)) : t[a] = IF a <= Len(l) THEN l[a] ELSE r[a - Len(l)]
  BY <1>2, <1>3, ConcatProperties, Zenon
<1> HIDE DEF t
<1>5. ASSUME NEW a \in 1..(Len(s) - 1)
      PROVE  t[a] = IF a < i THEN s[a] ELSE s[a + 1]
  <2>1. CASE a < i
    <3>1. a \in 1..(i - 1) /\ a <= i - 1 /\ a \in 1..((i - 1) + (Len(s) - i))
      BY <2>1, <1>1
    <3>2. QED  BY <2>1, <3>1, <1>2, <1>3, <1>4
  <2>2. CASE ~(a < i)
    <3>1. /\ a - (i - 1) \in 1..(Len(s) - i) /\ ~(a <= i - 1)
          /\ a \in 1..((i - 1) + (Len(s) - i)) /\ i + (a - (i - 1)) = a + 1
      BY <2>2, <1>1
    <3>2. QED  BY <2>2, <3>1, <1>2, <1>3, <1>4
  <2>3. QED  BY <2>1, <2>2
<1>6. Len(t) = Len(s) - 1
  BY <1>1, <1>2, <1>3, <1>4
<1>7. Distinct(t)
  <2>1. SUFFICES ASSUME NEW a \in 1..(Len(s) - 1), NEW b \in 1..(Len(s) - 1), t[a] = t[b]
                 PROVE  a = b
    BY <1>6 DEF Distinct
  <2> DEFINE at(x) == IF x < i THEN x ELSE x + 1
  <2>2. at(a) \in 1..Len(s) /\ at(b) \in 1..Len(s) /\ (at(a) = at(b) => a = b)
    BY <1>1
  <2>3. t[a] = s[at(a)] /\ t[b] = s[at(b)]
    BY <1>5
  <2> HIDE DEF at
  <2>4. QED  BY <2>1, <2>2, <2>3 DEF Distinct
<1>8. QED  BY <1>7 DEF RemoveAt, t, l, r

LEMMA OnceStepKeeps ==
  ASSUME FanInv, OnceInv, [Next]_vars
  PROVE  OnceInv'
<1>1. /\ connections \in Seq(Conns) /\ connList \in [Calls -> Seq(Conns)]
      /\ spawned \in [Calls -> Nat] /\ DOMAIN next = Calls
      /\ started \in [Calls -> SUBSET (Conns \X (1..MaxPackets))]
      /\ \A k \in Calls : /\ Len(packets[k]) \in Nat
                          /\ next[k] \in [1..spawned[k] -> 1..Len(packets[k]) + 1]
  BY FanTypes
<1>2. ASSUME NEW c \in Conns, Join(c) \/ Leave(c) PROVE OnceInv'
  <2>1. UNCHANGED <<connList, spawned, next, started>>
    BY <1>2 DEF Join, Leave, callVars
  <2>2. Distinct(connections)'
    <3>1. CASE Join(c)
      <4>1. /\ connections' = Append(connections, c)
            /\ \A i \in 1..Len(connections) : connections[i] # c
        BY <3>1, <1>1 DEF Join, Listed
      <4>2. /\ Len(connections') = Len(connections) + 1
            /\ connections'[Len(connections) + 1] = c
            /\ \A i \in 1..Len(connections) : connections'[i] = connections[i]
        BY <4>1, <1>1
      <4>3. QED  BY <4>1, <4>2, <1>1 DEF OnceInv, Distinct
    <3>2. CASE Leave(c)
      <4>1. PICK i \in DOMAIN connections : connections' = RemoveAt(connections, i)
        BY <3>2 DEF Leave
      <4>2. i \in 1..Len(connections) /\ Distinct(connections)
        BY <4>1, <1>1 DEF OnceInv
      <4>3. Distinct(RemoveAt(connections, i))
        BY <4>2, <1>1, DistinctWithout
      <4>4. QED  BY <4>1, <4>3 DEF Distinct
    <3>3. QED  BY <1>2, <3>1, <3>2
  <2>3. QED  BY <2>1, <2>2 DEF OnceInv, Distinct
<1>3. ASSUME NEW k \in Calls, ReadList(k) PROVE OnceInv'
  <2>1. /\ state[k] = "encode" /\ connList' = [connList EXCEPT ![k] = connections]
        /\ UNCHANGED <<connections, spawned, next, started>>
    BY <1>3 DEF ReadList
  <2>2. 1..spawned[k] = {} /\ started[k] = {}
    BY <2>1 DEF FanInv, Fresh, OnceInv
  <2>3. QED  BY <2>1, <2>2, <1>1 DEF OnceInv, Distinct
<1>4. ASSUME NEW k \in Calls, Spawn(k) PROVE OnceInv'
  <2>1. /\ spawned' = [spawned EXCEPT ![k] = @ + 1]
        /\ next' = [next EXCEPT ![k] = Append(@, 1)]
        /\ UNCHANGED <<connections, connList, started>>
    BY <1>4 DEF Spawn
  <2>2. \A l \in Calls : \A w \in 1..spawned[l] :
          w \in 1..spawned'[l] /\ next'[l][w] = next[l][w]
    <3>0. /\ spawned[k] \in Nat /\ Len(packets[k]) \in Nat
          /\ next[k] \in [1..spawned[k] -> 1..Len(packets[k]) + 1]
      BY <1>1
    <3>1. next[k] \in Seq(1..Len(packets[k]) + 1) /\ Len(next[k]) = spawned[k]
      BY <3>0
    <3>2. 1 \in 1..Len(packets[k]) + 1
      BY <3>0
    <3>3. \A w \in 1..spawned[k] : Append(next[k], 1)[w] = next[k][w]
      BY <3>1, <3>2, AppendProperties
    <3>4. next'[k] = Append(next[k], 1) /\ \A l \in Calls \ {k} : next'[l] = next[l]
      BY <2>1, <1>1
    <3>5. \A l \in Calls : \A w \in 1..spawned[l] : w \in 1..spawned'[l]
      BY <2>1, <1>1
    <3>6. QED  BY <3>3, <3>4, <3>5
  <2>3. Distinct(connections)' /\ \A l \in Calls : Distinct(connList[l])'
    BY <2>1 DEF OnceInv, Distinct
  <2>4. ASSUME NEW l \in Calls, NEW s \in started'[l]
        PROVE  \E w \in 1..spawned'[l] : s[1] = connList'[l][w] /\ s[2] < next'[l][w]
    <3>1. PICK w \in 1..spawned[l] : s[1] = connList[l][w] /\ s[2] < next[l][w]
      BY <2>1, <2>4 DEF OnceInv
    <3>2. QED  BY <3>1, <2>1, <2>2
  <2>5. QED  BY <2>3, <2>4 DEF OnceInv
<1>5. ASSUME NEW k \in Calls, NEW w \in DOMAIN next[k], StartSend(k, w) PROVE OnceInv'
  <2> DEFINE sent == <<connList[k][w], next[k][w]>>
  <2>1. /\ next' = [next EXCEPT ![k][w] = @ + 1]
        /\ started' = [started EXCEPT ![k] = @ \cup {sent}]
        /\ UNCHANGED <<connections, connList, spawned>>
    BY <1>5 DEF StartSend, Recipient
  <2>2. /\ w \in 1..spawned[k] /\ next[k][w] \in Nat
        /\ next'[k] = [next[k] EXCEPT ![w] = @ + 1]
        /\ \A l \in Calls \ {k} : next'[l] = next[l] /\ started'[l] = started[l]
        /\ started'[k] = started[k] \cup {sent}
    BY <2>1, <1>1
  <2>3. ASSUME NEW l \in Calls, NEW v \in 1..spawned[l]
        PROVE  next[l][v] \in Nat /\ next'[l][v] \in Nat /\ next[l][v] <= next'[l][v]
    <3>1. next[l] \in [1..spawned[l] -> 1..Len(packets[l]) + 1] /\ Len(packets[l]) \in Nat
      BY <1>1
    <3>2. next[l][v] \in Nat
      <4>1. next[l][v] \in 1..Len(packets[l]) + 1
        BY <3>1, Zenon
      <4>2. \A n \in Nat : 1..n + 1 \subseteq Nat
        OBVIOUS
      <4>3. QED  BY <3>1, <4>1, <4>2
    <3>3. CASE l = k /\ v = w
      BY <3>2, <3>3, <3>1, <2>2
    <3>4. CASE l = k /\ v # w
      BY <3>2, <3>4, <3>1, <2>2
    <3>5. CASE l # k
      BY <3>2, <3>5, <2>2
    <3>6. QED  BY <3>3, <3>4, <3>5
  <2>4. next'[k][w] = next[k][w] + 1
    BY <2>2, <1>1
  <2>5. ASSUME NEW l \in Calls, NEW s \in started'[l]
        PROVE  \E v \in 1..spawned'[l] : s[1] = connList'[l][v] /\ s[2] < next'[l][v]
    <3>1. CASE s \in started[l]
      <4>1. PICK v \in 1..spawned[l] : s[1] = connList[l][v] /\ s[2] < next[l][v]
        BY <3>1 DEF OnceInv
      <4>2. s[2] \in Nat
        BY <3>1, <1>1
      <4>3. s[2] < next'[l][v]
        <5>1. next[l][v] \in Nat /\ next'[l][v] \in Nat /\ next[l][v] <= next'[l][v]
          BY <4>1, <2>3
        <5>2. QED  BY <4>1, <4>2, <5>1
      <4>4. QED  BY <4>1, <4>3, <2>1
    <3>2. CASE s \notin started[l]
      <4>1. l = k /\ s = sent
        BY <3>2, <2>5, <2>2
      <4>2. s[1] = connList'[k][w] /\ s[2] < next'[k][w]
        BY <4>1, <2>1, <2>2, <2>4
      <4>3. QED  BY <4>1, <4>2, <2>1, <2>2
    <3>3. QED  BY <3>1, <3>2
  <2>6. QED  BY <2>1, <2>5 DEF OnceInv, Distinct
<1>6. ASSUME NEW k \in Calls, Release(k) PROVE OnceInv'
  <2>1. /\ connList' = [connList EXCEPT ![k] = <<>>]
        /\ spawned' = [spawned EXCEPT ![k] = 0] /\ next' = [next EXCEPT ![k] = <<>>]
        /\ started' = [started EXCEPT ![k] = {}] /\ connections' = connections
    BY <1>6 DEF Release
  <2>2. /\ connList'[k] = <<>> /\ started'[k] = {} /\ 1..Len(<<>>) = {}
        /\ \A l \in Calls \ {k} :
             /\ connList'[l] = connList[l] /\ started'[l] = started[l]
             /\ spawned'[l] = spawned[l] /\ next'[l] = next[l]
    BY <2>1, <1>1
  <2>3. QED  BY <2>1, <2>2 DEF OnceInv, Distinct
<1>7. CASE \/ UNCHANGED vars \/ \E w \in writes : Written(w)
           \/ \E k \in Calls : NewPacket(k) \/ NewPacketFails(k) \/ Await(k)
  <2>1. UNCHANGED <<connections, connList, spawned, next, started>>
    BY <1>7 DEF vars, callVars, Written, NewPacket, NewPacketFails, Await
  <2>2. QED  BY <2>1 DEF OnceInv, Distinct
<1>8. QED  BY <1>2, <1>3, <1>4, <1>5, <1>6, <1>7 DEF Next

\* Account.Send starts each send once: the connections of its list are distinct
\* and each goroutine passes a packet once.
THEOREM EverySendOnce == Spec => NothingSentTwice
<1> DEFINE Once ==
      \A k \in Calls : \A w \in DOMAIN next[k] :
        StartSend(k, w) => <<Recipient(k, w), next[k][w]>> \notin started[k]
<1>1. Init => OnceInv
  <2>1. SUFFICES ASSUME Init PROVE OnceInv
    OBVIOUS
  <2>2. /\ connections = <<>> /\ \A k \in Calls : connList[k] = <<>> /\ started[k] = {}
        /\ 1..Len(<<>>) = {}
    BY <2>1 DEF Init
  <2>3. QED  BY <2>2 DEF OnceInv, Distinct
<1>2. FanInv /\ OnceInv /\ [Next]_vars => OnceInv'
  BY OnceStepKeeps
<1>3. FanInv /\ OnceInv => Once
  <2>1. SUFFICES ASSUME FanInv, OnceInv, NEW k \in Calls, NEW w \in DOMAIN next[k],
                        <<connList[k][w], next[k][w]>> \in started[k]
                 PROVE  FALSE
    BY DEF Recipient
  <2>2. PICK v \in 1..spawned[k] : connList[k][w] = connList[k][v] /\ next[k][w] < next[k][v]
    BY <2>1 DEF OnceInv
  <2>3. /\ w \in 1..spawned[k] /\ spawned[k] <= Len(connList[k]) /\ spawned[k] \in Nat
        /\ connList[k] \in Seq(Conns) /\ next[k][w] \in Nat
    BY <2>1, FanTypes
  <2>4. w \in 1..Len(connList[k]) /\ v \in 1..Len(connList[k])
    BY <2>2, <2>3
  <2>5. w = v
    BY <2>1, <2>2, <2>4 DEF OnceInv, Distinct
  <2>6. QED  BY <2>2, <2>3, <2>5
<1>4. FanInv /\ OnceInv /\ [Next]_vars => [Once]_vars
  BY <1>3
<1>5. Spec => [][Once]_vars
  BY <1>1, <1>2, <1>4, FanInvariance, PTL DEF Spec
<1>6. QED  BY <1>5 DEF NothingSentTwice
=============================================================================
