---------------------------- MODULE MCBroadcast ----------------------------
(* Symmetry for checking Broadcast: no variable orders the connections,    *)
(* the calls or the buffers but the list, which may have any order.        *)
EXTENDS Broadcast, TLC

Symmetry == Permutations(Conns) \cup Permutations(Calls) \cup Permutations(Buffers)
=============================================================================
