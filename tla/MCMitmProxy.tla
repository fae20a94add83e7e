---------------------------- MODULE MCMitmProxy ----------------------------
(* Model values for checking MitmProxy.  Two slots are enough for a handler*)
(* that outlives its request to meet the next; no symmetry, for liveness.  *)
EXTENDS MitmProxy
=============================================================================
