-------------------------- MODULE MCStreamSession --------------------------
(* Model values for checking StreamSession.  No symmetry, for liveness.    *)
EXTENDS StreamSession
=============================================================================
