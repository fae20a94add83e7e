------------------------ MODULE MCClientConnection ------------------------
(* ClientConnection on a small instance; no symmetry, for liveness.        *)
EXTENDS ClientConnection
=============================================================================
