---------------------------- MODULE MCConnection ----------------------------
(* Model values for checking Connection.  No symmetry: most of what is     *)
(* checked is liveness.                                                    *)
EXTENDS Connection
=============================================================================
