------------------------------ MODULE MCClient ------------------------------
(* Instances of Client for TLC.                                             *)
EXTENDS Client

One == {"strike"}
Two == {"move", "strike"}
=============================================================================
