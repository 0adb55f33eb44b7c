------------------------------ MODULE MCBridge ------------------------------
(* Instances of Bridge for TLC.                                             *)
EXTENDS Bridge

One == {"strike"}
Two == {"move", "strike"}
=============================================================================
