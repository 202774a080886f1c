------------------------------ MODULE MCFusion ------------------------------
(* Small instances of Fusion for TLC. *)
EXTENDS Fusion

CONSTANTS press, level      \* messages
=============================================================================
