------------------------------- MODULE MCMesh -------------------------------
(* Small instances of Mesh for TLC. *)
EXTENDS Mesh

CONSTANTS pressA, pressX, modemCmd,     \* messages
          devA, stranger, plm           \* addresses

MCDevice   == {devA, stranger, plm}
MCSenderOf == [k \in Key |-> CASE k = pressA -> devA
                               [] k = pressX -> stranger
                               [] k = modemCmd -> plm]
MCTypeOf   == [k \in Key |-> "group"]
=============================================================================
