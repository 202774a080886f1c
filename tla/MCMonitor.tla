------------------------------ MODULE MCMonitor ------------------------------
(* Small instances of Monitor for TLC. *)
EXTENDS Monitor, TLC

CONSTANTS press, level      \* messages

\* No property and no action tells two messages apart.
MsgSymmetry == Permutations(Msg)

\* monitor as it is left running; monitor --file with --no-dedupe.
Live   == {[lossless |-> FALSE, dedupe |-> TRUE]}
Replay == {[lossless |-> TRUE, dedupe |-> FALSE]}
Both   == Live \cup Replay
=============================================================================
