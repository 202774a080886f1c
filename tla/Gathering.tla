------------------------------ MODULE Gathering ------------------------------
(***************************************************************************)
(* What a component promises that gathers the copies of messages and tells *)
(* of them in records: of each copy it tells once, or gives it up for lost *)
(* (late in one, dropped in the other); a record that was told does not    *)
(* change and shares no copy with another.                                 *)
(* A copy may wait for ever, and where telling can fail it may go untold   *)
(* without being given up.                                                 *)
(*                                                                         *)
(* fusion.Fusion promises this of its events (Fusion!Gathered), and        *)
(* cli.monitor_main of its log (Monitor!Gathered).                         *)
(***************************************************************************)
CONSTANT MayFail    \* telling can fail

VARIABLES
    heard,      \* the copies that came in
    waiting,    \* those that are still to be told of
    told,       \* the records told: a set of sets of copies
    lost        \* the copies that were given up

vars == <<heard, waiting, told, lost>>

Init == heard = {} /\ waiting = {} /\ told = {} /\ lost = {}

\* A new copy comes in, to wait or to be given up.
Hear ==
    \E c \in heard' \ heard :
        /\ heard' = heard \cup {c}
        /\ \/ waiting' = waiting \cup {c} /\ UNCHANGED lost
           \/ lost' = lost \cup {c} /\ UNCHANGED waiting
        /\ UNCHANGED told

Tell ==
    \E S \in SUBSET waiting :
        /\ S # {}
        /\ told' = told \cup {S} /\ waiting' = waiting \ S
        /\ UNCHANGED <<heard, lost>>

Lose ==
    \E S \in SUBSET waiting :
        /\ lost' = lost \cup S /\ waiting' = waiting \ S
        /\ UNCHANGED <<heard, told>>

\* Records that were to be told are not.
Fail == MayFail /\ waiting' \subseteq waiting /\ UNCHANGED <<heard, told, lost>>

Next == Hear \/ Tell \/ Lose \/ Fail

Spec == Init /\ [][Next]_vars
=============================================================================
