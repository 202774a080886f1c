----------------------------- MODULE MCInjector -----------------------------
(* Small instances of Injector for TLC. *)
EXTENDS Injector

CONSTANTS pressA, levelA, pressB, replyA, pressX, modemCmd,   \* messages
          devA, devB, stranger, plm                           \* addresses

MCDevice == {devA, devB, stranger, plm}
MCKnown  == {devA, devB, plm}

MCSenderOf ==
    [k \in Key |-> CASE k \in {pressA, levelA, replyA} -> devA
                     [] k = pressB -> devB
                     [] k = pressX -> stranger
                     [] k = modemCmd -> plm]

MCTypeOf ==
    [k \in Key |-> CASE k \in {pressA, pressB, pressX, modemCmd} -> "group"
                     [] k = levelA -> "direct"
                     [] k = replyA -> "reply"]
=============================================================================
