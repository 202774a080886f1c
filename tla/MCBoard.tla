------------------------------ MODULE MCBoard ------------------------------
(***************************************************************************)
(* Listener boards with either of the two radios the component can be      *)
(* configured with: SX1262, with MQTT and the host behind it (Capture), or *)
(* CC1101.  The half that was not chosen stands still.                     *)
(***************************************************************************)
EXTENDS Capture, Cc1101

VARIABLE radio

boardVars == <<captureVars, vars, radio>>

BoardInit == radio \in {"sx1262", "cc1101"} /\ CaptureInit /\ Init

Sx1262(A) == radio = "sx1262" /\ A /\ UNCHANGED <<vars, radio>>
Cc1101Board(A) == radio = "cc1101" /\ A /\ UNCHANGED <<captureVars, radio>>

BoardNext == Sx1262(CaptureNext) \/ Cc1101Board(Next)
BoardSpec ==
  /\ BoardInit /\ [][BoardNext]_boardVars
  /\ WF_boardVars(Cc1101Board(Byte)) /\ WF_boardVars(Cc1101Board(TaskStep))
  /\ SF_boardVars(Cc1101Board(Drain)) /\ SF_boardVars(Cc1101Board(HealthCheck))
  /\ SF_boardVars(Cc1101Board(VerifyRegisters))
=============================================================================
