------------------------------ MODULE MCRadio ------------------------------
(***************************************************************************)
(* A receiver on the host, on the backend it was started with: a dongle    *)
(* (Watchdog) or an SDR (SdrReader).  The half that was not chosen stands  *)
(* still.                                                                  *)
(***************************************************************************)
EXTENDS Watchdog, SdrReader

VARIABLE backend

radioVars == <<watchdogVars, vars, backend>>

Packet(a) == [at |-> a, len |-> 3, sync |-> TRUE]
Run(a, n) == [at |-> a, len |-> n, sync |-> FALSE]
\* Packets back to back, at every offset against the windows, and runs
\* shorter and longer than the overlap.
SomeAirs == {{Packet(a), Packet(a + 3)} : a \in 0..6} \cup {{Run(a, n)} : a \in 0..7, n \in {2, 5}}

RadioInit ==
  /\ backend \in {"rfcat", "rtlsdr"}
  /\ WatchdogInit /\ Init
  /\ backend = "rfcat" => ~lossless /\ air = CHOOSE carriers \in Airs : TRUE

Dongle(A) == backend = "rfcat" /\ A /\ UNCHANGED <<vars, backend>>
Sdr(A) == backend = "rtlsdr" /\ A /\ UNCHANGED <<watchdogVars, backend>>

RadioNext == Dongle(WatchdogNext) \/ Sdr(Next)
RadioSpec ==
  /\ RadioInit /\ [][RadioNext]_radioVars
  /\ WF_radioVars(Dongle(Loop)) /\ WF_radioVars(Dongle(Decode))
  /\ WF_radioVars(Sdr(Read \/ PutChunk \/ DropChunk \/ ReadEnd \/ EndReader))
  /\ WF_radioVars(Sdr(Get \/ GetEnd))
=============================================================================
