---------------------------- MODULE Watchdog ----------------------------
(***************************************************************************)
(* The receive loop of cli.py:monitor_main over a RfcatRadio: receive,     *)
(* idle re-arm, silence watchdog, heal.  Four timers, three recoveries and *)
(* a worker thread that says when a packet was last decoded.  One pass of  *)
(* the loop is one unit of time, the receive timeout.  Ages saturate where *)
(* no comparison of the code can tell them apart any more, so time is      *)
(* not bounded; what is bounded is the number of faults.                   *)
(***************************************************************************)
EXTENDS Naturals

CONSTANTS
  IdleRearm,     \* --idle-rearm, in passes
  MaxSilence,    \* --max-silence
  DiagAfter,     \* --diag-after
  MaxUsbErrors,  \* RfcatRadio.max_usb_errors
  MaxFaults,     \* bound: faults of the dongle and of single USB calls
  HealFaults     \* ways a heal can fail: "open", "common", "configure"

ASSUME WatchdogAssumption ==
  /\ IdleRearm \in Nat \ {0} /\ MaxSilence \in Nat \ {0} /\ DiagAfter \in Nat
  /\ MaxUsbErrors \in Nat \ {0} /\ MaxFaults \in Nat
  /\ HealFaults \subseteq {"open", "common", "configure"}

VARIABLES
  usb, radio, tuned, deaf, carrier, \* the dongle: does USB answer, RX or IDLE, _common applied,
                                    \* loops gone stale, PKTSTATUS says a packet arrives
  dev, timeouts, trouble,           \* RfcatRadio: handle open, _timeouts, what rflib's threads report
  pc, got,                          \* the loop: place, what receive() returned
  sinceBlock, quiet, sinceAction, sinceDiag, \* now minus last_block, last_packet, ...
  queued,                           \* block waiting for the worker
  faults,                           \* bound on faults
  sick, deafFor                     \* history, see the properties

dongle == <<usb, radio, tuned, deaf, carrier>>
driver == <<dev, timeouts, trouble>>
timers == <<sinceBlock, quiet, sinceAction, sinceDiag>>
watchdogVars == <<dongle, driver, pc, got, timers, queued, faults, sick, deafFor>>

Up(x, limit) == IF x < limit THEN x + 1 ELSE limit
QuietLimit == IF DiagAfter > MaxSilence THEN DiagAfter ELSE MaxSilence + 1
\* How long the radio may stay deaf: what the silence watchdog waits for,
\* counted from the last decoded packet or the last action, and one pass.
DeafLimit == MaxSilence + 1

Answers == dev /\ usb = "up"
Hearing == Answers /\ radio = "rx" /\ tuned /\ ~deaf

WatchdogInit ==
  /\ usb = "up" /\ radio = "rx" /\ tuned = TRUE /\ deaf = FALSE /\ carrier = FALSE
  /\ dev = TRUE /\ timeouts = 0 /\ trouble = "none"
  /\ pc = "receive" /\ got = "none"
  /\ sinceBlock = 0 /\ quiet = 0 /\ sinceAction = 0 /\ sinceDiag = DiagAfter
  /\ queued = "none" /\ faults = MaxFaults
  /\ sick = FALSE /\ deafFor = 0

Fault == faults > 0 /\ faults' = faults - 1 /\ deafFor' = 0

\* A USB call on the dongle: it raises when the dongle is not there or does
\* not answer, and may raise once in a while when it does.
CallFails ==
  /\ \/ ~Answers /\ UNCHANGED <<faults, deafFor>>
     \/ Answers /\ Fault
  /\ sick' = TRUE
CallWorks == Answers /\ UNCHANGED <<faults, deafFor, sick>>

\* The dongle stops answering on its bulk endpoint.
Stick ==
  /\ Fault /\ usb = "up" /\ usb' = "stuck"
  /\ UNCHANGED <<radio, tuned, deaf, carrier, driver, pc, got, timers, queued, sick>>

\* rflib's threads count an error, or set reset_event / give up in resetup().
UsbTrouble ==
  /\ trouble' \in {"errors", "resetup"}
  /\ \/ usb = "stuck" /\ UNCHANGED <<faults, deafFor>>
     \/ usb = "up" /\ Fault /\ trouble' = "errors"
  /\ sick' = TRUE
  /\ UNCHANGED <<dongle, dev, timeouts, pc, got, timers, queued>>

\* The CC1111 goes deaf in RX: no packets, though it may false-sync on noise.
Deafen ==
  /\ Fault /\ ~deaf /\ deaf' = TRUE
  /\ UNCHANGED <<usb, radio, tuned, carrier, driver, pc, got, timers, queued, sick>>

CarrierChanges ==
  /\ carrier' = ~carrier
  /\ UNCHANGED <<usb, radio, tuned, deaf, driver, pc, got, timers, queued, faults,
                 sick, deafFor>>

(***************************************************************************)
(* RfcatRadio.receive.                                                     *)
(***************************************************************************)
Wedged(n) ==
  \/ ~dev
  \/ trouble = "resetup"
  \/ n >= MaxUsbErrors /\ trouble = "errors"

\* Mutant: rflib's errors are counted since the start.
MutBlockKeepsErrors(kind) ==
  /\ Answers /\ radio = "rx" /\ (kind = "packet" => Hearing)
  /\ timeouts' = 0 /\ trouble' = trouble
  /\ sick' = FALSE /\ got' = kind /\ pc' = "idle"
  /\ UNCHANGED <<faults, deafFor>>

BlockArrives(kind) ==
  /\ Answers /\ radio = "rx" /\ (kind = "packet" => Hearing)
  /\ timeouts' = 0
  /\ trouble' = IF trouble = "errors" THEN "none" ELSE trouble  \* _usb_errors_ok = usb_errors
  /\ sick' = FALSE
  /\ got' = kind /\ pc' = "idle"
  /\ UNCHANGED <<faults, deafFor>>

NoBlock(raised) ==
  /\ timeouts' = Up(timeouts, MaxUsbErrors)
  /\ got' = "none" /\ trouble' = trouble
  /\ pc' = CASE Wedged(timeouts') -> "heal"
             [] ~Wedged(timeouts') /\ raised -> "crashed"
             [] OTHER -> "idle"

Receive ==
  /\ pc = "receive"
  /\ \/ \E kind \in {"packet", "junk"} : BlockArrives(kind)
     \/ dev /\ NoBlock(FALSE) /\ UNCHANGED <<faults, deafFor, sick>>  \* ChipconUsbTimeoutException
     \/ CallFails /\ NoBlock(TRUE)
  /\ UNCHANGED <<dongle, dev, timers, queued>>

(***************************************************************************)
(* RfcatRadio.heal, called by receive ("heal": an exception ends the loop) *)
(* or by heal_now, which catches it.  The handle is dropped before a new   *)
(* one is opened; the registers of a reset dongle are unset until _common. *)
(***************************************************************************)
\* The reset, from another process or this one, ends every deaf spell.
UsbReset(works) == usb' = (IF works THEN "up" ELSE "stuck") /\ deaf' = FALSE

\* rflib's threads, and what they have reported, go with the instance.
Release == trouble' = "none"

Open(works) == dev' = works
Common(works) == tuned' = works

Heal ==
  /\ pc \in {"heal", "healNow"}
  /\ \E failed \in HealFaults \cup {"nowhere"} :
       /\ IF failed = "nowhere" THEN UNCHANGED <<faults, deafFor>> ELSE Fault
       /\ UsbReset(failed # "open") /\ Release /\ Open(failed # "open")
       /\ Common(failed \notin {"open", "common"})
       /\ radio' = IF failed = "nowhere" THEN "rx" ELSE "idle"
       /\ timeouts' = IF failed \in {"open", "common"} THEN timeouts ELSE 0
       /\ sick' = (failed # "nowhere")
       /\ pc' = IF pc = "healNow" THEN "put" ELSE IF failed = "nowhere" THEN "idle" ELSE "crashed"
  /\ quiet' = IF pc = "healNow" THEN 0 ELSE Up(quiet, QuietLimit)
  /\ sinceBlock' = Up(sinceBlock, IdleRearm)
  /\ sinceAction' = Up(sinceAction, MaxSilence)
  /\ sinceDiag' = Up(sinceDiag, DiagAfter)
  /\ UNCHANGED <<carrier, got, queued>>

(***************************************************************************)
(* Idle re-arm: look at PKTSTATUS, then strobe IDLE and RX.                *)
(***************************************************************************)
IdleCheck ==
  /\ pc = "idle"
  /\ \/ /\ got = "none" /\ sinceBlock >= IdleRearm
        /\ \/ CallFails /\ pc' = "watch" /\ sinceBlock' = 0
           \/ CallWorks /\ pc' = (IF carrier THEN "watch" ELSE "strobe") /\ UNCHANGED sinceBlock
     \/ /\ got # "none" \/ sinceBlock < IdleRearm
        /\ pc' = "watch"
        /\ sinceBlock' = IF got # "none" THEN 0 ELSE sinceBlock
        /\ UNCHANGED <<faults, deafFor, sick>>
  /\ UNCHANGED <<dongle, driver, got, quiet, sinceAction, sinceDiag, queued>>

Strobe ==
  /\ pc = "strobe" /\ pc' = "watch" /\ sinceBlock' = 0
  /\ \/ CallWorks /\ radio' = "rx" /\ deaf' = FALSE
     \/ CallFails /\ radio' \in {radio, IF usb = "up" THEN "idle" ELSE radio} /\ UNCHANGED deaf
  /\ UNCHANGED <<usb, tuned, carrier, driver, got, quiet, sinceAction, sinceDiag, queued>>

(***************************************************************************)
(* Silence watchdog.                                                       *)
(***************************************************************************)
\* Mutant: no silence watchdog.
MutDueNever == FALSE

Due == quiet > MaxSilence /\ sinceAction >= MaxSilence

Diagnosis == quiet >= DiagAfter /\ sinceDiag >= DiagAfter

\* diagnostics(): a dongle that does not answer a register read is healed.
DoesNotAnswer == CallFails

ConfigureRx ==
  \/ CallWorks /\ radio' = "rx" /\ deaf' = FALSE /\ pc' = "put"
  \/ CallFails /\ radio' \in {radio, IF usb = "up" THEN "idle" ELSE radio} /\ UNCHANGED deaf
     /\ pc' = "healNow"

Silence ==
  /\ pc = "watch" /\ Due
  /\ sinceAction' = 0
  /\ IF Diagnosis
     THEN /\ sinceDiag' = 0
          /\ \/ DoesNotAnswer /\ pc' = "healNow" /\ UNCHANGED <<radio, deaf>>
             \/ ConfigureRx
     ELSE UNCHANGED sinceDiag /\ ConfigureRx
  /\ UNCHANGED <<usb, tuned, carrier, driver, got, sinceBlock, quiet, queued>>

NotSilent ==
  /\ pc = "watch" /\ ~Due /\ pc' = "put"
  /\ UNCHANGED <<dongle, driver, got, timers, queued, faults, sick, deafFor>>

\* The block goes to the worker, unless its queue is full; the pass is over.
Put ==
  /\ pc = "put" /\ pc' = "receive" /\ got' = "none"
  /\ queued' = IF got # "none" /\ queued = "none" THEN got ELSE queued
  /\ sinceBlock' = Up(sinceBlock, IdleRearm) /\ quiet' = Up(quiet, QuietLimit)
  /\ sinceAction' = Up(sinceAction, MaxSilence) /\ sinceDiag' = Up(sinceDiag, DiagAfter)
  /\ deafFor' = IF Hearing THEN 0 ELSE Up(deafFor, DeafLimit + 1)
  /\ UNCHANGED <<dongle, driver, faults, sick>>

\* Mutant: any block is a sign of life.
MutDecodeJunk ==
  /\ queued # "none" /\ queued' = "none"
  /\ quiet' = 0
  /\ deafFor' = IF queued = "packet" THEN 0 ELSE deafFor
  /\ UNCHANGED <<dongle, driver, pc, got, sinceBlock, sinceAction, sinceDiag, faults, sick>>

\* The worker: only a block that holds a packet is a sign of life.
Decode ==
  /\ queued # "none" /\ queued' = "none"
  /\ IF queued = "packet" THEN quiet' = 0 /\ deafFor' = 0 ELSE UNCHANGED <<quiet, deafFor>>
  /\ UNCHANGED <<dongle, driver, pc, got, sinceBlock, sinceAction, sinceDiag, faults, sick>>

Loop == Receive \/ Heal \/ IdleCheck \/ Strobe \/ Silence \/ NotSilent \/ Put
WatchdogNext == Loop \/ Decode \/ Stick \/ UsbTrouble \/ Deafen \/ CarrierChanges
\* The loop and the worker are threads that never wait for each other.
WatchdogSpec == WatchdogInit /\ [][WatchdogNext]_watchdogVars /\ WF_watchdogVars(Loop) /\ WF_watchdogVars(Decode)

-----------------------------------------------------------------------------
FlagsOK ==
  /\ tuned \in BOOLEAN /\ deaf \in BOOLEAN /\ carrier \in BOOLEAN
  /\ dev \in BOOLEAN /\ sick \in BOOLEAN

\* Types and saturation of the ages; a block in hand has ended the series of
\* timeouts that RfcatRadio._wedged() counts.
WatchdogTypeOK ==
  /\ usb \in {"up", "stuck"} /\ radio \in {"rx", "idle"}
  /\ FlagsOK
  /\ timeouts \in 0..MaxUsbErrors /\ trouble \in {"none", "errors", "resetup"}
  /\ pc \in {"receive", "heal", "idle", "strobe", "watch", "healNow", "put", "crashed"}
  /\ got \in {"none", "packet", "junk"} /\ queued \in {"none", "packet", "junk"}
  /\ sinceBlock \in 0..IdleRearm /\ quiet \in 0..QuietLimit
  /\ sinceAction \in 0..MaxSilence /\ sinceDiag \in 0..DiagAfter
  /\ faults \in 0..MaxFaults /\ deafFor \in 0..(DeafLimit + 1)
  /\ got # "none" => timeouts = 0

\* A dongle that has done nothing wrong since its last block (no USB call
\* failed, rflib counted no error) is neither USB-reset nor allowed to end the
\* loop, however long the air is quiet.
NothingDrasticWhenHealthy == [][pc' \in {"heal", "healNow", "crashed"} => sick']_watchdogVars

\* A receiver that does not hear (deaf in RX, left idle by half a re-arm,
\* stuck, closed) is brought back within the silence limit and a pass,
\* counted from the last fault, its last packet, or the last packet decoded
\* behind it, whatever carrier and junk blocks do to the idle re-arm.
DeafnessIsBounded == pc # "crashed" => deafFor <= DeafLimit

\* The shape of the loop's state, and the bound on deafness.
WatchdogInv == WatchdogTypeOK /\ DeafnessIsBounded

\* Whatever failed, and in whatever order the timers fire: in the end the
\* receiver hears again or the program has ended; it never stays, deaf.
HearsAgain == ~Hearing ~> (Hearing \/ pc = "crashed")

=============================================================================
