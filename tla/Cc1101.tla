----------------------------- MODULE Cc1101 -----------------------------
(***************************************************************************)
(* The CC1101 listener board: the chip, the radio task that empties its    *)
(* FIFO (cc1101.cpp:task_loop_) and what loop() shares with it.  The chip  *)
(* records CaptureBytes bytes after every sync, back to back, with nothing *)
(* in the FIFO between one capture and the next: the task finds the        *)
(* boundaries by counting.  A byte is <<capture, index>>.                  *)
(* Periods (idle re-arm, health, verify, quiet end) may elapse at any pass *)
(* of the task.                                                            *)
(***************************************************************************)
EXTENDS Integers, Sequences, FiniteSets

CONSTANTS
  CaptureBytes,  \* capture_bytes_
  FifoBytes,     \* the chip's FIFO
  WakeBytes,     \* FIFOTHR: so many bytes in the FIFO raise GDO2
  MinBytes,      \* the shortest capture end_capture_early_ publishes
  QueueDepth,    \* QUEUE_DEPTH
  MaxCaptures,   \* bound: syncs
  MaxTunes,      \* bound: live-tuning calls
  MaxFaults,     \* bound: the chip resets itself, gives up a capture, or does not read back
  Requests       \* what loop() may ask for: subset of {"scan", "reset"}

ASSUME Cc1101Assumption ==
  /\ CaptureBytes \in Nat /\ MinBytes \in 1..CaptureBytes
  /\ {FifoBytes, QueueDepth} \subseteq Nat \ {0} /\ WakeBytes \in 1..FifoBytes
  /\ {MaxCaptures, MaxTunes, MaxFaults} \subseteq Nat
  /\ Requests \subseteq {"scan", "reset"}

Lost == -1   \* registers at their power-on values

VARIABLES
  mode, fifo, at, regs, clash,      \* the chip: MARCSTATE, RX FIFO, byte last recorded,
                                    \* settings in force, a byte is hit by the errata
  pc, cur, seen, avail, bad,        \* the task: cur_.data[0..got_], last_seen_, ...
  queue, staged, asked,             \* shared: hand-off queue, settings, request flags
  lost, out,                        \* loop(): lost_ as it will be folded in, captures processed
  tunes, faults,                    \* bounds
  excused,                          \* history: misalignment the task cannot avoid
  refused                           \* history: the settings configure_radio_ last gave up on

chip == <<mode, fifo, at, regs, clash>>
task == <<pc, cur, seen, avail, bad>>
vars == <<chip, task, queue, staged, asked, lost, out, tunes, faults, excused, refused>>

Init ==
  /\ mode = "rx" /\ fifo = <<>> /\ at = <<0, 0>> /\ regs = 0 /\ clash = FALSE
  /\ pc = "scan" /\ cur = <<>> /\ seen = 0 /\ avail = 0 /\ bad = 0
  /\ queue = <<>> /\ staged = 0 /\ asked = {}
  /\ lost = 0 /\ out = <<>> /\ tunes = 0 /\ faults = 0 /\ excused = FALSE
  /\ refused = Lost

(***************************************************************************)
(* The chip.                                                               *)
(***************************************************************************)
Sync ==
  /\ mode = "rx" /\ regs # Lost /\ at[1] < MaxCaptures
  /\ mode' = "recording" /\ at' = <<at[1] + 1, 0>>
  \* A capture given up less than STALL_US ago is still in the task's hands.
  /\ excused' = (excused \/ (at[2] \in 1..(CaptureBytes - 1) /\ (cur # <<>> \/ fifo # <<>>)))
  /\ UNCHANGED <<fifo, regs, clash, task, queue, staged, asked, lost, out, tunes, faults, refused>>

\* Errata SWRZ020: a byte written while the FIFO is read empty can be lost or doubled.
Byte ==
  /\ mode = "recording"
  /\ at' = <<at[1], at[2] + 1>>
  /\ \E copies \in IF clash THEN 0..2 ELSE {1} :
       LET full == fifo \o [i \in 1..copies |-> at'] IN
       IF Len(full) > FifoBytes
       THEN mode' = "overflow" /\ fifo' = fifo
       ELSE fifo' = full /\ mode' = IF at'[2] = CaptureBytes THEN "rx" ELSE "recording"
  /\ clash' = FALSE
  /\ UNCHANGED <<regs, task, queue, staged, asked, lost, out, tunes, faults, excused, refused>>

Fault == faults < MaxFaults /\ faults' = faults + 1

GiveUp ==
  /\ Fault /\ mode = "recording" /\ mode' = "rx"
  /\ UNCHANGED <<fifo, at, regs, clash, task, queue, staged, asked, lost, out, tunes, excused, refused>>

\* A glitch on the switched rail: power-on defaults, IDLE, an empty FIFO.
Glitch ==
  /\ Fault /\ mode' = "idle" /\ fifo' = <<>> /\ regs' = Lost /\ clash' = FALSE
  /\ UNCHANGED <<at, task, queue, staged, asked, lost, out, tunes, excused, refused>>

(***************************************************************************)
(* loop() and the YAML callbacks.                                          *)
(***************************************************************************)
Tune ==
  /\ tunes < MaxTunes /\ tunes' = tunes + 1
  /\ staged' = staged + 1 /\ asked' = asked \cup {"reconfig"}
  /\ UNCHANGED <<chip, task, queue, lost, out, faults, excused, refused>>

Ask(what) ==
  /\ tunes < MaxTunes /\ tunes' = tunes + 1
  /\ asked' = asked \cup {what}
  /\ UNCHANGED <<chip, task, queue, staged, lost, out, faults, excused, refused>>

Process ==
  /\ queue # <<>> /\ out' = Append(out, Head(queue)) /\ queue' = Tail(queue)
  /\ UNCHANGED <<chip, task, staged, asked, lost, tunes, faults, excused, refused>>

(***************************************************************************)
(* The task.                                                               *)
(***************************************************************************)
Restart == mode' = "rx" /\ fifo' = <<>> /\ clash' = FALSE /\ cur' = <<>> /\ seen' = 0
NoRestart == UNCHANGED <<mode, fifo, clash, cur, seen>>

Send(capture) ==
  IF Len(queue) < QueueDepth
  THEN queue' = Append(queue, capture) /\ UNCHANGED lost
  ELSE lost' = lost + 1 /\ UNCHANGED queue

Scan ==
  /\ pc = "scan" /\ pc' = "reset"
  /\ asked' = asked \ {"scan"}
  /\ IF "scan" \in asked THEN Restart ELSE NoRestart
  /\ UNCHANGED <<at, regs, avail, bad, queue, staged, lost, out, tunes, faults, excused, refused>>

\* configure_radio_: if part number or sync word do not read back, it returns
\* false with the settings as they were, and the task goes on all the same.
ConfigureRadio(old) ==
  \/ regs' = staged /\ UNCHANGED <<faults, refused>>
  \/ Fault /\ regs' = old /\ refused' = staged
NotConfigured == UNCHANGED <<regs, faults, refused>>

HardReset ==
  /\ pc = "reset" /\ pc' = "reconfig"
  /\ asked' = asked \ {"reset"}
  /\ IF "reset" \in asked THEN Restart /\ ConfigureRadio(Lost) ELSE NoRestart /\ NotConfigured
  /\ UNCHANGED <<at, avail, bad, queue, staged, lost, out, tunes, excused>>

\* The flag is taken down before the settings are read.
Reconfig ==
  /\ pc = "reconfig"
  /\ pc' = IF "reconfig" \in asked THEN "configure" ELSE "drain"
  /\ asked' = asked \ {"reconfig"}
  /\ UNCHANGED <<chip, cur, seen, avail, bad, queue, staged, lost, out, tunes, faults, excused,
                 refused>>

Configure ==
  /\ pc = "configure" /\ pc' = "written" /\ ConfigureRadio(regs)
  /\ UNCHANGED <<mode, fifo, at, clash, cur, seen, avail, bad, queue, staged, asked, lost, out,
                 tunes, excused>>

\* Mutant: the flag is taken down behind the settings, not before.
MutConfigured ==
  /\ pc = "written" /\ pc' = "drain" /\ Restart
  /\ asked' = asked \ {"reconfig"}
  /\ UNCHANGED <<at, regs, avail, bad, queue, staged, lost, out, tunes, faults, excused, refused>>

Configured ==
  /\ pc = "written" /\ pc' = "drain" /\ Restart
  /\ UNCHANGED <<at, regs, avail, bad, queue, staged, asked, lost, out, tunes, faults, excused, refused>>

\* Mutant: a stall is not seen.
MutStalled == FALSE

Stalled == Len(cur) + Len(fifo) = seen /\ seen > 0 /\ mode # "recording"

\* Mutant: an overflow is counted and left as it is, a stall is not seen.
MutDrain ==
  /\ pc = "drain"
  /\ IF mode = "overflow"
     THEN lost' = lost + 1 /\ pc' = "quiet" /\ NoRestart /\ UNCHANGED avail
     ELSE /\ avail' = Len(fifo) /\ seen' = Len(cur) + Len(fifo) /\ pc' = "part"
          /\ UNCHANGED <<mode, fifo, clash, cur, lost>>
  /\ UNCHANGED <<at, regs, bad, queue, staged, asked, out, tunes, faults, excused, refused>>

Drain ==
  /\ pc = "drain"
  /\ IF mode = "overflow" \/ Stalled
     THEN lost' = lost + 1 /\ Restart /\ pc' = "quiet" /\ UNCHANGED avail
     ELSE /\ avail' = Len(fifo) /\ seen' = Len(cur) + Len(fifo) /\ pc' = "part"
          /\ UNCHANGED <<mode, fifo, clash, cur, lost>>
  /\ UNCHANGED <<at, regs, bad, queue, staged, asked, out, tunes, faults, excused, refused>>

Remaining == CaptureBytes - Len(cur)

\* Mutant: the FIFO is read empty while a capture is arriving.
MutTake == IF avail >= Remaining THEN Remaining ELSE avail
\* The rest of the capture, or all but the newest byte.
Take == IF avail >= Remaining THEN Remaining ELSE avail - 1

DrainPart ==
  /\ pc = "part" /\ avail > 0 /\ Take > 0
  /\ Len(fifo) >= Take   \* else the chip has reset itself: ReadNothing
  /\ LET read == cur \o SubSeq(fifo, 1, Take) IN
       IF Len(read) = CaptureBytes
       THEN Send(read) /\ cur' = <<>>
       ELSE cur' = read /\ UNCHANGED <<queue, lost>>
  /\ fifo' = SubSeq(fifo, Take + 1, Len(fifo)) /\ avail' = avail - Take
  /\ clash' = (fifo' = <<>> /\ mode = "recording")
  \* The boundary was read while the next capture had begun.
  /\ excused' = (excused \/ (clash' /\ Take = Remaining))
  /\ UNCHANGED <<mode, at, regs, pc, seen, bad, staged, asked, out, tunes, faults, refused>>

\* A chip that reset itself between the two reads delivers bytes that are not there.
ReadNothing ==
  /\ pc = "part" /\ avail > 0 /\ Take > 0 /\ Len(fifo) < Take
  /\ excused' = TRUE
  /\ avail' = 0 /\ pc' = "part"
  /\ cur' = IF Take = Remaining THEN <<>> ELSE cur \o [i \in 1..Take |-> <<0, 0>>]
  /\ fifo' = <<>> /\ clash' = FALSE
  /\ UNCHANGED <<mode, at, regs, seen, bad, queue, staged, asked, lost, out, tunes, faults, refused>>

DrainDone ==
  /\ pc = "part" /\ (avail = 0 \/ Take = 0) /\ pc' = "quiet"
  /\ seen' = Len(cur) + avail
  /\ UNCHANGED <<chip, cur, avail, bad, queue, staged, asked, lost, out, tunes, faults, excused,
                 refused>>

\* Carrier sense low for quiet_end_ms_: stop the receiver, read the rest.
EndCaptureEarly ==
  /\ pc = "quiet" /\ cur # <<>> /\ pc' = "rearm"
  /\ LET n == IF Len(fifo) < Remaining THEN Len(fifo) ELSE Remaining
         read == cur \o SubSeq(fifo, 1, n)
     IN IF mode # "overflow" /\ Len(read) >= MinBytes THEN Send(read) ELSE UNCHANGED <<queue, lost>>
  /\ Restart
  /\ UNCHANGED <<at, regs, avail, bad, staged, asked, out, tunes, faults, excused, refused>>

\* The GDO pins say nothing is arriving; the strobe is a moment later.
IdleRearm ==
  /\ pc = "rearm" /\ cur = <<>> /\ Len(fifo) < WakeBytes /\ mode # "recording" /\ pc' = "strobe"
  /\ UNCHANGED <<chip, cur, seen, avail, bad, queue, staged, asked, lost, out, tunes, faults,
                 excused, refused>>

StrobeRearm ==
  /\ pc = "strobe" /\ pc' = "health" /\ Restart
  /\ UNCHANGED <<at, regs, avail, bad, queue, staged, asked, lost, out, tunes, faults, excused, refused>>

HealthCheck ==
  /\ pc = "health" /\ pc' = "verify"
  /\ CASE mode = "overflow" -> lost' = lost + 1 /\ Restart /\ UNCHANGED bad
       [] mode = "idle" -> /\ UNCHANGED lost
                           /\ bad' = (bad + 1) % 2
                           /\ IF bad = 1 THEN Restart ELSE NoRestart
       [] OTHER -> /\ UNCHANGED lost /\ bad' = 0
                   /\ \/ NoRestart
                      \/ cur = <<>> /\ fifo = <<>> /\ mode = "rx" /\ Restart  \* RECAL_MS
  /\ UNCHANGED <<at, regs, avail, queue, staged, asked, out, tunes, faults, excused, refused>>

\* Only a chip that has lost everything shows in the registers read back.
VerifyRegisters ==
  /\ pc = "verify" /\ pc' = "scan"
  /\ IF regs = Lost THEN Restart /\ ConfigureRadio(regs) ELSE NoRestart /\ NotConfigured
  /\ UNCHANGED <<at, avail, bad, queue, staged, asked, lost, out, tunes, excused>>

\* The period has not elapsed, or nothing is to be drained, in this pass.
NotDue ==
  /\ \E step \in {<<"drain", "quiet">>, <<"quiet", "rearm">>, <<"rearm", "health">>,
                  <<"health", "verify">>, <<"verify", "scan">>} : pc = step[1] /\ pc' = step[2]
  /\ UNCHANGED <<chip, cur, seen, avail, bad, queue, staged, asked, lost, out, tunes, faults,
                 excused, refused>>

TaskStep ==
  \/ Scan \/ HardReset \/ Reconfig \/ Configure \/ Configured
  \/ Drain \/ DrainPart \/ ReadNothing \/ DrainDone \/ EndCaptureEarly
  \/ IdleRearm \/ StrobeRearm \/ HealthCheck \/ VerifyRegisters \/ NotDue

Next ==
  \/ TaskStep \/ Sync \/ Byte \/ GiveUp \/ Glitch
  \/ Tune \/ Process \/ \E what \in Requests : Ask(what)

\* The chip records in real time; the task runs; drain, health and verify come due again and again
\* (SPI_FALLBACK_POLL_MS, HEALTH_MS, VERIFY_MS).
Spec ==
  /\ Init /\ [][Next]_vars
  /\ WF_vars(Byte) /\ WF_vars(TaskStep)
  /\ SF_vars(Drain) /\ SF_vars(HealthCheck) /\ SF_vars(VerifyRegisters)

-----------------------------------------------------------------------------
Bytes == (0..MaxCaptures) \X (0..CaptureBytes)
\* Types and limits: the FIFO, the queue to loop() and a capture under way
\* never hold more than they have room for.
TypeOK ==
  /\ mode \in {"rx", "recording", "overflow", "idle"} /\ regs \in {Lost} \cup 0..MaxTunes
  /\ fifo \in Seq(Bytes) /\ Len(fifo) <= FifoBytes /\ at \in Bytes
  /\ {clash, excused} \subseteq BOOLEAN
  /\ pc \in {"scan", "reset", "reconfig", "configure", "written", "drain", "part", "quiet", "rearm",
             "strobe", "health", "verify"}
  /\ cur \in Seq(Bytes) /\ Len(cur) < CaptureBytes
  /\ seen \in Nat /\ avail \in 0..FifoBytes /\ bad \in 0..1
  /\ Len(queue) <= QueueDepth /\ staged \in 0..MaxTunes /\ asked \subseteq {"scan", "reset", "reconfig"}
  /\ lost \in Nat /\ tunes \in 0..MaxTunes /\ faults \in 0..MaxFaults
  /\ refused \in {Lost} \cup 0..MaxTunes

Handed == out \o queue
IsWhole(capture) ==
  /\ Len(capture) >= MinBytes
  /\ \A i \in DOMAIN capture : capture[i] = <<capture[1][1], i>>

\* What the task hands over is one recording from its first byte on, none
\* skipped or doubled, never the end of one and the start of the next, and no
\* recording twice -- whatever is cut short, overflows, stalls or is re-armed
\* in between.  Excused is what the code cannot prevent: a sync within
\* STALL_US of a capture the chip gave up, a read up to the boundary while the
\* next capture's first byte arrives, a reset between RXBYTES and the read.
CapturesWhole ==
  ~excused => /\ \A i \in DOMAIN Handed : IsWhole(Handed[i])
              /\ \A i, j \in DOMAIN Handed : i < j => Handed[i][1][1] < Handed[j][1][1]

\* Every capture counted as lost is one that was begun and not handed over:
\* no overflow, stall or full queue is counted twice on its way to lost_.
LossesAreCaptures ==
  ~excused => lost + Len(Handed) <= at[1]

\* The limits of FIFO and queue, and the count of what was lost.
Cc1101Inv == TypeOK /\ LossesAreCaptures

\* Overflowed, left idle, reset by a glitch or re-tuned: in the end the chip
\* listens again, with the settings that were last asked for - or, if
\* configure_radio_ gave up on just these, with any settings but the power-on
\* ones, as nobody asks again.
Listening == mode \in {"rx", "recording"} /\ regs # Lost /\ staged \in {regs, refused}
ListensAgain == ~Listening ~> Listening

\* A capture under way is finished or given up; it never blocks the next.
CaptureEnds == cur # <<>> ~> cur = <<>>
=============================================================================
