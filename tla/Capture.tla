----------------------------- MODULE Capture -----------------------------
(***************************************************************************)
(* From a listener board to the mesh: the SX1262 driver's loop, the gate   *)
(* and the sequence number every board shares (InsteonRF), MQTT at QoS 0,  *)
(* and MqttReceiver with its bounded queue.  A recording is its number     *)
(* within its board's boot; whether it passes the gate is open.            *)
(***************************************************************************)
EXTENDS Naturals, Sequences, FiniteSets

CONSTANTS
  Boards,         \* listener boards
  MaxSize,        \* MqttReceiver(maxsize=)
  MaxRecordings,  \* bound: recordings of all boards
  MaxReboots      \* bound: reboots of all boards

ASSUME CaptureAssumption ==
  MaxSize \in Nat \ {0} /\ {MaxRecordings, MaxReboots} \subseteq Nat

VARIABLES
  done, irq, loopAt, stamp, seq,          \* per board: last recording complete, RX_DONE pending,
                                          \* place in loop(), recording rx_done_us_ is of, seq_
  reads,                                  \* history, per board: how often the newest one was read out
  chan,                                   \* per board: messages under way
  lastSeq, q, received, dropped, gaps,    \* MqttReceiver
  recordings, reboots,                    \* bounds
  published, delivered, vanished, unusable  \* history; vanished: the seqs that never arrived

board == <<done, irq, loopAt, stamp, seq, reads>>
receiver == <<lastSeq, q, received, dropped, gaps>>
history == <<published, delivered, vanished, unusable>>
captureVars == <<board, chan, receiver, recordings, reboots, history>>

None == 0  \* no sequence number yet: seq_ is incremented before it is first published

Message(b, recording, n) == [board |-> b, boot |-> reboots[b], recording |-> recording, seq |-> n]
Total(f) == LET sum[S \in SUBSET Boards] ==
                  IF S = {} THEN 0 ELSE LET b == CHOOSE x \in S : TRUE IN f[b] + sum[S \ {b}]
            IN sum[Boards]

CaptureInit ==
  /\ done = [b \in Boards |-> 0] /\ irq = [b \in Boards |-> FALSE]
  /\ loopAt = [b \in Boards |-> "poll"] /\ stamp = done /\ seq = done /\ reads = done
  /\ chan = [b \in Boards |-> <<>>]
  /\ lastSeq = [b \in Boards |-> None] /\ q = <<>> /\ received = 0 /\ dropped = 0 /\ gaps = 0
  /\ recordings = 0 /\ reboots = [b \in Boards |-> 0]
  /\ published = {} /\ delivered = 0 /\ vanished = {} /\ unusable = {}

(***************************************************************************)
(* The board.                                                              *)
(***************************************************************************)
\* Continuous receive: the chip raises RX_DONE and hunts on by itself,
\* wherever loop() is.
RecordingDone(b) ==
  /\ recordings < MaxRecordings /\ recordings' = recordings + 1
  /\ done' = [done EXCEPT ![b] = @ + 1] /\ irq' = [irq EXCEPT ![b] = TRUE]
  /\ reads' = [reads EXCEPT ![b] = 0]
  /\ UNCHANGED <<loopAt, stamp, seq, chan, receiver, reboots, history>>

\* DIO1 is high: the IRQ status is read and the time taken.
LoopPolls(b) ==
  /\ loopAt[b] = "poll" /\ irq[b]
  /\ stamp' = [stamp EXCEPT ![b] = done[b]] /\ loopAt' = [loopAt EXCEPT ![b] = "clear"]
  /\ UNCHANGED <<done, irq, seq, reads, chan, receiver, recordings, reboots, history>>

\* Mutant: the interrupt is not cleared.
MutLoopClears(b) ==
  /\ loopAt[b] = "clear" /\ loopAt' = [loopAt EXCEPT ![b] = "read"]
  /\ UNCHANGED <<done, irq, stamp, seq, reads, chan, receiver, recordings, reboots, history>>

LoopClears(b) ==
  /\ loopAt[b] = "clear"
  /\ irq' = [irq EXCEPT ![b] = FALSE] /\ loopAt' = [loopAt EXCEPT ![b] = "read"]
  /\ UNCHANGED <<done, stamp, seq, reads, chan, receiver, recordings, reboots, history>>

\* The capture gets the board's next number and goes out.
Publish(b) ==
  LET m == Message(b, done[b], seq[b] + 1) IN
  /\ seq' = [seq EXCEPT ![b] = m.seq]
  /\ chan' = [chan EXCEPT ![b] = Append(@, m)]
  /\ published' = published \cup {m}

\* Mutant: a recording is numbered before the gate looks at it.
MutHandleCapture(b) ==
  /\ loopAt[b] = "read" /\ loopAt' = [loopAt EXCEPT ![b] = "poll"] /\ reads' = [reads EXCEPT ![b] = @ + 1]
  /\ (seq' = [seq EXCEPT ![b] = @ + 1] /\ UNCHANGED <<chan, published>>) \/ Publish(b)
  /\ UNCHANGED <<done, irq, stamp, receiver, recordings, reboots, delivered, vanished, unusable>>

\* handle_capture_ reads the newest recording; process_capture_ counts and
\* numbers it only behind the RSSI floor and the Manchester gate.
HandleCapture(b) ==
  /\ loopAt[b] = "read" /\ loopAt' = [loopAt EXCEPT ![b] = "poll"] /\ reads' = [reads EXCEPT ![b] = @ + 1]
  /\ UNCHANGED <<seq, chan, published>> \/ Publish(b)
  /\ UNCHANGED <<done, irq, stamp, receiver, recordings, reboots, delivered, vanished, unusable>>

Reboot(b) ==
  /\ Total(reboots) < MaxReboots /\ reboots' = [reboots EXCEPT ![b] = @ + 1]
  /\ done' = [done EXCEPT ![b] = 0] /\ irq' = [irq EXCEPT ![b] = FALSE]
  /\ loopAt' = [loopAt EXCEPT ![b] = "poll"] /\ stamp' = [stamp EXCEPT ![b] = 0]
  /\ seq' = [seq EXCEPT ![b] = 0] /\ reads' = [reads EXCEPT ![b] = 0]
  /\ UNCHANGED <<chan, receiver, recordings, history>>

(***************************************************************************)
(* MQTT at QoS 0: in order, at most once.                                  *)
(***************************************************************************)
Lose(b) ==
  /\ chan[b] # <<>>
  /\ chan' = [chan EXCEPT ![b] = Tail(@)] /\ vanished' = vanished \cup {Head(chan[b])}
  /\ UNCHANGED <<board, receiver, recordings, reboots, published, delivered, unusable>>

(***************************************************************************)
(* MqttReceiver._on_message.                                               *)
(***************************************************************************)
\* Capture.from_payload finds nothing usable.
BadPayload(b) ==
  /\ chan[b] # <<>> /\ chan' = [chan EXCEPT ![b] = Tail(@)]
  /\ dropped' = dropped + 1 /\ delivered' = delivered + 1
  /\ unusable' = unusable \cup {Head(chan[b])}
  /\ UNCHANGED <<board, lastSeq, q, received, gaps, recordings, reboots, published, vanished>>

\* A lower number is a reboot, not a gap.
Skipped(b, n) == lastSeq[b] # None /\ n > lastSeq[b] + 1

Full == Len(q) >= MaxSize

\* Mutant: a message that does not fit is counted as received, too.
MutOffer(cap) ==
  /\ received' = received + 1
  /\ IF Full THEN dropped' = dropped + 1 /\ UNCHANGED q ELSE q' = Append(q, cap) /\ UNCHANGED dropped
Offer(cap) ==
  IF Full
  THEN dropped' = dropped + 1 /\ UNCHANGED <<q, received>>
  ELSE q' = Append(q, cap) /\ received' = received + 1 /\ UNCHANGED dropped

OnMessage(b) ==
  /\ chan[b] # <<>> /\ chan' = [chan EXCEPT ![b] = Tail(@)]
  /\ delivered' = delivered + 1
  /\ LET cap == Head(chan[b]) IN
       /\ gaps' = gaps + (IF Skipped(b, cap.seq) THEN 1 ELSE 0)
       /\ lastSeq' = [lastSeq EXCEPT ![b] = cap.seq]
       /\ Offer(cap)
  /\ UNCHANGED <<board, recordings, reboots, published, vanished, unusable>>

NextCapture ==
  /\ q # <<>> /\ q' = Tail(q)
  /\ UNCHANGED <<board, chan, lastSeq, received, dropped, gaps, recordings, reboots, history>>

CaptureNext ==
  \/ NextCapture
  \/ \E b \in Boards : \/ RecordingDone(b) \/ LoopPolls(b) \/ LoopClears(b) \/ HandleCapture(b)
                       \/ Reboot(b) \/ Lose(b) \/ BadPayload(b) \/ OnMessage(b)
CaptureSpec == CaptureInit /\ [][CaptureNext]_captureVars

-----------------------------------------------------------------------------
\* Types; the queue is bounded, and nothing is under way that was not published.
CaptureTypeOK ==
  /\ done \in [Boards -> Nat] /\ stamp \in [Boards -> Nat] /\ seq \in [Boards -> Nat]
  /\ lastSeq \in [Boards -> Nat] /\ reads \in [Boards -> Nat] /\ reboots \in [Boards -> Nat]
  /\ irq \in [Boards -> BOOLEAN] /\ loopAt \in [Boards -> {"poll", "clear", "read"}]
  /\ received \in Nat /\ dropped \in Nat /\ gaps \in Nat /\ recordings \in Nat /\ delivered \in Nat
  /\ \A m \in published : m \in [board: Boards, boot: Nat, recording: Nat, seq: Nat \ {0}]
  /\ vanished \subseteq published /\ unusable \subseteq published
  /\ chan \in [Boards -> Seq(published)] /\ q \in Seq(published) /\ Len(q) <= MaxSize

\* The messages of a board that are under way.
InChan(b) == {chan[b][i] : i \in 1..Len(chan[b])}

\* Every message that reached the host is counted once, as received or as
\* dropped, and what is neither waiting nor taken was dropped here.
DeliveriesAccounted ==
  /\ received + dropped = delivered
  /\ delivered + Cardinality(vanished) + Cardinality(UNION {InChan(b) : b \in Boards}) = Cardinality(published)

\* The shape of boards, channels and queue, and every message accounted for.
CaptureInv == CaptureTypeOK /\ DeliveriesAccounted

\* gaps counts nothing but losses: there are at least as many messages that
\* never arrived, or arrived unusable.  A reboot, a recording the gate
\* refused and a message dropped at the full queue are not gaps.
GapsAreLosses == gaps <= Cardinality(vanished \cup unusable)

\* And it misses none: while a board has not rebooted and no gap was counted,
\* everything it published before the last message heard of it has arrived
\* -- but for what was lost before the first.
NoGapNoLoss ==
  gaps = 0 =>
    \A b \in Boards : reboots[b] = 0 =>
      ~\E m \in vanished \cup unusable : m.board = b /\ m.seq < lastSeq[b]
         /\ \E first \in published \ (vanished \cup unusable) : first.board = b /\ first.seq < m.seq

\* Gaps are losses, and losses between two messages are gaps.
GapsTellLosses == GapsAreLosses /\ NoGapNoLoss

\* loop() waiting for DIO1 has read out the newest recording, however the
\* air and the loop race: at most twice, and a board's numbers follow the air
\* -- a later number is a later recording, or the same one read out again.
RecordingsReadOut ==
  /\ \A b \in Boards : loopAt[b] = "poll" /\ ~irq[b] /\ done[b] > 0 => reads[b] \in {1, 2}
  /\ \A m1, m2 \in published :
       m1.board = m2.board /\ m1.boot = m2.boot /\ m1.seq < m2.seq =>
         \/ m1.recording < m2.recording
         \/ m1.recording = m2.recording /\ m2.seq = m1.seq + 1

\* The claim of loop()'s comment, "there is nothing to race": a recording is
\* published once, with the time at which it, and not an earlier one, was
\* complete.  A recording that completes between the reading of the status
\* and its clearing goes out with the time of the one before; one that
\* completes after the clearing goes out twice.
PublishedOnce ==
  /\ \A m1, m2 \in published :
       m1.board = m2.board /\ m1.boot = m2.boot /\ m1.recording = m2.recording => m1 = m2
  /\ \A b \in Boards : loopAt[b] = "read" => stamp[b] = done[b]
=============================================================================
