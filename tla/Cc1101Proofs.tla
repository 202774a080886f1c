---------------------------- MODULE Cc1101Proofs ----------------------------
(***************************************************************************)
(* Proofs about Cc1101, for every length of a capture, FIFO and queue, any *)
(* number of syncs, faults and live-tuning calls, and every order in which *)
(* the chip, the task and loop() take their steps.                         *)
(*                                                                         *)
(* What the task has read of a capture and what the FIFO holds behind it   *)
(* are one stream (Stream) in which captures follow each other byte for    *)
(* byte (Chain).  Its last byte is where the chip is (AtNewest), and all   *)
(* that was handed over or counted as lost was over before it (Done).      *)
(***************************************************************************)
EXTENDS Cc1101, SequenceTheorems, TLAPS

(***************************************************************************)
(* The types, and that the chip records no byte behind the last.           *)
(***************************************************************************)
ChipTypes ==
  /\ mode \in {"rx", "recording", "overflow", "idle"} /\ regs \in {Lost} \cup 0..MaxTunes
  /\ fifo \in Seq(Bytes) /\ Len(fifo) <= FifoBytes
  /\ at \in Bytes /\ clash \in BOOLEAN
  /\ mode = "recording" => at[2] < CaptureBytes /\ at[1] > 0

TaskTypes ==
  /\ pc \in {"scan", "reset", "reconfig", "configure", "written", "drain", "part", "quiet", "rearm",
             "strobe", "health", "verify"}
  /\ cur \in Seq(Bytes) /\ Len(cur) < CaptureBytes
  /\ seen \in Nat /\ avail \in 0..FifoBytes /\ bad \in 0..1

LoopTypes ==
  /\ queue \in Seq(Seq(Bytes)) /\ out \in Seq(Seq(Bytes)) /\ Len(queue) <= QueueDepth
  /\ staged \in 0..MaxTunes /\ staged <= tunes /\ asked \subseteq {"scan", "reset", "reconfig"}
  /\ lost \in Nat /\ tunes \in 0..MaxTunes /\ faults \in 0..MaxFaults /\ excused \in BOOLEAN
  /\ refused \in {Lost} \cup 0..MaxTunes

Types == ChipTypes /\ TaskTypes /\ LoopTypes

(***************************************************************************)
(* A stream of captures, each from its first byte on, the bytes in order,  *)
(* none cut short but the last.                                            *)
(***************************************************************************)
Left(b) == CaptureBytes - b[2]    \* what its capture still has behind byte b

Chain(s) ==
  /\ s # <<>> => s[1][2] = 1
  /\ \A i \in 1..Len(s) : s[i][2] \in 1..CaptureBytes
  /\ \A i, j \in 1..Len(s) : i <= j /\ j - i <= Left(s[i]) => s[j] = <<s[i][1], s[i][2] + (j - i)>>
  /\ \A i, j \in 1..Len(s) : i < j /\ j - i > Left(s[i]) => s[i][1] < s[j][1]
  /\ \A i, j \in 1..Len(s) : j - i = Left(s[i]) + 1 => s[j][2] = 1

Stream == cur \o fifo
Newest == Stream[Len(Stream)]

\* Where the chip is, told by the newest byte.
AtNewest ==
  /\ Stream # <<>> => Newest[1] <= at[1]
  /\ mode = "recording" /\ at[2] > 0 => Stream # <<>> /\ Newest = at
  /\ mode = "recording" /\ at[2] = 0 /\ Stream # <<>> => Newest[2] = CaptureBytes /\ Newest[1] < at[1]
  /\ mode = "rx" /\ Stream # <<>> => Newest = at \/ Newest[2] = CaptureBytes
  /\ mode = "overflow" /\ Stream # <<>> => Newest[1] < at[1] \/ Newest[2] < CaptureBytes
  /\ mode = "idle" => fifo = <<>>

\* The captures that are over: behind them come the stream and the chip.
Done ==
  IF Stream # <<>> THEN Stream[1][1] - 1
  ELSE IF mode \in {"recording", "overflow"} THEN at[1] - 1 ELSE at[1]

HandedOver ==
  /\ \A i \in 1..Len(Handed) : IsWhole(Handed[i]) /\ Handed[i][1][1] <= Done
  /\ \A i, j \in 1..Len(Handed) : i < j => Handed[i][1][1] < Handed[j][1][1]
  /\ lost + Len(Handed) <= Done

\* The task knows how far it may read, unless the chip has reset itself.
Reads == pc = "part" => avail <= Len(fifo) \/ mode = "idle"

Aligned == ~excused => /\ ~clash /\ Chain(Stream) /\ AtNewest /\ HandedOver /\ Reads

(***************************************************************************)
(* Types.                                                                  *)
(***************************************************************************)

\* The lengths: a capture has a byte, and is no shorter than what is published.
LEMMA Lengths ==
  /\ CaptureBytes \in Nat \ {0} /\ MinBytes \in 1..CaptureBytes
  /\ FifoBytes \in Nat \ {0} /\ QueueDepth \in Nat \ {0}
  /\ MaxCaptures \in Nat /\ MaxTunes \in Nat /\ MaxFaults \in Nat
  /\ Requests \subseteq {"scan", "reset"}
  /\ Lost = -1
BY Cc1101Assumption DEF Lost

\* A byte is a capture's number and its index in it.
LEMMA ByteFacts ==
  /\ \A b \in Bytes : b[1] \in 0..MaxCaptures /\ b[2] \in 0..CaptureBytes /\ b = <<b[1], b[2]>>
  /\ \A c \in 0..MaxCaptures, i \in 0..CaptureBytes : <<c, i>> \in Bytes
BY DEF Bytes

\* A hand-over puts the capture on the queue, or counts it.
LEMMA SendTypes ==
  ASSUME LoopTypes, NEW capture \in Seq(Bytes), Send(capture)
  PROVE  queue' \in Seq(Seq(Bytes)) /\ Len(queue') <= QueueDepth /\ lost' \in Nat
<1>1. queue \in Seq(Seq(Bytes)) /\ Len(queue) <= QueueDepth /\ lost \in Nat
  BY DEF LoopTypes
<1>2. CASE Len(queue) < QueueDepth
  <2>1. queue' = Append(queue, capture) /\ lost' = lost
    BY <1>2 DEF Send
  <2>2. queue' \in Seq(Seq(Bytes)) /\ Len(queue') = Len(queue) + 1 /\ Len(queue) \in Nat
    BY <1>1, <2>1, AppendProperties, LenProperties
  <2>3. QED
    BY <1>1, <1>2, <2>1, <2>2, Lengths
<1>3. CASE ~(Len(queue) < QueueDepth)
  BY <1>1, <1>3 DEF Send
<1>4. QED
  BY <1>2, <1>3

\* What the task reads of the FIFO, and what it leaves.
LEMMA ReadFacts ==
  ASSUME Types, NEW n \in Nat, n <= Len(fifo)
  PROVE  /\ SubSeq(fifo, 1, n) \in Seq(Bytes) /\ Len(SubSeq(fifo, 1, n)) = n
         /\ \A i \in 1..n : SubSeq(fifo, 1, n)[i] = fifo[i]
         /\ SubSeq(fifo, n + 1, Len(fifo)) \in Seq(Bytes)
         /\ Len(SubSeq(fifo, n + 1, Len(fifo))) = Len(fifo) - n
         /\ \A i \in 1..(Len(fifo) - n) : SubSeq(fifo, n + 1, Len(fifo))[i] = fifo[n + i]
         /\ cur \o SubSeq(fifo, 1, n) \in Seq(Bytes)
         /\ Len(cur \o SubSeq(fifo, 1, n)) = Len(cur) + n
<1>1. fifo \in Seq(Bytes) /\ cur \in Seq(Bytes)
  BY DEF Types, ChipTypes, TaskTypes
<1>2. Len(fifo) \in Nat /\ Len(cur) \in Nat /\ \A i \in 1..Len(fifo) : fifo[i] \in Bytes
  BY <1>1, LenProperties, ElementOfSeq
<1>3. /\ SubSeq(fifo, 1, n) \in Seq(Bytes) /\ Len(SubSeq(fifo, 1, n)) = n
      /\ \A i \in 1..n : SubSeq(fifo, 1, n)[i] = fifo[i]
  <2>1. 1 \in Int /\ n \in Int /\ \A i \in 1..n : fifo[i] \in Bytes
    BY <1>2
  <2>2. /\ SubSeq(fifo, 1, n) \in Seq(Bytes)
        /\ Len(SubSeq(fifo, 1, n)) = (IF 1 <= n THEN n - 1 + 1 ELSE 0)
        /\ \A i \in 1..(n - 1 + 1) : SubSeq(fifo, 1, n)[i] = fifo[1 + i - 1]
    BY <2>1, SubSeqProperties
  <2>3. n - 1 + 1 = n
    OBVIOUS
  <2>4. QED
    BY <2>2, <2>3
<1>4. /\ SubSeq(fifo, n + 1, Len(fifo)) \in Seq(Bytes)
      /\ Len(SubSeq(fifo, n + 1, Len(fifo))) = Len(fifo) - n
      /\ \A i \in 1..(Len(fifo) - n) : SubSeq(fifo, n + 1, Len(fifo))[i] = fifo[n + i]
  <2>1. n + 1 \in Int /\ Len(fifo) \in Int /\ \A i \in (n + 1)..Len(fifo) : fifo[i] \in Bytes
    BY <1>2
  <2>2. /\ SubSeq(fifo, n + 1, Len(fifo)) \in Seq(Bytes)
        /\ Len(SubSeq(fifo, n + 1, Len(fifo))) = (IF n + 1 <= Len(fifo) THEN Len(fifo) - (n + 1) + 1 ELSE 0)
        /\ \A i \in 1..(Len(fifo) - (n + 1) + 1) : SubSeq(fifo, n + 1, Len(fifo))[i] = fifo[n + 1 + i - 1]
    BY <2>1, SubSeqProperties
  <2>3. Len(fifo) - (n + 1) + 1 = Len(fifo) - n /\ \A i \in Int : n + 1 + i - 1 = n + i
    BY <1>2
  <2>4. Len(SubSeq(fifo, n + 1, Len(fifo))) = Len(fifo) - n
    <3>1. CASE n = Len(fifo)
      BY <1>2, <2>2, <3>1
    <3>2. CASE n < Len(fifo)
      <4>1. n + 1 <= Len(fifo)
        BY <1>2, <3>2
      <4>2. Len(SubSeq(fifo, n + 1, Len(fifo))) = Len(fifo) - (n + 1) + 1
        BY <2>2, <4>1
      <4>3. QED
        BY <2>3, <4>2
    <3>3. QED
      BY <1>2, <3>1, <3>2
  <2>5. ASSUME NEW i \in 1..(Len(fifo) - n) PROVE SubSeq(fifo, n + 1, Len(fifo))[i] = fifo[n + i]
    <3>1. i \in 1..(Len(fifo) - (n + 1) + 1) /\ n + 1 + i - 1 = n + i
      BY <1>2
    <3>2. QED
      BY <2>2, <3>1
  <2>6. QED
    BY <2>2, <2>4, <2>5
<1>5. QED
  BY <1>1, <1>3, <1>4, ConcatProperties

\* A restart leaves the chip listening with an empty FIFO, the task with nothing.
LEMMA RestartTypes ==
  ASSUME Types, Restart
  PROVE  /\ mode' = "rx" /\ fifo' \in Seq(Bytes) /\ Len(fifo') = 0 /\ Len(fifo') <= FifoBytes
         /\ cur' \in Seq(Bytes) /\ Len(cur') = 0 /\ Len(cur') < CaptureBytes
         /\ seen' = 0 /\ clash' = FALSE
BY EmptySeq, Lengths DEF Restart

\* A radio set up has the settings staged, or those it had when it did not read back.
LEMMA ConfigureTypes ==
  ASSUME LoopTypes, regs \in {Lost} \cup 0..MaxTunes,
         NotConfigured \/ \E old \in {Lost, regs} : ConfigureRadio(old)
  PROVE  /\ regs' \in {Lost} \cup 0..MaxTunes /\ faults' \in 0..MaxFaults
         /\ refused' \in {Lost} \cup 0..MaxTunes
<1>1. staged \in 0..MaxTunes /\ faults \in 0..MaxFaults /\ refused \in {Lost} \cup 0..MaxTunes
  BY DEF LoopTypes
<1>2. CASE NotConfigured
  BY <1>1, <1>2 DEF NotConfigured
<1>3. CASE \E old \in {Lost, regs} : ConfigureRadio(old)
  <2>1. PICK old \in {Lost, regs} : ConfigureRadio(old)
    BY <1>3
  <2>2. CASE regs' = staged /\ UNCHANGED <<faults, refused>>
    BY <1>1, <2>2
  <2>3. CASE Fault /\ regs' = old /\ refused' = staged
    BY <1>1, <2>3, Lengths DEF Fault
  <2>4. QED
    BY <2>1, <2>2, <2>3 DEF ConfigureRadio
<1>4. QED
  BY <1>2, <1>3

\* Every step keeps the chip, the task and what they share to their types.
LEMMA TypesKept == Types /\ [Next]_vars => Types'
<1> SUFFICES ASSUME Types, [Next]_vars PROVE Types'
  OBVIOUS
<1>c. ChipTypes
  BY DEF Types
<1>t. TaskTypes
  BY DEF Types
<1>l. LoopTypes
  BY DEF Types
<1>0. CASE UNCHANGED vars
  BY <1>0 DEF vars, chip, task, Types, ChipTypes, TaskTypes, LoopTypes
<1>1. CASE Sync
  <2>1. at' \in Bytes /\ at'[2] = 0 /\ at'[1] > 0
    <3>1. at[1] \in 0..MaxCaptures /\ at[1] < MaxCaptures /\ at' = <<at[1] + 1, 0>>
      BY <1>1, <1>c, ByteFacts DEF Sync, ChipTypes
    <3>2. at[1] + 1 \in 0..MaxCaptures /\ 0 \in 0..CaptureBytes
      BY <3>1, Lengths
    <3>3. QED
      BY <3>1, <3>2, ByteFacts
  <2>2. QED
    BY <1>1, <1>c, <1>t, <1>l, <2>1, Lengths DEF Sync, task, Types, ChipTypes, TaskTypes, LoopTypes
<1>2. CASE Byte
  <2>1. at' \in Bytes /\ at'[1] = at[1] /\ at'[2] = at[2] + 1 /\ at[2] + 1 <= CaptureBytes /\ at[1] > 0
    BY <1>2, <1>c, ByteFacts, Lengths DEF Byte, ChipTypes
  <2>2. PICK copies \in 0..2 :
           IF Len(fifo \o [i \in 1..copies |-> at']) > FifoBytes
           THEN mode' = "overflow" /\ fifo' = fifo
           ELSE fifo' = fifo \o [i \in 1..copies |-> at']
                /\ mode' = IF at'[2] = CaptureBytes THEN "rx" ELSE "recording"
    <3>1. (IF clash THEN 0..2 ELSE {1}) \subseteq 0..2
      OBVIOUS
    <3>2. QED
      BY <1>2, <3>1 DEF Byte
  <2>3. [i \in 1..copies |-> at'] \in Seq(Bytes)
    BY <2>1
  <2>4. fifo \o [i \in 1..copies |-> at'] \in Seq(Bytes)
    BY <1>c, <2>3, ConcatProperties DEF ChipTypes
  <2>5. ChipTypes'
    <3>1. CASE Len(fifo \o [i \in 1..copies |-> at']) > FifoBytes
      BY <1>2, <1>c, <2>1, <2>2, <3>1 DEF Byte, ChipTypes
    <3>2. CASE ~(Len(fifo \o [i \in 1..copies |-> at']) > FifoBytes)
      <4>1. fifo' \in Seq(Bytes) /\ ~(Len(fifo') > FifoBytes) /\ mode' \in {"rx", "recording"}
            /\ (mode' = "recording" => at'[2] # CaptureBytes)
        BY <2>2, <2>4, <3>2
      <4>2. Len(fifo') \in Nat /\ at[2] \in Nat
        BY <1>c, <4>1, ByteFacts, LenProperties DEF ChipTypes
      <4>3. Len(fifo') <= FifoBytes /\ (mode' = "recording" => at'[2] < CaptureBytes /\ at'[1] > 0)
        BY <2>1, <4>1, <4>2, Lengths
      <4>4. QED
        BY <1>2, <1>c, <2>1, <4>1, <4>3 DEF Byte, ChipTypes
    <3>3. QED
      BY <3>1, <3>2
  <2>6. QED
    BY <1>2, <1>t, <1>l, <2>5 DEF Byte, task, Types, TaskTypes, LoopTypes
<1>3. CASE GiveUp \/ Glitch
  <2>1. fifo' \in Seq(Bytes) /\ Len(fifo') <= FifoBytes
    <3>1. <<>> \in Seq(Bytes) /\ Len(<<>>) <= FifoBytes
      BY EmptySeq, Lengths
    <3>2. fifo' = fifo \/ fifo' = <<>>
      BY <1>3 DEF GiveUp, Glitch
    <3>3. QED
      BY <1>c, <3>1, <3>2 DEF ChipTypes
  <2>2. faults' \in 0..MaxFaults
    BY <1>3, <1>l, Lengths DEF GiveUp, Glitch, Fault, LoopTypes
  <2>3. QED
    BY <1>3, <1>c, <1>t, <1>l, <2>1, <2>2 DEF GiveUp, Glitch, task, Types, ChipTypes, TaskTypes, LoopTypes
<1>4. CASE Tune \/ \E what \in Requests : Ask(what)
  <2>1. tunes' \in 0..MaxTunes /\ staged' \in 0..MaxTunes /\ staged' <= tunes'
    BY <1>4, <1>l, Lengths DEF Tune, Ask, LoopTypes
  <2>2. asked' \subseteq {"scan", "reset", "reconfig"}
    BY <1>4, <1>l, Lengths DEF Tune, Ask, LoopTypes
  <2>3. QED
    BY <1>4, <1>c, <1>t, <1>l, <2>1, <2>2 DEF Tune, Ask, chip, task, Types, ChipTypes, TaskTypes, LoopTypes
<1>5. CASE Process
  <2>1. /\ Head(queue) \in Seq(Bytes) /\ queue' \in Seq(Seq(Bytes)) /\ Len(queue') = Len(queue) - 1
        /\ Len(queue) \in Nat
    BY <1>5, <1>l, HeadTailProperties, LenProperties DEF Process, LoopTypes
  <2>2. out' \in Seq(Seq(Bytes)) /\ Len(queue') <= QueueDepth
    BY <1>5, <1>l, <2>1, AppendProperties, Lengths DEF Process, LoopTypes
  <2>3. QED
    BY <1>5, <1>c, <1>t, <1>l, <2>1, <2>2 DEF Process, chip, task, Types, ChipTypes, TaskTypes, LoopTypes
<1>6. CASE Scan \/ HardReset \/ VerifyRegisters \/ StrobeRearm \/ Configured
  <2>1. /\ Restart \/ NoRestart
        /\ NotConfigured \/ \E old \in {Lost, regs} : ConfigureRadio(old)
    <3>1. CASE HardReset
      BY <3>1 DEF HardReset
    <3>2. CASE VerifyRegisters
      BY <3>2 DEF VerifyRegisters
    <3>3. CASE Scan \/ StrobeRearm \/ Configured
      BY <3>3 DEF Scan, StrobeRearm, Configured, NotConfigured
    <3>4. QED
      BY <1>6, <3>1, <3>2, <3>3
  <2>2. /\ at' = at /\ avail' = avail /\ bad' = bad /\ queue' = queue /\ staged' = staged /\ lost' = lost
        /\ out' = out /\ tunes' = tunes /\ excused' = excused
        /\ asked' \subseteq asked /\ pc' \in {"reset", "reconfig", "scan", "health", "drain"}
    BY <1>6 DEF Scan, HardReset, VerifyRegisters, StrobeRearm, Configured
  <2>3. /\ regs' \in {Lost} \cup 0..MaxTunes /\ faults' \in 0..MaxFaults
        /\ refused' \in {Lost} \cup 0..MaxTunes
    BY <1>c, <1>l, <2>1, ConfigureTypes DEF ChipTypes
  <2>4. LoopTypes'
    BY <1>l, <2>2, <2>3 DEF LoopTypes
  <2>5. CASE Restart
    <3>1. ChipTypes'
      BY <1>c, <2>2, <2>3, <2>5, RestartTypes DEF ChipTypes
    <3>2. TaskTypes'
      BY <1>t, <2>2, <2>5, RestartTypes DEF TaskTypes
    <3>3. QED
      BY <2>4, <3>1, <3>2 DEF Types
  <2>6. CASE NoRestart
    BY <1>c, <1>t, <2>2, <2>3, <2>4, <2>6 DEF NoRestart, Types, ChipTypes, TaskTypes
  <2>7. QED
    BY <2>1, <2>5, <2>6
<1>7. CASE Reconfig \/ Configure \/ IdleRearm \/ NotDue
  <2>1. /\ asked' \subseteq asked
        /\ NotConfigured \/ \E old \in {Lost, regs} : ConfigureRadio(old)
    <3>1. CASE Configure
      BY <3>1 DEF Configure
    <3>2. CASE Reconfig \/ IdleRearm \/ NotDue
      BY <3>2 DEF Reconfig, IdleRearm, NotDue, NotConfigured, chip
    <3>3. QED
      BY <1>7, <3>1, <3>2
  <2>2. /\ regs' \in {Lost} \cup 0..MaxTunes /\ faults' \in 0..MaxFaults
        /\ refused' \in {Lost} \cup 0..MaxTunes
    BY <1>c, <1>l, <2>1, ConfigureTypes DEF ChipTypes
  <2>3. UNCHANGED <<mode, fifo, at, clash, cur, seen, avail, bad, queue, staged, lost, out, tunes, excused>>
    BY <1>7 DEF Reconfig, Configure, IdleRearm, NotDue, chip
  <2>4. pc' \in {"scan", "configure", "drain", "written", "strobe", "quiet", "rearm", "health", "verify"}
    BY <1>7 DEF Reconfig, Configure, IdleRearm, NotDue
  <2>5. QED
    BY <1>c, <1>t, <1>l, <2>1, <2>2, <2>3, <2>4 DEF Types, ChipTypes, TaskTypes, LoopTypes
<1>8. CASE Drain
  <2>1. Len(fifo) \in Nat /\ Len(cur) \in Nat
    BY <1>c, <1>t, LenProperties DEF ChipTypes, TaskTypes
  <2>2. CASE lost' = lost + 1 /\ Restart /\ pc' = "quiet" /\ UNCHANGED avail
    <3>1. ChipTypes' /\ TaskTypes'
      BY <1>8, <1>c, <1>t, <2>2, RestartTypes DEF Drain, ChipTypes, TaskTypes
    <3>2. QED
      BY <1>8, <1>l, <2>2, <3>1 DEF Drain, Types, LoopTypes
  <2>3. CASE /\ avail' = Len(fifo) /\ seen' = Len(cur) + Len(fifo) /\ pc' = "part"
             /\ UNCHANGED <<mode, fifo, clash, cur, lost>>
    BY <1>8, <1>c, <1>t, <1>l, <2>1, <2>3, Lengths DEF Drain, Types, ChipTypes, TaskTypes, LoopTypes
  <2>4. QED
    BY <1>8, <2>2, <2>3 DEF Drain
<1>9. CASE DrainPart
  <2>1. Take \in Nat \ {0} /\ Take <= Len(fifo) /\ Take <= Remaining /\ Take <= avail
        /\ Len(cur) \in Nat /\ Len(fifo) \in Nat
    <3>1. Len(fifo) \in Nat /\ Len(cur) \in Nat
      BY <1>c, <1>t, LenProperties DEF ChipTypes, TaskTypes
    <3>2. QED
      BY <1>9, <1>t, <3>1, Lengths DEF DrainPart, Take, Remaining, TaskTypes
  <2> DEFINE read == cur \o SubSeq(fifo, 1, Take)
  <2>2. /\ read \in Seq(Bytes) /\ Len(read) = Len(cur) + Take
        /\ SubSeq(fifo, Take + 1, Len(fifo)) \in Seq(Bytes)
        /\ Len(SubSeq(fifo, Take + 1, Len(fifo))) = Len(fifo) - Take
    BY <2>1, ReadFacts
  <2>3. IF Len(read) = CaptureBytes
        THEN Send(read) /\ cur' = <<>>
        ELSE cur' = read /\ UNCHANGED <<queue, lost>>
    BY <1>9 DEF DrainPart
  <2>4. fifo' \in Seq(Bytes) /\ Len(fifo') <= FifoBytes /\ avail' \in 0..FifoBytes /\ clash' \in BOOLEAN
        /\ excused' \in BOOLEAN
    BY <1>9, <1>c, <1>t, <1>l, <2>1, <2>2, Lengths DEF DrainPart, ChipTypes, TaskTypes, LoopTypes
  <2>5. cur' \in Seq(Bytes) /\ Len(cur') < CaptureBytes
    <3>1. CASE Len(read) = CaptureBytes
      BY <2>3, <3>1, EmptySeq, Lengths
    <3>2. CASE Len(read) # CaptureBytes
      <4>1. cur' = read
        BY <2>3, <3>2
      <4>2. Len(read) = Len(cur) + Take /\ Take <= CaptureBytes - Len(cur)
        BY <2>1, <2>2 DEF Remaining
      <4> HIDE DEF read, Take
      <4>3. QED
        BY <2>1, <2>2, <3>2, <4>1, <4>2, Lengths
    <3>3. QED
      BY <3>1, <3>2
  <2>6. queue' \in Seq(Seq(Bytes)) /\ Len(queue') <= QueueDepth /\ lost' \in Nat
    BY <1>l, <2>2, <2>3, SendTypes DEF LoopTypes
  <2>7. QED
    BY <1>9, <1>c, <1>t, <1>l, <2>4, <2>5, <2>6 DEF DrainPart, Types, ChipTypes, TaskTypes, LoopTypes
<1>10. CASE ReadNothing
  <2>1. Take \in Nat \ {0} /\ Take <= Remaining /\ Len(cur) \in Nat
    <3>1. Len(cur) \in Nat
      BY <1>t, LenProperties DEF TaskTypes
    <3>2. QED
      BY <1>10, <1>t, <3>1, Lengths DEF ReadNothing, Take, Remaining, TaskTypes
  <2>2. [i \in 1..Take |-> <<0, 0>>] \in Seq(Bytes) /\ Len([i \in 1..Take |-> <<0, 0>>]) = Take
    <3>1. <<0, 0>> \in Bytes
      BY ByteFacts, Lengths
    <3> HIDE DEF Take
    <3>2. QED
      BY <2>1, <3>1
  <2>3. cur' \in Seq(Bytes) /\ Len(cur') < CaptureBytes
    <3>1. CASE Take = Remaining
      BY <1>10, <3>1, EmptySeq, Lengths DEF ReadNothing
    <3>2. CASE Take # Remaining
      <4>1. cur' = cur \o [i \in 1..Take |-> <<0, 0>>]
        BY <1>10, <3>2 DEF ReadNothing
      <4>2. cur' \in Seq(Bytes) /\ Len(cur') = Len(cur) + Take
        BY <1>t, <2>2, <4>1, ConcatProperties DEF TaskTypes
      <4>3. QED
        BY <2>1, <3>2, <4>2, Lengths DEF Remaining
    <3>3. QED
      BY <3>1, <3>2
  <2>4. fifo' \in Seq(Bytes) /\ Len(fifo') <= FifoBytes
    BY <1>10, EmptySeq, Lengths DEF ReadNothing
  <2>5. QED
    <3>1. /\ avail' = 0 /\ 0 \in 0..FifoBytes /\ clash' = FALSE /\ excused' = TRUE /\ pc' = "part"
          /\ UNCHANGED <<mode, at, regs, seen, bad, queue, staged, asked, lost, out, tunes, faults, refused>>
      BY <1>10, Lengths DEF ReadNothing
    <3>2. QED
      BY <1>c, <1>t, <1>l, <2>3, <2>4, <3>1 DEF Types, ChipTypes, TaskTypes, LoopTypes
<1>11. CASE DrainDone
  <2>1. Len(cur) \in Nat
    BY <1>t, LenProperties DEF TaskTypes
  <2>2. seen' \in Nat
    BY <1>11, <1>t, <2>1, Lengths DEF DrainDone, TaskTypes
  <2>3. QED
    BY <1>11, <1>c, <1>t, <1>l, <2>2 DEF DrainDone, chip, Types, ChipTypes, TaskTypes, LoopTypes
<1>12. CASE EndCaptureEarly
  <2> DEFINE n == IF Len(fifo) < Remaining THEN Len(fifo) ELSE Remaining
             read == cur \o SubSeq(fifo, 1, n)
  <2>1. n \in Nat /\ n <= Len(fifo)
    <3>1. Len(fifo) \in Nat /\ Len(cur) \in Nat
      BY <1>c, <1>t, LenProperties DEF ChipTypes, TaskTypes
    <3>2. QED
      BY <1>t, <3>1, Lengths DEF Remaining, TaskTypes
  <2> HIDE DEF n
  <2>2. read \in Seq(Bytes)
    BY <2>1, ReadFacts
  <2>3. Restart /\ (Send(read) \/ UNCHANGED <<queue, lost>>)
    BY <1>12 DEF EndCaptureEarly, n
  <2>4. queue' \in Seq(Seq(Bytes)) /\ Len(queue') <= QueueDepth /\ lost' \in Nat
    BY <1>l, <2>2, <2>3, SendTypes DEF LoopTypes
  <2>5. /\ pc' = "rearm" /\ UNCHANGED <<at, regs, avail, bad, staged, asked, out, tunes, faults, excused, refused>>
    BY <1>12 DEF EndCaptureEarly
  <2>6. ChipTypes' /\ TaskTypes'
    BY <1>c, <1>t, <2>3, <2>5, RestartTypes DEF ChipTypes, TaskTypes
  <2>7. QED
    BY <1>l, <2>4, <2>5, <2>6 DEF Types, LoopTypes
<1>13. CASE HealthCheck
  <2>1. /\ Restart \/ NoRestart
        /\ lost' \in Nat /\ bad' \in 0..1
    BY <1>13, <1>t, <1>l DEF HealthCheck, TaskTypes, LoopTypes
  <2>2. pc' = "verify" /\ UNCHANGED <<at, regs, avail, queue, staged, asked, out, tunes, faults, excused, refused>>
    BY <1>13 DEF HealthCheck
  <2>3. LoopTypes'
    BY <1>l, <2>1, <2>2 DEF LoopTypes
  <2>4. ChipTypes' /\ TaskTypes'
    <3>1. CASE Restart
      BY <1>c, <1>t, <2>1, <2>2, <3>1, RestartTypes DEF ChipTypes, TaskTypes
    <3>2. CASE NoRestart
      BY <1>c, <1>t, <2>1, <2>2, <3>2 DEF NoRestart, ChipTypes, TaskTypes
    <3>3. QED
      BY <2>1, <3>1, <3>2
  <2>5. QED
    BY <2>3, <2>4 DEF Types
<1>14. QED
  BY <1>0, <1>1, <1>2, <1>3, <1>4, <1>5, <1>6, <1>7, <1>8, <1>9, <1>10, <1>11, <1>12, <1>13 DEF Next, TaskStep

\* At the start nothing is read, recorded or asked for.
LEMMA InitTypes == Init => Types
<1> SUFFICES ASSUME Init PROVE Types
  OBVIOUS
<1>1. <<0, 0>> \in Bytes
  BY ByteFacts, Lengths
<1>2. <<>> \in Seq(Bytes) /\ Len(<<>>) = 0 /\ <<>> \in Seq(Seq(Bytes))
  BY EmptySeq
<1>3. ChipTypes
  <2>1. fifo \in Seq(Bytes) /\ Len(fifo) = 0 /\ regs = 0 /\ 0 \in 0..MaxTunes /\ 0 <= FifoBytes
    BY <1>2, Lengths DEF Init
  <2>2. QED
    BY <1>1, <2>1 DEF Init, ChipTypes
<1>4. TaskTypes
  BY <1>2, Lengths DEF Init, TaskTypes
<1>5. LoopTypes
  <2>1. /\ queue \in Seq(Seq(Bytes)) /\ out \in Seq(Seq(Bytes)) /\ Len(queue) = 0 /\ 0 <= QueueDepth
        /\ staged = 0 /\ tunes = 0 /\ faults = 0 /\ lost = 0 /\ refused = Lost
        /\ 0 \in 0..MaxTunes /\ 0 \in 0..MaxFaults /\ 0 \in Nat /\ 0 <= 0
    BY <1>2, Lengths DEF Init
  <2>2. QED
    BY <2>1 DEF Init, LoopTypes
<1>6. QED
  BY <1>3, <1>4, <1>5 DEF Types

\* The limits of chip, task and loop(), from any length of capture, FIFO and queue.
THEOREM TypeCorrect == Spec => []TypeOK
<1>1. Init => Types
  BY InitTypes
<1>2. Types => TypeOK
  BY DEF Types, ChipTypes, TaskTypes, LoopTypes, TypeOK
<1>3. QED
  BY <1>1, <1>2, TypesKept, PTL DEF Spec

(***************************************************************************)
(* Streams.                                                                *)
(***************************************************************************)

\* In a stream captures follow each other: their numbers never go back, and the
\* first bytes are one capture from its first byte on.
LEMMA ChainFacts ==
  ASSUME NEW s \in Seq(Bytes), Chain(s), s # <<>>
  PROVE  /\ Len(s) \in Nat \ {0} /\ \A i \in 1..Len(s) : s[i] \in Bytes
         /\ \A i, j \in 1..Len(s) : i <= j => s[i][1] <= s[j][1]
         /\ \A i \in 1..Len(s) : i <= CaptureBytes => s[i] = <<s[1][1], i>>
         /\ \A i \in 1..Len(s) : i > CaptureBytes => s[1][1] < s[i][1]
<1>1. Len(s) \in Nat \ {0} /\ \A i \in 1..Len(s) : s[i] \in Bytes
  BY EmptySeq, ElementOfSeq
<1>2. \A i \in 1..Len(s) : s[i][1] \in Nat /\ s[i][2] \in 1..CaptureBytes
  BY <1>1, ByteFacts DEF Chain
<1>3. ASSUME NEW i \in 1..Len(s), NEW j \in 1..Len(s), i <= j PROVE s[i][1] <= s[j][1]
  <2>1. CASE j - i <= Left(s[i])
    <3>1. s[j] = <<s[i][1], s[i][2] + (j - i)>>
      BY <1>3, <2>1 DEF Chain
    <3>2. QED
      BY <1>2, <3>1
  <2>2. CASE j - i > Left(s[i])
    <3>1. i < j
      BY <1>1, <1>2, <1>3, <2>2, Lengths DEF Left
    <3>2. QED
      BY <1>2, <2>2, <3>1 DEF Chain
  <2>3. QED
    BY <1>1, <1>2, <2>1, <2>2, Lengths DEF Left
<1>4. 1 \in 1..Len(s) /\ s[1][2] = 1 /\ Left(s[1]) = CaptureBytes - 1
  BY <1>1 DEF Chain, Left
<1>5. ASSUME NEW i \in 1..Len(s), i <= CaptureBytes PROVE s[i] = <<s[1][1], i>>
  <2>1. 1 <= i /\ i - 1 <= Left(s[1]) /\ 1 + (i - 1) = i
    BY <1>1, <1>4, <1>5, Lengths
  <2>2. s[i] = <<s[1][1], s[1][2] + (i - 1)>>
    BY <1>4, <2>1 DEF Chain
  <2>3. QED
    BY <1>4, <2>1, <2>2
<1>6. ASSUME NEW i \in 1..Len(s), i > CaptureBytes PROVE s[1][1] < s[i][1]
  <2>1. 1 < i /\ i - 1 > Left(s[1])
    BY <1>1, <1>4, <1>6, Lengths
  <2>2. QED
    BY <1>4, <2>1 DEF Chain
<1>7. QED
  BY <1>1, <1>3, <1>5, <1>6

\* The next byte of a capture, or the first of a later one, carries a stream on.
LEMMA ChainAppend ==
  ASSUME NEW s \in Seq(Bytes), Chain(s), NEW b \in Bytes,
         NEW t \in Seq(Bytes), Len(t) = Len(s) + 1,
         \A i \in 1..Len(s) : t[i] = s[i], t[Len(s) + 1] = b,
         s = <<>> => b[2] = 1,
         s # <<>> => \/ b = <<s[Len(s)][1], s[Len(s)][2] + 1>> /\ s[Len(s)][2] < CaptureBytes
                     \/ s[Len(s)][2] = CaptureBytes /\ b[2] = 1 /\ s[Len(s)][1] < b[1]
  PROVE  Chain(t)
<1> DEFINE n == Len(s)
<1>1. n \in Nat /\ (s = <<>> <=> n = 0) /\ t # <<>>
  <2>1. Len(s) \in Nat /\ (s # <<>> => Len(s) # 0) /\ (s = <<>> => Len(s) = 0)
    BY EmptySeq, LenProperties
  <2>2. Len(t) # 0
    BY <2>1
  <2>3. QED
    BY <2>1, <2>2, EmptySeq
<1>2. \A i \in 1..n : t[i] = s[i] /\ s[i][1] \in Nat /\ s[i][2] \in 1..CaptureBytes
  <2>1. \A i \in 1..n : t[i] = s[i] /\ s[i] \in Bytes
    BY ElementOfSeq
  <2>2. \A i \in 1..n : s[i][2] \in 1..CaptureBytes
    BY DEF Chain
  <2>3. \A x \in Bytes : x[1] \in Nat
    BY ByteFacts
  <2>4. QED
    BY <2>1, <2>2, <2>3
<1>4. /\ \A i, j \in 1..n : i <= j /\ j - i <= Left(s[i]) => s[j] = <<s[i][1], s[i][2] + (j - i)>>
      /\ \A i, j \in 1..n : i < j /\ j - i > Left(s[i]) => s[i][1] < s[j][1]
      /\ \A i, j \in 1..n : j - i = Left(s[i]) + 1 => s[j][2] = 1
      /\ n > 0 => s[1][2] = 1
  BY <1>1 DEF Chain
<1>5. n > 0 => \/ b = <<s[n][1], s[n][2] + 1>> /\ s[n][2] < CaptureBytes
               \/ s[n][2] = CaptureBytes /\ b[2] = 1 /\ s[n][1] < b[1]
  BY <1>1
<1>6. n = 0 => b[2] = 1
  BY <1>1
<1> HIDE DEF n
<1>3. t[n + 1] = b /\ b[1] \in Nat /\ b[2] \in 1..CaptureBytes /\ Len(t) = n + 1
  <2>1. b[1] \in Nat /\ b[2] \in Nat
    BY ByteFacts
  <2>2. n > 0 => n \in 1..n
    BY <1>1
  <2>3. n > 0 => b[2] \in 1..CaptureBytes
    <3>1. CASE b = <<s[n][1], s[n][2] + 1>> /\ s[n][2] < CaptureBytes /\ n > 0
      <4>1. b[2] = s[n][2] + 1 /\ s[n][2] \in 1..CaptureBytes
        BY <1>2, <2>2, <3>1
      <4>2. QED
        BY <3>1, <4>1, Lengths
    <3>2. CASE b[2] = 1
      BY <3>2, Lengths
    <3>3. QED
      BY <1>5, <3>1, <3>2
  <2>4. QED
    BY <1>1, <1>6, <2>1, <2>3, Lengths DEF n
<1>7. \A i \in 1..(n + 1) : i \in 1..n \/ i = n + 1
  BY <1>1
<1>8. \A i \in 1..(n + 1) : t[i][1] \in Nat /\ t[i][2] \in 1..CaptureBytes
  BY <1>2, <1>3, <1>7
<1>9. t[1][2] = 1
  <2>1. n > 0 => 1 \in 1..n
    BY <1>1
  <2>2. QED
    BY <1>1, <1>2, <1>3, <1>4, <1>6, <2>1
<1>10. ASSUME NEW i \in 1..n, n + 1 - i <= Left(s[i])
       PROVE  b = <<s[i][1], s[i][2] + (n + 1 - i)>>
  <2>1. n > 0 /\ n \in 1..n /\ i <= n /\ n - i <= Left(s[i])
    BY <1>1, <1>2, <1>10, Lengths DEF Left
  <2>2. s[n] = <<s[i][1], s[i][2] + (n - i)>>
    BY <1>4, <2>1
  <2>3. s[n][2] < CaptureBytes
    BY <1>1, <1>2, <1>10, <2>2, Lengths DEF Left
  <2>4. b = <<s[n][1], s[n][2] + 1>>
    BY <1>5, <2>1, <2>3, Lengths
  <2>5. s[n][1] = s[i][1] /\ s[n][2] + 1 = s[i][2] + (n + 1 - i)
    <3>1. s[n][1] = s[i][1] /\ s[n][2] = s[i][2] + (n - i)
      BY <2>2
    <3>2. s[i][2] + (n - i) + 1 = s[i][2] + (n + 1 - i)
      <4>1. \A x, y, z \in Int : x + (y - z) + 1 = x + (y + 1 - z)
        OBVIOUS
      <4>2. s[i][2] \in Int /\ n \in Int /\ i \in Int
        BY <1>1, <1>2
      <4>3. QED
        BY <4>1, <4>2
    <3>3. QED
      BY <3>1, <3>2
  <2>6. QED
    BY <2>4, <2>5
<1>11. ASSUME NEW i \in 1..n, n + 1 - i > Left(s[i])
       PROVE  s[i][1] < b[1] /\ (n + 1 - i = Left(s[i]) + 1 => b[2] = 1)
  <2>1. n > 0 /\ n \in 1..n /\ i <= n
    BY <1>1
  <2>2. CASE n - i > Left(s[i])
    <3>1. i < n
      BY <1>1, <1>2, <2>1, <2>2, Lengths DEF Left
    <3>2. s[i][1] < s[n][1]
      BY <1>4, <2>1, <2>2, <3>1
    <3>3. s[n][1] <= b[1]
      BY <1>2, <1>3, <1>5, <2>1
    <3>4. QED
      BY <1>1, <1>2, <1>3, <2>1, <2>2, <3>2, <3>3, Lengths DEF Left
  <2>3. CASE n - i = Left(s[i])
    <3>1. s[n] = <<s[i][1], s[i][2] + (n - i)>>
      BY <1>1, <1>2, <1>4, <2>1, <2>3, Lengths DEF Left
    <3>2. s[n][2] = CaptureBytes /\ s[n][1] = s[i][1]
      BY <1>1, <1>2, <2>3, <3>1, Lengths DEF Left
    <3>3. QED
      BY <1>5, <2>1, <3>2, Lengths
  <2>4. QED
    BY <1>1, <1>2, <1>11, <2>2, <2>3, Lengths DEF Left
<1>12. \A i, j \in 1..(n + 1) : i <= j /\ j - i <= Left(t[i]) => t[j] = <<t[i][1], t[i][2] + (j - i)>>
  <2> TAKE i, j \in 1..(n + 1)
  <2> HAVE i <= j /\ j - i <= Left(t[i])
  <2>1. CASE j \in 1..n
    <3>1. i \in 1..n
      BY <1>1, <2>1
    <3>2. QED
      BY <1>2, <1>4, <2>1, <3>1
  <2>2. CASE j = n + 1 /\ i \in 1..n
    <3>1. t[i] = s[i] /\ t[j] = b
      BY <1>2, <1>3, <2>2
    <3>2. Left(t[i]) = Left(s[i]) /\ j - i = n + 1 - i
      <4>1. Left(t[i]) = Left(s[i])
        BY <3>1 DEF Left
      <4>2. j = n + 1
        BY <2>2
      <4>3. j - i = n + 1 - i
        BY <1>1, <4>2
      <4>4. QED
        BY <4>1, <4>3
    <3>3. b = <<s[i][1], s[i][2] + (n + 1 - i)>>
      BY <1>10, <2>2, <3>2
    <3>4. <<t[i][1], t[i][2] + (j - i)>> = <<s[i][1], s[i][2] + (n + 1 - i)>>
      BY <3>1, <3>2
    <3>5. QED
      BY <3>1, <3>3, <3>4
  <2>3. CASE j = n + 1 /\ i = n + 1
    <3>1. t[i] \in Bytes /\ j - i = 0 /\ t[i][2] \in Nat
      BY <1>1, <1>3, <2>3, ByteFacts
    <3>2. t[i] = <<t[i][1], t[i][2]>> /\ t[i][2] + (j - i) = t[i][2]
      <4>1. t[i] = <<t[i][1], t[i][2]>>
        BY <3>1, ByteFacts
      <4>2. \A x \in Nat : x + 0 = x
        OBVIOUS
      <4>3. QED
        BY <3>1, <4>1, <4>2
    <3>3. QED
      BY <2>3, <3>2
  <2>4. QED
    BY <1>7, <2>1, <2>2, <2>3
<1>13. \A i, j \in 1..(n + 1) : i < j /\ j - i > Left(t[i]) => t[i][1] < t[j][1]
  <2> TAKE i, j \in 1..(n + 1)
  <2> HAVE i < j /\ j - i > Left(t[i])
  <2>1. i \in 1..n
    BY <1>1
  <2>2. CASE j \in 1..n
    BY <1>2, <1>4, <2>1, <2>2
  <2>3. CASE j = n + 1
    <3>1. t[i] = s[i] /\ t[j] = b
      BY <1>2, <1>3, <2>1, <2>3
    <3>2. Left(t[i]) = Left(s[i]) /\ j - i = n + 1 - i
      <4>1. Left(t[i]) = Left(s[i])
        BY <3>1 DEF Left
      <4>2. j = n + 1
        BY <2>3
      <4>3. j - i = n + 1 - i
        BY <1>1, <4>2
      <4>4. QED
        BY <4>1, <4>3
    <3>3. s[i][1] < b[1]
      BY <1>11, <2>1, <3>2
    <3>4. QED
      BY <3>1, <3>3
  <2>4. QED
    BY <1>7, <2>2, <2>3
<1>14. \A i, j \in 1..(n + 1) : j - i = Left(t[i]) + 1 => t[j][2] = 1
  <2> TAKE i, j \in 1..(n + 1)
  <2> HAVE j - i = Left(t[i]) + 1
  <2>1. i < j /\ i \in 1..n
    BY <1>1, <1>8, Lengths DEF Left
  <2>2. CASE j \in 1..n
    BY <1>2, <1>4, <2>1, <2>2
  <2>3. CASE j = n + 1
    <3>1. n + 1 - i > Left(s[i]) /\ n + 1 - i = Left(s[i]) + 1
      BY <1>1, <1>2, <2>1, <2>3, Lengths DEF Left
    <3>2. QED
      BY <1>3, <1>11, <2>1, <2>3, <3>1
  <2>4. QED
    BY <1>7, <2>2, <2>3
<1>15. QED
  BY <1>3, <1>8, <1>9, <1>12, <1>13, <1>14 DEF Chain

\* What is left of a stream when bytes are taken off its start is a stream if
\* a capture starts there; so is every beginning of it.
LEMMA ChainPart ==
  ASSUME NEW s \in Seq(Bytes), Chain(s), NEW n \in Nat, NEW t \in Seq(Bytes),
         Len(t) + n <= Len(s), \A i \in 1..Len(t) : t[i] = s[n + i],
         n = 0 \/ (n < Len(s) => s[n + 1][2] = 1)
  PROVE  Chain(t)
<1>1. Len(s) \in Nat /\ Len(t) \in Nat
  BY LenProperties
<1>2. \A i \in 1..Len(t) : n + i \in 1..Len(s) /\ t[i] = s[n + i]
  BY <1>1
<1>3. t # <<>> => t[1][2] = 1
  <2> SUFFICES ASSUME t # <<>> PROVE t[1][2] = 1
    OBVIOUS
  <2>1. Len(t) # 0
    BY EmptySeq
  <2>2. 1 \in 1..Len(t) /\ n < Len(s)
    BY <1>1, <2>1
  <2>3. s # <<>>
    BY <1>1, <2>2, EmptySeq
  <2>4. t[1] = s[n + 1] /\ (n = 0 => n + 1 = 1)
    BY <1>2, <2>2
  <2>5. QED
    BY <2>2, <2>3, <2>4 DEF Chain
<1>4. \A i \in 1..Len(t) : t[i][2] \in 1..CaptureBytes
  BY <1>2 DEF Chain
<1>5. \A i, j \in 1..Len(t) : (n + j) - (n + i) = j - i /\ (n + i <= n + j <=> i <= j) /\ (n + i < n + j <=> i < j)
  BY <1>1
<1>6. \A i, j \in 1..Len(t) : i <= j /\ j - i <= Left(t[i]) => t[j] = <<t[i][1], t[i][2] + (j - i)>>
  <2> TAKE i, j \in 1..Len(t)
  <2> HAVE i <= j /\ j - i <= Left(t[i])
  <2>1. n + i <= n + j /\ (n + j) - (n + i) <= Left(s[n + i])
    BY <1>2, <1>5
  <2>2. s[n + j] = <<s[n + i][1], s[n + i][2] + ((n + j) - (n + i))>>
    BY <1>2, <2>1 DEF Chain
  <2>3. QED
    BY <1>2, <1>5, <2>2
<1>7. \A i, j \in 1..Len(t) : i < j /\ j - i > Left(t[i]) => t[i][1] < t[j][1]
  <2> TAKE i, j \in 1..Len(t)
  <2> HAVE i < j /\ j - i > Left(t[i])
  <2>1. n + i < n + j /\ (n + j) - (n + i) > Left(s[n + i])
    BY <1>2, <1>5
  <2>2. QED
    BY <1>2, <2>1 DEF Chain
<1>8. \A i, j \in 1..Len(t) : j - i = Left(t[i]) + 1 => t[j][2] = 1
  <2> TAKE i, j \in 1..Len(t)
  <2> HAVE j - i = Left(t[i]) + 1
  <2>1. (n + j) - (n + i) = Left(s[n + i]) + 1
    BY <1>2, <1>5
  <2>2. QED
    BY <1>2, <2>1 DEF Chain
<1>9. QED
  BY <1>3, <1>4, <1>6, <1>7, <1>8 DEF Chain

\* What is read off the FIFO goes from the second half of the stream to the first.
LEMMA JoinSplit ==
  ASSUME NEW c \in Seq(Bytes), NEW f \in Seq(Bytes), NEW n \in 0..Len(f)
  PROVE  (c \o SubSeq(f, 1, n)) \o SubSeq(f, n + 1, Len(f)) = c \o f
<1> DEFINE h == SubSeq(f, 1, n)
           t == SubSeq(f, n + 1, Len(f))
<1>1. Len(f) \in Nat /\ n \in Nat /\ n <= Len(f)
  BY LenProperties
<1>2. h \in Seq(Bytes) /\ t \in Seq(Bytes)
  BY <1>1, ElementOfSeq
<1>3. h \o t = SubSeq(f, 1, Len(f))
  BY <1>1, 1 \in 1..(Len(f) + 1), n \in (1 - 1)..Len(f), Len(f) \in n..Len(f), ConcatAdjacentSubSeq
<1>4. SubSeq(f, 1, Len(f)) = f
  BY SubSeqFull
<1> HIDE DEF h, t
<1>5. (c \o h) \o t = c \o (h \o t)
  BY <1>2, ConcatAssociative
<1>6. (c \o h) \o t = c \o f
  BY <1>3, <1>4, <1>5
<1>7. QED
  BY <1>6 DEF h, t

\* Two halves of a stream, by length and byte.
LEMMA JoinFacts ==
  ASSUME NEW c \in Seq(Bytes), NEW f \in Seq(Bytes)
  PROVE  /\ c \o f \in Seq(Bytes) /\ Len(c \o f) = Len(c) + Len(f)
         /\ Len(c) \in Nat /\ Len(f) \in Nat
         /\ \A i \in 1..Len(c) : (c \o f)[i] = c[i]
         /\ \A i \in 1..Len(f) : (c \o f)[Len(c) + i] = f[i]
         /\ c = <<>> <=> Len(c) = 0
         /\ f = <<>> <=> Len(f) = 0
         /\ c \o f = <<>> <=> Len(c) + Len(f) = 0
<1>1. Len(f) \in Nat /\ Len(c) \in Nat
  BY LenProperties
<1>2. /\ c \o f \in Seq(Bytes) /\ Len(c \o f) = Len(c) + Len(f)
      /\ \A i \in 1..(Len(c) + Len(f)) : (c \o f)[i] = IF i <= Len(c) THEN c[i] ELSE f[i - Len(c)]
  BY <1>1, ConcatProperties
<1>3. \A i \in 1..Len(c) : (c \o f)[i] = c[i]
  BY <1>1, <1>2
<1>4. \A i \in 1..Len(f) : (c \o f)[Len(c) + i] = f[i]
  <2> TAKE i \in 1..Len(f)
  <2>1. Len(c) + i \in 1..(Len(c) + Len(f)) /\ ~(Len(c) + i <= Len(c)) /\ (Len(c) + i) - Len(c) = i
    BY <1>1
  <2>2. QED
    BY <1>2, <2>1
<1>5. \A s \in Seq(Bytes) : s = <<>> <=> Len(s) = 0
  BY EmptySeq
<1>6. QED
  BY <1>1, <1>2, <1>3, <1>4, <1>5

\* Where the stream and the captures that are over stand.
LEMMA StreamFacts ==
  ASSUME Types, Chain(Stream), AtNewest
  PROVE  /\ Stream \in Seq(Bytes) /\ Len(Stream) = Len(cur) + Len(fifo)
         /\ at[1] \in Nat /\ at[2] \in 0..CaptureBytes
         /\ Stream # <<>> => /\ Len(Stream) \in Nat \ {0} /\ Stream[1][1] \in Nat /\ Newest \in Bytes
                             /\ Newest[1] \in Nat /\ Newest[2] \in 1..CaptureBytes
                             /\ Stream[1][1] <= Newest[1] /\ Newest[1] <= at[1]
         /\ Done \in Int /\ Done <= at[1]
<1>1. cur \in Seq(Bytes) /\ fifo \in Seq(Bytes) /\ at \in Bytes
  BY DEF Types, ChipTypes, TaskTypes
<1>2. Stream \in Seq(Bytes) /\ Len(Stream) = Len(cur) + Len(fifo)
  BY <1>1, JoinFacts DEF Stream
<1>3. at[1] \in Nat /\ at[2] \in 0..CaptureBytes
  BY <1>1, ByteFacts
<1>4. ASSUME Stream # <<>>
      PROVE  /\ Len(Stream) \in Nat \ {0} /\ Stream[1][1] \in Nat /\ Newest \in Bytes
             /\ Newest[1] \in Nat /\ Newest[2] \in 1..CaptureBytes
             /\ Stream[1][1] <= Newest[1] /\ Newest[1] <= at[1]
  <2>1. /\ Len(Stream) \in Nat \ {0} /\ \A i \in 1..Len(Stream) : Stream[i] \in Bytes
        /\ \A i, j \in 1..Len(Stream) : i <= j => Stream[i][1] <= Stream[j][1]
    BY <1>2, <1>4, ChainFacts
  <2>2. 1 \in 1..Len(Stream) /\ Len(Stream) \in 1..Len(Stream) /\ 1 <= Len(Stream)
    BY <2>1
  <2>3. Stream[1] \in Bytes /\ Newest \in Bytes /\ Stream[1][1] <= Newest[1]
    BY <2>1, <2>2 DEF Newest
  <2>4. Newest[2] \in 1..CaptureBytes
    BY <2>2 DEF Chain, Newest
  <2>5. Newest[1] <= at[1]
    BY <1>4 DEF AtNewest
  <2>6. QED
    BY <2>1, <2>3, <2>4, <2>5, ByteFacts
<1>5. Done \in Int /\ Done <= at[1]
  <2>1. CASE Stream # <<>>
    BY <1>3, <1>4, <2>1 DEF Done
  <2>2. CASE Stream = <<>>
    BY <1>3, <2>2 DEF Done
  <2>3. QED
    BY <2>1, <2>2
<1>6. QED
  BY <1>2, <1>3, <1>4, <1>5

\* Nothing handed over: what was handed over or counted stays so, while the
\* captures that are over only grow, and a loss is one of them.
LEMMA NothingSent ==
  ASSUME Types, HandedOver, Done \in Int, Done' \in Int, Handed' = Handed,
         \/ lost' = lost /\ Done <= Done'
         \/ lost' = lost + 1 /\ Done < Done'
  PROVE  HandedOver'
<1> DEFINE h == Handed
<1>1. h \in Seq(Seq(Bytes)) /\ Len(h) \in Nat /\ lost \in Nat
  <2>1. out \in Seq(Seq(Bytes)) /\ queue \in Seq(Seq(Bytes)) /\ lost \in Nat
    BY DEF Types, LoopTypes
  <2>2. QED
    BY <2>1, ConcatProperties, LenProperties DEF Handed
<1>2. /\ \A i \in 1..Len(h) : IsWhole(h[i]) /\ h[i][1][1] <= Done
      /\ \A i, j \in 1..Len(h) : i < j => h[i][1][1] < h[j][1][1]
      /\ lost + Len(h) <= Done
  BY DEF HandedOver
<1>3. lost' + Len(h) <= Done' /\ Done <= Done'
  <2> HIDE DEF h
  <2>1. QED
    BY <1>1, <1>2
<1>4. ASSUME NEW i \in 1..Len(h) PROVE h[i][1][1] \in Int
  <2>1. h[i] \in Seq(Bytes) /\ IsWhole(h[i])
    BY <1>1, <1>2, ElementOfSeq
  <2>2. h[i][1] \in Bytes
    <3> DEFINE r == h[i]
    <3>1. r \in Seq(Bytes) /\ Len(r) >= MinBytes /\ Len(r) \in Nat
      BY <2>1, LenProperties DEF IsWhole
    <3> HIDE DEF r
    <3>2. 1 \in 1..Len(r)
      BY <3>1, Lengths
    <3>3. r[1] \in Bytes
      BY <3>1, <3>2, ElementOfSeq
    <3>4. QED
      BY <3>3 DEF r
  <2>3. QED
    BY <2>2, ByteFacts
<1>5. \A i \in 1..Len(h) : IsWhole(h[i]) /\ h[i][1][1] <= Done'
  <2> TAKE i \in 1..Len(h)
  <2>1. IsWhole(h[i]) /\ h[i][1][1] <= Done /\ h[i][1][1] \in Int
    BY <1>2, <1>4
  <2> HIDE DEF h
  <2>2. QED
    BY <1>3, <2>1
<1>6. Handed' = h
  OBVIOUS
<1> HIDE DEF h
<1>7. QED
  BY <1>2, <1>3, <1>5, <1>6 DEF HandedOver, IsWhole

\* A capture handed over goes behind all others, or is counted.
LEMMA OneSent ==
  ASSUME Types, HandedOver, Done \in Int, Done' \in Int, NEW r \in Seq(Bytes), IsWhole(r), Send(r),
         out' = out, Done < r[1][1], r[1][1] <= Done'
  PROVE  HandedOver'
<1>1. out \in Seq(Seq(Bytes)) /\ queue \in Seq(Seq(Bytes)) /\ lost \in Nat
  BY DEF Types, LoopTypes
<1>2. r[1][1] \in Int
  <2>1. Len(r) \in Nat /\ Len(r) >= MinBytes
    BY LenProperties DEF IsWhole
  <2>2. 1 \in 1..Len(r)
    BY <2>1, Lengths
  <2>3. r[1] \in Bytes
    BY <2>2, ElementOfSeq
  <2>4. QED
    BY <2>3, ByteFacts
<1>3. CASE ~(Len(queue) < QueueDepth)
  <2>1. lost' = lost + 1 /\ Handed' = Handed
    BY <1>3 DEF Send, Handed
  <2>2. Done < Done'
    BY <1>2
  <2>3. QED
    BY <2>1, <2>2, NothingSent
<1>4. CASE Len(queue) < QueueDepth
  <2> DEFINE h == Handed
             g == Handed'
  <2>1. lost' = lost /\ queue' = Append(queue, r)
    BY <1>4 DEF Send
  <2>2. g = Append(h, r)
    <3>1. Append(out \o queue, r) = (out \o queue) \o <<r>>
      BY <1>1, ConcatProperties, AppendIsConcat
    <3>2. Append(queue, r) = queue \o <<r>> /\ <<r>> \in Seq(Seq(Bytes))
      BY <1>1, AppendIsConcat
    <3>3. (out \o queue) \o <<r>> = out \o (queue \o <<r>>)
      BY <1>1, <3>2, ConcatAssociative
    <3>4. QED
      BY <2>1, <3>1, <3>2, <3>3 DEF Handed
  <2>3. h \in Seq(Seq(Bytes)) /\ Len(h) \in Nat
    BY <1>1, ConcatProperties, LenProperties DEF Handed
  <2>4. /\ \A i \in 1..Len(h) : IsWhole(h[i]) /\ h[i][1][1] <= Done
        /\ \A i, j \in 1..Len(h) : i < j => h[i][1][1] < h[j][1][1]
        /\ lost + Len(h) <= Done
    BY DEF HandedOver
  <2> HIDE DEF h, g
  <2>5. Len(g) = Len(h) + 1 /\ g[Len(h) + 1] = r /\ \A i \in 1..Len(h) : g[i] = h[i]
    BY <2>2, <2>3, AppendProperties
  <2>6. \A i \in 1..Len(h) : h[i][1][1] \in Int
    <3> TAKE i \in 1..Len(h)
    <3> DEFINE q == h[i]
    <3>1. q \in Seq(Bytes) /\ Len(q) >= MinBytes /\ Len(q) \in Nat
      BY <2>3, <2>4, ElementOfSeq, LenProperties DEF IsWhole
    <3> HIDE DEF q
    <3>2. 1 \in 1..Len(q)
      BY <3>1, Lengths
    <3>3. q[1] \in Bytes
      BY <3>1, <3>2, ElementOfSeq
    <3>4. QED
      BY <3>3, ByteFacts DEF q
  <2>7. \A i \in 1..Len(g) : i \in 1..Len(h) \/ i = Len(h) + 1
    BY <2>3, <2>5
  <2>8. \A i \in 1..Len(g) : IsWhole(g[i]) /\ g[i][1][1] <= Done'
    <3> TAKE i \in 1..Len(g)
    <3>1. CASE i \in 1..Len(h)
      <4>1. g[i] = h[i] /\ IsWhole(h[i]) /\ h[i][1][1] <= Done /\ h[i][1][1] \in Int
        BY <2>4, <2>5, <2>6, <3>1
      <4>2. h[i][1][1] <= Done'
        BY <1>2, <4>1
      <4>3. QED
        BY <4>1, <4>2
    <3>2. CASE i = Len(h) + 1
      BY <2>5, <3>2
    <3>3. QED
      BY <2>7, <3>1, <3>2
  <2>9. \A i, j \in 1..Len(g) : i < j => g[i][1][1] < g[j][1][1]
    <3> TAKE i, j \in 1..Len(g)
    <3> HAVE i < j
    <3>1. i \in 1..Len(h)
      BY <2>3, <2>5
    <3>2. CASE j \in 1..Len(h)
      BY <2>4, <2>5, <3>1, <3>2
    <3>3. CASE j = Len(h) + 1
      <4>1. g[j] = r /\ g[i] = h[i] /\ h[i][1][1] <= Done /\ h[i][1][1] \in Int
        BY <2>4, <2>5, <2>6, <3>1, <3>3
      <4>2. h[i][1][1] < r[1][1]
        BY <1>2, <4>1
      <4>3. QED
        BY <4>1, <4>2
    <3>4. QED
      BY <2>7, <3>2, <3>3
  <2>10. lost' + Len(g) <= Done'
    BY <1>1, <1>2, <2>1, <2>3, <2>4, <2>5
  <2>11. Handed' = g
    BY DEF g
  <2>12. QED
    BY <2>8, <2>9, <2>10, <2>11 DEF HandedOver, IsWhole
<1>5. QED
  BY <1>3, <1>4

\* Restart drops the stream and puts the chip into reception: what it had of a
\* capture is handed over, is counted, or is dropped.
LEMMA RestartAligned ==
  ASSUME Types, ~excused, Aligned, Restart, at' = at, pc' # "part",
         \/ lost' = lost /\ UNCHANGED <<queue, out>>
         \/ lost' = lost + 1 /\ UNCHANGED <<queue, out>> /\ Done < at[1]
         \/ \E r \in Seq(Bytes) : Send(r) /\ out' = out /\ IsWhole(r) /\ Done < r[1][1] /\ r[1][1] <= at[1]
  PROVE  Aligned'
<1>1. Chain(Stream) /\ AtNewest /\ HandedOver
  BY DEF Aligned
<1>2. Done \in Int /\ Done <= at[1] /\ at[1] \in Nat
  BY <1>1, StreamFacts
<1>3. Stream' = <<>> /\ clash' = FALSE /\ mode' = "rx"
  <2>1. cur' = <<>> /\ fifo' = <<>> /\ clash' = FALSE /\ mode' = "rx"
    BY DEF Restart
  <2>2. <<>> \o <<>> = <<>>
    BY EmptySeq, ConcatEmptySeq
  <2>3. QED
    BY <2>1, <2>2 DEF Stream
<1>4. Done' = at[1]
  BY <1>3 DEF Done
<1>5. HandedOver'
  <2>1. CASE lost' = lost /\ UNCHANGED <<queue, out>>
    <3>1. Handed' = Handed
      BY <2>1 DEF Handed
    <3>2. QED
      BY <1>1, <1>2, <1>4, <2>1, <3>1, NothingSent
  <2>2. CASE lost' = lost + 1 /\ UNCHANGED <<queue, out>> /\ Done < at[1]
    <3>1. Handed' = Handed
      BY <2>2 DEF Handed
    <3>2. QED
      BY <1>1, <1>2, <1>4, <2>2, <3>1, NothingSent
  <2>3. CASE \E r \in Seq(Bytes) : Send(r) /\ out' = out /\ IsWhole(r) /\ Done < r[1][1] /\ r[1][1] <= at[1]
    BY <1>1, <1>2, <1>4, <2>3, OneSent
  <2>4. QED
    BY <2>1, <2>2, <2>3
<1>6. Chain(Stream')
  BY <1>3, EmptySeq DEF Chain
<1>7. AtNewest'
  BY <1>3 DEF AtNewest
<1>8. Reads'
  BY DEF Reads
<1>9. QED
  BY <1>3, <1>5, <1>6, <1>7, <1>8 DEF Aligned, Chain

\* The chip overflowed with bytes in the stream or the first of a capture, and
\* a stall is of one begun: what is counted has begun and is not over.
LEMMA LossIsCapture ==
  ASSUME Types, Chain(Stream), AtNewest, mode = "overflow" \/ Stream # <<>>
  PROVE  Done < at[1]
<1>1. /\ at[1] \in Nat
      /\ Stream # <<>> => /\ Stream[1][1] \in Nat /\ Newest[1] \in Nat
                          /\ Stream[1][1] <= Newest[1] /\ Newest[1] <= at[1]
  BY StreamFacts
<1>2. CASE Stream # <<>>
  BY <1>1, <1>2 DEF Done
<1>3. CASE Stream = <<>>
  BY <1>1, <1>3 DEF Done
<1>4. QED
  BY <1>2, <1>3

\* The first bytes of the stream, one capture's at most, are one recording from
\* its first byte on, and it is the next behind those that are over.
LEMMA PartIsWhole ==
  ASSUME Types, Chain(Stream), AtNewest, NEW n \in 1..Len(fifo) \cup {0},
         Len(cur) + n <= CaptureBytes, Len(cur) + n >= MinBytes
  PROVE  LET r == cur \o SubSeq(fifo, 1, n) IN
           /\ r \in Seq(Bytes) /\ IsWhole(r) /\ Done < r[1][1] /\ r[1][1] <= at[1]
           /\ Stream # <<>> /\ r[1][1] = Stream[1][1] /\ Done = Stream[1][1] - 1
<1> DEFINE h == SubSeq(fifo, 1, n)
           r == cur \o h
<1>1. cur \in Seq(Bytes) /\ fifo \in Seq(Bytes) /\ Len(fifo) \in Nat /\ Len(cur) \in Nat
  BY LenProperties DEF Types, ChipTypes, TaskTypes
<1>2. n \in Nat /\ n <= Len(fifo)
  BY <1>1
<1>3. h \in Seq(Bytes) /\ Len(h) = n /\ \A i \in 1..n : h[i] = fifo[i]
  BY <1>2, ReadFacts
<1> HIDE DEF h
<1>4. /\ r \in Seq(Bytes) /\ Len(r) = Len(cur) + n
      /\ \A i \in 1..Len(cur) : r[i] = cur[i]
  <2>1. r \in Seq(Bytes) /\ Len(r) = Len(cur) + n
    BY <1>1, <1>3, JoinFacts
  <2>2. \A i \in 1..Len(cur) : r[i] = cur[i]
    BY <1>1, <1>3, JoinFacts
  <2>3. QED
    BY <2>1, <2>2
<1>5. \A i \in 1..n : r[Len(cur) + i] = h[i]
  BY <1>1, <1>3, JoinFacts
<1>6. /\ Len(Stream) = Len(cur) + Len(fifo) /\ Stream \in Seq(Bytes)
      /\ \A i \in 1..Len(cur) : Stream[i] = cur[i]
      /\ \A i \in 1..Len(fifo) : Stream[Len(cur) + i] = fifo[i]
  BY <1>1, JoinFacts DEF Stream
<1>7. \A i \in 1..Len(r) : r[i] = Stream[i]
  <2> TAKE i \in 1..Len(r)
  <2>1. CASE i <= Len(cur)
    <3>1. i \in 1..Len(cur)
      BY <1>1, <2>1
    <3>2. QED
      BY <1>4, <1>6, <3>1
  <2>2. CASE i > Len(cur)
    <3>1. i - Len(cur) \in 1..n /\ i - Len(cur) \in 1..Len(fifo) /\ Len(cur) + (i - Len(cur)) = i
      BY <1>1, <1>2, <1>4, <2>2
    <3>2. r[i] = h[i - Len(cur)]
      BY <1>5, <3>1
    <3>3. Stream[i] = fifo[i - Len(cur)]
      BY <1>6, <3>1
    <3>4. QED
      BY <1>3, <3>1, <3>2, <3>3
  <2>3. QED
    BY <1>1, <1>4, <2>1, <2>2
<1>8. Len(Stream) > 0 /\ Stream # <<>> /\ Len(r) <= Len(Stream) /\ 1 \in 1..Len(r) /\ Len(r) <= CaptureBytes
  <2>1. Len(Stream) > 0 /\ Len(r) <= Len(Stream) /\ 1 \in 1..Len(r) /\ Len(r) <= CaptureBytes
    BY <1>1, <1>2, <1>4, <1>6, Lengths
  <2>2. QED
    BY <2>1, <1>6, EmptySeq
<1>9. \A i \in 1..Len(Stream) : i <= CaptureBytes => Stream[i] = <<Stream[1][1], i>>
  BY <1>6, <1>8, ChainFacts
<1>10. r[1] = Stream[1]
  BY <1>7, <1>8
<1>11. \A i \in 1..Len(r) : r[i] = <<r[1][1], i>>
  <2> TAKE i \in 1..Len(r)
  <2>1. i \in 1..Len(Stream) /\ i <= CaptureBytes
    BY <1>1, <1>2, <1>4, <1>6, <1>8, Lengths
  <2>2. QED
    BY <1>7, <1>9, <1>10, <2>1
<1>12. IsWhole(r)
  <2> HIDE DEF r
  <2>1. DOMAIN r = 1..Len(r)
    BY <1>4
  <2>2. QED
    BY <1>4, <1>11, <2>1 DEF IsWhole
<1>13. Stream[1][1] \in Nat /\ Stream[1][1] <= at[1] /\ at[1] \in Nat
  BY <1>8, StreamFacts
<1>14. Done = Stream[1][1] - 1
  BY <1>8 DEF Done
<1>15. Done < r[1][1] /\ r[1][1] <= at[1]
  BY <1>10, <1>13, <1>14
<1>16. QED
  BY <1>4, <1>8, <1>10, <1>12, <1>14, <1>15 DEF h

\* The chip's next byte carries the stream on, or overflows the FIFO.
LEMMA ByteAligned ==
  ASSUME Types, Types', ~excused, Aligned, Byte
  PROVE  Aligned'
<1>1. ~clash /\ Chain(Stream) /\ AtNewest /\ HandedOver /\ Reads
  BY DEF Aligned
<1>2. cur \in Seq(Bytes) /\ fifo \in Seq(Bytes) /\ Len(fifo) \in Nat /\ at' \in Bytes
  BY LenProperties DEF Types, ChipTypes, TaskTypes
<1>3. mode = "recording" /\ at' = <<at[1], at[2] + 1>> /\ clash' = FALSE
      /\ UNCHANGED <<cur, lost, queue, out, pc, avail>>
  BY DEF Byte, task
<1>4. at[1] \in Nat /\ at[2] \in Nat /\ at[2] < CaptureBytes /\ at[1] > 0
  BY <1>1, <1>3, StreamFacts DEF Types, ChipTypes
<1>5. at'[1] = at[1] /\ at'[2] = at[2] + 1
  BY <1>3
<1>6. [i \in 1..1 |-> at'] = <<at'>>
  OBVIOUS
<1>7. \/ mode' = "overflow" /\ fifo' = fifo
      \/ fifo' = fifo \o <<at'>> /\ mode' \in {"rx", "recording"}
  <2>1. PICK copies \in IF clash THEN 0..2 ELSE {1} :
          LET full == fifo \o [i \in 1..copies |-> at'] IN
          IF Len(full) > FifoBytes
          THEN mode' = "overflow" /\ fifo' = fifo
          ELSE fifo' = full /\ mode' = IF at'[2] = CaptureBytes THEN "rx" ELSE "recording"
    BY DEF Byte
  <2>2. copies = 1
    BY <1>1, <2>1
  <2>3. QED
    BY <1>6, <2>1, <2>2
<1>8. Handed' = Handed
  BY <1>3 DEF Handed
<1>9. /\ Stream \in Seq(Bytes) /\ Done \in Int
      /\ Stream # <<>> => Len(Stream) \in Nat \ {0} /\ Newest[2] \in 1..CaptureBytes /\ Newest[1] <= at[1]
      /\ at[2] > 0 => Stream # <<>> /\ Newest = at
      /\ at[2] = 0 /\ Stream # <<>> => Newest[2] = CaptureBytes /\ Newest[1] < at[1]
  BY <1>1, <1>3, StreamFacts DEF AtNewest
<1>10. CASE mode' = "overflow" /\ fifo' = fifo
  <2>1. Stream' = Stream /\ Newest' = Newest
    BY <1>3, <1>10 DEF Stream, Newest
  <2>2. Done' = Done
    BY <1>3, <1>5, <1>10, <2>1 DEF Done
  <2>3. HandedOver'
    BY <1>1, <1>3, <1>8, <1>9, <2>2, NothingSent
  <2>4. Stream # <<>> => Newest[1] < at[1] \/ Newest[2] < CaptureBytes
    BY <1>4, <1>9
  <2>5. AtNewest'
    BY <1>5, <1>9, <1>10, <2>1, <2>4 DEF AtNewest
  <2>6. Reads'
    BY <1>1, <1>3, <1>10 DEF Reads
  <2>7. QED
    BY <1>1, <1>3, <2>1, <2>3, <2>5, <2>6 DEF Aligned, Chain
<1>11. CASE fifo' = fifo \o <<at'>> /\ mode' \in {"rx", "recording"}
  <2> DEFINE s == Stream
             t == Stream'
             b == at'
  <2>1. t = s \o <<b>>
    <3>1. <<at'>> \in Seq(Bytes)
      BY <1>2
    <3>2. cur \o (fifo \o <<at'>>) = (cur \o fifo) \o <<at'>>
      BY <1>2, <3>1, ConcatAssociative
    <3>3. QED
      BY <1>3, <1>11, <3>2 DEF Stream
  <2>2. s \in Seq(Bytes) /\ b \in Bytes /\ Chain(s)
    BY <1>1, <1>2, <1>9
  <2>3. s = <<>> => b[2] = 1
    BY <1>4, <1>5, <1>9
  <2>4. s # <<>> => \/ b = <<s[Len(s)][1], s[Len(s)][2] + 1>> /\ s[Len(s)][2] < CaptureBytes
                    \/ s[Len(s)][2] = CaptureBytes /\ b[2] = 1 /\ s[Len(s)][1] < b[1]
    <3>1. CASE at[2] > 0
      BY <1>3, <1>4, <1>9, <3>1 DEF Newest
    <3>2. CASE at[2] = 0
      BY <1>4, <1>5, <1>9, <3>2 DEF Newest
    <3>3. QED
      BY <1>4, <3>1, <3>2
  <2>5. Newest' = t[Len(t)]
    BY DEF Newest
  <2>6. mode = "recording" /\ (s # <<>> => Done = s[1][1] - 1) /\ (s = <<>> => Done = at[1] - 1)
    BY <1>3 DEF Done
  <2>7. t # <<>> => Done' = t[1][1] - 1
    BY DEF Done
  <2> HIDE DEF s, t, b
  <2>8. /\ t \in Seq(Bytes) /\ Len(t) = Len(s) + 1 /\ Len(s) \in Nat /\ t # <<>>
        /\ \A i \in 1..Len(s) : t[i] = s[i]
    <3>1. <<b>> \in Seq(Bytes) /\ Len(<<b>>) = 1 /\ <<b>>[1] = b
      BY <2>2
    <3>2. /\ t \in Seq(Bytes) /\ Len(t) = Len(s) + 1 /\ Len(s) \in Nat
          /\ \A i \in 1..Len(s) : t[i] = s[i]
          /\ \A i \in 1..1 : t[Len(s) + i] = b
      BY <2>1, <2>2, <3>1, JoinFacts
    <3>3. t # <<>>
      BY <3>2, EmptySeq
    <3>4. QED
      BY <3>2, <3>3
  <2>9. t[Len(s) + 1] = b
    <3>1. <<b>> \in Seq(Bytes) /\ Len(<<b>>) = 1 /\ <<b>>[1] = b
      BY <2>2
    <3>2. QED
      BY <2>1, <2>2, <3>1, JoinFacts
  <2>10. Chain(t)
    BY <2>2, <2>3, <2>4, <2>8, <2>9, ChainAppend
  <2>11. Done' = Done
    <3>1. s # <<>> => Len(s) \in Nat \ {0} /\ 1 \in 1..Len(s)
      BY <2>2, EmptySeq
    <3>2. CASE s # <<>>
      <4>1. t[1] = s[1]
        BY <2>8, <3>1, <3>2
      <4>2. QED
        BY <2>6, <2>7, <2>8, <3>2, <4>1
    <3>3. CASE s = <<>>
      <4>1. Len(s) + 1 = 1
        BY <3>3, EmptySeq
      <4>2. t[1] = b
        BY <2>9, <4>1
      <4>3. QED
        BY <1>5, <2>6, <2>7, <2>8, <3>3, <4>2 DEF b
    <3>4. QED
      BY <3>2, <3>3
  <2>12. HandedOver'
    BY <1>1, <1>3, <1>8, <1>9, <2>11, NothingSent
  <2>13. Newest' = at'
    BY <2>5, <2>8, <2>9 DEF b
  <2>14. AtNewest'
    <3>1. Stream' # <<>> /\ at'[1] <= at'[1]
      BY <1>4, <1>5, <2>8 DEF t
    <3>2. mode' \in {"rx", "recording"} /\ at'[2] > 0
      BY <1>4, <1>5, <1>11
    <3>3. QED
      BY <2>13, <3>1, <3>2 DEF AtNewest
  <2>15. Reads'
    <3>1. Len(fifo') = Len(fifo) + 1
      <4>1. <<at'>> \in Seq(Bytes) /\ Len(<<at'>>) = 1
        BY <1>2
      <4>2. QED
        BY <1>2, <1>11, <4>1, ConcatProperties
    <3>2. mode # "idle"
      BY <1>3
    <3>3. avail \in Nat
      BY Lengths DEF Types, TaskTypes
    <3>4. QED
      BY <1>1, <1>2, <1>3, <3>1, <3>2, <3>3 DEF Reads
  <2>16. QED
    BY <1>3, <2>10, <2>12, <2>14, <2>15 DEF Aligned, t, Chain
<1>12. QED
  BY <1>7, <1>10, <1>11

\* A read off the FIFO, up to the end of the capture or leaving one byte of it.
LEMMA ReadAligned ==
  ASSUME Types, Types', ~excused, ~excused', Aligned, DrainPart
  PROVE  Aligned'
<1>1. ~clash /\ Chain(Stream) /\ AtNewest /\ HandedOver /\ Reads
  BY DEF Aligned
<1>2. /\ cur \in Seq(Bytes) /\ fifo \in Seq(Bytes) /\ Len(fifo) \in Nat /\ Len(cur) \in Nat
      /\ Len(cur) < CaptureBytes /\ avail \in Nat /\ at[2] \in Nat /\ at[1] \in Nat
      /\ mode = "recording" => at[2] < CaptureBytes
  BY Lengths, ByteFacts, LenProperties DEF Types, ChipTypes, TaskTypes
<1>3. /\ pc = "part" /\ avail > 0 /\ Take > 0 /\ Len(fifo) >= Take
      /\ fifo' = SubSeq(fifo, Take + 1, Len(fifo)) /\ avail' = avail - Take
      /\ clash' = (fifo' = <<>> /\ mode = "recording")
      /\ excused' = (excused \/ (clash' /\ Take = Remaining))
      /\ UNCHANGED <<mode, at, pc, out>>
  BY DEF DrainPart
<1>4. /\ Take \in 1..Len(fifo) /\ Take <= avail /\ Len(cur) + Take <= CaptureBytes
      /\ Take = Remaining \/ (Take = avail - 1 /\ Len(cur) + Take < CaptureBytes)
      /\ Remaining = CaptureBytes - Len(cur)
  BY <1>2, <1>3, Lengths DEF Take, Remaining
<1>5. mode # "idle" /\ avail <= Len(fifo)
  <2>1. Len(fifo) # 0
    BY <1>4
  <2>2. fifo # <<>>
    BY <2>1, EmptySeq
  <2>3. QED
    BY <1>1, <1>3, <2>2 DEF AtNewest, Reads
<1>6. ~clash'
  <2>1. CASE Take = Remaining
    BY <1>3, <2>1
  <2>2. CASE Take = avail - 1
    <3>1. Len(fifo') = Len(fifo) - Take
      BY <1>2, <1>3, <1>4, ReadFacts
    <3>2. Len(fifo') # 0
      BY <1>2, <1>4, <1>5, <2>2, <3>1
    <3>3. fifo' # <<>>
      BY <3>2, EmptySeq
    <3>4. QED
      BY <1>3, <3>3
  <2>3. QED
    BY <1>4, <2>1, <2>2
<1>7. Reads'
  <2>1. Len(fifo') = Len(fifo) - Take
    BY <1>2, <1>3, <1>4, ReadFacts
  <2>2. QED
    BY <1>2, <1>3, <1>4, <1>5, <2>1 DEF Reads
<1>8. /\ Stream \in Seq(Bytes) /\ Len(Stream) = Len(cur) + Len(fifo) /\ Done \in Int
      /\ Stream # <<>> => /\ Len(Stream) \in Nat \ {0} /\ Stream[1][1] \in Nat /\ Newest[1] \in Nat
                          /\ Newest[2] \in 1..CaptureBytes /\ Newest[1] <= at[1]
  BY <1>1, StreamFacts
<1> DEFINE read == cur \o SubSeq(fifo, 1, Take)
<1>9. read \in Seq(Bytes) /\ Len(read) = Len(cur) + Take
  BY <1>2, <1>4, ReadFacts
<1>10. IF Len(read) = CaptureBytes
       THEN Send(read) /\ cur' = <<>>
       ELSE cur' = read /\ UNCHANGED <<queue, lost>>
  BY DEF DrainPart
<1>11. CASE Len(read) # CaptureBytes
  <2>1. cur' = read /\ UNCHANGED <<queue, lost>>
    BY <1>10, <1>11
  <2>2. Stream' = Stream
    <3>1. (cur \o SubSeq(fifo, 1, Take)) \o SubSeq(fifo, Take + 1, Len(fifo)) = cur \o fifo
      BY <1>2, <1>4, Take \in 0..Len(fifo), JoinSplit
    <3>2. QED
      BY <1>3, <2>1, <3>1 DEF Stream
  <2>3. Done' = Done /\ Newest' = Newest /\ Handed' = Handed
    BY <1>3, <2>1, <2>2 DEF Done, Newest, Handed
  <2>4. HandedOver'
    BY <1>1, <1>8, <2>1, <2>3, NothingSent
  <2>5. AtNewest'
    BY <1>1, <1>3, <1>5, <2>2, <2>3 DEF AtNewest
  <2>6. QED
    BY <1>1, <1>6, <1>7, <2>2, <2>4, <2>5 DEF Aligned, Chain
<1>12. CASE Len(read) = CaptureBytes
  <2>1. Send(read) /\ cur' = <<>> /\ Len(cur) + Take = CaptureBytes
    BY <1>9, <1>10, <1>12
  <2>2. /\ IsWhole(read) /\ Done < read[1][1] /\ read[1][1] <= at[1] /\ read[1][1] = Stream[1][1]
        /\ Stream # <<>>
    BY <1>1, <1>2, <1>4, <2>1, Lengths, PartIsWhole
  <2> DEFINE s == Stream
             t == Stream'
  <2>3. t = fifo'
    <3>1. fifo' \in Seq(Bytes)
      BY DEF Types, ChipTypes
    <3>2. QED
      BY <2>1, <3>1, ConcatEmptySeq DEF Stream
  <2>4. /\ t \in Seq(Bytes) /\ Len(t) = Len(fifo) - Take
        /\ \A i \in 1..(Len(fifo) - Take) : t[i] = fifo[Take + i]
    BY <1>2, <1>3, <1>4, <2>3, ReadFacts
  <2>5. \A i \in 1..Len(fifo) : s[Len(cur) + i] = fifo[i]
    BY <1>2, JoinFacts DEF Stream
  <2>6. s \in Seq(Bytes) /\ Chain(s) /\ Len(s) = Len(cur) + Len(fifo) /\ s # <<>>
    BY <1>1, <1>8, <2>2
  <2>7. s # <<>> => Newest = s[Len(s)]
    BY DEF Newest
  <2>8. t # <<>> => Newest' = t[Len(t)] /\ Done' = t[1][1] - 1
    BY DEF Newest, Done
  <2> HIDE DEF s, t
  <2>9. Len(s) = CaptureBytes + Len(t) /\ Len(t) \in Nat
    BY <1>2, <1>4, <2>1, <2>4, <2>6
  <2>10. \A i \in 1..Len(t) : t[i] = s[CaptureBytes + i]
    <3> TAKE i \in 1..Len(t)
    <3>1. Take + i \in 1..Len(fifo) /\ Len(cur) + (Take + i) = CaptureBytes + i
      BY <1>2, <1>4, <2>1, <2>4
    <3>2. s[Len(cur) + (Take + i)] = fifo[Take + i]
      BY <2>5, <3>1
    <3>3. QED
      BY <2>4, <3>1, <3>2
  <2>11. /\ \A i \in 1..Len(s) : s[i] \in Bytes /\ (i > CaptureBytes => s[1][1] < s[i][1])
         /\ \A i \in 1..Len(s) : i <= CaptureBytes => s[i] = <<s[1][1], i>>
    BY <2>6, ChainFacts
  <2>12. CaptureBytes < Len(s) => s[CaptureBytes + 1][2] = 1
    <3> SUFFICES ASSUME CaptureBytes < Len(s) PROVE s[CaptureBytes + 1][2] = 1
      OBVIOUS
    <3>1. 1 \in 1..Len(s) /\ CaptureBytes + 1 \in 1..Len(s)
      BY <2>9, Lengths
    <3>2. s[1][2] = 1
      BY <2>6 DEF Chain
    <3>3. (CaptureBytes + 1) - 1 = Left(s[1]) + 1
      BY <3>2, Lengths DEF Left
    <3>4. QED
      BY <2>6, <3>1, <3>3 DEF Chain
  <2>13. Chain(t)
    <3>1. Len(t) + CaptureBytes <= Len(s) /\ CaptureBytes \in Nat
      BY <2>9, Lengths
    <3>2. QED
      BY <2>4, <2>6, <2>10, <2>12, <3>1, ChainPart
  <2>14. t # <<>> => Len(t) \in 1..Len(t) /\ 1 \in 1..Len(t) /\ Newest' = Newest /\ s[1][1] <= Done'
                     /\ Done' \in Int
    <3> SUFFICES ASSUME t # <<>>
                 PROVE  Len(t) \in 1..Len(t) /\ 1 \in 1..Len(t) /\ Newest' = Newest /\ s[1][1] <= Done'
                        /\ Done' \in Int
      OBVIOUS
    <3>1. Len(t) # 0
      BY <2>4, EmptySeq
    <3>2. Len(t) \in 1..Len(t) /\ 1 \in 1..Len(t) /\ CaptureBytes + Len(t) = Len(s)
      BY <2>9, <3>1, Lengths
    <3>3. t[Len(t)] = s[Len(s)]
      BY <2>10, <3>2
    <3>4. CaptureBytes + 1 \in 1..Len(s) /\ CaptureBytes + 1 > CaptureBytes /\ 1 \in 1..Len(s)
      BY <2>9, <3>2, Lengths
    <3>5. s[1][1] < s[CaptureBytes + 1][1] /\ t[1] = s[CaptureBytes + 1]
      BY <2>10, <2>11, <3>2, <3>4
    <3>6. s[1][1] \in Nat /\ s[CaptureBytes + 1][1] \in Nat
      BY <2>11, <3>4, ByteFacts
    <3>7. Done' = s[CaptureBytes + 1][1] - 1
      BY <2>8, <3>5
    <3>8. s[1][1] <= Done' /\ Done' \in Int
      BY <3>5, <3>6, <3>7
    <3>9. QED
      BY <2>6, <2>7, <2>8, <3>2, <3>3, <3>8
  <2>15. t = <<>> => Newest = <<s[1][1], CaptureBytes>>
    <3> SUFFICES ASSUME t = <<>> PROVE Newest = <<s[1][1], CaptureBytes>>
      OBVIOUS
    <3>1. Len(t) = 0
      BY EmptySeq
    <3>2. Len(s) = CaptureBytes /\ CaptureBytes \in 1..Len(s)
      BY <2>9, <3>1, Lengths
    <3>3. s[CaptureBytes] = <<s[1][1], CaptureBytes>>
      BY <2>11, <3>2, Lengths
    <3>4. QED
      BY <2>6, <2>7, <3>2, <3>3
  <2>16. t = <<>> => s[1][1] <= Done' /\ Done' \in Int
    <3> SUFFICES ASSUME t = <<>> PROVE s[1][1] <= Done' /\ Done' \in Int
      OBVIOUS
    <3>1. Stream' = <<>>
      BY DEF t
    <3>2. Done' = IF mode \in {"recording", "overflow"} THEN at[1] - 1 ELSE at[1]
      BY <1>3, <3>1 DEF Done
    <3>3. Newest[1] = s[1][1] /\ Newest[2] = CaptureBytes
      BY <2>15
    <3>4. s[1][1] \in Nat /\ s[1][1] <= at[1]
      BY <1>8, <2>6, <3>3 DEF s
    <3>5. mode = "recording" => s[1][1] < at[1]
      <4>1. mode = "recording" /\ at[2] > 0 => Newest = at
        BY <1>1 DEF AtNewest
      <4>2. mode = "recording" => at[2] = 0
        BY <1>2, <3>3, <4>1, Lengths
      <4>3. mode = "recording" /\ at[2] = 0 => Newest[1] < at[1]
        BY <1>1, <2>2 DEF AtNewest
      <4>4. QED
        BY <3>3, <4>2, <4>3
    <3>6. mode = "overflow" => s[1][1] < at[1]
      <4>1. mode = "overflow" => Newest[1] < at[1] \/ Newest[2] < CaptureBytes
        BY <1>1, <2>2 DEF AtNewest
      <4>2. QED
        BY <3>3, <4>1, Lengths
    <3>7. QED
      BY <1>2, <3>2, <3>4, <3>5, <3>6
  <2>17. HandedOver'
    <3>1. read[1][1] = s[1][1]
      BY <2>2 DEF s
    <3>2. read[1][1] <= Done' /\ Done' \in Int
      BY <2>14, <2>16, <3>1
    <3> HIDE DEF read
    <3>3. QED
      BY <1>1, <1>3, <1>8, <1>9, <2>1, <2>2, <3>2, OneSent
  <2>18. AtNewest'
    <3>1. Stream' # <<>> => Newest' = Newest /\ Stream # <<>>
      BY <2>2, <2>14 DEF t
    <3>2. CASE Stream' # <<>>
      BY <1>1, <1>3, <1>5, <3>1, <3>2 DEF AtNewest
    <3>3. CASE Stream' = <<>>
      <4>1. t = <<>>
        BY <3>3 DEF t
      <4>2. mode = "recording" => at[2] = 0
        <5>1. Newest[2] = CaptureBytes
          BY <2>15, <4>1
        <5>2. mode = "recording" /\ at[2] > 0 => Newest = at
          BY <1>1 DEF AtNewest
        <5>3. QED
          BY <1>2, <5>1, <5>2, Lengths
      <4>3. QED
        BY <1>3, <1>5, <3>3, <4>2 DEF AtNewest
    <3>4. QED
      BY <3>2, <3>3
  <2>19. QED
    BY <1>6, <1>7, <2>13, <2>17, <2>18 DEF Aligned, t, Chain
<1>13. QED
  BY <1>11, <1>12

\* A step that leaves chip, task and hand-over as they are, but for the place
\* in the pass and the chip's settings.
LEMMA StillAligned ==
  ASSUME ~excused, Aligned, UNCHANGED <<mode, fifo, at, clash, cur, queue, lost, out>>,
         pc' = "part" => avail' <= Len(fifo)
  PROVE  Aligned'
<1>1. Stream' = Stream /\ Handed' = Handed
  BY DEF Stream, Handed
<1>2. Newest' = Newest /\ Done' = Done
  BY <1>1 DEF Newest, Done
<1>3. ~clash /\ Chain(Stream) /\ AtNewest /\ HandedOver
  BY DEF Aligned
<1>4. AtNewest'
  BY <1>1, <1>2, <1>3 DEF AtNewest
<1>5. HandedOver'
  BY <1>1, <1>2, <1>3 DEF HandedOver, IsWhole
<1>6. Reads'
  BY DEF Reads
<1>7. QED
  BY <1>1, <1>3, <1>4, <1>5, <1>6 DEF Aligned, Chain

\* A sync begins the next capture, behind all there is in the stream.
LEMMA SyncAligned ==
  ASSUME Types, ~excused, ~excused', Aligned, Sync
  PROVE  Aligned'
<1>1. ~clash /\ Chain(Stream) /\ AtNewest /\ HandedOver /\ Reads
  BY DEF Aligned
<1>2. /\ mode = "rx" /\ mode' = "recording" /\ at' = <<at[1] + 1, 0>>
      /\ ~(at[2] \in 1..(CaptureBytes - 1) /\ (cur # <<>> \/ fifo # <<>>))
      /\ UNCHANGED <<fifo, cur, clash, lost, queue, out, pc, avail>>
  BY DEF Sync, task
<1>3. Stream' = Stream /\ Handed' = Handed /\ Newest' = Newest
  BY <1>2 DEF Stream, Handed, Newest
<1>4. /\ at[1] \in Nat /\ at[2] \in 0..CaptureBytes /\ Done \in Int
      /\ Stream # <<>> => Newest[1] \in Nat /\ Newest[2] \in 1..CaptureBytes /\ Newest[1] <= at[1]
  BY <1>1, StreamFacts
<1>5. at'[1] = at[1] + 1 /\ at'[2] = 0
  BY <1>2
<1>6. Done' = Done
  <2>1. CASE Stream # <<>>
    BY <1>3, <2>1 DEF Done
  <2>2. CASE Stream = <<>>
    BY <1>2, <1>3, <1>4, <1>5, <2>2 DEF Done
  <2>3. QED
    BY <2>1, <2>2
<1>7. HandedOver'
  BY <1>1, <1>2, <1>3, <1>4, <1>6, NothingSent
<1>8. Stream # <<>> => Newest[2] = CaptureBytes
  <2> SUFFICES ASSUME Stream # <<>> PROVE Newest[2] = CaptureBytes
    OBVIOUS
  <2>1. Newest = at \/ Newest[2] = CaptureBytes
    BY <1>1, <1>2 DEF AtNewest
  <2>2. cur # <<>> \/ fifo # <<>>
    <3>1. cur \in Seq(Bytes) /\ fifo \in Seq(Bytes)
      BY DEF Types, ChipTypes, TaskTypes
    <3>2. QED
      BY <3>1, ConcatEqualIffEmpty DEF Stream
  <2>3. CASE Newest = at
    <3>1. at[2] \in 1..CaptureBytes
      BY <1>4, <2>3
    <3>2. QED
      BY <1>2, <2>2, <2>3, <3>1, Lengths
  <2>4. QED
    BY <2>1, <2>3
<1>9. AtNewest'
  <2>1. Stream # <<>> => Newest[1] < at'[1] /\ Newest[1] <= at'[1]
    BY <1>4, <1>5
  <2>2. QED
    BY <1>2, <1>3, <1>5, <1>8, <2>1 DEF AtNewest
<1>10. Reads'
  BY <1>1, <1>2 DEF Reads
<1>11. QED
  BY <1>1, <1>2, <1>3, <1>7, <1>9, <1>10 DEF Aligned, Chain

\* A capture given up ends with the newest byte.
LEMMA GiveUpAligned ==
  ASSUME Types, ~excused, Aligned, GiveUp
  PROVE  Aligned'
<1>1. ~clash /\ Chain(Stream) /\ AtNewest /\ HandedOver /\ Reads
  BY DEF Aligned
<1>2. mode = "recording" /\ mode' = "rx" /\ UNCHANGED <<fifo, cur, clash, at, lost, queue, out, pc, avail>>
  BY DEF GiveUp, task
<1>3. Stream' = Stream /\ Handed' = Handed /\ Newest' = Newest
  BY <1>2 DEF Stream, Handed, Newest
<1>4. at[1] \in Nat /\ at[2] \in 0..CaptureBytes /\ Done \in Int
  BY <1>1, StreamFacts
<1>5. Done' \in Int /\ Done <= Done'
  <2>1. CASE Stream # <<>>
    BY <1>3, <1>4, <2>1 DEF Done
  <2>2. CASE Stream = <<>>
    BY <1>2, <1>3, <1>4, <2>2 DEF Done
  <2>3. QED
    BY <2>1, <2>2
<1>6. HandedOver'
  BY <1>1, <1>2, <1>3, <1>4, <1>5, NothingSent
<1>7. AtNewest'
  <2>1. at[2] > 0 \/ at[2] = 0
    BY <1>4
  <2>2. QED
    BY <1>1, <1>2, <1>3, <2>1 DEF AtNewest
<1>8. Reads'
  BY <1>1, <1>2 DEF Reads
<1>9. QED
  BY <1>1, <1>2, <1>3, <1>6, <1>7, <1>8 DEF Aligned, Chain

\* A chip that resets itself leaves the task with what it has read.
LEMMA GlitchAligned ==
  ASSUME Types, Types', ~excused, Aligned, Glitch
  PROVE  Aligned'
<1>1. ~clash /\ Chain(Stream) /\ AtNewest /\ HandedOver /\ Reads
  BY DEF Aligned
<1>2. /\ mode' = "idle" /\ fifo' = <<>> /\ clash' = FALSE
      /\ UNCHANGED <<cur, at, lost, queue, out, pc, avail>>
  BY DEF Glitch, task
<1>3. cur \in Seq(Bytes) /\ fifo \in Seq(Bytes)
  BY DEF Types, ChipTypes, TaskTypes
<1>4. Stream' = cur /\ Handed' = Handed
  <2>1. cur \o <<>> = cur
    BY <1>3, ConcatEmptySeq
  <2>2. QED
    BY <1>2, <2>1 DEF Stream, Handed
<1>5. /\ Stream \in Seq(Bytes) /\ Done \in Int /\ Done <= at[1] /\ at[1] \in Nat
      /\ Stream # <<>> => /\ Len(Stream) \in Nat \ {0} /\ Newest[1] \in Nat /\ Stream[1][1] \in Nat
                          /\ Newest[1] <= at[1]
  BY <1>1, StreamFacts
<1>6. /\ Len(Stream) = Len(cur) + Len(fifo) /\ Len(cur) \in Nat /\ Len(fifo) \in Nat
      /\ \A i \in 1..Len(cur) : Stream[i] = cur[i]
  BY <1>3, JoinFacts DEF Stream
<1>7. Chain(cur)
  <2>1. Len(cur) + 0 <= Len(Stream) /\ \A i \in 1..Len(cur) : 0 + i = i
    BY <1>6
  <2>2. QED
    BY <1>1, <1>3, <1>5, <1>6, <2>1, ChainPart
<1>8. cur # <<>> => /\ 1 \in 1..Len(cur) /\ Len(cur) \in 1..Len(cur) /\ Stream # <<>>
                    /\ Stream[1] = cur[1] /\ Stream[Len(cur)] = cur[Len(cur)]
  <2> SUFFICES ASSUME cur # <<>>
               PROVE  /\ 1 \in 1..Len(cur) /\ Len(cur) \in 1..Len(cur) /\ Stream # <<>>
                      /\ Stream[1] = cur[1] /\ Stream[Len(cur)] = cur[Len(cur)]
    OBVIOUS
  <2>1. Len(cur) # 0
    BY <1>3, EmptySeq
  <2>2. 1 \in 1..Len(cur) /\ Len(cur) \in 1..Len(cur) /\ Len(Stream) # 0
    BY <1>6, <2>1
  <2>3. Stream # <<>>
    BY <2>2, EmptySeq
  <2>4. QED
    BY <1>6, <2>2, <2>3
<1>9. Done' \in Int /\ Done <= Done'
  <2>1. CASE cur # <<>>
    BY <1>4, <1>5, <1>8, <2>1 DEF Done
  <2>2. CASE cur = <<>>
    BY <1>2, <1>4, <1>5, <2>2 DEF Done
  <2>3. QED
    BY <2>1, <2>2
<1>10. HandedOver'
  BY <1>1, <1>2, <1>4, <1>5, <1>9, NothingSent
<1>11. cur # <<>> => cur[Len(cur)][1] <= at[1]
  <2> SUFFICES ASSUME cur # <<>> PROVE cur[Len(cur)][1] <= at[1]
    OBVIOUS
  <2>1. Len(cur) \in 1..Len(Stream) /\ Len(Stream) \in 1..Len(Stream) /\ Len(cur) <= Len(Stream)
    BY <1>5, <1>6, <1>8
  <2>2. \A i \in 1..Len(Stream) : Stream[i] \in Bytes
    BY <1>5, ElementOfSeq
  <2>3. Stream[Len(cur)][1] <= Stream[Len(Stream)][1]
    BY <1>1, <1>5, <1>8, <2>1, ChainFacts
  <2>4. Stream[Len(cur)][1] \in Nat
    BY <2>1, <2>2, ByteFacts
  <2>5. Stream[Len(cur)][1] <= Newest[1]
    BY <2>3 DEF Newest
  <2>6. QED
    BY <1>5, <1>8, <2>4, <2>5
<1>12. AtNewest'
  <2>1. Newest' = cur[Len(cur)]
    BY <1>4 DEF Newest
  <2>2. QED
    BY <1>2, <1>4, <1>11, <2>1 DEF AtNewest
<1>13. Reads'
  BY <1>2 DEF Reads
<1>14. QED
  BY <1>2, <1>4, <1>7, <1>10, <1>12, <1>13 DEF Aligned, Chain

\* loop() takes a capture off the queue: what was handed over stays the same.
LEMMA ProcessAligned ==
  ASSUME Types, ~excused, Aligned, Process
  PROVE  Aligned'
<1>1. ~clash /\ Chain(Stream) /\ AtNewest /\ HandedOver /\ Reads
  BY DEF Aligned
<1>2. /\ queue # <<>> /\ out' = Append(out, Head(queue)) /\ queue' = Tail(queue)
      /\ UNCHANGED <<mode, fifo, at, clash, pc, cur, avail, lost>>
  BY DEF Process, chip, task
<1>3. out \in Seq(Seq(Bytes)) /\ queue \in Seq(Seq(Bytes))
  BY DEF Types, LoopTypes
<1>4. Handed' = Handed
  <2> DEFINE h == Head(queue)
             t == Tail(queue)
  <2>1. h \in Seq(Bytes) /\ t \in Seq(Seq(Bytes)) /\ queue = <<h>> \o t
    <3>1. h \in Seq(Bytes) /\ t \in Seq(Seq(Bytes))
      BY <1>2, <1>3, HeadTailProperties
    <3>2. 1 \in 1..Len(queue) /\ Len(queue) \in 1..Len(queue)
      <4>1. Len(queue) \in Nat /\ Len(queue) # 0
        BY <1>2, <1>3, EmptySeq, LenProperties
      <4>2. QED
        BY <4>1
    <3>3. SubSeq(queue, 1, Len(queue)) = <<queue[1]>> \o SubSeq(queue, 1 + 1, Len(queue))
      BY <1>3, <3>2, SubSeqRecursiveFirst
    <3>4. SubSeq(queue, 1, Len(queue)) = queue
      BY <1>3, SubSeqFull
    <3>5. t = SubSeq(queue, 2, Len(queue)) /\ 1 + 1 = 2
      BY <1>2, <1>3, TailIsSubSeq
    <3>6. h = queue[1]
      BY <1>2, <1>3
    <3>7. QED
      BY <3>1, <3>3, <3>4, <3>5, <3>6
  <2>2. out' = Append(out, h) /\ queue' = t
    BY <1>2
  <2> HIDE DEF h, t
  <2>3. Append(out, h) = out \o <<h>> /\ <<h>> \in Seq(Seq(Bytes))
    BY <1>3, <2>1, AppendIsConcat
  <2>4. (out \o <<h>>) \o t = out \o (<<h>> \o t)
    BY <1>3, <2>1, <2>3, ConcatAssociative
  <2>5. QED
    BY <2>1, <2>2, <2>3, <2>4 DEF Handed
<1>5. Stream' = Stream
  BY <1>2 DEF Stream
<1>6. Newest' = Newest /\ Done' = Done
  BY <1>2, <1>5 DEF Newest, Done
<1>7. HandedOver'
  BY <1>1, <1>2, <1>4, <1>6 DEF HandedOver, IsWhole
<1>8. AtNewest'
  BY <1>1, <1>2, <1>5, <1>6 DEF AtNewest
<1>9. Reads'
  BY <1>1, <1>2 DEF Reads
<1>10. QED
  BY <1>1, <1>2, <1>5, <1>7, <1>8, <1>9 DEF Aligned, Chain

\* The quiet end hands over what was read, all of it one capture's.
LEMMA EndEarlyAligned ==
  ASSUME Types, ~excused, Aligned, EndCaptureEarly
  PROVE  Aligned'
<1>1. Chain(Stream) /\ AtNewest
  BY DEF Aligned
<1> DEFINE n == IF Len(fifo) < Remaining THEN Len(fifo) ELSE Remaining
           read == cur \o SubSeq(fifo, 1, n)
<1>2. /\ Restart /\ pc' = "rearm" /\ at' = at /\ out' = out
      /\ IF mode # "overflow" /\ Len(read) >= MinBytes THEN Send(read) ELSE UNCHANGED <<queue, lost>>
  BY DEF EndCaptureEarly
<1>3. Len(fifo) \in Nat /\ Len(cur) \in Nat /\ Len(cur) < CaptureBytes
  BY LenProperties DEF Types, ChipTypes, TaskTypes
<1>4. n \in 1..Len(fifo) \cup {0} /\ n \in Nat /\ n <= Len(fifo) /\ Len(cur) + n <= CaptureBytes
  <2>1. Remaining \in Nat /\ Len(cur) + Remaining = CaptureBytes
    BY <1>3, Lengths DEF Remaining
  <2>2. CASE Len(fifo) < Remaining
    BY <1>3, <2>1, <2>2, Lengths
  <2>3. CASE ~(Len(fifo) < Remaining)
    BY <1>3, <2>1, <2>3, Lengths
  <2>4. QED
    BY <2>2, <2>3
<1> HIDE DEF n
<1>5. Len(read) = Len(cur) + n
  BY <1>4, ReadFacts
<1>6. CASE mode # "overflow" /\ Len(read) >= MinBytes
  <2>1. read \in Seq(Bytes) /\ IsWhole(read) /\ Done < read[1][1] /\ read[1][1] <= at[1]
    BY <1>1, <1>4, <1>5, <1>6, PartIsWhole
  <2>2. Send(read)
    BY <1>2, <1>6
  <2> HIDE DEF read
  <2>3. QED
    BY <1>2, <2>1, <2>2, RestartAligned
<1>7. CASE ~(mode # "overflow" /\ Len(read) >= MinBytes)
  <2>1. lost' = lost /\ UNCHANGED <<queue, out>>
    BY <1>2, <1>7
  <2>2. QED
    BY <1>2, <2>1, RestartAligned
<1>8. QED
  BY <1>6, <1>7

\* Every step keeps stream, chip and hand-over aligned, or is one the code excuses.
LEMMA AlignedKept == Types /\ Types' /\ Aligned /\ [Next]_vars => Aligned'
<1> SUFFICES ASSUME Types, Types', Aligned, [Next]_vars, ~excused' PROVE Aligned'
  BY DEF Aligned
<1>1. ~excused
  <2>1. excused \in BOOLEAN
    BY DEF Types, LoopTypes
  <2>2. CASE UNCHANGED vars
    BY <2>2 DEF vars
  <2>3. CASE Next
    BY <2>1, <2>3 DEF Next, TaskStep, Sync, Byte, GiveUp, Glitch, Tune, Process, Ask, Scan, HardReset, Reconfig,
       Configure, Configured, Drain, DrainPart, ReadNothing, DrainDone, EndCaptureEarly, IdleRearm,
       StrobeRearm, HealthCheck, VerifyRegisters, NotDue
  <2>4. QED
    BY <2>2, <2>3
<1>2. Chain(Stream) /\ AtNewest /\ Reads
  BY <1>1 DEF Aligned
<1>3. CASE UNCHANGED vars
  <2>1. UNCHANGED <<mode, fifo, at, clash, cur, queue, lost, out, pc, avail>>
    BY <1>3 DEF vars, chip, task
  <2>2. Stream' = Stream /\ Newest' = Newest /\ Done' = Done /\ Handed' = Handed
    BY <2>1 DEF Stream, Newest, Done, Handed
  <2>3. QED
    BY <1>1, <2>1, <2>2 DEF Aligned, AtNewest, HandedOver, Reads, Chain, IsWhole
<1>4. CASE Sync
  BY <1>1, <1>4, SyncAligned
<1>5. CASE Byte
  BY <1>1, <1>5, ByteAligned
<1>6. CASE GiveUp
  BY <1>1, <1>6, GiveUpAligned
<1>7. CASE Glitch
  BY <1>1, <1>7, GlitchAligned
<1>8. CASE Process
  BY <1>1, <1>8, ProcessAligned
<1>9. ASSUME Tune \/ \E what \in Requests : Ask(what) PROVE Aligned'
  <2>1. UNCHANGED <<mode, fifo, at, clash, cur, queue, lost, out, pc, avail>>
    BY <1>9 DEF Tune, Ask, chip, task
  <2>2. Stream' = Stream /\ Newest' = Newest /\ Done' = Done /\ Handed' = Handed
    BY <2>1 DEF Stream, Newest, Done, Handed
  <2>3. QED
    BY <1>1, <2>1, <2>2 DEF Aligned, AtNewest, HandedOver, Reads, Chain, IsWhole
<1>10. ASSUME Scan \/ HardReset \/ Configured \/ StrobeRearm \/ VerifyRegisters PROVE Aligned'
  <2>1. pc' # "part" /\ UNCHANGED <<at, lost, queue, out>> /\ (Restart \/ NoRestart)
    BY <1>10 DEF Scan, HardReset, Configured, StrobeRearm, VerifyRegisters
  <2>2. CASE Restart
    BY <1>1, <2>1, <2>2, RestartAligned
  <2>3. CASE NoRestart
    BY <1>1, <2>1, <2>3, StillAligned DEF NoRestart
  <2>4. QED
    BY <2>1, <2>2, <2>3
<1>11. ASSUME Reconfig \/ Configure \/ DrainDone \/ IdleRearm \/ NotDue PROVE Aligned'
  <2>1. pc' # "part" /\ UNCHANGED <<mode, fifo, at, clash, cur, queue, lost, out>>
    BY <1>11 DEF Reconfig, Configure, DrainDone, IdleRearm, NotDue, chip
  <2>2. QED
    BY <1>1, <2>1, StillAligned
<1>12. CASE Drain
  <2>1. CASE mode = "overflow" \/ Stalled
    <3>1. Restart /\ lost' = lost + 1 /\ pc' = "quiet" /\ UNCHANGED <<at, queue, out>>
      BY <1>12, <2>1 DEF Drain
    <3>2. mode = "overflow" \/ Stream # <<>>
      <4> SUFFICES ASSUME Stalled PROVE Stream # <<>>
        BY <2>1
      <4>1. cur \in Seq(Bytes) /\ fifo \in Seq(Bytes) /\ seen \in Nat
        BY DEF Types, ChipTypes, TaskTypes
      <4>2. Len(cur) + Len(fifo) # 0
        BY <4>1 DEF Stalled
      <4>3. QED
        BY <4>1, <4>2, JoinFacts DEF Stream
    <3>3. Done < at[1]
      BY <1>2, <3>2, LossIsCapture
    <3>4. QED
      BY <1>1, <3>1, <3>3, RestartAligned
  <2>2. CASE ~(mode = "overflow" \/ Stalled)
    <3>1. avail' = Len(fifo) /\ UNCHANGED <<mode, fifo, clash, cur, lost, at, queue, out>>
      BY <1>12, <2>2 DEF Drain
    <3>2. avail' <= Len(fifo)
      BY <3>1, LenProperties DEF Types, ChipTypes
    <3>3. QED
      BY <1>1, <3>1, <3>2, StillAligned
  <2>3. QED
    BY <2>1, <2>2
<1>13. CASE DrainPart
  BY <1>1, <1>13, ReadAligned
<1>14. CASE ReadNothing
  BY <1>14 DEF ReadNothing
<1>15. CASE EndCaptureEarly
  BY <1>1, <1>15, EndEarlyAligned
<1>16. CASE HealthCheck
  <2>1. pc' # "part" /\ UNCHANGED <<at, queue, out>>
        /\ \/ mode = "overflow" /\ lost' = lost + 1 /\ Restart
           \/ lost' = lost /\ (Restart \/ NoRestart)
    BY <1>16 DEF HealthCheck
  <2>2. CASE mode = "overflow" /\ lost' = lost + 1 /\ Restart
    <3>1. Done < at[1]
      BY <1>2, <2>2, LossIsCapture
    <3>2. QED
      BY <1>1, <2>1, <2>2, <3>1, RestartAligned
  <2>3. CASE lost' = lost /\ Restart
    BY <1>1, <2>1, <2>3, RestartAligned
  <2>4. CASE lost' = lost /\ NoRestart
    BY <1>1, <2>1, <2>4, StillAligned DEF NoRestart
  <2>5. QED
    BY <2>1, <2>2, <2>3, <2>4
<1>17. QED
  BY <1>3, <1>4, <1>5, <1>6, <1>7, <1>8, <1>9, <1>10, <1>11, <1>12, <1>13, <1>14, <1>15, <1>16
     DEF Next, TaskStep

\* Nothing is read, recorded or handed over at the start.
LEMMA InitAligned == Init => Aligned
<1> SUFFICES ASSUME Init PROVE Aligned
  OBVIOUS
<1>1. Stream = <<>> /\ Handed = <<>> /\ Len(<<>>) = 0
  <2>1. <<>> \o <<>> = <<>>
    BY EmptySeq, ConcatEmptySeq
  <2>2. QED
    BY <2>1, EmptySeq DEF Init, Stream, Handed
<1>2. Chain(Stream)
  BY <1>1 DEF Chain
<1>3. AtNewest /\ Reads /\ ~clash
  BY <1>1 DEF Init, AtNewest, Reads
<1>4. Done = 0 /\ lost = 0
  BY <1>1 DEF Init, Done
<1>5. HandedOver
  BY <1>1, <1>4 DEF HandedOver
<1>6. QED
  BY <1>2, <1>3, <1>5 DEF Aligned

\* So types and alignment hold in every state that is reached.
LEMMA AlwaysAligned == Spec => [](Types /\ Aligned)
<1>1. Init => Types
  BY InitTypes
<1>2. Init => Aligned
  BY InitAligned
<1>3. Types /\ [Next]_vars => Types'
  BY TypesKept
<1>4. Types /\ Types' /\ Aligned /\ [Next]_vars => Aligned'
  BY AlignedKept
<1>5. QED
  BY <1>1, <1>2, <1>3, <1>4, PTL DEF Spec

\* What the task hands over is one recording from its first byte on, and no
\* recording is handed over twice, whatever overflows, stalls, is cut short or
\* re-armed in between (cc1101.cpp:drain_fifo_, end_capture_early_, restart_rx_).
THEOREM HandedOverWhole == Spec => []CapturesWhole
<1>1. Types /\ Aligned => CapturesWhole
  <2> SUFFICES ASSUME Types, Aligned, ~excused
               PROVE  /\ \A i \in DOMAIN Handed : IsWhole(Handed[i])
                      /\ \A i, j \in DOMAIN Handed : i < j => Handed[i][1][1] < Handed[j][1][1]
    BY DEF CapturesWhole
  <2>1. HandedOver
    BY DEF Aligned
  <2>2. DOMAIN Handed = 1..Len(Handed)
    <3>1. Handed \in Seq(Seq(Bytes))
      BY ConcatProperties DEF Types, LoopTypes, Handed
    <3>2. QED
      BY <3>1
  <2>3. QED
    BY <2>1, <2>2 DEF HandedOver
<1>2. QED
  BY <1>1, AlwaysAligned, PTL

\* FIFO, queue and capture keep to their room, and every capture counted as
\* lost is one that was begun and not handed over (cc1101.cpp:lost_).
THEOREM LossesCounted == Spec => []Cc1101Inv
<1>1. Types /\ Aligned => LossesAreCaptures
  <2> SUFFICES ASSUME Types, Aligned, ~excused PROVE lost + Len(Handed) <= at[1]
    BY DEF LossesAreCaptures
  <2>1. lost + Len(Handed) <= Done /\ Chain(Stream) /\ AtNewest
    BY DEF Aligned, HandedOver
  <2>2. Done \in Int /\ Done <= at[1] /\ at[1] \in Nat
    BY <2>1, StreamFacts
  <2>3. lost \in Nat /\ Len(Handed) \in Nat
    <3>1. Handed \in Seq(Seq(Bytes)) /\ lost \in Nat
      BY ConcatProperties DEF Types, LoopTypes, Handed
    <3>2. QED
      BY <3>1, LenProperties
  <2>4. QED
    BY <2>1, <2>2, <2>3
<1>2. QED
  BY <1>1, AlwaysAligned, TypeCorrect, PTL DEF Cc1101Inv
=============================================================================
