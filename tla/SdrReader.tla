---------------------------- MODULE SdrReader ----------------------------
(***************************************************************************)
(* The SDR backend (radio/sdr.py): the capture tool fills a pipe, a reader *)
(* thread drains it into a bounded queue, and the consumer demodulates     *)
(* overlapping windows of the stream, one burst per call of                *)
(* receive_burst().  A sample is its index in the stream; a carrier is a   *)
(* stretch of the stream, with a sync at its head or without.  One unit of *)
(* time is one sample.                                                     *)
(***************************************************************************)
EXTENDS Integers, Sequences, FiniteSets, FiniteSetsExt

CONSTANTS
  ReadSize,   \* READ_SIZE, in samples
  QueueSize,  \* chunks the queue holds: QUEUE_SECONDS of them
  Hop,        \* HOP_S, in samples
  Overlap,    \* OVERLAP_S, in samples: longer than any packet
  SyncLen,    \* samples of the sync template
  Anchors,    \* CLOCK_ANCHORS
  PipeSize,   \* samples the pipe holds
  End,        \* bound: samples of the stream
  MaxLost,    \* bound: samples the tool loses, once, when the pipe is full
  Airs        \* the sets of carriers [at, len, sync] that may be in the stream

ASSUME SdrAssumption ==
  /\ {ReadSize, QueueSize, Hop, SyncLen, Anchors} \subseteq Nat \ {0}
  /\ {Overlap, PipeSize, End, MaxLost} \subseteq Nat /\ PipeSize >= ReadSize
  /\ Airs \subseteq SUBSET [at : Nat, len : Nat \ {0}, sync : BOOLEAN]
  /\ \A carriers \in Airs : \A c \in carriers : c.sync => SyncLen <= c.len /\ c.len <= Overlap

VARIABLES
  air, lossless,               \* the carriers; _is_regular_file(src)
  produced, ended, lost, lostAt, \* the tool: samples written, EOF, samples lost and where
  pos, item, anchors, dropped,   \* pump(): samples read, chunk it is putting, the clock, dropped_chunks
  q,                           \* the queue
  buf, bursts, exhausted,      \* _iter_numpy(): [from, to), what each pass yielded, the stream has ended
  gaps                         \* history: chunks dropped

tool == <<produced, ended, lost, lostAt>>
reader == <<pos, item, anchors, dropped, gaps>>
consumer == <<buf, bursts, exhausted>>
vars == <<air, lossless, tool, reader, q, consumer>>

Done == [kind |-> "end", from |-> 0, to |-> 0]  \* the None in the queue
Stopped == [kind |-> "stopped", from |-> 0, to |-> 0]
Nothing == [kind |-> "nothing", from |-> 0, to |-> 0]
Chunk(a, b) == [kind |-> "chunk", from |-> a, to |-> b]
Empty(b) == b.from = b.to

\* When sample s was on the air.
OnAir(s) == s + (IF s >= lostAt THEN lost ELSE 0)
Now == OnAir(produced)

Init ==
  /\ air \in Airs /\ lossless \in BOOLEAN
  /\ produced = (IF lossless THEN End ELSE 0) /\ ended = lossless /\ lost = 0 /\ lostAt = End + 1
  /\ pos = 0 /\ item = Nothing /\ anchors = <<>> /\ dropped = 0 /\ gaps = {}
  /\ q = <<>> /\ buf = [from |-> 0, to |-> 0] /\ bursts = {} /\ exhausted = FALSE

(***************************************************************************)
(* The capture tool and the pipe.                                          *)
(***************************************************************************)
Sample ==
  /\ ~ended /\ produced < End /\ produced - pos < PipeSize
  /\ produced' = produced + 1
  /\ UNCHANGED <<air, lossless, ended, lost, lostAt, reader, q, consumer>>

\* Nobody drained the pipe: the tool loses what it cannot write.
LoseSamples ==
  /\ ~ended /\ lost = 0 /\ produced - pos = PipeSize /\ produced < End
  /\ lost' \in 1..MaxLost /\ lostAt' = produced
  /\ UNCHANGED <<air, lossless, produced, ended, reader, q, consumer>>

\* The tool exits, or close() terminates it; what it wrote can still be read.
ToolExits ==
  /\ ~ended /\ ended' = TRUE
  /\ UNCHANGED <<air, lossless, produced, lost, lostAt, reader, q, consumer>>

(***************************************************************************)
(* The reader thread.                                                      *)
(***************************************************************************)
\* Mutant: the chunk's first sample instead of its last.
MutNoted(s) == Now - (s - ReadSize)
\* note(pos, now): the read's last sample was on the air by now.
Noted(s) == Now - s
Remember(a) == LET all == Append(anchors, a)
               IN IF Len(all) > Anchors THEN Tail(all) ELSE all

ReadTo == pos' = IF produced - pos < ReadSize THEN produced ELSE pos + ReadSize

\* read(): a whole chunk, or what is left when the stream has ended.
Read ==
  /\ item = Nothing
  /\ produced - pos >= ReadSize \/ (ended /\ pos < produced)
  /\ ReadTo
  /\ item' = Chunk(pos, pos')
  /\ anchors' = Remember(Noted(pos'))
  /\ UNCHANGED <<air, lossless, tool, dropped, gaps, q, consumer>>

\* put() of a recording waits; put_nowait() of a live stream does not.
PutChunk ==
  /\ item.kind = "chunk" /\ Len(q) < QueueSize
  /\ q' = Append(q, item) /\ item' = Nothing
  /\ UNCHANGED <<air, lossless, tool, pos, anchors, dropped, gaps, consumer>>

DropChunk ==
  /\ item.kind = "chunk" /\ ~lossless /\ Len(q) = QueueSize
  /\ dropped' = dropped + 1 /\ gaps' = gaps \cup {item} /\ item' = Nothing
  /\ UNCHANGED <<air, lossless, tool, pos, anchors, q, consumer>>

\* finally: put(None), which waits for room.
ReadEnd ==
  /\ item = Nothing /\ ended /\ pos = produced /\ item' = Done
  /\ UNCHANGED <<air, lossless, tool, pos, anchors, dropped, gaps, q, consumer>>
\* Mutant: the end is not put when there is no room.
MutPutEnd == item' = Stopped /\ q' = IF Len(q) < QueueSize THEN Append(q, Done) ELSE q
PutEnd == Len(q) < QueueSize /\ q' = Append(q, Done) /\ item' = Stopped
EndReader ==
  /\ item = Done /\ PutEnd
  /\ UNCHANGED <<air, lossless, tool, pos, anchors, dropped, gaps, consumer>>

(***************************************************************************)
(* The consumer: demodulate_bursts() sees every carrier in the buffer;     *)
(* one whose sync is wholly there has it located, any other is a burst     *)
(* without a header, from where it is first seen.                          *)
(***************************************************************************)
At(s) == IF anchors = <<>> THEN OnAir(s) ELSE Min(Range(anchors)) + s

Larger(a, b) == IF a > b THEN a ELSE b
Smaller(a, b) == IF a < b THEN a ELSE b

Burst(b, c) ==
  LET synced == c.sync /\ b.from <= c.at /\ c.at + SyncLen <= b.to
      start == Larger(c.at, b.from)
  IN [of |-> c, synced |-> synced, start |-> start, to |-> Smaller(c.at + c.len, b.to),
      error |-> At(start) - OnAir(start)]
Demodulated(b) == {Burst(b, c) : c \in {x \in air : x.at < b.to /\ b.from < x.at + x.len}}

Mine(b, x, final, keep) ==
  /\ x.start < (IF final THEN b.to ELSE b.to - keep)
  /\ x.synced \/ final \/ x.to < b.to
\* What a pass yields, each with the pass it is from; the order within a pass
\* is left out.
Pass(b, final, keep) ==
  IF Empty(b) THEN {}
  ELSE {[burst |-> x, in |-> b, final |-> final] : x \in {y \in Demodulated(b) : Mine(b, y, final, keep)}}

\* A chunk that does not follow the buffer ends that stretch of the stream.
\* Mutant: chunks are joined whatever is missing between them.
MutBroken(chunk) == FALSE
Broken(chunk) == ~Empty(buf) /\ chunk.from # buf.to
Joined(chunk) == [from |-> IF Empty(buf) \/ Broken(chunk) THEN chunk.from ELSE buf.from, to |-> chunk.to]

Kept(b) == [b EXCEPT !.from = b.to - Overlap]

Get ==
  /\ q # <<>> /\ Head(q).kind = "chunk" /\ ~exhausted
  /\ LET chunk == Head(q)
         first == IF Broken(chunk) THEN Pass(buf, TRUE, 0) ELSE {}
         b == Joined(chunk)
         full == b.to - b.from >= Hop + Overlap
     IN /\ buf' = IF full THEN Kept(b) ELSE b
        /\ bursts' = bursts \cup first \cup (IF full THEN Pass(b, FALSE, Overlap) ELSE {})
  /\ q' = Tail(q)
  /\ UNCHANGED <<air, lossless, tool, reader, exhausted>>

FinalPass == Pass(buf, TRUE, 0)
GetEnd ==
  /\ q # <<>> /\ Head(q) = Done /\ ~exhausted
  /\ bursts' = bursts \cup FinalPass /\ exhausted' = TRUE /\ q' = Tail(q)
  /\ UNCHANGED <<air, lossless, tool, reader, buf>>

Next == Sample \/ LoseSamples \/ ToolExits \/ Read \/ PutChunk \/ DropChunk \/ ReadEnd \/ EndReader
        \/ Get \/ GetEnd
Spec == Init /\ [][Next]_vars
\* Two threads that are never stopped while there is something for them.
FairSpec == Spec /\ WF_vars(Read \/ PutChunk \/ DropChunk \/ ReadEnd \/ EndReader) /\ WF_vars(Get \/ GetEnd)

(***************************************************************************)
(* Properties.                                                             *)
(***************************************************************************)
Marks == [kind : {"chunk", "end", "stopped", "nothing"}, from : 0..End, to : 0..End]
\* The reader's and the consumer's places in the stream agree: what is
\* buffered was queued before what is queued, and that before what is read.
TypeOK ==
  /\ air \in Airs /\ lossless \in BOOLEAN /\ ended \in BOOLEAN /\ exhausted \in BOOLEAN
  /\ produced \in 0..End /\ lost \in 0..MaxLost /\ lostAt \in 0..(End + 1) /\ pos \in 0..produced
  /\ item \in Marks /\ gaps \subseteq Marks /\ dropped \in 0..End
  /\ Len(q) <= QueueSize /\ (\A i \in DOMAIN q : q[i] \in Marks) /\ buf.from \in 0..buf.to /\ buf.to \in 0..pos
  /\ Len(anchors) <= Anchors /\ \A i \in DOMAIN anchors : anchors[i] \in Nat

Judged(c) == {x \in bursts : x.burst.of = c /\ x.burst.synced}
Missing(a, b) == \E g \in gaps : g.from < b /\ a < g.to
Delivered(a, b) == b <= pos /\ ~Missing(a, b)

\* Every sync is judged exactly once, whatever windows, drops and the end of
\* the stream do to it, unless its own samples never reached the consumer
\* (docstring of _iter_numpy()).
EverySyncJudgedOnce ==
  \A c \in air : c.sync =>
    /\ Cardinality(Judged(c)) <= 1
    /\ exhausted => (Judged(c) # {} <=> Delivered(c.at, c.at + SyncLen))

\* A sync is judged with its whole packet in the buffer: only where the
\* stream has a gap, or ends, is a packet cut short.
JudgedWhole ==
  \A p \in bursts :
    LET x == p.burst
    IN x.synced /\ x.to < x.of.at + x.of.len =>
         x.to \in {g.from : g \in gaps} \cup (IF ended THEN {produced} ELSE {})

\* A run without a header, no longer than the overlap, is reported whole in
\* some window if it reached the consumer: what a window leaves to the next
\* one is not lost between them.
ShortRunsReported ==
  exhausted => \A c \in air :
    ~c.sync /\ c.len <= Overlap /\ Delivered(c.at, c.at + c.len) =>
      \E p \in bursts : p.burst.of = c /\ p.burst.start = c.at /\ p.burst.to = c.at + c.len

\* Every carrier is judged as the stream allows: syncs once and whole, short
\* runs in the window that holds them.
EveryCarrierJudged == EverySyncJudgedOnce /\ JudgedWhole /\ ShortRunsReported

\* A live burst is never stamped before it was on the air nor later than the
\* pipe can hold a sample back behind a read; samples the tool lost move the stamps by no
\* more than was lost, and CLOCK_ANCHORS reads later the clock has caught up.
ClockBounded ==
  ~lossless =>
    /\ \A p \in bursts : p.burst.error \in (-lost)..(PipeSize - ReadSize + lost)
    /\ lost > 0 /\ pos >= lostAt + Anchors * ReadSize => Min(Range(anchors)) >= lost

\* The places in the stream agree, and so do the times given to them.
SdrReaderInv == TypeOK /\ ClockBounded

\* When the stream has ended the consumer gets to know, queue full or not:
\* the loop that calls receive_burst() stops instead of waiting for ever.
EndIsSeen == ended ~> exhausted
=============================================================================
