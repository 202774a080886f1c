----------------------------- MODULE RadioProofs -----------------------------
(***************************************************************************)
(* Proofs about the two radios a receiver is built on: the samples of an   *)
(* SDR (SdrReader) and the watchdog over a dongle (Watchdog).  The two     *)
(* share nothing; each part is about its own specification.                *)
(***************************************************************************)
EXTENDS SdrReader, Watchdog, FiniteSetTheorems, SequenceTheorems, WellFoundedInduction, TLAPS

(***************************************************************************)
(* SdrReader, for every stream, every size of reads, queue, windows,       *)
(* overlap and pipe, any number of anchors, a live tool or a recording.    *)
(*                                                                         *)
(* Behind what the consumer has buffered, each sample read is in a chunk   *)
(* that waits or in one that was dropped (NoHoles), and no dropped chunk   *)
(* reaches into the buffer (GapsApart).  So a window ends early only at a  *)
(* dropped chunk, and what starts before the buffer has been judged: once  *)
(* (JudgedBehind), and if its samples arrived, certainly (NoneForgotten).  *)
(***************************************************************************)

Chunks == {c \in [kind : {"chunk"}, from : 0..End, to : 0..End] : c.from < c.to}
Carrier == [at : Nat, len : Nat \ {0}, sync : BOOLEAN]

\* Up to where the reader has put or dropped what it read.
Settled == IF item.kind = "chunk" THEN item.from ELSE pos

ToolShape ==
  /\ air \in Airs /\ lossless \in BOOLEAN /\ ended \in BOOLEAN
  /\ produced \in 0..End /\ lost \in 0..MaxLost /\ lostAt \in 0..(End + 1)
  /\ lost > 0 => lostAt <= produced
  /\ ~lossless => produced - pos <= PipeSize

ReaderShape ==
  /\ pos \in 0..produced /\ item \in Chunks \cup {Done, Stopped, Nothing}
  /\ item \in Chunks => item.to = pos
  /\ item \in {Done, Stopped} => ended /\ pos = produced
  /\ dropped \in 0..Settled

QueueShape ==
  /\ q \in Seq(Chunks \cup {Done}) /\ Len(q) <= QueueSize
  /\ \A i \in 1..Len(q) : q[i] = Done => i = Len(q) /\ item = Stopped
  /\ \A i \in 1..Len(q) : q[i] \in Chunks => buf.to <= q[i].from /\ q[i].to <= Settled
  /\ \A i, j \in 1..Len(q) : i < j /\ q[i] \in Chunks /\ q[j] \in Chunks => q[i].to <= q[j].from

BufferShape ==
  /\ buf \in [from : Nat, to : Nat] /\ buf.from <= buf.to /\ buf.to <= Settled
  /\ exhausted \in BOOLEAN /\ (exhausted => q = <<>> /\ item = Stopped)

\* What was dropped is in no chunk that waits, and not in the buffer.
GapsApart ==
  /\ gaps \subseteq Chunks
  /\ \A g \in gaps : g.to <= Settled /\ (g.to <= buf.from \/ buf.to <= g.from)
  /\ \A g \in gaps : \A i \in 1..Len(q) : q[i] \in Chunks => g.to <= q[i].from \/ q[i].to <= g.from

Within(s, c) == c.from <= s /\ s < c.to

\* A sample that was read is in the buffer or before it, waits, or was dropped.
NoHoles ==
  \A s \in Nat : buf.to <= s /\ s < Settled =>
     (\E g \in gaps : Within(s, g)) \/ (\E i \in 1..Len(q) : q[i] \in Chunks /\ Within(s, q[i]))

Places == ToolShape /\ ReaderShape /\ QueueShape /\ BufferShape /\ GapsApart /\ NoHoles

(***************************************************************************)
(* What was judged, and what must have been.                               *)
(***************************************************************************)
\* How much of a carrier must have arrived for it to be found.
Needed(c) == IF c.sync THEN SyncLen ELSE c.len
Findable(c) == c.sync \/ c.len <= Overlap
FoundAs(c, x) == x.of = c /\ x.start = c.at /\ (IF c.sync THEN x.synced ELSE x.to = c.at + c.len)

JudgedOnce ==
  \A p, r \in bursts : p.burst.synced /\ r.burst.synced /\ p.burst.of = r.burst.of => p = r

\* What was judged is behind the window, and all of its sync was there.
JudgedBehind ==
  \A p \in bursts : p.burst.synced =>
    LET c == p.burst.of
    IN /\ c \in air /\ c.sync /\ c.at + SyncLen <= buf.to
       /\ c.at < buf.from \/ exhausted
       /\ ~Missing(c.at, c.at + SyncLen)

NoneForgotten ==
  \A c \in air :
    /\ Findable(c) /\ ~Missing(c.at, c.at + Needed(c))
    /\ c.at < buf.from \/ (exhausted /\ c.at + Needed(c) <= buf.to)
    => \E p \in bursts : FoundAs(c, p.burst)

Judgements == JudgedOnce /\ JudgedBehind /\ NoneForgotten /\ JudgedWhole

(***************************************************************************)
(* The clock.                                                              *)
(***************************************************************************)
AnchorShape ==
  /\ anchors \in Seq(Nat) /\ Len(anchors) <= Anchors
  /\ pos > 0 => anchors # <<>>
  /\ ~lossless => \A i \in 1..Len(anchors) : anchors[i] <= PipeSize - ReadSize + lost

\* An anchor from before the loss is gone a read for each place behind it later.
OldOnesLeave ==
  lost > 0 => \A i \in 1..Len(anchors) :
    anchors[i] < lost => pos <= lostAt + (Len(anchors) - i) * ReadSize

StampsNear == ~lossless => \A p \in bursts : p.burst.error \in (-lost)..(PipeSize - ReadSize + lost)

ClockInv == AnchorShape /\ OldOnesLeave /\ StampsNear

(***************************************************************************)
(* Constants, carriers and minima.                                         *)
(***************************************************************************)
\* The constants are numbers, and a read fits into the pipe.
LEMMA Constants ==
  /\ ReadSize \in Nat \ {0} /\ QueueSize \in Nat \ {0} /\ Hop \in Nat \ {0} /\ SyncLen \in Nat \ {0}
  /\ Anchors \in Nat \ {0} /\ Overlap \in Nat /\ PipeSize \in Nat /\ End \in Nat /\ MaxLost \in Nat
  /\ PipeSize >= ReadSize
BY SdrAssumption

\* What a carrier needs to be found is no longer than itself.
LEMMA Carriers ==
  ASSUME ToolShape, NEW c \in air
  PROVE  /\ c \in Carrier /\ c.at \in Nat /\ c.len \in Nat \ {0} /\ c.sync \in BOOLEAN
         /\ c.sync => SyncLen <= c.len /\ c.len <= Overlap
         /\ Needed(c) \in Nat \ {0} /\ Needed(c) <= c.len
         /\ Findable(c) => c.len <= Overlap
<1>1. c \in Carrier /\ (c.sync => SyncLen <= c.len /\ c.len <= Overlap)
  BY SdrAssumption DEF ToolShape, Carrier
<1>2. c.at \in Nat /\ c.len \in Nat \ {0} /\ c.sync \in BOOLEAN
  BY <1>1 DEF Carrier
<1>3. Needed(c) \in Nat \ {0} /\ Needed(c) <= c.len
  BY <1>1, <1>2, Constants DEF Needed
<1>4. QED
  BY <1>1, <1>2, <1>3 DEF Findable

LessThan == {r \in Nat \X Nat : r[1] < r[2]}

\* The order of the numbers as a relation.
LEMMA LessThanRelates == \A x, y \in Nat : x < y => <<x, y>> \in LessThan
BY DEF LessThan

LEMMA LessThanWellFounded == IsWellFoundedOn(LessThan, Nat)
BY NatLessThanWellFounded DEF OpToRel, LessThan

\* Min is what its name says, of any numbers.
LEMMA MinIsLeast ==
  ASSUME NEW S, S \subseteq Nat, S # {}
  PROVE  Min(S) \in S /\ \A x \in S : Min(S) <= x
<1>1. PICK x \in S : \A y \in S : ~(<<y, x>> \in LessThan)
  BY WFMin, LessThanWellFounded
<1>2. \A y \in S : x <= y
  <2> SUFFICES ASSUME NEW y \in S, ~(x <= y) PROVE FALSE
    OBVIOUS
  <2>1. x \in Nat /\ y \in Nat
    OBVIOUS
  <2>2. <<y, x>> \in LessThan
    BY <2>1, LessThanRelates
  <2>3. QED
    BY <2>2, <1>1
<1>3. QED
  BY <1>2 DEF Min

\* What the reader holds or the queue has beside chunks is none.
LEMMA NoChunk ==
  /\ Done \notin Chunks /\ Stopped \notin Chunks /\ Nothing \notin Chunks
  /\ Done # Stopped /\ Nothing # Stopped /\ Nothing # Done
  /\ Done.kind # "chunk" /\ Stopped.kind # "chunk" /\ Nothing.kind # "chunk"
BY DEF Done, Stopped, Nothing, Chunks

\* A chunk has samples.
LEMMA ChunkFields ==
  ASSUME NEW c \in Chunks
  PROVE  c.kind = "chunk" /\ c.from \in Nat /\ c.to \in Nat /\ c.from < c.to /\ c.to <= End
BY Constants DEF Chunks

LEMMA ChunkMade ==
  ASSUME NEW a \in Nat, NEW b \in Nat, a < b, b <= End
  PROVE  Chunk(a, b) \in Chunks /\ Chunk(a, b).from = a /\ Chunk(a, b).to = b /\ Chunk(a, b).kind = "chunk"
BY Constants DEF Chunks, Chunk

\* What the reader holds, and up to where it has settled what it read.
LEMMA Held ==
  ASSUME ToolShape, ReaderShape
  PROVE  /\ item.kind = "chunk" <=> item \in Chunks
         /\ item \in Chunks => Settled = item.from /\ Settled < pos
         /\ item \notin Chunks => Settled = pos
         /\ Settled \in Nat /\ Settled <= pos /\ pos \in Nat /\ pos <= produced /\ produced \in Nat
<1>1. pos \in Nat /\ pos <= produced /\ produced \in Nat
  BY Constants DEF ToolShape, ReaderShape
<1>2. item.kind = "chunk" <=> item \in Chunks
  BY NoChunk, ChunkFields DEF ReaderShape
<1>3. CASE item \in Chunks
  BY <1>1, <1>2, <1>3, ChunkFields DEF ReaderShape, Settled
<1>4. CASE item \notin Chunks
  BY <1>1, <1>2, <1>4 DEF Settled
<1>5. QED
  BY <1>1, <1>2, <1>3, <1>4

(***************************************************************************)
(* Places.                                                                 *)
(***************************************************************************)
Waiting == QueueShape /\ BufferShape /\ GapsApart /\ NoHoles

\* A step that leaves queue, buffer and gaps alone.
LEMMA StillWaiting ==
  ASSUME Waiting, Settled' = Settled, item = Stopped => item' = Stopped,
         UNCHANGED <<q, buf, gaps, exhausted>>
  PROVE  Waiting'
<1>1. QueueShape'
  BY DEF Waiting, QueueShape
<1>2. BufferShape'
  BY DEF Waiting, BufferShape
<1>3. GapsApart'
  BY DEF Waiting, GapsApart
<1>4. NoHoles'
  BY DEF Waiting, NoHoles, Within
<1>5. QED
  BY <1>1, <1>2, <1>3, <1>4 DEF Waiting

\* Nothing is read yet, nothing dropped.
LEMMA StreamStarts == Init => Places
<1> SUFFICES ASSUME Init PROVE Places
  OBVIOUS
<1>1. ToolShape
  BY Constants DEF Init, ToolShape
<1>2. ReaderShape /\ Settled = 0
  BY <1>1, Constants, NoChunk DEF Init, ReaderShape, Settled, ToolShape
<1>3. QueueShape
  BY Constants DEF Init, QueueShape
<1>4. BufferShape
  <2>1. buf = [from |-> 0, to |-> 0] /\ exhausted = FALSE
    BY DEF Init
  <2>2. buf \in [from : Nat, to : Nat] /\ buf.from <= buf.to /\ buf.to <= Settled
    BY <1>2, <2>1
  <2>3. exhausted \in BOOLEAN /\ (exhausted => q = <<>> /\ item = Stopped)
    BY <2>1, Zenon
  <2>4. QED
    BY <2>2, <2>3, Zenon DEF BufferShape
<1>5. GapsApart
  BY DEF Init, GapsApart
<1>6. NoHoles
  BY <1>2 DEF Init, NoHoles
<1>7. QED
  BY <1>1, <1>2, <1>3, <1>4, <1>5, <1>6 DEF Places

\* The tool writes at the end of the stream, or not at all.
LEMMA ToolKeepsPlaces ==
  ASSUME Places, Sample \/ LoseSamples \/ ToolExits
  PROVE  Places'
<1>1. Settled' = Settled /\ UNCHANGED <<air, lossless, pos, item, dropped, q, buf, gaps, exhausted>>
  BY DEF Sample, LoseSamples, ToolExits, reader, consumer, Settled
<1>2. Waiting'
  BY <1>1, StillWaiting DEF Places, Waiting
<1>3. CASE Sample
  <2>1. ToolShape' /\ produced' = produced + 1 /\ ~ended /\ produced \in Nat
    BY <1>1, <1>3, Constants DEF Sample, Places, ToolShape, ReaderShape
  <2>2. ReaderShape'
    BY <1>1, <1>3, <2>1, Held DEF Sample, Places, ReaderShape
  <2>3. QED
    BY <1>2, <2>1, <2>2 DEF Places, Waiting
<1>4. CASE LoseSamples
  <2>1. ToolShape'
    BY <1>1, <1>4, Constants DEF LoseSamples, Places, ToolShape, ReaderShape
  <2>2. ReaderShape'
    BY <1>1, <1>4 DEF LoseSamples, Places, ReaderShape
  <2>3. QED
    BY <1>2, <2>1, <2>2 DEF Places, Waiting
<1>5. CASE ToolExits
  <2>1. ToolShape'
    BY <1>1, <1>5 DEF ToolExits, Places, ToolShape
  <2>2. ReaderShape'
    BY <1>1, <1>5 DEF ToolExits, Places, ReaderShape
  <2>3. QED
    BY <1>2, <2>1, <2>2 DEF Places, Waiting
<1>6. QED
  BY <1>3, <1>4, <1>5

\* How far a read gets.
LEMMA ReadsOn ==
  ASSUME Places, Read
  PROVE  /\ pos' \in Nat /\ pos < pos' /\ pos' <= produced /\ pos' <= pos + ReadSize
         /\ produced - pos' <= PipeSize - ReadSize \/ pos' = produced \/ lossless
         /\ item = Nothing /\ item' \in Chunks /\ item'.from = pos /\ item'.to = pos'
         /\ item'.kind = "chunk"
<1>1. pos \in Nat /\ produced \in Nat /\ pos <= produced /\ produced <= End
  BY Constants DEF Places, ToolShape, ReaderShape
<1>2. pos' = IF produced - pos < ReadSize THEN produced ELSE pos + ReadSize
  BY DEF Read, ReadTo
<1>3. (produced - pos >= ReadSize) \/ pos < produced
  BY DEF Read
<1>4. pos' \in Nat /\ pos < pos' /\ pos' <= produced /\ pos' <= pos + ReadSize
  BY <1>1, <1>2, <1>3, Constants
<1>5. produced - pos' <= PipeSize - ReadSize \/ pos' = produced \/ lossless
  <2>1. lossless \/ produced - pos <= PipeSize
    BY DEF Places, ToolShape
  <2>2. CASE produced - pos <= PipeSize
    BY <1>1, <1>2, <2>2, Constants
  <2>3. QED
    BY <2>1, <2>2
<1>6. item = Nothing /\ item' = Chunk(pos, pos')
  BY DEF Read
<1>7. pos' <= End
  BY <1>1, <1>4, Constants
<1>8. item' \in Chunks /\ item'.from = pos /\ item'.to = pos' /\ item'.kind = "chunk"
  BY <1>1, <1>4, <1>6, <1>7, ChunkMade
<1>9. QED
  BY <1>4, <1>5, <1>6, <1>8

\* What was read is held by the reader.
LEMMA ReadKeepsPlaces ==
  ASSUME Places, Read
  PROVE  Places'
<1>1. /\ pos' \in Nat /\ pos < pos' /\ pos' <= produced
      /\ item = Nothing /\ item' \in Chunks /\ item'.from = pos /\ item'.to = pos'
      /\ item'.kind = "chunk"
  BY ReadsOn
<1>2. UNCHANGED <<air, lossless, produced, ended, lost, lostAt, dropped, gaps, q, buf, bursts, exhausted>>
  BY DEF Read, tool, consumer
<1>3. Settled = pos /\ Settled' = pos /\ pos \in Nat /\ produced \in Nat
  BY <1>1, NoChunk, Constants DEF Settled, Places, ToolShape, ReaderShape
<1>4. Waiting'
  BY <1>1, <1>2, <1>3, NoChunk, StillWaiting DEF Places, Waiting
<1>5. ToolShape'
  <2>1. lossless \/ produced - pos' <= PipeSize
    <3>1. lossless \/ produced - pos <= PipeSize
      BY DEF Places, ToolShape
    <3>2. ASSUME produced - pos <= PipeSize PROVE produced - pos' <= PipeSize
      <4>1. pos \in Nat /\ pos' \in Nat /\ produced \in Nat /\ pos < pos'
        BY <1>1, <1>3
      <4>2. \A r \in Nat : pos < r => produced - r <= PipeSize
        BY <3>2, <4>1, Constants
      <4>3. QED
        BY <4>1, <4>2
    <3>3. QED
      BY <3>1, <3>2
  <2>2. QED
    BY <1>2, <2>1 DEF Places, ToolShape
<1>6. ReaderShape'
  BY <1>1, <1>2, <1>3, NoChunk DEF Places, ReaderShape
<1>7. QED
  BY <1>4, <1>5, <1>6 DEF Places, Waiting

\* The end is held when all was read.
LEMMA ReadEndKeepsPlaces ==
  ASSUME Places, ReadEnd
  PROVE  Places'
<1>1. item = Nothing /\ item' = Done /\ ended /\ pos = produced
  BY DEF ReadEnd
<1>2. /\ UNCHANGED <<air, lossless, produced, ended, lost, lostAt>>
      /\ UNCHANGED <<pos, dropped, gaps, q, buf, bursts, exhausted>>
  BY DEF ReadEnd, tool, consumer
<1>3. Settled = pos /\ Settled' = pos
  BY <1>1, <1>2, NoChunk DEF Settled
<1>4. Waiting'
  BY <1>1, <1>2, <1>3, NoChunk, StillWaiting DEF Places, Waiting
<1>5. ToolShape'
  BY <1>1, <1>2 DEF Places, ToolShape
<1>6. ReaderShape'
  BY <1>1, <1>2, <1>3, NoChunk DEF Places, ReaderShape
<1>7. QED
  BY <1>4, <1>5, <1>6 DEF Places, Waiting

\* While the reader has not stopped, no end is in the queue.
LEMMA NoEndYet ==
  ASSUME QueueShape, item # Stopped
  PROVE  \A i \in 1..Len(q) : q[i] \in Chunks
BY DEF QueueShape

\* The chunk held goes behind those that wait.
LEMMA PutKeepsPlaces ==
  ASSUME Places, PutChunk
  PROVE  Places'
<1>1. /\ item \in Chunks /\ item' = Nothing /\ q' = Append(q, item) /\ Len(q) < QueueSize
      /\ item # Stopped
  BY Held, NoChunk DEF PutChunk, Places
<1>2. /\ UNCHANGED <<air, lossless, produced, ended, lost, lostAt>>
      /\ UNCHANGED <<pos, dropped, gaps, buf, bursts, exhausted>>
  BY DEF PutChunk, tool, consumer
<1>3. /\ Settled = item.from /\ Settled' = item.to /\ item.to = pos /\ Settled < Settled'
      /\ item.from \in Nat /\ item.to \in Nat
  BY <1>1, <1>2, NoChunk, ChunkFields DEF Settled, Places, ReaderShape
<1>4. /\ q \in Seq(Chunks \cup {Done}) /\ q' \in Seq(Chunks \cup {Done}) /\ Len(q) \in Nat
      /\ Len(q') = Len(q) + 1 /\ q'[Len(q) + 1] = item /\ \A i \in 1..Len(q) : q'[i] = q[i]
  BY <1>1 DEF Places, QueueShape
<1>5. \A i \in 1..Len(q) : q[i] \in Chunks
  BY <1>1, NoEndYet DEF Places
<1>6. \A i \in 1..Len(q') : q'[i] \in Chunks
  BY <1>1, <1>4, <1>5
<1>7. ToolShape' /\ ReaderShape'
  <2>1. ToolShape'
    BY <1>2 DEF Places, ToolShape
  <2>2. ReaderShape'
    BY <1>1, <1>2, <1>3, NoChunk DEF Places, ReaderShape
  <2>3. QED
    BY <2>1, <2>2
<1>8. BufferShape'
  <2>1. buf.to <= Settled /\ buf \in [from : Nat, to : Nat] /\ buf.from <= buf.to
    BY DEF Places, BufferShape
  <2>2. ~exhausted /\ exhausted \in BOOLEAN
    BY <1>1 DEF Places, BufferShape
  <2>3. buf' = buf /\ exhausted' = exhausted /\ buf'.to <= Settled'
    BY <1>2, <1>3, <2>1
  <2>4. QED
    BY <2>1, <2>2, <2>3 DEF BufferShape
<1>9. QueueShape'
  <2>1. Len(q') <= QueueSize
    BY <1>1, <1>4, Constants
  <2>2. \A i \in 1..Len(q') : q'[i] = Done => i = Len(q') /\ item' = Stopped
    BY <1>6, NoChunk
  <2>3. ASSUME NEW i \in 1..Len(q') PROVE buf'.to <= q'[i].from /\ q'[i].to <= Settled'
    <3>1. CASE i \in 1..Len(q)
      <4>1. q[i] \in Chunks /\ q'[i] = q[i] /\ buf.to <= q[i].from /\ q[i].to <= Settled
        BY <1>4, <1>5, <3>1 DEF Places, QueueShape
      <4>2. QED
        BY <1>2, <1>3, <4>1, ChunkFields
    <3>2. CASE i = Len(q) + 1
      BY <1>2, <1>3, <1>4, <3>2 DEF Places, BufferShape
    <3>3. QED
      BY <1>4, <3>1, <3>2
  <2>4. ASSUME NEW i \in 1..Len(q'), NEW j \in 1..Len(q'), i < j PROVE q'[i].to <= q'[j].from
    <3>1. i \in 1..Len(q)
      BY <1>4, <2>4
    <3>2. CASE j \in 1..Len(q)
      BY <1>4, <1>5, <2>4, <3>1, <3>2 DEF Places, QueueShape
    <3>3. CASE j = Len(q) + 1
      BY <1>3, <1>4, <1>5, <3>1, <3>3 DEF Places, QueueShape
    <3>4. QED
      BY <1>4, <3>2, <3>3
  <2>5. QED
    BY <1>4, <2>1, <2>2, <2>3, <2>4 DEF QueueShape
<1>10. GapsApart'
  <2>1. gaps' \subseteq Chunks /\ gaps' = gaps
    BY <1>2 DEF Places, GapsApart
  <2>2. ASSUME NEW g \in gaps' PROVE g.to <= Settled' /\ (g.to <= buf'.from \/ buf'.to <= g.from)
    <3>1. g \in Chunks /\ g.to <= Settled /\ (g.to <= buf.from \/ buf.to <= g.from)
      BY <2>1 DEF Places, GapsApart
    <3>2. QED
      BY <1>2, <1>3, <3>1, ChunkFields
  <2>3. ASSUME NEW g \in gaps', NEW i \in 1..Len(q') PROVE g.to <= q'[i].from \/ q'[i].to <= g.from
    <3>1. CASE i \in 1..Len(q)
      BY <1>4, <1>5, <2>1, <3>1 DEF Places, GapsApart
    <3>2. CASE i = Len(q) + 1
      BY <1>3, <1>4, <2>1, <3>2 DEF Places, GapsApart
    <3>3. QED
      BY <1>4, <3>1, <3>2
  <2>4. QED
    BY <2>1, <2>2, <2>3 DEF GapsApart
<1>11. NoHoles'
  <2> SUFFICES ASSUME NEW s \in Nat, buf'.to <= s, s < Settled'
               PROVE  \/ \E g \in gaps' : Within(s, g)
                      \/ \E i \in 1..Len(q') : q'[i] \in Chunks /\ Within(s, q'[i])
    BY DEF NoHoles, Within
  <2>1. CASE s < Settled
    <3>1. (\E g \in gaps : Within(s, g)) \/ (\E i \in 1..Len(q) : q[i] \in Chunks /\ Within(s, q[i]))
      BY <1>2, <2>1 DEF Places, NoHoles
    <3>2. ASSUME NEW i \in 1..Len(q), q[i] \in Chunks /\ Within(s, q[i])
          PROVE  i \in 1..Len(q') /\ q'[i] \in Chunks /\ Within(s, q'[i])
      BY <1>4, <3>2
    <3>3. QED
      BY <1>2, <3>1, <3>2
  <2>2. CASE Settled <= s
    <3>1. Within(s, item)
      BY <1>3, <2>2 DEF Within
    <3>2. Len(q) + 1 \in 1..Len(q')
      BY <1>4
    <3>3. QED
      BY <1>1, <1>4, <3>1, <3>2
  <2>3. QED
    BY <1>3, <2>1, <2>2
<1>12. QED
  BY <1>7, <1>8, <1>9, <1>10, <1>11 DEF Places

\* The end goes behind the last chunk.
LEMMA EndKeepsPlaces ==
  ASSUME Places, EndReader
  PROVE  Places'
<1>1. item = Done /\ item' = Stopped /\ q' = Append(q, Done) /\ Len(q) < QueueSize /\ item # Stopped
  BY NoChunk DEF EndReader, PutEnd
<1>2. /\ UNCHANGED <<air, lossless, produced, ended, lost, lostAt>>
      /\ UNCHANGED <<pos, dropped, gaps, buf, bursts, exhausted>>
  BY DEF EndReader, tool, consumer
<1>3. Settled = pos /\ Settled' = pos
  BY <1>1, <1>2, NoChunk DEF Settled
<1>4. /\ q \in Seq(Chunks \cup {Done}) /\ q' \in Seq(Chunks \cup {Done}) /\ Len(q) \in Nat
      /\ Len(q') = Len(q) + 1 /\ q'[Len(q) + 1] = Done /\ \A i \in 1..Len(q) : q'[i] = q[i]
  BY <1>1 DEF Places, QueueShape
<1>5. \A i \in 1..Len(q) : q[i] \in Chunks
  BY <1>1, NoEndYet DEF Places
<1>6. \A i \in 1..Len(q') : q'[i] \in Chunks => i \in 1..Len(q) /\ q'[i] = q[i]
  BY <1>4, NoChunk
<1>7. ToolShape' /\ ReaderShape'
  <2>1. ToolShape'
    BY <1>2 DEF Places, ToolShape
  <2>2. ReaderShape'
    BY <1>1, <1>2, <1>3, NoChunk DEF Places, ReaderShape
  <2>3. QED
    BY <2>1, <2>2
<1>8. BufferShape'
  <2>1. buf.to <= Settled /\ buf \in [from : Nat, to : Nat] /\ buf.from <= buf.to
    BY DEF Places, BufferShape
  <2>2. ~exhausted /\ exhausted \in BOOLEAN
    BY <1>1 DEF Places, BufferShape
  <2>3. buf' = buf /\ exhausted' = exhausted /\ buf'.to <= Settled'
    BY <1>2, <1>3, <2>1
  <2>4. QED
    BY <2>1, <2>2, <2>3 DEF BufferShape
<1>9. QueueShape'
  <2>1. Len(q') <= QueueSize
    BY <1>1, <1>4, Constants
  <2>2. \A i \in 1..Len(q') : q'[i] = Done => i = Len(q') /\ item' = Stopped
    BY <1>1, <1>4, <1>5, NoChunk
  <2>3. \A i \in 1..Len(q') : q'[i] \in Chunks => buf'.to <= q'[i].from /\ q'[i].to <= Settled'
    BY <1>2, <1>3, <1>6 DEF Places, QueueShape
  <2>4. \A i, j \in 1..Len(q') : i < j /\ q'[i] \in Chunks /\ q'[j] \in Chunks => q'[i].to <= q'[j].from
    BY <1>6 DEF Places, QueueShape
  <2>5. QED
    BY <1>4, <2>1, <2>2, <2>3, <2>4 DEF QueueShape
<1>10. GapsApart'
  <2>1. gaps' = gaps /\ buf' = buf /\ Settled' = Settled
    BY <1>2, <1>3
  <2>2. QED
    BY <1>6, <2>1 DEF Places, GapsApart
<1>11. NoHoles'
  <2> SUFFICES ASSUME NEW s \in Nat, buf'.to <= s, s < Settled'
               PROVE  \/ \E g \in gaps' : Within(s, g)
                      \/ \E i \in 1..Len(q') : q'[i] \in Chunks /\ Within(s, q'[i])
    BY DEF NoHoles, Within
  <2>1. (\E g \in gaps : Within(s, g)) \/ (\E i \in 1..Len(q) : q[i] \in Chunks /\ Within(s, q[i]))
    BY <1>2, <1>3 DEF Places, NoHoles
  <2>2. ASSUME NEW i \in 1..Len(q), q[i] \in Chunks /\ Within(s, q[i])
        PROVE  i \in 1..Len(q') /\ q'[i] \in Chunks /\ Within(s, q'[i])
    BY <1>4, <2>2
  <2>3. QED
    BY <1>2, <2>1, <2>2
<1>12. QED
  BY <1>7, <1>8, <1>9, <1>10, <1>11 DEF Places

\* The chunk held is behind all that waits, and becomes a gap.
LEMMA DropKeepsPlaces ==
  ASSUME Places, DropChunk
  PROVE  Places'
<1>1. /\ item \in Chunks /\ item' = Nothing /\ gaps' = gaps \cup {item} /\ dropped' = dropped + 1
      /\ item # Stopped
  BY Held, NoChunk DEF DropChunk, Places
<1>2. UNCHANGED <<air, lossless, produced, ended, lost, lostAt, pos, q, buf, bursts, exhausted>>
  BY DEF DropChunk, tool, consumer
<1>3. /\ Settled = item.from /\ Settled' = item.to /\ item.to = pos /\ Settled < Settled'
      /\ item.from \in Nat /\ item.to \in Nat
  BY <1>1, <1>2, NoChunk, ChunkFields DEF Settled, Places, ReaderShape
<1>4. \A i \in 1..Len(q) : q[i] \in Chunks /\ buf.to <= q[i].from /\ q[i].to <= Settled
  BY <1>1, NoEndYet DEF Places, QueueShape
<1>5. buf.to <= Settled /\ buf \in [from : Nat, to : Nat] /\ buf.from <= buf.to
  BY DEF Places, BufferShape
<1>6. ToolShape' /\ ReaderShape'
  <2>1. ToolShape'
    BY <1>2 DEF Places, ToolShape
  <2>2. dropped' \in 0..Settled'
    BY <1>1, <1>3 DEF Places, ReaderShape
  <2>3. ReaderShape'
    BY <1>1, <1>2, <2>2, NoChunk DEF Places, ReaderShape
  <2>4. QED
    BY <2>1, <2>3
<1>7. BufferShape'
  <2>1. ~exhausted /\ exhausted \in BOOLEAN
    BY <1>1 DEF Places, BufferShape
  <2>2. buf' = buf /\ exhausted' = exhausted /\ buf'.to <= Settled'
    BY <1>2, <1>3, <1>5
  <2>3. QED
    BY <1>5, <2>1, <2>2 DEF BufferShape
<1>8. QueueShape'
  <2>1. \A i \in 1..Len(q') : q'[i] \in Chunks => buf'.to <= q'[i].from /\ q'[i].to <= Settled'
    <3> SUFFICES ASSUME NEW i \in 1..Len(q) PROVE q[i].to <= Settled'
      BY <1>2, <1>4
    <3>1. q[i].to \in Nat /\ q[i].to <= Settled
      BY <1>4, ChunkFields
    <3>2. QED
      BY <1>3, <3>1
  <2>2. \A i \in 1..Len(q') : q'[i] # Done
    BY <1>2, <1>4, NoChunk
  <2>3. QED
    BY <1>2, <2>1, <2>2 DEF Places, QueueShape
<1>9. GapsApart'
  <2>1. gaps' \subseteq Chunks
    BY <1>1 DEF Places, GapsApart
  <2>2. ASSUME NEW g \in gaps' PROVE g.to <= Settled' /\ (g.to <= buf'.from \/ buf'.to <= g.from)
    <3>1. CASE g \in gaps
      <4>1. g \in Chunks /\ g.to <= Settled /\ (g.to <= buf.from \/ buf.to <= g.from)
        BY <3>1 DEF Places, GapsApart
      <4>2. QED
        BY <1>2, <1>3, <4>1, ChunkFields
    <3>2. CASE g = item
      BY <1>2, <1>3, <1>5, <3>2
    <3>3. QED
      BY <1>1, <3>1, <3>2
  <2>3. ASSUME NEW g \in gaps', NEW i \in 1..Len(q') PROVE g.to <= q'[i].from \/ q'[i].to <= g.from
    <3>1. CASE g \in gaps
      BY <1>2, <1>4, <3>1 DEF Places, GapsApart
    <3>2. CASE g = item
      BY <1>2, <1>3, <1>4, <3>2
    <3>3. QED
      BY <1>1, <3>1, <3>2
  <2>4. QED
    BY <2>1, <2>2, <2>3 DEF GapsApart
<1>10. NoHoles'
  <2> SUFFICES ASSUME NEW s \in Nat, buf'.to <= s, s < Settled'
               PROVE  \/ \E g \in gaps' : Within(s, g)
                      \/ \E i \in 1..Len(q') : q'[i] \in Chunks /\ Within(s, q'[i])
    BY DEF NoHoles, Within
  <2>1. CASE s < Settled
    <3>1. (\E g \in gaps : Within(s, g)) \/ (\E i \in 1..Len(q) : q[i] \in Chunks /\ Within(s, q[i]))
      BY <1>2, <2>1 DEF Places, NoHoles
    <3>2. QED
      BY <1>1, <1>2, <3>1
  <2>2. CASE Settled <= s
    <3>1. Within(s, item)
      BY <1>3, <2>2 DEF Within
    <3>2. QED
      BY <1>1, <3>1
  <2>3. QED
    BY <1>3, <2>1, <2>2
<1>11. QED
  BY <1>6, <1>7, <1>8, <1>9, <1>10 DEF Places

(***************************************************************************)
(* The consumer.                                                           *)
(***************************************************************************)
Window == Joined(Head(q))
Full == Window.to - Window.from >= Hop + Overlap

\* What a chunk makes of the buffer: it follows it, or ends it and starts anew.
LEMMA GetWindow ==
  ASSUME Places, Get
  PROVE  /\ q # <<>> /\ Head(q) \in Chunks /\ Head(q) = q[1] /\ ~exhausted /\ exhausted' = exhausted
         /\ UNCHANGED <<air, lossless, produced, ended, lost, lostAt, pos, item, anchors, dropped, gaps>>
         /\ q' = Tail(q)
         /\ Window \in [from : Nat, to : Nat] /\ Window.from < Window.to /\ Window.to = Head(q).to
         /\ buf.from <= Window.from /\ buf.to <= Head(q).from
         /\ buf.from = buf.to \/ buf.to # Head(q).from => Window.from = Head(q).from
         /\ buf.from # buf.to /\ buf.to = Head(q).from => Window.from = buf.from
         /\ Broken(Head(q)) <=> buf.from # buf.to /\ buf.to # Head(q).from
         /\ IF Full THEN buf' = Kept(Window) ELSE buf' = Window
         /\ bursts' = bursts \cup (IF Broken(Head(q)) THEN Pass(buf, TRUE, 0) ELSE {})
                        \cup (IF Full THEN Pass(Window, FALSE, Overlap) ELSE {})
<1> DEFINE chunk == Head(q)
<1>1. q # <<>> /\ chunk.kind = "chunk" /\ ~exhausted /\ exhausted' = exhausted /\ q' = Tail(q)
  BY DEF Get
<1>2. UNCHANGED <<air, lossless, produced, ended, lost, lostAt, pos, item, anchors, dropped, gaps>>
  BY DEF Get, tool, reader
<1>3. /\ q \in Seq(Chunks \cup {Done}) /\ Len(q) \in Nat /\ 1 \in 1..Len(q) /\ chunk = q[1]
  BY <1>1 DEF Places, QueueShape
<1>4. chunk \in Chunks
  BY <1>1, <1>3, NoChunk
<1>5. chunk.from \in Nat /\ chunk.to \in Nat /\ chunk.from < chunk.to /\ buf.to <= chunk.from
  BY <1>3, <1>4, ChunkFields DEF Places, QueueShape
<1>6. buf.from \in Nat /\ buf.to \in Nat /\ buf.from <= buf.to
  BY DEF Places, BufferShape
<1>7. Window = [from |-> IF Empty(buf) \/ Broken(chunk) THEN chunk.from ELSE buf.from, to |-> chunk.to]
  BY DEF Joined, Window
<1>8. /\ Broken(chunk) <=> buf.from # buf.to /\ buf.to # chunk.from
      /\ Empty(buf) \/ Broken(chunk) <=> buf.from = buf.to \/ buf.to # chunk.from
  BY <1>5, <1>6 DEF Empty, Broken
<1>9. /\ Window \in [from : Nat, to : Nat] /\ Window.from < Window.to /\ Window.to = chunk.to
      /\ buf.from <= Window.from
      /\ buf.from = buf.to \/ buf.to # chunk.from => Window.from = chunk.from
      /\ buf.from # buf.to /\ buf.to = chunk.from => Window.from = buf.from
  BY <1>5, <1>6, <1>7, <1>8
<1>10. IF Full THEN buf' = Kept(Window) ELSE buf' = Window
  BY DEF Get, Full, Window
<1>11. bursts' = bursts \cup (IF Broken(chunk) THEN Pass(buf, TRUE, 0) ELSE {})
                        \cup (IF Full THEN Pass(Window, FALSE, Overlap) ELSE {})
  BY DEF Get, Full, Window
<1>12. QED
  BY <1>1, <1>2, <1>3, <1>4, <1>5, <1>8, <1>9, <1>10, <1>11

\* What is left of the window for the next one.
LEMMA GetKeeps ==
  ASSUME Places, Get
  PROVE  /\ buf' \in [from : Nat, to : Nat] /\ buf'.to = Window.to /\ buf'.from <= buf'.to
         /\ Window.from <= buf'.from
         /\ Full => buf'.from = Window.to - Overlap
         /\ ~Full => buf'.from = Window.from
<1>1. Window \in [from : Nat, to : Nat] /\ Window.from < Window.to
  BY GetWindow
<1>2. Window.from \in Nat /\ Window.to \in Nat
  BY <1>1
<1>3. CASE Full
  <2>1. buf' = [Window EXCEPT !.from = Window.to - Overlap]
    BY <1>3, GetWindow DEF Kept
  <2>2. buf'.to = Window.to /\ buf'.from = Window.to - Overlap
    BY <1>1, <2>1
  <2>3. Window.to - Overlap \in Nat /\ Window.from <= Window.to - Overlap /\ Window.to - Overlap <= Window.to
    BY <1>2, <1>3, Constants DEF Full
  <2>4. buf' \in [from : Nat, to : Nat]
    BY <1>1, <2>1, <2>3
  <2>5. QED
    BY <1>3, <2>2, <2>3, <2>4
<1>4. CASE ~Full
  <2>1. buf' = Window
    BY <1>4, GetWindow
  <2>2. QED
    BY <1>1, <1>2, <1>4, <2>1
<1>5. QED
  BY <1>3, <1>4

\* The window has no gap in it.
LEMMA WindowApart ==
  ASSUME Places, Get, NEW g \in gaps
  PROVE  g \in Chunks /\ (g.to <= Window.from \/ Window.to <= g.from)
<1>1. /\ Head(q) \in Chunks /\ Head(q) = q[1] /\ q # <<>>
      /\ Window \in [from : Nat, to : Nat] /\ Window.to = Head(q).to
      /\ buf.from <= Window.from /\ buf.to <= Head(q).from
      /\ buf.from = buf.to \/ buf.to # Head(q).from => Window.from = Head(q).from
  BY GetWindow
<1>2. 1 \in 1..Len(q)
  BY <1>1 DEF Places, QueueShape
<1>3. /\ g \in Chunks /\ (g.to <= buf.from \/ buf.to <= g.from)
      /\ g.to <= Head(q).from \/ Head(q).to <= g.from
  BY <1>1, <1>2 DEF Places, GapsApart
<1>4. g.from \in Nat /\ g.to \in Nat /\ g.from < g.to
  BY <1>3, ChunkFields
<1>5. Head(q).from \in Nat /\ Head(q).to \in Nat /\ buf.from \in Nat /\ buf.to \in Nat /\ Window.from \in Nat
  BY <1>1, ChunkFields DEF Places, BufferShape
<1>6. CASE g.to <= buf.from
  BY <1>1, <1>3, <1>4, <1>5, <1>6
<1>7. CASE Head(q).to <= g.from
  BY <1>1, <1>3, <1>7
<1>8. CASE buf.to <= g.from /\ g.to <= Head(q).from
  <2>1. buf.to # Head(q).from
    BY <1>4, <1>5, <1>8
  <2>2. QED
    BY <1>1, <1>3, <1>8, <2>1
<1>9. QED
  BY <1>3, <1>6, <1>7, <1>8

\* The first chunk goes into the buffer.
LEMMA GetKeepsPlaces ==
  ASSUME Places, Get
  PROVE  Places'
<1> DEFINE chunk == q[1]
<1>1. /\ q # <<>> /\ chunk \in Chunks /\ Head(q) = chunk /\ ~exhausted /\ exhausted' = exhausted
      /\ UNCHANGED <<air, lossless, produced, ended, lost, lostAt, pos, item, dropped, gaps>>
      /\ q' = Tail(q)
      /\ buf' \in [from : Nat, to : Nat] /\ buf'.from <= buf'.to /\ buf'.to = chunk.to
      /\ Window.from <= buf'.from /\ Window.from \in Nat /\ Window.to = chunk.to
      /\ buf.to <= chunk.from
  BY GetWindow, GetKeeps
<1>2. /\ q \in Seq(Chunks \cup {Done}) /\ Len(q) \in Nat /\ Len(q) >= 1
      /\ q' \in Seq(Chunks \cup {Done}) /\ Len(q') = Len(q) - 1
      /\ \A i \in 1..Len(q') : i + 1 \in 1..Len(q) /\ q'[i] = q[i + 1]
  BY <1>1 DEF Places, QueueShape
<1>3. 1 \in 1..Len(q) /\ chunk.from \in Nat /\ chunk.to \in Nat /\ chunk.from < chunk.to
  BY <1>1, <1>2, ChunkFields
<1>4. buf.from \in Nat /\ buf.to \in Nat /\ buf.from <= buf.to /\ buf'.from \in Nat /\ buf'.to \in Nat
  BY <1>1 DEF Places, BufferShape
<1>5. Settled' = Settled /\ chunk.to <= Settled /\ Settled \in Nat
  BY <1>1, <1>3, Held DEF Settled, Places, QueueShape
<1>6. ToolShape' /\ ReaderShape'
  <2>1. ToolShape'
    BY <1>1 DEF Places, ToolShape
  <2>2. ReaderShape'
    BY <1>1, <1>5 DEF Places, ReaderShape
  <2>3. QED
    BY <2>1, <2>2
<1>7. BufferShape'
  <2>1. exhausted' \in BOOLEAN /\ ~exhausted'
    BY <1>1 DEF Places, BufferShape
  <2>2. buf'.to <= Settled'
    BY <1>1, <1>5
  <2>3. QED
    BY <1>1, <2>1, <2>2 DEF BufferShape
<1>8. QueueShape'
  <2>1. Len(q') <= QueueSize
    BY <1>2, Constants DEF Places, QueueShape
  <2>2. ASSUME NEW i \in 1..Len(q'), q'[i] = Done PROVE i = Len(q') /\ item' = Stopped
    <3>1. i + 1 = Len(q) /\ item = Stopped
      BY <1>2, <2>2 DEF Places, QueueShape
    <3>2. item' = item
      BY <1>1
    <3>3. i = Len(q')
      BY <1>2, <3>1
    <3>4. QED
      BY <3>1, <3>2, <3>3
  <2>3. ASSUME NEW i \in 1..Len(q'), q'[i] \in Chunks PROVE buf'.to <= q'[i].from /\ q'[i].to <= Settled'
    <3>1. q[i + 1] \in Chunks /\ i + 1 \in 1..Len(q) /\ 1 < i + 1
      BY <1>2, <2>3
    <3>2. q[i + 1].to <= Settled /\ chunk.to <= q[i + 1].from
      BY <1>1, <1>3, <3>1 DEF Places, QueueShape
    <3>3. QED
      BY <1>1, <1>2, <1>5, <3>2
  <2>4. ASSUME NEW i \in 1..Len(q'), NEW j \in 1..Len(q'), i < j, q'[i] \in Chunks, q'[j] \in Chunks
        PROVE  q'[i].to <= q'[j].from
    <3>1. i + 1 \in 1..Len(q) /\ j + 1 \in 1..Len(q) /\ i + 1 < j + 1
      BY <1>2, <2>4
    <3>2. q'[i] = q[i + 1] /\ q'[j] = q[j + 1]
      BY <1>2
    <3>3. QED
      BY <2>4, <3>1, <3>2 DEF Places, QueueShape
  <2>5. QED
    BY <1>2, <2>1, <2>2, <2>3, <2>4 DEF QueueShape
<1>9. GapsApart'
  <2>1. gaps' \subseteq Chunks /\ gaps' = gaps
    BY <1>1 DEF Places, GapsApart
  <2>2. ASSUME NEW g \in gaps' PROVE g.to <= Settled' /\ (g.to <= buf'.from \/ buf'.to <= g.from)
    <3>1. g \in Chunks /\ g.to <= Settled /\ (g.to <= Window.from \/ Window.to <= g.from)
      BY <2>1, WindowApart DEF Places, GapsApart
    <3>2. g.to \in Nat
      BY <3>1, ChunkFields
    <3>3. g.to <= buf'.from \/ buf'.to <= g.from
      BY <1>1, <1>4, <3>1, <3>2
    <3>4. QED
      BY <1>5, <3>1, <3>3
  <2>3. ASSUME NEW g \in gaps', NEW i \in 1..Len(q'), q'[i] \in Chunks
        PROVE  g.to <= q'[i].from \/ q'[i].to <= g.from
    BY <1>2, <2>1, <2>3 DEF Places, GapsApart
  <2>4. QED
    BY <2>1, <2>2, <2>3 DEF GapsApart
<1>10. NoHoles'
  <2> SUFFICES ASSUME NEW s \in Nat, buf'.to <= s, s < Settled'
               PROVE  \/ \E g \in gaps' : Within(s, g)
                      \/ \E i \in 1..Len(q') : q'[i] \in Chunks /\ Within(s, q'[i])
    BY DEF NoHoles, Within
  <2>1. chunk.to <= s /\ buf.to <= s /\ s < Settled
    BY <1>1, <1>3, <1>4, <1>5
  <2>2. (\E g \in gaps : Within(s, g)) \/ (\E i \in 1..Len(q) : q[i] \in Chunks /\ Within(s, q[i]))
    BY <2>1 DEF Places, NoHoles
  <2>3. ASSUME NEW i \in 1..Len(q), q[i] \in Chunks /\ Within(s, q[i])
        PROVE  \E j \in 1..Len(q') : q'[j] \in Chunks /\ Within(s, q'[j])
    <3>1. i # 1
      BY <1>3, <2>1, <2>3 DEF Within
    <3>2. i - 1 \in 1..Len(q') /\ (i - 1) + 1 = i
      BY <1>2, <3>1
    <3>3. q'[i - 1] = q[i]
      BY <1>2, <3>2
    <3>4. QED
      BY <2>3, <3>2, <3>3
  <2>4. QED
    BY <1>1, <2>2, <2>3
<1>11. QED
  BY <1>6, <1>7, <1>8, <1>9, <1>10 DEF Places

\* The end comes last.
LEMMA GetEndMoves ==
  ASSUME Places, GetEnd
  PROVE  /\ Len(q) = 1 /\ q[1] = Done /\ q' = <<>> /\ item = Stopped /\ ended /\ pos = produced
         /\ Settled = pos /\ ~exhausted /\ exhausted' = TRUE
         /\ UNCHANGED <<air, lossless, produced, ended, lost, lostAt, pos, item, anchors, dropped, gaps, buf>>
<1>1. q # <<>> /\ Head(q) = Done /\ ~exhausted /\ exhausted' = TRUE /\ q' = Tail(q)
  BY DEF GetEnd
<1>2. UNCHANGED <<air, lossless, produced, ended, lost, lostAt, pos, item, anchors, dropped, gaps, buf>>
  BY DEF GetEnd, tool, reader
<1>3. q \in Seq(Chunks \cup {Done}) /\ Len(q) \in Nat /\ 1 \in 1..Len(q) /\ q[1] = Done
  BY <1>1 DEF Places, QueueShape
<1>4. Len(q) = 1 /\ item = Stopped
  BY <1>3 DEF Places, QueueShape
<1>5. q' = <<>>
  BY <1>1, <1>3, <1>4
<1>6. ended /\ pos = produced
  BY <1>4 DEF Places, ReaderShape
<1>7. Settled = pos
  BY <1>4, NoChunk DEF Settled
<1>8. QED
  BY <1>1, <1>2, <1>3, <1>4, <1>5, <1>6, <1>7

\* The end leaves the queue empty.
LEMMA GetEndKeepsPlaces ==
  ASSUME Places, GetEnd
  PROVE  Places'
<1>1. /\ Len(q) = 1 /\ q[1] = Done /\ q' = <<>> /\ item = Stopped /\ exhausted' = TRUE
      /\ UNCHANGED <<air, lossless, produced, ended, lost, lostAt, pos, item, dropped, gaps, buf>>
  BY GetEndMoves
<1>2. Settled' = Settled
  BY <1>1 DEF Settled
<1>3. ToolShape' /\ ReaderShape'
  <2>1. ToolShape'
    BY <1>1 DEF Places, ToolShape
  <2>2. ReaderShape'
    BY <1>1, <1>2 DEF Places, ReaderShape
  <2>3. QED
    BY <2>1, <2>2
<1>4. Len(q') = 0 /\ q' \in Seq(Chunks \cup {Done}) /\ 1..Len(q') = {}
  BY <1>1
<1>5. QueueShape'
  BY <1>4, Constants DEF QueueShape
<1>6. BufferShape'
  <2>1. buf'.to <= Settled' /\ buf' \in [from : Nat, to : Nat] /\ buf'.from <= buf'.to
    BY <1>1, <1>2 DEF Places, BufferShape
  <2>2. exhausted' \in BOOLEAN /\ q' = <<>> /\ item' = Stopped
    BY <1>1
  <2>3. QED
    BY <2>1, <2>2 DEF BufferShape
<1>7. GapsApart'
  BY <1>1, <1>2, <1>4 DEF Places, GapsApart
<1>8. NoHoles'
  <2> SUFFICES ASSUME NEW s \in Nat, buf'.to <= s, s < Settled'
               PROVE  \E g \in gaps' : Within(s, g)
    BY DEF NoHoles, Within
  <2>1. (\E g \in gaps : Within(s, g)) \/ (\E i \in 1..Len(q) : q[i] \in Chunks /\ Within(s, q[i]))
    BY <1>1, <1>2 DEF Places, NoHoles
  <2>2. \A i \in 1..Len(q) : q[i] \notin Chunks
    BY <1>1, NoChunk
  <2>3. QED
    BY <1>1, <2>1, <2>2
<1>9. QED
  BY <1>3, <1>5, <1>6, <1>7, <1>8 DEF Places

\* Every step leaves each sample in its place.
LEMMA PlacesKept == Places /\ [Next]_vars => Places'
<1> SUFFICES ASSUME Places, [Next]_vars PROVE Places'
  OBVIOUS
<1>1. CASE UNCHANGED vars
  <2>1. /\ UNCHANGED <<air, lossless, produced, ended, lost, lostAt, pos, item, dropped, q, buf, gaps, exhausted>>
        /\ Settled' = Settled
    BY <1>1 DEF vars, tool, reader, consumer, Settled
  <2>2. Waiting'
    BY <2>1, StillWaiting DEF Places, Waiting
  <2>3. ToolShape'
    BY <2>1 DEF Places, ToolShape
  <2>4. ReaderShape'
    BY <2>1 DEF Places, ReaderShape
  <2>5. QED
    BY <2>2, <2>3, <2>4 DEF Places, Waiting
<1>2. CASE Next
  BY <1>2, ToolKeepsPlaces, ReadKeepsPlaces, ReadEndKeepsPlaces, PutKeepsPlaces, EndKeepsPlaces,
     DropKeepsPlaces, GetKeepsPlaces, GetEndKeepsPlaces DEF Next
<1>3. QED
  BY <1>1, <1>2

\* pump and _iter_numpy: every sample read is in the buffer or behind it, in one
\* chunk that waits, or in a chunk counted as dropped, in the order of the stream.
THEOREM PlacesHold == Spec => []Places
<1>1. Init => Places
  BY StreamStarts
<1>2. Places /\ [Next]_vars => Places'
  BY PlacesKept
<1>3. QED
  BY <1>1, <1>2, PTL DEF Spec

(***************************************************************************)
(* What a pass yields.                                                     *)
(***************************************************************************)
\* What a pass yields is the burst of a carrier in its buffer, cut to it.
LEMMA Passed ==
  ASSUME ToolShape, NEW b \in [from : Nat, to : Nat], NEW final \in BOOLEAN, NEW keep \in Nat,
         NEW p \in Pass(b, final, keep)
  PROVE  \E c \in air :
           /\ p = [burst |-> Burst(b, c), in |-> b, final |-> final]
           /\ b.from < b.to \/ b.to < b.from
           /\ p.burst = Burst(b, c) /\ p.burst.of = c /\ p.burst.start \in Nat
           /\ p.burst.start = (IF c.at > b.from THEN c.at ELSE b.from)
           /\ p.burst.to = (IF c.at + c.len < b.to THEN c.at + c.len ELSE b.to)
           /\ p.burst.synced <=> c.sync /\ b.from <= c.at /\ c.at + SyncLen <= b.to
           /\ p.burst.error = At(p.burst.start) - OnAir(p.burst.start)
           /\ p.burst.start < (IF final THEN b.to ELSE b.to - keep)
<1>1. ~Empty(b) /\ p \in {[burst |-> x, in |-> b, final |-> final] :
                            x \in {y \in Demodulated(b) : Mine(b, y, final, keep)}}
  BY DEF Pass
<1>2. PICK x \in Demodulated(b) : p = [burst |-> x, in |-> b, final |-> final] /\ Mine(b, x, final, keep)
  BY <1>1
<1>3. PICK c \in air : x = Burst(b, c)
  BY DEF Demodulated
<1>4. c.at \in Nat /\ c.len \in Nat
  BY Carriers
<1>5. b.from \in Nat /\ b.to \in Nat /\ b.from # b.to
  BY <1>1 DEF Empty
<1>6. /\ x.of = c
      /\ x.start = (IF c.at > b.from THEN c.at ELSE b.from)
      /\ x.to = (IF c.at + c.len < b.to THEN c.at + c.len ELSE b.to)
      /\ x.synced = (c.sync /\ b.from <= c.at /\ c.at + SyncLen <= b.to)
      /\ x.error = At(x.start) - OnAir(x.start)
  BY <1>3 DEF Burst, Larger, Smaller
<1>7. p.burst = x
  BY <1>2
<1>8. x.start < (IF final THEN b.to ELSE b.to - keep)
  BY <1>2 DEF Mine
<1>9. x.start \in Nat
  BY <1>4, <1>5, <1>6
<1>10. b.from < b.to \/ b.to < b.from
  BY <1>5
<1>11. QED
  BY <1>2, <1>3, <1>6, <1>7, <1>8, <1>9, <1>10

\* A sync that a pass yields was wholly in its buffer, and before what is kept.
LEMMA PassedSync ==
  ASSUME ToolShape, NEW b \in [from : Nat, to : Nat], NEW final \in BOOLEAN, NEW keep \in Nat,
         NEW p \in Pass(b, final, keep), p.burst.synced
  PROVE  LET c == p.burst.of
         IN /\ c \in air /\ c.sync /\ b.from <= c.at /\ c.at + SyncLen <= b.to
            /\ c.at < (IF final THEN b.to ELSE b.to - keep)
            /\ p = [burst |-> Burst(b, c), in |-> b, final |-> final]
            /\ p.burst.to = (IF c.at + c.len < b.to THEN c.at + c.len ELSE b.to)
<1>1. PICK c \in air :
           /\ p = [burst |-> Burst(b, c), in |-> b, final |-> final]
           /\ p.burst.of = c
           /\ p.burst.start = (IF c.at > b.from THEN c.at ELSE b.from)
           /\ p.burst.to = (IF c.at + c.len < b.to THEN c.at + c.len ELSE b.to)
           /\ p.burst.synced <=> c.sync /\ b.from <= c.at /\ c.at + SyncLen <= b.to
           /\ p.burst.start < (IF final THEN b.to ELSE b.to - keep)
  BY Passed
<1>2. c.sync /\ b.from <= c.at /\ c.at + SyncLen <= b.to
  BY <1>1
<1>3. c.at \in Nat /\ b.from \in Nat
  BY Carriers
<1>4. p.burst.start = c.at
  BY <1>1, <1>2, <1>3
<1>5. QED
  BY <1>1, <1>2, <1>4

\* A pass yields a carrier's sync once.
LEMMA PassOnce ==
  ASSUME ToolShape, NEW b \in [from : Nat, to : Nat], NEW final \in BOOLEAN, NEW keep \in Nat,
         NEW p \in Pass(b, final, keep), NEW r \in Pass(b, final, keep),
         p.burst.synced, r.burst.synced, p.burst.of = r.burst.of
  PROVE  p = r
<1>1. p = [burst |-> Burst(b, p.burst.of), in |-> b, final |-> final]
  BY PassedSync
<1>2. r = [burst |-> Burst(b, r.burst.of), in |-> b, final |-> final]
  BY PassedSync
<1>3. QED
  BY <1>1, <1>2

\* What starts in a pass's share of the buffer and is all there, it yields.
LEMMA PassFinds ==
  ASSUME ToolShape, NEW b \in [from : Nat, to : Nat], NEW final \in BOOLEAN, NEW keep \in Nat,
         NEW c \in air, b.from <= c.at, c.at < (IF final THEN b.to ELSE b.to - keep),
         c.at + Needed(c) <= b.to, final \/ c.sync \/ c.at + c.len < b.to
  PROVE  \E p \in Pass(b, final, keep) : FoundAs(c, p.burst)
<1> DEFINE x == Burst(b, c)
<1>1. c.at \in Nat /\ c.len \in Nat \ {0} /\ c.sync \in BOOLEAN /\ b.from \in Nat /\ b.to \in Nat
  BY Carriers
<1>2. c.at < b.to /\ b.from < c.at + c.len /\ b.from # b.to
  BY <1>1
<1>3. x \in Demodulated(b) /\ ~Empty(b)
  BY <1>2 DEF Demodulated, Empty
<1>4. /\ x.of = c
      /\ x.start = (IF c.at > b.from THEN c.at ELSE b.from)
      /\ x.to = (IF c.at + c.len < b.to THEN c.at + c.len ELSE b.to)
      /\ x.synced = (c.sync /\ b.from <= c.at /\ c.at + SyncLen <= b.to)
  BY DEF Burst, Larger, Smaller
<1> HIDE DEF x
<1>5. x.start = c.at
  BY <1>1, <1>4
<1>6. CASE c.sync
  <2>1. x.synced
    BY <1>4, <1>6 DEF Needed
  <2>2. Mine(b, x, final, keep)
    BY <1>5, <2>1 DEF Mine
  <2>3. [burst |-> x, in |-> b, final |-> final] \in Pass(b, final, keep)
    BY <1>3, <2>2 DEF Pass
  <2>4. FoundAs(c, x)
    BY <1>4, <1>5, <1>6, <2>1 DEF FoundAs
  <2>5. QED
    BY <2>3, <2>4
<1>7. CASE ~c.sync
  <2>1. x.to = c.at + c.len
    <3>1. c.at + c.len <= b.to
      BY <1>7 DEF Needed
    <3>2. QED
      BY <1>1, <1>4, <3>1
  <2>2. final \/ x.to < b.to
    BY <1>7, <2>1
  <2>3. Mine(b, x, final, keep)
    BY <1>5, <2>2 DEF Mine
  <2>4. [burst |-> x, in |-> b, final |-> final] \in Pass(b, final, keep)
    BY <1>3, <2>3 DEF Pass
  <2>5. FoundAs(c, x)
    BY <1>4, <1>5, <1>7, <2>1 DEF FoundAs
  <2>6. QED
    BY <2>4, <2>5
<1>8. QED
  BY <1>6, <1>7

(***************************************************************************)
(* Judgements.                                                             *)
(***************************************************************************)
\* Where nothing waits, something was dropped.
LEMMA HoleIsGap ==
  ASSUME Places, NEW s \in Nat, buf.to <= s, s < Settled,
         \A i \in 1..Len(q) : q[i] \in Chunks => s < q[i].from
  PROVE  \E g \in gaps : g.from <= s /\ s < g.to /\ buf.to <= g.from
<1>1. (\E g \in gaps : Within(s, g)) \/ (\E i \in 1..Len(q) : q[i] \in Chunks /\ Within(s, q[i]))
  BY DEF Places, NoHoles
<1>2. ASSUME NEW i \in 1..Len(q), q[i] \in Chunks, Within(s, q[i]) PROVE FALSE
  <2>1. q[i].from <= s /\ s < q[i].from /\ q[i].from \in Nat
    BY <1>2, ChunkFields DEF Within
  <2>2. QED
    BY <2>1
<1>3. PICK g \in gaps : Within(s, g)
  BY <1>1, <1>2
<1>4. g \in Chunks /\ (g.to <= buf.from \/ buf.to <= g.from)
  BY DEF Places, GapsApart
<1>5. g.from \in Nat /\ g.to \in Nat /\ g.from <= s /\ s < g.to
  BY <1>3, <1>4, ChunkFields DEF Within
<1>6. buf.from \in Nat /\ buf.to \in Nat /\ buf.from <= buf.to
  BY DEF Places, BufferShape
<1>7. ~(g.to <= buf.from)
  BY <1>5, <1>6
<1>8. QED
  BY <1>4, <1>5, <1>7

\* In front of a chunk that does not follow the buffer, everything was dropped.
LEMMA HoleBeforeChunk ==
  ASSUME Places, Get, NEW s \in Nat, buf.to <= s, s < Head(q).from
  PROVE  \E g \in gaps : g.from <= s /\ s < g.to /\ buf.to <= g.from
<1>1. q # <<>> /\ Head(q) \in Chunks /\ Head(q) = q[1]
  BY GetWindow
<1>2. 1 \in 1..Len(q) /\ Len(q) \in Nat
  BY <1>1 DEF Places, QueueShape
<1>3. q[1].from \in Nat /\ q[1].to \in Nat /\ q[1].from < q[1].to /\ q[1].to <= Settled /\ Settled \in Nat
  BY <1>1, <1>2, ChunkFields, Held DEF Places, QueueShape
<1>4. ASSUME NEW i \in 1..Len(q), q[i] \in Chunks PROVE s < q[i].from
  <2>1. CASE i = 1
    BY <1>1, <2>1
  <2>2. CASE i # 1
    <3>1. 1 < i
      BY <1>2, <2>2
    <3>2. q[1].to <= q[i].from
      BY <1>1, <1>2, <1>4, <3>1 DEF Places, QueueShape
    <3>3. q[i].from \in Nat
      BY <1>4, ChunkFields
    <3>4. QED
      BY <1>1, <1>3, <3>2, <3>3
  <2>3. QED
    BY <2>1, <2>2
<1>5. s < Settled
  BY <1>1, <1>3
<1>6. QED
  BY <1>4, <1>5, HoleIsGap

\* Without a pass there is no judgement.
LEMMA NothingJudgedYet == Init => Judgements
<1>1. Init => bursts = {} /\ air \in Airs /\ buf.from = 0 /\ exhausted = FALSE
  BY DEF Init
<1>2. Init => NoneForgotten
  <2> SUFFICES ASSUME Init, NEW c \in air, c.at < buf.from \/ exhausted PROVE FALSE
    BY DEF NoneForgotten
  <2>1. c.at \in Nat
    BY StreamStarts, Carriers DEF Places
  <2>2. QED
    BY <1>1, <2>1
<1>3. QED
  BY <1>1, <1>2 DEF Judgements, JudgedOnce, JudgedBehind, JudgedWhole

\* The tool and the reader change no judgement, and what is dropped now is
\* behind all that was judged.
LEMMA OthersKeepJudgements ==
  ASSUME Places, Judgements, UNCHANGED <<air, bursts, buf, exhausted>>, gaps \subseteq gaps',
         \A g \in gaps' : g \in gaps \/ (g \in Chunks /\ buf.to <= g.from),
         ended => ended' /\ produced' = produced
  PROVE  Judgements'
<1>1. JudgedOnce'
  BY DEF Judgements, JudgedOnce
<1>2. JudgedBehind'
  <2> SUFFICES ASSUME NEW p \in bursts, p.burst.synced
               PROVE  LET c == p.burst.of
                      IN /\ c \in air /\ c.sync /\ c.at + SyncLen <= buf.to
                         /\ c.at < buf.from \/ exhausted
                         /\ \A g \in gaps' : ~(g.from < c.at + SyncLen /\ c.at < g.to)
    BY DEF JudgedBehind, Missing
  <2> DEFINE c == p.burst.of
  <2>1. /\ c \in air /\ c.sync /\ c.at + SyncLen <= buf.to /\ (c.at < buf.from \/ exhausted)
        /\ \A g \in gaps : ~(g.from < c.at + SyncLen /\ c.at < g.to)
    BY DEF Judgements, JudgedBehind, Missing
  <2>2. ASSUME NEW g \in gaps', g \notin gaps PROVE ~(g.from < c.at + SyncLen)
    <3>1. g \in Chunks /\ buf.to <= g.from /\ g.from \in Nat /\ buf.to \in Nat
      BY <2>2, ChunkFields DEF Places, BufferShape
    <3>2. c.at \in Nat
      BY <2>1, Carriers DEF Places
    <3>3. c.at + SyncLen \in Nat
      BY <3>2, Constants
    <3>4. QED
      BY <2>1, <3>1, <3>3
  <2>3. QED
    BY <2>1, <2>2
<1>3. NoneForgotten'
  BY DEF Judgements, NoneForgotten, Missing
<1>4. JudgedWhole'
  <2>1. {g.from : g \in gaps} \subseteq {g.from : g \in gaps'}
    OBVIOUS
  <2>2. (IF ended THEN {produced} ELSE {}) \subseteq (IF ended' THEN {produced'} ELSE {})
    OBVIOUS
  <2>3. QED
    BY <2>1, <2>2 DEF Judgements, JudgedWhole
<1>5. QED
  BY <1>1, <1>2, <1>3, <1>4 DEF Judgements

\* No gap reaches into what lies between two ends that no gap crosses.
LEMMA NotMissing ==
  ASSUME NEW lo \in Nat, NEW hi \in Nat, NEW a \in Nat, NEW b \in Nat, lo <= a, b <= hi,
         \A g \in gaps : g \in Chunks /\ (g.to <= lo \/ hi <= g.from)
  PROVE  ~Missing(a, b)
<1> SUFFICES ASSUME NEW g \in gaps, g.from < b, a < g.to PROVE FALSE
  BY DEF Missing
<1>1. g.from \in Nat /\ g.to \in Nat /\ (g.to <= lo \/ hi <= g.from)
  BY ChunkFields
<1>2. QED
  BY <1>1

\* The numbers Get deals with.
LEMMA GetShape ==
  ASSUME Places, Get
  PROVE  /\ ToolShape /\ buf \in [from : Nat, to : Nat] /\ Window \in [from : Nat, to : Nat]
         /\ buf.from \in Nat /\ buf.to \in Nat /\ buf.from <= buf.to
         /\ Window.from \in Nat /\ Window.to \in Nat /\ buf'.from \in Nat /\ buf'.to \in Nat
         /\ Head(q).from \in Nat /\ Head(q).to \in Nat /\ Head(q).from < Head(q).to
<1>1. Head(q) \in Chunks /\ Window \in [from : Nat, to : Nat]
  BY GetWindow
<1>2. buf' \in [from : Nat, to : Nat]
  BY GetKeeps
<1>3. buf \in [from : Nat, to : Nat] /\ buf.from <= buf.to /\ ToolShape
  BY DEF Places, BufferShape
<1>4. Head(q).from \in Nat /\ Head(q).to \in Nat /\ Head(q).from < Head(q).to
  BY <1>1, ChunkFields
<1>5. QED
  BY <1>1, <1>2, <1>3, <1>4

\* A sync judged by what Get yields: by the end of the old stretch, or by the
\* window, and then with all of its packet.
LEMMA GetJudges ==
  ASSUME Places, Get, NEW p \in bursts', p.burst.synced
  PROVE  \/ p \in bursts
         \/ /\ Broken(Head(q)) /\ p \in Pass(buf, TRUE, 0)
            /\ p.burst.of \in air /\ p.burst.of.sync /\ p.burst.of.at \in Nat
            /\ buf.from <= p.burst.of.at /\ p.burst.of.at + SyncLen <= buf.to
            /\ p.burst.of.at < buf.to
            /\ p.burst.to < p.burst.of.at + p.burst.of.len => p.burst.to = buf.to
         \/ /\ Full /\ p \in Pass(Window, FALSE, Overlap)
            /\ p.burst.of \in air /\ p.burst.of.sync /\ p.burst.of.at \in Nat
            /\ Window.from <= p.burst.of.at /\ p.burst.of.at + SyncLen <= Window.to
            /\ p.burst.of.at < Window.to - Overlap
            /\ p.burst.to = p.burst.of.at + p.burst.of.len
<1> DEFINE c == p.burst.of
<1>1. \/ p \in bursts
      \/ Broken(Head(q)) /\ p \in Pass(buf, TRUE, 0)
      \/ Full /\ p \in Pass(Window, FALSE, Overlap)
  BY GetWindow
<1>2. ASSUME p \in Pass(buf, TRUE, 0)
      PROVE  /\ c \in air /\ c.sync /\ c.at \in Nat
             /\ buf.from <= c.at /\ c.at + SyncLen <= buf.to /\ c.at < buf.to
             /\ p.burst.to < c.at + c.len => p.burst.to = buf.to
  <2>1. /\ c \in air /\ c.sync /\ buf.from <= c.at /\ c.at + SyncLen <= buf.to
        /\ c.at < (IF TRUE THEN buf.to ELSE buf.to - 0)
        /\ p.burst.to = (IF c.at + c.len < buf.to THEN c.at + c.len ELSE buf.to)
    BY <1>2, GetShape, PassedSync
  <2>2. c.at \in Nat /\ c.len \in Nat
    BY <2>1, GetShape, Carriers
  <2>3. QED
    BY <2>1, <2>2, GetShape
<1>3. ASSUME p \in Pass(Window, FALSE, Overlap)
      PROVE  /\ c \in air /\ c.sync /\ c.at \in Nat
             /\ Window.from <= c.at /\ c.at + SyncLen <= Window.to
             /\ c.at < Window.to - Overlap /\ p.burst.to = c.at + c.len
  <2>1. /\ c \in air /\ c.sync /\ Window.from <= c.at /\ c.at + SyncLen <= Window.to
        /\ c.at < (IF FALSE THEN Window.to ELSE Window.to - Overlap)
        /\ p.burst.to = (IF c.at + c.len < Window.to THEN c.at + c.len ELSE Window.to)
    BY <1>3, GetShape, PassedSync, Constants
  <2>2. c.at \in Nat /\ c.len \in Nat /\ c.len <= Overlap
    BY <2>1, GetShape, Carriers
  <2>3. c.at + c.len < Window.to
    BY <2>1, <2>2, GetShape, Constants
  <2>4. QED
    BY <2>1, <2>2, <2>3
<1>4. QED
  BY <1>1, <1>2, <1>3

\* The end of an old stretch judges what is left of it, a full window what starts in
\* its first part; what lies between the two was dropped.
LEMMA GetKeepsJudgements ==
  ASSUME Places, Judgements, Get
  PROVE  Judgements'
<1> DEFINE new == Head(q).from
<1>1. /\ ~exhausted /\ exhausted' = exhausted /\ bursts \subseteq bursts' /\ air' = air /\ gaps' = gaps
      /\ buf.from <= Window.from /\ buf.to <= new
      /\ buf.from = buf.to \/ buf.to # new => Window.from = new
      /\ buf.from # buf.to /\ buf.to = new => Window.from = buf.from
      /\ Broken(Head(q)) <=> buf.from # buf.to /\ buf.to # new
      /\ Window.to = Head(q).to
  BY GetWindow
<1>2. /\ Broken(Head(q)) => Pass(buf, TRUE, 0) \subseteq bursts'
      /\ Full => Pass(Window, FALSE, Overlap) \subseteq bursts'
  BY GetWindow
<1>3. /\ buf'.to = Window.to /\ buf'.from <= buf'.to /\ Window.from <= buf'.from
      /\ Full => buf'.from = Window.to - Overlap
      /\ ~Full => buf'.from = Window.from
  BY GetKeeps
<1>4. /\ ToolShape /\ buf \in [from : Nat, to : Nat] /\ Window \in [from : Nat, to : Nat]
      /\ buf.from \in Nat /\ buf.to \in Nat /\ buf.from <= buf.to
      /\ Window.from \in Nat /\ Window.to \in Nat /\ buf'.from \in Nat /\ buf'.to \in Nat
      /\ new \in Nat /\ Head(q).to \in Nat /\ new < Head(q).to
  BY GetShape
<1>5. buf.to <= Window.to
  BY <1>1, <1>4
<1> HIDE DEF new
<1>6. ASSUME NEW p \in bursts, p.burst.synced
      PROVE  /\ p.burst.of \in air /\ p.burst.of.sync /\ p.burst.of.at \in Nat
             /\ p.burst.of.at + SyncLen <= buf.to /\ p.burst.of.at < buf.from
             /\ ~Missing(p.burst.of.at, p.burst.of.at + SyncLen)
  <2>1. /\ p.burst.of \in air /\ p.burst.of.sync /\ p.burst.of.at + SyncLen <= buf.to
        /\ p.burst.of.at < buf.from
        /\ ~Missing(p.burst.of.at, p.burst.of.at + SyncLen)
    BY <1>1, <1>6 DEF Judgements, JudgedBehind
  <2>2. QED
    BY <1>4, <2>1, Carriers
<1>7. JudgedOnce'
  <2> SUFFICES ASSUME NEW p \in bursts', NEW r \in bursts', p.burst.synced, r.burst.synced,
                      p.burst.of = r.burst.of
               PROVE  p = r
    BY DEF JudgedOnce
  <2> DEFINE c == p.burst.of
  <2>1. CASE p \in bursts /\ r \in bursts
    BY <2>1 DEF Judgements, JudgedOnce
  <2>2. CASE p \in bursts /\ r \notin bursts
    <3>1. c.at \in Nat /\ c.at < buf.from
      BY <1>6, <2>2
    <3>2. buf.from <= c.at
      <4>1. buf.from <= c.at \/ Window.from <= c.at
        BY <2>2, GetJudges
      <4>2. QED
        BY <1>1, <1>4, <3>1, <4>1
    <3>3. QED
      BY <1>4, <3>1, <3>2
  <2>3. CASE r \in bursts /\ p \notin bursts
    <3>1. c.at \in Nat /\ c.at < buf.from
      BY <1>6, <2>3
    <3>2. buf.from <= c.at
      <4>1. buf.from <= c.at \/ Window.from <= c.at
        BY <2>3, GetJudges
      <4>2. QED
        BY <1>1, <1>4, <3>1, <4>1
    <3>3. QED
      BY <1>4, <3>1, <3>2
  <2>4. CASE p \notin bursts /\ r \notin bursts
    <3>1. CASE p \in Pass(buf, TRUE, 0) /\ r \in Pass(buf, TRUE, 0)
      BY <1>4, <3>1, PassOnce
    <3>2. CASE p \in Pass(Window, FALSE, Overlap) /\ r \in Pass(Window, FALSE, Overlap)
      BY <1>4, <3>2, PassOnce, Constants
    <3>3. CASE ~(p \in Pass(buf, TRUE, 0) /\ r \in Pass(buf, TRUE, 0))
               /\ ~(p \in Pass(Window, FALSE, Overlap) /\ r \in Pass(Window, FALSE, Overlap))
      <4>1. Broken(Head(q)) /\ c.at \in Nat /\ c.at < buf.to /\ Window.from <= c.at
        BY <2>4, <3>3, GetJudges
      <4>2. Window.from = new
        BY <1>1, <4>1
      <4>3. QED
        BY <1>1, <1>4, <4>1, <4>2
    <3>4. QED
      BY <3>1, <3>2, <3>3
  <2>5. QED
    BY <2>1, <2>2, <2>3, <2>4
<1>8. JudgedBehind'
  <2> SUFFICES ASSUME NEW p \in bursts', p.burst.synced
               PROVE  /\ p.burst.of \in air /\ p.burst.of.sync /\ p.burst.of.at + SyncLen <= buf'.to
                      /\ p.burst.of.at < buf'.from
                      /\ ~Missing(p.burst.of.at, p.burst.of.at + SyncLen)
    BY <1>1 DEF JudgedBehind, Missing
  <2> DEFINE c == p.burst.of
  <2>1. CASE p \in bursts
    <3>1. /\ c \in air /\ c.sync /\ c.at \in Nat /\ c.at + SyncLen <= buf.to /\ c.at < buf.from
          /\ ~Missing(c.at, c.at + SyncLen)
      BY <1>6, <2>1
    <3>2. c.at + SyncLen \in Nat
      BY <3>1, Constants
    <3>3. c.at + SyncLen <= buf'.to /\ c.at < buf'.from
      BY <1>1, <1>3, <1>4, <1>5, <3>1, <3>2
    <3>4. QED
      BY <3>1, <3>3
  <2>2. CASE p \in Pass(buf, TRUE, 0) /\ p \notin bursts /\ Broken(Head(q))
    <3>1. /\ c \in air /\ c.sync /\ c.at \in Nat
          /\ buf.from <= c.at /\ c.at + SyncLen <= buf.to /\ c.at < buf.to
      <4>1. c \in air /\ c.sync /\ buf.from <= c.at /\ c.at + SyncLen <= buf.to
        BY <1>4, <2>2, PassedSync
      <4>2. c.at \in Nat
        BY <1>4, <4>1, Carriers
      <4>3. QED
        BY <1>4, <4>1, <4>2, Constants
    <3>2. Window.from = new
      BY <1>1, <2>2
    <3>3. c.at + SyncLen \in Nat
      BY <3>1, Constants
    <3>4. c.at + SyncLen <= buf'.to /\ c.at < buf'.from
      BY <1>1, <1>3, <1>4, <1>5, <3>1, <3>2, <3>3
    <3>5. \A g \in gaps : g \in Chunks /\ (g.to <= buf.from \/ buf.to <= g.from)
      BY DEF Places, GapsApart
    <3>6. ~Missing(c.at, c.at + SyncLen)
      BY <1>4, <3>1, <3>3, <3>5, NotMissing
    <3>7. QED
      BY <3>1, <3>4, <3>6
  <2>3. CASE p \in Pass(Window, FALSE, Overlap) /\ p \notin bursts /\ Full
    <3>1. /\ c \in air /\ c.sync /\ c.at \in Nat /\ c.at + SyncLen \in Nat
          /\ Window.from <= c.at /\ c.at + SyncLen <= Window.to /\ c.at < Window.to - Overlap
      <4>1. /\ c \in air /\ c.sync /\ Window.from <= c.at /\ c.at + SyncLen <= Window.to
            /\ c.at < (IF FALSE THEN Window.to ELSE Window.to - Overlap)
        BY <1>4, <2>3, PassedSync, Constants
      <4>2. c.at \in Nat
        BY <1>4, <4>1, Carriers
      <4>3. QED
        BY <4>1, <4>2, Constants
    <3>2. c.at + SyncLen <= buf'.to /\ c.at < buf'.from
      BY <1>3, <2>3, <3>1
    <3>3. ~Missing(c.at, c.at + SyncLen)
      BY <1>4, <3>1, NotMissing, WindowApart
    <3>4. QED
      BY <3>1, <3>2, <3>3
  <2>4. QED
    BY <2>1, <2>2, <2>3, GetJudges
<1>9. NoneForgotten'
  <2> SUFFICES ASSUME NEW c \in air, Findable(c), ~Missing(c.at, c.at + Needed(c)), c.at < buf'.from
               PROVE  \E p \in bursts' : FoundAs(c, p.burst)
    BY <1>1 DEF NoneForgotten, Missing
  <2>1. /\ c.at \in Nat /\ c.len \in Nat \ {0} /\ c.sync \in BOOLEAN
        /\ Needed(c) \in Nat \ {0} /\ Needed(c) <= c.len /\ c.len <= Overlap
    BY <1>4, Carriers
  <2>2. CASE c.at < buf.from
    BY <1>1, <2>2 DEF Judgements, NoneForgotten
  <2>3. CASE buf.from <= c.at /\ c.at < Window.from
    <3>1. Window.from = new /\ c.at < new
      BY <1>1, <1>4, <2>1, <2>3
    <3>2. CASE c.at < buf.to
      <4>1. Broken(Head(q)) /\ buf.to < new
        BY <1>1, <1>4, <2>1, <2>3, <3>2
      <4>2. CASE c.at + Needed(c) <= buf.to
        <5>1. \E p \in Pass(buf, TRUE, 0) : FoundAs(c, p.burst)
          BY <1>4, <2>3, <3>2, <4>2, PassFinds
        <5>2. QED
          BY <1>2, <4>1, <5>1
      <4>3. CASE ~(c.at + Needed(c) <= buf.to)
        <5>1. PICK g \in gaps : g.from <= buf.to /\ buf.to < g.to /\ buf.to <= g.from
          BY <1>4, <4>1, HoleBeforeChunk DEF new
        <5>2. g.from \in Nat /\ g.to \in Nat
          BY ChunkFields DEF Places, GapsApart
        <5>3. g.from < c.at + Needed(c) /\ c.at < g.to
          BY <1>4, <2>1, <3>2, <4>3, <5>1, <5>2
        <5>4. QED
          BY <5>3 DEF Missing
      <4>4. QED
        BY <4>2, <4>3
    <3>3. CASE ~(c.at < buf.to)
      <4>1. buf.to <= c.at
        BY <1>4, <2>1, <3>3
      <4>2. PICK g \in gaps : g.from <= c.at /\ c.at < g.to
        BY <2>1, <3>1, <4>1, HoleBeforeChunk DEF new
      <4>3. g.from \in Nat /\ g.to \in Nat
        BY ChunkFields DEF Places, GapsApart
      <4>4. g.from < c.at + Needed(c)
        BY <2>1, <4>2, <4>3
      <4>5. QED
        BY <4>2, <4>4 DEF Missing
    <3>4. QED
      BY <3>2, <3>3
  <2>4. CASE Window.from <= c.at
    <3>1. Full /\ c.at < Window.to - Overlap
      BY <1>3, <1>4, <2>1, <2>4
    <3>2. c.at + c.len < Window.to /\ c.at + Needed(c) <= Window.to
      BY <1>4, <2>1, <3>1, Constants
    <3>3. \E p \in Pass(Window, FALSE, Overlap) : FoundAs(c, p.burst)
      BY <1>4, <2>4, <3>1, <3>2, PassFinds, Constants
    <3>4. QED
      BY <1>2, <3>1, <3>3
  <2>5. QED
    BY <1>4, <2>1, <2>2, <2>3, <2>4
<1>10. JudgedWhole'
  <2>1. ended' = ended /\ produced' = produced
    BY GetWindow
  <2> SUFFICES ASSUME NEW p \in bursts', p.burst.synced, p.burst.to < p.burst.of.at + p.burst.of.len
               PROVE  p.burst.to \in {g.from : g \in gaps} \cup (IF ended THEN {produced} ELSE {})
    BY <1>1, <2>1 DEF JudgedWhole
  <2>2. CASE p \in bursts
    BY <2>2 DEF Judgements, JudgedWhole
  <2>3. CASE Broken(Head(q)) /\ p.burst.to = buf.to
    <3>1. buf.to < new
      BY <1>1, <1>4, <2>3
    <3>2. PICK g \in gaps : g.from <= buf.to /\ buf.to < g.to /\ buf.to <= g.from
      BY <1>4, <3>1, HoleBeforeChunk DEF new
    <3>3. g.from \in Nat
      BY ChunkFields DEF Places, GapsApart
    <3>4. g.from = buf.to
      BY <1>4, <3>2, <3>3
    <3>5. QED
      BY <2>3, <3>4
  <2>4. CASE p.burst.of \in air /\ p.burst.to = p.burst.of.at + p.burst.of.len
    <3>1. p.burst.of.at \in Nat /\ p.burst.of.len \in Nat
      BY <1>4, <2>4, Carriers
    <3>2. QED
      BY <2>4, <3>1
  <2>5. QED
    BY <2>2, <2>3, <2>4, GetJudges
<1>11. QED
  BY <1>7, <1>8, <1>9, <1>10 DEF Judgements

\* At the end of the stream the rest is judged.
LEMMA GetEndKeepsJudgements ==
  ASSUME Places, Judgements, GetEnd
  PROVE  Judgements'
<1>1. /\ Len(q) = 1 /\ q[1] = Done /\ Settled = pos /\ pos = produced /\ ended /\ ~exhausted /\ exhausted' = TRUE
      /\ air' = air /\ gaps' = gaps /\ buf' = buf /\ ended' = ended /\ produced' = produced
  BY GetEndMoves
<1>2. bursts' = bursts \cup Pass(buf, TRUE, 0)
  BY DEF GetEnd, FinalPass
<1>3. /\ ToolShape /\ buf \in [from : Nat, to : Nat]
      /\ buf.from \in Nat /\ buf.to \in Nat /\ buf.from <= buf.to /\ buf.to <= Settled
  BY DEF Places, BufferShape
<1>4. ASSUME NEW p \in Pass(buf, TRUE, 0), p.burst.synced
      PROVE  /\ p.burst.of \in air /\ p.burst.of.sync /\ p.burst.of.at \in Nat
             /\ buf.from <= p.burst.of.at /\ p.burst.of.at + SyncLen <= buf.to
             /\ p.burst.of.at < buf.to
             /\ p.burst.to < p.burst.of.at + p.burst.of.len => p.burst.to = buf.to
  <2> DEFINE c == p.burst.of
  <2>1. /\ c \in air /\ c.sync /\ buf.from <= c.at /\ c.at + SyncLen <= buf.to
        /\ p.burst.to = (IF c.at + c.len < buf.to THEN c.at + c.len ELSE buf.to)
    BY <1>3, <1>4, PassedSync
  <2>2. c.at \in Nat /\ c.len \in Nat
    BY <1>3, <2>1, Carriers
  <2>3. c.at < buf.to
    BY <1>3, <2>1, <2>2, Constants
  <2>4. p.burst.to < c.at + c.len => p.burst.to = buf.to
    BY <1>3, <2>1, <2>2
  <2>5. QED
    BY <2>1, <2>2, <2>3, <2>4
<1>5. ASSUME NEW p \in bursts, p.burst.synced
      PROVE  /\ p.burst.of \in air /\ p.burst.of.sync /\ p.burst.of.at \in Nat
             /\ p.burst.of.at + SyncLen <= buf.to /\ p.burst.of.at < buf.from
             /\ ~Missing(p.burst.of.at, p.burst.of.at + SyncLen)
  <2>1. /\ p.burst.of \in air /\ p.burst.of.sync /\ p.burst.of.at + SyncLen <= buf.to
        /\ p.burst.of.at < buf.from
        /\ ~Missing(p.burst.of.at, p.burst.of.at + SyncLen)
    BY <1>1, <1>5 DEF Judgements, JudgedBehind
  <2>2. QED
    BY <1>3, <2>1, Carriers
<1>6. JudgedOnce'
  <2> SUFFICES ASSUME NEW p \in bursts', NEW r \in bursts', p.burst.synced, r.burst.synced,
                      p.burst.of = r.burst.of
               PROVE  p = r
    BY DEF JudgedOnce
  <2>1. CASE p \in bursts /\ r \in bursts
    BY <2>1 DEF Judgements, JudgedOnce
  <2>2. CASE p \in bursts /\ r \in Pass(buf, TRUE, 0)
    <3>1. p.burst.of.at < buf.from /\ p.burst.of.at \in Nat
      BY <1>5, <2>2
    <3>2. buf.from <= p.burst.of.at
      BY <1>4, <2>2
    <3>3. QED
      BY <1>3, <3>1, <3>2
  <2>3. CASE r \in bursts /\ p \in Pass(buf, TRUE, 0)
    <3>1. p.burst.of.at < buf.from /\ p.burst.of.at \in Nat
      BY <1>5, <2>3
    <3>2. buf.from <= p.burst.of.at
      BY <1>4, <2>3
    <3>3. QED
      BY <1>3, <3>1, <3>2
  <2>4. CASE p \in Pass(buf, TRUE, 0) /\ r \in Pass(buf, TRUE, 0)
    BY <1>3, <2>4, PassOnce
  <2>5. QED
    BY <1>2, <2>1, <2>2, <2>3, <2>4
<1>7. JudgedBehind'
  <2> SUFFICES ASSUME NEW p \in bursts', p.burst.synced
               PROVE  /\ p.burst.of \in air /\ p.burst.of.sync /\ p.burst.of.at + SyncLen <= buf.to
                      /\ ~Missing(p.burst.of.at, p.burst.of.at + SyncLen)
    BY <1>1 DEF JudgedBehind, Missing
  <2>1. CASE p \in bursts
    BY <1>5, <2>1
  <2>2. CASE p \in Pass(buf, TRUE, 0)
    <3>1. \A g \in gaps : g \in Chunks /\ (g.to <= buf.from \/ buf.to <= g.from)
      BY DEF Places, GapsApart
    <3>2. p.burst.of.at + SyncLen \in Nat
      <4>1. p.burst.of.at \in Nat
        BY <1>4, <2>2
      <4>2. QED
        BY <4>1, Constants
    <3>3. ~Missing(p.burst.of.at, p.burst.of.at + SyncLen)
      BY <1>3, <1>4, <2>2, <3>1, <3>2, NotMissing
    <3>4. QED
      BY <1>4, <2>2, <3>3
  <2>3. QED
    BY <1>2, <2>1, <2>2
<1>8. NoneForgotten'
  <2> SUFFICES ASSUME NEW c \in air, Findable(c), ~Missing(c.at, c.at + Needed(c)),
                      c.at < buf.from \/ c.at + Needed(c) <= buf.to
               PROVE  \E p \in bursts' : FoundAs(c, p.burst)
    BY <1>1 DEF NoneForgotten, Missing
  <2>1. c.at \in Nat /\ Needed(c) \in Nat \ {0}
    BY <1>3, Carriers
  <2>2. CASE c.at < buf.from
    BY <1>2, <2>2 DEF Judgements, NoneForgotten
  <2>3. CASE ~(c.at < buf.from)
    <3>1. buf.from <= c.at /\ c.at + Needed(c) <= buf.to /\ c.at < buf.to
      BY <1>3, <2>1, <2>3
    <3>2. \E p \in Pass(buf, TRUE, 0) : FoundAs(c, p.burst)
      BY <1>3, <3>1, PassFinds
    <3>3. QED
      BY <1>2, <3>2
  <2>4. QED
    BY <2>2, <2>3
<1>9. JudgedWhole'
  <2> SUFFICES ASSUME NEW p \in bursts', p.burst.synced, p.burst.to < p.burst.of.at + p.burst.of.len
               PROVE  p.burst.to \in {g.from : g \in gaps} \cup {produced}
    BY <1>1 DEF JudgedWhole
  <2>1. CASE p \in bursts
    BY <1>1, <2>1 DEF Judgements, JudgedWhole
  <2>2. CASE p \in Pass(buf, TRUE, 0)
    <3>1. p.burst.to = buf.to
      BY <1>4, <2>2
    <3>2. CASE buf.to = Settled
      BY <1>1, <3>1, <3>2
    <3>3. CASE buf.to # Settled
      <4>1. buf.to < Settled
        BY <1>3, <3>3, Held DEF Places
      <4>2. \A i \in 1..Len(q) : q[i] \notin Chunks
        BY <1>1, NoChunk
      <4>3. PICK g \in gaps : g.from <= buf.to /\ buf.to < g.to /\ buf.to <= g.from
        BY <1>3, <4>1, <4>2, HoleIsGap
      <4>4. g.from \in Nat
        BY ChunkFields DEF Places, GapsApart
      <4>5. g.from = buf.to
        BY <1>3, <4>3, <4>4
      <4>6. QED
        BY <3>1, <4>5
    <3>4. QED
      BY <3>2, <3>3
  <2>3. QED
    BY <1>2, <2>1, <2>2
<1>10. QED
  BY <1>6, <1>7, <1>8, <1>9 DEF Judgements

\* Every step keeps the judgements.
LEMMA JudgementsKept == Places /\ Judgements /\ [Next]_vars => Judgements'
<1> SUFFICES ASSUME Places, Judgements, [Next]_vars PROVE Judgements'
  OBVIOUS
<1>1. CASE Get
  BY <1>1, GetKeepsJudgements
<1>2. CASE GetEnd
  BY <1>2, GetEndKeepsJudgements
<1>3. CASE DropChunk
  <2>1. item \in Chunks /\ gaps' = gaps \cup {item}
    BY <1>3, Held DEF DropChunk, Places
  <2>2. UNCHANGED <<air, bursts, buf, exhausted, ended, produced>>
    BY <1>3 DEF DropChunk, consumer, tool
  <2>3. buf.to <= item.from
    BY <2>1, Held DEF Places, BufferShape
  <2>4. QED
    BY <2>1, <2>2, <2>3, OthersKeepJudgements
<1>4. CASE Sample \/ LoseSamples \/ ToolExits \/ Read \/ PutChunk \/ ReadEnd \/ EndReader \/ UNCHANGED vars
  <2>1. UNCHANGED <<air, bursts, buf, exhausted, gaps>>
    BY <1>4 DEF Sample, LoseSamples, ToolExits, Read, PutChunk, ReadEnd, EndReader, vars, consumer, reader
  <2>2. ended \in BOOLEAN
    BY DEF Places, ToolShape
  <2>3. ended => ended' /\ produced' = produced
    BY <1>4, <2>2 DEF Sample, LoseSamples, ToolExits, Read, PutChunk, ReadEnd, EndReader, vars, tool
  <2>4. QED
    BY <2>1, <2>3, OthersKeepJudgements
<1>5. QED
  BY <1>1, <1>2, <1>3, <1>4 DEF Next

\* _iter_numpy: whatever the queue drops and however the windows fall, each sync is
\* judged by one pass, and what starts before the buffer has been.
THEOREM JudgementsHold == Spec => []Judgements
<1>1. Init => Judgements
  BY NothingJudgedYet
<1>2. Places /\ Judgements /\ [Next]_vars => Judgements'
  BY JudgementsKept
<1>3. QED
  BY <1>1, <1>2, PlacesHold, PTL DEF Spec

\* At the end of the stream, what arrived of a carrier has been passed.
LEMMA AllFound ==
  ASSUME Places, Judgements, exhausted, NEW c \in air, Findable(c), Delivered(c.at, c.at + Needed(c))
  PROVE  \E p \in bursts : FoundAs(c, p.burst)
<1>1. c.at \in Nat /\ Needed(c) \in Nat \ {0}
  BY Carriers DEF Places
<1>2. buf.to \in Nat /\ buf.to <= Settled /\ item = Stopped /\ q = <<>>
  BY DEF Places, BufferShape
<1>3. Settled = pos /\ pos \in Nat
  BY <1>2, NoChunk, Held DEF Settled, Places
<1>4. c.at + Needed(c) <= pos /\ ~Missing(c.at, c.at + Needed(c))
  BY DEF Delivered
<1>5. CASE c.at + Needed(c) <= buf.to
  BY <1>4, <1>5 DEF Judgements, NoneForgotten
<1>6. CASE ~(c.at + Needed(c) <= buf.to)
  <2> DEFINE s == IF buf.to <= c.at THEN c.at ELSE buf.to
  <2>1. s \in Nat /\ buf.to <= s /\ s < Settled /\ c.at <= s /\ s < c.at + Needed(c)
    BY <1>1, <1>2, <1>3, <1>4, <1>6
  <2> HIDE DEF s
  <2>2. 1..Len(q) = {}
    BY <1>2
  <2>3. PICK g \in gaps : g.from <= s /\ s < g.to
    BY <2>1, <2>2, HoleIsGap
  <2>4. g.from \in Nat /\ g.to \in Nat
    BY ChunkFields DEF Places, GapsApart
  <2>5. g.from < c.at + Needed(c) /\ c.at < g.to
    BY <1>1, <2>1, <2>3, <2>4
  <2>6. QED
    BY <1>4, <2>5 DEF Missing
<1>7. QED
  BY <1>5, <1>6

\* The judgements are what the property asks for.
LEMMA AllJudged == Places /\ Judgements => EveryCarrierJudged
<1> SUFFICES ASSUME Places, Judgements PROVE EveryCarrierJudged
  OBVIOUS
<1>1. ASSUME NEW c \in air, c.sync
      PROVE  /\ Cardinality(Judged(c)) <= 1
             /\ exhausted => (Judged(c) # {} <=> Delivered(c.at, c.at + SyncLen))
  <2>1. \A p, r \in Judged(c) : p = r
    BY DEF Judged, Judgements, JudgedOnce
  <2>2. Cardinality(Judged(c)) <= 1
    <3>1. CASE Judged(c) = {}
      BY <3>1, FS_EmptySet
    <3>2. CASE Judged(c) # {}
      <4>1. PICK p \in Judged(c) : TRUE
        BY <3>2
      <4>2. Judged(c) = {p}
        BY <2>1
      <4>3. QED
        BY <4>2, FS_Singleton
    <3>3. QED
      BY <3>1, <3>2
  <2>3. ASSUME Judged(c) # {} PROVE Delivered(c.at, c.at + SyncLen)
    <3>1. PICK p \in bursts : p.burst.of = c /\ p.burst.synced
      BY <2>3 DEF Judged
    <3>2. c.at + SyncLen <= buf.to /\ ~Missing(c.at, c.at + SyncLen)
      BY <3>1 DEF Judgements, JudgedBehind
    <3>3. buf.to \in Nat /\ buf.to <= pos /\ pos \in Nat
      BY Held DEF Places, BufferShape
    <3>4. c.at + SyncLen \in Nat
      BY Carriers, Constants DEF Places
    <3>5. QED
      BY <3>2, <3>3, <3>4 DEF Delivered
  <2>4. ASSUME exhausted, Delivered(c.at, c.at + SyncLen) PROVE Judged(c) # {}
    <3>1. Findable(c) /\ Needed(c) = SyncLen
      BY <1>1 DEF Findable, Needed
    <3>2. PICK p \in bursts : FoundAs(c, p.burst)
      BY <2>4, <3>1, AllFound
    <3>3. p.burst.of = c /\ p.burst.synced
      BY <1>1, <3>2 DEF FoundAs
    <3>4. QED
      BY <3>3 DEF Judged
  <2>5. QED
    BY <2>2, <2>3, <2>4
<1>2. ASSUME exhausted, NEW c \in air, ~c.sync, c.len <= Overlap, Delivered(c.at, c.at + c.len)
      PROVE  \E p \in bursts : p.burst.of = c /\ p.burst.start = c.at /\ p.burst.to = c.at + c.len
  <2>1. Findable(c) /\ Needed(c) = c.len
    BY <1>2 DEF Findable, Needed
  <2>2. PICK p \in bursts : FoundAs(c, p.burst)
    BY <1>2, <2>1, AllFound
  <2>3. QED
    BY <1>2, <2>2 DEF FoundAs
<1>3. EverySyncJudgedOnce
  BY <1>1 DEF EverySyncJudgedOnce
<1>4. ShortRunsReported
  BY <1>2 DEF ShortRunsReported
<1>5. QED
  BY <1>3, <1>4 DEF EveryCarrierJudged, Judgements

\* _iter_numpy and _pass: every sync that arrived is judged once, and with all of
\* its packet unless the stream is cut there; a short run is reported whole.  So
\* for every stream, size of windows and reads, and whatever the queue drops.
THEOREM CarriersJudged == Spec => []EveryCarrierJudged
BY PlacesHold, JudgementsHold, AllJudged, PTL

(***************************************************************************)
(* The clock.                                                              *)
(***************************************************************************)
\* Products, as the provers need them.
LEMMA OneMore == \A k, r \in Nat : (k + 1) * r = k * r + r /\ k * r \in Nat
OBVIOUS

LEMMA FewerAreLess == \A k, n, r \in Nat : k <= n => k * r <= n * r
<1> SUFFICES ASSUME NEW k \in Nat, NEW n \in Nat, NEW r \in Nat, k <= n PROVE k * r <= n * r
  OBVIOUS
<1>1. PICK d \in Nat : n = k + d
  <2>1. n - k \in Nat /\ n = k + (n - k)
    OBVIOUS
  <2>2. QED
    BY <2>1
<1>2. (k + d) * r = k * r + d * r /\ k * r \in Nat /\ d * r \in Nat
  OBVIOUS
<1>3. QED
  BY <1>1, <1>2

\* A sample is on the air after those before it and those that were lost.
LEMMA AirTime ==
  ASSUME ToolShape
  PROVE  /\ lost \in Nat /\ lostAt \in Nat
         /\ \A s \in Nat : OnAir(s) - s \in 0..lost
         /\ Now = produced + lost
<1>1. lost \in Nat /\ lostAt \in Nat /\ produced \in Nat
  BY Constants DEF ToolShape
<1>2. \A s \in Nat : OnAir(s) - s \in 0..lost
  BY <1>1 DEF OnAir
<1>3. Now = produced + lost
  BY <1>1 DEF Now, OnAir, ToolShape
<1>4. QED
  BY <1>1, <1>2, <1>3

\* A sequence of numbers has the numbers at its places.
LEMMA RangeOfNumbers ==
  ASSUME NEW s \in Seq(Nat), s # <<>>
  PROVE  /\ Range(s) \subseteq Nat /\ Range(s) # {}
         /\ \A x \in Range(s) : \E i \in 1..Len(s) : x = s[i]
<1>1. DOMAIN s = 1..Len(s) /\ Len(s) \in Nat /\ (\A i \in 1..Len(s) : s[i] \in Nat) /\ 1 \in 1..Len(s)
  OBVIOUS
<1>2. Range(s) = {s[i] : i \in 1..Len(s)}
  BY <1>1 DEF Range
<1>3. \A x \in Range(s) : \E i \in 1..Len(s) : x = s[i]
  BY <1>2
<1>4. Range(s) \subseteq Nat
  BY <1>1, <1>3
<1>5. s[1] \in Range(s)
  BY <1>1, <1>2
<1>6. QED
  BY <1>3, <1>4, <1>5

\* The clock keeps its last readings: the new one behind those it had.
LEMMA Remembered ==
  ASSUME anchors \in Seq(Nat), Len(anchors) <= Anchors, NEW a \in Nat
  PROVE  /\ Remember(a) \in Seq(Nat) /\ Len(Remember(a)) <= Anchors /\ Remember(a) # <<>>
         /\ \A i \in 1..Len(Remember(a)) :
              \/ Remember(a)[i] = a
              \/ \E j \in 1..Len(anchors) :
                   Remember(a)[i] = anchors[j] /\ Len(Remember(a)) - i = (Len(anchors) - j) + 1
<1> DEFINE all == Append(anchors, a)
           r == Remember(a)
<1>1. /\ all \in Seq(Nat) /\ Len(all) = Len(anchors) + 1 /\ Len(anchors) \in Nat
      /\ all[Len(anchors) + 1] = a /\ \A i \in 1..Len(anchors) : all[i] = anchors[i]
  OBVIOUS
<1>2. r = IF Len(all) > Anchors THEN Tail(all) ELSE all
  BY DEF Remember
<1> HIDE DEF all, r
<1>3. CASE Len(all) > Anchors
  <2>1. r = Tail(all)
    BY <1>2, <1>3
  <2>2. r \in Seq(Nat) /\ Len(r) = Len(anchors) /\ \A i \in 1..Len(r) : r[i] = all[i + 1]
    BY <1>1, <2>1
  <2>3. Len(anchors) = Anchors /\ Len(r) > 0 /\ r # <<>>
    BY <1>1, <1>3, <2>2, Constants
  <2>4. ASSUME NEW i \in 1..Len(r)
        PROVE  \/ r[i] = a
               \/ \E j \in 1..Len(anchors) : r[i] = anchors[j] /\ Len(r) - i = (Len(anchors) - j) + 1
    <3>1. CASE i = Len(r)
      BY <1>1, <2>2, <3>1
    <3>2. CASE i # Len(r)
      <4>1. i + 1 \in 1..Len(anchors) /\ Len(r) - i = (Len(anchors) - (i + 1)) + 1
        BY <1>1, <2>2, <3>2
      <4>2. r[i] = anchors[i + 1]
        BY <1>1, <2>2, <4>1
      <4>3. QED
        BY <4>1, <4>2
    <3>3. QED
      BY <3>1, <3>2
  <2>5. QED
    BY <2>2, <2>3, <2>4 DEF r
<1>4. CASE ~(Len(all) > Anchors)
  <2>1. r = all
    BY <1>2, <1>4
  <2>2. r \in Seq(Nat) /\ Len(r) = Len(anchors) + 1 /\ Len(r) <= Anchors /\ r # <<>>
    BY <1>1, <1>4, <2>1, Constants
  <2>3. ASSUME NEW i \in 1..Len(r)
        PROVE  \/ r[i] = a
               \/ \E j \in 1..Len(anchors) : r[i] = anchors[j] /\ Len(r) - i = (Len(anchors) - j) + 1
    <3>1. CASE i = Len(anchors) + 1
      BY <1>1, <2>1, <3>1
    <3>2. CASE i # Len(anchors) + 1
      <4>1. i \in 1..Len(anchors) /\ Len(r) - i = (Len(anchors) - i) + 1
        BY <1>1, <2>2, <3>2
      <4>2. r[i] = anchors[i]
        BY <1>1, <2>1, <4>1
      <4>3. QED
        BY <4>1, <4>2
    <3>3. QED
      BY <3>1, <3>2
  <2>4. QED
    BY <2>2, <2>3 DEF r
<1>5. QED
  BY <1>3, <1>4

\* A read adds an anchor that knows of every loss so far.
LEMMA ReadKeepsClock ==
  ASSUME Places, ClockInv, Read
  PROVE  ClockInv'
<1> DEFINE a == Noted(pos')
           r == Remember(a)
<1>1. /\ pos' \in Nat /\ pos < pos' /\ pos' <= produced /\ pos' <= pos + ReadSize
      /\ produced - pos' <= PipeSize - ReadSize \/ pos' = produced \/ lossless
  BY ReadsOn
<1>2. /\ UNCHANGED <<lossless, lost, lostAt, bursts>>
      /\ anchors' = r
  BY DEF Read, tool, consumer
<1>3. /\ lost \in Nat /\ lostAt \in Nat /\ produced \in Nat /\ pos \in Nat /\ Now = produced + lost
      /\ lossless \in BOOLEAN
  BY AirTime, Held DEF Places, ToolShape
<1>4. anchors \in Seq(Nat) /\ Len(anchors) <= Anchors /\ Len(anchors) \in Nat
  BY DEF ClockInv, AnchorShape
<1>5. a = (produced + lost) - pos'
  BY <1>3 DEF Noted
<1> HIDE DEF a
<1>6. a \in Nat /\ a >= lost
  <2>1. \A n \in Nat : n <= produced => (produced + lost) - n \in Nat /\ (produced + lost) - n >= lost
    BY <1>3
  <2>2. QED
    BY <1>1, <1>5, <2>1
<1>7. lossless \/ a <= PipeSize - ReadSize + lost
  <2>1. \A n \in Nat : produced - n <= PipeSize - ReadSize => (produced + lost) - n <= PipeSize - ReadSize + lost
    BY <1>3, Constants
  <2>2. \A n \in Nat : n = produced => (produced + lost) - n <= PipeSize - ReadSize + lost
    BY <1>3, Constants
  <2>3. QED
    BY <1>1, <1>5, <2>1, <2>2
<1>8. /\ r \in Seq(Nat) /\ Len(r) <= Anchors /\ r # <<>> /\ Len(r) \in Nat
      /\ \A i \in 1..Len(r) :
           \/ r[i] = a
           \/ \E j \in 1..Len(anchors) : r[i] = anchors[j] /\ Len(r) - i = (Len(anchors) - j) + 1
  <2>1. /\ r \in Seq(Nat) /\ Len(r) <= Anchors /\ r # <<>>
        /\ \A i \in 1..Len(r) :
             \/ r[i] = a
             \/ \E j \in 1..Len(anchors) : r[i] = anchors[j] /\ Len(r) - i = (Len(anchors) - j) + 1
    BY <1>4, <1>6, Remembered
  <2> HIDE DEF r
  <2>2. Len(r) \in Nat
    BY <2>1
  <2>3. QED
    BY <2>1, <2>2
<1> HIDE DEF r
<1>9. AnchorShape'
  <2>1. ASSUME ~lossless, NEW i \in 1..Len(r) PROVE r[i] <= PipeSize - ReadSize + lost
    <3>1. \A j \in 1..Len(anchors) : anchors[j] <= PipeSize - ReadSize + lost
      BY <2>1 DEF ClockInv, AnchorShape
    <3>2. QED
      BY <1>7, <1>8, <2>1, <3>1
  <2>2. QED
    BY <1>2, <1>8, <2>1 DEF AnchorShape
<1>10. OldOnesLeave'
  <2> SUFFICES ASSUME lost > 0, NEW i \in 1..Len(r), r[i] < lost
               PROVE  pos' <= lostAt + (Len(r) - i) * ReadSize
    BY <1>2 DEF OldOnesLeave
  <2>1. r[i] # a
    BY <1>3, <1>6
  <2>2. PICK j \in 1..Len(anchors) : r[i] = anchors[j] /\ Len(r) - i = (Len(anchors) - j) + 1
    BY <1>8, <2>1
  <2>3. pos <= lostAt + (Len(anchors) - j) * ReadSize
    BY <2>2 DEF ClockInv, OldOnesLeave
  <2> DEFINE k == Len(anchors) - j
  <2>4. k \in Nat /\ pos <= lostAt + k * ReadSize /\ Len(r) - i = k + 1
    BY <1>4, <2>2, <2>3
  <2> HIDE DEF k
  <2>5. (k + 1) * ReadSize = k * ReadSize + ReadSize /\ k * ReadSize \in Nat /\ ReadSize \in Nat
    BY <2>4, OneMore, Constants
  <2>6. pos + ReadSize <= lostAt + (k + 1) * ReadSize
    BY <1>3, <2>4, <2>5
  <2>7. (k + 1) * ReadSize \in Nat
    BY <2>5
  <2>8. \A n \in Nat : n <= pos + ReadSize => n <= lostAt + (k + 1) * ReadSize
    BY <1>3, <2>5, <2>6, <2>7
  <2>9. QED
    BY <1>1, <2>4, <2>8
<1>11. StampsNear'
  BY <1>2 DEF ClockInv, StampsNear
<1>12. QED
  BY <1>9, <1>10, <1>11 DEF ClockInv

\* A loss makes every anchor an old one.
LEMMA LossKeepsClock ==
  ASSUME Places, ClockInv, LoseSamples
  PROVE  ClockInv'
<1>1. /\ lost = 0 /\ lost' \in Nat /\ lostAt' = produced
      /\ UNCHANGED <<lossless, pos, anchors, bursts>>
  BY Constants DEF LoseSamples, reader, consumer
<1>2. pos \in Nat /\ produced \in Nat /\ pos <= produced
  BY Held DEF Places
<1>3. anchors \in Seq(Nat) /\ Len(anchors) \in Nat
  BY DEF ClockInv, AnchorShape
<1>4. AnchorShape'
  <2>1. ASSUME ~lossless, NEW i \in 1..Len(anchors) PROVE anchors[i] <= PipeSize - ReadSize + lost'
    <3>1. anchors[i] <= PipeSize - ReadSize + lost /\ anchors[i] \in Nat
      BY <1>3, <2>1 DEF ClockInv, AnchorShape
    <3>2. \A n \in Nat : anchors[i] <= PipeSize - ReadSize + n
      BY <1>1, <3>1, Constants
    <3>3. QED
      BY <1>1, <3>2
  <2>2. QED
    BY <1>1, <2>1 DEF ClockInv, AnchorShape
<1>5. OldOnesLeave'
  <2> SUFFICES ASSUME NEW i \in 1..Len(anchors) PROVE pos <= produced + (Len(anchors) - i) * ReadSize
    BY <1>1 DEF OldOnesLeave
  <2> DEFINE k == Len(anchors) - i
  <2>1. k \in Nat
    BY <1>3
  <2>2. k * ReadSize \in Nat
    BY <2>1, OneMore, Constants
  <2> HIDE DEF k
  <2>3. pos <= produced + k * ReadSize
    BY <1>2, <2>2
  <2>4. QED
    BY <2>3 DEF k
<1>6. StampsNear'
  <2> SUFFICES ASSUME ~lossless, NEW p \in bursts
               PROVE  p.burst.error \in (-(lost'))..(PipeSize - ReadSize + lost')
    BY <1>1 DEF StampsNear
  <2>1. p.burst.error \in (-0)..(PipeSize - ReadSize + 0)
    BY <1>1 DEF ClockInv, StampsNear
  <2>2. \A n \in Nat : p.burst.error \in (-n)..(PipeSize - ReadSize + n)
    BY <2>1, Constants
  <2>3. QED
    BY <1>1, <2>2
<1>7. QED
  BY <1>4, <1>5, <1>6 DEF ClockInv

\* What a pass yields is stamped from anchors that are near.
LEMMA PassStamps ==
  ASSUME Places, ClockInv, ~lossless,
         NEW b \in [from : Nat, to : Nat], NEW final \in BOOLEAN, NEW keep \in Nat,
         NEW p \in Pass(b, final, keep)
  PROVE  p.burst.error \in (-lost)..(PipeSize - ReadSize + lost)
<1>1. lost \in Nat /\ \A s \in Nat : OnAir(s) - s \in 0..lost
  BY AirTime DEF Places
<1>2. p.burst.start \in Nat /\ p.burst.error = At(p.burst.start) - OnAir(p.burst.start)
  BY Passed DEF Places
<1> DEFINE s == p.burst.start
<1>3. OnAir(s) \in Int /\ OnAir(s) - s \in 0..lost
  <2>1. lostAt \in Nat
    BY AirTime DEF Places
  <2>2. QED
    BY <1>1, <1>2, <2>1 DEF OnAir
<1> HIDE DEF s
<1>4. CASE anchors = <<>>
  <2>1. At(s) = OnAir(s)
    BY <1>4 DEF At
  <2>2. QED
    BY <1>1, <1>2, <1>3, <2>1, Constants DEF s
<1>5. CASE anchors # <<>>
  <2>1. anchors \in Seq(Nat) /\ Len(anchors) \in Nat /\ 1 \in 1..Len(anchors)
    BY <1>5 DEF ClockInv, AnchorShape
  <2>2. Range(anchors) \subseteq Nat /\ Range(anchors) # {}
    BY <1>5, <2>1, RangeOfNumbers
  <2>3. Min(Range(anchors)) \in Range(anchors)
    BY <2>2, MinIsLeast
  <2>4. PICK i \in 1..Len(anchors) : Min(Range(anchors)) = anchors[i]
    BY <1>5, <2>1, <2>3, RangeOfNumbers
  <2>5. anchors[i] \in Nat /\ anchors[i] <= PipeSize - ReadSize + lost
    BY <2>1, <2>4 DEF ClockInv, AnchorShape
  <2>6. At(s) = anchors[i] + s
    BY <1>5, <2>4 DEF At
  <2>7. s \in Nat /\ p.burst.error = (anchors[i] + s) - OnAir(s)
    BY <1>2, <2>6 DEF s
  <2>8. OnAir(s) - s \in Int /\ 0 <= OnAir(s) - s /\ OnAir(s) - s <= lost
    BY <1>1, <1>3, <2>7
  <2>9. p.burst.error = anchors[i] - (OnAir(s) - s)
    BY <1>3, <2>5, <2>7
  <2>10. \A x, o \in Int : 0 <= x /\ x <= PipeSize - ReadSize + lost /\ 0 <= o /\ o <= lost =>
            x - o \in (-lost)..(PipeSize - ReadSize + lost)
    <3> SUFFICES ASSUME NEW x \in Int, NEW o \in Int, 0 <= x, x <= PipeSize - ReadSize + lost, 0 <= o, o <= lost
                 PROVE  x - o \in (-lost)..(PipeSize - ReadSize + lost)
      OBVIOUS
    <3>1. -lost \in Int /\ -lost <= x - o
      BY <1>1
    <3>2. PipeSize - ReadSize + lost \in Int /\ x - o <= PipeSize - ReadSize + lost
      BY <1>1, Constants
    <3>3. x - o \in Int
      OBVIOUS
    <3>4. QED
      BY <3>1, <3>2, <3>3
  <2>11. anchors[i] \in Int /\ 0 <= anchors[i]
    BY <2>5
  <2>12. QED
    BY <2>5, <2>8, <2>9, <2>10, <2>11
<1>6. QED
  BY <1>4, <1>5

\* No anchor, no stamp.
LEMMA ClockStarts == Init => ClockInv
<1> SUFFICES ASSUME Init PROVE ClockInv
  OBVIOUS
<1>1. anchors = <<>> /\ pos = 0 /\ lost = 0 /\ bursts = {}
  BY DEF Init
<1>2. QED
  BY <1>1, Constants DEF ClockInv, AnchorShape, OldOnesLeave, StampsNear

\* Every step keeps the clock.
LEMMA ClockKept == Places /\ ClockInv /\ [Next]_vars => ClockInv'
<1> SUFFICES ASSUME Places, ClockInv, [Next]_vars PROVE ClockInv'
  OBVIOUS
<1>1. CASE Read
  BY <1>1, ReadKeepsClock
<1>2. CASE LoseSamples
  BY <1>2, LossKeepsClock
<1>3. CASE Get
  <2>1. UNCHANGED <<lossless, lost, lostAt, pos, anchors>>
    BY <1>3, GetWindow
  <2>2. \A p \in bursts' : p \in bursts \/ p \in Pass(buf, TRUE, 0) \/ p \in Pass(Window, FALSE, Overlap)
    BY <1>3, GetWindow
  <2>3. ASSUME ~lossless, NEW p \in bursts'
        PROVE  p.burst.error \in (-lost)..(PipeSize - ReadSize + lost)
    <3>1. CASE p \in bursts
      BY <2>3, <3>1 DEF ClockInv, StampsNear
    <3>2. CASE p \in Pass(buf, TRUE, 0)
      BY <1>3, <2>3, <3>2, GetShape, PassStamps
    <3>3. CASE p \in Pass(Window, FALSE, Overlap)
      BY <1>3, <2>3, <3>3, GetShape, PassStamps, Constants
    <3>4. QED
      BY <2>2, <3>1, <3>2, <3>3
  <2>4. QED
    BY <2>1, <2>3 DEF ClockInv, AnchorShape, OldOnesLeave, StampsNear
<1>4. CASE GetEnd
  <2>1. UNCHANGED <<lossless, lost, lostAt, pos, anchors>>
    BY <1>4, GetEndMoves
  <2>2. bursts' = bursts \cup Pass(buf, TRUE, 0)
    BY <1>4 DEF GetEnd, FinalPass
  <2>3. ASSUME ~lossless, NEW p \in bursts'
        PROVE  p.burst.error \in (-lost)..(PipeSize - ReadSize + lost)
    <3>1. CASE p \in bursts
      BY <2>3, <3>1 DEF ClockInv, StampsNear
    <3>2. CASE p \in Pass(buf, TRUE, 0)
      BY <2>3, <3>2, PassStamps DEF Places, BufferShape
    <3>3. QED
      BY <2>2, <3>1, <3>2
  <2>4. QED
    BY <2>1, <2>3 DEF ClockInv, AnchorShape, OldOnesLeave, StampsNear
<1>5. CASE Sample \/ ToolExits \/ PutChunk \/ DropChunk \/ ReadEnd \/ EndReader \/ UNCHANGED vars
  <2>1. UNCHANGED <<lossless, lost, lostAt, pos, anchors, bursts>>
    BY <1>5 DEF Sample, ToolExits, PutChunk, DropChunk, ReadEnd, EndReader, vars, tool, reader, consumer
  <2>2. QED
    BY <2>1 DEF ClockInv, AnchorShape, OldOnesLeave, StampsNear
<1>6. QED
  BY <1>1, <1>2, <1>3, <1>4, <1>5 DEF Next

\* SampleClock: an anchor is no older than CLOCK_ANCHORS reads and no further off
\* than the pipe can hold a sample back, and what was lost.
THEOREM ClockHolds == Spec => []ClockInv
<1>1. Init => ClockInv
  BY ClockStarts
<1>2. Places /\ ClockInv /\ [Next]_vars => ClockInv'
  BY ClockKept
<1>3. QED
  BY <1>1, <1>2, PlacesHold, PTL DEF Spec

\* CLOCK_ANCHORS reads after the loss, every anchor knows of it.
LEMMA ClockCatchesUp ==
  ASSUME Places, ClockInv, lost > 0, pos >= lostAt + Anchors * ReadSize
  PROVE  Min(Range(anchors)) >= lost
<1>1. lost \in Nat /\ lostAt \in Nat /\ pos \in Nat
  BY AirTime, Held DEF Places
<1>2. Anchors * ReadSize \in Nat /\ Anchors * ReadSize >= ReadSize
  <2>1. 1 * ReadSize <= Anchors * ReadSize
    BY FewerAreLess, Constants
  <2>2. QED
    BY <2>1, OneMore, Constants
<1>3. pos > 0
  BY <1>1, <1>2, Constants
<1>4. anchors \in Seq(Nat) /\ Len(anchors) \in Nat /\ Len(anchors) <= Anchors /\ anchors # <<>>
  BY <1>3 DEF ClockInv, AnchorShape
<1>5. 1 \in 1..Len(anchors)
  BY <1>4
<1>6. Range(anchors) \subseteq Nat /\ Range(anchors) # {}
  BY <1>4, RangeOfNumbers
<1>7. PICK i \in 1..Len(anchors) : Min(Range(anchors)) = anchors[i]
  <2>1. Min(Range(anchors)) \in Range(anchors)
    BY <1>6, MinIsLeast
  <2>2. QED
    BY <1>4, <2>1, RangeOfNumbers
<1>8. ASSUME anchors[i] < lost PROVE FALSE
  <2> DEFINE k == Len(anchors) - i
  <2>1. k \in Nat /\ k + 1 <= Anchors /\ pos <= lostAt + k * ReadSize
    BY <1>4, <1>8, Constants DEF ClockInv, OldOnesLeave
  <2> HIDE DEF k
  <2>2. (k + 1) * ReadSize <= Anchors * ReadSize
    BY <2>1, FewerAreLess, Constants
  <2>3. (k + 1) * ReadSize = k * ReadSize + ReadSize /\ k * ReadSize \in Nat
    BY <2>1, OneMore, Constants
  <2>4. QED
    BY <1>1, <1>2, <2>1, <2>2, <2>3, Constants
<1>9. anchors[i] \in Nat
  BY <1>4
<1>10. QED
  BY <1>1, <1>7, <1>8, <1>9

\* The clock's invariant is what ClockBounded asks for.
LEMMA Bounded == Places /\ ClockInv => ClockBounded
BY ClockCatchesUp DEF ClockInv, StampsNear, ClockBounded

\* The places are of the types.
LEMMA PlacesHaveTypes == Places /\ ClockInv => TypeOK
<1> SUFFICES ASSUME Places, ClockInv PROVE TypeOK
  OBVIOUS
<1>1. Chunks \cup {Done, Stopped, Nothing} \subseteq Marks
  BY Constants DEF Chunks, Done, Stopped, Nothing, Marks
<1>2. /\ air \in Airs /\ lossless \in BOOLEAN /\ ended \in BOOLEAN /\ exhausted \in BOOLEAN
      /\ produced \in 0..End /\ lost \in 0..MaxLost /\ lostAt \in 0..(End + 1) /\ pos \in 0..produced
  BY DEF Places, ToolShape, ReaderShape, BufferShape
<1>3. item \in Marks /\ gaps \subseteq Marks
  BY <1>1 DEF Places, ReaderShape, GapsApart
<1>4. /\ Settled \in Nat /\ Settled <= pos /\ pos \in Nat /\ pos <= produced /\ produced <= End
      /\ produced \in Nat
  BY Held, Constants DEF Places, ToolShape
<1>5. dropped \in 0..End
  <2>1. dropped \in 0..Settled
    BY DEF Places, ReaderShape
  <2>2. QED
    BY <1>4, <2>1, Constants
<1>6. Len(q) <= QueueSize /\ \A i \in DOMAIN q : q[i] \in Marks
  BY <1>1 DEF Places, QueueShape
<1>7. buf.from \in 0..buf.to /\ buf.to \in 0..pos
  BY <1>4 DEF Places, BufferShape
<1>8. Len(anchors) <= Anchors /\ \A i \in DOMAIN anchors : anchors[i] \in Nat
  BY DEF ClockInv, AnchorShape
<1>9. QED
  BY <1>2, <1>3, <1>5, <1>6, <1>7, <1>8 DEF TypeOK

\* The reader's and the consumer's places agree, and a live burst's stamp is off
\* by no more than the pipe holds back and the tool lost; CLOCK_ANCHORS reads
\* after a loss the stamps are right again.
THEOREM SdrReaderInvHolds == Spec => []SdrReaderInv
<1>1. Places /\ ClockInv => SdrReaderInv
  BY PlacesHaveTypes, Bounded DEF SdrReaderInv
<1>2. QED
  BY <1>1, PlacesHold, ClockHolds, PTL

(***************************************************************************)
(* Watchdog, for every setting of its timers, every number of faults and   *)
(* every order of timeouts, faults, junk and decoded packets.              *)
(***************************************************************************)
USE WatchdogAssumption

\* The ages stay natural numbers and saturate at their limits.
LEMMA UpIsBounded ==
    ASSUME NEW n \in Nat, NEW x \in 0..n
    PROVE  /\ Up(x, n) \in 0..n
           /\ Up(x, n) = x + 1 \/ Up(x, n) = n
  BY DEF Up

----------------------------------------------------------------------------
\* No step of the dongle, the driver or the loop takes a flag out of BOOLEAN.
LEMMA FlagsKept == WatchdogTypeOK /\ [WatchdogNext]_watchdogVars => FlagsOK'
<1> SUFFICES ASSUME WatchdogTypeOK, [WatchdogNext]_watchdogVars PROVE FlagsOK'
  OBVIOUS
<1> USE DEF FlagsOK
<1>0. FlagsOK
  BY Zenon DEF WatchdogTypeOK
<1>1. CASE Receive
  BY <1>0, <1>1 DEF Receive, BlockArrives, CallFails, dongle
<1>2. CASE Heal
  BY <1>0, <1>2 DEF Heal, UsbReset, Open, Common
<1>3. CASE IdleCheck
  BY <1>0, <1>3 DEF IdleCheck, CallFails, CallWorks, dongle, driver
<1>4. CASE Strobe
  BY <1>0, <1>4 DEF Strobe, CallFails, CallWorks, driver
<1>5. CASE Silence
  BY <1>0, <1>5 DEF Silence, ConfigureRx, DoesNotAnswer, CallFails, CallWorks, driver
<1>6. CASE NotSilent \/ Put \/ Decode
  BY <1>0, <1>6 DEF NotSilent, Put, Decode, dongle, driver
<1>7. CASE Stick \/ UsbTrouble \/ Deafen \/ CarrierChanges
  BY <1>0, <1>7 DEF Stick, UsbTrouble, Deafen, CarrierChanges, dongle, driver
<1>8. CASE UNCHANGED watchdogVars
  BY <1>0, <1>8 DEF watchdogVars, dongle, driver
<1>9. QED
  BY <1>1, <1>2, <1>3, <1>4, <1>5, <1>6, <1>7, <1>8 DEF WatchdogNext, Loop

\* The state keeps its shape, and a block in hand has ended the series of
\* timeouts (RfcatRadio.receive sets _timeouts to 0 with every block).
THEOREM WatchdogTypeCorrect == WatchdogSpec => []WatchdogTypeOK
<1> USE DEF WatchdogTypeOK, QuietLimit, DeafLimit, Up
<1>1. WatchdogInit => WatchdogTypeOK
  <2>1. WatchdogInit => FlagsOK
    BY DEF WatchdogInit, FlagsOK
  <2>2. QED
    BY <2>1 DEF WatchdogInit
<1>2. WatchdogTypeOK /\ [WatchdogNext]_watchdogVars => WatchdogTypeOK'
  <2> SUFFICES ASSUME WatchdogTypeOK, [WatchdogNext]_watchdogVars PROVE WatchdogTypeOK'
    OBVIOUS
  <2>0. FlagsOK'
    BY FlagsKept
  <2>1. CASE Receive
    BY <2>0, <2>1 DEF Receive, BlockArrives, NoBlock, CallFails, Fault, dongle, timers
  <2>2. CASE Heal
    BY <2>0, <2>2 DEF Heal, UsbReset, Release, Open, Common, Fault
  <2>3. CASE IdleCheck
    BY <2>0, <2>3 DEF IdleCheck, CallFails, CallWorks, Fault, dongle, driver
  <2>4. CASE Strobe
    BY <2>0, <2>4 DEF Strobe, CallFails, CallWorks, Fault, driver
  <2>5. CASE Silence
    BY <2>0, <2>5 DEF Silence, ConfigureRx, DoesNotAnswer, CallFails, CallWorks, Fault, driver
  <2>6. CASE NotSilent
    BY <2>0, <2>6 DEF NotSilent, dongle, driver, timers
  <2>7. CASE Put
    BY <2>0, <2>7 DEF Put, dongle, driver
  <2>8. CASE Decode
    BY <2>0, <2>8 DEF Decode, dongle, driver
  <2>9. CASE Stick \/ UsbTrouble \/ Deafen \/ CarrierChanges
    BY <2>0, <2>9 DEF Stick, UsbTrouble, Deafen, CarrierChanges, Fault, dongle, driver, timers
  <2>10. CASE UNCHANGED watchdogVars
    BY <2>0, <2>10 DEF watchdogVars, dongle, driver, timers
  <2>11. QED
    BY <2>1, <2>2, <2>3, <2>4, <2>5, <2>6, <2>7, <2>8, <2>9, <2>10 DEF WatchdogNext, Loop
<1>3. QED
  BY <1>1, <1>2, PTL DEF WatchdogSpec

----------------------------------------------------------------------------
\* Why the driver may believe its dongle is gone: something did go wrong since
\* the last block.  A device that is not open, an error rflib's threads
\* counted and a wait in resetup() are each a reason; the last of them lasts
\* as long as the dongle is stuck, so no block can have come since.
BlameInv ==
    /\ pc \in {"heal", "healNow", "crashed"} => sick
    /\ ~dev => sick
    /\ trouble # "none" => sick
    /\ trouble = "resetup" => usb = "stuck"

\* At the start nothing has gone wrong and nothing is believed to have.
LEMMA BlameInitially == WatchdogInit => BlameInv
  BY DEF WatchdogInit, BlameInv

\* Every step that gives the driver a reason records that something went wrong;
\* a block, which takes the record away, takes the reasons away too.
LEMMA BlameKept == WatchdogTypeOK /\ BlameInv /\ [WatchdogNext]_watchdogVars => BlameInv'
<1> SUFFICES ASSUME WatchdogTypeOK, BlameInv, [WatchdogNext]_watchdogVars PROVE BlameInv'
  OBVIOUS
<1> USE DEF WatchdogTypeOK, BlameInv
<1>1. CASE Receive
  <2>1. UNCHANGED <<dongle, dev>> /\ pc = "receive"
    BY <1>1 DEF Receive
  <2>2. ASSUME NEW kind \in {"packet", "junk"}, BlockArrives(kind) PROVE BlameInv'
    BY <2>1, <2>2 DEF BlockArrives, Answers, dongle
  <2>3. ASSUME dev, NoBlock(FALSE), UNCHANGED <<faults, deafFor, sick>> PROVE BlameInv'
    BY <2>1, <2>3 DEF NoBlock, Wedged, dongle
  <2>4. ASSUME CallFails, NoBlock(TRUE) PROVE BlameInv'
    BY <2>1, <2>4 DEF CallFails, NoBlock, dongle
  <2>5. QED
    BY <1>1, <2>2, <2>3, <2>4 DEF Receive
<1>2. CASE Heal
  BY <1>2 DEF Heal, UsbReset, Release, Open, Common
<1>3. CASE IdleCheck
  BY <1>3 DEF IdleCheck, CallFails, CallWorks, dongle, driver
<1>4. CASE Strobe
  BY <1>4 DEF Strobe, CallFails, CallWorks, driver
<1>5. CASE Silence
  BY <1>5 DEF Silence, ConfigureRx, DoesNotAnswer, CallFails, CallWorks, driver
<1>6. CASE NotSilent \/ Put \/ Decode
  BY <1>6 DEF NotSilent, Put, Decode, dongle, driver
<1>7. CASE Stick \/ UsbTrouble \/ Deafen \/ CarrierChanges
  BY <1>7 DEF Stick, UsbTrouble, Deafen, CarrierChanges, dongle, driver
<1>8. CASE UNCHANGED watchdogVars
  BY <1>8 DEF watchdogVars, dongle, driver
<1>9. QED
  BY <1>1, <1>2, <1>3, <1>4, <1>5, <1>6, <1>7, <1>8 DEF WatchdogNext, Loop

\* A dongle that has done nothing wrong since its last block is neither
\* USB-reset nor allowed to end the loop (RfcatRadio._wedged, heal_now).
THEOREM NothingDrasticHolds == WatchdogSpec => NothingDrasticWhenHealthy
<1>1. WatchdogTypeOK /\ BlameInv /\ [WatchdogNext]_watchdogVars
        => [pc' \in {"heal", "healNow", "crashed"} => sick']_watchdogVars
  BY BlameKept DEF BlameInv
<1>2. QED
  BY <1>1, BlameInitially, BlameKept, WatchdogTypeCorrect, PTL DEF WatchdogSpec, NothingDrasticWhenHealthy

----------------------------------------------------------------------------
\* A deaf spell is no older than the last decoded packet and the last action
\* of the silence watchdog, as far as their saturated ages tell.
SpellIsYoung ==
    /\ deafFor <= quiet \/ quiet = QuietLimit
    /\ deafFor <= sinceAction \/ sinceAction = MaxSilence

\* Between the watchdog's decision and the end of the pass either the
\* receiver hears again or the spell is young enough to last another pass.
DeafInv ==
    /\ dev => tuned
    /\ pc # "crashed" => deafFor <= DeafLimit
    /\ pc \notin {"crashed", "healNow", "put"} => SpellIsYoung
    /\ pc = "put" => Hearing \/ (SpellIsYoung /\ deafFor <= MaxSilence)

\* A fault begins a new spell, which is young whatever the ages are.
LEMMA FaultIsYoung ==
    ASSUME WatchdogTypeOK', deafFor' = 0
    PROVE  SpellIsYoung' /\ deafFor' <= MaxSilence /\ deafFor' <= DeafLimit
  BY DEF WatchdogTypeOK, SpellIsYoung, DeafLimit, QuietLimit

\* What leaves the spell and the ages alone leaves it young.
LEMMA YoungStays ==
    ASSUME SpellIsYoung, UNCHANGED <<deafFor, quiet, sinceAction>>
    PROVE  SpellIsYoung'
  BY DEF SpellIsYoung, QuietLimit

\* Every action of the watchdog leaves a receiver that hears, or a new fault.
LEMMA DeafKept ==
    ASSUME "common" \notin HealFaults, WatchdogTypeOK, WatchdogTypeOK', DeafInv, [WatchdogNext]_watchdogVars
    PROVE  DeafInv'
<1> USE DEF DeafInv
<1>1. CASE Receive
  <2>1. pc = "receive" /\ UNCHANGED <<dev, tuned, quiet, sinceAction>> /\ SpellIsYoung
    BY <1>1 DEF Receive, dongle, timers
  <2>2. UNCHANGED deafFor \/ deafFor' = 0
    BY <1>1 DEF Receive, BlockArrives, CallFails, Fault
  <2>3. pc' \in {"heal", "idle", "crashed"}
    BY <1>1 DEF Receive, BlockArrives, NoBlock
  <2>4. QED
    BY <2>1, <2>2, <2>3, FaultIsYoung, YoungStays DEF DeafLimit
<1>2. CASE Heal
  <2>1. PICK failed \in HealFaults \cup {"nowhere"} :
          /\ IF failed = "nowhere" THEN UNCHANGED <<faults, deafFor>> ELSE Fault
          /\ UsbReset(failed # "open") /\ Open(failed # "open")
          /\ Common(failed \notin {"open", "common"})
          /\ radio' = IF failed = "nowhere" THEN "rx" ELSE "idle"
          /\ pc' = IF pc = "healNow" THEN "put" ELSE IF failed = "nowhere" THEN "idle" ELSE "crashed"
    BY <1>2 DEF Heal
  <2>2. /\ pc = "heal" \/ pc = "healNow"
        /\ pc = "heal" => /\ quiet' = Up(quiet, QuietLimit)
                          /\ sinceAction' = Up(sinceAction, MaxSilence)
    BY <1>2 DEF Heal
  <2>3. CASE failed = "nowhere"
    <3>1. Hearing' /\ tuned' /\ UNCHANGED deafFor
      BY <2>1, <2>3 DEF UsbReset, Open, Common, Hearing, Answers
    <3>2. pc = "heal" => SpellIsYoung'
      BY <2>2, <3>1 DEF SpellIsYoung, WatchdogTypeOK, Up, QuietLimit, DeafLimit
    <3>3. QED
      BY <2>1, <2>2, <2>3, <3>1, <3>2 DEF DeafLimit
  <2>4. CASE failed # "nowhere"
    <3>1. failed \in {"open", "configure"} /\ deafFor' = 0
      BY <2>1, <2>4 DEF Fault
    <3>2. SpellIsYoung' /\ deafFor' <= MaxSilence /\ deafFor' <= DeafLimit
      BY <3>1, FaultIsYoung
    <3>3. dev' => tuned'
      BY <2>1, <3>1 DEF Open, Common
    <3>4. QED
      BY <3>2, <3>3
  <2>5. QED
    BY <2>3, <2>4
<1>3. CASE IdleCheck
  <2>1. /\ pc = "idle" /\ pc' \in {"watch", "strobe"}
        /\ UNCHANGED <<dev, tuned, quiet, sinceAction>>
    BY <1>3 DEF IdleCheck, dongle, driver
  <2>2. UNCHANGED deafFor \/ deafFor' = 0
    BY <1>3 DEF IdleCheck, CallFails, CallWorks, Fault
  <2>3. QED
    BY <2>1, <2>2, FaultIsYoung, YoungStays DEF DeafLimit
<1>4. CASE Strobe
  <2>1. pc = "strobe" /\ pc' = "watch" /\ UNCHANGED <<dev, tuned, quiet, sinceAction>>
    BY <1>4 DEF Strobe, driver
  <2>2. UNCHANGED deafFor \/ deafFor' = 0
    BY <1>4 DEF Strobe, CallFails, CallWorks, Fault
  <2>3. QED
    BY <2>1, <2>2, FaultIsYoung, YoungStays DEF DeafLimit
<1>5. CASE Silence
  <2>1. pc = "watch" /\ UNCHANGED <<usb, dev, tuned>>
    BY <1>5 DEF Silence, driver
  <2>2. UNCHANGED deafFor \/ deafFor' = 0
    BY <1>5 DEF Silence, ConfigureRx, DoesNotAnswer, CallFails, CallWorks, Fault
  <2>3. pc' = "healNow" \/ (pc' = "put" /\ Hearing')
    <3>1. (CallFails /\ pc' = "healNow") \/ ConfigureRx
      BY <1>5 DEF Silence, DoesNotAnswer
    <3>2. CallWorks /\ radio' = "rx" /\ deaf' = FALSE => Hearing'
      BY <2>1 DEF CallWorks, Hearing, Answers
    <3>3. QED
      BY <3>1, <3>2 DEF ConfigureRx
  <2>4. QED
    BY <2>1, <2>2, <2>3, FaultIsYoung
<1>6. CASE NotSilent
  <2>1. /\ pc = "watch" /\ pc' = "put" /\ ~Due
        /\ UNCHANGED <<dev, tuned, quiet, sinceAction, deafFor>>
    BY <1>6 DEF NotSilent, dongle, driver, timers
  <2>2. deafFor <= MaxSilence
    BY <2>1 DEF Due, SpellIsYoung, QuietLimit, WatchdogTypeOK, DeafLimit
  <2>3. QED
    BY <2>1, <2>2, YoungStays DEF DeafLimit
<1>7. CASE Put
  <2>1. /\ pc = "put" /\ pc' = "receive" /\ UNCHANGED <<dev, tuned>>
        /\ quiet' = Up(quiet, QuietLimit) /\ sinceAction' = Up(sinceAction, MaxSilence)
        /\ deafFor' = IF Hearing THEN 0 ELSE Up(deafFor, DeafLimit + 1)
    BY <1>7 DEF Put, dongle, driver
  <2>2. CASE Hearing
    BY <2>1, <2>2, FaultIsYoung
  <2>3. CASE ~Hearing
    <3>1. SpellIsYoung /\ deafFor <= MaxSilence /\ deafFor' = deafFor + 1
      BY <2>1, <2>3 DEF Up, WatchdogTypeOK, DeafLimit
    <3>2. SpellIsYoung' /\ deafFor' <= DeafLimit
      BY <2>1, <3>1 DEF SpellIsYoung, Up, WatchdogTypeOK, QuietLimit, DeafLimit
    <3>3. QED
      BY <2>1, <3>2
  <2>4. QED
    BY <2>2, <2>3
<1>8. CASE Decode
  <2>1. UNCHANGED <<usb, radio, dev, tuned, deaf, pc, sinceAction>>
    BY <1>8 DEF Decode, dongle, driver
  <2>2. deafFor' = 0 \/ UNCHANGED <<deafFor, quiet>>
    BY <1>8 DEF Decode
  <2>3. Hearing => Hearing'
    BY <2>1 DEF Hearing, Answers
  <2>4. QED
    BY <2>1, <2>2, <2>3, FaultIsYoung, YoungStays DEF DeafLimit
<1>9. CASE Stick \/ UsbTrouble \/ Deafen \/ CarrierChanges
  <2>1. UNCHANGED <<dev, tuned, pc, quiet, sinceAction>>
    BY <1>9 DEF Stick, UsbTrouble, Deafen, CarrierChanges, dongle, driver, timers
  <2>2. deafFor' = 0 \/ UNCHANGED <<usb, radio, deaf, deafFor>>
    BY <1>9 DEF Stick, UsbTrouble, Deafen, CarrierChanges, Fault, dongle
  <2>3. UNCHANGED <<usb, radio, deaf>> => (Hearing => Hearing')
    BY <2>1 DEF Hearing, Answers
  <2>4. QED
    BY <2>1, <2>2, <2>3, FaultIsYoung, YoungStays DEF DeafLimit
<1>10. CASE UNCHANGED watchdogVars
  BY <1>10, YoungStays DEF watchdogVars, dongle, driver, timers, Hearing, Answers, DeafLimit
<1>11. QED
  BY <1>1, <1>2, <1>3, <1>4, <1>5, <1>6, <1>7, <1>8, <1>9, <1>10 DEF WatchdogNext, Loop

\* However the watchdog's timers, the re-arm's carrier test and junk blocks
\* fall, a receiver that does not hear is brought back within the silence
\* limit and a pass -- provided that a reset dongle can be tuned
\* (RfcatRadio._common: configure_rx does not repeat it).
THEOREM DeafnessBounded ==
    ASSUME "common" \notin HealFaults
    PROVE  WatchdogSpec => []DeafnessIsBounded
<1>1. WatchdogInit => DeafInv
  BY DEF WatchdogInit, DeafInv, SpellIsYoung, DeafLimit
<1>2. WatchdogTypeOK /\ WatchdogTypeOK' /\ DeafInv /\ [WatchdogNext]_watchdogVars => DeafInv'
  BY DeafKept
<1>3. DeafInv => DeafnessIsBounded
  BY DEF DeafInv, DeafnessIsBounded
<1>4. QED
  BY <1>1, <1>2, <1>3, WatchdogTypeCorrect, PTL DEF WatchdogSpec

\* Shape and the bound on deafness together.
THEOREM WatchdogInvHolds ==
    ASSUME "common" \notin HealFaults
    PROVE  WatchdogSpec => []WatchdogInv
  BY WatchdogTypeCorrect, DeafnessBounded, PTL DEF WatchdogInv
=============================================================================
