------------------------------- MODULE Codec -------------------------------
(***************************************************************************)
(* What is on the air and what is made of it: packets, their 28-bit frames *)
(* and Manchester pairs (packet.py), the decoding with repair of           *)
(* recover.py and cli._decode, the burst as it is published to the mesh    *)
(* and put together again (monitor.py, radio/mqtt.py), the listener        *)
(* boards' Manchester gate, and the modem's own frames (plm.py).           *)
(*                                                                         *)
(* Symbols are 0 and 1, hard decisions of equal confidence: the graded     *)
(* confidence of an SDR is left out.  Positions in a burst count from 0.   *)
(***************************************************************************)
EXTENDS Integers, Sequences, FiniteSets, SequencesExt

CONSTANTS
  GateFrames, GateErrors   \* manchester_gate_, manchester_gate_errors_

ASSUME CodecAssumption == GateFrames \in Nat /\ GateErrors \in Nat

(***************************************************************************)
(* A packet is the sequence of its bytes, the flags first.                 *)
(***************************************************************************)
Least(S) == CHOOSE x \in S : \A y \in S : x <= y
BitOf(b, n) == (b \div 2^n) % 2
Nibbles == [a, b \in 0..15 |-> (IF BitOf(a, 0) = BitOf(b, 0) THEN 0 ELSE 1)
                             + (IF BitOf(a, 1) = BitOf(b, 1) THEN 0 ELSE 2)
                             + (IF BitOf(a, 2) = BitOf(b, 2) THEN 0 ELSE 4)
                             + (IF BitOf(a, 3) = BitOf(b, 3) THEN 0 ELSE 8)]
Xor(a, b) == 16 * Nibbles[a \div 16, b \div 16] + Nibbles[a % 16, b % 16]

ExtendedFlag(flags) == BitOf(flags, 4) = 1
Extended(p) == ExtendedFlag(p[1])
Ack(p) == BitOf(p[1], 5) = 1
GroupBroadcast(p) == BitOf(p[1], 6) = 1 /\ BitOf(p[1], 7) = 1
HopsLeft(p) == (p[1] \div 4) % 4
HopsOk(p) == HopsLeft(p) <= p[1] % 4
HopsMasked(p) == [p EXCEPT ![1] = @ - 4 * HopsLeft(p)]

FrameBits == 28
MarkerOffset == 5
CrcIndex(extended) == IF extended THEN 23 ELSE 9
Frames(extended) == IF extended THEN 32 ELSE 13

CrcTable == <<0, 48, 96, 80, 192, 240, 160, 144, 128, 176, 224, 208, 64, 112, 32, 16>>

PktCrc(p) ==
  LET n == Least({CrcIndex(Extended(p)), Len(p)})
      r[i \in 0..n] == IF i = 0 THEN 0 ELSE LET x == Xor(r[i - 1], p[i]) IN Xor(x, CrcTable[(x % 16) + 1])
  IN r[n]

\* The data checksum: bytes 7 to 21, which are p[8] to p[22].
ExtCrc(p) == LET sum[n \in 7..22] == IF n = 7 THEN 0 ELSE sum[n - 1] + p[n]
             IN (256 - (sum[22] % 256)) % 256

\* Packet.crc_ok: the packet CRC alone.
CrcMatches(p) == Len(p) > CrcIndex(Extended(p)) /\ p[CrcIndex(Extended(p)) + 1] = PktCrc(p)

\* recover._crc_ok.
CrcOk(p, extended) ==
  /\ Len(p) > CrcIndex(extended) /\ p[CrcIndex(extended) + 1] = PktCrc(p)
  /\ extended => p[23] = ExtCrc(p)

\* A packet as far as its CRC; what follows is padding and is often cut short.
UpToCrc(p) == SubSeq(p, 1, Least({Len(p), CrcIndex(Extended(p)) + 1}))

Pad(n, extended) == IF extended THEN [i \in 1..32 - n |-> 170] ELSE <<0, 0, 170>>

NoGroup == -1
\* An address is written high byte first and sent low byte first.
Wire(address) == Reverse(address)

\* m.group is NoGroup for a direct message; m.data is the extended data, if any.
Build(m, hopsLeft) ==
  LET extended == m.data # <<>>
      flags == m.maxHops + 4 * hopsLeft + (IF extended THEN 16 ELSE 0) + (IF m.ack THEN 32 ELSE 0)
               + (IF m.group # NoGroup THEN 64 ELSE 0) + (IF m.bcast THEN 128 ELSE 0)
      slots == IF m.group # NoGroup THEN Wire(m.src) \o <<m.group, 0, 0>>
                              ELSE Wire(m.dst) \o Wire(m.src)
      body == <<flags>> \o slots \o <<m.cmd1, m.cmd2>> \o m.data
      checked == IF extended THEN Append(body, ExtCrc(body)) ELSE body
      packet == Append(checked, PktCrc(checked))
  IN packet \o Pad(Len(packet), extended)

(***************************************************************************)
(* Frames: the marker 11, five index bits and eight data bits, both low    *)
(* bit first and Manchester coded.                                         *)
(***************************************************************************)
Index(f, extended) == IF f = 0 THEN 31 ELSE (IF extended THEN 30 ELSE 11) - (f - 1)

\* A logical 0 is sent as 10, a 1 as 01.
Coded(bit, half) == IF half = 0 THEN 1 - bit ELSE bit
Manchester(bits) == [i \in 1..2 * Len(bits) |-> Coded(bits[(i + 1) \div 2], (i + 1) % 2)]
Invert(bits) == [i \in DOMAIN bits |-> 1 - bits[i]]

Preamble == Manchester([i \in 1..10 |-> (i + 1) % 2])
Trailer  == Manchester([i \in 1..48 |-> (i + 1) % 2])
StartHeader == <<1, 1, 0, 0, 1, 1, 1, 0, 1, 0, 1, 0, 1, 0, 1, 0>>
HeaderAfter == Len(Preamble) - MarkerOffset  \* where the start header begins

\* On the air everything is inverted.
ToBits(p) ==
  LET frame(f) == [k \in 0..12 |-> IF k < 5 THEN BitOf(Index(f, Extended(p)), k)
                                            ELSE BitOf(p[f + 1], k - 5)]
      frames == [f \in 0..Len(p) - 1 |-> frame(f)]
      body == [i \in 1..FrameBits * Len(p) |->
                 LET f == (i - 1) \div FrameBits  k == (i - 1) % FrameBits
                 IN IF k < 2 THEN 1 ELSE Coded(frames[f][(k - 2) \div 2], k % 2)]
      bits == Preamble \o body \o Trailer
  IN Invert(bits \o SubSeq(Trailer, 1, (8 - (Len(bits) % 8)) % 8))

(***************************************************************************)
(* Reading symbols back.                                                   *)
(***************************************************************************)
HeaderAt(bits, i, h) == \A k \in 1..16 : bits[i + k] = h[k]
HeadersIn(bits, h) == {i \in 0..Len(bits) - 16 : HeaderAt(bits, i, h)}

\* Mutant: the polarity is left as it came.
MutFindHeaders(bits) == [bits |-> bits, at |-> HeadersIn(bits, StartHeader)]

\* No two start headers overlap, so all of them are found.
FindHeaders(bits) ==
  LET a == HeadersIn(bits, StartHeader)  b == HeadersIn(bits, Invert(StartHeader))
  IN IF b # {} /\ (a = {} \/ Least(b) < Least(a)) THEN [bits |-> Invert(bits), at |-> b]
                                                  ELSE [bits |-> bits, at |-> a]

\* Frame f of the packet whose header is at pos begins here.
FrameAt(pos, f) == pos + MarkerOffset + FrameBits * f
InLine(bits, pos) == (Len(bits) - pos - MarkerOffset) \div FrameBits

\* The difference of a pair decides; a pair of equal symbols is illegal and reads 0.
Pair(bits, at, k) == <<bits[at + 3 + 2 * k], bits[at + 4 + 2 * k]>>
Logical(bits, at) == [k \in 0..12 |-> IF Pair(bits, at, k) = <<0, 1>> THEN 1 ELSE 0]
Illegal(bits, at) == {k \in 0..12 : Pair(bits, at, k)[1] = Pair(bits, at, k)[2]}
Counter(v) == v[0] + 2 * v[1] + 4 * v[2] + 8 * v[3] + 16 * v[4]
Byte(v) == v[5] + 2 * v[6] + 4 * v[7] + 8 * v[8] + 16 * v[9] + 32 * v[10] + 64 * v[11] + 128 * v[12]

\* decode_frames stops at the first bad marker, illegal pair or index 0.
Parse(bits, pos) ==
  LET v == [f \in 0..InLine(bits, pos) - 1 |-> Logical(bits, FrameAt(pos, f))]
      broken(f) == LET at == FrameAt(pos, f)
                   IN bits[at + 1] # 1 \/ bits[at + 2] # 1 \/ Illegal(bits, at) # {}
      n == Least({InLine(bits, pos)} \cup {f \in DOMAIN v : broken(f)}
                 \cup {f + 1 : f \in {g \in DOMAIN v : Counter(v[g]) = 0}})
      data == [f \in 1..n |-> Byte(v[f - 1])]
  IN [at |-> pos, data |-> data, corrected |-> 0,
      indexOk |-> n > 0 /\ \A f \in 0..n - 1 : Counter(v[f]) = Index(f, Extended(data))]

\* parse_bits: every header, fragments of fewer than four bytes dropped.
ParseBits(bits) ==
  LET found == FindHeaders(bits)
  IN {q \in {Parse(found.bits, pos) : pos \in found.at} : Len(q.data) >= 4}

Tries(n, maxFlips) ==
  1..n \cup (IF maxFlips < 2 THEN {} ELSE {11 * q[1] + q[2] : q \in {q \in (1..n) \X (1..n) : q[1] < q[2]}})

\* _recover_at: the flags byte says how long the packet is, the counters and
\* the CRC whether it is one.  A repair may change data bits whose pair was
\* illegal, and must leave no counter wrong.
RecoverAt(bits, pos, maxFlips, candidates) ==
  IF InLine(bits, pos) < 1 THEN {} ELSE
  LET extended == ExtendedFlag(Byte(Logical(bits, FrameAt(pos, 0))))
      n == Least({Frames(extended), InLine(bits, pos)})
      v == [f \in 0..n - 1 |-> Logical(bits, FrameAt(pos, f))]
      data == [f \in 1..n |-> Byte(v[f - 1])]
      wrong == {f \in 0..n - 1 : Counter(v[f]) # Index(f, extended)}
      ill == UNION {{FrameBits * f + k : k \in Illegal(bits, FrameAt(pos, f)) \cap 5..12} : f \in 0..n - 1}
      rank(x) == Cardinality({y \in ill : y <= x})
      flipped(t) == {x \in ill : rank(x) \in {t % 11, t \div 11}}
      tried(t) == [f \in 1..n |-> Byte([k \in 0..12 |->
                     IF FrameBits * (f - 1) + k \in flipped(t) THEN 1 - v[f - 1][k] ELSE v[f - 1][k]])]
      good == {t \in Tries(Least({Cardinality(ill), candidates}), maxFlips) : CrcOk(tried(t), extended)}
      packet(d, corrected) == IF HopsOk(d) THEN {[at |-> pos, data |-> d, corrected |-> corrected, indexOk |-> TRUE]}
                                           ELSE {}
  IN IF Cardinality(wrong) > 1 THEN {}
     ELSE IF CrcOk(data, extended) THEN packet(data, 0)
     ELSE IF wrong # {} \/ good = {} THEN {}
     ELSE packet(tried(Least(good)), IF Least(good) > 10 THEN 2 ELSE 1)

NoIndex == -1  \* no header_index: a hardware demodulator
HeaderSnap == 8
MaxFlips == 2
Candidates == 10

\* Of equal packets the first.
FirstOfEach(S) == {q \in S : \A x \in S : x.data = q.data => q.at <= x.at}

\* recover_packets: a header that only the SDR's correlator located comes first,
\* then the exact ones.
Recovered(bits, index) ==
  LET found == FindHeaders(bits)
      place(pos) == IF pos \in found.at THEN pos ELSE -1
  IN FirstOfEach({[q EXCEPT !.at = place(q.at)] :
       q \in UNION {RecoverAt(found.bits, pos, MaxFlips, Candidates) :
                      pos \in found.at \cup ({index} \ {NoIndex})}})

\* The packets of S, one per header, in their order.
InOrder(S) == [i \in 1..Cardinality(S) |-> CHOOSE q \in S : Cardinality({x \in S : x.at <= q.at}) = i]

\* _decode: what recover_packets finds, then what parse_bits finds besides
\* and has the bytes a CRC is computed over, its CRC right or wrong.
Decode(bits, index) ==
  LET recovered == Recovered(bits, index)
      kept == {q \in ParseBits(bits) : Len(q.data) >= CrcIndex(Extended(q.data)) /\ q.indexOk}
      repeated(q) == \E x \in recovered \cup kept :
                        UpToCrc(x.data) = UpToCrc(q.data) /\ (x \in recovered \/ x.at < q.at)
  IN InOrder(recovered) \o InOrder({q \in kept : ~repeated(q)})

(***************************************************************************)
(* The mesh: MqttPublisher.publish_capture ships what follows the first    *)
(* header and names the header; Capture.from_payload puts it back.         *)
(***************************************************************************)
AnyHeaderAt(bits, i) == HeaderAt(bits, i, StartHeader) \/ HeaderAt(bits, i, Invert(StartHeader))
Distance(i, k) == IF i < k THEN k - i ELSE i - k
WholeBytes(bits) == bits \o [i \in 1..(8 - (Len(bits) % 8)) % 8 |-> 0]

\* An exact header near the correlator's wins, the correlator's place in the
\* polarity its symbols are nearer is the fallback.
PublishedHeader(bits, index) ==
  LET near == {i \in 0..Len(bits) - 16 : Distance(i, index) <= HeaderSnap /\ AnyHeaderAt(bits, i)}
      all == {i \in 0..Len(bits) - 16 : AnyHeaderAt(bits, i)}
      nearest == {i \in near : \A j \in near : Distance(i, index) <= Distance(j, index)}
      wrong == Cardinality({k \in 1..16 : bits[index + k] = StartHeader[k]})
      exact(i) == [at |-> i, sw |-> IF HeaderAt(bits, i, StartHeader) THEN StartHeader ELSE Invert(StartHeader)]
  IN IF index # NoIndex /\ index <= Len(bits) - 16
     THEN IF near # {} THEN exact(Least(nearest))
          ELSE [at |-> index, sw |-> IF wrong > 8 THEN StartHeader ELSE Invert(StartHeader)]
     ELSE IF all # {} THEN exact(Least(all))
     ELSE [at |-> -16, sw |-> Invert(StartHeader)]

Published(bits, index) ==
  LET h == PublishedHeader(bits, index)
  IN [sw |-> h.sw, b |-> WholeBytes(SubSeq(bits, h.at + 17, Len(bits)))]

\* Mutant: the header goes back in one polarity, whatever the capture says.
MutRestored(c) == Invert(StartHeader) \o c.b

\* with_sync_header.
Restored(c) == IF Len(c.b) >= 16 /\ AnyHeaderAt(c.b, 0) THEN c.b ELSE c.sw \o c.b

\* sightings_from_capture: each header decoded hard, else recovered.
Sightings(bits) ==
  LET found == FindHeaders(bits)
      at(pos) == LET hard == Parse(found.bits, pos)
                     rec == RecoverAt(found.bits, pos, 1, 8)
                 IN IF Len(hard.data) >= 4 /\ hard.indexOk /\ CrcMatches(hard.data) THEN {hard}
                    ELSE IF rec # {} THEN rec
                    ELSE IF Len(hard.data) >= 4 THEN {hard} ELSE {}
  IN UNION {at(pos) : pos \in found.at}

\* The places where a listener board's gate finds what its radio recorded
\* after the sync word wrong: two equal symbols where a pair should be, or a
\* marker of two different ones.
GateBad(fifo) ==
  LET equal(i) == fifo[i + 1] = fifo[i + 2]
      base(k) == 17 + FrameBits * k
      checked == {k \in 0..GateFrames - 2 : base(k) + FrameBits <= Len(fifo)}
  IN {j \in {1 + 2 * i : i \in 0..7} : equal(j)}
     \cup {base(k) : k \in {k \in checked : ~equal(base(k))}}
     \cup UNION {{j \in {base(k) + 2 + 2 * i : i \in 0..12} : equal(j)} : k \in checked}

GateOk(fifo) == Len(fifo) >= 17 /\ Cardinality(GateBad(fifo)) <= GateErrors

(***************************************************************************)
(* The modem's frames: <<2, code>>, from, to, flags, commands, data.       *)
(***************************************************************************)
\* What to_plm_bytes accepts.
Valid(q) == q.indexOk /\ HopsOk(q.data) /\ CrcMatches(q.data)

ToPlm(p) ==
  LET slot1 == Wire(SubSeq(p, 2, 4))  slot2 == Wire(SubSeq(p, 5, 7))
  IN <<2, IF Extended(p) THEN 81 ELSE 80>>
     \o (IF GroupBroadcast(p) THEN slot1 \o slot2 ELSE slot2 \o slot1)
     \o <<p[1], p[8], p[9]>> \o (IF Extended(p) THEN SubSeq(p, 10, 23) ELSE <<>>)

FromPlm(f) ==
  LET from == Wire(SubSeq(f, 3, 5))  to == Wire(SubSeq(f, 6, 8))  extended == f[2] = 81
      flags == f[9]
      body == <<flags>> \o (IF BitOf(flags, 6) = 1 /\ BitOf(flags, 7) = 1 THEN from \o to ELSE to \o from)
              \o <<f[10], f[11]>> \o (IF extended THEN SubSeq(f, 12, 25) ELSE <<>>)
      packet == Append(body, PktCrc(body))
  IN packet \o Pad(Len(packet), extended)

\* The identity of a message: its bytes before the CRC, hops-left masked out.
MessageKey(p) == HopsMasked(SubSeq(p, 1, Least({Len(p), CrcIndex(Extended(p))})))
=============================================================================
