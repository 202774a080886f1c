------------------------------ MODULE Process ------------------------------
(***************************************************************************)
(* What cli.monitor_main's process() does to one block after another: the  *)
(* decoding of Codec, the CommandTracker that reads an ACK in the table of *)
(* its query, the AllOnWatcher, and the rotating JsonlWriter, with the     *)
(* process killed and started again.  Run with --no-dedupe, so a packet is *)
(* written when it is handled; the queue in front of this and the Deduper  *)
(* behind it are Monitor's.  Records are numbers and all of one size.      *)
(***************************************************************************)
EXTENDS Codec

CONSTANTS
  Clean, Damaged,                      \* sequences of bursts; a damaged one is the only
                                       \* block of its behaviour
  TrackWindow,                         \* CommandTracker(window_s)
  KnownGroups, DeviceGroups,           \* AllOnWatcher
  HistoryWindow, StormCount, StormWindow, Cooldown,
  Backups, FileRecords,                \* --backups, and --max-bytes in records
  MaxBlocks, MaxKills, MaxTime         \* bounds

ASSUME ProcessAssumption ==
  /\ {TrackWindow, HistoryWindow, StormWindow, Cooldown, Backups} \subseteq Nat
  /\ {StormCount, FileRecords} \subseteq Nat \ {0} /\ {MaxBlocks, MaxKills, MaxTime} \subseteq Nat
  /\ Clean \in Seq(ToSet(Clean)) /\ Damaged \in Seq(ToSet(Damaged))

Burst == Clean \o Damaged              \* a burst is named by its number
NoBurst == 0

\* A burst: hop copies and replies that fall into one receive block, behind
\* some noise, its polarity as this receiver hands it over, the symbols noise
\* changed and the symbols received, both counted from the first header.
Packet(c) == Build(c.message, c.hops)
MainHeader(b) == Len(b.lead) + HeaderAfter
Air(b) ==
  LET whole == b.lead \o FlattenSeq([i \in DOMAIN b.copies |-> ToBits(Packet(b.copies[i]))])
      turned == IF b.inverted THEN whole ELSE Invert(whole)
      struck == [i \in DOMAIN turned |->
                   IF i - 1 - MainHeader(b) \in b.struck THEN 1 - turned[i] ELSE turned[i]]
  IN SubSeq(struck, 1, Least({Len(struck), MainHeader(b) + b.cut}))

ASSUME BurstsAreSymbols == \A b \in DOMAIN Burst : Air(Burst[b]) \in Seq({0, 1})

HeaderIndex(b) == IF b.off = NoIndex THEN NoIndex ELSE MainHeader(b) + b.off

\* The copies of a burst that were received up to their CRC.
Whole(b) ==
  LET begin[i \in 1..Len(b.copies)] ==
        IF i = 1 THEN 0 ELSE begin[i - 1] + Len(ToBits(Packet(b.copies[i - 1])))
      end(i) == begin[i] + MarkerOffset + FrameBits * (CrcIndex(Extended(Packet(b.copies[i]))) + 1)
  IN {b.copies[i] : i \in {i \in DOMAIN b.copies : end(i) <= b.cut}}

\* What is sent in a burst and what every receiver makes of it: packets up to
\* their CRC, and keys.
Sent(c) == [message |-> c.message, packet |-> UpToCrc(Packet(c)), key |-> MessageKey(Packet(c))]
Outcome(b) ==
  LET bits == Air(b)  capture == Published(bits, HeaderIndex(b))
      local == Decode(bits, HeaderIndex(b))
      valid(S) == {[packet |-> UpToCrc(q.data), key |-> MessageKey(q.data)] : q \in {q \in S : Valid(q)}}
  IN [local |-> local, heard |-> valid(ToSet(local)), mesh |-> valid(Sightings(Restored(capture))),
      gate |-> GateOk(capture.b), clean |-> \A i \in DOMAIN local : local[i].corrected = 0,
      sent |-> {Sent(b.copies[i]) : i \in DOMAIN b.copies}, whole |-> {Sent(c) : c \in Whole(b)}]
Outcomes == [b \in DOMAIN Burst |-> Outcome(Burst[b])]
Nothing == [local |-> <<>>]            \* when there is no block in hand

VARIABLES
  stamp, blocks, kills,        \* when the block in hand came in; blocks and kills so far
  block, got, todo,            \* the block in hand, what is made of it, and the first packet
                               \* of it still to handle
  queries,                     \* CommandTracker._queries
  history, groups, fired,      \* AllOnWatcher.history, ._recent_groups, ._last_fired
  files, next, rotating,       \* the log: file 0 and its backups; next record; where rotate() is
  seen, handled, alarms        \* since the process started: packets the tracker saw with the
                               \* table it gave them, packets handled, triggers found

context == <<queries, history, groups, fired>>
log == <<files, next, rotating>>
past == <<seen, handled, alarms>>
vars == <<stamp, blocks, kills, block, got, todo, context, log, past>>

Absent == <<-1>>
Idle == -1        \* no rotation under way

Init ==
  /\ stamp = 0 /\ blocks = 0 /\ kills = 0
  /\ block = NoBurst /\ got = Nothing /\ todo = 1
  /\ queries = {} /\ history = {} /\ groups = <<>> /\ fired = {}
  /\ rotating = Idle /\ seen = <<>> /\ handled = <<>> /\ alarms = {}
  /\ files = [n \in 0..Backups |-> IF n = 0 THEN <<>> ELSE Absent] /\ next = 1

(***************************************************************************)
(* CommandTracker.                                                         *)
(***************************************************************************)
From(p) == IF GroupBroadcast(p) THEN <<>> ELSE SubSeq(p, 5, 7)
To(p) == SubSeq(p, 2, 4)

\* Mutant: a query explains an ACK for ever.
MutLive(Q, t) == Q
Live(Q, t) == {q \in Q : t - q.at <= TrackWindow}

\* observe: a query is remembered, an ACK annotated; s is [queries, seen].
TrackOne(s, p, t) ==
  LET live == Live(s.queries, t)
      key == IF Ack(p) THEN <<To(p), From(p), p[8]>> ELSE <<From(p), To(p), p[8]>>
      hits == {q \in live : q.key = key}
      entry(table) == [key |-> key, ack |-> Ack(p), at |-> t, table |-> table]
      table == IF Extended(p) THEN "ext" ELSE "std"
  IN IF From(p) = <<>> THEN [s EXCEPT !.queries = live]
     ELSE IF Ack(p)
          THEN [queries |-> live, seen |-> Append(s.seen, entry(
                  IF hits = {} THEN "unknown" ELSE (CHOOSE q \in hits : TRUE).table))]
     ELSE [queries |-> (live \ hits) \cup {[key |-> key, at |-> t, table |-> table]},
           seen |-> Append(s.seen, entry(table))]

\* The tracker over the packets of a block.
Tracked(packets, t) ==
  LET after[i \in 0..Len(packets)] ==
        IF i = 0 THEN [queries |-> queries, seen |-> seen] ELSE TrackOne(after[i - 1], packets[i].data, t)
  IN after[Len(packets)]

Busy == todo <= Len(got.local)

\* A block comes off the queue, is published and decoded, and its packets
\* shown to the tracker.
Arrive(b, t) ==
  /\ ~Busy /\ rotating = Idle /\ blocks < MaxBlocks
  /\ b > Len(Clean) => blocks = 0        \* bound: a damaged block is the only one
  /\ blocks' = (IF b > Len(Clean) THEN MaxBlocks ELSE blocks + 1) /\ block' = b
  /\ got' = Outcomes[b] /\ todo' = 1 /\ stamp' = t
  /\ LET s == Tracked(got'.local, t) IN queries' = s.queries /\ seen' = s.seen
  /\ UNCHANGED <<kills, history, groups, fired, log, handled, alarms>>

(***************************************************************************)
(* AllOnWatcher.observe, then the record is written.                       *)
(***************************************************************************)
\* The list of what was seen is a set of numbered entries: its order is its numbers.
Expired(h) == {s \in h : s.at >= stamp - HistoryWindow}
Recent(p) == SelectSeq(Append(groups, [at |-> stamp, group |-> p[5]]), LAMBDA g : stamp - g.at <= StormWindow)

OnCommands == {17, 18}
Kinds(p) ==
  IF ~GroupBroadcast(p) THEN {} ELSE
    (IF p[5] = 0 THEN {"all-link-group-0"}
     ELSE IF p[5] \notin KnownGroups \cup DeviceGroups /\ p[8] \in OnCommands THEN {"unknown-group"} ELSE {})
    \cup (IF Len(Recent(p)) >= StormCount THEN {"storm"} ELSE {})
Signature(kind, p) == <<kind, To(p), p[5]>>

\* Mutant: a trigger that was swallowed starts the cooldown again.
MutFiredAfter(p) ==
  LET signatures == {Signature(k, p) : k \in Kinds(p)}
  IN {f \in fired : f.signature \notin signatures} \cup {[signature |-> g, at |-> stamp] : g \in signatures}

InCooldown(signature) == \E f \in fired : f.signature = signature /\ stamp - f.at < Cooldown
FiredAfter(p) ==
  LET fresh == {g \in {Signature(k, p) : k \in Kinds(p)} : ~InCooldown(g)}
  IN {f \in fired : f.signature \notin fresh} \cup {[signature |-> g, at |-> stamp] : g \in fresh}

Watched(p) ==
  /\ history' = Expired(history \cup {[n |-> next, at |-> stamp]})
  /\ groups' = IF ~GroupBroadcast(p) THEN groups ELSE IF "storm" \in Kinds(p) THEN <<>> ELSE Recent(p)
  /\ fired' = FiredAfter(p)
  /\ handled' = Append(handled, [at |-> stamp, packet |-> p])
  /\ alarms' = alarms \cup {[signature |-> g, at |-> stamp, n |-> Len(handled'), context |-> Cardinality(history')] :
                              g \in {g \in {Signature(k, p) : k \in Kinds(p)} : ~InCooldown(g)}}

Reopen == -2  \* rotate() has moved the files and has not yet opened the next

Written(f) == [files EXCEPT ![0] = Append(@, f)]
Handle ==
  /\ Busy /\ rotating = Idle
  /\ Watched(got.local[todo].data) /\ todo' = todo + 1
  /\ files' = Written(next) /\ next' = next + 1
  /\ rotating' = IF Len(files'[0]) < FileRecords THEN Idle ELSE IF Backups = 0 THEN Reopen ELSE Backups - 1
  /\ UNCHANGED <<stamp, blocks, kills, block, got, queries, seen>>

\* Mutant: a backup is copied, not moved.
MutMoved(n) == IF files[n] = Absent THEN files ELSE [files EXCEPT ![n + 1] = files[n]]

\* Path.replace: file n becomes file n + 1, whatever that held.
Moved(n) == IF files[n] = Absent THEN files ELSE [files EXCEPT ![n + 1] = files[n], ![n] = Absent]

Rotate ==
  /\ rotating # Idle
  /\ IF rotating = Reopen
     THEN files' = [files EXCEPT ![0] = IF @ = Absent THEN <<>> ELSE @] /\ rotating' = Idle
     ELSE files' = Moved(rotating) /\ rotating' = IF rotating = 0 THEN Reopen ELSE rotating - 1
  /\ UNCHANGED <<stamp, blocks, kills, block, got, todo, context, next, past>>

Forget ==
  /\ block' = NoBurst /\ got' = Nothing /\ todo' = 1
  /\ queries' = {} /\ history' = {} /\ groups' = <<>> /\ fired' = {}
  /\ rotating' = Idle /\ seen' = <<>> /\ handled' = <<>> /\ alarms' = {}

\* Killed and started again: the log is opened for appending, all else is gone.
Kill ==
  /\ kills < MaxKills /\ kills' = kills + 1 /\ Forget
  /\ files' = [files EXCEPT ![0] = IF @ = Absent THEN <<>> ELSE @]
  /\ UNCHANGED <<stamp, blocks, next>>

Next == (\E b \in DOMAIN Burst, t \in stamp..MaxTime : Arrive(b, t)) \/ Handle \/ Rotate \/ Kill
Spec == Init /\ [][Next]_vars

(***************************************************************************)
(* Properties.                                                             *)
(***************************************************************************)
TypeOK ==
  /\ stamp \in 0..MaxTime /\ blocks \in 0..MaxBlocks /\ kills \in 0..MaxKills
  /\ block \in {NoBurst} \cup DOMAIN Burst /\ rotating \in {Idle, Reopen} \cup 0..Backups
  /\ todo \in 1..Len(got.local) + 1 /\ (block = NoBurst => got = Nothing)
  /\ DOMAIN files = 0..Backups /\ next \in Nat \ {0}
  /\ files[0] = Absent => rotating = Reopen
  /\ \A q, x \in queries : q.key = x.key => q = x
  /\ \A f, g \in fired : f.signature = g.signature => f = g

Packets(S) == {x.packet : x \in S}
Keys(S) == {x.key : x \in S}
Struck(n) == block # NoBurst /\ Cardinality(Burst[block].struck) = n

\* parse_bits, "Extract every packet from one ASCII bit string (any polarity,
\* any alignment)": from an undamaged burst exactly the packets whose CRC was
\* received are heard, unrepaired, here and through the mesh; the mesh may
\* hear one more, of which the zeros that fill the capture's last byte were
\* the missing end.
PacketsParsed ==
  Struck(0) =>
    /\ Packets(got.heard) = Packets(got.whole) /\ got.clean
    /\ Packets(got.heard) \subseteq Packets(got.mesh) /\ Packets(got.mesh) \subseteq Packets(got.sent)

\* Which message a key is of: all hop copies of a message share it, no two
\* messages do, and the modem's frame of the message has it too.
PlmKeys == {[message |-> c.message, key |-> MessageKey(FromPlm(ToPlm(Packet(c))))] :
              c \in UNION {ToSet(b.copies) : b \in ToSet(Clean)}}
KeysTellMessages ==
  Struck(0) =>
    \A w \in got.whole, x \in got.heard, m \in PlmKeys :
       x.packet = w.packet => (x.key = m.key <=> w.message = m.message)

\* An undamaged burst is heard: its packets as they were sent, under the keys
\* of their messages.
CleanBurstIsHeard == PacketsParsed /\ KeysTellMessages


\* sightings_from_capture, "Frame it the way the receivers' own logs do": what
\* the receiver itself makes of a burst with no more than one repaired bit, the
\* mesh makes of its capture (RECOVER_MAX_FLIPS; the second bit a receiver
\* repairs is not tried again there), and of two wrong symbols it makes nothing
\* the receiver did not.
CaptureDecodesTheSame ==
  (\E n \in 0..2 : Struck(n)) =>
    /\ \A q \in ToSet(got.local) : Valid(q) /\ q.corrected <= 1 => MessageKey(q.data) \in Keys(got.mesh)
    /\ Keys(got.mesh) \subseteq Keys(IF Struck(2) THEN got.heard ELSE got.sent)

\* manchester_gate_ok_: a burst with up to two bad symbols which the host
\* decodes is one the board would have let through.
GatePassesRepairable == (\E n \in 0..2 : Struck(n)) /\ got.heard # {} => got.gate

\* What a receiver hears, of up to two wrong symbols, the gate of a board lets
\* through, and the mesh hears it too where one repaired bit is enough.
MeshHearsTheSame == CaptureDecodesTheSame /\ GatePassesRepairable

\* recover_packets, "``header_index`` skips the header search when the sync
\* correlator already located the frame grid": a burst with one wrong symbol
\* of which the header was located is heard.
HeaderIndexFindsIt == Struck(1) /\ Burst[block].off = 0 => Keys(got.heard) = Keys(got.sent)

\* context.py: an ACK is read in the table of the query it answers - the last
\* one heard with its command from the device it goes to, within the window -
\* and in none when there was none.
AcksReadInTheirTable ==
  \A i \in DOMAIN seen : seen[i].ack =>
    LET asked == {j \in 1..i - 1 : ~seen[j].ack /\ seen[j].key = seen[i].key
                                   /\ seen[i].at - seen[j].at <= TrackWindow}
    IN IF asked = {} THEN seen[i].table = "unknown"
       ELSE \E j \in asked : seen[i].table = seen[j].table /\ \A k \in asked : k <= j

\* allon.py: every group-0 broadcast is reported, by an alarm of its own or one
\* within the cooldown before it, its copies and repeats within the cooldown
\* once, and the report's context is the history window, whole and nothing else.
EveryAllOnReportedOnce ==
  /\ \A i \in DOMAIN handled :
        LET p == handled[i].packet IN
        GroupBroadcast(p) /\ p[5] = 0 =>
          \E a \in alarms : /\ a.signature = Signature("all-link-group-0", p) /\ a.n <= i
                            /\ a.n = i \/ handled[i].at - a.at < Cooldown
  /\ \A a, b \in alarms : a.signature = b.signature /\ a.n < b.n => b.at - a.at >= Cooldown
  /\ \A a \in alarms :
        a.context = Cardinality({i \in 1..a.n : handled[i].at >= a.at - HistoryWindow})

\* JsonlWriter: read from the oldest backup to the file being written, the log
\* is the last records in order, without a hole or a repeat, wherever the
\* process was killed; a kill costs at most one file of them, and no file
\* grows past its size but for what a kill left in it.
Held == {n \in 0..Backups : files[n] # Absent}
RotationKeepsTheTail ==
  \E first \in 1..next :
    /\ UNION {ToSet(files[n]) : n \in Held} = first..next - 1
    /\ \A n \in Held : \A i, j \in DOMAIN files[n] : i < j => files[n][i] < files[n][j]
    /\ \A n, m \in Held : m < n =>
          \A i \in DOMAIN files[n], j \in DOMAIN files[m] : files[n][i] < files[m][j]
    /\ Backups > 0 => /\ next - first >= Least({next - 1, FileRecords * (Backups - kills)})
                      /\ \A n \in Held : Len(files[n]) <= FileRecords + kills

\* The shape of the state, and the log that survives rotation and kills.
ProcessInv == TypeOK /\ RotationKeepsTheTail
=============================================================================
