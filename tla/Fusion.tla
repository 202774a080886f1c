------------------------------- MODULE Fusion -------------------------------
(***************************************************************************)
(* fusion.py's Fusion and _Bucket: sightings of Insteon messages from      *)
(* several receivers are grouped into buckets by message key and on-air    *)
(* time, and a closed bucket becomes one fused event.                      *)
(*                                                                         *)
(* Two clocks: a copy's when is on-air time, clock is the arrival time the *)
(* service passes to pop_ready.  The environment transmits messages and    *)
(* delivers copies of them: any hop, up to Spread after the start of the   *)
(* transmission, up to MaxLag late, intact or damaged.                     *)
(*                                                                         *)
(* A key is [msg, dmg]: dmg = 0 for the real bytes, otherwise the wrong    *)
(* bytes a damaged decode gives.  Two captures are within                  *)
(* MAX_DISAGREEMENTS bits of each other iff they are of one message at one *)
(* hop (the hop field and its CRC differ in 16 symbols, _emit says).  No   *)
(* copy has impossible hop fields, and clock correction is off             *)
(* (skew = None).  pop_ready is PopReady followed by one Emit step per     *)
(* closed bucket; nothing else runs in between, but the wall clock.  The   *)
(* last of these steps sorts the call's events and returns them.           *)
(***************************************************************************)
EXTENDS Integers, FiniteSets

CONSTANTS
    Message,        \* message keys (hop-insensitive)
    Hop,            \* values of the hops-left field
    Kind,           \* of copies: subset of {"good", "crc", "damaged"}
    Window,         \* window_s
    Extend,         \* extend_s
    MaxWindow,      \* max_window_s
    Lateness,       \* lateness_s
    RepeatMemory,   \* repeat_memory_s
    AllowCombine,   \* allow_combine
    Gap,            \* environment: least time between sendings of one message
    Spread,         \* environment: latest copy after the start of a sending
    MaxLag,         \* environment: slowest capture-to-arrival delay
    MaxSent,        \* bound: transmissions
    MaxCopies,      \* bound: copies delivered
    MaxTime         \* bound: the clock stops here

ASSUME FusionAssumption ==
    /\ Kind \subseteq {"good", "crc", "damaged"}
    /\ Window \in Nat /\ Extend \in Nat /\ MaxWindow \in Nat
    /\ Lateness \in Nat /\ RepeatMemory \in Nat
    /\ AllowCombine \in BOOLEAN
    /\ Gap \in Nat /\ Spread \in Nat /\ MaxLag \in Nat
    /\ MaxSent \in Nat /\ MaxCopies \in Nat /\ MaxTime \in Nat

VARIABLES
    clock,      \* time.time()
    sent,       \* environment: the transmissions [n, msg, at]
    copies,     \* environment: how many copies were delivered
    open,       \* _open, a set of buckets; slot is the dictionary key
    ready,      \* _ready: buckets a newer transmission has ended
    closed,     \* _closed, a set of [key, at, index, first, last]
    done,       \* the buckets _emit still has to finish, [bucket, pos]
    popAt,      \* the now of the pop_ready or flush under way
    stopped,    \* flush() was called: shutdown
    late,       \* the copies counted in Fusion.late
    events,     \* history: the events _finish has numbered, n-th first
    handed      \* history: the place of an event among all those returned

vars == <<clock, sent, copies, open, ready, closed, done, popAt, stopped, late, events, handed>>

Time == 0..MaxTime
Key  == [msg: Message, dmg: {0, 1}]
Copy == [id: 1..MaxCopies, tx: 1..MaxSent, key: Key, hop: Hop, good: BOOLEAN,
         when: Nat, arrived: Time]
Ref  == [msg: Message, hop: Hop]
----------------------------------------------------------------------------
MaxOf(a, b) == IF a >= b THEN a ELSE b
MinOf(a, b) == IF a <= b THEN a ELSE b

RealKey(m) == [msg |-> m, dmg |-> 0]
RefOf(c)   == [msg |-> c.key.msg, hop |-> c.hop]

\* Mutant: max_window_s forgotten, a chain of copies holds a bucket open.
DeadlineUncapped(b) ==
    b.last + Window + Extend * (Cardinality(b.copies) - 1)

\* _Bucket.deadline: the latest on-air time of a copy that still belongs here.
Deadline(b) == MinOf(b.last + Window + Extend * (Cardinality(b.copies) - 1),
                     b.opened + MaxWindow)

\* _Bucket.accepts
Accepts(b, when) == b.opened - Window <= when /\ when <= Deadline(b)

NewBucket(c) == [slot |-> c.key, key |-> c.key, copies |-> {c}, opened |-> c.when,
                 last |-> c.when, good |-> c.good, ref |-> RefOf(c)]

\* Mutant: a copy from earlier does not move the start of the bucket.
AddToKeepsOpened(b, c, ref) ==
    [b EXCEPT !.copies = @ \cup {c},
              !.last   = MaxOf(@, c.when),
              !.ref    = ref,
              !.good   = @ \/ c.good,
              !.key    = IF c.good THEN c.key ELSE @]

\* _Bucket.add; ref is the longer of the two captures.
AddTo(b, c, ref) ==
    [b EXCEPT !.copies = @ \cup {c},
              !.opened = MinOf(@, c.when),
              !.last   = MaxOf(@, c.when),
              !.ref    = ref,
              !.good   = @ \/ c.good,
              !.key    = IF c.good THEN c.key ELSE @]

\* A whole bucket folded into another: its copies added one by one.  None of
\* them is good, so the key stays.
Fold(b, u, ref) ==
    [b EXCEPT !.copies = @ \cup u.copies,
              !.opened = MinOf(@, u.opened),
              !.last   = MaxOf(@, u.last),
              !.ref    = ref]

\* The on-air span of an emitted event, widened by the window.
Covers(s, when) == s.first - Window <= when /\ when <= s.last + Window

\* _is_straggler: a verified copy of a message whose event has gone.
Straggler(c) == c.good /\ \E s \in closed : s.key = c.key /\ Covers(s, c.when)

\* _nearest: the open buckets similar enough; two verified packets never are.
Nearby(c, buckets) ==
    {b \in buckets : /\ ~(c.good /\ b.good)
                     /\ Accepts(b, c.when)
                     /\ b.ref = RefOf(c)}
----------------------------------------------------------------------------
(* The environment *)

Init ==
    /\ clock = 0 /\ sent = {} /\ copies = 0
    /\ open = {} /\ ready = {} /\ closed = {} /\ done = {}
    /\ popAt = 0 /\ stopped = FALSE
    /\ late = {} /\ events = {} /\ handed = <<>>

Tick ==
    /\ clock < MaxTime
    /\ clock' = clock + 1
    /\ UNCHANGED <<sent, copies, open, ready, closed, done, popAt, stopped, late, events, handed>>

Transmit(m) ==
    /\ Cardinality(sent) < MaxSent
    /\ \A t \in sent : t.msg = m => clock - t.at >= Gap
    /\ sent' = sent \cup {[n |-> Cardinality(sent) + 1, msg |-> m, at |-> clock]}
    /\ UNCHANGED <<clock, copies, open, ready, closed, done, popAt, stopped, late, events, handed>>

\* A copy of transmission t as it reaches Fusion.add.
CopyOf(t, off, hop, kind) ==
    [id |-> copies + 1, tx |-> t.n,
     key |-> [msg |-> t.msg, dmg |-> IF kind = "damaged" THEN 1 ELSE 0],
     hop |-> hop, good |-> kind = "good", when |-> t.at + off, arrived |-> clock]

Deliverable(c) == c.when <= clock /\ clock - c.when <= MaxLag
----------------------------------------------------------------------------
(* Fusion.add *)

\* The exact key is open and the copy falls into its window.
JoinExact(c) ==
    \E b \in open :
        /\ b.slot = c.key /\ Accepts(b, c.when)
        /\ \E ref \in {b.ref, RefOf(c)} : open' = (open \ {b}) \cup {AddTo(b, c, ref)}
        /\ UNCHANGED <<ready, late>>

\* No exact bucket takes it: the most similar open bucket, or one of its own.
Place(c, buckets) ==
    LET near == IF AllowCombine THEN Nearby(c, buckets) ELSE {} IN
    \/ \E b \in near : open' = (buckets \ {b}) \cup {AddTo(b, c, b.ref)}
    \/ near = {} /\ open' = buckets \cup {NewBucket(c)}

\* The exact key is open but past its window: a retransmission ends it.
EndOlder(c) ==
    \E b \in open :
        /\ b.slot = c.key /\ ~Accepts(b, c.when)
        /\ ready' = ready \cup {b}
        /\ Place(c, open \ {b})
        /\ UNCHANGED late

NoExact(c) == \A b \in open : b.slot # c.key

CountLate(c) ==
    /\ NoExact(c) /\ Straggler(c)
    /\ late' = late \cup {c}
    /\ UNCHANGED <<open, ready>>

OpenNew(c) ==
    /\ NoExact(c) /\ ~Straggler(c)
    /\ Place(c, open)
    /\ UNCHANGED <<ready, late>>

Add(c) ==
    /\ done = {} /\ ~stopped
    /\ copies < MaxCopies /\ Deliverable(c)
    /\ copies' = copies + 1
    /\ JoinExact(c) \/ EndOlder(c) \/ CountLate(c) \/ OpenNew(c)
    /\ UNCHANGED <<clock, sent, closed, done, popAt, stopped, events, handed>>
----------------------------------------------------------------------------
(* pop_ready, flush and _emit *)

\* Mutant: the bucket is closed without waiting for late receivers.
IsClosedEarly(b, t) == t > Deadline(b)

\* Mutant: the lateness allowance is taken off twice.
IsClosedLate(b, t) == t - 2 * Lateness > Deadline(b)

\* _Bucket.is_closed, asked lateness_s in the past.
IsClosed(b, t) == t - Lateness > Deadline(b)

\* Mutant: the buckets are not sorted before they are built and numbered.
ToEmitUnsorted(buckets) == {[bucket |-> b, pos |-> 0] : b \in buckets}

\* The closed buckets, to be gone through in the order they were opened.
ToEmit(buckets) == {[bucket |-> b, pos |-> b.opened] : b \in buckets}

PopReady ==
    /\ done = {} /\ ~stopped
    /\ closed' = {s \in closed : clock - s.at <= RepeatMemory}
    /\ LET over == {b \in open : IsClosed(b, clock)} IN
          /\ ready \cup over # {} \/ closed' # closed
          /\ done' = ToEmit(ready \cup over)
          /\ open' = open \ over
    /\ ready' = {}
    /\ popAt' = clock
    /\ UNCHANGED <<clock, sent, copies, stopped, late, events, handed>>

\* Mutant: only the open buckets are flushed.
FlushedOpenOnly == open

\* The buckets flush() closes.
Flushed == ready \cup open

Flush ==
    /\ done = {} /\ ~stopped
    /\ stopped' = TRUE
    /\ done' = ToEmit(Flushed)
    /\ open' = {} /\ ready' = {}
    /\ popAt' = clock
    /\ UNCHANGED <<clock, sent, copies, closed, late, events, handed>>

\* The number _finish gives the next event of a key.
RepeatIndex(key) ==
    IF \E s \in closed : s.key = key
    THEN (CHOOSE s \in closed : s.key = key).index + 1
    ELSE 0

\* _finish: number the event and remember its key.
Finish(b, key, verified) ==
    LET index == RepeatIndex(key) IN
    /\ closed' = {s \in closed : s.key # key}
                 \cup {[key |-> key, at |-> popAt, index |-> index,
                        first |-> b.opened, last |-> b.last]}
    /\ events' = events \cup
          {[n |-> Cardinality(events) + 1, key |-> key, copies |-> b.copies,
            index |-> index, first |-> b.opened, verified |-> verified, at |-> popAt]}

\* The next bucket in the order of _emit's two passes.
FirstOf(e, S) == e \in S /\ \A f \in S : e.pos <= f.pos
Unverified    == {e \in done : ~e.bucket.good}

\* combine() found nothing (or is off): the event keeps its doubtful key.
EmitDamaged(e) ==
    /\ FirstOf(e, Unverified)
    /\ Finish(e.bucket, e.bucket.key, FALSE)
    /\ done' = done \ {e}
    /\ UNCHANGED <<open, late>>

\* combine() repaired it: fold it into its message's bucket if there is one,
\* pending or still open, count it late if that event has gone, else emit it.
EmitRepaired(e) ==
    LET u     == e.bucket
        key   == RealKey(u.key.msg)
        homes == {h \in done : /\ h.bucket.good /\ h.bucket.key = key
                               /\ Accepts(h.bucket, u.opened)}
        live  == {b \in open : b.slot = key /\ Accepts(b, u.opened)}
        gone  == \E s \in closed : s.key = key /\ Covers(s, u.opened)
    IN
    /\ AllowCombine /\ FirstOf(e, Unverified)
    /\ \/ \E h \in homes : \E ref \in {h.bucket.ref, u.ref} :
             /\ FirstOf(h, homes)
             /\ done' = (done \ {e, h}) \cup {[h EXCEPT !.bucket = Fold(@, u, ref)]}
             /\ UNCHANGED <<open, closed, late, events>>
       \/ /\ homes = {}
          /\ \E b \in live : \E ref \in {b.ref, u.ref} :
                /\ open' = (open \ {b}) \cup {Fold(b, u, ref)}
                /\ done' = done \ {e}
                /\ UNCHANGED <<closed, late, events>>
       \/ /\ homes = {} /\ live = {} /\ gone
          /\ late' = late \cup u.copies
          /\ done' = done \ {e}
          /\ UNCHANGED <<open, closed, events>>
       \/ /\ homes = {} /\ live = {} /\ ~gone
          /\ Finish(u, key, TRUE)
          /\ done' = done \ {e}
          /\ UNCHANGED <<open, late>>

EmitVerified(e) ==
    /\ Unverified = {} /\ FirstOf(e, done)
    /\ Finish(e.bucket, e.bucket.key, TRUE)
    /\ done' = done \ {e}
    /\ UNCHANGED <<open, late>>

\* list.sort by first_seen, which is stable.
Before(e, f) == e.first < f.first \/ (e.first = f.first /\ e.n < f.n)

\* With the last bucket done, the events built in this call are sorted and
\* returned, after those of earlier calls.
HandOver ==
    LET out == events' \ DOMAIN handed IN
    handed' = IF done' # {} THEN handed
              ELSE [e \in events' |->
                       IF e \in DOMAIN handed THEN handed[e]
                       ELSE Cardinality(DOMAIN handed) + 1
                              + Cardinality({f \in out : Before(f, e)})]

Emit ==
    /\ \E e \in done : EmitDamaged(e) \/ EmitRepaired(e) \/ EmitVerified(e)
    /\ HandOver
    /\ UNCHANGED <<clock, sent, copies, ready, popAt, stopped>>
----------------------------------------------------------------------------
Arrive == \E t \in sent, off \in 0..Spread, hop \in Hop, kind \in Kind :
              Add(CopyOf(t, off, hop, kind))

Next ==
    \/ Tick
    \/ \E m \in Message : Transmit(m)
    \/ Arrive
    \/ PopReady
    \/ Flush
    \/ Emit

Spec == Init /\ [][Next]_vars

\* mesh_main polls every half second and always drains; a drain finishes.
FairSpec == Spec /\ WF_vars(Tick) /\ WF_vars(PopReady) /\ WF_vars(Emit)
----------------------------------------------------------------------------
Pending == open \cup ready \cup {e.bucket : e \in done}

Bucket == [slot: Key, key: Key, copies: SUBSET Copy, opened: Nat, last: Nat,
           good: BOOLEAN, ref: Ref]

\* The shape of the state; one open bucket per dictionary key.
TypeOK ==
    /\ clock \in Time /\ popAt \in Time /\ stopped \in BOOLEAN
    /\ copies \in 0..MaxCopies
    /\ \A t \in sent : t.msg \in Message /\ t.at \in Time
    /\ \A b \in Pending : /\ b.slot \in Key /\ b.key \in Key /\ b.ref \in Ref
                          /\ b.copies # {} /\ b.copies \subseteq Copy
    /\ \A b1, b2 \in open : b1.slot = b2.slot => b1 = b2
    /\ late \subseteq Copy
    /\ \A e \in events : e.key \in Key /\ e.index \in Nat /\ e.copies \subseteq Copy
    /\ DOMAIN handed \subseteq events /\ (done = {} => DOMAIN handed = events)

\* add, _emit, flush: every delivered copy is in exactly one place - a pending
\* bucket, an event handed over, or the late count - whatever is folded,
\* re-keyed, ended early or flushed.
EveryCopyInOnePlace ==
    /\ \A i \in 1..copies :
          Cardinality({b \in Pending : \E c \in b.copies : c.id = i})
        + Cardinality({e \in events : \E c \in e.copies : c.id = i})
        + Cardinality({c \in late : c.id = i}) = 1
    /\ stopped /\ done = {} => Pending = {}

\* What a bucket says of itself - its span, whether some copy verified - is
\* true of its copies, however they came: by exact key, by similarity, out of
\* order, or folded in from another bucket.
SpanAgreesWithCopies ==
    \A b \in Pending :
        /\ \E c \in b.copies : c.when = b.opened
        /\ \E c \in b.copies : c.when = b.last
        /\ \A c \in b.copies : b.opened <= c.when /\ c.when <= b.last
        /\ b.good <=> \E c \in b.copies : c.good

\* Module docstring, "keep separate": copies of two transmissions further
\* apart than a bucket can reach never share an event.
RetransmissionsKeptApart ==
    \A e \in events : \A c, d \in e.copies : c.tx = d.tx

SameTx(e, f) == \E c \in e.copies, d \in f.copies : c.tx = d.tx

\* Every copy that was delivered, wherever it is now.
Delivered == (UNION {b.copies : b \in Pending}) \cup (UNION {e.copies : e \in events}) \cup late

\* Module docstring, "fold": every copy is told of once, in one event that
\* does not change afterwards, or is counted as late; a bucket whose copies
\* are in two events, or a copy dropped in a fold, is no step of Gathering.
Gathered == INSTANCE Gathering WITH
    MayFail <- FALSE, heard <- Delivered, waiting <- UNION {b.copies : b \in Pending},
    told <- {e.copies : e \in events}, lost <- late
GatheringSpec == Gathered!Spec

Intact(copy)   == \A c \in copy : c.good
OnTime(copy)   == \A c \in copy : c.arrived - c.when <= Lateness

\* Module docstring, "fold": as long as every copy is intact and delivered
\* within the lateness allowance, one transmission makes one event and no copy
\* is dropped as late.
FoldsOnTime ==
    Intact(Delivered) /\ OnTime(Delivered) =>
        /\ late = {}
        /\ \A e, f \in events : SameTx(e, f) => e = f

\* Arrival time, "a copy that turns up later still is a straggler": while a
\* message was sent once and its copies are intact, it makes one event however
\* late they are.
StragglersDropped ==
    Intact(Delivered) /\ Cardinality(sent) = 1 =>
        \A e, f \in events : SameTx(e, f) => e = f

\* One event per transmission, of copies in time or of a single sending.
OneEventPerTransmission == FoldsOnTime /\ StragglersDropped

OfKey(key) == {f \in events : f.key = key}

\* _finish: the events of one key have the numbers 0, 1, 2, ..., each once, as
\* long as the key is remembered - across the calls of pop_ready and flush, and
\* whether the key was heard or found by a repair.
RepeatsNumbered ==
    \A e \in events : {f.index : f \in OfKey(e.key)} = 0..(Cardinality(OfKey(e.key)) - 1)

\* On the air before.
OnAirBefore(e, f) == \A c \in e.copies, d \in f.copies : c.when < d.when

\* _emit sorts the buckets, and then the events: as long as every copy is
\* intact and in time, the events of one key are numbered in the order of their
\* transmissions, and returned in that order too, within a call and across calls.
RepeatsTellSendings ==
    Intact(Delivered) /\ OnTime(Delivered) =>
        \A e, f \in events :
            e.key = f.key /\ e.index < f.index =>
                /\ OnAirBefore(e, f)
                /\ f \in DOMAIN handed => e \in DOMAIN handed /\ handed[e] < handed[f]

\* FusedEvent.repeat_index, "0 for the first transmission of these bytes, 1..
\* for retransmissions", of copies in time but not all intact.  Not so: a
\* repaired bucket is numbered before every verified one of the same call, and
\* only then are the events sorted.
FirstTransmissionIsZero ==
    OnTime(Delivered) =>
        \A e, f \in events : e.key = f.key /\ OnAirBefore(e, f) => e.index < f.index

\* What holds of the fusion's own tables: their shape, the one place of a copy,
\* what a bucket says of itself, and the numbers of repeats.
FusionInv ==
    TypeOK /\ EveryCopyInOnePlace /\ SpanAgreesWithCopies /\ RepeatsNumbered

\* Every bucket whose time comes within the bounded clock is handed over,
\* even if nothing more arrives.
EverythingEmitted ==
    <>[](/\ ready = {} /\ done = {}
         /\ \A b \in open : Deadline(b) + Lateness >= MaxTime)
=============================================================================
