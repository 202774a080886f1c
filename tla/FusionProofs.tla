---------------------------- MODULE FusionProofs ----------------------------
(***************************************************************************)
(* Proofs about Fusion, for every set of messages, hops and kinds of       *)
(* copies, any windows, and any order in which copies arrive.              *)
(*                                                                         *)
(* A step does one thing to the buckets, events and late copies (Moves):   *)
(* a bucket is opened by a copy or joined by it, one is folded into        *)
(* another, one becomes an event or is counted late, or all stay what they *)
(* are.  From this the copies are found in one place (Apart), what a bucket *)
(* says is true of its copies (Told), and, if the sendings of a message are *)
(* further apart than a bucket reaches, its copies are of one sending.     *)
(***************************************************************************)
EXTENDS Fusion, FiniteSetTheorems, TLAPS

(***************************************************************************)
(* The shape of the tables.                                                *)
(***************************************************************************)
InDone == {e.bucket : e \in done}

Event  == [n: Nat, key: Key, copies: SUBSET Copy, index: Nat, first: Nat, verified: BOOLEAN, at: Time]
Memory == [key: Key, at: Time, index: Nat, first: Nat, last: Nat]

Clocks ==
  /\ clock \in Time /\ popAt \in Time /\ popAt <= clock /\ stopped \in BOOLEAN
  /\ copies \in 0..MaxCopies

SentShape ==
  /\ IsFiniteSet(sent) /\ Cardinality(sent) \in 0..MaxSent
  /\ \A t \in sent : t.n \in 1..Cardinality(sent) /\ t.msg \in Message /\ t.at \in 0..clock
  /\ \A t, u \in sent : t.n = u.n => t = u
  /\ \A t, u \in sent : t.msg = u.msg /\ t # u => t.at - u.at >= Gap \/ u.at - t.at >= Gap

Tables ==
  /\ open \subseteq Bucket /\ ready \subseteq Bucket /\ done \subseteq [bucket: Bucket, pos: Nat]
  /\ closed \subseteq Memory /\ events \subseteq Event /\ late \subseteq Copy
  /\ IsFiniteSet(events)

Shape == Clocks /\ SentShape /\ Tables

\* The events of finished calls have been returned, at one place each.
Returned ==
  /\ DOMAIN handed \subseteq events /\ (done = {} => DOMAIN handed = events)
  /\ \A e \in DOMAIN handed : handed[e] \in 1..Cardinality(DOMAIN handed)

(***************************************************************************)
(* Where the copies are.                                                   *)
(***************************************************************************)
\* A bucket is in one table, and waits once to be finished.
Filed ==
  /\ open \cap ready = {} /\ open \cap InDone = {}
  /\ ready = {} \/ done = {}
  /\ \A e, f \in done : e.bucket = f.bucket => e = f
  /\ \A b1, b2 \in open : b1.slot = b2.slot => b1 = b2
  /\ stopped => open = {} /\ ready = {}

\* A copy is in one bucket, in one event or late.
Apart ==
  /\ \A b1, b2 \in Pending : b1 # b2 => b1.copies \cap b2.copies = {}
  /\ \A e1, e2 \in events : e1 # e2 => e1.copies \cap e2.copies = {}
  /\ \A b \in Pending, e \in events : b.copies \cap e.copies = {}
  /\ \A b \in Pending : b.copies \cap late = {}
  /\ \A e \in events : e.copies \cap late = {}

\* Copies are told apart by their number, and none is missing.
Numbered ==
  /\ \A c \in Delivered : c.id \in 1..copies
  /\ \A c, d \in Delivered : c.id = d.id => c = d
  /\ \A i \in 1..copies : \E c \in Delivered : c.id = i

(***************************************************************************)
(* What a bucket is.                                                       *)
(***************************************************************************)
\* What it says of itself is true of its copies.
SaysSpan(b) ==
  /\ \E c \in b.copies : c.when = b.opened
  /\ \E c \in b.copies : c.when = b.last
  /\ \A c \in b.copies : b.opened <= c.when /\ c.when <= b.last
  /\ b.good <=> \E c \in b.copies : c.good

\* It has copies of one message, and its place is the key of one of them.
SaysMessage(b) ==
  /\ \A c \in b.copies : c.key.msg = b.slot.msg
  /\ b.key.msg = b.slot.msg /\ b.ref.msg = b.slot.msg
  /\ \E c \in b.copies : c.key = b.slot
  /\ \E c \in b.copies : c.key = b.key
  /\ IsFiniteSet(b.copies)

Told ==
  /\ \A b \in Pending : SaysSpan(b) /\ SaysMessage(b)
  /\ \A e \in events : e.copies # {}

\* A copy is of one of the transmissions, and a verified one is undamaged.
FromSent(c) ==
  /\ \E t \in sent : c.tx = t.n /\ c.key.msg = t.msg /\ t.at <= c.when /\ c.when <= t.at + Spread
  /\ c.good => c.key = RealKey(c.key.msg)
OfSent == \A c \in Delivered : FromSent(c)

\* The same message is sent again only when no bucket reaches so far.
Spaced == Gap > Spread + Window /\ Gap > Spread + MaxWindow

OneSending(copy) == \A c, d \in copy : c.tx = d.tx
SendingsApart ==
  /\ \A b \in Pending : OneSending(b.copies)
  /\ \A e \in events : OneSending(e.copies)

(***************************************************************************)
(* The events, their numbers, and the memory of them.                      *)
(***************************************************************************)
\* No event is so old that its key may have been forgotten.
Recent == \A e \in events : clock - e.at <= RepeatMemory

\* Then none ever is.
Remembers == RepeatMemory >= MaxTime

EventNumbers == \A e \in events : e.n \in 1..Cardinality(events)

\* The number of an event is how many of its key were finished before it.
NumberedAsFinished ==
  \A e \in events : e.index = Cardinality({f \in events : f.key = e.key /\ f.n < e.n})

Counts ==
  /\ \A s \in closed : s.index + 1 = Cardinality(OfKey(s.key))
  /\ \A e \in events : \E s \in closed : s.key = e.key
  /\ NumberedAsFinished /\ RepeatsNumbered

Numbering == Recent => Counts /\ EventNumbers

\* The memory is of events, and an event's key is that of a copy or its repair.
MemoryOf(s, e) ==
  /\ s.key = e.key /\ s.at = e.at
  /\ \E c \in e.copies : c.when = s.first
  /\ \E c \in e.copies : c.when = s.last
OfEvents ==
  /\ \A s \in closed : \E e \in events : MemoryOf(s, e)
  /\ \A e \in events : \E c \in e.copies : e.key \in {c.key, RealKey(c.key.msg)}

(***************************************************************************)
(* One event per transmission.                                             *)
(***************************************************************************)
\* A transmission fits into a window, and the next of the message begins when
\* no copy of it can be in time any more.
Fits == Spread <= Window /\ Spread <= MaxWindow /\ Gap > Spread + Lateness

\* No copy of c's transmission can be in time any more.
Past(c) == stopped \/ \A t \in sent : t.n = c.tx => clock > t.at + Spread + Lateness

Clean == Intact(Delivered) /\ OnTime(Delivered)

Holds(copy, other) == \E c \in copy, d \in other : c.tx = d.tx

OnTimeOnce ==
  Clean =>
    /\ late = {}
    /\ \A b1, b2 \in Pending : Holds(b1.copies, b2.copies) => b1 = b2
    /\ \A e1, e2 \in events : Holds(e1.copies, e2.copies) => e1 = e2
    /\ \A b \in Pending, e \in events : ~Holds(b.copies, e.copies)
    /\ \A b \in ready \cup InDone : \A c \in b.copies : Past(c)
    /\ \A e \in events : \A c \in e.copies : Past(c)

SentOnce ==
  Intact(Delivered) /\ Cardinality(sent) = 1 /\ Recent =>
    /\ ready = {}
    /\ \A b1, b2 \in Pending : b1 = b2
    /\ \A e, f \in events : e = f
    /\ events # {} => Pending = {}

(***************************************************************************)
(* Types, and what the operators on buckets return.                        *)
(***************************************************************************)

\* The constants, in the form the provers use.
LEMMA Constants ==
  /\ Window \in Nat /\ Extend \in Nat /\ MaxWindow \in Nat /\ Lateness \in Nat /\ RepeatMemory \in Nat
  /\ Gap \in Nat /\ Spread \in Nat /\ MaxLag \in Nat /\ MaxSent \in Nat /\ MaxCopies \in Nat
  /\ MaxTime \in Nat /\ Kind \subseteq {"good", "crc", "damaged"} /\ AllowCombine \in BOOLEAN
BY FusionAssumption

\* A copy's fields.
LEMMA CopyFacts ==
  ASSUME NEW c \in Copy
  PROVE  /\ c.id \in 1..MaxCopies /\ c.tx \in 1..MaxSent /\ c.key \in Key /\ c.key.msg \in Message
         /\ c.good \in BOOLEAN /\ c.when \in Nat /\ c.arrived \in Time /\ RefOf(c) \in Ref
         /\ RefOf(c).msg = c.key.msg /\ c.hop \in Hop
BY DEF Copy, Key, Ref, RefOf

\* A bucket's fields.
LEMMA BucketFacts ==
  ASSUME NEW b \in Bucket
  PROVE  /\ b.slot \in Key /\ b.key \in Key /\ b.copies \subseteq Copy /\ b.opened \in Nat /\ b.last \in Nat
         /\ b.good \in BOOLEAN /\ b.ref \in Ref
BY DEF Bucket

\* MinOf and MaxOf choose between their arguments.
LEMMA MinMax ==
  ASSUME NEW a \in Int, NEW b \in Int
  PROVE  /\ MinOf(a, b) \in {a, b} /\ MinOf(a, b) <= a /\ MinOf(a, b) <= b
         /\ MaxOf(a, b) \in {a, b} /\ MaxOf(a, b) >= a /\ MaxOf(a, b) >= b
BY DEF MinOf, MaxOf

\* _Bucket.__init__ and the first add.
LEMMA NewBucketFacts ==
  ASSUME NEW c \in Copy
  PROVE  /\ NewBucket(c) \in Bucket
         /\ NewBucket(c).slot = c.key /\ NewBucket(c).key = c.key
         /\ \A x : x \in NewBucket(c).copies <=> x = c
         /\ NewBucket(c).opened = c.when /\ NewBucket(c).last = c.when /\ NewBucket(c).good = c.good
         /\ NewBucket(c).ref = RefOf(c)
<1>1. /\ c.key \in Key /\ c.when \in Nat /\ c.good \in BOOLEAN /\ RefOf(c) \in Ref /\ {c} \subseteq Copy
  BY CopyFacts
<1>2. QED
  BY <1>1 DEF NewBucket, Bucket

\* _Bucket.add.
LEMMA AddToFacts ==
  ASSUME NEW b \in Bucket, NEW c \in Copy, NEW ref \in Ref
  PROVE  /\ AddTo(b, c, ref) \in Bucket
         /\ AddTo(b, c, ref).slot = b.slot
         /\ \A x : x \in AddTo(b, c, ref).copies <=> x \in b.copies \/ x = c
         /\ AddTo(b, c, ref).key = (IF c.good THEN c.key ELSE b.key)
         /\ AddTo(b, c, ref).opened = MinOf(b.opened, c.when) /\ AddTo(b, c, ref).last = MaxOf(b.last, c.when)
         /\ AddTo(b, c, ref).good = (b.good \/ c.good) /\ AddTo(b, c, ref).ref = ref
<1>1. /\ c.key \in Key /\ c.when \in Nat /\ c.good \in BOOLEAN
      /\ b.slot \in Key /\ b.key \in Key /\ b.copies \subseteq Copy /\ b.opened \in Nat /\ b.last \in Nat
      /\ b.good \in BOOLEAN
  BY CopyFacts, BucketFacts
<1>2. MinOf(b.opened, c.when) \in Nat /\ MaxOf(b.last, c.when) \in Nat
  BY <1>1, MinMax
<1>3. (IF c.good THEN c.key ELSE b.key) \in Key /\ (b.good \/ c.good) \in BOOLEAN /\ b.copies \cup {c} \subseteq Copy
  BY <1>1
<1> DEFINE x == b.copies \cup {c}
           y == MinOf(b.opened, c.when)
           z == MaxOf(b.last, c.when)
           g == b.good \/ c.good
           k == IF c.good THEN c.key ELSE b.key
           a == [b EXCEPT !.copies = x, !.opened = y, !.last = z, !.ref = ref, !.good = g, !.key = k]
<1>4. AddTo(b, c, ref) = a
  BY DEF AddTo
<1>5. x \in SUBSET Copy /\ y \in Nat /\ z \in Nat /\ g \in BOOLEAN /\ k \in Key
  BY <1>2, <1>3
<1> HIDE DEF x, y, z, g, k
<1>6. a \in Bucket
  BY <1>5 DEF Bucket
<1>7. a.slot = b.slot /\ a.copies = x /\ a.ref = ref
  BY DEF Bucket
<1>8. a.opened = y /\ a.last = z
  BY DEF Bucket
<1>9. a.good = g /\ a.key = k
  BY DEF Bucket
<1>10. QED
  BY <1>4, <1>6, <1>7, <1>8, <1>9 DEF x, y, z, g, k

\* A bucket folded into another.
LEMMA FoldFacts ==
  ASSUME NEW b \in Bucket, NEW u \in Bucket, NEW ref \in Ref
  PROVE  /\ Fold(b, u, ref) \in Bucket
         /\ Fold(b, u, ref).slot = b.slot
         /\ \A c : c \in Fold(b, u, ref).copies <=> c \in b.copies \/ c \in u.copies
         /\ Fold(b, u, ref).key = b.key
         /\ Fold(b, u, ref).opened = MinOf(b.opened, u.opened) /\ Fold(b, u, ref).last = MaxOf(b.last, u.last)
         /\ Fold(b, u, ref).good = b.good /\ Fold(b, u, ref).ref = ref
<1>1. /\ b.slot \in Key /\ b.key \in Key /\ b.copies \subseteq Copy /\ b.opened \in Nat /\ b.last \in Nat
      /\ b.good \in BOOLEAN /\ u.opened \in Nat /\ u.last \in Nat /\ u.copies \subseteq Copy
  BY BucketFacts
<1>2. MinOf(b.opened, u.opened) \in Nat /\ MaxOf(b.last, u.last) \in Nat
  BY <1>1, MinMax
<1> DEFINE x == b.copies \cup u.copies
           y == MinOf(b.opened, u.opened)
           z == MaxOf(b.last, u.last)
           a == [b EXCEPT !.copies = x, !.opened = y, !.last = z, !.ref = ref]
<1>3. Fold(b, u, ref) = a
  BY DEF Fold
<1>4. x \in SUBSET Copy /\ y \in Nat /\ z \in Nat
  BY <1>1, <1>2
<1> HIDE DEF x, y, z
<1>5. a \in Bucket
  BY <1>4 DEF Bucket
<1>6. a.slot = b.slot /\ a.copies = x /\ a.ref = ref
  BY DEF Bucket
<1>7. a.opened = y /\ a.last = z
  BY DEF Bucket
<1>8. a.good = b.good /\ a.key = b.key
  BY DEF Bucket
<1>9. QED
  BY <1>3, <1>5, <1>6, <1>7, <1>8 DEF x, y, z

\* What may be delivered is a copy of a transmission.
LEMMA CopyOfFacts ==
  ASSUME Shape, NEW t \in sent, NEW off \in 0..Spread, NEW hop \in Hop, NEW kind \in Kind,
         copies < MaxCopies
  PROVE  /\ CopyOf(t, off, hop, kind) \in Copy /\ CopyOf(t, off, hop, kind).id = copies + 1
         /\ FromSent(CopyOf(t, off, hop, kind)) /\ CopyOf(t, off, hop, kind).arrived = clock
<1> DEFINE c == CopyOf(t, off, hop, kind)
<1>1. t.n \in 1..MaxSent /\ t.msg \in Message /\ t.at \in Nat /\ copies \in Nat /\ clock \in Time
  <2>1. t.n \in 1..Cardinality(sent) /\ t.msg \in Message /\ t.at \in 0..clock
    BY DEF Shape, SentShape
  <2>2. clock \in Nat /\ copies \in Nat /\ clock \in Time /\ Cardinality(sent) \in 0..MaxSent
    BY Constants DEF Shape, SentShape, Clocks, Time
  <2>3. QED
    BY <2>1, <2>2, Constants
<1>2. kind \in {"good", "crc", "damaged"} /\ off \in Nat /\ off <= Spread
  BY Constants
<1>3. /\ c.id = copies + 1 /\ c.tx = t.n /\ c.key.msg = t.msg /\ c.hop = hop /\ c.good = (kind = "good")
      /\ c.key = [msg |-> t.msg, dmg |-> IF kind = "damaged" THEN 1 ELSE 0]
      /\ c.when = t.at + off /\ c.arrived = clock
  BY DEF CopyOf
<1>4. c \in Copy
  <2>1. [msg |-> t.msg, dmg |-> IF kind = "damaged" THEN 1 ELSE 0] \in Key
    BY <1>1 DEF Key
  <2>2. copies + 1 \in 1..MaxCopies
    BY <1>1, Constants
  <2>3. t.at + off \in Nat
    BY <1>1, <1>2
  <2>4. QED
    BY <1>1, <2>1, <2>2, <2>3 DEF CopyOf, Copy
<1>5. FromSent(c)
  <2>1. t.at <= c.when /\ c.when <= t.at + Spread
    BY <1>1, <1>2, <1>3, Constants
  <2>2. c.good => c.key = RealKey(c.key.msg)
    BY <1>3 DEF RealKey
  <2>3. QED
    BY <1>3, <2>1, <2>2 DEF FromSent
<1>6. QED
  BY <1>3, <1>4, <1>5

(***************************************************************************)
(* What a step does to the buckets, the events and the late copies.        *)
(***************************************************************************)
Arriving(c) ==
  /\ c \in Copy /\ c.id = copies + 1 /\ copies' = copies + 1 /\ FromSent(c)
  /\ Deliverable(c) /\ c.arrived = clock /\ ~stopped /\ done = {}
  /\ UNCHANGED <<events, clock, sent, stopped, closed, done>>

\* Nothing moves between buckets, events and late copies.
Stays == Pending' = Pending /\ UNCHANGED <<events, late, copies>>

\* A copy opens a bucket, joins one, or is counted late.
Opens(c) == Arriving(c) /\ Pending' = Pending \cup {NewBucket(c)} /\ late' = late

Joins(c, b, ref) ==
  /\ Arriving(c) /\ b \in open /\ ref \in {b.ref, RefOf(c)} /\ Accepts(b, c.when)
  /\ b.slot = c.key \/ b.ref = RefOf(c)
  /\ Pending' = (Pending \ {b}) \cup {AddTo(b, c, ref)} /\ late' = late

GoesLate(c) == Arriving(c) /\ Pending' = Pending /\ late' = late \cup {c}

\* A repaired bucket is folded into another of its message, or counted late.
Folds(u, h, ref) ==
  /\ u \in Pending /\ h \in Pending /\ u # h /\ ~u.good /\ ref \in {h.ref, u.ref}
  /\ h.slot.msg = u.key.msg \/ h.key.msg = u.key.msg
  /\ Accepts(h, u.opened)
  /\ Pending' = (Pending \ {u, h}) \cup {Fold(h, u, ref)} /\ UNCHANGED <<events, late, copies>>

Drops(u) ==
  /\ u \in Pending /\ ~u.good
  /\ Pending' = Pending \ {u} /\ late' = late \cup u.copies /\ UNCHANGED <<events, copies>>

\* A bucket becomes an event.
Finishes(u, key, verified) ==
  /\ u \in Pending /\ key \in {u.key, RealKey(u.key.msg)} /\ verified \in BOOLEAN
  /\ Finish(u, key, verified)
  /\ Pending' = Pending \ {u} /\ UNCHANGED <<late, copies>>

Moves ==
  \/ Stays
  \/ \E c \in Copy : Opens(c) \/ GoesLate(c) \/ \E b \in open, ref \in Ref : Joins(c, b, ref)
  \/ \E u \in Pending : \/ Drops(u) \/ \E h \in Pending, ref \in Ref : Folds(u, h, ref)
                        \/ \E key \in Key, verified \in BOOLEAN : Finishes(u, key, verified)

\* The tables' buckets.
LEMMA PendingFacts ==
  ASSUME Shape
  PROVE  /\ Pending \subseteq Bucket /\ open \subseteq Pending /\ ready \subseteq Pending
         /\ InDone \subseteq Pending /\ Pending = open \cup ready \cup InDone
         /\ \A e \in done : e.bucket \in InDone /\ e.bucket \in Pending /\ e.pos \in Nat
<1>1. open \subseteq Bucket /\ ready \subseteq Bucket /\ done \subseteq [bucket: Bucket, pos: Nat]
  BY DEF Shape, Tables
<1>2. InDone \subseteq Bucket /\ \A e \in done : e.bucket \in InDone /\ e.pos \in Nat
  BY <1>1 DEF InDone
<1>3. Pending = open \cup ready \cup InDone
  BY DEF Pending, InDone
<1>4. QED
  BY <1>1, <1>2, <1>3

\* A new copy is in no bucket, no event and not late.
LEMMA NewCopy ==
  ASSUME Shape, Numbered, NEW c, c.id = copies + 1
  PROVE  c \notin Delivered /\ \A b \in Pending : c \notin b.copies
<1>1. copies \in Nat
  BY Constants DEF Shape, Clocks
<1>2. c \notin Delivered
  BY <1>1 DEF Numbered
<1>3. \A b \in Pending : b.copies \subseteq Delivered
  BY DEF Delivered
<1>4. QED
  BY <1>2, <1>3

\* Place: a bucket of the similar ones, or a new one.
LEMMA PlaceFacts ==
  ASSUME NEW c \in Copy, NEW buckets \in SUBSET Bucket, Place(c, buckets)
  PROVE  \/ \E b \in buckets : /\ b.ref = RefOf(c) /\ Accepts(b, c.when) /\ ~(c.good /\ b.good)
                               /\ open' = (buckets \ {b}) \cup {AddTo(b, c, b.ref)}
         \/ open' = buckets \cup {NewBucket(c)}
BY DEF Place, Nearby

\* Fusion.add.
LEMMA AddMoves ==
  ASSUME Shape, Shape', Filed, Numbered, NEW c \in Copy, c.id = copies + 1, FromSent(c), c.arrived = clock, Add(c)
  PROVE  Moves /\ Filed'
<1>1. /\ done = {} /\ ~stopped /\ Deliverable(c) /\ copies' = copies + 1
      /\ UNCHANGED <<clock, sent, closed, done, popAt, stopped, events>>
      /\ JoinExact(c) \/ EndOlder(c) \/ CountLate(c) \/ OpenNew(c)
  BY DEF Add
<1>2. Arriving(c)
  BY <1>1 DEF Arriving
<1>3. InDone = {} /\ InDone' = {} /\ Pending = open \cup ready /\ Pending' = open' \cup ready'
  BY <1>1 DEF InDone, Pending
<1>4. /\ \A b \in Pending : c \notin b.copies
      /\ Pending \subseteq Bucket /\ open \subseteq Pending /\ ready \subseteq Pending
      /\ open \cap ready = {} /\ \A b1, b2 \in open : b1.slot = b2.slot => b1 = b2
  BY NewCopy, PendingFacts DEF Filed
<1>5. ASSUME NEW b \in open, NEW ref \in {b.ref, RefOf(c)}
      PROVE  /\ ref \in Ref /\ AddTo(b, c, ref) \notin Pending /\ AddTo(b, c, ref).slot = b.slot
  <2>1. b \in Bucket /\ ref \in Ref
    BY <1>4, BucketFacts, CopyFacts
  <2>2. c \in AddTo(b, c, ref).copies /\ AddTo(b, c, ref).slot = b.slot
    BY <2>1, AddToFacts
  <2>3. QED
    BY <1>4, <2>1, <2>2
<1>6. NewBucket(c) \notin Pending /\ NewBucket(c).slot = c.key
  BY <1>4, NewBucketFacts
<1>7. CASE JoinExact(c)
  <2>0. PICK b \in open : /\ b.slot = c.key /\ Accepts(b, c.when) /\ ready' = ready /\ late' = late
                         /\ \E ref \in {b.ref, RefOf(c)} : open' = (open \ {b}) \cup {AddTo(b, c, ref)}
    BY <1>7 DEF JoinExact
  <2>1. PICK ref \in {b.ref, RefOf(c)} : open' = (open \ {b}) \cup {AddTo(b, c, ref)}
    BY <2>0
  <2>2. Pending' = (Pending \ {b}) \cup {AddTo(b, c, ref)}
    BY <1>3, <1>4, <2>0, <2>1
  <2>3. Joins(c, b, ref) /\ ref \in Ref
    BY <1>2, <1>5, <2>0, <2>1, <2>2 DEF Joins
  <2>4. Moves
    BY <2>3 DEF Moves
  <2>5. open' \cap ready' = {} /\ \A b1, b2 \in open' : b1.slot = b2.slot => b1 = b2
    BY <1>4, <1>5, <2>0, <2>1
  <2>6. Filed'
    BY <1>1, <1>3, <2>5 DEF Filed
  <2>7. QED
    BY <2>4, <2>6
<1>8. ASSUME NEW buckets \in SUBSET open, Place(c, buckets),
             Pending' = open' \cup ready', Pending = buckets \cup ready', late' = late,
             buckets \cap ready' = {}, \A b \in buckets : b.slot # c.key
      PROVE  Moves /\ Filed'
  <2>1. CASE \E b \in buckets : /\ b.ref = RefOf(c) /\ Accepts(b, c.when)
                                /\ open' = (buckets \ {b}) \cup {AddTo(b, c, b.ref)}
    <3>1. PICK b \in buckets : /\ b.ref = RefOf(c) /\ Accepts(b, c.when)
                               /\ open' = (buckets \ {b}) \cup {AddTo(b, c, b.ref)}
      BY <2>1
    <3>2. Pending' = (Pending \ {b}) \cup {AddTo(b, c, b.ref)}
      BY <1>8, <3>1
    <3>3. Joins(c, b, b.ref) /\ b.ref \in Ref /\ b \in open
      BY <1>2, <1>5, <1>8, <3>1, <3>2 DEF Joins
    <3>4. Moves
      BY <3>3 DEF Moves
    <3>5. open' \cap ready' = {} /\ \A b1, b2 \in open' : b1.slot = b2.slot => b1 = b2
      BY <1>4, <1>5, <1>8, <3>1
    <3>6. Filed'
      BY <1>1, <1>3, <3>5 DEF Filed
    <3>7. QED
      BY <3>4, <3>6
  <2>2. CASE open' = buckets \cup {NewBucket(c)}
    <3>1. Pending' = Pending \cup {NewBucket(c)}
      BY <1>8, <2>2
    <3>2. Moves
      BY <1>2, <1>8, <3>1 DEF Moves, Opens
    <3>3. open' \cap ready' = {} /\ \A b1, b2 \in open' : b1.slot = b2.slot => b1 = b2
      BY <1>4, <1>6, <1>8, <2>2
    <3>4. Filed'
      BY <1>1, <1>3, <3>3 DEF Filed
    <3>5. QED
      BY <3>2, <3>4
  <2>3. buckets \in SUBSET Bucket
    BY <1>4
  <2>4. QED
    BY <1>8, <2>1, <2>2, <2>3, PlaceFacts
<1>9. CASE EndOlder(c)
  <2>1. PICK b \in open : /\ b.slot = c.key /\ ready' = ready \cup {b} /\ Place(c, open \ {b}) /\ late' = late
    BY <1>9 DEF EndOlder
  <2>2. /\ Pending = (open \ {b}) \cup ready' /\ (open \ {b}) \cap ready' = {}
        /\ \A x \in open \ {b} : x.slot # c.key
    BY <1>3, <1>4, <2>1
  <2>3. QED
    BY <1>3, <1>8, <2>1, <2>2
<1>10. CASE CountLate(c)
  <2>1. open' = open /\ ready' = ready /\ late' = late \cup {c}
    BY <1>10 DEF CountLate
  <2>2. Moves
    BY <1>2, <1>3, <2>1 DEF Moves, GoesLate
  <2>3. Filed'
    BY <1>1, <1>3, <2>1 DEF Filed
  <2>4. QED
    BY <2>2, <2>3
<1>11. CASE OpenNew(c)
  <2>1. Place(c, open) /\ ready' = ready /\ late' = late /\ \A x \in open : x.slot # c.key
    BY <1>11 DEF OpenNew, NoExact
  <2>2. QED
    BY <1>3, <1>4, <1>8, <2>1
<1>12. QED
  BY <1>1, <1>7, <1>9, <1>10, <1>11

\* The entries _emit still has to finish are told apart by their buckets.
LEMMA DoneFacts ==
  ASSUME Filed, NEW e \in done
  PROVE  {x.bucket : x \in done \ {e}} = InDone \ {e.bucket}
BY DEF Filed, InDone

\* pop_ready: closed buckets wait to be finished, no copy moves.
LEMMA PopReadyMoves ==
  ASSUME Shape, Filed, PopReady
  PROVE  /\ Moves /\ Filed' /\ Pending' = Pending /\ ready' = {}
         /\ \A b \in InDone' : b \in ready \/ (b \in open /\ IsClosed(b, clock))
<1>1. PICK over \in SUBSET open :
        /\ done = {} /\ ~stopped /\ done' = ToEmit(ready \cup over) /\ open' = open \ over /\ ready' = {}
        /\ UNCHANGED <<events, late, copies, stopped>> /\ \A b \in over : IsClosed(b, clock)
  <2> DEFINE over == {b \in open : IsClosed(b, clock)}
  <2>1. /\ done = {} /\ ~stopped /\ done' = ToEmit(ready \cup over) /\ open' = open \ over /\ ready' = {}
        /\ UNCHANGED <<events, late, copies, stopped>>
    BY DEF PopReady
  <2>2. over \in SUBSET open /\ \A b \in over : IsClosed(b, clock)
    OBVIOUS
  <2> HIDE DEF over
  <2>3. QED
    BY <2>1, <2>2
<1>2. InDone' = ready \cup over /\ \A e, f \in done' : e.bucket = f.bucket => e = f
  <2>1. done' = {[bucket |-> b, pos |-> b.opened] : b \in ready \cup over}
    BY <1>1 DEF ToEmit
  <2>2. InDone' = {e.bucket : e \in done'}
    BY DEF InDone
  <2>3. \A e \in done' : e.bucket \in ready \cup over /\ e = [bucket |-> e.bucket, pos |-> e.bucket.opened]
    <3> TAKE e \in done'
    <3>1. PICK b \in ready \cup over : e = [bucket |-> b, pos |-> b.opened]
      BY <2>1
    <3>2. QED
      BY <3>1
  <2>4. \A b \in ready \cup over : \E e \in done' : e.bucket = b
    <3> TAKE b \in ready \cup over
    <3>1. [bucket |-> b, pos |-> b.opened] \in done'
      BY <2>1
    <3>2. QED
      BY <3>1
  <2>5. InDone' = ready \cup over
    BY <2>2, <2>3, <2>4
  <2>6. \A e, f \in done' : e.bucket = f.bucket => e = f
    BY <2>3
  <2>7. QED
    BY <2>5, <2>6
<1>3. InDone = {}
  BY <1>1 DEF InDone
<1>4. Pending' = Pending
  <2>1. Pending = open \cup ready \cup InDone
    BY DEF Pending, InDone
  <2>2. Pending' = open' \cup ready' \cup InDone'
    BY DEF Pending, InDone
  <2>3. QED
    BY <1>1, <1>2, <1>3, <2>1, <2>2
<1>5. Moves
  BY <1>1, <1>4 DEF Moves, Stays
<1>6. Filed'
  BY <1>1, <1>2 DEF Filed
<1>7. \A b \in InDone' : b \in ready \/ (b \in open /\ IsClosed(b, clock))
  <2>1. InDone' = ready \cup over
    BY <1>2
  <2>2. QED
    BY <1>1, <2>1
<1>8. QED
  BY <1>1, <1>4, <1>5, <1>6, <1>7

\* flush: the same of all buckets.
LEMMA FlushMoves ==
  ASSUME Shape, Filed, Flush
  PROVE  Moves /\ Filed' /\ Pending' = Pending /\ ready' = {}
<1>1. /\ done = {} /\ stopped' /\ done' = ToEmit(ready \cup open) /\ open' = {} /\ ready' = {}
      /\ UNCHANGED <<events, late, copies>>
  BY DEF Flush, Flushed
<1>2. InDone' = ready \cup open /\ \A e, f \in done' : e.bucket = f.bucket => e = f
  <2>1. done' = {[bucket |-> b, pos |-> b.opened] : b \in ready \cup open}
    BY <1>1 DEF ToEmit
  <2>2. InDone' = {e.bucket : e \in done'}
    BY DEF InDone
  <2>3. \A e \in done' : e.bucket \in ready \cup open /\ e = [bucket |-> e.bucket, pos |-> e.bucket.opened]
    <3> TAKE e \in done'
    <3>1. PICK b \in ready \cup open : e = [bucket |-> b, pos |-> b.opened]
      BY <2>1
    <3>2. QED
      BY <3>1
  <2>4. \A b \in ready \cup open : \E e \in done' : e.bucket = b
    <3> TAKE b \in ready \cup open
    <3>1. [bucket |-> b, pos |-> b.opened] \in done'
      BY <2>1
    <3>2. QED
      BY <3>1
  <2>5. InDone' = ready \cup open
    BY <2>2, <2>3, <2>4
  <2>6. \A e, f \in done' : e.bucket = f.bucket => e = f
    BY <2>3
  <2>7. QED
    BY <2>5, <2>6
<1>3. InDone = {}
  BY <1>1 DEF InDone
<1>4. Pending' = Pending
  <2>1. Pending = open \cup ready \cup InDone
    BY DEF Pending, InDone
  <2>2. Pending' = open' \cup ready' \cup InDone'
    BY DEF Pending, InDone
  <2>3. QED
    BY <1>1, <1>2, <1>3, <2>1, <2>2
<1>5. Moves
  BY <1>1, <1>4 DEF Moves, Stays
<1>6. Filed'
  BY <1>1, <1>2 DEF Filed
<1>7. QED
  BY <1>1, <1>4, <1>5, <1>6

\* A bucket that is finished or dropped leaves the list.
LEMMA EntryLeaves ==
  ASSUME Shape, Filed, NEW e \in done, done' = done \ {e}, UNCHANGED <<open, ready, stopped>>
  PROVE  Pending' = Pending \ {e.bucket} /\ Filed' /\ e.bucket \in Pending
<1>1. InDone' = InDone \ {e.bucket} /\ e.bucket \in InDone
  BY DoneFacts DEF InDone
<1>2. Pending = open \cup ready \cup InDone /\ Pending' = open' \cup ready' \cup InDone'
  BY DEF Pending, InDone
<1>3. ready = {} /\ e.bucket \notin open
  BY <1>1 DEF Filed
<1>4. Pending' = Pending \ {e.bucket} /\ e.bucket \in Pending
  BY <1>1, <1>2, <1>3
<1>5. Filed'
  BY <1>1, <1>3 DEF Filed
<1>6. QED
  BY <1>4, <1>5

\* _emit's first pass, a repaired bucket with a home among those to be finished.
LEMMA HomeMoves ==
  ASSUME Shape, Filed, Apart, Told, NEW e \in done, NEW h \in done, NEW ref \in {h.bucket.ref, e.bucket.ref},
         ~e.bucket.good, h.bucket.good, h.bucket.key = RealKey(e.bucket.key.msg),
         Accepts(h.bucket, e.bucket.opened),
         done' = (done \ {e, h}) \cup {[h EXCEPT !.bucket = Fold(@, e.bucket, ref)]},
         UNCHANGED <<open, ready, events, late, copies, stopped>>
  PROVE  Moves /\ Filed'
<1> DEFINE u == e.bucket
           b == h.bucket
           f == Fold(b, u, ref)
           k == [h EXCEPT !.bucket = f]
<1>1. /\ u \in Pending /\ b \in Pending /\ u \in Bucket /\ b \in Bucket /\ u \in InDone /\ b \in InDone
      /\ ref \in Ref /\ h \in [bucket: Bucket, pos: Nat] /\ Pending = open \cup ready \cup InDone
      /\ Pending \subseteq Bucket
  BY PendingFacts, BucketFacts DEF Shape, Tables
<1>2. u # b /\ b.key.msg = u.key.msg
  BY DEF RealKey
<1>3. f \in Bucket /\ f.copies = b.copies \cup u.copies
  BY <1>1, FoldFacts
<1>4. k.bucket = f
  BY <1>1
<1>5. \A x \in Pending : x = f => x = b
  <2> SUFFICES ASSUME NEW x \in Pending, x = f, x # b PROVE FALSE
    OBVIOUS
  <2>1. b.copies # {} /\ x.copies \cap b.copies = {}
    BY <1>1 DEF Told, SaysSpan, Apart
  <2>2. QED
    BY <1>3, <2>1
<1>6. \A x, y \in done : x.bucket = y.bucket => x = y
  BY DEF Filed
<1>7. {x.bucket : x \in done \ {e, h}} = InDone \ {u, b}
  BY <1>6 DEF InDone
<1>8. done' = (done \ {e, h}) \cup {k}
  OBVIOUS
<1> HIDE DEF f, k
<1>9. InDone' = (InDone \ {u, b}) \cup {f}
  <2>1. InDone' = {x.bucket : x \in done \ {e, h}} \cup {k.bucket}
    BY <1>8 DEF InDone
  <2>2. QED
    BY <1>4, <1>7, <2>1
<1>10. ready = {} /\ open \cap InDone = {}
  BY DEF Filed
<1>11. Pending' = (Pending \ {u, b}) \cup {f}
  <2>1. Pending' = open' \cup ready' \cup InDone'
    BY DEF Pending, InDone
  <2>2. QED
    BY <1>1, <1>9, <1>10, <2>1
<1>12. Folds(u, b, ref)
  BY <1>1, <1>2, <1>11 DEF Folds, f
<1>13. Moves
  BY <1>1, <1>12 DEF Moves
<1>14. open' \cap InDone' = {}
  BY <1>1, <1>5, <1>9, <1>10
<1>15. \A x, y \in done' : x.bucket = y.bucket => x = y
  <2>1. \A x \in done \ {e, h} : x.bucket # f
    BY <1>1, <1>5, <1>6 DEF InDone
  <2>2. QED
    BY <1>4, <1>6, <1>8, <2>1
<1>16. Filed'
  BY <1>10, <1>14, <1>15 DEF Filed
<1>17. QED
  BY <1>13, <1>16

\* The same with a home that is still open.
LEMMA LiveMoves ==
  ASSUME Shape, Filed, Apart, Told, NEW e \in done, NEW b \in open, NEW ref \in {b.ref, e.bucket.ref},
         ~e.bucket.good, b.slot = RealKey(e.bucket.key.msg), Accepts(b, e.bucket.opened),
         open' = (open \ {b}) \cup {Fold(b, e.bucket, ref)}, done' = done \ {e},
         UNCHANGED <<ready, events, late, copies, stopped>>
  PROVE  Moves /\ Filed'
<1> DEFINE u == e.bucket
           f == Fold(b, u, ref)
<1>1. /\ u \in Pending /\ b \in Pending /\ u \in Bucket /\ b \in Bucket /\ u \in InDone
      /\ ref \in Ref /\ Pending = open \cup ready \cup InDone /\ Pending \subseteq Bucket
  BY PendingFacts, BucketFacts DEF Shape, Tables
<1>2. ready = {} /\ open \cap InDone = {} /\ u # b /\ b.slot.msg = u.key.msg
  BY <1>1 DEF RealKey, Filed
<1>3. f \in Bucket /\ f.copies = b.copies \cup u.copies /\ f.slot = b.slot
  BY <1>1, FoldFacts
<1>4. \A x \in Pending : x = f => x = b
  <2> SUFFICES ASSUME NEW x \in Pending, x = f, x # b PROVE FALSE
    OBVIOUS
  <2>1. b.copies # {} /\ x.copies \cap b.copies = {}
    BY <1>1 DEF Told, SaysSpan, Apart
  <2>2. QED
    BY <1>3, <2>1
<1> HIDE DEF f
<1>5. InDone' = InDone \ {u}
  BY DoneFacts DEF InDone
<1>6. open' = (open \ {b}) \cup {f}
  BY DEF f
<1>7. Pending' = (Pending \ {u, b}) \cup {f}
  <2>1. Pending' = open' \cup ready' \cup InDone'
    BY DEF Pending, InDone
  <2>2. QED
    BY <1>1, <1>2, <1>5, <1>6, <2>1
<1>8. Folds(u, b, ref)
  BY <1>1, <1>2, <1>7 DEF Folds, f
<1>9. Moves
  BY <1>1, <1>8 DEF Moves
<1>10. open' \cap InDone' = {} /\ ~stopped
  BY <1>1, <1>2, <1>4, <1>5, <1>6 DEF Filed
<1>11. \A x, y \in open' : x.slot = y.slot => x = y
  BY <1>3, <1>6 DEF Filed
<1>12. Filed'
  BY <1>2, <1>10, <1>11 DEF Filed
<1>13. QED
  BY <1>9, <1>12

\* _emit: a bucket finished, or folded into its message's, or counted late.
LEMMA EmitMoves ==
  ASSUME Shape, Filed, Apart, Told, Emit
  PROVE  Moves /\ Filed'
<1>1. PICK e \in done : EmitDamaged(e) \/ EmitRepaired(e) \/ EmitVerified(e)
  BY DEF Emit
<1>2. UNCHANGED <<clock, sent, copies, ready, popAt, stopped>>
  BY DEF Emit
<1>3. e.bucket \in Pending /\ e.bucket.key \in Key /\ RealKey(e.bucket.key.msg) \in Key
  <2>1. e.bucket \in Pending /\ e.bucket.key \in Key
    BY PendingFacts, BucketFacts
  <2>2. QED
    BY <2>1 DEF Key, RealKey
<1>4. ASSUME NEW key \in {e.bucket.key, RealKey(e.bucket.key.msg)}, NEW verified \in BOOLEAN,
             Finish(e.bucket, key, verified), done' = done \ {e}, UNCHANGED <<open, late>>
      PROVE  Moves /\ Filed'
  <2>1. Pending' = Pending \ {e.bucket} /\ Filed'
    BY <1>2, <1>4, EntryLeaves
  <2>2. Finishes(e.bucket, key, verified)
    BY <1>2, <1>3, <1>4, <2>1 DEF Finishes
  <2>3. QED
    BY <1>3, <2>1, <2>2 DEF Moves
<1>5. CASE EmitDamaged(e)
  BY <1>4, <1>5 DEF EmitDamaged
<1>6. CASE EmitVerified(e)
  BY <1>4, <1>6 DEF EmitVerified
<1>7. CASE EmitRepaired(e)
  <2> DEFINE u == e.bucket
             key == RealKey(u.key.msg)
             homes == {h \in done : h.bucket.good /\ h.bucket.key = key /\ Accepts(h.bucket, u.opened)}
             live  == {b \in open : b.slot = key /\ Accepts(b, u.opened)}
  <2>1. ~u.good
    BY <1>7 DEF EmitRepaired, FirstOf, Unverified
  <2>2. \/ \E h \in homes : \E ref \in {h.bucket.ref, u.ref} :
              /\ done' = (done \ {e, h}) \cup {[h EXCEPT !.bucket = Fold(@, u, ref)]}
              /\ UNCHANGED <<open, closed, late, events>>
        \/ \E b \in live : \E ref \in {b.ref, u.ref} :
              /\ open' = (open \ {b}) \cup {Fold(b, u, ref)} /\ done' = done \ {e}
              /\ UNCHANGED <<closed, late, events>>
        \/ late' = late \cup u.copies /\ done' = done \ {e} /\ UNCHANGED <<open, closed, events>>
        \/ Finish(u, key, TRUE) /\ done' = done \ {e} /\ UNCHANGED <<open, late>>
    BY <1>7 DEF EmitRepaired
  <2>3. CASE \E h \in homes : \E ref \in {h.bucket.ref, u.ref} :
              /\ done' = (done \ {e, h}) \cup {[h EXCEPT !.bucket = Fold(@, u, ref)]}
              /\ UNCHANGED <<open, closed, late, events>>
    BY <1>2, <2>1, <2>3, HomeMoves
  <2>4. CASE \E b \in live : \E ref \in {b.ref, u.ref} :
              /\ open' = (open \ {b}) \cup {Fold(b, u, ref)} /\ done' = done \ {e}
              /\ UNCHANGED <<closed, late, events>>
    BY <1>2, <2>1, <2>4, LiveMoves
  <2>5. CASE late' = late \cup u.copies /\ done' = done \ {e} /\ UNCHANGED <<open, closed, events>>
    <3>1. Pending' = Pending \ {u} /\ Filed'
      BY <1>2, <2>5, EntryLeaves
    <3>2. Drops(u)
      BY <1>2, <1>3, <2>1, <2>5, <3>1 DEF Drops
    <3>3. QED
      BY <1>3, <3>1, <3>2 DEF Moves
  <2>6. CASE Finish(u, key, TRUE) /\ done' = done \ {e} /\ UNCHANGED <<open, late>>
    BY <1>4, <2>6
  <2>7. QED
    BY <2>2, <2>3, <2>4, <2>5, <2>6
<1>8. QED
  BY <1>1, <1>5, <1>6, <1>7

\* Whatever happens is one of the moves, and every bucket stays in one table.
LEMMA NextMoves ==
  ASSUME Shape, Shape', Filed, Apart, Numbered, Told, [Next]_vars
  PROVE  Moves /\ Filed'
<1>1. ASSUME UNCHANGED <<open, ready, done, events, late, copies, stopped>> PROVE Moves /\ Filed'
  <2>1. Pending' = Pending
    BY <1>1 DEF Pending
  <2>2. QED
    BY <1>1, <2>1 DEF Moves, Stays, Filed, InDone
<1>2. CASE UNCHANGED vars
  BY <1>1, <1>2 DEF vars
<1>3. CASE Tick
  BY <1>1, <1>3 DEF Tick
<1>4. CASE \E m \in Message : Transmit(m)
  BY <1>1, <1>4 DEF Transmit
<1>5. CASE Arrive
  <2>1. PICK t \in sent, off \in 0..Spread, hop \in Hop, kind \in Kind : Add(CopyOf(t, off, hop, kind))
    BY <1>5 DEF Arrive
  <2>2. copies < MaxCopies
    BY <2>1 DEF Add
  <2>3. QED
    BY <2>1, <2>2, CopyOfFacts, AddMoves
<1>6. CASE PopReady
  BY <1>6, PopReadyMoves
<1>7. CASE Flush
  BY <1>7, FlushMoves
<1>8. CASE Emit
  BY <1>8, EmitMoves
<1>9. QED
  BY <1>2, <1>3, <1>4, <1>5, <1>6, <1>7, <1>8 DEF Next

(***************************************************************************)
(* The shape of the tables is kept.                                        *)
(***************************************************************************)

\* The number an event is given is one.
LEMMA IndexType ==
  ASSUME Shape, NEW key
  PROVE  RepeatIndex(key) \in Nat
<1>1. \A s \in closed : s.index \in Nat
  BY DEF Shape, Tables, Memory
<1>2. CASE \E s \in closed : s.key = key
  <2> DEFINE s == CHOOSE s \in closed : s.key = key
  <2>1. s \in closed
    BY <1>2
  <2>2. RepeatIndex(key) = s.index + 1
    BY <1>2 DEF RepeatIndex
  <2> HIDE DEF s
  <2>3. QED
    BY <1>1, <2>1, <2>2
<1>3. CASE ~\E s \in closed : s.key = key
  BY <1>3 DEF RepeatIndex
<1>4. QED
  BY <1>2, <1>3

\* _finish adds an event and remembers it.
LEMMA FinishTypes ==
  ASSUME Shape, NEW u \in Bucket, NEW key \in Key, NEW verified \in BOOLEAN, Finish(u, key, verified)
  PROVE  closed' \subseteq Memory /\ events' \subseteq Event /\ IsFiniteSet(events')
<1> DEFINE m  == [key |-> key, at |-> popAt, index |-> RepeatIndex(key), first |-> u.opened, last |-> u.last]
           ev == [n |-> Cardinality(events) + 1, key |-> key, copies |-> u.copies,
                  index |-> RepeatIndex(key), first |-> u.opened, verified |-> verified, at |-> popAt]
<1>1. closed' = {s \in closed : s.key # key} \cup {m} /\ events' = events \cup {ev}
  BY DEF Finish
<1>2. /\ popAt \in Time /\ RepeatIndex(key) \in Nat /\ u.opened \in Nat /\ u.last \in Nat /\ u.copies \subseteq Copy
      /\ Cardinality(events) \in Nat
  BY IndexType, BucketFacts, FS_CardinalityType DEF Shape, Clocks, Tables
<1>3. m \in Memory
  BY <1>2 DEF Memory
<1>4. ev \in Event
  <2>1. Cardinality(events) + 1 \in Nat /\ popAt \in Nat
    BY <1>2, Constants DEF Time
  <2>2. QED
    BY <1>2, <2>1 DEF Event
<1> HIDE DEF m, ev
<1>5. closed \subseteq Memory /\ events \subseteq Event /\ IsFiniteSet(events)
  BY DEF Shape, Tables
<1>6. QED
  BY <1>1, <1>3, <1>4, <1>5, FS_AddElement

\* What Place leaves open are buckets.
LEMMA PlaceTypes ==
  ASSUME Shape, NEW c \in Copy, NEW buckets \in SUBSET Bucket, Place(c, buckets)
  PROVE  open' \subseteq Bucket
<1>1. CASE open' = buckets \cup {NewBucket(c)}
  BY <1>1, NewBucketFacts
<1>2. CASE \E b \in buckets : open' = (buckets \ {b}) \cup {AddTo(b, c, b.ref)}
  <2>1. PICK b \in buckets : open' = (buckets \ {b}) \cup {AddTo(b, c, b.ref)}
    BY <1>2
  <2>2. AddTo(b, c, b.ref) \in Bucket
    BY BucketFacts, AddToFacts
  <2>3. QED
    BY <2>1, <2>2
<1>3. QED
  BY <1>1, <1>2, PlaceFacts

\* Fusion.add changes buckets into buckets.
LEMMA AddTables ==
  ASSUME Shape, NEW c \in Copy, Add(c)
  PROVE  Tables'
<1>1. /\ closed' = closed /\ done' = done /\ events' = events /\ Tables
      /\ JoinExact(c) \/ EndOlder(c) \/ CountLate(c) \/ OpenNew(c)
  BY DEF Add, Shape
<1>2. open \subseteq Bucket /\ ready \subseteq Bucket /\ late \subseteq Copy
  BY DEF Shape, Tables
<1>3. open' \subseteq Bucket /\ ready' \subseteq Bucket /\ late' \subseteq Copy
  <2>1. CASE JoinExact(c)
    <3>1. PICK b \in open : /\ ready' = ready /\ late' = late
                            /\ \E ref \in {b.ref, RefOf(c)} : open' = (open \ {b}) \cup {AddTo(b, c, ref)}
      BY <2>1 DEF JoinExact
    <3>2. PICK ref \in {b.ref, RefOf(c)} : open' = (open \ {b}) \cup {AddTo(b, c, ref)}
      BY <3>1
    <3>3. b \in Bucket /\ ref \in Ref
      BY <1>2, BucketFacts, CopyFacts
    <3>4. AddTo(b, c, ref) \in Bucket
      BY <3>3, AddToFacts
    <3>5. QED
      BY <1>2, <3>1, <3>2, <3>4
  <2>2. CASE EndOlder(c)
    <3>1. PICK b \in open : ready' = ready \cup {b} /\ late' = late /\ Place(c, open \ {b})
      BY <2>2 DEF EndOlder
    <3>2. QED
      BY <1>2, <3>1, PlaceTypes
  <2>3. CASE CountLate(c)
    BY <1>2, <2>3 DEF CountLate
  <2>4. CASE OpenNew(c)
    BY <1>2, <2>4, PlaceTypes DEF OpenNew
  <2>5. QED
    BY <1>1, <2>1, <2>2, <2>3, <2>4
<1>4. QED
  BY <1>1, <1>3 DEF Tables

\* So does _emit, and what it hands over are events.
LEMMA EmitTables ==
  ASSUME Shape, Emit
  PROVE  Tables'
<1>1. PICK e \in done : EmitDamaged(e) \/ EmitRepaired(e) \/ EmitVerified(e)
  BY DEF Emit
<1>2. ready' = ready
  BY DEF Emit
<1>3. /\ open \subseteq Bucket /\ ready \subseteq Bucket /\ done \subseteq [bucket: Bucket, pos: Nat]
      /\ closed \subseteq Memory /\ events \subseteq Event /\ late \subseteq Copy /\ IsFiniteSet(events)
  BY DEF Shape, Tables
<1> DEFINE u == e.bucket
           key == RealKey(u.key.msg)
<1>4. u \in Bucket /\ u.key \in Key /\ key \in Key /\ u.copies \subseteq Copy /\ u.ref \in Ref
  <2>1. u \in Bucket
    BY <1>3
  <2>2. u.key \in Key /\ u.copies \subseteq Copy /\ u.ref \in Ref
    BY <2>1, BucketFacts
  <2>3. QED
    BY <2>1, <2>2 DEF Key, RealKey
<1>5. ASSUME NEW k \in {u.key, key}, NEW verified \in BOOLEAN, Finish(u, k, verified), done' = done \ {e},
             UNCHANGED <<open, late>>
      PROVE  Tables'
  BY <1>2, <1>3, <1>4, <1>5, FinishTypes DEF Tables
<1>6. CASE EmitDamaged(e)
  BY <1>5, <1>6 DEF EmitDamaged
<1>7. CASE EmitVerified(e)
  BY <1>5, <1>7 DEF EmitVerified
<1>8. CASE EmitRepaired(e)
  <2>1. \/ \E h \in done : \E ref \in {h.bucket.ref, u.ref} :
              /\ done' = (done \ {e, h}) \cup {[h EXCEPT !.bucket = Fold(@, u, ref)]}
              /\ UNCHANGED <<open, closed, late, events>>
        \/ \E b \in open : \E ref \in {b.ref, u.ref} :
              /\ open' = (open \ {b}) \cup {Fold(b, u, ref)} /\ done' = done \ {e}
              /\ UNCHANGED <<closed, late, events>>
        \/ late' = late \cup u.copies /\ done' = done \ {e} /\ UNCHANGED <<open, closed, events>>
        \/ Finish(u, key, TRUE) /\ done' = done \ {e} /\ UNCHANGED <<open, late>>
    BY <1>8 DEF EmitRepaired
  <2>2. ASSUME NEW h \in done, NEW ref \in {h.bucket.ref, u.ref},
               done' = (done \ {e, h}) \cup {[h EXCEPT !.bucket = Fold(@, u, ref)]},
               UNCHANGED <<open, closed, late, events>>
        PROVE  Tables'
    <3> DEFINE f == Fold(h.bucket, u, ref)
               k == [h EXCEPT !.bucket = f]
    <3>1. h \in [bucket: Bucket, pos: Nat] /\ h.bucket \in Bucket /\ h.bucket.ref \in Ref
      BY <1>3, BucketFacts
    <3>2. f \in Bucket
      BY <1>4, <3>1, FoldFacts
    <3>3. done' = (done \ {e, h}) \cup {k}
      BY <2>2
    <3> HIDE DEF f
    <3>4. k \in [bucket: Bucket, pos: Nat]
      BY <3>1, <3>2
    <3> HIDE DEF k
    <3>5. QED
      BY <1>2, <1>3, <2>2, <3>3, <3>4 DEF Tables
  <2>3. ASSUME NEW b \in open, NEW ref \in {b.ref, u.ref}, open' = (open \ {b}) \cup {Fold(b, u, ref)},
               done' = done \ {e}, UNCHANGED <<closed, late, events>>
        PROVE  Tables'
    <3>1. b \in Bucket /\ b.ref \in Ref
      BY <1>3, BucketFacts
    <3>2. Fold(b, u, ref) \in Bucket
      BY <1>4, <3>1, FoldFacts
    <3>3. QED
      BY <1>2, <1>3, <2>3, <3>2 DEF Tables
  <2>4. CASE late' = late \cup u.copies /\ done' = done \ {e} /\ UNCHANGED <<open, closed, events>>
    BY <1>2, <1>3, <1>4, <2>4 DEF Tables
  <2>5. CASE Finish(u, key, TRUE) /\ done' = done \ {e} /\ UNCHANGED <<open, late>>
    BY <1>5, <2>5
  <2>6. QED
    BY <2>1, <2>2, <2>3, <2>4, <2>5
<1>9. QED
  BY <1>1, <1>6, <1>7, <1>8

\* A transmission is one more, numbered behind the others.
LEMMA TransmitShape ==
  ASSUME Shape, NEW m \in Message, Transmit(m)
  PROVE  SentShape'
<1> DEFINE n == Cardinality(sent)
           t == [n |-> n + 1, msg |-> m, at |-> clock]
<1>1. /\ IsFiniteSet(sent) /\ n \in Nat /\ n < MaxSent /\ clock \in Nat /\ clock' = clock
      /\ \A u \in sent : u.n \in 1..n /\ u.msg \in Message /\ u.at \in 0..clock
      /\ \A u, v \in sent : u.n = v.n => u = v
      /\ \A u, v \in sent : u.msg = v.msg /\ u # v => u.at - v.at >= Gap \/ v.at - u.at >= Gap
      /\ \A u \in sent : u.msg = m => clock - u.at >= Gap
      /\ sent' = sent \cup {t}
  BY FS_CardinalityType, Constants DEF Shape, SentShape, Clocks, Transmit, Time
<1>2. t.n = n + 1 /\ t.msg = m /\ t.at = clock
  OBVIOUS
<1> HIDE DEF t
<1>3. t \notin sent
  BY <1>1, <1>2
<1>4. IsFiniteSet(sent') /\ Cardinality(sent') = n + 1
  BY <1>1, <1>3, FS_AddElement
<1> HIDE DEF n
<1>5. n + 1 \in 0..MaxSent
  BY <1>1, Constants
<1>6. \A u \in sent' : u.n \in 1..(n + 1) /\ u.msg \in Message /\ u.at \in 0..clock
  <2> TAKE u \in sent'
  <2>1. CASE u \in sent
    BY <1>1, <2>1
  <2>2. CASE u = t
    BY <1>1, <1>2, <2>2
  <2>3. QED
    BY <1>1, <2>1, <2>2
<1>7. \A u \in sent : t.n # u.n
  BY <1>1, <1>2
<1>8. \A u, v \in sent' : u.n = v.n => u = v
  BY <1>1, <1>7
<1>9. \A u \in sent : u.msg = t.msg => t.at - u.at >= Gap
  BY <1>1, <1>2
<1>10. \A u, v \in sent' : u.msg = v.msg /\ u # v => u.at - v.at >= Gap \/ v.at - u.at >= Gap
  BY <1>1, <1>9
<1>11. QED
  BY <1>1, <1>4, <1>5, <1>6, <1>8, <1>10 DEF SentShape

\* Every step keeps the shape.
LEMMA ShapeKept == Shape /\ [Next]_vars => Shape'
<1> SUFFICES ASSUME Shape, [Next]_vars PROVE Shape'
  OBVIOUS
<1>1. Clocks /\ SentShape /\ Tables
  BY DEF Shape
<1>2. clock \in Nat /\ clock <= MaxTime /\ copies \in Nat
  BY Constants DEF Shape, Clocks, Time
<1>3. ASSUME sent' = sent, clock' \in Nat, clock' >= clock PROVE SentShape'
  <2>1. \A t \in sent : t.at \in 0..clock => t.at \in 0..clock'
    BY <1>2, <1>3
  <2>2. QED
    BY <1>1, <1>3, <2>1 DEF SentShape
<1>4. CASE UNCHANGED vars
  <2>1. UNCHANGED <<clock, sent, copies, open, ready, closed, done, popAt, stopped, late, events>>
    BY <1>4 DEF vars
  <2>2. Clocks' /\ Tables'
    BY <1>1, <2>1 DEF Clocks, Tables
  <2>3. SentShape'
    BY <1>2, <1>3, <2>1
  <2>4. QED
    BY <2>2, <2>3 DEF Shape
<1>5. CASE Tick
  <2>1. clock' = clock + 1 /\ clock < MaxTime
        /\ UNCHANGED <<sent, copies, open, ready, closed, done, popAt, stopped, late, events>>
    BY <1>5 DEF Tick
  <2>2. Clocks'
    BY <1>1, <1>2, <2>1, Constants DEF Clocks, Time
  <2>3. Tables'
    BY <1>1, <2>1 DEF Tables
  <2>4. SentShape'
    BY <1>2, <1>3, <2>1
  <2>5. QED
    BY <2>2, <2>3, <2>4 DEF Shape
<1>6. ASSUME NEW m \in Message, Transmit(m) PROVE Shape'
  <2>1. UNCHANGED <<clock, copies, open, ready, closed, done, popAt, stopped, late, events>>
    BY <1>6 DEF Transmit
  <2>2. Clocks' /\ Tables'
    BY <1>1, <2>1 DEF Clocks, Tables
  <2>3. SentShape'
    BY <1>6, TransmitShape
  <2>4. QED
    BY <2>2, <2>3 DEF Shape
<1>7. CASE Arrive
  <2>1. PICK t \in sent, off \in 0..Spread, hop \in Hop, kind \in Kind : Add(CopyOf(t, off, hop, kind))
    BY <1>7 DEF Arrive
  <2>2. copies < MaxCopies /\ copies' = copies + 1 /\ UNCHANGED <<clock, sent, popAt, stopped>>
    BY <2>1 DEF Add
  <2>3. Tables'
    BY <2>1, <2>2, CopyOfFacts, AddTables
  <2>4. Clocks'
    BY <1>1, <1>2, <2>2, Constants DEF Clocks
  <2>5. SentShape'
    BY <1>2, <1>3, <2>2
  <2>6. QED
    BY <2>3, <2>4, <2>5 DEF Shape
<1>8. ASSUME PopReady \/ Flush PROVE Shape'
  <2>1. /\ popAt' = clock /\ UNCHANGED <<clock, sent, copies, late, events>> /\ stopped' \in BOOLEAN
        /\ closed' \subseteq closed /\ open' \subseteq open /\ ready' = {}
        /\ \E over \in SUBSET (open \cup ready) : done' = ToEmit(over)
    <3>1. CASE PopReady
      <4> DEFINE over == {b \in open : IsClosed(b, clock)}
      <4>1. /\ popAt' = clock /\ UNCHANGED <<clock, sent, copies, late, events, stopped>>
            /\ closed' \subseteq closed /\ open' \subseteq open /\ ready' = {} /\ done' = ToEmit(ready \cup over)
        BY <3>1 DEF PopReady
      <4>2. ready \cup over \in SUBSET (open \cup ready)
        OBVIOUS
      <4> HIDE DEF over
      <4>3. QED
        BY <1>1, <4>1, <4>2 DEF Clocks
    <3>2. CASE Flush
      BY <3>2 DEF Flush, Flushed
    <3>3. QED
      BY <1>8, <3>1, <3>2
  <2>2. done' \subseteq [bucket: Bucket, pos: Nat]
    <3>1. PICK over \in SUBSET (open \cup ready) : done' = ToEmit(over)
      BY <2>1
    <3>2. \A b \in over : b \in Bucket /\ b.opened \in Nat
      BY <1>1, BucketFacts DEF Tables
    <3>3. \A b \in over : [bucket |-> b, pos |-> b.opened] \in [bucket: Bucket, pos: Nat]
      BY <3>2
    <3>4. QED
      BY <3>1, <3>3 DEF ToEmit
  <2>3. Tables'
    BY <1>1, <2>1, <2>2 DEF Tables
  <2>4. Clocks'
    BY <1>1, <1>2, <2>1 DEF Clocks
  <2>5. SentShape'
    BY <1>2, <1>3, <2>1
  <2>6. QED
    BY <2>3, <2>4, <2>5 DEF Shape
<1>9. CASE Emit
  <2>1. UNCHANGED <<clock, sent, copies, popAt, stopped>>
    BY <1>9 DEF Emit
  <2>2. Clocks'
    BY <1>1, <2>1 DEF Clocks
  <2>3. SentShape'
    BY <1>2, <1>3, <2>1
  <2>4. QED
    BY <1>9, <2>2, <2>3, EmitTables DEF Shape
<1>10. QED
  BY <1>4, <1>5, <1>6, <1>7, <1>8, <1>9 DEF Next

\* An event's place among those of its call.
LEMMA PlaceInCall ==
  ASSUME NEW out, IsFiniteSet(out), NEW e \in out, \A f \in out : f.first \in Nat /\ f.n \in Nat
  PROVE  Cardinality({f \in out : Before(f, e)}) \in 0..(Cardinality(out) - 1)
<1> DEFINE ahead == {f \in out : Before(f, e)}
<1>1. ~Before(e, e)
  BY DEF Before
<1>2. ahead \subseteq out \ {e}
  BY <1>1
<1>3. IsFiniteSet(out \ {e}) /\ Cardinality(out \ {e}) = Cardinality(out) - 1
  BY FS_RemoveElement
<1>4. IsFiniteSet(ahead) /\ Cardinality(ahead) <= Cardinality(out) - 1
  BY <1>2, <1>3, FS_Subset
<1>5. Cardinality(ahead) \in Nat /\ Cardinality(out) \in Nat
  BY <1>4, FS_CardinalityType
<1>6. QED
  BY <1>4, <1>5

\* With the last bucket of a call its events are returned, behind the earlier ones.
LEMMA HandOverPlaces ==
  ASSUME Shape, Shape', Returned, HandOver, events \subseteq events', done' = {}
  PROVE  /\ DOMAIN handed' = events'
         /\ \A e \in DOMAIN handed : handed'[e] = handed[e]
         /\ \A e \in events' \ DOMAIN handed :
               /\ handed'[e] = Cardinality(DOMAIN handed) + 1
                                 + Cardinality({f \in events' \ DOMAIN handed : Before(f, e)})
               /\ handed'[e] \in (Cardinality(DOMAIN handed) + 1)..Cardinality(events')
         /\ Cardinality(DOMAIN handed) \in 0..Cardinality(events')
<1> DEFINE out == events' \ DOMAIN handed
           old == DOMAIN handed
<1>1. IsFiniteSet(events') /\ \A f \in events' : f.first \in Nat /\ f.n \in Nat
  BY DEF Shape, Tables, Event
<1>2. old \subseteq events'
  BY DEF Returned
<1>3. /\ IsFiniteSet(old) /\ IsFiniteSet(out) /\ Cardinality(old) \in Nat /\ Cardinality(out) \in Nat
      /\ Cardinality(events') = Cardinality(old) + Cardinality(out)
  <2>1. IsFiniteSet(old) /\ IsFiniteSet(out)
    BY <1>1, <1>2, FS_Subset
  <2>2. events' = old \cup out /\ old \cap out = {}
    BY <1>2
  <2>3. Cardinality(old \cup out) = Cardinality(old) + Cardinality(out) - Cardinality(old \cap out)
    BY <2>1, FS_Union
  <2>4. QED
    <3> HIDE DEF old, out
    <3>1. Cardinality(old) \in Nat /\ Cardinality(out) \in Nat /\ Cardinality(old \cap out) = 0
      BY <2>1, <2>2, FS_CardinalityType, FS_EmptySet
    <3>2. Cardinality(events') = Cardinality(old) + Cardinality(out)
      BY <2>2, <2>3, <3>1
    <3>3. QED
      BY <2>1, <3>1, <3>2
<1>4. handed' = [e \in events' |->
                    IF e \in old THEN handed[e]
                    ELSE Cardinality(old) + 1 + Cardinality({f \in out : Before(f, e)})]
  <2>1. handed' = IF done' # {} THEN handed
                  ELSE [e \in events' |->
                           IF e \in old THEN handed[e]
                           ELSE Cardinality(old) + 1 + Cardinality({f \in out : Before(f, e)})]
    BY Zenon DEF HandOver
  <2>2. QED
    BY <2>1
<1>5. \A e \in out : Cardinality({f \in out : Before(f, e)}) \in 0..(Cardinality(out) - 1)
  BY <1>1, <1>3, PlaceInCall
<1> HIDE DEF out, old
<1>6. \A e \in out : e \in events' /\ e \notin old
  BY DEF out, old
<1>7. \A e \in out : handed'[e] = Cardinality(old) + 1 + Cardinality({f \in out : Before(f, e)})
  BY <1>4, <1>6
<1>8. \A e \in out : handed'[e] \in (Cardinality(old) + 1)..Cardinality(events')
  <2> TAKE e \in out
  <2> DEFINE k == Cardinality({f \in out : Before(f, e)})
  <2>1. k \in 0..(Cardinality(out) - 1) /\ handed'[e] = Cardinality(old) + 1 + k
    BY <1>5, <1>7
  <2> HIDE DEF k
  <2>2. QED
    BY <1>3, <2>1
<1>9. DOMAIN handed' = events' /\ \A e \in old : handed'[e] = handed[e]
  BY <1>2, <1>4
<1>10. Cardinality(old) \in 0..Cardinality(events')
  BY <1>3
<1>11. QED
  BY <1>7, <1>8, <1>9, <1>10 DEF out, old

\* An event of _emit stays.
LEMMA EmitAddsEvents ==
  ASSUME Emit
  PROVE  events \subseteq events'
<1>1. PICK e \in done : EmitDamaged(e) \/ EmitRepaired(e) \/ EmitVerified(e)
  BY DEF Emit
<1>2. CASE EmitDamaged(e)
  BY <1>2 DEF EmitDamaged, Finish
<1>3. CASE EmitRepaired(e)
  BY <1>3 DEF EmitRepaired, Finish
<1>4. CASE EmitVerified(e)
  BY <1>4 DEF EmitVerified, Finish
<1>5. QED
  BY <1>1, <1>2, <1>3, <1>4

\* Every step keeps the events' places.
LEMMA ReturnedKept ==
  ASSUME Shape, Returned, [Next]_vars
  PROVE  Returned'
<1>1. CASE UNCHANGED <<events, handed, done>>
  BY <1>1 DEF Returned
<1>2. CASE PopReady \/ Flush
  <2>1. done = {} /\ UNCHANGED <<events, handed>>
    BY <1>2 DEF PopReady, Flush
  <2>2. QED
    BY <2>1 DEF Returned
<1>3. CASE Emit
  <2>1. events \subseteq events' /\ HandOver /\ Shape'
    BY <1>3, EmitAddsEvents, ShapeKept DEF Emit
  <2>2. CASE done' # {}
    <3>1. handed' = handed
      BY <2>1, <2>2 DEF HandOver
    <3>2. QED
      BY <2>1, <2>2, <3>1 DEF Returned
  <2>3. CASE done' = {}
    <3>1. /\ DOMAIN handed' = events' /\ \A e \in DOMAIN handed : handed'[e] = handed[e]
          /\ \A e \in events' \ DOMAIN handed :
                handed'[e] \in (Cardinality(DOMAIN handed) + 1)..Cardinality(events')
          /\ Cardinality(DOMAIN handed) \in 0..Cardinality(events')
      BY <2>1, <2>3, HandOverPlaces
    <3>2. Cardinality(DOMAIN handed) \in Nat /\ Cardinality(events') \in Nat
      <4>1. IsFiniteSet(events')
        BY <2>1 DEF Shape, Tables
      <4>2. QED
        BY <3>1, <4>1, FS_CardinalityType
    <3>3. \A e \in events' : handed'[e] \in 1..Cardinality(events')
      <4> TAKE e \in events'
      <4>1. CASE e \in DOMAIN handed
        BY <3>1, <3>2, <4>1 DEF Returned
      <4>2. CASE e \notin DOMAIN handed
        BY <3>1, <3>2, <4>2
      <4>3. QED
        BY <4>1, <4>2
    <3>4. QED
      BY <3>1, <3>3 DEF Returned
  <2>4. QED
    BY <2>2, <2>3
<1>4. QED
  BY <1>1, <1>2, <1>3 DEF Next, vars, Tick, Transmit, Arrive, Add

(***************************************************************************)
(* Every copy in one place.                                                *)
(***************************************************************************)

\* Where a copy may be.
LEMMA WhereDelivered ==
  \A c : c \in Delivered <=> \/ \E b \in Pending : c \in b.copies
                             \/ \E e \in events : c \in e.copies
                             \/ c \in late
<1> DEFINE P == UNION {b.copies : b \in Pending}
           E == UNION {e.copies : e \in events}
<1>1. \A c : c \in P <=> \E b \in Pending : c \in b.copies
  OBVIOUS
<1>2. \A c : c \in E <=> \E e \in events : c \in e.copies
  OBVIOUS
<1>3. Delivered = (P \cup E) \cup late
  BY DEF Delivered
<1> HIDE DEF P, E
<1>4. QED
  BY <1>1, <1>2, <1>3

\* And after a step.
LEMMA WhereDeliveredNext ==
  \A x : x \in Delivered' <=> \/ \E b \in Pending' : x \in b.copies
                              \/ \E e \in events' : x \in e.copies
                              \/ x \in late'
<1> DEFINE P == UNION {b.copies : b \in Pending'}
           E == UNION {e.copies : e \in events'}
<1>1. \A x : x \in P <=> \E b \in Pending' : x \in b.copies
  OBVIOUS
<1>2. \A x : x \in E <=> \E e \in events' : x \in e.copies
  OBVIOUS
<1>3. Delivered' = (P \cup E) \cup late'
  BY DEF Delivered
<1> HIDE DEF P, E
<1>4. QED
  BY <1>1, <1>2, <1>3

\* The event _finish makes of a bucket.
EventOf(u, key, verified) ==
  [n |-> Cardinality(events) + 1, key |-> key, copies |-> u.copies,
   index |-> RepeatIndex(key), first |-> u.opened, verified |-> verified, at |-> popAt]

\* It has the bucket's copies.
LEMMA FinishFacts ==
  ASSUME NEW u, NEW key, NEW verified, Finish(u, key, verified)
  PROVE  /\ events' = events \cup {EventOf(u, key, verified)}
         /\ EventOf(u, key, verified).copies = u.copies /\ EventOf(u, key, verified).key = key
         /\ EventOf(u, key, verified).n = Cardinality(events) + 1
         /\ EventOf(u, key, verified).index = RepeatIndex(key) /\ EventOf(u, key, verified).at = popAt
         /\ EventOf(u, key, verified).first = u.opened
         /\ closed' = {s \in closed : s.key # key}
                      \cup {[key |-> key, at |-> popAt, index |-> RepeatIndex(key),
                             first |-> u.opened, last |-> u.last]}
BY DEF Finish, EventOf

\* A bucket has the copies of its old self, and one or a bucket's more.
LEMMA CopiesOf ==
  ASSUME Shape
  PROVE  /\ \A c \in Copy : \A x : x \in NewBucket(c).copies <=> x = c
         /\ \A c \in Copy, b \in Pending, ref \in Ref : \A x : x \in AddTo(b, c, ref).copies <=> x \in b.copies \/ x = c
         /\ \A b, u \in Pending, ref \in Ref : \A x : x \in Fold(b, u, ref).copies <=> x \in b.copies \/ x \in u.copies
<1>1. Pending \subseteq Bucket
  BY PendingFacts
<1>2. \A c \in Copy : \A x : x \in NewBucket(c).copies <=> x = c
  BY NewBucketFacts
<1>3. \A c \in Copy, b \in Pending, ref \in Ref : \A x : x \in AddTo(b, c, ref).copies <=> x \in b.copies \/ x = c
  BY <1>1, AddToFacts
<1>4. \A b, u \in Pending, ref \in Ref : \A x : x \in Fold(b, u, ref).copies <=> x \in b.copies \/ x \in u.copies
  BY <1>1, FoldFacts
<1>5. QED
  BY <1>2, <1>3, <1>4

\* A step delivers one copy or none, and loses none.
LEMMA DeliveredMoves ==
  ASSUME Shape, Moves
  PROVE  \/ Delivered' = Delivered /\ copies' = copies
         \/ \E c \in Copy : Arriving(c) /\ \A x : x \in Delivered' <=> x \in Delivered \/ x = c
<1>1. \A x : x \in Delivered <=> \/ \E b \in Pending : x \in b.copies
                                 \/ \E e \in events : x \in e.copies
                                 \/ x \in late
  BY WhereDelivered
<1>2. \A x : x \in Delivered' <=> \/ \E b \in Pending' : x \in b.copies
                                  \/ \E e \in events' : x \in e.copies
                                  \/ x \in late'
  BY WhereDeliveredNext
<1>3. CASE Stays
  BY <1>1, <1>2, <1>3 DEF Stays
<1>4. ASSUME NEW c \in Copy, Opens(c) \/ GoesLate(c) \/ \E b \in open, ref \in Ref : Joins(c, b, ref)
      PROVE  Arriving(c) /\ \A x : x \in Delivered' <=> x \in Delivered \/ x = c
  <2>1. CASE Opens(c)
    <3>1. Arriving(c) /\ Pending' = Pending \cup {NewBucket(c)} /\ late' = late /\ events' = events
      BY <2>1 DEF Opens, Arriving
    <3>2. \A x : x \in NewBucket(c).copies <=> x = c
      BY CopiesOf
    <3>3. QED
      BY <1>1, <1>2, <3>1, <3>2
  <2>2. CASE GoesLate(c)
    BY <1>1, <1>2, <2>2 DEF GoesLate, Arriving
  <2>3. ASSUME NEW b \in open, NEW ref \in Ref, Joins(c, b, ref)
        PROVE  Arriving(c) /\ \A x : x \in Delivered' <=> x \in Delivered \/ x = c
    <3> DEFINE a == AddTo(b, c, ref)
    <3>1. /\ Arriving(c) /\ Pending' = (Pending \ {b}) \cup {a} /\ late' = late /\ events' = events
          /\ b \in Pending
      BY <2>3, PendingFacts DEF Joins, Arriving
    <3>2. \A x : x \in a.copies <=> x \in b.copies \/ x = c
      BY <3>1, CopiesOf
    <3> HIDE DEF a
    <3>3. QED
      BY <1>1, <1>2, <3>1, <3>2
  <2>4. QED
    BY <1>4, <2>1, <2>2, <2>3
<1>5. ASSUME NEW u \in Pending, NEW h \in Pending, NEW ref \in Ref, Folds(u, h, ref)
      PROVE  Delivered' = Delivered /\ copies' = copies
  <2> DEFINE f == Fold(h, u, ref)
  <2>1. Pending' = (Pending \ {u, h}) \cup {f} /\ UNCHANGED <<events, late, copies>>
    BY <1>5 DEF Folds
  <2>2. \A x : x \in f.copies <=> x \in h.copies \/ x \in u.copies
    BY CopiesOf
  <2> HIDE DEF f
  <2>3. \A x : x \in Delivered' <=> x \in Delivered
    BY <1>1, <1>2, <2>1, <2>2
  <2>4. QED
    BY <2>1, <2>3
<1>6. ASSUME NEW u \in Pending, Drops(u)
      PROVE  Delivered' = Delivered /\ copies' = copies
  <2>1. Pending' = Pending \ {u} /\ late' = late \cup u.copies /\ UNCHANGED <<events, copies>>
    BY <1>6 DEF Drops
  <2>2. \A x : x \in Delivered' <=> x \in Delivered
    BY <1>1, <1>2, <2>1
  <2>3. QED
    BY <2>1, <2>2
<1>7. ASSUME NEW u \in Pending, NEW key \in Key, NEW verified \in BOOLEAN, Finishes(u, key, verified)
      PROVE  Delivered' = Delivered /\ copies' = copies
  <2>1. Pending' = Pending \ {u} /\ UNCHANGED <<late, copies>>
    BY <1>7 DEF Finishes
  <2> DEFINE ev == EventOf(u, key, verified)
  <2>2. events' = events \cup {ev} /\ ev.copies = u.copies
    BY <1>7, FinishFacts DEF Finishes
  <2> HIDE DEF ev
  <2>3. \A x : x \in Delivered' <=> x \in Delivered
    BY <1>1, <1>2, <2>1, <2>2
  <2>4. QED
    BY <2>1, <2>3
<1>8. QED
  BY <1>3, <1>4, <1>5, <1>6, <1>7 DEF Moves

\* The numbers of the copies stay theirs.
LEMMA NumberedKept ==
  ASSUME Shape, Moves, Numbered
  PROVE  Numbered'
<1>1. copies \in Nat
  BY Constants DEF Shape, Clocks
<1>2. CASE Delivered' = Delivered /\ copies' = copies
  BY <1>2 DEF Numbered
<1>3. ASSUME NEW c \in Copy, Arriving(c), \A x : x \in Delivered' <=> x \in Delivered \/ x = c
      PROVE  Numbered'
  <2>1. c.id = copies + 1 /\ copies' = copies + 1
    BY <1>3 DEF Arriving
  <2>2. \A d \in Delivered : d.id \in 1..copies
    BY DEF Numbered
  <2>3. \A d \in Delivered' : d.id \in 1..copies'
    BY <1>1, <1>3, <2>1, <2>2
  <2>4. \A d, x \in Delivered' : d.id = x.id => d = x
    BY <1>1, <1>3, <2>1, <2>2 DEF Numbered
  <2>5. \A i \in 1..copies' : \E d \in Delivered' : d.id = i
    <3> TAKE i \in 1..copies'
    <3>1. CASE i \in 1..copies
      <4>1. PICK d \in Delivered : d.id = i
        BY <3>1 DEF Numbered
      <4>2. QED
        BY <1>3, <4>1
    <3>2. CASE i = copies + 1
      BY <1>3, <2>1, <3>2
    <3>3. QED
      BY <1>1, <2>1, <3>1, <3>2
  <2>6. QED
    BY <2>3, <2>4, <2>5 DEF Numbered
<1>4. QED
  BY <1>2, <1>3, DeliveredMoves

\* No two buckets, events or late copies come to share a copy.
LEMMA ApartKept ==
  ASSUME Shape, Moves, Numbered, Apart
  PROVE  Apart'
<1>1. /\ \A b1, b2 \in Pending : b1 # b2 => b1.copies \cap b2.copies = {}
      /\ \A e1, e2 \in events : e1 # e2 => e1.copies \cap e2.copies = {}
      /\ \A b \in Pending, e \in events : b.copies \cap e.copies = {}
      /\ \A b \in Pending : b.copies \cap late = {}
      /\ \A e \in events : e.copies \cap late = {}
  BY DEF Apart
<1>2. CASE Stays
  BY <1>1, <1>2 DEF Stays, Apart
<1>3. ASSUME NEW c \in Copy, Opens(c) \/ GoesLate(c) \/ \E b \in open, ref \in Ref : Joins(c, b, ref)
      PROVE  Apart'
  <2>0. Arriving(c)
    BY <1>3 DEF Opens, GoesLate, Joins
  <2>1. /\ \A b \in Pending : c \notin b.copies
        /\ \A e \in events : c \notin e.copies
        /\ c \notin late /\ events' = events
    <3>1. c \notin Delivered
      BY <2>0, NewCopy DEF Arriving
    <3>2. QED
      BY <2>0, <3>1, WhereDelivered DEF Arriving
  <2>2. CASE Opens(c)
    <3> DEFINE a == NewBucket(c)
    <3>1. Pending' = Pending \cup {a} /\ late' = late
      BY <2>2 DEF Opens
    <3>2. \A x : x \in a.copies <=> x = c
      BY CopiesOf
    <3> HIDE DEF a
    <3>3. QED
      BY <1>1, <2>1, <3>1, <3>2 DEF Apart
  <2>3. CASE GoesLate(c)
    BY <1>1, <2>1, <2>3 DEF GoesLate, Apart
  <2>4. ASSUME NEW b \in open, NEW ref \in Ref, Joins(c, b, ref)
        PROVE  Apart'
    <3> DEFINE a == AddTo(b, c, ref)
    <3>1. Pending' = (Pending \ {b}) \cup {a} /\ late' = late /\ b \in Pending
      BY <2>4, PendingFacts DEF Joins
    <3>2. \A x : x \in a.copies <=> x \in b.copies \/ x = c
      BY <3>1, CopiesOf
    <3> HIDE DEF a
    <3>3. /\ \A b1, b2 \in Pending' : b1 # b2 => b1.copies \cap b2.copies = {}
      BY <1>1, <2>1, <3>1, <3>2
    <3>4. \A b1 \in Pending', e \in events' : b1.copies \cap e.copies = {}
      BY <1>1, <2>1, <3>1, <3>2
    <3>5. \A b1 \in Pending' : b1.copies \cap late' = {}
      BY <1>1, <2>1, <3>1, <3>2
    <3>6. QED
      BY <1>1, <2>1, <3>1, <3>3, <3>4, <3>5 DEF Apart
  <2>5. QED
    BY <1>3, <2>2, <2>3, <2>4
<1>4. ASSUME NEW u \in Pending, NEW h \in Pending, NEW ref \in Ref, Folds(u, h, ref)
      PROVE  Apart'
  <2> DEFINE f == Fold(h, u, ref)
  <2>1. Pending' = (Pending \ {u, h}) \cup {f} /\ UNCHANGED <<events, late>>
    BY <1>4 DEF Folds
  <2>2. \A x : x \in f.copies <=> x \in h.copies \/ x \in u.copies
    BY CopiesOf
  <2> HIDE DEF f
  <2>3. /\ \A b1, b2 \in Pending' : b1 # b2 => b1.copies \cap b2.copies = {}
    BY <1>1, <2>1, <2>2
  <2>4. \A b1 \in Pending', e \in events' : b1.copies \cap e.copies = {}
    BY <1>1, <2>1, <2>2
  <2>5. \A b1 \in Pending' : b1.copies \cap late' = {}
    BY <1>1, <2>1, <2>2
  <2>6. QED
    BY <1>1, <2>1, <2>3, <2>4, <2>5 DEF Apart
<1>5. ASSUME NEW u \in Pending, Drops(u)
      PROVE  Apart'
  <2>1. Pending' = Pending \ {u} /\ late' = late \cup u.copies /\ events' = events
    BY <1>5 DEF Drops
  <2>2. \A b \in Pending' : b \in Pending /\ b # u
    BY <2>1
  <2>3. \A b1 \in Pending' : b1.copies \cap late' = {}
    BY <1>1, <2>1, <2>2
  <2>4. \A e \in events' : e.copies \cap late' = {}
    BY <1>1, <2>1
  <2>5. QED
    BY <1>1, <2>1, <2>2, <2>3, <2>4 DEF Apart
<1>6. ASSUME NEW u \in Pending, NEW key \in Key, NEW verified \in BOOLEAN, Finishes(u, key, verified)
      PROVE  Apart'
  <2>1. Pending' = Pending \ {u} /\ UNCHANGED <<late, copies>>
    BY <1>6 DEF Finishes
  <2> DEFINE ev == EventOf(u, key, verified)
  <2>2. events' = events \cup {ev} /\ ev.copies = u.copies
    BY <1>6, FinishFacts DEF Finishes
  <2> HIDE DEF ev
  <2>3. \A e1, e2 \in events' : e1 # e2 => e1.copies \cap e2.copies = {}
    BY <1>1, <2>2
  <2>4. \A b \in Pending', e \in events' : b.copies \cap e.copies = {}
    BY <1>1, <2>1, <2>2
  <2>5. \A e \in events' : e.copies \cap late' = {}
    BY <1>1, <2>1, <2>2
  <2>6. QED
    BY <1>1, <2>1, <2>3, <2>4, <2>5 DEF Apart
<1>7. QED
  BY <1>2, <1>3, <1>4, <1>5, <1>6 DEF Moves

(***************************************************************************)
(* What a bucket says stays true.                                          *)
(***************************************************************************)

\* Of a new bucket.
LEMMA NewTold ==
  ASSUME NEW c \in Copy
  PROVE  SaysSpan(NewBucket(c)) /\ SaysMessage(NewBucket(c))
<1> DEFINE b == NewBucket(c)
<1>1. /\ b.slot = c.key /\ b.key = c.key /\ \A x : x \in b.copies <=> x = c
      /\ b.opened = c.when /\ b.last = c.when /\ b.good = c.good /\ b.ref = RefOf(c)
  BY NewBucketFacts
<1>2. c.when \in Nat /\ RefOf(c).msg = c.key.msg
  BY CopyFacts
<1> HIDE DEF b
<1>3. b.copies = {c}
  BY <1>1
<1>4. IsFiniteSet(b.copies)
  BY <1>3, FS_Singleton
<1>5. SaysSpan(b) /\ SaysMessage(b)
  BY <1>1, <1>2, <1>4 DEF SaysSpan, SaysMessage
<1>6. QED
  BY <1>5 DEF b

\* Of a bucket a copy has joined.
LEMMA AddTold ==
  ASSUME NEW b \in Bucket, NEW c \in Copy, NEW ref \in {b.ref, RefOf(c)},
         b.slot = c.key \/ b.ref = RefOf(c), SaysSpan(b), SaysMessage(b)
  PROVE  SaysSpan(AddTo(b, c, ref)) /\ SaysMessage(AddTo(b, c, ref))
<1> DEFINE a == AddTo(b, c, ref)
<1>1. /\ b.copies \subseteq Copy /\ b.opened \in Nat /\ b.last \in Nat /\ b.good \in BOOLEAN /\ b.ref \in Ref
      /\ c.when \in Nat /\ c.good \in BOOLEAN /\ RefOf(c) \in Ref /\ RefOf(c).msg = c.key.msg
  BY BucketFacts, CopyFacts
<1>2. ref \in Ref
  BY <1>1
<1>3. /\ a.slot = b.slot /\ \A x : x \in a.copies <=> x \in b.copies \/ x = c
      /\ a.key = (IF c.good THEN c.key ELSE b.key) /\ a.opened = MinOf(b.opened, c.when)
      /\ a.last = MaxOf(b.last, c.when) /\ a.good = (b.good \/ c.good) /\ a.ref = ref
  BY <1>2, AddToFacts
<1> HIDE DEF a
<1>4. \A x \in b.copies : x.when \in Nat
  BY <1>1, CopyFacts
<1>5. SaysSpan(a)
  <2>1. /\ \E x \in b.copies : x.when = b.opened
        /\ \E x \in b.copies : x.when = b.last
        /\ \A x \in b.copies : b.opened <= x.when /\ x.when <= b.last
        /\ b.good <=> \E x \in b.copies : x.good
    BY DEF SaysSpan
  <2>2. (\E x \in a.copies : x.when = a.opened) /\ \E x \in a.copies : x.when = a.last
    BY <1>1, <1>3, <2>1 DEF MinOf, MaxOf
  <2>3. \A x \in a.copies : a.opened <= x.when /\ x.when <= a.last
    BY <1>1, <1>3, <1>4, <2>1 DEF MinOf, MaxOf
  <2>4. a.good <=> \E x \in a.copies : x.good
    BY <1>3, <2>1
  <2>5. QED
    BY <2>2, <2>3, <2>4 DEF SaysSpan
<1>6. SaysMessage(a)
  <2>1. /\ \A x \in b.copies : x.key.msg = b.slot.msg
        /\ b.key.msg = b.slot.msg /\ b.ref.msg = b.slot.msg
        /\ \E x \in b.copies : x.key = b.slot
        /\ \E x \in b.copies : x.key = b.key
        /\ IsFiniteSet(b.copies)
    BY DEF SaysMessage
  <2>2. c.key.msg = b.slot.msg
    BY <1>1, <2>1
  <2>3. a.copies = b.copies \cup {c}
    BY <1>3
  <2>4. IsFiniteSet(a.copies)
    BY <2>1, <2>3, FS_AddElement
  <2>5. QED
    BY <1>1, <1>3, <2>1, <2>2, <2>4 DEF SaysMessage
<1>7. QED
  BY <1>5, <1>6 DEF a

\* Of a bucket another was folded into.
LEMMA FoldTold ==
  ASSUME NEW b \in Bucket, NEW u \in Bucket, NEW ref \in {b.ref, u.ref}, ~u.good,
         b.slot.msg = u.key.msg \/ b.key.msg = u.key.msg,
         SaysSpan(b), SaysMessage(b), SaysSpan(u), SaysMessage(u)
  PROVE  SaysSpan(Fold(b, u, ref)) /\ SaysMessage(Fold(b, u, ref))
<1> DEFINE a == Fold(b, u, ref)
<1>1. /\ b.copies \subseteq Copy /\ b.opened \in Nat /\ b.last \in Nat /\ b.good \in BOOLEAN /\ b.ref \in Ref
      /\ u.copies \subseteq Copy /\ u.opened \in Nat /\ u.last \in Nat /\ u.ref \in Ref
  BY BucketFacts
<1>2. ref \in Ref
  BY <1>1
<1>3. a.slot = b.slot /\ \A x : x \in a.copies <=> x \in b.copies \/ x \in u.copies
  BY <1>2, FoldFacts
<1>4. a.key = b.key /\ a.good = b.good /\ a.ref = ref
  BY <1>2, FoldFacts
<1>5. a.opened = MinOf(b.opened, u.opened) /\ a.last = MaxOf(b.last, u.last)
  BY <1>2, FoldFacts
<1> HIDE DEF a
<1>6. \A x \in b.copies \cup u.copies : x.when \in Nat
  BY <1>1, CopyFacts
<1>7. SaysSpan(a)
  <2>1. /\ \E x \in b.copies : x.when = b.opened
        /\ \E x \in b.copies : x.when = b.last
        /\ \A x \in b.copies : b.opened <= x.when /\ x.when <= b.last
        /\ b.good <=> \E x \in b.copies : x.good
        /\ \E x \in u.copies : x.when = u.opened
        /\ \E x \in u.copies : x.when = u.last
        /\ \A x \in u.copies : u.opened <= x.when /\ x.when <= u.last
        /\ ~\E x \in u.copies : x.good
    BY DEF SaysSpan
  <2>2. (\E x \in a.copies : x.when = a.opened) /\ \E x \in a.copies : x.when = a.last
    BY <1>1, <1>5, <1>3, <2>1 DEF MinOf, MaxOf
  <2>3. \A x \in a.copies : a.opened <= x.when /\ x.when <= a.last
    BY <1>1, <1>5, <1>6, <1>3, <2>1 DEF MinOf, MaxOf
  <2>4. a.good <=> \E x \in a.copies : x.good
    BY <1>4, <1>3, <2>1
  <2>5. QED
    BY <2>2, <2>3, <2>4 DEF SaysSpan
<1>8. SaysMessage(a)
  <2>1. /\ \A x \in b.copies : x.key.msg = b.slot.msg
        /\ b.key.msg = b.slot.msg /\ b.ref.msg = b.slot.msg
        /\ \E x \in b.copies : x.key = b.slot
        /\ \E x \in b.copies : x.key = b.key
        /\ \A x \in u.copies : x.key.msg = u.slot.msg
        /\ u.key.msg = u.slot.msg /\ u.ref.msg = u.slot.msg
        /\ IsFiniteSet(b.copies) /\ IsFiniteSet(u.copies)
    BY DEF SaysMessage
  <2>2. u.slot.msg = b.slot.msg
    BY <2>1
  <2>3. a.copies = b.copies \cup u.copies
    BY <1>3
  <2>4. IsFiniteSet(a.copies)
    <3>1. IsFiniteSet(b.copies) /\ IsFiniteSet(u.copies)
      BY <2>1
    <3>2. IsFiniteSet(b.copies \cup u.copies)
      BY <3>1, FS_Union, Zenon
    <3>3. QED
      BY <2>3, <3>2
  <2>5. QED
    BY <1>4, <1>3, <2>1, <2>2, <2>4 DEF SaysMessage
<1>9. QED
  BY <1>7, <1>8 DEF a

\* Of every bucket.
LEMMA ToldKept ==
  ASSUME Shape, Moves, Told
  PROVE  Told'
<1>1. /\ \A b \in Pending : SaysSpan(b) /\ SaysMessage(b) /\ b \in Bucket
      /\ \A e \in events : e.copies # {}
  BY PendingFacts DEF Told
<1>2. CASE Stays
  BY <1>1, <1>2 DEF Stays, Told
<1>3. ASSUME NEW c \in Copy, Opens(c) PROVE Told'
  <2>1. Pending' = Pending \cup {NewBucket(c)} /\ events' = events
    BY <1>3 DEF Opens, Arriving
  <2>2. QED
    BY <1>1, <2>1, NewTold DEF Told
<1>4. ASSUME NEW c \in Copy, GoesLate(c) PROVE Told'
  BY <1>1, <1>4 DEF Told, GoesLate, Arriving
<1>5. ASSUME NEW c \in Copy, NEW b \in open, NEW ref \in Ref, Joins(c, b, ref) PROVE Told'
  <2>1. /\ Pending' = (Pending \ {b}) \cup {AddTo(b, c, ref)} /\ events' = events
        /\ b \in Pending /\ b \in Bucket /\ SaysSpan(b) /\ SaysMessage(b)
        /\ ref \in {b.ref, RefOf(c)}
        /\ b.slot = c.key \/ b.ref = RefOf(c)
    BY <1>1, <1>5, PendingFacts DEF Joins, Arriving
  <2>2. SaysSpan(AddTo(b, c, ref)) /\ SaysMessage(AddTo(b, c, ref))
    BY <2>1, AddTold
  <2>3. QED
    BY <1>1, <2>1, <2>2 DEF Told
<1>6. ASSUME NEW u \in Pending, NEW h \in Pending, NEW ref \in Ref, Folds(u, h, ref) PROVE Told'
  <2>1. /\ Pending' = (Pending \ {u, h}) \cup {Fold(h, u, ref)} /\ events' = events
        /\ ref \in {h.ref, u.ref} /\ ~u.good
        /\ h.slot.msg = u.key.msg \/ h.key.msg = u.key.msg
    BY <1>6 DEF Folds
  <2>2. SaysSpan(Fold(h, u, ref)) /\ SaysMessage(Fold(h, u, ref))
    BY <1>1, <2>1, FoldTold
  <2>3. QED
    BY <1>1, <2>1, <2>2 DEF Told
<1>7. ASSUME NEW u \in Pending, Drops(u) PROVE Told'
  BY <1>1, <1>7 DEF Told, Drops
<1>8. ASSUME NEW u \in Pending, NEW key \in Key, NEW verified \in BOOLEAN, Finishes(u, key, verified)
      PROVE  Told'
  <2> DEFINE ev == EventOf(u, key, verified)
  <2>1. Pending' = Pending \ {u} /\ events' = events \cup {ev} /\ ev.copies = u.copies
    BY <1>8, FinishFacts DEF Finishes
  <2>2. u.copies # {}
    BY <1>1 DEF SaysSpan
  <2> HIDE DEF ev
  <2>3. QED
    BY <1>1, <2>1, <2>2 DEF Told
<1>9. QED
  BY <1>2, <1>3, <1>4, <1>5, <1>6, <1>7, <1>8 DEF Moves

\* Transmissions are only added.
LEMMA SentGrows == [Next]_vars => sent \subseteq sent'
BY DEF Next, vars, Tick, Transmit, Arrive, Add, PopReady, Flush, Emit

\* What is delivered is of a transmission.
LEMMA OfSentKept ==
  ASSUME Shape, Moves, OfSent, sent \subseteq sent'
  PROVE  OfSent'
<1>1. \A c : FromSent(c) => FromSent(c)'
  BY DEF FromSent
<1>2. CASE Delivered' = Delivered
  BY <1>1, <1>2 DEF OfSent
<1>3. ASSUME NEW c \in Copy, Arriving(c), \A x : x \in Delivered' <=> x \in Delivered \/ x = c
      PROVE  OfSent'
  BY <1>1, <1>3 DEF OfSent, Arriving
<1>4. QED
  BY <1>2, <1>3, DeliveredMoves

(***************************************************************************)
(* Sendings of a message are kept apart.                                   *)
(***************************************************************************)

\* A bucket takes nothing from long after it was opened.
LEMMA DeadlineBound ==
  ASSUME NEW b \in Bucket, IsFiniteSet(b.copies)
  PROVE  Deadline(b) \in Int /\ Deadline(b) <= b.opened + MaxWindow
<1> DEFINE n == Cardinality(b.copies) - 1
           x == b.last + Window + Extend * n
           y == b.opened + MaxWindow
<1>1. n \in Int
  BY FS_CardinalityType
<1>2. b.last \in Nat /\ b.opened \in Nat
  BY BucketFacts
<1> HIDE DEF n
<1>3. Extend * n \in Int
  BY <1>1, Constants
<1>4. x \in Int /\ y \in Int
  BY <1>2, <1>3, Constants
<1>5. Deadline(b) = MinOf(x, y)
  BY DEF Deadline, n
<1> HIDE DEF x
<1>6. MinOf(x, y) \in Int /\ MinOf(x, y) <= y
  BY <1>4 DEF MinOf
<1>7. QED
  BY <1>5, <1>6

\* A copy a bucket takes is of the transmission its copies are of.
LEMMA TakesItsOwn ==
  ASSUME Shape, Spaced, NEW b \in Bucket, SaysSpan(b), SaysMessage(b), OneSending(b.copies),
         \A x \in b.copies : FromSent(x),
         NEW c \in Copy, FromSent(c), c.key.msg = b.slot.msg, Accepts(b, c.when)
  PROVE  \A x \in b.copies : x.tx = c.tx
<1>1. PICK o \in b.copies : o.when = b.opened
  BY DEF SaysSpan
<1>2. o \in Copy /\ o.key.msg = b.slot.msg /\ FromSent(o)
  BY <1>1, BucketFacts DEF SaysMessage
<1>3. PICK t \in sent : o.tx = t.n /\ o.key.msg = t.msg /\ t.at <= o.when /\ o.when <= t.at + Spread
  BY <1>2 DEF FromSent
<1>4. PICK u \in sent : c.tx = u.n /\ c.key.msg = u.msg /\ u.at <= c.when /\ c.when <= u.at + Spread
  BY DEF FromSent
<1>5. b.opened - Window <= c.when /\ c.when <= b.opened + MaxWindow
  <2>1. c.when <= Deadline(b) /\ b.opened - Window <= c.when
    BY DEF Accepts
  <2>2. Deadline(b) \in Int /\ Deadline(b) <= b.opened + MaxWindow /\ c.when \in Nat /\ b.opened \in Nat
    BY DeadlineBound, CopyFacts, BucketFacts DEF SaysMessage
  <2>3. QED
    BY <2>1, <2>2, Constants
<1>6. t.at \in Nat /\ u.at \in Nat /\ c.when \in Nat /\ o.when \in Nat
  BY <1>2, CopyFacts, Constants DEF Shape, SentShape, Clocks, Time
<1>7. t = u
  <2> SUFFICES ASSUME t # u PROVE FALSE
    OBVIOUS
  <2>1. t.at - u.at >= Gap \/ u.at - t.at >= Gap
    BY <1>2, <1>3, <1>4 DEF Shape, SentShape
  <2>2. QED
    BY <1>1, <1>3, <1>4, <1>5, <1>6, <2>1, Constants DEF Spaced
<1>8. QED
  BY <1>1, <1>3, <1>4, <1>7 DEF OneSending

\* No bucket and no event comes to hold copies of two transmissions.
LEMMA SendingsKept ==
  ASSUME Shape, Spaced, Moves, Told, OfSent, SendingsApart
  PROVE  SendingsApart'
<1>1. /\ \A b \in Pending : /\ SaysSpan(b) /\ SaysMessage(b) /\ b \in Bucket /\ OneSending(b.copies)
                            /\ \A x \in b.copies : FromSent(x)
      /\ \A e \in events : OneSending(e.copies)
  BY PendingFacts, WhereDelivered DEF Told, OfSent, SendingsApart
<1>2. CASE Stays
  BY <1>1, <1>2 DEF Stays, SendingsApart
<1>3. ASSUME NEW c \in Copy, Opens(c) PROVE SendingsApart'
  <2>1. Pending' = Pending \cup {NewBucket(c)} /\ events' = events
    BY <1>3 DEF Opens, Arriving
  <2>2. \A x : x \in NewBucket(c).copies <=> x = c
    BY CopiesOf
  <2>3. OneSending(NewBucket(c).copies)
    BY <2>2 DEF OneSending
  <2>4. QED
    BY <1>1, <2>1, <2>3 DEF SendingsApart
<1>4. ASSUME NEW c \in Copy, GoesLate(c) PROVE SendingsApart'
  BY <1>1, <1>4 DEF SendingsApart, GoesLate, Arriving
<1>5. ASSUME NEW c \in Copy, NEW b \in open, NEW ref \in Ref, Joins(c, b, ref) PROVE SendingsApart'
  <2>1. /\ Pending' = (Pending \ {b}) \cup {AddTo(b, c, ref)} /\ events' = events
        /\ b \in Pending /\ FromSent(c) /\ Accepts(b, c.when)
        /\ b.slot = c.key \/ b.ref = RefOf(c)
    BY <1>5, PendingFacts DEF Joins, Arriving
  <2>2. c.key.msg = b.slot.msg
    BY <1>1, <2>1, CopyFacts DEF SaysMessage
  <2>3. \A x \in b.copies : x.tx = c.tx
    BY <1>1, <2>1, <2>2, TakesItsOwn
  <2> DEFINE a == AddTo(b, c, ref)
  <2>4. \A x : x \in a.copies <=> x \in b.copies \/ x = c
    BY <2>1, CopiesOf
  <2>5. OneSending(a.copies)
    BY <2>3, <2>4 DEF OneSending
  <2> HIDE DEF a
  <2>6. QED
    BY <1>1, <2>1, <2>5 DEF SendingsApart, a
<1>6. ASSUME NEW u \in Pending, NEW h \in Pending, NEW ref \in Ref, Folds(u, h, ref) PROVE SendingsApart'
  <2>1. /\ Pending' = (Pending \ {u, h}) \cup {Fold(h, u, ref)} /\ events' = events
        /\ Accepts(h, u.opened)
        /\ h.slot.msg = u.key.msg \/ h.key.msg = u.key.msg
    BY <1>6 DEF Folds
  <2>2. PICK o \in u.copies : o.when = u.opened
    BY <1>1 DEF SaysSpan
  <2>3. o \in Copy /\ FromSent(o) /\ o.key.msg = h.slot.msg
    BY <1>1, <2>1, <2>2, BucketFacts DEF SaysMessage
  <2>4. \A x \in h.copies : x.tx = o.tx
    BY <1>1, <2>1, <2>2, <2>3, TakesItsOwn
  <2>5. \A x \in u.copies : x.tx = o.tx
    BY <1>1, <2>2 DEF OneSending
  <2> DEFINE a == Fold(h, u, ref)
  <2>6. \A x : x \in a.copies <=> x \in h.copies \/ x \in u.copies
    BY CopiesOf
  <2>7. OneSending(a.copies)
    BY <2>4, <2>5, <2>6 DEF OneSending
  <2> HIDE DEF a
  <2>8. QED
    BY <1>1, <2>1, <2>7 DEF SendingsApart, a
<1>7. ASSUME NEW u \in Pending, Drops(u) PROVE SendingsApart'
  BY <1>1, <1>7 DEF SendingsApart, Drops
<1>8. ASSUME NEW u \in Pending, NEW key \in Key, NEW verified \in BOOLEAN, Finishes(u, key, verified)
      PROVE  SendingsApart'
  <2> DEFINE ev == EventOf(u, key, verified)
  <2>1. Pending' = Pending \ {u} /\ events' = events \cup {ev} /\ ev.copies = u.copies
    BY <1>8, FinishFacts DEF Finishes
  <2> HIDE DEF ev
  <2>2. QED
    BY <1>1, <2>1 DEF SendingsApart
<1>9. QED
  BY <1>2, <1>3, <1>4, <1>5, <1>6, <1>7, <1>8 DEF Moves

(***************************************************************************)
(* Theorems that hold whatever the constants are.                          *)
(***************************************************************************)
Kept == Shape /\ Returned /\ Filed /\ Apart /\ Numbered /\ Told /\ OfSent

\* Nothing is there when the program starts.
LEMMA InitKept == Init => Kept
<1> SUFFICES ASSUME Init PROVE Kept
  OBVIOUS
<1>1. /\ clock = 0 /\ sent = {} /\ copies = 0 /\ open = {} /\ ready = {} /\ closed = {} /\ done = {}
      /\ popAt = 0 /\ stopped = FALSE /\ late = {} /\ events = {} /\ handed = <<>>
  BY DEF Init
<1>2. IsFiniteSet({}) /\ Cardinality({}) = 0
  BY FS_EmptySet
<1>3. Shape
  <2>1. Clocks
    <3>1. 0 \in Time /\ 0 \in 0..MaxCopies /\ 0 <= 0
      BY Constants DEF Time
    <3>2. QED
      BY <1>1, <3>1 DEF Clocks
  <2>2. SentShape
    BY <1>1, <1>2, Constants DEF SentShape
  <2>3. Tables
    BY <1>1, <1>2 DEF Tables
  <2>4. QED
    BY <2>1, <2>2, <2>3 DEF Shape
<1>4. InDone = {} /\ Pending = {} /\ Delivered = {}
  BY <1>1 DEF InDone, Pending, Delivered
<1>5. Filed /\ Apart /\ Told
  BY <1>1, <1>4 DEF Filed, Apart, Told
<1>6. Numbered /\ OfSent
  BY <1>1, <1>4 DEF Numbered, OfSent
<1>7. Returned
  BY <1>1 DEF Returned
<1>8. QED
  BY <1>3, <1>5, <1>6, <1>7 DEF Kept

\* Every step keeps it.
LEMMA NextKept == Kept /\ [Next]_vars => Kept'
<1> SUFFICES ASSUME Kept, [Next]_vars PROVE Kept'
  OBVIOUS
<1>1. Shape /\ Returned /\ Filed /\ Apart /\ Numbered /\ Told /\ OfSent
  BY DEF Kept
<1>2. Shape' /\ Returned'
  BY <1>1, ShapeKept, ReturnedKept
<1>3. Moves /\ Filed'
  BY <1>1, <1>2, NextMoves
<1>4. Apart' /\ Numbered' /\ Told'
  BY <1>1, <1>3, ApartKept, NumberedKept, ToldKept
<1>5. OfSent'
  BY <1>1, <1>3, SentGrows, OfSentKept
<1>6. QED
  BY <1>2, <1>3, <1>4, <1>5 DEF Kept

\* The tables are what add, pop_ready and _emit take them for: the types of
\* TypeOK, one open bucket per key, the copies where they are and numbered,
\* what a bucket says of itself true of its copies.
THEOREM AlwaysKept == Spec => []Kept
BY InitKept, NextKept, PTL DEF Spec

\* TypeOK is part of it.
LEMMA KeptTypes == Kept => TypeOK
<1> SUFFICES ASSUME Kept PROVE TypeOK
  OBVIOUS
<1>1. Clocks /\ SentShape /\ Tables /\ Shape /\ Filed /\ Told
  BY DEF Kept, Shape
<1>2. \A t \in sent : t.msg \in Message /\ t.at \in Time
  BY <1>1, Constants DEF Clocks, SentShape, Time
<1>3. \A b \in Pending : /\ b.slot \in Key /\ b.key \in Key /\ b.ref \in Ref
                         /\ b.copies # {} /\ b.copies \subseteq Copy
  <2> TAKE b \in Pending
  <2>1. b \in Bucket /\ SaysSpan(b)
    BY <1>1, PendingFacts DEF Told
  <2>2. b.copies # {}
    BY <2>1 DEF SaysSpan
  <2>3. QED
    BY <2>1, <2>2, BucketFacts
<1>4. \A e \in events : e.key \in Key /\ e.index \in Nat /\ e.copies \subseteq Copy
  BY <1>1 DEF Tables, Event
<1>5. DOMAIN handed \subseteq events /\ (done = {} => DOMAIN handed = events)
  BY DEF Kept, Returned
<1>6. QED
  BY <1>1, <1>2, <1>3, <1>4, <1>5 DEF TypeOK, Clocks, Tables, Filed

\* add, pop_ready, flush and _emit keep the tables well-formed, with one open
\* bucket per dictionary key.
THEOREM TypeCorrect == Spec => []TypeOK
BY AlwaysKept, KeptTypes, PTL

\* A set of one element, or of none.
LEMMA OneOrNone ==
  ASSUME NEW S, \A x, y \in S : x = y
  PROVE  Cardinality(S) = (IF S = {} THEN 0 ELSE 1)
<1>1. CASE S = {}
  BY <1>1, FS_EmptySet
<1>2. CASE S # {}
  <2>1. PICK x \in S : TRUE
    BY <1>2
  <2>2. S = {x}
    BY <2>1
  <2>3. Cardinality({x}) = 1
    BY FS_Singleton
  <2>4. QED
    BY <1>2, <2>2, <2>3
<1>3. QED
  BY <1>1, <1>2

\* The count of a copy's places is one.
LEMMA OnePlace ==
  ASSUME Kept
  PROVE  EveryCopyInOnePlace
<1>1. Shape /\ Filed /\ Apart /\ Numbered
  BY DEF Kept
<1>2. ASSUME NEW i \in 1..copies
      PROVE    Cardinality({b \in Pending : \E c \in b.copies : c.id = i})
             + Cardinality({e \in events : \E c \in e.copies : c.id = i})
             + Cardinality({c \in late : c.id = i}) = 1
  <2> DEFINE B == {b \in Pending : \E c \in b.copies : c.id = i}
             E == {e \in events : \E c \in e.copies : c.id = i}
             L == {c \in late : c.id = i}
  <2>1. PICK d \in Delivered : d.id = i /\ \A c \in Delivered : c.id = i => c = d
    BY <1>1, <1>2 DEF Numbered
  <2>2. /\ \A b \in Pending : \A c \in b.copies : c \in Delivered
        /\ \A e \in events : \A c \in e.copies : c \in Delivered
        /\ \A c \in late : c \in Delivered
        /\ (\E b \in Pending : d \in b.copies) \/ (\E e \in events : d \in e.copies) \/ d \in late
    BY WhereDelivered
  <2>3. /\ \A b : b \in B <=> b \in Pending /\ d \in b.copies
        /\ \A e : e \in E <=> e \in events /\ d \in e.copies
        /\ \A c : c \in L <=> c \in late /\ c = d
    BY <2>1, <2>2
  <2> HIDE DEF B, E, L
  <2>4. /\ \A b1, b2 \in B : b1 = b2
        /\ \A e1, e2 \in E : e1 = e2
        /\ \A c1, c2 \in L : c1 = c2
        /\ B = {} \/ E = {}
        /\ B = {} \/ L = {}
        /\ E = {} \/ L = {}
        /\ B # {} \/ E # {} \/ L # {}
    BY <1>1, <2>2, <2>3 DEF Apart
  <2>5. /\ Cardinality(B) = (IF B = {} THEN 0 ELSE 1)
        /\ Cardinality(E) = (IF E = {} THEN 0 ELSE 1)
        /\ Cardinality(L) = (IF L = {} THEN 0 ELSE 1)
    BY <2>4, OneOrNone
  <2>6. Cardinality(B) + Cardinality(E) + Cardinality(L) = 1
    BY <2>4, <2>5
  <2>7. QED
    BY <2>6 DEF B, E, L
<1>3. stopped /\ done = {} => Pending = {}
  BY <1>1 DEF Filed, Pending
<1>4. QED
  BY <1>2, <1>3 DEF EveryCopyInOnePlace

\* add, _emit and flush lose no copy and count none twice: every delivered copy
\* is in one pending bucket, in one event or counted late.
THEOREM NoCopyLostOrDoubled == Spec => []EveryCopyInOnePlace
BY AlwaysKept, OnePlace, PTL

\* fusion.py's "keep separate", if a message is sent again only after a bucket
\* can reach no more: an event has copies of one transmission.
THEOREM SendingsNeverMixed == Spec /\ Spaced => []RetransmissionsKeptApart
<1> DEFINE Inv == Kept /\ Spaced /\ SendingsApart
<1>1. Init /\ Spaced => Inv
  <2> SUFFICES ASSUME Init, Spaced PROVE Inv
    OBVIOUS
  <2>1. Kept
    BY InitKept
  <2>2. Pending = {} /\ events = {}
    BY DEF Init, Pending
  <2>3. QED
    BY <2>1, <2>2 DEF SendingsApart
<1>2. Inv /\ [Next]_vars => Inv'
  <2> SUFFICES ASSUME Kept, Spaced, SendingsApart, [Next]_vars PROVE Inv'
    OBVIOUS
  <2>1. Shape /\ Filed /\ Apart /\ Numbered /\ Told /\ OfSent /\ Kept'
    BY NextKept DEF Kept
  <2>2. Moves
    BY <2>1, NextMoves DEF Kept
  <2>3. SendingsApart'
    BY <2>1, <2>2, SendingsKept
  <2>4. QED
    BY <2>1, <2>3 DEF Spaced
<1>3. Inv => RetransmissionsKeptApart
  BY DEF SendingsApart, OneSending, RetransmissionsKeptApart
<1>4. QED
  BY <1>1, <1>2, <1>3, PTL DEF Spec

(***************************************************************************)
(* The numbers of repeats.                                                 *)
(***************************************************************************)

\* The memory is added to when an event is handed over, and may forget.
LEMMA MemoryMoves ==
  ASSUME Shape, OfEvents, [Next]_vars
  PROVE  \/ /\ closed' \subseteq closed /\ events' = events
            /\ Recent => closed' = closed
         \/ \E u \in Pending, key \in Key, verified \in BOOLEAN :
              /\ key \in {u.key, RealKey(u.key.msg)}
              /\ Finish(u, key, verified)
<1>1. CASE UNCHANGED vars \/ Tick \/ (\E m \in Message : Transmit(m)) \/ Arrive \/ Flush
  BY <1>1 DEF vars, Tick, Transmit, Arrive, Add, Flush
<1>2. CASE PopReady
  <2>1. closed' = {s \in closed : clock - s.at <= RepeatMemory} /\ events' = events
    BY <1>2 DEF PopReady
  <2>2. ASSUME Recent, NEW s \in closed PROVE clock - s.at <= RepeatMemory
    BY <2>2 DEF Recent, OfEvents, MemoryOf
  <2>3. Recent => closed' = closed
    BY <2>1, <2>2
  <2>4. QED
    BY <2>1, <2>3
<1>3. CASE Emit
  <2>1. PICK e \in done : EmitDamaged(e) \/ EmitRepaired(e) \/ EmitVerified(e)
    BY <1>3 DEF Emit
  <2> DEFINE u == e.bucket
             key == RealKey(u.key.msg)
  <2>2. u \in Pending /\ u.key \in Key /\ key \in Key
    <3>1. u \in Pending /\ u.key \in Key
      BY PendingFacts, BucketFacts
    <3>2. QED
      BY <3>1 DEF Key, RealKey
  <2>3. \/ UNCHANGED <<closed, events>>
        \/ Finish(u, u.key, FALSE) \/ Finish(u, u.key, TRUE) \/ Finish(u, key, TRUE)
    <3>1. CASE EmitDamaged(e)
      BY <3>1 DEF EmitDamaged
    <3>2. CASE EmitVerified(e)
      BY <3>2 DEF EmitVerified
    <3>3. CASE EmitRepaired(e)
      BY <3>3 DEF EmitRepaired
    <3>4. QED
      BY <2>1, <3>1, <3>2, <3>3
  <2> HIDE DEF u
  <2>4. QED
    BY <2>2, <2>3
<1>4. QED
  BY <1>1, <1>2, <1>3 DEF Next

\* The next number of a key is how often it was handed over.
LEMMA NextIndex ==
  ASSUME Shape, Counts, NEW key
  PROVE  RepeatIndex(key) = Cardinality(OfKey(key))
<1>1. CASE \E s \in closed : s.key = key
  <2> DEFINE s == CHOOSE s \in closed : s.key = key
  <2>1. s \in closed /\ s.key = key
    BY <1>1
  <2>2. RepeatIndex(key) = s.index + 1
    BY <1>1 DEF RepeatIndex
  <2> HIDE DEF s
  <2>3. s.index + 1 = Cardinality(OfKey(s.key))
    BY <2>1 DEF Counts
  <2>4. QED
    BY <2>1, <2>2, <2>3
<1>2. CASE ~\E s \in closed : s.key = key
  <2>1. RepeatIndex(key) = 0
    BY <1>2 DEF RepeatIndex
  <2>2. OfKey(key) = {}
    BY <1>2 DEF OfKey, Counts
  <2>3. QED
    BY <2>1, <2>2, FS_EmptySet
<1>3. QED
  BY <1>1, <1>2

\* An event is numbered behind the others, and behind those of its key.
LEMMA FinishCounts ==
  ASSUME Shape, Counts, EventNumbers, NEW u \in Pending, NEW key \in Key, NEW verified \in BOOLEAN,
         Finish(u, key, verified)
  PROVE  Counts' /\ EventNumbers'
<1> DEFINE n  == Cardinality(events)
           ev == EventOf(u, key, verified)
           m  == [key |-> key, at |-> popAt, index |-> RepeatIndex(key), first |-> u.opened, last |-> u.last]
<1>1. /\ events' = events \cup {ev} /\ ev.key = key /\ ev.n = n + 1 /\ ev.index = RepeatIndex(key)
      /\ closed' = {s \in closed : s.key # key} \cup {m}
  BY FinishFacts
<1>2. m.key = key /\ m.index = RepeatIndex(key)
  OBVIOUS
<1>3. IsFiniteSet(events) /\ n \in Nat /\ \A e \in events : e.n \in 1..n
  BY FS_CardinalityType DEF Shape, Tables, EventNumbers
<1> HIDE DEF ev, m
<1>4. ev \notin events
  BY <1>1, <1>3
<1>5. Cardinality(events') = n + 1
  BY <1>1, <1>3, <1>4, FS_AddElement
<1> HIDE DEF n
<1>6. EventNumbers'
  <2>1. \A e \in events' : e.n \in 1..(n + 1)
    BY <1>1, <1>3
  <2>2. QED
    BY <1>5, <2>1 DEF EventNumbers
<1> DEFINE before == OfKey(key)
           after  == {f \in events' : f.key = key}
<1>7. IsFiniteSet(before) /\ ev \notin before /\ after = before \cup {ev}
  <2>1. before \subseteq events
    BY DEF OfKey
  <2>2. IsFiniteSet(before)
    BY <1>3, <2>1, FS_Subset
  <2>3. after = before \cup {ev}
    BY <1>1 DEF OfKey
  <2>4. QED
    BY <1>4, <2>1, <2>2, <2>3
<1>8. RepeatIndex(key) = Cardinality(before) /\ Cardinality(after) = Cardinality(before) + 1
  <2>1. Cardinality(before \cup {ev}) = Cardinality(before) + 1
    BY <1>7, FS_AddElement
  <2>2. QED
    BY <1>7, <2>1, NextIndex
<1>9. \A s \in closed' : s.index + 1 = Cardinality({f \in events' : f.key = s.key})
  <2> TAKE s \in closed'
  <2>1. CASE s = m
    BY <1>2, <1>8, <2>1
  <2>2. CASE s \in closed /\ s.key # key
    <3>1. {f \in events' : f.key = s.key} = OfKey(s.key)
      BY <1>1, <2>2 DEF OfKey
    <3>2. s.index + 1 = Cardinality(OfKey(s.key))
      BY <2>2 DEF Counts
    <3>3. QED
      BY <3>1, <3>2
  <2>3. QED
    BY <1>1, <2>1, <2>2
<1>10. \A e \in events' : \E s \in closed' : s.key = e.key
  <2> TAKE e \in events'
  <2>1. CASE e.key = key
    BY <1>1, <1>2, <2>1
  <2>2. CASE e.key # key
    <3>1. e \in events
      BY <1>1, <2>2
    <3>2. PICK s \in closed : s.key = e.key
      BY <3>1 DEF Counts
    <3>3. QED
      BY <1>1, <2>2, <3>2
  <2>3. QED
    BY <2>1, <2>2
<1>11. \A e \in events' : e.index = Cardinality({f \in events' : f.key = e.key /\ f.n < e.n})
  <2> TAKE e \in events'
  <2>1. CASE e = ev
    <3>1. {f \in events' : f.key = e.key /\ f.n < e.n} = before
      <4>1. \A f \in events : f.n < n + 1
        BY <1>3
      <4>2. ~(n + 1 < n + 1)
        BY <1>3
      <4>3. QED
        BY <1>1, <2>1, <4>1, <4>2 DEF OfKey
    <3>2. QED
      BY <1>1, <1>8, <2>1, <3>1
  <2>2. CASE e \in events
    <3>1. ~(ev.n < e.n)
      BY <1>1, <1>3, <2>2
    <3>2. {f \in events' : f.key = e.key /\ f.n < e.n} = {f \in events : f.key = e.key /\ f.n < e.n}
      BY <1>1, <3>1
    <3>3. e.index = Cardinality({f \in events : f.key = e.key /\ f.n < e.n})
      BY <2>2 DEF Counts, NumberedAsFinished
    <3>4. QED
      BY <3>2, <3>3
  <2>3. QED
    BY <1>1, <2>1, <2>2
<1>12. ASSUME NEW e \in events', NEW of, of = {f \in events' : f.key = e.key}
       PROVE  {f.index : f \in of} = 0..(Cardinality(of) - 1)
  <2>1. CASE e.key # key
    <3>1. e \in events /\ of = OfKey(e.key)
      BY <1>1, <1>12, <2>1 DEF OfKey
    <3>2. QED
      BY <3>1 DEF Counts, RepeatsNumbered
  <2>2. CASE e.key = key
    <3>1. of = before \cup {ev} /\ Cardinality(of) = Cardinality(before) + 1 /\ ev.index = Cardinality(before)
      BY <1>1, <1>7, <1>8, <1>12, <2>2
    <3>2. Cardinality(before) \in Nat
      BY <1>7, FS_CardinalityType
    <3>3. {f.index : f \in before} = 0..(Cardinality(before) - 1)
      <4>1. CASE before = {}
        <5>1. Cardinality(before) = 0
          BY <4>1, FS_EmptySet
        <5>2. QED
          BY <4>1, <5>1
      <4>2. CASE before # {}
        <5>1. PICK d \in events : d.key = key
          BY <4>2 DEF OfKey
        <5>2. QED
          BY <5>1 DEF Counts, RepeatsNumbered
      <4>3. QED
        BY <4>1, <4>2
    <3> HIDE DEF before
    <3>4. {f.index : f \in of} = {f.index : f \in before} \cup {Cardinality(before)}
      BY <3>1
    <3>5. QED
      BY <3>1, <3>2, <3>3, <3>4
  <2>3. QED
    BY <2>1, <2>2
<1>13. Counts'
  BY <1>9, <1>10, <1>11, <1>12 DEF Counts, OfKey, NumberedAsFinished, RepeatsNumbered
<1>14. QED
  BY <1>6, <1>13

\* What is recent was so before.
LEMMA RecentBefore ==
  ASSUME Shape, OfEvents, [Next]_vars, Recent'
  PROVE  Recent
<1>1. clock \in Nat /\ clock' \in Nat /\ clock' >= clock
  <2>1. clock \in Nat
    BY Constants DEF Shape, Clocks, Time
  <2>2. QED
    BY <2>1 DEF Next, vars, Tick, Transmit, Arrive, Add, PopReady, Flush, Emit
<1>2. events \subseteq events'
  <2>1. CASE events' = events
    BY <2>1
  <2>2. CASE \E u \in Pending, key \in Key, verified \in BOOLEAN : Finish(u, key, verified)
    BY <2>2, FinishFacts
  <2>3. QED
    BY <2>1, <2>2, MemoryMoves
<1>3. \A e \in events : e.at \in Nat
  BY Constants DEF Shape, Tables, Event, Time
<1>4. \A e \in events : clock' - e.at <= RepeatMemory
  BY <1>2 DEF Recent
<1>5. \A e \in events : clock - e.at <= RepeatMemory
  BY <1>1, <1>3, <1>4, Constants
<1>6. QED
  BY <1>5 DEF Recent

\* Every step keeps the numbers.
LEMMA NumberingKept ==
  ASSUME Shape, OfEvents, Numbering, [Next]_vars
  PROVE  Numbering'
<1> SUFFICES ASSUME Recent' PROVE Counts' /\ EventNumbers'
  BY DEF Numbering
<1>1. Recent /\ Counts /\ EventNumbers
  BY RecentBefore DEF Numbering
<1>2. CASE UNCHANGED <<closed, events>>
  BY <1>1, <1>2 DEF Counts, EventNumbers, OfKey, NumberedAsFinished, RepeatsNumbered
<1>3. CASE \E u \in Pending, key \in Key, verified \in BOOLEAN : Finish(u, key, verified)
  BY <1>1, <1>3, FinishCounts
<1>4. QED
  BY <1>1, <1>2, <1>3, MemoryMoves

\* What is remembered are events, and what they were called.
LEMMA OfEventsKept ==
  ASSUME Shape, Told, OfEvents, [Next]_vars
  PROVE  OfEvents'
<1>1. CASE closed' \subseteq closed /\ events' = events
  BY <1>1 DEF OfEvents
<1>2. ASSUME NEW u \in Pending, NEW key \in Key, NEW verified \in BOOLEAN,
             key \in {u.key, RealKey(u.key.msg)}, Finish(u, key, verified)
      PROVE  OfEvents'
  <2> DEFINE ev == EventOf(u, key, verified)
             m  == [key |-> key, at |-> popAt, index |-> RepeatIndex(key), first |-> u.opened, last |-> u.last]
  <2>1. /\ events' = events \cup {ev} /\ ev.key = key /\ ev.copies = u.copies /\ ev.at = popAt
        /\ closed' = {s \in closed : s.key # key} \cup {m}
    BY <1>2, FinishFacts
  <2>2. m.key = key /\ m.at = popAt /\ m.first = u.opened /\ m.last = u.last
    OBVIOUS
  <2> HIDE DEF ev, m
  <2>3. SaysSpan(u) /\ SaysMessage(u)
    BY DEF Told
  <2>4. MemoryOf(m, ev)
    BY <2>1, <2>2, <2>3 DEF MemoryOf, SaysSpan
  <2>5. \E c \in ev.copies : ev.key \in {c.key, RealKey(c.key.msg)}
    <3>1. PICK c \in u.copies : c.key = u.key
      BY <2>3 DEF SaysMessage
    <3>2. QED
      BY <1>2, <2>1, <3>1
  <2>6. QED
    BY <2>1, <2>4, <2>5 DEF OfEvents
<1>3. QED
  BY <1>1, <1>2, MemoryMoves

\* A bucket's span and flag are those of its copies.
LEMMA KeptSpan == Kept => SpanAgreesWithCopies
BY DEF Kept, Told, SaysSpan, SpanAgreesWithCopies

\* add and _emit: what a bucket says of its span and of being verified is true of
\* the copies in it, however they came.
THEOREM SpansRight == Spec => []SpanAgreesWithCopies
BY AlwaysKept, KeptSpan, PTL

\* What _finish remembers is kept as well.
THEOREM AlwaysNumbered == Spec => [](Kept /\ OfEvents /\ Numbering)
<1> DEFINE Inv == Kept /\ OfEvents /\ Numbering
<1>1. Init => Inv
  <2> SUFFICES ASSUME Init PROVE Inv
    OBVIOUS
  <2>1. Kept
    BY InitKept
  <2>2. events = {} /\ closed = {}
    BY DEF Init
  <2>3. QED
    BY <2>1, <2>2 DEF OfEvents, Numbering, Counts, EventNumbers, NumberedAsFinished, RepeatsNumbered
<1>2. Inv /\ [Next]_vars => Inv'
  <2> SUFFICES ASSUME Kept, OfEvents, Numbering, [Next]_vars PROVE Inv'
    OBVIOUS
  <2>1. Shape /\ Told /\ Kept'
    BY NextKept DEF Kept
  <2>2. QED
    BY <2>1, OfEventsKept, NumberingKept
<1>3. QED
  BY <1>1, <1>2, PTL DEF Spec

\* _finish: the events of a key are numbered 0, 1, 2, ..., each number once, until
\* one is older than repeat_memory_s.
THEOREM RepeatsGetNumbers == Spec => [](Recent => RepeatsNumbered)
<1>1. Numbering => (Recent => RepeatsNumbered)
  BY DEF Numbering, Counts
<1>2. QED
  BY <1>1, AlwaysNumbered, PTL

\* If no key can be forgotten, none is.
LEMMA RemembersAll == Shape /\ Remembers => Recent
<1> SUFFICES ASSUME Shape, Remembers, NEW e \in events PROVE clock - e.at <= RepeatMemory
  BY DEF Recent
<1>1. e.at \in 0..MaxTime /\ clock \in 0..MaxTime
  BY DEF Shape, Clocks, Tables, Event, Time
<1>2. QED
  BY <1>1, Constants DEF Remembers

\* The fusion's tables have their shape, a bucket's span and flag are those of
\* its copies, and the events of a key are numbered 0, 1, 2, ..., each number once,
\* if the memory is as long as the time looked at.
THEOREM TablesRight == Spec /\ Remembers => []FusionInv
<1>1. Kept /\ Numbering /\ Remembers => FusionInv
  BY KeptTypes, OnePlace, KeptSpan, RemembersAll DEF FusionInv, Numbering, Counts, Kept
<1>2. Remembers /\ [Next]_vars => Remembers'
  BY DEF Remembers
<1>3. QED
  BY <1>1, <1>2, AlwaysNumbered, PTL DEF Spec

(***************************************************************************)
(* One event per transmission.                                             *)
(***************************************************************************)

\* Copies with one number are of one transmission.
LEMMA OneTransmission ==
  ASSUME Shape, NEW c \in Copy, NEW d \in Copy, FromSent(c), FromSent(d), c.tx = d.tx
  PROVE  \E t \in sent : /\ c.tx = t.n /\ t.at \in Nat
                         /\ c.key.msg = t.msg /\ t.at <= c.when /\ c.when <= t.at + Spread
                         /\ d.key.msg = t.msg /\ t.at <= d.when /\ d.when <= t.at + Spread
<1>1. PICK t \in sent : c.tx = t.n /\ c.key.msg = t.msg /\ t.at <= c.when /\ c.when <= t.at + Spread
  BY DEF FromSent
<1>2. PICK u \in sent : d.tx = u.n /\ d.key.msg = u.msg /\ u.at <= d.when /\ d.when <= u.at + Spread
  BY DEF FromSent
<1>3. t = u
  BY <1>1, <1>2 DEF Shape, SentShape
<1>4. t.at \in Nat
  BY DEF Shape, SentShape
<1>5. QED
  BY <1>1, <1>2, <1>3, <1>4

\* A bucket waits for every copy of its transmission.
LEMMA AcceptsOwn ==
  ASSUME Fits, NEW b \in Bucket, SaysSpan(b), SaysMessage(b), NEW at \in Nat,
         \A x \in b.copies : at <= x.when /\ x.when <= at + Spread
  PROVE  /\ at + Spread <= Deadline(b) /\ Deadline(b) \in Int
         /\ \A when \in Nat : at <= when /\ when <= at + Spread => Accepts(b, when)
<1> DEFINE k == Cardinality(b.copies) - 1
<1>1. k \in Nat
  <2>1. IsFiniteSet(b.copies) /\ b.copies # {}
    BY DEF SaysMessage, SaysSpan
  <2>2. Cardinality(b.copies) \in Nat /\ Cardinality(b.copies) # 0
    BY <2>1, FS_CardinalityType, FS_EmptySet
  <2>3. QED
    BY <2>2
<1> HIDE DEF k
<1> DEFINE z == Extend * k
<1>2. z \in Nat
  BY <1>1, Constants
<1>3. Deadline(b) = MinOf(b.last + Window + z, b.opened + MaxWindow)
  BY DEF Deadline, k
<1> HIDE DEF z
<1>4. b.last \in Nat /\ b.opened \in Nat /\ at <= b.opened /\ b.opened <= at + Spread /\ at <= b.last
  BY BucketFacts DEF SaysSpan
<1>5. at + Spread <= Deadline(b) /\ Deadline(b) \in Int
  BY <1>2, <1>3, <1>4, Constants DEF MinOf, Fits
<1>6. \A when \in Nat : at <= when /\ when <= at + Spread => Accepts(b, when)
  BY <1>4, <1>5, Constants DEF Accepts, Fits
<1>7. QED
  BY <1>5, <1>6

\* An undamaged, verified copy says the real bytes of its message; so do buckets of such.
LEMMA IntactFacts ==
  ASSUME Shape, Told, OfSent, OfEvents, Intact(Delivered)
  PROVE  /\ \A b \in Pending : /\ b.good /\ b.slot = RealKey(b.slot.msg) /\ b.key = b.slot
                               /\ \A c \in b.copies : c.key = b.slot
         /\ \A e \in events : \E c \in e.copies : e.key = c.key /\ c.key = RealKey(c.key.msg)
<1>1. \A c \in Delivered : c.good /\ c.key = RealKey(c.key.msg)
  BY DEF Intact, OfSent, FromSent
<1>2. ASSUME NEW b \in Pending
      PROVE  /\ b.good /\ b.slot = RealKey(b.slot.msg) /\ b.key = b.slot
             /\ \A c \in b.copies : c.key = b.slot
  <2>1. \A c \in b.copies : c.good /\ c.key = RealKey(c.key.msg)
    BY <1>1, WhereDelivered
  <2>2. SaysSpan(b) /\ SaysMessage(b)
    BY DEF Told
  <2>3. \A c \in b.copies : c.key = RealKey(b.slot.msg)
    BY <2>1, <2>2 DEF SaysMessage
  <2>4. QED
    BY <2>1, <2>2, <2>3 DEF SaysMessage, SaysSpan
<1>3. ASSUME NEW e \in events
      PROVE  \E c \in e.copies : e.key = c.key /\ c.key = RealKey(c.key.msg)
  <2>1. PICK c \in e.copies : e.key \in {c.key, RealKey(c.key.msg)}
    BY DEF OfEvents
  <2>2. c.key = RealKey(c.key.msg)
    BY <1>1, WhereDelivered
  <2>3. QED
    BY <2>1, <2>2
<1>4. QED
  BY <1>2, <1>3

\* What was intact or in time before a step, if it is so after it.
LEMMA CleanBefore ==
  ASSUME Shape, Moves
  PROVE  /\ Intact(Delivered)' => Intact(Delivered)
         /\ OnTime(Delivered)' => OnTime(Delivered)
<1>1. Delivered \subseteq Delivered'
  BY DeliveredMoves
<1>2. QED
  BY <1>1 DEF Intact, OnTime

\* What is past stays past.
LEMMA PastKept ==
  ASSUME Shape, [Next]_vars, NEW c, FromSent(c), Past(c)
  PROVE  Past(c)'
<1>1. clock \in Nat /\ clock <= MaxTime
  BY Constants DEF Shape, Clocks, Time
<1>2. (stopped => stopped') /\ clock' \in Nat /\ clock' >= clock
  BY <1>1 DEF Next, vars, Tick, Transmit, Arrive, Add, PopReady, Flush, Emit
<1>3. \A t \in sent' : t.n = c.tx => t \in sent
  <2>1. CASE sent' = sent
    BY <2>1
  <2>2. CASE \E m \in Message : Transmit(m)
    <3>1. PICK t \in sent : c.tx = t.n
      BY DEF FromSent
    <3>2. c.tx \in 1..Cardinality(sent) /\ Cardinality(sent) \in Nat
      BY <3>1, FS_CardinalityType DEF Shape, SentShape
    <3>3. PICK m \in Message : sent' = sent \cup {[n |-> Cardinality(sent) + 1, msg |-> m, at |-> clock]}
      BY <2>2 DEF Transmit
    <3>4. QED
      BY <3>2, <3>3
  <2>3. QED
    BY <2>1, <2>2 DEF Next, vars, Tick, Arrive, Add, PopReady, Flush, Emit
<1>4. QED
  <2>1. CASE stopped
    BY <1>2, <2>1 DEF Past
  <2>2. CASE ~stopped
    <3>1. \A t \in sent : t.n = c.tx => clock > t.at + Spread + Lateness
      BY <2>2 DEF Past
    <3>2. \A t \in sent : t.at \in Nat
      BY DEF Shape, SentShape
    <3>3. \A t \in sent' : t.n = c.tx => clock' > t.at + Spread + Lateness
      BY <1>1, <1>2, <1>3, <3>1, <3>2, Constants
    <3>4. QED
      BY <3>3 DEF Past
  <2>3. QED
    BY <2>1, <2>2

\* A copy in time is not of a transmission that is past.
LEMMA NotPast ==
  ASSUME Shape, NEW c \in Copy, FromSent(c), c.arrived = clock, ~stopped, c.arrived - c.when <= Lateness
  PROVE  \A x : x.tx = c.tx => ~Past(x)
<1>1. PICK t \in sent : c.tx = t.n /\ t.at <= c.when /\ c.when <= t.at + Spread
  BY DEF FromSent
<1>2. c.when \in Nat /\ clock \in Nat /\ t.at \in Nat
  BY CopyFacts, Constants DEF Shape, Clocks, SentShape, Time
<1>3. ~(clock > t.at + Spread + Lateness)
  BY <1>1, <1>2, Constants
<1>4. QED
  BY <1>1, <1>3 DEF Past

\* What a copy in time meets: no event of its transmission, and no bucket but
\* the open one of its key that takes it.
LEMMA InTimeMeets ==
  ASSUME Kept, Spaced, SendingsApart, OfEvents, Fits, Clean, OnTimeOnce,
         NEW c \in Copy, Arriving(c), c.good, c.arrived - c.when <= Lateness
  PROVE  /\ \A b \in Pending : (\E x \in b.copies : x.tx = c.tx) =>
                b \in open /\ b.slot = c.key /\ Accepts(b, c.when)
         /\ \A e \in events : \A x \in e.copies : x.tx # c.tx
         /\ ~Straggler(c)
         /\ \A b \in open : b.slot = c.key /\ ~Accepts(b, c.when) => \A x \in b.copies : Past(x)
<1>1. /\ Shape /\ Told /\ OfSent /\ Intact(Delivered) /\ FromSent(c) /\ c.arrived = clock /\ ~stopped
      /\ c.key = RealKey(c.key.msg) /\ InDone = {} /\ Pending = open \cup ready \cup InDone /\ Deliverable(c)
  BY PendingFacts DEF Kept, Clean, Arriving, FromSent, InDone
<1>2. \A x : x.tx = c.tx => ~Past(x)
  BY <1>1, NotPast
<1>3. /\ \A b \in ready \cup InDone : \A x \in b.copies : Past(x)
      /\ \A e \in events : \A x \in e.copies : Past(x)
  BY DEF OnTimeOnce
<1>4. /\ \A b \in Pending : /\ b \in Bucket /\ SaysSpan(b) /\ SaysMessage(b) /\ OneSending(b.copies)
                            /\ \A x \in b.copies : x \in Copy /\ FromSent(x) /\ x.key = b.slot
      /\ \A e \in events : /\ OneSending(e.copies)
                           /\ \A x \in e.copies : x \in Copy /\ FromSent(x)
      /\ \A e \in events : \E x \in e.copies : e.key = x.key /\ x.key = RealKey(x.key.msg)
  <2>1. \A b \in Pending : \A x \in b.copies : x.key = b.slot
    BY <1>1, IntactFacts
  <2>2. \A b \in Pending : b \in Bucket /\ SaysSpan(b) /\ SaysMessage(b) /\ OneSending(b.copies)
    BY <1>1, PendingFacts DEF Told, SendingsApart
  <2>3. \A b \in Pending : \A x \in b.copies : x \in Copy /\ FromSent(x)
    BY <1>1, <2>2, BucketFacts, WhereDelivered DEF OfSent
  <2>4. \A e \in events : \A x \in e.copies : x \in Copy /\ FromSent(x)
    BY <1>1, WhereDelivered DEF OfSent, Shape, Tables, Event
  <2>5. \A e \in events : OneSending(e.copies)
    BY DEF SendingsApart
  <2>6. \A e \in events : \E x \in e.copies : e.key = x.key /\ x.key = RealKey(x.key.msg)
    BY <1>1, IntactFacts
  <2>7. QED
    BY <2>1, <2>2, <2>3, <2>4, <2>5, <2>6
<1>5. c.when \in Nat /\ clock \in Nat /\ c.when <= clock /\ clock - c.when <= Lateness
  BY <1>1, CopyFacts, Constants DEF Shape, Clocks, Time, Deliverable
<1>6. ASSUME NEW b \in Pending, NEW x \in b.copies, x.tx = c.tx
      PROVE  b.slot = c.key /\ Accepts(b, c.when)
  <2>1. PICK t \in sent : /\ c.tx = t.n /\ t.at \in Nat /\ c.key.msg = t.msg /\ x.key.msg = t.msg
                          /\ t.at <= c.when /\ c.when <= t.at + Spread
    BY <1>1, <1>4, <1>6, OneTransmission
  <2>2. \A y \in b.copies : t.at <= y.when /\ y.when <= t.at + Spread
    <3> TAKE y \in b.copies
    <3>1. y \in Copy /\ FromSent(y) /\ y.tx = c.tx
      BY <1>4, <1>6 DEF OneSending
    <3>2. PICK u \in sent : c.tx = u.n /\ u.at <= y.when /\ y.when <= u.at + Spread
      BY <1>1, <3>1, OneTransmission
    <3>3. u = t
      BY <1>1, <2>1, <3>2 DEF Shape, SentShape
    <3>4. QED
      BY <3>2, <3>3
  <2>3. Accepts(b, c.when)
    BY <1>4, <1>5, <2>1, <2>2, AcceptsOwn
  <2>4. b.slot = RealKey(b.slot.msg) /\ b.slot.msg = x.key.msg
    BY <1>1, <1>4, IntactFacts
  <2>5. QED
    BY <1>1, <2>1, <2>3, <2>4
<1>7. ASSUME NEW b \in Pending, NEW x \in b.copies, x.tx = c.tx
      PROVE  b \in open
  BY <1>1, <1>2, <1>3, <1>7
<1>8. \A e \in events : \A x \in e.copies : x.tx # c.tx
  BY <1>2, <1>3
<1>9. PICK t \in sent : c.tx = t.n /\ c.key.msg = t.msg /\ t.at <= c.when /\ c.when <= t.at + Spread
  BY <1>1 DEF FromSent
<1>10. t.at \in Nat
  BY <1>1 DEF Shape, SentShape
<1>11. ~Straggler(c)
  <2> SUFFICES ASSUME NEW s \in closed, s.key = c.key, Covers(s, c.when) PROVE FALSE
    BY DEF Straggler
  <2>1. PICK e \in events : MemoryOf(s, e)
    BY DEF OfEvents
  <2>2. PICK x \in e.copies : e.key = x.key /\ x.key = RealKey(x.key.msg)
    BY <1>4
  <2>3. PICK y \in e.copies : y.when = s.first
    BY <2>1 DEF MemoryOf
  <2>4. PICK z \in e.copies : z.when = s.last
    BY <2>1 DEF MemoryOf
  <2>5. /\ x \in Copy /\ y \in Copy /\ z \in Copy /\ FromSent(x) /\ FromSent(y) /\ FromSent(z)
        /\ x.tx = y.tx /\ y.tx = z.tx /\ x.tx # c.tx
    BY <1>4, <1>8 DEF OneSending
  <2>6. PICK u \in sent : x.tx = u.n /\ u.at \in Nat /\ x.key.msg = u.msg /\ u.at <= y.when /\ y.when <= u.at + Spread
    BY <1>1, <2>5, OneTransmission
  <2>7. PICK v \in sent : x.tx = v.n /\ v.at <= z.when /\ z.when <= v.at + Spread
    BY <1>1, <2>5, OneTransmission
  <2>8. u = v
    BY <1>1, <2>6, <2>7 DEF Shape, SentShape
  <2>9. x.key.msg = c.key.msg
    BY <2>1, <2>2 DEF MemoryOf
  <2>10. t.at - u.at >= Gap \/ u.at - t.at >= Gap
    BY <1>1, <1>9, <2>5, <2>6, <2>9 DEF Shape, SentShape
  <2>11. s.first - Window <= c.when /\ c.when <= s.last + Window
    BY DEF Covers
  <2>12. y.when \in Nat /\ z.when \in Nat
    BY <2>5, CopyFacts
  <2>13. QED
    BY <1>5, <1>9, <1>10, <2>3, <2>4, <2>6, <2>7, <2>8, <2>10, <2>11, <2>12, Constants DEF Spaced
<1>12. ASSUME NEW b \in open, b.slot = c.key, ~Accepts(b, c.when), NEW x \in b.copies
       PROVE  Past(x)
  <2>1. b \in Pending
    BY <1>1
  <2>2. x \in Copy /\ FromSent(x) /\ x.key.msg = c.key.msg /\ x.tx # c.tx
    BY <1>4, <1>6, <1>12, <2>1
  <2>3. PICK u \in sent : x.tx = u.n /\ x.key.msg = u.msg /\ u.at <= x.when /\ x.when <= u.at + Spread
    BY <2>2 DEF FromSent
  <2>4. u.at \in 0..clock /\ (t.at - u.at >= Gap \/ u.at - t.at >= Gap)
    BY <1>1, <1>9, <2>2, <2>3 DEF Shape, SentShape
  <2>5. clock > u.at + Spread + Lateness
    BY <1>5, <1>9, <1>10, <2>4, Constants DEF Fits
  <2>6. \A v \in sent : v.n = x.tx => v = u
    BY <1>1, <2>3 DEF Shape, SentShape
  <2>7. QED
    BY <2>5, <2>6 DEF Past
<1>13. QED
  BY <1>6, <1>7, <1>8, <1>11, <1>12

\* A verified copy resembles no verified bucket.
LEMMA NoneNearby ==
  ASSUME NEW c, c.good, NEW buckets, \A b \in buckets : b.good
  PROVE  /\ Nearby(c, buckets) = {}
         /\ Place(c, buckets) => open' = buckets \cup {NewBucket(c)}
<1>1. Nearby(c, buckets) = {}
  BY DEF Nearby
<1>2. (IF AllowCombine THEN Nearby(c, buckets) ELSE {}) = {}
  BY <1>1
<1>3. QED
  BY <1>1, <1>2 DEF Place

\* Fusion.add puts the copy somewhere.
LEMMA AddDelivers ==
  ASSUME Shape, NEW c \in Copy, Add(c)
  PROVE  c \in Delivered'
<1>1. open \subseteq Pending /\ Pending \subseteq Bucket /\ open' \subseteq Pending'
  BY PendingFacts DEF Pending
<1>2. ASSUME NEW h \in open, NEW ref \in {h.ref, RefOf(c)}, AddTo(h, c, ref) \in open'
      PROVE  c \in Delivered'
  <2>1. ref \in Ref
    BY <1>1, BucketFacts, CopyFacts
  <2>2. c \in AddTo(h, c, ref).copies
    BY <1>1, <2>1, CopiesOf
  <2>3. QED
    BY <1>1, <1>2, <2>2, WhereDeliveredNext
<1>3. ASSUME NEW buckets \in SUBSET open, Place(c, buckets)
      PROVE  c \in Delivered'
  <2>1. CASE \E h \in buckets : open' = (buckets \ {h}) \cup {AddTo(h, c, h.ref)}
    BY <1>2, <2>1
  <2>2. CASE open' = buckets \cup {NewBucket(c)}
    <3>1. c \in NewBucket(c).copies
      BY CopiesOf
    <3>2. QED
      BY <1>1, <2>2, <3>1, WhereDeliveredNext
  <2>3. buckets \in SUBSET Bucket
    BY <1>1
  <2>4. QED
    BY <1>3, <2>1, <2>2, <2>3, PlaceFacts
<1>4. CASE JoinExact(c)
  BY <1>2, <1>4 DEF JoinExact
<1>5. CASE EndOlder(c)
  BY <1>3, <1>5 DEF EndOlder
<1>6. CASE CountLate(c)
  BY <1>6, WhereDeliveredNext DEF CountLate
<1>7. CASE OpenNew(c)
  BY <1>3, <1>7 DEF OpenNew
<1>8. QED
  BY <1>4, <1>5, <1>6, <1>7 DEF Add

\* The bucket that has taken the copy of its transmission shares it with no other.
LEMMA AddOnce ==
  ASSUME Kept, Spaced, SendingsApart, OfEvents, Fits, OnTimeOnce, NEW c \in Copy, Arriving(c), Add(c),
         \A x : FromSent(x) /\ Past(x) => Past(x)', Moves, Clean'
  PROVE  OnTimeOnce'
<1>1. Shape /\ Told /\ OfSent /\ Filed
  BY DEF Kept
<1>2. Clean
  BY <1>1, CleanBefore DEF Clean
<1>3. /\ done = {} /\ done' = {} /\ events' = events /\ InDone = {} /\ InDone' = {}
      /\ Pending = open \cup ready /\ Pending' = open' \cup ready'
      /\ JoinExact(c) \/ EndOlder(c) \/ CountLate(c) \/ OpenNew(c)
  BY DEF Add, InDone, Pending
<1>4. /\ late = {}
      /\ \A b1, b2 \in Pending : Holds(b1.copies, b2.copies) => b1 = b2
      /\ \A e1, e2 \in events : Holds(e1.copies, e2.copies) => e1 = e2
      /\ \A b \in Pending, e \in events : ~Holds(b.copies, e.copies)
      /\ \A b \in ready : \A x \in b.copies : Past(x)
      /\ \A e \in events : \A x \in e.copies : Past(x)
  BY <1>2, <1>3 DEF OnTimeOnce
<1>5. /\ \A b \in Pending : b.good /\ b \in Bucket /\ \A x \in b.copies : FromSent(x)
      /\ \A e \in events : \A x \in e.copies : FromSent(x)
  <2>1. \A b \in Pending : b.good
    BY <1>1, <1>2, IntactFacts DEF Clean
  <2>2. QED
    BY <1>1, <2>1, PendingFacts, WhereDelivered DEF OfSent
<1>6. /\ \A b \in ready : \A x \in b.copies : Past(x)'
      /\ \A e \in events : \A x \in e.copies : Past(x)'
  BY <1>3, <1>4, <1>5
<1>7. ASSUME c \in Delivered'
      PROVE  /\ c.good
             /\ \A b \in Pending : (\E x \in b.copies : x.tx = c.tx) =>
                   b \in open /\ b.slot = c.key /\ Accepts(b, c.when)
             /\ \A e \in events : \A x \in e.copies : x.tx # c.tx
             /\ ~Straggler(c)
             /\ \A b \in open : b.slot = c.key /\ ~Accepts(b, c.when) => \A x \in b.copies : Past(x)
  <2>1. c.good /\ c.arrived - c.when <= Lateness
    BY <1>7 DEF Clean, Intact, OnTime
  <2>2. QED
    BY <1>2, <2>1, InTimeMeets
<1>8. ASSUME NEW a, Pending' = Pending \cup {a}, \A x : x \in a.copies <=> x = c, late' = late,
             \A b \in Pending : \A x \in b.copies : x.tx # c.tx, \A b \in ready' : \A x \in b.copies : Past(x)'
      PROVE  OnTimeOnce'
  <2>1. c \in Delivered'
    BY <1>8, WhereDeliveredNext
  <2>2. \A b1, b2 \in Pending' : Holds(b1.copies, b2.copies) => b1 = b2
    BY <1>4, <1>8 DEF Holds
  <2>3. \A b \in Pending', e \in events' : ~Holds(b.copies, e.copies)
    BY <1>3, <1>4, <1>7, <1>8, <2>1 DEF Holds
  <2>4. QED
    BY <1>3, <1>4, <1>6, <1>8, <2>2, <2>3 DEF OnTimeOnce
<1>9. CASE JoinExact(c)
  <2>1. PICK b \in open : /\ b.slot = c.key /\ Accepts(b, c.when) /\ ready' = ready /\ late' = late
                          /\ \E ref \in {b.ref, RefOf(c)} : open' = (open \ {b}) \cup {AddTo(b, c, ref)}
    BY <1>9 DEF JoinExact
  <2>2. PICK ref \in {b.ref, RefOf(c)} : open' = (open \ {b}) \cup {AddTo(b, c, ref)}
    BY <2>1
  <2>3. b \in Pending /\ ref \in Ref /\ b \notin ready
    BY <1>1, <1>3, <1>5, BucketFacts, CopyFacts DEF Filed
  <2> DEFINE a == AddTo(b, c, ref)
  <2>4. \A x : x \in a.copies <=> x \in b.copies \/ x = c
    BY <1>1, <2>3, CopiesOf
  <2>5. Pending' = (Pending \ {b}) \cup {a}
    BY <1>3, <2>1, <2>2, <2>3
  <2> HIDE DEF a
  <2>6. c \in Delivered'
    BY <2>4, <2>5, WhereDeliveredNext
  <2>7. \A d \in Pending : (\E x \in d.copies : x.tx = c.tx) => d = b
    BY <1>1, <1>7, <2>1, <2>6 DEF Filed
  <2>8. \A d \in Pending \ {b} : ~Holds(d.copies, a.copies) /\ ~Holds(a.copies, d.copies)
    BY <1>4, <2>3, <2>4, <2>7 DEF Holds
  <2>9. \A b1, b2 \in Pending' : Holds(b1.copies, b2.copies) => b1 = b2
    BY <1>4, <2>5, <2>8
  <2>10. \A e \in events : ~Holds(a.copies, e.copies)
    BY <1>4, <1>7, <2>3, <2>4, <2>6 DEF Holds
  <2>11. \A d \in Pending', e \in events' : ~Holds(d.copies, e.copies)
    BY <1>3, <1>4, <2>5, <2>10
  <2>12. QED
    BY <1>3, <1>4, <1>6, <2>1, <2>9, <2>11 DEF OnTimeOnce
<1>10. CASE EndOlder(c)
  <2>1. PICK b \in open : /\ b.slot = c.key /\ ~Accepts(b, c.when) /\ ready' = ready \cup {b} /\ late' = late
                          /\ Place(c, open \ {b})
    BY <1>10 DEF EndOlder
  <2>2. c \in Delivered'
    BY <1>1, AddDelivers
  <2>3. open' = (open \ {b}) \cup {NewBucket(c)}
    BY <1>3, <1>5, <1>7, <2>1, <2>2, NoneNearby
  <2>4. Pending' = Pending \cup {NewBucket(c)}
    BY <1>3, <2>1, <2>3
  <2>5. \A d \in Pending : \A x \in d.copies : x.tx # c.tx
    BY <1>1, <1>7, <2>1, <2>2 DEF Filed
  <2>6. \A d \in ready' : \A x \in d.copies : Past(x)'
    BY <1>3, <1>5, <1>6, <1>7, <2>1, <2>2
  <2>7. \A x : x \in NewBucket(c).copies <=> x = c
    BY <1>1, CopiesOf
  <2>8. QED
    BY <1>8, <2>1, <2>4, <2>5, <2>6, <2>7
<1>11. CASE CountLate(c)
  <2>1. late' = late \cup {c} /\ Straggler(c)
    BY <1>11 DEF CountLate
  <2>2. c \in Delivered'
    BY <2>1, WhereDeliveredNext
  <2>3. QED
    BY <1>7, <2>1, <2>2
<1>12. CASE OpenNew(c)
  <2>1. ready' = ready /\ late' = late /\ Place(c, open) /\ \A b \in open : b.slot # c.key
    BY <1>12 DEF OpenNew, NoExact
  <2>2. c \in Delivered'
    BY <1>1, AddDelivers
  <2>3. open' = open \cup {NewBucket(c)}
    BY <1>3, <1>5, <1>7, <2>1, <2>2, NoneNearby
  <2>4. Pending' = Pending \cup {NewBucket(c)}
    BY <1>3, <2>1, <2>3
  <2>5. \A d \in Pending : \A x \in d.copies : x.tx # c.tx
    BY <1>7, <2>1, <2>2
  <2>6. \A x : x \in NewBucket(c).copies <=> x = c
    BY <1>1, CopiesOf
  <2>7. QED
    BY <1>6, <1>8, <2>1, <2>4, <2>5, <2>6
<1>13. QED
  BY <1>3, <1>9, <1>10, <1>11, <1>12

\* A bucket whose window is over, asked lateness ago, is past.
LEMMA ClosedIsPast ==
  ASSUME Kept, SendingsApart, Fits, NEW b \in open, IsClosed(b, clock)
  PROVE  \A c \in b.copies : Past(c)
<1> SUFFICES ASSUME NEW c \in b.copies PROVE Past(c)
  OBVIOUS
<1>1. Shape /\ Told /\ OfSent /\ b \in Pending /\ b \in Bucket
  BY PendingFacts DEF Kept
<1>2. /\ SaysSpan(b) /\ SaysMessage(b) /\ OneSending(b.copies)
      /\ \A x \in b.copies : x \in Copy /\ FromSent(x)
  BY <1>1, BucketFacts, WhereDelivered DEF Told, OfSent, SendingsApart
<1>3. PICK t \in sent : c.tx = t.n
  BY <1>2 DEF FromSent
<1>4. \A u \in sent : u.n = c.tx => u = t
  BY <1>1, <1>3 DEF Shape, SentShape
<1>5. \A x \in b.copies : t.at <= x.when /\ x.when <= t.at + Spread
  <2> TAKE x \in b.copies
  <2>1. x.tx = c.tx
    BY <1>2 DEF OneSending
  <2>2. PICK u \in sent : c.tx = u.n /\ u.at <= x.when /\ x.when <= u.at + Spread
    BY <1>2, <2>1 DEF FromSent
  <2>3. QED
    BY <1>4, <2>2
<1>6. t.at \in Nat /\ clock \in Nat
  BY <1>1, Constants DEF Shape, Clocks, SentShape, Time
<1>7. t.at + Spread <= Deadline(b) /\ Deadline(b) \in Int
  BY <1>1, <1>2, <1>5, <1>6, AcceptsOwn
<1>8. clock > t.at + Spread + Lateness
  BY <1>6, <1>7, Constants DEF IsClosed
<1>9. QED
  BY <1>4, <1>8 DEF Past

\* An event is handed over with the bucket's copies.
LEMMA HandsOver ==
  ASSUME NEW u, NEW key, \E verified \in BOOLEAN : Finish(u, key, verified)
  PROVE  \E ev : events' = events \cup {ev} /\ ev.copies = u.copies
BY FinishFacts

\* _emit hands over whole transmissions.
LEMMA EmitOnce ==
  ASSUME Kept, OfEvents, OnTimeOnce, Emit, Moves, Clean',
         \A x : FromSent(x) /\ Past(x) => Past(x)'
  PROVE  OnTimeOnce'
<1>1. Shape /\ Told /\ OfSent /\ Filed
  BY DEF Kept
<1>2. Clean
  BY <1>1, CleanBefore DEF Clean
<1>3. \A b \in Pending : b.good
  BY <1>1, <1>2, IntactFacts DEF Clean
<1>4. Unverified = {}
  BY <1>1, <1>3, PendingFacts DEF Unverified
<1>5. PICK e \in done : EmitVerified(e)
  BY <1>4 DEF Emit, EmitDamaged, EmitRepaired, FirstOf
<1>6. /\ done' = done \ {e} /\ late' = late /\ open' = open /\ ready' = ready /\ stopped' = stopped
      /\ Finish(e.bucket, e.bucket.key, TRUE)
  BY <1>5 DEF Emit, EmitVerified
<1> DEFINE u == e.bucket
<1>7. PICK ev : events' = events \cup {ev} /\ ev.copies = u.copies
  BY <1>6, HandsOver
<1>8. Pending' = Pending \ {u} /\ u \in Pending /\ u \in InDone /\ InDone' \subseteq InDone
  BY <1>1, <1>6, EntryLeaves DEF InDone
<1> HIDE DEF u
<1>9. /\ late = {}
      /\ \A b1, b2 \in Pending : Holds(b1.copies, b2.copies) => b1 = b2
      /\ \A e1, e2 \in events : Holds(e1.copies, e2.copies) => e1 = e2
      /\ \A b \in Pending, f \in events : ~Holds(b.copies, f.copies)
      /\ \A b \in ready \cup InDone : \A c \in b.copies : Past(c)
      /\ \A f \in events : \A c \in f.copies : Past(c)
  BY <1>2 DEF OnTimeOnce
<1>10. /\ \A b \in Pending : \A x \in b.copies : FromSent(x)
       /\ \A f \in events : \A x \in f.copies : FromSent(x)
       /\ ready \subseteq Pending /\ InDone \subseteq Pending
  BY <1>1, PendingFacts, WhereDelivered DEF OfSent
<1>11. \A b \in ready' \cup InDone' : \A c \in b.copies : Past(c)'
  BY <1>6, <1>8, <1>9, <1>10
<1>12. \A f \in events' : \A c \in f.copies : Past(c)'
  BY <1>8, <1>7, <1>9, <1>10
<1>13. \A f \in events : ~Holds(ev.copies, f.copies) /\ ~Holds(f.copies, ev.copies)
  BY <1>8, <1>7, <1>9 DEF Holds
<1>14. \A e1, e2 \in events' : Holds(e1.copies, e2.copies) => e1 = e2
  BY <1>7, <1>9, <1>13
<1>15. \A b \in Pending', f \in events' : ~Holds(b.copies, f.copies)
  BY <1>8, <1>7, <1>9
<1>16. QED
  BY <1>6, <1>8, <1>9, <1>11, <1>12, <1>14, <1>15 DEF OnTimeOnce

\* Every step keeps a transmission's copies together, while all are intact and in time.
LEMMA OnTimeKept ==
  ASSUME Kept, Spaced, SendingsApart, OfEvents, Fits, OnTimeOnce, [Next]_vars
  PROVE  OnTimeOnce'
<1> SUFFICES ASSUME Clean' PROVE OnTimeOnce'
  BY DEF OnTimeOnce
<1>1. Shape /\ Shape' /\ Filed /\ Apart /\ Numbered /\ Told /\ OfSent
  BY ShapeKept DEF Kept
<1>2. Moves
  BY <1>1, NextMoves
<1>3. Clean
  BY <1>1, <1>2, CleanBefore DEF Clean
<1>4. \A x : FromSent(x) /\ Past(x) => Past(x)'
  BY <1>1, PastKept
<1>5. /\ late = {}
      /\ \A b1, b2 \in Pending : Holds(b1.copies, b2.copies) => b1 = b2
      /\ \A e1, e2 \in events : Holds(e1.copies, e2.copies) => e1 = e2
      /\ \A b \in Pending, e \in events : ~Holds(b.copies, e.copies)
      /\ \A b \in ready \cup InDone : \A c \in b.copies : Past(c)
      /\ \A e \in events : \A c \in e.copies : Past(c)
  BY <1>3 DEF OnTimeOnce
<1>6. /\ \A b \in Pending : \A x \in b.copies : FromSent(x)
      /\ \A e \in events : \A x \in e.copies : FromSent(x)
      /\ ready \subseteq Pending /\ InDone \subseteq Pending /\ open \subseteq Pending
  BY <1>1, PendingFacts, WhereDelivered DEF OfSent
<1>7. /\ \A b \in ready \cup InDone : \A c \in b.copies : Past(c)'
      /\ \A e \in events : \A c \in e.copies : Past(c)'
  BY <1>4, <1>5, <1>6
<1>8. ASSUME Pending' = Pending, UNCHANGED <<events, late>>,
             \A b \in ready' \cup InDone' : \A c \in b.copies : Past(c)'
      PROVE  OnTimeOnce'
  BY <1>5, <1>7, <1>8 DEF OnTimeOnce
<1>9. CASE UNCHANGED vars \/ Tick \/ \E m \in Message : Transmit(m)
  <2>1. UNCHANGED <<open, ready, done, events, late>>
    BY <1>9 DEF vars, Tick, Transmit
  <2>2. Pending' = Pending /\ InDone' = InDone
    BY <2>1 DEF Pending, InDone
  <2>3. QED
    BY <1>7, <1>8, <2>1, <2>2
<1>10. CASE Arrive
  <2>1. PICK t \in sent, off \in 0..Spread, hop \in Hop, kind \in Kind : Add(CopyOf(t, off, hop, kind))
    BY <1>10 DEF Arrive
  <2> DEFINE c == CopyOf(t, off, hop, kind)
  <2>2. /\ copies < MaxCopies /\ copies' = copies + 1 /\ ~stopped /\ done = {} /\ Deliverable(c)
        /\ UNCHANGED <<events, clock, sent, stopped, closed, done>>
    BY <2>1 DEF Add
  <2>3. c \in Copy /\ c.id = copies + 1 /\ FromSent(c) /\ c.arrived = clock
    BY <1>1, <2>2, CopyOfFacts
  <2> HIDE DEF c
  <2>4. Arriving(c) /\ Add(c)
    BY <2>1, <2>2, <2>3 DEF Arriving, c
  <2>5. QED
    BY <1>2, <1>4, <2>3, <2>4, AddOnce
<1>11. CASE PopReady
  <2>1. /\ Pending' = Pending /\ ready' = {}
        /\ \A b \in InDone' : b \in ready \/ (b \in open /\ IsClosed(b, clock))
    BY <1>1, <1>11, PopReadyMoves
  <2>2. UNCHANGED <<events, late>>
    BY <1>11 DEF PopReady
  <2>3. \A b \in ready' \cup InDone' : \A c \in b.copies : Past(c)'
    BY <1>4, <1>6, <1>7, <2>1, ClosedIsPast
  <2>4. QED
    BY <1>8, <2>1, <2>2, <2>3
<1>12. CASE Flush
  <2>1. Pending' = Pending
    BY <1>1, <1>12, FlushMoves
  <2>2. stopped' /\ UNCHANGED <<events, late>>
    BY <1>12 DEF Flush
  <2>3. \A c : Past(c)'
    BY <2>2 DEF Past
  <2>4. QED
    BY <1>8, <2>1, <2>2, <2>3
<1>13. CASE Emit
  BY <1>2, <1>4, <1>13, EmitOnce
<1>14. QED
  BY <1>9, <1>10, <1>11, <1>12, <1>13 DEF Next

\* While a message was sent once, all copies are of that sending.
LEMMA OneSent ==
  ASSUME Shape, OfSent, Cardinality(sent) = 1
  PROVE  \E t \in sent : /\ t.at \in Nat /\ t.msg \in Message
                         /\ \A c : FromSent(c) => c.key.msg = t.msg /\ t.at <= c.when /\ c.when <= t.at + Spread
<1>1. sent # {} /\ \A t, u \in sent : t = u
  <2>1. IsFiniteSet(sent) /\ \A t, u \in sent : t.n = u.n => t = u
    BY DEF Shape, SentShape
  <2>2. \A t \in sent : t.n \in 1..1
    BY DEF Shape, SentShape
  <2>3. \A t \in sent : t.n = 1
    BY <2>2
  <2>4. sent # {}
    BY FS_EmptySet
  <2>5. QED
    BY <2>1, <2>3, <2>4
<1>2. PICK t \in sent : TRUE
  BY <1>1
<1>3. t.at \in Nat /\ t.msg \in Message
  BY DEF Shape, SentShape
<1>4. \A c : FromSent(c) => c.key.msg = t.msg /\ t.at <= c.when /\ c.when <= t.at + Spread
  BY <1>1 DEF FromSent
<1>5. QED
  BY <1>3, <1>4

\* What a verified copy of the only sending meets: the open bucket takes it, and
\* if the event has gone it is a straggler.
LEMMA OnlySendingMeets ==
  ASSUME Kept, OfEvents, Counts, Fits, Intact(Delivered), Cardinality(sent) = 1,
         NEW c \in Copy, FromSent(c), c.good
  PROVE  /\ \A b \in Pending : b.slot = c.key /\ Accepts(b, c.when)
         /\ events # {} => Straggler(c)
<1>1. Shape /\ Told /\ OfSent
  BY DEF Kept
<1>2. PICK t \in sent : /\ t.at \in Nat /\ t.msg \in Message
                        /\ \A x : FromSent(x) => x.key.msg = t.msg /\ t.at <= x.when /\ x.when <= t.at + Spread
  BY <1>1, OneSent
<1>3. c.key = RealKey(t.msg) /\ t.at <= c.when /\ c.when <= t.at + Spread /\ c.when \in Nat
  BY <1>2, CopyFacts DEF FromSent
<1>4. \A b \in Pending : b.slot = c.key /\ Accepts(b, c.when)
  <2> TAKE b \in Pending
  <2>1. /\ b \in Bucket /\ SaysSpan(b) /\ SaysMessage(b) /\ b.slot = RealKey(b.slot.msg)
        /\ \A x \in b.copies : FromSent(x) /\ x.key = b.slot
    BY <1>1, PendingFacts, WhereDelivered, IntactFacts DEF Told, OfSent
  <2>2. \A x \in b.copies : t.at <= x.when /\ x.when <= t.at + Spread /\ x.key.msg = t.msg
    BY <1>2, <2>1
  <2>3. PICK x \in b.copies : x.when = b.opened
    BY <2>1 DEF SaysSpan
  <2>4. b.slot = c.key
    BY <1>3, <2>1, <2>2, <2>3
  <2>5. Accepts(b, c.when)
    BY <1>2, <1>3, <2>1, <2>2, AcceptsOwn
  <2>6. QED
    BY <2>4, <2>5
<1>5. ASSUME NEW e \in events PROVE Straggler(c)
  <2>1. PICK s \in closed : s.key = e.key
    BY DEF Counts
  <2>2. PICK f \in events : MemoryOf(s, f)
    BY DEF OfEvents
  <2>3. \A x \in f.copies : FromSent(x) /\ t.at <= x.when /\ x.when <= t.at + Spread /\ x.key.msg = t.msg
    BY <1>1, <1>2, WhereDelivered DEF OfSent
  <2>4. PICK x \in f.copies : f.key = x.key /\ x.key = RealKey(x.key.msg)
    BY <1>1, IntactFacts
  <2>5. s.key = c.key
    BY <1>3, <2>2, <2>3, <2>4 DEF MemoryOf
  <2>6. t.at <= s.first /\ s.first <= t.at + Spread /\ t.at <= s.last /\ s.first \in Nat /\ s.last \in Nat
    BY <1>1, <2>2, <2>3 DEF MemoryOf, Shape, Tables, Memory
  <2>7. Covers(s, c.when)
    BY <1>2, <1>3, <2>6, Constants DEF Covers, Fits
  <2>8. QED
    BY <2>5, <2>7 DEF Straggler
<1>6. QED
  BY <1>4, <1>5

\* Then the copy joins the bucket, is late, or is the first.
LEMMA AddOfOnly ==
  ASSUME Kept, OfEvents, Counts, Fits, Intact(Delivered), Cardinality(sent) = 1, Recent,
         SentOnce, NEW c \in Copy, Arriving(c), c.good, Add(c)
  PROVE  /\ ready' = {} /\ \A b1, b2 \in Pending' : b1 = b2
         /\ events # {} => Pending' = {}
<1>1. /\ Shape /\ Told /\ OfSent /\ Filed /\ FromSent(c) /\ done = {} /\ done' = {}
      /\ JoinExact(c) \/ EndOlder(c) \/ CountLate(c) \/ OpenNew(c)
  BY DEF Kept, Arriving, Add
<1>2. Pending = open \cup ready /\ Pending' = open' \cup ready' /\ open \subseteq Pending
  BY <1>1 DEF Pending
<1>3. ready = {} /\ (\A b1, b2 \in Pending : b1 = b2) /\ (events # {} => Pending = {})
  BY DEF SentOnce
<1>4. /\ \A b \in Pending : b.slot = c.key /\ Accepts(b, c.when)
      /\ events # {} => Straggler(c)
  BY <1>1, OnlySendingMeets
<1>5. CASE JoinExact(c)
  <2>1. PICK b \in open : ready' = ready /\ \E ref \in {b.ref, RefOf(c)} : open' = (open \ {b}) \cup {AddTo(b, c, ref)}
    BY <1>5 DEF JoinExact
  <2>2. PICK ref \in {b.ref, RefOf(c)} : open' = (open \ {b}) \cup {AddTo(b, c, ref)}
    BY <2>1
  <2>3. Pending' = {AddTo(b, c, ref)} /\ events = {}
    BY <1>2, <1>3, <2>1, <2>2
  <2>4. QED
    BY <1>3, <2>1, <2>3
<1>6. CASE EndOlder(c)
  BY <1>2, <1>4, <1>6 DEF EndOlder
<1>7. CASE CountLate(c)
  <2>1. ready' = ready /\ open' = open
    BY <1>7 DEF CountLate
  <2>2. QED
    BY <1>2, <1>3, <2>1
<1>8. CASE OpenNew(c)
  <2>1. ready' = ready /\ (\A b \in open : b.slot # c.key) /\ ~Straggler(c) /\ Place(c, open)
    BY <1>8 DEF OpenNew, NoExact
  <2>2. open = {} /\ events = {}
    BY <1>2, <1>4, <2>1
  <2>3. open' = open \cup {NewBucket(c)}
    BY <2>1, <2>2, NoneNearby
  <2>4. QED
    BY <1>2, <1>3, <2>1, <2>2, <2>3
<1>9. QED
  BY <1>1, <1>5, <1>6, <1>7, <1>8

\* Every step keeps the copies of the only sending together.
LEMMA SentOnceKept ==
  ASSUME Kept, OfEvents, Numbering, Fits, SentOnce, [Next]_vars
  PROVE  SentOnce'
<1> SUFFICES ASSUME Intact(Delivered)', Cardinality(sent') = 1, Recent'
             PROVE  /\ ready' = {}
                    /\ \A b1, b2 \in Pending' : b1 = b2
                    /\ \A e, f \in events' : e = f
                    /\ events' # {} => Pending' = {}
  BY DEF SentOnce
<1>1. Shape /\ Shape' /\ Filed /\ Apart /\ Numbered /\ Told /\ OfSent
  BY ShapeKept DEF Kept
<1>2. Moves /\ Filed'
  BY <1>1, NextMoves
<1>3. Intact(Delivered) /\ Recent /\ Counts
  BY <1>1, <1>2, CleanBefore, RecentBefore DEF Numbering
<1>4. ASSUME sent' = sent
      PROVE  /\ Cardinality(sent) = 1 /\ ready = {}
             /\ \A b1, b2 \in Pending : b1 = b2
             /\ \A e, f \in events : e = f
             /\ events # {} => Pending = {}
  BY <1>3, <1>4 DEF SentOnce
<1>5. ASSUME sent' = sent, Pending' = Pending, events' = events, ready' = {} \/ ready' = ready
      PROVE  /\ ready' = {}
             /\ \A b1, b2 \in Pending' : b1 = b2
             /\ \A e, f \in events' : e = f
             /\ events' # {} => Pending' = {}
  BY <1>4, <1>5
<1>6. CASE UNCHANGED vars \/ Tick
  <2>1. UNCHANGED <<sent, open, ready, done, events>>
    BY <1>6 DEF vars, Tick
  <2>2. Pending' = Pending
    BY <2>1 DEF Pending
  <2>3. QED
    BY <1>5, <2>1, <2>2
<1>7. CASE \E m \in Message : Transmit(m)
  <2>1. PICK m \in Message : Transmit(m)
    BY <1>7
  <2> DEFINE t == [n |-> Cardinality(sent) + 1, msg |-> m, at |-> clock]
  <2>2. sent' = sent \cup {t} /\ UNCHANGED <<open, ready, done, events>> /\ t.n = Cardinality(sent) + 1
    BY <2>1 DEF Transmit
  <2> HIDE DEF t
  <2>3. t \notin sent /\ IsFiniteSet(sent) /\ Cardinality(sent) \in Nat
    BY <1>1, <2>2, FS_CardinalityType DEF Shape, SentShape
  <2>4. Cardinality(sent') = Cardinality(sent) + 1
    BY <2>2, <2>3, FS_AddElement
  <2>5. sent = {}
    BY <2>3, <2>4, FS_EmptySet
  <2>6. \A c : c \notin Delivered
    BY <1>1, <2>5 DEF OfSent, FromSent
  <2>7. Pending = {} /\ events = {}
    <3>1. \A b \in Pending : \E c \in b.copies : TRUE
      BY <1>1 DEF Told, SaysSpan
    <3>2. \A e \in events : \E c \in e.copies : TRUE
      BY <1>1 DEF Told
    <3>3. QED
      BY <2>6, <3>1, <3>2, WhereDelivered
  <2>8. Pending' = Pending /\ ready \subseteq Pending
    BY <2>2 DEF Pending
  <2>9. QED
    BY <2>2, <2>7, <2>8
<1>8. CASE Arrive
  <2>1. PICK t \in sent, off \in 0..Spread, hop \in Hop, kind \in Kind : Add(CopyOf(t, off, hop, kind))
    BY <1>8 DEF Arrive
  <2> DEFINE c == CopyOf(t, off, hop, kind)
  <2>2. /\ copies < MaxCopies /\ copies' = copies + 1 /\ ~stopped /\ done = {} /\ done' = {} /\ Deliverable(c)
        /\ UNCHANGED <<events, clock, sent, stopped, closed, done>>
    BY <2>1 DEF Add
  <2>3. c \in Copy /\ c.id = copies + 1 /\ FromSent(c) /\ c.arrived = clock
    BY <1>1, <2>2, CopyOfFacts
  <2> HIDE DEF c
  <2>4. Arriving(c) /\ Add(c)
    BY <2>1, <2>2, <2>3 DEF Arriving, c
  <2>5. /\ Cardinality(sent) = 1 /\ ready = {} /\ (\A b1, b2 \in Pending : b1 = b2)
        /\ (\A e, f \in events : e = f) /\ (events # {} => Pending = {})
    BY <1>4, <2>2
  <2>6. CASE c \in Delivered'
    <3>1. c.good
      BY <2>6 DEF Intact
    <3>2. ready' = {} /\ (\A b1, b2 \in Pending' : b1 = b2) /\ (events # {} => Pending' = {})
      BY <1>3, <2>3, <2>4, <2>5, <3>1, AddOfOnly
    <3>3. QED
      BY <2>2, <2>5, <3>2
  <2>7. c \in Delivered'
    BY <1>1, <2>1, <2>3, AddDelivers DEF c
  <2>8. QED
    BY <2>6, <2>7
<1>9. CASE PopReady
  <2>1. UNCHANGED <<sent, events>>
    BY <1>9 DEF PopReady
  <2>2. QED
    BY <1>1, <1>5, <1>9, <2>1, PopReadyMoves
<1>10. CASE Flush
  <2>1. UNCHANGED <<sent, events>>
    BY <1>10 DEF Flush
  <2>2. QED
    BY <1>1, <1>5, <1>10, <2>1, FlushMoves
<1>11. CASE Emit
  <2>1. \A b \in Pending : b.good
    BY <1>1, <1>3, IntactFacts
  <2>2. Unverified = {}
    BY <1>1, <2>1, PendingFacts DEF Unverified
  <2>3. PICK e \in done : EmitVerified(e)
    BY <1>11, <2>2 DEF Emit, EmitDamaged, EmitRepaired, FirstOf
  <2>4. /\ done' = done \ {e} /\ UNCHANGED <<open, ready, stopped, sent>> /\ Finish(e.bucket, e.bucket.key, TRUE)
    BY <1>11, <2>3 DEF Emit, EmitVerified
  <2> DEFINE u == e.bucket
  <2>5. PICK ev : events' = events \cup {ev} /\ ev.copies = u.copies
    BY <2>4, HandsOver
  <2>6. Pending' = Pending \ {u} /\ u \in Pending
    BY <1>1, <2>4, EntryLeaves
  <2> HIDE DEF u
  <2>7. QED
    BY <1>4, <2>4, <2>5, <2>6
<1>12. QED
  BY <1>6, <1>7, <1>8, <1>9, <1>10, <1>11 DEF Next

\* fusion.py's "fold": if a transmission fits into a window, and its message is
\* sent again only when no copy of it can come in time, then as long as all
\* copies are intact and in time a transmission makes one event, and no copy of
\* it is late.
THEOREM OnTimeFolded == Spec /\ Spaced /\ Fits => []FoldsOnTime
<1> DEFINE Inv == Kept /\ Spaced /\ Fits /\ SendingsApart /\ OfEvents /\ OnTimeOnce
<1>1. Init /\ Spaced /\ Fits => Inv
  <2> SUFFICES ASSUME Init, Spaced, Fits PROVE Inv
    OBVIOUS
  <2>1. Kept
    BY InitKept
  <2>2. events = {} /\ closed = {} /\ Pending = {} /\ late = {} /\ ready = {} /\ InDone = {}
    BY DEF Init, Pending, InDone
  <2>3. SendingsApart /\ OfEvents
    BY <2>2 DEF SendingsApart, OfEvents
  <2>4. OnTimeOnce
    BY <2>2 DEF OnTimeOnce
  <2>5. QED
    BY <2>1, <2>3, <2>4
<1>2. Inv /\ [Next]_vars => Inv'
  <2> SUFFICES ASSUME Inv, [Next]_vars PROVE Inv'
    OBVIOUS
  <2>1. Shape /\ Told /\ OfSent /\ Kept'
    BY NextKept DEF Kept
  <2>2. Moves
    BY <2>1, NextMoves DEF Kept
  <2>3. SendingsApart'
    BY <2>1, <2>2, SendingsKept
  <2>4. OfEvents'
    BY <2>1, OfEventsKept
  <2>5. OnTimeOnce'
    BY OnTimeKept
  <2>6. QED
    BY <2>1, <2>3, <2>4, <2>5 DEF Spaced, Fits
<1>3. Inv => FoldsOnTime
  BY DEF OnTimeOnce, Clean, Holds, FoldsOnTime, SameTx
<1>4. QED
  BY <1>1, <1>2, <1>3, PTL DEF Spec

\* _is_straggler: if a transmission fits into a window, a message sent once makes
\* one event however late its copies are, until the event is older than
\* repeat_memory_s.
THEOREM LateOnesDropped == Spec /\ Fits => [](Recent => StragglersDropped)
<1> DEFINE Inv == Kept /\ Fits /\ OfEvents /\ Numbering /\ SentOnce
<1>1. Init /\ Fits => Inv
  <2> SUFFICES ASSUME Init, Fits PROVE Inv
    OBVIOUS
  <2>1. Kept
    BY InitKept
  <2>2. events = {} /\ closed = {} /\ Pending = {} /\ ready = {}
    BY DEF Init, Pending
  <2>3. OfEvents /\ Numbering
    BY <2>2 DEF OfEvents, Numbering, Counts, EventNumbers, NumberedAsFinished, RepeatsNumbered
  <2>4. SentOnce
    BY <2>2 DEF SentOnce
  <2>5. QED
    BY <2>1, <2>3, <2>4
<1>2. Inv /\ [Next]_vars => Inv'
  <2> SUFFICES ASSUME Inv, [Next]_vars PROVE Inv'
    OBVIOUS
  <2>1. Shape /\ Told /\ Kept'
    BY NextKept DEF Kept
  <2>2. OfEvents' /\ Numbering'
    BY <2>1, OfEventsKept, NumberingKept
  <2>3. SentOnce'
    BY SentOnceKept
  <2>4. QED
    BY <2>1, <2>2, <2>3 DEF Fits
<1>3. Inv => (Recent => StragglersDropped)
  BY DEF SentOnce, StragglersDropped
<1>4. QED
  BY <1>1, <1>2, <1>3, PTL DEF Spec

\* Both together, if the memory is as long as the time looked at: one event per
\* transmission, of copies in time or of a single sending.
THEOREM FoldedIntoOne == Spec /\ Spaced /\ Fits /\ Remembers => []OneEventPerTransmission
<1>1. Remembers /\ [Next]_vars => Remembers'
  BY DEF Remembers
<1>2. Kept /\ Remembers => Recent
  BY RemembersAll DEF Kept
<1>3. FoldsOnTime /\ StragglersDropped => OneEventPerTransmission
  BY DEF OneEventPerTransmission
<1>4. QED
  BY <1>1, <1>2, <1>3, AlwaysKept, OnTimeFolded, LateOnesDropped, PTL DEF Spec

(***************************************************************************)
(* Repeats in the order of their sendings.                                 *)
(***************************************************************************)
\* What there is of a message in one set of copies was on the air before what
\* there is of it in the other.
Precedes(copy, other) == \A c \in copy, d \in other : c.key.msg = d.key.msg => c.when < d.when

\* Ended buckets are of earlier sendings than open ones, events of earlier ones
\* than buckets, and the events are numbered so.
SendingsInOrder ==
  Clean =>
    /\ \A b \in ready \cup InDone, o \in open : Precedes(b.copies, o.copies)
    /\ \A e \in events, b \in Pending : Precedes(e.copies, b.copies)
    /\ \A e, f \in events : e.n < f.n => Precedes(e.copies, f.copies)

\* _emit goes through a call's buckets as they were opened, so the sort finds
\* the events sorted, and they are returned in the order of their numbers.
ReturnedInOrder ==
  Intact(Delivered) =>
    /\ \A d \in done : d.pos = d.bucket.opened
    /\ \A e \in DOMAIN handed, f \in events \ DOMAIN handed : e.n < f.n
    /\ \A e, f \in DOMAIN handed : e.n < f.n => handed[e] < handed[f]
    /\ \A e, f \in events \ DOMAIN handed : e.n < f.n => e.first <= f.first
    /\ \A e \in events \ DOMAIN handed, d \in done : e.first <= d.pos

\* All the transmissions of a message are apart by more than a copy's delay.
LEMMA SendingOf ==
  ASSUME Shape, Fits, NEW c \in Copy, NEW d \in Copy, FromSent(c), FromSent(d),
         c.key.msg = d.key.msg, c.tx # d.tx
  PROVE  \E t, u \in sent : /\ t.n = c.tx /\ t.at \in Nat /\ t.at <= c.when /\ c.when <= t.at + Spread
                            /\ u.n = d.tx /\ u.at \in Nat /\ u.at <= d.when /\ d.when <= u.at + Spread
                            /\ t.at > u.at + Spread + Lateness \/ u.at > t.at + Spread + Lateness
<1>1. PICK t \in sent : c.tx = t.n /\ c.key.msg = t.msg /\ t.at <= c.when /\ c.when <= t.at + Spread
  BY DEF FromSent
<1>2. PICK u \in sent : d.tx = u.n /\ d.key.msg = u.msg /\ u.at <= d.when /\ d.when <= u.at + Spread
  BY DEF FromSent
<1>3. t.at \in Nat /\ u.at \in Nat /\ (t.at - u.at >= Gap \/ u.at - t.at >= Gap)
  <2>1. /\ \A v \in sent : v.at \in Nat
        /\ \A v, w \in sent : v.msg = w.msg /\ v # w => v.at - w.at >= Gap \/ w.at - v.at >= Gap
    BY DEF Shape, SentShape
  <2>2. t # u /\ t.msg = u.msg
    BY <1>1, <1>2
  <2>3. QED
    BY <2>1, <2>2
<1>4. t.at > u.at + Spread + Lateness \/ u.at > t.at + Spread + Lateness
  BY <1>3, Constants DEF Fits
<1>5. QED
  BY <1>1, <1>2, <1>3, <1>4

\* A copy in time is of a later sending than one whose transmission is past.
LEMMA InTimeIsLater ==
  ASSUME Shape, Fits, ~stopped, NEW c \in Copy, FromSent(c), c.arrived = clock, c.arrived - c.when <= Lateness,
         NEW d \in Copy, FromSent(d), Past(d), d.key.msg = c.key.msg
  PROVE  d.when < c.when
<1>1. d.tx # c.tx
  BY NotPast
<1>2. PICK t, u \in sent : /\ t.n = d.tx /\ t.at \in Nat /\ t.at <= d.when /\ d.when <= t.at + Spread
                           /\ u.n = c.tx /\ u.at \in Nat /\ u.at <= c.when /\ c.when <= u.at + Spread
                           /\ t.at > u.at + Spread + Lateness \/ u.at > t.at + Spread + Lateness
  BY <1>1, SendingOf
<1>3. clock > t.at + Spread + Lateness
  BY <1>2 DEF Past
<1>4. c.when \in Nat /\ d.when \in Nat /\ clock \in Nat
  BY CopyFacts, Constants DEF Shape, Clocks, Time
<1>5. QED
  BY <1>2, <1>3, <1>4, Constants

\* Of two buckets of one message and different sendings, the one opened first
\* has the earlier copies.
LEMMA OpenedFirst ==
  ASSUME Kept, Fits, SendingsApart, NEW b \in Pending, NEW o \in Pending, ~Holds(b.copies, o.copies),
         b.opened <= o.opened
  PROVE  Precedes(b.copies, o.copies)
<1>1. Shape /\ Told /\ OfSent
  BY DEF Kept
<1>2. /\ b \in Bucket /\ o \in Bucket /\ SaysSpan(b) /\ SaysSpan(o)
      /\ SaysMessage(b) /\ SaysMessage(o) /\ OneSending(b.copies) /\ OneSending(o.copies)
      /\ \A x \in b.copies : x \in Copy /\ FromSent(x)
      /\ \A x \in o.copies : x \in Copy /\ FromSent(x)
  BY <1>1, PendingFacts, BucketFacts, WhereDelivered DEF Told, OfSent, SendingsApart
<1> SUFFICES ASSUME NEW c \in b.copies, NEW d \in o.copies, c.key.msg = d.key.msg PROVE c.when < d.when
  BY DEF Precedes
<1>3. PICK x \in b.copies : x.when = b.opened
  BY <1>2 DEF SaysSpan
<1>4. PICK y \in o.copies : y.when = o.opened
  BY <1>2 DEF SaysSpan
<1>5. x.tx = c.tx /\ y.tx = d.tx /\ c.tx # d.tx
  BY <1>2 DEF OneSending, Holds
<1>6. PICK t, u \in sent : /\ t.n = c.tx /\ t.at \in Nat /\ t.at <= c.when /\ c.when <= t.at + Spread
                           /\ u.n = d.tx /\ u.at \in Nat /\ u.at <= d.when /\ d.when <= u.at + Spread
                           /\ t.at > u.at + Spread + Lateness \/ u.at > t.at + Spread + Lateness
  BY <1>1, <1>2, <1>5, SendingOf
<1>7. x.when <= t.at + Spread /\ t.at <= x.when /\ u.at <= y.when /\ y.when <= u.at + Spread
  <2>1. \A v, w \in sent : v.n = w.n => v = w
    BY <1>1 DEF Shape, SentShape
  <2>2. PICK v \in sent : x.tx = v.n /\ v.at <= x.when /\ x.when <= v.at + Spread
    BY <1>2 DEF FromSent
  <2>3. PICK w \in sent : y.tx = w.n /\ w.at <= y.when /\ y.when <= w.at + Spread
    BY <1>2 DEF FromSent
  <2>4. QED
    BY <1>5, <1>6, <2>1, <2>2, <2>3
<1>8. x.when \in Nat /\ y.when \in Nat /\ c.when \in Nat /\ d.when \in Nat
  BY <1>2, CopyFacts
<1>9. QED
  BY <1>3, <1>4, <1>6, <1>7, <1>8, Constants

\* The open buckets are of different messages, while every copy is intact.
LEMMA OpenApart ==
  ASSUME Kept, OfEvents, Intact(Delivered), NEW b \in open, NEW o \in open, b # o
  PROVE  Precedes(b.copies, o.copies)
<1>1. Shape /\ Told /\ OfSent /\ b \in Pending /\ o \in Pending
  BY PendingFacts DEF Kept
<1>2. b.slot = RealKey(b.slot.msg) /\ o.slot = RealKey(o.slot.msg) /\ b.slot # o.slot
  BY <1>1, IntactFacts DEF Kept, Filed
<1>3. b.slot.msg # o.slot.msg
  BY <1>2
<1>4. QED
  BY <1>1, <1>3 DEF Precedes, Told, SaysMessage

\* Fusion.add: what a copy in time joins or opens is later than what has ended.
LEMMA AddInOrder ==
  ASSUME Kept, Spaced, SendingsApart, OfEvents, Fits, OnTimeOnce, SendingsInOrder, NEW c \in Copy, Arriving(c), Add(c),
         Moves, Clean'
  PROVE  SendingsInOrder'
<1>1. Shape /\ Told /\ OfSent /\ Filed
  BY DEF Kept
<1>2. Clean
  BY <1>1, CleanBefore DEF Clean
<1>3. /\ done = {} /\ done' = {} /\ events' = events /\ InDone = {} /\ InDone' = {} /\ ~stopped
      /\ Pending = open \cup ready /\ Pending' = open' \cup ready'
      /\ JoinExact(c) \/ EndOlder(c) \/ CountLate(c) \/ OpenNew(c)
  BY DEF Add, InDone, Pending
<1>4. c.good /\ c.arrived - c.when <= Lateness /\ FromSent(c) /\ c.arrived = clock
  <2>1. c \in Delivered'
    BY <1>1, AddDelivers
  <2>2. QED
    BY <2>1 DEF Clean, Intact, OnTime, Arriving
<1>5. /\ \A b \in ready \cup InDone, o \in open : Precedes(b.copies, o.copies)
      /\ \A e \in events, b \in Pending : Precedes(e.copies, b.copies)
      /\ \A e, f \in events : e.n < f.n => Precedes(e.copies, f.copies)
  BY <1>2 DEF SendingsInOrder
<1>6. /\ \A b \in Pending : b.good /\ b \in Bucket /\ \A x \in b.copies : x \in Copy /\ FromSent(x)
      /\ \A e \in events : \A x \in e.copies : x \in Copy /\ FromSent(x)
  <2>1. \A b \in Pending : b.good
    BY <1>1, <1>2, IntactFacts DEF Clean
  <2>2. \A e \in events : e.copies \subseteq Copy
    BY <1>1 DEF Shape, Tables, Event
  <2>3. QED
    BY <1>1, <2>1, <2>2, PendingFacts, BucketFacts, WhereDelivered DEF OfSent
<1>7. /\ \A b \in ready : \A x \in b.copies : Past(x)
      /\ \A e \in events : \A x \in e.copies : Past(x)
      /\ \A b \in open : b.slot = c.key /\ ~Accepts(b, c.when) => \A x \in b.copies : Past(x)
      /\ ~Straggler(c)
  BY <1>2, <1>4, InTimeMeets DEF OnTimeOnce
<1>8. ASSUME NEW copy, \A x \in copy : x \in Copy /\ FromSent(x) /\ Past(x), NEW a,
             \A x \in a.copies : x = c
      PROVE  Precedes(copy, a.copies)
  BY <1>1, <1>3, <1>4, <1>8, InTimeIsLater DEF Precedes
<1>9. ASSUME NEW copy, \A x \in copy : x \in Copy /\ FromSent(x) /\ Past(x), NEW b, Precedes(copy, b.copies), NEW a,
             \A x \in a.copies : x \in b.copies \/ x = c
      PROVE  Precedes(copy, a.copies)
  BY <1>1, <1>3, <1>4, <1>9, InTimeIsLater DEF Precedes
<1>10. /\ \A b \in ready : \A x \in b.copies : x \in Copy /\ FromSent(x) /\ Past(x)
       /\ \A e \in events : \A x \in e.copies : x \in Copy /\ FromSent(x) /\ Past(x)
  BY <1>3, <1>6, <1>7
<1>11. CASE JoinExact(c)
  <2>1. PICK b \in open : /\ b.slot = c.key /\ Accepts(b, c.when) /\ ready' = ready /\ late' = late
                          /\ \E ref \in {b.ref, RefOf(c)} : open' = (open \ {b}) \cup {AddTo(b, c, ref)}
    BY <1>11 DEF JoinExact
  <2>2. PICK ref \in {b.ref, RefOf(c)} : open' = (open \ {b}) \cup {AddTo(b, c, ref)}
    BY <2>1
  <2>3. b \in Pending /\ ref \in Ref
    BY <1>3, <1>6, BucketFacts, CopyFacts
  <2> DEFINE a == AddTo(b, c, ref)
  <2>4. \A x : x \in a.copies <=> x \in b.copies \/ x = c
    BY <1>1, <2>3, CopiesOf
  <2> HIDE DEF a
  <2>5. open' = (open \ {b}) \cup {a}
    BY <2>2 DEF a
  <2>6. \A r \in ready : Precedes(r.copies, a.copies)
    BY <1>5, <1>9, <1>10, <2>4
  <2>7. \A e \in events : Precedes(e.copies, a.copies)
    BY <1>5, <1>9, <1>10, <2>3, <2>4
  <2>8. \A r \in ready' \cup InDone', o \in open' : Precedes(r.copies, o.copies)
    BY <1>3, <1>5, <2>1, <2>5, <2>6
  <2>9. \A e \in events', o \in Pending' : Precedes(e.copies, o.copies)
    BY <1>3, <1>5, <2>1, <2>5, <2>7
  <2>10. QED
    BY <1>3, <1>5, <2>8, <2>9 DEF SendingsInOrder
<1>12. ASSUME NEW over \in SUBSET open, NEW a, \A x : x \in a.copies <=> x = c,
              open' = (open \ over) \cup {a}, ready' = ready \cup over,
              \A b \in over : \A x \in b.copies : Past(x)
       PROVE  SendingsInOrder'
  <2>1. \A b \in over : \A x \in b.copies : x \in Copy /\ FromSent(x) /\ Past(x)
    BY <1>3, <1>6, <1>12
  <2>2. /\ \A b \in over : Precedes(b.copies, a.copies)
        /\ \A r \in ready : Precedes(r.copies, a.copies)
        /\ \A e \in events : Precedes(e.copies, a.copies)
    BY <1>8, <1>10, <1>12, <2>1
  <2>3. \A b \in over, o \in open \ over : Precedes(b.copies, o.copies)
    BY <1>2, OpenApart DEF Clean
  <2>4. \A r \in ready' \cup InDone', o \in open' : Precedes(r.copies, o.copies)
    BY <1>3, <1>5, <1>12, <2>2, <2>3
  <2>5. \A e \in events', o \in Pending' : Precedes(e.copies, o.copies)
    BY <1>3, <1>5, <1>12, <2>2
  <2>6. QED
    BY <1>3, <1>5, <2>4, <2>5 DEF SendingsInOrder
<1>13. CASE EndOlder(c)
  <2>1. PICK b \in open : /\ b.slot = c.key /\ ~Accepts(b, c.when) /\ ready' = ready \cup {b}
                          /\ Place(c, open \ {b})
    BY <1>13 DEF EndOlder
  <2>2. open' = (open \ {b}) \cup {NewBucket(c)}
    BY <1>3, <1>4, <1>6, <2>1, NoneNearby
  <2>3. \A x : x \in NewBucket(c).copies <=> x = c
    BY <1>1, CopiesOf
  <2>4. \A x \in b.copies : Past(x)
    BY <1>7, <2>1
  <2>5. {b} \in SUBSET open
    OBVIOUS
  <2>6. QED
    BY <1>12, <2>1, <2>2, <2>3, <2>4, <2>5
<1>14. CASE CountLate(c)
  BY <1>7, <1>14 DEF CountLate
<1>15. CASE OpenNew(c)
  <2>1. ready' = ready /\ Place(c, open)
    BY <1>15 DEF OpenNew
  <2>2. open' = open \cup {NewBucket(c)}
    BY <1>3, <1>4, <1>6, <2>1, NoneNearby
  <2>3. \A x : x \in NewBucket(c).copies <=> x = c
    BY <1>1, CopiesOf
  <2>4. open' = (open \ {}) \cup {NewBucket(c)} /\ ready' = ready \cup {} /\ {} \in SUBSET open
    BY <2>1, <2>2
  <2>5. QED
    BY <1>12, <2>3, <2>4
<1>16. QED
  BY <1>3, <1>11, <1>13, <1>14, <1>15

\* _emit finishes the bucket of e, the one opened first, as event ev.
FinishesFirst(e, ev) ==
  /\ \A f \in done : e.pos <= f.pos
  /\ done' = done \ {e} /\ UNCHANGED <<open, ready, late>> /\ HandOver
  /\ events' = events \cup {ev} /\ ev.copies = e.bucket.copies
  /\ ev.n = Cardinality(events) + 1 /\ ev.first = e.bucket.opened
  /\ e.bucket \in Pending /\ Pending' = Pending \ {e.bucket}

\* While every copy is intact, that is all it does.
LEMMA EmitFirst ==
  ASSUME Kept, OfEvents, Intact(Delivered), Emit
  PROVE  \E e \in done : \E ev : FinishesFirst(e, ev)
<1>1. Shape /\ Told /\ OfSent /\ Filed
  BY DEF Kept
<1>2. \A b \in Pending : b.good
  BY <1>1, IntactFacts
<1>3. Unverified = {}
  BY <1>1, <1>2, PendingFacts DEF Unverified
<1>4. PICK e \in done : EmitVerified(e)
  BY <1>3 DEF Emit, EmitDamaged, EmitRepaired, FirstOf
<1>5. /\ done' = done \ {e} /\ UNCHANGED <<open, ready, late>> /\ HandOver
      /\ Finish(e.bucket, e.bucket.key, TRUE) /\ \A f \in done : e.pos <= f.pos
  BY <1>4 DEF Emit, EmitVerified, FirstOf
<1> DEFINE ev == EventOf(e.bucket, e.bucket.key, TRUE)
<1>6. /\ events' = events \cup {ev} /\ ev.copies = e.bucket.copies
      /\ ev.n = Cardinality(events) + 1 /\ ev.first = e.bucket.opened
  BY <1>5 DEF Finish, EventOf
<1>7. stopped' = stopped
  BY DEF Emit
<1>8. e.bucket \in Pending /\ Pending' = Pending \ {e.bucket}
  BY <1>1, <1>5, <1>7, EntryLeaves
<1> HIDE DEF ev
<1>9. QED
  BY <1>5, <1>6, <1>8 DEF FinishesFirst

\* _emit: of the buckets of one call the earlier sending is finished first.
LEMMA EmitInOrder ==
  ASSUME Kept, EventNumbers, SendingsApart, OfEvents, Fits, OnTimeOnce, SendingsInOrder, ReturnedInOrder,
         Clean, Emit
  PROVE  SendingsInOrder'
<1>1. Shape /\ Filed
  BY DEF Kept
<1>2. PICK e \in done : \E ev : FinishesFirst(e, ev)
  BY EmitFirst DEF Clean
<1>3. PICK ev : FinishesFirst(e, ev)
  BY <1>2
<1>4. /\ \A f \in done : e.pos <= f.pos
       /\ done' = done \ {e} /\ UNCHANGED <<open, ready, late>> /\ HandOver
       /\ events' = events \cup {ev} /\ ev.copies = e.bucket.copies
       /\ ev.n = Cardinality(events) + 1 /\ ev.first = e.bucket.opened
       /\ e.bucket \in Pending /\ Pending' = Pending \ {e.bucket}
  BY <1>3 DEF FinishesFirst
<1> DEFINE u == e.bucket
<1>5. /\ \A b \in ready \cup InDone, o \in open : Precedes(b.copies, o.copies)
      /\ \A g \in events, b \in Pending : Precedes(g.copies, b.copies)
      /\ \A g, f \in events : g.n < f.n => Precedes(g.copies, f.copies)
  BY DEF SendingsInOrder
<1>6. ready = {} /\ Pending = open \cup InDone /\ InDone' \subseteq InDone /\ InDone \subseteq Pending /\ u \in InDone
  BY <1>1, <1>4, PendingFacts DEF Filed, InDone
<1>7. \A d \in done : d.pos = d.bucket.opened
  BY DEF ReturnedInOrder, Clean
<1>8. \A b \in InDone : u.opened <= b.opened
  BY <1>4, <1>7 DEF InDone
<1>9. \A b \in Pending : b # u => ~Holds(u.copies, b.copies)
  BY <1>4 DEF OnTimeOnce
<1>10. \A b \in InDone : b # u => Precedes(u.copies, b.copies)
  BY <1>4, <1>6, <1>8, <1>9, OpenedFirst
<1>11. \A b \in Pending' : Precedes(u.copies, b.copies)
  BY <1>4, <1>5, <1>6, <1>10
<1> HIDE DEF u
<1>12. \A g \in events', b \in Pending' : Precedes(g.copies, b.copies)
  BY <1>4, <1>5, <1>11 DEF u
<1>13. \A g, f \in events' : g.n < f.n => Precedes(g.copies, f.copies)
  <2>1. Cardinality(events) \in Nat /\ \A g \in events : g.n \in 1..Cardinality(events)
    BY <1>1, FS_CardinalityType DEF Shape, Tables, EventNumbers
  <2>2. (\A g \in events : ~(ev.n < g.n)) /\ ~(ev.n < ev.n)
    BY <1>4, <2>1
  <2>3. \A g \in events : Precedes(g.copies, ev.copies)
    BY <1>4, <1>5
  <2>4. QED
    BY <1>4, <1>5, <2>2, <2>3
<1>14. \A b \in ready' \cup InDone', o \in open' : Precedes(b.copies, o.copies)
  BY <1>4, <1>5, <1>6
<1>15. QED
  BY <1>12, <1>13, <1>14 DEF SendingsInOrder

\* Every step keeps the sendings in order, while all copies are intact and in time.
LEMMA SendingsInOrderKept ==
  ASSUME Kept, EventNumbers, Spaced, SendingsApart, OfEvents, Fits, OnTimeOnce, SendingsInOrder, ReturnedInOrder,
         [Next]_vars
  PROVE  SendingsInOrder'
<1> SUFFICES ASSUME Clean' PROVE SendingsInOrder'
  BY DEF SendingsInOrder
<1>1. Shape /\ Shape' /\ Filed /\ Apart /\ Numbered /\ Told /\ OfSent
  BY ShapeKept DEF Kept
<1>2. Moves
  BY <1>1, NextMoves
<1>3. Clean
  BY <1>1, <1>2, CleanBefore DEF Clean
<1>4. /\ \A b \in ready \cup InDone, o \in open : Precedes(b.copies, o.copies)
      /\ \A e \in events, b \in Pending : Precedes(e.copies, b.copies)
      /\ \A e, f \in events : e.n < f.n => Precedes(e.copies, f.copies)
  BY <1>3 DEF SendingsInOrder
<1>5. CASE UNCHANGED vars \/ Tick \/ \E m \in Message : Transmit(m)
  <2>1. UNCHANGED <<open, ready, done, events, late>>
    BY <1>5 DEF vars, Tick, Transmit
  <2>2. Pending' = Pending /\ InDone' = InDone
    BY <2>1 DEF Pending, InDone
  <2>3. QED
    BY <1>4, <2>1, <2>2 DEF SendingsInOrder
<1>6. CASE Arrive
  <2>1. PICK t \in sent, off \in 0..Spread, hop \in Hop, kind \in Kind : Add(CopyOf(t, off, hop, kind))
    BY <1>6 DEF Arrive
  <2> DEFINE c == CopyOf(t, off, hop, kind)
  <2>2. /\ copies < MaxCopies /\ copies' = copies + 1 /\ ~stopped /\ done = {} /\ Deliverable(c)
        /\ UNCHANGED <<events, clock, sent, stopped, closed, done>>
    BY <2>1 DEF Add
  <2>3. c \in Copy /\ c.id = copies + 1 /\ FromSent(c) /\ c.arrived = clock
    BY <1>1, <2>2, CopyOfFacts
  <2> HIDE DEF c
  <2>4. Arriving(c) /\ Add(c)
    BY <2>1, <2>2, <2>3 DEF Arriving, c
  <2>5. QED
    BY <1>2, <2>3, <2>4, AddInOrder
<1>7. CASE PopReady
  <2> DEFINE over == {b \in open : IsClosed(b, clock)}
  <2>1. /\ Pending' = Pending /\ ready' = {} /\ open' = open \ over /\ events' = events
        /\ \A b \in InDone' : b \in ready \/ b \in over
    BY <1>1, <1>7, PopReadyMoves DEF PopReady
  <2>2. over \subseteq open
    OBVIOUS
  <2> HIDE DEF over
  <2>3. \A b \in over, o \in open \ over : Precedes(b.copies, o.copies)
    BY <1>3, <2>2, OpenApart DEF Clean
  <2>4. \A b \in ready' \cup InDone', o \in open' : Precedes(b.copies, o.copies)
    BY <1>4, <2>1, <2>3
  <2>5. QED
    BY <1>4, <2>1, <2>4 DEF SendingsInOrder
<1>8. CASE Flush
  <2>1. Pending' = Pending /\ open' = {} /\ events' = events
    BY <1>1, <1>8, FlushMoves DEF Flush
  <2>2. QED
    BY <1>4, <2>1 DEF SendingsInOrder
<1>9. CASE Emit
  BY <1>3, <1>9, EmitInOrder
<1>10. QED
  BY <1>5, <1>6, <1>7, <1>8, <1>9 DEF Next

\* Of a call's events, the one finished first is returned first.
LEMMA SortedAsFinished ==
  ASSUME NEW out, IsFiniteSet(out), \A f \in out : f.first \in Nat /\ f.n \in Nat,
         NEW e \in out, NEW f \in out, e.n < f.n, e.first <= f.first
  PROVE  Cardinality({g \in out : Before(g, e)}) < Cardinality({g \in out : Before(g, f)})
<1> DEFINE beforeE == {g \in out : Before(g, e)}
           beforeF == {g \in out : Before(g, f)}
<1>1. Before(e, f) /\ ~Before(e, e)
  BY DEF Before
<1>2. \A g \in out : Before(g, e) => Before(g, f)
  BY DEF Before
<1>3. beforeE \subseteq beforeF \ {e} /\ e \in beforeF /\ beforeF \subseteq out
  BY <1>1, <1>2
<1> HIDE DEF beforeE, beforeF
<1>4. IsFiniteSet(beforeF)
  BY <1>3, FS_Subset
<1>5. IsFiniteSet(beforeF \ {e}) /\ Cardinality(beforeF \ {e}) = Cardinality(beforeF) - 1
  BY <1>3, <1>4, FS_RemoveElement
<1>6. IsFiniteSet(beforeE) /\ Cardinality(beforeE) <= Cardinality(beforeF) - 1
  BY <1>3, <1>5, FS_Subset
<1>7. Cardinality(beforeE) \in Nat /\ Cardinality(beforeF) \in Nat
  BY <1>4, <1>6, FS_CardinalityType
<1>8. QED
  BY <1>6, <1>7 DEF beforeE, beforeF

\* _emit returns the events of intact copies in the order of their numbers.
LEMMA EmitReturns ==
  ASSUME Kept, EventNumbers, OfEvents, ReturnedInOrder, Intact(Delivered), Emit, Shape'
  PROVE  ReturnedInOrder'
<1>1. Shape /\ Returned
  BY DEF Kept
<1>2. PICK e \in done : \E ev : FinishesFirst(e, ev)
  BY EmitFirst DEF Clean
<1>3. PICK ev : FinishesFirst(e, ev)
  BY <1>2
<1>4. /\ \A f \in done : e.pos <= f.pos
       /\ done' = done \ {e} /\ UNCHANGED <<open, ready, late>> /\ HandOver
       /\ events' = events \cup {ev} /\ ev.copies = e.bucket.copies
       /\ ev.n = Cardinality(events) + 1 /\ ev.first = e.bucket.opened
       /\ e.bucket \in Pending /\ Pending' = Pending \ {e.bucket}
  BY <1>3 DEF FinishesFirst
<1> DEFINE old == DOMAIN handed
<1>5. /\ \A d \in done : d.pos = d.bucket.opened
      /\ \A g \in old, f \in events \ old : g.n < f.n
      /\ \A g, f \in old : g.n < f.n => handed[g] < handed[f]
      /\ \A g, f \in events \ old : g.n < f.n => g.first <= f.first
      /\ \A g \in events \ old, d \in done : g.first <= d.pos
  BY DEF ReturnedInOrder
<1>6. (\A g \in events : g.n < ev.n /\ ~(ev.n < g.n)) /\ ~(ev.n < ev.n)
  <2>1. Cardinality(events) \in Nat /\ \A g \in events : g.n \in 1..Cardinality(events)
    BY <1>1, FS_CardinalityType DEF Shape, Tables, EventNumbers
  <2>2. QED
    BY <1>4, <2>1
<1>7. old \subseteq events /\ ev \notin old
  BY <1>1, <1>6 DEF Returned
<1>8. ev.first = e.pos /\ \A d \in done' : d \in done
  BY <1>4, <1>5
<1>9. \A g, f \in events' \ old : g.n < f.n => g.first <= f.first
  <2>1. \A g \in events \ old : g.first <= ev.first
    BY <1>5, <1>8
  <2>2. QED
    BY <1>4, <1>5, <1>6, <2>1
<1>10. \A g \in old, f \in events' \ old : g.n < f.n
  BY <1>4, <1>5, <1>6, <1>7
<1>11. CASE done' # {}
  <2>1. handed' = handed
    BY <1>4, <1>11 DEF HandOver
  <2>2. \A g \in events' \ old, d \in done' : g.first <= d.pos
    BY <1>4, <1>5, <1>8
  <2>3. QED
    BY <1>5, <1>8, <1>9, <1>10, <2>1, <2>2 DEF ReturnedInOrder
<1>12. CASE done' = {}
  <2> DEFINE out == events' \ old
             place(g) == Cardinality({f \in out : Before(f, g)})
             k == Cardinality(old)
  <2>1. /\ DOMAIN handed' = events' /\ \A g \in old : handed'[g] = handed[g]
        /\ \A g \in out : handed'[g] = k + 1 + place(g) /\ handed'[g] \in (k + 1)..Cardinality(events')
        /\ k \in 0..Cardinality(events')
    BY <1>1, <1>4, <1>12, HandOverPlaces
  <2>2. IsFiniteSet(events') /\ IsFiniteSet(out) /\ \A f \in events' : f.first \in Nat /\ f.n \in Nat
    <3>1. IsFiniteSet(events') /\ \A f \in events' : f.first \in Nat /\ f.n \in Nat
      BY DEF Shape, Tables, Event
    <3>2. IsFiniteSet(out)
      BY <3>1, FS_Subset
    <3>3. QED
      BY <3>1, <3>2
  <2>3. \A g, f \in out : g.n < f.n => place(g) < place(f)
    BY <1>9, <2>2, SortedAsFinished
  <2>4. \A g \in out : place(g) \in Nat
    <3> TAKE g \in out
    <3>1. IsFiniteSet({f \in out : Before(f, g)})
      BY <2>2, FS_Subset
    <3>2. QED
      BY <3>1, FS_CardinalityType
  <2>5. \A g \in old : handed[g] \in 1..k
    BY <1>1 DEF Returned
  <2>6. k \in Nat /\ Cardinality(events') \in Nat
    BY <2>1, <2>2, FS_CardinalityType
  <2> HIDE DEF out, place, k, old
  <2>7. ASSUME NEW g \in events', NEW f \in events', g.n < f.n PROVE handed'[g] < handed'[f]
    <3>1. CASE g \in old /\ f \in old
      BY <1>5, <2>1, <2>7, <3>1
    <3>2. CASE g \in old /\ f \notin old
      <4>1. f \in out
        BY <3>2 DEF out
      <4>2. QED
        BY <2>1, <2>5, <2>6, <3>2, <4>1
    <3>3. CASE g \notin old /\ f \in old
      BY <1>10, <2>2, <2>7, <3>3
    <3>4. CASE g \notin old /\ f \notin old
      <4>1. g \in out /\ f \in out
        BY <3>4 DEF out
      <4>2. QED
        BY <2>1, <2>3, <2>4, <2>6, <2>7, <4>1
    <3>5. QED
      BY <3>1, <3>2, <3>3, <3>4
  <2>8. QED
    BY <1>12, <2>1, <2>7 DEF ReturnedInOrder
<1>13. QED
  BY <1>11, <1>12

\* Every step keeps that order, while all copies are intact.
LEMMA ReturnedInOrderKept ==
  ASSUME Kept, EventNumbers, OfEvents, ReturnedInOrder, [Next]_vars
  PROVE  ReturnedInOrder'
<1> SUFFICES ASSUME Intact(Delivered)' PROVE ReturnedInOrder'
  BY DEF ReturnedInOrder
<1>1. Shape /\ Shape' /\ Filed /\ Apart /\ Numbered /\ Told /\ OfSent /\ Returned
  BY ShapeKept DEF Kept
<1>2. Intact(Delivered)
  BY <1>1, NextMoves, CleanBefore
<1>3. CASE UNCHANGED <<done, events, handed>>
  BY <1>2, <1>3 DEF ReturnedInOrder
<1>4. CASE PopReady \/ Flush
  <2>1. done = {} /\ UNCHANGED <<events, handed>> /\ \A d \in done' : d.pos = d.bucket.opened
    BY <1>4 DEF PopReady, Flush, ToEmit
  <2>2. DOMAIN handed = events
    BY <1>1, <2>1 DEF Returned
  <2>3. QED
    BY <1>2, <2>1, <2>2 DEF ReturnedInOrder
<1>5. CASE Emit
  BY <1>1, <1>2, <1>5, EmitReturns
<1>6. QED
  BY <1>3, <1>4, <1>5 DEF Next, vars, Tick, Transmit, Arrive, Add

\* _emit: if a transmission fits into a window and its message is sent again only
\* when no copy of it can come in time, then as long as all copies are intact and
\* in time the events of a key are numbered and returned in the order of their
\* transmissions, until one is older than repeat_memory_s.
THEOREM RepeatsInOrder == Spec /\ Spaced /\ Fits => [](Recent => RepeatsTellSendings)
<1> DEFINE Ordered == Recent => SendingsInOrder /\ ReturnedInOrder
           Inv == Kept /\ Spaced /\ Fits /\ SendingsApart /\ OfEvents /\ Numbering /\ OnTimeOnce /\ Ordered
<1>1. Init /\ Spaced /\ Fits => Inv
  <2> SUFFICES ASSUME Init, Spaced, Fits PROVE Inv
    OBVIOUS
  <2>1. Kept
    BY InitKept
  <2>2. /\ events = {} /\ closed = {} /\ Pending = {} /\ late = {} /\ ready = {} /\ InDone = {} /\ done = {}
        /\ handed = <<>> /\ open = {}
    BY DEF Init, Pending, InDone
  <2>3. SendingsApart /\ OfEvents /\ Numbering
    BY <2>2 DEF SendingsApart, OfEvents, Numbering, Counts, EventNumbers, NumberedAsFinished, RepeatsNumbered
  <2>4. OnTimeOnce
    BY <2>2 DEF OnTimeOnce
  <2>5. DOMAIN handed = {}
    BY <2>2
  <2>6. Ordered
    BY <2>2, <2>5 DEF SendingsInOrder, ReturnedInOrder
  <2>7. QED
    BY <2>1, <2>3, <2>4, <2>6
<1>2. Inv /\ [Next]_vars => Inv'
  <2> SUFFICES ASSUME Inv, [Next]_vars PROVE Inv'
    OBVIOUS
  <2>1. Shape /\ Told /\ OfSent /\ Kept'
    BY NextKept DEF Kept
  <2>2. Moves
    BY <2>1, NextMoves DEF Kept
  <2>3. SendingsApart'
    BY <2>1, <2>2, SendingsKept
  <2>4. OfEvents' /\ Numbering'
    BY <2>1, OfEventsKept, NumberingKept
  <2>5. OnTimeOnce'
    BY OnTimeKept
  <2>6. Ordered'
    <3> SUFFICES ASSUME Recent' PROVE SendingsInOrder' /\ ReturnedInOrder'
      OBVIOUS
    <3>1. Recent /\ EventNumbers
      BY <2>1, RecentBefore DEF Numbering
    <3>2. QED
      BY <3>1, SendingsInOrderKept, ReturnedInOrderKept
  <2>7. QED
    BY <2>1, <2>3, <2>4, <2>5, <2>6 DEF Spaced, Fits
<1>3. Inv => (Recent => RepeatsTellSendings)
  <2> SUFFICES ASSUME Inv, Recent, Clean, NEW e \in events, NEW f \in events, e.key = f.key, e.index < f.index
               PROVE  /\ OnAirBefore(e, f)
                      /\ f \in DOMAIN handed => e \in DOMAIN handed /\ handed[e] < handed[f]
    BY DEF RepeatsTellSendings, Clean
  <2>1. Shape /\ Told /\ OfSent /\ SendingsInOrder /\ ReturnedInOrder /\ Counts /\ EventNumbers /\ Returned
    BY DEF Kept, Numbering
  <2>2. IsFiniteSet(events) /\ e.n \in Nat /\ f.n \in Nat /\ e.index \in Nat /\ f.index \in Nat
    BY <2>1 DEF Shape, Tables, Event
  <2>3. e.n < f.n
    <3> SUFFICES ASSUME f.n <= e.n PROVE FALSE
      BY <2>2
    <3> DEFINE ahead(g) == {h \in events : h.key = g.key /\ h.n < g.n}
    <3>1. \A h \in events : h.n \in Nat
      BY <2>1 DEF Shape, Tables, Event
    <3>2. ahead(f) \subseteq ahead(e)
      BY <2>2, <3>1
    <3>3. IsFiniteSet(ahead(e))
      BY <2>2, FS_Subset
    <3>4. Cardinality(ahead(f)) <= Cardinality(ahead(e))
      BY <3>2, <3>3, FS_Subset
    <3>5. e.index = Cardinality(ahead(e)) /\ f.index = Cardinality(ahead(f))
      BY <2>1 DEF Counts, NumberedAsFinished
    <3> HIDE DEF ahead
    <3>6. QED
      BY <2>2, <3>4, <3>5
  <2>4. Precedes(e.copies, f.copies)
    BY <2>1, <2>3 DEF SendingsInOrder
  <2>5. \A c \in e.copies, d \in f.copies : c.key.msg = d.key.msg
    <3>1. OneSending(e.copies) /\ OneSending(f.copies)
      BY DEF SendingsApart
    <3>2. /\ \A c \in e.copies : c \in Copy /\ FromSent(c)
          /\ \A c \in f.copies : c \in Copy /\ FromSent(c)
      BY <2>1, WhereDelivered DEF OfSent, Shape, Tables, Event
    <3>3. (\E c \in e.copies : e.key = c.key) /\ (\E d \in f.copies : f.key = d.key)
      BY <2>1, IntactFacts DEF Clean
    <3>4. /\ \A c, d \in e.copies : c.key.msg = d.key.msg
          /\ \A c, d \in f.copies : c.key.msg = d.key.msg
      BY <2>1, <3>1, <3>2, OneTransmission DEF OneSending
    <3>5. PICK x \in e.copies, y \in f.copies : x.key.msg = y.key.msg
      BY <3>3
    <3>6. QED
      BY <3>4, <3>5
  <2>6. f \in DOMAIN handed => e \in DOMAIN handed /\ handed[e] < handed[f]
    BY <2>1, <2>2, <2>3 DEF ReturnedInOrder, Clean
  <2>7. QED
    BY <2>4, <2>5, <2>6 DEF Precedes, OnAirBefore
<1>4. QED
  BY <1>1, <1>2, <1>3, PTL DEF Spec

(***************************************************************************)
(* The gathering that fusion is.                                           *)
(***************************************************************************)
Waiting == UNION {b.copies : b \in Pending}
Records == {e.copies : e \in events}

\* The copies that wait are those of the buckets, before and after a step.
LEMMA WhereWaiting ==
  /\ \A x : x \in Waiting <=> \E b \in Pending : x \in b.copies
  /\ \A x : x \in Waiting' <=> \E b \in Pending' : x \in b.copies
BY DEF Waiting

\* The steps of the gathering, said of the buckets, events and late copies.
LEMMA GatheredNext ==
  ASSUME \/ /\ UNCHANGED <<Delivered, Waiting, Records, late>>
         \/ /\ UNCHANGED Records
            /\ \E c : /\ c \notin Delivered /\ Delivered' = Delivered \cup {c}
                      /\ \/ Waiting' = Waiting \cup {c} /\ late' = late
                         \/ Waiting' = Waiting /\ late' = late \cup {c}
         \/ /\ UNCHANGED Delivered
            /\ \E S \in SUBSET Waiting :
                  /\ Waiting' = Waiting \ S
                  /\ \/ S # {} /\ Records' = Records \cup {S} /\ late' = late
                     \/ Records' = Records /\ late' = late \cup S
  PROVE  [Gathered!Next]_(Gathered!vars)
<1>1. CASE UNCHANGED <<Delivered, Waiting, Records, late>>
  BY <1>1 DEF Waiting, Records, Gathered!vars
<1>2. ASSUME UNCHANGED Records, NEW c, c \notin Delivered, Delivered' = Delivered \cup {c},
             \/ Waiting' = Waiting \cup {c} /\ late' = late
             \/ Waiting' = Waiting /\ late' = late \cup {c}
      PROVE  Gathered!Hear
  <2>1. c \in Delivered' \ Delivered
    BY <1>2
  <2>2. QED
    BY <1>2, <2>1 DEF Waiting, Records, Gathered!Hear
<1>3. ASSUME UNCHANGED Delivered, NEW S \in SUBSET Waiting, Waiting' = Waiting \ S,
             \/ S # {} /\ Records' = Records \cup {S} /\ late' = late
             \/ Records' = Records /\ late' = late \cup S
      PROVE  Gathered!Tell \/ Gathered!Lose
  BY <1>3 DEF Waiting, Records, Gathered!Tell, Gathered!Lose
<1>4. QED
  BY <1>1, <1>2, <1>3 DEF Gathered!Next

\* Every move of a copy is one: it waits from when it comes until its bucket is
\* an event or late, whatever bucket it is folded into.
LEMMA MovesGather ==
  ASSUME Kept, Moves
  PROVE  [Gathered!Next]_(Gathered!vars)
<1> DEFINE D == Delivered
           W == Waiting
           R == Records
           DN == Delivered'
           WN == Waiting'
           RN == Records'
<1>1. Shape /\ Apart /\ Numbered /\ Told
  BY DEF Kept
<1>2. /\ \A x : x \in W <=> \E b \in Pending : x \in b.copies
      /\ \A x : x \in WN <=> \E b \in Pending' : x \in b.copies
  BY WhereWaiting
<1>3. /\ \A x : x \in D <=> x \in W \/ (\E e \in events : x \in e.copies) \/ x \in late
      /\ \A x : x \in DN <=> x \in WN \/ (\E e \in events' : x \in e.copies) \/ x \in late'
  BY <1>2, WhereDelivered, WhereDeliveredNext
<1>4. events' = events => RN = R
  BY DEF Records
<1>5. \A c : Arriving(c) => c \notin D /\ (\A b \in Pending : c \notin b.copies) /\ events' = events
  BY <1>1, NewCopy DEF Arriving
<1>6. /\ \A b \in Pending : b.copies # {}
      /\ \A b1, b2 \in Pending : b1 # b2 => b1.copies \cap b2.copies = {}
      /\ \A b \in Pending, e \in events : b.copies \cap e.copies = {}
  BY <1>1 DEF Told, SaysSpan, Apart
<1> HIDE DEF D, W, R, DN, WN, RN
<1>7. CASE Stays
  <2>1. WN = W /\ DN = D /\ RN = R /\ late' = late
    BY <1>2, <1>3, <1>4, <1>7 DEF Stays
  <2>2. QED
    BY <2>1, GatheredNext DEF D, W, R, DN, WN, RN
<1>8. ASSUME NEW c \in Copy, Opens(c) \/ GoesLate(c) \/ \E b \in open, ref \in Ref : Joins(c, b, ref)
      PROVE  [Gathered!Next]_(Gathered!vars)
  <2>1. Arriving(c)
    BY <1>8 DEF Opens, GoesLate, Joins
  <2>2. c \notin D /\ RN = R /\ events' = events
    BY <1>4, <1>5, <2>1
  <2>3. \/ WN = W \cup {c} /\ late' = late
        \/ WN = W /\ late' = late \cup {c}
    <3>1. CASE Opens(c)
      <4>1. Pending' = Pending \cup {NewBucket(c)} /\ late' = late
        BY <3>1 DEF Opens
      <4>2. \A x : x \in NewBucket(c).copies <=> x = c
        BY <1>1, CopiesOf
      <4>3. QED
        BY <1>2, <4>1, <4>2
    <3>2. CASE GoesLate(c)
      BY <1>2, <3>2 DEF GoesLate
    <3>3. ASSUME NEW b \in open, NEW ref \in Ref, Joins(c, b, ref)
          PROVE  WN = W \cup {c} /\ late' = late
      <4> DEFINE a == AddTo(b, c, ref)
      <4>1. Pending' = (Pending \ {b}) \cup {a} /\ late' = late /\ b \in Pending
        BY <1>1, <3>3, PendingFacts DEF Joins
      <4>2. \A x : x \in a.copies <=> x \in b.copies \/ x = c
        BY <1>1, <4>1, CopiesOf
      <4> HIDE DEF a
      <4>3. \A x : x \in WN <=> x \in W \/ x = c
        BY <1>2, <4>1, <4>2
      <4>4. QED
        BY <4>1, <4>3
    <3>4. QED
      BY <1>8, <3>1, <3>2, <3>3
  <2>4. \A x : x \in DN <=> x \in D \/ x = c
    BY <1>3, <2>2, <2>3
  <2>5. DN = D \cup {c}
    BY <2>4
  <2>6. QED
    BY <2>2, <2>3, <2>5, GatheredNext DEF D, W, R, DN, WN, RN
<1>9. ASSUME NEW u \in Pending, NEW h \in Pending, NEW ref \in Ref, Folds(u, h, ref)
      PROVE  [Gathered!Next]_(Gathered!vars)
  <2> DEFINE f == Fold(h, u, ref)
  <2>1. Pending' = (Pending \ {u, h}) \cup {f} /\ UNCHANGED <<events, late, copies>>
    BY <1>9 DEF Folds
  <2>2. \A x : x \in f.copies <=> x \in h.copies \/ x \in u.copies
    BY <1>1, CopiesOf
  <2> HIDE DEF f
  <2>3. \A x : x \in WN <=> x \in W
    BY <1>2, <2>1, <2>2
  <2>4. WN = W /\ DN = D /\ RN = R /\ late' = late
    BY <1>3, <1>4, <2>1, <2>3
  <2>5. QED
    BY <2>4, GatheredNext DEF D, W, R, DN, WN, RN
<1>10. ASSUME NEW u \in Pending, Pending' = Pending \ {u}
       PROVE  u.copies \in SUBSET W /\ u.copies # {} /\ WN = W \ u.copies
  BY <1>2, <1>6, <1>10
<1>11. ASSUME NEW u \in Pending, Drops(u)
       PROVE  [Gathered!Next]_(Gathered!vars)
  <2>1. Pending' = Pending \ {u} /\ late' = late \cup u.copies /\ UNCHANGED <<events, copies>>
    BY <1>11 DEF Drops
  <2>2. u.copies \in SUBSET W /\ WN = W \ u.copies
    BY <1>10, <2>1
  <2>3. \A x : x \in DN <=> x \in D
    BY <1>3, <2>1, <2>2
  <2>4. DN = D /\ RN = R
    BY <1>4, <2>1, <2>3
  <2>5. QED
    BY <2>1, <2>2, <2>4, GatheredNext DEF D, W, R, DN, WN, RN
<1>12. ASSUME NEW u \in Pending, NEW key \in Key, NEW verified \in BOOLEAN, Finishes(u, key, verified)
       PROVE  [Gathered!Next]_(Gathered!vars)
  <2>1. Pending' = Pending \ {u} /\ late' = late
    BY <1>12 DEF Finishes
  <2> DEFINE ev == EventOf(u, key, verified)
  <2>2. events' = events \cup {ev} /\ ev.copies = u.copies
    BY <1>12, FinishFacts DEF Finishes
  <2> HIDE DEF ev
  <2>3. u.copies \in SUBSET W /\ u.copies # {} /\ WN = W \ u.copies
    BY <1>10, <2>1
  <2>4. \A x : x \in DN <=> x \in D
    BY <1>3, <2>1, <2>2, <2>3
  <2>5. RN = R \cup {u.copies}
    BY <2>2 DEF R, RN, Records
  <2>6. DN = D
    BY <2>4
  <2>7. QED
    BY <2>1, <2>3, <2>5, <2>6, GatheredNext DEF D, W, R, DN, WN, RN
<1>13. QED
  BY <1>7, <1>8, <1>9, <1>11, <1>12 DEF Moves

\* fusion.py's "fold" as a promise of its own: add, pop_ready, _emit and flush
\* gather copies - a copy waits in one bucket after another, and is told of in
\* one event, which stays as it is, or counted late.
THEOREM ImplementsGathering == Spec => GatheringSpec
<1>1. Init => Gathered!Init
  <2> SUFFICES ASSUME Init PROVE Gathered!Init
    OBVIOUS
  <2>1. Pending = {} /\ events = {} /\ late = {}
    BY DEF Init, Pending
  <2>2. QED
    BY <2>1 DEF Gathered!Init, Delivered
<1>2. Kept /\ [Next]_vars => [Gathered!Next]_(Gathered!vars)
  <2> SUFFICES ASSUME Kept, [Next]_vars PROVE [Gathered!Next]_(Gathered!vars)
    OBVIOUS
  <2>1. Moves
    BY NextKept, NextMoves DEF Kept
  <2>2. QED
    BY <2>1, MovesGather
<1>3. QED
  BY <1>1, <1>2, AlwaysKept, PTL DEF Spec, GatheringSpec, Gathered!Spec
=============================================================================
