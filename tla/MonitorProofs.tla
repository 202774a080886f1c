---------------------------- MODULE MonitorProofs ----------------------------
(***************************************************************************)
(* Proofs about Monitor, for every set of messages, queue size, window and *)
(* timeout, any number of blocks, transmissions and signals, and a clock   *)
(* that goes on.                                                           *)
(*                                                                         *)
(* The worker has stopped before the main thread flushes: that the two     *)
(* timeouts of the finally clause are longer than the worker's lag makes   *)
(* it so (Timely), and from it follows that every copy and every record is *)
(* in one place (CopyPlaces, RecordPlaces).  A record is one transmission  *)
(* because entries age out between sendings (Sightings, Folds).            *)
(***************************************************************************)
EXTENDS Monitor, FiniteSetTheorems, FunctionTheorems, SequenceTheorems, TLAPS

\* monitor_main's timeouts are longer than the worker takes for a block.
InTime == MaxLag < PutTimeout /\ MaxLag < JoinTimeout

\* The log can be written: no full disk, no closed pipe.
LogWorks == ~WritesFail

\* --window against what the air and the host do: a sending's last copy is
\* folded within the window of its start, and sendings of one message are
\* further apart than a record can stay pending.
WindowFits == Spread + MaxLag <= Window /\ Spread + Window + IdleTick + 2 * MaxLag < Gap

Stopped == {"returned", "dead"}
Behind  == {"flush", "clear", "write", "close", "exit"}  \* main is behind the join
Before  == {"receive", "put", "stop"}                \* main has not put the mark

Blocks  == [id : Nat \ {0}, msg : Msg \cup {NoMsg}, tx : Nat, ts : Nat]
Marks   == [id : {0}, ts : Nat]
Entries == [rec : Nat \ {0}, last : Nat]

(***************************************************************************)
(* The types behind TypeOK.                                                *)
(***************************************************************************)
Counters ==
    /\ opts \in [lossless : BOOLEAN, dedupe : BOOLEAN]
    /\ clock \in Nat /\ blocks \in Nat /\ signals \in Nat /\ giveUpAt \in Nat /\ since \in Nat
    /\ IsFiniteSet(sent) /\ sent \subseteq [n : Nat \ {0}, msg : Msg, at : Nat]

MainShape ==
    /\ main \in Main
    /\ held \in Blocks \cup {NoBlock} /\ held.id <= blocks /\ (main = "put" <=> held.id # 0)
    /\ listed \in Seq(Nat \ {0})

QueueShape == work \in Seq(Blocks \cup Marks) /\ Len(work) <= Capacity

WorkerShape ==
    /\ worker \in Worker
    /\ item \in Blocks \cup {NoBlock} /\ (worker = "process" <=> item.id # 0)
    /\ popping \subseteq [msg : Msg, rec : Nat \ {0}]
    /\ out \in Seq(Nat \ {0})

PendingShape ==
    /\ pending \in [Msg -> Entries \cup {NoEntry}]
    /\ recs \in Seq(SUBSET (Nat \ {0}))
    /\ \A m \in Msg : pending[m].rec <= Len(recs)
    /\ \A m, k \in Msg : pending[m].rec = pending[k].rec /\ pending[m].rec # 0 => m = k

LogShape ==
    /\ heard \subseteq Blocks
    /\ lost \subseteq 1..blocks

Shape == Counters /\ MainShape /\ QueueShape /\ WorkerShape /\ PendingShape /\ LogShape

(***************************************************************************)
(* Where the threads are: who has work in hand, and that the mark is the   *)
(* last thing in the queue.                                                *)
(***************************************************************************)
Phases ==
    /\ ~opts.dedupe => /\ Present = {} /\ worker \notin {"pop", "delete", "emit"}
                       /\ main \notin {"flush", "clear", "write"}
    /\ worker \notin {"delete", "dead"} => popping = {}
    /\ worker \notin {"delete", "emit", "dead"} => out = <<>>
    /\ main \notin {"clear", "write", "aborted"} => listed = <<>>
    /\ \A i \in DOMAIN work : work[i].id = 0 => i = Len(work) /\ main \notin Before
    /\ worker = "returned" => work = <<>> /\ main \notin Before

(***************************************************************************)
(* How old things are while the worker is alive, and that the main thread  *)
(* gets behind the join only when it is not.                               *)
(***************************************************************************)
Fresh(b) == b.id # 0 => b.ts <= clock /\ (worker \notin Stopped => clock <= b.ts + MaxLag)

Timely ==
    /\ InTime
    /\ Fresh(item) /\ Fresh(held) /\ since <= clock
    /\ \A i \in DOMAIN work :
          work[i].ts <= clock /\ (worker \notin Stopped => clock <= work[i].ts + MaxLag)
    /\ worker \in {"pop", "delete", "emit"} => clock <= since + MaxLag
    /\ worker = "get" /\ work = <<>> => clock <= since + IdleTick + MaxLag
    /\ main = "stop" => \A i \in DOMAIN work : work[i].ts + PutTimeout <= giveUpAt
    /\ main = "join" /\ worker \notin Stopped =>
          work # <<>> /\ work[Len(work)].id = 0 /\ work[Len(work)].ts + JoinTimeout = giveUpAt
    /\ main \in Behind => worker \in Stopped

(***************************************************************************)
(* A number names one block, and a block that holds a copy was heard.      *)
(***************************************************************************)
Known(b) == /\ b.id <= blocks
            /\ b.id # 0 => (b \in heard <=> b.msg # NoMsg)
            /\ \A c \in heard : c.id = b.id => c = b

Identified ==
    /\ \A c, d \in heard : c.id = d.id => c = d
    /\ \A c \in heard : c.id <= blocks /\ c.msg # NoMsg
    /\ Known(held) /\ Known(item) /\ \A i \in DOMAIN work : Known(work[i])

(***************************************************************************)
(* Every copy in one place, told by its number.                            *)
(***************************************************************************)
Queued == {work[i].id : i \in DOMAIN work} \ {0}
Folded == UNION {recs[r] : r \in DOMAIN recs}
InHand == {held.id, item.id} \ {0}

CopyPlaces ==
    /\ \A i, j \in DOMAIN work : work[i].id = work[j].id => i = j
    /\ held.id # 0 => held.id # item.id
    /\ Queued \cap InHand = {}
    /\ (Queued \cup InHand) \cap Folded = {}
    /\ (Queued \cup InHand) \cap lost = {}
    /\ Folded \cap lost = {}
    /\ \A r, q \in DOMAIN recs : r # q => recs[r] \cap recs[q] = {}
    /\ Folded \subseteq 1..blocks
    /\ \A c \in heard : c.id \in Queued \cup InHand \cup Folded \cup lost

(***************************************************************************)
(* Every record in one place.                                              *)
(***************************************************************************)
Outs   == Range(out)
Listed == Range(listed)
Logs   == {w.rec : w \in written}

RecordPlaces ==
    /\ IsInjective(out) /\ IsInjective(listed)
    /\ \A w, v \in written : w.rec = v.rec => w = v
    /\ \A w \in written : w.copies = recs[w.rec]
    /\ PendingRecs \cup Outs \cup Listed \cup Logs \subseteq DOMAIN recs
    /\ PendingRecs \cap (Outs \cup Logs) = {}
    /\ Outs \cap (Listed \cup Logs) = {}
    /\ Listed \cap Logs = {}
    /\ main \notin {"clear", "aborted"} => Listed \cap PendingRecs = {}
    /\ main = "clear" => Listed = PendingRecs
    /\ main \in {"write", "close", "exit"} => PendingRecs = {}
    /\ worker = "delete" => \A e \in popping : pending[e.msg].rec = e.rec

\* Only a full queue and a signal drop a block.
Replays == opts.lossless /\ signals = 0 => lost = {}

\* What a failing write takes away: the rest of the records in hand.
NothingLost ==
    /\ LogWorks
    /\ worker # "dead"
    /\ DOMAIN recs \subseteq PendingRecs \cup Outs \cup Listed \cup Logs

(***************************************************************************)
(* What is on the air, and what of it was received.                        *)
(***************************************************************************)
Sightings ==
    /\ \A t \in sent : t.n <= Cardinality(sent) /\ t.at <= clock
    /\ \A t, u \in sent : t.n = u.n => t = u
    /\ \A t, u \in sent : t # u /\ t.msg = u.msg /\ t.at <= u.at => t.at + Gap <= u.at
    /\ \A c \in heard : \E t \in sent :
          t.n = c.tx /\ t.msg = c.msg /\ t.at <= c.ts /\ c.ts <= t.at + Spread
    /\ \A c \in heard : c.ts <= clock

(***************************************************************************)
(* A record in the making is of one transmission, is handed over before    *)
(* the next of its message, and not before the last copy of its own.       *)
(***************************************************************************)
Single ==
    /\ \A r \in DOMAIN recs : \A c, d \in CopiesOf(r) : c.tx = d.tx
    /\ \A m \in Present :
          /\ \A c \in CopiesOf(pending[m].rec) : c.msg = m
          /\ \E c \in CopiesOf(pending[m].rec) : c.ts = pending[m].last

\* The worker hands over what is ready often enough.
Aged ==
    /\ worker \in {"get", "process"} =>
          \A m \in Present : since <= pending[m].last + Window + MaxLag
    /\ worker \in {"delete", "emit"} =>
          \A m \in Present : (\E e \in popping : e.msg = m) \/ since <= pending[m].last + Window
    /\ worker = "delete" => \A e \in popping : pending[e.msg].last + Window < clock
    /\ worker = "get" /\ work # <<>> => work[1].ts <= since + IdleTick + MaxLag
    /\ worker = "process" => item.ts <= since + IdleTick + MaxLag

\* A transmission whose record was handed over is too old for another copy.
Apart ==
    /\ \A r, q \in DOMAIN recs :
          r # q => \A c \in CopiesOf(r), d \in CopiesOf(q) : c.tx # d.tx
    /\ worker \notin Stopped =>
          \A r \in DOMAIN recs \ PendingRecs : \A c \in CopiesOf(r), t \in sent :
              t.n = c.tx => t.at + Window < clock

Folds == WindowFits /\ Single /\ Aged /\ (opts.dedupe => Apart)

\* The durations are natural numbers, and the queue has room for something.
LEMMA ConstantFacts ==
  /\ Window \in Nat /\ IdleTick \in Nat /\ PutTimeout \in Nat /\ JoinTimeout \in Nat
  /\ Gap \in Nat /\ Spread \in Nat /\ MaxLag \in Nat
  /\ Capacity \in Nat \ {0}
BY MonitorAssumption

(***************************************************************************)
(* Who changes what.                                                       *)
(***************************************************************************)

\* The main thread's variables, each with the steps that assign it.
LEMMA MainSteps ==
  ASSUME [Next]_vars
  PROVE  /\ opts' = opts
         /\ clock' = clock \/ Tick
         /\ UNCHANGED <<blocks, heard>> \/ Copy \/ Junk
         /\ signals' = signals \/ Signal \/ SignalAgain
         /\ sent' = sent \/ \E m \in Msg : Transmit(m)
         /\ main' = main \/ Copy \/ Junk \/ Put \/ Drop \/ Signal \/ SignalAgain \/ RadioFails \/ Shutdown
         /\ held' = held \/ Copy \/ Junk \/ Put \/ Drop \/ Signal
         /\ lost' = lost \/ Drop \/ Signal
         /\ giveUpAt' = giveUpAt \/ LeaveLoop \/ RadioFails \/ Signal \/ PutStop
         /\ listed' = listed \/ FlushList \/ FinalWrite
<1> USE DEF vars, envVars, mainVars, workerVars, dedupeVars, logVars, Next, Shutdown, Work, Copy, Junk
<1>1. CASE Tick \/ (\E m \in Msg : Transmit(m)) \/ UNCHANGED vars
  BY <1>1 DEF Tick, Transmit
<1>2. CASE Copy \/ Junk \/ Put \/ Drop
  BY <1>2 DEF Receive, Put, Drop
<1>3. CASE Signal \/ SignalAgain \/ RadioFails
  BY <1>3 DEF Signal, SignalAgain, RadioFails, EnterFinally
<1>4. CASE Shutdown
  BY <1>4 DEF LeaveLoop, EnterFinally, PutStop, Joined, FlushList, FlushBreaks, FlushClear, FinalWrite,
              Close
<1>5. CASE Work
  BY <1>5 DEF Get, Idle, Process, Snapshot, Delete, DeleteDone, Emit, EmitDone
<1>6. QED
  BY <1>1, <1>2, <1>3, <1>4, <1>5

\* The same for the queue, the worker, the deduper and the log.
LEMMA WorkerSteps ==
  ASSUME [Next]_vars
  PROVE  /\ work' = work \/ Put \/ PutStop \/ Get
         /\ worker' = worker \/ Work
         /\ since' = since \/ Idle \/ Process \/ EmitDone
         /\ item' = item \/ Get \/ Process
         /\ popping' = popping \/ Snapshot \/ Delete
         /\ out' = out \/ Snapshot \/ Delete \/ Emit
         /\ pending' = pending \/ FlushClear \/ Process \/ Delete
         /\ recs' = recs \/ Process
         /\ written' = written \/ FinalWrite \/ Process \/ Emit
         /\ Work \/ /\ UNCHANGED <<workerVars, recs>>
                    /\ pending' = pending \/ FlushClear
                    /\ written' = written \/ FinalWrite
<1> USE DEF vars, envVars, mainVars, workerVars, dedupeVars, logVars, Next, Shutdown, Work, Copy, Junk
<1>1. CASE Tick \/ (\E m \in Msg : Transmit(m)) \/ UNCHANGED vars
  BY <1>1 DEF Tick, Transmit
<1>2. CASE Copy \/ Junk \/ Put \/ Drop
  BY <1>2 DEF Receive, Put, Drop
<1>3. CASE Signal \/ SignalAgain \/ RadioFails
  BY <1>3 DEF Signal, SignalAgain, RadioFails, EnterFinally
<1>4. CASE Shutdown
  BY <1>4 DEF LeaveLoop, EnterFinally, PutStop, Joined, FlushList, FlushBreaks, FlushClear, FinalWrite,
              Close
<1>5. CASE Work
  BY <1>5 DEF Get, Idle, Process, Snapshot, Delete, DeleteDone, Emit, EmitDone
<1>6. QED
  BY <1>1, <1>2, <1>3, <1>4, <1>5

(***************************************************************************)
(* Types.                                                                  *)
(***************************************************************************)

\* A record's number tells whether an entry is there: NoEntry is number 0.
LEMMA EntryFacts ==
  ASSUME PendingShape
  PROVE  /\ \A m \in Msg : /\ pending[m].rec \in Nat
                           /\ pending[m] = NoEntry <=> pending[m].rec = 0
                           /\ m \in Present <=> pending[m].rec # 0
                           /\ m \in Present => pending[m] \in Entries /\ pending[m].last \in Nat
         /\ PendingRecs = {pending[m].rec : m \in Msg} \ {0}
         /\ PendingRecs \subseteq 1..Len(recs) /\ Len(recs) \in Nat
<1>1. \A e \in Entries : e.rec \in Nat \ {0} /\ e.last \in Nat
  BY DEF Entries
<1>2. NoEntry.rec = 0
  BY DEF NoEntry
<1>3. \A m \in Msg : pending[m] \in Entries \/ pending[m] = NoEntry
  BY DEF PendingShape
<1>4. \A m \in Msg : m \in Present <=> pending[m] # NoEntry
  BY DEF Present
<1>5. Len(recs) \in Nat /\ \A m \in Msg : pending[m].rec <= Len(recs)
  BY LenProperties DEF PendingShape
<1>6. Present \subseteq Msg
  BY DEF Present
<1>7. \A m \in Msg : pending[m].rec \in Nat /\ (m \in Present <=> pending[m].rec # 0)
  BY <1>1, <1>2, <1>3, <1>4
<1>8. PendingRecs = {pending[m].rec : m \in Msg} \ {0}
  BY <1>6, <1>7 DEF PendingRecs
<1>9. QED
  BY <1>1, <1>2, <1>3, <1>4, <1>5, <1>7, <1>8

\* The same for the block in hand: NoBlock is number 0.
LEMMA BlockFacts ==
  /\ NoBlock.id = 0
  /\ \A b \in Blocks : b.id \in Nat \ {0} /\ b.ts \in Nat /\ b.tx \in Nat /\ b # NoBlock
  /\ \A b \in Marks : b.id = 0 /\ b.ts \in Nat
  /\ \A m \in Msg \cup {NoMsg}, n \in Nat : blocks \in Nat /\ clock \in Nat =>
        Block(m, n) \in Blocks /\ Block(m, n).id = blocks + 1 /\ Block(m, n).ts = clock
BY DEF NoBlock, Blocks, Marks, Block

\* Deduper.flush lists each pending record once.
LEMMA FlushLists ==
  ASSUME PendingShape, FlushList
  PROVE  /\ listed' \in Seq(Nat \ {0})
         /\ Range(listed') = PendingRecs /\ IsInjective(listed')
<1> DEFINE n == Cardinality(Present)
<1>1. IsFiniteSet(Present)
  <2> DEFINE f == [m \in Present |-> pending[m].rec]
  <2>1. Len(recs) \in Nat
    BY EntryFacts
  <2>2. /\ \A m \in Present : pending[m].rec \in 1..Len(recs)
        /\ \A m, k \in Present : pending[m].rec = pending[k].rec => m = k
    BY <2>1, EntryFacts DEF PendingShape, Present
  <2>3. f \in [Present -> 1..Len(recs)] /\ \A m, k \in Present : f[m] = f[k] => m = k
    BY <2>2
  <2>4. f \in Injection(Present, 1..Len(recs))
    BY <2>3, Fun_IsInj
  <2>5. IsFiniteSet(1..Len(recs))
    BY <2>1, FS_Interval
  <2>6. QED
    BY <2>4, <2>5, FS_Injection
<1>2. n \in Nat
  BY <1>1, FS_CardinalityType
<1>3. IsFiniteSet(1..n) /\ Cardinality(1..n) = n
  <2> HIDE DEF n
  <2>1. 1 \in Int /\ n \in Int
    BY <1>2
  <2>2. IsFiniteSet(1..n) /\ Cardinality(1..n) = IF 1 > n THEN 0 ELSE n - 1 + 1
    BY <2>1, FS_Interval
  <2>3. QED
    BY <1>2, <2>2
<1>4. PICK q \in [1..n -> Present] : InOrder(q) /\ listed' = [i \in DOMAIN q |-> pending[q[i]].rec]
  BY DEF FlushList
<1> HIDE DEF n
<1>5. \A m \in Present : pending[m].rec \in Nat \ {0}
  BY EntryFacts DEF Present
<1>6. \A i, j \in 1..n : pending[q[i]].rec = pending[q[j]].rec => i = j
  <2>1. \A i, j \in 1..n : i < j => pending[q[i]].rec < pending[q[j]].rec
    BY <1>4 DEF InOrder
  <2>2. \A i \in 1..n : pending[q[i]].rec \in Nat
    BY <1>4, <1>5
  <2>3. SUFFICES ASSUME NEW i \in 1..n, NEW j \in 1..n, i # j, pending[q[i]].rec = pending[q[j]].rec
                 PROVE  FALSE
    OBVIOUS
  <2>4. i < j \/ j < i
    BY <1>2, <2>3
  <2>5. QED
    BY <2>1, <2>2, <2>3, <2>4
<1>7. q \in Injection(1..n, Present)
  BY <1>4, <1>6, Fun_IsInj
<1>8. q \in Surjection(1..n, Present)
  BY <1>1, <1>3, <1>7, FS_Injection DEF n
<1>9. \A m \in Present : \E i \in 1..n : q[i] = m
  BY <1>8 DEF Surjection
<1>10. listed' = [i \in 1..n |-> pending[q[i]].rec]
  BY <1>4
<1>11. listed' \in Seq(Nat \ {0})
  BY <1>2, <1>4, <1>5, <1>10
<1>12. Range(listed') = PendingRecs
  BY <1>4, <1>9, <1>10 DEF PendingRecs, Range
<1>13. IsInjective(listed')
  BY <1>6, <1>10 DEF IsInjective
<1>14. QED
  BY <1>11, <1>12, <1>13

\* The types at the start: nothing received, nothing pending.
LEMMA ShapeInit == Init => Shape
<1> SUFFICES ASSUME Init PROVE Shape
  OBVIOUS
<1> USE DEF Init
<1>1. Counters
  <2>1. opts \in [lossless : BOOLEAN, dedupe : BOOLEAN]
    BY MonitorAssumption
  <2>2. QED
    BY <2>1, FS_EmptySet DEF Counters
<1>2. MainShape
  BY EmptySeq, BlockFacts DEF MainShape, Main
<1>3. QueueShape
  BY EmptySeq, ConstantFacts DEF QueueShape
<1>4. WorkerShape
  BY EmptySeq, BlockFacts DEF WorkerShape, Worker
<1>5. PendingShape
  <2>1. pending \in [Msg -> Entries \cup {NoEntry}] /\ \A m \in Msg : pending[m].rec = 0
    BY DEF NoEntry
  <2>2. QED
    BY <2>1, EmptySeq DEF PendingShape
<1>6. LogShape
  BY DEF LogShape
<1>7. QED
  BY <1>1, <1>2, <1>3, <1>4, <1>5, <1>6 DEF Shape

\* A new record gets a number no other has, a copy joins a record that is
\* there, and a message's entry is taken away whole.
LEMMA PendingShapeKept ==
  ASSUME Shape, [Next]_vars
  PROVE  PendingShape'
<1> USE DEF Shape
<1>0. /\ \A m \in Msg : pending[m].rec \in Nat /\ (pending[m] = NoEntry <=> pending[m].rec = 0)
      /\ Len(recs) \in Nat /\ NoEntry.rec = 0
  BY EntryFacts DEF NoEntry
<1>1. CASE UNCHANGED <<pending, recs>>
  BY <1>1 DEF PendingShape
<1>2. CASE FlushClear
  <2>1. pending' = [m \in Msg |-> NoEntry] /\ recs' = recs
    BY <1>2 DEF FlushClear
  <2>2. QED
    BY <2>1, <1>0 DEF PendingShape
<1>3. CASE Delete
  <2>1. recs' = recs /\ \E m \in Msg : pending' = pending \/ pending' = [pending EXCEPT ![m] = NoEntry]
    BY <1>3 DEF Delete, WorkerShape
  <2>2. QED
    BY <2>1, <1>0 DEF PendingShape
<1>4. CASE Process
  <2>0. item \in Blocks /\ item.id \in Nat \ {0} /\ item.ts \in Nat
    BY <1>4, BlockFacts DEF Process, WorkerShape
  <2>1. CASE Add(item) /\ item.msg \in Msg
    <3> DEFINE hit == pending[item.msg]
    <3>1. CASE hit # NoEntry
      <4>1. hit.rec \in 1..Len(recs)
        BY <2>1, <1>0, <3>1 DEF PendingShape
      <4>2. /\ recs' = [recs EXCEPT ![hit.rec] = @ \cup {item.id}]
            /\ pending' = [pending EXCEPT ![item.msg] = [rec |-> hit.rec, last |-> item.ts]]
        BY <2>1, <3>1 DEF Add
      <4>3. recs' \in Seq(SUBSET (Nat \ {0})) /\ Len(recs') = Len(recs)
        <5>1. recs[hit.rec] \cup {item.id} \in SUBSET (Nat \ {0})
          BY <2>0, <4>1, ElementOfSeq DEF PendingShape
        <5>2. QED
          BY <4>1, <4>2, <5>1, ExceptSeq DEF PendingShape
      <4>4. [rec |-> hit.rec, last |-> item.ts] \in Entries
        BY <2>0, <4>1 DEF Entries
      <4>5. \A m \in Msg : pending'[m].rec = pending[m].rec
        BY <2>1, <4>2 DEF PendingShape
      <4>6. QED
        BY <2>1, <4>2, <4>3, <4>4, <4>5 DEF PendingShape
    <3>2. CASE hit = NoEntry
      <4> DEFINE e == [rec |-> Len(recs) + 1, last |-> item.ts]
      <4>1. recs' = Append(recs, {item.id}) /\ pending' = [pending EXCEPT ![item.msg] = e]
        BY <2>1, <3>2 DEF Add
      <4>2. recs' \in Seq(SUBSET (Nat \ {0})) /\ Len(recs') = Len(recs) + 1
        BY <2>0, <4>1, AppendProperties DEF PendingShape
      <4>3. e \in Entries /\ e.rec = Len(recs) + 1
        BY <2>0, <1>0 DEF Entries
      <4> HIDE DEF e
      <4>4. QED
        BY <2>1, <1>0, <4>1, <4>2, <4>3 DEF PendingShape
    <3>3. QED
      BY <3>1, <3>2
  <2>2. CASE pending' = pending /\ recs' = Append(recs, {item.id})
    <3>1. recs' \in Seq(SUBSET (Nat \ {0})) /\ Len(recs') = Len(recs) + 1
      BY <2>0, <2>2, AppendProperties DEF PendingShape
    <3>2. QED
      BY <2>2, <1>0, <3>1 DEF PendingShape
  <2>3. QED
    BY <1>1, <1>4, <2>0, <2>1, <2>2 DEF Process, WriteAtOnce, Blocks, dedupeVars
<1>5. QED
  BY <1>1, <1>2, <1>3, <1>4, WorkerSteps DEF FlushClear, Delete

\* Every action keeps the types and the bound of the queue.
LEMMA ShapeKept ==
  ASSUME Shape, [Next]_vars
  PROVE  Shape'
<1> USE DEF Shape
<1>1. Counters'
  <2>1. opts' = opts /\ clock' \in Nat /\ blocks' \in Nat /\ signals' \in Nat
    <3>1. clock' \in Nat
      BY MainSteps DEF Counters, Tick
    <3>2. blocks' \in Nat
      BY MainSteps DEF Counters, Copy, Junk, Receive
    <3>3. signals' \in Nat
      <4>1. signals' = signals \/ signals' = signals + 1
        BY MainSteps DEF Signal, SignalAgain
      <4>2. QED
        BY <4>1 DEF Counters
    <3>4. QED
      BY <3>1, <3>2, <3>3, MainSteps
  <2>2. giveUpAt' \in Nat
    <3>1. giveUpAt' = giveUpAt \/ giveUpAt' = clock + PutTimeout \/ giveUpAt' = clock + JoinTimeout
      BY MainSteps DEF LeaveLoop, RadioFails, Signal, EnterFinally, PutStop
    <3>2. QED
      BY <3>1, ConstantFacts DEF Counters
  <2>3. since' \in Nat
    BY WorkerSteps DEF Counters, Idle, Process, EmitDone
  <2>4. IsFiniteSet(sent') /\ sent' \subseteq [n : Nat \ {0}, msg : Msg, at : Nat]
    <3>1. ASSUME NEW m \in Msg, Transmit(m)
          PROVE  IsFiniteSet(sent') /\ sent' \subseteq [n : Nat \ {0}, msg : Msg, at : Nat]
      <4>1. Cardinality(sent) \in Nat
        BY FS_CardinalityType DEF Counters
      <4>2. [n |-> Cardinality(sent) + 1, msg |-> m, at |-> clock] \in [n : Nat \ {0}, msg : Msg, at : Nat]
        BY <4>1 DEF Counters
      <4>3. QED
        BY <3>1, <4>2, FS_AddElement DEF Transmit, Counters
    <3>2. QED
      BY <3>1, MainSteps DEF Counters
  <2>5. QED
    BY <2>1, <2>2, <2>3, <2>4 DEF Counters
<1>2. blocks' \in Nat /\ blocks <= blocks'
  BY MainSteps DEF Counters, Copy, Junk, Receive
<1>3. MainShape'
  <2>1. main' \in Main
    BY MainSteps DEF MainShape, Main, Finally, Gone, Copy, Junk, Receive, Put, Drop, Signal, SignalAgain,
       RadioFails, LeaveLoop, EnterFinally, Shutdown, PutStop, Joined, FlushList, FlushBreaks, FlushClear,
       FinalWrite, Close
  <2>2. held' \in Blocks \cup {NoBlock} /\ held'.id <= blocks' /\ (main' = "put" <=> held'.id # 0)
    <3>1. CASE Copy \/ Junk
      <4>1. PICK m \in Msg \cup {NoMsg}, n \in Nat : Receive(Block(m, n))
        BY <3>1 DEF Copy, Junk, Counters, LogShape
      <4>2. QED
        <5> DEFINE b == Block(m, n)
        <5>1. b \in Blocks /\ b.id = blocks + 1
          BY BlockFacts DEF Counters
        <5> HIDE DEF b
        <5>2. held' = b /\ blocks' = blocks + 1 /\ main' = "put"
          BY <4>1 DEF Receive, b
        <5>3. QED
          BY <5>1, <5>2 DEF Counters
    <3>2. CASE Put \/ Drop \/ Signal
      <4>1. held' = NoBlock /\ main' # "put" /\ blocks' = blocks
        BY <3>2 DEF Put, Drop, Signal, EnterFinally, envVars
      <4>2. QED
        BY <4>1, BlockFacts DEF Counters
    <3>3. CASE main' = main /\ held' = held
      BY <3>3, <1>2, BlockFacts DEF MainShape, Counters
    <3>4. CASE held' = held /\ (SignalAgain \/ RadioFails \/ Shutdown)
      <4>1. main # "put" /\ main' # "put"
        BY <3>4 DEF SignalAgain, RadioFails, LeaveLoop, EnterFinally, Shutdown, Finally, PutStop, Joined,
           FlushList, FlushBreaks, FlushClear, FinalWrite, Close
      <4>2. blocks' = blocks
        BY <3>4, MainSteps DEF Copy, Junk, Receive, SignalAgain, RadioFails, Shutdown, LeaveLoop, PutStop,
           Joined, FlushList, FlushBreaks, FlushClear, FinalWrite, Close, envVars
      <4>3. QED
        BY <3>4, <4>1, <4>2 DEF MainShape
    <3>5. QED
      BY <3>1, <3>2, <3>3, <3>4, MainSteps DEF SignalAgain, RadioFails, Shutdown, mainVars, LeaveLoop, PutStop,
         Joined, FlushList, FlushBreaks, FlushClear, FinalWrite, Close
  <2>3. listed' \in Seq(Nat \ {0})
    <3>1. CASE FinalWrite
      BY <3>1, HeadTailProperties DEF FinalWrite, MainShape
    <3>2. QED
      BY <3>1, FlushLists, MainSteps DEF MainShape
  <2>4. QED
    BY <2>1, <2>2, <2>3 DEF MainShape
<1>4. QueueShape'
  <2>1. CASE Put
    BY <2>1, AppendProperties, BlockFacts, LenProperties, ConstantFacts DEF Put, Room, MainShape, QueueShape
  <2>2. CASE PutStop
    <3>1. StopMark(clock) \in Blocks \cup Marks
      BY DEF StopMark, Marks, Counters
    <3>2. QED
      <4>1. CASE Room /\ work' = Append(work, StopMark(clock))
        BY <4>1, <3>1, AppendProperties, LenProperties, ConstantFacts DEF Room, QueueShape
      <4>2. CASE work' = work
        BY <4>2 DEF QueueShape
      <4>3. QED
        BY <2>2, <4>1, <4>2 DEF PutStop
  <2>3. CASE Get
    BY <2>3, HeadTailProperties, LenProperties, ConstantFacts DEF Get, QueueShape
  <2>4. QED
    BY <2>1, <2>2, <2>3, WorkerSteps DEF QueueShape
<1>5. WorkerShape'
  <2>1. CASE Get
    <3>1. Head(work) \in Blocks \cup Marks
      BY <2>1, HeadTailProperties DEF Get, QueueShape
    <3>2. QED
      BY <2>1, <3>1, BlockFacts DEF Get, WorkerShape, Worker
  <2>2. CASE Snapshot
    <3>1. \A m \in Msg : Ready(pending[m]) => pending[m].rec \in Nat \ {0}
      BY EntryFacts DEF Ready
    <3>2. popping' \subseteq [msg : Msg, rec : Nat \ {0}]
      BY <2>2, <3>1 DEF Snapshot
    <3>3. QED
      BY <2>2, <3>2, EmptySeq DEF Snapshot, WorkerShape, Worker
  <2>3. CASE Delete
    <3>1. popping' \subseteq popping /\ worker' \in Worker \ {"process"} /\ worker # "process" /\ item' = item
      BY <2>3 DEF Delete, Worker
    <3>2. out' = out \/ \E e \in popping : out' = Append(out, e.rec)
      BY <2>3 DEF Delete
    <3>3. out' \in Seq(Nat \ {0})
      <4>1. ASSUME NEW e \in popping, out' = Append(out, e.rec) PROVE out' \in Seq(Nat \ {0})
        <5>1. e.rec \in Nat \ {0}
          BY DEF WorkerShape
        <5>2. QED
          BY <4>1, <5>1, AppendProperties DEF WorkerShape
      <4>2. QED
        BY <3>2, <4>1 DEF WorkerShape
    <3>4. QED
      BY <3>1, <3>3 DEF WorkerShape
  <2>4. CASE Emit
    <3>1. popping' = popping /\ worker' \in Worker \ {"process"} /\ worker # "process" /\ item' = item
      BY <2>4 DEF Emit, Worker
    <3>2. out # <<>> /\ (out' = Tail(out) \/ out' = <<>>)
      BY <2>4 DEF Emit
    <3>3. out' \in Seq(Nat \ {0})
      <4>1. Tail(out) \in Seq(Nat \ {0})
        BY <3>2, HeadTailProperties DEF WorkerShape
      <4>2. <<>> \in Seq(Nat \ {0})
        OBVIOUS
      <4>3. QED
        BY <3>2, <4>1, <4>2
    <3>4. QED
      BY <3>1, <3>3 DEF WorkerShape
  <2>5. CASE Idle \/ Process \/ DeleteDone \/ EmitDone
    BY <2>5, BlockFacts DEF Idle, AfterIdle, Process, AfterBlock, DeleteDone, EmitDone, WorkerShape, Worker
  <2>6. QED
    BY <2>1, <2>2, <2>3, <2>4, <2>5, WorkerSteps DEF Work, WorkerShape
<1>6. LogShape'
  <2>1. heard' \subseteq Blocks
    <3>1. CASE Copy \/ Junk
      <4>1. PICK m \in Msg \cup {NoMsg}, n \in Nat : Receive(Block(m, n))
        BY <3>1 DEF Copy, Junk, Counters, LogShape
      <4>2. QED
        BY <4>1, BlockFacts DEF Receive, Counters, LogShape
    <3>2. QED
      BY <3>1, MainSteps DEF LogShape
  <2>2. lost' \subseteq 1..blocks'
    <3>1. CASE Drop \/ Signal
      <4>1. blocks' = blocks /\ (lost' = lost \/ (main = "put" /\ lost' = lost \cup {held.id}))
        BY <3>1 DEF Drop, Signal, envVars
      <4>2. main = "put" => held.id \in 1..blocks
        BY BlockFacts DEF MainShape, Counters
      <4>3. QED
        BY <4>1, <4>2 DEF LogShape
    <3>2. QED
      <4>1. 1..blocks \subseteq 1..blocks'
        BY <1>2 DEF Counters
      <4>2. QED
        BY <3>1, <4>1, MainSteps DEF LogShape
  <2>3. QED
    BY <2>1, <2>2 DEF LogShape
<1>7. QED
  BY <1>1, <1>3, <1>4, <1>5, <1>6, PendingShapeKept

\* Types, for every number of messages and blocks: the bounded queue of
\* monitor_main, one pending record per message in the Deduper, and drops
\* only of blocks that were received.
THEOREM TypeCorrect == Spec => []TypeOK
<1>1. Init => Shape
  BY ShapeInit
<1>2. Shape /\ [Next]_vars => Shape'
  BY ShapeKept
<1>3. Shape => TypeOK
  <2> SUFFICES ASSUME Shape PROVE TypeOK
    OBVIOUS
  <2>1. main \in Main /\ worker \in Worker /\ Len(work) <= Capacity /\ lost \subseteq 1..blocks
    BY DEF Shape, MainShape, WorkerShape, QueueShape, LogShape
  <2>2. (worker = "process" <=> item # NoBlock) /\ (main = "put" => held # NoBlock)
    BY BlockFacts DEF Shape, MainShape, WorkerShape
  <2>3. PendingRecs \subseteq DOMAIN recs
    BY EntryFacts, LenProperties DEF Shape, PendingShape
  <2>4. \A m, k \in Present : pending[m].rec = pending[k].rec => m = k
    BY EntryFacts DEF Shape, PendingShape, Present
  <2>5. QED
    BY <2>1, <2>2, <2>3, <2>4 DEF TypeOK
<1>4. QED
  BY <1>1, <1>2, <1>3, PTL DEF Spec

(***************************************************************************)
(* Where the threads are.                                                  *)
(***************************************************************************)

\* What Append and Tail do to the queue.
LEMMA QueueFacts ==
  ASSUME QueueShape
  PROVE  /\ Len(work) \in Nat /\ DOMAIN work = 1..Len(work) /\ (work = <<>> <=> Len(work) = 0)
         /\ \A i \in 1..Len(work) : work[i] \in Blocks \cup Marks
         /\ \A b \in Blocks \cup Marks : /\ Len(Append(work, b)) = Len(work) + 1
                                         /\ DOMAIN Append(work, b) = 1..(Len(work) + 1)
                                         /\ Append(work, b)[Len(work) + 1] = b
                                         /\ \A i \in 1..Len(work) : Append(work, b)[i] = work[i]
         /\ work # <<>> => /\ Len(Tail(work)) = Len(work) - 1 /\ DOMAIN Tail(work) = 1..(Len(work) - 1)
                           /\ \A i \in 1..(Len(work) - 1) : Tail(work)[i] = work[i + 1]
                           /\ Head(work) = work[1]
BY AppendProperties, HeadTailProperties, LenProperties, EmptySeq DEF QueueShape

\* Nothing is put behind the stop mark, and the worker stops at it: nobody
\* holds more than what its place in the code lets it.
LEMMA PhasesKept ==
  ASSUME Shape, Phases, [Next]_vars
  PROVE  Phases'
<1> USE DEF Phases
<1>0. opts' = opts /\ (main' \in Before => main \in Before)
  BY MainSteps DEF Before, Copy, Junk, Receive, Put, Drop, Signal, SignalAgain, RadioFails, LeaveLoop,
     EnterFinally, Shutdown, PutStop, Joined, FlushList, FlushBreaks, FlushClear, FinalWrite, Close, Finally
<1>1. ~opts'.dedupe => /\ Present' = {} /\ worker' \notin {"pop", "delete", "emit"}
                       /\ main' \notin {"flush", "clear", "write"}
  <2> SUFFICES ASSUME ~opts.dedupe
               PROVE  /\ Present' = {} /\ worker' \notin {"pop", "delete", "emit"}
                      /\ main' \notin {"flush", "clear", "write"}
    BY <1>0
  <2>1. pending' = pending
    BY WorkerSteps DEF FlushClear, Process, WriteAtOnce, Delete, dedupeVars
  <2>2. worker' \notin {"pop", "delete", "emit"}
    BY WorkerSteps DEF Work, Get, Idle, AfterIdle, Process, AfterBlock, Snapshot, Delete, DeleteDone, Emit,
       EmitDone
  <2>3. main' \notin {"flush", "clear", "write"}
    BY MainSteps DEF Copy, Junk, Receive, Put, Drop, Signal, SignalAgain, RadioFails, LeaveLoop,
       EnterFinally, Shutdown, PutStop, Joined, FlushList, FlushBreaks, FlushClear, FinalWrite, Close
  <2>4. QED
    BY <2>1, <2>2, <2>3 DEF Present
<1>2. worker' \notin {"delete", "dead"} => popping' = {}
  BY WorkerSteps DEF Work, Get, Idle, AfterIdle, Process, AfterBlock, Snapshot, Delete, DeleteDone, Emit,
     EmitDone
<1>3. worker' \notin {"delete", "emit", "dead"} => out' = <<>>
  BY WorkerSteps DEF Work, Get, Idle, AfterIdle, Process, AfterBlock, Snapshot, Delete, DeleteDone, Emit,
     EmitDone
<1>4. main' \notin {"clear", "write", "aborted"} => listed' = <<>>
  BY MainSteps DEF Copy, Junk, Receive, Put, Drop, Signal, SignalAgain, RadioFails, LeaveLoop,
     EnterFinally, Shutdown, PutStop, Joined, FlushList, FlushBreaks, FlushClear, FinalWrite, Close, Finally
<1>5. \A i \in DOMAIN work' : work'[i].id = 0 => i = Len(work') /\ main' \notin Before
  <2>1. QueueShape
    BY DEF Shape
  <2>2. CASE Put
    <3>1. held \in Blocks /\ held.id # 0 /\ main \in Before /\ main' \in Before
      BY <2>2, BlockFacts DEF Put, Before, Shape, MainShape
    <3>2. QED
      BY <2>1, <2>2, <3>1, QueueFacts DEF Put
  <2>3. CASE PutStop
    <3>1. StopMark(clock) \in Blocks \cup Marks /\ main \in Before /\ main' \notin Before
      BY <2>3 DEF PutStop, Before, StopMark, Marks, Shape, Counters
    <3>2. CASE work' = work
      BY <3>1, <3>2
    <3>3. CASE work' = Append(work, StopMark(clock))
      BY <2>1, <3>1, <3>3, QueueFacts
    <3>4. QED
      BY <2>3, <3>2, <3>3 DEF PutStop
  <2>4. CASE Get
    <3>1. work # <<>> /\ work' = Tail(work)
      BY <2>4 DEF Get
    <3>2. QED
      BY <1>0, <2>1, <3>1, QueueFacts
  <2>5. CASE work' = work
    BY <1>0, <2>5
  <2>6. QED
    BY <2>2, <2>3, <2>4, <2>5, WorkerSteps
<1>6. worker' = "returned" => work' = <<>> /\ main' \notin Before
  <2>1. CASE worker = "returned"
    BY <2>1, <1>0, WorkerSteps DEF Put, PutStop, Get, Before
  <2>2. CASE worker # "returned" /\ worker' = "returned"
    <3>1. Get /\ Head(work).id = 0 /\ work # <<>> /\ work' = Tail(work)
      BY <2>2, WorkerSteps DEF Work, Get, Idle, AfterIdle, Process, AfterBlock, Snapshot, Delete, DeleteDone, Emit,
         EmitDone
    <3>2. work[1].id = 0 /\ Len(work) = 1 /\ main \notin Before
      BY <3>1, QueueFacts DEF Shape
    <3>3. Tail(work) = <<>>
      BY <3>1, <3>2, HeadTailProperties, EmptySeq DEF Shape, QueueShape
    <3>4. QED
      BY <1>0, <3>1, <3>2, <3>3
  <2>3. QED
    BY <2>1, <2>2
<1>7. QED
  BY <1>1, <1>2, <1>3, <1>4, <1>5, <1>6 DEF Phases

(***************************************************************************)
(* The worker has stopped when the join is over.                           *)
(***************************************************************************)

\* Blocks get to the worker within its lag (KeepsUp), so the queue has room
\* for the mark before work.put(None) times out, and the mark is taken before
\* decoder.join does.
LEMMA TimelyKept ==
  ASSUME Shape, Phases, Timely, [Next]_vars
  PROVE  Timely'
<1>0. /\ MaxLag \in Nat /\ PutTimeout \in Nat /\ JoinTimeout \in Nat /\ IdleTick \in Nat
      /\ clock \in Nat /\ since \in Nat /\ giveUpAt \in Nat
  BY ConstantFacts DEF Shape, Counters
<1>t. Fresh(item) /\ Fresh(held) /\ since <= clock /\ InTime
  BY DEF Timely
<1>w. \A i \in DOMAIN work :
          work[i].ts <= clock /\ (worker \notin Stopped => clock <= work[i].ts + MaxLag)
  BY DEF Timely
<1>s. /\ worker \in {"pop", "delete", "emit"} => clock <= since + MaxLag
      /\ worker = "get" /\ work = <<>> => clock <= since + IdleTick + MaxLag
  BY DEF Timely
<1>p. main = "stop" => \A i \in DOMAIN work : work[i].ts + PutTimeout <= giveUpAt
  BY DEF Timely
<1>j. main = "join" /\ worker \notin Stopped =>
          work # <<>> /\ work[Len(work)].id = 0 /\ work[Len(work)].ts + JoinTimeout = giveUpAt
  BY DEF Timely
<1>g. main \in Behind => worker \in Stopped
  BY DEF Timely
<1>1. worker \in Stopped => worker' \in Stopped
  BY WorkerSteps DEF Stopped, Work, Get, Idle, Process, Snapshot, Delete, DeleteDone, Emit, EmitDone
<1>q. QueueShape
  BY DEF Shape
<1>b. \A b \in Blocks \cup Marks : b.ts \in Nat
  BY BlockFacts
<1>i. item.id # 0 => item \in Blocks
  BY BlockFacts DEF Shape, WorkerShape
<1>h. held.id # 0 => held \in Blocks
  BY BlockFacts DEF Shape, MainShape
<1>2. CASE Tick
  <2>1. /\ clock' = clock + 1 /\ main' = main /\ held' = held /\ giveUpAt' = giveUpAt /\ work' = work
        /\ worker' = worker /\ since' = since /\ item' = item
    BY <1>2 DEF Tick, mainVars, workerVars
  <2>2. CASE worker \in Stopped
    <3>1. Fresh(item)' /\ Fresh(held)'
      BY <2>1, <2>2, <1>t, <1>0, <1>b, <1>i, <1>h DEF Fresh
    <3>2. \A i \in DOMAIN work' : work'[i].ts <= clock'
      BY <2>1, <1>w, <1>0, <1>b, <1>q, QueueFacts
    <3>3. worker \notin {"pop", "delete", "emit", "get"}
      BY <2>2 DEF Stopped
    <3>4. QED
      <4>1. main' = "stop" => \A i \in DOMAIN work' : work'[i].ts + PutTimeout <= giveUpAt'
        BY <2>1, <1>p
      <4>2. since' <= clock' /\ InTime /\ worker' \in Stopped
        BY <2>1, <2>2, <1>t, <1>0
      <4>3. QED
        BY <2>1, <3>1, <3>2, <3>3, <4>1, <4>2 DEF Timely
  <2>3. CASE KeepsUp
    <3>1. \A i \in DOMAIN work : clock - work[i].ts < MaxLag
      BY <2>3 DEF KeepsUp, Underway
    <3>2. (item.id # 0 => clock - item.ts < MaxLag) /\ (held.id # 0 => clock - held.ts < MaxLag)
      BY <2>3, BlockFacts DEF KeepsUp, Underway
    <3>3. /\ worker \in {"pop", "delete", "emit"} => clock - since < MaxLag
          /\ worker = "get" /\ work = <<>> => clock - since < IdleTick + MaxLag
      BY <2>3 DEF KeepsUp
    <3>4. Fresh(item)' /\ Fresh(held)'
      BY <2>1, <3>2, <1>t, <1>0, <1>b, <1>i, <1>h DEF Fresh
    <3>5. \A i \in DOMAIN work' :
             work'[i].ts <= clock' /\ (worker' \notin Stopped => clock' <= work'[i].ts + MaxLag)
      BY <2>1, <3>1, <1>w, <1>0, <1>b, <1>q, QueueFacts
    <3>6. QED
      <4>1. main' = "stop" => \A i \in DOMAIN work' : work'[i].ts + PutTimeout <= giveUpAt'
        BY <2>1, <1>p
      <4>2. since' <= clock' /\ InTime /\ (main' \in Behind => worker' \in Stopped)
        BY <2>1, <1>t, <1>0, <1>g
      <4>3. main' = "join" /\ worker' \notin Stopped =>
              work' # <<>> /\ work'[Len(work')].id = 0 /\ work'[Len(work')].ts + JoinTimeout = giveUpAt'
        BY <2>1, <1>j
      <4>4. /\ worker' \in {"pop", "delete", "emit"} => clock' <= since' + MaxLag
            /\ worker' = "get" /\ work' = <<>> => clock' <= since' + IdleTick + MaxLag
        BY <2>1, <3>3, <1>0
      <4>5. QED
        BY <3>4, <3>5, <4>1, <4>2, <4>3, <4>4 DEF Timely
  <2>4. QED
    BY <1>2, <2>2, <2>3 DEF Tick, Stopped
<1>3. CASE ~Tick
  <2>1. clock' = clock
    BY <1>3, MainSteps
  <2>2. Fresh(held)'
    <3>1. CASE Copy \/ Junk
      <4>1. PICK m \in Msg \cup {NoMsg}, n \in Nat : Receive(Block(m, n))
        BY <3>1 DEF Copy, Junk, Shape, Counters
      <4>2. held'.ts = clock
        BY <4>1, BlockFacts DEF Receive, Shape, Counters
      <4>3. QED
        BY <2>1, <4>2, <1>0 DEF Fresh
    <3>2. CASE Put \/ Drop \/ Signal
      BY <3>2, BlockFacts DEF Put, Drop, Signal, Fresh
    <3>3. CASE held' = held
      BY <3>3, <2>1, <1>1, <1>t DEF Fresh
    <3>4. QED
      BY <3>1, <3>2, <3>3, MainSteps
  <2>3. Fresh(item)'
    <3>1. CASE Get
      <4>1. work # <<>> /\ (item' = item \/ item' = Head(work))
        BY <3>1 DEF Get
      <4>2. CASE item' = Head(work)
        BY <4>1, <4>2, <2>1, <1>1, <1>w, <1>q, QueueFacts DEF Fresh
      <4>3. QED
        BY <4>1, <4>2, <2>1, <1>1, <1>t DEF Fresh
    <3>2. CASE Process
      BY <3>2, BlockFacts DEF Process, Fresh
    <3>3. CASE item' = item
      BY <3>3, <2>1, <1>1, <1>t DEF Fresh
    <3>4. QED
      BY <3>1, <3>2, <3>3, WorkerSteps
  <2>4. since' <= clock'
    BY <2>1, <1>0, <1>t, WorkerSteps DEF Idle, Process, EmitDone
  <2>5. \A i \in DOMAIN work' :
           work'[i].ts <= clock' /\ (worker' \notin Stopped => clock' <= work'[i].ts + MaxLag)
    <3>1. CASE Put
      <4>1. work' = Append(work, held) /\ held \in Blocks /\ held.id # 0
        BY <3>1, <1>h DEF Put, Shape, MainShape
      <4>2. held.ts <= clock /\ (worker \notin Stopped => clock <= held.ts + MaxLag)
        BY <4>1, <1>t DEF Fresh
      <4>3. QED
        BY <2>1, <1>1, <1>w, <4>1, <4>2, <1>q, QueueFacts
    <3>2. CASE work' = Append(work, StopMark(clock))
      <4>1. StopMark(clock) \in Blocks \cup Marks /\ StopMark(clock).ts = clock
        BY <1>0 DEF StopMark, Marks
      <4>2. QED
        BY <2>1, <1>0, <1>1, <1>w, <3>2, <4>1, <1>q, QueueFacts
    <3>3. CASE work # <<>> /\ work' = Tail(work)
      BY <2>1, <1>1, <1>w, <3>3, <1>q, QueueFacts
    <3>4. CASE work' = work
      BY <2>1, <1>1, <1>w, <3>4
    <3>5. QED
      BY <3>1, <3>2, <3>3, <3>4, WorkerSteps DEF PutStop, Get
  <2>6. worker' \in {"pop", "delete", "emit"} => clock' <= since' + MaxLag
    <3>1. CASE Idle \/ Process \/ EmitDone
      BY <3>1, <2>1, <1>0 DEF Idle, Process, EmitDone
    <3>2. CASE since' = since
      <4>1. worker' \in {"pop", "delete", "emit"} => worker \in {"pop", "delete", "emit"} \/ Idle \/ Process
        BY WorkerSteps DEF Work, Get, Idle, Process, Snapshot, Delete, DeleteDone, Emit, EmitDone
      <4>2. QED
        BY <3>1, <3>2, <4>1, <2>1, <1>s
    <3>3. QED
      BY <3>1, <3>2, WorkerSteps
  <2>7. worker' = "get" /\ work' = <<>> => clock' <= since' + IdleTick + MaxLag
    <3>1. CASE Idle \/ Process \/ EmitDone
      BY <3>1, <2>1, <1>0 DEF Idle, Process, EmitDone
    <3>2. CASE since' = since /\ worker' = "get" /\ work' = <<>>
      <4>0. worker' = "get" => worker = "get" \/ Idle \/ Process \/ EmitDone
        BY WorkerSteps DEF Work, Get, Snapshot, Delete, DeleteDone, Emit
      <4>1. (worker = "get" /\ ~Get) \/ Idle \/ Process \/ EmitDone
        BY <3>2, <4>0 DEF Get
      <4>2. ~Put /\ work' # Append(work, StopMark(clock))
        <5>1. StopMark(clock) \in Blocks \cup Marks
          BY <1>0 DEF StopMark, Marks
        <5>2. Put => held \in Blocks \cup Marks
          BY <1>h DEF Put, Shape, MainShape
        <5>3. \A b \in Blocks \cup Marks : Len(Append(work, b)) # 0
          BY <1>q, QueueFacts
        <5>4. Len(work') = 0
          BY <3>2
        <5>5. QED
          BY <5>1, <5>2, <5>3, <5>4 DEF Put
      <4>3. work' = work \/ Get
        BY <4>2, WorkerSteps DEF PutStop
      <4>4. QED
        BY <2>1, <3>1, <3>2, <4>1, <4>3, <1>s
    <3>3. QED
      BY <3>1, <3>2, WorkerSteps
  <2>8. main' = "stop" => \A i \in DOMAIN work' : work'[i].ts + PutTimeout <= giveUpAt'
    <3> SUFFICES ASSUME main' = "stop" PROVE \A i \in DOMAIN work' : work'[i].ts + PutTimeout <= giveUpAt'
      OBVIOUS
    <3>1. CASE LeaveLoop \/ RadioFails \/ Signal
      <4>1. giveUpAt' = clock + PutTimeout /\ work' = work
        BY <3>1 DEF LeaveLoop, RadioFails, Signal, EnterFinally
      <4>2. QED
        <5>1. \A i \in DOMAIN work : work[i].ts \in Nat /\ work[i].ts <= clock
          BY <1>w, <1>b, <1>q, QueueFacts
        <5>2. TAKE i \in DOMAIN work'
        <5>3. i \in DOMAIN work /\ work'[i] = work[i]
          BY <4>1
        <5>4. QED
          BY <4>1, <5>1, <5>3, <1>0
    <3>2. CASE main = "stop" /\ giveUpAt' = giveUpAt /\ ~PutStop
      <4>1. ~Put
        BY <3>2 DEF Put
      <4>2. CASE Get
        <5>1. work # <<>> /\ work' = Tail(work)
          BY <4>2 DEF Get
        <5>2. \A i \in DOMAIN work' : i + 1 \in DOMAIN work /\ work'[i] = work[i + 1]
          <6>1. Len(work) \in Nat \ {0} /\ DOMAIN work' = 1..(Len(work) - 1) /\ DOMAIN work = 1..Len(work)
                /\ \A i \in 1..(Len(work) - 1) : work'[i] = work[i + 1]
            BY <5>1, <1>q, QueueFacts
          <6>2. QED
            BY <6>1
        <5>3. QED
          BY <3>2, <5>2, <1>p
      <4>3. CASE work' = work
        BY <3>2, <4>3, <1>p
      <4>4. QED
        BY <3>2, <4>1, <4>2, <4>3, WorkerSteps
    <3>3. ~PutStop
      BY DEF PutStop
    <3>4. main = "stop" \/ LeaveLoop \/ RadioFails \/ Signal
      BY MainSteps DEF Copy, Junk, Receive, Put, Drop, SignalAgain, Shutdown, PutStop, Joined, FlushList,
         FlushBreaks, FlushClear, FinalWrite, Close
    <3>5. QED
      BY <3>1, <3>2, <3>3, <3>4, MainSteps
  <2>9. main' = "join" /\ worker' \notin Stopped =>
           work' # <<>> /\ work'[Len(work')].id = 0 /\ work'[Len(work')].ts + JoinTimeout = giveUpAt'
    <3> SUFFICES ASSUME main' = "join", worker' \notin Stopped
                 PROVE  work' # <<>> /\ work'[Len(work')].id = 0
                        /\ work'[Len(work')].ts + JoinTimeout = giveUpAt'
      OBVIOUS
    <3>0. worker \notin Stopped
      BY <1>1
    <3>1. CASE PutStop
      <4>1. CASE Room /\ work' = Append(work, StopMark(clock))
        <5>1. StopMark(clock) \in Blocks \cup Marks /\ StopMark(clock).ts = clock /\ StopMark(clock).id = 0
          BY <1>0 DEF StopMark, Marks
        <5>2. giveUpAt' = clock + JoinTimeout
          BY <3>1 DEF PutStop
        <5>3. QED
          BY <4>1, <5>1, <5>2, <1>q, QueueFacts, EmptySeq
      <4>2. CASE ~Room /\ clock >= giveUpAt
        <5>1. Len(work) >= 1 /\ 1 \in DOMAIN work
          BY <4>2, <1>q, QueueFacts, ConstantFacts DEF Room
        <5>2. work[1].ts + PutTimeout <= clock /\ clock <= work[1].ts + MaxLag
          <6>1. main = "stop" /\ work[1].ts \in Nat
            BY <3>1, <5>1, <1>b, <1>q, QueueFacts DEF PutStop
          <6>2. work[1].ts + PutTimeout <= giveUpAt /\ clock <= work[1].ts + MaxLag
            BY <3>0, <5>1, <6>1, <1>p, <1>w
          <6>3. QED
            BY <4>2, <6>1, <6>2, <1>0
        <5>3. QED
          BY <5>1, <5>2, <1>0, <1>t, <1>b, <1>q, QueueFacts DEF InTime
      <4>3. QED
        BY <3>1, <4>1, <4>2 DEF PutStop
    <3>2. CASE ~PutStop
      <4>1. main = "join"
        BY <3>2, MainSteps DEF Copy, Junk, Receive, Put, Drop, Signal, EnterFinally, SignalAgain, RadioFails,
           LeaveLoop, Shutdown, Joined, FlushList, FlushBreaks, FlushClear, FinalWrite, Close
      <4>2. giveUpAt' = giveUpAt
        BY <3>2, <4>1, MainSteps DEF LeaveLoop, RadioFails, Signal
      <4>3. work' = work \/ (Get /\ work # <<>> /\ work' = Tail(work))
        BY <3>2, <4>1, WorkerSteps DEF Put, Get
      <4>4. CASE Get /\ work # <<>> /\ work' = Tail(work)
        <5>1. Head(work).id # 0
          BY <4>4 DEF Get, Stopped
        <5>2. work[1].id # 0 /\ work[Len(work)].id = 0 /\ Len(work) # 1
          BY <3>0, <4>1, <4>4, <5>1, <1>j, <1>q, QueueFacts
        <5>3. Len(work') = Len(work) - 1 /\ Len(work') >= 1 /\ work'[Len(work')] = work[Len(work)]
          BY <4>4, <5>2, <1>q, QueueFacts
        <5>4. QED
          <6>1. work' # <<>>
            BY <5>3, EmptySeq
          <6>2. QED
            BY <3>0, <4>1, <4>2, <5>3, <6>1, <1>j
      <4>5. QED
        BY <3>0, <4>1, <4>2, <4>3, <4>4, <1>j
    <3>3. QED
      BY <3>1, <3>2
  <2>10. main' \in Behind => worker' \in Stopped
    <3>1. CASE main \in Behind
      BY <3>1, <1>1, <1>g
    <3>2. CASE Joined
      <4>1. CASE worker \notin Stopped
        <5>1. main = "join" /\ clock >= giveUpAt
          BY <3>2, <4>1 DEF Joined, JoinReturns, Stopped
        <5>2. Len(work) \in DOMAIN work
          BY <4>1, <5>1, <1>j, <1>q, QueueFacts
        <5>3. work[Len(work)].ts + JoinTimeout <= clock /\ clock <= work[Len(work)].ts + MaxLag
              /\ work[Len(work)].ts \in Nat
          <6>1. work[Len(work)].ts \in Nat
            BY <5>2, <1>b, <1>q, QueueFacts
          <6>2. work[Len(work)].ts + JoinTimeout = giveUpAt /\ clock <= work[Len(work)].ts + MaxLag
            BY <4>1, <5>1, <5>2, <1>j, <1>w
          <6>3. QED
            BY <5>1, <6>1, <6>2, <1>0
        <5>4. QED
          BY <5>3, <1>0, <1>t DEF InTime
      <4>2. QED
        BY <4>1, <1>1
    <3>3. CASE main \notin Behind /\ ~Joined
      BY <3>3, MainSteps DEF Behind, Copy, Junk, Receive, Put, Drop, Signal, EnterFinally, SignalAgain, RadioFails,
         LeaveLoop, Shutdown, PutStop, Joined, FlushList, FlushBreaks, FlushClear, FinalWrite, Close
    <3>4. QED
      BY <3>1, <3>2, <3>3
  <2>11. QED
    BY <2>2, <2>3, <2>4, <2>5, <2>6, <2>7, <2>8, <2>9, <2>10, <1>t DEF Timely
<1>4. QED
  BY <1>2, <1>3

\* Both invariants from the start, when the timeouts are longer than the lag.
LEMMA TimelyHolds == Spec /\ InTime => [](Shape /\ Phases /\ Timely)
<1>1. Init /\ InTime => Shape /\ Phases /\ Timely
  <2> SUFFICES ASSUME Init, InTime PROVE Phases /\ Timely
    BY ShapeInit
  <2>1. Phases
    BY DEF Init, Phases, Present
  <2>2. Timely
    BY ConstantFacts DEF Init, Timely, Fresh, NoBlock, Behind
  <2>3. QED
    BY <2>1, <2>2
<1>2. (Shape /\ Phases /\ Timely) /\ [Next]_vars => (Shape /\ Phases /\ Timely)'
  BY ShapeKept, PhasesKept, TimelyKept
<1>3. QED
  BY <1>1, <1>2, PTL DEF Spec

\* cli.py's finally clause, "Stop the worker before the final flush so nothing
\* writes behind it": true of every queue and any timing of blocks and
\* signals, as long as the worker's lag is below the two timeouts; that a
\* write can fail does not matter.
THEOREM WorkerStopsBeforeFlush == Spec /\ InTime => NothingWritesBehindFlush
<1>1. ASSUME Timely, [Next]_vars
      PROVE  \A w \in written' \ written :
                w.by = "worker" => main \notin {"flush", "clear", "write", "close"}
  <2>1. worker \in Stopped => ~Process /\ ~Emit
    BY DEF Stopped, Process, Emit
  <2>2. FinalWrite => \A w \in written' \ written : w.by = "main"
    BY DEF FinalWrite, Logged
  <2>3. QED
    BY <1>1, <2>1, <2>2, WorkerSteps DEF Timely, Behind
<1>2. Timely /\ [Next]_vars => [\A w \in written' \ written :
          w.by = "worker" => main \notin {"flush", "clear", "write", "close"}]_vars
  BY <1>1
<1>3. QED
  BY <1>2, TimelyHolds, PTL DEF Spec, NothingWritesBehindFlush

(***************************************************************************)
(* Every copy in one place.                                                *)
(***************************************************************************)

\* What a step can add to the queue: the block in hand, or the mark.
LEMMA QueueStep ==
  ASSUME Shape, [Next]_vars, NEW i \in DOMAIN work'
  PROVE  (\E j \in DOMAIN work : work'[i] = work[j]) \/ (Put /\ work'[i] = held) \/ work'[i] = StopMark(clock)
<1>q. QueueShape
  BY DEF Shape
<1>1. CASE Put
  <2>1. work' = Append(work, held) /\ held \in Blocks \cup Marks
    BY <1>1, BlockFacts DEF Put, Shape, MainShape
  <2>2. QED
    BY <1>1, <1>q, <2>1, QueueFacts
<1>2. CASE work' = Append(work, StopMark(clock))
  <2>1. StopMark(clock) \in Blocks \cup Marks
    BY DEF StopMark, Marks, Shape, Counters
  <2>2. QED
    BY <1>2, <1>q, <2>1, QueueFacts
<1>3. CASE work # <<>> /\ work' = Tail(work)
  BY <1>3, <1>q, QueueFacts
<1>4. CASE work' = work
  BY <1>4
<1>5. QED
  BY <1>1, <1>2, <1>3, <1>4, WorkerSteps DEF PutStop, Get

\* monitor_main numbers nothing: a block is the object it is; no two are one.
LEMMA IdentifiedKept ==
  ASSUME Shape, Identified, [Next]_vars
  PROVE  Identified'
<1>0. blocks \in Nat /\ clock \in Nat /\ \A c \in heard : c \in Blocks /\ c.id \in Nat \ {0}
  BY BlockFacts DEF Shape, Counters, LogShape
<1>1. \A c, d \in heard : c.id = d.id => c = d
  BY DEF Identified
<1>2. \A c \in heard : c.id <= blocks /\ c.msg # NoMsg
  BY DEF Identified
<1>3. Known(held) /\ Known(item) /\ \A i \in DOMAIN work : Known(work[i])
  BY DEF Identified
<1>4. /\ StopMark(clock).id = 0 /\ NoBlock.id = 0
      /\ \A j \in DOMAIN work : work[j].id \in Nat
      /\ held.id \in Nat /\ item.id \in Nat
  BY BlockFacts, QueueFacts DEF StopMark, Shape, MainShape, WorkerShape
<1>5. CASE Copy \/ Junk
  <2>1. PICK m \in Msg \cup {NoMsg}, n \in Nat : Receive(Block(m, n))
    BY <1>5 DEF Copy, Junk, Shape, Counters
  <2> DEFINE b == Block(m, n)
  <2>2. b.id = blocks + 1 /\ b.msg = m
    BY DEF Block
  <2> HIDE DEF b
  <2>3. held' = b /\ blocks' = blocks + 1 /\ heard' = (IF b.msg = NoMsg THEN heard ELSE heard \cup {b})
    BY <2>1 DEF Receive, b
  <2>4. work' = work /\ item' = item
    BY <2>1 DEF Receive, workerVars
  <2>5. \A k : k.id \in Nat /\ Known(k) => Known(k)'
    <3> SUFFICES ASSUME NEW k, k.id \in Nat, Known(k)
                 PROVE  /\ k.id <= blocks'
                        /\ k.id # 0 => (k \in heard' <=> k.msg # NoMsg)
                        /\ \A c \in heard' : c.id = k.id => c = k
      BY DEF Known
    <3>1. k # b /\ k.id # b.id
      BY <1>0, <2>2 DEF Known
    <3>2. QED
      BY <1>0, <2>2, <2>3, <3>1 DEF Known
  <2>6. Known(held)'
    <3>1. b.id <= blocks' /\ b \notin heard /\ \A c \in heard : c.id # b.id
      BY <1>0, <1>2, <2>2, <2>3
    <3>2. b \in heard' <=> b.msg # NoMsg
      BY <2>3, <3>1
    <3>3. \A c \in heard' : c.id = b.id => c = b
      BY <2>3, <3>1
    <3>4. QED
      BY <2>3, <3>1, <3>2, <3>3 DEF Known
  <2>7. Known(item)' /\ (\A i \in DOMAIN work : Known(work[i]))'
    BY <1>3, <1>4, <2>4, <2>5 DEF Known
  <2>8. /\ \A c, d \in heard' : c.id = d.id => c = d
        /\ \A c \in heard' : c.id <= blocks' /\ c.msg # NoMsg
    BY <1>0, <1>1, <1>2, <2>2, <2>3
  <2>9. QED
    BY <2>6, <2>7, <2>8 DEF Identified, Known
<1>6. CASE blocks' = blocks /\ heard' = heard
  <2>3. held' = held \/ held'.id = 0
    <3>1. ~Copy /\ ~Junk
      <4>1. Copy \/ Junk => blocks' = blocks + 1
        BY DEF Copy, Junk, Receive
      <4>2. QED
        BY <1>0, <1>6, <4>1
    <3>2. Put \/ Drop \/ Signal => held' = NoBlock
      BY DEF Put, Drop, Signal
    <3>3. QED
      BY <1>4, <3>1, <3>2, MainSteps
  <2>4. item' = item \/ item'.id = 0 \/ \E j \in DOMAIN work : item' = work[j]
    <3>1. CASE Get
      BY <3>1, QueueFacts DEF Get, Shape
    <3>2. QED
      BY <1>4, <3>1, WorkerSteps DEF Process
  <2>5. (\A i \in DOMAIN work : Known(work[i]))'
    <3> SUFFICES ASSUME NEW i \in DOMAIN work'
                 PROVE  /\ work'[i].id <= blocks'
                        /\ work'[i].id # 0 => (work'[i] \in heard' <=> work'[i].msg # NoMsg)
                        /\ \A c \in heard' : c.id = work'[i].id => c = work'[i]
      BY DEF Known
    <3>1. (\E j \in DOMAIN work : work'[i] = work[j]) \/ work'[i] = held \/ work'[i] = StopMark(clock)
      BY QueueStep
    <3>2. QED
      BY <1>0, <1>3, <1>4, <1>6, <3>1 DEF Known
  <2>6. QED
    <3>1. Known(held)'
      BY <1>0, <1>3, <1>6, <2>3 DEF Known
    <3>2. Known(item)'
      BY <1>0, <1>3, <1>6, <2>4 DEF Known
    <3>3. QED
      BY <1>1, <1>2, <1>6, <2>5, <3>1, <3>2 DEF Identified, Known
<1>7. QED
  BY <1>5, <1>6, MainSteps

\* Put and get move one number in and out of the queue.
LEMMA QueuedStep ==
  ASSUME Shape, Phases, CopyPlaces, [Next]_vars
  PROVE  /\ Put => Queued' = Queued \cup {held.id}
         /\ Get => Queued' = Queued \ {Head(work).id} /\ (Head(work).id # 0 => Head(work).id \in Queued)
         /\ ~Put /\ ~Get => Queued' = Queued
         /\ \A i, j \in DOMAIN work' : work'[i].id = work'[j].id => i = j
<1>q. QueueShape
  BY DEF Shape
<1>1. \A i, j \in DOMAIN work : work[i].id = work[j].id => i = j
  BY DEF CopyPlaces
<1>2. CASE Put
  <2>1. work' = Append(work, held) /\ held \in Blocks /\ held.id # 0 /\ main \in Before
    BY <1>2, BlockFacts DEF Put, Before, Shape, MainShape
  <2>2. \A i \in DOMAIN work : work[i].id # held.id
    <3>1. \A i \in DOMAIN work : work[i].id # 0
      BY <2>1 DEF Phases
    <3>2. held.id \notin Queued
      BY <2>1 DEF CopyPlaces, InHand
    <3>3. QED
      BY <3>1, <3>2 DEF Queued
  <2>3. /\ DOMAIN work' = 1..(Len(work) + 1) /\ DOMAIN work = 1..Len(work) /\ Len(work) \in Nat
        /\ work'[Len(work) + 1] = held /\ \A i \in 1..Len(work) : work'[i] = work[i]
    BY <1>q, <2>1, QueueFacts
  <2>4. \A i \in DOMAIN work' : i \in DOMAIN work \/ i = Len(work) + 1
    BY <2>3
  <2>5. Queued' = Queued \cup {held.id}
    <3>1. {work'[i].id : i \in DOMAIN work'} = {work[i].id : i \in DOMAIN work} \cup {held.id}
      BY <2>3, <2>4
    <3>2. QED
      BY <2>1, <3>1 DEF Queued
  <2>6. \A i, j \in DOMAIN work' : work'[i].id = work'[j].id => i = j
    BY <1>1, <2>2, <2>3, <2>4
  <2>7. QED
    BY <1>2, <2>5, <2>6 DEF Put, Get
<1>3. CASE Get
  <2>1. work # <<>> /\ work' = Tail(work)
    BY <1>3 DEF Get
  <2>2. /\ DOMAIN work' = 1..(Len(work) - 1) /\ DOMAIN work = 1..Len(work) /\ Len(work) \in Nat \ {0}
        /\ Head(work) = work[1] /\ \A i \in 1..(Len(work) - 1) : work'[i] = work[i + 1]
    BY <1>q, <2>1, QueueFacts
  <2>3. {work'[i].id : i \in DOMAIN work'} = {work[i].id : i \in DOMAIN work} \ {work[1].id}
    <3>1. ASSUME NEW i \in DOMAIN work' PROVE i + 1 \in DOMAIN work /\ work'[i].id = work[i + 1].id
      BY <2>2
    <3>2. ASSUME NEW j \in DOMAIN work, j # 1 PROVE j - 1 \in DOMAIN work' /\ work'[j - 1].id = work[j].id
      BY <2>2, <3>2
    <3>3. \A i \in DOMAIN work' : work[i + 1].id # work[1].id
      <4> TAKE i \in DOMAIN work'
      <4>1. i + 1 \in DOMAIN work /\ 1 \in DOMAIN work /\ i + 1 # 1
        BY <2>2
      <4>2. QED
        BY <1>1, <4>1
    <3>4. QED
      BY <3>1, <3>2, <3>3
  <2>4. 1 \in DOMAIN work
    BY <2>2
  <2>5. Queued' = Queued \ {Head(work).id} /\ (Head(work).id # 0 => Head(work).id \in Queued)
    BY <2>2, <2>3, <2>4 DEF Queued
  <2>6. \A i, j \in DOMAIN work' : work'[i].id = work'[j].id => i = j
    <3> TAKE i, j \in DOMAIN work'
    <3>1. i + 1 \in DOMAIN work /\ j + 1 \in DOMAIN work /\ i \in Int /\ j \in Int
      BY <2>2
    <3>2. work'[i] = work[i + 1] /\ work'[j] = work[j + 1]
      BY <2>2
    <3>3. HAVE work'[i].id = work'[j].id
    <3>4. i + 1 = j + 1
      BY <1>1, <3>1, <3>2, <3>3
    <3>5. QED
      BY <3>1, <3>4
  <2>7. ~Put
    <3>1. Put => Len(work') = Len(work) + 1
      BY <1>q, QueueFacts, BlockFacts DEF Put, Shape, MainShape
    <3>2. Len(work') = Len(work) - 1 /\ Len(work) \in Nat
      BY <1>q, <2>1, QueueFacts
    <3>3. QED
      BY <3>1, <3>2
  <2>8. QED
    BY <1>3, <2>5, <2>6, <2>7
<1>4. CASE work' = Append(work, StopMark(clock)) /\ PutStop
  <2>1. StopMark(clock) \in Blocks \cup Marks /\ StopMark(clock).id = 0
    BY DEF StopMark, Marks, Shape, Counters
  <2>2. /\ DOMAIN work' = 1..(Len(work) + 1) /\ DOMAIN work = 1..Len(work) /\ Len(work) \in Nat
        /\ work'[Len(work) + 1] = StopMark(clock) /\ \A i \in 1..Len(work) : work'[i] = work[i]
    BY <1>4, <1>q, <2>1, QueueFacts
  <2>3. \A i \in DOMAIN work' : i \in DOMAIN work \/ i = Len(work) + 1
    BY <2>2
  <2>4. Queued' = Queued
    BY <2>1, <2>2, <2>3 DEF Queued
  <2>5. \A i \in DOMAIN work : work[i].id # 0
    BY <1>4 DEF PutStop, Before, Phases
  <2>6. \A i, j \in DOMAIN work' : work'[i].id = work'[j].id => i = j
    BY <1>1, <2>1, <2>2, <2>3, <2>5
  <2>7. ~Put /\ ~Get
    BY <1>4 DEF PutStop, Put, Get, mainVars
  <2>8. QED
    BY <2>4, <2>6, <2>7
<1>5. CASE work' = work /\ ~Put /\ ~Get
  BY <1>1, <1>5 DEF Queued
<1>6. QED
  BY <1>2, <1>3, <1>4, <1>5, WorkerSteps DEF PutStop

\* Deduper.add and the branch without one put the copy into one record, r: the
\* one pending for its message, or a new one.
Joins(r) ==
    /\ DOMAIN recs' = DOMAIN recs \cup {r}
    /\ recs'[r] = (IF r \in DOMAIN recs THEN recs[r] ELSE {}) \cup {item.id}
    /\ \A q \in DOMAIN recs \ {r} : recs'[q] = recs[q]
    /\ r \in DOMAIN recs => opts.dedupe /\ pending[item.msg].rec = r
    /\ r \notin DOMAIN recs => r = Len(recs) + 1
    /\ IF opts.dedupe
       THEN /\ pending[item.msg].rec \in {0, r} /\ (pending[item.msg].rec = 0 => r \notin DOMAIN recs)
            /\ pending' = [pending EXCEPT ![item.msg] = [rec |-> r, last |-> item.ts]]
            /\ written' = written
       ELSE /\ pending' = pending
            /\ \/ written' = written \cup {[rec |-> r, copies |-> {item.id}, by |-> "worker"]}
               \/ WritesFail /\ written' = written

LEMMA FoldStep ==
  ASSUME Shape, Process, item.msg # NoMsg
  PROVE  item \in Blocks /\ item.msg \in Msg /\ \E r \in Nat \ {0} : Joins(r)
<1>1. item \in Blocks /\ item.msg \in Msg
  BY BlockFacts DEF Process, Shape, WorkerShape, Blocks
<1>2. Len(recs) \in Nat /\ DOMAIN recs = 1..Len(recs) /\ pending[item.msg].rec \in 0..Len(recs)
      /\ (pending[item.msg] = NoEntry <=> pending[item.msg].rec = 0)
  BY <1>1, EntryFacts, LenProperties DEF Shape, PendingShape
<1>3. CASE opts.dedupe /\ pending[item.msg] # NoEntry
  <2> DEFINE r == pending[item.msg].rec
  <2>1. recs' = [recs EXCEPT ![r] = @ \cup {item.id}]
        /\ pending' = [pending EXCEPT ![item.msg] = [rec |-> r, last |-> item.ts]] /\ written' = written
    BY <1>3 DEF Process, Add
  <2>2. r \in DOMAIN recs /\ r \in Nat \ {0}
    BY <1>2, <1>3
  <2> HIDE DEF r
  <2>3. DOMAIN recs' = DOMAIN recs /\ recs'[r] = recs[r] \cup {item.id} /\ \A q \in DOMAIN recs \ {r} : recs'[q] = recs[q]
    BY <2>1, <2>2
  <2>4. Joins(r)
    BY <1>3, <2>1, <2>2, <2>3, <1>2 DEF Joins, r
  <2>5. QED
    BY <1>1, <2>2, <2>4
<1>4. CASE ~opts.dedupe \/ pending[item.msg] = NoEntry
  <2> DEFINE r == Len(recs) + 1
  <2>1. recs' = Append(recs, {item.id})
        /\ IF opts.dedupe
           THEN pending' = [pending EXCEPT ![item.msg] = [rec |-> r, last |-> item.ts]] /\ written' = written
           ELSE /\ pending' = pending
                /\ \/ written' = written \cup {[rec |-> r, copies |-> {item.id}, by |-> "worker"]}
                   \/ WritesFail /\ written' = written
    BY <1>4 DEF Process, Add, WriteAtOnce
  <2>2. r \notin DOMAIN recs /\ r \in Nat \ {0} /\ 1..r = 1..Len(recs) \cup {r}
    BY <1>2
  <2>3. DOMAIN recs' = 1..r /\ recs'[r] = {item.id} /\ \A q \in DOMAIN recs : recs'[q] = recs[q]
    <3>1. {item.id} \in SUBSET (Nat \ {0})
      BY <1>1, BlockFacts
    <3>2. QED
      BY <1>2, <2>1, <3>1, AppendProperties DEF Shape, PendingShape
  <2>4. Joins(r)
    <3>1. DOMAIN recs' = DOMAIN recs \cup {r} /\ r = Len(recs) + 1
      BY <1>2, <2>2, <2>3
    <3> HIDE DEF r
    <3>2. QED
      BY <1>2, <1>4, <2>1, <2>2, <2>3, <3>1 DEF Joins
  <2>5. QED
    BY <1>1, <2>2, <2>4
<1>5. QED
  BY <1>3, <1>4

\* A step moves a copy on by one place: received, put, taken, folded, or
\* dropped.
LEMMA CopyPlacesKept ==
  ASSUME Shape, Phases, Identified, CopyPlaces, [Next]_vars
  PROVE  CopyPlaces'
<1>1. \A i, j \in DOMAIN work' : work'[i].id = work'[j].id => i = j
  BY QueuedStep
<1>2. /\ held.id # 0 => held.id # item.id
      /\ Queued \cap InHand = {}
      /\ (Queued \cup InHand) \cap Folded = {}
      /\ (Queued \cup InHand) \cap lost = {}
      /\ Folded \cap lost = {}
      /\ \A r, q \in DOMAIN recs : r # q => recs[r] \cap recs[q] = {}
      /\ Folded \subseteq 1..blocks
      /\ \A c \in heard : c.id \in Queued \cup InHand \cup Folded \cup lost
  BY DEF CopyPlaces
<1>3. lost \subseteq 1..blocks /\ blocks \in Nat /\ NoBlock.id = 0 /\ held.id \in Nat /\ item.id \in Nat
  BY BlockFacts DEF Shape, Counters, MainShape, WorkerShape, LogShape
<1>4. CASE Copy \/ Junk
  <2>1. PICK m \in Msg \cup {NoMsg}, n \in Nat : Receive(Block(m, n))
    BY <1>4 DEF Copy, Junk, Shape, Counters
  <2>2. /\ held'.id = blocks + 1 /\ blocks' = blocks + 1 /\ held.id = 0
        /\ \A c \in heard' : c \in heard \/ c.id = blocks + 1
    <3>1. Block(m, n).id = blocks + 1
      BY DEF Block
    <3>2. QED
      BY <2>1, <3>1 DEF Receive, Shape, MainShape
  <2>3. Queued' = Queued /\ item' = item /\ Folded' = Folded /\ recs' = recs /\ lost' = lost
    BY <2>1 DEF Receive, Queued, Folded, workerVars, dedupeVars
  <2>4. blocks + 1 \notin Queued \cup InHand \cup Folded \cup lost
    <3>1. item.id <= blocks /\ \A i \in DOMAIN work : work[i].id <= blocks
      BY DEF Identified, Known
    <3>2. QED
      BY <1>2, <1>3, <2>2, <3>1 DEF Queued, InHand
  <2>5. InHand' = InHand \cup {blocks + 1}
    BY <1>3, <2>2, <2>3 DEF InHand
  <2>6. Folded' \subseteq 1..blocks'
    BY <1>2, <1>3, <2>2, <2>3
  <2>7. held'.id # item'.id
    <3>1. item.id <= blocks
      BY DEF Identified, Known
    <3>2. QED
      BY <1>3, <2>2, <2>3, <3>1
  <2>8. QED
    BY <1>1, <1>2, <2>2, <2>3, <2>4, <2>5, <2>6, <2>7 DEF CopyPlaces
<1>5. CASE Put
  <2>1. held.id # 0 /\ held' = NoBlock
    BY <1>5 DEF Put, Shape, MainShape
  <2>2. item' = item /\ Folded' = Folded /\ recs' = recs /\ lost' = lost /\ heard' = heard /\ blocks' = blocks
    BY <1>5 DEF Put, Folded, workerVars, dedupeVars, logVars, envVars
  <2>3. Queued' = Queued \cup {held.id} /\ InHand' = InHand \ {held.id} /\ held.id \in InHand
    BY <1>2, <1>3, <1>5, <2>1, <2>2, QueuedStep DEF InHand
  <2>4. QED
    BY <1>1, <1>2, <1>3, <2>1, <2>2, <2>3 DEF CopyPlaces
<1>6. CASE Drop \/ Signal
  <2>1. item' = item /\ Folded' = Folded /\ recs' = recs /\ heard' = heard /\ blocks' = blocks
        /\ Queued' = Queued /\ held' = NoBlock
    BY <1>6 DEF Drop, Signal, Folded, Queued, workerVars, dedupeVars, envVars
  <2>2. CASE held.id = 0
    <3>1. lost' = lost
      BY <1>6, <2>2 DEF Drop, Signal, Shape, MainShape
    <3>2. InHand' = InHand
      BY <1>3, <2>1, <2>2 DEF InHand
    <3>3. QED
      BY <1>1, <1>2, <1>3, <2>1, <3>1, <3>2 DEF CopyPlaces
  <2>3. CASE held.id # 0
    <3>1. lost' = lost \cup {held.id}
      BY <1>6, <2>3 DEF Drop, Signal, Shape, MainShape
    <3>2. InHand' = InHand \ {held.id} /\ held.id \in InHand
      BY <1>2, <1>3, <2>1, <2>3 DEF InHand
    <3>3. (Queued' \cup InHand') \cap lost' = {} /\ Folded' \cap lost' = {}
      BY <1>2, <2>1, <3>1, <3>2
    <3>4. Queued' \cap InHand' = {} /\ (Queued' \cup InHand') \cap Folded' = {} /\ Folded' \subseteq 1..blocks'
      BY <1>2, <2>1, <3>2
    <3>5. \A c \in heard' : c.id \in Queued' \cup InHand' \cup Folded' \cup lost'
      BY <1>2, <2>1, <3>1, <3>2
    <3>6. held'.id = 0
      BY <1>3, <2>1
    <3>7. QED
      BY <1>1, <1>2, <2>1, <3>3, <3>4, <3>5, <3>6 DEF CopyPlaces
  <2>4. QED
    BY <2>2, <2>3
<1>7. CASE Get
  <2>1. held' = held /\ Folded' = Folded /\ recs' = recs /\ heard' = heard /\ blocks' = blocks /\ lost' = lost
    BY <1>7 DEF Get, mainVars, dedupeVars, logVars, envVars, Folded
  <2>2. item.id = 0
    BY <1>7 DEF Get, Shape, WorkerShape
  <2>3. CASE Head(work).id = 0
    <3>1. Queued' = Queued /\ item' = item
      BY <1>7, <2>3, QueuedStep DEF Get, Queued
    <3>2. InHand' = InHand
      BY <2>1, <3>1 DEF InHand
    <3>3. QED
      BY <1>1, <1>2, <2>1, <3>1, <3>2 DEF CopyPlaces
  <2>4. CASE Head(work).id # 0
    <3>1. item' = Head(work) /\ Head(work).id \in Queued /\ Queued' = Queued \ {Head(work).id}
      BY <1>7, <2>4, QueuedStep DEF Get
    <3>2. InHand' = InHand \cup {Head(work).id} /\ held.id # Head(work).id
      BY <1>2, <2>1, <2>2, <2>4, <3>1 DEF InHand
    <3>3. QED
      BY <1>1, <1>2, <2>1, <3>1, <3>2 DEF CopyPlaces
  <2>5. QED
    BY <2>3, <2>4
<1>8. CASE Process
  <2>1. item.id # 0 /\ item.id \in InHand /\ item' = NoBlock /\ held' = held /\ heard' = heard /\ lost' = lost
        /\ blocks' = blocks /\ Queued' = Queued
    BY <1>8 DEF Process, Shape, WorkerShape, InHand, mainVars, envVars, Queued
  <2>2. InHand' = InHand \ {item.id}
    BY <1>2, <1>3, <2>1 DEF InHand
  <2>3. CASE item.msg = NoMsg
    <3>1. recs' = recs /\ Folded' = Folded
      BY <1>8, <2>3 DEF Process, dedupeVars, Folded
    <3>2. \A c \in heard : c.id # item.id
      BY <2>1, <2>3 DEF Identified, Known
    <3>3. QED
      BY <1>1, <1>2, <1>3, <2>1, <2>2, <3>1, <3>2 DEF CopyPlaces
  <2>4. CASE item.msg # NoMsg
    <3>1. PICK r \in Nat \ {0} : Joins(r)
      BY <1>8, <2>4, FoldStep
    <3>2. DOMAIN recs' = DOMAIN recs \cup {r} /\ \A q \in DOMAIN recs \ {r} : recs'[q] = recs[q]
      BY <3>1 DEF Joins
    <3>3. recs'[r] = (IF r \in DOMAIN recs THEN recs[r] ELSE {}) \cup {item.id}
      BY <3>1 DEF Joins
    <3>4. Folded' = Folded \cup {item.id}
      BY <3>2, <3>3 DEF Folded
    <3>5. \A q \in DOMAIN recs : item.id \notin recs[q]
      BY <1>2, <2>1 DEF Folded
    <3>6. \A q, s \in DOMAIN recs' : q # s => recs'[q] \cap recs'[s] = {}
      BY <1>2, <3>2, <3>3, <3>5
    <3>7. item.id \in 1..blocks
      BY <1>3, <2>1 DEF Identified, Known
    <3>8. (Queued' \cup InHand') \cap lost' = {} /\ Folded' \cap lost' = {}
      BY <1>2, <2>1, <2>2, <3>4
    <3>9. Queued' \cap InHand' = {} /\ (Queued' \cup InHand') \cap Folded' = {} /\ Folded' \subseteq 1..blocks'
      BY <1>2, <2>1, <2>2, <3>4, <3>7
    <3>10. \A c \in heard' : c.id \in Queued' \cup InHand' \cup Folded' \cup lost'
      BY <1>2, <2>1, <2>2, <3>4
    <3>11. item'.id = 0
      BY <1>3, <2>1
    <3>12. QED
      BY <1>1, <2>1, <3>6, <3>8, <3>9, <3>10, <3>11 DEF CopyPlaces
  <2>5. QED
    BY <2>3, <2>4
<1>9. CASE UNCHANGED <<held, item, recs, heard, lost, blocks>> /\ Queued' = Queued
  <2>1. InHand' = InHand /\ Folded' = Folded
    BY <1>9 DEF InHand, Folded
  <2>2. QED
    BY <1>1, <1>2, <1>9, <2>1 DEF CopyPlaces
<1>10. QED
  BY <1>4, <1>5, <1>6, <1>7, <1>8, <1>9, MainSteps, WorkerSteps, QueuedStep

(***************************************************************************)
(* Every record in one place.                                              *)
(***************************************************************************)

\* A list with no record twice stays one when a new record joins it and when
\* the first is taken.
LEMMA ListFacts ==
  ASSUME NEW q \in Seq(Nat \ {0}), IsInjective(q), NEW e \in Nat \ {0}
  PROVE  /\ Range(Append(q, e)) = Range(q) \cup {e}
         /\ e \notin Range(q) => IsInjective(Append(q, e))
         /\ q # <<>> => /\ Head(q) \in Range(q) /\ Range(Tail(q)) = Range(q) \ {Head(q)}
                        /\ IsInjective(Tail(q))
         /\ q = <<>> <=> Range(q) = {}
<1>0. Len(q) \in Nat /\ DOMAIN q = 1..Len(q) /\ (q = <<>> <=> Len(q) = 0)
  BY LenProperties, EmptySeq
<1>i. \A i, j \in 1..Len(q) : q[i] = q[j] => i = j
  BY <1>0 DEF IsInjective
<1>1. /\ DOMAIN Append(q, e) = 1..(Len(q) + 1) /\ Append(q, e)[Len(q) + 1] = e
      /\ \A i \in 1..Len(q) : Append(q, e)[i] = q[i]
  BY AppendProperties
<1>2. \A i \in 1..(Len(q) + 1) : i \in 1..Len(q) \/ i = Len(q) + 1
  BY <1>0
<1>3. Range(Append(q, e)) = Range(q) \cup {e}
  BY <1>0, <1>1, <1>2 DEF Range
<1>4. ASSUME e \notin Range(q) PROVE IsInjective(Append(q, e))
  <2>1. \A i \in 1..Len(q) : q[i] # e
    BY <1>0, <1>4 DEF Range
  <2>2. QED
    BY <1>1, <1>2, <1>i, <2>1 DEF IsInjective
<1>5. ASSUME q # <<>>
      PROVE  /\ Head(q) \in Range(q) /\ Range(Tail(q)) = Range(q) \ {Head(q)}
             /\ IsInjective(Tail(q))
  <2>1. /\ Head(q) = q[1] /\ DOMAIN Tail(q) = 1..(Len(q) - 1) /\ 1 \in 1..Len(q)
        /\ \A i \in 1..(Len(q) - 1) : Tail(q)[i] = q[i + 1]
    BY <1>0, <1>5, HeadTailProperties
  <2>2. \A i \in 1..(Len(q) - 1) : i + 1 \in 1..Len(q) /\ i + 1 # 1 /\ i \in Int
    BY <1>0
  <2>3. \A j \in 1..Len(q) : j # 1 => j - 1 \in 1..(Len(q) - 1) /\ Tail(q)[j - 1] = q[j]
    BY <1>0, <2>1
  <2>4. Range(Tail(q)) = Range(q) \ {q[1]}
    <3>1. \A x \in Range(Tail(q)) : x \in Range(q) /\ x # q[1]
      BY <1>0, <1>i, <2>1, <2>2 DEF Range
    <3>2. \A x \in Range(q) : x # q[1] => x \in Range(Tail(q))
      <4>1. ASSUME NEW j \in 1..Len(q), j # 1 PROVE q[j] \in Range(Tail(q))
        BY <2>1, <2>3, <4>1 DEF Range
      <4>2. QED
        BY <1>0, <4>1 DEF Range
    <3>3. QED
      BY <3>1, <3>2
  <2>5. IsInjective(Tail(q))
    <3>1. \A i, j \in 1..(Len(q) - 1) : i + 1 = j + 1 => i = j
      OBVIOUS
    <3>2. QED
      BY <1>i, <2>1, <2>2, <3>1 DEF IsInjective
  <2>6. Head(q) \in Range(q)
    BY <1>0, <2>1 DEF Range
  <2>7. QED
    BY <2>1, <2>4, <2>5, <2>6
<1>6. q = <<>> <=> Range(q) = {}
  <2>1. q # <<>> => 1 \in DOMAIN q
    BY <1>0
  <2>2. q # <<>> => q[1] \in Range(q)
    BY <2>1 DEF Range
  <2>3. q = <<>> => DOMAIN q = {}
    OBVIOUS
  <2>4. QED
    BY <2>2, <2>3 DEF Range
<1>7. QED
  BY <1>3, <1>4, <1>5, <1>6

\* Writing a record puts its number among the logged ones.
LEMMA LogAdds ==
  ASSUME NEW r, NEW c, NEW b, written' = written \cup {[rec |-> r, copies |-> c, by |-> b]}
  PROVE  Logs' = Logs \cup {r}
<1> DEFINE w == [rec |-> r, copies |-> c, by |-> b]
<1>1. w.rec = r
  OBVIOUS
<1> HIDE DEF w
<1>2. written' = written \cup {w}
  BY DEF w
<1>3. \A x : x \in {v.rec : v \in written \cup {w}} <=> x \in {v.rec : v \in written} \/ x = w.rec
  OBVIOUS
<1>4. QED
  BY <1>1, <1>2, <1>3 DEF Logs

\* A step moves a record on by one place: pending, handed over by the worker or
\* listed by flush(), and in the log.
LEMMA RecordPlacesKept ==
  ASSUME Shape, Phases, Timely, RecordPlaces, [Next]_vars
  PROVE  RecordPlaces'
<1> DEFINE P == PendingRecs
           D == DOMAIN recs
<1>i. IsInjective(out) /\ IsInjective(listed)
  BY DEF RecordPlaces
<1>w. /\ \A w, v \in written : w.rec = v.rec => w = v
      /\ \A w \in written : w.copies = recs[w.rec]
  BY DEF RecordPlaces
<1>p. /\ P \cup Outs \cup Listed \cup Logs \subseteq D
      /\ P \cap (Outs \cup Logs) = {} /\ Outs \cap (Listed \cup Logs) = {} /\ Listed \cap Logs = {}
  BY DEF RecordPlaces
<1>m. /\ main \notin {"clear", "aborted"} => Listed \cap P = {}
      /\ main = "clear" => Listed = P
      /\ main \in {"write", "close", "exit"} => P = {}
  BY DEF RecordPlaces
<1>d. worker = "delete" => \A e \in popping : pending[e.msg].rec = e.rec
  BY DEF RecordPlaces
<1>b. main \in Behind => worker \in Stopped
  BY DEF Timely
<1>q. out \in Seq(Nat \ {0}) /\ listed \in Seq(Nat \ {0}) /\ popping \subseteq [msg : Msg, rec : Nat \ {0}]
  BY DEF Shape, MainShape, WorkerShape
<1>e. /\ main \notin {"clear", "write", "aborted"} => listed = <<>>
      /\ worker \notin {"delete", "emit", "dead"} => out = <<>>
      /\ Range(<<>>) = {}
  BY DEF Phases, Range
<1>x. \A m \in Msg : pending[m].rec \in Nat /\ (pending[m] = NoEntry <=> pending[m].rec = 0)
  BY EntryFacts DEF Shape
<1>y. P = {pending[m].rec : m \in Msg} \ {0}
  BY EntryFacts DEF Shape
<1>z. PendingRecs' = {pending'[m].rec : m \in Msg} \ {0}
  <2>1. \A e \in Entries \cup {NoEntry} : e = NoEntry <=> e.rec = 0
    BY DEF Entries, NoEntry
  <2>2. \A m \in Msg : pending'[m] = NoEntry <=> pending'[m].rec = 0
    BY <2>1, ShapeKept DEF Shape, PendingShape
  <2>3. QED
    BY <2>2 DEF PendingRecs, Present
<1>0. \A m \in Msg : pending[m].rec # 0 => pending[m].rec \in P
  BY <1>y
<1> HIDE DEF P, D
<1>1. CASE FlushList
  <2>1. Range(listed') = P /\ IsInjective(listed') /\ main = "flush" /\ main' = "clear"
    BY <1>1, FlushLists DEF Shape, FlushList, P
  <2>2. worker' = worker /\ out' = out /\ popping' = popping /\ pending' = pending /\ recs' = recs
        /\ written' = written
    BY <1>1 DEF FlushList, workerVars, dedupeVars, logVars
  <2>3. PendingRecs' = P /\ Outs' = Outs /\ Logs' = Logs /\ Listed' = P /\ DOMAIN recs' = D
    BY <1>y, <1>z, <2>1, <2>2 DEF Outs, Listed, Logs, D
  <2>4. worker' # "delete"
    BY <1>b, <2>1, <2>2 DEF Behind, Stopped
  <2>5. QED
    BY <1>i, <1>w, <1>p, <2>1, <2>2, <2>3, <2>4 DEF RecordPlaces
<1>2. CASE FlushClear
  <2>1. main = "clear" /\ main' = "write" /\ pending' = [m \in Msg |-> NoEntry]
    BY <1>2 DEF FlushClear
  <2>2. worker' = worker /\ out' = out /\ popping' = popping /\ listed' = listed /\ recs' = recs
        /\ written' = written
    BY <1>2 DEF FlushClear, workerVars, logVars
  <2>3. PendingRecs' = {}
    BY <1>z, <2>1 DEF NoEntry
  <2>4. Outs' = Outs /\ Logs' = Logs /\ Listed' = Listed /\ DOMAIN recs' = D
    BY <2>2 DEF Outs, Listed, Logs, D
  <2>5. worker' # "delete"
    BY <1>b, <2>1, <2>2 DEF Behind, Stopped
  <2>6. QED
    BY <1>i, <1>w, <1>p, <2>1, <2>2, <2>3, <2>4, <2>5 DEF RecordPlaces
<1>3. CASE FinalWrite
  <2> DEFINE h == Head(listed)
  <2>1. main = "write" /\ main' \in {"write", "aborted"} /\ listed # <<>> /\ listed' = Tail(listed)
        /\ \/ written' = written \cup {[rec |-> h, copies |-> recs[h], by |-> "main"]}
           \/ written' = written
    BY <1>3 DEF FinalWrite, Logged
  <2>2. worker' = worker /\ out' = out /\ popping' = popping /\ pending' = pending /\ recs' = recs
    BY <1>3 DEF FinalWrite, workerVars, dedupeVars
  <2>3. h \in Listed /\ Listed' = Listed \ {h} /\ IsInjective(listed')
    BY <1>i, <1>q, <2>1, ListFacts DEF Listed
  <2> HIDE DEF h
  <2>4. PendingRecs' = P /\ P = {} /\ Outs' = Outs /\ DOMAIN recs' = D
    BY <1>m, <1>y, <1>z, <2>1, <2>2 DEF Outs, D
  <2>5. Logs' = Logs \cup {h} \/ Logs' = Logs
    BY <2>1 DEF Logs
  <2>6. h \notin Logs /\ h \notin Outs /\ h \in D
    BY <1>p, <2>3
  <2>7. /\ \A w, v \in written' : w.rec = v.rec => w = v
        /\ \A w \in written' : w.copies = recs'[w.rec]
    <3>1. \A w \in written : w.rec # h
      BY <2>6 DEF Logs
    <3>2. QED
      BY <1>w, <2>1, <2>2, <3>1
  <2>8. worker' # "delete"
    BY <1>b, <2>1, <2>2 DEF Behind, Stopped
  <2>9. /\ PendingRecs' \cup Outs' \cup Listed' \cup Logs' \subseteq DOMAIN recs'
        /\ Outs' \cap (Listed' \cup Logs') = {} /\ Listed' \cap Logs' = {}
    BY <1>p, <2>3, <2>4, <2>5, <2>6
  <2>10. QED
    BY <1>i, <2>1, <2>2, <2>3, <2>4, <2>7, <2>8, <2>9 DEF RecordPlaces
<1>4. ASSUME Process \/ Snapshot \/ Delete \/ Emit, Work
      PROVE  main' = main /\ main \notin Behind \cup {"aborted"} /\ Listed = {} /\ Listed' = {}
             /\ IsInjective(listed')
  <2>1. main' = main /\ listed' = listed
    BY <1>4 DEF Process, Snapshot, Delete, Emit, mainVars
  <2>2. worker \notin Stopped /\ main \notin Gone
    BY <1>4 DEF Process, Snapshot, Delete, Emit, Stopped, Work
  <2>3. QED
    BY <1>b, <1>e, <1>i, <2>1, <2>2 DEF Behind, Gone, Listed
<1>5. CASE Process /\ Work
  <2>1. out' = out /\ popping' = popping /\ worker' # "delete" /\ worker = "process"
    BY <1>5 DEF Process, AfterBlock
  <2>2. Outs = {} /\ Outs' = {}
    BY <1>e, <2>1 DEF Outs
  <2>3. CASE item.msg = NoMsg
    <3>1. pending' = pending /\ recs' = recs /\ written' = written
      BY <1>5, <2>3 DEF Process, dedupeVars
    <3>2. PendingRecs' = P /\ Logs' = Logs /\ DOMAIN recs' = D
      BY <1>y, <1>z, <3>1 DEF Logs, D
    <3>3. QED
      BY <1>4, <1>5, <1>i, <1>w, <1>p, <2>1, <2>2, <3>1, <3>2 DEF RecordPlaces, Behind
  <2>4. CASE item.msg # NoMsg
    <3>1. PICK r \in Nat \ {0} : Joins(r)
      BY <1>5, <2>4, FoldStep
    <3>2. item.msg \in Msg
      BY <1>5, <2>4, FoldStep
    <3>3. DOMAIN recs' = D \cup {r} /\ \A s \in D \ {r} : recs'[s] = recs[s]
      BY <3>1 DEF Joins, D
    <3>4. r \notin Logs
      <4>1. r \in D => r \in P
        BY <1>0, <3>1, <3>2 DEF Joins, D
      <4>2. QED
        BY <1>p, <4>1
    <3>5. CASE opts.dedupe
      <4>1. /\ pending' = [pending EXCEPT ![item.msg] = [rec |-> r, last |-> item.ts]]
            /\ written' = written /\ pending[item.msg].rec \in {0, r}
        BY <3>1, <3>5 DEF Joins
      <4>2. PendingRecs' = P \cup {r}
        <5>0. pending \in [Msg -> Entries \cup {NoEntry}]
          BY DEF Shape, PendingShape
        <5>1. pending'[item.msg].rec = r /\ \A m \in Msg \ {item.msg} : pending'[m] = pending[m]
          BY <3>2, <4>1, <5>0
        <5>2. \A m \in Msg : pending'[m].rec \in P \cup {r, 0}
          BY <1>0, <5>1
        <5>3. \A m \in Msg : pending[m].rec \in {pending'[k].rec : k \in Msg} \cup {0, r}
          BY <3>2, <4>1, <5>1
        <5>4. QED
          BY <1>y, <1>z, <3>2, <5>1, <5>2, <5>3
      <4>3. \A w \in written : w.rec # r /\ w.rec \in D
        BY <1>p, <3>4 DEF Logs
      <4>4. Logs' = Logs /\ \A w \in written' : w.copies = recs'[w.rec]
        BY <1>w, <3>3, <4>1, <4>3 DEF Logs
      <4>5. QED
        BY <1>4, <1>5, <1>i, <1>w, <1>p, <2>1, <2>2, <3>3, <3>4, <4>1, <4>2, <4>4 DEF RecordPlaces, Behind
    <3>6. CASE ~opts.dedupe
      <4>1. /\ pending' = pending /\ r \notin D
            /\ \/ written' = written \cup {[rec |-> r, copies |-> {item.id}, by |-> "worker"]}
               \/ written' = written
            /\ recs'[r] = {item.id}
        BY <3>1, <3>6 DEF Joins, D
      <4>2. PendingRecs' = P /\ r \notin P /\ Logs' \subseteq Logs \cup {r}
        BY <1>p, <1>y, <1>z, <4>1 DEF Logs
      <4>3. \A w \in written : w.rec # r /\ w.rec \in D
        BY <1>p, <3>4 DEF Logs
      <4>4. /\ \A w, v \in written' : w.rec = v.rec => w = v
            /\ \A w \in written' : w.copies = recs'[w.rec]
        <5>1. \A w \in written : w.copies = recs'[w.rec]
          BY <1>w, <3>3, <4>3
        <5>2. \A w \in written' : w \in written \/ (w.rec = r /\ w.copies = recs'[w.rec])
          BY <4>1
        <5>3. \A w, v \in written' : w.rec = r /\ v.rec = r => w = v
          BY <4>1, <4>3
        <5>4. QED
          BY <1>w, <4>3, <5>1, <5>2, <5>3
      <4>5. QED
        BY <1>4, <1>5, <1>i, <1>p, <2>1, <2>2, <3>3, <3>4, <4>1, <4>2, <4>4 DEF RecordPlaces, Behind
    <3>7. QED
      BY <3>5, <3>6
  <2>5. QED
    BY <2>3, <2>4
<1>6. CASE Snapshot /\ Work
  <2>1. /\ popping' = {[msg |-> m, rec |-> pending[m].rec] : m \in {k \in Msg : Ready(pending[k])}}
        /\ out' = <<>> /\ pending' = pending /\ recs' = recs /\ written' = written
    BY <1>6 DEF Snapshot, dedupeVars, logVars
  <2>2. PendingRecs' = P /\ Logs' = Logs /\ DOMAIN recs' = D /\ Outs' = {} /\ IsInjective(out')
    BY <1>y, <1>z, <1>e, <2>1 DEF Outs, Logs, D, IsInjective
  <2>3. \A e \in popping' : pending'[e.msg].rec = e.rec
    BY <2>1
  <2>4. QED
    BY <1>4, <1>6, <1>w, <1>p, <2>1, <2>2, <2>3 DEF RecordPlaces, Behind
<1>7. CASE Delete /\ Work
  <2>1. PICK e \in popping : /\ popping' = popping \ {e}
                             /\ IF pending[e.msg] = NoEntry
                                THEN worker' = "dead" /\ UNCHANGED <<out, pending>>
                                ELSE /\ out' = Append(out, e.rec)
                                     /\ pending' = [pending EXCEPT ![e.msg] = NoEntry]
                                     /\ UNCHANGED worker
    BY <1>7 DEF Delete
  <2>2. worker = "delete" /\ recs' = recs /\ written' = written
    BY <1>7 DEF Delete, logVars
  <2>3. e.msg \in Msg /\ e.rec \in Nat \ {0} /\ pending[e.msg].rec = e.rec /\ e.rec \in P
    BY <1>0, <1>d, <1>q, <2>2
  <2>4. out' = Append(out, e.rec) /\ pending' = [pending EXCEPT ![e.msg] = NoEntry]
    BY <1>x, <2>1, <2>3
  <2>5. pending'[e.msg].rec = 0 /\ \A m \in Msg \ {e.msg} : pending'[m] = pending[m]
    <3>1. pending \in [Msg -> Entries \cup {NoEntry}]
      BY DEF Shape, PendingShape
    <3>2. QED
      BY <2>3, <2>4, <3>1 DEF NoEntry
  <2>6. PendingRecs' = P \ {e.rec}
    <3>1. \A m \in Msg \ {e.msg} : pending[m].rec # e.rec
      BY <2>3 DEF Shape, PendingShape
    <3>2. \A m \in Msg : pending'[m].rec \in (P \ {e.rec}) \cup {0}
      BY <1>0, <2>5, <3>1
    <3>3. \A m \in Msg : pending[m].rec # e.rec => pending'[m].rec = pending[m].rec
      BY <2>3, <2>5
    <3>4. QED
      BY <1>y, <1>z, <3>2, <3>3
  <2>7. Outs' = Outs \cup {e.rec} /\ IsInjective(out')
    <3>1. e.rec \notin Outs
      BY <1>p, <2>3
    <3>2. QED
      BY <1>i, <1>q, <2>3, <2>4, <3>1, ListFacts DEF Outs
  <2>8. \A f \in popping' : pending'[f.msg].rec = f.rec
    <3>1. TAKE f \in popping'
    <3>2. f \in popping /\ f # e /\ pending[f.msg].rec = f.rec /\ f.msg \in Msg
      BY <1>d, <1>q, <2>1, <2>2
    <3>3. f.msg # e.msg
      <4>1. e \in [msg : Msg, rec : Nat \ {0}] /\ f \in [msg : Msg, rec : Nat \ {0}]
        BY <1>q, <3>2
      <4>2. f.msg = e.msg => f.rec = e.rec
        BY <2>3, <3>2
      <4>3. f.msg = e.msg /\ f.rec = e.rec => f = e
        BY <4>1
      <4>4. QED
        BY <3>2, <4>2, <4>3
    <3>4. QED
      BY <2>5, <3>2, <3>3
  <2>9. Logs' = Logs /\ DOMAIN recs' = D
    BY <2>2 DEF Logs, D
  <2>10. /\ PendingRecs' \cup Outs' \cup Logs' \subseteq DOMAIN recs'
         /\ PendingRecs' \cap (Outs' \cup Logs') = {} /\ Outs' \cap Logs' = {}
    BY <1>p, <2>3, <2>6, <2>7, <2>9
  <2>11. QED
    BY <1>4, <1>7, <1>w, <2>2, <2>7, <2>8, <2>10 DEF RecordPlaces, Behind
<1>8. CASE Emit /\ Work
  <2> DEFINE h == Head(out)
  <2>1. /\ out # <<>>
        /\ \/ /\ written' = written \cup {[rec |-> h, copies |-> recs[h], by |-> "worker"]}
              /\ out' = Tail(out)
           \/ out' = <<>> /\ written' = written
        /\ worker' \in {"emit", "dead"} /\ popping' = popping /\ pending' = pending /\ recs' = recs
    BY <1>8 DEF Emit, Logged, dedupeVars
  <2>2. h \in Outs /\ Range(Tail(out)) = Outs \ {h} /\ IsInjective(Tail(out)) /\ IsInjective(<<>>)
    BY <1>i, <1>q, <2>1, ListFacts DEF Outs, IsInjective
  <2> HIDE DEF h
  <2>3. PendingRecs' = P /\ DOMAIN recs' = D
    BY <1>y, <1>z, <2>1 DEF D
  <2>4. \/ Outs' = Outs \ {h} /\ Logs' = Logs \cup {h}
        \/ Outs' = {} /\ Logs' = Logs
    <3>1. CASE out' = Tail(out) /\ written' = written \cup {[rec |-> h, copies |-> recs[h], by |-> "worker"]}
      <4>1. Outs' = Outs \ {h}
        BY <2>2, <3>1 DEF Outs
      <4>2. Logs' = Logs \cup {h}
        BY <3>1, LogAdds
      <4>3. QED
        BY <4>1, <4>2
    <3>2. CASE out' = <<>> /\ written' = written
      BY <1>e, <3>2 DEF Outs, Logs
    <3>3. QED
      BY <2>1, <3>1, <3>2
  <2>5. IsInjective(out')
    BY <2>1, <2>2
  <2>6. h \notin Logs /\ h \notin P /\ h \in D
    BY <1>p, <2>2
  <2>7. /\ \A w, v \in written' : w.rec = v.rec => w = v
        /\ \A w \in written' : w.copies = recs'[w.rec]
    <3>1. \A w \in written : w.rec # h
      BY <2>6 DEF Logs
    <3>2. QED
      BY <1>w, <2>1, <3>1
  <2>8. /\ PendingRecs' \cup Outs' \cup Logs' \subseteq DOMAIN recs'
        /\ PendingRecs' \cap (Outs' \cup Logs') = {} /\ Outs' \cap Logs' = {}
    BY <1>p, <2>3, <2>4, <2>6
  <2>9. QED
    BY <1>4, <1>8, <2>1, <2>5, <2>7, <2>8 DEF RecordPlaces, Behind
<1>9. CASE /\ ~FlushList /\ ~FlushClear /\ ~Snapshot
           /\ UNCHANGED <<listed, out, popping, pending, recs, written>>
  <2>1. PendingRecs' = P /\ Outs' = Outs /\ Listed' = Listed /\ Logs' = Logs /\ DOMAIN recs' = D
    BY <1>9, <1>y, <1>z DEF Outs, Listed, Logs, D
  <2>2. worker' = "delete" => worker = "delete"
    BY <1>9, WorkerSteps DEF Work, Get, Idle, AfterIdle, Process, AfterBlock, Delete, DeleteDone, Emit, EmitDone
  <2>3. \/ main' = main \/ Joined \/ Close \/ main' = "aborted"
        \/ main \notin {"clear", "aborted"} /\ main' \notin {"clear", "write", "close", "exit"}
    <3>1. Copy \/ Junk => main = "receive" /\ main' = "put"
      BY DEF Copy, Junk, Receive
    <3>2. Put \/ Drop => main = "put" /\ main' = "receive"
      BY DEF Put, Drop
    <3>3. LeaveLoop \/ RadioFails => main = "receive" /\ main' = "stop"
      BY DEF LeaveLoop, RadioFails, EnterFinally
    <3>4. Signal => main \in {"receive", "put"} /\ (main' = "stop" \/ main' = main)
      BY DEF Signal, EnterFinally
    <3>5. PutStop => main = "stop" /\ main' = "join"
      BY DEF PutStop
    <3>6. SignalAgain \/ FlushBreaks => main' = "aborted"
      BY DEF SignalAgain, FlushBreaks
    <3>7. FinalWrite => main' = main \/ main' = "aborted"
      BY DEF FinalWrite
    <3>8. QED
      BY <1>9, <3>1, <3>2, <3>3, <3>4, <3>5, <3>6, <3>7, MainSteps DEF Shutdown
  <2>4. Joined => main = "join" /\ main' \in {"flush", "close"} /\ (main' = "close" => ~opts.dedupe)
    BY DEF Joined
  <2>5. ~opts.dedupe => P = {}
    BY DEF Phases, PendingRecs, P
  <2>6. Close => main \in {"write", "close"} /\ main' = "exit"
    BY DEF Close
  <2>7. /\ main' \notin {"clear", "aborted"} => Listed \cap P = {}
        /\ main' = "clear" => Listed = P
        /\ main' \in {"write", "close", "exit"} => P = {}
    BY <1>m, <2>3, <2>4, <2>5, <2>6
  <2>8. QED
    BY <1>9, <1>i, <1>w, <1>p, <1>d, <2>1, <2>2, <2>7 DEF RecordPlaces
<1>10. QED
  <2>1. CASE FlushList \/ FlushClear \/ FinalWrite
    BY <1>1, <1>2, <1>3, <2>1
  <2>2. CASE Work /\ ~(FlushList \/ FlushClear \/ FinalWrite)
    <3>1. Get \/ Idle \/ DeleteDone \/ EmitDone =>
             ~Snapshot /\ UNCHANGED <<listed, out, popping, pending, recs, written>>
      BY DEF Get, Idle, DeleteDone, EmitDone, Snapshot, mainVars, dedupeVars, logVars
    <3>2. QED
      BY <1>5, <1>6, <1>7, <1>8, <1>9, <2>2, <3>1 DEF Work
  <2>3. CASE ~Work /\ ~(FlushList \/ FlushClear \/ FinalWrite)
    <3>1. UNCHANGED <<listed, out, popping, pending, recs, written>> /\ worker' = worker
      BY <2>3, MainSteps, WorkerSteps DEF workerVars
    <3>2. ~Snapshot
      BY <3>1 DEF Snapshot
    <3>3. QED
      BY <1>9, <2>3, <3>1, <3>2
  <2>4. QED
    BY <2>1, <2>2, <2>3

\* A lossless radio waits for room, so only a signal drops a block.
LEMMA ReplaysKept ==
  ASSUME Shape, Replays, [Next]_vars
  PROVE  Replays'
<1>1. signals \in Nat /\ opts' = opts
  BY MainSteps DEF Shape, Counters
<1>2. Signal => signals' = signals + 1
  BY DEF Signal
<1>3. SignalAgain => signals' = signals + 1
  BY DEF SignalAgain
<1>4. Drop => ~opts.lossless
  BY DEF Drop
<1>5. QED
  BY <1>1, <1>2, <1>3, <1>4, MainSteps DEF Replays

\* A record leaves a place only for the next, when writes succeed; and the
\* worker does not find its entry gone.
LEMMA NothingLostKept ==
  ASSUME Shape, Phases, Timely, RecordPlaces, NothingLost, [Next]_vars
  PROVE  NothingLost'
<1> DEFINE P == PendingRecs
           D == DOMAIN recs
<1>n. ~WritesFail /\ worker # "dead" /\ D \subseteq P \cup Outs \cup Listed \cup Logs
  BY DEF NothingLost, LogWorks
<1>i. IsInjective(out) /\ IsInjective(listed)
  BY DEF RecordPlaces
<1>d. worker = "delete" => \A e \in popping : pending[e.msg].rec = e.rec
  BY DEF RecordPlaces
<1>b. main \in Behind => worker \in Stopped
  BY DEF Timely
<1>q. out \in Seq(Nat \ {0}) /\ listed \in Seq(Nat \ {0}) /\ popping \subseteq [msg : Msg, rec : Nat \ {0}]
  BY DEF Shape, MainShape, WorkerShape
<1>e. /\ main \notin {"clear", "write", "aborted"} => listed = <<>>
      /\ worker \notin {"delete", "emit", "dead"} => out = <<>>
      /\ Range(<<>>) = {}
  BY DEF Phases, Range
<1>x. \A m \in Msg : pending[m].rec \in Nat /\ (pending[m] = NoEntry <=> pending[m].rec = 0)
  BY EntryFacts DEF Shape
<1>y. P = {pending[m].rec : m \in Msg} \ {0}
  BY EntryFacts DEF Shape
<1>z. PendingRecs' = {pending'[m].rec : m \in Msg} \ {0}
  <2>1. \A e \in Entries \cup {NoEntry} : e = NoEntry <=> e.rec = 0
    BY DEF Entries, NoEntry
  <2>2. \A m \in Msg : pending'[m] = NoEntry <=> pending'[m].rec = 0
    BY <2>1, ShapeKept DEF Shape, PendingShape
  <2>3. QED
    BY <2>2 DEF PendingRecs, Present
<1>c. main = "clear" => Listed = P
  BY DEF RecordPlaces
<1> HIDE DEF P, D
<1>1. CASE FlushList
  <2>1. Range(listed') = P /\ main = "flush"
    BY <1>1, FlushLists DEF Shape, FlushList, P
  <2>2. worker' = worker /\ out' = out /\ pending' = pending /\ recs' = recs /\ written' = written
    BY <1>1 DEF FlushList, workerVars, dedupeVars, logVars
  <2>3. PendingRecs' = P /\ Outs' = Outs /\ Logs' = Logs /\ Listed' = P /\ DOMAIN recs' = D /\ Listed = {}
    BY <1>e, <1>y, <1>z, <2>1, <2>2 DEF Outs, Listed, Logs, D
  <2>4. QED
    BY <1>n, <2>2, <2>3 DEF NothingLost, LogWorks
<1>2. CASE FlushClear
  <2>1. main = "clear" /\ worker' = worker /\ out' = out /\ listed' = listed /\ recs' = recs /\ written' = written
    BY <1>2 DEF FlushClear, workerVars, logVars
  <2>2. Outs' = Outs /\ Logs' = Logs /\ Listed' = Listed /\ DOMAIN recs' = D
    BY <2>1 DEF Outs, Listed, Logs, D
  <2>3. QED
    BY <1>n, <1>c, <2>1, <2>2 DEF NothingLost, LogWorks
<1>3. CASE FinalWrite
  <2>1. /\ listed # <<>> /\ listed' = Tail(listed)
        /\ written' = written \cup {Logged(Head(listed), "main")}
        /\ worker' = worker /\ out' = out /\ pending' = pending /\ recs' = recs
    BY <1>3, <1>n DEF FinalWrite, workerVars, dedupeVars
  <2>2. Head(listed) \in Listed /\ Listed' = Listed \ {Head(listed)}
    BY <1>i, <1>q, <2>1, ListFacts DEF Listed
  <2>3. PendingRecs' = P /\ Outs' = Outs /\ DOMAIN recs' = D
    BY <1>y, <1>z, <2>1 DEF Outs, D
  <2>4. Logs' = Logs \cup {Head(listed)}
    BY <2>1, LogAdds DEF Logged
  <2>5. QED
    BY <1>n, <2>1, <2>2, <2>3, <2>4 DEF NothingLost, LogWorks
<1>5. CASE Process
  <2>1. out' = out /\ listed' = listed /\ worker' # "dead"
    BY <1>5 DEF Process, AfterBlock, mainVars
  <2>2. Outs' = Outs /\ Listed' = Listed
    BY <2>1 DEF Outs, Listed
  <2>3. CASE item.msg = NoMsg
    <3>1. pending' = pending /\ recs' = recs /\ written' = written
      BY <1>5, <2>3 DEF Process, dedupeVars
    <3>2. PendingRecs' = P /\ Logs' = Logs /\ DOMAIN recs' = D
      BY <1>y, <1>z, <3>1 DEF Logs, D
    <3>3. QED
      BY <1>n, <2>1, <2>2, <3>2 DEF NothingLost, LogWorks
  <2>4. CASE item.msg # NoMsg
    <3>1. PICK r \in Nat \ {0} : Joins(r)
      BY <1>5, <2>4, FoldStep
    <3>2. item.msg \in Msg
      BY <1>5, <2>4, FoldStep
    <3>3. DOMAIN recs' = D \cup {r}
      BY <3>1 DEF Joins, D
    <3>5. CASE opts.dedupe
      <4>1. /\ pending' = [pending EXCEPT ![item.msg] = [rec |-> r, last |-> item.ts]]
            /\ written' = written /\ pending[item.msg].rec \in {0, r}
        BY <3>1, <3>5 DEF Joins
      <4>2. P \cup {r} \subseteq PendingRecs'
        <5>0. pending \in [Msg -> Entries \cup {NoEntry}]
          BY DEF Shape, PendingShape
        <5>1. pending'[item.msg].rec = r /\ \A m \in Msg \ {item.msg} : pending'[m] = pending[m]
          BY <3>2, <4>1, <5>0
        <5>3. \A m \in Msg : pending[m].rec \in {pending'[k].rec : k \in Msg} \cup {0, r}
          BY <3>2, <4>1, <5>1
        <5>4. QED
          BY <1>y, <1>z, <3>2, <5>1, <5>3
      <4>3. Logs' = Logs
        BY <4>1 DEF Logs
      <4>4. QED
        BY <1>n, <2>1, <2>2, <3>3, <4>2, <4>3 DEF NothingLost, LogWorks
    <3>6. CASE ~opts.dedupe
      <4>1. /\ pending' = pending
            /\ written' = written \cup {[rec |-> r, copies |-> {item.id}, by |-> "worker"]}
        BY <1>n, <3>1, <3>6 DEF Joins
      <4>2. PendingRecs' = P
        BY <1>y, <1>z, <4>1
      <4>3. Logs' = Logs \cup {r}
        BY <4>1, LogAdds
      <4>4. QED
        BY <1>n, <2>1, <2>2, <3>3, <4>2, <4>3 DEF NothingLost, LogWorks
    <3>7. QED
      BY <3>5, <3>6
  <2>5. QED
    BY <2>3, <2>4
<1>6. CASE Snapshot
  <2>1. /\ out' = <<>> /\ pending' = pending /\ recs' = recs /\ written' = written /\ listed' = listed
        /\ worker = "pop" /\ worker' = "delete"
    BY <1>6 DEF Snapshot, dedupeVars, logVars, mainVars
  <2>2. PendingRecs' = P /\ Logs' = Logs /\ DOMAIN recs' = D /\ Outs' = {} /\ Outs = {} /\ Listed' = Listed
    BY <1>y, <1>z, <1>e, <2>1 DEF Outs, Logs, D, Listed
  <2>3. QED
    BY <1>n, <2>1, <2>2 DEF NothingLost, LogWorks
<1>7. CASE Delete
  <2>1. PICK e \in popping : /\ popping' = popping \ {e}
                             /\ IF pending[e.msg] = NoEntry
                                THEN worker' = "dead" /\ UNCHANGED <<out, pending>>
                                ELSE /\ out' = Append(out, e.rec)
                                     /\ pending' = [pending EXCEPT ![e.msg] = NoEntry]
                                     /\ UNCHANGED worker
    BY <1>7 DEF Delete
  <2>2. worker = "delete" /\ recs' = recs /\ written' = written /\ listed' = listed
    BY <1>7 DEF Delete, logVars, mainVars
  <2>3. e.msg \in Msg /\ e.rec \in Nat \ {0} /\ pending[e.msg].rec = e.rec
    BY <1>d, <1>q, <2>2
  <2>4. out' = Append(out, e.rec) /\ pending' = [pending EXCEPT ![e.msg] = NoEntry] /\ worker' = worker
    BY <1>x, <2>1, <2>3
  <2>5. \A m \in Msg \ {e.msg} : pending'[m] = pending[m]
    <3>1. pending \in [Msg -> Entries \cup {NoEntry}]
      BY DEF Shape, PendingShape
    <3>2. QED
      BY <2>3, <2>4, <3>1
  <2>6. P \subseteq PendingRecs' \cup {e.rec}
    <3>1. \A m \in Msg : pending[m].rec # e.rec => pending'[m].rec = pending[m].rec
      BY <2>3, <2>5
    <3>2. QED
      BY <1>y, <1>z, <3>1
  <2>7. Outs' = Outs \cup {e.rec}
    BY <1>i, <1>q, <2>3, <2>4, ListFacts DEF Outs
  <2>8. Logs' = Logs /\ DOMAIN recs' = D /\ Listed' = Listed
    BY <2>2 DEF Logs, D, Listed
  <2>9. QED
    BY <1>n, <2>4, <2>6, <2>7, <2>8 DEF NothingLost, LogWorks
<1>8. CASE Emit
  <2>1. /\ out # <<>> /\ out' = Tail(out) /\ worker' = worker
        /\ written' = written \cup {Logged(Head(out), "worker")}
        /\ listed' = listed /\ pending' = pending /\ recs' = recs
    BY <1>8, <1>n DEF Emit, dedupeVars, mainVars
  <2>2. Head(out) \in Outs /\ Outs' = Outs \ {Head(out)}
    BY <1>i, <1>q, <2>1, ListFacts DEF Outs
  <2>3. PendingRecs' = P /\ Listed' = Listed /\ DOMAIN recs' = D
    BY <1>y, <1>z, <2>1 DEF Listed, D
  <2>4. Logs' = Logs \cup {Head(out)}
    BY <2>1, LogAdds DEF Logged
  <2>5. QED
    BY <1>n, <2>1, <2>2, <2>3, <2>4 DEF NothingLost, LogWorks
<1>9. CASE worker' # "dead" /\ UNCHANGED <<listed, out, pending, recs, written>>
  <2>1. PendingRecs' = P /\ Outs' = Outs /\ Listed' = Listed /\ Logs' = Logs /\ DOMAIN recs' = D
    BY <1>9, <1>y, <1>z DEF Outs, Listed, Logs, D
  <2>2. QED
    BY <1>n, <1>9, <2>1 DEF NothingLost, LogWorks
<1>10. QED
  <2>1. Get \/ Idle \/ DeleteDone \/ EmitDone =>
           worker' # "dead" /\ UNCHANGED <<listed, out, pending, recs, written>>
    BY DEF Get, Idle, AfterIdle, DeleteDone, EmitDone, mainVars, dedupeVars, logVars
  <2>2. CASE Work
    BY <1>5, <1>6, <1>7, <1>8, <1>9, <2>1, <2>2 DEF Work
  <2>3. CASE ~Work
    BY <1>n, <1>1, <1>2, <1>3, <1>9, <2>3, MainSteps, WorkerSteps DEF workerVars
  <2>4. QED
    BY <2>2, <2>3

\* A set whose members are all the same has one member, or none.
LEMMA AtMostOne ==
  ASSUME NEW S, \A x, y \in S : x = y
  PROVE  Cardinality(S) = IF S = {} THEN 0 ELSE 1
<1>1. CASE S = {}
  BY <1>1, FS_EmptySet
<1>2. ASSUME NEW x \in S PROVE Cardinality(S) = 1
  <2>1. S = {x}
    OBVIOUS
  <2>2. QED
    BY <2>1, FS_Singleton
<1>3. QED
  BY <1>1, <1>2

\* The places of a copy, counted.
LEMMA CopiesCounted ==
  ASSUME Shape, Identified, CopyPlaces, NEW c \in heard
  PROVE    Cardinality({b \in Underway : b.id = c.id})
         + Cardinality({r \in DOMAIN recs : c.id \in recs[r]})
         + (IF c.id \in lost THEN 1 ELSE 0) = 1
<1> DEFINE A == {b \in Underway : b.id = c.id}
           B == {r \in DOMAIN recs : c.id \in recs[r]}
<1>0. c.id \in Nat \ {0} /\ NoBlock.id = 0
  BY BlockFacts DEF Shape, LogShape
<1>1. Known(held) /\ Known(item) /\ \A i \in DOMAIN work : Known(work[i])
  BY DEF Identified
<1>2. A \subseteq {c}
  <2> SUFFICES ASSUME NEW b \in Underway, b.id = c.id PROVE b = c
    OBVIOUS
  <2>1. Known(b)
    BY <1>1 DEF Underway
  <2>2. QED
    BY <2>1 DEF Known
<1>3. A # {} <=> c.id \in Queued \cup InHand
  <2>1. ASSUME NEW b \in Underway, b.id = c.id PROVE c.id \in Queued \cup InHand
    BY <1>0, <2>1 DEF Underway, Queued, InHand
  <2>2. ASSUME c.id \in Queued PROVE \E b \in Underway : b.id = c.id
    BY <2>2 DEF Underway, Queued
  <2>3. ASSUME c.id \in InHand PROVE \E b \in Underway : b.id = c.id
    BY <1>0, <2>3 DEF Underway, InHand
  <2>4. QED
    BY <2>1, <2>2, <2>3
<1>4. \A r, q \in B : r = q
  BY DEF CopyPlaces
<1>5. B # {} <=> c.id \in Folded
  BY DEF Folded
<1>6. Cardinality(A) = (IF A = {} THEN 0 ELSE 1) /\ Cardinality(B) = (IF B = {} THEN 0 ELSE 1)
  <2>1. \A x, y \in A : x = y
    BY <1>2
  <2> HIDE DEF A, B
  <2>2. QED
    BY <1>4, <2>1, AtMostOne
<1> HIDE DEF A, B
<1>7. /\ (Queued \cup InHand) \cap Folded = {} /\ (Queued \cup InHand) \cap lost = {} /\ Folded \cap lost = {}
      /\ c.id \in Queued \cup InHand \cup Folded \cup lost
  BY DEF CopyPlaces
<1>8. Cardinality(A) + Cardinality(B) + (IF c.id \in lost THEN 1 ELSE 0) = 1
  BY <1>3, <1>5, <1>6, <1>7
<1>9. QED
  BY <1>8 DEF A, B

\* The places of a record, counted.
LEMMA RecordsCounted ==
  ASSUME RecordPlaces, NothingLost, main # "clear", main # "aborted", NEW r \in DOMAIN recs
  PROVE    Cardinality({p \in PendingRecs : p = r})
         + Cardinality({i \in DOMAIN out : out[i] = r})
         + Cardinality({i \in DOMAIN listed : listed[i] = r})
         + Cardinality({w \in written : w.rec = r}) = 1
<1> DEFINE A == {p \in PendingRecs : p = r}
           B == {i \in DOMAIN out : out[i] = r}
           C == {i \in DOMAIN listed : listed[i] = r}
           E == {w \in written : w.rec = r}
<1>1. A # {} <=> r \in PendingRecs
  OBVIOUS
<1>2. B # {} <=> r \in Outs
  BY DEF Outs, Range
<1>3. C # {} <=> r \in Listed
  BY DEF Listed, Range
<1>4. E # {} <=> r \in Logs
  BY DEF Logs
<1>5. (\A x, y \in A : x = y) /\ (\A x, y \in B : x = y) /\ (\A x, y \in C : x = y) /\ (\A x, y \in E : x = y)
  BY DEF RecordPlaces, IsInjective
<1> HIDE DEF A, B, C, E
<1>6. /\ Cardinality(A) = (IF A = {} THEN 0 ELSE 1) /\ Cardinality(B) = (IF B = {} THEN 0 ELSE 1)
      /\ Cardinality(C) = (IF C = {} THEN 0 ELSE 1) /\ Cardinality(E) = (IF E = {} THEN 0 ELSE 1)
  BY <1>5, AtMostOne
<1>7. /\ PendingRecs \cap (Outs \cup Logs) = {} /\ Outs \cap (Listed \cup Logs) = {}
      /\ Listed \cap Logs = {} /\ Listed \cap PendingRecs = {}
      /\ r \in PendingRecs \cup Outs \cup Listed \cup Logs
  BY DEF RecordPlaces, NothingLost
<1>8. Cardinality(A) + Cardinality(B) + Cardinality(C) + Cardinality(E) = 1
  BY <1>1, <1>2, <1>3, <1>4, <1>6, <1>7
<1>9. QED
  BY <1>8 DEF A, B, C, E

\* At the start nothing is anywhere.
LEMMA PlacesInit == Init => Identified /\ CopyPlaces /\ RecordPlaces /\ Replays /\ (LogWorks => NothingLost)
<1> SUFFICES ASSUME Init
             PROVE  Identified /\ CopyPlaces /\ RecordPlaces /\ Replays /\ (LogWorks => NothingLost)
  OBVIOUS
<1>1. /\ heard = {} /\ lost = {} /\ written = {} /\ recs = <<>> /\ work = <<>> /\ out = <<>> /\ listed = <<>>
      /\ popping = {} /\ Present = {} /\ blocks = 0 /\ held = NoBlock /\ item = NoBlock
      /\ worker = "get" /\ main = "receive"
  BY DEF Init, Present
<1>2. NoBlock.id = 0 /\ DOMAIN work = {} /\ DOMAIN out = {} /\ DOMAIN listed = {} /\ DOMAIN recs = {}
  BY <1>1, BlockFacts
<1>3. Queued = {} /\ InHand = {} /\ Folded = {} /\ Outs = {} /\ Listed = {} /\ Logs = {} /\ PendingRecs = {}
  BY <1>1, <1>2 DEF Queued, InHand, Folded, Outs, Listed, Logs, PendingRecs, Range
<1>4. Identified
  BY <1>1, <1>2 DEF Identified, Known
<1>5. CopyPlaces
  BY <1>1, <1>2, <1>3 DEF CopyPlaces
<1>6. RecordPlaces
  BY <1>1, <1>2, <1>3 DEF RecordPlaces, IsInjective
<1>7. Replays /\ (LogWorks => NothingLost)
  BY <1>1, <1>2 DEF Replays, NothingLost
<1>8. QED
  BY <1>4, <1>5, <1>6, <1>7

\* The whole invariant of the pipeline, from the pieces.
LEMMA PlacesHold ==
  Spec /\ InTime /\ LogWorks =>
    [](Shape /\ Phases /\ Timely /\ Identified /\ CopyPlaces /\ RecordPlaces /\ Replays /\ NothingLost)
<1>1. Init /\ LogWorks => Identified /\ CopyPlaces /\ RecordPlaces /\ Replays /\ NothingLost
  BY PlacesInit
<1>2. /\ Shape /\ Phases /\ Timely /\ Identified /\ CopyPlaces /\ RecordPlaces /\ Replays /\ NothingLost
      /\ [Next]_vars
      => (Identified /\ CopyPlaces /\ RecordPlaces /\ Replays /\ NothingLost)'
  BY IdentifiedKept, CopyPlacesKept, RecordPlacesKept, ReplaysKept, NothingLostKept
<1>3. QED
  BY <1>1, <1>2, TimelyHolds, PTL DEF Spec

\* The receive loop, the queue, Deduper and emit: no copy is lost on the way
\* but at the full queue or with a signal, and none is in two records; no record is
\* lost or written twice, whichever way the two threads interleave.
THEOREM CopiesStayInOnePlace == Spec /\ InTime /\ LogWorks => []EveryCopyInOnePlace
<1>1. ASSUME Shape, Identified, CopyPlaces, RecordPlaces, NothingLost
      PROVE  EveryCopyInOnePlace
  <2> SUFFICES ASSUME main \notin {"clear"} \cup Gone
               PROVE  /\ \A c \in heard :
                            Cardinality({b \in Underway : b.id = c.id})
                          + Cardinality({r \in DOMAIN recs : c.id \in recs[r]})
                          + (IF c.id \in lost THEN 1 ELSE 0) = 1
                      /\ \A r \in DOMAIN recs :
                            Cardinality({p \in PendingRecs : p = r})
                          + Cardinality({i \in DOMAIN out : out[i] = r})
                          + Cardinality({i \in DOMAIN listed : listed[i] = r})
                          + Cardinality({w \in written : w.rec = r}) = 1
    BY DEF EveryCopyInOnePlace
  <2>1. main # "clear" /\ main # "aborted"
    BY DEF Gone
  <2>2. QED
    BY <1>1, <2>1, CopiesCounted, RecordsCounted
<1>2. QED
  BY <1>1, PlacesHold, PTL

\* The queue, the deduper and the log: their shape, and no copy lost or doubled.
THEOREM MonitorInvHolds == Spec /\ InTime /\ LogWorks => []MonitorInv
BY TypeCorrect, CopiesStayInOnePlace, PTL DEF MonitorInv

\* monitor_main's finally clause: when it runs to its end, every copy received
\* and not dropped is in the log once, in a complete record; and a file that
\* is replayed undisturbed drops none.
THEOREM LogCompleteAtExit == Spec /\ InTime /\ LogWorks => []LogIsComplete
<1>1. ASSUME Shape, Phases, Timely, CopyPlaces, RecordPlaces, NothingLost, main = "exit", NEW c \in heard,
             c.id \notin lost
      PROVE  /\ Cardinality({w \in written : c.id \in w.copies}) = 1
             /\ \A w \in written : c.id \in recs[w.rec] => c.id \in w.copies
  <2>1. worker = "returned"
    BY <1>1 DEF Timely, NothingLost, Stopped, Behind
  <2>2. work = <<>> /\ out = <<>> /\ listed = <<>>
    BY <1>1, <2>1 DEF Phases
  <2>3. Queued = {} /\ Outs = {} /\ Listed = {} /\ PendingRecs = {}
    BY <1>1, <2>2 DEF Queued, Outs, Listed, Range, RecordPlaces
  <2>4. InHand = {}
    BY <1>1, <2>1 DEF InHand, Shape, MainShape, WorkerShape
  <2>5. c.id \in Folded
    BY <1>1, <2>3, <2>4 DEF CopyPlaces
  <2>6. PICK r \in DOMAIN recs : c.id \in recs[r]
    BY <2>5 DEF Folded
  <2>7. r \in Logs
    BY <1>1, <2>3 DEF NothingLost
  <2>8. \A w \in written : w.copies = recs[w.rec] /\ w.rec \in DOMAIN recs
    BY <1>1 DEF RecordPlaces, Logs
  <2>9. \A w, v \in written : c.id \in w.copies /\ c.id \in v.copies => w = v
    BY <1>1, <2>8 DEF RecordPlaces, CopyPlaces
  <2>10. \E w \in written : c.id \in w.copies
    BY <2>6, <2>7, <2>8 DEF Logs
  <2> DEFINE W == {w \in written : c.id \in w.copies}
  <2>11. W # {} /\ \A w, v \in W : w = v
    BY <2>9, <2>10
  <2> HIDE DEF W
  <2>12. Cardinality(W) = 1
    BY <2>11, AtMostOne
  <2>13. QED
    BY <2>8, <2>12 DEF W
<1>2. ASSUME Shape, Phases, Timely, CopyPlaces, RecordPlaces, Replays, NothingLost
      PROVE  LogIsComplete
  <2>1. ShutdownWritesAll
    BY <1>1, <1>2 DEF ShutdownWritesAll
  <2>2. ReplayWritesAll
    BY <1>1, <1>2 DEF ReplayWritesAll, Replays
  <2>3. QED
    BY <2>1, <2>2 DEF LogIsComplete
<1>3. QED
  BY <1>2, PlacesHold, PTL

(***************************************************************************)
(* A record is one transmission.                                           *)
(***************************************************************************)

\* The air: transmissions are numbered, and a copy is of one that was sent.
LEMMA SightingsKept ==
  ASSUME Shape, Sightings, [Next]_vars
  PROVE  Sightings'
<1>0. /\ clock \in Nat /\ Gap \in Nat /\ Spread \in Nat
      /\ IsFiniteSet(sent) /\ Cardinality(sent) \in Nat
      /\ \A t \in sent : t.n \in Nat /\ t.at \in Nat
  BY ConstantFacts, FS_CardinalityType DEF Shape, Counters
<1>h. \A c \in heard : c.ts \in Nat
  BY BlockFacts DEF Shape, LogShape
<1>1. \A t \in sent : t.n <= Cardinality(sent) /\ t.at <= clock
  BY DEF Sightings
<1>2. /\ \A t, u \in sent : t.n = u.n => t = u
      /\ \A t, u \in sent : t # u /\ t.msg = u.msg /\ t.at <= u.at => t.at + Gap <= u.at
  BY DEF Sightings
<1>3. \A c \in heard : \E t \in sent : t.n = c.tx /\ t.msg = c.msg /\ t.at <= c.ts /\ c.ts <= t.at + Spread
  BY DEF Sightings
<1>4. \A c \in heard : c.ts <= clock
  BY DEF Sightings
<1>5. ASSUME NEW m \in Msg, Transmit(m) PROVE Sightings'
  <2> DEFINE u == [n |-> Cardinality(sent) + 1, msg |-> m, at |-> clock]
  <2>1. /\ sent' = sent \cup {u} /\ clock' = clock /\ heard' = heard
        /\ \A t \in sent : t.msg = m => clock - t.at >= Gap
    BY <1>5 DEF Transmit, logVars
  <2>2. u.n = Cardinality(sent) + 1 /\ u.msg = m /\ u.at = clock
    OBVIOUS
  <2> HIDE DEF u
  <2>3. u \notin sent
    BY <1>0, <1>1, <2>2
  <2>4. Cardinality(sent') = Cardinality(sent) + 1
    BY <1>0, <2>1, <2>3, FS_AddElement
  <2>5. \A t \in sent' : t.n <= Cardinality(sent') /\ t.at <= clock'
    BY <1>0, <1>1, <2>1, <2>2, <2>4
  <2>6. \A t, v \in sent' : t.n = v.n => t = v
    BY <1>0, <1>1, <1>2, <2>1, <2>2
  <2>7. \A t, v \in sent' : t # v /\ t.msg = v.msg /\ t.at <= v.at => t.at + Gap <= v.at
    <3> TAKE t, v \in sent'
    <3>1. CASE t \in sent /\ v \in sent
      BY <1>2, <3>1
    <3>2. CASE t \in sent /\ v = u
      BY <1>0, <2>1, <2>2, <3>2
    <3>3. CASE t = u /\ v \in sent
      BY <1>0, <1>1, <2>1, <2>2, <3>3
    <3>4. QED
      BY <2>1, <3>1, <3>2, <3>3
  <2>8. QED
    BY <1>3, <1>4, <2>1, <2>5, <2>6, <2>7 DEF Sightings
<1>6. CASE Copy
  <2>1. PICK t \in sent : clock - t.at <= Spread /\ Receive(Block(t.msg, t.n))
    BY <1>6 DEF Copy
  <2> DEFINE b == Block(t.msg, t.n)
  <2>2. b.tx = t.n /\ b.msg = t.msg /\ b.ts = clock
    BY DEF Block
  <2> HIDE DEF b
  <2>3. sent' = sent /\ clock' = clock /\ (heard' = heard \/ heard' = heard \cup {b})
    BY <2>1 DEF Receive, b
  <2>4. t.at <= b.ts /\ b.ts <= t.at + Spread
    BY <1>0, <1>1, <2>1, <2>2
  <2>5. \A c \in heard' : c \in heard \/ c = b
    BY <2>3
  <2>6. \A c \in heard' : \E v \in sent :
           v.n = c.tx /\ v.msg = c.msg /\ v.at <= c.ts /\ c.ts <= v.at + Spread
    BY <1>3, <2>2, <2>4, <2>5
  <2>7. \A c \in heard' : c.ts <= clock
    BY <1>0, <1>4, <2>2, <2>5
  <2>8. QED
    BY <1>1, <1>2, <2>3, <2>6, <2>7 DEF Sightings
<1>7. CASE sent' = sent /\ heard' = heard /\ clock' \in {clock, clock + 1}
  <2>1. \A t \in sent : t.at <= clock'
    BY <1>0, <1>1, <1>7
  <2>2. \A c \in heard : c.ts <= clock'
    BY <1>0, <1>h, <1>4, <1>7
  <2>3. QED
    BY <1>1, <1>2, <1>3, <1>7, <2>1, <2>2 DEF Sightings
<1>8. QED
  <2>1. Junk => heard' = heard /\ sent' = sent /\ clock' = clock
    BY DEF Junk, Receive, Block
  <2>2. Tick => clock' = clock + 1
    BY DEF Tick
  <2>3. QED
    BY <1>5, <1>6, <1>7, <2>1, <2>2, MainSteps

\* Only the worker's fold changes which copies a record holds: a block that
\* has just been received is in none.
LEMMA CopiesStep ==
  ASSUME Shape, CopyPlaces, [Next]_vars, recs' = recs
  PROVE  \A r \in DOMAIN recs : CopiesOf(r)' = CopiesOf(r)
<1>1. blocks \in Nat /\ Folded \subseteq 1..blocks
  BY DEF Shape, Counters, CopyPlaces
<1>2. heard' = heard \/ \E b : b.id = blocks + 1 /\ heard' = heard \cup {b}
  <2>1. ASSUME NEW m, NEW n, Receive(Block(m, n))
        PROVE  heard' = heard \/ \E b : b.id = blocks + 1 /\ heard' = heard \cup {b}
    <3>1. Block(m, n).id = blocks + 1
      BY DEF Block
    <3>2. QED
      BY <2>1, <3>1 DEF Receive
  <2>2. QED
    BY <2>1, MainSteps DEF Copy, Junk
<1>3. \A r \in DOMAIN recs : blocks + 1 \notin recs[r]
  BY <1>1 DEF Folded
<1>4. QED
  BY <1>2, <1>3 DEF CopiesOf

\* The sighting behind a copy: the transmission it is of.
LEMMA SightingOf ==
  ASSUME Shape, Sightings, NEW c \in heard
  PROVE  /\ c.ts \in Nat
         /\ \E t \in sent : /\ t.n = c.tx /\ t.msg = c.msg /\ t.at <= c.ts /\ c.ts <= t.at + Spread
                            /\ t.at \in Nat /\ \A u \in sent : u.n = c.tx => u = t
<1>1. c.ts \in Nat
  BY BlockFacts DEF Shape, LogShape
<1>2. PICK t \in sent : t.n = c.tx /\ t.msg = c.msg /\ t.at <= c.ts /\ c.ts <= t.at + Spread
  BY DEF Sightings
<1>3. \A u \in sent : u.n = c.tx => u = t
  BY <1>2 DEF Sightings
<1>4. t.at \in Nat
  BY DEF Shape, Counters
<1>5. QED
  BY <1>1, <1>2, <1>3, <1>4

\* Deduper.add puts a copy only with copies of the same transmission: had the
\* record been of an earlier sending, it would have been handed over by now.
LEMMA JoinsItsOwn ==
  ASSUME Shape, Timely, Sightings, Folds, worker = "process", item \in heard, item.msg \in Present,
         NEW c \in CopiesOf(pending[item.msg].rec)
  PROVE  c.tx = item.tx
<1> DEFINE last == pending[item.msg].last
           r == pending[item.msg].rec
<1>1. PICK d \in CopiesOf(r) : d.ts = last
  BY DEF Folds, Single
<1>2. c \in heard /\ d \in heard /\ c.msg = item.msg /\ d.tx = c.tx
  <2>1. item.msg \in Msg
    BY DEF Present
  <2>2. r \in DOMAIN recs
    BY <2>1, EntryFacts, LenProperties DEF Shape, PendingShape
  <2>3. QED
    BY <1>1, <2>2 DEF CopiesOf, Folds, Single
<1>3. PICK t \in sent : /\ t.n = c.tx /\ t.msg = c.msg /\ t.at <= c.ts /\ c.ts <= t.at + Spread
                        /\ t.at \in Nat /\ \A u \in sent : u.n = c.tx => u = t
  BY <1>2, SightingOf
<1>4. PICK u \in sent : /\ u.n = item.tx /\ u.msg = item.msg /\ u.at <= item.ts /\ item.ts <= u.at + Spread
                        /\ u.at \in Nat
  BY SightingOf
<1>5. d.ts <= t.at + Spread /\ d.ts \in Nat
  BY <1>2, <1>3, SightingOf
<1>6. item.ts \in Nat /\ clock \in Nat /\ since \in Nat
  BY SightingOf DEF Shape, Counters
<1>7. clock <= item.ts + MaxLag
  <2>1. item.id # 0
    BY DEF Shape, WorkerShape
  <2>2. QED
    BY <2>1 DEF Timely, Fresh, Stopped
<1>8. item.ts <= since + IdleTick + MaxLag /\ since <= last + Window + MaxLag
  BY DEF Folds, Aged
<1>9. Spread + MaxLag <= Window /\ Spread + Window + IdleTick + 2 * MaxLag < Gap
  BY DEF Folds, WindowFits
<1>10. t.at <= clock
  BY DEF Sightings
<1>11. t # u => t.at + Gap <= u.at \/ u.at + Gap <= t.at
  <2>1. t.at <= u.at \/ u.at <= t.at
    BY <1>3, <1>4
  <2>2. QED
    BY <1>2, <1>3, <1>4, <2>1 DEF Sightings
<1> HIDE DEF last, r
<1>12. ~(t.at + Gap <= u.at)
  BY <1>1, <1>3, <1>4, <1>5, <1>6, <1>8, <1>9, ConstantFacts
<1>13. ~(u.at + Gap <= t.at)
  BY <1>3, <1>4, <1>6, <1>7, <1>9, <1>10, ConstantFacts
<1>14. QED
  BY <1>3, <1>4, <1>11, <1>12, <1>13

\* A copy that starts a record is the first of its transmission: had there been
\* another, its record would still be pending.
LEMMA StartsItsOwn ==
  ASSUME Shape, Timely, Sightings, Folds, opts.dedupe, worker = "process", item \in heard,
         item.msg \in Msg, item.msg \notin Present, NEW q \in DOMAIN recs, NEW c \in CopiesOf(q)
  PROVE  c.tx # item.tx
<1> SUFFICES ASSUME c.tx = item.tx PROVE FALSE
  OBVIOUS
<1>1. c \in heard
  BY DEF CopiesOf
<1>2. PICK t \in sent : /\ t.n = item.tx /\ t.msg = item.msg /\ t.at <= item.ts /\ item.ts <= t.at + Spread
                        /\ t.at \in Nat /\ \A u \in sent : u.n = item.tx => u = t
  BY SightingOf
<1>3. c.msg = item.msg
  BY <1>1, <1>2, SightingOf
<1>4. q \notin PendingRecs
  <2> SUFFICES ASSUME NEW k \in Present, q = pending[k].rec PROVE FALSE
    BY DEF PendingRecs
  <2>1. c.msg = k
    BY DEF Folds, Single
  <2>2. QED
    BY <1>3, <2>1
<1>5. t.at + Window < clock
  BY <1>2, <1>4 DEF Folds, Apart, Stopped
<1>6. clock <= item.ts + MaxLag
  <2>1. item.id # 0
    BY DEF Shape, WorkerShape
  <2>2. QED
    BY <2>1 DEF Timely, Fresh, Stopped
<1>7. item.ts \in Nat /\ clock \in Nat
  BY SightingOf DEF Shape, Counters
<1>8. Spread + MaxLag <= Window
  BY DEF Folds, WindowFits
<1>9. QED
  BY <1>2, <1>5, <1>6, <1>7, <1>8, ConstantFacts

\* What a fold does to the copies: one record has the item's copy more.
LEMMA FoldedCopies ==
  ASSUME Shape, Identified, Process, item \in heard, NEW r, Joins(r)
  PROVE  /\ heard' = heard
         /\ CopiesOf(r)' = (IF r \in DOMAIN recs THEN CopiesOf(r) ELSE {}) \cup {item}
         /\ \A q \in DOMAIN recs \ {r} : CopiesOf(q)' = CopiesOf(q)
<1>1. heard' = heard
  BY DEF Process
<1>2. \A c \in heard : c.id = item.id => c = item
  BY DEF Identified
<1>3. /\ recs'[r] = (IF r \in DOMAIN recs THEN recs[r] ELSE {}) \cup {item.id}
      /\ \A q \in DOMAIN recs \ {r} : recs'[q] = recs[q]
  BY DEF Joins
<1>4. QED
  BY <1>1, <1>2, <1>3 DEF CopiesOf

\* The fold keeps records to one transmission each.
LEMMA FoldKeepsFolds ==
  ASSUME Shape, Phases, Timely, Identified, Sightings, Folds, [Next]_vars,
         Process, item.msg # NoMsg
  PROVE  Folds'
<1>1. PICK r \in Nat \ {0} : Joins(r)
  BY FoldStep
<1>2. item \in Blocks /\ item.msg \in Msg /\ worker = "process" /\ item.id # 0
  BY FoldStep, BlockFacts DEF Process
<1>3. item \in heard
  BY <1>2 DEF Identified, Known
<1>4. /\ heard' = heard
      /\ CopiesOf(r)' = (IF r \in DOMAIN recs THEN CopiesOf(r) ELSE {}) \cup {item}
      /\ \A q \in DOMAIN recs \ {r} : CopiesOf(q)' = CopiesOf(q)
  BY <1>1, <1>3, FoldedCopies
<1>5. DOMAIN recs' = DOMAIN recs \cup {r} /\ opts' = opts /\ sent' = sent /\ clock' = clock
  BY <1>1 DEF Joins, Process, envVars
<1>6. WindowFits
  BY DEF Folds
<1>7. ~opts.dedupe => Present = {} /\ r \notin DOMAIN recs
  BY <1>1 DEF Phases, Joins
<1>8. r \in DOMAIN recs => opts.dedupe /\ pending[item.msg].rec = r /\ item.msg \in Present
  BY <1>1, <1>2, EntryFacts DEF Joins, Shape
<1>9. r \in DOMAIN recs => \A c \in CopiesOf(r) : c.tx = item.tx /\ c.msg = item.msg
  <2>1. r \in DOMAIN recs => \A c \in CopiesOf(r) : c.tx = item.tx
    BY <1>2, <1>3, <1>8, JoinsItsOwn
  <2>2. r \in DOMAIN recs => \A c \in CopiesOf(r) : c.msg = item.msg
    BY <1>8 DEF Folds, Single
  <2>3. QED
    BY <2>1, <2>2
<1>10. \A s \in DOMAIN recs' : \A c, d \in CopiesOf(s)' : c.tx = d.tx
  <2>1. \A c \in CopiesOf(r)' : c.tx = item.tx
    BY <1>4, <1>9
  <2>2. \A s \in DOMAIN recs \ {r} : \A c, d \in CopiesOf(s)' : c.tx = d.tx
    BY <1>4 DEF Folds, Single
  <2>3. QED
    BY <1>5, <2>1, <2>2
<1>11. /\ opts.dedupe => /\ Present' = Present \cup {item.msg}
                         /\ pending'[item.msg] = [rec |-> r, last |-> item.ts]
                         /\ \A m \in Msg \ {item.msg} : pending'[m] = pending[m]
       /\ ~opts.dedupe => Present' = {}
  <2>1. CASE opts.dedupe
    <3>1. pending' = [pending EXCEPT ![item.msg] = [rec |-> r, last |-> item.ts]]
      BY <1>1, <2>1 DEF Joins
    <3>2. pending \in [Msg -> Entries \cup {NoEntry}]
      BY DEF Shape, PendingShape
    <3>3. pending'[item.msg] = [rec |-> r, last |-> item.ts] /\ \A m \in Msg \ {item.msg} : pending'[m] = pending[m]
      BY <1>2, <3>1, <3>2
    <3>4. [rec |-> r, last |-> item.ts] # NoEntry
      <4>1. [rec |-> r, last |-> item.ts].rec # 0 /\ NoEntry.rec = 0
        BY DEF NoEntry
      <4>2. QED
        BY <4>1
    <3>5. Present' = Present \cup {item.msg}
      BY <1>2, <3>3, <3>4 DEF Present
    <3>6. QED
      BY <2>1, <3>3, <3>5
  <2>2. CASE ~opts.dedupe
    <3>1. pending' = pending
      BY <1>1, <2>2 DEF Joins
    <3>2. QED
      BY <1>7, <2>2, <3>1 DEF Present
  <2>3. QED
    BY <2>1, <2>2
<1>12. \A m \in Present' : /\ \A c \in CopiesOf(pending[m].rec)' : c.msg = m
                           /\ \E c \in CopiesOf(pending[m].rec)' : c.ts = pending'[m].last
  <2> SUFFICES ASSUME NEW m \in Present'
               PROVE  /\ \A c \in CopiesOf(pending[m].rec)' : c.msg = m
                      /\ \E c \in CopiesOf(pending[m].rec)' : c.ts = pending'[m].last
    OBVIOUS
  <2>1. opts.dedupe
    BY <1>11
  <2>2. CASE m = item.msg
    <3>1. pending'[m].rec = r /\ pending'[m].last = item.ts
      BY <1>11, <2>1, <2>2
    <3>2. CopiesOf(pending[m].rec)' = CopiesOf(r)'
      BY <3>1 DEF CopiesOf
    <3>3. QED
      BY <1>4, <1>9, <2>2, <3>1, <3>2
  <2>3. CASE m # item.msg
    <3>1. m \in Present /\ pending'[m] = pending[m] /\ m \in Msg
      BY <1>11, <2>1, <2>3 DEF Present
    <3>2. pending[m].rec \in DOMAIN recs /\ pending[m].rec # r
      <4>1. pending[m].rec \in 1..Len(recs) /\ DOMAIN recs = 1..Len(recs)
        BY <3>1, EntryFacts, LenProperties DEF Shape, PendingShape
      <4>2. r \in DOMAIN recs => pending[m].rec # r
        BY <1>2, <1>8, <2>3, <3>1, <4>1 DEF Shape, PendingShape
      <4>3. QED
        BY <4>1, <4>2
    <3>3. CopiesOf(pending[m].rec)' = CopiesOf(pending[m].rec)
      <4>1. PICK q \in DOMAIN recs \ {r} : q = pending[m].rec
        BY <3>2
      <4>2. CopiesOf(pending[m].rec)' = CopiesOf(q)'
        BY <3>1, <4>1 DEF CopiesOf
      <4>3. QED
        BY <1>4, <4>1, <4>2
    <3>4. QED
      BY <3>1, <3>3 DEF Folds, Single
  <2>4. QED
    BY <2>2, <2>3
<1>13. Single'
  BY <1>10, <1>12 DEF Single
<1>14. Aged'
  <2>1. CASE opts.dedupe
    <3>1. worker' = "pop"
      BY <2>1 DEF Process, AfterBlock
    <3>2. QED
      BY <3>1 DEF Aged
  <2>2. CASE ~opts.dedupe
    <3>1. worker' = "get" /\ since' = clock /\ work' = work /\ Present' = {}
      BY <1>11, <2>2 DEF Process, AfterBlock
    <3>2. work # <<>> => work[1].ts <= clock /\ work[1].ts \in Nat
      <4>1. work # <<>> => 1 \in DOMAIN work /\ work[1] \in Blocks \cup Marks
        BY QueueFacts DEF Shape
      <4>2. QED
        BY <4>1, BlockFacts DEF Timely
    <3>3. clock \in Nat /\ IdleTick \in Nat /\ MaxLag \in Nat
      BY ConstantFacts DEF Shape, Counters
    <3>4. work' # <<>> => work'[1].ts <= since' + IdleTick + MaxLag
      BY <3>1, <3>2, <3>3
    <3>5. QED
      BY <3>1, <3>4 DEF Aged
  <2>3. QED
    BY <2>1, <2>2
<1>15. ASSUME opts.dedupe PROVE Apart'
  <2>1. Apart
    BY <1>15 DEF Folds
  <2>2. \A q \in DOMAIN recs \ {r} : \A c \in CopiesOf(q) : c.tx # item.tx
    <3>1. CASE r \in DOMAIN recs
      <4>1. PICK d \in CopiesOf(r) : TRUE
        BY <1>8, <3>1 DEF Folds, Single
      <4>2. d.tx = item.tx
        BY <1>9, <3>1
      <4>3. QED
        BY <2>1, <3>1, <4>2 DEF Apart
    <3>2. CASE r \notin DOMAIN recs
      <4>1. item.msg \notin Present
        BY <1>1, <1>2, <1>15, <3>2, EntryFacts DEF Joins, Shape, PendingShape
      <4>2. QED
        BY <1>2, <1>3, <1>15, <4>1, StartsItsOwn
    <3>3. QED
      BY <3>1, <3>2
  <2>3. \A c \in CopiesOf(r)' : c.tx = item.tx
    BY <1>4, <1>9
  <2>4. \A s, q \in DOMAIN recs' : s # q => \A c \in CopiesOf(s)', d \in CopiesOf(q)' : c.tx # d.tx
    <3> SUFFICES ASSUME NEW s \in DOMAIN recs', NEW q \in DOMAIN recs', s # q,
                        NEW c \in CopiesOf(s)', NEW d \in CopiesOf(q)'
                 PROVE  c.tx # d.tx
      OBVIOUS
    <3>1. CASE s = r
      <4>1. c \in CopiesOf(r)' /\ d \in CopiesOf(q) /\ q \in DOMAIN recs \ {r}
        BY <1>4, <1>5, <3>1 DEF CopiesOf
      <4>2. QED
        BY <2>2, <2>3, <4>1
    <3>2. CASE q = r
      <4>1. d \in CopiesOf(r)' /\ c \in CopiesOf(s) /\ s \in DOMAIN recs \ {r}
        BY <1>4, <1>5, <3>2 DEF CopiesOf
      <4>2. QED
        BY <2>2, <2>3, <4>1
    <3>3. CASE s # r /\ q # r
      <4>1. d \in CopiesOf(q) /\ c \in CopiesOf(s) /\ {s, q} \subseteq DOMAIN recs
        BY <1>4, <1>5, <3>3
      <4>2. QED
        BY <2>1, <4>1 DEF Apart
    <3>4. QED
      BY <3>1, <3>2, <3>3
  <2>5. \A q \in DOMAIN recs' \ PendingRecs' : \A c \in CopiesOf(q)', t \in sent' :
            t.n = c.tx => t.at + Window < clock'
    <3> SUFFICES ASSUME NEW q \in DOMAIN recs' \ PendingRecs', NEW c \in CopiesOf(q)', NEW t \in sent,
                        t.n = c.tx
                 PROVE  t.at + Window < clock
      BY <1>5
    <3>1. r \in PendingRecs'
      BY <1>11, <1>15 DEF PendingRecs
    <3>2. q \in DOMAIN recs \ {r}
      BY <1>5, <3>1
    <3>3. q \notin PendingRecs
      <4> SUFFICES ASSUME NEW k \in Present, q = pending[k].rec PROVE FALSE
        BY DEF PendingRecs
      <4>1. k # item.msg
        <5>1. pending[item.msg].rec \in {0, r} /\ pending[k].rec # 0
          BY <1>1, <1>15, EntryFacts DEF Joins, Shape, Present
        <5>2. QED
          BY <3>2, <5>1
      <4>2. k \in Present' /\ pending'[k] = pending[k]
        BY <1>11, <1>15, <4>1 DEF Present
      <4>3. q \in PendingRecs'
        BY <4>2 DEF PendingRecs
      <4>4. QED
        BY <4>3
    <3>4. c \in CopiesOf(q)
      BY <1>4, <3>2
    <3>5. QED
      BY <1>2, <2>1, <3>2, <3>3, <3>4 DEF Apart, Stopped
  <2>6. QED
    BY <2>4, <2>5 DEF Apart
<1>16. QED
  BY <1>5, <1>6, <1>13, <1>14, <1>15 DEF Folds, WindowFits

\* The worker comes round to pop_ready in time: after every block it takes and
\* after every idle tick.
LEMMA AgedKept ==
  ASSUME Shape, Phases, Timely, RecordPlaces, Aged, [Next]_vars,
         Process => item.msg = NoMsg
  PROVE  Aged' /\ \A m \in Present' : m \in Present /\ pending'[m] = pending[m]
<1>0. /\ clock \in Nat /\ since \in Nat /\ Window \in Nat /\ IdleTick \in Nat /\ MaxLag \in Nat
      /\ since <= clock
  BY ConstantFacts DEF Shape, Counters, Timely
<1>l. \A m \in Present : m \in Msg /\ pending[m].last \in Nat
  BY EntryFacts DEF Shape, Present
<1>q. popping \subseteq [msg : Msg, rec : Nat \ {0}]
  BY DEF Shape, WorkerShape
<1>d. worker = "delete" => \A e \in popping : e.msg \in Present /\ pending[e.msg].rec = e.rec
  <2>1. worker = "delete" => \A e \in popping : pending[e.msg].rec = e.rec /\ e.rec # 0 /\ e.msg \in Msg
    BY <1>q DEF RecordPlaces
  <2>2. QED
    BY <2>1, EntryFacts DEF Shape
<1>w. work # <<>> => work[1].ts <= clock /\ work[1].ts \in Nat
  <2>1. work # <<>> => 1 \in DOMAIN work /\ work[1] \in Blocks \cup Marks
    BY QueueFacts DEF Shape
  <2>2. QED
    BY <2>1, BlockFacts DEF Timely
<1>a1. worker \in {"get", "process"} => \A m \in Present : since <= pending[m].last + Window + MaxLag
  BY DEF Aged
<1>a2. worker \in {"delete", "emit"} =>
          \A m \in Present : (\E e \in popping : e.msg = m) \/ since <= pending[m].last + Window
  BY DEF Aged
<1>a3. worker = "delete" => \A e \in popping : pending[e.msg].last + Window < clock
  BY DEF Aged
<1>a4. worker = "get" /\ work # <<>> => work[1].ts <= since + IdleTick + MaxLag
  BY DEF Aged
<1>a5. worker = "process" => item.ts <= since + IdleTick + MaxLag
  BY DEF Aged
<1>n. worker # "delete" => ~Delete
  BY DEF Delete
<1>p. ~Delete => \A m \in Present' : m \in Present /\ pending'[m] = pending[m]
  <2>1. CASE FlushClear
    BY <2>1 DEF FlushClear, Present
  <2>2. CASE pending' = pending
    BY <2>2 DEF Present
  <2>3. Process => pending' = pending
    BY DEF Process, dedupeVars
  <2>4. QED
    BY <2>1, <2>2, <2>3, WorkerSteps
<1>1. CASE ~Work
  <2>1. worker' = worker /\ since' = since /\ item' = item /\ popping' = popping /\ ~Delete
        /\ (pending' = pending \/ FlushClear)
    <3>1. worker' = worker /\ since' = since /\ item' = item /\ popping' = popping
          /\ (pending' = pending \/ FlushClear)
      BY <1>1, WorkerSteps DEF workerVars
    <3>2. ~Delete
      BY <3>1 DEF Delete
    <3>3. QED
      BY <3>1, <3>2
  <2>2. clock' \in {clock, clock + 1}
    BY MainSteps DEF Tick
  <2>3. worker' = "delete" => \A e \in popping' : pending'[e.msg].last + Window < clock'
    <3> SUFFICES ASSUME worker = "delete", NEW e \in popping PROVE pending'[e.msg].last + Window < clock'
      BY <2>1
    <3>1. pending' = pending
      BY <2>1 DEF FlushClear, Timely, Behind, Stopped
    <3>2. pending[e.msg].last \in Nat /\ pending[e.msg].last + Window < clock
      BY <1>a3, <1>d, <1>l
    <3>3. QED
      BY <1>0, <2>2, <3>1, <3>2
  <2>4. worker' = "get" /\ work' # <<>> => work'[1].ts <= since' + IdleTick + MaxLag
    <3> SUFFICES ASSUME worker = "get", work' # <<>> PROVE work'[1].ts <= since + IdleTick + MaxLag
      BY <2>1
    <3>1. CASE work' = work
      BY <1>a4, <3>1
    <3>2. ASSUME NEW b \in Blocks \cup Marks, work' = Append(work, b), b.ts <= clock, b.ts \in Nat
          PROVE  work'[1].ts <= since + IdleTick + MaxLag
      <4>1. work = <<>> => work'[1] = b
        BY <3>2, QueueFacts DEF Shape
      <4>2. work # <<>> => work'[1] = work[1]
        BY <3>2, QueueFacts DEF Shape
      <4>3. work = <<>> => clock <= since + IdleTick + MaxLag
        BY DEF Timely
      <4>4. QED
        BY <1>0, <1>a4, <3>2, <4>1, <4>2, <4>3
    <3>3. CASE Put
      <4>1. held \in Blocks /\ work' = Append(work, held)
        BY <3>3, BlockFacts DEF Put, Shape, MainShape
      <4>2. held.ts <= clock /\ held.ts \in Nat
        BY <4>1, BlockFacts DEF Timely, Fresh
      <4>3. QED
        BY <3>2, <4>1, <4>2
    <3>4. CASE PutStop
      <4>1. StopMark(clock) \in Marks /\ StopMark(clock).ts = clock
        BY <1>0 DEF StopMark, Marks
      <4>2. QED
        BY <1>0, <3>1, <3>2, <3>4, <4>1 DEF PutStop
    <3>5. ~Get
      BY <2>1 DEF Get
    <3>6. QED
      BY <3>1, <3>3, <3>4, <3>5, WorkerSteps
  <2>5. QED
    BY <1>p, <1>a1, <1>a2, <1>a5, <2>1, <2>3, <2>4 DEF Aged
<1>2. CASE Get
  <2>1. /\ worker = "get" /\ work # <<>> /\ since' = since /\ worker' \in {"returned", "process"}
        /\ worker' = "process" => item' = Head(work)
    BY <1>2 DEF Get
  <2>2. Head(work) = work[1]
    BY <2>1, QueueFacts DEF Shape
  <2>3. QED
    BY <1>n, <1>p, <1>a1, <1>a4, <2>1, <2>2 DEF Aged
<1>3. CASE Idle \/ Process
  <2>1. worker' = (IF opts.dedupe THEN "pop" ELSE "get") /\ since' = clock /\ work' = work
        /\ worker \in {"get", "process"}
    BY <1>3 DEF Idle, Process, AfterIdle, AfterBlock
  <2>2. ~opts.dedupe => Present = {}
    BY DEF Phases
  <2>3. clock <= clock + IdleTick + MaxLag
    BY <1>0
  <2>4. work' # <<>> => work'[1].ts <= since' + IdleTick + MaxLag
    BY <1>0, <1>w, <2>1
  <2>5. QED
    BY <1>n, <1>p, <2>1, <2>2, <2>4 DEF Aged
<1>4. CASE Snapshot
  <2>1. /\ popping' = {[msg |-> m, rec |-> pending[m].rec] : m \in {k \in Msg : Ready(pending[k])}}
        /\ worker = "pop" /\ worker' = "delete" /\ pending' = pending /\ since' = since /\ clock' = clock
    BY <1>4 DEF Snapshot, dedupeVars, envVars
  <2>2. \A e \in popping' : pending'[e.msg].last + Window < clock'
    <3> SUFFICES ASSUME NEW m \in Msg, Ready(pending[m]) PROVE pending[m].last + Window < clock
      BY <2>1
    <3>1. m \in Present /\ clock - pending[m].last > Window
      BY DEF Ready, Present
    <3>2. QED
      BY <1>0, <1>l, <3>1
  <2>3. \A m \in Present' : (\E e \in popping' : e.msg = m) \/ since' <= pending'[m].last + Window
    <3> SUFFICES ASSUME NEW m \in Present PROVE (\E e \in popping' : e.msg = m) \/ since <= pending[m].last + Window
      BY <2>1 DEF Present
    <3>1. CASE Ready(pending[m])
      <4>1. [msg |-> m, rec |-> pending[m].rec] \in popping'
        BY <1>l, <2>1, <3>1
      <4>2. QED
        BY <4>1
    <3>2. CASE ~Ready(pending[m])
      <4>1. ~(clock - pending[m].last > Window)
        BY <3>2 DEF Ready, Present
      <4>2. QED
        BY <1>0, <1>l, <4>1
    <3>3. QED
      BY <3>1, <3>2
  <2>4. QED
    BY <1>n, <1>p, <2>1, <2>2, <2>3 DEF Aged
<1>5. CASE Delete
  <2>1. PICK e \in popping : /\ popping' = popping \ {e}
                             /\ IF pending[e.msg] = NoEntry
                                THEN worker' = "dead" /\ UNCHANGED <<out, pending>>
                                ELSE /\ out' = Append(out, e.rec)
                                     /\ pending' = [pending EXCEPT ![e.msg] = NoEntry]
                                     /\ UNCHANGED worker
    BY <1>5 DEF Delete
  <2>2. worker = "delete" /\ since' = since /\ clock' = clock
    BY <1>5 DEF Delete, envVars
  <2>3. e.msg \in Present /\ e.msg \in Msg
    BY <1>d, <1>l, <2>2
  <2>4. pending' = [pending EXCEPT ![e.msg] = NoEntry] /\ worker' = "delete"
    BY <2>1, <2>2, <2>3 DEF Present
  <2>5. pending'[e.msg] = NoEntry /\ \A m \in Msg \ {e.msg} : pending'[m] = pending[m]
    <3>1. pending \in [Msg -> Entries \cup {NoEntry}]
      BY DEF Shape, PendingShape
    <3>2. QED
      BY <2>3, <2>4, <3>1
  <2>6. \A m \in Present' : m \in Present /\ m # e.msg /\ pending'[m] = pending[m]
    BY <2>5 DEF Present
  <2>7. \A f \in popping' : f \in popping /\ f.msg # e.msg /\ f.msg \in Msg
    <3> SUFFICES ASSUME NEW f \in popping, f # e PROVE f.msg # e.msg /\ f.msg \in Msg
      BY <2>1
    <3>1. f.rec = pending[f.msg].rec /\ e.rec = pending[e.msg].rec
      BY <1>d, <2>2
    <3>2. QED
      BY <1>q, <3>1
  <2>8. \A f \in popping' : pending'[f.msg].last + Window < clock'
    BY <1>a3, <2>2, <2>5, <2>7
  <2>9. \A m \in Present' : (\E f \in popping' : f.msg = m) \/ since' <= pending'[m].last + Window
    BY <1>a2, <2>1, <2>2, <2>6
  <2>10. QED
    BY <2>4, <2>6, <2>8, <2>9 DEF Aged
<1>6. CASE DeleteDone \/ Emit
  <2>1. /\ worker \in {"delete", "emit"} /\ worker' \in {"emit", "dead"} /\ since' = since /\ popping' = popping
    BY <1>6 DEF DeleteDone, Emit
  <2>2. ~Delete
    BY <1>6 DEF DeleteDone, Emit, Delete
  <2>3. QED
    BY <1>p, <1>a2, <2>1, <2>2 DEF Aged
<1>7. CASE EmitDone
  <2>1. worker = "emit" /\ worker' = "get" /\ since' = clock /\ work' = work
    BY <1>7 DEF EmitDone
  <2>2. clock <= since + MaxLag /\ popping = {}
    BY <2>1 DEF Timely, Phases
  <2>3. \A m \in Present : clock <= pending[m].last + Window + MaxLag
    <3> TAKE m \in Present
    <3>1. since <= pending[m].last + Window
      BY <1>a2, <2>1, <2>2
    <3>2. QED
      BY <1>0, <1>l, <2>2, <3>1
  <2>4. work' # <<>> => work'[1].ts <= since' + IdleTick + MaxLag
    BY <1>0, <1>w, <2>1
  <2>5. QED
    BY <1>n, <1>p, <2>1, <2>3, <2>4 DEF Aged
<1>8. QED
  BY <1>1, <1>2, <1>3, <1>4, <1>5, <1>6, <1>7 DEF Work

\* A record handed over is too old for another copy of its transmission, and
\* stays so.
LEMMA ApartKept ==
  ASSUME Shape, Phases, Timely, CopyPlaces, RecordPlaces, Sightings, Folds, opts.dedupe, [Next]_vars,
         Process => item.msg = NoMsg
  PROVE  Apart'
<1>1. recs' = recs
  BY WorkerSteps DEF Process, dedupeVars
<1>2. \A r \in DOMAIN recs : CopiesOf(r)' = CopiesOf(r)
  BY <1>1, CopiesStep
<1>a. Apart
  BY DEF Folds
<1>3. \A r, q \in DOMAIN recs' : r # q => \A c \in CopiesOf(r)', d \in CopiesOf(q)' : c.tx # d.tx
  BY <1>1, <1>2, <1>a DEF Apart
<1>4. ASSUME worker' \notin Stopped, NEW r \in DOMAIN recs' \ PendingRecs', NEW c \in CopiesOf(r)',
             NEW t \in sent', t.n = c.tx
      PROVE  t.at + Window < clock'
  <2>1. r \in DOMAIN recs /\ c \in CopiesOf(r) /\ c \in heard
    BY <1>1, <1>2 DEF CopiesOf
  <2>2. worker \notin Stopped
    BY <1>4, WorkerSteps DEF Work, Get, Idle, Process, Snapshot, Delete, DeleteDone, Emit, EmitDone, Stopped
  <2>3. PICK u \in sent : /\ u.n = c.tx /\ u.at \in Nat /\ \A v \in sent : v.n = c.tx => v = u
    BY <2>1, SightingOf
  <2>4. t \in sent
    <3>1. CASE sent' = sent
      BY <3>1
    <3>2. ASSUME NEW m \in Msg, Transmit(m), t \notin sent PROVE FALSE
      <4>1. t.n = Cardinality(sent) + 1
        BY <3>2 DEF Transmit
      <4>2. u.n <= Cardinality(sent) /\ Cardinality(sent) \in Nat
        BY FS_CardinalityType DEF Sightings, Shape, Counters
      <4>3. QED
        BY <1>4, <2>3, <4>1, <4>2
    <3>3. QED
      BY <3>1, <3>2, MainSteps
  <2>5. clock \in Nat /\ Window \in Nat /\ clock' \in {clock, clock + 1} /\ t.at \in Nat
    BY <2>4, ConstantFacts, MainSteps DEF Tick, Shape, Counters
  <2>6. CASE r \notin PendingRecs
    <3>1. t.at + Window < clock
      BY <1>4, <1>a, <2>1, <2>2, <2>4, <2>6 DEF Apart
    <3>2. QED
      BY <2>5, <3>1
  <2>7. CASE r \in PendingRecs
    <3>1. ~FlushClear
      BY <2>2 DEF FlushClear, Timely, Behind
    <3>2. Delete
      <4>1. Process => pending' = pending
        BY DEF Process, dedupeVars
      <4>2. pending' = pending => PendingRecs' = PendingRecs
        BY DEF PendingRecs, Present
      <4>3. QED
        BY <1>4, <2>7, <3>1, <4>1, <4>2, WorkerSteps
    <3>3. PICK k \in Present : r = pending[k].rec
      BY <2>7 DEF PendingRecs
    <3>4. k \notin Present' \/ pending'[k] # pending[k]
      BY <1>4, <3>3 DEF PendingRecs
    <3>5. \E e \in popping : e.msg = k
      <4>1. PICK e \in popping : pending' = pending \/ pending' = [pending EXCEPT ![e.msg] = NoEntry]
        BY <3>2 DEF Delete
      <4>2. pending \in [Msg -> Entries \cup {NoEntry}] /\ k \in Msg
        BY DEF Shape, PendingShape, Present
      <4>3. e.msg = k
        BY <3>4, <4>1, <4>2 DEF Present
      <4>4. QED
        BY <4>3
    <3>6. pending[k].last + Window < clock
      BY <3>2, <3>5 DEF Folds, Aged, Delete
    <3>7. PICK d \in CopiesOf(r) : d.ts = pending[k].last
      BY <3>3 DEF Folds, Single
    <3>8. d.tx = c.tx /\ d \in heard
      BY <2>1, <3>7 DEF Folds, Single, CopiesOf
    <3>9. t.at <= d.ts
      <4>1. PICK v \in sent : v.n = d.tx /\ v.at <= d.ts
        BY <3>8, SightingOf
      <4>2. v = t
        BY <1>4, <2>3, <2>4, <3>8, <4>1
      <4>3. QED
        BY <4>1, <4>2
    <3>10. d.ts \in Nat
      BY <3>8, SightingOf
    <3>11. QED
      BY <2>5, <3>6, <3>7, <3>9, <3>10
  <2>8. QED
    BY <2>6, <2>7
<1>5. QED
  BY <1>3, <1>4 DEF Apart

\* Every step keeps records to one transmission each.
LEMMA FoldsKept ==
  ASSUME Shape, Phases, Timely, Identified, CopyPlaces, RecordPlaces, Sightings, Folds, [Next]_vars
  PROVE  Folds'
<1>1. CASE Process /\ item.msg # NoMsg
  BY <1>1, FoldKeepsFolds
<1>2. CASE ~(Process /\ item.msg # NoMsg)
  <2>1. opts.dedupe => Apart'
    BY <1>2, ApartKept
  <2>2. Aged' /\ \A m \in Present' : m \in Present /\ pending'[m] = pending[m]
    BY <1>2, AgedKept DEF Folds
  <2>3. recs' = recs /\ opts' = opts
    BY <1>2, MainSteps, WorkerSteps DEF Process, dedupeVars
  <2>4. \A r \in DOMAIN recs : CopiesOf(r)' = CopiesOf(r)
    BY <2>3, CopiesStep
  <2>5. \A r \in DOMAIN recs' : \A c, d \in CopiesOf(r)' : c.tx = d.tx
    BY <2>3, <2>4 DEF Folds, Single
  <2>6. ASSUME NEW m \in Present'
        PROVE  /\ \A c \in CopiesOf(pending[m].rec)' : c.msg = m
               /\ \E c \in CopiesOf(pending[m].rec)' : c.ts = pending'[m].last
    <3>1. m \in Present /\ pending'[m] = pending[m]
      BY <2>2
    <3>2. PICK q \in DOMAIN recs : q = pending[m].rec
      BY <3>1, EntryFacts, LenProperties DEF Shape, PendingShape, Present
    <3>3. CopiesOf(pending[m].rec)' = CopiesOf(q)'
      BY <3>1, <3>2 DEF CopiesOf
    <3>4. CopiesOf(pending[m].rec)' = CopiesOf(pending[m].rec)
      BY <2>4, <3>2, <3>3
    <3>5. QED
      BY <3>1, <3>4 DEF Folds, Single
  <2>7. Single'
    BY <2>5, <2>6 DEF Single
  <2>8. QED
    BY <2>1, <2>2, <2>3, <2>7 DEF Folds, WindowFits
<1>3. QED
  BY <1>1, <1>2

\* monitor writes one record for a transmission, with all copies that were
\* received of it and none of another: the repeats a mesh makes of a message
\* are folded, and the next sending of the same message is not.
THEOREM RecordIsTransmission == Spec /\ InTime /\ WindowFits => []RecordsAreTransmissions
<1> DEFINE Inv == Shape /\ Phases /\ Timely /\ Identified /\ CopyPlaces /\ RecordPlaces /\ Sightings /\ Folds
<1>1. Init /\ InTime /\ WindowFits => Identified /\ CopyPlaces /\ RecordPlaces /\ Sightings /\ Folds
  <2> SUFFICES ASSUME Init, InTime, WindowFits
               PROVE  Identified /\ CopyPlaces /\ RecordPlaces /\ Sightings /\ Folds
    OBVIOUS
  <2>1. Identified /\ CopyPlaces /\ RecordPlaces
    BY PlacesInit
  <2>2. /\ heard = {} /\ sent = {} /\ recs = <<>> /\ work = <<>> /\ Present = {} /\ worker = "get"
        /\ DOMAIN recs = {}
    BY DEF Init, Present
  <2>3. Sightings
    BY <2>2 DEF Sightings
  <2>4. Folds
    BY <2>2 DEF Folds, Single, Aged, Apart
  <2>5. QED
    BY <2>1, <2>3, <2>4
<1>2. Inv /\ [Next]_vars => (Identified /\ CopyPlaces /\ RecordPlaces /\ Sightings /\ Folds)'
  BY IdentifiedKept, CopyPlacesKept, RecordPlacesKept, SightingsKept, FoldsKept
<1>3. Folds => RecordsAreTransmissions
  BY DEF Folds, Single, Apart, RecordsAreTransmissions, OneRecordPerTransmission, SendingsKeptApart
<1>4. QED
  BY <1>1, <1>2, <1>3, TimelyHolds, PTL DEF Spec

(***************************************************************************)
(* The gathering that the log is.                                          *)
(***************************************************************************)
HeardIds   == Ids(heard)
LostIds    == lost \cap Ids(heard)
LogRecords == {w.copies : w \in written}
OnTheWay   == Queued \cup InHand

\* A record holds copies that were received.
Grounded ==
  /\ Folded \subseteq HeardIds
  /\ \A r \in DOMAIN recs : recs[r] # {}

\* The steps of the gathering, said of the receive loop and the log.
LEMMA GatheredNext ==
  ASSUME \/ /\ UNCHANGED <<HeardIds, Unwritten, LogRecords, LostIds>>
         \/ /\ UNCHANGED <<LogRecords, LostIds>>
            /\ \E c : c \notin HeardIds /\ HeardIds' = HeardIds \cup {c} /\ Unwritten' = Unwritten \cup {c}
         \/ /\ UNCHANGED HeardIds
            /\ \E S \in SUBSET Unwritten :
                  /\ Unwritten' = Unwritten \ S
                  /\ \/ S # {} /\ LogRecords' = LogRecords \cup {S} /\ LostIds' = LostIds
                     \/ LogRecords' = LogRecords /\ LostIds' = LostIds \cup S
         \/ /\ WritesFail /\ Unwritten' \subseteq Unwritten
            /\ UNCHANGED <<HeardIds, LogRecords, LostIds>>
  PROVE  [Gathered!Next]_(Gathered!vars)
<1>1. CASE UNCHANGED <<HeardIds, Unwritten, LogRecords, LostIds>>
  BY <1>1 DEF HeardIds, LostIds, LogRecords, Gathered!vars
<1>2. ASSUME UNCHANGED <<LogRecords, LostIds>>,
             NEW c, c \notin HeardIds, HeardIds' = HeardIds \cup {c}, Unwritten' = Unwritten \cup {c}
      PROVE  Gathered!Hear
  <2>1. c \in HeardIds' \ HeardIds
    BY <1>2
  <2>2. QED
    BY <1>2, <2>1 DEF HeardIds, LostIds, LogRecords, Gathered!Hear
<1>3. ASSUME UNCHANGED HeardIds, NEW S \in SUBSET Unwritten, Unwritten' = Unwritten \ S,
             \/ S # {} /\ LogRecords' = LogRecords \cup {S} /\ LostIds' = LostIds
             \/ LogRecords' = LogRecords /\ LostIds' = LostIds \cup S
      PROVE  Gathered!Tell \/ Gathered!Lose
  BY <1>3 DEF HeardIds, LostIds, LogRecords, Gathered!Tell, Gathered!Lose
<1>4. CASE WritesFail /\ Unwritten' \subseteq Unwritten /\ UNCHANGED <<HeardIds, LogRecords, LostIds>>
  BY <1>4 DEF HeardIds, LostIds, LogRecords, Gathered!Fail, Gathered!Next
<1>5. QED
  BY <1>1, <1>2, <1>3, <1>4 DEF Gathered!Next

\* The records in memory are those of the three places a record passes.
LEMMA WhereInMemory ==
  /\ InMemory = PendingRecs \cup Outs \cup Listed
  /\ InMemory' = PendingRecs' \cup Outs' \cup Listed'
BY DEF InMemory, Outs, Listed, Range

\* What is not written yet is on its way or in one of them.
LEMMA WhereUnwritten ==
  ASSUME Shape, Shape'
  PROVE  /\ \A x : x \in Unwritten <=>
                     x \in HeardIds /\ (x \in OnTheWay \/ \E r \in InMemory : x \in recs[r])
         /\ \A x : x \in Unwritten' <=>
                     x \in HeardIds' /\ (x \in OnTheWay' \/ \E r \in InMemory' : x \in recs'[r])
         /\ 0 \notin HeardIds /\ 0 \notin HeardIds'
<1>1. NoBlock.id = 0
  BY BlockFacts
<1>2. \A x : x # 0 => (x \in Ids(Underway) <=> x \in OnTheWay)
  <2> SUFFICES ASSUME NEW x, x # 0 PROVE x \in Ids(Underway) <=> x \in OnTheWay
    OBVIOUS
  <2>1. x \in Ids(Underway) <=> \E b \in Underway : b.id = x
    BY DEF Ids
  <2>2. ASSUME NEW b \in Underway, b.id = x PROVE x \in OnTheWay
    BY <2>2 DEF Underway, OnTheWay, Queued, InHand
  <2>3. ASSUME x \in Queued PROVE \E b \in Underway : b.id = x
    BY <2>3 DEF Underway, Queued
  <2>4. ASSUME x \in InHand PROVE \E b \in Underway : b.id = x
    BY <1>1, <2>4 DEF Underway, InHand
  <2>5. QED
    BY <2>1, <2>2, <2>3, <2>4 DEF OnTheWay
<1>3. \A x : x # 0 => (x \in Ids(Underway') <=> x \in OnTheWay')
  <2> SUFFICES ASSUME NEW x, x # 0 PROVE x \in Ids(Underway') <=> x \in OnTheWay'
    OBVIOUS
  <2>1. x \in Ids(Underway') <=> \E b \in Underway' : b.id = x
    BY DEF Ids
  <2>2. ASSUME NEW b \in Underway', b.id = x PROVE x \in OnTheWay'
    BY <2>2 DEF Underway, OnTheWay, Queued, InHand
  <2>3. ASSUME x \in Queued' PROVE \E b \in Underway' : b.id = x
    BY <2>3 DEF Underway, Queued
  <2>4. ASSUME x \in InHand' PROVE \E b \in Underway' : b.id = x
    BY <1>1, <2>4 DEF Underway, InHand
  <2>5. QED
    BY <2>1, <2>2, <2>3, <2>4 DEF OnTheWay
<1>4. 0 \notin HeardIds /\ 0 \notin HeardIds'
  <2>1. \A b \in Blocks : b.id # 0
    BY BlockFacts
  <2>2. heard \subseteq Blocks /\ heard' \subseteq Blocks
    BY DEF Shape, LogShape
  <2>3. QED
    BY <2>1, <2>2 DEF HeardIds, Ids
<1>5. \A x : x \in Unwritten <=> x \in HeardIds /\ (x \in Ids(Underway) \/ \E r \in InMemory : x \in recs[r])
  <2>1. \A x : x \in UNION {recs[r] : r \in InMemory} <=> \E r \in InMemory : x \in recs[r]
    OBVIOUS
  <2>2. QED
    BY <2>1 DEF Unwritten, HeardIds
<1>6. \A x : x \in Unwritten' <=>
               x \in HeardIds' /\ (x \in Ids(Underway') \/ \E r \in InMemory' : x \in recs'[r])
  <2>1. \A x : x \in UNION {recs'[r] : r \in InMemory'} <=> \E r \in InMemory' : x \in recs'[r]
    OBVIOUS
  <2>2. QED
    BY <2>1 DEF Unwritten, HeardIds, Ids
<1>7. QED
  BY <1>2, <1>3, <1>4, <1>5, <1>6

\* A copy is on its way to the deduper until it is folded or dropped.
LEMMA OnTheWayStep ==
  ASSUME Shape, Phases, Identified, CopyPlaces, [Next]_vars
  PROVE  /\ Copy \/ Junk => OnTheWay' = OnTheWay \cup {blocks + 1}
         /\ Drop \/ Signal => /\ OnTheWay' = OnTheWay \ {held.id}
                              /\ lost' = IF held.id = 0 THEN lost ELSE lost \cup {held.id}
         /\ Process => OnTheWay' = OnTheWay \ {item.id} /\ item.id \in OnTheWay
         /\ Copy \/ Junk \/ Drop \/ Signal \/ Process \/ OnTheWay' = OnTheWay
<1>1. /\ held.id # 0 => held.id # item.id
      /\ Queued \cap InHand = {}
  BY DEF CopyPlaces
<1>2. NoBlock.id = 0 /\ held.id \in Nat /\ item.id \in Nat /\ blocks \in Nat /\ 0 \notin Queued
  BY BlockFacts DEF Shape, Counters, MainShape, WorkerShape, Queued
<1>3. CASE Copy \/ Junk
  <2>1. PICK m \in Msg \cup {NoMsg}, n \in Nat : Receive(Block(m, n))
    BY <1>3 DEF Copy, Junk, Shape, Counters
  <2>2. held'.id = blocks + 1 /\ held.id = 0
    <3>1. Block(m, n).id = blocks + 1
      BY DEF Block
    <3>2. QED
      BY <2>1, <3>1 DEF Receive, Shape, MainShape
  <2>3. Queued' = Queued /\ item' = item
    BY <2>1 DEF Receive, Queued, workerVars
  <2>4. InHand' = InHand \cup {blocks + 1}
    BY <1>2, <2>2, <2>3 DEF InHand
  <2>5. ~Drop /\ ~Signal /\ ~Process
    <3>1. main = "receive" /\ main' = "put" /\ item' = item /\ worker' = worker /\ signals' = signals
      BY <2>1 DEF Receive, workerVars
    <3>2. Drop => main = "put"
      BY DEF Drop
    <3>3. Signal => signals' = signals + 1 /\ signals \in Nat
      BY DEF Signal, Shape, Counters
    <3>4. Process => worker = "process" /\ worker' \in {"pop", "get"}
      BY DEF Process, AfterBlock
    <3>5. QED
      BY <3>1, <3>2, <3>3, <3>4
  <2>6. QED
    BY <1>3, <2>3, <2>4, <2>5 DEF OnTheWay
<1>4. CASE Put
  <2>1. held.id # 0 /\ held' = NoBlock /\ item' = item
    BY <1>4 DEF Put, Shape, MainShape, workerVars
  <2>2. Queued' = Queued \cup {held.id} /\ InHand' = InHand \ {held.id} /\ held.id \in InHand
    BY <1>1, <1>2, <1>4, <2>1, QueuedStep DEF InHand
  <2>3. OnTheWay' = OnTheWay
    BY <2>2 DEF OnTheWay
  <2>4. ~Copy /\ ~Junk /\ ~Drop /\ ~Signal /\ ~Process
    <3>1. main = "put" /\ work' # work /\ worker' = worker
      <4>1. Len(work') = Len(work) + 1 /\ Len(work) \in Nat
        BY <1>4, QueueFacts, BlockFacts DEF Put, Shape, MainShape
      <4>2. QED
        BY <1>4, <4>1 DEF Put, workerVars
    <3>2. Copy \/ Junk => main = "receive"
      BY DEF Copy, Junk, Receive
    <3>3. Drop \/ Signal \/ Process => work' = work
      BY DEF Drop, Signal, Process
    <3>4. QED
      BY <3>1, <3>2, <3>3
  <2>5. QED
    BY <2>3, <2>4
<1>5. CASE Drop \/ Signal
  <2>1. item' = item /\ Queued' = Queued /\ held' = NoBlock
    BY <1>5 DEF Drop, Signal, Queued, workerVars
  <2>2. InHand' = InHand \ {held.id}
    BY <1>1, <1>2, <2>1 DEF InHand
  <2>3. held.id \notin Queued
    BY <1>1, <1>2 DEF InHand
  <2>4. lost' = IF held.id = 0 THEN lost ELSE lost \cup {held.id}
    BY <1>5 DEF Drop, Signal, Shape, MainShape
  <2>5. ~Copy /\ ~Junk /\ ~Process
    <3>1. held'.id = 0 /\ worker' = worker
      BY <1>2, <1>5, <2>1 DEF Drop, Signal, workerVars
    <3>2. Copy \/ Junk => held'.id # 0
      <4>1. ASSUME NEW m, NEW n, Receive(Block(m, n)) PROVE held'.id # 0
        BY <1>2, <4>1 DEF Receive, Block
      <4>2. QED
        BY <4>1 DEF Copy, Junk
    <3>3. Process => worker = "process" /\ worker' \in {"pop", "get"}
      BY DEF Process, AfterBlock
    <3>4. QED
      BY <3>1, <3>2, <3>3
  <2>6. QED
    BY <1>5, <2>1, <2>2, <2>3, <2>4, <2>5 DEF OnTheWay
<1>6. CASE Get
  <2>1. held' = held /\ item.id = 0 /\ worker = "get"
    BY <1>6 DEF Get, mainVars, Shape, WorkerShape
  <2>2. OnTheWay' = OnTheWay
    <3>1. CASE Head(work).id = 0
      <4>1. Queued' = Queued /\ item' = item
        BY <1>6, <3>1, QueuedStep DEF Get, Queued
      <4>2. QED
        BY <2>1, <4>1 DEF InHand, OnTheWay
    <3>2. CASE Head(work).id # 0
      <4>1. item' = Head(work) /\ Head(work).id \in Queued /\ Queued' = Queued \ {Head(work).id}
        BY <1>6, <3>2, QueuedStep DEF Get
      <4>2. InHand' = InHand \cup {Head(work).id}
        BY <2>1, <3>2, <4>1 DEF InHand
      <4>3. QED
        BY <4>1, <4>2 DEF OnTheWay
    <3>3. QED
      BY <3>1, <3>2
  <2>3. ~Copy /\ ~Junk /\ ~Drop /\ ~Signal /\ ~Process
    <3>1. worker' \in {"returned", "process"}
      BY <1>6 DEF Get
    <3>2. Copy \/ Junk \/ Drop \/ Signal => worker' = worker
      BY DEF Copy, Junk, Receive, Drop, Signal, workerVars
    <3>3. Process => worker = "process"
      BY DEF Process
    <3>4. QED
      BY <2>1, <3>1, <3>2, <3>3
  <2>4. QED
    BY <2>2, <2>3
<1>7. CASE Process
  <2>1. item.id # 0 /\ item.id \in InHand /\ item' = NoBlock /\ held' = held /\ Queued' = Queued
    BY <1>7 DEF Process, Shape, WorkerShape, InHand, mainVars, Queued
  <2>2. InHand' = InHand \ {item.id} /\ item.id \notin Queued
    BY <1>1, <1>2, <2>1 DEF InHand
  <2>3. ~Copy /\ ~Junk /\ ~Drop /\ ~Signal
    <3>1. worker = "process" /\ worker' \in {"pop", "get"}
      BY <1>7 DEF Process, AfterBlock
    <3>2. Copy \/ Junk \/ Drop \/ Signal => worker' = worker
      BY DEF Copy, Junk, Receive, Drop, Signal, workerVars
    <3>3. QED
      BY <3>1, <3>2
  <2>4. QED
    BY <1>7, <2>1, <2>2, <2>3 DEF OnTheWay
<1>8. CASE ~Copy /\ ~Junk /\ ~Put /\ ~Drop /\ ~Signal /\ ~Get /\ ~Process
  <2>1. held' = held /\ item' = item /\ Queued' = Queued
    BY <1>8, MainSteps, WorkerSteps, QueuedStep
  <2>2. QED
    BY <1>8, <2>1 DEF OnTheWay, InHand
<1>9. QED
  BY <1>3, <1>4, <1>5, <1>6, <1>7, <1>8

\* Writing a record puts its copies among the told ones.
LEMMA LogTells ==
  ASSUME NEW r, NEW c, NEW b, written' = written \cup {[rec |-> r, copies |-> c, by |-> b]}
  PROVE  LogRecords' = LogRecords \cup {c}
<1> DEFINE w == [rec |-> r, copies |-> c, by |-> b]
<1>1. w.copies = c
  OBVIOUS
<1> HIDE DEF w
<1>2. written' = written \cup {w}
  BY DEF w
<1>3. \A x : x \in {v.copies : v \in written \cup {w}} <=> x \in {v.copies : v \in written} \/ x = w.copies
  OBVIOUS
<1>4. QED
  BY <1>1, <1>2, <1>3 DEF LogRecords

\* A record is in memory from when it is made until it is written: the worker's
\* deletions and flush() move it, a write ends it, and so does one that fails.
LEMMA InMemoryStep ==
  ASSUME Shape, Phases, Timely, RecordPlaces, [Next]_vars, ~Process
  PROVE  /\ recs' = recs
         /\ \/ InMemory' = InMemory /\ LogRecords' = LogRecords
            \/ /\ Emit \/ FinalWrite
               /\ \E h \in InMemory :
                     /\ InMemory' = InMemory \ {h}
                     /\ LogRecords' = LogRecords \cup {recs[h]}
            \/ /\ Emit \/ FinalWrite
               /\ WritesFail /\ InMemory' \subseteq InMemory /\ LogRecords' = LogRecords
<1> DEFINE P == PendingRecs
<1>r. recs' = recs
  BY WorkerSteps
<1>m. InMemory = P \cup Outs \cup Listed /\ InMemory' = PendingRecs' \cup Outs' \cup Listed'
  BY WhereInMemory
<1>i. IsInjective(out) /\ IsInjective(listed)
  BY DEF RecordPlaces
<1>p. P \cap (Outs \cup Logs) = {} /\ Outs \cap (Listed \cup Logs) = {}
  BY DEF RecordPlaces
<1>c. /\ main \notin {"clear", "aborted"} => Listed \cap P = {}
      /\ main = "clear" => Listed = P
      /\ main \in {"write", "close", "exit"} => P = {}
  BY DEF RecordPlaces
<1>d. worker = "delete" => \A e \in popping : pending[e.msg].rec = e.rec
  BY DEF RecordPlaces
<1>b. main \in Behind => worker \in Stopped
  BY DEF Timely
<1>q. out \in Seq(Nat \ {0}) /\ listed \in Seq(Nat \ {0}) /\ popping \subseteq [msg : Msg, rec : Nat \ {0}]
  BY DEF Shape, MainShape, WorkerShape
<1>e. /\ main \notin {"clear", "write", "aborted"} => listed = <<>>
      /\ worker \notin {"delete", "emit", "dead"} => out = <<>>
      /\ Range(<<>>) = {}
  BY DEF Phases, Range
<1>x. \A m \in Msg : pending[m].rec \in Nat /\ (pending[m] = NoEntry <=> pending[m].rec = 0)
  BY EntryFacts DEF Shape
<1>y. P = {pending[m].rec : m \in Msg} \ {0}
  BY EntryFacts DEF Shape
<1>z. PendingRecs' = {pending'[m].rec : m \in Msg} \ {0}
  <2>1. \A e \in Entries \cup {NoEntry} : e = NoEntry <=> e.rec = 0
    BY DEF Entries, NoEntry
  <2>2. \A m \in Msg : pending'[m] = NoEntry <=> pending'[m].rec = 0
    BY <2>1, ShapeKept DEF Shape, PendingShape
  <2>3. QED
    BY <2>2 DEF PendingRecs, Present
<1>w. written' = written => LogRecords' = LogRecords
  BY DEF LogRecords
<1>u. pending' = pending => PendingRecs' = P
  BY <1>y, <1>z
<1> HIDE DEF P
<1>1. CASE FlushList
  <2>1. Range(listed') = P /\ main = "flush" /\ out' = out /\ written' = written /\ pending' = pending
    BY <1>1, FlushLists DEF Shape, FlushList, P, workerVars, dedupeVars, logVars
  <2>2. Listed = {} /\ Listed' = P /\ Outs' = Outs /\ PendingRecs' = P
    BY <1>e, <1>u, <2>1 DEF Listed, Outs
  <2>3. QED
    BY <1>m, <1>r, <1>w, <2>1, <2>2
<1>2. CASE FlushClear
  <2>1. main = "clear" /\ pending' = [m \in Msg |-> NoEntry] /\ out' = out /\ listed' = listed /\ written' = written
    BY <1>2 DEF FlushClear, workerVars, logVars
  <2>2. PendingRecs' = {} /\ Listed' = Listed /\ Outs' = Outs
    BY <1>z, <2>1 DEF NoEntry, Listed, Outs
  <2>3. QED
    BY <1>c, <1>m, <1>r, <1>w, <2>1, <2>2
<1>3. CASE FinalWrite
  <2> DEFINE h == Head(listed)
  <2>1. main = "write" /\ listed # <<>> /\ listed' = Tail(listed) /\ out' = out /\ pending' = pending
    BY <1>3 DEF FinalWrite, workerVars, dedupeVars
  <2>2. \/ written' = written \cup {[rec |-> h, copies |-> recs[h], by |-> "main"]}
        \/ WritesFail /\ written' = written
    BY <1>3 DEF FinalWrite, Logged
  <2>3. h \in Listed /\ Listed' = Listed \ {h}
    BY <1>i, <1>q, <2>1, ListFacts DEF Listed
  <2> HIDE DEF h
  <2>4. LogRecords' = LogRecords \cup {recs[h]} \/ (WritesFail /\ LogRecords' = LogRecords)
    <3>1. CASE written' = written \cup {[rec |-> h, copies |-> recs[h], by |-> "main"]}
      BY <3>1, LogTells
    <3>2. CASE WritesFail /\ written' = written
      BY <1>w, <3>2
    <3>3. QED
      BY <2>2, <3>1, <3>2
  <2>5. PendingRecs' = P /\ P = {} /\ Outs' = Outs /\ h \notin Outs
    BY <1>c, <1>p, <1>u, <2>1, <2>3 DEF Outs
  <2>6. h \in InMemory /\ InMemory' = InMemory \ {h}
    BY <1>m, <2>3, <2>5
  <2>7. QED
    BY <1>3, <1>r, <2>4, <2>6
<1>4. CASE Snapshot
  <2>1. out = <<>> /\ out' = <<>> /\ listed' = listed /\ pending' = pending /\ written' = written
    BY <1>4, <1>e DEF Snapshot, mainVars, dedupeVars, logVars
  <2>2. PendingRecs' = P /\ Listed' = Listed /\ Outs' = Outs
    BY <1>u, <2>1 DEF Listed, Outs
  <2>3. QED
    BY <1>m, <1>r, <1>w, <2>1, <2>2
<1>5. CASE Delete
  <2>1. PICK e \in popping : IF pending[e.msg] = NoEntry
                             THEN worker' = "dead" /\ UNCHANGED <<out, pending>>
                             ELSE /\ out' = Append(out, e.rec)
                                  /\ pending' = [pending EXCEPT ![e.msg] = NoEntry]
    BY <1>5 DEF Delete
  <2>2. worker = "delete" /\ listed' = listed /\ written' = written
    BY <1>5 DEF Delete, mainVars, logVars
  <2>3. e.msg \in Msg /\ e.rec \in Nat \ {0} /\ pending[e.msg].rec = e.rec
    BY <1>d, <1>q, <2>2
  <2>4. out' = Append(out, e.rec) /\ pending' = [pending EXCEPT ![e.msg] = NoEntry]
    BY <1>x, <2>1, <2>3
  <2>5. pending'[e.msg].rec = 0 /\ \A m \in Msg \ {e.msg} : pending'[m] = pending[m]
    <3>1. pending \in [Msg -> Entries \cup {NoEntry}]
      BY DEF Shape, PendingShape
    <3>2. QED
      BY <2>3, <2>4, <3>1 DEF NoEntry
  <2>6. e.rec \in P /\ P \ {e.rec} \subseteq PendingRecs' /\ PendingRecs' \subseteq P
    <3>1. e.rec \in P
      BY <1>y, <2>3
    <3>2. ASSUME NEW k \in P, k # e.rec PROVE k \in PendingRecs'
      <4>1. PICK m \in Msg : k = pending[m].rec /\ k # 0
        BY <1>y
      <4>2. pending'[m].rec = k
        BY <2>3, <2>5, <3>2, <4>1
      <4>3. QED
        BY <1>z, <4>1, <4>2
    <3>3. ASSUME NEW k \in PendingRecs' PROVE k \in P
      <4>1. PICK m \in Msg : k = pending'[m].rec /\ k # 0
        BY <1>z
      <4>2. pending[m].rec = k
        BY <2>5, <4>1
      <4>3. QED
        BY <1>y, <4>1, <4>2
    <3>4. QED
      BY <3>1, <3>2, <3>3
  <2>7. Outs' = Outs \cup {e.rec} /\ Listed' = Listed
    BY <1>i, <1>q, <2>2, <2>3, <2>4, ListFacts DEF Outs, Listed
  <2>8. InMemory' = InMemory
    BY <1>m, <2>6, <2>7
  <2>9. QED
    BY <1>r, <1>w, <2>2, <2>8
<1>6. CASE Emit
  <2> DEFINE h == Head(out)
  <2>1. /\ out # <<>> /\ listed' = listed /\ pending' = pending
        /\ \/ /\ written' = written \cup {[rec |-> h, copies |-> recs[h], by |-> "worker"]}
              /\ out' = Tail(out)
           \/ WritesFail /\ out' = <<>> /\ written' = written
    BY <1>6 DEF Emit, Logged, mainVars, dedupeVars
  <2>2. h \in Outs /\ Range(Tail(out)) = Outs \ {h}
    BY <1>i, <1>q, <2>1, ListFacts DEF Outs
  <2>3. PendingRecs' = P /\ Listed' = Listed
    BY <1>u, <2>1 DEF Listed
  <2> HIDE DEF h
  <2>4. h \notin P /\ h \notin Listed
    BY <1>p, <2>2
  <2>5. CASE /\ written' = written \cup {[rec |-> h, copies |-> recs[h], by |-> "worker"]}
             /\ out' = Tail(out)
    <3>1. Outs' = Outs \ {h} /\ LogRecords' = LogRecords \cup {recs[h]}
      BY <2>2, <2>5, LogTells DEF Outs
    <3>2. h \in InMemory /\ InMemory' = InMemory \ {h}
      BY <1>m, <2>2, <2>3, <2>4, <3>1
    <3>3. QED
      BY <1>6, <1>r, <3>1, <3>2
  <2>6. CASE WritesFail /\ out' = <<>> /\ written' = written
    <3>1. Outs' = {}
      BY <1>e, <2>6 DEF Outs
    <3>2. InMemory' \subseteq InMemory
      BY <1>m, <2>3, <3>1
    <3>3. QED
      BY <1>6, <1>r, <1>w, <2>6, <3>2
  <2>7. QED
    BY <2>1, <2>5, <2>6
<1>7. CASE UNCHANGED <<listed, out, pending, written>>
  <2>1. PendingRecs' = P /\ Outs' = Outs /\ Listed' = Listed
    BY <1>7, <1>u DEF Outs, Listed
  <2>2. QED
    BY <1>7, <1>m, <1>r, <1>w, <2>1
<1>8. QED
  BY <1>1, <1>2, <1>3, <1>4, <1>5, <1>6, <1>7, MainSteps, WorkerSteps

\* A record never leaves the memory while it is empty, and holds no junk.
LEMMA GroundedKept ==
  ASSUME Shape, Identified, Grounded, [Next]_vars
  PROVE  Grounded'
<1>1. HeardIds \subseteq HeardIds'
  <2>1. heard \subseteq heard'
    BY MainSteps DEF Copy, Junk, Receive
  <2>2. QED
    BY <2>1 DEF HeardIds, Ids
<1>2. CASE recs' = recs
  <2>1. Folded' = Folded
    BY <1>2 DEF Folded
  <2>2. QED
    BY <1>1, <1>2, <2>1 DEF Grounded
<1>3. CASE Process /\ item.msg = NoMsg
  BY <1>2, <1>3 DEF Process, dedupeVars
<1>4. CASE Process /\ item.msg # NoMsg
  <2>1. PICK r \in Nat \ {0} : Joins(r)
    BY <1>4, FoldStep
  <2>2. DOMAIN recs' = DOMAIN recs \cup {r} /\ \A q \in DOMAIN recs \ {r} : recs'[q] = recs[q]
    BY <2>1 DEF Joins
  <2>3. recs'[r] = (IF r \in DOMAIN recs THEN recs[r] ELSE {}) \cup {item.id}
    BY <2>1 DEF Joins
  <2>4. Folded' = Folded \cup {item.id}
    BY <2>2, <2>3 DEF Folded
  <2>5. item.id \in HeardIds
    <3>1. item.id # 0
      BY <1>4 DEF Process, Shape, WorkerShape
    <3>2. item \in heard
      BY <1>4, <3>1 DEF Identified, Known
    <3>3. QED
      BY <3>2 DEF HeardIds, Ids
  <2>6. \A q \in DOMAIN recs' : recs'[q] # {}
    BY <2>2, <2>3 DEF Grounded
  <2>7. QED
    BY <1>1, <2>4, <2>5, <2>6 DEF Grounded
<1>5. QED
  BY <1>2, <1>3, <1>4, WorkerSteps

\* A step of the pipeline is a step of the gathering.
LEMMA StepsGather ==
  ASSUME Shape, Shape', Phases, Timely, Identified, CopyPlaces, RecordPlaces, Grounded, [Next]_vars
  PROVE  [Gathered!Next]_(Gathered!vars)
<1> DEFINE H == HeardIds
           U == Unwritten
           W == OnTheWay
           M == InMemory
           HN == HeardIds'
           UN == Unwritten'
           WN == OnTheWay'
           MN == InMemory'
<1>1. /\ \A x : x \in U <=> x \in H /\ (x \in W \/ \E r \in M : x \in recs[r])
      /\ \A x : x \in UN <=> x \in HN /\ (x \in WN \/ \E r \in MN : x \in recs'[r])
      /\ 0 \notin H
  BY WhereUnwritten
<1>2. /\ Copy \/ Junk => WN = W \cup {blocks + 1}
      /\ Drop \/ Signal => /\ WN = W \ {held.id}
                           /\ lost' = IF held.id = 0 THEN lost ELSE lost \cup {held.id}
      /\ Process => WN = W \ {item.id} /\ item.id \in W
      /\ Copy \/ Junk \/ Drop \/ Signal \/ Process \/ WN = W
  BY OnTheWayStep
<1>3. /\ W \cap Folded = {} /\ W \cap lost = {} /\ M \subseteq DOMAIN recs
      /\ \A r, q \in DOMAIN recs : r # q => recs[r] \cap recs[q] = {}
  BY WhereInMemory DEF CopyPlaces, RecordPlaces, OnTheWay
<1>4. \A r \in DOMAIN recs : recs[r] \subseteq Folded /\ recs[r] \subseteq H /\ recs[r] # {}
  BY DEF Grounded, Folded
<1>5. heard' = heard => HN = H
  BY DEF HeardIds
<1>6. heard' = heard /\ lost' = lost => LostIds' = LostIds
  BY DEF LostIds
<1>7. LostIds = lost \cap H /\ LostIds' = lost' \cap HN
  BY DEF LostIds, HeardIds
<1> HIDE DEF H, U, W, M, HN, UN, WN, MN
<1>8. CASE Copy \/ Junk
  <2>1. PICK m \in Msg \cup {NoMsg}, n \in Nat : Receive(Block(m, n))
    BY <1>8 DEF Copy, Junk, Shape, Counters
  <2>2. UNCHANGED <<workerVars, dedupeVars, lost, written, listed, work>> /\ ~Process
    <3>1. UNCHANGED <<workerVars, dedupeVars, lost, written, listed, work>>
      BY <2>1 DEF Receive
    <3>2. Process => worker = "process" /\ worker' \in {"pop", "get"}
      BY DEF Process, AfterBlock
    <3>3. QED
      BY <3>1, <3>2 DEF workerVars
  <2>3. MN = M /\ recs' = recs /\ LogRecords' = LogRecords
    BY <2>2 DEF M, MN, InMemory, PendingRecs, Present, LogRecords, workerVars, dedupeVars
  <2>4. Block(m, n).id = blocks + 1
    BY DEF Block
  <2>5. heard' = heard \/ heard' = heard \cup {Block(m, n)}
    BY <2>1 DEF Receive
  <2>6. blocks + 1 \notin H /\ blocks + 1 \notin lost
    <3>1. blocks \in Nat /\ lost \subseteq 1..blocks /\ \A c \in heard : c.id <= blocks
      BY DEF Shape, Counters, LogShape, Identified
    <3>2. QED
      BY <3>1 DEF H, HeardIds, Ids
  <2>7. WN = W \cup {blocks + 1}
    BY <1>2, <1>8
  <2>8. CASE heard' = heard
    <3>1. HN = H /\ LostIds' = LostIds
      BY <1>5, <1>6, <2>2, <2>8
    <3>2. \A x : x \in UN <=> x \in U
      BY <1>1, <2>3, <2>6, <2>7, <3>1
    <3>3. UN = U
      BY <3>2
    <3>4. QED
      BY <2>3, <3>1, <3>3, GatheredNext DEF H, U, HN, UN
  <2>9. CASE heard' = heard \cup {Block(m, n)}
    <3>1. HN = H \cup {blocks + 1}
      BY <2>4, <2>9 DEF H, HN, HeardIds, Ids
    <3>2. LostIds' = LostIds
      BY <1>7, <2>2, <2>6, <3>1
    <3>3. \A x : x \in UN <=> x \in U \/ x = blocks + 1
      BY <1>1, <2>3, <2>7, <3>1
    <3>4. UN = U \cup {blocks + 1}
      BY <3>3
    <3>5. QED
      BY <2>3, <2>6, <3>1, <3>2, <3>4, GatheredNext DEF H, U, HN, UN
  <2>10. QED
    BY <2>5, <2>8, <2>9
<1>9. ASSUME ~Process, ~Copy, ~Junk
      PROVE  /\ recs' = recs /\ HN = H
             /\ \/ MN = M /\ LogRecords' = LogRecords
                \/ /\ Emit \/ FinalWrite
                   /\ \E h \in M : MN = M \ {h} /\ LogRecords' = LogRecords \cup {recs[h]}
                \/ /\ Emit \/ FinalWrite
                   /\ WritesFail /\ MN \subseteq M /\ LogRecords' = LogRecords
  BY <1>5, <1>9, InMemoryStep, MainSteps DEF M, MN
<1>10. CASE Drop \/ Signal
  <2>1. UNCHANGED <<workerVars, dedupeVars, written, listed, heard>> /\ ~Process
    <3>1. UNCHANGED <<workerVars, dedupeVars, written, listed, heard>>
      BY <1>10 DEF Drop, Signal, logVars
    <3>2. Process => worker = "process" /\ worker' \in {"pop", "get"}
      BY DEF Process, AfterBlock
    <3>3. QED
      BY <3>1, <3>2 DEF workerVars
  <2>2. MN = M /\ recs' = recs /\ LogRecords' = LogRecords /\ HN = H
    BY <1>5, <2>1 DEF M, MN, InMemory, PendingRecs, Present, LogRecords, workerVars, dedupeVars
  <2>3. WN = W \ {held.id} /\ lost' = IF held.id = 0 THEN lost ELSE lost \cup {held.id}
    BY <1>2, <1>10
  <2>4. held.id # 0 => held.id \in W
    BY DEF W, OnTheWay, InHand
  <2> DEFINE S == {held.id} \cap H
  <2>5. S \subseteq U
    BY <1>1, <2>4
  <2>6. \A x : x \in UN <=> x \in U /\ x \notin S
    <3>1. ASSUME NEW r \in M PROVE held.id = 0 \/ held.id \notin recs[r]
      BY <1>3, <1>4, <2>4
    <3>2. QED
      BY <1>1, <2>2, <2>3, <3>1
  <2>7. UN = U \ S
    BY <2>6
  <2>8. LostIds' = LostIds \cup S
    BY <1>1, <1>7, <2>2, <2>3
  <2>9. QED
    <3> HIDE DEF S
    <3>1. QED
      BY <2>2, <2>5, <2>7, <2>8, GatheredNext DEF H, U, HN, UN
<1>11. CASE Process
  <2>1. UNCHANGED <<heard, lost, out, listed>> /\ HN = H /\ LostIds' = LostIds
    BY <1>5, <1>6, <1>11 DEF Process, mainVars
  <2>2. WN = W \ {item.id} /\ item.id \in W /\ item.id \notin Folded /\ item.id # 0
    BY <1>2, <1>3, <1>11 DEF Process, Shape, WorkerShape
  <2>3. CASE item.msg = NoMsg
    <3>1. UNCHANGED <<recs, pending, written>>
      BY <1>11, <2>3 DEF Process, dedupeVars
    <3>2. MN = M /\ LogRecords' = LogRecords
      BY <2>1, <3>1 DEF M, MN, InMemory, PendingRecs, Present, LogRecords
    <3>3. item.id \notin H
      BY <2>2, <2>3 DEF Identified, Known, H, HeardIds, Ids
    <3>4. \A x : x \in UN <=> x \in U
      BY <1>1, <2>1, <2>2, <3>1, <3>2, <3>3
    <3>5. UN = U
      BY <3>4
    <3>6. QED
      BY <2>1, <3>2, <3>5, GatheredNext DEF H, U, HN, UN
  <2>4. CASE item.msg # NoMsg
    <3>1. item.msg \in Msg /\ item.id \in H
      BY <1>11, <2>2, <2>4, FoldStep DEF Identified, Known, H, HeardIds, Ids
    <3>2. PICK r \in Nat \ {0} : Joins(r)
      BY <1>11, <2>4, FoldStep
    <3>3. /\ DOMAIN recs' = DOMAIN recs \cup {r} /\ \A q \in DOMAIN recs \ {r} : recs'[q] = recs[q]
          /\ recs'[r] = (IF r \in DOMAIN recs THEN recs[r] ELSE {}) \cup {item.id}
          /\ r \in DOMAIN recs => opts.dedupe /\ pending[item.msg].rec = r
      BY <3>2 DEF Joins
    <3>4. M = PendingRecs \cup Outs \cup Listed /\ MN = PendingRecs' \cup Outs' \cup Listed'
      BY WhereInMemory DEF M, MN
    <3>5. Outs' = Outs /\ Listed' = Listed
      BY <2>1 DEF Outs, Listed
    <3>6. r \in DOMAIN recs => r \in M
      <4>1. r \in DOMAIN recs => r \in PendingRecs
        BY <3>1, <3>3, EntryFacts DEF Shape
      <4>2. QED
        BY <3>4, <4>1
    <3>7. CASE opts.dedupe
      <4>1. PendingRecs' = PendingRecs \cup {r}
        <5>1. /\ pending' = [pending EXCEPT ![item.msg] = [rec |-> r, last |-> item.ts]]
              /\ pending[item.msg].rec \in {0, r} /\ pending \in [Msg -> Entries \cup {NoEntry}]
          BY <3>2, <3>7 DEF Joins, Shape, PendingShape
        <5>2. pending'[item.msg].rec = r /\ \A m \in Msg \ {item.msg} : pending'[m] = pending[m]
          BY <3>1, <5>1
        <5>3. PendingRecs = {pending[m].rec : m \in Msg} \ {0}
          BY EntryFacts DEF Shape
        <5>4. PendingRecs' = {pending'[m].rec : m \in Msg} \ {0}
          <6>1. \A e \in Entries \cup {NoEntry} : e = NoEntry <=> e.rec = 0
            BY DEF Entries, NoEntry
          <6>2. \A m \in Msg : pending'[m] = NoEntry <=> pending'[m].rec = 0
            BY <6>1 DEF Shape, PendingShape
          <6>3. QED
            BY <6>2 DEF PendingRecs, Present
        <5>5. \A m \in Msg : pending'[m].rec \in {pending[k].rec : k \in Msg} \cup {r}
          BY <5>2
        <5>6. \A m \in Msg : pending[m].rec \in {pending'[k].rec : k \in Msg} \cup {0, r}
          BY <3>1, <5>1, <5>2
        <5>7. r \in {pending'[k].rec : k \in Msg}
          BY <3>1, <5>2
        <5>8. QED
          BY <5>3, <5>4, <5>5, <5>6, <5>7
      <4>2. MN = M \cup {r} /\ written' = written
        BY <3>2, <3>4, <3>5, <3>7, <4>1 DEF Joins
      <4>3. LogRecords' = LogRecords
        BY <4>2 DEF LogRecords
      <4>4. \A x : (\E q \in MN : x \in recs'[q]) <=> (\E q \in M : x \in recs[q]) \/ x = item.id
        <5>1. \A q \in M \ {r} : recs'[q] = recs[q]
          BY <1>3, <3>3
        <5>2. CASE r \in DOMAIN recs
          <6>1. recs'[r] = recs[r] \cup {item.id} /\ r \in M /\ MN = M
            BY <3>3, <3>6, <4>2, <5>2
          <6>2. QED
            BY <5>1, <6>1
        <5>3. CASE r \notin DOMAIN recs
          <6>1. recs'[r] = {item.id} /\ r \notin M
            BY <1>3, <3>3, <5>3
          <6>2. QED
            BY <4>2, <5>1, <6>1
        <5>4. QED
          BY <5>2, <5>3
      <4>5. \A x : x \in UN <=> x \in U
        BY <1>1, <2>1, <2>2, <4>4
      <4>6. UN = U
        BY <4>5
      <4>7. QED
        BY <2>1, <4>3, <4>6, GatheredNext DEF H, U, HN, UN
    <3>8. CASE ~opts.dedupe
      <4>1. /\ pending' = pending /\ r \notin DOMAIN recs
            /\ \/ written' = written \cup {[rec |-> r, copies |-> {item.id}, by |-> "worker"]}
               \/ WritesFail /\ written' = written
        BY <3>2, <3>8 DEF Joins
      <4>2. MN = M
        BY <3>4, <3>5, <4>1 DEF PendingRecs, Present
      <4>3. \A q \in M : recs'[q] = recs[q] /\ item.id \notin recs[q]
        BY <1>3, <1>4, <2>2, <3>3, <4>1
      <4>4. \A x : x \in UN <=> x \in U /\ x # item.id
        BY <1>1, <2>1, <2>2, <4>2, <4>3
      <4>5. UN = U \ {item.id} /\ item.id \in U
        BY <1>1, <2>2, <3>1, <4>4
      <4>6. \/ LogRecords' = LogRecords \cup {{item.id}}
            \/ WritesFail /\ LogRecords' = LogRecords
        BY <4>1, LogTells DEF LogRecords
      <4>7. QED
        <5>1. CASE LogRecords' = LogRecords \cup {{item.id}}
          <6> DEFINE S == {item.id}
          <6>1. S \in SUBSET U /\ S # {} /\ UN = U \ S /\ LogRecords' = LogRecords \cup {S}
            BY <4>5, <5>1
          <6> HIDE DEF S
          <6>2. QED
            BY <2>1, <6>1, GatheredNext DEF H, U, HN, UN
        <5>2. CASE WritesFail /\ LogRecords' = LogRecords
          BY <2>1, <4>5, <5>2, GatheredNext DEF H, U, HN, UN
        <5>3. QED
          BY <4>6, <5>1, <5>2
    <3>9. QED
      BY <3>7, <3>8
  <2>5. QED
    BY <2>3, <2>4
<1>12. CASE ~Copy /\ ~Junk /\ ~Drop /\ ~Signal /\ ~Process
  <2>1. recs' = recs /\ HN = H /\ WN = W /\ lost' = lost /\ LostIds' = LostIds
    BY <1>2, <1>6, <1>9, <1>12, MainSteps
  <2>2. CASE MN = M /\ LogRecords' = LogRecords
    <3>1. \A x : x \in UN <=> x \in U
      BY <1>1, <2>1, <2>2
    <3>2. UN = U
      BY <3>1
    <3>3. QED
      BY <2>1, <2>2, <3>2, GatheredNext DEF H, U, HN, UN
  <2>3. ASSUME NEW h \in M, MN = M \ {h}, LogRecords' = LogRecords \cup {recs[h]}
        PROVE  [Gathered!Next]_(Gathered!vars)
    <3> DEFINE S == recs[h]
    <3>1. S \subseteq H /\ S # {} /\ S \cap W = {}
      BY <1>3, <1>4
    <3>2. \A r \in M \ {h} : recs[r] \cap S = {}
      BY <1>3
    <3>3. S \in SUBSET U
      BY <1>1, <3>1
    <3>4. \A x : x \in UN <=> x \in U /\ x \notin S
      BY <1>1, <2>1, <2>3, <3>1, <3>2
    <3>5. UN = U \ S /\ LogRecords' = LogRecords \cup {S}
      BY <2>3, <3>4
    <3> HIDE DEF S
    <3>6. QED
      BY <2>1, <3>1, <3>3, <3>5, GatheredNext DEF H, U, HN, UN
  <2>4. CASE WritesFail /\ MN \subseteq M /\ LogRecords' = LogRecords
    <3>1. UN \subseteq U
      BY <1>1, <2>1, <2>4
    <3>2. QED
      BY <2>1, <2>4, <3>1, GatheredNext DEF H, U, HN, UN
  <2>5. QED
    BY <1>9, <1>12, <2>2, <2>3, <2>4
<1>13. QED
  BY <1>8, <1>10, <1>11, <1>12

\* monitor_main as a promise of its own, with a log that works or not: what is
\* received waits until it is written, once and with the copies its record has
\* from then on, or dropped - whichever way the threads interleave,
\* at shutdown too, if the join outlasts the worker's lag.
THEOREM ImplementsGathering == Spec /\ InTime => GatheringSpec
<1>1. Init => Gathered!Init
  <2> SUFFICES ASSUME Init PROVE Gathered!Init
    OBVIOUS
  <2>1. heard = {} /\ written = {} /\ lost = {}
    BY DEF Init
  <2>2. Ids(heard) = {} /\ Unwritten = {}
    BY <2>1 DEF Ids, Unwritten
  <2>3. QED
    BY <2>1, <2>2 DEF Gathered!Init
<1>2. Init => Identified /\ CopyPlaces /\ RecordPlaces /\ Grounded
  <2>1. Init => Grounded
    BY DEF Init, Grounded, Folded
  <2>2. QED
    BY <2>1, PlacesInit
<1>3. /\ Shape /\ Phases /\ Timely /\ Identified /\ CopyPlaces /\ RecordPlaces /\ Grounded /\ [Next]_vars
      => (Identified /\ CopyPlaces /\ RecordPlaces /\ Grounded)'
  BY IdentifiedKept, CopyPlacesKept, RecordPlacesKept, GroundedKept
<1>4. /\ Shape /\ Shape' /\ Phases /\ Timely /\ Identified /\ CopyPlaces /\ RecordPlaces /\ Grounded
      /\ [Next]_vars
      => [Gathered!Next]_(Gathered!vars)
  BY StepsGather
<1>5. QED
  BY <1>1, <1>2, <1>3, <1>4, TimelyHolds, PTL DEF Spec, GatheringSpec, Gathered!Spec
=============================================================================
