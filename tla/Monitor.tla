------------------------------- MODULE Monitor -------------------------------
(***************************************************************************)
(* The two threads of cli.monitor_main and the Deduper between them.       *)
(*                                                                         *)
(* The main thread reads blocks off the radio and puts them on a bounded   *)
(* queue; the worker decodes them, folds the copies of a message into one  *)
(* pending record, and writes a record once its window has closed.  At     *)
(* shutdown the main thread puts a stop mark, joins the worker with a      *)
(* timeout, flushes the deduper and closes the log.                        *)
(*                                                                         *)
(* A block holds one copy of a message or nothing that decodes; a block    *)
(* whose processing raises has the effect of one that does not decode.     *)
(* Records are objects the dictionary shares with whoever listed them:     *)
(* recs holds them, everything else refers to them by number.  Time is     *)
(* time.time() in steps of Window's unit and never steps back.             *)
(***************************************************************************)
EXTENDS Integers, FiniteSets, Sequences

CONSTANTS
    Msg,            \* messages, hops masked (_dedupe_key)
    Window,         \* window_s
    IdleTick,       \* the 0.5 s timeout of work.get
    Capacity,       \* --queue
    Options,        \* the command lines: lossless, the radio is a file and put
                    \* waits for room; dedupe, no --no-dedupe
    PutTimeout,     \* the 5 s of work.put(None)
    JoinTimeout,    \* the 10 s of decoder.join
    WritesFail,     \* environment: a write to the log can raise
    Gap,            \* environment: least time between sendings of one message
    Spread,         \* environment: latest copy after the start of a sending
    MaxLag,         \* environment: longest the worker takes to get through
    MaxSent,        \* bound: transmissions
    MaxBlocks,      \* bound: blocks received
    MaxSignals,     \* bound: signals delivered
    MaxTime         \* bound: the clock stops here

ASSUME MonitorAssumption ==
    /\ Window \in Nat /\ IdleTick \in Nat \ {0}
    /\ Capacity \in Nat \ {0}
    /\ Options \subseteq [lossless : BOOLEAN, dedupe : BOOLEAN] /\ WritesFail \in BOOLEAN
    /\ {PutTimeout, JoinTimeout, Gap, Spread, MaxLag} \subseteq Nat
    /\ {MaxSent, MaxBlocks, MaxSignals, MaxTime} \subseteq Nat

VARIABLES
    opts,       \* the command line this process was started with
    clock,      \* time.time()
    sent,       \* environment: the transmissions [n, msg, at]
    blocks,     \* environment: blocks received so far
    signals,    \* environment: signals delivered so far
    main,       \* where the main thread is
    held,       \* the block it has received and not yet put
    giveUpAt,   \* when its put or join times out
    listed,     \* the records flush() returned and it still has to write
    STOP,       \* the event the signal handler sets
    work,       \* the queue
    worker,     \* where the worker thread is
    since,      \* when it last began to wait or to hand over
    item,       \* the block it is processing
    popping,    \* the entries of pop_ready's snapshot that are ready
    out,        \* the records it still has to write
    pending,    \* Deduper._pending: message -> [rec, last]
    recs,       \* the record objects: the copies folded into each
    heard,      \* history: the blocks received that hold a copy
    lost,       \* history: blocks dropped at a full queue, which live.dropped
                \* counts, or with a signal, which nothing counts
    written     \* history: the log, [rec, copies, by]

envVars    == <<opts, clock, sent, blocks, signals>>
mainVars   == <<main, held, giveUpAt, listed, STOP>>
workerVars == <<worker, since, item, popping, out>>
dedupeVars == <<pending, recs>>
logVars    == <<heard, lost, written>>
vars == <<envVars, mainVars, work, workerVars, dedupeVars, logVars>>

NoMsg    == "junk"
NoBlock  == [id |-> 0]
NoEntry  == [rec |-> 0]

Finally  == {"stop", "join", "flush", "clear", "write", "close"}
Gone     == {"exit", "aborted"}     \* the finally clause was completed, was left by an exception
Main     == {"receive", "put"} \cup Finally \cup Gone
Worker   == {"get", "process", "pop", "delete", "emit", "returned", "dead"}
----------------------------------------------------------------------------
Init ==
    /\ opts \in Options
    /\ clock = 0 /\ sent = {} /\ blocks = 0 /\ signals = 0
    /\ main = "receive" /\ held = NoBlock /\ giveUpAt = 0 /\ listed = <<>> /\ STOP = FALSE
    /\ work = <<>>
    /\ worker = "get" /\ since = 0 /\ item = NoBlock /\ popping = {} /\ out = <<>>
    /\ pending = [m \in Msg |-> NoEntry] /\ recs = <<>>
    /\ heard = {} /\ lost = {} /\ written = {}

\* What put(None) puts there; ts is for KeepsUp.
StopMark(t) == [id |-> 0, ts |-> t]

\* The blocks on their way from the radio to the deduper.
Underway == {work[i] : i \in DOMAIN work} \cup ({item, held} \ {NoBlock})

\* The worker takes at most MaxLag for a block, and for a round of writes.
KeepsUp ==
    /\ \A b \in Underway : clock - b.ts < MaxLag
    /\ worker \in {"pop", "delete", "emit"} => clock - since < MaxLag
    /\ worker = "get" /\ work = <<>> => clock - since < IdleTick + MaxLag

Tick ==
    /\ clock < MaxTime /\ main \notin Gone
    /\ KeepsUp \/ worker \in {"returned", "dead"}
    /\ clock' = clock + 1
    /\ UNCHANGED <<opts, sent, blocks, signals, mainVars, work, workerVars, dedupeVars, logVars>>

Transmit(m) ==
    /\ Cardinality(sent) < MaxSent
    /\ \A t \in sent : t.msg = m => clock - t.at >= Gap
    /\ sent' = sent \cup {[n |-> Cardinality(sent) + 1, msg |-> m, at |-> clock]}
    /\ UNCHANGED <<opts, clock, blocks, signals, mainVars, work, workerVars, dedupeVars, logVars>>
----------------------------------------------------------------------------
(* The main thread: the receive loop *)

Block(m, n) == [id |-> blocks + 1, msg |-> m, tx |-> n, ts |-> clock]

Receive(b) ==
    /\ main = "receive" /\ ~STOP /\ blocks < MaxBlocks
    /\ blocks' = blocks + 1
    /\ held' = b
    /\ main' = "put"
    /\ heard' = IF b.msg = NoMsg THEN heard ELSE heard \cup {b}
    /\ UNCHANGED <<opts, clock, sent, signals, giveUpAt, listed, STOP, work, workerVars,
                   dedupeVars, lost, written>>

Copy == \E t \in sent : clock - t.at <= Spread /\ Receive(Block(t.msg, t.n))
Junk == Receive(Block(NoMsg, 0))

Room == Len(work) < Capacity

\* work.put of a lossless radio waits for room, put_nowait does not have to.
Put ==
    /\ main = "put" /\ Room
    /\ work' = Append(work, held)
    /\ held' = NoBlock
    /\ main' = "receive"
    /\ UNCHANGED <<envVars, giveUpAt, listed, STOP, workerVars, dedupeVars, logVars>>

Drop ==
    /\ main = "put" /\ ~Room /\ ~opts.lossless
    /\ lost' = lost \cup {held.id}
    /\ held' = NoBlock
    /\ main' = "receive"
    /\ UNCHANGED <<envVars, giveUpAt, listed, STOP, work, workerVars, dedupeVars, heard, written>>

\* The finally clause: its put of the stop mark starts now.
EnterFinally == main' = "stop" /\ giveUpAt' = clock + PutTimeout

\* The top of the loop sees STOP, or the file has been replayed.
LeaveLoop ==
    /\ main = "receive" /\ (STOP \/ opts.lossless)
    /\ EnterFinally
    /\ UNCHANGED <<envVars, held, listed, STOP, work, workerVars, dedupeVars, logVars>>

\* The radio raised something else: the same clause, then the exception.
RadioFails ==
    /\ main = "receive"
    /\ EnterFinally
    /\ UNCHANGED <<envVars, held, listed, STOP, work, workerVars, dedupeVars, logVars>>

\* The handler sets STOP and raises KeyboardInterrupt in the main thread:
\* rflib swallows it inside a receive, else it ends the loop, and with it a
\* block that was received and not yet put; the code does not count that one.
Signal ==
    /\ signals < MaxSignals /\ main \in {"receive", "put"}
    /\ signals' = signals + 1
    /\ STOP' = TRUE
    /\ \/ main = "receive" /\ UNCHANGED <<main, giveUpAt>>
       \/ EnterFinally
    /\ lost' = IF main = "put" THEN lost \cup {held.id} ELSE lost
    /\ held' = NoBlock
    /\ UNCHANGED <<opts, clock, sent, blocks, listed, work, workerVars, dedupeVars, heard,
                   written>>

\* A second signal raises inside the finally clause and leaves it.
SignalAgain ==
    /\ signals < MaxSignals /\ main \in Finally
    /\ signals' = signals + 1
    /\ STOP' = TRUE
    /\ main' = "aborted"
    /\ UNCHANGED <<opts, clock, sent, blocks, held, giveUpAt, listed, work, workerVars,
                   dedupeVars, logVars>>
----------------------------------------------------------------------------
(* The main thread: the finally clause *)

PutStop ==
    /\ main = "stop"
    /\ \/ Room /\ work' = Append(work, StopMark(clock))
       \/ ~Room /\ clock >= giveUpAt /\ UNCHANGED work
    /\ main' = "join" /\ giveUpAt' = clock + JoinTimeout
    /\ UNCHANGED <<envVars, held, listed, STOP, workerVars, dedupeVars, logVars>>

\* Mutant: the worker is not waited for.
JoinSkipped == TRUE

\* Mutant: the join has no timeout.
JoinForever == worker \in {"returned", "dead"}

\* decoder.join returns.
JoinReturns == worker \in {"returned", "dead"} \/ clock >= giveUpAt

Joined ==
    /\ main = "join" /\ JoinReturns
    /\ main' = IF opts.dedupe THEN "flush" ELSE "close"
    /\ UNCHANGED <<envVars, held, giveUpAt, listed, STOP, work, workerVars, dedupeVars,
                   logVars>>

\* Keys as the dictionary iterates them: in the order they came in, which is
\* the order their records were made in.
InOrder(q) == \A i, j \in DOMAIN q : i < j => pending[q[i]].rec < pending[q[j]].rec

Present == {m \in Msg : pending[m] # NoEntry}

\* Deduper.flush lists the records, then clears the dictionary.
FlushList ==
    /\ main = "flush"
    /\ \E q \in [1..Cardinality(Present) -> Present] :
          InOrder(q) /\ listed' = [i \in DOMAIN q |-> pending[q[i]].rec]
    /\ main' = "clear"
    /\ UNCHANGED <<envVars, held, giveUpAt, STOP, work, workerVars, dedupeVars, logVars>>

\* A worker that is still alive can change the dictionary under flush()'s
\* iteration: RuntimeError, and the clause is left.
FlushBreaks ==
    /\ main = "flush" /\ Present # {} /\ worker \notin {"returned", "dead"}
    /\ main' = "aborted"
    /\ UNCHANGED <<envVars, held, giveUpAt, listed, STOP, work, workerVars, dedupeVars,
                   logVars>>

FlushClear ==
    /\ main = "clear"
    /\ pending' = [m \in Msg |-> NoEntry]
    /\ main' = "write"
    /\ UNCHANGED <<envVars, held, giveUpAt, listed, STOP, work, workerVars, recs, logVars>>

Logged(r, by) == [rec |-> r, copies |-> recs[r], by |-> by]

\* emit(dd.flush()), one record at a time; a failing write leaves the clause.
FinalWrite ==
    /\ main = "write" /\ listed # <<>>
    /\ \/ /\ written' = written \cup {Logged(Head(listed), "main")}
          /\ UNCHANGED main
       \/ /\ WritesFail
          /\ main' = "aborted"
          /\ UNCHANGED written
    /\ listed' = Tail(listed)
    /\ UNCHANGED <<envVars, held, giveUpAt, STOP, work, workerVars, dedupeVars, heard, lost>>

\* The log is closed and the process ends, a running daemon thread with it.
Close ==
    /\ \/ main = "write" /\ listed = <<>>
       \/ main = "close"
    /\ main' = "exit"
    /\ UNCHANGED <<envVars, held, giveUpAt, listed, STOP, work, workerVars, dedupeVars,
                   logVars>>
----------------------------------------------------------------------------
(* The worker thread *)

Get ==
    /\ worker = "get" /\ work # <<>>
    /\ work' = Tail(work)
    /\ IF Head(work).id = 0
       THEN worker' = "returned" /\ UNCHANGED item
       ELSE worker' = "process" /\ item' = Head(work)
    /\ UNCHANGED <<envVars, mainVars, since, popping, out, dedupeVars, logVars>>

\* Mutant: the idle tick does nothing.
IdleSkipped == "get"

\* queue.Empty: the idle tick hands over what has aged out.
AfterIdle == IF opts.dedupe THEN "pop" ELSE "get"

Idle ==
    /\ worker = "get" /\ work = <<>> /\ clock - since >= IdleTick
    /\ worker' = AfterIdle /\ since' = clock
    /\ UNCHANGED <<envVars, mainVars, work, item, popping, out, dedupeVars, logVars>>

\* Mutant: a copy replaces the pending record instead of joining it.
AddReplaces(b) ==
    /\ recs' = Append(recs, {b.id})
    /\ pending' = [pending EXCEPT ![b.msg] = [rec |-> Len(recs) + 1, last |-> b.ts]]

\* Deduper.add: a copy joins the record pending for its message, however old
\* that is, or makes a new one; the copy's own time is the last sighting.
Add(b) ==
    LET hit == pending[b.msg] IN
    IF hit # NoEntry
    THEN /\ recs' = [recs EXCEPT ![hit.rec] = @ \cup {b.id}]
         /\ pending' = [pending EXCEPT ![b.msg] = [rec |-> hit.rec, last |-> b.ts]]
    ELSE /\ recs' = Append(recs, {b.id})
         /\ pending' = [pending EXCEPT ![b.msg] = [rec |-> Len(recs) + 1, last |-> b.ts]]

\* With --no-dedupe the record is written inside the try: a failing write is
\* logged and the copy is lost with it.
WriteAtOnce(b) ==
    /\ recs' = Append(recs, {b.id})
    /\ \/ written' = written \cup {[rec |-> Len(recs) + 1, copies |-> {b.id}, by |-> "worker"]}
       \/ WritesFail /\ UNCHANGED written
    /\ UNCHANGED pending

\* After every block the worker hands over what is ready.
AfterBlock == IF opts.dedupe THEN "pop" ELSE "get"

Process ==
    /\ worker = "process"
    /\ IF item.msg = NoMsg THEN UNCHANGED <<dedupeVars, written>>
       ELSE IF opts.dedupe      THEN Add(item) /\ UNCHANGED written
       ELSE WriteAtOnce(item)
    /\ item' = NoBlock
    /\ worker' = AfterBlock /\ since' = clock
    /\ UNCHANGED <<envVars, mainVars, work, popping, out, heard, lost>>

\* Mutant: off by one at the end of the window.
ReadyEarly(e) == e # NoEntry /\ clock - e.last >= Window

Ready(e) == e # NoEntry /\ clock - e.last > Window

\* Deduper.pop_ready walks a snapshot of the dictionary and deletes from the
\* live one.
Snapshot ==
    /\ worker = "pop"
    /\ popping' = {[msg |-> m, rec |-> pending[m].rec] : m \in {k \in Msg : Ready(pending[k])}}
    /\ out' = <<>>
    /\ worker' = "delete"
    /\ UNCHANGED <<envVars, mainVars, work, since, item, dedupeVars, logVars>>

\* A key that flush() has cleared meanwhile raises KeyError, outside the try.
Delete ==
    /\ worker = "delete"
    /\ \E e \in popping :
          /\ \A f \in popping : e.rec <= f.rec
          /\ popping' = popping \ {e}
          /\ IF pending[e.msg] = NoEntry
             THEN worker' = "dead" /\ UNCHANGED <<out, pending>>
             ELSE /\ out' = Append(out, e.rec)
                  /\ pending' = [pending EXCEPT ![e.msg] = NoEntry]
                  /\ UNCHANGED worker
    /\ UNCHANGED <<envVars, mainVars, work, since, item, recs, logVars>>

DeleteDone ==
    /\ worker = "delete" /\ popping = {}
    /\ worker' = "emit"
    /\ UNCHANGED <<envVars, mainVars, work, since, item, popping, out, dedupeVars, logVars>>

\* emit, one record at a time.  It is called outside the try, so a failing
\* write ends the thread, and the records after it are gone.
Emit ==
    /\ worker = "emit" /\ out # <<>>
    /\ \/ /\ written' = written \cup {Logged(Head(out), "worker")}
          /\ out' = Tail(out)
          /\ UNCHANGED worker
       \/ /\ WritesFail
          /\ worker' = "dead" /\ out' = <<>>
          /\ UNCHANGED written
    /\ UNCHANGED <<envVars, mainVars, work, since, item, popping, dedupeVars, heard, lost>>

EmitDone ==
    /\ worker = "emit" /\ out = <<>>
    /\ worker' = "get" /\ since' = clock
    /\ UNCHANGED <<envVars, mainVars, work, item, popping, out, dedupeVars, logVars>>

Work == /\ main \notin Gone
        /\ \/ Get \/ Idle \/ Process \/ Snapshot \/ Delete \/ DeleteDone \/ Emit \/ EmitDone
----------------------------------------------------------------------------
Shutdown == \/ LeaveLoop \/ PutStop \/ Joined \/ FlushList \/ FlushBreaks \/ FlushClear
            \/ FinalWrite \/ Close

Next ==
    \/ Tick \/ (\E m \in Msg : Transmit(m)) \/ Signal \/ SignalAgain \/ RadioFails
    \/ Copy \/ Junk \/ Put \/ Drop \/ Shutdown
    \/ Work

Spec == Init /\ [][Next]_vars

\* Both threads run; the clock runs while the process does.
FairSpec == Spec /\ WF_vars(Tick) /\ WF_vars(Put \/ Drop \/ Shutdown) /\ WF_vars(Work)
----------------------------------------------------------------------------
PendingRecs == {pending[m].rec : m \in Present}

\* The shape of the state: at most one pending record per message, a bounded
\* queue, and nothing held or processed outside the states that do so.
TypeOK ==
    /\ main \in Main /\ worker \in Worker /\ Len(work) <= Capacity
    /\ (worker = "process") <=> (item # NoBlock)
    /\ (main = "put") => (held # NoBlock)
    /\ PendingRecs \subseteq DOMAIN recs
    /\ \A m, k \in Present : pending[m].rec = pending[k].rec => m = k
    /\ lost \subseteq 1..blocks

\* Receive loop, Deduper, emit: every copy received is in one place - under
\* way to the deduper, dropped, or in one record - and every record
\* is pending, being handed over, or in the log, once.
EveryCopyInOnePlace ==
    main \notin {"clear"} \cup Gone =>
        /\ \A c \in heard :
              Cardinality({b \in Underway : b.id = c.id})
            + Cardinality({r \in DOMAIN recs : c.id \in recs[r]})
            + (IF c.id \in lost THEN 1 ELSE 0) = 1
        /\ \A r \in DOMAIN recs :
              Cardinality({p \in PendingRecs : p = r})
            + Cardinality({i \in DOMAIN out : out[i] = r})
            + Cardinality({i \in DOMAIN listed : listed[i] = r})
            + Cardinality({w \in written : w.rec = r}) = 1

Ids(copy) == {c.id : c \in copy}

\* The records that are still to be written, and the copies that are.
InMemory  == PendingRecs \cup {out[i] : i \in DOMAIN out} \cup {listed[i] : i \in DOMAIN listed}
Unwritten == Ids(heard) \cap (Ids(Underway) \cup UNION {recs[r] : r \in InMemory})

\* Receive loop, worker and finally clause: every copy is written once, in one
\* record that the log has as it was when written, or was dropped at the full
\* queue or with a signal; only a failing write takes it away untold.
Gathered == INSTANCE Gathering WITH
    MayFail <- WritesFail, heard <- Ids(heard), waiting <- Unwritten,
    told <- {w.copies : w \in written}, lost <- lost \cap Ids(heard)
GatheringSpec == Gathered!Spec

\* monitor_main's finally clause: when it runs to its end, every copy the
\* process received and did not drop is in the log, once, in a record that was
\* complete when it was written.
ShutdownWritesAll ==
    main = "exit" =>
        \A c \in heard : c.id \in lost \/
            /\ Cardinality({w \in written : c.id \in w.copies}) = 1
            /\ \A w \in written : c.id \in recs[w.rec] => c.id \in w.copies

\* tests/test_cli.py: "Moving the work behind a queue must not change what
\* comes out, however small the queue is" - a replayed file loses nothing.
ReplayWritesAll ==
    opts.lossless /\ main = "exit" /\ signals = 0 =>
        \A c \in heard : Cardinality({w \in written : c.id \in w.copies}) = 1

\* The log has everything, at shutdown and after a replay.
LogIsComplete == ShutdownWritesAll /\ ReplayWritesAll

\* The queue, the deduper and the log: their shape, and no copy lost or doubled.
MonitorInv == TypeOK /\ EveryCopyInOnePlace

\* cli.py, the finally clause: "Stop the worker before the final flush so
\* nothing writes behind it."
NothingWritesBehindFlush ==
    [][\A w \in written' \ written :
          w.by = "worker" => main \notin {"flush", "clear", "write", "close"}]_vars

CopiesOf(r) == {c \in heard : c.id \in recs[r]}

\* README, "the logged repeats/hops_seen cover every copy of the message": one
\* transmission makes one record.
OneRecordPerTransmission ==
    opts.dedupe => \A r, q \in DOMAIN recs :
            r # q => \A c \in CopiesOf(r), d \in CopiesOf(q) : c.tx # d.tx

\* Deduper.pop_ready is called often enough: sendings further apart than the
\* window, an idle tick and the worker's lag make records of their own.
SendingsKeptApart ==
    \A r \in DOMAIN recs : \A c, d \in CopiesOf(r) : c.tx = d.tx

\* A record is a transmission: all copies of one, and of no other.
RecordsAreTransmissions == OneRecordPerTransmission /\ SendingsKeptApart

\* worker, idle tick: "Deduped records have to age out on time even while the
\* air is silent" - whatever closed within the bounded clock is handed over.
RecordsAgeOut ==
    <>[](main \in Gone \/ worker = "dead" \/ \A m \in Present :
                pending[m].last + Window + IdleTick + 2 * MaxLag >= MaxTime)

\* The handler and the finally clause: a signal ends the process, whatever the
\* worker is doing, unless a timeout would end after the bounded clock.
SignalEndsProcess == STOP ~> (main \in Gone \/ giveUpAt > MaxTime)
=============================================================================
