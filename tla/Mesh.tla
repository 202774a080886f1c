-------------------------------- MODULE Mesh --------------------------------
(***************************************************************************)
(* mesh.py's MeshService with its PlmLink and MissTable, around the        *)
(* Injector: fused events are held for a grace period, settled against     *)
(* what the modem reported, offered to the injector and counted.           *)
(*                                                                         *)
(* The service thread runs the loop of cli.mesh_main or of                 *)
(* MeshService.run, which differ only in how they end (EntryPoints); the   *)
(* paho thread delivers the modem's frames in between any two of its       *)
(* steps.  Fusion is here only what pop_ready and flush hand over: any     *)
(* event that was on the air before now, at most MaxAge ago.               *)
(***************************************************************************)
EXTENDS Integers, FiniteSets, Sequences

CONSTANTS
    Key, Device, SenderOf, TypeOf, PlmAddr, KnownAddrs, BatteryAddrs, Allow,
    Shadow, SuppressWindow, Retain, PerDeviceInterval, Minute, GlobalPerMinute,
    MinCombinedReceivers, Defects, Votes,       \* as in Injector
    HasInjector,    \* some tier was named: injector is not None
    UsePlm,         \* plm is not None (no --no-plm)
    RequireLink,    \* require_plm_link
    Grace,          \* plm_grace_s
    MaxSilence,     \* healthy()'s max_silence_s
    EntryPoints,    \* the loops that may be running
    MaxAge,         \* environment: oldest event fusion hands over
    MaxEvents,      \* bound: events fused
    MaxReports,     \* bound: frames the modem reports
    MaxTime         \* bound: the clock stops here

ASSUME MeshAssumption ==
    /\ {HasInjector, UsePlm, RequireLink} \subseteq BOOLEAN
    /\ HasInjector => UsePlm        \* mesh_main: --inject needs the PLM mirror
    /\ Grace \in Nat /\ MaxSilence \in Nat \ {0} /\ MaxAge \in Nat
    /\ EntryPoints \subseteq {"mesh_main", "run"}
    /\ MaxEvents \in Nat /\ MaxTime \in Nat

VARIABLES
    clock, seen, pc, cur, stale, lastPerDevice, recent, considered, injected,
    wouldInject, refused, reports, raced, log     \* of Injector

injVars == <<clock, seen, pc, cur, stale, lastPerDevice, recent, considered,
             injected, wouldInject, refused, reports, raced, log>>

VARIABLES
    link,           \* environment: the mirror topic reaches this process
    lostAt,         \* history: when the link was last lost
    lastFrameAt,    \* PlmLink.last_frame_at
    loop,           \* where the service thread is
    flushing,       \* STOP was set: the shutdown path is running
    now,            \* the now of the drain or shutdown under way
    events,         \* MeshService.events
    holding,        \* MeshService._holding
    current,        \* the event being settled
    misses,         \* MissTable.devices
    other,          \* MissTable: the events it does not attribute to a device
    settled         \* history: the events that were recorded

linkVars == <<link, lostAt, lastFrameAt>>
loopVars == <<loop, flushing, now>>
holdVars == <<events, holding, current>>
bookVars == <<misses, other, settled>>
meshVars == <<linkVars, loopVars, holdVars, bookVars>>
vars     == <<injVars, meshVars>>

Loop == {"poll", "pop", "settle", "gate", "consider", "record", "last events", "exit", "left"}

\* The injector considers every event at most once.
Inj == INSTANCE Injector WITH MaxConsidered <- MaxEvents, MaxAge <- MaxTime

Verdict == {"unknown", "heard", "missed"}
Tally   == {"heard_by_rf", "plm_also_heard", "plm_missed", "injected"}
Untold  == {"undecodable", "no_sender", "plm_own_transmissions", "unknown_senders"}

NoEvent == [n |-> 0]
----------------------------------------------------------------------------
Init ==
    /\ Inj!Init
    /\ link = TRUE /\ lostAt = 0 /\ lastFrameAt = Inj!Never
    /\ loop = "poll" /\ flushing = FALSE /\ now = 0
    /\ events = 0 /\ holding = <<>> /\ current = NoEvent
    /\ misses = [d \in Device |-> [f \in Tally |-> 0]]
    /\ other = [f \in Untold |-> 0]
    /\ settled = {}

Tick == Inj!Tick /\ UNCHANGED meshVars
----------------------------------------------------------------------------
(* The paho thread: PlmLink._on_message *)

\* The time of the frame is stored first, then on_frame notes it.  A frame
\* that is not an inbound message (an 0x62 echo) stops after the first step.
FrameArrives ==
    /\ UsePlm /\ link /\ lastFrameAt # clock
    /\ lastFrameAt' = clock
    /\ UNCHANGED <<injVars, link, lostAt, loopVars, holdVars, bookVars>>

FrameNoted(k) ==
    /\ UsePlm /\ lastFrameAt = clock
    /\ Inj!Note(k)
    /\ UNCHANGED meshVars

LoseLink ==
    /\ UsePlm /\ link
    /\ link' = FALSE /\ lostAt' = clock
    /\ UNCHANGED <<injVars, lastFrameAt, loopVars, holdVars, bookVars>>

Reconnect ==
    /\ ~link
    /\ link' = TRUE
    /\ UNCHANGED <<injVars, lostAt, lastFrameAt, loopVars, holdVars, bookVars>>

\* Mutant: a link that never delivered a frame counts as healthy.
HealthyUntilProven(t) == lastFrameAt = Inj!Never \/ t - lastFrameAt < MaxSilence

\* PlmLink.healthy
Healthy(t) == lastFrameAt # Inj!Never /\ t - lastFrameAt < MaxSilence
----------------------------------------------------------------------------
(* The service thread: next_capture and handle_capture, then drain *)

Poll ==
    /\ loop = "poll"
    /\ loop' = "pop" /\ now' = clock
    /\ UNCHANGED <<injVars, linkVars, flushing, holdVars, bookVars>>

\* What pop_ready and flush can hand over.
Fused == {e \in Inj!Event : e.last <= now /\ now - e.last <= MaxAge}

\* An event as the service carries it; popped and n are for the properties.
Fresh(e, due) ==
    [n |-> Cardinality(settled) + Len(holding) + (IF current = NoEvent THEN 1 ELSE 2),
     due |-> due, popped |-> now, event |-> e, verdict |-> "unknown", injected |-> FALSE]

\* Mutant: the event is not held for the modem's copy.
HoldNothing(e) == now

\* The deadline of a popped event; the final flush of run() grants no grace.
HoldUntil(e) == IF flushing THEN now ELSE now + Grace

Pop(e) ==
    /\ loop = "pop" /\ events < MaxEvents
    /\ events' = events + 1
    /\ holding' = Append(holding, Fresh(e, HoldUntil(e)))
    /\ UNCHANGED <<injVars, linkVars, loopVars, current, bookVars>>

PopDone ==
    /\ loop = "pop"
    /\ loop' = "settle"
    /\ UNCHANGED <<injVars, linkVars, flushing, now, holdVars, bookVars>>

\* Mutant: an event due exactly now waits for another round.
DueStrict == holding # <<>> /\ (flushing \/ Head(holding).due < now)

\* drain looks at the head of the list only; flush takes them all.
Due == holding # <<>> /\ (flushing \/ Head(holding).due <= now)

\* _finish, first statement: the verdict, anchored on the message.
Settle ==
    /\ loop = "settle" /\ Due
    /\ LET h == Head(holding) IN
          current' = [h EXCEPT !.verdict =
              IF Inj!Heard(h.event.key, h.event.last) THEN "heard" ELSE "missed"]
    /\ holding' = Tail(holding)
    /\ loop' = "gate"
    /\ UNCHANGED <<injVars, linkVars, flushing, now, events, bookVars>>

\* Mutant: drain ends like flush, by clearing the list.
SettleDoneClears ==
    /\ loop = "settle" /\ ~Due
    /\ loop' = IF flushing THEN "exit" ELSE "poll"
    /\ holding' = <<>>
    /\ UNCHANGED <<injVars, linkVars, flushing, now, events, current, bookVars>>

SettleDone ==
    /\ loop = "settle" /\ ~Due
    /\ loop' = IF flushing THEN "exit" ELSE "poll"
    /\ UNCHANGED <<injVars, linkVars, flushing, now, holdVars, bookVars>>

\* _finish: no injector, or not without the modem's mirror.
MayConsider == HasInjector /\ ~(RequireLink /\ UsePlm /\ ~Healthy(clock))

SkipInjector ==
    /\ loop = "gate" /\ ~MayConsider
    /\ loop' = "record"
    /\ UNCHANGED <<injVars, linkVars, flushing, now, holdVars, bookVars>>

\* Mutant: consider is asked as of the message, like heard().
OfferAtMessage ==
    /\ loop = "gate" /\ MayConsider
    /\ Inj!ConsiderBegin(current.event, current.event.last)
    /\ loop' = "consider"
    /\ UNCHANGED <<linkVars, flushing, now, holdVars, bookVars>>

Offer ==
    /\ loop = "gate" /\ MayConsider
    /\ Inj!ConsiderBegin(current.event, now)
    /\ loop' = "consider"
    /\ UNCHANGED <<linkVars, flushing, now, holdVars, bookVars>>

Forget == loop = "consider" /\ Inj!ConsiderForget /\ UNCHANGED meshVars

\* Refusals after the modem's verdict: consider has set plm_saw_it by then.
PastVerdict == {"per-device rate limit", "global rate limit", "cannot render",
                "shadow mode", "injected"}

VerdictAfter(why) ==
    IF why = "the PLM already heard it" THEN "heard"
    ELSE IF why \in PastVerdict         THEN "missed"
    ELSE current.verdict

Decide ==
    /\ loop = "consider" /\ Inj!ConsiderDecide(TRUE)
    /\ LET why == Inj!Reason(cur.event, cur.at, TRUE) IN
          current' = [current EXCEPT !.verdict = VerdictAfter(why),
                                     !.injected = why = "injected"]
    /\ loop' = "record"
    /\ UNCHANGED <<linkVars, flushing, now, events, holding, bookVars>>

\* The row of the miss table an event belongs to: MissTable.note's returns.
\* The code does not count the second; other does, so that all are accounted for.
RowOf(e) ==
    LET who == SenderOf[e.key] IN
    IF e.defect \in {"crc", "hops"} THEN "undecodable"
    ELSE IF who = Inj!NoAddr        THEN "no_sender"
    ELSE IF who = PlmAddr           THEN "plm_own_transmissions"
    ELSE IF who \notin KnownAddrs   THEN "unknown_senders"
    ELSE "device"

\* Mutant: an injected event counts as injected instead of as missed.
CountsInjectedApart(h, f) ==
    \/ f = "heard_by_rf"
    \/ f = "plm_also_heard" /\ h.verdict = "heard"
    \/ f = "plm_missed" /\ h.verdict = "missed" /\ ~h.injected
    \/ f = "injected" /\ h.injected

\* The columns of its device's row an event adds one to.
Counts(h, f) ==
    \/ f = "heard_by_rf"
    \/ f = "plm_also_heard" /\ h.verdict = "heard"
    \/ f = "plm_missed" /\ h.verdict = "missed"
    \/ f = "injected" /\ h.injected

\* MissTable.note, then writer and on_event.
Book(h) ==
    LET row == RowOf(h.event) IN
    /\ other' = [f \in Untold |-> other[f] + (IF row = f THEN 1 ELSE 0)]
    /\ misses' = [d \in Device |-> [f \in Tally |->
            misses[d][f] + (IF row = "device" /\ d = SenderOf[h.event.key] /\ Counts(h, f)
                            THEN 1 ELSE 0)]]
    /\ settled' = settled \cup {h}

Record ==
    /\ loop = "record"
    /\ Book(current)
    /\ current' = NoEvent
    /\ loop' = "settle"
    /\ UNCHANGED <<injVars, linkVars, flushing, now, events, holding>>
----------------------------------------------------------------------------
(* Shutdown: STOP is seen at the top of the loop, or mesh_main's loop is      *)
(* interrupted where it is                                                    *)

\* MeshService.run flushes fusion into the hold list and settles all of it.
\* mesh_main's finally clause books what fusion flushes, as it is.
Stop ==
    /\ loop = "poll"
    /\ flushing' = TRUE /\ now' = clock
    /\ \E entry \in EntryPoints : loop' = IF entry = "run" THEN "pop" ELSE "last events"
    /\ UNCHANGED <<injVars, linkVars, holdVars, bookVars>>

\* The signal handler raises KeyboardInterrupt wherever mesh_main's thread is:
\* drain and _finish do not go on, and the event they had in hand is lost.
Interrupt ==
    /\ "mesh_main" \in EntryPoints /\ ~flushing
    /\ loop \in {"pop", "settle", "gate", "consider", "record"}
    /\ loop' = "last events" /\ flushing' = TRUE /\ now' = clock
    /\ UNCHANGED <<injVars, linkVars, holdVars, bookVars>>

\* mesh_main does not count these in MeshService.events.
BookFlushed(e) ==
    /\ loop = "last events" /\ Fresh(e, now).n <= MaxEvents
    /\ Book(Fresh(e, now))
    /\ UNCHANGED <<injVars, linkVars, loopVars, holdVars>>

Exit ==
    /\ loop = "last events"
    /\ loop' = "left"
    /\ UNCHANGED <<injVars, linkVars, flushing, now, holdVars, bookVars>>
----------------------------------------------------------------------------
Service == \/ Poll \/ (\E e \in Fused : Pop(e)) \/ PopDone
           \/ Settle \/ SettleDone \/ SkipInjector \/ Offer \/ Forget \/ Decide
           \/ Record

Next ==
    \/ Tick
    \/ FrameArrives \/ (\E k \in Key : FrameNoted(k)) \/ LoseLink \/ Reconnect
    \/ Service
    \/ Stop \/ Interrupt \/ (\E e \in Fused : BookFlushed(e)) \/ Exit

Spec == Init /\ [][Next]_vars

\* next_capture returns within half a second, so the loop goes round and a
\* drain finishes; the clock runs.
FairSpec == Spec /\ WF_vars(Tick) /\ WF_vars(Service) /\ WF_vars(PopDone)
----------------------------------------------------------------------------
Held == [n: Nat \ {0}, due: Nat, popped: Nat, event: Inj!Event, verdict: Verdict, injected: BOOLEAN]
Carried == {holding[i] : i \in DOMAIN holding} \cup ({current} \ {NoEvent}) \cup settled

\* Where the service thread has an event in hand, and is inside consider; what
\* an interrupt leaves of both stays as it was.
InHand ==
    /\ loop = "consider" => pc # "idle"
    /\ pc # "idle" => loop \in {"consider", "last events", "left"}
    /\ loop \in {"gate", "consider", "record"} => current # NoEvent
    /\ current # NoEvent => loop \in {"gate", "consider", "record", "last events", "left"}

\* The shape of the state, and where the injector is called from.
TypeOK ==
    /\ clock \in 0..MaxTime /\ link \in BOOLEAN
    /\ loop \in Loop /\ flushing \in BOOLEAN /\ now \in 0..clock
    /\ lastFrameAt \in {Inj!Never} \cup 0..clock /\ lostAt \in 0..clock
    /\ events \in 0..MaxEvents
    /\ holding \in Seq(Held) /\ current \in Held \cup {NoEvent} /\ settled \subseteq Held
    /\ misses \in [Device -> [Tally -> Nat]] /\ other \in [Untold -> Nat]
    /\ InHand

\* The injector inside the service behaves as Injector specifies, so what is
\* proved of Injector holds here: the interleavings of drain, shutdown and the
\* paho thread add no behaviour.
InjectorSpec == Inj!Spec

\* drain looks at the head of _holding only, which is enough: whenever the
\* loop comes round, nothing held was already due in the drain before, and the
\* list is in the order of its deadlines (a flush settles all of it anyway).
NothingOverdue ==
    /\ ~flushing => \A i, j \in DOMAIN holding : i < j => holding[i].due <= holding[j].due
    /\ loop = "poll" => \A i \in DOMAIN holding : holding[i].due > now

\* mesh.PLM_GRACE_S, drain: outside of shutdown no verdict is settled before
\* the modem's copy had the grace period to arrive.
VerdictAfterGrace ==
    [][settled' # settled /\ ~flushing =>
          \A h \in settled' \ settled : now - h.popped >= Grace]_vars

\* MeshService.events counts the events popped; none is lost or settled twice
\* on the way from pop_ready to the miss table.
EventsConserved ==
    loop \notin {"last events", "left"} =>
        /\ events = Len(holding) + Cardinality(settled)
                    + (IF current = NoEvent THEN 0 ELSE 1)
        /\ \A g, h \in Carried : g.n = h.n => g = h

\* The columns of the miss table, which decides whether injection is worth
\* enabling: every device row adds up over its settled events, all of them are
\* in some row, and what was injected is counted as missed.
Told(f) == f["plm_also_heard"] + f["plm_missed"]
MissTableAddsUp ==
    /\ \A d \in Device : /\ Told(misses[d]) <= misses[d]["heard_by_rf"]
                         /\ misses[d]["injected"] <= misses[d]["plm_missed"]
                         /\ loop \notin {"last events", "left"}
                                => Told(misses[d]) = misses[d]["heard_by_rf"]
    /\ \A d \in Device : misses[d]["heard_by_rf"]
            = Cardinality({h \in settled : RowOf(h.event) = "device"
                                           /\ SenderOf[h.event.key] = d})
    /\ injected = Cardinality({h \in Carried : h.injected})

\* PlmLink: once the mirror is lost, injection ends within MaxSilence (the
\* stamp of an injection is the now of its drain).
LinkLossEndsInjection ==
    [][log' # log /\ ~link => cur.at - lostAt < MaxSilence]_vars

\* MeshService.flush: "Settle everything still held, at shutdown."
ShutdownSettlesHeld == loop = "exit" => holding = <<>> /\ events <= Cardinality(settled)

\* What holds of the hold list and the books: shape, order of deadlines, no
\* event lost or doubled, none left at shutdown.
MeshInv == TypeOK /\ NothingOverdue /\ EventsConserved /\ ShutdownSettlesHeld

\* Every event that was held is settled once its deadline has passed on the
\* bounded clock, unless the process stops.
HeldIsSettled ==
    <>[](\/ loop \in {"last events", "left", "exit"}
         \/ /\ current = NoEvent
            /\ \A i \in DOMAIN holding : holding[i].due > MaxTime)
=============================================================================
