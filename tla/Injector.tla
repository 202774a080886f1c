------------------------------ MODULE Injector ------------------------------
(***************************************************************************)
(* The injection decision of the listener mesh: inject.py's PlmMemory      *)
(* (what the modem recently reported hearing) and Injector (whether a      *)
(* fused RF event is handed to insteon-mqtt).                              *)
(*                                                                         *)
(* Two threads meet here.  The paho network thread writes the memory       *)
(* (Note); the service thread considers one event at a time in three       *)
(* steps, because PlmMemory.forget_old walks a snapshot of the dictionary  *)
(* and deletes from the live one:                                          *)
(*    ConsiderBegin   count, take the snapshot of the stale keys           *)
(*    ConsiderForget  delete those keys, drop old injections               *)
(*    ConsiderDecide  the refusals in order, then record and publish       *)
(* The global interpreter lock makes each of them atomic.                  *)
(*                                                                         *)
(* Time is an integer wall clock (time.time()) that never steps back.      *)
(* A message is its hop-insensitive key; the key fixes the sender and the  *)
(* message type, both of which are bytes of it (plm.message_key).          *)
(***************************************************************************)
EXTENDS Integers, FiniteSets

CONSTANTS
    Key,                    \* message keys
    Device,                 \* addresses a sender field can hold
    SenderOf,               \* [Key -> Device \cup {NoAddr}], sender_of()
    TypeOf,                 \* [Key -> MsgType]
    PlmAddr,                \* the modem's own address
    KnownAddrs,             \* addresses of this network (Device = no check)
    BatteryAddrs,           \* devices without a powerline path
    Allow,                  \* the enabled tiers
    Shadow,                 \* decide and log, publish nothing
    SuppressWindow,         \* suppress_window_s
    Retain,                 \* max(window_s, 10.0) of forget_old
    PerDeviceInterval,      \* per_device_interval_s
    Minute,                 \* the 60.0 of _forget_old
    GlobalPerMinute,        \* global_per_minute
    MinCombinedReceivers,   \* min_combined_receivers
    Defects,                \* the defects considered packets have
    Votes,                  \* the combined_from values that occur
    MaxAge,                 \* bound: age of an event when it is considered
    MaxTime,                \* bound: the clock stops here
    MaxReports,             \* bound: frames the modem reports
    MaxConsidered           \* bound: events considered

MsgType == {"reply", "group", "cleanup", "direct", "other"}
Tier    == {"BATTERY", "GROUP", "STATE"}
NoTier  == "NONE"
NoAddr  == "no address"

\* No entry in a dictionary of times.
Never == -1

\* What can be wrong with a fused packet: the CRC, the frame-index counters,
\* the hop fields or the extended CRC failed, bits were repaired by CRC search
\* in one receiver's copy, or to_plm_bytes cannot render it.
Defect == {"none", "crc", "index", "hops", "ext_crc", "corrected", "unrenderable"}

ASSUME InjectorAssumption ==
    /\ SenderOf \in [Key -> Device \cup {NoAddr}]
    /\ TypeOf \in [Key -> MsgType]
    /\ NoAddr \notin Device
    /\ Allow \subseteq Tier
    /\ Shadow \in BOOLEAN
    /\ SuppressWindow \in Nat
    /\ Retain \in Nat /\ Retain >= SuppressWindow
    /\ PerDeviceInterval \in Nat
    /\ Minute \in Nat \ {0}
    /\ GlobalPerMinute \in Nat \ {0}
    /\ MinCombinedReceivers \in Nat
    /\ Defects \subseteq Defect
    /\ Votes \subseteq Nat
    /\ MaxAge \in Nat
    /\ MaxTime \in Nat /\ MaxReports \in Nat /\ MaxConsidered \in Nat

Time == 0..MaxTime

\* A FusedEvent as the injector reads it: votes is combined_from, 0 for a
\* packet some receiver heard intact.
Event == [key: Key, last: Time, defect: Defects, votes: Votes]

VARIABLES
    clock,          \* time.time()
    seen,           \* PlmMemory._seen: key -> time of the last report
    pc,             \* where consider() is: "idle", "forget" or "decide"
    cur,            \* its arguments: the event and its now
    stale,          \* forget_old's snapshot of the keys to delete
    lastPerDevice,  \* Injector._last_per_device
    recent,         \* Injector._recent_injections, as injection records
    considered, injected, wouldInject, refused,     \* Counters
    reports,        \* history: every frame the modem reported
    raced,          \* history: reports deleted although they were fresh
    log             \* history: what was published

vars == <<clock, seen, pc, cur, stale, lastPerDevice, recent, considered,
          injected, wouldInject, refused, reports, raced, log>>

Report    == [key: Key, at: Time]
Injected  == [n: Nat, key: Key, at: Time, last: Time, defect: Defects, votes: Votes]
NoEvent   == [key |-> "none"]
----------------------------------------------------------------------------
Abs(x) == IF x < 0 THEN -x ELSE x

\* Mutant: the window of one path only, as before the fix heard() describes.
HeardOneSided(k, when) == seen[k] # Never /\ when - seen[k] \in 0..SuppressWindow

\* PlmMemory.heard: symmetric around the time asked about.
Heard(k, when) == seen[k] # Never /\ Abs(when - seen[k]) <= SuppressWindow

\* Mutant: the known-address check dropped.
ClassifyAnyAddress(k) ==
    IF TypeOf[k] = "reply" \/ SenderOf[k] \in {NoAddr, PlmAddr} THEN NoTier
    ELSE IF SenderOf[k] \in BatteryAddrs THEN "BATTERY"
    ELSE IF TypeOf[k] \in {"group", "cleanup"} THEN "GROUP"
    ELSE IF TypeOf[k] = "direct" THEN "STATE"
    ELSE NoTier

\* Injector.classify: the tier of a message, NoTier for one in none.
Classify(k) ==
    IF \/ TypeOf[k] = "reply"
       \/ SenderOf[k] \in {NoAddr, PlmAddr}
       \/ SenderOf[k] \notin KnownAddrs                   THEN NoTier
    ELSE IF SenderOf[k] \in BatteryAddrs                  THEN "BATTERY"
    ELSE IF TypeOf[k] \in {"group", "cleanup"}            THEN "GROUP"
    ELSE IF TypeOf[k] = "direct"                          THEN "STATE"
    ELSE NoTier

\* The checks on the packet's bytes, and on how many receivers voted for them.
Verified(e) ==
    /\ e.defect \in {"none", "unrenderable"}
    /\ e.votes = 0 \/ e.votes >= MinCombinedReceivers

\* consider()'s refusals in the code's order; on is what enabled() returned.
Reason(e, t, on) ==
    IF ~on                                        THEN "kill switch"
    ELSE IF Classify(e.key) \notin Allow          THEN "no enabled tier"
    ELSE IF ~Verified(e)                          THEN "not verified"
    ELSE IF Heard(e.key, e.last)                  THEN "the PLM already heard it"
    ELSE IF /\ lastPerDevice[SenderOf[e.key]] # Never
            /\ t - lastPerDevice[SenderOf[e.key]] < PerDeviceInterval
                                                  THEN "per-device rate limit"
    ELSE IF Cardinality(recent) >= GlobalPerMinute THEN "global rate limit"
    ELSE IF e.defect = "unrenderable"             THEN "cannot render"
    ELSE IF Shadow                                THEN "shadow mode"
    ELSE "injected"
----------------------------------------------------------------------------
Init ==
    /\ clock = 0
    /\ seen = [k \in Key |-> Never]
    /\ pc = "idle" /\ cur = [at |-> 0, event |-> NoEvent] /\ stale = {}
    /\ lastPerDevice = [d \in Device |-> Never]
    /\ recent = {}
    /\ considered = 0 /\ injected = 0 /\ wouldInject = 0 /\ refused = 0
    /\ reports = {} /\ raced = {} /\ log = {}

Tick ==
    /\ clock < MaxTime
    /\ clock' = clock + 1
    /\ UNCHANGED <<seen, pc, cur, stale, lastPerDevice, recent, considered,
                   injected, wouldInject, refused, reports, raced, log>>

\* PlmMemory.note, on the paho thread.  A frame that from_plm_bytes refuses
\* changes nothing and is not modelled.
Note(k) ==
    /\ Cardinality(reports) < MaxReports
    /\ seen' = [seen EXCEPT ![k] = clock]
    /\ reports' = reports \cup {[key |-> k, at |-> clock]}
    /\ UNCHANGED <<clock, pc, cur, stale, lastPerDevice, recent, considered,
                   injected, wouldInject, refused, raced, log>>

\* The keys forget_old's loop finds too old in its snapshot.
Stale(t) == {k \in Key : seen[k] # Never /\ t - seen[k] > Retain}

\* t is the caller's now: taken once per drain, so not ahead of the clock.
ConsiderBegin(e, t) ==
    /\ pc = "idle" /\ considered < MaxConsidered
    /\ pc' = "forget"
    /\ cur' = [at |-> t, event |-> e]
    /\ stale' = Stale(t)
    /\ considered' = considered + 1
    /\ UNCHANGED <<clock, seen, lastPerDevice, recent, injected, wouldInject,
                   refused, reports, raced, log>>

\* Mutant: old injections are dropped one tick too early.
WithinMinuteShort(S, t) == {r \in S : t - r.at < Minute - 1}

WithinMinute(S, t) == {r \in S : t - r.at < Minute}

\* Mutant: the whole memory is cleared instead of the stale keys.
ForgottenAll(k) == TRUE

\* A key the loop deletes, whatever the paho thread has stored there since.
Forgotten(k) == k \in stale

ConsiderForget ==
    /\ pc = "forget"
    /\ pc' = "decide"
    /\ seen' = [k \in Key |-> IF Forgotten(k) THEN Never ELSE seen[k]]
    /\ recent' = WithinMinute(recent, cur.at)
    /\ stale' = {}
    /\ raced' = raced \cup {r \in reports : /\ r.key \in stale
                                            /\ r.at = seen[r.key]
                                            /\ cur.at - r.at <= Retain}
    /\ UNCHANGED <<clock, cur, lastPerDevice, considered, injected, wouldInject,
                   refused, reports, log>>

\* What an injection of the current event is remembered by.
Record(e, t) == [n |-> considered, key |-> e.key, at |-> t, last |-> e.last,
                 defect |-> e.defect, votes |-> e.votes]

\* Record the injection in both rate limiters, count it, publish it.
Inject(e, t) ==
    /\ lastPerDevice' = [lastPerDevice EXCEPT ![SenderOf[e.key]] = t]
    /\ recent' = recent \cup {Record(e, t)}
    /\ injected' = injected + 1
    /\ log' = log \cup {Record(e, t)}
    /\ UNCHANGED <<refused, wouldInject>>

\* Shadow mode counts and returns before anything is recorded.
WouldInject(e, t) ==
    /\ wouldInject' = wouldInject + 1
    /\ UNCHANGED <<refused, injected, lastPerDevice, recent, log>>

Refuse ==
    /\ refused' = refused + 1
    /\ UNCHANGED <<injected, wouldInject, lastPerDevice, recent, log>>

ConsiderDecide(on) ==
    /\ pc = "decide"
    /\ pc' = "idle"
    /\ LET why == Reason(cur.event, cur.at, on) IN
          \/ why = "injected"    /\ Inject(cur.event, cur.at)
          \/ why = "shadow mode" /\ WouldInject(cur.event, cur.at)
          \/ why \notin {"injected", "shadow mode"} /\ Refuse
    /\ cur' = [cur EXCEPT !.event = NoEvent]
    /\ UNCHANGED <<clock, seen, stale, considered, reports, raced>>

\* The fused events that can be considered now: on the air by now, and not
\* longer ago than the slowest path (decoding, fusion, grace) takes.
Arrivals == {e \in Event : e.last <= clock /\ clock - e.last <= MaxAge}

Next ==
    \/ Tick
    \/ \E k \in Key : Note(k)
    \/ \E e \in Arrivals, t \in cur.at..clock : ConsiderBegin(e, t)
    \/ ConsiderForget
    \/ \E on \in BOOLEAN : ConsiderDecide(on)

Spec == Init /\ [][Next]_vars
----------------------------------------------------------------------------
\* The shape of the state.
TypeOK ==
    /\ clock \in Time
    /\ seen \in [Key -> Time \cup {Never}]
    /\ pc \in {"idle", "forget", "decide"}
    /\ cur \in [at: Time, event: Event \cup {NoEvent}]
    /\ pc # "idle" => cur.event \in Event
    /\ stale \subseteq Key
    /\ lastPerDevice \in [Device -> Time \cup {Never}]
    /\ recent \subseteq log
    /\ considered \in Nat /\ injected \in Nat
    /\ wouldInject \in Nat /\ refused \in Nat
    /\ reports \subseteq Report /\ raced \subseteq reports
    /\ log \subseteq Injected

\* The injections of the minute ending now.
LastMinute == {i \in log : clock - i.at < Minute}

\* inject.py policy 7: however consider() calls fall, no minute ending now
\* contains more than GlobalPerMinute injections.
GlobalRateLimit == Cardinality(LastMinute) <= GlobalPerMinute

\* inject.py policy 7: two injections naming one sender are at least
\* PerDeviceInterval apart.
PerDeviceGap ==
    \A i, j \in log :
        (i # j /\ SenderOf[i.key] = SenderOf[j.key])
            => Abs(i.at - j.at) >= PerDeviceInterval

\* inject.py policies 2, 3, 5, 6: what was published is no reply, not the
\* modem's own, from a device of this network, verified, and not a thin vote;
\* and nothing at all in shadow mode.
OnlyEligibleInjected ==
    \A i \in log :
        /\ ~Shadow
        /\ TypeOf[i.key] # "reply"
        /\ SenderOf[i.key] \in KnownAddrs \ {PlmAddr, NoAddr}
        /\ i.defect = "none"
        /\ i.votes = 0 \/ i.votes >= MinCombinedReceivers

\* Every considered event ends in exactly one counter, and the injected
\* counter agrees with what was published (Counters.to_dict reports both).
CountersBalance ==
    /\ considered = injected + wouldInject + refused
                    + (IF pc = "idle" THEN 0 ELSE 1)
    /\ injected = Cardinality(log)

\* A report of the modem near the event being decided.
HeardNear(r, e) == r.key = e.key /\ Abs(e.last - r.at) <= SuppressWindow

\* Why the memory may no longer hold a report: a newer report of the same key
\* replaced it, it is older than Retain, or forget_old deleted it fresh.
LostFromMemory(r, t) ==
    \/ \E q \in reports : q.key = r.key /\ q.at > r.at
    \/ t - r.at > Retain
    \/ r \in raced

\* inject.py policy 4, as far as the code keeps it: an event is injected
\* although the modem reported the message around it only if that report was
\* replaced, aged out, or deleted by the race of note() with forget_old().
SuppressedUnlessLost ==
    [][\A r \in reports :
          (log' # log /\ HeardNear(r, cur.event)) => LostFromMemory(r, cur.at)]_vars

\* What makes the rate limits inductive: the limiters' private tables cover
\* every injection that still counts, and consider()'s now is not older than
\* anything they hold.
LimiterCovers ==
    /\ IsFiniteSet(log) /\ IsFiniteSet(recent)
    /\ Cardinality(recent) <= GlobalPerMinute
    /\ LastMinute \subseteq recent
    /\ cur.at <= clock
    /\ \A i \in log :
          /\ SenderOf[i.key] \in Device
          /\ i.at <= lastPerDevice[SenderOf[i.key]]
          /\ i.at <= cur.at
          /\ i.n <= considered /\ (pc # "idle" => i.n < considered)
    /\ \A d \in Device : lastPerDevice[d] <= cur.at

\* What makes the suppression inductive: a report is in the memory unless it
\* was lost in one of the three ways.
MemoryCovers ==
    \A r \in reports : r.at <= clock /\ (seen[r.key] = r.at \/ LostFromMemory(r, cur.at))

\* What holds of the decision's private state: the shape, limiters and memory
\* that cover all they must, and counters in which every event is once.
InjectorInv ==
    TypeOK /\ LimiterCovers /\ MemoryCovers /\ CountersBalance /\ OnlyEligibleInjected

\* inject.py policy 7, both limits.
RateLimits == GlobalRateLimit /\ PerDeviceGap

\* inject.py policy 4, "Anything the PLM already heard is suppressed", as long as
\* the report is the newest of its message and not aged out.
FreshReportSuppresses ==
    [][log' # log =>
          \A r \in reports :
             HeardNear(r, cur.event) =>
                \/ \E q \in reports : q.key = r.key /\ q.at > r.at
                \/ cur.at - r.at > Retain]_vars
=============================================================================
