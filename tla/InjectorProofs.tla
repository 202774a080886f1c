--------------------------- MODULE InjectorProofs ---------------------------
(***************************************************************************)
(* Proofs about Injector, for every set of messages and devices, every     *)
(* window, interval and limit, and every bound.                            *)
(***************************************************************************)
EXTENDS Injector, FiniteSetTheorems, TLAPS

USE InjectorAssumption

\* What the refusals leave standing: consider() injects only past every check.
LEMMA InjectedPassedEveryCheck ==
    ASSUME NEW e, NEW t, NEW on, Reason(e, t, on) = "injected"
    PROVE  /\ Classify(e.key) \in Allow
           /\ Verified(e) /\ e.defect # "unrenderable"
           /\ ~Heard(e.key, e.last)
           /\ \/ lastPerDevice[SenderOf[e.key]] = Never
              \/ ~(t - lastPerDevice[SenderOf[e.key]] < PerDeviceInterval)
           /\ ~(Cardinality(recent) >= GlobalPerMinute)
           /\ ~Shadow
<1> DEFINE passed == /\ on
                     /\ Classify(e.key) \in Allow
                     /\ Verified(e) /\ e.defect # "unrenderable"
                     /\ ~Heard(e.key, e.last)
                     /\ \/ lastPerDevice[SenderOf[e.key]] = Never
                        \/ ~(t - lastPerDevice[SenderOf[e.key]] < PerDeviceInterval)
                     /\ ~(Cardinality(recent) >= GlobalPerMinute)
                     /\ ~Shadow
<1>1. ~passed => Reason(e, t, on) # "injected"
  BY Zenon DEF Reason
<1>2. QED
  BY <1>1

\* What a tier says of its messages (Injector.classify): the sender is known,
\* on the allow-list, not the modem itself, and the message is not a reply.
LEMMA TierHasSender ==
    ASSUME NEW k \in Key, Classify(k) \in Allow
    PROVE  /\ SenderOf[k] \in Device /\ SenderOf[k] \in KnownAddrs
           /\ SenderOf[k] # PlmAddr /\ TypeOf[k] # "reply"
<1>1. Classify(k) # NoTier
  BY DEF NoTier, Tier
<1>2. QED
  BY <1>1 DEF Classify

----------------------------------------------------------------------------
\* Type correctness: times stay on the clock, the limiter's list holds only
\* published injections, the raced reports are reports.
THEOREM TypeCorrect == Spec => []TypeOK
<1>1. Init => TypeOK
  BY DEF Init, TypeOK, Time, Event, NoEvent, Never
<1>2. TypeOK /\ [Next]_vars => TypeOK'
  <2> SUFFICES ASSUME TypeOK, [Next]_vars PROVE TypeOK'
    OBVIOUS
  <2> USE DEF TypeOK
  <2>1. CASE Tick
    BY <2>1 DEF Tick, Time
  <2>2. ASSUME NEW k \in Key, Note(k) PROVE TypeOK'
    BY <2>2 DEF Note, Time, Report
  <2>3. ASSUME NEW e \in Arrivals, NEW t \in cur.at..clock, ConsiderBegin(e, t) PROVE TypeOK'
    <3>1. t \in Time
      BY DEF Time
    <3>2. QED
      BY <2>3, <3>1 DEF ConsiderBegin, Arrivals, Stale
  <2>4. CASE ConsiderForget
    BY <2>4 DEF ConsiderForget, WithinMinute, Never
  <2>5. ASSUME NEW on \in BOOLEAN, ConsiderDecide(on) PROVE TypeOK'
    <3> DEFINE e == cur.event
               rec == Record(e, cur.at)
    <3>1. e \in Event /\ cur.at \in Time /\ rec \in Injected
      BY <2>5 DEF ConsiderDecide, Event, Injected, Record
    <3>2. cur' \in [at: Time, event: Event \cup {NoEvent}]
      BY <2>5 DEF ConsiderDecide
    <3>3. /\ pc' = "idle"
          /\ UNCHANGED <<clock, seen, stale, considered, reports, raced>>
          /\ \/ Reason(e, cur.at, on) = "injected" /\ Inject(e, cur.at)
             \/ WouldInject(e, cur.at)
             \/ Refuse
      BY <2>5 DEF ConsiderDecide
    <3> HIDE DEF e, rec
    <3>4. CASE Inject(e, cur.at)
      <4>1. lastPerDevice' \in [Device -> Time \cup {Never}]
        BY <3>1, <3>4 DEF Inject
      <4>2. recent' \subseteq log' /\ log' \subseteq Injected
        BY <3>1, <3>4 DEF Inject, rec
      <4>3. QED
        BY <3>2, <3>3, <3>4, <4>1, <4>2 DEF Inject
    <3>5. CASE WouldInject(e, cur.at)
      BY <3>1, <3>2, <3>3, <3>5 DEF WouldInject, rec
    <3>6. CASE Refuse
      BY <3>2, <3>3, <3>6 DEF Refuse
    <3>7. QED
      BY <3>3, <3>4, <3>5, <3>6
  <2>6. CASE UNCHANGED vars
    BY <2>6 DEF vars
  <2>7. QED
    BY <2>1, <2>2, <2>3, <2>4, <2>5, <2>6 DEF Next
<1>3. QED
  BY <1>1, <1>2, PTL DEF Spec

----------------------------------------------------------------------------
\* The inductive invariant of the rate limits: the limiters' tables cover
\* every injection that still counts (Injector._forget_old, consider).
THEOREM LimiterCorrect == Spec => []LimiterCovers
<1>1. Init => LimiterCovers
  BY FS_EmptySet DEF Init, LimiterCovers, LastMinute, Never
<1>2. TypeOK /\ LimiterCovers /\ [Next]_vars => LimiterCovers'
  <2> SUFFICES ASSUME TypeOK, LimiterCovers, [Next]_vars PROVE LimiterCovers'
    OBVIOUS
  <2> USE DEF LimiterCovers
  <2>t. /\ clock \in Nat /\ cur.at \in Nat /\ considered \in Nat
        /\ \A i \in log : i.at \in Nat /\ i.n \in Nat /\ i.key \in Key
        /\ \A d \in Device : lastPerDevice[d] \in Int
        /\ recent \subseteq log
    BY DEF TypeOK, Time, Injected, Never
  <2>1. CASE Tick
    <3>1. LastMinute' \subseteq LastMinute
      BY <2>t, <2>1 DEF Tick, LastMinute
    <3>2. QED
      BY <2>t, <2>1, <3>1 DEF Tick, LastMinute
  <2>2. ASSUME NEW k \in Key, Note(k) PROVE LimiterCovers'
    BY <2>2 DEF Note, LastMinute
  <2>3. ASSUME NEW e \in Arrivals, NEW t \in cur.at..clock, ConsiderBegin(e, t) PROVE LimiterCovers'
    <3>1. /\ clock' = clock /\ cur'.at = t /\ considered' = considered + 1
          /\ UNCHANGED <<log, recent, lastPerDevice>>
      BY <2>3 DEF ConsiderBegin
    <3>2. LastMinute' \subseteq recent'
      BY <3>1 DEF LastMinute
    <3>3. QED
      BY <2>t, <3>1, <3>2
  <2>4. CASE ConsiderForget
    <3>1. /\ UNCHANGED <<clock, cur, considered, lastPerDevice, log>>
          /\ recent' = WithinMinute(recent, cur.at) /\ pc = "forget"
      BY <2>4 DEF ConsiderForget
    <3>2. IsFiniteSet(recent') /\ Cardinality(recent') <= Cardinality(recent)
      <4>1. recent' \in SUBSET recent
        BY <3>1 DEF WithinMinute
      <4>2. QED
        BY <4>1, FS_Subset
    <3>3. Cardinality(recent') <= GlobalPerMinute
      <4>1. Cardinality(recent') \in Nat /\ Cardinality(recent) \in Nat
        BY <3>2, FS_CardinalityType
      <4>2. QED
        BY <3>2, <4>1
    <3>4. LastMinute' \subseteq recent'
      BY <2>t, <3>1 DEF LastMinute, WithinMinute
    <3>5. QED
      BY <3>1, <3>2, <3>3, <3>4
  <2>5. ASSUME NEW on \in BOOLEAN, ConsiderDecide(on) PROVE LimiterCovers'
    <3> DEFINE e == cur.event
               t == cur.at
               rec == Record(e, t)
    <3>1. /\ pc # "idle" /\ pc' = "idle" /\ e \in Event
          /\ UNCHANGED <<clock, considered>>
          /\ \/ Reason(e, t, on) = "injected" /\ Inject(e, t)
             \/ WouldInject(e, t)
             \/ Refuse
      BY <2>5 DEF ConsiderDecide, TypeOK
    <3>2. cur'.at = cur.at
      BY <2>5 DEF ConsiderDecide, TypeOK
    <3>3. CASE WouldInject(e, t) \/ Refuse
      BY <2>t, <3>1, <3>2, <3>3 DEF WouldInject, Refuse, LastMinute
    <3>4. CASE Reason(e, t, on) = "injected" /\ Inject(e, t)
      <4>1. /\ Classify(e.key) \in Allow
            /\ ~(Cardinality(recent) >= GlobalPerMinute)
        BY <3>4, InjectedPassedEveryCheck
      <4>2. SenderOf[e.key] \in Device
        BY <3>1, <4>1, TierHasSender DEF Event
      <4>3. rec.n = considered /\ rec.key = e.key /\ rec.at = t
        BY DEF Record
      <4>4. log' = log \cup {rec} /\ recent' = recent \cup {rec}
            /\ lastPerDevice' = [lastPerDevice EXCEPT ![SenderOf[e.key]] = t]
        BY <3>4 DEF Inject
      <4> HIDE DEF rec, e
      <4>5. /\ IsFiniteSet(log') /\ IsFiniteSet(recent')
            /\ Cardinality(recent') <= Cardinality(recent) + 1
        <5>1. IsFiniteSet(log \cup {rec}) /\ IsFiniteSet(recent \cup {rec})
          BY FS_AddElement
        <5>2. Cardinality(recent \cup {rec})
                = IF rec \in recent THEN Cardinality(recent) ELSE Cardinality(recent) + 1
          BY FS_AddElement
        <5>3. Cardinality(recent) \in Nat
          BY FS_CardinalityType
        <5>4. QED
          BY <4>4, <5>1, <5>2, <5>3
      <4>6. Cardinality(recent') <= GlobalPerMinute
        BY <4>1, <4>5, FS_CardinalityType
      <4>7. LastMinute' \subseteq recent'
        BY <3>1, <4>4 DEF LastMinute
      <4>8. \A d \in Device : lastPerDevice'[d] = IF d = SenderOf[e.key] THEN t ELSE lastPerDevice[d]
        BY <4>2, <4>4 DEF TypeOK
      <4>9. \A i \in log' : /\ SenderOf[i.key] \in Device
                            /\ i.at <= lastPerDevice'[SenderOf[i.key]]
                            /\ i.at <= t /\ i.n <= considered
        BY <2>t, <3>1, <4>2, <4>3, <4>4, <4>8
      <4>10. \A d \in Device : lastPerDevice'[d] <= t
        BY <2>t, <4>8
      <4>11. QED
        BY <3>1, <3>2, <4>5, <4>6, <4>7, <4>9, <4>10
    <3>5. QED
      BY <3>1, <3>3, <3>4
  <2>6. CASE UNCHANGED vars
    BY <2>6 DEF vars, LastMinute
  <2>7. QED
    BY <2>1, <2>2, <2>3, <2>4, <2>5, <2>6 DEF Next
<1>3. QED
  BY <1>1, <1>2, TypeCorrect, PTL DEF Spec

\* Policy 7, globally: the number of injections in the minute ending now never
\* exceeds global_per_minute.
THEOREM GlobalRateLimitHolds == Spec => []GlobalRateLimit
<1>1. TypeOK /\ LimiterCovers => GlobalRateLimit
  <2> SUFFICES ASSUME TypeOK, LimiterCovers PROVE GlobalRateLimit
    OBVIOUS
  <2> DEFINE W == LastMinute
  <2>1. W \in SUBSET recent /\ IsFiniteSet(recent) /\ Cardinality(recent) <= GlobalPerMinute
    BY DEF LimiterCovers
  <2>2. IsFiniteSet(W) /\ Cardinality(W) <= Cardinality(recent)
    BY <2>1, FS_Subset
  <2>3. Cardinality(W) \in Nat /\ Cardinality(recent) \in Nat
    BY <2>1, <2>2, FS_CardinalityType
  <2> HIDE DEF W
  <2>4. Cardinality(W) <= GlobalPerMinute
    BY <2>1, <2>2, <2>3
  <2>5. QED
    BY <2>4 DEF W, GlobalRateLimit
<1>2. QED
  BY <1>1, TypeCorrect, LimiterCorrect, PTL

\* Policy 7, per device: two injections naming one sender are at least
\* per_device_interval_s apart.
THEOREM PerDeviceGapHolds == Spec => []PerDeviceGap
<1>1. Init => PerDeviceGap
  BY DEF Init, PerDeviceGap
<1>2. TypeOK /\ LimiterCovers /\ PerDeviceGap /\ [Next]_vars => PerDeviceGap'
  <2> SUFFICES ASSUME TypeOK, LimiterCovers, PerDeviceGap, [Next]_vars
               PROVE  PerDeviceGap'
    OBVIOUS
  <2>1. CASE log' = log
    BY <2>1 DEF PerDeviceGap
  <2>2. CASE log' # log
    <3>1. PICK on \in BOOLEAN : ConsiderDecide(on) /\ Reason(cur.event, cur.at, on) = "injected"
                                /\ Inject(cur.event, cur.at)
      BY <2>2 DEF Next, vars, Tick, Note, ConsiderBegin, ConsiderForget,
                  ConsiderDecide, WouldInject, Refuse
    <3> DEFINE e == cur.event
               t == cur.at
               rec == Record(e, t)
               d == SenderOf[e.key]
    <3>2. /\ Classify(e.key) \in Allow
          /\ \/ lastPerDevice[d] = Never
             \/ ~(t - lastPerDevice[d] < PerDeviceInterval)
      BY <3>1, InjectedPassedEveryCheck
    <3>3. d \in Device
      BY <3>1, <3>2, TierHasSender DEF Event, ConsiderDecide, TypeOK
    <3>4. log' = log \cup {rec} /\ SenderOf[rec.key] = d /\ rec.at = t
      BY <3>1 DEF Inject, Record
    <3>5. t \in Nat /\ lastPerDevice[d] \in Int /\ \A i \in log : i.at \in Nat
      BY <3>3 DEF TypeOK, Time, Never, Injected
    <3>6. \A i \in log : SenderOf[i.key] = d => i.at <= lastPerDevice[d]
      BY DEF LimiterCovers
    <3> HIDE DEF e, t, rec, d
    <3>7. \A i \in log : SenderOf[i.key] = d => t - i.at >= PerDeviceInterval
      BY <3>2, <3>5, <3>6 DEF Never
    <3>8. \A i \in log : SenderOf[i.key] = d
              => Abs(t - i.at) >= PerDeviceInterval /\ Abs(i.at - t) >= PerDeviceInterval
      BY <3>5, <3>7 DEF Abs
    <3>9. QED
      BY <3>4, <3>8 DEF PerDeviceGap
  <2>3. QED
    BY <2>1, <2>2
<1>3. QED
  BY <1>1, <1>2, TypeCorrect, LimiterCorrect, PTL DEF Spec

\* Policies 2, 3, 5 and 6: only verified messages of known devices that are
\* not replies and not the modem's own are ever published, and none in shadow.
THEOREM OnlyEligibleHolds == Spec => []OnlyEligibleInjected
<1>1. Init => OnlyEligibleInjected
  BY DEF Init, OnlyEligibleInjected
<1>2. TypeOK /\ OnlyEligibleInjected /\ [Next]_vars => OnlyEligibleInjected'
  <2> SUFFICES ASSUME TypeOK, OnlyEligibleInjected, [Next]_vars
               PROVE  OnlyEligibleInjected'
    OBVIOUS
  <2>1. CASE log' = log
    BY <2>1 DEF OnlyEligibleInjected
  <2>2. CASE log' # log
    <3>1. PICK on \in BOOLEAN : ConsiderDecide(on) /\ Reason(cur.event, cur.at, on) = "injected"
                                /\ Inject(cur.event, cur.at)
      BY <2>2 DEF Next, vars, Tick, Note, ConsiderBegin, ConsiderForget,
                  ConsiderDecide, WouldInject, Refuse
    <3> DEFINE e == cur.event
               rec == Record(e, cur.at)
    <3>2. /\ Classify(e.key) \in Allow /\ Verified(e) /\ e.defect # "unrenderable"
          /\ ~Shadow
      BY <3>1, InjectedPassedEveryCheck
    <3>3. /\ SenderOf[e.key] \in KnownAddrs \ {PlmAddr, NoAddr}
          /\ TypeOf[e.key] # "reply"
      BY <3>1, <3>2, TierHasSender DEF Event, ConsiderDecide, TypeOK
    <3>4. /\ log' = log \cup {rec} /\ rec.key = e.key
          /\ rec.defect = e.defect /\ rec.votes = e.votes
      BY <3>1 DEF Inject, Record
    <3>5. e.defect = "none" /\ (e.votes = 0 \/ e.votes >= MinCombinedReceivers)
      BY <3>2 DEF Verified
    <3> HIDE DEF e, rec
    <3>6. QED
      BY <3>2, <3>3, <3>4, <3>5 DEF OnlyEligibleInjected
  <2>3. QED
    BY <2>1, <2>2
<1>3. QED
  BY <1>1, <1>2, TypeCorrect, PTL DEF Spec

----------------------------------------------------------------------------
\* The inductive invariant of the suppression: a report of the modem is in
\* PlmMemory unless it was replaced, aged out or deleted by the race.
THEOREM MemoryCorrect == Spec => []MemoryCovers
<1>1. Init => MemoryCovers
  BY DEF Init, MemoryCovers
<1>2. TypeOK /\ LimiterCovers /\ MemoryCovers /\ [Next]_vars => MemoryCovers'
  <2> SUFFICES ASSUME TypeOK, LimiterCovers, MemoryCovers, [Next]_vars
               PROVE  MemoryCovers'
    OBVIOUS
  <2>t. /\ clock \in Nat /\ cur.at \in Nat /\ cur.at <= clock
        /\ \A r \in reports : r.at \in Nat /\ r.key \in Key
      BY DEF TypeOK, Time, Report, LimiterCovers
  <2>1. CASE Tick
    BY <2>t, <2>1 DEF Tick, MemoryCovers, LostFromMemory
  <2>2. ASSUME NEW k \in Key, Note(k) PROVE MemoryCovers'
    <3> DEFINE new == [key |-> k, at |-> clock]
    <3>1. /\ reports' = reports \cup {new} /\ UNCHANGED <<clock, cur, raced>>
          /\ seen' = [seen EXCEPT ![k] = clock] /\ new.key = k /\ new.at = clock
      BY <2>2 DEF Note
    <3>2. seen'[k] = clock /\ \A j \in Key : j # k => seen'[j] = seen[j]
      BY <3>1 DEF TypeOK
    <3> HIDE DEF new
    <3>3. \A r \in reports : LostFromMemory(r, cur.at) => LostFromMemory(r, cur.at)'
      BY <3>1 DEF LostFromMemory
    <3>4. ASSUME NEW r \in reports, r.key = k, r.at # clock PROVE LostFromMemory(r, cur.at)'
      <4>1. r.at < clock
        BY <2>t, <3>4 DEF MemoryCovers
      <4>2. QED
        BY <3>1, <3>4, <4>1 DEF LostFromMemory
    <3>5. QED
      BY <2>t, <3>1, <3>2, <3>3, <3>4 DEF MemoryCovers
  <2>3. ASSUME NEW e \in Arrivals, NEW t \in cur.at..clock, ConsiderBegin(e, t) PROVE MemoryCovers'
    BY <2>t, <2>3 DEF ConsiderBegin, MemoryCovers, LostFromMemory
  <2>4. CASE ConsiderForget
    <3>1. /\ UNCHANGED <<clock, cur, reports>>
          /\ seen' = [k \in Key |-> IF k \in stale THEN Never ELSE seen[k]]
          /\ raced' = raced \cup {r \in reports : /\ r.key \in stale
                                                  /\ r.at = seen[r.key]
                                                  /\ cur.at - r.at <= Retain}
      BY <2>4 DEF ConsiderForget, Forgotten
    <3>2. ASSUME NEW r \in reports PROVE seen'[r.key] = r.at \/ LostFromMemory(r, cur.at)'
      <4>1. CASE LostFromMemory(r, cur.at)
        BY <3>1, <4>1 DEF LostFromMemory
      <4>2. CASE seen[r.key] = r.at /\ r.key \notin stale
        BY <2>t, <3>1, <4>2
      <4>3. CASE seen[r.key] = r.at /\ r.key \in stale
        BY <2>t, <3>1, <4>3 DEF LostFromMemory
      <4>4. QED
        BY <4>1, <4>2, <4>3 DEF MemoryCovers
    <3>3. QED
      BY <3>1, <3>2 DEF MemoryCovers
  <2>5. ASSUME NEW on \in BOOLEAN, ConsiderDecide(on) PROVE MemoryCovers'
    <3>1. cur'.at = cur.at /\ UNCHANGED <<clock, seen, reports, raced>>
      BY <2>5 DEF ConsiderDecide, TypeOK
    <3>2. QED
      BY <3>1 DEF MemoryCovers, LostFromMemory
  <2>6. CASE UNCHANGED vars
    BY <2>6 DEF vars, MemoryCovers, LostFromMemory
  <2>7. QED
    BY <2>1, <2>2, <2>3, <2>4, <2>5, <2>6 DEF Next
<1>3. QED
  BY <1>1, <1>2, TypeCorrect, LimiterCorrect, PTL DEF Spec

\* Policy 4: whatever the modem reported around an event suppresses it, unless
\* the report had left the memory in one of the three ways.
THEOREM SuppressionHolds == Spec => SuppressedUnlessLost
<1> DEFINE Step == \A r \in reports :
                      (log' # log /\ HeardNear(r, cur.event)) => LostFromMemory(r, cur.at)
<1>1. TypeOK /\ MemoryCovers /\ [Next]_vars => [Step]_vars
  <2> SUFFICES ASSUME TypeOK, MemoryCovers, [Next]_vars,
                      NEW r \in reports, log' # log, HeardNear(r, cur.event)
               PROVE  LostFromMemory(r, cur.at)
    OBVIOUS
  <2>1. PICK on \in BOOLEAN : Reason(cur.event, cur.at, on) = "injected"
    BY DEF Next, vars, Tick, Note, ConsiderBegin, ConsiderForget,
           ConsiderDecide, WouldInject, Refuse
  <2>2. ~Heard(cur.event.key, cur.event.last)
    BY <2>1, InjectedPassedEveryCheck
  <2>3. r.at # Never
    BY DEF TypeOK, Report, Time, Never
  <2>4. seen[r.key] # r.at
    BY <2>2, <2>3 DEF Heard, HeardNear
  <2>5. QED
    BY <2>4 DEF MemoryCovers
<1>2. QED
  BY <1>1, TypeCorrect, MemoryCorrect, PTL DEF Spec, SuppressedUnlessLost

----------------------------------------------------------------------------
\* Every considered event ends in exactly one counter, and the injected
\* counter is the number of publications (Counters.to_dict): an injection is
\* a new entry of the log, because it carries a number no earlier one has.
THEOREM CountersHold == Spec => []CountersBalance
<1>1. Init => CountersBalance
  BY FS_EmptySet DEF Init, CountersBalance
<1>2. TypeOK /\ LimiterCovers /\ CountersBalance /\ [Next]_vars => CountersBalance'
  <2> SUFFICES ASSUME TypeOK, LimiterCovers, CountersBalance, [Next]_vars
               PROVE  CountersBalance'
    OBVIOUS
  <2>n. considered \in Nat /\ injected \in Nat /\ wouldInject \in Nat /\ refused \in Nat
    BY DEF TypeOK
  <2>1. CASE Tick \/ \E k \in Key : Note(k)
    BY <2>1 DEF Tick, Note, CountersBalance
  <2>2. ASSUME NEW e \in Arrivals, NEW t \in cur.at..clock, ConsiderBegin(e, t) PROVE CountersBalance'
    BY <2>n, <2>2 DEF ConsiderBegin, CountersBalance
  <2>3. CASE ConsiderForget
    BY <2>3 DEF ConsiderForget, CountersBalance
  <2>4. ASSUME NEW on \in BOOLEAN, ConsiderDecide(on) PROVE CountersBalance'
    <3> DEFINE rec == Record(cur.event, cur.at)
    <3>1. /\ pc = "decide" /\ pc' = "idle" /\ considered' = considered
          /\ \/ Inject(cur.event, cur.at)
             \/ WouldInject(cur.event, cur.at)
             \/ Refuse
      BY <2>4 DEF ConsiderDecide
    <3>2. considered = injected + wouldInject + refused + 1 /\ injected = Cardinality(log)
      BY <3>1 DEF CountersBalance
    <3>3. CASE Inject(cur.event, cur.at)
      <4>1. log' = log \cup {rec} /\ injected' = injected + 1 /\ UNCHANGED <<refused, wouldInject>>
        BY <3>3 DEF Inject
      <4>2. rec.n = considered
        BY DEF Record
      <4> HIDE DEF rec
      <4>3. rec \notin log
        <5>1. \A i \in log : i.n \in Nat /\ i.n < considered
          BY <3>1 DEF LimiterCovers, TypeOK, Injected
        <5>2. QED
          BY <2>n, <4>2, <5>1
      <4>4. Cardinality(log') = Cardinality(log) + 1
        BY <4>1, <4>3, FS_AddElement DEF LimiterCovers
      <4>5. QED
        BY <2>n, <3>1, <3>2, <4>1, <4>4 DEF CountersBalance
    <3>4. CASE WouldInject(cur.event, cur.at)
      BY <2>n, <3>1, <3>2, <3>4 DEF WouldInject, CountersBalance
    <3>5. CASE Refuse
      BY <2>n, <3>1, <3>2, <3>5 DEF Refuse, CountersBalance
    <3>6. QED
      BY <3>1, <3>3, <3>4, <3>5
  <2>5. CASE UNCHANGED vars
    BY <2>5 DEF vars, CountersBalance
  <2>6. QED
    BY <2>1, <2>2, <2>3, <2>4, <2>5 DEF Next
<1>3. QED
  BY <1>1, <1>2, TypeCorrect, LimiterCorrect, PTL DEF Spec

\* The decision's private state keeps its shape and covers what the policies need.
THEOREM InvHolds == Spec => []InjectorInv
  BY TypeCorrect, LimiterCorrect, MemoryCorrect, CountersHold, OnlyEligibleHolds, PTL DEF InjectorInv

\* Both rate limits of inject.py policy 7.
THEOREM RateLimitsHold == Spec => []RateLimits
  BY GlobalRateLimitHolds, PerDeviceGapHolds, PTL DEF RateLimits
=============================================================================
