----------------------------- MODULE MeshProofs -----------------------------
(***************************************************************************)
(* Proofs about Mesh, for every network, grace period and number of        *)
(* events: the service implements the Injector's specification, and no     *)
(* event is lost, settled early or counted twice between fusion and the    *)
(* miss table.                                                             *)
(***************************************************************************)
EXTENDS Mesh, FiniteSetTheorems, SequenceTheorems, TLAPS

USE MeshAssumption

\* TypeOK, and a book of settled events that can be counted.
Shape == TypeOK /\ IsFiniteSet(settled)

\* How many events are in hand.
Busy == IF current = NoEvent THEN 0 ELSE 1

\* A held event is a record of its own kind, never the absence of one.
LEMMA HeldIsEvent == \A h \in Held : h.n \in Nat \ {0} /\ h # NoEvent
  BY DEF Held, NoEvent

\* What fusion hands over can be held.
LEMMA FreshIsHeld ==
    ASSUME Shape, NEW e \in Inj!Event, NEW due \in Nat
    PROVE  Fresh(e, due) \in Held /\ Fresh(e, due).n = Cardinality(settled) + Len(holding) + Busy + 1
<1>1. Cardinality(settled) \in Nat /\ Len(holding) \in Nat
  BY FS_CardinalityType DEF Shape, TypeOK
<1>2. now \in Nat
  BY DEF Shape, TypeOK
<1>3. QED
  BY <1>1, <1>2 DEF Fresh, Held, Verdict, Busy

\* The book has a row for every event.
LEMMA BookIsTyped ==
    ASSUME Shape, NEW h \in Held, Book(h)
    PROVE  /\ misses' \in [Device -> [Tally -> Nat]] /\ other' \in [Untold -> Nat]
           /\ settled' \subseteq Held /\ IsFiniteSet(settled')
<1>1. misses \in [Device -> [Tally -> Nat]] /\ other \in [Untold -> Nat]
  BY DEF Shape, TypeOK
<1>2. ASSUME NEW f \in Untold PROVE other[f] + (IF RowOf(h.event) = f THEN 1 ELSE 0) \in Nat
  BY <1>1
<1>3. ASSUME NEW d \in Device, NEW f \in Tally, NEW p \in BOOLEAN
      PROVE  misses[d][f] + (IF p THEN 1 ELSE 0) \in Nat
  BY <1>1
<1>4. other' \in [Untold -> Nat]
  BY <1>2 DEF Book
<1>5. misses' \in [Device -> [Tally -> Nat]]
  BY <1>3 DEF Book
<1>6. settled' \subseteq Held /\ IsFiniteSet(settled')
  BY FS_AddElement DEF Book, Shape, TypeOK
<1>7. QED
  BY <1>4, <1>5, <1>6

\* An event is in hand from _finish's first statement to its last, and the
\* injector is at work within that, unless the loop was interrupted.
LEMMA InHandKept ==
    ASSUME Shape, [Next]_vars
    PROVE  InHand'
<1> USE DEF InHand
<1>h. InHand /\ loop \in Loop /\ current \in Held \cup {NoEvent}
  BY DEF Shape, TypeOK
<1>1. CASE UNCHANGED <<pc, current, loop>>
  BY <1>h, <1>1
<1>2. CASE Tick \/ (\E k \in Key : FrameNoted(k)) \/ FrameArrives \/ LoseLink \/ Reconnect
  BY <1>1, <1>2 DEF Tick, Inj!Tick, FrameNoted, Inj!Note, FrameArrives, LoseLink, Reconnect,
     injVars, meshVars, loopVars, holdVars
<1>3. CASE Poll \/ PopDone \/ SettleDone \/ Stop
  <2>1. /\ loop \in {"poll", "pop", "settle"} /\ UNCHANGED <<pc, current>>
        /\ loop' \in {"poll", "pop", "settle", "last events", "exit"}
    BY <1>3 DEF Poll, PopDone, SettleDone, Stop, injVars, holdVars
  <2>2. QED
    BY <1>h, <2>1
<1>4. CASE (\E e \in Fused : Pop(e)) \/ (\E e \in Fused : BookFlushed(e))
  BY <1>1, <1>4 DEF Pop, BookFlushed, injVars, loopVars, holdVars
<1>5. CASE Settle
  <2>1. /\ loop = "settle" /\ loop' = "gate" /\ UNCHANGED pc
        /\ \E h \in Held : current' = h
    <3>1. Head(holding) \in Held
      BY <1>5, HeadTailProperties DEF Settle, Due, Shape, TypeOK
    <3>2. PICK v \in Verdict : current' = [Head(holding) EXCEPT !.verdict = v]
      BY <1>5 DEF Settle, Verdict
    <3>3. current' \in Held
      BY <3>1, <3>2 DEF Held
    <3>4. QED
      BY <1>5, <3>3 DEF Settle, injVars
  <2>2. current' # NoEvent
    BY <2>1, HeldIsEvent
  <2>3. QED
    BY <1>h, <2>1, <2>2
<1>6. CASE SkipInjector
  BY <1>h, <1>6 DEF SkipInjector, injVars, holdVars
<1>7. CASE Offer
  <2>1. loop = "gate" /\ loop' = "consider" /\ pc' = "forget" /\ UNCHANGED current
    BY <1>7 DEF Offer, Inj!ConsiderBegin, holdVars
  <2>2. QED
    BY <1>h, <2>1
<1>8. CASE Forget
  <2>1. loop = "consider" /\ pc' = "decide" /\ UNCHANGED <<loop, current>>
    BY <1>8 DEF Forget, Inj!ConsiderForget, meshVars, loopVars, holdVars
  <2>2. QED
    BY <1>h, <2>1
<1>9. CASE Decide
  <2>1. /\ loop = "consider" /\ loop' = "record" /\ pc' = "idle"
        /\ \E v \in Verdict, b \in BOOLEAN : current' = [current EXCEPT !.verdict = v, !.injected = b]
    <3>1. current \in Held
      BY <1>h, <1>9 DEF Decide
    <3>2. VerdictAfter(Inj!Reason(cur.event, cur.at, TRUE)) \in Verdict
      BY <3>1 DEF VerdictAfter, Verdict, Held
    <3>3. QED
      BY <1>9, <3>2 DEF Decide, Inj!ConsiderDecide
  <2>2. current \in Held /\ current' \in Held
    BY <1>h, <2>1 DEF Held
  <2>3. QED
    BY <1>h, <2>1, <2>2, HeldIsEvent
<1>10. CASE Record
  BY <1>h, <1>10 DEF Record, injVars
<1>11. CASE Interrupt
  BY <1>h, <1>11 DEF Interrupt, injVars, holdVars
<1>12. CASE Exit
  BY <1>h, <1>12 DEF Exit, injVars, holdVars
<1>13. CASE UNCHANGED vars
  BY <1>1, <1>13 DEF vars, injVars, meshVars, loopVars, holdVars
<1>14. QED
  BY <1>2, <1>3, <1>4, <1>5, <1>6, <1>7, <1>8, <1>9, <1>10, <1>11, <1>12, <1>13 DEF Next, Service

\* Types, and where in its loop the service is inside consider()
\* (MeshService.drain, _finish, flush).
LEMMA ShapeCorrect == Spec => []Shape
<1> USE DEF Shape, TypeOK
<1>1. Init => Shape
  <2> SUFFICES ASSUME Init PROVE Shape
    OBVIOUS
  <2>1. clock = 0 /\ pc = "idle" /\ link = TRUE /\ lostAt = 0 /\ lastFrameAt = Inj!Never
    BY DEF Init, Inj!Init
  <2>2. /\ loop = "poll" /\ flushing = FALSE /\ now = 0 /\ events = 0 /\ holding = <<>>
        /\ current = NoEvent /\ settled = {}
    BY DEF Init
  <2>3. misses \in [Device -> [Tally -> Nat]] /\ other \in [Untold -> Nat]
    BY DEF Init
  <2>4. link \in BOOLEAN /\ flushing \in BOOLEAN
    BY <2>1, <2>2, Zenon
  <2>5. IsFiniteSet(settled) /\ holding \in Seq(Held)
    BY <2>2, FS_EmptySet
  <2>6. QED
    BY <2>1, <2>2, <2>3, <2>4, <2>5 DEF Loop, InHand
<1>2. Shape /\ [Next]_vars => Shape'
  <2> SUFFICES ASSUME Shape, [Next]_vars PROVE Shape'
    OBVIOUS
  <2>0. InHand'
    BY InHandKept
  <2>1. CASE Tick
    BY <2>0, <2>1 DEF Tick, Inj!Tick, meshVars, linkVars, loopVars, holdVars, bookVars
  <2>2. CASE FrameArrives
    BY <2>0, <2>2 DEF FrameArrives, injVars, loopVars, holdVars, bookVars
  <2>3. ASSUME NEW k \in Key, FrameNoted(k) PROVE Shape'
    BY <2>0, <2>3 DEF FrameNoted, Inj!Note, meshVars, linkVars, loopVars, holdVars, bookVars
  <2>4. CASE LoseLink
    <3>1. link' \in BOOLEAN
      BY <2>4, Zenon DEF LoseLink
    <3>2. QED
      BY <2>0, <2>4, <3>1 DEF LoseLink, injVars, loopVars, holdVars, bookVars
  <2>5. CASE Reconnect
    BY <2>0, <2>5 DEF Reconnect, injVars, loopVars, holdVars, bookVars
  <2>6. CASE Poll
    BY <2>0, <2>6 DEF Poll, Loop, injVars, linkVars, holdVars, bookVars
  <2>7. ASSUME NEW e \in Fused, Pop(e) PROVE Shape'
    <3>1. Fresh(e, HoldUntil(e)) \in Held
      <4>1. HoldUntil(e) \in Nat
        BY DEF HoldUntil
      <4>2. QED
        BY <4>1, FreshIsHeld DEF Fused
    <3>2. holding' \in Seq(Held)
      BY <2>7, <3>1, AppendProperties DEF Pop
    <3>3. events' \in 0..MaxEvents
      BY <2>7 DEF Pop
    <3>4. QED
      BY <2>0, <2>7, <3>2, <3>3 DEF Pop, injVars, linkVars, loopVars, bookVars
  <2>8. CASE PopDone
    BY <2>0, <2>8 DEF PopDone, Loop, injVars, linkVars, holdVars, bookVars
  <2>9. CASE Settle
    <3> DEFINE h == Head(holding)
    <3>1. h \in Held /\ holding' \in Seq(Held)
      BY <2>9, HeadTailProperties DEF Settle, Due
    <3>2. current' \in Held
      BY <2>9, <3>1 DEF Settle, Held, Verdict
    <3>3. current' # NoEvent
      BY <3>2, HeldIsEvent
    <3>4. QED
      BY <2>0, <2>9, <3>1, <3>2, <3>3 DEF Settle, Loop, injVars, linkVars, bookVars
  <2>10. CASE SettleDone
    BY <2>0, <2>10 DEF SettleDone, Loop, injVars, linkVars, holdVars, bookVars
  <2>11. CASE SkipInjector
    BY <2>0, <2>11 DEF SkipInjector, Loop, injVars, linkVars, holdVars, bookVars
  <2>12. CASE Offer
    BY <2>0, <2>12 DEF Offer, Inj!ConsiderBegin, Loop, linkVars, holdVars, bookVars
  <2>13. CASE Forget
    BY <2>0, <2>13 DEF Forget, Inj!ConsiderForget, meshVars, linkVars, loopVars, holdVars, bookVars
  <2>14. CASE Decide
    <3>1. current \in Held
      BY <2>14 DEF Decide, InHand
    <3>2. current' \in Held
      BY <2>14, <3>1 DEF Decide, VerdictAfter, Held, Verdict
    <3>3. current' # NoEvent
      BY <3>2, HeldIsEvent
    <3>4. QED
      BY <2>0, <2>14, <3>2, <3>3 DEF Decide, Inj!ConsiderDecide, Loop, linkVars, bookVars
  <2>15. CASE Record
    <3>1. current \in Held
      BY <2>15 DEF Record, InHand
    <3>2. /\ misses' \in [Device -> [Tally -> Nat]] /\ other' \in [Untold -> Nat]
          /\ settled' \subseteq Held /\ IsFiniteSet(settled')
      BY <2>15, <3>1, BookIsTyped DEF Record
    <3>3. QED
      BY <2>0, <2>15, <3>2 DEF Record, Loop, injVars, linkVars
  <2>16. CASE Stop
    <3>1. flushing' \in BOOLEAN
      BY <2>16, Zenon DEF Stop
    <3>2. loop = "poll" /\ loop' \in {"pop", "last events"} /\ now' = clock
      BY <2>16 DEF Stop
    <3>3. UNCHANGED <<injVars, linkVars, holdVars, bookVars>>
      BY <2>16 DEF Stop
    <3>5. UNCHANGED <<clock, pc, link, lastFrameAt, lostAt, events, holding, current, settled, misses, other>>
      BY <3>3 DEF injVars, linkVars, holdVars, bookVars
    <3>6. now' \in 0..clock'
      <4>1. now' = clock
        BY <3>2
      <4>2. clock' = clock
        BY <3>5
      <4>3. clock \in Nat
        OBVIOUS
      <4>4. QED
        BY <4>1, <4>2, <4>3
    <3>7. loop' \in Loop /\ loop' \notin {"gate", "consider", "record"}
      BY <3>2 DEF Loop
    <3>8. QED
      BY <2>0, <3>1, <3>5, <3>6, <3>7
  <2>17. ASSUME NEW e \in Fused, BookFlushed(e) PROVE Shape'
    <3>1. Fresh(e, now) \in Held
      BY FreshIsHeld DEF Fused
    <3>2. QED
      BY <2>0, <2>17, <3>1, BookIsTyped DEF BookFlushed, injVars, linkVars, loopVars, holdVars
  <2>18. CASE Exit
    BY <2>0, <2>18 DEF Exit, Loop, injVars, linkVars, holdVars, bookVars
  <2>19. CASE Interrupt
    <3>1. flushing' \in BOOLEAN
      BY <2>19, Zenon DEF Interrupt
    <3>2. loop' = "last events" /\ now' = clock /\ UNCHANGED <<injVars, linkVars, holdVars, bookVars>>
      BY <2>19 DEF Interrupt
    <3>3. UNCHANGED <<clock, pc, link, lastFrameAt, lostAt, events, holding, current, settled, misses, other>>
      BY <3>2 DEF injVars, linkVars, holdVars, bookVars
    <3>4. now' \in 0..clock'
      <4>1. now' = clock
        BY <3>2
      <4>2. clock' = clock
        BY <3>3
      <4>3. clock \in Nat
        OBVIOUS
      <4>4. QED
        BY <4>1, <4>2, <4>3
    <3>5. QED
      BY <2>0, <3>1, <3>2, <3>3, <3>4 DEF Loop
  <2>20. CASE UNCHANGED vars
    BY <2>0, <2>20 DEF vars, injVars, meshVars, linkVars, loopVars, holdVars, bookVars
  <2>21. QED
    BY <2>1, <2>2, <2>3, <2>4, <2>5, <2>6, <2>7, <2>8, <2>9, <2>10, <2>11, <2>12, <2>13,
       <2>14, <2>15, <2>16, <2>17, <2>18, <2>19, <2>20 DEF Next, Service
<1>3. QED
  BY <1>1, <1>2, PTL DEF Spec

\* The same as a theorem of Mesh's own type invariant.
THEOREM TypeCorrect == Spec => []TypeOK
  BY ShapeCorrect, PTL DEF Shape

----------------------------------------------------------------------------
(***************************************************************************)
(* What a step does to the list of held events.                            *)
(***************************************************************************)
\* Pop appends the event, with all the grace it is given.
LEMMA PopStep ==
    ASSUME Shape, NEW e \in Fused, Pop(e)
    PROVE  LET h == Fresh(e, HoldUntil(e)) IN
           /\ Len(holding) \in Nat /\ Len(holding') = Len(holding) + 1
           /\ \A i \in 1..Len(holding) : holding'[i] = holding[i]
           /\ holding'[Len(holding) + 1] = h
           /\ current = NoEvent /\ h.n = Cardinality(settled) + Len(holding) + 1
           /\ h.popped = now /\ h.event = e /\ h.due = HoldUntil(e)
           /\ h.verdict = "unknown" /\ h.injected = FALSE
<1> DEFINE h == Fresh(e, HoldUntil(e))
<1>0. current = NoEvent
  BY DEF Pop, Shape, TypeOK, InHand
<1>1. /\ h.n = Cardinality(settled) + Len(holding) + 1 /\ h.popped = now /\ h.event = e
      /\ h.due = HoldUntil(e) /\ h.verdict = "unknown" /\ h.injected = FALSE
  BY <1>0 DEF Fresh
<1>2. holding \in Seq(Held) /\ h \in Held /\ holding' = Append(holding, h)
  <2>1. HoldUntil(e) \in Nat /\ e \in Inj!Event
    BY DEF HoldUntil, Fused, Shape, TypeOK
  <2>2. QED
    BY <2>1, FreshIsHeld DEF Pop, Shape, TypeOK
<1> HIDE DEF h
<1>3. /\ Len(holding) \in Nat /\ Len(holding') = Len(holding) + 1
      /\ \A i \in 1..Len(holding) : holding'[i] = holding[i]
      /\ holding'[Len(holding) + 1] = h
  BY <1>2, AppendProperties
<1>4. QED
  BY <1>0, <1>1, <1>3 DEF h

\* Settle takes the head of the list and gives it a verdict.
LEMMA SettleStep ==
    ASSUME Shape, Settle
    PROVE  LET h == holding[1] IN
           /\ Len(holding) \in Nat \ {0} /\ Len(holding') = Len(holding) - 1
           /\ \A i \in 1..Len(holding) - 1 : holding'[i] = holding[i + 1]
           /\ h \in Held /\ (flushing \/ h.due <= now)
           /\ current' \in Held /\ current' # NoEvent /\ current = NoEvent
           /\ current'.n = h.n /\ current'.popped = h.popped /\ current'.event = h.event
           /\ current'.injected = h.injected /\ current'.verdict \in {"heard", "missed"}
<1> DEFINE h == Head(holding)
<1>1. holding \in Seq(Held) /\ holding # <<>> /\ (flushing \/ h.due <= now)
  BY DEF Settle, Due, Shape, TypeOK
<1>2. /\ Len(holding) \in Nat \ {0} /\ h = holding[1] /\ h \in Held
      /\ holding' = Tail(holding) /\ Len(holding') = Len(holding) - 1
      /\ \A i \in 1..Len(holding) - 1 : holding'[i] = holding[i + 1]
  BY <1>1, HeadTailProperties DEF Settle
<1>3. PICK v \in {"heard", "missed"} : current' = [h EXCEPT !.verdict = v]
  BY DEF Settle
<1>4. /\ current' \in Held /\ current'.n = h.n /\ current'.popped = h.popped
      /\ current'.event = h.event /\ current'.injected = h.injected /\ current'.verdict = v
  BY <1>2, <1>3 DEF Held, Verdict
<1>5. current' # NoEvent /\ current = NoEvent
  BY <1>4, HeldIsEvent DEF Settle, Shape, TypeOK, InHand
<1>6. QED
  BY <1>1, <1>2, <1>3, <1>4, <1>5

\* Decide changes no more of the event than what consider found.
LEMMA DecideStep ==
    ASSUME Shape, Decide
    PROVE  /\ current \in Held /\ current' \in Held /\ current # NoEvent /\ current' # NoEvent
           /\ current'.n = current.n /\ current'.popped = current.popped
           /\ current'.event = current.event
<1>1. current \in Held /\ loop = "consider"
  BY DEF Decide, Inj!ConsiderDecide, Shape, TypeOK, InHand
<1>2. current' \in Held /\ current'.n = current.n /\ current'.popped = current.popped
      /\ current'.event = current.event
  BY <1>1 DEF Decide, VerdictAfter, Held, Verdict
<1>3. QED
  BY <1>1, <1>2, HeldIsEvent

----------------------------------------------------------------------------
(***************************************************************************)
(* The service implements the Injector.                                    *)
(***************************************************************************)
\* What the service has at hand was on the air by now; the injector is asked
\* as of the drain under way.
PastInv ==
    /\ cur \in [at: Nat, event: Inj!Event \cup {Inj!NoEvent}] /\ cur.at <= now
    /\ \A i \in 1..Len(holding) : holding[i].event.last <= now
    /\ current # NoEvent => current.event.last <= now

\* An event has its time, and time is a number.
LEMMA EventTime == \A e \in Inj!Event : e.last \in 0..MaxTime
  BY DEF Inj!Event, Inj!Time

\* Time only goes on, and what is held is passed on as it is.
LEMMA PastKept ==
    ASSUME Shape, Shape', PastInv, [Next]_vars
    PROVE  PastInv'
<1> USE DEF PastInv
<1>n. now \in Nat /\ clock \in Nat /\ now <= clock /\ Len(holding) \in Nat
  BY DEF Shape, TypeOK
<1>h. /\ \A i \in 1..Len(holding) : holding[i] \in Held /\ holding[i].event.last \in Nat
      /\ current # NoEvent => current \in Held /\ current.event.last \in Nat
  <2>1. \A h \in Held : h.event.last \in Nat
    BY EventTime DEF Held
  <2>2. \A i \in 1..Len(holding) : holding[i] \in Held
    BY ElementOfSeq DEF Shape, TypeOK
  <2>3. QED
    BY <2>1, <2>2 DEF Shape, TypeOK
<1>1. CASE UNCHANGED <<cur, now, holding, current>>
  BY <1>1
<1>2. CASE Tick \/ (\E k \in Key : FrameNoted(k)) \/ FrameArrives \/ LoseLink \/ Reconnect
  BY <1>1, <1>2 DEF Tick, Inj!Tick, FrameNoted, Inj!Note, FrameArrives, LoseLink, Reconnect,
     meshVars, linkVars, loopVars, holdVars, injVars
<1>3. CASE Poll \/ Stop \/ Interrupt
  <2>1. now' = clock /\ UNCHANGED <<cur, holding, current>>
    BY <1>3 DEF Poll, Stop, Interrupt, injVars, holdVars
  <2>2. QED
    BY <1>n, <1>h, <2>1
<1>4. ASSUME NEW e \in Fused, Pop(e) PROVE PastInv'
  <2>1. e.last <= now
    BY DEF Fused
  <2>2. UNCHANGED <<cur, now, current>>
    BY <1>4 DEF Pop, injVars, loopVars
  <2>3. /\ Len(holding') = Len(holding) + 1 /\ holding'[Len(holding) + 1].event = e
        /\ \A i \in 1..Len(holding) : holding'[i] = holding[i]
    BY <1>4, PopStep
  <2>4. \A i \in 1..Len(holding') : i \in 1..Len(holding) \/ i = Len(holding) + 1
    BY <1>n, <2>3
  <2>5. QED
    BY <2>1, <2>2, <2>3, <2>4
<1>5. CASE Settle
  <2>1. UNCHANGED <<cur, now>>
    BY <1>5 DEF Settle, injVars
  <2>2. 1 \in 1..Len(holding) /\ \A i \in 1..Len(holding') : i + 1 \in 1..Len(holding) /\ i \in 1..Len(holding) - 1
    BY <1>5, SettleStep
  <2>3. \A i \in 1..Len(holding') : holding'[i] = holding[i + 1]
    BY <1>5, <2>2, SettleStep
  <2>4. current'.event = holding[1].event
    BY <1>5, SettleStep
  <2>5. QED
    BY <2>1, <2>2, <2>3, <2>4
<1>6. CASE PopDone \/ SettleDone \/ SkipInjector \/ Exit
  BY <1>1, <1>6 DEF PopDone, SettleDone, SkipInjector, Exit, injVars, holdVars
<1>7. CASE Offer
  <2>0. loop = "gate" /\ Inj!ConsiderBegin(current.event, now)
    BY <1>7 DEF Offer
  <2>1. cur' = [at |-> now, event |-> current.event] /\ UNCHANGED <<now, holding, current>>
    BY <1>7, <2>0 DEF Offer, Inj!ConsiderBegin, holdVars
  <2>2. cur' \in [at: Nat, event: Inj!Event \cup {Inj!NoEvent}] /\ cur'.at = now
    <3>1. current.event \in Inj!Event
      BY <2>0 DEF Held, Shape, TypeOK, InHand
    <3>2. QED
      BY <1>n, <2>1, <3>1
  <2>3. QED
    BY <1>n, <2>1, <2>2
<1>8. CASE Forget
  BY <1>1, <1>8 DEF Forget, Inj!ConsiderForget, meshVars, loopVars, holdVars
<1>9. CASE Decide
  <2>1. cur' = [cur EXCEPT !.event = Inj!NoEvent] /\ UNCHANGED <<now, holding>>
    BY <1>9 DEF Decide, Inj!ConsiderDecide
  <2>2. cur' \in [at: Nat, event: Inj!Event \cup {Inj!NoEvent}] /\ cur'.at = cur.at
    BY <2>1
  <2>3. current'.event = current.event /\ current # NoEvent
    BY <1>9, DecideStep
  <2>4. QED
    BY <2>1, <2>2, <2>3
<1>10. CASE Record
  BY <1>10 DEF Record, injVars
<1>11. ASSUME NEW e \in Fused, BookFlushed(e) PROVE PastInv'
  BY <1>1, <1>11 DEF BookFlushed, injVars, loopVars, holdVars
<1>12. CASE UNCHANGED vars
  BY <1>1, <1>12 DEF vars, injVars, meshVars, loopVars, holdVars
<1>13. QED
  BY <1>2, <1>3, <1>4, <1>5, <1>6, <1>7, <1>8, <1>9, <1>10, <1>11, <1>12 DEF Next, Service

\* PastInv holds of every state.
LEMMA PastCorrect == Spec => []PastInv
<1>1. Init => PastInv
  BY DEF Init, Inj!Init, PastInv
<1>2. Shape /\ Shape' /\ PastInv /\ [Next]_vars => PastInv'
  BY PastKept
<1>3. QED
  BY <1>1, <1>2, ShapeCorrect, PTL DEF Spec

\* Every step of the service, of the paho thread and of the clock is a step
\* of the Injector or leaves it alone: drain, flush and _finish call consider
\* only as Injector allows, with an event that was on the air and a now that
\* does not run backwards or ahead of the clock.
THEOREM ImplementsInjector == Spec => InjectorSpec
<1>1. Init => Inj!Init
  BY DEF Init
<1>2. Shape /\ PastInv /\ [Next]_vars => [Inj!Next]_(Inj!vars)
  <2> SUFFICES ASSUME Shape, PastInv, [Next]_vars PROVE Inj!Next \/ UNCHANGED injVars
    BY DEF Inj!vars, injVars
  <2>1. CASE Tick
    BY <2>1 DEF Tick, Inj!Next
  <2>2. ASSUME NEW k \in Key, FrameNoted(k) PROVE Inj!Next
    BY <2>2 DEF FrameNoted, Inj!Next
  <2>3. CASE Offer
    <3>1. Inj!ConsiderBegin(current.event, now) /\ current \in Held
      BY <2>3 DEF Offer, Shape, TypeOK, InHand
    <3>2. current.event \in Inj!Event /\ current.event.last \in 0..MaxTime
      BY <3>1, EventTime DEF Held
    <3>3. now \in Nat /\ clock \in Nat /\ now <= clock /\ clock <= MaxTime /\ cur.at \in Nat /\ cur.at <= now
      BY DEF Shape, TypeOK, PastInv
    <3>4. current.event.last <= now
      BY <2>3, <3>1, HeldIsEvent DEF PastInv
    <3>5. current.event \in Inj!Arrivals
      BY <3>2, <3>3, <3>4 DEF Inj!Arrivals
    <3>6. now \in cur.at..clock
      BY <3>3
    <3>7. QED
      BY <3>1, <3>5, <3>6 DEF Inj!Next
  <2>4. CASE Forget
    BY <2>4 DEF Forget, Inj!Next
  <2>5. CASE Decide
    BY <2>5 DEF Decide, Inj!Next
  <2>6. CASE FrameArrives \/ LoseLink \/ Reconnect
    BY <2>6 DEF FrameArrives, LoseLink, Reconnect
  <2>7. CASE Poll \/ (\E e \in Fused : Pop(e)) \/ PopDone \/ Settle \/ SettleDone \/ SkipInjector \/ Record
    BY <2>7 DEF Poll, Pop, PopDone, Settle, SettleDone, SkipInjector, Record
  <2>8. CASE Stop \/ Interrupt \/ (\E e \in Fused : BookFlushed(e)) \/ Exit
    BY <2>8 DEF Stop, Interrupt, BookFlushed, Exit
  <2>9. CASE UNCHANGED vars
    BY <2>9 DEF vars
  <2>10. QED
    BY <2>1, <2>2, <2>3, <2>4, <2>5, <2>6, <2>7, <2>8, <2>9 DEF Next, Service
<1>3. QED
  BY <1>1, <1>2, ShapeCorrect, PastCorrect, PTL DEF Spec, InjectorSpec, Inj!Spec

----------------------------------------------------------------------------
(***************************************************************************)
(* The grace period: deadlines are in order, and no verdict is early.      *)
(***************************************************************************)
\* Until the shutdown, an event is due Grace after it was popped, the list is
\* in the order of its deadlines, and what is being settled had its grace.
Graced ==
    /\ \A i \in 1..Len(holding) : /\ holding[i].due = holding[i].popped + Grace
                                  /\ holding[i].popped <= now
    /\ \A i, j \in 1..Len(holding) : i < j => holding[i].due <= holding[j].due
    /\ loop = "poll" => \A i \in 1..Len(holding) : holding[i].due > now
    /\ current # NoEvent => now - current.popped >= Grace
GraceInv ==
    /\ loop = "poll" => ~flushing
    /\ loop = "last events" => flushing
    /\ ~flushing => Graced

\* drain stops at the first event that is not due, behind which none is.
LEMMA GraceKept ==
    ASSUME Shape, Shape', GraceInv, [Next]_vars
    PROVE  GraceInv'
<1>n. now \in Nat /\ clock \in Nat /\ now <= clock /\ Len(holding) \in Nat
  BY DEF Shape, TypeOK
<1>g. Grace \in Nat
  OBVIOUS
<1>h. \A i \in 1..Len(holding) : holding[i].due \in Nat /\ holding[i].popped \in Nat
  <2>1. \A i \in 1..Len(holding) : holding[i] \in Held
    BY ElementOfSeq DEF Shape, TypeOK
  <2>2. QED
    BY <2>1 DEF Held
<1>1. CASE UNCHANGED <<loop, flushing, now, holding, current>>
  BY <1>1 DEF GraceInv, Graced
<1>2. CASE Tick \/ (\E k \in Key : FrameNoted(k)) \/ FrameArrives \/ LoseLink \/ Reconnect
  BY <1>1, <1>2 DEF Tick, FrameNoted, FrameArrives, LoseLink, Reconnect, meshVars, loopVars, holdVars
<1>3. CASE Poll
  <2>1. /\ loop = "poll" /\ loop' = "pop" /\ now' = clock /\ current = NoEvent
        /\ UNCHANGED <<flushing, holding, current>>
    BY <1>3 DEF Poll, holdVars, Shape, TypeOK, InHand
  <2>2. Graced => Graced'
    BY <1>n, <1>h, <2>1 DEF Graced
  <2>3. QED
    BY <2>1, <2>2 DEF GraceInv
<1>4. ASSUME NEW e \in Fused, Pop(e) PROVE GraceInv'
  <2> DEFINE n == Len(holding)
  <2>1. loop = "pop" /\ current = NoEvent /\ UNCHANGED <<loop, flushing, now, current>>
    BY <1>4 DEF Pop, loopVars, Shape, TypeOK, InHand
  <2>2. /\ Len(holding') = n + 1 /\ \A i \in 1..n : holding'[i] = holding[i]
        /\ holding'[n + 1].popped = now /\ holding'[n + 1].due = HoldUntil(e)
    BY <1>4, PopStep
  <2>3. \A i \in 1..Len(holding') : i \in 1..n \/ i = n + 1
    <3>1. n \in Nat /\ Len(holding') = n + 1
      BY <1>n, <2>2
    <3> HIDE DEF n
    <3>2. QED
      BY <3>1
  <2>4. n \in Nat
    BY <1>n
  <2> HIDE DEF n
  <2> SUFFICES ASSUME ~flushing PROVE Graced'
    BY <2>1 DEF GraceInv
  <2>e. holding'[n + 1].due = now + Grace /\ Graced
    BY <2>2 DEF HoldUntil, GraceInv
  <2>5. /\ \A i \in 1..Len(holding') : /\ holding'[i].due = holding'[i].popped + Grace
                                       /\ holding'[i].popped <= now
        /\ \A i \in 1..Len(holding') : holding'[i].due <= now + Grace /\ holding'[i].due \in Nat
    <3>1. \A i \in 1..n : /\ holding[i].due = holding[i].popped + Grace /\ holding[i].popped <= now
                           /\ holding[i].popped \in Nat /\ holding[i].due \in Nat
      BY <1>h, <2>e DEF n, Graced
    <3>2. \A i \in 1..n : holding[i].due <= now + Grace
      BY <1>n, <1>g, <3>1
    <3>3. holding'[n + 1].due = now + Grace /\ holding'[n + 1].popped = now /\ now + Grace \in Nat
      BY <1>n, <1>g, <2>2, <2>e
    <3>4. QED
      BY <1>n, <2>2, <2>3, <3>1, <3>2, <3>3
  <2>6. ASSUME NEW i \in 1..Len(holding'), NEW j \in 1..Len(holding'), i < j
        PROVE  holding'[i].due <= holding'[j].due
    <3>1. i \in 1..n
      BY <2>3, <2>4, <2>6, <2>2
    <3>2. CASE j \in 1..n
      BY <2>2, <2>6, <2>e, <3>1, <3>2 DEF n, Graced
    <3>3. CASE j = n + 1
      BY <2>5, <2>6, <2>e, <3>3
    <3>4. QED
      BY <2>3, <2>6, <3>2, <3>3
  <2>7. QED
    BY <2>1, <2>5, <2>6 DEF Graced
<1>5. CASE Settle
  <2>1. /\ loop = "settle" /\ loop' = "gate" /\ UNCHANGED <<flushing, now>>
    BY <1>5 DEF Settle
  <2>2. /\ Len(holding') = Len(holding) - 1 /\ Len(holding) \in Nat \ {0}
        /\ current'.popped = holding[1].popped /\ (flushing \/ holding[1].due <= now)
    BY <1>5, SettleStep
  <2>3. \A i \in 1..Len(holding') : i + 1 \in 1..Len(holding) /\ holding'[i] = holding[i + 1]
    BY <1>5, <2>2, SettleStep
  <2> SUFFICES ASSUME ~flushing PROVE Graced'
    BY <2>1 DEF GraceInv
  <2>4. Graced /\ holding[1].due <= now
    BY <2>2 DEF GraceInv
  <2>5. now - current'.popped >= Grace
    <3>1. 1 \in 1..Len(holding)
      BY <2>2
    <3>2. holding[1].due = holding[1].popped + Grace
      BY <2>4, <3>1 DEF Graced
    <3>3. QED
      BY <1>n, <1>g, <1>h, <2>2, <2>4, <3>1, <3>2
  <2>6. ASSUME NEW i \in 1..Len(holding'), NEW j \in 1..Len(holding'), i < j
        PROVE  holding'[i].due <= holding'[j].due
    <3>1. i + 1 < j + 1 /\ i + 1 \in 1..Len(holding) /\ j + 1 \in 1..Len(holding)
      BY <2>3, <2>6
    <3>2. QED
      BY <2>3, <2>4, <3>1 DEF Graced
  <2>7. QED
    BY <2>1, <2>3, <2>4, <2>5, <2>6 DEF Graced
<1>6. CASE SettleDone
  <2>1. /\ loop = "settle" /\ ~Due /\ current = NoEvent /\ UNCHANGED <<flushing, now, holding, current>>
        /\ loop' = IF flushing THEN "exit" ELSE "poll"
    BY <1>6 DEF SettleDone, holdVars, Shape, TypeOK, InHand
  <2>2. ASSUME ~flushing, Graced, NEW i \in 1..Len(holding) PROVE holding[i].due > now
    <3>1. holding \in Seq(Held) /\ holding # <<>> /\ 1 \in 1..Len(holding)
      BY <1>n DEF Shape, TypeOK
    <3>2. Head(holding) = holding[1]
      BY <3>1, HeadTailProperties
    <3>3. holding[1].due > now
      BY <1>n, <1>h, <2>1, <2>2, <3>1, <3>2 DEF Due
    <3>4. i = 1 \/ 1 < i
      BY <1>n
    <3>5. QED
      <4>1. i = 1 \/ holding[1].due <= holding[i].due
        BY <2>2, <3>1, <3>4 DEF Graced
      <4>2. QED
        BY <1>n, <1>h, <2>2, <3>1, <3>3, <4>1
  <2>3. QED
    BY <2>1, <2>2 DEF GraceInv, Graced
<1>7. CASE PopDone
  BY <1>7 DEF PopDone, holdVars, GraceInv, Graced
<1>8. CASE SkipInjector \/ Offer
  BY <1>8 DEF SkipInjector, Offer, holdVars, GraceInv, Graced
<1>9. CASE Forget
  BY <1>1, <1>9 DEF Forget, meshVars, loopVars, holdVars
<1>10. CASE Decide
  <2>1. current'.popped = current.popped /\ current # NoEvent
    BY <1>10, DecideStep
  <2>2. QED
    BY <1>10, <2>1 DEF Decide, GraceInv, Graced
<1>11. CASE Record
  BY <1>11 DEF Record, GraceInv, Graced
<1>12. CASE Stop
  <2>1. flushing' = TRUE /\ loop' \in {"pop", "last events"}
    BY <1>12 DEF Stop
  <2>2. QED
    BY <2>1 DEF GraceInv
<1>13. ASSUME NEW e \in Fused, BookFlushed(e) PROVE GraceInv'
  BY <1>1, <1>13 DEF BookFlushed, loopVars, holdVars
<1>14. CASE Exit
  BY <1>14 DEF Exit, holdVars, GraceInv, Graced
<1>15. CASE Interrupt
  BY <1>15 DEF Interrupt, GraceInv
<1>16. CASE UNCHANGED vars
  BY <1>1, <1>16 DEF vars, meshVars, loopVars, holdVars
<1>17. QED
  BY <1>2, <1>3, <1>4, <1>5, <1>6, <1>7, <1>8, <1>9, <1>10, <1>11, <1>12, <1>13, <1>14, <1>15, <1>16
     DEF Next, Service

\* GraceInv holds of every state.
LEMMA GraceCorrect == Spec => []GraceInv
<1>1. Init => GraceInv
  BY DEF Init, GraceInv, Graced
<1>2. Shape /\ Shape' /\ GraceInv /\ [Next]_vars => GraceInv'
  BY GraceKept
<1>3. QED
  BY <1>1, <1>2, ShapeCorrect, PTL DEF Spec

\* drain may look at the head of _holding only (MeshService.drain).
THEOREM NothingOverdueHolds == Spec => []NothingOverdue
<1>1. Shape /\ GraceInv => NothingOverdue
  <2> SUFFICES ASSUME Shape, GraceInv PROVE NothingOverdue
    OBVIOUS
  <2>1. DOMAIN holding = 1..Len(holding)
    BY DEF Shape, TypeOK
  <2>2. QED
    BY <2>1 DEF GraceInv, Graced, NothingOverdue
<1>2. QED
  BY <1>1, ShapeCorrect, GraceCorrect, PTL

\* Outside of shutdown no verdict is settled before the modem's copy had the
\* grace period to arrive (mesh.PLM_GRACE_S).
THEOREM VerdictAfterGraceHolds == Spec => VerdictAfterGrace
<1> DEFINE Step == settled' # settled /\ ~flushing =>
                      \A h \in settled' \ settled : now - h.popped >= Grace
<1>1. Shape /\ GraceInv /\ [Next]_vars => [Step]_vars
  <2> SUFFICES ASSUME Shape, GraceInv, [Next]_vars, settled' # settled, ~flushing,
                      NEW h \in settled' \ settled
               PROVE  now - h.popped >= Grace
    OBVIOUS
  <2>1. CASE Record
    <3>1. h = current /\ current # NoEvent
      BY <2>1 DEF Record, Book, Shape, TypeOK, InHand
    <3>2. QED
      BY <3>1 DEF GraceInv, Graced
  <2>2. ~\E e \in Fused : BookFlushed(e)
    BY DEF BookFlushed, GraceInv
  <2>3. Record
    BY <2>2 DEF Next, Service, vars, Tick, FrameNoted, FrameArrives, LoseLink, Reconnect, Poll, Pop,
       PopDone, Settle, SettleDone, SkipInjector, Offer, Forget, Decide, Stop, Interrupt, Exit, meshVars, bookVars
  <2>4. QED
    BY <2>1, <2>3
<1>2. QED
  BY <1>1, ShapeCorrect, GraceCorrect, PTL DEF Spec, VerdictAfterGrace

----------------------------------------------------------------------------
(***************************************************************************)
(* The modem's mirror.                                                     *)
(***************************************************************************)
\* While the mirror is away no frame is newer than its loss, and an event at
\* the injector passed the link check before it or soon after.
LinkInv ==
    /\ lastFrameAt <= clock /\ lostAt <= clock /\ cur.at <= clock
    /\ lastFrameAt \in Int /\ lostAt \in Nat /\ cur.at \in Int
    /\ ~link => lastFrameAt <= lostAt
    /\ loop = "consider" /\ ~link => cur.at - lostAt < MaxSilence

\* The check is made as of the clock, which is not behind the drain's now.
LEMMA LinkKept ==
    ASSUME RequireLink, Shape, Shape', PastInv', LinkInv, [Next]_vars
    PROVE  LinkInv'
<1> USE DEF LinkInv
<1>n. now \in Nat /\ clock \in Nat /\ now <= clock /\ MaxSilence \in Nat \ {0}
  BY DEF Shape, TypeOK
<1>t. /\ lastFrameAt' \in Int /\ lastFrameAt' <= clock' /\ lostAt' \in Nat /\ lostAt' <= clock'
      /\ cur'.at \in Nat /\ cur'.at <= clock'
  BY DEF Shape, TypeOK, PastInv, Inj!Never
<1>1. CASE UNCHANGED <<link, lostAt, lastFrameAt, cur>> /\ (loop' = "consider" => loop = "consider")
  BY <1>1, <1>t
<1>2. CASE Tick \/ (\E k \in Key : FrameNoted(k))
  BY <1>1, <1>2 DEF Tick, Inj!Tick, FrameNoted, Inj!Note, meshVars, linkVars, loopVars
<1>3. CASE FrameArrives
  <2>1. link /\ UNCHANGED link
    BY <1>3 DEF FrameArrives
  <2>2. QED
    BY <1>t, <2>1
<1>4. CASE LoseLink
  <2>1. lostAt' = clock /\ UNCHANGED <<lastFrameAt, cur>>
    BY <1>4 DEF LoseLink, injVars
  <2>2. QED
    BY <1>n, <1>t, <2>1
<1>5. CASE Reconnect
  <2>1. link' = TRUE
    BY <1>5 DEF Reconnect
  <2>2. QED
    BY <1>t, <2>1
<1>6. CASE Offer
  <2>1. UsePlm /\ HasInjector /\ Healthy(clock)
    BY <1>6 DEF Offer, MayConsider
  <2>2. cur'.at = now /\ UNCHANGED <<link, lostAt, lastFrameAt>>
    BY <1>6 DEF Offer, Inj!ConsiderBegin, linkVars
  <2>3. clock - lastFrameAt < MaxSilence
    BY <2>1 DEF Healthy
  <2>4. QED
    BY <1>n, <1>t, <2>2, <2>3
<1>7. CASE Forget
  BY <1>1, <1>7 DEF Forget, Inj!ConsiderForget, meshVars, linkVars, loopVars
<1>8. CASE Decide
  <2>1. loop' = "record" /\ UNCHANGED <<link, lostAt, lastFrameAt>>
    BY <1>8 DEF Decide, linkVars
  <2>2. QED
    BY <1>t, <2>1
<1>9. CASE Poll \/ (\E e \in Fused : Pop(e)) \/ PopDone \/ Settle \/ SettleDone \/ SkipInjector \/ Record
  BY <1>1, <1>9 DEF Poll, Pop, PopDone, Settle, SettleDone, SkipInjector, Record, injVars, linkVars, loopVars
<1>10. CASE Stop \/ Interrupt \/ (\E e \in Fused : BookFlushed(e)) \/ Exit
  BY <1>1, <1>10 DEF Stop, Interrupt, BookFlushed, Exit, injVars, linkVars, loopVars
<1>11. CASE UNCHANGED vars
  BY <1>1, <1>11 DEF vars, injVars, meshVars, linkVars, loopVars
<1>12. QED
  BY <1>2, <1>3, <1>4, <1>5, <1>6, <1>7, <1>8, <1>9, <1>10, <1>11 DEF Next, Service

\* With require_plm_link, injection ends within MaxSilence of the loss of the
\* mirror (PlmLink.healthy, MeshService._finish).
THEOREM LinkLossEndsInjectionHolds == ASSUME RequireLink PROVE Spec => LinkLossEndsInjection
<1>1. Init => LinkInv
  BY DEF Init, Inj!Init, Inj!Never, LinkInv
<1>2. Shape /\ Shape' /\ PastInv' /\ LinkInv /\ [Next]_vars => LinkInv'
  BY LinkKept
<1> DEFINE Step == log' # log /\ ~link => cur.at - lostAt < MaxSilence
<1>3. Shape /\ LinkInv /\ [Next]_vars => [Step]_vars
  <2> SUFFICES ASSUME Shape, LinkInv, [Next]_vars, log' # log, ~link
               PROVE  cur.at - lostAt < MaxSilence
    OBVIOUS
  <2>1. CASE Decide
    BY <2>1 DEF Decide, Inj!ConsiderDecide, Shape, TypeOK, LinkInv
  <2>2. Decide
    BY DEF Next, Service, vars, Tick, Inj!Tick, FrameNoted, Inj!Note, FrameArrives, LoseLink, Reconnect,
       Poll, Pop, PopDone, Settle, SettleDone, SkipInjector, Offer, Inj!ConsiderBegin, Forget,
       Inj!ConsiderForget, Record, Stop, Interrupt, BookFlushed, Exit, injVars
  <2>3. QED
    BY <2>1, <2>2
<1>4. QED
  BY <1>1, <1>2, <1>3, ShapeCorrect, PastCorrect, PTL DEF Spec, LinkLossEndsInjection

----------------------------------------------------------------------------
(***************************************************************************)
(* No event is lost or settled twice.                                      *)
(***************************************************************************)
Leaving == loop \in {"last events", "left"}

\* The events are numbered as they were popped: first those settled, then the
\* one at hand, then those held, in their order.  One that was at hand when the
\* loop was interrupted stays apart from those settled.
Numbered ==
    /\ events = Len(holding) + Cardinality(settled) + Busy
    /\ \A i \in 1..Len(holding) : holding[i].n = Cardinality(settled) + Busy + i
    /\ current # NoEvent => current.n = Cardinality(settled) + 1
    /\ \A g \in settled : g.n <= Cardinality(settled)
    /\ \A g, h \in settled : g.n = h.n => g = h
BookInv ==
    /\ \A g \in settled : g.n <= Cardinality(settled) + Len(holding) + Busy
    /\ current # NoEvent => /\ current.n <= Cardinality(settled) + 1
                            /\ \A g \in settled : g.n # current.n
    /\ ~Leaving => Numbered
    /\ loop = "exit" => holding = <<>>

\* An event that is booked has a number no settled event has.
LEMMA BookAdds ==
    ASSUME Shape, NEW h \in Held, Book(h), \A g \in settled : g.n < h.n
    PROVE  /\ h \notin settled /\ settled' = settled \cup {h}
           /\ Cardinality(settled) \in Nat /\ Cardinality(settled') = Cardinality(settled) + 1
<1>1. \A g \in settled : g.n \in Nat
  BY DEF Shape, TypeOK, Held
<1>2. h.n \in Nat
  BY DEF Held
<1>3. h \notin settled
  BY <1>1, <1>2
<1>4. IsFiniteSet(settled) /\ settled' = settled \cup {h}
  BY DEF Shape, Book
<1>5. QED
  BY <1>3, <1>4, FS_AddElement, FS_CardinalityType

\* Each step hands an event on to the next place, with its number.
LEMMA BookKept ==
    ASSUME Shape, Shape', BookInv, [Next]_vars
    PROVE  BookInv'
<1> DEFINE done == Cardinality(settled)
<1>n. done \in Nat /\ Len(holding) \in Nat /\ events \in Nat
  BY FS_CardinalityType DEF Shape, TypeOK
<1>c. \A g \in settled : g.n \in Nat
  BY DEF Shape, TypeOK, Held
<1>1. ASSUME UNCHANGED <<events, holding, current, settled>>, Leaving' <=> Leaving,
             loop' = "exit" => loop = "exit" \/ holding = <<>>
      PROVE  BookInv'
  BY <1>1 DEF BookInv, Numbered, Busy, Leaving
<1>2. CASE Tick \/ (\E k \in Key : FrameNoted(k)) \/ FrameArrives \/ LoseLink \/ Reconnect
  BY <1>1, <1>2 DEF Tick, FrameNoted, FrameArrives, LoseLink, Reconnect,
     meshVars, loopVars, holdVars, bookVars, Leaving
<1>3. CASE Poll \/ PopDone \/ SkipInjector \/ Offer
  BY <1>1, <1>3 DEF Poll, PopDone, SkipInjector, Offer, holdVars, bookVars, Leaving
<1>4. ASSUME NEW e \in Fused, Pop(e) PROVE BookInv'
  <2> DEFINE n == Len(holding)
  <2>1. /\ loop = "pop" /\ current = NoEvent /\ UNCHANGED <<loop, current, settled>>
        /\ events' = events + 1
    BY <1>4 DEF Pop, loopVars, bookVars, Shape, TypeOK, InHand
  <2>2. /\ Len(holding') = n + 1 /\ \A i \in 1..n : holding'[i] = holding[i]
        /\ holding'[n + 1].n = done + n + 1
    BY <1>4, PopStep
  <2>3. Numbered /\ Busy = 0 /\ Busy' = 0
    BY <2>1 DEF BookInv, Busy, Leaving
  <2>4. \A i \in 1..Len(holding') : holding'[i].n = done + 0 + i
    <3>1. \A i \in 1..Len(holding') : i \in 1..n \/ i = n + 1
      BY <1>n, <2>2
    <3>2. \A i \in 1..n : holding[i].n = done + 0 + i
      BY <2>3 DEF Numbered
    <3> HIDE DEF n, done
    <3>3. QED
      BY <1>n, <2>2, <3>1, <3>2 DEF n
  <2>5. \A g \in settled : g.n <= done + Len(holding')
    BY <1>n, <1>c, <2>2, <2>3 DEF Numbered
  <2>6. events' = Len(holding') + done + 0
    BY <1>n, <2>1, <2>2, <2>3 DEF Numbered
  <2>7. QED
    <3>1. Numbered'
      BY <2>1, <2>3, <2>4, <2>6 DEF Numbered
    <3>2. \A g \in settled : g.n <= done + Len(holding') + 0
      BY <1>n, <1>c, <2>2, <2>5
    <3>3. QED
      BY <2>1, <2>3, <3>1, <3>2 DEF BookInv, Leaving
<1>5. CASE Settle
  <2>1. /\ loop = "settle" /\ loop' = "gate" /\ UNCHANGED <<events, settled>>
    BY <1>5 DEF Settle, bookVars
  <2>2. /\ Len(holding) \in Nat \ {0} /\ Len(holding') = Len(holding) - 1
        /\ \A i \in 1..Len(holding) - 1 : holding'[i] = holding[i + 1]
        /\ current = NoEvent /\ current' # NoEvent /\ current'.n = holding[1].n
    BY <1>5, SettleStep
  <2>3. Numbered /\ Busy = 0 /\ Busy' = 1
    BY <2>1, <2>2 DEF BookInv, Busy, Leaving
  <2>4. \A i \in 1..Len(holding) : holding[i].n = done + 0 + i
    BY <2>3 DEF Numbered
  <2>5. \A i \in 1..Len(holding') : holding'[i].n = done + 1 + i
    <3>1. \A i \in 1..Len(holding') : i + 1 \in 1..Len(holding) /\ holding'[i] = holding[i + 1]
      BY <2>2
    <3>2. \A i \in 1..Len(holding') : holding'[i].n = done + 0 + (i + 1)
      BY <2>4, <3>1
    <3> HIDE DEF done
    <3>3. QED
      BY <1>n, <3>2
  <2>6. current'.n = done + 1
    <3>1. 1 \in 1..Len(holding)
      BY <2>2
    <3>2. QED
      BY <1>n, <2>2, <2>4, <3>1
  <2>7. events = Len(holding') + done + 1 /\ \A g \in settled : g.n <= done + Len(holding')
    BY <1>n, <1>c, <2>2, <2>3 DEF Numbered
  <2>8. QED
    <3>1. Numbered'
      BY <2>1, <2>2, <2>3, <2>5, <2>6, <2>7 DEF Numbered
    <3>2. current'.n <= done + 1 /\ \A g \in settled : g.n # current'.n
      BY <1>n, <1>c, <2>3, <2>6 DEF Numbered
    <3>3. \A g \in settled : g.n <= done + Len(holding') + 1
      BY <1>n, <1>c, <2>2, <2>7
    <3>4. QED
      BY <2>1, <2>3, <3>1, <3>2, <3>3 DEF BookInv, Leaving
<1>6. CASE SettleDone
  <2>1. loop = "settle" /\ loop' \in {"poll", "exit"} /\ (loop' = "exit" => flushing) /\ ~Due
        /\ UNCHANGED <<events, holding, current, settled>>
    BY <1>6 DEF SettleDone, holdVars, bookVars
  <2>2. loop' = "exit" => holding = <<>>
    BY <2>1 DEF Due
  <2>3. QED
    BY <1>1, <2>1, <2>2 DEF Leaving
<1>7. CASE Forget
  BY <1>1, <1>7 DEF Forget, meshVars, loopVars, holdVars, bookVars, Leaving
<1>8. CASE Decide
  <2>1. current'.n = current.n /\ current # NoEvent /\ current' # NoEvent
    BY <1>8, DecideStep
  <2>2. loop = "consider" /\ loop' = "record" /\ UNCHANGED <<events, holding, settled>>
    BY <1>8 DEF Decide, Inj!ConsiderDecide, bookVars, Shape, TypeOK
  <2>3. QED
    BY <2>1, <2>2 DEF BookInv, Numbered, Busy, Leaving
<1>9. CASE Record
  <2>1. /\ loop = "record" /\ loop' = "settle" /\ current \in Held /\ current # NoEvent
        /\ current' = NoEvent /\ UNCHANGED <<events, holding>> /\ Book(current)
    BY <1>9 DEF Record, Shape, TypeOK, InHand
  <2>2. Numbered /\ Busy = 1 /\ Busy' = 0
    BY <2>1 DEF BookInv, Busy, Leaving
  <2>3. current.n = done + 1 /\ \A g \in settled : g.n <= done
    BY <2>1, <2>2 DEF Numbered
  <2>4. settled' = settled \cup {current} /\ Cardinality(settled') = done + 1
    BY <1>n, <1>c, <2>1, <2>3, BookAdds
  <2>5. /\ \A g \in settled' : g.n <= done + 1
        /\ \A g, h \in settled' : g.n = h.n => g = h
    BY <1>n, <1>c, <2>2, <2>3, <2>4 DEF Numbered
  <2>6. /\ events = Len(holding) + (done + 1) + 0
        /\ \A i \in 1..Len(holding) : holding[i].n = (done + 1) + 0 + i
        /\ \A g \in settled' : g.n <= (done + 1) + Len(holding)
    <3>1. events = Len(holding) + done + 1 /\ \A i \in 1..Len(holding) : holding[i].n = done + 1 + i
      BY <2>2 DEF Numbered
    <3>2. \A g \in settled' : g.n \in Nat
      BY <1>n, <1>c, <2>3, <2>4
    <3> HIDE DEF done
    <3>3. QED
      BY <1>n, <2>5, <3>1, <3>2
  <2>7. QED
    <3>1. Numbered'
      <4>1. events' = Len(holding') + Cardinality(settled') + Busy'
        BY <2>1, <2>2, <2>4, <2>6
      <4>2. \A i \in 1..Len(holding') : holding'[i].n = Cardinality(settled') + Busy' + i
        BY <2>1, <2>2, <2>4, <2>6
      <4>3. current' = NoEvent /\ \A g \in settled' : g.n <= Cardinality(settled')
        BY <2>1, <2>4, <2>5
      <4>4. \A g, h \in settled' : g.n = h.n => g = h
        BY <2>5
      <4>5. QED
        BY <4>1, <4>2, <4>3, <4>4 DEF Numbered
    <3>2. \A g \in settled' : g.n <= (done + 1) + Len(holding) + 0
      BY <1>n, <2>6
    <3>3. QED
      BY <2>1, <2>2, <2>4, <3>1, <3>2 DEF BookInv, Leaving
<1>10. CASE Stop \/ Interrupt
  <2>1. /\ ~Leaving /\ loop' \in {"pop", "last events"}
        /\ UNCHANGED <<events, holding, current, settled>>
    BY <1>10 DEF Stop, Interrupt, holdVars, bookVars, Leaving
  <2>2. QED
    BY <2>1 DEF BookInv, Numbered, Busy, Leaving
<1>11. ASSUME NEW e \in Fused, BookFlushed(e) PROVE BookInv'
  <2> DEFINE h == Fresh(e, now)
  <2>1. /\ loop = "last events" /\ Book(h) /\ UNCHANGED <<loop, holding, current>>
    BY <1>11 DEF BookFlushed, loopVars, holdVars
  <2>2. h \in Held /\ h.n = done + Len(holding) + Busy + 1
    BY FreshIsHeld DEF Fused, Shape, TypeOK
  <2>b. Busy \in {0, 1} /\ Busy' = Busy /\ (current # NoEvent => Busy = 1)
    BY <2>1 DEF Busy
  <2> HIDE DEF h
  <2>3. settled' = settled \cup {h} /\ Cardinality(settled') = done + 1
    <3>1. \A g \in settled : g.n < h.n
      BY <1>n, <1>c, <2>2, <2>b DEF BookInv
    <3>2. QED
      BY <2>1, <2>2, <3>1, BookAdds
  <2>4. \A g \in settled' : g.n <= (done + 1) + Len(holding) + Busy
    BY <1>n, <1>c, <2>2, <2>b, <2>3 DEF BookInv
  <2>5. ASSUME current # NoEvent
        PROVE  current.n <= done + 1 + 1 /\ \A g \in settled' : g.n # current.n
    <3>1. current.n \in Nat /\ current.n <= done + 1 /\ \A g \in settled : g.n # current.n
      BY <2>5, HeldIsEvent DEF BookInv, Shape, TypeOK
    <3>2. h.n # current.n
      BY <1>n, <2>2, <2>b, <2>5, <3>1
    <3>3. QED
      BY <1>n, <2>3, <3>1, <3>2
  <2>6. QED
    BY <2>1, <2>b, <2>3, <2>4, <2>5 DEF BookInv, Leaving
<1>12. CASE Exit
  BY <1>12 DEF Exit, holdVars, bookVars, BookInv, Leaving, Busy
<1>13. CASE UNCHANGED vars
  BY <1>1, <1>13 DEF vars, meshVars, loopVars, holdVars, bookVars, Leaving
<1>14. QED
  BY <1>2, <1>3, <1>4, <1>5, <1>6, <1>7, <1>8, <1>9, <1>10, <1>11, <1>12, <1>13 DEF Next, Service

\* BookInv holds of every state.
LEMMA BookCorrect == Spec => []BookInv
<1>1. Init => BookInv
  BY FS_EmptySet DEF Init, BookInv, Numbered, Busy
<1>2. Shape /\ Shape' /\ BookInv /\ [Next]_vars => BookInv'
  BY BookKept
<1>3. QED
  BY <1>1, <1>2, ShapeCorrect, PTL DEF Spec

\* Every event popped is held, at hand or settled, and in one place only
\* (MeshService.events, _holding, _finish).
THEOREM EventsConservedHolds == Spec => []EventsConserved
<1>1. Shape /\ BookInv => EventsConserved
  <2> SUFFICES ASSUME Shape, BookInv, ~Leaving
               PROVE  /\ events = Len(holding) + Cardinality(settled) + Busy
                      /\ \A g, h \in Carried : g.n = h.n => g = h
    BY DEF EventsConserved, Busy, Leaving
  <2> DEFINE done == Cardinality(settled)
  <2>1. Numbered
    BY DEF BookInv
  <2>2. done \in Nat /\ Len(holding) \in Nat /\ DOMAIN holding = 1..Len(holding)
    BY FS_CardinalityType DEF Shape, TypeOK
  <2>3. ASSUME NEW h \in Carried
        PROVE  \/ h \in settled /\ h.n \in Nat /\ h.n <= done
               \/ h = current /\ h.n = done + 1 /\ Busy = 1
               \/ \E i \in 1..Len(holding) : h = holding[i] /\ h.n = done + Busy + i
    BY <2>1, <2>2 DEF Carried, Numbered, Busy, Shape, TypeOK, Held
  <2>4. Busy \in {0, 1}
    BY DEF Busy
  <2> HIDE DEF done
  <2>5. ASSUME NEW g \in Carried, NEW h \in Carried, g.n = h.n PROVE g = h
    <3>1. CASE g \in settled /\ h \in settled
      BY <2>1, <2>5, <3>1 DEF Numbered
    <3>2. CASE g \notin settled /\ h \notin settled
      BY <2>2, <2>3, <2>4, <2>5, <3>2
    <3>3. CASE (g \in settled /\ h \notin settled) \/ (g \notin settled /\ h \in settled)
      <4>1. ASSUME NEW x \in Carried, x \notin settled PROVE x.n > done
        BY <2>2, <2>3, <2>4, <4>1
      <4>2. ASSUME NEW x \in Carried, x \in settled PROVE x.n <= done /\ x.n \in Nat
        BY <2>1, <4>2 DEF Numbered, Shape, TypeOK, Held, done
      <4>3. QED
        BY <2>2, <2>5, <3>3, <4>1, <4>2
    <3>4. QED
      BY <3>1, <3>2, <3>3
  <2>6. QED
    BY <2>1, <2>5 DEF Numbered
<1>2. QED
  BY <1>1, ShapeCorrect, BookCorrect, PTL

\* MeshService.run's last flush settles everything that was still held.
THEOREM ShutdownSettlesHeldHolds == Spec => []ShutdownSettlesHeld
<1>1. Shape /\ BookInv => ShutdownSettlesHeld
  <2> SUFFICES ASSUME Shape, BookInv, loop = "exit"
               PROVE  holding = <<>> /\ events <= Cardinality(settled)
    BY DEF ShutdownSettlesHeld
  <2>1. holding = <<>> /\ Numbered /\ Busy = 0
    BY DEF BookInv, Leaving, Busy, Shape, TypeOK, InHand
  <2>2. Len(holding) = 0 /\ Cardinality(settled) \in Nat
    BY <2>1, FS_CardinalityType DEF Shape
  <2>3. QED
    BY <2>1, <2>2 DEF Numbered
<1>2. QED
  BY <1>1, ShapeCorrect, BookCorrect, PTL

----------------------------------------------------------------------------
(***************************************************************************)
(* The miss table.                                                         *)
(***************************************************************************)
\* The verdict of the event at hand goes with where it is.
VerdictInv ==
    /\ \A i \in 1..Len(holding) : holding[i].injected = FALSE
    /\ loop \in {"gate", "consider"} => current.injected = FALSE
    /\ current # NoEvent => current.verdict \in {"heard", "missed"}
    /\ current # NoEvent /\ current.injected => current.verdict = "missed"

\* An event is injected only after the modem was found to have missed it.
LEMMA VerdictKept ==
    ASSUME Shape, Shape', VerdictInv, [Next]_vars
    PROVE  VerdictInv'
<1>n. Len(holding) \in Nat
  BY DEF Shape, TypeOK
<1>1. ASSUME UNCHANGED <<holding, current>>, loop' = loop \/ loop' \notin {"gate", "consider"} \/ loop \in {"gate", "consider"}
      PROVE  VerdictInv'
  BY <1>1 DEF VerdictInv
<1>2. CASE Tick \/ (\E k \in Key : FrameNoted(k)) \/ FrameArrives \/ LoseLink \/ Reconnect
  BY <1>1, <1>2 DEF Tick, FrameNoted, FrameArrives, LoseLink, Reconnect, meshVars, loopVars, holdVars
<1>3. CASE Poll \/ PopDone \/ SkipInjector \/ Offer \/ SettleDone
  BY <1>1, <1>3 DEF Poll, PopDone, SkipInjector, Offer, SettleDone, holdVars
<1>4. ASSUME NEW e \in Fused, Pop(e) PROVE VerdictInv'
  <2> DEFINE n == Len(holding)
  <2>1. loop = "pop" /\ UNCHANGED <<loop, current>>
    BY <1>4 DEF Pop, loopVars
  <2>2. /\ Len(holding') = n + 1 /\ \A i \in 1..n : holding'[i] = holding[i]
        /\ holding'[n + 1].injected = FALSE
    BY <1>4, PopStep
  <2>3. \A i \in 1..Len(holding') : i \in 1..n \/ i = n + 1
    BY <1>n, <2>2
  <2> HIDE DEF n
  <2>4. QED
    BY <2>1, <2>2, <2>3 DEF VerdictInv, n
<1>5. CASE Settle
  <2>1. loop' = "gate"
    BY <1>5 DEF Settle
  <2>2. /\ Len(holding) \in Nat \ {0} /\ Len(holding') = Len(holding) - 1
        /\ \A i \in 1..Len(holding) - 1 : holding'[i] = holding[i + 1]
        /\ current'.injected = holding[1].injected /\ current'.verdict \in {"heard", "missed"}
    BY <1>5, SettleStep
  <2>3. 1 \in 1..Len(holding) /\ \A i \in 1..Len(holding') : i + 1 \in 1..Len(holding) /\ holding'[i] = holding[i + 1]
    BY <2>2
  <2>4. current'.injected = FALSE
    BY <2>2, <2>3 DEF VerdictInv
  <2>5. QED
    BY <2>1, <2>2, <2>3, <2>4 DEF VerdictInv
<1>6. CASE Forget
  BY <1>1, <1>6 DEF Forget, meshVars, loopVars, holdVars
<1>7. CASE Decide
  <2> DEFINE why == Inj!Reason(cur.event, cur.at, TRUE)
  <2>1. /\ loop' = "record" /\ UNCHANGED holding /\ current \in Held /\ current # NoEvent
        /\ current' = [current EXCEPT !.verdict = VerdictAfter(why), !.injected = why = "injected"]
    BY <1>7, DecideStep DEF Decide
  <2>2. current'.verdict = VerdictAfter(why) /\ current'.injected = (why = "injected")
    BY <2>1 DEF Held
  <2>3. VerdictAfter(why) \in {"heard", "missed"} /\ (why = "injected" => VerdictAfter(why) = "missed")
    <3> HIDE DEF why
    <3>1. current.verdict \in {"heard", "missed"}
      BY <2>1 DEF VerdictInv
    <3>2. QED
      BY <3>1 DEF VerdictAfter, PastVerdict
  <2> HIDE DEF why
  <2>4. QED
    BY <2>1, <2>2, <2>3 DEF VerdictInv
<1>8. CASE Record
  BY <1>8 DEF Record, VerdictInv
<1>9. CASE Stop \/ Interrupt
  <2>1. loop' \in {"pop", "last events"} /\ UNCHANGED <<holding, current>>
    BY <1>9 DEF Stop, Interrupt, holdVars
  <2>2. QED
    BY <1>1, <2>1
<1>10. CASE (\E e \in Fused : BookFlushed(e)) \/ Exit
  BY <1>1, <1>10 DEF BookFlushed, Exit, loopVars, holdVars
<1>11. CASE UNCHANGED vars
  BY <1>1, <1>11 DEF vars, meshVars, loopVars, holdVars
<1>12. QED
  BY <1>2, <1>3, <1>4, <1>5, <1>6, <1>7, <1>8, <1>9, <1>10, <1>11 DEF Next, Service

\* VerdictInv holds of every state.
LEMMA VerdictCorrect == Spec => []VerdictInv
<1>1. Init => VerdictInv
  BY DEF Init, VerdictInv
<1>2. Shape /\ Shape' /\ VerdictInv /\ [Next]_vars => VerdictInv'
  BY VerdictKept
<1>3. QED
  BY <1>1, <1>2, ShapeCorrect, PTL DEF Spec

\* The settled events of a device, and an event's share in its row.
OfDevice(d) == {h \in settled : RowOf(h.event) = "device" /\ SenderOf[h.event.key] = d}
Hits(h, d) == RowOf(h.event) = "device" /\ SenderOf[h.event.key] = d

\* The rows add up over what is booked, and injected events are missed ones.
RowInv(d) ==
    /\ misses[d]["heard_by_rf"] = Cardinality(OfDevice(d))
    /\ misses[d]["injected"] <= misses[d]["plm_missed"]
    /\ Told(misses[d]) <= misses[d]["heard_by_rf"]
    /\ ~Leaving => Told(misses[d]) = misses[d]["heard_by_rf"]
TableInv == \A d \in Device : RowInv(d)

\* Booking an event adds it to its device and to the columns it counts in.
LEMMA RowStep ==
    ASSUME Shape, NEW h \in Held, h \notin settled, Book(h), NEW d \in Device
    PROVE  /\ \A f \in Tally : misses[d][f] \in Nat /\ Cardinality(OfDevice(d)) \in Nat
           /\ IF Hits(h, d)
              THEN /\ Cardinality(OfDevice(d)') = Cardinality(OfDevice(d)) + 1
                   /\ \A f \in Tally : misses'[d][f] = misses[d][f] + (IF Counts(h, f) THEN 1 ELSE 0)
              ELSE /\ OfDevice(d)' = OfDevice(d)
                   /\ \A f \in Tally : misses'[d][f] = misses[d][f]
<1>1. misses \in [Device -> [Tally -> Nat]] /\ IsFiniteSet(settled) /\ settled' = settled \cup {h}
  BY DEF Shape, TypeOK, Book
<1>2. \A f \in Tally : misses'[d][f] = misses[d][f] + (IF Hits(h, d) /\ Counts(h, f) THEN 1 ELSE 0)
  BY DEF Book, Hits
<1>3. IsFiniteSet(OfDevice(d)) /\ Cardinality(OfDevice(d)) \in Nat /\ h \notin OfDevice(d)
  BY <1>1, FS_Subset, FS_CardinalityType DEF OfDevice
<1>4. CASE Hits(h, d)
  <2>1. OfDevice(d)' = OfDevice(d) \cup {h}
    BY <1>1, <1>4 DEF OfDevice, Hits
  <2>2. Cardinality(OfDevice(d) \cup {h}) = Cardinality(OfDevice(d)) + 1
    BY <1>3, FS_AddElement
  <2>3. \A f \in Tally : misses'[d][f] = misses[d][f] + (IF Counts(h, f) THEN 1 ELSE 0)
    BY <1>2, <1>4
  <2>4. Cardinality(OfDevice(d)') = Cardinality(OfDevice(d)) + 1
    BY <2>1, <2>2
  <2>5. QED
    BY <1>1, <1>3, <1>4, <2>3, <2>4
<1>5. CASE ~Hits(h, d)
  <2>1. OfDevice(d)' = OfDevice(d)
    BY <1>1, <1>5 DEF OfDevice, Hits
  <2>2. \A f \in Tally : misses'[d][f] = misses[d][f]
    BY <1>1, <1>2, <1>5
  <2>3. QED
    BY <1>1, <1>3, <1>5, <2>1, <2>2
<1>6. QED
  BY <1>4, <1>5

\* An event with a verdict is told once, an injected one as missed; an event
\* without one only counts as heard by radio.
LEMMA RowAdds ==
    ASSUME Shape, NEW h \in Held, h \notin settled, Book(h), NEW d \in Device, RowInv(d),
           \/ h.verdict \in {"heard", "missed"} /\ (h.injected => h.verdict = "missed") /\ ~Leaving
           \/ h.verdict = "unknown" /\ h.injected = FALSE /\ Leaving'
    PROVE  RowInv(d)'
<1> DEFINE rf == misses[d]["heard_by_rf"]
           heard == misses[d]["plm_also_heard"]
           missed == misses[d]["plm_missed"]
           inj == misses[d]["injected"]
           card == Cardinality(OfDevice(d))
<1>t. Tally = {"heard_by_rf", "plm_also_heard", "plm_missed", "injected"}
  BY DEF Tally
<1>1. rf \in Nat /\ heard \in Nat /\ missed \in Nat /\ inj \in Nat /\ card \in Nat
  BY <1>t, RowStep
<1>2. /\ rf = card /\ inj <= missed /\ heard + missed <= rf
      /\ ~Leaving => heard + missed = rf
  BY DEF RowInv, Told
<1>3. CASE ~Hits(h, d)
  <2>1. /\ misses'[d]["heard_by_rf"] = rf /\ misses'[d]["plm_also_heard"] = heard
        /\ misses'[d]["plm_missed"] = missed /\ misses'[d]["injected"] = inj
        /\ Cardinality(OfDevice(d)') = card
    BY <1>t, <1>3, RowStep
  <2>2. ~Leaving' => ~Leaving
    OBVIOUS
  <2> HIDE DEF rf, heard, missed, inj, card
  <2>3. QED
    BY <1>1, <1>2, <2>1, <2>2 DEF RowInv, Told
<1>4. CASE Hits(h, d)
  <2> DEFINE step(f) == IF Counts(h, f) THEN 1 ELSE 0
  <2>1. /\ misses'[d]["heard_by_rf"] = rf + step("heard_by_rf")
        /\ misses'[d]["plm_also_heard"] = heard + step("plm_also_heard")
        /\ misses'[d]["plm_missed"] = missed + step("plm_missed")
        /\ misses'[d]["injected"] = inj + step("injected")
        /\ Cardinality(OfDevice(d)') = card + 1
    BY <1>t, <1>4, RowStep
  <2>2. step("heard_by_rf") = 1
    BY DEF Counts
  <2>3. CASE h.verdict = "heard" /\ ~h.injected /\ ~Leaving
    <3>1. step("plm_also_heard") = 1 /\ step("plm_missed") = 0 /\ step("injected") = 0
      BY <2>3 DEF Counts
    <3> HIDE DEF rf, heard, missed, inj, card, step
    <3>2. QED
      BY <1>1, <1>2, <2>1, <2>2, <2>3, <3>1 DEF RowInv, Told
  <2>4. CASE h.verdict = "missed" /\ ~Leaving
    <3>1. step("plm_also_heard") = 0 /\ step("plm_missed") = 1 /\ step("injected") \in {0, 1}
      BY <2>4 DEF Counts
    <3> HIDE DEF rf, heard, missed, inj, card, step
    <3>2. QED
      BY <1>1, <1>2, <2>1, <2>2, <2>4, <3>1 DEF RowInv, Told
  <2>5. CASE h.verdict = "unknown" /\ ~h.injected /\ Leaving'
    <3>1. step("plm_also_heard") = 0 /\ step("plm_missed") = 0 /\ step("injected") = 0
      BY <2>5 DEF Counts
    <3> HIDE DEF rf, heard, missed, inj, card, step
    <3>2. QED
      BY <1>1, <1>2, <2>1, <2>2, <2>5, <3>1 DEF RowInv, Told
  <2>6. QED
    BY <2>3, <2>4, <2>5
<1>5. QED
  BY <1>3, <1>4

\* Every row is kept by every step.
LEMMA TableKept ==
    ASSUME Shape, BookInv, VerdictInv, TableInv, [Next]_vars
    PROVE  TableInv'
<1>1. ASSUME UNCHANGED <<misses, settled>>, Leaving => Leaving' PROVE TableInv'
  BY <1>1 DEF TableInv, RowInv, OfDevice
<1>c. \A g \in settled : g.n \in Nat
  BY DEF Shape, TypeOK, Held
<1>n. Cardinality(settled) \in Nat /\ Len(holding) \in Nat
  BY FS_CardinalityType DEF Shape, TypeOK
<1>2. CASE Record
  <2>1. loop = "record" /\ current \in Held /\ current # NoEvent /\ Book(current) /\ ~Leaving
    BY <1>2 DEF Record, Shape, TypeOK, InHand, Leaving
  <2>2. current.verdict \in {"heard", "missed"} /\ (current.injected => current.verdict = "missed")
    BY <2>1 DEF VerdictInv
  <2>3. current.n = Cardinality(settled) + 1 /\ \A g \in settled : g.n <= Cardinality(settled)
    BY <2>1 DEF BookInv, Numbered
  <2>4. current \notin settled
    BY <1>c, <1>n, <2>1, <2>3, BookAdds
  <2>5. QED
    BY <2>1, <2>2, <2>4, RowAdds DEF TableInv
<1>3. ASSUME NEW e \in Fused, BookFlushed(e) PROVE TableInv'
  <2> DEFINE h == Fresh(e, now)
  <2>1. /\ loop = "last events" /\ Book(h) /\ UNCHANGED loop
    BY <1>3 DEF BookFlushed, loopVars
  <2>2. /\ h \in Held /\ h.n = Cardinality(settled) + Len(holding) + Busy + 1
        /\ h.verdict = "unknown" /\ h.injected = FALSE
    <3>1. h \in Held /\ h.n = Cardinality(settled) + Len(holding) + Busy + 1
      BY FreshIsHeld DEF Fused, Shape, TypeOK
    <3>2. QED
      BY <3>1 DEF Fresh
  <2> HIDE DEF h
  <2>3. h \notin settled
    <3>1. \A g \in settled : g.n < h.n
      BY <1>n, <1>c, <2>2 DEF BookInv, Busy
    <3>2. QED
      BY <2>1, <2>2, <3>1, BookAdds
  <2>4. Leaving'
    BY <2>1 DEF Leaving
  <2>5. QED
    BY <2>1, <2>2, <2>3, <2>4, RowAdds DEF TableInv
<1>4. CASE Tick \/ (\E k \in Key : FrameNoted(k)) \/ FrameArrives \/ LoseLink \/ Reconnect
  BY <1>1, <1>4 DEF Tick, FrameNoted, FrameArrives, LoseLink, Reconnect, meshVars, loopVars, bookVars, Leaving
<1>5. CASE Poll \/ (\E e \in Fused : Pop(e)) \/ PopDone \/ Settle \/ SettleDone \/ SkipInjector
  BY <1>1, <1>5 DEF Poll, Pop, PopDone, Settle, SettleDone, SkipInjector, loopVars, bookVars, Leaving
<1>6. CASE Offer \/ Forget \/ Decide
  BY <1>1, <1>6 DEF Offer, Forget, Decide, meshVars, loopVars, bookVars, Leaving, Shape, TypeOK,
     Inj!ConsiderDecide
<1>7. CASE Stop \/ Interrupt \/ Exit
  BY <1>1, <1>7 DEF Stop, Interrupt, Exit, bookVars, Leaving
<1>8. CASE UNCHANGED vars
  BY <1>1, <1>8 DEF vars, meshVars, loopVars, bookVars, Leaving
<1>9. QED
  BY <1>2, <1>3, <1>4, <1>5, <1>6, <1>7, <1>8 DEF Next, Service

\* Counters.injected is the number of events that carry an injection.
InjectedSettled == {h \in settled : h.injected}
AtHand == IF current # NoEvent /\ current.injected THEN 1 ELSE 0
CountInv == injected = Cardinality(InjectedSettled) + AtHand

\* An event is counted as injected where it is decided, and booked as it is.
LEMMA CountKept ==
    ASSUME Shape, Shape', BookInv, VerdictInv, VerdictInv', CountInv, [Next]_vars
    PROVE  CountInv'
<1>1. ASSUME UNCHANGED <<injected, settled, current>> PROVE CountInv'
  BY <1>1 DEF CountInv, InjectedSettled, AtHand
<1>c. \A g \in settled : g.n \in Nat
  BY DEF Shape, TypeOK, Held
<1>n. /\ Cardinality(settled) \in Nat /\ Len(holding) \in Nat
      /\ IsFiniteSet(InjectedSettled) /\ Cardinality(InjectedSettled) \in Nat
  BY FS_CardinalityType, FS_Subset DEF Shape, TypeOK, InjectedSettled
<1>2. CASE Settle
  <2>1. current = NoEvent /\ UNCHANGED <<injected, settled>> /\ loop' = "gate"
    BY <1>2, SettleStep DEF Settle, injVars, bookVars
  <2>2. current'.injected = FALSE
    BY <2>1 DEF VerdictInv
  <2>3. AtHand = 0 /\ AtHand' = 0
    BY <2>1, <2>2 DEF AtHand
  <2>4. QED
    BY <2>1, <2>3 DEF CountInv, InjectedSettled
<1>3. CASE Decide
  <2> DEFINE why == Inj!Reason(cur.event, cur.at, TRUE)
  <2>1. /\ Inj!ConsiderDecide(TRUE) /\ UNCHANGED settled /\ current \in Held /\ current # NoEvent
        /\ current' # NoEvent /\ loop = "consider"
        /\ current' = [current EXCEPT !.verdict = VerdictAfter(why), !.injected = why = "injected"]
    BY <1>3, DecideStep DEF Decide, bookVars, Inj!ConsiderDecide, Shape, TypeOK
  <2>2. current'.injected = (why = "injected") /\ current.injected = FALSE
    BY <2>1 DEF Held, VerdictInv
  <2>3. injected' = injected + (IF why = "injected" THEN 1 ELSE 0)
    <3>1. \/ why = "injected" /\ injected' = injected + 1
          \/ why # "injected" /\ injected' = injected
      BY <2>1, Zenon DEF Inj!ConsiderDecide, Inj!Inject, Inj!WouldInject, Inj!Refuse
    <3>2. injected \in Nat
      BY <1>n DEF CountInv, AtHand
    <3> HIDE DEF why
    <3>3. QED
      BY <3>1, <3>2
  <2>4. AtHand = 0 /\ AtHand' = IF why = "injected" THEN 1 ELSE 0
    BY <2>1, <2>2 DEF AtHand
  <2> HIDE DEF why
  <2>5. InjectedSettled' = InjectedSettled
    BY <2>1 DEF InjectedSettled
  <2>6. QED
    BY <1>n, <2>3, <2>4, <2>5 DEF CountInv
<1>4. CASE Record
  <2>1. /\ loop = "record" /\ current \in Held /\ current # NoEvent /\ Book(current)
        /\ current' = NoEvent /\ UNCHANGED injected
    BY <1>4 DEF Record, Shape, TypeOK, InHand, injVars
  <2>2. current.n = Cardinality(settled) + 1 /\ \A g \in settled : g.n <= Cardinality(settled)
    BY <2>1 DEF BookInv, Numbered, Leaving
  <2>3. current \notin settled /\ settled' = settled \cup {current}
    BY <1>c, <1>n, <2>1, <2>2, BookAdds
  <2>4. AtHand' = 0
    BY <2>1 DEF AtHand
  <2>5. CASE current.injected
    <3>1. InjectedSettled' = InjectedSettled \cup {current} /\ current \notin InjectedSettled
      BY <2>3, <2>5 DEF InjectedSettled
    <3>2. Cardinality(InjectedSettled \cup {current}) = Cardinality(InjectedSettled) + 1
      BY <1>n, <3>1, FS_AddElement
    <3>3. AtHand = 1
      BY <2>1, <2>5 DEF AtHand
    <3>4. QED
      BY <1>n, <2>1, <2>4, <3>1, <3>2, <3>3 DEF CountInv
  <2>6. CASE ~current.injected
    <3>1. InjectedSettled' = InjectedSettled /\ AtHand = 0
      BY <2>3, <2>6 DEF InjectedSettled, AtHand
    <3>2. QED
      BY <1>n, <2>1, <2>4, <3>1 DEF CountInv
  <2>7. QED
    BY <2>5, <2>6
<1>5. ASSUME NEW e \in Fused, BookFlushed(e) PROVE CountInv'
  <2> DEFINE h == Fresh(e, now)
  <2>1. Book(h) /\ UNCHANGED <<current, injected>> /\ ~h.injected
    BY <1>5 DEF BookFlushed, holdVars, injVars, Fresh
  <2> HIDE DEF h
  <2>2. InjectedSettled' = InjectedSettled
    BY <2>1 DEF Book, InjectedSettled
  <2>3. QED
    BY <2>1, <2>2 DEF CountInv, AtHand
<1>6. CASE Tick \/ (\E k \in Key : FrameNoted(k)) \/ FrameArrives \/ LoseLink \/ Reconnect
  BY <1>1, <1>6 DEF Tick, Inj!Tick, FrameNoted, Inj!Note, FrameArrives, LoseLink, Reconnect,
     injVars, meshVars, holdVars, bookVars
<1>7. CASE Poll \/ (\E e \in Fused : Pop(e)) \/ PopDone \/ SettleDone \/ SkipInjector
  BY <1>1, <1>7 DEF Poll, Pop, PopDone, SettleDone, SkipInjector, injVars, holdVars, bookVars
<1>8. CASE Offer \/ Forget
  BY <1>1, <1>8 DEF Offer, Inj!ConsiderBegin, Forget, Inj!ConsiderForget, meshVars, holdVars, bookVars
<1>9. CASE Stop \/ Interrupt \/ Exit
  BY <1>1, <1>9 DEF Stop, Interrupt, Exit, injVars, holdVars, bookVars
<1>10. CASE UNCHANGED vars
  BY <1>1, <1>10 DEF vars, injVars, meshVars, holdVars, bookVars
<1>11. QED
  BY <1>2, <1>3, <1>4, <1>5, <1>6, <1>7, <1>8, <1>9, <1>10 DEF Next, Service

\* The columns by which the operator decides on injection add up
\* (MissTable.note): each device's row over the events settled for it, and the
\* injected ones over the injections made, all of them counted as missed.
THEOREM MissTableAddsUpHolds == Spec => []MissTableAddsUp
<1>1. Init => TableInv /\ CountInv
  <2> SUFFICES ASSUME Init PROVE TableInv /\ CountInv
    OBVIOUS
  <2>1. settled = {} /\ injected = 0 /\ current = NoEvent /\ loop = "poll"
    BY DEF Init, Inj!Init
  <2>2. \A d \in Device : OfDevice(d) = {} /\ \A f \in Tally : misses[d][f] = 0
    BY <2>1 DEF Init, OfDevice
  <2>3. InjectedSettled = {} /\ AtHand = 0
    BY <2>1 DEF InjectedSettled, AtHand
  <2>4. CountInv
    BY <2>1, <2>3, FS_EmptySet DEF CountInv
  <2>5. TableInv
    <3> SUFFICES ASSUME NEW d \in Device PROVE RowInv(d)
      BY DEF TableInv
    <3>1. /\ misses[d]["heard_by_rf"] = 0 /\ misses[d]["plm_also_heard"] = 0
          /\ misses[d]["plm_missed"] = 0 /\ misses[d]["injected"] = 0
      BY <2>2 DEF Tally
    <3>2. Cardinality(OfDevice(d)) = 0
      BY <2>2, FS_EmptySet
    <3>3. QED
      BY <3>1, <3>2 DEF RowInv, Told
  <2>6. QED
    BY <2>4, <2>5
<1>2. Shape /\ BookInv /\ VerdictInv /\ TableInv /\ [Next]_vars => TableInv'
  BY TableKept
<1>3. Shape /\ Shape' /\ BookInv /\ VerdictInv /\ VerdictInv' /\ CountInv /\ [Next]_vars => CountInv'
  BY CountKept
<1>4. Shape /\ BookInv /\ VerdictInv /\ TableInv /\ CountInv => MissTableAddsUp
  <2> SUFFICES ASSUME Shape, BookInv, VerdictInv, TableInv, CountInv PROVE MissTableAddsUp
    OBVIOUS
  <2> DEFINE S == {h \in Carried : h.injected}
  <2>1. \A i \in DOMAIN holding : holding[i].injected = FALSE
    BY DEF VerdictInv, Shape, TypeOK
  <2>2. CASE current # NoEvent /\ current.injected
    <3>1. S = InjectedSettled \cup {current}
      BY <2>1, <2>2 DEF Carried, InjectedSettled
    <3>3. current \notin settled
      BY <2>2 DEF BookInv
    <3>4. IsFiniteSet(InjectedSettled) /\ current \notin InjectedSettled
      BY <3>3, FS_Subset DEF InjectedSettled, Shape
    <3>5. Cardinality(InjectedSettled \cup {current}) = Cardinality(InjectedSettled) + 1
      BY <3>4, FS_AddElement
    <3>6. AtHand = 1
      BY <2>2 DEF AtHand
    <3>7. injected = Cardinality(S)
      BY <3>1, <3>5, <3>6 DEF CountInv
    <3>8. QED
      BY <3>7 DEF MissTableAddsUp, TableInv, RowInv, OfDevice, Leaving
  <2>3. CASE ~(current # NoEvent /\ current.injected)
    <3>1. S = InjectedSettled
      BY <2>1, <2>3 DEF Carried, InjectedSettled
    <3>2. AtHand = 0 /\ Cardinality(InjectedSettled) \in Nat
      BY <2>3, FS_Subset, FS_CardinalityType DEF AtHand, InjectedSettled, Shape
    <3>3. injected = Cardinality(S)
      BY <3>1, <3>2 DEF CountInv
    <3>4. QED
      BY <3>3 DEF MissTableAddsUp, TableInv, RowInv, OfDevice, Leaving
  <2>4. QED
    BY <2>2, <2>3
<1>5. QED
  BY <1>1, <1>2, <1>3, <1>4, ShapeCorrect, BookCorrect, VerdictCorrect, PTL DEF Spec

\* The hold list and the books: shape, order, conservation, shutdown.
THEOREM InvHolds == Spec => []MeshInv
  BY TypeCorrect, NothingOverdueHolds, EventsConservedHolds, ShutdownSettlesHeldHolds, PTL
     DEF MeshInv
=============================================================================
