--------------------------- MODULE CaptureProofs ---------------------------
(***************************************************************************)
(* Proofs about Capture, for every set of boards, every queue size and any *)
(* number of recordings and reboots: what the host's counters mean,        *)
(* however messages are lost, boards reboot and the queue overflows.       *)
(***************************************************************************)
EXTENDS Capture, FiniteSetTheorems, SequenceTheorems, TLAPS

USE CaptureAssumption

\* Types, and a queue that never grows past MaxSize (MqttReceiver's
\* queue.Queue, next_capture).
THEOREM TypeCorrect == CaptureSpec => []CaptureTypeOK
<1> USE DEF CaptureTypeOK
<1>1. CaptureInit => CaptureTypeOK
  BY DEF CaptureInit, None
<1>2. CaptureTypeOK /\ [CaptureNext]_captureVars => CaptureTypeOK'
  <2> SUFFICES ASSUME CaptureTypeOK, [CaptureNext]_captureVars PROVE CaptureTypeOK'
    OBVIOUS
  <2>1. CASE NextCapture
    <3>1. q' \in Seq(published) /\ Len(q') <= MaxSize
      BY <2>1, HeadTailProperties DEF NextCapture
    <3>2. QED
      BY <2>1, <3>1 DEF NextCapture, board, history
  <2>2. ASSUME NEW b \in Boards, RecordingDone(b) \/ LoopPolls(b) \/ LoopClears(b) PROVE CaptureTypeOK'
    <3>1. CASE RecordingDone(b)
      BY <3>1 DEF RecordingDone, receiver, history
    <3>2. CASE LoopPolls(b)
      BY <3>2 DEF LoopPolls, receiver, history
    <3>3. CASE LoopClears(b)
      BY <3>3 DEF LoopClears, receiver, history
    <3>4. QED
      BY <2>2, <3>1, <3>2, <3>3
  <2>3. ASSUME NEW b \in Boards, HandleCapture(b) PROVE CaptureTypeOK'
    <3> DEFINE m == Message(b, done[b], seq[b] + 1)
    <3>1. m \in [board: Boards, boot: Nat, recording: Nat, seq: Nat \ {0}] /\ m.seq = seq[b] + 1
      BY DEF Message
    <3>2. loopAt' \in [Boards -> {"poll", "clear", "read"}] /\ reads' \in [Boards -> Nat]
      BY <2>3 DEF HandleCapture
    <3>3. CASE Publish(b)
      <4>1. /\ seq' = [seq EXCEPT ![b] = m.seq] /\ published' = published \cup {m}
            /\ chan' = [chan EXCEPT ![b] = Append(@, m)]
        BY <3>3 DEF Publish
      <4> HIDE DEF m
      <4>2. /\ \A c \in Boards : chan[c] \in Seq(published') /\ q \in Seq(published')
            /\ m \in published'
        BY <4>1
      <4>3. chan' \in [Boards -> Seq(published')]
        BY <4>1, <4>2, AppendProperties
      <4>4. seq' \in [Boards -> Nat]
        BY <3>1, <4>1
      <4>5. QED
        BY <2>3, <3>1, <3>2, <4>1, <4>2, <4>3, <4>4 DEF HandleCapture, receiver
    <3>4. CASE UNCHANGED <<seq, chan, published>>
      BY <2>3, <3>2, <3>4 DEF HandleCapture, receiver
    <3>5. QED
      BY <2>3, <3>3, <3>4 DEF HandleCapture
  <2>4. ASSUME NEW b \in Boards, Reboot(b) PROVE CaptureTypeOK'
    <3>0. /\ reboots' = [reboots EXCEPT ![b] = @ + 1]
          /\ done' = [done EXCEPT ![b] = 0] /\ irq' = [irq EXCEPT ![b] = FALSE]
          /\ loopAt' = [loopAt EXCEPT ![b] = "poll"] /\ stamp' = [stamp EXCEPT ![b] = 0]
          /\ seq' = [seq EXCEPT ![b] = 0] /\ reads' = [reads EXCEPT ![b] = 0]
      BY <2>4 DEF Reboot
    <3>1. /\ done' \in [Boards -> Nat] /\ stamp' \in [Boards -> Nat] /\ seq' \in [Boards -> Nat]
          /\ reads' \in [Boards -> Nat] /\ reboots' \in [Boards -> Nat]
          /\ irq' \in [Boards -> BOOLEAN] /\ loopAt' \in [Boards -> {"poll", "clear", "read"}]
      BY <3>0
    <3>2. UNCHANGED <<chan, receiver, recordings, history>>
      BY <2>4 DEF Reboot
    <3>3. QED
      BY <3>1, <3>2 DEF receiver, history
  <2>5. ASSUME NEW b \in Boards, Lose(b) \/ BadPayload(b) \/ OnMessage(b) PROVE CaptureTypeOK'
    <3>1. chan' = [chan EXCEPT ![b] = Tail(@)] /\ chan[b] \in Seq(published) /\ chan[b] # <<>>
      BY <2>5 DEF Lose, BadPayload, OnMessage
    <3>2. Head(chan[b]) \in published /\ Tail(chan[b]) \in Seq(published)
      BY <3>1, HeadTailProperties
    <3>3. chan' \in [Boards -> Seq(published)]
      BY <3>1, <3>2
    <3>4. CASE Lose(b)
      <4>1. vanished' \subseteq published
        BY <3>2, <3>4 DEF Lose
      <4>2. QED
        BY <3>3, <3>4, <4>1 DEF Lose, board, receiver
    <3>5. CASE BadPayload(b)
      <4>0. /\ unusable' = unusable \cup {Head(chan[b])}
            /\ dropped' = dropped + 1 /\ delivered' = delivered + 1
        BY <3>5 DEF BadPayload
      <4>1. unusable' \subseteq published
        BY <3>2, <4>0
      <4>2. dropped' \in Nat /\ delivered' \in Nat
        BY <4>0
      <4>3. UNCHANGED <<done, stamp, seq, reads, lastSeq, reboots, irq, loopAt, q, received, gaps, recordings,
                        published, vanished>>
        BY <3>5 DEF BadPayload, board
      <4>4. QED
        BY <3>3, <4>1, <4>2, <4>3
    <3>6. CASE OnMessage(b)
      <4> DEFINE cap == Head(chan[b])
      <4>1. cap.seq \in Nat /\ lastSeq' = [lastSeq EXCEPT ![b] = cap.seq]
        BY <3>2, <3>6 DEF OnMessage
      <4>2. gaps' \in Nat /\ delivered' \in Nat
        BY <3>6 DEF OnMessage
      <4>3. Offer(cap) /\ UNCHANGED published
        BY <3>6 DEF OnMessage
      <4> HIDE DEF cap
      <4>4. cap \in published
        BY <3>2 DEF cap
      <4>5. q' \in Seq(published) /\ Len(q') <= MaxSize /\ received' \in Nat /\ dropped' \in Nat
        <5>1. CASE Full
          BY <4>3, <5>1 DEF Offer
        <5>2. CASE ~Full
          <6>1. q' = Append(q, cap) /\ Len(q) < MaxSize /\ received' = received + 1 /\ dropped' = dropped
            BY <4>3, <5>2 DEF Offer, Full
          <6>2. q' \in Seq(published) /\ Len(q') = Len(q) + 1
            BY <4>4, <6>1, AppendProperties
          <6>3. QED
            BY <6>1, <6>2
        <5>3. QED
          BY <5>1, <5>2
      <4>6. UNCHANGED <<done, stamp, seq, reads, reboots, irq, loopAt, recordings, published, vanished, unusable>>
        BY <3>6 DEF OnMessage, board
      <4>7. lastSeq' \in [Boards -> Nat]
        BY <4>1
      <4>8. QED
        BY <3>3, <4>2, <4>5, <4>6, <4>7
    <3>7. QED
      BY <2>5, <3>4, <3>5, <3>6
  <2>6. CASE UNCHANGED captureVars
    BY <2>6 DEF captureVars, board, receiver, history
  <2>7. QED
    BY <2>1, <2>2, <2>3, <2>4, <2>5, <2>6 DEF CaptureNext
<1>3. QED
  BY <1>1, <1>2, PTL DEF CaptureSpec

----------------------------------------------------------------------------
(***************************************************************************)
(* What a step does to the messages: it leaves them alone, publishes one,  *)
(* reboots a board, loses the head of a channel or hands it to the host.   *)
(***************************************************************************)
Lost == vanished \cup unusable

\* The head of b's channel leaves it.
Popped(b) ==
    /\ Len(chan[b]) \in Nat \ {0} /\ Len(chan'[b]) = Len(chan[b]) - 1
    /\ Head(chan[b]) = chan[b][1] /\ chan[b][1] \in published
    /\ \A i \in 1..Len(chan[b]) - 1 : chan'[b][i] = chan[b][i + 1]
    /\ \A c \in Boards \ {b} : chan'[c] = chan[c]

\* The message m with b's next number enters its channel.
Pushed(b, m) ==
    /\ m.board = b /\ m.boot = reboots[b] /\ m.recording = done[b] /\ m.seq = seq[b] + 1
    /\ published' = published \cup {m}
    /\ seq'[b] = seq[b] + 1 /\ \A c \in Boards \ {b} : seq'[c] = seq[c]
    /\ Len(chan[b]) \in Nat /\ Len(chan'[b]) = Len(chan[b]) + 1
    /\ \A i \in 1..Len(chan[b]) : chan'[b][i] = chan[b][i]
    /\ chan'[b][Len(chan[b]) + 1] = m
    /\ \A c \in Boards \ {b} : chan'[c] = chan[c]

StepIgnores == UNCHANGED <<chan, published, vanished, unusable, lastSeq, gaps, seq, reboots, delivered>>
StepPublishes(b, m) ==
    Pushed(b, m) /\ UNCHANGED <<vanished, unusable, lastSeq, gaps, reboots, delivered>>
StepReboots(b) ==
    /\ reboots'[b] = reboots[b] + 1 /\ seq'[b] = 0
    /\ \A c \in Boards \ {b} : reboots'[c] = reboots[c] /\ seq'[c] = seq[c]
    /\ UNCHANGED <<chan, published, vanished, unusable, lastSeq, gaps, delivered>>
StepLoses(b) ==
    /\ Popped(b) /\ UNCHANGED <<published, lastSeq, gaps, seq, reboots>>
    /\ \/ vanished' = vanished \cup {chan[b][1]} /\ UNCHANGED <<unusable, delivered>>
       \/ unusable' = unusable \cup {chan[b][1]} /\ UNCHANGED vanished /\ delivered' = delivered + 1
StepHears(b) ==
    /\ Popped(b) /\ UNCHANGED <<published, vanished, unusable, seq, reboots>>
    /\ delivered' = delivered + 1
    /\ lastSeq'[b] = chan[b][1].seq /\ \A c \in Boards \ {b} : lastSeq'[c] = lastSeq[c]
    /\ gaps' = gaps + (IF Skipped(b, chan[b][1].seq) THEN 1 ELSE 0)

\* A channel without its head.
LEMMA TailIsPopped ==
    ASSUME CaptureTypeOK, NEW b \in Boards, chan[b] # <<>>, chan' = [chan EXCEPT ![b] = Tail(@)]
    PROVE  Popped(b)
<1>1. chan[b] \in Seq(published) /\ chan'[b] = Tail(chan[b])
  BY DEF CaptureTypeOK
<1>2. QED
  BY <1>1, HeadTailProperties DEF CaptureTypeOK, Popped

\* Every step is of one of the five kinds.
LEMMA StepKinds ==
    ASSUME CaptureTypeOK, [CaptureNext]_captureVars
    PROVE  \/ StepIgnores
           \/ \E b \in Boards : \/ StepReboots(b) \/ StepLoses(b) \/ StepHears(b)
                                \/ \E m : StepPublishes(b, m)
<1>1. CASE NextCapture
  BY <1>1 DEF NextCapture, StepIgnores, board, history
<1>2. ASSUME NEW b \in Boards, RecordingDone(b) \/ LoopPolls(b) \/ LoopClears(b) PROVE StepIgnores
  BY <1>2 DEF RecordingDone, LoopPolls, LoopClears, StepIgnores, receiver, history
<1>3. ASSUME NEW b \in Boards, HandleCapture(b), Publish(b) PROVE \E m : StepPublishes(b, m)
  <2> DEFINE m == Message(b, done[b], seq[b] + 1)
  <2>1. /\ m.board = b /\ m.boot = reboots[b] /\ m.recording = done[b] /\ m.seq = seq[b] + 1
        /\ seq' = [seq EXCEPT ![b] = m.seq] /\ published' = published \cup {m}
        /\ chan' = [chan EXCEPT ![b] = Append(@, m)]
    BY <1>3 DEF Publish, Message
  <2> HIDE DEF m
  <2>2. chan[b] \in Seq(published') /\ m \in published' /\ chan'[b] = Append(chan[b], m)
    BY <2>1 DEF CaptureTypeOK
  <2>3. /\ Len(chan[b]) \in Nat /\ Len(chan'[b]) = Len(chan[b]) + 1
        /\ \A i \in 1..Len(chan[b]) : chan'[b][i] = chan[b][i]
        /\ chan'[b][Len(chan[b]) + 1] = m
    BY <2>2, AppendProperties
  <2>4. Pushed(b, m)
    BY <2>1, <2>3 DEF Pushed, CaptureTypeOK
  <2>5. QED
    BY <1>3, <2>4 DEF HandleCapture, StepPublishes, receiver
<1>4. ASSUME NEW b \in Boards, HandleCapture(b), UNCHANGED <<seq, chan, published>> PROVE StepIgnores
  BY <1>4 DEF HandleCapture, StepIgnores, receiver
<1>5. ASSUME NEW b \in Boards, Reboot(b) PROVE StepReboots(b)
  BY <1>5 DEF Reboot, StepReboots, receiver, history, CaptureTypeOK
<1>6. ASSUME NEW b \in Boards, Lose(b) PROVE StepLoses(b)
  <2>1. Popped(b)
    BY <1>6, TailIsPopped DEF Lose
  <2>2. QED
    BY <1>6, <2>1 DEF Lose, StepLoses, Popped, board, receiver
<1>7. ASSUME NEW b \in Boards, BadPayload(b) PROVE StepLoses(b)
  <2>1. Popped(b)
    BY <1>7, TailIsPopped DEF BadPayload
  <2>2. QED
    BY <1>7, <2>1 DEF BadPayload, StepLoses, Popped, board
<1>8. ASSUME NEW b \in Boards, OnMessage(b) PROVE StepHears(b)
  <2>1. Popped(b)
    BY <1>8, TailIsPopped DEF OnMessage
  <2>2. QED
    BY <1>8, <2>1 DEF OnMessage, StepHears, Popped, board, CaptureTypeOK
<1>9. CASE UNCHANGED captureVars
  BY <1>9 DEF captureVars, StepIgnores, board, receiver, history
<1>10. QED
  BY <1>1, <1>2, <1>3, <1>4, <1>5, <1>6, <1>7, <1>8, <1>9 DEF CaptureNext, HandleCapture

----------------------------------------------------------------------------
(***************************************************************************)
(* The numbers of a board, and what follows from MQTT keeping its messages *)
(* in order: between two messages that follow each other in a channel      *)
(* nothing is missing, and what is missing before its head was lost.       *)
(***************************************************************************)
\* A number is given once, and the numbers given are those up to seq.
NumbersInv ==
    /\ \A m \in published :
          /\ m.boot < reboots[m.board] \/ (m.boot = reboots[m.board] /\ m.seq <= seq[m.board])
          /\ m.boot <= reboots[m.board]
    /\ \A m, n \in published : m.board = n.board /\ m.boot = n.boot /\ m.seq = n.seq => m = n

Before(m, n) == m.boot < n.boot \/ (m.boot = n.boot /\ m.seq < n.seq)

\* What number n of this boot is to the host: there is none, it is the last one
\* heard, or it was lost.
Settled(b, last, lost, boot, n) ==
    \/ n = 0
    \/ last = n
    \/ \E m \in lost : m.board = b /\ m.boot = boot /\ m.seq = n

\* Nothing in b's channel is lost, and it is in order without a hole, ...
InOrder(b) ==
    /\ \A i \in 1..Len(chan[b]) : chan[b][i].board = b /\ chan[b][i] \notin Lost
    /\ \A i, j \in 1..Len(chan[b]) : i < j => Before(chan[b][i], chan[b][j])
    /\ \A i \in 1..Len(chan[b]) - 1 :
          \/ chan[b][i + 1].seq = 1
          \/ chan[b][i].boot = chan[b][i + 1].boot /\ chan[b][i].seq + 1 = chan[b][i + 1].seq

\* ... what came before its head is settled, and it ends with the newest.
EndsInv(b) ==
    IF Len(chan[b]) = 0
    THEN Settled(b, lastSeq[b], Lost, reboots[b], seq[b])
    ELSE /\ Settled(b, lastSeq[b], Lost, chan[b][1].boot, chan[b][1].seq - 1)
         /\ \/ seq[b] = 0
            \/ /\ chan[b][Len(chan[b])].boot = reboots[b]
               /\ chan[b][Len(chan[b])].seq = seq[b]

ChannelInv == \A b \in Boards : InOrder(b) /\ EndsInv(b)

\* A number is new when it is given.
LEMMA NumbersKept ==
    ASSUME CaptureTypeOK, CaptureTypeOK', NumbersInv, [CaptureNext]_captureVars
    PROVE  NumbersInv'
<1> USE DEF NumbersInv
<1>t. \A m \in published : m.board \in Boards /\ m.boot \in Nat /\ m.seq \in Nat \ {0}
  BY DEF CaptureTypeOK
<1>n. \A b \in Boards : seq[b] \in Nat /\ reboots[b] \in Nat
  BY DEF CaptureTypeOK
<1>1. CASE StepIgnores
  BY <1>1 DEF StepIgnores
<1>2. ASSUME NEW b \in Boards, StepReboots(b) PROVE NumbersInv'
  BY <1>t, <1>n, <1>2 DEF StepReboots
<1>3. ASSUME NEW b \in Boards, StepLoses(b) \/ StepHears(b) PROVE NumbersInv'
  BY <1>3 DEF StepLoses, StepHears
<1>4. ASSUME NEW b \in Boards, NEW m, StepPublishes(b, m) PROVE NumbersInv'
  <2>1. /\ m.board = b /\ m.boot = reboots[b] /\ m.seq = seq[b] + 1
        /\ published' = published \cup {m} /\ reboots' = reboots
        /\ seq'[b] = seq[b] + 1 /\ \A c \in Boards \ {b} : seq'[c] = seq[c]
    BY <1>4 DEF StepPublishes, Pushed
  <2>2. \A n \in published : n.board = b /\ n.boot = reboots[b] => n.seq < m.seq
    BY <1>t, <1>n, <2>1
  <2>3. QED
    BY <1>t, <1>n, <2>1, <2>2
<1>5. QED
  BY StepKinds, <1>1, <1>2, <1>3, <1>4

\* Whatever is lost, heard or published, the channels stay without a hole.
LEMMA ChannelKept ==
    ASSUME CaptureTypeOK, CaptureTypeOK', NumbersInv, ChannelInv, [CaptureNext]_captureVars
    PROVE  ChannelInv'
<1>t. \A m \in published : m.board \in Boards /\ m.boot \in Nat /\ m.seq \in Nat \ {0}
  BY DEF CaptureTypeOK
<1>n. \A b \in Boards : /\ seq[b] \in Nat /\ reboots[b] \in Nat /\ lastSeq[b] \in Nat
                        /\ Len(chan[b]) \in Nat
                        /\ \A i \in 1..Len(chan[b]) : chan[b][i] \in published
  <2> SUFFICES ASSUME NEW b \in Boards
               PROVE  /\ seq[b] \in Nat /\ reboots[b] \in Nat /\ lastSeq[b] \in Nat
                      /\ Len(chan[b]) \in Nat
                      /\ \A i \in 1..Len(chan[b]) : chan[b][i] \in published
    OBVIOUS
  <2>1. chan[b] \in Seq(published)
    BY DEF CaptureTypeOK
  <2>2. Len(chan[b]) \in Nat /\ \A i \in 1..Len(chan[b]) : chan[b][i] \in published
    BY <2>1, ElementOfSeq
  <2>3. QED
    BY <2>2 DEF CaptureTypeOK
<1>l. Lost \subseteq published
  BY DEF CaptureTypeOK, Lost
<1> SUFFICES ASSUME NEW c \in Boards PROVE InOrder(c)' /\ EndsInv(c)'
  BY DEF ChannelInv
<1>i. InOrder(c) /\ EndsInv(c)
  BY DEF ChannelInv
<1>s. ASSUME NEW boot, NEW n, Settled(c, lastSeq[c], Lost, boot, n),
             lastSeq'[c] = lastSeq[c], Lost \subseteq Lost'
      PROVE  Settled(c, lastSeq'[c], Lost', boot, n)
  BY <1>s DEF Settled
<1>0. ASSUME UNCHANGED <<chan[c], lastSeq[c]>>, Lost \subseteq Lost',
             \A i \in 1..Len(chan[c]) : chan[c][i] \notin Lost',
             UNCHANGED <<reboots[c], seq[c]>> \/ seq'[c] = 0
      PROVE  InOrder(c)' /\ EndsInv(c)'
  <2>0. chan'[c] = chan[c]
    BY <1>0
  <2>1. InOrder(c)'
    <3>1. /\ \A i \in 1..Len(chan'[c]) : chan'[c][i].board = c /\ chan'[c][i] \notin Lost'
      BY <1>0, <1>i, <2>0 DEF InOrder
    <3>2. \A i, j \in 1..Len(chan'[c]) : i < j => Before(chan'[c][i], chan'[c][j])
      BY <1>i, <2>0 DEF InOrder
    <3>3. \A i \in 1..Len(chan'[c]) - 1 :
            \/ chan'[c][i + 1].seq = 1
            \/ chan'[c][i].boot = chan'[c][i + 1].boot /\ chan'[c][i].seq + 1 = chan'[c][i + 1].seq
      BY <1>i, <2>0 DEF InOrder
    <3>4. QED
      BY <3>1, <3>2, <3>3 DEF InOrder, Before
  <2>2. Settled(c, lastSeq'[c], Lost', reboots'[c], 0)
    BY DEF Settled
  <2>3. EndsInv(c)'
    BY <1>0, <1>i, <1>s, <2>2 DEF EndsInv
  <2>4. QED
    BY <2>1, <2>3
<1>1. CASE StepIgnores
  BY <1>0, <1>1, <1>i DEF StepIgnores, Lost, InOrder
<1>2. ASSUME NEW b \in Boards, StepReboots(b) PROVE InOrder(c)' /\ EndsInv(c)'
  BY <1>0, <1>2, <1>i DEF StepReboots, Lost, InOrder
<1>3. ASSUME NEW b \in Boards, Popped(b), UNCHANGED <<published, seq, reboots>>,
             \/ /\ Lost' = Lost \cup {chan[b][1]} /\ UNCHANGED lastSeq
             \/ /\ Lost' = Lost /\ lastSeq'[b] = chan[b][1].seq
                /\ \A d \in Boards \ {b} : lastSeq'[d] = lastSeq[d]
      PROVE  InOrder(c)' /\ EndsInv(c)'
  <2> DEFINE h == chan[b][1]
  <2>1. h \in published /\ h.board = b /\ InOrder(b) /\ EndsInv(b) /\ Len(chan[b]) >= 1
    BY <1>3, <1>n DEF Popped, ChannelInv, InOrder
  <2>2. CASE c # b
    <3>1. chan'[c] = chan[c] /\ lastSeq'[c] = lastSeq[c]
      BY <1>3, <2>2 DEF Popped
    <3>2. \A i \in 1..Len(chan[c]) : chan[c][i] \notin Lost'
      BY <1>3, <1>i, <2>1, <2>2 DEF InOrder
    <3>3. QED
      BY <1>0, <1>3, <3>1, <3>2
  <2>3. CASE c = b
    <3>1. /\ Len(chan'[c]) = Len(chan[c]) - 1
          /\ \A i \in 1..Len(chan'[c]) : chan'[c][i] = chan[c][i + 1]
      BY <1>3, <2>3 DEF Popped
    <3>0. Len(chan[c]) \in Nat
      BY <1>n
    <3>2. ASSUME NEW i \in 2..Len(chan[c]) PROVE chan[c][i] # h
      <4>1. Before(h, chan[c][i])
        BY <1>n, <1>i, <2>3 DEF InOrder
      <4>2. QED
        BY <2>1, <1>t, <4>1 DEF Before
    <3>3. InOrder(c)'
      <4>1. \A i \in 1..Len(chan'[c]) : chan'[c][i].board = c /\ chan'[c][i] \notin Lost'
        <5> SUFFICES ASSUME NEW i \in 1..Len(chan'[c])
                     PROVE  chan'[c][i].board = c /\ chan'[c][i] \notin Lost'
          OBVIOUS
        <5>1. i + 1 \in 2..Len(chan[c]) /\ i + 1 \in 1..Len(chan[c]) /\ chan'[c][i] = chan[c][i + 1]
          BY <1>n, <3>1
        <5>2. QED
          BY <1>3, <1>i, <2>3, <3>2, <5>1 DEF InOrder
      <4>2. ASSUME NEW i \in 1..Len(chan'[c]), NEW j \in 1..Len(chan'[c]), i < j
            PROVE  Before(chan'[c][i], chan'[c][j])
        <5>1. /\ i + 1 \in 1..Len(chan[c]) /\ chan'[c][i] = chan[c][i + 1]
              /\ j + 1 \in 1..Len(chan[c]) /\ chan'[c][j] = chan[c][j + 1] /\ i + 1 < j + 1
          BY <3>0, <3>1, <4>2
        <5>2. QED
          BY <1>i, <5>1 DEF InOrder
      <4>3. ASSUME NEW i \in 1..Len(chan'[c]) - 1
            PROVE  \/ chan'[c][i + 1].seq = 1
                   \/ chan'[c][i].boot = chan'[c][i + 1].boot /\ chan'[c][i].seq + 1 = chan'[c][i + 1].seq
        <5> DEFINE j == i + 1
        <5>1. i \in 1..Len(chan'[c]) /\ j \in 1..Len(chan'[c]) /\ j \in 1..Len(chan[c]) - 1
          BY <1>n, <3>1
        <5>2. chan'[c][i] = chan[c][j] /\ chan'[c][j] = chan[c][j + 1]
          BY <3>1, <5>1
        <5> HIDE DEF j
        <5>3. \/ chan[c][j + 1].seq = 1
              \/ chan[c][j].boot = chan[c][j + 1].boot /\ chan[c][j].seq + 1 = chan[c][j + 1].seq
          BY <1>i, <5>1 DEF InOrder
        <5>4. QED
          BY <5>2, <5>3 DEF j
      <4>4. QED
        BY <4>1, <4>2, <4>3 DEF InOrder, Before
    <3>4. Settled(c, lastSeq'[c], Lost', h.boot, h.seq)
      BY <1>3, <2>1, <2>3 DEF Settled
    <3>5. CASE Len(chan[c]) = 1
      <4>1. seq[c] = 0 \/ (h.boot = reboots[c] /\ h.seq = seq[c])
        BY <2>1, <2>3, <3>5 DEF EndsInv
      <4>2. Settled(c, lastSeq'[c], Lost', reboots'[c], seq'[c])
        BY <1>3, <3>4, <4>1 DEF Settled
      <4>3. QED
        BY <3>1, <3>3, <3>5, <4>2 DEF EndsInv
    <3>6. CASE Len(chan[c]) # 1
      <4>1. Len(chan[c]) >= 2 /\ chan'[c][1] = chan[c][2] /\ chan'[c][Len(chan'[c])] = chan[c][Len(chan[c])]
        <5>0. Len(chan[c]) \in Nat \ {0}
          BY <1>3, <2>3 DEF Popped
        <5>1. Len(chan[c]) \in Nat /\ Len(chan[c]) >= 2
          <6>1. \A n \in Nat \ {0} : n # 1 => n >= 2
            OBVIOUS
          <6>2. QED
            BY <3>6, <5>0, <6>1
        <5>2. 1 \in 1..Len(chan'[c]) /\ Len(chan'[c]) \in 1..Len(chan'[c]) /\ Len(chan'[c]) + 1 = Len(chan[c])
          BY <3>1, <5>1
        <5>3. chan'[c][1] = chan[c][1 + 1] /\ chan'[c][Len(chan'[c])] = chan[c][Len(chan'[c]) + 1]
          BY <3>1, <5>2
        <5>4. QED
          BY <5>1, <5>2, <5>3
      <4>2. chan[c][2].seq = 1 \/ (h.boot = chan[c][2].boot /\ h.seq + 1 = chan[c][2].seq)
        BY <1>n, <1>i, <2>3, <4>1 DEF InOrder
      <4>3. chan[c][2].seq \in Nat /\ h.seq \in Nat
        BY <1>n, <1>t, <2>1, <4>1
      <4>4. chan[c][2].seq - 1 = 0 \/ (h.boot = chan[c][2].boot /\ chan[c][2].seq - 1 = h.seq)
        BY <4>2, <4>3
      <4>5. Settled(c, lastSeq'[c], Lost', chan[c][2].boot, chan[c][2].seq - 1)
        BY <3>4, <4>4 DEF Settled
      <4>6. seq[c] = 0 \/ (chan[c][Len(chan[c])].boot = reboots[c] /\ chan[c][Len(chan[c])].seq = seq[c])
        BY <1>i, <1>n, <4>1 DEF EndsInv
      <4>7. Len(chan'[c]) # 0
        BY <1>n, <3>1, <4>1
      <4>8. QED
        BY <1>3, <3>3, <4>1, <4>5, <4>6, <4>7 DEF EndsInv
    <3>7. QED
      BY <3>5, <3>6
  <2>4. QED
    BY <2>2, <2>3
<1>4. ASSUME NEW b \in Boards, StepLoses(b) \/ StepHears(b) PROVE InOrder(c)' /\ EndsInv(c)'
  BY <1>3, <1>4 DEF StepLoses, StepHears, Lost
<1>5. ASSUME NEW b \in Boards, NEW m, StepPublishes(b, m) PROVE InOrder(c)' /\ EndsInv(c)'
  <2>1. Pushed(b, m) /\ UNCHANGED <<Lost, lastSeq, reboots>>
    BY <1>5 DEF StepPublishes, Lost
  <2>2. m \notin published /\ m \notin Lost
    BY <1>n, <1>l, <2>1 DEF Pushed, NumbersInv
  <2>3. CASE c # b
    BY <1>0, <1>i, <2>1, <2>3 DEF Pushed, InOrder
  <2>4. CASE c = b
    <3>1. /\ Len(chan'[c]) = Len(chan[c]) + 1 /\ chan'[c][Len(chan'[c])] = m
          /\ \A i \in 1..Len(chan[c]) : chan'[c][i] = chan[c][i]
          /\ m.board = c /\ m.boot = reboots[c] /\ m.seq = seq[c] + 1 /\ seq'[c] = m.seq
      BY <2>1, <2>4 DEF Pushed
    <3>2. InOrder(c)'
      <4>0. ASSUME NEW i \in 1..Len(chan'[c])
            PROVE  (i \in 1..Len(chan[c]) /\ chan'[c][i] = chan[c][i]) \/ (i = Len(chan'[c]) /\ chan'[c][i] = m)
        BY <1>n, <3>1
      <4>1. \A i \in 1..Len(chan'[c]) : chan'[c][i].board = c /\ chan'[c][i] \notin Lost'
        BY <1>i, <2>1, <2>2, <3>1, <4>0 DEF InOrder
      <4>2. ASSUME NEW i \in 1..Len(chan[c]) PROVE Before(chan[c][i], m)
        <5>1. chan[c][i] \in published /\ chan[c][i].board = c
          BY <1>n, <1>i DEF InOrder
        <5>2. QED
          BY <1>n, <1>t, <3>1, <5>1 DEF NumbersInv, Before
      <4>3. ASSUME NEW i \in 1..Len(chan'[c]), NEW j \in 1..Len(chan'[c]), i < j
            PROVE  Before(chan'[c][i], chan'[c][j])
        <5>1. i \in 1..Len(chan[c]) /\ chan'[c][i] = chan[c][i]
          BY <1>n, <3>1, <4>3
        <5>2. QED
          BY <1>i, <4>0, <4>2, <4>3, <5>1 DEF InOrder
      <4>4. ASSUME NEW i \in 1..Len(chan'[c]) - 1
            PROVE  \/ chan'[c][i + 1].seq = 1
                   \/ chan'[c][i].boot = chan'[c][i + 1].boot /\ chan'[c][i].seq + 1 = chan'[c][i + 1].seq
        <5>1. i \in 1..Len(chan[c]) /\ chan'[c][i] = chan[c][i]
          BY <1>n, <3>1
        <5>2. CASE i = Len(chan[c])
          <6>1. chan'[c][i + 1] = m /\ Len(chan[c]) # 0
            BY <1>n, <3>1, <5>2
          <6>2. seq[c] = 0 \/ (chan[c][i].boot = m.boot /\ chan[c][i].seq = seq[c])
            BY <1>i, <3>1, <5>2, <6>1 DEF EndsInv
          <6>3. QED
            BY <1>n, <3>1, <5>1, <6>1, <6>2
        <5>3. CASE i # Len(chan[c])
          <6>1. i \in 1..Len(chan[c]) - 1 /\ i + 1 \in 1..Len(chan[c])
            BY <1>n, <5>1, <5>3
          <6>2. chan'[c][i + 1] = chan[c][i + 1]
            BY <3>1, <6>1
          <6>3. \/ chan[c][i + 1].seq = 1
                \/ chan[c][i].boot = chan[c][i + 1].boot /\ chan[c][i].seq + 1 = chan[c][i + 1].seq
            BY <1>i, <6>1 DEF InOrder
          <6>4. QED
            BY <5>1, <6>2, <6>3
        <5>4. QED
          BY <5>2, <5>3
      <4>5. QED
        BY <4>1, <4>3, <4>4 DEF InOrder, Before
    <3>3. m.seq - 1 = seq[c]
      BY <1>n, <3>1
    <3>4. CASE Len(chan[c]) = 0
      <4>1. Len(chan'[c]) = 1 /\ chan'[c][1] = m /\ Settled(c, lastSeq[c], Lost, m.boot, m.seq - 1)
        BY <1>i, <1>n, <3>1, <3>3, <3>4 DEF EndsInv
      <4>2. QED
        BY <2>1, <3>1, <3>2, <4>1 DEF EndsInv
    <3>5. CASE Len(chan[c]) # 0
      <4>1. /\ chan'[c][1] = chan[c][1] /\ Len(chan'[c]) # 0
            /\ Settled(c, lastSeq[c], Lost, chan[c][1].boot, chan[c][1].seq - 1)
        BY <1>i, <1>n, <3>1, <3>5 DEF EndsInv
      <4>2. QED
        BY <2>1, <3>1, <3>2, <4>1 DEF EndsInv
    <3>6. QED
      BY <3>4, <3>5
  <2>5. QED
    BY <2>3, <2>4
<1>6. QED
  BY StepKinds, <1>1, <1>2, <1>4, <1>5

\* Both are invariants of the specification.
LEMMA ChannelCorrect == CaptureSpec => [](NumbersInv /\ ChannelInv)
<1>1. CaptureInit => NumbersInv /\ ChannelInv
  <2> SUFFICES ASSUME CaptureInit PROVE NumbersInv /\ ChannelInv
    OBVIOUS
  <2>1. published = {} /\ \A b \in Boards : chan[b] = <<>> /\ seq[b] = 0
    BY DEF CaptureInit
  <2>2. NumbersInv
    BY <2>1 DEF NumbersInv
  <2>3. ASSUME NEW b \in Boards PROVE InOrder(b) /\ EndsInv(b)
    <3>1. Len(chan[b]) = 0
      BY <2>1
    <3>2. Settled(b, lastSeq[b], Lost, reboots[b], seq[b])
      BY <2>1 DEF Settled
    <3>3. QED
      BY <3>1, <3>2 DEF InOrder, EndsInv
  <2>4. QED
    BY <2>2, <2>3 DEF ChannelInv
<1>2. CaptureTypeOK /\ CaptureTypeOK' /\ NumbersInv /\ ChannelInv /\ [CaptureNext]_captureVars => (NumbersInv /\ ChannelInv)'
  BY NumbersKept, ChannelKept
<1>3. QED
  BY <1>1, <1>2, TypeCorrect, PTL DEF CaptureSpec

----------------------------------------------------------------------------
\* The losses a gap can stand for: the number after them has been heard or lost.
Charged == {m \in Lost : \E s \in published : /\ s.board = m.board /\ s.boot = m.boot
                                              /\ s.seq = m.seq + 1 /\ s \notin InChan(s.board)}
ChargedInv == IsFiniteSet(published) /\ gaps <= Cardinality(Charged)

\* No loss stops being one.
LEMMA ChargedGrows ==
    ASSUME NEW A, NEW B, IsFiniteSet(B), A \subseteq B
    PROVE  Cardinality(A) \in Nat /\ Cardinality(B) \in Nat /\ Cardinality(A) <= Cardinality(B)
<1>1. IsFiniteSet(A) /\ Cardinality(A) <= Cardinality(B)
  BY FS_Subset
<1>2. QED
  BY <1>1, FS_CardinalityType

\* A gap is counted where a loss is charged for the first time.
LEMMA ChargedKept ==
    ASSUME CaptureTypeOK, CaptureTypeOK', NumbersInv, ChannelInv, ChargedInv, [CaptureNext]_captureVars
    PROVE  ChargedInv'
<1>t. \A m \in published : m.board \in Boards /\ m.boot \in Nat /\ m.seq \in Nat \ {0}
  BY DEF CaptureTypeOK
<1>l. Lost \subseteq published /\ Lost' \subseteq published' /\ gaps \in Nat /\ Charged' \subseteq Lost'
  BY DEF CaptureTypeOK, Lost, Charged
<1>f. IsFiniteSet(published')
  <2>1. published' = published \/ \E m : published' = published \cup {m}
    BY StepKinds DEF StepIgnores, StepReboots, StepLoses, StepHears, StepPublishes, Pushed
  <2>2. QED
    BY <2>1, FS_AddElement DEF ChargedInv
<1>g. IsFiniteSet(Charged') /\ Cardinality(Charged') \in Nat /\ Cardinality(Charged) \in Nat
  <2>1. Charged \subseteq published /\ Charged' \subseteq published'
    BY <1>l DEF Charged
  <2>2. QED
    BY <1>f, <2>1, FS_Subset, FS_CardinalityType DEF ChargedInv
<1>0. ASSUME UNCHANGED gaps, Charged \subseteq Charged' PROVE ChargedInv'
  BY <1>0, <1>f, <1>g, <1>l, ChargedGrows DEF ChargedInv
<1>1. CASE StepIgnores
  BY <1>0, <1>1 DEF StepIgnores, Charged, Lost, InChan
<1>2. ASSUME NEW b \in Boards, StepReboots(b) PROVE ChargedInv'
  BY <1>0, <1>2 DEF StepReboots, Charged, Lost, InChan
<1>3. ASSUME NEW b \in Boards, NEW m, StepPublishes(b, m) PROVE ChargedInv'
  <2>1. Pushed(b, m) /\ UNCHANGED <<Lost, gaps>>
    BY <1>3 DEF StepPublishes, Lost
  <2>2. ASSUME NEW s \in published, s \notin InChan(s.board) PROVE s \notin InChan(s.board)'
    <3>1. s # m
      <4>1. m.seq = seq[b] + 1 /\ m.board = b /\ m.boot = reboots[b] /\ seq[b] \in Nat /\ reboots[b] \in Nat
        BY <2>1 DEF Pushed, CaptureTypeOK
      <4>2. s.board = b => s.boot < reboots[b] \/ s.seq <= seq[b]
        BY DEF NumbersInv
      <4>3. QED
        BY <1>t, <4>1, <4>2
    <3>2. s.board \in Boards
      BY <1>t
    <3>3. CASE s.board = b
      <4>1. ASSUME NEW i \in 1..Len(chan'[b]) PROVE chan'[b][i] # s
        <5>1. i \in 1..Len(chan[b]) \/ i = Len(chan[b]) + 1
          BY <2>1 DEF Pushed
        <5>2. QED
          BY <2>1, <2>2, <3>1, <3>3, <5>1 DEF Pushed, InChan
      <4>2. QED
        BY <3>3, <4>1 DEF InChan
    <3>4. CASE s.board # b
      BY <2>1, <2>2, <3>2, <3>4 DEF Pushed, InChan
    <3>5. QED
      BY <3>3, <3>4
  <2>3. Charged \subseteq Charged'
    BY <2>1, <2>2 DEF Charged, Pushed
  <2>4. QED
    BY <1>0, <2>1, <2>3
<1>4. ASSUME NEW b \in Boards, Popped(b), UNCHANGED published, Lost \subseteq Lost'
      PROVE  /\ Charged \subseteq Charged'
             /\ chan[b][1] \notin InChan(b)'
  <2>1. ASSUME NEW c \in Boards PROVE InChan(c)' \subseteq InChan(c)
    <3>1. CASE c = b
      <4>1. ASSUME NEW i \in 1..Len(chan'[b]) PROVE chan'[b][i] \in InChan(b)
        <5>1. i + 1 \in 1..Len(chan[b]) /\ chan'[b][i] = chan[b][i + 1]
          BY <1>4 DEF Popped
        <5>2. QED
          BY <5>1 DEF InChan
      <4>2. QED
        BY <3>1, <4>1 DEF InChan
    <3>2. CASE c # b
      BY <1>4, <3>2 DEF Popped, InChan
    <3>3. QED
      BY <3>1, <3>2
  <2>2. chan[b][1] \notin InChan(b)'
    <3>1. ASSUME NEW i \in 1..Len(chan'[b]) PROVE chan'[b][i] # chan[b][1]
      <4>1. i + 1 \in 1..Len(chan[b]) /\ 1 \in 1..Len(chan[b]) /\ 1 < i + 1 /\ chan'[b][i] = chan[b][i + 1]
        BY <1>4 DEF Popped
      <4>2. Before(chan[b][1], chan[b][i + 1])
        BY <4>1 DEF ChannelInv, InOrder
      <4>3. chan[b][1] \in published
        BY <1>4 DEF Popped
      <4>4. QED
        BY <1>t, <4>1, <4>2, <4>3 DEF Before
    <3>2. QED
      BY <3>1 DEF InChan
  <2>3. QED
    BY <1>4, <1>t, <2>1, <2>2 DEF Charged
<1>5. ASSUME NEW b \in Boards, StepLoses(b) PROVE ChargedInv'
  BY <1>0, <1>4, <1>5 DEF StepLoses, Lost
<1>6. ASSUME NEW b \in Boards, StepHears(b) PROVE ChargedInv'
  <2> DEFINE h == chan[b][1]
  <2>1. Popped(b) /\ UNCHANGED <<published, Lost>> /\ h \in published
    BY <1>6 DEF StepHears, Lost, Popped
  <2>2. Charged \subseteq Charged' /\ h \notin InChan(b)'
    BY <1>4, <2>1
  <2>3. CASE ~Skipped(b, h.seq)
    BY <1>0, <1>6, <1>l, <2>2, <2>3 DEF StepHears
  <2>4. CASE Skipped(b, h.seq)
    <3>1. h.seq > lastSeq[b] + 1 /\ lastSeq[b] \in Nat /\ h.seq \in Nat /\ h.board = b
      <4>1. 1 \in 1..Len(chan[b])
        BY <2>1 DEF Popped
      <4>2. h.board = b
        BY <4>1 DEF ChannelInv, InOrder
      <4>3. QED
        BY <1>t, <2>1, <2>4, <4>2 DEF Skipped, CaptureTypeOK
    <3>2. Settled(b, lastSeq[b], Lost, h.boot, h.seq - 1)
      BY <2>1 DEF ChannelInv, EndsInv, Popped
    <3>3. PICK m \in Lost : m.board = b /\ m.boot = h.boot /\ m.seq = h.seq - 1
      BY <3>1, <3>2 DEF Settled
    <3>4. m \in Charged'
      <4>1. h.seq = m.seq + 1
        BY <3>1, <3>3
      <4>2. QED
        BY <2>1, <2>2, <3>1, <3>3, <4>1 DEF Charged
    <3>5. m \notin Charged
      <4>1. ASSUME NEW s \in published, s.board = b, s.boot = h.boot, s.seq = m.seq + 1 PROVE s = h
        BY <2>1, <3>1, <3>3, <4>1 DEF NumbersInv
      <4>2. h \in InChan(b)
        BY <2>1 DEF InChan, Popped
      <4>3. QED
        BY <3>1, <3>3, <4>1, <4>2 DEF Charged
    <3>6. Cardinality(Charged) + 1 <= Cardinality(Charged')
      <4>1. IsFiniteSet(Charged)
        BY <1>g, <2>2, FS_Subset
      <4>2. Cardinality(Charged \cup {m}) = Cardinality(Charged) + 1
        BY <3>5, <4>1, FS_AddElement
      <4>3. Charged \cup {m} \subseteq Charged'
        BY <2>2, <3>4
      <4>4. QED
        BY <1>g, <4>2, <4>3, ChargedGrows
    <3>7. gaps' = gaps + 1
      BY <1>6, <2>4 DEF StepHears
    <3>8. QED
      BY <1>f, <1>g, <1>l, <3>6, <3>7 DEF ChargedInv
  <2>5. QED
    BY <2>3, <2>4
<1>7. QED
  BY StepKinds, <1>1, <1>2, <1>3, <1>5, <1>6

\* gaps (MqttReceiver._on_message) counts nothing but losses: every gap has a
\* lost message of its own, the one before the number that revealed it.
THEOREM GapsAreLossesHolds == CaptureSpec => []GapsAreLosses
<1>1. CaptureInit => ChargedInv
  <2> SUFFICES ASSUME CaptureInit PROVE ChargedInv
    OBVIOUS
  <2>1. published = {} /\ gaps = 0 /\ Charged = {}
    BY DEF CaptureInit, Charged, Lost
  <2>2. QED
    BY <2>1, FS_EmptySet DEF ChargedInv
<1>2. CaptureTypeOK /\ CaptureTypeOK' /\ NumbersInv /\ ChannelInv /\ ChargedInv /\ [CaptureNext]_captureVars => ChargedInv'
  BY ChargedKept
<1>3. CaptureTypeOK /\ ChargedInv => GapsAreLosses
  <2> SUFFICES ASSUME CaptureTypeOK, ChargedInv PROVE GapsAreLosses
    OBVIOUS
  <2>1. Charged \subseteq Lost /\ Lost \subseteq published /\ gaps \in Nat
    BY DEF Charged, Lost, CaptureTypeOK
  <2>2. IsFiniteSet(Lost)
    BY <2>1, FS_Subset DEF ChargedInv
  <2>3. Cardinality(Charged) \in Nat /\ Cardinality(Lost) \in Nat /\ Cardinality(Charged) <= Cardinality(Lost)
    BY <2>1, <2>2, ChargedGrows
  <2>4. QED
    BY <2>1, <2>3 DEF ChargedInv, GapsAreLosses, Lost
<1>4. QED
  BY <1>1, <1>2, <1>3, TypeCorrect, ChannelCorrect, PTL DEF CaptureSpec

----------------------------------------------------------------------------
Waiting == UNION {InChan(b) : b \in Boards}

\* A message that is heard or lost is no longer under way, and all others are.
LEMMA PoppedFrom ==
    ASSUME CaptureTypeOK, ChannelInv, NEW b \in Boards, Popped(b)
    PROVE  /\ chan[b][1] \in InChan(b) /\ chan[b][1].board = b /\ chan[b][1] \notin Lost
           /\ \A c \in Boards : InChan(c)' = InChan(c) \ {chan[b][1]}
<1> DEFINE h == chan[b][1]
<1>1. /\ 1 \in 1..Len(chan[b]) /\ h \in published
      /\ Len(chan[b]) \in Nat /\ Len(chan'[b]) = Len(chan[b]) - 1
  BY DEF Popped
<1>2. h \in InChan(b) /\ h.board = b /\ h \notin Lost
  BY <1>1 DEF InChan, ChannelInv, InOrder
<1>3. ASSUME NEW c \in Boards PROVE InChan(c)' = InChan(c) \ {h}
  <2>1. CASE c = b
    <3>1. ASSUME NEW i \in 1..Len(chan'[b]) PROVE chan'[b][i] \in InChan(b) \ {h}
      <4>1. i + 1 \in 1..Len(chan[b]) /\ 1 < i + 1 /\ i \in 1..Len(chan[b]) - 1
        BY <1>1
      <4>2. chan'[b][i] = chan[b][i + 1]
        BY <4>1 DEF Popped
      <4>3. Before(chan[b][1], chan[b][i + 1])
        BY <1>1, <4>1 DEF ChannelInv, InOrder
      <4>4. h.boot \in Nat /\ h.seq \in Nat
        BY <1>1 DEF CaptureTypeOK
      <4>5. chan[b][i + 1] # h
        BY <4>3, <4>4 DEF Before
      <4>6. QED
        BY <4>1, <4>2, <4>5 DEF InChan
    <3>2. ASSUME NEW i \in 1..Len(chan[b]), chan[b][i] # h PROVE chan[b][i] \in InChan(b)'
      <4>1. i # 1
        BY <3>2
      <4>2. /\ i - 1 \in 1..Len(chan'[b]) /\ i - 1 \in 1..Len(chan[b]) - 1
            /\ (i - 1) + 1 = i
        BY <1>1, <4>1
      <4>3. chan'[b][i - 1] = chan[b][(i - 1) + 1]
        BY <4>2 DEF Popped
      <4>4. chan'[b][i - 1] = chan[b][i]
        BY <4>2, <4>3
      <4>5. QED
        BY <4>2, <4>4 DEF InChan
    <3>3. \A x : x \in InChan(b)' <=> x \in InChan(b) \ {h}
      BY <3>1, <3>2 DEF InChan
    <3>4. QED
      BY <2>1, <3>3
  <2>2. CASE c # b
    <3>1. InChan(c)' = InChan(c)
      BY <2>2 DEF Popped, InChan
    <3>2. h \notin InChan(c)
      <4>1. \A i \in 1..Len(chan[c]) : chan[c][i].board = c
        BY DEF ChannelInv, InOrder
      <4>2. QED
        BY <1>2, <2>2, <4>1 DEF InChan
    <3>3. QED
      BY <3>1, <3>2
  <2>3. QED
    BY <2>1, <2>2
<1>4. QED
  BY <1>2, <1>3

\* The same of all channels together.
LEMMA PoppedLeaves ==
    ASSUME CaptureTypeOK, ChannelInv, NEW b \in Boards, Popped(b)
    PROVE  /\ Waiting' = Waiting \ {chan[b][1]}
           /\ chan[b][1] \in Waiting /\ chan[b][1] \notin Lost
  BY PoppedFrom DEF Waiting

\* A message that is published is under way in its board's channel.
LEMMA PushedInto ==
    ASSUME NEW b \in Boards, NEW m, Pushed(b, m), NEW c \in Boards
    PROVE  InChan(c)' = IF c = b THEN InChan(b) \cup {m} ELSE InChan(c)
<1>1. CASE c = b
  <2>1. ASSUME NEW i \in 1..Len(chan'[b]) PROVE chan'[b][i] \in InChan(b) \cup {m}
    <3>1. i \in 1..Len(chan[b]) \/ i = Len(chan[b]) + 1
      BY DEF Pushed
    <3>2. QED
      BY <3>1 DEF Pushed, InChan
  <2>2. ASSUME NEW i \in 1..Len(chan[b]) PROVE chan[b][i] \in InChan(b)'
    <3>1. i \in 1..Len(chan'[b]) /\ chan'[b][i] = chan[b][i]
      BY DEF Pushed
    <3>2. QED
      BY <3>1 DEF InChan
  <2>3. m \in InChan(b)'
    <3>1. Len(chan[b]) + 1 \in 1..Len(chan'[b])
      BY DEF Pushed
    <3>2. QED
      BY <3>1 DEF Pushed, InChan
  <2>4. \A x : x \in InChan(b)' <=> x \in InChan(b) \cup {m}
    BY <2>1, <2>2, <2>3 DEF InChan
  <2>5. QED
    BY <1>1, <2>4
<1>2. CASE c # b
  BY <1>2 DEF Pushed, InChan
<1>3. QED
  BY <1>1, <1>2

\* A message that is published is new, and under way.
LEMMA PushedEnters ==
    ASSUME CaptureTypeOK, NumbersInv, NEW b \in Boards, NEW m, Pushed(b, m)
    PROVE  m \notin published /\ Waiting' = Waiting \cup {m}
<1>1. m \notin published
  <2>1. m.seq = seq[b] + 1 /\ m.board = b /\ m.boot = reboots[b] /\ seq[b] \in Nat /\ reboots[b] \in Nat
    BY DEF Pushed, CaptureTypeOK
  <2>2. QED
    BY <2>1 DEF NumbersInv
<1>2. ASSUME NEW c \in Boards PROVE InChan(c)' = IF c = b THEN InChan(b) \cup {m} ELSE InChan(c)
  BY PushedInto
<1>3. QED
  BY <1>1, <1>2 DEF Waiting

\* Nothing under way has been lost or is unpublished.
LEMMA WaitingIsPublished ==
    ASSUME CaptureTypeOK
    PROVE  Waiting \subseteq published
<1>1. ASSUME NEW b \in Boards, NEW i \in 1..Len(chan[b]) PROVE chan[b][i] \in published
  <2>1. chan[b] \in Seq(published)
    BY DEF CaptureTypeOK
  <2>2. QED
    BY <2>1, ElementOfSeq
<1>2. QED
  BY <1>1 DEF Waiting, InChan

CountInv ==
    /\ IsFiniteSet(published)
    /\ delivered + Cardinality(vanished) + Cardinality(Waiting) = Cardinality(published)

\* A message leaves its channel into exactly one of the counts.
LEMMA CountKept ==
    ASSUME CaptureTypeOK, NumbersInv, ChannelInv, CountInv, [CaptureNext]_captureVars
    PROVE  CountInv'
<1>1. Waiting \subseteq published /\ vanished \subseteq published /\ delivered \in Nat
  BY WaitingIsPublished DEF CaptureTypeOK
<1>2. /\ IsFiniteSet(Waiting) /\ IsFiniteSet(vanished) /\ IsFiniteSet(published)
      /\ Cardinality(Waiting) \in Nat /\ Cardinality(vanished) \in Nat /\ Cardinality(published) \in Nat
  BY <1>1, FS_Subset, FS_CardinalityType DEF CountInv
<1>3. CASE StepIgnores \/ \E b \in Boards : StepReboots(b)
  <2>1. UNCHANGED <<chan, published, vanished, delivered>>
    BY <1>3 DEF StepIgnores, StepReboots
  <2>2. Waiting' = Waiting
    BY <2>1 DEF Waiting, InChan
  <2>3. QED
    BY <2>1, <2>2 DEF CountInv
<1>4. ASSUME NEW b \in Boards, NEW m, StepPublishes(b, m) PROVE CountInv'
  <2>1. /\ published' = published \cup {m} /\ UNCHANGED <<vanished, delivered>>
        /\ m \notin published /\ m \notin Waiting /\ Waiting' = Waiting \cup {m}
    BY <1>1, <1>4, PushedEnters DEF StepPublishes, Pushed
  <2>2. /\ IsFiniteSet(published')
        /\ Cardinality(published') = Cardinality(published) + 1
        /\ Cardinality(Waiting') = Cardinality(Waiting) + 1
    BY <1>2, <2>1, FS_AddElement
  <2>3. QED
    BY <1>1, <1>2, <2>1, <2>2 DEF CountInv
<1>5. ASSUME NEW b \in Boards, Popped(b), UNCHANGED published,
             \/ UNCHANGED vanished /\ delivered' = delivered + 1
             \/ vanished' = vanished \cup {chan[b][1]} /\ UNCHANGED delivered
      PROVE  CountInv'
  <2>1. /\ Waiting' = Waiting \ {chan[b][1]} /\ chan[b][1] \in Waiting
        /\ chan[b][1] \notin vanished
    BY <1>5, PoppedLeaves DEF Lost
  <2> DEFINE h == chan[b][1]
  <2> HIDE DEF h
  <2>2. Cardinality(Waiting \ {h}) = Cardinality(Waiting) - 1
    <3>1. h \in Waiting
      BY <2>1 DEF h
    <3> HIDE DEF Waiting
    <3>2. Cardinality(Waiting \ {h}) = IF h \in Waiting THEN Cardinality(Waiting) - 1 ELSE Cardinality(Waiting)
      BY <1>2, FS_RemoveElement
    <3>3. QED
      BY <3>1, <3>2
  <2>3. Cardinality(vanished \cup {h}) = Cardinality(vanished) + 1
    BY <1>2, <2>1, FS_AddElement DEF h
  <2>4. Waiting' = Waiting \ {h} /\ published' = published
    BY <1>5, <2>1 DEF h
  <2>5. \/ vanished' = vanished /\ delivered' = delivered + 1
        \/ vanished' = vanished \cup {h} /\ delivered' = delivered
    BY <1>5 DEF h
  <2>6. delivered' + Cardinality(vanished') + Cardinality(Waiting') = Cardinality(published)
    <3>1. CASE vanished' = vanished /\ delivered' = delivered + 1
      BY <1>1, <1>2, <2>2, <2>4, <3>1 DEF CountInv
    <3>2. CASE vanished' = vanished \cup {h} /\ delivered' = delivered
      BY <1>1, <1>2, <2>2, <2>3, <2>4, <3>2 DEF CountInv
    <3>3. QED
      BY <2>5, <3>1, <3>2
  <2>7. QED
    BY <1>2, <2>4, <2>6 DEF CountInv
<1>6. ASSUME NEW b \in Boards, StepLoses(b) \/ StepHears(b) PROVE CountInv'
  BY <1>5, <1>6 DEF StepLoses, StepHears
<1>7. QED
  BY StepKinds, <1>3, <1>4, <1>6

\* Every message that reaches the host is counted once, as received or as
\* dropped, and every message published is under way, gone or counted.
THEOREM DeliveriesAccountedHolds == CaptureSpec => []DeliveriesAccounted
<1>1. CaptureInit => CountInv
  <2> SUFFICES ASSUME CaptureInit PROVE CountInv
    OBVIOUS
  <2>1. published = {} /\ vanished = {} /\ delivered = 0 /\ \A b \in Boards : chan[b] = <<>>
    BY DEF CaptureInit
  <2>2. Waiting = {}
    BY <2>1 DEF Waiting, InChan
  <2>3. QED
    BY <2>1, <2>2, FS_EmptySet DEF CountInv
<1>2. CaptureInit => received + dropped = delivered
  BY DEF CaptureInit
<1>3. CaptureTypeOK /\ received + dropped = delivered /\ [CaptureNext]_captureVars => (received + dropped = delivered)'
  <2> SUFFICES ASSUME CaptureTypeOK, received + dropped = delivered, [CaptureNext]_captureVars
               PROVE  received' + dropped' = delivered'
    OBVIOUS
  <2>t. received \in Nat /\ dropped \in Nat /\ delivered \in Nat
    BY DEF CaptureTypeOK
  <2>1. ASSUME NEW b \in Boards, OnMessage(b) PROVE received' + dropped' = delivered'
    <3>1. PICK cap : Offer(cap) /\ delivered' = delivered + 1
      BY <2>1 DEF OnMessage
    <3>2. QED
      BY <2>t, <3>1 DEF Offer
  <2>2. ASSUME NEW b \in Boards, BadPayload(b) PROVE received' + dropped' = delivered'
    BY <2>t, <2>2 DEF BadPayload
  <2>3. CASE UNCHANGED <<received, dropped, delivered>>
    BY <2>3
  <2>4. QED
    BY <2>1, <2>2, <2>3 DEF CaptureNext, captureVars, NextCapture, RecordingDone, LoopPolls, LoopClears,
       HandleCapture, Reboot, Lose, receiver, history
<1>4. CaptureTypeOK /\ NumbersInv /\ ChannelInv /\ CountInv /\ [CaptureNext]_captureVars => CountInv'
  BY CountKept
<1>5. CountInv /\ received + dropped = delivered => DeliveriesAccounted
  BY DEF CountInv, DeliveriesAccounted, Waiting
<1>6. QED
  BY <1>1, <1>2, <1>3, <1>4, <1>5, TypeCorrect, ChannelCorrect, PTL DEF CaptureSpec
----------------------------------------------------------------------------
\* How often a board has read out its newest recording tells which of its
\* messages may be of it; a pending interrupt is owed at least one read-out.
ReadsInv ==
    /\ \A b \in Boards :
          /\ irq[b] => reads[b] <= 1
          /\ loopAt[b] = "clear" => irq[b]
          /\ loopAt[b] = "read" => reads[b] <= (IF irq[b] THEN 0 ELSE 1)
          /\ loopAt[b] = "poll" /\ ~irq[b] /\ done[b] > 0 => reads[b] \in {1, 2}
    /\ \A m \in published :
          m.boot = reboots[m.board] =>
             /\ m.recording <= done[m.board]
             /\ m.recording = done[m.board] => m.seq > seq[m.board] - reads[m.board]
    /\ \A m, n \in published :
          m.board = n.board /\ m.boot = n.boot /\ m.seq < n.seq =>
             \/ m.recording < n.recording
             \/ m.recording = n.recording /\ n.seq = m.seq + 1

\* A read-out is of the newest recording, and the second of one is the last.
LEMMA ReadsKept ==
    ASSUME CaptureTypeOK, NumbersInv, ReadsInv, [CaptureNext]_captureVars
    PROVE  ReadsInv'
<1> USE DEF ReadsInv
<1>m. \A m \in published : m.board \in Boards /\ m.boot \in Nat /\ m.recording \in Nat /\ m.seq \in Nat
  BY DEF CaptureTypeOK
<1>n. \A b \in Boards : /\ done[b] \in Nat /\ reboots[b] \in Nat /\ irq[b] \in BOOLEAN
                        /\ seq[b] \in Nat /\ reads[b] \in Nat /\ loopAt[b] \in {"poll", "clear", "read"}
  BY DEF CaptureTypeOK
<1>t. \A m \in published : /\ m.board \in Boards /\ m.boot \in Nat /\ m.recording \in Nat /\ m.seq \in Nat
                           /\ m.boot <= reboots[m.board]
                           /\ m.boot = reboots[m.board] => m.seq <= seq[m.board]
  BY <1>m, <1>n DEF NumbersInv
<1>1. ASSUME NEW b \in Boards, RecordingDone(b) PROVE ReadsInv'
  <2>1. /\ done'[b] = done[b] + 1 /\ irq'[b] = TRUE /\ reads'[b] = 0
        /\ \A c \in Boards \ {b} : done'[c] = done[c] /\ irq'[c] = irq[c] /\ reads'[c] = reads[c]
        /\ UNCHANGED <<loopAt, seq, published, reboots>>
    BY <1>1 DEF RecordingDone, CaptureTypeOK, history
  <2>2. QED
    BY <1>t, <1>n, <2>1
<1>2. ASSUME NEW b \in Boards, LoopPolls(b) PROVE ReadsInv'
  <2>1. /\ loopAt[b] = "poll" /\ irq[b] /\ loopAt'[b] = "clear" /\ \A c \in Boards \ {b} : loopAt'[c] = loopAt[c]
        /\ UNCHANGED <<done, irq, seq, reads, published, reboots>>
    BY <1>2 DEF LoopPolls, CaptureTypeOK, history
  <2>2. QED
    BY <1>t, <1>n, <2>1
<1>3. ASSUME NEW b \in Boards, LoopClears(b) PROVE ReadsInv'
  <2>1. /\ loopAt[b] = "clear" /\ irq'[b] = FALSE /\ loopAt'[b] = "read"
        /\ \A c \in Boards \ {b} : irq'[c] = irq[c] /\ loopAt'[c] = loopAt[c]
        /\ UNCHANGED <<done, seq, reads, published, reboots>>
    BY <1>3 DEF LoopClears, CaptureTypeOK, history
  <2>2. QED
    BY <1>t, <1>n, <2>1
<1>4. ASSUME NEW b \in Boards, HandleCapture(b) PROVE ReadsInv'
  <2>1. /\ loopAt[b] = "read" /\ loopAt'[b] = "poll" /\ reads'[b] = reads[b] + 1
        /\ \A c \in Boards \ {b} : loopAt'[c] = loopAt[c] /\ reads'[c] = reads[c]
        /\ UNCHANGED <<done, irq, reboots>>
    BY <1>4 DEF HandleCapture, CaptureTypeOK
  <2>2. CASE UNCHANGED <<published, seq>>
    BY <1>t, <1>n, <2>1, <2>2
  <2>3. CASE Publish(b)
    <3> DEFINE m == Message(b, done[b], seq[b] + 1)
    <3>1. /\ m.board = b /\ m.boot = reboots[b] /\ m.recording = done[b] /\ m.seq = seq[b] + 1
          /\ published' = published \cup {m}
          /\ seq'[b] = seq[b] + 1 /\ \A c \in Boards \ {b} : seq'[c] = seq[c]
      BY <2>3 DEF Publish, Message, CaptureTypeOK
    <3> HIDE DEF m
    <3>2. \A n \in published : n.board = b /\ n.boot = reboots[b] =>
             /\ n.seq < m.seq
             /\ n.recording < m.recording \/ (n.recording = m.recording /\ m.seq = n.seq + 1)
      BY <1>t, <1>n, <2>1, <3>1
    <3>3. QED
      BY <1>t, <1>n, <2>1, <3>1, <3>2
  <2>4. QED
    BY <1>4, <2>2, <2>3 DEF HandleCapture
<1>5. ASSUME NEW b \in Boards, Reboot(b) PROVE ReadsInv'
  <2>1. /\ reboots'[b] = reboots[b] + 1 /\ loopAt'[b] = "poll" /\ irq'[b] = FALSE
        /\ done'[b] = 0 /\ reads'[b] = 0 /\ seq'[b] = 0
        /\ \A c \in Boards \ {b} : /\ reboots'[c] = reboots[c] /\ done'[c] = done[c] /\ irq'[c] = irq[c]
                                   /\ loopAt'[c] = loopAt[c] /\ reads'[c] = reads[c] /\ seq'[c] = seq[c]
        /\ UNCHANGED published
    BY <1>5 DEF Reboot, CaptureTypeOK, history
  <2>2. \A n \in published : n.board = b => n.boot < reboots'[b]
    BY <1>t, <1>n, <2>1
  <2>3. QED
    BY <1>t, <1>n, <2>1, <2>2
<1>6. ASSUME UNCHANGED <<done, irq, loopAt, seq, reads, published, reboots>> PROVE ReadsInv'
  BY <1>6
<1>7. ASSUME NEW b \in Boards, Lose(b) \/ BadPayload(b) \/ OnMessage(b) PROVE ReadsInv'
  BY <1>6, <1>7 DEF Lose, BadPayload, OnMessage, board
<1>8. CASE NextCapture
  BY <1>6, <1>8 DEF NextCapture, board, history
<1>9. CASE UNCHANGED captureVars
  BY <1>6, <1>9 DEF captureVars, board, history
<1>10. QED
  BY <1>1, <1>2, <1>3, <1>4, <1>5, <1>7, <1>8, <1>9 DEF CaptureNext

\* However recordings complete while Sx1262Driver's loop() reads one out, the
\* newest is read out before the loop waits again, once or twice, and a
\* board's numbers follow the air.
THEOREM RecordingsReadOutHolds == CaptureSpec => []RecordingsReadOut
<1>1. CaptureInit => ReadsInv
  BY DEF CaptureInit, ReadsInv
<1>2. CaptureTypeOK /\ NumbersInv /\ ReadsInv /\ [CaptureNext]_captureVars => ReadsInv'
  BY ReadsKept
<1>3. ReadsInv => RecordingsReadOut
  BY DEF ReadsInv, RecordingsReadOut
<1>4. QED
  BY <1>1, <1>2, <1>3, TypeCorrect, ChannelCorrect, PTL DEF CaptureSpec

----------------------------------------------------------------------------
\* Of a board that has not rebooted: what is under way is newer than the last
\* message heard, which was not lost, and before the first one heard everything
\* was lost; and as long as no gap is counted, nothing but that.
HeardInv(b) ==
    /\ lastSeq[b] <= seq[b]
    /\ \A m \in InChan(b) : m.seq > lastSeq[b]
    /\ lastSeq[b] = 0 => \A m \in published : m.board = b => m \in Lost \cup InChan(b)
    /\ \A m \in Lost : m.board = b => m.seq # lastSeq[b]
    /\ gaps = 0 => \A m \in Lost, first \in published :
          m.board = b /\ m.seq < lastSeq[b] /\ first.board = b /\ first.seq < m.seq => first \in Lost

\* The messages still under way after the head has left are those behind it.
LEMMA BehindHead ==
    ASSUME CaptureTypeOK, NumbersInv, ChannelInv, NEW b \in Boards, Popped(b), reboots[b] = 0
    PROVE  /\ InChan(b)' \subseteq InChan(b)
           /\ InChan(b) \subseteq InChan(b)' \cup {chan[b][1]}
           /\ \A m \in InChan(b)' : m.seq > chan[b][1].seq
<1> DEFINE h == chan[b][1]
<1>1. /\ 1 \in 1..Len(chan[b]) /\ h \in published
      /\ Len(chan[b]) \in Nat /\ Len(chan'[b]) = Len(chan[b]) - 1
  BY DEF Popped
<1>t. reboots[b] \in Nat /\ \A m \in published : m.boot \in Nat /\ m.seq \in Nat
  BY DEF CaptureTypeOK
<1>2. \A m \in published : m.boot \in Nat /\ m.seq \in Nat /\ (m.board = b => m.boot = 0)
  BY <1>t DEF NumbersInv
<1>3. ASSUME NEW i \in 1..Len(chan'[b])
      PROVE  chan'[b][i].seq > h.seq
  <2>1. i + 1 \in 1..Len(chan[b]) /\ 1 < i + 1 /\ i \in 1..Len(chan[b]) - 1
    BY <1>1
  <2>2. chan'[b][i] = chan[b][i + 1]
    BY <2>1 DEF Popped
  <2>3. /\ Before(chan[b][1], chan[b][i + 1])
        /\ chan[b][1].board = b /\ chan[b][i + 1].board = b
    BY <1>1, <2>1 DEF ChannelInv, InOrder
  <2>4. chan[b][i + 1] \in published
    BY <2>1, ElementOfSeq DEF CaptureTypeOK
  <2>5. h.seq < chan[b][i + 1].seq
    BY <1>1, <1>2, <2>3, <2>4 DEF Before
  <2>6. h.seq \in Nat /\ chan[b][i + 1].seq \in Nat
    BY <1>1, <1>2, <2>4
  <2>7. QED
    BY <2>1, <2>2, <2>5, <2>6 DEF InChan
<1>4. \A m \in InChan(b)' : m.seq > h.seq
  BY <1>3 DEF InChan
<1>5. QED
  BY <1>4, PoppedFrom

\* A message heard that is not the next one is a gap, unless it is the first.
LEMMA HeardKept ==
    ASSUME CaptureTypeOK, CaptureTypeOK', NumbersInv, NumbersInv', ChannelInv, [CaptureNext]_captureVars,
           \A b \in Boards : reboots[b] = 0 => HeardInv(b),
           NEW b \in Boards, reboots'[b] = 0
    PROVE  HeardInv(b)'
<1>t. /\ \A m \in published : m.boot \in Nat /\ m.seq \in Nat \ {0}
      /\ seq[b] \in Nat /\ lastSeq[b] \in Nat /\ reboots[b] \in Nat /\ gaps \in Nat
      /\ InChan(b) \subseteq published /\ Lost \subseteq published
  <2>1. \A i \in 1..Len(chan[b]) : chan[b][i] \in published
    BY ElementOfSeq DEF CaptureTypeOK
  <2>2. InChan(b) \subseteq published
    BY <2>1 DEF InChan
  <2>3. QED
    BY <2>2 DEF CaptureTypeOK, Lost
<1>1. ASSUME UNCHANGED <<chan[b], published, Lost, lastSeq[b], gaps, seq[b], reboots[b]>>
      PROVE  HeardInv(b)'
  <2>1. InChan(b)' = InChan(b) /\ HeardInv(b)
    BY <1>1 DEF InChan
  <2>2. QED
    BY <1>1, <2>1 DEF HeardInv
<1>2. CASE StepIgnores
  BY <1>1, <1>2 DEF StepIgnores, Lost
<1>3. ASSUME NEW c \in Boards, StepReboots(c) PROVE HeardInv(b)'
  <2>1. b # c
    BY <1>3, <1>t DEF StepReboots
  <2>2. QED
    BY <1>1, <1>3, <2>1 DEF StepReboots, Lost
<1>4. ASSUME NEW c \in Boards, NEW m, StepPublishes(c, m) PROVE HeardInv(b)'
  <2>1. /\ m.board = c /\ m.seq = seq[c] + 1 /\ published' = published \cup {m}
        /\ UNCHANGED <<Lost, lastSeq, gaps, reboots>>
    BY <1>4 DEF StepPublishes, Pushed, Lost
  <2>2. HeardInv(b)
    BY <2>1
  <2>3. CASE c = b
    <3>1. seq'[b] = seq[b] + 1
      BY <1>4, <2>3 DEF StepPublishes, Pushed
    <3>2. \A x : x \in InChan(b)' <=> x \in InChan(b) \cup {m}
      BY <1>4, <2>3, PushedInto DEF StepPublishes
    <3>3. m.seq > lastSeq[b] /\ lastSeq[b] <= seq'[b]
      BY <1>t, <2>1, <2>2, <2>3, <3>1 DEF HeardInv
    <3>4. QED
      BY <1>t, <2>1, <2>2, <2>3, <3>2, <3>3 DEF HeardInv
  <2>4. CASE c # b
    <3>1. seq'[b] = seq[b] /\ chan'[b] = chan[b]
      BY <1>4, <2>4 DEF StepPublishes, Pushed
    <3>2. InChan(b)' = InChan(b)
      BY <3>1 DEF InChan
    <3>3. QED
      BY <1>t, <2>1, <2>2, <2>4, <3>1, <3>2 DEF HeardInv
  <2>5. QED
    BY <2>3, <2>4
<1>5. ASSUME NEW c \in Boards, StepLoses(c) PROVE HeardInv(b)'
  <2>1. /\ Lost' = Lost \cup {chan[c][1]} /\ Popped(c)
        /\ UNCHANGED <<published, lastSeq, gaps, seq, reboots>>
    BY <1>5 DEF StepLoses, Lost
  <2>2. HeardInv(b) /\ 1 \in 1..Len(chan[c])
    BY <2>1 DEF Popped
  <2>3. chan[c][1] \in InChan(c) /\ chan[c][1].board = c
    BY <2>2 DEF InChan, ChannelInv, InOrder
  <2>4. CASE c = b
    <3>1. /\ InChan(b)' \subseteq InChan(b)
          /\ InChan(b) \subseteq InChan(b)' \cup {chan[b][1]}
      BY <2>1, <2>4, BehindHead
    <3>2. chan[b][1].seq > lastSeq[b] /\ chan[b][1].seq \in Nat
      BY <1>t, <2>2, <2>3, <2>4 DEF HeardInv
    <3>3. QED
      BY <1>t, <2>1, <2>2, <2>4, <3>1, <3>2 DEF HeardInv
  <2>5. CASE c # b
    <3>1. chan'[b] = chan[b]
      BY <2>1, <2>5 DEF Popped
    <3>2. InChan(b)' = InChan(b)
      BY <3>1 DEF InChan
    <3>3. QED
      BY <2>1, <2>2, <2>3, <2>5, <3>2 DEF HeardInv
  <2>6. QED
    BY <2>4, <2>5
<1>6. ASSUME NEW c \in Boards, StepHears(c) PROVE HeardInv(b)'
  <2> DEFINE h == chan[c][1]
  <2>1. /\ Popped(c) /\ UNCHANGED <<published, Lost, seq, reboots>>
        /\ lastSeq'[c] = h.seq /\ \A d \in Boards \ {c} : lastSeq'[d] = lastSeq[d]
        /\ gaps' = gaps + (IF Skipped(c, h.seq) THEN 1 ELSE 0)
    BY <1>6 DEF StepHears, Lost
  <2>2. HeardInv(b) /\ 1 \in 1..Len(chan[c])
    BY <2>1 DEF Popped
  <2>3. h \in InChan(c) /\ h.board = c /\ h \notin Lost /\ h \in published
    BY <2>1, <2>2 DEF InChan, ChannelInv, InOrder, Popped
  <2>4. gaps' = 0 => gaps = 0 /\ ~Skipped(c, h.seq)
    BY <1>t, <2>1
  <2>5. CASE c = b
    <3> HIDE DEF h
    <3>1. /\ InChan(b)' \subseteq InChan(b)
          /\ InChan(b) \subseteq InChan(b)' \cup {h}
          /\ \A m \in InChan(b)' : m.seq > h.seq
      BY <2>1, <2>5, BehindHead DEF h
    <3>2. h.seq > lastSeq[b] /\ h.seq \in Nat \ {0} /\ lastSeq'[b] = h.seq
      BY <1>t, <2>1, <2>2, <2>3, <2>5 DEF HeardInv
    <3>3. \A m \in published : m.board = b => m.boot = 0 /\ m.seq <= seq[b]
      BY <1>t, <2>1 DEF NumbersInv
    <3>4. \A m \in Lost : m.board = b => m.seq # h.seq
      BY <1>t, <2>3, <2>5, <3>3 DEF NumbersInv
    <3>5. ASSUME gaps' = 0, NEW m \in Lost, NEW first \in published,
                 m.board = b, m.seq < h.seq, first.board = b, first.seq < m.seq
          PROVE  first \in Lost
      <4>0. gaps = 0 /\ (lastSeq[b] = 0 \/ h.seq <= lastSeq[b] + 1)
        BY <1>t, <2>4, <2>5, <3>2, <3>5 DEF Skipped, None
      <4>1. m.seq \in Nat /\ first.seq \in Nat
        BY <1>t
      <4>2. CASE lastSeq[b] = 0
        <5>1. first \in Lost \cup InChan(b)
          BY <2>2, <3>5, <4>2 DEF HeardInv
        <5>2. ~(first.seq > h.seq) /\ first # h
          BY <3>2, <3>5, <4>1
        <5>3. QED
          BY <3>1, <5>1, <5>2
      <4>3. CASE h.seq <= lastSeq[b] + 1
        <5>1. m.seq # lastSeq[b]
          BY <2>2, <3>5 DEF HeardInv
        <5>2. m.seq < lastSeq[b]
          BY <1>t, <3>2, <3>5, <4>1, <4>3, <5>1
        <5>3. QED
          BY <2>2, <3>5, <4>0, <5>2 DEF HeardInv
      <4>4. QED
        BY <4>0, <4>2, <4>3
    <3>6. h.seq <= seq'[b]
      BY <2>1, <2>3, <2>5, <3>3
    <3>7. /\ \A m \in InChan(b)' : m.seq > lastSeq'[b]
          /\ lastSeq'[b] # 0 /\ Lost' = Lost /\ published' = published
      BY <2>1, <3>1, <3>2
    <3>8. QED
      BY <3>2, <3>4, <3>5, <3>6, <3>7 DEF HeardInv
  <2>6. CASE c # b
    <3>1. chan'[b] = chan[b]
      BY <2>1, <2>6 DEF Popped
    <3>2. InChan(b)' = InChan(b) /\ lastSeq'[b] = lastSeq[b]
      BY <2>1, <2>6, <3>1 DEF InChan
    <3>3. QED
      BY <2>1, <2>2, <2>4, <3>2 DEF HeardInv
  <2>7. QED
    BY <2>5, <2>6
<1>7. QED
  BY StepKinds, <1>2, <1>3, <1>4, <1>5, <1>6

\* And gaps misses no loss: of a board that has not rebooted, a host that counts
\* no gap has everything from the first message heard to the last one.
THEOREM NoGapNoLossHolds == CaptureSpec => []NoGapNoLoss
<1> DEFINE Heard == \A b \in Boards : reboots[b] = 0 => HeardInv(b)
<1>1. CaptureInit => Heard
  <2> SUFFICES ASSUME CaptureInit, NEW b \in Boards PROVE HeardInv(b)
    OBVIOUS
  <2>1. published = {} /\ Lost = {} /\ chan[b] = <<>> /\ lastSeq[b] = 0 /\ seq[b] = 0
    BY DEF CaptureInit, Lost, None
  <2>2. InChan(b) = {}
    BY <2>1 DEF InChan
  <2>3. QED
    BY <2>1, <2>2 DEF HeardInv
<1>2. CaptureTypeOK /\ CaptureTypeOK' /\ NumbersInv /\ NumbersInv' /\ ChannelInv /\ Heard /\ [CaptureNext]_captureVars => Heard'
  BY HeardKept
<1>3. CaptureTypeOK /\ Heard => NoGapNoLoss
  BY DEF HeardInv, NoGapNoLoss, Lost, CaptureTypeOK
<1> HIDE DEF Heard
<1>4. QED
  BY <1>1, <1>2, <1>3, TypeCorrect, ChannelCorrect, PTL DEF CaptureSpec

\* Shape, and every message accounted for.
THEOREM InvHolds == CaptureSpec => []CaptureInv
  BY TypeCorrect, DeliveriesAccountedHolds, PTL DEF CaptureInv

\* The host's gap counter tells of losses, and of all of them.
THEOREM GapsTellLossesHolds == CaptureSpec => []GapsTellLosses
  BY GapsAreLossesHolds, NoGapNoLossHolds, PTL DEF GapsTellLosses
=============================================================================
