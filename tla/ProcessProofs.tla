---------------------------- MODULE ProcessProofs ----------------------------
(***************************************************************************)
(* Proofs about Process, for every sequence of bursts, every window, count *)
(* and cooldown, any number of backups and records to a file, and any      *)
(* number of kills.  What the packets say is left to Codec: nothing here   *)
(* depends on it, except that decoding gives a sequence (DecodesToList).   *)
(*                                                                         *)
(* The log: the records kept are an interval that ends with the last one   *)
(* written (Kept), and it begins late only when the oldest file is there   *)
(* and no more files are missing below it than kills have torn (Torn,      *)
(* Deep).  The tracker: the queries it holds are the last ones seen        *)
(* (Remembered).  The watcher: what it fired last are the last alarms, and *)
(* its history is what was handled in the window (Fired, Window).          *)
(***************************************************************************)
EXTENDS Process, FiniteSetTheorems, SequenceTheorems, WellFoundedInduction, TLAPS

(***************************************************************************)
(* The log.                                                                *)
(***************************************************************************)
Record == Nat \ {0}

\* How many files there are from 1 to n, and how many records in file 0.
Full(n) == Cardinality({m \in 1..n : files[m] # Absent})
Newest == IF files[0] = Absent THEN 0 ELSE Len(files[0])

\* The log's variables have their types; a rotation has moved file n or is
\* about to, and when it is past n file n is gone.
LogShape ==
  /\ files \in [0..Backups -> Seq(Record) \cup {Absent}] /\ next \in Record /\ kills \in Nat
  /\ rotating \in {Idle, Reopen} \cup 0..Backups - 1
  /\ rotating = Idle => files[0] # Absent
  /\ rotating \in 0..Backups - 1 => files[0] # Absent /\ Len(files[0]) >= FileRecords
  /\ rotating = Reopen /\ Backups > 0 => files[0] = Absent
  /\ rotating \in 0..Backups - 2 => files[rotating + 1] = Absent
  /\ Backups = 0 => files[0] # Absent

\* No file is longer than its size and one record for each kill.
Sizes ==
  Backups > 0 =>
    /\ \A n \in Held : n > 0 => Len(files[n]) <= FileRecords + kills
    /\ files[0] # Absent => Len(files[0]) <= FileRecords + kills - (IF rotating = Idle THEN 1 ELSE 0)

\* The records of file n, and that the file that is written ends with the last.
Holds(n, r) == \E i \in DOMAIN files[n] : files[n][i] = r
Ends == files[0] # Absent => \A i \in 1..Len(files[0]) : files[0][i] = next - 1 - Len(files[0]) + i

\* The records kept are the last ones, in order; some are gone only when the
\* oldest file is there.
Ordered ==
  /\ \A n \in Held : \A i, j \in DOMAIN files[n] : i < j => files[n][i] < files[n][j]
  /\ \A n, m \in Held : m < n =>
        \A i \in DOMAIN files[n], j \in DOMAIN files[m] : files[n][i] < files[m][j]
KeptFrom(first) ==
  /\ \A r \in Nat : r \in first..next - 1 <=> \E n \in Held : Holds(n, r)
  /\ first > 1 => files[Backups] # Absent
Kept == Ordered /\ \E first \in 1..next : KeptFrom(first)

\* Below a file that is there at most one is missing for each kill, and one for
\* a rotation that has moved the file and not yet filled its place.
Torn == \A n \in 1..Backups : files[n] # Absent =>
          Full(n) + kills + (IF rotating \in 0..Backups - 1 /\ rotating + 2 <= n THEN 1 ELSE 0) >= n

\* What lies between the start of a file and the file that is written are as
\* many full files as there are.
Deep == \A n \in 1..Backups : files[n] # Absent =>
          /\ Len(files[n]) >= FileRecords
          /\ next - Newest - files[n][1] >= FileRecords * Full(n)

LogInv == LogShape /\ Sizes /\ Ends /\ Kept /\ Torn /\ Deep

----------------------------------------------------------------------------
\* The constants, each for itself.
LEMMA ConstantsTyped ==
  /\ Backups \in Nat /\ FileRecords \in Nat /\ FileRecords > 0
  /\ TrackWindow \in Nat /\ HistoryWindow \in Nat /\ Cooldown \in Nat
  /\ MaxBlocks \in Nat /\ MaxKills \in Nat /\ MaxTime \in Nat
BY ProcessAssumption

\* No file that is there is the mark of one that is not.
LEMMA AbsentIsNoFile == \A s \in Seq(Record) : s # Absent
<1> SUFFICES ASSUME Absent \in Seq(Record) PROVE FALSE
  OBVIOUS
<1>1. Len(Absent) = 1 /\ Absent[1] = -1
  BY DEF Absent
<1>2. Absent[1] \in Record
  BY <1>1, ElementOfSeq
<1>3. QED
  BY <1>1, <1>2 DEF Record

\* What the shape says of a file that is there.
LEMMA FilesAreSequences ==
  ASSUME LogShape, NEW n \in 0..Backups, files[n] # Absent
  PROVE  /\ files[n] \in Seq(Record) /\ Len(files[n]) \in Nat /\ DOMAIN files[n] = 1..Len(files[n])
         /\ \A i \in 1..Len(files[n]) : files[n][i] \in Record
<1>1. files[n] \in Seq(Record)
  BY DEF LogShape
<1>2. QED
  BY <1>1, LenProperties, ElementOfSeq

\* The same of the next state.
LEMMA FilesAreSequencesNext ==
  ASSUME LogShape', NEW n \in 0..Backups, files'[n] # Absent
  PROVE  /\ files'[n] \in Seq(Record) /\ Len(files'[n]) \in Nat /\ DOMAIN files'[n] = 1..Len(files'[n])
         /\ \A i \in 1..Len(files'[n]) : files'[n][i] \in Record
<1>1. files'[n] \in Seq(Record)
  BY DEF LogShape
<1>2. QED
  BY <1>1, LenProperties, ElementOfSeq

\* A part of the first n numbers is finite.
LEMMA PartIsFinite ==
  ASSUME NEW n \in Nat, NEW S, S \subseteq 1..n
  PROVE  IsFiniteSet(S)
<1>1. IsFiniteSet(1..n)
  BY FS_Interval
<1>2. QED
  BY <1>1, FS_Subset

\* Full counts.
LEMMA FullCounts ==
  ASSUME NEW n \in Nat
  PROVE  Full(n) \in Nat /\ Full(n) <= n
<1> DEFINE F == {m \in 1..n : files[m] # Absent}
<1>1. IsFiniteSet(1..n) /\ Cardinality(1..n) = n
  BY FS_Interval
<1>2. IsFiniteSet(F) /\ Cardinality(F) <= n
  BY <1>1, FS_Subset
<1>3. QED
  BY <1>2, FS_CardinalityType DEF Full

\* The files that are there on either side of a step, the same ones.
LEMMA FullSame ==
  ASSUME NEW n \in Nat, \A m \in 1..n : files'[m] = Absent <=> files[m] = Absent
  PROVE  Full(n)' = Full(n)
<1>1. {m \in 1..n : files'[m] # Absent} = {m \in 1..n : files[m] # Absent}
  OBVIOUS
<1>2. QED
  BY <1>1 DEF Full

\* One more.
LEMMA FullOneMore ==
  ASSUME NEW n \in Nat, NEW k \in 1..n, files[k] = Absent, files'[k] # Absent,
         \A m \in (1..n) \ {k} : files'[m] = Absent <=> files[m] = Absent
  PROVE  Full(n)' = Full(n) + 1
<1> DEFINE F == {m \in 1..n : files[m] # Absent}
<1>1. IsFiniteSet(F)
  BY PartIsFinite
<1>2. {m \in 1..n : files'[m] # Absent} = F \cup {k}
  OBVIOUS
<1>3. k \notin F
  OBVIOUS
<1>4. Cardinality(F \cup {k}) = Cardinality(F) + 1
  BY <1>1, <1>3, FS_AddElement
<1>5. QED
  BY <1>2, <1>4 DEF Full

\* One less.
LEMMA FullOneLess ==
  ASSUME NEW n \in Nat, NEW k \in 1..n, files[k] # Absent, files'[k] = Absent,
         \A m \in (1..n) \ {k} : files'[m] = Absent <=> files[m] = Absent
  PROVE  Full(n) = Full(n)' + 1
<1> DEFINE F == {m \in 1..n : files'[m] # Absent}
<1>1. IsFiniteSet(F)
  BY PartIsFinite
<1>2. {m \in 1..n : files[m] # Absent} = F \cup {k}
  OBVIOUS
<1>3. k \notin F
  OBVIOUS
<1>4. Cardinality(F \cup {k}) = Cardinality(F) + 1
  BY <1>1, <1>3, FS_AddElement
<1>5. QED
  BY <1>2, <1>4 DEF Full

\* A file moved: the next place is filled, its own is empty, as many as before.
LEMMA FullMoved ==
  ASSUME NEW n \in Nat, NEW k \in 1..n - 1,
         files[k] # Absent, files[k + 1] = Absent, files'[k] = Absent, files'[k + 1] # Absent,
         \A m \in (1..n) \ {k, k + 1} : files'[m] = Absent <=> files[m] = Absent
  PROVE  Full(n)' = Full(n)
<1> DEFINE F == {m \in 1..n : files[m] # Absent} \ {k}
           G == {m \in 1..n : files[m] # Absent}
<1>1. IsFiniteSet(G) /\ IsFiniteSet(F)
  BY PartIsFinite
<1>2. G = F \cup {k} /\ k \notin F
  OBVIOUS
<1>3. {m \in 1..n : files'[m] # Absent} = F \cup {k + 1} /\ k + 1 \notin F
  OBVIOUS
<1>4. Cardinality(G) = Cardinality(F) + 1 /\ Cardinality(F \cup {k + 1}) = Cardinality(F) + 1
  BY <1>1, <1>2, <1>3, FS_AddElement
<1>5. QED
  BY <1>3, <1>4 DEF Full

\* The next count beside this one.
LEMMA FullNext ==
  ASSUME NEW n \in Nat
  PROVE  Full(n + 1) = Full(n) + (IF files[n + 1] # Absent THEN 1 ELSE 0)
<1> DEFINE F == {m \in 1..n : files[m] # Absent}
<1>1. IsFiniteSet(F) /\ n + 1 \notin F
  BY PartIsFinite
<1>2. Cardinality(F \cup {n + 1}) = Cardinality(F) + 1
  BY <1>1, FS_AddElement
<1>3. {m \in 1..n + 1 : files[m] # Absent} = IF files[n + 1] # Absent THEN F \cup {n + 1} ELSE F
  OBVIOUS
<1>4. Full(n) = Cardinality(F) /\ Full(n) \in Nat
  BY FullCounts DEF Full
<1>5. QED
  BY <1>2, <1>3, <1>4 DEF Full

\* The same of the next state.
LEMMA FullNextNext ==
  ASSUME NEW n \in Nat
  PROVE  /\ Full(n)' \in Nat
         /\ Full(n + 1)' = Full(n)' + (IF files'[n + 1] # Absent THEN 1 ELSE 0)
<1> DEFINE F == {m \in 1..n : files'[m] # Absent}
<1>1. IsFiniteSet(F) /\ n + 1 \notin F
  BY PartIsFinite
<1>2. Cardinality(F \cup {n + 1}) = Cardinality(F) + 1 /\ Cardinality(F) \in Nat
  BY <1>1, FS_AddElement, FS_CardinalityType
<1>3. {m \in 1..n + 1 : files'[m] # Absent} = IF files'[n + 1] # Absent THEN F \cup {n + 1} ELSE F
  OBVIOUS
<1>4. Full(n)' = Cardinality(F)
  BY DEF Full
<1>5. QED
  BY <1>2, <1>3, <1>4 DEF Full

----------------------------------------------------------------------------
\* What the steps do to the log: a record is written, a file is moved, the
\* next file is opened, and the process is killed and started again.
Appends ==
  /\ rotating = Idle /\ files' = Written(next) /\ next' = next + 1 /\ kills' = kills
  /\ rotating' = IF Len(files'[0]) < FileRecords THEN Idle ELSE IF Backups = 0 THEN Reopen ELSE Backups - 1
Moves(n) ==
  /\ rotating = n /\ files' = Moved(n) /\ rotating' = (IF n = 0 THEN Reopen ELSE n - 1)
  /\ next' = next /\ kills' = kills
Reopened == files' = [files EXCEPT ![0] = IF @ = Absent THEN <<>> ELSE @]
Opens == rotating = Reopen /\ Reopened /\ rotating' = Idle /\ next' = next /\ kills' = kills
Restarts == Reopened /\ rotating' = Idle /\ next' = next /\ kills' = kills + 1

\* A record written: file 0 is longer by it.
LEMMA AppendedFile ==
  ASSUME LogShape, Appends
  PROVE  /\ files' \in [0..Backups -> Seq(Record) \cup {Absent}]
         /\ files[0] # Absent /\ files'[0] # Absent
         /\ Len(files[0]) \in Nat /\ Len(files'[0]) = Len(files[0]) + 1
         /\ \A i \in 1..Len(files[0]) : files'[0][i] = files[0][i]
         /\ files'[0][Len(files[0]) + 1] = next
         /\ \A n \in 1..Backups : files'[n] = files[n]
<1>1. 0 \in 0..Backups /\ next \in Record /\ DOMAIN files = 0..Backups
  BY ConstantsTyped DEF LogShape
<1>2. files[0] # Absent
  BY DEF LogShape, Appends
<1>3. files[0] \in Seq(Record) /\ Len(files[0]) \in Nat
  BY <1>1, <1>2, FilesAreSequences
<1>4. files'[0] = Append(files[0], next) /\ \A n \in 1..Backups : files'[n] = files[n]
  BY <1>1 DEF Appends, Written
<1>5. Append(files[0], next) \in Seq(Record)
  BY <1>1, <1>3
<1>6. Append(files[0], next) # Absent
  BY <1>5, AbsentIsNoFile
<1>7. files' \in [0..Backups -> Seq(Record) \cup {Absent}]
  BY <1>1, <1>5 DEF Appends, Written, LogShape
<1>8. /\ Len(Append(files[0], next)) = Len(files[0]) + 1
      /\ \A i \in 1..Len(files[0]) : Append(files[0], next)[i] = files[0][i]
      /\ Append(files[0], next)[Len(files[0]) + 1] = next
  BY <1>3
<1>9. QED
  BY <1>2, <1>3, <1>4, <1>6, <1>7, <1>8

\* A file opened: file 0 is there, and empty if it was not.
LEMMA ReopenedFile ==
  ASSUME LogShape, Reopened
  PROVE  /\ files' \in [0..Backups -> Seq(Record) \cup {Absent}]
         /\ files'[0] # Absent
         /\ files[0] # Absent => files'[0] = files[0]
         /\ files[0] = Absent => files'[0] = <<>> /\ Len(files'[0]) = 0 /\ DOMAIN files'[0] = {}
         /\ \A n \in 1..Backups : files'[n] = files[n]
<1>1. 0 \in 0..Backups /\ DOMAIN files = 0..Backups
  BY ConstantsTyped DEF LogShape
<1>2. <<>> \in Seq(Record) /\ Len(<<>>) = 0 /\ DOMAIN <<>> = {}
  BY EmptySeq
<1>3. <<>> # Absent
  BY <1>2, AbsentIsNoFile
<1>4. files'[0] = (IF files[0] = Absent THEN <<>> ELSE files[0]) /\ \A n \in 1..Backups : files'[n] = files[n]
  BY <1>1 DEF Reopened
<1>5. files' \in [0..Backups -> Seq(Record) \cup {Absent}]
  BY <1>1, <1>2 DEF Reopened, LogShape
<1>6. QED
  BY <1>2, <1>3, <1>4, <1>5

\* A file moved: it is now one place further, over what was there.
LEMMA MovedFile ==
  ASSUME LogShape, NEW k \in 0..Backups - 1, files' = Moved(k)
  PROVE  /\ files' \in [0..Backups -> Seq(Record) \cup {Absent}]
         /\ files'[k] = Absent
         /\ files[k] # Absent => files'[k + 1] = files[k]
         /\ files[k] = Absent => files' = files
         /\ \A n \in (0..Backups) \ {k, k + 1} : files'[n] = files[n]
<1>1. k \in 0..Backups /\ k + 1 \in 0..Backups /\ k # k + 1 /\ DOMAIN files = 0..Backups
  BY ConstantsTyped DEF LogShape
<1>2. CASE files[k] = Absent
  BY <1>1, <1>2 DEF Moved, LogShape
<1>3. CASE files[k] # Absent
  <2>1. files' = [files EXCEPT ![k + 1] = files[k], ![k] = Absent]
    BY <1>3 DEF Moved
  <2>2. files[k] \in Seq(Record) \cup {Absent}
    BY <1>1 DEF LogShape
  <2>3. files' \in [0..Backups -> Seq(Record) \cup {Absent}]
    BY <2>1, <2>2, <1>1 DEF LogShape
  <2>4. QED
    BY <2>1, <2>3, <1>1, <1>3
<1>4. QED
  BY <1>2, <1>3

----------------------------------------------------------------------------
\* The shape survives a written record, ...
LEMMA AppendKeepsShape ==
  ASSUME LogShape, Appends
  PROVE  LogShape'
<1>1. next' \in Record /\ kills' \in Nat /\ next \in Record
  BY DEF LogShape, Appends, Record
<1>2. /\ rotating' \in {Idle, Reopen} \cup 0..Backups - 1
      /\ rotating' \in 0..Backups - 1 => rotating' = Backups - 1 /\ Len(files'[0]) >= FileRecords
      /\ rotating' = Reopen => Backups = 0
  BY ConstantsTyped, AppendedFile DEF Appends, Idle, Reopen
<1>3. ~(rotating' \in 0..Backups - 2)
  BY <1>2, ConstantsTyped
<1>4. QED
  BY <1>1, <1>2, <1>3, AppendedFile DEF LogShape

\* ... a moved file, ...
LEMMA MoveKeepsShape ==
  ASSUME LogShape, NEW k \in 0..Backups - 1, Moves(k)
  PROVE  LogShape'
<1>1. files' = Moved(k) /\ rotating' = (IF k = 0 THEN Reopen ELSE k - 1) /\ next' = next /\ kills' = kills
  BY DEF Moves
<1>2. /\ rotating' \in {Idle, Reopen} \cup 0..Backups - 1 /\ rotating' # Idle
      /\ rotating' \in 0..Backups - 1 => k # 0 /\ rotating' = k - 1
      /\ rotating' = Reopen => k = 0
      /\ Backups > 0
  BY <1>1, ConstantsTyped DEF Idle, Reopen
<1>3. /\ files' \in [0..Backups -> Seq(Record) \cup {Absent}]
      /\ files'[k] = Absent
      /\ files[k] # Absent => files'[k + 1] = files[k]
      /\ files[k] = Absent => files' = files
      /\ \A n \in (0..Backups) \ {k, k + 1} : files'[n] = files[n]
  BY <1>1, MovedFile
<1>4. rotating \in 0..Backups - 1 /\ files[0] # Absent /\ Len(files[0]) >= FileRecords
  BY DEF Moves, LogShape
<1>5. k # 0 => files'[0] = files[0]
  BY <1>3, ConstantsTyped
<1>6. QED
  BY <1>1, <1>2, <1>3, <1>4, <1>5, ConstantsTyped DEF LogShape

\* ... an opened file and a restart.
LEMMA ReopenKeepsShape ==
  ASSUME LogShape, Opens \/ Restarts
  PROVE  LogShape'
<1>1. Reopened /\ rotating' = Idle /\ next' = next /\ kills' \in Nat
  BY DEF Opens, Restarts, LogShape
<1>2. QED
  BY <1>1, ReopenedFile DEF LogShape, Idle, Reopen

----------------------------------------------------------------------------
\* The sizes.
LEMMA AppendKeepsSizes ==
  ASSUME LogShape, Sizes, Appends
  PROVE  Sizes'
<1> SUFFICES ASSUME Backups > 0 PROVE Sizes'
  BY DEF Sizes
<1>1. /\ rotating = Idle /\ kills' = kills /\ kills \in Nat
      /\ rotating' = IF Len(files'[0]) < FileRecords THEN Idle ELSE Backups - 1
  BY DEF Appends, LogShape
<1>2. Len(files[0]) <= FileRecords + kills - 1 /\ Len(files[0]) \in Nat
  BY <1>1, AppendedFile DEF Sizes
<1>3. Len(files'[0]) <= FileRecords + kills' - (IF rotating' = Idle THEN 1 ELSE 0)
  BY <1>1, <1>2, AppendedFile, ConstantsTyped DEF Idle
<1>4. \A n \in Held' : n > 0 => Len(files'[n]) <= FileRecords + kills'
  BY <1>1, AppendedFile, ConstantsTyped DEF Sizes, Held
<1>5. QED
  BY <1>3, <1>4 DEF Sizes

\* A rename moves a file with what is in it, up or out of the log.
LEMMA MoveKeepsSizes ==
  ASSUME LogShape, Sizes, NEW k \in 0..Backups - 1, Moves(k)
  PROVE  Sizes'
<1>1. kills' = kills /\ kills \in Nat /\ rotating' # Idle /\ rotating # Idle /\ Backups > 0 /\ files' = Moved(k)
  BY ConstantsTyped DEF Moves, LogShape, Idle, Reopen
<1>2. ASSUME NEW n \in 0..Backups, files'[n] # Absent
      PROVE  Len(files'[n]) <= FileRecords + kills
  <2>1. CASE n = k + 1 /\ files[k] # Absent
    <3>1. files'[n] = files[k] /\ k \in 0..Backups
      BY <1>1, <2>1, MovedFile, ConstantsTyped
    <3>2. CASE k = 0
      BY <1>1, <2>1, <3>1, <3>2 DEF Sizes
    <3>3. CASE k > 0
      BY <1>1, <2>1, <3>1, <3>3 DEF Sizes, Held
    <3>4. QED
      BY <3>2, <3>3, ConstantsTyped
  <2>2. CASE ~(n = k + 1 /\ files[k] # Absent)
    <3>1. files'[n] = files[n]
      BY <1>1, <1>2, <2>2, MovedFile, ConstantsTyped
    <3>2. CASE n = 0
      BY <1>1, <1>2, <3>1, <3>2 DEF Sizes
    <3>3. CASE n > 0
      BY <1>1, <1>2, <3>1, <3>3 DEF Sizes, Held
    <3>4. QED
      BY <3>2, <3>3, ConstantsTyped
  <2>3. QED
    BY <2>1, <2>2
<1>3. /\ files'[0] # Absent => Len(files'[0]) <= FileRecords + kills
      /\ \A n \in 0..Backups : files'[n] # Absent => Len(files'[n]) <= FileRecords + kills
  BY <1>2, ConstantsTyped
<1>4. QED
  BY <1>1, <1>3, ConstantsTyped DEF Sizes, Held

\* A restart counts its kill, and reopens a file that has room for one more.
LEMMA ReopenKeepsSizes ==
  ASSUME LogShape, Sizes, Opens \/ Restarts
  PROVE  Sizes'
<1> SUFFICES ASSUME Backups > 0 PROVE Sizes'
  BY DEF Sizes
<1>1. /\ kills \in Nat /\ kills' \in Nat /\ rotating' = Idle /\ Reopened
      /\ \/ kills' = kills /\ rotating = Reopen
         \/ kills' = kills + 1
  BY DEF Opens, Restarts, LogShape
<1>2. \A n \in Held' : n > 0 => Len(files'[n]) <= FileRecords + kills'
  <2> SUFFICES ASSUME NEW n \in 1..Backups, files'[n] # Absent PROVE Len(files'[n]) <= FileRecords + kills'
    BY ConstantsTyped DEF Held
  <2>1. files'[n] = files[n] /\ n \in Held /\ n > 0
    BY <1>1, ReopenedFile, ConstantsTyped DEF Held
  <2>2. Len(files[n]) <= FileRecords + kills /\ Len(files[n]) \in Nat
    BY <2>1, FilesAreSequences DEF Sizes, Held
  <2>3. QED
    BY <1>1, <2>1, <2>2, ConstantsTyped
<1>3. Len(files'[0]) <= FileRecords + kills' - 1
  <2>1. CASE files[0] = Absent
    BY <1>1, <2>1, ReopenedFile, ConstantsTyped
  <2>2. CASE files[0] # Absent
    <3>1. files'[0] = files[0] /\ kills' = kills + 1
      BY <1>1, <2>2, ReopenedFile DEF LogShape
    <3>2. Len(files[0]) <= FileRecords + kills /\ Len(files[0]) \in Nat
      <4>1. Len(files[0]) \in Nat
        BY <2>2, FilesAreSequences, ConstantsTyped
      <4>2. Len(files[0]) <= FileRecords + kills - (IF rotating = Idle THEN 1 ELSE 0)
        BY <2>2 DEF Sizes
      <4>3. CASE rotating = Idle
        BY <4>1, <4>2, <4>3, <1>1, ConstantsTyped
      <4>4. CASE rotating # Idle
        BY <4>1, <4>2, <4>4, <1>1, ConstantsTyped
      <4>5. QED
        BY <4>3, <4>4
    <3>3. QED
      BY <1>1, <3>1, <3>2, ConstantsTyped
  <2>3. QED
    BY <2>1, <2>2
<1>4. QED
  BY <1>1, <1>2, <1>3 DEF Sizes

----------------------------------------------------------------------------
\* A sequence that ends with the number before x, and x behind it.
LEMMA OneBehind ==
  ASSUME NEW f, NEW g, NEW l \in Nat, NEW x \in Nat, g[l + 1] = x,
         \A i \in 1..l : f[i] = x - 1 - l + i, \A i \in 1..l : g[i] = f[i]
  PROVE  \A i \in 1..l + 1 : g[i] = (x + 1) - 1 - (l + 1) + i
<1> SUFFICES ASSUME NEW i \in 1..l + 1 PROVE g[i] = (x + 1) - 1 - (l + 1) + i
  OBVIOUS
<1>1. CASE i \in 1..l
  <2>1. g[i] = x - 1 - l + i
    BY <1>1
  <2>2. QED
    BY <2>1
<1>2. CASE i = l + 1
  BY <1>2
<1>3. QED
  BY <1>1, <1>2

\* The file that is written ends with the last record.
LEMMA AppendKeepsEnds ==
  ASSUME LogShape, Ends, Appends
  PROVE  Ends'
<1>1. /\ Len(files[0]) \in Nat /\ Len(files'[0]) = Len(files[0]) + 1 /\ next \in Nat /\ next' = next + 1
      /\ files[0] # Absent
      /\ \A i \in 1..Len(files[0]) : files'[0][i] = files[0][i]
      /\ files'[0][Len(files[0]) + 1] = next
  BY AppendedFile DEF Appends, LogShape, Record
<1>2. \A i \in 1..Len(files[0]) : files[0][i] = next - 1 - Len(files[0]) + i
  BY <1>1 DEF Ends
<1>3. \A i \in 1..Len(files[0]) + 1 : files'[0][i] = (next + 1) - 1 - (Len(files[0]) + 1) + i
  <2> DEFINE f == files[0]  g == files'[0]  l == Len(files[0])  x == next
  <2>1. /\ l \in Nat /\ x \in Nat /\ g[l + 1] = x
        /\ \A i \in 1..l : f[i] = x - 1 - l + i
        /\ \A i \in 1..l : g[i] = f[i]
    BY <1>1, <1>2
  <2>2. \A i \in 1..l + 1 : g[i] = (x + 1) - 1 - (l + 1) + i
    <3> HIDE DEF f, g, l, x
    <3> QED
      BY <2>1, OneBehind
  <2>3. QED
    BY <2>2
<1>4. \A i \in 1..Len(files'[0]) : files'[0][i] = next' - 1 - Len(files'[0]) + i
  BY <1>1, <1>3
<1>5. QED
  BY <1>4 DEF Ends

\* A rename of the file that is written leaves none; another does not touch it.
LEMMA MoveKeepsEnds ==
  ASSUME LogShape, Ends, NEW k \in 0..Backups - 1, Moves(k)
  PROVE  Ends'
<1>1. next' = next /\ files' = Moved(k)
  BY DEF Moves
<1>2. files'[0] = Absent \/ files'[0] = files[0]
  BY <1>1, MovedFile, ConstantsTyped
<1>3. QED
  BY <1>1, <1>2 DEF Ends

\* A new file is empty, and one that was there is as it was.
LEMMA ReopenKeepsEnds ==
  ASSUME LogShape, Ends, Opens \/ Restarts
  PROVE  Ends'
<1>1. next' = next /\ Reopened
  BY DEF Opens, Restarts
<1>2. CASE files[0] = Absent
  <2>1. Len(files'[0]) = 0
    BY <1>1, <1>2, ReopenedFile
  <2>2. QED
    BY <2>1 DEF Ends
<1>3. CASE files[0] # Absent
  <2>1. files'[0] = files[0]
    BY <1>1, <1>3, ReopenedFile
  <2>2. QED
    BY <1>1, <2>1 DEF Ends
<1>4. QED
  BY <1>2, <1>3

----------------------------------------------------------------------------
\* What is kept was written.
LEMMA KeptArePast ==
  ASSUME LogShape, Kept, NEW n \in Held, NEW i \in DOMAIN files[n]
  PROVE  files[n][i] \in Nat /\ files[n][i] > 0 /\ files[n][i] < next
<1>1. files[n][i] \in Nat /\ files[n][i] > 0
  BY FilesAreSequences DEF Held, Record
<1>2. PICK first \in 1..next : KeptFrom(first)
  BY DEF Kept
<1>3. Holds(n, files[n][i])
  BY DEF Holds
<1>4. files[n][i] \in first..next - 1
  BY <1>1, <1>2, <1>3 DEF KeptFrom
<1>5. first \in Int /\ next \in Int
  BY <1>2 DEF LogShape, Record
<1>6. QED
  BY <1>1, <1>4, <1>5

\* The new record joins the interval at its end.
LEMMA AppendKeepsKept ==
  ASSUME LogShape, Kept, Appends
  PROVE  Kept'
<1>1. /\ Len(files[0]) \in Nat /\ Len(files'[0]) = Len(files[0]) + 1 /\ next \in Nat /\ next > 0 /\ next' = next + 1
      /\ files[0] # Absent /\ files'[0] # Absent
      /\ \A i \in 1..Len(files[0]) : files'[0][i] = files[0][i]
      /\ files'[0][Len(files[0]) + 1] = next
      /\ \A n \in 1..Backups : files'[n] = files[n]
  BY AppendedFile DEF Appends, LogShape, Record
<1>2. /\ DOMAIN files[0] = 1..Len(files[0]) /\ DOMAIN files'[0] = 1..Len(files[0]) + 1 /\ LogShape'
  BY <1>1, AppendKeepsShape, FilesAreSequences, FilesAreSequencesNext, ConstantsTyped
<1>3. Held' = Held /\ 0 \in Held
  BY <1>1, ConstantsTyped DEF Held
<1> DEFINE l == Len(files[0])
<1>4. \A n \in Held : n # 0 => files'[n] = files[n]
  BY <1>1 DEF Held
<1>5. ASSUME NEW n \in Held, NEW i \in DOMAIN files'[n]
      PROVE  \/ i \in DOMAIN files[n] /\ files'[n][i] = files[n][i]
             \/ n = 0 /\ i = l + 1 /\ files'[n][i] = next
  BY <1>1, <1>2, <1>4
<1>6. \A n \in Held : \A i \in DOMAIN files[n] : i \in DOMAIN files'[n] /\ files'[n][i] = files[n][i]
  BY <1>1, <1>2, <1>4
<1>7. \A n \in Held : \A i \in DOMAIN files[n] : files[n][i] \in Nat /\ files[n][i] < next
  BY KeptArePast
<1>8. Ordered'
  <2>1. ASSUME NEW n \in Held, NEW i \in DOMAIN files'[n], NEW j \in DOMAIN files'[n], i < j
        PROVE  files'[n][i] < files'[n][j]
    <3>1. CASE i \in DOMAIN files[n] /\ j \in DOMAIN files[n]
      BY <1>6, <2>1, <3>1 DEF Kept, Ordered
    <3>2. CASE i \in DOMAIN files[n] /\ n = 0 /\ j = l + 1
      BY <1>1, <1>6, <1>7, <3>2
    <3>3. CASE n = 0 /\ i = l + 1
      BY <1>1, <1>2, <2>1, <3>3
    <3>4. QED
      BY <1>5, <3>1, <3>2, <3>3
  <2>2. ASSUME NEW n \in Held, NEW m \in Held, m < n, NEW i \in DOMAIN files'[n], NEW j \in DOMAIN files'[m]
        PROVE  files'[n][i] < files'[m][j]
    <3>1. n # 0
      BY <2>2, ConstantsTyped DEF Held
    <3>2. i \in DOMAIN files[n] /\ files'[n][i] = files[n][i]
      BY <1>4, <3>1
    <3>3. CASE j \in DOMAIN files[m] /\ files'[m][j] = files[m][j]
      BY <2>2, <3>2, <3>3 DEF Kept, Ordered
    <3>4. CASE files'[m][j] = next
      BY <3>2, <3>4, <1>7
    <3>5. QED
      BY <1>5, <3>3, <3>4
  <2>3. QED
    BY <1>3, <2>1, <2>2 DEF Ordered
<1>9. PICK first \in 1..next : KeptFrom(first)
  BY DEF Kept
<1>10. ASSUME NEW r \in Nat
       PROVE  r \in first..next' - 1 <=> \E n \in Held' : Holds(n, r)'
  <2>1. ASSUME r \in first..next' - 1 PROVE \E n \in Held' : Holds(n, r)'
    <3>1. CASE r = next
      BY <1>1, <1>2, <1>3, <3>1 DEF Holds
    <3>2. CASE r # next
      <4>1. r \in first..next - 1
        BY <1>1, <1>9, <2>1, <3>2
      <4>2. PICK n \in Held : Holds(n, r)
        BY <1>9, <4>1 DEF KeptFrom
      <4>3. Holds(n, r)'
        BY <1>6, <4>2 DEF Holds
      <4>4. QED
        BY <1>3, <4>3
    <3>3. QED
      BY <3>1, <3>2
  <2>2. ASSUME NEW n \in Held', Holds(n, r)' PROVE r \in first..next' - 1
    <3>1. PICK i \in DOMAIN files'[n] : files'[n][i] = r
      BY <2>2 DEF Holds
    <3>2. CASE i \in DOMAIN files[n] /\ files'[n][i] = files[n][i]
      <4>1. Holds(n, r)
        BY <3>1, <3>2 DEF Holds
      <4>2. r \in first..next - 1
        BY <1>3, <1>9, <4>1 DEF KeptFrom
      <4>3. QED
        BY <1>1, <1>9, <4>2
    <3>3. CASE files'[n][i] = next
      BY <1>1, <1>9, <3>1, <3>3
    <3>4. QED
      BY <1>3, <1>5, <3>2, <3>3
  <2>3. QED
    BY <2>1, <2>2
<1>11. first > 1 => files'[Backups] # Absent
  BY <1>1, <1>9, ConstantsTyped DEF KeptFrom
<1>12. KeptFrom(first)' /\ first \in 1..next'
  BY <1>1, <1>9, <1>10, <1>11 DEF KeptFrom
<1>13. QED
  BY <1>8, <1>12 DEF Kept

\* No record is in an empty file.
LEMMA ReopenKeepsKept ==
  ASSUME LogShape, Kept, Opens \/ Restarts
  PROVE  Kept'
<1>1. Reopened /\ next' = next /\ next \in Nat
  BY DEF Opens, Restarts, LogShape, Record
<1>2. ASSUME NEW n \in 0..Backups
      PROVE  \/ n \in Held /\ n \in Held' /\ files'[n] = files[n]
             \/ n \notin Held /\ n \notin Held' /\ files'[n] = files[n]
             \/ n \notin Held /\ n \in Held' /\ DOMAIN files'[n] = {}
  <2>1. CASE n = 0
    BY <1>1, <2>1, ReopenedFile DEF Held
  <2>2. CASE n # 0
    <3>1. files'[n] = files[n]
      BY <1>1, <2>2, ReopenedFile, ConstantsTyped
    <3>2. QED
      BY <3>1 DEF Held
  <2>3. QED
    BY <2>1, <2>2
<1>3. ASSUME NEW n \in Held', NEW i \in DOMAIN files'[n] PROVE n \in Held /\ files'[n] = files[n]
  BY <1>2, <1>3 DEF Held
<1>4. \A n \in Held : n \in Held' /\ files'[n] = files[n]
  BY <1>2 DEF Held
<1>5. Ordered'
  BY <1>3 DEF Kept, Ordered
<1>6. PICK first \in 1..next : KeptFrom(first)
  BY DEF Kept
<1>7. ASSUME NEW r \in Nat
      PROVE  (\E n \in Held' : Holds(n, r)') <=> (\E n \in Held : Holds(n, r))
  BY <1>3, <1>4 DEF Holds
<1>8. files[Backups] # Absent => files'[Backups] # Absent
  BY <1>4, ConstantsTyped DEF Held
<1>9. KeptFrom(first)'
  BY <1>1, <1>6, <1>7, <1>8 DEF KeptFrom
<1>10. QED
  BY <1>1, <1>5, <1>9 DEF Kept

\* A move takes each file that is there to its place or the next, in order,
\* and only the oldest is lost.
LEMMA MoveKeepsKept ==
  ASSUME LogShape, Kept, Deep, NEW k \in 0..Backups - 1, Moves(k)
  PROVE  Kept'
<1>1. files' = Moved(k) /\ next' = next /\ next \in Nat /\ rotating = k
  BY DEF Moves, LogShape, Record
<1>2. CASE files[k] = Absent
  <2>1. files' = files
    BY <1>1, <1>2, MovedFile
  <2>2. QED
    BY <1>1, <2>1 DEF Kept, Ordered, KeptFrom, Held, Holds
<1>3. CASE files[k] # Absent
  <2> DEFINE from(n) == IF n = k + 1 THEN k ELSE n
  <2>0. /\ files'[k] = Absent /\ files'[k + 1] = files[k]
        /\ \A n \in (0..Backups) \ {k, k + 1} : files'[n] = files[n]
        /\ k \in 0..Backups /\ k + 1 \in 0..Backups
    BY <1>1, <1>3, MovedFile, ConstantsTyped
  <2>1. \A n \in Held' : n # k /\ n \in 0..Backups /\ from(n) \in Held /\ files'[n] = files[from(n)]
    BY <1>3, <2>0 DEF Held
  <2>2. \A n, m \in Held' : m < n => from(m) < from(n)
    BY <2>1, ConstantsTyped
  <2>3. Ordered'
    <3> HIDE DEF from
    <3>1. ASSUME NEW n \in Held', NEW i \in DOMAIN files'[n], NEW j \in DOMAIN files'[n], i < j
          PROVE  files'[n][i] < files'[n][j]
      BY <2>1, <3>1 DEF Kept, Ordered
    <3>2. ASSUME NEW n \in Held', NEW m \in Held', m < n, NEW i \in DOMAIN files'[n], NEW j \in DOMAIN files'[m]
          PROVE  files'[n][i] < files'[m][j]
      BY <2>1, <2>2, <3>2 DEF Kept, Ordered
    <3>3. QED
      BY <3>1, <3>2 DEF Ordered
  <2>4. PICK first \in 1..next : KeptFrom(first)
    BY DEF Kept
  <2>5. \A n \in Held : n # k + 1 => \E m \in Held' : files'[m] = files[n]
    <3> SUFFICES ASSUME NEW n \in Held, n # k + 1 PROVE \E m \in Held' : files'[m] = files[n]
      OBVIOUS
    <3>1. CASE n = k
      BY <1>3, <2>0, <3>1 DEF Held
    <3>2. CASE n # k
      BY <2>0, <3>2 DEF Held
    <3>3. QED
      BY <3>1, <3>2
  <2>6. CASE files[k + 1] = Absent
    <3>1. \A r \in Nat : (\E n \in Held' : Holds(n, r)') <=> (\E n \in Held : Holds(n, r))
      <4> SUFFICES ASSUME NEW r \in Nat PROVE (\E n \in Held' : Holds(n, r)') <=> (\E n \in Held : Holds(n, r))
        OBVIOUS
      <4>1. ASSUME NEW n \in Held', Holds(n, r)' PROVE \E m \in Held : Holds(m, r)
        BY <2>1, <4>1 DEF Holds
      <4>2. ASSUME NEW n \in Held, Holds(n, r) PROVE \E m \in Held' : Holds(m, r)'
        <5>1. n # k + 1
          BY <2>6, <4>2 DEF Held
        <5>2. QED
          BY <2>5, <4>2, <5>1 DEF Holds
      <4>3. QED
        BY <4>1, <4>2
    <3>2. files[Backups] # Absent => files'[Backups] # Absent
      BY <2>0, <2>6, <1>3, ConstantsTyped
    <3>3. KeptFrom(first)'
      BY <1>1, <2>4, <3>1, <3>2 DEF KeptFrom
    <3>4. QED
      BY <1>1, <2>3, <2>4, <3>3 DEF Kept
  <2>7. CASE files[k + 1] # Absent
    <3>1. k + 1 = Backups /\ Backups \in Held
      BY <1>1, <2>0, <2>7, ConstantsTyped DEF LogShape, Held
    <3> DEFINE old == files[Backups]  l == Len(old)
    <3>2. old \in Seq(Record) /\ l \in Nat /\ DOMAIN old = 1..l
      BY <3>1, FilesAreSequences DEF Held
    <3>3. l > 0
      <4>1. l >= FileRecords
        BY <2>7, <3>1 DEF Deep
      <4>2. QED
        BY <3>2, <4>1, ConstantsTyped
    <3> DEFINE start == old[l] + 1
    <3>4. old[l] \in Nat /\ old[l] > 0 /\ old[l] < next
      BY <3>1, <3>2, <3>3, KeptArePast
    <3>5. start \in 1..next /\ start \in Nat
      BY <3>4, <1>1
    <3>6. \A i \in 1..l : old[i] \in Nat /\ old[i] <= old[l]
      <4> SUFFICES ASSUME NEW i \in 1..l PROVE old[i] \in Nat /\ old[i] <= old[l]
        OBVIOUS
      <4>1. old[i] \in Nat
        BY <3>1, <3>2, KeptArePast
      <4>2. i < l => old[i] < old[l]
        BY <3>1, <3>2, <3>3 DEF Kept, Ordered
      <4>3. QED
        BY <3>2, <3>4, <4>1, <4>2
    <3>7. \A n \in Held : n # Backups => \A i \in DOMAIN files[n] : old[l] < files[n][i]
      <4>1. \A n \in Held : n # Backups => n < Backups
        BY ConstantsTyped DEF Held
      <4>2. QED
        BY <3>1, <3>2, <3>3, <4>1 DEF Kept, Ordered
    <3> HIDE DEF start
    <3>8. ASSUME NEW r \in Nat
          PROVE  r \in start..next - 1 <=> \E n \in Held' : Holds(n, r)'
      <4>1. ASSUME r \in start..next - 1 PROVE \E n \in Held' : Holds(n, r)'
        <5>1. r > old[l]
          BY <3>4, <3>5, <4>1 DEF start
        <5>2. r \in first..next - 1
          <6>1. old[l] \in first..next - 1
            <7>1. Holds(Backups, old[l])
              BY <3>2, <3>3 DEF Holds
            <7>2. QED
              BY <2>4, <3>1, <3>4, <7>1 DEF KeptFrom
          <6>2. QED
            BY <1>1, <2>4, <3>4, <3>5, <4>1, <5>1, <6>1
        <5>3. PICK n \in Held : Holds(n, r)
          BY <2>4, <5>2 DEF KeptFrom
        <5>4. n # Backups
          BY <3>2, <3>4, <3>6, <5>1, <5>3 DEF Holds
        <5>5. QED
          BY <2>5, <3>1, <5>3, <5>4 DEF Holds
      <4>2. ASSUME NEW n \in Held', Holds(n, r)' PROVE r \in start..next - 1
        <5>1. from(n) \in Held /\ files'[n] = files[from(n)] /\ from(n) # Backups
          BY <2>1, <3>1, ConstantsTyped
        <5>2. Holds(from(n), r)
          BY <4>2, <5>1 DEF Holds
        <5>3. r \in first..next - 1
          BY <2>4, <5>1, <5>2 DEF KeptFrom
        <5>4. old[l] < r
          BY <3>7, <5>1, <5>2 DEF Holds
        <5>5. QED
          BY <1>1, <2>4, <3>4, <5>3, <5>4 DEF start
      <4>3. QED
        BY <4>1, <4>2
    <3>9. files'[Backups] # Absent
      BY <1>3, <2>0, <3>1
    <3>10. PICK s \in 1..next : s = start
      BY <3>5
    <3>11. KeptFrom(s)'
      <4>1. \A r \in Nat : r \in s..next' - 1 <=> \E n \in Held' : Holds(n, r)'
        BY <1>1, <3>8, <3>10
      <4>2. QED
        BY <3>9, <4>1 DEF KeptFrom
    <3>12. QED
      BY <1>1, <2>3, <3>10, <3>11 DEF Kept
  <2>8. QED
    BY <2>6, <2>7
<1>4. QED
  BY <1>2, <1>3

----------------------------------------------------------------------------
\* What the counts are about, as numbers.
LEMMA DeepNumbers ==
  ASSUME LogShape, Deep, NEW n \in 1..Backups, files[n] # Absent
  PROVE  /\ next \in Nat /\ kills \in Nat /\ Newest \in Nat /\ Full(n) \in Nat
         /\ files[n][1] \in Nat /\ Len(files[n]) \in Nat /\ Len(files[n]) >= FileRecords
         /\ next - Newest - files[n][1] >= FileRecords * Full(n)
<1>1. n \in 0..Backups /\ 0 \in 0..Backups /\ n \in Nat
  BY ConstantsTyped
<1>2. /\ files[n] \in Seq(Record) /\ Len(files[n]) \in Nat
      /\ \A i \in 1..Len(files[n]) : files[n][i] \in Record
  BY <1>1, FilesAreSequences
<1>3. Len(files[n]) >= FileRecords /\ next - Newest - files[n][1] >= FileRecords * Full(n)
  BY DEF Deep
<1>4. files[n][1] \in Nat
  BY <1>2, <1>3, ConstantsTyped DEF Record
<1>5. Newest \in Nat
  BY <1>1, FilesAreSequences DEF Newest
<1>6. QED
  BY <1>1, <1>2, <1>3, <1>4, <1>5, FullCounts DEF LogShape, Record

\* One more full file.
LEMMA FullTimes ==
  ASSUME NEW s \in Nat, NEW x \in Nat
  PROVE  s * x \in Nat /\ s * (x + 1) = s * x + s /\ s * 1 = s
OBVIOUS

\* No file comes or goes; a rotation that begins has moved none yet.
LEMMA AppendKeepsTorn ==
  ASSUME LogShape, Torn, Appends
  PROVE  Torn'
<1> SUFFICES ASSUME NEW n \in 1..Backups, files'[n] # Absent
             PROVE  Full(n)' + kills'
                    + (IF rotating' \in 0..Backups - 1 /\ rotating' + 2 <= n THEN 1 ELSE 0) >= n
  BY DEF Torn
<1>1. \A m \in 1..n : files'[m] = files[m]
  BY AppendedFile, ConstantsTyped
<1>2. Full(n)' = Full(n) /\ Full(n) \in Nat
  BY <1>1, FullSame, FullCounts
<1>3. Full(n) + kills >= n
  <2>1. ~(rotating \in 0..Backups - 1)
    BY DEF Appends, Idle
  <2>2. Full(n) + kills + 0 >= n
    BY <1>1, <2>1 DEF Torn
  <2>3. QED
    BY <1>2, <2>2 DEF LogShape
<1>4. ~(rotating' \in 0..Backups - 1 /\ rotating' + 2 <= n)
  <2>1. rotating' = Idle \/ rotating' = Reopen \/ rotating' = Backups - 1
    BY DEF Appends
  <2>2. QED
    BY <2>1, ConstantsTyped DEF Idle, Reopen
<1>5. kills' = kills /\ kills \in Nat
  BY DEF Appends, LogShape
<1>6. Full(n)' + kills' + 0 >= n
  BY <1>2, <1>3, <1>5
<1>7. QED
  BY <1>4, <1>6

\* What lies above the file that is written is as it was.
LEMMA AppendKeepsDeep ==
  ASSUME LogShape, Deep, Appends
  PROVE  Deep'
<1> SUFFICES ASSUME NEW n \in 1..Backups, files'[n] # Absent
             PROVE  /\ Len(files'[n]) >= FileRecords
                    /\ next' - Newest' - files'[n][1] >= FileRecords * Full(n)'
  BY DEF Deep
<1>1. \A m \in 1..n : files'[m] = files[m]
  BY AppendedFile, ConstantsTyped
<1>2. Full(n)' = Full(n) /\ files'[n] = files[n]
  BY <1>1, FullSame
<1>3. Newest' = Newest + 1 /\ next' = next + 1
  BY AppendedFile DEF Newest, Appends
<1>4. /\ next \in Nat /\ Newest \in Nat /\ Full(n) \in Nat
      /\ files[n][1] \in Nat /\ Len(files[n]) \in Nat /\ Len(files[n]) >= FileRecords
      /\ next - Newest - files[n][1] >= FileRecords * Full(n)
  BY <1>1, <1>2, DeepNumbers
<1>5. (next + 1) - (Newest + 1) - files[n][1] >= FileRecords * Full(n)
  <2> DEFINE d == FileRecords * Full(n)
  <2>1. d \in Nat
    BY <1>4, FullTimes, ConstantsTyped
  <2> HIDE DEF d
  <2>2. next - Newest - files[n][1] >= d => (next + 1) - (Newest + 1) - files[n][1] >= d
    BY <2>1, <1>4
  <2>3. QED
    BY <1>4, <2>2 DEF d
<1>6. QED
  BY <1>2, <1>3, <1>4, <1>5

\* A rotation that a kill ended may leave a gap, which the kill pays for.
LEMMA ReopenKeepsTorn ==
  ASSUME LogShape, Torn, Opens \/ Restarts
  PROVE  Torn'
<1> SUFFICES ASSUME NEW n \in 1..Backups, files'[n] # Absent
             PROVE  Full(n)' + kills'
                    + (IF rotating' \in 0..Backups - 1 /\ rotating' + 2 <= n THEN 1 ELSE 0) >= n
  BY DEF Torn
<1>1. Reopened /\ rotating' = Idle
  BY DEF Opens, Restarts
<1>2. \A m \in 1..n : files'[m] = files[m]
  BY <1>1, ReopenedFile, ConstantsTyped
<1>3. Full(n)' = Full(n) /\ Full(n) \in Nat /\ kills \in Nat
  <2>1. Full(n)' = Full(n)
    BY <1>2, FullSame
  <2>2. QED
    BY <2>1, FullCounts DEF LogShape
<1>4. Full(n) + kills + (IF rotating \in 0..Backups - 1 /\ rotating + 2 <= n THEN 1 ELSE 0) >= n
  BY <1>2 DEF Torn
<1>5. Full(n) + kills' >= n
  <2>1. CASE Opens
    <3>1. ~(rotating \in 0..Backups - 1) /\ kills' = kills
      BY <2>1 DEF Opens, Reopen
    <3>2. Full(n) + kills + 0 >= n
      BY <1>4, <3>1
    <3>3. QED
      BY <1>3, <3>1, <3>2
  <2>2. CASE Restarts
    <3>1. kills' = kills + 1
      BY <2>2 DEF Restarts
    <3>2. Full(n) + kills + 1 >= n
      <4>1. CASE rotating \in 0..Backups - 1 /\ rotating + 2 <= n
        BY <1>4, <4>1
      <4>2. CASE ~(rotating \in 0..Backups - 1 /\ rotating + 2 <= n)
        <5>1. Full(n) + kills + 0 >= n
          BY <1>4, <4>2
        <5>2. QED
          BY <5>1, <1>3
      <4>3. QED
        BY <4>1, <4>2
    <3>3. QED
      BY <1>3, <3>1, <3>2
  <2>3. QED
    BY <2>1, <2>2
<1>6. kills' \in Nat
  BY <1>3 DEF Opens, Restarts
<1>7. ~(rotating' \in 0..Backups - 1)
  BY <1>1 DEF Idle
<1>8. Full(n)' + kills' + 0 >= n
  BY <1>3, <1>5, <1>6
<1>9. QED
  BY <1>7, <1>8

\* An empty file has no records to count.
LEMMA ReopenKeepsDeep ==
  ASSUME LogShape, Deep, Opens \/ Restarts
  PROVE  Deep'
<1> SUFFICES ASSUME NEW n \in 1..Backups, files'[n] # Absent
             PROVE  /\ Len(files'[n]) >= FileRecords
                    /\ next' - Newest' - files'[n][1] >= FileRecords * Full(n)'
  BY DEF Deep
<1>1. Reopened /\ next' = next
  BY DEF Opens, Restarts
<1>2. \A m \in 1..n : files'[m] = files[m]
  BY <1>1, ReopenedFile, ConstantsTyped
<1>3. Full(n)' = Full(n) /\ files'[n] = files[n]
  BY <1>2, FullSame
<1>4. Newest' = Newest
  BY <1>1, ReopenedFile DEF Newest
<1>5. QED
  BY <1>1, <1>3, <1>4 DEF Deep

\* A file moved, seen from below: the counts up to each file that is there now.
LEMMA MoveCounts ==
  ASSUME LogShape, NEW k \in 0..Backups - 1, Moves(k), files[k] # Absent,
         NEW n \in 1..Backups, files'[n] # Absent
  PROVE  /\ n # k
         /\ n < k => files[n] # Absent /\ files'[n] = files[n] /\ Full(n)' = Full(n)
         /\ n = k + 1 => files'[n] = files[k] /\ Full(n)' = (IF k = 0 THEN 1 ELSE Full(k))
         /\ n > k + 1 => /\ files[n] # Absent /\ files'[n] = files[n]
                         /\ Full(n)' = (IF k = 0 THEN Full(n) + 1 ELSE Full(n))
<1>0. /\ files'[k] = Absent /\ files'[k + 1] = files[k] /\ files'[k + 1] # Absent
      /\ \A m \in (0..Backups) \ {k, k + 1} : files'[m] = files[m]
      /\ k \in 0..Backups /\ k + 1 \in 1..Backups /\ n \in Nat
  BY MovedFile, ConstantsTyped DEF Moves
<1>1. n # k
  BY <1>0
<1>2. ASSUME n < k
      PROVE  files[n] # Absent /\ files'[n] = files[n] /\ Full(n)' = Full(n)
  <2>1. \A m \in 1..n : files'[m] = files[m]
    BY <1>0, <1>2, ConstantsTyped
  <2>2. QED
    BY <1>0, <2>1, FullSame
<1>3. ASSUME n = k + 1
      PROVE  files'[n] = files[k] /\ Full(n)' = (IF k = 0 THEN 1 ELSE Full(k))
  <2>1. Full(k)' \in Nat /\ Full(k + 1)' = Full(k)' + 1
    BY <1>0, FullNextNext
  <2>2. CASE k = 0
    <3>1. Full(0)' = 0
      <4>1. {m \in 1..0 : files'[m] # Absent} = {}
        OBVIOUS
      <4>2. QED
        BY <4>1, FS_EmptySet DEF Full
    <3>2. QED
      BY <1>0, <1>3, <2>1, <2>2, <3>1
  <2>3. CASE k > 0
    <3>1. k \in 1..k /\ k \in Nat /\ \A m \in (1..k) \ {k} : files'[m] = files[m]
      BY <1>0, <2>3, ConstantsTyped
    <3>2. Full(k) = Full(k)' + 1
      BY <1>0, <3>1, FullOneLess
    <3>3. QED
      BY <1>0, <1>3, <2>1, <2>3, <3>2
  <2>4. QED
    BY <2>2, <2>3
<1>4. ASSUME n > k + 1
      PROVE  /\ files[n] # Absent /\ files'[n] = files[n]
             /\ Full(n)' = (IF k = 0 THEN Full(n) + 1 ELSE Full(n))
  <2>1. files[k + 1] = Absent
    <3>1. k \in 0..Backups - 2
      BY <1>4, ConstantsTyped
    <3>2. QED
      BY <3>1 DEF LogShape, Moves
  <2>2. \A m \in (1..n) \ {k, k + 1} : files'[m] = files[m]
    BY <1>0, ConstantsTyped
  <2>3. files[n] # Absent /\ files'[n] = files[n]
    BY <1>0, <1>4
  <2>4. CASE k = 0
    <3>1. k + 1 \in 1..n /\ \A m \in (1..n) \ {k + 1} : files'[m] = files[m]
      BY <1>0, <1>4, <2>2, <2>4
    <3>2. Full(n)' = Full(n) + 1
      BY <1>0, <2>1, <3>1, FullOneMore
    <3>3. QED
      BY <2>3, <2>4, <3>2
  <2>5. CASE k > 0
    <3>1. k \in 1..n - 1
      BY <1>0, <1>4, <2>5
    <3>2. Full(n)' = Full(n)
      BY <1>0, <2>1, <2>2, <3>1, FullMoved
    <3>3. QED
      BY <2>3, <2>5, <3>2
  <2>6. QED
    BY <2>4, <2>5
<1>5. QED
  BY <1>1, <1>2, <1>3, <1>4

\* A rename leaves the gap that the next one fills.
LEMMA MoveKeepsTorn ==
  ASSUME LogShape, Torn, NEW k \in 0..Backups - 1, Moves(k)
  PROVE  Torn'
<1> SUFFICES ASSUME NEW n \in 1..Backups, files'[n] # Absent
             PROVE  Full(n)' + kills'
                    + (IF rotating' \in 0..Backups - 1 /\ rotating' + 2 <= n THEN 1 ELSE 0) >= n
  BY DEF Torn
<1>0. /\ rotating = k /\ kills' = kills /\ kills \in Nat /\ n \in Nat /\ k \in Int /\ files' = Moved(k)
      /\ k = 0 => ~(rotating' \in 0..Backups - 1)
      /\ k > 0 => rotating' \in 0..Backups - 1 /\ rotating' = k - 1
  BY ConstantsTyped DEF Moves, LogShape, Reopen
<1>1. \A m \in 1..Backups : files[m] # Absent =>
        /\ Full(m) \in Nat /\ Full(m) + kills + 1 >= m
        /\ m < k + 2 => Full(m) + kills >= m
  <2> SUFFICES ASSUME NEW m \in 1..Backups, files[m] # Absent
               PROVE  /\ Full(m) \in Nat /\ Full(m) + kills + 1 >= m
                      /\ m < k + 2 => Full(m) + kills >= m
    OBVIOUS
  <2>1. Full(m) \in Nat /\ m \in Nat
    BY FullCounts, ConstantsTyped
  <2>2. Full(m) + kills + (IF k \in 0..Backups - 1 /\ k + 2 <= m THEN 1 ELSE 0) >= m
    BY <1>0 DEF Torn
  <2>3. CASE k + 2 <= m
    BY <1>0, <2>1, <2>2, <2>3
  <2>4. CASE ~(k + 2 <= m)
    <3>1. Full(m) + kills + 0 >= m
      BY <2>2, <2>4
    <3>2. QED
      BY <1>0, <2>1, <3>1, <2>4
  <2>5. QED
    BY <2>3, <2>4
<1>2. \/ Full(n)' \in Nat /\ Full(n)' + kills >= n
      \/ Full(n)' \in Nat /\ Full(n)' + kills + 1 >= n /\ k > 0 /\ k + 1 <= n
  <2>1. CASE files[k] = Absent
    <3>1. files' = files /\ k # 0
      BY <1>0, <2>1, MovedFile DEF LogShape
    <3>2. Full(n)' = Full(n) /\ files[n] # Absent
      BY <3>1, <1>0, FullSame
    <3>3. Full(n) \in Nat /\ Full(n) + kills + 1 >= n /\ (n < k + 2 => Full(n) + kills >= n)
      BY <1>1, <3>2
    <3>4. QED
      BY <1>0, <3>1, <3>2, <3>3
  <2>2. CASE files[k] # Absent
    <3>0. /\ n # k
          /\ n < k => files[n] # Absent /\ Full(n)' = Full(n)
          /\ n = k + 1 => Full(n)' = (IF k = 0 THEN 1 ELSE Full(k))
          /\ n > k + 1 => files[n] # Absent /\ Full(n)' = (IF k = 0 THEN Full(n) + 1 ELSE Full(n))
      BY <2>2, MoveCounts
    <3>1. CASE n < k
      BY <1>0, <1>1, <3>0, <3>1
    <3>2. CASE n = k + 1 /\ k = 0
      BY <1>0, <3>0, <3>2
    <3>3. CASE n = k + 1 /\ k > 0
      <4>1. Full(k) \in Nat /\ Full(k) + kills >= k
        BY <1>0, <1>1, <2>2, <3>3, ConstantsTyped
      <4>2. QED
        BY <1>0, <3>0, <3>3, <4>1
    <3>4. CASE n > k + 1
      <4>1. Full(n) \in Nat /\ Full(n) + kills + 1 >= n
        BY <1>1, <3>0, <3>4
      <4>2. CASE k = 0
        <5>1. Full(n)' = Full(n) + 1
          BY <3>0, <3>4, <4>2
        <5>2. QED
          BY <1>0, <4>1, <5>1
      <4>3. CASE k > 0
        <5>1. Full(n)' = Full(n)
          BY <3>0, <3>4, <4>3
        <5>2. QED
          BY <1>0, <4>1, <4>3, <3>4, <5>1
      <4>4. QED
        BY <4>2, <4>3, <1>0
    <3>5. QED
      BY <1>0, <3>0, <3>1, <3>2, <3>3, <3>4
  <2>3. QED
    BY <2>1, <2>2
<1>3. CASE Full(n)' \in Nat /\ Full(n)' + kills >= n
  <2>1. CASE rotating' \in 0..Backups - 1 /\ rotating' + 2 <= n
    <3>1. Full(n)' + kills' + 1 >= n
      BY <1>0, <1>3
    <3>2. QED
      BY <2>1, <3>1
  <2>2. CASE ~(rotating' \in 0..Backups - 1 /\ rotating' + 2 <= n)
    <3>1. Full(n)' + kills' + 0 >= n
      BY <1>0, <1>3
    <3>2. QED
      BY <2>2, <3>1
  <2>3. QED
    BY <2>1, <2>2
<1>4. CASE Full(n)' \in Nat /\ Full(n)' + kills + 1 >= n /\ k > 0 /\ k + 1 <= n
  <2>1. rotating' \in 0..Backups - 1 /\ rotating' + 2 <= n
    <3>1. (k - 1) + 2 <= n
      BY <1>0, <1>4
    <3>2. QED
      BY <1>0, <1>4, <3>1
  <2>2. Full(n)' + kills' + 1 >= n
    BY <1>0, <1>4
  <2>3. QED
    BY <2>1, <2>2
<1>5. QED
  BY <1>2, <1>3, <1>4

\* The file that was full is one more, when it is the one that was written.
LEMMA MoveKeepsDeep ==
  ASSUME LogShape, Ends, Deep, NEW k \in 0..Backups - 1, Moves(k)
  PROVE  Deep'
<1> SUFFICES ASSUME NEW n \in 1..Backups, files'[n] # Absent
             PROVE  /\ Len(files'[n]) >= FileRecords
                    /\ next' - Newest' - files'[n][1] >= FileRecords * Full(n)'
  BY DEF Deep
<1>0. files' = Moved(k) /\ next' = next /\ next \in Nat /\ files[0] # Absent /\ Len(files[0]) >= FileRecords
  BY DEF Moves, LogShape, Record
<1>1. CASE files[k] = Absent
  <2>1. files' = files
    BY <1>0, <1>1, MovedFile
  <2>2. Full(n)' = Full(n) /\ Newest' = Newest
    BY <2>1 DEF Full, Newest
  <2>3. QED
    BY <1>0, <2>1, <2>2 DEF Deep
<1>2. CASE files[k] # Absent /\ k > 0
  <2>1. files'[0] = files[0]
    BY <1>0, <1>2, MovedFile, ConstantsTyped
  <2>2. Newest' = Newest
    BY <2>1 DEF Newest
  <2>3. \E m \in 1..Backups : files[m] # Absent /\ files'[n] = files[m] /\ Full(n)' = Full(m)
    <3>1. CASE n = k + 1
      BY <1>2, <3>1, MoveCounts, ConstantsTyped
    <3>2. CASE n # k + 1
      BY <1>2, <3>2, MoveCounts, ConstantsTyped
    <3>3. QED
      BY <3>1, <3>2
  <2>4. QED
    BY <1>0, <2>2, <2>3 DEF Deep
<1>3. CASE files[k] # Absent /\ k = 0
  <2>1. files'[0] = Absent
    BY <1>0, <1>3, MovedFile
  <2>2. Newest' = 0 /\ Newest = Len(files[0])
    BY <2>1, <1>0 DEF Newest
  <2>3. Len(files[0]) \in Nat /\ FileRecords \in Nat /\ FileRecords > 0
    BY <1>0, FilesAreSequences, ConstantsTyped
  <2>4. CASE n = 1
    <3>1. files'[n] = files[0] /\ Full(n)' = 1
      BY <1>3, <2>4, MoveCounts
    <3>2. files[0][1] = next - 1 - Len(files[0]) + 1
      <4>1. 1 \in 1..Len(files[0])
        BY <1>0, <2>3
      <4>2. QED
        BY <1>0, <4>1 DEF Ends
    <3>3. next - 0 - files[0][1] >= FileRecords * 1
      BY <1>0, <2>3, <3>2
    <3>4. QED
      BY <1>0, <2>2, <3>1, <3>3
  <2>5. CASE n # 1
    <3>1. files'[n] = files[n] /\ files[n] # Absent /\ Full(n)' = Full(n) + 1
      <4>1. n > k + 1
        BY <1>3, <2>5
      <4>2. QED
        BY <4>1, <1>3, MoveCounts
    <3>2. /\ Full(n) \in Nat /\ files[n][1] \in Nat /\ Len(files[n]) >= FileRecords
          /\ next - Len(files[0]) - files[n][1] >= FileRecords * Full(n)
      BY <2>2, <3>1, DeepNumbers
    <3> DEFINE d == FileRecords * Full(n)
    <3>3. d \in Nat /\ FileRecords * (Full(n) + 1) = d + FileRecords
      BY <2>3, <3>2, FullTimes
    <3>4. next - 0 - files[n][1] >= d + FileRecords
      <4> HIDE DEF d
      <4>1. next - Len(files[0]) - files[n][1] >= d
        BY <3>2 DEF d
      <4>2. \A x, l, f, s \in Nat : x - l - f >= d /\ l >= s => x - 0 - f >= d + s
        BY <3>3
      <4>3. QED
        BY <1>0, <2>3, <3>2, <4>1, <4>2
    <3>5. QED
      BY <1>0, <2>2, <3>1, <3>2, <3>3, <3>4
  <2>6. QED
    BY <2>4, <2>5
<1>4. QED
  BY <1>1, <1>2, <1>3, ConstantsTyped

----------------------------------------------------------------------------
\* Every step of the process does one of these to the log, or nothing.
LogMoves ==
  \/ Appends \/ (\E k \in 0..Backups - 1 : Moves(k)) \/ Opens \/ Restarts
  \/ UNCHANGED <<files, next, rotating, kills>>
\* Each step is one of the log's few moves or does not touch it.
LEMMA StepsMoveTheLog ==
  ASSUME LogShape, [Next]_vars
  PROVE  LogMoves
<1>1. CASE \E b \in DOMAIN Burst, t \in stamp..MaxTime : Arrive(b, t)
  BY <1>1 DEF Arrive, log, LogMoves
<1>2. CASE Handle
  BY <1>2 DEF Handle, Appends, LogMoves
<1>3. CASE Rotate
  <2>1. next' = next /\ kills' = kills
    BY <1>3 DEF Rotate
  <2>2. CASE rotating = Reopen
    BY <1>3, <2>1, <2>2 DEF Rotate, Opens, Reopened, LogMoves
  <2>3. CASE rotating # Reopen
    <3>1. rotating \in 0..Backups - 1
      BY <1>3, <2>3 DEF Rotate, LogShape
    <3>2. files' = Moved(rotating) /\ rotating' = IF rotating = 0 THEN Reopen ELSE rotating - 1
      BY <1>3, <2>3 DEF Rotate
    <3>3. Moves(rotating)
      BY <2>1, <3>2 DEF Moves
    <3>4. QED
      BY <3>1, <3>3 DEF LogMoves
  <2>4. QED
    BY <2>2, <2>3
<1>4. CASE Kill
  BY <1>4 DEF Kill, Forget, Restarts, Reopened, LogMoves
<1>5. CASE UNCHANGED vars
  BY <1>5 DEF vars, log, LogMoves
<1>6. QED
  BY <1>1, <1>2, <1>3, <1>4, <1>5 DEF Next

\* The log's invariant holds at first: one empty file, nothing written.
LEMMA LogInvInit == Init => LogInv
<1> SUFFICES ASSUME Init PROVE LogInv
  OBVIOUS
<1>1. /\ files = [n \in 0..Backups |-> IF n = 0 THEN <<>> ELSE Absent] /\ next = 1 /\ rotating = Idle /\ kills = 0
  BY DEF Init
<1>2. <<>> \in Seq(Record) /\ Len(<<>>) = 0 /\ DOMAIN <<>> = {} /\ <<>> # Absent
  <2>1. <<>> \in Seq(Record) /\ Len(<<>>) = 0
    BY EmptySeq
  <2>2. DOMAIN <<>> = {}
    OBVIOUS
  <2>3. QED
    BY <2>1, <2>2, AbsentIsNoFile
<1>3. 0 \in 0..Backups /\ files[0] = <<>> /\ \A n \in 1..Backups : files[n] = Absent
  BY <1>1, ConstantsTyped
<1>4. LogShape
  <2>1. files \in [0..Backups -> Seq(Record) \cup {Absent}]
    BY <1>1, <1>2
  <2>2. QED
    BY <1>1, <1>2, <1>3, <2>1, ConstantsTyped DEF LogShape, Record, Idle, Reopen
<1>5. Held = {0}
  BY <1>2, <1>3, ConstantsTyped DEF Held
<1>6. Sizes
  <2>1. Len(files[0]) <= FileRecords + kills - 1
    BY <1>1, <1>2, <1>3, ConstantsTyped
  <2>2. QED
    BY <1>1, <1>5, <2>1 DEF Sizes
<1>7. Ends
  BY <1>2, <1>3 DEF Ends
<1>8. Kept
  <2>1. Ordered
    BY <1>2, <1>3, <1>5 DEF Ordered
  <2>2. KeptFrom(1)
    <3>1. \A r \in Nat : ~(r \in 1..next - 1) /\ ~(\E n \in Held : Holds(n, r))
      BY <1>1, <1>2, <1>3, <1>5 DEF Holds
    <3>2. QED
      BY <3>1 DEF KeptFrom
  <2>3. QED
    BY <1>1, <2>1, <2>2 DEF Kept
<1>9. Torn /\ Deep
  BY <1>3 DEF Torn, Deep
<1>10. QED
  BY <1>4, <1>6, <1>7, <1>8, <1>9 DEF LogInv

\* Each step keeps it.
LEMMA LogInvStep == LogInv /\ [Next]_vars => LogInv'
<1> SUFFICES ASSUME LogInv, [Next]_vars PROVE LogInv'
  OBVIOUS
<1>0. LogShape /\ Sizes /\ Ends /\ Kept /\ Torn /\ Deep
  BY DEF LogInv
<1>1. LogMoves
  BY <1>0, StepsMoveTheLog
<1>2. CASE Appends
  BY <1>0, <1>2, AppendKeepsShape, AppendKeepsSizes, AppendKeepsEnds, AppendKeepsKept,
     AppendKeepsTorn, AppendKeepsDeep DEF LogInv
<1>3. ASSUME NEW k \in 0..Backups - 1, Moves(k) PROVE LogInv'
  BY <1>0, <1>3, MoveKeepsShape, MoveKeepsSizes, MoveKeepsEnds, MoveKeepsKept, MoveKeepsTorn,
     MoveKeepsDeep DEF LogInv
<1>4. CASE Opens \/ Restarts
  BY <1>0, <1>4, ReopenKeepsShape, ReopenKeepsSizes, ReopenKeepsEnds, ReopenKeepsKept,
     ReopenKeepsTorn, ReopenKeepsDeep DEF LogInv
<1>5. CASE UNCHANGED <<files, next, rotating, kills>>
  BY <1>0, <1>5 DEF LogInv, LogShape, Sizes, Ends, Kept, Ordered, KeptFrom, Holds, Held, Torn, Deep, Full, Newest
<1>6. QED
  BY <1>1, <1>2, <1>3, <1>4, <1>5 DEF LogMoves

\* The lesser of two numbers.
LEMMA LeastOfTwo ==
  ASSUME NEW a \in Int, NEW b \in Int
  PROVE  Least({a, b}) \in Int /\ Least({a, b}) <= a /\ Least({a, b}) <= b /\ Least({a, b}) \in {a, b}
<1>1. \E x \in {a, b} : \A y \in {a, b} : x <= y
  OBVIOUS
<1>2. QED
  BY <1>1 DEF Least

\* A factor keeps the order.
LEMMA TimesInOrder ==
  ASSUME NEW s \in Nat, NEW x \in Int, NEW y \in Int, x <= y
  PROVE  s * x \in Int /\ s * y \in Int /\ s * x <= s * y
<1>1. y - x \in Nat
  OBVIOUS
<1>2. s * (y - x) \in Nat
  BY <1>1
<1>3. s * (y - x) = s * y - s * x /\ s * x \in Int /\ s * y \in Int
  OBVIOUS
<1>4. QED
  BY <1>2, <1>3

\* From the invariant: as many records are kept as the property says.
LEMMA EnoughIsKept ==
  ASSUME LogInv, Backups > 0, NEW first \in 1..next, first > 1, KeptFrom(first)
  PROVE  next - first >= FileRecords * (Backups - kills)
<1>0. LogShape /\ Kept /\ Torn /\ Deep
  BY DEF LogInv
<1>1. Backups \in 1..Backups /\ files[Backups] # Absent /\ Backups \in Nat /\ FileRecords \in Nat /\ FileRecords > 0
  BY ConstantsTyped DEF KeptFrom
<1>2. /\ next \in Nat /\ kills \in Nat /\ Newest \in Nat /\ Full(Backups) \in Nat
      /\ files[Backups][1] \in Nat /\ Len(files[Backups]) \in Nat /\ Len(files[Backups]) >= FileRecords
      /\ next - Newest - files[Backups][1] >= FileRecords * Full(Backups)
  BY <1>0, <1>1, DeepNumbers
<1>3. first <= files[Backups][1] /\ first \in Nat
  <2>1. Backups \in Held /\ 1 \in DOMAIN files[Backups]
    BY <1>0, <1>1, <1>2, FilesAreSequences DEF Held
  <2>2. files[Backups][1] \in first..next - 1
    BY <1>2, <2>1 DEF KeptFrom, Holds
  <2>3. QED
    BY <1>2, <2>2
<1> DEFINE full == Full(Backups)
           torn == IF rotating \in 0..Backups - 1 /\ rotating + 2 <= Backups THEN 1 ELSE 0
<1>4. full + kills + torn >= Backups
  BY <1>0, <1>1 DEF Torn
<1>5. CASE torn = 1
  <2>1. Newest >= FileRecords
    BY <1>0, <1>5 DEF LogShape, Newest
  <2>2. Backups - kills <= full + 1 /\ full \in Nat
    <3> HIDE DEF full, torn
    <3> QED
      BY <1>1, <1>2, <1>4, <1>5 DEF full
  <2>3. FileRecords * (Backups - kills) <= FileRecords * (full + 1) /\ FileRecords * (Backups - kills) \in Int
    <3> HIDE DEF full
    <3> QED
      BY <1>1, <1>2, <2>2, TimesInOrder
  <2>4. FileRecords * (full + 1) = FileRecords * full + FileRecords /\ FileRecords * full \in Nat
    <3> HIDE DEF full
    <3> QED
      BY <1>1, <2>2, FullTimes
  <2>5. next - Newest - files[Backups][1] >= FileRecords * full
    BY <1>2
  <2>6. \A a, b \in Int : b <= a + FileRecords /\ next - Newest - files[Backups][1] >= a => next - first >= b
    BY <1>1, <1>2, <1>3, <2>1
  <2>7. QED
    BY <2>3, <2>4, <2>5, <2>6
<1>6. CASE torn = 0
  <2>2. Backups - kills <= full /\ full \in Nat
    <3> HIDE DEF full, torn
    <3> QED
      BY <1>1, <1>2, <1>4, <1>6 DEF full
  <2>3. FileRecords * (Backups - kills) <= FileRecords * full /\ FileRecords * (Backups - kills) \in Int
        /\ FileRecords * full \in Int
    <3> HIDE DEF full
    <3> QED
      BY <1>1, <1>2, <2>2, TimesInOrder
  <2>5. next - Newest - files[Backups][1] >= FileRecords * full
    BY <1>2
  <2>6. \A a, b \in Int : b <= a /\ next - Newest - files[Backups][1] >= a => next - first >= b
    BY <1>1, <1>2, <1>3
  <2>7. QED
    BY <2>3, <2>5, <2>6
<1>7. QED
  BY <1>5, <1>6

\* With the files counted between it and the last record, the oldest file
\* begins where the promise says.
LEMMA LogInvTellsTheTail == LogInv => RotationKeepsTheTail
<1> SUFFICES ASSUME LogInv PROVE RotationKeepsTheTail
  OBVIOUS
<1>0. LogShape /\ Sizes /\ Kept /\ Ordered /\ next \in Nat /\ kills \in Nat
  BY DEF LogInv, Kept, LogShape, Record
<1>1. PICK first \in 1..next : KeptFrom(first)
  BY <1>0 DEF Kept
<1>2. UNION {ToSet(files[n]) : n \in Held} = first..next - 1
  <2>1. ASSUME NEW r \in UNION {ToSet(files[n]) : n \in Held} PROVE r \in first..next - 1
    <3>1. PICK n \in Held : r \in ToSet(files[n])
      BY <2>1
    <3>2. PICK i \in DOMAIN files[n] : r = files[n][i]
      BY <3>1 DEF ToSet
    <3>3. r \in Nat /\ Holds(n, r)
      BY <1>0, <3>2, KeptArePast DEF Holds
    <3>4. QED
      BY <1>1, <3>3 DEF KeptFrom
  <2>2. ASSUME NEW r \in first..next - 1 PROVE r \in UNION {ToSet(files[n]) : n \in Held}
    <3>1. r \in Nat
      BY <1>0, <1>1
    <3>2. PICK n \in Held : Holds(n, r)
      BY <1>1, <2>2, <3>1 DEF KeptFrom
    <3>3. r \in ToSet(files[n])
      BY <3>2 DEF Holds, ToSet
    <3>4. QED
      BY <3>3
  <2>3. QED
    BY <2>1, <2>2
<1>3. ASSUME Backups > 0 PROVE next - first >= Least({next - 1, FileRecords * (Backups - kills)})
  <2> DEFINE d == FileRecords * (Backups - kills)
  <2>1. d \in Int
    <3>1. Backups - kills \in Int
      BY <1>0, ConstantsTyped
    <3>2. QED
      BY <3>1, ConstantsTyped, TimesInOrder
  <2>2. first = 1 \/ next - first >= d
    <3>1. first > 1 => next - first >= d
      BY <1>1, <1>3, EnoughIsKept
    <3>2. QED
      BY <1>0, <1>1, <3>1
  <2>3. Least({next - 1, d}) \in Int /\ Least({next - 1, d}) <= next - 1 /\ Least({next - 1, d}) <= d
    <3> HIDE DEF d
    <3> QED
      BY <1>0, <2>1, LeastOfTwo
  <2>4. next - first >= Least({next - 1, d})
    <3> DEFINE e == Least({next - 1, d})
    <3> HIDE DEF d, e
    <3>1. e \in Int /\ e <= next - 1 /\ e <= d
      BY <2>3 DEF e
    <3>2. next - first >= e
      BY <1>0, <1>1, <2>1, <2>2, <3>1
    <3>3. QED
      BY <3>2 DEF e
  <2>5. QED
    BY <2>4
<1>4. ASSUME Backups > 0 PROVE \A n \in Held : Len(files[n]) <= FileRecords + kills
  <2> SUFFICES ASSUME NEW n \in Held PROVE Len(files[n]) <= FileRecords + kills
    OBVIOUS
  <2>1. CASE n > 0
    BY <1>0, <1>4, <2>1 DEF Sizes
  <2>2. CASE n = 0
    <3>1. files[0] # Absent /\ Len(files[0]) \in Nat
      BY <1>0, <2>2, FilesAreSequences DEF Held
    <3>2. Len(files[0]) <= FileRecords + kills - (IF rotating = Idle THEN 1 ELSE 0)
      BY <1>0, <1>4, <3>1 DEF Sizes
    <3>3. CASE rotating = Idle
      BY <1>0, <2>2, <3>1, <3>2, <3>3, ConstantsTyped
    <3>4. CASE rotating # Idle
      BY <1>0, <2>2, <3>1, <3>2, <3>4, ConstantsTyped
    <3>5. QED
      BY <3>3, <3>4
  <2>3. QED
    BY <2>1, <2>2, ConstantsTyped DEF Held
<1>5. QED
  BY <1>0, <1>1, <1>2, <1>3, <1>4 DEF RotationKeepsTheTail, Ordered

\* Read from the oldest backup to the file being written, the log is the last
\* records, in order, each once, wherever the process was killed; a kill costs
\* at most one file of them, and no file outgrows its size by more than kills.
THEOREM LogKeepsTheTail == Spec => []RotationKeepsTheTail
<1>1. Init => LogInv
  BY LogInvInit
<1>2. LogInv /\ [Next]_vars => LogInv'
  BY LogInvStep
<1>3. LogInv => RotationKeepsTheTail
  BY LogInvTellsTheTail
<1>4. QED
  BY <1>1, <1>2, <1>3, PTL DEF Spec

(***************************************************************************)
(* The command tracker.                                                    *)
(***************************************************************************)
IsList(s) == s \in Seq(ToSet(s))

\* Of a list one can say what Append makes of it, whatever its elements are.
LEMMA AppendToList ==
  ASSUME NEW s, NEW e, IsList(s)
  PROVE  /\ IsList(Append(s, e)) /\ Len(s) \in Nat /\ Len(Append(s, e)) = Len(s) + 1
         /\ DOMAIN s = 1..Len(s) /\ DOMAIN Append(s, e) = 1..Len(s) + 1
         /\ \A i \in 1..Len(s) : Append(s, e)[i] = s[i]
         /\ Append(s, e)[Len(s) + 1] = e
<1> DEFINE T == ToSet(s) \cup {e}
<1>1. s \in Seq(T) /\ e \in T
  <2>1. s \in Seq(ToSet(s)) /\ ToSet(s) \subseteq T
    BY DEF IsList
  <2>2. QED
    BY <2>1, SeqMonotonic
<1>2. /\ Append(s, e) \in Seq(T) /\ Len(s) \in Nat /\ Len(Append(s, e)) = Len(s) + 1
      /\ DOMAIN s = 1..Len(s) /\ DOMAIN Append(s, e) = 1..Len(s) + 1
      /\ \A i \in 1..Len(s) : Append(s, e)[i] = s[i]
      /\ Append(s, e)[Len(s) + 1] = e
  <2> HIDE DEF T
  <2> QED
    BY <1>1
<1> DEFINE a == Append(s, e)
<1>3. a \in [1..Len(s) + 1 -> ToSet(a)]
  <2>1. a \in [1..Len(s) + 1 -> T]
    BY <1>2, LenProperties
  <2>2. \A i \in 1..Len(s) + 1 : a[i] \in ToSet(a)
    BY <1>2 DEF ToSet
  <2> HIDE DEF a, T
  <2>3. QED
    BY <2>1, <2>2
<1>4. Len(s) + 1 \in Nat
  BY <1>2
<1>5. a \in Seq(ToSet(a))
  <2> HIDE DEF a
  <2> QED
    BY <1>3, <1>4
<1>6. QED
  BY <1>2, <1>5 DEF IsList

\* The empty list.
LEMMA EmptyIsList == IsList(<<>>) /\ Len(<<>>) = 0 /\ DOMAIN <<>> = {}
<1>1. <<>> \in Seq(ToSet(<<>>)) /\ Len(<<>>) = 0
  BY EmptySeq
<1>2. QED
  BY <1>1 DEF IsList

\* Query j of the packets S is the last one with its key.
Latest(S, j) ==
  /\ j \in DOMAIN S /\ ~S[j].ack
  /\ \A k \in DOMAIN S : ~S[k].ack /\ S[k].key = S[j].key => k <= j

\* The packets seen are in the order of their times, none later than t.
Timed(S, t) ==
  /\ \A i \in DOMAIN S : S[i].at \in Nat /\ S[i].at <= t
  /\ \A i, j \in DOMAIN S : i < j => S[i].at <= S[j].at

\* What the queries Q say of the packets S at time t.
Remembered(Q, S, t) ==
  /\ \A q, x \in Q : q.key = x.key => q = x
  /\ \A q \in Q : \E j \in DOMAIN S :
        Latest(S, j) /\ S[j].key = q.key /\ S[j].at = q.at /\ S[j].table = q.table
  /\ \A j \in DOMAIN S : Latest(S, j) /\ t - S[j].at <= TrackWindow =>
        \E q \in Q : q.key = S[j].key /\ q.at = S[j].at /\ q.table = S[j].table

\* The queries before packet i that can explain it, and that an ACK is read
\* in the table of the last of them.
Asked(S, i) == {j \in 1..i - 1 : ~S[j].ack /\ S[j].key = S[i].key /\ S[i].at - S[j].at <= TrackWindow}
Read(S, i) ==
  S[i].ack => IF Asked(S, i) = {} THEN S[i].table = "unknown"
              ELSE \E j \in Asked(S, i) : S[i].table = S[j].table /\ \A k \in Asked(S, i) : k <= j

Tracks(Q, S, t) ==
  t \in Nat /\ IsList(S) /\ Timed(S, t) /\ Remembered(Q, S, t) /\ \A i \in DOMAIN S : Read(S, i)

\* Of some of the first n numbers one is the greatest.
LEMMA GreatestExists ==
  ASSUME NEW n \in Nat, NEW S, S \subseteq 1..n, S # {}
  PROVE  \E m \in S : \A k \in S : k <= m
<1> DEFINE D == {n - k : k \in S}
<1> DEFINE Less == {r \in Nat \X Nat : r[1] < r[2]}
<1>1. D \subseteq Nat /\ D # {}
  OBVIOUS
<1>2. IsWellFoundedOn(Less, Nat)
  BY NatLessThanWellFounded DEF OpToRel
<1>3. PICK d \in D : \A e \in D : ~(<<e, d>> \in Less)
  <2> HIDE DEF D, Less
  <2> QED
    BY <1>1, <1>2, WFMin
<1>4. PICK m \in S : d = n - m
  BY <1>3
<1>5. ASSUME NEW k \in S PROVE k <= m
  <2>1. n - k \in D /\ n - k \in Nat /\ n - m \in Nat
    BY <1>1
  <2>2. ~(<<n - k, n - m>> \in Less)
    BY <1>3, <1>4, <2>1
  <2>3. ~(n - k < n - m)
    BY <2>1, <2>2
  <2>4. k \in Nat /\ m \in Nat
    OBVIOUS
  <2>5. QED
    BY <2>3, <2>4
<1>6. QED
  BY <1>5

\* Time passes: queries that are too old are forgotten, and no ACK asks for them.
LEMMA Aged ==
  ASSUME NEW Q, NEW S, NEW t, NEW u \in Nat, Tracks(Q, S, t), t <= u
  PROVE  Tracks(Live(Q, u), S, u) /\ \A q \in Live(Q, u) : u - q.at <= TrackWindow
<1>1. t \in Nat /\ Timed(S, t) /\ Remembered(Q, S, t)
  BY DEF Tracks
<1>2. Timed(S, u)
  BY <1>1 DEF Timed
<1>3. Live(Q, u) \subseteq Q /\ \A q \in Live(Q, u) : u - q.at <= TrackWindow
  BY DEF Live
<1>4. ASSUME NEW j \in DOMAIN S, Latest(S, j), u - S[j].at <= TrackWindow
      PROVE  \E q \in Live(Q, u) : q.key = S[j].key /\ q.at = S[j].at /\ q.table = S[j].table
  <2>1. S[j].at \in Nat
    BY <1>1 DEF Timed
  <2>2. t - S[j].at <= TrackWindow
    BY <1>1, <1>4, <2>1, ConstantsTyped
  <2>3. PICK q \in Q : q.key = S[j].key /\ q.at = S[j].at /\ q.table = S[j].table
    BY <1>1, <1>4, <2>2 DEF Remembered
  <2>4. q \in Live(Q, u)
    BY <1>4, <2>3 DEF Live
  <2>5. QED
    BY <2>3, <2>4
<1>5. Remembered(Live(Q, u), S, u)
  BY <1>1, <1>3, <1>4 DEF Remembered
<1>6. QED
  BY <1>2, <1>3, <1>5 DEF Tracks

\* One more packet seen: what was said of the others stays true.
LEMMA OneMoreSeen ==
  ASSUME NEW S, NEW e, NEW t, IsList(S), Timed(S, t), t \in Nat, e.at = t,
         \A i \in DOMAIN S : Read(S, i)
  PROVE  /\ IsList(Append(S, e)) /\ Timed(Append(S, e), t)
         /\ \A i \in DOMAIN S : Read(Append(S, e), i)
         /\ Asked(Append(S, e), Len(S) + 1)
              = {j \in DOMAIN S : ~S[j].ack /\ S[j].key = e.key /\ t - S[j].at <= TrackWindow}
<1> DEFINE A == Append(S, e)  l == Len(S)
<1>1. /\ IsList(A) /\ l \in Nat /\ DOMAIN S = 1..l /\ DOMAIN A = 1..l + 1
      /\ \A i \in 1..l : A[i] = S[i]
      /\ A[l + 1] = e
  BY AppendToList
<1> HIDE DEF A, l
<1>2. Timed(A, t)
  <2>1. ASSUME NEW i \in DOMAIN A PROVE A[i].at \in Nat /\ A[i].at <= t
    <3>1. CASE i \in 1..l
      BY <1>1, <3>1 DEF Timed
    <3>2. CASE i = l + 1
      BY <1>1, <3>2
    <3>3. QED
      BY <1>1, <3>1, <3>2
  <2>2. ASSUME NEW i \in DOMAIN A, NEW j \in DOMAIN A, i < j PROVE A[i].at <= A[j].at
    <3>1. i \in 1..l
      BY <1>1, <2>2
    <3>2. CASE j \in 1..l
      BY <1>1, <2>2, <3>1, <3>2 DEF Timed
    <3>3. CASE j = l + 1
      BY <1>1, <2>1, <3>1, <3>3
    <3>4. QED
      BY <1>1, <3>2, <3>3
  <2>3. QED
    BY <2>1, <2>2 DEF Timed
<1>3. ASSUME NEW i \in DOMAIN S PROVE Read(A, i)
  <2>1. A[i] = S[i] /\ \A j \in 1..i - 1 : A[j] = S[j]
    BY <1>1
  <2>2. Asked(A, i) = Asked(S, i)
    BY <2>1 DEF Asked
  <2>3. Read(S, i)
    OBVIOUS
  <2>4. \A j \in Asked(S, i) : A[j] = S[j]
    BY <2>1 DEF Asked
  <2>5. QED
    BY <2>1, <2>2, <2>3, <2>4 DEF Read
<1>4. Asked(A, l + 1) = {j \in DOMAIN S : ~S[j].ack /\ S[j].key = e.key /\ t - S[j].at <= TrackWindow}
  <2>1. (l + 1) - 1 = l
    BY <1>1
  <2>2. Asked(A, l + 1) = {j \in 1..l : ~A[j].ack /\ A[j].key = A[l + 1].key /\ A[l + 1].at - A[j].at <= TrackWindow}
    BY <2>1 DEF Asked
  <2>3. \A j \in 1..l : A[j] = S[j]
    BY <1>1
  <2>4. QED
    BY <1>1, <2>2, <2>3
<1>5. QED
  BY <1>1, <1>2, <1>3, <1>4 DEF A, l

\* An ACK is read in the table of the query that is remembered with its key,
\* and that is the last one within the window.
LEMMA AckRead ==
  ASSUME NEW Q, NEW S, NEW t, NEW e, Tracks(Q, S, t), \A q \in Q : t - q.at <= TrackWindow,
         e.ack = TRUE, e.at = t,
         e.table = IF {q \in Q : q.key = e.key} = {} THEN "unknown"
                   ELSE (CHOOSE q \in {q \in Q : q.key = e.key} : TRUE).table
  PROVE  Tracks(Q, Append(S, e), t)
<1> DEFINE A == Append(S, e)  l == Len(S)  hits == {q \in Q : q.key = e.key}
<1>1. /\ IsList(A) /\ l \in Nat /\ DOMAIN S = 1..l /\ DOMAIN A = 1..l + 1
      /\ \A i \in 1..l : A[i] = S[i]
      /\ A[l + 1] = e
  BY AppendToList DEF Tracks
<1>2. t \in Nat /\ Timed(S, t) /\ Remembered(Q, S, t) /\ IsList(S) /\ \A i \in DOMAIN S : Read(S, i)
  BY DEF Tracks
<1> DEFINE asked == {j \in DOMAIN S : ~S[j].ack /\ S[j].key = e.key /\ t - S[j].at <= TrackWindow}
<1>3. Timed(A, t) /\ (\A i \in DOMAIN S : Read(A, i)) /\ Asked(A, l + 1) = asked
  BY <1>2, OneMoreSeen
<1>4. e.table = IF hits = {} THEN "unknown" ELSE (CHOOSE q \in hits : TRUE).table
  OBVIOUS
<1>5. asked \subseteq 1..l /\ \A j \in asked : ~S[j].ack /\ S[j].key = e.key /\ t - S[j].at <= TrackWindow
  BY <1>1
<1>6. \A q \in hits : q \in Q /\ q.key = e.key
  OBVIOUS
<1>7. ASSUME hits # {} PROVE asked # {}
  <2>1. PICK q \in hits : TRUE
    BY <1>7
  <2>2. PICK j \in DOMAIN S : Latest(S, j) /\ S[j].key = q.key /\ S[j].at = q.at
    BY <1>2, <1>6, <2>1 DEF Remembered
  <2>3. j \in asked
    BY <1>6, <2>1, <2>2 DEF Latest
  <2>4. QED
    BY <2>3
<1>8. ASSUME asked # {}
      PROVE  \E m \in asked : e.table = S[m].table /\ \A k \in asked : k <= m
  <2> DEFINE same == {j \in DOMAIN S : ~S[j].ack /\ S[j].key = e.key}
  <2>1. same \subseteq 1..l /\ same # {} /\ asked \subseteq same
    BY <1>1, <1>8
  <2>2. \A j \in same : j \in DOMAIN S /\ ~S[j].ack /\ S[j].key = e.key
    OBVIOUS
  <2>3. PICK m \in same : \A k \in same : k <= m
    <3> HIDE DEF same, asked
    <3> QED
      BY <1>1, <2>1, GreatestExists
  <2>4. Latest(S, m)
    BY <2>2, <2>3 DEF Latest
  <2>5. t - S[m].at <= TrackWindow
    <3>1. PICK j \in asked : TRUE
      BY <1>8
    <3>2. j \in 1..l /\ m \in 1..l /\ j <= m /\ t - S[j].at <= TrackWindow
      BY <1>1, <1>5, <2>1, <2>3, <3>1
    <3>3. S[j].at <= S[m].at /\ S[j].at \in Nat /\ S[m].at \in Nat
      <4>1. j < m \/ j = m
        BY <1>1, <3>2
      <4>2. S[j].at \in Nat /\ S[m].at \in Nat
        BY <1>1, <1>2, <3>2 DEF Timed
      <4>3. j < m => S[j].at <= S[m].at
        BY <1>1, <1>2, <3>2 DEF Timed
      <4>4. QED
        BY <4>1, <4>2, <4>3
    <3>4. QED
      BY <1>2, <3>2, <3>3, ConstantsTyped
  <2>6. m \in asked
    BY <2>2, <2>3, <2>5
  <2>7. PICK q \in Q : q.key = S[m].key /\ q.at = S[m].at /\ q.table = S[m].table
    BY <1>2, <2>2, <2>4, <2>5 DEF Remembered
  <2>8. q \in hits /\ hits # {}
    BY <2>2, <2>3, <2>7
  <2>9. (CHOOSE x \in hits : TRUE) = q
    <3>1. (CHOOSE x \in hits : TRUE) \in hits
      <4> HIDE DEF hits
      <4> QED
        BY <2>8
    <3>2. \A x \in hits : x = q
      BY <1>2, <1>6, <2>8 DEF Remembered
    <3>3. QED
      BY <3>1, <3>2
  <2>10. e.table = S[m].table
    BY <1>4, <2>7, <2>8, <2>9
  <2>11. \A k \in asked : k <= m
    BY <2>1, <2>3
  <2>12. QED
    BY <2>6, <2>10, <2>11
<1>9. Read(A, l + 1)
  <2>1. CASE asked = {}
    <3>1. e.table = "unknown"
      BY <1>4, <1>7, <2>1
    <3>2. QED
      BY <1>1, <1>3, <2>1, <3>1 DEF Read
  <2>2. CASE asked # {}
    <3>1. \E m \in asked : e.table = A[m].table /\ \A k \in asked : k <= m
      BY <1>1, <1>5, <1>8, <2>2
    <3>2. QED
      BY <1>1, <1>3, <2>2, <3>1 DEF Read
  <2>3. QED
    BY <2>1, <2>2
<1>10. \A j \in 1..l : Latest(A, j) <=> Latest(S, j)
  BY <1>1 DEF Latest
<1>11. \A j \in DOMAIN A : Latest(A, j) => j \in 1..l
  BY <1>1 DEF Latest
<1>12. Remembered(Q, A, t)
  <2>1. ASSUME NEW q \in Q
        PROVE  \E j \in DOMAIN A : Latest(A, j) /\ A[j].key = q.key /\ A[j].at = q.at /\ A[j].table = q.table
    <3>1. PICK j \in DOMAIN S : Latest(S, j) /\ S[j].key = q.key /\ S[j].at = q.at /\ S[j].table = q.table
      BY <1>2 DEF Remembered
    <3>2. j \in DOMAIN A /\ A[j] = S[j] /\ Latest(A, j)
      BY <1>1, <1>10, <3>1
    <3>3. QED
      BY <3>1, <3>2
  <2>2. ASSUME NEW j \in DOMAIN A, Latest(A, j), t - A[j].at <= TrackWindow
        PROVE  \E q \in Q : q.key = A[j].key /\ q.at = A[j].at /\ q.table = A[j].table
    <3>1. j \in 1..l /\ Latest(S, j) /\ A[j] = S[j]
      BY <1>1, <1>10, <1>11, <2>2
    <3>2. QED
      BY <1>1, <1>2, <2>2, <3>1 DEF Remembered
  <2>3. QED
    BY <1>2, <2>1, <2>2 DEF Remembered
<1>13. \A i \in DOMAIN A : Read(A, i)
  BY <1>1, <1>3, <1>9
<1>14. QED
  BY <1>1, <1>2, <1>3, <1>12, <1>13 DEF Tracks

\* A query takes the place of the one before it with its key.
LEMMA QueryRemembered ==
  ASSUME NEW Q, NEW S, NEW t, NEW e, NEW n, Tracks(Q, S, t),
         e.ack = FALSE, e.at = t, n.key = e.key, n.at = t, n.table = e.table
  PROVE  Tracks((Q \ {q \in Q : q.key = e.key}) \cup {n}, Append(S, e), t)
<1> DEFINE A == Append(S, e)  l == Len(S)  R == (Q \ {q \in Q : q.key = e.key}) \cup {n}
<1>1. /\ IsList(A) /\ l \in Nat /\ DOMAIN S = 1..l /\ DOMAIN A = 1..l + 1
      /\ \A i \in 1..l : A[i] = S[i]
      /\ A[l + 1] = e
  BY AppendToList DEF Tracks
<1>2. t \in Nat /\ Timed(S, t) /\ Remembered(Q, S, t) /\ IsList(S) /\ \A i \in DOMAIN S : Read(S, i)
  BY DEF Tracks
<1>3. Timed(A, t) /\ \A i \in DOMAIN S : Read(A, i)
  BY <1>2, OneMoreSeen
<1>4. Read(A, l + 1)
  BY <1>1 DEF Read
<1>5. \A q \in R : q = n \/ (q \in Q /\ q.key # e.key)
  OBVIOUS
<1>6. Latest(A, l + 1)
  BY <1>1 DEF Latest
<1>7. ASSUME NEW j \in 1..l PROVE Latest(A, j) <=> (Latest(S, j) /\ S[j].key # e.key)
  <2>1. ASSUME Latest(A, j) PROVE Latest(S, j) /\ S[j].key # e.key
    <3>1. ~S[j].ack /\ \A k \in 1..l : ~S[k].ack /\ S[k].key = S[j].key => k <= j
      BY <1>1, <2>1 DEF Latest
    <3>2. S[j].key # e.key
      <4> SUFFICES ASSUME S[j].key = e.key PROVE FALSE
        OBVIOUS
      <4>1. l + 1 <= j
        BY <1>1, <2>1 DEF Latest
      <4>2. QED
        BY <1>1, <4>1
    <3>3. QED
      BY <1>1, <3>1, <3>2 DEF Latest
  <2>2. ASSUME Latest(S, j), S[j].key # e.key PROVE Latest(A, j)
    <3>1. ~A[j].ack /\ A[j] = S[j]
      BY <1>1, <2>2 DEF Latest
    <3>2. \A k \in DOMAIN A : ~A[k].ack /\ A[k].key = A[j].key => k <= j
      <4> SUFFICES ASSUME NEW k \in DOMAIN A, ~A[k].ack, A[k].key = A[j].key PROVE k <= j
        OBVIOUS
      <4>1. k # l + 1
        BY <1>1, <2>2, <3>1
      <4>2. k \in 1..l
        BY <1>1, <4>1
      <4>3. QED
        BY <1>1, <2>2, <3>1, <4>2 DEF Latest
    <3>3. QED
      BY <1>1, <3>1, <3>2 DEF Latest
  <2>3. QED
    BY <2>1, <2>2
<1>8. Remembered(R, A, t)
  <2>1. ASSUME NEW q \in R, NEW x \in R, q.key = x.key PROVE q = x
    BY <1>2, <1>5, <2>1 DEF Remembered
  <2>2. ASSUME NEW q \in R
        PROVE  \E j \in DOMAIN A : Latest(A, j) /\ A[j].key = q.key /\ A[j].at = q.at /\ A[j].table = q.table
    <3>1. CASE q = n
      BY <1>1, <1>6, <3>1
    <3>2. CASE q \in Q /\ q.key # e.key
      <4>1. PICK j \in DOMAIN S : Latest(S, j) /\ S[j].key = q.key /\ S[j].at = q.at /\ S[j].table = q.table
        BY <1>2, <3>2 DEF Remembered
      <4>2. j \in DOMAIN A /\ A[j] = S[j] /\ Latest(A, j)
        BY <1>1, <1>7, <3>2, <4>1
      <4>3. QED
        BY <4>1, <4>2
    <3>3. QED
      BY <1>5, <3>1, <3>2
  <2>3. ASSUME NEW j \in DOMAIN A, Latest(A, j), t - A[j].at <= TrackWindow
        PROVE  \E q \in R : q.key = A[j].key /\ q.at = A[j].at /\ q.table = A[j].table
    <3>1. CASE j = l + 1
      <4>1. n \in R /\ A[j] = e
        BY <1>1, <3>1
      <4>2. QED
        BY <4>1
    <3>2. CASE j \in 1..l
      <4>1. Latest(S, j) /\ S[j].key # e.key /\ A[j] = S[j]
        BY <1>1, <1>7, <2>3, <3>2
      <4>2. PICK q \in Q : q.key = S[j].key /\ q.at = S[j].at /\ q.table = S[j].table
        BY <1>1, <1>2, <2>3, <3>2, <4>1 DEF Remembered
      <4>3. q \in R
        BY <4>1, <4>2
      <4>4. QED
        BY <4>1, <4>2, <4>3
    <3>3. QED
      BY <1>1, <3>1, <3>2
  <2> HIDE DEF R, A
  <2>4. QED
    BY <2>1, <2>2, <2>3 DEF Remembered
<1>9. \A i \in DOMAIN A : Read(A, i)
  BY <1>1, <1>3, <1>4
<1>10. QED
  BY <1>1, <1>2, <1>3, <1>8, <1>9 DEF Tracks

\* What the tracker makes of one packet.
LEMMA TrackOneTracks ==
  ASSUME NEW s, NEW p, NEW t, NEW u \in Nat, Tracks(s.queries, s.seen, t), t <= u,
         DOMAIN s = {"queries", "seen"}
  PROVE  /\ Tracks(TrackOne(s, p, u).queries, TrackOne(s, p, u).seen, u)
         /\ DOMAIN TrackOne(s, p, u) = {"queries", "seen"}
<1> DEFINE live == Live(s.queries, u)
           key == IF Ack(p) THEN <<To(p), From(p), p[8]>> ELSE <<From(p), To(p), p[8]>>
           hits == {q \in live : q.key = key}
           table == IF Extended(p) THEN "ext" ELSE "std"
           heard == IF hits = {} THEN "unknown" ELSE (CHOOSE q \in hits : TRUE).table
           entry(x) == [key |-> key, ack |-> Ack(p), at |-> u, table |-> x]
           asked == [key |-> key, at |-> u, table |-> table]
           next1 == TrackOne(s, p, u)
<1>1. Tracks(live, s.seen, u) /\ \A q \in live : u - q.at <= TrackWindow
  BY Aged
<1>2. CASE From(p) = <<>>
  <2>1. TrackOne(s, p, u) = [s EXCEPT !.queries = live]
    BY <1>2 DEF TrackOne
  <2>2. TrackOne(s, p, u).queries = live /\ TrackOne(s, p, u).seen = s.seen
        /\ DOMAIN TrackOne(s, p, u) = {"queries", "seen"}
    <3> HIDE DEF live
    <3> QED
      BY <2>1
  <2>3. QED
    BY <1>1, <2>2
<1>3. CASE From(p) # <<>> /\ Ack(p)
  <2>1. TrackOne(s, p, u) = [queries |-> live, seen |-> Append(s.seen, entry(heard))]
    BY <1>3 DEF TrackOne
  <2>2. /\ entry(heard).key = key /\ entry(heard).ack = TRUE /\ entry(heard).at = u /\ entry(heard).table = heard
    <3> HIDE DEF key, heard
    <3> QED
      BY <1>3
  <2> DEFINE e == entry(heard)
  <2>3. e.table = IF {q \in live : q.key = e.key} = {} THEN "unknown"
                  ELSE (CHOOSE q \in {q \in live : q.key = e.key} : TRUE).table
    <3>1. {q \in live : q.key = e.key} = hits
      BY <2>2
    <3>2. QED
      BY <2>2, <3>1
  <2>4. e.ack = TRUE /\ e.at = u
    BY <2>2
  <2>5. Tracks(live, Append(s.seen, e), u)
    <3> HIDE DEF e, live
    <3> QED
      BY <1>1, <2>3, <2>4, AckRead
  <2>6. TrackOne(s, p, u).queries = live /\ TrackOne(s, p, u).seen = Append(s.seen, e)
        /\ DOMAIN TrackOne(s, p, u) = {"queries", "seen"}
    <3> HIDE DEF live, e
    <3> QED
      BY <2>1 DEF e
  <2>7. QED
    BY <2>5, <2>6
<1>4. CASE From(p) # <<>> /\ ~Ack(p)
  <2>1. TrackOne(s, p, u) = [queries |-> (live \ hits) \cup {asked}, seen |-> Append(s.seen, entry(table))]
    BY <1>4 DEF TrackOne
  <2> DEFINE e == entry(table)
  <2>2. e.key = key /\ e.ack = FALSE /\ e.at = u /\ e.table = table
    <3> HIDE DEF key, table
    <3> QED
      BY <1>4
  <2>3. asked.key = key /\ asked.at = u /\ asked.table = table
    OBVIOUS
  <2>4. hits = {q \in live : q.key = e.key}
    BY <2>2
  <2>5. Tracks((live \ hits) \cup {asked}, Append(s.seen, e), u)
    <3> HIDE DEF live, hits, e, asked
    <3> QED
      BY <1>1, <2>2, <2>3, <2>4, QueryRemembered
  <2>6. TrackOne(s, p, u).queries = (live \ hits) \cup {asked} /\ TrackOne(s, p, u).seen = Append(s.seen, e)
        /\ DOMAIN TrackOne(s, p, u) = {"queries", "seen"}
    <3> HIDE DEF live, hits, asked, e
    <3> QED
      BY <2>1 DEF e
  <2>7. QED
    BY <2>5, <2>6
<1>5. QED
  BY <1>2, <1>3, <1>4

\* A set of natural numbers that has 0, and n + 1 with each n, has them all.
LEMMA NumbersInTurn ==
  ASSUME NEW S, 0 \in S, \A n \in Nat : n \in S => n + 1 \in S
  PROVE  Nat \subseteq S
<1> DEFINE Less == {r \in Nat \X Nat : r[1] < r[2]}  D == {n \in Nat : n \notin S}
<1> SUFFICES ASSUME D # {} PROVE FALSE
  OBVIOUS
<1>1. IsWellFoundedOn(Less, Nat)
  BY NatLessThanWellFounded DEF OpToRel
<1>2. PICK d \in D : \A e \in D : ~(<<e, d>> \in Less)
  <2>1. D \subseteq Nat
    OBVIOUS
  <2> HIDE DEF D, Less
  <2>2. QED
    BY <1>1, <2>1, WFMin
<1>3. d \in Nat /\ d # 0 /\ d \notin S
  OBVIOUS
<1>4. d - 1 \in Nat /\ d - 1 < d /\ (d - 1) + 1 = d
  BY <1>3
<1>5. d - 1 \notin D
  BY <1>2, <1>3, <1>4
<1>6. d \in S
  BY <1>4, <1>5
<1>7. QED
  BY <1>3, <1>6

\* The function with which Tracked goes through the packets exists, as far as
\* packet n.
Goes(f, packets, t, n) ==
  f = [i \in 0..n |-> IF i = 0 THEN [queries |-> queries, seen |-> seen]
                      ELSE TrackOne(f[i - 1], packets[i].data, t)]

\* The tracker has a run over any number of packets: by induction, as a set of
\* numbers that has the next of each of its members.
LEMMA TrackerGoes ==
  ASSUME NEW packets, NEW t
  PROVE  \A n \in Nat : \E f : Goes(f, packets, t, n)
<1> DEFINE S == {n \in Nat : \E f : Goes(f, packets, t, n)}
           start == [queries |-> queries, seen |-> seen]
<1>1. 0 \in S
  <2> DEFINE f == [i \in 0..0 |-> start]
  <2>1. Goes(f, packets, t, 0)
    <3>1. \A i \in 0..0 : i = 0
      OBVIOUS
    <3>2. f = [i \in 0..0 |-> IF i = 0 THEN start ELSE TrackOne(f[i - 1], packets[i].data, t)]
      BY <3>1
    <3>3. QED
      BY <3>2 DEF Goes
  <2>2. QED
    BY <2>1
<1>2. ASSUME NEW n \in Nat, n \in S PROVE n + 1 \in S
  <2>1. PICK g : Goes(g, packets, t, n)
    BY <1>2
  <2> DEFINE f == [i \in 0..n + 1 |-> IF i = n + 1 THEN TrackOne(g[n], packets[n + 1].data, t) ELSE g[i]]
             h == [i \in 0..n + 1 |-> IF i = 0 THEN start ELSE TrackOne(f[i - 1], packets[i].data, t)]
  <2>2. DOMAIN g = 0..n /\ g[0] = start
        /\ \A i \in 1..n : g[i] = TrackOne(g[i - 1], packets[i].data, t)
    BY <2>1 DEF Goes
  <2>3. \A i \in 0..n : f[i] = g[i]
    OBVIOUS
  <2>4. ASSUME NEW i \in 0..n + 1 PROVE f[i] = h[i]
    <3>1. CASE i = 0
      BY <2>2, <2>3, <3>1
    <3>2. CASE i \in 1..n
      <4>1. h[i] = TrackOne(f[i - 1], packets[i].data, t)
        BY <3>2
      <4>2. f[i - 1] = g[i - 1] /\ f[i] = g[i]
        BY <2>3, <3>2
      <4>3. QED
        BY <2>2, <3>2, <4>1, <4>2
    <3>3. CASE i = n + 1
      <4>1. h[i] = TrackOne(f[i - 1], packets[i].data, t)
        BY <3>3
      <4>2. i - 1 = n /\ f[n] = g[n]
        BY <2>3, <3>3
      <4>3. f[i] = TrackOne(g[n], packets[n + 1].data, t)
        BY <3>3
      <4>4. QED
        BY <3>3, <4>1, <4>2, <4>3
    <3>4. QED
      BY <3>1, <3>2, <3>3
  <2>5. DOMAIN f = 0..n + 1 /\ DOMAIN h = 0..n + 1
    OBVIOUS
  <2>6. f = h
    BY <2>4, <2>5
  <2>7. Goes(f, packets, t, n + 1)
    BY <2>6 DEF Goes
  <2>8. QED
    BY <2>7
<1>3. Nat \subseteq S
  <2> HIDE DEF S
  <2> QED
    BY <1>1, <1>2, NumbersInTurn
<1>4. QED
  BY <1>3

\* What was said of the queries at an earlier time can be said later.
LEMMA TracksLater ==
  ASSUME NEW Q, NEW S, NEW t, NEW u \in Nat, Tracks(Q, S, t), t <= u
  PROVE  Tracks(Q, S, u)
<1>1. t \in Nat /\ Timed(S, t) /\ Remembered(Q, S, t)
  BY DEF Tracks
<1>2. Timed(S, u)
  BY <1>1 DEF Timed
<1>3. ASSUME NEW j \in DOMAIN S, Latest(S, j), u - S[j].at <= TrackWindow
      PROVE  \E q \in Q : q.key = S[j].key /\ q.at = S[j].at /\ q.table = S[j].table
  <2>1. S[j].at \in Nat
    BY <1>1 DEF Timed
  <2>2. t - S[j].at <= TrackWindow
    BY <1>1, <1>3, <2>1, ConstantsTyped
  <2>3. QED
    BY <1>1, <1>3, <2>2 DEF Remembered
<1>4. Remembered(Q, S, u)
  BY <1>1, <1>3 DEF Remembered
<1>5. QED
  BY <1>2, <1>4 DEF Tracks

\* What the tracker makes of a block.
LEMMA TrackedTracks ==
  ASSUME NEW packets, Len(packets) \in Nat, NEW t \in Nat, Tracks(queries, seen, stamp), stamp <= t
  PROVE  Tracks(Tracked(packets, t).queries, Tracked(packets, t).seen, t)
<1> DEFINE n == Len(packets)
           f == CHOOSE g : Goes(g, packets, t, n)
           S == {i \in Nat : i <= n => Tracks(f[i].queries, f[i].seen, t) /\ DOMAIN f[i] = {"queries", "seen"}}
<1>1. Goes(f, packets, t, n)
  BY TrackerGoes
<1>2. Tracked(packets, t) = f[n]
  BY DEF Tracked, Goes
<1> HIDE DEF f
<1>3. /\ f[0] = [queries |-> queries, seen |-> seen]
      /\ \A i \in 1..n : f[i] = TrackOne(f[i - 1], packets[i].data, t)
  BY <1>1 DEF Goes
<1>4. 0 \in S
  <2>1. Tracks(queries, seen, t)
    BY TracksLater
  <2>2. f[0].queries = queries /\ f[0].seen = seen /\ DOMAIN f[0] = {"queries", "seen"}
    BY <1>3
  <2>3. QED
    BY <2>1, <2>2
<1>5. ASSUME NEW i \in Nat, i \in S PROVE i + 1 \in S
  <2> SUFFICES ASSUME i + 1 <= n
               PROVE  Tracks(f[i + 1].queries, f[i + 1].seen, t) /\ DOMAIN f[i + 1] = {"queries", "seen"}
    OBVIOUS
  <2>1. Tracks(f[i].queries, f[i].seen, t) /\ DOMAIN f[i] = {"queries", "seen"}
    BY <1>5
  <2>2. f[i + 1] = TrackOne(f[i], packets[i + 1].data, t)
    <3>1. i + 1 \in 1..n /\ (i + 1) - 1 = i
      OBVIOUS
    <3>2. QED
      BY <1>3, <3>1
  <2> DEFINE s == f[i]  p == packets[i + 1].data
  <2>3. /\ Tracks(TrackOne(s, p, t).queries, TrackOne(s, p, t).seen, t)
        /\ DOMAIN TrackOne(s, p, t) = {"queries", "seen"}
    <3>1. Tracks(s.queries, s.seen, t) /\ DOMAIN s = {"queries", "seen"} /\ t <= t
      BY <2>1
    <3> HIDE DEF s, p
    <3>2. QED
      BY <3>1, TrackOneTracks
  <2>4. QED
    BY <2>2, <2>3
<1>6. Nat \subseteq S
  <2> HIDE DEF S
  <2> QED
    BY <1>4, <1>5, NumbersInTurn
<1>7. n \in S
  BY <1>6
<1>8. QED
  BY <1>2, <1>7

(***************************************************************************)
(* Decoding gives a list of packets: all that the rest needs of Codec.     *)
(***************************************************************************)
\* At one place one packet is recovered at most.
LEMMA OnePacketRecovered ==
  ASSUME NEW bits, NEW pos, NEW maxFlips, NEW candidates
  PROVE  IsFiniteSet(RecoverAt(bits, pos, maxFlips, candidates))
<1>1. \A x : IsFiniteSet({x})
  BY FS_Singleton
<1>2. IsFiniteSet({})
  BY FS_EmptySet
<1>3. QED
  BY <1>1, <1>2 DEF RecoverAt

\* The image of a finite set is finite.
LEMMA ImageIsFinite ==
  ASSUME NEW P, IsFiniteSet(P), NEW f, f \in [P -> {f[x] : x \in P}]
  PROVE  IsFiniteSet({f[x] : x \in P})
<1> DEFINE T == {f[x] : x \in P}
<1>1. \A y \in T : \E x \in P : f[x] = y
  OBVIOUS
<1> HIDE DEF T
<1>2. f \in Surjection(P, T)
  BY <1>1 DEF Surjection, T
<1>3. IsFiniteSet(T)
  BY <1>2, FS_Surjection
<1>4. QED
  BY <1>3 DEF T

\* There are finitely many headers in a sequence of symbols.
LEMMA HeadersAreFinite ==
  ASSUME NEW bits, Len(bits) \in Nat
  PROVE  IsFiniteSet(FindHeaders(bits).at)
<1>1. IsFiniteSet(0..Len(bits) - 16)
  BY FS_Interval
<1>2. ASSUME NEW h PROVE IsFiniteSet(HeadersIn(bits, h))
  <2>1. HeadersIn(bits, h) \subseteq 0..Len(bits) - 16
    BY DEF HeadersIn
  <2>2. QED
    BY <1>1, <2>1, FS_Subset
<1>3. \/ FindHeaders(bits).at = HeadersIn(bits, StartHeader)
      \/ FindHeaders(bits).at = HeadersIn(bits, Invert(StartHeader))
  BY DEF FindHeaders
<1>4. QED
  BY <1>2, <1>3

\* So what is recovered at them is finite, ...
LEMMA RecoveredIsFinite ==
  ASSUME NEW bits, Len(bits) \in Nat, NEW index
  PROVE  IsFiniteSet(Recovered(bits, index))
<1> DEFINE found == FindHeaders(bits)
           P == found.at \cup ({index} \ {NoIndex})
           f == [pos \in P |-> RecoverAt(found.bits, pos, MaxFlips, Candidates)]
           all == UNION {f[pos] : pos \in P}
           place(pos) == IF pos \in found.at THEN pos ELSE -1
           g == [q \in all |-> [q EXCEPT !.at = place(q.at)]]
           placed == {g[q] : q \in all}
<1>1. IsFiniteSet(P)
  <2>1. IsFiniteSet(found.at)
    BY HeadersAreFinite
  <2>2. IsFiniteSet({index}) /\ {index} \ {NoIndex} \subseteq {index}
    BY FS_Singleton
  <2>3. IsFiniteSet({index} \ {NoIndex})
    BY <2>2, FS_Subset
  <2> HIDE DEF found
  <2>4. QED
    BY <2>1, <2>3, FS_Union
<1>2. IsFiniteSet({f[pos] : pos \in P})
  <2>1. f \in [P -> {f[pos] : pos \in P}]
    OBVIOUS
  <2> HIDE DEF f, P
  <2>2. QED
    BY <1>1, <2>1, ImageIsFinite
<1>3. \A S \in {f[pos] : pos \in P} : IsFiniteSet(S)
  BY OnePacketRecovered
<1>4. IsFiniteSet(all)
  <2> HIDE DEF f, P
  <2> QED
    BY <1>2, <1>3, FS_UNION
<1>5. IsFiniteSet(placed)
  <2>1. g \in [all -> {g[q] : q \in all}]
    OBVIOUS
  <2> HIDE DEF g, all
  <2>2. QED
    BY <1>4, <2>1, ImageIsFinite
<1>6. Recovered(bits, index) = FirstOfEach(placed)
  BY DEF Recovered
<1>7. FirstOfEach(placed) \subseteq placed
  <2> HIDE DEF placed
  <2> QED
    BY DEF FirstOfEach
<1>8. QED
  <2> HIDE DEF placed
  <2> QED
    BY <1>5, <1>6, <1>7, FS_Subset

\* ... and what is parsed.
LEMMA ParsedIsFinite ==
  ASSUME NEW bits, Len(bits) \in Nat
  PROVE  IsFiniteSet(ParseBits(bits))
<1> DEFINE found == FindHeaders(bits)
           P == found.at
           f == [pos \in P |-> Parse(found.bits, pos)]
<1>1. IsFiniteSet(P)
  BY HeadersAreFinite
<1>2. IsFiniteSet({f[pos] : pos \in P})
  <2>1. f \in [P -> {f[pos] : pos \in P}]
    OBVIOUS
  <2> HIDE DEF f, P
  <2>2. QED
    BY <1>1, <2>1, ImageIsFinite
<1>3. ParseBits(bits) \subseteq {f[pos] : pos \in P}
  BY DEF ParseBits
<1>4. QED
  <2> HIDE DEF f, P
  <2> QED
    BY <1>2, <1>3, FS_Subset

\* Finitely many packets in their order are a list.
LEMMA InOrderIsList ==
  ASSUME NEW S, IsFiniteSet(S)
  PROVE  IsList(InOrder(S))
<1> DEFINE n == Cardinality(S)
           s == InOrder(S)
<1>1. n \in Nat
  BY FS_CardinalityType
<1>2. DOMAIN s = 1..n
  BY DEF InOrder
<1>3. s = [i \in 1..n |-> s[i]]
  <2> DEFINE e(i) == CHOOSE q \in S : Cardinality({x \in S : x.at <= q.at}) = i
  <2>1. s = [i \in 1..n |-> e(i)]
    BY DEF InOrder
  <2> HIDE DEF s, e
  <2>2. QED
    BY <2>1
<1>4. \A i \in 1..n : s[i] \in ToSet(s)
  BY <1>2 DEF ToSet
<1>5. s \in [1..n -> ToSet(s)]
  <2> HIDE DEF s, n
  <2> QED
    BY <1>3, <1>4
<1>6. s \in Seq(ToSet(s))
  <2> HIDE DEF s, n
  <2> QED
    BY <1>1, <1>5
<1>7. QED
  BY <1>6 DEF IsList

\* The packets of a block are a list.
LEMMA DecodesToList ==
  ASSUME NEW bits, Len(bits) \in Nat, NEW index
  PROVE  Len(Decode(bits, index)) \in Nat
<1> DEFINE recovered == Recovered(bits, index)
           kept == {q \in ParseBits(bits) : Len(q.data) >= CrcIndex(Extended(q.data)) /\ q.indexOk}
           repeated(q) == \E x \in recovered \cup kept :
                            UpToCrc(x.data) = UpToCrc(q.data) /\ (x \in recovered \/ x.at < q.at)
           rest == {q \in kept : ~repeated(q)}
<1>1. Decode(bits, index) = InOrder(recovered) \o InOrder(rest)
  BY DEF Decode
<1>2. IsFiniteSet(recovered)
  BY RecoveredIsFinite
<1>3. rest \subseteq ParseBits(bits)
  OBVIOUS
<1> HIDE DEF recovered, rest
<1>4. IsFiniteSet(rest)
  BY <1>3, ParsedIsFinite, FS_Subset
<1> DEFINE a == InOrder(recovered)  b == InOrder(rest)
<1>5. IsList(a) /\ IsList(b)
  BY <1>2, <1>4, InOrderIsList
<1> DEFINE T == ToSet(a) \cup ToSet(b)
<1>6. a \in Seq(T) /\ b \in Seq(T)
  <2>1. ToSet(a) \subseteq T /\ ToSet(b) \subseteq T
    OBVIOUS
  <2> HIDE DEF a, b, T
  <2>2. QED
    BY <1>5, <2>1, SeqMonotonic DEF IsList
<1>7. Len(a \o b) \in Nat
  <2> HIDE DEF a, b, T
  <2> QED
    BY <1>6, ConcatProperties, LenProperties
<1>8. QED
  BY <1>1, <1>7

\* What the tracker holds and has said, of the packets seen.
TrackInv == Tracks(queries, seen, stamp)

\* Before the first packet there is nothing to say.
LEMMA NothingTracked == ASSUME NEW t \in Nat PROVE Tracks({}, <<>>, t)
<1>1. DOMAIN <<>> = {} /\ IsList(<<>>)
  BY EmptyIsList
<1>2. Timed(<<>>, t) /\ Remembered({}, <<>>, t)
  BY <1>1 DEF Timed, Remembered, Latest
<1>3. QED
  BY <1>1, <1>2 DEF Tracks

\* What is made of a burst is a list of packets, and bursts have numbers.
LEMMA BurstsAreDecoded ==
  ASSUME NEW b \in DOMAIN Burst
  PROVE  b \in Nat \ {0} /\ Len(Outcomes[b].local) \in Nat
<1>1. b \in Nat \ {0}
  <2> DEFINE T == ToSet(Clean) \cup ToSet(Damaged)
  <2>1. Clean \in Seq(T) /\ Damaged \in Seq(T)
    <3>1. ToSet(Clean) \subseteq T /\ ToSet(Damaged) \subseteq T
      OBVIOUS
    <3> HIDE DEF T
    <3>2. QED
      BY <3>1, ProcessAssumption, SeqMonotonic
  <2>2. Burst \in Seq(T)
    <3> HIDE DEF T
    <3> QED
      BY <2>1, ConcatProperties DEF Burst
  <2>3. DOMAIN Burst = 1..Len(Burst) /\ Len(Burst) \in Nat
    <3> HIDE DEF T
    <3> QED
      BY <2>2, LenProperties
  <2>4. QED
    BY <2>3
<1>2. Outcomes[b] = Outcome(Burst[b])
  BY DEF Outcomes
<1>3. Outcome(Burst[b]).local = Decode(Air(Burst[b]), HeaderIndex(Burst[b]))
  BY DEF Outcome
<1>4. Len(Air(Burst[b])) \in Nat
  BY BurstsAreSymbols, LenProperties
<1>5. Len(Decode(Air(Burst[b]), HeaderIndex(Burst[b]))) \in Nat
  BY <1>4, DecodesToList
<1>6. QED
  BY <1>1, <1>2, <1>3, <1>5

\* Every step keeps it: a block's packets are all shown to the tracker when the
\* block comes, and a kill forgets them with the queries.
LEMMA TrackInvStep == TrackInv /\ [Next]_vars => TrackInv'
<1> SUFFICES ASSUME TrackInv, [Next]_vars PROVE TrackInv'
  OBVIOUS
<1>1. stamp \in Nat /\ Tracks(queries, seen, stamp)
  BY DEF TrackInv, Tracks
<1>2. ASSUME NEW b \in DOMAIN Burst, NEW t \in stamp..MaxTime, Arrive(b, t) PROVE TrackInv'
  <2>1. Len(Outcomes[b].local) \in Nat
    BY BurstsAreDecoded
  <2>2. t \in Nat /\ stamp <= t
    BY <1>1, ConstantsTyped
  <2>3. stamp' = t /\ queries' = Tracked(Outcomes[b].local, t).queries /\ seen' = Tracked(Outcomes[b].local, t).seen
    BY <1>2 DEF Arrive
  <2> DEFINE packets == Outcomes[b].local
  <2>4. Tracks(Tracked(packets, t).queries, Tracked(packets, t).seen, t)
    <3> HIDE DEF packets
    <3> QED
      BY <1>1, <2>1, <2>2, TrackedTracks DEF packets
  <2>5. Tracks(queries', seen', stamp')
    BY <2>3, <2>4
  <2>6. QED
    BY <2>5 DEF TrackInv
<1>3. CASE Kill
  <2>1. queries' = {} /\ seen' = <<>> /\ stamp' = stamp
    BY <1>3 DEF Kill, Forget
  <2>2. Tracks(queries', seen', stamp')
    BY <1>1, <2>1, NothingTracked
  <2>3. QED
    BY <2>2 DEF TrackInv
<1>4. ASSUME UNCHANGED <<queries, seen, stamp>> PROVE TrackInv'
  <2>1. Tracks(queries', seen', stamp')
    BY <1>1, <1>4
  <2>2. QED
    BY <2>1 DEF TrackInv
<1>5. CASE Handle
  BY <1>4, <1>5 DEF Handle
<1>6. CASE Rotate
  BY <1>4, <1>6 DEF Rotate, context, past
<1>7. CASE UNCHANGED vars
  BY <1>4, <1>7 DEF vars, context, past
<1>8. QED
  BY <1>2, <1>3, <1>5, <1>6, <1>7 DEF Next

\* Before the first packet there is nothing to say.
LEMMA TrackInvInit == Init => TrackInv
BY NothingTracked DEF Init, TrackInv

\* An ACK is read in the table of the last query within the window that it can
\* answer, and in none when there was none: whatever the packets are, when
\* they come and however often the process is started again.
THEOREM AcksAreReadRight == Spec => []AcksReadInTheirTable
<1>1. TrackInv => AcksReadInTheirTable
  <2> SUFFICES ASSUME TrackInv PROVE AcksReadInTheirTable
    OBVIOUS
  <2>1. \A i \in DOMAIN seen : Read(seen, i)
    BY DEF TrackInv, Tracks
  <2>2. QED
    BY <2>1 DEF Read, Asked, AcksReadInTheirTable
<1>2. QED
  BY <1>1, TrackInvInit, TrackInvStep, PTL DEF Spec

(***************************************************************************)
(* The all-on watcher.                                                     *)
(***************************************************************************)
\* The entry of the history for packet i of those handled, H, when the next
\* record is n; the packets of the last HistoryWindow before t.
Entry(H, n, i) == [n |-> n - 1 - Len(H) + i, at |-> H[i].at]
Within(H, m, t) == {i \in 1..m : H[i].at >= t - HistoryWindow}

\* The history W is the entries of what was handled within the window, and
\* some older ones, which the next packet throws out.
Window(W, H, t, n) ==
  /\ \A s \in W : \E i \in DOMAIN H : s = Entry(H, n, i)
  /\ \A i \in Within(H, Len(H), t) : Entry(H, n, i) \in W

\* The alarms A are of packets handled, and their contexts the window then.
Alarmed(H, A) ==
  \A a \in A : /\ a.n \in DOMAIN H /\ a.at = H[a.n].at
               /\ a.context = Cardinality(Within(H, a.n, a.at))

\* What was fired last, D, is the last alarm of each signature.
LastAlarm(f, A) ==
  \E a \in A : /\ a.signature = f.signature /\ a.at = f.at
               /\ \A b \in A : b.signature = f.signature => b.n <= a.n
Fired(D, A) ==
  /\ \A f, g \in D : f.signature = g.signature => f = g
  /\ \A f \in D : LastAlarm(f, A)
  /\ \A a \in A : \E f \in D : f.signature = a.signature

\* Alarms of one signature are a cooldown apart, and every group-0 broadcast
\* has one, of its own or within the cooldown before it.
Spaced(A) == \A a, b \in A : a.signature = b.signature /\ a.n < b.n => b.at - a.at >= Cooldown
AllOn(p) == GroupBroadcast(p) /\ p[5] = 0
AllOnSignature(p) == Signature("all-link-group-0", p)
Reported(H, A) ==
  \A i \in DOMAIN H : AllOn(H[i].packet) =>
    \E a \in A : /\ a.signature = AllOnSignature(H[i].packet) /\ a.n <= i
                 /\ a.n = i \/ H[i].at - a.at < Cooldown

\* One packet more: the history is then the entries of the window, as many as
\* there are packets in it.
LEMMA WindowMoves ==
  ASSUME NEW W, NEW H, NEW t \in Nat, NEW n \in Nat, NEW e,
         IsList(H), Timed(H, t), Window(W, H, t, n), e.at = t,
         NEW V, V = {s \in W \cup {[n |-> n, at |-> t]} : s.at >= t - HistoryWindow}
  PROVE  /\ Window(V, Append(H, e), t, n + 1)
         /\ Cardinality(V) = Cardinality(Within(Append(H, e), Len(H) + 1, t))
<1> DEFINE A == Append(H, e)  l == Len(H)  D == Within(A, l + 1, t)
<1>1. /\ IsList(A) /\ l \in Nat /\ DOMAIN H = 1..l /\ DOMAIN A = 1..l + 1 /\ Len(A) = l + 1
      /\ \A i \in 1..l : A[i] = H[i]
      /\ A[l + 1] = e
  BY AppendToList
<1> HIDE DEF A, l
<1>2. \A i \in 1..l : Entry(A, n + 1, i) = Entry(H, n, i)
  <2> SUFFICES ASSUME NEW i \in 1..l PROVE Entry(A, n + 1, i) = Entry(H, n, i)
    OBVIOUS
  <2>1. (n + 1) - 1 - Len(A) + i = n - 1 - Len(H) + i
    BY <1>1 DEF l
  <2>2. QED
    BY <1>1, <2>1 DEF Entry
<1>3. Entry(A, n + 1, l + 1) = [n |-> n, at |-> t]
  <2>1. (n + 1) - 1 - Len(A) + (l + 1) = n
    BY <1>1
  <2>2. QED
    BY <1>1, <2>1 DEF Entry
<1>4. HistoryWindow \in Nat
  BY ConstantsTyped
<1>5. l + 1 \in D /\ D \subseteq 1..l + 1 /\ \A i \in D : A[i].at >= t - HistoryWindow
  BY <1>1, <1>4 DEF Within
<1>6. ASSUME NEW s \in V PROVE \E i \in D : s = Entry(A, n + 1, i)
  <2>1. CASE s = [n |-> n, at |-> t]
    BY <1>3, <1>5, <2>1
  <2>2. CASE s \in W
    <3>1. PICK i \in 1..l : s = Entry(H, n, i)
      BY <1>1, <2>2 DEF Window
    <3>2. s.at = H[i].at
      BY <3>1 DEF Entry
    <3>3. i \in D
      BY <1>1, <3>2 DEF Within
    <3>4. QED
      BY <1>2, <3>1, <3>3
  <2>3. QED
    BY <2>1, <2>2
<1>7. ASSUME NEW i \in D PROVE Entry(A, n + 1, i) \in V
  <2>1. CASE i = l + 1
    BY <1>3, <1>4, <2>1
  <2>2. CASE i \in 1..l
    <3>1. H[i].at >= t - HistoryWindow
      BY <1>1, <1>5, <2>2
    <3>2. i \in Within(H, Len(H), t)
      BY <2>2, <3>1 DEF Within, l
    <3>3. Entry(H, n, i) \in W /\ Entry(H, n, i).at = H[i].at
      BY <3>2 DEF Window, Entry
    <3>4. QED
      BY <1>2, <2>2, <3>1, <3>3
  <2>3. QED
    BY <1>1, <1>5, <2>1, <2>2
<1> HIDE DEF D
<1>8. Window(V, A, t, n + 1)
  <2>1. Within(A, Len(A), t) = D
    BY <1>1 DEF D
  <2>2. D \subseteq DOMAIN A
    BY <1>1, <1>5
  <2>3. QED
    BY <1>6, <1>7, <2>1, <2>2 DEF Window
<1>9. IsFiniteSet(D)
  <2>1. IsFiniteSet(1..l + 1)
    BY <1>1, FS_Interval
  <2>2. QED
    BY <1>5, <2>1, FS_Subset
<1>10. ExistsBijection(D, V)
  <2> DEFINE f == [i \in D |-> Entry(A, n + 1, i)]
  <2>1. f \in [D -> V]
    BY <1>7
  <2>2. \A s \in V : \E i \in D : f[i] = s
    BY <1>6
  <2>3. ASSUME NEW i \in D, NEW j \in D, f[i] = f[j] PROVE i = j
    <3>1. Entry(A, n + 1, i).n = Entry(A, n + 1, j).n
      BY <2>3
    <3>2. (n + 1) - 1 - Len(A) + i = (n + 1) - 1 - Len(A) + j
      BY <3>1 DEF Entry
    <3>3. i \in Nat /\ j \in Nat /\ Len(A) \in Nat
      BY <1>1, <1>5
    <3>4. QED
      BY <3>2, <3>3
  <2> HIDE DEF f
  <2>4. IsInjective(f)
    BY <2>1, <2>3 DEF IsInjective
  <2>5. f \in Bijection(D, V)
    BY <2>1, <2>2, <2>4 DEF Bijection, Injection, Surjection
  <2>6. QED
    BY <2>5 DEF ExistsBijection
<1>11. Cardinality(V) = Cardinality(D)
  BY <1>9, <1>10, FS_Bijection
<1>12. QED
  BY <1>8, <1>11 DEF A, D, l

\* Time passes.
LEMMA WindowLater ==
  ASSUME NEW W, NEW H, NEW t \in Nat, NEW u \in Nat, NEW n, IsList(H), Timed(H, t), t <= u,
         Window(W, H, t, n)
  PROVE  Timed(H, u) /\ Window(W, H, u, n)
<1>1. Timed(H, u)
  BY DEF Timed
<1>2. DOMAIN H = 1..Len(H)
  BY AppendToList
<1>3. Within(H, Len(H), u) \subseteq Within(H, Len(H), t)
  <2> SUFFICES ASSUME NEW i \in Within(H, Len(H), u) PROVE i \in Within(H, Len(H), t)
    OBVIOUS
  <2>1. i \in DOMAIN H /\ i \in 1..Len(H) /\ H[i].at >= u - HistoryWindow
    BY <1>2 DEF Within
  <2>2. H[i].at \in Nat
    BY <2>1 DEF Timed
  <2>3. H[i].at >= t - HistoryWindow
    BY <2>1, <2>2, ConstantsTyped
  <2>4. QED
    BY <2>1, <2>3 DEF Within
<1>4. QED
  BY <1>1, <1>3 DEF Window

\* What was said of the packets so far stays true with one more.
LEMMA WithinStays ==
  ASSUME NEW H, NEW e, IsList(H), NEW m \in DOMAIN H, NEW t
  PROVE  Within(Append(H, e), m, t) = Within(H, m, t) /\ Append(H, e)[m] = H[m] /\ m \in DOMAIN Append(H, e)
<1>1. Len(H) \in Nat /\ DOMAIN H = 1..Len(H) /\ DOMAIN Append(H, e) = 1..Len(H) + 1
      /\ \A i \in 1..Len(H) : Append(H, e)[i] = H[i]
  BY AppendToList
<1>2. \A i \in 1..m : Append(H, e)[i] = H[i]
  BY <1>1
<1>3. QED
  BY <1>1, <1>2 DEF Within

\* The alarms and what was fired last once signatures F are raised.
AlarmsWith(A, F, t, n, c) == A \cup {[signature |-> g, at |-> t, n |-> n, context |-> c] : g \in F}
FiredWith(D, F, t) == {f \in D : f.signature \notin F} \cup {[signature |-> g, at |-> t] : g \in F}

\* What is known of the packets H, the alarms A and what was fired last, D.
Watching(H, A, D, t) ==
  IsList(H) /\ Timed(H, t) /\ Alarmed(H, A) /\ Fired(D, A) /\ Spaced(A) /\ Reported(H, A)

\* Packet e raises alarms with the signatures F: none in its cooldown, and for
\* a group-0 broadcast its own unless that is.
Raises(D, F, e, t) ==
  /\ \A g \in F, f \in D : f.signature = g => ~(t - f.at < Cooldown)
  /\ AllOn(e.packet) => \/ AllOnSignature(e.packet) \in F
                         \/ \E f \in D : f.signature = AllOnSignature(e.packet) /\ t - f.at < Cooldown

\* With the alarms a packet raises all that stays so.
LEMMA AlarmsRaised ==
  ASSUME NEW H, NEW A, NEW D, NEW F, NEW t \in Nat, NEW e, NEW c,
         Watching(H, A, D, t), Raises(D, F, e, t), e.at = t,
         c = Cardinality(Within(Append(H, e), Len(H) + 1, t))
  PROVE  Watching(Append(H, e), AlarmsWith(A, F, t, Len(H) + 1, c), FiredWith(D, F, t), t)
<1> DEFINE B == AlarmsWith(A, F, t, Len(H) + 1, c)  E == FiredWith(D, F, t)  G == Append(H, e)
<1>0. IsList(H) /\ Timed(H, t) /\ Alarmed(H, A) /\ Fired(D, A) /\ Spaced(A) /\ Reported(H, A)
  BY DEF Watching
<1> DEFINE alarm(g) == [signature |-> g, at |-> t, n |-> Len(H) + 1, context |-> c]
           l == Len(H)
<1>1. /\ IsList(G) /\ l \in Nat /\ DOMAIN H = 1..l /\ DOMAIN G = 1..l + 1
      /\ \A i \in 1..l : G[i] = H[i]
      /\ G[l + 1] = e
  BY <1>0, AppendToList
<1>2. \A g : /\ alarm(g).signature = g /\ alarm(g).at = t /\ alarm(g).n = l + 1 /\ alarm(g).context = c
  OBVIOUS
<1>3. /\ \A b \in B : b \in A \/ \E g \in F : b = alarm(g)
      /\ A \subseteq B /\ \A g \in F : alarm(g) \in B
  BY DEF AlarmsWith
<1>4. \A a \in A : a.n \in 1..l /\ a.at = H[a.n].at /\ a.at \in Nat /\ a.at <= t
  BY <1>0, <1>1 DEF Alarmed, Timed
<1>5. /\ \A f \in E : (f \in D /\ f.signature \notin F) \/ (f.signature \in F /\ f.at = t /\ f = [signature |-> f.signature, at |-> t])
      /\ \A f \in D : f.signature \notin F => f \in E
      /\ \A g \in F : \E f \in E : f.signature = g
  <2> DEFINE shot(g) == [signature |-> g, at |-> t]
  <2>1. \A g : shot(g).signature = g /\ shot(g).at = t
    OBVIOUS
  <2>2. E = {f \in D : f.signature \notin F} \cup {shot(g) : g \in F}
    BY DEF FiredWith
  <2> HIDE DEF shot
  <2>3. \A f \in E : (f \in D /\ f.signature \notin F) \/ (f.signature \in F /\ f.at = t /\ f = shot(f.signature))
    BY <2>1, <2>2
  <2>4. (\A f \in D : f.signature \notin F => f \in E) /\ \A g \in F : \E f \in E : f.signature = g
    BY <2>1, <2>2
  <2>5. QED
    BY <2>3, <2>4 DEF shot
<1> HIDE DEF alarm, B, E, G
<1>6. Timed(G, t)
  <2>1. \A i \in 1..l + 1 : G[i].at \in Nat /\ G[i].at <= t
    BY <1>0, <1>1 DEF Timed
  <2>2. \A i \in 1..l + 1, j \in 1..l + 1 : i < j => G[i].at <= G[j].at
    <3> SUFFICES ASSUME NEW i \in 1..l + 1, NEW j \in 1..l + 1, i < j PROVE G[i].at <= G[j].at
      OBVIOUS
    <3>1. i \in 1..l
      BY <1>1
    <3>2. CASE j \in 1..l
      BY <1>0, <1>1, <3>1, <3>2 DEF Timed
    <3>3. CASE j = l + 1
      BY <1>1, <2>1, <3>3
    <3>4. QED
      BY <1>1, <3>2, <3>3
  <2>3. QED
    BY <1>1, <2>1, <2>2 DEF Timed
<1>7. Alarmed(G, B)
  <2> SUFFICES ASSUME NEW b \in B
               PROVE  b.n \in DOMAIN G /\ b.at = G[b.n].at /\ b.context = Cardinality(Within(G, b.n, b.at))
    BY DEF Alarmed
  <2>1. CASE b \in A
    <3>1. b.n \in DOMAIN H /\ b.at = H[b.n].at /\ b.context = Cardinality(Within(H, b.n, b.at))
      BY <1>0, <2>1 DEF Alarmed
    <3>2. Within(G, b.n, b.at) = Within(H, b.n, b.at) /\ G[b.n] = H[b.n] /\ b.n \in DOMAIN G
      BY <1>0, <3>1, WithinStays DEF G
    <3>3. QED
      BY <3>1, <3>2
  <2>2. ASSUME NEW g \in F, b = alarm(g)
        PROVE  b.n \in DOMAIN G /\ b.at = G[b.n].at /\ b.context = Cardinality(Within(G, b.n, b.at))
    <3>1. b.n = l + 1 /\ b.at = t /\ b.context = c
      BY <1>2, <2>2
    <3>2. c = Cardinality(Within(G, l + 1, t))
      BY DEF G
    <3>3. QED
      BY <1>1, <3>1, <3>2
  <2>3. QED
    BY <1>3, <2>1, <2>2
<1>8. Fired(E, B)
  <2>1. \A f \in E, g \in E : f.signature = g.signature => f = g
    BY <1>0, <1>5 DEF Fired
  <2>2. ASSUME NEW f \in E PROVE LastAlarm(f, B)
    <3>1. CASE f \in D /\ f.signature \notin F
      <4>1. PICK a \in A : /\ a.signature = f.signature /\ a.at = f.at
                           /\ \A b \in A : b.signature = f.signature => b.n <= a.n
        BY <1>0, <3>1 DEF Fired, LastAlarm
      <4>2. \A b \in B : b.signature = f.signature => b.n <= a.n
        BY <1>2, <1>3, <3>1, <4>1
      <4>3. QED
        BY <1>3, <4>1, <4>2 DEF LastAlarm
    <3>2. CASE f.signature \in F /\ f.at = t
      <4>1. alarm(f.signature) \in B /\ alarm(f.signature).signature = f.signature
            /\ alarm(f.signature).at = f.at /\ alarm(f.signature).n = l + 1
        BY <1>2, <1>3, <3>2
      <4>2. \A b \in B : b.n <= l + 1
        BY <1>1, <1>2, <1>3, <1>4
      <4>3. QED
        BY <4>1, <4>2 DEF LastAlarm
    <3>3. QED
      BY <1>5, <3>1, <3>2
  <2>3. \A a \in B : \E f \in E : f.signature = a.signature
    <3> SUFFICES ASSUME NEW a \in B PROVE \E f \in E : f.signature = a.signature
      OBVIOUS
    <3>1. CASE a.signature \in F
      BY <1>5, <3>1
    <3>2. CASE a.signature \notin F
      <4>1. a \in A
        BY <1>2, <1>3, <3>2
      <4>2. PICK f \in D : f.signature = a.signature
        BY <1>0, <4>1 DEF Fired
      <4>3. f \in E
        BY <1>5, <3>2, <4>2
      <4>4. QED
        BY <4>2, <4>3
    <3>3. QED
      BY <3>1, <3>2
  <2>4. QED
    BY <2>1, <2>2, <2>3 DEF Fired
<1>9. Spaced(B)
  <2> SUFFICES ASSUME NEW a \in B, NEW b \in B, a.signature = b.signature, a.n < b.n
               PROVE  b.at - a.at >= Cooldown
    BY DEF Spaced
  <2>1. CASE b \in A
    <3>1. a \in A
      <4>1. a.n < l + 1
        BY <1>1, <1>2, <1>3, <1>4, <2>1
      <4>2. QED
        BY <1>1, <1>2, <1>3, <4>1
    <3>2. QED
      BY <1>0, <2>1, <3>1 DEF Spaced
  <2>2. ASSUME NEW g \in F, b = alarm(g) PROVE b.at - a.at >= Cooldown
    <3>1. b.signature = g /\ b.at = t /\ b.n = l + 1
      BY <1>2, <2>2
    <3>2. a \in A
      BY <1>1, <1>2, <1>3, <3>1
    <3>3. PICK f \in D : f.signature = a.signature
      BY <1>0, <3>2 DEF Fired
    <3>4. PICK z \in A : z.at = f.at /\ \A y \in A : y.signature = f.signature => y.n <= z.n
      BY <1>0, <3>3 DEF Fired, LastAlarm
    <3>5. ~(t - f.at < Cooldown)
      BY <3>1, <3>3 DEF Raises
    <3>6. a.n <= z.n
      BY <3>2, <3>3, <3>4
    <3>7. a.at <= z.at
      <4>1. a.n < z.n \/ a.n = z.n
        BY <1>1, <1>4, <3>2, <3>6
      <4>2. a.n < z.n => H[a.n].at <= H[z.n].at
        BY <1>0, <1>1, <1>4, <3>2 DEF Timed
      <4>3. QED
        BY <1>4, <3>2, <4>1, <4>2
    <3>8. a.at \in Nat /\ z.at \in Nat
      BY <1>4, <3>2
    <3>9. QED
      BY <3>1, <3>4, <3>5, <3>7, <3>8, ConstantsTyped
  <2>3. QED
    BY <1>3, <2>1, <2>2
<1>10. Reported(G, B)
  <2> SUFFICES ASSUME NEW i \in DOMAIN G, AllOn(G[i].packet)
               PROVE  \E a \in B : /\ a.signature = AllOnSignature(G[i].packet) /\ a.n <= i
                                   /\ a.n = i \/ G[i].at - a.at < Cooldown
    BY DEF Reported
  <2>1. CASE i \in 1..l
    <3>1. G[i] = H[i] /\ i \in DOMAIN H
      BY <1>1, <2>1
    <3>2. \E a \in A : /\ a.signature = AllOnSignature(H[i].packet) /\ a.n <= i
                       /\ a.n = i \/ H[i].at - a.at < Cooldown
      BY <1>0, <3>1 DEF Reported
    <3>3. QED
      BY <1>3, <3>1, <3>2
  <2>2. CASE i = l + 1
    <3>1. G[i] = e
      BY <1>1, <2>2
    <3>2. CASE AllOnSignature(e.packet) \in F
      <4> DEFINE a == alarm(AllOnSignature(e.packet))
      <4>1. a \in B /\ a.signature = AllOnSignature(e.packet) /\ a.n = l + 1
        BY <1>2, <1>3, <3>2
      <4>2. a.n <= i /\ a.n = i
        BY <1>1, <2>2, <4>1
      <4>3. QED
        BY <3>1, <4>1, <4>2
    <3>3. ASSUME NEW f \in D, f.signature = AllOnSignature(e.packet), t - f.at < Cooldown
          PROVE  \E a \in B : /\ a.signature = AllOnSignature(G[i].packet) /\ a.n <= i
                              /\ a.n = i \/ G[i].at - a.at < Cooldown
      <4>1. PICK a \in A : a.signature = f.signature /\ a.at = f.at
        BY <1>0 DEF Fired, LastAlarm
      <4>2. a.n <= i
        BY <1>1, <1>4, <2>2, <4>1
      <4>3. QED
        BY <1>3, <3>1, <3>3, <4>1, <4>2
    <3>4. QED
      BY <3>1, <3>2, <3>3 DEF Raises
  <2>3. QED
    BY <1>1, <2>1, <2>2
<1>11. QED
  BY <1>0, <1>1, <1>6, <1>7, <1>8, <1>9, <1>10 DEF Watching, B, E, G

\* What the watcher holds, of the packets handled.
WatchInv ==
  /\ stamp \in Nat /\ next \in Nat
  /\ Watching(handled, alarms, fired, stamp) /\ Window(history, handled, stamp, next)

\* Before the first packet there is nothing to say.
LEMMA NothingWatched ==
  ASSUME NEW t, NEW n
  PROVE  /\ Timed(<<>>, t) /\ Window({}, <<>>, t, n)
         /\ Alarmed(<<>>, {}) /\ Fired({}, {}) /\ Spaced({}) /\ Reported(<<>>, {})
<1>1. DOMAIN <<>> = {} /\ Len(<<>>) = 0 /\ IsList(<<>>)
  BY EmptyIsList
<1>2. Within(<<>>, 0, t) = {}
  BY DEF Within
<1>3. Timed(<<>>, t) /\ Window({}, <<>>, t, n)
  BY <1>1, <1>2 DEF Timed, Window
<1>4. Alarmed(<<>>, {}) /\ Fired({}, {}) /\ Spaced({}) /\ Reported(<<>>, {})
  BY <1>1 DEF Alarmed, Fired, Spaced, Reported
<1>5. QED
  BY <1>3, <1>4

\* A packet is shown to the watcher.
LEMMA WatchedKeeps == ASSUME WatchInv, Handle PROVE WatchInv'
<1> DEFINE p == got.local[todo].data  e == [at |-> stamp, packet |-> p]
           F == {g \in {Signature(k, p) : k \in Kinds(p)} : ~InCooldown(g)}
           V == {s \in history \cup {[n |-> next, at |-> stamp]} : s.at >= stamp - HistoryWindow}
           G == Append(handled, e)  c == Cardinality(V)
           B == AlarmsWith(alarms, F, stamp, Len(handled) + 1, c)
           E == FiredWith(fired, F, stamp)
<1>1. stamp \in Nat /\ next \in Nat /\ IsList(handled) /\ Timed(handled, stamp) /\ Window(history, handled, stamp, next)
      /\ Alarmed(handled, alarms) /\ Fired(fired, alarms) /\ Spaced(alarms) /\ Reported(handled, alarms)
  BY DEF WatchInv, Watching
<1>2. Watched(p) /\ stamp' = stamp /\ next' = next + 1
  BY DEF Handle
<1>3. history' = V /\ handled' = G
  BY <1>2 DEF Watched, Expired
<1>4. fired' = E
  BY <1>2 DEF Watched, FiredAfter, FiredWith
<1>5. alarms' = B
  <2>1. Len(G) = Len(handled) + 1
    BY <1>1, AppendToList
  <2>2. Len(handled') = Len(handled) + 1 /\ Cardinality(history') = c
    BY <1>3, <2>1
  <2>3. alarms' = alarms \cup {[signature |-> g, at |-> stamp, n |-> Len(handled'), context |-> Cardinality(history')] : g \in F}
    BY <1>2 DEF Watched
  <2> HIDE DEF F, c
  <2>4. QED
    BY <2>2, <2>3 DEF AlarmsWith
<1>6. e.at = stamp /\ e.packet = p
  OBVIOUS
<1>7. \A g \in F, f \in fired : f.signature = g => ~(stamp - f.at < Cooldown)
  BY DEF InCooldown
<1>8. AllOn(p) => \/ AllOnSignature(p) \in F
                  \/ \E f \in fired : f.signature = AllOnSignature(p) /\ stamp - f.at < Cooldown
  <2> SUFFICES ASSUME AllOn(p) PROVE \/ AllOnSignature(p) \in F
                                     \/ InCooldown(AllOnSignature(p))
    BY DEF InCooldown
  <2>1. "all-link-group-0" \in Kinds(p)
    BY DEF AllOn, Kinds
  <2>2. AllOnSignature(p) \in {Signature(k, p) : k \in Kinds(p)}
    BY <2>1 DEF AllOnSignature
  <2>3. QED
    BY <2>2
<1> HIDE DEF e, p, F
<1>9. /\ V = {s \in history \cup {[n |-> next, at |-> stamp]} : s.at >= stamp - HistoryWindow}
       /\ G = Append(handled, e)
       /\ B = AlarmsWith(alarms, F, stamp, Len(handled) + 1, c)
       /\ E = FiredWith(fired, F, stamp)
       /\ c = Cardinality(V)
  OBVIOUS
<1> HIDE DEF V, G, B, E, c
<1>10. Window(V, G, stamp, next + 1) /\ c = Cardinality(Within(G, Len(handled) + 1, stamp))
  BY <1>1, <1>6, <1>9, WindowMoves
<1>11. Watching(G, B, E, stamp)
  <2>1. c = Cardinality(Within(Append(handled, e), Len(handled) + 1, stamp))
    BY <1>9, <1>10
  <2>2. Raises(fired, F, e, stamp)
    BY <1>6, <1>7, <1>8 DEF Raises
  <2>3. Watching(handled, alarms, fired, stamp)
    BY DEF WatchInv
  <2>4. Watching(Append(handled, e), AlarmsWith(alarms, F, stamp, Len(handled) + 1, c), FiredWith(fired, F, stamp), stamp)
    BY <1>1, <1>6, <2>1, <2>2, <2>3, AlarmsRaised
  <2>5. QED
    BY <1>9, <2>4
<1>12. QED
  BY <1>1, <1>2, <1>3, <1>4, <1>5, <1>10, <1>11 DEF WatchInv

\* Every step keeps it: time passes when a block comes, and a kill forgets the
\* packets with the history.
LEMMA WatchInvStep == WatchInv /\ [Next]_vars => WatchInv'
<1> SUFFICES ASSUME WatchInv, [Next]_vars PROVE WatchInv'
  OBVIOUS
<1>1. stamp \in Nat /\ next \in Nat /\ IsList(handled) /\ Timed(handled, stamp) /\ Window(history, handled, stamp, next)
      /\ Alarmed(handled, alarms) /\ Fired(fired, alarms) /\ Spaced(alarms) /\ Reported(handled, alarms)
  BY DEF WatchInv, Watching
<1>2. ASSUME NEW b \in DOMAIN Burst, NEW t \in stamp..MaxTime, Arrive(b, t) PROVE WatchInv'
  <2>1. t \in Nat /\ stamp <= t
    BY <1>1, ConstantsTyped
  <2>2. stamp' = t /\ next' = next /\ history' = history /\ fired' = fired /\ handled' = handled /\ alarms' = alarms
    BY <1>2 DEF Arrive, log
  <2>3. Timed(handled, t) /\ Window(history, handled, t, next)
    BY <1>1, <2>1, WindowLater
  <2>4. QED
    BY <1>1, <2>1, <2>2, <2>3 DEF WatchInv, Watching
<1>3. CASE Kill
  <2>1. history' = {} /\ fired' = {} /\ handled' = <<>> /\ alarms' = {} /\ stamp' = stamp /\ next' = next
    BY <1>3 DEF Kill, Forget
  <2>2. QED
    BY <1>1, <2>1, NothingWatched, EmptyIsList DEF WatchInv, Watching
<1>4. ASSUME UNCHANGED <<stamp, next, history, fired, handled, alarms>> PROVE WatchInv'
  BY <1>1, <1>4 DEF WatchInv, Watching
<1>5. CASE Handle
  BY <1>5, WatchedKeeps
<1>6. CASE Rotate
  BY <1>4, <1>6 DEF Rotate, context, past
<1>7. CASE UNCHANGED vars
  BY <1>4, <1>7 DEF vars, context, log, past
<1>8. QED
  BY <1>2, <1>3, <1>5, <1>6, <1>7 DEF Next

\* Before the first packet there is nothing to say.
LEMMA WatchInvInit == Init => WatchInv
BY NothingWatched, EmptyIsList DEF Init, WatchInv, Watching

\* What the watcher remembers of its last alarms makes the promise true.
LEMMA WatchInvTells == WatchInv => EveryAllOnReportedOnce
<1> SUFFICES ASSUME WatchInv PROVE EveryAllOnReportedOnce
  OBVIOUS
<1>1. Alarmed(handled, alarms) /\ Spaced(alarms) /\ Reported(handled, alarms)
  BY DEF WatchInv, Watching
<1>2. \A i \in DOMAIN handled :
        GroupBroadcast(handled[i].packet) /\ handled[i].packet[5] = 0 =>
          \E a \in alarms : /\ a.signature = Signature("all-link-group-0", handled[i].packet) /\ a.n <= i
                            /\ a.n = i \/ handled[i].at - a.at < Cooldown
  BY <1>1 DEF Reported, AllOn, AllOnSignature
<1>3. \A a, b \in alarms : a.signature = b.signature /\ a.n < b.n => b.at - a.at >= Cooldown
  BY <1>1 DEF Spaced
<1>4. \A a \in alarms : a.context = Cardinality({i \in 1..a.n : handled[i].at >= a.at - HistoryWindow})
  BY <1>1 DEF Alarmed, Within
<1>5. QED
  BY <1>2, <1>3, <1>4 DEF EveryAllOnReportedOnce

\* Every group-0 broadcast is reported, by an alarm of its own or one within the
\* cooldown before it, alarms of one kind for it are a cooldown apart, and an
\* alarm's context is exactly the packets of the history window: whatever the
\* packets are, and however the windows and the cooldown compare.
THEOREM AllOnsAreReportedOnce == Spec => []EveryAllOnReportedOnce
<1>1. QED
  BY WatchInvInit, WatchInvStep, WatchInvTells, PTL DEF Spec

(***************************************************************************)
(* The shape of the state.                                                 *)
(***************************************************************************)
\* The block in hand, what is made of it, and the bounds.
HandInv ==
  /\ stamp \in 0..MaxTime /\ blocks \in 0..MaxBlocks /\ kills \in 0..MaxKills
  /\ \/ block = NoBurst /\ got = Nothing
     \/ block \in DOMAIN Burst /\ got = Outcomes[block]
  /\ todo \in 1..Len(got.local) + 1

\* There is no block in hand at first.
LEMMA HandInvInit == Init => HandInv
<1> SUFFICES ASSUME Init PROVE HandInv
  OBVIOUS
<1>1. Len(Nothing.local) = 0
  BY EmptyIsList DEF Nothing
<1>2. QED
  BY <1>1, ConstantsTyped DEF Init, HandInv

\* A block is taken up, worked on to its end, or forgotten with the process.
LEMMA HandInvStep == HandInv /\ [Next]_vars => HandInv'
<1> SUFFICES ASSUME HandInv, [Next]_vars PROVE HandInv'
  OBVIOUS
<1>1. Len(got.local) \in Nat
  <2>1. Len(Nothing.local) = 0
    BY EmptyIsList DEF Nothing
  <2>2. QED
    BY <2>1, BurstsAreDecoded DEF HandInv
<1>2. ASSUME NEW b \in DOMAIN Burst, NEW t \in stamp..MaxTime, Arrive(b, t) PROVE HandInv'
  <2>1. blocks' = IF b > Len(Clean) THEN MaxBlocks ELSE blocks + 1
    BY <1>2 DEF Arrive
  <2>2. blocks < MaxBlocks /\ block' = b /\ got' = Outcomes[b] /\ todo' = 1 /\ stamp' = t /\ kills' = kills
    BY <1>2 DEF Arrive
  <2>3. blocks' \in 0..MaxBlocks
    BY <2>1, <2>2, ConstantsTyped DEF HandInv
  <2>4. Len(got'.local) \in Nat
    BY <2>2, BurstsAreDecoded
  <2>5. todo' \in 1..Len(got'.local) + 1
    BY <2>2, <2>4
  <2>6. stamp' \in 0..MaxTime
    BY <2>2, ConstantsTyped DEF HandInv
  <2>7. QED
    BY <2>2, <2>3, <2>5, <2>6 DEF HandInv
<1>3. CASE Kill
  <2>1. block' = NoBurst /\ got' = Nothing /\ todo' = 1 /\ kills' = kills + 1 /\ kills < MaxKills
        /\ stamp' = stamp /\ blocks' = blocks
    BY <1>3 DEF Kill, Forget
  <2>2. Len(got'.local) = 0
    BY <2>1, EmptyIsList DEF Nothing
  <2>3. QED
    BY <2>1, <2>2, ConstantsTyped DEF HandInv
<1>4. CASE Handle
  <2>1. todo <= Len(got.local) /\ todo' = todo + 1
        /\ stamp' = stamp /\ blocks' = blocks /\ kills' = kills /\ block' = block /\ got' = got
    BY <1>4 DEF Handle, Busy
  <2>2. todo' \in 1..Len(got.local) + 1
    BY <1>1, <2>1 DEF HandInv
  <2>3. QED
    BY <2>1, <2>2 DEF HandInv
<1>5. CASE Rotate
  BY <1>5 DEF Rotate, HandInv
<1>6. CASE UNCHANGED vars
  BY <1>6 DEF vars, HandInv
<1>7. QED
  BY <1>2, <1>3, <1>4, <1>5, <1>6 DEF Next

\* The four together are the type invariant.
LEMMA InvariantsType == LogInv /\ TrackInv /\ WatchInv /\ HandInv => TypeOK
<1> SUFFICES ASSUME LogInv, TrackInv, WatchInv, HandInv PROVE TypeOK
  OBVIOUS
<1>1. stamp \in 0..MaxTime /\ blocks \in 0..MaxBlocks /\ kills \in 0..MaxKills /\ todo \in 1..Len(got.local) + 1
  BY DEF HandInv
<1>2. block \in {NoBurst} \cup DOMAIN Burst /\ (block = NoBurst => got = Nothing)
  BY BurstsAreDecoded DEF HandInv, NoBurst
<1>3. rotating \in {Idle, Reopen} \cup 0..Backups /\ DOMAIN files = 0..Backups /\ next \in Nat \ {0}
  BY ConstantsTyped DEF LogInv, LogShape, Record
<1>4. files[0] = Absent => rotating = Reopen
  BY DEF LogInv, LogShape
<1>5. \A q, x \in queries : q.key = x.key => q = x
  BY DEF TrackInv, Tracks, Remembered
<1>6. \A f, g \in fired : f.signature = g.signature => f = g
  BY DEF WatchInv, Watching, Fired
<1>7. QED
  BY <1>1, <1>2, <1>3, <1>4, <1>5, <1>6 DEF TypeOK

\* The state has its shape, no two remembered queries have one key and no two
\* cooldowns one signature, and the log is whole.
THEOREM ProcessKeepsInv == Spec => []ProcessInv
<1>1. Init => LogInv /\ TrackInv /\ WatchInv /\ HandInv
  BY LogInvInit, TrackInvInit, WatchInvInit, HandInvInit
<1>2. LogInv /\ TrackInv /\ WatchInv /\ HandInv /\ [Next]_vars => (LogInv /\ TrackInv /\ WatchInv /\ HandInv)'
  BY LogInvStep, TrackInvStep, WatchInvStep, HandInvStep
<1>3. LogInv /\ TrackInv /\ WatchInv /\ HandInv => ProcessInv
  BY LogInvTellsTheTail, InvariantsType DEF ProcessInv
<1>4. QED
  BY <1>1, <1>2, <1>3, PTL DEF Spec

=============================================================================
