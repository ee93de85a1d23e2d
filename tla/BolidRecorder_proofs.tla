------------------------ MODULE BolidRecorder_proofs ------------------------
(***************************************************************************)
(* A meteor's file holds its rows, for every size of buffer and snapshot,  *)
(* advance and jitter, every stream and every speed of the worker.         *)
(*                                                                         *)
(* The detector's variables take the detector's steps, so what was proved  *)
(* of it carries over through an instance.  A meteor may have begun more   *)
(* than a lap ago, so the ring buffer's own invariant, which wants fresh   *)
(* reservations, does not: RingSound keeps the part of it about rows, and  *)
(* says of each place in the buffer which row it holds.  The rest follows  *)
(* a snapshot from the detector to its file.                               *)
(***************************************************************************)
EXTENDS BolidRecorder, SnapshotRecorder_proofs

DetectorProofs == INSTANCE BolidDetector_proofs WITH
  mark <- updated, next <- sought, MaxRows <- MaxPushes

Gap == Detector!Gap

\* The row being filled is the last one pushed.
SlotStored == filling => pushed > 0 /\ slot = At(pushed - 1)

\* What the place of row n holds once that row has been filled, or if there
\* was no such row.
Row(n) == IF n < 0 THEN NeverWritten ELSE n

\* Every place holds the row of the last lap.
RowsStored ==
  \A n \in Int :
    n < pushed /\ pushed <= n + Capacity /\ (filling => n < pushed - 1) => Contents(n) = Row(n)

RingSound == RingTypeOK /\ HeadInPlace /\ SlotStored /\ RowsStored

\* The detector is called once for each row, after it has been filled.
InStep ==
  /\ filling => input = "reading"
  /\ updated = IF filling \/ input = "updating" THEN pushed - 1 ELSE pushed

\* nextSnapshot_ is what the detector has made of it.
SoughtIsNext ==
  /\ next \in Snapshots
  /\ rawHandles \in [Indices -> Int]
  /\ input \in {"reading", "updating"} => next.start = sought.start /\ next.length = sought.length
  /\ input = "sending" => sought = [start |-> NextStart, length |-> 0]

\* Snapshots that begin before the mark and, when meteors end later than the
\* advance, have all their rows, none of them the one being filled.
Sound ==
  {s \in Snapshots :
     /\ s.start < pushed
     /\ Gap > Advance => /\ s.start + s.length <= pushed
                         /\ filling => s.start + s.length < pushed}

InHands == worker \in {"opening", "writing", "releasing"}

\* All snapshots are, wherever they are.
PlacesSound ==
  /\ queue \in Seq(Sound)
  /\ received \in Seq(Sound)
  /\ incomplete \in Seq(Sound)
  /\ InHands => current \in Sound
  /\ input = "sending" => next \in Sound

\* The worker writes a snapshot when it has all its rows, or has been lapped.
CurrentComplete ==
  InHands /\ pushed < current.start + Capacity => current.start + current.length <= pushed

\* Row y of a snapshot's file.
RowExact(s, y, row) ==
  \/ row = Row(s.start + y - 1)
  \/ row = Torn /\ y = s.length /\ Gap <= Advance

\* The file being written is exact as far as it goes, unless it was lapped.
FileExact ==
  /\ rows \in Seq(Int)
  /\ worker = "writing" => Len(rows) < current.length
  /\ worker = "releasing" => rows = << >> \/ Len(rows) = current.length
  /\ worker \in {"writing", "releasing"} /\ pushed < current.start + Capacity =>
       \A y \in 1 .. Len(rows) : RowExact(current, y, rows[y])

\* The last one released was.
ReleasedTyped == file.opened => file.start \in Int

\* The inductive invariant, beside the detector's.
BolidIInv ==
  /\ RingSound
  /\ InStep
  /\ SoughtIsNext
  /\ PlacesSound
  /\ CurrentComplete
  /\ FileExact
  /\ ReleasedTyped
  /\ MeteorFilesExact

-----------------------------------------------------------------------------
(* The detector.                                                           *)

(* The parameters are those the detector wants.                            *)
LEMMA DetectorAssumed ==
  Advance \in Nat /\ Jitter \in Nat /\ SnapshotRows \in Nat \ {0} /\ MaxPushes \in Nat
BY BolidParameters, RecorderSizes, RingBounds

(* A step of the recorder is a step of the detector or leaves it alone.    *)
LEMMA DetectorRuns == BolidSpec => DetectorProofs!DetectorSpec
<1>1. BolidInit => DetectorProofs!DetectorInit
  BY DEF BolidInit, DetectorProofs!DetectorInit, Detector!DetectorInit
<1>2. [BolidNext]_bolidVars => [DetectorProofs!DetectorNext]_(DetectorProofs!detectorVars)
  <2> SUFFICES ASSUME [BolidNext]_bolidVars
               PROVE  [DetectorProofs!DetectorNext]_(DetectorProofs!detectorVars)
    OBVIOUS
  <2>1. CASE BolidUpdates
    BY <2>1 DEF BolidUpdates, DetectorProofs!DetectorNext,
      Detector!NothingHeard, DetectorProofs!NothingHeard, Detector!BolidStarts, DetectorProofs!BolidStarts,
      Detector!BolidGoesOn, DetectorProofs!BolidGoesOn, Detector!BolidReturns, DetectorProofs!BolidReturns,
      Detector!BolidPauses, DetectorProofs!BolidPauses, Detector!StillPaused, DetectorProofs!StillPaused,
      Detector!NewRow, DetectorProofs!NewRow, Detector!Row, DetectorProofs!Row,
      Detector!Counted, DetectorProofs!Counted, Detector!DurationReset, DetectorProofs!DurationReset,
      Detector!Over, DetectorProofs!Over
  <2>2. CASE BolidReserves
    BY <2>2 DEF BolidReserves, DetectorProofs!DetectorNext, Detector!BolidEnds, DetectorProofs!BolidEnds,
      Detector!NewRow, DetectorProofs!NewRow, Detector!Row, DetectorProofs!Row,
      Detector!Over, DetectorProofs!Over, Detector!Limited, DetectorProofs!Limited
  <2>3. CASE UNCHANGED stateVars
    BY <2>3 DEF stateVars, DetectorProofs!detectorVars
  <2> QED BY <2>1, <2>2, <2>3 DEF BolidNext, BolidPushes, BolidFills, BolidSends, BolidStops, BolidCloses,
    BolidJoins, BolidWorks, bolidVars
<1> QED BY <1>1, <1>2, PTL DEF BolidSpec, DetectorProofs!DetectorSpec

(* So what was proved of the detector holds of it here.                    *)
LEMMA DetectorHolds == BolidSpec => []DetectorProofs!DetectorIInv
BY DetectorRuns, DetectorAssumed, DetectorProofs!DetectorInvariant, PTL

(* Where a meteor's snapshot ends when the meteor is over: as many rows    *)
(* past the mark as the advance is longer than the gap, if it is.          *)
LEMMA MeteorEnds ==
  ASSUME DetectorProofs!DetectorIInv, Detector!BolidEnds
  PROVE  /\ sought.start \in Int /\ sought.length \in Nat \ {0}
         /\ sought.start + sought.length = updated' + Advance + 1 - Gap
         /\ sought.start < updated'
         /\ updated' = updated + 1
         /\ sought' = [start |-> sought.start + Detector!Limited(sought.length), length |-> 0]
         /\ Gap \in Nat
<1>1. /\ sought.start \in Int /\ sought.length \in Nat /\ duration \in Nat /\ updated \in Nat
      /\ sought \in [start : Int, length : Nat]
  BY DEF DetectorProofs!DetectorIInv, DetectorProofs!DetectorTypeOK
<1>2. /\ state = "bolid_ended" /\ duration + 1 >= Jitter /\ updated' = updated + 1
      /\ sought' = [start |-> sought.start + Detector!Limited(sought.length), length |-> 0]
  BY DEF Detector!BolidEnds, Detector!NewRow, Detector!Over
<1>3. /\ duration >= 1 /\ duration < Gap /\ sought.length >= 2 * Advance + 1
      /\ DetectorProofs!LastOpen + duration = updated - 1
  BY <1>2 DEF DetectorProofs!DetectorIInv, DetectorProofs!CountersMeanRows, DetectorProofs!Gap, Gap,
    Detector!Gap
<1>4. DetectorProofs!LastOpen = sought.start + Advance - 1 + (sought.length - 2 * Advance) - 1
  BY <1>2 DEF DetectorProofs!LastOpen, DetectorProofs!FirstOpen
<1>5. Gap \in Nat /\ Gap >= 2 /\ duration + 1 = Gap
  BY <1>1, <1>2, <1>3, DetectorAssumed DEF Gap, Detector!Gap
<1>6. sought.start + sought.length = updated' + Advance + 1 - Gap
  <2> DEFINE a == sought.start
             n == sought.length
             d == duration
             l == DetectorProofs!LastOpen
  <2>1. a \in Int /\ n \in Nat /\ d \in Nat /\ updated \in Nat /\ updated' = updated + 1 /\ d + 1 = Gap
    BY <1>1, <1>2, <1>5
  <2>2. l = a + Advance - 1 + (n - 2 * Advance) - 1 /\ l + d = updated - 1 /\ Advance \in Nat
    BY <1>3, <1>4, DetectorAssumed
  <2> HIDE DEF a, n, d, l
  <2>3. a + n = updated' + Advance + 1 - Gap
    BY <2>1, <2>2
  <2> QED BY <2>3 DEF a, n
<1>7. sought.start < updated' /\ sought.length # 0
  <2> DEFINE a == sought.start
             n == sought.length
             u == updated'
  <2>1. a \in Int /\ n \in Nat /\ u \in Nat /\ n >= 2 * Advance + 1 /\ Gap \in Nat /\ Gap >= 2
    BY <1>1, <1>2, <1>3, <1>5
  <2>2. a + n = u + Advance + 1 - Gap /\ Advance \in Nat
    BY <1>6, DetectorAssumed
  <2> HIDE DEF a, n, u
  <2>3. a < u /\ n # 0
    BY <2>1, <2>2
  <2> QED BY <2>3 DEF a, n, u
<1> QED BY <1>1, <1>2, <1>5, <1>6, <1>7

-----------------------------------------------------------------------------
(* The rows.                                                               *)

(* Push takes the place of the row a lap before.                           *)
LEMMA PushSound ==
  ASSUME RingSound, Push
  PROVE  RingSound'
<1>1. RingTypeOK /\ pushed \in Nat /\ Capacity \in Nat \ {0} /\ pushed' = pushed + 1 /\ ~filling
  BY RingMetrics DEF RingSound, RingTypeOK, Push
<1>2. reservations' \in Seq(Reservation) /\ Len(reservations') = Len(reservations)
  BY <1>1, MarkDirtyKeeps DEF Push, RingTypeOK
<1>3. /\ head' \in [chunk : ChunkIndices, item : ItemIndices, index : Indices]
      /\ head'.index = head'.chunk * ChunkRows + head'.item
  BY AdvanceInPlace DEF Push, RingSound
<1>4. head'.index = (pushed + 1) % Capacity
  <2>1. head'.index = (head.index + 1) % Capacity
    BY DEF Push, AdvanceHead
  <2>2. ((pushed % Capacity) + 1) % Capacity = (pushed + 1) % Capacity
    <3>1. pushed \in Int
      BY <1>1
    <3> QED BY <3>1, ModSucc, RingMetrics
  <2> QED BY <2>1, <2>2 DEF HeadInPlace, RingSound
<1>5. RingTypeOK'
  <2>1. size' \in 0 .. Capacity
    BY <1>1 DEF Push, Grow, RingTypeOK
  <2>2. slot' \in [chunk : ChunkIndices, item : ItemIndices]
    BY <1>1 DEF Push, RingTypeOK
  <2> QED BY <1>1, <1>2, <1>3, <2>1, <2>2 DEF Push, RingTypeOK
<1>6. HeadInPlace'
  BY <1>1, <1>3, <1>4 DEF HeadInPlace
<1>7. SlotStored'
  <2>1. slot' = At(pushed)
    BY HeadStored DEF Push, RingSound
  <2>2. pushed' - 1 = pushed /\ pushed' > 0
    BY <1>1
  <2> QED BY <2>1, <2>2 DEF SlotStored
<1>8. RowsStored'
  <2> SUFFICES ASSUME NEW n \in Int, n < pushed', pushed' <= n + Capacity, filling' => n < pushed' - 1
               PROVE  Contents(n)' = Row(n)
    BY DEF RowsStored
  <2>1. n < pushed /\ pushed <= n + Capacity
    BY <1>1 DEF Push
  <2>2. Contents(n) = Row(n)
    BY <2>1, <1>1 DEF RowsStored, RingSound
  <2>3. Contents(n)' = Contents(n)
    BY DEF Push, Contents
  <2> QED BY <2>2, <2>3
<1> QED BY <1>5, <1>6, <1>7, <1>8 DEF RingSound

(* Filling it stores its number there.                                     *)
LEMMA FillSound ==
  ASSUME RingSound, FillRow
  PROVE  RingSound'
<1> DEFINE p == pushed - 1
<1>1. /\ pushed \in Nat /\ Capacity \in Nat \ {0} /\ pushed > 0 /\ slot = At(p) /\ filling
      /\ chunks \in [ChunkIndices -> [ItemIndices -> Int]]
      /\ pushed' = pushed /\ ~filling'
  BY RingMetrics DEF RingSound, RingTypeOK, SlotStored, FillRow
<1>2. p \in Nat /\ At(p).chunk \in ChunkIndices /\ At(p).item \in ItemIndices
  <2>1. p \in Nat
    BY <1>1
  <2> QED BY <2>1, AtInRange
<1> HIDE DEF p
<1>3. chunks' = [chunks EXCEPT ![At(p).chunk][At(p).item] = p]
  BY <1>1 DEF FillRow, p
<1>4. RingTypeOK'
  <2>1. chunks' \in [ChunkIndices -> [ItemIndices -> Int]]
    BY <1>1, <1>2, <1>3
  <2> QED BY <2>1 DEF FillRow, RingTypeOK, RingSound
<1>5. RowsStored'
  <2> SUFFICES ASSUME NEW n \in Int, n < pushed, pushed <= n + Capacity
               PROVE  chunks'[At(n).chunk][At(n).item] = Row(n)
    BY <1>1 DEF RowsStored, Contents
  <2>1. At(n).chunk \in ChunkIndices /\ At(n).item \in ItemIndices
    BY AtInRange
  <2>2. CASE n = p
    <3>1. Row(p) = p
      BY <1>2 DEF Row
    <3> QED BY <3>1, <2>2, <1>1, <1>2, <1>3
  <2>3. CASE n # p
    <3>1. n < p /\ p < n + Capacity
      BY <2>3, <1>1 DEF p
    <3>2. At(n).chunk # At(p).chunk \/ At(n).item # At(p).item
      BY <3>1, <1>2, AtInjective
    <3>3. chunks'[At(n).chunk][At(n).item] = chunks[At(n).chunk][At(n).item]
      BY <3>2, <2>1, <1>1, <1>2, <1>3
    <3>4. Contents(n) = Row(n)
      BY <3>1, <1>1 DEF RingSound, RowsStored, p
    <3> QED BY <3>3, <3>4 DEF Contents
  <2> QED BY <2>2, <2>3
<1> QED BY <1>1, <1>4, <1>5 DEF FillRow, RingSound, HeadInPlace, SlotStored

(* Steps that only touch the reservations leave the rows alone.            *)
LEMMA RowsKept ==
  ASSUME RingSound, RingTypeOK', UNCHANGED <<head, chunks, filling, slot, pushed>>
  PROVE  RingSound'
BY DEF RingSound, HeadInPlace, SlotStored, RowsStored, Contents

(* Reserving, for however old a row.                                       *)
LEMMA ReserveSound ==
  ASSUME RingSound, NEW first \in Int, NEW length, Reserve(first, length)
  PROVE  RingSound' /\ ReservedHandle \in Nat
<1> DEFINE r == InitReservation(NormalizeRowIndex(first), NormalizeRowIndex(first + length))
<1>1. r \in Reservation
  BY AtInRange DEF InitReservation, Reservation
<1>2. /\ reservations' = IF ReservedHandle <= Len(reservations)
                         THEN [reservations EXCEPT ![ReservedHandle] = r]
                         ELSE Append(reservations, r)
      /\ freeReservations' = FreeAfterReserve
      /\ DOMAIN held' = DOMAIN held \cup {ReservedHandle}
      /\ UNCHANGED <<head, size, chunks, filling, slot, pushed>>
  BY DEF Reserve
<1> HIDE DEF r
<1>3. /\ reservations \in Seq(Reservation)
      /\ freeReservations \in Seq(1 .. Len(reservations))
      /\ DOMAIN held \subseteq 1 .. Len(reservations)
  BY DEF RingSound, RingTypeOK
<1>4. /\ reservations' \in Seq(Reservation)
      /\ freeReservations' \in Seq(1 .. Len(reservations'))
      /\ ReservedHandle \in 1 .. Len(reservations')
      /\ Len(reservations) <= Len(reservations')
  <2>1. CASE freeReservations = << >>
    <3>1. ReservedHandle = Len(reservations) + 1 /\ freeReservations' = << >>
      BY <1>2, <2>1 DEF ReservedHandle, FreeAfterReserve
    <3>2. reservations' = Append(reservations, r)
      BY <3>1, <1>2, <1>3
    <3> QED BY <3>1, <3>2, <1>1, <1>3
  <2>2. CASE freeReservations # << >>
    <3> DEFINE n == Len(freeReservations)
    <3>1. n \in Nat /\ n > 0
      BY <1>3, <2>2
    <3>2. ReservedHandle = freeReservations[n] /\ freeReservations' = SubSeq(freeReservations, 1, n - 1)
      BY <1>2, <2>2 DEF ReservedHandle, FreeAfterReserve, Last, Front
    <3>3. ReservedHandle \in 1 .. Len(reservations)
      BY <3>1, <3>2, <1>3
    <3>4. reservations' \in Seq(Reservation) /\ Len(reservations') = Len(reservations)
      BY <3>3, <1>1, <1>2, <1>3
    <3>5. freeReservations' \in Seq(1 .. Len(reservations))
      <4>1. freeReservations' = [i \in 1 .. n - 1 |-> freeReservations[i]]
        BY <3>1, <3>2, <1>3
      <4>2. \A i \in 1 .. n - 1 : freeReservations[i] \in 1 .. Len(reservations)
        BY <3>1, <1>3
      <4> QED BY <4>1, <4>2, <3>1
    <3> QED BY <3>3, <3>4, <3>5, <1>3
  <2> QED BY <2>1, <2>2
<1>5. DOMAIN held' \subseteq 1 .. Len(reservations')
  BY <1>2, <1>3, <1>4
<1>6. RingTypeOK'
  BY <1>2, <1>4, <1>5 DEF RingSound, RingTypeOK
<1> QED BY <1>2, <1>4, <1>6, RowsKept

(* Freeing, whatever the handle.                                           *)
LEMMA FreeSound ==
  ASSUME RingSound, NEW handle, FreeReservation(handle)
  PROVE  RingSound'
<1>1. CASE handle \in 1 .. Len(reservations)
  <2>1. /\ reservations' = [reservations EXCEPT ![handle].alive = FALSE]
        /\ freeReservations' = Append(freeReservations, handle)
        /\ DOMAIN held' = DOMAIN held \ {handle}
        /\ UNCHANGED <<head, size, chunks, filling, slot, pushed>>
    BY <1>1 DEF FreeReservation
  <2>2. /\ reservations \in Seq(Reservation)
        /\ freeReservations \in Seq(1 .. Len(reservations))
        /\ DOMAIN held \subseteq 1 .. Len(reservations)
    BY DEF RingSound, RingTypeOK
  <2>3. [reservations[handle] EXCEPT !.alive = FALSE] \in Reservation
    <3>1. reservations[handle] \in Reservation
      BY <1>1, <2>2
    <3> QED BY <3>1 DEF Reservation
  <2>4. reservations' \in Seq(Reservation) /\ Len(reservations') = Len(reservations)
    BY <1>1, <2>1, <2>2, <2>3
  <2>5. freeReservations' \in Seq(1 .. Len(reservations'))
    BY <1>1, <2>1, <2>2, <2>4
  <2>6. RingTypeOK'
    BY <2>1, <2>2, <2>4, <2>5 DEF RingSound, RingTypeOK
  <2> QED BY <2>1, <2>6, RowsKept
<1>2. CASE handle \notin 1 .. Len(reservations)
  <2>1. UNCHANGED ringVars
    BY <1>2 DEF FreeReservation
  <2>2. RingTypeOK'
    BY <2>1 DEF ringVars, RingSound, RingTypeOK
  <2> QED BY <2>1, <2>2, RowsKept DEF ringVars
<1> QED BY <1>1, <1>2

-----------------------------------------------------------------------------
(* The steps.                                                              *)

(* The worker leaves alone what the input thread has.                      *)
LEMMA WorkerLeaves ==
  ASSUME WorkerNext
  PROVE  /\ UNCHANGED <<rawHandles, input, next>>
         /\ pushed' = pushed /\ filling' = filling
BY DEF WorkerNext, Drain, DrainClosed, ChooseComplete, ChooseIncomplete, PutBack, OpenFile, OpenFails, WriteRow,
  Release, FreeReservation, inputVars, ringVars

\* The input thread's steps.
InputStep ==
  \/ BolidPushes
  \/ BolidFills
  \/ BolidUpdates
  \/ BolidReserves
  \/ BolidSends
  \/ BolidStops
  \/ BolidCloses
  \/ BolidJoins

(* The input thread leaves alone what the worker has, and counts up.       *)
LEMMA InputLeaves ==
  ASSUME InputStep
  PROVE  /\ UNCHANGED <<workerVars, historyVars>>
         /\ \/ pushed' = pushed + 1 /\ ~filling
            \/ pushed' = pushed /\ (filling' => filling)
<1>1. CASE BolidPushes
  BY <1>1 DEF BolidPushes, PushRow, Push
<1>2. CASE BolidFills
  BY <1>2 DEF BolidFills, FillAndStamp, FillRow
<1>3. CASE BolidUpdates
  BY <1>3 DEF BolidUpdates, ringVars
<1>4. CASE BolidReserves
  BY <1>4 DEF BolidReserves, ReserveNext, Reserve
<1>5. CASE BolidSends
  BY <1>5 DEF BolidSends, UpdateSends, SendNext, ringVars
<1>6. CASE BolidStops \/ BolidCloses \/ BolidJoins
  BY <1>6 DEF BolidStops, BolidCloses, BolidJoins, StopCloses, StopJoins, ringVars
<1> QED BY <1>1, <1>2, <1>3, <1>4, <1>5, <1>6 DEF InputStep

(* A step is one thread's.                                                 *)
LEMMA EitherThread == BolidNext => InputStep \/ (WorkerNext /\ UNCHANGED stateVars)
BY DEF BolidNext, InputStep, BolidWorks

(* The rows stay sound.                                                    *)
LEMMA RowsStep ==
  ASSUME RingSound, SoughtIsNext, BolidNext
  PROVE  RingSound'
<1>1. CASE BolidPushes
  BY <1>1, PushSound DEF BolidPushes, PushRow
<1>2. CASE BolidFills
  BY <1>2, FillSound DEF BolidFills, FillAndStamp
<1>3. CASE BolidReserves
  <2>1. next.start \in Int
    BY DEF SoughtIsNext, Snapshots
  <2>2. Reserve(next.start, LengthToWrite)
    BY <1>3 DEF BolidReserves, ReserveNext
  <2> QED BY <2>1, <2>2, ReserveSound
<1>4. CASE BolidWorks /\ Release
  BY <1>4, FreeSound DEF Release
<1>5. CASE UNCHANGED ringVars
  <2>1. RingTypeOK'
    BY <1>5 DEF ringVars, RingSound, RingTypeOK
  <2> QED BY <1>5, <2>1, RowsKept DEF ringVars
<1>6. CASE BolidWorks /\ ~Release
  BY <1>5, <1>6 DEF BolidWorks, WorkerNext, Drain, DrainClosed, ChooseComplete, ChooseIncomplete, PutBack,
    OpenFile, OpenFails, WriteRow
<1>7. CASE BolidUpdates \/ BolidSends \/ BolidStops \/ BolidCloses \/ BolidJoins
  BY <1>5, <1>7 DEF BolidUpdates, BolidSends, UpdateSends, SendNext, BolidStops, BolidCloses, StopCloses,
    BolidJoins, StopJoins
<1> QED BY <1>1, <1>2, <1>3, <1>4, <1>6, <1>7 DEF BolidNext

(* Each row the detector looks at is the last one.                         *)
LEMMA UpdatesCount ==
  ASSUME BolidUpdates \/ BolidReserves
  PROVE  updated' = updated + 1
BY DEF BolidUpdates, BolidReserves, Detector!NothingHeard, Detector!BolidStarts, Detector!BolidGoesOn,
  Detector!BolidReturns, Detector!BolidPauses, Detector!StillPaused, Detector!BolidEnds, Detector!NewRow

(* So its count stays in step with the ring buffer's.                      *)
LEMMA InStepStep ==
  ASSUME RingSound, InStep, DetectorProofs!DetectorIInv, BolidNext
  PROVE  InStep'
<1>1. pushed \in Nat /\ filling \in BOOLEAN /\ updated \in Nat
  BY DEF RingSound, RingTypeOK, DetectorProofs!DetectorIInv, DetectorProofs!DetectorTypeOK
<1>2. CASE BolidPushes
  BY <1>1, <1>2 DEF BolidPushes, PushRow, Push, inputVars, stateVars, InStep
<1>3. CASE BolidFills
  BY <1>1, <1>3 DEF BolidFills, FillAndStamp, FillRow, stateVars, InStep
<1>4. CASE BolidUpdates \/ BolidReserves
  <2>1. input = "updating" /\ input' \in {"reading", "sending"} /\ pushed' = pushed /\ (filling' => filling)
    BY <1>4 DEF BolidUpdates, BolidReserves, ReserveNext, Reserve, ringVars
  <2>2. ~filling /\ updated = pushed - 1
    BY <2>1 DEF InStep
  <2> QED BY <1>1, <1>4, <2>1, <2>2, UpdatesCount DEF InStep
<1>5. CASE BolidSends \/ BolidStops \/ BolidCloses \/ BolidJoins
  <2>1. /\ input # "updating" /\ input' # "updating" /\ pushed' = pushed /\ filling' = filling
        /\ updated' = updated
        /\ ~filling
    BY <1>5 DEF BolidSends, UpdateSends, SendNext, BolidStops, BolidCloses, StopCloses, BolidJoins, StopJoins,
      ringVars, stateVars, InStep
  <2> QED BY <2>1 DEF InStep
<1>6. CASE BolidWorks
  BY <1>6, WorkerLeaves DEF BolidWorks, stateVars, InStep
<1> QED BY <1>2, <1>3, <1>4, <1>5, <1>6 DEF BolidNext

(* Reserving makes the meteor's snapshot: its start, and its length up to  *)
(* that of a snapshot.  It begins before the mark, and if the gap is       *)
(* longer than the advance it ends there.                                  *)
LEMMA ReserveMakes ==
  ASSUME RingSound, InStep, SoughtIsNext, DetectorProofs!DetectorIInv, BolidReserves
  PROVE  /\ next' \in Sound'
         /\ sought' = [start |-> NextStart', length |-> 0]
<1>1. /\ input = "updating" /\ Detector!BolidEnds /\ input' = "sending"
      /\ Reserve(next.start, LengthToWrite)
      /\ next' = [next EXCEPT !.length = LengthToWrite, !.reservation = ReservedHandle]
  BY DEF BolidReserves, ReserveNext
<1>2. /\ next \in [start : Int, length : Nat, reservation : Nat, name : Int]
      /\ next.start = sought.start /\ next.length = sought.length
  BY <1>1 DEF SoughtIsNext, Snapshots
<1>3. /\ sought.start \in Int /\ sought.length \in Nat \ {0}
      /\ sought.start + sought.length = updated' + Advance + 1 - Gap
      /\ sought.start < updated'
      /\ updated' = updated + 1
      /\ sought' = [start |-> sought.start + Detector!Limited(sought.length), length |-> 0]
      /\ Gap \in Nat
  BY <1>1, MeteorEnds
<1>4. pushed' = pushed /\ filling' = filling /\ ~filling /\ updated' = pushed /\ pushed \in Nat
  <2>1. pushed' = pushed /\ filling' = filling
    BY <1>1 DEF Reserve
  <2>2. pushed \in Nat /\ updated = pushed - 1 /\ ~filling
    BY <1>1 DEF RingSound, RingTypeOK, InStep
  <2> QED BY <2>1, <2>2, <1>3
<1>5. LengthToWrite = Detector!Limited(sought.length)
  BY <1>2, <1>3 DEF LengthToWrite, Detector!Limited
<1>6. LengthToWrite \in Nat /\ LengthToWrite <= sought.length
  BY <1>3, <1>5, DetectorAssumed DEF Detector!Limited
<1>7. ReservedHandle \in Nat
  BY <1>1, <1>2, ReserveSound
<1>8. next' = [start |-> next.start, length |-> LengthToWrite, reservation |-> ReservedHandle, name |-> next.name]
  BY <1>1, <1>2
<1>9. next' \in Snapshots
  BY <1>2, <1>6, <1>7, <1>8 DEF Snapshots
<1>10. next'.start < pushed'
  BY <1>2, <1>3, <1>4, <1>8
<1>11. ASSUME Gap > Advance PROVE next'.start + next'.length <= pushed'
  <2> DEFINE a == sought.start
             n == sought.length
             l == LengthToWrite
  <2>1. a \in Int /\ n \in Nat /\ l \in Nat /\ l <= n /\ a + n = pushed + Advance + 1 - Gap
    BY <1>3, <1>4, <1>6
  <2>2. next'.start = a /\ next'.length = l /\ pushed' = pushed
    BY <1>2, <1>4, <1>8
  <2> HIDE DEF a, n, l
  <2> QED BY <2>1, <2>2, <1>3, <1>4, <1>11, DetectorAssumed
<1>12. next' \in Sound'
  BY <1>4, <1>9, <1>10, <1>11 DEF Sound, Gap, Detector!Gap
<1>13. sought' = [start |-> NextStart', length |-> 0]
  BY <1>2, <1>3, <1>5, <1>8 DEF NextStart
<1> QED BY <1>12, <1>13

(* nextSnapshot_ stays the detector's.                                     *)
LEMMA SoughtStep ==
  ASSUME RingSound, InStep, SoughtIsNext, DetectorProofs!DetectorIInv, DetectorProofs!DetectorIInv', BolidNext
  PROVE  SoughtIsNext'
<1>1. next \in Snapshots /\ rawHandles \in [Indices -> Int] /\ pushed \in Nat
  BY DEF SoughtIsNext, RingSound, RingTypeOK
<1>2. CASE BolidPushes \/ BolidStops \/ BolidCloses \/ BolidJoins \/ BolidWorks
  <2>1. next' = next /\ rawHandles' = rawHandles /\ sought' = sought
    BY <1>2, WorkerLeaves DEF BolidPushes, PushRow, BolidStops, BolidCloses, StopCloses, BolidJoins, StopJoins,
      BolidWorks, inputVars, stateVars
  <2>2. input' = input \/ input' \in {"closing", "joining", "ended"}
    BY <1>2, WorkerLeaves DEF BolidPushes, PushRow, BolidStops, BolidCloses, StopCloses, BolidJoins, StopJoins,
      BolidWorks, inputVars
  <2> QED BY <2>1, <2>2 DEF SoughtIsNext, NextStart
<1>3. CASE BolidFills
  <2>1. next' = next /\ sought' = sought /\ input' = "updating" /\ filling
    BY <1>3 DEF BolidFills, FillAndStamp, FillRow, stateVars
  <2>2. input = "reading"
    BY <2>1 DEF InStep
  <2>3. rawHandles' \in [Indices -> Int]
    <3>1. pushed - 1 \in Int /\ rawHandles' = [rawHandles EXCEPT ![Mark] = pushed - 1]
      BY <1>1, <1>3 DEF BolidFills, FillAndStamp
    <3> QED BY <3>1, <1>1
  <2> QED BY <2>1, <2>2, <2>3 DEF SoughtIsNext
<1>4. CASE BolidUpdates
  <2>1. sought'.start \in Int /\ sought'.length \in Nat
    BY DEF DetectorProofs!DetectorIInv, DetectorProofs!DetectorTypeOK
  <2>2. NormalizeRowIndex(sought'.start) \in Indices
    BY <2>1, AtInRange
  <2>3. TimeOf(sought'.start) \in Int
    BY <2>2, <1>1 DEF TimeOf
  <2>4. PICK t \in Int : next' = [next EXCEPT !.start = sought'.start, !.length = sought'.length, !.name = t]
    <3>1. next.name \in Int
      BY <1>1 DEF Snapshots
    <3> QED BY <3>1, <2>3, <1>4 DEF BolidUpdates
  <2>5. next' \in Snapshots /\ next'.start = sought'.start /\ next'.length = sought'.length
    BY <2>1, <2>4, <1>1 DEF Snapshots
  <2>6. input' = "reading" /\ rawHandles' = rawHandles
    BY <1>4 DEF BolidUpdates
  <2> QED BY <2>5, <2>6, <1>1 DEF SoughtIsNext
<1>5. CASE BolidReserves
  <2>1. next' \in Snapshots /\ sought' = [start |-> NextStart', length |-> 0]
    BY <1>5, ReserveMakes DEF Sound
  <2>2. input' = "sending" /\ rawHandles' = rawHandles
    BY <1>5 DEF BolidReserves
  <2> QED BY <2>1, <2>2, <1>1 DEF SoughtIsNext
<1>6. CASE BolidSends
  <2>1. /\ input = "sending" /\ input' = "reading" /\ rawHandles' = rawHandles /\ sought' = sought
        /\ next' = [start |-> NextStart, length |-> 0, reservation |-> 0, name |-> TimeOf(NextStart)]
    BY <1>6 DEF BolidSends, UpdateSends, SendNext, NewSnapshot, stateVars
  <2>2. NextStart \in Int
    BY <1>1 DEF NextStart, Snapshots
  <2>3. NormalizeRowIndex(NextStart) \in Indices
    BY <2>2, AtInRange
  <2>4. TimeOf(NextStart) \in Int
    BY <2>3, <1>1 DEF TimeOf
  <2>5. next' \in Snapshots
    BY <2>1, <2>2, <2>4 DEF Snapshots
  <2>6. sought = [start |-> NextStart, length |-> 0]
    BY <2>1 DEF SoughtIsNext
  <2> QED BY <2>1, <2>5, <2>6, <1>1 DEF SoughtIsNext
<1> QED BY <1>2, <1>3, <1>4, <1>5, <1>6 DEF BolidNext

(* A snapshot that is sound stays so: a row pushed can only help.          *)
LEMMA SoundKept ==
  ASSUME RingSound, BolidNext
  PROVE  Sound \subseteq Sound'
<1>1. pushed \in Nat /\ filling \in BOOLEAN
  BY DEF RingSound, RingTypeOK
<1>2. \/ pushed' = pushed + 1
      \/ pushed' = pushed /\ (filling' => filling)
  BY EitherThread, InputLeaves, WorkerLeaves
<1> SUFFICES ASSUME NEW s \in Sound PROVE s \in Sound'
  OBVIOUS
<1>3. /\ s \in Snapshots /\ s.start \in Int /\ s.length \in Nat /\ s.start < pushed
      /\ Gap > Advance => /\ s.start + s.length <= pushed
                          /\ filling => s.start + s.length < pushed
  BY DEF Sound, Snapshots
<1>4. /\ s.start < pushed'
      /\ Gap > Advance => /\ s.start + s.length <= pushed'
                          /\ filling' => s.start + s.length < pushed'
  <2>1. CASE pushed' = pushed + 1
    BY <2>1, <1>1, <1>3
  <2>2. CASE pushed' = pushed /\ (filling' => filling)
    BY <2>2, <1>3
  <2> QED BY <2>1, <2>2, <1>2
<1> QED BY <1>3, <1>4 DEF Sound, Gap, Detector!Gap

(* A sequence of some snapshots is one of more of them.                    *)
LEMMA SeqWider ==
  ASSUME NEW A, NEW B, A \subseteq B, NEW s \in Seq(A)
  PROVE  s \in Seq(B)
<1>1. Len(s) \in Nat /\ s = [i \in 1 .. Len(s) |-> s[i]]
  OBVIOUS
<1>2. \A i \in 1 .. Len(s) : s[i] \in B
  OBVIOUS
<1> QED BY <1>1, <1>2

(* Snapshots move from place to place and stay sound.                      *)
LEMMA PlacesStep ==
  ASSUME RingSound, InStep, SoughtIsNext, PlacesSound, DetectorProofs!DetectorIInv, BolidNext
  PROVE  PlacesSound'
<1> DEFINE S == Sound
           T == Sound'
<1>1. /\ queue \in Seq(S) /\ received \in Seq(S) /\ incomplete \in Seq(S)
      /\ InHands => current \in S
      /\ input = "sending" => next \in S
  BY DEF PlacesSound
<1>2. S \subseteq T
  BY SoundKept
<1>3. ASSUME /\ queue' \in Seq(S) /\ received' \in Seq(S) /\ incomplete' \in Seq(S)
             /\ InHands' => current' \in S
             /\ input' = "sending" => next' \in T
      PROVE  PlacesSound'
  <2> HIDE DEF S, T
  <2>1. queue' \in Seq(T) /\ received' \in Seq(T) /\ incomplete' \in Seq(T)
    BY <1>2, <1>3, SeqWider
  <2>2. InHands' => current' \in T
    BY <1>2, <1>3
  <2> QED BY <2>1, <2>2, <1>3 DEF PlacesSound, T
<1>4. CASE BolidSends
  <2>1. /\ queue' = Append(queue, next) /\ input = "sending" /\ input' = "reading"
        /\ UNCHANGED <<received, incomplete, worker, current>>
    BY <1>4 DEF BolidSends, UpdateSends, SendNext, workerVars
  <2> HIDE DEF S, T
  <2>2. queue' \in Seq(S)
    BY <1>1, <2>1
  <2> QED BY <1>1, <1>3, <2>1, <2>2 DEF InHands
<1>5. CASE InputStep /\ ~BolidSends
  <2>1. UNCHANGED <<queue, received, incomplete, worker, current>>
    BY <1>5, InputLeaves DEF InputStep, workerVars, BolidPushes, PushRow, BolidFills, FillAndStamp,
      BolidUpdates, BolidReserves, BolidStops, BolidCloses, StopCloses, BolidJoins, StopJoins
  <2>2. input' = "sending" => next' \in T
    <3>1. CASE BolidReserves
      BY <3>1, ReserveMakes
    <3>2. CASE ~BolidReserves
      <4>1. CASE BolidPushes
        BY <4>1, <1>1, <1>2 DEF BolidPushes, PushRow, inputVars
      <4>2. CASE BolidFills \/ BolidUpdates \/ BolidStops \/ BolidCloses \/ BolidJoins
        BY <4>2 DEF BolidFills, FillAndStamp, BolidUpdates, BolidStops, BolidCloses, StopCloses,
          BolidJoins, StopJoins
      <4> QED BY <4>1, <4>2, <3>2, <1>5 DEF InputStep
    <3> QED BY <3>1, <3>2
  <2> HIDE DEF S, T
  <2> QED BY <1>1, <1>3, <2>1, <2>2 DEF InHands
<1>6. CASE WorkerNext
  <2>1. input' = "sending" => next' \in T
    BY <1>1, <1>2, <1>6, WorkerLeaves
  <2> HIDE DEF S, T
  <2>2. CASE Drain
    <3>1. queue' = << >> /\ received' = queue /\ incomplete' = incomplete /\ ~InHands'
      BY <2>2 DEF Drain, InHands
    <3> QED BY <1>1, <1>3, <2>1, <3>1
  <2>3. CASE DrainClosed
    <3>1. queue' = queue /\ received' = received /\ incomplete' = incomplete /\ ~InHands'
      BY <2>3 DEF DrainClosed, InHands
    <3> QED BY <1>1, <1>3, <2>1, <3>1
  <2>4. CASE ChooseComplete
    <3>1. /\ queue' = queue /\ received # << >> /\ received' = Tail(received) /\ incomplete' = incomplete
          /\ current' = Head(received)
      BY <2>4 DEF ChooseComplete
    <3>2. received' \in Seq(S) /\ current' \in S
      BY <1>1, <3>1
    <3> QED BY <1>1, <1>3, <2>1, <3>1, <3>2
  <2>5. CASE ChooseIncomplete
    <3>1. /\ queue' = queue /\ received # << >> /\ received' = Tail(received)
          /\ incomplete' = Append(incomplete, Head(received)) /\ worker' = worker /\ current' = current
      BY <2>5 DEF ChooseIncomplete
    <3>2. received' \in Seq(S) /\ Head(received) \in S
      BY <1>1, <3>1
    <3>3. incomplete' \in Seq(S)
      BY <1>1, <3>1, <3>2
    <3> QED BY <1>1, <1>3, <2>1, <3>1, <3>2, <3>3 DEF InHands
  <2>6. CASE PutBack
    <3>1. /\ queue' = queue \o incomplete /\ received' = received /\ incomplete' = << >> /\ ~InHands'
      BY <2>6 DEF PutBack, QueueAfterPutBack, InHands
    <3>2. queue' \in Seq(S)
      BY <1>1, <3>1
    <3> QED BY <1>1, <1>3, <2>1, <3>1, <3>2
  <2>7. CASE OpenFile \/ OpenFails \/ WriteRow \/ Release
    <3>1. UNCHANGED <<queue, received, incomplete, current>> /\ InHands
      BY <2>7 DEF OpenFile, OpenFails, WriteRow, Release, InHands
    <3> QED BY <1>1, <1>3, <2>1, <3>1
  <2> QED BY <1>6, <2>2, <2>3, <2>4, <2>5, <2>6, <2>7 DEF WorkerNext
<1> QED BY <1>4, <1>5, <1>6, EitherThread

(* The worker finds a snapshot complete when its rows are there, or when   *)
(* it has been lapped and cannot tell.                                     *)
LEMMA CompleteStep ==
  ASSUME RingSound, PlacesSound, CurrentComplete, BolidNext
  PROVE  CurrentComplete'
<1>1. pushed \in Nat /\ Capacity \in Nat \ {0}
  BY RingMetrics DEF RingSound, RingTypeOK
<1>2. CASE InputStep
  <2>1. worker' = worker /\ current' = current /\ pushed' \in {pushed, pushed + 1}
    BY <1>2, InputLeaves DEF workerVars
  <2>2. InHands => current.start \in Int /\ current.length \in Nat
    BY DEF PlacesSound, Sound, Snapshots
  <2> QED BY <1>1, <2>1, <2>2 DEF CurrentComplete, InHands
<1>3. CASE ChooseComplete
  <2> DEFINE s == Head(received)
  <2>1. received # << >> /\ Complete(s) /\ current' = s /\ pushed' = pushed
    BY <1>3 DEF ChooseComplete, ringVars
  <2>2. s \in Sound
    <3> DEFINE S == Sound
    <3>1. received \in Seq(S)
      BY DEF PlacesSound
    <3> HIDE DEF S
    <3>2. s \in S
      BY <2>1, <3>1
    <3> QED BY <3>2 DEF S
  <2> HIDE DEF s
  <2>3. s.start \in Int /\ s.length \in Nat /\ s.start < pushed
    BY <2>2 DEF Sound, Snapshots
  <2>4. ASSUME pushed < s.start + Capacity PROVE s.start + s.length <= pushed
    <3>1. pushed - s.start \in 0 .. Capacity - 1 /\ pushed # s.start
      BY <1>1, <2>3, <2>4
    <3>2. SizeFrom(s.start) = pushed - s.start
      BY <2>3, <3>1, SizeFromStart DEF RingSound
    <3> QED BY <1>1, <2>1, <2>3, <3>2 DEF Complete
  <2> QED BY <2>1, <2>4 DEF CurrentComplete
<1>4. CASE OpenFile \/ OpenFails \/ WriteRow
  <2>1. InHands /\ current' = current /\ pushed' = pushed
    BY <1>4 DEF OpenFile, OpenFails, WriteRow, InHands, ringVars
  <2> QED BY <2>1 DEF CurrentComplete
<1>5. CASE Drain \/ DrainClosed \/ ChooseIncomplete \/ PutBack \/ Release
  <2>1. ~InHands'
    BY <1>5 DEF Drain, DrainClosed, ChooseIncomplete, PutBack, Release, InHands
  <2> QED BY <2>1 DEF CurrentComplete
<1> QED BY <1>2, <1>3, <1>4, <1>5, EitherThread DEF WorkerNext

-----------------------------------------------------------------------------
(* The files.                                                              *)

(* A row of a snapshot that is not lapped reads as itself; only the last   *)
(* may be torn.                                                            *)
LEMMA RowReadExact ==
  ASSUME RingSound, NEW s \in Sound, NEW y \in 1 .. s.length,
         s.start + s.length <= pushed, pushed < s.start + Capacity
  PROVE  RowExact(s, y, RowRead(s.start + (y - 1))) /\ RowRead(s.start + (y - 1)) \in Int
<1> DEFINE n == s.start + (y - 1)
<1>1. pushed \in Nat /\ Capacity \in Nat \ {0} /\ filling \in BOOLEAN
  BY RingMetrics DEF RingSound, RingTypeOK
<1>2. s.start \in Int /\ s.length \in Nat /\ y \in Int /\ 1 <= y /\ y <= s.length
  BY DEF Sound, Snapshots
<1>3. n \in Int /\ n < pushed /\ pushed <= n + Capacity /\ s.start + y - 1 = n
  BY <1>1, <1>2
<1>4. CASE filling /\ At(n) = slot
  <2>1. RowRead(n) = Torn
    BY <1>4 DEF RowRead
  <2>2. pushed > 0 /\ slot = At(pushed - 1)
    BY <1>4 DEF RingSound, SlotStored
  <2>3. n = pushed - 1
    <3> SUFFICES ASSUME n # pushed - 1 PROVE FALSE
      OBVIOUS
    <3>1. n < pushed - 1 /\ pushed - 1 < n + Capacity /\ pushed - 1 \in Int
      BY <1>1, <1>3
    <3> HIDE DEF n
    <3>2. At(n).chunk # At(pushed - 1).chunk \/ At(n).item # At(pushed - 1).item
      BY <1>3, <3>1, AtInjective
    <3> QED BY <3>2, <2>2, <1>4
  <2>4. y = s.length /\ s.start + s.length = pushed
    BY <1>1, <1>2, <2>3
  <2>5. Gap <= Advance
    <3>1. ~(Gap > Advance)
      <4>1. Gap > Advance => s.start + s.length < pushed
        BY <1>4 DEF Sound
      <4>2. ~(s.start + s.length < pushed)
        BY <2>4, <1>1
      <4> QED BY <4>1, <4>2
    <3>2. Gap \in Int /\ Advance \in Int
      BY DetectorAssumed DEF Gap, Detector!Gap
    <3> QED BY <3>1, <3>2
  <2> HIDE DEF n
  <2>6. RowExact(s, y, RowRead(n)) /\ RowRead(n) \in Int
    BY <2>1, <2>4, <2>5 DEF RowExact, Torn
  <2> QED BY <2>6 DEF n
<1>5. CASE ~(filling /\ At(n) = slot)
  <2>1. RowRead(n) = Contents(n)
    BY <1>5 DEF RowRead
  <2>2. filling => n < pushed - 1
    <3> SUFFICES ASSUME filling, ~(n < pushed - 1) PROVE FALSE
      OBVIOUS
    <3>1. n = pushed - 1
      BY <1>1, <1>3
    <3>2. slot = At(n)
      BY <3>1 DEF RingSound, SlotStored
    <3> QED BY <3>2, <1>5
  <2> HIDE DEF n
  <2>3. Contents(n) = Row(n)
    BY <1>3, <2>2 DEF RingSound, RowsStored
  <2>4. Row(n) \in Int
    BY <1>3 DEF Row, NeverWritten
  <2>5. RowExact(s, y, RowRead(n)) /\ RowRead(n) \in Int
    BY <1>3, <2>1, <2>3, <2>4 DEF RowExact
  <2> QED BY <2>5 DEF n
<1> QED BY <1>4, <1>5

(* The file grows by exact rows.                                           *)
LEMMA FileExactStep ==
  ASSUME RingSound, PlacesSound, CurrentComplete, FileExact, BolidNext
  PROVE  FileExact'
<1>1. pushed \in Nat /\ Capacity \in Nat \ {0} /\ rows \in Seq(Int)
  BY RingMetrics DEF RingSound, RingTypeOK, FileExact
<1>2. InHands => current \in Sound /\ current.start \in Int /\ current.length \in Nat
  BY DEF PlacesSound, Sound, Snapshots
<1>3. CASE InputStep
  <2>1. UNCHANGED <<worker, current, rows>> /\ pushed' \in {pushed, pushed + 1}
    BY <1>3, InputLeaves DEF workerVars
  <2>2. worker \in {"writing", "releasing"} /\ pushed' < current.start + Capacity
          => pushed < current.start + Capacity
    BY <1>1, <1>2, <2>1 DEF InHands
  <2> QED BY <2>1, <2>2 DEF FileExact, RowExact
<1>4. CASE Drain \/ DrainClosed \/ ChooseComplete \/ ChooseIncomplete \/ PutBack \/ Release
  <2>1. worker' \notin {"writing", "releasing"} /\ rows' = rows
    BY <1>4 DEF Drain, DrainClosed, ChooseComplete, ChooseIncomplete, PutBack, Release
  <2> QED BY <2>1 DEF FileExact
<1>5. CASE OpenFile
  <2>1. rows' = << >> /\ current' = current /\ current.length \in Nat
        /\ worker' = IF current.length = 0 THEN "releasing" ELSE "writing"
    BY <1>2, <1>5 DEF OpenFile, InHands
  <2>2. rows' \in Seq(Int) /\ Len(rows') = 0
    BY <2>1
  <2> QED BY <2>1, <2>2 DEF FileExact
<1>6. CASE OpenFails
  <2>1. rows' = << >> /\ worker' = "releasing"
    BY <1>6 DEF OpenFails
  <2>2. rows' \in Seq(Int) /\ Len(rows') = 0
    BY <2>1
  <2> QED BY <2>1, <2>2 DEF FileExact
<1>7. CASE WriteRow
  <2> DEFINE y == Len(rows) + 1
             r == RowRead(current.start + Len(rows))
  <2>1. /\ worker = "writing" /\ current' = current /\ pushed' = pushed /\ rows' = Append(rows, r)
        /\ worker' = IF y = current.length THEN "releasing" ELSE "writing"
        /\ UNCHANGED ringVars
    BY <1>7 DEF WriteRow, ringVars
  <2>2. /\ current \in Sound /\ current.start \in Int /\ current.length \in Nat
        /\ Len(rows) \in Nat /\ Len(rows) < current.length
    BY <1>1, <1>2, <2>1 DEF FileExact, InHands
  <2>3. y \in 1 .. current.length /\ current.start + Len(rows) = current.start + (y - 1)
    BY <2>2
  <2>4. r \in Int
    <3>1. current.start + Len(rows) \in Int
      BY <2>2
    <3>2. Contents(current.start + Len(rows)) \in Int
      <4> DEFINE m == current.start + Len(rows)
      <4>1. m \in Int
        BY <3>1
      <4> HIDE DEF m
      <4>2. At(m).chunk \in ChunkIndices /\ At(m).item \in ItemIndices
        BY <4>1, AtInRange
      <4>3. chunks \in [ChunkIndices -> [ItemIndices -> Int]]
        BY DEF RingSound, RingTypeOK
      <4>4. chunks[At(m).chunk] \in [ItemIndices -> Int]
        BY <4>2, <4>3
      <4>5. Contents(m) \in Int
        BY <4>2, <4>4 DEF Contents
      <4> QED BY <4>5 DEF m
    <3> QED BY <3>2 DEF RowRead, Torn
  <2> HIDE DEF r
  <2>5. /\ rows' \in Seq(Int) /\ Len(rows') = y
        /\ \A i \in 1 .. Len(rows) : rows'[i] = rows[i]
        /\ rows'[y] = r
    BY <1>1, <2>1, <2>4
  <2>6. ASSUME pushed < current.start + Capacity, NEW i \in 1 .. Len(rows')
        PROVE  RowExact(current, i, rows'[i])
    <3>1. CASE i \in 1 .. Len(rows)
      <4>1. RowExact(current, i, rows[i])
        BY <2>1, <2>6, <3>1 DEF FileExact
      <4> QED BY <4>1, <2>5, <3>1
    <3>2. CASE i = y
      <4>1. current.start + current.length <= pushed
        BY <2>1, <2>6 DEF CurrentComplete, InHands
      <4>2. RowExact(current, y, r)
        BY <2>2, <2>3, <2>6, <4>1, RowReadExact DEF r
      <4> QED BY <4>2, <2>5, <3>2
    <3> QED BY <3>1, <3>2, <2>2, <2>5
  <2>7. /\ worker' = "writing" => Len(rows') < current'.length
        /\ worker' = "releasing" => Len(rows') = current'.length
    BY <2>1, <2>2, <2>3, <2>5
  <2>8. \A i \in 1 .. Len(rows') : pushed < current.start + Capacity => RowExact(current, i, rows'[i])
    BY <2>6
  <2> HIDE DEF y
  <2> QED BY <2>1, <2>5, <2>7, <2>8 DEF FileExact, RowExact
<1> QED BY <1>3, <1>4, <1>5, <1>6, <1>7, EitherThread DEF WorkerNext

(* A file is released as it was written, and no push makes it wrong.       *)
LEMMA MeteorFilesStep ==
  ASSUME RingSound, PlacesSound, FileExact, ReleasedTyped, MeteorFilesExact, BolidNext
  PROVE  ReleasedTyped' /\ MeteorFilesExact'
<1>1. pushed \in Nat /\ Capacity \in Nat \ {0} /\ rows \in Seq(Int)
  BY RingMetrics DEF RingSound, RingTypeOK, FileExact
<1>2. CASE InputStep
  <2>1. file' = file /\ pushed' \in {pushed, pushed + 1}
    BY <1>2, InputLeaves DEF historyVars
  <2>2. file.opened /\ pushed' < file.start + Capacity => pushed < file.start + Capacity
    BY <1>1, <2>1 DEF ReleasedTyped
  <2> QED BY <2>1, <2>2 DEF ReleasedTyped, MeteorFilesExact
<1>3. CASE WorkerNext /\ ~Release
  <2>1. file' = file /\ pushed' = pushed
    BY <1>3 DEF WorkerNext, Drain, DrainClosed, ChooseComplete, ChooseIncomplete, PutBack, OpenFile, OpenFails,
      WriteRow, ringVars, historyVars
  <2> QED BY <2>1 DEF ReleasedTyped, MeteorFilesExact
<1>4. CASE Release
  <2>1. /\ file'.start = current.start /\ file'.length = current.length
        /\ file'.opened = (rows # << >>) /\ file'.rows = rows
        /\ worker = "releasing"
    BY <1>4 DEF Release
  <2>2. pushed' = pushed
    BY <1>4, WorkerLeaves DEF WorkerNext
  <2>3. current.start \in Int /\ current.length \in Nat
    BY <2>1 DEF PlacesSound, InHands, Sound, Snapshots
  <2>4. ASSUME rows # << >>, pushed < current.start + Capacity, NEW y \in 1 .. current.length
        PROVE  \/ rows[y] = Row(current.start + y - 1)
               \/ rows[y] = Torn /\ y = current.length /\ Gap <= Advance
    <3>1. Len(rows) = current.length
      BY <2>1, <2>4 DEF FileExact
    <3>2. RowExact(current, y, rows[y])
      BY <2>1, <2>4, <3>1 DEF FileExact
    <3> QED BY <3>2 DEF RowExact
  <2>5. ReleasedTyped'
    BY <2>1, <2>3 DEF ReleasedTyped
  <2>6. MeteorFilesExact'
    BY <2>1, <2>2, <2>4 DEF MeteorFilesExact, Row, Gap
  <2> QED BY <2>5, <2>6
<1> QED BY <1>2, <1>3, <1>4, EitherThread

-----------------------------------------------------------------------------
(* The invariant.                                                          *)

(* Nothing has been pushed, sent or written.                               *)
LEMMA BolidInitInvariant == BolidInit => BolidIInv
<1> SUFFICES ASSUME BolidInit PROVE BolidIInv
  OBVIOUS
<1>1. RecorderInit /\ RingInit /\ Detector!DetectorInit
  BY DEF BolidInit, RecorderInit
<1>2. pushed = 0 /\ filling = FALSE /\ Capacity \in Nat \ {0}
  BY <1>1, RingMetrics DEF RingInit
<1>3. RingTypeOK /\ HeadInPlace
  BY <1>1, InitInvariant DEF RingIInv
<1>4. RowsStored
  <2> SUFFICES ASSUME NEW n \in Int, n < pushed PROVE Contents(n) = Row(n)
    BY DEF RowsStored
  <2>1. At(n).chunk \in ChunkIndices /\ At(n).item \in ItemIndices
    BY AtInRange
  <2>2. Contents(n) = NeverWritten
    BY <2>1, <1>1 DEF RingInit, Contents
  <2>3. n < 0
    BY <1>2
  <2> QED BY <2>2, <2>3 DEF Row
<1>5. RingSound
  BY <1>2, <1>3, <1>4 DEF RingSound, SlotStored
<1>6. InStep
  BY <1>1, <1>2 DEF RecorderInit, Detector!DetectorInit, InStep
<1>7. SoughtIsNext
  BY <1>1 DEF RecorderInit, Detector!DetectorInit, SoughtIsNext, NoSnapshot, NoTime, Snapshots
<1>8. PlacesSound
  <2> DEFINE S == Sound
  <2> HIDE DEF S
  <2>1. << >> \in Seq(S)
    OBVIOUS
  <2>2. queue = << >> /\ received = << >> /\ incomplete = << >> /\ worker = "draining" /\ input = "reading"
    BY <1>1 DEF RecorderInit
  <2> QED BY <2>1, <2>2 DEF S, PlacesSound, InHands
<1>9. CurrentComplete /\ FileExact
  BY <1>1 DEF RecorderInit, CurrentComplete, InHands, FileExact
<1>10. ReleasedTyped /\ MeteorFilesExact
  BY <1>1 DEF RecorderInit, NoFile, ReleasedTyped, MeteorFilesExact
<1> QED BY <1>5, <1>6, <1>7, <1>8, <1>9, <1>10 DEF BolidIInv

(* Each step keeps it.                                                     *)
LEMMA BolidStepInvariant ==
  ASSUME BolidIInv, DetectorProofs!DetectorIInv, DetectorProofs!DetectorIInv', [BolidNext]_bolidVars
  PROVE  BolidIInv'
<1>1. CASE BolidNext
  <2> USE <1>1 DEF BolidIInv
  <2>1. RingSound' /\ InStep' /\ SoughtIsNext'
    BY RowsStep, InStepStep, SoughtStep
  <2>2. PlacesSound' /\ CurrentComplete' /\ FileExact'
    BY PlacesStep, CompleteStep, FileExactStep
  <2>3. ReleasedTyped' /\ MeteorFilesExact'
    BY MeteorFilesStep
  <2> QED BY <2>1, <2>2, <2>3
<1>2. CASE UNCHANGED bolidVars
  <2> USE <1>2 DEF bolidVars, recorderVars, stateVars, ringVars, inputVars, workerVars, historyVars
  <2>1. RingSound'
    <3>1. RingTypeOK'
      BY DEF BolidIInv, RingSound, RingTypeOK
    <3> QED BY <3>1, RowsKept DEF BolidIInv
  <2>2. InStep' /\ SoughtIsNext'
    BY DEF BolidIInv, InStep, SoughtIsNext, NextStart
  <2>3. PlacesSound'
    <3>1. Sound' = Sound
      BY DEF Sound, Gap, Detector!Gap
    <3> QED BY <3>1 DEF BolidIInv, PlacesSound, InHands
  <2>4. CurrentComplete' /\ FileExact'
    BY DEF BolidIInv, CurrentComplete, InHands, FileExact, RowExact
  <2>5. ReleasedTyped' /\ MeteorFilesExact'
    BY DEF BolidIInv, ReleasedTyped, MeteorFilesExact
  <2> QED BY <2>1, <2>2, <2>3, <2>4, <2>5 DEF BolidIInv
<1> QED BY <1>1, <1>2

(* The invariant holds of every run.                                       *)
THEOREM BolidInvariant == BolidSpec => []BolidIInv
<1>1. ASSUME BolidIInv, DetectorProofs!DetectorIInv, DetectorProofs!DetectorIInv', [BolidNext]_bolidVars
      PROVE  BolidIInv'
  BY <1>1, BolidStepInvariant
<1> QED BY <1>1, BolidInitInvariant, DetectorHolds, PTL DEF BolidSpec

(* Unless the input has lapped it, a meteor's file holds its rows in       *)
(* order, all of them filled but possibly the last, and that only when     *)
(* meteors end within the advance (threadMethod() and write() against      *)
(* processFFT() and update(), WaterfallBackend.cpp:77, 202-205 and         *)
(* 488-505, BolidRecorder.cpp:178-201).                                    *)
THEOREM MeteorFilesAreExact == BolidSpec => []MeteorFilesExact
<1>1. BolidIInv => MeteorFilesExact
  BY DEF BolidIInv
<1> QED BY <1>1, BolidInvariant, PTL
=============================================================================
