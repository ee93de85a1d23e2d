----------------------- MODULE SnapshotRecorder_proofs -----------------------
(***************************************************************************)
(* Continuous recording, for every size of buffer and snapshot, every      *)
(* stream and every speed of the worker.  The recorder's steps are steps   *)
(* of the ring buffer or leave it alone, so RingIInv carries over; what is *)
(* added says where the next snapshot is behind the mark, that the         *)
(* snapshots outstanding and released tile the rows, and what the table of *)
(* times and the file being written hold.                                  *)
(*                                                                         *)
(* Snapshots move through five places.  Outstanding puts these behind each *)
(* other, and a step leaves that sequence alone, rearranges it, puts a     *)
(* snapshot in front or takes the last one off.                            *)
(***************************************************************************)
EXTENDS SnapshotRecorder, RingBuffer2D_proofs, FiniteSetTheorems

\* The snapshot startWriting() has reserved and not sent yet.
Reserved == IF input \in {"sending", "ending"} THEN <<next>> ELSE << >>

\* The snapshot the worker is writing.
InHand == IF worker \in {"opening", "writing", "releasing"} THEN <<current>> ELSE << >>

Behind == pushed - next.start       \* how far the next snapshot is behind

\* The stream has not ended.
Streaming == input \in {"reading", "updating", "sending"}

\* The next snapshot starts at most SnapshotRows + 2 rows behind the mark, is
\* reserved when it is that far behind, and is never at the mark once there
\* are rows.
Position ==
  /\ next.start \in Nat
  /\ filling => input = "reading"
  /\ input \in {"reading", "updating"} => next.length = 0
  /\ input = "reading" =>
       Behind \in IF filling THEN 1 .. SnapshotRows + 2 ELSE 0 .. SnapshotRows + 1
  /\ input = "updating" => Behind \in 1 .. SnapshotRows + 2
  /\ input = "sending" => Behind = SnapshotRows + 2 /\ next.length = SnapshotRows
  /\ input = "ending" =>
       /\ Behind \in 0 .. SnapshotRows + 1
       /\ next.length = IF Behind \in 1 .. SnapshotRows THEN Behind ELSE SnapshotRows
  /\ input \in {"closing", "joining", "ended"} => Behind <= 1
  /\ Streaming /\ Behind = 0 => pushed = 0
  /\ input = "ending" /\ Behind = 0 => pushed = 0

\* The worker waits with nothing in its hands; the queue is closed by the
\* input thread as it leaves; and before the first row nothing has happened.
ThreadsInStep ==
  /\ worker = "draining" => received = << >> /\ incomplete = << >>
  /\ closing => input \in {"joining", "ended"}
  /\ input = "reading" /\ pushed = 0 => queue = << >> /\ worker = "draining" /\ file = NoFile

\* size() counts the rows up to a lap.
SizeCounts == size = IF pushed < Capacity THEN pushed ELSE Capacity

\* Where the snapshots made so far end.
UpTo == IF input \in {"sending", "ending"} THEN NextStart ELSE next.start

\* The rows of a snapshot, as released lists them.
Span(s) == [start |-> s.start, length |-> s.length]

\* Those of all these snapshots.
Spans(o) == {Span(o[i]) : i \in 1 .. Len(o)}

\* These spans have no row in common.
Apart(s, t) == s.start + s.length <= t.start \/ t.start + t.length <= s.start

\* These spans divide the rows from 0 up to upTo.
Tiled(all, upTo) ==
  /\ all \subseteq [start : Nat, length : Nat \ {0}]
  /\ \A s \in all : s.start + s.length <= upTo
  /\ \A s, t \in all : s # t => Apart(s, t)
  /\ \A n \in 0 .. upTo - 1 : \E s \in all : n \in RangeOf(s)

\* The snapshots outstanding and released do, and none is counted twice.
Tiles ==
  /\ Tiled(Spans(Outstanding) \cup released, UpTo)
  /\ \A i, j \in 1 .. Len(Outstanding) : i # j => Span(Outstanding[i]) # Span(Outstanding[j])
  /\ \A i \in 1 .. Len(Outstanding) : Span(Outstanding[i]) \notin released

\* The rows of an outstanding snapshot have been pushed, the one being filled
\* is not among them, and its name is the time of the row before its first.
SnapshotsInTime ==
  \A s \in ToSet(Outstanding) :
    /\ pushed > 0 => s.start + s.length <= pushed
    /\ filling => s.start + s.length < pushed
    /\ s.name = s.start - 1

\* So is the next one's.
NextNamed == Streaming \/ input = "ending" => next.name = next.start - 1

\* The table of times holds the last lap: under a mark, the time of the row
\* before it.
TimesStored ==
  \A k \in 0 .. pushed :
    (filling => k < pushed) /\ pushed < k + Capacity => TimeOf(k) = k - 1

\* The file is as long as its snapshot when it is finished; and unless its
\* first row has been lapped, it holds its rows and its name's time.
FileInStep ==
  /\ worker = "writing" => Len(rows) < current.length
  /\ worker = "releasing" => rows = << >> \/ Len(rows) = current.length
  /\ worker \in {"writing", "releasing"} /\ 0 < pushed /\ pushed < current.start + Capacity =>
       /\ \A y \in 1 .. Len(rows) : rows[y] = current.start + y - 1
       /\ worker = "writing" \/ rows # << >> => stamp = current.name

\* The inductive invariant.
RecorderIInv ==
  /\ RingIInv
  /\ RecorderTypeOK
  /\ Position
  /\ ThreadsInStep
  /\ SizeCounts
  /\ ReservationsMatch
  /\ Tiles
  /\ SnapshotsInTime
  /\ NextNamed
  /\ TimesStored
  /\ FileInStep
  /\ CleanFilesExact

-----------------------------------------------------------------------------
(* Sequences.                                                              *)

\* t has the elements of s in another order.
Rearranged(s, t) ==
  /\ Len(s) = Len(t)
  /\ \E p \in [1 .. Len(t) -> 1 .. Len(s)] :
        /\ \A i, j \in 1 .. Len(t) : p[i] = p[j] => i = j
        /\ \A k \in 1 .. Len(s) : \E i \in 1 .. Len(t) : p[i] = k
        /\ \A i \in 1 .. Len(t) : t[i] = s[p[i]]

(* A sequence is a rearrangement of itself.                                *)
LEMMA SameRearranged ==
  ASSUME NEW S, NEW s \in Seq(S)
  PROVE  Rearranged(s, s)
<1> DEFINE p == [i \in 1 .. Len(s) |-> i]
<1>1. p \in [1 .. Len(s) -> 1 .. Len(s)]
  OBVIOUS
<1>2. \A i, j \in 1 .. Len(s) : p[i] = p[j] => i = j
  OBVIOUS
<1>3. \A k \in 1 .. Len(s) : \E i \in 1 .. Len(s) : p[i] = k
  OBVIOUS
<1>4. \A i \in 1 .. Len(s) : s[i] = s[p[i]]
  OBVIOUS
<1> HIDE DEF p
<1> QED BY <1>1, <1>2, <1>3, <1>4 DEF Rearranged

(* Moving an element over those that follow it rearranges.                 *)
LEMMA MovedRearranged ==
  ASSUME NEW S, NEW a \in Seq(S), NEW x \in S, NEW b \in Seq(S), NEW c \in Seq(S)
  PROVE  Rearranged((a \o (<<x>> \o b)) \o c, (a \o (b \o <<x>>)) \o c)
<1> DEFINE one == <<x>>
           xb  == one \o b
           bx  == b \o one
           axb == a \o xb
           abx == a \o bx
           s   == axb \o c
           t   == abx \o c
           la  == Len(a)
           lb  == Len(b)
           lc  == Len(c)
           n   == la + 1 + lb + lc
           p   == [i \in 1 .. n |->
                     IF i <= la THEN i ELSE IF i <= la + lb THEN i + 1
                     ELSE IF i = la + lb + 1 THEN la + 1 ELSE i]
<1>1. one \in Seq(S)
  OBVIOUS
<1>2. Len(one) = 1 /\ one[1] = x
  OBVIOUS
<1> HIDE DEF one
<1>3. xb \in Seq(S)
  BY <1>1
<1>4. /\ Len(xb) = Len(one) + Len(b)
      /\ \A i \in 1 .. Len(one) : xb[i] = one[i]
      /\ \A i \in 1 .. Len(b) : xb[Len(one) + i] = b[i]
  BY <1>1
<1> HIDE DEF xb
<1>5. bx \in Seq(S)
  BY <1>1
<1>6. /\ Len(bx) = Len(b) + Len(one)
      /\ \A i \in 1 .. Len(b) : bx[i] = b[i]
      /\ \A i \in 1 .. Len(one) : bx[Len(b) + i] = one[i]
  BY <1>1
<1> HIDE DEF bx
<1>7. axb \in Seq(S)
  BY <1>3
<1>8. /\ Len(axb) = Len(a) + Len(xb)
      /\ \A i \in 1 .. Len(a) : axb[i] = a[i]
      /\ \A i \in 1 .. Len(xb) : axb[Len(a) + i] = xb[i]
  BY <1>3
<1> HIDE DEF axb
<1>9. abx \in Seq(S)
  BY <1>5
<1>10. /\ Len(abx) = Len(a) + Len(bx)
       /\ \A i \in 1 .. Len(a) : abx[i] = a[i]
       /\ \A i \in 1 .. Len(bx) : abx[Len(a) + i] = bx[i]
  BY <1>5
<1> HIDE DEF abx
<1>11. s \in Seq(S)
  BY <1>7
<1>12. /\ Len(s) = Len(axb) + Len(c)
       /\ \A i \in 1 .. Len(axb) : s[i] = axb[i]
       /\ \A i \in 1 .. Len(c) : s[Len(axb) + i] = c[i]
  BY <1>7
<1> HIDE DEF s
<1>13. t \in Seq(S)
  BY <1>9
<1>14. /\ Len(t) = Len(abx) + Len(c)
       /\ \A i \in 1 .. Len(abx) : t[i] = abx[i]
       /\ \A i \in 1 .. Len(c) : t[Len(abx) + i] = c[i]
  BY <1>9
<1> HIDE DEF t
<1>15. la \in Nat /\ lb \in Nat /\ lc \in Nat
  OBVIOUS
<1>16. Len(xb) = lb + 1 /\ Len(bx) = lb + 1 /\ Len(axb) = la + lb + 1 /\ Len(abx) = la + lb + 1
  BY <1>2, <1>4, <1>6, <1>8, <1>10
<1>17. /\ \A i \in 1 .. Len(xb) : axb[la + i] = xb[i]
       /\ \A i \in 1 .. Len(bx) : abx[la + i] = bx[i]
  BY <1>3, <1>5 DEF axb, abx
<1> HIDE DEF la, lb, lc
<1>18. /\ \A i \in 1 .. lb + 1 : axb[la + i] = xb[i]
       /\ \A i \in 1 .. lb + 1 : abx[la + i] = bx[i]
  BY <1>16, <1>17
<1>19. /\ \A i \in 1 .. la + lb + 1 : s[i] = axb[i]
       /\ \A i \in 1 .. la + lb + 1 : t[i] = abx[i]
  BY <1>12, <1>14, <1>16
<1>20. Len(s) = n /\ Len(t) = n
  BY <1>12, <1>14, <1>15, <1>16 DEF lc
<1>21. \A i \in 1 .. la : s[i] = a[i] /\ t[i] = a[i]
  BY <1>8, <1>10, <1>12, <1>14, <1>15, <1>16 DEF la
<1>22. s[la + 1] = x /\ t[la + lb + 1] = x
  <2>1. xb[1] = x /\ bx[lb + 1] = x
    BY <1>2, <1>4, <1>6 DEF lb
  <2>2. axb[la + 1] = x
    BY <2>1, <1>15, <1>18
  <2>3. abx[la + (lb + 1)] = x
    BY <2>1, <1>15, <1>18
  <2> QED BY <2>2, <2>3, <1>15, <1>19
<1>23. ASSUME NEW i \in 1 .. lb PROVE s[la + i + 1] = b[i] /\ t[la + i] = b[i]
  <2>1. xb[1 + i] = b[i] /\ bx[i] = b[i]
    BY <1>2, <1>4, <1>6 DEF lb
  <2>2. 1 + i \in 1 .. lb + 1 /\ i \in 1 .. lb + 1
    BY <1>15
  <2>3. axb[la + (1 + i)] = b[i] /\ abx[la + i] = b[i]
    BY <2>1, <2>2, <1>18
  <2>4. la + (1 + i) = la + i + 1 /\ la + i + 1 \in 1 .. la + lb + 1 /\ la + i \in 1 .. la + lb + 1
    BY <1>15
  <2> QED BY <2>3, <2>4, <1>19
<1>24. \A i \in 1 .. lc : s[la + lb + 1 + i] = c[i] /\ t[la + lb + 1 + i] = c[i]
  BY <1>12, <1>14, <1>15, <1>16 DEF lc
<1>25. p \in [1 .. n -> 1 .. n]
  BY <1>15
<1>26. \A i, j \in 1 .. n : p[i] = p[j] => i = j
  BY <1>15
<1>27. \A k \in 1 .. n : \E i \in 1 .. n : p[i] = k
  <2> TAKE k \in 1 .. n
  <2> DEFINE i == IF k <= la THEN k ELSE IF k = la + 1 THEN la + lb + 1
                  ELSE IF k <= la + 1 + lb THEN k - 1 ELSE k
  <2>1. i \in 1 .. n
    BY <1>15
  <2>2. p[i] = k
    BY <2>1, <1>15
  <2> QED BY <2>1, <2>2
<1>28. \A i \in 1 .. n : t[i] = s[p[i]]
  <2> TAKE i \in 1 .. n
  <2>1. CASE i <= la
    BY <2>1, <1>15, <1>21
  <2>2. CASE la < i /\ i <= la + lb
    <3> DEFINE k == i - la
    <3>1. k \in 1 .. lb /\ i = la + k /\ p[i] = la + k + 1
      BY <2>2, <1>15
    <3> QED BY <3>1, <1>23
  <2>3. CASE i = la + lb + 1
    <3>1. p[i] = la + 1
      BY <2>3, <1>15
    <3> QED BY <2>3, <3>1, <1>22
  <2>4. CASE la + lb + 1 < i
    <3> DEFINE k == i - (la + lb + 1)
    <3>1. k \in 1 .. lc /\ i = la + lb + 1 + k /\ p[i] = la + lb + 1 + k
      BY <2>4, <1>15
    <3> QED BY <3>1, <1>24
  <2> QED BY <2>1, <2>2, <2>3, <2>4, <1>15
<1> HIDE DEF p, n
<1>29. Len(t) = n /\ Len(s) = n
  BY <1>20
<1>30. Rearranged(s, t)
  <2>1. p \in [1 .. Len(t) -> 1 .. Len(s)]
    BY <1>25, <1>29, Zenon
  <2>2. /\ \A i, j \in 1 .. Len(t) : p[i] = p[j] => i = j
        /\ \A k \in 1 .. Len(s) : \E i \in 1 .. Len(t) : p[i] = k
        /\ \A i \in 1 .. Len(t) : t[i] = s[p[i]]
    BY <1>26, <1>27, <1>28, <1>29, Zenon
  <2>3. Len(s) = Len(t)
    BY <1>29, Zenon
  <2> QED BY <2>1, <2>2, <2>3, Zenon DEF Rearranged
<1> QED BY <1>30 DEF s, t, axb, abx, xb, bx, one

-----------------------------------------------------------------------------
(* Sizes.                                                                  *)

(* The buffer is larger than any snapshot, by the rows update() waits for. *)
LEMMA CapacityAmple ==
  /\ SnapshotRows \in Nat \ {0}
  /\ Capacity \in Nat \ {0}
  /\ SnapshotRows + 2 < Capacity
<1>1. Capacity >= MinCapacity
  BY CapacityCovers
<1>2. MinCapacity \in Nat
  BY RingSizes
<1> QED BY <1>1, <1>2, RingMetrics, RecorderSizes

(* size(start, mark) is how far start is behind the mark, less than a lap, *)
(* but for no rows: then it is a whole lap.                                *)
LEMMA SizeFromStart ==
  ASSUME RingTypeOK, HeadInPlace, NEW start \in Int, pushed - start \in 0 .. Capacity - 1
  PROVE  SizeFrom(start) = IF pushed = start THEN Capacity ELSE pushed - start
<1> DEFINE d == pushed - start
           q == start \div Capacity
           s == start % Capacity
           e == pushed % Capacity
<1>1. Capacity \in Nat \ {0} /\ pushed \in Nat
  BY RingMetrics DEF RingTypeOK
<1>2. q \in Int /\ s \in 0 .. Capacity - 1 /\ start = q * Capacity + s
  BY <1>1, DivMod
<1>3. e \in 0 .. Capacity - 1
  BY <1>1, DivMod
<1>4. NormalizeRowIndex(start) = s /\ NormalizeRowIndex(Mark) = e
  <2>1. Mark = e
    BY DEF Mark, HeadInPlace
  <2>2. e % Capacity = e
    BY <1>1, <1>3, ModSmall
  <2> QED BY <2>1, <2>2 DEF NormalizeRowIndex
<1>5. SizeFrom(start) = IF e > s THEN e - s ELSE (Capacity - s) + e
  BY <1>4 DEF SizeFrom, SizeBetween
<1>6. d \in 0 .. Capacity - 1 /\ pushed = start + d
  BY <1>1
<1> HIDE DEF d, q, s
<1>7. CASE s + d < Capacity
  <2>1. pushed = q * Capacity + (s + d)
    BY <1>1, <1>2, <1>6
  <2>2. s + d \in 0 .. Capacity - 1
    BY <1>1, <1>2, <1>6, <1>7
  <2>3. e = s + d
    BY <2>1, <2>2, <1>1, <1>2, ModUnique
  <2> HIDE DEF e
  <2> QED BY <2>3, <1>1, <1>2, <1>5, <1>6
<1>8. CASE s + d >= Capacity
  <2>1. pushed = (q + 1) * Capacity + (s + d - Capacity)
    <3>1. (q + 1) * Capacity = q * Capacity + Capacity
      BY <1>1, <1>2
    <3> QED BY <3>1, <1>1, <1>2, <1>6
  <2>2. s + d - Capacity \in 0 .. Capacity - 1 /\ q + 1 \in Int
    BY <1>1, <1>2, <1>6, <1>8
  <2>3. e = s + d - Capacity
    BY <2>1, <2>2, <1>1, ModUnique
  <2> HIDE DEF e
  <2> QED BY <2>3, <1>1, <1>2, <1>5, <1>6, <1>8
<1> QED BY <1>1, <1>2, <1>6, <1>7, <1>8

(* What startWriting() works out from it.                                  *)
LEMMA NextLength ==
  ASSUME RecorderTypeOK, RingIInv, Position,
         input = "updating" \/ (input = "reading" /\ ~filling)
  PROVE  /\ Behind \in 0 .. SnapshotRows + 2
         /\ SizeFrom(next.start) = IF Behind = 0 THEN Capacity ELSE Behind
         /\ LengthToWrite = IF Behind \in 1 .. SnapshotRows THEN Behind ELSE SnapshotRows
         /\ LengthToWrite \in 1 .. SnapshotRows
         /\ pushed < next.start + Capacity
<1> DEFINE d == Behind
           wanted == SizeFrom(next.start)
<1>1. next.start \in Nat /\ pushed \in Nat /\ next.length = 0 /\ d = pushed - next.start
  BY DEF Position, RecorderTypeOK, RingTypeOK, Behind
<1>2. d \in 0 .. SnapshotRows + 2
  BY CapacityAmple DEF Position
<1>3. pushed - next.start \in 0 .. Capacity - 1
  BY <1>1, <1>2, CapacityAmple
<1>4. wanted = IF pushed = next.start THEN Capacity ELSE pushed - next.start
  BY <1>1, <1>3, SizeFromStart DEF RingIInv
<1>5. LengthToWrite = IF SnapshotRows < wanted THEN SnapshotRows ELSE wanted
  BY <1>1 DEF LengthToWrite
<1> HIDE DEF d, wanted
<1>6. wanted = IF d = 0 THEN Capacity ELSE d
  BY <1>1, <1>4, <1>2
<1>7. LengthToWrite = IF d \in 1 .. SnapshotRows THEN d ELSE SnapshotRows
  BY <1>2, <1>5, <1>6, CapacityAmple
<1>8. LengthToWrite \in 1 .. SnapshotRows
  BY <1>2, <1>7, CapacityAmple
<1>9. pushed < next.start + Capacity
  BY <1>1, <1>3, CapacityAmple
<1> QED BY <1>2, <1>6, <1>7, <1>8, <1>9 DEF d, wanted

-----------------------------------------------------------------------------
(* The places snapshots are in.                                            *)

\* The snapshots in five places, one place behind the other: reserved, in the
\* channel, drained, to be put back, and in hand.
Line(p, q, r, i, h) == (((p \o q) \o r) \o i) \o h

\* Each of the worker's places holds snapshots.
PlacesHoldSnapshots ==
  /\ queue \in Seq(Snapshots)
  /\ received \in Seq(Snapshots)
  /\ incomplete \in Seq(Snapshots)
  /\ current \in Snapshots

(* So does a line of them.                                                 *)
LEMMA LineTyped ==
  ASSUME PlacesHoldSnapshots, NEW p \in Seq(Snapshots)
  PROVE  /\ InHand \in Seq(Snapshots)
         /\ Line(p, queue, received, incomplete, InHand) \in Seq(Snapshots)
<1>1. queue \in Seq(Snapshots)
  BY DEF PlacesHoldSnapshots
<1>2. received \in Seq(Snapshots)
  BY DEF PlacesHoldSnapshots
<1>3. incomplete \in Seq(Snapshots)
  BY DEF PlacesHoldSnapshots
<1>4. InHand \in Seq(Snapshots)
  <2>1. current \in Snapshots
    BY DEF PlacesHoldSnapshots
  <2>2. <<current>> \in Seq(Snapshots)
    BY <2>1
  <2> QED BY <2>2 DEF InHand
<1>5. (((p \o queue) \o received) \o incomplete) \o InHand \in Seq(Snapshots)
  BY <1>1, <1>2, <1>3, <1>4
<1> QED BY <1>4, <1>5 DEF Line

(* The snapshot being written is the last in line.                         *)
LEMMA LastInLine ==
  ASSUME PlacesHoldSnapshots, NEW p \in Seq(Snapshots), worker \in {"opening", "writing", "releasing"}
  PROVE  LET line == Line(p, queue, received, incomplete, InHand)
         IN  Len(line) \in 1 .. Len(line) /\ line[Len(line)] = current
<1> DEFINE o == ((p \o queue) \o received) \o incomplete
<1>1. queue \in Seq(Snapshots)
  BY DEF PlacesHoldSnapshots
<1>2. received \in Seq(Snapshots)
  BY DEF PlacesHoldSnapshots
<1>3. incomplete \in Seq(Snapshots)
  BY DEF PlacesHoldSnapshots
<1>4. o \in Seq(Snapshots)
  BY <1>1, <1>2, <1>3
<1>5. current \in Snapshots
  BY DEF PlacesHoldSnapshots
<1>6. Line(p, queue, received, incomplete, InHand) = o \o <<current>>
  BY DEF Line, InHand
<1> HIDE DEF o
<1>7. Len(o \o <<current>>) = Len(o) + 1 /\ (o \o <<current>>)[Len(o) + 1] = current
  BY <1>4, <1>5
<1>8. Len(o) \in Nat
  BY <1>4
<1> QED BY <1>6, <1>7, <1>8

(* Draining and putting back move whole places over empty ones, and the    *)
(* worker's other steps on a file move nothing.                            *)
LEMMA LineKept ==
  ASSUME PlacesHoldSnapshots, NEW p \in Seq(Snapshots),
         worker = "draining" => received = << >> /\ incomplete = << >>,
         Drain \/ DrainClosed \/ PutBack \/ OpenFile \/ OpenFails \/ WriteRow
  PROVE  Line(p, queue', received', incomplete', InHand') = Line(p, queue, received, incomplete, InHand)
<1>1. queue \in Seq(Snapshots)
  BY DEF PlacesHoldSnapshots
<1>2. incomplete \in Seq(Snapshots)
  BY DEF PlacesHoldSnapshots
<1>3. InHand' = InHand
  BY DEF InHand, Drain, DrainClosed, PutBack, OpenFile, OpenFails, WriteRow, workerVars
<1>4. CASE Drain
  <2>1. queue' = << >> /\ received' = queue /\ incomplete' = << >> /\ received = << >> /\ incomplete = << >>
    BY <1>4 DEF Drain
  <2>2. ((p \o << >>) \o queue) \o << >> = ((p \o queue) \o << >>) \o << >>
    BY <1>1
  <2> QED BY <2>1, <2>2, <1>3 DEF Line
<1>5. CASE PutBack
  <2>1. queue' = queue \o incomplete /\ received' = << >> /\ incomplete' = << >> /\ received = << >>
    BY <1>5 DEF PutBack, QueueAfterPutBack
  <2>2. ((p \o (queue \o incomplete)) \o << >>) \o << >> = ((p \o queue) \o << >>) \o incomplete
    BY <1>1, <1>2
  <2> QED BY <2>1, <2>2, <1>3 DEF Line
<1>6. CASE DrainClosed \/ OpenFile \/ OpenFails \/ WriteRow
  <2>1. queue' = queue /\ received' = received /\ incomplete' = incomplete
    BY <1>6 DEF DrainClosed, OpenFile, OpenFails, WriteRow
  <2> QED BY <2>1, <1>3
<1> QED BY <1>4, <1>5, <1>6

(* Sending the next snapshot moves it over the queue.                      *)
LEMMA LineSent ==
  ASSUME PlacesHoldSnapshots, NEW x \in Snapshots
  PROVE  Rearranged(Line(<<x>>, queue, received, incomplete, InHand),
                    Line(<< >>, Append(queue, x), received, incomplete, InHand))
<1>1. queue \in Seq(Snapshots)
  BY DEF PlacesHoldSnapshots
<1>2. received \in Seq(Snapshots)
  BY DEF PlacesHoldSnapshots
<1>3. incomplete \in Seq(Snapshots)
  BY DEF PlacesHoldSnapshots
<1> DEFINE e == << >>
           h == InHand
<1>4. e \in Seq(Snapshots)
  OBVIOUS
<1>5. h \in Seq(Snapshots)
  BY <1>4, LineTyped
<1> HIDE DEF h
<1> DEFINE c == (received \o incomplete) \o h
<1>6. c \in Seq(Snapshots)
  BY <1>2, <1>3, <1>5
<1>7. Rearranged((e \o (<<x>> \o queue)) \o c, (e \o (queue \o <<x>>)) \o c)
  <2> HIDE DEF c, e
  <2> QED BY <1>1, <1>4, <1>6, MovedRearranged
<1>8. ASSUME NEW s \in Seq(Snapshots)
      PROVE  (e \o s) \o c = (((e \o s) \o received) \o incomplete) \o h /\ e \o s = s
  <2>1. e \o s = s
    OBVIOUS
  <2> DEFINE r == received \o incomplete
  <2>2. r \in Seq(Snapshots)
    BY <1>2, <1>3
  <2>3. s \o r = (s \o received) \o incomplete
    BY <1>2, <1>3
  <2> HIDE DEF r
  <2>4. s \o (r \o h) = (s \o r) \o h
    BY <1>5, <2>2
  <2> QED BY <2>1, <2>3, <2>4, Zenon DEF r
<1>9. /\ <<x>> \o queue \in Seq(Snapshots)
      /\ queue \o <<x>> \in Seq(Snapshots)
      /\ queue \o <<x>> = Append(queue, x)
  BY <1>1
<1> HIDE DEF e, c
<1>10. /\ (e \o (<<x>> \o queue)) \o c = (((<<x>> \o queue) \o received) \o incomplete) \o h
       /\ (e \o (queue \o <<x>>)) \o c = (((e \o Append(queue, x)) \o received) \o incomplete) \o h
  BY <1>8, <1>9
<1> QED BY <1>7, <1>10 DEF Line, h, e

(* Looking at a received snapshot moves it over the rest of them and the   *)
(* incomplete ones.                                                        *)
LEMMA LineChosen ==
  ASSUME PlacesHoldSnapshots, NEW p \in Seq(Snapshots), ChooseComplete \/ ChooseIncomplete
  PROVE  Rearranged(Line(p, queue, received, incomplete, InHand),
                    Line(p, queue', received', incomplete', InHand'))
<1>1. queue \in Seq(Snapshots)
  BY DEF PlacesHoldSnapshots
<1>2. received \in Seq(Snapshots)
  BY DEF PlacesHoldSnapshots
<1>3. incomplete \in Seq(Snapshots)
  BY DEF PlacesHoldSnapshots
<1> DEFINE h == Head(received)
           t == Tail(received)
           a == p \o queue
           b == t \o incomplete
           e == << >>
<1>4. received # << >>
  BY DEF ChooseComplete, ChooseIncomplete
<1>5. h \in Snapshots
  BY <1>4, <1>2
<1>6. t \in Seq(Snapshots)
  BY <1>4, <1>2
<1>7. received = <<h>> \o t
  BY <1>4, <1>2
<1> HIDE DEF h, t
<1>8. a \in Seq(Snapshots)
  BY <1>1
<1>9. b \in Seq(Snapshots)
  BY <1>3, <1>6
<1>10. e \in Seq(Snapshots)
  OBVIOUS
<1>11. Rearranged((a \o (<<h>> \o b)) \o e, (a \o (b \o <<h>>)) \o e)
  <2> HIDE DEF a, b, e
  <2> QED BY <1>5, <1>8, <1>9, <1>10, MovedRearranged
<1>12. queue' = queue /\ received' = t /\ InHand = e
  BY DEF InHand, ChooseComplete, ChooseIncomplete, t
<1>13. (a \o (<<h>> \o b)) \o e = ((a \o (<<h>> \o t)) \o incomplete) \o e
  <2> HIDE DEF a
  <2>1. <<h>> \o (t \o incomplete) = (<<h>> \o t) \o incomplete
    BY <1>3, <1>5, <1>6
  <2> DEFINE u == <<h>> \o t
  <2>2. u \in Seq(Snapshots)
    BY <1>5, <1>6
  <2> HIDE DEF u
  <2>3. a \o (u \o incomplete) = (a \o u) \o incomplete
    BY <1>3, <1>8, <2>2
  <2> QED BY <2>1, <2>3 DEF u
<1>14. Line(p, queue, received, incomplete, InHand) = (a \o (<<h>> \o b)) \o e
  BY <1>7, <1>12, <1>13 DEF Line
<1>15. CASE ChooseComplete
  <2>1. incomplete' = incomplete /\ InHand' = <<h>>
    BY <1>15 DEF InHand, ChooseComplete, h
  <2> HIDE DEF a
  <2>2. (a \o (b \o <<h>>)) \o e = ((a \o t) \o incomplete) \o <<h>>
    BY <1>3, <1>5, <1>6, <1>8
  <2>3. Line(p, queue', received', incomplete', InHand') = (a \o (b \o <<h>>)) \o e
    BY <1>12, <2>1, <2>2 DEF Line, a
  <2> QED BY <1>11, <1>14, <2>3
<1>16. CASE ChooseIncomplete
  <2>1. incomplete' = Append(incomplete, h) /\ InHand' = e
    BY <1>16 DEF InHand, ChooseIncomplete, h
  <2>2. (a \o (b \o <<h>>)) \o e = ((a \o t) \o Append(incomplete, h)) \o e
    <3> HIDE DEF a
    <3>1. Append(incomplete, h) = incomplete \o <<h>>
      BY <1>3, <1>5
    <3> DEFINE u == incomplete \o <<h>>
    <3>2. u \in Seq(Snapshots) /\ (t \o incomplete) \o <<h>> = t \o u
      BY <1>3, <1>5, <1>6
    <3>3. u \in Seq(Snapshots)
      BY <3>2
    <3> HIDE DEF u
    <3>4. a \o (t \o u) = (a \o t) \o u
      BY <1>6, <1>8, <3>3
    <3> QED BY <3>1, <3>2, <3>4 DEF u
  <2>3. Line(p, queue', received', incomplete', InHand') = (a \o (b \o <<h>>)) \o e
    BY <1>12, <2>1, <2>2 DEF Line
  <2> QED BY <1>11, <1>14, <2>3
<1> QED BY <1>15, <1>16

(* Reserving puts a snapshot in front.                                     *)
LEMMA LineAdded ==
  ASSUME PlacesHoldSnapshots, NEW x \in Snapshots
  PROVE  Line(<<x>>, queue, received, incomplete, InHand)
           = <<x>> \o Line(<< >>, queue, received, incomplete, InHand)
<1>1. queue \in Seq(Snapshots)
  BY DEF PlacesHoldSnapshots
<1>2. received \in Seq(Snapshots)
  BY DEF PlacesHoldSnapshots
<1>3. incomplete \in Seq(Snapshots)
  BY DEF PlacesHoldSnapshots
<1> DEFINE e == << >>
<1>4. e \in Seq(Snapshots)
  OBVIOUS
<1>5. InHand \in Seq(Snapshots)
  BY <1>4, LineTyped
<1>6. (((<<x>> \o queue) \o received) \o incomplete) \o InHand
        = <<x>> \o ((((<< >> \o queue) \o received) \o incomplete) \o InHand)
  <2> DEFINE i == InHand
             one == <<x>>
             r == queue \o received
             c == r \o incomplete
  <2>1. /\ one \in Seq(Snapshots) /\ r \in Seq(Snapshots)
        /\ << >> \o queue = queue
        /\ (one \o queue) \o received = one \o r
    BY <1>1, <1>2
  <2>2. i \in Seq(Snapshots)
    BY <1>5
  <2> HIDE DEF i, one, r
  <2>3. one \in Seq(Snapshots) /\ r \in Seq(Snapshots)
    BY <2>1
  <2>4. c \in Seq(Snapshots)
    BY <1>3, <2>3
  <2>5. (one \o r) \o incomplete = one \o c
    BY <1>3, <2>3
  <2> HIDE DEF c
  <2>6. (one \o c) \o i = one \o (c \o i)
    BY <2>2, <2>3, <2>4
  <2> QED BY <2>1, <2>5, <2>6, Zenon DEF c, i, one, r
<1> QED BY <1>6 DEF Line

(* Releasing takes off the last.                                           *)
LEMMA LineReleased ==
  ASSUME PlacesHoldSnapshots, NEW p \in Seq(Snapshots), Release
  PROVE  /\ Line(p, queue', received', incomplete', InHand') \in Seq(Snapshots)
         /\ Line(p, queue, received, incomplete, InHand)
              = Line(p, queue', received', incomplete', InHand') \o <<current>>
<1>1. queue \in Seq(Snapshots)
  BY DEF PlacesHoldSnapshots
<1>2. received \in Seq(Snapshots)
  BY DEF PlacesHoldSnapshots
<1>3. incomplete \in Seq(Snapshots)
  BY DEF PlacesHoldSnapshots
<1> DEFINE o == ((p \o queue) \o received) \o incomplete
<1>4. o \in Seq(Snapshots)
  BY <1>1, <1>2, <1>3
<1>5. /\ queue' = queue /\ received' = received /\ incomplete' = incomplete
      /\ InHand = <<current>> /\ InHand' = << >>
  BY DEF InHand, Release
<1>6. /\ Line(p, queue', received', incomplete', InHand') = o \o << >>
      /\ Line(p, queue, received, incomplete, InHand) = o \o <<current>>
  BY <1>5 DEF Line
<1> HIDE DEF o
<1>7. o \o << >> = o
  BY <1>4
<1> QED BY <1>4, <1>6, <1>7

(* What is outstanding is the line behind what is reserved.                *)
LEMMA OutstandingLine ==
  /\ Outstanding = Line(Reserved, queue, received, incomplete, InHand)
  /\ Outstanding' = Line(Reserved', queue', received', incomplete', InHand')
BY Zenon DEF Outstanding, OutstandingWith, Reserved, InHand, Line

(* The recorder's places hold snapshots.                                   *)
LEMMA PlacesTyped ==
  ASSUME RecorderTypeOK
  PROVE  /\ PlacesHoldSnapshots
         /\ Reserved \in Seq(Snapshots)
         /\ Outstanding \in Seq(Snapshots)
<1>1. PlacesHoldSnapshots
  BY DEF RecorderTypeOK, PlacesHoldSnapshots
<1>2. Reserved \in Seq(Snapshots)
  <2>1. next \in Snapshots
    BY DEF RecorderTypeOK
  <2>2. <<next>> \in Seq(Snapshots)
    BY <2>1
  <2> QED BY <2>2 DEF Reserved
<1> QED BY <1>1, <1>2, LineTyped, OutstandingLine

(* The snapshot being written is the last of those outstanding.            *)
LEMMA CurrentIsLast ==
  ASSUME RecorderTypeOK, worker \in {"opening", "writing", "releasing"}
  PROVE  Len(Outstanding) \in 1 .. Len(Outstanding) /\ Outstanding[Len(Outstanding)] = current
BY PlacesTyped, LastInLine, OutstandingLine

(* Some steps leave all snapshots in their order.                          *)
LEMMA SameOutstanding ==
  ASSUME RecorderTypeOK, Position, ThreadsInStep,
         \/ PushRow
         \/ FillAndStamp
         \/ Update /\ ~Full
         \/ StopCloses
         \/ StopJoins
         \/ Drain
         \/ DrainClosed
         \/ PutBack
         \/ OpenFile
         \/ OpenFails
         \/ WriteRow
  PROVE  Outstanding' = Outstanding
<1>1. Reserved' = Reserved
  BY DEF Reserved, Position, PushRow, FillAndStamp, FillRow, Update, StopCloses, StopJoins, Drain,
    DrainClosed, PutBack, OpenFile, OpenFails, WriteRow, inputVars
<1>2. CASE Drain \/ DrainClosed \/ PutBack \/ OpenFile \/ OpenFails \/ WriteRow
  <2>1. worker = "draining" => received = << >> /\ incomplete = << >>
    BY DEF ThreadsInStep
  <2>2. Line(Reserved, queue', received', incomplete', InHand')
          = Line(Reserved, queue, received, incomplete, InHand)
    BY <1>2, <2>1, PlacesTyped, LineKept
  <2> QED BY <2>2, <1>1, OutstandingLine
<1>3. CASE PushRow \/ FillAndStamp \/ (Update /\ ~Full) \/ StopCloses \/ StopJoins
  <2>1. queue' = queue /\ received' = received /\ incomplete' = incomplete /\ InHand' = InHand
    BY <1>3 DEF InHand, PushRow, FillAndStamp, Update, StopCloses, StopJoins, workerVars
  <2> QED BY <2>1, <1>1, OutstandingLine
<1> QED BY <1>2, <1>3

(* Sending and choosing rearrange them.                                    *)
LEMMA MovedOutstanding ==
  ASSUME RecorderTypeOK,
         UpdateSends \/ StopSends \/ ChooseComplete \/ ChooseIncomplete
  PROVE  Rearranged(Outstanding, Outstanding')
<1>1. CASE UpdateSends \/ StopSends
  <2>1. next \in Snapshots
    BY DEF RecorderTypeOK
  <2>2. Rearranged(Line(<<next>>, queue, received, incomplete, InHand),
                   Line(<< >>, Append(queue, next), received, incomplete, InHand))
    BY <2>1, PlacesTyped, LineSent
  <2>3. Reserved = <<next>> /\ Reserved' = << >> /\ queue' = Append(queue, next)
    BY <1>1 DEF Reserved, UpdateSends, StopSends, SendNext
  <2>4. received' = received /\ incomplete' = incomplete /\ InHand' = InHand
    BY <1>1 DEF InHand, UpdateSends, StopSends, SendNext, workerVars
  <2> QED BY <2>2, <2>3, <2>4, OutstandingLine
<1>2. CASE ChooseComplete \/ ChooseIncomplete
  <2>1. Reserved' = Reserved
    BY <1>2 DEF Reserved, ChooseComplete, ChooseIncomplete, inputVars
  <2>2. Rearranged(Line(Reserved, queue, received, incomplete, InHand),
                   Line(Reserved, queue', received', incomplete', InHand'))
    BY <1>2, PlacesTyped, LineChosen
  <2> QED BY <2>1, <2>2, OutstandingLine
<1> QED BY <1>1, <1>2

(* Reserving adds one.                                                     *)
LEMMA AddedOutstanding ==
  ASSUME RecorderTypeOK, next' \in Snapshots,
         (Update /\ Full) \/ StopReserves
  PROVE  Outstanding' = <<next'>> \o Outstanding
<1>1. Reserved = << >> /\ Reserved' = <<next'>> /\ queue' = queue
  BY DEF Reserved, Update, StopReserves
<1>2. received' = received /\ incomplete' = incomplete /\ InHand' = InHand
  BY DEF InHand, Update, StopReserves, workerVars
<1> DEFINE n == next'
<1>3. n \in Snapshots
  OBVIOUS
<1> HIDE DEF n
<1>4. Line(<<n>>, queue, received, incomplete, InHand)
        = <<n>> \o Line(<< >>, queue, received, incomplete, InHand)
  BY <1>3, PlacesTyped, LineAdded
<1>5. n = next'
  BY DEF n
<1> QED BY <1>1, <1>2, <1>4, <1>5, OutstandingLine

(* Releasing takes the last off.                                           *)
LEMMA RemovedOutstanding ==
  ASSUME RecorderTypeOK, Release
  PROVE  Outstanding' \in Seq(Snapshots) /\ Outstanding = Outstanding' \o <<current>>
<1>1. Reserved' = Reserved
  BY DEF Reserved, Release, inputVars
<1>2. /\ Line(Reserved, queue', received', incomplete', InHand') \in Seq(Snapshots)
      /\ Line(Reserved, queue, received, incomplete, InHand)
           = Line(Reserved, queue', received', incomplete', InHand') \o <<current>>
  BY PlacesTyped, LineReleased
<1> QED BY <1>1, <1>2, OutstandingLine

-----------------------------------------------------------------------------
(* The ring buffer, the types and the next snapshot's position.            *)

(* A snapshot being written still has its reservation.                     *)
LEMMA CurrentHeld ==
  ASSUME RecorderTypeOK, ReservationsMatch, worker \in {"opening", "writing", "releasing"}
  PROVE  /\ current.reservation \in DOMAIN held
         /\ held[current.reservation].first = current.start
         /\ reservations[current.reservation].start = NormalizeRowIndex(current.start)
BY CurrentIsLast DEF ReservationsMatch, OwnReservations

(* What startWriting() does under the lock: a length of at least one row,  *)
(* less than a lap behind the mark, so the ring buffer's invariant holds.  *)
LEMMA ReserveStep ==
  ASSUME RecorderTypeOK, RingIInv, Position, (Update /\ Full) \/ StopReserves
  PROVE  /\ LengthToWrite \in 1 .. SnapshotRows
         /\ Reserve(next.start, LengthToWrite)
         /\ RingIInv'
         /\ ReservedHandle \in Nat
         /\ next' = [start |-> next.start, length |-> LengthToWrite,
                     reservation |-> ReservedHandle, name |-> next.name]
<1>1. input = "updating" \/ (input = "reading" /\ ~filling)
  BY DEF Update, StopReserves
<1>2. LengthToWrite \in 1 .. SnapshotRows /\ pushed < next.start + Capacity
  BY <1>1, NextLength
<1>3. ReserveNext
  BY DEF Update, StopReserves
<1>4. Reserve(next.start, LengthToWrite)
  BY <1>3 DEF ReserveNext
<1>5. next.start \in Int /\ LengthToWrite \in Nat
  BY <1>2, CapacityAmple DEF Position
<1>6. RingIInv'
  BY <1>2, <1>4, <1>5, ReserveInvariant
<1>7. ReservedHandle \in Nat
  <2>1. freeReservations \in Seq(1 .. Len(reservations))
    BY DEF RecorderTypeOK, RingTypeOK
  <2>2. Len(reservations) \in Nat
    BY DEF RecorderTypeOK, RingTypeOK
  <2>3. freeReservations # << >> => Last(freeReservations) \in 1 .. Len(reservations)
    BY <2>1 DEF Last
  <2> QED BY <2>2, <2>3 DEF ReservedHandle
<1>8. next \in [start : Int, length : Nat, reservation : Nat, name : Int]
  BY DEF RecorderTypeOK, Snapshots
<1>9. next' = [next EXCEPT !.length = LengthToWrite, !.reservation = ReservedHandle]
  BY <1>3 DEF ReserveNext
<1> QED BY <1>2, <1>4, <1>6, <1>7, <1>8, <1>9

(* Every step is a step of the ring buffer's users, or leaves it alone.    *)
LEMMA RingStep ==
  ASSUME RecorderTypeOK, RingIInv, Position, ReservationsMatch,
         RecorderNext
  PROVE  RingIInv'
<1>1. CASE PushRow
  BY <1>1, PushInvariant DEF PushRow
<1>2. CASE FillAndStamp
  BY <1>2, FillInvariant DEF FillAndStamp
<1>3. CASE (Update /\ Full) \/ StopReserves
  BY <1>3, ReserveStep
<1>4. CASE Release
  <2>1. current.reservation \in DOMAIN held
    BY <1>4, CurrentHeld DEF Release
  <2> QED BY <1>4, <2>1, FreeInvariant DEF Release, ReservationToFree
<1>5. CASE \/ Update /\ ~Full
           \/ UpdateSends \/ StopSends \/ StopCloses \/ StopJoins
           \/ Drain \/ DrainClosed \/ ChooseComplete \/ ChooseIncomplete \/ PutBack
           \/ OpenFile \/ OpenFails \/ WriteRow
  <2>1. UNCHANGED ringVars
    BY <1>5 DEF Update, UpdateSends, StopSends, SendNext, StopCloses, StopJoins, Drain, DrainClosed,
      ChooseComplete, ChooseIncomplete, PutBack, OpenFile, OpenFails, WriteRow
  <2> QED BY <2>1, StepInvariant
<1> QED BY <1>1, <1>2, <1>3, <1>4, <1>5 DEF RecorderNext, InputNext, WorkerNext

(* A time looked up is a number.                                           *)
LEMMA TimeTyped ==
  ASSUME RecorderTypeOK, NEW m \in Int
  PROVE  TimeOf(m) \in Int
BY AtInRange DEF RecorderTypeOK, TimeOf

(* Types.  RingTypeOK' comes with RingIInv'.                               *)
LEMMA RecorderTypeStep ==
  ASSUME RecorderTypeOK, RingIInv, RingIInv', Position,
         RecorderNext
  PROVE  RecorderTypeOK'
<1>1. RingTypeOK'
  BY DEF RingIInv
<1> USE <1>1 DEF RecorderTypeOK
<1>2. CASE PushRow
  BY <1>2 DEF PushRow, inputVars, workerVars, historyVars
<1>3. CASE FillAndStamp
  <2>1. pushed - 1 \in Int /\ rawHandles \in [Indices -> Int]
    BY DEF RingTypeOK
  <2>2. rawHandles' \in [Indices -> Int]
    BY <1>3, <2>1 DEF FillAndStamp
  <2> QED BY <1>3, <2>2 DEF FillAndStamp, workerVars, historyVars
<1>4. CASE Update /\ ~Full
  BY <1>4 DEF Update, workerVars, historyVars
<1>5. CASE (Update /\ Full) \/ StopReserves
  <2>1. next' \in Snapshots
    <3>1. /\ LengthToWrite \in 1 .. SnapshotRows /\ ReservedHandle \in Nat
          /\ next' = [start |-> next.start, length |-> LengthToWrite,
                      reservation |-> ReservedHandle, name |-> next.name]
      BY <1>5, ReserveStep
    <3>2. next.start \in Int /\ next.name \in Int /\ SnapshotRows \in Nat
      BY CapacityAmple DEF Snapshots
    <3> QED BY <3>1, <3>2 DEF Snapshots
  <2>2. input' \in {"sending", "ending"}
    BY <1>5 DEF Update, StopReserves
  <2>3. UNCHANGED <<rawHandles, queue, closing, workerVars, historyVars>>
    BY <1>5 DEF Update, StopReserves
  <2> QED BY <2>1, <2>2, <2>3 DEF workerVars, historyVars
<1>6. CASE UpdateSends \/ StopSends
  <2>1. SendNext
    BY <1>6 DEF UpdateSends, StopSends
  <2>2. NextStart \in Int
    BY DEF NextStart, Snapshots
  <2>3. next' \in Snapshots
    BY <2>1, <2>2, TimeTyped DEF SendNext, NewSnapshot, Snapshots
  <2>4. queue' \in Seq(Snapshots)
    BY <2>1 DEF SendNext
  <2> QED BY <1>6, <2>1, <2>3, <2>4 DEF UpdateSends, StopSends, SendNext, workerVars, historyVars
<1>7. CASE StopCloses
  BY <1>7 DEF StopCloses, workerVars, historyVars
<1>8. CASE StopJoins
  BY <1>8 DEF StopJoins, workerVars, historyVars
<1>9. CASE Drain
  BY <1>9 DEF Drain, inputVars, historyVars
<1>10. CASE DrainClosed
  BY <1>10 DEF DrainClosed, inputVars, historyVars
<1>11. CASE ChooseComplete
  <2>1. Head(received) \in Snapshots
    BY <1>11 DEF ChooseComplete
  <2>2. Tail(received) \in Seq(Snapshots)
    BY <1>11 DEF ChooseComplete
  <2> QED BY <1>11, <2>1, <2>2 DEF ChooseComplete, inputVars, historyVars
<1>12. CASE ChooseIncomplete
  <2>1. Head(received) \in Snapshots
    BY <1>12 DEF ChooseIncomplete
  <2>2. Tail(received) \in Seq(Snapshots)
    BY <1>12 DEF ChooseIncomplete
  <2>3. Append(incomplete, Head(received)) \in Seq(Snapshots)
    BY <2>1
  <2> QED BY <1>12, <2>2, <2>3 DEF ChooseIncomplete, inputVars, historyVars
<1>13. CASE PutBack
  <2>1. queue' \in Seq(Snapshots)
    BY <1>13 DEF PutBack, QueueAfterPutBack
  <2> QED BY <1>13, <2>1 DEF PutBack, inputVars, historyVars
<1>14. CASE OpenFile
  <2>1. TimeOf(current.start) \in Int
    BY TimeTyped DEF Snapshots
  <2> QED BY <1>14, <2>1 DEF OpenFile, inputVars, historyVars
<1>15. CASE OpenFails
  <2>1. openFailures' \in 0 .. MaxOpenFailures
    BY <1>15, RecorderSizes DEF OpenFails
  <2>2. stamp' \in Int /\ rows' = << >>
    BY <1>15 DEF OpenFails, NoTime
  <2> QED BY <1>15, <2>1, <2>2 DEF OpenFails, inputVars
<1>16. CASE WriteRow
  <2> DEFINE m == current.start + Len(rows)
  <2>1. m \in Int
    BY DEF Snapshots
  <2> HIDE DEF m
  <2>2. Contents(m) \in Int
    <3>1. At(m).chunk \in ChunkIndices /\ At(m).item \in ItemIndices
      BY <2>1, AtInRange
    <3>2. chunks \in [ChunkIndices -> [ItemIndices -> Int]]
      BY DEF RingTypeOK
    <3>3. chunks[At(m).chunk] \in [ItemIndices -> Int]
      BY <3>1, <3>2
    <3> QED BY <3>1, <3>3 DEF Contents
  <2>3. RowRead(m) \in Int
    BY <2>2 DEF RowRead, Torn
  <2>4. rows' = Append(rows, RowRead(m))
    BY <1>16 DEF WriteRow, m
  <2>5. rows' \in Seq(Int)
    BY <2>3, <2>4
  <2> QED BY <1>16, <2>5 DEF WriteRow, inputVars, historyVars
<1>17. CASE Release
  BY <1>17 DEF Release, inputVars
<1> QED BY <1>2, <1>3, <1>4, <1>5, <1>6, <1>7, <1>8, <1>9, <1>10, <1>11, <1>12, <1>13, <1>14,
  <1>15, <1>16, <1>17 DEF RecorderNext, InputNext, WorkerNext

(* Where the next snapshot is behind the mark.                             *)
LEMMA PositionStep ==
  ASSUME RecorderTypeOK, RingIInv, Position, ReservationsMatch,
         RecorderNext
  PROVE  Position'
<1>1. /\ next.start \in Nat /\ pushed \in Nat /\ filling \in BOOLEAN
      /\ next \in [start : Int, length : Nat, reservation : Nat, name : Int]
      /\ input \in {"reading", "updating", "sending", "ending", "closing", "joining", "ended"}
  BY DEF Position, RecorderTypeOK, RingTypeOK, Snapshots
<1>2. SnapshotRows \in Nat \ {0}
  BY CapacityAmple
<1> USE <1>1, <1>2 DEF Position, Behind, Streaming
<1>3. CASE PushRow
  BY <1>3 DEF PushRow, Push, inputVars
<1>4. CASE FillAndStamp
  BY <1>4 DEF FillAndStamp, FillRow
<1>5. CASE Update /\ ~Full
  <2>1. input = "updating"
    BY <1>5 DEF Update
  <2>2. SizeFrom(next.start) = Behind /\ Behind \in 1 .. SnapshotRows + 2
    BY <2>1, NextLength
  <2>3. Behind < SnapshotRows + 2
    BY <1>5, <2>2 DEF Full
  <2>4. pushed' = pushed /\ next' = next /\ filling' = filling /\ input' = "reading"
    BY <1>5 DEF Update, ringVars
  <2> QED BY <2>1, <2>2, <2>3, <2>4
<1>6. CASE Update /\ Full
  <2>1. input = "updating" /\ input' = "sending"
    BY <1>6 DEF Update
  <2>2. SizeFrom(next.start) = Behind /\ Behind \in 1 .. SnapshotRows + 2
    BY <2>1, NextLength
  <2>3. Behind = SnapshotRows + 2
    BY <1>6, <2>2 DEF Full
  <2>4. LengthToWrite = SnapshotRows
    BY <2>1, <2>3, NextLength
  <2>5. pushed' = pushed /\ filling' = filling /\ next'.start = next.start /\ next'.length = SnapshotRows
    BY <1>6, <2>4, ReserveStep DEF Reserve
  <2> QED BY <2>1, <2>3, <2>5
<1>7. CASE StopReserves
  <2>1. input = "reading" /\ ~filling /\ input' = "ending"
    BY <1>7 DEF StopReserves
  <2>2. LengthToWrite = IF Behind \in 1 .. SnapshotRows THEN Behind ELSE SnapshotRows
    BY <2>1, NextLength
  <2>3. pushed' = pushed /\ filling' = filling /\ next'.start = next.start /\ next'.length = LengthToWrite
    BY <1>7, ReserveStep DEF Reserve
  <2>4. Behind' = Behind /\ Behind \in 0 .. SnapshotRows + 1
    BY <2>1, <2>3
  <2> QED BY <2>1, <2>2, <2>3, <2>4
<1>8. CASE UpdateSends \/ StopSends
  <2>1. SendNext
    BY <1>8 DEF UpdateSends, StopSends
  <2>2. next'.start = next.start + next.length /\ next'.length = 0 /\ pushed' = pushed /\ filling' = filling
    BY <2>1 DEF SendNext, NewSnapshot, NextStart, ringVars
  <2>3. CASE UpdateSends
    BY <2>2, <2>3 DEF UpdateSends
  <2>4. CASE StopSends
    BY <2>2, <2>4 DEF StopSends
  <2> QED BY <1>8, <2>3, <2>4
<1>9. CASE StopCloses \/ StopJoins
  BY <1>9 DEF StopCloses, StopJoins, ringVars
<1>10. CASE WorkerNext
  <2>1. next' = next /\ input' = input
    BY <1>10 DEF WorkerNext, Drain, DrainClosed, ChooseComplete, ChooseIncomplete, PutBack, OpenFile,
      OpenFails, WriteRow, Release, inputVars
  <2>2. pushed' = pushed /\ filling' = filling
    <3>1. CASE Release
      BY <3>1 DEF Release, FreeReservation, ringVars
    <3>2. CASE ~Release
      BY <1>10, <3>2 DEF WorkerNext, Drain, DrainClosed, ChooseComplete, ChooseIncomplete, PutBack,
        OpenFile, OpenFails, WriteRow, ringVars
    <3> QED BY <3>1, <3>2
  <2> QED BY <2>1, <2>2
<1> QED BY <1>3, <1>4, <1>5, <1>6, <1>7, <1>8, <1>9, <1>10 DEF RecorderNext, InputNext

(* The worker's lists are empty when it waits, the queue closes last, and  *)
(* nothing happens before the first row but its coming.                    *)
LEMMA ThreadsStep ==
  ASSUME RecorderTypeOK, RecorderTypeOK', Position, ThreadsInStep,
         RecorderNext
  PROVE  ThreadsInStep'
<1>1. pushed \in Nat /\ next.start \in Nat
  BY DEF Position, RecorderTypeOK, RingTypeOK
<1>2. CASE PushRow \/ FillAndStamp
  BY <1>1, <1>2 DEF ThreadsInStep, Position, PushRow, Push, FillAndStamp, FillRow, workerVars, historyVars,
    inputVars
<1>3. CASE Update \/ StopReserves
  <2>1. input = "updating" => pushed' = pushed
    BY <1>3 DEF Update, ReserveNext, Reserve, StopReserves, ringVars
  <2>2. input = "updating" => pushed > 0
    BY <1>1, CapacityAmple DEF Position, Behind
  <2> QED BY <1>3, <2>1, <2>2 DEF ThreadsInStep, Update, StopReserves, workerVars, historyVars
<1>4. CASE UpdateSends \/ StopSends
  <2>1. pushed' = pushed
    BY <1>4 DEF UpdateSends, StopSends, SendNext, ringVars
  <2>2. input = "sending" => pushed > 0
    BY <1>1, CapacityAmple DEF Position, Behind
  <2> QED BY <1>4, <2>1, <2>2 DEF ThreadsInStep, UpdateSends, StopSends, SendNext, workerVars, historyVars
<1>5. CASE StopCloses \/ StopJoins
  BY <1>5 DEF ThreadsInStep, StopCloses, StopJoins, workerVars, historyVars
<1>6. CASE Drain \/ DrainClosed \/ PutBack
  BY <1>6 DEF ThreadsInStep, Drain, DrainClosed, PutBack, inputVars, ringVars, historyVars,
    QueueAfterPutBack
<1>7. CASE ChooseComplete \/ ChooseIncomplete \/ OpenFile \/ OpenFails \/ WriteRow
  BY <1>7 DEF ThreadsInStep, ChooseComplete, ChooseIncomplete, OpenFile, OpenFails, WriteRow, inputVars,
    ringVars, historyVars
<1>8. CASE Release
  <2>1. pushed' = pushed
    BY <1>8 DEF Release, FreeReservation, ringVars
  <2> QED BY <1>8, <2>1 DEF ThreadsInStep, Release, inputVars
<1> QED BY <1>2, <1>3, <1>4, <1>5, <1>6, <1>7, <1>8 DEF RecorderNext, InputNext, WorkerNext

(* size() counts the rows up to a lap.                                     *)
LEMMA SizeStep ==
  ASSUME RecorderTypeOK, SizeCounts, RecorderNext
  PROVE  SizeCounts'
<1>1. pushed \in Nat /\ Capacity \in Nat \ {0}
  BY RingMetrics DEF RecorderTypeOK, RingTypeOK
<1>2. CASE PushRow
  <2>1. size' = Grow(size) /\ pushed' = pushed + 1
    BY <1>2 DEF PushRow, Push
  <2> QED BY <1>1, <2>1 DEF SizeCounts, Grow
<1>3. CASE ~PushRow
  <2>1. size' = size /\ pushed' = pushed
    BY <1>3 DEF RecorderNext, InputNext, FillAndStamp, FillRow, Update, ReserveNext, Reserve, UpdateSends,
      SendNext, StopReserves, StopSends, StopCloses, StopJoins, WorkerNext, Drain, DrainClosed,
      ChooseComplete, ChooseIncomplete, PutBack, OpenFile, OpenFails, WriteRow, Release,
      FreeReservation, ringVars
  <2> QED BY <2>1 DEF SizeCounts
<1> QED BY <1>2, <1>3

-----------------------------------------------------------------------------
(* Reservations.                                                           *)

\* OwnReservations() of o, with these holders and these reservations.
Owns(o, holders, table) ==
  /\ \A i, j \in 1 .. Len(o) : i # j => o[i].reservation # o[j].reservation
  /\ DOMAIN holders = {o[i].reservation : i \in 1 .. Len(o)}
  /\ \A i \in 1 .. Len(o) :
        /\ holders[o[i].reservation].first = o[i].start
        /\ table[o[i].reservation].start = NormalizeRowIndex(o[i].start)

(* ReservationsMatch, now and after a step, in these terms.                *)
LEMMA OwnsMatch ==
  /\ ReservationsMatch <=> Owns(Outstanding, held, reservations)
  /\ ReservationsMatch' <=> Owns(Outstanding', held', reservations')
BY DEF ReservationsMatch, OwnReservations, Owns, NormalizeRowIndex

(* The order of the snapshots does not matter.                             *)
LEMMA OwnsRearranged ==
  ASSUME NEW s, NEW t, NEW holders, NEW table, NEW tableAfter,
         Rearranged(s, t), Owns(s, holders, table),
         \A h \in DOMAIN holders : tableAfter[h].start = table[h].start
  PROVE  Owns(t, holders, tableAfter)
<1>1. PICK p \in [1 .. Len(t) -> 1 .. Len(s)] :
        /\ \A i, j \in 1 .. Len(t) : p[i] = p[j] => i = j
        /\ \A k \in 1 .. Len(s) : \E i \in 1 .. Len(t) : p[i] = k
        /\ \A i \in 1 .. Len(t) : t[i] = s[p[i]]
  BY Zenon DEF Rearranged
<1>2. \A i \in 1 .. Len(t) : p[i] \in 1 .. Len(s)
  BY <1>1
<1>6. /\ \A i, j \in 1 .. Len(s) : i # j => s[i].reservation # s[j].reservation
      /\ \A i \in 1 .. Len(s) :
            /\ holders[s[i].reservation].first = s[i].start
            /\ table[s[i].reservation].start = NormalizeRowIndex(s[i].start)
  BY Zenon DEF Owns
<1>3. \A i, j \in 1 .. Len(t) : i # j => t[i].reservation # t[j].reservation
  <2> TAKE i, j \in 1 .. Len(t)
  <2>1. t[i] = s[p[i]] /\ t[j] = s[p[j]]
    BY <1>1, Zenon
  <2>2. i # j => p[i] # p[j]
    BY <1>1, Zenon
  <2>3. i # j => s[p[i]].reservation # s[p[j]].reservation
    BY <2>2, <1>2, <1>6, Zenon
  <2> QED BY <2>1, <2>3, Zenon
<1>4. DOMAIN holders = {t[i].reservation : i \in 1 .. Len(t)}
  <2>1. DOMAIN holders = {s[i].reservation : i \in 1 .. Len(s)}
    BY Zenon DEF Owns
  <2>2. ASSUME NEW h \in DOMAIN holders PROVE h \in {t[i].reservation : i \in 1 .. Len(t)}
    <3>1. PICK k \in 1 .. Len(s) : h = s[k].reservation
      BY <2>1
    <3>2. PICK i \in 1 .. Len(t) : p[i] = k
      BY <1>1, Zenon
    <3>3. t[i].reservation = h
      BY <3>1, <3>2, <1>1, Zenon
    <3> QED BY <3>3
  <2>3. ASSUME NEW i \in 1 .. Len(t) PROVE t[i].reservation \in DOMAIN holders
    <3>1. t[i] = s[p[i]] /\ p[i] \in 1 .. Len(s)
      BY <1>1, <1>2, Zenon
    <3> QED BY <2>1, <3>1
  <2> QED BY <2>2, <2>3
<1>5. ASSUME NEW i \in 1 .. Len(t)
      PROVE  /\ holders[t[i].reservation].first = t[i].start
             /\ tableAfter[t[i].reservation].start = NormalizeRowIndex(t[i].start)
  <2>1. t[i] = s[p[i]] /\ p[i] \in 1 .. Len(s)
    BY <1>1, <1>2, Zenon
  <2>2. t[i].reservation \in DOMAIN holders
    BY <1>4
  <2>3. tableAfter[t[i].reservation].start = table[t[i].reservation].start
    BY <2>2
  <2>4. /\ holders[s[p[i]].reservation].first = s[p[i]].start
        /\ table[s[p[i]].reservation].start = NormalizeRowIndex(s[p[i]].start)
    BY <2>1, <1>6, Zenon
  <2> QED BY <2>1, <2>3, <2>4
<1> QED BY <1>3, <1>4, <1>5, Zenon DEF Owns

(* A new snapshot comes with a reservation nobody holds.                   *)
LEMMA OwnsAdded ==
  ASSUME NEW s \in Seq(Snapshots), NEW x \in Snapshots,
         NEW holders, NEW table, NEW holdersAfter, NEW tableAfter,
         Owns(s, holders, table),
         x.reservation \notin DOMAIN holders,
         DOMAIN holdersAfter = DOMAIN holders \cup {x.reservation},
         holdersAfter[x.reservation].first = x.start,
         tableAfter[x.reservation].start = NormalizeRowIndex(x.start),
         \A h \in DOMAIN holders : holdersAfter[h] = holders[h] /\ tableAfter[h] = table[h]
  PROVE  Owns(<<x>> \o s, holdersAfter, tableAfter)
<1> DEFINE t == <<x>> \o s
<1>1. t \in Seq(Snapshots)
  OBVIOUS
<1>2. Len(t) = Len(s) + 1 /\ t[1] = x /\ \A i \in 1 .. Len(s) : t[i + 1] = s[i]
  OBVIOUS
<1>3. Len(s) \in Nat
  OBVIOUS
<1> HIDE DEF t
<1>4. \A i \in 1 .. Len(t) : i = 1 \/ (i - 1 \in 1 .. Len(s) /\ t[i] = s[i - 1])
  <2> TAKE i \in 1 .. Len(t)
  <2>1. i # 1 => i - 1 \in 1 .. Len(s) /\ (i - 1) + 1 = i
    BY <1>2, <1>3
  <2> QED BY <2>1, <1>2
<1>5. DOMAIN holders = {s[i].reservation : i \in 1 .. Len(s)}
  BY Zenon DEF Owns
<1>6. \A i \in 1 .. Len(s) : s[i].reservation \in DOMAIN holders
  BY <1>5
<1>10. \A i, j \in 1 .. Len(s) : i # j => s[i].reservation # s[j].reservation
  BY Zenon DEF Owns
<1>7. \A i, j \in 1 .. Len(t) : i # j => t[i].reservation # t[j].reservation
  <2> TAKE i, j \in 1 .. Len(t)
  <2>1. CASE i # j /\ i # 1 /\ j # 1
    <3>1. i - 1 # j - 1
      BY <2>1, <1>2, <1>3
    <3>2. /\ i - 1 \in 1 .. Len(s) /\ t[i] = s[i - 1]
          /\ j - 1 \in 1 .. Len(s) /\ t[j] = s[j - 1]
      BY <2>1, <1>4
    <3>3. s[i - 1].reservation # s[j - 1].reservation
      BY <3>1, <3>2, <1>10
    <3> QED BY <3>2, <3>3
  <2>2. CASE i = 1 /\ j # 1
    <3>1. j - 1 \in 1 .. Len(s) /\ t[j] = s[j - 1] /\ t[i] = x
      BY <2>2, <1>2, <1>4
    <3> QED BY <3>1, <1>6
  <2>3. CASE i # 1 /\ j = 1
    <3>1. i - 1 \in 1 .. Len(s) /\ t[i] = s[i - 1] /\ t[j] = x
      BY <2>3, <1>2, <1>4
    <3> QED BY <3>1, <1>6
  <2> QED BY <2>1, <2>2, <2>3
<1>8. DOMAIN holdersAfter = {t[i].reservation : i \in 1 .. Len(t)}
  <2>1. ASSUME NEW h \in DOMAIN holdersAfter PROVE \E i \in 1 .. Len(t) : h = t[i].reservation
    <3>1. CASE h = x.reservation
      <4>1. 1 \in 1 .. Len(t)
        BY <1>2, <1>3
      <4> QED BY <3>1, <4>1, <1>2
    <3>2. CASE h \in DOMAIN holders
      <4>1. PICK k \in 1 .. Len(s) : h = s[k].reservation
        BY <3>2, <1>5
      <4>2. k + 1 \in 1 .. Len(t) /\ t[k + 1] = s[k]
        BY <1>2, <1>3
      <4> QED BY <4>1, <4>2
    <3> QED BY <3>1, <3>2
  <2>2. ASSUME NEW i \in 1 .. Len(t) PROVE t[i].reservation \in DOMAIN holdersAfter
    BY <1>2, <1>4, <1>6
  <2> QED BY <2>1, <2>2
<1>9. ASSUME NEW i \in 1 .. Len(t)
      PROVE  /\ holdersAfter[t[i].reservation].first = t[i].start
             /\ tableAfter[t[i].reservation].start = NormalizeRowIndex(t[i].start)
  <2>1. CASE i = 1
    BY <2>1, <1>2
  <2>2. CASE i # 1
    <3>1. i - 1 \in 1 .. Len(s) /\ t[i] = s[i - 1]
      BY <2>2, <1>4
    <3>2. t[i].reservation \in DOMAIN holders
      BY <3>1, <1>6
    <3>3. \A k \in 1 .. Len(s) : /\ holders[s[k].reservation].first = s[k].start
                                 /\ table[s[k].reservation].start = NormalizeRowIndex(s[k].start)
      BY DEF Owns
    <3>4. /\ holders[t[i].reservation].first = t[i].start
          /\ table[t[i].reservation].start = NormalizeRowIndex(t[i].start)
      BY <3>1, <3>3, Zenon
    <3> QED BY <3>2, <3>4
  <2> QED BY <2>1, <2>2
<1> QED BY <1>7, <1>8, <1>9, Zenon DEF Owns, t

\* s is t without its last snapshot x.
WithoutLast(s, t, x) ==
  /\ Len(s) \in Nat
  /\ Len(t) = Len(s) + 1
  /\ t[Len(t)] = x
  /\ \A i \in 1 .. Len(s) : t[i] = s[i]

(* What Release leaves of the snapshots outstanding.                       *)
LEMMA OutstandingWithoutLast ==
  ASSUME NEW s \in Seq(Snapshots), NEW x \in Snapshots
  PROVE  WithoutLast(s, s \o <<x>>, x)
BY DEF WithoutLast

(* A released one takes its reservation with it.                           *)
LEMMA OwnsRemoved ==
  ASSUME NEW s, NEW t, NEW x,
         NEW holders, NEW table, NEW holdersAfter, NEW tableAfter,
         WithoutLast(s, t, x),
         Owns(t, holders, table),
         DOMAIN holdersAfter = DOMAIN holders \ {x.reservation},
         \A h \in DOMAIN holdersAfter : holdersAfter[h] = holders[h],
         \A h \in DOMAIN holdersAfter : tableAfter[h].start = table[h].start
  PROVE  Owns(s, holdersAfter, tableAfter)
<1>1. Len(s) \in Nat /\ Len(t) = Len(s) + 1 /\ t[Len(t)] = x /\ \A i \in 1 .. Len(s) : t[i] = s[i]
  BY DEF WithoutLast
<1>4. Len(t) \in 1 .. Len(t) /\ t[Len(t)] = x
  BY <1>1
<1>5. \A i \in 1 .. Len(s) : i \in 1 .. Len(t) /\ i # Len(t) /\ t[i] = s[i]
  BY <1>1
<1>6. \A i \in 1 .. Len(t) : i = Len(t) \/ i \in 1 .. Len(s)
  BY <1>1
<1>7. \A i, j \in 1 .. Len(s) : i # j => s[i].reservation # s[j].reservation
  <2> TAKE i, j \in 1 .. Len(s)
  <2>1. s[i] = t[i] /\ s[j] = t[j] /\ i \in 1 .. Len(t) /\ j \in 1 .. Len(t)
    BY <1>5
  <2> QED BY <2>1, Zenon DEF Owns
<1>8. \A i \in 1 .. Len(s) : s[i].reservation # x.reservation
  <2> TAKE i \in 1 .. Len(s)
  <2>1. s[i] = t[i] /\ i \in 1 .. Len(t) /\ i # Len(t)
    BY <1>5
  <2>2. \A j, k \in 1 .. Len(t) : j # k => t[j].reservation # t[k].reservation
    BY Zenon DEF Owns
  <2>3. t[i].reservation # t[Len(t)].reservation
    BY <2>1, <2>2, <1>4, Zenon
  <2> QED BY <2>1, <2>3, <1>4
<1>9. DOMAIN holders = {t[i].reservation : i \in 1 .. Len(t)}
  BY Zenon DEF Owns
<1>10. DOMAIN holdersAfter = {s[i].reservation : i \in 1 .. Len(s)}
  <2>1. ASSUME NEW h \in DOMAIN holdersAfter PROVE \E i \in 1 .. Len(s) : h = s[i].reservation
    <3>1. PICK k \in 1 .. Len(t) : h = t[k].reservation
      BY <1>9
    <3>2. k # Len(t)
      BY <3>1, <1>4
    <3>3. k \in 1 .. Len(s) /\ t[k] = s[k]
      BY <3>2, <1>5, <1>6
    <3> QED BY <3>1, <3>3
  <2>2. ASSUME NEW i \in 1 .. Len(s) PROVE s[i].reservation \in DOMAIN holdersAfter
    <3>1. i \in 1 .. Len(t) /\ t[i] = s[i]
      BY <1>5
    <3>2. s[i].reservation \in DOMAIN holders
      BY <3>1, <1>9
    <3> QED BY <3>2, <1>8
  <2> QED BY <2>1, <2>2
<1>11. ASSUME NEW i \in 1 .. Len(s)
       PROVE  /\ holdersAfter[s[i].reservation].first = s[i].start
              /\ tableAfter[s[i].reservation].start = NormalizeRowIndex(s[i].start)
  <2>1. t[i] = s[i] /\ i \in 1 .. Len(t)
    BY <1>5
  <2>2. /\ holders[s[i].reservation].first = s[i].start
        /\ table[s[i].reservation].start = NormalizeRowIndex(s[i].start)
    BY <2>1, Zenon DEF Owns
  <2>3. s[i].reservation \in DOMAIN holdersAfter
    BY <1>10
  <2> QED BY <2>2, <2>3
<1> QED BY <1>7, <1>10, <1>11, Zenon DEF Owns

(* A row pushed marks reservations, and moves none.                        *)
LEMMA OwnsMarked ==
  ASSUME RingTypeOK, NEW o \in Seq(Snapshots), Owns(o, held, reservations), Push
  PROVE  Owns(o, held', reservations')
<1>1. held' = held /\ reservations' = MarkDirty(reservations, head'.index)
  BY DEF Push
<1>2. reservations \in Seq(Reservation) /\ DOMAIN held \subseteq 1 .. Len(reservations)
  BY DEF RingTypeOK
<1>3. \A h \in 1 .. Len(reservations) : reservations'[h].start = reservations[h].start
  BY <1>1, <1>2, MarkDirtyKeeps
<1>4. \A h \in DOMAIN held : reservations'[h].start = reservations[h].start
  BY <1>2, <1>3
<1>5. Rearranged(o, o)
  BY SameRearranged
<1>6. Owns(o, held, reservations')
  BY <1>4, <1>5, OwnsRearranged
<1> QED BY <1>1, <1>6

(* A snapshot reserved owns its reservation.                               *)
LEMMA OwnsReserved ==
  ASSUME RingIInv, NEW o \in Seq(Snapshots), Owns(o, held, reservations),
         NEW x \in Snapshots, NEW length, x.reservation = ReservedHandle, Reserve(x.start, length)
  PROVE  Owns(<<x>> \o o, held', reservations')
<1> DEFINE r == InitReservation(NormalizeRowIndex(x.start), NormalizeRowIndex(x.start + length))
<1>0. DOMAIN held \subseteq 1 .. Len(reservations) /\ Len(reservations) \in Nat
  BY DEF RingIInv, RingTypeOK
<1>1. r \in Reservation /\ r.start = NormalizeRowIndex(x.start)
  <2>1. x.start \in Int
    BY DEF Snapshots
  <2> QED BY <2>1, AtInRange DEF InitReservation, Reservation
<1>2. /\ reservations' = IF ReservedHandle <= Len(reservations)
                         THEN [reservations EXCEPT ![ReservedHandle] = r]
                         ELSE Append(reservations, r)
      /\ freeReservations' = FreeAfterReserve
      /\ held' = [h \in DOMAIN held \cup {ReservedHandle} |->
                    IF h = ReservedHandle
                    THEN [first |-> x.start, length |-> length, since |-> pushed]
                    ELSE held[h]]
  BY DEF Reserve, r
<1> HIDE DEF r
<1>3. /\ DOMAIN held' = DOMAIN held \cup {ReservedHandle}
      /\ held'[ReservedHandle].first = x.start
      /\ \A h \in DOMAIN held : h # ReservedHandle => held'[h] = held[h]
  BY <1>2
<1>4. /\ ReservedHandle \notin DOMAIN held
      /\ reservations'[ReservedHandle] = r
      /\ Len(reservations') >= Len(reservations)
      /\ \A h \in 1 .. Len(reservations') : h # ReservedHandle => reservations'[h] = reservations[h]
      /\ reservations' \in Seq(Reservation)
  BY <1>1, <1>2, ReserveTables
<1>5. \A h \in DOMAIN held : held'[h] = held[h] /\ reservations'[h] = reservations[h]
  <2> TAKE h \in DOMAIN held
  <2>1. h # ReservedHandle
    BY <1>4
  <2>2. h \in 1 .. Len(reservations')
    <3>1. Len(reservations') \in Nat
      BY <1>4
    <3> QED BY <3>1, <1>0, <1>4
  <2> QED BY <2>1, <2>2, <1>3, <1>4
<1>6. DOMAIN held' = DOMAIN held \cup {x.reservation}
  BY <1>3
<1>7. held'[x.reservation].first = x.start
  BY <1>3
<1>8. reservations'[x.reservation].start = NormalizeRowIndex(x.start)
  BY <1>1, <1>4
<1>9. x.reservation \notin DOMAIN held
  BY <1>4
<1>10. ASSUME NEW holdersAfter, NEW tableAfter,
              DOMAIN holdersAfter = DOMAIN held \cup {x.reservation},
              holdersAfter[x.reservation].first = x.start,
              tableAfter[x.reservation].start = NormalizeRowIndex(x.start),
              \A h \in DOMAIN held : holdersAfter[h] = held[h] /\ tableAfter[h] = reservations[h]
       PROVE  Owns(<<x>> \o o, holdersAfter, tableAfter)
  BY <1>9, <1>10, OwnsAdded, ZenonT(60)
<1> QED BY <1>5, <1>6, <1>7, <1>8, <1>10, ZenonT(60)

(* A snapshot released gives up its own.                                   *)
LEMMA OwnsReleased ==
  ASSUME RingTypeOK, NEW o \in Seq(Snapshots), current \in Snapshots,
         Owns(o \o <<current>>, held, reservations), Release
  PROVE  /\ current.reservation \in DOMAIN held
         /\ Owns(o, held', reservations')
<1> DEFINE t == o \o <<current>>
<1>1. WithoutLast(o, t, current)
  BY OutstandingWithoutLast
<1>2. current.reservation \in DOMAIN held
  <2> HIDE DEF t
  <2>1. Len(t) \in 1 .. Len(t) /\ t[Len(t)] = current
    BY <1>1 DEF WithoutLast
  <2> QED BY <2>1 DEF Owns, t
<1>3. DOMAIN held \subseteq 1 .. Len(reservations) /\ reservations \in Seq(Reservation)
  BY DEF RingTypeOK
<1>4. /\ reservations' = [reservations EXCEPT ![current.reservation].alive = FALSE]
      /\ held' = [h \in DOMAIN held \ {current.reservation} |-> held[h]]
  BY <1>2, <1>3 DEF Release, FreeReservation, ReservationToFree
<1>5. \A h \in 1 .. Len(reservations) : reservations'[h].start = reservations[h].start
  BY <1>3, <1>4 DEF Reservation
<1>6. /\ DOMAIN held' = DOMAIN held \ {current.reservation}
      /\ \A h \in DOMAIN held' : held'[h] = held[h]
  BY <1>4
<1>7. \A h \in DOMAIN held' : reservations'[h].start = reservations[h].start
  BY <1>3, <1>5, <1>6
<1>8. Owns(o, held', reservations')
  <2> HIDE DEF t
  <2>1. Owns(t, held, reservations)
    BY DEF t
  <2>2. \A ho, ta, hoa, taa :
          /\ Owns(t, ho, ta)
          /\ DOMAIN hoa = DOMAIN ho \ {current.reservation}
          /\ \A h \in DOMAIN hoa : hoa[h] = ho[h]
          /\ \A h \in DOMAIN hoa : taa[h].start = ta[h].start
          => Owns(o, hoa, taa)
    BY <1>1, OwnsRemoved, Zenon
  <2>3. \A ta, hoa, taa :
          /\ Owns(t, held, ta)
          /\ DOMAIN hoa = DOMAIN held \ {current.reservation}
          /\ \A h \in DOMAIN hoa : hoa[h] = held[h]
          /\ \A h \in DOMAIN hoa : taa[h].start = ta[h].start
          => Owns(o, hoa, taa)
    BY <2>2, Zenon
  <2> QED BY <1>6, <1>7, <2>1, <2>3, Zenon
<1> QED BY <1>2, <1>8

(* The steps on reservations.                                              *)
LEMMA ReservationsStep ==
  ASSUME RecorderTypeOK, RecorderTypeOK', RingIInv, Position, ThreadsInStep, ReservationsMatch,
         RecorderNext
  PROVE  ReservationsMatch'
<1>1. Owns(Outstanding, held, reservations)
  BY OwnsMatch
<1>2. Outstanding \in Seq(Snapshots) /\ RingTypeOK
  BY PlacesTyped DEF RecorderTypeOK
<1>3. CASE PushRow
  <2>1. Outstanding' = Outstanding
    BY <1>3, SameOutstanding
  <2>2. Owns(Outstanding, held', reservations')
    BY <1>1, <1>2, <1>3, OwnsMarked DEF PushRow
  <2> QED BY <2>1, <2>2, OwnsMatch
<1>4. CASE \/ FillAndStamp \/ (Update /\ ~Full) \/ StopCloses \/ StopJoins \/ Drain \/ DrainClosed
           \/ PutBack \/ OpenFile \/ OpenFails \/ WriteRow
  <2>1. Outstanding' = Outstanding
    BY <1>4, SameOutstanding
  <2>2. held' = held /\ reservations' = reservations
    BY <1>4 DEF FillAndStamp, FillRow, Update, StopCloses, StopJoins, Drain, DrainClosed, PutBack,
      OpenFile, OpenFails, WriteRow, ringVars
  <2> QED BY <2>1, <2>2, <1>1, OwnsMatch
<1>5. CASE UpdateSends \/ StopSends \/ ChooseComplete \/ ChooseIncomplete
  <2>1. Rearranged(Outstanding, Outstanding')
    BY <1>5, MovedOutstanding
  <2>2. held' = held /\ reservations' = reservations
    BY <1>5 DEF UpdateSends, StopSends, SendNext, ChooseComplete, ChooseIncomplete, ringVars
  <2>3. Owns(Outstanding', held, reservations)
    BY <2>1, <1>1, OwnsRearranged
  <2> QED BY <2>2, <2>3, OwnsMatch
<1>6. CASE (Update /\ Full) \/ StopReserves
  <2> DEFINE x == next'
  <2>1. Outstanding' = <<next'>> \o Outstanding
    BY <1>6, AddedOutstanding DEF RecorderTypeOK
  <2>2. /\ Reserve(next.start, LengthToWrite)
        /\ next' = [start |-> next.start, length |-> LengthToWrite,
                    reservation |-> ReservedHandle, name |-> next.name]
    BY <1>6, ReserveStep
  <2>3. x \in Snapshots /\ x.reservation = ReservedHandle /\ Reserve(x.start, LengthToWrite)
    BY <2>2 DEF RecorderTypeOK
  <2> HIDE DEF x
  <2>4. Owns(<<x>> \o Outstanding, held', reservations')
    BY <2>3, <1>1, <1>2, OwnsReserved
  <2> QED BY <2>1, <2>4, OwnsMatch DEF x
<1>7. CASE Release
  <2>1. Outstanding' \in Seq(Snapshots) /\ Outstanding = Outstanding' \o <<current>>
    BY <1>7, RemovedOutstanding
  <2>2. current \in Snapshots
    BY DEF RecorderTypeOK
  <2>3. Owns(Outstanding', held', reservations')
    BY <2>1, <2>2, <1>1, <1>2, <1>7, OwnsReleased
  <2> QED BY <2>3, OwnsMatch
<1> HIDE DEF ReservationsMatch
<1> QED BY <1>3, <1>4, <1>5, <1>6, <1>7 DEF RecorderNext, InputNext, WorkerNext

-----------------------------------------------------------------------------
(* Tiling.                                                                 *)

\* The second and third conjunct of Tiles, for these snapshots.
Distinct(o, done) ==
  /\ \A i, j \in 1 .. Len(o) : i # j => Span(o[i]) # Span(o[j])
  /\ \A i \in 1 .. Len(o) : Span(o[i]) \notin done

(* Tiles, now and after a step, in two parts.                              *)
LEMMA TilesSplit ==
  /\ Tiles <=> Tiled(Spans(Outstanding) \cup released, UpTo) /\ Distinct(Outstanding, released)
  /\ Tiles' <=> Tiled(Spans(Outstanding') \cup released', UpTo') /\ Distinct(Outstanding', released')
BY Zenon DEF Tiles, Distinct

(* Neither does their order matter for this.                               *)
LEMMA TilesRearranged ==
  ASSUME NEW s, NEW t, NEW done, Rearranged(s, t)
  PROVE  /\ Spans(t) = Spans(s)
         /\ Distinct(s, done) => Distinct(t, done)
<1>1. PICK p \in [1 .. Len(t) -> 1 .. Len(s)] :
        /\ \A i, j \in 1 .. Len(t) : p[i] = p[j] => i = j
        /\ \A k \in 1 .. Len(s) : \E i \in 1 .. Len(t) : p[i] = k
        /\ \A i \in 1 .. Len(t) : t[i] = s[p[i]]
  BY Zenon DEF Rearranged
<1>2. \A i \in 1 .. Len(t) : p[i] \in 1 .. Len(s)
  BY <1>1
<1>3. Spans(t) = Spans(s)
  <2>1. ASSUME NEW z \in Spans(t) PROVE z \in Spans(s)
    <3>1. PICK i \in 1 .. Len(t) : z = Span(t[i])
      BY DEF Spans
    <3>2. p[i] \in 1 .. Len(s) /\ t[i] = s[p[i]]
      BY <1>1, <1>2, Zenon
    <3> QED BY <3>1, <3>2 DEF Spans
  <2>2. ASSUME NEW z \in Spans(s) PROVE z \in Spans(t)
    <3>1. PICK k \in 1 .. Len(s) : z = Span(s[k])
      BY DEF Spans
    <3>2. PICK i \in 1 .. Len(t) : p[i] = k
      BY <1>1, Zenon
    <3>3. t[i] = s[k]
      BY <3>2, <1>1, Zenon
    <3> QED BY <3>1, <3>3 DEF Spans
  <2> QED BY <2>1, <2>2
<1>4. ASSUME Distinct(s, done) PROVE Distinct(t, done)
  <2>1. \A i, j \in 1 .. Len(s) : i # j => Span(s[i]) # Span(s[j])
    BY <1>4, Zenon DEF Distinct
  <2>2. \A i \in 1 .. Len(s) : Span(s[i]) \notin done
    BY <1>4, Zenon DEF Distinct
  <2>3. \A i, j \in 1 .. Len(t) : i # j => Span(t[i]) # Span(t[j])
    <3> TAKE i, j \in 1 .. Len(t)
    <3>1. i # j => p[i] # p[j]
      BY <1>1, Zenon
    <3>2. i # j => Span(s[p[i]]) # Span(s[p[j]])
      BY <3>1, <2>1, <1>2, Zenon
    <3>3. t[i] = s[p[i]] /\ t[j] = s[p[j]]
      BY <1>1, Zenon
    <3> QED BY <3>2, <3>3, Zenon
  <2>4. \A i \in 1 .. Len(t) : Span(t[i]) \notin done
    BY <2>2, <1>1, <1>2, Zenon
  <2> QED BY <2>3, <2>4, Zenon DEF Distinct
<1> QED BY <1>3, <1>4

(* A snapshot of the rows from upTo on tiles them up to its end.           *)
LEMMA TiledAdded ==
  ASSUME NEW all, NEW upTo \in Nat, NEW n \in Nat \ {0}, Tiled(all, upTo)
  PROVE  /\ Tiled(all \cup {[start |-> upTo, length |-> n]}, upTo + n)
         /\ [start |-> upTo, length |-> n] \notin all
<1> DEFINE new == [start |-> upTo, length |-> n]
<1>1. /\ all \subseteq [start : Nat, length : Nat \ {0}]
      /\ \A s \in all : s.start + s.length <= upTo
      /\ \A s, t \in all : s # t => Apart(s, t)
      /\ \A m \in 0 .. upTo - 1 : \E s \in all : m \in RangeOf(s)
  BY Zenon DEF Tiled
<1>2. new \in [start : Nat, length : Nat \ {0}] /\ new.start = upTo /\ new.length = n
  OBVIOUS
<1> HIDE DEF new
<1>3. new \notin all
  BY <1>1, <1>2
<1>4. all \cup {new} \subseteq [start : Nat, length : Nat \ {0}]
  BY <1>1, <1>2
<1>5. \A s \in all \cup {new} : s.start + s.length <= upTo + n
  <2> TAKE s \in all \cup {new}
  <2>1. CASE s = new
    BY <2>1, <1>2
  <2>2. CASE s \in all
    <3>1. s.start + s.length <= upTo
      BY <2>2, <1>1
    <3>2. s.start \in Nat /\ s.length \in Nat
      BY <2>2, <1>1
    <3> QED BY <3>1, <3>2
  <2> QED BY <2>1, <2>2
<1>6. \A s, t \in all \cup {new} : s # t => Apart(s, t)
  <2> TAKE s, t \in all \cup {new}
  <2>1. CASE s \in all /\ t \in all
    BY <2>1, <1>1
  <2>2. CASE s \in all /\ t = new
    <3>1. s.start + s.length <= t.start
      BY <2>2, <1>1, <1>2
    <3> QED BY <3>1 DEF Apart
  <2>3. CASE s = new /\ t \in all
    <3>1. t.start + t.length <= s.start
      BY <2>3, <1>1, <1>2
    <3> QED BY <3>1 DEF Apart
  <2> QED BY <2>1, <2>2, <2>3
<1>7. \A m \in 0 .. (upTo + n) - 1 : \E s \in all \cup {new} : m \in RangeOf(s)
  <2> TAKE m \in 0 .. (upTo + n) - 1
  <2>1. CASE m < upTo
    <3>1. m \in 0 .. upTo - 1
      BY <2>1
    <3>2. PICK s \in all : m \in RangeOf(s)
      BY <3>1, <1>1
    <3> QED BY <3>2
  <2>2. CASE m >= upTo
    <3>1. m \in RangeOf(new)
      BY <2>2, <1>2 DEF RangeOf
    <3> QED BY <3>1
  <2> QED BY <2>1, <2>2
<1> QED BY <1>3, <1>4, <1>5, <1>6, <1>7, Zenon DEF Tiled, new

(* A new snapshot in front, whose rows nobody has.                         *)
LEMMA DistinctAdded ==
  ASSUME NEW o \in Seq(Snapshots), NEW x \in Snapshots, NEW done,
         Distinct(o, done), Span(x) \notin Spans(o) \cup done
  PROVE  /\ Spans(<<x>> \o o) = Spans(o) \cup {Span(x)}
         /\ Distinct(<<x>> \o o, done)
<1> DEFINE t == <<x>> \o o
<1>1. t \in Seq(Snapshots)
  OBVIOUS
<1>2. Len(t) = Len(o) + 1 /\ t[1] = x /\ \A i \in 1 .. Len(o) : t[i + 1] = o[i]
  OBVIOUS
<1>3. Len(o) \in Nat
  OBVIOUS
<1> HIDE DEF t
<1>4. \A i \in 1 .. Len(t) : i = 1 \/ (i - 1 \in 1 .. Len(o) /\ t[i] = o[i - 1])
  <2> TAKE i \in 1 .. Len(t)
  <2>1. i # 1 => i - 1 \in 1 .. Len(o) /\ (i - 1) + 1 = i
    BY <1>2, <1>3
  <2> QED BY <2>1, <1>2
<1>5. \A i \in 1 .. Len(o) : Span(o[i]) # Span(x) /\ Span(o[i]) \notin done
  BY DEF Spans, Distinct
<1>6. \A i, j \in 1 .. Len(o) : i # j => Span(o[i]) # Span(o[j])
  BY Zenon DEF Distinct
<1>7. Spans(t) = Spans(o) \cup {Span(x)}
  <2>1. ASSUME NEW z \in Spans(t) PROVE z \in Spans(o) \cup {Span(x)}
    <3>1. PICK i \in 1 .. Len(t) : z = Span(t[i])
      BY DEF Spans
    <3>2. CASE i = 1
      BY <3>1, <3>2, <1>2
    <3>3. CASE i # 1
      <4>1. i - 1 \in 1 .. Len(o) /\ t[i] = o[i - 1]
        BY <3>3, <1>4
      <4> QED BY <3>1, <4>1 DEF Spans
    <3> QED BY <3>2, <3>3
  <2>2. ASSUME NEW z \in Spans(o) PROVE z \in Spans(t)
    <3>1. PICK k \in 1 .. Len(o) : z = Span(o[k])
      BY DEF Spans
    <3>2. k + 1 \in 1 .. Len(t) /\ t[k + 1] = o[k]
      BY <1>2, <1>3
    <3> QED BY <3>1, <3>2 DEF Spans
  <2>3. Span(x) \in Spans(t)
    <3>1. 1 \in 1 .. Len(t) /\ t[1] = x
      BY <1>2, <1>3
    <3> QED BY <3>1 DEF Spans
  <2> QED BY <2>1, <2>2, <2>3
<1>8. \A i, j \in 1 .. Len(t) : i # j => Span(t[i]) # Span(t[j])
  <2> TAKE i, j \in 1 .. Len(t)
  <2>1. CASE i # j /\ i # 1 /\ j # 1
    <3>1. i - 1 # j - 1
      BY <2>1, <1>2, <1>3
    <3>2. /\ i - 1 \in 1 .. Len(o) /\ t[i] = o[i - 1]
          /\ j - 1 \in 1 .. Len(o) /\ t[j] = o[j - 1]
      BY <2>1, <1>4
    <3> QED BY <3>1, <3>2, <1>6
  <2>2. CASE i = 1 /\ j # 1
    BY <2>2, <1>2, <1>4, <1>5
  <2>3. CASE i # 1 /\ j = 1
    BY <2>3, <1>2, <1>4, <1>5
  <2> QED BY <2>1, <2>2, <2>3
<1>9. \A i \in 1 .. Len(t) : Span(t[i]) \notin done
  BY <1>2, <1>4, <1>5
<1> QED BY <1>7, <1>8, <1>9, Zenon DEF Distinct, t

(* A released one moves over.                                              *)
LEMMA DistinctRemoved ==
  ASSUME NEW s, NEW t, NEW x, NEW done, WithoutLast(s, t, x), Distinct(t, done)
  PROVE  /\ Spans(t) = Spans(s) \cup {Span(x)}
         /\ Distinct(s, done \cup {Span(x)})
<1>1. Len(s) \in Nat /\ Len(t) = Len(s) + 1 /\ t[Len(t)] = x /\ \A i \in 1 .. Len(s) : t[i] = s[i]
  BY DEF WithoutLast
<1>2. Len(t) \in 1 .. Len(t)
  BY <1>1
<1>3. \A i \in 1 .. Len(s) : i \in 1 .. Len(t) /\ i # Len(t) /\ t[i] = s[i]
  BY <1>1
<1>4. \A i \in 1 .. Len(t) : i = Len(t) \/ i \in 1 .. Len(s)
  BY <1>1
<1>5. Spans(t) = Spans(s) \cup {Span(x)}
  <2>1. ASSUME NEW z \in Spans(t) PROVE z \in Spans(s) \cup {Span(x)}
    <3>1. PICK i \in 1 .. Len(t) : z = Span(t[i])
      BY DEF Spans
    <3>2. CASE i = Len(t)
      BY <3>1, <3>2, <1>1
    <3>3. CASE i \in 1 .. Len(s)
      BY <3>1, <3>3, <1>1 DEF Spans
    <3> QED BY <3>2, <3>3, <1>4
  <2>2. ASSUME NEW z \in Spans(s) PROVE z \in Spans(t)
    BY <1>3 DEF Spans
  <2>3. Span(x) \in Spans(t)
    BY <1>1, <1>2 DEF Spans
  <2> QED BY <2>1, <2>2, <2>3
<1>6. \A i, j \in 1 .. Len(t) : i # j => Span(t[i]) # Span(t[j])
  BY Zenon DEF Distinct
<1>7. \A i \in 1 .. Len(t) : Span(t[i]) \notin done
  BY Zenon DEF Distinct
<1>8. \A i, j \in 1 .. Len(s) : i # j => Span(s[i]) # Span(s[j])
  BY <1>3, <1>6
<1>9. \A i \in 1 .. Len(s) : Span(s[i]) \notin done \cup {Span(x)}
  <2> TAKE i \in 1 .. Len(s)
  <2>1. i \in 1 .. Len(t) /\ i # Len(t) /\ t[i] = s[i]
    BY <1>3
  <2>2. Span(t[i]) # Span(t[Len(t)])
    BY <2>1, <1>2, <1>6, Zenon
  <2>3. Span(s[i]) # Span(x)
    BY <2>1, <2>2, <1>1
  <2>4. Span(s[i]) \notin done
    BY <2>1, <1>7
  <2> QED BY <2>3, <2>4
<1> QED BY <1>5, <1>8, <1>9, Zenon DEF Distinct

(* A snapshot reserved covers the rows it begins at.                       *)
LEMMA TiledReserved ==
  ASSUME NEW o \in Seq(Snapshots), NEW x \in Snapshots, x.start \in Nat, x.length \in Nat \ {0},
         NEW done, Tiled(Spans(o) \cup done, x.start), Distinct(o, done)
  PROVE  /\ Tiled(Spans(<<x>> \o o) \cup done, x.start + x.length)
         /\ Distinct(<<x>> \o o, done)
<1> DEFINE all == Spans(o) \cup done
<1>1. Tiled(all, x.start)
  OBVIOUS
<1> HIDE DEF all
<1>2. Tiled(all \cup {Span(x)}, x.start + x.length) /\ Span(x) \notin all
  BY <1>1, TiledAdded DEF Span
<1>3. Spans(<<x>> \o o) = Spans(o) \cup {Span(x)} /\ Distinct(<<x>> \o o, done)
  BY <1>2, DistinctAdded DEF all
<1>4. Spans(<<x>> \o o) \cup done = all \cup {Span(x)}
  BY <1>3 DEF all
<1> QED BY <1>2, <1>3, <1>4

(* A snapshot released is counted among the released.                      *)
LEMMA TiledReleased ==
  ASSUME NEW o \in Seq(Snapshots), NEW x \in Snapshots, NEW done, NEW upTo,
         Tiled(Spans(o \o <<x>>) \cup done, upTo), Distinct(o \o <<x>>, done)
  PROVE  /\ Tiled(Spans(o) \cup (done \cup {Span(x)}), upTo)
         /\ Distinct(o, done \cup {Span(x)})
<1> DEFINE t == o \o <<x>>
<1>1. WithoutLast(o, t, x)
  BY OutstandingWithoutLast
<1> HIDE DEF t
<1>2. Distinct(t, done) /\ Tiled(Spans(t) \cup done, upTo)
  BY DEF t
<1>3. Spans(t) = Spans(o) \cup {Span(x)} /\ Distinct(o, done \cup {Span(x)})
  BY <1>1, <1>2, DistinctRemoved
<1>4. Spans(o) \cup (done \cup {Span(x)}) = Spans(t) \cup done
  BY <1>3
<1> QED BY <1>2, <1>3, <1>4

(* With as many spans as snapshots, such snapshots tile the rows.          *)
LEMMA TiledTiles ==
  ASSUME NEW o \in Seq(Snapshots), NEW upTo \in Nat,
         Tiled(Spans(o) \cup released, upTo), Distinct(o, released)
  PROVE  TileUpTo(o, upTo)
<1> DEFINE n == Len(o)
           f == [i \in 1 .. n |-> Span(o[i])]
           mine == Spans(o)
           all == mine \cup released
<1>1. n \in Nat
  OBVIOUS
<1>2. Cardinality(mine) = n
  <2>1. f \in [1 .. n -> mine] /\ \A i \in 1 .. n : f[i] = Span(o[i])
    BY DEF Spans
  <2>2. \A i, j \in 1 .. n : i # j => Span(o[i]) # Span(o[j])
    BY Zenon DEF Distinct
  <2>3. \A z \in mine : \E i \in 1 .. n : f[i] = z
    BY <2>1 DEF Spans
  <2> HIDE DEF f, n, mine
  <2>4. \A i, j \in 1 .. n : f[i] = f[j] => i = j
    BY <2>1, <2>2, Zenon
  <2>5. f \in Bijection(1 .. n, mine)
    BY <2>1, <2>3, <2>4 DEF Bijection, Injection, Surjection, IsInjective
  <2>6. ExistsBijection(1 .. n, mine)
    BY <2>5 DEF ExistsBijection
  <2> QED BY <1>1, <2>6, FS_CountingElements
<1>3. mine \cap released = {}
  BY DEF Distinct, Spans
<1>4. /\ all \subseteq [start : Nat, length : Nat \ {0}]
      /\ \A s \in all : s.start + s.length <= upTo
      /\ \A s, t \in all : s # t => Apart(s, t)
      /\ \A m \in 0 .. upTo - 1 : \E s \in all : m \in RangeOf(s)
  BY Zenon DEF Tiled
<1>5. mine = {[start |-> o[i].start, length |-> o[i].length] : i \in 1 .. n}
  BY Zenon DEF Spans, Span
<1> HIDE DEF n, f, mine, all
<1>6. \A s, t \in all : s # t => RangeOf(s) \cap RangeOf(t) = {}
  <2> SUFFICES ASSUME NEW s \in all, NEW t \in all, s # t, NEW m \in RangeOf(s), m \in RangeOf(t)
               PROVE  FALSE
    OBVIOUS
  <2>1. s \in [start : Nat, length : Nat \ {0}] /\ t \in [start : Nat, length : Nat \ {0}] /\ Apart(s, t)
    BY <1>4
  <2> QED BY <2>1 DEF Apart, RangeOf
<1>7. UNION {RangeOf(s) : s \in all} = 0 .. upTo - 1
  <2>1. ASSUME NEW s \in all, NEW m \in RangeOf(s) PROVE m \in 0 .. upTo - 1
    <3>1. s.start \in Nat /\ s.length \in Nat /\ s.start + s.length <= upTo
      BY <1>4
    <3> QED BY <3>1 DEF RangeOf
  <2>2. ASSUME NEW m \in 0 .. upTo - 1 PROVE \E s \in all : m \in RangeOf(s)
    BY <1>4
  <2> QED BY <2>1, <2>2
<1> QED BY <1>2, <1>3, <1>5, <1>6, <1>7 DEF TileUpTo, all, n

(* The steps on the tiling.                                                *)
LEMMA TilesStep ==
  ASSUME RecorderTypeOK, RecorderTypeOK', RingIInv, Position, ThreadsInStep, Tiles,
         RecorderNext
  PROVE  Tiles'
<1>1. Tiled(Spans(Outstanding) \cup released, UpTo) /\ Distinct(Outstanding, released)
  BY TilesSplit
<1>2. next.start \in Nat /\ next.length \in Nat
  BY DEF Position, RecorderTypeOK, Snapshots
<1>3. CASE \/ PushRow \/ FillAndStamp \/ (Update /\ ~Full) \/ StopCloses \/ StopJoins \/ Drain \/ DrainClosed
           \/ PutBack \/ OpenFile \/ OpenFails \/ WriteRow
  <2>1. Outstanding' = Outstanding
    BY <1>3, SameOutstanding
  <2>2. released' = released /\ UpTo' = UpTo
    BY <1>3 DEF Position, PushRow, FillAndStamp, FillRow, Update, StopCloses, StopJoins, Drain, DrainClosed, PutBack,
      OpenFile, OpenFails, WriteRow, inputVars, historyVars, UpTo, NextStart
  <2> QED BY <2>1, <2>2, <1>1, TilesSplit
<1>4. CASE UpdateSends \/ StopSends \/ ChooseComplete \/ ChooseIncomplete
  <2>1. Rearranged(Outstanding, Outstanding')
    BY <1>4, MovedOutstanding
  <2>2. released' = released
    BY <1>4 DEF UpdateSends, StopSends, ChooseComplete, ChooseIncomplete, historyVars
  <2>3. UpTo' = UpTo
    BY <1>4 DEF UpdateSends, StopSends, ChooseComplete, ChooseIncomplete, inputVars, SendNext, NewSnapshot,
      UpTo, NextStart
  <2>4. Spans(Outstanding') = Spans(Outstanding) /\ Distinct(Outstanding', released)
    BY <2>1, <1>1, TilesRearranged
  <2> QED BY <2>2, <2>3, <2>4, <1>1, TilesSplit
<1>5. CASE (Update /\ Full) \/ StopReserves
  <2> DEFINE x == next'
  <2>1. Outstanding' = <<next'>> \o Outstanding
    BY <1>5, AddedOutstanding DEF RecorderTypeOK
  <2>2. LengthToWrite \in Nat \ {0} /\ x.start = next.start /\ x.length = LengthToWrite
    BY <1>5, ReserveStep, CapacityAmple
  <2>3. UpTo = x.start /\ UpTo' = x.start + x.length /\ released' = released
    BY <1>5, <2>2 DEF Update, StopReserves, historyVars, UpTo, NextStart
  <2>4. x \in Snapshots /\ Outstanding \in Seq(Snapshots)
    BY PlacesTyped DEF RecorderTypeOK
  <2> HIDE DEF x
  <2>5. /\ Tiled(Spans(<<x>> \o Outstanding) \cup released, x.start + x.length)
        /\ Distinct(<<x>> \o Outstanding, released)
    BY <2>2, <2>3, <2>4, <1>1, <1>2, TiledReserved
  <2> QED BY <2>1, <2>3, <2>5, TilesSplit DEF x
<1>6. CASE Release
  <2>1. Outstanding' \in Seq(Snapshots) /\ Outstanding = Outstanding' \o <<current>>
    BY <1>6, RemovedOutstanding
  <2>2. current \in Snapshots
    BY DEF RecorderTypeOK
  <2>3. released' = released \cup {Span(current)} /\ UpTo' = UpTo
    BY <1>6 DEF Release, Span, inputVars, UpTo, NextStart
  <2>4. /\ Tiled(Spans(Outstanding') \cup (released \cup {Span(current)}), UpTo)
        /\ Distinct(Outstanding', released \cup {Span(current)})
    BY <2>1, <2>2, <1>1, TiledReleased
  <2> QED BY <2>3, <2>4, TilesSplit
<1> HIDE DEF Tiles
<1> QED BY <1>3, <1>4, <1>5, <1>6 DEF RecorderNext, InputNext, WorkerNext

(* Inside its position, that is what SnapshotsTile says.                   *)
LEMMA TilesGiveTiling ==
  ASSUME RecorderTypeOK, Position, Tiles
  PROVE  SnapshotsTile
<1>1. Tiled(Spans(Outstanding) \cup released, UpTo) /\ Distinct(Outstanding, released)
  BY TilesSplit
<1>2. UpTo \in Nat
  BY DEF Position, RecorderTypeOK, Snapshots, UpTo, NextStart
<1>3. TileUpTo(Outstanding, UpTo)
  BY <1>1, <1>2, PlacesTyped, TiledTiles
<1>4. ASSUME input = "ended" PROVE pushed <= UpTo + 1
  <2>1. pushed - next.start <= 1
    BY <1>4 DEF Position, Behind
  <2>2. pushed \in Nat /\ next.start \in Nat
    BY DEF Position, RecorderTypeOK, RingTypeOK
  <2>3. UpTo = next.start
    BY <1>4 DEF UpTo
  <2> QED
    BY <2>1, <2>2, <2>3
<1> QED BY <1>3, <1>4, Zenon DEF SnapshotsTile, UpTo

-----------------------------------------------------------------------------
(* Times and rows.                                                         *)

(* The snapshots outstanding, after each kind of step.                     *)
LEMMA RearrangedElements ==
  ASSUME NEW s \in Seq(Snapshots), NEW t \in Seq(Snapshots), Rearranged(s, t)
  PROVE  ToSet(t) = ToSet(s)
<1>1. PICK p \in [1 .. Len(t) -> 1 .. Len(s)] :
        /\ \A k \in 1 .. Len(s) : \E i \in 1 .. Len(t) : p[i] = k
        /\ \A i \in 1 .. Len(t) : t[i] = s[p[i]]
  BY Zenon DEF Rearranged
<1>2. \A i \in 1 .. Len(t) : p[i] \in 1 .. Len(s)
  BY <1>1
<1>3. ToSet(s) = {s[i] : i \in 1 .. Len(s)} /\ ToSet(t) = {t[i] : i \in 1 .. Len(t)}
  BY DEF ToSet
<1>4. ASSUME NEW i \in 1 .. Len(t) PROVE t[i] \in ToSet(s)
  BY <1>1, <1>2, <1>3
<1>5. ASSUME NEW k \in 1 .. Len(s) PROVE s[k] \in ToSet(t)
  <2>1. PICK i \in 1 .. Len(t) : p[i] = k
    BY <1>1, Zenon
  <2>2. t[i] = s[k]
    BY <2>1, <1>1, Zenon
  <2> QED BY <2>2, <1>3
<1> QED BY <1>3, <1>4, <1>5

(* A snapshot put in front is one more element.                            *)
LEMMA AddedElement ==
  ASSUME NEW s \in Seq(Snapshots), NEW x \in Snapshots
  PROVE  ToSet(<<x>> \o s) = ToSet(s) \cup {x}
<1> DEFINE t == <<x>> \o s
<1>1. t \in Seq(Snapshots)
  OBVIOUS
<1>2. Len(t) = Len(s) + 1 /\ t[1] = x /\ \A i \in 1 .. Len(s) : t[i + 1] = s[i]
  OBVIOUS
<1>3. Len(s) \in Nat
  OBVIOUS
<1> HIDE DEF t
<1>4. ToSet(s) = {s[i] : i \in 1 .. Len(s)} /\ ToSet(t) = {t[i] : i \in 1 .. Len(t)}
  BY <1>1 DEF ToSet
<1>5. ASSUME NEW i \in 1 .. Len(t) PROVE t[i] \in ToSet(s) \cup {x}
  <2>1. i # 1 => i - 1 \in 1 .. Len(s) /\ (i - 1) + 1 = i
    BY <1>2, <1>3
  <2> QED BY <2>1, <1>2, <1>4
<1>6. ASSUME NEW i \in 1 .. Len(s) PROVE s[i] \in ToSet(t)
  <2>1. i + 1 \in 1 .. Len(t) /\ t[i + 1] = s[i]
    BY <1>2, <1>3
  <2> QED BY <2>1, <1>4
<1>7. x \in ToSet(t)
  <2>1. 1 \in 1 .. Len(t) /\ t[1] = x
    BY <1>2, <1>3
  <2> QED BY <2>1, <1>4
<1> QED BY <1>4, <1>5, <1>6, <1>7 DEF t

(* Taking the last one off adds none.                                      *)
LEMMA RemovedElement ==
  ASSUME NEW s \in Seq(Snapshots), NEW x \in Snapshots
  PROVE  ToSet(s) \subseteq ToSet(s \o <<x>>)
<1> DEFINE t == s \o <<x>>
<1>1. t \in Seq(Snapshots)
  OBVIOUS
<1>2. Len(t) = Len(s) + 1 /\ \A i \in 1 .. Len(s) : t[i] = s[i]
  OBVIOUS
<1>3. Len(s) \in Nat
  OBVIOUS
<1> HIDE DEF t
<1>4. ToSet(s) = {s[i] : i \in 1 .. Len(s)} /\ ToSet(t) = {t[i] : i \in 1 .. Len(t)}
  BY <1>1 DEF ToSet
<1>5. ASSUME NEW i \in 1 .. Len(s) PROVE s[i] \in ToSet(t)
  <2>1. i \in 1 .. Len(t) /\ t[i] = s[i]
    BY <1>2, <1>3
  <2> QED BY <2>1, <1>4
<1> QED BY <1>4, <1>5 DEF t

(* An outstanding snapshot's rows, as the tiling has them.                 *)
LEMMA ElementTyped ==
  ASSUME RecorderTypeOK, Tiles, NEW s \in ToSet(Outstanding)
  PROVE  s \in Snapshots /\ s.start \in Nat /\ s.length \in Nat \ {0}
<1>1. Outstanding \in Seq(Snapshots)
  BY PlacesTyped
<1>2. PICK i \in 1 .. Len(Outstanding) : s = Outstanding[i]
  BY <1>1 DEF ToSet
<1>3. s \in Snapshots
  BY <1>1, <1>2
<1>4. Span(s) \in Spans(Outstanding)
  BY <1>2 DEF Spans
<1>5. Spans(Outstanding) \subseteq [start : Nat, length : Nat \ {0}]
  BY DEF Tiles, Tiled
<1>6. Span(s) \in [start : Nat, length : Nat \ {0}]
  BY <1>4, <1>5
<1> QED BY <1>3, <1>6 DEF Span

(* Before the first row nothing is outstanding.                            *)
LEMMA NothingBeforeFirstRow ==
  ASSUME RecorderTypeOK, ThreadsInStep, input = "reading", pushed = 0
  PROVE  ToSet(Outstanding) = {}
<1>1. queue = << >> /\ received = << >> /\ incomplete = << >> /\ Reserved = << >> /\ InHand = << >>
  BY DEF ThreadsInStep, Reserved, InHand
<1>2. Outstanding = (((<< >> \o << >>) \o << >>) \o << >>) \o << >>
  BY <1>1, OutstandingLine, Zenon DEF Line
<1>3. Outstanding = << >>
  BY <1>2
<1> QED BY <1>3 DEF ToSet

(* The steps on the rows and names of the snapshots outstanding.           *)
LEMMA SnapshotsInTimeStep ==
  ASSUME RecorderTypeOK, RecorderTypeOK', RingIInv, Position, ThreadsInStep, Tiles, SnapshotsInTime, NextNamed,
         RecorderNext
  PROVE  SnapshotsInTime'
<1>0. pushed \in Nat /\ filling \in BOOLEAN
  BY DEF RecorderTypeOK, RingTypeOK
<1>1. Outstanding \in Seq(Snapshots) /\ Outstanding' \in Seq(Snapshots)
  <2>1. Outstanding \in Seq(Snapshots)
    BY PlacesTyped
  <2>2. (Outstanding \in Seq(Snapshots))'
    BY PlacesTyped, PTL
  <2> QED BY <2>1, <2>2
<1>2. CASE PushRow
  <2>1. ToSet(Outstanding') = ToSet(Outstanding)
    BY <1>2, SameOutstanding, Zenon
  <2>2. input = "reading" /\ pushed' = pushed + 1
    BY <1>2 DEF PushRow, Push
  <2>3. ASSUME NEW s \in ToSet(Outstanding)
        PROVE  s.start + s.length < pushed' /\ s.name = s.start - 1
    <3>1. pushed # 0
      BY <2>2, NothingBeforeFirstRow
    <3>2. s.start \in Nat /\ s.length \in Nat
      BY ElementTyped
    <3>3. s.start + s.length <= pushed /\ s.name = s.start - 1
      BY <3>1, <1>0 DEF SnapshotsInTime
    <3> QED BY <3>2, <3>3, <2>2, <1>0
  <2>4. ASSUME NEW s \in ToSet(Outstanding)
        PROVE  s.start + s.length <= pushed'
    <3>1. s.start \in Nat /\ s.length \in Nat
      BY ElementTyped
    <3> QED BY <3>1, <2>3, <2>2, <1>0
  <2> QED BY <2>1, <2>3, <2>4, Zenon DEF SnapshotsInTime
<1>3. CASE \/ FillAndStamp \/ (Update /\ ~Full) \/ StopCloses \/ StopJoins \/ Drain \/ DrainClosed
           \/ PutBack \/ OpenFile \/ OpenFails \/ WriteRow
  <2>1. ToSet(Outstanding') = ToSet(Outstanding)
    BY <1>3, SameOutstanding, Zenon
  <2>2. pushed' = pushed /\ (filling' => filling)
    BY <1>3 DEF FillAndStamp, FillRow, Update, StopCloses, StopJoins, Drain, DrainClosed, PutBack, OpenFile,
      OpenFails, WriteRow, ringVars
  <2> QED BY <2>1, <2>2 DEF SnapshotsInTime
<1>4. CASE UpdateSends \/ StopSends \/ ChooseComplete \/ ChooseIncomplete
  <2>1. Rearranged(Outstanding, Outstanding')
    BY <1>4, MovedOutstanding
  <2>2. ToSet(Outstanding') = ToSet(Outstanding)
    BY <2>1, <1>1, RearrangedElements
  <2>3. pushed' = pushed /\ filling' = filling
    BY <1>4 DEF UpdateSends, StopSends, SendNext, ChooseComplete, ChooseIncomplete, ringVars
  <2> QED BY <2>2, <2>3 DEF SnapshotsInTime
<1>5. CASE (Update /\ Full) \/ StopReserves
  <2>1. next' \in Snapshots
    BY DEF RecorderTypeOK
  <2>2. Outstanding' = <<next'>> \o Outstanding
    BY <1>5, <2>1, AddedOutstanding
  <2>3. ToSet(Outstanding') = ToSet(Outstanding) \cup {next'}
    BY <2>1, <2>2, <1>1, AddedElement
  <2>4. /\ next'.start = next.start /\ next'.length = LengthToWrite /\ next'.name = next.name
        /\ pushed' = pushed /\ filling' = filling
    BY <1>5, ReserveStep DEF Reserve
  <2>5. next.name = next.start - 1
    BY <1>5 DEF NextNamed, Streaming, Update, StopReserves
  <2>6. next'.start + next'.length <= pushed \/ pushed = 0
    <3>1. input = "updating" \/ (input = "reading" /\ ~filling)
      BY <1>5 DEF Update, StopReserves
    <3>2. /\ Behind \in 0 .. SnapshotRows + 2
          /\ LengthToWrite = IF Behind \in 1 .. SnapshotRows THEN Behind ELSE SnapshotRows
      BY <3>1, NextLength
    <3>3. Behind = 0 => pushed = 0
      BY <3>1 DEF Position, Streaming
    <3>4. next.start \in Nat /\ Behind = pushed - next.start /\ SnapshotRows \in Nat
      BY CapacityAmple DEF Position, Behind
    <3> QED BY <3>2, <3>3, <3>4, <2>4, <1>0
  <2>7. ~filling
    <3>1. input = "updating" \/ ~filling
      BY <1>5 DEF Update, StopReserves
    <3> QED BY <3>1 DEF Position
  <2>8. /\ pushed' > 0 => next'.start + next'.length <= pushed'
        /\ filling' => next'.start + next'.length < pushed'
        /\ next'.name = next'.start - 1
    BY <2>4, <2>5, <2>6, <2>7
  <2> QED BY <2>3, <2>4, <2>8 DEF SnapshotsInTime
<1>6. CASE Release
  <2>1. Outstanding' \in Seq(Snapshots) /\ Outstanding = Outstanding' \o <<current>>
    BY <1>6, RemovedOutstanding
  <2>2. current \in Snapshots
    BY DEF RecorderTypeOK
  <2>3. ToSet(Outstanding') \subseteq ToSet(Outstanding)
    BY <2>1, <2>2, RemovedElement
  <2>4. pushed' = pushed /\ filling' = filling
    BY <1>6 DEF Release, FreeReservation, ringVars
  <2> QED BY <2>3, <2>4 DEF SnapshotsInTime
<1> QED BY <1>2, <1>3, <1>4, <1>5, <1>6 DEF RecorderNext, InputNext, WorkerNext

(* The next snapshot is named after the row before its first, which is     *)
(* whose time the table has under its start.                               *)
LEMMA NextNamedStep ==
  ASSUME RecorderTypeOK, RingIInv, Position, NextNamed, TimesStored,
         RecorderNext
  PROVE  NextNamed'
<1>1. CASE UpdateSends
  <2>1. input = "sending" /\ next' = NewSnapshot(NextStart)
    BY <1>1 DEF UpdateSends, SendNext
  <2>2. NextStart = pushed - 2 /\ NextStart \in 0 .. pushed /\ ~filling /\ pushed < NextStart + Capacity
    <3>1. /\ next.start \in Nat /\ pushed \in Nat /\ ~filling
          /\ pushed - next.start = SnapshotRows + 2 /\ next.length = SnapshotRows
      BY <2>1 DEF Position, Behind, RecorderTypeOK, RingTypeOK
    <3>2. NextStart = pushed - 2 /\ NextStart \in 0 .. pushed
      BY <3>1, CapacityAmple DEF NextStart
    <3> QED BY <3>1, <3>2, CapacityAmple
  <2>3. TimeOf(NextStart) = NextStart - 1
    BY <2>2 DEF TimesStored
  <2> QED BY <2>1, <2>3 DEF NextNamed, NewSnapshot
<1>2. CASE StopSends
  BY <1>2 DEF StopSends, NextNamed, Streaming
<1>3. CASE (Update /\ Full) \/ StopReserves
  <2>1. next'.start = next.start /\ next'.name = next.name
    BY <1>3, ReserveStep
  <2> QED BY <1>3, <2>1 DEF NextNamed, Streaming, Update, StopReserves
<1>4. CASE PushRow \/ FillAndStamp \/ (Update /\ ~Full) \/ StopCloses \/ StopJoins \/ WorkerNext
  <2>1. next' = next
    BY <1>4 DEF PushRow, FillAndStamp, Update, StopCloses, StopJoins, WorkerNext, Drain, DrainClosed,
      ChooseComplete, ChooseIncomplete, PutBack, OpenFile, OpenFails, WriteRow, Release, inputVars
  <2>2. Streaming' \/ input' = "ending" => Streaming \/ input = "ending"
    BY <1>4 DEF Position, Streaming, PushRow, FillAndStamp, FillRow, Update, StopCloses, StopJoins, WorkerNext,
      Drain, DrainClosed, ChooseComplete, ChooseIncomplete, PutBack, OpenFile, OpenFails, WriteRow, Release,
      inputVars
  <2> QED BY <2>1, <2>2 DEF NextNamed
<1> QED BY <1>1, <1>2, <1>3, <1>4 DEF RecorderNext, InputNext

(* The table of times keeps the last lap.                                  *)
LEMMA TimesStoredStep ==
  ASSUME RecorderTypeOK, RingIInv, TimesStored,
         RecorderNext
  PROVE  TimesStored'
<1>1. pushed \in Nat /\ filling \in BOOLEAN /\ rawHandles \in [Indices -> Int] /\ Capacity \in Nat \ {0}
  BY RingMetrics DEF RecorderTypeOK, RingTypeOK
<1>2. CASE PushRow
  <2>1. ~filling /\ pushed' = pushed + 1 /\ filling' /\ rawHandles' = rawHandles
    BY <1>2 DEF PushRow, Push, inputVars
  <2>2. ASSUME NEW k \in 0 .. pushed', k < pushed', pushed' < k + Capacity
        PROVE  TimeOf(k) = k - 1
    <3>1. k \in 0 .. pushed /\ pushed < k + Capacity
      BY <2>1, <2>2, <1>1
    <3> QED BY <3>1, <2>1 DEF TimesStored
  <2> QED BY <2>1, <2>2 DEF TimesStored, TimeOf
<1>3. CASE FillAndStamp
  <2>1. /\ filling /\ ~filling' /\ pushed' = pushed
        /\ rawHandles' = [rawHandles EXCEPT ![Mark] = pushed - 1]
    BY <1>3 DEF FillAndStamp, FillRow
  <2>2. Mark = pushed % Capacity /\ Mark \in Indices
    BY DEF RingIInv, HeadInPlace, Mark, RingTypeOK
  <2>3. ASSUME NEW k \in 0 .. pushed, pushed < k + Capacity
        PROVE  rawHandles'[NormalizeRowIndex(k)] = k - 1
    <3>1. NormalizeRowIndex(k) \in Indices
      BY AtInRange
    <3>2. CASE k = pushed
      BY <3>2, <2>1, <2>2, <1>1 DEF NormalizeRowIndex
    <3>3. CASE k < pushed
      <4>1. NormalizeRowIndex(k) # Mark
        <5>1. k % Capacity # pushed % Capacity
          <6>1. k \in Int /\ pushed \in Int
            BY <1>1
          <6> QED BY <3>3, <2>3, <6>1, <1>1, ModInjective
        <5> QED BY <5>1, <2>2 DEF NormalizeRowIndex
      <4>2. TimeOf(k) = k - 1
        BY <3>3, <2>3 DEF TimesStored
      <4> QED BY <4>1, <4>2, <3>1, <2>1, <1>1 DEF TimeOf
    <3> QED BY <3>2, <3>3, <1>1
  <2> QED BY <2>1, <2>3 DEF TimesStored, TimeOf
<1>4. CASE ~PushRow /\ ~FillAndStamp
  <2>1. pushed' = pushed /\ filling' = filling /\ rawHandles' = rawHandles
    BY <1>4 DEF RecorderNext, InputNext, Update, ReserveNext, Reserve, UpdateSends, SendNext, StopReserves,
      StopSends, StopCloses, StopJoins, WorkerNext, Drain, DrainClosed, ChooseComplete, ChooseIncomplete,
      PutBack, OpenFile, OpenFails, WriteRow, Release, FreeReservation, ringVars, inputVars
  <2> QED BY <2>1 DEF TimesStored, TimeOf
<1> QED BY <1>2, <1>3, <1>4

-----------------------------------------------------------------------------
(* The file being written.                                                 *)

(* What the worker has in hand.                                            *)
LEMMA CurrentInTime ==
  ASSUME RecorderTypeOK, Tiles, SnapshotsInTime, worker \in {"opening", "writing", "releasing"}
  PROVE  /\ current.start \in Nat /\ current.length \in Nat \ {0}
         /\ current.name = current.start - 1
         /\ pushed > 0 => current.start + current.length <= pushed
         /\ filling => current.start + current.length < pushed
<1>1. Outstanding \in Seq(Snapshots)
  BY PlacesTyped
<1>2. Len(Outstanding) \in 1 .. Len(Outstanding) /\ Outstanding[Len(Outstanding)] = current
  BY CurrentIsLast
<1>3. current \in ToSet(Outstanding)
  BY <1>1, <1>2 DEF ToSet
<1> QED BY <1>3, ElementTyped DEF SnapshotsInTime

(* A row that has been filled and not been overtaken reads as itself.      *)
LEMMA RowReadsItself ==
  ASSUME RecorderTypeOK, RingIInv, SizeCounts,
         NEW m \in Nat, m < pushed, pushed < m + Capacity, filling => m + 1 < pushed
  PROVE  RowRead(m) = m
<1>1. pushed \in Nat /\ Capacity \in Nat \ {0} /\ filling \in BOOLEAN
  BY RingMetrics DEF RecorderTypeOK, RingTypeOK
<1> DEFINE k == pushed - m
<1>2. k \in 1 .. size
  BY <1>1 DEF SizeCounts
<1>3. At(Mark - k) = At(m)
  <2>1. Mark = pushed % Capacity
    BY DEF RingIInv, HeadInPlace, Mark
  <2>2. pushed \in Int /\ -k \in Int
    BY <1>1
  <2>3. At((pushed % Capacity) + (-k)) = At(pushed + (-k))
    BY <2>2, AtMod
  <2>4. pushed + (-k) = m
    BY <1>1
  <2>5. (pushed % Capacity) + (-k) = Mark - k
    <3>1. Mark \in Int
      BY DEF Mark, Indices, RecorderTypeOK, RingTypeOK
    <3> HIDE DEF k
    <3> QED BY <3>1, <2>1, <2>2
  <2> QED BY <2>3, <2>4, <2>5
<1>4. ~(k = 1 /\ filling)
  BY <1>1
<1>5. Contents(Mark - k) = pushed - k
  BY <1>2, <1>4 DEF RingIInv, WindowCorrect
<1>6. Contents(m) = m
  BY <1>3, <1>5, <1>1 DEF Contents
<1>7. ~(filling /\ At(m) = slot)
  <2> SUFFICES ASSUME filling PROVE At(m) # slot
    OBVIOUS
  <2>1. slot = At(pushed - 1)
    <3>1. slot = At(Mark - 1) /\ Mark = pushed % Capacity
      BY DEF RingIInv, SlotInPlace, HeadInPlace, Mark
    <3> DEFINE j == -1
    <3>2. pushed \in Int /\ j \in Int
      BY <1>1
    <3> HIDE DEF j
    <3>3. At((pushed % Capacity) + j) = At(pushed + j)
      BY <3>2, AtMod
    <3>4. (pushed % Capacity) + j = Mark - 1 /\ pushed + j = pushed - 1
      <4>1. Mark \in Int
        BY DEF Mark, Indices, RecorderTypeOK, RingTypeOK
      <4> QED BY <4>1, <3>1, <1>1 DEF j
    <3> QED BY <3>1, <3>3, <3>4
  <2>2. m \in Int /\ pushed - 1 \in Int /\ m < pushed - 1 /\ pushed - 1 < m + Capacity
    BY <1>1
  <2>3. At(m).chunk # At(pushed - 1).chunk \/ At(m).item # At(pushed - 1).item
    BY <2>2, AtInjective
  <2> QED BY <2>1, <2>3
<1> QED BY <1>6, <1>7 DEF RowRead

(* The steps on the file: the rows written so far are the snapshot's, as   *)
(* long as the input has not come round to its first.                      *)
LEMMA FileStep ==
  ASSUME RecorderTypeOK, RecorderTypeOK', RingIInv, Position, ThreadsInStep, SizeCounts, Tiles, SnapshotsInTime,
         TimesStored, FileInStep,
         RecorderNext
  PROVE  FileInStep'
<1>1. pushed \in Nat /\ Capacity \in Nat \ {0} /\ rows \in Seq(Int) /\ filling \in BOOLEAN
  BY RingMetrics DEF RecorderTypeOK, RingTypeOK
<1>2. CASE PushRow
  <2>1. /\ worker' = worker /\ rows' = rows /\ current' = current /\ stamp' = stamp
        /\ pushed' = pushed + 1 /\ input = "reading"
    BY <1>2 DEF PushRow, Push, workerVars
  <2>2. worker \in {"writing", "releasing"} => pushed > 0 /\ current.start \in Nat
    <3>1. worker \in {"writing", "releasing"} => pushed # 0
      BY <2>1 DEF ThreadsInStep
    <3>2. worker \in {"writing", "releasing"} => current.start \in Nat
      BY CurrentInTime
    <3> QED BY <3>1, <3>2, <1>1
  <2>3. worker \in {"writing", "releasing"} /\ pushed' < current.start + Capacity
          => 0 < pushed /\ pushed < current.start + Capacity
    BY <2>1, <2>2, <1>1
  <2> QED BY <2>1, <2>3 DEF FileInStep
<1>3. CASE InputNext /\ ~PushRow
  <2>1. worker' = worker /\ rows' = rows /\ current' = current /\ stamp' = stamp /\ pushed' = pushed
    BY <1>3 DEF InputNext, FillAndStamp, FillRow, Update, ReserveNext, Reserve, UpdateSends, SendNext,
      StopReserves, StopSends, StopCloses, StopJoins, workerVars, ringVars
  <2> QED BY <2>1 DEF FileInStep
<1>4. CASE Drain \/ DrainClosed \/ ChooseComplete \/ ChooseIncomplete \/ PutBack \/ Release
  <2>1. worker' \notin {"writing", "releasing"}
    BY <1>4 DEF Drain, DrainClosed, ChooseComplete, ChooseIncomplete, PutBack, Release
  <2> QED BY <2>1 DEF FileInStep
<1>5. CASE OpenFile
  <2>1. /\ current.start \in Nat /\ current.length \in Nat \ {0}
        /\ current.name = current.start - 1
        /\ pushed > 0 => current.start + current.length <= pushed
        /\ filling => current.start + current.length < pushed
    BY <1>5, CurrentInTime DEF OpenFile
  <2>2. /\ worker' = "writing" /\ rows' = << >> /\ current' = current /\ pushed' = pushed
        /\ stamp' = TimeOf(current.start)
    BY <1>5, <2>1 DEF OpenFile, ringVars
  <2>3. ASSUME 0 < pushed, pushed < current.start + Capacity
        PROVE  stamp' = current.name
    <3>1. current.start \in 0 .. pushed /\ (filling => current.start < pushed)
      BY <2>1, <2>3, <1>1
    <3>2. TimeOf(current.start) = current.start - 1
      BY <2>3, <3>1 DEF TimesStored
    <3> QED BY <3>2, <2>1, <2>2
  <2>4. Len(rows') < current.length /\ Len(rows') = 0
    BY <2>1, <2>2
  <2> QED BY <2>2, <2>3, <2>4 DEF FileInStep
<1>6. CASE OpenFails
  <2>1. worker' = "releasing" /\ rows' = << >>
    BY <1>6 DEF OpenFails
  <2> QED BY <2>1 DEF FileInStep
<1>7. CASE WriteRow
  <2>1. /\ worker = "writing" /\ current' = current /\ pushed' = pushed /\ stamp' = stamp
        /\ rows' = Append(rows, RowRead(current.start + Len(rows)))
        /\ worker' = IF Len(rows) + 1 = current.length THEN "releasing" ELSE "writing"
    BY <1>7 DEF WriteRow, ringVars
  <2>2. Len(rows) < current.length /\ Len(rows) \in Nat
    BY <2>1, <1>1 DEF FileInStep
  <2>3. /\ current.start \in Nat /\ current.length \in Nat \ {0}
        /\ pushed > 0 => current.start + current.length <= pushed
        /\ filling => current.start + current.length < pushed
    BY <2>1, CurrentInTime
  <2>4. Len(rows') = Len(rows) + 1 /\ \A y \in 1 .. Len(rows) : rows'[y] = rows[y]
    BY <2>1, <1>1
  <2>5. rows'[Len(rows) + 1] = RowRead(current.start + Len(rows))
    BY <2>1, <1>1
  <2>6. ASSUME 0 < pushed, pushed < current.start + Capacity
        PROVE  /\ \A y \in 1 .. Len(rows') : rows'[y] = current.start + y - 1
               /\ stamp' = current.name
    <3> DEFINE m == current.start + Len(rows)
    <3>1. m \in Nat /\ m < pushed /\ pushed < m + Capacity /\ (filling => m + 1 < pushed)
      BY <2>2, <2>3, <2>6, <1>1
    <3>2. RowRead(m) = m
      BY <3>1, RowReadsItself
    <3>3. \A y \in 1 .. Len(rows) : rows[y] = current.start + y - 1
      BY <2>1, <2>6 DEF FileInStep
    <3>4. stamp = current.name
      BY <2>1, <2>6 DEF FileInStep
    <3>5. ASSUME NEW y \in 1 .. Len(rows') PROVE rows'[y] = current.start + y - 1
      <4>1. CASE y \in 1 .. Len(rows)
        BY <4>1, <3>3, <2>4
      <4>2. CASE y = Len(rows) + 1
        BY <4>2, <3>2, <2>5, <2>2, <2>3
      <4> QED BY <4>1, <4>2, <2>2, <2>4
    <3> QED BY <3>4, <3>5, <2>1
  <2>7. /\ worker' = "writing" => Len(rows') < current'.length
        /\ worker' = "releasing" => Len(rows') = current'.length
    BY <2>1, <2>2, <2>3, <2>4
  <2> QED BY <2>1, <2>6, <2>7 DEF FileInStep
<1> QED BY <1>2, <1>3, <1>4, <1>5, <1>6, <1>7 DEF RecorderNext, WorkerNext

(* A file released clean was never lapped, or its reservation would be     *)
(* dirty.                                                                  *)
LEMMA CleanFilesStep ==
  ASSUME RecorderTypeOK, RingIInv, Position, ThreadsInStep, ReservationsMatch, Tiles, SnapshotsInTime, FileInStep,
         CleanFilesExact, RecorderNext
  PROVE  CleanFilesExact'
<1>1. pushed \in Nat /\ Capacity \in Nat \ {0} /\ rows \in Seq(Int)
  BY RingMetrics DEF RecorderTypeOK, RingTypeOK
<1>2. CASE PushRow
  <2>1. file' = file /\ input = "reading"
    BY <1>2 DEF PushRow, historyVars
  <2>2. pushed = 0 => file = NoFile
    BY <2>1 DEF ThreadsInStep
  <2>3. file.opened => pushed > 0
    BY <2>2, <1>1 DEF NoFile
  <2> QED BY <2>1, <2>3 DEF CleanFilesExact
<1>3. CASE ~PushRow /\ ~Release
  <2>1. file' = file /\ pushed' = pushed
    BY <1>3 DEF RecorderNext, InputNext, FillAndStamp, FillRow, Update, ReserveNext, Reserve, UpdateSends,
      SendNext, StopReserves, StopSends, StopCloses, StopJoins, WorkerNext, Drain, DrainClosed,
      ChooseComplete, ChooseIncomplete, PutBack, OpenFile, OpenFails, WriteRow, ringVars, historyVars
  <2> QED BY <2>1 DEF CleanFilesExact
<1>4. CASE Release
  <2> DEFINE h == current.reservation
  <2>1. /\ h \in DOMAIN held /\ held[h].first = current.start
    BY <1>4, CurrentHeld DEF Release
  <2>2. h \in DOMAIN reservations
    BY <2>1 DEF RecorderTypeOK, RingTypeOK
  <2>3. /\ file'.start = current.start /\ file'.length = current.length
        /\ file'.opened = (rows # << >>) /\ file'.rows = rows
        /\ file'.stamp = stamp /\ file'.name = current.name
        /\ file'.dirty = (h \in DOMAIN reservations /\ reservations[h].dirty)
        /\ worker = "releasing"
    BY <1>4 DEF Release
  <2>4. pushed' = pushed
    BY <1>4 DEF Release, FreeReservation, ringVars
  <2>5. ASSUME rows # << >>, ~file'.dirty, pushed > 0
        PROVE  /\ file'.rows = [y \in 1 .. file'.length |-> file'.start + y - 1]
               /\ file'.stamp = file'.name
    <3>1. ~reservations[h].dirty
      BY <2>2, <2>3, <2>5
    <3>2. ~(pushed >= held[h].first + Capacity)
      BY <3>1, <2>1 DEF RingIInv, OverwriteFlagged
    <3>3. current.start \in Nat
      BY <2>3, CurrentInTime
    <3>4. pushed < current.start + Capacity
      BY <3>2, <3>3, <2>1, <1>1
    <3>5. Len(rows) = current.length
      BY <2>3, <2>5 DEF FileInStep
    <3>6. (\A y \in 1 .. Len(rows) : rows[y] = current.start + y - 1) /\ stamp = current.name
      BY <2>3, <2>5, <3>4 DEF FileInStep
    <3>7. rows = [y \in 1 .. current.length |-> current.start + y - 1]
      <4>1. rows = [y \in 1 .. Len(rows) |-> rows[y]]
        BY <1>1
      <4> QED BY <4>1, <3>5, <3>6
    <3> QED BY <3>6, <3>7, <2>3
  <2> QED BY <2>3, <2>4, <2>5 DEF CleanFilesExact
<1> QED BY <1>2, <1>3, <1>4

-----------------------------------------------------------------------------
(* The invariant.                                                          *)

(* The recorder starts with everything empty.                              *)
LEMMA RecorderInitInvariant == RecorderInit => RecorderIInv
<1> SUFFICES ASSUME RecorderInit PROVE RecorderIInv
  OBVIOUS
<1> USE DEF RecorderInit
<1>1. RingIInv /\ RingTypeOK
  BY InitInvariant DEF RingIInv
<1>2. pushed = 0 /\ filling = FALSE /\ size = 0 /\ reservations = << >> /\ held = << >>
  BY DEF RingInit
<1>3. RecorderTypeOK
  <2>1. rawHandles \in [Indices -> Int] /\ stamp \in Int /\ NoSnapshot \in Snapshots
    BY DEF NoTime, NoSnapshot, Snapshots
  <2>2. queue \in Seq(Snapshots) /\ received \in Seq(Snapshots) /\ incomplete \in Seq(Snapshots)
    OBVIOUS
  <2>3. rows \in Seq(Int) /\ openFailures \in 0 .. MaxOpenFailures
    BY RecorderSizes
  <2>4. next \in Snapshots /\ current \in Snapshots
    BY <2>1
  <2> QED BY <1>1, <2>1, <2>2, <2>3, <2>4, Zenon DEF RecorderTypeOK
<1>4. Position
  BY <1>2, CapacityAmple DEF Position, Behind, Streaming, NoSnapshot
<1>5. ThreadsInStep /\ SizeCounts
  BY <1>2, RingMetrics DEF ThreadsInStep, SizeCounts
<1>6. Outstanding = << >>
  <2>1. Reserved = << >> /\ InHand = << >>
    BY DEF Reserved, InHand
  <2>2. Outstanding = (((<< >> \o << >>) \o << >>) \o << >>) \o << >>
    BY <2>1, OutstandingLine, Zenon DEF Line
  <2> QED BY <2>2
<1>7. ReservationsMatch
  BY <1>2, <1>6 DEF ReservationsMatch, OwnReservations
<1>8. Tiles
  BY <1>6 DEF Tiles, Tiled, Spans, UpTo, NoSnapshot
<1>9. SnapshotsInTime
  BY <1>6 DEF SnapshotsInTime, ToSet
<1>10. NextNamed
  BY DEF NextNamed, NoSnapshot, NoTime
<1>11. TimesStored
  <2>1. NormalizeRowIndex(0) \in Indices
    BY AtInRange
  <2> QED BY <2>1, <1>2 DEF TimesStored, TimeOf, NoTime
<1>12. FileInStep /\ CleanFilesExact
  BY DEF FileInStep, CleanFilesExact, NoFile
<1> QED BY <1>1, <1>3, <1>4, <1>5, <1>7, <1>8, <1>9, <1>10, <1>11, <1>12 DEF RecorderIInv

(* Each step keeps the invariant; the order is that of the dependencies.   *)
LEMMA RecorderStepInvariant == RecorderIInv /\ [RecorderNext]_recorderVars => RecorderIInv'
<1> SUFFICES ASSUME RecorderIInv, [RecorderNext]_recorderVars PROVE RecorderIInv'
  OBVIOUS
<1>1. CASE RecorderNext
  <2> USE <1>1 DEF RecorderIInv
  <2>1. RingIInv'
    BY RingStep
  <2>2. RecorderTypeOK'
    BY <2>1, RecorderTypeStep
  <2>3. Position' /\ SizeCounts' /\ TimesStored' /\ NextNamed'
    BY PositionStep, SizeStep, TimesStoredStep, NextNamedStep
  <2>4. ThreadsInStep' /\ ReservationsMatch' /\ Tiles' /\ SnapshotsInTime'
    BY <2>2, ThreadsStep, ReservationsStep, TilesStep, SnapshotsInTimeStep
  <2>5. FileInStep' /\ CleanFilesExact'
    BY <2>2, FileStep, CleanFilesStep
  <2> QED BY <2>1, <2>2, <2>3, <2>4, <2>5
<1>2. CASE UNCHANGED recorderVars
  <2> USE <1>2 DEF recorderVars, ringVars, inputVars, workerVars, historyVars
  <2>1. UNCHANGED ringVars
    OBVIOUS
  <2>2. RingIInv'
    BY <2>1, StepInvariant DEF RecorderIInv
  <2>3. Outstanding' = Outstanding
    BY DEF Outstanding, OutstandingWith
  <2>4. RecorderTypeOK' /\ Position' /\ ThreadsInStep' /\ SizeCounts'
    <3>1. RecorderTypeOK'
      BY DEF RecorderIInv, RecorderTypeOK, RingTypeOK
    <3>2. Position'
      <4>1. UNCHANGED <<pushed, filling, input, next>> /\ Position
        BY DEF RecorderIInv
      <4> HIDE <1>2 DEF recorderVars, ringVars, inputVars, workerVars, historyVars
      <4>2. Behind' = Behind
        BY <4>1 DEF Behind
      <4>3. Streaming' = Streaming
        BY <4>1 DEF Streaming
      <4> HIDE DEF Behind, Streaming
      <4> QED BY <4>1, <4>2, <4>3, Zenon DEF Position
    <3>3. ThreadsInStep'
      BY DEF RecorderIInv, ThreadsInStep, Streaming
    <3>4. SizeCounts'
      BY DEF RecorderIInv, SizeCounts, Streaming, Behind
    <3> QED BY <3>1, <3>2, <3>3, <3>4
  <2>5. ReservationsMatch'
    BY <2>3 DEF RecorderIInv, ReservationsMatch, OwnReservations
  <2>6. Tiles' /\ SnapshotsInTime'
    BY <2>3 DEF RecorderIInv, Tiles, SnapshotsInTime, UpTo, NextStart
  <2>7. NextNamed' /\ TimesStored'
    BY DEF RecorderIInv, NextNamed, Streaming, TimesStored, TimeOf
  <2>8. FileInStep' /\ CleanFilesExact'
    BY DEF RecorderIInv, FileInStep, CleanFilesExact
  <2> QED BY <2>2, <2>4, <2>5, <2>6, <2>7, <2>8 DEF RecorderIInv
<1> QED BY <1>1, <1>2

(* The invariant holds of every run.                                       *)
THEOREM RecorderInvariant == RecorderSpec => []RecorderIInv
  BY RecorderInitInvariant, RecorderStepInvariant, PTL DEF RecorderSpec

(* Types, for every size of buffer and snapshot, every stream and every    *)
(* speed of the worker.                                                    *)
THEOREM RecorderTypeCorrect == RecorderSpec => []RecorderTypeOK
<1>1. RecorderIInv => RecorderTypeOK
  BY DEF RecorderIInv
<1> QED BY <1>1, RecorderInvariant, PTL

(* Each outstanding snapshot holds a reservation of its own, made for its  *)
(* own rows, and no other reservation is held (startWriting() and          *)
(* threadMethod(), WaterfallBackend.cpp:83-90 and 107-119).                *)
THEOREM ReservationsAlwaysMatch == RecorderSpec => []ReservationsMatch
<1>1. RecorderIInv => ReservationsMatch
  BY DEF RecorderIInv
<1> QED BY <1>1, RecorderInvariant, PTL

(* The rows up to the next snapshot are divided among the snapshots        *)
(* without gap or overlap, and when the recorder has stopped at most one   *)
(* row is left over (startWriting(), threadMethod() and stop(),            *)
(* WaterfallBackend.cpp:60-127 and 400-412).                               *)
THEOREM SnapshotsAlwaysTile == RecorderSpec => []SnapshotsTile
<1>1. RecorderIInv => SnapshotsTile
  BY TilesGiveTiling DEF RecorderIInv
<1> QED BY <1>1, RecorderInvariant, PTL

(* A file whose reservation was clean when it was released holds exactly   *)
(* its snapshot's rows, with the time it is named after (write() against   *)
(* processFFT(), WaterfallBackend.cpp:141-211 and 485-536).                *)
THEOREM CleanFilesAreExact == RecorderSpec => []CleanFilesExact
<1>1. RecorderIInv => CleanFilesExact
  BY DEF RecorderIInv
<1> QED BY <1>1, RecorderInvariant, PTL
=============================================================================
