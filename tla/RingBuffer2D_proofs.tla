------------------------ MODULE RingBuffer2D_proofs ------------------------
(***************************************************************************)
(* What the ring buffer guarantees for every row size, chunk size and      *)
(* capacity.  The inductive invariant RingIInv adds to the properties what *)
(* ties the head's three representations together: its index is the number *)
(* of rows pushed modulo the capacity, and its chunk and item are where    *)
(* that index is stored.                                                   *)
(***************************************************************************)
EXTENDS RingBuffer2D, TLAPS

HeldType == held \in [DOMAIN held -> [first : Int, length : Nat, since : Nat]]

HeadInPlace ==
  /\ head.index = head.chunk * ChunkRows + head.item
  /\ head.index = pushed % Capacity

SlotInPlace == filling => slot = At(Mark - 1)

StartsRecorded ==
  \A h \in DOMAIN held : reservations[h].start = held[h].first % Capacity

RingIInv ==
  /\ RingTypeOK
  /\ HeldType
  /\ HeadInPlace
  /\ SlotInPlace
  /\ WindowCorrect
  /\ HandlesOwned
  /\ StartsRecorded
  /\ OverwriteFlagged

-----------------------------------------------------------------------------
(* \div and % with a positive divisor, on which all about indices rests.    *)

(* The quotient and the remainder of v make up v.                          *)
LEMMA DivMod ==
  ASSUME NEW v \in Int, NEW c \in Nat \ {0}
  PROVE  /\ v \div c \in Int
         /\ v % c \in 0 .. c - 1
         /\ v = (v \div c) * c + (v % c)
OBVIOUS

(* A number written as q * c + r with r below c has remainder r.           *)
LEMMA ModUnique ==
  ASSUME NEW q \in Int, NEW c \in Nat \ {0}, NEW r \in 0 .. c - 1
  PROVE  (q * c + r) % c = r
OBVIOUS

(* ... and quotient q.                                                     *)
LEMMA DivUnique ==
  ASSUME NEW q \in Int, NEW c \in Nat \ {0}, NEW r \in 0 .. c - 1
  PROVE  (q * c + r) \div c = q
OBVIOUS

(* A value in range is its own remainder.                                  *)
LEMMA ModSmall ==
  ASSUME NEW c \in Nat \ {0}, NEW v \in 0 .. c - 1
  PROVE  v % c = v
OBVIOUS

(* Whole laps do not change the remainder.                                 *)
LEMMA ModShift ==
  ASSUME NEW v \in Int, NEW c \in Nat \ {0}, NEW n \in Int
  PROVE  (v + n * c) % c = v % c
<1> DEFINE q == v \div c
           m == v % c
<1>1. q \in Int /\ m \in 0 .. c - 1 /\ v = q * c + m
  BY DivMod
<1> HIDE DEF q, m
<1>2. v + n * c = (q + n) * c + m
  BY <1>1
<1>3. ((q + n) * c + m) % c = m
  BY <1>1, ModUnique
<1> QED BY <1>2, <1>3 DEF m

(* A remainder may be taken before adding as well as after.                *)
LEMMA ModAdd ==
  ASSUME NEW v \in Int, NEW c \in Nat \ {0}, NEW k \in Int
  PROVE  ((v % c) + k) % c = (v + k) % c
<1> DEFINE q == v \div c
           m == v % c
           u == m + k
<1>1. q \in Int /\ m \in 0 .. c - 1 /\ v = q * c + m
  BY DivMod
<1> HIDE DEF q, m
<1>2. u \in Int /\ v + k = u + q * c
  BY <1>1
<1> HIDE DEF u
<1>3. (u + q * c) % c = u % c
  BY <1>1, <1>2, ModShift
<1> QED BY <1>2, <1>3 DEF m, u

(* Special cases: one step on, and one lap on.                             *)
LEMMA ModSucc ==
  ASSUME NEW v \in Int, NEW c \in Nat \ {0}
  PROVE  ((v % c) + 1) % c = (v + 1) % c
<1> DEFINE k == 1
<1>1. k \in Int
  OBVIOUS
<1> HIDE DEF k
<1>2. ((v % c) + k) % c = (v + k) % c
  BY <1>1, ModAdd
<1> QED BY <1>2 DEF k

LEMMA ModLap ==
  ASSUME NEW v \in Int, NEW c \in Nat \ {0}
  PROVE  (v + c) % c = v % c
<1> DEFINE n == 1
<1>1. n \in Int /\ n * c = c
  OBVIOUS
<1> HIDE DEF n
<1>2. (v + n * c) % c = v % c
  BY <1>1, ModShift
<1> QED BY <1>1, <1>2

(* Two values less than a lap apart have different remainders.             *)
LEMMA ModInjective ==
  ASSUME NEW c \in Nat \ {0}, NEW v \in Int, NEW w \in Int, v < w, w < v + c
  PROVE  v % c # w % c
<1> DEFINE q == v \div c
           m == v % c
           p == w \div c
           n == w % c
<1>1. q \in Int /\ m \in 0 .. c - 1 /\ v = q * c + m
  BY DivMod
<1>2. p \in Int /\ n \in 0 .. c - 1 /\ w = p * c + n
  BY DivMod
<1> HIDE DEF q, m, p, n
<1>3. SUFFICES ASSUME m = n PROVE FALSE
  BY DEF m, n
<1>4. w - v = (p - q) * c
  BY <1>1, <1>2, <1>3
<1>5. CASE p - q <= 0
  <2>1. (p - q) * c <= 0
    BY <1>5, <1>1, <1>2
  <2> QED BY <2>1, <1>4
<1>6. CASE p - q >= 1
  <2>1. (p - q) * c >= c
    BY <1>6, <1>1, <1>2
  <2> QED BY <2>1, <1>4
<1> QED BY <1>1, <1>2, <1>5, <1>6

-----------------------------------------------------------------------------
(* The chunk metrics.                                                      *)

(* Rounding up gives at least one, and covers what was asked for.          *)
LEMMA CeilDivCovers ==
  ASSUME NEW a \in Nat \ {0}, NEW b \in Nat \ {0}
  PROVE  /\ CeilDiv(a, b) \in Nat \ {0}
         /\ CeilDiv(a, b) * b >= a
         /\ CeilDiv(a, b) * b < a + b
<1> DEFINE q == a \div b
           m == a % b
<1>1. q \in Int /\ m \in 0 .. b - 1 /\ a = q * b + m
  BY DivMod
<1>2. CeilDiv(a, b) = q + (IF m # 0 THEN 1 ELSE 0)
  BY DEF CeilDiv
<1> HIDE DEF q, m
<1>3. q >= 0
  BY <1>1
<1>4. CASE m = 0
  <2>1. q # 0
    BY <1>1, <1>4
  <2> QED BY <2>1, <1>1, <1>2, <1>3, <1>4
<1>5. CASE m # 0
  <2>1. (q + 1) * b = q * b + b
    BY <1>1
  <2> QED BY <2>1, <1>1, <1>2, <1>3, <1>5
<1> QED BY <1>4, <1>5

(* The buffer has at least one chunk of at least one row.                  *)
LEMMA RingMetrics ==
  /\ ChunkRows \in Nat \ {0}
  /\ ChunkCount \in Nat \ {0}
  /\ Capacity \in Nat \ {0}
<1>1. ChunkRows \in Nat \ {0}
  BY RingSizes, CeilDivCovers DEF ChunkRows
<1>2. ChunkCount \in Nat \ {0}
  BY <1>1, RingSizes, CeilDivCovers DEF ChunkCount
<1> QED BY <1>1, <1>2 DEF Capacity

(* resize() allocates at least the capacity it was asked for, and less than *)
(* one chunk more (RingBuffer.h:436-448).                                  *)
THEOREM CapacityCovers == Capacity >= MinCapacity /\ Capacity < MinCapacity + ChunkRows
  BY RingMetrics, RingSizes, CeilDivCovers DEF Capacity, ChunkCount

(* A row index names a row of a chunk, and two indices name two rows.      *)
LEMMA LocationInjective ==
  ASSUME NEW i \in Indices
  PROVE  /\ Location(i).chunk \in ChunkIndices
         /\ Location(i).item \in ItemIndices
         /\ i = Location(i).chunk * ChunkRows + Location(i).item
<1> DEFINE q == i \div ChunkRows
           m == i % ChunkRows
<1>1. Location(i).chunk = q /\ Location(i).item = m
  BY DEF Location
<1>2. q \in Int /\ m \in 0 .. ChunkRows - 1 /\ i = q * ChunkRows + m
  BY DivMod, RingMetrics DEF Indices
<1> HIDE DEF q, m
<1>3. q >= 0
  BY <1>2, RingMetrics DEF Indices
<1>4. q < ChunkCount
  <2> SUFFICES ASSUME q >= ChunkCount PROVE FALSE
    BY <1>2, RingMetrics
  <2>1. q * ChunkRows >= ChunkCount * ChunkRows
    BY <1>2, RingMetrics
  <2> QED BY <2>1, <1>2, RingMetrics DEF Indices, Capacity
<1> QED BY <1>1, <1>2, <1>3, <1>4, RingMetrics DEF ChunkIndices, ItemIndices

(* at() stays inside the allocated chunks whatever mark it is given.       *)
LEMMA AtInRange ==
  ASSUME NEW m \in Int
  PROVE  /\ NormalizeRowIndex(m) \in Indices
         /\ At(m).chunk \in ChunkIndices
         /\ At(m).item \in ItemIndices
<1>1. m % Capacity \in 0 .. Capacity - 1
  BY DivMod, RingMetrics
<1> QED BY <1>1, LocationInjective, RingMetrics DEF NormalizeRowIndex, Indices, At

(* Marks less than a lap apart are stored in different places.             *)
LEMMA AtInjective ==
  ASSUME NEW m \in Int, NEW n \in Int, m < n, n < m + Capacity
  PROVE  At(m).chunk # At(n).chunk \/ At(m).item # At(n).item
<1>1. NormalizeRowIndex(m) # NormalizeRowIndex(n)
  BY ModInjective, RingMetrics DEF NormalizeRowIndex
<1>2. NormalizeRowIndex(m) \in Indices /\ NormalizeRowIndex(n) \in Indices
  BY AtInRange
<1> QED BY <1>1, <1>2, LocationInjective DEF At

(* Marks congruent modulo the capacity are the same place.                 *)
LEMMA AtMod ==
  ASSUME NEW m \in Int, NEW k \in Int
  PROVE  At((m % Capacity) + k) = At(m + k)
  BY ModAdd, RingMetrics DEF At, NormalizeRowIndex

(* The head's chunk and item are where the next row will be looked for.    *)
LEMMA HeadStored ==
  ASSUME RingTypeOK, HeadInPlace
  PROVE  [chunk |-> head.chunk, item |-> head.item] = At(pushed)
<1> DEFINE c == head.chunk
           i == head.item
<1>1. c \in 0 .. ChunkCount - 1 /\ i \in 0 .. ChunkRows - 1
  BY DEF RingTypeOK, ChunkIndices, ItemIndices
<1>2. head.index = c * ChunkRows + i /\ head.index = pushed % Capacity
  BY DEF HeadInPlace
<1>3. At(pushed) = [chunk |-> head.index \div ChunkRows, item |-> head.index % ChunkRows]
  BY <1>2 DEF At, Location, NormalizeRowIndex
<1> HIDE DEF c, i
<1>4. c \in Int
  BY <1>1, RingMetrics
<1>5. (c * ChunkRows + i) \div ChunkRows = c /\ (c * ChunkRows + i) % ChunkRows = i
  BY <1>1, <1>4, DivUnique, ModUnique, RingMetrics
<1>6. At(pushed) = [chunk |-> c, item |-> i]
  BY <1>2, <1>3, <1>5
<1> QED BY <1>6 DEF c, i

(* Advancing the head keeps its chunk and item in step with its index.     *)
LEMMA AdvanceInPlace ==
  ASSUME RingTypeOK, HeadInPlace
  PROVE  /\ AdvanceHead(head) \in [chunk : ChunkIndices, item : ItemIndices, index : Indices]
         /\ AdvanceHead(head).index = AdvanceHead(head).chunk * ChunkRows + AdvanceHead(head).item
<1> DEFINE c == head.chunk
           i == head.item
           x == head.index
<1>1. /\ c \in 0 .. ChunkCount - 1
      /\ i \in 0 .. ChunkRows - 1
      /\ x \in 0 .. Capacity - 1
      /\ x = c * ChunkRows + i
  BY DEF RingTypeOK, HeadInPlace, ChunkIndices, ItemIndices, Indices
<1>2. AdvanceHead(head) = [chunk |-> IF ~(i + 1 >= ChunkRows) THEN c
                                 ELSE IF c + 1 >= ChunkCount THEN 0 ELSE c + 1,
                       item  |-> IF i + 1 >= ChunkRows THEN 0 ELSE i + 1,
                       index |-> (x + 1) % Capacity]
  BY DEF AdvanceHead
<1> HIDE DEF c, i, x
<1>3. (x + 1) % Capacity \in 0 .. Capacity - 1
  BY <1>1, DivMod, RingMetrics
<1>4. (c + 1) * ChunkRows = c * ChunkRows + ChunkRows
  BY <1>1, RingMetrics
<1>5. CASE i + 1 < ChunkRows
  <2>1. (c + 1) * ChunkRows <= ChunkCount * ChunkRows
    BY <1>1, RingMetrics
  <2>2. x + 1 \in 0 .. Capacity - 1
    BY <2>1, <1>1, <1>4, <1>5, RingMetrics DEF Capacity
  <2>3. (x + 1) % Capacity = x + 1
    BY <2>2, ModSmall, RingMetrics
  <2> QED BY <2>2, <2>3, <1>1, <1>2, <1>5, RingMetrics DEF ChunkIndices, ItemIndices, Indices
<1>6. CASE i + 1 >= ChunkRows /\ c + 1 < ChunkCount
  <2>1. x + 1 = (c + 1) * ChunkRows
    BY <1>1, <1>4, <1>6, RingMetrics
  <2>2. (c + 1) * ChunkRows < ChunkCount * ChunkRows
    BY <1>1, <1>6, RingMetrics
  <2>3. (x + 1) % Capacity = x + 1
    BY <2>1, <2>2, <1>1, ModSmall, RingMetrics DEF Capacity
  <2> QED BY <2>1, <2>3, <1>1, <1>2, <1>3, <1>6, RingMetrics DEF ChunkIndices, ItemIndices,
    Indices
<1>7. CASE i + 1 >= ChunkRows /\ c + 1 >= ChunkCount
  <2>1. c + 1 = ChunkCount /\ i + 1 = ChunkRows
    BY <1>1, <1>7, RingMetrics
  <2>2. x + 1 = 1 * Capacity + 0
    BY <2>1, <1>1, <1>4, RingMetrics DEF Capacity
  <2>3. (x + 1) % Capacity = 0
    BY <2>2, ModUnique, RingMetrics
  <2> QED BY <2>3, <1>1, <1>2, <1>3, <1>7, RingMetrics DEF ChunkIndices, ItemIndices, Indices
<1> QED BY <1>1, <1>5, <1>6, <1>7, RingMetrics

-----------------------------------------------------------------------------
(* The steps.                                                              *)

LEMMA InitInvariant == RingInit => RingIInv
<1> SUFFICES ASSUME RingInit PROVE RingIInv
  OBVIOUS
<1> USE RingMetrics DEF RingInit
<1>1. RingTypeOK
  <2>1. head \in [chunk : ChunkIndices, item : ItemIndices, index : Indices]
    BY DEF ChunkIndices, ItemIndices, Indices
  <2>2. chunks \in [ChunkIndices -> [ItemIndices -> Int]]
    BY DEF NeverWritten
  <2>3. reservations \in Seq(Reservation) /\ freeReservations \in Seq(1 .. Len(reservations))
    OBVIOUS
  <2>4. size \in 0 .. Capacity
    OBVIOUS
  <2>5. slot \in [chunk : ChunkIndices, item : ItemIndices]
    BY DEF ChunkIndices, ItemIndices
  <2>6. filling \in BOOLEAN /\ pushed \in Nat
    OBVIOUS
  <2>7. DOMAIN held \subseteq 1 .. Len(reservations)
    OBVIOUS
  <2> HIDE DEF RingInit
  <2> QED BY ONLY <2>1, <2>2, <2>3, <2>4, <2>5, <2>6, <2>7 DEF RingTypeOK
<1>2. HeldType
  BY DEF HeldType
<1>3. HeadInPlace /\ SlotInPlace
  BY ModSmall DEF HeadInPlace, SlotInPlace
<1>4. WindowCorrect
  BY DEF WindowCorrect
<1>5. HandlesOwned
  BY DEF HandlesOwned
<1>6. StartsRecorded /\ OverwriteFlagged
  BY DEF StartsRecorded, OverwriteFlagged
<1> QED BY <1>1, <1>2, <1>3, <1>4, <1>5, <1>6 DEF RingIInv

(* Marking keeps every field of every reservation but dirty, which it only *)
(* ever sets.                                                              *)
LEMMA MarkDirtyKeeps ==
  ASSUME NEW rs \in Seq(Reservation), NEW m
  PROVE  /\ MarkDirty(rs, m) \in Seq(Reservation)
         /\ Len(MarkDirty(rs, m)) = Len(rs)
         /\ \A h \in 1 .. Len(rs) :
               /\ MarkDirty(rs, m)[h].start = rs[h].start
               /\ MarkDirty(rs, m)[h].alive = rs[h].alive
               /\ rs[h].dirty => MarkDirty(rs, m)[h].dirty
               /\ rs[h].alive /\ IsInRange(m, rs[h].start, rs[h].end)
                     => MarkDirty(rs, m)[h].dirty
<1> DEFINE hit(h) == rs[h].alive /\ IsInRange(m, rs[h].start, rs[h].end)
<1>1. MarkDirty(rs, m) = [h \in 1 .. Len(rs) |->
                             IF hit(h) THEN [rs[h] EXCEPT !.dirty = TRUE] ELSE rs[h]]
  BY DEF MarkDirty
<1> HIDE DEF hit
<1>2. \A h \in 1 .. Len(rs) : rs[h] \in Reservation
  OBVIOUS
<1>3. \A h \in 1 .. Len(rs) : [rs[h] EXCEPT !.dirty = TRUE] \in Reservation
  BY <1>2 DEF Reservation
<1>4. MarkDirty(rs, m) \in Seq(Reservation) /\ Len(MarkDirty(rs, m)) = Len(rs)
  BY <1>1, <1>2, <1>3
<1>5. \A h \in 1 .. Len(rs) :
         /\ MarkDirty(rs, m)[h].start = rs[h].start
         /\ MarkDirty(rs, m)[h].alive = rs[h].alive
         /\ rs[h].dirty => MarkDirty(rs, m)[h].dirty
         /\ hit(h) => MarkDirty(rs, m)[h].dirty
  BY <1>1, <1>2 DEF Reservation
<1> QED BY <1>4, <1>5 DEF hit

(* A reservation whose end reads as 0 is in range of its own start.        *)
LEMMA StartInRange ==
  ASSUME NEW s \in Indices
  PROVE  IsInRange(s, s, 0)
<1>1. NormalizeRowIndex(s) = s /\ NormalizeRowIndex(0) = 0
  BY ModSmall, RingMetrics DEF NormalizeRowIndex, Indices
<1> QED BY <1>1, RingMetrics DEF IsInRange, Indices

LEMMA PushInvariant == RingIInv /\ Push => RingIInv'
<1> SUFFICES ASSUME RingIInv, Push PROVE RingIInv'
  OBVIOUS
<1> USE DEF RingIInv
<1>1. /\ Len(reservations') = Len(reservations)
      /\ reservations' \in Seq(Reservation)
      /\ \A h \in 1 .. Len(reservations) :
            /\ reservations'[h].start = reservations[h].start
            /\ reservations'[h].alive = reservations[h].alive
            /\ reservations[h].dirty => reservations'[h].dirty
            /\ reservations[h].alive
                 /\ IsInRange(head'.index, reservations[h].start, reservations[h].end)
                 => reservations'[h].dirty
  BY MarkDirtyKeeps DEF Push, RingTypeOK
<1>2. /\ head' \in [chunk : ChunkIndices, item : ItemIndices, index : Indices]
      /\ head'.index = head'.chunk * ChunkRows + head'.item
  BY AdvanceInPlace DEF Push
<1>3. head'.index = (pushed + 1) % Capacity
  <2>1. head'.index = (head.index + 1) % Capacity
    BY DEF Push, AdvanceHead
  <2>2. ((pushed % Capacity) + 1) % Capacity = (pushed + 1) % Capacity
    <3>1. pushed \in Int
      BY DEF RingTypeOK
    <3> QED BY <3>1, ModSucc, RingMetrics
  <2> QED BY <2>1, <2>2 DEF HeadInPlace
<1>4. RingTypeOK'
  <2>1. size' \in 0 .. Capacity
    BY RingMetrics DEF Push, Grow, RingTypeOK
  <2>2. slot' \in [chunk : ChunkIndices, item : ItemIndices]
    BY DEF Push, RingTypeOK
  <2> QED BY <1>1, <1>2, <2>1, <2>2 DEF Push, RingTypeOK
<1>5. HeldType'
  BY DEF HeldType, Push
<1>6. HeadInPlace'
  BY <1>2, <1>3 DEF HeadInPlace, Push
<1>7. WindowCorrect'
  <2> SUFFICES ASSUME NEW k \in 1 .. size', k # 1
               PROVE  Contents(Mark - k)' = pushed' - k
    BY DEF WindowCorrect, Push
  <2>1. k - 1 \in 1 .. size
    BY RingMetrics DEF Push, Grow, RingTypeOK
  <2>2. Contents(Mark - (k - 1)) = pushed - (k - 1)
    BY <2>1 DEF WindowCorrect, Push
  <2>3. At(head'.index - k) = At(Mark - (k - 1))
    <3>1. At(((pushed + 1) % Capacity) + (-k)) = At((pushed + 1) + (-k))
      BY AtMod DEF RingTypeOK
    <3>2. At((pushed % Capacity) + (-(k - 1))) = At(pushed + (-(k - 1)))
      BY AtMod, <2>1 DEF RingTypeOK
    <3>3. (pushed + 1) % Capacity \in Int /\ pushed % Capacity \in Int
      BY DivMod, RingMetrics DEF RingTypeOK
    <3>4. (pushed + 1) + (-k) = pushed + (-(k - 1))
      BY DEF RingTypeOK
    <3>5. ((pushed + 1) % Capacity) + (-k) = head'.index - k
      BY <1>3, <3>3
    <3>6. (pushed % Capacity) + (-(k - 1)) = Mark - (k - 1)
      BY <3>3 DEF Mark, HeadInPlace
    <3> QED BY <3>1, <3>2, <3>4, <3>5, <3>6
  <2>4. Contents(Mark - k)' = Contents(Mark - (k - 1))
    BY <2>3 DEF Contents, Mark, Push
  <2> QED BY <2>2, <2>4 DEF Push, RingTypeOK
<1>8. HandlesOwned'
  BY <1>1 DEF HandlesOwned, Push
<1>9. StartsRecorded'
  BY <1>1 DEF StartsRecorded, Push, RingTypeOK
<1>10. OverwriteFlagged'
  <2> SUFFICES ASSUME NEW h \in DOMAIN held, pushed + 1 >= held[h].first + Capacity
               PROVE  reservations'[h].dirty
    BY DEF OverwriteFlagged, Push
  <2>1. h \in 1 .. Len(reservations) /\ held[h].first \in Int
    BY DEF RingTypeOK, HeldType
  <2>2. CASE pushed >= held[h].first + Capacity
    BY <2>1, <2>2, <1>1 DEF OverwriteFlagged
  <2>3. CASE pushed + 1 = held[h].first + Capacity
    <3>1. head'.index = held[h].first % Capacity
      <4>1. (held[h].first + Capacity) % Capacity = held[h].first % Capacity
        BY <2>1, ModLap, RingMetrics
      <4> QED BY <4>1, <2>3, <1>3
    <3>2. head'.index = reservations[h].start /\ reservations[h].alive
      BY <3>1, <2>1 DEF StartsRecorded, HandlesOwned
    <3>3. reservations[h].end = 0 /\ reservations[h].start \in Indices
      <4>1. reservations[h] \in Reservation
        BY <2>1 DEF RingTypeOK
      <4> QED BY <4>1 DEF Reservation
    <3> QED BY <3>2, <3>3, <2>1, <1>1, StartInRange
  <2>4. pushed \in Int /\ held[h].first + Capacity \in Int
    BY <2>1, RingMetrics DEF RingTypeOK
  <2> QED BY <2>2, <2>3, <2>4
<1>11. SlotInPlace'
  <2>1. slot' = At(pushed)
    BY HeadStored DEF Push
  <2>2. At(head'.index - 1) = At(pushed)
    <3>1. At(((pushed + 1) % Capacity) + (-1)) = At((pushed + 1) + (-1))
      BY AtMod DEF RingTypeOK
    <3>2. (pushed + 1) % Capacity \in Int
      BY DivMod, RingMetrics DEF RingTypeOK
    <3>3. (pushed + 1) + (-1) = pushed
      BY DEF RingTypeOK
    <3>4. ((pushed + 1) % Capacity) + (-1) = head'.index - 1
      BY <1>3, <3>2
    <3> QED BY <3>1, <3>3, <3>4
  <2> QED BY <2>1, <2>2 DEF SlotInPlace, Mark
<1> QED BY <1>4, <1>5, <1>6, <1>7, <1>8, <1>9, <1>10, <1>11

LEMMA FillInvariant == RingIInv /\ FillRow => RingIInv'
<1> SUFFICES ASSUME RingIInv, FillRow PROVE RingIInv'
  OBVIOUS
<1> USE DEF RingIInv
<1> DEFINE row == At(Mark - 1)
<1>0. Mark \in Int /\ row.chunk \in ChunkIndices /\ row.item \in ItemIndices
  <2>1. Mark \in Int /\ Mark - 1 \in Int
    BY RingMetrics DEF Mark, RingTypeOK, Indices
  <2> QED BY <2>1, AtInRange
<1>1. chunks' = [chunks EXCEPT ![row.chunk][row.item] = pushed - 1]
  BY DEF FillRow, SlotInPlace
<1>2. RingTypeOK'
  <2>1. chunks' \in [ChunkIndices -> [ItemIndices -> Int]]
    BY <1>0, <1>1 DEF RingTypeOK
  <2> QED BY <2>1 DEF FillRow, RingTypeOK
<1>3. WindowCorrect'
  <2> SUFFICES ASSUME NEW k \in 1 .. size
               PROVE  Contents(Mark - k)' = pushed - k
    BY DEF WindowCorrect, FillRow
  <2> DEFINE other == At(Mark - k)
  <2>0. other.chunk \in ChunkIndices /\ other.item \in ItemIndices
    BY <1>0, AtInRange
  <2>1. Contents(Mark - k)' = chunks'[other.chunk][other.item]
    BY DEF Contents, Mark, FillRow
  <2>2. CASE k = 1
    BY <2>0, <2>1, <2>2, <1>0, <1>1 DEF RingTypeOK
  <2>3. CASE k # 1
    <3>1. Mark - k < Mark - 1 /\ Mark - 1 < (Mark - k) + Capacity
      BY <2>3, <1>0, RingMetrics DEF RingTypeOK
    <3>2. other.chunk # row.chunk \/ other.item # row.item
      BY <3>1, <1>0, AtInjective
    <3>3. chunks'[other.chunk][other.item] = chunks[other.chunk][other.item]
      BY <3>2, <2>0, <1>0, <1>1 DEF RingTypeOK
    <3> QED BY <2>1, <2>3, <3>3 DEF Contents, WindowCorrect
  <2> QED BY <2>2, <2>3
<1> QED
  BY <1>2, <1>3
     DEF FillRow, HeldType, HeadInPlace, SlotInPlace, HandlesOwned, StartsRecorded, OverwriteFlagged

(* What reserve() does to the table and to the free stack.                 *)
LEMMA ReserveTables ==
  ASSUME RingIInv,
         NEW r \in Reservation,
         reservations' = IF ReservedHandle <= Len(reservations)
                         THEN [reservations EXCEPT ![ReservedHandle] = r]
                         ELSE Append(reservations, r),
         freeReservations' = FreeAfterReserve
  PROVE  /\ reservations' \in Seq(Reservation)
         /\ freeReservations' \in Seq(1 .. Len(reservations'))
         /\ Len(reservations') >= Len(reservations)
         /\ ReservedHandle \in 1 .. Len(reservations')
         /\ reservations'[ReservedHandle] = r
         /\ \A h \in 1 .. Len(reservations') :
               h # ReservedHandle => h \in 1 .. Len(reservations) /\ reservations'[h] = reservations[h]
         /\ ReservedHandle \notin DOMAIN held
         /\ \A i \in 1 .. Len(freeReservations') :
               /\ i \in 1 .. Len(freeReservations)
               /\ freeReservations'[i] = freeReservations[i]
               /\ freeReservations'[i] # ReservedHandle
<1> DEFINE n == Len(freeReservations)
<1>1. /\ reservations \in Seq(Reservation)
      /\ freeReservations \in Seq(1 .. Len(reservations))
      /\ HandlesOwned
      /\ DOMAIN held \subseteq 1 .. Len(reservations)
  BY DEF RingIInv, RingTypeOK
<1>2. CASE freeReservations = << >>
  <2>1. ReservedHandle = Len(reservations) + 1 /\ freeReservations' = << >>
    BY <1>2 DEF ReservedHandle, FreeAfterReserve
  <2>2. reservations' = Append(reservations, r)
    BY <2>1, <1>1
  <2> QED BY <2>1, <2>2, <1>1
<1>3. CASE freeReservations # << >>
  <2>1. n \in Nat /\ n > 0
    BY <1>1, <1>3
  <2>2. ReservedHandle = freeReservations[n] /\ freeReservations' = SubSeq(freeReservations, 1, n - 1)
    BY <1>3 DEF ReservedHandle, FreeAfterReserve, Last, Front
  <2>3. ReservedHandle \in 1 .. Len(reservations)
    BY <2>1, <2>2, <1>1
  <2>4. reservations' = [reservations EXCEPT ![ReservedHandle] = r]
    BY <2>3, <1>1
  <2>5. reservations' \in Seq(Reservation) /\ Len(reservations') = Len(reservations)
    BY <2>3, <2>4, <1>1
  <2>6. /\ freeReservations' \in Seq(1 .. Len(reservations))
        /\ Len(freeReservations') = n - 1
        /\ \A i \in 1 .. n - 1 : freeReservations'[i] = freeReservations[i]
    <3>1. freeReservations' = [i \in 1 .. n - 1 |-> freeReservations[i]]
      BY <2>1, <2>2, <1>1
    <3>2. \A i \in 1 .. n - 1 : freeReservations[i] \in 1 .. Len(reservations)
      BY <2>1, <1>1
    <3> QED BY <3>1, <3>2, <2>1
  <2>7. ReservedHandle \notin DOMAIN held
    BY <2>1, <2>2, <1>1 DEF HandlesOwned
  <2>8. \A i \in 1 .. n - 1 : freeReservations[i] # ReservedHandle
    <3>1. \A i, j \in 1 .. n : i # j => freeReservations[i] # freeReservations[j]
      BY <1>1 DEF HandlesOwned
    <3> HIDE DEF n
    <3>2. \A i \in 1 .. n - 1 : i \in 1 .. n /\ i # n /\ n \in 1 .. n
      BY <2>1
    <3> QED BY <3>1, <3>2, <2>2
  <2> QED BY <2>1, <2>3, <2>4, <2>5, <2>6, <2>7, <2>8, <1>1
<1> QED BY <1>2, <1>3

LEMMA ReserveInvariant ==
  ASSUME RingIInv, NEW first \in Int, NEW length \in Nat,
         pushed < first + Capacity, Reserve(first, length)
  PROVE  RingIInv'
<1> USE DEF RingIInv
<1> DEFINE new == ReservedHandle
           r == InitReservation(NormalizeRowIndex(first), NormalizeRowIndex(first + length))
<1>1. r \in Reservation /\ r.start = first % Capacity /\ r.alive = TRUE
  BY AtInRange DEF InitReservation, Reservation, NormalizeRowIndex
<1>2. /\ reservations' = IF new <= Len(reservations)
                         THEN [reservations EXCEPT ![new] = r]
                         ELSE Append(reservations, r)
      /\ freeReservations' = FreeAfterReserve
      /\ held' = [h \in DOMAIN held \cup {new} |->
                    IF h = new
                    THEN [first |-> first, length |-> length, since |-> pushed]
                    ELSE held[h]]
      /\ UNCHANGED <<head, size, chunks, filling, slot, pushed>>
  BY DEF Reserve
<1> HIDE DEF r
<1>3. /\ reservations' \in Seq(Reservation)
      /\ freeReservations' \in Seq(1 .. Len(reservations'))
      /\ Len(reservations') >= Len(reservations)
      /\ new \in 1 .. Len(reservations')
      /\ reservations'[new] = r
      /\ \A h \in 1 .. Len(reservations') :
            h # new => h \in 1 .. Len(reservations) /\ reservations'[h] = reservations[h]
      /\ new \notin DOMAIN held
      /\ \A i \in 1 .. Len(freeReservations') :
            /\ i \in 1 .. Len(freeReservations)
            /\ freeReservations'[i] = freeReservations[i]
            /\ freeReservations'[i] # new
  BY <1>1, <1>2, ReserveTables
<1> HIDE DEF new
<1>4. DOMAIN held' = DOMAIN held \cup {new}
  BY <1>2
<1>5. RingTypeOK'
  <2>1. DOMAIN held' \subseteq 1 .. Len(reservations')
    BY <1>3, <1>4 DEF RingTypeOK
  <2> QED BY <2>1, <1>2, <1>3 DEF RingTypeOK
<1>6. HeldType'
  BY <1>2, <1>4 DEF HeldType, RingTypeOK
<1>7. HeadInPlace' /\ SlotInPlace' /\ WindowCorrect'
  BY <1>2 DEF HeadInPlace, SlotInPlace, At, NormalizeRowIndex, WindowCorrect, Contents, Mark
<1>8. HandlesOwned'
  <2>1. \A h \in 1 .. Len(reservations') : reservations'[h].alive <=> h \in DOMAIN held'
    BY <1>1, <1>3, <1>4 DEF HandlesOwned
  <2>2. \A i \in 1 .. Len(freeReservations') : freeReservations'[i] \notin DOMAIN held'
    BY <1>3, <1>4 DEF HandlesOwned
  <2>3. \A i, j \in 1 .. Len(freeReservations') :
           i # j => freeReservations'[i] # freeReservations'[j]
    BY <1>3 DEF HandlesOwned
  <2> QED BY <2>1, <2>2, <2>3 DEF HandlesOwned
<1>9. \A h \in DOMAIN held' :
         h # new => /\ h \in DOMAIN held
                    /\ held'[h] = held[h]
                    /\ reservations'[h] = reservations[h]
  BY <1>2, <1>3, <1>4 DEF RingTypeOK
<1>10. held'[new].first = first
  BY <1>2
<1>11. StartsRecorded'
  BY <1>1, <1>3, <1>9, <1>10 DEF StartsRecorded
<1>12. OverwriteFlagged'
  BY <1>2, <1>3, <1>9, <1>10, RingMetrics DEF OverwriteFlagged, RingTypeOK
<1> QED BY <1>5, <1>6, <1>7, <1>8, <1>11, <1>12

LEMMA FreeInvariant ==
  ASSUME RingIInv, NEW handle \in DOMAIN held, FreeReservation(handle)
  PROVE  RingIInv'
<1> USE DEF RingIInv
<1>0. handle \in 1 .. Len(reservations)
  BY DEF RingTypeOK
<1>1. /\ handle \in 1 .. Len(reservations)
      /\ reservations' = [reservations EXCEPT ![handle].alive = FALSE]
      /\ freeReservations' = Append(freeReservations, handle)
      /\ held' = [h \in DOMAIN held \ {handle} |-> held[h]]
      /\ UNCHANGED <<head, size, chunks, filling, slot, pushed>>
  BY <1>0 DEF FreeReservation
<1>2. /\ reservations \in Seq(Reservation)
      /\ freeReservations \in Seq(1 .. Len(reservations))
  BY DEF RingTypeOK
<1>3. \A h \in 1 .. Len(reservations) : reservations[h] \in Reservation
  BY <1>2
<1>4. [reservations[handle] EXCEPT !.alive = FALSE] \in Reservation
  BY <1>1, <1>3 DEF Reservation
<1>5. reservations' \in Seq(Reservation) /\ Len(reservations') = Len(reservations)
  BY <1>1, <1>2, <1>4
<1>6. /\ ~reservations'[handle].alive
      /\ \A h \in 1 .. Len(reservations) : h # handle => reservations'[h] = reservations[h]
  BY <1>1, <1>2, <1>3 DEF Reservation
<1>7. /\ freeReservations' \in Seq(1 .. Len(reservations'))
      /\ Len(freeReservations') = Len(freeReservations) + 1
      /\ freeReservations'[Len(freeReservations) + 1] = handle
      /\ \A i \in 1 .. Len(freeReservations) : freeReservations'[i] = freeReservations[i]
  BY <1>1, <1>2, <1>5
<1>8. DOMAIN held' = DOMAIN held \ {handle} /\ \A h \in DOMAIN held' : held'[h] = held[h]
  BY <1>1
<1>9. RingTypeOK'
  BY <1>1, <1>5, <1>7, <1>8 DEF RingTypeOK
<1>10. HeldType'
  BY <1>8, <1>1 DEF HeldType
<1>11. HeadInPlace' /\ SlotInPlace' /\ WindowCorrect'
  BY <1>1 DEF HeadInPlace, SlotInPlace, At, NormalizeRowIndex, WindowCorrect, Contents, Mark
<1>12. HandlesOwned'
  <2> DEFINE n == Len(freeReservations)
  <2>0. n \in Nat /\ \A i \in 1 .. n : freeReservations[i] # handle
    BY <1>2 DEF HandlesOwned
  <2>1. \A h \in 1 .. Len(reservations') : reservations'[h].alive <=> h \in DOMAIN held'
    BY <1>1, <1>5, <1>6, <1>8 DEF HandlesOwned
  <2>2. ASSUME NEW i \in 1 .. Len(freeReservations')
        PROVE  freeReservations'[i] \notin DOMAIN held'
    <3>1. CASE i = n + 1
      BY <3>1, <1>7, <1>8
    <3>2. CASE i \in 1 .. n
      BY <3>2, <1>7, <1>8 DEF HandlesOwned
    <3> QED BY <3>1, <3>2, <2>0, <1>7
  <2>3. ASSUME NEW i \in 1 .. Len(freeReservations'),
               NEW j \in 1 .. Len(freeReservations'), i # j
        PROVE  freeReservations'[i] # freeReservations'[j]
    <3>1. CASE i = n + 1
      BY <3>1, <2>0, <2>3, <1>7
    <3>2. CASE j = n + 1
      BY <3>2, <2>0, <2>3, <1>7
    <3>3. CASE i \in 1 .. n /\ j \in 1 .. n
      BY <3>3, <2>3, <1>7 DEF HandlesOwned
    <3> QED BY <3>1, <3>2, <3>3, <2>0, <1>7
  <2> QED BY <2>1, <2>2, <2>3 DEF HandlesOwned
<1>13. StartsRecorded' /\ OverwriteFlagged'
  BY <1>1, <1>6, <1>8 DEF StartsRecorded, OverwriteFlagged, RingTypeOK
<1> QED BY <1>9, <1>10, <1>11, <1>12, <1>13

-----------------------------------------------------------------------------

LEMMA StepInvariant == RingIInv /\ [RingNext]_ringVars => RingIInv'
<1> SUFFICES ASSUME RingIInv, [RingNext]_ringVars PROVE RingIInv'
  OBVIOUS
<1>1. CASE Push
  BY <1>1, PushInvariant
<1>2. CASE FillRow
  BY <1>2, FillInvariant
<1>3. CASE ReserveRows
  <2>1. PICK back \in 0 .. Capacity - 1, length \in 1 .. Capacity - 1 :
           Reserve(pushed - back, length)
    BY <1>3 DEF ReserveRows
  <2>2. pushed - back \in Int /\ length \in Nat /\ pushed < (pushed - back) + Capacity
    BY RingMetrics DEF RingIInv, RingTypeOK
  <2> QED BY <2>1, <2>2, ReserveInvariant
<1>4. CASE ReleaseRows
  BY <1>4, FreeInvariant DEF ReleaseRows
<1>5. CASE UNCHANGED ringVars
  BY <1>5
     DEF ringVars, RingIInv, RingTypeOK, HeldType, HeadInPlace, SlotInPlace, WindowCorrect,
         Contents, Mark, HandlesOwned, StartsRecorded, OverwriteFlagged
<1> QED BY <1>1, <1>2, <1>3, <1>4, <1>5 DEF RingNext

THEOREM RingInvariant == RingSpec => []RingIInv
  BY InitInvariant, StepInvariant, PTL DEF RingSpec

(* Types, for every row size, chunk size and capacity.                     *)
THEOREM RingTypeCorrect == RingSpec => []RingTypeOK
<1>1. RingIInv => RingTypeOK
  BY DEF RingIInv
<1> QED BY <1>1, RingInvariant, PTL

(* Reading back from mark() finds the rows in the order they were pushed   *)
(* (push(), at() and mark(), RingBuffer.h:482-509).                        *)
THEOREM WindowIsCorrect == RingSpec => []WindowCorrect
<1>1. RingIInv => WindowCorrect
  BY DEF RingIInv
<1> QED BY <1>1, RingInvariant, PTL

(* No handle is ever held twice, or held and free (reserve() and           *)
(* freeReservation(), RingBuffer.h:580-612).                               *)
THEOREM HandlesAreOwned == RingSpec => []HandlesOwned
<1>1. RingIInv => HandlesOwned
  BY DEF RingIInv
<1> QED BY <1>1, RingInvariant, PTL

(* Whenever reserved rows are overwritten the reservation is dirty (push() *)
(* and isDirty(), RingBuffer.h:490-493 and 617-620).                       *)
THEOREM OverwriteIsFlagged == RingSpec => []OverwriteFlagged
<1>1. RingIInv => OverwriteFlagged
  BY DEF RingIInv
<1> QED BY <1>1, RingInvariant, PTL
=============================================================================
