---------------------------- MODULE RingBuffer2D ----------------------------
(***************************************************************************)
(* The two-dimensional ring buffer of src/src/RingBuffer.h: rows kept in   *)
(* separately allocated chunks, a head that names the next row to be       *)
(* pushed, and reservations, which are meant to tell a reader whether the  *)
(* rows it asked for have been overwritten.                                *)
(*                                                                         *)
(* Rows are identified by the order in which they were pushed (0, 1, ...), *)
(* the contents of a row being the number the caller filled it with.       *)
(* Handles are 1, 2, ... where the code has 0, 1, ...                      *)
(* ChunkItem::generation is left out: only isBefore() reads it, and nothing*)
(* calls isBefore().                                                       *)
(***************************************************************************)
EXTENDS Integers, Sequences, SequencesExt

CONSTANTS RowSize,          \* sizeof(T) * width
          ChunkSize,        \* chunkSizeLimit_
          MinCapacity,      \* the capacity asked of resize()
          MaxPushes,        \* bound on push() calls
          MaxReservations   \* bound on reservations held at a time

ASSUME RingSizes ==
  /\ RowSize \in Nat \ {0}
  /\ ChunkSize \in Nat \ {0}
  /\ MinCapacity \in Nat \ {0}

ASSUME RingBounds == MaxPushes \in Nat /\ MaxReservations \in Nat

-----------------------------------------------------------------------------
(* Chunk metrics computed by resize().                                     *)

CeilDiv(a, b) == (a \div b) + (IF a % b # 0 THEN 1 ELSE 0)

ChunkRows  == CeilDiv(ChunkSize, RowSize)
ChunkCount == CeilDiv(MinCapacity, ChunkRows)
Capacity   == ChunkCount * ChunkRows

ChunkIndices == 0 .. ChunkCount - 1
ItemIndices  == 0 .. ChunkRows - 1
Indices      == 0 .. Capacity - 1

NeverWritten == -1          \* contents of a row straight from new T[]

-----------------------------------------------------------------------------
(* Index arithmetic.                                                       *)

\* The loop adds capacity_ until the value is not negative, so this is the
\* mathematical remainder, not C++'s.
NormalizeRowIndex(value) == value % Capacity

\* ChunkItem(buffer, index, gen): where the row with this index is stored.
Location(index) == [chunk |-> index \div ChunkRows, item |-> index % ChunkRows]

At(mark) == Location(NormalizeRowIndex(mark))

\* size(start, end).  start = end gives Capacity, never 0.
SizeBetween(start, end) ==
  LET s == NormalizeRowIndex(start)
      e == NormalizeRowIndex(end)
  IN  IF e > s THEN e - s ELSE (Capacity - s) + e

\* A faulty range test that excludes the start.
IsAfterStart(index, start, end) ==
  LET i == NormalizeRowIndex(index)
      s == NormalizeRowIndex(start)
      e == NormalizeRowIndex(end)
  IN  IF e > s THEN i > s /\ i < e ELSE i > s \/ i < e

IsInRange(index, start, end) ==
  LET i == NormalizeRowIndex(index)
      s == NormalizeRowIndex(start)
      e == NormalizeRowIndex(end)
  IN  IF e > s THEN i >= s /\ i < e ELSE i >= s \/ i < e

-----------------------------------------------------------------------------
VARIABLES head,             \* head_: [chunk, item, index]
          size,             \* size_
          chunks,           \* chunks_: the rows, by chunk and item
          reservations,     \* reservations_
          freeReservations, \* freeReservations_, a stack of handles
          filling,          \* push() has returned a row the caller has yet to fill
          slot,             \* where the row push() last returned is stored
          pushed,           \* history: how many rows have been pushed
          held              \* history: what each handle not freed yet was reserved for

ringVars == <<head, size, chunks, reservations, freeReservations, filling, slot, pushed,
              held>>

Mark == head.index

SizeFrom(start) == SizeBetween(start, Mark)

Contents(mark) == chunks[At(mark).chunk][At(mark).item]

Reservation == [start : Indices, end : {0}, alive : BOOLEAN, dirty : BOOLEAN]

RingTypeOK ==
  /\ head \in [chunk : ChunkIndices, item : ItemIndices, index : Indices]
  /\ size \in 0 .. Capacity
  /\ chunks \in [ChunkIndices -> [ItemIndices -> Int]]
  /\ reservations \in Seq(Reservation)
  /\ freeReservations \in Seq(1 .. Len(reservations))
  /\ filling \in BOOLEAN
  /\ slot \in [chunk : ChunkIndices, item : ItemIndices]
  /\ pushed \in Nat
  /\ DOMAIN held \subseteq 1 .. Len(reservations)

\* resize() followed by clear(): the constructor leaves no reservations.
RingInit ==
  /\ head = [chunk |-> 0, item |-> 0, index |-> 0]
  /\ size = 0
  /\ chunks = [c \in ChunkIndices |-> [i \in ItemIndices |-> NeverWritten]]
  /\ reservations = << >>
  /\ freeReservations = << >>
  /\ filling = FALSE
  /\ slot = [chunk |-> 0, item |-> 0]
  /\ pushed = 0
  /\ held = << >>

-----------------------------------------------------------------------------
(* push() and the caller's filling of the row it returned.                 *)

\* A faulty advance() that forgets to go back to the first chunk.
AdvanceUnwrapped(h) ==
  LET full == h.item + 1 >= ChunkRows
  IN  [chunk |-> IF full /\ h.chunk + 1 < ChunkCount THEN h.chunk + 1 ELSE h.chunk,
       item  |-> IF full THEN 0 ELSE h.item + 1,
       index |-> (h.index + 1) % Capacity]

AdvanceHead(h) ==
  LET full == h.item + 1 >= ChunkRows
  IN  [chunk |-> IF ~full THEN h.chunk
                 ELSE IF h.chunk + 1 >= ChunkCount THEN 0 ELSE h.chunk + 1,
       item  |-> IF full THEN 0 ELSE h.item + 1,
       index |-> (h.index + 1) % Capacity]

\* A faulty push() that counts rows past the capacity.
GrowUnchecked(n) == n + 1

Grow(n) == IF n >= Capacity THEN n ELSE n + 1

\* A faulty push() whose loop leaves out the first reservation.
MarkDirtyButFirst(rs, mark) ==
  [h \in DOMAIN rs |->
     IF h > 1 /\ rs[h].alive /\ IsInRange(mark, rs[h].start, rs[h].end)
     THEN [rs[h] EXCEPT !.dirty = TRUE]
     ELSE rs[h]]

\* Every live reservation whose range holds the new mark is marked dirty.
MarkDirty(rs, mark) ==
  [h \in DOMAIN rs |->
     IF rs[h].alive /\ IsInRange(mark, rs[h].start, rs[h].end)
     THEN [rs[h] EXCEPT !.dirty = TRUE]
     ELSE rs[h]]

Push ==
  /\ pushed < MaxPushes
  /\ ~filling
  /\ head' = AdvanceHead(head)
  /\ size' = Grow(size)
  /\ reservations' = MarkDirty(reservations, head'.index)
  /\ filling' = TRUE
  /\ slot' = [chunk |-> head.chunk, item |-> head.item]
  /\ pushed' = pushed + 1
  /\ UNCHANGED <<chunks, freeReservations, held>>

\* The caller writes through the pointer push() returned: the place that was
\* the head before the push.
FillRow ==
  /\ filling
  /\ chunks' = [chunks EXCEPT ![slot.chunk][slot.item] = pushed - 1]
  /\ filling' = FALSE
  /\ UNCHANGED <<head, size, reservations, freeReservations, slot, pushed, held>>

-----------------------------------------------------------------------------
(* Reservations.                                                           *)

\* Reservation::init().  The end it is given is not stored.
InitReservation(start, end) == [start |-> start, end |-> 0, alive |-> TRUE, dirty |-> FALSE]

\* A faulty reserve() that takes the size for the handle after push_back().
HandleAfterPush ==
  IF freeReservations # << >> THEN Last(freeReservations) ELSE Len(reservations) + 2

ReservedHandle ==
  IF freeReservations # << >> THEN Last(freeReservations) ELSE Len(reservations) + 1

\* A faulty reserve() that leaves the handle on the free stack.
FreeNotPopped == freeReservations

FreeAfterReserve == IF freeReservations # << >> THEN Front(freeReservations) ELSE << >>

\* reserve(start, end): first is the row (counted from the first pushed one)
\* the caller means by start.
Reserve(first, length) ==
  LET handle == ReservedHandle
      r == InitReservation(NormalizeRowIndex(first), NormalizeRowIndex(first + length))
  IN  /\ reservations' = IF handle <= Len(reservations)
                         THEN [reservations EXCEPT ![handle] = r]
                         ELSE Append(reservations, r)
      /\ freeReservations' = FreeAfterReserve
      /\ held' = [h \in DOMAIN held \cup {handle} |->
                    IF h = handle
                    THEN [first |-> first, length |-> length, since |-> pushed]
                    ELSE held[h]]
      /\ UNCHANGED <<head, size, chunks, filling, slot, pushed>>

\* A handle nobody was given is not freed.
FreeReservation(handle) ==
  IF handle \in 1 .. Len(reservations)
  THEN /\ reservations' = [reservations EXCEPT ![handle].alive = FALSE]
       /\ freeReservations' = Append(freeReservations, handle)
       /\ held' = [h \in DOMAIN held \ {handle} |-> held[h]]
       /\ UNCHANGED <<head, size, chunks, filling, slot, pushed>>
  ELSE UNCHANGED ringVars

-----------------------------------------------------------------------------
(* The buffer and its callers: one writer, and readers that reserve rows   *)
(* less than a lap behind the mark, whether or not they are all there, and *)
(* free each handle they hold once.                                        *)

ReserveRows ==
  /\ Len(reservations) - Len(freeReservations) < MaxReservations
  /\ \E back \in 0 .. Capacity - 1, length \in 1 .. Capacity - 1 :
        Reserve(pushed - back, length)

ReleaseRows == \E handle \in DOMAIN held : FreeReservation(handle)

RingNext == Push \/ FillRow \/ ReserveRows \/ ReleaseRows

RingSpec == RingInit /\ [][RingNext]_ringVars

-----------------------------------------------------------------------------
(* Properties.                                                             *)

\* Reading k rows back from mark() gives the k-th youngest row, across chunk
\* boundaries and laps, for every row size() says is there; only the row
\* being filled may differ.  (push(), at(), mark(): RingBuffer.h:482-509.)
WindowCorrect ==
  \A k \in 1 .. size : (k = 1 /\ filling) \/ Contents(Mark - k) = pushed - k

\* reserve() never gives out a handle somebody still holds: the free stack
\* has no duplicates and shares no handle with the holders, and a
\* reservation is alive exactly while it is held.  (RingBuffer.h:580-612.)
HandlesOwned ==
  /\ \A i, j \in 1 .. Len(freeReservations) :
        i # j => freeReservations[i] # freeReservations[j]
  /\ \A i \in 1 .. Len(freeReservations) : freeReservations[i] \notin DOMAIN held
  /\ \A h \in 1 .. Len(reservations) : reservations[h].alive <=> h \in DOMAIN held

\* Once the writer is about to lap the first row of a reservation, the
\* reservation is dirty: no overwrite of reserved rows goes unmarked.
\* (push() and isDirty(): RingBuffer.h:490-493, 614-620.)
OverwriteFlagged ==
  \A h \in DOMAIN held : pushed >= held[h].first + Capacity => reservations[h].dirty

\* "Returns true if the reservation with the specified handle has been
\* written to" (RingBuffer.h:615): a dirty reservation has had one of its
\* rows pushed since it was made, or is about to.
DirtyMeansWritten ==
  \A h \in DOMAIN held :
     reservations[h].dirty =>
       \E n \in held[h].since .. pushed :
          IsInRange(n, held[h].first, held[h].first + held[h].length)
=============================================================================
