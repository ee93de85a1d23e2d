-------------------------- MODULE SnapshotRecorder --------------------------
(***************************************************************************)
(* Continuous recording: WaterfallBackend::processFFT() pushing rows into  *)
(* the shared RingBuffer2D and updating a SnapshotRecorder, the recorder's *)
(* worker thread writing snapshots to files, and endStream() stopping it   *)
(* (src/src/WaterfallBackend.cpp).                                         *)
(*                                                                         *)
(* The stream comes from a file or a socket: one thread reads it, calls    *)
(* processFFT() and, when the stream ends, stop().  The worker runs at its *)
(* own pace; nothing holds the input back when the worker is slow.         *)
(*                                                                         *)
(* The channel between them is the queue that Channel implements; that     *)
(* close() may leave the worker asleep is Channel's subject, not repeated  *)
(* here.  Rows are numbered as in RingBuffer2D, and a time is the number   *)
(* of the row it is the time of.                                           *)
(***************************************************************************)
EXTENDS RingBuffer2D, FiniteSets

CONSTANTS SnapshotRows,     \* snapshotRows_
          MaxOpenFailures   \* bound on output files that cannot be opened

ASSUME RecorderSizes ==
  /\ SnapshotRows \in Nat \ {0}
  /\ MinCapacity >= 8 * SnapshotRows     \* requestBufferSize()
  /\ MaxOpenFailures \in Nat

VARIABLES rawHandles,   \* rawHandles_[i].time
          input,        \* where the input thread is
          next,         \* nextSnapshot_
          queue,        \* the messages in snapshots_
          closing,      \* snapshots_ has been closed
          worker,       \* where the worker thread is
          work,         \* what drain() last returned
          received,     \* snapshots drained and not looked at yet
          incomplete,   \* snapshots to be put back
          current,      \* the snapshot being written
          stamp,        \* CRVAL2 of the file being written
          rows,         \* the rows written to it so far
          file,         \* history: the last snapshot released, with its file
          released,     \* history: what has been released, [start, length]
          openFailures  \* how many files could not be opened

inputVars    == <<rawHandles, input, next>>
workerVars   == <<worker, work, received, incomplete, current, stamp, rows>>
historyVars  == <<file, released, openFailures>>
recorderVars == <<ringVars, inputVars, queue, closing, workerVars, historyVars>>

NoTime == -1            \* a RawDataHandle nobody has stored yet
Torn   == -2            \* a row read while the input thread fills it
NoSnapshot == [start |-> 0, length |-> 0, reservation |-> 0, name |-> NoTime]
NoFile == [start |-> 0, length |-> 0, opened |-> FALSE, rows |-> << >>, stamp |-> NoTime,
           name |-> NoTime, dirty |-> FALSE]

Snapshots == [start : Int, length : Nat, reservation : Nat, name : Int]

RecorderTypeOK ==
  /\ RingTypeOK
  /\ rawHandles \in [Indices -> Int]
  /\ input \in {"reading", "updating", "sending", "ending", "closing", "joining", "ended"}
  /\ next \in Snapshots
  /\ queue \in Seq(Snapshots)
  /\ closing \in BOOLEAN
  /\ worker \in {"draining", "choosing", "opening", "writing", "releasing", "done"}
  /\ work \in BOOLEAN
  /\ received \in Seq(Snapshots)
  /\ incomplete \in Seq(Snapshots)
  /\ current \in Snapshots
  /\ stamp \in Int
  /\ rows \in Seq(Int)
  /\ openFailures \in 0 .. MaxOpenFailures

-----------------------------------------------------------------------------
(* Times by FFT mark.                                                      *)

\* fftMarkToTime()
TimeOf(mark) == rawHandles[NormalizeRowIndex(mark)]

\* Snapshot(start), and the file name startWriting() and start() give it.
NewSnapshot(start) ==
  [start |-> start, length |-> 0, reservation |-> 0, name |-> TimeOf(start)]

\* SnapshotRecorder::start(), after resize().
RecorderInit ==
  /\ RingInit
  /\ rawHandles = [i \in Indices |-> NoTime]
  /\ input = "reading"
  /\ next = NoSnapshot
  /\ queue = << >>
  /\ closing = FALSE
  /\ worker = "draining"
  /\ work = TRUE
  /\ received = << >>
  /\ incomplete = << >>
  /\ current = NoSnapshot
  /\ stamp = NoTime
  /\ rows = << >>
  /\ file = NoFile
  /\ released = {}
  /\ openFailures = 0

-----------------------------------------------------------------------------
(* startWriting().                                                         *)

LengthToWrite ==
  LET wanted == IF next.length = 0 THEN SizeFrom(next.start) ELSE next.length
  IN  IF SnapshotRows < wanted THEN SnapshotRows ELSE wanted

\* The part under bufferMutex_.
ReserveNext ==
  /\ Reserve(next.start, LengthToWrite)
  /\ next' = [next EXCEPT !.length = LengthToWrite, !.reservation = ReservedHandle]

\* A faulty startWriting() that starts the next snapshot at the head.
StartAtMark == pushed

NextStart == next.start + next.length

\* The part after it.
SendNext ==
  /\ queue' = Append(queue, next)
  /\ next' = NewSnapshot(NextStart)
  /\ UNCHANGED <<ringVars, rawHandles>>

-----------------------------------------------------------------------------
(* The input thread.                                                       *)

\* processFFT() takes a row ...
PushRow ==
  /\ input = "reading"
  /\ Push
  /\ UNCHANGED <<inputVars, queue, closing, workerVars, historyVars>>

\* ... fills it, and stores its time under what is then the mark ...
FillAndStamp ==
  /\ FillRow
  /\ rawHandles' = [rawHandles EXCEPT ![Mark] = pushed - 1]
  /\ input' = "updating"
  /\ UNCHANGED <<next, queue, closing, workerVars, historyVars>>

Full == SizeFrom(next.start) >= SnapshotRows + 2

\* ... and calls update().
Update ==
  /\ input = "updating"
  /\ IF Full
     THEN ReserveNext /\ input' = "sending"
     ELSE input' = "reading" /\ UNCHANGED <<ringVars, next>>
  /\ UNCHANGED <<rawHandles, queue, closing, workerVars, historyVars>>

UpdateSends ==
  /\ input = "sending"
  /\ SendNext
  /\ input' = "reading"
  /\ UNCHANGED <<closing, workerVars, historyVars>>

\* stop(), between two rows: size() is never negative, so an unfinished
\* snapshot is always written.
StopReserves ==
  /\ input = "reading"
  /\ ~filling
  /\ ReserveNext
  /\ input' = "ending"
  /\ UNCHANGED <<rawHandles, queue, closing, workerVars, historyVars>>

StopSends ==
  /\ input = "ending"
  /\ SendNext
  /\ input' = "closing"
  /\ UNCHANGED <<closing, workerVars, historyVars>>

StopCloses ==
  /\ input = "closing"
  /\ closing' = TRUE
  /\ input' = "joining"
  /\ UNCHANGED <<ringVars, rawHandles, next, queue, workerVars, historyVars>>

StopJoins ==
  /\ input = "joining"
  /\ worker = "done"
  /\ input' = "ended"
  /\ UNCHANGED <<ringVars, rawHandles, next, queue, closing, workerVars, historyVars>>

-----------------------------------------------------------------------------
(* The worker thread: threadMethod() and write().                          *)

Drain ==
  /\ worker = "draining"
  /\ queue # << >>
  /\ received' = queue
  /\ queue' = << >>
  /\ work' = ~closing
  /\ worker' = "choosing"
  /\ UNCHANGED <<ringVars, inputVars, closing, incomplete, current, stamp, rows, historyVars>>

DrainClosed ==
  /\ worker = "draining"
  /\ queue = << >>
  /\ closing
  /\ work' = FALSE
  /\ worker' = "choosing"
  /\ UNCHANGED <<ringVars, inputVars, queue, closing, received, incomplete, current, stamp, rows,
                 historyVars>>

\* A faulty test that only wants the first row.
CompleteAtStart(snapshot) == pushed > snapshot.start

\* A faulty test that wants a row after the last one.
CompleteAndMore(snapshot) == SizeFrom(snapshot.start) > snapshot.length

Complete(snapshot) == SizeFrom(snapshot.start) >= snapshot.length

ChooseComplete ==
  /\ worker = "choosing"
  /\ received # << >>
  /\ Complete(Head(received))
  /\ current' = Head(received)
  /\ received' = Tail(received)
  /\ worker' = "opening"
  /\ UNCHANGED <<ringVars, inputVars, queue, closing, work, incomplete, stamp, rows, historyVars>>

ChooseIncomplete ==
  /\ worker = "choosing"
  /\ received # << >>
  /\ ~Complete(Head(received))
  /\ incomplete' = Append(incomplete, Head(received))
  /\ received' = Tail(received)
  /\ UNCHANGED <<ringVars, inputVars, queue, closing, worker, work, current, stamp, rows,
                 historyVars>>

\* A faulty sendAll() that drops the messages.
PutBackNowhere == queue

QueueAfterPutBack == queue \o incomplete

\* The batch is done: sendAll(incomplete), and once more around the loop if
\* drain() had returned true.
PutBack ==
  /\ worker = "choosing"
  /\ received = << >>
  /\ queue' = QueueAfterPutBack
  /\ incomplete' = << >>
  /\ worker' = IF work THEN "draining" ELSE "done"
  /\ UNCHANGED <<ringVars, inputVars, closing, work, received, current, stamp, rows, historyVars>>

OpenFile ==
  /\ worker = "opening"
  /\ stamp' = TimeOf(current.start)
  /\ rows' = << >>
  /\ worker' = IF current.length = 0 THEN "releasing" ELSE "writing"
  /\ UNCHANGED <<ringVars, inputVars, queue, closing, work, received, incomplete, current,
                 historyVars>>

\* write() returns when the file cannot be opened; the caller cannot tell.
OpenFails ==
  /\ worker = "opening"
  /\ openFailures < MaxOpenFailures
  /\ openFailures' = openFailures + 1
  /\ stamp' = NoTime
  /\ rows' = << >>
  /\ worker' = "releasing"
  /\ UNCHANGED <<ringVars, inputVars, queue, closing, work, received, incomplete, current, file,
                 released>>

\* What reading a row gives while the input thread runs.
RowRead(mark) ==
  IF filling /\ At(mark) = slot THEN Torn ELSE Contents(mark)

WriteRow ==
  /\ worker = "writing"
  /\ rows' = Append(rows, RowRead(current.start + Len(rows)))
  /\ worker' = IF Len(rows) + 1 = current.length THEN "releasing" ELSE "writing"
  /\ UNCHANGED <<ringVars, inputVars, queue, closing, work, received, incomplete, current, stamp,
                 historyVars>>

\* A faulty worker that frees the reservation of the snapshot it has made
\* ready next.
ReservationOfLast == Len(reservations)

ReservationToFree == current.reservation

Release ==
  /\ worker = "releasing"
  /\ FreeReservation(ReservationToFree)
  /\ file' = [start |-> current.start, length |-> current.length,
              opened |-> rows # << >>, rows |-> rows, stamp |-> stamp, name |-> current.name,
              dirty |-> /\ current.reservation \in DOMAIN reservations
                        /\ reservations[current.reservation].dirty]
  /\ released' = released \cup {[start |-> current.start, length |-> current.length]}
  /\ worker' = "choosing"
  /\ UNCHANGED <<inputVars, queue, closing, work, received, incomplete, current, stamp, rows,
                 openFailures>>

-----------------------------------------------------------------------------
InputNext ==
  \/ PushRow
  \/ FillAndStamp
  \/ Update
  \/ UpdateSends
  \/ StopReserves
  \/ StopSends
  \/ StopCloses
  \/ StopJoins

WorkerNext ==
  \/ Drain
  \/ DrainClosed
  \/ ChooseComplete
  \/ ChooseIncomplete
  \/ PutBack
  \/ OpenFile
  \/ OpenFails
  \/ WriteRow
  \/ Release

RecorderNext == InputNext \/ WorkerNext

RecorderSpec == RecorderInit /\ [][RecorderNext]_recorderVars

\* The worker runs whenever it can.  The input thread finishes what it has
\* begun; rows need not come, nor the stream end.
FairRecorderSpec ==
  /\ RecorderSpec
  /\ WF_recorderVars(WorkerNext)
  /\ WF_recorderVars(FillAndStamp \/ Update \/ UpdateSends)
  /\ WF_recorderVars(StopSends \/ StopCloses \/ StopJoins)

-----------------------------------------------------------------------------
(* Properties.                                                             *)

\* Every snapshot that has been reserved and not released yet, once for each
\* place it is in; pending is the one that startWriting() has yet to send.
OutstandingWith(pending) ==
  pending \o queue \o received \o incomplete
    \o (IF worker \in {"opening", "writing", "releasing"} THEN <<current>> ELSE << >>)

Outstanding == OutstandingWith(IF input \in {"sending", "ending"} THEN <<next>> ELSE << >>)

RangeOf(s) == s.start .. s.start + s.length - 1

\* These and the released snapshots divide the rows from 0 up to upTo.
TileUpTo(outstanding, upTo) ==
  LET mine == {[start |-> outstanding[i].start, length |-> outstanding[i].length] :
                 i \in 1 .. Len(outstanding)}
      all  == mine \cup released
  IN  /\ Cardinality(mine) = Len(outstanding)
      /\ mine \cap released = {}
      /\ \A s, t \in all : s # t => RangeOf(s) \cap RangeOf(t) = {}
      /\ UNION {RangeOf(s) : s \in all} = 0 .. upTo - 1

\* The rows from 0 up to where the next snapshot starts are divided among the
\* snapshots made so far without gap or overlap, and when the recorder has
\* stopped at most one row is left over.  (startWriting(), threadMethod() and
\* stop(): WaterfallBackend.cpp:60-127, 400-412.)
SnapshotsTile ==
  LET upTo == IF input \in {"sending", "ending"} THEN NextStart ELSE next.start
  IN  /\ TileUpTo(Outstanding, upTo)
      /\ input = "ended" => pushed <= upTo + 1

\* These snapshots hold reservations of their own, and nobody else holds one.
OwnReservations(outstanding) ==
  /\ \A i, j \in 1 .. Len(outstanding) :
        i # j => outstanding[i].reservation # outstanding[j].reservation
  /\ DOMAIN held = {outstanding[i].reservation : i \in 1 .. Len(outstanding)}
  /\ \A i \in 1 .. Len(outstanding) :
        LET s == outstanding[i]
        IN  /\ held[s.reservation].first = s.start
            /\ reservations[s.reservation].start = NormalizeRowIndex(s.start)

\* Each outstanding snapshot holds a reservation of its own, made for its own
\* rows, and no other reservation is held: none is shared, freed early or
\* leaked, not even when a file cannot be opened.  (WaterfallBackend.cpp:83-90,
\* 107-119, RingBuffer.h:580-612.)
ReservationsMatch == OwnReservations(Outstanding)

\* A file whose reservation was still clean when it was released holds exactly
\* the rows of its snapshot, in order and all of them filled, and carries the
\* time its name was made from; so asking isDirty() would be enough to know.
\* A stream that ended before its first row is left out.  (write() against
\* processFFT(): WaterfallBackend.cpp:141-211, 485-536.)
CleanFilesExact ==
  file.opened /\ ~file.dirty /\ pushed > 0 =>
    /\ file.rows = [y \in 1 .. file.length |-> file.start + y - 1]
    /\ file.stamp = file.name

\* "If the snapshot doesn't end before the current buffer mark (i.e. the
\* snapshot data is complete), write the snapshot data to file"
\* (WaterfallBackend.cpp:72-76): no file holds rows that were never pushed.
FilesComplete == \A y \in 1 .. Len(file.rows) : file.rows[y] # NeverWritten

\* "This is a mechanism that controls that the data in the ring buffer haven't
\* been overwritten by next cycle" (WaterfallBackend.cpp:83-86): no file holds
\* rows of a later cycle in place of its own.
FilesNotOverwritten ==
  \A y \in 1 .. Len(file.rows) : file.rows[y] < file.start + Capacity

\* "CRVAL2 - Unix time of the first FFT row in this file": the time in a
\* file is the time of its first row.
StampIsFirstRow == file.opened /\ ~file.dirty => file.stamp = file.start

\* "Put all of the incomplete snapshots back to the work queue to be processed
\* later" (WaterfallBackend.cpp:97-98): when the worker has left its loop no
\* snapshot is left in the queue.
NothingPutBackIsLost == worker = "done" => queue = << >>

\* Every snapshot that is reserved gets released: the worker comes round to
\* each of them, to those still queued when the stream ends and to the one
\* stop() makes, whether or not files can be opened.  It is stated for a
\* stream that does not lap the buffer.  (WaterfallBackend.cpp:60-104,
\* 400-412.)
SnapshotsGetReleased ==
  \A n \in 0 .. MaxPushes :
     (\E i \in 1 .. Len(Outstanding) : Outstanding[i].start = n)
       ~> (\E s \in released : s.start = n)
=============================================================================
