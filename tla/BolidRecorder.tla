--------------------------- MODULE BolidRecorder ---------------------------
(***************************************************************************)
(* BolidRecorder of src/src/BolidRecorder.cpp whole: the state machine of  *)
(* BolidDetector run by the input thread after each row, and the worker it *)
(* inherits from SnapshotRecorder writing the snapshots it sends.          *)
(*                                                                         *)
(* A meteor's snapshot ends after the meteor, so it may be sent before its *)
(* last rows have been pushed: the worker then puts it back and drains it  *)
(* again at once.  The raw file that goes with it, which changes nothing   *)
(* the two threads share, is left out.                                     *)
(***************************************************************************)
EXTENDS SnapshotRecorder

CONSTANTS Advance,      \* advance_
          Jitter        \* jitter_

\* start() asserts that the configuration's times are not negative.
ASSUME BolidParameters == Advance \in Nat /\ Jitter \in Nat

VARIABLES updated,      \* how many rows update() has been called for
          state,        \* state_
          duration,     \* duration_
          sought,       \* start and length of nextSnapshot_ as update() leaves them
          sent,         \* history: the snapshots sent, in order
          detections    \* history: the rows with a detection

stateVars == <<updated, state, duration, sought, sent, detections>>
bolidVars == <<recorderVars, stateVars>>

Detector == INSTANCE BolidDetector WITH
  mark <- updated, next <- sought, MaxRows <- MaxPushes

BolidInit ==
  /\ RecorderInit
  /\ Detector!DetectorInit

-----------------------------------------------------------------------------
(* The input thread.                                                       *)

BolidPushes == PushRow /\ UNCHANGED stateVars

BolidFills == FillAndStamp /\ UNCHANGED stateVars

\* update() up to startWriting().  A meteor's file is named when it starts.
BolidUpdates ==
  /\ input = "updating"
  /\ \/ Detector!NothingHeard
     \/ Detector!BolidStarts
     \/ Detector!BolidGoesOn
     \/ Detector!BolidReturns
     \/ Detector!BolidPauses
     \/ Detector!StillPaused
  /\ next' = [next EXCEPT !.start  = sought'.start,
                          !.length = sought'.length,
                          !.name   = IF state = "init" /\ state' = "bolid"
                                     THEN TimeOf(sought'.start)
                                     ELSE next.name]
  /\ input' = "reading"
  /\ UNCHANGED <<ringVars, rawHandles, queue, closing, workerVars, historyVars>>

\* update() when the meteor is over.
BolidReserves ==
  /\ input = "updating"
  /\ Detector!BolidEnds
  /\ ReserveNext
  /\ input' = "sending"
  /\ UNCHANGED <<rawHandles, queue, closing, workerVars, historyVars>>

BolidSends == UpdateSends /\ UNCHANGED stateVars

\* stop(), between two rows; writeUnfinished_ is false.
BolidStops ==
  /\ input = "reading"
  /\ ~filling
  /\ input' = "closing"
  /\ UNCHANGED <<ringVars, rawHandles, next, queue, closing, workerVars, historyVars, stateVars>>

BolidCloses == StopCloses /\ UNCHANGED stateVars

BolidJoins == StopJoins /\ UNCHANGED stateVars

BolidWorks == WorkerNext /\ UNCHANGED stateVars

BolidNext ==
  \/ BolidPushes
  \/ BolidFills
  \/ BolidUpdates
  \/ BolidReserves
  \/ BolidSends
  \/ BolidStops
  \/ BolidCloses
  \/ BolidJoins
  \/ BolidWorks

BolidSpec == BolidInit /\ [][BolidNext]_bolidVars

\* As in SnapshotRecorder: the worker runs, and the input thread finishes what
\* it has begun.
FairBolidSpec ==
  /\ BolidSpec
  /\ WF_bolidVars(BolidWorks)
  /\ WF_bolidVars(BolidFills \/ BolidUpdates \/ BolidReserves \/ BolidSends)
  /\ WF_bolidVars(BolidCloses \/ BolidJoins)

-----------------------------------------------------------------------------
(* Properties.                                                             *)

\* Unless the input has lapped it, a meteor's file holds its rows in order, all
\* of them filled but possibly the last, which the worker can only meet half
\* filled when the meteor was sent before that row was pushed: after a pause
\* no longer than the advance.  Rows before the stream began are memory nobody
\* has written.  (threadMethod() and write() against processFFT() and update():
\* WaterfallBackend.cpp:77, 202-205, 488-505, BolidRecorder.cpp:178-201.)
MeteorFilesExact ==
  file.opened /\ pushed < file.start + Capacity =>
    \A y \in 1 .. file.length :
      LET n == file.start + y - 1
      IN  \/ file.rows[y] = IF n < 0 THEN NeverWritten ELSE n
          \/ file.rows[y] = Torn /\ y = file.length /\ Detector!Gap <= Advance

\* Every meteor that was sent is released with its file, unless the stream
\* stops short of its snapshot's last row: putting snapshots back and draining
\* them again goes round until their rows are there, and loses none of them
\* (threadMethod(): WaterfallBackend.cpp:66-101).
MeteorsGetReleased ==
  \A n \in -Advance .. MaxPushes :
     (\E i \in DOMAIN sent : sent[i].start = n)
       ~> \/ \E s \in released : s.start = n
          \/ \E i \in DOMAIN sent : sent[i].start = n /\ pushed < n + sent[i].length

\* "If the snapshot doesn't end before the current buffer mark (i.e. the
\* snapshot data is complete), write the snapshot data to file"
\* (WaterfallBackend.cpp:72-74): no row of a file is still being filled.
NoRowTorn == \A y \in 1 .. Len(file.rows) : file.rows[y] # Torn
=============================================================================
