--------------------------- MODULE BolidDetector ---------------------------
(***************************************************************************)
(* The meteor detector of src/src/BolidRecorder.cpp: the state machine     *)
(* that update() drives with each new row, up to the snapshot it asks the  *)
(* worker to write and the message it sends to the MIDI port.              *)
(*                                                                         *)
(* A row is reduced to whether it holds a detection (the average around    *)
(* the peak against the noise).  Rows are numbered from 0, so that after   *)
(* row r is pushed the mark is r + 1; marks are not wrapped here, since    *)
(* RingBuffer2D wraps every index it is given.                             *)
(***************************************************************************)
EXTENDS Integers, Sequences

CONSTANTS Advance,        \* advance_
          Jitter,         \* jitter_
          SnapshotRows,   \* snapshotRows_
          MaxRows         \* bound on the rows of the stream

ASSUME DetectorParameters ==
  /\ Advance \in Nat
  /\ Jitter \in Nat
  /\ SnapshotRows \in Nat \ {0}

ASSUME DetectorBound == MaxRows \in Nat

VARIABLES mark,         \* buffer_->mark(), not wrapped
          state,        \* state_
          duration,     \* duration_
          next,         \* nextSnapshot_: start and length
          sent,         \* history: the snapshots sent, in order
          detections    \* history: the rows with a detection

detectorVars == <<mark, state, duration, next, sent, detections>>

\* A faulty update() that looks at the row at the mark.
RowAtMark == mark + 1

Row == mark             \* the row update() is called for: at(mark() - 1)

\* sent[i].announced is the length in the BolidMessage and the CSV line;
\* sent[i].length is the length of the snapshot given to the worker.
SentSnapshots == [start : Int, announced : Nat, length : Nat, mark : Nat]

DetectorTypeOK ==
  /\ mark \in Nat
  /\ state \in {"init", "bolid", "bolid_ended"}
  /\ duration \in Nat
  /\ next \in [start : Int, length : Nat]
  /\ sent \in Seq(SentSnapshots)
  /\ detections \subseteq 0 .. mark - 1

DetectorInit ==
  /\ mark = 0
  /\ state = "init"
  /\ duration = 0
  /\ next = [start |-> 0, length |-> 0]
  /\ sent = << >>
  /\ detections = {}

-----------------------------------------------------------------------------
(* update() for a row with a detection.                                    *)

NewRow(detect) ==
  /\ mark < MaxRows
  /\ mark' = mark + 1
  /\ detections' = IF detect THEN detections \cup {Row} ELSE detections

BolidStarts ==
  /\ state = "init"
  /\ NewRow(TRUE)
  /\ duration' = 1
  /\ next' = [start |-> mark' - Advance, length |-> 2 * Advance]
  /\ state' = "bolid"
  /\ UNCHANGED sent

BolidGoesOn ==
  /\ state = "bolid"
  /\ NewRow(TRUE)
  /\ duration' = duration + 1
  /\ UNCHANGED <<state, next, sent>>

\* A faulty update() that does not count the row the bolid comes back in.
NotCounted(n) == n

Counted(n) == n + 1

BolidReturns ==
  /\ state = "bolid_ended"
  /\ NewRow(TRUE)
  /\ duration' = Counted(duration)
  /\ state' = "bolid"
  /\ UNCHANGED <<next, sent>>

-----------------------------------------------------------------------------
(* update() for a row without one.                                         *)

NothingHeard ==
  /\ state = "init"
  /\ NewRow(FALSE)
  /\ UNCHANGED <<state, duration, next, sent>>

\* A faulty update() that lets the silence go on counting from the bolid.
DurationKept == duration

DurationReset == 1

BolidPauses ==
  /\ state = "bolid"
  /\ NewRow(FALSE)
  /\ next' = [next EXCEPT !.length = next.length + duration]
  /\ duration' = DurationReset
  /\ state' = "bolid_ended"
  /\ UNCHANGED sent

\* A faulty test that waits for one row less.
OverAlmost == duration + 2 >= Jitter

Over == duration + 1 >= Jitter

StillPaused ==
  /\ state = "bolid_ended"
  /\ NewRow(FALSE)
  /\ ~Over
  /\ duration' = duration + 1
  /\ UNCHANGED <<state, next, sent>>

\* A faulty startWriting() that writes as much as it may.
AtLimit(length) == SnapshotRows

Limited(length) == IF SnapshotRows < length THEN SnapshotRows ELSE length

\* The message, then startWriting() with the length it limits (never 0 here),
\* after which the next snapshot begins where this one ends.
BolidEnds ==
  /\ state = "bolid_ended"
  /\ NewRow(FALSE)
  /\ Over
  /\ duration' = duration + 1
  /\ sent' = Append(sent, [start |-> next.start, announced |-> next.length,
                           length |-> Limited(next.length), mark |-> mark'])
  /\ next' = [start |-> next.start + Limited(next.length), length |-> 0]
  /\ state' = "init"

-----------------------------------------------------------------------------
DetectorNext ==
  \/ BolidStarts
  \/ BolidGoesOn
  \/ BolidReturns
  \/ NothingHeard
  \/ BolidPauses
  \/ StillPaused
  \/ BolidEnds

DetectorSpec == DetectorInit /\ [][DetectorNext]_detectorVars

-----------------------------------------------------------------------------
(* Properties.                                                             *)

\* The rows of silence that end a meteor: the row that takes the detector to
\* STATE_BOLID_ENDED never ends one, so it is never less than two.
Gap == IF Jitter > 2 THEN Jitter ELSE 2

\* The first and the last detection of the meteor a snapshot was sent for, as
\* the start and the announced length give them.
FirstOf(s) == s.start + Advance - 1
LastOf(s)  == s.start + s.announced - Advance - 2

FirstOpen == next.start + Advance - 1

LastOpen ==
  IF state = "bolid" THEN FirstOpen + (next.length - 2 * Advance) + duration - 1
  ELSE FirstOpen + (next.length - 2 * Advance) - 1

Detector == INSTANCE MeteorDetection WITH
  row   <- mark,
  open  <- state # "init",
  first <- IF state = "init" THEN 0 ELSE FirstOpen,
  last  <- IF state = "init" THEN 0 ELSE LastOpen,
  found <- [i \in DOMAIN sent |-> [first |-> FirstOf(sent[i]), last |-> LastOf(sent[i])]]

\* update() groups detections into meteors the way MeteorDetection says, with
\* "max(2, jitter_)" rows of silence ending one, and the start and length it
\* sends are those of the meteor, pauses included, however it was interrupted
\* (BolidRecorder.cpp:171-267).
IsMeteorDetection == Detector!Spec

\* The detections from row a to row b are one meteor that is over: no pause
\* among them or after them short of Gap is filled, none before a joins them.
IsMeteor(a, b) ==
  /\ {a, b} \subseteq detections
  /\ detections \cap (a - Gap .. a - 1) = {}
  /\ detections \cap (b + 1 .. b + Gap) = {}
  /\ b + Gap < mark
  /\ \A d \in detections \cap (a .. b - 1) : detections \cap (d + 1 .. d + Gap) # {}

\* Every group of detections that is over was sent, once, and nothing else
\* was: no meteor is lost, cut in two, or run together with the next
\* (BolidRecorder.cpp:171-267).
MeteorsAreSent ==
  /\ \A i, j \in DOMAIN sent : i < j => LastOf(sent[i]) + Gap < FirstOf(sent[j])
  /\ {<<FirstOf(sent[i]), LastOf(sent[i])>> : i \in DOMAIN sent}
       = {ab \in (0 .. mark) \X (0 .. mark) : ab[1] <= ab[2] /\ IsMeteor(ab[1], ab[2])}

\* If the pause that ends a meteor is longer than the advance, a snapshot
\* holds the first detection of one meteor, every other one of it unless it
\* is as long as a snapshot may be, and none of another meteor's, however
\* close they come.  Without any advance it begins a row too late.
\* (BolidRecorder.cpp:171-267 with startWriting(), WaterfallBackend.cpp:112-116.)
OneMeteorHeld ==
  Advance \in 1 .. SnapshotRows /\ Gap > Advance =>
    \A i \in DOMAIN sent : \E a, b \in detections :
      LET s == sent[i]
          held == detections \cap (s.start .. s.start + s.length - 1)
      IN  /\ IsMeteor(a, b)
          /\ a \in held /\ held \subseteq a .. b
          /\ s.length = SnapshotRows \/ detections \cap (a .. b) \subseteq held

\* If the pause that ends a meteor is longer than the advance, all the rows
\* of a snapshot have been pushed when it is sent; the worker then never finds
\* it incomplete (BolidRecorder.cpp:201 against threadMethod(),
\* WaterfallBackend.cpp:77).
CompleteWhenSent ==
  Gap > Advance => \A i \in DOMAIN sent : sent[i].start + sent[i].length <= sent[i].mark
=============================================================================
