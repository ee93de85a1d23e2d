--------------------------- MODULE MessageDispatch ---------------------------
(***************************************************************************)
(* What the detector tells the rest of the program, by MessageDispatch of  *)
(* src/src/MessageDispatch.h, which calls the listeners on the sender's    *)
(* thread, and by the metadata log.  For each row BolidRecorder::update()  *)
(* sends a NoiseMessage, which SnapshotRecorder::processNoiseMessage()     *)
(* stores field by field, without a lock; when a meteor ends it logs a     *)
(* line and sends a BolidMessage, which becomes a MIDI message.  The       *)
(* snapshot recorder's worker logs a line with the fields stored for each  *)
(* snapshot it writes, the one stop() sends included.  A pipeline without  *)
(* a BolidRecorder, as both in src/Ionozor.json, has the fields and their  *)
(* line all the same: make() always listens, and nobody sends.             *)
(*                                                                         *)
(* The stream comes from JACK, so that rows and MIDI are on one thread.    *)
(* Rows are numbered from 0, a time is the number of the row it is the     *)
(* time of, and a field holds the number of the row it was worked out      *)
(* from.  Which rows end a meteor is any (BolidDetector says which), the   *)
(* queue of snapshots is Channel's, the files and the worker's end are     *)
(* SnapshotRecorder's, and an end of the stream under a running callback   *)
(* is JackFrontend's.                                                      *)
(***************************************************************************)
EXTENDS CsvLog, MidiQueue

CONSTANTS
  Fields,       \* noise_, peakFrequency_ and magnitude_
  SnapshotRows, \* snapshotRows_
  MaxRows,      \* a bound on the rows
  MaxMeteors,   \* a bound on the meteors
  MaxRestarts   \* a bound on how often the process dies

ASSUME MessageAssumption ==
  /\ {SnapshotRows, MaxRows, MaxMeteors, MaxRestarts} \subseteq Nat
  /\ SnapshotRows > 0
  /\ Writers = {"input", "worker"}

VARIABLES
  detector,  \* where in recorders_ BolidRecorder is, before or after SnapshotRecorder
  listening, \* run() has added its listeners
  rows,      \* how many rows there have been
  first,     \* the row with which this run of the program began
  input,     \* where JACK's thread is, or stop()
  ended,     \* endStream() has stopped the recorders
  stored,    \* which fields of the row's message have been stored
  values,    \* noise_, peakFrequency_ and magnitude_
  next,      \* the start of nextSnapshot_
  queue,     \* the snapshots sent
  worker,    \* where the worker is
  current,   \* the snapshot it writes
  read,      \* the fields it has read for its line
  meteors,   \* how many meteors there were
  restarts   \* how often the process has died

inputVars == <<detector, listening, rows, first, input, ended, stored, next>>
workerVars == <<worker, current, read>>
boundVars == <<meteors, restarts>>
messageVars == <<logVars, midiVars, inputVars, workerVars, values, queue, boundVars>>

NoTime == -1    \* what rawHandles_ holds before a row, the beginning of 1970
Unset == -1     \* a field nobody has stored since the program began: any value

Values == -1..(MaxRows - 1)

\* A snapshot sent; sent is history, how many rows there were then.
Snapshots == [start : 0..MaxRows, length : 1..SnapshotRows, sent : 0..MaxRows]

NoSnapshot == [start |-> 0, length |-> 0, sent |-> 0]

MessageTypeOK ==
  /\ LogTypeOK
  /\ midiQueue \in Seq(Nat)
  /\ midiMessageWaiting \in BOOLEAN
  /\ detector \in {"first", "last", "none"}
  /\ {listening, ended} \subseteq BOOLEAN
  /\ {rows, first} \subseteq 0..MaxRows
  /\ next \in 0..(MaxRows + SnapshotRows)
  /\ input \in {"idle", "rows", "noise", "detecting", "logging", "announcing", "snapshots",
                "naming", "midi"}
  /\ stored \subseteq Fields
  /\ values \in [Fields -> Values]
  /\ queue \in Seq(Snapshots)
  /\ worker \in {"idle", "reading", "logging", "writing"}
  /\ current \in Snapshots \cup {NoSnapshot}
  /\ DOMAIN read \subseteq Fields

ProgramBegins ==
  /\ first' = rows /\ next' = rows
  /\ input' = "idle" /\ ended' = FALSE /\ stored' = {} /\ listening' = FALSE
  /\ values' = [f \in Fields |-> Unset]
  /\ queue' = << >>
  /\ worker' = "idle" /\ current' = NoSnapshot /\ read' = << >>

MessageInit ==
  /\ LogInit
  /\ MidiInit
  /\ detector \in {"first", "last", "none"}
  /\ rows = 0 /\ first = 0 /\ next = 0
  /\ input = "idle" /\ ended = FALSE /\ stored = {} /\ listening = FALSE
  /\ values = [f \in Fields |-> Unset]
  /\ queue = << >>
  /\ worker = "idle" /\ current = NoSnapshot /\ read = << >>
  /\ meteors = 0
  /\ restarts = 0

-----------------------------------------------------------------------------
(* JACK's thread: onJackInput(), and update() of the recorders.            *)

InputAt(from, to) == input = from /\ input' = to

\* The callback is called.
BeginPeriod ==
  /\ ~ended
  /\ InputAt("idle", "rows")
  /\ UNCHANGED <<logVars, midiVars, workerVars, values, queue, boundVars, detector, listening,
                 rows, first, ended, stored, next>>

NewRow ==
  /\ rows < MaxRows
  /\ InputAt("rows", IF detector = "first" THEN "noise" ELSE "snapshots")
  /\ rows' = rows + 1
  /\ stored' = {}
  /\ UNCHANGED <<logVars, midiVars, workerVars, values, queue, boundVars, detector, listening,
                 first, ended, next>>

\* processNoiseMessage(), a field at a time.
StoreField(f) ==
  /\ input = "noise"
  /\ f \notin stored
  /\ stored' = stored \cup {f}
  /\ values' = [values EXCEPT ![f] = rows - 1]
  /\ input' = IF stored' = Fields THEN "detecting" ELSE input
  /\ UNCHANGED <<logVars, midiVars, workerVars, queue, boundVars, detector, listening, rows,
                 first, ended, next>>

\* Where update() of BolidRecorder leads back to, and of SnapshotRecorder.
AfterBolid == IF detector = "first" THEN "snapshots" ELSE "rows"
AfterSnapshots == IF detector = "last" THEN "noise" ELSE "rows"

NoMeteor ==
  /\ InputAt("detecting", AfterBolid)
  /\ UNCHANGED <<logVars, midiVars, workerVars, values, queue, boundVars, detector, listening,
                 rows, first, ended, stored, next>>

\* A meteor ends: a line for it, at the time it is now, later than the row's.
LogMeteor ==
  /\ meteors < MaxMeteors
  /\ meteors' = meteors + 1
  /\ InputAt("detecting", "logging")
  /\ Calls("input", [kind |-> "meteor", time |-> rows, says |-> << rows - 1 >>])
  /\ UNCHANGED <<midiVars, workerVars, values, queue, restarts, detector, listening, rows,
                 first, ended, stored, next>>

\* A faulty update() that sends its message while the line is being written.
SendsAtOnce == input = "logging"

\* When the line has been written.
MeteorLogged == input = "logging" /\ call["input"] = NoCall

\* sendMessage(BolidMessage): to the listener, if there is one.
DispatchBolid ==
  /\ MeteorLogged
  /\ input' = IF listening THEN "announcing" ELSE AfterBolid
  /\ UNCHANGED <<logVars, midiVars, workerVars, values, queue, boundVars, detector, listening,
                 rows, first, ended, stored, next>>

Announce ==
  /\ InputAt("announcing", AfterBolid)
  /\ PushMidi(rows - 1)
  /\ UNCHANGED <<logVars, workerVars, values, queue, boundVars, detector, listening, rows,
                 first, ended, stored, next>>

\* size(nextSnapshot_.start): of nothing it is the capacity.
Available == IF rows = next THEN 8 * SnapshotRows ELSE rows - next

\* A faulty startWriting() that does not cut.
Uncut(size) == size

CutLength(size) == IF SnapshotRows < size THEN SnapshotRows ELSE size

\* startWriting(), up to the name of the next snapshot.
SendSnapshot ==
  LET length == CutLength(Available)
  IN  /\ queue' = Append(queue, [start |-> next, length |-> length, sent |-> rows])
      /\ next' = next + length

\* A faulty update() that sends a snapshot when its last row has been pushed.
FullAtOnce == rows - next >= SnapshotRows

\* SnapshotRecorder::update(): no row, no update.
Full == rows - next >= SnapshotRows + 2

UpdateSnapshots ==
  /\ InputAt("snapshots", IF Full THEN "naming" ELSE AfterSnapshots)
  /\ IF Full THEN SendSnapshot ELSE UNCHANGED <<queue, next>>
  /\ UNCHANGED <<logVars, midiVars, workerVars, values, boundVars, detector, listening, rows,
                 first, ended, stored>>

\* getFileName() of the next snapshot's start.
NameNext ==
  /\ InputAt("naming", IF ended THEN "idle" ELSE AfterSnapshots)
  /\ UNCHANGED <<logVars, midiVars, workerVars, values, queue, boundVars, detector, listening,
                 rows, first, ended, stored, next>>

\* The samples of the period are used up.
ReadFlag ==
  /\ InputAt("rows", IF midiMessageWaiting THEN "midi" ELSE "idle")
  /\ UNCHANGED <<logVars, midiVars, workerVars, values, queue, boundVars, detector, listening,
                 rows, first, ended, stored, next>>

EndPeriod ==
  /\ InputAt("midi", "idle")
  /\ SendMidi
  /\ UNCHANGED <<logVars, workerVars, values, queue, boundVars, detector, listening, rows,
                 first, ended, stored, next>>

\* endStream(), on the main thread: stop() sends what there is, or nothing at
\* all, as a snapshot of full length.
EndStream ==
  /\ ~ended
  /\ InputAt("idle", "naming")
  /\ ended' = TRUE
  /\ SendSnapshot
  /\ UNCHANGED <<logVars, midiVars, workerVars, values, boundVars, detector, listening, rows,
                 first, stored>>

-----------------------------------------------------------------------------
(* The worker: SnapshotRecorder::write().                                  *)

TakeSnapshot ==
  /\ worker = "idle"
  /\ queue # << >>
  /\ current' = Head(queue)
  /\ queue' = Tail(queue)
  /\ worker' = "reading"
  /\ read' = << >>
  /\ UNCHANGED <<logVars, midiVars, inputVars, values, boundVars>>

\* The operands of the line, in an order the language leaves open.
ReadField(f) ==
  /\ worker = "reading"
  /\ f \notin DOMAIN read
  /\ read' = [g \in DOMAIN read \cup {f} |-> IF g = f THEN values[g] ELSE read[g]]
  /\ UNCHANGED <<logVars, midiVars, inputVars, values, queue, boundVars, worker, current>>

\* fftMarkToTime(start): the row before (SnapshotRecorder's StampIsFirstRow).
TimeOf(start) == IF start \in (first + 1)..rows THEN start - 1 ELSE NoTime

LogSnapshot ==
  /\ worker = "reading"
  /\ DOMAIN read = Fields
  /\ worker' = "logging"
  /\ Calls("worker", [kind |-> "snapshot", time |-> TimeOf(current.start), says |-> << current, read >>])
  /\ UNCHANGED <<midiVars, inputVars, values, queue, boundVars, current, read>>

SnapshotLogged ==
  /\ worker = "logging"
  /\ call["worker"] = NoCall
  /\ worker' = "writing"
  /\ UNCHANGED <<logVars, midiVars, inputVars, values, queue, boundVars, current, read>>

\* The file, with the times in its header.
WriteFile ==
  /\ worker = "writing"
  /\ worker' = "idle"
  /\ UNCHANGED <<logVars, midiVars, inputVars, values, queue, boundVars, current, read>>

-----------------------------------------------------------------------------
(* Others.                                                                 *)

\* The times a thread other than t may be formatting: for a file's header, or
\* for the name of the next snapshot's file.
FormattedBesides(t) ==
  IF t = "input"
  THEN IF worker = "writing" THEN {TimeOf(current.start)} ELSE {}
  ELSE IF input = "naming" THEN {TimeOf(next)} ELSE {}

LineWritten(t) ==
  /\ Logs(t, FormattedBesides(t))
  /\ UNCHANGED <<midiVars, inputVars, workerVars, values, queue, boundVars>>

\* run(), on the main thread, some time after it has activated the client.
AddListeners ==
  /\ ~listening
  /\ listening' = TRUE
  /\ UNCHANGED <<logVars, midiVars, workerVars, values, queue, boundVars, detector, rows, first,
                 input, ended, stored, next>>

\* The process dies anywhere, by TERM for one, and is started again.
Restart ==
  /\ restarts < MaxRestarts
  /\ restarts' = restarts + 1
  /\ ProgramBegins
  /\ LogRestarts
  /\ midiQueue' = << >>
  /\ midiMessageWaiting' \in BOOLEAN
  /\ UNCHANGED <<detector, rows, meteors>>

-----------------------------------------------------------------------------
InputRuns ==
  \/ BeginPeriod
  \/ NewRow
  \/ \E f \in Fields : StoreField(f)
  \/ NoMeteor
  \/ LogMeteor
  \/ DispatchBolid
  \/ Announce
  \/ UpdateSnapshots
  \/ NameNext
  \/ ReadFlag
  \/ EndPeriod
  \/ LineWritten("input")

WorkerRuns ==
  \/ TakeSnapshot
  \/ \E f \in Fields : ReadField(f)
  \/ LogSnapshot
  \/ SnapshotLogged
  \/ WriteFile
  \/ LineWritten("worker")

MessageNext ==
  \/ InputRuns
  \/ WorkerRuns
  \/ AddListeners
  \/ EndStream
  \/ Restart

MessageSpec == MessageInit /\ [][MessageNext]_messageVars

\* JACK goes on calling the callback, and threads are scheduled.
FairMessageSpec ==
  /\ MessageSpec
  /\ WF_messageVars(InputRuns)
  /\ WF_messageVars(WorkerRuns)

-----------------------------------------------------------------------------
(* Properties.                                                             *)

Lines == UNION {Range(files[h]) : h \in DOMAIN files}

\* There is a detector, and it has had a row of the snapshot to tell of.
Heard(snapshot) == detector # "none" /\ snapshot.sent > snapshot.start

\* What a snapshot's line says of the noise was worked out from its last row
\* or a later one, whichever recorder comes first, however the two threads
\* interleave and whenever the stream ends.  It is what was in memory before
\* the constructor exactly in pipelines without a detector and when the
\* stream ends before its first row.  (WaterfallBackend.cpp:117-120, 157-166,
\* 270-277, 400-403, 417; Ionozor.json; the constructor sets none of the
\* fields, WaterfallBackend.h:176-209.)
LineIsFresh ==
  \A line \in Lines : line.kind = "snapshot" =>
    LET snapshot == line.says[1]
        said == line.says[2]
    IN  \A f \in Fields :
          IF Heard(snapshot) THEN said[f] >= snapshot.start + snapshot.length - 1
                             ELSE said[f] = Unset

\* No line is of memory nobody has written.  Some are, see above.
NoLineUnset ==
  \A line \in Lines : line.kind = "snapshot" => \A f \in Fields : line.says[2][f] # Unset

\* A line's fields are of one row.  They are not: nothing locks them.
NoLineTorn ==
  \A line \in Lines : line.kind = "snapshot" =>
    \A f, g \in Fields : line.says[2][f] = line.says[2][g]

\* A meteor that is announced is in the log already, whatever happens next:
\* restarts lose announcements, never lines.  (BolidRecorder.cpp:225-248.)
AnnouncedIsLogged ==
  \A i \in DOMAIN midiQueue :
    \E line \in Lines : line.kind = "meteor" /\ line.says = << midiQueue[i] >>

\* No MIDI message stays behind while there are periods, though each sends
\* one of them and several may come in one: the flag that lets the next
\* period look is worked out from what is left.  What is left when the stream
\* ends is never sent.  (JackFrontend.cpp:44-67, 178-184.)
MidiMessagesLeave == midiQueue # << >> ~> (midiQueue = << >> \/ ended)
=============================================================================
