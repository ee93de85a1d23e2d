---------------------------- MODULE JackFrontend ----------------------------
(***************************************************************************)
(* A stream from JACK: JackFrontend of src/src/JackFrontend.cpp feeding a  *)
(* SnapshotRecorder from JACK's process thread, and the two threads that   *)
(* may end the stream, run() on the main thread once a signal has asked it *)
(* to stop, and JACK's shutdown callback.  Both call endStream() and so    *)
(* SnapshotRecorder::stop(), while onJackInput() goes on calling update(). *)
(*                                                                         *)
(* nextSnapshot_ is shared by all three.  startWriting() changes it partly *)
(* under bufferMutex_, partly without, so it is cut in three steps here:   *)
(* reserving under the mutex, sending, and making the next snapshot.  A    *)
(* torn copy of its file name is left out, and so are the MIDI messages.   *)
(*                                                                         *)
(* What JACK does (when it calls what) is modelled from how run() relies   *)
(* on it, and is external: no callback before activation or after          *)
(* jack_client_close(), and no process callback begins once the server has *)
(* gone.                                                                   *)
(***************************************************************************)
EXTENDS SnapshotRecorder

Enders == {"main", "shutdown"}

VARIABLES
  client,     \* the JACK client, as the server sees it
  serverGone, \* JACK has called, or is about to call, onJackShutdown()
  stopping,   \* stopping_
  at,         \* where each of the threads that may end the stream is
  thread,     \* workerThread_ points to a thread
  undefined,  \* a thread was joined that another joins, or through no pointer
  overlapped, \* history: startWriting() ran while nextSnapshot_ was in use
  endedAt     \* history: where the first stop() cut the stream; -1 before

lifeVars == <<client, serverGone, stopping, at, thread, undefined, endedAt>>
jackVars == <<recorderVars, lifeVars, overlapped>>

\* The parts of startWriting() that use nextSnapshot_.
UsesNext == {"reserving", "sending", "renewing"}

\* run() when startStream() has returned and the callbacks are registered.
JackInit ==
  /\ RecorderInit
  /\ client = "open"
  /\ serverGone = FALSE
  /\ stopping = FALSE
  /\ at = [main |-> "activating", shutdown |-> "idle"]
  /\ thread = TRUE
  /\ undefined = FALSE
  /\ overlapped = FALSE
  /\ endedAt = -1

-----------------------------------------------------------------------------
(* startWriting(), by whichever thread.                                    *)

Sends ==
  /\ queue' = Append(queue, next)
  /\ UNCHANGED <<ringVars, rawHandles, next, closing, workerVars, historyVars>>

Renews ==
  /\ next' = NewSnapshot(NextStart)
  /\ UNCHANGED <<ringVars, rawHandles, queue, closing, workerVars, historyVars>>

-----------------------------------------------------------------------------
(* onJackInput(), on JACK's process thread.                                *)

InputPushes ==
  /\ client = "active"
  /\ ~serverGone
  /\ PushRow
  /\ UNCHANGED lifeVars

InputFills ==
  /\ FillAndStamp
  /\ UNCHANGED lifeVars

InputTests ==
  /\ input = "updating"
  /\ input' = IF Full THEN "reserving" ELSE "reading"
  /\ UNCHANGED <<ringVars, rawHandles, next, queue, closing, workerVars, historyVars, lifeVars>>

InputReserves ==
  /\ input = "reserving"
  /\ ReserveNext
  /\ input' = "sending"
  /\ UNCHANGED <<rawHandles, queue, closing, workerVars, historyVars, lifeVars>>

InputSends ==
  /\ input = "sending"
  /\ Sends
  /\ input' = "renewing"
  /\ UNCHANGED lifeVars

InputRenews ==
  /\ input = "renewing"
  /\ Renews
  /\ input' = "reading"
  /\ UNCHANGED lifeVars

-----------------------------------------------------------------------------
(* stop(), by either ender.                                                *)

Goes(e, from, to) ==
  /\ at[e] = from
  /\ at' = [at EXCEPT ![e] = to]

StopReservesNext(e) ==
  /\ Goes(e, "reserving", "sending")
  /\ ReserveNext
  /\ UNCHANGED <<rawHandles, input, queue, closing, workerVars, historyVars, client, serverGone,
                 stopping, thread, undefined, endedAt>>

StopSendsNext(e) ==
  /\ Goes(e, "sending", "renewing")
  /\ Sends
  /\ UNCHANGED <<input, client, serverGone, stopping, thread, undefined, endedAt>>

\* Where the rows end that have been recorded and cut into snapshots: with no
\* row recorded, the snapshot stop() makes all the same lies beyond it.
CutAt == IF NextStart < pushed THEN NextStart ELSE pushed

StopRenewsNext(e) ==
  /\ Goes(e, "renewing", "closing")
  /\ Renews
  /\ endedAt' = IF endedAt = -1 THEN CutAt ELSE endedAt
  /\ UNCHANGED <<input, client, serverGone, stopping, thread, undefined>>

StopClosesChannel(e) ==
  /\ Goes(e, "closing", "joining")
  /\ closing' = TRUE
  /\ UNCHANGED <<ringVars, inputVars, queue, workerVars, historyVars, client, serverGone,
                 stopping, thread, undefined, endedAt>>

\* pthread_join() waits for the worker, unless its behaviour is undefined.
JoinUndefined(e) == ~thread \/ \E other \in Enders \ {e} : at[other] \in {"joining", "deleting"}

StopJoinsWorker(e) ==
  /\ IF JoinUndefined(e)
     THEN at[e] = "joining" /\ undefined' = TRUE /\ UNCHANGED at
     ELSE Goes(e, "joining", "deleting") /\ worker = "done" /\ UNCHANGED undefined
  /\ UNCHANGED <<recorderVars, client, serverGone, stopping, thread, endedAt>>

AfterStop(e) == IF e = "main" THEN "closingClient" ELSE "returned"

StopDeletesWorker(e) ==
  /\ Goes(e, "deleting", AfterStop(e))
  /\ thread' = FALSE
  /\ UNCHANGED <<recorderVars, client, serverGone, stopping, undefined, endedAt>>

Stopping(e) ==
  \/ StopReservesNext(e)
  \/ StopSendsNext(e)
  \/ StopRenewsNext(e)
  \/ StopClosesChannel(e)
  \/ StopJoinsWorker(e)
  \/ StopDeletesWorker(e)

-----------------------------------------------------------------------------
(* run() and the callbacks.                                                *)

\* jack_activate() succeeds.
Activate ==
  /\ Goes("main", "activating", "connecting")
  /\ client' = "active"
  /\ UNCHANGED <<recorderVars, serverGone, stopping, thread, undefined, endedAt>>

\* No ports, or no activation: run() returns, and ends nothing.
ActivateFails ==
  /\ Goes("main", "activating", "returned")
  /\ UNCHANGED <<recorderVars, client, serverGone, stopping, thread, undefined, endedAt>>

Connect ==
  /\ Goes("main", "connecting", "polling")
  /\ UNCHANGED <<recorderVars, client, serverGone, stopping, thread, undefined, endedAt>>

\* jack_connect() fails: run() returns with the client active.
ConnectFails ==
  /\ Goes("main", "connecting", "returned")
  /\ UNCHANGED <<recorderVars, client, serverGone, stopping, thread, undefined, endedAt>>

\* App::interruptHandler() and Pipeline::stop(), at any moment: run() looks at
\* stopping_ only here, so that an earlier one can as well come now.
Interrupt ==
  /\ at["main"] = "polling"
  /\ ~stopping
  /\ stopping' = TRUE
  /\ UNCHANGED <<recorderVars, client, serverGone, at, thread, undefined, endedAt>>

\* A faulty run() that also ends the stream when the server has gone.
AskedOrGone == stopping \/ serverGone

AskedToStop == stopping

Poll ==
  /\ AskedToStop
  /\ Goes("main", "polling", "reserving")
  /\ UNCHANGED <<recorderVars, client, serverGone, stopping, thread, undefined, endedAt>>

\* jack_client_close() waits for a callback to return.
CloseClient ==
  /\ Goes("main", "closingClient", "returned")
  /\ input = "reading"
  /\ ~filling
  /\ client' = "closed"
  /\ UNCHANGED <<recorderVars, serverGone, stopping, thread, undefined, endedAt>>

\* The server goes away, and onJackShutdown() is called.
Shutdown ==
  /\ client # "closed"
  /\ ~serverGone
  /\ serverGone' = TRUE
  /\ Goes("shutdown", "idle", "reserving")
  /\ UNCHANGED <<recorderVars, client, stopping, thread, undefined, endedAt>>

-----------------------------------------------------------------------------
InputRuns ==
  \/ InputPushes
  \/ InputFills
  \/ InputTests
  \/ InputReserves
  \/ InputSends
  \/ InputRenews

MainRuns ==
  \/ Activate
  \/ ActivateFails
  \/ Connect
  \/ ConnectFails
  \/ Poll
  \/ CloseClient
  \/ Stopping("main")

ShutdownRuns == Stopping("shutdown")

WorkerRuns == WorkerNext /\ UNCHANGED lifeVars

\* How many threads are between two uses of nextSnapshot_; the callback is
\* from the moment it has pushed a row.
Users ==
  Cardinality({e \in Enders : at[e] \in UsesNext})
    + (IF input # "reading" \/ filling THEN 1 ELSE 0)

JackNext ==
  /\ ~undefined
  /\ \/ InputRuns
     \/ MainRuns
     \/ ShutdownRuns
     \/ WorkerRuns
     \/ Interrupt
     \/ Shutdown
  /\ overlapped' = (overlapped \/ Users' > 1)

JackSpec == JackInit /\ [][JackNext]_jackVars

-----------------------------------------------------------------------------
(* Properties.                                                             *)

\* The snapshot somebody has reserved and not sent.
Pending ==
  IF input = "sending" \/ \E e \in Enders : at[e] = "sending" THEN <<next>> ELSE << >>

Sent == input = "renewing" \/ \E e \in Enders : at[e] = "renewing"

\* Ending the stream under a callback that goes on, and even twice, leaves
\* the snapshots and their reservations as they should be unless two threads
\* were at nextSnapshot_ at the same time: it is the overlap alone, and no
\* late or second stop(), that can share a reservation or repeat rows.
\* (JackFrontend.cpp:79, 166 with WaterfallBackend.cpp:107-127, 400-427.)
OrderlyUnlessOverlapped ==
  ~overlapped =>
    /\ OwnReservations(OutstandingWith(Pending))
    /\ TileUpTo(OutstandingWith(Pending), IF Pending # << >> \/ Sent THEN NextStart ELSE next.start)

\* Everything recorded before the stream was ended has been written when the
\* worker has left: what is still in the channel, where nobody will look
\* again, begins after the end.  Stated for a stream that does not lap the
\* buffer and was ended without overlap.  (WaterfallBackend.cpp:60-104,
\* 400-412, JackFrontend.cpp:166.)
OnlyLateRowsAreLost ==
  worker = "done" /\ ~overlapped /\ pushed < Capacity =>
    \A i \in DOMAIN queue : queue[i].start >= endedAt

\* Nobody uses workerThread_ when it has been deleted, and nobody joins it
\* beside another, unless JACK shut down and run() was stopped as well.
\* (WaterfallBackend.cpp:409-411.)
UndefinedOnlyByBoth == undefined => serverGone /\ stopping
=============================================================================
