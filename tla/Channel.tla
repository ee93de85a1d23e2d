------------------------------ MODULE Channel ------------------------------
(***************************************************************************)
(* The message channel of src/src/Channel.h with the threads that use it:  *)
(* any number of senders, the one worker that drains it                    *)
(* (SnapshotRecorder::threadMethod, WaterfallBackend.cpp:60-104) and the   *)
(* thread that closes it and joins the worker (SnapshotRecorder::stop).    *)
(*                                                                         *)
(* send() and sendAll() do all their work under mutex_ and so are single   *)
(* steps.  drain() is cut where another thread can get in: close() takes   *)
(* no mutex, so it can run between any two steps of drain().               *)
(***************************************************************************)
EXTENDS Integers, Sequences

CONSTANTS Message,
          MaxSends      \* bound on the messages ever put in the channel

ASSUME ChannelBounds == MaxSends \in Nat

VARIABLES buffer,       \* buffer_
          closing,      \* closing_
          waiting,      \* waiting_
          locked,       \* the worker holds mutex_
          worker,       \* where the worker is
          received,     \* the container drain() copies into
          work,         \* what drain() last returned
          closer,       \* where the closing thread is
          sent,         \* history: every message put in, in order
          drained,      \* history: every message drained, in order
          closedAt      \* history: how many had been put in when close() began

channelVars ==
  <<buffer, closing, waiting, locked, worker, received, work, closer, sent, drained, closedAt>>

WorkerStates == {"calling", "looping", "deciding", "asleep", "woken", "working", "done"}

ChannelTypeOK ==
  /\ buffer \in Seq(Message)
  /\ closing \in BOOLEAN
  /\ waiting \in 0 .. 1
  /\ locked \in BOOLEAN
  /\ worker \in WorkerStates
  /\ received \in Seq(Message)
  /\ work \in BOOLEAN
  /\ closer \in {"running", "closing", "joining", "joined"}
  /\ sent \in Seq(Message)
  /\ drained \in Seq(Message)
  /\ closedAt \in Nat

ChannelInit ==
  /\ buffer = << >>
  /\ closing = FALSE
  /\ waiting = 0
  /\ locked = FALSE
  /\ worker = "calling"
  /\ received = << >>
  /\ work = TRUE
  /\ closer = "running"
  /\ sent = << >>
  /\ drained = << >>
  /\ closedAt = 0

-----------------------------------------------------------------------------
(* condition_.signal() and broadcast(): there is one waiter at most.       *)

\* A faulty send() that does not signal.
NoWake == worker

Wake == IF worker = "asleep" THEN "woken" ELSE worker

-----------------------------------------------------------------------------
(* Senders.                                                                *)

Send(message) ==
  /\ ~locked
  /\ Len(sent) < MaxSends
  /\ buffer' = Append(buffer, message)
  /\ sent' = Append(sent, message)
  /\ worker' = Wake
  /\ UNCHANGED <<closing, waiting, locked, received, work, closer, drained, closedAt>>

-----------------------------------------------------------------------------
(* The worker: drain() step by step.                                       *)

\* A faulty drain() that does not count a waiter out.
StillCounted == waiting

CountedOut == waiting - 1

LockToDrain ==
  /\ worker = "calling" \/ worker = "woken"
  /\ ~locked
  /\ locked' = TRUE
  /\ waiting' = IF worker = "woken" THEN CountedOut ELSE waiting
  /\ worker' = "looping"
  /\ UNCHANGED <<buffer, closing, received, work, closer, sent, drained, closedAt>>

\* A faulty drain() that looks at closing_ before it looks at the buffer.
GivesUpWhenClosing == closing

GivesUp == buffer = << >> /\ closing

\* while (buffer_.empty()) { if (closing_) return false; ...
DrainReturnsFalse ==
  /\ worker = "looping"
  /\ GivesUp
  /\ locked' = FALSE
  /\ work' = FALSE
  /\ worker' = "working"
  /\ UNCHANGED <<buffer, closing, waiting, received, closer, sent, drained, closedAt>>

\* ... waiting_++; the worker still holds the mutex and is about to wait.
DecideToWait ==
  /\ worker = "looping"
  /\ buffer = << >>
  /\ ~closing
  /\ waiting' = waiting + 1
  /\ worker' = "deciding"
  /\ UNCHANGED <<buffer, closing, locked, received, work, closer, sent, drained, closedAt>>

\* condition_.wait(mutex_): joins the waiters and lets go of the mutex.
Wait ==
  /\ worker = "deciding"
  /\ locked' = FALSE
  /\ worker' = "asleep"
  /\ UNCHANGED <<buffer, closing, waiting, received, work, closer, sent, drained, closedAt>>

\* A condition variable may wake its waiter for no reason.
SpuriousWakeup ==
  /\ worker = "asleep"
  /\ worker' = "woken"
  /\ UNCHANGED <<buffer, closing, waiting, locked, received, work, closer, sent, drained, closedAt>>

\* A faulty drain() that copies the messages and leaves them in the buffer.
KeepBuffer == buffer

ClearedBuffer == << >>

DrainReturnsMessages ==
  /\ worker = "looping"
  /\ buffer # << >>
  /\ ~GivesUp
  /\ received' = received \o buffer
  /\ drained' = drained \o buffer
  /\ buffer' = ClearedBuffer
  /\ locked' = FALSE
  /\ work' = ~closing
  /\ worker' = "working"
  /\ UNCHANGED <<closing, waiting, closer, sent, closedAt>>

-----------------------------------------------------------------------------
(* The worker between two drains: some of the messages it received it puts *)
(* back with sendAll(), which returns at once when there are none.  Which  *)
(* ones, and in what order, is left open.                                  *)

Requeue ==
  /\ worker = "working"
  /\ ~locked
  /\ \E n \in 0 .. Len(received) :
       \E incomplete \in [1 .. n -> {received[i] : i \in DOMAIN received}] :
          /\ Len(sent) + n <= MaxSends
          /\ buffer' = buffer \o incomplete
          /\ sent' = sent \o incomplete
  /\ received' = << >>
  /\ worker' = IF work THEN "calling" ELSE "done"
  /\ UNCHANGED <<closing, waiting, locked, work, closer, drained, closedAt>>

-----------------------------------------------------------------------------
(* The closing thread.                                                     *)

CloseSetFlag ==
  /\ closer = "running"
  /\ closing' = TRUE
  /\ closedAt' = Len(sent)
  /\ closer' = "closing"
  /\ UNCHANGED <<buffer, waiting, locked, worker, received, work, sent, drained>>

CloseBroadcast ==
  /\ closer = "closing"
  /\ worker' = Wake
  /\ closer' = "joining"
  /\ UNCHANGED <<buffer, closing, waiting, locked, received, work, sent, drained, closedAt>>

Join ==
  /\ closer = "joining"
  /\ worker = "done"
  /\ closer' = "joined"
  /\ UNCHANGED <<buffer, closing, waiting, locked, worker, received, work, sent, drained, closedAt>>

-----------------------------------------------------------------------------
WorkerNext ==
  \/ LockToDrain
  \/ DrainReturnsFalse
  \/ DecideToWait
  \/ Wait
  \/ DrainReturnsMessages
  \/ Requeue

CloserNext == CloseBroadcast \/ Join

ChannelNext ==
  \/ \E message \in Message : Send(message)
  \/ WorkerNext
  \/ SpuriousWakeup
  \/ CloseSetFlag
  \/ CloserNext

ChannelSpec == ChannelInit /\ [][ChannelNext]_channelVars

\* A thread that can run does; nothing obliges anybody to send or to close,
\* or a condition variable to wake its waiter unasked.
FairChannelSpec ==
  /\ ChannelSpec
  /\ WF_channelVars(WorkerNext)
  /\ WF_channelVars(CloserNext)

-----------------------------------------------------------------------------
(* Properties.                                                             *)

\* The worker never sleeps, or goes to sleep, on messages: every send()
\* reaches it (Channel.h:54-93).
NoSleepOverMessages == worker \in {"deciding", "asleep"} => buffer = << >>

\* When the worker leaves its loop it has been given every message that was
\* in the channel before close() began, also those that came in while it was
\* working (Channel.h:78-106 with WaterfallBackend.cpp:66-101).
ClosedMeansDrained == worker = "done" => closing /\ Len(drained) >= closedAt

\* The channel is a queue: nothing is lost, repeated or reordered between
\* send() and drain(), whoever sends and whenever close() runs.
Queue == INSTANCE MessageQueue WITH queue <- buffer, delivered <- drained, shut <- closing

IsQueue == Queue!Spec

\* Messages do not stay in the channel: as long as the worker runs it gets
\* round to whatever was sent (Channel.h:54-100).
MessagesGetDrained == [](buffer # << >> => <>(buffer = << >> \/ worker = "done"))

\* "Wait for the worker thread to stop and release the resources"
\* (WaterfallBackend.cpp:407-409): once the channel is closed, join() returns.
CloseStopsWorker == closing ~> closer = "joined"
=============================================================================
