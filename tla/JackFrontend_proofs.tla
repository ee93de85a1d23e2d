------------------------- MODULE JackFrontend_proofs -------------------------
(***************************************************************************)
(* A stream from JACK, for every size of buffer and snapshot and every     *)
(* interleaving of the callback, the two threads that may end the stream   *)
(* and the worker.  Two invariants: LifeInStep, of who ends the stream,    *)
(* holds always; Undisturbed, of the snapshots and their reservations,     *)
(* holds until two threads are at nextSnapshot_ at the same time.          *)
(*                                                                         *)
(* startWriting() is three steps here, taken by any of three threads; as   *)
(* long as one at a time takes them, each does to the line of snapshots    *)
(* what the recorder's steps do, whose lemmas are used for it.             *)
(***************************************************************************)
EXTENDS JackFrontend, SnapshotRecorder_proofs

\* Where the threads may be.
Inputs == {"reading", "updating", "reserving", "sending", "renewing"}
InStop == {"reserving", "sending", "renewing", "closing", "joining", "deleting"}
Places == InStop \cup {"idle", "activating", "connecting", "polling", "closingClient", "returned"}

\* Where run() and onJackShutdown() are says who has asked for the end, and
\* who may have deleted the worker.
LifeInStep ==
  /\ at \in [Enders -> Places]
  /\ at["main"] \in InStop \cup {"closingClient"} => stopping
  /\ at["shutdown"] = "idle" \/ serverGone
  /\ \/ thread
     \/ at["main"] \in {"closingClient", "returned"} /\ stopping
     \/ at["shutdown"] = "returned"
  /\ UndefinedOnlyByBoth

JackTypeOK ==
  /\ RingTypeOK
  /\ rawHandles \in [Indices -> Int]
  /\ input \in Inputs
  /\ next \in Snapshots
  /\ PlacesHoldSnapshots
  /\ closing \in BOOLEAN
  /\ worker \in {"draining", "choosing", "opening", "writing", "releasing", "done"}
  /\ work \in BOOLEAN
  /\ endedAt \in Nat \cup {-1}

\* Nobody is at nextSnapshot_ beside another.
OneUser ==
  /\ \A e \in Enders : at[e] \in UsesNext => input = "reading" /\ ~filling
  /\ ~(at["main"] \in UsesNext /\ at["shutdown"] \in UsesNext)

\* Somebody has reserved the next snapshot, and not made another.
InputAhead == input \in {"sending", "renewing"}
EnderAhead == \E e \in Enders : at[e] \in {"sending", "renewing"}

\* The next snapshot starts at most SnapshotRows + 2 rows behind the mark and
\* has a length while somebody is ahead; and until the stream is ended it is
\* where the recorder has it when nobody interferes.  (Afterwards it may be
\* past the mark: a stop() with nothing to write makes a snapshot all the
\* same.)
JackPosition ==
  /\ next.start \in Nat
  /\ filling => input = "reading"
  /\ IF InputAhead \/ EnderAhead THEN next.length \in 1 .. SnapshotRows ELSE next.length = 0
  /\ Behind <= IF input = "reading" /\ ~filling THEN SnapshotRows + 1 ELSE SnapshotRows + 2
  /\ input # "reading" \/ filling => pushed > 0
  /\ endedAt = -1 =>
       /\ Behind >= 0
       /\ Behind = 0 => pushed = 0
       /\ input \in {"reserving", "sending", "renewing"} => Behind = SnapshotRows + 2
       /\ EnderAhead => NextStart <= pushed \/ pushed = 0

\* The worker waits with nothing in its hands, and gives up only on a closed
\* channel.
WorkerInStep ==
  /\ worker = "draining" => received = << >> /\ incomplete = << >> /\ work
  /\ worker = "done" => ~work
  /\ ~work => closing

\* Everything outstanding, and where the snapshots made so far end.
JackOutstanding == OutstandingWith(Pending)
JackUpTo == IF Pending # << >> \/ Sent THEN NextStart ELSE next.start

JackOwns == Owns(JackOutstanding, held, reservations)

JackTiles ==
  /\ Tiled(Spans(JackOutstanding) \cup released, JackUpTo)
  /\ Distinct(JackOutstanding, released)

\* s is of rows recorded before the stream was ended there.
Early(s, end) == end = -1 \/ s.start < end

\* The rows of such a snapshot are there; of another, maybe not.
EarlyInTime ==
  \A s \in ToSet(JackOutstanding) :
    /\ s.length <= SnapshotRows
    /\ Early(s, endedAt) => s.start + s.length <= pushed \/ (pushed = 0 /\ s.start = 0)

\* No early snapshot is put back, nor left in the channel for nobody.
LateLeft ==
  /\ closing \/ (\E e \in Enders : at[e] = "closing") => endedAt # -1
  /\ endedAt <= next.start /\ endedAt <= pushed
  /\ pushed < Capacity =>
       /\ \A s \in ToSet(incomplete) : ~Early(s, endedAt)
       /\ ~work => \A s \in ToSet(queue) : ~Early(s, endedAt)

\* What holds until two threads meet at nextSnapshot_.
Undisturbed ==
  /\ JackTypeOK
  /\ RingIInv
  /\ OneUser
  /\ JackPosition
  /\ WorkerInStep
  /\ JackOwns
  /\ JackTiles
  /\ EarlyInTime
  /\ LateLeft

\* The inductive invariant.
JackIInv == LifeInStep /\ (~overlapped => Undisturbed)

-----------------------------------------------------------------------------
(* Who ends the stream.                                                    *)

(* An ender that goes somewhere is there, and the other one stays.         *)
LEMMA Gone ==
  ASSUME at \in [Enders -> Places], NEW e \in Enders, NEW from, NEW to \in Places, Goes(e, from, to)
  PROVE  /\ at' \in [Enders -> Places]
         /\ at[e] = from /\ at'[e] = to
         /\ \A o \in Enders : o # e => at'[o] = at[o]
BY DEF Goes

(* LifeInStep is inductive on its own: a thread joins what another joins   *)
(* or has deleted only when both have come to stop().                      *)
LEMMA LifeStep ==
  ASSUME LifeInStep, JackNext
  PROVE  LifeInStep'
<1> USE DEF LifeInStep, InStop, UndefinedOnlyByBoth
<1>1. "main" \in Enders /\ "shutdown" \in Enders
  BY DEF Enders
<1>2. at \in [Enders -> Places]
  OBVIOUS
<1>3. CASE InputRuns \/ WorkerRuns
  <2>1. UNCHANGED lifeVars
    BY <1>3 DEF InputRuns, InputPushes, InputFills, InputTests, InputReserves, InputSends, InputRenews, WorkerRuns
  <2> QED BY <2>1 DEF lifeVars
<1>4. CASE Interrupt
  BY <1>4 DEF Interrupt
<1>5. CASE Shutdown
  BY <1>1, <1>2, <1>5, Gone DEF Shutdown, Places, Enders
<1>6. CASE Activate \/ ActivateFails \/ Connect \/ ConnectFails \/ CloseClient
  <2>1. PICK from \in {"activating", "connecting", "closingClient"},
             to \in {"connecting", "returned", "polling"} : Goes("main", from, to)
    BY <1>6 DEF Activate, ActivateFails, Connect, ConnectFails, CloseClient
  <2>2. at' \in [Enders -> Places] /\ at["main"] = from /\ at'["main"] = to /\ at'["shutdown"] = at["shutdown"]
    BY <1>1, <1>2, <2>1, Gone DEF Places, Enders
  <2>3. CloseClient => from = "closingClient" /\ to = "returned"
    BY <1>1, <1>2, <2>2 DEF CloseClient, Goes
  <2>4. ~CloseClient => from # "closingClient"
    BY <1>1, <1>2, <1>6, <2>2 DEF Activate, ActivateFails, Connect, ConnectFails, Goes
  <2>5. UNCHANGED <<serverGone, stopping, thread, undefined>>
    BY <1>6 DEF Activate, ActivateFails, Connect, ConnectFails, CloseClient
  <2> QED BY <2>2, <2>3, <2>4, <2>5
<1>7. CASE Poll
  BY <1>1, <1>2, <1>7, Gone DEF Poll, AskedToStop, Places, Enders
<1>8. ASSUME NEW e \in Enders, StopReservesNext(e) \/ StopSendsNext(e) \/ StopRenewsNext(e) \/ StopClosesChannel(e)
      PROVE  LifeInStep'
  <2>1. PICK from \in InStop, to \in InStop : Goes(e, from, to)
    BY <1>8 DEF StopReservesNext, StopSendsNext, StopRenewsNext, StopClosesChannel
  <2>2. at' \in [Enders -> Places] /\ at[e] = from /\ at'[e] = to /\ \A o \in Enders : o # e => at'[o] = at[o]
    BY <1>2, <2>1, Gone DEF Places
  <2>3. UNCHANGED <<serverGone, stopping, thread, undefined>>
    BY <1>8 DEF StopReservesNext, StopSendsNext, StopRenewsNext, StopClosesChannel
  <2>4. e = "main" \/ e = "shutdown"
    BY DEF Enders
  <2> QED BY <2>2, <2>3, <2>4, <1>1
<1>9. ASSUME NEW e \in Enders, StopJoinsWorker(e)
      PROVE  LifeInStep'
  <2>1. UNCHANGED <<serverGone, stopping, thread>>
    BY <1>9 DEF StopJoinsWorker
  <2>2. e = "main" \/ e = "shutdown"
    BY DEF Enders
  <2>3. CASE JoinUndefined(e)
    <3>1. at[e] = "joining" /\ at' = at
      BY <1>9, <2>3 DEF StopJoinsWorker
    <3>2. ~thread \/ \E o \in Enders \ {e} : at[o] \in {"joining", "deleting"}
      BY <2>3 DEF JoinUndefined
    <3>3. serverGone /\ stopping
      <4>1. CASE e = "main"
        BY <3>1, <3>2, <4>1 DEF Enders
      <4>2. CASE e = "shutdown"
        BY <3>1, <3>2, <4>2 DEF Enders
      <4> QED BY <2>2, <4>1, <4>2
    <3> QED BY <2>1, <3>1, <3>3
  <2>4. CASE ~JoinUndefined(e)
    <3>1. Goes(e, "joining", "deleting") /\ undefined' = undefined
      BY <1>9, <2>4 DEF StopJoinsWorker
    <3>2. /\ at' \in [Enders -> Places] /\ at[e] = "joining" /\ at'[e] = "deleting"
          /\ \A o \in Enders : o # e => at'[o] = at[o]
      BY <1>2, <3>1, Gone DEF Places
    <3> QED BY <2>1, <2>2, <3>1, <3>2, <1>1
  <2> QED BY <2>3, <2>4
<1>10. ASSUME NEW e \in Enders, StopDeletesWorker(e)
       PROVE  LifeInStep'
  <2>1. e = "main" \/ e = "shutdown"
    BY DEF Enders
  <2>2. AfterStop(e) = IF e = "main" THEN "closingClient" ELSE "returned"
    BY DEF AfterStop
  <2>3. /\ at' \in [Enders -> Places] /\ at[e] = "deleting" /\ at'[e] = AfterStop(e)
        /\ \A o \in Enders : o # e => at'[o] = at[o]
    BY <1>2, <1>10, <2>2, Gone DEF StopDeletesWorker, Places
  <2>4. UNCHANGED <<serverGone, stopping, undefined>>
    BY <1>10 DEF StopDeletesWorker
  <2> QED BY <2>1, <2>2, <2>3, <2>4, <1>1
<1>11. ASSUME NEW e \in Enders, Stopping(e) PROVE LifeInStep'
  BY <1>8, <1>9, <1>10, <1>11 DEF Stopping
<1> QED BY <1>1, <1>3, <1>4, <1>5, <1>6, <1>7, <1>11 DEF JackNext, MainRuns, ShutdownRuns

-----------------------------------------------------------------------------
(* One user at a time.                                                     *)

(* Counting to one.                                                        *)
LEMMA CountedOneUser == Users <= 1 => OneUser
<1> SUFFICES ASSUME Users <= 1 PROVE OneUser
  OBVIOUS
<1> DEFINE U == {e \in Enders : at[e] \in UsesNext}
           n == Cardinality(U)
           m == IF input # "reading" \/ filling THEN 1 ELSE 0
<1>1. IsFiniteSet({"main"}) /\ Cardinality({"main"}) = 1
  BY FS_Singleton
<1>2. Enders = {"main"} \cup {"shutdown"}
  BY DEF Enders
<1>3. IsFiniteSet(Enders) /\ Cardinality(Enders) = 2
  BY <1>1, <1>2, FS_AddElement
<1>4. IsFiniteSet(U) /\ n \in Nat
  BY <1>3, FS_Subset, FS_CardinalityType
<1>5. n + m <= 1
  BY DEF Users
<1>6. \A e \in Enders : at[e] \in UsesNext => U # {}
  OBVIOUS
<1>7. U # {} => n # 0
  BY <1>4, FS_EmptySet
<1>8. at["main"] \in UsesNext /\ at["shutdown"] \in UsesNext => U = Enders
  BY DEF Enders
<1>9. ~(at["main"] \in UsesNext /\ at["shutdown"] \in UsesNext)
  <2>1. U = Enders => n = 2
    BY <1>3
  <2> HIDE DEF U, n
  <2>2. n <= 1
    BY <1>4, <1>5
  <2> QED BY <1>8, <2>1, <2>2
<1>10. ASSUME NEW e \in Enders, at[e] \in UsesNext PROVE m = 0
  <2>1. n # 0
    BY <1>6, <1>7, <1>10
  <2> HIDE DEF n
  <2> QED BY <1>4, <1>5, <2>1
<1> HIDE DEF U, n
<1> QED BY <1>9, <1>10 DEF OneUser

(* Users are a number.                                                     *)
LEMMA UsersNumber == Users \in Int
<1> DEFINE U == {e \in Enders : at[e] \in UsesNext}
<1>1. Enders = {"main"} \cup {"shutdown"}
  BY DEF Enders
<1>2. IsFiniteSet(Enders)
  BY <1>1, FS_Singleton, FS_AddElement
<1>3. Cardinality(U) \in Nat
  BY <1>2, FS_Subset, FS_CardinalityType
<1> QED BY <1>3 DEF Users

(* While it is undisturbed after a step, one thread at most is there.      *)
LEMMA StillOneUser ==
  ASSUME JackNext, ~overlapped'
  PROVE  ~overlapped /\ OneUser'
<1>1. ~overlapped /\ ~(Users' > 1)
  BY DEF JackNext
<1>2. (Users <= 1 => OneUser)'
  BY CountedOneUser, PTL
<1>3. (Users \in Int)'
  BY UsersNumber, PTL
<1>4. Users' <= 1
  BY <1>1, <1>3
<1> QED BY <1>1, <1>2, <1>4

-----------------------------------------------------------------------------
(* The steps of startWriting(), whoever takes them, and all the others.    *)

Reserves == InputReserves \/ \E e \in Enders : StopReservesNext(e)

SendsOn == InputSends \/ \E e \in Enders : StopSendsNext(e)

RenewsNext == InputRenews \/ \E e \in Enders : StopRenewsNext(e)

EnderElsewhere ==
  \/ Activate \/ ActivateFails \/ Connect \/ ConnectFails \/ Poll \/ CloseClient \/ Shutdown
  \/ \E e \in Enders : StopClosesChannel(e) \/ StopJoinsWorker(e) \/ StopDeletesWorker(e)

(* There are no other steps.                                               *)
LEMMA JackSteps ==
  ASSUME JackNext
  PROVE  \/ InputPushes \/ InputFills \/ InputTests
         \/ Reserves \/ SendsOn \/ RenewsNext
         \/ EnderElsewhere \/ Interrupt \/ WorkerRuns
BY DEF JackNext, InputRuns, MainRuns, ShutdownRuns, Stopping, Reserves, SendsOn, RenewsNext, EnderElsewhere, Enders

(* Reserving: the next snapshot becomes the reserved one.                  *)
LEMMA ReservesStep ==
  ASSUME LifeInStep, OneUser, Reserves
  PROVE  /\ ReserveNext
         /\ Pending = << >> /\ ~Sent /\ ~InputAhead /\ ~EnderAhead
         /\ Pending' = <<next'>> /\ (InputAhead' \/ EnderAhead')
         /\ input' = "reading" \/ input' = "sending"
         /\ input' = "reading" => input = "reading" /\ EnderAhead'
         /\ input' = "sending" => input = "reserving" /\ ~EnderAhead'
         /\ \A e \in Enders : at'[e] = at[e] \/ (at[e] = "reserving" /\ at'[e] = "sending")
         /\ UNCHANGED <<rawHandles, queue, closing, workerVars, historyVars, endedAt>>
<1>1. at \in [Enders -> Places]
  BY DEF LifeInStep
<1>2. CASE InputReserves
  <2>1. input = "reserving" /\ input' = "sending" /\ at' = at
    BY <1>2 DEF InputReserves, lifeVars
  <2>2. \A e \in Enders : at[e] \notin UsesNext
    BY <2>1 DEF OneUser
  <2> QED BY <1>2, <2>1, <2>2 DEF InputReserves, Pending, Sent, InputAhead, EnderAhead, UsesNext, lifeVars
<1>3. ASSUME NEW e \in Enders, StopReservesNext(e)
      PROVE  /\ ReserveNext
             /\ Pending = << >> /\ ~Sent /\ ~InputAhead /\ ~EnderAhead
             /\ Pending' = <<next'>> /\ EnderAhead'
             /\ input' = "reading" /\ input = "reading"
             /\ \A o \in Enders : at'[o] = at[o] \/ (at[o] = "reserving" /\ at'[o] = "sending")
             /\ UNCHANGED <<rawHandles, queue, closing, workerVars, historyVars, endedAt>>
  <2>1. Goes(e, "reserving", "sending") /\ input' = input
    BY <1>3 DEF StopReservesNext
  <2>2. at[e] = "reserving" /\ at'[e] = "sending" /\ \A o \in Enders : o # e => at'[o] = at[o]
    BY <1>1, <2>1, Gone DEF Places, InStop
  <2>3. input = "reading" /\ \A o \in Enders : o # e => at[o] \notin UsesNext
    BY <2>2 DEF OneUser, UsesNext, Enders
  <2> QED BY <1>3, <2>1, <2>2, <2>3 DEF StopReservesNext, Pending, Sent, InputAhead, EnderAhead, UsesNext
<1> QED BY <1>2, <1>3, Zenon DEF Reserves

(* Sending: it goes into the channel.                                      *)
LEMMA SendsStep ==
  ASSUME LifeInStep, OneUser, SendsOn
  PROVE  /\ Pending = <<next>> /\ Pending' = << >> /\ Sent'
         /\ InputAhead \/ EnderAhead
         /\ InputAhead' = InputAhead /\ EnderAhead' = EnderAhead
         /\ input' = input \/ (input = "sending" /\ input' = "renewing")
         /\ queue' = Append(queue, next)
         /\ \A e \in Enders : at'[e] = at[e] \/ (at[e] = "sending" /\ at'[e] = "renewing")
         /\ UNCHANGED <<ringVars, rawHandles, next, closing, workerVars, historyVars, endedAt>>
<1>1. at \in [Enders -> Places]
  BY DEF LifeInStep
<1>2. CASE InputSends
  <2>1. input = "sending" /\ input' = "renewing" /\ at' = at
    BY <1>2 DEF InputSends, lifeVars
  <2>2. \A e \in Enders : at[e] \notin UsesNext
    BY <2>1 DEF OneUser
  <2> QED BY <1>2, <2>1, <2>2 DEF InputSends, Sends, Pending, Sent, InputAhead, EnderAhead, UsesNext, lifeVars
<1>3. ASSUME NEW e \in Enders, StopSendsNext(e)
      PROVE  /\ Pending = <<next>> /\ Pending' = << >> /\ Sent'
             /\ EnderAhead /\ EnderAhead' /\ ~InputAhead /\ ~InputAhead'
             /\ input' = input
             /\ queue' = Append(queue, next)
             /\ \A o \in Enders : at'[o] = at[o] \/ (at[o] = "sending" /\ at'[o] = "renewing")
             /\ UNCHANGED <<ringVars, rawHandles, next, closing, workerVars, historyVars, endedAt>>
  <2>1. Goes(e, "sending", "renewing") /\ input' = input
    BY <1>3 DEF StopSendsNext
  <2>2. at[e] = "sending" /\ at'[e] = "renewing" /\ \A o \in Enders : o # e => at'[o] = at[o]
    BY <1>1, <2>1, Gone DEF Places, InStop
  <2>3. input = "reading" /\ \A o \in Enders : o # e => at[o] \notin UsesNext
    BY <2>2 DEF OneUser, UsesNext, Enders
  <2> QED BY <1>3, <2>1, <2>2, <2>3 DEF StopSendsNext, Sends, Pending, Sent, InputAhead, EnderAhead, UsesNext
<1>4. CASE \E e \in Enders : StopSendsNext(e)
  <2>1. /\ EnderAhead /\ EnderAhead' /\ ~InputAhead /\ ~InputAhead'
    BY <1>3, <1>4
  <2>2. EnderAhead' = EnderAhead /\ InputAhead' = InputAhead
    BY <2>1 DEF EnderAhead, InputAhead
  <2> QED BY <1>3, <1>4, <2>1, <2>2
<1> QED BY <1>2, <1>4 DEF SendsOn

(* Renewing: the next snapshot begins where it ends.                       *)
LEMMA RenewsStep ==
  ASSUME LifeInStep, OneUser, filling => input = "reading", RenewsNext
  PROVE  /\ Sent /\ Pending = << >> /\ Pending' = << >> /\ ~Sent'
         /\ InputAhead \/ EnderAhead
         /\ ~InputAhead' /\ ~EnderAhead'
         /\ next' = NewSnapshot(NextStart)
         /\ input' = "reading" /\ ~filling
         /\ \/ /\ input = "renewing" /\ at' = at /\ endedAt' = endedAt
            \/ /\ input = "reading" /\ EnderAhead
               /\ endedAt' = IF endedAt = -1 THEN CutAt ELSE endedAt
         /\ UNCHANGED <<ringVars, rawHandles, queue, closing, workerVars, historyVars>>
<1>1. at \in [Enders -> Places]
  BY DEF LifeInStep
<1>2. CASE InputRenews
  <2>1. input = "renewing" /\ input' = "reading" /\ at' = at
    BY <1>2 DEF InputRenews, lifeVars
  <2>2. \A e \in Enders : at[e] \notin UsesNext
    BY <2>1 DEF OneUser
  <2> QED BY <1>2, <2>1, <2>2 DEF InputRenews, Renews, Pending, Sent, InputAhead, EnderAhead, UsesNext, lifeVars
<1>3. ASSUME NEW e \in Enders, StopRenewsNext(e)
      PROVE  /\ Sent /\ Pending = << >> /\ Pending' = << >> /\ ~Sent'
             /\ ~InputAhead' /\ ~EnderAhead'
             /\ next' = NewSnapshot(NextStart)
             /\ input' = "reading" /\ ~filling
             /\ input = "reading" /\ EnderAhead
             /\ endedAt' = IF endedAt = -1 THEN CutAt ELSE endedAt
             /\ UNCHANGED <<ringVars, rawHandles, queue, closing, workerVars, historyVars>>
  <2>1. Goes(e, "renewing", "closing") /\ input' = input
    BY <1>3 DEF StopRenewsNext
  <2>2. at[e] = "renewing" /\ at'[e] = "closing" /\ \A o \in Enders : o # e => at'[o] = at[o]
    BY <1>1, <2>1, Gone DEF Places, InStop
  <2>3. input = "reading" /\ ~filling /\ \A o \in Enders : o # e => at[o] \notin UsesNext
    BY <2>2 DEF OneUser, UsesNext, Enders
  <2> QED BY <1>3, <2>1, <2>2, <2>3 DEF StopRenewsNext, Renews, Pending, Sent, InputAhead, EnderAhead, UsesNext
<1> QED BY <1>2, <1>3, Zenon DEF RenewsNext

(* Any other step leaves nextSnapshot_ and whoever is at it alone.         *)
LEMMA ElsewhereStep ==
  ASSUME LifeInStep, OneUser, OneUser', filling => input = "reading",
         InputPushes \/ InputFills \/ InputTests \/ EnderElsewhere \/ Interrupt \/ WorkerRuns
  PROVE  /\ Pending' = Pending /\ Sent' = Sent /\ next' = next /\ endedAt' = endedAt
         /\ InputAhead' = InputAhead /\ EnderAhead' = EnderAhead
         /\ \A e \in Enders : at'[e] = "closing" => at[e] = "closing"
<1>1. at \in [Enders -> Places]
  BY DEF LifeInStep
<1>2. CASE InputPushes \/ InputFills \/ InputTests
  <2>1. at' = at /\ next' = next /\ endedAt' = endedAt
    BY <1>2 DEF InputPushes, PushRow, InputFills, FillAndStamp, InputTests, lifeVars, inputVars
  <2>2. input \notin {"sending", "renewing"} /\ input' \notin {"sending", "renewing"}
    BY <1>2 DEF InputPushes, PushRow, InputFills, FillAndStamp, FillRow, InputTests, inputVars
  <2> QED BY <2>1, <2>2 DEF Pending, Sent, InputAhead, EnderAhead
<1>3. CASE Interrupt \/ WorkerRuns
  <2>1. at' = at /\ next' = next /\ endedAt' = endedAt /\ input' = input
    BY <1>3 DEF Interrupt, WorkerRuns, WorkerNext, Drain, DrainClosed, ChooseComplete, ChooseIncomplete,
      PutBack, OpenFile, OpenFails, WriteRow, Release, lifeVars, recorderVars, inputVars
  <2> QED BY <2>1 DEF Pending, Sent, InputAhead, EnderAhead
<1>4. CASE EnderElsewhere
  <2>1. next' = next /\ endedAt' = endedAt /\ input' = input
    BY <1>4 DEF EnderElsewhere, Activate, ActivateFails, Connect, ConnectFails, Poll, CloseClient, Shutdown,
      StopClosesChannel, StopJoinsWorker, StopDeletesWorker, recorderVars, inputVars
  <2>2. PICK e \in Enders, from \in Places \ {"sending", "renewing"}, to \in Places \ {"sending", "renewing", "closing"} :
           at' = at \/ Goes(e, from, to)
    <3>1. CASE \E e \in Enders : StopClosesChannel(e) \/ StopJoinsWorker(e) \/ StopDeletesWorker(e)
      BY <3>1 DEF StopClosesChannel, StopJoinsWorker, StopDeletesWorker, AfterStop, Places, InStop
    <3>2. CASE Activate \/ ActivateFails \/ Connect \/ ConnectFails \/ Poll \/ CloseClient \/ Shutdown
      BY <3>2 DEF Activate, ActivateFails, Connect, ConnectFails, Poll, CloseClient, Shutdown, Enders, Places, InStop
    <3> QED BY <1>4, <3>1, <3>2 DEF EnderElsewhere
  <2>3. \/ at' = at
        \/ at[e] = from /\ at'[e] = to /\ \A o \in Enders : o # e => at'[o] = at[o]
    BY <1>1, <2>2, Gone
  <2>4. \A o \in Enders : \A p \in {"sending", "renewing"} : at'[o] = p <=> at[o] = p
    BY <2>3
  <2>5. \A o \in Enders : at'[o] = "closing" => at[o] = "closing"
    BY <2>3
  <2> QED BY <2>1, <2>4, <2>5 DEF Pending, Sent, InputAhead, EnderAhead
<1> QED BY <1>2, <1>3, <1>4

-----------------------------------------------------------------------------
(* The snapshots outstanding.                                              *)

\* The steps that leave all of them where they are.
Stays ==
  \/ InputPushes \/ InputFills \/ InputTests \/ RenewsNext \/ EnderElsewhere \/ Interrupt
  \/ WorkerRuns /\ (Drain \/ DrainClosed \/ PutBack \/ OpenFile \/ OpenFails \/ WriteRow)

\* The steps that move one from place to place.
Moves == SendsOn \/ (WorkerRuns /\ (ChooseComplete \/ ChooseIncomplete))

(* The steps, by what they do to the snapshots outstanding.                *)
LEMMA JackKinds ==
  ASSUME JackNext
  PROVE  Stays \/ Moves \/ Reserves \/ (WorkerRuns /\ Release)
BY JackSteps DEF Stays, Moves, WorkerRuns, WorkerNext

(* What is outstanding is the line behind what is reserved.                *)
LEMMA JackLine ==
  /\ JackOutstanding = Line(Pending, queue, received, incomplete, InHand)
  /\ JackOutstanding' = Line(Pending', queue', received', incomplete', InHand')
BY DEF JackOutstanding, OutstandingWith, Line, InHand

(* They are snapshots.                                                     *)
LEMMA JackPlaces ==
  ASSUME JackTypeOK
  PROVE  /\ PlacesHoldSnapshots /\ next \in Snapshots
         /\ Pending \in Seq(Snapshots)
         /\ JackOutstanding \in Seq(Snapshots)
<1>1. PlacesHoldSnapshots /\ next \in Snapshots
  BY DEF JackTypeOK
<1>2. Pending \in Seq(Snapshots)
  BY <1>1 DEF Pending
<1>3. Line(Pending, queue, received, incomplete, InHand) \in Seq(Snapshots)
  BY <1>1, <1>2, LineTyped
<1> QED BY <1>1, <1>2, <1>3, JackLine

(* A step of the worker leaves the others' threads alone.                  *)
LEMMA WorkerAlone ==
  ASSUME WorkerRuns
  PROVE  UNCHANGED <<rawHandles, input, next, closing, client, serverGone, stopping, at, thread, undefined, endedAt>>
BY DEF WorkerRuns, WorkerNext, Drain, DrainClosed, ChooseComplete, ChooseIncomplete, PutBack, OpenFile, OpenFails,
  WriteRow, Release, inputVars, lifeVars

(* Staying, they are the same in the same order.                           *)
LEMMA JackSame ==
  ASSUME LifeInStep, OneUser, OneUser', JackTypeOK, filling => input = "reading", WorkerInStep, Stays
  PROVE  JackOutstanding' = JackOutstanding
<1>1. PlacesHoldSnapshots /\ Pending \in Seq(Snapshots)
  BY JackPlaces
<1>2. CASE InputPushes \/ InputFills \/ InputTests \/ EnderElsewhere \/ Interrupt
  <2>1. Pending' = Pending
    BY <1>2, ElsewhereStep
  <2>2. queue' = queue /\ UNCHANGED workerVars
    BY <1>2 DEF InputPushes, PushRow, InputFills, FillAndStamp, InputTests, EnderElsewhere, Interrupt,
      Activate, ActivateFails, Connect, ConnectFails, Poll, CloseClient, Shutdown,
      StopClosesChannel, StopJoinsWorker, StopDeletesWorker, recorderVars
  <2>3. received' = received /\ incomplete' = incomplete /\ InHand' = InHand
    BY <2>2 DEF workerVars, InHand
  <2> QED BY <2>1, <2>2, <2>3, JackLine
<1>3. CASE RenewsNext
  <2>1. Pending' = Pending /\ queue' = queue /\ UNCHANGED workerVars
    BY <1>3, RenewsStep
  <2>2. received' = received /\ incomplete' = incomplete /\ InHand' = InHand
    BY <2>1 DEF workerVars, InHand
  <2> QED BY <2>1, <2>2, JackLine
<1>4. CASE WorkerRuns /\ (Drain \/ DrainClosed \/ PutBack \/ OpenFile \/ OpenFails \/ WriteRow)
  <2>1. Pending' = Pending
    BY <1>4, ElsewhereStep
  <2>2. worker = "draining" => received = << >> /\ incomplete = << >>
    BY DEF WorkerInStep
  <2>3. Line(Pending, queue', received', incomplete', InHand') = Line(Pending, queue, received, incomplete, InHand)
    BY <1>1, <1>4, <2>2, LineKept
  <2> QED BY <2>1, <2>3, JackLine
<1> QED BY <1>2, <1>3, <1>4 DEF Stays

(* Moving rearranges them.                                                 *)
LEMMA JackMoved ==
  ASSUME LifeInStep, OneUser, OneUser', JackTypeOK, filling => input = "reading", Moves
  PROVE  Rearranged(JackOutstanding, JackOutstanding')
<1>1. PlacesHoldSnapshots /\ next \in Snapshots /\ Pending \in Seq(Snapshots)
  BY JackPlaces
<1>2. CASE SendsOn
  <2>1. /\ Pending = <<next>> /\ Pending' = << >> /\ queue' = Append(queue, next)
        /\ UNCHANGED workerVars
    BY <1>2, SendsStep
  <2>2. received' = received /\ incomplete' = incomplete /\ InHand' = InHand
    BY <2>1 DEF workerVars, InHand
  <2>3. Rearranged(Line(<<next>>, queue, received, incomplete, InHand),
                   Line(<< >>, Append(queue, next), received, incomplete, InHand))
    BY <1>1, LineSent
  <2> QED BY <2>1, <2>2, <2>3, JackLine
<1>3. CASE WorkerRuns /\ (ChooseComplete \/ ChooseIncomplete)
  <2>1. Pending' = Pending
    BY <1>3, ElsewhereStep
  <2>2. Rearranged(Line(Pending, queue, received, incomplete, InHand),
                   Line(Pending, queue', received', incomplete', InHand'))
    BY <1>1, <1>3, LineChosen
  <2> QED BY <2>1, <2>2, JackLine
<1> QED BY <1>2, <1>3 DEF Moves

(* Reserving adds one.                                                     *)
LEMMA JackAdded ==
  ASSUME LifeInStep, OneUser, JackTypeOK, Reserves, next' \in Snapshots
  PROVE  JackOutstanding' = <<next'>> \o JackOutstanding
<1>1. /\ Pending = << >> /\ Pending' = <<next'>> /\ queue' = queue
      /\ UNCHANGED workerVars
  BY ReservesStep
<1>2. received' = received /\ incomplete' = incomplete /\ InHand' = InHand
  BY <1>1 DEF workerVars, InHand
<1>3. Line(<<next'>>, queue, received, incomplete, InHand)
        = <<next'>> \o Line(<< >>, queue, received, incomplete, InHand)
  BY JackPlaces, LineAdded
<1> QED BY <1>1, <1>2, <1>3, JackLine

(* Releasing takes the last off.                                           *)
LEMMA JackRemoved ==
  ASSUME LifeInStep, OneUser, OneUser', JackTypeOK, filling => input = "reading", WorkerRuns, Release
  PROVE  JackOutstanding' \in Seq(Snapshots) /\ JackOutstanding = JackOutstanding' \o <<current>>
<1>1. Pending' = Pending
  BY ElsewhereStep
<1>2. /\ Line(Pending, queue', received', incomplete', InHand') \in Seq(Snapshots)
      /\ Line(Pending, queue, received, incomplete, InHand)
           = Line(Pending, queue', received', incomplete', InHand') \o <<current>>
  BY JackPlaces, LineReleased
<1> QED BY <1>1, <1>2, JackLine

-----------------------------------------------------------------------------
(* Reserving.                                                              *)

(* size() is never zero, wherever the next snapshot starts.                *)
LEMMA SizePositive ==
  ASSUME RingTypeOK, NEW start \in Int
  PROVE  SizeFrom(start) \in 1 .. Capacity
<1> DEFINE s == NormalizeRowIndex(start)
           e == NormalizeRowIndex(Mark)
<1>1. Capacity \in Nat \ {0} /\ Mark \in Int
  BY RingMetrics DEF RingTypeOK, Mark, Indices
<1>2. s \in 0 .. Capacity - 1 /\ e \in 0 .. Capacity - 1
  BY <1>1, AtInRange DEF Indices
<1>3. SizeFrom(start) = IF e > s THEN e - s ELSE (Capacity - s) + e
  BY DEF SizeFrom, SizeBetween
<1> HIDE DEF s, e
<1> QED BY <1>1, <1>2, <1>3

(* startWriting() under the lock, whoever calls it: a length of at least   *)
(* one row, and the next snapshot less than a lap behind the mark.         *)
LEMMA JackReserve ==
  ASSUME LifeInStep, OneUser, JackTypeOK, RingIInv, JackPosition, Reserves
  PROVE  /\ LengthToWrite \in 1 .. SnapshotRows
         /\ Behind \in 0 .. Capacity - 1 =>
              LengthToWrite = IF Behind \in 1 .. SnapshotRows THEN Behind ELSE SnapshotRows
         /\ Reserve(next.start, LengthToWrite)
         /\ RingIInv'
         /\ next' = [start |-> next.start, length |-> LengthToWrite,
                     reservation |-> ReservedHandle, name |-> next.name]
         /\ next' \in Snapshots
         /\ pushed' = pushed /\ filling' = filling
<1> DEFINE wanted == SizeFrom(next.start)
           d == Behind
<1>1. next.length = 0 /\ next.start \in Nat /\ pushed \in Nat /\ d = pushed - next.start /\ d <= SnapshotRows + 2
  <2>1. ~InputAhead /\ ~EnderAhead
    BY ReservesStep
  <2>2. next.length = 0 /\ next.start \in Nat /\ pushed \in Nat
    BY <2>1 DEF JackPosition, JackTypeOK, RingTypeOK
  <2>3. d <= SnapshotRows + 2
    BY <2>2, CapacityAmple DEF JackPosition, Behind
  <2> QED BY <2>2, <2>3 DEF Behind
<1>2. wanted \in 1 .. Capacity
  BY <1>1, SizePositive DEF JackTypeOK
<1>3. LengthToWrite = IF SnapshotRows < wanted THEN SnapshotRows ELSE wanted
  BY <1>1 DEF LengthToWrite
<1>4. d \in 0 .. Capacity - 1 => wanted = IF d = 0 THEN Capacity ELSE d
  <2>1. d \in 0 .. Capacity - 1 => wanted = IF pushed = next.start THEN Capacity ELSE pushed - next.start
    BY <1>1, SizeFromStart DEF JackTypeOK, RingIInv
  <2> HIDE DEF wanted, d
  <2> QED BY <2>1, <1>1
<1> HIDE DEF wanted, d
<1>5. LengthToWrite \in 1 .. SnapshotRows
  BY <1>2, <1>3, CapacityAmple
<1>6. d \in 0 .. Capacity - 1 => LengthToWrite = IF d \in 1 .. SnapshotRows THEN d ELSE SnapshotRows
  BY <1>1, <1>3, <1>4, CapacityAmple
<1>7. ReserveNext
  BY ReservesStep
<1>8. Reserve(next.start, LengthToWrite)
  BY <1>7 DEF ReserveNext
<1>9. pushed < next.start + Capacity
  BY <1>1, CapacityAmple
<1>10. next.start \in Int /\ LengthToWrite \in Nat
  BY <1>1, <1>5, CapacityAmple
<1>11. RingIInv'
  BY <1>8, <1>9, <1>10, ReserveInvariant
<1>12. ReservedHandle \in Nat
  <2>1. freeReservations \in Seq(1 .. Len(reservations)) /\ Len(reservations) \in Nat
    BY DEF JackTypeOK, RingTypeOK
  <2>2. freeReservations # << >> => Last(freeReservations) \in 1 .. Len(reservations)
    BY <2>1 DEF Last
  <2> QED BY <2>1, <2>2 DEF ReservedHandle
<1>13. next \in [start : Int, length : Nat, reservation : Nat, name : Int]
  BY DEF JackTypeOK, Snapshots
<1>14. next' = [next EXCEPT !.length = LengthToWrite, !.reservation = ReservedHandle]
  BY <1>7 DEF ReserveNext
<1>15. next' = [start |-> next.start, length |-> LengthToWrite, reservation |-> ReservedHandle, name |-> next.name]
  BY <1>13, <1>14
<1>16. next' \in Snapshots
  BY <1>10, <1>12, <1>13, <1>15 DEF Snapshots
<1>17. pushed' = pushed /\ filling' = filling
  BY <1>8 DEF Reserve
<1> QED BY <1>5, <1>6, <1>8, <1>11, <1>15, <1>16, <1>17 DEF d

-----------------------------------------------------------------------------
(* The steps on the ring buffer, the types and the position.               *)

(* The worker's snapshot still has its reservation.                        *)
LEMMA JackCurrentHeld ==
  ASSUME LifeInStep, OneUser, OneUser', JackTypeOK, filling => input = "reading", JackOwns, WorkerRuns, Release
  PROVE  /\ current.reservation \in DOMAIN held
         /\ JackOwns'
<1>1. JackOutstanding' \in Seq(Snapshots) /\ JackOutstanding = JackOutstanding' \o <<current>>
  BY JackRemoved
<1> DEFINE o == JackOutstanding'
<1>2. o \in Seq(Snapshots) /\ Owns(o \o <<current>>, held, reservations)
  BY <1>1 DEF JackOwns
<1>3. RingTypeOK /\ current \in Snapshots
  BY DEF JackTypeOK, PlacesHoldSnapshots
<1> HIDE DEF o
<1>4. /\ current.reservation \in DOMAIN held
      /\ Owns(o, held', reservations')
  BY <1>2, <1>3, OwnsReleased
<1> QED BY <1>4 DEF JackOwns, o

(* Every step is a step of the ring buffer's users, or leaves it alone.    *)
LEMMA JackRingStep ==
  ASSUME LifeInStep, OneUser, OneUser', JackTypeOK, RingIInv, JackPosition, JackOwns, JackNext
  PROVE  RingIInv'
<1>0. filling => input = "reading"
  BY DEF JackPosition
<1>1. CASE InputPushes
  BY <1>1, PushInvariant DEF InputPushes, PushRow
<1>2. CASE InputFills
  BY <1>2, FillInvariant DEF InputFills, FillAndStamp
<1>3. CASE Reserves
  BY <1>3, JackReserve
<1>4. CASE WorkerRuns /\ Release
  <2>1. current.reservation \in DOMAIN held
    BY <1>0, <1>4, JackCurrentHeld
  <2> QED BY <1>4, <2>1, FreeInvariant DEF Release, ReservationToFree
<1>5. CASE \/ InputTests \/ SendsOn \/ RenewsNext \/ EnderElsewhere \/ Interrupt
           \/ WorkerRuns /\ ~Release
  <2>1. CASE SendsOn \/ RenewsNext
    <3>1. UNCHANGED ringVars
      BY <1>0, <2>1, SendsStep, RenewsStep
    <3> QED BY <3>1, StepInvariant
  <2>2. CASE InputTests \/ EnderElsewhere \/ Interrupt
    <3>1. UNCHANGED ringVars
      BY <2>2 DEF InputTests, EnderElsewhere, Interrupt, Activate, ActivateFails, Connect, ConnectFails, Poll,
        CloseClient, Shutdown, StopClosesChannel, StopJoinsWorker, StopDeletesWorker, recorderVars
    <3> QED BY <3>1, StepInvariant
  <2>3. CASE WorkerRuns /\ ~Release
    <3>1. UNCHANGED ringVars
      BY <2>3 DEF WorkerRuns, WorkerNext, Drain, DrainClosed, ChooseComplete, ChooseIncomplete, PutBack, OpenFile,
        OpenFails, WriteRow
    <3> QED BY <3>1, StepInvariant
  <2> QED BY <1>5, <2>1, <2>2, <2>3
<1> QED BY <1>1, <1>2, <1>3, <1>4, <1>5, JackSteps

(* A time looked up is a number.                                           *)
LEMMA JackTimeTyped ==
  ASSUME JackTypeOK, NEW m \in Int
  PROVE  TimeOf(m) \in Int
BY AtInRange DEF JackTypeOK, TimeOf

(* Where the recorded rows are cut is a number, not past the next snapshot *)
(* nor past the mark.                                                      *)
LEMMA CutTyped ==
  ASSUME JackTypeOK, next.start \in Nat
  PROVE  /\ NextStart \in Nat /\ next.start <= NextStart
         /\ CutAt \in Nat /\ CutAt <= NextStart /\ CutAt <= pushed
<1>1. next.length \in Nat /\ pushed \in Nat
  BY DEF JackTypeOK, RingTypeOK, Snapshots
<1> QED BY <1>1 DEF NextStart, CutAt

(* Types.                                                                  *)
LEMMA JackTypeStep ==
  ASSUME LifeInStep, OneUser, OneUser', JackTypeOK, RingIInv, RingIInv', JackPosition, JackNext
  PROVE  JackTypeOK'
<1>0. RingTypeOK' /\ (filling => input = "reading") /\ next.start \in Nat
  BY DEF RingIInv, JackPosition
<1> USE <1>0
<1>1. CASE InputPushes \/ InputTests
  BY <1>1 DEF JackTypeOK, PlacesHoldSnapshots, Inputs, InputPushes, PushRow, InputTests, inputVars, workerVars, lifeVars
<1>2. CASE InputFills
  <2>1. pushed - 1 \in Int /\ rawHandles \in [Indices -> Int]
    BY DEF JackTypeOK, RingTypeOK
  <2>2. rawHandles' \in [Indices -> Int]
    BY <1>2, <2>1 DEF InputFills, FillAndStamp
  <2> QED BY <1>2, <2>2 DEF JackTypeOK, PlacesHoldSnapshots, Inputs, InputFills, FillAndStamp, workerVars, lifeVars
<1>3. CASE Reserves
  <2>1. next' \in Snapshots
    BY <1>3, JackReserve
  <2>2. /\ input' = "reading" \/ input' = "sending"
        /\ UNCHANGED <<rawHandles, queue, closing, workerVars, historyVars, endedAt>>
    BY <1>3, ReservesStep
  <2> QED BY <2>1, <2>2 DEF JackTypeOK, PlacesHoldSnapshots, Inputs, workerVars
<1>4. CASE SendsOn
  <2>1. /\ input' = input \/ input' = "renewing"
        /\ queue' = Append(queue, next)
        /\ UNCHANGED <<ringVars, rawHandles, next, closing, workerVars, historyVars, endedAt>>
    BY <1>4, SendsStep
  <2>2. queue' \in Seq(Snapshots)
    BY <2>1 DEF JackTypeOK, PlacesHoldSnapshots
  <2> QED BY <2>1, <2>2 DEF JackTypeOK, PlacesHoldSnapshots, Inputs, workerVars
<1>5. CASE RenewsNext
  <2>1. /\ next' = NewSnapshot(NextStart)
        /\ input' = "reading"
        /\ endedAt' = endedAt \/ endedAt' = CutAt
        /\ UNCHANGED <<ringVars, rawHandles, queue, closing, workerVars, historyVars>>
    BY <1>5, RenewsStep
  <2>2. NextStart \in Nat /\ CutAt \in Nat
    BY CutTyped
  <2>3. TimeOf(NextStart) \in Int
    BY <2>2, JackTimeTyped
  <2>4. next' \in Snapshots
    BY <2>1, <2>2, <2>3 DEF NewSnapshot, Snapshots
  <2> QED BY <2>1, <2>2, <2>4 DEF JackTypeOK, PlacesHoldSnapshots, Inputs, workerVars
<1>6. CASE EnderElsewhere \/ Interrupt
  <2>1. /\ endedAt' = endedAt
        /\ closing' = closing \/ closing' = TRUE
        /\ UNCHANGED <<ringVars, inputVars, queue, workerVars>>
    BY <1>6 DEF EnderElsewhere, Interrupt, Activate, ActivateFails, Connect, ConnectFails, Poll, CloseClient, Shutdown,
      StopClosesChannel, StopJoinsWorker, StopDeletesWorker, recorderVars
  <2> QED BY <2>1 DEF JackTypeOK, PlacesHoldSnapshots, inputVars, workerVars
<1>7. CASE WorkerRuns
  <2>1. UNCHANGED <<rawHandles, input, next, closing, endedAt>>
    BY <1>7, WorkerAlone
  <2>2. PlacesHoldSnapshots /\ worker' \in {"draining", "choosing", "opening", "writing", "releasing", "done"} /\ work' \in BOOLEAN
    BY <1>7 DEF JackTypeOK, WorkerRuns, WorkerNext, Drain, DrainClosed, ChooseComplete, ChooseIncomplete, PutBack, OpenFile,
      OpenFails, WriteRow, Release
  <2>3. PlacesHoldSnapshots'
    <3>1. CASE ChooseComplete
      <4>1. Head(received) \in Snapshots /\ Tail(received) \in Seq(Snapshots)
        BY <2>2, <3>1 DEF ChooseComplete, PlacesHoldSnapshots
      <4> QED BY <2>2, <3>1, <4>1 DEF ChooseComplete, PlacesHoldSnapshots
    <3>2. CASE ChooseIncomplete
      <4>1. Head(received) \in Snapshots /\ Tail(received) \in Seq(Snapshots)
        BY <2>2, <3>2 DEF ChooseIncomplete, PlacesHoldSnapshots
      <4>2. Append(incomplete, Head(received)) \in Seq(Snapshots)
        BY <2>2, <4>1 DEF PlacesHoldSnapshots
      <4> QED BY <2>2, <3>2, <4>1, <4>2 DEF ChooseIncomplete, PlacesHoldSnapshots
    <3>3. CASE Drain \/ DrainClosed \/ PutBack
      <4>1. queue \o incomplete \in Seq(Snapshots) /\ << >> \in Seq(Snapshots)
        BY <2>2 DEF PlacesHoldSnapshots
      <4> QED BY <2>2, <3>3, <4>1 DEF PlacesHoldSnapshots, Drain, DrainClosed, PutBack, QueueAfterPutBack
    <3>4. CASE OpenFile \/ OpenFails \/ WriteRow \/ Release
      BY <2>2, <3>4 DEF PlacesHoldSnapshots, OpenFile, OpenFails, WriteRow, Release
    <3> QED BY <1>7, <3>1, <3>2, <3>3, <3>4 DEF WorkerRuns, WorkerNext
  <2> QED BY <2>1, <2>2, <2>3 DEF JackTypeOK
<1> QED BY <1>1, <1>2, <1>3, <1>4, <1>5, <1>6, <1>7, JackSteps

(* Where the next snapshot is.                                             *)
LEMMA JackPositionStep ==
  ASSUME LifeInStep, OneUser, OneUser', JackTypeOK, JackTypeOK', RingIInv, JackPosition, LateLeft, JackNext
  PROVE  JackPosition'
<1>0. /\ next.start \in Nat /\ pushed \in Nat /\ filling \in BOOLEAN /\ input \in Inputs
      /\ filling => input = "reading"
      /\ next.length \in Nat
      /\ SnapshotRows \in Nat \ {0} /\ Capacity \in Nat /\ SnapshotRows + 2 < Capacity
      /\ endedAt \in Nat \cup {-1}
  BY CapacityAmple DEF JackPosition, JackTypeOK, RingTypeOK, Snapshots
<1>1. CASE InputPushes
  <2>1. /\ input = "reading" /\ input' = "reading" /\ ~filling /\ filling' /\ pushed' = pushed + 1 /\ next' = next
    BY <1>1 DEF InputPushes, PushRow, Push, inputVars
  <2>2. InputAhead' = InputAhead /\ EnderAhead' = EnderAhead /\ endedAt' = endedAt
    BY <1>0, <1>1, ElsewhereStep
  <2>3. ~EnderAhead'
    BY <2>1 DEF OneUser, EnderAhead, UsesNext
  <2> QED BY <1>0, <2>1, <2>2, <2>3 DEF JackPosition, Behind
<1>2. CASE InputFills
  <2>1. /\ filling /\ input = "reading" /\ input' = "updating" /\ ~filling' /\ pushed' = pushed /\ next' = next
    BY <1>0, <1>2 DEF InputFills, FillAndStamp, FillRow
  <2>2. InputAhead' = InputAhead /\ EnderAhead' = EnderAhead /\ endedAt' = endedAt
    BY <1>0, <1>2, ElsewhereStep
  <2> QED BY <1>0, <2>1, <2>2 DEF JackPosition, Behind, NextStart
<1>3. CASE InputTests
  <2>1. /\ input = "updating" /\ input' = (IF Full THEN "reserving" ELSE "reading")
        /\ filling' = filling /\ pushed' = pushed /\ next' = next
    BY <1>3 DEF InputTests, ringVars
  <2>2. InputAhead' = InputAhead /\ EnderAhead' = EnderAhead /\ endedAt' = endedAt
    BY <1>0, <1>3, ElsewhereStep
  <2> DEFINE wanted == SizeFrom(next.start)
  <2>3. Behind \in 0 .. Capacity - 1 => wanted = IF Behind = 0 THEN Capacity ELSE Behind
    <3>1. pushed - next.start \in 0 .. Capacity - 1 =>
            wanted = IF pushed = next.start THEN Capacity ELSE pushed - next.start
      BY <1>0, SizeFromStart DEF RingIInv
    <3> HIDE DEF wanted
    <3> QED BY <1>0, <3>1 DEF Behind
  <2>4. Full <=> wanted >= SnapshotRows + 2
    BY DEF Full
  <2>5. wanted \in 1 .. Capacity
    BY <1>0, SizePositive DEF JackTypeOK
  <2> HIDE DEF wanted
  <2>6. Behind \in Int /\ Behind <= SnapshotRows + 2 /\ pushed > 0 /\ ~filling
    BY <1>0, <2>1 DEF JackPosition, Behind
  <2>7. ~Full => Behind <= SnapshotRows + 1
    BY <1>0, <2>3, <2>4, <2>6
  <2>8. endedAt = -1 => Behind >= 1 /\ (Full => Behind = SnapshotRows + 2)
    <3>1. endedAt = -1 => Behind >= 1
      BY <2>6 DEF JackPosition
    <3> QED BY <1>0, <2>3, <2>4, <2>6, <3>1
  <2>9. Behind' = Behind /\ NextStart' = NextStart
    BY <2>1 DEF Behind, NextStart
  <2> QED BY <1>0, <2>1, <2>2, <2>6, <2>7, <2>8, <2>9 DEF JackPosition
<1>4. CASE Reserves
  <2>1. /\ LengthToWrite \in 1 .. SnapshotRows
        /\ Behind \in 0 .. Capacity - 1 =>
             LengthToWrite = IF Behind \in 1 .. SnapshotRows THEN Behind ELSE SnapshotRows
        /\ next'.start = next.start /\ next'.length = LengthToWrite
        /\ pushed' = pushed /\ filling' = filling
    BY <1>4, JackReserve
  <2>2. /\ input' = "reading" \/ input' = "sending"
        /\ input' = "reading" => input = "reading"
        /\ input' = "sending" => input = "reserving" /\ ~EnderAhead'
        /\ InputAhead' \/ EnderAhead'
        /\ endedAt' = endedAt
    BY <1>4, ReservesStep
  <2>3. Behind' = Behind /\ Behind \in Int /\ NextStart' = next.start + LengthToWrite /\ Behind = pushed - next.start
    BY <1>0, <2>1 DEF Behind, NextStart
  <2>4. EnderAhead' /\ endedAt' = -1 => NextStart' <= pushed' \/ pushed' = 0
    BY <1>0, <2>1, <2>2, <2>3 DEF JackPosition
  <2> QED BY <1>0, <2>1, <2>2, <2>3, <2>4 DEF JackPosition
<1>5. CASE SendsOn
  <2>1. /\ input' = input \/ (input = "sending" /\ input' = "renewing")
        /\ InputAhead' = InputAhead /\ EnderAhead' = EnderAhead
        /\ UNCHANGED <<ringVars, rawHandles, next, closing, workerVars, historyVars, endedAt>>
    BY <1>5, SendsStep
  <2>2. pushed' = pushed /\ filling' = filling /\ next' = next /\ endedAt' = endedAt
    BY <2>1 DEF ringVars
  <2>3. input' = "reading" <=> input = "reading"
    BY <2>1
  <2>4. input' \in {"reserving", "sending", "renewing"} => input \in {"reserving", "sending", "renewing"}
    BY <2>1
  <2>5. Behind' = Behind /\ NextStart' = NextStart
    BY <2>2 DEF Behind, NextStart
  <2> QED BY <1>0, <2>1, <2>2, <2>3, <2>4, <2>5 DEF JackPosition
<1>6. CASE RenewsNext
  <2>1. /\ InputAhead \/ EnderAhead
        /\ ~InputAhead' /\ ~EnderAhead'
        /\ next' = NewSnapshot(NextStart)
        /\ input' = "reading" /\ ~filling
        /\ \/ input = "renewing" /\ endedAt' = endedAt
           \/ endedAt' = IF endedAt = -1 THEN CutAt ELSE endedAt
        /\ UNCHANGED ringVars
    BY <1>0, <1>6, RenewsStep
  <2>2. pushed' = pushed /\ filling' = filling /\ next'.start = NextStart /\ next'.length = 0
    BY <2>1 DEF ringVars, NewSnapshot
  <2>3. NextStart \in Nat /\ CutAt \in Nat
    BY <1>0, CutTyped
  <2>4. next.length \in 1 .. SnapshotRows /\ NextStart = next.start + next.length
    BY <2>1 DEF JackPosition, NextStart
  <2>5. Behind <= SnapshotRows + 2 /\ Behind = pushed - next.start
    BY <1>0 DEF JackPosition, Behind
  <2>6. Behind' = Behind - next.length /\ Behind' <= SnapshotRows + 1
    BY <1>0, <2>2, <2>4, <2>5 DEF Behind
  <2>7. endedAt' = -1 => input = "renewing" /\ Behind = SnapshotRows + 2
    BY <1>0, <2>1, <2>3 DEF JackPosition
  <2>8. endedAt' = -1 => Behind' >= 2
    BY <1>0, <2>4, <2>6, <2>7
  <2>9. Behind' \in Int
    BY <1>0, <2>4, <2>5, <2>6
  <2> QED BY <1>0, <2>1, <2>2, <2>3, <2>6, <2>8, <2>9 DEF JackPosition
<1>7. CASE EnderElsewhere \/ Interrupt \/ WorkerRuns
  <2>1. pushed' = pushed /\ filling' = filling /\ input' = input
    BY <1>7 DEF EnderElsewhere, Interrupt, Activate, ActivateFails, Connect, ConnectFails, Poll, CloseClient, Shutdown,
      StopClosesChannel, StopJoinsWorker, StopDeletesWorker, recorderVars, ringVars, inputVars,
      WorkerRuns, WorkerNext, Drain, DrainClosed, ChooseComplete, ChooseIncomplete, PutBack, OpenFile,
      OpenFails, WriteRow, Release, FreeReservation
  <2>2. InputAhead' = InputAhead /\ EnderAhead' = EnderAhead /\ endedAt' = endedAt /\ next' = next
    BY <1>0, <1>7, ElsewhereStep
  <2>3. Behind' = Behind /\ NextStart' = NextStart
    BY <2>1, <2>2 DEF Behind, NextStart
  <2> QED BY <2>1, <2>2, <2>3 DEF JackPosition
<1> QED BY <1>1, <1>2, <1>3, <1>4, <1>5, <1>6, <1>7, JackSteps

(* The worker's lists are empty when it waits, and it gives up only on a   *)
(* closed channel.                                                         *)
LEMMA JackWorkerStep ==
  ASSUME LifeInStep, OneUser, JackTypeOK, filling => input = "reading", WorkerInStep, JackNext
  PROVE  WorkerInStep'
<1>1. CASE SendsOn \/ RenewsNext \/ Reserves
  <2>1. UNCHANGED workerVars /\ closing' = closing
    BY <1>1, SendsStep, RenewsStep, ReservesStep
  <2> QED BY <2>1 DEF WorkerInStep, workerVars
<1>2. CASE InputPushes \/ InputFills \/ InputTests \/ EnderElsewhere \/ Interrupt
  <2>1. UNCHANGED workerVars /\ (closing' = closing \/ closing' = TRUE)
    BY <1>2 DEF InputPushes, PushRow, InputFills, FillAndStamp, InputTests, EnderElsewhere, Interrupt,
      Activate, ActivateFails, Connect, ConnectFails, Poll, CloseClient, Shutdown,
      StopClosesChannel, StopJoinsWorker, StopDeletesWorker, recorderVars
  <2> QED BY <2>1 DEF WorkerInStep, workerVars
<1>3. CASE WorkerRuns
  <2>1. closing' = closing /\ closing \in BOOLEAN /\ work \in BOOLEAN
    BY <1>3, WorkerAlone DEF JackTypeOK
  <2>2. CASE Drain \/ DrainClosed
    BY <2>1, <2>2 DEF WorkerInStep, Drain, DrainClosed
  <2>3. CASE PutBack
    BY <2>1, <2>3 DEF WorkerInStep, PutBack
  <2>4. CASE ChooseComplete \/ ChooseIncomplete \/ OpenFile \/ OpenFails \/ WriteRow \/ Release
    <3>1. worker # "draining" /\ worker' \notin {"draining", "done"} /\ work' = work
      BY <2>4 DEF ChooseComplete, ChooseIncomplete, OpenFile, OpenFails, WriteRow, Release
    <3> QED BY <2>1, <3>1 DEF WorkerInStep
  <2> QED BY <1>3, <2>2, <2>3, <2>4 DEF WorkerRuns, WorkerNext
<1> QED BY <1>1, <1>2, <1>3, JackSteps

-----------------------------------------------------------------------------
(* The steps on the snapshots outstanding.                                 *)

(* Each owns its reservation.                                              *)
LEMMA JackOwnsStep ==
  ASSUME LifeInStep, OneUser, OneUser', JackTypeOK, RingIInv, JackPosition, WorkerInStep, JackOwns, JackNext
  PROVE  JackOwns'
<1>0. (filling => input = "reading") /\ JackOutstanding \in Seq(Snapshots) /\ RingTypeOK
  BY JackPlaces DEF JackPosition, JackTypeOK
<1>1. Owns(JackOutstanding, held, reservations)
  BY DEF JackOwns
<1>2. CASE InputPushes
  <2>1. JackOutstanding' = JackOutstanding
    BY <1>0, <1>2, JackSame DEF Stays
  <2>2. Push
    BY <1>2 DEF InputPushes, PushRow
  <2>3. Owns(JackOutstanding, held', reservations')
    BY <1>0, <1>1, <2>2, OwnsMarked
  <2> QED BY <2>1, <2>3 DEF JackOwns
<1>3. CASE Stays /\ ~InputPushes
  <2>1. JackOutstanding' = JackOutstanding
    BY <1>0, <1>3, JackSame
  <2>2. held' = held /\ reservations' = reservations
    <3>1. CASE RenewsNext
      BY <1>0, <3>1, RenewsStep DEF ringVars
    <3>2. CASE InputFills \/ InputTests \/ EnderElsewhere \/ Interrupt
      BY <3>2 DEF InputFills, FillAndStamp, FillRow, InputTests, EnderElsewhere, Interrupt,
        Activate, ActivateFails, Connect, ConnectFails, Poll, CloseClient, Shutdown,
        StopClosesChannel, StopJoinsWorker, StopDeletesWorker, recorderVars, ringVars
    <3>3. CASE Drain \/ DrainClosed \/ PutBack \/ OpenFile \/ OpenFails \/ WriteRow
      BY <3>3 DEF Drain, DrainClosed, PutBack, OpenFile, OpenFails, WriteRow, ringVars
    <3> QED BY <1>3, <3>1, <3>2, <3>3 DEF Stays
  <2> QED BY <2>1, <2>2, <1>1 DEF JackOwns
<1>4. CASE Moves
  <2>1. Rearranged(JackOutstanding, JackOutstanding')
    BY <1>0, <1>4, JackMoved
  <2>2. held' = held /\ reservations' = reservations
    BY <1>4, SendsStep DEF Moves, ChooseComplete, ChooseIncomplete, ringVars
  <2>3. Owns(JackOutstanding', held, reservations)
    BY <2>1, <1>1, OwnsRearranged
  <2> QED BY <2>2, <2>3 DEF JackOwns
<1>5. CASE Reserves
  <2> DEFINE x == next'
  <2>1. /\ Reserve(next.start, LengthToWrite)
        /\ next' = [start |-> next.start, length |-> LengthToWrite,
                    reservation |-> ReservedHandle, name |-> next.name]
        /\ next' \in Snapshots
    BY <1>5, JackReserve
  <2>2. JackOutstanding' = <<next'>> \o JackOutstanding
    BY <1>5, <2>1, JackAdded
  <2>3. x \in Snapshots /\ x.reservation = ReservedHandle /\ Reserve(x.start, LengthToWrite)
    BY <2>1
  <2> HIDE DEF x
  <2>4. Owns(<<x>> \o JackOutstanding, held', reservations')
    BY <2>3, <1>0, <1>1, OwnsReserved
  <2> QED BY <2>2, <2>4 DEF JackOwns, x
<1>6. CASE WorkerRuns /\ Release
  BY <1>0, <1>6, JackCurrentHeld
<1> QED BY <1>2, <1>3, <1>4, <1>5, <1>6, JackKinds

(* Where the snapshots end: reserving and renewing count the rows of the   *)
(* next one once.                                                          *)
LEMMA UpToStep ==
  ASSUME LifeInStep, OneUser, OneUser', JackTypeOK, filling => input = "reading", JackNext
  PROVE  /\ ~Reserves => JackUpTo' = JackUpTo
         /\ Reserves => JackUpTo = next.start /\ JackUpTo' = NextStart'
<1>1. CASE Reserves
  <2>1. Pending = << >> /\ ~Sent /\ Pending' = <<next'>>
    BY <1>1, ReservesStep
  <2>2. Pending' # << >>
    BY <2>1
  <2> QED BY <1>1, <2>1, <2>2 DEF JackUpTo
<1>2. CASE SendsOn /\ ~Reserves
  <2>1. Pending = <<next>> /\ Sent' /\ next' = next
    BY <1>2, SendsStep
  <2>2. Pending # << >>
    BY <2>1
  <2> QED BY <1>2, <2>1, <2>2 DEF JackUpTo, NextStart
<1>3. CASE RenewsNext /\ ~Reserves
  <2>1. Sent /\ Pending' = << >> /\ ~Sent' /\ next' = NewSnapshot(NextStart)
    BY <1>3, RenewsStep
  <2> QED BY <1>3, <2>1 DEF JackUpTo, NewSnapshot
<1>4. CASE ~Reserves /\ ~SendsOn /\ ~RenewsNext
  <2>1. Pending' = Pending /\ Sent' = Sent /\ next' = next
    BY <1>4, JackSteps, ElsewhereStep
  <2> QED BY <1>4, <2>1 DEF JackUpTo, NextStart
<1> QED BY <1>1, <1>2, <1>3, <1>4

(* What is released: nothing but by Release.                               *)
LEMMA ReleasedStep ==
  ASSUME LifeInStep, OneUser, filling => input = "reading", JackNext, ~(WorkerRuns /\ Release)
  PROVE  released' = released
<1>1. CASE SendsOn \/ RenewsNext \/ Reserves
  <2>1. UNCHANGED historyVars
    BY <1>1, SendsStep, RenewsStep, ReservesStep
  <2> QED BY <2>1 DEF historyVars
<1>2. CASE InputPushes \/ InputFills \/ InputTests \/ EnderElsewhere \/ Interrupt
  BY <1>2 DEF InputPushes, PushRow, InputFills, FillAndStamp, InputTests, EnderElsewhere, Interrupt,
    Activate, ActivateFails, Connect, ConnectFails, Poll, CloseClient, Shutdown,
    StopClosesChannel, StopJoinsWorker, StopDeletesWorker, recorderVars, historyVars
<1>3. CASE WorkerRuns
  BY <1>3 DEF WorkerRuns, WorkerNext, Drain, DrainClosed, ChooseComplete, ChooseIncomplete, PutBack, OpenFile,
    OpenFails, WriteRow, historyVars
<1> QED BY <1>1, <1>2, <1>3, JackSteps

(* They divide the rows.                                                   *)
LEMMA JackTilesStep ==
  ASSUME LifeInStep, OneUser, OneUser', JackTypeOK, RingIInv, JackPosition, WorkerInStep, JackTiles, JackNext
  PROVE  JackTiles'
<1>0. (filling => input = "reading") /\ JackOutstanding \in Seq(Snapshots) /\ next.start \in Nat
  BY JackPlaces DEF JackPosition
<1>1. Tiled(Spans(JackOutstanding) \cup released, JackUpTo) /\ Distinct(JackOutstanding, released)
  BY DEF JackTiles
<1>2. CASE Stays /\ ~Reserves /\ ~(WorkerRuns /\ Release)
  <2>1. JackOutstanding' = JackOutstanding /\ released' = released /\ JackUpTo' = JackUpTo
    BY <1>0, <1>2, JackSame, ReleasedStep, UpToStep
  <2> QED BY <2>1, <1>1 DEF JackTiles
<1>3. CASE Moves /\ ~Reserves /\ ~(WorkerRuns /\ Release)
  <2>1. Rearranged(JackOutstanding, JackOutstanding')
    BY <1>0, <1>3, JackMoved
  <2>2. released' = released /\ JackUpTo' = JackUpTo
    BY <1>0, <1>3, ReleasedStep, UpToStep
  <2>3. Spans(JackOutstanding') = Spans(JackOutstanding) /\ Distinct(JackOutstanding', released)
    BY <2>1, <1>1, TilesRearranged
  <2> QED BY <2>2, <2>3, <1>1 DEF JackTiles
<1>4. CASE Reserves
  <2> DEFINE x == next'
  <2>1. /\ LengthToWrite \in 1 .. SnapshotRows
        /\ next' = [start |-> next.start, length |-> LengthToWrite,
                    reservation |-> ReservedHandle, name |-> next.name]
        /\ next' \in Snapshots
    BY <1>4, JackReserve
  <2>2. JackOutstanding' = <<next'>> \o JackOutstanding
    BY <1>4, <2>1, JackAdded
  <2>3. JackUpTo = next.start /\ JackUpTo' = next'.start + next'.length
    BY <1>0, <1>4, UpToStep DEF NextStart
  <2>4. released' = released
    BY <1>4, ReservesStep DEF historyVars
  <2>5. x \in Snapshots /\ x.start \in Nat /\ x.length \in Nat \ {0} /\ x.start = next.start
    BY <1>0, <2>1, CapacityAmple
  <2>6. JackUpTo' = x.start + x.length /\ JackOutstanding' = <<x>> \o JackOutstanding
    BY <2>2, <2>3
  <2> HIDE DEF x
  <2>7. /\ Tiled(Spans(<<x>> \o JackOutstanding) \cup released, x.start + x.length)
        /\ Distinct(<<x>> \o JackOutstanding, released)
    <3>1. Tiled(Spans(JackOutstanding) \cup released, x.start)
      BY <2>3, <2>5, <1>1
    <3> QED BY <2>5, <3>1, <1>0, <1>1, TiledReserved
  <2> QED BY <2>4, <2>6, <2>7 DEF JackTiles
<1>5. CASE WorkerRuns /\ Release /\ ~Reserves
  <2>1. JackOutstanding' \in Seq(Snapshots) /\ JackOutstanding = JackOutstanding' \o <<current>>
    BY <1>0, <1>5, JackRemoved
  <2>2. current \in Snapshots
    BY DEF JackTypeOK, PlacesHoldSnapshots
  <2>3. released' = released \cup {Span(current)} /\ JackUpTo' = JackUpTo
    BY <1>0, <1>5, UpToStep DEF Release, Span
  <2>4. /\ Tiled(Spans(JackOutstanding') \cup (released \cup {Span(current)}), JackUpTo)
        /\ Distinct(JackOutstanding', released \cup {Span(current)})
    BY <2>1, <2>2, <1>1, TiledReleased
  <2> QED BY <2>3, <2>4 DEF JackTiles
<1> QED BY <1>2, <1>3, <1>4, <1>5, JackKinds

-----------------------------------------------------------------------------
(* What is lost.                                                           *)

(* The elements of a sequence behind another.                              *)
LEMMA ElementsBehind ==
  ASSUME NEW s \in Seq(Snapshots), NEW t \in Seq(Snapshots)
  PROVE  ToSet(s) \subseteq ToSet(s \o t) /\ ToSet(t) \subseteq ToSet(s \o t) /\ ToSet(s \o t) \subseteq ToSet(s) \cup ToSet(t)
<1> DEFINE u == s \o t
<1>1. u \in Seq(Snapshots) /\ Len(s) \in Nat /\ Len(t) \in Nat
  OBVIOUS
<1>2. /\ Len(u) = Len(s) + Len(t)
      /\ \A i \in 1 .. Len(s) : u[i] = s[i]
      /\ \A i \in 1 .. Len(t) : u[i + Len(s)] = t[i]
  OBVIOUS
<1>3. /\ ToSet(s) = {s[i] : i \in 1 .. Len(s)}
      /\ ToSet(t) = {t[i] : i \in 1 .. Len(t)}
  BY DEF ToSet
<1> HIDE DEF u
<1>4. ToSet(u) = {u[i] : i \in 1 .. Len(u)}
  BY <1>1 DEF ToSet
<1>5. ASSUME NEW i \in 1 .. Len(s) PROVE s[i] \in ToSet(u)
  <2>1. i \in 1 .. Len(u) /\ u[i] = s[i]
    BY <1>1, <1>2
  <2> QED BY <2>1, <1>4
<1>6. ASSUME NEW i \in 1 .. Len(t) PROVE t[i] \in ToSet(u)
  <2>1. i + Len(s) \in 1 .. Len(u) /\ u[i + Len(s)] = t[i]
    BY <1>1, <1>2
  <2> QED BY <2>1, <1>4
<1>7. ASSUME NEW i \in 1 .. Len(u) PROVE u[i] \in ToSet(s) \cup ToSet(t)
  <2>1. CASE i <= Len(s)
    BY <2>1, <1>1, <1>2, <1>3
  <2>2. CASE i > Len(s)
    <3>1. i - Len(s) \in 1 .. Len(t) /\ (i - Len(s)) + Len(s) = i
      BY <2>2, <1>1, <1>2
    <3> QED BY <3>1, <1>2, <1>3
  <2> QED BY <2>1, <2>2, <1>1
<1> QED BY <1>3, <1>4, <1>5, <1>6, <1>7 DEF u

(* One more at the end is one more element.                                *)
LEMMA AppendedElement ==
  ASSUME NEW s \in Seq(Snapshots), NEW x \in Snapshots
  PROVE  ToSet(Append(s, x)) \subseteq ToSet(s) \cup {x}
<1>1. <<x>> \in Seq(Snapshots) /\ Append(s, x) = s \o <<x>>
  OBVIOUS
<1>2. ToSet(<<x>>) = {x}
  BY DEF ToSet
<1> QED BY <1>1, <1>2, ElementsBehind

(* What has been drained is outstanding.                                   *)
LEMMA ReceivedOutstanding ==
  ASSUME JackTypeOK
  PROVE  ToSet(received) \subseteq ToSet(JackOutstanding)
<1>1. PlacesHoldSnapshots /\ Pending \in Seq(Snapshots)
  BY JackPlaces
<1>2. received \in Seq(Snapshots) /\ incomplete \in Seq(Snapshots) /\ queue \in Seq(Snapshots)
  BY <1>1 DEF PlacesHoldSnapshots
<1>3. InHand \in Seq(Snapshots)
  BY <1>1, LineTyped
<1> DEFINE a == Pending \o queue
           b == a \o received
           c == b \o incomplete
           d == c \o InHand
<1>4. a \in Seq(Snapshots)
  BY <1>1, <1>2
<1> HIDE DEF a
<1>5. b \in Seq(Snapshots) /\ ToSet(received) \subseteq ToSet(b)
  BY <1>2, <1>4, ElementsBehind
<1> HIDE DEF b
<1>6. c \in Seq(Snapshots) /\ ToSet(b) \subseteq ToSet(c)
  BY <1>2, <1>5, ElementsBehind
<1> HIDE DEF c
<1>7. ToSet(c) \subseteq ToSet(d)
  BY <1>3, <1>6, ElementsBehind
<1>8. JackOutstanding = d
  BY JackLine, Zenon DEF Line, a, b, c, d
<1> QED BY <1>5, <1>6, <1>7, <1>8

(* A snapshot outstanding, as the tiling has it.                           *)
LEMMA JackElementTyped ==
  ASSUME JackTypeOK, JackTiles, NEW s \in ToSet(JackOutstanding)
  PROVE  /\ s \in Snapshots /\ s.start \in Nat /\ s.length \in Nat \ {0}
         /\ s.start + s.length <= JackUpTo
<1>1. JackOutstanding \in Seq(Snapshots)
  BY JackPlaces
<1>2. PICK i \in 1 .. Len(JackOutstanding) : s = JackOutstanding[i]
  BY <1>1 DEF ToSet
<1>3. s \in Snapshots
  BY <1>1, <1>2
<1>4. Span(s) \in Spans(JackOutstanding)
  BY <1>2 DEF Spans
<1>5. /\ Spans(JackOutstanding) \subseteq [start : Nat, length : Nat \ {0}]
      /\ \A t \in Spans(JackOutstanding) : t.start + t.length <= JackUpTo
  BY DEF JackTiles, Tiled
<1>6. Span(s) \in [start : Nat, length : Nat \ {0}] /\ Span(s).start + Span(s).length <= JackUpTo
  BY <1>4, <1>5
<1> QED BY <1>3, <1>6 DEF Span

(* The end of the stream is noted once, by a step that renews.             *)
LEMMA EndedStep ==
  ASSUME LifeInStep, OneUser, OneUser', JackTypeOK, JackPosition, JackNext
  PROVE  /\ endedAt # -1 => endedAt' = endedAt
         /\ ~RenewsNext => endedAt' = endedAt
         /\ \A s : Early(s, endedAt') => Early(s, endedAt)
<1>0. (filling => input = "reading") /\ next.start \in Nat
  BY DEF JackPosition
<1>1. CASE RenewsNext
  <2>1. endedAt' = endedAt \/ endedAt' = IF endedAt = -1 THEN CutAt ELSE endedAt
    BY <1>0, <1>1, RenewsStep
  <2> QED BY <1>1, <2>1 DEF Early
<1>2. CASE ~RenewsNext
  <2>1. endedAt' = endedAt
    BY <1>0, <1>2, JackSteps, ReservesStep, SendsStep, ElsewhereStep
  <2> QED BY <1>2, <2>1 DEF Early
<1> QED BY <1>1, <1>2

(* The mark moves at a push alone.                                         *)
LEMMA PushedStep ==
  ASSUME LifeInStep, OneUser, JackTypeOK, RingIInv, JackPosition, JackNext
  PROVE  IF InputPushes THEN pushed' = pushed + 1 /\ ~filling /\ filling' /\ input = "reading" /\ input' = "reading"
                        ELSE pushed' = pushed
<1>0. filling => input = "reading"
  BY DEF JackPosition
<1>1. CASE InputPushes
  BY <1>1 DEF InputPushes, PushRow, Push, inputVars
<1>2. CASE Reserves /\ ~InputPushes
  BY <1>2, JackReserve
<1>3. CASE (SendsOn \/ RenewsNext) /\ ~InputPushes
  BY <1>0, <1>3, SendsStep, RenewsStep DEF ringVars
<1>4. CASE (InputFills \/ InputTests \/ EnderElsewhere \/ Interrupt) /\ ~InputPushes
  BY <1>4 DEF InputFills, FillAndStamp, FillRow, InputTests, EnderElsewhere, Interrupt,
    Activate, ActivateFails, Connect, ConnectFails, Poll, CloseClient, Shutdown,
    StopClosesChannel, StopJoinsWorker, StopDeletesWorker, recorderVars, ringVars
<1>5. CASE WorkerRuns /\ ~InputPushes
  BY <1>5 DEF WorkerRuns, WorkerNext, Drain, DrainClosed, ChooseComplete, ChooseIncomplete, PutBack, OpenFile,
    OpenFails, WriteRow, Release, FreeReservation, ringVars
<1> QED BY <1>1, <1>2, <1>3, <1>4, <1>5, JackSteps

(* The rows of the early ones are there.                                   *)
LEMMA EarlyStep ==
  ASSUME LifeInStep, OneUser, OneUser', JackTypeOK, JackTypeOK', RingIInv, JackPosition, WorkerInStep, JackTiles,
         EarlyInTime, LateLeft, JackNext
  PROVE  EarlyInTime'
<1>0. /\ (filling => input = "reading") /\ JackOutstanding \in Seq(Snapshots)
      /\ pushed \in Nat /\ next.start \in Nat /\ SnapshotRows \in Nat /\ endedAt \in Nat \cup {-1}
      /\ \A s : Early(s, endedAt') => Early(s, endedAt)
  BY JackPlaces, CapacityAmple, EndedStep DEF JackPosition, JackTypeOK, RingTypeOK
<1>1. CASE InputPushes
  <2>1. JackOutstanding' = JackOutstanding
    BY <1>0, <1>1, JackSame DEF Stays
  <2>2. pushed' = pushed + 1 /\ ~filling /\ filling' /\ input = "reading" /\ input' = "reading"
    BY <1>1, PushedStep
  <2>3. ASSUME NEW s \in ToSet(JackOutstanding), Early(s, endedAt)
        PROVE  s.start + s.length <= pushed'
    <3>1. s.start \in Nat /\ s.length \in Nat \ {0} /\ s.start + s.length <= JackUpTo
      BY JackElementTyped
    <3>2. CASE s.start + s.length <= pushed
      BY <3>1, <3>2, <2>2, <1>0
    <3>3. CASE pushed = 0 /\ s.start = 0
      <4>1. endedAt = -1
        <5>1. endedAt <= 0
          BY <3>3 DEF LateLeft
        <5>2. endedAt = -1 \/ 0 < endedAt
          BY <2>3, <3>3 DEF Early
        <5> QED BY <5>1, <5>2, <1>0
      <4>2. next.start = 0
        <5>1. Behind >= 0
          BY <4>1 DEF JackPosition
        <5> QED BY <5>1, <3>3, <1>0 DEF Behind
      <4>3. JackUpTo = next.start
        <5>1. /\ \A e \in Enders : at'[e] \notin UsesNext
          BY <2>2 DEF OneUser
        <5>2. ~InputAhead' /\ ~EnderAhead' /\ Pending' = << >> /\ ~Sent'
          BY <5>1, <2>2 DEF EnderAhead, InputAhead, Pending, Sent, UsesNext
        <5>3. Pending = << >> /\ ~Sent
          BY <5>2, <1>0, <1>1, ElsewhereStep
        <5> QED BY <5>3 DEF JackUpTo
      <4> QED BY <3>1, <4>2, <4>3
    <3> QED BY <3>2, <3>3, <2>3 DEF EarlyInTime
  <2> QED BY <2>1, <2>3, <1>0 DEF EarlyInTime
<1>2. CASE Stays /\ ~InputPushes
  <2>1. JackOutstanding' = JackOutstanding
    BY <1>0, <1>2, JackSame
  <2>2. pushed' = pushed
    BY <1>2, PushedStep
  <2> QED BY <2>1, <2>2, <1>0 DEF EarlyInTime
<1>3. CASE Moves /\ ~InputPushes
  <2>1. Rearranged(JackOutstanding, JackOutstanding')
    BY <1>0, <1>3, JackMoved
  <2>2. (JackOutstanding \in Seq(Snapshots))'
    BY JackPlaces, PTL
  <2>3. ToSet(JackOutstanding') = ToSet(JackOutstanding)
    BY <1>0, <2>1, <2>2, RearrangedElements
  <2>4. pushed' = pushed
    BY <1>3, PushedStep
  <2> QED BY <2>3, <2>4, <1>0 DEF EarlyInTime
<1>4. CASE Reserves
  <2>1. /\ LengthToWrite \in 1 .. SnapshotRows
        /\ Behind \in 0 .. Capacity - 1 =>
             LengthToWrite = IF Behind \in 1 .. SnapshotRows THEN Behind ELSE SnapshotRows
        /\ next' = [start |-> next.start, length |-> LengthToWrite,
                    reservation |-> ReservedHandle, name |-> next.name]
        /\ next' \in Snapshots
        /\ pushed' = pushed
    BY <1>4, JackReserve
  <2>2. JackOutstanding' = <<next'>> \o JackOutstanding
    BY <1>4, <2>1, JackAdded
  <2>3. ToSet(JackOutstanding') = ToSet(JackOutstanding) \cup {next'}
    BY <2>1, <2>2, <1>0, AddedElement
  <2>4. endedAt' = endedAt
    BY <1>4, ReservesStep
  <2>5. next'.start = next.start /\ next'.length = LengthToWrite
    BY <2>1
  <2>6. next'.length <= SnapshotRows
    BY <2>1, <2>5, <1>0
  <2>7. ASSUME Early(next', endedAt')
        PROVE  next'.start + next'.length <= pushed' \/ (pushed' = 0 /\ next'.start = 0)
    <3>1. endedAt = -1
      <4>1. endedAt <= next.start
        BY DEF LateLeft
      <4>2. endedAt = -1 \/ next.start < endedAt
        BY <2>4, <2>5, <2>7 DEF Early
      <4> QED BY <4>1, <4>2, <1>0
    <3>2. Behind >= 0 /\ (Behind = 0 => pushed = 0) /\ Behind = pushed - next.start
      BY <3>1 DEF JackPosition, Behind
    <3>3. Behind \in 0 .. Capacity - 1
      <4>1. Behind <= SnapshotRows + 2
        BY <1>0, <3>2 DEF JackPosition
      <4> QED BY <4>1, <3>2, <1>0, CapacityAmple
    <3> QED BY <3>2, <3>3, <2>1, <2>5, <1>0
  <2> QED BY <2>1, <2>3, <2>6, <2>7, <1>0 DEF EarlyInTime
<1>5. CASE WorkerRuns /\ Release /\ ~InputPushes
  <2>1. JackOutstanding' \in Seq(Snapshots) /\ JackOutstanding = JackOutstanding' \o <<current>>
    BY <1>0, <1>5, JackRemoved
  <2>2. current \in Snapshots
    BY DEF JackTypeOK, PlacesHoldSnapshots
  <2>3. ToSet(JackOutstanding') \subseteq ToSet(JackOutstanding)
    BY <2>1, <2>2, RemovedElement
  <2>4. pushed' = pushed
    BY <1>5, PushedStep
  <2> QED BY <2>3, <2>4, <1>0 DEF EarlyInTime
<1> QED BY <1>1, <1>2, <1>3, <1>4, <1>5, JackKinds

(* A snapshot of early rows is complete when the worker looks at it,       *)
(* unless the mark has come round the buffer.                              *)
LEMMA EarlyComplete ==
  ASSUME JackTypeOK, RingIInv, JackTiles, EarlyInTime, pushed < Capacity,
         NEW s \in ToSet(JackOutstanding), Early(s, endedAt)
  PROVE  Complete(s)
<1> DEFINE wanted == SizeFrom(s.start)
<1>1. s.start \in Nat /\ s.length \in Nat \ {0} /\ pushed \in Nat /\ SnapshotRows \in Nat /\ Capacity \in Nat
      /\ SnapshotRows < Capacity
  BY JackElementTyped, CapacityAmple DEF JackTypeOK, RingTypeOK
<1>2. s.length <= SnapshotRows /\ (s.start + s.length <= pushed \/ (pushed = 0 /\ s.start = 0))
  BY DEF EarlyInTime
<1>3. pushed - s.start \in 0 .. Capacity - 1
  BY <1>1, <1>2
<1>4. wanted = IF pushed = s.start THEN Capacity ELSE pushed - s.start
  BY <1>1, <1>3, SizeFromStart DEF RingIInv
<1>5. Complete(s) <=> wanted >= s.length
  BY DEF Complete
<1> HIDE DEF wanted
<1> QED BY <1>1, <1>2, <1>4, <1>5

(* What is left behind is of rows recorded after the end.                  *)
LEMMA LateStep ==
  ASSUME LifeInStep, OneUser, OneUser', JackTypeOK, RingIInv, JackPosition, WorkerInStep, JackTiles,
         EarlyInTime, LateLeft, JackNext
  PROVE  LateLeft'
<1>0. /\ filling => input = "reading"
      /\ pushed \in Nat /\ next.start \in Nat /\ endedAt \in Nat \cup {-1} /\ Capacity \in Nat
      /\ \A s : Early(s, endedAt') => Early(s, endedAt)
  BY CapacityAmple, EndedStep DEF JackPosition, JackTypeOK, RingTypeOK
<1>1. NextStart \in Nat /\ next.start <= NextStart /\ CutAt \in Nat /\ CutAt <= NextStart /\ CutAt <= pushed
  BY <1>0, CutTyped
<1>2. closing' \/ (\E e \in Enders : at'[e] = "closing") => endedAt' # -1
  <2>1. CASE RenewsNext
    <3>1. closing' = closing
      BY <1>0, <2>1, RenewsStep
    <3>2. CASE endedAt' = -1
      <4>1. at' = at /\ endedAt = -1
        BY <1>0, <1>1, <2>1, <3>2, RenewsStep
      <4> QED BY <3>1, <4>1 DEF LateLeft
    <3> QED BY <3>2
  <2>2. CASE ~RenewsNext
    <3>1. endedAt' = endedAt
      BY <2>2, EndedStep
    <3>2. \A e \in Enders : at'[e] = "closing" => at[e] = "closing"
      <4>1. CASE SendsOn \/ Reserves
        BY <4>1, SendsStep, ReservesStep
      <4>2. CASE ~SendsOn /\ ~Reserves
        BY <1>0, <2>2, <4>2, JackSteps, ElsewhereStep
      <4> QED BY <4>1, <4>2
    <3>3. closing' => closing \/ \E e \in Enders : at[e] = "closing"
      <4>1. CASE SendsOn \/ Reserves
        BY <4>1, SendsStep, ReservesStep
      <4>2. CASE WorkerRuns
        BY <4>2, WorkerAlone
      <4>3. CASE InputPushes \/ InputFills \/ InputTests \/ Interrupt
        BY <4>3 DEF InputPushes, PushRow, InputFills, FillAndStamp, InputTests, Interrupt, recorderVars
      <4>4. CASE EnderElsewhere
        BY <4>4 DEF EnderElsewhere, Activate, ActivateFails, Connect, ConnectFails, Poll, CloseClient, Shutdown,
          StopClosesChannel, StopJoinsWorker, StopDeletesWorker, Goes, recorderVars
      <4> QED BY <2>2, <4>1, <4>2, <4>3, <4>4, JackSteps
    <3> QED BY <3>1, <3>2, <3>3 DEF LateLeft
  <2> QED BY <2>1, <2>2
<1>3. endedAt' <= next'.start /\ endedAt' <= pushed'
  <2>1. pushed <= pushed' /\ pushed' \in Nat
    BY <1>0, PushedStep
  <2>2. endedAt <= next.start /\ endedAt <= pushed
    BY DEF LateLeft
  <2>3. CASE RenewsNext
    <3>1. next'.start = NextStart /\ (endedAt' = endedAt \/ endedAt' = IF endedAt = -1 THEN CutAt ELSE endedAt)
      BY <1>0, <2>3, RenewsStep DEF NewSnapshot
    <3> QED BY <1>0, <1>1, <2>1, <2>2, <3>1
  <2>4. CASE ~RenewsNext
    <3>1. endedAt' = endedAt
      BY <2>4, EndedStep
    <3>2. next'.start = next.start
      <4>1. CASE Reserves
        BY <4>1, JackReserve
      <4>2. CASE ~Reserves
        BY <1>0, <2>4, <4>2, JackSteps, SendsStep, ElsewhereStep
      <4> QED BY <4>1, <4>2
    <3> QED BY <1>0, <2>1, <2>2, <3>1, <3>2
  <2> QED BY <2>3, <2>4
<1>4. ASSUME pushed' < Capacity
      PROVE  /\ \A s \in ToSet(incomplete') : ~Early(s, endedAt')
             /\ ~work' => \A s \in ToSet(queue') : ~Early(s, endedAt')
  <2>1. pushed < Capacity
    BY <1>0, <1>4, PushedStep
  <2>2. /\ \A s \in ToSet(incomplete) : ~Early(s, endedAt')
        /\ ~work => \A s \in ToSet(queue) : ~Early(s, endedAt')
    BY <1>0, <2>1 DEF LateLeft
  <2>3. queue \in Seq(Snapshots) /\ incomplete \in Seq(Snapshots) /\ received \in Seq(Snapshots) /\ next \in Snapshots
    BY DEF JackTypeOK, PlacesHoldSnapshots
  <2>4. CASE InputPushes \/ InputFills \/ InputTests \/ EnderElsewhere \/ Interrupt
    <3>1. queue' = queue /\ UNCHANGED workerVars
      BY <2>4 DEF InputPushes, PushRow, InputFills, FillAndStamp, InputTests, EnderElsewhere, Interrupt,
        Activate, ActivateFails, Connect, ConnectFails, Poll, CloseClient, Shutdown,
        StopClosesChannel, StopJoinsWorker, StopDeletesWorker, recorderVars
    <3> QED BY <2>2, <3>1 DEF workerVars
  <2>5. CASE RenewsNext \/ Reserves
    <3>1. queue' = queue /\ UNCHANGED workerVars
      BY <1>0, <2>5, RenewsStep, ReservesStep
    <3> QED BY <2>2, <3>1 DEF workerVars
  <2>6. CASE SendsOn
    <3>1. queue' = Append(queue, next) /\ UNCHANGED workerVars /\ endedAt' = endedAt
      BY <2>6, SendsStep
    <3>2. ~work => ~Early(next, endedAt')
      <4>1. ~work => endedAt # -1
        BY DEF WorkerInStep, LateLeft
      <4>2. endedAt <= next.start
        BY DEF LateLeft
      <4>3. next' = next
        BY <2>6, SendsStep
      <4> QED BY <1>0, <3>1, <4>1, <4>2, <4>3 DEF Early
    <3>3. ToSet(queue') \subseteq ToSet(queue) \cup {next}
      BY <2>3, <3>1, AppendedElement
    <3> QED BY <2>2, <3>1, <3>2, <3>3 DEF workerVars
  <2>7. CASE WorkerRuns /\ ChooseIncomplete
    <3> DEFINE x == Head(received)
    <3>1. received # << >> /\ ~Complete(x) /\ incomplete' = Append(incomplete, x) /\ queue' = queue /\ work' = work
      BY <2>7 DEF ChooseIncomplete
    <3>2. x \in ToSet(received) /\ x \in Snapshots
      <4>1. 1 \in DOMAIN received /\ x = received[1] /\ x \in Snapshots
        BY <2>3, <3>1
      <4> QED BY <4>1 DEF ToSet
    <3> HIDE DEF x
    <3>3. ~Early(x, endedAt)
      BY <2>1, <3>1, <3>2, ReceivedOutstanding, EarlyComplete
    <3>4. ToSet(incomplete') \subseteq ToSet(incomplete) \cup {x}
      BY <2>3, <3>1, <3>2, AppendedElement
    <3>5. endedAt' = endedAt
      BY <2>7, WorkerAlone
    <3>6. ~(endedAt' = -1 \/ x.start < endedAt')
      BY <3>3, <3>5 DEF Early
    <3>7. ASSUME NEW s \in ToSet(incomplete') PROVE ~(endedAt' = -1 \/ s.start < endedAt')
      BY <2>2, <3>4, <3>6 DEF Early
    <3> QED BY <2>2, <3>1, <3>7 DEF Early
  <2>8. CASE WorkerRuns /\ PutBack
    <3>1. queue' = queue \o incomplete /\ incomplete' = << >> /\ work' = work
      BY <2>8 DEF PutBack, QueueAfterPutBack
    <3>2. ToSet(queue') \subseteq ToSet(queue) \cup ToSet(incomplete) /\ ToSet(incomplete') = {}
      BY <2>3, <3>1, ElementsBehind DEF ToSet
    <3> QED BY <2>2, <3>1, <3>2
  <2>9. CASE WorkerRuns /\ (Drain \/ DrainClosed)
    <3>1. queue' = << >> /\ incomplete' = incomplete
      BY <2>9 DEF Drain, DrainClosed
    <3>2. ToSet(queue') = {}
      BY <3>1 DEF ToSet
    <3> QED BY <2>2, <3>1, <3>2
  <2>10. CASE WorkerRuns /\ (ChooseComplete \/ OpenFile \/ OpenFails \/ WriteRow \/ Release)
    <3>1. queue' = queue /\ incomplete' = incomplete /\ work' = work
      BY <2>10 DEF ChooseComplete, OpenFile, OpenFails, WriteRow, Release
    <3> QED BY <2>2, <3>1
  <2> QED BY <2>4, <2>5, <2>6, <2>7, <2>8, <2>9, <2>10, JackSteps DEF WorkerRuns, WorkerNext
<1> QED BY <1>2, <1>3, <1>4 DEF LateLeft

-----------------------------------------------------------------------------
(* The invariant.                                                          *)

(* When the callbacks have been registered nothing is recorded.            *)
LEMMA JackInitInvariant == JackInit => JackIInv
<1> SUFFICES ASSUME JackInit PROVE JackIInv
  OBVIOUS
<1> USE DEF JackInit, RecorderInit
<1>1. RingIInv /\ RingTypeOK
  BY InitInvariant DEF RingIInv
<1>2. pushed = 0 /\ filling = FALSE /\ reservations = << >> /\ held = << >>
  BY DEF RingInit
<1>3. LifeInStep
  BY DEF LifeInStep, Enders, Places, InStop, UndefinedOnlyByBoth
<1>4. JackTypeOK
  <2>1. rawHandles \in [Indices -> Int] /\ NoSnapshot \in Snapshots
    BY DEF NoTime, NoSnapshot, Snapshots
  <2>2. queue \in Seq(Snapshots) /\ received \in Seq(Snapshots) /\ incomplete \in Seq(Snapshots)
    OBVIOUS
  <2>3. PlacesHoldSnapshots /\ next \in Snapshots
    BY <2>1, <2>2 DEF PlacesHoldSnapshots
  <2>4. input \in Inputs /\ endedAt \in Nat \cup {-1}
    BY DEF Inputs
  <2> QED BY <1>1, <2>1, <2>3, <2>4 DEF JackTypeOK
<1>5. ~EnderAhead /\ ~InputAhead /\ Pending = << >> /\ ~Sent
  BY DEF EnderAhead, InputAhead, Pending, Sent, Enders
<1>6. OneUser
  BY DEF OneUser, Enders, UsesNext
<1>7. JackPosition
  BY <1>2, <1>5, CapacityAmple DEF JackPosition, Behind, NoSnapshot
<1>8. WorkerInStep
  BY DEF WorkerInStep
<1>9. JackOutstanding = << >>
  <2>1. InHand = << >>
    BY DEF InHand
  <2>2. JackOutstanding = (((<< >> \o << >>) \o << >>) \o << >>) \o << >>
    BY <1>5, <2>1, JackLine, Zenon DEF Line
  <2> QED BY <2>2
<1>10. JackOwns
  BY <1>2, <1>9 DEF JackOwns, Owns
<1>11. JackTiles
  BY <1>5, <1>9 DEF JackTiles, Tiled, Distinct, Spans, JackUpTo, NoSnapshot
<1>12. EarlyInTime
  BY <1>9 DEF EarlyInTime, ToSet
<1>13. LateLeft
  BY <1>2 DEF LateLeft, ToSet, Enders, NoSnapshot
<1> QED BY <1>1, <1>3, <1>4, <1>6, <1>7, <1>8, <1>10, <1>11, <1>12, <1>13 DEF JackIInv, Undisturbed

(* Each step keeps the invariant; the order is that of the dependencies.   *)
LEMMA JackStepInvariant == JackIInv /\ [JackNext]_jackVars => JackIInv'
<1> SUFFICES ASSUME JackIInv, [JackNext]_jackVars PROVE JackIInv'
  OBVIOUS
<1>1. CASE JackNext
  <2>1. LifeInStep /\ LifeInStep'
    BY <1>1, LifeStep DEF JackIInv
  <2>2. ASSUME ~overlapped' PROVE Undisturbed'
    <3>1. Undisturbed /\ OneUser'
      BY <1>1, <2>2, StillOneUser DEF JackIInv
    <3> USE <1>1, <2>1, <3>1 DEF Undisturbed
    <3>2. filling => input = "reading"
      BY DEF JackPosition
    <3>3. RingIInv'
      BY JackRingStep
    <3>4. JackTypeOK'
      BY <3>3, JackTypeStep
    <3>5. JackPosition' /\ WorkerInStep' /\ JackOwns' /\ JackTiles'
      BY <3>2, <3>4, JackPositionStep, JackWorkerStep, JackOwnsStep, JackTilesStep
    <3>6. EarlyInTime' /\ LateLeft'
      BY <3>4, EarlyStep, LateStep
    <3> QED BY <3>3, <3>4, <3>5, <3>6
  <2> QED BY <2>1, <2>2 DEF JackIInv
<1>2. CASE UNCHANGED jackVars
  <2>1. UNCHANGED <<ringVars, inputVars, queue, closing, workerVars, historyVars, lifeVars, overlapped>>
    BY <1>2 DEF jackVars, recorderVars
  <2>2. RingIInv => RingIInv'
    BY <2>1, StepInvariant
  <2> USE <2>1 DEF ringVars, inputVars, workerVars, historyVars, lifeVars
  <2>3. LifeInStep'
    BY DEF JackIInv, LifeInStep, UndefinedOnlyByBoth
  <2>4. Pending' = Pending /\ Sent' = Sent /\ NextStart' = NextStart /\ InputAhead' = InputAhead /\ EnderAhead' = EnderAhead
        /\ InHand' = InHand
    BY DEF Pending, Sent, NextStart, InputAhead, EnderAhead, InHand
  <2>5. JackOutstanding' = JackOutstanding /\ JackUpTo' = JackUpTo
    BY <2>4, JackLine DEF JackUpTo
  <2>6. JackTypeOK => JackTypeOK'
    BY DEF JackTypeOK, PlacesHoldSnapshots, RingTypeOK
  <2>7. (OneUser => OneUser') /\ (WorkerInStep => WorkerInStep') /\ (JackOwns => JackOwns') /\ (JackTiles => JackTiles')
    BY <2>5 DEF OneUser, WorkerInStep, JackOwns, JackTiles
  <2>8. JackPosition => JackPosition'
    BY <2>4 DEF JackPosition, Behind
  <2>9. (EarlyInTime => EarlyInTime') /\ (LateLeft => LateLeft')
    BY <2>5 DEF EarlyInTime, LateLeft, Early
  <2>10. (~overlapped => Undisturbed) => (~overlapped' => Undisturbed')
    BY <2>2, <2>6, <2>7, <2>8, <2>9 DEF Undisturbed
  <2> QED BY <2>3, <2>10 DEF JackIInv
<1> QED BY <1>1, <1>2

(* The invariant holds of every run.                                       *)
THEOREM JackInvariant == JackSpec => []JackIInv
  BY JackInitInvariant, JackStepInvariant, PTL DEF JackSpec

(* However often and whenever the stream is ended under the callback, each *)
(* outstanding snapshot holds a reservation of its own and the snapshots   *)
(* divide the rows, unless two threads were in startWriting() at once      *)
(* (endStream() from run() and onJackShutdown(), JackFrontend.cpp:79 and   *)
(* 166; WaterfallBackend.cpp:107-127, 400-412).                            *)
THEOREM OrderlyUntilOverlapped == JackSpec => []OrderlyUnlessOverlapped
<1>1. ASSUME JackIInv, ~overlapped
      PROVE  /\ OwnReservations(OutstandingWith(Pending))
             /\ TileUpTo(OutstandingWith(Pending), IF Pending # << >> \/ Sent THEN NextStart ELSE next.start)
  <2>1. JackTypeOK /\ JackPosition /\ JackOwns /\ JackTiles
    BY <1>1 DEF JackIInv, Undisturbed
  <2>2. OwnReservations(JackOutstanding)
    BY <2>1 DEF JackOwns, Owns, OwnReservations
  <2>3. JackUpTo \in Nat
    BY <2>1, CutTyped DEF JackUpTo, JackPosition
  <2>4. TileUpTo(JackOutstanding, JackUpTo)
    BY <2>1, <2>3, JackPlaces, TiledTiles DEF JackTiles
  <2> QED BY <2>2, <2>4, Zenon DEF JackOutstanding, JackUpTo
<1>2. JackIInv => OrderlyUnlessOverlapped
  BY <1>1 DEF OrderlyUnlessOverlapped
<1> QED BY <1>2, JackInvariant, PTL

(* What the worker leaves in the channel begins after the end of the       *)
(* stream: everything recorded before is written (threadMethod() and       *)
(* stop(), WaterfallBackend.cpp:60-104 and 400-412).                       *)
THEOREM OnlyLateRowsLeft == JackSpec => []OnlyLateRowsAreLost
<1>1. ASSUME JackIInv, worker = "done", ~overlapped, pushed < Capacity, NEW i \in DOMAIN queue
      PROVE  queue[i].start >= endedAt
  <2>1. JackTypeOK /\ WorkerInStep /\ LateLeft
    BY <1>1 DEF JackIInv, Undisturbed
  <2>2. ~work
    BY <1>1, <2>1 DEF WorkerInStep
  <2>3. queue[i] \in ToSet(queue) /\ queue[i] \in Snapshots
    BY <1>1, <2>1 DEF ToSet, JackTypeOK, PlacesHoldSnapshots
  <2>4. ~Early(queue[i], endedAt)
    BY <1>1, <2>1, <2>2, <2>3 DEF LateLeft
  <2>5. ~(queue[i].start < endedAt) /\ queue[i].start \in Int /\ endedAt \in Int
    BY <2>1, <2>3, <2>4 DEF Early, Snapshots, JackTypeOK
  <2> QED BY <2>5
<1>2. JackIInv => OnlyLateRowsAreLost
  BY <1>1 DEF OnlyLateRowsAreLost
<1> QED BY <1>2, JackInvariant, PTL

(* A thread is joined twice, or when it has been deleted, only when JACK   *)
(* has shut down and run() has been stopped as well (stop(),               *)
(* WaterfallBackend.cpp:409-411).  This holds of every run, overlapped or  *)
(* not.                                                                    *)
THEOREM UndefinedNeedsBoth == JackSpec => []UndefinedOnlyByBoth
<1>1. JackIInv => UndefinedOnlyByBoth
  BY DEF JackIInv, LifeInStep
<1> QED BY <1>1, JackInvariant, PTL
=============================================================================
