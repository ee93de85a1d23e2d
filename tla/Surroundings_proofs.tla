------------------------- MODULE Surroundings_proofs -------------------------
(***************************************************************************)
(* What is proved of the parts around the recorders.                       *)
(*                                                                         *)
(* The channel, for any set of messages and any number of sends: it is a   *)
(* queue, the worker never sleeps on messages, and what was sent before    *)
(* close() is drained before the worker leaves.  That the worker leaves at *)
(* all is not provable: TLC shows that it need not.                        *)
(*                                                                         *)
(* The program around a WAVStream, for any file of the form it reads, any  *)
(* buffer, any agents and any number of signals: the backend gets the      *)
(* file's frames, and no signal handler outlives its callback.             *)
(*                                                                         *)
(* SnapshotFile, for any rate, number of bins, overlap and bands, and any  *)
(* errors of the library: what is in a file, what its columns are called,  *)
(* and which bins are read of a row.                                       *)
(***************************************************************************)
EXTENDS Channel, Application, SnapshotFile, SequencesExt,
        WellFoundedInduction, FiniteSetTheorems, SequenceTheorems, TLAPS

-----------------------------------------------------------------------------
(* The channel between the recorders.                                      *)

(* Only the worker keeps the mutex between two steps, and it is counted as *)
(* waiting from before it lets go of the mutex until it has it again.      *)
LockDiscipline ==
  /\ locked <=> worker \in {"looping", "deciding"}
  /\ waiting = IF worker \in {"deciding", "asleep", "woken"} THEN 1 ELSE 0

(* Everything sent has been drained or is in the buffer, and drain() only  *)
(* returns false with nothing left that was sent before close().           *)
Accounting ==
  /\ Len(drained) + Len(buffer) = Len(sent)
  /\ closing <=> closer # "running"
  /\ closedAt <= Len(sent)
  /\ ~work => closing /\ Len(drained) >= closedAt
  /\ worker = "done" => ~work

ChannelIInv ==
  /\ ChannelTypeOK
  /\ LockDiscipline
  /\ Accounting
  /\ NoSleepOverMessages

LEMMA ChannelInitInvariant == ChannelInit => ChannelIInv
<1> SUFFICES ASSUME ChannelInit PROVE ChannelIInv
  OBVIOUS
<1>1. ChannelTypeOK
  <2>1. /\ buffer \in Seq(Message)
        /\ received \in Seq(Message)
        /\ sent \in Seq(Message)
        /\ drained \in Seq(Message)
    BY DEF ChannelInit
  <2>2. waiting \in 0 .. 1 /\ closedAt \in Nat
    BY DEF ChannelInit
  <2>3. /\ closing \in BOOLEAN
        /\ locked \in BOOLEAN
        /\ work \in BOOLEAN
        /\ worker \in WorkerStates
        /\ closer \in {"running", "closing", "joining", "joined"}
    BY DEF ChannelInit, WorkerStates
  <2> QED BY <2>1, <2>2, <2>3 DEF ChannelTypeOK
<1>2. LockDiscipline
  BY DEF ChannelInit, LockDiscipline
<1>3. Accounting
  BY DEF ChannelInit, Accounting
<1>4. NoSleepOverMessages
  BY DEF ChannelInit, NoSleepOverMessages
<1> QED BY <1>1, <1>2, <1>3, <1>4 DEF ChannelIInv

(* Requeue puts a sequence of messages at the end of the buffer.           *)
LEMMA PutsBack ==
  ASSUME ChannelTypeOK, Requeue
  PROVE  \E incomplete \in Seq(Message) :
            /\ buffer' = buffer \o incomplete
            /\ sent' = sent \o incomplete
<1>1. PICK n \in 0 .. Len(received) :
        \E incomplete \in [1 .. n -> {received[i] : i \in DOMAIN received}] :
           /\ buffer' = buffer \o incomplete
           /\ sent' = sent \o incomplete
  BY DEF Requeue
<1>2. PICK incomplete \in [1 .. n -> {received[i] : i \in DOMAIN received}] :
           /\ buffer' = buffer \o incomplete
           /\ sent' = sent \o incomplete
  BY <1>1
<1>3. received \in Seq(Message) /\ n \in Nat
  BY DEF ChannelTypeOK
<1>4. {received[i] : i \in DOMAIN received} \subseteq Message
  BY <1>3
<1>5. incomplete \in [1 .. n -> Message]
  BY <1>4
<1>6. incomplete \in Seq(Message)
  BY <1>3, <1>5
<1> QED BY <1>2, <1>6

LEMMA ChannelStepInvariant == ChannelIInv /\ [ChannelNext]_channelVars => ChannelIInv'
<1> SUFFICES ASSUME ChannelIInv, [ChannelNext]_channelVars PROVE ChannelIInv'
  OBVIOUS
<1> USE DEF ChannelIInv
<1>1. ASSUME NEW message \in Message, Send(message) PROVE ChannelIInv'
  <2>1. ChannelTypeOK'
    BY <1>1 DEF ChannelTypeOK, WorkerStates, Send, Wake
  <2>2. LockDiscipline'
    BY <1>1 DEF ChannelTypeOK, WorkerStates, LockDiscipline, Send, Wake
  <2>3. Accounting' /\ NoSleepOverMessages'
    BY <1>1 DEF ChannelTypeOK, WorkerStates, LockDiscipline, Accounting, NoSleepOverMessages,
                Send, Wake
  <2> QED BY <2>1, <2>2, <2>3
<1>2. CASE LockToDrain
  <2>1. ChannelTypeOK'
    BY <1>2 DEF ChannelTypeOK, WorkerStates, LockDiscipline, LockToDrain, CountedOut
  <2>2. LockDiscipline'
    BY <1>2 DEF ChannelTypeOK, WorkerStates, LockDiscipline, LockToDrain, CountedOut
  <2>3. Accounting' /\ NoSleepOverMessages'
    BY <1>2 DEF ChannelTypeOK, WorkerStates, LockDiscipline, Accounting, NoSleepOverMessages,
                LockToDrain, CountedOut
  <2> QED BY <2>1, <2>2, <2>3
<1>3. CASE DrainReturnsFalse
  <2>1. ChannelTypeOK'
    BY <1>3 DEF ChannelTypeOK, WorkerStates, DrainReturnsFalse, GivesUp
  <2>2. LockDiscipline'
    BY <1>3 DEF ChannelTypeOK, WorkerStates, LockDiscipline, DrainReturnsFalse, GivesUp
  <2>3. Accounting' /\ NoSleepOverMessages'
    BY <1>3 DEF ChannelTypeOK, WorkerStates, LockDiscipline, Accounting, NoSleepOverMessages,
                DrainReturnsFalse, GivesUp
  <2> QED BY <2>1, <2>2, <2>3
<1>4. CASE DecideToWait
  <2>1. ChannelTypeOK'
    BY <1>4 DEF ChannelTypeOK, WorkerStates, LockDiscipline, DecideToWait
  <2>2. LockDiscipline'
    BY <1>4 DEF ChannelTypeOK, WorkerStates, LockDiscipline, DecideToWait
  <2>3. Accounting' /\ NoSleepOverMessages'
    BY <1>4 DEF ChannelTypeOK, WorkerStates, LockDiscipline, Accounting, NoSleepOverMessages,
                DecideToWait
  <2> QED BY <2>1, <2>2, <2>3
<1>5. CASE Wait
  <2>1. ChannelTypeOK'
    BY <1>5 DEF ChannelTypeOK, WorkerStates, Wait
  <2>2. LockDiscipline'
    BY <1>5 DEF ChannelTypeOK, WorkerStates, LockDiscipline, Wait
  <2>3. Accounting' /\ NoSleepOverMessages'
    BY <1>5 DEF ChannelTypeOK, WorkerStates, LockDiscipline, Accounting, NoSleepOverMessages, Wait
  <2> QED BY <2>1, <2>2, <2>3
<1>6. CASE DrainReturnsMessages
  <2>1. ChannelTypeOK'
    <3>1. buffer' \in Seq(Message) /\ received' \in Seq(Message) /\ drained' \in Seq(Message)
      BY <1>6 DEF ChannelTypeOK, DrainReturnsMessages, ClearedBuffer
    <3> QED BY <3>1, <1>6 DEF ChannelTypeOK, WorkerStates, DrainReturnsMessages
  <2>2. LockDiscipline'
    BY <1>6 DEF ChannelTypeOK, WorkerStates, LockDiscipline, DrainReturnsMessages, GivesUp,
                ClearedBuffer
  <2>3. Accounting' /\ NoSleepOverMessages'
    BY <1>6 DEF ChannelTypeOK, WorkerStates, LockDiscipline, Accounting, NoSleepOverMessages,
                DrainReturnsMessages, GivesUp, ClearedBuffer
  <2> QED BY <2>1, <2>2, <2>3
<1>7. CASE Requeue
  <2>1. PICK incomplete \in Seq(Message) :
          /\ buffer' = buffer \o incomplete
          /\ sent' = sent \o incomplete
    BY <1>7, PutsBack
  <2>2. incomplete \in Seq(Message) /\ Len(incomplete) \in Nat
    OBVIOUS
  <2>3. buffer' = buffer \o incomplete /\ sent' = sent \o incomplete
    BY <2>1
  <2>4. /\ buffer' \in Seq(Message) /\ Len(buffer') = Len(buffer) + Len(incomplete)
        /\ sent' \in Seq(Message) /\ Len(sent') = Len(sent) + Len(incomplete)
    BY <2>2, <2>3 DEF ChannelTypeOK
  <2>5. ChannelTypeOK'
    BY <2>2, <2>4, <1>7 DEF Requeue, ChannelTypeOK, WorkerStates
  <2>6. LockDiscipline' /\ NoSleepOverMessages'
    BY <1>7 DEF Requeue, ChannelTypeOK, LockDiscipline, NoSleepOverMessages
  <2>7. Accounting'
    <3>1. /\ UNCHANGED <<closing, work, closer, drained, closedAt>>
          /\ worker' = IF work THEN "calling" ELSE "done"
      BY <1>7 DEF Requeue
    <3>2. Len(drained) \in Nat /\ Len(buffer) \in Nat /\ Len(sent) \in Nat /\ closedAt \in Nat
      BY DEF ChannelTypeOK
    <3>3. Len(drained') + Len(buffer') = Len(sent') /\ closedAt' <= Len(sent')
      <4>1. Len(drained) + Len(buffer) = Len(sent) /\ closedAt <= Len(sent)
        BY DEF Accounting
      <4>2. Len(drained') = Len(drained) /\ closedAt' = closedAt
        BY <3>1
      <4>3. Len(buffer') = Len(buffer) + Len(incomplete) /\ Len(sent') = Len(sent) + Len(incomplete)
        BY <2>4
      <4>4. Len(incomplete) \in Nat
        BY <2>2
      <4>5. Len(drained') + Len(buffer') = Len(sent')
        BY <4>1, <4>2, <4>3, <4>4, <3>2
      <4>6. closedAt' <= Len(sent')
        BY <4>1, <4>2, <4>3, <4>4, <3>2
      <4> QED BY <4>5, <4>6
    <3>4. closing' <=> closer' # "running"
      BY <3>1 DEF Accounting
    <3>5. ~work' => closing' /\ Len(drained') >= closedAt'
      BY <3>1 DEF Accounting
    <3>6. worker' = "done" => ~work'
      BY <3>1
    <3> QED BY <3>3, <3>4, <3>5, <3>6 DEF Accounting
  <2> QED BY <2>5, <2>6, <2>7
<1>8. CASE SpuriousWakeup
  <2>1. ChannelTypeOK'
    BY <1>8 DEF ChannelTypeOK, WorkerStates, SpuriousWakeup
  <2>2. LockDiscipline'
    BY <1>8 DEF ChannelTypeOK, WorkerStates, LockDiscipline, SpuriousWakeup
  <2>3. Accounting' /\ NoSleepOverMessages'
    BY <1>8 DEF ChannelTypeOK, WorkerStates, LockDiscipline, Accounting, NoSleepOverMessages,
                SpuriousWakeup
  <2> QED BY <2>1, <2>2, <2>3
<1>9. CASE CloseSetFlag
  <2>1. ChannelTypeOK'
    BY <1>9 DEF ChannelTypeOK, WorkerStates, CloseSetFlag
  <2>2. LockDiscipline'
    BY <1>9 DEF ChannelTypeOK, WorkerStates, LockDiscipline, CloseSetFlag
  <2>3. Accounting' /\ NoSleepOverMessages'
    BY <1>9 DEF ChannelTypeOK, WorkerStates, LockDiscipline, Accounting, NoSleepOverMessages,
                CloseSetFlag
  <2> QED BY <2>1, <2>2, <2>3
<1>10. CASE CloseBroadcast
  <2>1. ChannelTypeOK'
    BY <1>10 DEF ChannelTypeOK, WorkerStates, CloseBroadcast, Wake
  <2>2. LockDiscipline'
    BY <1>10 DEF ChannelTypeOK, WorkerStates, LockDiscipline, CloseBroadcast, Wake
  <2>3. Accounting' /\ NoSleepOverMessages'
    BY <1>10 DEF ChannelTypeOK, WorkerStates, LockDiscipline, Accounting, NoSleepOverMessages,
                 CloseBroadcast, Wake
  <2> QED BY <2>1, <2>2, <2>3
<1>11. CASE Join
  <2>1. ChannelTypeOK'
    BY <1>11 DEF ChannelTypeOK, WorkerStates, Join
  <2>2. LockDiscipline'
    BY <1>11 DEF ChannelTypeOK, WorkerStates, LockDiscipline, Join
  <2>3. Accounting' /\ NoSleepOverMessages'
    BY <1>11 DEF ChannelTypeOK, WorkerStates, LockDiscipline, Accounting, NoSleepOverMessages,
                 Join
  <2> QED BY <2>1, <2>2, <2>3
<1>12. CASE UNCHANGED channelVars
  BY <1>12
     DEF channelVars, ChannelTypeOK, LockDiscipline, Accounting, NoSleepOverMessages
<1> QED
  BY <1>1, <1>2, <1>3, <1>4, <1>5, <1>6, <1>7, <1>8, <1>9, <1>10, <1>11, <1>12
     DEF ChannelNext, WorkerNext, CloserNext

(* The mutex and the sleeping worker, and where the messages are.  The     *)
(* inductive invariant of Channel (Channel.h:54-106).                      *)
THEOREM ChannelInvariant == ChannelSpec => []ChannelIInv
  BY ChannelInitInvariant, ChannelStepInvariant, PTL DEF ChannelSpec

(* Types, for every set of messages.                                       *)
THEOREM ChannelTypeCorrect == ChannelSpec => []ChannelTypeOK
<1>1. ChannelIInv => ChannelTypeOK
  BY DEF ChannelIInv
<1> QED BY <1>1, ChannelInvariant, PTL

(* The worker never sleeps while there are messages (Channel.h:54-93).     *)
THEOREM NeverSleepsOverMessages == ChannelSpec => []NoSleepOverMessages
<1>1. ChannelIInv => NoSleepOverMessages
  BY DEF ChannelIInv
<1> QED BY <1>1, ChannelInvariant, PTL

(* What was sent before close() is drained before the worker ends its loop *)
(* (Channel.h:78-106, WaterfallBackend.cpp:66-101).                        *)
THEOREM DrainedWhenClosed == ChannelSpec => []ClosedMeansDrained
<1>1. ChannelIInv => ClosedMeansDrained
  BY DEF ChannelIInv, Accounting, ClosedMeansDrained
<1> QED BY <1>1, ChannelInvariant, PTL

-----------------------------------------------------------------------------
(* Refinement.                                                             *)

(* A sequence is a prefix of its concatenation with another.               *)
LEMMA ConcatExtends ==
  ASSUME NEW S, NEW s \in Seq(S), NEW t \in Seq(S)
  PROVE  s \o t \in Seq(S) /\ IsPrefix(s, s \o t)
  BY DEF IsPrefix

LEMMA QueueStep ==
  ASSUME ChannelIInv, [ChannelNext]_channelVars
  PROVE  [Queue!Next]_(Queue!vars)
<1> USE DEF Queue!Next, Queue!vars
<1>0. buffer \in Seq(Message) /\ received \in Seq(Message)
  BY DEF ChannelIInv, ChannelTypeOK
<1>1. ASSUME NEW message \in Message, Send(message) PROVE Queue!Put
  <2>1. buffer' = buffer \o <<message>> /\ <<message>> \in Seq(Message)
    BY <1>0, <1>1 DEF Send
  <2>2. UNCHANGED <<drained, closing>>
    BY <1>1 DEF Send
  <2> QED BY <2>1, <2>2, <1>0, ConcatExtends DEF Queue!Put, Queue!IsPrefix, IsPrefix
<1>2. CASE Requeue
  <2>1. PICK incomplete \in Seq(Message) : buffer' = buffer \o incomplete
    BY <1>2, PutsBack DEF ChannelIInv
  <2>2. incomplete \in Seq(Message)
    OBVIOUS
  <2>3. UNCHANGED <<drained, closing>>
    BY <1>2 DEF Requeue
  <2> QED BY <2>1, <2>2, <2>3, <1>0, ConcatExtends DEF Queue!Put, Queue!IsPrefix, IsPrefix
<1>3. CASE DrainReturnsMessages
  BY <1>3 DEF DrainReturnsMessages, ClearedBuffer, Queue!GetAll
<1>4. CASE CloseSetFlag
  BY <1>4 DEF CloseSetFlag, Queue!Shut
<1>5. CASE LockToDrain \/ DrainReturnsFalse \/ DecideToWait \/ Wait \/ SpuriousWakeup
             \/ CloseBroadcast \/ Join
  BY <1>5
     DEF LockToDrain, CountedOut, DrainReturnsFalse, DecideToWait, Wait, SpuriousWakeup,
         CloseBroadcast, Join
<1>6. CASE UNCHANGED channelVars
  BY <1>6 DEF channelVars
<1> QED
  BY <1>1, <1>2, <1>3, <1>4, <1>5, <1>6 DEF ChannelNext, WorkerNext, CloserNext

(* The channel is a queue: every step of send(), sendAll(), drain() and    *)
(* close() is a step of MessageQueue or leaves it alone (Channel.h:54-106). *)
THEOREM ChannelIsQueue == ChannelSpec => IsQueue
<1>1. ChannelInit => Queue!Init
  BY DEF ChannelInit, Queue!Init
<1>2. ChannelIInv /\ [ChannelNext]_channelVars => [Queue!Next]_(Queue!vars)
  BY QueueStep
<1> QED BY <1>1, <1>2, ChannelInvariant, PTL DEF ChannelSpec, IsQueue, Queue!Spec

-----------------------------------------------------------------------------
(* Induction.  The library's theorems of induction take a predicate; these *)
(* take a set, and come from its theorem about minimal elements.           *)

(* A set of natural numbers that is not empty has a least one: the numbers *)
(* below it are contained in those below every other.                      *)
LEMMA LeastNatural ==
  ASSUME NEW T \in SUBSET Nat, T # {}
  PROVE  \E x \in T : \A z \in T : x <= z
<1> DEFINE Belows == {0..(n - 1) : n \in T}
<1>1. Belows \subseteq FiniteSubsetsOf(Nat)
  <2> SUFFICES ASSUME NEW n \in T PROVE 0..(n - 1) \in FiniteSubsetsOf(Nat)
    OBVIOUS
  <2>1. IsFiniteSet(0..(n - 1))
    BY FS_Interval
  <2>2. 0..(n - 1) \subseteq Nat
    OBVIOUS
  <2> QED
    BY <2>1, <2>2 DEF FiniteSubsetsOf
<1>2. IsWellFoundedOn(StrictSubsetOrdering(Nat), FiniteSubsetsOf(Nat))
  BY FS_StrictSubsetOrderingWellFounded
<1>3. Belows # {}
  OBVIOUS
<1> HIDE DEF Belows
<1>4. PICK b \in Belows : \A c \in Belows : <<c, b>> \notin StrictSubsetOrdering(Nat)
  BY <1>1, <1>2, <1>3, WFMin, Zenon
<1>5. PICK x \in T : b = 0..(x - 1)
  BY <1>4 DEF Belows
<1>6. ASSUME NEW z \in T, z < x PROVE FALSE
  <2>1. 0..(z - 1) \in Belows
    BY DEF Belows
  <2>2. 0..(z - 1) \subseteq 0..(x - 1) /\ z \in 0..(x - 1) /\ z \notin 0..(z - 1)
    <3>1. x \in Nat /\ z \in Nat
      OBVIOUS
    <3>2. 0..(z - 1) \subseteq 0..(x - 1)
      BY <1>6, <3>1
    <3>3. z \in 0..(x - 1)
      BY <1>6, <3>1
    <3>4. z \notin 0..(z - 1)
      BY <3>1
    <3> QED
      BY <3>2, <3>3, <3>4
  <2>3. 0..(z - 1) \in SUBSET Nat /\ 0..(x - 1) \in SUBSET Nat
    OBVIOUS
  <2>4. << 0..(z - 1), 0..(x - 1) >> \in StrictSubsetOrdering(Nat)
    BY <2>2, <2>3 DEF StrictSubsetOrdering
  <2> QED
    BY <1>4, <1>5, <2>1, <2>4
<1> QED
  BY <1>6

(* A set with 0 that has the successor of what it has has every natural    *)
(* number.                                                                 *)
LEMMA InductionOnSet ==
  ASSUME NEW T, 0 \in T, \A n \in Nat : n \in T => n + 1 \in T
  PROVE  Nat \subseteq T
<1> DEFINE Rest == Nat \ T
<1> SUFFICES ASSUME Rest # {} PROVE FALSE
  OBVIOUS
<1>1. Rest \in SUBSET Nat
  OBVIOUS
<1> HIDE DEF Rest
<1>2. PICK x \in Rest : \A z \in Rest : x <= z
  BY <1>1, LeastNatural, Zenon
<1>3. x \in Nat /\ x # 0
  BY <1>2 DEF Rest
<1>4. x - 1 \in Nat /\ x - 1 \notin Rest
  BY <1>2, <1>3, <1>1
<1>5. (x - 1) + 1 \in T
  BY <1>4 DEF Rest
<1> QED
  BY <1>2, <1>3, <1>5 DEF Rest

-----------------------------------------------------------------------------
(* Quotients, and products.                                                *)

(* A quotient is the greatest number its divisor so often fits into.       *)
LEMMA Quotient ==
  ASSUME NEW x \in Int, NEW d \in Nat \ {0}
  PROVE  /\ x \div d \in Int
         /\ d * (x \div d) <= x
         /\ x < d * (x \div d) + d
OBVIOUS

(* A factor of a smaller product is smaller.                               *)
LEMMA Factor ==
  ASSUME NEW d \in Nat \ {0}, NEW a \in Int, NEW b \in Int
  PROVE  /\ d * a < d * b => a < b
         /\ a <= b => d * a <= d * b
OBVIOUS

(* A quotient lies between the multiples its dividend does.                *)
LEMMA QuotientBetween ==
  ASSUME NEW x \in Int, NEW d \in Nat \ {0}, NEW a \in Int
  PROVE  /\ d * a <= x => a <= x \div d
         /\ x < d * a => x \div d < a
<1> DEFINE q == x \div d
<1>1. q \in Int /\ d * q <= x /\ x < d * q + d
  BY Quotient
<1>2. d * (q + 1) = d * q + d
  BY <1>1
<1> HIDE DEF q
<1>3. d * a <= x => a <= q
  <2> SUFFICES ASSUME d * a <= x PROVE a <= q
    OBVIOUS
  <2>1. d * a \in Int /\ d * (q + 1) \in Int /\ d * q \in Int
    BY <1>1
  <2>2. d * a < d * (q + 1)
    BY <1>1, <1>2, <2>1
  <2>3. a < q + 1
    BY <1>1, <2>2, Factor
  <2> QED
    BY <1>1, <2>3
<1>4. x < d * a => q < a
  <2> SUFFICES ASSUME x < d * a PROVE q < a
    OBVIOUS
  <2>1. d * a \in Int /\ d * q \in Int
    BY <1>1
  <2>2. d * q < d * a
    BY <1>1, <2>1
  <2> QED
    BY <1>1, <2>2, Factor
<1> QED
  BY <1>3, <1>4 DEF q

-----------------------------------------------------------------------------
(* A WAV file.                                                             *)

(* What an uint32 may be, and how many bytes the walk counts for one.      *)
LEMMA SizesAreNumbers ==
  /\ Half \in Nat /\ Half > 4
  /\ \A s \in Sizes : s \in Nat
  /\ \A s \in Sizes, n \in Nat : n <= s => n \in Sizes
  /\ \A s \in Sizes : /\ CountedFor(s) \in Int
                      /\ CountedFor(s) <= s + 4
                      /\ s + 4 < Half => CountedFor(s) >= 0
<1>1. Half \in Nat /\ Half > 4
  BY WAVAssumption DEF WAVAssumption
<1>2. \A s \in Sizes : s \in Nat
  BY <1>1 DEF Sizes
<1>3. \A s \in Sizes, n \in Nat : n <= s => n \in Sizes
  BY <1>1 DEF Sizes
<1> QED
  BY <1>1, <1>2, <1>3 DEF CountedFor, ToInt

(* What a file is.                                                         *)
LEMMA FileSubchunks ==
  ASSUME NEW f \in Files
  PROVE  /\ f.riff \in BOOLEAN /\ f.bits16 \in BOOLEAN
         /\ f.chunks \in Seq([id : Ids, size : Sizes])
         /\ Len(f.chunks) \in Nat
         /\ \A n \in 1..Len(f.chunks) :
              f.chunks[n].id \in Ids /\ f.chunks[n].size \in Sizes /\ f.chunks[n].size \in Nat
         /\ \A m, n \in 1..Len(f.chunks) :
              f.chunks[m].id = "data" /\ f.chunks[n].id = "data" => m = n
         /\ RiffSize(f) \in Int
<1> DEFINE Subchunks == [id : Ids, size : Sizes]
<1>1. f.chunks \in Seq(Subchunks)
  BY WAVAssumption DEF WAVAssumption
<1>2. /\ Len(f.chunks) \in Nat /\ DOMAIN f.chunks = 1..Len(f.chunks)
      /\ \A n \in 1..Len(f.chunks) : f.chunks[n] \in Subchunks
  <2> HIDE DEF Subchunks
  <2> QED
    BY <1>1
<1>3. \A m, n \in DataSubchunks(f) : m = n
  BY WAVAssumption DEF WAVAssumption
<1>4. f.riff \in BOOLEAN /\ f.bits16 \in BOOLEAN
  <2>1. {f.riff, f.bits16} \subseteq BOOLEAN
    BY WAVAssumption DEF WAVAssumption
  <2> QED
    BY <2>1, Zenon
<1>5. \A n \in 1..Len(f.chunks) :
        f.chunks[n].id \in Ids /\ f.chunks[n].size \in Sizes /\ f.chunks[n].size \in Nat
  BY <1>2, SizesAreNumbers
<1>6. RiffSize(f) \in Int
  <2>1. f.header \in Sizes
    BY WAVAssumption DEF WAVAssumption
  <2>2. f.header \in Nat
    BY <2>1, SizesAreNumbers
  <2> QED
    BY <2>2 DEF RiffSize
<1> QED
  BY <1>1, <1>2, <1>3, <1>4, <1>5, <1>6 DEF DataSubchunks

(* Bytes adds up the subchunks.                                            *)
LEMMA BytesAddUp ==
  ASSUME NEW f \in Files
  PROVE  /\ Bytes(f) \in [0..Len(f.chunks) -> Nat]
         /\ Bytes(f)[0] = 0
         /\ \A n \in 1..Len(f.chunks) : Bytes(f)[n] = Bytes(f)[n - 1] + f.chunks[n].size + 8
<1> DEFINE L == Len(f.chunks)
           Holds(g, n) == /\ g \in [0..n -> Nat]
                          /\ g[0] = 0
                          /\ \A i \in 1..n : g[i] = g[i - 1] + f.chunks[i].size + 8
           T == {n \in Nat : n <= L => \E g : Holds(g, n)}
<1>1. L \in Nat /\ \A n \in 1..L : f.chunks[n].size \in Nat
  BY FileSubchunks
<1>2. 0 \in T
  <2>1. Holds([i \in 0..0 |-> 0], 0)
    OBVIOUS
  <2> QED
    BY <2>1
<1>3. ASSUME NEW n \in Nat, n \in T PROVE n + 1 \in T
  <2> SUFFICES ASSUME n + 1 <= L PROVE \E g : Holds(g, n + 1)
    <3> HIDE DEF Holds
    <3> QED
      OBVIOUS
  <2>1. PICK g : Holds(g, n)
    BY <1>1, <1>3
  <2> DEFINE h == [i \in 0..(n + 1) |-> IF i = n + 1 THEN g[n] + f.chunks[n + 1].size + 8 ELSE g[i]]
  <2> DEFINE more == g[n] + f.chunks[n + 1].size + 8
  <2>2. /\ \A i \in 0..n : g[i] \in Nat
        /\ g[0] = 0
        /\ \A i \in 1..n : g[i] = g[i - 1] + f.chunks[i].size + 8
    BY <2>1
  <2>3. more \in Nat
    <3>1. f.chunks[n + 1].size \in Nat /\ g[n] \in Nat
      BY <1>1, <2>2
    <3> QED
      BY <3>1
  <2>4. /\ h \in [0..(n + 1) -> Nat] /\ h[n + 1] = more
        /\ \A i \in 0..n : h[i] = g[i]
    <3> HIDE DEF more
    <3>1. \A i \in 0..(n + 1) : i = n + 1 \/ i \in 0..n
      OBVIOUS
    <3>2. h = [i \in 0..(n + 1) |-> IF i = n + 1 THEN more ELSE g[i]]
      BY Zenon DEF more
    <3> QED
      BY <2>2, <2>3, <3>1, <3>2
  <2> HIDE DEF h
  <2>5. ASSUME NEW i \in 1..(n + 1) PROVE h[i] = h[i - 1] + f.chunks[i].size + 8
    <3>1. CASE i = n + 1
      <4>1. i - 1 = n /\ n \in 0..n
        BY <3>1
      <4> QED
        BY <2>4, <3>1, <4>1
    <3>2. CASE i # n + 1
      <4>1. i \in 1..n /\ i \in 0..n /\ i - 1 \in 0..n
        BY <3>2
      <4> QED
        BY <2>2, <2>4, <4>1
    <3> QED
      BY <3>1, <3>2
  <2>6. h[0] = 0
    BY <2>2, <2>4
  <2>7. Holds(h, n + 1)
    BY <2>4, <2>5, <2>6
  <2> QED
    BY <2>7
<1> DEFINE Sums(h) == [n \in 0..L |-> IF n = 0 THEN 0 ELSE h[n - 1] + f.chunks[n].size + 8]
<1>4. \E g : g = Sums(g)
  <2> HIDE DEF T
  <2>1. L \in T
    BY <1>1, <1>2, <1>3, InductionOnSet
  <2> USE DEF T
  <2>2. PICK g : Holds(g, L)
    BY <1>1, <2>1
  <2>3. g = Sums(g)
    BY <1>1, <2>2
  <2> QED
    BY <2>3
<1>5. Bytes(f) = CHOOSE g : g = Sums(g)
  BY DEF Bytes
<1>6. Bytes(f) = Sums(Bytes(f))
  <2> HIDE DEF Sums
  <2> QED
    BY <1>4, <1>5, Zenon
<1> DEFINE B == Bytes(f)
<1> HIDE DEF B, T
<1>7. B = Sums(B)
  BY <1>6 DEF B
<1>8. B[0] = 0 /\ \A n \in 1..L : B[n] = B[n - 1] + f.chunks[n].size + 8
  <2>1. ASSUME NEW n \in 0..L
        PROVE  B[n] = IF n = 0 THEN 0 ELSE B[n - 1] + f.chunks[n].size + 8
    BY <1>7, <2>1
  <2>2. B[0] = 0
    BY <1>1, <2>1
  <2>3. ASSUME NEW n \in 1..L PROVE B[n] = B[n - 1] + f.chunks[n].size + 8
    <3>1. n \in 0..L /\ n # 0
      OBVIOUS
    <3> QED
      BY <2>1, <3>1
  <2> QED
    BY <2>2, <2>3
<1>9. \A n \in 0..L : B[n] \in Nat
  <2> DEFINE U == {n \in Nat : n <= L => B[n] \in Nat}
  <2>1. 0 \in U
    BY <1>8
  <2>2. ASSUME NEW n \in Nat, n \in U PROVE n + 1 \in U
    <3> SUFFICES ASSUME n + 1 <= L PROVE B[n + 1] \in Nat
      OBVIOUS
    <3>1. n + 1 \in 1..L /\ (n + 1) - 1 = n
      BY <1>1
    <3>2. B[n] \in Nat
      BY <1>1, <2>2
    <3>3. B[n + 1] = B[n] + f.chunks[n + 1].size + 8 /\ f.chunks[n + 1].size \in Nat
      BY <1>1, <1>8, <3>1
    <3> QED
      BY <3>2, <3>3
  <2> HIDE DEF U
  <2>3. Nat \subseteq U
    BY <2>1, <2>2, InductionOnSet
  <2> QED
    BY <1>1, <2>3 DEF U
<1> QED
  BY <1>7, <1>8, <1>9 DEF B

(* More subchunks are more bytes.                                          *)
LEMMA BytesGrow ==
  ASSUME NEW f \in Files, NEW m \in 0..Len(f.chunks), NEW n \in 0..Len(f.chunks), m <= n
  PROVE  Bytes(f)[m] <= Bytes(f)[n]
<1> DEFINE L == Len(f.chunks)
           B == Bytes(f)
           T == {k \in Nat : m + k <= L => B[m] <= B[m + k]}
<1>1. L \in Nat /\ \A i \in 1..L : f.chunks[i].size \in Nat
  BY FileSubchunks
<1>2. /\ B \in [0..L -> Nat]
      /\ \A i \in 1..L : B[i] = B[i - 1] + f.chunks[i].size + 8
  BY BytesAddUp
<1> HIDE DEF B
<1>3. 0 \in T
  BY <1>1, <1>2
<1>4. ASSUME NEW k \in Nat, k \in T PROVE k + 1 \in T
  <2> SUFFICES ASSUME m + (k + 1) <= L PROVE B[m] <= B[m + (k + 1)]
    OBVIOUS
  <2>1. m + k \in 0..L /\ m + (k + 1) \in 1..L /\ (m + (k + 1)) - 1 = m + k
    BY <1>1
  <2>2. B[m] <= B[m + k]
    BY <1>4, <2>1
  <2>3. B[m + (k + 1)] = B[m + k] + f.chunks[m + (k + 1)].size + 8
    BY <1>2, <2>1
  <2>4. B[m] \in Nat /\ B[m + k] \in Nat /\ f.chunks[m + (k + 1)].size \in Nat
    BY <1>1, <1>2, <2>1
  <2> DEFINE s == f.chunks[m + (k + 1)].size
             a == B[m]
             b == B[m + k]
             c == B[m + (k + 1)]
  <2>5. a \in Nat /\ b \in Nat /\ s \in Nat /\ a <= b /\ c = b + s + 8
    BY <2>2, <2>3, <2>4
  <2> HIDE DEF s, a, b, c
  <2>6. a <= c
    BY <2>5
  <2> QED
    BY <2>6 DEF a, c
<1> HIDE DEF T
<1>5. n - m \in T
  <2>1. Nat \subseteq T
    BY <1>3, <1>4, InductionOnSet
  <2>2. n - m \in Nat
    BY <1>1
  <2> QED
    BY <2>1, <2>2
<1>6. m + (n - m) = n /\ n <= L
  BY <1>1
<1> QED
  BY <1>5, <1>6 DEF T, B

\* Whether a subchunk of the file is the one with the data, whether it has
\* been reached, and whether its frames are being read.
IsData(n) == file.chunks[n].id = "data"
Reached == \E n \in 1..Len(file.chunks) : n <= at /\ IsData(n)
InData == walk = "buffers" /\ at <= Len(file.chunks)

\* What has been read says what the backend knows of the stream, and where
\* run() is.
StreamInStep ==
  /\ stream = IF ~dataRead THEN "none" ELSE IF walk = "returned" THEN "ended" ELSE "open"
  /\ walk = "opening" => at = 0 /\ ~dataRead
  /\ walk = "buffers" => at > 0 /\ file.bits16

\* As long as the walk is in the file it counts at least the bytes that are
\* left, and not the end of the file before the end: it counts 4 bytes of a
\* header's 8.
WalkInStep ==
  at <= Len(file.chunks) =>
    /\ walk = "subchunks" => remaining >= RiffSize(file) - Bytes(file)[at]
    /\ walk = "buffers" =>
         /\ IsData(at)
         /\ size = file.chunks[at].size
         /\ remaining >= RiffSize(file) - Bytes(file)[at - 1]

\* Frames are delivered as they are read until the data run out; then there
\* are as many as the file has, or more.  A file that can be walked through is
\* not left before.
FramesInStep ==
  /\ frame <= Frames(file)
  /\ \A i \in DOMAIN delivered : i <= Frames(file) => delivered[i] = i
  /\ ~Reached /\ at <= Len(file.chunks) => frame = 0 /\ delivered = << >>
  /\ InData =>
       \/ FrameBytes * frame + left = file.chunks[at].size /\ Len(delivered) = frame
       \/ left = 0 /\ Len(delivered) >= Frames(file)
  /\ file.bits16 /\ Reached /\ ~InData => Len(delivered) >= Frames(file)
  /\ Walkable(file) /\ walk \in {"leaving", "returned"} => Len(delivered) >= Frames(file)

WAVIInv == WAVTypeOK /\ StreamInStep /\ WalkInStep /\ FramesInStep

(* The frames of a file are those of its data subchunk.                    *)
LEMMA FramesOfData ==
  ASSUME NEW f \in Files
  PROVE  /\ Frames(f) \in Nat
         /\ \A n \in 1..Len(f.chunks) :
              f.chunks[n].id = "data" => Frames(f) = f.chunks[n].size \div FrameBytes
         /\ (\A n \in 1..Len(f.chunks) : f.chunks[n].id # "data") => Frames(f) = 0
<1> DEFINE D == DataSubchunks(f)
           chosen == CHOOSE n \in D : TRUE
<1>1. /\ D = {n \in 1..Len(f.chunks) : f.chunks[n].id = "data"}
      /\ \A m, n \in D : m = n
      /\ \A n \in D : f.chunks[n].size \in Nat
  <2>1. DOMAIN f.chunks = 1..Len(f.chunks)
    BY FileSubchunks
  <2>2. D = {n \in 1..Len(f.chunks) : f.chunks[n].id = "data"}
    BY <2>1 DEF DataSubchunks
  <2> HIDE DEF D
  <2> QED
    BY <2>2, FileSubchunks
<1>2. Frames(f) = IF D = {} THEN 0 ELSE f.chunks[chosen].size \div FrameBytes
  BY DEF Frames
<1>3. D # {} => chosen \in D
  OBVIOUS
<1> HIDE DEF D, chosen
<1>4. \A n \in D : chosen = n
  BY <1>1, <1>3
<1>5. \A n \in D : f.chunks[n].size \div FrameBytes \in Nat
  BY <1>1 DEF FrameBytes
<1> QED
  BY <1>1, <1>2, <1>4, <1>5

(* The types, one by one.                                                  *)
LEMMA WAVTypes ==
  ASSUME WAVTypeOK
  PROVE  /\ file \in Files
         /\ at \in 0..(Len(file.chunks) + 1)
         /\ Len(file.chunks) \in Nat
         /\ remaining \in Int
         /\ size \in Nat /\ left \in Nat /\ frame \in Nat
         /\ size \in Sizes /\ left \in Sizes
         /\ dataRead \in BOOLEAN
         /\ dataBuffer \in [1..Buffer -> 0..Frames(file)]
         /\ delivered \in Seq(0..Frames(file) \cup {Beyond})
         /\ Frames(file) \in Nat
         /\ Buffer \in Nat /\ Buffer > 0
<1>1. file \in Files
  BY DEF WAVTypeOK
<1>2. Len(file.chunks) \in Nat /\ Frames(file) \in Nat
  BY <1>1, FileSubchunks, FramesOfData
<1>3. Buffer \in Nat \ {0}
  BY WAVAssumption DEF WAVAssumption
<1>4. size \in Sizes /\ left \in Sizes /\ frame \in Nat
  <2>1. {size, left} \subseteq Sizes /\ frame \in Nat
    BY DEF WAVTypeOK
  <2> QED
    BY <2>1, Zenon
<1> QED
  BY <1>1, <1>2, <1>3, <1>4, SizesAreNumbers DEF WAVTypeOK

(* Bytes of subchunks that have been counted and of those that have not.   *)
LEMMA BytesOf ==
  ASSUME NEW f \in Files, NEW n \in 0..Len(f.chunks)
  PROVE  /\ Bytes(f)[n] \in Nat
         /\ Bytes(f)[Len(f.chunks)] \in Nat
         /\ n > 0 => Bytes(f)[n] = Bytes(f)[n - 1] + f.chunks[n].size + 8
         /\ n < Len(f.chunks) => Bytes(f)[n] < Bytes(f)[Len(f.chunks)]
<1> DEFINE L == Len(f.chunks)
           B == Bytes(f)
<1>1. L \in Nat /\ n \in 0..L /\ \A i \in 1..L : f.chunks[i].size \in Nat
  BY FileSubchunks
<1>2. /\ B \in [0..L -> Nat]
      /\ \A i \in 1..L : B[i] = B[i - 1] + f.chunks[i].size + 8
      /\ \A i \in 0..L : B[i] <= B[L]
  <2>1. /\ B \in [0..L -> Nat]
        /\ \A i \in 1..L : B[i] = B[i - 1] + f.chunks[i].size + 8
    BY BytesAddUp
  <2>2. ASSUME NEW i \in 0..L PROVE B[i] <= B[L]
    <3>1. L \in 0..L /\ i <= L
      BY <1>1
    <3> QED
      BY <3>1, BytesGrow
  <2> QED
    BY <2>1, <2>2
<1> SUFFICES /\ B[n] \in Nat /\ B[L] \in Nat
             /\ n > 0 => B[n] = B[n - 1] + f.chunks[n].size + 8
             /\ n < L => B[n] < B[L]
  OBVIOUS
<1> HIDE DEF L, B
<1>4. B[n] \in Nat /\ B[L] \in Nat
  BY <1>1, <1>2
<1>5. ASSUME n > 0 PROVE B[n] = B[n - 1] + f.chunks[n].size + 8
  <2>1. n \in 1..L
    BY <1>1, <1>5
  <2> QED
    BY <1>2, <2>1
<1>6. ASSUME n < L PROVE B[n] < B[L]
  <2>1. n + 1 \in 1..L /\ n + 1 \in 0..L /\ (n + 1) - 1 = n
    BY <1>1, <1>6
  <2>2. B[n + 1] = B[n] + f.chunks[n + 1].size + 8 /\ B[n + 1] <= B[L]
    BY <1>2, <2>1
  <2>3. B[n + 1] \in Nat
    BY <1>2, <2>1
  <2> QED
    BY <1>1, <1>4, <2>1, <2>2, <2>3
<1> QED
  BY <1>4, <1>5, <1>6

(* Only the file's own data make frames.                                   *)
LEMMA Reaching ==
  ASSUME WAVTypeOK
  PROVE  /\ \A n \in 1..Len(file.chunks) : IsData(n) => Frames(file) = file.chunks[n].size \div FrameBytes
         /\ (\A n \in 1..Len(file.chunks) : ~IsData(n)) => Frames(file) = 0
         /\ ~Reached /\ at >= Len(file.chunks) => Frames(file) = 0
         /\ \A n \in 1..at : n <= Len(file.chunks) /\ IsData(n) => Reached
<1>1. file \in Files /\ at \in Nat /\ Len(file.chunks) \in Nat
  BY WAVTypes
<1>2. /\ \A n \in 1..Len(file.chunks) : IsData(n) => Frames(file) = file.chunks[n].size \div FrameBytes
      /\ (\A n \in 1..Len(file.chunks) : ~IsData(n)) => Frames(file) = 0
  BY <1>1, FramesOfData DEF IsData
<1> QED
  BY <1>1, <1>2 DEF Reached

(* Initially run() has not begun.                                          *)
LEMMA WAVInitially ==
  ASSUME WAVInit
  PROVE  WAVIInv
<1>1. file \in Files /\ Frames(file) \in Nat /\ Len(file.chunks) \in Nat /\ Buffer \in Nat
  BY FramesOfData, FileSubchunks, WAVAssumption DEF WAVInit, WAVAssumption
<1>2. dataBuffer \in [1..Buffer -> 0..Frames(file)] /\ delivered \in Seq(0..Frames(file) \cup {Beyond})
  BY <1>1 DEF WAVInit
<1>3. WAVTypeOK
  <2>1. {size, left} \subseteq Sizes /\ frame \in Nat /\ at \in 0..(Len(file.chunks) + 1)
    BY <1>1, SizesAreNumbers DEF WAVInit, Sizes
  <2>2. /\ walk \in {"opening", "subchunks", "buffers", "leaving", "returned"}
        /\ stream \in {"none", "open", "ended"}
        /\ lastId \in Ids \cup {"RIFF", "text"}
        /\ remaining \in Int
    BY DEF WAVInit
  <2>3. dataRead \in BOOLEAN
    BY Zenon DEF WAVInit
  <2> QED
    BY <1>1, <1>2, <2>1, <2>2, <2>3, Zenon DEF WAVTypeOK
<1>4. StreamInStep /\ WalkInStep
  BY DEF WAVInit, StreamInStep, WalkInStep
<1>5. FramesInStep
  BY <1>1 DEF WAVInit, FramesInStep, Reached, InData
<1> QED
  BY <1>3, <1>4, <1>5 DEF WAVIInv

(* The steps that read no frames.                                          *)
LEMMA HeaderKeepsWAV ==
  ASSUME WAVIInv, ReadHeader
  PROVE  WAVIInv'
<1>1. WAVTypeOK /\ StreamInStep /\ FramesInStep /\ file' = file
  BY DEF WAVIInv, ReadHeader
<1>2. file \in Files /\ Len(file.chunks) \in Nat /\ remaining \in Int /\ RiffSize(file) \in Int
  <2>1. file \in Files /\ Len(file.chunks) \in Nat /\ remaining \in Int
    BY <1>1, WAVTypes
  <2> QED
    BY <2>1, FileSubchunks
<1>3. WAVTypeOK'
  <2>1. remaining' \in Int /\ walk' \in {"subchunks", "returned"}
    BY <1>2 DEF ReadHeader
  <2> QED
    BY <1>1, <2>1 DEF WAVTypeOK, ReadHeader
<1>4. walk = "opening" /\ at' = 0 /\ ~dataRead' /\ stream' = "none"
  BY <1>1 DEF StreamInStep, ReadHeader
<1>5. StreamInStep'
  BY <1>1, <1>4 DEF StreamInStep, ReadHeader
<1>6. WalkInStep'
  <2>1. Bytes(file)[0] = 0
    BY <1>2, BytesAddUp
  <2> QED
    BY <1>2, <1>4, <2>1 DEF WalkInStep, ReadHeader
<1>7. FramesInStep'
  <2>1. walk' = "returned" => ~Walkable(file)
    BY DEF ReadHeader, Walkable
  <2> QED
    BY <1>1, <2>1 DEF FramesInStep, ReadHeader, Reached, IsData, InData
<1> QED
  BY <1>3, <1>5, <1>6, <1>7 DEF WAVIInv

(* A subchunk is entered where the last one ended.                         *)
LEMMA SubchunkKeepsWAV ==
  ASSUME WAVIInv, ReadSubchunk
  PROVE  WAVIInv'
<1> DEFINE L == Len(file.chunks)
<1>1. WAVTypeOK /\ StreamInStep /\ WalkInStep /\ FramesInStep /\ file' = file /\ walk = "subchunks"
  BY DEF WAVIInv, ReadSubchunk
<1>2. /\ file \in Files /\ at \in 0..(L + 1) /\ L \in Nat /\ remaining \in Int
      /\ Frames(file) \in Nat /\ lastId \in Ids \cup {"RIFF", "text"}
  BY <1>1, WAVTypes DEF WAVTypeOK
<1>3. at' = IF at > L THEN at ELSE at + 1
  BY DEF ReadSubchunk, AtEnd
<1> DEFINE id == IdRead(at')
<1>4. PICK s \in SizesRead(at') :
        /\ size' = s
        /\ lastId' = HeldAfter(id)
        /\ dataRead' = (dataRead \/ id = "data")
        /\ stream' = IF id = "data" /\ ~dataRead THEN "open" ELSE stream
        /\ left' = IF id = "data" /\ Readable THEN s ELSE 0
        /\ walk' = CASE id = "data" /\ Readable -> "buffers"
                     [] id # "data" /\ CountedFor(s) >= 0 -> "subchunks"
                     [] OTHER -> "leaving"
        /\ remaining' = IF walk' = "subchunks" THEN remaining - CountedFor(s) ELSE remaining
  BY DEF ReadSubchunk
<1>5. at' \in 1..(L + 1)
  BY <1>2, <1>3
<1>6. /\ at' <= L => s = file.chunks[at'].size /\ (id = "data" <=> IsData(at'))
      /\ s \in Sizes /\ s \in Nat /\ CountedFor(s) \in Int
      /\ id \in Ids \cup {"RIFF", "text"}
  <2>1. CASE at' <= L
    <3>1. at' \in 1..L
      BY <1>2, <1>5, <2>1
    <3>2. file.chunks[at'].id \in Ids /\ file.chunks[at'].size \in Sizes
      BY <1>2, <3>1, FileSubchunks
    <3> QED
      BY <1>4, <2>1, <3>2, SizesAreNumbers DEF SizesRead, IdRead, IsData
  <2>2. CASE ~(at' <= L)
    <3>1. Leftovers \subseteq Sizes
      BY WAVAssumption DEF WAVAssumption
    <3> QED
      BY <1>2, <1>4, <2>2, <3>1, SizesAreNumbers DEF SizesRead, IdRead
  <2> QED
    BY <2>1, <2>2
<1> HIDE DEF id
<1>7. walk' = IF id = "data" THEN IF file.bits16 THEN "buffers" ELSE "leaving"
              ELSE IF CountedFor(s) >= 0 THEN "subchunks" ELSE "leaving"
  BY <1>4 DEF Readable
<1>8. WAVTypeOK'
  <2>1. /\ walk' \in {"subchunks", "buffers", "leaving"}
        /\ at' \in 0..(L + 1)
        /\ remaining' \in Int
        /\ size' \in Sizes /\ left' \in Sizes /\ frame' \in Nat
    <3>1. frame' \in Nat
      BY <1>1, WAVTypes DEF ReadSubchunk
    <3>2. 0 \in Sizes
      BY <1>6, SizesAreNumbers
    <3>3. size' \in Sizes /\ left' \in Sizes
      BY <1>4, <1>6, <3>2
    <3>4. remaining' \in Int
      BY <1>2, <1>4, <1>6
    <3> QED
      BY <1>2, <1>5, <1>7, <3>1, <3>3, <3>4
  <2>2. lastId' \in Ids \cup {"RIFF", "text"}
    BY <1>4, <1>6 DEF HeldAfter
  <2>3. dataRead' \in BOOLEAN
    BY <1>4, Zenon
  <2>4. stream' \in {"none", "open", "ended"}
    BY <1>1, <1>4 DEF WAVTypeOK
  <2>5. {size', left'} \subseteq Sizes
    BY <2>1, Zenon
  <2>6. walk' \in {"opening", "subchunks", "buffers", "leaving", "returned"}
    BY <2>1
  <2>7. /\ file' \in Files
        /\ at' \in 0..(Len(file'.chunks) + 1)
        /\ dataBuffer' \in [1..Buffer -> 0..Frames(file')]
        /\ delivered' \in Seq(0..Frames(file') \cup {Beyond})
    BY <1>1, <2>1 DEF WAVTypeOK, ReadSubchunk
  <2> QED
    BY <2>1, <2>2, <2>3, <2>4, <2>5, <2>6, <2>7, Zenon DEF WAVTypeOK
<1>9. StreamInStep'
  <2>1. dataRead' <=> dataRead \/ id = "data"
    BY <1>4, Zenon
  <2>2. stream' = IF ~dataRead' THEN "none" ELSE "open"
    BY <1>1, <1>4, <2>1 DEF StreamInStep
  <2> QED
    BY <1>1, <1>5, <1>7, <2>2 DEF StreamInStep
<1>10. ASSUME at' <= L
       PROVE  /\ at < at' /\ at = at' - 1 /\ at' \in 1..L
              /\ (Reached' <=> Reached \/ IsData(at'))
              /\ IsData(at') => ~Reached
  <2>1. at < at' /\ at = at' - 1 /\ at' \in 1..L /\ at \in 0..L
    BY <1>2, <1>3, <1>5, <1>10
  <2>2. \A n \in Int : n <= at <=> n <= at' /\ n # at'
    <3>1. at' = at + 1
      BY <1>2, <1>3, <2>1
    <3>2. at \in Int
      BY <2>1
    <3> QED
      BY <3>1, <3>2
  <2>3. \A m, n \in 1..L : IsData(m) /\ IsData(n) => m = n
    BY <1>2, FileSubchunks DEF IsData
  <2>4. Reached' <=> \E n \in 1..L : n <= at' /\ IsData(n)
    BY <1>1 DEF Reached, IsData
  <2>5. Reached <=> \E n \in 1..L : n <= at /\ IsData(n)
    BY DEF Reached
  <2> HIDE DEF L
  <2>6. 1..L \subseteq Int
    BY <1>2
  <2>7. at' <= at'
    BY <2>1
  <2>8. Reached' <=> Reached \/ IsData(at')
    BY <2>1, <2>2, <2>4, <2>5, <2>6, <2>7
  <2>9. IsData(at') => ~Reached
    BY <2>1, <2>2, <2>3, <2>5, <2>6
  <2> QED
    BY <2>1, <2>8, <2>9
<1>11. WalkInStep'
  <2> SUFFICES ASSUME at' <= L
               PROVE  /\ walk' = "subchunks" => remaining' >= RiffSize(file) - Bytes(file)[at']
                      /\ walk' = "buffers" =>
                           /\ IsData(at')
                           /\ size' = file.chunks[at'].size
                           /\ remaining' >= RiffSize(file) - Bytes(file)[at' - 1]
    BY <1>1 DEF WalkInStep, IsData
  <2>1. at \in 0..L /\ at' \in 0..L /\ at' > 0 /\ at' - 1 = at
    BY <1>2, <1>10
  <2>2. /\ Bytes(file)[at] \in Nat /\ Bytes(file)[at'] \in Nat /\ RiffSize(file) \in Int
        /\ Bytes(file)[at'] = Bytes(file)[at' - 1] + file.chunks[at'].size + 8
    BY <1>2, <2>1, BytesOf, FileSubchunks
  <2>3. remaining >= RiffSize(file) - Bytes(file)[at]
    BY <1>1, <1>2, <2>1 DEF WalkInStep
  <2>4. walk' = "subchunks" => remaining' >= RiffSize(file) - Bytes(file)[at']
    <3> SUFFICES ASSUME walk' = "subchunks" PROVE remaining' >= RiffSize(file) - Bytes(file)[at']
      OBVIOUS
    <3>1. remaining' = remaining - CountedFor(s) /\ s \in Nat /\ CountedFor(s) \in Int
      BY <1>4, <1>6
    <3>2. CountedFor(s) <= s + 4
      BY <1>6, SizesAreNumbers
    <3>3. Bytes(file)[at'] = Bytes(file)[at] + s + 8
      BY <1>6, <1>10, <2>1, <2>2
    <3> DEFINE counted == Bytes(file)[at']
               before == Bytes(file)[at]
               riff == RiffSize(file)
               c == CountedFor(s)
    <3>4. /\ counted = before + s + 8 /\ remaining >= riff - before /\ remaining' = remaining - c
          /\ counted \in Nat /\ before \in Nat /\ riff \in Int /\ s \in Nat /\ remaining \in Int
          /\ c \in Int /\ c <= s + 4
      BY <1>2, <2>2, <2>3, <3>1, <3>2, <3>3
    <3> HIDE DEF counted, before, riff, c
    <3>5. remaining' >= riff - counted
      BY <3>4
    <3> QED
      BY <3>5 DEF riff, counted
  <2>5. walk' = "buffers" => id = "data" /\ remaining' = remaining
    BY <1>4, <1>7
  <2> QED
    BY <1>4, <1>6, <2>1, <2>3, <2>4, <2>5
<1>12. FramesInStep'
  <2> USE DEF FrameBytes
  <2>1. /\ frame' = frame /\ delivered' = delivered
        /\ frame <= Frames(file) /\ \A i \in DOMAIN delivered : i <= Frames(file) => delivered[i] = i
    BY <1>1 DEF FramesInStep, ReadSubchunk
  <2>2. ~InData
    BY <1>1 DEF InData
  <2>3. Reached => Reached'
    BY <1>1, <1>2, <1>3 DEF Reached, IsData
  <2>4. ASSUME ~Reached', at' <= L PROVE frame' = 0 /\ delivered' = << >>
    BY <1>1, <1>2, <1>10, <2>1, <2>3, <2>4 DEF FramesInStep
  <2>5. ASSUME InData' PROVE FrameBytes * frame' + left' = file.chunks[at'].size /\ Len(delivered') = frame'
    <3>1. at' <= L /\ walk' = "buffers"
      BY <1>1, <2>5 DEF InData
    <3>2. id = "data" /\ IsData(at') /\ ~Reached /\ at <= L
      BY <1>2, <1>6, <1>7, <1>10, <3>1
    <3>3. frame = 0 /\ delivered = << >>
      BY <1>1, <3>2 DEF FramesInStep
    <3>4. left' = s /\ s = file.chunks[at'].size /\ s \in Nat
      BY <1>4, <1>6, <1>7, <3>1, <3>2
    <3> QED
      BY <2>1, <3>3, <3>4
  <2>6. ASSUME file.bits16, Reached', ~InData' PROVE Len(delivered') >= Frames(file)
    <3>1. Reached
      <4>1. CASE at' <= L
        <5>1. walk' # "buffers"
          BY <1>1, <2>6, <4>1 DEF InData
        <5>2. ~IsData(at')
          BY <1>6, <1>7, <2>6, <4>1, <5>1
        <5> QED
          BY <1>10, <2>6, <4>1, <5>2
      <4>2. CASE ~(at' <= L)
        <5>1. L <= at
          BY <1>2, <1>3, <4>2
        <5> QED
          BY <1>1, <1>2, <2>6, <5>1 DEF Reached, IsData
      <4> QED
        BY <4>1, <4>2
    <3> QED
      BY <1>1, <2>1, <2>2, <2>6, <3>1 DEF FramesInStep
  <2>7. ASSUME Walkable(file), walk' \in {"leaving", "returned"}
        PROVE  Len(delivered') >= Frames(file)
    <3>1. file.bits16 /\ id # "data" /\ ~(CountedFor(s) >= 0)
      BY <1>7, <2>7 DEF Walkable
    <3>2. CASE Reached
      BY <1>1, <2>1, <2>2, <3>1, <3>2 DEF FramesInStep
    <3>3. CASE ~Reached
      <4>1. ASSUME NEW d \in 1..L, IsData(d) PROVE FALSE
        <5>1. ~(d <= at)
          BY <1>2, <3>3, <4>1 DEF Reached
        <5>2. at' <= L /\ at' = at + 1 /\ at' # d
          BY <1>2, <1>3, <1>6, <3>1, <4>1, <5>1
        <5>3. at' \in 1..(d - 1)
          BY <1>2, <1>5, <5>1, <5>2
        <5>4. DOMAIN file.chunks = 1..L
          BY <1>2, FileSubchunks
        <5>5. d \in DataSubchunks(file)
          BY <4>1, <5>4 DEF DataSubchunks, IsData
        <5>6. file.chunks[at'].size + 4 < Half
          BY <2>7, <5>3, <5>5 DEF Walkable
        <5>7. s + 4 < Half
          BY <1>6, <5>2, <5>6
        <5> QED
          BY <1>6, <3>1, <5>7, SizesAreNumbers
      <4>2. Frames(file) = 0
        BY <1>1, <4>1, Reaching
      <4>3. Len(delivered') \in Nat
        BY <1>1, <2>1, WAVTypes
      <4> QED
        BY <4>2, <4>3
    <3> QED
      BY <3>2, <3>3
  <2> QED
    BY <1>1, <2>1, <2>4, <2>5, <2>6, <2>7 DEF FramesInStep
<1> QED
  BY <1>8, <1>9, <1>11, <1>12 DEF WAVIInv

(* A read into the buffer: what it leaves there, and what is delivered.    *)
LEMMA BufferRead ==
  ASSUME WAVIInv, NEW n \in 0..Buffer, ~AtEnd => frame + n <= Frames(file)
  PROVE  /\ BufferAfter(n) \in [1..Buffer -> 0..Frames(file)]
         /\ FrameAfter(n) \in Nat
         /\ FrameAfter(n) <= Frames(file)
         /\ ~AtEnd => /\ FrameAfter(n) = frame + n
                      /\ \A i \in 1..n : BufferAfter(n)[i] = frame + i
<1>1. /\ frame \in Nat /\ Frames(file) \in Nat /\ Buffer \in Nat
      /\ dataBuffer \in [1..Buffer -> 0..Frames(file)]
      /\ frame <= Frames(file)
  BY WAVTypes DEF WAVIInv, FramesInStep
<1>2. BufferAfter(n) \in [1..Buffer -> 0..Frames(file)]
  BY <1>1 DEF BufferAfter
<1>3. FrameAfter(n) \in Nat /\ FrameAfter(n) <= Frames(file)
  BY <1>1 DEF FrameAfter
<1>4. ASSUME ~AtEnd
      PROVE  FrameAfter(n) = frame + n /\ \A i \in 1..n : BufferAfter(n)[i] = frame + i
  BY <1>1, <1>4 DEF FrameAfter, BufferAfter
<1> QED
  BY <1>2, <1>3, <1>4

(* Frames appended to those of the file are not counted among them, and    *)
(* the file's own follow each other.                                       *)
LEMMA FramesAppended ==
  ASSUME NEW S, NEW d \in Seq(S), NEW e \in Seq(S), NEW total \in Nat, NEW k \in Nat,
         \A i \in DOMAIN d : i <= total => d[i] = i,
         \/ Len(d) >= total
         \/ /\ k <= Len(e) /\ Len(d) + k <= total
            /\ \A i \in 1..k : e[i] = Len(d) + i
            /\ k = Len(e) \/ Len(d) + k = total
  PROVE  /\ d \o e \in Seq(S)
         /\ Len(d \o e) = Len(d) + Len(e)
         /\ \A i \in DOMAIN (d \o e) : i <= total => (d \o e)[i] = i
<1>1. /\ Len(d) \in Nat /\ Len(e) \in Nat
      /\ d \o e \in Seq(S)
      /\ Len(d \o e) = Len(d) + Len(e)
      /\ DOMAIN (d \o e) = 1..(Len(d) + Len(e))
      /\ DOMAIN d = 1..Len(d)
  OBVIOUS
<1>2. ASSUME NEW i \in 1..(Len(d) + Len(e)), i <= total PROVE (d \o e)[i] = i
  <2>1. CASE i <= Len(d)
    <3>1. (d \o e)[i] = d[i] /\ i \in DOMAIN d
      BY <1>1, <2>1
    <3> QED
      BY <1>2, <3>1
  <2>2. CASE i > Len(d)
    <3>1. (d \o e)[i] = e[i - Len(d)] /\ i - Len(d) \in 1..Len(e) /\ ~(Len(d) >= total)
      BY <1>1, <1>2, <2>2
    <3>2. i - Len(d) \in 1..k
      BY <1>1, <1>2, <3>1
    <3> QED
      BY <1>1, <3>1, <3>2
  <2> QED
    BY <1>1, <2>1, <2>2
<1> QED
  BY <1>1, <1>2

(* How many whole frames there are in so many bytes.                       *)
LEMMA WholeFrames ==
  ASSUME NEW bytes \in Nat, NEW k \in Nat, 4 * k <= bytes, bytes < 4 * (k + 1)
  PROVE  bytes \div 4 = k
OBVIOUS

(* Where a read ends that leaves less than a frame behind.                *)
LEMMA LastFrames ==
  ASSUME NEW done \in Nat, NEW k \in Nat, NEW rest \in Nat, NEW bytes \in Nat,
         4 * done + rest = bytes, 4 * k <= rest, rest < 4 * (k + 1)
  PROVE  bytes \div 4 = done + k
<1>1. done + k \in Nat
  OBVIOUS
<1>2. 4 * (done + k) <= bytes
  OBVIOUS
<1>3. bytes < 4 * ((done + k) + 1)
  OBVIOUS
<1> QED
  BY <1>1, <1>2, <1>3, WholeFrames

(* A step that reads n frames and delivers e, in the data or behind the    *)
(* end of the file, keeps everything but perhaps what is left to read.     *)
LEMMA ReadKeeps ==
  ASSUME WAVIInv, walk = "buffers", walk' = "buffers",
         UNCHANGED <<file, at, remaining, lastId, size, dataRead, stream>>,
         NEW n \in 0..Buffer, NEW e \in Seq(0..Frames(file) \cup {Beyond}),
         dataBuffer' = BufferAfter(n), frame' = FrameAfter(n), delivered' = Noted(e),
         left' \in Sizes,
         ~AtEnd => \/ /\ FrameBytes * frame + left = file.chunks[at].size /\ Len(delivered) = frame
                      /\ FrameBytes * n <= left /\ n <= Len(e)
                      /\ \A i \in 1..n : e[i] = BufferAfter(n)[i]
                      /\ \/ Len(e) = n /\ left' = left - FrameBytes * n
                         \/ left' = 0 /\ left < FrameBytes * (n + 1)
                   \/ n = 0 /\ left = 0 /\ left' = 0 /\ Len(delivered) >= Frames(file)
  PROVE  WAVIInv'
<1> USE DEF FrameBytes
<1> DEFINE L == Len(file.chunks)
<1>1. WAVTypeOK /\ StreamInStep /\ WalkInStep /\ FramesInStep
  BY DEF WAVIInv
<1>2. /\ file \in Files /\ L \in Nat /\ at \in 0..(L + 1) /\ at > 0 /\ file.bits16
      /\ frame \in Nat /\ left \in Nat /\ Frames(file) \in Nat /\ Buffer \in Nat
      /\ delivered \in Seq(0..Frames(file) \cup {Beyond})
      /\ AtEnd <=> at > L
      /\ InData <=> ~AtEnd
      /\ frame <= Frames(file)
      /\ \A i \in DOMAIN delivered : i <= Frames(file) => delivered[i] = i
  BY <1>1, WAVTypes DEF AtEnd, StreamInStep, InData, FramesInStep
<1>3. Len(delivered) \in Nat /\ Len(e) \in Nat
  BY <1>2
<1>4. ASSUME ~AtEnd
      PROVE  /\ at \in 1..L /\ IsData(at) /\ Reached
             /\ file.chunks[at].size \in Nat
             /\ Frames(file) = file.chunks[at].size \div FrameBytes
  <2>1. at \in 1..L /\ IsData(at)
    BY <1>1, <1>2, <1>4 DEF WalkInStep
  <2>2. file.chunks[at].size \in Nat
    BY <1>2, <2>1, FileSubchunks
  <2> QED
    BY <1>1, <1>2, <2>1, <2>2, Reaching
<1>5. ~AtEnd => frame + n <= Frames(file)
  <2> SUFFICES ASSUME ~AtEnd PROVE frame + n <= Frames(file)
    OBVIOUS
  <2>1. \/ 4 * frame + 4 * n <= file.chunks[at].size
        \/ n = 0
    BY <1>2
  <2>2. file.chunks[at].size \in Nat /\ Frames(file) = file.chunks[at].size \div 4
    BY <1>4
  <2>3. frame \in Nat /\ n \in Nat /\ frame <= Frames(file)
    BY <1>2
  <2>4. CASE n = 0
    BY <2>3, <2>4
  <2>5. CASE n # 0
    <3> DEFINE s == file.chunks[at].size
    <3>1. s \in Int /\ Frames(file) = s \div 4
      BY <2>2
    <3>2. 4 * frame + 4 * n <= s
      BY <2>1, <2>5
    <3> HIDE DEF s
    <3>3. 4 * (frame + n) <= s /\ frame + n \in Int /\ 4 \in Nat \ {0}
      BY <2>3, <3>2
    <3>4. frame + n <= s \div 4
      BY <3>1, <3>3, QuotientBetween
    <3> QED
      BY <3>1, <3>4
  <2> QED
    BY <2>4, <2>5
<1>6. /\ dataBuffer' \in [1..Buffer -> 0..Frames(file)]
      /\ frame' \in Nat /\ frame' <= Frames(file)
      /\ ~AtEnd => frame' = frame + n /\ \A i \in 1..n : BufferAfter(n)[i] = frame + i
  BY <1>5, BufferRead
<1>7. AtEnd => Len(delivered) >= Frames(file)
  <2> SUFFICES ASSUME AtEnd PROVE Len(delivered) >= Frames(file)
    OBVIOUS
  <2>1. CASE Reached
    BY <1>1, <1>2, <2>1 DEF FramesInStep
  <2>2. CASE ~Reached
    <3>1. Frames(file) = 0
      BY <1>1, <1>2, <2>2, Reaching
    <3> QED
      BY <1>3, <3>1
  <2> QED
    BY <2>1, <2>2
<1>8. /\ delivered' \in Seq(0..Frames(file) \cup {Beyond})
      /\ Len(delivered) > Frames(file) => Len(delivered') = Len(delivered)
      /\ ~(Len(delivered) > Frames(file)) => Len(delivered') = Len(delivered) + Len(e)
      /\ \A i \in DOMAIN delivered' : i <= Frames(file) => delivered'[i] = i
  <2>1. \/ Len(delivered) >= Frames(file)
        \/ /\ n <= Len(e) /\ Len(delivered) + n <= Frames(file)
           /\ \A i \in 1..n : e[i] = Len(delivered) + i
           /\ n = Len(e) \/ Len(delivered) + n = Frames(file)
    <3>1. CASE AtEnd
      BY <1>7, <3>1
    <3>2. CASE ~AtEnd /\ ~(Len(delivered) >= Frames(file))
      <4>1. /\ 4 * frame + left = file.chunks[at].size /\ Len(delivered) = frame
            /\ 4 * n <= left /\ n <= Len(e)
            /\ \A i \in 1..n : e[i] = BufferAfter(n)[i]
            /\ Len(e) = n \/ left < 4 * (n + 1)
        BY <3>2
      <4>2. left < 4 * (n + 1) => frame + n = Frames(file)
        <5> DEFINE s == file.chunks[at].size
        <5>1. Frames(file) = s \div 4 /\ s \in Nat
          BY <1>4, <3>2
        <5>2. 4 * frame + left = s /\ 4 * n <= left
          BY <4>1
        <5>3. frame \in Nat /\ n \in Nat /\ left \in Nat
          BY <1>2
        <5> HIDE DEF s
        <5>4. left < 4 * (n + 1) => s \div 4 = frame + n
          BY <5>1, <5>2, <5>3, LastFrames
        <5> QED
          BY <5>1, <5>4
      <4> QED
        BY <1>2, <1>5, <1>6, <3>2, <4>1, <4>2
    <3> QED
      BY <3>1, <3>2
  <2>2. n \in Nat /\ Frames(file) \in Nat
    BY <1>2
  <2>3. \A i \in DOMAIN delivered : i <= Frames(file) => delivered[i] = i
    BY <1>2
  <2> DEFINE S == 0..Frames(file) \cup {Beyond}
             total == Frames(file)
  <2>4. delivered \in Seq(S) /\ e \in Seq(S)
    BY <1>2
  <2>5. /\ total \in Nat
        /\ \A i \in DOMAIN delivered : i <= total => delivered[i] = i
    BY <2>2, <2>3
  <2>6. \/ Len(delivered) >= total
        \/ /\ n <= Len(e) /\ Len(delivered) + n <= total
           /\ \A i \in 1..n : e[i] = Len(delivered) + i
           /\ n = Len(e) \/ Len(delivered) + n = total
    BY <2>1
  <2> HIDE DEF S, total
  <2>7. n \in Nat
    BY <2>2
  <2>8. /\ delivered \o e \in Seq(S)
        /\ Len(delivered \o e) = Len(delivered) + Len(e)
        /\ \A i \in DOMAIN (delivered \o e) : i <= total => (delivered \o e)[i] = i
    BY ONLY <2>4, <2>5, <2>6, <2>7, FramesAppended
  <2>9. delivered' = IF Len(delivered) > total THEN delivered ELSE delivered \o e
    BY DEF Noted, total
  <2> QED
    BY <2>4, <2>5, <2>8, <2>9 DEF S, total
<1>9. WAVTypeOK'
  <2>1. size \in Sizes
    BY <1>1, WAVTypes
  <2>2. {size', left'} \subseteq Sizes
    BY <2>1, Zenon
  <2> QED
    BY <1>1, <1>6, <1>8, <2>2, Zenon DEF WAVTypeOK
<1>10. StreamInStep' /\ WalkInStep'
  BY <1>1 DEF StreamInStep, WalkInStep, IsData
<1>11. FramesInStep'
  <2>1. InData' <=> ~AtEnd
    BY <1>2 DEF InData
  <2>2. Reached' <=> Reached
    BY DEF Reached, IsData
  <2>3. ASSUME ~AtEnd
        PROVE  \/ FrameBytes * frame' + left' = file.chunks[at].size /\ Len(delivered') = frame'
               \/ left' = 0 /\ Len(delivered') >= Frames(file)
    <3>1. CASE n = 0 /\ left = 0 /\ left' = 0 /\ Len(delivered) >= Frames(file)
      BY <1>2, <1>3, <1>8, <3>1
    <3>2. CASE /\ FrameBytes * frame + left = file.chunks[at].size /\ Len(delivered) = frame
               /\ FrameBytes * n <= left /\ n <= Len(e)
               /\ Len(e) = n /\ left' = left - FrameBytes * n
      BY <1>2, <1>3, <1>4, <1>6, <1>8, <2>3, <3>2
    <3>3. CASE /\ FrameBytes * frame + left = file.chunks[at].size /\ Len(delivered) = frame
               /\ FrameBytes * n <= left /\ n <= Len(e)
               /\ left' = 0 /\ left < FrameBytes * (n + 1)
      <4>1. Frames(file) = frame + n
        <5> DEFINE s == file.chunks[at].size
        <5>1. Frames(file) = s \div 4 /\ s \in Nat
          BY <1>4, <2>3
        <5>2. 4 * frame + left = s /\ 4 * n <= left /\ left < 4 * (n + 1)
          BY <3>3
        <5>3. frame \in Nat /\ n \in Nat /\ left \in Nat
          BY <1>2
        <5> HIDE DEF s
        <5>4. s \div 4 = frame + n
          BY <5>1, <5>2, <5>3, LastFrames
        <5> QED
          BY <5>1, <5>4
      <4>2. Len(delivered) = frame /\ n <= Len(e) /\ left' = 0
        BY <3>3
      <4>3. Len(delivered') = Len(delivered) + Len(e)
        BY <1>2, <1>8, <4>2
      <4>4. frame + n <= Len(delivered')
        BY <1>2, <1>3, <4>2, <4>3
      <4> QED
        BY <4>1, <4>2, <4>4
    <3> QED
      BY <2>3, <3>1, <3>2, <3>3
  <2>4. ~AtEnd => Reached
    BY <1>4
  <2>5. AtEnd => Len(delivered') >= Frames(file)
    BY <1>2, <1>3, <1>7, <1>8
  <2>6. at <= Len(file.chunks) <=> ~AtEnd
    BY <1>2
  <2> QED
    BY <1>6, <1>8, <2>1, <2>2, <2>3, <2>4, <2>5, <2>6 DEF FramesInStep
<1> QED
  BY <1>9, <1>10, <1>11 DEF WAVIInv

(* A whole buffer is read and given on.                                    *)
LEMMA BufferKeepsWAV ==
  ASSUME WAVIInv, ReadBuffer
  PROVE  WAVIInv'
<1>1. /\ walk = "buffers" /\ walk' = "buffers"
      /\ UNCHANGED <<file, at, remaining, lastId, size, dataRead, stream>>
      /\ left >= Buffer * FrameBytes /\ left' = left - Buffer * FrameBytes
      /\ dataBuffer' = BufferAfter(Buffer) /\ frame' = FrameAfter(Buffer)
      /\ delivered' = Noted(dataBuffer')
  BY DEF ReadBuffer
<1>2. /\ Buffer \in Nat /\ Buffer > 0 /\ left \in Nat /\ frame \in Nat /\ Frames(file) \in Nat
      /\ file \in Files /\ at \in 0..(Len(file.chunks) + 1) /\ Len(file.chunks) \in Nat
  BY WAVTypes DEF WAVIInv
<1>3. ~AtEnd => FrameBytes * frame + left = file.chunks[at].size /\ Len(delivered) = frame
  BY <1>1, <1>2 DEF WAVIInv, FramesInStep, InData, AtEnd, FrameBytes
<1>4. ~AtEnd => frame + Buffer <= Frames(file)
  <2> SUFFICES ASSUME ~AtEnd PROVE frame + Buffer <= Frames(file)
    OBVIOUS
  <2>1. at \in 1..Len(file.chunks) /\ IsData(at)
    BY <1>1, <1>2 DEF WAVIInv, StreamInStep, WalkInStep, AtEnd
  <2>2. Frames(file) = file.chunks[at].size \div 4 /\ file.chunks[at].size \in Nat
    BY <1>2, <2>1, Reaching, FileSubchunks DEF WAVIInv, FrameBytes
  <2>3. 4 * (frame + Buffer) <= file.chunks[at].size
    BY <1>1, <1>2, <1>3, <2>2 DEF FrameBytes
  <2> QED
    BY <1>2, <2>2, <2>3
<1>5. /\ BufferAfter(Buffer) \in [1..Buffer -> 0..Frames(file)]
      /\ ~AtEnd => \A i \in 1..Buffer : BufferAfter(Buffer)[i] = frame + i
  <2>1. Buffer \in 0..Buffer
    BY <1>2
  <2> QED
    BY <1>4, <2>1, BufferRead
<1> DEFINE e == dataBuffer'
<1>6. e \in Seq(0..Frames(file) \cup {Beyond}) /\ Len(e) = Buffer
  <2>1. e \in [1..Buffer -> 0..Frames(file) \cup {Beyond}]
    BY <1>1, <1>5
  <2> QED
    BY <1>2, <2>1
<1>7. left' \in Sizes
  <2>1. left' \in Nat /\ left' <= left
    BY <1>1, <1>2 DEF FrameBytes
  <2>2. left \in Sizes
    BY WAVTypes DEF WAVIInv
  <2> QED
    BY <2>1, <2>2, SizesAreNumbers
<1> QED
  <2>1. Buffer \in 0..Buffer
    BY <1>2
  <2>2. ~AtEnd => /\ FrameBytes * Buffer <= left /\ Buffer <= Len(e)
                  /\ \A i \in 1..Buffer : e[i] = BufferAfter(Buffer)[i]
                  /\ Len(e) = Buffer /\ left' = left - FrameBytes * Buffer
    BY <1>1, <1>2, <1>6 DEF FrameBytes
  <2> HIDE DEF e
  <2> QED
    BY <1>1, <1>3, <1>6, <1>7, <2>1, <2>2, ReadKeeps DEF e

(* So is the rest of the data, and what the read left in size behind it.   *)
LEMMA RemainderKeepsWAV ==
  ASSUME WAVIInv, ReadRemainder
  PROVE  WAVIInv'
<1> DEFINE n == left \div FrameBytes
           e == [i \in 1..SampleCount(n) |-> IF i <= Buffer THEN dataBuffer'[i] ELSE Beyond]
<1>1. /\ walk = "buffers" /\ walk' = "buffers"
      /\ UNCHANGED <<file, at, remaining, lastId, size, dataRead, stream>>
      /\ left \in 1..(Buffer * FrameBytes - 1) /\ left' = 0
      /\ dataBuffer' = BufferAfter(n) /\ frame' = FrameAfter(n)
      /\ delivered' = Noted(e)
  BY DEF ReadRemainder
<1>2. /\ Buffer \in Nat /\ Buffer > 0 /\ left \in Nat /\ frame \in Nat /\ Frames(file) \in Nat
      /\ file \in Files /\ at \in 0..(Len(file.chunks) + 1) /\ Len(file.chunks) \in Nat
  BY WAVTypes DEF WAVIInv
<1>3. n \in 0..Buffer /\ 4 * n <= left /\ left < 4 * (n + 1)
  BY <1>1, <1>2 DEF FrameBytes
<1>4. ~AtEnd => FrameBytes * frame + left = file.chunks[at].size /\ Len(delivered) = frame
  BY <1>1, <1>2 DEF WAVIInv, FramesInStep, InData, AtEnd
<1> HIDE DEF n
<1>5. ~AtEnd => frame + n <= Frames(file)
  <2> SUFFICES ASSUME ~AtEnd PROVE frame + n <= Frames(file)
    OBVIOUS
  <2>1. at \in 1..Len(file.chunks) /\ IsData(at)
    BY <1>1, <1>2 DEF WAVIInv, StreamInStep, WalkInStep, AtEnd
  <2>2. Frames(file) = file.chunks[at].size \div 4 /\ file.chunks[at].size \in Nat
    BY <1>2, <2>1, Reaching, FileSubchunks DEF WAVIInv, FrameBytes
  <2> DEFINE s == file.chunks[at].size
  <2>3. s \in Nat /\ Frames(file) = s \div 4 /\ 4 * frame + left = s
    BY <1>4, <2>2 DEF FrameBytes
  <2> HIDE DEF s
  <2>4. 4 * (frame + n) <= s /\ frame + n \in Int
    BY <1>2, <1>3, <2>3
  <2>5. frame + n <= s \div 4
    BY <2>3, <2>4, QuotientBetween
  <2> QED
    BY <2>3, <2>5
<1>6. BufferAfter(n) \in [1..Buffer -> 0..Frames(file)]
  BY <1>3, <1>5, BufferRead
<1>7. /\ e \in Seq(0..Frames(file) \cup {Beyond}) /\ Len(e) = 2 * n
      /\ \A i \in 1..n : e[i] = BufferAfter(n)[i]
  <2>1. SampleCount(n) = 2 * n /\ 2 * n \in Nat
    BY <1>3 DEF SampleCount
  <2>2. e \in [1..(2 * n) -> 0..Frames(file) \cup {Beyond}]
    <3> SUFFICES ASSUME NEW i \in 1..(2 * n)
                 PROVE  (IF i <= Buffer THEN dataBuffer'[i] ELSE Beyond) \in 0..Frames(file) \cup {Beyond}
      BY <2>1
    <3>1. i <= Buffer => i \in 1..Buffer
      BY <1>2, <1>3
    <3> QED
      BY <1>1, <1>6, <3>1
  <2>3. \A i \in 1..n : i \in 1..(2 * n) /\ i <= Buffer
    BY <1>2, <1>3
  <2> DEFINE S == 0..Frames(file) \cup {Beyond}
  <2>4. e \in [1..(2 * n) -> S]
    BY <2>2
  <2>5. e \in Seq(S) /\ Len(e) = 2 * n
    <3> HIDE DEF e, S
    <3> QED
      BY <2>1, <2>4
  <2>6. \A i \in 1..n : e[i] = BufferAfter(n)[i]
    BY <1>1, <2>1, <2>3
  <2> QED
    BY <2>5, <2>6
<1> HIDE DEF e
<1>8. ~AtEnd => FrameBytes * n <= left /\ n <= Len(e) /\ left < FrameBytes * (n + 1)
  BY <1>3, <1>7 DEF FrameBytes
<1>9. left' \in Sizes
  <2>1. left \in Sizes
    BY WAVTypes DEF WAVIInv
  <2> QED
    BY <1>1, <1>2, <2>1, SizesAreNumbers
<1> QED
  BY <1>1, <1>3, <1>4, <1>7, <1>8, <1>9, ReadKeeps

(* When the data has been read the walk goes on behind its subchunk.       *)
LEMMA DataReadKeepsWAV ==
  ASSUME WAVIInv, DataIsRead
  PROVE  WAVIInv'
<1> DEFINE L == Len(file.chunks)
<1>1. /\ WAVTypeOK /\ StreamInStep /\ WalkInStep /\ FramesInStep
      /\ walk = "buffers" /\ left = 0
      /\ walk' = IF CountedFor(size) < 0 THEN "leaving" ELSE "subchunks"
      /\ remaining' = IF walk' = "subchunks" THEN remaining - CountedFor(size) ELSE remaining
      /\ UNCHANGED <<file, at, lastId, size, left, dataRead, dataBuffer, frame, delivered, stream>>
  BY DEF WAVIInv, DataIsRead
<1>2. /\ file \in Files /\ L \in Nat /\ at \in 0..(L + 1) /\ at > 0 /\ remaining \in Int /\ size \in Nat
      /\ frame \in Nat /\ Frames(file) \in Nat /\ Len(delivered) \in Nat
      /\ CountedFor(size) \in Int /\ CountedFor(size) <= size + 4
  BY <1>1, WAVTypes, SizesAreNumbers DEF StreamInStep
<1>3. WAVTypeOK'
  <2>1. remaining' \in Int
    BY <1>1, <1>2
  <2>2. walk' \in {"opening", "subchunks", "buffers", "leaving", "returned"}
    BY <1>1
  <2> QED
    BY <1>1, <2>1, <2>2, Zenon DEF WAVTypeOK
<1>4. StreamInStep'
  BY <1>1 DEF StreamInStep
<1>5. WalkInStep'
  <2> SUFFICES ASSUME at <= L, walk' = "subchunks" PROVE remaining' >= RiffSize(file) - Bytes(file)[at]
    BY <1>1 DEF WalkInStep
  <2>1. /\ IsData(at) /\ size = file.chunks[at].size
        /\ remaining >= RiffSize(file) - Bytes(file)[at - 1]
    BY <1>1 DEF WalkInStep
  <2>2. at \in 0..L /\ at - 1 \in 0..L
    BY <1>2
  <2>3. /\ Bytes(file)[at] = Bytes(file)[at - 1] + size + 8
        /\ Bytes(file)[at] \in Nat /\ Bytes(file)[at - 1] \in Nat /\ RiffSize(file) \in Int
    BY <1>2, <2>1, <2>2, BytesOf, FileSubchunks
  <2> DEFINE c == CountedFor(size)
  <2>4. remaining' = remaining - c /\ c \in Int /\ c <= size + 4
    BY <1>1, <1>2
  <2> DEFINE counted == Bytes(file)[at]
             before == Bytes(file)[at - 1]
             riff == RiffSize(file)
  <2>5. /\ counted = before + size + 8 /\ remaining >= riff - before
        /\ counted \in Nat /\ before \in Nat /\ riff \in Int /\ size \in Nat /\ remaining \in Int
    BY <1>2, <2>1, <2>3
  <2> HIDE DEF counted, before, riff, c
  <2>6. remaining' >= riff - counted
    BY <2>4, <2>5
  <2> QED
    BY <2>6 DEF riff, counted
<1>6. FramesInStep'
  <2>1. InData => Len(delivered) >= Frames(file)
    <3> SUFFICES ASSUME InData, FrameBytes * frame + left = file.chunks[at].size, Len(delivered) = frame
                 PROVE  frame >= Frames(file)
      BY <1>1, <1>2 DEF FramesInStep
    <3>1. at \in 1..L /\ IsData(at)
      BY <1>1, <1>2 DEF InData, WalkInStep
    <3>2. Frames(file) = file.chunks[at].size \div 4 /\ file.chunks[at].size = 4 * frame
      BY <1>1, <1>2, <3>1, Reaching DEF FrameBytes
    <3> QED
      BY <1>2, <3>2
  <2>2. ~InData' /\ (Reached' <=> Reached)
    BY <1>1 DEF InData, Reached, IsData
  <2>3. ~InData /\ ~Reached => Frames(file) = 0
    BY <1>1, <1>2, Reaching DEF InData
  <2>4. Walkable(file) => Len(delivered) >= Frames(file)
    BY <1>1, <1>2, <2>1, <2>3 DEF FramesInStep, Walkable
  <2> QED
    BY <1>1, <2>1, <2>2, <2>4 DEF FramesInStep
<1> QED
  BY <1>3, <1>4, <1>5, <1>6 DEF WAVIInv

(* Run() leaves the loop no earlier than the last subchunk, if the header  *)
(* says as much as there is.                                               *)
LEMMA LeavingKeepsWAV ==
  ASSUME WAVIInv, LeaveLoop
  PROVE  WAVIInv'
<1> DEFINE L == Len(file.chunks)
<1>1. /\ WAVTypeOK /\ StreamInStep /\ WalkInStep /\ FramesInStep
      /\ walk = "subchunks" /\ walk' = "leaving" /\ remaining <= 0
      /\ UNCHANGED <<file, at, remaining, lastId, size, left, dataRead, dataBuffer, frame, delivered,
                     stream>>
  BY DEF WAVIInv, LeaveLoop
<1>2. /\ file \in Files /\ L \in Nat /\ at \in 0..(L + 1) /\ remaining \in Int
      /\ Frames(file) \in Nat /\ Len(delivered) \in Nat
  BY <1>1, WAVTypes
<1>3. WAVTypeOK'
  <2>1. walk' \in {"opening", "subchunks", "buffers", "leaving", "returned"}
    BY <1>1
  <2> QED
    BY <1>1, <2>1, Zenon DEF WAVTypeOK
<1>4. StreamInStep' /\ WalkInStep'
  BY <1>1 DEF StreamInStep, WalkInStep
<1>5. Walkable(file) => at >= L
  <2> SUFFICES ASSUME Walkable(file), at < L PROVE FALSE
    BY <1>2
  <2>1. at \in 0..L
    BY <1>2
  <2>2. Bytes(file)[at] < RiffSize(file) /\ Bytes(file)[at] \in Nat /\ RiffSize(file) \in Int
    <3>1. Bytes(file)[at] < Bytes(file)[L] /\ Bytes(file)[at] \in Nat /\ Bytes(file)[L] \in Nat
      BY <1>2, <2>1, BytesOf
    <3>2. RiffSize(file) >= Bytes(file)[L] /\ RiffSize(file) \in Int
      BY <1>2, FileSubchunks DEF Walkable
    <3> QED
      BY <3>1, <3>2
  <2>3. remaining >= RiffSize(file) - Bytes(file)[at]
    BY <1>1, <1>2 DEF WalkInStep
  <2> QED
    BY <1>1, <1>2, <2>2, <2>3
<1>6. Walkable(file) => Len(delivered) >= Frames(file)
  <2> SUFFICES ASSUME Walkable(file) PROVE Len(delivered) >= Frames(file)
    OBVIOUS
  <2>1. CASE Reached
    BY <1>1, <2>1 DEF FramesInStep, InData, Walkable
  <2>2. CASE ~Reached
    <3>1. Frames(file) = 0
      BY <1>1, <1>5, <2>2, Reaching
    <3> QED
      BY <1>2, <3>1
  <2> QED
    BY <2>1, <2>2
<1>7. FramesInStep'
  <2>1. ~InData' /\ ~InData /\ (Reached' <=> Reached)
    BY <1>1 DEF InData, Reached, IsData
  <2> QED
    BY <1>1, <1>6, <2>1 DEF FramesInStep
<1> QED
  BY <1>3, <1>4, <1>7 DEF WAVIInv

(* run() returns with everything given on.                                 *)
LEMMA ReturnKeepsWAV ==
  ASSUME WAVIInv, EndRun
  PROVE  WAVIInv'
<1>1. /\ WAVTypeOK /\ StreamInStep /\ WalkInStep /\ FramesInStep
      /\ walk = "leaving" /\ walk' = "returned"
      /\ stream' = IF dataRead THEN "ended" ELSE stream
      /\ UNCHANGED <<file, at, remaining, lastId, size, left, dataRead, dataBuffer, frame, delivered>>
  BY DEF WAVIInv, EndRun
<1>2. WAVTypeOK'
  <2>1. /\ walk' \in {"opening", "subchunks", "buffers", "leaving", "returned"}
        /\ stream' \in {"none", "open", "ended"}
    BY <1>1 DEF WAVTypeOK
  <2> QED
    BY <1>1, <2>1, Zenon DEF WAVTypeOK
<1>3. StreamInStep' /\ WalkInStep'
  BY <1>1 DEF StreamInStep, WalkInStep
<1>4. FramesInStep'
  <2>1. ~InData' /\ ~InData /\ (Reached' <=> Reached)
    BY <1>1 DEF InData, Reached, IsData
  <2> QED
    BY <1>1, <2>1 DEF FramesInStep
<1> QED
  BY <1>2, <1>3, <1>4 DEF WAVIInv

(* The walk keeps its invariant, whatever it does next and whenever the    *)
(* program does something else.                                            *)
LEMMA WAVInductive ==
  ASSUME WAVIInv, WAVNext \/ UNCHANGED wavVars
  PROVE  WAVIInv'
<1>1. CASE WAVNext
  BY <1>1, HeaderKeepsWAV, SubchunkKeepsWAV, BufferKeepsWAV, RemainderKeepsWAV, DataReadKeepsWAV,
     LeavingKeepsWAV, ReturnKeepsWAV DEF WAVNext
<1>2. CASE UNCHANGED wavVars
  <2>1. WAVTypeOK'
    BY <1>2, Zenon DEF WAVIInv, WAVTypeOK, wavVars
  <2>2. StreamInStep' /\ WalkInStep'
    BY <1>2 DEF WAVIInv, StreamInStep, WalkInStep, IsData, wavVars
  <2>3. FramesInStep'
    BY <1>2 DEF WAVIInv, FramesInStep, InData, Reached, IsData, wavVars
  <2> QED
    BY <2>1, <2>2, <2>3 DEF WAVIInv
<1> QED
  BY <1>1, <1>2

(* Between its steps, the invariant is what FileComesFirst says.           *)
LEMMA WAVGivesFile ==
  ASSUME WAVIInv
  PROVE  FileComesFirst
BY DEF WAVIInv, StreamInStep, FramesInStep, FileComesFirst

-----------------------------------------------------------------------------
(* The program around it.                                                  *)

SignalCalls == {"install", "push", "pop", "uninstall"} \X Signals

\* What onRun() has still to call removes no callback before run(), and run()
\* is over when it tears down.
CallsInStep ==
  /\ todo \in Seq(SignalCalls)
  /\ main = "setting up" => \A i \in 1..Len(todo) : todo[i][1] # "pop"
  /\ main = "tearing down" => walk = "returned"

\* A handler on a thread of the stream, or on the main one, has its callback,
\* the worker is in one only while the stream is open, and an agent the
\* program does not have has no thread.
HandlersInStep ==
  /\ \A t \in {"main", "worker"} : handler[t] # "none" => callbacks["INT"] > 0
  /\ handler["worker"] # "none" => stream = "open"
  /\ \A a \in Agents \ agents : agent[a] = "none" /\ handler[a] = "none"

\* AppTypeOK, less the file's.
ProgramTypeOK ==
  /\ agents \subseteq Agents
  /\ main \in {"setting up", "starting", "running", "joining", "tearing down"}
  /\ exited \in {"no", "returned", "killed", "terminated"}
  /\ disposition \in [Signals -> {"default", "handler"}]
  /\ callbacks \in [Signals -> 0..1]
  /\ handler \in [Threads -> {"none", "requesting", "stopping", "joining"}]
  /\ started \subseteq agents
  /\ requested \subseteq agents
  /\ agent \in [Agents -> {"none", "testing", "draining", "ended"}]
  /\ {stopping, asleep} \subseteq BOOLEAN
  /\ interrupts \in 0..MaxInterrupts

AppIInv == WAVIInv /\ ProgramTypeOK /\ CallsInStep /\ HandlersInStep

(* The calls on either side of run().                                      *)
LEMMA BeforeAndAfter ==
  /\ Before \in Seq(SignalCalls) /\ After \in Seq(SignalCalls)
  /\ \A i \in 1..Len(Before) : Before[i][1] # "pop"
<1>1. /\ <<"install", "INT">> \in SignalCalls /\ <<"push", "INT">> \in SignalCalls
      /\ <<"install", "TERM">> \in SignalCalls /\ <<"push", "TERM">> \in SignalCalls
      /\ <<"pop", "TERM">> \in SignalCalls /\ <<"uninstall", "TERM">> \in SignalCalls
      /\ <<"pop", "INT">> \in SignalCalls /\ <<"uninstall", "INT">> \in SignalCalls
  BY DEF SignalCalls, Signals
<1>2. Before \in Seq(SignalCalls) /\ After \in Seq(SignalCalls)
  <2> HIDE DEF SignalCalls
  <2> QED
    BY <1>1 DEF Before, After
<1>3. ASSUME NEW i \in 1..Len(Before) PROVE Before[i][1] # "pop"
  BY DEF Before
<1> QED
  BY <1>2, <1>3

(* Before onRun() has called anything.                                     *)
LEMMA AppInitially ==
  ASSUME AppInit
  PROVE  AppIInv
<1>1. WAVIInv
  BY WAVInitially DEF AppInit
<1>2. ProgramTypeOK
  <2>1. agents \subseteq Agents
    BY DEF AppInit
  <2>2. main = "setting up" /\ exited = "no" /\ started = {} /\ requested = {}
    BY DEF AppInit
  <2>3. disposition \in [Signals -> {"default", "handler"}]
    BY DEF AppInit
  <2>4. callbacks \in [Signals -> 0..1]
    <3>1. callbacks = [s \in Signals |-> 0]
      BY Zenon DEF AppInit
    <3>2. 0 \in 0..1
      OBVIOUS
    <3> QED
      BY <3>1, <3>2, Zenon
  <2>5. handler \in [Threads -> {"none", "requesting", "stopping", "joining"}]
    BY DEF AppInit
  <2>6. agent \in [Agents -> {"none", "testing", "draining", "ended"}]
    BY DEF AppInit
  <2>7. {stopping, asleep} \subseteq BOOLEAN
    BY Zenon DEF AppInit
  <2>8. interrupts \in 0..MaxInterrupts
    <3>1. interrupts = 0
      BY DEF AppInit
    <3>2. MaxInterrupts \in Nat
      BY AppAssumption DEF AppAssumption
    <3> QED
      BY <3>1, <3>2
  <2> QED
    BY <2>1, <2>2, <2>3, <2>4, <2>5, <2>6, <2>7, <2>8 DEF ProgramTypeOK
<1>3. CallsInStep
  BY BeforeAndAfter DEF AppInit, CallsInStep
<1>4. HandlersInStep
  BY DEF AppInit, HandlersInStep, Threads
<1> QED
  BY <1>1, <1>2, <1>3, <1>4 DEF AppIInv

(* The main thread's calls: a callback goes only when the stream is gone.  *)
LEMMA CallKeeps ==
  ASSUME AppIInv, Call
  PROVE  AppIInv'
<1>1. /\ WAVIInv /\ ProgramTypeOK /\ CallsInStep /\ HandlersInStep
      /\ UNCHANGED <<wavVars, agents, exited, handler, started, requested, agent, stopping, asleep,
                  interrupts>>
  BY DEF AppIInv, Call
<1>2. WAVIInv'
  BY <1>1, WAVInductive
<1> DEFINE call == todo[1][1]
           sig == todo[1][2]
<1>3. /\ todo # << >> /\ todo \in Seq(SignalCalls)
      /\ call \in {"install", "push", "pop", "uninstall"} /\ sig \in Signals
      /\ 1 \in 1..Len(todo)
  <2>1. todo # << >> /\ todo \in Seq(SignalCalls)
    BY <1>1 DEF Call, CallsInStep
  <2>2. todo[1] \in SignalCalls /\ 1 \in 1..Len(todo)
    <3> HIDE DEF SignalCalls
    <3> QED
      BY <2>1
  <2> QED
    BY <2>1, <2>2 DEF SignalCalls
<1>4. /\ handler["main"] = "none" /\ main \in {"setting up", "tearing down"}
      /\ disposition' = CASE call = "install"   -> [disposition EXCEPT ![sig] = "handler"]
                          [] call = "uninstall" -> [disposition EXCEPT ![sig] = "default"]
                          [] OTHER -> disposition
      /\ callbacks' = CASE call = "push" -> [callbacks EXCEPT ![sig] = 1]
                        [] call = "pop"  -> [callbacks EXCEPT ![sig] = 0]
                        [] OTHER -> callbacks
      /\ todo' = Tail(todo)
      /\ main' = IF Len(todo) = 1 /\ main = "setting up" THEN "starting" ELSE main
  BY DEF Call, MainCan
<1> HIDE DEF call, sig
<1>5. ProgramTypeOK'
  <2>1. disposition' \in [Signals -> {"default", "handler"}] /\ callbacks' \in [Signals -> 0..1]
    <3>1. \/ disposition' = disposition
          \/ \E to \in {"default", "handler"} : disposition' = [disposition EXCEPT ![sig] = to]
      <4>1. CASE call = "install"
        BY <1>4, <4>1
      <4>2. CASE call = "uninstall"
        BY <1>4, <4>2
      <4>3. CASE call \notin {"install", "uninstall"}
        BY <1>4, <4>3
      <4> QED
        BY <4>1, <4>2, <4>3
    <3>2. callbacks' \in {callbacks, [callbacks EXCEPT ![sig] = 0], [callbacks EXCEPT ![sig] = 1]}
      <4>1. CASE call = "push"
        BY <1>4, <4>1
      <4>2. CASE call = "pop"
        BY <1>4, <4>2
      <4>3. CASE call \notin {"push", "pop"}
        BY <1>4, <4>3
      <4> QED
        BY <4>1, <4>2, <4>3
    <3>3. disposition \in [Signals -> {"default", "handler"}] /\ callbacks \in [Signals -> 0..1]
      BY <1>1 DEF ProgramTypeOK
    <3>4. sig \in Signals
      BY <1>3
    <3> QED
      BY <3>1, <3>2, <3>3, <3>4
  <2>2. main' \in {"setting up", "starting", "running", "joining", "tearing down"}
    BY <1>4
  <2> QED
    BY <1>1, <2>1, <2>2 DEF ProgramTypeOK
<1>6. CallsInStep'
  <2>1. /\ todo' \in Seq(SignalCalls) /\ Len(todo') = Len(todo) - 1
        /\ \A i \in 1..Len(todo') : i + 1 \in 1..Len(todo) /\ todo'[i] = todo[i + 1]
    <3>1. todo # << >> /\ todo \in Seq(SignalCalls) /\ todo' = Tail(todo)
      BY <1>3, <1>4
    <3> HIDE DEF SignalCalls
    <3>2. todo' \in Seq(SignalCalls) /\ Len(todo') = Len(todo) - 1 /\ Len(todo) \in Nat
      BY <3>1
    <3>3. \A i \in 1..(Len(todo) - 1) : todo'[i] = todo[i + 1] /\ i + 1 \in 1..Len(todo)
      BY <3>1
    <3> QED
      BY <3>2, <3>3
  <2>2. main' = "setting up" => \A i \in 1..Len(todo') : todo'[i][1] # "pop"
    BY <1>1, <1>4, <2>1 DEF CallsInStep
  <2>3. main' = "tearing down" => walk' = "returned"
    BY <1>1, <1>4 DEF CallsInStep, wavVars
  <2> QED
    BY <2>1, <2>2, <2>3 DEF CallsInStep
<1>7. HandlersInStep'
  <2>1. call = "pop" => handler["worker"] = "none"
    <3> SUFFICES ASSUME call = "pop" PROVE stream # "open"
      BY <1>1 DEF HandlersInStep
    <3>1. main = "tearing down"
      BY <1>1, <1>3, <1>4 DEF CallsInStep, call
    <3>2. walk = "returned"
      BY <1>1, <3>1 DEF CallsInStep
    <3> QED
      BY <1>1, <3>2 DEF WAVIInv, StreamInStep
  <2>2. call # "pop" /\ callbacks["INT"] > 0 => callbacks'["INT"] > 0
    <3>1. call # "pop" => callbacks' = callbacks \/ callbacks' = [callbacks EXCEPT ![sig] = 1]
      BY <1>4
    <3>2. callbacks \in [Signals -> 0..1] /\ "INT" \in Signals /\ sig \in Signals
      BY <1>1, <1>3 DEF ProgramTypeOK, Signals
    <3> QED
      BY <3>1, <3>2
  <2>3. \A t \in {"main", "worker"} : handler'[t] # "none" => callbacks'["INT"] > 0
    BY <1>1, <1>4, <2>1, <2>2 DEF HandlersInStep
  <2> QED
    BY <1>1, <2>3 DEF HandlersInStep, wavVars
<1> QED
  BY <1>2, <1>5, <1>6, <1>7 DEF AppIInv

(* The stream: its worker leaves no handler behind.                        *)
LEMMA StreamKeeps ==
  ASSUME AppIInv, FrontendRuns \/ CloseChannel \/ JoinWorker
  PROVE  AppIInv'
<1>1. /\ WAVIInv /\ ProgramTypeOK /\ CallsInStep /\ HandlersInStep
      /\ WAVNext \/ UNCHANGED wavVars
      /\ main \in {"running", "joining"} /\ main' \in {"running", "joining"}
      /\ UNCHANGED <<agents, todo, exited, disposition, callbacks, handler, started, requested,
                     agent, stopping, interrupts>>
  <2>1. CASE FrontendRuns
    BY <2>1 DEF AppIInv, FrontendRuns, appVars
  <2>2. CASE CloseChannel
    BY <2>2 DEF AppIInv, CloseChannel
  <2>3. CASE JoinWorker
    BY <2>3 DEF AppIInv, JoinWorker, WorkerEnded, WAVNext
  <2> QED
    BY <2>1, <2>2, <2>3
<1>2. WAVIInv'
  BY <1>1, WAVInductive
<1>3. ProgramTypeOK' /\ CallsInStep'
  <2>1. asleep' = asleep \/ asleep' \in BOOLEAN
    BY DEF FrontendRuns, appVars, CloseChannel, JoinWorker
  <2>2. {stopping, asleep} \subseteq BOOLEAN
    BY <1>1 DEF ProgramTypeOK
  <2>3. {stopping', asleep'} \subseteq BOOLEAN
    BY <1>1, <2>1, <2>2, Zenon
  <2> QED
    BY <1>1, <2>3 DEF ProgramTypeOK, CallsInStep
<1>4. ASSUME handler["worker"] # "none" PROVE stream' = "open"
  <2>1. stream = "open" /\ dataRead /\ walk \notin {"opening", "returned"}
    BY <1>1, <1>4 DEF HandlersInStep, WAVIInv, StreamInStep
  <2>2. CASE FrontendRuns
    BY <2>1, <2>2 DEF FrontendRuns, WAVNext, ReadHeader, ReadSubchunk, ReadBuffer, ReadRemainder,
                      DataIsRead, LeaveLoop, EndRun
  <2>3. CASE CloseChannel
    BY <2>1, <2>3 DEF CloseChannel, wavVars
  <2>4. CASE JoinWorker
    BY <1>4, <2>4 DEF JoinWorker, WorkerEnded
  <2> QED
    BY <2>2, <2>3, <2>4
<1>5. HandlersInStep'
  BY <1>1, <1>4 DEF HandlersInStep
<1> QED
  BY <1>2, <1>3, <1>5 DEF AppIInv

(* Everything else leaves the stream and the callbacks alone.              *)
LEMMA StartingKeeps ==
  ASSUME AppIInv, (\E a \in Agents : StartAgent(a)) \/ StartFrontend \/ RunReturns \/ Return
  PROVE  AppIInv'
<1>1. WAVIInv /\ ProgramTypeOK /\ CallsInStep /\ HandlersInStep
  BY DEF AppIInv
<1>2. UNCHANGED <<wavVars, agents, disposition, callbacks, handler, requested, stopping, asleep,
                  interrupts>>
  BY DEF StartAgent, StartFrontend, RunReturns, Return
<1>3. WAVIInv'
  BY <1>1, <1>2, WAVInductive
<1>4. CASE \E a \in Agents : StartAgent(a)
  <2>1. PICK a \in Agents : StartAgent(a)
    BY <1>4
  <2>2. /\ a \in agents /\ started' = started \cup {a} /\ agent' = [agent EXCEPT ![a] = "testing"]
        /\ UNCHANGED <<todo, main, exited>>
    BY <2>1 DEF StartAgent
  <2>3. ProgramTypeOK'
    BY <1>1, <1>2, <2>2 DEF ProgramTypeOK
  <2>4. CallsInStep'
    BY <1>1, <1>2, <2>2 DEF CallsInStep, wavVars
  <2>5. HandlersInStep'
    BY <1>1, <1>2, <2>2 DEF HandlersInStep, ProgramTypeOK, wavVars
  <2> QED
    BY <1>3, <2>3, <2>4, <2>5 DEF AppIInv
<1>5. CASE StartFrontend \/ RunReturns \/ Return
  <2>1. UNCHANGED <<started, agent>>
    BY <1>5 DEF StartFrontend, RunReturns, Return
  <2>2. ProgramTypeOK'
    BY <1>1, <1>2, <1>5, <2>1 DEF ProgramTypeOK, StartFrontend, RunReturns, Return
  <2>3. CallsInStep'
    BY <1>1, <1>2, <1>5, BeforeAndAfter DEF CallsInStep, StartFrontend, RunReturns, Return, wavVars
  <2>4. HandlersInStep'
    BY <1>1, <1>2, <2>1 DEF HandlersInStep, wavVars
  <2> QED
    BY <1>3, <2>2, <2>3, <2>4 DEF AppIInv
<1> QED
  BY <1>4, <1>5

(* A handler begins where its thread is, with its callback.                *)
LEMMA SignalKeeps ==
  ASSUME AppIInv, Terminate \/ \E t \in Threads : Interrupt(t)
  PROVE  AppIInv'
<1>1. WAVIInv /\ ProgramTypeOK /\ CallsInStep /\ HandlersInStep
  BY DEF AppIInv
<1>2. UNCHANGED <<wavVars, agents, todo, main, disposition, callbacks, started, requested, agent, stopping,
                  asleep>>
  BY DEF Terminate, Interrupt
<1>3. WAVIInv' /\ CallsInStep'
  <2>1. CallsInStep'
    BY <1>1, <1>2 DEF CallsInStep, wavVars
  <2> QED
    BY <1>1, <1>2, <2>1, WAVInductive
<1>4. CASE Terminate
  <2>1. /\ exited' \in {"killed", "terminated"} /\ UNCHANGED <<handler, interrupts>>
    BY <1>4 DEF Terminate
  <2>2. ProgramTypeOK' /\ HandlersInStep'
    BY <1>1, <1>2, <2>1 DEF ProgramTypeOK, HandlersInStep, wavVars
  <2> QED
    BY <1>3, <2>2 DEF AppIInv
<1>5. CASE \E t \in Threads : Interrupt(t)
  <2>1. PICK t \in Threads : Interrupt(t)
    BY <1>5
  <2>2. /\ Running(t) /\ interrupts < MaxInterrupts /\ interrupts' = interrupts + 1
        /\ exited' \in {"killed", exited}
        /\ handler' = IF disposition["INT"] = "handler" /\ callbacks["INT"] > 0
                      THEN [handler EXCEPT ![t] = "requesting"] ELSE handler
    BY <2>1 DEF Interrupt
  <2>3. ProgramTypeOK'
    <3>1. interrupts' \in 0..MaxInterrupts
      <4>1. interrupts \in 0..MaxInterrupts /\ MaxInterrupts \in Nat
        BY <1>1, AppAssumption DEF ProgramTypeOK, AppAssumption
      <4>2. interrupts < MaxInterrupts /\ interrupts' = interrupts + 1
        BY <2>2
      <4> QED
        BY <4>1, <4>2
    <3>2. handler' \in [Threads -> {"none", "requesting", "stopping", "joining"}]
      BY <1>1, <2>2 DEF ProgramTypeOK
    <3> QED
      BY <1>1, <1>2, <2>2, <3>1, <3>2 DEF ProgramTypeOK
  <2>4. /\ t = "worker" => stream = "open"
        /\ t \notin Agents \ agents
    <3>1. "main" # "worker" /\ "main" \notin Agents /\ "worker" \notin Agents
      BY AppAssumption DEF AppAssumption
    <3>2. t \in Agents => agent[t] # "none"
      BY <2>2, <3>1 DEF Running
    <3> QED
      BY <1>1, <2>2, <3>1, <3>2 DEF Running, HandlersInStep
  <2>5. HandlersInStep'
    BY <1>1, <1>2, <2>2, <2>4 DEF HandlersInStep, ProgramTypeOK, Threads, wavVars
  <2> QED
    BY <1>3, <2>3, <2>5 DEF AppIInv
<1> QED
  BY <1>4, <1>5

(* Handlers, and the agents.                                               *)
LEMMA OthersKeep ==
  ASSUME AppIInv,
         (\E t \in Threads : HandlerRuns(t)) \/ (\E a \in Agents : AgentTests(a)) \/ UNCHANGED allVars
  PROVE  AppIInv'
<1>1. WAVIInv /\ ProgramTypeOK /\ CallsInStep /\ HandlersInStep
  BY DEF AppIInv
<1>2. UNCHANGED <<wavVars, agents, todo, main, exited, disposition, callbacks, asleep, interrupts>>
  BY DEF HandlerRuns, RequestAgents, StopFrontend, JoinReturns, HandlerReturns, AgentTests, allVars, appVars
<1>3. WAVIInv' /\ CallsInStep'
  <2>1. CallsInStep'
    BY <1>1, <1>2 DEF CallsInStep, wavVars
  <2> QED
    BY <1>1, <1>2, <2>1, WAVInductive
<1>4. CASE \E t \in Threads : HandlerRuns(t)
  <2>1. PICK t \in Threads : HandlerRuns(t)
    BY <1>4
  <2>2. /\ handler[t] # "none"
        /\ \/ handler' = handler
           \/ \E h \in {"none", "stopping", "joining"} : handler' = [handler EXCEPT ![t] = h]
        /\ started' \subseteq started /\ requested' \subseteq requested \cup started
        /\ UNCHANGED agent
    BY <2>1 DEF HandlerRuns, RequestAgents, StopFrontend, StopsNow, JoinReturns, HandlerReturns
  <2>3. ProgramTypeOK'
    <3>1. handler' \in [Threads -> {"none", "requesting", "stopping", "joining"}]
      BY <1>1, <2>2 DEF ProgramTypeOK
    <3>2. stopping' = TRUE \/ stopping' = stopping
      BY <2>1, Zenon DEF HandlerRuns, RequestAgents, StopFrontend, JoinReturns, HandlerReturns
    <3>3. {stopping', asleep'} \subseteq BOOLEAN
      <4>1. {stopping, asleep} \subseteq BOOLEAN /\ asleep' = asleep
        BY <1>1, <1>2 DEF ProgramTypeOK
      <4> QED
        BY <3>2, <4>1, Zenon
    <3> QED
      BY <1>1, <1>2, <2>2, <3>1, <3>3 DEF ProgramTypeOK
  <2>4. HandlersInStep'
    <3>1. \A u \in Threads : handler'[u] # "none" => handler[u] # "none"
      BY <1>1, <2>2 DEF ProgramTypeOK
    <3>2. \A a \in Agents \ agents : a \in Threads
      BY DEF Threads
    <3> QED
      BY <1>1, <1>2, <2>2, <3>1, <3>2 DEF HandlersInStep, Threads, wavVars
  <2> QED
    BY <1>3, <2>3, <2>4 DEF AppIInv
<1>5. CASE \E a \in Agents : AgentTests(a)
  <2>1. PICK a \in Agents : AgentTests(a)
    BY <1>5
  <2>2. /\ agent[a] = "testing"
        /\ \E p \in {"ended", "draining"} : agent' = [agent EXCEPT ![a] = p]
        /\ UNCHANGED <<handler, started, requested, stopping>>
    <3>1. CASE a \in requested
      BY <2>1, <3>1 DEF AgentTests
    <3>2. CASE a \notin requested
      BY <2>1, <3>2 DEF AgentTests
    <3> QED
      BY <3>1, <3>2
  <2>3. ProgramTypeOK'
    <3>1. agent' \in [Agents -> {"none", "testing", "draining", "ended"}]
      BY <1>1, <2>2 DEF ProgramTypeOK
    <3> QED
      BY <1>1, <1>2, <2>2, <3>1 DEF ProgramTypeOK
  <2>4. HandlersInStep'
    BY <1>1, <1>2, <2>2 DEF HandlersInStep, ProgramTypeOK, wavVars
  <2> QED
    BY <1>3, <2>3, <2>4 DEF AppIInv
<1>6. CASE UNCHANGED allVars
  <2>1. ProgramTypeOK' /\ HandlersInStep'
    BY <1>1, <1>6 DEF ProgramTypeOK, HandlersInStep, allVars, appVars, wavVars
  <2> QED
    BY <1>3, <2>1 DEF AppIInv
<1> QED
  BY <1>4, <1>5, <1>6

(* All the steps.                                                          *)
LEMMA AppInductive ==
  ASSUME AppIInv, [AppNext]_allVars
  PROVE  AppIInv'
BY CallKeeps, StreamKeeps, StartingKeeps, SignalKeeps, OthersKeep DEF AppNext, MainRuns

(* Whatever signals come, and on whichever thread, a file is read and the  *)
(* program's parts are where they should be.  The inductive invariant of   *)
(* App::onRun() with WAVStream::run().                                     *)
THEOREM AppInvariant == AppSpec => []AppIInv
<1>1. AppInit => AppIInv
  BY AppInitially
<1>2. AppIInv /\ [AppNext]_allVars => AppIInv'
  BY AppInductive
<1> QED
  BY <1>1, <1>2, PTL DEF AppSpec

(* The variables of the program and of its frontend keep their types       *)
(* (App.cpp:223-248, WAVStream.cpp:198-245).                               *)
THEOREM AppTypeCorrect == AppSpec => []AppTypeOK
<1>1. AppIInv => AppTypeOK
  BY DEF AppIInv, WAVIInv, ProgramTypeOK, AppTypeOK
<1> QED
  BY <1>1, AppInvariant, PTL

(* For any file of the form the program reads, its sizes any uint32s, any  *)
(* size of its buffer and whatever the reads behind the end of the file    *)
(* leave in size: the backend gets the file's frames first, once and in    *)
(* order; when run() returns a stream that was started has been ended, and *)
(* the frames are all there unless the header says too little or there are *)
(* 2 GB in front of them (WAVStream.cpp:101-142, 158-183, 215-244).        *)
THEOREM FileAlwaysComesFirst == AppSpec => []FileComesFirst
<1>1. AppIInv => FileComesFirst
  BY WAVGivesFile DEF AppIInv
<1> QED
  BY <1>1, AppInvariant, PTL

(* With any agents and any number of interrupts, on whichever threads, no  *)
(* handler but an agent's outlives its callback (Signal.h:68-71, 102-108,  *)
(* App.cpp:228-232).                                                       *)
THEOREM CallbacksOutlive == AppSpec => []CallbackOutlivesHandlers
<1>1. AppIInv => CallbackOutlivesHandlers
  BY DEF AppIInv, HandlersInStep, CallbackOutlivesHandlers, Threads
<1> QED
  BY <1>1, AppInvariant, PTL

-----------------------------------------------------------------------------
(* The files of a snapshot.  Greatest numbers first.                       *)

(* Of finitely many natural numbers there is a greatest.                   *)
LEMMA GreatestNatural ==
  ASSUME NEW T \in SUBSET Nat, T # {}, NEW bound \in Nat, \A t \in T : t <= bound
  PROVE  Max(T) \in T /\ \A t \in T : t <= Max(T)
<1> DEFINE Bounds == {u \in Nat : \A t \in T : t <= u}
<1>1. Bounds \in SUBSET Nat /\ Bounds # {}
  OBVIOUS
<1> HIDE DEF Bounds
<1>2. PICK u \in Bounds : \A v \in Bounds : u <= v
  BY <1>1, LeastNatural, Zenon
<1>3. u \in Nat /\ \A t \in T : t <= u
  BY <1>2 DEF Bounds
<1>4. u \in T
  <2> SUFFICES ASSUME u \notin T PROVE FALSE
    OBVIOUS
  <2>1. u # 0
    <3>1. PICK t \in T : TRUE
      OBVIOUS
    <3>2. t \in Nat /\ t <= u /\ t # u
      BY <1>3
    <3> QED
      BY <1>3, <3>2
  <2>2. u - 1 \in Nat /\ \A t \in T : t <= u - 1
    BY <1>3, <2>1
  <2>3. u - 1 \in Bounds
    BY <2>2 DEF Bounds
  <2> QED
    BY <1>2, <1>3, <2>3
<1>5. \E x \in T : \A z \in T : x >= z
  BY <1>3, <1>4
<1>6. Max(T) \in T /\ \A z \in T : Max(T) >= z
  BY <1>5, Zenon DEF Max
<1> QED
  BY <1>6

(* Of finitely many values there is a highest.                             *)
LEMMA HighestValue ==
  ASSUME NEW width \in Nat \ {0}, NEW v, \A b \in Below(width) : v[b] \in Nat
  PROVE  \E b \in Below(width) : \A other \in Below(width) : v[b] >= v[other]
<1> DEFINE Done == {k \in Nat : k >= width \/ \E b \in 0..k : \A other \in 0..k : v[b] >= v[other]}
<1>1. 0 \in Done
  <2>1. v[0] \in Nat
    BY DEF Below
  <2>2. 0 \in 0..0 /\ \A other \in 0..0 : v[0] >= v[other]
    <3>1. \A other \in 0..0 : other = 0
      OBVIOUS
    <3> QED
      BY <2>1, <3>1
  <2> QED
    BY <2>2
<1>2. ASSUME NEW k \in Nat, k \in Done PROVE k + 1 \in Done
  <2>1. CASE k + 1 >= width
    BY <2>1
  <2>2. CASE k + 1 < width
    <3>1. PICK b \in 0..k : \A other \in 0..k : v[b] >= v[other]
      BY <1>2, <2>2
    <3>2. \A i \in 0..(k + 1) : v[i] \in Nat
      BY <2>2 DEF Below
    <3>3. \A i \in 0..(k + 1) : i \in 0..k \/ i = k + 1
      OBVIOUS
    <3>4. b \in 0..(k + 1) /\ k + 1 \in 0..(k + 1)
      OBVIOUS
    <3>5. CASE v[b] >= v[k + 1]
      BY <3>1, <3>2, <3>3, <3>4, <3>5
    <3>6. CASE v[b] < v[k + 1]
      <4>1. \A other \in 0..(k + 1) : v[k + 1] >= v[other]
        BY <3>1, <3>2, <3>3, <3>4, <3>6
      <4> QED
        BY <3>4, <4>1
    <3> QED
      BY <3>2, <3>4, <3>5, <3>6
  <2> QED
    BY <2>1, <2>2
<1>3. Nat \subseteq Done
  <2> HIDE DEF Done
  <2> QED
    BY <1>1, <1>2, InductionOnSet
<1>4. width - 1 \in Done
  BY <1>3
<1> QED
  BY <1>4 DEF Below

-----------------------------------------------------------------------------
(* Where its writer, its band and its bins are at every step.              *)

FileTypes ==
  /\ config \in Configs /\ length \in 1..MaxLength
  /\ step \in {"starting", "reading", "opening", "creating", "heading", "filling", "written", "done"}
  /\ kind \in {"snapshot", "raw"}
  /\ y \in Nat
  /\ status \in {0, 1} /\ lastStatus = status

\* The image has its first rows, in order.
FirstRows(rows) ==
  /\ DOMAIN image = 1..rows
  /\ \A p \in 1..rows : image[p].row = p - 1 /\ image[p].count = Width

\* An error there has been is in status, until the file is closed, and what
\* has been written since then is nothing.
ImageInStep ==
  /\ status = 1 => logged
  /\ step \in {"starting", "reading", "opening"} => fits = "none" /\ image = << >>
  /\ step \in {"creating", "heading", "filling"} => fits = "open"
  /\ step \in {"creating", "heading"} => image = << >>
  /\ step \in {"heading", "filling"} => dimensions[0] = Width
  /\ step = "filling" => \E rows \in 0..y : FirstRows(rows) /\ (status = 0 => rows = y)
  /\ step \in {"written", "done"} /\ fits = "closed" =>
       \E rows \in Nat : FirstRows(rows) /\ (~logged => rows = Height)

BandInStep == band = IF step = "starting" THEN << >> ELSE FileBand

ReadsInStep ==
  reads # {} =>
    /\ DetectBins.width > 0
    /\ \E peak \in Below(DetectBins.width) : reads = ReadOf(peak)

FileIInv == FileTypes /\ ImageInStep /\ BandInStep /\ ReadsInStep

(* Before start().                                                         *)
LEMMA FileInitially ==
  ASSUME FileInit
  PROVE  FileIInv
<1>1. FileTypes
  BY DEF FileInit, FITSInit, FileTypes
<1>2. ImageInStep
  BY DEF FileInit, FITSInit, ImageInStep
<1>3. BandInStep /\ ReadsInStep
  BY DEF FileInit, BandInStep, ReadsInStep
<1> QED
  BY <1>1, <1>2, <1>3 DEF FileIInv

(* A call of the library keeps a status it finds.                          *)
LEMMA CallLogs ==
  ASSUME FileTypes, status = 1 => logged, Calls, CheckStatus
  PROVE  /\ status' \in {0, 1} /\ lastStatus' = status'
         /\ status' = 1 => logged'
         /\ status' = 0 => status = 0
<1>1. status \in {0, 1} /\ lastStatus = status
  BY DEF FileTypes
<1>2. status' \in {0, 1} /\ (status = 1 => status' = 1)
  BY <1>1 DEF Calls
<1>3. lastStatus' = status' /\ (logged => logged')
  BY DEF CheckStatus
<1>4. status = 0 /\ status' = 1 => logged'
  <2>1. status = 0 /\ status' = 1 => IsNews
    BY <1>1 DEF IsNews
  <2>2. logged' = (logged \/ IsNews)
    BY Zenon DEF CheckStatus
  <2> QED
    BY <2>1, <2>2, Zenon
<1> QED
  BY <1>1, <1>2, <1>3, <1>4

(* What the snapshot's configuration, kind and band fix.                   *)
LEMMA WidthStays ==
  ASSUME UNCHANGED <<config, length, kind, band>>
  PROVE  /\ Width' = Width /\ Height' = Height
         /\ FileBand' = FileBand /\ DetectBins' = DetectBins
         /\ \A peak : ReadOf(peak)' = ReadOf(peak)
<1>1. Width' = Width /\ Height' = Height
  BY DEF Width, Height, IsRaw, Hop
<1>2. FileBand' = FileBand
  BY DEF FileBand, Bin
<1>3. DetectBins' = DetectBins /\ NoiseBins' = NoiseBins /\ AverageRange' = AverageRange
  BY DEF DetectBins, NoiseBins, AverageRange, BinsOf, Bin
<1>4. ASSUME NEW peak PROVE ReadOf(peak)' = ReadOf(peak)
  BY <1>3 DEF ReadOf, Averaged
<1> QED
  BY <1>1, <1>2, <1>3, <1>4

(* start() and update(): the peak is one of the bins.                      *)
LEMMA PeakIsThere ==
  ASSUME NEW row \in [DetectBins.low..(DetectBins.low + DetectBins.width) -> Magnitudes],
         DetectBins.low \in Nat, DetectBins.width \in Nat \ {0}
  PROVE  Peak(row) \in Below(DetectBins.width)
<1> DEFINE low == DetectBins.low
           width == DetectBins.width
           v == [b \in Below(width) |-> row[low + b]]
           highest == {b \in Below(width) : \A other \in Below(width) : row[low + b] >= row[low + other]}
<1>1. low \in Nat /\ width \in Nat \ {0} /\ row \in [low..(low + width) -> Magnitudes]
  OBVIOUS
<1> HIDE DEF low, width
<1>2. \A b \in Below(width) : v[b] = row[low + b] /\ v[b] \in Nat
  <2> SUFFICES ASSUME NEW b \in Below(width) PROVE row[low + b] \in Nat
    OBVIOUS
  <2>1. low + b \in low..(low + width)
    BY <1>1 DEF Below
  <2>2. Magnitudes \subseteq Nat
    BY ConfigAssumption, Zenon DEF ConfigAssumption
  <2> QED
    BY <1>1, <2>1, <2>2
<1>3. \E b \in Below(width) : \A other \in Below(width) : v[b] >= v[other]
  <2> HIDE DEF v
  <2> QED
    BY <1>1, <1>2, HighestValue
<1>4. highest # {} /\ highest \in SUBSET Nat /\ \A b \in highest : b <= width
  <2>1. \A b \in Below(width) : b \in Nat /\ b <= width
    BY <1>1 DEF Below
  <2>2. highest # {}
    BY <1>2, <1>3
  <2> QED
    BY <2>1, <2>2
<1>5. Max(highest) \in highest
  <2> HIDE DEF highest
  <2> QED
    BY <1>1, <1>4, GreatestNatural
<1>6. Peak(row) = Max(highest)
  BY Zenon DEF Peak, low, width
<1> QED
  BY <1>5, <1>6 DEF width

(* A configuration's numbers.                                              *)
LEMMA Configured ==
  ASSUME config \in Configs
  PROVE  /\ config.bins \in Nat \ {0} /\ config.rate \in Nat \ {0} /\ Hop \in Nat \ {0}
         /\ config.rate % 2 = 0 /\ Hop <= config.rate
         /\ config.range \in 1..config.rate
         /\ \A f \in {config.low, config.high, config.lowDetect, config.highDetect,
                      config.lowNoise, config.highNoise} :
              f \in Int /\ -config.rate <= 2 * f /\ 2 * f <= config.rate
<1> DEFINE n == config.bins
           r == config.rate
           o == config.overlap
           bands == {config.low, config.high, config.lowDetect, config.highDetect,
                     config.lowNoise, config.highNoise}
<1>1. /\ n \in Nat \ {0} /\ o \in 0..(n - 1)
      /\ r \in Nat /\ r % 2 = 0 /\ r >= n - o
      /\ bands \subseteq -(r \div 2)..(r \div 2)
      /\ config.range \in 1..r
  BY ConfigAssumption, Zenon DEF ConfigAssumption
<1>2. Hop = n - o
  BY Zenon DEF Hop
<1> HIDE DEF n, r, o, bands
<1>3. Hop \in Nat \ {0} /\ Hop <= r /\ r \in Nat \ {0}
  BY <1>1, <1>2
<1>4. \A f \in bands : f \in Int /\ -r <= 2 * f /\ 2 * f <= r
  <2>1. 2 * (r \div 2) = r
    BY <1>1
  <2> QED
    BY <1>1, <2>1
<1> QED
  BY <1>1, <1>3, <1>4 DEF n, r, bands

(* A frequency's bin holds it: x and d are what BinBelow() divides.        *)
LEMMA BinHolds ==
  ASSUME NEW n \in Nat \ {0}, NEW r \in Nat \ {0}, NEW f \in Int, -r <= 2 * f, 2 * f <= r,
         NEW x, x = n * (2 * f + r), NEW d, d = 2 * r
  PROVE  /\ FrequencyToBin(n, r, f) \in 0..(n - 1)
         /\ d * FrequencyToBin(n, r, f) <= x /\ x <= d * FrequencyToBin(n, r, f) + d
         /\ 2 * f < r => x < d * FrequencyToBin(n, r, f) + d
         /\ 2 * f = r => FrequencyToBin(n, r, f) = n - 1
<1> DEFINE q == x \div d
           bin == FrequencyToBin(n, r, f)
<1>1. x \in Int /\ d \in Nat \ {0}
  OBVIOUS
<1>2. 0 <= x /\ x <= d * n /\ (2 * f < r => x < d * n)
  <2>1. 2 * f + r \in Nat /\ 2 * f + r <= d
    OBVIOUS
  <2> DEFINE s == 2 * f + r
  <2>2. s \in Nat /\ s <= d /\ (2 * f < r => s < d) /\ x = n * s
    BY <2>1
  <2> HIDE DEF s
  <2>3. 0 <= n * s /\ n * s <= n * d
    BY <1>1, <2>2, Factor
  <2>4. s < d => n * s < n * d
    <3> SUFFICES ASSUME s < d PROVE n * s < n * d
      OBVIOUS
    <3>1. s + 1 \in Int /\ s + 1 <= d
      BY <1>1, <2>2
    <3>2. n * (s + 1) <= n * d
      BY <1>1, <3>1, Factor
    <3>3. n * (s + 1) = n * s + n
      BY <2>2
    <3>4. n * s \in Int /\ n * d \in Int
      BY <1>1, <2>2
    <3> QED
      BY <3>2, <3>3, <3>4
  <2>5. n * d = d * n
    BY <1>1
  <2> QED
    BY <2>2, <2>3, <2>4, <2>5
<1>3. bin = IF q < 0 THEN 0 ELSE IF q >= n THEN n - 1 ELSE q
  BY Zenon DEF FrequencyToBin, BinBelow
<1>4. q \in Int /\ d * q <= x /\ x < d * q + d
  BY <1>1, Quotient
<1> HIDE DEF bin
<1>5. 0 <= q
  <2>1. d * 0 = 0
    BY <1>1
  <2> QED
    BY <1>1, <1>2, <2>1, QuotientBetween
<1> HIDE DEF q
<1>6. CASE q < n
  <2>1. bin = q
    BY <1>3, <1>4, <1>5, <1>6
  <2>2. ~(2 * f = r)
    <3>1. x < d * n
      <4>1. q + 1 <= n /\ d * (q + 1) = d * q + d
        BY <1>1, <1>4, <1>6
      <4>2. d * (q + 1) <= d * n /\ d * (q + 1) \in Int /\ d * n \in Int
        BY <1>1, <1>4, <4>1, Factor
      <4> QED
        BY <1>1, <1>4, <4>1, <4>2
    <3>2. 2 * f = r => x = n * d
      <4>1. 2 * f = r => 2 * f + r = d
        OBVIOUS
      <4> QED
        BY <4>1
    <3>3. n * d = d * n /\ d * n \in Int
      BY <1>1
    <3> QED
      BY <1>1, <3>1, <3>2, <3>3
  <2> QED
    BY <1>4, <1>5, <1>6, <2>1, <2>2 DEF bin
<1>7. CASE q >= n
  <2>1. bin = n - 1
    BY <1>3, <1>4, <1>5, <1>7
  <2>2. d * n <= d * q
    BY <1>1, <1>4, <1>7, Factor
  <2>3. d * (n - 1) + d = d * n
    BY <1>1
  <2>4. d * n \in Int /\ d * q \in Int /\ d * (n - 1) \in Int
    BY <1>1, <1>4
  <2>5. x = d * n
    BY <1>1, <1>2, <1>4, <2>2, <2>4
  <2>6. ~(2 * f < r)
    BY <1>2, <2>4, <2>5
  <2>7. d * (n - 1) <= x /\ x <= d * (n - 1) + d
    BY <1>1, <2>3, <2>4, <2>5
  <2> QED
    BY <2>1, <2>6, <2>7 DEF bin
<1> QED
  BY <1>4, <1>6, <1>7

(* The constructor puts a pair in order.                                   *)
LEMMA PairInOrder ==
  ASSUME NEW a \in Int, NEW b \in Int
  PROVE  /\ Min({a, b}) = IF a <= b THEN a ELSE b
         /\ Max({a, b}) = IF a <= b THEN b ELSE a
         /\ Ordered(a, b)[1] = Min({a, b}) /\ Ordered(a, b)[2] = Max({a, b})
<1>1. Min({a, b}) = IF a <= b THEN a ELSE b
  <2>1. \E m \in {a, b} : \A o \in {a, b} : m <= o
    OBVIOUS
  <2>2. Min({a, b}) \in {a, b} /\ \A o \in {a, b} : Min({a, b}) <= o
    BY <2>1, Zenon DEF Min
  <2> QED
    BY <2>2
<1>2. Max({a, b}) = IF a <= b THEN b ELSE a
  <2>1. \E m \in {a, b} : \A o \in {a, b} : m >= o
    OBVIOUS
  <2>2. Max({a, b}) \in {a, b} /\ \A o \in {a, b} : Max({a, b}) >= o
    BY <2>1, Zenon DEF Max
  <2> QED
    BY <2>2
<1>3. Ordered(a, b)[1] = Min({a, b}) /\ Ordered(a, b)[2] = Max({a, b})
  BY DEF Ordered
<1> QED
  BY <1>1, <1>2, <1>3

(* All of the row, if no band is given.                                    *)
LEMMA WholeBandNamed ==
  ASSUME config \in Configs, config.low = config.high, band = FileBand
  PROVE  ColumnsNamed
<1> DEFINE n == config.bins
           r == config.rate
           h == r \div 2
           delta == BinWidth(n, r)
<1>1. n \in Nat \ {0} /\ r \in Nat \ {0} /\ r % 2 = 0
  BY Configured
<1> HIDE DEF n, r
<1>2. h \in Int /\ 2 * h = r
  BY <1>1
<1> HIDE DEF h
<1>3. band.left = -h /\ band.leftBin = 0 /\ band.rightBin = n
  BY DEF FileBand, n, h, r
<1>4. delta = 2 * r
  BY <1>1 DEF BinWidth, BinFrequency
<1> HIDE DEF delta
<1>5. 2 * n * h = n * r
  <2>1. 2 * n * h = n * (2 * h)
    BY <1>1, <1>2
  <2> QED
    BY <1>2, <2>1
<1>6. ASSUME NEW column \in 0..(n - 1)
      PROVE  2 * n * (-h) + column * delta - BinFrequency(n, r, 0 + column) \in 0..(delta - 1)
  <2>1. BinFrequency(n, r, 0 + column) = r * (2 * column - n)
    BY DEF BinFrequency
  <2>2. r * (2 * column - n) = column * (2 * r) - n * r
    BY <1>1
  <2>3. 2 * n * (-h) = -(n * r)
    BY <1>1, <1>2, <1>5
  <2>4. column * (2 * r) \in Int /\ n * r \in Int /\ delta \in Nat \ {0}
    BY <1>1, <1>4
  <2>5. 2 * n * (-h) + column * delta - BinFrequency(n, r, 0 + column) = 0
    BY <1>4, <2>1, <2>2, <2>3, <2>4
  <2> QED
    BY <2>4, <2>5
<1>7. BinFrequency(n, r, n) >= 2 * n * h - delta
  <2>1. BinFrequency(n, r, n) = r * (2 * n - n)
    BY DEF BinFrequency
  <2>2. r * (2 * n - n) = n * r /\ n * r \in Int /\ delta \in Nat
    BY <1>1, <1>4
  <2> QED
    BY <1>5, <2>1, <2>2
<1>8. /\ band.leftBin >= 0 /\ band.rightBin <= n
      /\ \A column \in 0..(band.rightBin - band.leftBin - 1) :
           2 * n * band.left + column * delta - BinFrequency(n, r, band.leftBin + column) \in 0..(delta - 1)
      /\ BinFrequency(n, r, band.rightBin) >= 2 * n * h - delta
  <2>1. band.rightBin - band.leftBin - 1 = n - 1
    BY <1>1, <1>3
  <2> QED
    BY <1>1, <1>3, <1>6, <1>7, <2>1
<1> QED
  BY <1>8 DEF ColumnsNamed, n, r, h, delta

(* A band that is given: of its lower edge's bin the quotient is exact.    *)
LEMMA GivenBandNamed ==
  ASSUME config \in Configs, config.low # config.high, band = FileBand
  PROVE  ColumnsNamed
<1> DEFINE n == config.bins
           r == config.rate
           lower == Min({config.low, config.high})
           upper == Max({config.low, config.high})
           lb == FrequencyToBin(n, r, lower)
           rb == FrequencyToBin(n, r, upper)
           delta == BinWidth(n, r)
<1>1. n \in Nat \ {0} /\ r \in Nat \ {0}
  BY Configured
<1>2. /\ lower \in Int /\ upper \in Int /\ lower < upper
      /\ -r <= 2 * lower /\ 2 * lower <= r /\ -r <= 2 * upper /\ 2 * upper <= r
  <2>1. \A f \in {config.low, config.high} : f \in Int /\ -r <= 2 * f /\ 2 * f <= r
    BY Configured
  <2>2. /\ lower = IF config.low <= config.high THEN config.low ELSE config.high
        /\ upper = IF config.low <= config.high THEN config.high ELSE config.low
    BY <2>1, PairInOrder
  <2> HIDE DEF lower, upper, r
  <2> QED
    BY <2>1, <2>2
<1>3. band = [left |-> lower, leftBin |-> lb, rightBin |-> rb]
  <2>1. config.low \in Int /\ config.high \in Int
    BY Configured
  <2>2. Ordered(config.low, config.high)[1] = lower /\ Ordered(config.low, config.high)[2] = upper
    BY <2>1, PairInOrder
  <2> QED
    BY <2>2 DEF FileBand, Bin
<1>4. band.left = lower /\ band.leftBin = lb /\ band.rightBin = rb
  BY <1>3
<1> HIDE DEF n, r, lower, upper, lb, rb
<1>5. delta = 2 * r /\ delta \in Nat \ {0}
  BY <1>1 DEF BinWidth, BinFrequency
<1> HIDE DEF delta
<1> DEFINE x == n * (2 * lower + r)
           z == n * (2 * upper + r)
<1>6. lb \in 0..(n - 1) /\ delta * lb <= x /\ x < delta * lb + delta
  <2>1. /\ lb \in 0..(n - 1) /\ 2 * r * lb <= n * (2 * lower + r)
        /\ 2 * lower < r => n * (2 * lower + r) < 2 * r * lb + 2 * r
    BY <1>1, <1>2, BinHolds DEF lb
  <2>2. 2 * lower < r
    BY <1>1, <1>2
  <2> QED
    BY <1>5, <2>1, <2>2
<1>7. rb \in 0..(n - 1) /\ z <= delta * rb + delta
  <2>1. rb \in 0..(n - 1) /\ n * (2 * upper + r) <= 2 * r * rb + 2 * r
    BY <1>1, <1>2, BinHolds DEF rb
  <2> QED
    BY <1>5, <2>1
<1>8. x \in Int /\ z \in Int /\ x = 2 * n * lower + n * r /\ z = 2 * n * upper + n * r
  BY <1>1, <1>2
<1> HIDE DEF x, z
<1>9. ASSUME NEW c \in Int
      PROVE  BinFrequency(n, r, c) = c * delta - n * r /\ c * delta \in Int /\ n * r \in Int
  <2>1. BinFrequency(n, r, c) = r * (2 * c - n)
    BY DEF BinFrequency
  <2>2. r * (2 * c - n) = c * (2 * r) - n * r
    BY <1>1
  <2> QED
    BY <1>1, <1>5, <2>1, <2>2
<1>10. ASSUME NEW c \in 0..(rb - lb - 1)
       PROVE  2 * n * lower + c * delta - BinFrequency(n, r, lb + c) \in 0..(delta - 1)
  <2>1. lb + c \in Int /\ lb \in Int
    BY <1>6
  <2>2. BinFrequency(n, r, lb + c) = (lb + c) * delta - n * r
    BY <1>9, <2>1
  <2>3. (lb + c) * delta = lb * delta + c * delta /\ lb * delta = delta * lb
    BY <1>5, <2>1
  <2>4. delta * lb \in Int /\ c * delta \in Int /\ n * r \in Int /\ 2 * n * lower \in Int
    BY <1>1, <1>2, <1>5, <2>1
  <2>5. 2 * n * lower + c * delta - BinFrequency(n, r, lb + c) = x - delta * lb
    BY <1>8, <2>2, <2>3, <2>4
  <2>6. x - delta * lb \in 0..(delta - 1)
    BY <1>5, <1>6, <1>8, <2>4
  <2> QED
    BY <2>5, <2>6
<1>11. BinFrequency(n, r, rb) >= 2 * n * upper - delta
  <2>1. rb \in Int
    BY <1>7
  <2>2. BinFrequency(n, r, rb) = rb * delta - n * r
    BY <1>9, <2>1
  <2>3. rb * delta = delta * rb /\ delta * rb \in Int /\ n * r \in Int /\ 2 * n * upper \in Int
    BY <1>1, <1>2, <1>5, <2>1
  <2> QED
    BY <1>5, <1>7, <1>8, <2>2, <2>3
<1>12. lb >= 0 /\ rb <= n
  BY <1>1, <1>6, <1>7
<1> QED
  BY <1>4, <1>10, <1>11, <1>12 DEF ColumnsNamed, n, r, upper, delta

(* A higher frequency has no lower bin.                                    *)
LEMMA BinsRise ==
  ASSUME NEW n \in Nat \ {0}, NEW r \in Nat \ {0}, NEW f \in Int, NEW g \in Int,
         -r <= 2 * f, f <= g, 2 * g <= r
  PROVE  FrequencyToBin(n, r, f) <= FrequencyToBin(n, r, g)
<1> DEFINE d == 2 * r
           x == n * (2 * f + r)
           w == n * (2 * g + r)
           a == FrequencyToBin(n, r, f)
           b == FrequencyToBin(n, r, g)
<1>1. d \in Nat \ {0} /\ x \in Int /\ w \in Int
  OBVIOUS
<1>2. x <= w
  <2>1. 2 * f + r \in Int /\ 2 * g + r \in Int /\ 2 * f + r <= 2 * g + r
    OBVIOUS
  <2> QED
    BY <2>1, Factor
<1>3. a \in 0..(n - 1) /\ d * a <= x
  BY BinHolds
<1>4. b \in 0..(n - 1) /\ (2 * g < r => w < d * b + d)
  BY BinHolds
<1>5. 2 * g = r => b = n - 1
  BY BinHolds
<1> SUFFICES a <= b
  OBVIOUS
<1> HIDE DEF a, b, d, x, w
<1>6. CASE 2 * g = r
  BY <1>3, <1>4, <1>5, <1>6
<1>7. CASE 2 * g < r
  <2>1. d * b + d = d * (b + 1) /\ d * (b + 1) \in Int /\ d * a \in Int
    BY <1>1, <1>3, <1>4
  <2>2. d * a < d * (b + 1)
    BY <1>1, <1>2, <1>3, <1>4, <1>7, <2>1
  <2>3. a < b + 1
    BY <1>1, <1>3, <1>4, <2>2, Factor
  <2> QED
    BY <1>3, <1>4, <2>3
<1>8. 2 * g <= r /\ 2 * g \in Int /\ r \in Int
  OBVIOUS
<1> QED
  BY <1>6, <1>7, <1>8

(* The bins between two frequencies are the row's.                         *)
LEMMA BinsOfRow ==
  ASSUME config \in Configs, NEW f \in Int, NEW g \in Int,
         -config.rate <= 2 * f, 2 * f <= config.rate, -config.rate <= 2 * g, 2 * g <= config.rate
  PROVE  LET bins == BinsOf(f, g)
             low == IF f <= g THEN f ELSE g
             high == IF f <= g THEN g ELSE f
         IN  /\ bins.low = Bin(low) /\ bins.width = Bin(high) - Bin(low)
             /\ bins.low \in 0..(config.bins - 1) /\ Bin(high) \in 0..(config.bins - 1)
             /\ bins.width \in Nat
<1> DEFINE n == config.bins
           r == config.rate
           a == Bin(f)
           b == Bin(g)
           bins == BinsOf(f, g)
<1>1. n \in Nat \ {0} /\ r \in Nat \ {0}
  BY Configured
<1>2. a = FrequencyToBin(n, r, f) /\ b = FrequencyToBin(n, r, g)
  BY DEF Bin
<1>3. -r <= 2 * f /\ 2 * f <= r /\ -r <= 2 * g /\ 2 * g <= r
  OBVIOUS
<1> HIDE DEF n, r, a, b
<1>4. a \in 0..(n - 1) /\ b \in 0..(n - 1)
  BY <1>1, <1>2, <1>3, BinHolds
<1>5. f <= g => a <= b
  BY <1>1, <1>2, <1>3, BinsRise
<1>6. g <= f => b <= a
  BY <1>1, <1>2, <1>3, BinsRise
<1>7. bins = [low |-> Ordered(a, b)[1], width |-> Ordered(a, b)[2] - Ordered(a, b)[1]]
  BY Zenon DEF BinsOf, a, b
<1>8. /\ bins.low = Ordered(a, b)[1]
      /\ bins.width = Ordered(a, b)[2] - Ordered(a, b)[1]
  BY <1>7
<1> HIDE DEF bins
<1>9. /\ Ordered(a, b)[1] = IF a <= b THEN a ELSE b
      /\ Ordered(a, b)[2] = IF a <= b THEN b ELSE a
  <2>1. a \in Int /\ b \in Int
    BY <1>4
  <2>2. Ordered(a, b)[1] = Min({a, b}) /\ Ordered(a, b)[2] = Max({a, b})
    BY <2>1, PairInOrder
  <2>3. Min({a, b}) = IF a <= b THEN a ELSE b
    BY <2>1, PairInOrder
  <2>4. Max({a, b}) = IF a <= b THEN b ELSE a
    BY <2>1, PairInOrder
  <2> QED
    BY <2>2, <2>3, <2>4
<1>10. CASE f <= g
  <2>1. bins.low = a /\ bins.width = b - a /\ bins.width \in Nat
    BY <1>4, <1>5, <1>8, <1>9, <1>10
  <2> QED
    BY <1>4, <1>10, <2>1 DEF a, b, bins, n
<1>11. CASE ~(f <= g)
  <2>1. bins.low = b /\ bins.width = a - b /\ bins.width \in Nat
    BY <1>4, <1>6, <1>8, <1>9, <1>11
  <2> QED
    BY <1>4, <1>11, <2>1 DEF a, b, bins, n
<1> QED
  BY <1>10, <1>11

(* A bin is not above its frequency, wherever that is.                     *)
LEMMA BinAtMost ==
  ASSUME NEW n \in Nat \ {0}, NEW r \in Nat \ {0}, NEW f \in Nat,
         NEW x, x = n * (2 * f + r), NEW d, d = 2 * r
  PROVE  FrequencyToBin(n, r, f) \in 0..(n - 1) /\ d * FrequencyToBin(n, r, f) <= x
<1> DEFINE q == x \div d
           bin == FrequencyToBin(n, r, f)
<1>1. x \in Nat /\ d \in Nat \ {0}
  OBVIOUS
<1>2. bin = IF q < 0 THEN 0 ELSE IF q >= n THEN n - 1 ELSE q
  BY Zenon DEF FrequencyToBin, BinBelow
<1>3. q \in Int /\ d * q <= x
  BY <1>1, Quotient
<1>4. 0 <= q
  <2>1. d * 0 = 0
    BY <1>1
  <2> QED
    BY <1>1, <2>1, QuotientBetween
<1> HIDE DEF q, bin
<1>5. bin \in 0..(n - 1) /\ bin <= q
  BY <1>2, <1>3, <1>4
<1>6. d * bin <= d * q /\ d * bin \in Int /\ d * q \in Int
  BY <1>1, <1>3, <1>5, Factor
<1> QED
  BY <1>1, <1>3, <1>5, <1>6 DEF bin

(* The range averaged over is not wider than what is asked for, but for    *)
(* the half bin that 0 Hz is off the border of its bin if they are odd.    *)
LEMMA AverageAtMost ==
  ASSUME config \in Configs
  PROVE  /\ AverageRange \in Int
         /\ 2 * config.rate * AverageRange
              <= 2 * config.bins * config.range + config.rate * (config.bins % 2)
<1> DEFINE n == config.bins
           r == config.rate
           range == config.range
           d == 2 * r
           top == FrequencyToBin(n, r, range)
           zero == FrequencyToBin(n, r, 0)
           odd == n % 2
<1>1. n \in Nat \ {0} /\ r \in Nat \ {0} /\ range \in Nat
  <2>1. config.range \in 1..config.rate /\ n \in Nat \ {0} /\ r \in Nat \ {0}
    BY Configured
  <2> QED
    BY <2>1
<1>2. AverageRange = top - zero
  BY DEF AverageRange, Bin
<1> HIDE DEF n, r, range
<1>3. top \in 0..(n - 1) /\ d * top <= n * (2 * range + r)
  BY <1>1, BinAtMost
<1>4. zero \in 0..(n - 1) /\ n * (2 * 0 + r) < d * zero + d
  <2>1. -r <= 2 * 0 /\ 2 * 0 <= r /\ 2 * 0 < r
    BY <1>1
  <2> QED
    BY <1>1, <2>1, BinHolds
<1> HIDE DEF top, zero
<1>5. n - odd <= 2 * zero
  <2>1. n * (2 * 0 + r) = r * n /\ d * zero + d = r * (2 * zero + 2)
    BY <1>1, <1>4
  <2>2. n < 2 * zero + 2
    BY <1>1, <1>4, <2>1, Factor
  <2> QED
    BY <1>1, <1>4, <2>2
<1>6. odd \in Int
  BY <1>1
<1> HIDE DEF odd
<1>7. r * (n - odd) <= r * (2 * zero)
  BY <1>1, <1>4, <1>5, <1>6, Factor
<1>8. /\ r * (n - odd) = n * r - r * odd
      /\ r * (2 * zero) = d * zero
      /\ n * (2 * range + r) = 2 * n * range + n * r
      /\ d * (top - zero) = d * top - d * zero
  BY <1>1, <1>3, <1>4, <1>6
<1>9. /\ n * r \in Int /\ r * odd \in Int /\ d * zero \in Int /\ d * top \in Int
      /\ 2 * n * range \in Int
  BY <1>1, <1>3, <1>4, <1>6
<1>10. d * (top - zero) <= 2 * n * range + r * odd
  BY <1>3, <1>7, <1>8, <1>9
<1>11. top - zero \in Int
  BY <1>3, <1>4
<1> QED
  BY <1>2, <1>10, <1>11 DEF n, r, range, odd

(* The arithmetic of what is averaged: of bins a to b - 1 the first and    *)
(* the last peak, half the range below and the other half above.           *)
LEMMA RoomToAverage ==
  ASSUME NEW n \in Nat \ {0}, NEW r \in Nat \ {0}, NEW range \in Nat, NEW odd \in 0..1,
         NEW f \in Int, NEW g \in Int, NEW a \in Nat, NEW b \in Nat, NEW R \in Int,
         2 * r * R <= 2 * n * range + r * odd,
         2 * n * (2 * f - range + r) >= r * odd, 2 * g + range <= r,
         n * (2 * f + r) < 2 * r * a + 2 * r, 2 * r * b <= n * (2 * g + r)
  PROVE  R \div 2 <= a /\ b + (R - R \div 2) <= n
<1> DEFINE h == R \div 2
           c == R - h
<1>1. h \in Int /\ 2 * h <= R /\ R <= 2 * h + 1 /\ c \in Int /\ 2 * c <= R + 1
  OBVIOUS
<1> HIDE DEF h, c
<1> DEFINE nr == n * r
           nrange == n * range
           nf == n * f
           ng == n * g
           rR == r * R
           ro == r * odd
<1>2. nr \in Int /\ nrange \in Int /\ nf \in Int /\ ng \in Int /\ rR \in Int /\ ro \in Int /\ ro <= r
  OBVIOUS
<1>3. 2 * rR <= 2 * nrange + ro
  OBVIOUS
<1>4. 4 * nf - 2 * nrange + 2 * nr >= ro
  <2>1. 2 * n * (2 * f - range + r) = 4 * nf - 2 * nrange + 2 * nr
    OBVIOUS
  <2> QED
    BY <2>1
<1>5. 2 * ng + nrange <= nr
  <2>1. 2 * g + range \in Int
    OBVIOUS
  <2>2. n * (2 * g + range) <= n * r
    BY <2>1, Factor
  <2>3. n * (2 * g + range) = 2 * ng + nrange
    OBVIOUS
  <2> QED
    BY <2>2, <2>3
<1>6. 2 * nf + nr < 2 * r * (a + 1)
  <2>1. n * (2 * f + r) = 2 * nf + nr /\ 2 * r * (a + 1) = 2 * r * a + 2 * r
    OBVIOUS
  <2> QED
    BY <2>1
<1>7. 2 * r * b <= 2 * ng + nr
  <2>1. n * (2 * g + r) = 2 * ng + nr
    OBVIOUS
  <2> QED
    BY <2>1
<1> HIDE DEF nr, nrange, nf, ng, ro
<1>8. 2 * r * h <= rR /\ 2 * r * c <= rR + r
  <2>1. r * (2 * h) <= r * R /\ r * (2 * c) <= r * (R + 1)
    BY <1>1, Factor
  <2>2. r * (2 * h) = 2 * r * h /\ r * (2 * c) = 2 * r * c /\ r * (R + 1) = rR + r
    BY <1>1
  <2> QED
    BY <2>1, <2>2
<1> HIDE DEF rR
<1> DEFINE d == 2 * r
<1>9. d \in Nat \ {0} /\ d = 2 * r
  OBVIOUS
<1> HIDE DEF d
<1>10. d * h \in Int /\ d * (a + 1) \in Int /\ d * b \in Int /\ d * c \in Int /\ d * (n + 1) \in Int
  BY <1>1, <1>9
<1>11. d * h < d * (a + 1)
  BY <1>2, <1>3, <1>4, <1>6, <1>8, <1>9, <1>10
<1>12. h <= a
  <2>1. h < a + 1
    BY <1>1, <1>9, <1>11, Factor
  <2> QED
    BY <1>1, <2>1
<1>13. d * (b + c) < d * (n + 1)
  <2>1. d * (b + c) = d * b + d * c
    BY <1>1, <1>9
  <2>2. d * (n + 1) = 2 * nr + 2 * r
    BY <1>9 DEF nr
  <2> QED
    BY <1>2, <1>3, <1>5, <1>7, <1>8, <1>9, <1>10, <2>1, <2>2
<1>14. b + c <= n
  <2>1. b + c < n + 1
    BY <1>1, <1>9, <1>13, Factor
  <2> QED
    BY <1>1, <2>1
<1> QED
  BY <1>12, <1>14 DEF h, c

(* With bands that fit, a row is read inside, wherever its peak is.        *)
LEMMA AverageInside ==
  ASSUME config \in Configs, BandsFit, DetectBins.width > 0,
         NEW peak \in Below(DetectBins.width)
  PROVE  /\ Averaged(peak) \subseteq 0..(config.bins - 1)
         /\ \A b \in Below(DetectBins.width) : DetectBins.low + b \in 0..(config.bins - 1)
<1> DEFINE n == config.bins
           r == config.rate
           range == config.range
           odd == n % 2
           ld == config.lowDetect
           hd == config.highDetect
           f == IF ld <= hd THEN ld ELSE hd
           g == IF ld <= hd THEN hd ELSE ld
           a == DetectBins.low
           width == DetectBins.width
           b == Bin(g)
           R == AverageRange
<1>1. n \in Nat \ {0} /\ r \in Nat \ {0} /\ range \in 1..r
  BY Configured
<1>2. \A k \in {ld, hd} : k \in Int /\ -r <= 2 * k /\ 2 * k <= r
  BY Configured
<1>3. R \in Int /\ 2 * r * R <= 2 * n * range + r * odd
  BY AverageAtMost
<1>4. /\ 2 * n * (2 * Ordered(ld, hd)[1] - range + r) >= r * odd
      /\ 2 * Ordered(ld, hd)[2] + range <= r
  BY DEF BandsFit
<1>5. Ordered(ld, hd)[1] = f /\ Ordered(ld, hd)[2] = g
  <2>1. ld \in Int /\ hd \in Int
    BY <1>2
  <2>2. Ordered(ld, hd)[1] = Min({ld, hd}) /\ Ordered(ld, hd)[2] = Max({ld, hd})
    BY <2>1, PairInOrder
  <2>3. Min({ld, hd}) = f
    BY <2>1, PairInOrder
  <2>4. Max({ld, hd}) = g
    BY <2>1, PairInOrder
  <2> QED
    BY <2>2, <2>3, <2>4
<1>6. a = Bin(f) /\ width = b - a /\ a \in 0..(n - 1) /\ b \in 0..(n - 1)
  BY <1>2, BinsOfRow DEF DetectBins
<1>7. a = FrequencyToBin(n, r, f) /\ b = FrequencyToBin(n, r, g)
  BY <1>6 DEF Bin
<1>8. /\ f \in Int /\ -r <= 2 * f /\ 2 * f <= r
      /\ g \in Int /\ -r <= 2 * g /\ 2 * g <= r /\ f <= g
  BY <1>2
<1>9. width > 0 /\ peak \in 0..(width - 1)
  BY DEF Below
<1>10. Averaged(peak) = (a + peak - R \div 2)..(a + peak - R \div 2 + R - 1)
  BY DEF Averaged
<1>11. odd \in 0..1
  BY <1>1
<1> HIDE DEF n, r, range, odd, ld, hd, f, g, a, width, b, R
<1>12. 2 * f < r
  BY <1>1, <1>4, <1>5, <1>8
<1>13. n * (2 * f + r) < 2 * r * a + 2 * r
  BY <1>1, <1>7, <1>8, <1>12, BinHolds
<1>14. 2 * r * b <= n * (2 * g + r)
  BY <1>1, <1>7, <1>8, BinHolds
<1>15. R \div 2 <= a /\ b + (R - R \div 2) <= n
  <2>1. range \in Nat /\ a \in Nat /\ b \in Nat
    BY <1>1, <1>6
  <2>2. 2 * n * (2 * f - range + r) >= r * odd /\ 2 * g + range <= r
    BY <1>4, <1>5
  <2> QED
    BY <1>1, <1>3, <1>8, <1>11, <1>13, <1>14, <2>1, <2>2, RoomToAverage
<1> DEFINE h == R \div 2
<1>16. h \in Int
  BY <1>3
<1> HIDE DEF h
<1>17. (a + peak - h)..(a + peak - h + R - 1) \subseteq 0..(n - 1)
  <2>1. a + peak - h >= 0 /\ a + peak - h + R - 1 <= n - 1
    BY <1>1, <1>3, <1>6, <1>9, <1>15, <1>16 DEF h
  <2>2. a + peak - h \in Int /\ a + peak - h + R - 1 \in Int
    BY <1>3, <1>6, <1>9, <1>16
  <2> QED
    BY <1>1, <2>1, <2>2
<1>18. \A k \in 0..(width - 1) : a + k \in 0..(n - 1)
  BY <1>1, <1>6
<1> QED
  BY <1>10, <1>17, <1>18 DEF n, a, width, h, Below

(* Noise from more than a bin is from one bin or more.                     *)
LEMMA NoiseInside ==
  ASSUME config \in Configs, BandsFit
  PROVE  /\ Quartile < NoiseBins.width
         /\ \A b \in 0..(NoiseBins.width - 1) : NoiseBins.low + b \in 0..(config.bins - 1)
<1> DEFINE n == config.bins
           r == config.rate
           ln == config.lowNoise
           hn == config.highNoise
           f == IF ln <= hn THEN ln ELSE hn
           g == IF ln <= hn THEN hn ELSE ln
           a == NoiseBins.low
           width == NoiseBins.width
           b == Bin(g)
<1>1. n \in Nat \ {0} /\ r \in Nat \ {0}
  BY Configured
<1>2. \A k \in {ln, hn} : k \in Int /\ -r <= 2 * k /\ 2 * k <= r
  BY Configured
<1>3. n * Abs(hn - ln) > r
  BY DEF BandsFit
<1>4. a = Bin(f) /\ width = b - a /\ a \in 0..(n - 1) /\ b \in 0..(n - 1)
  BY <1>2, BinsOfRow DEF NoiseBins
<1>5. a = FrequencyToBin(n, r, f) /\ b = FrequencyToBin(n, r, g)
  BY <1>4 DEF Bin
<1>6. /\ f \in Int /\ -r <= 2 * f /\ 2 * f <= r
      /\ g \in Int /\ -r <= 2 * g /\ 2 * g <= r /\ f <= g
  BY <1>2
<1>7. Abs(hn - ln) = g - f
  <2>1. ln \in Int /\ hn \in Int
    BY <1>2
  <2>2. Abs(hn - ln) = IF hn - ln < 0 THEN -(hn - ln) ELSE hn - ln
    BY Zenon DEF Abs
  <2> HIDE DEF ln, hn
  <2> QED
    BY <2>1, <2>2
<1>8. Quartile = width \div 4
  BY Zenon DEF Quartile
<1> HIDE DEF n, r, ln, hn, f, g, a, width, b
<1>9. n * (g - f) > r /\ n * (g - f) \in Int
  <2>1. g - f \in Int
    BY <1>6
  <2> QED
    BY <1>1, <1>3, <1>7, <2>1
<1>10. width > 0
  <2> SUFFICES ASSUME ~(a < b) PROVE FALSE
    BY <1>4
  <2>1. b <= a
    BY <1>4
  <2> DEFINE d == 2 * r
             x == n * (2 * f + r)
             w == n * (2 * g + r)
  <2>2. d \in Nat \ {0} /\ x \in Int /\ w \in Int
    BY <1>1, <1>6
  <2>3. w - x > d
    <3>1. w - x = 2 * (n * (g - f))
      BY <1>1, <1>6
    <3> QED
      BY <1>1, <1>9, <3>1
  <2>4. d * a <= x /\ d * a \in Int /\ d * b \in Int
    <3>1. d * a <= x
      BY <1>1, <1>5, <1>6, BinHolds
    <3>2. d * a \in Int /\ d * b \in Int
      BY <1>4, <2>2
    <3> QED
      BY <3>1, <3>2
  <2>5. w <= d * b + d
    BY <1>1, <1>5, <1>6, BinHolds
  <2> HIDE DEF d, x, w
  <2>6. d * b <= d * a
    BY <1>4, <2>1, <2>2, Factor
  <2> QED
    BY <2>2, <2>3, <2>4, <2>5, <2>6
<1>11. width \in Nat \ {0}
  BY <1>4, <1>10
<1>12. Quartile < width
  BY <1>8, <1>11
<1>13. \A k \in 0..(width - 1) : a + k \in 0..(n - 1)
  BY <1>1, <1>4
<1> QED
  BY <1>12, <1>13 DEF n, a, width

(* So update() stays inside the row.                                       *)
LEMMA ReadsInside ==
  ASSUME config \in Configs, ReadsInStep, BandsFit
  PROVE  reads \subseteq 0..(config.bins - 1) /\ Quartile < NoiseBins.width
<1>1. /\ Quartile < NoiseBins.width
      /\ \A b \in 0..(NoiseBins.width - 1) : NoiseBins.low + b \in 0..(config.bins - 1)
  BY NoiseInside
<1>2. CASE reads = {}
  BY <1>1, <1>2
<1>3. CASE reads # {}
  <2>1. PICK peak \in Below(DetectBins.width) : reads = ReadOf(peak)
    BY <1>3 DEF ReadsInStep
  <2>2. DetectBins.width > 0
    BY <1>3 DEF ReadsInStep
  <2>3. /\ Averaged(peak) \subseteq 0..(config.bins - 1)
        /\ \A b \in Below(DetectBins.width) : DetectBins.low + b \in 0..(config.bins - 1)
    BY <2>2, AverageInside
  <2> QED
    BY <1>1, <2>1, <2>3 DEF ReadOf
<1> QED
  BY <1>2, <1>3

(* The steps, one after the other: what is written has the form it should. *)
LEMMA FileStarts ==
  ASSUME FileIInv, Start \/ ReadRow
  PROVE  FileIInv'
<1>1. FileTypes /\ ImageInStep /\ BandInStep /\ ReadsInStep
  BY DEF FileIInv
<1>2. UNCHANGED <<fitsVars, config, length, kind, y>>
  BY DEF Start, ReadRow
<1>3. UNCHANGED <<fits, status, lastStatus, image, logged>>
  BY <1>2 DEF fitsVars
<1>4. /\ step \in {"starting", "reading"} /\ step' \in {"reading", "opening"}
      /\ band' = FileBand
  BY <1>1 DEF Start, ReadRow, BandInStep
<1>5. FileTypes'
  BY <1>1, <1>2, <1>3, <1>4 DEF FileTypes
<1>6. ImageInStep'
  <2>1. fits = "none" /\ image = << >> /\ (status = 1 => logged)
    BY <1>1, <1>4 DEF ImageInStep
  <2> QED
    BY <1>3, <1>4, <2>1 DEF ImageInStep
<1>7. BandInStep'
  <2>1. FileBand' = FileBand
    BY <1>2 DEF FileBand, Bin
  <2> QED
    BY <1>4, <2>1 DEF BandInStep
<1>8. DetectBins' = DetectBins /\ \A peak : ReadOf(peak)' = ReadOf(peak)
  <2>1. DetectBins' = DetectBins /\ NoiseBins' = NoiseBins /\ AverageRange' = AverageRange
    BY <1>2 DEF DetectBins, NoiseBins, AverageRange, BinsOf, Bin
  <2> QED
    BY <2>1 DEF ReadOf, Averaged
<1>9. ReadsInStep'
  <2>1. CASE Start
    <3>1. reads' = reads
      BY <2>1 DEF Start
    <3> QED
      BY <1>1, <1>8, <3>1 DEF ReadsInStep
  <2>2. CASE ReadRow
    <3>1. DetectBins.width > 0
      BY <2>2 DEF ReadRow
    <3>2. PICK row \in [DetectBins.low..(DetectBins.low + DetectBins.width) -> Magnitudes] :
               reads' = ReadOf(Peak(row))
      BY <2>2 DEF ReadRow
    <3>3. DetectBins.low \in Nat /\ DetectBins.width \in Nat
      <4>1. \A f \in {config.lowDetect, config.highDetect} :
               f \in Int /\ -config.rate <= 2 * f /\ 2 * f <= config.rate
        BY <1>1, Configured DEF FileTypes
      <4>2. DetectBins.low \in 0..(config.bins - 1) /\ DetectBins.width \in Nat
        BY <1>1, <4>1, BinsOfRow DEF FileTypes, DetectBins
      <4> QED
        BY <4>2
    <3>4. Peak(row) \in Below(DetectBins.width)
      BY <3>1, <3>3, PeakIsThere
    <3>5. \E peak \in Below(DetectBins.width) : reads' = ReadOf(peak)
      BY <3>2, <3>4
    <3> QED
      BY <1>8, <3>1, <3>5 DEF ReadsInStep
  <2> QED
    BY <2>1, <2>2
<1> QED
  BY <1>5, <1>6, <1>7, <1>9 DEF FileIInv

(* Opening a file and making the image in it.                              *)
LEMMA FileBegins ==
  ASSUME FileIInv, OpenFile \/ CreateFile \/ HeadFile
  PROVE  FileIInv'
<1>1. FileTypes /\ ImageInStep /\ BandInStep /\ ReadsInStep /\ (status = 1 => logged)
  BY DEF FileIInv, ImageInStep
<1>2. UNCHANGED <<config, length, kind, band, reads>>
  BY DEF OpenFile, CreateFile, HeadFile
<1>3. /\ Calls /\ CheckStatus /\ image' = image
      /\ step \in {"opening", "creating", "heading"}
      /\ step' \in {"creating", "heading", "filling", "written"}
  BY DEF OpenFile, CreateFile, HeadFile, Open, CreateImage, WriteHeader
<1>4. /\ status' \in {0, 1} /\ lastStatus' = status'
      /\ status' = 1 => logged'
      /\ status' = 0 => status = 0
  BY <1>1, <1>3, CallLogs
<1>5. /\ Width' = Width /\ Height' = Height
      /\ FileBand' = FileBand /\ DetectBins' = DetectBins
      /\ \A peak : ReadOf(peak)' = ReadOf(peak)
  BY <1>2, WidthStays
<1>6. image = << >>
  BY <1>1, <1>3 DEF ImageInStep
<1>7. y' \in Nat
  BY <1>1 DEF FileTypes, OpenFile, CreateFile, HeadFile
<1>8. FileTypes'
  BY <1>1, <1>2, <1>3, <1>4, <1>7 DEF FileTypes
<1>9. BandInStep' /\ ReadsInStep'
  BY <1>1, <1>2, <1>3, <1>5 DEF BandInStep, ReadsInStep
<1>10. ImageInStep'
  <2>1. CASE OpenFile
    <3>1. step = "opening" /\ Open /\ step' = IF status' = 0 THEN "creating" ELSE "written"
      BY <2>1 DEF OpenFile
    <3>2. fits = "none" /\ fits' = IF status' = 0 THEN "open" ELSE fits
      BY <1>1, <3>1 DEF ImageInStep, Open
    <3> QED
      BY <1>3, <1>4, <1>6, <3>1, <3>2 DEF ImageInStep
  <2>2. CASE CreateFile
    <3>1. step = "creating" /\ CreateImage(Width, Height) /\ step' = "heading"
      BY <2>2 DEF CreateFile
    <3>2. fits' = "open" /\ dimensions'[0] = Width
      BY <1>1, <3>1 DEF ImageInStep, CreateImage
    <3> QED
      BY <1>3, <1>4, <1>5, <1>6, <3>1, <3>2 DEF ImageInStep
  <2>3. CASE HeadFile
    <3>1. step = "heading" /\ WriteHeader /\ step' = "filling" /\ y' = 0
      BY <2>3 DEF HeadFile
    <3>2. fits' = "open" /\ dimensions'[0] = Width
      BY <1>1, <3>1 DEF ImageInStep, WriteHeader
    <3>3. FirstRows(0)' /\ 0 \in 0..y'
      BY <1>3, <1>6, <3>1 DEF FirstRows
    <3> QED
      BY <1>3, <1>4, <1>5, <1>6, <3>1, <3>2, <3>3 DEF ImageInStep
  <2> QED
    BY <2>1, <2>2, <2>3
<1> QED
  BY <1>8, <1>9, <1>10 DEF FileIInv

(* A row is written behind the others, or none is any more.                *)
LEMMA FileFills ==
  ASSUME FileIInv, FillFile
  PROVE  FileIInv'
<1>1. FileTypes /\ ImageInStep /\ BandInStep /\ ReadsInStep /\ (status = 1 => logged)
  BY DEF FileIInv, ImageInStep
<1>2. UNCHANGED <<config, length, kind, band, reads, step, fits, dimensions>>
  BY DEF FillFile, Write
<1>3. /\ Calls /\ CheckStatus /\ step = "filling" /\ y' = y + 1
      /\ image' = IF status' > 0 THEN image
                  ELSE [p \in DOMAIN image \cup {Pixel(y)} |-> IF p = Pixel(y) THEN Pixels ELSE image[p]]
  BY DEF FillFile, Write
<1>4. /\ status' \in {0, 1} /\ lastStatus' = status'
      /\ status' = 1 => logged'
      /\ status' = 0 => status = 0
  BY <1>1, <1>3, CallLogs
<1>5. /\ Width' = Width /\ Height' = Height
      /\ FileBand' = FileBand /\ DetectBins' = DetectBins
      /\ \A peak : ReadOf(peak)' = ReadOf(peak)
  BY <1>2, WidthStays
<1>6. y \in Nat /\ y + 1 \in Nat /\ Pixel(y) = y + 1
  BY <1>1 DEF FileTypes, Pixel
<1>7. FileTypes'
  BY <1>1, <1>2, <1>3, <1>4, <1>6 DEF FileTypes
<1>8. BandInStep' /\ ReadsInStep'
  BY <1>1, <1>2, <1>5 DEF BandInStep, ReadsInStep
<1>9. PICK rows \in 0..y : FirstRows(rows) /\ (status = 0 => rows = y)
  BY <1>1, <1>3 DEF ImageInStep
<1>10. fits = "open" /\ dimensions[0] = Width
  BY <1>1, <1>3 DEF ImageInStep
<1>11. \E more \in 0..(y + 1) : FirstRows(more)' /\ (status' = 0 => more = y + 1)
  <2>1. CASE status' = 0
    <3>1. rows = y /\ DOMAIN image = 1..y
      BY <1>4, <1>9, <2>1 DEF FirstRows
    <3>2. image' = [p \in DOMAIN image \cup {y + 1} |-> IF p = y + 1 THEN Pixels ELSE image[p]]
      BY <1>3, <1>6, <2>1
    <3>3. (1..y) \cup {y + 1} = 1..(y + 1)
      BY <1>6
    <3>4. DOMAIN image' = 1..(y + 1)
      BY <3>1, <3>2, <3>3
    <3>5. ASSUME NEW p \in 1..(y + 1)
          PROVE  image'[p].row = p - 1 /\ image'[p].count = Width'
      <4>1. CASE p = y + 1
        <5>1. image'[p] = Pixels
          BY <3>1, <3>2, <3>3, <4>1
        <5>2. Pixels.row = y /\ Pixels.count = Width
          BY <1>10 DEF Pixels
        <5> QED
          BY <1>5, <1>6, <4>1, <5>1, <5>2
      <4>2. CASE p # y + 1
        <5>1. p \in 1..y
          BY <1>6, <4>2
        <5>2. image'[p] = image[p]
          BY <3>1, <3>2, <4>2, <5>1
        <5> QED
          BY <1>5, <1>9, <3>1, <5>1, <5>2 DEF FirstRows
      <4> QED
        BY <4>1, <4>2
    <3>6. y + 1 \in 0..(y + 1)
      BY <1>6
    <3> QED
      BY <3>4, <3>5, <3>6 DEF FirstRows
  <2>2. CASE status' # 0
    <3>1. image' = image
      BY <1>3, <1>4, <2>2
    <3>2. FirstRows(rows)' /\ rows \in 0..(y + 1)
      BY <1>5, <1>6, <1>9, <3>1 DEF FirstRows
    <3> QED
      BY <2>2, <3>2
  <2> QED
    BY <2>1, <2>2
<1>12. ImageInStep'
  BY <1>2, <1>3, <1>4, <1>5, <1>10, <1>11 DEF ImageInStep
<1> QED
  BY <1>7, <1>8, <1>12 DEF FileIInv

(* Closing it, and what comes after a file.                                *)
LEMMA FileEnds ==
  ASSUME FileIInv, CloseFile \/ NextFile
  PROVE  FileIInv'
<1>1. FileTypes /\ ImageInStep /\ BandInStep /\ ReadsInStep /\ (status = 1 => logged)
  BY DEF FileIInv, ImageInStep
<1>2. UNCHANGED <<config, length, band, reads, y>>
  BY DEF CloseFile, NextFile
<1>3. step \in {"filling", "written"} /\ step' \in {"written", "opening", "done"}
  BY DEF CloseFile, NextFile
<1>4. BandInStep' /\ ReadsInStep'
  <2>1. DetectBins' = DetectBins /\ FileBand' = FileBand
    BY <1>2 DEF FileBand, DetectBins, BinsOf, Bin
  <2>2. ASSUME NEW peak PROVE ReadOf(peak)' = ReadOf(peak)
    <3>1. NoiseBins' = NoiseBins /\ AverageRange' = AverageRange
      BY <1>2 DEF NoiseBins, AverageRange, BinsOf, Bin
    <3> QED
      BY <2>1, <3>1 DEF ReadOf, Averaged
  <2> QED
    BY <1>1, <1>2, <1>3, <2>1, <2>2 DEF BandInStep, ReadsInStep
<1>5. CASE CloseFile
  <2>1. /\ kind' = kind /\ image' = image /\ status' = 0 /\ lastStatus' = 0 /\ fits' = "closed"
        /\ step = "filling" /\ step' = "written" /\ y = Height
    BY <1>5 DEF CloseFile, Close
  <2>2. logged => logged'
    <3>1. \E error \in IF status > 0 THEN {status} ELSE {0, 1} :
             logged' = (logged \/ (error > 0 /\ lastStatus # error))
      BY <1>5 DEF CloseFile, Close
    <3> QED
      BY <3>1, Zenon
  <2>3. Width' = Width /\ Height' = Height
    BY <1>2, <2>1, WidthStays
  <2>4. PICK rows \in 0..y : FirstRows(rows) /\ (status = 0 => rows = y)
    BY <1>1, <2>1 DEF ImageInStep
  <2>5. FirstRows(rows)' /\ rows \in Nat
    BY <1>1, <2>1, <2>3, <2>4 DEF FirstRows, FileTypes
  <2>6. ~logged' => rows = Height'
    <3>1. ~logged' => status = 0
      BY <1>1, <2>2 DEF FileTypes
    <3> QED
      BY <2>1, <2>3, <2>4, <3>1
  <2>7. ImageInStep'
    BY <2>1, <2>5, <2>6 DEF ImageInStep
  <2>8. FileTypes'
    BY <1>1, <1>2, <2>1 DEF FileTypes
  <2> QED
    BY <1>4, <2>7, <2>8 DEF FileIInv
<1>6. CASE NextFile
  <2>1. step = "written"
    BY <1>6 DEF NextFile
  <2>2. CASE ~IsRaw /\ kind' = "raw" /\ step' = "opening" /\ NewWriter
    <3>1. /\ fits' = "none" /\ image' = << >> /\ status' = 0 /\ lastStatus' = 0
          /\ kind' = "raw" /\ step' = "opening"
      BY <2>2 DEF NewWriter
    <3>2. ImageInStep'
      BY <3>1 DEF ImageInStep
    <3>3. FileTypes'
      BY <1>1, <1>2, <3>1 DEF FileTypes
    <3> QED
      BY <1>4, <3>2, <3>3 DEF FileIInv
  <2>3. CASE kind' = kind /\ step' = "done" /\ UNCHANGED fitsVars
    <3>1. UNCHANGED <<fits, status, lastStatus, dimensions, image, logged>> /\ step' = "done" /\ kind' = kind
      BY <2>3 DEF fitsVars
    <3>2. Width' = Width /\ Height' = Height
      BY <1>2, <3>1, WidthStays
    <3>3. FileTypes'
      BY <1>1, <1>2, <3>1 DEF FileTypes
    <3>4. ImageInStep'
      <4>1. fits = "closed" => \E rows \in Nat : FirstRows(rows) /\ (~logged => rows = Height)
        BY <1>1, <2>1 DEF ImageInStep
      <4>2. \A rows : FirstRows(rows) => FirstRows(rows)'
        BY <3>1, <3>2 DEF FirstRows
      <4>3. fits' = "closed" => \E rows \in Nat : FirstRows(rows)' /\ (~logged' => rows = Height')
        BY <3>1, <3>2, <4>1, <4>2
      <4> QED
        BY <1>1, <3>1, <4>3 DEF ImageInStep
    <3> QED
      BY <1>4, <3>3, <3>4 DEF FileIInv
  <2> QED
    BY <1>6, <2>2, <2>3 DEF NextFile
<1> QED
  BY <1>5, <1>6

(* Nothing happens.                                                        *)
LEMMA FileStutters ==
  ASSUME FileIInv, UNCHANGED fileVars
  PROVE  FileIInv'
<1>1. FileTypes /\ ImageInStep /\ BandInStep /\ ReadsInStep
  BY DEF FileIInv
<1>2. UNCHANGED <<fits, status, lastStatus, dimensions, image, logged, config, length, step, kind,
                  band, reads, y>>
  BY DEF fileVars, fitsVars
<1>3. /\ Width' = Width /\ Height' = Height
      /\ FileBand' = FileBand /\ DetectBins' = DetectBins
      /\ \A peak : ReadOf(peak)' = ReadOf(peak)
  BY <1>2, WidthStays
<1>4. FileTypes' /\ BandInStep' /\ ReadsInStep'
  BY <1>1, <1>2, <1>3 DEF FileTypes, BandInStep, ReadsInStep
<1>5. \A rows : FirstRows(rows) => FirstRows(rows)'
  BY <1>2, <1>3 DEF FirstRows
<1>6. ImageInStep'
  BY <1>1, <1>2, <1>3, <1>5 DEF ImageInStep
<1> QED
  BY <1>4, <1>6 DEF FileIInv

(* All the steps.                                                          *)
LEMMA FileInductive ==
  ASSUME FileIInv, [FileNext]_fileVars
  PROVE  FileIInv'
BY FileStarts, FileBegins, FileFills, FileEnds, FileStutters DEF FileNext

(* In the number of samples that Recorder takes for its rows there is room *)
(* for all of them, and no more than the raw buffer has.                   *)
LEMMA SamplesBetween ==
  ASSUME NEW hop \in Nat \ {0}, NEW rate \in Nat \ {0}, hop <= rate, NEW rows \in Nat
  PROVE  RecorderToRaw(rate, hop, rows) \in (rows * hop)..(8 * rows * hop)
<1> DEFINE q == rate \div hop
           samples == (rows * rate) \div q
<1>1. q \in Int /\ hop * q <= rate /\ rate < hop * q + hop
  BY Quotient
<1>2. RecorderToRaw(rate, hop, rows) = samples
  BY DEF RecorderToRaw
<1> HIDE DEF q
<1>3. q \in Nat \ {0}
  <2>1. hop * 1 <= rate
    OBVIOUS
  <2>2. 1 <= rate \div hop
    BY <2>1, QuotientBetween
  <2> QED
    BY <1>1, <2>2 DEF q
<1> DEFINE all == rows * hop
           total == rows * rate
<1>4. all \in Nat /\ total \in Int
  OBVIOUS
<1>5. q * all <= total
  <2>1. hop * q \in Int
    BY <1>3
  <2>2. rows = 0 \/ rows \in Nat \ {0}
    OBVIOUS
  <2>3. CASE rows = 0
    BY <1>3, <2>3
  <2>4. CASE rows \in Nat \ {0}
    <3>1. rows * (hop * q) <= rows * rate
      BY <1>1, <2>1, <2>4, Factor
    <3>2. rows * (hop * q) = q * all
      BY <1>3
    <3> QED
      BY <3>1, <3>2
  <2> QED
    BY <2>2, <2>3, <2>4
<1>6. total < q * (8 * all + 1)
  <2>1. rate <= 2 * (hop * q)
    <3>1. hop * 1 <= hop * q
      BY <1>3, Factor
    <3>2. hop * q \in Int
      BY <1>3
    <3> QED
      BY <1>1, <3>1, <3>2
  <2>2. rows * rate <= rows * (2 * (hop * q))
    <3>1. 2 * (hop * q) \in Int
      BY <1>3
    <3>2. CASE rows = 0
      BY <1>3, <3>2
    <3>3. CASE rows \in Nat \ {0}
      BY <2>1, <3>1, <3>3, Factor
    <3> QED
      BY <3>2, <3>3
  <2>3. rows * (2 * (hop * q)) = 2 * (q * all)
    BY <1>3
  <2>4. q * (8 * all + 1) = 8 * (q * all) + q
    BY <1>3, <1>4
  <2>5. q * all \in Nat
    BY <1>3, <1>4
  <2> HIDE DEF all, total
  <2> QED
    BY <1>3, <1>4, <2>2, <2>3, <2>4, <2>5 DEF total
<1>7. 8 * rows * hop = 8 * all
  OBVIOUS
<1> HIDE DEF all, total
<1>8. all <= total \div q /\ total \div q < 8 * all + 1 /\ total \div q \in Int
  BY <1>3, <1>4, <1>5, <1>6, QuotientBetween, Quotient
<1>9. total \div q \in all..(8 * all)
  BY <1>4, <1>8
<1> QED
  BY <1>2, <1>7, <1>9 DEF all, total

(* What is written of a snapshot, and what it is made from.  The inductive *)
(* invariant of SnapshotRecorder::write() and writeRaw() with FITSWriter,  *)
(* start() and BolidRecorder::update().                                    *)
THEOREM FileInvariant == FileSpec => []FileIInv
<1>1. FileInit => FileIInv
  BY FileInitially
<1>2. FileIInv /\ [FileNext]_fileVars => FileIInv'
  BY FileInductive
<1> QED
  BY <1>1, <1>2, PTL DEF FileSpec

(* Whatever call of the library fails, a file that is closed has its first *)
(* rows without a gap; unless that was logged it has all of them, and of   *)
(* raw data as many samples as the rows were made from, or more, that the  *)
(* buffer of startStream() has room for, at every rate and overlap         *)
(* (FITSWriter.cpp, WaterfallBackend.cpp:141-268).                         *)
THEOREM FilesAreWhole == FileSpec => []FilesWhole
<1>1. FileIInv => FilesWhole
  <2> SUFFICES ASSUME FileIInv, fits = "closed" PROVE FilesWhole
    BY DEF FilesWhole
  <2>1. FileTypes /\ ImageInStep
    BY DEF FileIInv
  <2>2. step \in {"written", "done"}
    BY <2>1 DEF FileTypes, ImageInStep
  <2>3. PICK rows \in Nat : FirstRows(rows) /\ (~logged => rows = Height)
    BY <2>1, <2>2 DEF ImageInStep
  <2>4. DOMAIN image = 1..rows /\ \A p \in 1..rows : image[p].row = p - 1 /\ image[p].count = Width
    BY <2>3 DEF FirstRows
  <2>5. Cardinality(1..rows) = rows
    <3>1. 1 \in Int /\ rows \in Int /\ rows \in Nat
      OBVIOUS
    <3>2. Cardinality(1..rows) = IF 1 > rows THEN 0 ELSE rows - 1 + 1
      BY <3>1, FS_Interval
    <3> QED
      BY <3>1, <3>2
  <2>6. ~logged /\ ~IsRaw => rows = length
    BY <2>3 DEF Height
  <2>7. ~logged /\ IsRaw => rows \in (length * Hop)..RawCapacity
    <3>1. Hop \in Nat \ {0} /\ config.rate \in Nat \ {0} /\ Hop <= config.rate
      BY <2>1, Configured DEF FileTypes
    <3>2. length \in Nat
      BY <2>1, ConfigAssumption DEF FileTypes, ConfigAssumption
    <3>3. RecorderToRaw(config.rate, Hop, length) \in (length * Hop)..(8 * length * Hop)
      BY <3>1, <3>2, SamplesBetween
    <3>4. RawCapacity = 8 * length * Hop
      BY DEF RawCapacity, FFTSamplesToRaw
    <3>5. IsRaw => Height = RecorderToRaw(config.rate, Hop, length)
      BY DEF Height
    <3> QED
      BY <2>3, <3>3, <3>4, <3>5
  <2>8. Cardinality(DOMAIN image) = rows
    BY <2>4, <2>5
  <2> QED
    BY <2>4, <2>6, <2>7, <2>8 DEF FilesWhole
<1> QED
  BY <1>1, FileInvariant, PTL

(* For every rate, number of bins and band the frequencies of the columns  *)
(* are right to a bin, the columns are bins of the row, and the band is    *)
(* covered but for a bin (WaterfallBackend.cpp:368-380).                   *)
THEOREM ColumnsAreNamed == FileSpec => []ColumnsNamed
<1>1. FileIInv => ColumnsNamed
  <2> SUFFICES ASSUME FileIInv PROVE ColumnsNamed
    OBVIOUS
  <2>1. config \in Configs /\ (band = << >> \/ band = FileBand)
    BY DEF FileIInv, FileTypes, BandInStep
  <2>2. CASE band = << >>
    BY <2>2, Zenon DEF ColumnsNamed
  <2>3. CASE band = FileBand
    BY <2>1, <2>3, WholeBandNamed, GivenBandNamed
  <2> QED
    BY <2>1, <2>2, <2>3
<1> QED
  BY <1>1, FileInvariant, PTL

(* For every rate, number of bins, bands that fit and rows of any          *)
(* magnitudes, update() reads nothing but bins of the row, and noise() an  *)
(* element that is there (BolidRecorder.cpp:119-132).                      *)
THEOREM ReadsStayInside == FileSpec => []ReadsInsideRow
<1>1. FileIInv => ReadsInsideRow
  BY ReadsInside DEF FileIInv, FileTypes, ReadsInsideRow
<1> QED
  BY <1>1, FileInvariant, PTL

=============================================================================
