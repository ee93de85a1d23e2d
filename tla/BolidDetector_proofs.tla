----------------------- MODULE BolidDetector_proofs -----------------------
(***************************************************************************)
(* What the meteor detector guarantees for every advance, jitter, snapshot *)
(* length and stream.  The inductive invariant DetectorIInv says what the  *)
(* two counters mean: while a bolid lasts, length and duration together    *)
(* reach to the latest row; once it pauses, duration is the silence since  *)
(* its last detection, and it is less than Gap.  HistoryIInv says what the *)
(* detections amount to: groups that are over, each of them sent, and the  *)
(* one that is open.                                                       *)
(***************************************************************************)
EXTENDS BolidDetector, SequenceTheorems, TLAPS

\* What length and duration mean in each state.
CountersMeanRows ==
  /\ state = "bolid" =>
       /\ duration >= 1
       /\ next.length >= 2 * Advance
       /\ LastOpen = mark - 1
  /\ state = "bolid_ended" =>
       /\ duration >= 1
       /\ duration < Gap
       /\ next.length >= 2 * Advance + 1
       /\ LastOpen + duration = mark - 1

\* What each snapshot sent says of its meteor: when it was over, and how much
\* of it the snapshot holds.
SentInPlace(s) ==
  /\ s.announced >= 2 * Advance + 1
  /\ s.length = Limited(s.announced)
  /\ LastOf(s) + Gap = s.mark - 1

AllSentInPlace == \A i \in DOMAIN sent : SentInPlace(sent[i])

DetectorIInv == DetectorTypeOK /\ CountersMeanRows /\ AllSentInPlace

-----------------------------------------------------------------------------
LEMMA GapType == Gap \in Nat /\ Gap >= 2 /\ Gap >= Jitter
  BY DetectorParameters DEF Gap

LEMMA LimitedType ==
  ASSUME NEW length \in Nat
  PROVE  Limited(length) \in Nat /\ Limited(length) <= length /\ Limited(length) <= SnapshotRows
  BY DetectorParameters DEF Limited

(* What BolidEnds appends: a snapshot in place, after the others.          *)
LEMMA EndsInPlace ==
  ASSUME DetectorTypeOK, CountersMeanRows, BolidEnds
  PROVE  LET s == [start |-> next.start, announced |-> next.length,
                   length |-> Limited(next.length), mark |-> mark']
         IN  /\ s \in SentSnapshots
             /\ sent' = Append(sent, s)
             /\ SentInPlace(s)
             /\ duration + 1 = Gap
<1> DEFINE s == [start |-> next.start, announced |-> next.length,
                 length |-> Limited(next.length), mark |-> mark']
<1>1. next.start \in Int /\ next.length \in Nat /\ mark \in Nat /\ mark' = mark + 1
      /\ duration \in Nat
  BY DEF DetectorTypeOK, BolidEnds, NewRow
<1>2. s \in SentSnapshots
  BY <1>1, LimitedType DEF SentSnapshots
<1>3. sent' = Append(sent, s)
  BY DEF BolidEnds
<1>4. state = "bolid_ended" /\ duration + 1 >= Jitter
  BY DEF BolidEnds, Over
<1>5. duration >= 1 /\ duration < Gap /\ next.length >= 2 * Advance + 1
      /\ LastOpen + duration = mark - 1
  BY <1>4 DEF CountersMeanRows
<1>6. duration + 1 = Gap
  BY <1>1, <1>4, <1>5, DetectorParameters DEF Gap
<1>7. LastOf(s) = LastOpen
  BY <1>1, <1>4, DetectorParameters DEF LastOf, LastOpen, FirstOpen
<1>8. LastOpen \in Int
  BY <1>1, <1>4, DetectorParameters DEF LastOpen, FirstOpen
<1>9. LastOf(s) + Gap = s.mark - 1
  BY <1>1, <1>5, <1>6, <1>7, <1>8
<1>10. SentInPlace(s)
  BY <1>5, <1>9 DEF SentInPlace
<1> QED BY <1>2, <1>3, <1>6, <1>10

-----------------------------------------------------------------------------
(* The invariant.                                                          *)

LEMMA DetectorInitIInv == DetectorInit => DetectorIInv
<1> SUFFICES ASSUME DetectorInit PROVE DetectorIInv
  OBVIOUS
<1>1. DetectorTypeOK
  BY DEF DetectorInit, DetectorTypeOK, SentSnapshots
<1>2. CountersMeanRows
  BY DEF DetectorInit, CountersMeanRows
<1>3. AllSentInPlace
  BY DEF DetectorInit, AllSentInPlace
<1> QED BY <1>1, <1>2, <1>3 DEF DetectorIInv

(* Type correctness of one step.                                           *)
LEMMA DetectorTypeStep ==
  ASSUME DetectorTypeOK, CountersMeanRows, DetectorNext
  PROVE  DetectorTypeOK'
<1> USE DetectorParameters
<1> USE DEF DetectorTypeOK, NewRow, Row
<1>0. mark' \in Nat /\ detections' \subseteq 0 .. mark' - 1
  BY DEF DetectorNext, BolidStarts, BolidGoesOn, BolidReturns, NothingHeard, BolidPauses,
         StillPaused, BolidEnds
<1>1. CASE BolidStarts
  BY <1>0, <1>1 DEF BolidStarts
<1>2. CASE BolidGoesOn
  BY <1>0, <1>2 DEF BolidGoesOn
<1>3. CASE BolidReturns
  BY <1>0, <1>3 DEF BolidReturns, Counted
<1>4. CASE NothingHeard
  BY <1>0, <1>4 DEF NothingHeard
<1>5. CASE BolidPauses
  BY <1>0, <1>5 DEF BolidPauses, DurationReset
<1>6. CASE StillPaused
  BY <1>0, <1>6 DEF StillPaused
<1>7. CASE BolidEnds
  <2> DEFINE s == [start |-> next.start, announced |-> next.length,
                   length |-> Limited(next.length), mark |-> mark']
  <2>1. s \in SentSnapshots /\ sent' = Append(sent, s)
    BY <1>7, EndsInPlace
  <2> HIDE DEF s
  <2>2. sent' \in Seq(SentSnapshots)
    BY <2>1, AppendProperties
  <2>3. next.start \in Int /\ next.length \in Nat
    OBVIOUS
  <2>4. next' = [start |-> next.start + Limited(next.length), length |-> 0]
    BY <1>7 DEF BolidEnds
  <2>5. next' \in [start : Int, length : Nat]
    BY <2>3, <2>4, LimitedType
  <2> QED BY <1>0, <1>7, <2>2, <2>5 DEF BolidEnds
<1> QED
  BY <1>1, <1>2, <1>3, <1>4, <1>5, <1>6, <1>7 DEF DetectorNext

(* The counters keep their meaning.                                        *)
LEMMA CountersStep ==
  ASSUME DetectorTypeOK, CountersMeanRows, DetectorNext
  PROVE  CountersMeanRows'
<1> USE DetectorParameters, GapType
<1> USE DEF CountersMeanRows, LastOpen, FirstOpen, NewRow
<1>0. mark \in Nat /\ duration \in Nat /\ next \in [start : Int, length : Nat]
  BY DEF DetectorTypeOK
<1>a. next.start \in Int /\ next.length \in Nat
  BY <1>0
<1>1. CASE BolidStarts
  <2>1. next'.start = mark + 1 - Advance /\ next'.length = 2 * Advance /\ duration' = 1
        /\ state' = "bolid" /\ mark' = mark + 1
    BY <1>0, <1>1 DEF BolidStarts
  <2> QED BY <1>0, <2>1
<1>2. CASE BolidGoesOn
  BY <1>0, <1>a, <1>2 DEF BolidGoesOn
<1>3. CASE BolidReturns
  BY <1>0, <1>a, <1>3 DEF BolidReturns, Counted
<1>4. CASE NothingHeard
  BY <1>4 DEF NothingHeard
<1>5. CASE BolidPauses
  <2>1. next'.start = next.start /\ next'.length = next.length + duration /\ duration' = 1
        /\ state' = "bolid_ended" /\ mark' = mark + 1 /\ state = "bolid"
    BY <1>0, <1>5 DEF BolidPauses, DurationReset
  <2> QED BY <1>0, <1>a, <2>1
<1>6. CASE StillPaused
  <2>1. duration' < Gap
    BY <1>0, <1>6 DEF StillPaused, Over, Gap
  <2>2. state = "bolid_ended" /\ state' = "bolid_ended" /\ next' = next /\ mark' = mark + 1
        /\ duration' = duration + 1
    BY <1>6 DEF StillPaused
  <2>3. LastOpen' = LastOpen /\ LastOpen \in Int
    BY <1>0, <1>a, <2>2
  <2>4. LastOpen + duration = mark - 1 /\ duration >= 1 /\ next.length >= 2 * Advance + 1
    BY <2>2
  <2>5. LastOpen + duration' = mark' - 1 /\ duration' >= 1
    <3> HIDE DEF LastOpen, CountersMeanRows
    <3> QED BY <1>0, <2>2, <2>3, <2>4
  <2>6. LastOpen' + duration' = mark' - 1
    <3> HIDE DEF LastOpen, CountersMeanRows
    <3> QED BY <2>3, <2>5
  <2>7. next'.length >= 2 * Advance + 1 /\ (duration < Gap)' /\ duration' >= 1
    BY <2>1, <2>2, <2>4, <2>5 DEF Gap
  <2> HIDE DEF LastOpen
  <2> QED BY <2>2, <2>6, <2>7
<1>7. CASE BolidEnds
  BY <1>7 DEF BolidEnds
<1> QED
  BY <1>1, <1>2, <1>3, <1>4, <1>5, <1>6, <1>7 DEF DetectorNext

(* Only BolidEnds sends, and what it sends is in place.                    *)
LEMMA SentStep ==
  ASSUME DetectorIInv, DetectorNext
  PROVE  AllSentInPlace'
<1>1. CASE BolidEnds
  <2> DEFINE s == [start |-> next.start, announced |-> next.length,
                   length |-> Limited(next.length), mark |-> mark']
  <2>1. s \in SentSnapshots /\ sent' = Append(sent, s) /\ SentInPlace(s)
    BY <1>1, EndsInPlace DEF DetectorIInv
  <2> HIDE DEF s
  <2>2. sent \in Seq(SentSnapshots)
    BY DEF DetectorIInv, DetectorTypeOK
  <2>3. /\ Len(sent') = Len(sent) + 1
        /\ \A i \in 1 .. Len(sent) : sent'[i] = sent[i]
        /\ sent'[Len(sent) + 1] = s
        /\ sent' \in Seq(SentSnapshots)
    BY <2>1, <2>2, AppendProperties
  <2>4. Len(sent) \in Nat /\ DOMAIN sent = 1 .. Len(sent) /\ DOMAIN sent' = 1 .. Len(sent')
    BY <2>2, <2>3
  <2>5. ASSUME NEW i \in DOMAIN sent'
        PROVE  SentInPlace(sent'[i])
    <3>1. CASE i = Len(sent) + 1
      BY <3>1, <2>1, <2>3
    <3>2. CASE i # Len(sent) + 1
      <4>1. i \in 1 .. Len(sent)
        BY <3>2, <2>3, <2>4
      <4>2. SentInPlace(sent[i])
        BY <4>1, <2>4 DEF DetectorIInv, AllSentInPlace
      <4> QED BY <4>1, <4>2, <2>3
    <3> QED BY <3>1, <3>2
  <2> QED BY <2>5 DEF AllSentInPlace, SentInPlace, LastOf, Gap, Limited
<1>2. CASE sent' = sent
  BY <1>2 DEF DetectorIInv, AllSentInPlace, SentInPlace, LastOf, Gap, Limited
<1> QED
  BY <1>1, <1>2 DEF DetectorNext, BolidStarts, BolidGoesOn, BolidReturns, NothingHeard,
                    BolidPauses, StillPaused

(* The counters and the snapshots sent stay in step with the rows.         *)
THEOREM DetectorInvariant == DetectorSpec => []DetectorIInv
<1>1. DetectorInit => DetectorIInv
  BY DetectorInitIInv
<1>2. ASSUME DetectorIInv, [DetectorNext]_detectorVars PROVE DetectorIInv'
  <2>1. CASE DetectorNext
    BY <1>2, <2>1, DetectorTypeStep, CountersStep, SentStep DEF DetectorIInv
  <2>2. CASE UNCHANGED detectorVars
    <3>1. DetectorTypeOK'
      BY <1>2, <2>2 DEF DetectorIInv, DetectorTypeOK, detectorVars
    <3>2. CountersMeanRows'
      BY <1>2, <2>2 DEF DetectorIInv, CountersMeanRows, LastOpen, FirstOpen, Gap, detectorVars
    <3>3. AllSentInPlace'
      BY <1>2, <2>2 DEF DetectorIInv, AllSentInPlace, SentInPlace, LastOf, Gap, Limited,
                        detectorVars
    <3> QED BY <3>1, <3>2, <3>3 DEF DetectorIInv
  <2> QED BY <1>2, <2>1, <2>2
<1> QED BY <1>1, <1>2, PTL DEF DetectorSpec

-----------------------------------------------------------------------------
(* What follows from it.                                                   *)

(* The detector's variables keep their types.                              *)
THEOREM DetectorTypeCorrect == DetectorSpec => []DetectorTypeOK
<1>1. DetectorIInv => DetectorTypeOK
  BY DEF DetectorIInv
<1> QED BY <1>1, DetectorInvariant, PTL

(* A pause longer than the advance leaves no snapshot incomplete.          *)
THEOREM SentComplete == DetectorSpec => []CompleteWhenSent
<1>1. DetectorIInv => CompleteWhenSent
  <2> SUFFICES ASSUME DetectorIInv, Gap > Advance, NEW i \in DOMAIN sent
               PROVE  sent[i].start + sent[i].length <= sent[i].mark
    BY DEF CompleteWhenSent
  <2>1. sent \in Seq(SentSnapshots)
    BY DEF DetectorIInv, DetectorTypeOK
  <2>2. sent[i] \in SentSnapshots
    BY <2>1
  <2>3. sent[i].start \in Int /\ sent[i].announced \in Nat /\ sent[i].length \in Nat
        /\ sent[i].mark \in Nat
    BY <2>2 DEF SentSnapshots
  <2>4. SentInPlace(sent[i])
    BY DEF DetectorIInv, AllSentInPlace
  <2>5. sent[i].length <= sent[i].announced
    BY <2>3, <2>4, LimitedType DEF SentInPlace
  <2>6. LastOf(sent[i]) + Gap = sent[i].mark - 1
    BY <2>4 DEF SentInPlace
  <2> QED BY <2>3, <2>5, <2>6, DetectorParameters, GapType DEF LastOf
<1> QED BY <1>1, DetectorInvariant, PTL

-----------------------------------------------------------------------------
(* The detector implements MeteorDetection.                                *)

Meteor(s) == [first |-> FirstOf(s), last |-> LastOf(s)]
Found     == [i \in DOMAIN sent |-> Meteor(sent[i])]

(* A snapshot sent is a meteor found.                                      *)
LEMMA FoundAppends ==
  ASSUME NEW T, sent \in Seq(T), NEW s \in T, sent' = Append(sent, s)
  PROVE  Found' = Append(Found, Meteor(s))
<1> DEFINE n == Len(sent)
<1>1. n \in Nat /\ DOMAIN sent = 1 .. n
  OBVIOUS
<1>2. /\ sent' \in Seq(T)
      /\ Len(sent') = n + 1
      /\ \A i \in 1 .. n : sent'[i] = sent[i]
      /\ sent'[n + 1] = s
  BY AppendProperties
<1>3. DOMAIN sent' = 1 .. n + 1
  BY <1>2
<1>4. Found' = [i \in 1 .. n + 1 |-> Meteor(sent'[i])]
  BY <1>3 DEF Found, Meteor, FirstOf, LastOf
<1>5. Found = [i \in 1 .. n |-> Meteor(sent[i])]
  BY <1>1 DEF Found
<1> HIDE DEF n
<1> DEFINE R == {Meteor(t) : t \in T}
<1>6. \A i \in 1 .. n : sent[i] \in T
  BY <1>1
<1>7. Found \in Seq(R) /\ Len(Found) = n
  BY <1>1, <1>5, <1>6
<1>8. Meteor(s) \in R
  OBVIOUS
<1> HIDE DEF R
<1>9. /\ Append(Found, Meteor(s)) \in Seq(R)
      /\ Len(Append(Found, Meteor(s))) = n + 1
      /\ \A i \in 1 .. n : Append(Found, Meteor(s))[i] = Found[i]
      /\ Append(Found, Meteor(s))[n + 1] = Meteor(s)
  BY <1>7, <1>8, AppendProperties
<1> DEFINE F == Append(Found, Meteor(s))
<1>10. F = [i \in 1 .. n + 1 |-> F[i]]
  <2>1. F \in Seq(R) /\ Len(F) = n + 1
    BY <1>9
  <2> HIDE DEF F
  <2> QED BY <2>1
<1>11. ASSUME NEW i \in 1 .. n + 1
       PROVE  Append(Found, Meteor(s))[i] = Meteor(sent'[i])
  <2>1. CASE i = n + 1
    BY <2>1, <1>2, <1>9
  <2>2. CASE i # n + 1
    <3>1. i \in 1 .. n
      BY <2>2, <1>1
    <3> QED BY <3>1, <1>2, <1>5, <1>9
  <2> QED BY <2>1, <2>2
<1> QED BY <1>4, <1>10, <1>11

(* Every step of update() is a step of MeteorDetection.                    *)
LEMMA DetectorStep ==
  ASSUME DetectorIInv, DetectorNext
  PROVE  Detector!Next
<1> USE DetectorParameters, GapType
<1>0. mark \in Nat /\ duration \in Nat /\ next.start \in Int /\ next.length \in Nat
  BY DEF DetectorIInv, DetectorTypeOK
<1>c. CountersMeanRows
  BY DEF DetectorIInv
<1> USE DEF LastOpen, FirstOpen, NewRow
<1>1. CASE BolidStarts
  <2>1. next'.start = mark + 1 - Advance /\ next'.length = 2 * Advance /\ duration' = 1
        /\ state = "init" /\ state' = "bolid" /\ mark' = mark + 1 /\ sent' = sent
    BY <1>0, <1>1 DEF BolidStarts
  <2>2. FirstOpen' = mark /\ LastOpen' = mark
    BY <1>0, <2>1
  <2> HIDE DEF FirstOpen, LastOpen
  <2>3. Detector!Begin
    BY <2>1, <2>2 DEF Detector!Begin, FirstOf, LastOf
  <2> QED BY <2>3 DEF Detector!Next
<1>2. CASE BolidGoesOn
  <2>1. next' = next /\ duration' = duration + 1
        /\ state = "bolid" /\ state' = "bolid" /\ mark' = mark + 1 /\ sent' = sent
    BY <1>2 DEF BolidGoesOn
  <2>2. LastOpen = mark - 1
    BY <1>c, <2>1 DEF CountersMeanRows
  <2>3. LastOpen' = mark /\ FirstOpen' = FirstOpen
    BY <1>0, <2>1, <2>2
  <2>4. mark - LastOpen <= Gap
    BY <1>0, <2>2
  <2> HIDE DEF FirstOpen, LastOpen
  <2>5. Detector!Continue
    BY <2>1, <2>3, <2>4 DEF Detector!Continue, FirstOf, LastOf
  <2> QED BY <2>5 DEF Detector!Next
<1>3. CASE BolidReturns
  <2>1. next' = next /\ duration' = duration + 1
        /\ state = "bolid_ended" /\ state' = "bolid" /\ mark' = mark + 1 /\ sent' = sent
    BY <1>3 DEF BolidReturns, Counted
  <2>2. LastOpen + duration = mark - 1 /\ duration < Gap
    BY <1>c, <2>1 DEF CountersMeanRows
  <2>3. LastOpen' = mark /\ FirstOpen' = FirstOpen
    BY <1>0, <2>1, <2>2
  <2>4. LastOpen \in Int
    BY <1>0
  <2>5. mark - LastOpen <= Gap
    BY <1>0, <2>2, <2>4
  <2> HIDE DEF FirstOpen, LastOpen
  <2>6. Detector!Continue
    BY <2>1, <2>3, <2>5 DEF Detector!Continue, FirstOf, LastOf
  <2> QED BY <2>6 DEF Detector!Next
<1>4. CASE NothingHeard
  <2>1. state = "init" /\ state' = "init" /\ mark' = mark + 1 /\ sent' = sent
    BY <1>4 DEF NothingHeard
  <2>2. Detector!Silence
    BY <2>1 DEF Detector!Silence, FirstOf, LastOf
  <2> QED BY <2>2 DEF Detector!Next
<1>5. CASE BolidPauses
  <2>1. next'.start = next.start /\ next'.length = next.length + duration /\ duration' = 1
        /\ state = "bolid" /\ state' = "bolid_ended" /\ mark' = mark + 1 /\ sent' = sent
    BY <1>0, <1>5 DEF BolidPauses, DurationReset, DetectorIInv, DetectorTypeOK
  <2>2. LastOpen = mark - 1
    BY <1>c, <2>1 DEF CountersMeanRows
  <2>3. LastOpen' = LastOpen /\ FirstOpen' = FirstOpen
    BY <1>0, <2>1
  <2>4. mark - LastOpen < Gap
    BY <1>0, <2>2
  <2> HIDE DEF FirstOpen, LastOpen
  <2>5. Detector!Silence
    BY <2>1, <2>3, <2>4 DEF Detector!Silence, FirstOf, LastOf
  <2> QED BY <2>5 DEF Detector!Next
<1>6. CASE StillPaused
  <2>1. next' = next /\ duration' = duration + 1 /\ ~(duration + 1 >= Jitter)
        /\ state = "bolid_ended" /\ state' = "bolid_ended" /\ mark' = mark + 1 /\ sent' = sent
    BY <1>6 DEF StillPaused, Over
  <2>2. LastOpen + duration = mark - 1
    BY <1>c, <2>1 DEF CountersMeanRows
  <2>3. LastOpen' = LastOpen /\ FirstOpen' = FirstOpen /\ LastOpen \in Int
    BY <1>0, <2>1
  <2>4. mark - LastOpen < Gap
    BY <1>0, <2>1, <2>2, <2>3
  <2> HIDE DEF FirstOpen, LastOpen
  <2>5. Detector!Silence
    BY <2>1, <2>3, <2>4 DEF Detector!Silence, FirstOf, LastOf
  <2> QED BY <2>5 DEF Detector!Next
<1>7. CASE BolidEnds
  <2> DEFINE s == [start |-> next.start, announced |-> next.length,
                   length |-> Limited(next.length), mark |-> mark']
  <2>1. s \in SentSnapshots /\ sent' = Append(sent, s) /\ duration + 1 = Gap
    BY <1>7, EndsInPlace DEF DetectorIInv
  <2>2. state = "bolid_ended" /\ state' = "init" /\ mark' = mark + 1
    BY <1>7 DEF BolidEnds
  <2>3. LastOpen + duration = mark - 1 /\ LastOpen \in Int
    BY <1>0, <1>c, <2>2 DEF CountersMeanRows
  <2>4. mark - LastOpen = Gap
    <3> HIDE DEF LastOpen
    <3> QED BY <1>0, <2>1, <2>3
  <2>5. FirstOf(s) = FirstOpen /\ LastOf(s) = LastOpen
    BY <1>0, <2>2 DEF FirstOf, LastOf
  <2>6. sent \in Seq(SentSnapshots)
    BY DEF DetectorIInv, DetectorTypeOK
  <2> HIDE DEF s
  <2>7. Found' = Append(Found, Meteor(s))
    BY <2>1, <2>6, FoundAppends
  <2> HIDE DEF FirstOpen, LastOpen
  <2>8. Detector!End
    BY <2>2, <2>4, <2>5, <2>7 DEF Detector!End, Found, Meteor
  <2> QED BY <2>8 DEF Detector!Next
<1> QED
  BY <1>1, <1>2, <1>3, <1>4, <1>5, <1>6, <1>7 DEF DetectorNext

(* update() finds the meteors that MeteorDetection says there are.         *)
THEOREM DetectorIsMeteorDetection == DetectorSpec => IsMeteorDetection
<1>1. DetectorInit => Detector!Init
  BY DEF DetectorInit, Detector!Init
<1>2. ASSUME DetectorIInv, [DetectorNext]_detectorVars PROVE [Detector!Next]_Detector!vars
  <2>1. CASE DetectorNext
    BY <1>2, <2>1, DetectorStep
  <2>2. CASE UNCHANGED detectorVars
    BY <2>2 DEF detectorVars, Detector!vars, LastOpen, FirstOpen, FirstOf, LastOf
  <2> QED BY <1>2, <2>1, <2>2
<1> QED
  BY <1>1, <1>2, DetectorInvariant, PTL DEF DetectorSpec, IsMeteorDetection, Detector!Spec

-----------------------------------------------------------------------------
(* Groups of detections.  D is a set of rows with a detection, up to row   *)
(* m - 1; R the groups reported; o the one open, if isOpen.                *)

Group == [first : Int, last : Int]

\* The detections from m.first to m.last follow one another within Gap, and
\* none before them does.
Joined(g, D) ==
  /\ g \in Group
  /\ g.first \in D /\ g.last \in D /\ g.first <= g.last
  /\ \A d \in D : d \notin g.first - Gap .. g.first - 1
  /\ \A d \in D : d \in g.first .. g.last - 1 => \E e \in D : e \in d + 1 .. d + Gap
  /\ \A d \in D : d \in g.first + 1 .. g.last => \E e \in D : e \in d - Gap .. d - 1

\* Nor does any after them.
Ended(g, D, m) ==
  /\ \A d \in D : d \notin g.last + 1 .. g.last + Gap
  /\ g.last + Gap < m

Groups(D, R, isOpen, o, m) ==
  /\ D \subseteq 0 .. m - 1
  /\ \A g \in R : Joined(g, D) /\ Ended(g, D, m)
  /\ \A g, h \in R : g = h \/ g.last + Gap < h.first \/ h.last + Gap < g.first
  /\ \A d \in D : (\E g \in R : d \in g.first .. g.last) \/ (isOpen /\ d \in o.first .. o.last)
  /\ isOpen => /\ Joined(o, D)
               /\ \A g \in R : g.last + Gap < o.first
               /\ o.last < m /\ m <= o.last + Gap

(* The first detection after a silence begins a group.                     *)
LEMMA GroupBegins ==
  ASSUME NEW m \in Nat, NEW D, NEW R, NEW o, Groups(D, R, FALSE, o, m)
  PROVE  Groups(D \cup {m}, R, TRUE, [first |-> m, last |-> m], m + 1)
<1> DEFINE E == D \cup {m}
           n == [first |-> m, last |-> m]
<1>1. /\ D \subseteq 0 .. m - 1
      /\ \A g \in R : Joined(g, D) /\ Ended(g, D, m)
      /\ \A g, h \in R : g = h \/ g.last + Gap < h.first \/ h.last + Gap < g.first
      /\ \A d \in D : \E g \in R : d \in g.first .. g.last
  BY DEF Groups
<1>2. Gap \in Nat /\ Gap >= 2
  BY GapType
<1>3. \A g \in R : g \in Group /\ g.last + Gap < m /\ g.first <= g.last
  BY <1>1 DEF Joined, Ended
<1>4. \A d \in D : d + Gap < m /\ d \in Nat
  <2> TAKE d \in D
  <2>1. PICK g \in R : d \in g.first .. g.last
    BY <1>1
  <2> QED BY <2>1, <1>1, <1>2, <1>3 DEF Group
<1>5. n \in Group /\ n.first = m /\ n.last = m
  BY DEF Group
<1> HIDE DEF n
<1>6. E \subseteq 0 .. (m + 1) - 1
  BY <1>1
<1>7. ASSUME NEW g \in R PROVE Joined(g, E) /\ Ended(g, E, m + 1)
  <2>1. Joined(g, D) /\ Ended(g, D, m) /\ g \in Group /\ g.last + Gap < m /\ g.first <= g.last
    BY <1>1, <1>3
  <2>2. g.first \in Int /\ g.last \in Int
    BY <2>1 DEF Group
  <2>3. Joined(g, E)
    BY <2>1, <2>2, <1>2 DEF Joined
  <2>4. Ended(g, E, m + 1)
    BY <2>1, <2>2, <1>2 DEF Ended
  <2> QED BY <2>3, <2>4
<1>8. \A d \in E : (\E g \in R : d \in g.first .. g.last) \/ d \in n.first .. n.last
  BY <1>1, <1>5
<1>9. Joined(n, E)
  <2>1. \A d \in E : d \notin n.first - Gap .. n.first - 1
    BY <1>4, <1>5, <1>2
  <2>2. \A d \in E : d \notin n.first .. n.last - 1 /\ d \notin n.first + 1 .. n.last
    BY <1>5
  <2>3. n.first \in E /\ n.last \in E /\ n.first <= n.last
    BY <1>5
  <2> HIDE DEF E
  <2> QED BY <1>5, <2>1, <2>2, <2>3 DEF Joined
<1>10. \A g \in R : g.last + Gap < n.first
  BY <1>3, <1>5
<1>11. n.last < m + 1 /\ m + 1 <= n.last + Gap
  BY <1>2, <1>5
<1> HIDE DEF E
<1> QED BY <1>1, <1>6, <1>7, <1>8, <1>9, <1>10, <1>11 DEF Groups, E, n

(* One within Gap of the latest joins it.                                  *)
LEMMA GroupGoesOn ==
  ASSUME NEW m \in Nat, NEW D, NEW R, NEW o, Groups(D, R, TRUE, o, m)
  PROVE  Groups(D \cup {m}, R, TRUE, [first |-> o.first, last |-> m], m + 1)
<1> DEFINE E == D \cup {m}
           n == [first |-> o.first, last |-> m]
<1>1. /\ D \subseteq 0 .. m - 1
      /\ \A g \in R : Joined(g, D) /\ Ended(g, D, m)
      /\ \A g, h \in R : g = h \/ g.last + Gap < h.first \/ h.last + Gap < g.first
      /\ \A d \in D : (\E g \in R : d \in g.first .. g.last) \/ d \in o.first .. o.last
      /\ Joined(o, D)
      /\ \A g \in R : g.last + Gap < o.first
      /\ o.last < m /\ m <= o.last + Gap
  BY DEF Groups
<1>2. Gap \in Nat /\ Gap >= 2
  BY GapType
<1>3. o.first \in Int /\ o.last \in Int /\ o.first <= o.last /\ o.first \in D /\ o.last \in D
  BY <1>1 DEF Joined, Group
<1>5. n \in Group /\ n.first = o.first /\ n.last = m
  BY <1>3 DEF Group
<1> HIDE DEF n
<1>6. E \subseteq 0 .. (m + 1) - 1
  BY <1>1
<1>7. ASSUME NEW g \in R PROVE Joined(g, E) /\ Ended(g, E, m + 1)
  <2>1. Joined(g, D) /\ Ended(g, D, m) /\ g \in Group /\ g.last + Gap < m /\ g.first <= g.last
    BY <1>1 DEF Joined, Ended
  <2>2. g.first \in Int /\ g.last \in Int
    BY <2>1 DEF Group
  <2>3. Joined(g, E)
    BY <2>1, <2>2, <1>2 DEF Joined
  <2>4. Ended(g, E, m + 1)
    BY <2>1, <2>2, <1>2 DEF Ended
  <2> QED BY <2>3, <2>4
<1>4. \A d \in D : d \in Int /\ (d <= o.last)
  <2> TAKE d \in D
  <2>1. CASE d \in o.first .. o.last
    BY <2>1, <1>3
  <2>2. CASE \E g \in R : d \in g.first .. g.last
    <3>1. PICK g \in R : d \in g.first .. g.last
      BY <2>2
    <3>2. g.last \in Int /\ g.last + Gap < o.first
      BY <1>1 DEF Joined, Group
    <3> QED BY <3>1, <3>2, <1>1, <1>2, <1>3
  <2> QED BY <2>1, <2>2, <1>1
<1>8. \A d \in E : (\E g \in R : d \in g.first .. g.last) \/ d \in n.first .. n.last
  BY <1>1, <1>3, <1>5
<1>9. Joined(n, E)
  <2>1. \A d \in E : d \notin n.first - Gap .. n.first - 1
    BY <1>1, <1>2, <1>3, <1>5 DEF Joined
  <2>2. ASSUME NEW d \in E, d \in n.first .. n.last - 1 PROVE \E e \in E : e \in d + 1 .. d + Gap
    <3>1. d \in D
      BY <2>2, <1>5
    <3>2. CASE d = o.last
      <4>1. m \in E /\ m \in d + 1 .. d + Gap
        BY <3>2, <1>1, <1>2, <1>3
      <4> QED BY <4>1
    <3>3. CASE d < o.last
      <4>1. d \in o.first .. o.last - 1
        BY <3>1, <3>3, <2>2, <1>3, <1>4, <1>5
      <4>2. PICK e \in D : e \in d + 1 .. d + Gap
        BY <3>1, <4>1, <1>1 DEF Joined
      <4> QED BY <4>2
    <3> QED BY <3>1, <3>2, <3>3, <1>3, <1>4
  <2>3. ASSUME NEW d \in E, d \in n.first + 1 .. n.last PROVE \E e \in E : e \in d - Gap .. d - 1
    <3>1. CASE d = m
      <4>1. o.last \in E /\ o.last \in d - Gap .. d - 1
        BY <3>1, <1>1, <1>2, <1>3
      <4> QED BY <4>1
    <3>2. CASE d \in D
      <4>1. d \in o.first + 1 .. o.last
        BY <3>2, <2>3, <1>3, <1>4, <1>5
      <4>2. PICK e \in D : e \in d - Gap .. d - 1
        BY <3>2, <4>1, <1>1 DEF Joined
      <4> QED BY <4>2
    <3> QED BY <3>1, <3>2
  <2>4. n.first \in E /\ n.last \in E /\ n.first <= n.last
    BY <1>1, <1>3, <1>5
  <2> HIDE DEF E
  <2> QED BY <1>5, <2>1, <2>2, <2>3, <2>4 DEF Joined
<1>10. \A g \in R : g.last + Gap < n.first
  BY <1>1, <1>5
<1>11. n.last < m + 1 /\ m + 1 <= n.last + Gap
  BY <1>2, <1>5
<1> HIDE DEF E
<1> QED BY <1>1, <1>6, <1>7, <1>8, <1>9, <1>10, <1>11 DEF Groups, E, n

(* A row without one changes nothing as long as Gap is not reached.        *)
LEMMA GroupWaits ==
  ASSUME NEW m \in Nat, NEW D, NEW R, NEW isOpen, NEW o, NEW p, Groups(D, R, isOpen, o, m),
         isOpen => m - o.last < Gap /\ p = o
  PROVE  Groups(D, R, isOpen, p, m + 1)
<1>1. Gap \in Nat
  BY GapType
<1>2. D \subseteq 0 .. (m + 1) - 1
  BY DEF Groups
<1>3. ASSUME NEW g \in R PROVE Joined(g, D) /\ Ended(g, D, m + 1)
  <2>1. Joined(g, D) /\ Ended(g, D, m) /\ g.last \in Int
    BY DEF Groups, Joined, Group
  <2> QED BY <2>1, <1>1 DEF Ended
<1>4. isOpen => p.last < m + 1 /\ m + 1 <= p.last + Gap
  <2>1. isOpen => o.last \in Int /\ o.last < m
    BY DEF Groups, Joined, Group
  <2> QED BY <2>1, <1>1
<1> QED BY <1>2, <1>3, <1>4 DEF Groups

(* When it is reached, the group is reported.                              *)
LEMMA GroupEnds ==
  ASSUME NEW m \in Nat, NEW D, NEW R, NEW o, NEW p, Groups(D, R, TRUE, o, m), m - o.last = Gap
  PROVE  Groups(D, R \cup {o}, FALSE, p, m + 1)
<1>1. /\ D \subseteq 0 .. m - 1
      /\ \A g \in R : Joined(g, D) /\ Ended(g, D, m)
      /\ \A g, h \in R : g = h \/ g.last + Gap < h.first \/ h.last + Gap < g.first
      /\ \A d \in D : (\E g \in R : d \in g.first .. g.last) \/ d \in o.first .. o.last
      /\ Joined(o, D)
      /\ \A g \in R : g.last + Gap < o.first
      /\ o.last < m /\ m <= o.last + Gap
  BY DEF Groups
<1>2. Gap \in Nat /\ Gap >= 2
  BY GapType
<1>3. o.first \in Int /\ o.last \in Int /\ o.first <= o.last
  BY <1>1 DEF Joined, Group
<1>4. ASSUME NEW g \in R PROVE Joined(g, D) /\ Ended(g, D, m + 1)
  <2>1. Joined(g, D) /\ Ended(g, D, m) /\ g.last \in Int
    BY <1>1 DEF Joined, Group
  <2> QED BY <2>1, <1>2 DEF Ended
<1>5. \A d \in D : d <= o.last
  <2> TAKE d \in D
  <2>1. CASE d \in o.first .. o.last
    BY <2>1, <1>3
  <2>2. CASE \E g \in R : d \in g.first .. g.last
    <3>1. PICK g \in R : d \in g.first .. g.last
      BY <2>2
    <3>2. g.last \in Int /\ g.last + Gap < o.first
      BY <1>1 DEF Joined, Group
    <3> QED BY <3>1, <3>2, <1>1, <1>2, <1>3
  <2> QED BY <2>1, <2>2, <1>1
<1>6. Ended(o, D, m + 1)
  BY <1>1, <1>2, <1>3, <1>5 DEF Ended
<1>7. \A g, h \in R \cup {o} : g = h \/ g.last + Gap < h.first \/ h.last + Gap < g.first
  BY <1>1
<1>8. \A d \in D : \E g \in R \cup {o} : d \in g.first .. g.last
  BY <1>1
<1>9. D \subseteq 0 .. (m + 1) - 1
  BY <1>1
<1> QED BY <1>1, <1>4, <1>6, <1>7, <1>8, <1>9 DEF Groups

-----------------------------------------------------------------------------
(* The history.                                                            *)

Reported == {Meteor(sent[i]) : i \in DOMAIN sent}

\* The snapshots sent are the groups of detections that are over, in order;
\* the snapshot being made is the one that is not.
HistoryIInv ==
  /\ Groups(detections, Reported, state # "init", [first |-> FirstOpen, last |-> LastOpen], mark)
  /\ \A i, j \in DOMAIN sent : i < j => LastOf(sent[i]) + Gap < FirstOf(sent[j])

(* What one row does to the meteor being observed.                         *)
LEMMA RowStep ==
  ASSUME DetectorIInv, DetectorNext
  PROVE  /\ mark \in Nat /\ mark' = mark + 1
         /\ \/ /\ state = "init" /\ state' # "init"
               /\ FirstOpen' = mark /\ LastOpen' = mark
               /\ detections' = detections \cup {mark} /\ sent' = sent
            \/ /\ state # "init" /\ state' # "init"
               /\ FirstOpen' = FirstOpen /\ LastOpen' = mark
               /\ detections' = detections \cup {mark} /\ sent' = sent
            \/ /\ state = "init" /\ state' = "init"
               /\ detections' = detections /\ sent' = sent
            \/ /\ state # "init" /\ state' # "init"
               /\ mark - LastOpen < Gap
               /\ FirstOpen' = FirstOpen /\ LastOpen' = LastOpen
               /\ detections' = detections /\ sent' = sent
            \/ /\ state = "bolid_ended" /\ state' = "init"
               /\ mark - LastOpen = Gap
               /\ BolidEnds /\ detections' = detections
<1> USE DetectorParameters, GapType
<1>0. mark \in Nat /\ duration \in Nat /\ next.start \in Int /\ next.length \in Nat
  BY DEF DetectorIInv, DetectorTypeOK
<1>c. CountersMeanRows
  BY DEF DetectorIInv
<1> USE DEF LastOpen, FirstOpen, NewRow, Row
<1>1. CASE BolidStarts
  BY <1>0, <1>1 DEF BolidStarts
<1>2. CASE BolidGoesOn
  <2>1. LastOpen = mark - 1 /\ state = "bolid"
    BY <1>c, <1>2 DEF CountersMeanRows, BolidGoesOn
  <2> QED BY <1>0, <1>2, <2>1 DEF BolidGoesOn
<1>3. CASE BolidReturns
  <2>1. LastOpen + duration = mark - 1 /\ state = "bolid_ended"
    BY <1>c, <1>3 DEF CountersMeanRows, BolidReturns
  <2> QED BY <1>0, <1>3, <2>1 DEF BolidReturns, Counted
<1>4. CASE NothingHeard
  BY <1>0, <1>4 DEF NothingHeard
<1>5. CASE BolidPauses
  <2>1. next'.start = next.start /\ next'.length = next.length + duration
        /\ state = "bolid" /\ state' = "bolid_ended" /\ mark' = mark + 1
        /\ detections' = detections /\ sent' = sent
    BY <1>0, <1>5 DEF BolidPauses, DurationReset, DetectorIInv, DetectorTypeOK
  <2>2. LastOpen = mark - 1
    BY <1>c, <2>1 DEF CountersMeanRows
  <2>3. LastOpen' = LastOpen /\ FirstOpen' = FirstOpen /\ mark - LastOpen < Gap
    BY <1>0, <2>1, <2>2
  <2> HIDE DEF FirstOpen, LastOpen
  <2> QED BY <1>0, <2>1, <2>3
<1>6. CASE StillPaused
  <2>1. next' = next /\ ~(duration + 1 >= Jitter) /\ state = "bolid_ended" /\ state' = "bolid_ended"
        /\ mark' = mark + 1 /\ detections' = detections /\ sent' = sent
    BY <1>6 DEF StillPaused, Over
  <2>2. LastOpen + duration = mark - 1 /\ LastOpen \in Int
    BY <1>0, <1>c, <2>1 DEF CountersMeanRows
  <2>3. LastOpen' = LastOpen /\ FirstOpen' = FirstOpen
    BY <2>1
  <2> HIDE DEF FirstOpen, LastOpen
  <2>4. mark - LastOpen < Gap
    BY <1>0, <2>1, <2>2
  <2> QED BY <1>0, <2>1, <2>3, <2>4
<1>7. CASE BolidEnds
  <2>1. duration + 1 = Gap
    BY <1>7, EndsInPlace DEF DetectorIInv
  <2>2. state = "bolid_ended" /\ state' = "init" /\ mark' = mark + 1 /\ detections' = detections
    BY <1>7 DEF BolidEnds
  <2>3. LastOpen + duration = mark - 1 /\ LastOpen \in Int
    BY <1>0, <1>c, <2>2 DEF CountersMeanRows
  <2> HIDE DEF FirstOpen, LastOpen
  <2>4. mark - LastOpen = Gap
    BY <1>0, <2>1, <2>3
  <2> QED BY <1>0, <1>7, <2>2, <2>4
<1> QED
  BY <1>1, <1>2, <1>3, <1>4, <1>5, <1>6, <1>7 DEF DetectorNext

(* A snapshot sent adds its meteor to those reported.                      *)
LEMMA ReportedAdds ==
  ASSUME NEW T, sent \in Seq(T), NEW s \in T, sent' = Append(sent, s)
  PROVE  Reported' = Reported \cup {Meteor(s)}
<1>1. /\ sent' \in Seq(T)
      /\ Len(sent') = Len(sent) + 1
      /\ \A i \in 1 .. Len(sent) : sent'[i] = sent[i]
      /\ sent'[Len(sent) + 1] = s
  BY AppendProperties
<1>2. Len(sent) \in Nat /\ DOMAIN sent = 1 .. Len(sent) /\ DOMAIN sent' = 1 .. Len(sent) + 1
  BY <1>1
<1>3. Reported' = {Meteor(sent'[i]) : i \in 1 .. Len(sent) + 1}
  BY <1>2 DEF Reported, Meteor, FirstOf, LastOf
<1>4. Reported = {Meteor(sent[i]) : i \in 1 .. Len(sent)}
  BY <1>2 DEF Reported
<1>5. \A i \in 1 .. Len(sent) + 1 : i \in 1 .. Len(sent) \/ i = Len(sent) + 1
  BY <1>2
<1>6. Len(sent) + 1 \in 1 .. Len(sent) + 1 /\ 1 .. Len(sent) \subseteq 1 .. Len(sent) + 1
  BY <1>2
<1> QED BY <1>1, <1>3, <1>4, <1>5, <1>6

(* Each row leaves the groups of the rows so far.                          *)
LEMMA HistoryStep ==
  ASSUME DetectorIInv, HistoryIInv, DetectorNext
  PROVE  HistoryIInv'
<1> DEFINE o == [first |-> FirstOpen, last |-> LastOpen]
<1>1. /\ Groups(detections, Reported, state # "init", o, mark)
      /\ \A i, j \in DOMAIN sent : i < j => LastOf(sent[i]) + Gap < FirstOf(sent[j])
  BY DEF HistoryIInv
<1>2. mark \in Nat /\ mark' = mark + 1
  BY RowStep
<1>3. CASE sent' = sent
  <2>1. Reported' = Reported /\ \A i, j \in DOMAIN sent' : i < j => LastOf(sent'[i]) + Gap < FirstOf(sent'[j])
    BY <1>1, <1>3 DEF Reported, Meteor, FirstOf, LastOf
  <2>2. CASE /\ state = "init" /\ state' # "init"
             /\ FirstOpen' = mark /\ LastOpen' = mark
             /\ detections' = detections \cup {mark}
    <3>1. Groups(detections, Reported, FALSE, o, mark)
      BY <1>1, <2>2
    <3>2. Groups(detections \cup {mark}, Reported, TRUE, [first |-> mark, last |-> mark], mark + 1)
      BY <3>1, <1>2, GroupBegins
    <3>3. Groups(detections', Reported', (state # "init")', o', mark')
      BY <3>2, <2>1, <2>2, <1>2
    <3> QED BY <2>1, <3>3 DEF HistoryIInv, Gap
  <2>3. CASE /\ state # "init" /\ state' # "init"
             /\ FirstOpen' = FirstOpen /\ LastOpen' = mark
             /\ detections' = detections \cup {mark}
    <3>1. Groups(detections, Reported, TRUE, o, mark)
      BY <1>1, <2>3
    <3>2. Groups(detections \cup {mark}, Reported, TRUE, [first |-> o.first, last |-> mark], mark + 1)
      BY <3>1, <1>2, GroupGoesOn
    <3>3. Groups(detections', Reported', (state # "init")', o', mark')
      BY <3>2, <2>1, <2>3, <1>2
    <3> QED BY <2>1, <3>3 DEF HistoryIInv, Gap
  <2>4. CASE /\ (state # "init") = (state' # "init")
             /\ state # "init" => mark - LastOpen < Gap /\ FirstOpen' = FirstOpen /\ LastOpen' = LastOpen
             /\ detections' = detections
    <3>1. state # "init" => mark - o.last < Gap /\ o' = o
      BY <2>4
    <3>2. Groups(detections, Reported, state # "init", o', mark + 1)
      BY <3>1, <1>1, <1>2, GroupWaits
    <3>3. Groups(detections', Reported', (state # "init")', o', mark')
      BY <3>2, <2>1, <2>4, <1>2
    <3> QED BY <2>1, <3>3 DEF HistoryIInv, Gap
  <2>5. ~BolidEnds
    <3> SUFFICES ASSUME BolidEnds PROVE FALSE
      OBVIOUS
    <3> DEFINE s == [start |-> next.start, announced |-> next.length,
                     length |-> Limited(next.length), mark |-> mark']
    <3>1. s \in SentSnapshots /\ sent' = Append(sent, s) /\ sent \in Seq(SentSnapshots)
      BY EndsInPlace DEF DetectorIInv, DetectorTypeOK
    <3> HIDE DEF s
    <3>2. Len(sent') = Len(sent) + 1 /\ Len(sent) \in Nat
      BY <3>1, AppendProperties
    <3> QED BY <3>2, <1>3
  <2>6. \/ /\ state = "init" /\ state' # "init"
           /\ FirstOpen' = mark /\ LastOpen' = mark
           /\ detections' = detections \cup {mark}
        \/ /\ state # "init" /\ state' # "init"
           /\ FirstOpen' = FirstOpen /\ LastOpen' = mark
           /\ detections' = detections \cup {mark}
        \/ /\ (state # "init") = (state' # "init")
           /\ state # "init" => mark - LastOpen < Gap /\ FirstOpen' = FirstOpen /\ LastOpen' = LastOpen
           /\ detections' = detections
    <3> HIDE DEF FirstOpen, LastOpen
    <3> QED BY <2>5, RowStep
  <2> QED BY <2>2, <2>3, <2>4, <2>6
<1>4. CASE BolidEnds
  <2> DEFINE s == [start |-> next.start, announced |-> next.length,
                   length |-> Limited(next.length), mark |-> mark']
  <2>1. s \in SentSnapshots /\ sent' = Append(sent, s)
    BY <1>4, EndsInPlace DEF DetectorIInv
  <2>2. sent \in Seq(SentSnapshots)
    BY DEF DetectorIInv, DetectorTypeOK
  <2>3. state = "bolid_ended" /\ state' = "init" /\ detections' = detections /\ mark - LastOpen = Gap
    BY <1>4, RowStep DEF BolidEnds, NewRow
  <2>4. FirstOf(s) = FirstOpen /\ LastOf(s) = LastOpen
    <3>1. next.start \in Int /\ next.length \in Nat
      BY DEF DetectorIInv, DetectorTypeOK
    <3> QED BY <3>1, <2>3, DetectorParameters DEF FirstOf, LastOf, FirstOpen, LastOpen
  <2> HIDE DEF s
  <2>5. Meteor(s) = o
    BY <2>4 DEF Meteor
  <2>6. Reported' = Reported \cup {o}
    BY <2>1, <2>2, <2>5, ReportedAdds
  <2>7. Groups(detections, Reported, TRUE, o, mark)
    BY <1>1, <2>3
  <2>8. Groups(detections, Reported \cup {o}, FALSE, o', mark + 1)
    <3>1. mark - o.last = Gap
      BY <2>3
    <3> QED BY <3>1, <2>7, <1>2, GroupEnds
  <2>9. Groups(detections', Reported', (state # "init")', o', mark')
    BY <2>3, <2>6, <2>8, <1>2
  <2>10. /\ Len(sent') = Len(sent) + 1
         /\ \A i \in 1 .. Len(sent) : sent'[i] = sent[i]
         /\ sent'[Len(sent) + 1] = s
         /\ sent' \in Seq(SentSnapshots)
    BY <2>1, <2>2, AppendProperties
  <2>11. Len(sent) \in Nat /\ DOMAIN sent = 1 .. Len(sent) /\ DOMAIN sent' = 1 .. Len(sent) + 1
    BY <2>2, <2>10
  <2>12. ASSUME NEW i \in DOMAIN sent', NEW j \in DOMAIN sent', i < j
         PROVE  LastOf(sent'[i]) + Gap < FirstOf(sent'[j])
    <3>1. i \in 1 .. Len(sent) /\ sent'[i] = sent[i]
      BY <2>10, <2>11, <2>12
    <3>2. CASE j \in 1 .. Len(sent)
      BY <3>1, <3>2, <2>10, <2>11, <2>12, <1>1
    <3>3. CASE j = Len(sent) + 1
      <4>1. Meteor(sent[i]) \in Reported
        BY <3>1, <2>11 DEF Reported
      <4>2. Meteor(sent[i]).last + Gap < o.first
        BY <4>1, <2>7 DEF Groups
      <4> QED BY <3>1, <3>3, <4>2, <2>4, <2>10 DEF Meteor
    <3> QED BY <3>2, <3>3, <2>11
  <2> QED BY <2>9, <2>12 DEF HistoryIInv, Gap, FirstOf, LastOf
<1> QED BY <1>3, <1>4, RowStep

(* There is nothing to group before the first row.                         *)
LEMMA HistoryInit == DetectorInit => HistoryIInv
<1> SUFFICES ASSUME DetectorInit PROVE HistoryIInv
  OBVIOUS
<1>1. sent = << >> /\ detections = {} /\ state = "init"
  BY DEF DetectorInit
<1>2. Reported = {}
  BY <1>1 DEF Reported
<1>3. ASSUME NEW o, NEW m PROVE Groups({}, {}, FALSE, o, m)
  BY Zenon DEF Groups
<1>4. Groups({}, {}, FALSE, [first |-> FirstOpen, last |-> LastOpen], mark)
  BY <1>3
<1>5. DOMAIN sent = {}
  BY <1>1
<1> QED BY <1>1, <1>2, <1>4, <1>5 DEF HistoryIInv

(* Nothing changes between two rows.                                       *)
LEMMA HistoryStutter ==
  ASSUME HistoryIInv, UNCHANGED detectorVars
  PROVE  HistoryIInv'
BY DEF HistoryIInv, detectorVars, Reported, Meteor, FirstOf, LastOf, FirstOpen, LastOpen, Gap

\* IsMeteor for any set of detections up to row m - 1.
Alone(a, b, D, m) ==
  /\ {a, b} \subseteq D
  /\ D \cap (a - Gap .. a - 1) = {}
  /\ D \cap (b + 1 .. b + Gap) = {}
  /\ b + Gap < m
  /\ \A d \in D \cap (a .. b - 1) : D \cap (d + 1 .. d + Gap) # {}

(* A group reported is a meteor that is over.                              *)
LEMMA ReportedAlone ==
  ASSUME NEW m \in Nat, NEW D, NEW R, NEW isOpen, NEW o, Groups(D, R, isOpen, o, m), NEW g \in R
  PROVE  /\ g.first \in 0 .. m /\ g.last \in 0 .. m /\ g.first <= g.last
         /\ g = [first |-> g.first, last |-> g.last]
         /\ Alone(g.first, g.last, D, m)
<1>1. Joined(g, D) /\ Ended(g, D, m) /\ D \subseteq 0 .. m - 1
  BY DEF Groups
<1>2. g.first \in D /\ g.last \in D /\ g.first <= g.last /\ g = [first |-> g.first, last |-> g.last]
  BY <1>1 DEF Joined, Group
<1>3. /\ D \cap (g.first - Gap .. g.first - 1) = {}
      /\ \A d \in D \cap (g.first .. g.last - 1) : D \cap (d + 1 .. d + Gap) # {}
  BY <1>1 DEF Joined
<1>4. D \cap (g.last + 1 .. g.last + Gap) = {} /\ g.last + Gap < m
  BY <1>1 DEF Ended
<1> QED BY <1>1, <1>2, <1>3, <1>4 DEF Alone

(* A meteor that is over is a group reported: its last detection lies in   *)
(* one, since the group that is open reaches to within Gap of the latest   *)
(* row, and neither can begin or end inside the other.                     *)
LEMMA AloneReported ==
  ASSUME NEW m \in Nat, NEW D, NEW R, NEW isOpen, NEW o, Groups(D, R, isOpen, o, m),
         NEW a \in Int, NEW b \in Int, a <= b, Alone(a, b, D, m)
  PROVE  [first |-> a, last |-> b] \in R
<1>1. /\ D \subseteq 0 .. m - 1
      /\ \A g \in R : Joined(g, D) /\ Ended(g, D, m)
      /\ \A d \in D : (\E g \in R : d \in g.first .. g.last) \/ (isOpen /\ d \in o.first .. o.last)
      /\ isOpen => Joined(o, D) /\ m <= o.last + Gap
  BY DEF Groups
<1>2. /\ a \in D /\ b \in D
      /\ \A d \in D : d \notin a - Gap .. a - 1 /\ d \notin b + 1 .. b + Gap
      /\ b + Gap < m
      /\ \A d \in D : d \in a .. b - 1 => \E e \in D : e \in d + 1 .. d + Gap
  BY DEF Alone
<1>3. Gap \in Nat /\ Gap >= 2
  BY GapType
<1>4. ~(isOpen /\ b \in o.first .. o.last)
  <2> SUFFICES ASSUME isOpen, b \in o.first .. o.last PROVE FALSE
    OBVIOUS
  <2>1. Joined(o, D) /\ m <= o.last + Gap /\ o.first \in Int /\ o.last \in Int
    BY <1>1 DEF Joined, Group
  <2>2. b \in o.first .. o.last - 1
    BY <2>1, <1>2, <1>3
  <2>3. PICK e \in D : e \in b + 1 .. b + Gap
    BY <2>1, <2>2, <1>2 DEF Joined
  <2> QED BY <2>3, <1>2
<1>5. PICK g \in R : b \in g.first .. g.last
  BY <1>1, <1>2, <1>4
<1>6. /\ g \in Group /\ g.first \in D
      /\ \A d \in D : d \notin g.first - Gap .. g.first - 1
      /\ \A d \in D : d \in g.first .. g.last - 1 => \E e \in D : e \in d + 1 .. d + Gap
      /\ \A d \in D : d \in g.first + 1 .. g.last => \E e \in D : e \in d - Gap .. d - 1
  BY <1>1 DEF Joined
<1>7. g.first \in Int /\ g.last \in Int /\ g = [first |-> g.first, last |-> g.last]
  BY <1>6 DEF Group
<1>8. b = g.last
  <2> SUFFICES ASSUME b # g.last PROVE FALSE
    OBVIOUS
  <2>1. b \in g.first .. g.last - 1
    BY <1>5, <1>7
  <2>2. PICK e \in D : e \in b + 1 .. b + Gap
    BY <2>1, <1>2, <1>6
  <2> QED BY <2>2, <1>2
<1>9. ~(a > g.first)
  <2> SUFFICES ASSUME a > g.first PROVE FALSE
    OBVIOUS
  <2>1. a \in g.first + 1 .. g.last
    BY <1>7, <1>8
  <2>2. PICK e \in D : e \in a - Gap .. a - 1
    BY <2>1, <1>2, <1>6
  <2> QED BY <2>2, <1>2
<1>10. ~(a < g.first)
  <2> SUFFICES ASSUME a < g.first PROVE FALSE
    OBVIOUS
  <2>1. PICK h : /\ h \in R \/ (isOpen /\ h = o)
                 /\ a \in h.first .. h.last
    BY <1>1, <1>2
  <2>2. h \in R
    <3> SUFFICES ASSUME isOpen, h = o PROVE FALSE
      BY <2>1
    <3>1. \A k \in R : k.last + Gap < o.first
      BY DEF Groups
    <3>2. o.first \in Int /\ o.last \in Int
      BY <1>1 DEF Joined, Group
    <3> QED BY <2>1, <3>1, <3>2, <1>3, <1>7, <1>8
  <2>3. h.first \in Int /\ h.last \in Int /\ h.last \in D
        /\ \A d \in D : d \notin h.last + 1 .. h.last + Gap
    BY <2>2, <1>1 DEF Joined, Group, Ended
  <2>4. h = g \/ h.last + Gap < g.first \/ g.last + Gap < h.first
    BY <2>2 DEF Groups
  <2>5. h.last + Gap < g.first
    BY <2>1, <2>3, <2>4, <1>3, <1>5, <1>7, <1>8
  <2>6. h.last \in a .. b - 1
    BY <2>1, <2>3, <2>5, <1>3, <1>5, <1>7
  <2>7. PICK e \in D : e \in h.last + 1 .. h.last + Gap
    BY <2>3, <2>6, <1>2
  <2> QED BY <2>3, <2>7
<1>11. a = g.first
  BY <1>7, <1>9, <1>10
<1> QED BY <1>7, <1>8, <1>11

(* Every meteor that is over was sent, once, and nothing else was.         *)
THEOREM AllMeteorsAreSent == DetectorSpec => []MeteorsAreSent
<1>1. DetectorInit => DetectorIInv /\ HistoryIInv
  BY DetectorInitIInv, HistoryInit
<1>2. ASSUME DetectorIInv, HistoryIInv, [DetectorNext]_detectorVars PROVE HistoryIInv'
  BY <1>2, HistoryStep, HistoryStutter
<1>3. ASSUME DetectorIInv, HistoryIInv PROVE MeteorsAreSent
  <2> DEFINE isOpen == state # "init"
             o == [first |-> FirstOpen, last |-> LastOpen]
             Pairs == {<<FirstOf(sent[i]), LastOf(sent[i])>> : i \in DOMAIN sent}
             Meteors == {ab \in (0 .. mark) \X (0 .. mark) : ab[1] <= ab[2] /\ IsMeteor(ab[1], ab[2])}
  <2>1. /\ Groups(detections, Reported, isOpen, o, mark)
        /\ \A i, j \in DOMAIN sent : i < j => LastOf(sent[i]) + Gap < FirstOf(sent[j])
    BY <1>3 DEF HistoryIInv
  <2>2. mark \in Nat
    BY <1>3 DEF DetectorIInv, DetectorTypeOK
  <2> HIDE DEF isOpen, o
  <2>3. \A a, b : IsMeteor(a, b) <=> Alone(a, b, detections, mark)
    BY DEF IsMeteor, Alone
  <2>4. ASSUME NEW i \in DOMAIN sent
        PROVE  <<FirstOf(sent[i]), LastOf(sent[i])>> \in Meteors
    <3> DEFINE g == Meteor(sent[i])
    <3>1. g \in Reported /\ g.first = FirstOf(sent[i]) /\ g.last = LastOf(sent[i])
      BY DEF Reported, Meteor
    <3> HIDE DEF g
    <3>2. /\ g.first \in 0 .. mark /\ g.last \in 0 .. mark /\ g.first <= g.last
          /\ Alone(g.first, g.last, detections, mark)
      BY <2>1, <2>2, <3>1, ReportedAlone
    <3> QED BY <2>3, <3>1, <3>2
  <2>5. ASSUME NEW a \in 0 .. mark, NEW b \in 0 .. mark, a <= b, IsMeteor(a, b)
        PROVE  <<a, b>> \in Pairs
    <3>1. Alone(a, b, detections, mark) /\ a \in Int /\ b \in Int
      BY <2>3, <2>5
    <3>2. [first |-> a, last |-> b] \in Reported
      BY <2>1, <2>2, <2>5, <3>1, AloneReported
    <3>3. PICK i \in DOMAIN sent : [first |-> a, last |-> b] = [first |-> FirstOf(sent[i]), last |-> LastOf(sent[i])]
      BY <3>2 DEF Reported, Meteor
    <3>4. a = FirstOf(sent[i]) /\ b = LastOf(sent[i])
      BY <3>3
    <3> QED BY <3>4
  <2>6. Pairs \subseteq Meteors
    BY <2>4
  <2>7. Meteors \subseteq Pairs
    BY <2>5
  <2>8. Pairs = Meteors
    BY <2>6, <2>7
  <2> QED BY <2>1, <2>8 DEF MeteorsAreSent
<1> QED BY <1>1, <1>2, <1>3, DetectorInvariant, PTL DEF DetectorSpec

(* With some advance, and a longer pause after a meteor, a snapshot holds  *)
(* one meteor of the stream as far as it may, and nothing of another.      *)
THEOREM HoldsOneMeteor == DetectorSpec => []OneMeteorHeld
<1>1. ASSUME DetectorIInv, MeteorsAreSent PROVE OneMeteorHeld
  <2> SUFFICES ASSUME Advance \in 1 .. SnapshotRows, Gap > Advance, NEW i \in DOMAIN sent
               PROVE  \E a, b \in detections :
                        LET s == sent[i]
                            held == detections \cap (s.start .. s.start + s.length - 1)
                        IN  /\ IsMeteor(a, b)
                            /\ a \in held /\ held \subseteq a .. b
                            /\ s.length = SnapshotRows \/ detections \cap (a .. b) \subseteq held
    BY DEF OneMeteorHeld
  <2> DEFINE s == sent[i]
             a == FirstOf(s)
             b == LastOf(s)
             held == detections \cap (s.start .. s.start + s.length - 1)
  <2>1. sent \in Seq(SentSnapshots) /\ detections \subseteq Int
    BY <1>1 DEF DetectorIInv, DetectorTypeOK
  <2>2. s \in SentSnapshots /\ SentInPlace(s)
    BY <1>1, <2>1 DEF DetectorIInv, AllSentInPlace
  <2>3. s.start \in Int /\ s.announced \in Nat /\ s.length \in Nat
        /\ s.announced >= 2 * Advance + 1
    BY <2>2 DEF SentSnapshots, SentInPlace
  <2>4. /\ s.length = SnapshotRows \/ s.length = s.announced
        /\ s.length <= s.announced /\ s.length >= Advance
    BY <2>2, <2>3, DetectorParameters DEF SentInPlace, Limited
  <2>5. IsMeteor(a, b)
    <3>1. <<a, b>> \in {ab \in (0 .. mark) \X (0 .. mark) : ab[1] <= ab[2] /\ IsMeteor(ab[1], ab[2])}
      BY <1>1 DEF MeteorsAreSent
    <3> QED BY <3>1
  <2>6. a \in detections /\ b \in detections
    BY <2>5 DEF IsMeteor
  <2>7. /\ detections \cap (a - Gap .. a - 1) = {}
        /\ detections \cap (b + 1 .. b + Gap) = {}
    BY <2>5 DEF IsMeteor
  <2>8. a = s.start + Advance - 1 /\ b = s.start + s.announced - Advance - 2
    BY DEF FirstOf, LastOf
  <2>9. a \in Int /\ b \in Int
    BY <2>3, <2>8, DetectorParameters
  <2> HIDE DEF s, a, b
  <2>10. a \in held
    BY <2>3, <2>4, <2>6, <2>8, DetectorParameters
  <2>11. ASSUME NEW d \in held PROVE d \in a .. b
    <3>1. d \in detections /\ d \in Int /\ d >= s.start /\ d <= s.start + s.length - 1
      BY <2>1, <2>3
    <3>2. d \notin a - Gap .. a - 1 /\ d \notin b + 1 .. b + Gap
      BY <2>7, <3>1
    <3>3. d >= a - Gap /\ d <= b + Gap
      BY <2>3, <2>4, <2>8, <3>1, DetectorParameters, GapType
    <3>4. a \in Int /\ b \in Int /\ Gap \in Int
      BY <2>9, GapType
    <3> QED BY <3>1, <3>2, <3>3, <3>4
  <2>12. ASSUME s.length # SnapshotRows, NEW d \in detections \cap (a .. b)
         PROVE  d \in held
    <3>1. d \in Int /\ d \in a .. b /\ a \in Int /\ b \in Int
      BY <2>1, <2>9
    <3>2. d >= s.start /\ d <= s.start + s.length - 1
      BY <2>3, <2>4, <2>8, <2>12, <3>1, DetectorParameters
    <3> QED BY <2>3, <3>1, <3>2
  <2>13. held \subseteq a .. b
    BY <2>11
  <2> QED BY <2>5, <2>6, <2>10, <2>12, <2>13 DEF s
<1> QED BY <1>1, DetectorInvariant, AllMeteorsAreSent, PTL
=============================================================================
