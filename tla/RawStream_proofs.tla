-------------------------- MODULE RawStream_proofs --------------------------
(***************************************************************************)
(* What is proved of RawStream and FFTBackend, for every window, overlap,  *)
(* read size and stream: no window's worth of samples waits between two    *)
(* batches; when no phase shift is configured, rows are the sliding        *)
(* windows of SlidingWindow; and the rounding of a row's time does not add *)
(* up over the stream.                                                     *)
(***************************************************************************)
EXTENDS RawStream, SequenceTheorems, TLAPS

-----------------------------------------------------------------------------
(* The inductive invariants.                                               *)

\* The number of the first sample not yet put in the window.
NextSample == IF processing THEN src.first ELSE dataInfo.offset

CountTypeOK ==
  /\ filled \in 0 .. Bins - 1
  /\ offset \in Nat
  /\ processing \in BOOLEAN
  /\ src \in [first : Nat, size : Nat, time : Int]
  /\ dataInfo \in [offset : Nat, time : Int]

\* The next row begins Hop samples after the latest one, and its first
\* samples are in the window already.
InStep == NextSample = offset * Hop + filled

CountIInv == CountTypeOK /\ InStep

\* What is in the window is the beginning of the next row.
WindowHolds ==
  /\ window \in Seq([i : Int, q : Int])
  /\ Len(window) = Bins
  /\ \A j \in 1 .. filled : window[j] = Sample(offset * Hop + j - 1)

-----------------------------------------------------------------------------
(* Sizes.                                                                  *)

\* However much overlap is asked for, windows overlap by less than a window
\* and the next begins at least one sample later (FFTBackend.cpp:108-109).
LEMMA HopPositive ==
  /\ Bins \in Nat
  /\ BinOverlap \in 0 .. Bins - 1
  /\ Hop \in 1 .. Bins
  /\ Bins = Hop + BinOverlap
BY FFTSizes DEF Hop, BinOverlap

\* The beginnings of rows stay integers, Hop apart.
LEMMA RowsApart ==
  ASSUME NEW n \in Nat
  PROVE  n * Hop \in Nat /\ (n + 1) * Hop = n * Hop + Hop
<1>1. Hop \in Nat
  BY HopPositive
<1> HIDE DEF Hop
<1> QED
  BY <1>1

\* Times stay integers.
LEMMA TimesAreInt ==
  ASSUME NEW time \in Int, NEW count \in Nat
  PROVE  AddSamples(time, count) \in Int
<1>1. SampleRate \in Nat \ {0} /\ UsInSecond \in Nat
  BY FFTSizes
<1>2. count \div SampleRate \in Int /\ count % SampleRate \in Int
  BY <1>1
<1> DEFINE seconds == count \div SampleRate
           rest == count % SampleRate
<1>3. seconds * UsInSecond \in Int /\ rest * UsInSecond \in Int
  BY <1>1, <1>2
<1> DEFINE us == rest * UsInSecond
<1>4. us \div SampleRate \in Int
  <2> HIDE DEF us, rest
  <2> QED
    BY <1>1, <1>3 DEF us
<1>5. AddSamples(time, count) = time + seconds * UsInSecond + us \div SampleRate
  BY DEF AddSamples
<1> HIDE DEF us, seconds, rest
<1> QED
  BY <1>3, <1>4, <1>5

-----------------------------------------------------------------------------
(* Rows keep in step with the samples.                                     *)

LEMMA CountInit == RawInit => CountIInv
<1> SUFFICES ASSUME RawInit PROVE CountIInv
  OBVIOUS
<1>0. filled = 0 /\ offset = 0 /\ processing = FALSE /\ src = NoBatch
      /\ dataInfo = [offset |-> 0, time |-> 0]
  BY DEF RawInit, FFTInit
<1>1. CountTypeOK
  <2>1. 0 \in 0 .. Bins - 1
    BY FFTSizes
  <2>2. src \in [first : Nat, size : Nat, time : Int]
        /\ dataInfo \in [offset : Nat, time : Int]
    BY <1>0 DEF NoBatch
  <2>3. processing \in BOOLEAN /\ offset \in Nat
    BY <1>0
  <2> QED
    BY <1>0, <2>1, <2>2, <2>3 DEF CountTypeOK
<1>2. InStep
  BY <1>0, HopPositive DEF InStep, NextSample
<1> QED
  BY <1>1, <1>2 DEF CountIInv

LEMMA CountStep == CountIInv /\ [RawNext]_rawVars => CountIInv'
<1> SUFFICES ASSUME CountIInv, [RawNext]_rawVars
             PROVE  CountIInv'
  OBVIOUS
<1>t. CountTypeOK /\ InStep
  BY DEF CountIInv
<1>h. /\ Bins \in Nat
      /\ BinOverlap \in 0 .. Bins - 1
      /\ Hop \in 1 .. Bins
      /\ Bins = Hop + BinOverlap
  BY HopPositive
<1>r. offset * Hop \in Nat /\ (offset + 1) * Hop = offset * Hop + Hop
  BY RowsApart, <1>t DEF CountTypeOK
<1> HIDE DEF Hop, BinOverlap
<1>1. CASE UNCHANGED fftVars
  BY <1>1, <1>t DEF fftVars, CountIInv, CountTypeOK, InStep, NextSample
<1>2. CASE Read
  <2>1. PICK bytes \in 1 .. BufferBytes : Process(bytes \div SampleBytes)
    BY <1>2 DEF Read
  <2>2. bytes \div SampleBytes \in Nat
    BY RawStreamSizes
  <2>3. CountTypeOK'
    BY <1>t, <2>1, <2>2 DEF Process, CountTypeOK
  <2>4. InStep'
    BY <1>t, <2>1 DEF Process, CountTypeOK, InStep, NextSample
  <2> QED
    BY <2>3, <2>4 DEF CountIInv
<1>3. CASE CompleteWindow
  <2> DEFINE count == Bins - filled
  <2>1. count \in Nat /\ src.size - count \in Nat
    BY <1>3, <1>t, <1>h DEF CompleteWindow, CountTypeOK
  <2>2. AddSamples(src.time, count) \in Int
    BY <2>1, <1>t, TimesAreInt DEF CountTypeOK
  <2>3. src' = [first |-> src.first + count, size |-> src.size - count,
                time |-> AddSamples(src.time, count)]
    BY <1>3 DEF CompleteWindow, NextTime
  <2>4. src' \in [first : Nat, size : Nat, time : Int]
    <3> HIDE DEF count
    <3> QED
      BY <2>1, <2>2, <2>3, <1>t DEF CountTypeOK
  <2>5. filled' = BinOverlap /\ offset' = offset + 1 /\ processing /\ processing'
        /\ dataInfo' = dataInfo
    BY <1>3, <1>t DEF CompleteWindow, CountTypeOK
  <2>6. CountTypeOK'
    BY <2>4, <2>5, <1>t, <1>h DEF CountTypeOK
  <2>7. src'.first = src.first + Bins - filled
    BY <2>3, <1>t, <1>h DEF CountTypeOK
  <2>8. src.first = offset * Hop + filled
    BY <2>5, <1>t DEF InStep, NextSample
  <2>9. src'.first = (offset + 1) * Hop + BinOverlap
    BY <2>7, <2>8, <1>r, <1>h, <1>t DEF CountTypeOK
  <2> QED
    BY <2>5, <2>6, <2>9 DEF CountIInv, InStep, NextSample
<1>4. CASE KeepRest
  <2>1. src.size \in Nat /\ src.first \in Nat /\ src.size < Bins - filled /\ filled \in Nat
    BY <1>4, <1>t DEF KeepRest, CountTypeOK
  <2>2. AddSamples(0, src.first + src.size) \in Int
    BY <2>1, TimesAreInt
  <2>3. dataInfo' \in [offset : Nat, time : Int] /\ dataInfo'.offset = src.first + src.size
    BY <1>4, <2>1, <2>2 DEF KeepRest
  <2>4. filled' = filled + src.size /\ offset' = offset /\ processing /\ processing' = FALSE
    BY <1>4, <1>t DEF KeepRest, MarkMoved, CountTypeOK
  <2>5. src' \in [first : Nat, size : Nat, time : Int]
    BY <1>4 DEF KeepRest, NoBatch
  <2>6. CountTypeOK'
    <3>1. filled' \in 0 .. Bins - 1 /\ offset' \in Nat
      BY <2>1, <2>4, <1>t, <1>h DEF CountTypeOK
    <3>2. processing' \in BOOLEAN
      BY <2>4
    <3> QED
      BY <2>3, <2>5, <3>1, <3>2 DEF CountTypeOK
  <2>7. src.first = offset * Hop + filled
    BY <2>4, <1>t DEF InStep, NextSample
  <2>8. dataInfo'.offset = offset' * Hop + filled'
    BY <2>1, <2>3, <2>4, <2>7, <1>r
  <2> QED
    BY <2>4, <2>6, <2>8 DEF CountIInv, InStep, NextSample
<1> QED
  BY <1>1, <1>2, <1>3, <1>4
  DEF RawNext, rawVars, Stop, LoopAgain, ReadEnds, Window, Processed

THEOREM CountsInStep == RawSpec => []CountIInv
BY CountInit, CountStep, PTL DEF RawSpec

\* Between two batches no whole window of samples waits for its row, for every
\* window, overlap, phase shift and way the stream is cut (FFTBackend.cpp:211).
THEOREM NoRowEverWaits == RawSpec => []NoRowWaits
<1>1. CountIInv => NoRowWaits
  <2> SUFFICES ASSUME CountIInv, ~processing
               PROVE  offset * Hop + Bins > dataInfo.offset
    BY DEF NoRowWaits
  <2>1. dataInfo.offset = offset * Hop + filled /\ filled \in 0 .. Bins - 1 /\ offset \in Nat
    BY DEF CountIInv, CountTypeOK, InStep, NextSample
  <2>2. offset * Hop \in Nat
    BY <2>1, RowsApart
  <2> HIDE DEF Hop
  <2> QED
    BY <2>1, <2>2, HopPositive
<1> QED
  BY <1>1, CountsInStep, PTL

-----------------------------------------------------------------------------
(* Rows are windows.                                                       *)

Pairs == [i : Int, q : Int]

\* A piece of a sequence.
LEMMA PieceOf ==
  ASSUME NEW S, NEW s \in Seq(S), NEW m \in Nat \ {0}, NEW n \in Nat, m <= n + 1, n <= Len(s)
  PROVE  /\ SubSeq(s, m, n) \in Seq(S)
         /\ Len(SubSeq(s, m, n)) = n - m + 1
         /\ \A j \in 1 .. n - m + 1 : SubSeq(s, m, n)[j] = s[m + j - 1]
<1>1. \A j \in m .. n : s[j] \in S
  <2>1. \A j \in m .. n : j \in 1 .. Len(s)
    <3>1. Len(s) \in Nat
      OBVIOUS
    <3> QED
      BY <3>1
  <2> QED
    BY <2>1
<1>2. m \in Int /\ n \in Int
  OBVIOUS
<1>3. /\ SubSeq(s, m, n) \in Seq(S)
      /\ Len(SubSeq(s, m, n)) = IF m <= n THEN n - m + 1 ELSE 0
      /\ \A j \in 1 .. n - m + 1 : SubSeq(s, m, n)[j] = s[m + j - 1]
  BY ONLY <1>1, <1>2, SubSeqProperties
<1> QED
  BY <1>3

\* One sequence after another.
LEMMA OneAfterOther ==
  ASSUME NEW S, NEW s \in Seq(S), NEW t \in Seq(S)
  PROVE  /\ s \o t \in Seq(S)
         /\ Len(s \o t) = Len(s) + Len(t)
         /\ \A j \in 1 .. Len(s) : (s \o t)[j] = s[j]
         /\ \A j \in Len(s) + 1 .. Len(s) + Len(t) : (s \o t)[j] = t[j - Len(s)]
<1>1. Len(s) \in Nat /\ Len(t) \in Nat
  OBVIOUS
<1>2. /\ s \o t \in Seq(S)
      /\ Len(s \o t) = Len(s) + Len(t)
      /\ \A j \in 1 .. Len(s) + Len(t) :
           (s \o t)[j] = IF j <= Len(s) THEN s[j] ELSE t[j - Len(s)]
  BY ConcatProperties
<1>3. \A j \in 1 .. Len(s) : j \in 1 .. Len(s) + Len(t) /\ j <= Len(s)
  BY <1>1
<1>4. \A j \in Len(s) + 1 .. Len(s) + Len(t) :
         j \in 1 .. Len(s) + Len(t) /\ ~(j <= Len(s))
  BY <1>1
<1> QED
  BY <1>2, <1>3, <1>4

\* Without a phase shift the correction leaves the samples as they are.
LEMMA CorrectedUnshifted ==
  ASSUME PhaseShift = 0, NEW n \in Nat, NEW count \in Nat, NEW delay, NEW out
  PROVE  Corrected(delay, Samples(n, count), out) = Samples(n, count)
<1> DEFINE in == Samples(n, count)
<1>1. Len(in) = count
  BY DEF Samples
<1>2. \A j \in 1 .. count : in[j] = [i |-> n + j - 1, q |-> n + j - 1]
  BY DEF Samples, Sample
<1>3. SectionI(count) = 0 /\ SectionII(count) = count
  BY DEF SectionI, SectionII
<1>4. Corrected(delay, in, out) = [j \in 1 .. count |-> [i |-> in[j].i, q |-> in[j].q]]
  <2>1. Corrected(delay, in, out)
          = [j \in 1 .. count |->
               IF j <= 0
               THEN [i |-> in[j].i, q |-> LineAt(delay, delay.head - PhaseShift + j - 1)]
               ELSE IF j <= 0 + count
               THEN [i |-> in[j].i, q |-> in[j - 0].q]
               ELSE out[j]]
    BY <1>1, <1>3 DEF Corrected
  <2> HIDE DEF in
  <2> QED
    BY <2>1
<1>5. \A j \in 1 .. count : [i |-> in[j].i, q |-> in[j].q] = Sample(n + j - 1)
  <2> HIDE DEF in
  <2> QED
    BY <1>2 DEF Sample
<1> HIDE DEF in
<1>6. Corrected(delay, in, out) = [j \in 1 .. count |-> Sample(n + j - 1)]
  BY <1>4, <1>5
<1> QED
  BY <1>6 DEF in, Samples

\* Whatever is put in the window continues what it holds.
LEMMA FilledHolds ==
  ASSUME PhaseShift = 0, CountIInv, WindowHolds, processing,
         NEW count \in 0 .. Bins - filled
  PROVE  /\ Filled(count) \in Seq(Pairs)
         /\ Len(Filled(count)) = Bins
         /\ \A j \in 1 .. filled + count : Filled(count)[j] = Sample(offset * Hop + j - 1)
<1> DEFINE in == Samples(src.first, count)
           base == offset * Hop
<1>1. filled \in 0 .. Bins - 1 /\ src.first \in Nat /\ Bins \in Nat /\ offset \in Nat
  BY HopPositive DEF CountIInv, CountTypeOK
<1>2. base \in Nat
  BY <1>1, RowsApart
<1>3. src.first = base + filled
  BY DEF CountIInv, InStep, NextSample
<1>4. Filled(count) = SubSeq(window, 1, filled) \o in \o SubSeq(window, filled + count + 1, Bins)
  <2>1. count \in Nat
    BY <1>1
  <2> QED
    BY <2>1, <1>1, CorrectedUnshifted DEF Filled
<1>5. in \in Seq(Pairs) /\ Len(in) = count
      /\ \A j \in 1 .. count : in[j] = Sample(src.first + j - 1)
  <2>1. \A j \in 1 .. count : Sample(src.first + j - 1) \in [i : Int, q : Int]
    BY <1>1 DEF Sample
  <2> QED
    BY <1>1, <2>1 DEF Samples, Pairs
<1>6. window \in Seq(Pairs) /\ Len(window) = Bins
      /\ \A j \in 1 .. filled : window[j] = Sample(base + j - 1)
  BY DEF WindowHolds, Pairs
<1> HIDE DEF in, base
<1> DEFINE old == SubSeq(window, 1, filled)
           rest == SubSeq(window, filled + count + 1, Bins)
<1>7. old \in Seq(Pairs) /\ Len(old) = filled /\ \A j \in 1 .. filled : old[j] = window[j]
  BY <1>1, <1>6, PieceOf
<1>8. rest \in Seq(Pairs) /\ Len(rest) = Bins - filled - count
  <2>1. filled + count + 1 \in Nat \ {0} /\ filled + count + 1 <= Bins + 1
    BY <1>1
  <2>2. /\ rest \in Seq(Pairs)
        /\ Len(rest) = Bins - (filled + count + 1) + 1
    BY <2>1, <1>1, <1>6, PieceOf
  <2> QED
    BY <2>2, <1>1
<1> HIDE DEF old, rest
<1> DEFINE new == old \o in
<1>9. /\ new \in Seq(Pairs)
      /\ Len(new) = filled + count
      /\ \A j \in 1 .. filled : new[j] = old[j]
      /\ \A j \in filled + 1 .. filled + count : new[j] = in[j - filled]
  <2>1. /\ new \in Seq(Pairs)
        /\ Len(new) = Len(old) + Len(in)
        /\ \A j \in 1 .. Len(old) : new[j] = old[j]
        /\ \A j \in Len(old) + 1 .. Len(old) + Len(in) : new[j] = in[j - Len(old)]
    BY <1>5, <1>7, OneAfterOther
  <2> QED
    BY <2>1, <1>5, <1>7
<1>10. \A j \in 1 .. filled + count : new[j] = Sample(base + j - 1)
  <2> SUFFICES ASSUME NEW j \in 1 .. filled + count
               PROVE  new[j] = Sample(base + j - 1)
    OBVIOUS
  <2> HIDE DEF new
  <2>1. CASE j <= filled
    BY <2>1, <1>1, <1>6, <1>7, <1>9
  <2>2. CASE j > filled
    <3>1. j - filled \in 1 .. count /\ j \in filled + 1 .. filled + count
      BY <2>2, <1>1
    <3>2. new[j] = Sample(src.first + (j - filled) - 1)
      BY <3>1, <1>5, <1>9
    <3>3. src.first + (j - filled) - 1 = base + j - 1
      BY <1>1, <1>2, <1>3
    <3> QED
      BY <3>2, <3>3
  <2> QED
    BY <2>1, <2>2, <1>1
<1>11. Filled(count) = new \o rest
  BY <1>4 DEF old, rest
<1> HIDE DEF new
<1>12. /\ new \o rest \in Seq(Pairs)
       /\ Len(new \o rest) = Bins
       /\ \A j \in 1 .. filled + count : (new \o rest)[j] = new[j]
  <2>1. /\ new \o rest \in Seq(Pairs)
        /\ Len(new \o rest) = Len(new) + Len(rest)
        /\ \A j \in 1 .. Len(new) : (new \o rest)[j] = new[j]
    BY <1>8, <1>9, OneAfterOther
  <2> QED
    BY <2>1, <1>1, <1>8, <1>9
<1> QED
  BY <1>10, <1>11, <1>12 DEF base

\* Moving the overlap down puts the last items of a window first.
LEMMA MovedDownOverlap ==
  ASSUME NEW S, NEW seq \in Seq(S), Len(seq) = Bins
  PROVE  /\ MovedDown(seq) \in Seq(S)
         /\ Len(MovedDown(seq)) = Bins
         /\ \A j \in 1 .. BinOverlap : MovedDown(seq)[j] = seq[Hop + j]
<1> DEFINE tail == SubSeq(seq, Bins - BinOverlap + 1, Bins)
           rest == SubSeq(seq, BinOverlap + 1, Bins)
<1>h. Bins \in Nat /\ BinOverlap \in 0 .. Bins - 1 /\ Hop \in 1 .. Bins
      /\ Bins = Hop + BinOverlap
  BY HopPositive
<1> HIDE DEF Hop, BinOverlap
<1>1. tail \in Seq(S) /\ Len(tail) = BinOverlap
      /\ \A j \in 1 .. BinOverlap : tail[j] = seq[Hop + j]
  <2>1. Bins - BinOverlap + 1 \in Nat \ {0} /\ Bins - BinOverlap + 1 <= Bins + 1
        /\ Bins - (Bins - BinOverlap + 1) + 1 = BinOverlap
    BY <1>h
  <2>2. /\ tail \in Seq(S)
        /\ Len(tail) = BinOverlap
        /\ \A j \in 1 .. BinOverlap : tail[j] = seq[Bins - BinOverlap + 1 + j - 1]
    BY <2>1, <1>h, PieceOf
  <2>3. \A j \in 1 .. BinOverlap : Bins - BinOverlap + 1 + j - 1 = Hop + j
    BY <1>h
  <2> HIDE DEF tail
  <2> QED
    BY <2>2, <2>3
<1>2. rest \in Seq(S) /\ Len(rest) = Bins - BinOverlap
  <2>1. BinOverlap + 1 \in Nat \ {0} /\ BinOverlap + 1 <= Bins + 1
        /\ Bins - (BinOverlap + 1) + 1 = Bins - BinOverlap
    BY <1>h
  <2> QED
    BY <2>1, <1>h, PieceOf
<1>3. MovedDown(seq) = tail \o rest
  BY DEF MovedDown
<1> HIDE DEF tail, rest
<1> QED
  <2>1. /\ tail \o rest \in Seq(S)
        /\ Len(tail \o rest) = Len(tail) + Len(rest)
        /\ \A j \in 1 .. Len(tail) : (tail \o rest)[j] = tail[j]
    BY <1>1, <1>2, OneAfterOther
  <2>2. BinOverlap \in Nat /\ BinOverlap + (Bins - BinOverlap) = Bins
    BY <1>h
  <2> QED
    BY <2>1, <2>2, <1>1, <1>2, <1>3

WindowIInv == CountIInv /\ WindowHolds

LEMMA WindowInit == RawInit => WindowIInv
<1> SUFFICES ASSUME RawInit PROVE WindowHolds
  BY CountInit DEF WindowIInv
<1>1. window = [j \in 1 .. Bins |-> NoSample] /\ filled = 0
  BY DEF RawInit, FFTInit
<1>2. Bins \in Nat
  BY FFTSizes
<1>3. NoSample \in [i : Int, q : Int]
  BY DEF NoSample, Unknown
<1>4. window \in Seq([i : Int, q : Int]) /\ Len(window) = Bins
  BY <1>1, <1>2, <1>3
<1>5. \A j \in 1 .. filled : FALSE
  BY <1>1
<1> QED
  BY <1>4, <1>5 DEF WindowHolds

LEMMA WindowStep ==
  ASSUME PhaseShift = 0, WindowIInv, [RawNext]_rawVars
  PROVE  WindowIInv'
<1>c. CountIInv /\ CountIInv' /\ WindowHolds
  BY CountStep DEF WindowIInv
<1>t. /\ filled \in 0 .. Bins - 1 /\ offset \in Nat
      /\ src \in [first : Nat, size : Nat, time : Int]
  BY <1>c DEF CountIInv, CountTypeOK
<1>h. /\ Bins \in Nat
      /\ BinOverlap \in 0 .. Bins - 1
      /\ Hop \in 1 .. Bins
      /\ Bins = Hop + BinOverlap
  BY HopPositive
<1> SUFFICES WindowHolds'
  BY <1>c DEF WindowIInv
<1>1. CASE UNCHANGED <<window, filled, offset>>
  BY <1>1, <1>c DEF WindowHolds
<1>2. CASE CompleteWindow
  <2> DEFINE count == Bins - filled
             whole == Filled(count)
  <2>1. count \in 0 .. Bins - filled /\ filled + count = Bins
    BY <1>t, <1>h
  <2>2. processing
    BY <1>2 DEF CompleteWindow
  <2>3. /\ whole \in Seq(Pairs)
        /\ Len(whole) = Bins
        /\ \A j \in 1 .. Bins : whole[j] = Sample(offset * Hop + j - 1)
    BY <2>1, <2>2, <1>c, FilledHolds
  <2>4. window' = MovedDown(whole) /\ filled' = BinOverlap /\ offset' = offset + 1
    BY <1>2 DEF CompleteWindow
  <2> HIDE DEF whole
  <2>5. /\ window' \in Seq(Pairs)
        /\ Len(window') = Bins
        /\ \A j \in 1 .. BinOverlap : window'[j] = whole[Hop + j]
    BY <2>3, <2>4, MovedDownOverlap
  <2>6. offset * Hop \in Nat /\ (offset + 1) * Hop = offset * Hop + Hop
    BY <1>t, RowsApart
  <2>7. \A j \in 1 .. filled' : window'[j] = Sample(offset' * Hop + j - 1)
    <3> SUFFICES ASSUME NEW j \in 1 .. BinOverlap
                 PROVE  window'[j] = Sample((offset + 1) * Hop + j - 1)
      BY <2>4
    <3> HIDE DEF Hop, BinOverlap
    <3>1. Hop + j \in 1 .. Bins
      BY <1>h
    <3>2. window'[j] = Sample(offset * Hop + (Hop + j) - 1)
      BY <3>1, <2>3, <2>5
    <3>3. offset * Hop + (Hop + j) - 1 = (offset + 1) * Hop + j - 1
      BY <1>h, <2>6
    <3> QED
      BY <3>2, <3>3
  <2> QED
    BY <2>5, <2>7 DEF WindowHolds, Pairs
<1>3. CASE KeepRest
  <2>1. src.size \in 0 .. Bins - filled /\ processing
    BY <1>3, <1>t, <1>h DEF KeepRest
  <2>2. /\ Filled(src.size) \in Seq(Pairs)
        /\ Len(Filled(src.size)) = Bins
        /\ \A j \in 1 .. filled + src.size :
             Filled(src.size)[j] = Sample(offset * Hop + j - 1)
    BY <2>1, <1>c, FilledHolds
  <2>3. window' = Filled(src.size) /\ filled' = filled + src.size /\ offset' = offset
    BY <1>3 DEF KeepRest, MarkMoved
  <2> QED
    BY <2>2, <2>3 DEF WindowHolds, Pairs
<1> QED
  BY <1>1, <1>2, <1>3
  DEF RawNext, rawVars, fftVars, Stop, LoopAgain, Read, ReadEnds, Process, Window, Processed

\* A step arrives, makes the row that is due, or changes nothing the
\* abstract specification sees.
LEMMA StepsAreSliding ==
  ASSUME PhaseShift = 0, WindowIInv, [RawNext]_rawVars
  PROVE  [Windows!Next]_(Windows!vars)
<1>c. CountIInv /\ WindowHolds
  BY DEF WindowIInv
<1>t. /\ filled \in 0 .. Bins - 1 /\ offset \in Nat
      /\ src \in [first : Nat, size : Nat, time : Int]
      /\ dataInfo \in [offset : Nat, time : Int]
  BY <1>c DEF CountIInv, CountTypeOK
<1>h. Bins \in Nat
  BY HopPositive
<1>1. CASE UNCHANGED fftVars
  BY <1>1 DEF fftVars, Windows!vars, Arrived
<1>2. CASE Read
  <2>1. PICK bytes \in 1 .. BufferBytes : Process(bytes \div SampleBytes)
    BY <1>2 DEF Read
  <2>2. bytes \div SampleBytes \in Nat
    BY RawStreamSizes
  <2> DEFINE size == bytes \div SampleBytes
  <2>3. Arrived = dataInfo.offset /\ Arrived' = dataInfo.offset + size
    BY <2>1 DEF Process, Arrived
  <2>4. offset' = offset /\ row' = row
    BY <2>1 DEF Process
  <2> HIDE DEF size
  <2>5. Arrived' \in Nat /\ Arrived' >= Arrived
    BY <2>2, <2>3, <1>t DEF size
  <2> QED
    BY <2>4, <2>5 DEF Windows!Next, Windows!Arrive
<1>3. CASE CompleteWindow
  <2> DEFINE count == Bins - filled
             whole == Filled(count)
  <2>1. count \in 0 .. Bins - filled /\ filled + count = Bins /\ src.size >= count
    BY <1>3, <1>t, <1>h DEF CompleteWindow
  <2>2. processing /\ processing'
    BY <1>3 DEF CompleteWindow
  <2>3. /\ whole \in Seq(Pairs)
        /\ Len(whole) = Bins
        /\ \A j \in 1 .. Bins : whole[j] = Sample(offset * Hop + j - 1)
    BY <2>1, <2>2, <1>c, FilledHolds
  <2>4. row'.samples = whole /\ offset' = offset + 1
    BY <1>3 DEF CompleteWindow
  <2> HIDE DEF whole
  <2>5. whole = Windows!RowSamples(offset)
    <3>1. whole = [j \in 1 .. Bins |-> whole[j]]
      BY <2>3 DEF Pairs
    <3> QED
      BY <3>1, <2>3 DEF Windows!RowSamples, Windows!Sample, Sample
  <2>6. src.first = offset * Hop + filled /\ offset * Hop \in Nat
    BY <2>2, <1>c, <1>t, RowsApart DEF CountIInv, InStep, NextSample
  <2>7. offset * Hop + Bins <= Arrived
    <3>1. Arrived = src.first + src.size
      BY <2>2 DEF Arrived
    <3> HIDE DEF Hop
    <3> QED
      BY <3>1, <2>1, <2>6, <1>t, <1>h
  <2>8. Arrived' = Arrived
    <3>1. src' = [first |-> src.first + count, size |-> src.size - count,
                  time |-> NextTime(src.time, count)]
      BY <1>3 DEF CompleteWindow
    <3>2. Arrived' = (src.first + count) + (src.size - count)
      BY <2>2, <3>1 DEF Arrived
    <3> QED
      BY <2>1, <2>2, <3>2, <1>t, <1>h DEF Arrived
  <2> QED
    BY <2>4, <2>5, <2>7, <2>8 DEF Windows!Next, Windows!MakeRow
<1>4. CASE KeepRest
  <2>1. processing /\ ~processing' /\ dataInfo'.offset = src.first + src.size
    BY <1>4 DEF KeepRest
  <2>2. offset' = offset /\ row' = row
    BY <1>4 DEF KeepRest
  <2> QED
    BY <2>1, <2>2 DEF Arrived, Windows!vars
<1> QED
  BY <1>1, <1>2, <1>3, <1>4
  DEF RawNext, rawVars, Stop, LoopAgain, ReadEnds, Window, Processed

\* With iq_phase_shift 0, rows are the windows they should be for every
\* window, overlap and raw buffer and however the stream is cut into reads
\* (FFTBackend.cpp:211-273).
THEOREM RowsAreSlidingWindows ==
  ASSUME PhaseShift = 0
  PROVE  RawSpec => IsSlidingWindow
<1>1. RawInit => Windows!Init
  BY DEF RawInit, FFTInit, NoRow, Windows!Init, Arrived
<1>2. RawInit => WindowIInv
  BY WindowInit
<1>3. WindowIInv /\ [RawNext]_rawVars => WindowIInv'
  BY WindowStep
<1>4. WindowIInv /\ [RawNext]_rawVars => [Windows!Next]_(Windows!vars)
  BY StepsAreSliding
<1> QED
  BY <1>1, <1>2, <1>3, <1>4, PTL DEF RawSpec, IsSlidingWindow, Windows!Spec

-----------------------------------------------------------------------------
(* Times.                                                                  *)

\* The time that so many samples take, rounded down.
Us(n) == AddSamples(0, n)

(* The quotient and the remainder of v make up v.                          *)
LEMMA DivMod ==
  ASSUME NEW v \in Int, NEW c \in Nat \ {0}
  PROVE  /\ v \div c \in Int
         /\ v % c \in 0 .. c - 1
         /\ v = (v \div c) * c + (v % c)
OBVIOUS

\* What rounding leaves is less than a microsecond, as the whole seconds are
\* split off first.
LEMMA RestOfUs ==
  ASSUME NEW n \in Nat
  PROVE  /\ Us(n) \in Nat
         /\ \E r \in 0 .. SampleRate - 1 : n * UsInSecond = Us(n) * SampleRate + r
<1>0. SampleRate \in Nat \ {0} /\ UsInSecond \in Nat
  BY FFTSizes
<1> DEFINE s == n \div SampleRate
           k == n % SampleRate
           u == k * UsInSecond
           q == u \div SampleRate
           r == u % SampleRate
<1>1. s \in Int /\ k \in 0 .. SampleRate - 1 /\ n = s * SampleRate + k
  BY <1>0, DivMod
<1>2. Us(n) = s * UsInSecond + q
  <2>1. s * UsInSecond \in Int
    <3> HIDE DEF s
    <3> QED BY <1>0, <1>1
  <2>2. Us(n) = 0 + s * UsInSecond + q
    BY DEF Us, AddSamples
  <2> HIDE DEF s, q
  <2> QED BY <2>1, <2>2
<1> HIDE DEF s, k
<1>3. u \in Nat
  BY <1>0, <1>1
<1> HIDE DEF u
<1>4. q \in Int /\ r \in 0 .. SampleRate - 1 /\ u = q * SampleRate + r
  BY <1>0, <1>3, DivMod
<1> HIDE DEF q, r
<1>5. s >= 0
  <2> SUFFICES ASSUME s <= -1 PROVE FALSE
    BY <1>1
  <2>1. s * SampleRate <= -SampleRate
    BY <1>0, <1>1
  <2> QED BY <1>0, <1>1, <2>1
<1>6. q >= 0
  <2> SUFFICES ASSUME q <= -1 PROVE FALSE
    BY <1>4
  <2>1. q * SampleRate <= -SampleRate
    BY <1>0, <1>4
  <2> QED BY <1>0, <1>3, <1>4, <2>1
<1>7. s * UsInSecond \in Nat
  BY <1>0, <1>1, <1>5
<1>8. n * UsInSecond = (s * UsInSecond + q) * SampleRate + r
  <2>1. n * UsInSecond = (s * UsInSecond) * SampleRate + k * UsInSecond
    BY <1>0, <1>1
  <2> QED BY <1>0, <1>1, <1>4, <2>1 DEF u
<1> QED BY <1>2, <1>4, <1>6, <1>7, <1>8

\* Rounding two parts loses at most a microsecond against rounding the whole.
LEMMA UsOfSum ==
  ASSUME NEW a \in Nat, NEW b \in Nat
  PROVE  Us(a) + Us(b) \in Us(a + b) - 1 .. Us(a + b)
<1>0. SampleRate \in Nat \ {0} /\ UsInSecond \in Nat
  BY FFTSizes
<1>1. PICK r \in 0 .. SampleRate - 1 : a * UsInSecond = Us(a) * SampleRate + r
  BY RestOfUs
<1>2. PICK t \in 0 .. SampleRate - 1 : b * UsInSecond = Us(b) * SampleRate + t
  BY RestOfUs
<1>3. PICK w \in 0 .. SampleRate - 1 : (a + b) * UsInSecond = Us(a + b) * SampleRate + w
  <2>1. a + b \in Nat
    OBVIOUS
  <2> QED BY <2>1, RestOfUs
<1>4. Us(a) \in Nat /\ Us(b) \in Nat /\ Us(a + b) \in Nat
  BY RestOfUs
<1> DEFINE d == Us(a + b) - Us(a) - Us(b)
<1>5. d \in Int /\ d * SampleRate = r + t - w
  <2>1. (a + b) * UsInSecond = a * UsInSecond + b * UsInSecond
    BY <1>0
  <2> DEFINE A == Us(a) * SampleRate
             B == Us(b) * SampleRate
             C == Us(a + b) * SampleRate
  <2>2. C + w = A + r + B + t
    <3>1. A \in Int /\ B \in Int /\ C \in Int
      <4> HIDE DEF Us
      <4> QED BY <1>0, <1>4
    <3>2. C + w = (A + r) + (B + t)
      <4> HIDE DEF A, B, C
      <4>1. C + w = (a + b) * UsInSecond
        BY <1>3 DEF C
      <4>2. A + r = a * UsInSecond /\ B + t = b * UsInSecond
        BY <1>1, <1>2 DEF A, B
      <4> QED BY <2>1, <4>1, <4>2
    <3> HIDE DEF A, B, C
    <3> QED BY <1>0, <3>1, <3>2
  <2> HIDE DEF Us
  <2>3. d * SampleRate = Us(a + b) * SampleRate - Us(a) * SampleRate - Us(b) * SampleRate
    BY <1>0, <1>4
  <2> QED BY <1>0, <1>4, <2>2, <2>3
<1> HIDE DEF d
<1>6. d >= 0
  <2> SUFFICES ASSUME d <= -1 PROVE FALSE
    BY <1>5
  <2>1. d * SampleRate <= -SampleRate
    BY <1>0, <1>5
  <2> QED BY <1>0, <1>5, <2>1
<1>7. d <= 1
  <2> SUFFICES ASSUME d >= 2 PROVE FALSE
    BY <1>5
  <2>1. d * SampleRate >= 2 * SampleRate
    BY <1>0, <1>5
  <2> QED BY <1>0, <1>5, <2>1
<1> QED BY <1>4, <1>5, <1>6, <1>7 DEF d

\* A time some samples later is that time and what they take.
LEMMA LaterByUs ==
  ASSUME NEW time \in Int, NEW count \in Nat
  PROVE  AddSamples(time, count) = time + Us(count)
<1> DEFINE w == (count \div SampleRate) * UsInSecond
           p == ((count % SampleRate) * UsInSecond) \div SampleRate
<1>1. w \in Int /\ p \in Int
  <2>0. SampleRate \in Nat \ {0} /\ UsInSecond \in Nat
    BY FFTSizes
  <2> DEFINE s == count \div SampleRate
             k == count % SampleRate
             u == k * UsInSecond
  <2>1. s \in Int /\ k \in Int
    BY <2>0
  <2>2. s * UsInSecond \in Int /\ u \in Int
    <3> HIDE DEF s, k
    <3> QED BY <2>0, <2>1
  <2>3. u \div SampleRate \in Int
    <3> HIDE DEF u
    <3> QED BY <2>0, <2>2
  <2> QED BY <2>2, <2>3
<1>2. AddSamples(time, count) = time + w + p /\ Us(count) = 0 + w + p
  BY DEF AddSamples, Us
<1> HIDE DEF w, p
<1> QED BY <1>1, <1>2

\* A time at most so many microseconds early stays so, but for one more.
LEMMA LaterClose ==
  ASSUME NEW n \in Nat, NEW count \in Nat, NEW w \in Nat, NEW time \in Us(n) - w .. Us(n)
  PROVE  AddSamples(time, count) \in Us(n + count) - (w + 1) .. Us(n + count)
<1>1. Us(n) \in Nat /\ Us(count) \in Nat /\ Us(n + count) \in Nat
  BY RestOfUs
<1>2. time \in Int
  BY <1>1
<1>3. AddSamples(time, count) = time + Us(count)
  BY <1>2, LaterByUs
<1>4. Us(n) + Us(count) \in Us(n + count) - 1 .. Us(n + count)
  BY UsOfSum
<1> HIDE DEF Us
<1> QED BY <1>1, <1>2, <1>3, <1>4

\* So many hops do not fit into a batch that holds fewer.
LEMMA HopsInBatch ==
  ASSUME NEW w \in Nat, NEW size \in Nat, (w - 1) * Hop + 1 <= size
  PROVE  w <= size \div Hop + 1
<1>1. Hop \in Nat \ {0}
  BY HopPositive
<1> DEFINE q == size \div Hop
           r == size % Hop
<1>2. q \in Int /\ r \in 0 .. Hop - 1 /\ size = q * Hop + r
  BY <1>1, DivMod
<1> HIDE DEF q, r, Hop
<1>3. (w - 1 - q) * Hop < Hop
  BY <1>1, <1>2
<1>4. ~(w - 1 - q >= 1)
  <2> SUFFICES ASSUME w - 1 - q >= 1 PROVE FALSE
    OBVIOUS
  <2>1. (w - 1 - q) * Hop >= Hop
    BY <1>1, <1>2
  <2> QED BY <1>1, <1>2, <1>3, <2>1
<1> QED BY <1>2, <1>4 DEF q

BatchSize == BufferBytes \div SampleBytes

\* While a batch is processed, its time has been rounded once for each window
\* it has filled, and after the first of them only whole hops of samples fill
\* another.
BatchInTime ==
  /\ src.first >= dataInfo.offset
  /\ src.first + src.size <= dataInfo.offset + BatchSize
  /\ \E w \in Nat :
        /\ src.time \in Us(src.first) - w .. Us(src.first)
        /\ w > 0 => filled = BinOverlap /\ (w - 1) * Hop + 1 <= src.first - dataInfo.offset

Near(time, n) == time \in Us(n) - MostWindows - 1 .. Us(n)

RawHandles == [mark : Int, time : Int]

\* The handles kept beside the window are near the times of its samples, and
\* the next batch begins at the time that all the samples before it take.
TimesIInv ==
  /\ rawMark \in Int
  /\ windowRaw \in Seq(RawHandles) /\ Len(windowRaw) = Bins
  /\ \A j \in 1 .. filled : Near(windowRaw[j].time, offset * Hop + j - 1)
  /\ dataInfo.time = Us(dataInfo.offset)
  /\ processing => BatchInTime
  /\ offset > 0 => Near(row.time, (offset - 1) * Hop)

\* A batch fills no more windows than its size allows.
LEMMA FewWindows ==
  ASSUME CountIInv, BatchInTime
  PROVE  \E w \in 0 .. MostWindows :
           /\ src.time \in Us(src.first) - w .. Us(src.first)
           /\ w > 0 => filled = BinOverlap /\ (w - 1) * Hop + 1 <= src.first - dataInfo.offset
<1>1. PICK w \in Nat :
        /\ src.time \in Us(src.first) - w .. Us(src.first)
        /\ w > 0 => filled = BinOverlap /\ (w - 1) * Hop + 1 <= src.first - dataInfo.offset
  BY DEF BatchInTime
<1>2. src.first \in Nat /\ src.size \in Nat /\ dataInfo.offset \in Nat
  BY DEF CountIInv, CountTypeOK
<1>3. BatchSize \in Nat
  BY RawStreamSizes DEF BatchSize
<1>h. Hop \in Nat \ {0}
  BY HopPositive
<1>4. MostWindows = BatchSize \div Hop + 1
  BY DEF MostWindows, BatchSize
<1>5. BatchSize \div Hop \in Nat
  <2> HIDE DEF BatchSize, Hop
  <2> QED BY <1>3, <1>h
<1>6. w > 0 => (w - 1) * Hop + 1 <= BatchSize
  <2> SUFFICES ASSUME w > 0 PROVE (w - 1) * Hop + 1 <= BatchSize
    OBVIOUS
  <2>1. (w - 1) * Hop \in Int
    <3> HIDE DEF Hop
    <3> QED BY <1>h
  <2>2. src.first - dataInfo.offset <= BatchSize
    BY <1>2, <1>3 DEF BatchInTime
  <2> HIDE DEF BatchSize, Hop
  <2> QED BY <1>1, <1>2, <1>3, <2>1, <2>2
<1>7. w > 0 => w <= MostWindows
  BY <1>3, <1>4, <1>6, HopsInBatch
<1>8. w <= MostWindows
  <2> HIDE DEF BatchSize, Hop
  <2> QED BY <1>4, <1>5, <1>7
<1>9. w \in 0 .. MostWindows
  <2> HIDE DEF BatchSize, Hop
  <2> QED BY <1>4, <1>5, <1>8
<1> QED BY <1>1, <1>9

\* The samples put in the window have handles near their times.
LEMMA HandlesNear ==
  ASSUME CountIInv, TimesIInv, processing, NEW count \in 0 .. Bins - filled
  PROVE  /\ FilledRaw(count) \in Seq(RawHandles)
         /\ Len(FilledRaw(count)) = Bins
         /\ \A j \in 1 .. filled + count : Near(FilledRaw(count)[j].time, offset * Hop + j - 1)
<1> DEFINE in == [j \in 1 .. count |-> [mark |-> RawMarkAfter(j), time |-> AddSamples(src.time, j - 1)]]
           base == offset * Hop
           old == SubSeq(windowRaw, 1, filled)
           rest == SubSeq(windowRaw, filled + count + 1, Bins)
<1>1. filled \in 0 .. Bins - 1 /\ src.first \in Nat /\ src.time \in Int /\ Bins \in Nat /\ offset \in Nat
  BY HopPositive DEF CountIInv, CountTypeOK
<1>2. base \in Nat
  BY <1>1, RowsApart
<1>3. src.first = base + filled
  BY DEF CountIInv, InStep, NextSample
<1>4. FilledRaw(count) = old \o in \o rest
  BY DEF FilledRaw
<1>5. in \in Seq(RawHandles) /\ Len(in) = count
      /\ \A j \in 1 .. count : in[j].time = AddSamples(src.time, j - 1)
  <2>1. \A j \in 1 .. count : RawMarkAfter(j) \in Int
    <3> TAKE j \in 1 .. count
    <3>1. rawMark + j \in Int /\ RawCapacity \in Nat \ {0}
      BY FFTSizes DEF TimesIInv
    <3> QED BY <3>1 DEF RawMarkAfter
  <2>2. \A j \in 1 .. count : AddSamples(src.time, j - 1) \in Int
    <3> TAKE j \in 1 .. count
    <3>1. j - 1 \in Nat
      BY <1>1
    <3> QED BY <3>1, <1>1, TimesAreInt
  <2>3. \A j \in 1 .. count : [mark |-> RawMarkAfter(j), time |-> AddSamples(src.time, j - 1)] \in RawHandles
    BY <2>1, <2>2 DEF RawHandles
  <2>4. count \in Nat
    BY <1>1
  <2> HIDE DEF RawHandles
  <2>5. in \in Seq(RawHandles) /\ Len(in) = count
    BY <2>3, <2>4
  <2> QED BY <2>5
<1>6. windowRaw \in Seq(RawHandles) /\ Len(windowRaw) = Bins
      /\ \A j \in 1 .. filled : Near(windowRaw[j].time, base + j - 1)
  BY DEF TimesIInv
<1>7. \A j \in 1 .. count : Near(in[j].time, src.first + j - 1)
  <2> TAKE j \in 1 .. count
  <2>1. PICK w \in 0 .. MostWindows : src.time \in Us(src.first) - w .. Us(src.first)
    BY FewWindows DEF TimesIInv
  <2>2. j - 1 \in Nat /\ w \in Nat /\ w <= MostWindows /\ MostWindows \in Int
    <3>1. Hop \in Nat \ {0} /\ BatchSize \in Nat
      BY HopPositive, RawStreamSizes DEF BatchSize
    <3>2. BatchSize \div Hop \in Int
      <4> HIDE DEF BatchSize, Hop
      <4> QED BY <3>1
    <3>3. MostWindows \in Int
      BY <3>2 DEF MostWindows, BatchSize
    <3> QED BY <1>1, <3>3
  <2>3. AddSamples(src.time, j - 1) \in Us(src.first + (j - 1)) - (w + 1) .. Us(src.first + (j - 1))
    BY <1>1, <2>1, <2>2, LaterClose
  <2>4. src.first + (j - 1) = src.first + j - 1
    BY <1>1
  <2>5. Us(src.first + j - 1) \in Nat
    <3>1. src.first + j - 1 \in Nat
      BY <1>1
    <3> QED BY <3>1, RestOfUs
  <2>6. in[j].time = AddSamples(src.time, j - 1)
    BY <1>5
  <2> HIDE DEF Us, in
  <2>7. in[j].time \in Us(src.first + j - 1) - (w + 1) .. Us(src.first + j - 1)
    BY <2>3, <2>4, <2>6
  <2> QED BY <2>2, <2>5, <2>7 DEF Near
<1> HIDE DEF in, base, old, rest
<1>8. old \in Seq(RawHandles) /\ Len(old) = filled /\ \A j \in 1 .. filled : old[j] = windowRaw[j]
  <2>1. /\ old \in Seq(RawHandles)
        /\ Len(old) = filled - 1 + 1
        /\ \A j \in 1 .. filled - 1 + 1 : old[j] = windowRaw[1 + j - 1]
    BY <1>1, <1>6, PieceOf DEF old
  <2> QED BY <1>1, <2>1
<1>9. rest \in Seq(RawHandles) /\ Len(rest) = Bins - filled - count
  <2>1. filled + count + 1 \in Nat \ {0} /\ filled + count + 1 <= Bins + 1
    BY <1>1
  <2>2. rest \in Seq(RawHandles) /\ Len(rest) = Bins - (filled + count + 1) + 1
    BY <2>1, <1>1, <1>6, PieceOf DEF rest
  <2> QED BY <2>2, <1>1
<1> DEFINE new == old \o in
<1>10. /\ new \in Seq(RawHandles) /\ Len(new) = filled + count
       /\ \A j \in 1 .. filled : new[j] = old[j]
       /\ \A j \in filled + 1 .. filled + count : new[j] = in[j - filled]
  <2>1. /\ new \in Seq(RawHandles)
        /\ Len(new) = Len(old) + Len(in)
        /\ \A j \in 1 .. Len(old) : new[j] = old[j]
        /\ \A j \in Len(old) + 1 .. Len(old) + Len(in) : new[j] = in[j - Len(old)]
    BY <1>5, <1>8, OneAfterOther
  <2> QED BY <2>1, <1>5, <1>8
<1> HIDE DEF new
<1>11. /\ new \o rest \in Seq(RawHandles) /\ Len(new \o rest) = Bins
       /\ \A j \in 1 .. filled + count : (new \o rest)[j] = new[j]
  <2>1. /\ new \o rest \in Seq(RawHandles)
        /\ Len(new \o rest) = Len(new) + Len(rest)
        /\ \A j \in 1 .. Len(new) : (new \o rest)[j] = new[j]
    BY <1>9, <1>10, OneAfterOther
  <2> QED BY <2>1, <1>1, <1>9, <1>10
<1>12. \A j \in 1 .. filled + count : Near(new[j].time, base + j - 1)
  <2> SUFFICES ASSUME NEW j \in 1 .. filled + count
               PROVE  Near(new[j].time, base + j - 1)
    OBVIOUS
  <2>1. CASE j <= filled
    BY <2>1, <1>1, <1>6, <1>8, <1>10
  <2>2. CASE j > filled
    <3>1. j - filled \in 1 .. count /\ j \in filled + 1 .. filled + count
      BY <2>2, <1>1
    <3>2. Near(new[j].time, src.first + (j - filled) - 1)
      BY <3>1, <1>7, <1>10
    <3>3. src.first + (j - filled) - 1 = base + j - 1
      BY <1>1, <1>2, <1>3
    <3> QED BY <3>2, <3>3
  <2> QED BY <2>1, <2>2, <1>1
<1>13. FilledRaw(count) = new \o rest
  BY <1>4 DEF new
<1> QED BY <1>11, <1>12, <1>13 DEF base

\* Nothing has been rounded at the start.
LEMMA TimesInit == RawInit => TimesIInv
<1> SUFFICES ASSUME RawInit PROVE TimesIInv
  OBVIOUS
<1>1. /\ rawMark = 0 /\ windowRaw = [j \in 1 .. Bins |-> NoHandle] /\ filled = 0
      /\ dataInfo = [offset |-> 0, time |-> 0] /\ processing = FALSE /\ offset = 0
  BY DEF RawInit, FFTInit
<1>2. windowRaw \in Seq(RawHandles) /\ Len(windowRaw) = Bins
  <2>1. NoHandle \in RawHandles /\ Bins \in Nat
    BY FFTSizes DEF NoHandle, RawHandles
  <2> QED BY <1>1, <2>1
<1>3. Us(0) = 0
  <2>1. Us(0) + Us(0) \in Us(0 + 0) - 1 .. Us(0 + 0) /\ Us(0) \in Nat
    BY UsOfSum, RestOfUs
  <2> HIDE DEF Us
  <2> QED BY <2>1
<1> HIDE DEF Us
<1>4. \A j \in 1 .. filled : FALSE
  BY <1>1
<1>5. \A j \in 1 .. filled : Near(windowRaw[j].time, offset * Hop + j - 1)
  BY <1>4
<1>6. dataInfo.time = Us(dataInfo.offset) /\ rawMark \in Int /\ ~processing /\ ~(offset > 0)
  BY <1>1, <1>3
<1> QED BY <1>2, <1>5, <1>6 DEF TimesIInv

\* A window completed rounds its batch's time once more, and its row has the
\* time of the first handle.
LEMMA TimesOfWindow ==
  ASSUME CountIInv, TimesIInv, CompleteWindow
  PROVE  TimesIInv'
<1> DEFINE count == Bins - filled
           raw == FilledRaw(count)
<1>h. Bins \in Nat /\ BinOverlap \in 0 .. Bins - 1 /\ Hop \in 1 .. Bins /\ Bins = Hop + BinOverlap
  BY HopPositive
<1>t. /\ filled \in 0 .. Bins - 1 /\ offset \in Nat
      /\ src.first \in Nat /\ src.size \in Nat /\ src.time \in Int /\ dataInfo.offset \in Nat
  BY DEF CountIInv, CountTypeOK
<1>1. count \in 0 .. Bins - filled /\ filled + count = Bins /\ count >= 1 /\ count \in Nat
      /\ src.size >= count
  BY <1>t, <1>h DEF CompleteWindow
<1>2. processing /\ processing'
  BY DEF CompleteWindow
<1>3. /\ raw \in Seq(RawHandles) /\ Len(raw) = Bins
      /\ \A j \in 1 .. Bins : Near(raw[j].time, offset * Hop + j - 1)
  BY <1>1, <1>2, HandlesNear
<1>4. /\ windowRaw' = MovedDown(raw) /\ filled' = BinOverlap /\ offset' = offset + 1
      /\ row'.time = raw[1].time /\ dataInfo' = dataInfo
      /\ src' = [first |-> src.first + count, size |-> src.size - count,
                 time |-> AddSamples(src.time, count)]
      /\ rawMark' = (rawMark + count) % RawCapacity
  BY DEF CompleteWindow, NextTime, RawMarkAfter
<1> HIDE DEF raw, count
<1>5. /\ windowRaw' \in Seq(RawHandles) /\ Len(windowRaw') = Bins
      /\ \A j \in 1 .. BinOverlap : windowRaw'[j] = raw[Hop + j]
  BY <1>3, <1>4, MovedDownOverlap
<1>6. offset * Hop \in Nat /\ (offset + 1) * Hop = offset * Hop + Hop
  BY <1>t, RowsApart
<1>7. \A j \in 1 .. filled' : Near(windowRaw'[j].time, offset' * Hop + j - 1)
  <2> SUFFICES ASSUME NEW j \in 1 .. BinOverlap
               PROVE  Near(windowRaw'[j].time, (offset + 1) * Hop + j - 1)
    BY <1>4
  <2> HIDE DEF Hop, BinOverlap
  <2>1. Hop + j \in 1 .. Bins
    BY <1>h
  <2>2. Near(windowRaw'[j].time, offset * Hop + (Hop + j) - 1)
    BY <2>1, <1>3, <1>5
  <2>3. offset * Hop + (Hop + j) - 1 = (offset + 1) * Hop + j - 1
    BY <1>h, <1>6
  <2> QED BY <2>2, <2>3
<1>8. Near(row'.time, (offset' - 1) * Hop)
  <2>1. 1 \in 1 .. Bins /\ offset' - 1 = offset
    BY <1>h, <1>t, <1>4
  <2>2. Near(raw[1].time, offset * Hop + 1 - 1)
    BY <2>1, <1>3
  <2>3. offset * Hop + 1 - 1 = offset * Hop
    BY <1>6
  <2> HIDE DEF Hop
  <2> QED BY <2>1, <2>2, <2>3, <1>4
<1>9. rawMark' \in Int
  <2>1. rawMark + count \in Int /\ RawCapacity \in Nat \ {0}
    BY <1>1, FFTSizes DEF TimesIInv
  <2> QED BY <2>1, <1>4
<1>10. BatchInTime'
  <2>b. BatchInTime
    BY <1>2 DEF TimesIInv
  <2>1. PICK w \in Nat :
          /\ src.time \in Us(src.first) - w .. Us(src.first)
          /\ w > 0 => filled = BinOverlap /\ (w - 1) * Hop + 1 <= src.first - dataInfo.offset
    BY <2>b DEF BatchInTime
  <2>2. src'.time \in Us(src'.first) - (w + 1) .. Us(src'.first)
    <3>1. AddSamples(src.time, count) \in Us(src.first + count) - (w + 1) .. Us(src.first + count)
      BY <1>1, <1>t, <2>1, LaterClose
    <3>2. src'.time = AddSamples(src.time, count) /\ src'.first = src.first + count
      BY <1>4
    <3> HIDE DEF Us
    <3> QED BY <3>1, <3>2
  <2>3. (w + 1 - 1) * Hop + 1 <= src'.first - dataInfo'.offset
    <3>1. src'.first - dataInfo'.offset = src.first - dataInfo.offset + count
      BY <1>1, <1>t, <1>4
    <3>2. w + 1 - 1 = w /\ src.first >= dataInfo.offset
      BY <2>b DEF BatchInTime
    <3>3. CASE w = 0
      <4>1. w * Hop = 0
        <5> HIDE DEF Hop
        <5> QED BY <1>h, <3>3
      <4> HIDE DEF Hop
      <4> QED BY <3>1, <3>2, <4>1, <1>1, <1>t
    <3>4. CASE w > 0
      <4>1. w - 1 \in Nat /\ (w - 1) + 1 = w
        BY <3>4
      <4>2. (w - 1) * Hop \in Nat /\ ((w - 1) + 1) * Hop = (w - 1) * Hop + Hop
        BY <4>1, RowsApart
      <4>3. count = Hop
        BY <2>1, <3>4, <1>1, <1>h
      <4> HIDE DEF Hop
      <4> QED BY <2>1, <3>1, <3>2, <3>4, <4>1, <4>2, <4>3, <1>1, <1>t
    <3> QED BY <3>3, <3>4
  <2>4. src'.first >= dataInfo'.offset /\ src'.first + src'.size <= dataInfo'.offset + BatchSize
    <3>1. src'.first = src.first + count /\ src'.size = src.size - count /\ dataInfo'.offset = dataInfo.offset
      BY <1>4
    <3>2. src.first >= dataInfo.offset /\ src.first + src.size <= dataInfo.offset + BatchSize
      BY <2>b DEF BatchInTime
    <3> HIDE DEF BatchSize
    <3> QED BY <3>1, <3>2, <1>1, <1>t
  <2>5. w + 1 \in Nat
    OBVIOUS
  <2>6. filled' = BinOverlap
    BY <1>4
  <2> HIDE DEF Hop, BinOverlap, Us, BatchSize
  <2>7. \E v \in Nat :
           /\ src'.time \in Us(src'.first) - v .. Us(src'.first)
           /\ v > 0 => filled' = BinOverlap /\ (v - 1) * Hop + 1 <= src'.first - dataInfo'.offset
    BY <2>2, <2>3, <2>5, <2>6
  <2> QED BY <2>4, <2>7 DEF BatchInTime, Us, Hop, BinOverlap, BatchSize
<1>11. dataInfo'.time = Us(dataInfo'.offset)
  BY <1>4 DEF TimesIInv
<1>12. offset' > 0 => Near(row'.time, (offset' - 1) * Hop)
  BY <1>8
<1> QED BY <1>5, <1>7, <1>9, <1>10, <1>11, <1>12 DEF TimesIInv, Near, MostWindows, Hop, Us, BinOverlap

\* The time of the next batch is worked out afresh from the samples so far.
LEMMA TimesOfRest ==
  ASSUME CountIInv, TimesIInv, KeepRest
  PROVE  TimesIInv'
<1>t. /\ filled \in 0 .. Bins - 1 /\ offset \in Nat /\ Bins \in Nat
      /\ src.first \in Nat /\ src.size \in Nat
  BY HopPositive DEF CountIInv, CountTypeOK
<1>1. src.size \in 0 .. Bins - filled /\ processing
  BY <1>t DEF KeepRest
<1>2. /\ FilledRaw(src.size) \in Seq(RawHandles) /\ Len(FilledRaw(src.size)) = Bins
      /\ \A j \in 1 .. filled + src.size : Near(FilledRaw(src.size)[j].time, offset * Hop + j - 1)
  BY <1>1, HandlesNear
<1>3. /\ windowRaw' = FilledRaw(src.size) /\ filled' = filled + src.size /\ offset' = offset
      /\ dataInfo' = [offset |-> src.first + src.size, time |-> Us(src.first + src.size)]
      /\ ~processing' /\ row' = row /\ rawMark' = (rawMark + src.size) % RawCapacity
  BY DEF KeepRest, MarkMoved, RawMarkAfter, Us
<1>4. rawMark' \in Int
  <2>1. rawMark + src.size \in Int /\ RawCapacity \in Nat \ {0}
    BY <1>t, FFTSizes DEF TimesIInv
  <2> QED BY <2>1, <1>3
<1>5. windowRaw' \in Seq(RawHandles) /\ Len(windowRaw') = Bins
      /\ \A j \in 1 .. filled' : Near(windowRaw'[j].time, offset' * Hop + j - 1)
  BY <1>2, <1>3
<1>6. dataInfo'.time = Us(dataInfo'.offset)
  BY <1>3
<1>7. offset' > 0 => Near(row'.time, (offset' - 1) * Hop)
  BY <1>3 DEF TimesIInv
<1> QED BY <1>3, <1>4, <1>5, <1>6, <1>7 DEF TimesIInv, Near, MostWindows, Hop, Us, BinOverlap

\* Times stay near whatever the frontend does.
LEMMA TimesStep ==
  ASSUME CountIInv, TimesIInv, [RawNext]_rawVars
  PROVE  TimesIInv'
<1>1. CASE UNCHANGED fftVars
  <2>1. UNCHANGED <<filled, windowRaw, rawMark, dataInfo, src, processing, offset, row>>
    BY <1>1 DEF fftVars
  <2> QED BY <2>1 DEF TimesIInv, BatchInTime, Near, MostWindows, BatchSize, Hop, Us, BinOverlap
<1>2. CASE Read
  <2>1. PICK bytes \in 1 .. BufferBytes : Process(bytes \div SampleBytes)
    BY <1>2 DEF Read
  <2> DEFINE size == bytes \div SampleBytes
  <2>2. size \in Nat /\ size <= BatchSize
    <3>1. bytes \in Nat /\ BufferBytes \in Nat /\ SampleBytes \in Nat \ {0} /\ bytes <= BufferBytes
      BY RawStreamSizes
    <3> QED BY <3>1 DEF BatchSize
  <2>3. /\ ~processing /\ processing'
        /\ src' = [first |-> dataInfo.offset, size |-> size, time |-> dataInfo.time]
        /\ UNCHANGED <<filled, windowRaw, rawMark, dataInfo, offset, row>>
    BY <2>1 DEF Process
  <2> HIDE DEF size
  <2>4. dataInfo.offset \in Nat /\ dataInfo.time = Us(dataInfo.offset) /\ Us(dataInfo.offset) \in Nat
    BY RestOfUs DEF TimesIInv, CountIInv, CountTypeOK
  <2>5. BatchInTime'
    <3>1. src'.first >= dataInfo'.offset /\ src'.first + src'.size <= dataInfo'.offset + BatchSize
      <4>1. BatchSize \in Nat
        BY RawStreamSizes DEF BatchSize
      <4> HIDE DEF BatchSize
      <4> QED BY <4>1, <2>2, <2>3, <2>4
    <3>2. src'.time \in Us(src'.first) - 0 .. Us(src'.first)
      <4> HIDE DEF Us
      <4> QED BY <2>3, <2>4
    <3> HIDE DEF Hop, BinOverlap, Us, BatchSize
    <3>3. \E v \in Nat :
             /\ src'.time \in Us(src'.first) - v .. Us(src'.first)
             /\ v > 0 => filled' = BinOverlap /\ (v - 1) * Hop + 1 <= src'.first - dataInfo'.offset
      <4>1. 0 \in Nat /\ ~(0 > 0)
        OBVIOUS
      <4> QED BY <3>2, <4>1
    <3> QED BY <3>1, <3>3 DEF BatchInTime, Us, Hop, BinOverlap, BatchSize
  <2>6. /\ rawMark' \in Int
        /\ windowRaw' \in Seq(RawHandles) /\ Len(windowRaw') = Bins
        /\ \A j \in 1 .. filled' : Near(windowRaw'[j].time, offset' * Hop + j - 1)
        /\ dataInfo'.time = Us(dataInfo'.offset)
        /\ offset' > 0 => Near(row'.time, (offset' - 1) * Hop)
    BY <2>3 DEF TimesIInv
  <2> QED BY <2>5, <2>6 DEF TimesIInv, Near, MostWindows, Hop, Us, BinOverlap
<1> QED
  BY <1>1, <1>2, TimesOfWindow, TimesOfRest
  DEF RawNext, rawVars, Stop, LoopAgain, ReadEnds, Window, Processed

\* However the stream is cut into reads and for every rate and window, a row's
\* time is never late, and at most one microsecond early for each window its
\* batch can fill and one more (FFTBackend.cpp:219-225, 255).
THEOREM RowTimesStayClose == RawSpec => []RowTimesClose
<1>1. RawInit => TimesIInv
  BY TimesInit
<1>2. CountIInv /\ TimesIInv /\ [RawNext]_rawVars => TimesIInv'
  BY TimesStep
<1>3. TimesIInv => RowTimesClose
  BY DEF TimesIInv, RowTimesClose, RowTimeClose, Near, Us
<1> QED BY <1>1, <1>2, <1>3, CountsInStep, PTL DEF RawSpec
=============================================================================
