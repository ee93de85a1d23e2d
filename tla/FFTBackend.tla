----------------------------- MODULE FFTBackend -----------------------------
(***************************************************************************)
(* FFTBackend of src/src/FFTBackend.cpp: the window that is filled with    *)
(* incoming samples, handed to the FFT when it is full, and moved on; the  *)
(* raw marks and times kept beside it; and Frontend::process() of          *)
(* src/src/Frontend.cpp, which hands it the samples in batches.            *)
(*                                                                         *)
(* Samples are numbered in the order they are handed over.  The FFT itself *)
(* is left out: a row is the window it is computed from.  A time is a      *)
(* number of microseconds since the stream began.                          *)
(***************************************************************************)
EXTENDS IQGainPhaseCorrection

CONSTANTS Bins,         \* bins_
          Overlap,      \* the overlap asked of the constructor
          RawCapacity,  \* capacity of rawBuffer_ in samples
          SampleRate,   \* streamInfo_.sampleRate
          UsInSecond    \* US_IN_SECOND

ASSUME FFTSizes ==
  /\ Bins \in Nat \ {0}
  /\ Overlap \in Int
  /\ RawCapacity \in Nat \ {0}
  /\ SampleRate \in Nat \ {0}
  /\ UsInSecond \in Nat \ {0}

\* The constructor's limits on binOverlap_.
BinOverlap == IF Overlap < 0 THEN 0 ELSE IF Overlap >= Bins THEN Bins - 1 ELSE Overlap

Hop == Bins - BinOverlap

VARIABLES window,     \* window_, of Bins samples
          filled,     \* inMark_ - window_
          windowRaw,  \* windowRaw_, the raw mark and time of each sample of the window
          line,       \* correction_.buffer_
          rawMark,    \* rawBuffer_.mark()
          dataInfo,   \* Frontend::dataInfo_, [offset, time]
          src,        \* the samples of the batch not looked at yet, [first, size, time]
          processing, \* process() is running
          offset,     \* info_.offset
          row         \* what processFFT() was last given, [samples, time, mark]

fftVars == <<window, filled, windowRaw, line, rawMark, dataInfo, src, processing, offset, row>>

NoSample == [i |-> Unknown, q |-> Unknown]
NoHandle == [mark |-> 0, time |-> 0]
NoBatch  == [first |-> 0, size |-> 0, time |-> 0]
NoRow    == [samples |-> << >>, time |-> 0, mark |-> 0]

Handles == [mark : 0 .. RawCapacity - 1, time : Nat]

FFTTypeOK ==
  /\ window \in Seq([i : Int, q : Int]) /\ Len(window) = Bins
  /\ filled \in 0 .. Bins - 1
  /\ windowRaw \in Seq(Handles) /\ Len(windowRaw) = Bins
  /\ line \in [items : [0 .. PhaseShift - 1 -> Int], head : Nat]
  /\ rawMark \in 0 .. RawCapacity - 1
  /\ dataInfo \in [offset : Nat, time : Nat]
  /\ src \in [first : Nat, size : Nat, time : Nat]
  /\ processing \in BOOLEAN
  /\ offset \in Nat
  /\ row \in [samples : Seq([i : Int, q : Int]), time : Nat, mark : 0 .. RawCapacity - 1]

\* WFTime::addSamples(): whole seconds, and the rest rounded down.
AddSamples(time, count) ==
  time + (count \div SampleRate) * UsInSecond
       + ((count % SampleRate) * UsInSecond) \div SampleRate

\* Sample number n of the stream.
Sample(n) == [i |-> n, q |-> n]

Samples(first, count) == [j \in 1 .. count |-> Sample(first + j - 1)]

\* startStream() on a new backend.
FFTInit ==
  /\ window = [j \in 1 .. Bins |-> NoSample]
  /\ filled = 0
  /\ windowRaw = [j \in 1 .. Bins |-> NoHandle]
  /\ line = EmptyLine
  /\ rawMark = 0
  /\ dataInfo = [offset |-> 0, time |-> 0]
  /\ src = NoBatch
  /\ processing = FALSE
  /\ offset = 0
  /\ row = NoRow

-----------------------------------------------------------------------------
(* process().                                                              *)

\* Frontend::process() calls it with a batch of this size.
Process(size) ==
  /\ ~processing
  /\ processing' = TRUE
  /\ src' = [first |-> dataInfo.offset, size |-> size, time |-> dataInfo.time]
  /\ UNCHANGED <<window, filled, windowRaw, line, rawMark, dataInfo, offset, row>>

\* The window and its handles when the next count samples have been put in.
Filled(count) ==
  LET in == Samples(src.first, count)
  IN  SubSeq(window, 1, filled)
        \o Corrected(line, in, SubSeq(window, filled + 1, filled + count))
        \o SubSeq(window, filled + count + 1, Bins)

\* A faulty push() of the raw buffer that does not wrap its mark.
RawMarkUnwrapped(count) == rawMark + count

RawMarkAfter(count) == (rawMark + count) % RawCapacity

FilledRaw(count) ==
  SubSeq(windowRaw, 1, filled)
    \o [j \in 1 .. count |-> [mark |-> RawMarkAfter(j),
                              time |-> AddSamples(src.time, j - 1)]]
    \o SubSeq(windowRaw, filled + count + 1, Bins)

\* A faulty process() that leaves the overlap at the end of the window.
LeftInPlace(seq) == seq

\* memmove() of the overlap to the beginning.
MovedDown(seq) == SubSeq(seq, Bins - BinOverlap + 1, Bins) \o SubSeq(seq, BinOverlap + 1, Bins)

\* A faulty process() that gives every window of a batch the batch's time.
SameTime(time, count) == time

NextTime(time, count) == AddSamples(time, count)

\* One turn of the loop.  The row's time is read before the overlap is moved
\* down, its raw mark after.
CompleteWindow ==
  /\ processing
  /\ src.size >= Bins - filled
  /\ LET count == Bins - filled
         raw == FilledRaw(count)
     IN  /\ window' = MovedDown(Filled(count))
         /\ windowRaw' = MovedDown(raw)
         /\ line' = LineAfter(line, Samples(src.first, count))
         /\ rawMark' = RawMarkAfter(count)
         /\ src' = [first |-> src.first + count, size |-> src.size - count,
                    time |-> NextTime(src.time, count)]
         /\ row' = [samples |-> Filled(count), time |-> raw[1].time,
                    mark |-> MovedDown(raw)[1].mark]
  /\ filled' = BinOverlap
  /\ offset' = offset + 1
  /\ UNCHANGED <<dataInfo, processing>>

\* A faulty process() that leaves the mark where it was.
MarkKept(count) == filled

MarkMoved(count) == filled + count

\* The rest of the batch is kept for the next one, and Frontend::process()
\* moves on.
KeepRest ==
  /\ processing
  /\ src.size < Bins - filled
  /\ window' = Filled(src.size)
  /\ windowRaw' = FilledRaw(src.size)
  /\ line' = LineAfter(line, Samples(src.first, src.size))
  /\ rawMark' = RawMarkAfter(src.size)
  /\ filled' = MarkMoved(src.size)
  /\ dataInfo' = [offset |-> src.first + src.size,
                  time |-> AddSamples(0, src.first + src.size)]
  /\ src' = NoBatch
  /\ processing' = FALSE
  /\ UNCHANGED <<offset, row>>

-----------------------------------------------------------------------------
(* Properties.                                                             *)

\* How many samples have been handed over.
Arrived == IF processing THEN src.first + src.size ELSE dataInfo.offset

Windows == INSTANCE SlidingWindow WITH
  arrived <- Arrived, made <- offset, latest <- row.samples

\* Rows are the windows they should be: no sample is skipped, repeated or
\* stale, however the stream is cut into batches (FFTBackend.cpp:211-273).
IsSlidingWindow == Windows!Spec

\* Between two batches there is a row for every whole window that has
\* arrived (the loop's condition, FFTBackend.cpp:211).
NoRowWaits ==
  ~processing => offset * Hop + Bins > dataInfo.offset

\* A row's time is never later than its first sample's and at most one
\* microsecond early for each window its batch can fill and one for the
\* sample's own place in it: rounding does not build up over the stream
\* (FFTBackend.cpp:219-225, 255 with Frontend.cpp:46-51).
RowTimeClose(mostWindows) ==
  offset > 0 =>
    row.time \in AddSamples(0, (offset - 1) * Hop) - mostWindows - 1
                   .. AddSamples(0, (offset - 1) * Hop)

\* A raw handle's mark "points to a row" of rawBuffer_ (FFTBackend.h:44), and a
\* raw file, which begins at the mark of one handle, is stamped with the time of
\* that handle as "unix time of the first IQ sample in this file in ms"
\* (WaterfallBackend.cpp:247): the mark that goes with a row's time is the
\* place of the row's first sample.
RawMarkIsFirstSample ==
  offset > 0 => row.mark = ((offset - 1) * Hop) % RawCapacity

\* With a phase shift, I comes from the sample and Q from the one PhaseShift
\* before (the drawing at FFTBackend.cpp:37-52).
PhaseShiftDelaysQ ==
  \A j \in 1 .. Len(row.samples) :
    LET n == (offset - 1) * Hop + j - 1
    IN  row.samples[j].i = n /\ (n >= PhaseShift => row.samples[j].q = n - PhaseShift)
=============================================================================
