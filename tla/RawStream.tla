----------------------------- MODULE RawStream -----------------------------
(***************************************************************************)
(* RawStream::runFromFD() of src/src/RawStream.cpp, which reads I/Q        *)
(* samples from a file, a pipe or a socket and hands them to FFTBackend,   *)
(* and stop(), which a signal handler calls at any moment.                 *)
(*                                                                         *)
(* read() may return any number of bytes up to the buffer's size.          *)
(***************************************************************************)
EXTENDS FFTBackend

CONSTANTS SampleBytes,  \* sizeof(float) * 2
          BufferBytes,  \* rawBufferSize
          MaxBytes      \* bound on the bytes of the stream

ASSUME RawStreamSizes ==
  /\ SampleBytes \in Nat \ {0}
  /\ BufferBytes \in Nat \ {0}
  /\ MaxBytes \in Nat

VARIABLES input,      \* where run() is
          stopping,   \* stopping_
          consumed,   \* how many bytes have been read
          begun       \* how many had been before the latest read: a history

rawVars == <<fftVars, input, stopping, consumed, begun>>

RawInit ==
  /\ FFTInit
  /\ input = "looping"
  /\ stopping = FALSE
  /\ consumed = 0
  /\ begun = 0

Stop ==
  /\ ~stopping
  /\ stopping' = TRUE
  /\ UNCHANGED <<fftVars, input, consumed, begun>>

LoopAgain ==
  /\ input = "looping"
  /\ input' = IF stopping THEN "ended" ELSE "reading"
  /\ UNCHANGED <<fftVars, stopping, consumed, begun>>

\* Bytes that do not make up a sample are dropped.
Read ==
  /\ input = "reading"
  /\ \E bytes \in 1 .. BufferBytes :
        /\ consumed + bytes <= MaxBytes
        /\ consumed' = consumed + bytes
        /\ begun' = consumed
        /\ Process(bytes \div SampleBytes)
  /\ input' = "processing"
  /\ UNCHANGED stopping

\* The end of the file, or an error.
ReadEnds ==
  /\ input = "reading"
  /\ input' = "ended"
  /\ UNCHANGED <<fftVars, stopping, consumed, begun>>

Window ==
  /\ CompleteWindow
  /\ UNCHANGED <<input, stopping, consumed, begun>>

Processed ==
  /\ KeepRest
  /\ input' = "looping"
  /\ UNCHANGED <<stopping, consumed, begun>>

RawNext ==
  \/ Stop
  \/ LoopAgain
  \/ Read
  \/ ReadEnds
  \/ Window
  \/ Processed

RawSpec == RawInit /\ [][RawNext]_rawVars

-----------------------------------------------------------------------------
(* Properties.                                                             *)

\* The most windows a batch can fill: the first may need only one sample.
MostWindows == (BufferBytes \div SampleBytes) \div Hop + 1

\* RowTimeClose for the batches this frontend makes.
RowTimesClose == RowTimeClose(MostWindows)

\* RawStream is the "Frontend class that reads raw I/Q samples from a file"
\* (RawStream.h:30): the samples of a batch are samples of the file, so a
\* batch begins where a sample does (RawStream.cpp:57 drops the rest of one).
FramesKept ==
  (processing /\ src.size > 0) => begun % SampleBytes = 0
=============================================================================
