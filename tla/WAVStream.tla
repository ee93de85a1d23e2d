------------------------------ MODULE WAVStream ------------------------------
(***************************************************************************)
(* The frontend that reads a WAV file: WAVStream::run() of                 *)
(* src/src/WAVStream.cpp, with readSubchunk() and what it calls.           *)
(*                                                                         *)
(* A file is its subchunks, and a data subchunk's frames are numbered from *)
(* 1, so that a frame out of place shows.  Only the form the program can   *)
(* read is modelled: a first subchunk "fmt " of 16 bytes, stereo, 16 bits  *)
(* (or another number of bits, which it refuses), even sizes, one data     *)
(* subchunk, a text whose length is an int; the size in the header may be  *)
(* any.  The walk takes 4 bytes for a subchunk's header, which has 8, so   *)
(* run() goes on after the end of the file.  There a read changes nothing: *)
(* a string is the one read last, a scalar is not initialised.             *)
(***************************************************************************)
EXTENDS Integers, Sequences

CONSTANTS
  Files,     \* the files there may be
  Buffer,    \* dataBufferSize_, in frames
  Half,      \* 2^31: what is neither an int nor minus one, half of the uint32s
  Leftovers  \* what an uninitialised size may be

FrameBytes == 4 \* blockAlign: two channels of 16 bits

Ids == {"fmt", "inf1", "data", "other"}

Sizes == 0..(2 * Half - 1)

DataSubchunks(f) == {n \in DOMAIN f.chunks : f.chunks[n].id = "data"}

ASSUME WAVAssumption ==
  /\ Buffer \in Nat \ {0}
  /\ Half \in Nat /\ Half > 4
  /\ Leftovers \subseteq Sizes
  /\ \A f \in Files :
       /\ {f.riff, f.bits16} \subseteq BOOLEAN
       /\ f.header \in Sizes
       /\ f.chunks \in Seq([id : Ids, size : Sizes])
       /\ \A n \in DOMAIN f.chunks : f.chunks[n].id = "inf1" => f.chunks[n].size < Half
       /\ \A m, n \in DataSubchunks(f) : m = n

VARIABLES
  file,       \* the file read
  walk,       \* where run() is
  at,         \* which subchunk has been read; one more than there are at the end
  remaining,  \* chunkSize
  lastId,     \* what stringBuffer_ holds
  size,       \* size, of the subchunk being read
  left,       \* the bytes of a data subchunk still to be asked for
  dataRead,   \* dataRead_
  dataBuffer, \* dataBuffer_, in frames
  frame,      \* how many frames have been read
  delivered,  \* history: the frames process() was given, until they are too many
  stream      \* history: what the backend knows of the stream

wavVars == <<file, walk, at, remaining, lastId, size, left, dataRead, dataBuffer, frame,
             delivered, stream>>

Frames(f) ==
  LET data == DataSubchunks(f)
  IN  IF data = {} THEN 0 ELSE f.chunks[CHOOSE n \in data : TRUE].size \div FrameBytes

\* The bytes of each number of subchunks from the first, with their headers.
Bytes(f) ==
  LET upTo[n \in 0..Len(f.chunks)] == IF n = 0 THEN 0 ELSE upTo[n - 1] + f.chunks[n].size + 8
  IN  upTo

\* The size the RIFF header gives, less the four bytes of "WAVE".
RiffSize(f) == f.header - 4

\* What an int holds that is given n, an int64 of at most 2 * Half + 3.
ToInt(n) == IF n < Half THEN n ELSE n - 2 * Half

\* A frame behind the end of dataBuffer_.
Beyond == -1

WAVTypeOK ==
  /\ file \in Files
  /\ walk \in {"opening", "subchunks", "buffers", "leaving", "returned"}
  /\ at \in 0..(Len(file.chunks) + 1)
  /\ remaining \in Int
  /\ lastId \in Ids \cup {"RIFF", "text"}
  /\ {size, left} \subseteq Sizes
  /\ frame \in Nat
  /\ dataRead \in BOOLEAN
  /\ dataBuffer \in [1..Buffer -> 0..Frames(file)]
  /\ delivered \in Seq(0..Frames(file) \cup {Beyond})
  /\ stream \in {"none", "open", "ended"}

WAVInit ==
  /\ file \in Files
  /\ walk = "opening"
  /\ at = 0
  /\ remaining = 0
  /\ lastId = "RIFF"
  /\ size = 0
  /\ left = 0
  /\ dataRead = FALSE
  /\ dataBuffer = [i \in 1..Buffer |-> 0]
  /\ frame = 0
  /\ delivered = << >>
  /\ stream = "none"

-----------------------------------------------------------------------------
\* The RIFF header; run() returns if it is not one.
ReadHeader ==
  /\ walk = "opening"
  /\ walk' = IF file.riff THEN "subchunks" ELSE "returned"
  /\ remaining' = IF file.riff THEN RiffSize(file) ELSE remaining
  /\ UNCHANGED <<file, at, lastId, size, left, dataRead, dataBuffer, frame, delivered, stream>>

AtEnd == at > Len(file.chunks)

\* readString(4), of subchunk number n.
IdRead(n) == IF n <= Len(file.chunks) THEN file.chunks[n].id ELSE lastId

\* readUInt32(), of subchunk number n.
SizesRead(n) == IF n <= Len(file.chunks) THEN {file.chunks[n].size} ELSE Leftovers

\* What is left in stringBuffer_ by a subchunk.
HeldAfter(id) == IF id = "inf1" THEN "text" ELSE id

\* Whether a data subchunk can be read.
Readable == file.bits16

\* A faulty walk that counts no header.
SizeAlone(s) == ToInt(s)

\* What readSubchunk() returns: less than nothing for 2 GB, which ends the
\* walk, and nothing for a size four short of the largest.
CountedFor(s) == ToInt(s + 4)

\* A subchunk's header, and all of it unless it is a data subchunk that can
\* be read.  One that cannot ends the walk, but starts the stream.
ReadSubchunk ==
  /\ walk = "subchunks"
  /\ remaining > 0
  /\ at' = IF AtEnd THEN at ELSE at + 1
  /\ \E s \in SizesRead(at') :
       LET id == IdRead(at') IN
       /\ size' = s
       /\ lastId' = HeldAfter(id)
       /\ dataRead' = (dataRead \/ id = "data")
       /\ stream' = IF id = "data" /\ ~dataRead THEN "open" ELSE stream
       /\ left' = IF id = "data" /\ Readable THEN s ELSE 0
       /\ walk' = CASE id = "data" /\ Readable -> "buffers"
                    [] id # "data" /\ CountedFor(s) >= 0 -> "subchunks"
                    [] OTHER -> "leaving"
       /\ remaining' = IF walk' = "subchunks" THEN remaining - CountedFor(s) ELSE remaining
  /\ UNCHANGED <<file, dataBuffer, frame, delivered>>

\* A faulty read that makes frames up behind the end.
BufferPastEnd(n) == [i \in 1..Buffer |-> IF i <= n THEN frame + i ELSE dataBuffer[i]]

\* dataBuffer_ after a read of n frames.
BufferAfter(n) == [i \in 1..Buffer |-> IF ~AtEnd /\ i <= n THEN frame + i ELSE dataBuffer[i]]

FrameAfter(n) == IF AtEnd THEN frame ELSE frame + n

\* What has been delivered with new frames: behind the end a walk may give
\* on frames for ever.
Noted(new) == IF Len(delivered) > Frames(file) THEN delivered ELSE delivered \o new

ReadBuffer ==
  /\ walk = "buffers"
  /\ left >= Buffer * FrameBytes
  /\ dataBuffer' = BufferAfter(Buffer)
  /\ frame' = FrameAfter(Buffer)
  /\ delivered' = Noted(dataBuffer')
  /\ left' = left - Buffer * FrameBytes
  /\ UNCHANGED <<file, walk, at, remaining, lastId, size, dataRead, stream>>

\* A faulty remainder that leaves out the last frame.
SamplesButOne(n) == n - 1

\* As many samples as there are numbers, two for each frame read.
SampleCount(n) == 2 * n

ReadRemainder ==
  /\ walk = "buffers"
  /\ left \in 1..(Buffer * FrameBytes - 1)
  /\ LET n == left \div FrameBytes IN
       /\ dataBuffer' = BufferAfter(n)
       /\ frame' = FrameAfter(n)
       /\ delivered' = Noted([i \in 1..SampleCount(n) |->
                                IF i <= Buffer THEN dataBuffer'[i] ELSE Beyond])
  /\ left' = 0
  /\ UNCHANGED <<file, walk, at, remaining, lastId, size, dataRead, stream>>

DataIsRead ==
  /\ walk = "buffers"
  /\ left = 0
  /\ walk' = IF CountedFor(size) < 0 THEN "leaving" ELSE "subchunks"
  /\ remaining' = IF walk' = "subchunks" THEN remaining - CountedFor(size) ELSE remaining
  /\ UNCHANGED <<file, at, lastId, size, left, dataRead, dataBuffer, frame, delivered, stream>>

LeaveLoop ==
  /\ walk = "subchunks"
  /\ remaining <= 0
  /\ walk' = "leaving"
  /\ UNCHANGED <<file, at, remaining, lastId, size, left, dataRead, dataBuffer, frame,
                 delivered, stream>>

\* endStream() only if the stream has been started.
EndRun ==
  /\ walk = "leaving"
  /\ walk' = "returned"
  /\ stream' = IF dataRead THEN "ended" ELSE stream
  /\ UNCHANGED <<file, at, remaining, lastId, size, left, dataRead, dataBuffer, frame, delivered>>

WAVNext ==
  \/ ReadHeader
  \/ ReadSubchunk
  \/ ReadBuffer
  \/ ReadRemainder
  \/ DataIsRead
  \/ LeaveLoop
  \/ EndRun

-----------------------------------------------------------------------------
(* Properties.                                                             *)

\* A file the walk gets through: its header gives no less than there is, and
\* no subchunk in front of the data has 2 GB.
Walkable(f) ==
  /\ f.riff /\ f.bits16
  /\ RiffSize(f) >= Bytes(f)[Len(f.chunks)]
  /\ \A d \in DataSubchunks(f) : \A n \in 1..(d - 1) : f.chunks[n].size + 4 < Half

\* However the file's data falls into buffers, whatever the header says and
\* whatever the walk reads after the end of the file, the backend gets the
\* frames of the file first, each once and in order; when run() returns, a
\* stream that was started has been ended, and the frames of a file that can be
\* walked through are all there.  (WAVStream.cpp:101-142, 158-183, 215-244.)
FileComesFirst ==
  /\ \A i \in DOMAIN delivered : i <= Frames(file) => delivered[i] = i
  /\ walk = "returned" =>
       /\ stream = IF dataRead THEN "ended" ELSE "none"
       /\ Walkable(file) => Len(delivered) >= Frames(file)

\* The backend gets the file and nothing else.  It gets more: a remainder of
\* n frames is handed over as 2n samples, and a data subchunk read after the
\* end of the file repeats what was in the buffer.  (WAVStream.cpp:128-136,
\* 182.)
OnlyTheFile == Len(delivered) <= Frames(file)
=============================================================================
