---------------------------- MODULE MCApplication ----------------------------
(* Application for TLC; the bounds are in the .cfg file.                    *)
EXTENDS Application

Chunk(id, bytes) == [id |-> id, size |-> bytes]

\* A file with these subchunks behind its format, and a header that is right.
Wave(chunks) ==
  LET f == [riff |-> TRUE, bits16 |-> TRUE, header |-> 0, chunks |-> << Chunk("fmt", 16) >> \o chunks]
  IN  [f EXCEPT !.header = 4 + Bytes(f)[Len(f.chunks)]]

\* A buffer and a remainder, with a text in front; two buffers, with something
\* behind; less than a buffer; no frames; 8 bits; no WAV file.
Small ==
  { Wave(<< Chunk("inf1", 8), Chunk("data", 20) >>),
    Wave(<< Chunk("data", 24), Chunk("other", 6) >>),
    Wave(<< Chunk("data", 8) >>),
    Wave(<< Chunk("data", 0) >>),
    Wave(<< Chunk("other", 2), Chunk("inf1", 4) >>),
    [Wave(<< Chunk("data", 4) >>) EXCEPT !.bits16 = FALSE],
    [Wave(<< Chunk("data", 4) >>) EXCEPT !.riff = FALSE] }

\* What the RIFF header should not say: nothing, less than there is, more.
Misheaded == {[Wave(<< Chunk("data", 8) >>) EXCEPT !.header = h] : h \in {0, 28, 2 * Half - 1}}

\* In front of the data, or as the data, a size that as an int is negative or
\* counts nothing; and the largest in front of them that is counted.
Large ==
  { [Wave(<< Chunk(id, bytes), Chunk("data", 4) >>) EXCEPT !.header = 2 * Half - 1] :
      id \in {"other"}, bytes \in {Half - 6, Half - 4, 2 * Half - 4} }
  \cup { [Wave(<< Chunk("data", bytes) >>) EXCEPT !.header = 2 * Half - 1] : bytes \in {Half - 4, 2 * Half - 4} }

TheFiles == Small \cup Misheaded \cup Large
=============================================================================
