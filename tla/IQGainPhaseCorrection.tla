----------------------- MODULE IQGainPhaseCorrection -----------------------
(***************************************************************************)
(* IQGainPhaseCorrection::process() of src/src/FFTBackend.cpp, which puts  *)
(* each Q next to an I that came PhaseShift samples later, and the delay   *)
(* line it keeps, the one-dimensional RingBuffer of src/src/RingBuffer.h.  *)
(*                                                                         *)
(* A sample is [i, q]; i and q are the numbers of the samples they came    *)
(* from.  The gain, a constant added to every q, is left out.              *)
(***************************************************************************)
EXTENDS Integers, Sequences, SequencesExt

CONSTANT PhaseShift     \* phaseShift_, iq_phase_shift in the configuration

ASSUME PhaseShiftIsNat == PhaseShift \in Nat

Unknown == -1           \* memory that was never written, or is not the buffer's

-----------------------------------------------------------------------------
(* RingBuffer.                                                             *)

\* setPhaseShift() on a new object: resize() allocates and does not clear.
EmptyLine == [items |-> [i \in 0 .. PhaseShift - 1 |-> Unknown], head |-> 0]

\* C++'s %, which takes the sign of its first operand.
Remainder(a, b) == IF a >= 0 THEN a % b ELSE -((-a) % b)

\* at(), for one lap below the head and up: a negative remainder is an index
\* in front of the array.
LineAt(line, mark) ==
  LET index == Remainder(mark, PhaseShift)
  IN  IF index < 0 THEN Unknown ELSE line.items[index]

PushItem(line, item) ==
  [items |-> [line.items EXCEPT ![line.head] = item],
   head  |-> IF line.head + 1 >= PhaseShift THEN 0 ELSE line.head + 1]

PushAll(line, samples) ==
  IF PhaseShift < 1
  THEN line
  ELSE FoldLeft(LAMBDA l, sample : PushItem(l, sample.q), line, samples)

-----------------------------------------------------------------------------
(* process(in, length, out), by the sections of its comment.               *)

SectionI(length) == IF length < PhaseShift THEN length ELSE PhaseShift

SectionII(length) ==
  LET rest == length - SectionI(length) - PhaseShift
  IN  IF rest > 0 THEN rest ELSE 0

\* What process() leaves in out.  Section III writes nothing.
Corrected(line, in, out) ==
  LET one == SectionI(Len(in))
      two == SectionII(Len(in))
  IN  [j \in 1 .. Len(in) |->
         IF j <= one
         THEN [i |-> in[j].i, q |-> LineAt(line, line.head - PhaseShift + j - 1)]
         ELSE IF j <= one + two
         THEN [i |-> in[j].i, q |-> in[j - one].q]
         ELSE out[j]]

\* The delay line after it.
LineAfter(line, in) ==
  LET one == SectionI(Len(in))
      two == SectionII(Len(in))
  IN  PushAll(line, SubSeq(in, 1, two) \o SubSeq(in, one + two + 1, Len(in)))
=============================================================================
