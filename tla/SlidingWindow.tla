--------------------------- MODULE SlidingWindow ---------------------------
(***************************************************************************)
(* What FFTBackend promises: of a stream of samples, rows made of Bins     *)
(* consecutive samples each, every row beginning Hop samples after the one *)
(* before, however the samples arrive.  FFTBackend is shown to implement   *)
(* it.                                                                     *)
(***************************************************************************)
EXTENDS Integers

CONSTANTS Bins, Hop

VARIABLES arrived,  \* how many samples have come
          made,     \* how many rows have been made
          latest    \* the samples of the latest row

vars == <<arrived, made, latest>>

\* I and Q of the sample with this number.
Sample(n) == [i |-> n, q |-> n]

RowSamples(n) == [j \in 1 .. Bins |-> Sample(n * Hop + j - 1)]

Init ==
  /\ arrived = 0
  /\ made = 0
  /\ latest = << >>

Arrive ==
  /\ arrived' \in Nat
  /\ arrived' >= arrived
  /\ UNCHANGED <<made, latest>>

\* A row is made of samples that have come.
MakeRow ==
  /\ made * Hop + Bins <= arrived
  /\ made' = made + 1
  /\ latest' = RowSamples(made)
  /\ UNCHANGED arrived

Next == Arrive \/ MakeRow

Spec == Init /\ [][Next]_vars
=============================================================================
