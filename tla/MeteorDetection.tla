-------------------------- MODULE MeteorDetection --------------------------
(***************************************************************************)
(* What the bolid detector promises: detections that follow one another    *)
(* closely enough are one meteor, and a meteor is reported once enough     *)
(* silence has followed it, with the rows of its first and last detection. *)
(* BolidDetector is shown to implement it.                                 *)
(***************************************************************************)
EXTENDS Integers, Sequences

CONSTANT Gap    \* the rows of silence that end a meteor

VARIABLES row,      \* the number of the next row
          open,     \* a meteor is being observed
          first,    \* the row of its first detection
          last,     \* the row of its latest detection
          found     \* the meteors reported, [first, last]

vars == <<row, open, first, last, found>>

Init ==
  /\ row = 0
  /\ open = FALSE
  /\ first = 0
  /\ last = 0
  /\ found = << >>

Begin ==
  /\ ~open
  /\ open' = TRUE
  /\ first' = row
  /\ last' = row
  /\ row' = row + 1
  /\ UNCHANGED found

Continue ==
  /\ open
  /\ row - last <= Gap
  /\ last' = row
  /\ row' = row + 1
  /\ UNCHANGED <<open, first, found>>

\* Nothing is detected, and that ends no meteor.
Silence ==
  /\ open => row - last < Gap
  /\ row' = row + 1
  /\ UNCHANGED <<open, first, last, found>>

End ==
  /\ open
  /\ row - last = Gap
  /\ found' = Append(found, [first |-> first, last |-> last])
  /\ open' = FALSE
  /\ first' = 0
  /\ last' = 0
  /\ row' = row + 1

Next == Begin \/ Continue \/ Silence \/ End

Spec == Init /\ [][Next]_vars
=============================================================================
