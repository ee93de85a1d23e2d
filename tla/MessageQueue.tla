---------------------------- MODULE MessageQueue ----------------------------
(***************************************************************************)
(* What Channel promises its users: a queue that takes messages one or     *)
(* several at a time, hands over everything it holds at once and in order, *)
(* and can be shut.  src/src/Channel.h is shown to implement it.           *)
(***************************************************************************)
EXTENDS Sequences, SequencesExt

CONSTANT Message

VARIABLES queue, delivered, shut

vars == <<queue, delivered, shut>>

Init == queue = << >> /\ delivered = << >> /\ shut = FALSE

\* Any number of messages join the end of the queue.
Put ==
  /\ queue' \in Seq(Message)
  /\ IsPrefix(queue, queue')
  /\ UNCHANGED <<delivered, shut>>

GetAll ==
  /\ queue # << >>
  /\ delivered' = delivered \o queue
  /\ queue' = << >>
  /\ UNCHANGED shut

Shut ==
  /\ shut' = TRUE
  /\ UNCHANGED <<queue, delivered>>

Next == Put \/ GetAll \/ Shut

Spec == Init /\ [][Next]_vars
=============================================================================
