------------------------------ MODULE MidiQueue ------------------------------
(***************************************************************************)
(* JackFrontend's MIDI messages: sendMidiMessage(), and the end of         *)
(* onJackInput(), which sends one message a period if the flag says so     *)
(* (src/src/JackFrontend.cpp).  JACK's own calls are external.             *)
(*                                                                         *)
(* Both are on JACK's thread: the detector sends from the callback, and    *)
(* nothing in the program sends the other message listened to, the         *)
(* heartbeat.  So the mutex is free whenever it is asked for, and left     *)
(* out.                                                                    *)
(***************************************************************************)
EXTENDS Integers, Sequences

VARIABLES
  midiQueue,         \* midiQueue_
  midiMessageWaiting \* midiMessageWaiting_, which nobody initialises

midiVars == <<midiQueue, midiMessageWaiting>>

MidiInit ==
  /\ midiQueue = << >>
  /\ midiMessageWaiting \in BOOLEAN

PushMidi(message) ==
  /\ midiQueue' = Append(midiQueue, message)
  /\ midiMessageWaiting' = TRUE

\* A faulty callback that clears the flag with each message.
Cleared(queue) == FALSE

StillWaiting(queue) == queue # << >>

SendMidi ==
  /\ midiQueue' = IF midiQueue # << >> THEN Tail(midiQueue) ELSE midiQueue
  /\ midiMessageWaiting' = StillWaiting(midiQueue')
=============================================================================
