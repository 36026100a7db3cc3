------------------------------ MODULE Timeline ------------------------------
(***************************************************************************)
(* What a reversible duel board promises, and nothing of how it keeps the   *)
(* promise.  Playing a message for the first time adds one frame to a film. *)
(* From then on the board is a player of that film: stepping forward and    *)
(* backward moves along it and never changes a frame.                       *)
(***************************************************************************)
EXTENDS Integers, Sequences

VARIABLES
  film,     \* the frames, in the order in which they were first shown
  cursor,   \* index of the frame that is shown, counted from 0
  shown     \* what the board shows

filmVars == <<film, cursor, shown>>

Init == film = <<shown>> /\ cursor = 0

\* Until the first message is played the client may still set the table.
SetUp ==
  /\ Len(film) = 1
  /\ film' = <<shown'>>
  /\ UNCHANGED cursor

Play ==
  /\ cursor = Len(film) - 1
  /\ film' = Append(film, shown')
  /\ cursor' = cursor + 1

Replay ==
  /\ cursor < Len(film) - 1
  /\ cursor' = cursor + 1
  /\ shown' = film[cursor' + 1]
  /\ UNCHANGED film

Rewind ==
  /\ cursor > 0
  /\ cursor' = cursor - 1
  /\ shown' = film[cursor' + 1]
  /\ UNCHANGED film

Next == SetUp \/ Play \/ Replay \/ Rewind

Spec == Init /\ [][Next]_filmVars
=============================================================================
