----------------------------- MODULE Sequential -----------------------------
(***************************************************************************)
(* YGOpen::Sequential<T, def> (board/card.hpp): a recording of one value.   *)
(* vec holds every value the attribute ever had, pos is the cursor of the   *)
(* one that is shown.  A live message appends and steps onto the new value, *)
(* a replayed message only steps, a rewound message steps back.             *)
(*                                                                          *)
(* pos is a size_t in the code: a decrement below zero wraps to 2^64 - 1,   *)
(* and the matching increment wraps back.  The model writes the wrapped     *)
(* cursor as the negative number that it is congruent to, so that "out of   *)
(* range" is one test.                                                      *)
(***************************************************************************)
EXTENDS Integers, Sequences

CONSTANT Garbage    \* the values a read past the end of a vector may yield

ASSUME GarbageAssumption == Garbage \subseteq Nat

\* What a display shows when the cursor is outside the recording.
Undef == -1

NewSequential(def) == [vec |-> <<def>>, pos |-> 0]

\* Mutant: every step records.
AlwaysAdd(s, add, value) == [vec |-> Append(s.vec, value), pos |-> s.pos + 1]

AddOrNext(s, add, value) ==
  [vec |-> IF add THEN Append(s.vec, value) ELSE s.vec,
   pos |-> s.pos + 1]

Prev(s) == [s EXCEPT !.pos = @ - 1]

\* The two directions in which a message moves an attribute.
Step(s, advancing, realtime, value) ==
  IF advancing THEN AddOrNext(s, realtime, value) ELSE Prev(s)

InRange(s) == s.pos >= 0 /\ s.pos < Len(s.vec)

AtEnd(s) == s.pos = Len(s.vec) - 1

\* operator()(): what may be read through the cursor.
ReadValues(s) == IF InRange(s) THEN {s.vec[s.pos + 1]} ELSE Garbage

Shown(s) == IF InRange(s) THEN s.vec[s.pos + 1] ELSE Undef

\* What std::move leaves behind: the vector is gone, the cursor is not.
MovedFrom(s) == [s EXCEPT !.vec = <<>>]
=============================================================================
