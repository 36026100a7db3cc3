------------------------------- MODULE Places -------------------------------
(***************************************************************************)
(* Where a card can be (board/board.hpp, Place and its helpers), and the    *)
(* containers that hold cards: a board b is a record of                     *)
(*   b.piles[controller][location]   a sequence, index 0 of the code first  *)
(*   b.zones                         a function from the occupied places    *)
(* The operators do not look into the cards, so they serve the client's     *)
(* recorded cards and the plain cards of the duel itself.                   *)
(***************************************************************************)
EXTENDS Integers, Sequences, FiniteSets, TLC
LOCAL INSTANCE SequencesExt

Players == {0, 1}

PileLocations == {"DECK", "HAND", "GRAVE", "REMOVED", "EXTRA"}

FieldLocations == {"MZONE", "SZONE", "OVERLAY", "FZONE", "PZONE"}

\* oseq is the code's overlay_sequence: -1 wherever it must not be used.
Place(con, loc, seq) == [con |-> con, loc |-> loc, seq |-> seq, oseq |-> -1]

OverlayPlace(con, seq, oseq) ==
  [con |-> con, loc |-> "OVERLAY", seq |-> seq, oseq |-> oseq]

\* The place of a message that leaves its place fields empty.
NoPlace == Place(0, "NONE", 0)

IsPile(place) == place.loc \notin FieldLocations

SamePile(p, q) == IsPile(p) /\ IsPile(q) /\ p.con = q.con /\ p.loc = q.loc

\* --- The containers -------------------------------------------------------

GetPile(b, place) == b.piles[place.con][place.loc]

PutPile(b, place, pile) == [b EXCEPT !.piles[place.con][place.loc] = pile]

Occupied(b, place) ==
  IF IsPile(place) THEN place.seq \in 0 .. Len(GetPile(b, place)) - 1
                   ELSE place \in DOMAIN b.zones

PutKey(map, key, value) ==
  [k \in DOMAIN map \cup {key} |-> IF k = key THEN value ELSE map[k]]

\* std::map::emplace: an entry that is already there stays.
Emplace(map, key, value) ==
  IF key \in DOMAIN map THEN map ELSE PutKey(map, key, value)

EraseKey(map, key) == [k \in DOMAIN map \ {key} |-> map[k]]

InsertCard(b, place, card) ==
  IF IsPile(place)
  THEN PutPile(b, place, InsertAt(GetPile(b, place), place.seq + 1, card))
  ELSE [b EXCEPT !.zones = PutKey(@, place, card)]

EraseCard(b, place) ==
  IF IsPile(place)
  THEN PutPile(b, place, RemoveAt(GetPile(b, place), place.seq + 1))
  ELSE [b EXCEPT !.zones = EraseKey(@, place)]

SetCard(b, place, card) ==
  IF IsPile(place)
  THEN PutPile(b, place, ReplaceAt(GetPile(b, place), place.seq + 1, card))
  ELSE [b EXCEPT !.zones = PutKey(@, place, card)]

PilePlaces(b) ==
  UNION {{Place(con, loc, i - 1) : i \in DOMAIN b.piles[con][loc]} :
           con \in Players, loc \in PileLocations}
=============================================================================
