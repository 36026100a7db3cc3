----------------------------- MODULE DeckLimits -----------------------------
(***************************************************************************)
(* YGOpen::Deck::CheckLimits (deck.cpp): the first complaint about the size *)
(* of a deck.  A deck is known by its three sizes, the limits by a minimum  *)
(* and a maximum for each.  A behaviour is a client that edits its deck,    *)
(* one card at a time, and has it checked after every edit.                 *)
(***************************************************************************)
EXTENDS Integers, Sequences

CONSTANTS
  Bounds,     \* the numbers that a server may set as limits
  MaxCards    \* bound on the cards of a client's deck

Kinds == <<"main", "extra", "side">>

\* A server sets a minimum and a maximum for each kind of deck.
Limits ==
  LET range == {r \in [min : Bounds, max : Bounds] : r.min <= r.max}
  IN  [main : range, extra : range, side : range]

VARIABLES size, limits, error

deckVars == <<size, limits, error>>

NoError == [type |-> "no_error"]

OutOfLimits(kind, limit, expected, got) ==
  [type |-> "out_of_limits", deck |-> kind, limit |-> limit,
   expected |-> expected, got |-> got]

Under(deck, lim, kind) == deck[kind] < lim[kind].min

\* The size that is compared is the one of the main deck, for every kind.
Over(deck, lim, kind) == deck["main"] > lim[kind].max

Complaint(deck, lim, kind) ==
  IF Under(deck, lim, kind)
  THEN OutOfLimits(kind, "under", lim[kind].min, deck[kind])
  ELSE IF Over(deck, lim, kind)
  THEN OutOfLimits(kind, "over", lim[kind].max, deck[kind])
  ELSE NoError

CheckLimits(deck, lim) ==
  LET bad == {i \in DOMAIN Kinds : Complaint(deck, lim, Kinds[i]) # NoError}
  IN  IF bad = {} THEN NoError
      ELSE LET first == CHOOSE i \in bad : \A j \in bad : i <= j
           IN  Complaint(deck, lim, Kinds[first])

Init ==
  /\ size = [kind \in {"main", "extra", "side"} |-> 0]
  /\ limits \in Limits
  /\ error = CheckLimits(size, limits)

\* The client adds or takes a card and has the deck checked.
Edit(kind, n) ==
  /\ size[kind] + n \in 0 .. MaxCards
  /\ size' = [size EXCEPT ![kind] = @ + n]
  /\ error' = CheckLimits(size', limits)
  /\ UNCHANGED limits

Next == \E kind \in {"main", "extra", "side"}, n \in {-1, 1} : Edit(kind, n)

Spec == Init /\ [][Next]_deckVars
----------------------------------------------------------------------------
(* Properties *)

Outside(kind) ==
  size[kind] < limits[kind].min \/ size[kind] > limits[kind].max

\* "The number of cards for the mentioned deck is out of the set limits"
\* (deck.proto:32).
MentionedDeckIsOutside ==
  error.type = "out_of_limits" => Outside(error.deck)
=============================================================================
