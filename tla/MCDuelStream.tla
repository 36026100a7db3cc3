---------------------------- MODULE MCDuelStream ----------------------------
(* Small instances of DuelStream for TLC. *)
EXTENDS DuelStream

Deck == Place(0, "DECK", 0)
Hand == Place(0, "HAND", 0)
Monster == Place(0, "MZONE", 0)
Theirs == Place(1, "MZONE", 0)
Material == OverlayPlace(0, 0, 0)

OurZones == {Place(0, "MZONE", 6), Place(0, "SZONE", 4)}

Deck2 == Deck :> 2
OneLP == 0 :> 2

DeckHand == {Deck, Hand}
TwoMonsters == {Monster, Theirs}
WithMaterial == {Monster, Theirs, Material}
=============================================================================
