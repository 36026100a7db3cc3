---------------------------- MODULE MCDuelReplay ----------------------------
(* Small instances of DuelReplay for TLC. *)
EXTENDS DuelReplay

Deck == Place(0, "DECK", 0)
Hand == Place(0, "HAND", 0)
Monster == Place(0, "MZONE", 0)
Spell == Place(0, "SZONE", 0)

Grave == Place(0, "GRAVE", 0)
Material(n) == OverlayPlace(0, 0, n)

TheirsBlocked == {Place(1, "MZONE", 1)}
OursBlocked == {Place(0, "MZONE", 1), Place(0, "SZONE", 5)}

NoPlaces == {}
NoSizes == EmptyMap
NoLP == EmptyMap
Deck1 == Deck :> 1
Deck2 == Deck :> 2
Deck3 == Deck :> 3
OneLP == 0 :> 2

JustDeck == {Deck}
DeckGrave == {Deck, Grave}
DeckHand == {Deck, Hand}
Field == {Monster, Spell}
OneMonster == {Monster}
TwoMaterials == {Monster, Material(0), Material(1)}
=============================================================================
