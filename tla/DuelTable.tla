----------------------------- MODULE DuelTable ------------------------------
(***************************************************************************)
(* The duel as the core runs it, for the client that is told about it: the  *)
(* core (ocgcore) is not part of this repository.  A table t holds plain    *)
(* values, no recordings:                                                   *)
(*   t.piles, t.zones    the cards, each [code, pos, counters]              *)
(*   t.lp, t.turn, t.turnPlayer, t.phase, t.disabled                        *)
(* CoreMsgs(t) are messages the core may send when the table is t, and      *)
(* Effect(t, m) is the table after m, as core_msg_information.proto and the *)
(* comments of board.hpp describe the message.                              *)
(***************************************************************************)
EXTENDS Places
LOCAL INSTANCE SequencesExt

CONSTANTS
  Kinds,           \* the families of messages a run lets the core send
  Codes,           \* card codes
  Positions,       \* positions a card gets on being moved or changed
  CounterTypes,
  CounterCounts,   \* how many counters one message adds or removes
  LPAmounts,       \* amounts of one life point message
  LPBound,         \* the core keeps the life points below this
  Phases,
  ActivePiles,     \* piles the messages are about: places with seq 0
  ActiveZones,     \* field places the messages are about
  BlockableZones   \* zones that the core may report as disabled

AllKinds == {"Move", "DetachLower", "SamePile", "SelfMove", "InPlace", "DeckTop",
             "BelowDeckTop", "Add", "Remove", "Draw", "Swap", "SelfSwap",
             "Shuffle", "ShuffleSet", "CounterAdd", "CounterRemove", "Disable",
             "Lp", "Overkill", "Turn", "Phase", "SwapGraveDeck", "Hint"}

ASSUME TableAssumption ==
  /\ Kinds \subseteq AllKinds
  /\ LPAmounts \subseteq Nat /\ Phases \subseteq Nat
  /\ Codes \subseteq Nat /\ Positions \subseteq Nat

\* The places that the messages are about are places of the protocol: the
\* piles by their first index, the zones with an overlay sequence where it is
\* used.
ASSUME PlacesAssumption ==
  /\ \A p \in ActivePiles :
       /\ p = Place(p.con, p.loc, 0)
       /\ p.con \in Players /\ p.loc \in PileLocations
  /\ \A z \in ActiveZones :
       /\ z.con \in Players /\ z.loc \in FieldLocations /\ z.seq \in Nat
       /\ IF z.loc = "OVERLAY"
          THEN z = OverlayPlace(z.con, z.seq, z.oseq) /\ z.oseq \in Nat
          ELSE z = Place(z.con, z.loc, z.seq)

PlainCard(code, pos) ==
  [code |-> code, pos |-> pos, counters |-> [type \in CounterTypes |-> 0]]

----------------------------------------------------------------------------
(* What the messages say of the table *)

CardOf(t, place) == IF IsPile(place) THEN GetPile(t, place)[place.seq + 1]
                                     ELSE t.zones[place]

Recoded(card, code) == [card EXCEPT !.code = code]

Replaced(card, code, pos) == [card EXCEPT !.code = code, !.pos = pos]

\* Overlay sequences have no gaps: the materials above the one that leaves
\* move down.
CloseOverlayGap(zones, left) ==
  LET above(p) == /\ p.loc = "OVERLAY" /\ p.con = left.con
                  /\ p.seq = left.seq /\ p.oseq >= left.oseq
      up(p) == IF above(p) THEN [p EXCEPT !.oseq = @ + 1] ELSE p
  IN  [p \in {q \in DOMAIN zones \cup {left} : up(q) \in DOMAIN zones} |->
         zones[up(p)]]

TakenFrom(t, place) ==
  LET u == EraseCard(t, place)
  IN  IF place.loc = "OVERLAY"
      THEN [u EXCEPT !.zones = CloseOverlayGap(@, place)] ELSE u

\* Counters stay on a card that stays on the field.
Moved(t, m) ==
  LET card == Replaced(CardOf(t, m.previous), m.code, m.position)
  IN  InsertCard(TakenFrom(t, m.previous), m.current,
        IF IsPile(m.previous) = IsPile(m.current)
        THEN card ELSE PlainCard(m.code, m.position))

UpdateEffect(t, m) ==
  CASE m.reason = "MOVE" -> Moved(t, m)
    [] m.reason = "DECK_TOP" ->
         LET top == Len(GetPile(t, m.previous)) - 1 - m.previous.seq
             place == [m.previous EXCEPT !.seq = top]
         IN  SetCard(t, place, Recoded(CardOf(t, place), m.code))
    [] OTHER -> SetCard(t, m.previous,
                        Replaced(CardOf(t, m.previous), m.code, m.position))

DrawEffect(t, m) ==
  LET deck == t.piles[m.player]["DECK"]
      n == Len(m.codes)
      left == Len(deck) - n
      drawn == Reverse(SubSeq(deck, left + 1, Len(deck)))
  IN  [t EXCEPT !.piles[m.player]["DECK"] = SubSeq(@, 1, left),
                !.piles[m.player]["HAND"] =
                  @ \o [i \in 1 .. n |-> Recoded(drawn[i], m.codes[i])]]

SwapEffect(t, m) ==
  [t EXCEPT !.zones[m.card1] = t.zones[m.card2],
            !.zones[m.card2] = t.zones[m.card1]]

ShuffleEffect(t, m) ==
  [t EXCEPT !.piles[m.player][m.location] =
     [i \in DOMAIN @ |->
        Recoded(@[i], IF m.codes = <<>> THEN 0 ELSE m.codes[i])]]

ShuffleSetEffect(t, m) ==
  [t EXCEPT !.zones = [p \in DOMAIN @ |->
     IF \E i \in DOMAIN m.previous : m.previous[i].place = p
     THEN LET i == CHOOSE j \in DOMAIN m.previous : m.previous[j].place = p
          IN  IF m.current = <<>>
              THEN Replaced(@[p], 0, m.previous[i].position)
              ELSE Replaced(@[p], m.current[i].code, m.current[i].position)
     ELSE @[p]]]

CounterEffect(t, m) ==
  [t EXCEPT !.zones[m.place].counters[m.counter] =
     IF m.change = "ADD" THEN @ + m.count ELSE @ - m.count]

LpEffect(t, m) ==
  [t EXCEPT !.lp[m.player] =
     CASE m.change \in {"DAMAGE", "PAY"} -> IF @ > m.amount THEN @ - m.amount
                                                            ELSE 0
       [] m.change = "RECOVER" -> @ + m.amount
       [] OTHER -> m.amount]

\* MiscAction ACTION_SWAP_GY_WITH_DECK: the player's two piles change places.
SwapGraveDeckEffect(t, m) ==
  [t EXCEPT !.piles[m.player]["DECK"] = t.piles[m.player]["GRAVE"],
            !.piles[m.player]["GRAVE"] = t.piles[m.player]["DECK"]]

Effect(t, m) ==
  CASE m.type = "UpdateCard" -> UpdateEffect(t, m)
    [] m.type = "AddCard" ->
         InsertCard(t, m.place, PlainCard(m.code, m.position))
    [] m.type = "RemoveCard" -> TakenFrom(t, m.place)
    [] m.type = "Draw" -> DrawEffect(t, m)
    [] m.type = "SwapCards" -> SwapEffect(t, m)
    [] m.type = "ShuffleLocation" -> ShuffleEffect(t, m)
    [] m.type = "ShuffleSetCards" -> ShuffleSetEffect(t, m)
    [] m.type = "CounterChange" -> CounterEffect(t, m)
    [] m.type = "DisableZones" -> [t EXCEPT !.disabled = m.places]
    [] m.type = "LpChange" -> LpEffect(t, m)
    [] m.type = "NewTurn" -> [t EXCEPT !.turn = @ + 1,
                                       !.turnPlayer = m.turnPlayer]
    [] m.type = "NewPhase" -> [t EXCEPT !.phase = m.phase]
    [] m.type = "MiscAction" -> SwapGraveDeckEffect(t, m)
    [] OTHER -> t

----------------------------------------------------------------------------
(* The messages the core may send about a table *)

\* The place under a material: its monster or the material below.
Below(p) == IF p.oseq = 0 THEN Place(p.con, "MZONE", p.seq)
                          ELSE [p EXCEPT !.oseq = @ - 1]

IsCovered(t, p) == \E q \in DOMAIN t.zones : q.loc = "OVERLAY" /\ Below(q) = p

\* The cards the core may move: a monster with materials keeps its zone, and
\* of several materials the upper one leaves first.
OccupiedPlaces(t) ==
  {p \in PilePlaces(t) : [p EXCEPT !.seq = 0] \in ActivePiles}
    \cup {p \in DOMAIN t.zones \cap ActiveZones : ~IsCovered(t, p)}

CoveredMaterials(t) ==
  {p \in DOMAIN t.zones \cap ActiveZones : p.loc = "OVERLAY" /\ IsCovered(t, p)}

Insertions(t) ==
  UNION {{[p EXCEPT !.seq = i] : i \in 0 .. Len(GetPile(t, p))} :
           p \in ActivePiles}

\* A material is attached to a monster, on top of the materials that are
\* already there.
FreeZones(t) ==
  {p \in ActiveZones \ DOMAIN t.zones :
     p.loc = "OVERLAY" => Below(p) \in DOMAIN t.zones}

Destinations(t) == Insertions(t) \cup FreeZones(t)

Updates(reason, pairs) ==
  {[type |-> "UpdateCard", reason |-> reason, previous |-> pq[1],
    current |-> pq[2], code |-> code, position |-> position] :
     pq \in pairs, code \in Codes, position \in Positions}

Moves(t, places) ==
  Updates("MOVE", {pq \in places \X Destinations(t) :
                     /\ ~SamePile(pq[1], pq[2])
                     /\ pq[2].loc = "OVERLAY" => pq[1] # Below(pq[2])})

MoveMsgs(t) == Moves(t, OccupiedPlaces(t))

SamePileMoves(t) ==
  Updates("MOVE", {pq \in OccupiedPlaces(t) \X OccupiedPlaces(t) :
                     SamePile(pq[1], pq[2]) /\ pq[1] # pq[2]})

SelfMoves(t) == Updates("MOVE", {<<p, p>> : p \in OccupiedPlaces(t)})

\* The cards on the field that are nobody's material.
FieldCards(t) == {p \in DOMAIN t.zones : p.loc # "OVERLAY"}

InPlaceMsgs(t) ==
  UNION {Updates(reason,
                 {<<p, NoPlace>> : p \in FieldCards(t) \cap ActiveZones}) :
           reason \in {"POS_CHANGE", "SET"}}

DeckTopMsgs(t, depth) ==
  {[type |-> "UpdateCard", reason |-> "DECK_TOP",
    previous |-> Place(con, "DECK", depth), current |-> NoPlace,
    code |-> code, position |-> 0] :
     con \in {p \in Players : depth < Len(t.piles[p]["DECK"])}, code \in Codes}

Placed(type, places) ==
  {[type |-> type, place |-> p, code |-> code, position |-> position] :
     p \in places, code \in Codes, position \in Positions}

CodeLists(n) == [1 .. n -> Codes]

DrawMsgs(t) ==
  UNION {{[type |-> "Draw", player |-> p, codes |-> codes] :
            codes \in UNION {CodeLists(n) : n \in 1 .. Len(t.piles[p]["DECK"])}} :
           p \in Players}

SwapMsgs(t) ==
  {[type |-> "SwapCards", card1 |-> pq[1], card2 |-> pq[2]] :
     pq \in {c \in FieldCards(t) \X FieldCards(t) :
              c[1] # c[2] /\ ~IsCovered(t, c[1]) /\ ~IsCovered(t, c[2])}}

SelfSwaps(t) ==
  {[type |-> "SwapCards", card1 |-> p, card2 |-> p] :
     p \in FieldCards(t)}

ShuffleMsgs(t) ==
  UNION {{[type |-> "ShuffleLocation", player |-> p.con, location |-> p.loc,
           codes |-> codes] :
            codes \in {<<>>} \cup CodeLists(Len(GetPile(t, p)))} :
           p \in {q \in ActivePiles : GetPile(t, q) # <<>>}}

ShuffleSetMsgs(t) ==
  LET places == {s \in UNION {[1 .. n -> FieldCards(t)] : n \in 1 .. 2} :
                   \A i, j \in DOMAIN s : s[i] = s[j] => i = j}
  IN  UNION {{[type |-> "ShuffleSetCards",
               previous |-> [i \in DOMAIN s |->
                               [place |-> s[i], position |-> position]],
               current |-> current] :
                current \in {<<>>} \cup
                  {[i \in DOMAIN s |-> [code |-> codes[i],
                                        position |-> position]] :
                     codes \in CodeLists(Len(s))}} :
               s \in places, position \in Positions}

Counters(t, change) ==
  {[type |-> "CounterChange", change |-> change, place |-> p,
    counter |-> type, count |-> n] :
     p \in FieldCards(t),
     type \in CounterTypes, n \in CounterCounts}

CounterRemovals(t) ==
  {m \in Counters(t, "REMOVE") :
     t.zones[m.place].counters[m.counter] >= m.count}

LpMsgs(t) ==
  {[type |-> "LpChange", change |-> change, player |-> p, amount |-> n] :
     change \in {"DAMAGE", "PAY", "RECOVER", "BECOME"}, p \in Players,
     n \in LPAmounts}

\* The core keeps the life points in its own range, and may deal more damage
\* than there are life points ("Overkill").
FairLpMsgs(t) ==
  {m \in LpMsgs(t) :
     /\ m.change \in {"DAMAGE", "PAY"} => m.amount <= t.lp[m.player]
     /\ LpEffect(t, m).lp[m.player] < LPBound}

OverkillMsgs(t) ==
  {m \in LpMsgs(t) : m.change = "DAMAGE" /\ m.amount > t.lp[m.player]}

MsgsOfKind(kind, t) ==
  CASE kind = "Move" -> MoveMsgs(t)
    [] kind = "DetachLower" -> Moves(t, CoveredMaterials(t))
    [] kind = "SamePile" -> SamePileMoves(t)
    [] kind = "SelfMove" -> SelfMoves(t)
    [] kind = "InPlace" -> InPlaceMsgs(t)
    [] kind = "DeckTop" -> DeckTopMsgs(t, 0)
    [] kind = "BelowDeckTop" -> DeckTopMsgs(t, 1)
    [] kind = "Add" -> Placed("AddCard", Destinations(t))
    [] kind = "Remove" -> Placed("RemoveCard", OccupiedPlaces(t))
    [] kind = "Draw" -> DrawMsgs(t)
    [] kind = "Swap" -> SwapMsgs(t)
    [] kind = "SelfSwap" -> SelfSwaps(t)
    [] kind = "Shuffle" -> ShuffleMsgs(t)
    [] kind = "ShuffleSet" -> ShuffleSetMsgs(t)
    [] kind = "CounterAdd" -> Counters(t, "ADD")
    [] kind = "CounterRemove" -> CounterRemovals(t)
    [] kind = "Disable" -> {[type |-> "DisableZones", places |-> s] :
                              s \in SUBSET BlockableZones}
    [] kind = "Lp" -> FairLpMsgs(t)
    [] kind = "Overkill" -> OverkillMsgs(t)
    [] kind = "Turn" -> {[type |-> "NewTurn", turnPlayer |-> p] : p \in Players}
    [] kind = "Phase" -> {[type |-> "NewPhase", phase |-> p] : p \in Phases}
    [] kind = "SwapGraveDeck" ->
         {[type |-> "MiscAction", action |-> "SWAP_GY_WITH_DECK", player |-> p] :
            p \in Players}
    [] kind = "Hint" -> {[type |-> "Empty"]} \cup
         {[type |-> type, player |-> p] : type \in {"Hint", "Request"},
                                          p \in Players}

CoreMsgs(t) == UNION {MsgsOfKind(kind, t) : kind \in Kinds}
=============================================================================
