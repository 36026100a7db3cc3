----------------------------- MODULE DuelBoard ------------------------------
(***************************************************************************)
(* YGOpen::DuelBoard<C> (board/board.hpp): the client's picture of a duel.  *)
(* The client appends the messages of the core to a list and plays them     *)
(* with Forward, and may step back with Backward: every handler has to do,  *)
(* redo and undo its message on the cards, which live in piles, in a map of *)
(* field zones, or, while they are off the board, in tempCards.             *)
(*                                                                          *)
(* The members realtime and advancing are written by every Forward and      *)
(* Backward before a handler reads them; here they are parameters.  Of the  *)
(* attributes of a card only the ones a handler writes are kept: code, pos  *)
(* and counters.                                                            *)
(***************************************************************************)
EXTENDS Sequential, Places
LOCAL INSTANCE SequencesExt

CONSTANT LPModulus    \* life points are uint32_t: 2^32 in the code

ASSUME LPModulusAssumption == LPModulus \in Nat \ {0}

VARIABLES
  msgs,            \* the messages of the core, in order
  state,           \* how many of them are applied to what is shown
  processedState,  \* how many were ever handed to a handler as new
  piles,           \* deck, hand, grave, rmp and eDeck of each player
  zoneCards,       \* the cards on the field, by place
  tempCards,       \* cards off the board, by message index and place
  disabledZones,   \* for every zone that can be blocked: is it?
  playerLP,        \* life points of each player
  turn,            \* the current turn, a plain counter
  turnPlayer,      \* whose turn it is
  phase            \* the current phase

timelineVars == <<msgs, state, processedState>>
cardVars == <<piles, zoneCards, tempCards>>
registerVars == <<playerLP, turn, turnPlayer, phase>>
boardVars == <<timelineVars, cardVars, disabledZones, registerVars>>

----------------------------------------------------------------------------
(* Cards *)

FACEUP_ATTACK == 1
FACEDOWN == 10

EmptyMap == [k \in {} |-> k]

NewCard == [code |-> NewSequential(0), pos |-> NewSequential(0),
            counters |-> EmptyMap]

\* The card object that is left where a card was moved from.
Husk(card) == [code |-> MovedFrom(card.code), pos |-> MovedFrom(card.pos),
               counters |-> EmptyMap]

StepCode(card, adv, rt, code) == [card EXCEPT !.code = Step(@, adv, rt, code)]

\* Mutant: a rewound message leaves the position where it is.
StepCardKeepsPos(card, adv, rt, code, position) ==
  [card EXCEPT !.code = Step(@, adv, rt, code),
               !.pos = IF adv THEN AddOrNext(@, rt, position) ELSE @]

StepCard(card, adv, rt, code, position) ==
  [card EXCEPT !.code = Step(@, adv, rt, code),
               !.pos = Step(@, adv, rt, position)]

\* Mutant: clears without asking whether the message is new.
ClearAllCountersAnew(card, adv, rt) ==
  [card EXCEPT !.counters =
     [type \in DOMAIN @ |-> Step(@[type], adv, TRUE, 0)]]

ClearAllCounters(card, adv, rt) ==
  [card EXCEPT !.counters =
     [type \in DOMAIN @ |-> Step(@[type], adv, rt, 0)]]

----------------------------------------------------------------------------
(* Places of the board *)

Cards == [piles |-> piles, zones |-> zoneCards]

CardsBecome(b) == piles' = b.piles /\ zoneCards' = b.zones

\* zoneCards[place] makes a new card where there is none.
GetCard(b, place) ==
  IF IsPile(place) THEN GetPile(b, place)[place.seq + 1]
  ELSE IF place \in DOMAIN b.zones THEN b.zones[place]
  ELSE NewCard

\* emplace at to, then erase at from, of one and the same vector; from and
\* to are indices of the code.  The card to move is an argument of emplace
\* that aliases the vector, so the outcome depends on its capacity: a vector
\* that is full reallocates and places the new card first, one with room
\* shifts its tail up first and then takes whatever is at index from by then.
EmplaceThenErase(pile, from, to) ==
  LET husk == ReplaceAt(pile, from + 1, Husk(pile[from + 1]))
      full == RemoveAt(InsertAt(husk, to + 1, pile[from + 1]), from + 1)
      room == InsertAt(RemoveAt(pile, from), to + 1, pile[from])
  IN  {full} \cup (IF to < from THEN {room} ELSE {})

\* Mutant: a material that is detached stays attached too.
MoveSingleKeepsMaterial(b, from, to, adv, rt) ==
  {InsertCard(IF from.loc = "OVERLAY" THEN b ELSE EraseCard(b, from), to,
              ClearAllCounters(GetCard(b, from), adv, rt))}

\* The boards that moving the card at from to to may leave; the reference
\* that the code returns is to the card at to.
MoveSingle(b, from, to, adv, rt) ==
  LET card == GetCard(b, from)
      moved == IF IsPile(from) = IsPile(to)
               THEN card ELSE ClearAllCounters(card, adv, rt)
  IN  IF SamePile(from, to)
      THEN {PutPile(b, from, p) :
              p \in EmplaceThenErase(GetPile(b, from), from.seq, to.seq)}
      ELSE {InsertCard(EraseCard(b, from), to, moved)}

----------------------------------------------------------------------------
(* Handlers of the messages that change cards.  at is the index of the      *)
(* message: the value of the member state while the handler runs.           *)

\* *(pile.rbegin() - sequence): past the end of the pile unless sequence is 0,
\* and then no card of the board is written.
StepDeckTop(b, m, adv, rt) ==
  LET pile == GetPile(b, m.previous)
      i == Len(pile) + m.previous.seq
  IN  IF i \in DOMAIN pile
      THEN PutPile(b, m.previous,
                   ReplaceAt(pile, i, StepCode(pile[i], adv, rt, m.code)))
      ELSE b

StepAt(b, place, adv, rt, code, position) ==
  SetCard(b, place, StepCard(GetCard(b, place), adv, rt, code, position))

UpdateCard(b, m, adv, rt) ==
  CASE m.reason = "DECK_TOP" -> {StepDeckTop(b, m, adv, rt)}
    [] m.reason = "MOVE" /\ adv ->
         {StepAt(c, m.current, adv, rt, m.code, m.position) :
            c \in MoveSingle(b, m.previous, m.current, adv, rt)}
    [] m.reason = "MOVE" /\ ~adv ->
         MoveSingle(StepAt(b, m.current, adv, rt, m.code, m.position),
                    m.current, m.previous, adv, rt)
    [] OTHER -> {StepAt(b, m.previous, adv, rt, m.code, m.position)}

HandleUpdateCard(m, adv, rt) ==
  /\ m.type = "UpdateCard"
  /\ \E b \in UpdateCard(Cards, m, adv, rt) : CardsBecome(b)
  /\ UNCHANGED <<tempCards, disabledZones, registerVars>>

TempPlace(at, place) == [state |-> at, place |-> place]

\* tempCards[t] makes a new card where there is none.
TempCard(t) == IF t \in DOMAIN tempCards THEN tempCards[t] ELSE NewCard

AddedCard(t, rt) == IF rt THEN NewCard ELSE TempCard(t)

EmplaceCard(b, place, card) ==
  IF IsPile(place) THEN InsertCard(b, place, card)
                   ELSE [b EXCEPT !.zones = Emplace(@, place, card)]

HandleAddCard(m, at, adv, rt) ==
  LET t == TempPlace(at, m.place)
      b == IF adv THEN EmplaceCard(Cards, m.place, AddedCard(t, rt))
                  ELSE Cards
      added == StepAt(b, m.place, adv, rt, m.code, m.position)
  IN  /\ m.type = "AddCard"
      /\ CardsBecome(IF adv THEN added ELSE EraseCard(added, m.place))
      /\ tempCards' =
           CASE adv /\ rt  -> tempCards
             [] adv /\ ~rt -> EraseKey(tempCards, t)
             [] ~adv       -> Emplace(tempCards, t, GetCard(added, m.place))
      /\ UNCHANGED <<disabledZones, registerVars>>

\* Mutant: the card that is put back also stays in tempCards.
HandleRemoveCardKeepsTemp(m, at, adv) ==
  LET t == TempPlace(at, m.place)
  IN  /\ m.type = "RemoveCard"
      /\ IF adv
         THEN /\ tempCards' = Emplace(tempCards, t, GetCard(Cards, m.place))
              /\ CardsBecome(EraseCard(Cards, m.place))
         ELSE /\ UNCHANGED tempCards
              /\ CardsBecome(EmplaceCard(Cards, m.place, TempCard(t)))
      /\ UNCHANGED <<disabledZones, registerVars>>

HandleRemoveCard(m, at, adv) ==
  LET t == TempPlace(at, m.place)
  IN  /\ m.type = "RemoveCard"
      /\ IF adv
         THEN /\ tempCards' = Emplace(tempCards, t, GetCard(Cards, m.place))
              /\ CardsBecome(EraseCard(Cards, m.place))
         ELSE /\ tempCards' = EraseKey(tempCards, t)
              /\ CardsBecome(EmplaceCard(Cards, m.place, TempCard(t)))
      /\ UNCHANGED <<disabledZones, registerVars>>

\* Mutant: the cards keep the order they have in the pile.
TopCardsInOrder(pile, n) == SubSeq(pile, Len(pile) - n + 1, Len(pile))

TopCards(pile, n) == Reverse(SubSeq(pile, Len(pile) - n + 1, Len(pile)))

WithoutTop(pile, n) == SubSeq(pile, 1, Len(pile) - n)

\* m.codes has the codes of the drawn cards, the first one drawn first; a
\* rewound draw steps the codes back first and then returns the cards.
HandleDraw(m, adv, rt) ==
  LET n == Len(m.codes)
      coded(cards) == [i \in 1 .. n |-> StepCode(cards[i], adv, rt, m.codes[i])]
      deck == piles[m.player]["DECK"]
      hand == piles[m.player]["HAND"]
  IN  /\ m.type = "Draw"
      /\ piles' = [piles EXCEPT
           ![m.player]["DECK"] = IF adv THEN WithoutTop(deck, n)
                                 ELSE deck \o coded(TopCards(hand, n)),
           ![m.player]["HAND"] = IF adv THEN hand \o coded(TopCards(deck, n))
                                 ELSE WithoutTop(hand, n)]
      /\ UNCHANGED <<zoneCards, tempCards, disabledZones, registerVars>>

\* The first card is taken off the board, the second one is moved to its
\* place, and the first is put where the second was.
SwapCards(b, m, adv, rt) ==
  {InsertCard(c, m.card2, GetCard(b, m.card1)) :
     c \in MoveSingle(EraseCard(b, m.card1), m.card2, m.card1, adv, rt)}

HandleSwapCards(m, adv, rt) ==
  /\ m.type = "SwapCards"
  /\ \E b \in SwapCards(Cards, m, adv, rt) : CardsBecome(b)
  /\ UNCHANGED <<tempCards, disabledZones, registerVars>>

Shuffled(pile, codes, adv, rt) ==
  [i \in DOMAIN pile |->
     StepCode(pile[i], adv, rt, IF codes = <<>> THEN 0 ELSE codes[i])]

\* Mutant: a rewound shuffle leaves the codes.
ShuffleNotUndone(m, adv, rt) ==
  /\ m.type = "ShuffleLocation"
  /\ piles' = [piles EXCEPT ![m.player][m.location] =
                 IF adv THEN Shuffled(@, m.codes, adv, rt) ELSE @]
  /\ UNCHANGED <<zoneCards, tempCards, disabledZones, registerVars>>

HandleShuffleLocation(m, adv, rt) ==
  /\ m.type = "ShuffleLocation"
  /\ piles' = [piles EXCEPT ![m.player][m.location] =
                 Shuffled(@, m.codes, adv, rt)]
  /\ UNCHANGED <<zoneCards, tempCards, disabledZones, registerVars>>

\* m.previous has the places, with the position each card has; m.current is
\* empty, or has the code and the position each card gets.
HandleShuffleSetCards(m, adv, rt) ==
  LET step(b, i) ==
        IF m.current = <<>>
        THEN StepAt(b, m.previous[i].place, adv, rt, 0, m.previous[i].position)
        ELSE StepAt(b, m.previous[i].place, adv, rt,
                    m.current[i].code, m.current[i].position)
      after[i \in 0 .. Len(m.previous)] ==
        IF i = 0 THEN Cards ELSE step(after[i - 1], i)
  IN  /\ m.type = "ShuffleSetCards"
      /\ CardsBecome(after[Len(m.previous)])
      /\ UNCHANGED <<tempCards, disabledZones, registerVars>>

----------------------------------------------------------------------------
(* Counters *)

\* The cards that adding count counters of a type to card may leave.
AddCounter(card, type, count, rt) ==
  LET some == type \in DOMAIN card.counters
      old == IF some THEN ReadValues(card.counters[type]) ELSE {0}
      counter == IF some THEN card.counters[type] ELSE NewSequential(0)
  IN  {[card EXCEPT !.counters =
          (type :> AddOrNext(counter, rt, n + count)) @@ @] : n \in old}

RemoveCounter(card, type) ==
  LET counter == IF type \in DOMAIN card.counters
                 THEN card.counters[type] ELSE NewSequential(0)
  IN  [card EXCEPT !.counters = (type :> Prev(counter)) @@ @]

HandleCounterChange(m, adv, rt) ==
  LET card == GetCard(Cards, m.place)
      adds == (m.change = "ADD") = adv
  IN  /\ m.type = "CounterChange"
      /\ \E c \in IF adds THEN AddCounter(card, m.counter, m.count, rt)
                          ELSE {RemoveCounter(card, m.counter)} :
           CardsBecome(SetCard(Cards, m.place, c))
      /\ UNCHANGED <<tempCards, disabledZones, registerVars>>

----------------------------------------------------------------------------
(* Zones and registers *)

\* The keys that the initialiser of disabledZones makes.
DisableableZones ==
  {Place(con, loc, seq) : con \in {0}, loc \in {"MZONE"}, seq \in 0 .. 6}
    \cup {Place(con, loc, seq) : con \in {0}, loc \in {"SZONE"}, seq \in 0 .. 5}
    \cup {Place(con, loc, seq) : con \in {0}, loc \in {"PZONE"}, seq \in 0 .. 1}

\* A redo steps, and then it records and steps once more.
BlockZone(s, blocked, rt) ==
  AddOrNext(IF rt THEN s ELSE AddOrNext(s, FALSE, FALSE), TRUE, blocked)

HandleDisableZones(m, adv, rt) ==
  /\ m.type = "DisableZones"
  /\ disabledZones' =
       [z \in DOMAIN disabledZones |->
          IF adv THEN BlockZone(disabledZones[z], z \in m.places, rt)
                 ELSE Prev(disabledZones[z])]
  /\ UNCHANGED <<cardVars, registerVars>>

\* int32_t minus uint32_t is a uint32_t: the difference is never below zero.
LpAfter(lp, m) ==
  LET delta == (lp - m.amount) % LPModulus
  IN  CASE m.change \in {"DAMAGE", "PAY"} -> IF delta < 0 THEN 0 ELSE delta
        [] m.change = "RECOVER" -> (lp + m.amount) % LPModulus
        [] OTHER -> m.amount

HandleLpChange(m, adv, rt) ==
  /\ m.type = "LpChange"
  /\ \E lp \in ReadValues(playerLP[m.player]) :
       playerLP' = [playerLP EXCEPT ![m.player] =
                      Step(@, adv, rt, LpAfter(lp, m))]
  /\ UNCHANGED <<cardVars, disabledZones, turn, turnPlayer, phase>>

\* Mutant: a rewound turn keeps its player.
NewTurnKeepsPlayer(m, adv, rt) ==
  /\ m.type = "NewTurn"
  /\ turn' = IF adv THEN turn + 1 ELSE turn - 1
  /\ turnPlayer' = IF adv THEN AddOrNext(turnPlayer, rt, m.turnPlayer)
                          ELSE turnPlayer
  /\ UNCHANGED <<cardVars, disabledZones, playerLP, phase>>

HandleNewTurn(m, adv, rt) ==
  /\ m.type = "NewTurn"
  /\ turn' = IF adv THEN turn + 1 ELSE turn - 1
  /\ turnPlayer' = Step(turnPlayer, adv, rt, m.turnPlayer)
  /\ UNCHANGED <<cardVars, disabledZones, playerLP, phase>>

\* Mutant: a rewound phase stays.
NewPhaseNotUndone(m, adv, rt) ==
  /\ m.type = "NewPhase"
  /\ phase' = IF adv THEN AddOrNext(phase, rt, m.phase) ELSE phase
  /\ UNCHANGED <<cardVars, disabledZones, playerLP, turn, turnPlayer>>

HandleNewPhase(m, adv, rt) ==
  /\ m.type = "NewPhase"
  /\ phase' = Step(phase, adv, rt, m.phase)
  /\ UNCHANGED <<cardVars, disabledZones, playerLP, turn, turnPlayer>>

----------------------------------------------------------------------------
(* Interpretation and the client's operations *)

CriticalMsgs == {"UpdateCard", "AddCard", "RemoveCard", "Draw", "SwapCards",
                 "ShuffleLocation", "ShuffleSetCards", "CounterChange",
                 "DisableZones", "LpChange", "NewTurn", "NewPhase"}

IgnoreMsg(m) ==
  /\ m.type \notin CriticalMsgs
  /\ UNCHANGED <<cardVars, disabledZones, registerVars>>

InterpretMsg(m, at, adv, rt) ==
  \/ HandleUpdateCard(m, adv, rt)
  \/ HandleAddCard(m, at, adv, rt)
  \/ HandleRemoveCard(m, at, adv)
  \/ HandleDraw(m, adv, rt)
  \/ HandleSwapCards(m, adv, rt)
  \/ HandleShuffleLocation(m, adv, rt)
  \/ HandleShuffleSetCards(m, adv, rt)
  \/ HandleCounterChange(m, adv, rt)
  \/ HandleDisableZones(m, adv, rt)
  \/ HandleLpChange(m, adv, rt)
  \/ HandleNewTurn(m, adv, rt)
  \/ HandleNewPhase(m, adv, rt)
  \/ IgnoreMsg(m)

\* MoveSingle throws when both places are the same.
Throws(m) ==
  \/ m.type = "UpdateCard" /\ m.reason = "MOVE" /\ m.previous = m.current
  \/ m.type = "SwapCards" /\ m.card1 = m.card2

AppendMsg(m) ==
  /\ msgs' = Append(msgs, m)
  /\ UNCHANGED <<state, processedState, cardVars, disabledZones, registerVars>>

\* Mutant: every Forward counts as new.
MarkEveryMessage == processedState' = processedState + 1

MarkProcessed == processedState' = IF state = processedState
                                   THEN processedState + 1 ELSE processedState

Forward ==
  /\ state < Len(msgs)
  /\ ~Throws(msgs[state + 1])
  /\ MarkProcessed
  /\ InterpretMsg(msgs[state + 1], state, TRUE, state = processedState)
  /\ state' = state + 1
  /\ UNCHANGED msgs

\* The handler throws out of Forward: the message is marked as processed, the
\* state does not advance, and a swap has already taken the first card away.
ForwardThrows ==
  /\ state < Len(msgs)
  /\ Throws(msgs[state + 1])
  /\ MarkProcessed
  /\ LET m == msgs[state + 1]
     IN  IF m.type = "SwapCards" /\ Occupied(Cards, m.card1)
         THEN CardsBecome(EraseCard(Cards, m.card1))
         ELSE UNCHANGED <<piles, zoneCards>>
  /\ UNCHANGED <<msgs, state, tempCards, disabledZones, registerVars>>

Backward ==
  /\ state > 0
  /\ InterpretMsg(msgs[state], state - 1, FALSE, FALSE)
  /\ state' = state - 1
  /\ UNCHANGED <<msgs, processedState>>

TurnFaceDown(card) == [card EXCEPT !.pos = AddOrNext(@, TRUE, FACEDOWN)]

\* pile.resize(num), then every card of the pile is turned face-down.
FillPile(controller, location, num) ==
  /\ piles' = [piles EXCEPT ![controller][location] =
       [i \in 1 .. num |->
          TurnFaceDown(IF i <= Len(@) THEN @[i] ELSE NewCard)]]
  /\ UNCHANGED <<timelineVars, zoneCards, tempCards, disabledZones,
                 registerVars>>

SetLP(controller, lp) ==
  /\ playerLP' = [playerLP EXCEPT ![controller] = AddOrNext(@, TRUE, lp)]
  /\ UNCHANGED <<timelineVars, cardVars, disabledZones, turn, turnPlayer,
                 phase>>

BoardInit ==
  /\ msgs = <<>> /\ state = 0 /\ processedState = 0
  /\ piles = [p \in Players |-> [l \in PileLocations |-> <<>>]]
  /\ zoneCards = EmptyMap /\ tempCards = EmptyMap
  /\ disabledZones = [z \in DisableableZones |-> NewSequential(FALSE)]
  /\ playerLP = [p \in Players |-> NewSequential(0)]
  /\ turn = 0
  /\ turnPlayer = NewSequential(0)
  /\ phase = NewSequential(0)
=============================================================================
