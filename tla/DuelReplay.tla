----------------------------- MODULE DuelReplay -----------------------------
(***************************************************************************)
(* The composition: a client that sets its board up, receives the messages  *)
(* of a duel (DuelTable) and plays, rewinds and replays them on the board   *)
(* (DuelBoard) in any order.  tables and frames are history variables: they *)
(* record what the duel was and what the board showed, for the properties,  *)
(* and no action of the board reads them.                                   *)
(***************************************************************************)
EXTENDS DuelBoard, DuelTable

CONSTANTS
  FillSizes,   \* the initial piles: a function from places to sizes
  InitialLP,   \* the initial life points: a function from players
  MaxMsgs,     \* bound on the number of messages of a duel
  MaxRecords   \* bound on the recording of a zone, which every replay grows

\* The piles are filled, and the life points are uint32_t like LPModulus says,
\* the ones of the core too.
ASSUME ClientAssumption ==
  /\ \A p \in DOMAIN FillSizes :
       p.con \in Players /\ p.loc \in PileLocations /\ FillSizes[p] \in Nat
  /\ DOMAIN InitialLP \subseteq Players
  /\ \A p \in DOMAIN InitialLP :
       InitialLP[p] \in Nat /\ InitialLP[p] < LPModulus
  /\ LPBound \in Nat /\ LPBound <= LPModulus

VARIABLES
  tables,      \* tables[i + 1] is the duel after i messages
  frames       \* frames[i + 1] is what was shown when state first was i

vars == <<boardVars, tables, frames>>

----------------------------------------------------------------------------
(* What the board shows *)

ShownCard(card) ==
  [code |-> Shown(card.code), pos |-> Shown(card.pos),
   counters |-> [type \in CounterTypes |->
                   IF type \in DOMAIN card.counters
                   THEN Shown(card.counters[type]) ELSE 0]]

View ==
  [piles |-> [p \in Players |-> [l \in PileLocations |->
                [i \in DOMAIN piles[p][l] |-> ShownCard(piles[p][l][i])]]],
   zones |-> [p \in DOMAIN zoneCards |-> ShownCard(zoneCards[p])],
   lp |-> [p \in Players |-> Shown(playerLP[p])],
   turn |-> turn,
   turnPlayer |-> Shown(turnPlayer),
   phase |-> Shown(phase),
   disabled |-> {z \in DOMAIN disabledZones :
                   /\ InRange(disabledZones[z])
                   /\ Shown(disabledZones[z])}]

----------------------------------------------------------------------------
(* The client *)

FillOnce ==
  \E p \in DOMAIN FillSizes :
    /\ piles[p.con][p.loc] = <<>>
    /\ FillPile(p.con, p.loc, FillSizes[p])

SetLPOnce ==
  \E p \in DOMAIN InitialLP :
    /\ Len(playerLP[p].vec) = 1
    /\ SetLP(p, InitialLP[p])

\* The client sets its board up before the first message of the duel.
SetUp ==
  /\ msgs = <<>>
  /\ FillOnce \/ SetLPOnce
  /\ frames' = <<View'>>
  /\ UNCHANGED tables

Duel == IF msgs = <<>> THEN <<View>> ELSE tables

Receive ==
  /\ Len(msgs) < MaxMsgs
  /\ \E m \in CoreMsgs(Duel[Len(Duel)]) :
       /\ AppendMsg(m)
       /\ tables' = Append(Duel, Effect(Duel[Len(Duel)], m))
  /\ UNCHANGED frames

Play ==
  /\ Forward
  /\ \A z \in DOMAIN disabledZones : Len(disabledZones[z].vec) < MaxRecords
  /\ frames' = IF state = processedState THEN Append(frames, View') ELSE frames
  /\ UNCHANGED tables

PlayThrows == ForwardThrows /\ UNCHANGED <<tables, frames>>

Rewind == Backward /\ UNCHANGED <<tables, frames>>

Init == BoardInit /\ tables = <<>> /\ frames = <<View>>

Next == SetUp \/ Receive \/ Play \/ PlayThrows \/ Rewind

Spec == Init /\ [][Next]_vars
----------------------------------------------------------------------------
(* Properties *)

SequentialOf(V) == [vec : Seq(V), pos : Int]

CardType == [code : SequentialOf(Nat), pos : SequentialOf(Nat)]

IsCard(card) ==
  /\ [code |-> card.code, pos |-> card.pos] \in CardType
  /\ \A type \in DOMAIN card.counters : card.counters[type] \in SequentialOf(Nat)

CursorOK ==
  /\ state \in Nat /\ processedState \in Nat
  /\ state <= processedState /\ processedState <= Len(msgs)

RegistersOK ==
  /\ playerLP \in [Players -> SequentialOf(Nat)]
  /\ turn \in Nat
  /\ turnPlayer \in SequentialOf(Players)
  /\ phase \in SequentialOf(Nat)

\* The types of the board, and the order of its cursors in the message list.
TypeOK ==
  /\ CursorOK /\ RegistersOK
  /\ \A p \in Players, l \in PileLocations :
       \A i \in DOMAIN piles[p][l] : IsCard(piles[p][l][i])
  /\ \A p \in DOMAIN zoneCards : ~IsPile(p) /\ IsCard(zoneCards[p])
  /\ \A t \in DOMAIN tempCards : t.state \in Nat /\ IsCard(tempCards[t])
  /\ disabledZones \in [DisableableZones -> SequentialOf(BOOLEAN)]

\* After i messages the board shows the duel as it was after i messages,
\* whether the messages were just played, rewound to or replayed
\* (board.hpp:85-108).
MirrorsCore == View = Duel[state + 1]

\* A board that has caught up with the duel shows the duel, whatever was
\* rewound and replayed before (board.hpp:85-96, the realtime case).
LiveMirror == state = processedState => View = Duel[state + 1]

TL == INSTANCE Timeline WITH film <- frames, cursor <- state, shown <- View

\* The board implements the abstract recorder: stepping back and forth never
\* changes what a position of the duel shows (board.hpp:85-108).
ReplayIsTimeline == TL!Spec

BoardCards ==
  (UNION {{piles[p][l][i] : i \in DOMAIN piles[p][l]} :
            p \in Players, l \in PileLocations})
    \cup {zoneCards[p] : p \in DOMAIN zoneCards}

\* No cursor of a card ever leaves its recording, for cards on the board and
\* for cards that wait in tempCards: an operator() of a display is defined,
\* and no moved-from card stays in a container (card.hpp:16-33).
CardCursorsInRange ==
  \A card \in BoardCards \cup {tempCards[t] : t \in DOMAIN tempCards} :
    InRange(card.code) /\ InRange(card.pos)

\* When the next message is a new one, the cursor of every recording that
\* it may append to is on the last value: appending then stepping once shows
\* the new value (card.hpp:16-21).
HeadIsLast ==
  state = processedState =>
    /\ \A card \in BoardCards :
         /\ AtEnd(card.code) /\ AtEnd(card.pos)
         /\ \A type \in DOMAIN card.counters : AtEnd(card.counters[type])
    /\ \A z \in DOMAIN disabledZones : AtEnd(disabledZones[z])
    /\ \A p \in Players : AtEnd(playerLP[p])
    /\ AtEnd(turnPlayer) /\ AtEnd(phase)

\* tempCards holds exactly the cards that are off the board at this state:
\* the ones whose AddCard is rewound and the ones whose RemoveCard is applied
\* (board.hpp:157-159).
TempHoldsAbsentCards ==
  DOMAIN tempCards =
    {TempPlace(i - 1, msgs[i].place) : i \in
       {j \in 1 .. processedState :
          \/ msgs[j].type = "AddCard" /\ j > state
          \/ msgs[j].type = "RemoveCard" /\ j <= state}}

\* What the board shows of the registers at a state is what it showed when
\* the state was first reached (board.hpp:703-757).
Registers(view) == <<view.lp, view.turn, view.turnPlayer, view.phase>>

RegistersReplay ==
  /\ state + 1 \in DOMAIN frames
  /\ Registers(View) = Registers(frames[state + 1])

\* A message that throws is the end of the duel for this board: it is marked
\* as processed but never applied, so no later message is ever played.
ThrowIsTheEnd ==
  \A i \in DOMAIN msgs : Throws(msgs[i]) => state < i /\ processedState <= i

\* The cursor of a counter stays in its recording too (card.hpp:22-25).
CounterCursorsInRange ==
  \A card \in BoardCards : \A type \in DOMAIN card.counters :
    InRange(card.counters[type])

\* Damage and costs are subtracted: playing the message never raises the
\* life points (core_msg_information.proto, LpChange).
DamageNeverRaisesLP ==
  \A i \in 1 .. Len(frames) - 1 :
    msgs[i].type = "LpChange" /\ msgs[i].change \in {"DAMAGE", "PAY"}
      => frames[i + 1].lp[msgs[i].player] <= frames[i].lp[msgs[i].player]

\* "Initialized with all the zones that can be blocked" (board.hpp:166-172):
\* a board that has caught up shows every blocked zone as blocked.
BlockedZonesShown ==
  state = processedState => Duel[state + 1].disabled \subseteq View.disabled
----------------------------------------------------------------------------
(* Why the registers replay: the inductive invariant of RegisterProofs.     *)
(*                                                                          *)
(* A register is touched by some of the messages.  Counted from the end of  *)
(* its recording, the value that belongs to state i is as many places back  *)
(* as messages after i touched it; the cursor is where the state's value    *)
(* is.  Counting from the end makes a new value leave the old ones in place.*)

Reach == Len(frames) - 1

After(T, i, n) == T \cap (i + 1 .. n)

Recorded(s, T, k, n, fr) ==
  /\ s.pos = Len(s.vec) - 1 - Cardinality(After(T, k, n))
  /\ \A i \in 0 .. n :
       /\ Cardinality(After(T, i, n)) < Len(s.vec)
       /\ s.vec[Len(s.vec) - Cardinality(After(T, i, n))] = fr[i + 1]

TurnMsgs == {j \in DOMAIN msgs : msgs[j].type = "NewTurn"}
PhaseMsgs == {j \in DOMAIN msgs : msgs[j].type = "NewPhase"}
LpMsgsOf(p) ==
  {j \in DOMAIN msgs : msgs[j].type = "LpChange" /\ msgs[j].player = p}

MsgOK(m) ==
  /\ m.type = "LpChange" => m.player \in Players /\ m.amount \in Nat
  /\ m.type = "NewTurn" => m.turnPlayer \in Players
  /\ m.type = "NewPhase" => m.phase \in Nat

IsSeq(s) == s \in Seq({s[i] : i \in DOMAIN s})

HistoryInv ==
  /\ IsSeq(msgs) /\ IsSeq(frames) /\ frames # <<>>
  /\ \A i \in DOMAIN msgs : MsgOK(msgs[i])

\* Reach is the last state the board ever was in: all processed messages are
\* behind it, but for one that threw.
ReachInv ==
  /\ state \in Nat /\ processedState \in Nat
  /\ state <= Reach /\ Reach <= processedState /\ processedState <= Len(msgs)
  /\ processedState # Reach =>
       processedState = Reach + 1 /\ Throws(msgs[processedState])
  /\ \A i \in 1 .. Reach : ~Throws(msgs[i])

TypesInv ==
  /\ playerLP \in [Players -> SequentialOf(Nat)]
  /\ turnPlayer \in SequentialOf(Players)
  /\ phase \in SequentialOf(Nat)

TurnPlayerFilm == [i \in DOMAIN frames |-> frames[i].turnPlayer]
PhaseFilm == [i \in DOMAIN frames |-> frames[i].phase]
LpFilm(p) == [i \in DOMAIN frames |-> frames[i].lp[p]]

RecordsInv ==
  /\ Recorded(turnPlayer, TurnMsgs, state, Reach, TurnPlayerFilm)
  /\ Recorded(phase, PhaseMsgs, state, Reach, PhaseFilm)
  /\ \A p \in Players :
       Recorded(playerLP[p], LpMsgsOf(p), state, Reach, LpFilm(p))

TurnInv ==
  /\ turn = Cardinality(After(TurnMsgs, 0, state))
  /\ \A i \in 0 .. Reach :
       frames[i + 1].turn = Cardinality(After(TurnMsgs, 0, i))

FrameInv ==
  \A i \in DOMAIN frames :
    frames[i].lp = [p \in Players |-> frames[i].lp[p]]

RegisterInv ==
  HistoryInv /\ ReachInv /\ TypesInv /\ RecordsInv /\ TurnInv /\ FrameInv
=============================================================================
