----------------------------- MODULE ZoneProofs -----------------------------
(***************************************************************************)
(* A board that has caught up shows every blocked zone as blocked, for     *)
(* duels of any messages and any order of plays, rewinds and replays,      *)
(* although a DisableZones that is replayed records its zones anew.        *)
(***************************************************************************)
EXTENDS RegisterProofs

DisableMsgs == {j \in DOMAIN msgs : msgs[j].type = "DisableZones"}

\* The messages that are still to be replayed and that block zones.
ToReplay == After(DisableMsgs, state, processedState)

\* The duel is known after every message, and its zones change with the
\* messages that say so.
TablesInv ==
  /\ IsSeq(Duel) /\ Len(Duel) = Len(msgs) + 1
  /\ \A i \in 1 .. Len(Duel) : "disabled" \in DOMAIN Duel[i]
  /\ \A i \in DOMAIN msgs :
       Duel[i + 1].disabled = IF i \in DisableMsgs THEN msgs[i].places
                                                  ELSE Duel[i].disabled
  /\ \A i \in 1 .. Len(Duel) : Duel[i].disabled \subseteq BlockableZones

\* The recording of a zone that the duel has blocked or not, when c messages
\* are to be replayed.  A rewind leaves the cursor one behind; a replay records
\* once and steps twice.  So the cursor is as far from the end as there are
\* messages to replay, and when none is left the last value is the duel's.
ZoneRecorded(V, s, c, blocked) ==
  /\ s \in SequentialOf(V) /\ Len(s.vec) > 0
  /\ s.pos = Len(s.vec) - 1 - c
  /\ c = 0 => s.vec[Len(s.vec)] = blocked

ZonesInv ==
  /\ DOMAIN disabledZones = DisableableZones
  /\ disabledZones = [z \in DOMAIN disabledZones |-> disabledZones[z]]
  /\ \A z \in DisableableZones :
       ZoneRecorded(BOOLEAN, disabledZones[z], Cardinality(ToReplay),
                    z \in Duel[state + 1].disabled)

FreshZones == disabledZones = [z \in DisableableZones |-> NewSequential(FALSE)]

NoMsgYet == msgs = <<>> /\ FreshZones

ZoneInv ==
  /\ RegisterInv /\ TablesInv /\ ZonesInv
  /\ msgs = <<>> => FreshZones

----------------------------------------------------------------------------
(* What a message does to the zones, on the board and in the duel *)

LEMMA InterpretZones ==
  ASSUME NEW m, NEW at, NEW adv, NEW rt, InterpretMsg(m, at, adv, rt)
  PROVE  \/ HandleDisableZones(m, adv, rt)
         \/ m.type # "DisableZones" /\ UNCHANGED disabledZones
<1> DEFINE Other == m.type # "DisableZones" /\ UNCHANGED disabledZones
<1>1. HandleUpdateCard(m, adv, rt) => Other
  BY DEF HandleUpdateCard
<1>2. HandleAddCard(m, at, adv, rt) => Other
  BY DEF HandleAddCard
<1>3. HandleRemoveCard(m, at, adv) => Other
  BY DEF HandleRemoveCard
<1>4. HandleDraw(m, adv, rt) => Other
  BY DEF HandleDraw
<1>5. HandleSwapCards(m, adv, rt) => Other
  BY DEF HandleSwapCards
<1>6. HandleShuffleLocation(m, adv, rt) => Other
  BY DEF HandleShuffleLocation
<1>7. HandleShuffleSetCards(m, adv, rt) => Other
  BY DEF HandleShuffleSetCards
<1>8. HandleCounterChange(m, adv, rt) => Other
  BY DEF HandleCounterChange
<1>9. HandleLpChange(m, adv, rt) => Other
  BY DEF HandleLpChange
<1>10. HandleNewTurn(m, adv, rt) => Other
  BY DEF HandleNewTurn
<1>11. HandleNewPhase(m, adv, rt) => Other
  BY DEF HandleNewPhase
<1>12. IgnoreMsg(m) => Other
  BY DEF IgnoreMsg, CriticalMsgs
<1> QED
  BY <1>1, <1>2, <1>3, <1>4, <1>5, <1>6, <1>7, <1>8, <1>9, <1>10, <1>11, <1>12
     DEF InterpretMsg

\* The operators on places leave the rest of a table alone.
SameBlocked(t, u) ==
  "disabled" \in DOMAIN u /\ u.disabled = t.disabled

LEMMA PlacesKeepBlocked ==
  ASSUME NEW t, "disabled" \in DOMAIN t, NEW p, NEW card
  PROVE  /\ SameBlocked(t, InsertCard(t, p, card))
         /\ SameBlocked(t, EraseCard(t, p))
         /\ SameBlocked(t, SetCard(t, p, card))
BY DEF SameBlocked, InsertCard, EraseCard, SetCard, PutPile

LEMMA TakenKeepsBlocked ==
  ASSUME NEW t, "disabled" \in DOMAIN t, NEW p
  PROVE  SameBlocked(t, TakenFrom(t, p))
<1>1. SameBlocked(t, EraseCard(t, p))
  BY PlacesKeepBlocked
<1> QED
  BY <1>1 DEF TakenFrom, SameBlocked

LEMMA EffectBlocks ==
  ASSUME NEW t, "disabled" \in DOMAIN t, NEW m
  PROVE  /\ "disabled" \in DOMAIN Effect(t, m)
         /\ Effect(t, m).disabled =
              IF m.type = "DisableZones" THEN m.places ELSE t.disabled
<1>1. CASE m.type = "UpdateCard"
  <2>1. SameBlocked(t, Moved(t, m))
    BY PlacesKeepBlocked, TakenKeepsBlocked DEF Moved, SameBlocked
  <2> QED
    BY <1>1, <2>1, PlacesKeepBlocked DEF Effect, UpdateEffect, SameBlocked
<1>2. CASE m.type = "AddCard"
  BY <1>2, PlacesKeepBlocked DEF Effect, SameBlocked
<1>3. CASE m.type = "RemoveCard"
  BY <1>3, TakenKeepsBlocked DEF Effect, SameBlocked
<1>4. CASE m.type = "Draw"
  BY <1>4 DEF Effect, DrawEffect
<1>5. CASE m.type = "SwapCards"
  BY <1>5 DEF Effect, SwapEffect
<1>6. CASE m.type = "ShuffleLocation"
  BY <1>6 DEF Effect, ShuffleEffect
<1>7. CASE m.type = "ShuffleSetCards"
  BY <1>7 DEF Effect, ShuffleSetEffect
<1>8. CASE m.type = "CounterChange"
  BY <1>8 DEF Effect, CounterEffect
<1>9. CASE m.type = "DisableZones"
  BY <1>9 DEF Effect
<1>10. CASE m.type = "LpChange"
  BY <1>10 DEF Effect, LpEffect
<1>11. CASE m.type \in {"NewTurn", "NewPhase"}
  BY <1>11 DEF Effect
<1>12. CASE m.type = "MiscAction"
  BY <1>12 DEF Effect, SwapGraveDeckEffect
<1>13. CASE m.type \notin {"UpdateCard", "AddCard", "RemoveCard", "Draw",
                           "SwapCards", "ShuffleLocation", "ShuffleSetCards",
                           "CounterChange", "DisableZones", "LpChange",
                           "NewTurn", "NewPhase", "MiscAction"}
  BY <1>13 DEF Effect
<1> QED
  BY <1>1, <1>2, <1>3, <1>4, <1>5, <1>6, <1>7, <1>8, <1>9, <1>10, <1>11,
     <1>12, <1>13

\* The core blocks zones that can be blocked.
LEMMA CoreMsgsBlock ==
  ASSUME NEW t, NEW m \in CoreMsgs(t), m.type = "DisableZones"
  PROVE  m.places \subseteq BlockableZones
<1>1. PICK kind \in Kinds : m \in MsgsOfKind(kind, t)
  BY DEF CoreMsgs
<1>2. kind \in AllKinds
  BY TableAssumption
<1>3. \A reason, pairs : m \notin Updates(reason, pairs)
  BY DEF Updates
<1>4. \A places : \A type \in {"AddCard", "RemoveCard"} : m \notin Placed(type, places)
  BY DEF Placed
<1>5. kind \notin {"Move", "DetachLower", "SamePile", "SelfMove", "InPlace"}
  BY <1>1, <1>3 DEF MsgsOfKind, MoveMsgs, Moves, SamePileMoves, SelfMoves,
                    InPlaceMsgs
<1>6. kind \notin {"DeckTop", "BelowDeckTop"}
  BY <1>1 DEF MsgsOfKind, DeckTopMsgs
<1>7. kind \notin {"Add", "Remove"}
  BY <1>1, <1>4 DEF MsgsOfKind
<1>8. kind # "Draw"
  BY <1>1 DEF MsgsOfKind, DrawMsgs
<1>9. kind \notin {"Swap", "SelfSwap"}
  BY <1>1 DEF MsgsOfKind, SwapMsgs, SelfSwaps
<1>10. kind # "Shuffle"
  BY <1>1 DEF MsgsOfKind, ShuffleMsgs
<1>11. kind # "ShuffleSet"
  BY <1>1 DEF MsgsOfKind, ShuffleSetMsgs
<1>12. kind \notin {"CounterAdd", "CounterRemove"}
  BY <1>1 DEF MsgsOfKind, Counters, CounterRemovals
<1>13. kind \notin {"Lp", "Overkill"}
  BY <1>1 DEF MsgsOfKind, FairLpMsgs, OverkillMsgs, LpMsgs
<1>14. kind \notin {"Turn", "Phase", "SwapGraveDeck", "Hint"}
  BY <1>1 DEF MsgsOfKind
<1>15. kind = "Disable"
  BY <1>2, <1>5, <1>6, <1>7, <1>8, <1>9, <1>10, <1>11, <1>12, <1>13, <1>14
     DEF AllKinds
<1> QED
  BY <1>1, <1>15 DEF MsgsOfKind

----------------------------------------------------------------------------
(* The steps of one recording *)

LEMMA AppendedZone ==
  ASSUME NEW V, NEW s, NEW c \in Nat, NEW old, NEW new \in V, NEW t,
         ZoneRecorded(V, s, c, old),
         \/ c = 0 /\ t = [vec |-> Append(s.vec, new), pos |-> s.pos + 1]
         \/ c > 0 /\ t = [vec |-> Append(s.vec, new), pos |-> s.pos + 2]
  PROVE  ZoneRecorded(V, t, IF c = 0 THEN 0 ELSE c - 1, new)
<1>1. s.vec \in Seq(V) /\ Len(s.vec) \in Nat /\ s.pos \in Int
      /\ s.pos = Len(s.vec) - 1 - c
  BY DEF ZoneRecorded, SequentialOf
<1>2. t.vec = Append(s.vec, new) /\ t = [vec |-> t.vec, pos |-> t.pos]
      /\ t.pos \in Int
  BY <1>1
<1>3. /\ t.vec \in Seq(V) /\ Len(t.vec) = Len(s.vec) + 1
      /\ t.vec[Len(t.vec)] = new
  BY <1>1, <1>2, AppendProperties
<1>4. t \in SequentialOf(V)
  BY <1>2, <1>3 DEF SequentialOf
<1>5. t.pos = Len(t.vec) - 1 - IF c = 0 THEN 0 ELSE c - 1
  BY <1>1, <1>2, <1>3
<1> QED
  BY <1>1, <1>3, <1>4, <1>5 DEF ZoneRecorded

\* A message that is new records and steps once, one that is replayed steps
\* once more.
LEMMA ZoneBlocks ==
  ASSUME NEW V, NEW s, NEW c \in Nat, NEW old, NEW new \in V, NEW rt,
         rt <=> c = 0, ZoneRecorded(V, s, c, old)
  PROVE  ZoneRecorded(V, BlockZone(s, new, rt), IF c = 0 THEN 0 ELSE c - 1, new)
<1>1. s.pos \in Int
  BY DEF ZoneRecorded, SequentialOf
<1>2. CASE rt
  <2>1. BlockZone(s, new, rt) = [vec |-> Append(s.vec, new), pos |-> s.pos + 1]
    BY <1>2 DEF BlockZone, AddOrNext
  <2> QED
    BY <1>2, <2>1, AppendedZone
<1>3. CASE ~rt
  <2>1. BlockZone(s, new, rt) = [vec |-> Append(s.vec, new), pos |-> s.pos + 1 + 1]
    BY <1>3 DEF BlockZone, AddOrNext
  <2>2. s.pos + 1 + 1 = s.pos + 2
    BY <1>1
  <2> QED
    BY <1>3, <2>1, <2>2, AppendedZone
<1> QED
  BY <1>2, <1>3

LEMMA ZoneRewinds ==
  ASSUME NEW V, NEW s, NEW c \in Nat, NEW old, NEW new, ZoneRecorded(V, s, c, old)
  PROVE  ZoneRecorded(V, Prev(s), c + 1, new)
<1>1. s.vec \in Seq(V) /\ Len(s.vec) \in Nat /\ s.pos \in Int
  BY DEF ZoneRecorded, SequentialOf
<1>2. PICK t : t = Prev(s)
  OBVIOUS
<1>3. t.vec = s.vec /\ t.pos = s.pos - 1 /\ t \in SequentialOf(V)
  BY <1>2 DEF Prev, ZoneRecorded, SequentialOf
<1>4. c + 1 # 0 /\ t.pos = Len(t.vec) - 1 - (c + 1) /\ Len(t.vec) > 0
  BY <1>1, <1>3 DEF ZoneRecorded
<1> QED
  BY <1>2, <1>3, <1>4 DEF ZoneRecorded

LEMMA ZoneIsFresh ==
  ASSUME NEW V, NEW v \in V
  PROVE  /\ ZoneRecorded(V, NewSequential(v), 0, v)
         /\ Shown(NewSequential(v)) = v
<1>1. <<v>> \in Seq(V) /\ Len(<<v>>) = 1 /\ <<v>>[1] = v
  OBVIOUS
<1> QED
  BY <1>1 DEF ZoneRecorded, NewSequential, SequentialOf, Shown, InRange

----------------------------------------------------------------------------
(* The actions *)

\* Facts that every step starts from.
LEMMA ZoneFacts ==
  ASSUME ZoneInv
  PROVE  /\ Len(msgs) \in Nat /\ DOMAIN msgs = 1 .. Len(msgs)
         /\ DisableMsgs \in SUBSET Nat
         /\ state \in Nat /\ processedState \in Nat
         /\ state <= processedState /\ processedState <= Len(msgs)
         /\ Cardinality(ToReplay) \in Nat
<1>1. /\ Len(msgs) \in Nat /\ DOMAIN msgs = 1 .. Len(msgs)
      /\ state \in Nat /\ processedState \in Nat /\ Reach \in Nat
      /\ state <= Reach /\ Reach <= processedState /\ processedState <= Len(msgs)
  BY InvFacts DEF ZoneInv, RegisterInv, ReachInv
<1>2. DisableMsgs \in SUBSET Nat
  BY <1>1 DEF DisableMsgs
<1> QED
  BY <1>1, <1>2, CountAfter DEF ToReplay

\* A board without messages.
LEMMA FreshZoneInv == RegisterInv /\ NoMsgYet => ZoneInv
<1> SUFFICES ASSUME RegisterInv, msgs = <<>>, FreshZones PROVE ZoneInv
  BY DEF NoMsgYet
<1>1. /\ Len(msgs) = 0 /\ DOMAIN msgs = {} /\ state = 0 /\ processedState = 0
  BY ShortSeqs, InvFacts DEF RegisterInv, ReachInv
<1>2. Duel = <<View>>
  BY DEF Duel
<1>3. IsSeq(Duel) /\ Len(Duel) = 1 /\ DOMAIN Duel = {1} /\ Duel[1] = View
  BY <1>2, ShortSeqs
<1>4. ASSUME NEW z \in DOMAIN disabledZones
      PROVE  ~Shown(disabledZones[z])
  <2>1. disabledZones[z] = NewSequential(FALSE)
    BY <1>4 DEF FreshZones
  <2>2. Shown(NewSequential(FALSE)) = FALSE
    BY ZoneIsFresh
  <2> QED
    BY <2>1, <2>2, Zenon
<1>5. View.disabled = {} /\ "disabled" \in DOMAIN View
  BY <1>4 DEF View
<1>6. TablesInv
  BY <1>1, <1>3, <1>5 DEF TablesInv
<1>7. Cardinality(ToReplay) = 0
  <2>1. DisableMsgs = {}
    BY <1>1 DEF DisableMsgs
  <2> QED
    BY <1>1, <2>1, CountAfter DEF ToReplay
<1>8. ZonesInv
  <2>1. /\ DOMAIN disabledZones = DisableableZones
        /\ disabledZones = [z \in DOMAIN disabledZones |-> disabledZones[z]]
    BY DEF FreshZones
  <2>2. Duel[state + 1].disabled = {}
    BY <1>1, <1>3, <1>5
  <2>3. ASSUME NEW z \in DisableableZones
        PROVE  ZoneRecorded(BOOLEAN, disabledZones[z], Cardinality(ToReplay),
                            z \in Duel[state + 1].disabled)
    <3>1. disabledZones[z] = NewSequential(FALSE)
      BY <2>3 DEF FreshZones
    <3>2. (z \in Duel[state + 1].disabled) = FALSE
      BY <2>2
    <3>3. ZoneRecorded(BOOLEAN, NewSequential(FALSE), 0, FALSE)
      BY ZoneIsFresh
    <3> QED
      BY <1>7, <3>1, <3>2, <3>3, Zenon
  <2> QED
    BY <2>1, <2>3 DEF ZonesInv
<1> QED
  BY <1>6, <1>8 DEF ZoneInv

LEMMA ZoneSetUp == ZoneInv /\ SetUp => ZoneInv'
<1>1. RegisterInv' /\ NoMsgYet' => ZoneInv'
  BY FreshZoneInv, PTL
<1> SUFFICES ASSUME ZoneInv, SetUp PROVE NoMsgYet'
  BY <1>1, SetUpInv DEF ZoneInv
<1>2. msgs = <<>> /\ (FillOnce \/ SetLPOnce)
  BY DEF SetUp
<1>3. UNCHANGED <<msgs, disabledZones>>
  BY <1>2 DEF FillOnce, FillPile, SetLPOnce, SetLP, timelineVars
<1> QED
  BY <1>2, <1>3 DEF ZoneInv, FreshZones, NoMsgYet

\* The duel after one more message.
LEMMA DuelGrows ==
  ASSUME ZoneInv, NEW m \in CoreMsgs(Duel[Len(Duel)]), msgs' = Append(msgs, m),
         tables' = Append(Duel, Effect(Duel[Len(Duel)], m))
  PROVE  /\ TablesInv'
         /\ DisableMsgs' \cap (1 .. Len(msgs)) = DisableMsgs
         /\ \A i \in 1 .. Len(Duel) : Duel'[i] = Duel[i]
<1> DEFINE n == Len(msgs)
           t == Effect(Duel[Len(Duel)], m)
<1>1. /\ IsSeq(msgs) /\ n \in Nat /\ DOMAIN msgs = 1 .. n
      /\ IsSeq(Duel) /\ Len(Duel) = n + 1
  BY InvFacts DEF ZoneInv, RegisterInv, HistoryInv, TablesInv
<1>2. /\ Len(msgs') = n + 1 /\ DOMAIN msgs' = 1 .. n + 1
      /\ \A i \in 1 .. n : msgs'[i] = msgs[i]
      /\ msgs'[n + 1] = m
  BY <1>1, AppendToSeq
<1>3. msgs' # <<>> /\ Duel' = Append(Duel, t)
  <2>1. msgs' # <<>>
    BY <1>1, <1>2, ShortSeqs
  <2> QED
    BY <2>1 DEF Duel
<1>4. /\ IsSeq(Duel') /\ Len(Duel') = n + 2
      /\ \A i \in 1 .. n + 1 : Duel'[i] = Duel[i]
      /\ Duel'[n + 2] = t
  BY <1>1, <1>3, AppendToSeq
<1>5. /\ "disabled" \in DOMAIN Duel[n + 1]
      /\ Duel[n + 1].disabled \subseteq BlockableZones
  BY <1>1 DEF ZoneInv, TablesInv
<1>6. /\ "disabled" \in DOMAIN t
      /\ t.disabled = IF m.type = "DisableZones" THEN m.places
                                                 ELSE Duel[n + 1].disabled
  BY <1>1, <1>5, EffectBlocks
<1>7. t.disabled \subseteq BlockableZones
  BY <1>5, <1>6, CoreMsgsBlock
<1> HIDE DEF t
<1>8. /\ DisableMsgs' \cap (1 .. n) = DisableMsgs
      /\ n + 1 \in DisableMsgs' <=> m.type = "DisableZones"
  BY <1>1, <1>2 DEF DisableMsgs
<1>9. TablesInv'
  <2>1. \A i \in 1 .. Len(Duel') : /\ "disabled" \in DOMAIN Duel'[i]
                                   /\ Duel'[i].disabled \subseteq BlockableZones
    BY <1>1, <1>4, <1>6, <1>7 DEF ZoneInv, TablesInv
  <2>2. ASSUME NEW i \in 1 .. n + 1
        PROVE  Duel'[i + 1].disabled = IF i \in DisableMsgs' THEN msgs'[i].places
                                                            ELSE Duel'[i].disabled
    <3>1. CASE i \in 1 .. n
      BY <1>1, <1>2, <1>4, <1>8, <3>1 DEF ZoneInv, TablesInv
    <3>2. CASE i = n + 1
      BY <1>1, <1>2, <1>4, <1>6, <1>8, <3>2
    <3> QED
      BY <1>1, <3>1, <3>2
  <2> QED
    BY <1>2, <1>4, <2>1, <2>2 DEF TablesInv
<1> QED
  BY <1>1, <1>4, <1>8, <1>9

LEMMA ZoneReceive == ZoneInv /\ Receive => ZoneInv'
<1> SUFFICES ASSUME ZoneInv, Receive PROVE ZoneInv'
  OBVIOUS
<1>1. RegisterInv'
  BY ReceiveInv DEF ZoneInv
<1>2. PICK m \in CoreMsgs(Duel[Len(Duel)]) :
        /\ msgs' = Append(msgs, m)
        /\ tables' = Append(Duel, Effect(Duel[Len(Duel)], m))
        /\ UNCHANGED <<state, processedState, disabledZones>>
  BY DEF Receive, AppendMsg
<1>3. /\ TablesInv'
      /\ DisableMsgs' \cap (1 .. Len(msgs)) = DisableMsgs
      /\ \A i \in 1 .. Len(Duel) : Duel'[i] = Duel[i]
  BY <1>2, DuelGrows
<1>4. ToReplay' = ToReplay
  BY <1>2, <1>3, ZoneFacts DEF ToReplay, After
<1>5. Duel'[state + 1] = Duel[state + 1]
  BY <1>3, ZoneFacts DEF ZoneInv, TablesInv
<1>6. ZonesInv'
  BY <1>2, <1>4, <1>5 DEF ZoneInv, ZonesInv
<1>7. msgs' # <<>>
  BY <1>2, AppendToSeq, ShortSeqs, ZoneFacts DEF ZoneInv, RegisterInv, HistoryInv
<1> QED
  BY <1>1, <1>3, <1>6, <1>7 DEF ZoneInv

\* The other actions leave the messages and the duel as they are.
LEMMA SameDuel ==
  ASSUME ZoneInv, UNCHANGED <<msgs, tables>>, Len(msgs) > 0
  PROVE  /\ Duel' = Duel /\ TablesInv' /\ DisableMsgs' = DisableMsgs
         /\ msgs' # <<>>
<1>1. msgs # <<>>
  BY ShortSeqs
<1>2. Duel' = Duel /\ DisableMsgs' = DisableMsgs
  BY <1>1 DEF Duel, DisableMsgs
<1> QED
  BY <1>1, <1>2 DEF ZoneInv, TablesInv

\* Playing a message that is new leaves nothing to replay, playing one again
\* leaves one less, if it is one of T.
LEMMA CountReplay ==
  ASSUME NEW T \in SUBSET Nat, NEW i \in Nat, NEW n \in Nat, i <= n,
         NEW n2, n2 = IF i = n THEN n + 1 ELSE n
  PROVE  /\ i = n => /\ Cardinality(After(T, i, n)) = 0
                     /\ Cardinality(After(T, i + 1, n2)) = 0
         /\ i # n => Cardinality(After(T, i, n)) =
                       IF i + 1 \in T THEN Cardinality(After(T, i + 1, n2)) + 1
                                      ELSE Cardinality(After(T, i + 1, n2))
         /\ Cardinality(After(T, i, n)) \in Nat
         /\ Cardinality(After(T, i + 1, n2)) \in Nat
<1>1. CASE i = n
  BY <1>1, CountAfter
<1>2. CASE i # n
  BY <1>2, CountAfter
<1> QED
  BY <1>1, <1>2

LEMMA ZonePlay == ZoneInv /\ Play => ZoneInv'
<1> SUFFICES ASSUME ZoneInv, Play PROVE ZoneInv'
  OBVIOUS
<1> DEFINE m == msgs[state + 1]
           c == Cardinality(ToReplay)
<1>1. RegisterInv'
  BY PlayInv DEF ZoneInv
<1>2. /\ UNCHANGED <<msgs, tables>> /\ state < Len(msgs) /\ state' = state + 1
      /\ processedState' = IF state = processedState
                           THEN processedState + 1 ELSE processedState
      /\ InterpretMsg(m, state, TRUE, state = processedState)
  BY DEF Play, Forward, MarkProcessed
<1>3. Duel' = Duel /\ TablesInv' /\ DisableMsgs' = DisableMsgs /\ msgs' # <<>>
  BY <1>2, SameDuel, ZoneFacts
<1>4. Duel[state + 2].disabled = IF state + 1 \in DisableMsgs
                                 THEN m.places ELSE Duel[state + 1].disabled
  BY <1>2, ZoneFacts DEF ZoneInv, TablesInv
<1>5. state + 1 \in DisableMsgs <=> m.type = "DisableZones"
  BY <1>2, ZoneFacts DEF DisableMsgs
<1>6. /\ state = processedState => c = 0 /\ Cardinality(ToReplay') = 0
      /\ state # processedState =>
           c = IF state + 1 \in DisableMsgs THEN Cardinality(ToReplay') + 1
                                            ELSE Cardinality(ToReplay')
      /\ c \in Nat /\ Cardinality(ToReplay') \in Nat
  <2>1. ToReplay' = After(DisableMsgs, state + 1, processedState')
    BY <1>2, <1>3 DEF ToReplay
  <2> QED
    BY <1>2, <2>1, ZoneFacts, CountReplay DEF ToReplay
<1> HIDE DEF c
<1>7. ZonesInv'
  <2>1. CASE m.type = "DisableZones"
    <3>1. HandleDisableZones(m, TRUE, state = processedState)
      BY <1>2, <2>1, InterpretZones
    <3>2. /\ DOMAIN disabledZones' = DOMAIN disabledZones
          /\ disabledZones' = [z \in DOMAIN disabledZones' |-> disabledZones'[z]]
          /\ \A z \in DOMAIN disabledZones :
               disabledZones'[z] = BlockZone(disabledZones[z], z \in m.places,
                                             state = processedState)
      BY <3>1 DEF HandleDisableZones
    <3>3. state + 1 \in DisableMsgs
          /\ (state = processedState <=> c = 0)
          /\ Cardinality(ToReplay') = IF c = 0 THEN 0 ELSE c - 1
      BY <1>5, <1>6, <2>1
    <3>4. Duel'[state' + 1].disabled = m.places
      BY <1>2, <1>3, <1>4, <3>3, ZoneFacts
    <3>5. ASSUME NEW z \in DisableableZones
          PROVE  ZoneRecorded(BOOLEAN, disabledZones'[z],
                              IF c = 0 THEN 0 ELSE c - 1, z \in m.places)
      <4>1. ZoneRecorded(BOOLEAN, disabledZones[z], c,
                         z \in Duel[state + 1].disabled)
        BY <3>5 DEF ZoneInv, ZonesInv, c
      <4>2. disabledZones'[z] = BlockZone(disabledZones[z], z \in m.places,
                                          state = processedState)
        BY <3>2, <3>5 DEF ZoneInv, ZonesInv
      <4>3. (z \in m.places) \in BOOLEAN
        OBVIOUS
      <4>4. ZoneRecorded(BOOLEAN,
              BlockZone(disabledZones[z], z \in m.places, state = processedState),
              IF c = 0 THEN 0 ELSE c - 1, z \in m.places)
        BY <1>6, <3>3, <4>1, <4>3, ZoneBlocks
      <4> QED
        BY <4>2, <4>4, Zenon
    <3> QED
      BY <3>2, <3>3, <3>4, <3>5, Zenon DEF ZoneInv, ZonesInv
  <2>2. CASE m.type # "DisableZones"
    <3>1. UNCHANGED disabledZones
      BY <1>2, <2>2, InterpretZones DEF HandleDisableZones
    <3>2. Cardinality(ToReplay') = c
          /\ Duel'[state' + 1].disabled = Duel[state + 1].disabled
      BY <1>2, <1>3, <1>4, <1>5, <1>6, <2>2, ZoneFacts
    <3> QED
      BY <3>1, <3>2 DEF ZoneInv, ZonesInv, c
  <2> QED
    BY <2>1, <2>2
<1> QED
  BY <1>1, <1>3, <1>7 DEF ZoneInv

LEMMA ZoneRewind == ZoneInv /\ Rewind => ZoneInv'
<1> SUFFICES ASSUME ZoneInv, Rewind PROVE ZoneInv'
  OBVIOUS
<1> DEFINE m == msgs[state]
           c == Cardinality(ToReplay)
<1>1. RegisterInv'
  BY RewindInv DEF ZoneInv
<1>2. /\ UNCHANGED <<msgs, tables, processedState>>
      /\ state > 0 /\ state' = state - 1
      /\ InterpretMsg(m, state - 1, FALSE, FALSE)
  BY DEF Rewind, Backward
<1>3. state - 1 \in Nat /\ state \in DOMAIN msgs /\ Len(msgs) > 0
      /\ state - 1 < processedState /\ state - 1 + 1 = state
  BY <1>2, ZoneFacts
<1>4. Duel' = Duel /\ TablesInv' /\ DisableMsgs' = DisableMsgs /\ msgs' # <<>>
  BY <1>2, <1>3, SameDuel
<1>5. /\ Duel[state + 1].disabled = IF state \in DisableMsgs
                                    THEN m.places ELSE Duel[state].disabled
      /\ state \in DisableMsgs <=> m.type = "DisableZones"
  BY <1>3 DEF ZoneInv, TablesInv, DisableMsgs
<1>6. Cardinality(ToReplay') = IF state \in DisableMsgs THEN c + 1 ELSE c
  <2>1. ToReplay' = After(DisableMsgs, state - 1, processedState)
    BY <1>2, <1>4 DEF ToReplay
  <2>2. \A k \in Nat : k < processedState =>
          Cardinality(After(DisableMsgs, k, processedState)) =
            IF k + 1 \in DisableMsgs
            THEN Cardinality(After(DisableMsgs, k + 1, processedState)) + 1
            ELSE Cardinality(After(DisableMsgs, k + 1, processedState))
    BY ZoneFacts, CountAfter
  <2>3. PICK k \in Nat : k = state - 1 /\ k + 1 = state /\ k < processedState
    BY <1>3
  <2>4. ToReplay' = After(DisableMsgs, k, processedState)
        /\ ToReplay = After(DisableMsgs, k + 1, processedState)
    BY <2>1, <2>3 DEF ToReplay
  <2> QED
    BY <2>2, <2>3, <2>4
<1>7. c \in Nat
  BY ZoneFacts
<1> HIDE DEF c
<1>8. ZonesInv'
  <2>1. CASE m.type = "DisableZones"
    <3>1. HandleDisableZones(m, FALSE, FALSE)
      BY <1>2, <2>1, InterpretZones
    <3>2. /\ DOMAIN disabledZones' = DOMAIN disabledZones
          /\ disabledZones' = [z \in DOMAIN disabledZones' |-> disabledZones'[z]]
          /\ \A z \in DOMAIN disabledZones :
               disabledZones'[z] = Prev(disabledZones[z])
      BY <3>1 DEF HandleDisableZones
    <3>3. Cardinality(ToReplay') = c + 1
      BY <1>5, <1>6, <2>1
    <3>4. ASSUME NEW z \in DisableableZones
          PROVE  ZoneRecorded(BOOLEAN, disabledZones'[z], c + 1,
                              z \in Duel'[state' + 1].disabled)
      <4>1. ZoneRecorded(BOOLEAN, disabledZones[z], c,
                         z \in Duel[state + 1].disabled)
        BY <3>4 DEF ZoneInv, ZonesInv, c
      <4>2. disabledZones'[z] = Prev(disabledZones[z])
        BY <3>2, <3>4 DEF ZoneInv, ZonesInv
      <4>3. ZoneRecorded(BOOLEAN, Prev(disabledZones[z]), c + 1,
                         z \in Duel'[state' + 1].disabled)
        BY <1>7, <4>1, ZoneRewinds
      <4> QED
        BY <4>2, <4>3, Zenon
    <3> QED
      BY <3>2, <3>3, <3>4, Zenon DEF ZoneInv, ZonesInv
  <2>2. CASE m.type # "DisableZones"
    <3>1. UNCHANGED disabledZones
      BY <1>2, <2>2, InterpretZones DEF HandleDisableZones
    <3>2. Cardinality(ToReplay') = c
          /\ Duel'[state' + 1].disabled = Duel[state + 1].disabled
      BY <1>2, <1>3, <1>4, <1>5, <1>6, <2>2, ZoneFacts
    <3> QED
      BY <3>1, <3>2 DEF ZoneInv, ZonesInv, c
  <2> QED
    BY <2>1, <2>2
<1> QED
  BY <1>1, <1>4, <1>8 DEF ZoneInv

\* A message that throws blocks no zones.
LEMMA ZoneThrows == ZoneInv /\ PlayThrows => ZoneInv'
<1> SUFFICES ASSUME ZoneInv, PlayThrows PROVE ZoneInv'
  OBVIOUS
<1>1. RegisterInv'
  BY PlayThrowsInv DEF ZoneInv
<1>2. /\ UNCHANGED <<msgs, tables, state, disabledZones>>
      /\ state < Len(msgs) /\ Throws(msgs[state + 1])
      /\ processedState' = IF state = processedState
                           THEN processedState + 1 ELSE processedState
  BY DEF PlayThrows, ForwardThrows, MarkProcessed
<1>3. Duel' = Duel /\ TablesInv' /\ DisableMsgs' = DisableMsgs /\ msgs' # <<>>
  BY <1>2, SameDuel, ZoneFacts
<1>4. state + 1 \notin DisableMsgs
  BY <1>2 DEF Throws, DisableMsgs
<1>5. Cardinality(ToReplay') = Cardinality(ToReplay)
  <2>1. ToReplay' = After(DisableMsgs, state, processedState')
    BY <1>2, <1>3 DEF ToReplay
  <2>2. CASE state = processedState
    BY <1>2, <1>4, <2>1, <2>2, ZoneFacts, CountAfter DEF ToReplay
  <2>3. CASE state # processedState
    BY <1>2, <2>1, <2>3 DEF ToReplay
  <2> QED
    BY <2>2, <2>3
<1>6. ZonesInv'
  BY <1>2, <1>3, <1>5 DEF ZoneInv, ZonesInv
<1> QED
  BY <1>1, <1>3, <1>6 DEF ZoneInv

LEMMA ZoneStutter == ZoneInv /\ UNCHANGED vars => ZoneInv'
<1> SUFFICES ASSUME ZoneInv, UNCHANGED vars PROVE ZoneInv'
  OBVIOUS
<1>1. RegisterInv'
  BY StutterInv DEF ZoneInv
<1>2. UNCHANGED <<msgs, tables, state, processedState, disabledZones>>
      /\ View' = View
  BY DEF vars, boardVars, timelineVars, cardVars, registerVars, View
<1>3. Duel' = Duel /\ DisableMsgs' = DisableMsgs
  BY <1>2 DEF Duel, DisableMsgs
<1>4. ToReplay' = ToReplay
  BY <1>2, <1>3 DEF ToReplay
<1> QED
  BY <1>1, <1>2, <1>3, <1>4 DEF ZoneInv, TablesInv, ZonesInv, FreshZones

LEMMA ZoneInit == Init => ZoneInv
<1> SUFFICES ASSUME Init PROVE NoMsgYet
  BY InitInv, FreshZoneInv
<1> QED
  BY DEF Init, BoardInit, NoMsgYet, FreshZones

LEMMA ZoneInvariance == Spec => []ZoneInv
<1>1. ZoneInv /\ [Next]_vars => ZoneInv'
  BY ZoneSetUp, ZoneReceive, ZonePlay, ZoneThrows, ZoneRewind, ZoneStutter
     DEF Next
<1> QED
  BY ZoneInit, <1>1, PTL DEF Spec

----------------------------------------------------------------------------
(* The theorem *)

\* A recording with nothing to replay shows its last value.
LEMMA ZoneShows ==
  ASSUME NEW V, NEW s, NEW blocked, ZoneRecorded(V, s, 0, blocked)
  PROVE  InRange(s) /\ Shown(s) = blocked
<1>1. /\ s.vec \in Seq(V) /\ Len(s.vec) \in Nat /\ Len(s.vec) > 0
      /\ s.pos = Len(s.vec) - 1 /\ s.vec[Len(s.vec)] = blocked
  BY DEF ZoneRecorded, SequentialOf
<1>2. s.pos + 1 = Len(s.vec) /\ s.pos \in 0 .. Len(s.vec) - 1
      /\ s.pos + 1 \in DOMAIN s.vec
  BY <1>1
<1> QED
  BY <1>1, <1>2 DEF InRange, Shown

\* The duel blocks zones that can be blocked.
LEMMA DuelZones ==
  ASSUME ZoneInv
  PROVE  Duel[state + 1].disabled \subseteq BlockableZones
BY ZoneFacts DEF ZoneInv, TablesInv

\* A board that has caught up shows the zones of the duel, every recording of
\* one is on its last value, and has the type it was made with.
LEMMA ZonesShown ==
  ASSUME ZoneInv
  PROVE  /\ disabledZones \in [DisableableZones -> SequentialOf(BOOLEAN)]
         /\ state = processedState =>
              /\ View.disabled = Duel[state + 1].disabled \cap DisableableZones
              /\ \A z \in DOMAIN disabledZones : AtEnd(disabledZones[z])
<1>1. DOMAIN disabledZones = DisableableZones
  BY DEF ZoneInv, ZonesInv
<1>2. ASSUME NEW z \in DisableableZones
      PROVE  ZoneRecorded(BOOLEAN, disabledZones[z], Cardinality(ToReplay),
                          z \in Duel[state + 1].disabled)
  BY <1>2 DEF ZoneInv, ZonesInv
<1>3. disabledZones \in [DisableableZones -> SequentialOf(BOOLEAN)]
  <2>1. \A z \in DisableableZones : disabledZones[z] \in SequentialOf(BOOLEAN)
    BY <1>2 DEF ZoneRecorded
  <2>2. disabledZones = [z \in DisableableZones |-> disabledZones[z]]
    BY <1>1 DEF ZoneInv, ZonesInv
  <2> QED
    BY <2>1, <2>2
<1>4. ASSUME state = processedState, NEW z \in DisableableZones
      PROVE  /\ InRange(disabledZones[z]) /\ AtEnd(disabledZones[z])
             /\ Shown(disabledZones[z]) <=> z \in Duel[state + 1].disabled
  <2>1. Cardinality(ToReplay) = 0
    BY <1>4, ZoneFacts, CountAfter DEF ToReplay
  <2>2. ZoneRecorded(BOOLEAN, disabledZones[z], 0, z \in Duel[state + 1].disabled)
    BY <1>2, <1>4, <2>1, Zenon
  <2>3. /\ InRange(disabledZones[z])
        /\ Shown(disabledZones[z]) = (z \in Duel[state + 1].disabled)
    BY <2>2, ZoneShows
  <2>4. AtEnd(disabledZones[z])
    BY <2>2, LenProperties DEF ZoneRecorded, SequentialOf, AtEnd
  <2>5. Shown(disabledZones[z]) <=> z \in Duel[state + 1].disabled
    BY <2>3, Zenon
  <2> QED
    BY <2>3, <2>4, <2>5, Zenon
<1>5. View.disabled = {z \in DOMAIN disabledZones :
                         InRange(disabledZones[z]) /\ Shown(disabledZones[z])}
  BY DEF View
<1> QED
  BY <1>1, <1>3, <1>4, <1>5

\* A board that has caught up shows every blocked zone as blocked, for every
\* duel whose blocked zones are keys of disabledZones and every order of
\* playing and rewinding (board.hpp:166-172, 683-701).
THEOREM BlockedZonesAreShown ==
  ASSUME BlockableZones \subseteq DisableableZones
  PROVE  Spec => []BlockedZonesShown
<1>1. ZoneInv => BlockedZonesShown
  <2> SUFFICES ASSUME ZoneInv, state = processedState
               PROVE  Duel[state + 1].disabled \subseteq View.disabled
    BY DEF BlockedZonesShown
  <2>1. Duel[state + 1].disabled \subseteq DisableableZones
    BY DuelZones
  <2> QED
    BY <2>1, ZonesShown
<1>2. Spec => []ZoneInv
  BY ZoneInvariance
<1> QED
  BY <1>1, <1>2, PTL
=============================================================================
