--------------------------- MODULE RegisterProofs ---------------------------
(***************************************************************************)
(* The registers of the board (life points, turn, turn player, phase) are   *)
(* reversible for every sequence of messages and every way of stepping      *)
(* through it: Spec => []RegistersReplay, from the inductive RegisterInv.   *)
(***************************************************************************)
EXTENDS DuelReplay, TLAPS, FiniteSetTheorems, SequenceTheorems

----------------------------------------------------------------------------
(* Sequences *)

\* Appending to a sequence leaves its elements where they are.
LEMMA AppendToSeq ==
  ASSUME NEW s, IsSeq(s), NEW e
  PROVE  /\ IsSeq(Append(s, e))
         /\ Len(s) \in Nat /\ DOMAIN s = 1 .. Len(s)
         /\ Len(Append(s, e)) = Len(s) + 1
         /\ DOMAIN Append(s, e) = 1 .. Len(s) + 1
         /\ \A i \in 1 .. Len(s) : Append(s, e)[i] = s[i]
         /\ Append(s, e)[Len(s) + 1] = e
<1> DEFINE S == {s[i] : i \in DOMAIN s} \cup {e}
           t == Append(s, e)
<1>1. s \in Seq(S)
  BY SeqMonotonic DEF IsSeq
<1>2. /\ t \in Seq(S) /\ Len(t) = Len(s) + 1
      /\ \A i \in 1 .. Len(s) : t[i] = s[i]
      /\ t[Len(s) + 1] = e
  BY <1>1, AppendProperties
<1>3. Len(s) \in Nat /\ DOMAIN s = 1 .. Len(s) /\ DOMAIN t = 1 .. Len(s) + 1
  BY <1>1, <1>2, LenProperties
<1>4. t \in [1 .. Len(t) -> {t[i] : i \in DOMAIN t}]
  <2>1. t \in [1 .. Len(t) -> S]
    BY <1>2, LenProperties
  <2> QED
    BY <2>1
<1>5. IsSeq(t)
  BY <1>2, <1>3, <1>4, SeqDef DEF IsSeq
<1> QED
  BY <1>2, <1>3, <1>5

\* The empty sequence and a sequence of one element are sequences.
LEMMA ShortSeqs ==
  ASSUME NEW e
  PROVE  /\ IsSeq(<<>>) /\ Len(<<>>) = 0 /\ DOMAIN <<>> = {}
         /\ IsSeq(<<e>>) /\ Len(<<e>>) = 1 /\ DOMAIN <<e>> = {1}
         /\ <<e>>[1] = e
<1>1. IsSeq(<<>>) /\ Len(<<>>) = 0 /\ DOMAIN <<>> = {}
  BY EmptySeq, LenProperties DEF IsSeq
<1>2. <<e>> \in Seq({e}) /\ Len(<<e>>) = 1 /\ DOMAIN <<e>> = {1} /\ <<e>>[1] = e
  OBVIOUS
<1>3. {<<e>>[i] : i \in DOMAIN <<e>>} = {e}
  BY <1>2
<1> QED
  BY <1>1, <1>2, <1>3 DEF IsSeq

----------------------------------------------------------------------------
(* Counting the messages after a state *)

\* Stepping the state, or the last state, by one changes the count by one if
\* the message between touches the register, and by nothing otherwise.
LEMMA CountAfter ==
  ASSUME NEW T \in SUBSET Nat, NEW i \in Nat, NEW n \in Nat
  PROVE  /\ IsFiniteSet(After(T, i, n))
         /\ Cardinality(After(T, i, n)) \in Nat
         /\ i >= n => Cardinality(After(T, i, n)) = 0
         /\ i <= n => Cardinality(After(T, i, n + 1)) =
                        IF n + 1 \in T THEN Cardinality(After(T, i, n)) + 1
                                       ELSE Cardinality(After(T, i, n))
         /\ i < n => Cardinality(After(T, i, n)) =
                       IF i + 1 \in T THEN Cardinality(After(T, i + 1, n)) + 1
                                      ELSE Cardinality(After(T, i + 1, n))
<1>1. \A a, b \in Nat : IsFiniteSet(After(T, a, b))
                          /\ Cardinality(After(T, a, b)) \in Nat
  <2> TAKE a, b \in Nat
  <2>1. After(T, a, b) \subseteq 1 .. b
    BY DEF After
  <2>2. IsFiniteSet(1 .. b)
    BY FS_Interval
  <2>3. IsFiniteSet(After(T, a, b))
    BY <2>1, <2>2, FS_Subset
  <2> QED
    BY <2>3, FS_CardinalityType
<1>2. ASSUME i >= n PROVE Cardinality(After(T, i, n)) = 0
  <2>1. After(T, i, n) = {}
    BY <1>2 DEF After
  <2> QED
    BY <2>1, FS_EmptySet
<1>3. ASSUME i <= n
      PROVE  Cardinality(After(T, i, n + 1)) =
               IF n + 1 \in T THEN Cardinality(After(T, i, n)) + 1
                              ELSE Cardinality(After(T, i, n))
  <2>1. n + 1 \in T => After(T, i, n + 1) = After(T, i, n) \cup {n + 1}
    BY <1>3 DEF After
  <2>3. n + 1 \notin T => After(T, i, n + 1) = After(T, i, n)
    BY <1>3 DEF After
  <2>2. n + 1 \notin After(T, i, n)
    BY DEF After
  <2> QED
    BY <1>1, <2>1, <2>2, <2>3, FS_AddElement
<1>4. ASSUME i < n
      PROVE  Cardinality(After(T, i, n)) =
               IF i + 1 \in T THEN Cardinality(After(T, i + 1, n)) + 1
                              ELSE Cardinality(After(T, i + 1, n))
  <2>1. i + 1 \in T => After(T, i, n) = After(T, i + 1, n) \cup {i + 1}
    BY <1>4 DEF After
  <2>3. i + 1 \notin T => After(T, i, n) = After(T, i + 1, n)
    BY <1>4 DEF After
  <2>2. i + 1 \notin After(T, i + 1, n)
    BY DEF After
  <2> QED
    BY <1>1, <2>1, <2>2, <2>3, FS_AddElement
<1> QED
  BY <1>1, <1>2, <1>3, <1>4

----------------------------------------------------------------------------
(* One recording *)

\* A recording shows the frame of the state its cursor is at.
LEMMA RecordedShows ==
  ASSUME NEW V, NEW s \in SequentialOf(V), NEW T \in SUBSET Nat,
         NEW n \in Nat, NEW k \in 0 .. n, NEW fr, Recorded(s, T, k, n, fr)
  PROVE  InRange(s) /\ Shown(s) = fr[k + 1] /\ s.pos + 1 \in 1 .. Len(s.vec)
<1> DEFINE c == Cardinality(After(T, k, n))
<1>1. c \in Nat /\ Len(s.vec) \in Nat /\ s.pos \in Int
  BY CountAfter, LenProperties DEF SequentialOf
<1>2. s.pos = Len(s.vec) - 1 - c /\ c < Len(s.vec) /\ s.vec[Len(s.vec) - c] = fr[k + 1]
  BY DEF Recorded
<1> HIDE DEF c
<1>3. s.pos >= 0 /\ s.pos < Len(s.vec) /\ s.pos + 1 = Len(s.vec) - c
  BY <1>1, <1>2
<1>4. s.pos + 1 \in 1 .. Len(s.vec)
  BY <1>1, <1>3
<1> QED
  BY <1>2, <1>3, <1>4 DEF InRange, Shown

\* A fresh recording, with the cursor on its only shown value.
LEMMA RecordedFresh ==
  ASSUME NEW V, NEW s \in SequentialOf(V), NEW T \in SUBSET Nat, NEW fr,
         AtEnd(s), Len(s.vec) > 0, fr[1] = Shown(s)
  PROVE  Recorded(s, T, 0, 0, fr)
<1>1. Cardinality(After(T, 0, 0)) = 0
  BY CountAfter
<1>2. Len(s.vec) \in Nat /\ s.pos \in Int
  BY LenProperties DEF SequentialOf
<1>3. \A i \in 0 .. 0 : i = 0
  OBVIOUS
<1> QED
  BY <1>1, <1>2, <1>3 DEF Recorded, AtEnd, Shown, InRange

\* Playing a new message: the recording grows at its end if the message
\* touches it, and every earlier frame keeps its value.
LEMMA RecordGrows ==
  ASSUME NEW V, NEW s \in SequentialOf(V), NEW v \in V, NEW T \in SUBSET Nat,
         NEW n \in Nat, NEW fr, NEW gr, NEW s2 \in SequentialOf(V),
         Recorded(s, T, n, n, fr),
         n + 1 \in T, s2.vec = Append(s.vec, v), s2.pos = s.pos + 1,
         \A i \in 0 .. n : gr[i + 1] = fr[i + 1],
         gr[n + 2] = Shown(s2)
  PROVE  Recorded(s2, T, n + 1, n + 1, gr)
<1>0. Len(s.vec) \in Nat /\ Len(s2.vec) = Len(s.vec) + 1
  BY LenProperties, AppendProperties DEF SequentialOf
<1>1. /\ Len(s.vec) \in Nat /\ s.pos \in Int /\ s.vec \in Seq(V)
      /\ Len(s2.vec) = Len(s.vec) + 1
      /\ \A j \in 1 .. Len(s.vec) : s2.vec[j] = s.vec[j]
  BY LenProperties, AppendProperties DEF SequentialOf
<1>2. Cardinality(After(T, n, n)) = 0 /\ Cardinality(After(T, n + 1, n + 1)) = 0
  BY CountAfter
<1>3. s.pos = Len(s.vec) - 1 - Cardinality(After(T, n, n))
  BY DEF Recorded
<1>4. s2.pos = Len(s2.vec) - 1 - Cardinality(After(T, n + 1, n + 1))
  BY <1>1, <1>2, <1>3
<1>5. Shown(s2) = s2.vec[Len(s2.vec)]
  BY <1>1, <1>2, <1>3 DEF Shown, InRange
<1>6. ASSUME NEW i \in 0 .. n + 1
      PROVE  /\ Cardinality(After(T, i, n + 1)) < Len(s2.vec)
             /\ s2.vec[Len(s2.vec) - Cardinality(After(T, i, n + 1))] = gr[i + 1]
  <2>1. CASE i = n + 1
    <3>1. i + 1 = n + 2 /\ Len(s2.vec) - 0 = Len(s2.vec) /\ 0 < Len(s2.vec)
      BY <1>1, <2>1
    <3> QED
      BY <1>2, <1>5, <2>1, <3>1
  <2>2. CASE i # n + 1
    <3>1. i \in 0 .. n /\ i \in Nat /\ i <= n
      BY <2>2
    <3>2. /\ Cardinality(After(T, i, n)) \in Nat
          /\ Cardinality(After(T, i, n + 1)) = Cardinality(After(T, i, n)) + 1
      BY <3>1, CountAfter
    <3>3. /\ Cardinality(After(T, i, n)) < Len(s.vec)
          /\ s.vec[Len(s.vec) - Cardinality(After(T, i, n))] = fr[i + 1]
      BY <3>1 DEF Recorded
    <3>4. /\ Len(s2.vec) - Cardinality(After(T, i, n + 1))
               = Len(s.vec) - Cardinality(After(T, i, n))
          /\ Len(s.vec) - Cardinality(After(T, i, n)) \in 1 .. Len(s.vec)
          /\ Cardinality(After(T, i, n + 1)) < Len(s2.vec)
      <4> DEFINE c == Cardinality(After(T, i, n))
                 d == Cardinality(After(T, i, n + 1))
                 len == Len(s.vec)
                 len2 == Len(s2.vec)
      <4>1. c \in Nat /\ d = c + 1 /\ len \in Nat /\ len2 = len + 1 /\ c < len
        BY <1>0, <3>2, <3>3
      <4> HIDE DEF c, d, len, len2
      <4>2. len2 - d = len - c /\ len - c \in 1 .. len /\ d < len2
        BY <4>1
      <4> QED
        BY <4>2 DEF c, d, len, len2
    <3>5. gr[i + 1] = fr[i + 1]
      BY <3>1
    <3>6. s2.vec[Len(s.vec) - Cardinality(After(T, i, n))]
            = s.vec[Len(s.vec) - Cardinality(After(T, i, n))]
      BY <1>1, <3>4
    <3> QED
      BY <3>3, <3>4, <3>5, <3>6
  <2> QED
    BY <2>1, <2>2
<1> QED
  BY <1>4, <1>6 DEF Recorded

\* Playing a new message that does not touch the recording.
LEMMA RecordStays ==
  ASSUME NEW V, NEW s \in SequentialOf(V), NEW T \in SUBSET Nat,
         NEW n \in Nat, NEW fr, NEW gr,
         Recorded(s, T, n, n, fr), n + 1 \notin T,
         \A i \in 0 .. n : gr[i + 1] = fr[i + 1],
         gr[n + 2] = Shown(s)
  PROVE  Recorded(s, T, n + 1, n + 1, gr)
<1>1. Len(s.vec) \in Nat /\ s.pos \in Int
  BY LenProperties DEF SequentialOf
<1>2. Cardinality(After(T, n, n)) = 0 /\ Cardinality(After(T, n + 1, n + 1)) = 0
  BY CountAfter
<1>3. /\ s.pos = Len(s.vec) - 1 - Cardinality(After(T, n, n))
      /\ Cardinality(After(T, n, n)) < Len(s.vec)
  BY DEF Recorded
<1>4. Shown(s) = s.vec[Len(s.vec)]
  BY <1>1, <1>2, <1>3 DEF Shown, InRange
<1>5. ASSUME NEW i \in 0 .. n + 1
      PROVE  /\ Cardinality(After(T, i, n + 1)) < Len(s.vec)
             /\ s.vec[Len(s.vec) - Cardinality(After(T, i, n + 1))] = gr[i + 1]
  <2>1. CASE i = n + 1
    <3>1. i + 1 = n + 2 /\ Len(s.vec) - 0 = Len(s.vec) /\ 0 < Len(s.vec)
      BY <1>1, <1>2, <1>3, <2>1
    <3> QED
      BY <1>2, <1>4, <2>1, <3>1
  <2>2. CASE i # n + 1
    <3>1. i \in 0 .. n /\ i \in Nat /\ i <= n
      BY <2>2
    <3>2. Cardinality(After(T, i, n + 1)) = Cardinality(After(T, i, n))
      BY <3>1, CountAfter
    <3>3. /\ Cardinality(After(T, i, n)) < Len(s.vec)
          /\ s.vec[Len(s.vec) - Cardinality(After(T, i, n))] = fr[i + 1]
      BY <3>1 DEF Recorded
    <3> QED
      BY <3>1, <3>2, <3>3
  <2> QED
    BY <2>1, <2>2
<1>6. s.pos = Len(s.vec) - 1 - Cardinality(After(T, n + 1, n + 1))
  BY <1>2, <1>3
<1> QED
  BY <1>5, <1>6 DEF Recorded

\* The cursor that moves with the state, in either direction, stays on the
\* value of the state: k is the state before a replayed message and after a
\* rewound one.
LEMMA RecordMoves ==
  ASSUME NEW s, NEW s2, NEW T \in SUBSET Nat,
         NEW n \in Nat, NEW k \in Nat, NEW j \in Nat, k < n, NEW fr,
         s.pos \in Int, Len(s.vec) \in Nat, s2.vec = s.vec,
         \/ j = k + 1 /\ s2.pos = IF k + 1 \in T THEN s.pos + 1 ELSE s.pos
         \/ j = k /\ s2.pos = IF k + 1 \in T THEN s.pos - 1 ELSE s.pos,
         Recorded(s, T, IF j = k THEN k + 1 ELSE k, n, fr)
  PROVE  Recorded(s2, T, j, n, fr)
<1>1. /\ Cardinality(After(T, k, n)) \in Nat
      /\ Cardinality(After(T, k + 1, n)) \in Nat
      /\ Cardinality(After(T, k, n)) =
           IF k + 1 \in T THEN Cardinality(After(T, k + 1, n)) + 1
                          ELSE Cardinality(After(T, k + 1, n))
  BY CountAfter
<1>2. \A i \in 0 .. n :
        /\ Cardinality(After(T, i, n)) < Len(s2.vec)
        /\ s2.vec[Len(s2.vec) - Cardinality(After(T, i, n))] = fr[i + 1]
  BY DEF Recorded
<1>3. CASE j = k + 1 /\ s2.pos = IF k + 1 \in T THEN s.pos + 1 ELSE s.pos
  <2>1. j # k
    BY <1>3
  <2>2. s.pos = Len(s.vec) - 1 - Cardinality(After(T, k, n))
    BY <2>1 DEF Recorded
  <2>3. s2.pos = Len(s2.vec) - 1 - Cardinality(After(T, k + 1, n))
    BY <1>1, <1>3, <2>2
  <2> QED
    BY <1>2, <1>3, <2>3 DEF Recorded
<1>4. CASE j = k /\ s2.pos = IF k + 1 \in T THEN s.pos - 1 ELSE s.pos
  <2>1. s.pos = Len(s.vec) - 1 - Cardinality(After(T, k + 1, n))
    BY <1>4 DEF Recorded
  <2>2. s2.pos = Len(s2.vec) - 1 - Cardinality(After(T, k, n))
    BY <1>1, <1>4, <2>1
  <2> QED
    BY <1>2, <1>4, <2>2 DEF Recorded
<1> QED
  BY <1>3, <1>4

\* Only the messages up to the last state ever reached matter.
LEMMA RecordedSameMsgs ==
  ASSUME NEW s, NEW T, NEW T2, NEW n \in Nat, NEW k \in 0 .. n, NEW fr,
         T \cap (1 .. n) = T2 \cap (1 .. n),
         Recorded(s, T, k, n, fr)
  PROVE  Recorded(s, T2, k, n, fr)
<1>1. \A i \in 0 .. n : After(T, i, n) = After(T2, i, n)
  BY DEF After
<1> QED
  BY <1>1 DEF Recorded

----------------------------------------------------------------------------
(* Messages and registers *)

\* What one interpreted message does to the registers.
RegisterStep(m, adv, rt) ==
  /\ turn' = IF m.type = "NewTurn"
             THEN IF adv THEN turn + 1 ELSE turn - 1
             ELSE turn
  /\ turnPlayer' = IF m.type = "NewTurn"
                   THEN Step(turnPlayer, adv, rt, m.turnPlayer)
                   ELSE turnPlayer
  /\ phase' = IF m.type = "NewPhase" THEN Step(phase, adv, rt, m.phase)
                                     ELSE phase
  /\ IF m.type = "LpChange"
     THEN \E lp \in ReadValues(playerLP[m.player]) :
            playerLP' = [playerLP EXCEPT ![m.player] =
                           Step(@, adv, rt, LpAfter(lp, m))]
     ELSE playerLP' = playerLP

\* Whichever handler a message reaches, the registers make that step.
LEMMA InterpretRegisters ==
  ASSUME NEW m, NEW at, NEW adv, NEW rt, InterpretMsg(m, at, adv, rt)
  PROVE  RegisterStep(m, adv, rt)
<1> DEFINE Other == /\ m.type \notin {"NewTurn", "NewPhase", "LpChange"}
                    /\ UNCHANGED registerVars
<1>1. HandleUpdateCard(m, adv, rt) => Other
  BY DEF HandleUpdateCard
<1>2. HandleAddCard(m, at, adv, rt) => Other
  BY DEF HandleAddCard
<1>3. HandleRemoveCard(m, at, adv) => Other
  BY DEF HandleRemoveCard
<1>4. HandleDraw(m, adv, rt) => Other
  BY DEF HandleDraw
<1>5. HandleSwapCards(m, adv, rt) => Other
  BY DEF HandleSwapCards
<1>6. HandleShuffleLocation(m, adv, rt) => Other
  BY DEF HandleShuffleLocation
<1>7. HandleShuffleSetCards(m, adv, rt) => Other
  BY DEF HandleShuffleSetCards
<1>8. HandleCounterChange(m, adv, rt) => Other
  BY DEF HandleCounterChange
<1>9. HandleDisableZones(m, adv, rt) => Other
  BY DEF HandleDisableZones
<1>10. IgnoreMsg(m) => Other
  BY DEF IgnoreMsg, CriticalMsgs
<1>11. CASE Other
  BY <1>11 DEF registerVars, RegisterStep
<1>12. CASE HandleLpChange(m, adv, rt)
  BY <1>12 DEF HandleLpChange, RegisterStep
<1>13. CASE HandleNewTurn(m, adv, rt)
  BY <1>13 DEF HandleNewTurn, RegisterStep
<1>14. CASE HandleNewPhase(m, adv, rt)
  BY <1>14 DEF HandleNewPhase, RegisterStep
<1> HIDE DEF Other
<1> QED
  BY <1>1, <1>2, <1>3, <1>4, <1>5, <1>6, <1>7, <1>8, <1>9, <1>10, <1>11,
     <1>12, <1>13, <1>14 DEF InterpretMsg

\* The core sends well-typed life points, turns and phases.
LEMMA CoreMsgsTyped ==
  ASSUME NEW t, NEW m \in CoreMsgs(t)
  PROVE  MsgOK(m)
<1> DEFINE Other == m.type \notin {"NewTurn", "NewPhase", "LpChange"}
<1>1. PICK kind \in Kinds : m \in MsgsOfKind(kind, t)
  BY DEF CoreMsgs
<1>2. kind \in AllKinds
  BY TableAssumption
<1>3. ASSUME NEW reason, NEW pairs, m \in Updates(reason, pairs)
      PROVE  Other
  BY <1>3 DEF Updates
<1>4. ASSUME NEW type \in {"AddCard", "RemoveCard"}, NEW places,
             m \in Placed(type, places)
      PROVE  Other
  BY <1>4 DEF Placed
<1>5. kind \in {"Move", "DetachLower", "SamePile", "SelfMove"} => Other
  BY <1>1, <1>3 DEF MsgsOfKind, MoveMsgs, Moves, SamePileMoves, SelfMoves
<1>18. kind \in {"DeckTop", "BelowDeckTop"} => Other
  BY <1>1 DEF MsgsOfKind, DeckTopMsgs
<1>6. kind = "InPlace" => Other
  BY <1>1, <1>3 DEF MsgsOfKind, InPlaceMsgs
<1>7. kind \in {"Add", "Remove"} => Other
  BY <1>1, <1>4 DEF MsgsOfKind
<1>8. kind = "Draw" => Other
  BY <1>1 DEF MsgsOfKind, DrawMsgs
<1>9. kind \in {"Swap", "SelfSwap"} => Other
  BY <1>1 DEF MsgsOfKind, SwapMsgs, SelfSwaps
<1>10. kind = "Shuffle" => Other
  BY <1>1 DEF MsgsOfKind, ShuffleMsgs
<1>11. kind = "ShuffleSet" => Other
  BY <1>1 DEF MsgsOfKind, ShuffleSetMsgs
<1>12. kind \in {"CounterAdd", "CounterRemove"} => Other
  BY <1>1 DEF MsgsOfKind, Counters, CounterRemovals
<1>13. kind \in {"Disable", "SwapGraveDeck", "Hint"} => Other
  BY <1>1 DEF MsgsOfKind
<1>14. Other => MsgOK(m)
  BY DEF MsgOK
<1>15. kind \in {"Lp", "Overkill"} => MsgOK(m)
  BY <1>1, TableAssumption
     DEF MsgsOfKind, FairLpMsgs, OverkillMsgs, LpMsgs, MsgOK
<1>16. kind = "Turn" => MsgOK(m)
  BY <1>1 DEF MsgsOfKind, MsgOK
<1>17. kind = "Phase" => MsgOK(m)
  BY <1>1, TableAssumption DEF MsgsOfKind, MsgOK
<1> HIDE DEF Other
<1> QED
  BY <1>2, <1>5, <1>6, <1>7, <1>8, <1>9, <1>10, <1>11, <1>12, <1>13, <1>14,
     <1>15, <1>16, <1>17, <1>18 DEF AllKinds

----------------------------------------------------------------------------
(* The steps of one recording, as the messages take them *)

\* The message after state k, of n ever reached, moves s to s2 if it is in T:
\* onto the new value v after the last state, else onto the next old value.
Forwarded(s, s2, T, k, n, v) ==
  s2 = IF k + 1 \in T
       THEN [vec |-> IF k = n THEN Append(s.vec, v) ELSE s.vec,
             pos |-> s.pos + 1]
       ELSE s

\* The film gr is fr with a last frame added, if the message was new.
FilmForwarded(fr, gr, k, n, last) ==
  /\ k < n => gr = fr
  /\ k = n => /\ \A i \in 0 .. n : gr[i + 1] = fr[i + 1]
              /\ gr[n + 2] = last

\* Forward: whether the message is new or old and touches the recording or
\* not, the recording ends on the value of the next state.
LEMMA RecordForward ==
  ASSUME NEW V, NEW s \in SequentialOf(V), NEW v, NEW T \in SUBSET Nat,
         NEW n \in Nat, NEW k \in Nat, k <= n, NEW fr, NEW gr, NEW s2,
         k + 1 \in T => v \in V,
         Forwarded(s, s2, T, k, n, v),
         Recorded(s, T, k, n, fr),
         FilmForwarded(fr, gr, k, n, Shown(s2))
  PROVE  /\ s2 \in SequentialOf(V)
         /\ Recorded(s2, T, k + 1, IF k = n THEN n + 1 ELSE n, gr)
<1>1. s.pos \in Int /\ Len(s.vec) \in Nat /\ s.vec \in Seq(V)
  BY LenProperties DEF SequentialOf
<1>2. CASE k + 1 \in T
  <2>1. v \in V
    BY <1>2
  <2>2. CASE k = n
    <3>1. s2 = [vec |-> Append(s.vec, v), pos |-> s.pos + 1]
      BY <1>2, <2>2 DEF Forwarded
    <3>2. s2 \in SequentialOf(V) /\ s2.vec = Append(s.vec, v) /\ s2.pos = s.pos + 1
      BY <1>1, <2>1, <3>1, AppendProperties DEF SequentialOf
    <3>3. Recorded(s2, T, n + 1, n + 1, gr)
      BY <1>2, <2>1, <2>2, <3>2, RecordGrows DEF FilmForwarded
    <3> QED
      BY <2>2, <3>2, <3>3
  <2>3. CASE k < n
    <3>1. s2 = [vec |-> s.vec, pos |-> s.pos + 1]
      BY <1>2, <2>3 DEF Forwarded
    <3>2. s2 \in SequentialOf(V) /\ s2.vec = s.vec /\ s2.pos = s.pos + 1
      BY <1>1, <2>1, <3>1, AppendProperties DEF SequentialOf
    <3>3. Recorded(s2, T, k + 1, n, fr)
      BY <1>1, <1>2, <2>3, <3>2, RecordMoves
    <3> QED
      BY <2>3, <3>2, <3>3 DEF FilmForwarded
  <2> QED
    BY <2>2, <2>3
<1>3. CASE k + 1 \notin T
  <2>1. s2 = s
    BY <1>3 DEF Forwarded
  <2>2. CASE k = n
    <3>1. Recorded(s, T, n + 1, n + 1, gr)
      BY <1>3, <2>1, <2>2, RecordStays DEF FilmForwarded
    <3> QED
      BY <2>1, <2>2, <3>1
  <2>3. CASE k < n
    <3>1. Recorded(s, T, k + 1, n, fr)
      BY <1>1, <1>3, <2>3, RecordMoves
    <3> QED
      BY <2>1, <2>3, <3>1 DEF FilmForwarded
  <2> QED
    BY <2>2, <2>3
<1> QED
  BY <1>2, <1>3

\* Backward: the message between the states k and k + 1 is undone.
LEMMA RecordBackward ==
  ASSUME NEW V, NEW s \in SequentialOf(V), NEW T \in SUBSET Nat,
         NEW n \in Nat, NEW k \in Nat, k < n, NEW fr, NEW s2,
         s2 = IF k + 1 \in T THEN Prev(s) ELSE s,
         Recorded(s, T, k + 1, n, fr)
  PROVE  s2 \in SequentialOf(V) /\ Recorded(s2, T, k, n, fr)
<1>1. s.pos \in Int /\ Len(s.vec) \in Nat
  BY LenProperties DEF SequentialOf
<1>2. Prev(s) \in SequentialOf(V) /\ Prev(s).vec = s.vec /\ Prev(s).pos = s.pos - 1
  BY DEF Prev, SequentialOf
<1>3. /\ s2 \in SequentialOf(V) /\ s2.vec = s.vec
      /\ s2.pos = IF k + 1 \in T THEN s.pos - 1 ELSE s.pos
  BY <1>2
<1>4. Recorded(s2, T, k, n, fr)
  BY <1>1, <1>3, RecordMoves
<1> QED
  BY <1>3, <1>4

----------------------------------------------------------------------------
(* RegisterInv is inductive *)

\* What the display shows of the registers.
LEMMA ViewRegisters ==
  /\ View.turn = turn /\ View.turnPlayer = Shown(turnPlayer)
  /\ View.phase = Shown(phase)
  /\ View.lp = [p \in Players |-> Shown(playerLP[p])]
  /\ View'.turn = turn' /\ View'.turnPlayer = Shown(turnPlayer')
  /\ View'.phase = Shown(phase')
  /\ View'.lp = [p \in Players |-> Shown(playerLP'[p])]
BY DEF View

\* Facts that every step of the proof starts from.
LEMMA InvFacts ==
  ASSUME RegisterInv
  PROVE  /\ Len(msgs) \in Nat /\ DOMAIN msgs = 1 .. Len(msgs)
         /\ Len(frames) \in Nat /\ DOMAIN frames = 1 .. Len(frames)
         /\ Reach \in Nat /\ Len(frames) = Reach + 1
         /\ TurnMsgs \in SUBSET Nat /\ PhaseMsgs \in SUBSET Nat
         /\ \A p : LpMsgsOf(p) \in SUBSET Nat
<1>1. /\ msgs \in Seq({msgs[i] : i \in DOMAIN msgs})
      /\ frames \in Seq({frames[i] : i \in DOMAIN frames}) /\ frames # <<>>
  BY DEF RegisterInv, HistoryInv, IsSeq
<1>2. /\ Len(msgs) \in Nat /\ DOMAIN msgs = 1 .. Len(msgs)
      /\ Len(frames) \in Nat /\ DOMAIN frames = 1 .. Len(frames)
  BY <1>1, LenProperties
<1>3. Len(frames) # 0
  BY <1>1, EmptySeq
<1>4. DOMAIN msgs \subseteq Nat
  BY <1>2
<1> QED
  BY <1>2, <1>3, <1>4 DEF Reach, TurnMsgs, PhaseMsgs, LpMsgsOf

\* A board that has no message yet: every recording shows its last value.
FreshBoard ==
  /\ msgs = <<>> /\ state = 0 /\ processedState = 0 /\ frames = <<View>>
  /\ TypesInv /\ turn = 0
  /\ AtEnd(turnPlayer) /\ Len(turnPlayer.vec) > 0
  /\ AtEnd(phase) /\ Len(phase.vec) > 0
  /\ \A p \in Players : AtEnd(playerLP[p]) /\ Len(playerLP[p].vec) > 0

LEMMA FreshInv == FreshBoard => RegisterInv
<1> SUFFICES ASSUME FreshBoard PROVE RegisterInv
  OBVIOUS
<1>1. /\ IsSeq(frames) /\ Len(frames) = 1 /\ DOMAIN frames = {1}
      /\ frames[1] = View
      /\ IsSeq(msgs) /\ Len(msgs) = 0 /\ DOMAIN msgs = {}
  BY ShortSeqs DEF FreshBoard
<1>2. Reach = 0 /\ frames # <<>>
  BY <1>1, ShortSeqs DEF Reach
<1>3. TurnMsgs = {} /\ PhaseMsgs = {} /\ \A p : LpMsgsOf(p) = {}
  BY <1>1 DEF TurnMsgs, PhaseMsgs, LpMsgsOf
<1>4. RecordsInv
  <2>1. /\ turnPlayer \in SequentialOf(Players) /\ phase \in SequentialOf(Nat)
        /\ \A p \in Players : playerLP[p] \in SequentialOf(Nat)
    BY DEF FreshBoard, TypesInv
  <2>2. /\ TurnPlayerFilm[1] = Shown(turnPlayer)
        /\ PhaseFilm[1] = Shown(phase)
        /\ \A p \in Players : LpFilm(p)[1] = Shown(playerLP[p])
    BY <1>1, ViewRegisters DEF TurnPlayerFilm, PhaseFilm, LpFilm
  <2>3. Recorded(turnPlayer, {}, 0, 0, TurnPlayerFilm)
    BY <2>1, <2>2, RecordedFresh DEF FreshBoard
  <2>4. Recorded(phase, {}, 0, 0, PhaseFilm)
    BY <2>1, <2>2, RecordedFresh DEF FreshBoard
  <2>5. ASSUME NEW p \in Players
        PROVE  Recorded(playerLP[p], {}, 0, 0, LpFilm(p))
    BY <2>1, <2>2, RecordedFresh DEF FreshBoard
  <2> QED
    BY <1>2, <1>3, <2>3, <2>4, <2>5 DEF RecordsInv, FreshBoard
<1>5. TurnInv
  <2>1. Cardinality(After({}, 0, 0)) = 0
    BY CountAfter
  <2>2. \A i \in 0 .. 0 : i = 0
    OBVIOUS
  <2> QED
    BY <1>1, <1>2, <1>3, <2>1, <2>2, ViewRegisters DEF TurnInv, FreshBoard
<1>6. FrameInv
  BY <1>1, ViewRegisters DEF FrameInv
<1>7. HistoryInv
  BY <1>1, <1>2 DEF HistoryInv
<1>8. ReachInv
  BY <1>1, <1>2 DEF ReachInv, FreshBoard
<1> QED
  BY <1>4, <1>5, <1>6, <1>7, <1>8 DEF RegisterInv, FreshBoard

LEMMA InitInv == Init => RegisterInv
<1> SUFFICES ASSUME Init PROVE FreshBoard
  BY FreshInv
<1>1. \A V : \A v \in V : /\ NewSequential(v) \in SequentialOf(V)
                          /\ AtEnd(NewSequential(v))
                          /\ Len(NewSequential(v).vec) > 0
  <2> TAKE V
  <2> TAKE v \in V
  <2>1. <<v>> \in Seq(V) /\ Len(<<v>>) = 1
    OBVIOUS
  <2> QED
    BY <2>1 DEF NewSequential, SequentialOf, AtEnd
<1> QED
  BY <1>1 DEF Init, BoardInit, FreshBoard, TypesInv, Players

\* Setting up the board: a filled pile leaves the registers alone, life
\* points that are set are the new last value of their recording.
LEMMA SetUpInv == RegisterInv /\ SetUp => RegisterInv'
<1>1. FreshBoard' => RegisterInv'
  BY FreshInv, PTL
<1> SUFFICES ASSUME RegisterInv, SetUp PROVE FreshBoard'
  BY <1>1
<1>2. msgs = <<>> /\ frames' = <<View'>> /\ (FillOnce \/ SetLPOnce)
  BY DEF SetUp
<1>3. Len(msgs) = 0 /\ Reach \in Nat /\ TypesInv /\ ReachInv /\ RecordsInv /\ TurnInv
  BY <1>2, ShortSeqs, InvFacts DEF RegisterInv
<1>4. state = 0 /\ processedState = 0 /\ Reach = 0
  BY <1>3 DEF ReachInv
<1>5. TurnMsgs \in SUBSET Nat /\ PhaseMsgs \in SUBSET Nat
      /\ \A p : LpMsgsOf(p) \in SUBSET Nat
  BY InvFacts
<1>6. \A s, fr : \A T \in SUBSET Nat :
        s.pos \in Int /\ Len(s.vec) \in Nat /\ Recorded(s, T, 0, 0, fr)
          => AtEnd(s) /\ Len(s.vec) > 0
  BY CountAfter DEF Recorded, AtEnd
<1>7. turn = 0
  BY <1>3, <1>4, <1>5, CountAfter DEF TurnInv
<1>8. \A V : \A s \in SequentialOf(V) : s.pos \in Int /\ Len(s.vec) \in Nat
  BY LenProperties DEF SequentialOf
<1>9. /\ AtEnd(turnPlayer) /\ Len(turnPlayer.vec) > 0
      /\ AtEnd(phase) /\ Len(phase.vec) > 0
      /\ \A p \in Players : AtEnd(playerLP[p]) /\ Len(playerLP[p].vec) > 0
  BY <1>3, <1>4, <1>5, <1>6, <1>8 DEF TypesInv, RecordsInv
<1>10. /\ UNCHANGED <<msgs, state, processedState, turn, turnPlayer, phase>>
       /\ FillOnce => UNCHANGED playerLP
  BY <1>2 DEF FillOnce, FillPile, SetLPOnce, SetLP, timelineVars, registerVars
<1>11. /\ playerLP' \in [Players -> SequentialOf(Nat)]
       /\ \A p \in Players : AtEnd(playerLP'[p]) /\ Len(playerLP'[p].vec) > 0
  <2>1. CASE FillOnce
    BY <1>3, <1>9, <1>10, <2>1 DEF TypesInv
  <2>2. CASE SetLPOnce
    <3>1. PICK q \in DOMAIN InitialLP : SetLP(q, InitialLP[q])
      BY <2>2 DEF SetLPOnce
    <3>2. q \in Players /\ InitialLP[q] \in Nat
      BY ClientAssumption
    <3> DEFINE new == [vec |-> Append(playerLP[q].vec, InitialLP[q]),
                        pos |-> playerLP[q].pos + 1]
    <3>3. playerLP' = [playerLP EXCEPT ![q] = new]
      BY <3>1 DEF SetLP, AddOrNext
    <3>4. playerLP[q] \in SequentialOf(Nat) /\ playerLP[q].vec \in Seq(Nat)
      BY <1>3, <3>2 DEF TypesInv, SequentialOf
    <3>5. /\ new.vec = Append(playerLP[q].vec, InitialLP[q])
          /\ new.pos = playerLP[q].pos + 1
          /\ new = [vec |-> new.vec, pos |-> new.pos]
      OBVIOUS
    <3>6. new.vec \in Seq(Nat) /\ Len(new.vec) = Len(playerLP[q].vec) + 1
      BY <3>2, <3>4, <3>5, AppendProperties
    <3>7. new \in SequentialOf(Nat) /\ AtEnd(new) /\ Len(new.vec) > 0
      BY <1>8, <1>9, <3>2, <3>4, <3>5, <3>6 DEF SequentialOf, AtEnd
    <3> HIDE DEF new
    <3> QED
      BY <1>3, <1>9, <3>2, <3>3, <3>7 DEF TypesInv
  <2> QED
    BY <1>2, <2>1, <2>2
<1> QED
  BY <1>2, <1>3, <1>4, <1>7, <1>9, <1>10, <1>11 DEF FreshBoard, TypesInv

\* A message that is received changes nothing that was recorded.
LEMMA ReceiveInv == RegisterInv /\ Receive => RegisterInv'
<1> SUFFICES ASSUME RegisterInv, Receive PROVE RegisterInv'
  OBVIOUS
<1>1. PICK m : MsgOK(m) /\ AppendMsg(m)
  BY CoreMsgsTyped DEF Receive
<1>2. /\ msgs' = Append(msgs, m)
      /\ UNCHANGED <<state, processedState, playerLP, turn, turnPlayer, phase, frames>>
  BY <1>1 DEF AppendMsg, Receive, registerVars
<1>3. /\ IsSeq(msgs) /\ Len(msgs) \in Nat /\ DOMAIN msgs = 1 .. Len(msgs)
      /\ Reach \in Nat
      /\ HistoryInv /\ ReachInv /\ TypesInv /\ RecordsInv /\ TurnInv /\ FrameInv
  BY InvFacts DEF RegisterInv, HistoryInv
<1>4. /\ IsSeq(msgs') /\ Len(msgs') = Len(msgs) + 1
      /\ DOMAIN msgs' = 1 .. Len(msgs) + 1
      /\ \A i \in 1 .. Len(msgs) : msgs'[i] = msgs[i]
      /\ msgs'[Len(msgs) + 1] = m
  BY <1>2, <1>3, AppendToSeq
<1>5. Reach' = Reach
  BY <1>2 DEF Reach
<1>6. HistoryInv'
  <2>1. \A i \in DOMAIN msgs' : i \in DOMAIN msgs \/ i = Len(msgs) + 1
    BY <1>3, <1>4
  <2>2. \A i \in DOMAIN msgs' : MsgOK(msgs'[i])
    BY <1>1, <1>3, <1>4, <2>1 DEF HistoryInv
  <2>3. IsSeq(frames)' /\ (frames # <<>>)'
    BY <1>2, <1>3 DEF HistoryInv, IsSeq
  <2> QED
    BY <1>4, <2>2, <2>3 DEF HistoryInv, IsSeq, MsgOK
<1>7. ReachInv'
  <2>1. \A i \in 1 .. Len(msgs) : Throws(msgs'[i]) = Throws(msgs[i])
    BY <1>4
  <2> QED
    BY <1>2, <1>3, <1>4, <1>5, <2>1 DEF ReachInv, Throws
<1>8. /\ TurnMsgs \cap (1 .. Reach) = TurnMsgs' \cap (1 .. Reach)
      /\ PhaseMsgs \cap (1 .. Reach) = PhaseMsgs' \cap (1 .. Reach)
      /\ \A p : LpMsgsOf(p) \cap (1 .. Reach) = LpMsgsOf(p)' \cap (1 .. Reach)
  <2>1. \A j \in 1 .. Reach : /\ j \in DOMAIN msgs /\ j \in DOMAIN msgs'
                             /\ msgs'[j] = msgs[j]
    BY <1>3, <1>4 DEF ReachInv
  <2>2. TurnMsgs \cap (1 .. Reach) = TurnMsgs' \cap (1 .. Reach)
    BY <2>1 DEF TurnMsgs
  <2>3. PhaseMsgs \cap (1 .. Reach) = PhaseMsgs' \cap (1 .. Reach)
    BY <2>1 DEF PhaseMsgs
  <2>4. ASSUME NEW p
        PROVE  LpMsgsOf(p) \cap (1 .. Reach) = LpMsgsOf(p)' \cap (1 .. Reach)
    BY <2>1 DEF LpMsgsOf
  <2> QED
    BY <2>2, <2>3, <2>4
<1>9. state \in 0 .. Reach
  BY <1>3 DEF ReachInv
<1>10. RecordsInv'
  <2>1. /\ TurnPlayerFilm' = TurnPlayerFilm /\ PhaseFilm' = PhaseFilm
        /\ \A p : LpFilm(p)' = LpFilm(p)
    BY <1>2 DEF TurnPlayerFilm, PhaseFilm, LpFilm
  <2>2. Recorded(turnPlayer, TurnMsgs', state, Reach, TurnPlayerFilm)
    BY <1>3, <1>8, <1>9, RecordedSameMsgs DEF RecordsInv
  <2>3. Recorded(phase, PhaseMsgs', state, Reach, PhaseFilm)
    BY <1>3, <1>8, <1>9, RecordedSameMsgs DEF RecordsInv
  <2>4. ASSUME NEW p \in Players
        PROVE  Recorded(playerLP[p], LpMsgsOf(p)', state, Reach, LpFilm(p))
    BY <1>3, <1>8, <1>9, RecordedSameMsgs DEF RecordsInv
  <2> QED
    BY <1>2, <1>5, <2>1, <2>2, <2>3, <2>4 DEF RecordsInv
<1>11. TurnInv'
  <2>1. \A i \in 0 .. Reach : After(TurnMsgs', 0, i) = After(TurnMsgs, 0, i)
    BY <1>3, <1>8 DEF After
  <2> QED
    BY <1>2, <1>3, <1>5, <1>9, <2>1 DEF TurnInv
<1>12. TypesInv' /\ FrameInv'
  BY <1>2, <1>3 DEF TypesInv, FrameInv
<1> QED
  BY <1>6, <1>7, <1>10, <1>11, <1>12 DEF RegisterInv

\* A message that throws is processed and leaves the registers as they are.
LEMMA PlayThrowsInv == RegisterInv /\ PlayThrows => RegisterInv'
<1> SUFFICES ASSUME RegisterInv, PlayThrows PROVE RegisterInv'
  OBVIOUS
<1>1. /\ UNCHANGED <<msgs, state, frames, playerLP, turn, turnPlayer, phase>>
      /\ state < Len(msgs) /\ Throws(msgs[state + 1])
      /\ processedState' = IF state = processedState
                           THEN processedState + 1 ELSE processedState
  BY DEF PlayThrows, ForwardThrows, MarkProcessed, registerVars
<1>2. Reach \in Nat /\ Len(msgs) \in Nat /\ ReachInv
  BY InvFacts DEF RegisterInv
<1>3. ReachInv'
  <2>1. Reach' = Reach
    BY <1>1 DEF Reach
  <2>2. CASE state = processedState
    <3>1. state = Reach /\ processedState' = Reach + 1
          /\ processedState' <= Len(msgs) /\ processedState' = state + 1
      BY <1>1, <1>2, <2>2 DEF ReachInv
    <3> QED
      BY <1>1, <1>2, <2>1, <3>1 DEF ReachInv
  <2>3. CASE state # processedState
    BY <1>1, <1>2, <2>1, <2>3 DEF ReachInv
  <2> QED
    BY <2>2, <2>3
<1>4. UNCHANGED <<TurnMsgs, PhaseMsgs, TurnPlayerFilm, PhaseFilm, Reach>>
      /\ \A p : UNCHANGED <<LpMsgsOf(p), LpFilm(p)>>
  BY <1>1 DEF TurnMsgs, PhaseMsgs, TurnPlayerFilm, PhaseFilm, LpMsgsOf, LpFilm, Reach
<1> QED
  BY <1>1, <1>3, <1>4
     DEF RegisterInv, HistoryInv, IsSeq, MsgOK, TypesInv, RecordsInv, TurnInv, FrameInv

\* One more message moves the count of the turns by one, if it is a new turn.
LEMMA TurnCount ==
  ASSUME NEW T \in SUBSET Nat, NEW k \in Nat
  PROVE  /\ Cardinality(After(T, 0, k)) \in Nat
         /\ Cardinality(After(T, 0, k + 1)) =
              IF k + 1 \in T THEN Cardinality(After(T, 0, k)) + 1
                             ELSE Cardinality(After(T, 0, k))
BY CountAfter

\* The types of the new values that a message carries.
LEMMA RegisterValues ==
  ASSUME RegisterInv, NEW i \in DOMAIN msgs
  PROVE  /\ i \in TurnMsgs => msgs[i].turnPlayer \in Players
         /\ i \in PhaseMsgs => msgs[i].phase \in Nat
         /\ \A p \in Players : \A lp \in ReadValues(playerLP[p]) :
              i \in LpMsgsOf(p) => LpAfter(lp, msgs[i]) \in Nat
<1>1. MsgOK(msgs[i]) /\ TypesInv
  BY DEF RegisterInv, HistoryInv
<1>2. ASSUME NEW p \in Players, NEW lp \in ReadValues(playerLP[p]), i \in LpMsgsOf(p)
      PROVE  LpAfter(lp, msgs[i]) \in Nat
  <2>1. playerLP[p] \in SequentialOf(Nat)
    BY <1>1 DEF TypesInv
  <2>2. lp \in Nat
    <3>1. CASE InRange(playerLP[p])
      <4>1. playerLP[p].vec \in Seq(Nat) /\ playerLP[p].pos \in Int
        BY <2>1 DEF SequentialOf
      <4>2. playerLP[p].pos + 1 \in 1 .. Len(playerLP[p].vec)
        BY <3>1, <4>1, LenProperties DEF InRange
      <4>3. playerLP[p].vec[playerLP[p].pos + 1] \in Nat
        BY <4>1, <4>2, ElementOfSeq
      <4> QED
        BY <3>1, <4>3 DEF ReadValues
    <3>2. CASE ~InRange(playerLP[p])
      BY <3>2, GarbageAssumption DEF ReadValues
    <3> QED
      BY <3>1, <3>2
  <2>3. msgs[i].amount \in Nat
    BY <1>1, <1>2 DEF MsgOK, LpMsgsOf
  <2>4. \A x \in Int : x % LPModulus \in Nat
    BY LPModulusAssumption
  <2> QED
    BY <2>2, <2>3, <2>4 DEF LpAfter
<1> QED
  BY <1>1, <1>2 DEF MsgOK, TurnMsgs, PhaseMsgs

\* A message that is played: a new one adds a frame and moves every register
\* it touches onto a new value, an old one moves them to the next value.
LEMMA PlayInv == RegisterInv /\ Play => RegisterInv'
<1> SUFFICES ASSUME RegisterInv, Play PROVE RegisterInv'
  OBVIOUS
<1> DEFINE m == msgs[state + 1]
<1>1. /\ UNCHANGED msgs /\ state < Len(msgs) /\ ~Throws(m) /\ state' = state + 1
      /\ processedState' = IF state = processedState
                           THEN processedState + 1 ELSE processedState
      /\ frames' = IF state = processedState THEN Append(frames, View')
                                             ELSE frames
  BY DEF Play, Forward, MarkProcessed
<1>2. RegisterStep(m, TRUE, state = processedState)
  <2>1. InterpretMsg(m, state, TRUE, state = processedState)
    BY DEF Play, Forward
  <2> QED
    BY <2>1, InterpretRegisters, Zenon
<1>3. /\ Reach \in Nat /\ Len(frames) = Reach + 1
      /\ Len(msgs) \in Nat /\ DOMAIN msgs = 1 .. Len(msgs)
      /\ DOMAIN frames = 1 .. Reach + 1
      /\ TurnMsgs \in SUBSET Nat /\ PhaseMsgs \in SUBSET Nat
      /\ \A p : LpMsgsOf(p) \in SUBSET Nat
      /\ HistoryInv /\ ReachInv /\ TypesInv /\ RecordsInv /\ TurnInv /\ FrameInv
  BY InvFacts DEF RegisterInv
<1>4. /\ state \in Nat /\ state <= Reach /\ state + 1 \in DOMAIN msgs
      /\ state = processedState <=> state = Reach
  BY <1>1, <1>3 DEF ReachInv
<1>5. /\ state + 1 \in TurnMsgs <=> m.type = "NewTurn"
      /\ state + 1 \in PhaseMsgs <=> m.type = "NewPhase"
      /\ \A p : state + 1 \in LpMsgsOf(p) <=> m.type = "LpChange" /\ m.player = p
  BY <1>4 DEF TurnMsgs, PhaseMsgs, LpMsgsOf
<1>6. /\ UNCHANGED <<TurnMsgs, PhaseMsgs>> /\ \A p : UNCHANGED LpMsgsOf(p)
  BY <1>1 DEF TurnMsgs, PhaseMsgs, LpMsgsOf
<1>7. /\ IsSeq(frames') /\ frames' # <<>>
      /\ Reach' = IF state = Reach THEN Reach + 1 ELSE Reach
      /\ DOMAIN frames' = 1 .. Reach' + 1
      /\ \A i \in 1 .. Reach + 1 : frames'[i] = frames[i]
      /\ state = Reach => frames'[Reach + 2] = View'
  <2>1. IsSeq(frames) /\ frames # <<>>
    BY <1>3 DEF HistoryInv
  <2>2. CASE state = Reach
    <3>1. frames' = Append(frames, View')
      BY <1>1, <1>4, <2>2
    <3>2. /\ IsSeq(frames') /\ Len(frames') = Reach + 2
          /\ DOMAIN frames' = 1 .. Reach + 2
          /\ \A i \in 1 .. Reach + 1 : frames'[i] = frames[i]
          /\ frames'[Reach + 2] = View'
      BY <1>3, <2>1, <3>1, AppendToSeq
    <3>3. frames' # <<>>
      BY <1>3, <3>2, ShortSeqs
    <3>4. Reach' = Reach + 1
      BY <1>3, <3>2 DEF Reach
    <3> QED
      BY <1>3, <2>2, <3>2, <3>3, <3>4
  <2>3. CASE state # Reach
    BY <1>1, <1>3, <1>4, <2>1, <2>3 DEF Reach
  <2> QED
    BY <2>2, <2>3
<1>8. HistoryInv'
  BY <1>1, <1>3, <1>7 DEF HistoryInv, IsSeq, MsgOK
<1>9. ReachInv'
  BY <1>1, <1>3, <1>4, <1>7 DEF ReachInv, Throws
<1>10. /\ FilmForwarded(TurnPlayerFilm, TurnPlayerFilm', state, Reach,
                        Shown(turnPlayer'))
       /\ FilmForwarded(PhaseFilm, PhaseFilm', state, Reach, Shown(phase'))
       /\ \A p \in Players :
            FilmForwarded(LpFilm(p), LpFilm(p)', state, Reach,
                          Shown(playerLP'[p]))
  BY <1>1, <1>3, <1>4, <1>7, ViewRegisters
     DEF FilmForwarded, TurnPlayerFilm, PhaseFilm, LpFilm
<1>11. /\ turnPlayer' \in SequentialOf(Players)
       /\ Recorded(turnPlayer', TurnMsgs, state + 1, Reach', TurnPlayerFilm')
  <2>1. Forwarded(turnPlayer, turnPlayer', TurnMsgs, state, Reach, m.turnPlayer)
    BY <1>2, <1>4, <1>5 DEF Forwarded, RegisterStep, Step, AddOrNext
  <2>2. state + 1 \in TurnMsgs => m.turnPlayer \in Players
    BY <1>4, RegisterValues
  <2>3. /\ turnPlayer \in SequentialOf(Players)
        /\ Recorded(turnPlayer, TurnMsgs, state, Reach, TurnPlayerFilm)
    BY <1>3 DEF TypesInv, RecordsInv
  <2> HIDE DEF m
  <2> QED
    BY <1>3, <1>4, <1>7, <1>10, <2>1, <2>2, <2>3, RecordForward
<1>12. /\ phase' \in SequentialOf(Nat)
       /\ Recorded(phase', PhaseMsgs, state + 1, Reach', PhaseFilm')
  <2>1. Forwarded(phase, phase', PhaseMsgs, state, Reach, m.phase)
    BY <1>2, <1>4, <1>5 DEF Forwarded, RegisterStep, Step, AddOrNext
  <2>2. state + 1 \in PhaseMsgs => m.phase \in Nat
    BY <1>4, RegisterValues
  <2>3. /\ phase \in SequentialOf(Nat)
        /\ Recorded(phase, PhaseMsgs, state, Reach, PhaseFilm)
    BY <1>3 DEF TypesInv, RecordsInv
  <2> HIDE DEF m
  <2> QED
    BY <1>3, <1>4, <1>7, <1>10, <2>1, <2>2, <2>3, RecordForward
<1>13. ASSUME NEW p \in Players
       PROVE  /\ playerLP'[p] \in SequentialOf(Nat)
              /\ Recorded(playerLP'[p], LpMsgsOf(p), state + 1, Reach', LpFilm(p)')
  <2>1. playerLP \in [Players -> SequentialOf(Nat)]
    BY <1>3 DEF TypesInv
  <2>2. PICK v : /\ state + 1 \in LpMsgsOf(p) => v \in Nat
                 /\ Forwarded(playerLP[p], playerLP'[p], LpMsgsOf(p), state,
                              Reach, v)
    <3>1. CASE state + 1 \in LpMsgsOf(p)
      <4>1. PICK lp \in ReadValues(playerLP[p]) :
              playerLP' = [playerLP EXCEPT ![p] =
                             Step(@, TRUE, state = processedState, LpAfter(lp, m))]
        BY <1>2, <1>5, <3>1 DEF RegisterStep
      <4>2. LpAfter(lp, m) \in Nat
        BY <1>4, <3>1, RegisterValues
      <4>3. Forwarded(playerLP[p], playerLP'[p], LpMsgsOf(p), state, Reach,
                      LpAfter(lp, m))
        BY <1>4, <2>1, <3>1, <4>1 DEF Forwarded, Step, AddOrNext
      <4> QED
        BY <4>2, <4>3
    <3>2. CASE state + 1 \notin LpMsgsOf(p)
      BY <1>2, <1>5, <2>1, <3>2 DEF RegisterStep, Forwarded
    <3> QED
      BY <3>1, <3>2
  <2>3. /\ playerLP[p] \in SequentialOf(Nat)
        /\ Recorded(playerLP[p], LpMsgsOf(p), state, Reach, LpFilm(p))
    BY <1>3, <2>1 DEF RecordsInv
  <2> HIDE DEF m
  <2> QED
    BY <1>3, <1>4, <1>7, <1>10, <2>2, <2>3, RecordForward
<1>14. TypesInv'
  <2>1. playerLP' = [p \in Players |-> playerLP'[p]]
    BY <1>2, <1>3 DEF RegisterStep, TypesInv
  <2> QED
    BY <1>11, <1>12, <1>13, <2>1 DEF TypesInv
<1>15. RecordsInv'
  BY <1>1, <1>6, <1>11, <1>12, <1>13 DEF RecordsInv
<1>16. TurnInv'
  <2>1. turn' = IF state + 1 \in TurnMsgs THEN turn + 1 ELSE turn
    BY <1>2, <1>5 DEF RegisterStep
  <2>2. turn' = Cardinality(After(TurnMsgs, 0, state + 1))
    BY <1>3, <1>4, <2>1, TurnCount DEF TurnInv
  <2>3. ASSUME NEW i \in 0 .. Reach'
        PROVE  frames'[i + 1].turn = Cardinality(After(TurnMsgs, 0, i))
    <3>1. CASE i \in 0 .. Reach
      BY <1>3, <1>7, <3>1 DEF TurnInv
    <3>2. CASE i \notin 0 .. Reach
      <4>1. state = Reach /\ i = state + 1 /\ i + 1 = Reach + 2
        BY <1>3, <1>7, <3>2
      <4> QED
        BY <1>7, <2>2, <4>1, ViewRegisters
    <3> QED
      BY <3>1, <3>2
  <2> QED
    BY <1>1, <1>6, <2>2, <2>3 DEF TurnInv
<1>17. FrameInv'
  <2>1. View'.lp = [p \in Players |-> View'.lp[p]]
    BY ViewRegisters
  <2>2. ASSUME NEW i \in DOMAIN frames', i \notin DOMAIN frames
        PROVE  state = Reach /\ i = Reach + 2
    BY <1>3, <1>7, <2>2
  <2> QED
    BY <1>3, <1>7, <2>1, <2>2 DEF FrameInv
<1> QED
  BY <1>8, <1>9, <1>14, <1>15, <1>16, <1>17 DEF RegisterInv

\* A message that is rewound moves every register it touches back.
LEMMA RewindInv == RegisterInv /\ Rewind => RegisterInv'
<1> SUFFICES ASSUME RegisterInv, Rewind PROVE RegisterInv'
  OBVIOUS
<1> DEFINE k == state - 1
           m == msgs[state]
<1>1. /\ UNCHANGED <<msgs, processedState, frames>> /\ state > 0 /\ state' = k
      /\ RegisterStep(m, FALSE, FALSE)
  <2>1. InterpretMsg(m, state - 1, FALSE, FALSE)
    BY DEF Rewind, Backward
  <2>2. RegisterStep(m, FALSE, FALSE)
    BY <2>1, InterpretRegisters, Zenon
  <2> QED
    BY <2>2 DEF Rewind, Backward
<1>2. /\ Reach \in Nat /\ Len(msgs) \in Nat /\ DOMAIN msgs = 1 .. Len(msgs)
      /\ TurnMsgs \in SUBSET Nat /\ PhaseMsgs \in SUBSET Nat
      /\ \A p : LpMsgsOf(p) \in SUBSET Nat
      /\ HistoryInv /\ ReachInv /\ TypesInv /\ RecordsInv /\ TurnInv /\ FrameInv
  BY InvFacts DEF RegisterInv
<1>3. k \in Nat /\ k < Reach /\ state = k + 1 /\ state \in DOMAIN msgs
  BY <1>1, <1>2 DEF ReachInv
<1>4. /\ k + 1 \in TurnMsgs <=> m.type = "NewTurn"
      /\ k + 1 \in PhaseMsgs <=> m.type = "NewPhase"
      /\ \A p : k + 1 \in LpMsgsOf(p) <=> m.type = "LpChange" /\ m.player = p
  BY <1>3 DEF TurnMsgs, PhaseMsgs, LpMsgsOf
<1>5. UNCHANGED <<TurnMsgs, PhaseMsgs, TurnPlayerFilm, PhaseFilm, Reach>>
      /\ \A p : UNCHANGED <<LpMsgsOf(p), LpFilm(p)>>
  BY <1>1 DEF TurnMsgs, PhaseMsgs, TurnPlayerFilm, PhaseFilm, LpMsgsOf, LpFilm, Reach
<1>6. ReachInv'
  BY <1>1, <1>2, <1>3, <1>5 DEF ReachInv, Throws
<1>7. /\ turnPlayer' \in SequentialOf(Players)
      /\ Recorded(turnPlayer', TurnMsgs, k, Reach, TurnPlayerFilm)
  <2>1. turnPlayer' = IF k + 1 \in TurnMsgs THEN Prev(turnPlayer) ELSE turnPlayer
    BY <1>1, <1>4 DEF RegisterStep, Step
  <2>2. /\ turnPlayer \in SequentialOf(Players)
        /\ Recorded(turnPlayer, TurnMsgs, k + 1, Reach, TurnPlayerFilm)
    BY <1>2, <1>3 DEF TypesInv, RecordsInv
  <2> HIDE DEF k, m
  <2> QED
    BY <1>2, <1>3, <2>1, <2>2, RecordBackward
<1>8. /\ phase' \in SequentialOf(Nat)
      /\ Recorded(phase', PhaseMsgs, k, Reach, PhaseFilm)
  <2>1. phase' = IF k + 1 \in PhaseMsgs THEN Prev(phase) ELSE phase
    BY <1>1, <1>4 DEF RegisterStep, Step
  <2>2. /\ phase \in SequentialOf(Nat)
        /\ Recorded(phase, PhaseMsgs, k + 1, Reach, PhaseFilm)
    BY <1>2, <1>3 DEF TypesInv, RecordsInv
  <2> HIDE DEF k, m
  <2> QED
    BY <1>2, <1>3, <2>1, <2>2, RecordBackward
<1>9. ASSUME NEW p \in Players
      PROVE  /\ playerLP'[p] \in SequentialOf(Nat)
             /\ Recorded(playerLP'[p], LpMsgsOf(p), k, Reach, LpFilm(p))
  <2>1. playerLP \in [Players -> SequentialOf(Nat)]
    BY <1>2 DEF TypesInv
  <2>2. playerLP'[p] = IF k + 1 \in LpMsgsOf(p) THEN Prev(playerLP[p])
                                                ELSE playerLP[p]
    BY <1>1, <1>4, <2>1 DEF RegisterStep, Step
  <2>3. /\ playerLP[p] \in SequentialOf(Nat)
        /\ Recorded(playerLP[p], LpMsgsOf(p), k + 1, Reach, LpFilm(p))
    BY <1>2, <1>3, <2>1 DEF RecordsInv
  <2> HIDE DEF k, m
  <2> QED
    BY <1>2, <1>3, <2>2, <2>3, RecordBackward
<1>10. TypesInv'
  <2>1. playerLP' = [p \in Players |-> playerLP'[p]]
    BY <1>1, <1>2 DEF RegisterStep, TypesInv
  <2> QED
    BY <1>7, <1>8, <1>9, <2>1 DEF TypesInv
<1>11. RecordsInv'
  BY <1>1, <1>5, <1>7, <1>8, <1>9 DEF RecordsInv
<1>12. TurnInv'
  <2>1. turn' = IF k + 1 \in TurnMsgs THEN turn - 1 ELSE turn
    BY <1>1, <1>4 DEF RegisterStep
  <2>2. turn = Cardinality(After(TurnMsgs, 0, k + 1))
    BY <1>2, <1>3 DEF TurnInv
  <2> HIDE DEF k, m
  <2>3. /\ Cardinality(After(TurnMsgs, 0, k)) \in Nat
        /\ Cardinality(After(TurnMsgs, 0, k + 1)) =
             IF k + 1 \in TurnMsgs THEN Cardinality(After(TurnMsgs, 0, k)) + 1
                                   ELSE Cardinality(After(TurnMsgs, 0, k))
    BY <1>2, <1>3, TurnCount
  <2>4. turn' = Cardinality(After(TurnMsgs, 0, k))
    BY <2>1, <2>2, <2>3
  <2>5. state' = k /\ frames' = frames /\ Reach' = Reach /\ TurnMsgs' = TurnMsgs
    BY <1>1, <1>5
  <2>6. \A i \in 0 .. Reach :
          frames[i + 1].turn = Cardinality(After(TurnMsgs, 0, i))
    BY <1>2 DEF TurnInv
  <2>7. turn' = Cardinality(After(TurnMsgs', 0, state'))
    BY <2>4, <2>5
  <2>8. \A i \in 0 .. Reach' :
          frames'[i + 1].turn = Cardinality(After(TurnMsgs', 0, i))
    BY <2>5, <2>6
  <2> QED
    BY <2>7, <2>8 DEF TurnInv
<1> QED
  BY <1>1, <1>2, <1>6, <1>10, <1>11, <1>12
     DEF RegisterInv, HistoryInv, IsSeq, MsgOK, FrameInv

LEMMA StutterInv == RegisterInv /\ UNCHANGED vars => RegisterInv'
<1> SUFFICES ASSUME RegisterInv, UNCHANGED vars PROVE RegisterInv'
  OBVIOUS
<1>1. UNCHANGED <<msgs, state, processedState, frames, playerLP, turn,
                  turnPlayer, phase>>
  BY DEF vars, boardVars, timelineVars, registerVars
<1>2. UNCHANGED <<TurnMsgs, PhaseMsgs, TurnPlayerFilm, PhaseFilm, Reach>>
      /\ \A p : UNCHANGED <<LpMsgsOf(p), LpFilm(p)>>
  BY <1>1 DEF TurnMsgs, PhaseMsgs, TurnPlayerFilm, PhaseFilm, LpMsgsOf, LpFilm, Reach
<1> QED
  BY <1>1, <1>2 DEF RegisterInv, HistoryInv, IsSeq, MsgOK, ReachInv, Throws,
                    TypesInv, RecordsInv, TurnInv, FrameInv

----------------------------------------------------------------------------
(* Theorems *)

\* RegisterInv holds in every state that a client can bring its board to, for
\* every duel, every setup and every order of playing and rewinding
\* (board.hpp:80-123, 703-757).
THEOREM RegisterInvariance == Spec => []RegisterInv
<1>1. RegisterInv /\ [Next]_vars => RegisterInv'
  BY SetUpInv, ReceiveInv, PlayInv, PlayThrowsInv, RewindInv, StutterInv DEF Next
<1> QED
  BY InitInv, <1>1, PTL DEF Spec

\* The cursors of the message list and the registers keep their types, and
\* the cursors their order (board.hpp:80-108).
THEOREM RegisterTypes == Spec => [](CursorOK /\ RegistersOK)
<1>1. RegisterInv => CursorOK /\ RegistersOK
  <2> SUFFICES ASSUME RegisterInv PROVE CursorOK /\ RegistersOK
    OBVIOUS
  <2>1. turn \in Nat
    BY InvFacts, TurnCount DEF RegisterInv, ReachInv, TurnInv
  <2> QED
    BY <2>1, InvFacts DEF RegisterInv, ReachInv, TypesInv, CursorOK, RegistersOK
<1> QED
  BY RegisterInvariance, <1>1, PTL

\* Every recording shows the frame of the state its cursor is at.
LEMMA RegistersReplayInv == RegisterInv => RegistersReplay
<1> SUFFICES ASSUME RegisterInv PROVE RegistersReplay
  OBVIOUS
<1>1. /\ Reach \in Nat /\ state \in 0 .. Reach /\ DOMAIN frames = 1 .. Reach + 1
      /\ TurnMsgs \in SUBSET Nat /\ PhaseMsgs \in SUBSET Nat
      /\ \A p : LpMsgsOf(p) \in SUBSET Nat
      /\ TypesInv /\ RecordsInv /\ TurnInv /\ FrameInv
  BY InvFacts DEF RegisterInv, ReachInv
<1> DEFINE frame == frames[state + 1]
<1>2. state + 1 \in DOMAIN frames
  BY <1>1
<1>3. Shown(turnPlayer) = TurnPlayerFilm[state + 1]
  BY <1>1, RecordedShows DEF TypesInv, RecordsInv
<1>4. Shown(phase) = PhaseFilm[state + 1]
  BY <1>1, RecordedShows DEF TypesInv, RecordsInv
<1>5. \A p \in Players : Shown(playerLP[p]) = LpFilm(p)[state + 1]
  BY <1>1, RecordedShows DEF TypesInv, RecordsInv
<1>6. View.turnPlayer = frame.turnPlayer /\ View.phase = frame.phase
  BY <1>2, <1>3, <1>4, ViewRegisters DEF TurnPlayerFilm, PhaseFilm
<1>7. View.lp = frame.lp
  <2>1. View.lp = [p \in Players |-> frame.lp[p]]
    BY <1>2, <1>5, ViewRegisters DEF LpFilm
  <2> QED
    BY <1>1, <1>2, <2>1 DEF FrameInv
<1>8. View.turn = frame.turn
  BY <1>1, ViewRegisters DEF TurnInv
<1> QED
  BY <1>2, <1>6, <1>7, <1>8 DEF RegistersReplay, Registers

\* What the board shows of the registers at a state is what it showed when
\* the state was first reached (board.hpp:703-757).
THEOREM RegistersAreReplayed == Spec => []RegistersReplay
BY RegisterInvariance, RegistersReplayInv, PTL

\* A message that throws is never applied, and no message after it is played
\* (board.hpp:86-96, 299-301).
THEOREM NothingAfterAThrow == Spec => []ThrowIsTheEnd
<1>1. RegisterInv => ThrowIsTheEnd
  <2> SUFFICES ASSUME RegisterInv, NEW i \in DOMAIN msgs, Throws(msgs[i])
               PROVE  state < i /\ processedState <= i
    BY DEF ThrowIsTheEnd
  <2>1. Reach \in Nat /\ i \in Nat \ {0} /\ ReachInv
    BY InvFacts DEF RegisterInv
  <2>2. i \notin 1 .. Reach
    BY <2>1 DEF ReachInv
  <2> QED
    BY <2>1, <2>2 DEF ReachInv
<1> QED
  BY RegisterInvariance, <1>1, PTL

=============================================================================
