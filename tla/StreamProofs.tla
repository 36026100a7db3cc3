---------------------------- MODULE StreamProofs ------------------------------
(****************************************************************************)
(* The encoder loses nothing that the board needs: the core's buffers,      *)
(* read by the encoder, are the messages that the core has sent             *)
(* (DeliversTheDuel, NothingIsGarbled), for all constants and all kinds of  *)
(* messages, if the core blocks no zone that the encoder does not read      *)
(* (BlocksReadZones).                                                       *)
(*                                                                          *)
(* The argument: a table of the duel is sound if its cards lie where the    *)
(* wire has a name for their place (Sound).  A message about a sound table  *)
(* comes out of the encoder as it went in, one lemma per kind of message    *)
(* (EveryMessageArrives), and leaves a sound table (EffectSound).  So with  *)
(* StreamInv, which says that the duel's last table is sound, Deliver is a  *)
(* Receive, and what the theorems of the other modules say of a board holds *)
(* of a board behind the encoder.                                           *)
(****************************************************************************)
EXTENDS DuelStream, ReplayProofs
LOCAL INSTANCE SequencesExt

----------------------------------------------------------------------------
(* The fields of a buffer (codec/msg_encoder.cpp:39-43, 55-100) *)

\* The last bit of a code is set or not: the encoder reads the same code.
LEMMA CodeArrives ==
  ASSUME NEW code \in Codes, NEW dirty \in {0, 1}
  PROVE  ToCardCode(code + dirty * DirtyBit) = code
<1>1. code \in Nat /\ code < DirtyBit /\ DirtyBit \in Nat \ {0}
  BY TableAssumption, DirtyBitAssumption, CodesAssumption
<1>2. CASE dirty = 0
  BY <1>1, <1>2 DEF ToCardCode
<1>3. CASE dirty = 1
  BY <1>1, <1>3 DEF ToCardCode
<1> QED
  BY <1>2, <1>3

\* A place that a card location can tell.
WirePlace(p) ==
  /\ p.loc # "NONE"
  /\ IF p.loc = "OVERLAY" THEN p = OverlayPlace(p.con, p.seq, p.oseq)
                          ELSE p = Place(p.con, p.loc, p.seq)

\* The fourth field of a card location: the place among the materials, or the
\* position (codec/msg_encoder.cpp:84-95).
Fourth(p, position) == IF p.loc = "OVERLAY" THEN p.oseq ELSE position

\* The fields of w from i on are those of a card location.
Located(w, i, p, position) ==
  /\ w[i] = p.con /\ w[i + 1] = p.loc /\ w[i + 2] = p.seq
  /\ w[i + 3] = Fourth(p, position)

\* The encoder reads the place that the fields tell, and the position of a card
\* that is no material (codec/msg_encoder.cpp:70-100).
LEMMA InfoLocRead ==
  ASSUME NEW w, NEW i, NEW p, WirePlace(p), NEW position, Located(w, i, p, position)
  PROVE  /\ ReadInfoLoc(w, i).place = p
         /\ ReadInfoLoc(w, i).position =
              IF p.loc = "OVERLAY" THEN MATERIAL_POSITION ELSE position
<1>1. CASE p.loc = "OVERLAY"
  BY <1>1 DEF ReadInfoLoc, Located, WirePlace, Fourth
<1>2. CASE p.loc # "OVERLAY"
  BY <1>2 DEF ReadInfoLoc, Located, WirePlace, Fourth
<1> QED
  BY <1>1, <1>2

\* A card location without a place is read as one (codec/msg_encoder.cpp:70-100).
LEMMA NoPlaceRead ==
  ASSUME NEW w, NEW i, NEW position, Located(w, i, NoPlace, position)
  PROVE  ReadInfoLoc(w, i).place.loc = "NONE"
BY DEF ReadInfoLoc, Located, NoPlace, Place

\* The four fields of a card location.
LEMMA InfoLocIs ==
  ASSUME NEW p, NEW position
  PROVE  WireInfoLoc(p, position) = <<p.con, p.loc, p.seq, Fourth(p, position)>>
BY DEF WireInfoLoc, Fourth

----------------------------------------------------------------------------
(* Buffers with two card locations *)

\* The fields of a sequence that is put together from a pair and two fours.
LEMMA TenFields ==
  ASSUME NEW a, NEW b, NEW c1, NEW c2, NEW c3, NEW c4,
         NEW d1, NEW d2, NEW d3, NEW d4, NEW e, NEW w,
         w = <<a, b>> \o <<c1, c2, c3, c4>> \o <<d1, d2, d3, d4>> \o <<e>>
  PROVE  /\ w[1] = a /\ w[2] = b
         /\ w[3] = c1 /\ w[4] = c2 /\ w[5] = c3 /\ w[6] = c4
         /\ w[7] = d1 /\ w[8] = d2 /\ w[9] = d3 /\ w[10] = d4
OBVIOUS

\* The fields of a sequence with a name and twice a value before a four.
LEMMA ElevenFields ==
  ASSUME NEW a, NEW b, NEW c1, NEW c2, NEW c3, NEW c4,
         NEW c, NEW d1, NEW d2, NEW d3, NEW d4, NEW w,
         w = <<a>> \o (<<b>> \o <<c1, c2, c3, c4>>) \o (<<c>> \o <<d1, d2, d3, d4>>)
  PROVE  /\ w[1] = a
         /\ w[3] = c1 /\ w[4] = c2 /\ w[5] = c3 /\ w[6] = c4
         /\ w[8] = d1 /\ w[9] = d2 /\ w[10] = d3 /\ w[11] = d4
OBVIOUS

\* The buffer of a card that moves.
MoveBuffer(code, p, x, q, y) ==
  <<"MSG_MOVE", code>> \o WireInfoLoc(p, x) \o WireInfoLoc(q, y) \o <<"core reason">>

\* Where the fields of a move are.
LEMMA MoveFields ==
  ASSUME NEW code, NEW p, NEW x, NEW q, NEW y, NEW w, w = MoveBuffer(code, p, x, q, y)
  PROVE  /\ w[1] = "MSG_MOVE" /\ w[2] = code
         /\ Located(w, 3, p, x) /\ Located(w, 7, q, y)
<1> DEFINE name == "MSG_MOVE"
           reason == "core reason"
<1>1. w = <<name, code>> \o <<p.con, p.loc, p.seq, Fourth(p, x)>>
            \o <<q.con, q.loc, q.seq, Fourth(q, y)>> \o <<reason>>
  BY InfoLocIs DEF MoveBuffer
<1> HIDE DEF name, reason
<1>2. /\ w[1] = name /\ w[2] = code
      /\ w[3] = p.con /\ w[4] = p.loc /\ w[5] = p.seq /\ w[6] = Fourth(p, x)
      /\ w[7] = q.con /\ w[8] = q.loc /\ w[9] = q.seq /\ w[10] = Fourth(q, y)
  BY <1>1, TenFields
<1>3. Located(w, 3, p, x)
  BY <1>2 DEF Located
<1>4. Located(w, 7, q, y)
  BY <1>2 DEF Located
<1> QED
  BY <1>2, <1>3, <1>4 DEF name

----------------------------------------------------------------------------
(* Which case of the encoder reads a buffer *)
\* The first byte tells the case that reads the rest: cards and piles
\* (codec/msg_encoder.cpp:228-248).
LEMMA Dispatch ==
  ASSUME NEW w
  PROVE  /\ w[1] = "MSG_MOVE" => Encode(w) = EncodeMove(w)
         /\ w[1] = "MSG_POS_CHANGE" => Encode(w) = EncodeInPlace(w, "POS_CHANGE", w[7])
         /\ w[1] = "MSG_SET" => Encode(w) = EncodeInPlace(w, "SET", w[6])
         /\ w[1] = "MSG_DECK_TOP" => Encode(w) = EncodeDeckTop(w)
         /\ w[1] = "MSG_SWAP" => Encode(w) = EncodeSwap(w)
         /\ w[1] = "MSG_SHUFFLE_DECK" => Encode(w) = EncodeShuffle(w, "DECK", <<>>)
         /\ w[1] = "MSG_SHUFFLE_HAND" =>
              Encode(w) = EncodeShuffle(w, "HAND", ReadCodes(w, 4, w[3]))
         /\ w[1] = "MSG_SHUFFLE_EXTRA" =>
              Encode(w) = EncodeShuffle(w, "EXTRA", ReadCodes(w, 4, w[3]))
         /\ w[1] = "MSG_SHUFFLE_SET_CARD" => Encode(w) = EncodeShuffleSet(w)
         /\ w[1] = "MSG_DRAW" => Encode(w) = EncodeDraw(w)
BY DEF Encode, InformationMsg, InformationMsgs, RequestMsgs, SpecInformationMsgs

\* Counters, zones, the registers, and messages that change nothing
\* (codec/msg_encoder.cpp:228-248).
LEMMA DispatchRest ==
  ASSUME NEW w
  PROVE  /\ w[1] = "MSG_ADD_COUNTER" => Encode(w) = EncodeCounter(w, "ADD")
         /\ w[1] = "MSG_REMOVE_COUNTER" => Encode(w) = EncodeCounter(w, "REMOVE")
         /\ w[1] = "MSG_FIELD_DISABLED" => Encode(w) = EncodeDisabled(w)
         /\ w[1] = "MSG_DAMAGE" => Encode(w) = EncodeLp(w, "DAMAGE")
         /\ w[1] = "MSG_RECOVER" => Encode(w) = EncodeLp(w, "RECOVER")
         /\ w[1] = "MSG_LPUPDATE" => Encode(w) = EncodeLp(w, "BECOME")
         /\ w[1] = "MSG_PAY_LPCOST" => Encode(w) = EncodeLp(w, "PAY")
         /\ w[1] = "MSG_NEW_TURN" => Encode(w) = [type |-> "NewTurn", turnPlayer |-> w[2]]
         /\ w[1] = "MSG_NEW_PHASE" => Encode(w) = [type |-> "NewPhase", phase |-> w[2]]
         /\ w[1] = "MSG_SWAP_GRAVE_DECK" =>
              Encode(w) = [type |-> "MiscAction", action |-> "SWAP_GY_WITH_DECK",
                           player |-> w[2]]
         /\ w[1] = "MSG_SELECT_IDLECMD" => Encode(w) = [type |-> "Request", player |-> w[2]]
         /\ w[1] = "MSG_HINT" => Encode(w) = [type |-> "Hint", player |-> w[3]]
         /\ w[1] = "MSG_EQUIP" => Encode(w) = [type |-> "Empty"]
BY DEF Encode, InformationMsg, InformationMsgs, RequestMsgs, SpecInformationMsgs

----------------------------------------------------------------------------
(* Cards that move, arrive and leave *)
\* A move between two places is an UpdateCard, one from nowhere an AddCard and
\* one to nowhere a RemoveCard (codec/encoder_information_impl.hpp:106-139).
LEMMA MoveRead ==
  ASSUME NEW w, NEW code, NEW p, NEW x, NEW q, NEW y,
         w[1] = "MSG_MOVE", ToCardCode(w[2]) = code,
         Located(w, 3, p, x), Located(w, 7, q, y)
  PROVE  /\ WirePlace(p) /\ WirePlace(q) =>
              Encode(w) = [type |-> "UpdateCard", reason |-> "MOVE", previous |-> p,
                           current |-> q, code |-> code,
                           position |-> IF q.loc = "OVERLAY" THEN MATERIAL_POSITION ELSE y]
         /\ p = NoPlace /\ WirePlace(q) =>
              Encode(w) = [type |-> "AddCard", place |-> q, code |-> code,
                           position |-> IF q.loc = "OVERLAY" THEN MATERIAL_POSITION ELSE y]
         /\ WirePlace(p) /\ q = NoPlace =>
              Encode(w) = [type |-> "RemoveCard", place |-> p, code |-> code,
                           position |-> IF p.loc = "OVERLAY" THEN MATERIAL_POSITION ELSE x]
<1>1. Encode(w) = EncodeMove(w)
  BY Dispatch
<1>2. 3 + InfoLocSize = 7
  BY DEF InfoLocSize
<1>3. ASSUME WirePlace(p)
      PROVE  /\ ReadInfoLoc(w, 3).place = p /\ ReadInfoLoc(w, 3).place.loc # "NONE"
             /\ ReadInfoLoc(w, 3).position =
                  IF p.loc = "OVERLAY" THEN MATERIAL_POSITION ELSE x
  <2>1. /\ ReadInfoLoc(w, 3).place = p
        /\ ReadInfoLoc(w, 3).position =
             IF p.loc = "OVERLAY" THEN MATERIAL_POSITION ELSE x
    BY <1>3, InfoLocRead
  <2> QED
    BY <2>1, <1>3 DEF WirePlace
<1>4. ASSUME WirePlace(q)
      PROVE  /\ ReadInfoLoc(w, 7).place = q /\ ReadInfoLoc(w, 7).place.loc # "NONE"
             /\ ReadInfoLoc(w, 7).position =
                  IF q.loc = "OVERLAY" THEN MATERIAL_POSITION ELSE y
  <2>1. /\ ReadInfoLoc(w, 7).place = q
        /\ ReadInfoLoc(w, 7).position =
             IF q.loc = "OVERLAY" THEN MATERIAL_POSITION ELSE y
    BY <1>4, InfoLocRead
  <2> QED
    BY <2>1, <1>4 DEF WirePlace
<1>5. ASSUME WirePlace(p), WirePlace(q)
      PROVE  EncodeMove(w) = [type |-> "UpdateCard", reason |-> "MOVE", previous |-> p,
                           current |-> q, code |-> code,
                           position |-> IF q.loc = "OVERLAY" THEN MATERIAL_POSITION ELSE y]
  <2>1. EncodeMove(w) = Update("MOVE", p, q, w[2], ReadInfoLoc(w, 7).position)
    BY <1>2, <1>3, <1>4, <1>5 DEF EncodeMove
  <2> QED
    BY <2>1, <1>4, <1>5 DEF Update
<1>6. ASSUME p = NoPlace, WirePlace(q)
      PROVE  EncodeMove(w) = [type |-> "AddCard", place |-> q, code |-> code,
                           position |-> IF q.loc = "OVERLAY" THEN MATERIAL_POSITION ELSE y]
  <2>1. ReadInfoLoc(w, 3).place.loc = "NONE"
    BY <1>6, NoPlaceRead
  <2>2. EncodeMove(w) = CardAt("AddCard", ReadInfoLoc(w, 7), w[2])
    BY <2>1, <1>2, <1>4, <1>6 DEF EncodeMove
  <2> QED
    BY <2>2, <1>4, <1>6 DEF CardAt
<1>7. ASSUME WirePlace(p), q = NoPlace
      PROVE  EncodeMove(w) = [type |-> "RemoveCard", place |-> p, code |-> code,
                           position |-> IF p.loc = "OVERLAY" THEN MATERIAL_POSITION ELSE x]
  <2>1. ReadInfoLoc(w, 7).place.loc = "NONE"
    BY <1>7, NoPlaceRead
  <2>2. EncodeMove(w) = CardAt("RemoveCard", ReadInfoLoc(w, 3), w[2])
    BY <2>1, <1>2, <1>3, <1>7 DEF EncodeMove
  <2> QED
    BY <2>2, <1>3, <1>7 DEF CardAt
<1> QED
  BY <1>1, <1>5, <1>6, <1>7

----------------------------------------------------------------------------
(* The buffers of messages that update a card *)
\* The core tells an UpdateCard that moves with the buffer of a move.
LEMMA MoveWire ==
  ASSUME NEW t, NEW m, NEW dirty, m.type = "UpdateCard", m.reason = "MOVE",
         NEW code, code = m.code + dirty * DirtyBit
  PROVE  Wire(t, m, dirty) =
           MoveBuffer(code, m.previous, CardOf(t, m.previous).pos, m.current, m.position)
BY DEF Wire, WireUpdate, MoveBuffer

\* The core tells an AddCard as a move from nowhere.
LEMMA AddWire ==
  ASSUME NEW t, NEW m, NEW dirty, m.type = "AddCard",
         NEW code, code = m.code + dirty * DirtyBit
  PROVE  Wire(t, m, dirty) = MoveBuffer(code, NoPlace, 0, m.place, m.position)
BY DEF Wire, MoveBuffer, NoInfoLoc

\* The core tells a RemoveCard as a move to nowhere.
LEMMA RemoveWire ==
  ASSUME NEW t, NEW m, NEW dirty, m.type = "RemoveCard",
         NEW code, code = m.code + dirty * DirtyBit
  PROVE  Wire(t, m, dirty) = MoveBuffer(code, m.place, m.position, NoPlace, 0)
BY DEF Wire, MoveBuffer, NoInfoLoc

\* The core tells a card that turns where it is with its place and position.
LEMMA InPlaceWire ==
  ASSUME NEW t, NEW m, NEW dirty, m.type = "UpdateCard", NEW w, w = Wire(t, m, dirty)
  PROVE  /\ m.reason = "POS_CHANGE" =>
              /\ w[1] = "MSG_POS_CHANGE" /\ w[2] = m.code + dirty * DirtyBit
              /\ w[3] = m.previous.con /\ w[4] = m.previous.loc /\ w[5] = m.previous.seq
              /\ w[7] = m.position
         /\ m.reason = "SET" =>
              /\ w[1] = "MSG_SET" /\ w[2] = m.code + dirty * DirtyBit
              /\ w[3] = m.previous.con /\ w[4] = m.previous.loc /\ w[5] = m.previous.seq
              /\ w[6] = m.position
<1>1. ASSUME m.reason = "POS_CHANGE"
      PROVE  /\ w[1] = "MSG_POS_CHANGE" /\ w[2] = m.code + dirty * DirtyBit
             /\ w[3] = m.previous.con /\ w[4] = m.previous.loc /\ w[5] = m.previous.seq
             /\ w[7] = m.position
  BY <1>1 DEF Wire, WireUpdate
<1>2. ASSUME m.reason = "SET"
      PROVE  /\ w[1] = "MSG_SET" /\ w[2] = m.code + dirty * DirtyBit
             /\ w[3] = m.previous.con /\ w[4] = m.previous.loc /\ w[5] = m.previous.seq
             /\ w[6] = m.position
  BY <1>2 DEF Wire, WireUpdate
<1> QED
  BY <1>1, <1>2

\* The core tells a card of the deck with its depth and its code.
LEMMA DeckTopWire ==
  ASSUME NEW t, NEW m, NEW dirty, m.type = "UpdateCard", m.reason = "DECK_TOP",
         NEW w, w = Wire(t, m, dirty)
  PROVE  /\ w[1] = "MSG_DECK_TOP" /\ w[2] = m.previous.con /\ w[3] = m.previous.seq
         /\ w[4] = m.code + dirty * DirtyBit
BY DEF Wire, WireUpdate

\* There is a buffer for the message, and the encoder makes the message of it.
Arrives(t, m) ==
  \A dirty \in {0, 1} : OnTheWire(m) => Encode(Wire(t, m, dirty)) = m

\* The messages that move a card arrive (codec/encoder_information_impl.hpp:106-139).
LEMMA MovesArrive ==
  ASSUME NEW t, NEW pairs, \A pq \in pairs : WirePlace(pq[1]) /\ WirePlace(pq[2]),
         NEW m \in Updates("MOVE", pairs)
  PROVE  Arrives(t, m)
<1>1. PICK pq \in pairs, code \in Codes, position \in Positions :
        m = [type |-> "UpdateCard", reason |-> "MOVE", previous |-> pq[1],
             current |-> pq[2], code |-> code, position |-> position]
  BY DEF Updates
<1>2. SUFFICES ASSUME NEW dirty \in {0, 1}, OnTheWire(m)
               PROVE  Encode(Wire(t, m, dirty)) = m
  BY DEF Arrives
<1>3. /\ m.type = "UpdateCard" /\ m.reason = "MOVE" /\ m.previous = pq[1]
      /\ m.current = pq[2] /\ m.code = code /\ m.position = position
  BY <1>1
<1>4. pq[2].loc = "OVERLAY" => position = MATERIAL_POSITION
  BY <1>2, <1>3 DEF OnTheWire
<1> DEFINE w == Wire(t, m, dirty)
           field == code + dirty * DirtyBit
<1>5. ToCardCode(field) = code
  BY CodeArrives
<1>6. field = m.code + dirty * DirtyBit
  BY <1>3
<1> HIDE DEF w, field
<1>7. w = MoveBuffer(field, m.previous, CardOf(t, m.previous).pos, m.current, m.position)
  BY <1>3, <1>6, MoveWire DEF w
<1>8. /\ w[1] = "MSG_MOVE" /\ w[2] = field
      /\ Located(w, 3, m.previous, CardOf(t, m.previous).pos)
      /\ Located(w, 7, m.current, m.position)
  BY <1>7, MoveFields
<1>9. WirePlace(m.previous) /\ WirePlace(m.current)
  BY <1>3
<1>10. Encode(w) = [type |-> "UpdateCard", reason |-> "MOVE", previous |-> m.previous,
             current |-> m.current, code |-> code,
             position |-> IF m.current.loc = "OVERLAY" THEN MATERIAL_POSITION
                                                       ELSE m.position]
  BY <1>5, <1>8, <1>9, MoveRead
<1>11. Encode(w) = m
  BY <1>1, <1>3, <1>4, <1>10
<1> QED
  BY <1>11 DEF w

\* The messages that add or remove a card arrive
\* (codec/encoder_information_impl.hpp:106-139).
LEMMA PlacedArrive ==
  ASSUME NEW t, NEW type \in {"AddCard", "RemoveCard"}, NEW places,
         \A p \in places : WirePlace(p), NEW m \in Placed(type, places)
  PROVE  Arrives(t, m)
<1>1. PICK p \in places, code \in Codes, position \in Positions :
        m = [type |-> type, place |-> p, code |-> code, position |-> position]
  BY DEF Placed
<1>2. SUFFICES ASSUME NEW dirty \in {0, 1}, OnTheWire(m)
               PROVE  Encode(Wire(t, m, dirty)) = m
  BY DEF Arrives
<1>3. m.type = type /\ m.place = p /\ m.code = code /\ m.position = position
  BY <1>1
<1>4. p.loc = "OVERLAY" => position = MATERIAL_POSITION
  BY <1>2, <1>3 DEF OnTheWire
<1> DEFINE w == Wire(t, m, dirty)
           field == code + dirty * DirtyBit
<1>5. ToCardCode(field) = code
  BY CodeArrives
<1>6. field = m.code + dirty * DirtyBit
  BY <1>3
<1>7. WirePlace(m.place)
  BY <1>3
<1> HIDE DEF w, field
<1>8. CASE type = "AddCard"
  <2>1. w = MoveBuffer(field, NoPlace, 0, m.place, m.position)
    BY <1>3, <1>6, <1>8, AddWire DEF w
  <2>2. /\ w[1] = "MSG_MOVE" /\ w[2] = field
        /\ Located(w, 3, NoPlace, 0) /\ Located(w, 7, m.place, m.position)
    BY <2>1, MoveFields
  <2>3. Encode(w) = [type |-> "AddCard", place |-> m.place, code |-> code,
           position |-> IF m.place.loc = "OVERLAY" THEN MATERIAL_POSITION ELSE m.position]
    BY <1>5, <1>7, <2>2, MoveRead
  <2>4. Encode(w) = m
    BY <1>1, <1>3, <1>4, <1>8, <2>3
  <2> QED
    BY <2>4 DEF w
<1>9. CASE type = "RemoveCard"
  <2>1. w = MoveBuffer(field, m.place, m.position, NoPlace, 0)
    BY <1>3, <1>6, <1>9, RemoveWire DEF w
  <2>2. /\ w[1] = "MSG_MOVE" /\ w[2] = field
        /\ Located(w, 3, m.place, m.position) /\ Located(w, 7, NoPlace, 0)
    BY <2>1, MoveFields
  <2>3. Encode(w) = [type |-> "RemoveCard", place |-> m.place, code |-> code,
           position |-> IF m.place.loc = "OVERLAY" THEN MATERIAL_POSITION ELSE m.position]
    BY <1>5, <1>7, <2>2, MoveRead
  <2>4. Encode(w) = m
    BY <1>1, <1>3, <1>4, <1>9, <2>3
  <2> QED
    BY <2>4 DEF w
<1> QED
  BY <1>8, <1>9

\* A place on the field that is no material.
PlainPlace(p) == p = Place(p.con, p.loc, p.seq) /\ p.loc \notin {"NONE", "OVERLAY"}

\* The messages that turn a card where it is arrive
\* (codec/encoder_information_impl.hpp:141-164).
LEMMA InPlaceArrives ==
  ASSUME NEW t, NEW reason \in {"POS_CHANGE", "SET"}, NEW places,
         \A p \in places : PlainPlace(p),
         NEW m \in Updates(reason, {<<p, NoPlace>> : p \in places})
  PROVE  Arrives(t, m)
<1>1. PICK p \in places, code \in Codes, position \in Positions :
        m = [type |-> "UpdateCard", reason |-> reason, previous |-> p,
             current |-> NoPlace, code |-> code, position |-> position]
  BY DEF Updates
<1>2. SUFFICES ASSUME NEW dirty \in {0, 1}
               PROVE  Encode(Wire(t, m, dirty)) = m
  BY DEF Arrives
<1>3. /\ m.type = "UpdateCard" /\ m.reason = reason /\ m.previous = p
      /\ m.code = code /\ m.position = position
  BY <1>1
<1> DEFINE w == Wire(t, m, dirty)
           field == code + dirty * DirtyBit
<1>4. ToCardCode(field) = code
  BY CodeArrives
<1>5. field = m.code + dirty * DirtyBit
  BY <1>3
<1>6. Place(p.con, p.loc, p.seq) = p
  BY DEF PlainPlace
<1> HIDE DEF w, field
<1>7. CASE reason = "POS_CHANGE"
  <2>1. /\ w[1] = "MSG_POS_CHANGE" /\ w[2] = field /\ w[3] = p.con
        /\ w[4] = p.loc /\ w[5] = p.seq /\ w[7] = position
    BY <1>3, <1>5, <1>7, InPlaceWire DEF w
  <2>2. Encode(w) = EncodeInPlace(w, "POS_CHANGE", w[7])
    BY <2>1, Dispatch
  <2>3. Encode(w) = m
    BY <1>1, <1>4, <1>6, <1>7, <2>1, <2>2 DEF EncodeInPlace, Update
  <2> QED
    BY <2>3 DEF w
<1>8. CASE reason = "SET"
  <2>1. /\ w[1] = "MSG_SET" /\ w[2] = field /\ w[3] = p.con
        /\ w[4] = p.loc /\ w[5] = p.seq /\ w[6] = position
    BY <1>3, <1>5, <1>8, InPlaceWire DEF w
  <2>2. Encode(w) = EncodeInPlace(w, "SET", w[6])
    BY <2>1, Dispatch
  <2>3. Encode(w) = m
    BY <1>1, <1>4, <1>6, <1>8, <2>1, <2>2 DEF EncodeInPlace, Update
  <2> QED
    BY <2>3 DEF w
<1> QED
  BY <1>7, <1>8

\* The messages that tell of a card in the deck arrive
\* (codec/encoder_information_impl.hpp:62-72).
LEMMA DeckTopArrives ==
  ASSUME NEW t, NEW depth, NEW m \in DeckTopMsgs(t, depth)
  PROVE  Arrives(t, m)
<1>1. PICK con \in Players, code \in Codes :
        m = [type |-> "UpdateCard", reason |-> "DECK_TOP",
             previous |-> Place(con, "DECK", depth), current |-> NoPlace,
             code |-> code, position |-> 0]
  BY DEF DeckTopMsgs
<1>2. SUFFICES ASSUME NEW dirty \in {0, 1}
               PROVE  Encode(Wire(t, m, dirty)) = m
  BY DEF Arrives
<1>3. /\ m.type = "UpdateCard" /\ m.reason = "DECK_TOP" /\ m.code = code
      /\ m.previous.con = con /\ m.previous.seq = depth
  BY <1>1 DEF Place
<1> DEFINE w == Wire(t, m, dirty)
           field == code + dirty * DirtyBit
<1>4. ToCardCode(field) = code
  BY CodeArrives
<1>5. field = m.code + dirty * DirtyBit
  BY <1>3
<1> HIDE DEF w, field
<1>6. w[1] = "MSG_DECK_TOP" /\ w[2] = con /\ w[3] = depth /\ w[4] = field
  BY <1>3, <1>5, DeckTopWire DEF w
<1>7. Encode(w) = EncodeDeckTop(w)
  BY <1>6, Dispatch
<1>8. Encode(w) = m
  BY <1>1, <1>4, <1>6, <1>7 DEF EncodeDeckTop, Update
<1> QED
  BY <1>8 DEF w

----------------------------------------------------------------------------
(* Counters, registers and hints *)
\* The buffer of a change of counters.
LEMMA CounterWire ==
  ASSUME NEW t, NEW m, NEW dirty, m.type = "CounterChange", NEW w, w = Wire(t, m, dirty)
  PROVE  /\ m.change = "ADD" => w[1] = "MSG_ADD_COUNTER"
         /\ m.change # "ADD" => w[1] = "MSG_REMOVE_COUNTER"
         /\ w[2] = m.counter
         /\ w[3] = m.place.con /\ w[4] = m.place.loc /\ w[5] = m.place.seq
         /\ w[6] = m.count
BY DEF Wire

\* The messages that change counters arrive (codec/encoder_information_impl.hpp:341-357).
LEMMA CountersArrive ==
  ASSUME NEW t, \A p \in FieldCards(t) : PlainPlace(p),
         NEW change \in {"ADD", "REMOVE"}, NEW m \in Counters(t, change)
  PROVE  Arrives(t, m)
<1>1. PICK p \in FieldCards(t), type \in CounterTypes, n \in CounterCounts :
        m = [type |-> "CounterChange", change |-> change, place |-> p,
             counter |-> type, count |-> n]
  BY DEF Counters
<1>2. SUFFICES ASSUME NEW dirty \in {0, 1}
               PROVE  Encode(Wire(t, m, dirty)) = m
  BY DEF Arrives
<1>3. /\ m.type = "CounterChange" /\ m.change = change /\ m.place = p
      /\ m.counter = type /\ m.count = n
  BY <1>1
<1>4. Place(p.con, p.loc, p.seq) = p
  BY DEF PlainPlace
<1> DEFINE w == Wire(t, m, dirty)
<1> HIDE DEF w
<1>5. /\ change = "ADD" => w[1] = "MSG_ADD_COUNTER"
      /\ change # "ADD" => w[1] = "MSG_REMOVE_COUNTER"
      /\ w[2] = type /\ w[3] = p.con /\ w[4] = p.loc /\ w[5] = p.seq /\ w[6] = n
  BY <1>3, CounterWire DEF w
<1>6. Encode(w) = EncodeCounter(w, change)
  BY <1>5, DispatchRest
<1>7. Encode(w) = m
  BY <1>1, <1>4, <1>5, <1>6 DEF EncodeCounter
<1> QED
  BY <1>7 DEF w

\* The buffer of a change of life points.
LEMMA LpWire ==
  ASSUME NEW t, NEW m, NEW dirty, m.type = "LpChange", NEW w, w = Wire(t, m, dirty)
  PROVE  /\ w[1] = LpName(m.change) /\ w[2] = m.player /\ w[3] = m.amount
BY DEF Wire

\* The messages that change life points arrive (codec/encoder_information_impl.hpp:294-311).
LEMMA LpArrives ==
  ASSUME NEW t, NEW m \in LpMsgs(t)
  PROVE  Arrives(t, m)
<1>1. PICK change \in {"DAMAGE", "PAY", "RECOVER", "BECOME"}, p \in Players, n \in LPAmounts :
        m = [type |-> "LpChange", change |-> change, player |-> p, amount |-> n]
  BY DEF LpMsgs
<1>2. SUFFICES ASSUME NEW dirty \in {0, 1}
               PROVE  Encode(Wire(t, m, dirty)) = m
  BY DEF Arrives
<1>3. m.type = "LpChange" /\ m.change = change /\ m.player = p /\ m.amount = n
  BY <1>1
<1> DEFINE w == Wire(t, m, dirty)
<1> HIDE DEF w
<1>4. w[1] = LpName(change) /\ w[2] = p /\ w[3] = n
  BY <1>3, LpWire DEF w
<1>5. Encode(w) = EncodeLp(w, change)
  <2>1. CASE change = "DAMAGE"
    BY <2>1, <1>4, DispatchRest DEF LpName
  <2>2. CASE change = "PAY"
    BY <2>2, <1>4, DispatchRest DEF LpName
  <2>3. CASE change = "RECOVER"
    BY <2>3, <1>4, DispatchRest DEF LpName
  <2>4. CASE change = "BECOME"
    BY <2>4, <1>4, DispatchRest DEF LpName
  <2> QED
    BY <2>1, <2>2, <2>3, <2>4
<1>6. Encode(w) = m
  BY <1>1, <1>4, <1>5 DEF EncodeLp
<1> QED
  BY <1>6 DEF w

\* The buffers that have no more than one field that matters.
LEMMA PlainWire ==
  ASSUME NEW t, NEW m, NEW dirty, NEW w, w = Wire(t, m, dirty)
  PROVE  /\ m.type = "NewTurn" => w[1] = "MSG_NEW_TURN" /\ w[2] = m.turnPlayer
         /\ m.type = "NewPhase" => w[1] = "MSG_NEW_PHASE" /\ w[2] = m.phase
         /\ m.type = "MiscAction" => w[1] = "MSG_SWAP_GRAVE_DECK" /\ w[2] = m.player
         /\ m.type = "Request" => w[1] = "MSG_SELECT_IDLECMD" /\ w[2] = m.player
         /\ m.type = "Hint" => w[1] = "MSG_HINT" /\ w[3] = m.player
         /\ m.type = "Empty" => w[1] = "MSG_EQUIP"
<1>1. ASSUME m.type = "NewTurn" PROVE w[1] = "MSG_NEW_TURN" /\ w[2] = m.turnPlayer
  BY <1>1 DEF Wire
<1>2. ASSUME m.type = "NewPhase" PROVE w[1] = "MSG_NEW_PHASE" /\ w[2] = m.phase
  BY <1>2 DEF Wire
<1>3. ASSUME m.type = "MiscAction" PROVE w[1] = "MSG_SWAP_GRAVE_DECK" /\ w[2] = m.player
  BY <1>3 DEF Wire
<1>4. ASSUME m.type = "Request" PROVE w[1] = "MSG_SELECT_IDLECMD" /\ w[2] = m.player
  BY <1>4 DEF Wire
<1>5. ASSUME m.type = "Hint" PROVE w[1] = "MSG_HINT" /\ w[3] = m.player
  BY <1>5 DEF Wire
<1>6. ASSUME m.type = "Empty" PROVE w[1] = "MSG_EQUIP"
  BY <1>6 DEF Wire
<1> QED
  BY <1>1, <1>2, <1>3, <1>4, <1>5, <1>6

\* The messages of turns, phases, requests and hints arrive
\* (codec/encoder_information_impl.hpp:44-48, 88-96,
\* codec/encoder_spec_information_impl.hpp:3-9).
LEMMA PlainArrives ==
  ASSUME NEW t, NEW m, NEW p,
         \/ m = [type |-> "NewTurn", turnPlayer |-> p]
         \/ m = [type |-> "NewPhase", phase |-> p]
         \/ m = [type |-> "MiscAction", action |-> "SWAP_GY_WITH_DECK", player |-> p]
         \/ m = [type |-> "Request", player |-> p]
         \/ m = [type |-> "Hint", player |-> p]
         \/ m = [type |-> "Empty"]
  PROVE  Arrives(t, m)
<1>1. SUFFICES ASSUME NEW dirty \in {0, 1}
               PROVE  Encode(Wire(t, m, dirty)) = m
  BY DEF Arrives
<1> DEFINE w == Wire(t, m, dirty)
<1> HIDE DEF w
<1>2. CASE m = [type |-> "NewTurn", turnPlayer |-> p]
  BY <1>2, PlainWire, DispatchRest DEF w
<1>3. CASE m = [type |-> "NewPhase", phase |-> p]
  BY <1>3, PlainWire, DispatchRest DEF w
<1>4. CASE m = [type |-> "MiscAction", action |-> "SWAP_GY_WITH_DECK", player |-> p]
  BY <1>4, PlainWire, DispatchRest DEF w
<1>5. CASE m = [type |-> "Request", player |-> p]
  BY <1>5, PlainWire, DispatchRest DEF w
<1>6. CASE m = [type |-> "Hint", player |-> p]
  BY <1>6, PlainWire, DispatchRest DEF w
<1>7. CASE m = [type |-> "Empty"]
  BY <1>7, PlainWire, DispatchRest DEF w
<1> QED
  BY <1>2, <1>3, <1>4, <1>5, <1>6, <1>7

----------------------------------------------------------------------------
(* Disabled zones *)
\* The zones that the flag of disabled zones has a bit for that the encoder
\* reads.
FlaggedZones ==
  {Place(p, "MZONE", i) : p \in Players, i \in 0 .. 6}
    \cup {Place(p, "SZONE", i) : p \in Players, i \in 0 .. 4}

\* What a flagged zone is, and which bit it has.
LEMMA FlaggedForms ==
  ASSUME NEW z \in FlaggedZones
  PROVE  /\ z = Place(z.con, z.loc, z.seq) /\ z.con \in 0 .. 1
         /\ \/ z.loc = "MZONE" /\ z.seq \in 0 .. 6 /\ ZoneBit(z) = 16 * z.con + z.seq
            \/ z.loc = "SZONE" /\ z.seq \in 0 .. 4 /\ ZoneBit(z) = 16 * z.con + 8 + z.seq
<1>1. CASE \E p \in Players, i \in 0 .. 6 : z = Place(p, "MZONE", i)
  BY <1>1 DEF Place, Players, ZoneBit
<1>2. CASE \E p \in Players, i \in 0 .. 4 : z = Place(p, "SZONE", i)
  BY <1>2 DEF Place, Players, ZoneBit
<1> QED
  BY <1>1, <1>2 DEF FlaggedZones

\* A bit that is set is that of a blocked zone, and the bit of the field zone
\* is never set.
LEMMA BitRead ==
  ASSUME NEW s \in SUBSET FlaggedZones, NEW con \in 0 .. 1, NEW i
  PROVE  /\ i \in 0 .. 6 /\ 16 * con + i \in {ZoneBit(z) : z \in s} =>
              Place(con, "MZONE", i) \in s
         /\ i \in 8 .. 12 /\ 16 * con + i \in {ZoneBit(z) : z \in s} =>
              Place(con, "SZONE", i - 8) \in s
         /\ i \in 13 .. 13 => 16 * con + i \notin {ZoneBit(z) : z \in s}
<1>1. ASSUME i \in 0 .. 6, NEW z \in s, 16 * con + i = ZoneBit(z)
      PROVE  z = Place(con, "MZONE", i)
  BY <1>1, FlaggedForms
<1>2. ASSUME i \in 8 .. 12, NEW z \in s, 16 * con + i = ZoneBit(z)
      PROVE  z = Place(con, "SZONE", i - 8)
  <2>1. /\ z = Place(z.con, z.loc, z.seq) /\ z.con \in 0 .. 1
         /\ \/ z.loc = "MZONE" /\ z.seq \in 0 .. 6 /\ ZoneBit(z) = 16 * z.con + z.seq
            \/ z.loc = "SZONE" /\ z.seq \in 0 .. 4 /\ ZoneBit(z) = 16 * z.con + 8 + z.seq
    BY FlaggedForms
  <2>2. z.loc = "SZONE" /\ z.con = con /\ z.seq = i - 8
    BY <2>1, <1>2
  <2> QED
    BY <2>1, <2>2
<1>3. ASSUME i \in 13 .. 13, NEW z \in s, 16 * con + i = ZoneBit(z)
      PROVE  FALSE
  BY <1>3, FlaggedForms
<1> QED
  BY <1>1, <1>2, <1>3

\* The encoder finds the blocked zones of a player from their bits
\* (codec/encoder_information_impl.hpp:182-210).
LEMMA ExtractedPlaces ==
  ASSUME NEW s \in SUBSET FlaggedZones, NEW con \in 0 .. 1,
         NEW flag, flag = {ZoneBit(z) : z \in s}
  PROVE  ExtractPlaces(flag, con) = {z \in s : z.con = con}
<1> DEFINE bits(first, last, loc) ==
             {Place(con, loc, i - first) : i \in {j \in first .. last : 16 * con + j \in flag}}
<1>1. ExtractPlaces(flag, con) = bits(0, 6, "MZONE") \cup bits(8, 12, "SZONE")
        \cup bits(13, 13, "FZONE") \cup bits(14, 13, "PZONE")
  BY DEF ExtractPlaces
<1>2. bits(0, 6, "MZONE") = {z \in s : z.con = con /\ z.loc = "MZONE"}
  <2>1. ASSUME NEW i \in 0 .. 6, 16 * con + i \in flag
        PROVE  Place(con, "MZONE", i - 0) \in {z \in s : z.con = con /\ z.loc = "MZONE"}
    <3>1. i - 0 = i
      OBVIOUS
    <3>2. Place(con, "MZONE", i) \in s
      BY <2>1, BitRead
    <3> QED
      BY <3>1, <3>2 DEF Place
  <2>2. ASSUME NEW z \in s, z.con = con, z.loc = "MZONE"
        PROVE  \E i \in 0 .. 6 : 16 * con + i \in flag /\ z = Place(con, "MZONE", i - 0)
    <3>1. /\ z = Place(z.con, z.loc, z.seq) /\ z.seq \in 0 .. 6
          /\ ZoneBit(z) = 16 * z.con + z.seq /\ z.seq - 0 = z.seq
      BY <2>2, FlaggedForms
    <3> QED
      BY <2>2, <3>1
  <2> QED
    BY <2>1, <2>2
<1>3. bits(8, 12, "SZONE") = {z \in s : z.con = con /\ z.loc = "SZONE"}
  <2>1. ASSUME NEW i \in 8 .. 12, 16 * con + i \in flag
        PROVE  Place(con, "SZONE", i - 8) \in {z \in s : z.con = con /\ z.loc = "SZONE"}
    <3>1. Place(con, "SZONE", i - 8) \in s
      BY <2>1, BitRead
    <3> QED
      BY <3>1 DEF Place
  <2>2. ASSUME NEW z \in s, z.con = con, z.loc = "SZONE"
        PROVE  \E i \in 8 .. 12 : 16 * con + i \in flag /\ z = Place(con, "SZONE", i - 8)
    <3>1. /\ z = Place(z.con, z.loc, z.seq) /\ z.seq \in 0 .. 4 /\ z.con \in 0 .. 1
          /\ ZoneBit(z) = 16 * z.con + 8 + z.seq
      BY <2>2, FlaggedForms
    <3>2. /\ 8 + z.seq \in 8 .. 12 /\ 16 * con + (8 + z.seq) = ZoneBit(z)
          /\ (8 + z.seq) - 8 = z.seq
      BY <2>2, <3>1
    <3>3. 16 * con + (8 + z.seq) \in flag
      BY <3>2
    <3> QED
      BY <2>2, <3>1, <3>2, <3>3
  <2> QED
    BY <2>1, <2>2
<1>4. bits(13, 13, "FZONE") = {}
  BY BitRead
<1>5. bits(14, 13, "PZONE") = {}
  OBVIOUS
<1>6. \A z \in s : z.loc \in {"MZONE", "SZONE"}
  BY FlaggedForms
<1> HIDE DEF bits
<1> QED
  BY <1>1, <1>2, <1>3, <1>4, <1>5, <1>6

\* The buffer of the blocked zones is the set of their bits.
LEMMA DisabledWire ==
  ASSUME NEW t, NEW m, NEW dirty, m.type = "DisableZones", NEW w, w = Wire(t, m, dirty)
  PROVE  w[1] = "MSG_FIELD_DISABLED" /\ w[2] = {ZoneBit(p) : p \in m.places}
BY DEF Wire

\* The messages that block zones arrive, if the encoder reads the bits of the
\* zones (codec/encoder_information_impl.hpp:177-213).
LEMMA DisabledArrive ==
  ASSUME NEW t, NEW s \in SUBSET FlaggedZones,
         NEW m, m = [type |-> "DisableZones", places |-> s]
  PROVE  Arrives(t, m)
<1>1. SUFFICES ASSUME NEW dirty \in {0, 1}
               PROVE  Encode(Wire(t, m, dirty)) = m
  BY DEF Arrives
<1>2. m.type = "DisableZones" /\ m.places = s
  OBVIOUS
<1> DEFINE w == Wire(t, m, dirty)
<1> HIDE DEF w
<1>3. w[1] = "MSG_FIELD_DISABLED" /\ w[2] = {ZoneBit(p) : p \in s}
  BY <1>2, DisabledWire DEF w
<1>4. Encode(w) = EncodeDisabled(w)
  BY <1>3, DispatchRest
<1>5. /\ ExtractPlaces(w[2], 0) = {z \in s : z.con = 0}
      /\ ExtractPlaces(w[2], 1) = {z \in s : z.con = 1}
  BY <1>3, ExtractedPlaces
<1>6. \A z \in s : z.con \in {0, 1}
  BY FlaggedForms
<1>7. ExtractPlaces(w[2], 0) \cup ExtractPlaces(w[2], 1) = s
  BY <1>5, <1>6
<1>8. Encode(w) = m
  BY <1>4, <1>7 DEF EncodeDisabled
<1> QED
  BY <1>8 DEF w

----------------------------------------------------------------------------
(* Swapped cards *)
\* A single code on the wire.
LEMMA OneCode ==
  ASSUME NEW code, NEW dirty
  PROVE  WireCodes(<<code>>, dirty) = <<code + dirty * DirtyBit>>
BY DEF WireCodes

\* The buffer of two cards that swap places.
SwapBuffer(name, b, p, x, c, q, y) ==
  <<name>> \o (<<b>> \o WireInfoLoc(p, x)) \o (<<c>> \o WireInfoLoc(q, y))

\* Where the fields of a swap are.
LEMMA SwapFields ==
  ASSUME NEW name, NEW b, NEW p, NEW x, NEW c, NEW q, NEW y,
         NEW w, w = SwapBuffer(name, b, p, x, c, q, y)
  PROVE  w[1] = name /\ Located(w, 3, p, x) /\ Located(w, 8, q, y)
<1> PICK c1, c2, c3, c4 : c1 = p.con /\ c2 = p.loc /\ c3 = p.seq /\ c4 = Fourth(p, x)
  OBVIOUS
<1> PICK d1, d2, d3, d4 : d1 = q.con /\ d2 = q.loc /\ d3 = q.seq /\ d4 = Fourth(q, y)
  OBVIOUS
<1>1. w = <<name>> \o (<<b>> \o <<c1, c2, c3, c4>>) \o (<<c>> \o <<d1, d2, d3, d4>>)
  BY InfoLocIs DEF SwapBuffer
<1>2. /\ w[1] = name
      /\ w[3] = c1 /\ w[4] = c2 /\ w[5] = c3 /\ w[6] = c4
      /\ w[8] = d1 /\ w[9] = d2 /\ w[10] = d3 /\ w[11] = d4
  BY <1>1, ElevenFields
<1>3. Located(w, 3, p, x)
  BY <1>2 DEF Located
<1>4. Located(w, 8, q, y)
  BY <1>2 DEF Located
<1> QED
  BY <1>2, <1>3, <1>4

\* The core tells a SwapCards with the locations of both cards.
LEMMA SwapWire ==
  ASSUME NEW t, NEW m, NEW dirty, m.type = "SwapCards", NEW w, w = Wire(t, m, dirty),
         NEW p, p = m.card1, NEW q, q = m.card2
  PROVE  /\ w[1] = "MSG_SWAP"
         /\ Located(w, 3, p, CardOf(t, p).pos) /\ Located(w, 8, q, CardOf(t, q).pos)
<1> DEFINE name == "MSG_SWAP"
           b == CardOf(t, p).code + dirty * DirtyBit
           c == CardOf(t, q).code + dirty * DirtyBit
           x == CardOf(t, p).pos
           y == CardOf(t, q).pos
<1>1. w = WireSwap(t, m, dirty)
  BY DEF Wire
<1>2. w = SwapBuffer(name, b, p, x, c, q, y)
  BY <1>1, OneCode DEF WireSwap, SwapBuffer
<1> HIDE DEF name, b, c, x, y
<1>3. w[1] = name /\ Located(w, 3, p, x) /\ Located(w, 8, q, y)
  BY <1>2, SwapFields
<1> QED
  BY <1>3 DEF name, x, y

\* The messages that swap two cards on the field arrive
\* (codec/encoder_information_impl.hpp:166-175).
LEMMA SwapArrives ==
  ASSUME NEW t, NEW p, NEW q, PlainPlace(p), PlainPlace(q),
         NEW m, m = [type |-> "SwapCards", card1 |-> p, card2 |-> q]
  PROVE  Arrives(t, m)
<1>1. SUFFICES ASSUME NEW dirty \in {0, 1}
               PROVE  Encode(Wire(t, m, dirty)) = m
  BY DEF Arrives
<1>2. m.type = "SwapCards" /\ m.card1 = p /\ m.card2 = q
  OBVIOUS
<1> DEFINE w == Wire(t, m, dirty)
<1> HIDE DEF w
<1>3. /\ w[1] = "MSG_SWAP"
      /\ Located(w, 3, p, CardOf(t, p).pos) /\ Located(w, 8, q, CardOf(t, q).pos)
  BY <1>2, SwapWire DEF w
<1>4. WirePlace(p) /\ WirePlace(q)
  BY DEF WirePlace, PlainPlace
<1>5. ReadInfoLoc(w, 3).place = p /\ ReadInfoLoc(w, 8).place = q
  BY <1>3, <1>4, InfoLocRead
<1>6. 4 + InfoLocSize = 8
  BY DEF InfoLocSize
<1>7. Encode(w) = EncodeSwap(w)
  BY <1>3, Dispatch
<1>8. Encode(w) = m
  BY <1>5, <1>6, <1>7 DEF EncodeSwap
<1> QED
  BY <1>8 DEF w

----------------------------------------------------------------------------
(* Lists of codes *)
\* The fields of a sequence that has three fields before the rest.
LEMMA ThreeAndMore ==
  ASSUME NEW a, NEW b, NEW c, NEW s, IsSeq(s), NEW n \in Nat, Len(s) = n,
         NEW w, w = <<a, b, c>> \o s
  PROVE  /\ w[1] = a /\ w[2] = b /\ w[3] = c
         /\ \A k \in 1 .. n : w[k + 3] = s[k]
<1>1. IsSeq(<<a, b, c>>) /\ Len(<<a, b, c>>) = 3
  BY DEF IsSeq
<1>2. \A i \in 1 .. 3 + n : w[i] = IF i <= 3 THEN <<a, b, c>>[i] ELSE s[i - 3]
  BY <1>1, Joined
<1>3. w[1] = <<a, b, c>>[1] /\ w[2] = <<a, b, c>>[2] /\ w[3] = <<a, b, c>>[3]
  BY <1>2
<1>4. \A k \in 1 .. n : w[k + 3] = s[k]
  <2> TAKE k \in 1 .. n
  <2>1. k + 3 \in 1 .. 3 + n /\ ~(k + 3 <= 3) /\ (k + 3) - 3 = k
    OBVIOUS
  <2> QED
    BY <2>1, <1>2
<1> QED
  BY <1>3, <1>4

\* A list of codes on the wire is as long as the list, and has its codes.
LEMMA CodesOnWire ==
  ASSUME NEW n \in Nat, NEW codes \in CodeLists(n), NEW dirty \in {0, 1},
         NEW s, s = WireCodes(codes, dirty)
  PROVE  /\ IsSeq(s) /\ Len(s) = n
         /\ \A i \in 1 .. n : ToCardCode(s[i]) = codes[i]
<1>1. DOMAIN codes = 1 .. n /\ \A i \in 1 .. n : codes[i] \in Codes
  BY DEF CodeLists
<1>2. s = [i \in 1 .. n |-> codes[i] + dirty * DirtyBit]
  BY <1>1 DEF WireCodes
<1>3. s = [i \in 1 .. n |-> s[i]]
  BY <1>2
<1>4. IsSeq(s) /\ Len(s) = n
  BY <1>3, FunctionIsSeq
<1>5. \A i \in 1 .. n : ToCardCode(s[i]) = codes[i]
  BY <1>1, <1>2, CodeArrives
<1> QED
  BY <1>4, <1>5

\* A buffer with n codes.
CodeBuffer(name, p, n, s) == <<name, p, n>> \o s

\* The encoder reads the codes that the core wrote
\* (codec/encoder_information_impl.hpp:78-85).
LEMMA CodesRead ==
  ASSUME NEW n \in Nat, NEW codes \in CodeLists(n), NEW dirty \in {0, 1},
         NEW s, s = WireCodes(codes, dirty),
         NEW a, NEW b, NEW w, w = CodeBuffer(a, b, n, s)
  PROVE  w[1] = a /\ w[2] = b /\ w[3] = n /\ ReadCodes(w, 4, n) = codes
<1>1. /\ IsSeq(s) /\ Len(s) = n
      /\ \A i \in 1 .. n : ToCardCode(s[i]) = codes[i]
  BY CodesOnWire
<1>2. /\ w[1] = a /\ w[2] = b /\ w[3] = n
      /\ \A k \in 1 .. n : w[k + 3] = s[k]
  BY <1>1, ThreeAndMore DEF CodeBuffer
<1>3. \A i \in 1 .. n : ToCardCode(w[4 + i - 1]) = codes[i]
  <2> TAKE i \in 1 .. n
  <2>1. 4 + i - 1 = i + 3
    OBVIOUS
  <2> QED
    BY <2>1, <1>1, <1>2
<1>4. codes = [i \in 1 .. n |-> codes[i]]
  BY DEF CodeLists
<1>5. ReadCodes(w, 4, n) = [i \in 1 .. n |-> codes[i]]
  BY <1>3 DEF ReadCodes
<1> QED
  BY <1>2, <1>4, <1>5

\* The buffer of cards that are drawn.
LEMMA DrawWire ==
  ASSUME NEW t, NEW m, NEW dirty, m.type = "Draw", NEW n, n = Len(m.codes),
         NEW s, s = WireCodes(m.codes, dirty), NEW p, p = m.player,
         NEW name, name = "MSG_DRAW"
  PROVE  Wire(t, m, dirty) = CodeBuffer(name, p, n, s)
BY DEF Wire, CodeBuffer

\* The messages of drawn cards arrive (codec/encoder_information_impl.hpp:285-292).
LEMMA DrawArrives ==
  ASSUME NEW t, NEW p \in Players, NEW n \in Nat, NEW codes \in CodeLists(n),
         NEW m, m = [type |-> "Draw", player |-> p, codes |-> codes]
  PROVE  Arrives(t, m)
<1>1. SUFFICES ASSUME NEW dirty \in {0, 1}
               PROVE  Encode(Wire(t, m, dirty)) = m
  BY DEF Arrives
<1>2. m.type = "Draw" /\ m.player = p /\ m.codes = codes
  OBVIOUS
<1>3. n = Len(m.codes)
  BY <1>2, CodesFit
<1> DEFINE w == Wire(t, m, dirty)
           name == "MSG_DRAW"
           s == WireCodes(codes, dirty)
<1> HIDE DEF w, name, s
<1>4. w = CodeBuffer(name, p, n, s)
  BY <1>2, <1>3, DrawWire DEF w, name, s
<1>5. w[1] = name /\ w[2] = p /\ w[3] = n /\ ReadCodes(w, 4, n) = codes
  BY <1>4, CodesRead DEF s
<1>6. Encode(w) = EncodeDraw(w)
  BY <1>5, Dispatch DEF name
<1>7. Encode(w) = m
  BY <1>5, <1>6 DEF EncodeDraw
<1> QED
  BY <1>7 DEF w

\* The buffer of a deck that is shuffled has no codes.
LEMMA ShuffleDeckWire ==
  ASSUME NEW t, NEW m, NEW dirty, m.type = "ShuffleLocation", m.location = "DECK",
         NEW w, w = Wire(t, m, dirty)
  PROVE  w[1] = "MSG_SHUFFLE_DECK" /\ w[2] = m.player
BY DEF Wire, WireShuffle

\* The buffer of a hand that is shuffled has codes.
LEMMA ShuffleHandWire ==
  ASSUME NEW t, NEW m, NEW dirty, m.type = "ShuffleLocation", m.location = "HAND",
         NEW p, p = m.player, NEW s, s = WireCodes(m.codes, dirty), NEW n, n = Len(s),
         NEW name, name = "MSG_SHUFFLE_HAND"
  PROVE  Wire(t, m, dirty) = CodeBuffer(name, p, n, s)
BY DEF Wire, WireShuffle, CodeBuffer

\* The buffer of an extra deck that is shuffled has codes.
LEMMA ShuffleExtraWire ==
  ASSUME NEW t, NEW m, NEW dirty, m.type = "ShuffleLocation", m.location = "EXTRA",
         NEW p, p = m.player, NEW s, s = WireCodes(m.codes, dirty), NEW n, n = Len(s),
         NEW name, name = "MSG_SHUFFLE_EXTRA"
  PROVE  Wire(t, m, dirty) = CodeBuffer(name, p, n, s)
BY DEF Wire, WireShuffle, CodeBuffer

\* The messages that shuffle a pile arrive (codec/encoder_information_impl.hpp:23-42, 74-86).
LEMMA ShuffleArrives ==
  ASSUME NEW t, NEW p, NEW loc, NEW n \in Nat, NEW codes,
         codes = <<>> \/ codes \in CodeLists(n),
         NEW m, m = [type |-> "ShuffleLocation", player |-> p, location |-> loc,
                     codes |-> codes]
  PROVE  Arrives(t, m)
<1>1. SUFFICES ASSUME NEW dirty \in {0, 1}, OnTheWire(m)
               PROVE  Encode(Wire(t, m, dirty)) = m
  BY DEF Arrives
<1>2. m.type = "ShuffleLocation" /\ m.player = p /\ m.location = loc /\ m.codes = codes
  OBVIOUS
<1>3. \/ loc = "DECK" /\ codes = <<>>
      \/ loc \in {"HAND", "EXTRA"} /\ codes # <<>>
  BY <1>1, <1>2 DEF OnTheWire
<1> DEFINE w == Wire(t, m, dirty)
           s == WireCodes(codes, dirty)
<1> HIDE DEF w, s
<1>4. CASE loc = "DECK" /\ codes = <<>>
  <2>1. w[1] = "MSG_SHUFFLE_DECK" /\ w[2] = p
    BY <1>2, <1>4, ShuffleDeckWire DEF w
  <2>2. Encode(w) = EncodeShuffle(w, "DECK", <<>>)
    BY <2>1, Dispatch
  <2>3. Encode(w) = m
    BY <1>4, <2>1, <2>2 DEF EncodeShuffle
  <2> QED
    BY <2>3 DEF w
<1>5. ASSUME codes \in CodeLists(n)
      PROVE  n = Len(s)
  BY <1>5, CodesOnWire DEF s
<1>6. CASE loc = "HAND" /\ codes # <<>>
  <2> DEFINE name == "MSG_SHUFFLE_HAND"
  <2>1. codes \in CodeLists(n) /\ n = Len(s)
    BY <1>5, <1>6
  <2> HIDE DEF name
  <2>2. w = CodeBuffer(name, p, n, s)
    BY <1>2, <1>6, <2>1, ShuffleHandWire DEF w, s, name
  <2>3. w[1] = name /\ w[2] = p /\ w[3] = n /\ ReadCodes(w, 4, n) = codes
    BY <2>1, <2>2, CodesRead DEF s
  <2>4. Encode(w) = EncodeShuffle(w, "HAND", ReadCodes(w, 4, w[3]))
    BY <2>3, Dispatch DEF name
  <2>5. Encode(w) = m
    BY <1>6, <2>3, <2>4 DEF EncodeShuffle
  <2> QED
    BY <2>5 DEF w
<1>7. CASE loc = "EXTRA" /\ codes # <<>>
  <2> DEFINE name == "MSG_SHUFFLE_EXTRA"
  <2>1. codes \in CodeLists(n) /\ n = Len(s)
    BY <1>5, <1>7
  <2> HIDE DEF name
  <2>2. w = CodeBuffer(name, p, n, s)
    BY <1>2, <1>7, <2>1, ShuffleExtraWire DEF w, s, name
  <2>3. w[1] = name /\ w[2] = p /\ w[3] = n /\ ReadCodes(w, 4, n) = codes
    BY <2>1, <2>2, CodesRead DEF s
  <2>4. Encode(w) = EncodeShuffle(w, "EXTRA", ReadCodes(w, 4, w[3]))
    BY <2>3, Dispatch DEF name
  <2>5. Encode(w) = m
    BY <1>7, <2>3, <2>4 DEF EncodeShuffle
  <2> QED
    BY <2>5 DEF w
<1> QED
  BY <1>3, <1>4, <1>6, <1>7

----------------------------------------------------------------------------
(* Shuffled sets *)
\* The card locations of a message that shuffles sets: the ones before, then
\* the ones after.
InfoOf(m, i) ==
  LET n == Len(m.previous)
  IN  IF i <= n THEN WireInfoLoc(m.previous[i].place, m.previous[i].position)
                ELSE WireInfoLoc(m.previous[i - n].place, m.current[i - n].position)

\* The locations one field after the other.
SetFields(m) ==
  [k \in 1 .. 8 * Len(m.previous) |-> InfoOf(m, (k + 3) \div 4)[1 + ((k - 1) % 4)]]

\* The buffer of shuffled sets is a count and these fields.
LEMMA SetWire ==
  ASSUME NEW t, NEW m, NEW dirty, m.type = "ShuffleSetCards",
         NEW a, a = "MSG_SHUFFLE_SET_CARD", NEW b, b = "location", NEW n, n = Len(m.previous)
  PROVE  Wire(t, m, dirty) = CodeBuffer(a, b, n, SetFields(m))
BY DEF Wire, WireShuffleSet, SetFields, InfoOf, CodeBuffer

\* Field k is field j of location i.
LEMMA FourTimes ==
  ASSUME NEW i \in Nat, NEW j \in 1 .. 4, NEW k, k = 4 * (i - 1) + j
  PROVE  (k + 3) \div 4 = i /\ 1 + ((k - 1) % 4) = j
OBVIOUS

\* A message with n places.
SetOf(m, n) == n \in 1 .. 2 /\ Len(m.previous) = n

\* What the encoder reads at the place of info i.
InfoRead(w, m, i) ==
  \A p, x : InfoOf(m, i) = WireInfoLoc(p, x) => Located(w, 4 + 4 * (i - 1), p, x)

\* The encoder finds location i in the four fields from 4 + 4 (i - 1) on.
LEMMA SetInfoRead ==
  ASSUME NEW m, NEW n, SetOf(m, n), NEW a, NEW b,
         NEW s, s = SetFields(m), NEW w, w = CodeBuffer(a, b, n, s)
  PROVE  /\ w[1] = a /\ w[3] = n
         /\ \A i \in 1 .. 2 * n : InfoRead(w, m, i)
<1>1. s = [k \in 1 .. 8 * n |-> InfoOf(m, (k + 3) \div 4)[1 + ((k - 1) % 4)]]
  BY DEF SetFields, SetOf
<1>2. 8 * n \in Nat /\ n \in 1 .. 2
  BY DEF SetOf
<1>3. s = [k \in 1 .. 8 * n |-> s[k]]
  BY <1>1
<1>4. IsSeq(s) /\ Len(s) = 8 * n
  BY <1>2, <1>3, FunctionIsSeq
<1>5. /\ w[1] = a /\ w[2] = b /\ w[3] = n
      /\ \A k \in 1 .. 8 * n : w[k + 3] = s[k]
  BY <1>2, <1>4, ThreeAndMore DEF CodeBuffer
<1>6. ASSUME NEW i \in 1 .. 2 * n, NEW p, NEW x, InfoOf(m, i) = WireInfoLoc(p, x)
      PROVE  Located(w, 4 + 4 * (i - 1), p, x)
  <2>6. InfoOf(m, i) = <<p.con, p.loc, p.seq, Fourth(p, x)>>
    BY <1>6, InfoLocIs
  <2>7. ASSUME NEW j \in 1 .. 4, NEW f, f = 4 + 4 * (i - 1) + (j - 1)
        PROVE  w[f] = InfoOf(m, i)[j]
    <3> DEFINE k == 4 * (i - 1) + j
    <3>1. k \in 1 .. 8 * n /\ k + 3 = f /\ i \in Nat
      BY <1>2, <1>6, <2>7
    <3>2. (k + 3) \div 4 = i /\ 1 + ((k - 1) % 4) = j
      BY <3>1, FourTimes
    <3> HIDE DEF k
    <3>3. s[k] = InfoOf(m, i)[j]
      BY <1>1, <3>1, <3>2
    <3> QED
      BY <1>5, <3>1, <3>3
  <2> DEFINE o == 4 + 4 * (i - 1)
  <2>8. o = 4 + 4 * (i - 1) + (1 - 1) /\ o + 1 = 4 + 4 * (i - 1) + (2 - 1)
        /\ o + 2 = 4 + 4 * (i - 1) + (3 - 1) /\ o + 3 = 4 + 4 * (i - 1) + (4 - 1)
    OBVIOUS
  <2> HIDE DEF o
  <2>9. w[o] = p.con
    BY <2>6, <2>7, <2>8
  <2>10. w[o + 1] = p.loc
    BY <2>6, <2>7, <2>8
  <2>11. w[o + 2] = p.seq
    BY <2>6, <2>7, <2>8
  <2>12. w[o + 3] = Fourth(p, x)
    BY <2>6, <2>7, <2>8
  <2>13. Located(w, o, p, x)
    BY <2>9, <2>10, <2>11, <2>12 DEF Located
  <2> QED
    BY <2>13 DEF o
<1>7. \A i \in 1 .. 2 * n : InfoRead(w, m, i)
  BY <1>6 DEF InfoRead
<1> QED
  BY <1>5, <1>7

\* The info at i, and the one at n + i, is that of place i of s.
InfosAre(m, n, s, x) ==
  \A i \in 1 .. n : /\ InfoOf(m, i) = WireInfoLoc(s[i], x)
                  /\ InfoOf(m, n + i) = WireInfoLoc(s[i], x)

\* The encoder finds every place of a set twice.
LEMMA SetLocated ==
  ASSUME NEW m, NEW n \in 1 .. 2, NEW w, \A i \in 1 .. 2 * n : InfoRead(w, m, i),
         NEW s, NEW x, InfosAre(m, n, s, x), NEW i \in 1 .. n
  PROVE  /\ Located(w, 4 + 4 * (i - 1), s[i], x)
         /\ Located(w, 4 + 4 * (n + i - 1), s[i], x)
<1> PICK j, p : j = n + i /\ p = s[i]
  OBVIOUS
<1>1. i \in 1 .. 2 * n /\ j \in 1 .. 2 * n
  OBVIOUS
<1>2. InfoOf(m, i) = WireInfoLoc(p, x) /\ InfoOf(m, j) = WireInfoLoc(p, x)
  BY DEF InfosAre
<1>3. Located(w, 4 + 4 * (i - 1), p, x)
  BY <1>1, <1>2 DEF InfoRead
<1>4. Located(w, 4 + 4 * (j - 1), p, x)
  BY <1>1, <1>2 DEF InfoRead
<1> QED
  BY <1>3, <1>4

\* What a message that shuffles sets is made of, if there is a buffer for it.
LEMMA SetMsgParts ==
  ASSUME NEW t, NEW m \in ShuffleSetMsgs(t), m.current # <<>>,
         \A i \in DOMAIN m.current : m.current[i].code = 0
  PROVE  \E n \in 1 .. 2, position \in Positions : \E s \in [1 .. n -> FieldCards(t)] :
           m = [type |-> "ShuffleSetCards",
                previous |-> [i \in 1 .. n |-> [place |-> s[i], position |-> position]],
                current |-> [i \in 1 .. n |-> [code |-> 0, position |-> position]]]
<1> PICK s \in UNION {[1 .. n -> FieldCards(t)] : n \in 1 .. 2}, position \in Positions :
        m \in {[type |-> "ShuffleSetCards",
                previous |-> [i \in DOMAIN s |->
                                [place |-> s[i], position |-> position]],
                current |-> current] :
                 current \in {<<>>} \cup
                   {[i \in DOMAIN s |-> [code |-> codes[i], position |-> position]] :
                      codes \in CodeLists(Len(s))}}
  BY DEF ShuffleSetMsgs
<1> PICK n \in 1 .. 2 : s \in [1 .. n -> FieldCards(t)]
  OBVIOUS
<1> PICK current \in {<<>>} \cup
                  {[i \in DOMAIN s |-> [code |-> codes[i], position |-> position]] :
                     codes \in CodeLists(Len(s))} :
             m = [type |-> "ShuffleSetCards",
                  previous |-> [i \in DOMAIN s |->
                                  [place |-> s[i], position |-> position]],
                  current |-> current]
  OBVIOUS
<1>1. m.current = current
  OBVIOUS
<1>2. DOMAIN s = 1 .. n
  OBVIOUS
<1>3. current = [i \in 1 .. n |-> [code |-> 0, position |-> position]]
  <2> PICK codes : current = [i \in 1 .. n |-> [code |-> codes[i], position |-> position]]
    BY <1>1, <1>2
  <2>1. \A i \in 1 .. n : current[i].code = codes[i]
    OBVIOUS
  <2>2. \A i \in 1 .. n : codes[i] = 0
    BY <1>1, <2>1
  <2> QED
    BY <2>2
<1>4. n \in 1 .. 2
  OBVIOUS
<1>5. m = [type |-> "ShuffleSetCards",
           previous |-> [i \in 1 .. n |-> [place |-> s[i], position |-> position]],
           current |-> [i \in 1 .. n |-> [code |-> 0, position |-> position]]]
  BY <1>2, <1>3
<1> QED
  BY <1>4, <1>5

\* What the encoder makes of n sets (codec/encoder_information_impl.hpp:50-60).
LEMMA SetRead ==
  ASSUME NEW w, NEW n \in Nat, w[3] = n
  PROVE  EncodeShuffleSet(w) =
         [type |-> "ShuffleSetCards",
          previous |-> [i \in 1 .. n |-> ReadInfoLoc(w, 4 + 4 * (i - 1))],
          current |-> [i \in 1 .. n |->
             [code |-> 0, position |-> ReadInfoLoc(w, 4 + 4 * (n + i - 1)).position]]]
<1>1. EncodeShuffleSet(w) =
         [type |-> "ShuffleSetCards",
          previous |-> [i \in 1 .. w[3] |-> ReadInfoLoc(w, 4 + 4 * (i - 1))],
          current |-> [i \in 1 .. w[3] |->
             [code |-> 0, position |-> ReadInfoLoc(w, 4 + 4 * (w[3] + i - 1)).position]]]
  BY DEF EncodeShuffleSet, InfoLocSize
<1> QED
  BY <1>1

\* What the encoder makes of the buffer that tells of n sets.
LEMMA SetEncoded ==
  ASSUME NEW t, NEW m, NEW dirty, NEW n \in 1 .. 2, m.type = "ShuffleSetCards", SetOf(m, n),
         NEW s, NEW position, \A i \in 1 .. n : PlainPlace(s[i]),
         \A i \in 1 .. n :
           /\ m.previous[i].place = s[i] /\ m.previous[i].position = position
           /\ m.current[i].position = position
  PROVE  Encode(Wire(t, m, dirty)) =
           [type |-> "ShuffleSetCards",
            previous |-> [i \in 1 .. n |-> [place |-> s[i], position |-> position]],
            current |-> [i \in 1 .. n |-> [code |-> 0, position |-> position]]]
<1> DEFINE w == Wire(t, m, dirty)
           name == "MSG_SHUFFLE_SET_CARD"
           second == "location"
<1> HIDE DEF w, name, second
<1>1. w = CodeBuffer(name, second, n, SetFields(m))
  BY SetWire DEF w, name, second, SetOf
<1>2. InfosAre(m, n, s, position)
  <2> SUFFICES ASSUME NEW i \in 1 .. n
               PROVE  /\ InfoOf(m, i) = WireInfoLoc(s[i], position)
                      /\ InfoOf(m, n + i) = WireInfoLoc(s[i], position)
    BY DEF InfosAre
  <2>1. InfoOf(m, i) = WireInfoLoc(s[i], position)
    BY DEF InfoOf, SetOf
  <2>2. ~(n + i <= n) /\ (n + i) - n = i
    OBVIOUS
  <2>3. InfoOf(m, n + i) = WireInfoLoc(m.previous[i].place, m.current[i].position)
    BY <2>2 DEF InfoOf, SetOf
  <2> QED
    BY <2>1, <2>3
<1>3. /\ w[1] = name /\ w[3] = n
      /\ \A i \in 1 .. 2 * n : InfoRead(w, m, i)
  BY <1>1, SetInfoRead
<1>6. \A i \in 1 .. n : WirePlace(s[i]) /\ s[i].loc # "OVERLAY"
  BY DEF WirePlace, PlainPlace
<1>7. ASSUME NEW i \in 1 .. n
      PROVE  /\ ReadInfoLoc(w, 4 + 4 * (i - 1)) = [place |-> s[i], position |-> position]
             /\ ReadInfoLoc(w, 4 + 4 * (n + i - 1)).position = position
  <2> PICK p, a, b : p = s[i] /\ a = 4 + 4 * (i - 1) /\ b = 4 + 4 * (n + i - 1)
    OBVIOUS
  <2>1. /\ Located(w, a, p, position) /\ Located(w, b, p, position)
        /\ WirePlace(p) /\ p.loc # "OVERLAY"
    BY <1>2, <1>3, <1>6, SetLocated
  <2>2. /\ ReadInfoLoc(w, a).place = p /\ ReadInfoLoc(w, a).position = position
        /\ ReadInfoLoc(w, b).position = position
    BY <2>1, InfoLocRead
  <2>3. ReadInfoLoc(w, a) = [place |-> p, position |-> position]
    BY <2>2 DEF ReadInfoLoc
  <2> QED
    BY <2>2, <2>3
<1>8. Encode(w) = EncodeShuffleSet(w)
  BY <1>3, Dispatch DEF name
<1>9. EncodeShuffleSet(w) =
         [type |-> "ShuffleSetCards",
          previous |-> [i \in 1 .. n |-> ReadInfoLoc(w, 4 + 4 * (i - 1))],
          current |-> [i \in 1 .. n |->
             [code |-> 0, position |-> ReadInfoLoc(w, 4 + 4 * (n + i - 1)).position]]]
  BY <1>3, SetRead
<1>10. [i \in 1 .. n |-> ReadInfoLoc(w, 4 + 4 * (i - 1))] =
         [i \in 1 .. n |-> [place |-> s[i], position |-> position]]
  BY <1>7
<1>11. [i \in 1 .. n |->
          [code |-> 0, position |-> ReadInfoLoc(w, 4 + 4 * (n + i - 1)).position]] =
         [i \in 1 .. n |-> [code |-> 0, position |-> position]]
  BY <1>7
<1> QED
  BY <1>8, <1>9, <1>10, <1>11 DEF w

\* The messages that shuffle sets arrive (codec/encoder_information_impl.hpp:50-60).
LEMMA SetsArrive ==
  ASSUME NEW t, \A p \in FieldCards(t) : PlainPlace(p), NEW m \in ShuffleSetMsgs(t)
  PROVE  Arrives(t, m)
<1>1. SUFFICES ASSUME NEW dirty \in {0, 1}, OnTheWire(m)
               PROVE  Encode(Wire(t, m, dirty)) = m
  BY DEF Arrives
<1>2. m.type = "ShuffleSetCards"
  BY SetMsgForm
<1>3. m.current # <<>> /\ \A i \in DOMAIN m.current : m.current[i].code = 0
  BY <1>1, <1>2 DEF OnTheWire
<1>4. PICK n \in 1 .. 2, position \in Positions : \E s \in [1 .. n -> FieldCards(t)] :
           m = [type |-> "ShuffleSetCards",
                previous |-> [i \in 1 .. n |-> [place |-> s[i], position |-> position]],
                current |-> [i \in 1 .. n |-> [code |-> 0, position |-> position]]]
  BY <1>3, SetMsgParts
<1>5. PICK s \in [1 .. n -> FieldCards(t)] :
           m = [type |-> "ShuffleSetCards",
                previous |-> [i \in 1 .. n |-> [place |-> s[i], position |-> position]],
                current |-> [i \in 1 .. n |-> [code |-> 0, position |-> position]]]
  BY <1>4
<1>6. /\ m.previous = [i \in 1 .. n |-> [place |-> s[i], position |-> position]]
      /\ m.current = [i \in 1 .. n |-> [code |-> 0, position |-> position]]
  BY <1>5
<1>7. SetOf(m, n)
  <2>1. n \in Nat
    OBVIOUS
  <2>2. m.previous = [i \in 1 .. n |-> m.previous[i]]
    BY <1>6
  <2> QED
    BY <2>1, <2>2, FunctionIsSeq DEF SetOf
<1>8. \A i \in 1 .. n :
        /\ m.previous[i].place = s[i] /\ m.previous[i].position = position
        /\ m.current[i].position = position
  BY <1>6
<1>9. \A i \in 1 .. n : PlainPlace(s[i])
  OBVIOUS
<1>10. Encode(Wire(t, m, dirty)) =
           [type |-> "ShuffleSetCards",
            previous |-> [i \in 1 .. n |-> [place |-> s[i], position |-> position]],
            current |-> [i \in 1 .. n |-> [code |-> 0, position |-> position]]]
  BY <1>2, <1>7, <1>8, <1>9, SetEncoded
<1> QED
  BY <1>5, <1>10

----------------------------------------------------------------------------
(* Where the cards of a table are *)

\* The cards in piles are in sequences, and the cards on the field are in
\* zones that the messages are about.
Tidy(b) == IsBoard(b) /\ DOMAIN b.zones \subseteq ActiveZones

\* A table with nothing but its piles, zones and registers, whose cards lie
\* where they may.
Sound(t) == TableOf(CardsOf(t), t) = t /\ Tidy(CardsOf(t))

\* A place to which a card of b may go.
Open(b, p) ==
  \/ PilePlace(p) /\ p.seq + 1 \in 1 .. Len(GetPile(b, p)) + 1
  \/ p \in ActiveZones

\* The wire has a name for every zone of the duel, which is no pile.
LEMMA ActivePlaces ==
  ASSUME NEW p \in ActiveZones
  PROVE  WirePlace(p) /\ ~IsPile(p) /\ (p.loc # "OVERLAY" => PlainPlace(p))
BY PlacesAssumption DEF WirePlace, PlainPlace, IsPile, FieldLocations

\* The wire has a name for every place in a pile.
LEMMA PilesOnWire ==
  ASSUME NEW p, PilePlace(p)
  PROVE  WirePlace(p) /\ p.loc # "OVERLAY"
BY DEF PilePlace, WirePlace, PileLocations

\* The cards on the field of a sound table are in zones of the duel.
LEMMA FieldCardsOnWire ==
  ASSUME NEW t, Sound(t), NEW p \in FieldCards(t)
  PROVE  PlainPlace(p) /\ p \in ActiveZones
BY ActivePlaces DEF FieldCards, Sound, Tidy, CardsOf

\* The wire has a name for every place to which a card may go.
LEMMA OpenOnWire ==
  ASSUME NEW b, NEW p, Open(b, p)
  PROVE  WirePlace(p)
BY ActivePlaces, PilesOnWire DEF Open

\* The core sends cards to places to which they may go.
LEMMA DestinationsOpen ==
  ASSUME NEW t, Sound(t), NEW p \in Destinations(t)
  PROVE  Open(CardsOf(t), p)
<1> PICK b : CardsOf(t) = b
  OBVIOUS
<1>1. Room(b, p) /\ (~IsPile(p) => p \in ActiveZones)
  BY DestinationRoom DEF Sound, Tidy
<1> QED
  BY <1>1 DEF Room, Open

\* The core takes cards from where there is one, and one could lie there again.
LEMMA TakenHas ==
  ASSUME NEW t, Sound(t), NEW p \in OccupiedPlaces(t) \cup CoveredMaterials(t)
  PROVE  Has(CardsOf(t), p) /\ Open(CardsOf(t), p)
<1> PICK b : CardsOf(t) = b
  OBVIOUS
<1>0. IsBoard(b) /\ DOMAIN b.zones \subseteq ActiveZones
  BY DEF Sound, Tidy
<1>1. t.zones = b.zones /\ t.piles = b.piles
  BY DEF CardsOf
<1>2. CASE p \in PilePlaces(t)
  <2> PICK con \in Players, loc \in PileLocations :
         \E i \in DOMAIN b.piles[con][loc] : p = Place(con, loc, i - 1)
    BY <1>1, <1>2 DEF PilePlaces
  <2> PICK s : b.piles[con][loc] = s
    OBVIOUS
  <2>1. IsSeq(s)
    BY <1>0 DEF IsBoard
  <2> PICK n \in Nat : Len(s) = n
    BY <2>1, SeqIsFunction
  <2>2. DOMAIN s = 1 .. n
    BY <2>1, SeqIsFunction
  <2> PICK i \in 1 .. n : p = Place(con, loc, i - 1)
    BY <2>2
  <2>3. p.con = con /\ p.loc = loc /\ p.seq = i - 1
    BY DEF Place
  <2>4. PilePlace(p)
    BY <2>3 DEF PilePlace, IsPile, PileLocations, FieldLocations, Place
  <2>5. GetPile(b, p) = s /\ p.seq + 1 \in 1 .. n
    BY <2>3 DEF GetPile
  <2> QED
    BY <2>4, <2>5 DEF Has, Open
<1>3. CASE p \in DOMAIN b.zones
  BY <1>0, <1>3, ActivePlaces DEF Has, Open
<1> QED
  BY <1>1, <1>2, <1>3 DEF OccupiedPlaces, CoveredMaterials

\* A card that goes where it may leaves a tidy board.
LEMMA TidyInserted ==
  ASSUME NEW b, Tidy(b), NEW p, Open(b, p), NEW x
  PROVE  Tidy(InsertCard(b, p, x))
<1>0. IsBoard(b) /\ DOMAIN b.zones \subseteq ActiveZones
  BY DEF Tidy
<1>1. CASE PilePlace(p) /\ p.seq + 1 \in 1 .. Len(GetPile(b, p)) + 1
  <2>1. IsBoard(InsertCard(b, p, x))
    BY <1>0, <1>1, BoardInserted DEF Room
  <2>2. InsertCard(b, p, x).zones = b.zones
    BY <1>0, <1>1 DEF InsertCard, PutPile, IsBoard, PilePlace
  <2> QED
    BY <1>0, <2>1, <2>2 DEF Tidy
<1>2. CASE p \in ActiveZones
  <2> PICK z : PutKey(b.zones, p, x) = z
    OBVIOUS
  <2>1. IsMap(z) /\ DOMAIN z = DOMAIN b.zones \cup {p}
    BY MapPut
  <2>2. DOMAIN z \subseteq ActiveZones
    BY <1>0, <1>2, <2>1
  <2>3. \A q \in DOMAIN z : ~IsPile(q)
    BY <2>2, ActivePlaces
  <2>4. InsertCard(b, p, x) = WithZones(b, z)
    BY <1>2, ActivePlaces DEF InsertCard, WithZones
  <2>5. IsBoard(WithZones(b, z)) /\ WithZones(b, z).zones = z
    BY <1>0, <2>1, <2>3, ZonesBoard
  <2> QED
    BY <2>2, <2>4, <2>5 DEF Tidy
<1> QED
  BY <1>1, <1>2 DEF Open

\* A card that leaves its place leaves a tidy board, and its place is free.
LEMMA TidyErased ==
  ASSUME NEW b, Tidy(b), NEW p, Has(b, p)
  PROVE  Tidy(EraseCard(b, p)) /\ Open(EraseCard(b, p), p)
<1>0. IsBoard(b) /\ DOMAIN b.zones \subseteq ActiveZones
  BY DEF Tidy
<1>1. IsBoard(EraseCard(b, p)) /\ Room(EraseCard(b, p), p)
  BY <1>0, BoardErased
<1>2. CASE IsPile(p)
  <2>1. EraseCard(b, p).zones = b.zones
    BY <1>0, <1>2 DEF EraseCard, PutPile, IsBoard
  <2> QED
    BY <1>0, <1>1, <1>2, <2>1 DEF Tidy, Room, Open
<1>3. CASE ~IsPile(p)
  <2> PICK z : EraseKey(b.zones, p) = z
    OBVIOUS
  <2>1. IsMap(z) /\ DOMAIN z = DOMAIN b.zones \ {p}
    BY MapErased
  <2>2. EraseCard(b, p) = WithZones(b, z)
    BY <1>3 DEF EraseCard, WithZones
  <2>3. WithZones(b, z).zones = z
    BY <1>0, BoardZones
  <2>4. p \in ActiveZones
    BY <1>0, <1>3 DEF Has, PilePlace
  <2> QED
    BY <1>0, <1>1, <2>1, <2>2, <2>3, <2>4 DEF Tidy, Open
<1> QED
  BY <1>2, <1>3

\* A card that is changed where it is leaves a tidy board.
LEMMA TidySet ==
  ASSUME NEW b, Tidy(b), NEW p, Has(b, p), NEW x
  PROVE  Tidy(SetCard(b, p, x))
<1>1. SetCard(b, p, x) = InsertCard(EraseCard(b, p), p, x)
  BY SetIsInsert DEF Tidy
<1>2. Tidy(EraseCard(b, p)) /\ Open(EraseCard(b, p), p)
  BY TidyErased
<1> QED
  BY <1>1, <1>2, TidyInserted

\* A table with the cards of a tidy board is sound.
LEMMA TidyTable ==
  ASSUME NEW b, Tidy(b), NEW r, NEW t, t = TableOf(b, r)
  PROVE  Sound(t) /\ CardsOf(t) = b
BY TableParts DEF Tidy, Sound

\* A card that is added to a sound table leaves one.
LEMMA TableInserted ==
  ASSUME NEW t, Sound(t), NEW p, Open(CardsOf(t), p), NEW x
  PROVE  Sound(InsertCard(t, p, x))
<1> PICK b : CardsOf(t) = b
  OBVIOUS
<1>1. TableOf(b, t) = t /\ Tidy(b)
  BY DEF Sound
<1>2. InsertCard(t, p, x) = TableOf(InsertCard(b, p, x), t)
  BY <1>1, TableCards DEF Tidy
<1>3. Tidy(InsertCard(b, p, x))
  BY <1>1, TidyInserted
<1> QED
  BY <1>2, <1>3, TidyTable

\* A card of a sound table that is changed leaves one.
LEMMA TableSet ==
  ASSUME NEW t, Sound(t), NEW p, Has(CardsOf(t), p), NEW x
  PROVE  Sound(SetCard(t, p, x))
<1> PICK b : CardsOf(t) = b
  OBVIOUS
<1>1. TableOf(b, t) = t /\ Tidy(b)
  BY DEF Sound
<1>2. SetCard(t, p, x) = TableOf(SetCard(b, p, x), t)
  BY <1>1, TableCards DEF Tidy
<1>3. Tidy(SetCard(b, p, x))
  BY <1>1, TidySet
<1> QED
  BY <1>2, <1>3, TidyTable

\* The zones of a table are replaced.
LEMMA TableZoned ==
  ASSUME NEW t, Sound(t), NEW z, IsMap(z), DOMAIN z \subseteq ActiveZones
  PROVE  /\ Sound([t EXCEPT !.zones = z])
         /\ CardsOf([t EXCEPT !.zones = z]).piles = CardsOf(t).piles
<1> PICK b : CardsOf(t) = b
  OBVIOUS
<1>1. TableOf(b, t) = t /\ IsBoard(b)
  BY DEF Sound, Tidy
<1>2. [t EXCEPT !.zones = z] = TableOf(WithZones(b, z), t)
  BY <1>1, TablePut
<1>3. \A q \in DOMAIN z : ~IsPile(q)
  BY ActivePlaces
<1>4. IsBoard(WithZones(b, z)) /\ WithZones(b, z).zones = z
  BY <1>1, <1>3, ZonesBoard
<1>5. WithZones(b, z).piles = b.piles
  BY <1>1 DEF WithZones, IsBoard
<1>6. Tidy(WithZones(b, z))
  BY <1>4 DEF Tidy
<1> QED
  BY <1>2, <1>5, <1>6, TidyTable

\* A card is taken out, and the materials above it move down.
LEMMA TableTaken ==
  ASSUME NEW t, Sound(t), NEW p, Has(CardsOf(t), p)
  PROVE  /\ Sound(TakenFrom(t, p))
         /\ CardsOf(TakenFrom(t, p)).piles = EraseCard(CardsOf(t), p).piles
<1> PICK b : CardsOf(t) = b
  OBVIOUS
<1> PICK d : EraseCard(b, p) = d
  OBVIOUS
<1> PICK u : EraseCard(t, p) = u
  OBVIOUS
<1>1. TableOf(b, t) = t /\ Tidy(b) /\ IsBoard(b)
  BY DEF Sound, Tidy
<1>2. u = TableOf(d, t)
  BY <1>1, TableCards
<1>3. Tidy(d)
  BY <1>1, TidyErased
<1>4. Sound(u) /\ CardsOf(u) = d
  BY <1>2, <1>3, TidyTable
<1>5. CASE p.loc = "OVERLAY"
  <2> PICK z : u.zones = z
    OBVIOUS
  <2>1. DOMAIN z \subseteq ActiveZones
    BY <1>4 DEF Sound, Tidy, CardsOf
  <2>2. p \in ActiveZones
    <3>1. ~PilePlace(p)
      BY <1>5, PilesOnWire
    <3> QED
      BY <1>1, <3>1 DEF Has, Tidy
  <2> PICK y : CloseOverlayGap(z, p) = y
    OBVIOUS
  <2>3. IsMap(y) /\ DOMAIN y \subseteq DOMAIN z \cup {p}
    BY DEF CloseOverlayGap, IsMap
  <2>4. TakenFrom(t, p) = [u EXCEPT !.zones = y]
    BY <1>5 DEF TakenFrom
  <2> QED
    BY <1>4, <2>1, <2>2, <2>3, <2>4, TableZoned
<1>6. CASE p.loc # "OVERLAY"
  BY <1>4, <1>6 DEF TakenFrom
<1> QED
  BY <1>5, <1>6

\* A card that moves within a pile, or to another place,
\* leaves a sound table.
LEMMA MovedSound ==
  ASSUME NEW t, Sound(t), NEW p, Has(CardsOf(t), p), NEW q, Open(CardsOf(t), q),
         \/ ~SamePile(p, q)
         \/ Has(CardsOf(t), q),
         NEW m, m.previous = p, m.current = q
  PROVE  Sound(Moved(t, m))
<1> PICK b : CardsOf(t) = b
  OBVIOUS
<1> PICK u : TakenFrom(t, p) = u
  OBVIOUS
<1> PICK d : CardsOf(u) = d
  OBVIOUS
<1>0. IsBoard(b) /\ Tidy(b)
  BY DEF Sound, Tidy
<1>1. Sound(u) /\ d.piles = EraseCard(b, p).piles
  BY TableTaken
<1>2. PICK x : Moved(t, m) = InsertCard(u, q, x)
  BY DEF Moved
<1>3. Open(d, q)
  <2>1. CASE q \in ActiveZones
    BY <2>1 DEF Open
  <2>2. CASE PilePlace(q) /\ q.seq + 1 \in 1 .. Len(GetPile(b, q)) + 1
    <3> PICK s : GetPile(b, q) = s
      OBVIOUS
    <3>1. IsSeq(s) /\ Len(s) \in Nat
      BY <1>0, <2>2, SeqIsFunction DEF IsBoard, GetPile, PilePlace
    <3>2. GetPile(d, q) = GetPile(EraseCard(b, p), q)
      BY <1>1 DEF GetPile
    <3>3. CASE ~SamePile(p, q)
      <4>1. GetPile(EraseCard(b, p), q) = s
        <5>1. CASE IsPile(p)
          <6>1. PilePlace(p) /\ p.seq + 1 \in 1 .. Len(GetPile(b, p))
            BY <5>1 DEF Has
          <6> PICK r : RemoveAt(GetPile(b, p), p.seq + 1) = r
            OBVIOUS
          <6>2. IsSeq(GetPile(b, p))
            BY <1>0, <6>1 DEF IsBoard, GetPile, PilePlace
          <6>3. IsSeq(r)
            BY <6>1, <6>2, RemovedSeq
          <6>4. EraseCard(b, p) = PutPile(b, p, r)
            BY <5>1 DEF EraseCard
          <6>5. \A con \in Players, loc \in PileLocations :
                   PutPile(b, p, r).piles[con][loc] =
                      IF con = p.con /\ loc = p.loc THEN r ELSE b.piles[con][loc]
            BY <1>0, <6>1, <6>3, PilePut
          <6>6. ~(q.con = p.con /\ q.loc = p.loc)
            BY <2>2, <3>3, <5>1 DEF SamePile, PilePlace
          <6> QED
            BY <2>2, <6>4, <6>5, <6>6 DEF GetPile, PilePlace
        <5>2. CASE ~IsPile(p)
          BY <1>0, <5>2 DEF EraseCard, IsBoard, GetPile
        <5> QED
          BY <5>1, <5>2
      <4> QED
        BY <2>2, <3>2, <4>1 DEF Open
    <3>4. CASE SamePile(p, q)
      <4>1. Has(b, q)
        BY <3>4
      <4>2. PilePlace(p) /\ p.seq + 1 \in 1 .. Len(GetPile(b, p))
        BY <3>4 DEF Has, SamePile
      <4>3. GetPile(b, p) = s
        BY <3>4 DEF SamePile, GetPile
      <4>4. q.seq + 1 \in 1 .. Len(s)
        BY <2>2, <4>1 DEF Has, PilePlace
      <4> PICK r : RemoveAt(s, p.seq + 1) = r
        OBVIOUS
      <4>5. IsSeq(r) /\ Len(r) = Len(s) - 1
        BY <3>1, <4>2, <4>3, RemovedSeq
      <4>6. EraseCard(b, p) = PutPile(b, p, r)
        BY <3>4, <4>3 DEF EraseCard, SamePile
      <4>7. GetPile(PutPile(b, p, r), p) = r
        BY <1>0, <4>2, <4>5, PilePut
      <4>8. GetPile(EraseCard(b, p), q) = r
        BY <3>4, <4>6, <4>7 DEF SamePile, GetPile
      <4>9. GetPile(d, q) = r
        BY <3>2, <4>8
      <4>10. q.seq + 1 \in 1 .. Len(r) + 1
        BY <3>1, <4>4, <4>5
      <4> QED
        BY <2>2, <4>9, <4>10 DEF Open
    <3> QED
      BY <3>3, <3>4
  <2> QED
    BY <2>1, <2>2 DEF Open
<1> QED
  BY <1>1, <1>2, <1>3, TableInserted

\* A pile for every player and location, each a sequence.
IsPiles(ps) ==
  /\ ps = [con \in Players |-> [loc \in PileLocations |-> ps[con][loc]]]
  /\ \A con \in Players, loc \in PileLocations : IsSeq(ps[con][loc])

\* The piles of a table are replaced.
LEMMA TablePiled ==
  ASSUME NEW t, Sound(t), NEW ps, IsPiles(ps)
  PROVE  Sound([t EXCEPT !.piles = ps])
<1> PICK b : CardsOf(t) = b
  OBVIOUS
<1>1. TableOf(b, t) = t /\ IsBoard(b) /\ DOMAIN b.zones \subseteq ActiveZones
  BY DEF Sound, Tidy
<1> PICK d : [piles |-> ps, zones |-> b.zones] = d
  OBVIOUS
<1>2. [t EXCEPT !.piles = ps] = TableOf(d, t)
  BY <1>1 DEF TableOf
<1>3. d.piles = ps /\ d.zones = b.zones /\ d = [piles |-> d.piles, zones |-> d.zones]
  OBVIOUS
<1>4. IsBoard(d)
  BY <1>1, <1>3 DEF IsBoard, IsPiles
<1>5. Tidy(d)
  BY <1>1, <1>3, <1>4 DEF Tidy
<1> QED
  BY <1>2, <1>5, TidyTable

\* A table with two piles of a player replaced.
WithPiles(t, pl, k, s, l, u) == [t EXCEPT !.piles[pl][k] = s, !.piles[pl][l] = u]

\* Two piles of one player are replaced.
LEMMA TwoPiled ==
  ASSUME NEW t, Sound(t), NEW pl \in Players, NEW k \in PileLocations, NEW l \in PileLocations,
         k # l, NEW s, IsSeq(s), NEW u, IsSeq(u)
  PROVE  Sound(WithPiles(t, pl, k, s, l, u))
<1> PICK ps : t.piles = ps
  OBVIOUS
<1>1. IsPiles(ps)
  BY DEF Sound, Tidy, IsBoard, IsPiles, CardsOf
<1>2. t = [piles |-> t.piles, zones |-> t.zones, lp |-> t.lp, turn |-> t.turn,
           turnPlayer |-> t.turnPlayer, phase |-> t.phase, disabled |-> t.disabled]
  BY DEF Sound, TableOf, CardsOf
<1> PICK qs : [ps EXCEPT ![pl][k] = s, ![pl][l] = u] = qs
  OBVIOUS
<1>3. WithPiles(t, pl, k, s, l, u) = [t EXCEPT !.piles = qs]
  BY <1>2 DEF WithPiles
<1>4. IsPiles(qs)
  BY <1>1 DEF IsPiles
<1> QED
  BY <1>3, <1>4, TablePiled

\* One pile of a table is replaced.
LEMMA OnePiled ==
  ASSUME NEW t, Sound(t), NEW pl \in Players, NEW k \in PileLocations, NEW s, IsSeq(s)
  PROVE  Sound([t EXCEPT !.piles[pl][k] = s])
<1> PICK ps : t.piles = ps
  OBVIOUS
<1>1. IsPiles(ps)
  BY DEF Sound, Tidy, IsBoard, IsPiles, CardsOf
<1>2. t = [piles |-> t.piles, zones |-> t.zones, lp |-> t.lp, turn |-> t.turn,
           turnPlayer |-> t.turnPlayer, phase |-> t.phase, disabled |-> t.disabled]
  BY DEF Sound, TableOf, CardsOf
<1> PICK qs : [ps EXCEPT ![pl][k] = s] = qs
  OBVIOUS
<1>3. [t EXCEPT !.piles[pl][k] = s] = [t EXCEPT !.piles = qs]
  BY <1>2
<1>4. IsPiles(qs)
  BY <1>1 DEF IsPiles
<1> QED
  BY <1>3, <1>4, TablePiled

\* The piles of a sound table are sequences.
LEMMA TablePile ==
  ASSUME NEW t, Sound(t), NEW pl \in Players, NEW k \in PileLocations
  PROVE  IsSeq(t.piles[pl][k]) /\ Len(t.piles[pl][k]) \in Nat
BY SeqIsFunction DEF Sound, Tidy, IsBoard, CardsOf

\* The cards on the field of a sound table are a map from zones of the duel.
LEMMA TableZones ==
  ASSUME NEW t, Sound(t)
  PROVE  IsMap(t.zones) /\ DOMAIN t.zones \subseteq ActiveZones
BY DEF Sound, Tidy, IsBoard, CardsOf

\* The registers of a table have no say in whether it is sound.
LEMMA SameCards ==
  ASSUME NEW t, Sound(t), NEW lp, NEW turns, NEW player, NEW ph, NEW blocked,
         NEW e, e = [piles |-> t.piles, zones |-> t.zones, lp |-> lp, turn |-> turns,
                     turnPlayer |-> player, phase |-> ph, disabled |-> blocked]
  PROVE  Sound(e)
<1>1. CardsOf(e) = CardsOf(t) /\ TableOf(CardsOf(t), e) = e
  BY DEF CardsOf, TableOf
<1> QED
  BY <1>1 DEF Sound

\* A sound table is a record of its fields.
LEMMA TableForm ==
  ASSUME NEW t, Sound(t)
  PROVE t = [piles |-> t.piles, zones |-> t.zones, lp |-> t.lp, turn |-> t.turn,
           turnPlayer |-> t.turnPlayer, phase |-> t.phase, disabled |-> t.disabled]
BY DEF Sound, TableOf, CardsOf

----------------------------------------------------------------------------
(* What a message leaves *)

\* A card that moves leaves a sound table.
LEMMA MoveSound ==
  ASSUME NEW t, Sound(t),
         NEW pairs, \A pq \in pairs : /\ Has(CardsOf(t), pq[1]) /\ Open(CardsOf(t), pq[2])
                                      /\ ~SamePile(pq[1], pq[2]) \/ Has(CardsOf(t), pq[2]),
         NEW m \in Updates("MOVE", pairs)
  PROVE  Sound(Effect(t, m))
<1>1. PICK pq \in pairs : /\ m.type = "UpdateCard" /\ m.reason = "MOVE"
                         /\ m.previous = pq[1] /\ m.current = pq[2]
  BY DEF Updates
<1>2. Effect(t, m) = Moved(t, m)
  BY <1>1 DEF Effect, UpdateEffect
<1> QED
  BY <1>1, <1>2, MovedSound

\* A card that turns where it is leaves a sound table.
LEMMA InPlaceSound ==
  ASSUME NEW t, Sound(t), NEW m \in InPlaceMsgs(t)
  PROVE  Sound(Effect(t, m))
<1>1. PICK p \in FieldCards(t) : /\ m.type = "UpdateCard" /\ m.previous = p
                                /\ m.reason \in {"POS_CHANGE", "SET"}
  BY DEF InPlaceMsgs, Updates
<1>2. PICK x : Effect(t, m) = SetCard(t, p, x)
  BY <1>1 DEF Effect, UpdateEffect
<1>3. Has(CardsOf(t), p)
  BY FieldCardsOnWire, ActivePlaces DEF Has, FieldCards, CardsOf
<1> QED
  BY <1>2, <1>3, TableSet

\* A card in the deck that is shown leaves a sound table.
LEMMA DeckTopSound ==
  ASSUME NEW t, Sound(t), NEW depth \in Nat, NEW m \in DeckTopMsgs(t, depth)
  PROVE  Sound(Effect(t, m))
<1>1. PICK con \in Players : /\ depth < Len(t.piles[con]["DECK"])
                             /\ m.type = "UpdateCard" /\ m.reason = "DECK_TOP"
                             /\ m.previous = Place(con, "DECK", depth)
  BY DEF DeckTopMsgs
<1> PICK s : t.piles[con]["DECK"] = s
  OBVIOUS
<1>2. IsSeq(s) /\ Len(s) \in Nat
  BY TablePile DEF PileLocations
<1> PICK n \in Nat : Len(s) = n
  BY <1>2
<1> PICK p : Place(con, "DECK", n - 1 - depth) = p
  OBVIOUS
<1>3. [m.previous EXCEPT !.seq = Len(GetPile(t, m.previous)) - 1 - m.previous.seq] = p
  BY <1>1 DEF Place, GetPile
<1>4. PICK x : Effect(t, m) = SetCard(t, p, x)
  BY <1>1, <1>3 DEF Effect, UpdateEffect
<1>5. Has(CardsOf(t), p)
  <2>1. p.con = con /\ p.loc = "DECK" /\ p.seq = n - 1 - depth
    BY DEF Place
  <2>2. PilePlace(p)
    BY <1>1, <2>1 DEF PilePlace, IsPile, FieldLocations, PileLocations
  <2>3. GetPile(CardsOf(t), p) = s
    BY <2>1 DEF GetPile, CardsOf
  <2> QED
    BY <1>1, <2>1, <2>2, <2>3 DEF Has
<1> QED
  BY <1>4, <1>5, TableSet

\* A card that is added leaves a sound table.
LEMMA AddSound ==
  ASSUME NEW t, Sound(t), NEW m \in Placed("AddCard", Destinations(t))
  PROVE  Sound(Effect(t, m))
<1>1. PICK p \in Destinations(t) : m.type = "AddCard" /\ m.place = p
  BY DEF Placed
<1>2. PICK x : Effect(t, m) = InsertCard(t, p, x)
  BY <1>1 DEF Effect
<1> QED
  BY <1>2, DestinationsOpen, TableInserted

\* A card that is removed leaves a sound table.
LEMMA RemoveSound ==
  ASSUME NEW t, Sound(t), NEW m \in Placed("RemoveCard", OccupiedPlaces(t))
  PROVE  Sound(Effect(t, m))
<1>1. PICK p \in OccupiedPlaces(t) : m.type = "RemoveCard" /\ m.place = p
  BY DEF Placed
<1>2. Effect(t, m) = TakenFrom(t, p)
  BY <1>1 DEF Effect
<1> QED
  BY <1>2, TakenHas, TableTaken

\* Cards that are drawn leave a sound table.
LEMMA DrawSound ==
  ASSUME NEW t, Sound(t), NEW m \in DrawMsgs(t)
  PROVE  Sound(Effect(t, m))
<1> PICK pl \in Players : \E codes \in UNION {CodeLists(n) : n \in 1 .. Len(t.piles[pl]["DECK"])} :
        m = [type |-> "Draw", player |-> pl, codes |-> codes]
  BY DEF DrawMsgs
<1> PICK s : t.piles[pl]["DECK"] = s
  OBVIOUS
<1> PICK h : t.piles[pl]["HAND"] = h
  OBVIOUS
<1>1. IsSeq(s) /\ IsSeq(h) /\ Len(s) \in Nat
  BY TablePile DEF PileLocations
<1> PICK k \in Nat : Len(s) = k
  BY <1>1
<1> PICK n \in 1 .. k :
      \E codes \in CodeLists(n) :
        m = [type |-> "Draw", player |-> pl, codes |-> codes]
  OBVIOUS
<1> PICK codes \in CodeLists(n) :
        m = [type |-> "Draw", player |-> pl, codes |-> codes]
  OBVIOUS
<1>2. m.type = "Draw" /\ m.player = pl /\ m.codes = codes
  OBVIOUS
<1>3. Len(codes) = n
  BY CodesFit
<1> PICK u : SubSeq(s, 1, k - n) = u
  OBVIOUS
<1>4. IsSeq(u)
  <2>1. 1 \in 1 .. Len(s) + 1 /\ k - n \in 1 - 1 .. Len(s)
    OBVIOUS
  <2> QED
    BY <1>1, <2>1, Segment
<1> PICK drawn : Reverse(SubSeq(s, k - n + 1, k)) = drawn
  OBVIOUS
<1> PICK x : [i \in 1 .. n |-> Recoded(drawn[i], codes[i])] = x
  OBVIOUS
<1>5. IsSeq(x)
  <2>1. x = [i \in 1 .. n |-> x[i]]
    OBVIOUS
  <2> QED
    BY <2>1, FunctionIsSeq
<1> PICK v : h \o x = v
  OBVIOUS
<1>6. IsSeq(v)
  BY <1>1, <1>5, Joined
<1>7. Effect(t, m) = DrawEffect(t, m)
  BY <1>2 DEF Effect
<1>8. DrawEffect(t, m) = WithPiles(t, pl, "DECK", u, "HAND", v)
  <2>1. DrawEffect(t, m) =
          DrawnTable(t, m.player,
            SubSeq(t.piles[m.player]["DECK"], 1,
                   Len(t.piles[m.player]["DECK"]) - Len(m.codes)),
            t.piles[m.player]["HAND"] \o
              RecodedAll(Reverse(SubSeq(t.piles[m.player]["DECK"],
                                   Len(t.piles[m.player]["DECK"]) - Len(m.codes) + 1,
                                   Len(t.piles[m.player]["DECK"]))), m.codes))
    BY Zenon DEF DrawEffect, DrawnTable, RecodedAll
  <2>2. RecodedAll(drawn, codes) = x
    BY <1>3 DEF RecodedAll
  <2>3. /\ t.piles[m.player]["DECK"] = s /\ t.piles[m.player]["HAND"] = h
        /\ m.player = pl /\ m.codes = codes /\ Len(codes) = n
    BY <1>2, <1>3
  <2>4. DrawEffect(t, m) = DrawnTable(t, pl, u, v)
    BY <2>1, <2>2, <2>3
  <2> QED
    BY <2>4 DEF DrawnTable, WithPiles
<1> DEFINE k1 == "DECK"
           l1 == "HAND"
<1>9. k1 \in PileLocations /\ l1 \in PileLocations /\ k1 # l1
  BY DEF PileLocations
<1>10. Effect(t, m) = WithPiles(t, pl, k1, u, l1, v)
  BY <1>7, <1>8
<1> HIDE DEF k1, l1
<1> QED
  BY <1>4, <1>6, <1>9, <1>10, TwoPiled

\* A pile that is shuffled leaves a sound table.
LEMMA ShuffleSound ==
  ASSUME NEW t, Sound(t), NEW m \in ShuffleMsgs(t)
  PROVE  Sound(Effect(t, m))
<1>1. PICK q \in ActivePiles : m.type = "ShuffleLocation" /\ m.player = q.con /\ m.location = q.loc
  BY DEF ShuffleMsgs
<1>2. q.con \in Players /\ q.loc \in PileLocations
  BY PlacesAssumption
<1> PICK s : t.piles[q.con][q.loc] = s
  OBVIOUS
<1>3. IsSeq(s)
  BY <1>2, TablePile
<1>4. Len(s) \in Nat /\ DOMAIN s = 1 .. Len(s)
  BY <1>3, SeqIsFunction
<1> PICK x : [i \in DOMAIN s |-> Recoded(s[i], IF m.codes = <<>> THEN 0 ELSE m.codes[i])] = x
  OBVIOUS
<1>5. IsSeq(x)
  <2>1. x = [i \in 1 .. Len(s) |-> x[i]]
    BY <1>4
  <2> QED
    BY <1>4, <2>1, FunctionIsSeq
<1>6. Effect(t, m) = ShuffleEffect(t, m)
  BY <1>1 DEF Effect
<1>7. ShuffleEffect(t, m) = [t EXCEPT !.piles[q.con][q.loc] = x]
  BY <1>1 DEF ShuffleEffect
<1> QED
  BY <1>2, <1>5, <1>6, <1>7, OnePiled

\* A graveyard that is swapped with the deck leaves a sound table.
LEMMA SwapGraveDeckSound ==
  ASSUME NEW t, Sound(t), NEW m, m.type = "MiscAction", m.player \in Players
  PROVE  Sound(Effect(t, m))
<1>1. Effect(t, m) = SwapGraveDeckEffect(t, m)
  BY DEF Effect
<1> PICK s : t.piles[m.player]["DECK"] = s
  OBVIOUS
<1> PICK u : t.piles[m.player]["GRAVE"] = u
  OBVIOUS
<1>2. IsSeq(s) /\ IsSeq(u)
  BY TablePile DEF PileLocations
<1> DEFINE k == "DECK"
           l == "GRAVE"
<1>3. k \in PileLocations /\ l \in PileLocations /\ k # l
  BY DEF PileLocations
<1>4. Effect(t, m) = WithPiles(t, m.player, k, u, l, s)
  BY <1>1 DEF SwapGraveDeckEffect, WithPiles
<1> HIDE DEF k, l
<1> QED
  BY <1>2, <1>3, <1>4, TwoPiled

\* A table with a card on the field replaced.
ZoneSet(t, p, x) == [t EXCEPT !.zones[p] = x]

\* A card on the field of a table is replaced.
LEMMA OneZoned ==
  ASSUME NEW t, Sound(t), NEW p, NEW x
  PROVE  Sound(ZoneSet(t, p, x))
<1> PICK z : t.zones = z
  OBVIOUS
<1>1. IsMap(z) /\ DOMAIN z \subseteq ActiveZones
  BY TableZones
<1> PICK y : [z EXCEPT ![p] = x] = y
  OBVIOUS
<1>2. IsMap(y) /\ DOMAIN y = DOMAIN z
  BY <1>1 DEF IsMap
<1>3. ZoneSet(t, p, x) = [t EXCEPT !.zones = y]
  BY TableForm DEF ZoneSet
<1> QED
  BY <1>1, <1>2, <1>3, TableZoned

\* Two cards that swap places leave a sound table.
LEMMA SwapSound ==
  ASSUME NEW t, Sound(t), NEW m, m.type = "SwapCards"
  PROVE  Sound(Effect(t, m))
<1> PICK z : t.zones = z
  OBVIOUS
<1>1. IsMap(z) /\ DOMAIN z \subseteq ActiveZones
  BY TableZones
<1> PICK y : SwappedZones(z, m.card1, m.card2) = y
  OBVIOUS
<1>2. IsMap(y) /\ DOMAIN y = DOMAIN z
  BY <1>1 DEF IsMap, SwappedZones
<1>3. Effect(t, m) = SwapEffect(t, m)
  BY DEF Effect
<1>4. SwapEffect(t, m) = [t EXCEPT !.zones = y]
  BY TableForm DEF SwapEffect, SwappedZones
<1> QED
  BY <1>1, <1>2, <1>3, <1>4, TableZoned

\* The zones after a message that shuffles sets.
SetZones(z, m) ==
  [p \in DOMAIN z |->
     IF \E i \in DOMAIN m.previous : m.previous[i].place = p
     THEN LET i == CHOOSE j \in DOMAIN m.previous : m.previous[j].place = p
          IN  IF m.current = <<>>
              THEN Replaced(z[p], 0, m.previous[i].position)
              ELSE Replaced(z[p], m.current[i].code, m.current[i].position)
     ELSE z[p]]

\* Sets that are shuffled leave a sound table.
LEMMA SetSound ==
  ASSUME NEW t, Sound(t), NEW m, m.type = "ShuffleSetCards"
  PROVE  Sound(Effect(t, m))
<1> PICK z : t.zones = z
  OBVIOUS
<1>1. IsMap(z) /\ DOMAIN z \subseteq ActiveZones
  BY TableZones
<1>2. Effect(t, m) = ShuffleSetEffect(t, m)
  BY DEF Effect
<1>3. ShuffleSetEffect(t, m) = [t EXCEPT !.zones = SetZones(t.zones, m)]
  BY Zenon DEF ShuffleSetEffect, SetZones
<1> PICK y : SetZones(z, m) = y
  OBVIOUS
<1>4. IsMap(y) /\ DOMAIN y = DOMAIN z
  BY DEF IsMap, SetZones
<1> QED
  BY <1>1, <1>2, <1>3, <1>4, TableZoned

\* Counters that change leave a sound table.
LEMMA CounterSound ==
  ASSUME NEW t, Sound(t), NEW m, m.type = "CounterChange"
  PROVE  Sound(Effect(t, m))
<1>1. Effect(t, m) = CounterEffect(t, m)
  BY DEF Effect
<1>2. PICK x : CounterEffect(t, m) = ZoneSet(t, m.place, x)
  BY DEF CounterEffect, ZoneSet
<1> QED
  BY <1>1, <1>2, OneZoned

\* The types of messages that leave the cards alone.
CardlessTypes == {"DisableZones", "LpChange", "NewTurn", "NewPhase", "Request",
                  "Hint", "Empty"}

\* A message that leaves the cards alone leaves a sound table.
LEMMA RegisterSound ==
  ASSUME NEW t, Sound(t), NEW m, m.type \in CardlessTypes
  PROVE  Sound(Effect(t, m))
<1>1. t = [piles |-> t.piles, zones |-> t.zones, lp |-> t.lp, turn |-> t.turn,
           turnPlayer |-> t.turnPlayer, phase |-> t.phase, disabled |-> t.disabled]
  BY TableForm
<1>2. \E lp, turns, player, ph, blocked :
        Effect(t, m) = [piles |-> t.piles, zones |-> t.zones, lp |-> lp, turn |-> turns,
                        turnPlayer |-> player, phase |-> ph, disabled |-> blocked]
  <2>1. CASE m.type = "DisableZones"
    <3>1. Effect(t, m) = [t EXCEPT !.disabled = m.places]
      BY <2>1 DEF Effect
    <3> QED
      BY <1>1, <3>1
  <2>2. CASE m.type = "LpChange"
    <3>1. Effect(t, m) = LpEffect(t, m)
      BY <2>2 DEF Effect
    <3>2. PICK x : LpEffect(t, m) = [t EXCEPT !.lp[m.player] = x]
      BY DEF LpEffect
    <3> PICK l : [t.lp EXCEPT ![m.player] = x] = l
      OBVIOUS
    <3>3. Effect(t, m) = [t EXCEPT !.lp = l]
      BY <1>1, <3>1, <3>2
    <3> QED
      BY <1>1, <3>3
  <2>3. CASE m.type = "NewTurn"
    <3>1. Effect(t, m) = [t EXCEPT !.turn = @ + 1, !.turnPlayer = m.turnPlayer]
      BY <2>3 DEF Effect
    <3> QED
      BY <1>1, <3>1
  <2>4. CASE m.type = "NewPhase"
    <3>1. Effect(t, m) = [t EXCEPT !.phase = m.phase]
      BY <2>4 DEF Effect
    <3> QED
      BY <1>1, <3>1
  <2>5. CASE m.type \in {"Request", "Hint", "Empty"}
    <3>1. Effect(t, m) = t
      BY <2>5 DEF Effect
    <3> QED
      BY <1>1, <3>1
  <2> QED
    BY <2>1, <2>2, <2>3, <2>4, <2>5 DEF CardlessTypes
<1> QED
  BY <1>2, SameCards

\* The kinds of messages that the core sends.
MsgCases(t, m) ==
  \/ m \in MoveMsgs(t) \/ m \in Moves(t, CoveredMaterials(t)) \/ m \in SamePileMoves(t)
  \/ m \in SelfMoves(t) \/ m \in InPlaceMsgs(t) \/ m \in DeckTopMsgs(t, 0)
  \/ m \in DeckTopMsgs(t, 1) \/ m \in Placed("AddCard", Destinations(t))
  \/ m \in Placed("RemoveCard", OccupiedPlaces(t)) \/ m \in DrawMsgs(t)
  \/ m \in SwapMsgs(t) \/ m \in SelfSwaps(t) \/ m \in ShuffleMsgs(t)
  \/ m \in ShuffleSetMsgs(t) \/ m \in Counters(t, "ADD") \/ m \in Counters(t, "REMOVE")
  \/ /\ "Disable" \in Kinds
     /\ m \in {[type |-> "DisableZones", places |-> s] : s \in SUBSET BlockableZones}
  \/ m \in LpMsgs(t)
  \/ m \in {[type |-> "NewTurn", turnPlayer |-> p] : p \in Players}
  \/ m \in {[type |-> "NewPhase", phase |-> p] : p \in Phases}
  \/ m \in {[type |-> "MiscAction", action |-> "SWAP_GY_WITH_DECK", player |-> p] :
              p \in Players}
  \/ m \in {[type |-> "Empty"]}
  \/ m \in {[type |-> type, player |-> p] : type \in {"Hint", "Request"}, p \in Players}

\* Every message of the core is one of these.
LEMMA MsgIs ==
  ASSUME NEW t, NEW m \in CoreMsgs(t)
  PROVE  MsgCases(t, m)
<1> PICK kind \in Kinds : m \in MsgsOfKind(kind, t)
  BY DEF CoreMsgs
<1>1. kind \in AllKinds
  BY TableAssumption
<1>2. kind = "Move" => m \in MoveMsgs(t)
  BY DEF MsgsOfKind
<1>3. kind = "DetachLower" => m \in Moves(t, CoveredMaterials(t))
  BY DEF MsgsOfKind
<1>4. kind = "SamePile" => m \in SamePileMoves(t)
  BY DEF MsgsOfKind
<1>5. kind = "SelfMove" => m \in SelfMoves(t)
  BY DEF MsgsOfKind
<1>6. kind = "InPlace" => m \in InPlaceMsgs(t)
  BY DEF MsgsOfKind
<1>7. kind = "DeckTop" => m \in DeckTopMsgs(t, 0)
  BY DEF MsgsOfKind
<1>8. kind = "BelowDeckTop" => m \in DeckTopMsgs(t, 1)
  BY DEF MsgsOfKind
<1>9. kind = "Add" => m \in Placed("AddCard", Destinations(t))
  BY DEF MsgsOfKind
<1>10. kind = "Remove" => m \in Placed("RemoveCard", OccupiedPlaces(t))
  BY DEF MsgsOfKind
<1>11. kind = "Draw" => m \in DrawMsgs(t)
  BY DEF MsgsOfKind
<1>12. kind = "Swap" => m \in SwapMsgs(t)
  BY DEF MsgsOfKind
<1>13. kind = "SelfSwap" => m \in SelfSwaps(t)
  BY DEF MsgsOfKind
<1>14. kind = "Shuffle" => m \in ShuffleMsgs(t)
  BY DEF MsgsOfKind
<1>15. kind = "ShuffleSet" => m \in ShuffleSetMsgs(t)
  BY DEF MsgsOfKind
<1>16. kind = "CounterAdd" => m \in Counters(t, "ADD")
  BY DEF MsgsOfKind
<1>17. kind = "CounterRemove" => m \in Counters(t, "REMOVE")
  BY DEF MsgsOfKind, CounterRemovals
<1>18. kind = "Disable" =>
         m \in {[type |-> "DisableZones", places |-> s] : s \in SUBSET BlockableZones}
  BY DEF MsgsOfKind
<1>19. kind = "Lp" => m \in LpMsgs(t)
  BY DEF MsgsOfKind, FairLpMsgs
<1>20. kind = "Overkill" => m \in LpMsgs(t)
  BY DEF MsgsOfKind, OverkillMsgs
<1>21. kind = "Turn" => m \in {[type |-> "NewTurn", turnPlayer |-> p] : p \in Players}
  BY DEF MsgsOfKind
<1>22. kind = "Phase" => m \in {[type |-> "NewPhase", phase |-> p] : p \in Phases}
  BY DEF MsgsOfKind
<1>23. kind = "SwapGraveDeck" =>
         m \in {[type |-> "MiscAction", action |-> "SWAP_GY_WITH_DECK", player |-> p] :
                  p \in Players}
  BY DEF MsgsOfKind
<1>24. kind = "Hint" => m \in {[type |-> "Empty"]} \cup
         {[type |-> type, player |-> p] : type \in {"Hint", "Request"}, p \in Players}
  BY DEF MsgsOfKind
<1>25. kind \in AllKinds \ {"Disable"} => MsgCases(t, m)
  BY <1>2, <1>3, <1>4, <1>5, <1>6, <1>7, <1>8, <1>9, <1>10, <1>11, <1>12, <1>13, <1>14,
     <1>15, <1>16, <1>17, <1>19, <1>20, <1>21, <1>22, <1>23, <1>24
     DEF AllKinds, MsgCases
<1> QED
  BY <1>1, <1>18, <1>25 DEF MsgCases

\* Whatever the core sends about a sound table leaves a sound table.
LEMMA EffectSound ==
  ASSUME NEW t, Sound(t), NEW m \in CoreMsgs(t)
  PROVE  Sound(Effect(t, m))
<1>0. MsgCases(t, m)
  BY MsgIs
<1>1. CASE m \in Moves(t, OccupiedPlaces(t)) \/ m \in Moves(t, CoveredMaterials(t))
  <2>1. PICK places \in {OccupiedPlaces(t), CoveredMaterials(t)} : m \in Moves(t, places)
    BY <1>1
  <2>2. \A p \in places : Has(CardsOf(t), p)
    BY TakenHas
  <2>3. \A p \in Destinations(t) : Open(CardsOf(t), p)
    BY DestinationsOpen
  <2> PICK pairs : /\ \A pq \in pairs : pq[1] \in places /\ pq[2] \in Destinations(t)
                                        /\ ~SamePile(pq[1], pq[2])
                   /\ m \in Updates("MOVE", pairs)
    BY <2>1 DEF Moves
  <2> QED
    BY <2>2, <2>3, MoveSound
<1>2. CASE m \in SamePileMoves(t) \/ m \in SelfMoves(t)
  <2>1. \A p \in OccupiedPlaces(t) : Has(CardsOf(t), p) /\ Open(CardsOf(t), p)
    BY TakenHas
  <2>2. PICK pairs : /\ \A pq \in pairs : pq[1] \in OccupiedPlaces(t) /\ pq[2] \in OccupiedPlaces(t)
                     /\ m \in Updates("MOVE", pairs)
    <3>1. CASE m \in SamePileMoves(t)
      BY <3>1 DEF SamePileMoves
    <3>2. CASE m \in SelfMoves(t)
      <4> DEFINE pairs == {<<p, p>> : p \in OccupiedPlaces(t)}
      <4>1. m \in Updates("MOVE", pairs)
        BY <3>2 DEF SelfMoves
      <4>2. \A pq \in pairs : pq[1] \in OccupiedPlaces(t) /\ pq[2] \in OccupiedPlaces(t)
        OBVIOUS
      <4> QED
        BY <4>1, <4>2
    <3> QED
      BY <1>2, <3>1, <3>2
  <2> QED
    BY <2>1, <2>2, MoveSound
<1>3. CASE m \in InPlaceMsgs(t)
  BY <1>3, InPlaceSound
<1>4. CASE m \in DeckTopMsgs(t, 0) \/ m \in DeckTopMsgs(t, 1)
  BY <1>4, DeckTopSound
<1>5. CASE m \in Placed("AddCard", Destinations(t))
  BY <1>5, AddSound
<1>6. CASE m \in Placed("RemoveCard", OccupiedPlaces(t))
  BY <1>6, RemoveSound
<1>7. CASE m \in DrawMsgs(t)
  BY <1>7, DrawSound
<1>8. CASE m \in SwapMsgs(t) \/ m \in SelfSwaps(t)
  <2>1. m.type = "SwapCards"
    BY <1>8 DEF SwapMsgs, SelfSwaps
  <2> QED
    BY <2>1, SwapSound
<1>9. CASE m \in ShuffleMsgs(t)
  BY <1>9, ShuffleSound
<1>10. CASE m \in ShuffleSetMsgs(t)
  <2>1. m.type = "ShuffleSetCards"
    BY <1>10, SetMsgForm
  <2> QED
    BY <2>1, SetSound
<1>11. CASE m \in Counters(t, "ADD") \/ m \in Counters(t, "REMOVE")
  <2>1. m.type = "CounterChange"
    BY <1>11 DEF Counters
  <2> QED
    BY <2>1, CounterSound
<1>12. CASE m \in {[type |-> "MiscAction", action |-> "SWAP_GY_WITH_DECK", player |-> p] :
              p \in Players}
  <2>1. m.type = "MiscAction" /\ m.player \in Players
    BY <1>12
  <2> QED
    BY <2>1, SwapGraveDeckSound
<1>13. CASE \/ m \in {[type |-> "DisableZones", places |-> s] : s \in SUBSET BlockableZones}
            \/ m \in LpMsgs(t)
            \/ m \in {[type |-> "NewTurn", turnPlayer |-> p] : p \in Players}
            \/ m \in {[type |-> "NewPhase", phase |-> p] : p \in Phases}
            \/ m \in {[type |-> "Empty"]}
            \/ m \in {[type |-> type, player |-> p] : type \in {"Hint", "Request"}, p \in Players}
  <2>1. m.type \in CardlessTypes
    BY <1>13 DEF CardlessTypes, LpMsgs
  <2> QED
    BY <2>1, RegisterSound
<1> QED
  BY <1>0, <1>1, <1>2, <1>3, <1>4, <1>5, <1>6, <1>7, <1>8, <1>9, <1>10, <1>11, <1>12, <1>13
     DEF MsgCases, MoveMsgs

----------------------------------------------------------------------------
(* Every message arrives *)

\* The core blocks no zones, or zones whose bits the encoder reads.
BlocksReadZones == "Disable" \in Kinds => BlockableZones \subseteq FlaggedZones

\* The messages that move a card from place to place arrive.
LEMMA CardMsgsArrive ==
  ASSUME NEW t, Sound(t),
         NEW m \in MoveMsgs(t) \cup Moves(t, CoveredMaterials(t)) \cup SamePileMoves(t)
                     \cup SelfMoves(t)
  PROVE  Arrives(t, m)
<1>1. \A p \in OccupiedPlaces(t) \cup CoveredMaterials(t) : WirePlace(p)
  BY TakenHas, OpenOnWire
<1>2. \A p \in Destinations(t) : WirePlace(p)
  BY DestinationsOpen, OpenOnWire
<1> DEFINE SomeMove ==
             \E pairs : /\ \A pq \in pairs : WirePlace(pq[1]) /\ WirePlace(pq[2])
                        /\ m \in Updates("MOVE", pairs)
<1>3. SomeMove
  <2>1. ASSUME NEW places \in {OccupiedPlaces(t), CoveredMaterials(t)}, m \in Moves(t, places)
        PROVE  SomeMove
    BY <1>1, <1>2, <2>1 DEF Moves
  <2>2. CASE m \in SamePileMoves(t)
    BY <1>1, <2>2 DEF SamePileMoves
  <2>3. CASE m \in SelfMoves(t)
    <3> DEFINE pairs == {<<p, p>> : p \in OccupiedPlaces(t)}
    <3>1. m \in Updates("MOVE", pairs)
      BY <2>3 DEF SelfMoves
    <3>2. \A pq \in pairs : WirePlace(pq[1]) /\ WirePlace(pq[2])
      BY <1>1
    <3> QED
      BY <3>1, <3>2
  <2> QED
    BY <2>1, <2>2, <2>3 DEF MoveMsgs
<1> QED
  BY <1>3, MovesArrive

\* The messages about cards on the field arrive.
LEMMA FieldMsgsArrive ==
  ASSUME NEW t, Sound(t),
         NEW m \in InPlaceMsgs(t) \cup SwapMsgs(t) \cup SelfSwaps(t) \cup ShuffleSetMsgs(t)
                     \cup Counters(t, "ADD") \cup Counters(t, "REMOVE")
  PROVE  Arrives(t, m)
<1>1. \A p \in FieldCards(t) : PlainPlace(p)
  BY FieldCardsOnWire
<1>2. CASE m \in InPlaceMsgs(t)
  <2>1. PICK reason \in {"POS_CHANGE", "SET"} :
          m \in Updates(reason, {<<p, NoPlace>> : p \in FieldCards(t) \cap ActiveZones})
    BY <1>2 DEF InPlaceMsgs
  <2> PICK places : places = FieldCards(t) \cap ActiveZones
    OBVIOUS
  <2>2. m \in Updates(reason, {<<p, NoPlace>> : p \in places})
    BY <2>1
  <2>3. \A p \in places : PlainPlace(p)
    BY <1>1
  <2> QED
    BY <2>2, <2>3, InPlaceArrives
<1>3. CASE m \in SwapMsgs(t) \cup SelfSwaps(t)
  <2>1. PICK p \in FieldCards(t), q \in FieldCards(t) :
          m = [type |-> "SwapCards", card1 |-> p, card2 |-> q]
    BY <1>3 DEF SwapMsgs, SelfSwaps
  <2> QED
    BY <1>1, <2>1, SwapArrives
<1>4. CASE m \in ShuffleSetMsgs(t)
  BY <1>1, <1>4, SetsArrive
<1>5. CASE m \in Counters(t, "ADD") \cup Counters(t, "REMOVE")
  BY <1>1, <1>5, CountersArrive
<1> QED
  BY <1>2, <1>3, <1>4, <1>5

\* The messages about several cards of a pile arrive.
LEMMA PileMsgsArrive ==
  ASSUME NEW t, Sound(t), NEW m \in DrawMsgs(t) \cup ShuffleMsgs(t)
  PROVE  Arrives(t, m)
<1>1. CASE m \in DrawMsgs(t)
  <2> PICK pl \in Players : \E codes \in UNION {CodeLists(n) : n \in 1 .. Len(t.piles[pl]["DECK"])} :
          m = [type |-> "Draw", player |-> pl, codes |-> codes]
    BY <1>1 DEF DrawMsgs
  <2>1. Len(t.piles[pl]["DECK"]) \in Nat
    BY TablePile DEF PileLocations
  <2> PICK k \in Nat : Len(t.piles[pl]["DECK"]) = k
    BY <2>1
  <2> PICK n \in 1 .. k : \E codes \in CodeLists(n) :
          m = [type |-> "Draw", player |-> pl, codes |-> codes]
    OBVIOUS
  <2>2. n \in Nat
    OBVIOUS
  <2> PICK codes \in CodeLists(n) : m = [type |-> "Draw", player |-> pl, codes |-> codes]
    OBVIOUS
  <2> QED
    BY <2>2, DrawArrives
<1>2. CASE m \in ShuffleMsgs(t)
  <2> PICK q \in ActivePiles :
        \E codes \in {<<>>} \cup CodeLists(Len(GetPile(t, q))) :
          m = [type |-> "ShuffleLocation", player |-> q.con, location |-> q.loc,
               codes |-> codes]
    BY <1>2 DEF ShuffleMsgs
  <2>1. Len(GetPile(t, q)) \in Nat
    BY TablePile, PlacesAssumption DEF GetPile
  <2> PICK n \in Nat : Len(GetPile(t, q)) = n
    BY <2>1
  <2>2. PICK codes \in {<<>>} \cup CodeLists(n) :
          m = [type |-> "ShuffleLocation", player |-> q.con, location |-> q.loc,
               codes |-> codes]
    OBVIOUS
  <2> QED
    BY <2>2, ShuffleArrives
<1> QED
  BY <1>1, <1>2

\* Whatever the core sends about a sound table comes out of the encoder as it
\* went in (codec/msg_encoder.cpp:228-248).
LEMMA EveryMessageArrives ==
  ASSUME BlocksReadZones, NEW t, Sound(t), NEW m \in CoreMsgs(t)
  PROVE  Arrives(t, m)
<1>0. MsgCases(t, m)
  BY MsgIs
<1>1. CASE m \in MoveMsgs(t) \cup Moves(t, CoveredMaterials(t)) \cup SamePileMoves(t)
                   \cup SelfMoves(t)
  BY <1>1, CardMsgsArrive
<1>2. CASE m \in InPlaceMsgs(t) \cup SwapMsgs(t) \cup SelfSwaps(t) \cup ShuffleSetMsgs(t)
                   \cup Counters(t, "ADD") \cup Counters(t, "REMOVE")
  BY <1>2, FieldMsgsArrive
<1>3. CASE m \in DrawMsgs(t) \cup ShuffleMsgs(t)
  BY <1>3, PileMsgsArrive
<1>4. CASE m \in DeckTopMsgs(t, 0) \/ m \in DeckTopMsgs(t, 1)
  BY <1>4, DeckTopArrives
<1>5. CASE m \in Placed("AddCard", Destinations(t))
  <2>1. \A p \in Destinations(t) : WirePlace(p)
    BY DestinationsOpen, OpenOnWire
  <2> QED
    BY <1>5, <2>1, PlacedArrive
<1>6. CASE m \in Placed("RemoveCard", OccupiedPlaces(t))
  <2>1. \A p \in OccupiedPlaces(t) : WirePlace(p)
    BY TakenHas, OpenOnWire
  <2> QED
    BY <1>6, <2>1, PlacedArrive
<1>7. CASE /\ "Disable" \in Kinds
           /\ m \in {[type |-> "DisableZones", places |-> s] : s \in SUBSET BlockableZones}
  <2>1. PICK s \in SUBSET FlaggedZones : m = [type |-> "DisableZones", places |-> s]
    BY <1>7 DEF BlocksReadZones
  <2> QED
    BY <2>1, DisabledArrive
<1>8. CASE m \in LpMsgs(t)
  BY <1>8, LpArrives
<1>9. CASE \/ m \in {[type |-> "NewTurn", turnPlayer |-> p] : p \in Players}
           \/ m \in {[type |-> "NewPhase", phase |-> p] : p \in Phases}
           \/ m \in {[type |-> "MiscAction", action |-> "SWAP_GY_WITH_DECK", player |-> p] :
                       p \in Players}
           \/ m \in {[type |-> "Empty"]}
           \/ m \in {[type |-> type, player |-> p] : type \in {"Hint", "Request"}, p \in Players}
  <2>1. \E p : \/ m = [type |-> "NewTurn", turnPlayer |-> p]
               \/ m = [type |-> "NewPhase", phase |-> p]
               \/ m = [type |-> "MiscAction", action |-> "SWAP_GY_WITH_DECK", player |-> p]
               \/ m = [type |-> "Request", player |-> p]
               \/ m = [type |-> "Hint", player |-> p]
               \/ m = [type |-> "Empty"]
    BY <1>9
  <2> QED
    BY <2>1, PlainArrives
<1> QED
  BY <1>0, <1>1, <1>2, <1>3, <1>4, <1>5, <1>6, <1>7, <1>8, <1>9 DEF MsgCases

----------------------------------------------------------------------------
(* The inductive invariant *)

\* What holds of a client behind the encoder: what holds of every client
\* (RegisterInv), a field without cards before the first message, and a last
\* table that is sound.
StreamInv ==
  /\ RegisterInv
  /\ msgs = <<>> => IsBoard(Cards) /\ DOMAIN zoneCards = {}
  /\ IsSeq(Duel) /\ Len(Duel) \in Nat \ {0} /\ Sound(Duel[Len(Duel)])

\* A board without cards on the field shows a sound table.
LEMMA ViewSound ==
  IsBoard(Cards) /\ DOMAIN zoneCards = {} => Sound(View)
<1> SUFFICES ASSUME IsBoard(Cards), DOMAIN zoneCards = {}
             PROVE  Sound(View)
  OBVIOUS
<1> PICK b : CardsOf(View) = b
  OBVIOUS
<1> PICK y : [p \in Players |-> [l \in PileLocations |->
                [i \in DOMAIN piles[p][l] |-> ShownCard(piles[p][l][i])]]] = y
  OBVIOUS
<1> PICK z : [p \in DOMAIN zoneCards |-> ShownCard(zoneCards[p])] = z
  OBVIOUS
<1>1. b.piles = y /\ b.zones = z /\ b = [piles |-> b.piles, zones |-> b.zones]
  BY DEF View, CardsOf
<1>2. ASSUME NEW con \in Players, NEW loc \in PileLocations
      PROVE  IsSeq(y[con][loc])
  <2> PICK s : piles[con][loc] = s
    OBVIOUS
  <2>1. IsSeq(s)
    BY DEF IsBoard, Cards
  <2>2. Len(s) \in Nat /\ DOMAIN s = 1 .. Len(s)
    BY <2>1, SeqIsFunction
  <2> PICK x : y[con][loc] = x
    OBVIOUS
  <2>3. x = [i \in DOMAIN s |-> ShownCard(s[i])]
    OBVIOUS
  <2>4. x = [i \in 1 .. Len(s) |-> x[i]]
    BY <2>2, <2>3
  <2> QED
    BY <2>2, <2>4, FunctionIsSeq
<1>3. y = [con \in Players |-> [loc \in PileLocations |-> y[con][loc]]]
  OBVIOUS
<1>4. IsMap(z) /\ DOMAIN z = {}
  BY DEF IsMap
<1>5. IsBoard(b)
  BY <1>1, <1>2, <1>3, <1>4 DEF IsBoard
<1>6. Tidy(b)
  BY <1>1, <1>4, <1>5 DEF Tidy
<1>7. TableOf(b, View) = View
  BY ViewForm
<1> QED
  BY <1>6, <1>7 DEF Sound

\* A fresh board satisfies the invariant.
LEMMA StreamInit == Init => StreamInv
<1> SUFFICES ASSUME Init
             PROVE  StreamInv
  OBVIOUS
<1>1. RegisterInv
  BY InitInv
<1> DEFINE e == [p \in Players |-> [l \in PileLocations |-> <<>>]]
<1>2. msgs = <<>> /\ piles = e /\ zoneCards = EmptyMap
  BY DEF Init, BoardInit
<1>3. IsMap(EmptyMap) /\ DOMAIN EmptyMap = {}
  BY DEF EmptyMap, IsMap
<1>4. e = [p \in Players |-> [l \in PileLocations |-> e[p][l]]]
      /\ \A p \in Players, l \in PileLocations : e[p][l] = <<>>
  OBVIOUS
<1> HIDE DEF e
<1>5. IsSeq(<<>>)
  BY ShortSeqs
<1>6. IsBoard(Cards)
  BY <1>2, <1>3, <1>4, <1>5 DEF IsBoard, Cards
<1>7. Duel = <<View>>
  BY <1>2 DEF Duel
<1>8. Sound(View)
  BY <1>2, <1>3, <1>6, ViewSound
<1>9. IsSeq(<<View>>) /\ Len(<<View>>) = 1 /\ <<View>>[1] = View
  BY ShortSeqs
<1> QED
  BY <1>1, <1>2, <1>3, <1>6, <1>7, <1>8, <1>9 DEF StreamInv

\* Before the first message the duel is what the board shows.
LEMMA StreamFresh ==
  ASSUME RegisterInv', msgs' = <<>>, IsBoard(Cards'), DOMAIN zoneCards' = {}
  PROVE  StreamInv'
<1>1. Duel' = <<View'>>
  BY DEF Duel
<1>2. (IsBoard(Cards) /\ DOMAIN zoneCards = {} => Sound(View))'
  BY ViewSound, PTL
<1>3. Sound(View')
  BY <1>2
<1> PICK v : View' = v
  OBVIOUS
<1>4. IsSeq(<<v>>) /\ Len(<<v>>) = 1 /\ <<v>>[1] = v
  BY ShortSeqs
<1> QED
  BY <1>1, <1>3, <1>4 DEF StreamInv

\* Filling the piles and setting the life points keeps the invariant
\* (board.hpp:110-123).
LEMMA StreamSetUp == StreamInv /\ SetUp => StreamInv'
<1> SUFFICES ASSUME StreamInv, SetUp
             PROVE  StreamInv'
  OBVIOUS
<1>1. msgs = <<>> /\ (FillOnce \/ SetLPOnce)
  BY DEF SetUp
<1>2. RegisterInv'
  BY SetUpInv DEF StreamInv
<1>3. msgs' = msgs /\ zoneCards' = zoneCards
  BY <1>1 DEF FillOnce, FillPile, SetLPOnce, SetLP, timelineVars, cardVars
<1> PICK b : Cards = b
  OBVIOUS
<1>4. IsBoard(b) /\ DOMAIN zoneCards = {}
  BY <1>1 DEF StreamInv
<1>5. CASE FillOnce
  <2> PICK q \in DOMAIN FillSizes : /\ piles[q.con][q.loc] = <<>>
                                    /\ FillPile(q.con, q.loc, FillSizes[q])
    BY <1>5 DEF FillOnce
  <2>1. q.con \in Players /\ q.loc \in PileLocations /\ FillSizes[q] \in Nat
    BY ClientAssumption
  <2> PICK n \in Nat : FillSizes[q] = n
    BY <2>1
  <2> PICK p : Place(q.con, q.loc, 0) = p
    OBVIOUS
  <2> PICK s : s = [i \in 1 .. n |-> Filler]
    OBVIOUS
  <2>2. Cards' = PutPile(b, p, s)
    BY <1>4, <2>1, PileFilled
  <2>3. PilePlace(p)
    <3>1. p = Place(q.con, q.loc, 0) /\ p.con = q.con /\ p.loc = q.loc /\ p.seq = 0
      BY DEF Place
    <3>2. q.loc \notin FieldLocations
      BY <2>1 DEF PileLocations, FieldLocations
    <3> QED
      BY <2>1, <3>1, <3>2 DEF PilePlace, IsPile
  <2>4. IsSeq(s)
    BY FunctionIsSeq
  <2>5. IsBoard(PutPile(b, p, s))
    BY <1>4, <2>3, <2>4, PilePut
  <2> QED
    BY <1>1, <1>2, <1>3, <1>4, <2>2, <2>5, StreamFresh
<1>6. CASE SetLPOnce
  <2>1. piles' = piles
    BY <1>6 DEF SetLPOnce, SetLP, cardVars
  <2>2. Cards' = b
    BY <1>3, <2>1 DEF Cards
  <2> QED
    BY <1>1, <1>2, <1>3, <1>4, <2>2, StreamFresh
<1> QED
  BY <1>1, <1>5, <1>6

\* A message is delivered: the client receives the message that the core sent.
LEMMA DeliverIsReceive ==
  ASSUME BlocksReadZones, StreamInv, Deliver
  PROVE  Receive /\ StreamInv'
<1> PICK t : Duel[Len(Duel)] = t
  OBVIOUS
<1>1. Sound(t)
  BY DEF StreamInv
<1>2. Len(msgs) < MaxMsgs /\ UNCHANGED frames
  BY DEF Deliver
<1>3. PICK m \in CoreMsgs(t), dirty \in {0, 1} :
        /\ OnTheWire(m)
        /\ AppendMsg(Encode(Wire(t, m, dirty)))
        /\ tables' = Append(Duel, Effect(t, m))
  BY DEF Deliver
<1>4. Encode(Wire(t, m, dirty)) = m
  BY <1>1, <1>3, EveryMessageArrives DEF Arrives
<1>5. AppendMsg(m)
  BY <1>3, <1>4
<1>6. Receive
  BY <1>2, <1>3, <1>5 DEF Receive
<1>7. RegisterInv'
  BY <1>6, ReceiveInv DEF StreamInv
<1>8. msgs' = Append(msgs, m)
  BY <1>5 DEF AppendMsg
<1> PICK e : Effect(t, m) = e
  OBVIOUS
<1>9. Sound(e)
  BY <1>1, EffectSound
<1>10. msgs' # <<>>
  <2>1. IsSeq(msgs) /\ Len(msgs) \in Nat
    BY SeqIsFunction DEF StreamInv, RegisterInv, HistoryInv
  <2>2. Len(msgs') = Len(msgs) + 1
    BY <1>8, <2>1, AppendToSeq
  <2>3. Len(<<>>) = 0
    BY ShortSeqs
  <2> QED
    BY <2>1, <2>2, <2>3
<1>11. Duel' = Append(Duel, e)
  BY <1>3, <1>10 DEF Duel
<1> PICK d : Duel = d
  OBVIOUS
<1>12. IsSeq(d) /\ Len(d) \in Nat
  BY DEF StreamInv
<1> PICK f : Append(d, e) = f
  OBVIOUS
<1>13. IsSeq(f) /\ Len(f) = Len(d) + 1 /\ f[Len(d) + 1] = e
  BY <1>12, AppendToSeq
<1>14. Duel' = f
  BY <1>11
<1> PICK k \in Nat : Len(d) = k
  BY <1>12
<1>15. IsSeq(Duel') /\ Len(Duel') = k + 1
  BY <1>13, <1>14
<1>16. Len(Duel') \in Nat \ {0}
  BY <1>15
<1>17. Duel'[Len(Duel')] = e
  BY <1>13, <1>14, <1>15
<1>18. Sound(Duel'[Len(Duel')])
  BY <1>9, <1>17
<1>19. StreamInv'
  BY <1>7, <1>10, <1>15, <1>16, <1>18 DEF StreamInv
<1> QED
  BY <1>6, <1>19

\* Playing and rewinding leave the duel alone (board.hpp:85-108).
LEMMA StreamPlays ==
  ASSUME StreamInv, Play \/ PlayThrows \/ Rewind
  PROVE  StreamInv'
<1>1. RegisterInv'
  BY PlayInv, PlayThrowsInv, RewindInv DEF StreamInv
<1>2. UNCHANGED <<msgs, tables>>
  BY DEF Play, PlayThrows, Rewind, Forward, ForwardThrows, Backward
<1>3. msgs # <<>>
  <2>1. state \in Nat /\ state <= Len(msgs) /\ Len(msgs) \in Nat
    BY TempCursors DEF StreamInv
  <2>2. state < Len(msgs) \/ state > 0
    BY DEF Play, PlayThrows, Rewind, Forward, ForwardThrows, Backward
  <2>3. Len(<<>>) = 0
    BY ShortSeqs
  <2> QED
    BY <2>1, <2>2, <2>3
<1>4. Duel' = Duel
  BY <1>2, <1>3, SameDuelOn
<1> QED
  BY <1>1, <1>2, <1>3, <1>4 DEF StreamInv

\* A step that changes nothing keeps the invariant.
LEMMA StreamStutter == StreamInv /\ UNCHANGED vars => StreamInv'
<1> SUFFICES ASSUME StreamInv, UNCHANGED vars
             PROVE  StreamInv'
  OBVIOUS
<1>1. RegisterInv'
  BY StutterInv DEF StreamInv
<1>2. UNCHANGED <<msgs, tables, piles, zoneCards, state, processedState, tempCards,
                  disabledZones, playerLP, turn, turnPlayer, phase>>
  BY DEF vars, boardVars, timelineVars, cardVars, registerVars
<1>3. View' = View /\ Cards' = Cards
  BY <1>2 DEF View, Cards
<1>4. Duel' = Duel
  BY <1>2, <1>3 DEF Duel
<1> QED
  BY <1>1, <1>2, <1>3, <1>4 DEF StreamInv

\* Every step of a client behind the encoder is one of a client that is told
\* the messages, and keeps the invariant.
LEMMA StreamStep ==
  ASSUME BlocksReadZones, StreamInv, [StreamNext]_vars
  PROVE  [Next]_vars /\ StreamInv'
<1>1. CASE SetUp
  BY <1>1, StreamSetUp DEF Next
<1>2. CASE Deliver
  BY <1>2, DeliverIsReceive DEF Next
<1>3. CASE Play \/ PlayThrows \/ Rewind
  BY <1>3, StreamPlays DEF Next
<1>4. CASE UNCHANGED vars
  BY <1>4, StreamStutter
<1> QED
  BY <1>1, <1>2, <1>3, <1>4 DEF StreamNext

\* The last table of the duel is sound, whatever buffers the core has sent
\* (codec/msg_encoder.cpp:228-248).
THEOREM StreamInvariance ==
  ASSUME BlocksReadZones
  PROVE  StreamSpec => []StreamInv
<1>1. StreamInv /\ [StreamNext]_vars => StreamInv'
  BY StreamStep
<1> QED
  BY StreamInit, <1>1, PTL DEF StreamSpec

\* The invariant says that the next message arrives.
LEMMA NothingGarbled ==
  ASSUME BlocksReadZones, StreamInv
  PROVE  NothingIsGarbled
<1> PICK t : Duel[Len(Duel)] = t
  OBVIOUS
<1>1. Sound(t)
  BY DEF StreamInv
<1>2. \A m \in CoreMsgs(t) : Arrives(t, m)
  BY <1>1, EveryMessageArrives
<1> QED
  BY <1>2 DEF NothingIsGarbled, Arrives

\* Whatever the duel has come to, every message that the core may send next
\* comes out of the encoder as it went in, for every set of cards, zones and
\* players and duels of any length (codec/msg_encoder.cpp:228-248).
THEOREM EncoderLosesNothing ==
  ASSUME BlocksReadZones
  PROVE  StreamSpec => []NothingIsGarbled
<1>1. StreamInv => NothingIsGarbled
  BY NothingGarbled
<1> QED
  BY StreamInvariance, <1>1, PTL

\* A board that is fed with the core's buffers does what one does that is told
\* the messages themselves: the stream implements the replay
\* (codec/msg_encoder.cpp:228-248).
THEOREM StreamDeliversTheDuel ==
  ASSUME BlocksReadZones
  PROVE  StreamSpec => DeliversTheDuel
<1>1. StreamInv /\ [StreamNext]_vars => [Next]_vars
  BY StreamStep
<1> QED
  BY StreamInvariance, <1>1, PTL DEF StreamSpec, Spec, DeliversTheDuel

\* What the client promises of a duel that it is told, it does with a duel that
\* the encoder reads for it: the registers, the end at a message that throws and
\* the cards that wait in tempCards (board.hpp:85-96, 157-159, 703-757).
THEOREM StreamedDuelIsReplayed ==
  ASSUME BlocksReadZones
  PROVE  StreamSpec => [](RegistersReplay /\ ThrowIsTheEnd /\ TempHoldsAbsentCards)
BY StreamDeliversTheDuel, RegistersAreReplayed, NothingAfterAThrow, AbsentCardsWait, PTL
   DEF DeliversTheDuel

\* With messages that can be undone the board of a client behind the encoder is
\* the duel of the core, at whatever point the client looks at it
\* (board.hpp:85-108).
THEOREM StreamedDuelIsMirrored ==
  ASSUME BlocksReadZones, Kinds \subseteq ReversibleKinds
  PROVE  StreamSpec => []MirrorsCore
BY StreamDeliversTheDuel, BoardMirrorsTheDuel, PTL DEF DeliversTheDuel

\* With zones that the core blocks as well, it is when the client has caught up,
\* the values it appends to are the last ones, and no cursor of a card leaves
\* its recording (board.hpp:85-96, card.hpp:16-33).
THEOREM StreamedDuelIsLive ==
  ASSUME BlocksReadZones, Kinds \subseteq FilmedKinds,
         "Disable" \in Kinds => BlockableZones \subseteq DisableableZones
  PROVE  StreamSpec => [](LiveMirror /\ HeadIsLast /\ CardCursorsInRange)
BY StreamDeliversTheDuel, BoardIsLive, NewMessagesFindTheLastValue,
   CardCursorsStayInRange, PTL DEF DeliversTheDuel

\* And the client behind the encoder is the timeline of boards that the replay
\* promises (board.hpp:85-108).
THEOREM StreamedDuelIsATimeline ==
  ASSUME BlocksReadZones, Kinds \subseteq ReversibleKinds
  PROVE  StreamSpec => ReplayIsTimeline
BY StreamDeliversTheDuel, BoardImplementsTimeline, PTL DEF DeliversTheDuel

\* The zones that the core blocks are blocked on the board of a client behind
\* the encoder, when the client has a value for them and the encoder reads
\* their bits (board.hpp:166-172, codec/encoder_information_impl.hpp:177-213).
THEOREM StreamedZonesAreShown ==
  ASSUME BlocksReadZones, BlockableZones \subseteq DisableableZones
  PROVE  StreamSpec => []BlockedZonesShown
BY StreamDeliversTheDuel, BlockedZonesAreShown, PTL DEF DeliversTheDuel
=============================================================================
