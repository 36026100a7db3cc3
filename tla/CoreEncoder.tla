---------------------------- MODULE CoreEncoder -----------------------------
(***************************************************************************)
(* YGOpen::MsgEncoder (codec/): a buffer of the core becomes a message that  *)
(* DuelBoard can interpret.  A buffer w is the sequence of the fields in     *)
(* it, the message's name first: a read takes the next field, and here each  *)
(* field is read by its index.  The widths of the fields are those the core  *)
(* writes and are left out.                                                 *)
(*                                                                          *)
(* Only the messages that DuelBoard interprets are encoded in full; of the   *)
(* others it only matters which group they belong to.                       *)
(***************************************************************************)
EXTENDS Places

CONSTANT DirtyBit    \* the last bit of a code: 2^31 in the code

ASSUME DirtyBitAssumption == DirtyBit \in Nat \ {0}

ToCardCode(field) == field % DirtyBit

ReadCodes(w, first, n) == [i \in 1 .. n |-> ToCardCode(w[first + i - 1])]

\* POS_FACEDOWN_ATTACK, for every material.
MATERIAL_POSITION == 2

\* Mutant: the sequence and the overlay sequence are one and the same.
ReadInfoLocTwice(w, i) ==
  [place |-> [con |-> w[i], loc |-> w[i + 1], seq |-> w[i + 2], oseq |-> w[i + 2]],
   position |-> w[i + 3]]

\* A card location: controller, location, sequence and position; a material
\* has its overlay sequence where the others have their position.
ReadInfoLoc(w, i) ==
  IF w[i + 1] = "OVERLAY"
  THEN [place |-> OverlayPlace(w[i], w[i + 2], w[i + 3]),
        position |-> MATERIAL_POSITION]
  ELSE [place |-> Place(w[i], w[i + 1], w[i + 2]), position |-> w[i + 3]]

\* How many fields a card location takes.
InfoLocSize == 4

----------------------------------------------------------------------------
(* The messages that change a card *)

Update(reason, previous, current, code, position) ==
  [type |-> "UpdateCard", reason |-> reason, previous |-> previous,
   current |-> current, code |-> ToCardCode(code), position |-> position]

CardAt(type, info, code) ==
  [type |-> type, place |-> info.place, code |-> ToCardCode(code),
   position |-> info.position]

\* Mutant: the position is the one that the card had.
EncodeMoveKeepsPosition(w) ==
  LET previous == ReadInfoLoc(w, 3)
      current == ReadInfoLoc(w, 3 + InfoLocSize)
  IN  CASE previous.place.loc = "NONE" -> CardAt("AddCard", current, w[2])
        [] current.place.loc = "NONE" -> CardAt("RemoveCard", previous, w[2])
        [] OTHER -> Update("MOVE", previous.place, current.place, w[2],
                           previous.position)

\* A card without a previous location is added, one without a current
\* location is removed.
EncodeMove(w) ==
  LET previous == ReadInfoLoc(w, 3)
      current == ReadInfoLoc(w, 3 + InfoLocSize)
  IN  CASE previous.place.loc = "NONE" -> CardAt("AddCard", current, w[2])
        [] current.place.loc = "NONE" -> CardAt("RemoveCard", previous, w[2])
        [] OTHER -> Update("MOVE", previous.place, current.place, w[2],
                           current.position)

EncodeInPlace(w, reason, position) ==
  Update(reason, Place(w[3], w[4], w[5]), NoPlace, w[2], position)

EncodeDeckTop(w) ==
  Update("DECK_TOP", Place(w[2], "DECK", w[3]), NoPlace, w[4], 0)

EncodeSwap(w) ==
  [type |-> "SwapCards", card1 |-> ReadInfoLoc(w, 3).place,
   card2 |-> ReadInfoLoc(w, 4 + InfoLocSize).place]

EncodeShuffle(w, location, codes) ==
  [type |-> "ShuffleLocation", player |-> w[2], location |-> location,
   codes |-> codes]

\* No code is read for the cards of a shuffled set.
EncodeShuffleSet(w) ==
  LET n == w[3]
      info(i) == ReadInfoLoc(w, 4 + InfoLocSize * (i - 1))
  IN  [type |-> "ShuffleSetCards",
       previous |-> [i \in 1 .. n |-> info(i)],
       current |-> [i \in 1 .. n |->
                      [code |-> 0, position |-> info(n + i).position]]]

EncodeDraw(w) ==
  [type |-> "Draw", player |-> w[2], codes |-> ReadCodes(w, 4, w[3])]

----------------------------------------------------------------------------
(* The messages that change counters, zones and registers *)

EncodeCounter(w, change) ==
  [type |-> "CounterChange", change |-> change,
   place |-> Place(w[3], w[4], w[5]), counter |-> w[2], count |-> w[6]]

\* The zones of a player in the flag: 16 bits, a set of bit numbers.  The
\* field zone's bit is bit 13; the loop over the pendulum zones starts behind
\* it and ends before it begins.
ExtractPlaces(flag, player) ==
  LET bits(first, last, loc) ==
        {Place(player, loc, i - first) :
           i \in {j \in first .. last : 16 * player + j \in flag}}
  IN  bits(0, 6, "MZONE") \cup bits(8, 12, "SZONE")
        \cup bits(13, 13, "FZONE") \cup bits(14, 13, "PZONE")

EncodeDisabled(w) ==
  [type |-> "DisableZones",
   places |-> ExtractPlaces(w[2], 0) \cup ExtractPlaces(w[2], 1)]

EncodeLp(w, change) ==
  [type |-> "LpChange", change |-> change, player |-> w[2], amount |-> w[3]]

----------------------------------------------------------------------------
(* Dispatch *)

InformationMsgs ==
  {"MSG_MOVE", "MSG_POS_CHANGE", "MSG_SET", "MSG_DECK_TOP", "MSG_SWAP",
   "MSG_SHUFFLE_DECK", "MSG_SHUFFLE_HAND", "MSG_SHUFFLE_EXTRA",
   "MSG_SHUFFLE_SET_CARD", "MSG_DRAW", "MSG_ADD_COUNTER",
   "MSG_REMOVE_COUNTER", "MSG_FIELD_DISABLED", "MSG_DAMAGE", "MSG_RECOVER",
   "MSG_LPUPDATE", "MSG_PAY_LPCOST", "MSG_NEW_TURN", "MSG_NEW_PHASE",
   "MSG_SWAP_GRAVE_DECK"}

RequestMsgs == {"MSG_SELECT_IDLECMD"}

SpecInformationMsgs == {"MSG_HINT"}

InformationMsg(w) ==
  CASE w[1] = "MSG_MOVE" -> EncodeMove(w)
    [] w[1] = "MSG_POS_CHANGE" -> EncodeInPlace(w, "POS_CHANGE", w[7])
    [] w[1] = "MSG_SET" -> EncodeInPlace(w, "SET", w[6])
    [] w[1] = "MSG_DECK_TOP" -> EncodeDeckTop(w)
    [] w[1] = "MSG_SWAP" -> EncodeSwap(w)
    [] w[1] = "MSG_SHUFFLE_DECK" -> EncodeShuffle(w, "DECK", <<>>)
    [] w[1] = "MSG_SHUFFLE_HAND" ->
         EncodeShuffle(w, "HAND", ReadCodes(w, 4, w[3]))
    [] w[1] = "MSG_SHUFFLE_EXTRA" ->
         EncodeShuffle(w, "EXTRA", ReadCodes(w, 4, w[3]))
    [] w[1] = "MSG_SHUFFLE_SET_CARD" -> EncodeShuffleSet(w)
    [] w[1] = "MSG_DRAW" -> EncodeDraw(w)
    [] w[1] = "MSG_ADD_COUNTER" -> EncodeCounter(w, "ADD")
    [] w[1] = "MSG_REMOVE_COUNTER" -> EncodeCounter(w, "REMOVE")
    [] w[1] = "MSG_FIELD_DISABLED" -> EncodeDisabled(w)
    [] w[1] = "MSG_DAMAGE" -> EncodeLp(w, "DAMAGE")
    [] w[1] = "MSG_RECOVER" -> EncodeLp(w, "RECOVER")
    [] w[1] = "MSG_LPUPDATE" -> EncodeLp(w, "BECOME")
    [] w[1] = "MSG_PAY_LPCOST" -> EncodeLp(w, "PAY")
    [] w[1] = "MSG_NEW_TURN" -> [type |-> "NewTurn", turnPlayer |-> w[2]]
    [] w[1] = "MSG_NEW_PHASE" -> [type |-> "NewPhase", phase |-> w[2]]
    [] w[1] = "MSG_SWAP_GRAVE_DECK" ->
         [type |-> "MiscAction", action |-> "SWAP_GY_WITH_DECK",
          player |-> w[2]]

\* A message that no group knows becomes an empty message.
Encode(w) ==
  CASE w[1] \in InformationMsgs -> InformationMsg(w)
    [] w[1] \in RequestMsgs -> [type |-> "Request", player |-> w[2]]
    [] w[1] \in SpecInformationMsgs -> [type |-> "Hint", player |-> w[3]]
    [] OTHER -> [type |-> "Empty"]
=============================================================================
