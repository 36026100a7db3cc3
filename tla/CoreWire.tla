------------------------------ MODULE CoreWire -------------------------------
(***************************************************************************)
(* The buffers the core writes, as the encoder takes them apart: the core    *)
(* (ocgcore) is not part of this repository.  Wire(t, m, dirty) is the       *)
(* buffer that tells of message m when the duel is t; dirty is 1 if the core *)
(* sets the last bit of the codes.                                           *)
(***************************************************************************)
EXTENDS DuelTable, CoreEncoder

\* The codes of cards have no use for the bit that marks a code.
ASSUME CodesAssumption == \A code \in Codes : code < DirtyBit

WireInfoLoc(place, position) ==
  <<place.con, place.loc, place.seq,
    IF place.loc = "OVERLAY" THEN place.oseq ELSE position>>

NoInfoLoc == WireInfoLoc(NoPlace, 0)

WireCodes(codes, dirty) ==
  [i \in DOMAIN codes |-> codes[i] + dirty * DirtyBit]

WireUpdate(t, m, code) ==
  LET p == m.previous
  IN  CASE m.reason = "MOVE" ->
             <<"MSG_MOVE", code>> \o WireInfoLoc(p, CardOf(t, p).pos)
               \o WireInfoLoc(m.current, m.position) \o <<"core reason">>
        [] m.reason = "DECK_TOP" -> <<"MSG_DECK_TOP", p.con, p.seq, code>>
        [] m.reason = "POS_CHANGE" ->
             <<"MSG_POS_CHANGE", code, p.con, p.loc, p.seq,
               CardOf(t, p).pos, m.position>>
        [] m.reason = "SET" ->
             <<"MSG_SET", code, p.con, p.loc, p.seq, m.position>>

WireSwap(t, m, dirty) ==
  LET info(p) == WireCodes(<<CardOf(t, p).code>>, dirty)
                   \o WireInfoLoc(p, CardOf(t, p).pos)
  IN  <<"MSG_SWAP">> \o info(m.card1) \o info(m.card2)

WireShuffle(m, codes) ==
  CASE m.location = "DECK" -> <<"MSG_SHUFFLE_DECK", m.player>>
    [] m.location = "HAND" ->
         <<"MSG_SHUFFLE_HAND", m.player, Len(codes)>> \o codes
    [] m.location = "EXTRA" ->
         <<"MSG_SHUFFLE_EXTRA", m.player, Len(codes)>> \o codes

WireShuffleSet(m) ==
  LET n == Len(m.previous)
      info(i) == IF i <= n
                 THEN WireInfoLoc(m.previous[i].place, m.previous[i].position)
                 ELSE WireInfoLoc(m.previous[i - n].place,
                                  m.current[i - n].position)
  IN  <<"MSG_SHUFFLE_SET_CARD", "location", n>>
        \o [k \in 1 .. 8 * n |-> info((k + 3) \div 4)[1 + ((k - 1) % 4)]]

\* The bit of a zone in the flag of disabled zones; the core counts the field
\* zone as the last of the spell zones.
ZoneBit(place) ==
  16 * place.con + (CASE place.loc = "MZONE" -> place.seq
                      [] place.loc = "SZONE" -> 8 + place.seq
                      [] place.loc = "PZONE" -> 14 + place.seq)

LpName(change) ==
  CASE change = "DAMAGE" -> "MSG_DAMAGE" [] change = "RECOVER" -> "MSG_RECOVER"
    [] change = "BECOME" -> "MSG_LPUPDATE" [] change = "PAY" -> "MSG_PAY_LPCOST"

Wire(t, m, dirty) ==
  LET code == m.code + dirty * DirtyBit
  IN  CASE m.type = "UpdateCard" -> WireUpdate(t, m, code)
        [] m.type = "AddCard" -> <<"MSG_MOVE", code>> \o NoInfoLoc
             \o WireInfoLoc(m.place, m.position) \o <<"core reason">>
        [] m.type = "RemoveCard" ->
             <<"MSG_MOVE", code>> \o WireInfoLoc(m.place, m.position)
               \o NoInfoLoc \o <<"core reason">>
        [] m.type = "Draw" -> <<"MSG_DRAW", m.player, Len(m.codes)>>
                                \o WireCodes(m.codes, dirty)
        [] m.type = "SwapCards" -> WireSwap(t, m, dirty)
        [] m.type = "ShuffleLocation" ->
             WireShuffle(m, WireCodes(m.codes, dirty))
        [] m.type = "ShuffleSetCards" -> WireShuffleSet(m)
        [] m.type = "CounterChange" ->
             <<IF m.change = "ADD" THEN "MSG_ADD_COUNTER"
                                   ELSE "MSG_REMOVE_COUNTER",
               m.counter, m.place.con, m.place.loc, m.place.seq, m.count>>
        [] m.type = "DisableZones" ->
             <<"MSG_FIELD_DISABLED", {ZoneBit(p) : p \in m.places}>>
        [] m.type = "LpChange" -> <<LpName(m.change), m.player, m.amount>>
        [] m.type = "NewTurn" -> <<"MSG_NEW_TURN", m.turnPlayer>>
        [] m.type = "NewPhase" -> <<"MSG_NEW_PHASE", m.phase>>
        [] m.type = "MiscAction" -> <<"MSG_SWAP_GRAVE_DECK", m.player>>
        [] m.type = "Request" -> <<"MSG_SELECT_IDLECMD", m.player>>
        [] m.type = "Hint" -> <<"MSG_HINT", "hint type", m.player>>
        [] m.type = "Empty" -> <<"MSG_EQUIP">>

\* The messages there is a buffer for: a deck is shuffled without its codes
\* and the other piles with them, shuffled sets have no codes, and the wire
\* says nothing of the position of a material.
OnTheWire(m) ==
  /\ m.type = "ShuffleLocation" =>
       \/ m.location = "DECK" /\ m.codes = <<>>
       \/ m.location \in {"HAND", "EXTRA"} /\ m.codes # <<>>
  /\ m.type = "ShuffleSetCards" =>
       m.current # <<>> /\ \A i \in DOMAIN m.current : m.current[i].code = 0
  /\ m.type = "UpdateCard" /\ m.current.loc = "OVERLAY" =>
       m.position = MATERIAL_POSITION
  /\ m.type \in {"AddCard", "RemoveCard"} /\ m.place.loc = "OVERLAY" =>
       m.position = MATERIAL_POSITION
=============================================================================
