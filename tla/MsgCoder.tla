------------------------------ MODULE MsgCoder -------------------------------
(***************************************************************************)
(* YGOpen::MsgEncoder (codec/msg_encoder.cpp) on the bytes of a buffer: it    *)
(* carries out the steps of the format that belongs to the message's number. *)
(*                                                                          *)
(* While a message is read, e holds the buffer, the local variables, and of   *)
(* the message the player, the oneof member (kind), the type and the fields. *)
(* A field that is 0 is one that is not there, as in proto3.                 *)
(***************************************************************************)
EXTENDS ByteBuffer, RequestFormats, InformationFormats, TLC
LOCAL INSTANCE SequencesExt

----------------------------------------------------------------------------
(* The numbers of the core's messages (codec/core_message.hpp) *)

MsgNumber ==
  [MSG_RETRY |-> 1, MSG_HINT |-> 2, MSG_WIN |-> 5,
   MSG_SELECT_BATTLECMD |-> 10, MSG_SELECT_IDLECMD |-> 11,
   MSG_SELECT_EFFECTYN |-> 12, MSG_SELECT_YESNO |-> 13,
   MSG_SELECT_OPTION |-> 14, MSG_SELECT_CARD |-> 15, MSG_SELECT_CHAIN |-> 16,
   MSG_SELECT_PLACE |-> 18, MSG_SELECT_POSITION |-> 19,
   MSG_SELECT_TRIBUTE |-> 20, MSG_SORT_CHAIN |-> 21,
   MSG_SELECT_COUNTER |-> 22, MSG_SELECT_SUM |-> 23,
   MSG_SELECT_DISFIELD |-> 24, MSG_SORT_CARD |-> 25,
   MSG_SELECT_UNSELECT_CARD |-> 26, MSG_CONFIRM_DECKTOP |-> 30,
   MSG_CONFIRM_CARDS |-> 31, MSG_SHUFFLE_DECK |-> 32,
   MSG_SHUFFLE_HAND |-> 33, MSG_SWAP_GRAVE_DECK |-> 35,
   MSG_SHUFFLE_SET_CARD |-> 36, MSG_REVERSE_DECK |-> 37, MSG_DECK_TOP |-> 38,
   MSG_SHUFFLE_EXTRA |-> 39, MSG_NEW_TURN |-> 40, MSG_NEW_PHASE |-> 41,
   MSG_CONFIRM_EXTRATOP |-> 42, MSG_MOVE |-> 50, MSG_POS_CHANGE |-> 53,
   MSG_SET |-> 54, MSG_SWAP |-> 55, MSG_FIELD_DISABLED |-> 56,
   MSG_SUMMONING |-> 60, MSG_SUMMONED |-> 61, MSG_SPSUMMONING |-> 62,
   MSG_SPSUMMONED |-> 63, MSG_FLIPSUMMONING |-> 64, MSG_FLIPSUMMONED |-> 65,
   MSG_CHAINING |-> 70, MSG_CHAINED |-> 71, MSG_CHAIN_SOLVING |-> 72,
   MSG_CHAIN_SOLVED |-> 73, MSG_CHAIN_END |-> 74, MSG_CHAIN_NEGATED |-> 75,
   MSG_CHAIN_DISABLED |-> 76, MSG_RANDOM_SELECTED |-> 81,
   MSG_BECOME_TARGET |-> 83, MSG_DRAW |-> 90, MSG_DAMAGE |-> 91,
   MSG_RECOVER |-> 92, MSG_EQUIP |-> 93, MSG_LPUPDATE |-> 94,
   MSG_CARD_TARGET |-> 96, MSG_CANCEL_TARGET |-> 97, MSG_PAY_LPCOST |-> 100,
   MSG_ADD_COUNTER |-> 101, MSG_REMOVE_COUNTER |-> 102, MSG_ATTACK |-> 110,
   MSG_BATTLE |-> 111, MSG_ATTACK_DISABLED |-> 112,
   MSG_DAMAGE_STEP_START |-> 113, MSG_DAMAGE_STEP_END |-> 114,
   MSG_MISSED_EFFECT |-> 120, MSG_TOSS_COIN |-> 130, MSG_TOSS_DICE |-> 131,
   MSG_ROCK_PAPER_SCISSORS |-> 132, MSG_HAND_RES |-> 133,
   MSG_ANNOUNCE_RACE |-> 140, MSG_ANNOUNCE_ATTRIB |-> 141,
   MSG_ANNOUNCE_CARD |-> 142, MSG_ANNOUNCE_NUMBER |-> 143,
   MSG_ANNOUNCE_CARD_FILTER |-> 144, MSG_CARD_HINT |-> 160,
   MSG_TAG_SWAP |-> 161, MSG_RELOAD_FIELD |-> 162, MSG_AI_NAME |-> 163,
   MSG_SHOW_HINT |-> 164, MSG_PLAYER_HINT |-> 165, MSG_MATCH_KILL |-> 170]

CoreMessages == DOMAIN MsgNumber

\* 0 where no message has the number.
NameOf(number) ==
  IF \E name \in CoreMessages : MsgNumber[name] = number
  THEN CHOOSE name \in CoreMessages : MsgNumber[name] = number
  ELSE "0"

\* A case label of a switch is a number of its own.
ASSUME NumbersAssumption ==
  \A a, b \in CoreMessages : MsgNumber[a] = MsgNumber[b] => a = b

----------------------------------------------------------------------------
VARIABLES
  ib,        \* the buffer, which every call of Encode opens anew
  lastMsg    \* the message that was encoded last

coderVars == <<ib, lastMsg>>

NoFields == [path \in {} |-> 0]
NoPlayer == -1

EmptyMsg == [group |-> "none", player |-> NoPlayer, kind |-> "none",
             type |-> NotSet, fields |-> NoFields]

----------------------------------------------------------------------------
(* Fields of the message *)

Field(fields, path) == IF path \in DOMAIN fields THEN fields[path] ELSE 0

Put(fields, path, value) ==
  IF value = 0 THEN [p \in DOMAIN fields \ {path} |-> fields[p]]
               ELSE (path :> value) @@ fields

Tell(e, path, value) == [e EXCEPT !.fields = Put(@, path, value)]

SizeOf(list) == <<list, 0, "", "size">>

\* A repeated field of plain values.
TellValues(e, list, values) ==
  FoldLeft(LAMBDA f, i : Tell(f, <<list, i, "", "value">>, values[i]),
           Tell(e, SizeOf(list), Len(values)), [i \in DOMAIN values |-> i])

----------------------------------------------------------------------------
(* Steps *)

TellCode(e, list, at, sub, bytes) ==
  Tell(Tell(e, <<list, at, sub, "code">>, CodeOf(bytes)),
       <<list, at, sub, "bit">>, bytes[4] \div 128)

\* The fourth field of a location: a material is told by its location's last
\* bit, and then the field is its place among the materials.
FACEDOWN_ATTACK == 2

TellPosition(e, list, at, sub, value) ==
  IF Field(e.fields, <<list, at, sub, "location">>) \div 128 = 1
  THEN Tell(Tell(e, <<list, at, sub, "overlay_sequence">>, value),
            <<list, at, sub, "position">>, FACEDOWN_ATTACK)
  ELSE Tell(e, <<list, at, sub, "position">>, value)

Do(e, list, at, step) ==
  LET bytes == Peek(e.ib, step.arg)
      next == [e EXCEPT !.ib = Seek(@, step.arg)]
      path(name) == <<list, at, step.sub, name>>
  IN  CASE step.op = "skip" -> next
        [] step.op = "read" -> Tell(next, path(step.name), Uint(bytes))
        [] step.op = "bool" ->
             Tell(next, path(step.name), IF Uint(bytes) = 0 THEN 0 ELSE 1)
        [] step.op = "code" -> TellCode(next, list, at, step.sub, bytes)
        [] step.op = "both codes" ->
             TellCode(TellCode(next, list, at, "previous", bytes),
                      list, at, "current", bytes)
        [] step.op = "effect" ->
             Tell(Tell(next, path("code"), EffectCode(bytes)),
                  path("string_id"), EffectString(bytes))
        [] step.op = "position" ->
             TellPosition(next, list, at, step.sub, Uint(bytes))
        [] step.op = "set" -> Tell(e, path(step.name), step.arg)
        [] step.op = "local" ->
             [next EXCEPT !.locals = (step.name :> bytes) @@ @]
        [] step.op = "to player" -> [next EXCEPT !.player = Uint(bytes)]

DoAll(e, list, at, steps) ==
  FoldLeft(LAMBDA f, step : Do(f, list, at, step), e, steps)

DoLoop(e, loop) ==
  LET n == IF loop.count = "" THEN 1 ELSE Uint(e.locals[loop.count])
  IN  FoldLeft(LAMBDA f, i : DoAll(f, loop.list, i, loop.steps),
               Tell(e, SizeOf(loop.list), n), [i \in 1 .. n |-> i])

DoStep(e, step) ==
  IF step.op = "loop" THEN DoLoop(e, step) ELSE Do(e, "", 0, step)

----------------------------------------------------------------------------
(* What follows from the values that were read *)

\* The zones in the order of the flag's bits, 16 for each player; the loop
\* over the pendulum zones ends where it starts.
FlagZones(player) ==
  LET zone(i, location, sequence) ==
        [bit |-> 16 * player + i, controller |-> player,
         location |-> location, sequence |-> sequence]
  IN  [s \in 1 .. 7 |-> zone(s - 1, 4, s - 1)]
        \o [s \in 1 .. 5 |-> zone(8 + s - 1, 8, s - 1)]
        \o <<zone(13, 256, 0)>>
        \o [s \in 1 .. 14 - 14 |-> zone(14 + s - 1, 512, s - 1)]

\* The zones whose bit has the given value: disabled zones are set bits,
\* zones to choose from are cleared ones.
PlacesIn(e, bit) ==
  LET places == SelectSeq(FlagZones(0) \o FlagZones(1),
                          LAMBDA z : Bit(e.locals["flag"], z.bit) = bit)
      tell(f, i) ==
        Tell(Tell(Tell(f,
          <<"places", i, "", "controller">>, places[i].controller),
          <<"places", i, "", "location">>, places[i].location),
          <<"places", i, "", "sequence">>, places[i].sequence)
  IN  FoldLeft(tell, Tell(e, SizeOf("places"), Len(places)),
               [i \in DOMAIN places |-> i])

SumType(e) ==
  [e EXCEPT !.type = IF Uint(e.locals["select_mode"]) # 0
                     THEN "SELECTION_SUM" ELSE "SELECTION_SUM_EXACTLY"]

OPCODE_ISTYPE == 1073742082
OPCODE_OR == 1073741829

\* TYPE_MONSTER, TYPE_SPELL, TYPE_TRAP; all three of them need no filter.
TypeFilter(e) ==
  LET types == Uint(e.locals["types"])
      some == SelectSeq(<<1, 2, 4>>, LAMBDA t : (types \div t) % 2 = 1)
  IN  CASE types = 7 -> TellValues(e, "opcodes", <<>>)
        [] types # 7 /\ Len(some) = 2 ->
             TellValues(e, "opcodes",
               some \o <<OPCODE_ISTYPE, OPCODE_ISTYPE, OPCODE_OR>>)
        [] OTHER -> TellValues(e, "opcodes", some \o <<OPCODE_ISTYPE>>)

\* Two bits for each hand, which counts from 1.
Hands(e) ==
  LET hands == Uint(e.locals["hands"])
  IN  TellValues(e, "results", <<(hands % 4) - 1, ((hands \div 4) % 4) - 1>>)

FieldsOf(e, sub) == {path \in DOMAIN e.fields : path[3] = sub}

OnlyCard(e, sub, kind) ==
  LET to(path) == <<path[1], path[2], "card", path[4]>>
  IN  [e EXCEPT !.kind = kind, !.type = NotSet,
         !.fields = [p \in {to(q) : q \in FieldsOf(e, sub)} |->
                       @[<<p[1], p[2], sub, p[4]>>]]
                    @@ [p \in FieldsOf(e, "") |-> @[p]]]

\* A card without a previous location is added, one without a current one is
\* removed.
Branch(e) ==
  LET nowhere(sub) == Field(e.fields, <<"", 0, sub, "location">>) = 0
  IN  CASE nowhere("previous") -> OnlyCard(e, "current", "add_card")
        [] ~nowhere("previous") /\ nowhere("current") ->
             OnlyCard(e, "previous", "remove_card")
        [] OTHER -> e

DirectAttack(e) ==
  IF /\ Field(e.fields, <<"", 0, "attack_target", "location">>) = 0
     /\ Field(e.fields, <<"", 0, "attack_target", "sequence">>) = 0
  THEN [e EXCEPT !.fields =
          [p \in DOMAIN @ \ FieldsOf(e, "attack_target") |-> @[p]]]
  ELSE e

Finish(e, name) ==
  CASE name = "MSG_SELECT_PLACE" -> PlacesIn(e, 0)
    [] name = "MSG_FIELD_DISABLED" -> PlacesIn(e, 1)
    [] name = "MSG_SELECT_SUM" -> SumType(e)
    [] name = "MSG_ANNOUNCE_CARD" -> TypeFilter(e)
    [] name = "MSG_HAND_RES" -> Hands(e)
    [] name = "MSG_MOVE" -> Branch(e)
    [] name \in {"MSG_ATTACK", "MSG_BATTLE"} -> DirectAttack(e)
    [] OTHER -> e

----------------------------------------------------------------------------
(* Messages *)

ReadMsg(buf, name, format, player) ==
  LET e == [ib |-> buf, locals |-> NoFields, fields |-> NoFields,
            player |-> player, kind |-> format.kind, type |-> format.type]
  IN  Finish(FoldLeft(DoStep, e, format.steps), name)

InformationMsg(buf, name) ==
  ReadMsg(buf, name, InformationFormat[name], NoPlayer)

RequestMsg(buf, name) ==
  ReadMsg(Seek(buf, 1), name, RequestFormat[name], Uint(Peek(buf, 1)))

SpecInformationMsg(buf, name) ==
  ReadMsg(buf, name, SpecInformationFormat[name], NoPlayer)

Result(e, group) ==
  [ib |-> e.ib,
   msg |-> [group |-> group, player |-> e.player, kind |-> e.kind,
            type |-> e.type, fields |-> e.fields]]

\* A message that no group knows becomes an empty message.
EncodeBuffer(bytes) ==
  LET opened == Open(bytes)
      name == NameOf(Uint(Peek(opened, 1)))
      rest == Seek(opened, 1)
  IN  CASE name \in InformationMsgs ->
             Result(InformationMsg(rest, name), "information")
        [] name \in RequestMsgs ->
             Result(RequestMsg(rest, name), "request")
        [] name \in SpecInformationMsgs ->
             Result(SpecInformationMsg(rest, name), "specific information")
        [] OTHER -> [ib |-> rest, msg |-> EmptyMsg]

CoderInit == ib = Open(<<>>) /\ lastMsg = EmptyMsg

Encode(bytes) ==
  LET result == EncodeBuffer(bytes)
  IN  ib' = result.ib /\ lastMsg' = result.msg
=============================================================================
