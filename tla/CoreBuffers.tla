----------------------------- MODULE CoreBuffers -----------------------------
(***************************************************************************)
(* The buffers that ocgcore writes, which are not part of this repository:   *)
(* for each message its values in the core's order, each with its width and  *)
(* with the field it is meant for.  From that layout follow the bytes that   *)
(* the core writes (Bytes) and what the encoder should make of them (Told).  *)
(*                                                                          *)
(* A sample s of a message fixes what the layout depends on: how long its    *)
(* lists are, where its cards are, the zones and types it names, and a bit   *)
(* for whatever is a yes or a no.  The other values are ranks: the number of *)
(* the value in the message, so that no two of them are alike.               *)
(***************************************************************************)
EXTENDS Integers, Sequences, TLC
LOCAL INSTANCE SequencesExt
LOCAL INSTANCE FiniteSetsExt

CONSTANT MsgNumber    \* the number of each message, which both sides share

----------------------------------------------------------------------------
(* Values *)

Value(kind, where, name, width, fixed) ==
  [kind |-> kind, path |-> Append(where, name), width |-> width, fixed |-> fixed]

Msg == <<"", 0, "">>
In(sub) == <<"", 0, sub>>
Item(list, i) == <<list, i, "">>
InItem(list, i, sub) == <<list, i, sub>>

Num(where, name, width) == Value("rank", where, name, width, 0)
Yes(where, name) == Value("bit", where, name, 1, 0)
Player(name) == Value("bit", Msg, name, 1, 0)
Code(where) == Value("code", where, "code", 4, 0)
Effect(where) == Value("effect", where, "code", 8, 0)
Const(where, name, width, value) == Value("fixed", where, name, width, value)
\* A value the encoder has no use for.
Unused(width) == Value("unused", Msg, "", width, 0)
\* A value in the message that no byte stands for.
Implied(where, name, value) == Const(where, name, 0, value)

Field == 4
Material == 132
Nowhere == 0

POS_FACEUP_ATTACK == 1

\* A card's place as the core writes it; the fourth value of a material is its
\* place among the materials, and the encoder gives it a position, "face-up
\* attack" (msg_encoder.cpp:90).
Place4(where, location) ==
  IF location = Nowhere THEN <<Const(Msg, "", 10, 0)>>
  ELSE <<Num(where, "controller", 1), Const(where, "location", 1, location),
         Num(where, "sequence", 4)>>
       \o IF location = Material
          THEN <<Num(where, "overlay_sequence", 4),
                 Implied(where, "position", POS_FACEUP_ATTACK)>>
          ELSE <<Num(where, "position", 4)>>

Place3(where, width) ==
  <<Num(where, "controller", 1), Const(where, "location", 1, Field),
    Num(where, "sequence", width)>>

Card4(where, location) == <<Code(where)>> \o Place4(where, location)
Card3(where, width) == <<Code(where)>> \o Place3(where, width)

Many(n, Element(_)) == FlattenSeq([i \in 1 .. n |-> Element(i)])

List(list, width, n, Element(_)) ==
  <<Const(<<list, 0, "">>, "size", width, n)>> \o Many(n, Element)

\* The length and the places of the k-th list, the place of the k-th card.
Size(s, k) == s.sizes[((k - 1) % 2) + 1]
At(s, k) == s.places[((k - 1) % 2) + 1]

Cards4(s, k, list) ==
  List(list, 4, Size(s, k), LAMBDA i : Card4(Item(list, i), At(s, i)))
Cards3(s, k, list, width, Postfix(_)) ==
  List(list, 4, Size(s, k),
       LAMBDA i : Card3(Item(list, i), width) \o Postfix(i))
Bare(s, k, list, width) == Cards3(s, k, list, width, LAMBDA i : <<>>)
Codes(n, list) == Many(n, LAMBDA i : <<Code(Item(list, i))>>)
EffectCards(s, k, list) ==
  Cards3(s, k, list, 4, LAMBDA i : <<Effect(InItem(list, i, "effect_desc"))>>)
NumCards(s, k, list, seq, sub, name, width) ==
  Cards3(s, k, list, seq, LAMBDA i : <<Num(InItem(list, i, sub), name, width)>>)
Values(s, list, count, width) ==
  List(list, count, Size(s, 1), LAMBDA i : <<Num(Item(list, i), "value", width)>>)

----------------------------------------------------------------------------
(* Zones as bits: 16 for each player, set for those that are named. *)

ZoneOf(bit) ==
  LET i == bit % 16
      zone(location, sequence) == [location |-> location, sequence |-> sequence]
  IN  CASE i \in 0 .. 6 -> zone(4, i)
        [] i \in 8 .. 12 -> zone(8, i - 8)
        [] i = 13 -> zone(256, 0)
        [] i \in 14 .. 15 -> zone(512, i - 14)

\* The places that are named, in the order of the bits.
ZonePlaces(zones) ==
  LET bits == SelectSeq([i \in 1 .. 32 |-> i - 1], LAMBDA bit : bit \in zones)
  IN  <<Implied(<<"places", 0, "">>, "size", Len(bits))>>
      \o Many(Len(bits), LAMBDA n :
           LET where == Item("places", n)
           IN  <<Implied(where, "controller", bits[n] \div 16),
                 Implied(where, "location", ZoneOf(bits[n]).location),
                 Implied(where, "sequence", ZoneOf(bits[n]).sequence)>>)

FlagByte(zones, i) ==
  FoldSet(LAMBDA bit, n : n + 2 ^ (bit % 8), 0,
          {bit \in zones : bit \div 8 = i - 1})
Flag(zones) ==
  [i \in 1 .. 4 |-> Value("fixed", Msg, "", 1, FlagByte(zones, i))]

----------------------------------------------------------------------------
(* Layouts: what follows the number, and for a request the player. *)

MinMax == <<Num(Msg, "min", 4), Num(Msg, "max", 4)>>

RequestLayout(s) ==
  CASE s.name = "MSG_SELECT_BATTLECMD" ->
         EffectCards(s, 1, "cards_w_effect")
         \o Cards3(s, 2, "cards_can_attack", 1,
                   LAMBDA i : <<Yes(Item("cards_can_attack", i), "can_attack_directly")>>)
         \o <<Yes(Msg, "able_to_mp2"), Yes(Msg, "able_to_ep")>>
    [] s.name = "MSG_SELECT_IDLECMD" ->
         Bare(s, 1, "cards_summonable", 4) \o Bare(s, 2, "cards_spsummonable", 4)
         \o Bare(s, 1, "cards_repositionable", 1)
         \o Bare(s, 2, "cards_msetable", 4) \o Bare(s, 1, "cards_ssetable", 4)
         \o EffectCards(s, 2, "cards_w_effect")
         \o <<Yes(Msg, "able_to_bp"), Yes(Msg, "able_to_ep"), Yes(Msg, "can_shuffle")>>
    [] s.name = "MSG_SELECT_EFFECTYN" ->
         Card4(In("card"), At(s, 1)) \o <<Effect(In("effect_desc"))>>
    [] s.name = "MSG_SELECT_YESNO" -> <<Effect(In("effect"))>>
    [] s.name = "MSG_SELECT_OPTION" ->
         List("effects", 1, Size(s, 1), LAMBDA i : <<Effect(Item("effects", i))>>)
    [] s.name = "MSG_SELECT_CARD" ->
         <<Yes(Msg, "can_cancel")>> \o MinMax \o Cards4(s, 1, "cards_selectable")
    [] s.name = "MSG_SELECT_CHAIN" ->
         <<Const(<<"cards_w_effect", 0, "">>, "size", 4, Size(s, 1)),
           Unused(1), Yes(Msg, "forced"), Unused(4), Unused(4)>>
         \o Many(Size(s, 1), LAMBDA i :
              <<Num(Item("cards_w_effect", i), "effect_desc_type", 1)>>
              \o Card4(InItem("cards_w_effect", i, "card"), At(s, i))
              \o <<Effect(InItem("cards_w_effect", i, "effect_desc"))>>)
    [] s.name = "MSG_SELECT_PLACE" ->
         <<Num(Msg, "min", 1)>> \o Flag((0 .. 31) \ s.zones) \o ZonePlaces(s.zones)
    [] s.name = "MSG_SELECT_POSITION" ->
         <<Code(In("card")), Num(In("card"), "position", 1)>>
    [] s.name = "MSG_SELECT_TRIBUTE" ->
         <<Yes(Msg, "can_cancel")>> \o MinMax
         \o NumCards(s, 1, "cards_selectable", 4, "", "tribute_count", 1)
    [] s.name = "MSG_SORT_CHAIN" -> Cards4(s, 1, "cards_to_sort")
    [] s.name = "MSG_SELECT_COUNTER" ->
         <<Num(In("counter"), "type", 2), Num(In("counter"), "count", 2)>>
         \o NumCards(s, 1, "cards_selectable", 1, "counter", "count", 2)
    [] s.name = "MSG_SELECT_SUM" ->
         <<Value("bit", Msg, "", 1, 0), Num(Msg, "sum", 4)>> \o MinMax
         \o NumCards(s, 1, "cards_must_select", 4, "", "sum_param", 4)
         \o NumCards(s, 2, "cards_selectable", 4, "", "sum_param", 4)
    [] s.name = "MSG_SELECT_UNSELECT_CARD" ->
         <<Yes(Msg, "can_accept"), Yes(Msg, "can_cancel")>> \o MinMax
         \o Cards4(s, 1, "cards_selectable") \o Cards4(s, 2, "cards_unselectable")
    [] s.name = "MSG_ROCK_PAPER_SCISSORS" -> <<Implied(Msg, "select_rps", 1)>>
    [] s.name \in {"MSG_ANNOUNCE_RACE", "MSG_ANNOUNCE_ATTRIB"} ->
         <<Num(Msg, "count", 1), Implied(<<"available", 0, "">>, "size", 1),
           Num(Item("available", 1), "value", 4)>>
    [] s.name = "MSG_ANNOUNCE_CARD" -> <<Const(Msg, "", 4, s.types)>>
    [] s.name = "MSG_ANNOUNCE_NUMBER" -> Values(s, "available", 1, 8)
    [] s.name = "MSG_ANNOUNCE_CARD_FILTER" -> Values(s, "opcodes", 1, 8)

Fighter(s, k, sub) ==
  Place4(In(sub), At(s, k)) \o <<Num(In(sub), "atk", 4), Num(In(sub), "def", 4), Unused(1)>>

ShuffledCodes(s, location) ==
  <<Player("player"), Implied(Msg, "location", location)>>
  \o List("shuffled_cards", 4, Size(s, 1), LAMBDA i :
       <<Code(Item("shuffled_cards", i)),
         Implied(Item("shuffled_cards", i), "location", location)>>)

SomePlaces(s, list, n) == Many(n, LAMBDA i : Place4(Item(list, i), At(s, i)))

\* A move tells the code once, for both places, or for the only one.
MoveLayout(s) ==
  LET name(k, sub) == IF Nowhere \in {s.places[1], s.places[2]} THEN "card" ELSE sub
  IN  <<Value("moved code", In(name(1, "previous")), name(2, "current"), 4, 0)>>
      \o Place4(In(name(1, "previous")), s.places[1])
      \o Place4(In(name(2, "current")), s.places[2])
      \o <<Num(Msg, "core_reason", 4)>>

InformationLayout(s) ==
  CASE s.name = "MSG_WIN" -> <<Player("player"), Num(Msg, "reason", 1)>>
    [] s.name \in {"MSG_CONFIRM_DECKTOP", "MSG_CONFIRM_EXTRATOP"} ->
         <<Unused(1)>> \o Bare(s, 1, "cards", 1)
    [] s.name = "MSG_CONFIRM_CARDS" -> <<Unused(1)>> \o Bare(s, 1, "cards", 4)
    [] s.name = "MSG_SHUFFLE_DECK" ->
         <<Player("player"), Implied(Msg, "location", 1)>>
    [] s.name = "MSG_SHUFFLE_HAND" -> ShuffledCodes(s, 2)
    [] s.name = "MSG_SHUFFLE_EXTRA" -> ShuffledCodes(s, 64)
    [] s.name = "MSG_SWAP_GRAVE_DECK" -> <<Player("player")>>
    [] s.name = "MSG_SHUFFLE_SET_CARD" ->
         <<Unused(1), Const(<<"cards_previous", 0, "">>, "size", 1, Size(s, 1)),
           Implied(<<"cards_current", 0, "">>, "size", Size(s, 1))>>
         \o SomePlaces(s, "cards_previous", Size(s, 1))
         \o SomePlaces(s, "cards_current", Size(s, 1))
    [] s.name = "MSG_DECK_TOP" ->
         <<Num(In("previous"), "controller", 1), Num(In("previous"), "sequence", 1),
           Implied(In("previous"), "location", 1), Code(In("current"))>>
    [] s.name = "MSG_NEW_TURN" -> <<Player("turn_player")>>
    [] s.name = "MSG_NEW_PHASE" -> <<Num(Msg, "phase", 2)>>
    [] s.name = "MSG_MOVE" -> MoveLayout(s)
    [] s.name = "MSG_POS_CHANGE" ->
         <<Code(In("current"))>> \o Place3(In("previous"), 1)
         \o <<Num(In("previous"), "position", 1), Num(In("current"), "position", 1)>>
    [] s.name = "MSG_SET" ->
         <<Code(In("current"))>> \o Place3(In("previous"), 4)
         \o <<Num(In("current"), "position", 4)>>
    [] s.name = "MSG_SWAP" ->
         Card4(In("card1"), At(s, 1)) \o Card4(In("card2"), At(s, 2))
    [] s.name = "MSG_FIELD_DISABLED" -> Flag(s.zones) \o ZonePlaces(s.zones)
    [] s.name \in {"MSG_SUMMONING", "MSG_SPSUMMONING", "MSG_FLIPSUMMONING"} ->
         Card4(In("card"), At(s, 1))
    [] s.name \in {"MSG_CHAINED", "MSG_CHAIN_SOLVING", "MSG_CHAIN_SOLVED",
                   "MSG_CHAIN_NEGATED", "MSG_CHAIN_DISABLED"} ->
         <<Num(Msg, "chain_number", 1)>>
    [] s.name = "MSG_CHAINING" ->
         Card4(In("card"), At(s, 1)) \o Place3(In("place"), 4)
         \o <<Effect(In("ed")), Num(Msg, "chain_number", 4)>>
    [] s.name = "MSG_DRAW" ->
         <<Player("player"), Const(<<"cards", 0, "">>, "size", 4, Size(s, 1))>>
         \o Codes(Size(s, 1), "cards")
    [] s.name \in {"MSG_DAMAGE", "MSG_RECOVER", "MSG_LPUPDATE", "MSG_PAY_LPCOST"} ->
         <<Player("player"), Num(Msg, "amount", 4)>>
    [] s.name = "MSG_RANDOM_SELECTED" ->
         <<Unused(1), Const(<<"cards", 0, "">>, "size", 4, Size(s, 1))>>
         \o SomePlaces(s, "cards", Size(s, 1))
    [] s.name = "MSG_BECOME_TARGET" ->
         <<Const(<<"cards", 0, "">>, "size", 4, Size(s, 1))>>
         \o SomePlaces(s, "cards", Size(s, 1))
    [] s.name \in {"MSG_CARD_TARGET", "MSG_CANCEL_TARGET", "MSG_EQUIP"} ->
         <<Implied(<<"cards", 0, "">>, "size", 1)>>
         \o Place4(In("targeting_card"), At(s, 1)) \o Place4(Item("cards", 1), At(s, 2))
    [] s.name \in {"MSG_ADD_COUNTER", "MSG_REMOVE_COUNTER"} ->
         <<Num(In("counter"), "type", 2)>> \o Place3(In("place"), 1)
         \o <<Num(In("counter"), "count", 2)>>
    [] s.name = "MSG_ATTACK" ->
         Place4(In("attacker"), At(s, 1)) \o Place4(In("attack_target"), At(s, 2))
    [] s.name = "MSG_BATTLE" ->
         Fighter(s, 1, "attacker")
         \o IF At(s, 2) = Nowhere THEN <<Const(Msg, "", 18, 0), Unused(1)>>
            ELSE Fighter(s, 2, "attack_target")
    [] s.name \in {"MSG_TOSS_COIN", "MSG_TOSS_DICE"} ->
         <<Player("player")>> \o Values(s, "results", 1, 1)
    [] s.name = "MSG_HAND_RES" ->
         <<Const(Msg, "", 1, (s.sizes[1] + 1) + 4 * (s.sizes[2] + 1)),
           Implied(<<"results", 0, "">>, "size", 2),
           Implied(Item("results", 1), "value", s.sizes[1]),
           Implied(Item("results", 2), "value", s.sizes[2])>>
    [] s.name = "MSG_CARD_HINT" ->
         Place4(In("card"), At(s, 1)) \o <<Num(Msg, "type", 1), Num(Msg, "data", 8)>>
    [] s.name = "MSG_PLAYER_HINT" ->
         <<Player("player"), Num(Msg, "type", 1), Num(Msg, "data", 8)>>
    [] s.name = "MSG_TAG_SWAP" ->
         <<Player("player"), Num(Msg, "main_deck_count", 4),
           Const(<<"extra_cards", 0, "">>, "size", 4, Size(s, 2)), Unused(4),
           Const(<<"hand_cards", 0, "">>, "size", 4, Size(s, 1)), Code(In("decktop"))>>
         \o Codes(Size(s, 1), "hand_cards") \o Codes(Size(s, 2), "extra_cards")
    [] s.name = "MSG_MATCH_KILL" -> <<Num(Msg, "match_killer", 4)>>
    [] s.name = "MSG_HINT" ->
         <<Num(Msg, "type", 1), Value("bit", Msg, "", 1, 0), Num(Msg, "data", 8)>>
    [] s.name = "MSG_MISSED_EFFECT" ->
         Place4(In("card"), At(s, 1)) \o <<Code(In("card"))>>
    [] OTHER -> <<>>

----------------------------------------------------------------------------
(* Which message of the protocol stands for which message of the core, by the *)
(* comments of core_msg_information.proto and core_msg_request.proto.        *)

NoType == "not set"

RequestMeaning ==
  [MSG_SELECT_BATTLECMD |-> <<"select_cmd", "COMMAND_BATTLE">>,
   MSG_SELECT_IDLECMD |-> <<"select_cmd", "COMMAND_IDLE">>,
   MSG_SELECT_EFFECTYN |-> <<"select_yesno", NoType>>,
   MSG_SELECT_YESNO |-> <<"select_yesno", NoType>>,
   MSG_SELECT_OPTION |-> <<"select_option", NoType>>,
   MSG_SELECT_CARD |-> <<"select_cards", "SELECTION_EFFECT">>,
   MSG_SELECT_CHAIN |-> <<"select_to_chain", NoType>>,
   MSG_SELECT_PLACE |-> <<"select_places", NoType>>,
   MSG_SELECT_POSITION |-> <<"select_position", NoType>>,
   MSG_SELECT_TRIBUTE |-> <<"select_cards", "SELECTION_TRIBUTE">>,
   MSG_SORT_CHAIN |-> <<"sort_cards", NoType>>,
   MSG_SELECT_COUNTER |-> <<"select_cards", "SELECTION_COUNTER">>,
   MSG_SELECT_UNSELECT_CARD |-> <<"select_cards", "SELECTION_SELECT_UNSELECT">>,
   MSG_ROCK_PAPER_SCISSORS |-> <<"select_rps", NoType>>,
   MSG_ANNOUNCE_RACE |-> <<"declare_misc", "DECLARE_RACE">>,
   MSG_ANNOUNCE_ATTRIB |-> <<"declare_misc", "DECLARE_ATTRIBUTE">>,
   MSG_ANNOUNCE_CARD |-> <<"declare_card", NoType>>,
   MSG_ANNOUNCE_NUMBER |-> <<"declare_misc", "DECLARE_NUMBER">>,
   MSG_ANNOUNCE_CARD_FILTER |-> <<"declare_card", NoType>>]

SpecInformationMeaning ==
  [MSG_HINT |-> <<"hint", NoType>>,
   MSG_MISSED_EFFECT |-> <<"misc_action", "ACTION_MISSED_TIMING">>]

InformationMeaning ==
  [MSG_WIN |-> <<"win", NoType>>,
   MSG_CONFIRM_DECKTOP |-> <<"confirm_cards", "CONFIRM_DECKTOP">>,
   MSG_CONFIRM_CARDS |-> <<"confirm_cards", "CONFIRM_MULTIPLE">>,
   MSG_CONFIRM_EXTRATOP |-> <<"confirm_cards", "CONFIRM_EXTRATOP">>,
   MSG_SHUFFLE_DECK |-> <<"shuffle_location", NoType>>,
   MSG_SHUFFLE_HAND |-> <<"shuffle_location", NoType>>,
   MSG_SHUFFLE_EXTRA |-> <<"shuffle_location", NoType>>,
   MSG_SHUFFLE_SET_CARD |-> <<"shuffle_set_cards", NoType>>,
   MSG_DECK_TOP |-> <<"update_card", "REASON_DECK_TOP">>,
   MSG_POS_CHANGE |-> <<"update_card", "REASON_POS_CHANGE">>,
   MSG_SET |-> <<"update_card", "REASON_SET">>,
   MSG_SWAP |-> <<"swap_cards", NoType>>,
   MSG_NEW_TURN |-> <<"new_turn", NoType>>,
   MSG_NEW_PHASE |-> <<"new_phase", NoType>>,
   MSG_FIELD_DISABLED |-> <<"disable_zones", NoType>>,
   MSG_SUMMONING |-> <<"summon_card", "SUMMON_NORMAL">>,
   MSG_SUMMONED |-> <<"summon_card", "SUMMON_NORMAL">>,
   MSG_SPSUMMONING |-> <<"summon_card", "SUMMON_SPECIAL">>,
   MSG_SPSUMMONED |-> <<"summon_card", "SUMMON_SPECIAL">>,
   MSG_FLIPSUMMONING |-> <<"summon_card", "SUMMON_FLIP">>,
   MSG_FLIPSUMMONED |-> <<"summon_card", "SUMMON_FLIP">>,
   MSG_CHAINING |-> <<"chain_action", "ACTION_CHAINING">>,
   MSG_CHAINED |-> <<"chain_action", "ACTION_CHAINED">>,
   MSG_CHAIN_SOLVING |-> <<"chain_action", "ACTION_CHAIN_SOLVING">>,
   MSG_CHAIN_SOLVED |-> <<"chain_action", "ACTION_CHAIN_SOLVED">>,
   MSG_CHAIN_END |-> <<"chain_action", "ACTION_CHAIN_END">>,
   MSG_CHAIN_NEGATED |-> <<"chain_action", "ACTION_CHAIN_NEGATED">>,
   MSG_CHAIN_DISABLED |-> <<"chain_action", "ACTION_CHAIN_DISABLED">>,
   MSG_RANDOM_SELECTED |-> <<"selected_cards", "SELECTION_RANDOM">>,
   MSG_BECOME_TARGET |-> <<"selected_cards", "SELECTION_BECOME">>,
   MSG_EQUIP |-> <<"selected_cards", "SELECTION_CARD_EQUIP">>,
   MSG_CARD_TARGET |-> <<"selected_cards", "SELECTION_CARD_TARGET">>,
   MSG_CANCEL_TARGET |-> <<"selected_cards", "SELECTION_CARD_DETARGET">>,
   MSG_DRAW |-> <<"draw", NoType>>,
   MSG_DAMAGE |-> <<"lp_change", "CHANGE_DAMAGE">>,
   MSG_RECOVER |-> <<"lp_change", "CHANGE_RECOVER">>,
   MSG_LPUPDATE |-> <<"lp_change", "CHANGE_BECOME">>,
   MSG_PAY_LPCOST |-> <<"lp_change", "CHANGE_PAY">>,
   MSG_ADD_COUNTER |-> <<"counter_change", "CHANGE_ADD">>,
   MSG_REMOVE_COUNTER |-> <<"counter_change", "CHANGE_REMOVE">>,
   MSG_ATTACK |-> <<"on_attack", "STATUS_ATTACK_DECLARATION">>,
   MSG_BATTLE |-> <<"on_attack", "STATUS_ENTERING_BATTLE_STEP">>,
   MSG_TOSS_COIN |-> <<"result", "RESULT_TOSS_COIN">>,
   MSG_TOSS_DICE |-> <<"result", "RESULT_TOSS_DICE">>,
   MSG_HAND_RES |-> <<"result", "RESULT_RPS">>,
   MSG_ATTACK_DISABLED |-> <<"misc_action", "ACTION_ATTACK_NEGATED">>,
   MSG_DAMAGE_STEP_START |-> <<"misc_action", "ACTION_DAMAGE_STEP_START">>,
   MSG_DAMAGE_STEP_END |-> <<"misc_action", "ACTION_DAMAGE_STEP_END">>,
   MSG_SWAP_GRAVE_DECK |-> <<"misc_action", "ACTION_SWAP_GY_WITH_DECK">>,
   MSG_REVERSE_DECK |-> <<"misc_action", "ACTION_REVERSE_DECK">>,
   MSG_CARD_HINT |-> <<"card_hint", NoType>>,
   MSG_PLAYER_HINT |-> <<"player_hint", NoType>>,
   MSG_TAG_SWAP |-> <<"swap_player", NoType>>,
   MSG_MATCH_KILL |-> <<"match_killer", NoType>>]

\* The messages that the comments name; two have more than one meaning.
Documented ==
  DOMAIN RequestMeaning \cup DOMAIN SpecInformationMeaning
    \cup DOMAIN InformationMeaning \cup {"MSG_MOVE", "MSG_SELECT_SUM"}

----------------------------------------------------------------------------
(* The bytes of a message and the message they should become *)

SelectSumType(s) == IF s.bit = 1 THEN "SELECTION_SUM" ELSE "SELECTION_SUM_EXACTLY"

MoveMeaning(s) ==
  CASE s.places[1] = Nowhere -> <<"add_card", NoType>>
    [] s.places[2] = Nowhere -> <<"remove_card", NoType>>
    [] OTHER -> <<"update_card", "REASON_MOVE">>

Meaning(s) ==
  CASE s.name = "MSG_MOVE" -> MoveMeaning(s)
    [] s.name = "MSG_SELECT_SUM" -> <<"select_cards", SelectSumType(s)>>
    [] s.name \in DOMAIN RequestMeaning -> RequestMeaning[s.name]
    [] s.name \in DOMAIN SpecInformationMeaning -> SpecInformationMeaning[s.name]
    [] s.name \in DOMAIN InformationMeaning -> InformationMeaning[s.name]

Group(s) ==
  CASE s.name \in DOMAIN RequestMeaning \cup {"MSG_SELECT_SUM"} -> "request"
    [] s.name \in DOMAIN SpecInformationMeaning -> "specific information"
    [] OTHER -> "information"

Layout(s) == IF Group(s) = "request" THEN RequestLayout(s) ELSE InformationLayout(s)

\* The least significant byte first.
LittleEndian(n, width) ==
  [i \in 1 .. width |-> IF i > 4 THEN 0 ELSE (n \div 256 ^ (i - 1)) % 256]

CodeOfRank(rank) == 89631139 + rank
\* An effect's code may need all of its 32 bits, four of them a fifth byte.
EffectOfRank(rank, bit) == CodeOfRank(rank) + bit * 2 ^ 30

HalfByteUp(bytes, low) ==
  [i \in 1 .. Len(bytes) |->
     (IF i = 1 THEN low ELSE bytes[i - 1] \div 16) + 16 * (bytes[i] % 16)]

\* The bit is a code's last one; an effect is a string's number under a code.
BytesOf(value, rank, bit) ==
  CASE value.kind \in {"rank", "unused"} -> LittleEndian(rank, value.width)
    [] value.kind = "bit" -> <<bit>>
    [] value.kind = "fixed" -> LittleEndian(value.fixed, value.width)
    [] value.kind \in {"code", "moved code"} ->
         [LittleEndian(CodeOfRank(rank), 4) EXCEPT ![4] = @ + 128 * bit]
    [] value.kind = "effect" ->
         HalfByteUp(LittleEndian(EffectOfRank(rank, bit), 4) \o <<0, 0, 0, 0>>,
                    rank % 16)

Bytes(s) ==
  LET layout == Layout(s)
  IN  <<MsgNumber[s.name]>>
      \o (IF Group(s) = "request" THEN <<s.bit>> ELSE <<>>)
      \o FlattenSeq([rank \in DOMAIN layout |-> BytesOf(layout[rank], rank, s.bit)])

CodeFields(path, rank, bit) ==
  (Append(path, "code") :> CodeOfRank(rank)) @@ (Append(path, "bit") :> bit)

\* The fields that a value is meant for.
FieldsOfValue(value, rank, bit) ==
  LET path == value.path
      where == SubSeq(path, 1, 3)
  IN  CASE value.kind \in {"rank", "bit", "fixed"} /\ path[4] = "" -> <<>>
        [] value.kind = "unused" -> <<>>
        [] value.kind = "rank" -> path :> rank
        [] value.kind = "bit" -> path :> bit
        [] value.kind = "fixed" -> path :> value.fixed
        [] value.kind = "code" -> CodeFields(where, rank, bit)
        [] value.kind = "moved code" ->
             CodeFields(where, rank, bit)
             @@ CodeFields(<<"", 0, path[4]>>, rank, bit)
        [] value.kind = "effect" ->
             (Append(where, "code") :> EffectOfRank(rank, bit))
             @@ (Append(where, "string_id") :> rank % 16)

\* A field that is 0 is not there.
ToldFields(s) ==
  LET layout == Layout(s)
      all == FoldLeft(LAMBDA f, rank : FieldsOfValue(layout[rank], rank, s.bit) @@ f,
                      <<>>, [rank \in DOMAIN layout |-> rank])
  IN  [path \in {p \in DOMAIN all : all[p] # 0} |-> all[path]]

\* A request is for one player, and so is specific information, "Must always
\* have player set." (core_msg.proto:72), whether the buffer says whom or not.
ToldPlayer(s) == IF Group(s) = "information" THEN -1 ELSE s.bit

Told(s) ==
  [group |-> Group(s), player |-> ToldPlayer(s), kind |-> Meaning(s)[1],
   type |-> Meaning(s)[2], fields |-> ToldFields(s)]
=============================================================================
