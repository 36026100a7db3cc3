--------------------------- MODULE RequestFormats ----------------------------
(***************************************************************************)
(* The requests to a player (codec/encoder_request_impl.hpp).  The player is  *)
(* read before the steps of the request, by MsgCoder's RequestMsg.           *)
(***************************************************************************)
EXTENDS MsgSteps

SelectBattleCmd ==
  Format("select_cmd", "COMMAND_BATTLE",
    CardVector("cards_w_effect", 4, 0, <<ReadEffect("effect_desc")>>)
    \o CardVector("cards_can_attack", 1, 0, <<ReadBool("can_attack_directly")>>)
    \o <<ReadBool("able_to_mp2"), ReadBool("able_to_ep")>>)

SelectIdleCmd ==
  Format("select_cmd", "COMMAND_IDLE",
    CardVector("cards_summonable", 4, 0, <<>>)
    \o CardVector("cards_spsummonable", 4, 0, <<>>)
    \o CardVector("cards_repositionable", 1, 0, <<>>)
    \o CardVector("cards_msetable", 4, 0, <<>>)
    \o CardVector("cards_ssetable", 4, 0, <<>>)
    \o CardVector("cards_w_effect", 4, 0, <<ReadEffect("effect_desc")>>)
    \o <<ReadBool("able_to_bp"), ReadBool("able_to_ep"), ReadBool("can_shuffle")>>)

SelectEffectYn ==
  Format("select_yesno", NotSet,
    <<ReadCode("card")>> \o CoreInfoLoc("card") \o <<ReadEffect("effect_desc")>>)

SelectYesNo == Format("select_yesno", NotSet, <<ReadEffect("effect")>>)

SelectOption ==
  Format("select_option", NotSet,
    <<Local("count", 1), Loop("effects", "count", <<ReadEffect("")>>)>>)

\* can_accept is set to false, which is what it is anyway.
MinMax == <<Read("", "min", 4), Read("", "max", 4)>>

SelectCard ==
  Format("select_cards", "SELECTION_EFFECT",
    <<ReadBool("can_cancel")>> \o MinMax
    \o CardVector("cards_selectable", 4, 4, <<>>))

SelectTribute ==
  Format("select_cards", "SELECTION_TRIBUTE",
    <<ReadBool("can_cancel")>> \o MinMax
    \o CardVector("cards_selectable", 4, 0, <<Read("", "tribute_count", 1)>>))

SelectCounter ==
  Format("select_cards", "SELECTION_COUNTER",
    <<Read("counter", "type", 2), Read("counter", "count", 2)>>
    \o CardVector("cards_selectable", 1, 0, <<Read("counter", "count", 2)>>))

\* The type follows from select_mode (SumType).
SelectSum ==
  Format("select_cards", NotSet,
    <<Local("select_mode", 1), Read("", "sum", 4)>> \o MinMax
    \o CardVector("cards_must_select", 4, 0, <<Read("", "sum_param", 4)>>)
    \o CardVector("cards_selectable", 4, 0, <<Read("", "sum_param", 4)>>))

\* Nobody sets the type: it is the first of its enumeration.
SelectUnselectCard ==
  Format("select_cards", "SELECTION_EFFECT",
    <<ReadBool("can_accept"), ReadBool("can_cancel")>> \o MinMax
    \o CardVector("cards_selectable", 4, 4, <<>>)
    \o CardVector("cards_unselectable", 4, 4, <<>>))

\* The count stands before the fields that the loop's place is after.
SelectChain ==
  Format("select_to_chain", NotSet,
    <<Local("count", 4), Skip(1), ReadBool("forced"), Skip(8),
      Loop("cards_w_effect", "count",
           <<Read("", "effect_desc_type", 1), ReadCode("card")>>
           \o CoreInfoLoc("card") \o <<ReadEffect("effect_desc")>>)>>)

\* The places follow from the flag (PlacesIn).
SelectPlace ==
  Format("select_places", NotSet, <<Read("", "min", 1), Local("flag", 4)>>)

SelectPosition ==
  Format("select_position", NotSet,
    <<ReadCode("card"), Read("card", "position", 1)>>)

SortChain ==
  Format("sort_cards", NotSet, CardVector("cards_to_sort", 4, 4, <<>>))

RockPaperScissors ==
  Format("select_rps", NotSet, <<SetField("", "select_rps", 1)>>)

Announce(type) ==
  Format("declare_misc", type,
    <<Read("", "count", 1), Once("available", <<Read("", "value", 4)>>)>>)

AnnounceNumber ==
  Format("declare_misc", "DECLARE_NUMBER",
    <<Local("count", 1), Loop("available", "count", <<Read("", "value", 8)>>)>>)

\* The operations follow from the types (TypeFilter).
AnnounceCard == Format("declare_card", NotSet, <<Local("types", 4)>>)

AnnounceCardFilter ==
  Format("declare_card", NotSet,
    <<Local("count", 1), Loop("opcodes", "count", <<Read("", "value", 8)>>)>>)

RequestFormat ==
  [MSG_SELECT_BATTLECMD |-> SelectBattleCmd,
   MSG_SELECT_IDLECMD |-> SelectIdleCmd,
   MSG_SELECT_EFFECTYN |-> SelectEffectYn,
   MSG_SELECT_YESNO |-> SelectYesNo,
   MSG_SELECT_OPTION |-> SelectOption,
   MSG_SELECT_CARD |-> SelectCard,
   MSG_SELECT_CHAIN |-> SelectChain,
   MSG_SELECT_PLACE |-> SelectPlace,
   MSG_SELECT_POSITION |-> SelectPosition,
   MSG_SELECT_TRIBUTE |-> SelectTribute,
   MSG_SORT_CHAIN |-> SortChain,
   MSG_SELECT_COUNTER |-> SelectCounter,
   MSG_SELECT_SUM |-> SelectSum,
   MSG_SELECT_UNSELECT_CARD |-> SelectUnselectCard,
   MSG_ROCK_PAPER_SCISSORS |-> RockPaperScissors,
   MSG_ANNOUNCE_RACE |-> Announce("DECLARE_RACE"),
   MSG_ANNOUNCE_ATTRIB |-> Announce("DECLARE_ATTRIBUTE"),
   MSG_ANNOUNCE_CARD |-> AnnounceCard,
   MSG_ANNOUNCE_NUMBER |-> AnnounceNumber,
   MSG_ANNOUNCE_CARD_FILTER |-> AnnounceCardFilter]

RequestMsgs == DOMAIN RequestFormat
=============================================================================
