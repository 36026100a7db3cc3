------------------------- MODULE InformationFormats --------------------------
(***************************************************************************)
(* The messages that ask nothing (codec/encoder_information_impl.hpp and     *)
(* codec/encoder_spec_information_impl.hpp).                                 *)
(***************************************************************************)
EXTENDS MsgSteps

----------------------------------------------------------------------------
(* The end of a duel, cards that are shown, shuffles *)

Win == Format("win", NotSet, <<ReadPlayer, Read("", "reason", 1)>>)

ConfirmCards(type, seq) ==
  Format("confirm_cards", type, <<Skip(1)>> \o CardVector("cards", seq, 0, <<>>))

ShuffleDeck ==
  Format("shuffle_location", NotSet,
    <<ReadPlayer, SetField("", "location", 1)>>)

ShuffleHand ==
  Format("shuffle_location", NotSet,
    <<ReadPlayer, SetField("", "location", 2), Local("count", 4),
      CodeLoop("shuffled_cards", "count", <<SetField("", "location", 2)>>)>>)

ShuffleExtra ==
  Format("shuffle_location", NotSet,
    <<ReadPlayer, SetField("", "location", 64), Local("count", 4),
      CodeLoop("shuffled_cards", "count", <<SetField("", "location", 64)>>)>>)

SwapGraveDeck ==
  Format("misc_action", "ACTION_SWAP_GY_WITH_DECK", <<ReadPlayer>>)

ShuffleSetCard ==
  Format("shuffle_set_cards", NotSet,
    <<Skip(1), Local("count", 1),
      Loop("cards_previous", "count", CoreInfoLoc("")),
      Loop("cards_current", "count", CoreInfoLoc(""))>>)

----------------------------------------------------------------------------
(* Cards and zones that change *)

DeckTop ==
  Format("update_card", "REASON_DECK_TOP",
    <<Read("previous", "controller", 1), Read("previous", "sequence", 1),
      SetField("previous", "location", 1), ReadCode("current")>>)

\* One card code for both places; Branch tells the three messages apart.
Move ==
  Format("update_card", "REASON_MOVE",
    <<Step("both codes", "", "code", 4)>>
    \o CoreInfoLoc("previous") \o CoreInfoLoc("current")
    \o <<Read("", "core_reason", 4)>>)

PosChange ==
  Format("update_card", "REASON_POS_CHANGE",
    <<ReadCode("current"), Read("previous", "controller", 1),
      Read("previous", "location", 1), Read("previous", "sequence", 1),
      Read("previous", "position", 1), Read("current", "position", 1)>>)

Set ==
  Format("update_card", "REASON_SET",
    <<ReadCode("current"), Read("previous", "controller", 1),
      Read("previous", "location", 1), Read("previous", "sequence", 4),
      Read("current", "position", 4)>>)

Swap ==
  Format("swap_cards", NotSet,
    <<ReadCode("card1")>> \o CoreInfoLoc("card1")
    \o <<ReadCode("card2")>> \o CoreInfoLoc("card2"))

\* The places follow from the flag (PlacesIn).
FieldDisabled == Format("disable_zones", NotSet, <<Local("flag", 4)>>)

CounterChange(type) ==
  Format("counter_change", type,
    <<Read("counter", "type", 2), Read("place", "controller", 1),
      Read("place", "location", 1), Read("place", "sequence", 1),
      Read("counter", "count", 2)>>)

Draw ==
  Format("draw", NotSet,
    <<ReadPlayer, Local("count", 4), CodeLoop("cards", "count", <<>>)>>)

TagSwap ==
  Format("swap_player", NotSet,
    <<ReadPlayer, Read("", "main_deck_count", 4), Local("extra", 4), Skip(4),
      Local("hand", 4), ReadCode("decktop"),
      CodeLoop("hand_cards", "hand", <<>>),
      CodeLoop("extra_cards", "extra", <<>>)>>)

LpChange(type) ==
  Format("lp_change", type, <<ReadPlayer, Read("", "amount", 4)>>)

NewTurn == Format("new_turn", NotSet, <<Read("", "turn_player", 1)>>)

NewPhase == Format("new_phase", NotSet, <<Read("", "phase", 2)>>)

----------------------------------------------------------------------------
(* Summons, chains, targets, attacks *)

Summoning(type) ==
  Format("summon_card", type, <<ReadCode("card")>> \o CoreInfoLoc("card"))

Summoned(type) == Format("summon_card", type, <<>>)

ChainAction(type) ==
  Format("chain_action", type, <<Read("", "chain_number", 1)>>)

Chaining ==
  Format("chain_action", "ACTION_CHAINING",
    <<ReadCode("card")>> \o CoreInfoLoc("card")
    \o <<Read("place", "controller", 1), Read("place", "location", 1),
         Read("place", "sequence", 4), ReadEffect("ed"),
         Read("", "chain_number", 4)>>)

ChainEnd == Format("chain_action", "ACTION_CHAIN_END", <<>>)

RandomSelected ==
  Format("selected_cards", "SELECTION_RANDOM",
    <<Skip(1), Local("count", 4), Loop("cards", "count", CoreInfoLoc(""))>>)

BecomeTarget ==
  Format("selected_cards", "SELECTION_BECOME",
    <<Local("count", 4), Loop("cards", "count", CoreInfoLoc(""))>>)

CardTarget(type) ==
  Format("selected_cards", type,
    CoreInfoLoc("targeting_card") \o <<Once("cards", CoreInfoLoc(""))>>)

\* An attack without a target: the target is cleared again (DirectAttack).
Attack ==
  Format("on_attack", "STATUS_ATTACK_DECLARATION",
    CoreInfoLoc("attacker") \o CoreInfoLoc("attack_target"))

\* Mutant: what tells whether the target was destroyed is not skipped.
BattleStopsEarly ==
  LET fighter(sub) ==
        CoreInfoLoc(sub) \o <<Read(sub, "atk", 4), Read(sub, "def", 4)>>
  IN  Format("on_attack", "STATUS_ATTACK_DECLARATION",
             fighter("attacker") \o <<Skip(1)>> \o fighter("attack_target"))

Battle ==
  LET fighter(sub) ==
        CoreInfoLoc(sub)
        \o <<Read(sub, "atk", 4), Read(sub, "def", 4), Skip(1)>>
  IN  Format("on_attack", "STATUS_ATTACK_DECLARATION",
             fighter("attacker") \o fighter("attack_target"))

MiscAction(type) == Format("misc_action", type, <<>>)

----------------------------------------------------------------------------
(* Results and hints *)

Toss(type) ==
  Format("result", type,
    <<ReadPlayer, Local("count", 1),
      Loop("results", "count", <<Read("", "value", 1)>>)>>)

\* The results follow from the two hands (Hands).
HandRes == Format("result", "RESULT_RPS", <<Local("hands", 1)>>)

CardHint ==
  Format("card_hint", NotSet,
    CoreInfoLoc("card") \o <<Read("", "type", 1), Read("", "data", 8)>>)

PlayerHint ==
  Format("player_hint", NotSet,
    <<ReadPlayer, Read("", "type", 1), Read("", "data", 8)>>)

MatchKill == Format("match_killer", NotSet, <<Read("", "match_killer", 4)>>)

InformationFormat ==
  [MSG_WIN |-> Win,
   MSG_CONFIRM_DECKTOP |-> ConfirmCards("CONFIRM_DECKTOP", 1),
   MSG_CONFIRM_CARDS |-> ConfirmCards("CONFIRM_MULTIPLE", 4),
   MSG_CONFIRM_EXTRATOP |-> ConfirmCards("CONFIRM_EXTRATOP", 1),
   MSG_SHUFFLE_DECK |-> ShuffleDeck,
   MSG_SHUFFLE_HAND |-> ShuffleHand,
   MSG_SHUFFLE_EXTRA |-> ShuffleExtra,
   MSG_SWAP_GRAVE_DECK |-> SwapGraveDeck,
   MSG_SHUFFLE_SET_CARD |-> ShuffleSetCard,
   MSG_DECK_TOP |-> DeckTop,
   MSG_NEW_TURN |-> NewTurn,
   MSG_NEW_PHASE |-> NewPhase,
   MSG_MOVE |-> Move,
   MSG_POS_CHANGE |-> PosChange,
   MSG_SET |-> Set,
   MSG_SWAP |-> Swap,
   MSG_FIELD_DISABLED |-> FieldDisabled,
   MSG_SUMMONING |-> Summoning("SUMMON_NORMAL"),
   MSG_SPSUMMONING |-> Summoning("SUMMON_SPECIAL"),
   MSG_FLIPSUMMONING |-> Summoning("SUMMON_FLIP"),
   MSG_SUMMONED |-> Summoned("SUMMON_NORMAL"),
   MSG_SPSUMMONED |-> Summoned("SUMMON_SPECIAL"),
   MSG_FLIPSUMMONED |-> Summoned("SUMMON_FLIP"),
   MSG_CHAINED |-> ChainAction("ACTION_CHAINED"),
   MSG_CHAIN_SOLVING |-> ChainAction("ACTION_CHAIN_SOLVING"),
   MSG_CHAIN_SOLVED |-> ChainAction("ACTION_CHAIN_SOLVED"),
   MSG_CHAIN_NEGATED |-> ChainAction("ACTION_CHAIN_NEGATED"),
   MSG_CHAIN_DISABLED |-> ChainAction("ACTION_CHAIN_DISABLED"),
   MSG_CHAINING |-> Chaining,
   MSG_CHAIN_END |-> ChainEnd,
   MSG_DRAW |-> Draw,
   MSG_DAMAGE |-> LpChange("CHANGE_DAMAGE"),
   MSG_RECOVER |-> LpChange("CHANGE_RECOVER"),
   MSG_LPUPDATE |-> LpChange("CHANGE_BECOME"),
   MSG_PAY_LPCOST |-> LpChange("CHANGE_PAY"),
   MSG_RANDOM_SELECTED |-> RandomSelected,
   MSG_BECOME_TARGET |-> BecomeTarget,
   MSG_CARD_TARGET |-> CardTarget("SELECTION_CARD_TARGET"),
   MSG_CANCEL_TARGET |-> CardTarget("SELECTION_CARD_DETARGET"),
   MSG_ADD_COUNTER |-> CounterChange("CHANGE_ADD"),
   MSG_REMOVE_COUNTER |-> CounterChange("CHANGE_REMOVE"),
   MSG_ATTACK |-> Attack,
   MSG_BATTLE |-> Battle,
   MSG_REVERSE_DECK |-> MiscAction("ACTION_REVERSE_DECK"),
   MSG_ATTACK_DISABLED |-> MiscAction("ACTION_ATTACK_NEGATED"),
   MSG_DAMAGE_STEP_START |-> MiscAction("ACTION_DAMAGE_STEP_START"),
   MSG_DAMAGE_STEP_END |-> MiscAction("ACTION_DAMAGE_STEP_END"),
   MSG_TOSS_COIN |-> Toss("RESULT_TOSS_COIN"),
   MSG_TOSS_DICE |-> Toss("RESULT_TOSS_DICE"),
   MSG_HAND_RES |-> HandRes,
   MSG_CARD_HINT |-> CardHint,
   MSG_PLAYER_HINT |-> PlayerHint,
   MSG_TAG_SWAP |-> TagSwap,
   MSG_MATCH_KILL |-> MatchKill]

----------------------------------------------------------------------------
(* Information for one player *)

ToPlayer == Step("to player", "", "player", 1)

Hint ==
  Format("hint", NotSet,
    <<Read("", "type", 1), ToPlayer, Read("", "data", 8)>>)

\* Nothing of this message says which player it is for.
MissedEffect ==
  Format("misc_action", "ACTION_MISSED_TIMING",
    CoreInfoLoc("card") \o <<ReadCode("card")>>)

SpecInformationFormat ==
  [MSG_HINT |-> Hint, MSG_MISSED_EFFECT |-> MissedEffect]

InformationMsgs == DOMAIN InformationFormat

SpecInformationMsgs == DOMAIN SpecInformationFormat
=============================================================================
