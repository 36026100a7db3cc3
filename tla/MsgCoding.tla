------------------------------ MODULE MsgCoding ------------------------------
(***************************************************************************)
(* The core and one MsgEncoder: the core writes message after message, and    *)
(* the encoder, which lives as long as the duel, reads each.                 *)
(***************************************************************************)
EXTENDS MsgCoder
LOCAL INSTANCE SequencesExt

CONSTANTS
  Names,     \* the messages that the core sends
  Sizes,     \* lengths of the lists of a message, of every other one
  Zones,     \* the sets of zones that a message names
  Types      \* the types that a card may be announced from

Core == INSTANCE CoreBuffers

ASSUME CoderAssumption ==
  /\ Names \subseteq CoreMessages
  /\ Sizes \subseteq (0 .. 2) \X (0 .. 2)
  /\ Zones \subseteq SUBSET ((0 .. 31) \ {7, 23})
  /\ Types \subseteq 1 .. 7

VARIABLE sent     \* the message that the core sent last, and its bytes

codingVars == <<ib, lastMsg, sent>>

----------------------------------------------------------------------------
(* The samples of every message.  Where a message has no list, no place, no    *)
(* zones or no types, samples that differ in them are one message.           *)

\* One of the two cards of a move may be nowhere, and the target of an attack.
PlacesOf(name) ==
  LET some == {Core!Field, Core!Material}
  IN  (some \X some)
      \cup (IF name \in {"MSG_MOVE", "MSG_ATTACK", "MSG_BATTLE"}
            THEN some \X {Core!Nowhere} ELSE {})
      \cup (IF name = "MSG_MOVE" THEN {Core!Nowhere} \X some ELSE {})

ZoneMsgs == {"MSG_SELECT_PLACE", "MSG_FIELD_DISABLED"}

SamplesOf(name) ==
  [name : {name}, bit : 0 .. 1, sizes : Sizes, places : PlacesOf(name),
   zones : IF name \in ZoneMsgs THEN Zones ELSE {{}},
   types : IF name = "MSG_ANNOUNCE_CARD" THEN Types ELSE {0}]

Sent(s) == [name |-> s.name, bytes |-> Core!Bytes(s), told |-> Core!Told(s)]

\* Constant, so that TLC makes every message once.
Messages == [name \in Names |-> {Sent(s) : s \in SamplesOf(name)}]

Nothing == [name |-> "none", bytes |-> <<>>, told |-> EmptyMsg]

Init == CoderInit /\ sent = Nothing

Next ==
  \E name \in Names : \E message \in Messages[name] :
    /\ Encode(message.bytes)
    /\ sent' = message

Spec == Init /\ [][Next]_codingVars

----------------------------------------------------------------------------
(* What arrives *)

MaterialPositions(fields) ==
  {path \in DOMAIN fields :
     /\ path[4] = "position"
     /\ Field(fields, [path EXCEPT ![4] = "location"]) \div 128 = 1}

\* The filter of the cards that may be announced is the encoder's own.
Filter(fields) ==
  IF sent.name = "MSG_ANNOUNCE_CARD"
  THEN {path \in DOMAIN fields : path[1] = "opcodes"} ELSE {}

\* A message without the four things that have a property each: the filter
\* (AnnouncesTheTypes), the player of a missed effect (SpecificHasPlayer), the
\* status of a battle (BattleHasItsStatus) and the position of a material
\* (MaterialsAreFaceUp).
Plain(msg) ==
  LET kept == DOMAIN msg.fields
                \ (MaterialPositions(msg.fields) \cup Filter(msg.fields))
  IN  [msg EXCEPT
         !.player = IF sent.name = "MSG_MISSED_EFFECT" THEN NoPlayer ELSE @,
         !.type = IF sent.name = "MSG_BATTLE" THEN NotSet ELSE @,
         !.fields = [path \in kept |-> @[path]]]


\* Encode ends exactly at the end of the buffer.  Nothing in Buffer::read
\* (buffer.hpp:202) keeps a read from going past it.
ConsumesTheBuffer == Good(ib) /\ Eof(ib)

\* A filter in reverse Polish notation, run for a card of one type: a number is
\* pushed, ISTYPE replaces a type by whether the card has it, OR joins two.
Run(opcodes, type) ==
  LET has(t) == IF (t \div type) % 2 = 1 THEN 1 ELSE 0
      top(stack) == stack[Len(stack)]
      below(stack, n) == SubSeq(stack, 1, Len(stack) - n)
      step(stack, opcode) ==
        CASE opcode = OPCODE_ISTYPE /\ Len(stack) >= 1 ->
               Append(below(stack, 1), has(top(stack)))
          [] opcode = OPCODE_OR /\ Len(stack) >= 2 ->
               Append(below(stack, 2),
                      IF top(stack) # 0 \/ stack[Len(stack) - 1] # 0 THEN 1 ELSE 0)
          [] opcode \in {OPCODE_ISTYPE, OPCODE_OR} -> stack
          [] OTHER -> Append(stack, opcode)
  IN  FoldLeft(step, <<>>, opcodes)

Opcodes ==
  [i \in 1 .. Field(lastMsg.fields, SizeOf("opcodes")) |->
     Field(lastMsg.fields, <<"opcodes", i, "", "value">>)]

Accepts(type) == Opcodes = <<>> \/ Run(Opcodes, type) = <<1>>

\* A player who has to name a card may name one of a type if and only if the
\* core said so: the filter is made of the types by hand
\* (encoder_request_impl.hpp:234) and is run by whoever receives it.
AnnouncesTheTypes ==
  sent.name = "MSG_ANNOUNCE_CARD" =>
    \A type \in {1, 2, 4} :
      Accepts(type) <=> (Uint(SubSeq(sent.bytes, 3, 6)) \div type) % 2 = 1

\* A message for a specific player says which one (core_msg.proto:72, "Must
\* always have player set.").
SpecificHasPlayer ==
  lastMsg.group = "specific information" => lastMsg.player # NoPlayer

\* An OnAttack encapsulates two messages of the core, and its status tells
\* which of them it was (core_msg_information.proto:294-303): the declaration
\* or the battle that follows.
BattleHasItsStatus ==
  sent.name = "MSG_BATTLE" => lastMsg.type = "STATUS_ENTERING_BATTLE_STEP"

\* The position that the encoder makes up for a material is face-up attack, as
\* its comment has it (msg_encoder.cpp:90, enums/position.hpp:4).
MaterialsAreFaceUp ==
  \A path \in MaterialPositions(lastMsg.fields) :
    lastMsg.fields[path] = Core!POS_FACEUP_ATTACK
=============================================================================
