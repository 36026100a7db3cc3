----------------------------- MODULE MCMsgCoding -----------------------------
EXTENDS MsgCoding

\* All messages that the comments of the protocol name, but for the selection
\* whose type nobody sets and for MSG_EQUIP, which is in no map of the encoder.
AllNames == Core!Documented \ {"MSG_SELECT_UNSELECT_CARD", "MSG_EQUIP"}

AllSizes == (0 .. 2) \X (0 .. 2)
OneSize == {<<1, 1>>}

\* Every zone by itself, none, and all of them, without the pendulum zones, which
\* no message shows.
AllZones ==
  LET zones == (0 .. 6) \cup (8 .. 13) \cup (16 .. 22) \cup (24 .. 29)
  IN  {{zone} : zone \in zones} \cup {{}, zones}
PendulumZones == {{14}, {15}, {30}, {31}}
NoZones == {{}}
=============================================================================
