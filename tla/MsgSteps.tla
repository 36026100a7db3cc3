------------------------------ MODULE MsgSteps -------------------------------
(***************************************************************************)
(* What MsgEncoder reads of each core message is written down as a format:    *)
(* the oneof member that the message becomes, its type or reason, and the    *)
(* steps in the order of the code (RequestFormats, InformationFormats).      *)
(* MsgCoder carries the steps out.                                           *)
(*                                                                          *)
(* A field of the message is <<list, at, sub, name>>: the field name of the   *)
(* sub-message sub of the at-th element of list, or of the message itself    *)
(* where list, at and sub are empty.                                         *)
(***************************************************************************)
EXTENDS Integers, Sequences

Format(kind, type, steps) == [kind |-> kind, type |-> type, steps |-> steps]

\* The type of a message that has none, or whose type nobody sets.
NotSet == "not set"

\* arg is the width that is read, or the value that is set.
Step(op, sub, name, arg) ==
  [op |-> op, sub |-> sub, name |-> name, arg |-> arg]

Skip(n) == Step("skip", "", "", n)
Read(sub, name, width) == Step("read", sub, name, width)
ReadBool(name) == Step("bool", "", name, 1)
ReadCode(sub) == Step("code", sub, "code", 4)
ReadEffect(sub) == Step("effect", sub, "effect", 8)
SetField(sub, name, value) == Step("set", sub, name, value)
ReadPlayer == Read("", "player", 1)

\* A value that is kept in a local variable.
Local(name, width) == Step("local", "", name, width)

\* The steps for each element of a list, as often as the local variable says.
Loop(list, count, steps) ==
  [op |-> "loop", list |-> list, count |-> count, steps |-> steps]
Once(list, steps) == Loop(list, "", steps)


\* Widths as in the template's arguments; 0 stands for void.
ReadInfoLoc(sub, seq, pos) ==
  <<Read(sub, "controller", 1), Read(sub, "location", 1),
    Read(sub, "sequence", seq)>>
  \o IF pos = 0 THEN <<>> ELSE <<Step("position", sub, "position", pos)>>

CoreInfoLoc(sub) == ReadInfoLoc(sub, 4, 4)

CardVector(list, seq, pos, postfix) ==
  <<Local("count", 4),
    Loop(list, "count",
         <<ReadCode("")>> \o ReadInfoLoc("", seq, pos) \o postfix)>>

CodeLoop(list, count, steps) == Loop(list, count, <<ReadCode("")>> \o steps)
=============================================================================
