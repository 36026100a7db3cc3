----------------------------- MODULE DuelStream ------------------------------
(***************************************************************************)
(* The whole path: the core writes a buffer (CoreWire), the encoder makes a  *)
(* message of it (CoreEncoder), the client appends the message to its board  *)
(* and plays and rewinds it (DuelBoard, DuelReplay).                        *)
(***************************************************************************)
EXTENDS DuelReplay, CoreWire

Deliver ==
  /\ Len(msgs) < MaxMsgs
  /\ \E m \in CoreMsgs(Duel[Len(Duel)]), dirty \in {0, 1} :
       /\ OnTheWire(m)
       /\ AppendMsg(Encode(Wire(Duel[Len(Duel)], m, dirty)))
       /\ tables' = Append(Duel, Effect(Duel[Len(Duel)], m))
  /\ UNCHANGED frames

StreamNext == SetUp \/ Deliver \/ Play \/ PlayThrows \/ Rewind

StreamSpec == Init /\ [][StreamNext]_vars
----------------------------------------------------------------------------
(* Properties *)

\* The encoder loses nothing that the board needs: a board that is fed with
\* buffers does what one does that is told the messages of the core
\* themselves, so that all that DuelReplay promises holds of it
\* (codec/msg_encoder.cpp:228-248).
DeliversTheDuel == Spec

\* Whatever the duel has come to, every message that the core may send next
\* comes out of the encoder as it went in (codec/msg_encoder.cpp:228-248).
NothingIsGarbled ==
  LET t == Duel[Len(Duel)]
  IN  \A m \in CoreMsgs(t), dirty \in {0, 1} :
        OnTheWire(m) => Encode(Wire(t, m, dirty)) = m
=============================================================================
