---------------------------- MODULE ReplayProofs ------------------------------
(***************************************************************************)
(* The board mirrors the duel (MirrorsCore) and implements the timeline     *)
(* (ReplayIsTimeline), for all constants and all the messages that the      *)
(* board can take back (ReversibleKinds).  With blocked zones as well       *)
(* (FilmedKinds) it is the duel when it has caught up (LiveMirror), and its *)
(* recordings stay in step (HeadIsLast, CardCursorsInRange, TypeOK).        *)
(*                                                                          *)
(* The argument: a world is a board and its tempCards.  A film of the       *)
(* messages played is a world for every state, each linked to the next one: *)
(* redoing the message leads on and undoing it leads back (Link).  Stepping *)
(* moves along the film; a new message extends it by one world and makes    *)
(* the recordings of all earlier ones longer, which changes nothing that    *)
(* they show (Extends, ExtendFilm).  MirrorInv says that there is such a    *)
(* film, that it shows the duel's tables, and that the board is on it.  The *)
(* blocked zones are no part of the film: ZoneInv says what they show.      *)
(***************************************************************************)
EXTENDS BoardLemmas, ZoneProofs
LOCAL INSTANCE SequencesExt

----------------------------------------------------------------------------
(* Worlds: the cards on the board together with the ones in tempCards *)

WorldOf(b, t) == [board |-> b, temp |-> t]

TempOf(m, at) == TempPlace(at, m.place)

Adds(m) == m.type = "AddCard" /\ EditOf(m) \in Edits /\ EditOf(m).pos # KeepPos

Removes(m) == m.type = "RemoveCard"

FitsMsg(m, b) ==
  \/ FitsBoard(m, b)
  \/ Adds(m) /\ Room(b, m.place)
  \/ Removes(m) /\ Has(b, m.place)

AfterMsg(m, b) ==
  \/ AfterBoard(m, b)
  \/ Adds(m) /\ Has(b, m.place)
  \/ Removes(m) /\ Room(b, m.place)

\* A card that is to be added again waits in tempCards, one that is to be put
\* back too.
TempFits(m, at, t) ==
  /\ m.type = "AddCard" => TempOf(m, at) \in DOMAIN t
  /\ m.type = "RemoveCard" => TempOf(m, at) \notin DOMAIN t

TempAfter(m, at, t) ==
  /\ m.type = "AddCard" => TempOf(m, at) \notin DOMAIN t
  /\ m.type = "RemoveCard" => TempOf(m, at) \in DOMAIN t

Fresh(m, at, w) ==
  CASE m.type = "AddCard" ->
         WorldOf(InsertCard(w.board, m.place, Done(NewCard, EditOf(m))), w.temp)
    [] m.type = "RemoveCard" ->
         WorldOf(EraseCard(w.board, m.place),
                 PutKey(w.temp, TempOf(m, at), GetCard(w.board, m.place)))
    [] OTHER -> WorldOf(NewBoard(m, w.board), w.temp)

Redo(m, at, w) ==
  CASE m.type = "AddCard" ->
         WorldOf(InsertCard(w.board, m.place,
                            Redone(w.temp[TempOf(m, at)], EditOf(m))),
                 EraseKey(w.temp, TempOf(m, at)))
    [] m.type = "RemoveCard" ->
         WorldOf(EraseCard(w.board, m.place),
                 PutKey(w.temp, TempOf(m, at), GetCard(w.board, m.place)))
    [] OTHER -> WorldOf(RedoBoard(m, w.board), w.temp)

Undo(m, at, w) ==
  CASE m.type = "AddCard" ->
         WorldOf(EraseCard(w.board, m.place),
                 PutKey(w.temp, TempOf(m, at),
                        Undone(GetCard(w.board, m.place), EditOf(m))))
    [] m.type = "RemoveCard" ->
         WorldOf(InsertCard(w.board, m.place, w.temp[TempOf(m, at)]),
                 EraseKey(w.temp, TempOf(m, at)))
    [] OTHER -> WorldOf(UndoBoard(m, w.board), w.temp)

Plain(m, t) ==
  CASE m.type = "AddCard" ->
         InsertCard(t, m.place, PlainCard(EditOf(m).code, EditOf(m).pos))
    [] m.type = "RemoveCard" -> EraseCard(t, m.place)
    [] OTHER -> PlainBoard(m, t)

\* The cards that may wait: none shows a value that it does not have.
Steady == {c \in RecordedCards : InRange(c.code) /\ InRange(c.pos)}

TempOK(n, t) ==
  IsMap(t) /\ \A x \in DOMAIN t : x.state \in 0 .. n - 1 /\ t[x] \in Steady

IsWorld(n, w) ==
  w = WorldOf(w.board, w.temp) /\ AllRecorded(w.board) /\ TempOK(n, w.temp)

\* Longer recordings, and perhaps the cards of message n.
TempExtends(n, t, u) ==
  /\ DOMAIN t \subseteq DOMAIN u
  /\ \A x \in DOMAIN t : <<t[x], u[x]>> \in Extends
  /\ \A x \in DOMAIN u \ DOMAIN t : x.state = n /\ u[x] \in Steady

WorldExtends(n, w, v) ==
  Lifted(Extends, w.board, v.board) /\ TempExtends(n, w.temp, v.temp)

\* From w, message m leads to v and back.
Link(m, at, n, w, v) ==
  /\ IsWorld(n, w) /\ IsWorld(n, v)
  /\ FitsMsg(m, w.board) /\ TempFits(m, at, w.temp)
  /\ AfterMsg(m, v.board) /\ TempAfter(m, at, v.temp)
  /\ v = Redo(m, at, w) /\ w = Undo(m, at, v)

\* A world is a board and a map of waiting cards.
LEMMA WorldParts ==
  ASSUME NEW b, NEW t
  PROVE  WorldOf(b, t).board = b /\ WorldOf(b, t).temp = t
BY DEF WorldOf

\* A card that may wait still may when its recordings are longer.
LEMMA SteadyLonger ==
  ASSUME NEW c \in Steady, NEW d, <<c, d>> \in Extends
  PROVE  d \in Steady
<1>1. c \in RecordedCards /\ InRange(c.code) /\ InRange(c.pos)
  BY DEF Steady
<1>2. d \in RecordedCards /\ Longer(c.code, d.code) /\ Longer(c.pos, d.pos)
  BY DEF Extends
<1>3. InRange(d.code) /\ InRange(d.pos)
  BY <1>1, <1>2, CardForm, LongerShows
<1> QED
  BY <1>2, <1>3 DEF Steady

\* A new card may wait, and shows code 0 and position 0.
LEMMA NewCardSteady ==
  NewCard \in Steady /\ <<NewCard, PlainCard(0, 0)>> \in ShowsLast
<1> PICK s : NewSequential(0) = s
  OBVIOUS
<1>1. s = [vec |-> <<0>>, pos |-> 0]
  BY DEF NewSequential
<1>2. s \in SequentialOf(Nat) /\ InRange(s) /\ AtEnd(s) /\ Shown(s) = 0
  BY <1>1 DEF SequentialOf, InRange, AtEnd, Shown
<1> PICK c : NewCard = c
  OBVIOUS
<1>3. c = [code |-> s, pos |-> s, counters |-> EmptyMap]
  BY DEF NewCard
<1>4. c \in RecordedCards /\ c.code = s /\ c.pos = s
  BY <1>2, <1>3 DEF RecordedCards
<1> PICK p : PlainCard(0, 0) = p
  OBVIOUS
<1>5. p \in PlainCards /\ p.code = 0 /\ p.pos = 0
  BY DEF PlainCard, PlainCards
<1> QED
  BY <1>2, <1>4, <1>5 DEF Steady, ShowsLast, Shows

\* What fits is a message of the type, here with AddCard and RemoveCard.
LEMMA MsgTypes ==
  ASSUME NEW m, NEW b
  PROVE  /\ FitsBoard(m, b) \/ AfterBoard(m, b) => m.type \notin {"AddCard", "RemoveCard"}
         /\ FitsMsg(m, b) =>
              \/ m.type = "AddCard" /\ Adds(m) /\ Room(b, m.place)
              \/ m.type = "RemoveCard" /\ Has(b, m.place)
              \/ m.type \notin {"AddCard", "RemoveCard"} /\ FitsBoard(m, b)
         /\ AfterMsg(m, b) =>
              \/ m.type = "AddCard" /\ Adds(m) /\ Has(b, m.place)
              \/ m.type = "RemoveCard" /\ Room(b, m.place)
              \/ m.type \notin {"AddCard", "RemoveCard"} /\ AfterBoard(m, b)
<1>1. FitsBoard(m, b) \/ AfterBoard(m, b) => m.type \notin {"AddCard", "RemoveCard"}
  BY BoardTypes DEF FitsBoard, AfterBoard, CardMsgs
<1> QED
  BY <1>1 DEF FitsMsg, AfterMsg, Adds, Removes

----------------------------------------------------------------------------
(* tempCards as a message is new, undone and redone *)

\* A message that leaves tempCards alone.
LEMMA TempSame ==
  ASSUME NEW n \in Nat, NEW t, TempOK(n, t)
  PROVE  TempOK(n + 1, t) /\ TempExtends(n, t, t)
<1>1. ASSUME NEW x \in DOMAIN t
      PROVE  x.state \in 0 .. n /\ t[x] \in Steady /\ <<t[x], t[x]>> \in Extends
  <2> PICK c : t[x] = c
    OBVIOUS
  <2>1. c \in Steady /\ x.state \in 0 .. n
    BY DEF TempOK
  <2>2. <<c, c>> \in Extends
    <3>1. c \in RecordedCards
      BY <2>1 DEF Steady
    <3>2. [code |-> 0, pos |-> 0] \in Edits
      BY DEF Edits
    <3> QED
      BY <3>1, <3>2, StepCards
  <2> QED
    BY <2>1, <2>2
<1>2. n + 1 - 1 = n
  OBVIOUS
<1> QED
  BY <1>1, <1>2 DEF TempOK, TempExtends

\* A new message puts a card into tempCards, under a key nobody has used.
LEMMA TempNew ==
  ASSUME NEW n \in Nat, NEW t, TempOK(n, t), NEW x, x.state = n, NEW c \in Steady,
         NEW u, u = PutKey(t, x, c)
  PROVE  /\ x \notin DOMAIN t /\ x \in DOMAIN u
         /\ TempOK(n + 1, u) /\ TempExtends(n, t, u)
         /\ EraseKey(u, x) = t /\ u[x] = c
<1>1. x \notin DOMAIN t
  BY DEF TempOK
<1>2. IsMap(u) /\ DOMAIN u = DOMAIN t \cup {x} /\ u[x] = c
      /\ \A y \in DOMAIN t : u[y] = t[y]
  BY <1>1 DEF PutKey, IsMap
<1>3. TempOK(n + 1, t) /\ TempExtends(n, t, t)
  BY TempSame
<1>4. n + 1 - 1 = n /\ n \in 0 .. n
  OBVIOUS
<1>5. TempOK(n + 1, u)
  <2>1. ASSUME NEW y \in DOMAIN u
        PROVE  y.state \in 0 .. n /\ u[y] \in Steady
    BY <1>2, <1>3, <1>4 DEF TempOK
  <2> QED
    BY <1>2, <1>4, <2>1 DEF TempOK
<1>6. TempExtends(n, t, u)
  BY <1>2, <1>3 DEF TempExtends
<1>7. EraseKey(u, x) = t
  BY <1>1, ErasePut DEF TempOK
<1> QED
  BY <1>1, <1>2, <1>5, <1>6, <1>7

\* A message that was played before takes its card out of tempCards, or puts
\* it back, where later messages have cards of their own.
LEMMA TempOld ==
  ASSUME NEW n \in Nat, NEW t, NEW u, TempExtends(n, t, u), TempOK(n + 1, u),
         NEW x, x.state # n
  PROVE  /\ x \in DOMAIN t <=> x \in DOMAIN u
         /\ TempExtends(n, EraseKey(t, x), EraseKey(u, x))
         /\ TempOK(n + 1, EraseKey(u, x))
         /\ \A c, d : /\ <<c, d>> \in Extends /\ d \in Steady /\ x.state \in 0 .. n
                      => /\ TempExtends(n, PutKey(t, x, c), PutKey(u, x, d))
                         /\ TempOK(n + 1, PutKey(u, x, d))
<1>1. x \in DOMAIN t <=> x \in DOMAIN u
  BY DEF TempExtends
<1>2. TempExtends(n, EraseKey(t, x), EraseKey(u, x)) /\ TempOK(n + 1, EraseKey(u, x))
  BY DEF TempExtends, TempOK, EraseKey, IsMap
<1>3. ASSUME NEW c, NEW d, <<c, d>> \in Extends, d \in Steady, x.state \in 0 .. n
      PROVE  /\ TempExtends(n, PutKey(t, x, c), PutKey(u, x, d))
             /\ TempOK(n + 1, PutKey(u, x, d))
  <2> PICK p : PutKey(t, x, c) = p
    OBVIOUS
  <2> PICK q : PutKey(u, x, d) = q
    OBVIOUS
  <2>1. /\ DOMAIN p = DOMAIN t \cup {x} /\ p[x] = c
        /\ \A y \in DOMAIN t \ {x} : p[y] = t[y]
    BY DEF PutKey
  <2>2. /\ IsMap(q) /\ DOMAIN q = DOMAIN u \cup {x} /\ q[x] = d
        /\ \A y \in DOMAIN u \ {x} : q[y] = u[y]
    BY DEF PutKey, IsMap
  <2>3. n + 1 - 1 = n
    OBVIOUS
  <2>4. TempExtends(n, p, q)
    BY <1>3, <2>1, <2>2 DEF TempExtends
  <2>5. TempOK(n + 1, q)
    BY <1>3, <2>2, <2>3 DEF TempOK
  <2> QED
    BY <2>4, <2>5
<1> QED
  BY <1>1, <1>2, <1>3

----------------------------------------------------------------------------
(* A new message *)

\* A new message leads from a world, with perhaps longer recordings, to the
\* next one and back.
LEMMA NewLink ==
  ASSUME NEW n \in Nat, NEW w, IsWorld(n, w), NEW m, FitsMsg(m, w.board),
         NEW tab, Lifted(Shows, w.board, tab),
         NEW v, v = Fresh(m, n, w), NEW u, u = Undo(m, n, v)
  PROVE  Link(m, n, n + 1, u, v) /\ WorldExtends(n, w, u)
<1> PICK b : w.board = b
  OBVIOUS
<1> PICK t : w.temp = t
  OBVIOUS
<1> PICK x : TempOf(m, n) = x
  OBVIOUS
<1> PICK p : m.place = p
  OBVIOUS
<1> PICK e : EditOf(m) = e
  OBVIOUS
<1>0. AllRecorded(b) /\ TempOK(n, t) /\ x.state = n /\ IsBoard(b)
      /\ Lifted(Extends, b, b) /\ FitsMsg(m, b) /\ w = WorldOf(b, t)
  BY DEF IsWorld, AllRecorded, Lifted, TempOf, TempPlace
<1>t. TempOK(n + 1, t) /\ TempExtends(n, t, t)
  BY <1>0, TempSame
<1>1. CASE m.type = "AddCard"
  <2>1. e \in Edits /\ Room(b, p) /\ Adds(m)
    BY <1>0, <1>1, MsgTypes DEF Adds
  <2> PICK c : NewCard = c
    OBVIOUS
  <2> PICK c1 : Done(c, e) = c1
    OBVIOUS
  <2> PICK c0 : Undone(c1, e) = c0
    OBVIOUS
  <2> PICK d : InsertCard(b, p, c1) = d
    OBVIOUS
  <2>2. c \in Steady /\ c \in RecordedCards
    BY NewCardSteady DEF Steady
  <2>3. c1 \in RecordedCards /\ <<c1, c1>> \in Extends
        /\ <<c, c0>> \in Extends /\ Redone(c0, e) = c1
    <3>1. c1 \in RecordedCards /\ <<c, c0>> \in Extends
      BY <2>1, <2>2, StepCards
    <3>2. <<c1, c1>> \in Extends /\ Redone(c0, e) = c1
      BY <2>1, <3>1, StepCards
    <3> QED
      BY <3>1, <3>2
  <2>4. c0 \in Steady
    BY <2>2, <2>3, SteadyLonger
  <2>5. IsBoard(d) /\ Has(d, p) /\ GetCard(d, p) = c1 /\ EraseCard(d, p) = b
    BY <1>0, <2>1, BoardInserted
  <2>6. AllRecorded(d)
    BY <1>0, <2>1, <2>3, LiftedInsert DEF AllRecorded
  <2>7. v = WorldOf(d, t)
    BY <1>1 DEF Fresh
  <2> PICK t0 : PutKey(t, x, c0) = t0
    OBVIOUS
  <2>8. u = WorldOf(b, t0)
    BY <1>1, <2>5, <2>7, WorldParts DEF Undo
  <2>9. /\ x \notin DOMAIN t /\ x \in DOMAIN t0
        /\ TempOK(n + 1, t0) /\ TempExtends(n, t, t0)
        /\ EraseKey(t0, x) = t /\ t0[x] = c0
    BY <1>0, <2>4, TempNew
  <2>10. v.board = d /\ v.temp = t /\ u.board = b /\ u.temp = t0
    BY <2>7, <2>8, WorldParts
  <2>11. IsWorld(n + 1, v) /\ IsWorld(n + 1, u)
    BY <1>0, <1>t, <2>6, <2>7, <2>8, <2>9, <2>10 DEF IsWorld
  <2>12. v = Redo(m, n, u)
    BY <1>1, <2>3, <2>7, <2>9, <2>10 DEF Redo
  <2>13. /\ FitsMsg(m, u.board) /\ TempFits(m, n, u.temp)
         /\ AfterMsg(m, v.board) /\ TempAfter(m, n, v.temp)
    BY <1>0, <1>1, <2>1, <2>5, <2>9, <2>10 DEF AfterMsg, TempFits, TempAfter
  <2> QED
    BY <1>0, <2>9, <2>10, <2>11, <2>12, <2>13 DEF Link, WorldExtends
<1>2. CASE m.type = "RemoveCard"
  <2>1. Has(b, p)
    BY <1>0, <1>2, MsgTypes
  <2> PICK c : GetCard(b, p) = c
    OBVIOUS
  <2> PICK d : EraseCard(b, p) = d
    OBVIOUS
  <2>2. c \in Steady
    <3>1. <<c, GetCard(tab, p)>> \in Shows
      BY <2>1, LiftedAt
    <3> QED
      BY <3>1 DEF Shows, Steady
  <2>3. IsBoard(d) /\ Room(d, p) /\ InsertCard(d, p, c) = b
    BY <1>0, <2>1, BoardErased
  <2>4. AllRecorded(d)
    BY <1>0, <2>1, LiftedErase DEF AllRecorded
  <2> PICK t0 : PutKey(t, x, c) = t0
    OBVIOUS
  <2>5. v = WorldOf(d, t0)
    BY <1>2 DEF Fresh
  <2>6. /\ x \notin DOMAIN t /\ x \in DOMAIN t0
        /\ TempOK(n + 1, t0) /\ TempExtends(n, t, t0)
        /\ EraseKey(t0, x) = t /\ t0[x] = c
    BY <1>0, <2>2, TempNew
  <2>7. v.board = d /\ v.temp = t0
    BY <2>5, WorldParts
  <2>8. u = WorldOf(b, t)
    BY <1>2, <2>3, <2>6, <2>7 DEF Undo
  <2>9. u.board = b /\ u.temp = t
    BY <2>8, WorldParts
  <2>10. IsWorld(n + 1, v) /\ IsWorld(n + 1, u)
    BY <1>0, <1>t, <2>4, <2>5, <2>6, <2>7, <2>8, <2>9 DEF IsWorld
  <2>11. v = Redo(m, n, u)
    BY <1>2, <2>5, <2>9 DEF Redo
  <2>12. /\ FitsMsg(m, u.board) /\ TempFits(m, n, u.temp)
         /\ AfterMsg(m, v.board) /\ TempAfter(m, n, v.temp)
    BY <1>0, <1>2, <2>3, <2>6, <2>7, <2>9 DEF AfterMsg, TempFits, TempAfter, Removes
  <2> QED
    BY <1>0, <1>t, <2>9, <2>10, <2>11, <2>12 DEF Link, WorldExtends
<1>3. CASE m.type \notin {"AddCard", "RemoveCard"}
  <2>1. FitsBoard(m, b)
    BY <1>0, <1>3, MsgTypes
  <2> PICK d : NewBoard(m, b) = d
    OBVIOUS
  <2> PICK a : UndoBoard(m, d) = a
    OBVIOUS
  <2>2. AllRecorded(d) /\ AfterBoard(m, d) /\ Lifted(Extends, b, a)
    BY <1>0, <2>1, BoardNew
  <2>3. AllRecorded(a)
    BY <2>2, LiftedRecorded
  <2>4. FitsBoard(m, a) /\ RedoBoard(m, a) = d
    BY <2>2, BoardAgain
  <2>5. v = WorldOf(d, t) /\ v.board = d /\ v.temp = t
    BY <1>3, WorldParts DEF Fresh
  <2>6. u = WorldOf(a, t) /\ u.board = a /\ u.temp = t
    BY <1>3, <2>5, WorldParts DEF Undo
  <2>7. v = Redo(m, n, u)
    BY <1>3, <2>4, <2>5, <2>6 DEF Redo
  <2>8. IsWorld(n + 1, v) /\ IsWorld(n + 1, u)
    BY <1>t, <2>2, <2>3, <2>5, <2>6 DEF IsWorld
  <2>9. /\ FitsMsg(m, u.board) /\ TempFits(m, n, u.temp)
        /\ AfterMsg(m, v.board) /\ TempAfter(m, n, v.temp)
    BY <1>3, <2>2, <2>4, <2>5, <2>6 DEF FitsMsg, AfterMsg, TempFits, TempAfter
  <2> QED
    BY <1>t, <2>2, <2>6, <2>7, <2>8, <2>9 DEF Link, WorldExtends
<1> QED
  BY <1>1, <1>2, <1>3

\* A message that was played before, as later recordings get longer.
LEMMA OldLink ==
  ASSUME NEW n \in Nat, NEW at \in 0 .. n - 1, NEW m, NEW w, NEW v,
         Link(m, at, n, w, v), NEW v2, IsWorld(n + 1, v2), WorldExtends(n, v, v2),
         NEW w2, w2 = Undo(m, at, v2)
  PROVE  Link(m, at, n + 1, w2, v2) /\ WorldExtends(n, w, w2)
<1> PICK d : v.board = d
  OBVIOUS
<1> PICK t : v.temp = t
  OBVIOUS
<1> PICK d2 : v2.board = d2
  OBVIOUS
<1> PICK t2 : v2.temp = t2
  OBVIOUS
<1> PICK x : TempOf(m, at) = x
  OBVIOUS
<1> PICK p : m.place = p
  OBVIOUS
<1> PICK e : EditOf(m) = e
  OBVIOUS
<1>0. /\ AllRecorded(d) /\ AllRecorded(d2) /\ IsBoard(d) /\ IsBoard(d2)
      /\ TempOK(n, t) /\ TempOK(n + 1, t2)
      /\ x.state = at /\ x.state # n /\ x.state \in 0 .. n
      /\ Lifted(Extends, d, d2) /\ TempExtends(n, t, t2)
      /\ AfterMsg(m, d) /\ v = WorldOf(d, t) /\ v2 = WorldOf(d2, t2)
  BY DEF Link, IsWorld, AllRecorded, Lifted, TempOf, TempPlace, WorldExtends
<1>s. IsWorld(n, w) /\ w = Undo(m, at, v) /\ TempAfter(m, at, t) /\ TempFits(m, at, w.temp)
  BY DEF Link
<1>t. /\ x \in DOMAIN t <=> x \in DOMAIN t2
      /\ TempExtends(n, EraseKey(t, x), EraseKey(t2, x))
      /\ TempOK(n + 1, EraseKey(t2, x))
      /\ \A c, f : <<c, f>> \in Extends /\ f \in Steady
                   => /\ TempExtends(n, PutKey(t, x, c), PutKey(t2, x, f))
                      /\ TempOK(n + 1, PutKey(t2, x, f))
  BY <1>0, TempOld
<1>1. CASE m.type = "AddCard"
  <2>1. e \in Edits /\ Has(d, p) /\ Adds(m)
    BY <1>0, <1>1, MsgTypes DEF Adds
  <2> PICK c : GetCard(d, p) = c
    OBVIOUS
  <2> PICK c2 : GetCard(d2, p) = c2
    OBVIOUS
  <2> PICK b : EraseCard(d, p) = b
    OBVIOUS
  <2> PICK b2 : EraseCard(d2, p) = b2
    OBVIOUS
  <2>2. Has(d2, p) /\ <<c, c2>> \in Extends
    BY <1>0, <2>1, LiftedAt
  <2> PICK f : Undone(c, e) = f
    OBVIOUS
  <2> PICK f2 : Undone(c2, e) = f2
    OBVIOUS
  <2>3. <<f, f2>> \in Extends /\ c2 \in RecordedCards
    BY <2>1, <2>2, ExtendsFacts
  <2>4. Redone(f2, e) = c2
    BY <2>1, <2>3, StepCards
  <2>5. Lifted(Extends, b, b2) /\ IsBoard(b2) /\ Room(b2, p) /\ InsertCard(b2, p, c2) = d2
    BY <1>0, <2>1, <2>2, LiftedErase, BoardErased
  <2>6. AllRecorded(b2)
    BY <2>5, LiftedRecorded
  <2> PICK s : PutKey(t, x, f) = s
    OBVIOUS
  <2> PICK s2 : PutKey(t2, x, f2) = s2
    OBVIOUS
  <2>7. w = WorldOf(b, s) /\ w.board = b /\ w.temp = s
    BY <1>0, <1>s, <1>1, WorldParts DEF Undo
  <2>8. w2 = WorldOf(b2, s2) /\ w2.board = b2 /\ w2.temp = s2
    BY <1>0, <1>1, WorldParts DEF Undo
  <2>9. IsMap(t2) /\ x \notin DOMAIN t2
    BY <1>0, <1>s, <1>t, <1>1 DEF TempAfter, TempOK
  <2>10. x \in DOMAIN s /\ s[x] = f /\ x \in DOMAIN s2 /\ s2[x] = f2 /\ EraseKey(s2, x) = t2
    <3>1. x \in DOMAIN s /\ s[x] = f /\ x \in DOMAIN s2 /\ s2[x] = f2
      BY DEF PutKey
    <3> QED
      BY <2>9, <3>1, ErasePut
  <2>11. f2 \in Steady
    <3>1. f \in Steady
      BY <1>s, <2>7, <2>10 DEF IsWorld, TempOK
    <3> QED
      BY <2>3, <3>1, SteadyLonger
  <2>12. TempExtends(n, s, s2) /\ TempOK(n + 1, s2)
    BY <1>t, <2>3, <2>11
  <2>13. IsWorld(n + 1, w2)
    BY <2>6, <2>8, <2>12 DEF IsWorld
  <2>14. v2 = Redo(m, at, w2)
    BY <1>0, <1>1, <2>4, <2>5, <2>8, <2>10 DEF Redo
  <2>15. /\ FitsMsg(m, w2.board) /\ TempFits(m, at, w2.temp)
         /\ AfterMsg(m, v2.board) /\ TempAfter(m, at, v2.temp)
    BY <1>1, <2>1, <2>2, <2>5, <2>8, <2>9, <2>10
       DEF FitsMsg, AfterMsg, TempFits, TempAfter
  <2> QED
    BY <2>5, <2>7, <2>8, <2>12, <2>13, <2>14, <2>15 DEF Link, WorldExtends
<1>2. CASE m.type = "RemoveCard"
  <2>1. Room(d, p) /\ Room(d2, p)
    BY <1>0, <1>2, MsgTypes, LiftedRoom
  <2>2. x \in DOMAIN t /\ x \in DOMAIN t2
    BY <1>s, <1>t, <1>2 DEF TempAfter
  <2> PICK c : t[x] = c
    OBVIOUS
  <2> PICK c2 : t2[x] = c2
    OBVIOUS
  <2>3. <<c, c2>> \in Extends
    BY <1>0, <2>2 DEF TempExtends
  <2> PICK b : InsertCard(d, p, c) = b
    OBVIOUS
  <2> PICK b2 : InsertCard(d2, p, c2) = b2
    OBVIOUS
  <2>4. Lifted(Extends, b, b2)
    BY <1>0, <2>1, <2>3, LiftedInsert
  <2>5. Has(b2, p) /\ GetCard(b2, p) = c2 /\ EraseCard(b2, p) = d2
    BY <1>0, <2>1, BoardInserted
  <2> PICK s : EraseKey(t, x) = s
    OBVIOUS
  <2> PICK s2 : EraseKey(t2, x) = s2
    OBVIOUS
  <2>6. TempExtends(n, s, s2) /\ TempOK(n + 1, s2) /\ PutKey(s2, x, c2) = t2
        /\ x \notin DOMAIN s2
    <3>1. TempExtends(n, s, s2) /\ TempOK(n + 1, s2)
      BY <1>t
    <3>2. IsMap(t2)
      BY <1>0 DEF TempOK
    <3>3. PutKey(s2, x, c2) = t2
      BY <2>2, <3>2, PutErased
    <3>4. x \notin DOMAIN s2
      BY DEF EraseKey
    <3> QED
      BY <3>1, <3>3, <3>4
  <2>7. w = WorldOf(b, s) /\ w.board = b /\ w.temp = s
    BY <1>0, <1>s, <1>2, WorldParts DEF Undo
  <2>8. w2 = WorldOf(b2, s2) /\ w2.board = b2 /\ w2.temp = s2
    BY <1>0, <1>2, WorldParts DEF Undo
  <2>9. AllRecorded(b2)
    BY <2>4, LiftedRecorded
  <2>10. IsWorld(n + 1, w2)
    BY <2>6, <2>8, <2>9 DEF IsWorld
  <2>11. v2 = Redo(m, at, w2)
    BY <1>0, <1>2, <2>5, <2>6, <2>8 DEF Redo
  <2>12. /\ FitsMsg(m, w2.board) /\ TempFits(m, at, w2.temp)
         /\ AfterMsg(m, v2.board) /\ TempAfter(m, at, v2.temp)
    BY <1>2, <2>1, <2>2, <2>5, <2>6, <2>8
       DEF FitsMsg, AfterMsg, TempFits, TempAfter, Removes
  <2> QED
    BY <2>4, <2>6, <2>7, <2>8, <2>10, <2>11, <2>12 DEF Link, WorldExtends
<1>3. CASE m.type \notin {"AddCard", "RemoveCard"}
  <2>1. AfterBoard(m, d)
    BY <1>0, <1>3, MsgTypes
  <2> PICK b : UndoBoard(m, d) = b
    OBVIOUS
  <2> PICK b2 : UndoBoard(m, d2) = b2
    OBVIOUS
  <2>2. AfterBoard(m, d2) /\ Lifted(Extends, b, b2)
    BY <1>0, <2>1, BoardUndo
  <2>3. FitsBoard(m, b2) /\ RedoBoard(m, b2) = d2
    BY <1>0, <2>2, BoardAgain
  <2>4. AllRecorded(b2)
    BY <2>2, LiftedRecorded
  <2>5. w = WorldOf(b, t) /\ w.board = b /\ w.temp = t
    BY <1>0, <1>s, <1>3, WorldParts DEF Undo
  <2>6. w2 = WorldOf(b2, t2) /\ w2.board = b2 /\ w2.temp = t2
    BY <1>0, <1>3, WorldParts DEF Undo
  <2>7. IsWorld(n + 1, w2)
    BY <1>0, <2>4, <2>6 DEF IsWorld
  <2>8. v2 = Redo(m, at, w2)
    BY <1>0, <1>3, <2>3, <2>6 DEF Redo
  <2>9. /\ FitsMsg(m, w2.board) /\ TempFits(m, at, w2.temp)
        /\ AfterMsg(m, v2.board) /\ TempAfter(m, at, v2.temp)
    BY <1>3, <2>2, <2>3, <2>6 DEF FitsMsg, AfterMsg, TempFits, TempAfter
  <2> QED
    BY <1>0, <2>2, <2>5, <2>6, <2>7, <2>8, <2>9 DEF Link, WorldExtends
<1> QED
  BY <1>1, <1>2, <1>3

----------------------------------------------------------------------------
(* Films *)

\* If n is in S and S is closed under going down by one then S has all the
\* numbers up to n: induction over a set.
LEMMA Descent ==
  ASSUME NEW n \in Nat, NEW S, n \in S,
         \A i \in 0 .. n - 1 : i + 1 \in S => i \in S
  PROVE  0 .. n \subseteq S
<1> SUFFICES ASSUME NEW b \in 0 .. n, b \notin S
             PROVE  FALSE
  OBVIOUS
<1> DEFINE U == {i \in b .. n : i \notin S}
           V == U \ {b}
           f == [i \in U |-> i + 1]
<1>1. IsFiniteSet(b .. n)
  BY FS_Interval
<1>2. U \in SUBSET (b .. n) /\ V \in SUBSET U /\ b \in U /\ V # U
  OBVIOUS
<1>3. f \in [U -> V]
  <2> SUFFICES ASSUME NEW i \in U
               PROVE  i + 1 \in V
    OBVIOUS
  <2>1. i # n /\ i \in 0 .. n - 1
    OBVIOUS
  <2> QED
    BY <2>1
<1>4. \A x, y \in U : f[x] = f[y] => x = y
  OBVIOUS
<1> HIDE DEF U, V, f
<1>5. IsFiniteSet(U)
  BY <1>1, <1>2, FS_Subset
<1>6. /\ IsFiniteSet(V) /\ Cardinality(V) <= Cardinality(U)
      /\ Cardinality(V) # Cardinality(U)
  BY <1>2, <1>5, FS_Subset
<1>7. Cardinality(U) \in Nat /\ Cardinality(V) \in Nat
  BY <1>5, <1>6, FS_CardinalityType
<1>8. Cardinality(V) < Cardinality(U)
  BY <1>6, <1>7
<1> QED
  BY <1>3, <1>4, <1>5, <1>6, <1>8, FS_PigeonHole

\* H[i] is the world after i of the n messages that were played.
IsFilm(H, n, ms) ==
  /\ \A i \in 0 .. n : IsWorld(n, H[i])
  /\ \A i \in 0 .. n - 1 : Link(ms[i + 1], i, n, H[i], H[i + 1])

\* The new message is the last one of the film; all the worlds before it get
\* longer recordings.
LEMMA ExtendFilm ==
  ASSUME NEW n \in Nat, NEW H, NEW ms, IsFilm(H, n, ms),
         FitsMsg(ms[n + 1], H[n].board),
         NEW tab, Lifted(Shows, H[n].board, tab),
         NEW v, v = Fresh(ms[n + 1], n, H[n])
  PROVE  \E G : /\ IsFilm(G, n + 1, ms) /\ G[n + 1] = v
                /\ \A i \in 0 .. n : WorldExtends(n, H[i], G[i])
<1> DEFINE Upto(i, G) ==
             /\ G[n + 1] = v
             /\ \A j \in i .. n :
                  /\ Link(ms[j + 1], j, n + 1, G[j], G[j + 1])
                  /\ WorldExtends(n, H[j], G[j])
           S == {i \in 0 .. n : \E G : Upto(i, G)}
<1>1. n \in S
  <2> PICK m : ms[n + 1] = m
    OBVIOUS
  <2> PICK w : H[n] = w
    OBVIOUS
  <2> PICK u : Undo(m, n, v) = u
    OBVIOUS
  <2>1. IsWorld(n, w)
    BY DEF IsFilm
  <2>2. Link(m, n, n + 1, u, v) /\ WorldExtends(n, w, u)
    BY <2>1, NewLink
  <2> DEFINE F == [j \in n .. n + 1 |-> IF j = n THEN u ELSE v]
  <2>3. F[n] = u /\ F[n + 1] = v
    OBVIOUS
  <2> HIDE DEF F
  <2>4. \A j \in n .. n : j = n
    OBVIOUS
  <2>5. Upto(n, F)
    BY <2>2, <2>3, <2>4
  <2> QED
    BY <2>5
<1>2. ASSUME NEW i \in 0 .. n - 1, i + 1 \in S
      PROVE  i \in S
  <2> PICK G : Upto(i + 1, G)
    BY <1>2
  <2> PICK m : ms[i + 1] = m
    OBVIOUS
  <2> PICK w2 : Undo(m, i, G[i + 1]) = w2
    OBVIOUS
  <2>1. i + 1 \in i + 1 .. n /\ i \in 0 .. n /\ i + 1 \in 0 .. n
    OBVIOUS
  <2>2. Link(ms[i + 2], i + 1, n + 1, G[i + 1], G[i + 2]) /\ WorldExtends(n, H[i + 1], G[i + 1])
    BY <2>1
  <2>3. IsWorld(n + 1, G[i + 1])
    BY <2>2 DEF Link
  <2>4. Link(m, i, n, H[i], H[i + 1])
    BY DEF IsFilm
  <2>5. Link(m, i, n + 1, w2, G[i + 1]) /\ WorldExtends(n, H[i], w2)
    BY <2>2, <2>3, <2>4, OldLink
  <2> DEFINE F == [j \in i .. n + 1 |-> IF j = i THEN w2 ELSE G[j]]
  <2>6. F[i] = w2 /\ \A j \in i + 1 .. n + 1 : F[j] = G[j]
    OBVIOUS
  <2> HIDE DEF F
  <2>7. F[n + 1] = v
    BY <2>6
  <2>8. ASSUME NEW j \in i .. n
        PROVE  Link(ms[j + 1], j, n + 1, F[j], F[j + 1]) /\ WorldExtends(n, H[j], F[j])
    <3>1. CASE j = i
      BY <2>1, <2>5, <2>6, <3>1
    <3>2. CASE j # i
      <4>1. j \in i + 1 .. n /\ j \in i + 1 .. n + 1 /\ j + 1 \in i + 1 .. n + 1
        BY <3>2
      <4>2. F[j] = G[j] /\ F[j + 1] = G[j + 1]
        BY <2>6, <4>1
      <4>3. Link(ms[j + 1], j, n + 1, G[j], G[j + 1]) /\ WorldExtends(n, H[j], G[j])
        BY <4>1
      <4> QED
        BY <4>2, <4>3
    <3> QED
      BY <3>1, <3>2
  <2>9. Upto(i, F)
    BY <2>7, <2>8
  <2> QED
    BY <2>1, <2>9
<1>3. 0 .. n \subseteq S
  <2> HIDE DEF S
  <2> QED
    BY <1>1, <1>2, Descent
<1>4. PICK G : Upto(0, G)
  <2>1. 0 \in 0 .. n
    OBVIOUS
  <2> QED
    BY <1>3, <2>1
<1>5. ASSUME NEW i \in 0 .. n + 1
      PROVE  IsWorld(n + 1, G[i])
  <2>1. CASE i \in 0 .. n
    <3>1. Link(ms[i + 1], i, n + 1, G[i], G[i + 1])
      BY <1>4, <2>1
    <3> QED
      BY <3>1 DEF Link
  <2>2. CASE i = n + 1
    <3>1. n \in 0 .. n
      OBVIOUS
    <3>2. Link(ms[n + 1], n, n + 1, G[n], G[n + 1])
      BY <1>4, <3>1
    <3> QED
      BY <2>2, <3>2 DEF Link
  <2> QED
    BY <2>1, <2>2
<1>6. \A i \in 0 .. n : Link(ms[i + 1], i, n + 1, G[i], G[i + 1]) /\ WorldExtends(n, H[i], G[i])
  BY <1>4
<1>7. n + 1 - 1 = n /\ G[n + 1] = v
  BY <1>4
<1> HIDE DEF Upto
<1>8. IsFilm(G, n + 1, ms)
  BY <1>5, <1>6, <1>7 DEF IsFilm
<1> QED
  BY <1>6, <1>7, <1>8

\* A longer recording shows what it showed.
LEMMA LiftedShows ==
  ASSUME NEW b, NEW d, Lifted(Extends, b, d), NEW t, Lifted(Shows, b, t)
  PROVE  Lifted(Shows, d, t)
<1>1. ASSUME NEW con \in Players, NEW loc \in PileLocations
      PROVE  SeqLifted(Shows, d.piles[con][loc], t.piles[con][loc])
  <2> PICK s : b.piles[con][loc] = s
    OBVIOUS
  <2> PICK r : d.piles[con][loc] = r
    OBVIOUS
  <2> PICK q : t.piles[con][loc] = q
    OBVIOUS
  <2>1. SeqLifted(Extends, s, r) /\ SeqLifted(Shows, s, q)
    BY DEF Lifted
  <2>2. ASSUME NEW i \in 1 .. Len(r)
        PROVE  <<r[i], q[i]>> \in Shows
    <3>1. <<s[i], r[i]>> \in Extends /\ <<s[i], q[i]>> \in Shows
      BY <2>1, <2>2 DEF SeqLifted
    <3> QED
      BY <3>1, ExtendsFacts
  <2> QED
    BY <2>1, <2>2 DEF SeqLifted
<1>2. ASSUME NEW p \in DOMAIN d.zones
      PROVE  <<d.zones[p], t.zones[p]>> \in Shows
  BY ExtendsFacts DEF Lifted
<1> QED
  BY <1>1, <1>2 DEF Lifted

\* A card on its last value shows it.
LEMMA LastShows ==
  ASSUME NEW b, NEW t, Lifted(ShowsLast, b, t)
  PROVE  Lifted(Shows, b, t) /\ AllRecorded(b)
<1>0. \A c, p : <<c, p>> \in ShowsLast => <<c, p>> \in Shows /\ <<c, c>> \in Extends
  <2> SUFFICES ASSUME NEW c, NEW p, <<c, p>> \in ShowsLast
               PROVE  <<c, p>> \in Shows /\ <<c, c>> \in Extends
    OBVIOUS
  <2>1. <<c, p>> \in Shows /\ c \in RecordedCards
    BY DEF ShowsLast, Shows
  <2>2. [code |-> 0, pos |-> 0] \in Edits
    BY DEF Edits
  <2> QED
    BY <2>1, <2>2, StepCards
<1>1. ASSUME NEW con \in Players, NEW loc \in PileLocations
      PROVE  /\ SeqLifted(Shows, b.piles[con][loc], t.piles[con][loc])
             /\ SeqLifted(Extends, b.piles[con][loc], b.piles[con][loc])
  BY <1>0 DEF Lifted, SeqLifted
<1>2. ASSUME NEW p \in DOMAIN b.zones
      PROVE  <<b.zones[p], t.zones[p]>> \in Shows /\ <<b.zones[p], b.zones[p]>> \in Extends
  BY <1>0 DEF Lifted
<1> QED
  BY <1>1, <1>2 DEF Lifted, AllRecorded

----------------------------------------------------------------------------
(* What the handlers do to a card *)

Stepped(card, e, adv, rt) ==
  IF e.pos = KeepPos THEN StepCode(card, adv, rt, e.code)
                     ELSE StepCard(card, adv, rt, e.code, e.pos)

\* The three ways in which a handler steps a card are Done, Redone, Undone.
LEMMA SteppedIs ==
  ASSUME NEW c \in RecordedCards, NEW e \in Edits
  PROVE  /\ Stepped(c, e, TRUE, TRUE) = Done(c, e)
         /\ Stepped(c, e, TRUE, FALSE) = Redone(c, e)
         /\ \A rt : Stepped(c, e, FALSE, rt) = Undone(c, e)
<1>1. c = [code |-> c.code, pos |-> c.pos, counters |-> EmptyMap]
      /\ c.code = [vec |-> c.code.vec, pos |-> c.code.pos]
      /\ c.pos = [vec |-> c.pos.vec, pos |-> c.pos.pos]
  BY CardForm DEF SequentialOf
<1> PICK k : c.code = k
  OBVIOUS
<1> PICK l : c.pos = l
  OBVIOUS
<1>2. /\ Onward(k) = [vec |-> k.vec, pos |-> k.pos + 1]
      /\ Onward(l) = [vec |-> l.vec, pos |-> l.pos + 1]
  BY <1>1 DEF Onward
<1>5. Stepped(c, e, TRUE, TRUE) = Done(c, e)
  <2> PICK x : Grown(k, e.code) = x
    OBVIOUS
  <2> PICK y : Grown(l, e.pos) = y
    OBVIOUS
  <2> PICK d : StepCode(c, TRUE, TRUE, e.code) = d
    OBVIOUS
  <2> PICK f : StepCard(c, TRUE, TRUE, e.code, e.pos) = f
    OBVIOUS
  <2>1. d = [c EXCEPT !.code = x]
    BY DEF StepCode, Step, AddOrNext, Grown
  <2>2. f = [c EXCEPT !.code = x, !.pos = y]
    BY DEF StepCard, Step, AddOrNext, Grown
  <2>3. d = [code |-> x, pos |-> l, counters |-> EmptyMap]
    BY <2>1 DEF RecordedCards
  <2>4. f = [code |-> x, pos |-> y, counters |-> EmptyMap]
    BY <2>2 DEF RecordedCards
  <2> QED
    BY <1>2, <2>3, <2>4 DEF Stepped, Done
<1>6. Stepped(c, e, TRUE, FALSE) = Redone(c, e)
  <2> PICK x : [vec |-> k.vec, pos |-> k.pos + 1] = x
    OBVIOUS
  <2> PICK y : [vec |-> l.vec, pos |-> l.pos + 1] = y
    OBVIOUS
  <2> PICK d : StepCode(c, TRUE, FALSE, e.code) = d
    OBVIOUS
  <2> PICK f : StepCard(c, TRUE, FALSE, e.code, e.pos) = f
    OBVIOUS
  <2>1. d = [c EXCEPT !.code = x]
    BY DEF StepCode, Step, AddOrNext
  <2>2. f = [c EXCEPT !.code = x, !.pos = y]
    BY DEF StepCard, Step, AddOrNext
  <2>3. d = [code |-> x, pos |-> l, counters |-> EmptyMap]
    BY <2>1 DEF RecordedCards
  <2>4. f = [code |-> x, pos |-> y, counters |-> EmptyMap]
    BY <2>2 DEF RecordedCards
  <2> QED
    BY <1>2, <2>3, <2>4 DEF Stepped, Redone
<1>7. ASSUME NEW rt
      PROVE  Stepped(c, e, FALSE, rt) = Undone(c, e)
  <2> PICK x : Prev(k) = x
    OBVIOUS
  <2> PICK y : Prev(l) = y
    OBVIOUS
  <2> PICK d : StepCode(c, FALSE, rt, e.code) = d
    OBVIOUS
  <2> PICK f : StepCard(c, FALSE, rt, e.code, e.pos) = f
    OBVIOUS
  <2>1. d = [c EXCEPT !.code = x]
    BY DEF StepCode, Step
  <2>2. f = [c EXCEPT !.code = x, !.pos = y]
    BY DEF StepCard, Step
  <2>3. d = [code |-> x, pos |-> l, counters |-> EmptyMap]
    BY <2>1 DEF RecordedCards
  <2>4. f = [code |-> x, pos |-> y, counters |-> EmptyMap]
    BY <2>2 DEF RecordedCards
  <2> QED
    BY <1>2, <2>3, <2>4 DEF Stepped, Undone
<1> QED
  BY <1>5, <1>6, <1>7

\* A card without counters has none to clear (board.hpp:357-370).
LEMMA ClearNothing ==
  ASSUME NEW c \in RecordedCards, NEW adv, NEW rt
  PROVE  ClearAllCounters(c, adv, rt) = c
<1>1. c = [code |-> c.code, pos |-> c.pos, counters |-> EmptyMap]
  BY CardForm
<1>2. [type \in DOMAIN EmptyMap |-> Step(EmptyMap[type], adv, rt, 0)] = EmptyMap
  BY DEF EmptyMap
<1> QED
  BY <1>1, <1>2 DEF ClearAllCounters

----------------------------------------------------------------------------
(* UpdateCard *)

\* A card that is changed where it is.
LEMMA SteppedAt ==
  ASSUME NEW b, IsBoard(b), NEW p, Has(b, p), NEW code, NEW position, position # KeepPos,
         NEW adv, NEW rt
  PROVE  StepAt(b, p, adv, rt, code, position) =
           Relocated(b, p, p,
             Stepped(GetCard(b, p), [code |-> code, pos |-> position], adv, rt))
<1> PICK c : StepCard(GetCard(b, p), adv, rt, code, position) = c
  OBVIOUS
<1>1. Stepped(GetCard(b, p), [code |-> code, pos |-> position], adv, rt) = c
  BY DEF Stepped
<1>2. StepAt(b, p, adv, rt, code, position) = SetCard(b, p, c)
  BY DEF StepAt
<1> QED
  BY <1>1, <1>2, SetIsInsert DEF Relocated

\* The card on top of a pile gets a new code.
LEMMA SteppedTop ==
  ASSUME NEW b, IsBoard(b), NEW m, IsUpdate(m), m.reason = "DECK_TOP",
         Has(b, TopOf(b, m.previous)), NEW adv, NEW rt
  PROVE  StepDeckTop(b, m, adv, rt) =
           Relocated(b, TopOf(b, m.previous), TopOf(b, m.previous),
             Stepped(GetCard(b, TopOf(b, m.previous)), EditOf(m), adv, rt))
<1> PICK p : TopOf(b, m.previous) = p
  OBVIOUS
<1> PICK s : GetPile(b, m.previous) = s
  OBVIOUS
<1>1. /\ PilePlace(m.previous) /\ m.previous.seq = 0
      /\ EditOf(m) = [code |-> m.code, pos |-> KeepPos]
  BY DEF IsUpdate, EditOf
<1>2. /\ p.con = m.previous.con /\ p.loc = m.previous.loc /\ IsPile(p)
      /\ p.seq = Len(s) - 1
  BY <1>1 DEF TopOf, Place, PilePlace, IsPile
<1>3. GetPile(b, p) = s /\ IsSeq(s)
  BY <1>1, <1>2 DEF GetPile, PilePlace, IsBoard
<1>4. Len(s) \in Nat /\ DOMAIN s = 1 .. Len(s)
  BY <1>3, SeqIsFunction
<1> PICK k \in Nat : Len(s) = k
  BY <1>4
<1>5. p.seq + 1 = k /\ k \in DOMAIN s
  BY <1>2, <1>3, <1>4 DEF Has
<1> PICK c : StepCode(s[k], adv, rt, m.code) = c
  OBVIOUS
<1>6. GetCard(b, p) = s[k]
  BY <1>2, <1>3, <1>5 DEF GetCard
<1>7. Stepped(GetCard(b, p), EditOf(m), adv, rt) = c
  BY <1>1, <1>6 DEF Stepped
<1> PICK r : ReplaceAt(s, k, c) = r
  OBVIOUS
<1>8. SetCard(b, p, c) = PutPile(b, p, r)
  BY <1>2, <1>3, <1>5 DEF SetCard
<1>9. StepDeckTop(b, m, adv, rt) = PutPile(b, m.previous, r)
  <2>1. Len(s) + m.previous.seq = k
    BY <1>1
  <2> QED
    BY <1>5, <2>1 DEF StepDeckTop
<1>10. PutPile(b, m.previous, r) = PutPile(b, p, r)
  BY <1>2 DEF PutPile
<1> QED
  BY <1>7, <1>8, <1>9, <1>10, SetIsInsert DEF Relocated

\* A move between two containers has one outcome: emplacing and erasing are
\* of different vectors (board.hpp:298-333).
LEMMA MovedSingle ==
  ASSUME NEW b, AllRecorded(b), NEW p, Has(b, p), NEW q, ~SamePile(p, q), NEW adv, NEW rt
  PROVE  MoveSingle(b, p, q, adv, rt) = {Relocated(b, p, q, GetCard(b, p))}
<1> PICK c \in RecordedCards : GetCard(b, p) = c
  BY RecordedAt
<1>1. ClearAllCounters(c, adv, rt) = c
  BY ClearNothing
<1> QED
  BY <1>1 DEF MoveSingle, Relocated

\* A flag that is set, in a form that the provers do not look into.
Raised(flag) == flag

\* What HandleUpdateCard does when it advances (board.hpp:376-428).
LEMMA UpdateForward ==
  ASSUME NEW b, AllRecorded(b), NEW m, NEW adv, Raised(adv), NEW rt, FitsUpdate(m, b)
  PROVE  UpdateCard(b, m, adv, rt) =
           {Relocated(b, From(m, b), To(m, b),
                      Stepped(GetCard(b, From(m, b)), EditOf(m), adv, rt))}
<1> PICK e : EditOf(m) = e
  OBVIOUS
<1>1. /\ IsUpdate(m) /\ IsBoard(b) /\ e \in Edits /\ m.reason \in UpdateReasons
      /\ Has(b, From(m, b)) /\ Room(EraseCard(b, From(m, b)), To(m, b))
  BY DEF FitsUpdate, Movable, IsUpdate, AllRecorded, Lifted
<1>2. CASE m.reason = "MOVE"
  <2> PICK p : m.previous = p
    OBVIOUS
  <2> PICK q : m.current = q
    OBVIOUS
  <2>1. From(m, b) = p /\ To(m, b) = q /\ ~SamePile(p, q)
    BY <1>1, <1>2 DEF From, To, IsUpdate
  <2>2. e = [code |-> m.code, pos |-> m.position] /\ m.position # KeepPos
    BY <1>1, <1>2 DEF EditOf, IsUpdate
  <2> PICK x : GetCard(b, p) = x
    OBVIOUS
  <2> PICK b1 : EraseCard(b, p) = b1
    OBVIOUS
  <2> PICK c : InsertCard(b1, q, x) = c
    OBVIOUS
  <2>3. MoveSingle(b, p, q, adv, rt) = {c}
    BY <1>1, <2>1, MovedSingle DEF Relocated
  <2>4. IsBoard(b1) /\ Room(b1, q)
    BY <1>1, <2>1, BoardErased
  <2>5. GetCard(c, q) = x /\ \A y : SetCard(c, q, y) = InsertCard(b1, q, y)
    BY <2>4, BoardInserted
  <2> PICK y : Stepped(x, e, adv, rt) = y
    OBVIOUS
  <2>6. StepCard(x, adv, rt, m.code, m.position) = y
    BY <2>2 DEF Stepped
  <2>7. StepAt(c, q, adv, rt, m.code, m.position) = InsertCard(b1, q, y)
    BY <2>5, <2>6 DEF StepAt
  <2>8. UpdateCard(b, m, adv, rt) =
          {StepAt(d, q, adv, rt, m.code, m.position) : d \in MoveSingle(b, p, q, adv, rt)}
    BY <1>2, Zenon DEF UpdateCard, Raised
  <2> QED
    BY <2>1, <2>3, <2>7, <2>8 DEF Relocated
<1>3. CASE m.reason = "DECK_TOP"
  <2>1. From(m, b) = TopOf(b, m.previous) /\ To(m, b) = TopOf(b, m.previous)
    BY <1>3 DEF From, To
  <2>2. UpdateCard(b, m, adv, rt) = {StepDeckTop(b, m, adv, rt)}
    BY <1>3 DEF UpdateCard
  <2>3. Has(b, TopOf(b, m.previous))
    BY <1>1, <2>1
  <2> QED
    BY <1>1, <1>3, <2>1, <2>2, <2>3, SteppedTop
<1>4. CASE m.reason \notin {"MOVE", "DECK_TOP"}
  <2> PICK p : m.previous = p
    OBVIOUS
  <2>1. From(m, b) = p /\ To(m, b) = p
    BY <1>4 DEF From, To
  <2>2. e = [code |-> m.code, pos |-> m.position] /\ m.position # KeepPos
    BY <1>1, <1>4 DEF EditOf, IsUpdate
  <2>3. UpdateCard(b, m, adv, rt) = {StepAt(b, p, adv, rt, m.code, m.position)}
    BY <1>4 DEF UpdateCard
  <2>4. Has(b, p)
    BY <1>1, <2>1
  <2> QED
    BY <1>1, <2>1, <2>2, <2>3, <2>4, SteppedAt
<1> QED
  BY <1>2, <1>3, <1>4

\* What it does when it goes back.
LEMMA UpdateBackward ==
  ASSUME NEW b, AllRecorded(b), NEW m, NEW rt, AfterUpdate(m, b), NEW adv, ~adv,
         \A c \in RecordedCards, f \in Edits : Stepped(c, f, adv, rt) = Undone(c, f)
  PROVE  UpdateCard(b, m, adv, rt) = {UndoUpdate(m, b)}
<1> PICK e : EditOf(m) = e
  OBVIOUS
<1> PICK q : To(m, b) = q
  OBVIOUS
<1> PICK p : From(m, b) = p
  OBVIOUS
<1> PICK x \in RecordedCards : GetCard(b, q) = x
  BY RecordedAt DEF AfterUpdate, Movable
<1> PICK y : Undone(x, e) = y
  OBVIOUS
<1>1. /\ IsUpdate(m) /\ IsBoard(b) /\ e \in Edits /\ m.reason \in UpdateReasons
      /\ Has(b, q) /\ Room(EraseCard(b, q), p)
  BY DEF AfterUpdate, Movable, IsUpdate, AllRecorded, Lifted
<1>2. Stepped(x, e, adv, rt) = y
  BY <1>1
<1>3. UndoUpdate(m, b) = Relocated(b, q, p, y)
  BY DEF UndoUpdate
<1>4. CASE m.reason = "MOVE"
  <2>1. p = m.previous /\ q = m.current /\ ~SamePile(q, p)
    BY <1>1, <1>4 DEF From, To, IsUpdate, SamePile
  <2>2. e = [code |-> m.code, pos |-> m.position] /\ m.position # KeepPos
    BY <1>1, <1>4 DEF EditOf, IsUpdate
  <2> PICK b1 : EraseCard(b, q) = b1
    OBVIOUS
  <2> PICK c : InsertCard(b1, q, y) = c
    OBVIOUS
  <2>3. StepCard(x, adv, rt, m.code, m.position) = y
    BY <1>2, <2>2 DEF Stepped
  <2>4. SetCard(b, q, y) = c
    BY <1>1, SetIsInsert
  <2>5. StepAt(b, q, adv, rt, m.code, m.position) = c
    BY <2>3, <2>4 DEF StepAt
  <2>6. IsBoard(b1) /\ Room(b1, q) /\ Lifted(Extends, b1, b1)
    BY <1>1, BoardErased, LiftedErase DEF AllRecorded
  <2>7. /\ GetCard(c, q) = y /\ Has(c, q) /\ EraseCard(c, q) = b1
    BY <2>6, BoardInserted
  <2>8. <<y, y>> \in Extends
    BY <1>1, StepCards
  <2>9. AllRecorded(c)
    BY <2>6, <2>8, LiftedInsert DEF AllRecorded
  <2>10. MoveSingle(c, q, p, adv, rt) = {InsertCard(b1, p, y)}
    BY <2>1, <2>7, <2>9, MovedSingle DEF Relocated
  <2>11. UpdateCard(b, m, adv, rt) = {InsertCard(b1, p, y)}
    BY <1>4, <2>1, <2>5, <2>10 DEF UpdateCard
  <2> QED
    BY <1>3, <2>11 DEF Relocated
<1>5. CASE m.reason = "DECK_TOP"
  <2>1. p = TopOf(b, m.previous) /\ q = p
    BY <1>5 DEF From, To
  <2>2. UpdateCard(b, m, adv, rt) = {StepDeckTop(b, m, adv, rt)}
    BY <1>5 DEF UpdateCard
  <2>3. StepDeckTop(b, m, adv, rt) = Relocated(b, p, p, Stepped(GetCard(b, p), e, adv, rt))
    BY <1>1, <1>5, <2>1, SteppedTop
  <2> QED
    BY <1>2, <1>3, <2>1, <2>2, <2>3
<1>6. CASE m.reason \notin {"MOVE", "DECK_TOP"}
  <2>1. p = m.previous /\ q = p
    BY <1>6 DEF From, To
  <2>2. e = [code |-> m.code, pos |-> m.position] /\ m.position # KeepPos
    BY <1>1, <1>6 DEF EditOf, IsUpdate
  <2>3. UpdateCard(b, m, adv, rt) = {StepAt(b, p, adv, rt, m.code, m.position)}
    BY <1>6, <2>1 DEF UpdateCard
  <2>4. StepAt(b, p, adv, rt, m.code, m.position) = Relocated(b, p, p, Stepped(GetCard(b, p), e, adv, rt))
    BY <1>1, <2>1, <2>2, SteppedAt
  <2> QED
    BY <1>2, <1>3, <2>1, <2>3, <2>4
<1> QED
  BY <1>4, <1>5, <1>6

\* The handler is NewUpdate, RedoUpdate and UndoUpdate.
LEMMA UpdateSteps ==
  ASSUME NEW b, AllRecorded(b), NEW m
  PROVE  /\ FitsUpdate(m, b) =>
              /\ UpdateCard(b, m, TRUE, TRUE) = {NewUpdate(m, b)}
              /\ UpdateCard(b, m, TRUE, FALSE) = {RedoUpdate(m, b)}
         /\ AfterUpdate(m, b) => UpdateCard(b, m, FALSE, FALSE) = {UndoUpdate(m, b)}
<1>1. ASSUME FitsUpdate(m, b)
      PROVE  /\ UpdateCard(b, m, TRUE, TRUE) = {NewUpdate(m, b)}
             /\ UpdateCard(b, m, TRUE, FALSE) = {RedoUpdate(m, b)}
  <2> PICK e \in Edits : EditOf(m) = e
    BY <1>1 DEF FitsUpdate, IsUpdate
  <2> PICK p : From(m, b) = p
    OBVIOUS
  <2> PICK x \in RecordedCards : GetCard(b, p) = x
    BY <1>1, RecordedAt DEF FitsUpdate, Movable
  <2>1. Stepped(x, e, TRUE, TRUE) = Done(x, e) /\ Stepped(x, e, TRUE, FALSE) = Redone(x, e)
    BY SteppedIs
  <2>0. Raised(TRUE)
    BY DEF Raised
  <2>2. UpdateCard(b, m, TRUE, TRUE) = {Relocated(b, p, To(m, b), Stepped(x, e, TRUE, TRUE))}
    BY <1>1, <2>0, UpdateForward, Zenon
  <2>3. UpdateCard(b, m, TRUE, FALSE) = {Relocated(b, p, To(m, b), Stepped(x, e, TRUE, FALSE))}
    BY <1>1, <2>0, UpdateForward, Zenon
  <2> QED
    BY <2>1, <2>2, <2>3 DEF NewUpdate, RedoUpdate
<1>2. ASSUME AfterUpdate(m, b)
      PROVE  UpdateCard(b, m, FALSE, FALSE) = {UndoUpdate(m, b)}
  <2>1. \A c \in RecordedCards, f \in Edits : Stepped(c, f, FALSE, FALSE) = Undone(c, f)
    BY SteppedIs
  <2> QED
    BY <1>2, <2>1, UpdateBackward, Zenon
<1> QED
  BY <1>1, <1>2

SteppedAll(s, e, adv, rt) == [i \in DOMAIN s |-> Stepped(s[i], e[i], adv, rt)]

\* Stepping a sequence is DoneAll, RedoneAll and UndoneAll.
LEMMA SteppedAllIs ==
  ASSUME NEW s, SeqLifted(Extends, s, s), NEW e, \A i \in 1 .. Len(s) : e[i] \in Edits
  PROVE  /\ SteppedAll(s, e, TRUE, TRUE) = DoneAll(s, e)
         /\ SteppedAll(s, e, TRUE, FALSE) = RedoneAll(s, e)
         /\ SteppedAll(s, e, FALSE, FALSE) = UndoneAll(s, e)
<1>1. DOMAIN s = 1 .. Len(s)
  BY SeqIsFunction DEF SeqLifted
<1>2. ASSUME NEW i \in DOMAIN s
      PROVE  /\ Stepped(s[i], e[i], TRUE, TRUE) = Done(s[i], e[i])
             /\ Stepped(s[i], e[i], TRUE, FALSE) = Redone(s[i], e[i])
             /\ Stepped(s[i], e[i], FALSE, FALSE) = Undone(s[i], e[i])
  <2> PICK c : s[i] = c
    OBVIOUS
  <2> PICK f \in Edits : e[i] = f
    BY <1>1
  <2>1. <<c, c>> \in Extends
    BY <1>1 DEF SeqLifted
  <2>2. c \in RecordedCards
    BY <2>1 DEF Extends
  <2> QED
    BY <2>2, SteppedIs
<1> QED
  BY <1>2, Zenon DEF SteppedAll, DoneAll, RedoneAll, UndoneAll

Coded(cards, codes, adv, rt) ==
  [i \in 1 .. Len(codes) |-> StepCode(cards[i], adv, rt, codes[i])]

\* A sequence whose cards get codes.
LEMMA CodedAll ==
  ASSUME NEW s, IsSeq(s), NEW codes, AreCodes(codes), Len(s) = Len(codes),
         NEW adv, NEW rt
  PROVE  Coded(s, codes, adv, rt) =
           SteppedAll(s, CodeEdits(codes), adv, rt)
<1> PICK e : CodeEdits(codes) = e
  OBVIOUS
<1>1. DOMAIN s = 1 .. Len(codes)
  BY SeqIsFunction
<1>2. \A i \in DOMAIN s : e[i] = [code |-> codes[i], pos |-> KeepPos]
  BY <1>1 DEF CodeEdits
<1>3. ASSUME NEW i \in DOMAIN s
      PROVE  Stepped(s[i], e[i], adv, rt) = StepCode(s[i], adv, rt, codes[i])
  <2> PICK f : e[i] = f
    OBVIOUS
  <2> PICK k : codes[i] = k
    OBVIOUS
  <2>1. f = [code |-> k, pos |-> KeepPos]
    BY <1>2
  <2>2. f.code = k /\ f.pos = KeepPos
    BY <2>1
  <2> QED
    BY <2>2 DEF Stepped
<1> QED
  BY <1>1, <1>3, Zenon DEF SteppedAll, Coded

PileWith(ps, con, loc, s) == [ps EXCEPT ![con][loc] = s]

\* The piles with one replaced, as DuelBoard writes it.
LEMMA PilesExcept ==
  ASSUME NEW b, IsBoard(b), NEW p, PilePlace(p), NEW s, IsSeq(s),
         NEW pp, pp = PileWith(b.piles, p.con, p.loc, s)
  PROVE  [piles |-> pp, zones |-> b.zones] = PutPile(b, p, s)
<1> PICK d : PutPile(b, p, s) = d
  OBVIOUS
<1> PICK c : [piles |-> pp, zones |-> b.zones] = c
  OBVIOUS
<1>1. b = [piles |-> b.piles, zones |-> b.zones]
  BY DEF IsBoard
<1>2. d = [b EXCEPT !.piles[p.con][p.loc] = s]
  BY DEF PutPile
<1>3. d = [piles |-> [b.piles EXCEPT ![p.con][p.loc] = s], zones |-> b.zones]
  BY <1>1, <1>2
<1> QED
  BY <1>3 DEF PileWith

\* The two piles of a draw.
DrawnPiles(ps, pl, s, t) == [ps EXCEPT ![pl]["DECK"] = s, ![pl]["HAND"] = t]

\* The piles with deck and hand replaced, as DuelBoard writes it.
LEMMA TwoPilesExcept ==
  ASSUME NEW b, IsBoard(b), NEW pl \in Players, NEW s, IsSeq(s), NEW t, IsSeq(t),
         NEW p, p = Place(pl, "DECK", 0), NEW q, q = Place(pl, "HAND", 0),
         NEW pp, pp = DrawnPiles(b.piles, pl, s, t)
  PROVE  [piles |-> pp, zones |-> b.zones] = TwoPiles(b, p, q, s, t)
<1>0. pp = [b.piles EXCEPT ![pl]["DECK"] = s, ![pl]["HAND"] = t]
  BY DEF DrawnPiles
<1> PICK d : TwoPiles(b, p, q, s, t) = d
  OBVIOUS
<1> PICK c : [piles |-> pp, zones |-> b.zones] = c
  OBVIOUS
<1>1. PilePlace(p) /\ PilePlace(q) /\ ~SamePile(p, q)
      /\ p.con = pl /\ p.loc = "DECK" /\ q.con = pl /\ q.loc = "HAND"
  BY DEF PilePlace, Place, IsPile, SamePile, PileLocations, FieldLocations
<1>2. /\ IsBoard(d) /\ d.zones = b.zones
      /\ \A con \in Players, loc \in PileLocations :
           d.piles[con][loc] = IF con = q.con /\ loc = q.loc THEN t
                               ELSE IF con = p.con /\ loc = p.loc THEN s ELSE b.piles[con][loc]
  BY <1>1, TwoPut
<1>3. b.piles = [con \in Players |-> [loc \in PileLocations |-> b.piles[con][loc]]]
  BY DEF IsBoard
<1>4. \A con \in Players, loc \in PileLocations :
        pp[con][loc] = IF con = pl /\ loc = "HAND" THEN t
                       ELSE IF con = pl /\ loc = "DECK" THEN s ELSE b.piles[con][loc]
  BY <1>0, <1>3 DEF PileLocations
<1>5. pp = [con \in Players |-> [loc \in PileLocations |-> pp[con][loc]]]
  <2>1. DOMAIN pp = Players /\ pp = [con \in Players |-> pp[con]]
    BY <1>0, <1>3
  <2>2. \A con \in Players : pp[con] = [loc \in PileLocations |-> pp[con][loc]]
    BY <1>0, <1>3
  <2> QED
    BY <2>1, <2>2
<1>6. c = [piles |-> pp, zones |-> b.zones] /\ c.piles = pp /\ c.zones = b.zones
  OBVIOUS
<1>7. IsMap(b.zones) /\ \A x \in DOMAIN b.zones : ~IsPile(x)
  BY DEF IsBoard
<1>8. \A con \in Players, loc \in PileLocations : IsSeq(pp[con][loc])
  BY <1>4 DEF IsBoard
<1>9. IsBoard(c)
  BY <1>5, <1>6, <1>7, <1>8 DEF IsBoard
<1>10. \A con \in Players, loc \in PileLocations : c.piles[con][loc] = d.piles[con][loc]
  BY <1>1, <1>2, <1>4, <1>6
<1> QED
  BY <1>2, <1>6, <1>9, <1>10, SameBoard


\* What HandleDraw does when it advances.
LEMMA DrawForward ==
  ASSUME NEW m, NEW adv, Raised(adv), NEW rt, HandleDraw(m, adv, rt),
         NEW b, Cards = b, AllRecorded(b), FitsDraw(m, b),
         NEW s, GetPile(b, DeckOf(m)) = s, NEW t, GetPile(b, HandOf(m)) = t,
         NEW n, Len(m.codes) = n
  PROVE  /\ tempCards' = tempCards
         /\ Cards' = TwoPiles(b, DeckOf(m), HandOf(m), WithoutTop(s, n),
                      t \o SteppedAll(TopCards(s, n), CodeEdits(m.codes), adv, rt))
<1> PICK pl : m.player = pl
  OBVIOUS
<1> PICK p : DeckOf(m) = p
  OBVIOUS
<1> PICK q : HandOf(m) = q
  OBVIOUS
<1> PICK codes : m.codes = codes
  OBVIOUS
<1>1. /\ p = Place(pl, "DECK", 0) /\ q = Place(pl, "HAND", 0) /\ pl \in Players
      /\ PilePlace(p) /\ PilePlace(q) /\ ~SamePile(p, q)
      /\ p.con = pl /\ p.loc = "DECK" /\ q.con = pl /\ q.loc = "HAND"
      /\ AreCodes(codes) /\ IsDraw(m) /\ n <= Len(s) /\ n \in Nat /\ Len(codes) = n
  BY DrawPiles DEF IsDraw, DeckOf, HandOf, Place, FitsDraw, AreCodes
<1>2. b.piles = piles /\ b.zones = zoneCards /\ IsBoard(b) /\ Lifted(Extends, b, b)
  BY DEF Cards, AllRecorded, Lifted
<1>3. SeqLifted(Extends, s, s) /\ SeqLifted(Extends, t, t)
  BY <1>1, <1>2, LiftedPile
<1>3a. s = piles[pl]["DECK"] /\ t = piles[pl]["HAND"]
  BY <1>1, <1>2 DEF GetPile
<1>4. Len(s) \in Nat /\ IsSeq(s) /\ IsSeq(t)
  BY <1>3, SeqIsFunction DEF SeqLifted
<1>5. IsSeq(WithoutTop(s, n)) /\ IsSeq(TopCards(s, n)) /\ Len(TopCards(s, n)) = n
  <2> PICK k \in Nat : Len(s) = k
    BY <1>4
  <2>1. n \in 0 .. k
    BY <1>1
  <2> QED
    BY <1>4, <2>1, TopTaken
<1> PICK top : TopCards(s, n) = top
  OBVIOUS
<1> PICK u : WithoutTop(s, n) = u
  OBVIOUS
<1> PICK x : SteppedAll(top, CodeEdits(codes), adv, rt) = x
  OBVIOUS
<1> PICK v : t \o x = v
  OBVIOUS
<1>6. Coded(top, codes, adv, rt) = x
  BY <1>1, <1>5, CodedAll
<1>7. DrawnPiles(piles, pl, u, v) = piles' /\ zoneCards' = zoneCards /\ tempCards' = tempCards
  <2>1. piles' = DrawnPiles(piles, m.player,
                   WithoutTop(piles[m.player]["DECK"], Len(m.codes)),
                   piles[m.player]["HAND"] \o
                     Coded(TopCards(piles[m.player]["DECK"], Len(m.codes)), m.codes, adv, rt))
    BY Zenon DEF HandleDraw, Raised, DrawnPiles, Coded
  <2>2. zoneCards' = zoneCards /\ tempCards' = tempCards
    BY DEF HandleDraw
  <2> QED
    BY <1>3a, <1>6, <2>1, <2>2
<1>8. IsSeq(u) /\ IsSeq(v)
  <2>1. DOMAIN top = 1 .. n
    BY <1>5, SeqIsFunction
  <2>2. x = [i \in 1 .. n |-> x[i]]
    BY <2>1 DEF SteppedAll
  <2>3. IsSeq(x)
    BY <1>1, <2>2, FunctionIsSeq
  <2> QED
    BY <1>4, <1>5, <2>3, Joined
<1>9. Cards' = [piles |-> piles', zones |-> zoneCards']
  BY DEF Cards
<1>10. [piles |-> piles', zones |-> b.zones] = TwoPiles(b, p, q, u, v)
  BY <1>1, <1>2, <1>7, <1>8, TwoPilesExcept
<1> QED
  BY <1>2, <1>7, <1>9, <1>10

\* What it does when it goes back.
LEMMA DrawBackward ==
  ASSUME NEW m, NEW adv, ~Raised(adv), NEW rt, HandleDraw(m, adv, rt),
         NEW b, Cards = b, AllRecorded(b), AfterDraw(m, b),
         NEW s, GetPile(b, DeckOf(m)) = s, NEW t, GetPile(b, HandOf(m)) = t,
         NEW n, Len(m.codes) = n
  PROVE  /\ tempCards' = tempCards
         /\ Cards' = TwoPiles(b, DeckOf(m), HandOf(m),
                      s \o SteppedAll(TopCards(t, n), CodeEdits(m.codes), adv, rt),
                      WithoutTop(t, n))
<1> PICK pl : m.player = pl
  OBVIOUS
<1> PICK p : DeckOf(m) = p
  OBVIOUS
<1> PICK q : HandOf(m) = q
  OBVIOUS
<1> PICK codes : m.codes = codes
  OBVIOUS
<1>1. /\ p = Place(pl, "DECK", 0) /\ q = Place(pl, "HAND", 0) /\ pl \in Players
      /\ PilePlace(p) /\ PilePlace(q) /\ ~SamePile(p, q)
      /\ p.con = pl /\ p.loc = "DECK" /\ q.con = pl /\ q.loc = "HAND"
      /\ AreCodes(codes) /\ IsDraw(m) /\ n <= Len(t) /\ n \in Nat /\ Len(codes) = n
  BY DrawPiles DEF IsDraw, DeckOf, HandOf, Place, AfterDraw, AreCodes
<1>2. b.piles = piles /\ b.zones = zoneCards /\ IsBoard(b) /\ Lifted(Extends, b, b)
  BY DEF Cards, AllRecorded, Lifted
<1>3. SeqLifted(Extends, s, s) /\ SeqLifted(Extends, t, t)
  BY <1>1, <1>2, LiftedPile
<1>3a. s = piles[pl]["DECK"] /\ t = piles[pl]["HAND"]
  BY <1>1, <1>2 DEF GetPile
<1>4. Len(t) \in Nat /\ IsSeq(s) /\ IsSeq(t)
  BY <1>3, SeqIsFunction DEF SeqLifted
<1>5. IsSeq(WithoutTop(t, n)) /\ IsSeq(TopCards(t, n)) /\ Len(TopCards(t, n)) = n
  <2> PICK k \in Nat : Len(t) = k
    BY <1>4
  <2>1. n \in 0 .. k
    BY <1>1
  <2> QED
    BY <1>4, <2>1, TopTaken
<1> PICK top : TopCards(t, n) = top
  OBVIOUS
<1> PICK u : WithoutTop(t, n) = u
  OBVIOUS
<1> PICK x : SteppedAll(top, CodeEdits(codes), adv, rt) = x
  OBVIOUS
<1> PICK v : s \o x = v
  OBVIOUS
<1>6. Coded(top, codes, adv, rt) = x
  BY <1>1, <1>5, CodedAll
<1>7. DrawnPiles(piles, pl, v, u) = piles' /\ zoneCards' = zoneCards /\ tempCards' = tempCards
  <2>1. piles' = DrawnPiles(piles, m.player,
                   piles[m.player]["DECK"] \o
                     Coded(TopCards(piles[m.player]["HAND"], Len(m.codes)), m.codes, adv, rt),
                   WithoutTop(piles[m.player]["HAND"], Len(m.codes)))
    BY Zenon DEF HandleDraw, Raised, DrawnPiles, Coded
  <2>2. zoneCards' = zoneCards /\ tempCards' = tempCards
    BY DEF HandleDraw
  <2> QED
    BY <1>3a, <1>6, <2>1, <2>2
<1>8. IsSeq(u) /\ IsSeq(v)
  <2>1. DOMAIN top = 1 .. n
    BY <1>5, SeqIsFunction
  <2>2. x = [i \in 1 .. n |-> x[i]]
    BY <2>1 DEF SteppedAll
  <2>3. IsSeq(x)
    BY <1>1, <2>2, FunctionIsSeq
  <2> QED
    BY <1>4, <1>5, <2>3, Joined
<1>9. Cards' = [piles |-> piles', zones |-> zoneCards']
  BY DEF Cards
<1>10. [piles |-> piles', zones |-> b.zones] = TwoPiles(b, p, q, v, u)
  BY <1>1, <1>2, <1>7, <1>8, TwoPilesExcept
<1> QED
  BY <1>2, <1>7, <1>9, <1>10

\* The handler is NewDraw, RedoDraw and UndoDraw.
LEMMA DrawSteps ==
  ASSUME NEW m, NEW b, Cards = b, AllRecorded(b)
  PROVE  /\ FitsDraw(m, b) /\ HandleDraw(m, TRUE, TRUE) =>
              tempCards' = tempCards /\ Cards' = NewDraw(m, b)
         /\ FitsDraw(m, b) /\ HandleDraw(m, TRUE, FALSE) =>
              tempCards' = tempCards /\ Cards' = RedoDraw(m, b)
         /\ AfterDraw(m, b) /\ HandleDraw(m, FALSE, FALSE) =>
              tempCards' = tempCards /\ Cards' = UndoDraw(m, b)
<1> PICK s : GetPile(b, DeckOf(m)) = s
  OBVIOUS
<1> PICK t : GetPile(b, HandOf(m)) = t
  OBVIOUS
<1> PICK n : Len(m.codes) = n
  OBVIOUS
<1> PICK e : CodeEdits(m.codes) = e
  OBVIOUS
<1>1. Raised(TRUE) /\ ~Raised(FALSE)
  BY DEF Raised
<1>2. ASSUME FitsDraw(m, b)
      PROVE  /\ SteppedAll(TopCards(s, n), e, TRUE, TRUE) = DoneAll(TopCards(s, n), e)
             /\ SteppedAll(TopCards(s, n), e, TRUE, FALSE) = RedoneAll(TopCards(s, n), e)
  <2>1. PilePlace(DeckOf(m)) /\ AreCodes(m.codes) /\ n \in Nat /\ n <= Len(s)
    BY <1>2, DrawPiles DEF FitsDraw, IsDraw, AreCodes
  <2>2. SeqLifted(Extends, s, s)
    BY <2>1, LiftedPile DEF AllRecorded
  <2> PICK k \in Nat : Len(s) = k
    BY <2>2, SeqIsFunction DEF SeqLifted
  <2>3. n \in 0 .. k /\ IsSeq(s)
    BY <2>1, <2>2 DEF SeqLifted
  <2>4. SeqLifted(Extends, TopCards(s, n), TopCards(s, n)) /\ Len(TopCards(s, n)) = n
    BY <2>2, <2>3, LiftedTop, TopTaken
  <2>5. \A i \in 1 .. n : e[i] \in Edits
    BY <2>1, CodesAreEdits
  <2> QED
    BY <2>4, <2>5, SteppedAllIs
<1>3. ASSUME AfterDraw(m, b)
      PROVE  SteppedAll(TopCards(t, n), e, FALSE, FALSE) = UndoneAll(TopCards(t, n), e)
  <2>1. PilePlace(HandOf(m)) /\ AreCodes(m.codes) /\ n \in Nat /\ n <= Len(t)
    BY <1>3, DrawPiles DEF AfterDraw, IsDraw, AreCodes
  <2>2. SeqLifted(Extends, t, t)
    BY <2>1, LiftedPile DEF AllRecorded
  <2> PICK k \in Nat : Len(t) = k
    BY <2>2, SeqIsFunction DEF SeqLifted
  <2>3. n \in 0 .. k /\ IsSeq(t)
    BY <2>1, <2>2 DEF SeqLifted
  <2>4. SeqLifted(Extends, TopCards(t, n), TopCards(t, n)) /\ Len(TopCards(t, n)) = n
    BY <2>2, <2>3, LiftedTop, TopTaken
  <2>5. \A i \in 1 .. n : e[i] \in Edits
    BY <2>1, CodesAreEdits
  <2> QED
    BY <2>4, <2>5, SteppedAllIs
<1>4. ASSUME FitsDraw(m, b), HandleDraw(m, TRUE, TRUE)
      PROVE  tempCards' = tempCards /\ Cards' = NewDraw(m, b)
  <2>1. /\ tempCards' = tempCards
        /\ Cards' = TwoPiles(b, DeckOf(m), HandOf(m), WithoutTop(s, n),
                             t \o SteppedAll(TopCards(s, n), e, TRUE, TRUE))
    BY <1>1, <1>4, DrawForward, Zenon
  <2> QED
    BY <1>2, <1>4, <2>1 DEF NewDraw
<1>5. ASSUME FitsDraw(m, b), HandleDraw(m, TRUE, FALSE)
      PROVE  tempCards' = tempCards /\ Cards' = RedoDraw(m, b)
  <2>1. /\ tempCards' = tempCards
        /\ Cards' = TwoPiles(b, DeckOf(m), HandOf(m), WithoutTop(s, n),
                             t \o SteppedAll(TopCards(s, n), e, TRUE, FALSE))
    BY <1>1, <1>5, DrawForward, Zenon
  <2> QED
    BY <1>2, <1>5, <2>1 DEF RedoDraw
<1>6. ASSUME AfterDraw(m, b), HandleDraw(m, FALSE, FALSE)
      PROVE  tempCards' = tempCards /\ Cards' = UndoDraw(m, b)
  <2>1. /\ tempCards' = tempCards
        /\ Cards' = TwoPiles(b, DeckOf(m), HandOf(m),
                             s \o SteppedAll(TopCards(t, n), e, FALSE, FALSE),
                             WithoutTop(t, n))
    BY <1>1, <1>6, DrawBackward, Zenon
  <2> QED
    BY <1>3, <1>6, <2>1 DEF UndoDraw
<1> QED
  BY <1>4, <1>5, <1>6

----------------------------------------------------------------------------
(* ShuffleLocation *)

\* What a shuffle does to its pile.
LEMMA ShuffledAll ==
  ASSUME NEW m, NEW s, IsSeq(s), NEW adv, NEW rt
  PROVE  Shuffled(s, m.codes, adv, rt) = SteppedAll(s, ShuffleEdits(m), adv, rt)
<1> PICK e : ShuffleEdits(m) = e
  OBVIOUS
<1> PICK codes : m.codes = codes
  OBVIOUS
<1>1. Len(s) \in Nat /\ DOMAIN s = 1 .. Len(s)
  BY SeqIsFunction
<1>2. \A i \in DOMAIN s : i \in Nat
  BY <1>1
<1>3. ASSUME NEW i \in DOMAIN s
      PROVE  Stepped(s[i], e[i], adv, rt) =
               StepCode(s[i], adv, rt, IF codes = <<>> THEN 0 ELSE codes[i])
  <2> PICK f : e[i] = f
    OBVIOUS
  <2> PICK k : (IF codes = <<>> THEN 0 ELSE codes[i]) = k
    OBVIOUS
  <2>1. f = [code |-> k, pos |-> KeepPos]
    BY <1>2 DEF ShuffleEdits
  <2>2. f.code = k /\ f.pos = KeepPos
    BY <2>1
  <2> QED
    BY <2>2 DEF Stepped
<1> QED
  BY <1>3, Zenon DEF SteppedAll, Shuffled

\* What HandleShuffleLocation does to the board.
LEMMA ShuffleStepped ==
  ASSUME NEW m, NEW adv, NEW rt, HandleShuffleLocation(m, adv, rt),
         NEW b, Cards = b, AllRecorded(b), FitsShuffle(m, b)
  PROVE  /\ tempCards' = tempCards
         /\ Cards' = PutPile(b, PileOf(m),
                      SteppedAll(GetPile(b, PileOf(m)), ShuffleEdits(m), adv, rt))
<1> PICK pl : m.player = pl
  OBVIOUS
<1> PICK loc : m.location = loc
  OBVIOUS
<1> PICK p : PileOf(m) = p
  OBVIOUS
<1> PICK s : GetPile(b, p) = s
  OBVIOUS
<1> PICK codes : m.codes = codes
  OBVIOUS
<1>1. PilePlace(p) /\ p.con = pl /\ p.loc = loc /\ pl \in Players /\ loc \in PileLocations
  BY ShufflePile DEF FitsShuffle, IsShuffle, PileOf, Place
<1>2. b.piles = piles /\ b.zones = zoneCards /\ IsBoard(b) /\ Lifted(Extends, b, b)
  BY DEF Cards, AllRecorded, Lifted
<1>3. s = piles[pl][loc] /\ IsSeq(s)
  BY <1>1, <1>2 DEF GetPile, IsBoard
<1> PICK x : SteppedAll(s, ShuffleEdits(m), adv, rt) = x
  OBVIOUS
<1>4. Shuffled(s, codes, adv, rt) = x
  BY <1>3, ShuffledAll
<1>5. piles' = PileWith(piles, pl, loc, x)
  BY <1>3, <1>4 DEF HandleShuffleLocation, PileWith
<1>6. zoneCards' = zoneCards /\ tempCards' = tempCards
  BY DEF HandleShuffleLocation
<1>7. IsSeq(x)
  <2>1. Len(s) \in Nat /\ DOMAIN s = 1 .. Len(s)
    BY <1>3, SeqIsFunction
  <2>2. x = [i \in 1 .. Len(s) |-> x[i]]
    BY <2>1 DEF SteppedAll
  <2> QED
    BY <2>1, <2>2, FunctionIsSeq
<1>8. [piles |-> piles', zones |-> b.zones] = PutPile(b, p, x)
  BY <1>1, <1>2, <1>5, <1>7, PilesExcept
<1>9. Cards' = [piles |-> piles', zones |-> zoneCards']
  BY DEF Cards
<1> QED
  BY <1>2, <1>6, <1>8, <1>9

\* The handler is NewShuffle, RedoShuffle and UndoShuffle.
LEMMA ShuffleSteps ==
  ASSUME NEW m, NEW b, Cards = b, AllRecorded(b), FitsShuffle(m, b)
  PROVE  /\ HandleShuffleLocation(m, TRUE, TRUE) =>
              tempCards' = tempCards /\ Cards' = NewShuffle(m, b)
         /\ HandleShuffleLocation(m, TRUE, FALSE) =>
              tempCards' = tempCards /\ Cards' = RedoShuffle(m, b)
         /\ HandleShuffleLocation(m, FALSE, FALSE) =>
              tempCards' = tempCards /\ Cards' = UndoShuffle(m, b)
<1> PICK p : PileOf(m) = p
  OBVIOUS
<1> PICK s : GetPile(b, p) = s
  OBVIOUS
<1> PICK e : ShuffleEdits(m) = e
  OBVIOUS
<1>1. PilePlace(p)
  BY ShufflePile DEF FitsShuffle
<1>2. SeqLifted(Extends, s, s)
  BY <1>1, LiftedPile DEF AllRecorded
<1> PICK k \in Nat : Len(s) = k
  BY <1>2, SeqIsFunction DEF SeqLifted
<1>3. \A i \in 1 .. k : e[i] \in Edits
  BY ShuffleIsEdit
<1>4. /\ SteppedAll(s, e, TRUE, TRUE) = DoneAll(s, e)
      /\ SteppedAll(s, e, TRUE, FALSE) = RedoneAll(s, e)
      /\ SteppedAll(s, e, FALSE, FALSE) = UndoneAll(s, e)
  BY <1>2, <1>3, SteppedAllIs
<1>5. \A adv, rt : HandleShuffleLocation(m, adv, rt) =>
        tempCards' = tempCards /\ Cards' = PutPile(b, p, SteppedAll(s, e, adv, rt))
  BY ShuffleStepped
<1> QED
  BY <1>4, <1>5, Zenon DEF NewShuffle, RedoShuffle, UndoShuffle

\* CardsBecome says what the board is next.
LEMMA BoardBecomes ==
  ASSUME NEW c, IsBoard(c), CardsBecome(c)
  PROVE  Cards' = c
<1>1. Cards' = [piles |-> piles', zones |-> zoneCards']
  BY DEF Cards
<1>2. piles' = c.piles /\ zoneCards' = c.zones /\ c = [piles |-> c.piles, zones |-> c.zones]
  BY DEF CardsBecome, IsBoard
<1> QED
  BY <1>1, <1>2

\* HandleSwapCards swaps, forwards and backwards.
LEMMA SwapStepped ==
  ASSUME NEW m, NEW adv, NEW rt, HandleSwapCards(m, adv, rt),
         NEW b, Cards = b, AllRecorded(b), FitsSwap(m, b)
  PROVE  tempCards' = tempCards /\ Cards' = Swap(m, b)
<1> PICK p : m.card1 = p
  OBVIOUS
<1> PICK q : m.card2 = q
  OBVIOUS
<1> PICK z : b.zones = z
  OBVIOUS
<1>1. /\ p \in DOMAIN z /\ q \in DOMAIN z /\ p # q /\ ~IsPile(p) /\ ~IsPile(q)
      /\ IsBoard(b) /\ IsMap(z) /\ Has(b, p) /\ \A x \in DOMAIN z : ~IsPile(x)
  BY DEF FitsSwap, AllRecorded, Lifted, IsBoard, Has
<1> PICK x : GetCard(b, p) = x
  OBVIOUS
<1> PICK y : GetCard(b, q) = y
  OBVIOUS
<1>2. x = z[p] /\ y = z[q]
  BY <1>1 DEF GetCard
<1> PICK b1 : EraseCard(b, p) = b1
  OBVIOUS
<1> PICK z1 : EraseKey(z, p) = z1
  OBVIOUS
<1>3. IsMap(z1) /\ DOMAIN z1 = DOMAIN z \ {p} /\ \A k \in DOMAIN z1 : z1[k] = z[k] /\ ~IsPile(k)
  BY <1>1 DEF EraseKey, IsMap
<1>4. b1 = WithZones(b, z1) /\ AllRecorded(b1) /\ IsBoard(b1) /\ b1.zones = z1
  <2>1. b1 = WithZones(b, z1)
    BY <1>1 DEF EraseCard, WithZones
  <2>2. AllRecorded(b1)
    BY <1>1, LiftedErase DEF AllRecorded
  <2> QED
    BY <1>1, <2>1, <2>2, BoardZones DEF AllRecorded, Lifted
<1>5. Has(b1, q) /\ ~SamePile(q, p) /\ GetCard(b1, q) = y
  BY <1>1, <1>2, <1>3, <1>4 DEF Has, SamePile, GetCard
<1> PICK b2 : EraseCard(b1, q) = b2
  OBVIOUS
<1> PICK z2 : EraseKey(z1, q) = z2
  OBVIOUS
<1>6. IsMap(z2) /\ DOMAIN z2 = DOMAIN z1 \ {q} /\ \A k \in DOMAIN z2 : z2[k] = z1[k]
  BY <1>3 DEF EraseKey, IsMap
<1>7. b2 = WithZones(b1, z2) /\ b2.zones = z2
  <2>1. b2 = WithZones(b1, z2)
    BY <1>1, <1>4 DEF EraseCard, WithZones
  <2> QED
    BY <1>4, <2>1, BoardZones
<1> PICK c : InsertCard(b2, p, y) = c
  OBVIOUS
<1> PICK z3 : PutKey(z2, p, y) = z3
  OBVIOUS
<1>8. DOMAIN z3 = DOMAIN z2 \cup {p} /\ \A k \in DOMAIN z3 : z3[k] = IF k = p THEN y ELSE z2[k]
  BY DEF PutKey
<1>9. c = WithZones(b2, z3)
  BY <1>1, <1>7 DEF InsertCard, WithZones
<1> PICK d : InsertCard(c, q, x) = d
  OBVIOUS
<1> PICK z4 : PutKey(z3, q, x) = z4
  OBVIOUS
<1>10. IsMap(z4) /\ DOMAIN z4 = DOMAIN z3 \cup {q} /\ \A k \in DOMAIN z4 : z4[k] = IF k = q THEN x ELSE z3[k]
  BY DEF PutKey, IsMap
<1>11. b2 = WithZones(b, z2) /\ c = WithZones(b, z3) /\ d = WithZones(b, z4)
  <2>1. b2 = WithZones(b, z2)
    BY <1>1, <1>4, <1>7, BoardZones
  <2>2. c = WithZones(b, z3) /\ c.zones = z3
    BY <1>1, <1>9, <2>1, BoardZones
  <2>3. d = WithZones(c, z4)
    BY <1>1, <2>2 DEF InsertCard, WithZones
  <2> QED
    BY <1>1, <2>1, <2>2, <2>3, BoardZones
<1>12. z4 = Swapped(z, p, q)
  <2> PICK w : Swapped(z, p, q) = w
    OBVIOUS
  <2>1. IsMap(w) /\ DOMAIN w = DOMAIN z
        /\ \A k \in DOMAIN z : w[k] = IF k = p THEN z[q] ELSE IF k = q THEN z[p] ELSE z[k]
    BY DEF Swapped, IsMap
  <2>2. DOMAIN z4 = DOMAIN z
    BY <1>1, <1>3, <1>6, <1>8, <1>10
  <2>3. \A k \in DOMAIN z : z4[k] = w[k]
    BY <1>1, <1>2, <1>3, <1>6, <1>8, <1>10, <2>1, <2>2
  <2> QED
    BY <1>10, <2>1, <2>2, <2>3, SameMap
<1>13. d = Swap(m, b)
  BY <1>11, <1>12 DEF Swap
<1>14. MoveSingle(b1, q, p, adv, rt) = {c}
  <2>1. MoveSingle(b1, q, p, adv, rt) = {Relocated(b1, q, p, GetCard(b1, q))}
    BY <1>4, <1>5, MovedSingle
  <2> QED
    BY <1>5, <2>1 DEF Relocated
<1>15. SwapCards(b, m, adv, rt) = {d}
  BY <1>14 DEF SwapCards
<1>16. CardsBecome(d) /\ tempCards' = tempCards
  <2>1. \E a \in SwapCards(b, m, adv, rt) : CardsBecome(a)
    BY DEF HandleSwapCards
  <2>2. tempCards' = tempCards
    BY DEF HandleSwapCards
  <2> QED
    BY <1>15, <2>1, <2>2
<1>17. IsBoard(d)
  <2>1. IsBoard(c) /\ c.zones = z3
    <3>1. IsBoard(b2)
      BY <1>4, <1>5, BoardErased
    <3>2. Room(b2, p)
      BY <1>1, <1>3, <1>6, <1>7 DEF Room
    <3>3. IsBoard(c)
      BY <3>1, <3>2, BoardInserted
    <3> QED
      BY <1>1, <1>11, <3>3, BoardZones
  <2>2. Room(c, q)
    BY <1>1, <1>3, <1>6, <1>8, <2>1 DEF Room
  <2> QED
    BY <2>1, <2>2, BoardInserted
<1> QED
  BY <1>13, <1>16, <1>17, BoardBecomes

----------------------------------------------------------------------------
(* ShuffleSetCards *)

SetStep(b, m, i, adv, rt) ==
  StepAt(b, m.previous[i].place, adv, rt, SetEdit(m, i).code, SetEdit(m, i).pos)

\* What the handler folds over the places.
SetBody(b, m, i, adv, rt) ==
  IF m.current = <<>>
  THEN StepAt(b, m.previous[i].place, adv, rt, 0, m.previous[i].position)
  ELSE StepAt(b, m.previous[i].place, adv, rt,
              m.current[i].code, m.current[i].position)

\* It is a step of the card at one place.
LEMMA SetBodyIs ==
  ASSUME NEW b, NEW m, NEW i, NEW adv, NEW rt
  PROVE  SetBody(b, m, i, adv, rt) = SetStep(b, m, i, adv, rt)
<1>1. CASE m.current = <<>>
  <2>1. SetEdit(m, i) = [code |-> 0, pos |-> m.previous[i].position]
    BY <1>1 DEF SetEdit
  <2>2. SetEdit(m, i).code = 0 /\ SetEdit(m, i).pos = m.previous[i].position
    BY <2>1
  <2> QED
    BY <1>1, <2>2, Zenon DEF SetBody, SetStep
<1>2. CASE m.current # <<>>
  <2>1. SetEdit(m, i) = [code |-> m.current[i].code, pos |-> m.current[i].position]
    BY <1>2 DEF SetEdit
  <2>2. SetEdit(m, i).code = m.current[i].code /\ SetEdit(m, i).pos = m.current[i].position
    BY <2>1
  <2> QED
    BY <1>2, <2>2, Zenon DEF SetBody, SetStep
<1> QED
  BY <1>1, <1>2

\* An interval tells its length.
LEMMA SameInterval ==
  ASSUME NEW n \in Nat, NEW k \in Nat \ {0}, 1 .. n = 1 .. k
  PROVE  n = k
<1> PICK s : 1 .. n = s
  OBVIOUS
<1>1. s = 1 .. k
  OBVIOUS
<1>2. k \in s
  BY <1>1
<1>3. k <= n
  BY <1>2
<1>4. n \in s
  BY <1>3
<1>5. n <= k
  BY <1>1, <1>4
<1> QED
  BY <1>3, <1>5

\* What the handler does to the board.
LEMMA SetHandled ==
  ASSUME NEW m, NEW adv, NEW rt, HandleShuffleSetCards(m, adv, rt), NEW b, Cards = b,
         IsSet(m)
  PROVE  /\ tempCards' = tempCards
         /\ DOMAIN m.previous = 1 .. 1 => CardsBecome(SetStep(b, m, 1, adv, rt))
         /\ DOMAIN m.previous = 1 .. 2 =>
              CardsBecome(SetStep(SetStep(b, m, 1, adv, rt), m, 2, adv, rt))
<1> DEFINE Body(f) == [i \in 0 .. Len(m.previous) |->
                         IF i = 0 THEN Cards ELSE SetBody(f[i - 1], m, i, adv, rt)]
<1>1. tempCards' = tempCards
  BY DEF HandleShuffleSetCards
<1>2. CardsBecome((CHOOSE f : f = Body(f))[Len(m.previous)])
  BY Zenon DEF HandleShuffleSetCards, SetBody
<1> PICK g : g = CHOOSE f : f = Body(f)
  OBVIOUS
<1> PICK n \in Nat : Len(m.previous) = n
  BY SeqIsFunction DEF IsSet
<1>3. CardsBecome(g[n])
  BY <1>2, Zenon
<1>4. DOMAIN m.previous = 1 .. n
  BY SeqIsFunction DEF IsSet
<1> PICK b1 : SetBody(b, m, 1, adv, rt) = b1
  OBVIOUS
<1> PICK b2 : SetBody(b1, m, 2, adv, rt) = b2
  OBVIOUS
<1>5. b1 = SetStep(b, m, 1, adv, rt) /\ b2 = SetStep(SetStep(b, m, 1, adv, rt), m, 2, adv, rt)
  BY SetBodyIs, Zenon
<1>6. ASSUME n = 1
      PROVE  CardsBecome(b1)
  <2> DEFINE W == [i \in 0 .. 1 |-> IF i = 0 THEN b ELSE b1]
  <2>1. W[0] = b /\ W[1] = b1 /\ \A i \in 0 .. 1 : i = 0 \/ i = 1
    OBVIOUS
  <2> PICK w : W = w
    OBVIOUS
  <2>2. \A i \in 0 .. 1 : Body(w)[i] = W[i]
    BY <1>6, <2>1
  <2>3. Body(W) = [i \in 0 .. 1 |-> Body(W)[i]]
    BY <1>6
  <2>4. W = Body(W)
    BY <2>2, <2>3
  <2> HIDE DEF W, Body
  <2>5. g = Body(g)
    BY <2>4
  <2> USE DEF Body
  <2>6. g[0] = b
    BY <1>6, <2>5
  <2>7. g[1] = SetBody(g[0], m, 1, adv, rt)
    BY <1>6, <2>5
  <2> QED
    BY <1>3, <1>6, <2>6, <2>7
<1>7. ASSUME n = 2
      PROVE  CardsBecome(b2)
  <2> DEFINE W == [i \in 0 .. 2 |-> IF i = 0 THEN b ELSE IF i = 1 THEN b1 ELSE b2]
  <2>1. W[0] = b /\ W[1] = b1 /\ W[2] = b2 /\ \A i \in 0 .. 2 : i = 0 \/ i = 1 \/ i = 2
    OBVIOUS
  <2> PICK w : W = w
    OBVIOUS
  <2>2. \A i \in 0 .. 2 : Body(w)[i] = W[i]
    BY <1>7, <2>1
  <2>3. Body(W) = [i \in 0 .. 2 |-> Body(W)[i]]
    BY <1>7
  <2>4. W = Body(W)
    BY <2>2, <2>3
  <2> HIDE DEF W, Body
  <2>5. g = Body(g)
    BY <2>4
  <2> USE DEF Body
  <2>6. g[0] = b
    BY <1>7, <2>5
  <2>7. g[1] = SetBody(g[0], m, 1, adv, rt)
    BY <1>7, <2>5
  <2>8. g[2] = SetBody(g[1], m, 2, adv, rt)
    BY <1>7, <2>5
  <2> QED
    BY <1>3, <1>7, <2>6, <2>7, <2>8
<1>8. ASSUME DOMAIN m.previous = 1 .. 1
      PROVE  n = 1
  <2>1. 1 .. n = 1 .. 1
    BY <1>4, <1>8, Zenon
  <2>2. 1 \in Nat \ {0}
    OBVIOUS
  <2> QED
    BY <2>1, <2>2, SameInterval
<1>9. ASSUME DOMAIN m.previous = 1 .. 2
      PROVE  n = 2
  <2>1. 1 .. n = 1 .. 2
    BY <1>4, <1>9, Zenon
  <2>2. 2 \in Nat \ {0}
    OBVIOUS
  <2> QED
    BY <2>1, <2>2, SameInterval
<1> QED
  BY <1>1, <1>5, <1>6, <1>7, <1>8, <1>9

SteppedOn(z, e, adv, rt) ==
  [p \in DOMAIN z |-> IF p \in DOMAIN e THEN Stepped(z[p], e[p], adv, rt) ELSE z[p]]

\* Stepping cards in zones is DoneOn, RedoneOn and UndoneOn.
LEMMA SteppedOnIs ==
  ASSUME NEW z, \A p \in DOMAIN z : z[p] \in RecordedCards,
         NEW e, \A p \in DOMAIN e : e[p] \in Edits
  PROVE  /\ SteppedOn(z, e, TRUE, TRUE) = DoneOn(z, e)
         /\ SteppedOn(z, e, TRUE, FALSE) = RedoneOn(z, e)
         /\ SteppedOn(z, e, FALSE, FALSE) = UndoneOn(z, e)
<1>1. ASSUME NEW p \in DOMAIN z, p \in DOMAIN e
      PROVE  /\ Stepped(z[p], e[p], TRUE, TRUE) = Done(z[p], e[p])
             /\ Stepped(z[p], e[p], TRUE, FALSE) = Redone(z[p], e[p])
             /\ Stepped(z[p], e[p], FALSE, FALSE) = Undone(z[p], e[p])
  <2> PICK c \in RecordedCards : z[p] = c
    OBVIOUS
  <2> PICK f \in Edits : e[p] = f
    BY <1>1
  <2> QED
    BY SteppedIs
<1> QED
  BY <1>1, Zenon DEF SteppedOn, DoneOn, RedoneOn, UndoneOn

\* One of these steps changes one key of the zones.
LEMMA SetStepIs ==
  ASSUME NEW b, IsBoard(b), NEW m, IsSet(m), NEW i \in DOMAIN m.previous,
         NEW p, m.previous[i].place = p, p \in DOMAIN b.zones,
         NEW z, b.zones = z, NEW e, SetEdit(m, i) = e, NEW adv, NEW rt
  PROVE  SetStep(b, m, i, adv, rt) = WithZones(b, PutKey(z, p, Stepped(z[p], e, adv, rt)))
<1>1. ~IsPile(p) /\ e.pos # KeepPos /\ e \in Edits
  BY DEF IsSet
<1>2. e = [code |-> e.code, pos |-> e.pos]
  BY <1>1 DEF Edits
<1> PICK k : e.code = k
  OBVIOUS
<1> PICK l : e.pos = l
  OBVIOUS
<1>3. e = [code |-> k, pos |-> l] /\ l # KeepPos
  BY <1>1, <1>2
<1> PICK c : Stepped(z[p], e, adv, rt) = c
  OBVIOUS
<1>4. Has(b, p) /\ GetCard(b, p) = z[p]
  BY <1>1 DEF Has, GetCard
<1>5. StepAt(b, p, adv, rt, k, l) = Relocated(b, p, p, Stepped(GetCard(b, p), [code |-> k, pos |-> l], adv, rt))
  BY <1>3, <1>4, SteppedAt
<1>6. StepAt(b, p, adv, rt, k, l) = Relocated(b, p, p, c)
  BY <1>3, <1>4, <1>5, Zenon
<1>7. SetStep(b, m, i, adv, rt) = StepAt(b, p, adv, rt, k, l)
  BY DEF SetStep
<1>8. Relocated(b, p, p, c) = SetCard(b, p, c)
  BY <1>4, SetIsInsert DEF Relocated
<1>9. SetCard(b, p, c) = WithZones(b, PutKey(z, p, c))
  BY <1>1 DEF SetCard, WithZones
<1> QED
  BY <1>6, <1>7, <1>8, <1>9

\* A board with other zones is a board.
LEMMA ZonesBoard ==
  ASSUME NEW b, IsBoard(b), NEW z, IsMap(z), \A p \in DOMAIN z : ~IsPile(p)
  PROVE  IsBoard(WithZones(b, z)) /\ WithZones(b, z).zones = z
<1> PICK d : WithZones(b, z) = d
  OBVIOUS
<1>1. d = [piles |-> b.piles, zones |-> z]
  BY DEF IsBoard, WithZones
<1> QED
  BY <1>1 DEF IsBoard

\* The handler steps the cards at all its places.
LEMMA SetStepped ==
  ASSUME NEW m, NEW adv, NEW rt, HandleShuffleSetCards(m, adv, rt), NEW b, Cards = b,
         AllRecorded(b), FitsSet(m, b)
  PROVE  /\ tempCards' = tempCards
         /\ Cards' = WithZones(b, SteppedOn(b.zones, SetEdits(m), adv, rt))
<1> PICK e : SetEdits(m) = e
  OBVIOUS
<1> PICK z : b.zones = z
  OBVIOUS
<1> PICK w : SteppedOn(z, e, adv, rt) = w
  OBVIOUS
<1>1. IsSet(m) /\ IsBoard(b) /\ SetPlaces(m) \subseteq DOMAIN z /\ IsMap(z)
      /\ \A p \in DOMAIN z : ~IsPile(p)
  BY DEF FitsSet, AllRecorded, Lifted, IsBoard
<1>2. DOMAIN e = SetPlaces(m)
  BY DEF SetEdits
<1>3. \A i \in DOMAIN m.previous : /\ m.previous[i].place \in DOMAIN e
                                   /\ m.previous[i].place \in DOMAIN z
                                   /\ e[m.previous[i].place] = SetEdit(m, i)
  <2> TAKE i \in DOMAIN m.previous
  <2> PICK p : m.previous[i].place = p
    OBVIOUS
  <2>1. p \in SetPlaces(m)
    BY DEF SetPlaces
  <2> PICK j : j = CHOOSE k \in DOMAIN m.previous : m.previous[k].place = p
    OBVIOUS
  <2>2. j \in DOMAIN m.previous /\ m.previous[j].place = p
    OBVIOUS
  <2>3. j = i
    BY <1>1, <2>2 DEF IsSet
  <2>4. e[p] = SetEdit(m, j)
    BY <2>1 DEF SetEdits
  <2> QED
    BY <1>1, <1>2, <2>1, <2>3, <2>4
<1>4. IsMap(w) /\ DOMAIN w = DOMAIN z
      /\ \A p \in DOMAIN z : w[p] = IF p \in DOMAIN e THEN Stepped(z[p], e[p], adv, rt) ELSE z[p]
  BY DEF SteppedOn, IsMap
<1>5. CASE DOMAIN m.previous = 1 .. 1
  <2>1. 1 \in DOMAIN m.previous /\ \A i \in DOMAIN m.previous : i = 1
    BY <1>5
  <2> PICK p : m.previous[1].place = p
    OBVIOUS
  <2> PICK f : SetEdit(m, 1) = f
    OBVIOUS
  <2> PICK v : PutKey(z, p, Stepped(z[p], f, adv, rt)) = v
    OBVIOUS
  <2>2. p \in DOMAIN z /\ p \in DOMAIN e /\ e[p] = f
    BY <1>3, <2>1
  <2>3. SetStep(b, m, 1, adv, rt) = WithZones(b, v)
    BY <1>1, <2>1, <2>2, SetStepIs
  <2>4. DOMAIN e = {p}
    BY <1>2, <2>1 DEF SetPlaces
  <2>5. IsMap(v) /\ DOMAIN v = DOMAIN z
        /\ \A x \in DOMAIN z : v[x] = IF x = p THEN Stepped(z[p], f, adv, rt) ELSE z[x]
    BY <2>2 DEF PutKey, IsMap
  <2>6. v = w
    BY <1>4, <2>2, <2>4, <2>5, SameMap
  <2>7. CardsBecome(SetStep(b, m, 1, adv, rt)) /\ tempCards' = tempCards
    BY <1>1, <1>5, SetHandled
  <2>8. IsBoard(WithZones(b, w))
    BY <1>1, <1>4, ZonesBoard
  <2> PICK d : WithZones(b, w) = d
    OBVIOUS
  <2>9. Cards' = d
    BY <2>3, <2>6, <2>7, <2>8, BoardBecomes
  <2> QED
    BY <2>7, <2>9
<1>6. CASE DOMAIN m.previous = 1 .. 2
  <2>1. 1 \in DOMAIN m.previous /\ 2 \in DOMAIN m.previous
        /\ \A i \in DOMAIN m.previous : i = 1 \/ i = 2
    BY <1>6
  <2> PICK p : m.previous[1].place = p
    OBVIOUS
  <2> PICK q : m.previous[2].place = q
    OBVIOUS
  <2> PICK f : SetEdit(m, 1) = f
    OBVIOUS
  <2> PICK g : SetEdit(m, 2) = g
    OBVIOUS
  <2> PICK v : PutKey(z, p, Stepped(z[p], f, adv, rt)) = v
    OBVIOUS
  <2> PICK u : PutKey(v, q, Stepped(v[q], g, adv, rt)) = u
    OBVIOUS
  <2>2. /\ p \in DOMAIN z /\ p \in DOMAIN e /\ e[p] = f
        /\ q \in DOMAIN z /\ q \in DOMAIN e /\ e[q] = g
    BY <1>3, <2>1
  <2>3. p # q
    BY <1>1, <2>1 DEF IsSet
  <2>4. DOMAIN e = {p, q}
    BY <1>2, <2>1 DEF SetPlaces
  <2>5. IsMap(v) /\ DOMAIN v = DOMAIN z
        /\ \A x \in DOMAIN z : v[x] = IF x = p THEN Stepped(z[p], f, adv, rt) ELSE z[x]
    BY <2>2 DEF PutKey, IsMap
  <2>6. IsMap(u) /\ DOMAIN u = DOMAIN z
        /\ \A x \in DOMAIN z : u[x] = IF x = q THEN Stepped(v[q], g, adv, rt) ELSE v[x]
    BY <2>2, <2>5 DEF PutKey, IsMap
  <2>7. v[q] = z[q]
    BY <2>2, <2>3, <2>5
  <2> PICK x : Stepped(z[p], f, adv, rt) = x
    OBVIOUS
  <2> PICK y : Stepped(z[q], g, adv, rt) = y
    OBVIOUS
  <2>8. \A k \in DOMAIN z : w[k] = IF k = p THEN x ELSE IF k = q THEN y ELSE z[k]
    BY <1>4, <2>2, <2>4
  <2>9. u = w
    BY <1>4, <2>2, <2>3, <2>5, <2>6, <2>7, <2>8, SameMap
  <2> PICK c : SetStep(b, m, 1, adv, rt) = c
    OBVIOUS
  <2>10. c = WithZones(b, v)
    BY <1>1, <2>1, <2>2, SetStepIs
  <2>11. IsBoard(c) /\ c.zones = v
    BY <1>1, <2>5, <2>10, ZonesBoard
  <2>12. SetStep(c, m, 2, adv, rt) = WithZones(c, u)
    BY <1>1, <2>1, <2>2, <2>5, <2>11, SetStepIs
  <2>13. WithZones(c, u) = WithZones(b, w)
    BY <1>1, <2>9, <2>10, BoardZones
  <2>14. CardsBecome(SetStep(c, m, 2, adv, rt)) /\ tempCards' = tempCards
    BY <1>1, <1>6, SetHandled
  <2>15. IsBoard(WithZones(b, w))
    BY <1>1, <1>4, ZonesBoard
  <2> PICK d : WithZones(b, w) = d
    OBVIOUS
  <2>16. Cards' = d
    BY <2>12, <2>13, <2>14, <2>15, BoardBecomes
  <2> QED
    BY <2>14, <2>16
<1> QED
  BY <1>1, <1>5, <1>6 DEF IsSet

\* The handler of a shuffle of cards on the field.
LEMMA SetSteps ==
  ASSUME NEW m, NEW b, Cards = b, AllRecorded(b), FitsSet(m, b)
  PROVE  /\ HandleShuffleSetCards(m, TRUE, TRUE) =>
              tempCards' = tempCards /\ Cards' = NewSet(m, b)
         /\ HandleShuffleSetCards(m, TRUE, FALSE) =>
              tempCards' = tempCards /\ Cards' = RedoSet(m, b)
         /\ HandleShuffleSetCards(m, FALSE, FALSE) =>
              tempCards' = tempCards /\ Cards' = UndoSet(m, b)
<1> PICK e : SetEdits(m) = e
  OBVIOUS
<1> PICK z : b.zones = z
  OBVIOUS
<1>1. \A p \in DOMAIN e : e[p] \in Edits
  BY SetIsEdit DEF FitsSet
<1>2. \A p \in DOMAIN z : z[p] \in RecordedCards
  BY DEF AllRecorded, Lifted, Extends
<1>3. /\ SteppedOn(z, e, TRUE, TRUE) = DoneOn(z, e)
      /\ SteppedOn(z, e, TRUE, FALSE) = RedoneOn(z, e)
      /\ SteppedOn(z, e, FALSE, FALSE) = UndoneOn(z, e)
  BY <1>1, <1>2, SteppedOnIs
<1>4. /\ NewSet(m, b) = WithZones(b, SteppedOn(z, e, TRUE, TRUE))
      /\ RedoSet(m, b) = WithZones(b, SteppedOn(z, e, TRUE, FALSE))
      /\ UndoSet(m, b) = WithZones(b, SteppedOn(z, e, FALSE, FALSE))
  BY <1>3 DEF NewSet, RedoSet, UndoSet
<1>5. ASSUME NEW adv, NEW rt, HandleShuffleSetCards(m, adv, rt)
      PROVE  tempCards' = tempCards /\ Cards' = WithZones(b, SteppedOn(z, e, adv, rt))
  BY <1>5, SetStepped
<1> QED
  BY <1>4, <1>5, Zenon

----------------------------------------------------------------------------
(* What the handlers do to the world *)

World == WorldOf(Cards, tempCards)

\* The next world from the next cards.
LEMMA WorldNext ==
  ASSUME NEW b, Cards' = b, NEW t, tempCards' = t
  PROVE  World' = WorldOf(b, t)
BY DEF World, WorldOf

\* A card that arrives at p and gets its code and position there.
LEMMA AddedOn ==
  ASSUME NEW b, IsBoard(b), NEW p, Room(b, p), NEW c, NEW code, NEW pos, pos # KeepPos,
         NEW e, e = [code |-> code, pos |-> pos],
         NEW adv, NEW rt, NEW s, Stepped(c, e, adv, rt) = s
  PROVE  StepAt(EmplaceCard(b, p, c), p, adv, rt, code, pos) = InsertCard(b, p, s)
<1> PICK d : InsertCard(b, p, c) = d
  OBVIOUS
<1>1. EmplaceCard(b, p, c) = d
  BY DEF Room, EmplaceCard, InsertCard, Emplace, PilePlace
<1>2. IsBoard(d) /\ Has(d, p) /\ GetCard(d, p) = c /\ EraseCard(d, p) = b
  BY BoardInserted
<1>3. StepAt(d, p, adv, rt, code, pos) =
        Relocated(d, p, p, Stepped(GetCard(d, p), [code |-> code, pos |-> pos], adv, rt))
  BY <1>2, SteppedAt
<1>4. StepAt(d, p, adv, rt, code, pos) = Relocated(d, p, p, s)
  BY <1>2, <1>3, Zenon
<1> QED
  BY <1>1, <1>2, <1>4 DEF Relocated

\* A card at p steps and leaves.
LEMMA LeavesFrom ==
  ASSUME NEW d, IsBoard(d), NEW p, Has(d, p), NEW code, NEW pos, pos # KeepPos,
         NEW e, e = [code |-> code, pos |-> pos], NEW c, GetCard(d, p) = c,
         NEW adv, NEW rt, NEW s, Stepped(c, e, adv, rt) = s,
         NEW a, StepAt(d, p, adv, rt, code, pos) = a
  PROVE  /\ EraseCard(a, p) = EraseCard(d, p)
         /\ GetCard(a, p) = s
<1>0. a = Relocated(d, p, p, Stepped(GetCard(d, p), [code |-> code, pos |-> pos], adv, rt))
  BY SteppedAt
<1>1. a = Relocated(d, p, p, s)
  BY <1>0, Zenon
<1> PICK b : EraseCard(d, p) = b
  OBVIOUS
<1>2. IsBoard(b) /\ Room(b, p)
  BY BoardErased
<1>3. a = InsertCard(b, p, s)
  BY <1>1 DEF Relocated
<1> QED
  BY <1>2, <1>3, BoardInserted

EditForm(m) == EditOf(m) = [code |-> m.code, pos |-> m.position]

\* The edit of an AddCard.
LEMMA AddEdit ==
  ASSUME NEW m, Adds(m)
  PROVE  EditForm(m) /\ m.position # KeepPos /\ EditOf(m) \in Edits
BY DEF Adds, EditOf, EditForm

\* HandleAddCard with a new message: a new card arrives (board.hpp:431-496).
LEMMA AddNew ==
  ASSUME NEW m, NEW at, HandleAddCard(m, at, TRUE, TRUE),
         NEW b, Cards = b, IsBoard(b), Adds(m), Room(b, m.place)
  PROVE  /\ tempCards' = tempCards
         /\ Cards' = InsertCard(b, m.place, Done(NewCard, EditOf(m)))
<1> PICK p : m.place = p
  OBVIOUS
<1> PICK e \in Edits : EditOf(m) = e
  BY AddEdit
<1> PICK k : m.code = k
  OBVIOUS
<1> PICK l : m.position = l
  OBVIOUS
<1>1. e = [code |-> k, pos |-> l] /\ l # KeepPos
  BY AddEdit DEF EditForm
<1> PICK x : Done(NewCard, e) = x
  OBVIOUS
<1>2. Stepped(NewCard, e, TRUE, TRUE) = x
  BY NewCardSteady, SteppedIs DEF Steady
<1>2a. Room(b, p)
  OBVIOUS
<1>2b. ASSUME NEW adv, NEW rt, Stepped(NewCard, e, adv, rt) = x
       PROVE  StepAt(EmplaceCard(b, p, NewCard), p, adv, rt, k, l) = InsertCard(b, p, x)
  BY <1>1, <1>2a, <1>2b, AddedOn
<1>3. StepAt(EmplaceCard(b, p, NewCard), p, TRUE, TRUE, k, l) = InsertCard(b, p, x)
  BY <1>2, <1>2b, Zenon
<1>4. /\ tempCards' = tempCards
      /\ CardsBecome(StepAt(EmplaceCard(Cards, m.place, NewCard), m.place, TRUE, TRUE,
                            m.code, m.position))
  BY Zenon DEF HandleAddCard, AddedCard
<1>5. IsBoard(InsertCard(b, p, x))
  BY BoardInserted
<1> PICK d : InsertCard(b, p, x) = d
  OBVIOUS
<1>6. CardsBecome(d)
  BY <1>3, <1>4
<1> QED
  BY <1>4, <1>5, <1>6, BoardBecomes

\* Played again: the card comes back from tempCards.
LEMMA AddAgain ==
  ASSUME NEW m, NEW at, HandleAddCard(m, at, TRUE, FALSE),
         NEW b, Cards = b, IsBoard(b), Adds(m), Room(b, m.place),
         NEW t, tempCards = t, TempOf(m, at) \in DOMAIN t,
         t[TempOf(m, at)] \in RecordedCards
  PROVE  /\ tempCards' = EraseKey(t, TempOf(m, at))
         /\ Cards' = InsertCard(b, m.place, Redone(t[TempOf(m, at)], EditOf(m)))
<1> PICK p : m.place = p
  OBVIOUS
<1> PICK y : TempOf(m, at) = y
  OBVIOUS
<1> PICK c \in RecordedCards : t[y] = c
  OBVIOUS
<1> PICK e \in Edits : EditOf(m) = e
  BY AddEdit
<1> PICK k : m.code = k
  OBVIOUS
<1> PICK l : m.position = l
  OBVIOUS
<1>1. e = [code |-> k, pos |-> l] /\ l # KeepPos
  BY AddEdit DEF EditForm
<1> PICK x : Redone(c, e) = x
  OBVIOUS
<1>2. Stepped(c, e, TRUE, FALSE) = x
  BY SteppedIs
<1>2a. Room(b, p)
  OBVIOUS
<1>2b. ASSUME NEW adv, NEW rt, Stepped(c, e, adv, rt) = x
       PROVE  StepAt(EmplaceCard(b, p, c), p, adv, rt, k, l) = InsertCard(b, p, x)
  BY <1>1, <1>2a, <1>2b, AddedOn
<1>3. StepAt(EmplaceCard(b, p, c), p, TRUE, FALSE, k, l) = InsertCard(b, p, x)
  BY <1>2, <1>2b, Zenon
<1>4. /\ tempCards' = EraseKey(tempCards, TempPlace(at, m.place))
      /\ CardsBecome(StepAt(EmplaceCard(Cards, m.place, TempCard(TempPlace(at, m.place))),
                            m.place, TRUE, FALSE, m.code, m.position))
  BY Zenon DEF HandleAddCard, AddedCard
<1>5. TempCard(y) = c /\ TempPlace(at, m.place) = y
  BY DEF TempCard, TempOf
<1>6. IsBoard(InsertCard(b, p, x))
  BY BoardInserted
<1> PICK d : InsertCard(b, p, x) = d
  OBVIOUS
<1>7. CardsBecome(d)
  BY <1>3, <1>4, <1>5
<1>8. tempCards' = EraseKey(t, y)
  BY <1>4, <1>5
<1> QED
  BY <1>6, <1>7, <1>8, BoardBecomes

\* Taken back: the card goes to tempCards.
LEMMA AddBack ==
  ASSUME NEW m, NEW at, HandleAddCard(m, at, FALSE, FALSE),
         NEW d, Cards = d, AllRecorded(d), Adds(m), Has(d, m.place),
         NEW t, tempCards = t, TempOf(m, at) \notin DOMAIN t
  PROVE  /\ tempCards' = PutKey(t, TempOf(m, at), Undone(GetCard(d, m.place), EditOf(m)))
         /\ Cards' = EraseCard(d, m.place)
<1> PICK p : m.place = p
  OBVIOUS
<1> PICK y : TempOf(m, at) = y
  OBVIOUS
<1> PICK c \in RecordedCards : GetCard(d, p) = c
  BY RecordedAt
<1> PICK e \in Edits : EditOf(m) = e
  BY AddEdit
<1> PICK k : m.code = k
  OBVIOUS
<1> PICK l : m.position = l
  OBVIOUS
<1>0. IsBoard(d)
  BY DEF AllRecorded, Lifted
<1>1. e = [code |-> k, pos |-> l] /\ l # KeepPos
  BY AddEdit DEF EditForm
<1> PICK x : Undone(c, e) = x
  OBVIOUS
<1>2. Stepped(c, e, FALSE, FALSE) = x
  BY SteppedIs
<1>2a. Has(d, p)
  OBVIOUS
<1>2b. ASSUME NEW adv, NEW rt, Stepped(c, e, adv, rt) = x,
              NEW a, StepAt(d, p, adv, rt, k, l) = a
       PROVE  EraseCard(a, p) = EraseCard(d, p) /\ GetCard(a, p) = x
  BY <1>0, <1>1, <1>2a, <1>2b, LeavesFrom
<1> PICK a : StepAt(d, p, FALSE, FALSE, k, l) = a
  OBVIOUS
<1>3. EraseCard(a, p) = EraseCard(d, p) /\ GetCard(a, p) = x
  BY <1>2, <1>2b, Zenon
<1>4. /\ tempCards' = Emplace(tempCards, TempPlace(at, m.place),
                              GetCard(StepAt(Cards, m.place, FALSE, FALSE, m.code, m.position),
                                      m.place))
      /\ CardsBecome(EraseCard(StepAt(Cards, m.place, FALSE, FALSE, m.code, m.position), m.place))
  BY Zenon DEF HandleAddCard
<1>5. tempCards' = Emplace(t, y, x) /\ CardsBecome(EraseCard(d, p))
  BY <1>3, <1>4 DEF TempOf
<1>6. Emplace(t, y, x) = PutKey(t, y, x)
  BY DEF Emplace
<1>7. IsBoard(EraseCard(d, p))
  BY <1>0, BoardErased
<1> PICK b : EraseCard(d, p) = b
  OBVIOUS
<1>8. Cards' = b
  BY <1>5, <1>7, BoardBecomes
<1> QED
  BY <1>5, <1>6, <1>8

\* HandleRemoveCard: the card goes to tempCards, and comes back from there.
LEMMA RemoveSteps ==
  ASSUME NEW m, NEW at, NEW b, Cards = b, IsBoard(b), NEW t, tempCards = t
  PROVE  /\ /\ HandleRemoveCard(m, at, TRUE)
            /\ Has(b, m.place) /\ TempOf(m, at) \notin DOMAIN t
            => /\ tempCards' = PutKey(t, TempOf(m, at), GetCard(b, m.place))
               /\ Cards' = EraseCard(b, m.place)
         /\ /\ HandleRemoveCard(m, at, FALSE)
            /\ Room(b, m.place) /\ TempOf(m, at) \in DOMAIN t
            => /\ tempCards' = EraseKey(t, TempOf(m, at))
               /\ Cards' = InsertCard(b, m.place, t[TempOf(m, at)])
<1> PICK p : m.place = p
  OBVIOUS
<1> PICK y : TempOf(m, at) = y
  OBVIOUS
<1>0. TempPlace(at, m.place) = y
  BY DEF TempOf
<1>1. ASSUME HandleRemoveCard(m, at, TRUE), Has(b, p), y \notin DOMAIN t
      PROVE  /\ tempCards' = PutKey(t, y, GetCard(b, p))
             /\ Cards' = EraseCard(b, p)
  <2>1. /\ tempCards' = Emplace(tempCards, TempPlace(at, m.place), GetCard(Cards, m.place))
        /\ CardsBecome(EraseCard(Cards, m.place))
    BY <1>1, Zenon DEF HandleRemoveCard
  <2>2. tempCards' = Emplace(t, y, GetCard(b, p)) /\ CardsBecome(EraseCard(b, p))
    BY <1>0, <2>1
  <2>3. Emplace(t, y, GetCard(b, p)) = PutKey(t, y, GetCard(b, p))
    BY <1>1 DEF Emplace
  <2>4. IsBoard(EraseCard(b, p))
    BY <1>1, BoardErased
  <2> PICK d : EraseCard(b, p) = d
    OBVIOUS
  <2>5. Cards' = d
    BY <2>2, <2>4, BoardBecomes
  <2> QED
    BY <2>2, <2>3, <2>5
<1>2. ASSUME HandleRemoveCard(m, at, FALSE), Room(b, p), y \in DOMAIN t
      PROVE  /\ tempCards' = EraseKey(t, y)
             /\ Cards' = InsertCard(b, p, t[y])
  <2>1. /\ tempCards' = EraseKey(tempCards, TempPlace(at, m.place))
        /\ CardsBecome(EmplaceCard(Cards, m.place, TempCard(TempPlace(at, m.place))))
    BY <1>2, Zenon DEF HandleRemoveCard
  <2>2. TempCard(y) = t[y]
    BY <1>2 DEF TempCard
  <2>3. tempCards' = EraseKey(t, y) /\ CardsBecome(EmplaceCard(b, p, t[y]))
    BY <1>0, <2>1, <2>2
  <2>4. EmplaceCard(b, p, t[y]) = InsertCard(b, p, t[y])
    BY <1>2 DEF Room, EmplaceCard, InsertCard, Emplace, PilePlace
  <2>5. IsBoard(InsertCard(b, p, t[y]))
    BY <1>2, BoardInserted
  <2> PICK d : InsertCard(b, p, t[y]) = d
    OBVIOUS
  <2>6. Cards' = d
    BY <2>3, <2>4, <2>5, BoardBecomes
  <2> QED
    BY <2>3, <2>6
<1> QED
  BY <1>1, <1>2, Zenon

\* Every handler is for messages of one type.
LEMMA HandlerTypes ==
  ASSUME NEW m, NEW at, NEW adv, NEW rt
  PROVE  /\ HandleUpdateCard(m, adv, rt) => m.type = "UpdateCard"
         /\ HandleAddCard(m, at, adv, rt) => m.type = "AddCard"
         /\ HandleRemoveCard(m, at, adv) => m.type = "RemoveCard"
         /\ HandleDraw(m, adv, rt) => m.type = "Draw"
         /\ HandleSwapCards(m, adv, rt) => m.type = "SwapCards"
         /\ HandleShuffleLocation(m, adv, rt) => m.type = "ShuffleLocation"
         /\ HandleShuffleSetCards(m, adv, rt) => m.type = "ShuffleSetCards"
         /\ HandleCounterChange(m, adv, rt) => m.type = "CounterChange"
<1>1. HandleUpdateCard(m, adv, rt) => m.type = "UpdateCard"
  BY Zenon DEF HandleUpdateCard
<1>2. HandleAddCard(m, at, adv, rt) => m.type = "AddCard"
  BY Zenon DEF HandleAddCard
<1>3. HandleRemoveCard(m, at, adv) => m.type = "RemoveCard"
  BY Zenon DEF HandleRemoveCard
<1>4. HandleDraw(m, adv, rt) => m.type = "Draw"
  BY Zenon DEF HandleDraw
<1>5. HandleSwapCards(m, adv, rt) => m.type = "SwapCards"
  BY Zenon DEF HandleSwapCards
<1>6. HandleShuffleLocation(m, adv, rt) => m.type = "ShuffleLocation"
  BY Zenon DEF HandleShuffleLocation
<1>7. HandleShuffleSetCards(m, adv, rt) => m.type = "ShuffleSetCards"
  BY Zenon DEF HandleShuffleSetCards
<1>8. HandleCounterChange(m, adv, rt) => m.type = "CounterChange"
  BY Zenon DEF HandleCounterChange
<1> QED
  BY <1>1, <1>2, <1>3, <1>4, <1>5, <1>6, <1>7, <1>8

OtherTypes == {"DisableZones", "LpChange", "NewTurn", "NewPhase"}

\* The handlers of registers and zones leave the cards alone.
LEMMA CardsStay ==
  ASSUME NEW m, NEW adv, NEW rt,
         \/ HandleDisableZones(m, adv, rt) \/ HandleLpChange(m, adv, rt)
         \/ HandleNewTurn(m, adv, rt) \/ HandleNewPhase(m, adv, rt) \/ IgnoreMsg(m)
  PROVE  /\ m.type \notin CardMsgs \cup {"CounterChange"}
         /\ Cards' = Cards /\ tempCards' = tempCards
<1>1. ASSUME HandleDisableZones(m, adv, rt)
      PROVE  m.type = "DisableZones" /\ UNCHANGED cardVars
  BY <1>1, Zenon DEF HandleDisableZones
<1>2. ASSUME HandleLpChange(m, adv, rt)
      PROVE  m.type = "LpChange" /\ UNCHANGED cardVars
  BY <1>2, Zenon DEF HandleLpChange
<1>3. ASSUME HandleNewTurn(m, adv, rt)
      PROVE  m.type = "NewTurn" /\ UNCHANGED cardVars
  BY <1>3, Zenon DEF HandleNewTurn
<1>4. ASSUME HandleNewPhase(m, adv, rt)
      PROVE  m.type = "NewPhase" /\ UNCHANGED cardVars
  BY <1>4, Zenon DEF HandleNewPhase
<1>5. ASSUME IgnoreMsg(m)
      PROVE  m.type \notin CriticalMsgs /\ UNCHANGED cardVars
  BY <1>5, Zenon DEF IgnoreMsg
<1>6. \/ m.type \in OtherTypes /\ UNCHANGED cardVars
      \/ m.type \notin CriticalMsgs /\ UNCHANGED cardVars
  BY <1>1, <1>2, <1>3, <1>4, <1>5, Zenon DEF OtherTypes
<1>7. Cards' = Cards /\ tempCards' = tempCards
  BY <1>6, Zenon DEF cardVars, Cards
<1> QED
  BY <1>6, <1>7 DEF OtherTypes, CriticalMsgs, CardMsgs

\* InterpretMsg is the handler of the message's type (board.hpp:239-271).
LEMMA Interpreted ==
  ASSUME NEW m, NEW at, NEW adv, NEW rt, InterpretMsg(m, at, adv, rt),
         m.type # "CounterChange"
  PROVE  \/ m.type = "UpdateCard" /\ HandleUpdateCard(m, adv, rt)
         \/ m.type = "AddCard" /\ HandleAddCard(m, at, adv, rt)
         \/ m.type = "RemoveCard" /\ HandleRemoveCard(m, at, adv)
         \/ m.type = "Draw" /\ HandleDraw(m, adv, rt)
         \/ m.type = "SwapCards" /\ HandleSwapCards(m, adv, rt)
         \/ m.type = "ShuffleLocation" /\ HandleShuffleLocation(m, adv, rt)
         \/ m.type = "ShuffleSetCards" /\ HandleShuffleSetCards(m, adv, rt)
         \/ m.type \notin CardMsgs /\ Cards' = Cards /\ tempCards' = tempCards
<1>1. \/ HandleUpdateCard(m, adv, rt) \/ HandleAddCard(m, at, adv, rt)
      \/ HandleRemoveCard(m, at, adv) \/ HandleDraw(m, adv, rt)
      \/ HandleSwapCards(m, adv, rt) \/ HandleShuffleLocation(m, adv, rt)
      \/ HandleShuffleSetCards(m, adv, rt) \/ HandleCounterChange(m, adv, rt)
      \/ \/ HandleDisableZones(m, adv, rt) \/ HandleLpChange(m, adv, rt)
         \/ HandleNewTurn(m, adv, rt) \/ HandleNewPhase(m, adv, rt) \/ IgnoreMsg(m)
  BY Zenon DEF InterpretMsg
<1>2. ASSUME \/ HandleDisableZones(m, adv, rt) \/ HandleLpChange(m, adv, rt)
             \/ HandleNewTurn(m, adv, rt) \/ HandleNewPhase(m, adv, rt) \/ IgnoreMsg(m)
      PROVE  m.type \notin CardMsgs /\ Cards' = Cards /\ tempCards' = tempCards
  BY <1>2, CardsStay
<1> QED
  BY <1>1, <1>2, HandlerTypes, Zenon

\* A new message, one that is played again, and one that is taken back, of
\* the ones that leave tempCards alone.
LEMMA BoardHandled ==
  ASSUME NEW m, NEW at, NEW b, Cards = b, AllRecorded(b), NEW d, IsBoard(d),
         m.type \notin {"CounterChange", "AddCard", "RemoveCard"}
  PROVE  /\ InterpretMsg(m, at, TRUE, TRUE) /\ FitsBoard(m, b) /\ d = NewBoard(m, b)
              => Cards' = d /\ tempCards' = tempCards
         /\ InterpretMsg(m, at, TRUE, FALSE) /\ FitsBoard(m, b) /\ d = RedoBoard(m, b)
              => Cards' = d /\ tempCards' = tempCards
         /\ InterpretMsg(m, at, FALSE, FALSE) /\ AfterBoard(m, b) /\ d = UndoBoard(m, b)
              => Cards' = d /\ tempCards' = tempCards
<1>1. CASE m.type = "UpdateCard"
  <2>0. NewBoard(m, b) = NewUpdate(m, b) /\ RedoBoard(m, b) = RedoUpdate(m, b)
        /\ UndoBoard(m, b) = UndoUpdate(m, b)
    BY <1>1 DEF NewBoard, RedoBoard, UndoBoard
  <2>1. /\ FitsBoard(m, b) => FitsUpdate(m, b)
        /\ AfterBoard(m, b) => AfterUpdate(m, b)
    BY <1>1, BoardTypes DEF FitsBoard, AfterBoard, CardMsgs
  <2>2. ASSUME NEW adv, NEW rt, InterpretMsg(m, at, adv, rt), UpdateCard(b, m, adv, rt) = {d}
        PROVE  Cards' = d /\ tempCards' = tempCards
    <3>1. HandleUpdateCard(m, adv, rt)
      BY <1>1, <2>2, Interpreted DEF CardMsgs
    <3>2. (\E c \in UpdateCard(Cards, m, adv, rt) : CardsBecome(c)) /\ tempCards' = tempCards
      BY <3>1, Zenon DEF HandleUpdateCard
    <3>3. CardsBecome(d)
      BY <2>2, <3>2
    <3> QED
      BY <3>2, <3>3, BoardBecomes
  <2>3. /\ FitsUpdate(m, b) =>
              /\ UpdateCard(b, m, TRUE, TRUE) = {NewUpdate(m, b)}
              /\ UpdateCard(b, m, TRUE, FALSE) = {RedoUpdate(m, b)}
        /\ AfterUpdate(m, b) => UpdateCard(b, m, FALSE, FALSE) = {UndoUpdate(m, b)}
    BY UpdateSteps
  <2> QED
    BY <2>0, <2>1, <2>2, <2>3, Zenon
<1>2. CASE m.type = "Draw"
  <2>0. NewBoard(m, b) = NewDraw(m, b) /\ RedoBoard(m, b) = RedoDraw(m, b)
        /\ UndoBoard(m, b) = UndoDraw(m, b)
    BY <1>2 DEF NewBoard, RedoBoard, UndoBoard
  <2>1. /\ FitsBoard(m, b) => FitsDraw(m, b)
        /\ AfterBoard(m, b) => AfterDraw(m, b)
    BY <1>2, BoardTypes DEF FitsBoard, AfterBoard, CardMsgs
  <2>2. ASSUME NEW adv, NEW rt, InterpretMsg(m, at, adv, rt)
        PROVE  HandleDraw(m, adv, rt)
    BY <1>2, <2>2, Interpreted DEF CardMsgs
  <2> QED
    BY <2>0, <2>1, <2>2, DrawSteps, Zenon
<1>3. CASE m.type = "ShuffleLocation"
  <2>0. NewBoard(m, b) = NewShuffle(m, b) /\ RedoBoard(m, b) = RedoShuffle(m, b)
        /\ UndoBoard(m, b) = UndoShuffle(m, b)
    BY <1>3 DEF NewBoard, RedoBoard, UndoBoard
  <2>1. /\ FitsBoard(m, b) => FitsShuffle(m, b)
        /\ AfterBoard(m, b) => FitsShuffle(m, b)
    BY <1>3, BoardTypes DEF FitsBoard, AfterBoard, CardMsgs
  <2>2. ASSUME NEW adv, NEW rt, InterpretMsg(m, at, adv, rt)
        PROVE  HandleShuffleLocation(m, adv, rt)
    BY <1>3, <2>2, Interpreted DEF CardMsgs
  <2> QED
    BY <2>0, <2>1, <2>2, ShuffleSteps, Zenon
<1>4. CASE m.type = "ShuffleSetCards"
  <2>0. NewBoard(m, b) = NewSet(m, b) /\ RedoBoard(m, b) = RedoSet(m, b)
        /\ UndoBoard(m, b) = UndoSet(m, b)
    BY <1>4 DEF NewBoard, RedoBoard, UndoBoard
  <2>1. /\ FitsBoard(m, b) => FitsSet(m, b)
        /\ AfterBoard(m, b) => FitsSet(m, b)
    BY <1>4, BoardTypes DEF FitsBoard, AfterBoard, CardMsgs
  <2>2. ASSUME NEW adv, NEW rt, InterpretMsg(m, at, adv, rt)
        PROVE  HandleShuffleSetCards(m, adv, rt)
    BY <1>4, <2>2, Interpreted DEF CardMsgs
  <2> QED
    BY <2>0, <2>1, <2>2, SetSteps, Zenon
<1>5. CASE m.type = "SwapCards"
  <2>0. NewBoard(m, b) = Swap(m, b) /\ RedoBoard(m, b) = Swap(m, b)
        /\ UndoBoard(m, b) = Swap(m, b)
    BY <1>5 DEF NewBoard, RedoBoard, UndoBoard
  <2>1. /\ FitsBoard(m, b) => FitsSwap(m, b)
        /\ AfterBoard(m, b) => FitsSwap(m, b)
    BY <1>5, BoardTypes DEF FitsBoard, AfterBoard, CardMsgs
  <2>2. ASSUME NEW adv, NEW rt, InterpretMsg(m, at, adv, rt), FitsSwap(m, b)
        PROVE  Cards' = Swap(m, b) /\ tempCards' = tempCards
    <3>1. HandleSwapCards(m, adv, rt)
      BY <1>5, <2>2, Interpreted DEF CardMsgs
    <3> QED
      BY <2>2, <3>1, SwapStepped
  <2> QED
    BY <2>0, <2>1, <2>2, Zenon
<1>6. CASE m.type \notin CardMsgs
  <2>0. NewBoard(m, b) = b /\ RedoBoard(m, b) = b /\ UndoBoard(m, b) = b
    BY <1>6 DEF NewBoard, RedoBoard, UndoBoard, CardMsgs
  <2>1. ASSUME NEW adv, NEW rt, InterpretMsg(m, at, adv, rt)
        PROVE  Cards' = b /\ tempCards' = tempCards
    BY <1>6, <2>1, Interpreted DEF CardMsgs
  <2> QED
    BY <2>0, <2>1, Zenon
<1> QED
  BY <1>1, <1>2, <1>3, <1>4, <1>5, <1>6 DEF CardMsgs

\* A new message leads to the world Fresh.
LEMMA HandledNew ==
  ASSUME NEW m, NEW at \in Nat, NEW n, NEW w, World = w, IsWorld(n, w), FitsMsg(m, w.board),
         TempOf(m, at) \notin DOMAIN w.temp, m.type # "CounterChange",
         NEW v, v = Fresh(m, at, w), IsBoard(v.board),
         InterpretMsg(m, at, TRUE, TRUE)
  PROVE  World' = v
<1> PICK b : Cards = b
  OBVIOUS
<1> PICK t : tempCards = t
  OBVIOUS
<1>0. w = WorldOf(b, t) /\ w.board = b /\ w.temp = t /\ AllRecorded(b) /\ IsBoard(b)
  BY DEF World, WorldOf, IsWorld, AllRecorded, Lifted
<1>1. CASE m.type = "AddCard"
  <2>1. Adds(m) /\ Room(b, m.place)
    BY <1>0, <1>1, MsgTypes
  <2>2. HandleAddCard(m, at, TRUE, TRUE)
    BY <1>1, Interpreted, Zenon DEF CardMsgs
  <2>3. /\ tempCards' = t
        /\ Cards' = InsertCard(b, m.place, Done(NewCard, EditOf(m)))
    BY <1>0, <2>1, <2>2, AddNew
  <2>4. v = WorldOf(InsertCard(b, m.place, Done(NewCard, EditOf(m))), t)
    BY <1>0, <1>1 DEF Fresh
  <2> QED
    BY <2>3, <2>4, WorldNext
<1>2. CASE m.type = "RemoveCard"
  <2>1. Has(b, m.place)
    BY <1>0, <1>2, MsgTypes
  <2>2. HandleRemoveCard(m, at, TRUE)
    BY <1>2, Interpreted, Zenon DEF CardMsgs
  <2>3. /\ tempCards' = PutKey(t, TempOf(m, at), GetCard(b, m.place))
        /\ Cards' = EraseCard(b, m.place)
    BY <1>0, <2>1, <2>2, RemoveSteps, Zenon
  <2>4. v = WorldOf(EraseCard(b, m.place), PutKey(t, TempOf(m, at), GetCard(b, m.place)))
    BY <1>0, <1>2 DEF Fresh
  <2> QED
    BY <2>3, <2>4, WorldNext
<1>3. CASE m.type \notin {"AddCard", "RemoveCard"}
  <2>1. FitsBoard(m, b)
    BY <1>0, <1>3, MsgTypes
  <2> PICK d : NewBoard(m, b) = d
    OBVIOUS
  <2>2. v = WorldOf(d, t) /\ IsBoard(d)
    BY <1>0, <1>3, WorldParts DEF Fresh
  <2>3. Cards' = d /\ tempCards' = t
    <3>1. InterpretMsg(m, at, TRUE, TRUE)
      OBVIOUS
    <3>2. m.type \notin {"CounterChange", "AddCard", "RemoveCard"}
      BY <1>3
    <3>3. InterpretMsg(m, at, TRUE, TRUE) /\ FitsBoard(m, b) /\ d = NewBoard(m, b)
            => Cards' = d /\ tempCards' = tempCards
      BY <1>0, <2>2, <3>2, BoardHandled
    <3> QED
      BY <2>1, <3>1, <3>3, Zenon
  <2> QED
    BY <2>2, <2>3, WorldNext
<1> QED
  BY <1>1, <1>2, <1>3

\* Along a link, a message that is played again leads on.
LEMMA HandledAgain ==
  ASSUME NEW m, NEW at, NEW n, NEW w, NEW v, Link(m, at, n, w, v), World = w,
         m.type # "CounterChange", InterpretMsg(m, at, TRUE, FALSE)
  PROVE  World' = v
<1> PICK b : Cards = b
  OBVIOUS
<1> PICK t : tempCards = t
  OBVIOUS
<1>0. /\ w = WorldOf(b, t) /\ w.board = b /\ w.temp = t /\ AllRecorded(b) /\ IsBoard(b)
      /\ TempOK(n, t) /\ FitsMsg(m, b) /\ TempFits(m, at, t) /\ v = Redo(m, at, w)
      /\ IsBoard(v.board)
  BY DEF World, WorldOf, IsWorld, AllRecorded, Lifted, Link
<1>1. CASE m.type = "AddCard"
  <2>1. Adds(m) /\ Room(b, m.place)
    BY <1>0, <1>1, MsgTypes
  <2>2. HandleAddCard(m, at, TRUE, FALSE)
    BY <1>1, Interpreted, Zenon DEF CardMsgs
  <2>3. TempOf(m, at) \in DOMAIN t
    BY <1>0, <1>1 DEF TempFits
  <2>4. t[TempOf(m, at)] \in RecordedCards
    BY <1>0, <2>3 DEF TempOK, Steady
  <2>5. /\ tempCards' = EraseKey(t, TempOf(m, at))
        /\ Cards' = InsertCard(b, m.place, Redone(t[TempOf(m, at)], EditOf(m)))
    BY <1>0, <2>1, <2>2, <2>3, <2>4, AddAgain
  <2>6. v = WorldOf(InsertCard(b, m.place, Redone(t[TempOf(m, at)], EditOf(m))),
                    EraseKey(t, TempOf(m, at)))
    BY <1>0, <1>1 DEF Redo
  <2> QED
    BY <2>5, <2>6, WorldNext
<1>2. CASE m.type = "RemoveCard"
  <2>1. Has(b, m.place)
    BY <1>0, <1>2, MsgTypes
  <2>2. HandleRemoveCard(m, at, TRUE)
    BY <1>2, Interpreted, Zenon DEF CardMsgs
  <2>a. TempOf(m, at) \notin DOMAIN t
    BY <1>0, <1>2 DEF TempFits
  <2>3. /\ tempCards' = PutKey(t, TempOf(m, at), GetCard(b, m.place))
        /\ Cards' = EraseCard(b, m.place)
    BY <1>0, <2>1, <2>2, <2>a, RemoveSteps, Zenon
  <2>4. v = WorldOf(EraseCard(b, m.place), PutKey(t, TempOf(m, at), GetCard(b, m.place)))
    BY <1>0, <1>2 DEF Redo
  <2> QED
    BY <2>3, <2>4, WorldNext
<1>3. CASE m.type \notin {"AddCard", "RemoveCard"}
  <2>1. FitsBoard(m, b)
    BY <1>0, <1>3, MsgTypes
  <2> PICK d : RedoBoard(m, b) = d
    OBVIOUS
  <2>2. v = WorldOf(d, t) /\ IsBoard(d)
    BY <1>0, <1>3, WorldParts DEF Redo
  <2>3. Cards' = d /\ tempCards' = t
    <3>1. InterpretMsg(m, at, TRUE, FALSE)
      OBVIOUS
    <3>2. m.type \notin {"CounterChange", "AddCard", "RemoveCard"}
      BY <1>3
    <3>3. InterpretMsg(m, at, TRUE, FALSE) /\ FitsBoard(m, b) /\ d = RedoBoard(m, b)
            => Cards' = d /\ tempCards' = tempCards
      BY <1>0, <2>2, <3>2, BoardHandled
    <3> QED
      BY <2>1, <3>1, <3>3, Zenon
  <2> QED
    BY <2>2, <2>3, WorldNext
<1> QED
  BY <1>1, <1>2, <1>3

\* Along a link, a message that is taken back leads back.
LEMMA HandledBack ==
  ASSUME NEW m, NEW at, NEW n, NEW w, NEW v, Link(m, at, n, w, v), World = v,
         m.type # "CounterChange", InterpretMsg(m, at, FALSE, FALSE)
  PROVE  World' = w
<1> PICK d : Cards = d
  OBVIOUS
<1> PICK t : tempCards = t
  OBVIOUS
<1>0. /\ v = WorldOf(d, t) /\ v.board = d /\ v.temp = t /\ AllRecorded(d) /\ IsBoard(d)
      /\ TempOK(n, t) /\ AfterMsg(m, d) /\ TempAfter(m, at, t) /\ w = Undo(m, at, v)
      /\ IsBoard(w.board)
  BY DEF World, WorldOf, IsWorld, AllRecorded, Lifted, Link
<1>1. CASE m.type = "AddCard"
  <2>1. Adds(m) /\ Has(d, m.place)
    BY <1>0, <1>1, MsgTypes
  <2>2. HandleAddCard(m, at, FALSE, FALSE)
    BY <1>1, Interpreted, Zenon DEF CardMsgs
  <2>3. TempOf(m, at) \notin DOMAIN t
    BY <1>0, <1>1 DEF TempAfter
  <2>5. /\ tempCards' = PutKey(t, TempOf(m, at), Undone(GetCard(d, m.place), EditOf(m)))
        /\ Cards' = EraseCard(d, m.place)
    BY <1>0, <2>1, <2>2, <2>3, AddBack
  <2>6. w = WorldOf(EraseCard(d, m.place),
                    PutKey(t, TempOf(m, at), Undone(GetCard(d, m.place), EditOf(m))))
    BY <1>0, <1>1 DEF Undo
  <2> QED
    BY <2>5, <2>6, WorldNext
<1>2. CASE m.type = "RemoveCard"
  <2>1. Room(d, m.place)
    BY <1>0, <1>2, MsgTypes
  <2>2. HandleRemoveCard(m, at, FALSE)
    BY <1>2, Interpreted, Zenon DEF CardMsgs
  <2>a. TempOf(m, at) \in DOMAIN t
    BY <1>0, <1>2 DEF TempAfter
  <2>3. /\ tempCards' = EraseKey(t, TempOf(m, at))
        /\ Cards' = InsertCard(d, m.place, t[TempOf(m, at)])
    BY <1>0, <2>1, <2>2, <2>a, RemoveSteps, Zenon
  <2>4. w = WorldOf(InsertCard(d, m.place, t[TempOf(m, at)]), EraseKey(t, TempOf(m, at)))
    BY <1>0, <1>2 DEF Undo
  <2> QED
    BY <2>3, <2>4, WorldNext
<1>3. CASE m.type \notin {"AddCard", "RemoveCard"}
  <2>1. AfterBoard(m, d)
    BY <1>0, <1>3, MsgTypes
  <2> PICK b : UndoBoard(m, d) = b
    OBVIOUS
  <2>2. w = WorldOf(b, t) /\ IsBoard(b)
    BY <1>0, <1>3, WorldParts DEF Undo
  <2>3. Cards' = b /\ tempCards' = t
    <3>1. InterpretMsg(m, at, FALSE, FALSE)
      OBVIOUS
    <3>2. m.type \notin {"CounterChange", "AddCard", "RemoveCard"}
      BY <1>3
    <3>3. InterpretMsg(m, at, FALSE, FALSE) /\ AfterBoard(m, d) /\ b = UndoBoard(m, d)
            => Cards' = b /\ tempCards' = tempCards
      BY <1>0, <2>2, <3>2, BoardHandled
    <3> QED
      BY <2>1, <3>1, <3>3, Zenon
  <2> QED
    BY <2>2, <2>3, WorldNext
<1> QED
  BY <1>1, <1>2, <1>3

----------------------------------------------------------------------------
(* The tables of the duel *)

CardsOf(t) == [piles |-> t.piles, zones |-> t.zones]

\* The table r with the cards of b.
TableOf(b, r) ==
  [piles |-> b.piles, zones |-> b.zones, lp |-> r.lp, turn |-> r.turn,
   turnPlayer |-> r.turnPlayer, phase |-> r.phase, disabled |-> r.disabled]

\* The parts of a table.
LEMMA TableParts ==
  ASSUME NEW b, IsBoard(b), NEW r, NEW t, t = TableOf(b, r)
  PROVE  /\ CardsOf(t) = b /\ t.zones = b.zones /\ t.piles = b.piles
         /\ t.lp = r.lp /\ t.turn = r.turn /\ t.turnPlayer = r.turnPlayer
         /\ t.phase = r.phase /\ t.disabled = r.disabled
         /\ TableOf(b, t) = t
         /\ \A p : GetPile(t, p) = GetPile(b, p)
BY DEF IsBoard, CardsOf, TableOf, GetPile

\* Replacing a pile, or the zones, of a table.
LEMMA TablePut ==
  ASSUME NEW b, IsBoard(b), NEW r, NEW t, t = TableOf(b, r)
  PROVE  /\ \A p, s : PutPile(t, p, s) = TableOf(PutPile(b, p, s), r)
         /\ \A z : [t EXCEPT !.zones = z] = TableOf(WithZones(b, z), r)
<1>1. ASSUME NEW p, NEW s
      PROVE  PutPile(t, p, s) = TableOf(PutPile(b, p, s), r)
  <2> PICK ps : PileWith(b.piles, p.con, p.loc, s) = ps
    OBVIOUS
  <2>1. PutPile(t, p, s) = [t EXCEPT !.piles = ps]
    BY DEF PutPile, PileWith, TableOf
  <2>2. PutPile(b, p, s) = [b EXCEPT !.piles = ps]
    BY DEF PutPile, PileWith
  <2>3. PutPile(b, p, s) = [piles |-> ps, zones |-> b.zones]
    BY <2>2 DEF IsBoard
  <2> QED
    BY <2>1, <2>3 DEF TableOf
<1>2. ASSUME NEW z
      PROVE  [t EXCEPT !.zones = z] = TableOf(WithZones(b, z), r)
  <2>1. WithZones(b, z) = [piles |-> b.piles, zones |-> z]
    BY DEF WithZones, IsBoard
  <2> QED
    BY <2>1 DEF TableOf
<1> QED
  BY <1>1, <1>2

\* Taking out, putting in and changing a card of a table.
LEMMA TableCards ==
  ASSUME NEW b, IsBoard(b), NEW r, NEW t, t = TableOf(b, r), NEW p
  PROVE  /\ EraseCard(t, p) = TableOf(EraseCard(b, p), r)
         /\ \A x : InsertCard(t, p, x) = TableOf(InsertCard(b, p, x), r)
         /\ \A x : SetCard(t, p, x) = TableOf(SetCard(b, p, x), r)
<1>1. GetPile(t, p) = GetPile(b, p) /\ t.zones = b.zones
  BY TableParts
<1>2. EraseCard(t, p) = TableOf(EraseCard(b, p), r)
  BY <1>1, TablePut DEF EraseCard, WithZones
<1>3. ASSUME NEW x
      PROVE  InsertCard(t, p, x) = TableOf(InsertCard(b, p, x), r)
  BY <1>1, TablePut DEF InsertCard, WithZones
<1>4. ASSUME NEW x
      PROVE  SetCard(t, p, x) = TableOf(SetCard(b, p, x), r)
  BY <1>1, TablePut DEF SetCard, WithZones
<1> QED
  BY <1>2, <1>3, <1>4

\* The materials of a monster are numbered from 0 without a gap.
Stacked(z) ==
  \A x \in DOMAIN z : x.loc = "OVERLAY" =>
    /\ x = OverlayPlace(x.con, x.seq, x.oseq) /\ x.oseq \in Nat
    /\ Below(x) \in DOMAIN z

\* A material that nothing lies on leaves no gap.
LEMMA GapClosed ==
  ASSUME NEW z, IsMap(z), Stacked(z), NEW p \in DOMAIN z, p.loc = "OVERLAY",
         \A q \in DOMAIN z : ~(q.loc = "OVERLAY" /\ Below(q) = p)
  PROVE  CloseOverlayGap(EraseKey(z, p), p) = EraseKey(z, p)
<1> PICK k \in Nat : p.oseq = k
  BY DEF Stacked
<1>1. p = OverlayPlace(p.con, p.seq, k)
  BY DEF Stacked
<1>2. ASSUME NEW x \in DOMAIN z, x.loc = "OVERLAY", x.con = p.con, x.seq = p.seq,
             x.oseq >= k
      PROVE  x = p
  <2> PICK n \in Nat : x.oseq = n
    BY <1>2 DEF Stacked
  <2>1. x = OverlayPlace(p.con, p.seq, n)
    BY <1>2 DEF Stacked
  <2> SUFFICES ASSUME n > k
               PROVE  FALSE
    BY <1>1, <1>2, <2>1
  <2> DEFINE S == {i \in Nat : OverlayPlace(p.con, p.seq, i) \in DOMAIN z}
  <2>2. n \in S
    BY <2>1
  <2>3. ASSUME NEW i \in 0 .. n - 1, i + 1 \in S
        PROVE  i \in S
    <3> PICK j \in Nat : i + 1 = j
      OBVIOUS
    <3> PICK y : OverlayPlace(p.con, p.seq, j) = y
      OBVIOUS
    <3>1. y \in DOMAIN z /\ j # 0 /\ j - 1 = i
      BY <2>3
    <3>2. y.loc = "OVERLAY" /\ y.oseq = j
      BY DEF OverlayPlace
    <3>3. Below(y) = [y EXCEPT !.oseq = j - 1]
      BY <3>1, <3>2 DEF Below
    <3>4. Below(y) = OverlayPlace(p.con, p.seq, i)
      BY <3>1, <3>3 DEF OverlayPlace
    <3>5. Below(y) \in DOMAIN z
      BY <3>1, <3>2 DEF Stacked
    <3> QED
      BY <3>4, <3>5
  <2> HIDE DEF S
  <2>4. 0 .. n \subseteq S
    BY <2>2, <2>3, Descent
  <2> PICK j \in Nat : k + 1 = j
    OBVIOUS
  <2>5. j \in S /\ j # 0 /\ j - 1 = k
    <3>1. j \in 0 .. n
      OBVIOUS
    <3> QED
      BY <2>4, <3>1
  <2> PICK y : OverlayPlace(p.con, p.seq, j) = y
    OBVIOUS
  <2>6. y \in DOMAIN z
    BY <2>5 DEF S
  <2>7. y.loc = "OVERLAY" /\ y.oseq = j
    BY DEF OverlayPlace
  <2>8. Below(y) = [y EXCEPT !.oseq = j - 1]
    BY <2>5, <2>7 DEF Below
  <2>9. Below(y) = OverlayPlace(p.con, p.seq, k)
    BY <2>5, <2>8 DEF OverlayPlace
  <2> QED
    BY <1>1, <2>6, <2>7, <2>9
<1> PICK y : EraseKey(z, p) = y
  OBVIOUS
<1>3. IsMap(y) /\ DOMAIN y = DOMAIN z \ {p}
  BY DEF EraseKey, IsMap
<1> DEFINE above(q) == /\ q.loc = "OVERLAY" /\ q.con = p.con
                       /\ q.seq = p.seq /\ q.oseq >= p.oseq
           up(q) == IF above(q) THEN [q EXCEPT !.oseq = @ + 1] ELSE q
           D == {q \in DOMAIN y \cup {p} : up(q) \in DOMAIN y}
<1>4. CloseOverlayGap(y, p) = [q \in D |-> y[up(q)]]
  BY DEF CloseOverlayGap
<1>5. ASSUME NEW q \in DOMAIN y
      PROVE  up(q) = q
  BY <1>2, <1>3
<1>6. up(p) \notin DOMAIN y
  <2> PICK j \in Nat : k + 1 = j
    OBVIOUS
  <2> PICK x : [p EXCEPT !.oseq = @ + 1] = x
    OBVIOUS
  <2>1. above(p)
    OBVIOUS
  <2>2. up(p) = x
    BY <2>1
  <2>3. x = OverlayPlace(p.con, p.seq, j)
    BY <1>1 DEF OverlayPlace
  <2>4. x.loc = "OVERLAY" /\ x.con = p.con /\ x.seq = p.seq /\ x.oseq = j
    BY <2>3 DEF OverlayPlace
  <2>5. x # p
    BY <2>4
  <2> QED
    BY <1>2, <1>3, <2>2, <2>4, <2>5
<1> HIDE DEF up
<1>7. D = DOMAIN y
  BY <1>5, <1>6
<1> HIDE DEF D
<1>8. [q \in D |-> y[up(q)]] = [q \in DOMAIN y |-> y[q]]
  BY <1>5, <1>7
<1> QED
  BY <1>3, <1>4, <1>8 DEF IsMap

----------------------------------------------------------------------------
(* The places the core may use *)

\* All the cards on the field are in zones the messages are about, and the
\* materials are stacked.
Ground(z) ==
  /\ DOMAIN z \subseteq ActiveZones
  /\ \A x \in DOMAIN z : x.loc = "OVERLAY" => Below(x) \in DOMAIN z

Uncovered(z, p) == \A q \in DOMAIN z : ~(q.loc = "OVERLAY" /\ Below(q) = p)

\* The materials on such a field are stacked.
LEMMA GroundStacked ==
  ASSUME NEW z, Ground(z)
  PROVE  Stacked(z)
BY PlacesAssumption DEF Ground, Stacked

\* The field stays such a field when a card leaves it or arrives.
LEMMA GroundChanges ==
  ASSUME NEW z, Ground(z)
  PROVE  /\ \A p : Uncovered(z, p) => Ground(EraseKey(z, p))
         /\ \A p, x : /\ p \in ActiveZones
                      /\ p.loc = "OVERLAY" => Below(p) \in DOMAIN z
                      => Ground(PutKey(z, p, x))
<1>1. ASSUME NEW p, Uncovered(z, p)
      PROVE  Ground(EraseKey(z, p))
  BY <1>1 DEF Ground, EraseKey, Uncovered
<1>2. ASSUME NEW p, NEW x, p \in ActiveZones,
             p.loc = "OVERLAY" => Below(p) \in DOMAIN z
      PROVE  Ground(PutKey(z, p, x))
  BY <1>2 DEF Ground, PutKey
<1> QED
  BY <1>1, <1>2

\* There is a card where the core takes one.
LEMMA OccupiedHas ==
  ASSUME NEW t, NEW b, CardsOf(t) = b, IsBoard(b), Ground(b.zones),
         NEW p \in OccupiedPlaces(t)
  PROVE  /\ Has(b, p)
         /\ ~IsPile(p) => p \in DOMAIN b.zones /\ Uncovered(b.zones, p)
<1>0. t.zones = b.zones /\ t.piles = b.piles
  BY DEF CardsOf
<1>1. CASE p \in PilePlaces(t)
  <2> PICK con \in Players, loc \in PileLocations :
         \E i \in DOMAIN b.piles[con][loc] : p = Place(con, loc, i - 1)
    BY <1>0, <1>1 DEF PilePlaces
  <2> PICK s : b.piles[con][loc] = s
    OBVIOUS
  <2>1. IsSeq(s)
    BY DEF IsBoard
  <2> PICK n \in Nat : Len(s) = n
    BY <2>1, SeqIsFunction
  <2>2. DOMAIN s = 1 .. n
    BY <2>1, SeqIsFunction
  <2> PICK i \in 1 .. n : p = Place(con, loc, i - 1)
    BY <2>2
  <2>3. p.con = con /\ p.loc = loc /\ p.seq = i - 1
    BY DEF Place
  <2>4. PilePlace(p)
    BY <2>3 DEF PilePlace, IsPile, PileLocations, FieldLocations, Place
  <2>5. GetPile(b, p) = s /\ p.seq + 1 \in 1 .. n
    BY <2>3 DEF GetPile
  <2> QED
    BY <2>4, <2>5 DEF Has, PilePlace
<1>2. CASE p \in DOMAIN t.zones /\ ~IsCovered(t, p)
  <2>1. ~IsPile(p)
    BY <1>0, <1>2, PlacesAssumption DEF Ground, IsPile
  <2> QED
    BY <1>0, <1>2, <2>1 DEF Has, Uncovered, IsCovered
<1> QED
  BY <1>1, <1>2 DEF OccupiedPlaces

\* There is room where the core puts one.
LEMMA DestinationRoom ==
  ASSUME NEW t, NEW b, CardsOf(t) = b, IsBoard(b), NEW p \in Destinations(t)
  PROVE  /\ Room(b, p)
         /\ ~IsPile(p) => /\ p \in ActiveZones
                          /\ p.loc = "OVERLAY" => Below(p) \in DOMAIN b.zones
<1>0. t.zones = b.zones /\ t.piles = b.piles
  BY DEF CardsOf
<1>1. CASE p \in Insertions(t)
  <2> PICK o \in ActivePiles : \E i \in 0 .. Len(GetPile(t, o)) : p = [o EXCEPT !.seq = i]
    BY <1>1 DEF Insertions
  <2>1. o = Place(o.con, o.loc, 0) /\ o.con \in Players /\ o.loc \in PileLocations
    BY PlacesAssumption
  <2> PICK s : GetPile(b, o) = s
    OBVIOUS
  <2>2. GetPile(t, o) = s /\ IsSeq(s)
    BY <1>0, <2>1 DEF GetPile, IsBoard
  <2> PICK n \in Nat : Len(s) = n
    BY <2>2, SeqIsFunction
  <2> PICK i \in 0 .. n : p = [o EXCEPT !.seq = i]
    BY <2>2
  <2>3. p = Place(o.con, o.loc, i)
    BY <2>1 DEF Place
  <2>4. p.con = o.con /\ p.loc = o.loc /\ p.seq = i
    BY <2>3 DEF Place
  <2>5. PilePlace(p)
    BY <2>1, <2>3, <2>4 DEF PilePlace, IsPile, PileLocations, FieldLocations
  <2>6. GetPile(b, p) = s
    BY <2>4 DEF GetPile
  <2> QED
    BY <2>4, <2>5, <2>6 DEF Room, PilePlace
<1>2. CASE p \in FreeZones(t)
  <2>1. p \in ActiveZones \ DOMAIN b.zones /\ (p.loc = "OVERLAY" => Below(p) \in DOMAIN b.zones)
    BY <1>0, <1>2 DEF FreeZones
  <2>2. ~IsPile(p)
    BY <2>1, PlacesAssumption DEF IsPile
  <2> QED
    BY <2>1, <2>2 DEF Room
<1> QED
  BY <1>1, <1>2 DEF Destinations

\* The table without a card.
LEMMA TakenIs ==
  ASSUME NEW b, IsBoard(b), Ground(b.zones), NEW t, TableOf(b, t) = t,
         NEW p \in OccupiedPlaces(t)
  PROVE  /\ TakenFrom(t, p) = TableOf(EraseCard(b, p), t)
         /\ Ground(EraseCard(b, p).zones)
<1> PICK z : b.zones = z
  OBVIOUS
<1>0. CardsOf(t) = b
  BY TableParts
<1>1. /\ Has(b, p)
      /\ ~IsPile(p) => p \in DOMAIN z /\ Uncovered(z, p)
  BY <1>0, OccupiedHas
<1> PICK e : EraseCard(b, p) = e
  OBVIOUS
<1> PICK u : EraseCard(t, p) = u
  OBVIOUS
<1>2. u = TableOf(e, t) /\ IsBoard(e)
  BY <1>1, TableCards, BoardErased
<1>3. u.zones = e.zones
  BY <1>2, TableParts
<1>4. CASE IsPile(p)
  <2>1. p.loc # "OVERLAY"
    BY <1>4 DEF IsPile, FieldLocations
  <2>2. e.zones = z
    BY <1>4 DEF EraseCard, PutPile, IsBoard
  <2> QED
    BY <1>2, <2>1, <2>2 DEF TakenFrom
<1>5. CASE ~IsPile(p)
  <2>1. e = WithZones(b, EraseKey(z, p))
    BY <1>5 DEF EraseCard, WithZones
  <2> PICK y : EraseKey(z, p) = y
    OBVIOUS
  <2>2. e.zones = y
    BY <2>1, BoardZones
  <2>3. Ground(y)
    BY <1>1, <1>5, GroundChanges
  <2>4. CASE p.loc = "OVERLAY"
    <3>1. CloseOverlayGap(y, p) = y
      BY <1>1, <1>5, <2>4, GapClosed, GroundStacked DEF Uncovered, IsBoard
    <3>2. TakenFrom(t, p) = [u EXCEPT !.zones = CloseOverlayGap(u.zones, p)]
      BY <2>4 DEF TakenFrom
    <3>3. TakenFrom(t, p) = [u EXCEPT !.zones = y]
      BY <1>3, <2>2, <3>1, <3>2
    <3>4. [u EXCEPT !.zones = y] = TableOf(WithZones(e, y), t)
      BY <1>2, TablePut
    <3>5. WithZones(e, y) = e
      BY <1>2, <2>2, BoardZones
    <3> QED
      BY <2>2, <2>3, <3>3, <3>4, <3>5
  <2>5. CASE p.loc # "OVERLAY"
    BY <1>2, <2>2, <2>3, <2>5 DEF TakenFrom
  <2> QED
    BY <2>4, <2>5
<1> QED
  BY <1>4, <1>5

IsShown(b) == \E c : Lifted(ShowsLast, c, b)

\* The cards of a table that a client may show.
GoodCards(b) == IsShown(b) /\ Ground(b.zones)

\* What the table becomes is what the message says, and it can be applied.
Applies(m, b, t) ==
  /\ FitsMsg(m, b) /\ Effect(t, m) = TableOf(Plain(m, b), t)
  /\ Ground(Plain(m, b).zones)
  /\ m.type \in CardMsgs

\* The cards of a table are plain cards.
LEMMA ShownBoard ==
  ASSUME NEW b, IsShown(b)
  PROVE  IsBoard(b) /\ \A p : Has(b, p) => GetCard(b, p) \in PlainCards
<1> PICK c : Lifted(ShowsLast, c, b)
  BY DEF IsShown
<1>1. IsBoard(b) /\ IsBoard(c)
  BY DEF Lifted
<1>2. ASSUME NEW p, Has(b, p)
      PROVE  GetCard(b, p) \in PlainCards
  <2>1. Has(c, p)
    BY <1>2 DEF Lifted, SeqLifted, Has, GetPile, PilePlace
  <2>2. <<GetCard(c, p), GetCard(b, p)>> \in ShowsLast
    BY <2>1, LiftedAt
  <2> QED
    BY <2>2 DEF ShowsLast, Shows
<1> QED
  BY <1>1, <1>2

\* A plain card with another code and position.
LEMMA ReplacedPlain ==
  ASSUME NEW c \in PlainCards, NEW code, NEW pos
  PROVE  Replaced(c, code, pos) = PlainCard(code, pos)
<1> PICK k : [type \in CounterTypes |-> 0] = k
  OBVIOUS
<1>1. c = [code |-> c.code, pos |-> c.pos, counters |-> k]
  BY DEF PlainCards
<1> PICK d : Replaced(c, code, pos) = d
  OBVIOUS
<1>2. d = [c EXCEPT !.code = code, !.pos = pos]
  BY DEF Replaced
<1>3. d = [code |-> code, pos |-> pos, counters |-> k]
  BY <1>1, <1>2 DEF PlainCards
<1> QED
  BY <1>3 DEF PlainCard

\* Putting in and changing a card of a table.
LEMMA TableInsert ==
  ASSUME NEW b, IsBoard(b), NEW r, NEW p, NEW x
  PROVE  /\ InsertCard(TableOf(b, r), p, x) = TableOf(InsertCard(b, p, x), r)
         /\ SetCard(TableOf(b, r), p, x) = TableOf(SetCard(b, p, x), r)
<1> PICK t : t = TableOf(b, r)
  OBVIOUS
<1> QED
  BY TableCards

\* A move can be applied to the board, and changes the table like the board.
LEMMA MoveApplies ==
  ASSUME NEW t, NEW b, TableOf(b, t) = t, GoodCards(b), NEW m \in MoveMsgs(t)
  PROVE  Applies(m, b, t)
<1>0. IsBoard(b) /\ CardsOf(t) = b /\ Ground(b.zones)
  BY ShownBoard, TableParts DEF GoodCards
<1> PICK p \in OccupiedPlaces(t), q \in Destinations(t), code \in Codes, pos \in Positions :
        /\ ~SamePile(p, q) /\ (q.loc = "OVERLAY" => p # Below(q))
        /\ m = [type |-> "UpdateCard", reason |-> "MOVE", previous |-> p,
                current |-> q, code |-> code, position |-> pos]
  BY DEF MoveMsgs, Moves, Updates
<1>1. /\ m.type = "UpdateCard" /\ m.reason = "MOVE" /\ m.previous = p /\ m.current = q
      /\ m.code = code /\ m.position = pos
  OBVIOUS
<1>2. code \in Nat /\ pos \in Nat /\ pos # KeepPos
  BY TableAssumption DEF KeepPos
<1>3. EditOf(m) = [code |-> code, pos |-> pos] /\ EditOf(m) \in Edits
  BY <1>1, <1>2 DEF EditOf, Edits
<1> PICK z : b.zones = z
  OBVIOUS
<1>4. /\ Has(b, p)
      /\ ~IsPile(p) => p \in DOMAIN z /\ Uncovered(z, p)
  BY <1>0, OccupiedHas
<1>5. /\ Room(b, q)
      /\ ~IsPile(q) => /\ q \in ActiveZones
                       /\ q.loc = "OVERLAY" => Below(q) \in DOMAIN z
  BY <1>0, DestinationRoom
<1> PICK e : EraseCard(b, p) = e
  OBVIOUS
<1>6. Room(e, q) /\ IsBoard(e)
  <2>1. IsBoard(e)
    BY <1>0, <1>4, BoardErased
  <2> QED
    BY <1>0, <1>4, <1>5, <2>1, RoomErased
<1>7. FitsUpdate(m, b)
  <2>1. IsUpdate(m)
    BY <1>1, <1>2, <1>3 DEF IsUpdate, UpdateReasons
  <2>2. From(m, b) = p /\ To(m, b) = q
    BY <1>1 DEF From, To
  <2> QED
    BY <1>4, <1>6, <2>1, <2>2 DEF FitsUpdate, Movable
<1>8. TakenFrom(t, p) = TableOf(e, t) /\ Ground(e.zones)
  BY <1>0, TakenIs
<1> PICK c \in PlainCards : GetCard(b, p) = c
  BY <1>4, ShownBoard DEF GoodCards
<1> PICK x : PlainCard(code, pos) = x
  OBVIOUS
<1>9. Replaced(c, code, pos) = x
  BY ReplacedPlain
<1>10. CardOf(t, p) = c
  <2>1. GetPile(t, p) = GetPile(b, p) /\ t.zones = z
    BY <1>0, TableParts
  <2> QED
    BY <1>4, <2>1 DEF CardOf, GetCard, Has
<1>11. Effect(t, m) = InsertCard(TakenFrom(t, p), q, x)
  <2>1. Effect(t, m) = UpdateEffect(t, m)
    BY <1>1 DEF Effect
  <2>2. UpdateEffect(t, m) = Moved(t, m)
    BY <1>1 DEF UpdateEffect
  <2>3. Moved(t, m) = InsertCard(TakenFrom(t, p), q, x)
    BY <1>1, <1>9, <1>10 DEF Moved
  <2> QED
    BY <2>1, <2>2, <2>3
<1> PICK d : InsertCard(e, q, x) = d
  OBVIOUS
<1>12. Effect(t, m) = TableOf(d, t)
  <2>1. InsertCard(TableOf(e, t), q, x) = TableOf(InsertCard(e, q, x), t)
    BY <1>6, TableInsert
  <2> QED
    BY <1>8, <1>11, <2>1
<1>13. PlainUpdate(m, b) = d
  <2>1. PlainBy(c, EditOf(m)) = x
    <3> PICK f : EditOf(m) = f
      OBVIOUS
    <3>1. f = [code |-> code, pos |-> pos]
      BY <1>3
    <3>2. f.code = code /\ f.pos = pos
      BY <3>1
    <3> QED
      BY <1>2, <1>9, <3>2 DEF PlainBy
  <2>2. From(m, b) = p /\ To(m, b) = q
    BY <1>1 DEF From, To
  <2> QED
    BY <2>1, <2>2 DEF PlainUpdate, Relocated
<1>14. Plain(m, b) = d
  BY <1>1, <1>13 DEF Plain, PlainBoard
<1>15. Ground(d.zones)
  <2>1. CASE IsPile(q)
    <3>1. d.zones = e.zones
      BY <1>6, <2>1 DEF InsertCard, PutPile, IsBoard
    <3> QED
      BY <1>8, <3>1
  <2>2. CASE ~IsPile(q)
    <3> PICK y : e.zones = y
      OBVIOUS
    <3>1. q.loc = "OVERLAY" => Below(q) \in DOMAIN y
      <4> SUFFICES ASSUME q.loc = "OVERLAY"
                   PROVE  Below(q) \in DOMAIN y
        OBVIOUS
      <4>1. Below(q) \in DOMAIN z /\ p # Below(q)
        BY <1>5, <2>2
      <4>2. DOMAIN z \ {p} \subseteq DOMAIN y
        BY <1>0 DEF EraseCard, PutPile, IsBoard, EraseKey
      <4> QED
        BY <4>1, <4>2
    <3>2. Ground(PutKey(y, q, x))
      BY <1>5, <1>8, <2>2, <3>1, GroundChanges
    <3>3. d.zones = PutKey(y, q, x)
      BY <1>6, <2>2 DEF InsertCard, IsBoard
    <3> QED
      BY <3>2, <3>3
  <2> QED
    BY <2>1, <2>2
<1> QED
  BY <1>1, <1>7, <1>12, <1>14, <1>15 DEF Applies, FitsMsg, FitsBoard, CardMsgs

\* Ground is about the places only.
LEMMA GroundZones ==
  ASSUME NEW y, NEW z, Ground(z), DOMAIN y = DOMAIN z
  PROVE  Ground(y)
BY DEF Ground

\* A message that changes the card at p where it is.
LEMMA ChangeApplies ==
  ASSUME NEW t, NEW b, TableOf(b, t) = t, GoodCards(b), NEW m, IsUpdate(m), NEW p,
         From(m, b) = p, To(m, b) = p, Has(b, p),
         NEW x, PlainBy(GetCard(b, p), EditOf(m)) = x, Effect(t, m) = SetCard(t, p, x)
  PROVE  Applies(m, b, t)
<1>0. IsBoard(b) /\ Ground(b.zones)
  BY ShownBoard DEF GoodCards
<1> PICK e : EraseCard(b, p) = e
  OBVIOUS
<1> PICK d : InsertCard(e, p, x) = d
  OBVIOUS
<1>1. SetCard(b, p, x) = d
  BY <1>0, SetIsInsert
<1>2. FitsUpdate(m, b)
  BY <1>0, BoardErased DEF FitsUpdate, Movable
<1>3. PlainUpdate(m, b) = d
  BY DEF PlainUpdate, Relocated
<1>4. m.type = "UpdateCard"
  BY DEF IsUpdate
<1>5. Plain(m, b) = d
  BY <1>3, <1>4 DEF Plain, PlainBoard
<1>6. Effect(t, m) = TableOf(d, t)
  BY <1>0, <1>1, TableInsert
<1>7. Ground(d.zones)
  <2>1. CASE IsPile(p)
    <3> PICK s : ReplaceAt(GetPile(b, p), p.seq + 1, x) = s
      OBVIOUS
    <3>1. d = PutPile(b, p, s)
      BY <1>1, <2>1 DEF SetCard
    <3>2. d.zones = b.zones
      BY <1>0, <3>1 DEF PutPile, IsBoard
    <3> QED
      BY <1>0, <3>2
  <2>2. CASE ~IsPile(p)
    <3> PICK z : b.zones = z
      OBVIOUS
    <3>1. d = [b EXCEPT !.zones = PutKey(z, p, x)]
      BY <1>1, <2>2 DEF SetCard
    <3>2. d.zones = PutKey(z, p, x)
      BY <1>0, <3>1 DEF IsBoard
    <3>3. p \in DOMAIN z
      BY <2>2 DEF Has, PilePlace
    <3>4. DOMAIN PutKey(z, p, x) = DOMAIN z
      <4>1. DOMAIN PutKey(z, p, x) = DOMAIN z \cup {p}
        BY MapPut
      <4> QED
        BY <3>3, <4>1
    <3> QED
      BY <1>0, <3>2, <3>4, GroundZones
  <2> QED
    BY <2>1, <2>2
<1> QED
  BY <1>2, <1>4, <1>5, <1>6, <1>7 DEF Applies, FitsMsg, FitsBoard, CardMsgs

\* The core and the board look up the same card.
LEMMA CardOfIs ==
  ASSUME NEW t, NEW b, TableOf(b, t) = t, IsBoard(b), NEW p, Has(b, p)
  PROVE  CardOf(t, p) = GetCard(b, p)
<1>1. GetPile(t, p) = GetPile(b, p) /\ t.zones = b.zones
  BY TableParts
<1> PICK s : GetPile(b, p) = s
  OBVIOUS
<1> PICK z : b.zones = z
  OBVIOUS
<1>2. CardOf(t, p) = IF IsPile(p) THEN s[p.seq + 1] ELSE z[p]
  BY <1>1 DEF CardOf
<1>3. GetCard(b, p) = IF IsPile(p) THEN s[p.seq + 1] ELSE z[p]
  <2>1. ~IsPile(p) => p \in DOMAIN z
    BY DEF Has, PilePlace
  <2> QED
    BY <2>1 DEF GetCard
<1> QED
  BY <1>2, <1>3

\* A change of position, or a set, can be applied.
LEMMA InPlaceApplies ==
  ASSUME NEW t, NEW b, TableOf(b, t) = t, GoodCards(b), NEW m \in InPlaceMsgs(t)
  PROVE  Applies(m, b, t)
<1>0. IsBoard(b) /\ b.zones = t.zones
  BY ShownBoard, TableParts DEF GoodCards
<1> PICK reason \in {"POS_CHANGE", "SET"}, p \in FieldCards(t) \cap ActiveZones,
         code \in Codes, pos \in Positions :
        m = [type |-> "UpdateCard", reason |-> reason, previous |-> p,
             current |-> NoPlace, code |-> code, position |-> pos]
  BY DEF InPlaceMsgs, Updates
<1>1. /\ m.type = "UpdateCard" /\ m.reason \in {"POS_CHANGE", "SET"} /\ m.previous = p
      /\ m.code = code /\ m.position = pos
  OBVIOUS
<1>2. code \in Nat /\ pos \in Nat /\ pos # KeepPos
  BY TableAssumption DEF KeepPos
<1>3. EditOf(m) = [code |-> code, pos |-> pos] /\ EditOf(m) \in Edits
  BY <1>1, <1>2 DEF EditOf, Edits
<1>4. EditOf(m).pos = pos /\ EditOf(m).code = code
  <2> PICK f : EditOf(m) = f
    OBVIOUS
  <2>1. f = [code |-> code, pos |-> pos]
    BY <1>3
  <2> QED
    BY <2>1
<1>5. IsUpdate(m)
  BY <1>1, <1>2, <1>3, <1>4 DEF IsUpdate, UpdateReasons
<1>6. From(m, b) = p /\ To(m, b) = p
  BY <1>1 DEF From, To
<1>7. Has(b, p)
  BY <1>0 DEF Has, FieldCards, IsBoard
<1> PICK x : PlainBy(GetCard(b, p), EditOf(m)) = x
  OBVIOUS
<1>8. x = Replaced(CardOf(t, p), code, pos)
  BY <1>0, <1>2, <1>4, <1>7, CardOfIs DEF PlainBy
<1>9. Effect(t, m) = SetCard(t, p, x)
  <2>1. Effect(t, m) = UpdateEffect(t, m)
    BY <1>1 DEF Effect
  <2>2. UpdateEffect(t, m) = SetCard(t, p, Replaced(CardOf(t, p), code, pos))
    BY <1>1 DEF UpdateEffect
  <2> QED
    BY <1>8, <2>1, <2>2
<1> QED
  BY <1>5, <1>6, <1>7, <1>9, ChangeApplies

\* A reveal of the top of a deck can be applied.
LEMMA DeckTopApplies ==
  ASSUME NEW t, NEW b, TableOf(b, t) = t, GoodCards(b), NEW m \in DeckTopMsgs(t, 0)
  PROVE  Applies(m, b, t)
<1>0. IsBoard(b) /\ b.piles = t.piles
  BY ShownBoard, TableParts DEF GoodCards
<1> PICK con \in Players, code \in Codes :
        /\ 0 < Len(t.piles[con]["DECK"])
        /\ m = [type |-> "UpdateCard", reason |-> "DECK_TOP",
                previous |-> Place(con, "DECK", 0), current |-> NoPlace,
                code |-> code, position |-> 0]
  BY DEF DeckTopMsgs
<1> PICK q : Place(con, "DECK", 0) = q
  OBVIOUS
<1>1. /\ m.type = "UpdateCard" /\ m.reason = "DECK_TOP" /\ m.previous = q
      /\ m.code = code
  OBVIOUS
<1>2. code \in Nat
  BY TableAssumption
<1>3. EditOf(m) = [code |-> code, pos |-> KeepPos] /\ EditOf(m) \in Edits
  BY <1>1, <1>2 DEF EditOf, Edits
<1>4. EditOf(m).pos = KeepPos /\ EditOf(m).code = code
  <2> PICK f : EditOf(m) = f
    OBVIOUS
  <2>1. f = [code |-> code, pos |-> KeepPos]
    BY <1>3
  <2> QED
    BY <2>1
<1>5. q = [con |-> con, loc |-> "DECK", seq |-> 0, oseq |-> -1]
  BY DEF Place
<1>6. q.con = con /\ q.loc = "DECK" /\ q.seq = 0
  BY <1>5
<1>7. PilePlace(q)
  BY <1>6 DEF PilePlace, IsPile, FieldLocations, PileLocations
<1>8. IsUpdate(m)
  BY <1>1, <1>3, <1>6, <1>7 DEF IsUpdate, UpdateReasons
<1> PICK s : b.piles[con]["DECK"] = s
  OBVIOUS
<1>9. IsSeq(s)
  BY <1>0 DEF IsBoard, PileLocations
<1>10. Len(s) \in Nat
  BY <1>9, SeqIsFunction
<1> PICK k \in Nat : Len(s) = k
  BY <1>10
<1>11. k > 0
  BY <1>0
<1>12. GetPile(b, q) = s /\ GetPile(t, q) = s
  BY <1>0, <1>6 DEF GetPile
<1> PICK p : Place(con, "DECK", k - 1) = p
  OBVIOUS
<1>13. p = [con |-> con, loc |-> "DECK", seq |-> k - 1, oseq |-> -1]
  BY DEF Place
<1>14. p.con = con /\ p.loc = "DECK" /\ p.seq = k - 1
  BY <1>13
<1>15. From(m, b) = p /\ To(m, b) = p
  BY <1>1, <1>6, <1>12 DEF From, To, TopOf
<1>16. GetPile(b, p) = s
  BY <1>14 DEF GetPile
<1>17. Has(b, p)
  <2>1. PilePlace(p)
    BY <1>11, <1>14 DEF PilePlace, IsPile, FieldLocations, PileLocations
  <2> QED
    BY <1>11, <1>14, <1>16, <2>1 DEF Has
<1> PICK x : PlainBy(GetCard(b, p), EditOf(m)) = x
  OBVIOUS
<1>18. x = Recoded(CardOf(t, p), code)
  BY <1>0, <1>4, <1>17, CardOfIs DEF PlainBy
<1>19. Effect(t, m) = SetCard(t, p, x)
  <2>1. Effect(t, m) = UpdateEffect(t, m)
    BY <1>1 DEF Effect
  <2>2. [q EXCEPT !.seq = k - 1] = p
    BY <1>5, <1>13
  <2>3. Len(GetPile(t, q)) - 1 - q.seq = k - 1
    BY <1>6, <1>12
  <2>4. UpdateEffect(t, m) = SetCard(t, p, Recoded(CardOf(t, p), code))
    BY <1>1, <2>2, <2>3 DEF UpdateEffect
  <2> QED
    BY <1>18, <2>1, <2>4
<1> QED
  BY <1>8, <1>15, <1>17, <1>19, ChangeApplies

\* A card that arrives on the field.
LEMMA GroundInserted ==
  ASSUME NEW b, IsBoard(b), Ground(b.zones), NEW p,
         ~IsPile(p) => /\ p \in ActiveZones
                       /\ p.loc = "OVERLAY" => Below(p) \in DOMAIN b.zones,
         NEW x
  PROVE  Ground(InsertCard(b, p, x).zones)
<1> PICK d : InsertCard(b, p, x) = d
  OBVIOUS
<1> PICK z : b.zones = z
  OBVIOUS
<1>1. CASE IsPile(p)
  <2>1. d.zones = z
    BY <1>1 DEF InsertCard, PutPile, IsBoard
  <2> QED
    BY <2>1
<1>2. CASE ~IsPile(p)
  <2>1. Ground(PutKey(z, p, x))
    BY <1>2, GroundChanges
  <2>2. d.zones = PutKey(z, p, x)
    BY <1>2 DEF InsertCard, IsBoard
  <2> QED
    BY <2>1, <2>2
<1> QED
  BY <1>1, <1>2

\* An AddCard can be applied.
LEMMA AddApplies ==
  ASSUME NEW t, NEW b, TableOf(b, t) = t, GoodCards(b),
         NEW m \in Placed("AddCard", Destinations(t))
  PROVE  Applies(m, b, t)
<1>0. IsBoard(b) /\ CardsOf(t) = b /\ Ground(b.zones)
  BY ShownBoard, TableParts DEF GoodCards
<1> PICK p \in Destinations(t), code \in Codes, pos \in Positions :
        m = [type |-> "AddCard", place |-> p, code |-> code, position |-> pos]
  BY DEF Placed
<1>1. m.type = "AddCard" /\ m.place = p /\ m.code = code /\ m.position = pos
  OBVIOUS
<1>2. code \in Nat /\ pos \in Nat /\ pos # KeepPos
  BY TableAssumption DEF KeepPos
<1>3. EditOf(m) = [code |-> code, pos |-> pos] /\ EditOf(m) \in Edits
  BY <1>1, <1>2 DEF EditOf, Edits
<1>4. EditOf(m).pos = pos /\ EditOf(m).code = code
  <2> PICK f : EditOf(m) = f
    OBVIOUS
  <2>1. f = [code |-> code, pos |-> pos]
    BY <1>3
  <2> QED
    BY <2>1
<1>5. Adds(m)
  BY <1>1, <1>2, <1>3, <1>4 DEF Adds
<1>6. Room(b, p) /\ (~IsPile(p) => /\ p \in ActiveZones
                                   /\ p.loc = "OVERLAY" => Below(p) \in DOMAIN b.zones)
  BY <1>0, DestinationRoom
<1> PICK x : PlainCard(code, pos) = x
  OBVIOUS
<1> PICK d : InsertCard(b, p, x) = d
  OBVIOUS
<1>7. Effect(t, m) = InsertCard(t, p, x)
  BY <1>1 DEF Effect
<1>8. Effect(t, m) = TableOf(d, t)
  BY <1>0, <1>7, TableInsert
<1>9. Plain(m, b) = d
  BY <1>1, <1>4 DEF Plain
<1>10. Ground(d.zones)
  BY <1>0, <1>6, GroundInserted
<1> QED
  BY <1>1, <1>5, <1>6, <1>8, <1>9, <1>10 DEF Applies, FitsMsg, CardMsgs

\* A RemoveCard can be applied.
LEMMA RemoveApplies ==
  ASSUME NEW t, NEW b, TableOf(b, t) = t, GoodCards(b),
         NEW m \in Placed("RemoveCard", OccupiedPlaces(t))
  PROVE  Applies(m, b, t)
<1>0. IsBoard(b) /\ CardsOf(t) = b /\ Ground(b.zones)
  BY ShownBoard, TableParts DEF GoodCards
<1> PICK p \in OccupiedPlaces(t) : m.type = "RemoveCard" /\ m.place = p
  BY DEF Placed
<1>1. Has(b, p)
  BY <1>0, OccupiedHas
<1>2. Effect(t, m) = TakenFrom(t, p)
  BY DEF Effect
<1>3. TakenFrom(t, p) = TableOf(EraseCard(b, p), t) /\ Ground(EraseCard(b, p).zones)
  BY <1>0, TakenIs
<1>4. Plain(m, b) = EraseCard(b, p)
  BY DEF Plain
<1> QED
  BY <1>1, <1>2, <1>3, <1>4 DEF Applies, FitsMsg, CardMsgs, Removes

SwappedZones(z, p, q) == [z EXCEPT ![p] = z[q], ![q] = z[p]]

\* A SwapCards can be applied.
LEMMA SwapApplies ==
  ASSUME NEW t, NEW b, TableOf(b, t) = t, GoodCards(b), NEW m \in SwapMsgs(t)
  PROVE  Applies(m, b, t)
<1>0. IsBoard(b) /\ CardsOf(t) = b /\ Ground(b.zones) /\ t.zones = b.zones
  BY ShownBoard, TableParts DEF GoodCards
<1> PICK p \in FieldCards(t), q \in FieldCards(t) :
        p # q /\ m = [type |-> "SwapCards", card1 |-> p, card2 |-> q]
  BY DEF SwapMsgs
<1>1. m.type = "SwapCards" /\ m.card1 = p /\ m.card2 = q
  OBVIOUS
<1> PICK z : b.zones = z
  OBVIOUS
<1>2. p \in DOMAIN z /\ q \in DOMAIN z /\ IsMap(z)
  BY <1>0 DEF FieldCards, IsBoard
<1>3. FitsSwap(m, b)
  BY <1>1, <1>2 DEF FitsSwap
<1> PICK y : Swapped(z, p, q) = y
  OBVIOUS
<1>4. SwappedZones(z, p, q) = y
  BY <1>2 DEF SwappedZones, Swapped, IsMap
<1>5. Effect(t, m) = [t EXCEPT !.zones = y]
  <2>1. Effect(t, m) = SwapEffect(t, m)
    BY <1>1 DEF Effect
  <2>2. SwapEffect(t, m) = [t EXCEPT !.zones = SwappedZones(z, p, q)]
    BY <1>0, <1>1 DEF SwapEffect, SwappedZones, TableOf
  <2> QED
    BY <1>4, <2>1, <2>2
<1> PICK d : WithZones(b, y) = d
  OBVIOUS
<1>6. Effect(t, m) = TableOf(d, t)
  BY <1>0, <1>5, TablePut
<1>7. Plain(m, b) = d
  BY <1>1 DEF Plain, PlainBoard, Swap
<1>8. Ground(d.zones)
  <2>1. d.zones = y
    BY <1>0, BoardZones
  <2>2. DOMAIN y = DOMAIN z
    BY DEF Swapped
  <2> QED
    BY <1>0, <2>1, <2>2, GroundZones
<1> QED
  BY <1>1, <1>3, <1>6, <1>7, <1>8 DEF Applies, FitsMsg, FitsBoard, CardMsgs

\* The codes the core may send.
LEMMA CodesFit ==
  ASSUME NEW n \in Nat, NEW codes \in CodeLists(n)
  PROVE  AreCodes(codes) /\ Len(codes) = n /\ DOMAIN codes = 1 .. n
<1>1. codes = [i \in 1 .. n |-> codes[i]] /\ \A i \in 1 .. n : codes[i] \in Nat
  BY TableAssumption DEF CodeLists
<1>2. IsSeq(codes) /\ Len(codes) = n /\ DOMAIN codes = 1 .. n
  BY <1>1, FunctionIsSeq
<1> QED
  BY <1>1, <1>2 DEF AreCodes

\* It may send none.
LEMMA NoCodesFit == AreCodes(<<>>)
BY DEF AreCodes, IsSeq

\* A ShuffleLocation can be applied.
LEMMA ShuffleApplies ==
  ASSUME NEW t, NEW b, TableOf(b, t) = t, GoodCards(b), NEW m \in ShuffleMsgs(t)
  PROVE  Applies(m, b, t)
<1>0. IsBoard(b) /\ Ground(b.zones) /\ t.piles = b.piles /\ t.zones = b.zones
  BY ShownBoard, TableParts DEF GoodCards
<1> PICK q \in ActivePiles :
      \E codes \in {<<>>} \cup CodeLists(Len(GetPile(t, q))) :
        m = [type |-> "ShuffleLocation", player |-> q.con, location |-> q.loc,
             codes |-> codes]
  BY DEF ShuffleMsgs
<1> PICK codes \in {<<>>} \cup CodeLists(Len(GetPile(t, q))) :
        m = [type |-> "ShuffleLocation", player |-> q.con, location |-> q.loc,
             codes |-> codes]
  OBVIOUS
<1>1. /\ m.type = "ShuffleLocation" /\ m.player = q.con /\ m.location = q.loc
      /\ m.codes = codes
  OBVIOUS
<1>2. q.con \in Players /\ q.loc \in PileLocations /\ q = Place(q.con, q.loc, 0)
  BY PlacesAssumption
<1> PICK s : b.piles[q.con][q.loc] = s
  OBVIOUS
<1>3. IsSeq(s) /\ GetPile(t, q) = s /\ GetPile(b, q) = s
  BY <1>0, <1>2 DEF IsBoard, GetPile
<1>4. Len(s) \in Nat /\ DOMAIN s = 1 .. Len(s)
  BY <1>3, SeqIsFunction
<1>5. AreCodes(codes) /\ (codes = <<>> \/ Len(codes) = Len(s))
  <2>1. CASE codes = <<>>
    BY <2>1, NoCodesFit
  <2>2. CASE codes \in CodeLists(Len(s))
    BY <1>4, <2>2, CodesFit
  <2> QED
    BY <1>3, <2>1, <2>2
<1>6. PileOf(m) = q
  BY <1>1, <1>2 DEF PileOf
<1>7. FitsShuffle(m, b)
  BY <1>1, <1>2, <1>3, <1>5, <1>6 DEF FitsShuffle, IsShuffle
<1> PICK y : PlainAll(s, ShuffleEdits(m)) = y
  OBVIOUS
<1> DEFINE code(i) == IF codes = <<>> THEN 0 ELSE codes[i]
<1>8. y = [i \in DOMAIN s |-> Recoded(s[i], code(i))]
  <2>1. \A i \in DOMAIN s : PlainBy(s[i], ShuffleEdits(m)[i]) = Recoded(s[i], code(i))
    <3> SUFFICES ASSUME NEW i \in DOMAIN s
                 PROVE  PlainBy(s[i], ShuffleEdits(m)[i]) = Recoded(s[i], code(i))
      OBVIOUS
    <3>1. i \in Nat
      BY <1>4
    <3> PICK e : ShuffleEdits(m)[i] = e
      OBVIOUS
    <3>2. e = [code |-> code(i), pos |-> KeepPos]
      BY <1>1, <3>1 DEF ShuffleEdits
    <3>3. e.code = code(i) /\ e.pos = KeepPos
      BY <3>2
    <3> QED
      BY <3>3 DEF PlainBy
  <2> QED
    BY <2>1 DEF PlainAll
<1>9. Effect(t, m) = PutPile(t, q, y)
  <2>1. Effect(t, m) = ShuffleEffect(t, m)
    BY <1>1 DEF Effect
  <2>2. t.piles[q.con][q.loc] = s
    BY <1>0
  <2> PICK z : [i \in DOMAIN s |-> Recoded(s[i], code(i))] = z
    OBVIOUS
  <2>3. ShuffleEffect(t, m) = [t EXCEPT !.piles[q.con][q.loc] = z]
    BY <1>1, <2>2 DEF ShuffleEffect
  <2>4. z = y
    BY <1>8
  <2> QED
    BY <2>1, <2>3, <2>4 DEF PutPile
<1> PICK d : PutPile(b, q, y) = d
  OBVIOUS
<1>10. Effect(t, m) = TableOf(d, t)
  BY <1>0, <1>9, TablePut
<1>11. Plain(m, b) = d
  BY <1>1, <1>3, <1>6 DEF Plain, PlainBoard, PlainShuffle
<1>12. Ground(d.zones)
  BY <1>0 DEF PutPile, IsBoard
<1> QED
  BY <1>1, <1>7, <1>10, <1>11, <1>12 DEF Applies, FitsMsg, FitsBoard, CardMsgs

DrawnTable(t, pl, s, h) ==
  [t EXCEPT !.piles[pl]["DECK"] = s, !.piles[pl]["HAND"] = h]

RecodedAll(cards, codes) == [i \in 1 .. Len(codes) |-> Recoded(cards[i], codes[i])]

\* A Draw can be applied.
LEMMA DrawApplies ==
  ASSUME NEW t, NEW b, TableOf(b, t) = t, GoodCards(b), NEW m \in DrawMsgs(t)
  PROVE  Applies(m, b, t)
<1>0. IsBoard(b) /\ Ground(b.zones) /\ t.piles = b.piles /\ t.zones = b.zones
  BY ShownBoard, TableParts DEF GoodCards
<1> PICK pl \in Players : \E codes \in UNION {CodeLists(n) : n \in 1 .. Len(t.piles[pl]["DECK"])} :
        m = [type |-> "Draw", player |-> pl, codes |-> codes]
  BY DEF DrawMsgs
<1> PICK s : b.piles[pl]["DECK"] = s
  OBVIOUS
<1> PICK h : b.piles[pl]["HAND"] = h
  OBVIOUS
<1>1. IsSeq(s) /\ IsSeq(h) /\ Len(s) \in Nat
  BY <1>0, SeqIsFunction DEF IsBoard, PileLocations
<1> PICK k \in Nat : Len(s) = k
  BY <1>1
<1> PICK n \in 1 .. k :
      \E codes \in CodeLists(n) :
        m = [type |-> "Draw", player |-> pl, codes |-> codes]
  BY <1>0
<1> PICK codes \in CodeLists(n) :
        m = [type |-> "Draw", player |-> pl, codes |-> codes]
  OBVIOUS
<1>2. m.type = "Draw" /\ m.player = pl /\ m.codes = codes
  OBVIOUS
<1>3. AreCodes(codes) /\ Len(codes) = n /\ DOMAIN codes = 1 .. n
  BY CodesFit
<1> PICK p : DeckOf(m) = p
  OBVIOUS
<1> PICK q : HandOf(m) = q
  OBVIOUS
<1>4. p = Place(pl, "DECK", 0) /\ q = Place(pl, "HAND", 0)
  BY <1>2 DEF DeckOf, HandOf
<1>5. GetPile(b, p) = s /\ GetPile(b, q) = h
  BY <1>4 DEF Place, GetPile
<1>6. FitsDraw(m, b)
  BY <1>2, <1>3, <1>5 DEF FitsDraw, IsDraw
<1> PICK u : WithoutTop(s, n) = u
  OBVIOUS
<1> PICK top : TopCards(s, n) = top
  OBVIOUS
<1>7. IsSeq(u) /\ IsSeq(top) /\ Len(top) = n
  <2>1. n \in 0 .. k
    OBVIOUS
  <2> QED
    BY <1>1, <2>1, TopTaken
<1> PICK x : PlainAll(top, CodeEdits(codes)) = x
  OBVIOUS
<1>8. x = [i \in 1 .. n |-> Recoded(top[i], codes[i])]
  <2>1. DOMAIN top = 1 .. n
    BY <1>7, SeqIsFunction
  <2>2. \A i \in 1 .. n : PlainBy(top[i], CodeEdits(codes)[i]) = Recoded(top[i], codes[i])
    <3> SUFFICES ASSUME NEW i \in 1 .. n
                 PROVE  PlainBy(top[i], CodeEdits(codes)[i]) = Recoded(top[i], codes[i])
      OBVIOUS
    <3> PICK e : CodeEdits(codes)[i] = e
      OBVIOUS
    <3>1. e = [code |-> codes[i], pos |-> KeepPos]
      BY <1>3 DEF CodeEdits
    <3>2. e.code = codes[i] /\ e.pos = KeepPos
      BY <3>1
    <3> QED
      BY <3>2 DEF PlainBy
  <2> QED
    BY <2>1, <2>2 DEF PlainAll
<1> PICK v : h \o x = v
  OBVIOUS
<1>9. IsSeq(x) /\ IsSeq(v)
  <2>1. x = [i \in 1 .. n |-> x[i]]
    BY <1>8
  <2>2. IsSeq(x)
    BY <2>1, FunctionIsSeq
  <2> QED
    BY <1>1, <2>2, Joined
<1> PICK ps : DrawnPiles(b.piles, pl, u, v) = ps
  OBVIOUS
<1>10. Effect(t, m) = [t EXCEPT !.piles = ps]
  <2>1. Effect(t, m) = DrawEffect(t, m)
    BY <1>2 DEF Effect
  <2>2. SubSeq(s, 1, k - n) = u
    BY DEF WithoutTop
  <2>3. Reverse(SubSeq(s, k - n + 1, k)) = top
    BY DEF TopCards
  <2>4. DrawEffect(t, m) =
          DrawnTable(t, m.player,
            SubSeq(t.piles[m.player]["DECK"], 1,
                   Len(t.piles[m.player]["DECK"]) - Len(m.codes)),
            t.piles[m.player]["HAND"] \o
              RecodedAll(Reverse(SubSeq(t.piles[m.player]["DECK"],
                                   Len(t.piles[m.player]["DECK"]) - Len(m.codes) + 1,
                                   Len(t.piles[m.player]["DECK"]))), m.codes))
    BY Zenon DEF DrawEffect, DrawnTable, RecodedAll
  <2>5. RecodedAll(top, codes) = x
    BY <1>3, <1>8 DEF RecodedAll
  <2>6. /\ t.piles[m.player]["DECK"] = s /\ t.piles[m.player]["HAND"] = h
        /\ m.player = pl /\ m.codes = codes /\ Len(codes) = n
    BY <1>0, <1>2, <1>3
  <2>7. DrawEffect(t, m) = DrawnTable(t, pl, u, v)
    BY <2>2, <2>3, <2>4, <2>5, <2>6
  <2>8. DrawnTable(t, pl, u, v) = [t EXCEPT !.piles = DrawnPiles(t.piles, pl, u, v)]
    BY <1>0 DEF DrawnTable, DrawnPiles, TableOf, IsBoard, PileLocations
  <2> QED
    BY <1>0, <2>1, <2>7, <2>8
<1> PICK d : TwoPiles(b, p, q, u, v) = d
  OBVIOUS
<1>11. [piles |-> ps, zones |-> b.zones] = d
  BY <1>0, <1>1, <1>4, <1>7, <1>9, TwoPilesExcept, SMTT(30)
<1>12. Effect(t, m) = TableOf(d, t)
  BY <1>0, <1>10, <1>11 DEF TableOf
<1>13. Plain(m, b) = d
  BY <1>2, <1>3, <1>5 DEF Plain, PlainBoard, PlainDraw
<1>14. Ground(d.zones)
  BY <1>0, <1>11
<1> QED
  BY <1>2, <1>6, <1>12, <1>13, <1>14 DEF Applies, FitsMsg, FitsBoard, CardMsgs

SetPlain(m, c, i) ==
  IF m.current = <<>> THEN Replaced(c, 0, m.previous[i].position)
                      ELSE Replaced(c, m.current[i].code, m.current[i].position)

\* What ShuffleSetCards does to one card of the table.
LEMMA SetPlainBy ==
  ASSUME NEW m, NEW i, SetEdit(m, i).pos # KeepPos, NEW c
  PROVE  PlainBy(c, SetEdit(m, i)) = SetPlain(m, c, i)
<1> PICK e : SetEdit(m, i) = e
  OBVIOUS
<1>1. CASE m.current = <<>>
  <2>1. e = [code |-> 0, pos |-> m.previous[i].position]
    BY <1>1 DEF SetEdit
  <2>2. e.code = 0 /\ e.pos = m.previous[i].position
    BY <2>1
  <2> QED
    BY <1>1, <2>2 DEF PlainBy, SetPlain
<1>2. CASE m.current # <<>>
  <2>1. e = [code |-> m.current[i].code, pos |-> m.current[i].position]
    BY <1>2 DEF SetEdit
  <2>2. e.code = m.current[i].code /\ e.pos = m.current[i].position
    BY <2>1
  <2> QED
    BY <1>2, <2>2 DEF PlainBy, SetPlain
<1> QED
  BY <1>1, <1>2

\* The message, as far as its handling goes.
LEMMA SetMsgForm ==
  ASSUME NEW t, NEW m \in ShuffleSetMsgs(t)
  PROVE  /\ m.type = "ShuffleSetCards"
         /\ DOMAIN m.previous \in {1 .. 1, 1 .. 2} /\ IsSeq(m.previous)
         /\ \A i \in DOMAIN m.previous, j \in DOMAIN m.previous :
              m.previous[i].place = m.previous[j].place => i = j
         /\ \A i \in DOMAIN m.previous :
              /\ SetEdit(m, i) \in Edits /\ SetEdit(m, i).pos # KeepPos
              /\ m.previous[i].place \in FieldCards(t)
<1> PICK s \in UNION {[1 .. n -> FieldCards(t)] : n \in 1 .. 2}, position \in Positions :
        /\ \A i, j \in DOMAIN s : s[i] = s[j] => i = j
        /\ m \in {[type |-> "ShuffleSetCards",
                  previous |-> [i \in DOMAIN s |->
                                  [place |-> s[i], position |-> position]],
                  current |-> current] :
                   current \in {<<>>} \cup
                     {[i \in DOMAIN s |-> [code |-> codes[i], position |-> position]] :
                        codes \in CodeLists(Len(s))}}
  BY DEF ShuffleSetMsgs
<1> PICK n \in 1 .. 2 : s \in [1 .. n -> FieldCards(t)]
  OBVIOUS
<1> PICK current \in {<<>>} \cup
                  {[i \in DOMAIN s |-> [code |-> codes[i], position |-> position]] :
                     codes \in CodeLists(Len(s))} :
             m = [type |-> "ShuffleSetCards",
                  previous |-> [i \in DOMAIN s |->
                                  [place |-> s[i], position |-> position]],
                  current |-> current]
  OBVIOUS
<1> PICK previous : [i \in DOMAIN s |-> [place |-> s[i], position |-> position]] = previous
  OBVIOUS
<1>1. m.type = "ShuffleSetCards" /\ m.previous = previous /\ m.current = current
  OBVIOUS
<1>2. DOMAIN s = 1 .. n /\ DOMAIN previous = 1 .. n
  OBVIOUS
<1>3. IsSeq(previous) /\ 1 .. n \in {1 .. 1, 1 .. 2}
  <2>1. n \in Nat /\ (n = 1 \/ n = 2)
    OBVIOUS
  <2>2. previous = [i \in 1 .. n |-> previous[i]]
    BY <1>2
  <2>3. IsSeq(previous)
    BY <2>1, <2>2, FunctionIsSeq
  <2>4. 1 .. n \in {1 .. 1, 1 .. 2}
    BY <2>1
  <2> QED
    BY <2>3, <2>4
<1>4. \A i \in 1 .. n : previous[i].place = s[i] /\ previous[i].position = position
  BY <1>2
<1>5. \A i \in 1 .. n, j \in 1 .. n : s[i] = s[j] => i = j
  BY <1>2
<1>6. position \in Nat /\ position # KeepPos
  BY TableAssumption DEF KeepPos
<1>7. ASSUME NEW i \in 1 .. n
      PROVE  SetEdit(m, i) \in Edits /\ SetEdit(m, i).pos # KeepPos
  <2> PICK e : SetEdit(m, i) = e
    OBVIOUS
  <2>1. CASE current = <<>>
    <3>1. e = [code |-> 0, pos |-> position]
      BY <1>1, <1>4, <2>1 DEF SetEdit
    <3> QED
      BY <1>6, <3>1 DEF Edits
  <2>2. CASE current # <<>>
    <3>0. Len(s) = n
      <4>1. s = [j \in 1 .. n |-> s[j]]
        OBVIOUS
      <4> QED
        BY <4>1, FunctionIsSeq
    <3> PICK codes \in CodeLists(n) :
           current = [j \in DOMAIN s |-> [code |-> codes[j], position |-> position]]
      BY <2>2, <3>0
    <3>1. codes[i] \in Nat
      BY TableAssumption DEF CodeLists
    <3>2. current[i].code = codes[i] /\ current[i].position = position
      BY <1>2
    <3>3. e = [code |-> codes[i], pos |-> position]
      BY <1>1, <2>2, <3>2 DEF SetEdit
    <3> QED
      BY <1>6, <3>1, <3>3 DEF Edits
  <2> QED
    BY <2>1, <2>2
<1>8. \A i \in 1 .. n : s[i] \in FieldCards(t)
  OBVIOUS
<1>9. /\ \A i \in 1 .. n, j \in 1 .. n : previous[i].place = previous[j].place => i = j
      /\ \A i \in 1 .. n : previous[i].place \in FieldCards(t)
  BY <1>4, <1>5, <1>8
<1>10. DOMAIN m.previous = 1 .. n
  BY <1>1, <1>2
<1>11. /\ \A i \in DOMAIN m.previous, j \in DOMAIN m.previous :
              m.previous[i].place = m.previous[j].place => i = j
       /\ \A i \in DOMAIN m.previous :
              /\ SetEdit(m, i) \in Edits /\ SetEdit(m, i).pos # KeepPos
              /\ m.previous[i].place \in FieldCards(t)
  BY <1>1, <1>2, <1>7, <1>9
<1> QED
  BY <1>1, <1>3, <1>10, <1>11

\* A ShuffleSetCards can be applied.
LEMMA SetApplies ==
  ASSUME NEW t, NEW b, TableOf(b, t) = t, GoodCards(b), NEW m \in ShuffleSetMsgs(t)
  PROVE  Applies(m, b, t)
<1>0. IsBoard(b) /\ Ground(b.zones) /\ t.piles = b.piles /\ t.zones = b.zones
  BY ShownBoard, TableParts DEF GoodCards
<1>1. /\ m.type = "ShuffleSetCards"
      /\ \A i \in DOMAIN m.previous :
              /\ SetEdit(m, i) \in Edits /\ SetEdit(m, i).pos # KeepPos
              /\ m.previous[i].place \in FieldCards(t)
  BY SetMsgForm
<1> PICK z : b.zones = z
  OBVIOUS
<1>2. \A i \in DOMAIN m.previous :
        m.previous[i].place \in DOMAIN z /\ ~IsPile(m.previous[i].place)
  BY <1>0, <1>1 DEF FieldCards, IsBoard
<1>3. FitsSet(m, b)
  <2>1. IsSet(m)
    BY <1>2, SetMsgForm DEF IsSet
  <2>2. SetPlaces(m) \subseteq DOMAIN z
    BY <1>2 DEF SetPlaces
  <2> QED
    BY <2>1, <2>2 DEF FitsSet
<1> PICK y : PlainOn(z, SetEdits(m)) = y
  OBVIOUS
<1> DEFINE I(p) == CHOOSE j \in DOMAIN m.previous : m.previous[j].place = p
<1>4. ASSUME NEW p \in SetPlaces(m)
      PROVE  I(p) \in DOMAIN m.previous
  BY <1>4 DEF SetPlaces
<1>5. SetEdits(m) = [p \in SetPlaces(m) |-> SetEdit(m, I(p))]
  BY DEF SetEdits
<1> HIDE DEF I
<1>6. ASSUME NEW p \in SetPlaces(m), NEW c
      PROVE  PlainBy(c, SetEdits(m)[p]) = SetPlain(m, c, I(p))
  BY <1>1, <1>4, <1>5, SetPlainBy
<1>7. y = [p \in DOMAIN z |-> IF p \in SetPlaces(m) THEN SetPlain(m, z[p], I(p)) ELSE z[p]]
  <2>1. DOMAIN SetEdits(m) = SetPlaces(m)
    BY <1>5
  <2> QED
    BY <1>6, <2>1 DEF PlainOn
<1>8. Effect(t, m) = [t EXCEPT !.zones = y]
  <2>1. Effect(t, m) = ShuffleSetEffect(t, m)
    BY <1>1 DEF Effect
  <2>2. ShuffleSetEffect(t, m) =
          [t EXCEPT !.zones =
             [p \in DOMAIN t.zones |->
                IF \E i \in DOMAIN m.previous : m.previous[i].place = p
                THEN SetPlain(m, t.zones[p], I(p)) ELSE t.zones[p]]]
    BY Zenon DEF ShuffleSetEffect, SetPlain, I
  <2>3. \A p : p \in SetPlaces(m) <=> \E i \in DOMAIN m.previous : m.previous[i].place = p
    BY DEF SetPlaces
  <2>4. [p \in DOMAIN z |->
                IF \E i \in DOMAIN m.previous : m.previous[i].place = p
                THEN SetPlain(m, z[p], I(p)) ELSE z[p]] = y
    BY <1>7, <2>3
  <2> QED
    BY <1>0, <2>1, <2>2, <2>4
<1> PICK d : WithZones(b, y) = d
  OBVIOUS
<1>9. Effect(t, m) = TableOf(d, t)
  BY <1>0, <1>8, TablePut
<1>10. Plain(m, b) = d
  BY <1>1 DEF Plain, PlainBoard, PlainSet
<1>11. Ground(d.zones)
  <2>1. d.zones = y
    BY <1>0, BoardZones
  <2>2. DOMAIN y = DOMAIN z
    BY <1>7
  <2> QED
    BY <1>0, <2>1, <2>2, GroundZones
<1> QED
  BY <1>1, <1>3, <1>9, <1>10, <1>11 DEF Applies, FitsMsg, FitsBoard, CardMsgs

\* The messages that a board takes back without a trace: no counters, no
\* disabled zones, no moves inside a pile, and none of the messages that the
\* handlers get wrong.
ReversibleKinds ==
  {"Move", "InPlace", "DeckTop", "Add", "Remove", "Draw", "Swap", "Shuffle",
   "ShuffleSet", "Lp", "Turn", "Phase", "Hint"}

\* The messages for which a film of the cards is proved: with those that block
\* zones, which a board shows again only when it has caught up (ZoneProofs).
FilmedKinds == ReversibleKinds \cup {"Disable"}

BlocksNothing == "Disable" \notin Kinds

BlockMsgs == {[type |-> "DisableZones", places |-> s] : s \in SUBSET BlockableZones}

CardMoves(t) ==
  MoveMsgs(t) \cup InPlaceMsgs(t) \cup DeckTopMsgs(t, 0)
    \cup Placed("AddCard", Destinations(t)) \cup Placed("RemoveCard", OccupiedPlaces(t))
    \cup DrawMsgs(t) \cup SwapMsgs(t) \cup ShuffleMsgs(t) \cup ShuffleSetMsgs(t)

OtherMoves(t) ==
  FairLpMsgs(t) \cup {[type |-> "NewTurn", turnPlayer |-> p] : p \in Players}
    \cup {[type |-> "NewPhase", phase |-> p] : p \in Phases}
    \cup {[type |-> "Empty"]}
    \cup {[type |-> type, player |-> p] : type \in {"Hint", "Request"}, p \in Players}
    \cup {m \in BlockMsgs : ~BlocksNothing}

\* What the core may send is about cards, or it is not.
LEMMA CoreMsgIs ==
  ASSUME Kinds \subseteq FilmedKinds, NEW t, NEW m \in CoreMsgs(t)
  PROVE  m \in CardMoves(t) \cup OtherMoves(t)
<1> PICK kind \in Kinds : m \in MsgsOfKind(kind, t)
  BY DEF CoreMsgs
<1>1. kind \in FilmedKinds
  OBVIOUS
<1>2. kind = "Move" => m \in MoveMsgs(t)
  BY DEF MsgsOfKind
<1>3. kind = "InPlace" => m \in InPlaceMsgs(t)
  BY DEF MsgsOfKind
<1>4. kind = "DeckTop" => m \in DeckTopMsgs(t, 0)
  BY DEF MsgsOfKind
<1>5. kind = "Add" => m \in Placed("AddCard", Destinations(t))
  BY DEF MsgsOfKind
<1>6. kind = "Remove" => m \in Placed("RemoveCard", OccupiedPlaces(t))
  BY DEF MsgsOfKind
<1>7. kind = "Draw" => m \in DrawMsgs(t)
  BY DEF MsgsOfKind
<1>8. kind = "Swap" => m \in SwapMsgs(t)
  BY DEF MsgsOfKind
<1>9. kind = "Shuffle" => m \in ShuffleMsgs(t)
  BY DEF MsgsOfKind
<1>10. kind = "ShuffleSet" => m \in ShuffleSetMsgs(t)
  BY DEF MsgsOfKind
<1>11. kind = "Lp" => m \in FairLpMsgs(t)
  BY DEF MsgsOfKind
<1>12. kind = "Turn" => m \in {[type |-> "NewTurn", turnPlayer |-> p] : p \in Players}
  BY DEF MsgsOfKind
<1>13. kind = "Phase" => m \in {[type |-> "NewPhase", phase |-> p] : p \in Phases}
  BY DEF MsgsOfKind
<1>14. kind = "Hint" => m \in {[type |-> "Empty"]} \cup
         {[type |-> type, player |-> p] : type \in {"Hint", "Request"}, p \in Players}
  BY DEF MsgsOfKind
<1>15. kind = "Disable" => m \in {x \in BlockMsgs : ~BlocksNothing}
  BY DEF MsgsOfKind, BlockMsgs, BlocksNothing
<1> QED
  BY <1>1, <1>2, <1>3, <1>4, <1>5, <1>6, <1>7, <1>8, <1>9, <1>10, <1>11, <1>12,
     <1>13, <1>14, <1>15 DEF FilmedKinds, ReversibleKinds, CardMoves, OtherMoves

\* Everything about cards can be applied.
LEMMA CardMovesApply ==
  ASSUME NEW t, NEW b, TableOf(b, t) = t, GoodCards(b), NEW m \in CardMoves(t)
  PROVE  Applies(m, b, t)
BY MoveApplies, InPlaceApplies, DeckTopApplies, AddApplies, RemoveApplies,
   DrawApplies, SwapApplies, ShuffleApplies, SetApplies DEF CardMoves

OtherTypeNames ==
  {"LpChange", "NewTurn", "NewPhase", "Empty", "Hint", "Request"}
    \cup {type \in {"DisableZones"} : ~BlocksNothing}

\* The types of the others.
LEMMA OtherMovesAre ==
  ASSUME NEW t, NEW m \in OtherMoves(t)
  PROVE  m.type \in OtherTypeNames
BY DEF OtherMoves, OtherTypeNames, FairLpMsgs, LpMsgs, BlockMsgs

\* A move has two ends.
LEMMA NoMoveInPlace ==
  ASSUME NEW t, NEW b, TableOf(b, t) = t, GoodCards(b), NEW m \in MoveMsgs(t)
  PROVE  m.previous # m.current
<1>0. IsBoard(b) /\ CardsOf(t) = b /\ Ground(b.zones)
  BY ShownBoard, TableParts DEF GoodCards
<1> PICK p \in OccupiedPlaces(t), q \in Destinations(t) :
        ~SamePile(p, q) /\ m.previous = p /\ m.current = q
  BY DEF MoveMsgs, Moves, Updates
<1>1. ~IsPile(p) => p \in DOMAIN b.zones
  BY <1>0, OccupiedHas
<1>2. ~IsPile(q) => q \notin DOMAIN b.zones
  BY <1>0, DestinationRoom DEF Room, PilePlace
<1> QED
  BY <1>1, <1>2 DEF SamePile

\* No reversible message makes a handler throw.
LEMMA NeverThrows ==
  ASSUME NEW t, NEW b, TableOf(b, t) = t, GoodCards(b),
         NEW m \in CardMoves(t) \cup OtherMoves(t)
  PROVE  ~Throws(m)
<1>1. CASE m \in OtherMoves(t)
  BY <1>1, OtherMovesAre DEF Throws, OtherTypeNames
<1>2. CASE m \in MoveMsgs(t)
  <2>1. m.type = "UpdateCard"
    BY <1>2 DEF MoveMsgs, Moves, Updates
  <2>2. m.previous # m.current
    BY <1>2, NoMoveInPlace
  <2> QED
    BY <2>1, <2>2 DEF Throws
<1>3. CASE m \in SwapMsgs(t)
  <2>1. m.type = "SwapCards" /\ m.card1 # m.card2
    BY <1>3 DEF SwapMsgs
  <2> QED
    BY <2>1 DEF Throws
<1>4. CASE m \in InPlaceMsgs(t) \cup DeckTopMsgs(t, 0)
  <2>1. m.type = "UpdateCard" /\ m.reason # "MOVE"
    BY <1>4 DEF InPlaceMsgs, DeckTopMsgs, Updates
  <2> QED
    BY <2>1 DEF Throws
<1>5. CASE m \in Placed("AddCard", Destinations(t)) \cup Placed("RemoveCard", OccupiedPlaces(t))
  <2>1. m.type \in {"AddCard", "RemoveCard"}
    BY <1>5 DEF Placed
  <2> QED
    BY <2>1 DEF Throws
<1>6. CASE m \in DrawMsgs(t)
  <2>1. m.type = "Draw"
    BY <1>6 DEF DrawMsgs
  <2> QED
    BY <2>1 DEF Throws
<1>7. CASE m \in ShuffleMsgs(t)
  <2>1. m.type = "ShuffleLocation"
    BY <1>7 DEF ShuffleMsgs
  <2> QED
    BY <2>1 DEF Throws
<1>8. CASE m \in ShuffleSetMsgs(t)
  <2>1. m.type = "ShuffleSetCards"
    BY <1>8, SetMsgForm
  <2> QED
    BY <2>1 DEF Throws
<1> QED
  BY <1>1, <1>2, <1>3, <1>4, <1>5, <1>6, <1>7, <1>8 DEF CardMoves

\* Whether a message fits depends on the shape of the board only.
LEMMA FitsLifted ==
  ASSUME NEW R, NEW b, NEW d, Lifted(R, b, d), NEW m, FitsMsg(m, b)
  PROVE  FitsMsg(m, d)
<1>1. CASE Adds(m) /\ Room(b, m.place)
  BY <1>1, LiftedRoom DEF FitsMsg
<1>2. CASE Removes(m) /\ Has(b, m.place)
  BY <1>2, LiftedAt DEF FitsMsg
<1>3. CASE FitsUpdate(m, b)
  <2>1. IsUpdate(m) /\ Movable(b, From(m, b), To(m, b))
    BY <1>3 DEF FitsUpdate
  <2>2. From(m, d) = From(m, b) /\ To(m, d) = To(m, b)
    BY <2>1, LiftedLength
  <2>3. Movable(d, From(m, b), To(m, b))
    BY <2>1, LiftedMovable
  <2> QED
    BY <2>1, <2>2, <2>3 DEF FitsMsg, FitsBoard, FitsUpdate
<1>4. CASE FitsDraw(m, b)
  <2>1. IsDraw(m) /\ Len(m.codes) <= Len(GetPile(b, DeckOf(m)))
    BY <1>4 DEF FitsDraw
  <2>2. SeqLifted(R, GetPile(b, DeckOf(m)), GetPile(d, DeckOf(m)))
    BY <2>1, DrawPiles, LiftedPile
  <2> QED
    BY <2>1, <2>2 DEF FitsMsg, FitsBoard, FitsDraw, SeqLifted
<1>5. CASE FitsShuffle(m, b)
  BY <1>5, LiftedShuffle DEF FitsMsg, FitsBoard
<1>6. CASE FitsSet(m, b)
  BY <1>6 DEF FitsMsg, FitsBoard, FitsSet, Lifted
<1>7. CASE FitsSwap(m, b)
  BY <1>7, LiftedSwap DEF FitsMsg, FitsBoard
<1>8. CASE m.type \notin CardMsgs
  BY <1>8 DEF FitsMsg, FitsBoard
<1> QED
  BY <1>1, <1>2, <1>3, <1>4, <1>5, <1>6, <1>7, <1>8 DEF FitsMsg, FitsBoard

Turned(R) == {<<q[2], q[1]>> : q \in R}

\* Two boards of one shape, the other way round.
LEMMA LiftedBack ==
  ASSUME NEW R, NEW b, NEW d, Lifted(R, b, d)
  PROVE  Lifted(Turned(R), d, b)
<1> PICK Q : Turned(R) = Q
  OBVIOUS
<1>1. ASSUME NEW x, NEW y, <<x, y>> \in R
      PROVE  <<y, x>> \in Q
  <2> PICK q \in R : q = <<x, y>>
    BY <1>1
  <2>1. <<q[2], q[1]>> = <<y, x>>
    OBVIOUS
  <2> QED
    BY <2>1 DEF Turned
<1>2. \A p \in DOMAIN d.zones : <<d.zones[p], b.zones[p]>> \in Q
  BY <1>1 DEF Lifted
<1>3. \A con \in Players, loc \in PileLocations :
        SeqLifted(Q, d.piles[con][loc], b.piles[con][loc])
  BY <1>1 DEF Lifted, SeqLifted
<1>4. IsBoard(b) /\ IsBoard(d) /\ DOMAIN d.zones = DOMAIN b.zones
  BY DEF Lifted
<1> QED
  BY <1>2, <1>3, <1>4 DEF Lifted

\* What fits one board fits the other, the other way round.
LEMMA FitsBack ==
  ASSUME NEW R, NEW b, NEW d, Lifted(R, b, d), NEW m, FitsMsg(m, d)
  PROVE  FitsMsg(m, b)
BY LiftedBack, FitsLifted

\* A new message shows on the board what it does to the table.
LEMMA FreshShows ==
  ASSUME NEW w, NEW t, Lifted(ShowsLast, w.board, t), NEW m, FitsMsg(m, w.board),
         NEW at, NEW v, v = Fresh(m, at, w)
  PROVE  Lifted(ShowsLast, v.board, Plain(m, t))
<1> PICK b : w.board = b
  OBVIOUS
<1>1. CASE m.type = "AddCard"
  <2>1. Adds(m) /\ Room(b, m.place)
    BY <1>1, MsgTypes
  <2> PICK e \in Edits : EditOf(m) = e
    BY <2>1 DEF Adds
  <2>2. <<NewCard, PlainCard(0, 0)>> \in ShowsLast
    BY NewCardSteady
  <2>3. <<Done(NewCard, e), PlainBy(PlainCard(0, 0), e)>> \in ShowsLast
    BY <2>2, NewValueShows
  <2> PICK k : [type \in CounterTypes |-> 0] = k
    OBVIOUS
  <2>4. PlainBy(PlainCard(0, 0), e) = PlainCard(e.code, e.pos)
    <3>1. e.pos # KeepPos
      BY <2>1 DEF Adds
    <3>2. PlainCard(0, 0) \in PlainCards
      BY <2>2 DEF ShowsLast, Shows
    <3> QED
      BY <3>1, <3>2, ReplacedPlain DEF PlainBy
  <2> PICK x : Done(NewCard, e) = x
    OBVIOUS
  <2> PICK y : PlainCard(e.code, e.pos) = y
    OBVIOUS
  <2>5. Lifted(ShowsLast, InsertCard(b, m.place, x), InsertCard(t, m.place, y))
    BY <2>1, <2>3, <2>4, LiftedInsert
  <2>6. v = WorldOf(InsertCard(b, m.place, x), w.temp)
    BY <1>1 DEF Fresh
  <2>7. Plain(m, t) = InsertCard(t, m.place, y)
    BY <1>1 DEF Plain
  <2> QED
    BY <2>5, <2>6, <2>7, WorldParts
<1>2. CASE m.type = "RemoveCard"
  <2>1. Has(b, m.place)
    BY <1>2, MsgTypes
  <2>2. Lifted(ShowsLast, EraseCard(b, m.place), EraseCard(t, m.place))
    BY <2>1, LiftedErase
  <2>3. v.board = EraseCard(b, m.place)
    BY <1>2, WorldParts DEF Fresh
  <2>4. Plain(m, t) = EraseCard(t, m.place)
    BY <1>2 DEF Plain
  <2> QED
    BY <2>2, <2>3, <2>4
<1>3. CASE m.type \notin {"AddCard", "RemoveCard"}
  <2>1. FitsBoard(m, b)
    BY <1>3, MsgTypes
  <2>2. Lifted(ShowsLast, NewBoard(m, b), PlainBoard(m, t))
    BY <2>1, BoardShows
  <2>3. v.board = NewBoard(m, b)
    BY <1>3, WorldParts DEF Fresh
  <2>4. Plain(m, t) = PlainBoard(m, t)
    BY <1>3 DEF Plain
  <2> QED
    BY <2>2, <2>3, <2>4
<1> QED
  BY <1>1, <1>2, <1>3

\* A table of a duel with messages of such kinds.
TableInv(t) ==
  /\ TableOf(CardsOf(t), t) = t
  /\ GoodCards(CardsOf(t))
  /\ BlocksNothing => t.disabled = {}
  /\ t.lp = [p \in Players |-> t.lp[p]]
  /\ \A p \in Players : t.lp[p] \in 0 .. LPModulus - 1

\* What a message does to the registers of the table.
NextRegisters(t, m, e) ==
  /\ e.turn = IF m.type = "NewTurn" THEN t.turn + 1 ELSE t.turn
  /\ e.turnPlayer = IF m.type = "NewTurn" THEN m.turnPlayer ELSE t.turnPlayer
  /\ e.phase = IF m.type = "NewPhase" THEN m.phase ELSE t.phase
  /\ e.lp = IF m.type = "LpChange"
            THEN [t.lp EXCEPT ![m.player] = LpAfter(t.lp[m.player], m)] ELSE t.lp

\* What a message does to the cards of the table.
NextCards(t, m, e) ==
  /\ FitsMsg(m, CardsOf(t)) /\ CardsOf(e) = Plain(m, CardsOf(t))
  /\ m.type \in CardMsgs \cup OtherTypeNames

\* A message about cards changes the cards as Plain says and no register.
LEMMA CardEffect ==
  ASSUME NEW t, TableInv(t), NEW m \in CardMoves(t), NEW e, Effect(t, m) = e
  PROVE  TableInv(e) /\ NextRegisters(t, m, e) /\ NextCards(t, m, e)
<1> PICK b : CardsOf(t) = b
  OBVIOUS
<1> PICK d : Plain(m, b) = d
  OBVIOUS
<1>1. TableOf(b, t) = t /\ GoodCards(b)
  BY DEF TableInv
<1>2. FitsMsg(m, b) /\ e = TableOf(d, t) /\ Ground(d.zones) /\ m.type \in CardMsgs
  BY <1>1, CardMovesApply DEF Applies
<1>3. IsShown(d) /\ IsBoard(d)
  <2> PICK c : Lifted(ShowsLast, c, b)
    BY <1>1 DEF GoodCards, IsShown
  <2> PICK w : WorldOf(c, EmptyMap) = w
    OBVIOUS
  <2>1. w.board = c
    BY WorldParts
  <2>2. FitsMsg(m, c)
    BY <1>2, FitsBack
  <2> PICK v : v = Fresh(m, 0, w)
    OBVIOUS
  <2>3. Lifted(ShowsLast, v.board, d)
    BY <2>1, <2>2, FreshShows
  <2> QED
    BY <2>3 DEF IsShown, Lifted
<1>4. /\ CardsOf(e) = d /\ TableOf(d, e) = e
      /\ e.lp = t.lp /\ e.turn = t.turn /\ e.turnPlayer = t.turnPlayer
      /\ e.phase = t.phase /\ e.disabled = t.disabled
  BY <1>2, <1>3, TableParts
<1>5. TableInv(e)
  BY <1>2, <1>3, <1>4 DEF TableInv, GoodCards
<1>6. m.type \notin {"NewTurn", "NewPhase", "LpChange"}
  BY <1>2 DEF CardMsgs
<1>7. NextRegisters(t, m, e)
  BY <1>4, <1>6 DEF NextRegisters
<1>8. NextCards(t, m, e)
  BY <1>2, <1>4 DEF NextCards
<1> QED
  BY <1>5, <1>7, <1>8

\* The life points that the core counts and the ones that the board counts.
LEMMA LpAgrees ==
  ASSUME NEW t, TableInv(t), NEW m \in FairLpMsgs(t), NEW lp, t.lp[m.player] = lp
  PROVE  /\ LpEffect(t, m) = [t EXCEPT !.lp[m.player] = LpAfter(lp, m)]
         /\ LpAfter(lp, m) \in 0 .. LPModulus - 1 /\ m.player \in Players
         /\ m.type = "LpChange"
<1>1. /\ m.type = "LpChange" /\ m.change \in {"DAMAGE", "PAY", "RECOVER", "BECOME"}
      /\ m.player \in Players /\ m.amount \in Nat
  BY TableAssumption DEF FairLpMsgs, LpMsgs
<1> PICK pl \in Players : m.player = pl
  BY <1>1
<1> PICK a \in Nat : m.amount = a
  BY <1>1
<1> DEFINE new == CASE m.change \in {"DAMAGE", "PAY"} -> IF lp > m.amount THEN lp - m.amount
                                                         ELSE 0
                    [] m.change = "RECOVER" -> lp + m.amount
                    [] OTHER -> m.amount
<1>2. LpEffect(t, m) = [t EXCEPT !.lp[m.player] = new]
  BY DEF LpEffect
<1>3. lp \in 0 .. LPModulus - 1 /\ t.lp = [p \in Players |-> t.lp[p]]
  BY DEF TableInv
<1>4. t = TableOf(CardsOf(t), t)
  BY DEF TableInv
<1>5. LpEffect(t, m).lp[m.player] = new
  <2> HIDE DEF new
  <2> PICK l : t.lp = l
    OBVIOUS
  <2>1. l = [p \in Players |-> l[p]]
    BY <1>3
  <2>2. LpEffect(t, m).lp = [l EXCEPT ![pl] = new]
    BY <1>2, <1>4 DEF TableOf
  <2> QED
    BY <2>1, <2>2
<1>6. /\ m.change \in {"DAMAGE", "PAY"} => a <= lp
      /\ new < LPBound
  BY <1>5 DEF FairLpMsgs
<1>7. LPModulus \in Nat /\ LPBound \in Nat /\ LPBound <= LPModulus
  BY LPModulusAssumption, ClientAssumption
<1>8. LpAfter(lp, m) = new /\ new \in 0 .. LPModulus - 1
  <2>1. CASE m.change \in {"DAMAGE", "PAY"}
    <3>1. new = lp - a
      BY <1>3, <1>6, <1>7, <2>1
    <3>2. lp - a \in 0 .. LPModulus - 1
      BY <1>3, <1>6, <1>7, <2>1
    <3>3. (lp - a) % LPModulus = lp - a
      BY <1>7, <3>2
    <3> QED
      BY <2>1, <3>1, <3>2, <3>3 DEF LpAfter
  <2>2. CASE m.change = "RECOVER"
    <3>1. new = lp + a
      BY <2>2
    <3>2. lp + a \in 0 .. LPModulus - 1
      BY <1>3, <1>6, <1>7, <3>1
    <3>3. (lp + a) % LPModulus = lp + a
      BY <1>7, <3>2
    <3> QED
      BY <2>2, <3>1, <3>2, <3>3 DEF LpAfter
  <2>3. CASE m.change = "BECOME"
    <3>1. new = a
      BY <2>3
    <3>2. a \in 0 .. LPModulus - 1
      BY <1>6, <1>7, <3>1
    <3> QED
      BY <2>3, <3>1, <3>2 DEF LpAfter
  <2> QED
    BY <1>1, <2>1, <2>2, <2>3
<1> HIDE DEF new
<1> QED
  BY <1>1, <1>2, <1>8

\* The cards stay.
LEMMA CardsSame ==
  ASSUME NEW t, TableInv(t), NEW m, m.type \in OtherTypeNames, NEW e, CardsOf(e) = CardsOf(t)
  PROVE  NextCards(t, m, e)
<1>1. m.type \notin CardMsgs
  BY DEF OtherTypeNames, CardMsgs
<1>2. FitsMsg(m, CardsOf(t))
  BY <1>1 DEF FitsMsg, FitsBoard
<1>3. Plain(m, CardsOf(t)) = CardsOf(t)
  BY <1>1 DEF Plain, PlainBoard, CardMsgs
<1> QED
  BY <1>2, <1>3 DEF NextCards

\* One that is not changes a register at most, and no card.
LEMMA OtherEffect ==
  ASSUME NEW t, TableInv(t), NEW m \in OtherMoves(t), NEW e, Effect(t, m) = e
  PROVE  TableInv(e) /\ NextRegisters(t, m, e) /\ NextCards(t, m, e)
<1> PICK b : CardsOf(t) = b
  OBVIOUS
<1>0. m.type \in OtherTypeNames
  BY OtherMovesAre
<1>1. /\ t = [piles |-> t.piles, zones |-> t.zones, lp |-> t.lp, turn |-> t.turn,
              turnPlayer |-> t.turnPlayer, phase |-> t.phase, disabled |-> t.disabled]
      /\ GoodCards(b)
      /\ b = [piles |-> t.piles, zones |-> t.zones]
  BY DEF TableInv, TableOf, CardsOf
<1>2. CASE m \in FairLpMsgs(t)
  <2> PICK pl \in Players : m.player = pl
    BY <1>2, LpAgrees
  <2> PICK lp : t.lp[pl] = lp
    OBVIOUS
  <2> PICK new : LpAfter(lp, m) = new
    OBVIOUS
  <2>1. m.type = "LpChange" /\ new \in 0 .. LPModulus - 1
        /\ LpEffect(t, m) = [t EXCEPT !.lp[pl] = new]
    BY <1>2, LpAgrees
  <2>2. e = [t EXCEPT !.lp[pl] = new]
    BY <2>1 DEF Effect
  <2> PICK l : [t.lp EXCEPT ![pl] = new] = l
    OBVIOUS
  <2>3. e = [piles |-> t.piles, zones |-> t.zones, lp |-> l, turn |-> t.turn,
              turnPlayer |-> t.turnPlayer, phase |-> t.phase, disabled |-> t.disabled]
    BY <1>1, <2>2
  <2>4. t.lp = [p \in Players |-> t.lp[p]] /\ (BlocksNothing => t.disabled = {})
        /\ \A p \in Players : t.lp[p] \in 0 .. LPModulus - 1
    BY DEF TableInv
  <2>5. l = [p \in Players |-> l[p]] /\ \A p \in Players : l[p] \in 0 .. LPModulus - 1
    BY <2>1, <2>4
  <2>6. CardsOf(e) = b
    BY <1>1, <2>3 DEF CardsOf
  <2>7. TableOf(b, e) = e
    BY <1>1, <2>3 DEF TableOf
  <2>8. e.lp = l /\ e.turn = t.turn /\ e.turnPlayer = t.turnPlayer /\ e.phase = t.phase
        /\ e.disabled = t.disabled
    BY <2>3
  <2>9. TableInv(e)
    BY <1>1, <2>4, <2>5, <2>6, <2>7, <2>8 DEF TableInv
  <2>10. NextRegisters(t, m, e)
    BY <2>1, <2>8 DEF NextRegisters
  <2> QED
    BY <1>0, <2>6, <2>9, <2>10, CardsSame
<1>3. CASE m \in {[type |-> "NewTurn", turnPlayer |-> p] : p \in Players}
  <2>1. m.type = "NewTurn"
    BY <1>3
  <2>2. e = [t EXCEPT !.turn = @ + 1, !.turnPlayer = m.turnPlayer]
    BY <2>1 DEF Effect
  <2>3. e = [piles |-> t.piles, zones |-> t.zones, lp |-> t.lp, turn |-> t.turn + 1,
              turnPlayer |-> m.turnPlayer, phase |-> t.phase, disabled |-> t.disabled]
    BY <1>1, <2>2
  <2>4. CardsOf(e) = b
    BY <1>1, <2>3 DEF CardsOf
  <2>5. TableOf(b, e) = e
    BY <1>1, <2>3 DEF TableOf
  <2>6. e.lp = t.lp /\ e.turn = t.turn + 1 /\ e.turnPlayer = m.turnPlayer /\ e.phase = t.phase
        /\ e.disabled = t.disabled
    BY <2>3
  <2>7. TableInv(e)
    BY <1>1, <2>4, <2>5, <2>6 DEF TableInv
  <2>8. NextRegisters(t, m, e)
    BY <2>1, <2>6 DEF NextRegisters
  <2> QED
    BY <1>0, <2>4, <2>7, <2>8, CardsSame
<1>4. CASE m \in {[type |-> "NewPhase", phase |-> p] : p \in Phases}
  <2>1. m.type = "NewPhase"
    BY <1>4
  <2>2. e = [t EXCEPT !.phase = m.phase]
    BY <2>1 DEF Effect
  <2>3. e = [piles |-> t.piles, zones |-> t.zones, lp |-> t.lp, turn |-> t.turn,
              turnPlayer |-> t.turnPlayer, phase |-> m.phase, disabled |-> t.disabled]
    BY <1>1, <2>2
  <2>4. CardsOf(e) = b
    BY <1>1, <2>3 DEF CardsOf
  <2>5. TableOf(b, e) = e
    BY <1>1, <2>3 DEF TableOf
  <2>6. e.lp = t.lp /\ e.turn = t.turn /\ e.turnPlayer = t.turnPlayer /\ e.phase = m.phase
        /\ e.disabled = t.disabled
    BY <2>3
  <2>7. TableInv(e)
    BY <1>1, <2>4, <2>5, <2>6 DEF TableInv
  <2>8. NextRegisters(t, m, e)
    BY <2>1, <2>6 DEF NextRegisters
  <2> QED
    BY <1>0, <2>4, <2>7, <2>8, CardsSame
<1>5. CASE m.type \in {"Empty", "Hint", "Request"}
  <2>1. e = t
    BY <1>5 DEF Effect
  <2>2. NextRegisters(t, m, e)
    BY <1>5, <2>1 DEF NextRegisters
  <2> QED
    BY <1>0, <2>1, <2>2, CardsSame
<1>6. CASE m \in BlockMsgs /\ ~BlocksNothing
  <2>1. m.type = "DisableZones"
    BY <1>6 DEF BlockMsgs
  <2>2. e = [t EXCEPT !.disabled = m.places]
    BY <2>1 DEF Effect
  <2>3. e = [piles |-> t.piles, zones |-> t.zones, lp |-> t.lp, turn |-> t.turn,
              turnPlayer |-> t.turnPlayer, phase |-> t.phase, disabled |-> m.places]
    BY <1>1, <2>2
  <2>4. CardsOf(e) = b
    BY <1>1, <2>3 DEF CardsOf
  <2>5. TableOf(b, e) = e
    BY <1>1, <2>3 DEF TableOf
  <2>6. e.lp = t.lp /\ e.turn = t.turn /\ e.turnPlayer = t.turnPlayer /\ e.phase = t.phase
    BY <2>3
  <2>7. TableInv(e)
    BY <1>1, <1>6, <2>4, <2>5, <2>6 DEF TableInv
  <2>8. NextRegisters(t, m, e)
    BY <2>1, <2>6 DEF NextRegisters
  <2> QED
    BY <1>0, <2>4, <2>7, <2>8, CardsSame
<1>7. \/ m \in FairLpMsgs(t)
      \/ m \in {[type |-> "NewTurn", turnPlayer |-> p] : p \in Players}
      \/ m \in {[type |-> "NewPhase", phase |-> p] : p \in Phases}
      \/ m.type \in {"Empty", "Hint", "Request"}
      \/ m \in BlockMsgs /\ ~BlocksNothing
  BY DEF OtherMoves
<1> QED
  BY <1>2, <1>3, <1>4, <1>5, <1>6, <1>7

\* Every message of those kinds leads from a table of such a duel to
\* another one, and none throws.
LEMMA EffectInv ==
  ASSUME Kinds \subseteq FilmedKinds,
         NEW t, TableInv(t), NEW m \in CoreMsgs(t), NEW e, Effect(t, m) = e
  PROVE  TableInv(e) /\ NextRegisters(t, m, e) /\ NextCards(t, m, e) /\ ~Throws(m)
<1>1. m \in CardMoves(t) \cup OtherMoves(t)
  BY CoreMsgIs
<1>2. ~Throws(m)
  BY <1>1, NeverThrows DEF TableInv
<1> QED
  BY <1>1, <1>2, CardEffect, OtherEffect

\* A recorded card is seen as the plain card that it shows.
LEMMA ShownIs ==
  ASSUME NEW c, NEW p, <<c, p>> \in Shows
  PROVE  ShownCard(c) = p
<1>1. /\ c \in RecordedCards /\ p \in PlainCards
      /\ Shown(c.code) = p.code /\ Shown(c.pos) = p.pos
  BY DEF Shows
<1>2. c.counters = EmptyMap
  BY <1>1, CardForm
<1>3. DOMAIN EmptyMap = {}
  BY DEF EmptyMap
<1> PICK k : [type \in CounterTypes |-> 0] = k
  OBVIOUS
<1>4. [type \in CounterTypes |->
         IF type \in DOMAIN c.counters THEN Shown(c.counters[type]) ELSE 0] = k
  BY <1>2, <1>3
<1>5. p = [code |-> p.code, pos |-> p.pos, counters |-> k]
  BY <1>1 DEF PlainCards
<1>6. ShownCard(c) = [code |-> p.code, pos |-> p.pos, counters |-> k]
  BY <1>1, <1>4 DEF ShownCard
<1> QED
  BY <1>5, <1>6

\* A board whose recordings show the cards of a table is seen as that table's
\* cards.
LEMMA CardsSeen ==
  ASSUME NEW d, Lifted(Shows, Cards, d)
  PROVE  CardsOf(View) = d /\ View.piles = d.piles /\ View.zones = d.zones
<1> PICK b : Cards = b
  OBVIOUS
<1>1. b.piles = piles /\ b.zones = zoneCards
  BY DEF Cards
<1>2. IsBoard(b) /\ IsBoard(d)
  BY DEF Lifted
<1> PICK y : [p \in Players |-> [l \in PileLocations |->
                [i \in DOMAIN piles[p][l] |-> ShownCard(piles[p][l][i])]]] = y
  OBVIOUS
<1> PICK z : [p \in DOMAIN zoneCards |-> ShownCard(zoneCards[p])] = z
  OBVIOUS
<1>3. View.piles = y /\ View.zones = z
  BY DEF View
<1>4. y = d.piles
  <2>1. ASSUME NEW con \in Players, NEW loc \in PileLocations
        PROVE  [i \in DOMAIN piles[con][loc] |-> ShownCard(piles[con][loc][i])] = d.piles[con][loc]
    <3> PICK s : b.piles[con][loc] = s
      OBVIOUS
    <3> PICK t : d.piles[con][loc] = t
      OBVIOUS
    <3>1. SeqLifted(Shows, s, t)
      BY DEF Lifted
    <3>2. DOMAIN s = 1 .. Len(s) /\ t = [i \in 1 .. Len(s) |-> t[i]]
      BY <3>1, SeqIsFunction DEF SeqLifted
    <3>3. \A i \in 1 .. Len(s) : ShownCard(s[i]) = t[i]
      BY <3>1, ShownIs DEF SeqLifted
    <3>4. [i \in DOMAIN s |-> ShownCard(s[i])] = t
      BY <3>2, <3>3
    <3> QED
      BY <1>1, <3>4
  <2>2. d.piles = [con \in Players |-> [loc \in PileLocations |-> d.piles[con][loc]]]
    BY <1>2 DEF IsBoard
  <2>3. y = [con \in Players |-> [loc \in PileLocations |-> d.piles[con][loc]]]
    BY <2>1
  <2> QED
    BY <2>2, <2>3
<1>5. z = d.zones
  <2>1. DOMAIN zoneCards = DOMAIN d.zones /\ IsMap(d.zones)
    BY <1>1, <1>2 DEF Lifted, IsBoard
  <2>2. \A p \in DOMAIN d.zones : ShownCard(zoneCards[p]) = d.zones[p]
    BY <1>1, ShownIs DEF Lifted
  <2> QED
    BY <2>1, <2>2 DEF IsMap
<1>6. CardsOf(View) = [piles |-> y, zones |-> z]
  BY <1>3 DEF CardsOf
<1>7. d = [piles |-> d.piles, zones |-> d.zones]
  BY <1>2 DEF IsBoard
<1> QED
  BY <1>3, <1>4, <1>5, <1>6, <1>7

ZonesOpen ==
  BlocksNothing => disabledZones = [z \in DisableableZones |-> NewSequential(FALSE)]

\* Where no zone was ever blocked, none is seen as blocked.
LEMMA NothingDisabled == BlocksNothing /\ ZonesOpen => View.disabled = {}
<1> SUFFICES ASSUME BlocksNothing, ZonesOpen
             PROVE  View.disabled = {}
  OBVIOUS
<1>1. \A z \in DOMAIN disabledZones : disabledZones[z] = NewSequential(FALSE)
  BY DEF ZonesOpen
<1> PICK s : NewSequential(FALSE) = s
  OBVIOUS
<1>2. s.vec = <<FALSE>> /\ s.pos = 0
  BY DEF NewSequential
<1>3. Len(s.vec) = 1 /\ s.vec[1] = FALSE
  BY <1>2
<1>4. InRange(s)
  BY <1>2, <1>3 DEF InRange
<1>5. Shown(s) = FALSE
  BY <1>2, <1>3, <1>4 DEF Shown
<1>6. ~Shown(s)
  BY <1>5
<1>7. View.disabled = {z \in DOMAIN disabledZones :
                         InRange(disabledZones[z]) /\ Shown(disabledZones[z])}
  BY DEF View
<1>8. \A z \in DOMAIN disabledZones : ~(InRange(disabledZones[z]) /\ Shown(disabledZones[z]))
  BY <1>1, <1>6
<1> QED
  BY <1>7, <1>8

\* What is seen is the cards and the registers.
LEMMA ViewForm == View = TableOf(CardsOf(View), View)
BY DEF View, TableOf, CardsOf

\* A board that shows the cards, the registers and the blocked zones of a table
\* shows the table.
LEMMA ShowingAll ==
  ASSUME NEW t, TableInv(t), Lifted(Shows, Cards, CardsOf(t)),
         Registers(View) = Registers(t), View.disabled = t.disabled
  PROVE  View = t
<1> PICK v : View = v
  OBVIOUS
<1>1. CardsOf(v) = CardsOf(t)
  BY CardsSeen
<1>2. v.disabled = t.disabled
  OBVIOUS
<1>3. v.lp = t.lp /\ v.turn = t.turn /\ v.turnPlayer = t.turnPlayer /\ v.phase = t.phase
  BY DEF Registers
<1>4. v = TableOf(CardsOf(v), v)
  BY ViewForm
<1>5. t = TableOf(CardsOf(t), t)
  BY DEF TableInv
<1> QED
  BY <1>1, <1>2, <1>3, <1>4, <1>5 DEF TableOf

\* Where no zone is ever blocked, the cards and the registers are enough.
LEMMA Showing ==
  \A t : /\ TableInv(t) /\ Lifted(Shows, Cards, CardsOf(t)) /\ ZonesOpen
         /\ Registers(View) = Registers(t) /\ BlocksNothing
         => View = t
BY ShowingAll, NothingDisabled DEF TableInv

----------------------------------------------------------------------------
(* The inductive invariant *)

\* D are the tables before and after the messages ms.
IsDuel(D, ms) ==
  /\ IsSeq(D) /\ Len(ms) \in Nat /\ Len(D) = Len(ms) + 1
  /\ \A i \in 1 .. Len(ms) + 1 : TableInv(D[i])
  /\ \A i \in 1 .. Len(ms) :
       /\ NextRegisters(D[i], ms[i], D[i + 1]) /\ NextCards(D[i], ms[i], D[i + 1])
       /\ ~Throws(ms[i])

\* There is a film of the n messages played that shows the duel, and k of
\* them are applied to the world w.
Filmed(k, n, ms, D, w) ==
  \E H : /\ H[k] = w /\ IsFilm(H, n, ms)
         /\ \A i \in 0 .. n : Lifted(Shows, H[i].board, CardsOf(D[i + 1]))
         /\ Lifted(ShowsLast, H[n].board, CardsOf(D[n + 1]))

\* The frames are those of the duel, up to the zones if some are blocked.
Framed(fr, D, n) ==
  \A i \in 0 .. n :
    /\ Registers(fr[i + 1]) = Registers(D[i + 1])
    /\ BlocksNothing => fr[i + 1] = D[i + 1]

MirrorInv ==
  /\ RegisterInv /\ ZonesOpen /\ IsDuel(Duel, msgs)
  /\ Filmed(state, processedState, msgs, Duel, World)
  /\ Framed(frames, Duel, processedState)

----------------------------------------------------------------------------
(* Before the first message *)

FreshCards ==
  /\ msgs = <<>> /\ state = 0 /\ processedState = 0
  /\ Framed(frames, <<View>>, 0)
  /\ ZonesOpen /\ TempOK(0, tempCards) /\ TableInv(View)
  /\ Lifted(ShowsLast, Cards, CardsOf(View))

\* The invariant before the first message.
LEMMA FreshMirror == RegisterInv /\ FreshCards => MirrorInv
<1> SUFFICES ASSUME RegisterInv, FreshCards
             PROVE  MirrorInv
  OBVIOUS
<1> PICK v : View = v
  OBVIOUS
<1> PICK b : Cards = b
  OBVIOUS
<1> PICK t : tempCards = t
  OBVIOUS
<1> PICK w : World = w
  OBVIOUS
<1>1. Duel = <<v>> /\ Framed(frames, <<v>>, 0) /\ <<v>>[1] = v
  BY DEF FreshCards, Duel
<1>2. IsSeq(<<v>>) /\ Len(<<v>>) = 1 /\ Len(<<>>) = 0
  BY ShortSeqs
<1>3. IsDuel(<<v>>, <<>>)
  BY <1>1, <1>2 DEF IsDuel, FreshCards
<1>4. Lifted(Shows, b, CardsOf(v)) /\ AllRecorded(b) /\ Lifted(ShowsLast, b, CardsOf(v))
  BY LastShows DEF FreshCards
<1>5. w = WorldOf(b, t) /\ w.board = b /\ w.temp = t
  BY WorldParts DEF World
<1>6. IsWorld(0, w)
  BY <1>4, <1>5 DEF IsWorld, FreshCards
<1> DEFINE H == [i \in {0} |-> w]
<1>7. H[0] = w /\ \A i \in 0 .. 0 : i = 0
  OBVIOUS
<1> HIDE DEF H
<1>8. IsFilm(H, 0, <<>>)
  BY <1>6, <1>7 DEF IsFilm
<1>9. \A i \in 0 .. 0 : Lifted(Shows, H[i].board, CardsOf(<<v>>[i + 1]))
  BY <1>1, <1>4, <1>5, <1>7
<1>10. Lifted(ShowsLast, H[0].board, CardsOf(<<v>>[0 + 1]))
  BY <1>1, <1>4, <1>5, <1>7
<1>11. Filmed(0, 0, <<>>, <<v>>, w)
  BY <1>7, <1>8, <1>9, <1>10 DEF Filmed
<1>13. msgs = <<>> /\ state = 0 /\ processedState = 0 /\ ZonesOpen
  BY DEF FreshCards
<1> QED
  BY <1>1, <1>3, <1>11, <1>13 DEF MirrorInv

\* And the other way round.
LEMMA FreshAgain == MirrorInv /\ msgs = <<>> => FreshCards
<1> SUFFICES ASSUME MirrorInv, msgs = <<>>
             PROVE  FreshCards
  OBVIOUS
<1> PICK v : View = v
  OBVIOUS
<1> PICK b : Cards = b
  OBVIOUS
<1> PICK t : tempCards = t
  OBVIOUS
<1> PICK w : World = w
  OBVIOUS
<1>1. Duel = <<v>> /\ <<v>>[1] = v /\ Len(<<>>) = 0
  BY ShortSeqs DEF Duel
<1>2. RegisterInv /\ ZonesOpen /\ IsDuel(<<v>>, <<>>)
      /\ Filmed(state, processedState, <<>>, <<v>>, w) /\ Framed(frames, <<v>>, processedState)
  BY <1>1 DEF MirrorInv
<1>3. state = 0 /\ processedState = 0 /\ Len(frames) = 1 /\ IsSeq(frames)
  <2>1. Len(msgs) = 0 /\ Reach \in Nat /\ Len(frames) = Reach + 1
    BY <1>1, <1>2, InvFacts
  <2>2. ReachInv /\ IsSeq(frames)
    BY <1>2 DEF RegisterInv, HistoryInv
  <2> QED
    BY <2>1, <2>2 DEF ReachInv
<1>4. PICK H : /\ H[0] = w /\ IsFilm(H, 0, <<>>)
               /\ Lifted(ShowsLast, H[0].board, CardsOf(v))
  <2>1. Filmed(0, 0, <<>>, <<v>>, w)
    BY <1>2, <1>3
  <2> QED
    BY <1>1, <2>1 DEF Filmed
<1>5. w = WorldOf(b, t) /\ w.board = b /\ w.temp = t
  BY WorldParts DEF World
<1>6. IsWorld(0, w)
  BY <1>4 DEF IsFilm
<1>7. TempOK(0, t)
  BY <1>5, <1>6 DEF IsWorld
<1>8. Framed(frames, <<v>>, 0)
  BY <1>2, <1>3
<1>9. TableInv(v)
  BY <1>1, <1>2 DEF IsDuel
<1> QED
  BY <1>2, <1>3, <1>4, <1>5, <1>7, <1>8, <1>9 DEF FreshCards

\* What a board shows that has its cards on the last values and no zone
\* blocked.
LEMMA FreshTable ==
  \A d : /\ Lifted(ShowsLast, Cards, d) /\ Ground(d.zones) /\ ZonesOpen
         /\ \A p \in Players : Shown(playerLP[p]) \in 0 .. LPModulus - 1
         => TableInv(View) /\ CardsOf(View) = d
<1> SUFFICES ASSUME NEW d, Lifted(ShowsLast, Cards, d), Ground(d.zones), ZonesOpen,
                    \A p \in Players : Shown(playerLP[p]) \in 0 .. LPModulus - 1
             PROVE  TableInv(View) /\ CardsOf(View) = d
  OBVIOUS
<1> PICK b : Cards = b
  OBVIOUS
<1> PICK v : View = v
  OBVIOUS
<1>1. Lifted(Shows, b, d)
  BY LastShows
<1>2. CardsOf(v) = d
  BY <1>1, CardsSeen
<1>3. GoodCards(d)
  BY DEF GoodCards, IsShown
<1>4. BlocksNothing => v.disabled = {}
  BY NothingDisabled
<1>5. TableOf(CardsOf(v), v) = v
  BY ViewForm
<1>6. v.lp = [p \in Players |-> Shown(playerLP[p])]
  BY ViewRegisters
<1> PICK f : v.lp = f
  OBVIOUS
<1>7. f = [p \in Players |-> f[p]] /\ \A p \in Players : f[p] \in 0 .. LPModulus - 1
  BY <1>6
<1> QED
  BY <1>2, <1>3, <1>4, <1>5, <1>7 DEF TableInv

\* The initial states satisfy the invariant.
LEMMA MirrorInit == Init => MirrorInv
<1> SUFFICES ASSUME Init
             PROVE  FreshCards
  BY FreshMirror, InitInv
<1> DEFINE e == [p \in Players |-> [l \in PileLocations |-> <<>>]]
           d == [piles |-> e, zones |-> EmptyMap]
<1>1. /\ msgs = <<>> /\ state = 0 /\ processedState = 0 /\ Framed(frames, <<View>>, 0)
      /\ ZonesOpen /\ tempCards = EmptyMap /\ piles = e /\ zoneCards = EmptyMap
      /\ playerLP = [p \in Players |-> NewSequential(0)]
  BY DEF Init, BoardInit, ZonesOpen, Framed
<1>2. IsMap(EmptyMap) /\ DOMAIN EmptyMap = {}
  BY DEF EmptyMap, IsMap
<1>3. TempOK(0, tempCards)
  BY <1>1, <1>2 DEF TempOK
<1>4. e = [p \in Players |-> [l \in PileLocations |-> e[p][l]]]
      /\ \A p \in Players, l \in PileLocations : e[p][l] = <<>>
  OBVIOUS
<1>5. d.piles = e /\ d.zones = EmptyMap /\ d = [piles |-> d.piles, zones |-> d.zones]
  OBVIOUS
<1>6. Cards = d
  BY <1>1 DEF Cards
<1> HIDE DEF d, e
<1>7. IsSeq(<<>>) /\ Len(<<>>) = 0
  BY ShortSeqs
<1>8. SeqLifted(ShowsLast, <<>>, <<>>)
  BY <1>7 DEF SeqLifted
<1>9. IsBoard(d)
  BY <1>2, <1>4, <1>5, <1>7 DEF IsBoard
<1>10. Lifted(ShowsLast, d, d)
  BY <1>2, <1>4, <1>5, <1>8, <1>9 DEF Lifted
<1>11. Ground(d.zones)
  BY <1>2, <1>5 DEF Ground
<1>12. Shown(NewSequential(0)) = 0
  BY ZoneIsFresh
<1>13. \A p \in Players : Shown(playerLP[p]) \in 0 .. LPModulus - 1
  BY <1>1, <1>12, LPModulusAssumption
<1>14. TableInv(View) /\ CardsOf(View) = d
  BY <1>1, <1>6, <1>10, <1>11, <1>13, FreshTable
<1> QED
  BY <1>1, <1>3, <1>6, <1>10, <1>14 DEF FreshCards

\* The card that a filled pile has at every index.
Filler == TurnFaceDown(NewCard)

\* Such a card shows what it has: no code, face-down (board.hpp:110-117).
LEMMA FillerShows == <<Filler, PlainCard(0, FACEDOWN)>> \in ShowsLast
<1>1. /\ NewCard \in RecordedCards /\ <<NewCard, PlainCard(0, 0)>> \in ShowsLast
  BY NewCardSteady DEF Steady
<1>2. NewCard.pos \in SequentialOf(Nat) /\ NewCard.code = NewSequential(0)
      /\ NewCard.pos = NewSequential(0) /\ NewCard.counters = EmptyMap
  BY <1>1, CardForm DEF NewCard
<1> PICK s : NewSequential(0) = s
  OBVIOUS
<1>3. FACEDOWN \in Nat
  BY DEF FACEDOWN
<1>4. InRange(s) /\ AtEnd(s) /\ Shown(s) = 0
  BY <1>1, <1>2 DEF ShowsLast, Shows, PlainCard
<1>5. /\ Grown(s, FACEDOWN) \in SequentialOf(Nat)
      /\ InRange(Grown(s, FACEDOWN)) /\ AtEnd(Grown(s, FACEDOWN))
      /\ Shown(Grown(s, FACEDOWN)) = FACEDOWN
  BY <1>2, <1>3, <1>4, StepRecording
<1> PICK g : Grown(s, FACEDOWN) = g
  OBVIOUS
<1>6. AddOrNext(s, TRUE, FACEDOWN) = g
  BY DEF AddOrNext, Grown
<1>7. Filler = [code |-> s, pos |-> g, counters |-> EmptyMap]
  <2>1. NewCard = [code |-> s, pos |-> s, counters |-> EmptyMap]
    BY DEF NewCard
  <2>2. NewCard.pos = s
    BY <2>1
  <2>3. Filler = [NewCard EXCEPT !.pos = g]
    BY <1>6, <2>2, Zenon DEF Filler, TurnFaceDown
  <2> QED
    BY <2>1, <2>3
<1>8. Filler \in RecordedCards
  BY <1>2, <1>5, <1>7 DEF RecordedCards
<1>9. PlainCard(0, FACEDOWN) \in PlainCards
  BY <1>3 DEF PlainCard, PlainCards
<1>10. PlainCard(0, FACEDOWN).code = 0 /\ PlainCard(0, FACEDOWN).pos = FACEDOWN
  BY DEF PlainCard
<1>11. Filler.code = s /\ Filler.pos = g
  BY <1>7
<1> QED
  BY <1>4, <1>5, <1>8, <1>9, <1>10, <1>11 DEF ShowsLast, Shows

FillerPile(s, n) ==
  [i \in 1 .. n |-> TurnFaceDown(IF i <= Len(s) THEN s[i] ELSE NewCard)]

\* An empty pile is filled with such cards.
LEMMA PileFilled ==
  ASSUME NEW con \in Players, NEW loc \in PileLocations, NEW n \in Nat,
         FillPile(con, loc, n), piles[con][loc] = <<>>,
         NEW b, Cards = b, IsBoard(b),
         NEW s, s = [i \in 1 .. n |-> Filler]
  PROVE  /\ Cards' = PutPile(b, Place(con, loc, 0), s)
         /\ UNCHANGED <<tempCards, disabledZones, playerLP>>
<1>1. b.piles = piles /\ b.zones = zoneCards
  BY DEF Cards
<1>2. piles' = PileWith(piles, con, loc, FillerPile(piles[con][loc], n))
  BY Zenon DEF FillPile, FillerPile, PileWith
<1> PICK z : piles[con][loc] = z
  OBVIOUS
<1>3. \A i \in 1 .. n : TurnFaceDown(IF i <= Len(z) THEN z[i] ELSE NewCard) = Filler
  <2> TAKE i \in 1 .. n
  <2>1. Len(<<>>) = 0
    BY ShortSeqs
  <2>2. ~(i <= Len(z))
    BY <2>1
  <2> QED
    BY <2>2 DEF Filler
<1>4. FillerPile(z, n) = s
  BY <1>3 DEF FillerPile
<1>5. piles' = PileWith(piles, con, loc, s)
  BY <1>2, <1>4
<1>6. zoneCards' = zoneCards /\ tempCards' = tempCards
      /\ disabledZones' = disabledZones /\ playerLP' = playerLP
  BY DEF FillPile, registerVars
<1> PICK p : Place(con, loc, 0) = p
  OBVIOUS
<1>7. PilePlace(p) /\ p.con = con /\ p.loc = loc
  <2>1. p = Place(con, loc, 0) /\ p.con = con /\ p.loc = loc /\ p.seq = 0
    BY DEF Place
  <2>2. loc \notin FieldLocations
    BY DEF PileLocations, FieldLocations
  <2> QED
    BY <2>1, <2>2 DEF PilePlace, IsPile
<1>8. IsSeq(s)
  BY FunctionIsSeq
<1>9. [piles |-> piles', zones |-> b.zones] = PutPile(b, p, s)
  BY <1>1, <1>5, <1>7, <1>8, PilesExcept
<1>10. Cards' = [piles |-> piles', zones |-> zoneCards']
  BY DEF Cards
<1> QED
  BY <1>1, <1>6, <1>9, <1>10

\* The board after one step of the setup: its cards and its life points.
LEMMA SetUpBoard ==
  ASSUME MirrorInv, SetUp
  PROVE  /\ FreshCards
         /\ \E d : Lifted(ShowsLast, Cards', d) /\ Ground(d.zones)
         /\ \A p \in Players : Shown(playerLP'[p]) \in 0 .. LPModulus - 1
         /\ UNCHANGED <<msgs, state, processedState, disabledZones, tempCards>>
         /\ frames' = <<View'>>
<1>1. msgs = <<>> /\ (FillOnce \/ SetLPOnce) /\ frames' = <<View'>>
  BY DEF SetUp
<1>2. FreshCards
  BY <1>1, FreshAgain
<1> PICK b : Cards = b
  OBVIOUS
<1> PICK d : CardsOf(View) = d
  OBVIOUS
<1>3. Lifted(ShowsLast, b, d) /\ Ground(d.zones) /\ TableInv(View)
  BY <1>2 DEF FreshCards, TableInv, GoodCards
<1>4. IsBoard(b)
  BY <1>3 DEF Lifted
<1>5. \A p \in Players : Shown(playerLP[p]) \in 0 .. LPModulus - 1
  <2>1. View.lp = [p \in Players |-> Shown(playerLP[p])]
    BY ViewRegisters
  <2>2. \A p \in Players : View.lp[p] \in 0 .. LPModulus - 1
    BY <1>3 DEF TableInv
  <2> QED
    BY <2>1, <2>2
<1>6. UNCHANGED <<msgs, state, processedState, disabledZones, tempCards>>
  BY <1>1 DEF FillOnce, FillPile, SetLPOnce, SetLP, timelineVars, cardVars
<1>7. CASE FillOnce
  <2> PICK q \in DOMAIN FillSizes : /\ piles[q.con][q.loc] = <<>>
                                    /\ FillPile(q.con, q.loc, FillSizes[q])
    BY <1>7 DEF FillOnce
  <2>1. q.con \in Players /\ q.loc \in PileLocations /\ FillSizes[q] \in Nat
    BY ClientAssumption
  <2> PICK n \in Nat : FillSizes[q] = n
    BY <2>1
  <2> PICK p : Place(q.con, q.loc, 0) = p
    OBVIOUS
  <2> PICK s : s = [i \in 1 .. n |-> Filler]
    OBVIOUS
  <2> PICK r : r = [i \in 1 .. n |-> PlainCard(0, FACEDOWN)]
    OBVIOUS
  <2>2. Cards' = PutPile(b, p, s) /\ UNCHANGED playerLP
    BY <1>4, <2>1, PileFilled
  <2>3. PilePlace(p)
    <3>1. p = Place(q.con, q.loc, 0) /\ p.con = q.con /\ p.loc = q.loc /\ p.seq = 0
      BY DEF Place
    <3>2. q.loc \notin FieldLocations
      BY <2>1 DEF PileLocations, FieldLocations
    <3> QED
      BY <2>1, <3>1, <3>2 DEF PilePlace, IsPile
  <2>4. SeqLifted(ShowsLast, s, r)
    <3>1. /\ IsSeq(s) /\ Len(s) = n /\ IsSeq(r) /\ Len(r) = n
      BY FunctionIsSeq
    <3>2. \A i \in 1 .. n : s[i] = Filler /\ r[i] = PlainCard(0, FACEDOWN)
      OBVIOUS
    <3> QED
      BY <3>1, <3>2, FillerShows DEF SeqLifted
  <2> PICK c : PutPile(d, p, r) = c
    OBVIOUS
  <2>5. Lifted(ShowsLast, PutPile(b, p, s), c)
    BY <1>3, <2>3, <2>4, LiftedPut
  <2>6. c.zones = d.zones
    BY <1>3, <2>3, <2>4, PilePut DEF Lifted, SeqLifted
  <2> QED
    BY <1>1, <1>2, <1>3, <1>5, <1>6, <2>2, <2>5, <2>6
<1>8. CASE SetLPOnce
  <2> PICK q \in DOMAIN InitialLP : SetLP(q, InitialLP[q])
    BY <1>8 DEF SetLPOnce
  <2>1. q \in Players /\ InitialLP[q] \in Nat /\ InitialLP[q] < LPModulus
    BY ClientAssumption
  <2> PICK v \in Nat : InitialLP[q] = v
    BY <2>1
  <2> PICK x : playerLP[q] = x
    OBVIOUS
  <2>2. UNCHANGED <<piles, zoneCards>> /\ playerLP' = [playerLP EXCEPT ![q] = Grown(x, v)]
    BY DEF SetLP, cardVars, AddOrNext, Grown
  <2>3. Cards' = b
    BY <2>2 DEF Cards
  <2>4. /\ playerLP \in [Players -> SequentialOf(Nat)]
        /\ state = 0 /\ Reach = 0 /\ Recorded(x, LpMsgsOf(q), state, Reach, LpFilm(q))
        /\ LpMsgsOf(q) \in SUBSET Nat
    <3>1. RegisterInv /\ state = 0 /\ processedState = 0
      BY <1>2 DEF MirrorInv, FreshCards
    <3> QED
      BY <2>1, <3>1, InvFacts DEF RegisterInv, ReachInv, RecordsInv, TypesInv
  <2>5. x \in SequentialOf(Nat)
    BY <2>1, <2>4
  <2>6. InRange(x) /\ AtEnd(x)
    <3>1. InRange(x)
      BY <2>4, <2>5, RecordedShows
    <3>2. Cardinality(After(LpMsgsOf(q), 0, 0)) = 0
      BY <2>4, CountAfter
    <3>3. x.pos = Len(x.vec) - 1 - 0
      BY <2>4, <3>2 DEF Recorded
    <3>4. x.pos \in Int /\ Len(x.vec) \in Nat
      BY <2>5, LenProperties DEF SequentialOf
    <3> QED
      BY <3>1, <3>3, <3>4 DEF AtEnd
  <2>7. Shown(Grown(x, v)) = v
    BY <2>5, <2>6, StepRecording
  <2> PICK g : Grown(x, v) = g
    OBVIOUS
  <2>8. \A p \in Players : Shown(playerLP'[p]) \in 0 .. LPModulus - 1
    <3> TAKE p \in Players
    <3>1. playerLP'[p] = IF p = q THEN g ELSE playerLP[p]
      BY <2>1, <2>2, <2>4
    <3>2. v \in 0 .. LPModulus - 1
      BY <2>1, LPModulusAssumption
    <3> QED
      BY <1>5, <2>7, <3>1, <3>2
  <2> QED
    BY <1>1, <1>2, <1>3, <1>6, <2>3, <2>8
<1> QED
  BY <1>1, <1>7, <1>8

\* Setting the board up keeps the invariant.
LEMMA MirrorSetUp == MirrorInv /\ SetUp => MirrorInv'
<1>1. /\ (RegisterInv /\ FreshCards => MirrorInv)'
      /\ (\A d : /\ Lifted(ShowsLast, Cards, d) /\ Ground(d.zones) /\ ZonesOpen
                 /\ \A p \in Players : Shown(playerLP[p]) \in 0 .. LPModulus - 1
                 => TableInv(View) /\ CardsOf(View) = d)'
  BY FreshMirror, FreshTable, PTL
<1> SUFFICES ASSUME MirrorInv, SetUp
             PROVE  RegisterInv' /\ FreshCards'
  BY <1>1
<1>2. RegisterInv'
  BY SetUpInv DEF MirrorInv
<1>3. /\ FreshCards
      /\ \A p \in Players : Shown(playerLP'[p]) \in 0 .. LPModulus - 1
      /\ UNCHANGED <<msgs, state, processedState, disabledZones, tempCards>>
      /\ frames' = <<View'>>
  BY SetUpBoard
<1> PICK d : Lifted(ShowsLast, Cards', d) /\ Ground(d.zones)
  BY SetUpBoard
<1>4. ZonesOpen' /\ TempOK(0, tempCards')
  BY <1>3 DEF FreshCards, ZonesOpen
<1>5. TableInv(View') /\ CardsOf(View') = d
  BY <1>1, <1>3, <1>4
<1>6. (TableInv(View))' /\ (CardsOf(View))' = d
  BY <1>5
<1>7. Framed(frames', <<View'>>, 0)
  BY <1>3 DEF Framed
<1> QED
  BY <1>2, <1>3, <1>4, <1>6, <1>7 DEF FreshCards

\* The duel with one more message.
LEMMA DuelGrown ==
  ASSUME Kinds \subseteq FilmedKinds, NEW D, NEW ms, IsSeq(ms), IsDuel(D, ms),
         NEW t, t = D[Len(D)], NEW m \in CoreMsgs(t), NEW e, e = Effect(t, m)
  PROVE  IsDuel(Append(D, e), Append(ms, m))
<1> PICK D2 : D2 = Append(D, e)
  OBVIOUS
<1> PICK ms2 : ms2 = Append(ms, m)
  OBVIOUS
<1> PICK k \in Nat : Len(ms) = k
  BY DEF IsDuel
<1>1. IsSeq(D) /\ Len(D) = k + 1
  BY DEF IsDuel
<1>2. /\ IsSeq(D2) /\ Len(D2) = k + 2 /\ D2[k + 2] = e
      /\ \A i \in 1 .. k + 1 : D2[i] = D[i]
  BY <1>1, AppendToSeq
<1>3. /\ IsSeq(ms2) /\ Len(ms2) = k + 1 /\ ms2[k + 1] = m
      /\ \A i \in 1 .. k : ms2[i] = ms[i]
  BY AppendToSeq
<1>0. t = D[k + 1]
  BY <1>1
<1>4. TableInv(t)
  <2>1. k + 1 \in 1 .. k + 1
    OBVIOUS
  <2> QED
    BY <1>0, <2>1 DEF IsDuel
<1>6. TableInv(e) /\ NextRegisters(t, m, e) /\ NextCards(t, m, e) /\ ~Throws(m)
  BY <1>4, EffectInv
<1>7. ASSUME NEW i \in 1 .. k + 2
      PROVE  TableInv(D2[i])
  <2>1. CASE i \in 1 .. k + 1
    BY <1>2, <2>1 DEF IsDuel
  <2>2. CASE i = k + 2
    BY <1>2, <1>6, <2>2
  <2>3. i \in 1 .. k + 1 \/ i = k + 2
    OBVIOUS
  <2> QED
    BY <2>1, <2>2, <2>3, Zenon
<1>8. ASSUME NEW i \in 1 .. k + 1
      PROVE  /\ NextRegisters(D2[i], ms2[i], D2[i + 1])
             /\ NextCards(D2[i], ms2[i], D2[i + 1])
             /\ ~Throws(ms2[i])
  <2>1. CASE i \in 1 .. k
    <3>1. i + 1 \in 1 .. k + 1
      BY <2>1
    <3>2. D2[i] = D[i] /\ D2[i + 1] = D[i + 1] /\ ms2[i] = ms[i]
      BY <1>2, <1>3, <2>1, <3>1
    <3> QED
      BY <2>1, <3>2 DEF IsDuel
  <2>2. CASE i = k + 1
    <3>1. D2[i] = t /\ D2[i + 1] = e /\ ms2[i] = m
      BY <1>0, <1>2, <1>3, <2>2
    <3> QED
      BY <1>6, <3>1
  <2>3. i \in 1 .. k \/ i = k + 1
    OBVIOUS
  <2> QED
    BY <2>1, <2>2, <2>3, Zenon
<1>9. IsDuel(D2, ms2)
  <2>1. k + 1 \in Nat /\ k + 1 + 1 = k + 2
    OBVIOUS
  <2> QED
    BY <1>2, <1>3, <1>7, <1>8, <2>1 DEF IsDuel
<1> QED
  BY <1>9

\* A film does not depend on the messages that are not played yet.
LEMMA FilmedLonger ==
  ASSUME NEW k, NEW n \in Nat, NEW ms, NEW D, NEW w, Filmed(k, n, ms, D, w),
         NEW ms2, \A i \in 0 .. n - 1 : ms2[i + 1] = ms[i + 1],
         NEW D2, \A i \in 0 .. n : D2[i + 1] = D[i + 1]
  PROVE  Filmed(k, n, ms2, D2, w)
<1> PICK H : /\ H[k] = w /\ IsFilm(H, n, ms)
             /\ \A i \in 0 .. n : Lifted(Shows, H[i].board, CardsOf(D[i + 1]))
             /\ Lifted(ShowsLast, H[n].board, CardsOf(D[n + 1]))
  BY DEF Filmed
<1>1. IsFilm(H, n, ms2)
  BY DEF IsFilm
<1>2. n \in 0 .. n
  OBVIOUS
<1>3. D2[n + 1] = D[n + 1]
  BY <1>2
<1>4. \A i \in 0 .. n : Lifted(Shows, H[i].board, CardsOf(D2[i + 1]))
  OBVIOUS
<1> QED
  BY <1>1, <1>3, <1>4 DEF Filmed

\* A message that arrives keeps the invariant: the film is as long as before.
LEMMA MirrorReceive ==
  Kinds \subseteq FilmedKinds /\ MirrorInv /\ Receive => MirrorInv'
<1> SUFFICES ASSUME Kinds \subseteq FilmedKinds, MirrorInv, Receive
             PROVE  MirrorInv'
  OBVIOUS
<1> PICK D : Duel = D
  OBVIOUS
<1> PICK ms : msgs = ms
  OBVIOUS
<1> PICK w : World = w
  OBVIOUS
<1> PICK fr : frames = fr
  OBVIOUS
<1>1. PICK m \in CoreMsgs(D[Len(D)]) :
        /\ AppendMsg(m) /\ tables' = Append(D, Effect(D[Len(D)], m))
  BY DEF Receive
<1> PICK e : e = Effect(D[Len(D)], m)
  OBVIOUS
<1> PICK D2 : D2 = Append(D, e)
  OBVIOUS
<1> PICK ms2 : ms2 = Append(ms, m)
  OBVIOUS
<1>2. /\ msgs' = ms2 /\ tables' = D2
      /\ UNCHANGED <<state, processedState, piles, zoneCards, tempCards,
                     disabledZones, frames>>
  BY <1>1 DEF AppendMsg, Receive, cardVars
<1>3. /\ RegisterInv /\ IsDuel(D, ms) /\ ZonesOpen /\ IsSeq(ms)
      /\ Filmed(state, processedState, ms, D, w) /\ Framed(fr, D, processedState)
  BY DEF MirrorInv, RegisterInv, HistoryInv
<1> PICK n \in Nat : processedState = n
  BY <1>3 DEF RegisterInv, ReachInv
<1>4. n <= Len(ms) /\ Len(ms) \in Nat
  BY <1>3, InvFacts DEF RegisterInv, ReachInv
<1>5. /\ IsDuel(D2, ms2)
      /\ \A i \in 1 .. Len(ms) + 1 : D2[i] = D[i]
      /\ \A i \in 1 .. Len(ms) : ms2[i] = ms[i]
  <2>1. IsSeq(D) /\ Len(D) = Len(ms) + 1
    BY <1>3 DEF IsDuel
  <2>2. IsDuel(Append(D, e), Append(ms, m))
    BY <1>3, DuelGrown
  <2> QED
    BY <1>3, <2>1, <2>2, AppendToSeq
<1>6. /\ \A i \in 0 .. n : D2[i + 1] = D[i + 1]
      /\ \A i \in 0 .. n - 1 : ms2[i + 1] = ms[i + 1]
  <2>1. ASSUME NEW i \in 0 .. n
        PROVE  D2[i + 1] = D[i + 1]
    <3>1. i + 1 \in 1 .. Len(ms) + 1
      BY <1>4
    <3> QED
      BY <1>5, <3>1
  <2>2. ASSUME NEW i \in 0 .. n - 1
        PROVE  ms2[i + 1] = ms[i + 1]
    <3>1. i + 1 \in 1 .. Len(ms)
      BY <1>4
    <3> QED
      BY <1>5, <3>1
  <2> QED
    BY <2>1, <2>2
<1>7. Filmed(state, n, ms2, D2, w)
  BY <1>3, <1>6, FilmedLonger
<1>8. Framed(fr, D2, n)
  BY <1>3, <1>6 DEF Framed
<1>9. Duel' = D2
  <2>1. IsSeq(ms2) /\ Len(ms2) = Len(ms) + 1
    BY <1>3, AppendToSeq
  <2>2. ms2 # <<>>
    BY <1>4, <2>1, ShortSeqs
  <2> QED
    BY <1>2, <2>2 DEF Duel
<1>10. World' = w
  <2>1. Cards' = Cards
    BY <1>2 DEF Cards
  <2> QED
    BY <1>2, <2>1, WorldNext DEF World
<1>11. ZonesOpen' /\ RegisterInv'
  BY <1>2, <1>3, ReceiveInv DEF ZonesOpen
<1> QED
  BY <1>2, <1>5, <1>7, <1>8, <1>9, <1>10, <1>11 DEF MirrorInv

\* Nothing ever threw, so the board has been in the state of every message it
\* has processed.
LEMMA MirrorFacts ==
  ASSUME MirrorInv
  PROVE  /\ state \in Nat /\ processedState \in Nat /\ Len(msgs) \in Nat
         /\ state <= processedState /\ processedState <= Len(msgs)
         /\ Reach = processedState /\ DOMAIN msgs = 1 .. Len(msgs)
         /\ IsSeq(msgs) /\ IsSeq(frames) /\ Len(frames) = processedState + 1
<1>1. /\ RegisterInv /\ IsDuel(Duel, msgs)
      /\ Len(msgs) \in Nat /\ DOMAIN msgs = 1 .. Len(msgs) /\ Reach \in Nat
      /\ Len(frames) = Reach + 1
  BY InvFacts DEF MirrorInv
<1>2. HistoryInv /\ ReachInv
  BY <1>1 DEF RegisterInv
<1>3. processedState = Reach
  <2>1. SUFFICES ASSUME processedState # Reach
                 PROVE  FALSE
    OBVIOUS
  <2>2. processedState \in 1 .. Len(msgs) /\ Throws(msgs[processedState])
    BY <1>1, <1>2, <2>1 DEF ReachInv
  <2>3. ~Throws(msgs[processedState])
    BY <1>1, <2>2 DEF IsDuel
  <2> QED
    BY <2>2, <2>3
<1> QED
  BY <1>1, <1>2, <1>3 DEF HistoryInv, ReachInv

\* A message played for the first time is interpreted in real time.
LEMMA PlayedNew ==
  ASSUME Play, state = processedState
  PROVE  InterpretMsg(msgs[state + 1], state, TRUE, TRUE)
<1>1. (state = processedState) = TRUE
  OBVIOUS
<1>2. InterpretMsg(msgs[state + 1], state, TRUE, state = processedState)
  BY DEF Play, Forward
<1> QED
  BY <1>1, <1>2, Zenon

\* One that was played before is not.
LEMMA PlayedAgain ==
  ASSUME Play, state # processedState
  PROVE  InterpretMsg(msgs[state + 1], state, TRUE, FALSE)
<1>1. (state = processedState) = FALSE
  OBVIOUS
<1>2. InterpretMsg(msgs[state + 1], state, TRUE, state = processedState)
  BY DEF Play, Forward
<1> QED
  BY <1>1, <1>2, Zenon

\* After the last message every recording is on its last value.
LEMMA LastRegisters ==
  ASSUME MirrorInv, state = processedState
  PROVE  /\ turnPlayer \in SequentialOf(Nat) /\ InRange(turnPlayer) /\ AtEnd(turnPlayer)
         /\ phase \in SequentialOf(Nat) /\ InRange(phase) /\ AtEnd(phase)
         /\ playerLP \in [Players -> SequentialOf(Nat)]
         /\ \A p \in Players : InRange(playerLP[p]) /\ AtEnd(playerLP[p])
<1> PICK n \in Nat : state = n
  BY MirrorFacts
<1>1. /\ TypesInv /\ RecordsInv /\ TurnMsgs \in SUBSET Nat /\ PhaseMsgs \in SUBSET Nat
      /\ \A p : LpMsgsOf(p) \in SUBSET Nat
      /\ Reach = n
  BY MirrorFacts, InvFacts DEF MirrorInv, RegisterInv
<1>2. ASSUME NEW V, NEW s \in SequentialOf(V), NEW T \in SUBSET Nat, NEW fr,
             Recorded(s, T, n, n, fr)
      PROVE  InRange(s) /\ AtEnd(s)
  <2>1. InRange(s)
    BY <1>2, RecordedShows
  <2>2. s.pos = Len(s.vec) - 1 - 0
    BY <1>2, CountAfter DEF Recorded
  <2>3. s.pos \in Int /\ Len(s.vec) \in Nat
    BY <1>2, LenProperties DEF SequentialOf
  <2> QED
    BY <2>1, <2>2, <2>3 DEF AtEnd
<1>3. InRange(turnPlayer) /\ AtEnd(turnPlayer)
  BY <1>1, <1>2 DEF TypesInv, RecordsInv
<1>4. InRange(phase) /\ AtEnd(phase)
  BY <1>1, <1>2 DEF TypesInv, RecordsInv
<1>5. \A p \in Players : InRange(playerLP[p]) /\ AtEnd(playerLP[p])
  BY <1>1, <1>2 DEF TypesInv, RecordsInv
<1>6. turnPlayer \in SequentialOf(Nat)
  <2>1. turnPlayer.vec \in Seq(Players) /\ Players \subseteq Nat
    BY <1>1 DEF TypesInv, SequentialOf, Players
  <2> PICK v : turnPlayer.vec = v
    OBVIOUS
  <2>2. v \in Seq(Nat)
    <3>1. Len(v) \in Nat /\ v \in [1 .. Len(v) -> Players]
      BY <2>1, LenProperties
    <3>2. v \in [1 .. Len(v) -> Nat]
      BY <2>1, <3>1
    <3> QED
      BY <3>1, <3>2, SeqDef
  <2> QED
    BY <1>1, <2>2 DEF TypesInv, SequentialOf
<1> QED
  BY <1>1, <1>3, <1>4, <1>5, <1>6 DEF TypesInv

\* The board shows the registers of the duel.
LEMMA RegistersShown == MirrorInv => Registers(View) = Registers(Duel[state + 1])
<1> SUFFICES ASSUME MirrorInv
             PROVE  Registers(View) = Registers(Duel[state + 1])
  OBVIOUS
<1>1. RegistersReplay
  BY RegistersReplayInv DEF MirrorInv
<1>2. state \in 0 .. processedState
  BY MirrorFacts
<1>3. Registers(frames[state + 1]) = Registers(Duel[state + 1])
  BY <1>2 DEF MirrorInv, Framed
<1> QED
  BY <1>1, <1>3 DEF RegistersReplay

\* A register on its last value gets a new one and shows it.
LEMMA NewValueShown ==
  ASSUME NEW s \in SequentialOf(Nat), InRange(s), AtEnd(s), NEW v \in Nat
  PROVE  Shown(Step(s, TRUE, TRUE, v)) = v
<1>1. Step(s, TRUE, TRUE, v) = Grown(s, v)
  BY DEF Step, AddOrNext, Grown
<1> QED
  BY <1>1, StepRecording

\* A new message does to the registers on the board what it does to the duel.
LEMMA NewRegisters ==
  ASSUME MirrorInv, state = processedState, NEW m, MsgOK(m), NEW at,
         InterpretMsg(m, at, TRUE, TRUE),
         NEW t, TableInv(t), Registers(View) = Registers(t),
         NEW e, NextRegisters(t, m, e)
  PROVE  Registers(View') = Registers(e)
<1>1. RegisterStep(m, TRUE, TRUE)
  BY InterpretRegisters, Zenon
<1>2. /\ turn = t.turn /\ Shown(turnPlayer) = t.turnPlayer /\ Shown(phase) = t.phase
      /\ t.lp = [p \in Players |-> Shown(playerLP[p])]
  BY ViewRegisters DEF Registers
<1>3. /\ View'.turn = turn' /\ View'.turnPlayer = Shown(turnPlayer')
      /\ View'.phase = Shown(phase')
      /\ View'.lp = [p \in Players |-> Shown(playerLP'[p])]
  BY ViewRegisters
<1>4. turn' = e.turn
  BY <1>1, <1>2 DEF RegisterStep, NextRegisters
<1>5. Shown(turnPlayer') = e.turnPlayer
  <2>1. CASE m.type = "NewTurn"
    <3>1. turnPlayer' = Step(turnPlayer, TRUE, TRUE, m.turnPlayer)
      BY <1>1, <2>1, Zenon DEF RegisterStep
    <3>2. m.turnPlayer \in Nat
      BY <2>1 DEF MsgOK, Players
    <3>3. Shown(Step(turnPlayer, TRUE, TRUE, m.turnPlayer)) = m.turnPlayer
      BY <3>2, LastRegisters, NewValueShown
    <3>4. e.turnPlayer = m.turnPlayer
      BY <2>1 DEF NextRegisters
    <3> QED
      BY <3>1, <3>3, <3>4, Zenon
  <2>2. CASE m.type # "NewTurn"
    BY <1>1, <1>2, <2>2 DEF RegisterStep, NextRegisters
  <2> QED
    BY <2>1, <2>2
<1>6. Shown(phase') = e.phase
  <2>1. CASE m.type = "NewPhase"
    <3>1. phase' = Step(phase, TRUE, TRUE, m.phase)
      BY <1>1, <2>1, Zenon DEF RegisterStep
    <3>2. m.phase \in Nat
      BY <2>1 DEF MsgOK
    <3>3. Shown(Step(phase, TRUE, TRUE, m.phase)) = m.phase
      BY <3>2, LastRegisters, NewValueShown
    <3>4. e.phase = m.phase
      BY <2>1 DEF NextRegisters
    <3> QED
      BY <3>1, <3>3, <3>4, Zenon
  <2>2. CASE m.type # "NewPhase"
    BY <1>1, <1>2, <2>2 DEF RegisterStep, NextRegisters
  <2> QED
    BY <2>1, <2>2
<1>7. View'.lp = e.lp
  <2>1. CASE m.type = "LpChange"
    <3> PICK q : m.player = q
      OBVIOUS
    <3> PICK x : playerLP[q] = x
      OBVIOUS
    <3>1. q \in Players /\ m.amount \in Nat
      BY <2>1 DEF MsgOK
    <3>2. PICK lp \in ReadValues(x) :
            playerLP' = [playerLP EXCEPT ![q] = Step(@, TRUE, TRUE, LpAfter(lp, m))]
      BY <1>1, <2>1 DEF RegisterStep
    <3>3. x \in SequentialOf(Nat) /\ InRange(x) /\ AtEnd(x)
      BY <3>1, LastRegisters
    <3>4. lp = t.lp[q]
      <4>1. lp = Shown(x)
        BY <3>2, <3>3 DEF ReadValues, Shown
      <4> QED
        BY <1>2, <3>1, <4>1
    <3> PICK v : LpAfter(lp, m) = v
      OBVIOUS
    <3>5. v \in Nat
      <4>1. lp \in Nat
        BY <3>1, <3>4 DEF TableInv
      <4>2. \A y \in Int : y % LPModulus \in Nat
        BY LPModulusAssumption
      <4> QED
        BY <3>1, <4>1, <4>2 DEF LpAfter
    <3>6. Shown(Step(x, TRUE, TRUE, v)) = v
      BY <3>3, <3>5, NewValueShown
    <3> PICK g : Step(x, TRUE, TRUE, v) = g
      OBVIOUS
    <3>7. playerLP' = [playerLP EXCEPT ![q] = g]
      BY <3>2
    <3>8. \A p \in Players : Shown(playerLP'[p]) = IF p = q THEN v ELSE Shown(playerLP[p])
      BY <3>6, <3>7, LastRegisters
    <3>9. e.lp = [t.lp EXCEPT ![q] = v]
      BY <2>1, <3>4 DEF NextRegisters
    <3>10. e.lp = [p \in Players |-> IF p = q THEN v ELSE Shown(playerLP[p])]
      BY <1>2, <3>9
    <3> QED
      BY <1>3, <3>8, <3>10
  <2>2. CASE m.type # "LpChange"
    BY <1>1, <1>2, <1>3, <2>2 DEF RegisterStep, NextRegisters
  <2> QED
    BY <2>1, <2>2
<1> QED
  BY <1>3, <1>4, <1>5, <1>6, <1>7 DEF Registers

\* G is the film H, with longer recordings, and the world v after it.
FilmThen(H, n, ms, v, G) ==
  /\ IsFilm(G, n + 1, ms) /\ G[n + 1] = v
  /\ \A i \in 0 .. n : WorldExtends(n, H[i], G[i])

\* There is such a film for every message that fits.
LEMMA FilmGrows ==
  ASSUME NEW n \in Nat, NEW H, NEW ms, IsFilm(H, n, ms), NEW w, H[n] = w,
         NEW m, ms[n + 1] = m, FitsMsg(m, w.board),
         NEW t, Lifted(Shows, w.board, t), NEW v, Fresh(m, n, w) = v
  PROVE  \E G : FilmThen(H, n, ms, v, G)
BY ExtendFilm DEF FilmThen

\* The film when one more message is played.
LEMMA FilmPlayed ==
  ASSUME NEW n \in Nat, NEW ms, NEW D, NEW w, Filmed(n, n, ms, D, w), IsDuel(D, ms),
         n < Len(ms), NEW m, m = ms[n + 1], NEW v, v = Fresh(m, n, w)
  PROVE  /\ Filmed(n + 1, n + 1, ms, D, v)
         /\ IsWorld(n, w) /\ FitsMsg(m, w.board)
         /\ Lifted(Shows, v.board, CardsOf(D[n + 2]))
<1> PICK t : CardsOf(D[n + 1]) = t
  OBVIOUS
<1> PICK e : CardsOf(D[n + 2]) = e
  OBVIOUS
<1>0. PICK H : /\ H[n] = w /\ IsFilm(H, n, ms)
               /\ \A i \in 0 .. n : Lifted(Shows, H[i].board, CardsOf(D[i + 1]))
               /\ Lifted(ShowsLast, H[n].board, CardsOf(D[n + 1]))
  BY DEF Filmed
<1>1. FitsMsg(m, t) /\ e = Plain(m, t)
  <2>1. n + 1 \in 1 .. Len(ms) /\ n + 1 + 1 = n + 2
    BY DEF IsDuel
  <2>2. NextCards(D[n + 1], m, D[n + 2])
    BY <2>1 DEF IsDuel
  <2> QED
    BY <2>2 DEF NextCards
<1>2. Lifted(ShowsLast, w.board, t) /\ Lifted(Shows, w.board, t)
  BY <1>0, LastShows
<1>3. FitsMsg(m, w.board)
  BY <1>1, <1>2, FitsBack
<1>4. IsWorld(n, w)
  BY <1>0 DEF IsFilm
<1>5. Lifted(ShowsLast, v.board, e)
  BY <1>1, <1>2, <1>3, FreshShows
<1>6. Lifted(Shows, v.board, e)
  BY <1>5, LastShows
<1>7. PICK G : FilmThen(H, n, ms, v, G)
  BY <1>0, <1>2, <1>3, FilmGrows
<1>8. ASSUME NEW i \in 0 .. n + 1
      PROVE  Lifted(Shows, G[i].board, CardsOf(D[i + 1]))
  <2>1. CASE i \in 0 .. n
    <3>1. Lifted(Extends, H[i].board, G[i].board)
      BY <1>7, <2>1 DEF FilmThen, WorldExtends
    <3>2. Lifted(Shows, H[i].board, CardsOf(D[i + 1]))
      BY <1>0, <2>1
    <3> QED
      BY <3>1, <3>2, LiftedShows
  <2>2. CASE i = n + 1
    BY <1>6, <1>7, <2>2 DEF FilmThen
  <2>3. i \in 0 .. n \/ i = n + 1
    OBVIOUS
  <2> QED
    BY <2>1, <2>2, <2>3
<1>9. Lifted(ShowsLast, G[n + 1].board, CardsOf(D[n + 1 + 1]))
  <2>1. n + 1 + 1 = n + 2
    OBVIOUS
  <2> QED
    BY <1>5, <1>7, <2>1 DEF FilmThen
<1>10. Filmed(n + 1, n + 1, ms, D, v)
  BY <1>7, <1>8, <1>9 DEF FilmThen, Filmed
<1> QED
  BY <1>3, <1>4, <1>6, <1>10

\* Messages that are not about zones leave them alone.
LEMMA ZonesStay ==
  ASSUME NEW m, NEW at, NEW adv, NEW rt, InterpretMsg(m, at, adv, rt),
         BlocksNothing => m.type # "DisableZones", ZonesOpen
  PROVE  ZonesOpen'
<1>1. BlocksNothing => UNCHANGED disabledZones
  BY InterpretZones, Zenon DEF HandleDisableZones
<1> QED
  BY <1>1 DEF ZonesOpen

\* The messages of the duel are of those kinds.
LEMMA DuelMsg ==
  ASSUME NEW D, NEW ms, IsDuel(D, ms), NEW i \in 1 .. Len(ms)
  PROVE  /\ ms[i].type # "CounterChange"
         /\ BlocksNothing => ms[i].type # "DisableZones"
         /\ TableInv(D[i]) /\ TableInv(D[i + 1])
         /\ NextRegisters(D[i], ms[i], D[i + 1])
<1>1. NextCards(D[i], ms[i], D[i + 1])
  BY DEF IsDuel
<1>2. i \in 1 .. Len(ms) + 1 /\ i + 1 \in 1 .. Len(ms) + 1
  BY DEF IsDuel
<1> QED
  BY <1>1, <1>2 DEF NextCards, CardMsgs, OtherTypeNames, IsDuel

\* The duel does not change when no message arrives.
LEMMA SameDuelOn ==
  ASSUME UNCHANGED <<msgs, tables>>, msgs # <<>>
  PROVE  Duel' = Duel
BY DEF Duel

\* A world after a step has the board's new cards.
LEMMA CardsAfter ==
  ASSUME NEW v, World' = v
  PROVE  Cards' = v.board
<1>1. World' = WorldOf(Cards', tempCards')
  BY WorldNext
<1> QED
  BY <1>1, WorldParts

\* A board that shows a table after a step shows it as that table.
LEMMA ShowingNext ==
  ASSUME NEW u, TableInv(u), Lifted(Shows, Cards', CardsOf(u)), ZonesOpen',
         Registers(View') = Registers(u), BlocksNothing
  PROVE  View' = u
<1>1. (\A t : /\ TableInv(t) /\ Lifted(Shows, Cards, CardsOf(t)) /\ ZonesOpen
              /\ Registers(View) = Registers(t) /\ BlocksNothing
              => View = t)'
  BY Showing, PTL
<1> QED
  BY <1>1

\* Playing a message for the first time keeps the invariant.
LEMMA MirrorPlayNew ==
  ASSUME MirrorInv, Play, state = processedState
  PROVE  MirrorInv'
<1> PICK n \in Nat : state = n
  BY MirrorFacts
<1> PICK D : Duel = D
  OBVIOUS
<1> PICK ms : msgs = ms
  OBVIOUS
<1> PICK w : World = w
  OBVIOUS
<1> PICK m : ms[n + 1] = m
  OBVIOUS
<1> PICK v : Fresh(m, n, w) = v
  OBVIOUS
<1> PICK t : D[n + 1] = t
  OBVIOUS
<1> PICK e : D[n + 2] = e
  OBVIOUS
<1>1. /\ processedState = n /\ UNCHANGED <<msgs, tables>> /\ n < Len(ms) /\ state' = n + 1
      /\ processedState' = n + 1 /\ frames' = Append(frames, View')
  BY DEF Play, Forward, MarkProcessed
<1>2. /\ RegisterInv /\ ZonesOpen /\ IsDuel(D, ms) /\ Filmed(n, n, ms, D, w)
      /\ Framed(frames, D, n)
  BY <1>1 DEF MirrorInv
<1>3. n + 1 \in 1 .. Len(ms) /\ n + 1 + 1 = n + 2 /\ n + 1 \in DOMAIN msgs
  BY <1>1, MirrorFacts
<1>4. /\ Filmed(n + 1, n + 1, ms, D, v) /\ IsWorld(n, w) /\ FitsMsg(m, w.board)
      /\ Lifted(Shows, v.board, CardsOf(e))
  BY <1>1, <1>2, FilmPlayed
<1>5. /\ m.type # "CounterChange" /\ (BlocksNothing => m.type # "DisableZones")
      /\ TableInv(t) /\ TableInv(e) /\ NextRegisters(t, m, e)
  BY <1>2, <1>3, DuelMsg
<1>6. InterpretMsg(m, n, TRUE, TRUE)
  BY <1>1, PlayedNew
<1>7. TempOf(m, n) \notin DOMAIN w.temp
  <2>1. TempOf(m, n).state = n
    BY DEF TempOf, TempPlace
  <2>2. \A x \in DOMAIN w.temp : x.state \in 0 .. n - 1
    BY <1>4 DEF IsWorld, TempOK
  <2> QED
    BY <2>1, <2>2
<1>8. IsBoard(v.board)
  BY <1>4 DEF Lifted
<1>9. World' = v
  BY <1>4, <1>5, <1>6, <1>7, <1>8, HandledNew
<1>10. Registers(View) = Registers(t)
  BY RegistersShown
<1>11. MsgOK(m)
  BY <1>2, <1>3 DEF RegisterInv, HistoryInv
<1>12. Registers(View') = Registers(e)
  BY <1>1, <1>5, <1>6, <1>10, <1>11, NewRegisters
<1>13. ZonesOpen'
  BY <1>2, <1>5, <1>6, ZonesStay
<1>14. BlocksNothing => View' = e
  <2>1. Cards' = v.board
    BY <1>9, CardsAfter
  <2>2. Lifted(Shows, Cards', CardsOf(e))
    BY <1>4, <2>1
  <2> QED
    BY <1>5, <1>12, <1>13, <2>2, ShowingNext
<1>15. Framed(frames', D, n + 1)
  <2> PICK fr : frames = fr
    OBVIOUS
  <2> PICK gr : frames' = gr
    OBVIOUS
  <2> PICK u : View' = u
    OBVIOUS
  <2>1. IsSeq(fr) /\ Len(fr) = n + 1 /\ gr = Append(fr, u)
    BY <1>1, MirrorFacts
  <2>2. gr[n + 2] = u /\ \A i \in 1 .. n + 1 : gr[i] = fr[i]
    BY <2>1, AppendToSeq
  <2>3. ASSUME NEW i \in 0 .. n + 1
        PROVE  /\ Registers(gr[i + 1]) = Registers(D[i + 1])
               /\ BlocksNothing => gr[i + 1] = D[i + 1]
    <3>1. CASE i \in 0 .. n
      <4>1. i + 1 \in 1 .. n + 1
        BY <3>1
      <4> QED
        BY <1>2, <2>2, <3>1, <4>1 DEF Framed
    <3>2. CASE i = n + 1
      BY <1>12, <1>14, <2>2, <3>2
    <3>3. i \in 0 .. n \/ i = n + 1
      OBVIOUS
    <3> QED
      BY <3>1, <3>2, <3>3
  <2> QED
    BY <2>3 DEF Framed
<1>16. Duel' = D
  <2>1. msgs # <<>>
    BY <1>1, ShortSeqs
  <2> QED
    BY <1>1, <2>1, SameDuelOn
<1>17. RegisterInv'
  BY <1>2, PlayInv
<1>18. msgs' = ms
  BY <1>1
<1> QED
  BY <1>1, <1>2, <1>4, <1>9, <1>13, <1>15, <1>16, <1>17, <1>18 DEF MirrorInv

\* A step along the film, from one of its worlds to a neighbour.
LEMMA FilmStepped ==
  ASSUME NEW n, NEW ms, NEW D, NEW H, IsFilm(H, n, ms),
         \A i \in 0 .. n : Lifted(Shows, H[i].board, CardsOf(D[i + 1])),
         Lifted(ShowsLast, H[n].board, CardsOf(D[n + 1])),
         NEW k, NEW w, w = H[k]
  PROVE  Filmed(k, n, ms, D, w)
BY DEF Filmed

\* Playing a message again keeps the invariant.
LEMMA MirrorPlayAgain ==
  ASSUME MirrorInv, Play, state # processedState
  PROVE  MirrorInv'
<1> PICK n \in Nat : processedState = n
  BY MirrorFacts
<1> PICK k \in Nat : state = k
  BY MirrorFacts
<1> PICK D : Duel = D
  OBVIOUS
<1> PICK ms : msgs = ms
  OBVIOUS
<1> PICK w : World = w
  OBVIOUS
<1> PICK m : ms[k + 1] = m
  OBVIOUS
<1>1. /\ UNCHANGED <<msgs, tables, frames>> /\ k < n /\ n <= Len(ms) /\ Len(ms) \in Nat
      /\ state' = k + 1 /\ processedState' = n
  BY MirrorFacts DEF Play, Forward, MarkProcessed
<1>2. /\ RegisterInv /\ ZonesOpen /\ IsDuel(D, ms) /\ Filmed(k, n, ms, D, w)
      /\ Framed(frames, D, n)
  BY DEF MirrorInv
<1>3. PICK H : /\ H[k] = w /\ IsFilm(H, n, ms)
               /\ \A i \in 0 .. n : Lifted(Shows, H[i].board, CardsOf(D[i + 1]))
               /\ Lifted(ShowsLast, H[n].board, CardsOf(D[n + 1]))
  BY <1>2 DEF Filmed
<1> PICK v : H[k + 1] = v
  OBVIOUS
<1>4. Link(m, k, n, w, v)
  <2>1. k \in 0 .. n - 1
    BY <1>1
  <2> QED
    BY <1>3, <2>1 DEF IsFilm
<1>5. m.type # "CounterChange" /\ (BlocksNothing => m.type # "DisableZones")
  <2>1. k + 1 \in 1 .. Len(ms)
    BY <1>1
  <2> QED
    BY <1>2, <2>1, DuelMsg
<1>6. InterpretMsg(m, k, TRUE, FALSE)
  BY PlayedAgain
<1>7. World' = v
  BY <1>4, <1>5, <1>6, HandledAgain
<1>8. Filmed(k + 1, n, ms, D, v)
  BY <1>3, FilmStepped
<1>9. ZonesOpen'
  BY <1>2, <1>5, <1>6, ZonesStay
<1>10. Duel' = D
  <2>1. msgs # <<>>
    BY <1>1, ShortSeqs
  <2> QED
    BY <1>1, <2>1, SameDuelOn
<1>11. RegisterInv'
  BY <1>2, PlayInv
<1>12. msgs' = ms
  BY <1>1
<1> QED
  BY <1>1, <1>2, <1>7, <1>8, <1>9, <1>10, <1>11, <1>12 DEF MirrorInv

\* Rewinding keeps the invariant.
LEMMA MirrorRewind == MirrorInv /\ Rewind => MirrorInv'
<1> SUFFICES ASSUME MirrorInv, Rewind
             PROVE  MirrorInv'
  OBVIOUS
<1> PICK n \in Nat : processedState = n
  BY MirrorFacts
<1>0. state - 1 \in Nat /\ state \in Nat
  BY MirrorFacts DEF Rewind, Backward
<1> PICK k \in Nat : state - 1 = k
  BY <1>0
<1> PICK D : Duel = D
  OBVIOUS
<1> PICK ms : msgs = ms
  OBVIOUS
<1> PICK v : World = v
  OBVIOUS
<1> PICK m : ms[k + 1] = m
  OBVIOUS
<1>1. /\ UNCHANGED <<msgs, tables, frames>> /\ k < n /\ n <= Len(ms) /\ Len(ms) \in Nat
      /\ state' = k /\ processedState' = n /\ state = k + 1
      /\ InterpretMsg(m, k, FALSE, FALSE)
  <2>1. /\ UNCHANGED <<msgs, tables, frames>> /\ state' = state - 1
        /\ UNCHANGED processedState /\ InterpretMsg(msgs[state], state - 1, FALSE, FALSE)
    BY DEF Rewind, Backward
  <2>2. state = k + 1
    BY <1>0
  <2>3. k < n /\ n <= Len(ms) /\ Len(ms) \in Nat
    BY <2>2, MirrorFacts
  <2>4. msgs[state] = m
    BY <2>2
  <2> QED
    BY <2>1, <2>2, <2>3, <2>4
<1>2. /\ RegisterInv /\ ZonesOpen /\ IsDuel(D, ms) /\ Filmed(k + 1, n, ms, D, v)
      /\ Framed(frames, D, n)
  BY <1>1 DEF MirrorInv
<1>3. PICK H : /\ H[k + 1] = v /\ IsFilm(H, n, ms)
               /\ \A i \in 0 .. n : Lifted(Shows, H[i].board, CardsOf(D[i + 1]))
               /\ Lifted(ShowsLast, H[n].board, CardsOf(D[n + 1]))
  BY <1>2 DEF Filmed
<1> PICK w : H[k] = w
  OBVIOUS
<1>4. Link(m, k, n, w, v)
  <2>1. k \in 0 .. n - 1
    BY <1>1
  <2> QED
    BY <1>3, <2>1 DEF IsFilm
<1>5. m.type # "CounterChange" /\ (BlocksNothing => m.type # "DisableZones")
  <2>1. k + 1 \in 1 .. Len(ms)
    BY <1>1
  <2> QED
    BY <1>2, <2>1, DuelMsg
<1>7. World' = w
  BY <1>1, <1>4, <1>5, HandledBack
<1>8. Filmed(k, n, ms, D, w)
  BY <1>3, FilmStepped
<1>9. ZonesOpen'
  BY <1>1, <1>2, <1>5, ZonesStay
<1>10. Duel' = D
  <2>1. msgs # <<>>
    BY <1>1, ShortSeqs
  <2> QED
    BY <1>1, <2>1, SameDuelOn
<1>11. RegisterInv'
  BY <1>2, RewindInv
<1>12. msgs' = ms
  BY <1>1
<1> QED
  BY <1>1, <1>2, <1>7, <1>8, <1>9, <1>10, <1>11, <1>12 DEF MirrorInv

\* No message of the duel throws.
LEMMA MirrorNoThrow == MirrorInv => ~PlayThrows
<1> SUFFICES ASSUME MirrorInv, PlayThrows
             PROVE  FALSE
  OBVIOUS
<1>1. state < Len(msgs) /\ Throws(msgs[state + 1])
  BY DEF PlayThrows, ForwardThrows
<1>2. state \in Nat /\ Len(msgs) \in Nat
  BY MirrorFacts
<1>3. state + 1 \in 1 .. Len(msgs)
  BY <1>1, <1>2
<1>4. ~Throws(msgs[state + 1])
  BY <1>3 DEF MirrorInv, IsDuel
<1> QED
  BY <1>1, <1>4

\* The invariant is about the variables of the model.
LEMMA MirrorStutter == MirrorInv /\ UNCHANGED vars => MirrorInv'
<1> SUFFICES ASSUME MirrorInv, UNCHANGED vars
             PROVE  MirrorInv'
  OBVIOUS
<1>1. /\ UNCHANGED <<msgs, state, processedState, piles, zoneCards, tempCards>>
      /\ UNCHANGED <<disabledZones, playerLP, turn, turnPlayer, phase, tables, frames>>
  BY DEF vars, boardVars, timelineVars, cardVars, registerVars
<1>2. View' = View
  BY <1>1 DEF View
<1>3. Duel' = Duel
  BY <1>1, <1>2 DEF Duel
<1>4. World' = World
  BY <1>1 DEF World, Cards
<1>5. RegisterInv'
  BY StutterInv DEF MirrorInv
<1>6. ZonesOpen'
  BY <1>1 DEF MirrorInv, ZonesOpen
<1> QED
  BY <1>1, <1>3, <1>4, <1>5, <1>6 DEF MirrorInv

\* Every step keeps the invariant.
LEMMA MirrorNext ==
  Kinds \subseteq FilmedKinds /\ MirrorInv /\ [Next]_vars => MirrorInv'
<1> SUFFICES ASSUME Kinds \subseteq FilmedKinds, MirrorInv, [Next]_vars
             PROVE  MirrorInv'
  OBVIOUS
<1>1. CASE SetUp
  BY <1>1, MirrorSetUp
<1>2. CASE Receive
  BY <1>2, MirrorReceive
<1>3. CASE Play /\ state = processedState
  BY <1>3, MirrorPlayNew
<1>4. CASE Play /\ state # processedState
  BY <1>4, MirrorPlayAgain
<1>5. CASE PlayThrows
  BY <1>5, MirrorNoThrow
<1>6. CASE Rewind
  BY <1>6, MirrorRewind
<1>7. CASE UNCHANGED vars
  BY <1>7, MirrorStutter
<1> QED
  BY <1>1, <1>2, <1>3, <1>4, <1>5, <1>6, <1>7 DEF Next

\* There is always a film of the messages played that shows the duel, and the
\* board is on it (board.hpp:85-108).
THEOREM MirrorInvariance ==
  ASSUME Kinds \subseteq FilmedKinds
  PROVE  Spec => []MirrorInv
<1>1. MirrorInv /\ [Next]_vars => MirrorInv'
  BY MirrorNext
<1> QED
  BY <1>1, MirrorInit, PTL DEF Spec

\* A board on the film shows the cards and the registers of the duel.
LEMMA TableMirrored ==
  ASSUME MirrorInv
  PROVE  /\ TableInv(Duel[state + 1]) /\ Lifted(Shows, Cards, CardsOf(Duel[state + 1]))
         /\ Registers(View) = Registers(Duel[state + 1])
<1> PICK k \in Nat : state = k
  BY MirrorFacts
<1> PICK n \in Nat : processedState = n
  BY MirrorFacts
<1> PICK D : Duel = D
  OBVIOUS
<1> PICK ms : msgs = ms
  OBVIOUS
<1> PICK t : D[k + 1] = t
  OBVIOUS
<1>1. k <= n /\ n <= Len(ms) /\ Len(ms) \in Nat
  BY MirrorFacts
<1>2. k \in 0 .. n /\ k + 1 \in 1 .. Len(ms) + 1
  BY <1>1
<1>3. PICK H : H[k] = World /\ \A i \in 0 .. n : Lifted(Shows, H[i].board, CardsOf(D[i + 1]))
  BY DEF MirrorInv, Filmed
<1>4. World.board = Cards
  BY WorldParts DEF World
<1>5. Lifted(Shows, Cards, CardsOf(t))
  BY <1>2, <1>3, <1>4
<1>6. TableInv(t)
  BY <1>2 DEF MirrorInv, IsDuel
<1>7. Registers(View) = Registers(t)
  BY RegistersShown
<1> QED
  BY <1>5, <1>6, <1>7

\* If no zone is blocked, that is the duel.
LEMMA Mirrored == BlocksNothing /\ MirrorInv => View = Duel[state + 1]
BY TableMirrored, Showing DEF MirrorInv

\* Otherwise it is when the board has caught up.
LEMMA MirroredLive ==
  ASSUME MirrorInv, ZoneInv, state = processedState,
         BlocksNothing \/ BlockableZones \subseteq DisableableZones
  PROVE  View = Duel[state + 1]
<1> PICK t : Duel[state + 1] = t
  OBVIOUS
<1>1. CASE BlocksNothing
  BY <1>1, Mirrored
<1>2. CASE BlockableZones \subseteq DisableableZones
  <2>1. View.disabled = t.disabled
    BY <1>2, DuelZones, ZonesShown
  <2> QED
    BY <2>1, TableMirrored, ShowingAll
<1> QED
  BY <1>1, <1>2

\* After i messages the board shows the duel as it was after i messages,
\* whether the messages were just played, rewound to or replayed
\* (board.hpp:85-108).
THEOREM BoardMirrorsTheDuel ==
  ASSUME Kinds \subseteq ReversibleKinds
  PROVE  Spec => []MirrorsCore
<1>1. BlocksNothing /\ Kinds \subseteq FilmedKinds
  BY DEF BlocksNothing, ReversibleKinds, FilmedKinds
<1>2. MirrorInv => MirrorsCore
  BY <1>1, Mirrored DEF MirrorsCore
<1> QED
  BY <1>1, <1>2, MirrorInvariance, PTL

\* A board that has caught up with the duel shows the duel, also one that
\* blocks zones, whatever was rewound and replayed before (board.hpp:85-96).
THEOREM BoardIsLive ==
  ASSUME Kinds \subseteq FilmedKinds,
         "Disable" \in Kinds => BlockableZones \subseteq DisableableZones
  PROVE  Spec => []LiveMirror
<1>1. MirrorInv /\ ZoneInv => LiveMirror
  BY MirroredLive DEF LiveMirror, BlocksNothing
<1> QED
  BY <1>1, MirrorInvariance, ZoneInvariance, PTL

----------------------------------------------------------------------------
(* The cards that are off the board, whatever the core sends *)

\* After k of the messages ms, message j has taken a card off the board.
AbsentAt(j, k, ms) ==
  \/ ms[j].type = "AddCard" /\ j > k
  \/ ms[j].type = "RemoveCard" /\ j <= k

Absent(k, n, ms) ==
  {TempPlace(i - 1, ms[i].place) : i \in {j \in 1 .. n : AbsentAt(j, k, ms)}}

\* The keys of the absent cards, one by one.
LEMMA AbsentIs ==
  ASSUME NEW k, NEW n \in Nat, NEW ms, NEW y
  PROVE  y \in Absent(k, n, ms) <=>
           /\ y.state \in 0 .. n - 1 /\ AbsentAt(y.state + 1, k, ms)
           /\ y = TempPlace(y.state, ms[y.state + 1].place)
<1>1. ASSUME y \in Absent(k, n, ms)
      PROVE  /\ y.state \in 0 .. n - 1 /\ AbsentAt(y.state + 1, k, ms)
             /\ y = TempPlace(y.state, ms[y.state + 1].place)
  <2> PICK i \in 1 .. n : AbsentAt(i, k, ms) /\ y = TempPlace(i - 1, ms[i].place)
    BY <1>1 DEF Absent
  <2>1. y.state = i - 1
    BY DEF TempPlace
  <2>2. y.state \in 0 .. n - 1 /\ y.state + 1 = i
    BY <2>1
  <2> QED
    BY <2>1, <2>2
<1>2. ASSUME y.state \in 0 .. n - 1, AbsentAt(y.state + 1, k, ms),
             y = TempPlace(y.state, ms[y.state + 1].place)
      PROVE  y \in Absent(k, n, ms)
  <2> PICK i \in 1 .. n : y.state + 1 = i
    BY <1>2
  <2>1. y.state = i - 1
    BY <1>2
  <2>2. AbsentAt(i, k, ms) /\ y = TempPlace(i - 1, ms[i].place)
    BY <1>2, <2>1
  <2> QED
    BY <2>2 DEF Absent
<1> QED
  BY <1>1, <1>2

\* The absent cards after a new message.
LEMMA AbsentNew ==
  ASSUME NEW n \in Nat, NEW ms, NEW x, x = TempPlace(n, ms[n + 1].place)
  PROVE  Absent(n + 1, n + 1, ms) =
           IF ms[n + 1].type = "RemoveCard" THEN Absent(n, n, ms) \cup {x}
                                            ELSE Absent(n, n, ms)
<1>1. x.state = n
  BY DEF TempPlace
<1>2. ASSUME NEW y, y.state \in 0 .. n - 1
      PROVE  y \in Absent(n + 1, n + 1, ms) <=> y \in Absent(n, n, ms)
  BY <1>2, AbsentIs DEF AbsentAt
<1>3. ASSUME NEW y, y.state = n
      PROVE  /\ y \in Absent(n + 1, n + 1, ms) <=> ms[n + 1].type = "RemoveCard" /\ y = x
             /\ y \notin Absent(n, n, ms)
  BY <1>3, AbsentIs DEF AbsentAt
<1>4. ASSUME NEW y, y.state \notin 0 .. n
      PROVE  y \notin Absent(n + 1, n + 1, ms) /\ y \notin Absent(n, n, ms) /\ y # x
  BY <1>1, <1>4, AbsentIs
<1>5. \A y : y.state \in 0 .. n - 1 \/ y.state = n \/ y.state \notin 0 .. n
  OBVIOUS
<1>6. ASSUME NEW y
      PROVE  y \in Absent(n + 1, n + 1, ms) <=>
               y \in Absent(n, n, ms) \/ (ms[n + 1].type = "RemoveCard" /\ y = x)
  <2>1. CASE y.state \in 0 .. n - 1
    <3>1. y # x
      BY <1>1, <2>1
    <3> QED
      BY <1>2, <2>1, <3>1
  <2>2. CASE y.state = n
    BY <1>3, <2>2
  <2>3. CASE y.state \notin 0 .. n
    BY <1>4, <2>3
  <2> QED
    BY <1>5, <2>1, <2>2, <2>3
<1> QED
  BY <1>6

\* The absent cards after a message was played again, or taken back.
LEMMA AbsentOld ==
  ASSUME NEW n \in Nat, NEW k \in 0 .. n - 1, NEW ms,
         NEW x, x = TempPlace(k, ms[k + 1].place)
  PROVE  /\ ms[k + 1].type = "AddCard" =>
              /\ Absent(k + 1, n, ms) = Absent(k, n, ms) \ {x}
              /\ Absent(k, n, ms) = Absent(k + 1, n, ms) \cup {x}
         /\ ms[k + 1].type = "RemoveCard" =>
              /\ Absent(k + 1, n, ms) = Absent(k, n, ms) \cup {x}
              /\ Absent(k, n, ms) = Absent(k + 1, n, ms) \ {x}
         /\ ms[k + 1].type \notin {"AddCard", "RemoveCard"} =>
              Absent(k + 1, n, ms) = Absent(k, n, ms)
<1>1. x.state = k
  BY DEF TempPlace
<1>2. ASSUME NEW y, y.state # k
      PROVE  (y \in Absent(k + 1, n, ms) <=> y \in Absent(k, n, ms)) /\ y # x
  <2>1. ASSUME y.state \in 0 .. n - 1
        PROVE  AbsentAt(y.state + 1, k + 1, ms) <=> AbsentAt(y.state + 1, k, ms)
    BY <1>2, <2>1 DEF AbsentAt
  <2> QED
    BY <1>1, <1>2, <2>1, AbsentIs
<1>3. ASSUME NEW y, y.state = k
      PROVE  /\ y \in Absent(k + 1, n, ms) <=> ms[k + 1].type = "RemoveCard" /\ y = x
             /\ y \in Absent(k, n, ms) <=> ms[k + 1].type = "AddCard" /\ y = x
  <2>1. /\ AbsentAt(k + 1, k + 1, ms) <=> ms[k + 1].type = "RemoveCard"
        /\ AbsentAt(k + 1, k, ms) <=> ms[k + 1].type = "AddCard"
    BY DEF AbsentAt
  <2> QED
    BY <1>3, <2>1, AbsentIs
<1>4. ASSUME NEW y
      PROVE  /\ ms[k + 1].type = "AddCard" =>
                  /\ y \in Absent(k + 1, n, ms) <=> y \in Absent(k, n, ms) \ {x}
                  /\ y \in Absent(k, n, ms) <=> y \in Absent(k + 1, n, ms) \cup {x}
             /\ ms[k + 1].type = "RemoveCard" =>
                  /\ y \in Absent(k + 1, n, ms) <=> y \in Absent(k, n, ms) \cup {x}
                  /\ y \in Absent(k, n, ms) <=> y \in Absent(k + 1, n, ms) \ {x}
             /\ ms[k + 1].type \notin {"AddCard", "RemoveCard"} =>
                  (y \in Absent(k + 1, n, ms) <=> y \in Absent(k, n, ms))
  BY <1>2, <1>3
<1> QED
  BY <1>4

\* What the handlers do to tempCards.
LEMMA TempHandled ==
  ASSUME NEW m, NEW at, NEW adv, NEW rt, InterpretMsg(m, at, adv, rt),
         NEW x, x = TempPlace(at, m.place)
  PROVE  /\ m.type = "AddCard" /\ adv /\ rt => DOMAIN tempCards' = DOMAIN tempCards
         /\ m.type = "AddCard" /\ adv /\ ~rt => DOMAIN tempCards' = DOMAIN tempCards \ {x}
         /\ m.type = "AddCard" /\ ~adv => DOMAIN tempCards' = DOMAIN tempCards \cup {x}
         /\ m.type = "RemoveCard" /\ adv => DOMAIN tempCards' = DOMAIN tempCards \cup {x}
         /\ m.type = "RemoveCard" /\ ~adv => DOMAIN tempCards' = DOMAIN tempCards \ {x}
         /\ m.type \notin {"AddCard", "RemoveCard"} => tempCards' = tempCards
<1>1. \A t, c : /\ DOMAIN Emplace(t, x, c) = DOMAIN t \cup {x}
                /\ DOMAIN EraseKey(t, x) = DOMAIN t \ {x}
  <2>1. \A t, c : DOMAIN PutKey(t, x, c) = DOMAIN t \cup {x}
    BY DEF PutKey
  <2> QED
    BY <2>1 DEF Emplace, EraseKey
<1>2. CASE HandleAddCard(m, at, adv, rt)
  <2> PICK c : tempCards' = CASE adv /\ rt  -> tempCards
                              [] adv /\ ~rt -> EraseKey(tempCards, x)
                              [] ~adv       -> Emplace(tempCards, x, c)
    BY <1>2, Zenon DEF HandleAddCard
  <2>1. m.type = "AddCard"
    BY <1>2 DEF HandleAddCard
  <2> QED
    BY <1>1, <2>1
<1>3. CASE HandleRemoveCard(m, at, adv)
  <2> PICK c : tempCards' = IF adv THEN Emplace(tempCards, x, c) ELSE EraseKey(tempCards, x)
    BY <1>3, Zenon DEF HandleRemoveCard
  <2>1. m.type = "RemoveCard"
    BY <1>3 DEF HandleRemoveCard
  <2> QED
    BY <1>1, <2>1
<1>4. CASE HandleUpdateCard(m, adv, rt) \/ HandleDraw(m, adv, rt) \/ HandleSwapCards(m, adv, rt)
           \/ HandleShuffleLocation(m, adv, rt) \/ HandleShuffleSetCards(m, adv, rt)
           \/ HandleCounterChange(m, adv, rt)
  <2>1. m.type \notin {"AddCard", "RemoveCard"}
    BY <1>4, HandlerTypes, Zenon
  <2>2. tempCards' = tempCards
    BY <1>4, Zenon DEF HandleUpdateCard, HandleDraw, HandleSwapCards, HandleShuffleLocation,
                       HandleShuffleSetCards, HandleCounterChange
  <2> QED
    BY <2>1, <2>2
<1>5. CASE \/ HandleDisableZones(m, adv, rt) \/ HandleLpChange(m, adv, rt)
           \/ HandleNewTurn(m, adv, rt) \/ HandleNewPhase(m, adv, rt) \/ IgnoreMsg(m)
  <2>1. m.type \notin CardMsgs /\ tempCards' = tempCards
    BY <1>5, CardsStay
  <2> QED
    BY <2>1 DEF CardMsgs
<1> QED
  BY <1>2, <1>3, <1>4, <1>5, Zenon DEF InterpretMsg

\* TempHoldsAbsentCards in the terms of Absent.
LEMMA TempIs ==
  TempHoldsAbsentCards <=> DOMAIN tempCards = Absent(state, processedState, msgs)
BY DEF TempHoldsAbsentCards, Absent, AbsentAt

TempInv == RegisterInv /\ DOMAIN tempCards = Absent(state, processedState, msgs)

\* The cursors, from the invariant of the registers.
LEMMA TempCursors ==
  ASSUME RegisterInv
  PROVE  /\ state \in Nat /\ processedState \in Nat /\ Len(msgs) \in Nat
         /\ state <= processedState /\ processedState <= Len(msgs) /\ IsSeq(msgs)
<1>1. Reach \in Nat /\ Len(msgs) \in Nat /\ ReachInv /\ IsSeq(msgs)
  BY InvFacts DEF RegisterInv, HistoryInv
<1> QED
  BY <1>1 DEF ReachInv

\* The initial states satisfy TempInv.
LEMMA TempInit == Init => TempInv
<1> SUFFICES ASSUME Init
             PROVE  TempInv
  OBVIOUS
<1>1. DOMAIN tempCards = {} /\ processedState = 0
  BY DEF Init, BoardInit, EmptyMap
<1>2. Absent(state, 0, msgs) = {}
  BY DEF Absent
<1> QED
  BY <1>1, <1>2, InitInv DEF TempInv

\* Steps that play no message keep TempInv.
LEMMA TempStays ==
  ASSUME TempInv, RegisterInv', UNCHANGED <<msgs, state, processedState, tempCards>>
  PROVE  TempInv'
BY DEF TempInv

\* A message that arrives keeps TempInv.
LEMMA TempReceive ==
  ASSUME TempInv, Receive
  PROVE  TempInv'
<1> PICK k \in Nat : state = k
  BY TempCursors DEF TempInv
<1> PICK n \in Nat : processedState = n
  BY TempCursors DEF TempInv
<1>1. n <= Len(msgs) /\ Len(msgs) \in Nat /\ IsSeq(msgs)
  BY TempCursors DEF TempInv
<1>2. PICK m : AppendMsg(m)
  BY DEF Receive
<1>3. msgs' = Append(msgs, m) /\ UNCHANGED <<state, processedState, tempCards>>
  BY <1>2 DEF AppendMsg, cardVars
<1>4. \A i \in 1 .. n : msgs'[i] = msgs[i]
  BY <1>1, <1>3, AppendToSeq
<1>5. Absent(k, n, msgs') = Absent(k, n, msgs)
  <2>1. \A y : y.state \in 0 .. n - 1 => msgs'[y.state + 1] = msgs[y.state + 1]
    BY <1>4
  <2>2. \A y : y \in Absent(k, n, msgs') <=> y \in Absent(k, n, msgs)
    BY <2>1, AbsentIs DEF AbsentAt
  <2> QED
    BY <2>2
<1>6. RegisterInv'
  BY ReceiveInv DEF TempInv
<1> QED
  BY <1>3, <1>5, <1>6 DEF TempInv

\* Playing a message keeps TempInv.
LEMMA TempPlay ==
  ASSUME TempInv, Play
  PROVE  TempInv'
<1> PICK k \in Nat : state = k
  BY TempCursors DEF TempInv
<1> PICK n \in Nat : processedState = n
  BY TempCursors DEF TempInv
<1> PICK ms : msgs = ms
  OBVIOUS
<1> PICK m : ms[k + 1] = m
  OBVIOUS
<1> PICK x : TempPlace(k, m.place) = x
  OBVIOUS
<1>1. k <= n /\ DOMAIN tempCards = Absent(k, n, ms)
  BY TempCursors DEF TempInv
<1>2. /\ UNCHANGED msgs /\ state' = k + 1 /\ InterpretMsg(m, k, TRUE, k = n)
      /\ processedState' = IF k = n THEN n + 1 ELSE n
  BY DEF Play, Forward, MarkProcessed
<1>3. RegisterInv'
  BY PlayInv DEF TempInv
<1>4. CASE k = n
  <2>1. InterpretMsg(m, k, TRUE, TRUE)
    BY <1>2, <1>4, Zenon
  <2>2. DOMAIN tempCards' = IF m.type = "RemoveCard" THEN DOMAIN tempCards \cup {x}
                                                     ELSE DOMAIN tempCards
    BY <2>1, TempHandled
  <2>3. Absent(n + 1, n + 1, ms) = IF m.type = "RemoveCard" THEN Absent(n, n, ms) \cup {x}
                                                            ELSE Absent(n, n, ms)
    BY <1>4, AbsentNew
  <2> QED
    BY <1>1, <1>2, <1>3, <1>4, <2>2, <2>3 DEF TempInv
<1>5. CASE k # n
  <2>1. InterpretMsg(m, k, TRUE, FALSE)
    BY <1>2, <1>5, Zenon
  <2>2. k \in 0 .. n - 1
    BY <1>1, <1>5
  <2>3. /\ m.type = "AddCard" =>
             /\ Absent(k + 1, n, ms) = Absent(k, n, ms) \ {x}
             /\ Absent(k, n, ms) = Absent(k + 1, n, ms) \cup {x}
        /\ m.type = "RemoveCard" =>
             /\ Absent(k + 1, n, ms) = Absent(k, n, ms) \cup {x}
             /\ Absent(k, n, ms) = Absent(k + 1, n, ms) \ {x}
        /\ m.type \notin {"AddCard", "RemoveCard"} =>
             Absent(k + 1, n, ms) = Absent(k, n, ms)
    BY <2>2, AbsentOld, SMTT(30)
  <2>4. /\ m.type = "AddCard" => DOMAIN tempCards' = DOMAIN tempCards \ {x}
        /\ m.type = "RemoveCard" => DOMAIN tempCards' = DOMAIN tempCards \cup {x}
        /\ m.type \notin {"AddCard", "RemoveCard"} => tempCards' = tempCards
    BY <2>1, TempHandled, Zenon
  <2>5. DOMAIN tempCards' = Absent(k + 1, n, ms)
    BY <1>1, <2>3, <2>4
  <2> QED
    BY <1>2, <1>3, <1>5, <2>5 DEF TempInv
<1> QED
  BY <1>4, <1>5

\* A message that throws keeps TempInv.
LEMMA TempPlayThrows ==
  ASSUME TempInv, PlayThrows
  PROVE  TempInv'
<1> PICK k \in Nat : state = k
  BY TempCursors DEF TempInv
<1> PICK n \in Nat : processedState = n
  BY TempCursors DEF TempInv
<1> PICK ms : msgs = ms
  OBVIOUS
<1>1. k <= n /\ DOMAIN tempCards = Absent(k, n, ms)
  BY TempCursors DEF TempInv
<1>2. /\ UNCHANGED <<msgs, state, tempCards>> /\ Throws(ms[k + 1])
      /\ processedState' = IF k = n THEN n + 1 ELSE n
  BY DEF PlayThrows, ForwardThrows, MarkProcessed
<1>3. RegisterInv'
  BY PlayThrowsInv DEF TempInv
<1>4. ms[k + 1].type \notin {"AddCard", "RemoveCard"}
  BY <1>2 DEF Throws
<1>5. CASE k = n
  <2>1. Absent(n + 1, n + 1, ms) = Absent(n, n, ms)
    BY <1>4, <1>5, AbsentNew
  <2>2. n \in 0 .. (n + 1) - 1 /\ n + 1 \in Nat
    OBVIOUS
  <2>3. Absent(n + 1, n + 1, ms) = Absent(n, n + 1, ms)
    BY <1>4, <1>5, <2>2, AbsentOld
  <2> QED
    BY <1>1, <1>2, <1>3, <1>5, <2>1, <2>3 DEF TempInv
<1>6. CASE k # n
  BY <1>1, <1>2, <1>3, <1>6 DEF TempInv
<1> QED
  BY <1>5, <1>6

\* Rewinding keeps TempInv.
LEMMA TempRewind ==
  ASSUME TempInv, Rewind
  PROVE  TempInv'
<1>1. state \in Nat /\ state # 0
  BY TempCursors DEF TempInv, Rewind, Backward
<1> PICK k \in Nat : state - 1 = k
  BY <1>1
<1> PICK n \in Nat : processedState = n
  BY TempCursors DEF TempInv
<1> PICK ms : msgs = ms
  OBVIOUS
<1> PICK m : ms[k + 1] = m
  OBVIOUS
<1> PICK x : TempPlace(k, m.place) = x
  OBVIOUS
<1>2. state = k + 1
  BY <1>1
<1>3. k \in 0 .. n - 1 /\ DOMAIN tempCards = Absent(k + 1, n, ms)
  BY <1>2, TempCursors DEF TempInv
<1>4. /\ UNCHANGED <<msgs, processedState>> /\ state' = k
      /\ InterpretMsg(msgs[state], state - 1, FALSE, FALSE)
  BY DEF Rewind, Backward
<1>5. InterpretMsg(m, k, FALSE, FALSE)
  BY <1>2, <1>4, Zenon
<1>6. RegisterInv'
  BY RewindInv DEF TempInv
<1>7. /\ m.type = "AddCard" =>
           /\ Absent(k + 1, n, ms) = Absent(k, n, ms) \ {x}
           /\ Absent(k, n, ms) = Absent(k + 1, n, ms) \cup {x}
      /\ m.type = "RemoveCard" =>
           /\ Absent(k + 1, n, ms) = Absent(k, n, ms) \cup {x}
           /\ Absent(k, n, ms) = Absent(k + 1, n, ms) \ {x}
      /\ m.type \notin {"AddCard", "RemoveCard"} =>
           Absent(k + 1, n, ms) = Absent(k, n, ms)
  BY <1>3, AbsentOld, SMTT(30)
<1>8. /\ m.type = "AddCard" => DOMAIN tempCards' = DOMAIN tempCards \cup {x}
      /\ m.type = "RemoveCard" => DOMAIN tempCards' = DOMAIN tempCards \ {x}
      /\ m.type \notin {"AddCard", "RemoveCard"} => tempCards' = tempCards
  BY <1>5, TempHandled, Zenon
<1>9. DOMAIN tempCards' = Absent(k, n, ms)
  BY <1>3, <1>7, <1>8
<1> QED
  BY <1>4, <1>6, <1>9 DEF TempInv

\* tempCards holds exactly the cards that are off the board: a card that is
\* put back leaves it, and none is ever forgotten (board.hpp:157-159).  It
\* holds for every kind of message, also for the ones that a board cannot
\* take back, and after a message that threw.
THEOREM AbsentCardsWait == Spec => []TempHoldsAbsentCards
<1>1. TempInv /\ [Next]_vars => TempInv'
  <2> SUFFICES ASSUME TempInv, [Next]_vars
               PROVE  TempInv'
    OBVIOUS
  <2>1. CASE SetUp
    <3>1. UNCHANGED <<msgs, state, processedState, tempCards>>
      BY <2>1 DEF SetUp, FillOnce, FillPile, SetLPOnce, SetLP, timelineVars, cardVars
    <3> QED
      BY <2>1, <3>1, SetUpInv, TempStays DEF TempInv
  <2>2. CASE UNCHANGED vars
    <3>1. UNCHANGED <<msgs, state, processedState, tempCards>>
      BY <2>2 DEF vars, boardVars, timelineVars, cardVars
    <3> QED
      BY <2>2, <3>1, StutterInv, TempStays DEF TempInv
  <2> QED
    BY <2>1, <2>2, TempReceive, TempPlay, TempPlayThrows, TempRewind DEF Next
<1>2. TempInv => TempHoldsAbsentCards
  BY TempIs DEF TempInv
<1> QED
  BY <1>1, <1>2, TempInit, PTL DEF Spec

----------------------------------------------------------------------------
(* What else the film says of the board *)

\* The world that the board is in.
LEMMA MirrorWorld ==
  ASSUME MirrorInv
  PROVE  /\ Lifted(Shows, Cards, CardsOf(Duel[state + 1]))
         /\ state = processedState => Lifted(ShowsLast, Cards, CardsOf(Duel[state + 1]))
         /\ TempOK(processedState, tempCards)
<1> PICK k \in Nat : state = k
  BY MirrorFacts
<1> PICK n \in Nat : processedState = n
  BY MirrorFacts
<1> PICK D : Duel = D
  OBVIOUS
<1>1. PICK H : /\ H[k] = World /\ \A i \in 0 .. n : IsWorld(n, H[i])
               /\ \A i \in 0 .. n : Lifted(Shows, H[i].board, CardsOf(D[i + 1]))
               /\ Lifted(ShowsLast, H[n].board, CardsOf(D[n + 1]))
  BY DEF MirrorInv, Filmed, IsFilm
<1>2. World.board = Cards /\ World.temp = tempCards
  BY WorldParts DEF World
<1>3. k \in 0 .. n
  BY MirrorFacts
<1> QED
  BY <1>1, <1>2, <1>3 DEF IsWorld

\* The cards on the board are those in piles and those in zones.
LEMMA BoardCardIs ==
  \A card : card \in BoardCards <=>
    \/ \E p \in Players, l \in PileLocations :
         \E i \in DOMAIN piles[p][l] : card = piles[p][l][i]
    \/ \E p \in DOMAIN zoneCards : card = zoneCards[p]
<1> DEFINE Held(p, l) == {piles[p][l][i] : i \in DOMAIN piles[p][l]}
           Helds == {Held(p, l) : p \in Players, l \in PileLocations}
<1> SUFFICES ASSUME NEW card
             PROVE  card \in BoardCards <=>
                      \/ \E p \in Players, l \in PileLocations :
                           \E i \in DOMAIN piles[p][l] : card = piles[p][l][i]
                      \/ \E p \in DOMAIN zoneCards : card = zoneCards[p]
  OBVIOUS
<1>1. BoardCards = (UNION Helds) \cup {zoneCards[p] : p \in DOMAIN zoneCards}
  BY DEF BoardCards
<1>2. ASSUME NEW h
      PROVE  h \in Helds <=> \E p \in Players, l \in PileLocations : h = Held(p, l)
  OBVIOUS
<1>3. ASSUME NEW p, NEW l
      PROVE  card \in Held(p, l) <=> \E i \in DOMAIN piles[p][l] : card = piles[p][l][i]
  OBVIOUS
<1> HIDE DEF Held, Helds
<1>4. card \in UNION Helds <=>
        \E p \in Players, l \in PileLocations : card \in Held(p, l)
  BY <1>2
<1> QED
  BY <1>1, <1>3, <1>4

\* Every card of the board is related to one.
LEMMA LiftedCards ==
  ASSUME NEW R, NEW d, Lifted(R, Cards, d), NEW card \in BoardCards
  PROVE  \E c : <<card, c>> \in R
<1>1. CASE \E p \in Players, l \in PileLocations :
             \E i \in DOMAIN piles[p][l] : card = piles[p][l][i]
  <2>1. PICK p \in Players, l \in PileLocations :
               \E i \in DOMAIN piles[p][l] : card = piles[p][l][i]
    BY <1>1
  <2> PICK s : piles[p][l] = s
    OBVIOUS
  <2>2. Cards.piles[p][l] = s
    BY DEF Cards
  <2>3. SeqLifted(R, s, d.piles[p][l])
    BY <2>2 DEF Lifted
  <2>4. PICK i \in DOMAIN s : card = s[i]
    BY <2>1
  <2>5. i \in 1 .. Len(s)
    BY <2>3, SeqIsFunction DEF SeqLifted
  <2> QED
    BY <2>3, <2>4, <2>5 DEF SeqLifted
<1>2. CASE \E p \in DOMAIN zoneCards : card = zoneCards[p]
  <2>1. PICK p \in DOMAIN zoneCards : card = zoneCards[p]
    BY <1>2
  <2>2. Cards.zones = zoneCards
    BY DEF Cards
  <2> QED
    BY <2>1, <2>2 DEF Lifted
<1> QED
  BY <1>1, <1>2, BoardCardIs

\* No cursor of a card on the film leaves its recording.
LEMMA MirrorCursors == MirrorInv => CardCursorsInRange
<1> SUFFICES ASSUME MirrorInv, NEW card \in BoardCards \cup {tempCards[t] : t \in DOMAIN tempCards}
             PROVE  InRange(card.code) /\ InRange(card.pos)
  BY DEF CardCursorsInRange
<1>1. CASE card \in BoardCards
  <2>1. PICK c : <<card, c>> \in Shows
    BY <1>1, MirrorWorld, LiftedCards
  <2> QED
    BY <2>1 DEF Shows
<1>2. CASE card \in {tempCards[t] : t \in DOMAIN tempCards}
  <2>1. PICK x \in DOMAIN tempCards : card = tempCards[x]
    BY <1>2
  <2>2. card \in Steady
    BY <2>1, MirrorWorld DEF TempOK
  <2> QED
    BY <2>2 DEF Steady
<1> QED
  BY <1>1, <1>2

\* At the end of the film every recording is on its last value.
LEMMA MirrorHead == MirrorInv /\ ZoneInv => HeadIsLast
<1> SUFFICES ASSUME MirrorInv, ZoneInv, state = processedState
             PROVE  /\ \A card \in BoardCards :
                         /\ AtEnd(card.code) /\ AtEnd(card.pos)
                         /\ \A type \in DOMAIN card.counters : AtEnd(card.counters[type])
                    /\ \A z \in DOMAIN disabledZones : AtEnd(disabledZones[z])
                    /\ \A p \in Players : AtEnd(playerLP[p])
                    /\ AtEnd(turnPlayer) /\ AtEnd(phase)
  BY DEF HeadIsLast
<1>1. ASSUME NEW card \in BoardCards
      PROVE  /\ AtEnd(card.code) /\ AtEnd(card.pos)
             /\ \A type \in DOMAIN card.counters : AtEnd(card.counters[type])
  <2>1. PICK c : <<card, c>> \in ShowsLast
    BY MirrorWorld, LiftedCards
  <2>2. AtEnd(card.code) /\ AtEnd(card.pos) /\ card \in RecordedCards
    BY <2>1 DEF ShowsLast, Shows
  <2>3. card.counters = EmptyMap
    BY <2>2 DEF RecordedCards
  <2>4. DOMAIN EmptyMap = {}
    BY DEF EmptyMap
  <2> QED
    BY <2>2, <2>3, <2>4
<1>2. \A z \in DOMAIN disabledZones : AtEnd(disabledZones[z])
  BY ZonesShown
<1> QED
  BY <1>1, <1>2, LastRegisters

\* A recorded card is a card.
LEMMA RecordedIsCard ==
  ASSUME NEW card \in RecordedCards
  PROVE  IsCard(card)
<1>1. card.counters = EmptyMap /\ DOMAIN EmptyMap = {}
  BY DEF RecordedCards, EmptyMap
<1> QED
  BY <1>1 DEF RecordedCards, IsCard, CardType

\* The types follow from the film.
LEMMA MirrorTypes == MirrorInv /\ ZoneInv => TypeOK
<1> SUFFICES ASSUME MirrorInv, ZoneInv
             PROVE  TypeOK
  OBVIOUS
<1>1. CursorOK /\ RegistersOK
  <2>1. RegisterInv
    BY DEF MirrorInv
  <2>2. turn \in Nat
    BY <2>1, InvFacts, TurnCount DEF RegisterInv, ReachInv, TurnInv
  <2> QED
    BY <2>1, <2>2, InvFacts DEF RegisterInv, ReachInv, TypesInv, CursorOK, RegistersOK
<1>2. \A card \in BoardCards : IsCard(card)
  <2> SUFFICES ASSUME NEW card \in BoardCards
               PROVE  IsCard(card)
    OBVIOUS
  <2>1. PICK c : <<card, c>> \in Shows
    BY MirrorWorld, LiftedCards
  <2> QED
    BY <2>1, RecordedIsCard DEF Shows
<1>3. \A p \in Players, l \in PileLocations :
        \A i \in DOMAIN piles[p][l] : piles[p][l][i] \in BoardCards
  BY BoardCardIs
<1>4. \A p \in DOMAIN zoneCards : ~IsPile(p) /\ zoneCards[p] \in BoardCards
  <2>1. IsBoard(Cards)
    BY MirrorWorld DEF Lifted
  <2>2. Cards.zones = zoneCards
    BY DEF Cards
  <2> QED
    BY <2>1, <2>2, BoardCardIs DEF IsBoard
<1>5. \A t \in DOMAIN tempCards : t.state \in Nat /\ IsCard(tempCards[t])
  <2> SUFFICES ASSUME NEW t \in DOMAIN tempCards
               PROVE  t.state \in Nat /\ IsCard(tempCards[t])
    OBVIOUS
  <2>1. t.state \in 0 .. processedState - 1 /\ tempCards[t] \in Steady
    BY MirrorWorld DEF TempOK
  <2> QED
    BY <2>1, RecordedIsCard, MirrorFacts DEF Steady
<1>6. disabledZones \in [DisableableZones -> SequentialOf(BOOLEAN)]
  BY ZonesShown
<1> QED
  BY <1>1, <1>2, <1>3, <1>4, <1>5, <1>6 DEF TypeOK

\* No cursor of a card leaves its recording, on the board or in tempCards
\* (card.hpp:16-33).
THEOREM CardCursorsStayInRange ==
  ASSUME Kinds \subseteq FilmedKinds
  PROVE  Spec => []CardCursorsInRange
BY MirrorCursors, MirrorInvariance, PTL

\* When the next message is new, every recording that it may append to is on
\* its last value (card.hpp:16-21).
THEOREM NewMessagesFindTheLastValue ==
  ASSUME Kinds \subseteq FilmedKinds
  PROVE  Spec => []HeadIsLast
BY MirrorHead, MirrorInvariance, ZoneInvariance, PTL

\* The types of the board (board.hpp:110-190).
THEOREM BoardKeepsItsTypes ==
  ASSUME Kinds \subseteq FilmedKinds
  PROVE  Spec => []TypeOK
BY MirrorTypes, MirrorInvariance, ZoneInvariance, PTL

----------------------------------------------------------------------------
(* The board implements the timeline *)

\* The board shows the frame of its state.
LEMMA FrameShown == BlocksNothing /\ MirrorInv => View = frames[state + 1]
<1> SUFFICES ASSUME BlocksNothing, MirrorInv
             PROVE  View = frames[state + 1]
  OBVIOUS
<1> PICK k \in Nat : state = k
  BY MirrorFacts
<1> PICK n \in Nat : processedState = n
  BY MirrorFacts
<1>1. k \in 0 .. n
  BY MirrorFacts
<1>2. frames[k + 1] = Duel[k + 1]
  BY <1>1 DEF MirrorInv, Framed
<1> QED
  BY <1>2, Mirrored

\* Every step of the board is a step of the timeline, or none.
LEMMA TimelineStep ==
  BlocksNothing /\ MirrorInv /\ MirrorInv' /\ [Next]_vars => [TL!Next]_(TL!filmVars)
<1> SUFFICES ASSUME BlocksNothing, MirrorInv, MirrorInv', [Next]_vars
             PROVE  TL!Next \/ UNCHANGED <<frames, state, View>>
  BY DEF TL!filmVars
<1>1. /\ state \in Nat /\ processedState \in Nat /\ state <= processedState
      /\ Len(frames) = processedState + 1 /\ processedState <= Len(msgs)
      /\ Len(msgs) \in Nat
  BY MirrorFacts
<1>2. View' = frames'[state' + 1]
  <2>1. (BlocksNothing /\ MirrorInv => View = frames[state + 1])'
    BY FrameShown, PTL
  <2> QED
    BY <2>1
<1>3. CASE SetUp
  <2>1. msgs = <<>> /\ frames' = <<View'>> /\ UNCHANGED state
    BY <1>3 DEF SetUp, FillOnce, FillPile, SetLPOnce, SetLP, timelineVars
  <2>2. Len(frames) = 1
    BY <1>1, <2>1
  <2>3. TL!SetUp
    BY <2>1, <2>2 DEF TL!SetUp
  <2> QED
    BY <2>3 DEF TL!Next
<1>4. CASE Receive
  <2>1. UNCHANGED <<frames, state, piles, zoneCards, disabledZones, playerLP, turn,
                    turnPlayer, phase>>
    BY <1>4 DEF Receive, AppendMsg, cardVars, registerVars
  <2> QED
    BY <2>1 DEF View
<1>5. CASE Play /\ state = processedState
  <2>1. frames' = Append(frames, View') /\ state' = state + 1
    BY <1>5 DEF Play, Forward
  <2>2. TL!Play
    BY <1>1, <1>5, <2>1 DEF TL!Play
  <2> QED
    BY <2>2 DEF TL!Next
<1>6. CASE Play /\ state # processedState
  <2>1. UNCHANGED frames /\ state' = state + 1
    BY <1>6 DEF Play, Forward
  <2>2. TL!Replay
    BY <1>1, <1>2, <1>6, <2>1 DEF TL!Replay
  <2> QED
    BY <2>2 DEF TL!Next
<1>7. CASE PlayThrows
  BY <1>7, MirrorNoThrow
<1>8. CASE Rewind
  <2>1. UNCHANGED frames /\ state' = state - 1 /\ state > 0
    BY <1>8 DEF Rewind, Backward
  <2>2. TL!Rewind
    BY <1>2, <2>1 DEF TL!Rewind
  <2> QED
    BY <2>2 DEF TL!Next
<1>9. CASE UNCHANGED vars
  <2>1. UNCHANGED <<frames, state, piles, zoneCards, disabledZones, playerLP, turn,
                    turnPlayer, phase>>
    BY <1>9 DEF vars, boardVars, timelineVars, cardVars, registerVars
  <2> QED
    BY <2>1 DEF View
<1> QED
  BY <1>3, <1>4, <1>5, <1>6, <1>7, <1>8, <1>9 DEF Next

\* The board implements the abstract recorder: stepping back and forth never
\* changes what a position of the duel shows (board.hpp:85-108).
THEOREM BoardImplementsTimeline ==
  ASSUME Kinds \subseteq ReversibleKinds
  PROVE  Spec => ReplayIsTimeline
<1>1. Init => TL!Init
  BY DEF Init, BoardInit, TL!Init
<1>2. BlocksNothing /\ Kinds \subseteq FilmedKinds
  BY DEF BlocksNothing, ReversibleKinds, FilmedKinds
<1>3. MirrorInv /\ MirrorInv' /\ [Next]_vars => [TL!Next]_(TL!filmVars)
  BY <1>2, TimelineStep
<1> QED
  BY <1>1, <1>2, <1>3, MirrorInvariance, PTL DEF Spec, ReplayIsTimeline, TL!Spec
===============================================================================
