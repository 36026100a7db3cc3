---------------------------- MODULE BoardLemmas -------------------------------
(***************************************************************************)
(* The boards that DuelBoard and DuelTable compute with, and what the       *)
(* messages do to them.  First the containers of Places: taking a card out, *)
(* putting one in and changing one leaves every other card alone, on the    *)
(* client's board and on the duel's table alike (Lifted relates two boards  *)
(* of one shape, card by card).  Then the messages: what each one does when *)
(* it is new (New..., Done), when it is undone (Undo..., Undone) and when   *)
(* it is redone (Redo..., Redone), and that undoing and redoing cancel out. *)
(***************************************************************************)
EXTENDS RegisterProofs
LOCAL INSTANCE SequencesExt

----------------------------------------------------------------------------
(* Sequences as functions of their indices *)

\* A sequence is a function of the indices up to its length.
LEMMA SeqIsFunction ==
  ASSUME NEW s, IsSeq(s)
  PROVE  Len(s) \in Nat /\ DOMAIN s = 1 .. Len(s) /\ s = [i \in 1 .. Len(s) |-> s[i]]
<1>1. s \in [1 .. Len(s) -> {s[i] : i \in DOMAIN s}] /\ Len(s) \in Nat
      /\ DOMAIN s = 1 .. Len(s)
  BY LenProperties DEF IsSeq
<1> QED
  BY <1>1

\* A function of the indices up to n is a sequence of length n.
LEMMA FunctionIsSeq ==
  ASSUME NEW n \in Nat, NEW s, s = [i \in 1 .. n |-> s[i]]
  PROVE  IsSeq(s) /\ Len(s) = n /\ DOMAIN s = 1 .. n
<1>1. DOMAIN s = 1 .. n
  OBVIOUS
<1>2. s \in [1 .. n -> {s[i] : i \in DOMAIN s}]
  BY <1>1
<1>3. s \in Seq({s[i] : i \in DOMAIN s})
  BY <1>2, SeqDef
<1>4. Len(s) \in Nat /\ DOMAIN s = 1 .. Len(s)
  BY <1>3, LenProperties
<1>5. Len(s) = n
  BY <1>1, <1>4
<1> QED
  BY <1>1, <1>3, <1>5 DEF IsSeq

\* Two sequences of one length are equal if their elements are.
LEMMA SameSeq ==
  ASSUME NEW s, IsSeq(s), NEW t, IsSeq(t), Len(s) = Len(t),
         \A i \in 1 .. Len(s) : s[i] = t[i]
  PROVE  s = t
<1>1. s = [i \in 1 .. Len(s) |-> s[i]] /\ t = [i \in 1 .. Len(s) |-> t[i]]
  BY SeqIsFunction
<1> QED
  BY <1>1

\* What a part of a sequence is.
LEMMA Segment ==
  ASSUME NEW s, IsSeq(s), NEW a \in 1 .. Len(s) + 1, NEW b \in a - 1 .. Len(s)
  PROVE  /\ IsSeq(SubSeq(s, a, b)) /\ Len(SubSeq(s, a, b)) = b - a + 1
         /\ \A i \in 1 .. b - a + 1 : SubSeq(s, a, b)[i] = s[a + i - 1]
<1> DEFINE t == SubSeq(s, a, b)
<1>1. Len(s) \in Nat /\ DOMAIN s = 1 .. Len(s)
  BY SeqIsFunction
<1>2. \A i \in a .. b : s[i] \in {s[j] : j \in DOMAIN s}
  BY <1>1
<1>3. /\ t \in Seq({s[j] : j \in DOMAIN s})
      /\ Len(t) = IF a <= b THEN b - a + 1 ELSE 0
      /\ \A i \in 1 .. b - a + 1 : t[i] = s[a + i - 1]
  BY <1>1, <1>2, SubSeqProperties
<1>4. Len(t) = b - a + 1
  BY <1>1, <1>3
<1>5. t = [i \in 1 .. Len(t) |-> t[i]] /\ Len(t) \in Nat
  BY <1>3, LenProperties
<1>6. IsSeq(t)
  BY <1>5, FunctionIsSeq
<1> QED
  BY <1>3, <1>4, <1>6

\* What two sequences make when they are joined.
LEMMA Joined ==
  ASSUME NEW s, IsSeq(s), NEW t, IsSeq(t)
  PROVE  /\ IsSeq(s \o t) /\ Len(s \o t) = Len(s) + Len(t)
         /\ \A i \in 1 .. Len(s) + Len(t) :
              (s \o t)[i] = IF i <= Len(s) THEN s[i] ELSE t[i - Len(s)]
<1> DEFINE S == {s[i] : i \in DOMAIN s} \cup {t[i] : i \in DOMAIN t}
           u == s \o t
<1>1. s \in Seq(S) /\ t \in Seq(S)
  BY SeqMonotonic DEF IsSeq
<1>2. /\ u \in Seq(S) /\ Len(u) = Len(s) + Len(t)
      /\ \A i \in 1 .. Len(s) + Len(t) :
           u[i] = IF i <= Len(s) THEN s[i] ELSE t[i - Len(s)]
  BY <1>1, ConcatProperties
<1>3. u = [i \in 1 .. Len(u) |-> u[i]] /\ Len(u) \in Nat
  BY <1>2, LenProperties
<1>4. IsSeq(u)
  BY <1>3, FunctionIsSeq
<1> QED
  BY <1>2, <1>4

\* The same, with the lengths named.
LEMMA JoinedAt ==
  ASSUME NEW s, IsSeq(s), NEW t, IsSeq(t), NEW k \in Nat, k = Len(s),
         NEW n \in Nat, n = k + Len(t)
  PROVE  /\ IsSeq(s \o t) /\ Len(s \o t) = n
         /\ \A i \in 1 .. n : (s \o t)[i] = IF i <= k THEN s[i] ELSE t[i - k]
BY Joined, SeqIsFunction

\* What InsertAt does, index by index.
LEMMA InsertedSeq ==
  ASSUME NEW s, IsSeq(s), NEW i \in 1 .. Len(s) + 1, NEW e
  PROVE  /\ IsSeq(InsertAt(s, i, e)) /\ Len(InsertAt(s, i, e)) = Len(s) + 1
         /\ \A j \in 1 .. Len(s) + 1 :
              InsertAt(s, i, e)[j] = IF j < i THEN s[j]
                                     ELSE IF j = i THEN e ELSE s[j - 1]
<1> DEFINE a == SubSeq(s, 1, i - 1)
           c == SubSeq(s, i, Len(s))
           d == a \o <<e>>
           t == d \o c
<1>1. Len(s) \in Nat /\ i \in Nat /\ Len(s) + 1 \in Nat
  BY SeqIsFunction
<1>2. /\ IsSeq(a) /\ Len(a) = i - 1 /\ \A j \in 1 .. i - 1 : a[j] = s[j]
      /\ IsSeq(c) /\ Len(c) = Len(s) - i + 1
      /\ \A j \in 1 .. Len(s) - i + 1 : c[j] = s[i + j - 1]
  BY <1>1, Segment
<1>3. IsSeq(<<e>>) /\ Len(<<e>>) = 1 /\ <<e>>[1] = e
  BY ShortSeqs
<1> HIDE DEF a, c
<1>4. /\ IsSeq(d) /\ Len(d) = i
      /\ \A j \in 1 .. i : d[j] = IF j < i THEN s[j] ELSE e
  BY <1>1, <1>2, <1>3, Joined
<1>6. InsertAt(s, i, e) = t
  BY DEF InsertAt, a, c
<1> HIDE DEF d
<1>5. /\ IsSeq(t) /\ Len(t) = Len(s) + 1
      /\ \A j \in 1 .. Len(s) + 1 : t[j] = IF j <= i THEN d[j] ELSE c[j - i]
  <2>1. Len(s) + 1 = i + Len(c)
    BY <1>1, <1>2
  <2>2. IsSeq(d) /\ i = Len(d) /\ IsSeq(c)
    BY <1>2, <1>4
  <2> QED
    BY <1>1, <2>1, <2>2, JoinedAt
<1> HIDE DEF t
<1>7. ASSUME NEW j \in 1 .. Len(s) + 1
      PROVE  t[j] = IF j < i THEN s[j] ELSE IF j = i THEN e ELSE s[j - 1]
  <2>1. CASE j <= i
    BY <1>1, <1>4, <1>5, <2>1
  <2>2. CASE j > i
    <3>1. j - i \in 1 .. Len(s) - i + 1 /\ i + (j - i) - 1 = j - 1
      BY <1>1, <2>2
    <3> PICK k \in 1 .. Len(s) - i + 1 : k = j - i
      BY <3>1
    <3>2. t[j] = c[k] /\ c[k] = s[i + k - 1] /\ i + k - 1 = j - 1
      BY <1>1, <1>2, <1>5, <2>2, <3>1
    <3> QED
      BY <1>1, <2>2, <3>2
  <2> QED
    BY <1>1, <2>1, <2>2
<1> QED
  BY <1>5, <1>6, <1>7

\* What RemoveAt does, index by index.
LEMMA RemovedSeq ==
  ASSUME NEW s, IsSeq(s), NEW i \in 1 .. Len(s)
  PROVE  /\ IsSeq(RemoveAt(s, i)) /\ Len(RemoveAt(s, i)) = Len(s) - 1
         /\ \A j \in 1 .. Len(s) - 1 :
              RemoveAt(s, i)[j] = IF j < i THEN s[j] ELSE s[j + 1]
<1> DEFINE a == SubSeq(s, 1, i - 1)
           c == SubSeq(s, i + 1, Len(s))
           t == a \o c
<1>1. Len(s) \in Nat /\ i \in Nat /\ i - 1 \in Nat /\ Len(s) - 1 \in Nat
  BY SeqIsFunction
<1>2. /\ IsSeq(a) /\ Len(a) = i - 1 /\ \A j \in 1 .. i - 1 : a[j] = s[j]
      /\ IsSeq(c) /\ Len(c) = Len(s) - i
      /\ \A j \in 1 .. Len(s) - i : c[j] = s[i + j]
  <2>1. i \in 1 .. Len(s) + 1 /\ i - 1 \in 1 - 1 .. Len(s)
        /\ 1 \in 1 .. Len(s) + 1
    BY <1>1
  <2>2. IsSeq(a) /\ Len(a) = i - 1 /\ \A j \in 1 .. i - 1 : a[j] = s[j]
    BY <1>1, <2>1, Segment
  <2> PICK k \in 1 .. Len(s) + 1 : k = i + 1
    BY <1>1
  <2>3. Len(s) \in k - 1 .. Len(s)
    BY <1>1
  <2>4. /\ IsSeq(c) /\ Len(c) = Len(s) - k + 1
        /\ \A j \in 1 .. Len(s) - k + 1 : c[j] = s[k + j - 1]
    BY <1>1, <2>3, Segment
  <2>5. Len(s) - k + 1 = Len(s) - i /\ \A j \in Int : k + j - 1 = i + j
    BY <1>1
  <2>6. ASSUME NEW j \in 1 .. Len(s) - i PROVE c[j] = s[i + j]
    <3>1. j \in 1 .. Len(s) - k + 1 /\ k + j - 1 = i + j
      BY <1>1, <2>5
    <3>2. c[j] = s[k + j - 1]
      BY <2>4, <3>1
    <3> QED
      BY <3>1, <3>2
  <2> QED
    BY <2>2, <2>4, <2>5, <2>6
<1> HIDE DEF a, c
<1>3. /\ IsSeq(t) /\ Len(t) = Len(s) - 1
      /\ \A j \in 1 .. Len(s) - 1 :
           t[j] = IF j <= i - 1 THEN a[j] ELSE c[j - (i - 1)]
  <2>1. Len(s) - 1 = (i - 1) + Len(c)
    BY <1>1, <1>2
  <2> QED
    BY <1>1, <1>2, <2>1, JoinedAt
<1>4. RemoveAt(s, i) = t
  BY DEF RemoveAt, a, c
<1> HIDE DEF t
<1>5. ASSUME NEW j \in 1 .. Len(s) - 1
      PROVE  t[j] = IF j < i THEN s[j] ELSE s[j + 1]
  <2>1. CASE j < i
    BY <1>1, <1>2, <1>3, <2>1
  <2>2. CASE j >= i
    <3>1. j - (i - 1) \in 1 .. Len(s) - i /\ i + (j - (i - 1)) = j + 1
      BY <1>1, <2>2
    <3>2. t[j] = c[j - (i - 1)] /\ c[j - (i - 1)] = s[i + (j - (i - 1))]
      BY <1>1, <1>2, <1>3, <2>2, <3>1
    <3> QED
      BY <1>1, <2>2, <3>1, <3>2
  <2> QED
    BY <1>1, <2>1, <2>2
<1> QED
  BY <1>3, <1>4, <1>5

\* What ReplaceAt does, index by index.
LEMMA ReplacedSeq ==
  ASSUME NEW s, IsSeq(s), NEW i \in 1 .. Len(s), NEW e
  PROVE  /\ IsSeq(ReplaceAt(s, i, e)) /\ Len(ReplaceAt(s, i, e)) = Len(s)
         /\ \A j \in 1 .. Len(s) :
              ReplaceAt(s, i, e)[j] = IF j = i THEN e ELSE s[j]
<1> DEFINE t == ReplaceAt(s, i, e)
<1>1. /\ Len(s) \in Nat /\ DOMAIN s = 1 .. Len(s)
  BY SeqIsFunction
<1>2. t = [j \in 1 .. Len(s) |-> IF j = i THEN e ELSE s[j]]
  BY <1>1, SeqIsFunction DEF ReplaceAt
<1>3. t = [j \in 1 .. Len(s) |-> t[j]]
  BY <1>2
<1>4. IsSeq(t) /\ Len(t) = Len(s)
  BY <1>1, <1>3, FunctionIsSeq
<1> QED
  BY <1>2, <1>4

\* Putting in and taking out undo each other.
LEMMA RemoveInserted ==
  ASSUME NEW s, IsSeq(s), NEW i \in 1 .. Len(s) + 1, NEW e
  PROVE  RemoveAt(InsertAt(s, i, e), i) = s
<1> DEFINE t == InsertAt(s, i, e)
<1>1. Len(s) \in Nat
  BY SeqIsFunction
<1>2. /\ IsSeq(t) /\ Len(t) = Len(s) + 1
      /\ \A j \in 1 .. Len(s) + 1 :
           t[j] = IF j < i THEN s[j] ELSE IF j = i THEN e ELSE s[j - 1]
  BY InsertedSeq
<1> HIDE DEF t
<1>3. /\ IsSeq(RemoveAt(t, i)) /\ Len(RemoveAt(t, i)) = Len(s)
      /\ \A j \in 1 .. Len(s) : RemoveAt(t, i)[j] = IF j < i THEN t[j] ELSE t[j + 1]
  <2> PICK n : n = Len(t)
    OBVIOUS
  <2>1. i \in 1 .. Len(t) /\ n - 1 = Len(s) /\ n = Len(s) + 1
    BY <1>1, <1>2
  <2>2. /\ IsSeq(RemoveAt(t, i)) /\ Len(RemoveAt(t, i)) = n - 1
        /\ \A j \in 1 .. n - 1 : RemoveAt(t, i)[j] = IF j < i THEN t[j] ELSE t[j + 1]
    BY <1>2, <2>1, RemovedSeq
  <2> QED
    BY <2>1, <2>2
<1>4. \A j \in 1 .. Len(s) : RemoveAt(t, i)[j] = s[j]
  BY <1>1, <1>2, <1>3
<1> QED
  BY <1>3, <1>4, SameSeq DEF t

\* What was taken out can be put back.
LEMMA InsertRemoved ==
  ASSUME NEW s, IsSeq(s), NEW i \in 1 .. Len(s)
  PROVE  InsertAt(RemoveAt(s, i), i, s[i]) = s
<1> DEFINE t == RemoveAt(s, i)
<1>1. Len(s) \in Nat
  BY SeqIsFunction
<1>2. /\ IsSeq(t) /\ Len(t) = Len(s) - 1
      /\ \A j \in 1 .. Len(s) - 1 : t[j] = IF j < i THEN s[j] ELSE s[j + 1]
  BY RemovedSeq
<1> HIDE DEF t
<1>3. /\ IsSeq(InsertAt(t, i, s[i])) /\ Len(InsertAt(t, i, s[i])) = Len(s)
      /\ \A j \in 1 .. Len(s) :
           InsertAt(t, i, s[i])[j] = IF j < i THEN t[j]
                                     ELSE IF j = i THEN s[i] ELSE t[j - 1]
  BY <1>1, <1>2, InsertedSeq
<1>4. \A j \in 1 .. Len(s) : InsertAt(t, i, s[i])[j] = s[j]
  BY <1>1, <1>2, <1>3
<1> QED
  BY <1>3, <1>4, SameSeq DEF t

----------------------------------------------------------------------------
(* Boards *)

IsMap(f) == f = [x \in DOMAIN f |-> f[x]]

\* A place in a pile, in the form that Place makes.
PilePlace(p) ==
  /\ IsPile(p) /\ p = Place(p.con, p.loc, p.seq)
  /\ p.con \in Players /\ p.loc \in PileLocations /\ p.seq \in Nat

IsBoard(b) ==
  /\ b = [piles |-> b.piles, zones |-> b.zones]
  /\ b.piles = [con \in Players |-> [loc \in PileLocations |-> b.piles[con][loc]]]
  /\ \A con \in Players, loc \in PileLocations : IsSeq(b.piles[con][loc])
  /\ IsMap(b.zones)
  /\ \A p \in DOMAIN b.zones : ~IsPile(p)

\* There is a card at p.
Has(b, p) ==
  \/ PilePlace(p) /\ p.seq + 1 \in 1 .. Len(GetPile(b, p))
  \/ ~IsPile(p) /\ p \in DOMAIN b.zones

\* A card may be put at p.
Room(b, p) ==
  \/ PilePlace(p) /\ p.seq + 1 \in 1 .. Len(GetPile(b, p)) + 1
  \/ ~IsPile(p) /\ p \notin DOMAIN b.zones

\* Two boards are equal if their piles and zones are.
LEMMA SameBoard ==
  ASSUME NEW b, IsBoard(b), NEW d, IsBoard(d), b.zones = d.zones,
         \A con \in Players, loc \in PileLocations :
           b.piles[con][loc] = d.piles[con][loc]
  PROVE  b = d
<1>1. b.piles = d.piles
  <2>1. [con \in Players |-> [loc \in PileLocations |-> b.piles[con][loc]]]
          = [con \in Players |-> [loc \in PileLocations |-> d.piles[con][loc]]]
    OBVIOUS
  <2> QED
    BY <2>1 DEF IsBoard
<1> QED
  BY <1>1 DEF IsBoard

\* One pile is replaced.
LEMMA PilePut ==
  ASSUME NEW b, IsBoard(b), NEW p, PilePlace(p), NEW s, IsSeq(s)
  PROVE  /\ IsBoard(PutPile(b, p, s))
         /\ PutPile(b, p, s).zones = b.zones
         /\ GetPile(PutPile(b, p, s), p) = s
         /\ \A con \in Players, loc \in PileLocations :
              PutPile(b, p, s).piles[con][loc] =
                IF con = p.con /\ loc = p.loc THEN s ELSE b.piles[con][loc]
<1> DEFINE d == PutPile(b, p, s)
           P == [b.piles EXCEPT ![p.con][p.loc] = s]
<1>1. d = [piles |-> P, zones |-> b.zones]
  BY DEF IsBoard, PutPile
<1>2. \A con \in Players, loc \in PileLocations :
        P[con][loc] = IF con = p.con /\ loc = p.loc THEN s ELSE b.piles[con][loc]
  BY DEF IsBoard, PilePlace
<1>3. P = [con \in Players |-> [loc \in PileLocations |-> P[con][loc]]]
  BY DEF IsBoard, PilePlace
<1> HIDE DEF P
<1>4. d.piles = P /\ d.zones = b.zones /\ d = [piles |-> d.piles, zones |-> d.zones]
  BY <1>1
<1> HIDE DEF d
<1>5. IsBoard(d)
  BY <1>2, <1>3, <1>4 DEF IsBoard
<1>6. GetPile(d, p) = s
  BY <1>2, <1>4 DEF GetPile, PilePlace
<1> QED
  BY <1>2, <1>4, <1>5, <1>6 DEF d

\* The map of the zones is replaced.
LEMMA ZonesPut ==
  ASSUME NEW b, IsBoard(b), NEW z, IsMap(z), \A p \in DOMAIN z : ~IsPile(p)
  PROVE  /\ [b EXCEPT !.zones = z] = [piles |-> b.piles, zones |-> z]
         /\ IsBoard([b EXCEPT !.zones = z])
BY DEF IsBoard

\* What PutKey does, key by key (std::map emplace).
LEMMA MapPut ==
  ASSUME NEW f, NEW k, NEW v
  PROVE  /\ IsMap(PutKey(f, k, v))
         /\ DOMAIN PutKey(f, k, v) = DOMAIN f \cup {k}
         /\ PutKey(f, k, v)[k] = v
         /\ \A x \in DOMAIN f \ {k} : PutKey(f, k, v)[x] = f[x]
BY DEF IsMap, PutKey

\* What EraseKey does, key by key (std::map erase).
LEMMA MapErased ==
  ASSUME NEW f, NEW k
  PROVE  /\ IsMap(EraseKey(f, k))
         /\ DOMAIN EraseKey(f, k) = DOMAIN f \ {k}
         /\ \A x \in DOMAIN f \ {k} : EraseKey(f, k)[x] = f[x]
BY DEF IsMap, EraseKey

\* Two maps are equal if they have the same keys and values.
LEMMA SameMap ==
  ASSUME NEW f, IsMap(f), NEW g, IsMap(g), DOMAIN f = DOMAIN g,
         \A x \in DOMAIN f : f[x] = g[x]
  PROVE  f = g
<1>1. [x \in DOMAIN f |-> f[x]] = [x \in DOMAIN g |-> g[x]]
  OBVIOUS
<1> QED
  BY <1>1 DEF IsMap

\* An erased key can be put back.
LEMMA PutErased ==
  ASSUME NEW f, IsMap(f), NEW k \in DOMAIN f
  PROVE  PutKey(EraseKey(f, k), k, f[k]) = f
BY DEF IsMap, PutKey, EraseKey

\* Erasing a key that was put leaves the map as it was.
LEMMA ErasePut ==
  ASSUME NEW f, IsMap(f), NEW k, k \notin DOMAIN f, NEW v
  PROVE  EraseKey(PutKey(f, k, v), k) = f
BY DEF IsMap, PutKey, EraseKey

\* Of two values for one key the later one stays.
LEMMA PutPut ==
  ASSUME NEW f, NEW k, NEW v, NEW w
  PROVE  PutKey(PutKey(f, k, v), k, w) = PutKey(f, k, w)
BY DEF IsMap, PutKey, EraseKey

\* Of two replacements of one pile the later one stays.
LEMMA PilePutTwice ==
  ASSUME NEW b, IsBoard(b), NEW p, PilePlace(p), NEW s, IsSeq(s), NEW t, IsSeq(t)
  PROVE  PutPile(PutPile(b, p, s), p, t) = PutPile(b, p, t)
<1> PICK d : d = PutPile(b, p, s)
  OBVIOUS
<1>1. /\ IsBoard(d) /\ d.zones = b.zones
      /\ \A con \in Players, loc \in PileLocations :
           d.piles[con][loc] =
             IF con = p.con /\ loc = p.loc THEN s ELSE b.piles[con][loc]
  BY PilePut
<1>2. /\ IsBoard(PutPile(b, p, t)) /\ PutPile(b, p, t).zones = b.zones
      /\ \A con \in Players, loc \in PileLocations :
           PutPile(b, p, t).piles[con][loc] =
             IF con = p.con /\ loc = p.loc THEN t ELSE b.piles[con][loc]
  BY PilePut
<1>3. /\ IsBoard(PutPile(d, p, t)) /\ PutPile(d, p, t).zones = d.zones
      /\ \A con \in Players, loc \in PileLocations :
           PutPile(d, p, t).piles[con][loc] =
             IF con = p.con /\ loc = p.loc THEN t ELSE d.piles[con][loc]
  BY <1>1, PilePut
<1>4. PutPile(d, p, t) = PutPile(b, p, t)
  BY <1>1, <1>2, <1>3, SameBoard
<1> QED
  BY <1>4

\* Replacing a pile by itself changes nothing.
LEMMA PilePutBack ==
  ASSUME NEW b, IsBoard(b), NEW p, PilePlace(p), NEW d, d = PutPile(b, p, GetPile(b, p))
  PROVE  d = b
<1> PICK s : s = GetPile(b, p)
  OBVIOUS
<1>1. IsSeq(s) /\ s = b.piles[p.con][p.loc]
  BY DEF GetPile, IsBoard, PilePlace
<1>2. /\ IsBoard(d) /\ d.zones = b.zones
      /\ \A con \in Players, loc \in PileLocations :
           d.piles[con][loc] =
             IF con = p.con /\ loc = p.loc THEN s ELSE b.piles[con][loc]
  BY <1>1, PilePut
<1> QED
  BY <1>1, <1>2, SameBoard

----------------------------------------------------------------------------
(* Putting a card in, taking it out and changing it *)

\* A card put in at p is at p, and can be taken out or replaced there.
LEMMA BoardInserted ==
  ASSUME NEW b, IsBoard(b), NEW p, Room(b, p), NEW x
  PROVE  /\ IsBoard(InsertCard(b, p, x)) /\ Has(InsertCard(b, p, x), p)
         /\ GetCard(InsertCard(b, p, x), p) = x
         /\ EraseCard(InsertCard(b, p, x), p) = b
         /\ \A y : SetCard(InsertCard(b, p, x), p, y) = InsertCard(b, p, y)
<1> PICK d : d = InsertCard(b, p, x)
  OBVIOUS
<1>1. CASE PilePlace(p) /\ p.seq + 1 \in 1 .. Len(GetPile(b, p)) + 1
  <2> PICK s : s = GetPile(b, p)
    OBVIOUS
  <2> PICK i \in 1 .. Len(s) + 1 : i = p.seq + 1
    BY <1>1
  <2>1. IsPile(p) /\ IsSeq(s)
    BY <1>1 DEF PilePlace, IsBoard, GetPile
  <2> PICK t : t = InsertAt(s, i, x)
    OBVIOUS
  <2>2. /\ IsSeq(t) /\ Len(t) = Len(s) + 1 /\ t[i] = x
        /\ RemoveAt(t, i) = s
    BY <2>1, InsertedSeq, RemoveInserted
  <2>3. d = PutPile(b, p, t)
    BY <2>1 DEF InsertCard
  <2>4. IsBoard(d) /\ GetPile(d, p) = t
    BY <1>1, <2>2, <2>3, PilePut
  <2>5. Has(d, p) /\ GetCard(d, p) = x
    BY <1>1, <2>1, <2>2, <2>4 DEF Has, GetCard
  <2>6. EraseCard(d, p) = PutPile(d, p, s)
    BY <2>1, <2>2, <2>4 DEF EraseCard
  <2>7. PutPile(d, p, s) = b
    <3>1. PutPile(d, p, s) = PutPile(b, p, s)
      BY <1>1, <2>1, <2>2, <2>3, PilePutTwice
    <3> QED
      BY <1>1, <3>1, PilePutBack
  <2>8. ASSUME NEW y PROVE SetCard(d, p, y) = InsertCard(b, p, y)
    <3> PICK u : u = InsertAt(s, i, y)
      OBVIOUS
    <3>1. /\ IsSeq(u) /\ Len(u) = Len(s) + 1
          /\ \A j \in 1 .. Len(s) + 1 :
               u[j] = IF j < i THEN s[j] ELSE IF j = i THEN y ELSE s[j - 1]
      BY <2>1, InsertedSeq
    <3>2. \A j \in 1 .. Len(s) + 1 :
            t[j] = IF j < i THEN s[j] ELSE IF j = i THEN x ELSE s[j - 1]
      BY <2>1, InsertedSeq
    <3>3. i \in 1 .. Len(t)
      BY <2>2
    <3>4. /\ IsSeq(ReplaceAt(t, i, y)) /\ Len(ReplaceAt(t, i, y)) = Len(t)
          /\ \A j \in 1 .. Len(t) :
               ReplaceAt(t, i, y)[j] = IF j = i THEN y ELSE t[j]
      BY <2>2, <3>3, ReplacedSeq
    <3>5. ReplaceAt(t, i, y) = u
      <4>1. \A j \in 1 .. Len(u) : ReplaceAt(t, i, y)[j] = u[j]
        BY <2>2, <3>1, <3>2, <3>4
      <4> QED
        BY <2>2, <3>1, <3>4, <4>1, SameSeq
    <3>6. SetCard(d, p, y) = PutPile(d, p, u)
      BY <2>1, <2>4, <3>5 DEF SetCard
    <3>7. InsertCard(b, p, y) = PutPile(b, p, u)
      BY <2>1 DEF InsertCard
    <3> QED
      BY <1>1, <2>2, <2>3, <3>1, <3>6, <3>7, PilePutTwice
  <2> QED
    BY <2>4, <2>5, <2>6, <2>7, <2>8
<1>2. CASE ~IsPile(p) /\ p \notin DOMAIN b.zones
  <2> DEFINE z == PutKey(b.zones, p, x)
  <2>1. /\ IsMap(z) /\ DOMAIN z = DOMAIN b.zones \cup {p} /\ z[p] = x
        /\ EraseKey(z, p) = b.zones /\ IsMap(b.zones)
        /\ \A y : PutKey(z, p, y) = PutKey(b.zones, p, y)
    <3>1. IsMap(b.zones)
      BY DEF IsBoard
    <3>2. EraseKey(z, p) = b.zones
      BY <1>2, <3>1, ErasePut
    <3>3. \A y : PutKey(z, p, y) = PutKey(b.zones, p, y)
      BY PutPut
    <3>4. IsMap(z) /\ DOMAIN z = DOMAIN b.zones \cup {p} /\ z[p] = x
      BY DEF IsMap, PutKey
    <3> QED
      BY <3>1, <3>2, <3>3, <3>4
  <2>2. \A q \in DOMAIN z : ~IsPile(q)
    BY <1>2, <2>1 DEF IsBoard
  <2>3. d = [b EXCEPT !.zones = z]
    BY <1>2 DEF InsertCard
  <2>6. \A y : InsertCard(b, p, y) = [b EXCEPT !.zones = PutKey(b.zones, p, y)]
    BY <1>2 DEF InsertCard
  <2> HIDE DEF z
  <2>4. IsBoard(d) /\ d = [piles |-> b.piles, zones |-> z]
    BY <2>1, <2>2, <2>3, ZonesPut
  <2>5. Has(d, p) /\ GetCard(d, p) = x
    BY <1>2, <2>1, <2>4 DEF Has, GetCard
  <2>7. EraseCard(d, p) = b
    BY <1>2, <2>1, <2>4 DEF EraseCard, IsBoard
  <2>8. ASSUME NEW y PROVE SetCard(d, p, y) = InsertCard(b, p, y)
    <3>1. SetCard(d, p, y) = [d EXCEPT !.zones = PutKey(z, p, y)]
      BY <1>2, <2>4 DEF SetCard
    <3>2. b = [piles |-> b.piles, zones |-> b.zones]
      BY DEF IsBoard
    <3> QED
      BY <2>1, <2>4, <2>6, <3>1, <3>2
  <2> QED
    BY <2>4, <2>5, <2>7, <2>8
<1> QED
  BY <1>1, <1>2 DEF Room

\* A card taken out at p leaves room for it at p.
LEMMA BoardErased ==
  ASSUME NEW b, IsBoard(b), NEW p, Has(b, p)
  PROVE  /\ IsBoard(EraseCard(b, p)) /\ Room(EraseCard(b, p), p)
         /\ InsertCard(EraseCard(b, p), p, GetCard(b, p)) = b
<1> PICK d : d = EraseCard(b, p)
  OBVIOUS
<1>1. CASE PilePlace(p) /\ p.seq + 1 \in 1 .. Len(GetPile(b, p))
  <2> PICK s : s = GetPile(b, p)
    OBVIOUS
  <2> PICK i \in 1 .. Len(s) : i = p.seq + 1
    BY <1>1
  <2>1. IsPile(p) /\ IsSeq(s) /\ GetCard(b, p) = s[i]
    BY <1>1 DEF PilePlace, IsBoard, GetPile, GetCard
  <2> PICK t : t = RemoveAt(s, i)
    OBVIOUS
  <2>2. /\ IsSeq(t) /\ Len(t) = Len(s) - 1 /\ InsertAt(t, i, s[i]) = s
    BY <2>1, RemovedSeq, InsertRemoved
  <2>3. d = PutPile(b, p, t)
    BY <2>1 DEF EraseCard
  <2>4. IsBoard(d) /\ GetPile(d, p) = t
    BY <1>1, <2>2, <2>3, PilePut
  <2>5. Room(d, p)
    BY <1>1, <2>1, <2>2, <2>4, SeqIsFunction DEF Room
  <2>6. InsertCard(d, p, s[i]) = PutPile(d, p, s)
    BY <2>1, <2>2, <2>4 DEF InsertCard
  <2>7. PutPile(d, p, s) = b
    <3>1. PutPile(d, p, s) = PutPile(b, p, s)
      BY <1>1, <2>1, <2>2, <2>3, PilePutTwice
    <3> QED
      BY <1>1, <3>1, PilePutBack
  <2> QED
    BY <2>1, <2>4, <2>5, <2>6, <2>7
<1>2. CASE ~IsPile(p) /\ p \in DOMAIN b.zones
  <2> DEFINE z == EraseKey(b.zones, p)
  <2>1. /\ IsMap(z) /\ DOMAIN z = DOMAIN b.zones \ {p}
        /\ PutKey(z, p, b.zones[p]) = b.zones
    BY <1>2, MapErased, PutErased DEF IsBoard
  <2>2. \A q \in DOMAIN z : ~IsPile(q)
    BY <1>2, <2>1 DEF IsBoard
  <2>3. d = [b EXCEPT !.zones = z] /\ GetCard(b, p) = b.zones[p]
    BY <1>2 DEF EraseCard, GetCard
  <2> HIDE DEF z
  <2>4. IsBoard(d) /\ d = [piles |-> b.piles, zones |-> z]
    BY <2>1, <2>2, <2>3, ZonesPut
  <2>5. Room(d, p)
    BY <1>2, <2>1, <2>4 DEF Room
  <2>7. InsertCard(d, p, b.zones[p]) = b
    BY <1>2, <2>1, <2>4 DEF InsertCard, IsBoard
  <2> QED
    BY <2>3, <2>4, <2>5, <2>7
<1> QED
  BY <1>1, <1>2 DEF Has

\* Changing a card is taking it out and putting the changed one in.
LEMMA SetIsInsert ==
  ASSUME NEW b, IsBoard(b), NEW p, Has(b, p), NEW x
  PROVE  SetCard(b, p, x) = InsertCard(EraseCard(b, p), p, x)
<1> PICK e : e = EraseCard(b, p)
  OBVIOUS
<1> PICK c : c = GetCard(b, p)
  OBVIOUS
<1>1. IsBoard(e) /\ Room(e, p) /\ InsertCard(e, p, c) = b
  BY BoardErased
<1>2. SetCard(InsertCard(e, p, c), p, x) = InsertCard(e, p, x)
  BY <1>1, BoardInserted
<1> QED
  BY <1>1, <1>2

\* Room in one container is not lost by taking a card out of another one.
LEMMA RoomErased ==
  ASSUME NEW b, IsBoard(b), NEW p, Has(b, p), NEW q, Room(b, q), ~SamePile(p, q)
  PROVE  Room(EraseCard(b, p), q)
<1> PICK d : d = EraseCard(b, p)
  OBVIOUS
<1>1. CASE PilePlace(p) /\ p.seq + 1 \in 1 .. Len(GetPile(b, p))
  <2>1. IsPile(p) /\ IsSeq(GetPile(b, p))
    BY <1>1 DEF PilePlace, IsBoard, GetPile
  <2> PICK t : t = RemoveAt(GetPile(b, p), p.seq + 1)
    OBVIOUS
  <2>2. d = PutPile(b, p, t) /\ IsSeq(t)
    BY <1>1, <2>1, RemovedSeq DEF EraseCard
  <2>3. /\ d.zones = b.zones
        /\ \A con \in Players, loc \in PileLocations :
             d.piles[con][loc] =
               IF con = p.con /\ loc = p.loc THEN t ELSE b.piles[con][loc]
    BY <1>1, <2>2, PilePut
  <2>4. PilePlace(q) => GetPile(d, q) = GetPile(b, q)
    BY <2>1, <2>3 DEF PilePlace, GetPile, SamePile
  <2> QED
    BY <2>3, <2>4 DEF Room
<1>2. CASE ~IsPile(p) /\ p \in DOMAIN b.zones
  <2>1. d = [b EXCEPT !.zones = EraseKey(b.zones, p)]
    BY <1>2 DEF EraseCard
  <2>2. d.piles = b.piles /\ DOMAIN d.zones = DOMAIN b.zones \ {p}
    BY <2>1 DEF IsBoard, EraseKey
  <2> QED
    BY <2>2 DEF Room, GetPile
<1> QED
  BY <1>1, <1>2 DEF Has

----------------------------------------------------------------------------
(* Two boards of one shape, with related cards at every place *)

SeqLifted(R, s, t) ==
  /\ IsSeq(s) /\ IsSeq(t) /\ Len(s) = Len(t)
  /\ \A i \in 1 .. Len(s) : <<s[i], t[i]>> \in R

Lifted(R, b, d) ==
  /\ IsBoard(b) /\ IsBoard(d) /\ DOMAIN b.zones = DOMAIN d.zones
  /\ \A p \in DOMAIN b.zones : <<b.zones[p], d.zones[p]>> \in R
  /\ \A con \in Players, loc \in PileLocations :
       SeqLifted(R, b.piles[con][loc], d.piles[con][loc])

\* Where one board has a card the other has a related one.
LEMMA LiftedAt ==
  ASSUME NEW R, NEW b, NEW d, Lifted(R, b, d), NEW p, Has(b, p)
  PROVE  Has(d, p) /\ <<GetCard(b, p), GetCard(d, p)>> \in R
<1>1. CASE PilePlace(p) /\ p.seq + 1 \in 1 .. Len(GetPile(b, p))
  <2>1. SeqLifted(R, GetPile(b, p), GetPile(d, p)) /\ IsPile(p)
    BY <1>1 DEF Lifted, PilePlace, GetPile
  <2> PICK i : i = p.seq + 1
    OBVIOUS
  <2>2. i \in 1 .. Len(GetPile(d, p))
        /\ <<GetPile(b, p)[i], GetPile(d, p)[i]>> \in R
    BY <1>1, <2>1 DEF SeqLifted
  <2> QED
    BY <1>1, <2>1, <2>2 DEF Has, GetCard
<1>2. CASE ~IsPile(p) /\ p \in DOMAIN b.zones
  BY <1>2 DEF Lifted, Has, GetCard
<1> QED
  BY <1>1, <1>2 DEF Has

\* Where one board has room the other has.
LEMMA LiftedRoom ==
  ASSUME NEW R, NEW b, NEW d, Lifted(R, b, d), NEW p, Room(b, p)
  PROVE  Room(d, p)
<1>1. CASE PilePlace(p) /\ p.seq + 1 \in 1 .. Len(GetPile(b, p)) + 1
  <2>1. SeqLifted(R, GetPile(b, p), GetPile(d, p))
    BY <1>1 DEF Lifted, PilePlace, GetPile
  <2> QED
    BY <1>1, <2>1 DEF SeqLifted, Room
<1>2. CASE ~IsPile(p) /\ p \notin DOMAIN b.zones
  BY <1>2 DEF Lifted, Room
<1> QED
  BY <1>1, <1>2 DEF Room

\* One pile of each board is replaced.
LEMMA LiftedPut ==
  ASSUME NEW R, NEW b, NEW d, Lifted(R, b, d), NEW p, PilePlace(p),
         NEW s, NEW t, SeqLifted(R, s, t)
  PROVE  Lifted(R, PutPile(b, p, s), PutPile(d, p, t))
<1>1. IsSeq(s) /\ IsSeq(t) /\ IsBoard(b) /\ IsBoard(d)
  BY DEF SeqLifted, Lifted
<1> PICK b2 : b2 = PutPile(b, p, s)
  OBVIOUS
<1> PICK d2 : d2 = PutPile(d, p, t)
  OBVIOUS
<1>2. /\ IsBoard(b2) /\ b2.zones = b.zones
      /\ \A con \in Players, loc \in PileLocations :
           b2.piles[con][loc] =
             IF con = p.con /\ loc = p.loc THEN s ELSE b.piles[con][loc]
  BY <1>1, PilePut
<1>3. /\ IsBoard(d2) /\ d2.zones = d.zones
      /\ \A con \in Players, loc \in PileLocations :
           d2.piles[con][loc] =
             IF con = p.con /\ loc = p.loc THEN t ELSE d.piles[con][loc]
  BY <1>1, PilePut
<1>4. ASSUME NEW con \in Players, NEW loc \in PileLocations
      PROVE  SeqLifted(R, b2.piles[con][loc], d2.piles[con][loc])
  <2>1. CASE con = p.con /\ loc = p.loc
    BY <1>2, <1>3, <2>1
  <2>2. CASE ~(con = p.con /\ loc = p.loc)
    BY <1>2, <1>3, <2>2 DEF Lifted
  <2> QED
    BY <2>1, <2>2
<1> QED
  BY <1>2, <1>3, <1>4 DEF Lifted

\* The maps of the zones of both boards are replaced.
LEMMA LiftedZones ==
  ASSUME NEW R, NEW b, NEW d, Lifted(R, b, d), NEW y, IsMap(y), NEW z, IsMap(z),
         DOMAIN y = DOMAIN z, \A p \in DOMAIN y : ~IsPile(p) /\ <<y[p], z[p]>> \in R
  PROVE  Lifted(R, [b EXCEPT !.zones = y], [d EXCEPT !.zones = z])
<1>1. IsBoard(b) /\ IsBoard(d)
  BY DEF Lifted
<1> PICK b2 : b2 = [b EXCEPT !.zones = y]
  OBVIOUS
<1> PICK d2 : d2 = [d EXCEPT !.zones = z]
  OBVIOUS
<1>2. b2 = [piles |-> b.piles, zones |-> y] /\ IsBoard(b2)
      /\ d2 = [piles |-> d.piles, zones |-> z] /\ IsBoard(d2)
  BY <1>1, ZonesPut
<1>3. \A con \in Players, loc \in PileLocations :
        SeqLifted(R, b2.piles[con][loc], d2.piles[con][loc])
  BY <1>2 DEF Lifted
<1> QED
  BY <1>2, <1>3 DEF Lifted

\* Related cards are put in at the same place.
LEMMA LiftedInsert ==
  ASSUME NEW R, NEW b, NEW d, Lifted(R, b, d), NEW p, Room(b, p),
         NEW x, NEW y, <<x, y>> \in R
  PROVE  Lifted(R, InsertCard(b, p, x), InsertCard(d, p, y))
<1>1. CASE PilePlace(p) /\ p.seq + 1 \in 1 .. Len(GetPile(b, p)) + 1
  <2> PICK s : s = GetPile(b, p)
    OBVIOUS
  <2> PICK t : t = GetPile(d, p)
    OBVIOUS
  <2>1. SeqLifted(R, s, t) /\ IsPile(p)
    BY <1>1 DEF Lifted, PilePlace, GetPile
  <2>2. IsSeq(s) /\ IsSeq(t) /\ Len(s) = Len(t) /\ Len(s) \in Nat
        /\ \A k \in 1 .. Len(s) : <<s[k], t[k]>> \in R
    BY <2>1, SeqIsFunction DEF SeqLifted
  <2> PICK i \in 1 .. Len(s) + 1 : i = p.seq + 1
    BY <1>1
  <2> PICK s2 : s2 = InsertAt(s, i, x)
    OBVIOUS
  <2> PICK t2 : t2 = InsertAt(t, i, y)
    OBVIOUS
  <2>3. /\ IsSeq(s2) /\ Len(s2) = Len(s) + 1
        /\ \A j \in 1 .. Len(s) + 1 :
             s2[j] = IF j < i THEN s[j] ELSE IF j = i THEN x ELSE s[j - 1]
    BY <2>2, InsertedSeq
  <2>4. /\ IsSeq(t2) /\ Len(t2) = Len(t) + 1
        /\ \A j \in 1 .. Len(t) + 1 :
             t2[j] = IF j < i THEN t[j] ELSE IF j = i THEN y ELSE t[j - 1]
    BY <2>2, InsertedSeq
  <2>5. ASSUME NEW j \in 1 .. Len(s2) PROVE <<s2[j], t2[j]>> \in R
    <3>1. CASE j < i
      BY <2>2, <2>3, <2>4, <3>1
    <3>2. CASE j = i
      BY <2>2, <2>3, <2>4, <3>2
    <3>3. CASE j > i
      <4> PICK k \in 1 .. Len(s) : k = j - 1
        BY <2>2, <2>3, <3>3
      <4>1. s2[j] = s[k] /\ t2[j] = t[k]
        BY <2>2, <2>3, <2>4, <3>3
      <4> QED
        BY <2>2, <4>1
    <3> QED
      BY <2>2, <2>3, <3>1, <3>2, <3>3
  <2>6. SeqLifted(R, s2, t2)
    BY <2>2, <2>3, <2>4, <2>5 DEF SeqLifted
  <2>7. InsertCard(b, p, x) = PutPile(b, p, s2)
        /\ InsertCard(d, p, y) = PutPile(d, p, t2)
    BY <2>1 DEF InsertCard
  <2> QED
    BY <1>1, <2>6, <2>7, LiftedPut
<1>2. CASE ~IsPile(p) /\ p \notin DOMAIN b.zones
  <2> PICK u : u = PutKey(b.zones, p, x)
    OBVIOUS
  <2> PICK v : v = PutKey(d.zones, p, y)
    OBVIOUS
  <2>1. IsMap(u) /\ IsMap(v) /\ DOMAIN u = DOMAIN b.zones \cup {p}
        /\ DOMAIN v = DOMAIN d.zones \cup {p} /\ u[p] = x /\ v[p] = y
    BY DEF IsMap, PutKey
  <2>2. ASSUME NEW q \in DOMAIN u PROVE ~IsPile(q) /\ <<u[q], v[q]>> \in R
    <3>1. CASE q = p
      BY <1>2, <2>1, <3>1
    <3>2. CASE q # p
      <4>1. q \in DOMAIN b.zones /\ u[q] = b.zones[q]
        BY <2>1, <3>2 DEF PutKey
      <4>2. q \in DOMAIN d.zones /\ v[q] = d.zones[q]
        BY <4>1, <3>2 DEF PutKey, Lifted
      <4> QED
        BY <4>1, <4>2 DEF Lifted, IsBoard
    <3> QED
      BY <3>1, <3>2
  <2>3. DOMAIN u = DOMAIN v
    BY <2>1 DEF Lifted
  <2>4. Lifted(R, [b EXCEPT !.zones = u], [d EXCEPT !.zones = v])
    BY <2>1, <2>2, <2>3, LiftedZones
  <2> QED
    BY <1>2, <2>4 DEF InsertCard
<1> QED
  BY <1>1, <1>2 DEF Room

\* The cards at one place are taken out of both boards.
LEMMA LiftedErase ==
  ASSUME NEW R, NEW b, NEW d, Lifted(R, b, d), NEW p, Has(b, p)
  PROVE  Lifted(R, EraseCard(b, p), EraseCard(d, p))
<1>1. CASE PilePlace(p) /\ p.seq + 1 \in 1 .. Len(GetPile(b, p))
  <2> PICK s : s = GetPile(b, p)
    OBVIOUS
  <2> PICK t : t = GetPile(d, p)
    OBVIOUS
  <2>1. SeqLifted(R, s, t) /\ IsPile(p)
    BY <1>1 DEF Lifted, PilePlace, GetPile
  <2>2. IsSeq(s) /\ IsSeq(t) /\ Len(s) = Len(t) /\ Len(s) \in Nat
        /\ \A k \in 1 .. Len(s) : <<s[k], t[k]>> \in R
    BY <2>1, SeqIsFunction DEF SeqLifted
  <2> PICK i \in 1 .. Len(s) : i = p.seq + 1
    BY <1>1
  <2> PICK s2 : s2 = RemoveAt(s, i)
    OBVIOUS
  <2> PICK t2 : t2 = RemoveAt(t, i)
    OBVIOUS
  <2>3. /\ IsSeq(s2) /\ Len(s2) = Len(s) - 1
        /\ \A j \in 1 .. Len(s) - 1 : s2[j] = IF j < i THEN s[j] ELSE s[j + 1]
    BY <2>2, RemovedSeq
  <2>4. /\ IsSeq(t2) /\ Len(t2) = Len(t) - 1
        /\ \A j \in 1 .. Len(t) - 1 : t2[j] = IF j < i THEN t[j] ELSE t[j + 1]
    BY <2>2, RemovedSeq
  <2>5. ASSUME NEW j \in 1 .. Len(s2) PROVE <<s2[j], t2[j]>> \in R
    <3> PICK k \in 1 .. Len(s) : k = IF j < i THEN j ELSE j + 1
      BY <2>2, <2>3
    <3>1. s2[j] = s[k] /\ t2[j] = t[k]
      BY <2>2, <2>3, <2>4
    <3> QED
      BY <2>2, <3>1
  <2>6. SeqLifted(R, s2, t2)
    BY <2>2, <2>3, <2>4, <2>5 DEF SeqLifted
  <2>7. EraseCard(b, p) = PutPile(b, p, s2)
        /\ EraseCard(d, p) = PutPile(d, p, t2)
    BY <2>1 DEF EraseCard
  <2> QED
    BY <1>1, <2>6, <2>7, LiftedPut
<1>2. CASE ~IsPile(p) /\ p \in DOMAIN b.zones
  <2> PICK u : u = EraseKey(b.zones, p)
    OBVIOUS
  <2> PICK v : v = EraseKey(d.zones, p)
    OBVIOUS
  <2>1. IsMap(u) /\ IsMap(v) /\ DOMAIN u = DOMAIN b.zones \ {p}
        /\ DOMAIN v = DOMAIN d.zones \ {p}
    BY MapErased
  <2>2. ASSUME NEW q \in DOMAIN u PROVE ~IsPile(q) /\ <<u[q], v[q]>> \in R
    <3>1. q \in DOMAIN b.zones /\ u[q] = b.zones[q]
      BY <2>1 DEF EraseKey
    <3>2. q \in DOMAIN d.zones /\ v[q] = d.zones[q]
      BY <2>1, <3>1 DEF EraseKey, Lifted
    <3> QED
      BY <3>1, <3>2 DEF Lifted, IsBoard
  <2>3. DOMAIN u = DOMAIN v
    BY <2>1 DEF Lifted
  <2>4. Lifted(R, [b EXCEPT !.zones = u], [d EXCEPT !.zones = v])
    BY <2>1, <2>2, <2>3, LiftedZones
  <2> QED
    BY <1>2, <2>4 DEF EraseCard
<1> QED
  BY <1>1, <1>2 DEF Has

----------------------------------------------------------------------------
(* One recording, one card *)

\* The cards that the reversible messages leave: none has a counter.
RecordedCards ==
  [code : SequentialOf(Nat), pos : SequentialOf(Nat), counters : {EmptyMap}]

PlainCards ==
  [code : Nat, pos : Nat, counters : {[type \in CounterTypes |-> 0]}]

\* What a message writes to a card; KeepPos leaves the position.
KeepPos == -1
Edits == [code : Nat, pos : Nat \cup {KeepPos}]

\* A step onto the next value, a step back, and a new value: Step without the
\* flags that choose among them.
Onward(s) == [s EXCEPT !.pos = @ + 1]
Grown(s, v) == [vec |-> Append(s.vec, v), pos |-> s.pos + 1]

Redone(card, e) ==
  [code |-> Onward(card.code),
   pos |-> IF e.pos = KeepPos THEN card.pos ELSE Onward(card.pos),
   counters |-> EmptyMap]

Undone(card, e) ==
  [code |-> Prev(card.code),
   pos |-> IF e.pos = KeepPos THEN card.pos ELSE Prev(card.pos),
   counters |-> EmptyMap]

Done(card, e) ==
  [code |-> Grown(card.code, e.code),
   pos |-> IF e.pos = KeepPos THEN card.pos ELSE Grown(card.pos, e.pos),
   counters |-> EmptyMap]

PlainBy(card, e) == IF e.pos = KeepPos THEN Recoded(card, e.code)
                                       ELSE Replaced(card, e.code, e.pos)

\* The same values up to the cursor and beyond, and perhaps later ones.
Longer(s, u) ==
  /\ s.pos = u.pos /\ Len(s.vec) <= Len(u.vec)
  /\ \A i \in 1 .. Len(s.vec) : u.vec[i] = s.vec[i]

Extends ==
  {cd \in RecordedCards \X RecordedCards :
     Longer(cd[1].code, cd[2].code) /\ Longer(cd[1].pos, cd[2].pos)}

\* A recorded card that shows a plain card.
Shows ==
  {cp \in RecordedCards \X PlainCards :
     /\ InRange(cp[1].code) /\ InRange(cp[1].pos)
     /\ Shown(cp[1].code) = cp[2].code /\ Shown(cp[1].pos) = cp[2].pos}

ShowsLast == {cp \in Shows : AtEnd(cp[1].code) /\ AtEnd(cp[1].pos)}

\* What a step onto the next value, a step back and a new value do to a
\* recording, and that the first two cancel out (card.hpp:16-25).
LEMMA StepRecording ==
  ASSUME NEW s \in SequentialOf(Nat), NEW v \in Nat
  PROVE  /\ Prev(s) \in SequentialOf(Nat)
         /\ Onward(s) \in SequentialOf(Nat)
         /\ Grown(s, v) \in SequentialOf(Nat)
         /\ Prev(Onward(s)) = s
         /\ Onward(Prev(s)) = s
         /\ Longer(s, s)
         /\ Longer(s, Prev(Grown(s, v)))
         /\ InRange(s) /\ AtEnd(s) =>
              /\ InRange(Grown(s, v)) /\ AtEnd(Grown(s, v))
              /\ Shown(Grown(s, v)) = v
<1>1. s = [vec |-> s.vec, pos |-> s.pos] /\ s.vec \in Seq(Nat) /\ s.pos \in Int
      /\ Len(s.vec) \in Nat
  BY LenProperties DEF SequentialOf
<1>2. Prev(s) = [vec |-> s.vec, pos |-> s.pos - 1]
  BY <1>1 DEF Prev
<1>3. Onward(s) = [vec |-> s.vec, pos |-> s.pos + 1]
  BY <1>1 DEF Onward
<1> PICK w : w = Append(s.vec, v)
  OBVIOUS
<1>4. Grown(s, v) = [vec |-> w, pos |-> s.pos + 1]
  BY DEF Grown
<1>5. w \in Seq(Nat) /\ Len(w) = Len(s.vec) + 1
      /\ (\A i \in 1 .. Len(s.vec) : w[i] = s.vec[i]) /\ w[Len(s.vec) + 1] = v
  BY <1>1, AppendProperties
<1>6. Prev(Onward(s)) = s /\ Onward(Prev(s)) = s
  <2> PICK p \in Int : p = s.pos + 1
    BY <1>1
  <2> PICK q \in Int : q = s.pos - 1
    BY <1>1
  <2>1. /\ Onward(s) = [vec |-> s.vec, pos |-> p] /\ p - 1 = s.pos
        /\ Prev(s) = [vec |-> s.vec, pos |-> q] /\ q + 1 = s.pos
    BY <1>1, <1>2, <1>3
  <2>2. Prev([vec |-> s.vec, pos |-> p]) = [vec |-> s.vec, pos |-> p - 1]
        /\ Onward([vec |-> s.vec, pos |-> q]) = [vec |-> s.vec, pos |-> q + 1]
    BY DEF Prev, Onward
  <2> QED
    BY <1>1, <2>1, <2>2
<1>7. Prev(s) \in SequentialOf(Nat) /\ Onward(s) \in SequentialOf(Nat)
      /\ Grown(s, v) \in SequentialOf(Nat)
  BY <1>1, <1>2, <1>3, <1>4, <1>5 DEF SequentialOf
<1>8. Longer(s, s)
  BY <1>1 DEF Longer
<1>9. Longer(s, Prev(Grown(s, v)))
  <2> PICK p \in Int : p = s.pos + 1
    BY <1>1
  <2>1. Grown(s, v) = [vec |-> w, pos |-> p] /\ p - 1 = s.pos
    BY <1>1, <1>4
  <2> PICK g : g = Grown(s, v)
    OBVIOUS
  <2> PICK u : u = Prev(g)
    OBVIOUS
  <2>2. u.vec = w /\ u.pos = s.pos
    BY <1>1, <2>1 DEF Prev
  <2> QED
    BY <1>1, <1>5, <2>2 DEF Longer
<1>10. ASSUME InRange(s) /\ AtEnd(s)
       PROVE  /\ InRange(Grown(s, v)) /\ AtEnd(Grown(s, v))
              /\ Shown(Grown(s, v)) = v
  <2>1. s.pos = Len(s.vec) - 1 /\ s.pos >= 0
    BY <1>10 DEF InRange, AtEnd
  <2> PICK k : k = Len(s.vec)
    OBVIOUS
  <2>2. Grown(s, v) = [vec |-> w, pos |-> k] /\ k \in Nat /\ Len(w) = k + 1
        /\ w[k + 1] = v
    BY <1>1, <1>4, <1>5, <2>1
  <2> PICK u : u = Grown(s, v)
    OBVIOUS
  <2>3. u.vec = w /\ u.pos = k
    BY <2>2
  <2>4. InRange(u) /\ AtEnd(u)
    BY <2>2, <2>3 DEF InRange, AtEnd
  <2> QED
    BY <2>2, <2>3, <2>4 DEF Shown
<1> QED
  BY <1>6, <1>7, <1>8, <1>9, <1>10

\* A step back keeps one recording longer than the other.
LEMMA LongerBack ==
  ASSUME NEW s \in SequentialOf(Nat), NEW u \in SequentialOf(Nat), Longer(s, u)
  PROVE  Longer(Prev(s), Prev(u))
BY DEF Longer, Prev, SequentialOf

\* A longer recording with the same cursor shows the same.
LEMMA LongerShows ==
  ASSUME NEW s \in SequentialOf(Nat), NEW u \in SequentialOf(Nat), Longer(s, u),
         InRange(s)
  PROVE  InRange(u) /\ Shown(u) = Shown(s)
<1>1. Len(s.vec) \in Nat /\ Len(u.vec) \in Nat /\ s.pos \in Int
  BY LenProperties DEF SequentialOf
<1>2. s.pos + 1 \in 1 .. Len(s.vec)
  BY <1>1 DEF InRange
<1>3. u.vec[s.pos + 1] = s.vec[s.pos + 1]
  BY <1>2 DEF Longer
<1> QED
  BY <1>1, <1>2, <1>3 DEF Longer, InRange, Shown

\* Longer is transitive.
LEMMA LongerTwice ==
  ASSUME NEW s \in SequentialOf(Nat), NEW u \in SequentialOf(Nat),
         NEW v \in SequentialOf(Nat), Longer(s, u), Longer(u, v)
  PROVE  Longer(s, v)
<1>1. Len(s.vec) \in Nat /\ Len(u.vec) \in Nat /\ Len(v.vec) \in Nat
  BY LenProperties DEF SequentialOf
<1> QED
  BY <1>1 DEF Longer

\* A recorded card is its three recordings.
LEMMA CardForm ==
  ASSUME NEW c \in RecordedCards
  PROVE  /\ c = [code |-> c.code, pos |-> c.pos, counters |-> EmptyMap]
         /\ c.code \in SequentialOf(Nat) /\ c.pos \in SequentialOf(Nat)
BY DEF RecordedCards

\* Redoing and undoing a message cancel out on a card, and undoing a new one
\* leaves the card with a longer recording.
LEMMA StepCards ==
  ASSUME NEW c \in RecordedCards, NEW e \in Edits
  PROVE  /\ Redone(c, e) \in RecordedCards
         /\ Undone(c, e) \in RecordedCards
         /\ Done(c, e) \in RecordedCards
         /\ Undone(Redone(c, e), e) = c
         /\ Redone(Undone(c, e), e) = c
         /\ <<c, c>> \in Extends
         /\ <<c, Undone(Done(c, e), e)>> \in Extends
<1>1. /\ c = [code |-> c.code, pos |-> c.pos, counters |-> EmptyMap]
      /\ c.code \in SequentialOf(Nat) /\ c.pos \in SequentialOf(Nat)
      /\ e.code \in Nat /\ (e.pos # KeepPos => e.pos \in Nat)
  BY CardForm DEF Edits
<1>2. /\ Prev(c.code) \in SequentialOf(Nat) /\ Onward(c.code) \in SequentialOf(Nat)
      /\ Prev(Onward(c.code)) = c.code /\ Onward(Prev(c.code)) = c.code
      /\ Grown(c.code, e.code) \in SequentialOf(Nat) /\ Longer(c.code, c.code)
      /\ Longer(c.code, Prev(Grown(c.code, e.code)))
  BY <1>1, StepRecording
<1>3. /\ Prev(c.pos) \in SequentialOf(Nat) /\ Onward(c.pos) \in SequentialOf(Nat)
      /\ Prev(Onward(c.pos)) = c.pos /\ Onward(Prev(c.pos)) = c.pos
      /\ Longer(c.pos, c.pos)
  BY <1>1, StepRecording
<1>4. e.pos # KeepPos =>
      /\ Grown(c.pos, e.pos) \in SequentialOf(Nat)
      /\ Longer(c.pos, Prev(Grown(c.pos, e.pos)))
  BY <1>1, StepRecording
<1>5. Redone(c, e) \in RecordedCards /\ Undone(c, e) \in RecordedCards
      /\ Done(c, e) \in RecordedCards
  BY <1>1, <1>2, <1>3, <1>4 DEF Redone, Undone, Done, RecordedCards
<1>6. Undone(Redone(c, e), e) = c /\ Redone(Undone(c, e), e) = c
  BY <1>1, <1>2, <1>3 DEF Redone, Undone
<1>7. <<c, c>> \in Extends
  BY <1>2, <1>3 DEF Extends
<1>8. <<c, Undone(Done(c, e), e)>> \in Extends
  <2> PICK f \in RecordedCards : f = Done(c, e)
    BY <1>5
  <2> PICK d : d = Undone(f, e)
    OBVIOUS
  <2>1. /\ d = [code |-> d.code, pos |-> d.pos, counters |-> EmptyMap]
        /\ d.code = Prev(Grown(c.code, e.code))
        /\ d.pos = IF e.pos = KeepPos THEN c.pos ELSE Prev(Grown(c.pos, e.pos))
    BY DEF Undone, Done
  <2>2. Longer(c.code, d.code) /\ Longer(c.pos, d.pos)
    BY <1>2, <1>3, <1>4, <2>1
  <2>3. f.code \in SequentialOf(Nat) /\ f.pos \in SequentialOf(Nat)
    BY CardForm
  <2>4. Prev(f.code) \in SequentialOf(Nat) /\ Prev(f.pos) \in SequentialOf(Nat)
    BY <2>3, StepRecording
  <2>5. d \in RecordedCards
    BY <2>3, <2>4 DEF Undone, RecordedCards
  <2> QED
    BY <2>2, <2>5 DEF Extends
<1> QED
  BY <1>5, <1>6, <1>7, <1>8

\* Longer recordings: of cards as of values.
LEMMA ExtendsFacts ==
  ASSUME NEW c, NEW d, <<c, d>> \in Extends
  PROVE  /\ c \in RecordedCards /\ d \in RecordedCards
         /\ <<c, c>> \in Extends /\ <<d, d>> \in Extends
         /\ \A e \in Edits : <<Undone(c, e), Undone(d, e)>> \in Extends
         /\ \A f : <<d, f>> \in Extends => <<c, f>> \in Extends
         /\ \A p : <<c, p>> \in Shows => <<d, p>> \in Shows
<1>1. /\ c \in RecordedCards /\ d \in RecordedCards
      /\ Longer(c.code, d.code) /\ Longer(c.pos, d.pos)
  BY DEF Extends
<1>2. <<c, c>> \in Extends /\ <<d, d>> \in Extends
  <2>1. /\ Longer(c.code, c.code) /\ Longer(c.pos, c.pos)
        /\ Longer(d.code, d.code) /\ Longer(d.pos, d.pos)
    BY <1>1, CardForm, StepRecording
  <2> QED
    BY <1>1, <2>1 DEF Extends
<1>3. ASSUME NEW e \in Edits
      PROVE  <<Undone(c, e), Undone(d, e)>> \in Extends
  <2> PICK c2 \in RecordedCards : c2 = Undone(c, e)
    BY <1>1, StepCards
  <2> PICK d2 \in RecordedCards : d2 = Undone(d, e)
    BY <1>1, StepCards
  <2>1. c2.code = Prev(c.code) /\ d2.code = Prev(d.code)
        /\ c2.pos = (IF e.pos = KeepPos THEN c.pos ELSE Prev(c.pos))
        /\ d2.pos = (IF e.pos = KeepPos THEN d.pos ELSE Prev(d.pos))
    BY DEF Undone
  <2>2. Longer(Prev(c.code), Prev(d.code)) /\ Longer(Prev(c.pos), Prev(d.pos))
    BY <1>1, CardForm, LongerBack
  <2>3. Longer(c2.code, d2.code) /\ Longer(c2.pos, d2.pos)
    BY <1>1, <2>1, <2>2
  <2> QED
    BY <2>3 DEF Extends
<1>4. ASSUME NEW f, <<d, f>> \in Extends
      PROVE  <<c, f>> \in Extends
  <2>1. f \in RecordedCards /\ Longer(d.code, f.code) /\ Longer(d.pos, f.pos)
    BY <1>4 DEF Extends
  <2>2. Longer(c.code, f.code) /\ Longer(c.pos, f.pos)
    BY <1>1, <2>1, CardForm, LongerTwice
  <2> QED
    BY <1>1, <2>1, <2>2 DEF Extends
<1>5. ASSUME NEW p, <<c, p>> \in Shows
      PROVE  <<d, p>> \in Shows
  <2>1. /\ p \in PlainCards /\ InRange(c.code) /\ InRange(c.pos)
        /\ Shown(c.code) = p.code /\ Shown(c.pos) = p.pos
    BY <1>5 DEF Shows
  <2>2. InRange(d.code) /\ InRange(d.pos) /\ Shown(d.code) = p.code /\ Shown(d.pos) = p.pos
    BY <1>1, <2>1, CardForm, LongerShows
  <2> QED
    BY <1>1, <2>1, <2>2 DEF Shows
<1> QED
  BY <1>1, <1>2, <1>3, <1>4, <1>5

\* A new value on a card is what the card then shows.
LEMMA NewValueShows ==
  ASSUME NEW c, NEW p, <<c, p>> \in ShowsLast, NEW e \in Edits
  PROVE  <<Done(c, e), PlainBy(p, e)>> \in ShowsLast
<1>1. /\ c \in RecordedCards /\ p \in PlainCards
      /\ InRange(c.code) /\ InRange(c.pos) /\ AtEnd(c.code) /\ AtEnd(c.pos)
      /\ Shown(c.code) = p.code /\ Shown(c.pos) = p.pos
  BY DEF ShowsLast, Shows
<1>2. e.code \in Nat /\ (e.pos # KeepPos => e.pos \in Nat)
  BY DEF Edits
<1> PICK d \in RecordedCards : d = Done(c, e)
  BY <1>1, StepCards
<1>3. d.code = Grown(c.code, e.code)
      /\ d.pos = IF e.pos = KeepPos THEN c.pos ELSE Grown(c.pos, e.pos)
  BY DEF Done
<1> PICK q : q = PlainBy(p, e)
  OBVIOUS
<1>4. /\ q \in PlainCards /\ q.code = e.code
      /\ q.pos = IF e.pos = KeepPos THEN p.pos ELSE e.pos
  BY <1>1, <1>2 DEF PlainBy, Recoded, Replaced, PlainCards
<1>5. InRange(d.code) /\ AtEnd(d.code) /\ Shown(d.code) = q.code
  <2>1. c.code \in SequentialOf(Nat)
    BY <1>1, CardForm
  <2> QED
    BY <1>1, <1>2, <1>3, <1>4, <2>1, StepRecording
<1>6. InRange(d.pos) /\ AtEnd(d.pos) /\ Shown(d.pos) = q.pos
  <2>1. c.pos \in SequentialOf(Nat)
    BY <1>1, CardForm
  <2>2. CASE e.pos = KeepPos
    BY <1>1, <1>3, <1>4, <2>2
  <2>3. CASE e.pos # KeepPos
    BY <1>1, <1>2, <1>3, <1>4, <2>1, <2>3, StepRecording
  <2> QED
    BY <2>2, <2>3
<1> QED
  BY <1>4, <1>5, <1>6 DEF ShowsLast, Shows

----------------------------------------------------------------------------
(* A card that is moved, or changed where it is *)

Relocated(b, from, to, card) == InsertCard(EraseCard(b, from), to, card)

Movable(b, from, to) == Has(b, from) /\ Room(EraseCard(b, from), to)

\* A card that is moved from p to q can be moved back.
LEMMA RelocatedBack ==
  ASSUME NEW b, IsBoard(b), NEW p, NEW q, Movable(b, p, q), NEW x
  PROVE  /\ IsBoard(Relocated(b, p, q, x))
         /\ GetCard(Relocated(b, p, q, x), q) = x
         /\ Movable(Relocated(b, p, q, x), q, p)
         /\ \A y : Relocated(Relocated(b, p, q, x), q, p, y) = InsertCard(EraseCard(b, p), p, y)
         /\ Relocated(Relocated(b, p, q, x), q, p, GetCard(b, p)) = b
<1> PICK e : e = EraseCard(b, p)
  OBVIOUS
<1> PICK d : d = InsertCard(e, q, x)
  OBVIOUS
<1>1. IsBoard(e) /\ Room(e, p) /\ InsertCard(e, p, GetCard(b, p)) = b /\ Room(e, q)
  BY BoardErased DEF Movable
<1>2. IsBoard(d) /\ Has(d, q) /\ GetCard(d, q) = x /\ EraseCard(d, q) = e
  BY <1>1, BoardInserted
<1>3. d = Relocated(b, p, q, x)
  BY DEF Relocated
<1>4. \A y : Relocated(d, q, p, y) = InsertCard(e, p, y)
  BY <1>2 DEF Relocated
<1>5. Movable(d, q, p)
  BY <1>1, <1>2 DEF Movable
<1> QED
  BY <1>1, <1>2, <1>3, <1>4, <1>5

\* What can be moved on one board can on the other.
LEMMA LiftedMovable ==
  ASSUME NEW R, NEW b, NEW d, Lifted(R, b, d), NEW p, NEW q, Movable(b, p, q)
  PROVE  Movable(d, p, q)
<1>1. Has(b, p) /\ Room(EraseCard(b, p), q)
  BY DEF Movable
<1>2. Has(d, p) /\ Lifted(R, EraseCard(b, p), EraseCard(d, p))
  BY <1>1, LiftedAt, LiftedErase
<1>3. Room(EraseCard(d, p), q)
  BY <1>1, <1>2, LiftedRoom
<1> QED
  BY <1>2, <1>3 DEF Movable

\* Related cards are moved on both boards.
LEMMA LiftedRelocated ==
  ASSUME NEW R, NEW b, NEW d, Lifted(R, b, d), NEW p, NEW q, Movable(b, p, q),
         NEW x, NEW y, <<x, y>> \in R
  PROVE  Lifted(R, Relocated(b, p, q, x), Relocated(d, p, q, y))
<1>1. Has(b, p) /\ Room(EraseCard(b, p), q)
  BY DEF Movable
<1>2. Lifted(R, EraseCard(b, p), EraseCard(d, p))
  BY <1>1, LiftedErase
<1> QED
  BY <1>1, <1>2, LiftedInsert DEF Relocated

AllRecorded(b) == Lifted(Extends, b, b)

\* Boards with longer recordings have recorded cards.
LEMMA LiftedRecorded ==
  ASSUME NEW b, NEW d, Lifted(Extends, b, d)
  PROVE  AllRecorded(b) /\ AllRecorded(d)
<1>1. ASSUME NEW con \in Players, NEW loc \in PileLocations
      PROVE  /\ SeqLifted(Extends, b.piles[con][loc], b.piles[con][loc])
             /\ SeqLifted(Extends, d.piles[con][loc], d.piles[con][loc])
  BY ExtendsFacts DEF Lifted, SeqLifted
<1>2. ASSUME NEW p \in DOMAIN b.zones
      PROVE  <<b.zones[p], b.zones[p]>> \in Extends /\ <<d.zones[p], d.zones[p]>> \in Extends
  BY ExtendsFacts DEF Lifted
<1> QED
  BY <1>1, <1>2 DEF AllRecorded, Lifted

\* The cards of such a board are recorded cards.
LEMMA RecordedAt ==
  ASSUME NEW b, AllRecorded(b), NEW p, Has(b, p)
  PROVE  GetCard(b, p) \in RecordedCards
BY LiftedAt, ExtendsFacts DEF AllRecorded

\* The message is new: the card gets a new value on its way.
LEMMA RelocateNew ==
  ASSUME NEW b, AllRecorded(b), NEW p, NEW q, Movable(b, p, q), NEW e \in Edits,
         NEW d, d = Relocated(b, p, q, Done(GetCard(b, p), e)),
         NEW b1, b1 = Relocated(d, q, p, Undone(GetCard(d, q), e))
  PROVE  /\ AllRecorded(d) /\ Movable(d, q, p)
         /\ Lifted(Extends, b, b1)
<1> PICK c \in RecordedCards : c = GetCard(b, p)
  BY RecordedAt DEF Movable
<1>0. IsBoard(b) /\ Has(b, p)
  BY DEF AllRecorded, Lifted, Movable
<1>1. GetCard(d, q) = Done(c, e) /\ Movable(d, q, p)
      /\ b1 = InsertCard(EraseCard(b, p), p, Undone(Done(c, e), e))
  BY <1>0, RelocatedBack
<1>2. /\ <<c, Undone(Done(c, e), e)>> \in Extends /\ Done(c, e) \in RecordedCards
      /\ <<Done(c, e), Done(c, e)>> \in Extends
  BY StepCards
<1>3. AllRecorded(d)
  BY <1>2, LiftedRelocated DEF AllRecorded
<1>4. Lifted(Extends, EraseCard(b, p), EraseCard(b, p)) /\ Room(EraseCard(b, p), p)
      /\ InsertCard(EraseCard(b, p), p, c) = b
  BY <1>0, LiftedErase, BoardErased DEF AllRecorded
<1>5. Lifted(Extends, InsertCard(EraseCard(b, p), p, c),
                      InsertCard(EraseCard(b, p), p, Undone(Done(c, e), e)))
  BY <1>2, <1>4, LiftedInsert
<1> QED
  BY <1>1, <1>3, <1>4, <1>5

\* Undoing the message on a board with longer recordings.
LEMMA RelocateUndo ==
  ASSUME NEW d, NEW d2, Lifted(Extends, d, d2), NEW p, NEW q, Movable(d, q, p),
         NEW e \in Edits
  PROVE  Lifted(Extends, Relocated(d, q, p, Undone(GetCard(d, q), e)),
                         Relocated(d2, q, p, Undone(GetCard(d2, q), e)))
<1>1. <<GetCard(d, q), GetCard(d2, q)>> \in Extends
  BY LiftedAt DEF Movable
<1>2. <<Undone(GetCard(d, q), e), Undone(GetCard(d2, q), e)>> \in Extends
  BY <1>1, ExtendsFacts
<1> QED
  BY <1>2, LiftedRelocated

\* Redoing what was undone.
LEMMA RelocateAgain ==
  ASSUME NEW d, AllRecorded(d), NEW p, NEW q, Movable(d, q, p), NEW e \in Edits,
         NEW b, b = Relocated(d, q, p, Undone(GetCard(d, q), e))
  PROVE  Movable(b, p, q) /\ Relocated(b, p, q, Redone(GetCard(b, p), e)) = d
<1> PICK c \in RecordedCards : c = GetCard(d, q)
  BY RecordedAt DEF Movable
<1>0. IsBoard(d)
  BY DEF AllRecorded, Lifted
<1>1. /\ GetCard(b, p) = Undone(c, e) /\ Movable(b, p, q)
      /\ Relocated(b, p, q, c) = d
  BY <1>0, RelocatedBack
<1>2. Redone(Undone(c, e), e) = c
  BY StepCards
<1> QED
  BY <1>1, <1>2

----------------------------------------------------------------------------
(* UpdateCard *)

UpdateReasons == {"MOVE", "DECK_TOP", "POS_CHANGE", "SET"}

EditOf(m) ==
  [code |-> m.code,
   pos |-> IF m.type = "UpdateCard" /\ m.reason = "DECK_TOP" THEN KeepPos
                                                             ELSE m.position]

TopOf(b, place) == Place(place.con, place.loc, Len(GetPile(b, place)) - 1)

From(m, b) == IF m.reason = "DECK_TOP" THEN TopOf(b, m.previous) ELSE m.previous

To(m, b) == IF m.reason = "MOVE" THEN m.current ELSE From(m, b)

IsUpdate(m) ==
  /\ m.type = "UpdateCard" /\ m.reason \in UpdateReasons /\ EditOf(m) \in Edits
  /\ m.reason = "DECK_TOP" => PilePlace(m.previous) /\ m.previous.seq = 0
  /\ m.reason # "DECK_TOP" => EditOf(m).pos # KeepPos
  /\ m.reason = "MOVE" => ~SamePile(m.previous, m.current)

FitsUpdate(m, b) == IsUpdate(m) /\ Movable(b, From(m, b), To(m, b))

AfterUpdate(m, b) == IsUpdate(m) /\ Movable(b, To(m, b), From(m, b))

NewUpdate(m, b) ==
  Relocated(b, From(m, b), To(m, b), Done(GetCard(b, From(m, b)), EditOf(m)))

RedoUpdate(m, b) ==
  Relocated(b, From(m, b), To(m, b), Redone(GetCard(b, From(m, b)), EditOf(m)))

UndoUpdate(m, b) ==
  Relocated(b, To(m, b), From(m, b), Undone(GetCard(b, To(m, b)), EditOf(m)))

\* Both boards agree on the card that an UpdateCard is about.
LEMMA LiftedLength ==
  ASSUME NEW R, NEW b, NEW d, Lifted(R, b, d), NEW m, IsUpdate(m)
  PROVE  From(m, d) = From(m, b) /\ To(m, d) = To(m, b)
<1>1. CASE m.reason = "DECK_TOP"
  <2>1. Len(GetPile(b, m.previous)) = Len(GetPile(d, m.previous))
    BY <1>1 DEF IsUpdate, PilePlace, Lifted, SeqLifted, GetPile
  <2> QED
    BY <2>1 DEF From, To, TopOf
<1>2. CASE m.reason # "DECK_TOP"
  BY <1>2 DEF From, To
<1> QED
  BY <1>1, <1>2

\* And still do when it was moved.
LEMMA RelocatedLength ==
  ASSUME NEW b, IsBoard(b), NEW m, IsUpdate(m), Movable(b, From(m, b), To(m, b)),
         NEW x, NEW d, d = Relocated(b, From(m, b), To(m, b), x)
  PROVE  From(m, d) = From(m, b) /\ To(m, d) = To(m, b)
<1>1. CASE m.reason = "DECK_TOP"
  <2> PICK p : p = TopOf(b, m.previous)
    OBVIOUS
  <2> PICK s : s = GetPile(b, m.previous)
    OBVIOUS
  <2>1. /\ PilePlace(m.previous) /\ From(m, b) = p /\ To(m, b) = p
    BY <1>1 DEF IsUpdate, From, To
  <2>2. /\ p.con = m.previous.con /\ p.loc = m.previous.loc /\ IsPile(p)
        /\ p.seq = Len(s) - 1
    BY <2>1 DEF TopOf, Place, PilePlace, IsPile
  <2>3. GetPile(b, p) = s /\ IsSeq(s)
    BY <2>1, <2>2 DEF GetPile, PilePlace, IsBoard
  <2>4. Has(b, p) /\ PilePlace(p) /\ p.seq + 1 \in 1 .. Len(s)
    BY <2>1, <2>2, <2>3 DEF Movable, Has
  <2>5. d = SetCard(b, p, x)
    BY <2>1, <2>4, SetIsInsert DEF Relocated
  <2> PICK t : t = ReplaceAt(s, p.seq + 1, x)
    OBVIOUS
  <2>6. d = PutPile(b, p, t) /\ IsSeq(t) /\ Len(t) = Len(s)
    BY <2>2, <2>3, <2>4, <2>5, ReplacedSeq DEF SetCard
  <2>7. GetPile(d, p) = t
    BY <2>4, <2>6, PilePut
  <2>8. GetPile(d, m.previous) = t
    BY <2>2, <2>7 DEF GetPile
  <2> QED
    BY <2>6, <2>8 DEF From, To, TopOf
<1>2. CASE m.reason # "DECK_TOP"
  BY <1>2 DEF From, To
<1> QED
  BY <1>1, <1>2

\* A new UpdateCard can be undone, which leaves the board as it was but for
\* longer recordings (board.hpp:376-428).
LEMMA UpdateNew ==
  ASSUME NEW b, AllRecorded(b), NEW m, FitsUpdate(m, b), NEW d, d = NewUpdate(m, b)
  PROVE  AllRecorded(d) /\ AfterUpdate(m, d) /\ Lifted(Extends, b, UndoUpdate(m, d))
<1> PICK p : p = From(m, b)
  OBVIOUS
<1> PICK q : q = To(m, b)
  OBVIOUS
<1> PICK e \in Edits : e = EditOf(m)
  BY DEF FitsUpdate, IsUpdate
<1>1. Movable(b, p, q) /\ IsUpdate(m) /\ d = Relocated(b, p, q, Done(GetCard(b, p), e))
      /\ IsBoard(b)
  BY DEF FitsUpdate, NewUpdate, AllRecorded, Lifted
<1>2. From(m, d) = p /\ To(m, d) = q
  BY <1>1, RelocatedLength
<1>3. UndoUpdate(m, d) = Relocated(d, q, p, Undone(GetCard(d, q), e))
  BY <1>2 DEF UndoUpdate
<1> QED
  BY <1>1, <1>2, <1>3, RelocateNew DEF AfterUpdate

\* Undoing an UpdateCard on a board with longer recordings.
LEMMA UpdateUndo ==
  ASSUME NEW d, NEW d2, Lifted(Extends, d, d2), NEW m, AfterUpdate(m, d)
  PROVE  AfterUpdate(m, d2) /\ Lifted(Extends, UndoUpdate(m, d), UndoUpdate(m, d2))
<1> PICK p : p = From(m, d)
  OBVIOUS
<1> PICK q : q = To(m, d)
  OBVIOUS
<1> PICK e \in Edits : e = EditOf(m)
  BY DEF AfterUpdate, IsUpdate
<1>1. Movable(d, q, p) /\ IsUpdate(m)
  BY DEF AfterUpdate
<1>2. From(m, d2) = p /\ To(m, d2) = q
  BY <1>1, LiftedLength
<1>3. UndoUpdate(m, d) = Relocated(d, q, p, Undone(GetCard(d, q), e))
      /\ UndoUpdate(m, d2) = Relocated(d2, q, p, Undone(GetCard(d2, q), e))
  BY <1>2 DEF UndoUpdate
<1>4. Movable(d2, q, p)
  BY <1>1, LiftedMovable
<1> QED
  BY <1>1, <1>2, <1>3, <1>4, RelocateUndo DEF AfterUpdate

\* Redoing an UpdateCard that was undone.
LEMMA UpdateAgain ==
  ASSUME NEW d, AllRecorded(d), NEW m, AfterUpdate(m, d), NEW b, b = UndoUpdate(m, d)
  PROVE  FitsUpdate(m, b) /\ RedoUpdate(m, b) = d
<1> PICK p : p = From(m, d)
  OBVIOUS
<1> PICK q : q = To(m, d)
  OBVIOUS
<1> PICK e \in Edits : e = EditOf(m)
  BY DEF AfterUpdate, IsUpdate
<1>1. Movable(d, q, p) /\ IsUpdate(m) /\ IsBoard(d)
      /\ b = Relocated(d, q, p, Undone(GetCard(d, q), e))
  BY DEF AfterUpdate, UndoUpdate, AllRecorded, Lifted
<1>2. Movable(b, p, q) /\ Relocated(b, p, q, Redone(GetCard(b, p), e)) = d
  BY <1>1, RelocateAgain
<1>3. From(m, b) = p /\ To(m, b) = q
  <2>1. CASE m.reason = "DECK_TOP"
    <3> PICK x : x = Undone(GetCard(d, q), e)
      OBVIOUS
    <3>1. p = q /\ To(m, d) = From(m, d)
      BY <2>1 DEF From, To
    <3>2. Movable(d, From(m, d), To(m, d))
      BY <1>1, <3>1
    <3>3. b = Relocated(d, From(m, d), To(m, d), x)
      BY <1>1, <3>1
    <3>4. From(m, b) = From(m, d) /\ To(m, b) = To(m, d)
      BY <1>1, <3>2, <3>3, RelocatedLength
    <3> QED
      BY <3>4
  <2>2. CASE m.reason # "DECK_TOP"
    BY <2>2 DEF From, To
  <2> QED
    BY <2>1, <2>2
<1> QED
  BY <1>1, <1>2, <1>3 DEF FitsUpdate, RedoUpdate

\* What the table does.
PlainUpdate(m, t) ==
  Relocated(t, From(m, t), To(m, t), PlainBy(GetCard(t, From(m, t)), EditOf(m)))

\* A new UpdateCard shows on the board what it does to the table.
LEMMA UpdateShows ==
  ASSUME NEW b, NEW t, Lifted(ShowsLast, b, t), NEW m, FitsUpdate(m, b)
  PROVE  Lifted(ShowsLast, NewUpdate(m, b), PlainUpdate(m, t))
<1> PICK p : p = From(m, b)
  OBVIOUS
<1> PICK q : q = To(m, b)
  OBVIOUS
<1> PICK e \in Edits : e = EditOf(m)
  BY DEF FitsUpdate, IsUpdate
<1>1. Movable(b, p, q) /\ IsUpdate(m)
  BY DEF FitsUpdate
<1>2. From(m, t) = p /\ To(m, t) = q
  BY <1>1, LiftedLength
<1>3. <<GetCard(b, p), GetCard(t, p)>> \in ShowsLast
  BY <1>1, LiftedAt DEF Movable
<1>4. <<Done(GetCard(b, p), e), PlainBy(GetCard(t, p), e)>> \in ShowsLast
  BY <1>3, NewValueShows
<1>5. NewUpdate(m, b) = Relocated(b, p, q, Done(GetCard(b, p), e))
      /\ PlainUpdate(m, t) = Relocated(t, p, q, PlainBy(GetCard(t, p), e))
  BY <1>2 DEF NewUpdate, PlainUpdate
<1> QED
  BY <1>1, <1>4, <1>5, LiftedRelocated

----------------------------------------------------------------------------
(* The cards of a sequence, each with an edit of its own *)

DoneAll(s, e) == [i \in DOMAIN s |-> Done(s[i], e[i])]
RedoneAll(s, e) == [i \in DOMAIN s |-> Redone(s[i], e[i])]
UndoneAll(s, e) == [i \in DOMAIN s |-> Undone(s[i], e[i])]
PlainAll(s, e) == [i \in DOMAIN s |-> PlainBy(s[i], e[i])]

\* What an edit of every card of a sequence makes, index by index.
LEMMA AllForms ==
  ASSUME NEW s, IsSeq(s), NEW e
  PROVE  /\ IsSeq(DoneAll(s, e)) /\ Len(DoneAll(s, e)) = Len(s)
         /\ IsSeq(RedoneAll(s, e)) /\ Len(RedoneAll(s, e)) = Len(s)
         /\ IsSeq(UndoneAll(s, e)) /\ Len(UndoneAll(s, e)) = Len(s)
         /\ IsSeq(PlainAll(s, e)) /\ Len(PlainAll(s, e)) = Len(s)
         /\ \A i \in 1 .. Len(s) :
              /\ DoneAll(s, e)[i] = Done(s[i], e[i])
              /\ RedoneAll(s, e)[i] = Redone(s[i], e[i])
              /\ UndoneAll(s, e)[i] = Undone(s[i], e[i])
              /\ PlainAll(s, e)[i] = PlainBy(s[i], e[i])
<1>1. Len(s) \in Nat /\ DOMAIN s = 1 .. Len(s)
  BY SeqIsFunction
<1>2. /\ DoneAll(s, e) = [i \in 1 .. Len(s) |-> DoneAll(s, e)[i]]
      /\ \A i \in 1 .. Len(s) : DoneAll(s, e)[i] = Done(s[i], e[i])
  BY <1>1 DEF DoneAll
<1>3. /\ RedoneAll(s, e) = [i \in 1 .. Len(s) |-> RedoneAll(s, e)[i]]
      /\ \A i \in 1 .. Len(s) : RedoneAll(s, e)[i] = Redone(s[i], e[i])
  BY <1>1 DEF RedoneAll
<1>4. /\ UndoneAll(s, e) = [i \in 1 .. Len(s) |-> UndoneAll(s, e)[i]]
      /\ \A i \in 1 .. Len(s) : UndoneAll(s, e)[i] = Undone(s[i], e[i])
  BY <1>1 DEF UndoneAll
<1>5. /\ PlainAll(s, e) = [i \in 1 .. Len(s) |-> PlainAll(s, e)[i]]
      /\ \A i \in 1 .. Len(s) : PlainAll(s, e)[i] = PlainBy(s[i], e[i])
  BY <1>1 DEF PlainAll
<1>6. /\ IsSeq(DoneAll(s, e)) /\ Len(DoneAll(s, e)) = Len(s)
      /\ IsSeq(RedoneAll(s, e)) /\ Len(RedoneAll(s, e)) = Len(s)
  BY <1>1, <1>2, <1>3, FunctionIsSeq
<1>7. /\ IsSeq(UndoneAll(s, e)) /\ Len(UndoneAll(s, e)) = Len(s)
      /\ IsSeq(PlainAll(s, e)) /\ Len(PlainAll(s, e)) = Len(s)
  BY <1>1, <1>4, <1>5, FunctionIsSeq
<1> QED
  BY <1>2, <1>3, <1>4, <1>5, <1>6, <1>7

\* Redoing and undoing edits of a sequence cancel out.
LEMMA StepAll ==
  ASSUME NEW s, SeqLifted(Extends, s, s), NEW e, \A i \in 1 .. Len(s) : e[i] \in Edits
  PROVE  /\ SeqLifted(Extends, DoneAll(s, e), DoneAll(s, e))
         /\ SeqLifted(Extends, s, UndoneAll(DoneAll(s, e), e))
         /\ RedoneAll(UndoneAll(s, e), e) = s
<1> PICK d : d = DoneAll(s, e)
  OBVIOUS
<1> PICK u : u = UndoneAll(s, e)
  OBVIOUS
<1>1. IsSeq(s) /\ Len(s) \in Nat
  BY SeqIsFunction DEF SeqLifted
<1>2. /\ IsSeq(d) /\ Len(d) = Len(s) /\ \A i \in 1 .. Len(s) : d[i] = Done(s[i], e[i])
      /\ IsSeq(u) /\ Len(u) = Len(s) /\ \A i \in 1 .. Len(s) : u[i] = Undone(s[i], e[i])
  BY <1>1, AllForms
<1>3. \A i \in 1 .. Len(s) : s[i] \in RecordedCards
  BY ExtendsFacts DEF SeqLifted
<1>4. /\ IsSeq(UndoneAll(d, e)) /\ Len(UndoneAll(d, e)) = Len(s)
      /\ \A i \in 1 .. Len(s) : UndoneAll(d, e)[i] = Undone(Done(s[i], e[i]), e[i])
  BY <1>1, <1>2, AllForms
<1>5. SeqLifted(Extends, s, UndoneAll(d, e))
  BY <1>1, <1>3, <1>4, StepCards DEF SeqLifted
<1>6. SeqLifted(Extends, d, d)
  BY <1>1, <1>2, <1>3, StepCards DEF SeqLifted
<1>7. /\ IsSeq(RedoneAll(u, e)) /\ Len(RedoneAll(u, e)) = Len(s)
      /\ \A i \in 1 .. Len(s) : RedoneAll(u, e)[i] = Redone(Undone(s[i], e[i]), e[i])
  BY <1>1, <1>2, AllForms
<1>8. \A i \in 1 .. Len(s) : RedoneAll(u, e)[i] = s[i]
  BY <1>3, <1>7, StepCards
<1>9. RedoneAll(u, e) = s
  BY <1>1, <1>7, <1>8, SameSeq
<1> QED
  BY <1>5, <1>6, <1>9

\* Undoing edits of a sequence with longer recordings.
LEMMA UndoAll ==
  ASSUME NEW s, NEW t, SeqLifted(Extends, s, t), NEW e,
         \A i \in 1 .. Len(s) : e[i] \in Edits
  PROVE  SeqLifted(Extends, UndoneAll(s, e), UndoneAll(t, e))
<1>1. IsSeq(s) /\ IsSeq(t) /\ Len(t) = Len(s)
      /\ \A i \in 1 .. Len(s) : <<s[i], t[i]>> \in Extends
  BY DEF SeqLifted
<1>2. /\ IsSeq(UndoneAll(s, e)) /\ Len(UndoneAll(s, e)) = Len(s)
      /\ \A i \in 1 .. Len(s) : UndoneAll(s, e)[i] = Undone(s[i], e[i])
  BY <1>1, AllForms
<1>3. /\ IsSeq(UndoneAll(t, e)) /\ Len(UndoneAll(t, e)) = Len(s)
      /\ \A i \in 1 .. Len(s) : UndoneAll(t, e)[i] = Undone(t[i], e[i])
  BY <1>1, AllForms
<1>4. \A i \in 1 .. Len(s) : <<Undone(s[i], e[i]), Undone(t[i], e[i])>> \in Extends
  BY <1>1, ExtendsFacts
<1> QED
  BY <1>2, <1>3, <1>4 DEF SeqLifted

\* New values on every card of a sequence are what the cards then show.
LEMMA ShowAll ==
  ASSUME NEW s, NEW t, SeqLifted(ShowsLast, s, t), NEW e,
         \A i \in 1 .. Len(s) : e[i] \in Edits
  PROVE  SeqLifted(ShowsLast, DoneAll(s, e), PlainAll(t, e))
<1>1. IsSeq(s) /\ IsSeq(t) /\ Len(t) = Len(s)
      /\ \A i \in 1 .. Len(s) : <<s[i], t[i]>> \in ShowsLast
  BY DEF SeqLifted
<1>2. /\ IsSeq(DoneAll(s, e)) /\ Len(DoneAll(s, e)) = Len(s)
      /\ \A i \in 1 .. Len(s) : DoneAll(s, e)[i] = Done(s[i], e[i])
  BY <1>1, AllForms
<1>3. /\ IsSeq(PlainAll(t, e)) /\ Len(PlainAll(t, e)) = Len(s)
      /\ \A i \in 1 .. Len(s) : PlainAll(t, e)[i] = PlainBy(t[i], e[i])
  BY <1>1, AllForms
<1>4. \A i \in 1 .. Len(s) : <<Done(s[i], e[i]), PlainBy(t[i], e[i])>> \in ShowsLast
  BY <1>1, NewValueShows
<1> QED
  BY <1>2, <1>3, <1>4 DEF SeqLifted

----------------------------------------------------------------------------
(* The top of a pile *)

\* A sequence cut in two at index a.
LEMMA SegmentAt ==
  ASSUME NEW s, IsSeq(s), NEW k \in Nat, Len(s) = k, NEW a \in Nat, a <= k
  PROVE  /\ IsSeq(SubSeq(s, 1, a)) /\ Len(SubSeq(s, 1, a)) = a
         /\ \A i \in 1 .. a : SubSeq(s, 1, a)[i] = s[i]
         /\ IsSeq(SubSeq(s, a + 1, k)) /\ Len(SubSeq(s, a + 1, k)) = k - a
         /\ \A i \in 1 .. k - a : SubSeq(s, a + 1, k)[i] = s[a + i]
<1>1. Len(s) \in Nat
  BY SeqIsFunction
<1>2. /\ IsSeq(SubSeq(s, 1, a)) /\ Len(SubSeq(s, 1, a)) = a
      /\ \A i \in 1 .. a : SubSeq(s, 1, a)[i] = s[i]
  <2> PICK c : c = 1
    OBVIOUS
  <2>1. c \in 1 .. Len(s) + 1 /\ a \in c - 1 .. Len(s)
    BY <1>1
  <2>2. /\ IsSeq(SubSeq(s, c, a)) /\ Len(SubSeq(s, c, a)) = a - c + 1
        /\ \A i \in 1 .. a - c + 1 : SubSeq(s, c, a)[i] = s[c + i - 1]
    BY <2>1, Segment
  <2>3. a - c + 1 = a /\ \A i \in 1 .. a : c + i - 1 = i
    OBVIOUS
  <2> QED
    BY <2>2, <2>3
<1>3. /\ IsSeq(SubSeq(s, a + 1, k)) /\ Len(SubSeq(s, a + 1, k)) = k - a
      /\ \A i \in 1 .. k - a : SubSeq(s, a + 1, k)[i] = s[a + i]
  <2> PICK c \in Nat : a + 1 = c
    OBVIOUS
  <2>1. c \in 1 .. Len(s) + 1 /\ k \in c - 1 .. Len(s)
    BY <1>1
  <2>2. /\ IsSeq(SubSeq(s, c, k)) /\ Len(SubSeq(s, c, k)) = k - c + 1
        /\ \A i \in 1 .. k - c + 1 : SubSeq(s, c, k)[i] = s[c + i - 1]
    BY <2>1, Segment
  <2>3. k - c + 1 = k - a /\ \A i \in 1 .. k - a : c + i - 1 = a + i
    OBVIOUS
  <2> QED
    BY <2>2, <2>3
<1> QED
  BY <1>2, <1>3

\* What Reverse does, index by index.
LEMMA Reversed ==
  ASSUME NEW s, IsSeq(s)
  PROVE  /\ IsSeq(Reverse(s)) /\ Len(Reverse(s)) = Len(s)
         /\ \A i \in 1 .. Len(s) : Reverse(s)[i] = s[Len(s) + 1 - i]
<1>1. Len(s) \in Nat
  BY SeqIsFunction
<1> PICK n \in Nat : Len(s) = n
  BY <1>1
<1> PICK r : r = Reverse(s)
  OBVIOUS
<1>2. r = [i \in 1 .. n |-> s[(n - i) + 1]]
  BY DEF Reverse
<1>3. r = [i \in 1 .. n |-> r[i]]
  BY <1>2
<1>4. IsSeq(r) /\ Len(r) = n
  BY <1>3, FunctionIsSeq
<1>5. \A i \in 1 .. n : r[i] = s[n + 1 - i]
  <2> TAKE i \in 1 .. n
  <2>1. (n - i) + 1 = n + 1 - i
    OBVIOUS
  <2> QED
    BY <1>2, <2>1
<1> QED
  BY <1>4, <1>5

\* Reversing twice changes nothing.
LEMMA ReversedTwice ==
  ASSUME NEW s, IsSeq(s)
  PROVE  Reverse(Reverse(s)) = s
<1> PICK r : r = Reverse(s)
  OBVIOUS
<1> PICK q : q = Reverse(r)
  OBVIOUS
<1> PICK n \in Nat : Len(s) = n
  BY SeqIsFunction
<1>1. /\ IsSeq(r) /\ Len(r) = n /\ \A i \in 1 .. n : r[i] = s[n + 1 - i]
      /\ IsSeq(q) /\ Len(q) = n
  BY Reversed
<1>2. \A i \in 1 .. n : q[i] = r[n + 1 - i]
  <2>1. IsSeq(r) /\ Len(r) = n
    BY <1>1
  <2> QED
    BY <2>1, Reversed
<1>3. ASSUME NEW i \in 1 .. n
      PROVE  q[i] = s[i]
  <2> PICK j \in 1 .. n : n + 1 - i = j
    OBVIOUS
  <2>1. q[i] = r[j] /\ r[j] = s[n + 1 - j] /\ n + 1 - j = i
    BY <1>1, <1>2
  <2> QED
    BY <2>1
<1> QED
  BY <1>1, <1>3, SameSeq

\* A pile taken apart.
LEMMA TopTaken ==
  ASSUME NEW s, IsSeq(s), NEW k \in Nat, Len(s) = k, NEW n \in 0 .. k
  PROVE  /\ IsSeq(WithoutTop(s, n)) /\ Len(WithoutTop(s, n)) = k - n
         /\ \A i \in 1 .. k - n : WithoutTop(s, n)[i] = s[i]
         /\ IsSeq(TopCards(s, n)) /\ Len(TopCards(s, n)) = n
         /\ \A i \in 1 .. n : TopCards(s, n)[i] = s[k + 1 - i]
         /\ WithoutTop(s, n) \o Reverse(TopCards(s, n)) = s
<1> PICK a \in Nat : k - n = a
  OBVIOUS
<1>0. k - a = n /\ a <= k
  OBVIOUS
<1>1. /\ IsSeq(SubSeq(s, 1, a)) /\ Len(SubSeq(s, 1, a)) = a
      /\ \A i \in 1 .. a : SubSeq(s, 1, a)[i] = s[i]
      /\ IsSeq(SubSeq(s, a + 1, k)) /\ Len(SubSeq(s, a + 1, k)) = n
      /\ \A i \in 1 .. n : SubSeq(s, a + 1, k)[i] = s[a + i]
  BY <1>0, SegmentAt
<1> PICK w : SubSeq(s, 1, a) = w
  OBVIOUS
<1> PICK u : SubSeq(s, a + 1, k) = u
  OBVIOUS
<1>2. w = WithoutTop(s, n) /\ TopCards(s, n) = Reverse(u)
  BY DEF WithoutTop, TopCards
<1>3. /\ IsSeq(w) /\ Len(w) = a /\ \A i \in 1 .. a : w[i] = s[i]
      /\ IsSeq(u) /\ Len(u) = n /\ \A i \in 1 .. n : u[i] = s[a + i]
  BY <1>1
<1>4. /\ IsSeq(Reverse(u)) /\ Len(Reverse(u)) = n
      /\ \A i \in 1 .. n : Reverse(u)[i] = u[n + 1 - i]
  <2>1. IsSeq(u)
    BY <1>3
  <2>2. /\ IsSeq(Reverse(u)) /\ Len(Reverse(u)) = Len(u)
        /\ \A i \in 1 .. Len(u) : Reverse(u)[i] = u[Len(u) + 1 - i]
    BY <2>1, Reversed
  <2> QED
    BY <1>3, <2>2
<1>5. ASSUME NEW i \in 1 .. n
      PROVE  Reverse(u)[i] = s[k + 1 - i]
  <2> PICK j \in 1 .. n : n + 1 - i = j
    OBVIOUS
  <2>1. a + j = k + 1 - i
    OBVIOUS
  <2> QED
    BY <1>3, <1>4, <2>1
<1>6. w \o u = s
  <2> PICK v : v = w \o u
    OBVIOUS
  <2>1. k = a + Len(u) /\ Len(w) = a
    BY <1>3
  <2>2. IsSeq(v) /\ Len(v) = k /\ \A i \in 1 .. k : v[i] = IF i <= a THEN w[i] ELSE u[i - a]
    <3>1. IsSeq(w) /\ IsSeq(u)
      BY <1>3
    <3> QED
      BY <2>1, <3>1, JoinedAt
  <2>3. ASSUME NEW i \in 1 .. k
        PROVE  v[i] = s[i]
    <3>1. CASE i <= a
      BY <1>3, <2>2, <3>1
    <3>2. CASE ~(i <= a)
      <4> PICK j \in 1 .. n : i - a = j
        BY <3>2
      <4>1. a + j = i
        OBVIOUS
      <4> QED
        BY <1>3, <2>2, <3>2, <4>1
    <3> QED
      BY <3>1, <3>2
  <2> QED
    BY <2>2, <2>3, SameSeq
<1>7. Reverse(TopCards(s, n)) = u
  BY <1>2, <1>3, ReversedTwice
<1> QED
  BY <1>2, <1>3, <1>4, <1>5, <1>6, <1>7

\* A pile put together.
LEMMA TopPut ==
  ASSUME NEW s, IsSeq(s), NEW t, IsSeq(t), NEW n \in Nat, Len(t) = n, NEW u, u = s \o t
  PROVE  /\ IsSeq(u) /\ Len(u) \in Nat /\ n <= Len(u)
         /\ WithoutTop(u, n) = s
         /\ TopCards(u, n) = Reverse(t)
<1>0. Len(s) \in Nat
  BY SeqIsFunction
<1> PICK a \in Nat : Len(s) = a
  BY <1>0
<1> PICK k \in Nat : a + n = k
  OBVIOUS
<1>1. k = a + Len(t)
  OBVIOUS
<1>2. IsSeq(u) /\ Len(u) = k /\ \A i \in 1 .. k : u[i] = IF i <= a THEN s[i] ELSE t[i - a]
  BY <1>1, JoinedAt
<1>3. n \in 0 .. k /\ Len(u) = k
  BY <1>2
<1>4. /\ IsSeq(WithoutTop(u, n)) /\ Len(WithoutTop(u, n)) = k - n
      /\ \A i \in 1 .. k - n : WithoutTop(u, n)[i] = u[i]
      /\ IsSeq(TopCards(u, n)) /\ Len(TopCards(u, n)) = n
      /\ \A i \in 1 .. n : TopCards(u, n)[i] = u[k + 1 - i]
  <2>1. IsSeq(u) /\ Len(u) = k
    BY <1>2
  <2> QED
    BY <1>3, <2>1, TopTaken, ZenonT(60)
<1>5. WithoutTop(u, n) = s
  <2>1. k - n = a /\ Len(WithoutTop(u, n)) = Len(s)
        /\ \A i \in 1 .. a : WithoutTop(u, n)[i] = s[i]
    BY <1>2, <1>4
  <2> QED
    BY <1>4, <2>1, SameSeq
<1>6. TopCards(u, n) = Reverse(t)
  <2>1. IsSeq(Reverse(t)) /\ Len(Reverse(t)) = n
        /\ \A i \in 1 .. n : Reverse(t)[i] = t[n + 1 - i]
    BY Reversed
  <2>2. ASSUME NEW i \in 1 .. n
        PROVE  TopCards(u, n)[i] = Reverse(t)[i]
    <3> PICK j \in 1 .. k : k + 1 - i = j
      OBVIOUS
    <3>1. ~(j <= a) /\ j - a = n + 1 - i
      OBVIOUS
    <3> QED
      BY <1>2, <1>4, <2>1, <3>1
  <2> QED
    BY <1>4, <2>1, <2>2, SameSeq
<1> QED
  BY <1>2, <1>3, <1>5, <1>6

\* The same, with the length of the top not named.
LEMMA TopJoined ==
  ASSUME NEW s, IsSeq(s), NEW t, IsSeq(t)
  PROVE  /\ IsSeq(s \o t) /\ Len(t) \in Nat /\ Len(t) <= Len(s \o t)
         /\ WithoutTop(s \o t, Len(t)) = s
         /\ TopCards(s \o t, Len(t)) = Reverse(t)
<1>1. Len(t) \in Nat
  BY SeqIsFunction
<1> QED
  BY <1>1, TopPut

\* The tops of two piles with related cards, and what is below them.
LEMMA LiftedTop ==
  ASSUME NEW R, NEW s, NEW t, SeqLifted(R, s, t),
         NEW k \in Nat, Len(s) = k, NEW n \in 0 .. k
  PROVE  /\ SeqLifted(R, WithoutTop(s, n), WithoutTop(t, n))
         /\ SeqLifted(R, TopCards(s, n), TopCards(t, n))
<1>1. IsSeq(s) /\ IsSeq(t) /\ Len(t) = k /\ \A i \in 1 .. k : <<s[i], t[i]>> \in R
  BY DEF SeqLifted
<1>2. /\ IsSeq(WithoutTop(s, n)) /\ Len(WithoutTop(s, n)) = k - n
      /\ \A i \in 1 .. k - n : WithoutTop(s, n)[i] = s[i]
      /\ IsSeq(TopCards(s, n)) /\ Len(TopCards(s, n)) = n
      /\ \A i \in 1 .. n : TopCards(s, n)[i] = s[k + 1 - i]
  BY <1>1, TopTaken
<1>3. /\ IsSeq(WithoutTop(t, n)) /\ Len(WithoutTop(t, n)) = k - n
      /\ \A i \in 1 .. k - n : WithoutTop(t, n)[i] = t[i]
      /\ IsSeq(TopCards(t, n)) /\ Len(TopCards(t, n)) = n
      /\ \A i \in 1 .. n : TopCards(t, n)[i] = t[k + 1 - i]
  BY <1>1, TopTaken
<1>4. \A i \in 1 .. k - n : <<WithoutTop(s, n)[i], WithoutTop(t, n)[i]>> \in R
  BY <1>1, <1>2, <1>3
<1>5. \A i \in 1 .. n : <<TopCards(s, n)[i], TopCards(t, n)[i]>> \in R
  <2> TAKE i \in 1 .. n
  <2>1. k + 1 - i \in 1 .. k
    OBVIOUS
  <2> QED
    BY <1>1, <1>2, <1>3, <2>1
<1> QED
  BY <1>2, <1>3, <1>4, <1>5 DEF SeqLifted

\* Two sequences with related cards are reversed.
LEMMA LiftedReverse ==
  ASSUME NEW R, NEW s, NEW t, SeqLifted(R, s, t)
  PROVE  SeqLifted(R, Reverse(s), Reverse(t))
<1> PICK k \in Nat : Len(s) = k
  BY SeqIsFunction DEF SeqLifted
<1>1. /\ IsSeq(s) /\ IsSeq(t) /\ Len(t) = k /\ \A i \in 1 .. k : <<s[i], t[i]>> \in R
  BY DEF SeqLifted
<1>2. /\ IsSeq(Reverse(s)) /\ Len(Reverse(s)) = k
      /\ \A i \in 1 .. k : Reverse(s)[i] = s[k + 1 - i]
  BY <1>1, Reversed
<1>3. /\ IsSeq(Reverse(t)) /\ Len(Reverse(t)) = k
      /\ \A i \in 1 .. k : Reverse(t)[i] = t[k + 1 - i]
  BY <1>1, Reversed
<1>4. \A i \in 1 .. k : k + 1 - i \in 1 .. k
  OBVIOUS
<1> QED
  BY <1>1, <1>2, <1>3, <1>4 DEF SeqLifted

\* Sequences with related cards are joined.
LEMMA LiftedJoined ==
  ASSUME NEW R, NEW s, NEW t, SeqLifted(R, s, t), NEW u, NEW v, SeqLifted(R, u, v)
  PROVE  SeqLifted(R, s \o u, t \o v)
<1> PICK a \in Nat : Len(s) = a
  BY SeqIsFunction DEF SeqLifted
<1> PICK c \in Nat : Len(u) = c
  BY SeqIsFunction DEF SeqLifted
<1> PICK k \in Nat : a + c = k
  OBVIOUS
<1>1. /\ IsSeq(s) /\ IsSeq(t) /\ Len(t) = a /\ \A i \in 1 .. a : <<s[i], t[i]>> \in R
      /\ IsSeq(u) /\ IsSeq(v) /\ Len(v) = c /\ \A i \in 1 .. c : <<u[i], v[i]>> \in R
  BY DEF SeqLifted
<1>2. /\ IsSeq(s \o u) /\ Len(s \o u) = k
      /\ \A i \in 1 .. k : (s \o u)[i] = IF i <= a THEN s[i] ELSE u[i - a]
  BY <1>1, JoinedAt
<1>3. /\ IsSeq(t \o v) /\ Len(t \o v) = k
      /\ \A i \in 1 .. k : (t \o v)[i] = IF i <= a THEN t[i] ELSE v[i - a]
  BY <1>1, JoinedAt
<1>4. \A i \in 1 .. k : IF i <= a THEN i \in 1 .. a ELSE i - a \in 1 .. c
  OBVIOUS
<1> QED
  BY <1>1, <1>2, <1>3, <1>4 DEF SeqLifted

----------------------------------------------------------------------------
(* Two piles are replaced *)

TwoPiles(b, p, q, s, t) == PutPile(PutPile(b, p, s), q, t)

\* What the replacement of two piles makes.
LEMMA TwoPut ==
  ASSUME NEW b, IsBoard(b), NEW p, PilePlace(p), NEW q, PilePlace(q), ~SamePile(p, q),
         NEW s, IsSeq(s), NEW t, IsSeq(t)
  PROVE  /\ IsBoard(TwoPiles(b, p, q, s, t))
         /\ GetPile(TwoPiles(b, p, q, s, t), p) = s
         /\ GetPile(TwoPiles(b, p, q, s, t), q) = t
         /\ TwoPiles(b, p, q, s, t).zones = b.zones
         /\ \A con \in Players, loc \in PileLocations :
              TwoPiles(b, p, q, s, t).piles[con][loc] =
                IF con = q.con /\ loc = q.loc THEN t
                ELSE IF con = p.con /\ loc = p.loc THEN s ELSE b.piles[con][loc]
<1> PICK c : c = PutPile(b, p, s)
  OBVIOUS
<1> PICK d : d = PutPile(c, q, t)
  OBVIOUS
<1>1. /\ IsBoard(c) /\ c.zones = b.zones
      /\ \A con \in Players, loc \in PileLocations :
           c.piles[con][loc] = IF con = p.con /\ loc = p.loc THEN s ELSE b.piles[con][loc]
  BY PilePut
<1>2. /\ IsBoard(d) /\ d.zones = c.zones /\ GetPile(d, q) = t
      /\ \A con \in Players, loc \in PileLocations :
           d.piles[con][loc] = IF con = q.con /\ loc = q.loc THEN t ELSE c.piles[con][loc]
  <2>1. IsBoard(c)
    BY <1>1
  <2> QED
    BY <2>1, PilePut, SMTT(30)
<1>3. d = TwoPiles(b, p, q, s, t)
  BY DEF TwoPiles
<1>4. ~(p.con = q.con /\ p.loc = q.loc) /\ p.con \in Players /\ p.loc \in PileLocations
  BY DEF SamePile, PilePlace
<1>5. GetPile(d, p) = s
  BY <1>1, <1>2, <1>4 DEF GetPile
<1> QED
  BY <1>1, <1>2, <1>3, <1>5

\* Of two such replacements the later one stays.
LEMMA TwoPutAgain ==
  ASSUME NEW b, IsBoard(b), NEW p, PilePlace(p), NEW q, PilePlace(q), ~SamePile(p, q),
         NEW s, IsSeq(s), NEW t, IsSeq(t), NEW u, IsSeq(u), NEW v, IsSeq(v)
  PROVE  TwoPiles(TwoPiles(b, p, q, s, t), p, q, u, v) = TwoPiles(b, p, q, u, v)
<1> PICK c : c = TwoPiles(b, p, q, s, t)
  OBVIOUS
<1> PICK d : d = TwoPiles(c, p, q, u, v)
  OBVIOUS
<1> PICK e : e = TwoPiles(b, p, q, u, v)
  OBVIOUS
<1>1. /\ IsBoard(c) /\ c.zones = b.zones
      /\ \A con \in Players, loc \in PileLocations :
           c.piles[con][loc] = IF con = q.con /\ loc = q.loc THEN t
                               ELSE IF con = p.con /\ loc = p.loc THEN s
                               ELSE b.piles[con][loc]
  BY TwoPut
<1>2. /\ IsBoard(d) /\ d.zones = b.zones
      /\ \A con \in Players, loc \in PileLocations :
           d.piles[con][loc] = IF con = q.con /\ loc = q.loc THEN v
                               ELSE IF con = p.con /\ loc = p.loc THEN u
                               ELSE c.piles[con][loc]
  <2>1. IsBoard(c)
    BY <1>1
  <2> QED
    BY <2>1, TwoPut, SMTT(30)
<1>3. /\ IsBoard(e) /\ e.zones = b.zones
      /\ \A con \in Players, loc \in PileLocations :
           e.piles[con][loc] = IF con = q.con /\ loc = q.loc THEN v
                               ELSE IF con = p.con /\ loc = p.loc THEN u
                               ELSE b.piles[con][loc]
  BY TwoPut
<1>4. \A con \in Players, loc \in PileLocations : d.piles[con][loc] = e.piles[con][loc]
  BY <1>1, <1>2, <1>3
<1>5. d = e
  BY <1>2, <1>3, <1>4, SameBoard
<1> QED
  BY <1>5

\* Replacing two piles by themselves changes nothing.
LEMMA TwoPutBack ==
  ASSUME NEW b, IsBoard(b), NEW p, PilePlace(p), NEW q, PilePlace(q), ~SamePile(p, q)
  PROVE  TwoPiles(b, p, q, GetPile(b, p), GetPile(b, q)) = b
<1> PICK s : GetPile(b, p) = s
  OBVIOUS
<1> PICK t : GetPile(b, q) = t
  OBVIOUS
<1>1. IsSeq(s) /\ IsSeq(t)
  BY DEF IsBoard, PilePlace, GetPile
<1> PICK d : d = TwoPiles(b, p, q, s, t)
  OBVIOUS
<1>2. /\ IsBoard(d) /\ d.zones = b.zones
      /\ \A con \in Players, loc \in PileLocations :
           d.piles[con][loc] = IF con = q.con /\ loc = q.loc THEN t
                               ELSE IF con = p.con /\ loc = p.loc THEN s
                               ELSE b.piles[con][loc]
  BY <1>1, TwoPut
<1>3. \A con \in Players, loc \in PileLocations : d.piles[con][loc] = b.piles[con][loc]
  BY <1>2 DEF GetPile
<1>4. d = b
  BY <1>2, <1>3, SameBoard
<1> QED
  BY <1>4

\* Two piles of each board are replaced.
LEMMA LiftedTwo ==
  ASSUME NEW R, NEW b, NEW d, Lifted(R, b, d), NEW p, PilePlace(p), NEW q, PilePlace(q),
         NEW s, NEW t, SeqLifted(R, s, t), NEW u, NEW v, SeqLifted(R, u, v)
  PROVE  Lifted(R, TwoPiles(b, p, q, s, u), TwoPiles(d, p, q, t, v))
<1> PICK b1 : PutPile(b, p, s) = b1
  OBVIOUS
<1> PICK d1 : PutPile(d, p, t) = d1
  OBVIOUS
<1>1. Lifted(R, b1, d1)
  BY LiftedPut
<1>2. Lifted(R, PutPile(b1, q, u), PutPile(d1, q, v))
  BY <1>1, LiftedPut
<1> QED
  BY <1>2 DEF TwoPiles

\* The piles of two boards have related cards.
LEMMA LiftedPile ==
  ASSUME NEW R, NEW b, NEW d, Lifted(R, b, d), NEW p, PilePlace(p)
  PROVE  SeqLifted(R, GetPile(b, p), GetPile(d, p))
BY DEF Lifted, PilePlace, GetPile

----------------------------------------------------------------------------
(* Draw *)

DeckOf(m) == Place(m.player, "DECK", 0)
HandOf(m) == Place(m.player, "HAND", 0)

CodeEdits(codes) == [i \in 1 .. Len(codes) |-> [code |-> codes[i], pos |-> KeepPos]]

AreCodes(codes) ==
  IsSeq(codes) /\ Len(codes) \in Nat /\ \A i \in 1 .. Len(codes) : codes[i] \in Nat

IsDraw(m) == m.type = "Draw" /\ m.player \in Players /\ AreCodes(m.codes)

FitsDraw(m, b) == IsDraw(m) /\ Len(m.codes) <= Len(GetPile(b, DeckOf(m)))

AfterDraw(m, b) == IsDraw(m) /\ Len(m.codes) <= Len(GetPile(b, HandOf(m)))

NewDraw(m, b) ==
  TwoPiles(b, DeckOf(m), HandOf(m), WithoutTop(GetPile(b, DeckOf(m)), Len(m.codes)),
    GetPile(b, HandOf(m)) \o
      DoneAll(TopCards(GetPile(b, DeckOf(m)), Len(m.codes)), CodeEdits(m.codes)))

RedoDraw(m, b) ==
  TwoPiles(b, DeckOf(m), HandOf(m), WithoutTop(GetPile(b, DeckOf(m)), Len(m.codes)),
    GetPile(b, HandOf(m)) \o
      RedoneAll(TopCards(GetPile(b, DeckOf(m)), Len(m.codes)), CodeEdits(m.codes)))

UndoDraw(m, b) ==
  TwoPiles(b, DeckOf(m), HandOf(m),
    GetPile(b, DeckOf(m)) \o
      UndoneAll(TopCards(GetPile(b, HandOf(m)), Len(m.codes)), CodeEdits(m.codes)),
    WithoutTop(GetPile(b, HandOf(m)), Len(m.codes)))

PlainDraw(m, t) ==
  TwoPiles(t, DeckOf(m), HandOf(m), WithoutTop(GetPile(t, DeckOf(m)), Len(m.codes)),
    GetPile(t, HandOf(m)) \o
      PlainAll(TopCards(GetPile(t, DeckOf(m)), Len(m.codes)), CodeEdits(m.codes)))

\* Deck and hand are two piles.
LEMMA DrawPiles ==
  ASSUME NEW m, IsDraw(m)
  PROVE  PilePlace(DeckOf(m)) /\ PilePlace(HandOf(m)) /\ ~SamePile(DeckOf(m), HandOf(m))
BY DEF IsDraw, DeckOf, HandOf, Place, PilePlace, SamePile, IsPile, PileLocations,
       FieldLocations

\* A code that is revealed is an edit that keeps the position.
LEMMA CodesAreEdits ==
  ASSUME NEW codes, AreCodes(codes)
  PROVE  \A i \in 1 .. Len(codes) :
           CodeEdits(codes)[i] \in Edits /\ CodeEdits(codes)[i].pos = KeepPos
BY DEF AreCodes, CodeEdits, Edits

\* What undoing and redoing do does not depend on the codes, so it does not
\* matter in which order they come.
LEMMA ReversedSteps ==
  ASSUME NEW s, IsSeq(s), NEW codes, AreCodes(codes), Len(s) = Len(codes)
  PROVE  /\ UndoneAll(Reverse(s), CodeEdits(codes)) =
              Reverse(UndoneAll(s, CodeEdits(codes)))
         /\ RedoneAll(Reverse(s), CodeEdits(codes)) =
              Reverse(RedoneAll(s, CodeEdits(codes)))
<1>0. Len(codes) \in Nat /\ Len(s) \in Nat
  BY SeqIsFunction DEF AreCodes
<1> PICK n \in Nat : Len(codes) = n
  BY <1>0
<1> PICK e : CodeEdits(codes) = e
  OBVIOUS
<1>1. \A i \in 1 .. n : e[i].pos = KeepPos
  BY CodesAreEdits
<1>2. \A c : \A i \in 1 .. n, j \in 1 .. n :
        Undone(c, e[i]) = Undone(c, e[j]) /\ Redone(c, e[i]) = Redone(c, e[j])
  BY <1>1 DEF Undone, Redone
<1>3. /\ IsSeq(Reverse(s)) /\ Len(Reverse(s)) = n
      /\ \A i \in 1 .. n : Reverse(s)[i] = s[n + 1 - i]
  BY Reversed
<1> PICK u : UndoneAll(s, e) = u
  OBVIOUS
<1> PICK r : RedoneAll(s, e) = r
  OBVIOUS
<1>4. /\ IsSeq(u) /\ Len(u) = n /\ \A i \in 1 .. n : u[i] = Undone(s[i], e[i])
      /\ IsSeq(r) /\ Len(r) = n /\ \A i \in 1 .. n : r[i] = Redone(s[i], e[i])
  BY AllForms
<1>5. /\ IsSeq(Reverse(u)) /\ Len(Reverse(u)) = n
      /\ \A i \in 1 .. n : Reverse(u)[i] = u[n + 1 - i]
      /\ IsSeq(Reverse(r)) /\ Len(Reverse(r)) = n
      /\ \A i \in 1 .. n : Reverse(r)[i] = r[n + 1 - i]
  BY <1>4, Reversed
<1> PICK q : Reverse(s) = q
  OBVIOUS
<1>6. /\ IsSeq(UndoneAll(q, e)) /\ Len(UndoneAll(q, e)) = n
      /\ \A i \in 1 .. n : UndoneAll(q, e)[i] = Undone(q[i], e[i])
      /\ IsSeq(RedoneAll(q, e)) /\ Len(RedoneAll(q, e)) = n
      /\ \A i \in 1 .. n : RedoneAll(q, e)[i] = Redone(q[i], e[i])
  BY <1>3, AllForms
<1>7. ASSUME NEW i \in 1 .. n
      PROVE  UndoneAll(q, e)[i] = Reverse(u)[i] /\ RedoneAll(q, e)[i] = Reverse(r)[i]
  <2> PICK j \in 1 .. n : n + 1 - i = j
    OBVIOUS
  <2>1. q[i] = s[j] /\ Reverse(u)[i] = u[j] /\ Reverse(r)[i] = r[j]
    BY <1>3, <1>5
  <2>2. u[j] = Undone(s[j], e[j]) /\ r[j] = Redone(s[j], e[j])
    BY <1>4
  <2>3. UndoneAll(q, e)[i] = Undone(s[j], e[i]) /\ RedoneAll(q, e)[i] = Redone(s[j], e[i])
    BY <1>6, <2>1
  <2> PICK c : s[j] = c
    OBVIOUS
  <2>4. Undone(c, e[i]) = Undone(c, e[j]) /\ Redone(c, e[i]) = Redone(c, e[j])
    BY <1>2
  <2> QED
    BY <2>1, <2>2, <2>3, <2>4
<1>8. UndoneAll(q, e) = Reverse(u)
  BY <1>5, <1>6, <1>7, SameSeq
<1>9. RedoneAll(q, e) = Reverse(r)
  BY <1>5, <1>6, <1>7, SameSeq
<1> QED
  BY <1>8, <1>9

\* A new Draw can be undone, which leaves the board as it was but for longer
\* recordings: the cards come back to the deck in the order in which they lay
\* (board.hpp:540-562).
LEMMA DrawNew ==
  ASSUME NEW b, AllRecorded(b), NEW m, FitsDraw(m, b), NEW d, d = NewDraw(m, b)
  PROVE  AllRecorded(d) /\ AfterDraw(m, d) /\ Lifted(Extends, b, UndoDraw(m, d))
<1> PICK p : DeckOf(m) = p
  OBVIOUS
<1> PICK q : HandOf(m) = q
  OBVIOUS
<1> PICK e : CodeEdits(m.codes) = e
  OBVIOUS
<1>1. /\ IsDraw(m) /\ AreCodes(m.codes) /\ Len(m.codes) \in Nat
      /\ PilePlace(p) /\ PilePlace(q) /\ ~SamePile(p, q) /\ IsBoard(b)
  BY DrawPiles DEF FitsDraw, IsDraw, AreCodes, AllRecorded, Lifted
<1> PICK n \in Nat : Len(m.codes) = n
  BY <1>1
<1> PICK s : GetPile(b, p) = s
  OBVIOUS
<1> PICK h : GetPile(b, q) = h
  OBVIOUS
<1>2. SeqLifted(Extends, s, s) /\ SeqLifted(Extends, h, h)
  BY <1>1, LiftedPile DEF AllRecorded
<1>3. IsSeq(s) /\ IsSeq(h) /\ Len(s) \in Nat /\ n <= Len(s)
  BY <1>2, SeqIsFunction DEF SeqLifted, FitsDraw
<1> PICK k \in Nat : Len(s) = k
  BY <1>3
<1>4. n \in 0 .. k
  BY <1>3
<1> PICK w : WithoutTop(s, n) = w
  OBVIOUS
<1> PICK t : TopCards(s, n) = t
  OBVIOUS
<1> PICK a : DoneAll(t, e) = a
  OBVIOUS
<1>5. IsSeq(w) /\ IsSeq(t) /\ Len(t) = n /\ w \o Reverse(t) = s
  BY <1>3, <1>4, TopTaken
<1>6. SeqLifted(Extends, w, w) /\ SeqLifted(Extends, t, t)
  BY <1>2, <1>4, LiftedTop
<1>7. \A i \in 1 .. n : e[i] \in Edits
  BY <1>1, CodesAreEdits
<1>8. SeqLifted(Extends, a, a) /\ SeqLifted(Extends, t, UndoneAll(a, e))
  BY <1>5, <1>6, <1>7, StepAll
<1>9. IsSeq(a) /\ Len(a) = n
  BY <1>5, AllForms
<1> PICK g : h \o a = g
  OBVIOUS
<1>10. SeqLifted(Extends, g, g)
  BY <1>2, <1>8, LiftedJoined
<1>11. IsSeq(g) /\ n <= Len(g) /\ WithoutTop(g, n) = h /\ TopCards(g, n) = Reverse(a)
  <2>1. IsSeq(h) /\ IsSeq(a) /\ Len(a) = n
    BY <1>3, <1>9
  <2>2. /\ IsSeq(h \o a) /\ Len(a) <= Len(h \o a)
        /\ WithoutTop(h \o a, Len(a)) = h
        /\ TopCards(h \o a, Len(a)) = Reverse(a)
    BY <2>1, TopJoined
  <2> QED
    BY <2>1, <2>2
<1>12. d = TwoPiles(b, p, q, w, g)
  BY DEF NewDraw
<1>13. AllRecorded(d)
  BY <1>1, <1>6, <1>10, <1>12, LiftedTwo DEF AllRecorded
<1>14. IsBoard(d) /\ GetPile(d, p) = w /\ GetPile(d, q) = g
  BY <1>1, <1>5, <1>11, <1>12, TwoPut
<1>15. AfterDraw(m, d)
  BY <1>1, <1>11, <1>14 DEF AfterDraw
<1> PICK x : w \o UndoneAll(Reverse(a), e) = x
  OBVIOUS
<1>16. UndoDraw(m, d) = TwoPiles(d, p, q, x, h)
  BY <1>11, <1>14 DEF UndoDraw
<1>17. SeqLifted(Extends, s, x)
  <2>1. SeqLifted(Extends, Reverse(t), Reverse(UndoneAll(a, e)))
    BY <1>8, LiftedReverse
  <2>2. UndoneAll(Reverse(a), e) = Reverse(UndoneAll(a, e))
    BY <1>1, <1>9, ReversedSteps
  <2>3. SeqLifted(Extends, w \o Reverse(t), w \o UndoneAll(Reverse(a), e))
    BY <1>6, <2>1, <2>2, LiftedJoined
  <2> QED
    BY <1>5, <2>3
<1>18. IsSeq(x)
  BY <1>17 DEF SeqLifted
<1>19. UndoDraw(m, d) = TwoPiles(b, p, q, x, h)
  BY <1>1, <1>3, <1>5, <1>11, <1>12, <1>16, <1>18, TwoPutAgain
<1>20. TwoPiles(b, p, q, s, h) = b
  BY <1>1, TwoPutBack
<1>21. Lifted(Extends, TwoPiles(b, p, q, s, h), TwoPiles(b, p, q, x, h))
  BY <1>1, <1>2, <1>17, LiftedTwo DEF AllRecorded
<1> QED
  BY <1>13, <1>15, <1>19, <1>20, <1>21

\* Undoing a Draw on a board with longer recordings.
LEMMA DrawUndo ==
  ASSUME NEW d, NEW d2, Lifted(Extends, d, d2), NEW m, AfterDraw(m, d)
  PROVE  AfterDraw(m, d2) /\ Lifted(Extends, UndoDraw(m, d), UndoDraw(m, d2))
<1> PICK p : DeckOf(m) = p
  OBVIOUS
<1> PICK q : HandOf(m) = q
  OBVIOUS
<1> PICK e : CodeEdits(m.codes) = e
  OBVIOUS
<1>1. /\ IsDraw(m) /\ AreCodes(m.codes) /\ Len(m.codes) \in Nat
      /\ PilePlace(p) /\ PilePlace(q) /\ ~SamePile(p, q)
  BY DrawPiles DEF AfterDraw, IsDraw, AreCodes
<1> PICK n \in Nat : Len(m.codes) = n
  BY <1>1
<1> PICK s : GetPile(d, p) = s
  OBVIOUS
<1> PICK h : GetPile(d, q) = h
  OBVIOUS
<1> PICK s2 : GetPile(d2, p) = s2
  OBVIOUS
<1> PICK h2 : GetPile(d2, q) = h2
  OBVIOUS
<1>2. SeqLifted(Extends, s, s2) /\ SeqLifted(Extends, h, h2)
  BY <1>1, LiftedPile
<1>3. Len(h) \in Nat /\ n <= Len(h) /\ Len(h2) = Len(h)
  BY <1>2, SeqIsFunction DEF SeqLifted, AfterDraw
<1> PICK k \in Nat : Len(h) = k
  BY <1>3
<1>4. n \in 0 .. k /\ Len(h2) = k
  BY <1>3
<1>5. AfterDraw(m, d2)
  BY <1>1, <1>3 DEF AfterDraw
<1>6. SeqLifted(Extends, WithoutTop(h, n), WithoutTop(h2, n))
      /\ SeqLifted(Extends, TopCards(h, n), TopCards(h2, n))
  BY <1>2, <1>4, LiftedTop
<1> PICK t : TopCards(h, n) = t
  OBVIOUS
<1> PICK t2 : TopCards(h2, n) = t2
  OBVIOUS
<1>7. \A i \in 1 .. n : e[i] \in Edits
  BY <1>1, CodesAreEdits
<1>8. Len(t) = n
  BY <1>2, <1>4, TopTaken DEF SeqLifted
<1>9. SeqLifted(Extends, UndoneAll(t, e), UndoneAll(t2, e))
  BY <1>6, <1>7, <1>8, UndoAll
<1>10. SeqLifted(Extends, s \o UndoneAll(t, e), s2 \o UndoneAll(t2, e))
  BY <1>2, <1>9, LiftedJoined
<1>11. Lifted(Extends, TwoPiles(d, p, q, s \o UndoneAll(t, e), WithoutTop(h, n)),
                       TwoPiles(d2, p, q, s2 \o UndoneAll(t2, e), WithoutTop(h2, n)))
  BY <1>1, <1>6, <1>10, LiftedTwo
<1> QED
  BY <1>5, <1>11 DEF UndoDraw

\* Redoing a Draw that was undone.
LEMMA DrawAgain ==
  ASSUME NEW d, AllRecorded(d), NEW m, AfterDraw(m, d), NEW b, b = UndoDraw(m, d)
  PROVE  FitsDraw(m, b) /\ RedoDraw(m, b) = d
<1> PICK p : DeckOf(m) = p
  OBVIOUS
<1> PICK q : HandOf(m) = q
  OBVIOUS
<1> PICK e : CodeEdits(m.codes) = e
  OBVIOUS
<1>1. /\ IsDraw(m) /\ AreCodes(m.codes) /\ Len(m.codes) \in Nat
      /\ PilePlace(p) /\ PilePlace(q) /\ ~SamePile(p, q) /\ IsBoard(d)
  BY DrawPiles DEF AfterDraw, IsDraw, AreCodes, AllRecorded, Lifted
<1> PICK n \in Nat : Len(m.codes) = n
  BY <1>1
<1> PICK s : GetPile(d, p) = s
  OBVIOUS
<1> PICK h : GetPile(d, q) = h
  OBVIOUS
<1>2. SeqLifted(Extends, s, s) /\ SeqLifted(Extends, h, h)
  BY <1>1, LiftedPile DEF AllRecorded
<1>3. IsSeq(s) /\ IsSeq(h) /\ Len(h) \in Nat /\ n <= Len(h)
  BY <1>2, SeqIsFunction DEF SeqLifted, AfterDraw
<1> PICK k \in Nat : Len(h) = k
  BY <1>3
<1>4. n \in 0 .. k
  BY <1>3
<1> PICK w : WithoutTop(h, n) = w
  OBVIOUS
<1> PICK t : TopCards(h, n) = t
  OBVIOUS
<1>5. IsSeq(w) /\ IsSeq(t) /\ Len(t) = n /\ w \o Reverse(t) = h
  BY <1>3, <1>4, TopTaken
<1>6. SeqLifted(Extends, t, t)
  BY <1>2, <1>4, LiftedTop
<1>7. \A i \in 1 .. n : e[i] \in Edits
  BY <1>1, CodesAreEdits
<1> PICK u : UndoneAll(t, e) = u
  OBVIOUS
<1>8. IsSeq(u) /\ Len(u) = n
  BY <1>5, AllForms
<1> PICK x : s \o u = x
  OBVIOUS
<1>9. IsSeq(x) /\ n <= Len(x) /\ WithoutTop(x, n) = s /\ TopCards(x, n) = Reverse(u)
  <2>1. IsSeq(s) /\ IsSeq(u) /\ Len(u) = n
    BY <1>3, <1>8
  <2>2. /\ IsSeq(s \o u) /\ Len(u) <= Len(s \o u)
        /\ WithoutTop(s \o u, Len(u)) = s
        /\ TopCards(s \o u, Len(u)) = Reverse(u)
    BY <2>1, TopJoined
  <2> QED
    BY <2>1, <2>2
<1>10. b = TwoPiles(d, p, q, x, w)
  BY DEF UndoDraw
<1>11. IsBoard(b) /\ GetPile(b, p) = x /\ GetPile(b, q) = w
  BY <1>1, <1>5, <1>9, <1>10, TwoPut
<1>12. FitsDraw(m, b)
  BY <1>1, <1>9, <1>11 DEF FitsDraw
<1>13. RedoDraw(m, b) = TwoPiles(b, p, q, s, w \o RedoneAll(Reverse(u), e))
  BY <1>9, <1>11 DEF RedoDraw
<1>14. RedoneAll(Reverse(u), e) = Reverse(RedoneAll(u, e))
  BY <1>1, <1>8, ReversedSteps
<1>15. RedoneAll(u, e) = t
  BY <1>5, <1>6, <1>7, StepAll
<1>16. RedoDraw(m, b) = TwoPiles(b, p, q, s, h)
  BY <1>5, <1>13, <1>14, <1>15
<1>17. TwoPiles(b, p, q, s, h) = TwoPiles(d, p, q, s, h)
  BY <1>1, <1>3, <1>5, <1>9, <1>10, TwoPutAgain
<1>18. TwoPiles(d, p, q, s, h) = d
  BY <1>1, TwoPutBack
<1> QED
  BY <1>12, <1>16, <1>17, <1>18

\* A new Draw shows on the board what it does to the table.
LEMMA DrawShows ==
  ASSUME NEW b, NEW t, Lifted(ShowsLast, b, t), NEW m, FitsDraw(m, b)
  PROVE  Lifted(ShowsLast, NewDraw(m, b), PlainDraw(m, t))
<1> PICK p : DeckOf(m) = p
  OBVIOUS
<1> PICK q : HandOf(m) = q
  OBVIOUS
<1> PICK e : CodeEdits(m.codes) = e
  OBVIOUS
<1>1. /\ IsDraw(m) /\ AreCodes(m.codes) /\ Len(m.codes) \in Nat
      /\ PilePlace(p) /\ PilePlace(q)
  BY DrawPiles DEF FitsDraw, IsDraw, AreCodes
<1> PICK n \in Nat : Len(m.codes) = n
  BY <1>1
<1> PICK s : GetPile(b, p) = s
  OBVIOUS
<1> PICK h : GetPile(b, q) = h
  OBVIOUS
<1> PICK s2 : GetPile(t, p) = s2
  OBVIOUS
<1> PICK h2 : GetPile(t, q) = h2
  OBVIOUS
<1>2. SeqLifted(ShowsLast, s, s2) /\ SeqLifted(ShowsLast, h, h2)
  BY <1>1, LiftedPile
<1>3. IsSeq(s) /\ Len(s) \in Nat /\ n <= Len(s)
  BY <1>2, SeqIsFunction DEF SeqLifted, FitsDraw
<1> PICK k \in Nat : Len(s) = k
  BY <1>3
<1>4. n \in 0 .. k
  BY <1>3
<1>5. SeqLifted(ShowsLast, WithoutTop(s, n), WithoutTop(s2, n))
      /\ SeqLifted(ShowsLast, TopCards(s, n), TopCards(s2, n))
  BY <1>2, <1>4, LiftedTop
<1> PICK u : TopCards(s, n) = u
  OBVIOUS
<1> PICK u2 : TopCards(s2, n) = u2
  OBVIOUS
<1>6. \A i \in 1 .. n : e[i] \in Edits
  BY <1>1, CodesAreEdits
<1>7. Len(u) = n
  BY <1>3, <1>4, TopTaken
<1>8. SeqLifted(ShowsLast, DoneAll(u, e), PlainAll(u2, e))
  BY <1>5, <1>6, <1>7, ShowAll
<1>9. SeqLifted(ShowsLast, h \o DoneAll(u, e), h2 \o PlainAll(u2, e))
  BY <1>2, <1>8, LiftedJoined
<1>10. Lifted(ShowsLast, TwoPiles(b, p, q, WithoutTop(s, n), h \o DoneAll(u, e)),
                         TwoPiles(t, p, q, WithoutTop(s2, n), h2 \o PlainAll(u2, e)))
  BY <1>1, <1>5, <1>9, LiftedTwo
<1> QED
  BY <1>10 DEF NewDraw, PlainDraw

----------------------------------------------------------------------------
(* ShuffleLocation *)

PileOf(m) == Place(m.player, m.location, 0)

ShuffleEdits(m) ==
  [i \in Nat |-> [code |-> IF m.codes = <<>> THEN 0 ELSE m.codes[i], pos |-> KeepPos]]

IsShuffle(m) ==
  /\ m.type = "ShuffleLocation"
  /\ m.player \in Players /\ m.location \in PileLocations /\ AreCodes(m.codes)

FitsShuffle(m, b) ==
  IsShuffle(m) /\ (m.codes = <<>> \/ Len(m.codes) = Len(GetPile(b, PileOf(m))))

NewShuffle(m, b) == PutPile(b, PileOf(m), DoneAll(GetPile(b, PileOf(m)), ShuffleEdits(m)))
RedoShuffle(m, b) == PutPile(b, PileOf(m), RedoneAll(GetPile(b, PileOf(m)), ShuffleEdits(m)))
UndoShuffle(m, b) == PutPile(b, PileOf(m), UndoneAll(GetPile(b, PileOf(m)), ShuffleEdits(m)))
PlainShuffle(m, t) == PutPile(t, PileOf(m), PlainAll(GetPile(t, PileOf(m)), ShuffleEdits(m)))

\* A shuffle is about a pile.
LEMMA ShufflePile ==
  ASSUME NEW m, IsShuffle(m)
  PROVE  PilePlace(PileOf(m))
BY DEF IsShuffle, PileOf, Place, PilePlace, IsPile, PileLocations, FieldLocations

\* A code that a shuffle reveals, or 0, is an edit.
LEMMA ShuffleIsEdit ==
  ASSUME NEW m, NEW b, FitsShuffle(m, b), NEW k \in Nat, Len(GetPile(b, PileOf(m))) = k
  PROVE  \A i \in 1 .. k : ShuffleEdits(m)[i] \in Edits
<1>1. CASE m.codes = <<>>
  BY <1>1 DEF ShuffleEdits, Edits
<1>2. CASE m.codes # <<>>
  <2>1. \A i \in 1 .. k : m.codes[i] \in Nat
    BY <1>2 DEF FitsShuffle, IsShuffle, AreCodes
  <2> QED
    BY <1>2, <2>1 DEF ShuffleEdits, Edits
<1> QED
  BY <1>1, <1>2

\* Whether a shuffle fits depends on the length of the pile only.
LEMMA LiftedShuffle ==
  ASSUME NEW R, NEW b, NEW d, Lifted(R, b, d), NEW m
  PROVE  FitsShuffle(m, b) <=> FitsShuffle(m, d)
<1>1. ASSUME IsShuffle(m)
      PROVE  Len(GetPile(b, PileOf(m))) = Len(GetPile(d, PileOf(m)))
  BY <1>1, ShufflePile, LiftedPile DEF SeqLifted
<1> QED
  BY <1>1 DEF FitsShuffle

\* A new ShuffleLocation can be undone, which leaves the board as it was but
\* for longer recordings.
LEMMA ShuffleNew ==
  ASSUME NEW b, AllRecorded(b), NEW m, FitsShuffle(m, b), NEW d, d = NewShuffle(m, b)
  PROVE  AllRecorded(d) /\ FitsShuffle(m, d) /\ Lifted(Extends, b, UndoShuffle(m, d))
<1> PICK p : PileOf(m) = p
  OBVIOUS
<1> PICK e : ShuffleEdits(m) = e
  OBVIOUS
<1> PICK s : GetPile(b, p) = s
  OBVIOUS
<1>1. PilePlace(p) /\ IsBoard(b)
  BY ShufflePile DEF FitsShuffle, AllRecorded, Lifted
<1>2. SeqLifted(Extends, s, s)
  BY <1>1, LiftedPile DEF AllRecorded
<1>3. IsSeq(s) /\ Len(s) \in Nat
  BY <1>2, SeqIsFunction DEF SeqLifted
<1>4. \A i \in 1 .. Len(s) : e[i] \in Edits
  BY <1>3, ShuffleIsEdit
<1> PICK a : DoneAll(s, e) = a
  OBVIOUS
<1>5. SeqLifted(Extends, a, a) /\ SeqLifted(Extends, s, UndoneAll(a, e))
  BY <1>2, <1>4, StepAll
<1>6. IsSeq(a) /\ Len(a) = Len(s) /\ IsSeq(UndoneAll(a, e))
  BY <1>3, <1>5, AllForms DEF SeqLifted
<1>7. d = PutPile(b, p, a)
  BY DEF NewShuffle
<1>8. AllRecorded(d)
  BY <1>1, <1>5, <1>7, LiftedPut DEF AllRecorded
<1>9. GetPile(d, p) = a
  BY <1>1, <1>6, <1>7, PilePut
<1>10. FitsShuffle(m, d)
  BY <1>6, <1>9 DEF FitsShuffle
<1> PICK x : UndoneAll(a, e) = x
  OBVIOUS
<1>11. UndoShuffle(m, d) = PutPile(d, p, x)
  BY <1>9 DEF UndoShuffle
<1>12. PutPile(d, p, x) = PutPile(b, p, x)
  BY <1>1, <1>6, <1>7, PilePutTwice
<1>13. PutPile(b, p, s) = b
  BY <1>1, PilePutBack
<1>14. Lifted(Extends, PutPile(b, p, s), PutPile(b, p, x))
  BY <1>1, <1>5, LiftedPut DEF AllRecorded
<1> QED
  BY <1>8, <1>10, <1>11, <1>12, <1>13, <1>14

\* Undoing a ShuffleLocation on a board with longer recordings.
LEMMA ShuffleUndo ==
  ASSUME NEW d, NEW d2, Lifted(Extends, d, d2), NEW m, FitsShuffle(m, d)
  PROVE  FitsShuffle(m, d2) /\ Lifted(Extends, UndoShuffle(m, d), UndoShuffle(m, d2))
<1> PICK p : PileOf(m) = p
  OBVIOUS
<1> PICK e : ShuffleEdits(m) = e
  OBVIOUS
<1> PICK s : GetPile(d, p) = s
  OBVIOUS
<1> PICK s2 : GetPile(d2, p) = s2
  OBVIOUS
<1>1. PilePlace(p)
  BY ShufflePile DEF FitsShuffle
<1>2. SeqLifted(Extends, s, s2)
  BY <1>1, LiftedPile
<1>3. IsSeq(s) /\ Len(s) \in Nat
  BY <1>2, SeqIsFunction DEF SeqLifted
<1>4. \A i \in 1 .. Len(s) : e[i] \in Edits
  BY <1>3, ShuffleIsEdit
<1>5. SeqLifted(Extends, UndoneAll(s, e), UndoneAll(s2, e))
  BY <1>2, <1>4, UndoAll
<1>6. Lifted(Extends, PutPile(d, p, UndoneAll(s, e)), PutPile(d2, p, UndoneAll(s2, e)))
  BY <1>1, <1>5, LiftedPut
<1>7. FitsShuffle(m, d2)
  BY LiftedShuffle
<1> QED
  BY <1>6, <1>7 DEF UndoShuffle

\* Redoing a ShuffleLocation that was undone.
LEMMA ShuffleAgain ==
  ASSUME NEW d, AllRecorded(d), NEW m, FitsShuffle(m, d), NEW b, b = UndoShuffle(m, d)
  PROVE  FitsShuffle(m, b) /\ RedoShuffle(m, b) = d
<1> PICK p : PileOf(m) = p
  OBVIOUS
<1> PICK e : ShuffleEdits(m) = e
  OBVIOUS
<1> PICK s : GetPile(d, p) = s
  OBVIOUS
<1>1. PilePlace(p) /\ IsBoard(d)
  BY ShufflePile DEF FitsShuffle, AllRecorded, Lifted
<1>2. SeqLifted(Extends, s, s)
  BY <1>1, LiftedPile DEF AllRecorded
<1>3. IsSeq(s) /\ Len(s) \in Nat
  BY <1>2, SeqIsFunction DEF SeqLifted
<1>4. \A i \in 1 .. Len(s) : e[i] \in Edits
  BY <1>3, ShuffleIsEdit
<1> PICK u : UndoneAll(s, e) = u
  OBVIOUS
<1>5. IsSeq(u) /\ Len(u) = Len(s)
  BY <1>3, AllForms
<1>6. RedoneAll(u, e) = s
  BY <1>2, <1>4, StepAll
<1>7. b = PutPile(d, p, u)
  BY DEF UndoShuffle
<1>8. GetPile(b, p) = u
  BY <1>1, <1>5, <1>7, PilePut
<1>9. FitsShuffle(m, b)
  BY <1>5, <1>8 DEF FitsShuffle
<1>10. RedoShuffle(m, b) = PutPile(b, p, s)
  BY <1>6, <1>8 DEF RedoShuffle
<1>11. PutPile(b, p, s) = PutPile(d, p, s)
  BY <1>1, <1>3, <1>5, <1>7, PilePutTwice
<1>12. PutPile(d, p, s) = d
  BY <1>1, PilePutBack
<1> QED
  BY <1>9, <1>10, <1>11, <1>12

\* A new ShuffleLocation shows on the board what it does to the table.
LEMMA ShuffleShows ==
  ASSUME NEW b, NEW t, Lifted(ShowsLast, b, t), NEW m, FitsShuffle(m, b)
  PROVE  Lifted(ShowsLast, NewShuffle(m, b), PlainShuffle(m, t))
<1> PICK p : PileOf(m) = p
  OBVIOUS
<1> PICK e : ShuffleEdits(m) = e
  OBVIOUS
<1> PICK s : GetPile(b, p) = s
  OBVIOUS
<1> PICK s2 : GetPile(t, p) = s2
  OBVIOUS
<1>1. PilePlace(p)
  BY ShufflePile DEF FitsShuffle
<1>2. SeqLifted(ShowsLast, s, s2)
  BY <1>1, LiftedPile
<1>3. IsSeq(s) /\ Len(s) \in Nat
  BY <1>2, SeqIsFunction DEF SeqLifted
<1>4. \A i \in 1 .. Len(s) : e[i] \in Edits
  BY <1>3, ShuffleIsEdit
<1>5. SeqLifted(ShowsLast, DoneAll(s, e), PlainAll(s2, e))
  BY <1>2, <1>4, ShowAll
<1>6. Lifted(ShowsLast, PutPile(b, p, DoneAll(s, e)), PutPile(t, p, PlainAll(s2, e)))
  BY <1>1, <1>5, LiftedPut
<1> QED
  BY <1>6 DEF NewShuffle, PlainShuffle

----------------------------------------------------------------------------
(* ShuffleSetCards *)

SetPlaces(m) == {m.previous[i].place : i \in DOMAIN m.previous}

SetEdit(m, i) ==
  IF m.current = <<>> THEN [code |-> 0, pos |-> m.previous[i].position]
                      ELSE [code |-> m.current[i].code, pos |-> m.current[i].position]

SetEdits(m) ==
  [p \in SetPlaces(m) |->
     SetEdit(m, CHOOSE j \in DOMAIN m.previous : m.previous[j].place = p)]

\* The handler takes the places one after the other: no place comes twice.
IsSet(m) ==
  /\ m.type = "ShuffleSetCards"
  /\ DOMAIN m.previous \in {1 .. 1, 1 .. 2} /\ IsSeq(m.previous)
  /\ \A i \in DOMAIN m.previous, j \in DOMAIN m.previous :
       m.previous[i].place = m.previous[j].place => i = j
  /\ \A i \in DOMAIN m.previous :
       /\ SetEdit(m, i) \in Edits /\ SetEdit(m, i).pos # KeepPos
       /\ ~IsPile(m.previous[i].place)

FitsSet(m, b) == IsSet(m) /\ SetPlaces(m) \subseteq DOMAIN b.zones

WithZones(b, z) == [b EXCEPT !.zones = z]

DoneOn(z, e) == [p \in DOMAIN z |-> IF p \in DOMAIN e THEN Done(z[p], e[p]) ELSE z[p]]
RedoneOn(z, e) == [p \in DOMAIN z |-> IF p \in DOMAIN e THEN Redone(z[p], e[p]) ELSE z[p]]
UndoneOn(z, e) == [p \in DOMAIN z |-> IF p \in DOMAIN e THEN Undone(z[p], e[p]) ELSE z[p]]
PlainOn(z, e) == [p \in DOMAIN z |-> IF p \in DOMAIN e THEN PlainBy(z[p], e[p]) ELSE z[p]]

NewSet(m, b) == WithZones(b, DoneOn(b.zones, SetEdits(m)))
RedoSet(m, b) == WithZones(b, RedoneOn(b.zones, SetEdits(m)))
UndoSet(m, b) == WithZones(b, UndoneOn(b.zones, SetEdits(m)))
PlainSet(m, t) == WithZones(t, PlainOn(t.zones, SetEdits(m)))

\* What ShuffleSetCards writes at each of its places is an edit.
LEMMA SetIsEdit ==
  ASSUME NEW m, IsSet(m)
  PROVE  \A p \in DOMAIN SetEdits(m) : SetEdits(m)[p] \in Edits
<1>1. ASSUME NEW p \in SetPlaces(m)
      PROVE  SetEdits(m)[p] \in Edits
  <2> PICK i : i = CHOOSE j \in DOMAIN m.previous : m.previous[j].place = p
    OBVIOUS
  <2>1. i \in DOMAIN m.previous
    BY DEF SetPlaces
  <2> QED
    BY <2>1 DEF SetEdits, IsSet
<1> QED
  BY <1>1 DEF SetEdits

\* What is proved of the maps of two boards holds of the boards.
ZonesLifted(R, y, z) ==
  /\ IsMap(y) /\ IsMap(z) /\ DOMAIN y = DOMAIN z
  /\ \A p \in DOMAIN y : <<y[p], z[p]>> \in R

\* The zones of a board are replaced by zones with related cards.
LEMMA LiftedMaps ==
  ASSUME NEW R, NEW b, NEW d, Lifted(R, b, d)
  PROVE  /\ ZonesLifted(R, b.zones, d.zones)
         /\ \A y, z : ZonesLifted(R, y, z) /\ DOMAIN y = DOMAIN b.zones =>
              Lifted(R, WithZones(b, y), WithZones(d, z))
<1>1. ZonesLifted(R, b.zones, d.zones) /\ \A p \in DOMAIN b.zones : ~IsPile(p)
  BY DEF Lifted, IsBoard, ZonesLifted
<1>2. ASSUME NEW y, NEW z, ZonesLifted(R, y, z), DOMAIN y = DOMAIN b.zones
      PROVE  Lifted(R, WithZones(b, y), WithZones(d, z))
  BY <1>1, <1>2, LiftedZones DEF ZonesLifted, WithZones
<1> QED
  BY <1>1, <1>2

\* Of two replacements of the zones the later one stays.
LEMMA BoardZones ==
  ASSUME NEW b, IsBoard(b), NEW y, NEW z
  PROVE  /\ WithZones(b, y).zones = y
         /\ WithZones(WithZones(b, y), z) = WithZones(b, z)
         /\ WithZones(b, b.zones) = b
<1>1. b = [piles |-> b.piles, zones |-> b.zones]
  BY DEF IsBoard
<1>2. \A v : WithZones(b, v) = [piles |-> b.piles, zones |-> v]
  BY <1>1 DEF WithZones
<1> PICK d : WithZones(b, y) = d
  OBVIOUS
<1>3. d = [piles |-> b.piles, zones |-> y]
  BY <1>2
<1>4. WithZones(d, z) = [piles |-> b.piles, zones |-> z]
  BY <1>3 DEF WithZones
<1> QED
  BY <1>1, <1>2, <1>3, <1>4

\* Redoing and undoing edits of the cards in zones cancel out.
LEMMA StepOn ==
  ASSUME NEW z, ZonesLifted(Extends, z, z), NEW e, \A p \in DOMAIN e : e[p] \in Edits
  PROVE  /\ ZonesLifted(Extends, DoneOn(z, e), DoneOn(z, e))
         /\ ZonesLifted(Extends, z, UndoneOn(DoneOn(z, e), e))
         /\ RedoneOn(UndoneOn(z, e), e) = z
         /\ DOMAIN DoneOn(z, e) = DOMAIN z /\ DOMAIN UndoneOn(z, e) = DOMAIN z
<1> PICK d : DoneOn(z, e) = d
  OBVIOUS
<1> PICK u : UndoneOn(z, e) = u
  OBVIOUS
<1>1. IsMap(z) /\ \A p \in DOMAIN z : z[p] \in RecordedCards
  BY ExtendsFacts DEF ZonesLifted
<1>2. /\ IsMap(d) /\ DOMAIN d = DOMAIN z
      /\ \A p \in DOMAIN z : d[p] = IF p \in DOMAIN e THEN Done(z[p], e[p]) ELSE z[p]
  BY DEF DoneOn, IsMap
<1>3. /\ IsMap(u) /\ DOMAIN u = DOMAIN z
      /\ \A p \in DOMAIN z : u[p] = IF p \in DOMAIN e THEN Undone(z[p], e[p]) ELSE z[p]
  BY DEF UndoneOn, IsMap
<1>4. ZonesLifted(Extends, d, d)
  <2>1. ASSUME NEW p \in DOMAIN z
        PROVE  <<d[p], d[p]>> \in Extends
    <3> PICK c \in RecordedCards : z[p] = c
      BY <1>1
    <3>1. CASE p \in DOMAIN e
      BY <1>2, <3>1, StepCards
    <3>2. CASE p \notin DOMAIN e
      BY <1>2, <3>2 DEF ZonesLifted
    <3> QED
      BY <3>1, <3>2
  <2> QED
    BY <1>2, <2>1 DEF ZonesLifted
<1>5. ZonesLifted(Extends, z, UndoneOn(d, e))
  <2>1. /\ IsMap(UndoneOn(d, e)) /\ DOMAIN UndoneOn(d, e) = DOMAIN z
        /\ \A p \in DOMAIN z : UndoneOn(d, e)[p] =
             IF p \in DOMAIN e THEN Undone(d[p], e[p]) ELSE d[p]
    BY <1>2 DEF UndoneOn, IsMap
  <2>2. ASSUME NEW p \in DOMAIN z
        PROVE  <<z[p], UndoneOn(d, e)[p]>> \in Extends
    <3> PICK c \in RecordedCards : z[p] = c
      BY <1>1
    <3>1. CASE p \in DOMAIN e
      <4> PICK f \in Edits : e[p] = f
        BY <3>1
      <4>1. UndoneOn(d, e)[p] = Undone(Done(c, f), f)
        BY <1>2, <2>1, <3>1
      <4> QED
        BY <4>1, StepCards
    <3>2. CASE p \notin DOMAIN e
      BY <1>2, <2>1, <3>2 DEF ZonesLifted
    <3> QED
      BY <3>1, <3>2
  <2> QED
    BY <1>1, <2>1, <2>2 DEF ZonesLifted
<1>6. RedoneOn(u, e) = z
  <2>1. /\ IsMap(RedoneOn(u, e)) /\ DOMAIN RedoneOn(u, e) = DOMAIN z
        /\ \A p \in DOMAIN z : RedoneOn(u, e)[p] =
             IF p \in DOMAIN e THEN Redone(u[p], e[p]) ELSE u[p]
    BY <1>3 DEF RedoneOn, IsMap
  <2>2. ASSUME NEW p \in DOMAIN z
        PROVE  RedoneOn(u, e)[p] = z[p]
    BY <1>1, <1>3, <2>1, StepCards
  <2> QED
    BY <1>1, <2>1, <2>2, SameMap
<1> QED
  BY <1>2, <1>3, <1>4, <1>5, <1>6

\* Undoing edits of cards in zones with longer recordings.
LEMMA UndoOn ==
  ASSUME NEW y, NEW z, ZonesLifted(Extends, y, z), NEW e, \A p \in DOMAIN e : e[p] \in Edits
  PROVE  /\ ZonesLifted(Extends, UndoneOn(y, e), UndoneOn(z, e))
         /\ DOMAIN UndoneOn(y, e) = DOMAIN y
<1>1. /\ IsMap(UndoneOn(y, e)) /\ DOMAIN UndoneOn(y, e) = DOMAIN y
      /\ IsMap(UndoneOn(z, e)) /\ DOMAIN UndoneOn(z, e) = DOMAIN y
      /\ \A p \in DOMAIN y :
           /\ UndoneOn(y, e)[p] = IF p \in DOMAIN e THEN Undone(y[p], e[p]) ELSE y[p]
           /\ UndoneOn(z, e)[p] = IF p \in DOMAIN e THEN Undone(z[p], e[p]) ELSE z[p]
  BY DEF ZonesLifted, UndoneOn, IsMap
<1>2. ASSUME NEW p \in DOMAIN y
      PROVE  <<UndoneOn(y, e)[p], UndoneOn(z, e)[p]>> \in Extends
  <2> PICK c : y[p] = c
    OBVIOUS
  <2> PICK d : z[p] = d
    OBVIOUS
  <2>1. <<c, d>> \in Extends
    BY DEF ZonesLifted
  <2>2. CASE p \in DOMAIN e
    BY <1>1, <2>1, <2>2, ExtendsFacts
  <2>3. CASE p \notin DOMAIN e
    BY <1>1, <2>1, <2>3
  <2> QED
    BY <2>2, <2>3
<1> QED
  BY <1>1, <1>2 DEF ZonesLifted

\* New values on cards in zones are what the cards then show.
LEMMA ShowOn ==
  ASSUME NEW y, NEW z, ZonesLifted(ShowsLast, y, z), NEW e, \A p \in DOMAIN e : e[p] \in Edits
  PROVE  /\ ZonesLifted(ShowsLast, DoneOn(y, e), PlainOn(z, e))
         /\ DOMAIN DoneOn(y, e) = DOMAIN y
<1>1. /\ IsMap(DoneOn(y, e)) /\ DOMAIN DoneOn(y, e) = DOMAIN y
      /\ IsMap(PlainOn(z, e)) /\ DOMAIN PlainOn(z, e) = DOMAIN y
      /\ \A p \in DOMAIN y :
           /\ DoneOn(y, e)[p] = IF p \in DOMAIN e THEN Done(y[p], e[p]) ELSE y[p]
           /\ PlainOn(z, e)[p] = IF p \in DOMAIN e THEN PlainBy(z[p], e[p]) ELSE z[p]
  BY DEF ZonesLifted, DoneOn, PlainOn, IsMap
<1>2. ASSUME NEW p \in DOMAIN y
      PROVE  <<DoneOn(y, e)[p], PlainOn(z, e)[p]>> \in ShowsLast
  BY <1>1, NewValueShows DEF ZonesLifted
<1> QED
  BY <1>1, <1>2 DEF ZonesLifted

\* A new ShuffleSetCards can be undone, which leaves the board as it was but
\* for longer recordings.
LEMMA SetNew ==
  ASSUME NEW b, AllRecorded(b), NEW m, FitsSet(m, b), NEW d, d = NewSet(m, b)
  PROVE  AllRecorded(d) /\ FitsSet(m, d) /\ Lifted(Extends, b, UndoSet(m, d))
<1> PICK e : SetEdits(m) = e
  OBVIOUS
<1> PICK z : b.zones = z
  OBVIOUS
<1>1. IsBoard(b) /\ Lifted(Extends, b, b) /\ \A p \in DOMAIN e : e[p] \in Edits
  BY SetIsEdit DEF FitsSet, AllRecorded, Lifted
<1>2. ZonesLifted(Extends, z, z)
  BY <1>1, LiftedMaps
<1> PICK y : DoneOn(z, e) = y
  OBVIOUS
<1> PICK x : UndoneOn(y, e) = x
  OBVIOUS
<1>3. ZonesLifted(Extends, y, y) /\ ZonesLifted(Extends, z, x) /\ DOMAIN y = DOMAIN z
  BY <1>1, <1>2, StepOn
<1>4. d = WithZones(b, y)
  BY DEF NewSet
<1>5. d.zones = y /\ WithZones(d, x) = WithZones(b, x)
      /\ WithZones(b, z) = b
  <2>1. WithZones(b, y).zones = y
        /\ WithZones(WithZones(b, y), x) = WithZones(b, x)
    BY <1>1, BoardZones
  <2>2. WithZones(b, b.zones) = b
    BY <1>1, BoardZones
  <2> QED
    BY <1>4, <2>1, <2>2
<1>6. AllRecorded(d)
  BY <1>1, <1>3, <1>4, LiftedMaps DEF AllRecorded
<1>7. FitsSet(m, d)
  BY <1>3, <1>5 DEF FitsSet
<1>8. UndoSet(m, d) = WithZones(b, x)
  BY <1>5 DEF UndoSet
<1>9. Lifted(Extends, WithZones(b, z), WithZones(b, x))
  BY <1>1, <1>3, LiftedMaps
<1> QED
  BY <1>5, <1>6, <1>7, <1>8, <1>9

\* Undoing a ShuffleSetCards on a board with longer recordings.
LEMMA SetUndo ==
  ASSUME NEW d, NEW d2, Lifted(Extends, d, d2), NEW m, FitsSet(m, d)
  PROVE  FitsSet(m, d2) /\ Lifted(Extends, UndoSet(m, d), UndoSet(m, d2))
<1> PICK e : SetEdits(m) = e
  OBVIOUS
<1>1. \A p \in DOMAIN e : e[p] \in Edits
  BY SetIsEdit DEF FitsSet
<1>2. ZonesLifted(Extends, d.zones, d2.zones)
  BY LiftedMaps
<1>3. /\ ZonesLifted(Extends, UndoneOn(d.zones, e), UndoneOn(d2.zones, e))
      /\ DOMAIN UndoneOn(d.zones, e) = DOMAIN d.zones
  BY <1>1, <1>2, UndoOn
<1>4. Lifted(Extends, WithZones(d, UndoneOn(d.zones, e)),
                      WithZones(d2, UndoneOn(d2.zones, e)))
  BY <1>3, LiftedMaps
<1>5. FitsSet(m, d2)
  BY DEF FitsSet, Lifted
<1> QED
  BY <1>4, <1>5 DEF UndoSet

\* Redoing a ShuffleSetCards that was undone.
LEMMA SetAgain ==
  ASSUME NEW d, AllRecorded(d), NEW m, FitsSet(m, d), NEW b, b = UndoSet(m, d)
  PROVE  FitsSet(m, b) /\ RedoSet(m, b) = d
<1> PICK e : SetEdits(m) = e
  OBVIOUS
<1> PICK z : d.zones = z
  OBVIOUS
<1>1. IsBoard(d) /\ \A p \in DOMAIN e : e[p] \in Edits
  BY SetIsEdit DEF FitsSet, AllRecorded, Lifted
<1>2. ZonesLifted(Extends, z, z)
  BY LiftedMaps DEF AllRecorded
<1> PICK y : UndoneOn(z, e) = y
  OBVIOUS
<1>3. RedoneOn(y, e) = z /\ DOMAIN y = DOMAIN z
  BY <1>1, <1>2, StepOn
<1>4. b = WithZones(d, y)
  BY DEF UndoSet
<1>5. b.zones = y /\ WithZones(b, z) = WithZones(d, z)
      /\ WithZones(d, z) = d
  <2>1. WithZones(d, y).zones = y
        /\ WithZones(WithZones(d, y), z) = WithZones(d, z)
    BY <1>1, BoardZones
  <2>2. WithZones(d, d.zones) = d
    BY <1>1, BoardZones
  <2> QED
    BY <1>4, <2>1, <2>2
<1>6. RedoSet(m, b) = WithZones(b, z)
  BY <1>3, <1>5 DEF RedoSet
<1>7. FitsSet(m, b)
  BY <1>3, <1>5 DEF FitsSet
<1> QED
  BY <1>5, <1>6, <1>7

\* A new ShuffleSetCards shows on the board what it does to the table.
LEMMA SetShows ==
  ASSUME NEW b, NEW t, Lifted(ShowsLast, b, t), NEW m, FitsSet(m, b)
  PROVE  Lifted(ShowsLast, NewSet(m, b), PlainSet(m, t))
<1> PICK e : SetEdits(m) = e
  OBVIOUS
<1>1. \A p \in DOMAIN e : e[p] \in Edits
  BY SetIsEdit DEF FitsSet
<1>2. ZonesLifted(ShowsLast, b.zones, t.zones)
  BY LiftedMaps
<1>3. /\ ZonesLifted(ShowsLast, DoneOn(b.zones, e), PlainOn(t.zones, e))
      /\ DOMAIN DoneOn(b.zones, e) = DOMAIN b.zones
  BY <1>1, <1>2, ShowOn
<1>4. Lifted(ShowsLast, WithZones(b, DoneOn(b.zones, e)),
                        WithZones(t, PlainOn(t.zones, e)))
  BY <1>3, LiftedMaps
<1> QED
  BY <1>4 DEF NewSet, PlainSet

----------------------------------------------------------------------------
(* SwapCards *)

Swapped(z, p, q) ==
  [x \in DOMAIN z |-> IF x = p THEN z[q] ELSE IF x = q THEN z[p] ELSE z[x]]

Swap(m, b) == WithZones(b, Swapped(b.zones, m.card1, m.card2))

FitsSwap(m, b) ==
  /\ m.type = "SwapCards" /\ m.card1 # m.card2
  /\ m.card1 \in DOMAIN b.zones /\ m.card2 \in DOMAIN b.zones

\* Swapping two cards twice changes nothing.
LEMMA SwapTwice ==
  ASSUME NEW b, IsBoard(b), NEW m, FitsSwap(m, b)
  PROVE  FitsSwap(m, Swap(m, b)) /\ Swap(m, Swap(m, b)) = b
<1> PICK p : m.card1 = p
  OBVIOUS
<1> PICK q : m.card2 = q
  OBVIOUS
<1> PICK z : b.zones = z
  OBVIOUS
<1> PICK y : Swapped(z, p, q) = y
  OBVIOUS
<1> PICK d : Swap(m, b) = d
  OBVIOUS
<1>1. p \in DOMAIN z /\ q \in DOMAIN z /\ p # q /\ IsMap(z)
  BY DEF FitsSwap, IsBoard
<1>2. /\ IsMap(y) /\ DOMAIN y = DOMAIN z
      /\ \A x \in DOMAIN z : y[x] = IF x = p THEN z[q] ELSE IF x = q THEN z[p] ELSE z[x]
  BY DEF Swapped, IsMap
<1>3. /\ IsMap(Swapped(y, p, q)) /\ DOMAIN Swapped(y, p, q) = DOMAIN z
      /\ \A x \in DOMAIN z : Swapped(y, p, q)[x] = z[x]
  BY <1>1, <1>2 DEF Swapped, IsMap
<1>4. Swapped(y, p, q) = z
  BY <1>1, <1>3, SameMap
<1>5. d = WithZones(b, y)
  BY DEF Swap
<1>6. d.zones = y /\ WithZones(d, z) = WithZones(b, z)
      /\ WithZones(b, z) = b
  <2>1. WithZones(b, y).zones = y
        /\ WithZones(WithZones(b, y), z) = WithZones(b, z)
    BY BoardZones
  <2>2. WithZones(b, b.zones) = b
    BY BoardZones
  <2> QED
    BY <1>5, <2>1, <2>2
<1>7. Swap(m, d) = b
  BY <1>4, <1>6 DEF Swap
<1>8. FitsSwap(m, d)
  BY <1>2, <1>6 DEF FitsSwap
<1> QED
  BY <1>7, <1>8

\* Related cards are swapped on both boards.
LEMMA LiftedSwap ==
  ASSUME NEW R, NEW b, NEW d, Lifted(R, b, d), NEW m, FitsSwap(m, b)
  PROVE  FitsSwap(m, d) /\ Lifted(R, Swap(m, b), Swap(m, d))
<1> PICK p : m.card1 = p
  OBVIOUS
<1> PICK q : m.card2 = q
  OBVIOUS
<1> PICK y : b.zones = y
  OBVIOUS
<1> PICK z : d.zones = z
  OBVIOUS
<1>1. p \in DOMAIN y /\ q \in DOMAIN y /\ ZonesLifted(R, y, z)
  BY LiftedMaps DEF FitsSwap
<1>2. ZonesLifted(R, Swapped(y, p, q), Swapped(z, p, q))
      /\ DOMAIN Swapped(y, p, q) = DOMAIN y
  BY <1>1 DEF ZonesLifted, Swapped, IsMap
<1>3. Lifted(R, WithZones(b, Swapped(y, p, q)), WithZones(d, Swapped(z, p, q)))
  BY <1>2, LiftedMaps
<1>4. FitsSwap(m, d)
  BY DEF FitsSwap, Lifted
<1> QED
  BY <1>3, <1>4 DEF Swap

----------------------------------------------------------------------------
(* The messages that leave tempCards alone *)

CardMsgs == {"UpdateCard", "AddCard", "RemoveCard", "Draw", "SwapCards",
             "ShuffleLocation", "ShuffleSetCards"}

FitsBoard(m, b) ==
  \/ FitsUpdate(m, b) \/ FitsDraw(m, b) \/ FitsShuffle(m, b) \/ FitsSet(m, b)
  \/ FitsSwap(m, b) \/ m.type \notin CardMsgs

AfterBoard(m, b) ==
  \/ AfterUpdate(m, b) \/ AfterDraw(m, b) \/ FitsShuffle(m, b) \/ FitsSet(m, b)
  \/ FitsSwap(m, b) \/ m.type \notin CardMsgs

NewBoard(m, b) ==
  CASE m.type = "UpdateCard" -> NewUpdate(m, b)
    [] m.type = "Draw" -> NewDraw(m, b)
    [] m.type = "ShuffleLocation" -> NewShuffle(m, b)
    [] m.type = "ShuffleSetCards" -> NewSet(m, b)
    [] m.type = "SwapCards" -> Swap(m, b)
    [] OTHER -> b

RedoBoard(m, b) ==
  CASE m.type = "UpdateCard" -> RedoUpdate(m, b)
    [] m.type = "Draw" -> RedoDraw(m, b)
    [] m.type = "ShuffleLocation" -> RedoShuffle(m, b)
    [] m.type = "ShuffleSetCards" -> RedoSet(m, b)
    [] m.type = "SwapCards" -> Swap(m, b)
    [] OTHER -> b

UndoBoard(m, b) ==
  CASE m.type = "UpdateCard" -> UndoUpdate(m, b)
    [] m.type = "Draw" -> UndoDraw(m, b)
    [] m.type = "ShuffleLocation" -> UndoShuffle(m, b)
    [] m.type = "ShuffleSetCards" -> UndoSet(m, b)
    [] m.type = "SwapCards" -> Swap(m, b)
    [] OTHER -> b

PlainBoard(m, t) ==
  CASE m.type = "UpdateCard" -> PlainUpdate(m, t)
    [] m.type = "Draw" -> PlainDraw(m, t)
    [] m.type = "ShuffleLocation" -> PlainShuffle(m, t)
    [] m.type = "ShuffleSetCards" -> PlainSet(m, t)
    [] m.type = "SwapCards" -> Swap(m, t)
    [] OTHER -> t

\* What fits is a message of the type.
LEMMA BoardTypes ==
  ASSUME NEW m, NEW b
  PROVE  /\ FitsUpdate(m, b) \/ AfterUpdate(m, b) => m.type = "UpdateCard"
         /\ FitsDraw(m, b) \/ AfterDraw(m, b) => m.type = "Draw"
         /\ FitsShuffle(m, b) => m.type = "ShuffleLocation"
         /\ FitsSet(m, b) => m.type = "ShuffleSetCards"
         /\ FitsSwap(m, b) => m.type = "SwapCards"
BY DEF FitsUpdate, AfterUpdate, IsUpdate, FitsDraw, AfterDraw, IsDraw, FitsShuffle,
       IsShuffle, FitsSet, IsSet, FitsSwap

\* Every new message can be undone, which leaves the board as it was but for
\* longer recordings.
LEMMA BoardNew ==
  ASSUME NEW b, AllRecorded(b), NEW m, FitsBoard(m, b), NEW d, d = NewBoard(m, b)
  PROVE  AllRecorded(d) /\ AfterBoard(m, d) /\ Lifted(Extends, b, UndoBoard(m, d))
<1>1. CASE FitsUpdate(m, b)
  <2>1. d = NewUpdate(m, b) /\ UndoBoard(m, d) = UndoUpdate(m, d)
    BY <1>1, BoardTypes DEF NewBoard, UndoBoard
  <2> QED
    BY <1>1, <2>1, UpdateNew DEF AfterBoard
<1>2. CASE FitsDraw(m, b)
  <2>1. d = NewDraw(m, b) /\ UndoBoard(m, d) = UndoDraw(m, d)
    BY <1>2, BoardTypes DEF NewBoard, UndoBoard
  <2> QED
    BY <1>2, <2>1, DrawNew DEF AfterBoard
<1>3. CASE FitsShuffle(m, b)
  <2>1. d = NewShuffle(m, b) /\ UndoBoard(m, d) = UndoShuffle(m, d)
    BY <1>3, BoardTypes DEF NewBoard, UndoBoard
  <2> QED
    BY <1>3, <2>1, ShuffleNew DEF AfterBoard
<1>4. CASE FitsSet(m, b)
  <2>1. d = NewSet(m, b) /\ UndoBoard(m, d) = UndoSet(m, d)
    BY <1>4, BoardTypes DEF NewBoard, UndoBoard
  <2> QED
    BY <1>4, <2>1, SetNew DEF AfterBoard
<1>5. CASE FitsSwap(m, b)
  <2>1. d = Swap(m, b) /\ UndoBoard(m, d) = Swap(m, d)
    BY <1>5, BoardTypes DEF NewBoard, UndoBoard
  <2>2. FitsSwap(m, d) /\ Swap(m, d) = b
    <3>1. IsBoard(b)
      BY DEF AllRecorded, Lifted
    <3> QED
      BY <1>5, <2>1, <3>1, SwapTwice
  <2>3. Lifted(Extends, d, d)
    <3>1. Lifted(Extends, b, b)
      BY DEF AllRecorded
    <3> QED
      BY <1>5, <2>1, <3>1, LiftedSwap
  <2> QED
    BY <2>1, <2>2, <2>3 DEF AfterBoard, AllRecorded
<1>6. CASE m.type \notin CardMsgs
  <2>1. d = b /\ UndoBoard(m, d) = b
    BY <1>6 DEF NewBoard, UndoBoard, CardMsgs
  <2> QED
    BY <1>6, <2>1 DEF AfterBoard, AllRecorded
<1> QED
  BY <1>1, <1>2, <1>3, <1>4, <1>5, <1>6 DEF FitsBoard

\* Undoing a message on a board with longer recordings.
LEMMA BoardUndo ==
  ASSUME NEW d, NEW d2, Lifted(Extends, d, d2), NEW m, AfterBoard(m, d)
  PROVE  AfterBoard(m, d2) /\ Lifted(Extends, UndoBoard(m, d), UndoBoard(m, d2))
<1>1. CASE AfterUpdate(m, d)
  <2>1. UndoBoard(m, d) = UndoUpdate(m, d) /\ UndoBoard(m, d2) = UndoUpdate(m, d2)
    BY <1>1, BoardTypes DEF UndoBoard
  <2> QED
    BY <1>1, <2>1, UpdateUndo DEF AfterBoard
<1>2. CASE AfterDraw(m, d)
  <2>1. UndoBoard(m, d) = UndoDraw(m, d) /\ UndoBoard(m, d2) = UndoDraw(m, d2)
    BY <1>2, BoardTypes DEF UndoBoard
  <2> QED
    BY <1>2, <2>1, DrawUndo DEF AfterBoard
<1>3. CASE FitsShuffle(m, d)
  <2>1. UndoBoard(m, d) = UndoShuffle(m, d) /\ UndoBoard(m, d2) = UndoShuffle(m, d2)
    BY <1>3, BoardTypes DEF UndoBoard
  <2> QED
    BY <1>3, <2>1, ShuffleUndo DEF AfterBoard
<1>4. CASE FitsSet(m, d)
  <2>1. UndoBoard(m, d) = UndoSet(m, d) /\ UndoBoard(m, d2) = UndoSet(m, d2)
    BY <1>4, BoardTypes DEF UndoBoard
  <2> QED
    BY <1>4, <2>1, SetUndo DEF AfterBoard
<1>5. CASE FitsSwap(m, d)
  <2>1. UndoBoard(m, d) = Swap(m, d) /\ UndoBoard(m, d2) = Swap(m, d2)
    BY <1>5, BoardTypes DEF UndoBoard
  <2> QED
    BY <1>5, <2>1, LiftedSwap DEF AfterBoard
<1>6. CASE m.type \notin CardMsgs
  <2>1. UndoBoard(m, d) = d /\ UndoBoard(m, d2) = d2
    BY <1>6 DEF UndoBoard, CardMsgs
  <2> QED
    BY <1>6, <2>1 DEF AfterBoard
<1> QED
  BY <1>1, <1>2, <1>3, <1>4, <1>5, <1>6 DEF AfterBoard

\* Redoing a message that was undone.
LEMMA BoardAgain ==
  ASSUME NEW d, AllRecorded(d), NEW m, AfterBoard(m, d), NEW b, b = UndoBoard(m, d)
  PROVE  FitsBoard(m, b) /\ RedoBoard(m, b) = d
<1>1. CASE AfterUpdate(m, d)
  <2>1. b = UndoUpdate(m, d) /\ RedoBoard(m, b) = RedoUpdate(m, b)
    BY <1>1, BoardTypes DEF UndoBoard, RedoBoard
  <2> QED
    BY <1>1, <2>1, UpdateAgain DEF FitsBoard
<1>2. CASE AfterDraw(m, d)
  <2>1. b = UndoDraw(m, d) /\ RedoBoard(m, b) = RedoDraw(m, b)
    BY <1>2, BoardTypes DEF UndoBoard, RedoBoard
  <2> QED
    BY <1>2, <2>1, DrawAgain DEF FitsBoard
<1>3. CASE FitsShuffle(m, d)
  <2>1. b = UndoShuffle(m, d) /\ RedoBoard(m, b) = RedoShuffle(m, b)
    BY <1>3, BoardTypes DEF UndoBoard, RedoBoard
  <2> QED
    BY <1>3, <2>1, ShuffleAgain DEF FitsBoard
<1>4. CASE FitsSet(m, d)
  <2>1. b = UndoSet(m, d) /\ RedoBoard(m, b) = RedoSet(m, b)
    BY <1>4, BoardTypes DEF UndoBoard, RedoBoard
  <2> QED
    BY <1>4, <2>1, SetAgain DEF FitsBoard
<1>5. CASE FitsSwap(m, d)
  <2>1. b = Swap(m, d) /\ RedoBoard(m, b) = Swap(m, b)
    BY <1>5, BoardTypes DEF UndoBoard, RedoBoard
  <2> QED
    BY <1>5, <2>1, SwapTwice DEF FitsBoard, AllRecorded, Lifted
<1>6. CASE m.type \notin CardMsgs
  <2>1. b = d /\ RedoBoard(m, b) = b
    BY <1>6 DEF UndoBoard, RedoBoard, CardMsgs
  <2> QED
    BY <1>6, <2>1 DEF FitsBoard
<1> QED
  BY <1>1, <1>2, <1>3, <1>4, <1>5, <1>6 DEF AfterBoard

\* A new message shows on the board what it does to the table.
LEMMA BoardShows ==
  ASSUME NEW b, NEW t, Lifted(ShowsLast, b, t), NEW m, FitsBoard(m, b)
  PROVE  Lifted(ShowsLast, NewBoard(m, b), PlainBoard(m, t))
<1>1. CASE FitsUpdate(m, b)
  <2>1. NewBoard(m, b) = NewUpdate(m, b) /\ PlainBoard(m, t) = PlainUpdate(m, t)
    BY <1>1, BoardTypes DEF NewBoard, PlainBoard
  <2> QED
    BY <1>1, <2>1, UpdateShows
<1>2. CASE FitsDraw(m, b)
  <2>1. NewBoard(m, b) = NewDraw(m, b) /\ PlainBoard(m, t) = PlainDraw(m, t)
    BY <1>2, BoardTypes DEF NewBoard, PlainBoard
  <2> QED
    BY <1>2, <2>1, DrawShows
<1>3. CASE FitsShuffle(m, b)
  <2>1. NewBoard(m, b) = NewShuffle(m, b) /\ PlainBoard(m, t) = PlainShuffle(m, t)
    BY <1>3, BoardTypes DEF NewBoard, PlainBoard
  <2> QED
    BY <1>3, <2>1, ShuffleShows
<1>4. CASE FitsSet(m, b)
  <2>1. NewBoard(m, b) = NewSet(m, b) /\ PlainBoard(m, t) = PlainSet(m, t)
    BY <1>4, BoardTypes DEF NewBoard, PlainBoard
  <2> QED
    BY <1>4, <2>1, SetShows
<1>5. CASE FitsSwap(m, b)
  <2>1. NewBoard(m, b) = Swap(m, b) /\ PlainBoard(m, t) = Swap(m, t)
    BY <1>5, BoardTypes DEF NewBoard, PlainBoard
  <2> QED
    BY <1>5, <2>1, LiftedSwap
<1>6. CASE m.type \notin CardMsgs
  <2>1. NewBoard(m, b) = b /\ PlainBoard(m, t) = t
    BY <1>6 DEF NewBoard, PlainBoard, CardMsgs
  <2> QED
    BY <2>1
<1> QED
  BY <1>1, <1>2, <1>3, <1>4, <1>5, <1>6 DEF FitsBoard
===============================================================================
