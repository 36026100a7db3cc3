------------------------- MODULE CardDatabaseProofs -------------------------
(***************************************************************************)
(* For any number of handles, files and merges, with processes that die at  *)
(* any point: what a constructor returns can search, and no card is ever    *)
(* lost.                                                                    *)
(***************************************************************************)
EXTENDS CardDatabase, TLAPS

Writing == {"createDatas", "createTexts", "datas", "texts"}

\* The merges that the rows of the disk are from have been logged.
RowsAreLogged ==
  /\ DOMAIN disk \subseteq {"datas", "texts"}
  /\ \A t \in DOMAIN disk : disk[t] \in [DOMAIN disk[t] -> 1 .. Len(log)]

\* What a handle has in each of its states.
HandlesOK ==
  /\ pc \in [Handles -> {"closed", "createDatas", "createTexts", "attachStmt",
                         "searchStmt", "idle", "datas", "texts", "detach"}]
  /\ toMerge \in [Handles -> 0 .. Len(log)]
  /\ sStmt \in [Handles -> {"reset", "row"}]
  /\ pinned \in [Handles -> BOOLEAN]
  /\ \A h \in Handles :
       /\ pc[h] \in {"datas", "texts", "detach"} \/ pinned[h] => toMerge[h] # 0
       /\ ~Constructed(h) => toMerge[h] = 0 /\ sStmt[h] = "reset"

\* The lock is with a handle whose statement writes.
WriterOK == \A h \in writer : writer = {h} /\ h \in Handles /\ pc[h] \in Writing

LEMMA TypeParts ==
  TypeOK <=> RowsAreLogged /\ HandlesOK /\ WriterOK /\ log \in Seq(Files)
BY DEF TypeOK, RowsAreLogged, HandlesOK, WriterOK, Writing

LEMMA TypePartsNext ==
  RowsAreLogged' /\ HandlesOK' /\ WriterOK' /\ log' \in Seq(Files) => TypeOK'
BY DEF TypeOK, RowsAreLogged, HandlesOK, WriterOK, Writing, Constructed

\* A statement that writes: it gets the lock, is refused, or commits.
Writes(h, t, rows) ==
  \/ /\ writer = {} /\ writer' = {h} /\ UNCHANGED <<disk, pc>>
  \/ writer' = writer \ {h} /\ UNCHANGED disk
  \/ Commits(h, t, rows)

LEMMA CreateWrites ==
  ASSUME NEW h, NEW t, NEW next, Create(h, t, next)
  PROVE  /\ Writes(h, t, NoRows)
         /\ \/ pc' = pc /\ h \in writer'
            \/ \E p \in {next, "attachStmt"} :
                 pc' = [pc EXCEPT ![h] = p] /\ writer' = writer \ {h}
         /\ UNCHANGED <<toMerge, sStmt, pinned, log, outcome, threw>>
BY DEF Create, Writes, Locks, Refused, Commits

\* The rows that h is merging into t, over the ones that are there.
Merged(h, t) == InsertOrReplace(Table(t), Tables(h)[t], toMerge[h])

LEMMA MergeWrites ==
  ASSUME NEW h, NEW t, NEW next, MergeTable(h, t, next)
  PROVE  /\ Writes(h, t, Merged(h, t))
         /\ \/ /\ pc' = pc /\ h \in writer'
               /\ pinned' = [pinned EXCEPT ![h] = @ \/ sStmt[h] = "row"]
            \/ /\ pc' = [pc EXCEPT ![h] = next] /\ writer' = writer \ {h}
               /\ UNCHANGED pinned
         /\ UNCHANGED <<toMerge, sStmt, log, outcome, threw>>
BY DEF MergeTable, Writes, Locks, Refused, Commits, Merged

\* What is written is typed as the rows are that it puts on the disk.
LEMMA WriteKeepsRows ==
  ASSUME NEW h, NEW t \in {"datas", "texts"}, NEW rows, Writes(h, t, rows),
         rows \in [DOMAIN rows -> 1 .. Len(log)], RowsAreLogged, UNCHANGED log
  PROVE  RowsAreLogged'
<1>1. CASE disk' = disk
  BY <1>1 DEF RowsAreLogged
<1>2. CASE Commits(h, t, rows)
  <2>1. disk' = [u \in DOMAIN disk \cup {t} |-> IF u = t THEN rows ELSE disk[u]]
    BY <1>2 DEF Commits
  <2>2. DOMAIN disk' = DOMAIN disk \cup {t}
    BY <2>1
  <2>3. ASSUME NEW u \in DOMAIN disk'
        PROVE  disk'[u] \in [DOMAIN disk'[u] -> 1 .. Len(log)]
    <3>1. CASE u = t
      BY <2>1, <2>2, <3>1
    <3>2. CASE u # t
      <4>1. u \in DOMAIN disk /\ disk'[u] = disk[u]
        BY <2>1, <2>2, <2>3, <3>2
      <4> QED
        BY <4>1 DEF RowsAreLogged
    <3> QED
      BY <3>1, <3>2
  <2> QED
    BY <2>2, <2>3 DEF RowsAreLogged
<1> QED
  BY <1>1, <1>2 DEF Writes

LEMMA MergedIsLogged ==
  ASSUME NEW h \in Handles, NEW t, RowsAreLogged, log \in Seq(Files),
         toMerge[h] \in 1 .. Len(log)
  PROVE  Merged(h, t) \in [DOMAIN Merged(h, t) -> 1 .. Len(log)]
<1>1. Table(t) \in [DOMAIN Table(t) -> 1 .. Len(log)]
  BY DEF RowsAreLogged, Table, NoRows
<1> QED
  BY <1>1 DEF Merged, InsertOrReplace

\* The lock passes to a handle whose statement writes, and goes with its end.
LEMMA LockPasses ==
  ASSUME NEW h \in Handles, WriterOK, DOMAIN pc = Handles,
         \/ writer = {} /\ writer' = {h} /\ UNCHANGED pc /\ pc[h] \in Writing
         \/ /\ writer' = writer \ {h}
            /\ \A g \in Handles \ {h} : pc'[g] = pc[g]
         \/ /\ writer' = writer /\ pc[h] \notin Writing
            /\ \A g \in Handles \ {h} : pc'[g] = pc[g]
  PROVE  WriterOK'
BY DEF WriterOK

LEMMA DisconnectKeepsTypes ==
  ASSUME NEW h \in Handles, TypeOK, Disconnect(h)
  PROVE  TypeOK'
<1> USE TypeParts
<1>1. RowsAreLogged' /\ log' = log
  BY DEF Disconnect, RowsAreLogged
<1>2. HandlesOK'
  BY DEF Disconnect, HandlesOK, Constructed
<1>3. WriterOK'
  BY LockPasses DEF Disconnect, HandlesOK
<1> QED
  BY <1>1, <1>2, <1>3, TypePartsNext

LEMMA CreateKeepsTypes ==
  ASSUME NEW h \in Handles, NEW t \in {"datas", "texts"},
         NEW next \in {"createTexts", "attachStmt"}, TypeOK, Create(h, t, next),
         pc[h] \in {"createDatas", "createTexts"}
  PROVE  TypeOK'
<1> USE TypeParts, CreateWrites
<1>1. RowsAreLogged'
  BY WriteKeepsRows DEF NoRows
<1>2. HandlesOK'
  <2>1. CASE pc' = pc
    BY <2>1 DEF HandlesOK, Constructed
  <2>2. ASSUME NEW p \in {next, "attachStmt"}, pc' = [pc EXCEPT ![h] = p]
        PROVE  HandlesOK'
    BY <2>2 DEF HandlesOK, Constructed
  <2> QED
    BY <2>1, <2>2
<1>3. WriterOK'
  <2>1. \A g \in Handles \ {h} : pc'[g] = pc[g]
    BY DEF HandlesOK
  <2>2. CASE h \in writer' /\ pc' = pc
    BY <2>1, <2>2, LockPasses DEF Writes, Commits, HandlesOK, Writing
  <2>3. CASE writer' = writer \ {h}
    BY <2>1, <2>3, LockPasses DEF HandlesOK
  <2> QED
    BY <2>2, <2>3
<1> QED
  BY <1>1, <1>2, <1>3, TypePartsNext

LEMMA MergeKeepsTypes ==
  ASSUME NEW h \in Handles, NEW t \in {"datas", "texts"},
         NEW next \in {"texts", "detach"}, TypeOK, MergeTable(h, t, next),
         pc[h] \in {"datas", "texts"}
  PROVE  TypeOK'
<1> USE TypeParts, MergeWrites
<1>1. RowsAreLogged'
  <2>1. toMerge[h] \in 1 .. Len(log)
    BY DEF HandlesOK
  <2> QED
    BY <2>1, MergedIsLogged, WriteKeepsRows
<1>2. HandlesOK'
  <2>1. CASE pc' = pc
    BY <2>1 DEF HandlesOK, Constructed
  <2>2. CASE pc' = [pc EXCEPT ![h] = next]
    BY <2>2 DEF HandlesOK, Constructed
  <2> QED
    BY <2>1, <2>2
<1>3. WriterOK'
  <2>1. \A g \in Handles \ {h} : pc'[g] = pc[g]
    BY DEF HandlesOK
  <2>2. CASE h \in writer' /\ pc' = pc
    BY <2>1, <2>2, LockPasses DEF Writes, Commits, HandlesOK, Writing
  <2>3. CASE writer' = writer \ {h}
    BY <2>1, <2>3, LockPasses DEF HandlesOK
  <2> QED
    BY <2>2, <2>3
<1> QED
  BY <1>1, <1>2, <1>3, TypePartsNext

\* A step that neither writes nor logs, of a handle that is not writing.
LEMMA CalmStepKeepsTypes ==
  ASSUME NEW h \in Handles, TypeOK, HandlesOK',
         UNCHANGED <<disk, writer, log>>, pc[h] \notin Writing,
         \A g \in Handles \ {h} : pc'[g] = pc[g]
  PROVE  TypeOK'
<1>1. RowsAreLogged' /\ log' = log
  BY TypeParts DEF RowsAreLogged
<1>2. WriterOK'
  BY LockPasses, TypeParts DEF HandlesOK
<1> QED
  BY <1>1, <1>2, TypeParts, TypePartsNext

LEMMA PreparedKeepsTypes ==
  ASSUME NEW h \in Handles, TypeOK, pc[h] \in {"attachStmt", "searchStmt"},
         NEW next \in {"searchStmt", "idle"}, Prepared(h, next)
  PROVE  TypeOK'
<1>1. HandlesOK'
  BY TypeParts DEF Prepared, HandlesOK, Constructed
<1> QED
  BY <1>1, TypeParts, CalmStepKeepsTypes DEF Prepared, HandlesOK, Writing

LEMMA AttachKeepsTypes ==
  ASSUME NEW h \in Handles, TypeOK, NEW f \in Files, Attach(h, f)
  PROVE  TypeOK'
<1> USE TypeParts
<1>1. /\ log' = Append(log, f) /\ log' \in Seq(Files)
      /\ Len(log') = Len(log) + 1 /\ Len(log) \in Nat
  BY DEF Attach
<1>2. RowsAreLogged'
  BY <1>1 DEF Attach, RowsAreLogged
<1>3. HandlesOK'
  <2>1. pc[h] = "idle" /\ UNCHANGED <<sStmt, pinned>>
    BY DEF Attach
  <2>2. CASE UNCHANGED <<toMerge, pc>>
    <3>1. toMerge' \in [Handles -> 0 .. Len(log')]
      BY <1>1, <2>2 DEF HandlesOK
    <3> QED
      BY <2>1, <2>2, <3>1 DEF HandlesOK, Constructed
  <2>3. CASE /\ toMerge' = [toMerge EXCEPT ![h] = Len(log')]
             /\ pc' = [pc EXCEPT ![h] = "datas"]
    <3>1. toMerge' \in [Handles -> 0 .. Len(log')]
      BY <1>1, <2>3 DEF HandlesOK
    <3>2. toMerge'[h] # 0 /\ pc'[h] = "datas"
      BY <1>1, <2>3 DEF HandlesOK
    <3>3. \A g \in Handles \ {h} : toMerge'[g] = toMerge[g] /\ pc'[g] = pc[g]
      BY <2>3 DEF HandlesOK
    <3> QED
      BY <2>1, <2>3, <3>1, <3>2, <3>3 DEF HandlesOK, Constructed
  <2> QED
    BY <2>2, <2>3 DEF Attach
<1>4. WriterOK'
  BY LockPasses DEF Attach, HandlesOK, Writing
<1> QED
  BY <1>1, <1>2, <1>3, <1>4, TypePartsNext

LEMMA TypeStep == TypeOK /\ [Next]_dbVars => TypeOK'
<1> SUFFICES ASSUME TypeOK, [Next]_dbVars PROVE TypeOK'
  OBVIOUS
<1>1. CASE UNCHANGED dbVars
  BY <1>1 DEF dbVars, TypeOK, Constructed
<1>2. ASSUME NEW h \in Handles, HandleStep(h) PROVE TypeOK'
  <2>1. ASSUME Disconnect(h) PROVE TypeOK'
    BY <2>1, DisconnectKeepsTypes
  <2>2. CASE Open(h)
    <3>1. CASE pc' = [pc EXCEPT ![h] = "createDatas"] /\ pc[h] = "closed"
               /\ UNCHANGED <<disk, writer, toMerge, sStmt, pinned, log>>
      <4>1. HandlesOK'
        BY <3>1, TypeParts DEF HandlesOK, Constructed
      <4> QED
        BY <3>1, <4>1, TypeParts, CalmStepKeepsTypes DEF HandlesOK, Writing
    <3> QED
      BY <2>1, <2>2, <3>1 DEF Open, Throw
  <2>3. CASE CreateDatas(h) \/ CreateTexts(h)
    BY <2>3, CreateKeepsTypes DEF CreateDatas, CreateTexts
  <2>4. CASE PrepareAttach(h) \/ PrepareSearch(h)
    BY <2>1, <2>4, PreparedKeepsTypes DEF PrepareAttach, PrepareSearch, Throw
  <2>5. CASE MergeDatas(h) \/ MergeTexts(h)
    BY <2>5, MergeKeepsTypes DEF MergeDatas, MergeTexts
  <2>6. CASE Detach(h)
    <3>1. HandlesOK'
      BY <2>6, TypeParts DEF Detach, HandlesOK, Constructed
    <3> QED
      BY <2>6, <3>1, TypeParts, CalmStepKeepsTypes DEF Detach, HandlesOK, Writing
  <2>7. CASE Close(h) \/ Crash(h)
    BY <2>1, <2>7 DEF Close, Crash
  <2>8. CASE \E f \in Files : Attach(h, f)
    BY <2>8, AttachKeepsTypes
  <2>9. CASE \E id \in Ids : CardDataFromCode(h, id)
    <3>1. HandlesOK'
      BY <2>9, TypeParts DEF CardDataFromCode, HandlesOK, Constructed
    <3> QED
      BY <2>9, <3>1, TypeParts, CalmStepKeepsTypes
         DEF CardDataFromCode, HandlesOK, Writing
  <2> QED
    BY <1>2, <2>2, <2>3, <2>4, <2>5, <2>6, <2>7, <2>8, <2>9 DEF HandleStep, GoesOn
<1> QED
  BY <1>1, <1>2 DEF Next

\* The types of the database, that a merging handle has its file attached, that
\* one that is not constructed holds nothing, and that one handle at a time
\* writes (card_database.cpp:81-132).
THEOREM DatabaseTypes == Spec => []TypeOK
<1>1. Init => TypeOK
  BY DEF Init, TypeOK, NoRows
<1> QED
  BY <1>1, TypeStep, PTL DEF Spec

----------------------------------------------------------------------------
(* The cards on the disk *)

\* What a CREATE that has the lock makes is still not there: it looked before
\* it had the lock, and nobody else can have written since.
NewTables ==
  \A h \in writer :
    /\ pc[h] = "createDatas" => "datas" \notin DOMAIN disk
    /\ pc[h] = "createTexts" => "texts" \notin DOMAIN disk

DatabaseInv == TypeOK /\ NewTables

\* The tables of the disk only grow.
DiskGrows ==
  \A t \in DOMAIN disk :
    t \in DOMAIN disk' /\ DOMAIN disk[t] \subseteq DOMAIN disk'[t]

LEMMA WriteGrows ==
  ASSUME NEW h, NEW t, NEW rows, Writes(h, t, rows),
         h \in writer => DOMAIN Table(t) \subseteq DOMAIN rows
  PROVE  DiskGrows
BY DEF Writes, Commits, DiskGrows, Table

\* Every step lets the disk grow.
LEMMA StepGrows == DatabaseInv /\ [Next]_dbVars => DiskGrows
<1> SUFFICES ASSUME DatabaseInv, [Next]_dbVars PROVE DiskGrows
  OBVIOUS
<1>1. ASSUME UNCHANGED disk PROVE DiskGrows
  BY <1>1 DEF DiskGrows
<1>2. CASE UNCHANGED dbVars
  BY <1>1, <1>2 DEF dbVars
<1>3. ASSUME NEW h \in Handles, HandleStep(h) PROVE DiskGrows
  <2>1. CASE CreateDatas(h)
    <3>1. h \in writer => DOMAIN Table("datas") = {}
      BY <2>1 DEF CreateDatas, DatabaseInv, NewTables, Table, NoRows
    <3> QED
      BY <2>1, <3>1, CreateWrites, WriteGrows DEF CreateDatas
  <2>2. CASE CreateTexts(h)
    <3>1. h \in writer => DOMAIN Table("texts") = {}
      BY <2>2 DEF CreateTexts, DatabaseInv, NewTables, Table, NoRows
    <3> QED
      BY <2>2, <3>1, CreateWrites, WriteGrows DEF CreateTexts
  <2>3. CASE MergeDatas(h) \/ MergeTexts(h)
    <3>1. \A t : DOMAIN Table(t) \subseteq DOMAIN Merged(h, t)
      BY DEF Merged, InsertOrReplace
    <3> QED
      BY <2>3, <3>1, MergeWrites, WriteGrows DEF MergeDatas, MergeTexts
  <2>4. CASE Open(h) \/ PrepareAttach(h) \/ PrepareSearch(h)
    BY <1>1, <2>4
       DEF Open, PrepareAttach, PrepareSearch, Prepared, Throw, Disconnect
  <2>5. CASE Close(h) \/ Crash(h)
    BY <1>1, <2>5 DEF Close, Crash, Disconnect
  <2>6. CASE Detach(h) \/ \E f \in Files : Attach(h, f)
    BY <1>1, <2>6 DEF Detach, Attach
  <2>7. CASE \E id \in Ids : CardDataFromCode(h, id)
    BY <1>1, <2>7 DEF CardDataFromCode
  <2> QED
    BY <1>3, <2>1, <2>2, <2>3, <2>4, <2>5, <2>6, <2>7 DEF HandleStep, GoesOn
<1> QED
  BY <1>2, <1>3 DEF Next

\* A handle that keeps the lock keeps its place, and the disk waits for it.
LEMMA WriterWaits ==
  ASSUME TypeOK, [Next]_dbVars, NEW g \in writer, g \in writer'
  PROVE  UNCHANGED <<disk, pc>> \/ (UNCHANGED disk /\ pc'[g] = pc[g])
<1>1. writer = {g} /\ g \in Handles /\ pc[g] \in Writing /\ DOMAIN pc = Handles
  BY TypeParts DEF WriterOK, HandlesOK
<1>2. CASE UNCHANGED dbVars
  BY <1>2 DEF dbVars
<1>3. ASSUME NEW h \in Handles, HandleStep(h)
      PROVE  UNCHANGED disk /\ pc'[g] = pc[g]
  <2>1. CASE h = g
    <3>1. ASSUME Disconnect(h) PROVE FALSE
      BY <2>1, <3>1 DEF Disconnect
    <3>2. ASSUME Create(h, "datas", "createTexts") \/ Create(h, "texts", "attachStmt")
          PROVE  FALSE
      BY <1>1, <2>1, <3>2 DEF Create, Locks, Refused, Commits
    <3>3. ASSUME MergeTable(h, "datas", "texts") \/ MergeTable(h, "texts", "detach")
          PROVE  FALSE
      BY <1>1, <2>1, <3>3 DEF MergeTable, Locks, Refused, Commits
    <3>4. CASE \/ Open(h) \/ PrepareAttach(h) \/ PrepareSearch(h) \/ Detach(h)
               \/ Close(h) \/ \E f \in Files : Attach(h, f)
               \/ \E id \in Ids : CardDataFromCode(h, id)
      BY <1>1, <2>1, <3>4
         DEF Open, PrepareAttach, PrepareSearch, Detach, Close, Attach,
             CardDataFromCode, Writing
    <3> QED
      BY <1>3, <3>1, <3>2, <3>3, <3>4
         DEF HandleStep, GoesOn, CreateDatas, CreateTexts, MergeDatas, MergeTexts,
             Crash
  <2>2. CASE h # g
    <3>1. CASE CreateDatas(h) \/ CreateTexts(h)
      BY <1>1, <2>2, <3>1
         DEF CreateDatas, CreateTexts, Create, Locks, Refused, Commits
    <3>2. CASE MergeDatas(h) \/ MergeTexts(h)
      BY <1>1, <2>2, <3>2
         DEF MergeDatas, MergeTexts, MergeTable, Locks, Refused, Commits
    <3>3. CASE Open(h) \/ PrepareAttach(h) \/ PrepareSearch(h)
      BY <1>1, <2>2, <3>3
         DEF Open, PrepareAttach, PrepareSearch, Prepared, Throw, Disconnect
    <3>4. CASE Close(h) \/ Crash(h) \/ Detach(h)
      BY <1>1, <2>2, <3>4 DEF Close, Crash, Detach, Disconnect
    <3>5. CASE \E f \in Files : Attach(h, f)
      BY <1>1, <2>2, <3>5 DEF Attach
    <3>6. CASE \E id \in Ids : CardDataFromCode(h, id)
      BY <3>6 DEF CardDataFromCode
    <3> QED
      BY <1>3, <3>1, <3>2, <3>3, <3>4, <3>5, <3>6 DEF HandleStep, GoesOn
  <2> QED
    BY <2>1, <2>2
<1> QED
  BY <1>2, <1>3 DEF Next

\* The lock is taken by a CREATE whose table is not there.
LEMMA LockIsForANewTable ==
  ASSUME TypeOK, [Next]_dbVars, NEW g \in writer', g \notin writer
  PROVE  /\ UNCHANGED <<disk, pc>>
         /\ pc[g] = "createDatas" => "datas" \notin DOMAIN disk
         /\ pc[g] = "createTexts" => "texts" \notin DOMAIN disk
<1>1. ~UNCHANGED dbVars
  BY DEF dbVars
<1>2. ASSUME NEW h \in Handles, HandleStep(h)
      PROVE  /\ UNCHANGED <<disk, pc>>
             /\ pc[g] = "createDatas" => "datas" \notin DOMAIN disk
             /\ pc[g] = "createTexts" => "texts" \notin DOMAIN disk
  <2>1. CASE CreateDatas(h) \/ CreateTexts(h)
    BY <2>1 DEF CreateDatas, CreateTexts, Create, Locks, Refused, Commits
  <2>2. CASE MergeDatas(h) \/ MergeTexts(h)
    BY <2>2 DEF MergeDatas, MergeTexts, MergeTable, Locks, Refused, Commits
  <2>3. CASE Open(h) \/ PrepareAttach(h) \/ PrepareSearch(h)
    BY <2>3 DEF Open, PrepareAttach, PrepareSearch, Prepared, Throw, Disconnect
  <2>4. CASE Close(h) \/ Crash(h) \/ Detach(h)
    BY <2>4 DEF Close, Crash, Detach, Disconnect
  <2>5. CASE \E f \in Files : Attach(h, f)
    BY <2>5 DEF Attach
  <2>6. CASE \E id \in Ids : CardDataFromCode(h, id)
    BY <2>6 DEF CardDataFromCode
  <2> QED
    BY <1>2, <2>1, <2>2, <2>3, <2>4, <2>5, <2>6 DEF HandleStep, GoesOn
<1> QED
  BY <1>1, <1>2 DEF Next

LEMMA DatabaseInvStep == DatabaseInv /\ [Next]_dbVars => DatabaseInv'
<1> SUFFICES ASSUME DatabaseInv, [Next]_dbVars PROVE DatabaseInv'
  OBVIOUS
<1>1. TypeOK'
  BY TypeStep DEF DatabaseInv
<1>2. NewTables'
  <2> SUFFICES ASSUME NEW g \in writer'
               PROVE  /\ pc'[g] = "createDatas" => "datas" \notin DOMAIN disk'
                      /\ pc'[g] = "createTexts" => "texts" \notin DOMAIN disk'
    BY DEF NewTables
  <2>1. CASE g \in writer
    BY <2>1, WriterWaits DEF DatabaseInv, NewTables
  <2>2. CASE g \notin writer
    BY <2>2, LockIsForANewTable DEF DatabaseInv
  <2> QED
    BY <2>1, <2>2
<1> QED
  BY <1>1, <1>2 DEF DatabaseInv

LEMMA DatabaseInvariance == Spec => []DatabaseInv
<1>1. Init => DatabaseInv
  BY DEF Init, DatabaseInv, NewTables, TypeOK, NoRows
<1> QED
  BY <1>1, DatabaseInvStep, PTL DEF Spec

\* Merging, reopening and dying never take a card away, whoever shares the
\* database: above all, no CREATE meets a table that another handle's CREATE
\* has made in the meantime (card_database.cpp:59, 64, 88).
THEOREM NoCardIsEverLost == Spec => NoCardIsLost
<1>1. DatabaseInv /\ [Next]_dbVars =>
        [\A t \in DOMAIN disk :
           t \in DOMAIN disk' /\ DOMAIN disk[t] \subseteq DOMAIN disk'[t]]_dbVars
  BY StepGrows DEF DiskGrows
<1> QED
  BY <1>1, DatabaseInvariance, PTL DEF Spec, NoCardIsLost

----------------------------------------------------------------------------
(* Searching *)

\* Only the prepare of the search makes a handle a constructed one.
LEMMA ConstructedBySearch ==
  ASSUME TypeOK, [Next]_dbVars, NEW g \in Handles, Constructed(g)', ~Constructed(g)
  PROVE  "datas" \in DOMAIN disk
<1>0. DOMAIN pc = Handles
  BY TypeParts DEF HandlesOK
<1>1. ~UNCHANGED dbVars
  BY DEF dbVars, Constructed
<1>2. ASSUME NEW h \in Handles, HandleStep(h) PROVE "datas" \in DOMAIN disk
  <2>1. CASE PrepareSearch(h)
    BY <1>0, <2>1 DEF PrepareSearch, Throw, Disconnect, Constructed
  <2>2. CASE Open(h) \/ PrepareAttach(h)
    BY <1>0, <2>2 DEF Open, PrepareAttach, Prepared, Throw, Disconnect, Constructed
  <2>3. CASE CreateDatas(h) \/ CreateTexts(h)
    BY <1>0, <2>3, CreateWrites DEF CreateDatas, CreateTexts, Constructed
  <2>4. CASE MergeDatas(h) \/ MergeTexts(h)
    BY <1>0, <2>4, MergeWrites DEF MergeDatas, MergeTexts, Constructed
  <2>5. CASE Close(h) \/ Crash(h) \/ Detach(h)
    BY <1>0, <2>5 DEF Close, Crash, Detach, Disconnect, Constructed
  <2>6. CASE \E f \in Files : Attach(h, f)
    BY <1>0, <2>6 DEF Attach, Constructed
  <2>7. CASE \E id \in Ids : CardDataFromCode(h, id)
    BY <2>7 DEF CardDataFromCode, Constructed
  <2> QED
    BY <1>2, <2>1, <2>2, <2>3, <2>4, <2>5, <2>6, <2>7 DEF HandleStep, GoesOn
<1> QED
  BY <1>1, <1>2 DEF Next

LEMMA SearchStep ==
  DatabaseInv /\ SearchHasItsTable /\ [Next]_dbVars => SearchHasItsTable'
<1> SUFFICES ASSUME DatabaseInv, SearchHasItsTable, [Next]_dbVars,
                    NEW g \in Handles, Constructed(g)'
             PROVE  "datas" \in DOMAIN disk'
  BY DEF SearchHasItsTable
<1>1. "datas" \in DOMAIN disk
  BY ConstructedBySearch DEF DatabaseInv, SearchHasItsTable
<1> QED
  BY <1>1, StepGrows DEF DiskGrows

\* A handle that its constructor has returned has the table that its search is
\* about, with any number of handles that create it at the same time, are
\* refused, or die with their CREATE in flight (card_database.cpp:88, 103-109).
THEOREM SearchAlwaysHasItsTable == Spec => []SearchHasItsTable
<1>1. Init => SearchHasItsTable
  BY DEF Init, SearchHasItsTable, Constructed
<1> QED
  BY <1>1, SearchStep, DatabaseInvariance, PTL DEF Spec

----------------------------------------------------------------------------
(* One CardDatabase object.  Its constructor throws only if the file cannot *)
(* be opened, wherever processes died before; and if none dies between the  *)
(* two CREATE TABLEs, the object implements the amalgam (CardLibrary).      *)


\* Nobody else can be reading or writing.
LEMMA Alone ==
  ASSUME NEW h, Handles = {h}, TypeOK
  PROVE  /\ ~Busy(h) /\ writer \subseteq {h}
         /\ pc[h] \notin Writing => writer = {}
         /\ DOMAIN pc = {h}
BY TypeParts DEF Busy, WriterOK, HandlesOK

\* What a CREATE of the only object does: it waits for its commit, finds its
\* table there, or makes it.
LEMMA CreateAlone ==
  ASSUME NEW h, Handles = {h}, DatabaseInv, NEW t, NEW next, Create(h, t, next)
  PROVE  \/ UNCHANGED <<disk, pc>>
         \/ t \in DOMAIN disk /\ UNCHANGED disk /\ pc'[h] = "attachStmt"
         \/ h \in writer /\ t \in DOMAIN disk' /\ pc'[h] = next
            /\ disk' = [u \in DOMAIN disk \cup {t} |-> IF u = t THEN NoRows
                                                               ELSE disk[u]]
<1>1. ~Busy(h) /\ DOMAIN pc = {h} /\ (h \notin writer => writer = {})
  BY Alone DEF DatabaseInv
<1> QED
  BY <1>1 DEF Create, Locks, Refused, Commits

----------------------------------------------------------------------------
(* The constructor *)

OpensInv(h) ==
  /\ OpensOrCreates
  /\ pc[h] \in {"createTexts", "attachStmt", "searchStmt"} => "datas" \in DOMAIN disk

LEMMA OpensInvStep ==
  ASSUME NEW h, Handles = {h}, DatabaseInv, OpensInv(h), [Next]_dbVars,
         DOMAIN threw = Handles
  PROVE  OpensInv(h)' /\ DOMAIN threw' = Handles
<1> USE DEF OpensOrCreates
<1>1. CASE UNCHANGED dbVars
  BY <1>1 DEF dbVars, OpensInv
<1>2. CASE HandleStep(h)
  <2>0. DOMAIN pc = {h}
    BY Alone DEF DatabaseInv
  <2>1. CASE Open(h)
    BY <2>0, <2>1 DEF Open, Throw, Disconnect, OpensInv
  <2>2. CASE CreateDatas(h)
    <3>1. "datas" \in DOMAIN disk' \/ UNCHANGED <<disk, pc>>
      BY <2>2, CreateAlone DEF CreateDatas
    <3> QED
      BY <2>2, <3>1, CreateWrites DEF CreateDatas, OpensInv
  <2>3. CASE CreateTexts(h)
    <3>1. "datas" \in DOMAIN disk'
      BY <2>3, StepGrows DEF DiskGrows, CreateTexts, OpensInv
    <3> QED
      BY <2>3, <3>1, CreateWrites DEF CreateTexts, OpensInv
  <2>4. CASE PrepareAttach(h)
    <3>1. writer = {}
      BY <2>4, Alone DEF PrepareAttach, DatabaseInv, Writing
    <3> QED
      BY <2>0, <2>4, <3>1 DEF PrepareAttach, Prepared, OpensInv
  <2>5. CASE PrepareSearch(h)
    <3>1. writer = {} /\ "datas" \in DOMAIN disk
      BY <2>5, Alone DEF PrepareSearch, DatabaseInv, Writing, OpensInv
    <3> QED
      BY <2>0, <2>5, <3>1 DEF PrepareSearch, Prepared, OpensInv
  <2>6. CASE MergeDatas(h) \/ MergeTexts(h)
    BY <2>0, <2>6, MergeWrites DEF MergeDatas, MergeTexts, OpensInv
  <2>7. CASE Detach(h) \/ Close(h) \/ Crash(h)
    BY <2>0, <2>7 DEF Detach, Close, Crash, Disconnect, OpensInv
  <2>8. CASE \E f \in Files : Attach(h, f)
    BY <2>0, <2>8 DEF Attach, OpensInv
  <2>9. CASE \E id \in Ids : CardDataFromCode(h, id)
    BY <2>9 DEF CardDataFromCode, OpensInv
  <2> QED
    BY <1>2, <2>1, <2>2, <2>3, <2>4, <2>5, <2>6, <2>7, <2>8, <2>9
       DEF HandleStep, GoesOn
<1> QED
  BY <1>1, <1>2 DEF Next

\* The constructor of the only object opens or creates the database, unless
\* SQLite cannot open the file, also where a process died in an earlier
\* constructor (card_database.hpp:20, card_database.cpp:84-110).
THEOREM OneHandleOpens ==
  ASSUME NEW h, Handles = {h}
  PROVE  Spec => []OpensOrCreates
<1> DEFINE Inv == OpensInv(h) /\ DOMAIN threw = Handles
<1>1. Init => Inv
  BY DEF Init, OpensInv, OpensOrCreates
<1>2. DatabaseInv /\ Inv /\ [Next]_dbVars => Inv'
  BY OpensInvStep
<1>3. Inv => OpensOrCreates
  BY DEF OpensInv
<1> QED
  BY <1>1, <1>2, <1>3, DatabaseInvariance, PTL DEF Spec

----------------------------------------------------------------------------
(* Merging *)

\* The rows of a table of the file that h is merging are on the disk.
IsMerged(h, t) ==
  t \in DOMAIN Tables(h) =>
    /\ t \in DOMAIN disk
    /\ \A id \in Tables(h)[t] :
         id \in DOMAIN disk[t] /\ disk[t][id] = toMerge[h]

\* What holds of the only handle h: the database has both of its tables, but
\* while the constructor is between them, and what h has merged is in them.
MergeInv(h) ==
  /\ pc[h] # "createTexts" /\ "datas" \in DOMAIN disk => "texts" \in DOMAIN disk
  /\ \A t \in {"datas", "texts"} :
       h \in writer /\ pc[h] = t => t \in DOMAIN Tables(h)
  /\ pc[h] \in {"texts", "detach"} => IsMerged(h, "datas")
  /\ pc[h] = "detach" => IsMerged(h, "texts")

AmalgamInv(h) == DatabaseInv /\ SearchHasItsTable /\ MergeInv(h)

\* A constructed object has both tables.
LEMMA BothTables ==
  ASSUME NEW h, Handles = {h}, AmalgamInv(h), Constructed(h)
  PROVE  {"datas", "texts"} \subseteq DOMAIN disk
BY DEF AmalgamInv, SearchHasItsTable, MergeInv, Constructed

\* What a merge of a table does: it waits for its commit, or puts the rows of
\* the table, if the file has it, over the ones of the disk.
LEMMA MergeAlone ==
  ASSUME NEW h, Handles = {h}, AmalgamInv(h), Constructed(h),
         NEW t \in {"datas", "texts"}, pc[h] = t, NEW next, next # t,
         MergeTable(h, t, next)
  PROVE  \/ /\ UNCHANGED <<disk, pc, toMerge, log>>
            /\ t \in DOMAIN Tables(h)
         \/ /\ pc'[h] = next /\ writer' = {}
            /\ DOMAIN disk' = DOMAIN disk
            /\ \A u \in DOMAIN disk \ {t} : disk'[u] = disk[u]
            /\ disk'[t] = IF t \in DOMAIN Tables(h) THEN Merged(h, t) ELSE disk[t]
            /\ UNCHANGED <<toMerge, log>>
<1>1. ~Busy(h) /\ DOMAIN pc = {h} /\ writer \subseteq {h}
  BY Alone DEF AmalgamInv, DatabaseInv
<1>2. t \in DOMAIN disk /\ Table(t) = disk[t]
  BY BothTables DEF Table
<1>3. CASE Locks(h, CanMerge(h, t))
  BY <1>3 DEF Locks, CanMerge, MergeTable
<1>4. CASE Refused(h, CanMerge(h, t)) /\ pc' = [pc EXCEPT ![h] = next]
  <2>1. h \notin writer /\ t \notin DOMAIN Tables(h) /\ UNCHANGED disk
    BY <1>1, <1>2, <1>4 DEF Refused, CanMerge
  <2> QED
    BY <1>1, <1>4, <2>1 DEF MergeTable, Refused
<1>5. CASE Commits(h, t, Merged(h, t)) /\ pc' = [pc EXCEPT ![h] = next]
  <2>1. t \in DOMAIN Tables(h)
    BY <1>5 DEF Commits, AmalgamInv, MergeInv
  <2>2. disk' = [u \in DOMAIN disk \cup {t} |-> IF u = t THEN Merged(h, t)
                                                        ELSE disk[u]]
    BY <1>5 DEF Commits
  <2>3. DOMAIN disk' = DOMAIN disk
    BY <1>2, <2>2
  <2> QED
    BY <1>1, <1>5, <2>1, <2>2, <2>3 DEF Commits, MergeTable
<1> QED
  BY <1>3, <1>4, <1>5 DEF MergeTable, Merged

LEMMA MergedIsMerged ==
  ASSUME NEW h, NEW t \in DOMAIN disk', UNCHANGED <<toMerge, log>>,
         t \in DOMAIN Tables(h) => disk'[t] = Merged(h, t)
  PROVE  IsMerged(h, t)'
BY DEF IsMerged, Merged, InsertOrReplace, Tables

LEMMA MergeInvStep ==
  ASSUME NEW h, Handles = {h}, "createTexts" \notin CrashPoints, AmalgamInv(h),
         [Next]_dbVars
  PROVE  MergeInv(h)'
<1>0. /\ DatabaseInv /\ TypeOK /\ MergeInv(h)
      /\ DOMAIN pc = {h} /\ ~Busy(h) /\ writer \subseteq {h}
      /\ pc[h] \notin Writing => writer = {}
  BY Alone DEF AmalgamInv, DatabaseInv
<1>1. CASE UNCHANGED dbVars
  BY <1>0, <1>1 DEF dbVars, MergeInv, IsMerged, Tables
<1>2. CASE HandleStep(h)
  <2>1. CASE Open(h)
    BY <1>0, <2>1 DEF Open, Throw, Disconnect, MergeInv
  <2>2. CASE CreateDatas(h)
    <3>1. pc[h] = "createDatas" /\ Create(h, "datas", "createTexts")
      BY <2>2 DEF CreateDatas
    <3>2. pc'[h] \in {"createDatas", "createTexts", "attachStmt"}
      BY <1>0, <3>1, CreateWrites
    <3>3. CASE pc'[h] # "createTexts"
      BY <1>0, <3>1, <3>2, <3>3, CreateAlone DEF MergeInv
    <3> QED
      BY <3>2, <3>3 DEF MergeInv
  <2>3. CASE CreateTexts(h)
    <3>1. pc[h] = "createTexts" /\ Create(h, "texts", "attachStmt")
      BY <2>3 DEF CreateTexts
    <3>2. pc'[h] \in {"createTexts", "attachStmt"}
      BY <1>0, <3>1, CreateWrites
    <3>3. CASE pc'[h] # "createTexts"
      BY <1>0, <3>1, <3>2, <3>3, CreateAlone DEF MergeInv
    <3> QED
      BY <3>2, <3>3 DEF MergeInv
  <2>4. CASE PrepareAttach(h) \/ PrepareSearch(h)
    BY <1>0, <2>4 DEF PrepareAttach, PrepareSearch, Prepared, Throw, Disconnect,
                      MergeInv
  <2>5. CASE MergeDatas(h)
    <3>1. pc[h] = "datas" /\ MergeTable(h, "datas", "texts")
      BY <2>5 DEF MergeDatas
    <3>2. {"datas", "texts"} \subseteq DOMAIN disk /\ Constructed(h)
      BY <3>1, BothTables DEF Constructed
    <3>3. CASE UNCHANGED <<disk, pc, toMerge, log>> /\ "datas" \in DOMAIN Tables(h)
      BY <1>0, <3>1, <3>3 DEF MergeInv, Tables
    <3>4. CASE /\ pc'[h] = "texts" /\ writer' = {} /\ DOMAIN disk' = DOMAIN disk
               /\ UNCHANGED <<toMerge, log>>
               /\ "datas" \in DOMAIN Tables(h) => disk'["datas"] = Merged(h, "datas")
      <4>1. IsMerged(h, "datas")'
        BY <3>2, <3>4, MergedIsMerged
      <4> QED
        BY <3>2, <3>4, <4>1 DEF MergeInv
    <3> QED
      BY <3>1, <3>2, <3>3, <3>4, MergeAlone
  <2>6. CASE MergeTexts(h)
    <3>1. pc[h] = "texts" /\ MergeTable(h, "texts", "detach")
      BY <2>6 DEF MergeTexts
    <3>2. {"datas", "texts"} \subseteq DOMAIN disk /\ Constructed(h)
      BY <3>1, BothTables DEF Constructed
    <3>3. CASE UNCHANGED <<disk, pc, toMerge, log>> /\ "texts" \in DOMAIN Tables(h)
      BY <1>0, <3>1, <3>3 DEF MergeInv, IsMerged, Tables
    <3>4. CASE /\ pc'[h] = "detach" /\ writer' = {} /\ DOMAIN disk' = DOMAIN disk
               /\ UNCHANGED <<toMerge, log>>
               /\ disk'["datas"] = disk["datas"]
               /\ "texts" \in DOMAIN Tables(h) => disk'["texts"] = Merged(h, "texts")
      <4>1. IsMerged(h, "texts")'
        BY <3>2, <3>4, MergedIsMerged
      <4>2. IsMerged(h, "datas")'
        BY <1>0, <3>1, <3>4 DEF MergeInv, IsMerged, Tables
      <4> QED
        BY <3>2, <3>4, <4>1, <4>2 DEF MergeInv
    <3> QED
      BY <3>1, <3>2, <3>3, <3>4, MergeAlone
  <2>7. CASE Detach(h)
    BY <1>0, <2>7 DEF Detach, MergeInv, Writing
  <2>8. CASE Close(h) \/ Crash(h)
    BY <1>0, <2>8 DEF Close, Crash, Disconnect, MergeInv
  <2>9. CASE \E f \in Files : Attach(h, f)
    BY <1>0, <2>9 DEF Attach, MergeInv, Writing
  <2>10. CASE \E id \in Ids : CardDataFromCode(h, id)
    BY <1>0, <2>10 DEF CardDataFromCode, MergeInv
  <2> QED
    BY <1>2, <2>1, <2>2, <2>3, <2>4, <2>5, <2>6, <2>7, <2>8, <2>9, <2>10
       DEF HandleStep, GoesOn
<1> QED
  BY <1>1, <1>2 DEF Next

LEMMA AmalgamInvariance ==
  ASSUME NEW h, Handles = {h}, "createTexts" \notin CrashPoints
  PROVE  Spec => []AmalgamInv(h)
<1>1. Init => AmalgamInv(h)
  BY DEF Init, AmalgamInv, DatabaseInv, NewTables, TypeOK, NoRows, Constructed,
         SearchHasItsTable, MergeInv
<1>2. AmalgamInv(h) /\ [Next]_dbVars => AmalgamInv(h)'
  BY DatabaseInvStep, SearchStep, MergeInvStep DEF AmalgamInv
<1> QED
  BY <1>1, <1>2, PTL DEF Spec

\* When a Merge of the only object returns true, the rows of the file are in
\* both tables (card_database.hpp:24, card_database.cpp:128-131).
THEOREM AcceptedMergeIsOnDisk ==
  ASSUME NEW h, Handles = {h}, "createTexts" \notin CrashPoints
  PROVE  Spec => AcceptedIsOnDisk
<1>1. AmalgamInv(h) => AcceptsRowsOnDisk
  <2> SUFFICES ASSUME AmalgamInv(h), pc[h] = "detach", NEW t \in DOMAIN Tables(h)
               PROVE  \A id \in Tables(h)[t] :
                        id \in DOMAIN Table(t) /\ Table(t)[id] = toMerge[h]
    BY DEF AcceptsRowsOnDisk
  <2>1. log[toMerge[h]] \in Files
    BY DEF AmalgamInv, DatabaseInv, TypeOK
  <2>2. t \in {"datas", "texts"}
    BY <2>1, FilesAssumption DEF Tables
  <2>3. IsMerged(h, t)
    BY <2>2 DEF AmalgamInv, MergeInv
  <2> QED
    BY <2>3 DEF IsMerged, Table
<1>2. Spec => []AmalgamInv(h)
  BY AmalgamInvariance
<1> QED
  BY <1>1, <1>2, PTL DEF AcceptedIsOnDisk

----------------------------------------------------------------------------
(* The refinement *)

\* The rows of a table, by the file they are from.
Shown(t) == FilesOf(Table(t))

\* What is merged has its data in and its texts not yet.
Pending == {log[toMerge[g]] : g \in {g \in Handles : pc[g] = "texts"}}

InUse == \E g \in Handles : Constructed(g)

\* Rows of earlier merges keep their files when the log grows.
LEMMA ShownStays ==
  ASSUME TypeOK, NEW t, Table(t)' = Table(t),
         log' = log \/ \E f \in Files : log' = Append(log, f)
  PROVE  Shown(t)' = Shown(t)
<1>1. log \in Seq(Files) /\ Len(log) \in Nat
  BY DEF TypeOK
<1>2. \A n \in 1 .. Len(log) : log'[n] = log[n]
  BY <1>1
<1>3. Table(t) \in [DOMAIN Table(t) -> 1 .. Len(log)]
  BY DEF TypeOK, Table, NoRows
<1> QED
  BY <1>2, <1>3 DEF Shown, FilesOf

\* A merged table shows its new rows over the old ones.
LEMMA MergeShows ==
  ASSUME NEW h, NEW t \in DOMAIN disk, UNCHANGED <<log, toMerge>>,
         DOMAIN disk' = DOMAIN disk,
         disk'[t] = IF t \in DOMAIN Tables(h) THEN Merged(h, t) ELSE disk[t]
  PROVE  Shown(t)' = Library!Over(log[toMerge[h]], t, Shown(t))
<1> DEFINE f == log[toMerge[h]]
<1>1. Table(t) = disk[t] /\ Table(t)' = disk'[t] /\ Tables(h) = Rows[f]
  BY DEF Table, Tables
<1>2. CASE t \in DOMAIN Rows[f]
  <2>1. Shown(t)' = [id \in DOMAIN disk[t] \cup Rows[f][t] |->
                       IF id \in Rows[f][t] THEN f ELSE log[disk[t][id]]]
    BY <1>1, <1>2 DEF Shown, FilesOf, Merged, InsertOrReplace
  <2> QED
    BY <1>1, <1>2, <2>1 DEF Library!Over, Shown, FilesOf
<1>3. CASE t \notin DOMAIN Rows[f]
  BY <1>1, <1>3 DEF Shown, FilesOf, Library!Over
<1> QED
  BY <1>2, <1>3

\* The mapped step of every step of the only object.
LibraryStep == [Library!Next]_(Library!libraryVars)

LEMMA StutterIsStep ==
  ASSUME Shown("datas")' = Shown("datas"), Shown("texts")' = Shown("texts"),
         Pending' = Pending, InUse' <=> InUse
  PROVE  LibraryStep
BY DEF LibraryStep, Library!libraryVars, Shown, Pending, InUse

\* A step that leaves the tables as they are shown, and merges no data.
LEMMA CalmIsStep ==
  ASSUME NEW h, Handles = {h}, DatabaseInv,
         \A t \in {"datas", "texts"} : Table(t)' = Table(t),
         log' = log \/ \E f \in Files : log' = Append(log, f),
         pc[h] # "texts", pc'[h] # "texts"
  PROVE  LibraryStep
<1>1. Shown("datas")' = Shown("datas") /\ Shown("texts")' = Shown("texts")
  BY ShownStays DEF DatabaseInv
<1>2. Pending = {} /\ Pending' = {}
  BY DEF Pending
<1>3. CASE InUse' <=> InUse
  BY <1>1, <1>2, <1>3, StutterIsStep
<1>4. CASE InUse' /\ ~InUse
  BY <1>1, <1>2, <1>4
     DEF LibraryStep, Library!Next, Library!Enter, Shown, Pending, InUse
<1>5. CASE ~InUse' /\ InUse
  BY <1>1, <1>2, <1>5
     DEF LibraryStep, Library!Next, Library!Leave, Shown, Pending, InUse
<1> QED
  BY <1>3, <1>4, <1>5

\* The object is destroyed, its constructor throws, or its process dies.
LEMMA DisconnectIsStep ==
  ASSUME NEW h, Handles = {h}, DatabaseInv, Disconnect(h)
  PROVE  LibraryStep
<1>1. pc'[h] = "closed" /\ disk' = disk /\ log' = log
  BY Alone DEF Disconnect, DatabaseInv
<1>2. CASE Constructed(h)
  <2>1. Shown("datas")' = Shown("datas") /\ Shown("texts")' = Shown("texts")
    BY <1>1 DEF Shown, FilesOf, Table
  <2>2. Pending' = {} /\ InUse /\ ~InUse'
    BY <1>1, <1>2 DEF Pending, InUse, Constructed
  <2> QED
    BY <2>1, <2>2
       DEF LibraryStep, Library!Next, Library!Leave, Shown, Pending, InUse
<1>3. CASE ~Constructed(h)
  BY <1>1, <1>3, CalmIsStep DEF Constructed, Table
<1> QED
  BY <1>2, <1>3

\* A table that is created shows what a table that is missing does: nothing.
LEMMA CreateIsStep ==
  ASSUME NEW h, Handles = {h}, DatabaseInv, NEW t \in {"datas", "texts"},
         NEW next \in {"createTexts", "attachStmt"}, Create(h, t, next),
         h \in writer => t \notin DOMAIN disk,
         pc[h] # "texts"
  PROVE  LibraryStep
<1>1. \A u \in {"datas", "texts"} : Table(u)' = Table(u)
  <2>1. CASE disk' = disk
    BY <2>1 DEF Table
  <2>2. CASE /\ t \notin DOMAIN disk
             /\ disk' = [u \in DOMAIN disk \cup {t} |-> IF u = t THEN NoRows
                                                                 ELSE disk[u]]
    <3>1. DOMAIN disk' = DOMAIN disk \cup {t} /\ disk'[t] = NoRows
      BY <2>2
    <3>2. \A u \in DOMAIN disk : disk'[u] = disk[u]
      BY <2>2
    <3> QED
      BY <2>2, <3>1, <3>2 DEF Table
  <2> QED
    BY <2>1, <2>2, CreateAlone
<1>2. log' = log /\ pc'[h] # "texts"
  BY CreateWrites, Alone DEF DatabaseInv
<1> QED
  BY <1>1, <1>2, CalmIsStep

LEMMA MergeDatasIsStep ==
  ASSUME NEW h, Handles = {h}, AmalgamInv(h), MergeDatas(h)
  PROVE  LibraryStep
<1>1. /\ pc[h] = "datas" /\ MergeTable(h, "datas", "texts")
      /\ Constructed(h) /\ TypeOK /\ DatabaseInv
  BY DEF MergeDatas, Constructed, AmalgamInv, DatabaseInv
<1>2. {"datas", "texts"} \subseteq DOMAIN disk
  BY <1>1, BothTables
<1>3. CASE UNCHANGED <<disk, pc, toMerge, log>>
  BY <1>1, <1>3, CalmIsStep DEF Table
<1>4. CASE /\ pc'[h] = "texts" /\ DOMAIN disk' = DOMAIN disk
           /\ disk'["texts"] = disk["texts"]
           /\ disk'["datas"] = IF "datas" \in DOMAIN Tables(h)
                               THEN Merged(h, "datas") ELSE disk["datas"]
           /\ UNCHANGED <<toMerge, log>>
  <2>1. PICK f \in Files : f = log[toMerge[h]]
    BY <1>1 DEF TypeOK
  <2>2. Shown("datas")' = Library!Over(f, "datas", Shown("datas"))
    BY <1>2, <1>4, <2>1, MergeShows
  <2>3. Shown("texts")' = Shown("texts")
    BY <1>4 DEF Shown, FilesOf, Table
  <2>4. Pending = {} /\ Pending' = {f}
    BY <1>1, <1>4, <2>1 DEF Pending
  <2>5. InUse /\ InUse'
    BY <1>1, <1>4 DEF InUse, Constructed
  <2>6. Library!Begin(f)
    BY <2>2, <2>3, <2>4, <2>5 DEF Library!Begin, Shown, Pending, InUse
  <2> QED
    BY <2>6 DEF LibraryStep, Library!Next
<1> QED
  BY <1>1, <1>2, <1>3, <1>4, MergeAlone

LEMMA MergeTextsIsStep ==
  ASSUME NEW h, Handles = {h}, AmalgamInv(h), MergeTexts(h)
  PROVE  LibraryStep
<1>1. /\ pc[h] = "texts" /\ MergeTable(h, "texts", "detach")
      /\ Constructed(h) /\ TypeOK /\ DatabaseInv
  BY DEF MergeTexts, Constructed, AmalgamInv, DatabaseInv
<1>2. {"datas", "texts"} \subseteq DOMAIN disk
  BY <1>1, BothTables
<1>3. CASE UNCHANGED <<disk, pc, toMerge, log>>
  BY <1>3, StutterIsStep DEF Shown, FilesOf, Table, Pending, InUse, Constructed
<1>4. CASE /\ pc'[h] = "detach" /\ DOMAIN disk' = DOMAIN disk
           /\ disk'["datas"] = disk["datas"]
           /\ disk'["texts"] = IF "texts" \in DOMAIN Tables(h)
                               THEN Merged(h, "texts") ELSE disk["texts"]
           /\ UNCHANGED <<toMerge, log>>
  <2>1. PICK f \in Files : f = log[toMerge[h]]
    BY <1>1 DEF TypeOK
  <2>2. Shown("texts")' = Library!Over(f, "texts", Shown("texts"))
    BY <1>2, <1>4, <2>1, MergeShows
  <2>3. Shown("datas")' = Shown("datas")
    BY <1>4 DEF Shown, FilesOf, Table
  <2>4. Pending = {f} /\ Pending' = {}
    BY <1>1, <1>4, <2>1 DEF Pending
  <2>5. InUse /\ InUse'
    BY <1>1, <1>4 DEF InUse, Constructed
  <2>6. Library!Finish(f)
    BY <2>2, <2>3, <2>4, <2>5 DEF Library!Finish, Shown, Pending, InUse
  <2> QED
    BY <2>6 DEF LibraryStep, Library!Next
<1> QED
  BY <1>1, <1>2, <1>3, <1>4, MergeAlone

LEMMA RefinementStep ==
  ASSUME NEW h, Handles = {h}, AmalgamInv(h), [Next]_dbVars
  PROVE  LibraryStep
<1>0. DatabaseInv /\ DOMAIN pc = {h}
  BY Alone DEF AmalgamInv, DatabaseInv
<1>1. CASE UNCHANGED dbVars
  BY StutterIsStep, <1>1
     DEF dbVars, Shown, FilesOf, Table, Pending, InUse, Constructed
<1>2. CASE HandleStep(h)
  <2>1. CASE Open(h)
    BY <1>0, <2>1, DisconnectIsStep, CalmIsStep DEF Open, Throw, Table
  <2>2. CASE CreateDatas(h)
    BY <1>0, <2>2, CreateIsStep DEF CreateDatas, DatabaseInv, NewTables
  <2>3. CASE CreateTexts(h)
    BY <1>0, <2>3, CreateIsStep DEF CreateTexts, DatabaseInv, NewTables
  <2>4. CASE PrepareAttach(h) \/ PrepareSearch(h)
    BY <1>0, <2>4, DisconnectIsStep, CalmIsStep
       DEF PrepareAttach, PrepareSearch, Prepared, Throw, Table
  <2>5. CASE MergeDatas(h) \/ MergeTexts(h)
    BY <2>5, MergeDatasIsStep, MergeTextsIsStep
  <2>6. CASE Detach(h)
    BY <1>0, <2>6, CalmIsStep DEF Detach, Table
  <2>7. CASE Close(h) \/ Crash(h)
    BY <1>0, <2>7, DisconnectIsStep DEF Close, Crash
  <2>8. CASE \E f \in Files : Attach(h, f)
    BY <1>0, <2>8, CalmIsStep DEF Attach, Table
  <2>9. CASE \E id \in Ids : CardDataFromCode(h, id)
    BY <1>0, <2>9, CalmIsStep DEF CardDataFromCode, Table
  <2> QED
    BY <1>2, <2>1, <2>2, <2>3, <2>4, <2>5, <2>6, <2>7, <2>8, <2>9
       DEF HandleStep, GoesOn
<1> QED
  BY <1>1, <1>2 DEF Next

\* One object is an amalgam of card databases: whatever files it is given, with
\* lookups between the merges, after reopening, and if the process dies in a
\* merge; only a process that dies leaves a file's texts out
\* (card_database.cpp:119-132).
THEOREM OneHandleIsALibrary ==
  ASSUME NEW h, Handles = {h}, "createTexts" \notin CrashPoints
  PROVE  Spec => IsLibrary
<1>1. Init => Library!Init
  BY DEF Init, Library!Init, FilesOf, Table, NoRows, Library!NoRows, Constructed
<1>2. AmalgamInv(h) /\ [Next]_dbVars => [Library!Next]_(Library!libraryVars)
  BY RefinementStep DEF LibraryStep
<1>3. Spec => []AmalgamInv(h)
  BY AmalgamInvariance
<1> QED
  BY <1>1, <1>2, <1>3, PTL DEF Spec, IsLibrary, Library!Spec
=============================================================================
