---------------------------- MODULE CardDatabase ----------------------------
(***************************************************************************)
(* YGOpen::CardDatabase (card_database.cpp): an object that holds an SQLite *)
(* connection, merges other card databases into its own one and looks cards *)
(* up in it.  Every handle is one object; they share the database file, as  *)
(* servers that open the same path do (a run with one handle is also the    *)
(* in-memory database).  The statements of different handles interleave,    *)
(* one that writes is in flight from its lock to its commit, and a process  *)
(* may die at any time.                                                     *)
(*                                                                          *)
(* SQLite is not part of the repository.  What the model takes from it, as  *)
(* it is with its default journal and without a busy handler:               *)
(*   - one connection at a time has the lock to write; another that wants   *)
(*     it is refused;                                                       *)
(*   - a statement that is at a row keeps the database it reads locked      *)
(*     until it is reset or ends: no other connection can commit then, and  *)
(*     a database attached to the same connection cannot be detached once   *)
(*     it has been read;                                                    *)
(*   - while a connection writes, what others read or prepare may be        *)
(*     refused: it is, once the writer shuts the readers out;               *)
(*   - a name can be attached once;                                         *)
(*   - a statement that is refused, or whose process dies, has no effect.   *)
(***************************************************************************)
EXTENDS Integers, Sequences, TLC

CONSTANTS
  Handles,      \* the CardDatabase objects
  Files,        \* the paths that Merge is called with
  Rows,         \* for every file, its tables: for each the set of card ids
  Attachable,   \* the files that SQLite can open as a database
  Ids,          \* the cards that are looked up
  CrashPoints,  \* the values of pc at which a process may die
  MaxMerges     \* bound on the calls of Merge

ASSUME FilesAssumption ==
  /\ Attachable \subseteq Files
  /\ \A f \in Files : DOMAIN Rows[f] \subseteq {"datas", "texts"}

VARIABLES
  disk,      \* the tables of the database file: id -> number of the merge
  pc,        \* where each handle is in its current call
  writer,    \* the handle whose statement has the lock to write, if any
  toMerge,   \* the number of the merge whose file is attached, 0 for none
  sStmt,     \* the search statement: "reset", or at a "row"
  pinned,    \* was toMerge read by a handle while its search was at a row?
  log,       \* history: the files of the merges, in the order they attached
  outcome,   \* history: the file and the result of the last merge
  threw      \* history: the step at which the last constructor threw

dbVars == <<disk, pc, writer, toMerge, sStmt, pinned, log, outcome, threw>>

NoRows == [id \in {} |-> id]

NoOutcome == [file |-> "none", ok |-> TRUE]

Table(t) == IF t \in DOMAIN disk THEN disk[t] ELSE NoRows

Constructed(h) == pc[h] \in {"idle", "datas", "texts", "detach"}

----------------------------------------------------------------------------
(* A statement that writes *)

\* Another connection that is at a row keeps this one from committing.
Busy(h) == \E g \in Handles \ {h} : sStmt[g] = "row"

\* The statement could be prepared, and takes the lock.
Locks(h, prepared) ==
  /\ prepared /\ writer = {}
  /\ writer' = {h}
  /\ UNCHANGED <<disk, pc>>

\* It could not be prepared, or another connection writes or reads.
Refused(h, prepared) ==
  /\ IF h \in writer THEN Busy(h) ELSE ~prepared \/ writer # {}
  /\ writer' = writer \ {h}
  /\ UNCHANGED disk

Commits(h, t, rows) ==
  /\ h \in writer /\ ~Busy(h)
  /\ writer' = writer \ {h}
  /\ disk' = [u \in DOMAIN disk \cup {t} |-> IF u = t THEN rows ELSE disk[u]]

----------------------------------------------------------------------------
(* The destructor, and the end of the process *)

\* Mutant: the search statement is not finalized, its lock stays.
DisconnectKeepsSearch(h) ==
  /\ pc' = [pc EXCEPT ![h] = "closed"]
  /\ writer' = writer \ {h}
  /\ toMerge' = [toMerge EXCEPT ![h] = 0]
  /\ pinned' = [pinned EXCEPT ![h] = FALSE]
  /\ outcome' = [outcome EXCEPT ![h] = NoOutcome]
  /\ UNCHANGED <<disk, log, sStmt>>

\* The connection goes, with its locks and what is attached to it; what it was
\* writing is rolled back.
Disconnect(h) ==
  /\ pc' = [pc EXCEPT ![h] = "closed"]
  /\ writer' = writer \ {h}
  /\ toMerge' = [toMerge EXCEPT ![h] = 0]
  /\ sStmt' = [sStmt EXCEPT ![h] = "reset"]
  /\ pinned' = [pinned EXCEPT ![h] = FALSE]
  /\ outcome' = [outcome EXCEPT ![h] = NoOutcome]
  /\ UNCHANGED <<disk, log>>

Close(h) == pc[h] = "idle" /\ Disconnect(h) /\ UNCHANGED threw

Crash(h) ==
  pc[h] \in CrashPoints \ {"closed"} /\ Disconnect(h) /\ UNCHANGED threw

----------------------------------------------------------------------------
(* The constructor *)

Throw(h, step) == Disconnect(h) /\ threw' = [threw EXCEPT ![h] = step]

\* Mutant: the schema script is not run.
OpenWithoutSchema(h) ==
  /\ pc[h] = "closed"
  /\ pc' = [pc EXCEPT ![h] = "attachStmt"]
  /\ threw' = [threw EXCEPT ![h] = "no"]
  /\ UNCHANGED <<disk, writer, toMerge, sStmt, pinned, log, outcome>>

\* sqlite3_open: the file may not be one that can be opened.
Open(h) ==
  /\ pc[h] = "closed"
  /\ \/ Throw(h, "open")
     \/ /\ pc' = [pc EXCEPT ![h] = "createDatas"]
        /\ threw' = [threw EXCEPT ![h] = "no"]
        /\ UNCHANGED <<disk, writer, toMerge, sStmt, pinned, log, outcome>>

\* Mutant: a table that exists is made anew.
CreateAgain(h, t, next) ==
  /\ \/ Locks(h, TRUE)
     \/ Refused(h, TRUE) /\ pc' = [pc EXCEPT ![h] = "attachStmt"]
     \/ Commits(h, t, NoRows) /\ pc' = [pc EXCEPT ![h] = next]
  /\ UNCHANGED <<toMerge, sStmt, pinned, log, outcome, threw>>

\* CREATE TABLE cannot be prepared where the table exists.  A statement that
\* fails ends the script, and the constructor goes on, as no error of it is
\* SQLITE_ABORT.
Create(h, t, next) ==
  /\ \/ Locks(h, t \notin DOMAIN disk)
     \/ /\ Refused(h, t \notin DOMAIN disk)
        /\ pc' = [pc EXCEPT ![h] = "attachStmt"]
     \/ Commits(h, t, NoRows) /\ pc' = [pc EXCEPT ![h] = next]
  /\ UNCHANGED <<toMerge, sStmt, pinned, log, outcome, threw>>

CreateDatas(h) == pc[h] = "createDatas" /\ Create(h, "datas", "createTexts")

CreateTexts(h) == pc[h] = "createTexts" /\ Create(h, "texts", "attachStmt")

\* The statement is prepared and the constructor goes on.
Prepared(h, next) ==
  /\ pc' = [pc EXCEPT ![h] = next]
  /\ UNCHANGED <<disk, writer, toMerge, sStmt, pinned, log, outcome, threw>>

\* ATTACH names no table; that the schema cannot be read makes it fail.
PrepareAttach(h) ==
  /\ pc[h] = "attachStmt"
  /\ Prepared(h, "searchStmt") \/ (writer # {} /\ Throw(h, "attach"))

\* Mutant: the result of the prepare is not looked at.
PrepareSearchUnchecked(h) == pc[h] = "searchStmt" /\ Prepared(h, "idle")

\* The table that the search is about has to be there.
PrepareSearch(h) ==
  /\ pc[h] = "searchStmt"
  /\ \/ "datas" \in DOMAIN disk /\ Prepared(h, "idle")
     \/ ("datas" \notin DOMAIN disk \/ writer # {}) /\ Throw(h, "search")

----------------------------------------------------------------------------
(* Merge *)

\* ATTACH ? AS toMerge: false if the file is no database or the name is taken.
Attach(h, f) ==
  LET ok == f \in Attachable /\ toMerge[h] = 0
  IN  /\ pc[h] = "idle" /\ Len(log) < MaxMerges
      /\ log' = Append(log, f)
      /\ IF ok
         THEN /\ toMerge' = [toMerge EXCEPT ![h] = Len(log')]
              /\ pc' = [pc EXCEPT ![h] = "datas"]
              /\ UNCHANGED outcome
         ELSE /\ outcome' = [outcome EXCEPT ![h] = [file |-> f, ok |-> FALSE]]
              /\ UNCHANGED <<toMerge, pc>>
      /\ UNCHANGED <<disk, writer, sStmt, pinned, threw>>

\* Mutant: INSERT OR IGNORE.
InsertOrIgnore(rows, ids, n) ==
  [id \in DOMAIN rows \cup ids |-> IF id \in DOMAIN rows THEN rows[id] ELSE n]

InsertOrReplace(rows, ids, n) ==
  [id \in DOMAIN rows \cup ids |-> IF id \in ids THEN n ELSE rows[id]]

\* The tables of the file that h has attached.
Tables(h) == Rows[log[toMerge[h]]]

\* Can INSERT INTO t SELECT * FROM toMerge.t be prepared?
CanMerge(h, t) == t \in DOMAIN Tables(h) /\ t \in DOMAIN disk

\* Mutant: a busy handler that waits for the other connections.
MergeTableWaits(h, t, next) ==
  /\ \/ /\ Locks(h, CanMerge(h, t))
        /\ pinned' = [pinned EXCEPT ![h] = @ \/ sStmt[h] = "row"]
     \/ /\ \/ ~CanMerge(h, t) /\ Refused(h, FALSE)
           \/ Commits(h, t, InsertOrReplace(Table(t), Tables(h)[t], toMerge[h]))
        /\ pc' = [pc EXCEPT ![h] = next]
        /\ UNCHANGED pinned
  /\ UNCHANGED <<toMerge, sStmt, log, outcome, threw>>

\* INSERT OR REPLACE INTO t SELECT * FROM toMerge.t, whose errors are ignored.
MergeTable(h, t, next) ==
  /\ \/ /\ Locks(h, CanMerge(h, t))
        /\ pinned' = [pinned EXCEPT ![h] = @ \/ sStmt[h] = "row"]
     \/ /\ \/ Refused(h, CanMerge(h, t))
           \/ Commits(h, t, InsertOrReplace(Table(t), Tables(h)[t], toMerge[h]))
        /\ pc' = [pc EXCEPT ![h] = next]
        /\ UNCHANGED pinned
  /\ UNCHANGED <<toMerge, sStmt, log, outcome, threw>>

MergeDatas(h) == pc[h] = "datas" /\ MergeTable(h, "datas", "texts")

\* Mutant: the texts are not merged.
MergeNoTexts(h) ==
  /\ pc[h] = "texts"
  /\ pc' = [pc EXCEPT ![h] = "detach"]
  /\ UNCHANGED <<disk, writer, toMerge, sStmt, pinned, log, outcome, threw>>

MergeTexts(h) == pc[h] = "texts" /\ MergeTable(h, "texts", "detach")

\* DETACH toMerge, whose error is ignored too: Merge returns true.
Detach(h) ==
  /\ pc[h] = "detach"
  /\ toMerge' = [toMerge EXCEPT ![h] = IF pinned[h] THEN @ ELSE 0]
  /\ outcome' = [outcome EXCEPT ![h] = [file |-> log[toMerge[h]], ok |-> TRUE]]
  /\ pc' = [pc EXCEPT ![h] = "idle"]
  /\ UNCHANGED <<disk, writer, sStmt, pinned, log, threw>>

----------------------------------------------------------------------------
(* CardDataFromCode *)

\* The search starts anew, and stays at the row if there is one.  If it is
\* refused the card is not found.
CardDataFromCode(h, id) ==
  /\ pc[h] = "idle"
  /\ \/ /\ id \in DOMAIN Table("datas")
        /\ sStmt' = [sStmt EXCEPT ![h] = "row"]
     \/ /\ id \notin DOMAIN Table("datas") \/ writer # {}
        /\ sStmt' = [sStmt EXCEPT ![h] = "reset"]
  /\ UNCHANGED <<disk, pc, writer, toMerge, pinned, log, outcome, threw>>

----------------------------------------------------------------------------
Init ==
  /\ disk = [t \in {} |-> NoRows]
  /\ pc = [h \in Handles |-> "closed"]
  /\ writer = {}
  /\ toMerge = [h \in Handles |-> 0]
  /\ sStmt = [h \in Handles |-> "reset"]
  /\ pinned = [h \in Handles |-> FALSE]
  /\ log = <<>>
  /\ outcome = [h \in Handles |-> NoOutcome]
  /\ threw = [h \in Handles |-> "no"]

\* A call that has started goes on with its next step.
GoesOn(h) ==
  \/ CreateDatas(h) \/ CreateTexts(h) \/ PrepareAttach(h) \/ PrepareSearch(h)
  \/ MergeDatas(h) \/ MergeTexts(h) \/ Detach(h)

HandleStep(h) ==
  \/ Open(h) \/ GoesOn(h) \/ Close(h) \/ Crash(h)
  \/ \E f \in Files : Attach(h, f)
  \/ \E id \in Ids : CardDataFromCode(h, id)

Next == \E h \in Handles : HandleStep(h)

Spec == Init /\ [][Next]_dbVars

\* The calls are synchronous, and no statement waits, as no connection has a
\* busy handler.
FairSpec == Spec /\ \A h \in Handles : WF_dbVars(GoesOn(h))
----------------------------------------------------------------------------
(* Properties *)

\* The types, and what a handle has while it is merging and when it is closed;
\* only a statement that writes has the lock, and one handle at a time.
TypeOK ==
  /\ DOMAIN disk \subseteq {"datas", "texts"}
  /\ \A t \in DOMAIN disk : disk[t] \in [DOMAIN disk[t] -> 1 .. Len(log)]
  /\ pc \in [Handles -> {"closed", "createDatas", "createTexts", "attachStmt",
                         "searchStmt", "idle", "datas", "texts", "detach"}]
  /\ toMerge \in [Handles -> 0 .. Len(log)]
  /\ sStmt \in [Handles -> {"reset", "row"}]
  /\ pinned \in [Handles -> BOOLEAN]
  /\ log \in Seq(Files)
  /\ \A h \in Handles :
       /\ pc[h] \in {"datas", "texts", "detach"} \/ pinned[h] => toMerge[h] # 0
       /\ ~Constructed(h) => toMerge[h] = 0 /\ sStmt[h] = "reset"
  /\ \A h \in writer :
       /\ writer = {h} /\ h \in Handles
       /\ pc[h] \in {"createDatas", "createTexts", "datas", "texts"}

\* The amalgam as its user sees it: the rows by the file they are from, the
\* merge that has its data in and its texts not yet, and whether the user has
\* an object.
FilesOf(rows) == [id \in DOMAIN rows |-> log[rows[id]]]

Library == INSTANCE CardLibrary WITH
             datas <- FilesOf(Table("datas")),
             texts <- FilesOf(Table("texts")),
             pending <- {log[toMerge[h]] : h \in {g \in Handles : pc[g] = "texts"}},
             inUse <- \E h \in Handles : Constructed(h)

\* A single object implements the amalgam, whatever files it is given, with
\* lookups between the merges, after reopening, and if the process dies in a
\* merge: the data of every merge come whole, and its texts whole or, if the
\* process died, not at all (card_database.cpp:119-132).
IsLibrary == Library!Spec

\* When Merge returns true the rows of the file are in both tables
\* (card_database.hpp:24, card_database.cpp:128-131).
AcceptsRowsOnDisk ==
  \A h \in Handles :
    pc[h] = "detach" /\ pc'[h] = "idle" =>
      \A t \in DOMAIN Tables(h) : \A id \in Tables(h)[t] :
        id \in DOMAIN Table(t) /\ Table(t)[id] = toMerge[h]

AcceptedIsOnDisk == [][AcceptsRowsOnDisk]_dbVars

\* When Merge returns true a lookup finds every card of the file
\* (card_database.hpp:24, card_database.cpp:128).
AcceptedIsFound ==
  [][\A h \in Handles :
       pc[h] = "detach" /\ pc'[h] = "idle" /\ "datas" \in DOMAIN Tables(h) =>
         Tables(h)["datas"] \subseteq DOMAIN Table("datas")]_dbVars

\* No handle waits for another one for good: a constructor and a Merge that
\* have started come to their end, although the search statement of a handle
\* that does nothing any more keeps its lock (card_database.cpp:119-132, 139).
CallsReturn ==
  \A h \in Handles :
    pc[h] # "closed" /\ pc[h] # "idle" ~> pc[h] \in {"closed", "idle"}

\* Merge refuses only what is no database (card_database.hpp:24).
RefusedIsNoDatabase ==
  \A h \in Handles : ~outcome[h].ok => outcome[h].file \notin Attachable

\* Merging, reopening and dying never take a card away, whoever shares the
\* database: above all, no CREATE meets a table that another handle's CREATE
\* has made in the meantime (card_database.cpp:59, 64, 88).
NoCardIsLost ==
  [][\A t \in DOMAIN disk :
       t \in DOMAIN disk' /\ DOMAIN disk[t] \subseteq DOMAIN disk'[t]]_dbVars

\* A handle that its constructor has returned has the table that its search is
\* about, although the schema script's errors are passed over and another
\* handle's CREATE, in flight when this one's was refused, may never commit:
\* the prepare of the search then throws (card_database.cpp:88, 103-109).
SearchHasItsTable ==
  \A h \in Handles : Constructed(h) => "datas" \in DOMAIN disk

\* A constructor opens or creates the database, unless SQLite cannot open the
\* file (card_database.hpp:20, card_database.cpp:84-110).
OpensOrCreates == \A h \in Handles : threw[h] \in {"no", "open"}

\* "Opens or creates a disk database" (card_database.hpp:20): a constructor does
\* not throw for want of the table that it was to create.
TableIsCreated ==
  [][\A h \in Handles :
       pc[h] = "searchStmt" /\ threw'[h] = "search" => "datas" \in DOMAIN disk]_dbVars
=============================================================================
