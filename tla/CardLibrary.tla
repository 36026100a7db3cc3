---------------------------- MODULE CardLibrary -----------------------------
(***************************************************************************)
(* What CardDatabase promises to its user (card_database.hpp): an amalgam   *)
(* of card databases.  Adding a database puts all of its cards over those   *)
(* that are there, first their data and then their texts.  A user whose     *)
(* process dies in between leaves the data without the texts; nothing else  *)
(* does.                                                                    *)
(***************************************************************************)
CONSTANTS Files,   \* the databases that may be added
          Rows     \* for every file, its tables: for each the set of card ids

VARIABLES datas, texts,   \* for every card, the file that its row is from
          pending,        \* the file whose texts are still to come, if any
          inUse           \* has the user an object of the amalgam?

libraryVars == <<datas, texts, pending, inUse>>

NoRows == [id \in {} |-> id]

\* The rows of a table of f, over the rows of the amalgam.
Over(f, table, rows) ==
  IF table \in DOMAIN Rows[f]
  THEN [id \in Rows[f][table] \cup DOMAIN rows |->
          IF id \in Rows[f][table] THEN f ELSE rows[id]]
  ELSE rows

Init == datas = NoRows /\ texts = NoRows /\ pending = {} /\ inUse = FALSE

Enter == ~inUse /\ inUse' = TRUE /\ UNCHANGED <<datas, texts, pending>>

Begin(f) ==
  /\ inUse /\ pending = {}
  /\ datas' = Over(f, "datas", datas) /\ pending' = {f}
  /\ UNCHANGED <<texts, inUse>>

Finish(f) ==
  /\ f \in pending
  /\ texts' = Over(f, "texts", texts) /\ pending' = {}
  /\ UNCHANGED <<datas, inUse>>

\* The object is destroyed between two calls, or its process dies.
Leave ==
  /\ inUse /\ inUse' = FALSE
  /\ pending' = {} /\ UNCHANGED <<datas, texts>>

Next == Enter \/ (\E f \in Files : Begin(f) \/ Finish(f)) \/ Leave

Spec == Init /\ [][Next]_libraryVars
=============================================================================
