--------------------------- MODULE MCCardDatabase ---------------------------
(* Small instances of CardDatabase for TLC. *)
EXTENDS CardDatabase

CONSTANTS h1, h2, release, update, dataOnly, textOnly, empty, garbage

\* What the files hold: two complete databases that share card 2, a file
\* with one of the tables only, one without tables; garbage is no database.
AllRows ==
  release :> [datas |-> {1, 2}, texts |-> {1, 2}]
    @@ update :> [datas |-> {2, 3}, texts |-> {2, 3}]
    @@ dataOnly :> ("datas" :> {1})
    @@ textOnly :> ("texts" :> {2})
    @@ empty :> NoRows
    @@ garbage :> NoRows

WholeRows == [f \in {release, update} |-> AllRows[f]]

TwoHandles == {h1, h2}
AllFiles == {release, update, dataOnly, textOnly, empty, garbage}
Databases == AllFiles \ {garbage}
WholeFiles == {release, update}
AnyPoint == {"createDatas", "createTexts", "attachStmt", "searchStmt", "idle",
             "datas", "texts", "detach"}

\* A process that dies between the two CREATE TABLEs leaves a database without
\* texts for good (card_database.cpp:88).
OnceCreated == AnyPoint \ {"createTexts"}
=============================================================================
