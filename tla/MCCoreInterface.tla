--------------------------- MODULE MCCoreInterface ---------------------------
EXTENDS CoreInterface, TLC

CONSTANTS core, old

\* One library has every function, some under a name with an underscore; of
\* the other one the last two are missing.
SomeExports ==
  core :> ({""} \X {OcgFuncs[i] : i \in 1 .. 9})
            \cup ({"_"} \X {OcgFuncs[i] : i \in 8 .. 13})
  @@ old :> {""} \X {OcgFuncs[i] : i \in 1 .. 11}
=============================================================================
