---------------------------- MODULE CoreInterface ----------------------------
(***************************************************************************)
(* YGOpen::CoreInterface (core_interface.cpp): an object that loads the      *)
(* core's shared library, looks up its functions one after another, and      *)
(* unloads the library when it goes.  Several objects of one process share    *)
(* the library of a file: the loader of the system counts who opened it.     *)
(***************************************************************************)
EXTENDS Integers, Sequences, FiniteSets

CONSTANTS
  Objects,      \* the CoreInterface objects of the process
  Files,        \* the shared libraries there are
  NoFile,       \* nullptr as a handle
  Exports,      \* the symbols that each library has: a prefix and a name
  MaxMappings   \* bound: how often a library is brought into memory

\* ocgapi_funcs.h
OcgFuncs ==
  <<"OCG_GetVersion", "OCG_CreateDuel", "OCG_DestroyDuel", "OCG_DuelNewCard",
    "OCG_StartDuel", "OCG_DuelProcess", "OCG_DuelGetMessage",
    "OCG_DuelSetResponse", "OCG_LoadScript", "OCG_DuelQueryCount",
    "OCG_DuelQuery", "OCG_DuelQueryLocation", "OCG_DuelQueryField">>

Symbols == {"", "_"} \X {OcgFuncs[i] : i \in DOMAIN OcgFuncs}

ASSUME InterfaceAssumption ==
  /\ IsFiniteSet(Objects)
  /\ NoFile \notin Files
  /\ Exports \in [Files -> SUBSET Symbols]
  /\ MaxMappings \in Nat

VARIABLES
  refs,      \* how often the loader was asked for each library
  mapped,    \* the number of times each library was brought into memory
  handle,    \* handle, of every object
  funcs      \* the function pointers that each object has looked up

vars == <<refs, mapped, handle, funcs>>

\* A pointer into the library as it is in memory now; into the next one that
\* is loaded from the same file it would point by chance only.
Pointer(file, symbol) ==
  [file |-> file, mapped |-> mapped[file], symbol |-> symbol]

Init ==
  /\ refs = [file \in Files |-> 0]
  /\ mapped = [file \in Files |-> 0]
  /\ handle = [o \in Objects |-> NoFile]
  /\ funcs = [o \in Objects |-> <<>>]

Loading(o) == handle[o] # NoFile /\ Len(funcs[o]) < Len(OcgFuncs)
Usable(o) == handle[o] # NoFile /\ Len(funcs[o]) = Len(OcgFuncs)

----------------------------------------------------------------------------
(* The loader *)

NativeLoadObject(file) ==
  /\ refs' = [refs EXCEPT ![file] = @ + 1]
  /\ mapped' = IF refs[file] = 0 THEN [mapped EXCEPT ![file] = @ + 1] ELSE mapped

\* Mutant: the library goes, whoever else has it.
UnloadForAll(file) ==
  /\ refs' = [refs EXCEPT ![file] = 0]
  /\ UNCHANGED mapped

NativeUnloadObject(file) ==
  /\ refs' = [refs EXCEPT ![file] = @ - 1]
  /\ UNCHANGED mapped

\* Mutant: a name is looked up as it is only.
FoundPlain(file, name) == <<"", name>> \in Exports[file]

\* Some platforms put an underscore in front of a name.
Found(file, name) == {<<"", name>>, <<"_", name>>} \cap Exports[file] # {}

NativeLoadFunction(file, name) ==
  IF <<"", name>> \in Exports[file] THEN <<"", name>> ELSE <<"_", name>>

----------------------------------------------------------------------------
(* The object *)

\* The constructor opens the library; if there is none it throws, and nothing
\* has changed.
Construct(o) ==
  /\ handle[o] = NoFile
  /\ \E file \in Files :
       /\ mapped[file] < MaxMappings
       /\ NativeLoadObject(file)
       /\ handle' = [handle EXCEPT ![o] = file]
  /\ UNCHANGED funcs

NextFunc(o) == OcgFuncs[Len(funcs[o]) + 1]

\* One function after another ...
LoadFunction(o) ==
  /\ Loading(o)
  /\ Found(handle[o], NextFunc(o))
  /\ funcs' = [funcs EXCEPT ![o] =
                 Append(@, Pointer(handle[o],
                                   NativeLoadFunction(handle[o], NextFunc(o))))]
  /\ UNCHANGED <<refs, mapped, handle>>

Gone(o) ==
  /\ handle' = [handle EXCEPT ![o] = NoFile]
  /\ funcs' = [funcs EXCEPT ![o] = <<>>]

\* Mutant: the constructor throws and leaves the library open.
ThrowKeepsLibrary(o) ==
  /\ Loading(o)
  /\ ~Found(handle[o], NextFunc(o))
  /\ Gone(o)
  /\ UNCHANGED <<refs, mapped>>

\* ... and the first one that is missing ends it: no destructor runs for an
\* object whose constructor throws.
Throw(o) ==
  /\ Loading(o)
  /\ ~Found(handle[o], NextFunc(o))
  /\ NativeUnloadObject(handle[o])
  /\ Gone(o)

\* Mutant: the object's owner unloads the library too.
DestroyTwice(o) ==
  /\ Usable(o)
  /\ refs' = [refs EXCEPT ![handle[o]] = @ - 2]
  /\ Gone(o)
  /\ UNCHANGED mapped

Destroy(o) ==
  /\ Usable(o)
  /\ NativeUnloadObject(handle[o])
  /\ Gone(o)

Next ==
  \E o \in Objects : Construct(o) \/ LoadFunction(o) \/ Throw(o) \/ Destroy(o)

Spec == Init /\ [][Next]_vars

\* A constructor that has started runs to its end.
FairSpec ==
  Spec /\ \A o \in Objects : WF_vars(LoadFunction(o) \/ Throw(o))

----------------------------------------------------------------------------
(* Properties *)

TypeOK ==
  /\ refs \in [Files -> Nat]
  /\ mapped \in [Files -> Nat]
  /\ handle \in [Objects -> Files \cup {NoFile}]
  /\ funcs \in [Objects -> Seq([file : Files, mapped : Nat, symbol : Symbols])]
  /\ \A o \in Objects : Len(funcs[o]) <= Len(OcgFuncs)

Holders(file) == {o \in Objects : handle[o] = file}

\* A library is open once for every object that has it: none stays open behind
\* a constructor that threw (core_interface.cpp:115-119) or a destructor, and
\* none is closed for somebody else.
OpenOnceForEach == \A file \in Files : refs[file] = Cardinality(Holders(file))

\* Every function of an interface that can be called is in a library that is
\* still in memory, where it was found: whatever other objects did since it
\* was looked up, and whatever their constructors met
\* (core_interface.cpp:113-120).
CallsReachTheLibrary ==
  \A o \in Objects : Usable(o) =>
    /\ refs[handle[o]] > 0
    /\ \A i \in DOMAIN OcgFuncs :
         /\ funcs[o][i].file = handle[o]
         /\ funcs[o][i].mapped = mapped[handle[o]]
         /\ funcs[o][i].symbol \in Exports[handle[o]]
         /\ funcs[o][i].symbol[2] = OcgFuncs[i]

\* A constructor that has opened a library comes to an end: with all the
\* functions if the library has them, under whatever name
\* (core_interface.cpp:87-99), and otherwise with nothing left behind.
Complete(file) ==
  \A i \in DOMAIN OcgFuncs : \E symbol \in Exports[file] : symbol[2] = OcgFuncs[i]

ConstructionEnds ==
  \A o \in Objects, file \in Files :
    (Loading(o) /\ handle[o] = file)
      ~> IF Complete(file) THEN Usable(o) ELSE handle[o] = NoFile
=============================================================================
