------------------------- MODULE CoreInterfaceProofs -------------------------
(***************************************************************************)
(* For any number of interfaces, libraries and symbols, and whatever the     *)
(* constructors meet: the loader's counts are right, and every function that *)
(* an interface has is in memory.                                           *)
(***************************************************************************)
EXTENDS CoreInterface, FiniteSetTheorems, SequenceTheorems, TLAPS

PointerType == [file : Files, mapped : Nat, symbol : Symbols]

\* What CallsReachTheLibrary says of a finished interface holds of every
\* function as soon as it was found, and an object without a library has none.
\* Without it nothing would be known of the functions that an object found
\* before its last one.
FunctionsInv ==
  \A o \in Objects :
    /\ handle[o] = NoFile => funcs[o] = <<>>
    /\ \A i \in DOMAIN funcs[o] :
         /\ funcs[o][i].file = handle[o]
         /\ funcs[o][i].mapped = mapped[handle[o]]
         /\ funcs[o][i].symbol \in Exports[handle[o]]
         /\ funcs[o][i].symbol[2] = OcgFuncs[i]

InterfaceInv == TypeOK /\ OpenOnceForEach /\ FunctionsInv

----------------------------------------------------------------------------
(* The list of functions, and what is found of it *)

LEMMA FuncsList ==
  /\ OcgFuncs \in Seq({OcgFuncs[i] : i \in DOMAIN OcgFuncs})
  /\ Len(OcgFuncs) = 13
  /\ DOMAIN OcgFuncs = 1 .. 13
BY DEF OcgFuncs

\* The next function of a loading object is one of the list, and what the
\* loader finds for it is an export of the library that goes by its name.
LEMMA NextIsFound ==
  ASSUME TypeOK, NEW o \in Objects, Loading(o),
         Found(handle[o], NextFunc(o))
  PROVE  LET symbol == NativeLoadFunction(handle[o], NextFunc(o))
         IN  /\ symbol \in Exports[handle[o]]
             /\ symbol \in Symbols
             /\ symbol[2] = OcgFuncs[Len(funcs[o]) + 1]
<1>1. handle[o] \in Files /\ Exports[handle[o]] \subseteq Symbols
  BY InterfaceAssumption DEF TypeOK, Loading
<1> QED
  BY <1>1 DEF Found, NativeLoadFunction, NextFunc

----------------------------------------------------------------------------
(* The holders of a library *)

LEMMA HoldersAreFinite ==
  ASSUME NEW file
  PROVE  IsFiniteSet(Holders(file)) /\ Cardinality(Holders(file)) \in Nat
BY InterfaceAssumption, FS_Subset, FS_CardinalityType DEF Holders

\* An object that takes a library is one holder more of it ...
LEMMA OneMore ==
  ASSUME TypeOK, NEW o \in Objects, NEW file \in Files, handle[o] = NoFile,
         handle' = [handle EXCEPT ![o] = file]
  PROVE  \A g \in Files :
           Cardinality(Holders(g))' =
             IF g = file THEN Cardinality(Holders(g)) + 1 ELSE Cardinality(Holders(g))
<1> SUFFICES ASSUME NEW g \in Files
             PROVE  Cardinality(Holders(g)') =
                      IF g = file THEN Cardinality(Holders(g)) + 1
                                  ELSE Cardinality(Holders(g))
  OBVIOUS
<1>1. Holders(g)' = IF g = file THEN Holders(g) \cup {o} ELSE Holders(g)
  BY InterfaceAssumption DEF TypeOK, Holders
<1>2. g = file => o \notin Holders(g)
  BY InterfaceAssumption DEF Holders
<1> QED
  BY <1>1, <1>2, HoldersAreFinite, FS_AddElement

\* ... and one that goes is one fewer.
LEMMA OneLess ==
  ASSUME TypeOK, NEW o \in Objects, handle[o] # NoFile,
         handle' = [handle EXCEPT ![o] = NoFile]
  PROVE  \A g \in Files :
           Cardinality(Holders(g))' =
             IF g = handle[o] THEN Cardinality(Holders(g)) - 1
                              ELSE Cardinality(Holders(g))
<1> SUFFICES ASSUME NEW g \in Files
             PROVE  Cardinality(Holders(g)') =
                      IF g = handle[o] THEN Cardinality(Holders(g)) - 1
                                       ELSE Cardinality(Holders(g))
  OBVIOUS
<1>1. Holders(g)' = IF g = handle[o] THEN Holders(g) \ {o} ELSE Holders(g)
  BY InterfaceAssumption DEF TypeOK, Holders
<1>2. g = handle[o] => o \in Holders(g)
  BY DEF Holders
<1> QED
  BY <1>1, <1>2, HoldersAreFinite, FS_RemoveElement

\* A library that an object has is open.
LEMMA HeldIsOpen ==
  ASSUME TypeOK, OpenOnceForEach, NEW o \in Objects, handle[o] # NoFile
  PROVE  refs[handle[o]] > 0
<1>1. handle[o] \in Files /\ o \in Holders(handle[o])
  BY DEF TypeOK, Holders
<1>2. Cardinality(Holders(handle[o])) # 0
  BY <1>1, HoldersAreFinite, FS_EmptySet
<1> QED
  BY <1>1, <1>2, HoldersAreFinite DEF OpenOnceForEach

----------------------------------------------------------------------------
(* The steps *)

LEMMA ConstructKeeps ==
  ASSUME InterfaceInv, NEW o \in Objects, Construct(o)
  PROVE  InterfaceInv'
<1> USE DEF InterfaceInv
<1>1. PICK file \in Files : /\ NativeLoadObject(file)
                            /\ handle' = [handle EXCEPT ![o] = file]
  BY DEF Construct
<1>2. handle[o] = NoFile /\ funcs' = funcs
  BY DEF Construct
<1>3. funcs[o] = <<>>
  BY <1>2 DEF FunctionsInv
<1>4. TypeOK'
  <2>1. refs' \in [Files -> Nat] /\ mapped' \in [Files -> Nat]
    BY <1>1 DEF TypeOK, NativeLoadObject
  <2>2. handle' \in [Objects -> Files \cup {NoFile}]
    BY <1>1 DEF TypeOK
  <2> QED
    BY <2>1, <2>2, <1>2 DEF TypeOK
<1>5. OpenOnceForEach'
  BY <1>1, <1>2, OneMore DEF OpenOnceForEach, TypeOK, NativeLoadObject
<1>6. ASSUME NEW p \in Objects, handle[p] # NoFile
      PROVE  mapped'[handle[p]] = mapped[handle[p]]
  <2>1. refs[handle[p]] > 0 /\ handle[p] \in Files
    BY <1>6, HeldIsOpen DEF TypeOK
  <2>2. mapped \in [Files -> Nat] /\ refs \in [Files -> Nat]
    BY DEF TypeOK
  <2>3. CASE handle[p] = file
    BY <2>1, <2>3, <1>1 DEF NativeLoadObject
  <2>4. CASE handle[p] # file
    BY <2>1, <2>2, <2>4, <1>1 DEF NativeLoadObject
  <2> QED
    BY <2>3, <2>4
<1>7. FunctionsInv'
  <2> SUFFICES ASSUME NEW p \in Objects
               PROVE  /\ handle'[p] = NoFile => funcs'[p] = <<>>
                      /\ \A i \in DOMAIN funcs'[p] :
                           /\ funcs'[p][i].file = handle'[p]
                           /\ funcs'[p][i].mapped = mapped'[handle'[p]]
                           /\ funcs'[p][i].symbol \in Exports[handle'[p]]
                           /\ funcs'[p][i].symbol[2] = OcgFuncs[i]
    BY DEF FunctionsInv
  <2>1. CASE p = o
    BY <2>1, <1>2, <1>3
  <2>2. CASE p # o /\ handle[p] = NoFile
    BY <2>2, <1>1, <1>2 DEF FunctionsInv, TypeOK
  <2>3. CASE p # o /\ handle[p] # NoFile
    BY <2>3, <1>1, <1>2, <1>6 DEF FunctionsInv, TypeOK
  <2> QED
    BY <2>1, <2>2, <2>3
<1> QED
  BY <1>4, <1>5, <1>7

LEMMA LoadFunctionKeeps ==
  ASSUME InterfaceInv, NEW o \in Objects, LoadFunction(o)
  PROVE  InterfaceInv'
<1> USE DEF InterfaceInv
<1> DEFINE found == Pointer(handle[o], NativeLoadFunction(handle[o], NextFunc(o)))
<1>1. /\ Loading(o) /\ Found(handle[o], NextFunc(o))
      /\ funcs' = [funcs EXCEPT ![o] = Append(@, found)]
      /\ UNCHANGED <<refs, mapped, handle>>
  BY DEF LoadFunction
<1>2. /\ found.file = handle[o] /\ found.mapped = mapped[handle[o]]
      /\ found.symbol \in Exports[handle[o]]
      /\ found.symbol[2] = OcgFuncs[Len(funcs[o]) + 1]
      /\ found \in PointerType
  BY <1>1, NextIsFound DEF Pointer, PointerType, TypeOK, Loading
<1>3. funcs[o] \in Seq(PointerType) /\ Len(funcs[o]) < Len(OcgFuncs)
  BY <1>1 DEF TypeOK, PointerType, Loading
<1>4. /\ funcs'[o] \in Seq(PointerType)
      /\ Len(funcs'[o]) = Len(funcs[o]) + 1
      /\ \A i \in 1 .. Len(funcs[o]) : funcs'[o][i] = funcs[o][i]
      /\ funcs'[o][Len(funcs[o]) + 1] = found
  <2> HIDE DEF found
  <2>1. funcs'[o] = Append(funcs[o], found)
    BY <1>1 DEF TypeOK
  <2> QED
    BY <2>1, <1>2, <1>3, AppendProperties
<1> HIDE DEF found
<1>5. TypeOK'
  <2>1. Len(funcs'[o]) <= Len(OcgFuncs)
    BY <1>3, <1>4, FuncsList, LenProperties
  <2>2. funcs' \in [Objects -> Seq(PointerType)]
    BY <1>1, <1>4 DEF TypeOK, PointerType
  <2> QED
    BY <2>1, <2>2, <1>1 DEF TypeOK, PointerType
<1>6. OpenOnceForEach'
  BY <1>1 DEF OpenOnceForEach, Holders
<1>7. FunctionsInv'
  <2> SUFFICES ASSUME NEW p \in Objects
               PROVE  /\ handle[p] = NoFile => funcs'[p] = <<>>
                      /\ \A i \in DOMAIN funcs'[p] :
                           /\ funcs'[p][i].file = handle[p]
                           /\ funcs'[p][i].mapped = mapped[handle[p]]
                           /\ funcs'[p][i].symbol \in Exports[handle[p]]
                           /\ funcs'[p][i].symbol[2] = OcgFuncs[i]
    BY <1>1 DEF FunctionsInv
  <2>1. CASE p # o
    BY <2>1, <1>1 DEF FunctionsInv, TypeOK
  <2>2. CASE p = o
    <3>1. DOMAIN funcs[o] = 1 .. Len(funcs[o]) /\ Len(funcs[o]) \in Nat
      BY <1>3, LenProperties
    <3>2. DOMAIN funcs'[o] = 1 .. Len(funcs[o]) + 1
      BY <1>4, LenProperties
    <3>3. \A i \in 1 .. Len(funcs[o]) + 1 :
            i \in 1 .. Len(funcs[o]) \/ i = Len(funcs[o]) + 1
      BY <3>1
    <3> QED
      BY <2>2, <3>1, <3>2, <3>3, <1>1, <1>2, <1>4 DEF FunctionsInv, Loading
  <2> QED
    BY <2>1, <2>2
<1> QED
  BY <1>5, <1>6, <1>7

\* The destructor, and a constructor that throws.
LEMMA UnloadKeeps ==
  ASSUME InterfaceInv, NEW o \in Objects, handle[o] # NoFile,
         NativeUnloadObject(handle[o]), Gone(o)
  PROVE  InterfaceInv'
<1> USE DEF InterfaceInv, NativeUnloadObject, Gone
<1>1. refs[handle[o]] > 0 /\ handle[o] \in Files
  BY HeldIsOpen DEF TypeOK
<1>2. TypeOK'
  <2>1. refs' \in [Files -> Nat]
    BY <1>1 DEF TypeOK
  <2>2. <<>> \in Seq(PointerType) /\ Len(<<>>) <= Len(OcgFuncs)
    BY FuncsList
  <2> QED
    BY <2>1, <2>2 DEF TypeOK, PointerType
<1>3. OpenOnceForEach'
  BY <1>1, OneLess DEF OpenOnceForEach, TypeOK
<1>4. FunctionsInv'
  BY DEF FunctionsInv, TypeOK
<1> QED
  BY <1>2, <1>3, <1>4

----------------------------------------------------------------------------
(* The theorems *)

\* The inductive invariant of the interfaces (core_interface.cpp:108-127).
THEOREM InterfaceInvariance == Spec => []InterfaceInv
<1>1. Init => InterfaceInv
  <2> SUFFICES ASSUME Init PROVE InterfaceInv
    OBVIOUS
  <2> USE DEF Init
  <2>1. TypeOK
    <3>1. <<>> \in Seq(PointerType) /\ Len(<<>>) = 0
      BY EmptySeq
    <3>2. funcs \in [Objects -> Seq(PointerType)]
      BY <3>1
    <3>3. \A o \in Objects : Len(funcs[o]) <= Len(OcgFuncs)
      BY <3>1, FuncsList
    <3> QED
      BY <3>2, <3>3 DEF TypeOK, PointerType
  <2>2. \A file \in Files : Holders(file) = {}
    BY InterfaceAssumption DEF Holders
  <2>3. OpenOnceForEach
    BY <2>2, FS_EmptySet DEF OpenOnceForEach
  <2> QED
    BY <2>1, <2>3 DEF InterfaceInv, FunctionsInv
<1>2. InterfaceInv /\ [Next]_vars => InterfaceInv'
  <2> SUFFICES ASSUME InterfaceInv, [Next]_vars PROVE InterfaceInv'
    OBVIOUS
  <2>1. CASE UNCHANGED vars
    <3>1. TypeOK'
      BY <2>1 DEF vars, InterfaceInv, TypeOK
    <3>2. OpenOnceForEach'
      BY <2>1 DEF vars, InterfaceInv, OpenOnceForEach, Holders
    <3>3. FunctionsInv'
      BY <2>1 DEF vars, InterfaceInv, FunctionsInv
    <3> QED
      BY <3>1, <3>2, <3>3 DEF InterfaceInv
  <2>2. ASSUME NEW o \in Objects, Construct(o) PROVE InterfaceInv'
    BY <2>2, ConstructKeeps
  <2>3. ASSUME NEW o \in Objects, LoadFunction(o) PROVE InterfaceInv'
    BY <2>3, LoadFunctionKeeps
  <2>4. ASSUME NEW o \in Objects, Throw(o) \/ Destroy(o) PROVE InterfaceInv'
    BY <2>4, UnloadKeeps DEF Throw, Destroy, Loading, Usable
  <2> QED
    BY <2>1, <2>2, <2>3, <2>4 DEF Next
<1> QED
  BY <1>1, <1>2, PTL DEF Spec

\* The handles, counts and pointers keep their types, and no object has more
\* functions than the list (core_interface.hpp:9-20).
THEOREM InterfaceTypes == Spec => []TypeOK
BY InterfaceInvariance, PTL DEF InterfaceInv

\* Every library is open once for every object that has it, with constructors
\* that throw half way in between (core_interface.cpp:115-119, 124-127).
THEOREM OpenedOnceForEach == Spec => []OpenOnceForEach
BY InterfaceInvariance, PTL DEF InterfaceInv

\* No function of a finished interface is ever in a library that was unloaded,
\* or in another one than it was found in (core_interface.cpp:113-121).
THEOREM EveryCallReachesTheLibrary == Spec => []CallsReachTheLibrary
<1>1. InterfaceInv => CallsReachTheLibrary
  <2> SUFFICES ASSUME InterfaceInv, NEW o \in Objects, Usable(o)
               PROVE  /\ refs[handle[o]] > 0
                      /\ \A i \in DOMAIN OcgFuncs :
                           /\ funcs[o][i].file = handle[o]
                           /\ funcs[o][i].mapped = mapped[handle[o]]
                           /\ funcs[o][i].symbol \in Exports[handle[o]]
                           /\ funcs[o][i].symbol[2] = OcgFuncs[i]
    BY DEF CallsReachTheLibrary
  <2>1. refs[handle[o]] > 0
    BY HeldIsOpen DEF InterfaceInv, Usable
  <2>2. DOMAIN funcs[o] = DOMAIN OcgFuncs
    BY FuncsList, LenProperties DEF InterfaceInv, TypeOK, Usable
  <2> QED
    BY <2>1, <2>2 DEF InterfaceInv, FunctionsInv
<1> QED
  BY <1>1, InterfaceInvariance, PTL
=============================================================================
