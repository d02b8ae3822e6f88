--------------------------- MODULE SymbolicRun_proofs ---------------------------
(***************************************************************************)
(* Proofs about the environment under any sequence of calls, and about a   *)
(* run next to a concrete execution.                                       *)
(*                                                                         *)
(* The first part is about SymbolicExecutionEnvironment alone.  The second *)
(* shows that the trace of a symbolic run is true of every concrete        *)
(* execution (TraceSound), by way of RunInvariant, that it speaks of the   *)
(* final state, and that the run implements UpdateSetStore.                *)
(***************************************************************************)
EXTENDS SymbolicRun, FiniteSetTheorems, TLAPS

-----------------------------------------------------------------------------
(* The environment: SymbolicExecutionEnvironment *)

USE LocationAssumption, UnsupportedAssumption, LiteralAssumption

\* The visits of finalize() are numbered by natural numbers.
LEMMA RankType ==
  ASSUME TypeOK
  PROVE  /\ Touched \subseteq Location
         /\ Cardinality(Touched) \in Nat
         /\ \A l \in Location : Rank(l) \in Nat
<1>1. Touched \subseteq Location
  BY DEF Touched
<1>2. IsFiniteSet(Touched)
  BY <1>1, FS_Subset
<1>3. ASSUME NEW l \in Location
      PROVE  Rank(l) \in Nat
  <2>1. { k \in Touched : k < l } \subseteq Touched
    OBVIOUS
  <2>2. QED
    BY <2>1, <1>2, FS_Subset, FS_CardinalityType DEF Rank
<1>4. QED
  BY <1>1, <1>2, <1>3, FS_CardinalityType

LEMMA ReadTimeType ==
  ASSUME TypeOK, NEW l \in Location
  PROVE  ReadTime(l) \in Nat \ {0}
  BY DEF TypeOK, ReadTime

LEMMA DeclarationType ==
  /\ \A n, s \in Nat : Declaration(n, s) \in [name : Nat, of : Nat]
  /\ \A n \in Nat, op \in Operator : Declaration(n, op) \in [name : Nat, of : Operator]
  /\ \A n \in Nat, f \in FunctionName : Declaration(n, f) \in [name : Nat, of : FunctionName]
  BY DEF Declaration

LEMMA SymbolAtomType == \A s \in Nat : SymbolAtom(s) \in Atom
  BY DEF SymbolAtom, Atom

\* The names a call takes.
LEMMA NamesInNat ==
  TypeOK => /\ symbolName \in Nat /\ symbolName + 1 \in Nat
            /\ formulaName \in Nat /\ formulaName + 1 \in Nat
            /\ time \in Nat /\ environments \in Seq(Logic)
  BY DEF TypeOK

\* Dropping the last element of a sequence.
LEMMA FrontProperties ==
  ASSUME NEW S, NEW s \in Seq(S), s # << >>
  PROVE  /\ Len(s) \in Nat \ {0}
         /\ SubSeq(s, 1, Len(s) - 1) \in Seq(S)
         /\ DOMAIN SubSeq(s, 1, Len(s) - 1) = 1 .. Len(s) - 1
         /\ \A i \in 1 .. Len(s) - 1 : SubSeq(s, 1, Len(s) - 1)[i] = s[i]
  OBVIOUS

\* A client passes atoms.
LEMMA AtomsType == ASSUME TypeOK PROVE Atoms \subseteq Atom
<1>1. \A d \in symbolDefinitions : d.of \in Nat
  BY DEF TypeOK
<1>2. \A v \in Literal : LiteralAtom(v) \in Atom
  BY DEF LiteralAtom, Atom
<1>3. QED
  BY <1>1, <1>2, SymbolAtomType DEF Atoms, Symbols

\* What a formula states is a body, and a formula is one.
LEMMA BodyType ==
  /\ \A t \in Nat, l \in Location, a \in Atom : Stored(t, l, a) \in Body
  /\ \A c \in Logic, a, b \in Atom, s \in Nat : Merged(c, a, b, s) \in Body
  /\ \A op \in Operator, a, b \in Atom, s \in Nat : Applied(op, a, b, s) \in Body
  BY DEF Stored, Merged, Applied, Body

FormulaSet == [name : Nat, guard : Seq(Logic), body : Body]

LEMMA FormulaType ==
  TypeOK => \A n \in Nat, b \in Body : Formula(n, b) \in FormulaSet
  BY DEF Formula, FormulaSet, TypeOK

\* TypeOK in three parts, for the steps that change one of them.
NamesType == symbolName \in Nat /\ formulaName \in Nat
RestType ==
  /\ time \in Nat \ {0}
  /\ environments \in Seq(Logic)
  /\ scopes \in Seq([logic : Logic, bound : BOOLEAN, registered : BOOLEAN])
  /\ symbolSetTimes \in [Location -> Nat]
  /\ symbolUpdateSet \in [Location -> Nat]
  /\ functionDeclarations \subseteq [name : Nat, of : Operator]
  /\ functions \subseteq [name : Nat, of : FunctionName]
  /\ alive \in BOOLEAN
TraceType ==
  /\ symbolDefinitions \subseteq [name : Nat, of : Nat]
  /\ formulae \subseteq FormulaSet

LEMMA TypeParts == TypeOK <=> NamesType /\ RestType /\ TraceType
  BY DEF TypeOK, NamesType, RestType, TraceType, FormulaSet

LEMMA TypePartsNext == TypeOK' <=> NamesType' /\ RestType' /\ TraceType'
  BY DEF TypeOK, NamesType, RestType, TraceType, FormulaSet

-----------------------------------------------------------------------------
(* Every call preserves the types *)

LEMMA InitType == Init => TypeOK
  BY DEF Init, TypeOK

LEMMA GetType ==
  ASSUME TypeOK, NEW l \in Location, Get(l)
  PROVE  TypeOK'
<1>1. NamesType'
  BY DEF TypeOK, NamesType, Get
<1>2. RestType'
  BY ReadTimeType DEF TypeOK, RestType, Get, scoping, declarations
<1>3. Formula(formulaName + 1, Stored(ReadTime(l), l, SymbolAtom(symbolName))) \in FormulaSet
  <2>1. Stored(ReadTime(l), l, SymbolAtom(symbolName)) \in Body
    BY NamesInNat, ReadTimeType, BodyType, SymbolAtomType
  <2>2. QED
    BY <2>1, NamesInNat, FormulaType
<1>4. Declaration(formulaName, symbolName) \in [name : Nat, of : Nat]
  BY DeclarationType DEF TypeOK
<1>5. TraceType'
  BY <1>3, <1>4, TypeParts DEF TraceType, Get
<1>6. QED
  BY <1>1, <1>2, <1>5, TypePartsNext

LEMMA GetThrowsType ==
  ASSUME TypeOK, NEW l \in Location, GetThrows(l)
  PROVE  TypeOK'
<1>1. NamesType'
  BY DEF TypeOK, NamesType, GetThrows
<1>2. RestType'
  BY ReadTimeType DEF TypeOK, RestType, GetThrows, scoping, declarations
<1>3. Declaration(formulaName, symbolName) \in [name : Nat, of : Nat]
  BY DeclarationType DEF TypeOK
<1>4. TraceType'
  BY <1>3, TypeParts DEF TraceType, GetThrows
<1>5. QED
  BY <1>1, <1>2, <1>4, TypePartsNext

LEMMA SetType ==
  ASSUME TypeOK, NEW l \in Location, NEW a \in Atoms, Set(l, a)
  PROVE  TypeOK'
<1>1. NamesType'
  BY DEF TypeOK, NamesType, Set
<1>2. RestType'
  BY DEF TypeOK, RestType, Set, scoping, declarations
<1>3. Formula(formulaName, Stored(time, l, a)) \in FormulaSet
  BY AtomsType, BodyType, FormulaType DEF TypeOK
<1>4. TraceType'
  BY <1>3, TypeParts DEF TraceType, Set
<1>5. QED
  BY <1>1, <1>2, <1>4, TypePartsNext

LEMMA IncrementTimeType ==
  ASSUME TypeOK, IncrementTime
  PROVE  TypeOK'
<1>1. NamesType' /\ TraceType'
  BY TypeParts DEF NamesType, TraceType, IncrementTime, names
<1>2. RestType'
  BY DEF TypeOK, RestType, IncrementTime, scoping, declarations
<1>3. QED
  BY <1>1, <1>2, TypePartsNext

LEMMA MakeEnvironmentType ==
  ASSUME TypeOK, NEW c \in Logic, MakeEnvironment(c)
  PROVE  TypeOK'
<1>1. NamesType' /\ TraceType'
  BY TypeParts DEF NamesType, TraceType, MakeEnvironment, names
<1>2. RestType'
  BY DEF TypeOK, RestType, MakeEnvironment, times, declarations
<1>3. QED
  BY <1>1, <1>2, TypePartsNext

\* A bound scope of a living environment has its guard on the stack.
LEMMA ReleaseEnvironmentType ==
  ASSUME TypeOK, ScopesMatch, ReleaseEnvironment
  PROVE  TypeOK'
<1>1. NamesType' /\ TraceType'
  BY TypeParts DEF NamesType, TraceType, ReleaseEnvironment, names
<1> DEFINE ScopeSet == [logic : Logic, bound : BOOLEAN, registered : BOOLEAN]
<1>2. scopes \in Seq(ScopeSet) /\ scopes # << >> /\ Len(scopes) \in Nat \ {0}
  BY DEF TypeOK, ReleaseEnvironment
<1>3. scopes' \in Seq(ScopeSet)
  <2> HIDE DEF ScopeSet
  <2>1. QED
    BY <1>2, FrontProperties DEF ReleaseEnvironment
<1>4. environments' \in Seq(Logic)
  <2>1. CASE scopes[Len(scopes)].bound
    <3>1. alive
      BY <2>1, <1>2 DEF ScopesMatch
    <3>2. environments # << >>
      BY <3>1, <1>2 DEF ScopesMatch
    <3>3. QED
      BY <2>1, <3>2, NamesInNat, FrontProperties DEF ReleaseEnvironment
  <2>2. CASE ~scopes[Len(scopes)].bound
    BY <2>2 DEF ReleaseEnvironment, TypeOK
  <2>3. QED
    BY <2>1, <2>2
<1>5. RestType'
  BY <1>3, <1>4 DEF TypeOK, RestType, ReleaseEnvironment, times, declarations
<1>6. QED
  BY <1>1, <1>5, TypePartsNext

LEMMA DestroyType ==
  ASSUME TypeOK, Destroy
  PROVE  TypeOK'
<1>1. NamesType' /\ TraceType'
  BY TypeParts DEF NamesType, TraceType, Destroy, names
<1> DEFINE ScopeSet == [logic : Logic, bound : BOOLEAN, registered : BOOLEAN]
<1>2. scopes' \in Seq(ScopeSet)
  <2>1. scopes \in Seq(ScopeSet) /\ DOMAIN scopes = 1 .. Len(scopes) /\ Len(scopes) \in Nat
    BY DEF TypeOK
  <2>2. \A i \in DOMAIN scopes : scopes[i] \in ScopeSet
    <3> HIDE DEF ScopeSet
    <3>1. QED
      BY <2>1
  <2>3. \A i \in DOMAIN scopes :
          [scopes[i] EXCEPT !.bound = @ /\ ~scopes[i].registered] \in ScopeSet
    BY <2>2
  <2> HIDE DEF ScopeSet
  <2>4. QED
    BY <2>1, <2>3 DEF Destroy
<1>3. RestType'
  BY <1>2 DEF TypeOK, RestType, Destroy, times, declarations
<1>4. QED
  BY <1>1, <1>3, TypePartsNext

LEMMA MergeSymbolPathsType ==
  ASSUME TypeOK, NEW c \in Logic, NEW a \in Atoms, NEW b \in Atoms, MergeSymbolPaths(c, a, b)
  PROVE  TypeOK'
<1>1. NamesType'
  BY DEF TypeOK, NamesType, MergeSymbolPaths
<1>2. RestType'
  BY DEF TypeOK, RestType, MergeSymbolPaths, times, scoping, declarations
<1>3. Formula(formulaName + 1, Merged(c, a, b, symbolName)) \in FormulaSet
  <2>1. a \in Atom /\ b \in Atom
    BY AtomsType
  <2>2. Merged(c, a, b, symbolName) \in Body
    BY <2>1, NamesInNat, BodyType
  <2>3. QED
    BY <2>2, NamesInNat, FormulaType
<1>4. Declaration(formulaName, symbolName) \in [name : Nat, of : Nat]
  BY DeclarationType DEF TypeOK
<1>5. TraceType'
  BY <1>3, <1>4, TypeParts DEF TraceType, MergeSymbolPaths
<1>6. QED
  BY <1>1, <1>2, <1>5, TypePartsNext

LEMMA SymbolicInstructionType ==
  ASSUME TypeOK, NEW op \in Operator, NEW a \in Atoms, NEW b \in Atoms,
         SymbolicInstruction(op, a, b)
  PROVE  TypeOK'
<1>1. NamesType'
  BY DEF TypeOK, NamesType, SymbolicInstruction
<1>2. Declaration(formulaName + 1, op) \in [name : Nat, of : Operator]
  BY NamesInNat, DeclarationType
<1>3. functionDeclarations' \subseteq [name : Nat, of : Operator]
  BY <1>2 DEF TypeOK, SymbolicInstruction
<1>4. RestType'
  BY <1>3 DEF TypeOK, RestType, SymbolicInstruction, times, scoping
<1>5. \A n \in Nat : Formula(n, Applied(op, a, b, symbolName)) \in FormulaSet
  BY AtomsType, BodyType, FormulaType DEF TypeOK
<1>6. Declaration(formulaName, symbolName) \in [name : Nat, of : Nat]
  BY DeclarationType DEF TypeOK
<1>7. TraceType'
  <2>1. PICK n \in Nat :
          formulae' = formulae \cup { Formula(n, Applied(op, a, b, symbolName)) }
    BY DEF SymbolicInstruction, TypeOK
  <2>2. QED
    BY <2>1, <1>5, <1>6, TypeParts DEF TraceType, SymbolicInstruction
<1>8. QED
  BY <1>1, <1>4, <1>7, TypePartsNext

LEMMA UnconstrainedSymbolType ==
  ASSUME TypeOK, UnconstrainedSymbol
  PROVE  TypeOK'
<1>1. NamesType'
  BY DEF TypeOK, NamesType, UnconstrainedSymbol
<1>2. RestType'
  BY DEF TypeOK, RestType, UnconstrainedSymbol, times, scoping, declarations
<1>3. Declaration(formulaName, symbolName) \in [name : Nat, of : Nat]
  BY DeclarationType DEF TypeOK
<1>4. TraceType'
  BY <1>3, TypeParts DEF TraceType, UnconstrainedSymbol
<1>5. QED
  BY <1>1, <1>2, <1>4, TypePartsNext

LEMMA AddFunctionDeclarationType ==
  ASSUME TypeOK, NEW f \in FunctionName, AddFunctionDeclaration(f)
  PROVE  TypeOK'
<1>1. NamesType'
  BY DEF TypeOK, NamesType, AddFunctionDeclaration
<1>2. Declaration(formulaName, f) \in [name : Nat, of : FunctionName]
  BY DeclarationType DEF TypeOK
<1>3. RestType'
  BY <1>2 DEF TypeOK, RestType, AddFunctionDeclaration, times, scoping
<1>4. TraceType'
  BY TypeParts DEF TraceType, AddFunctionDeclaration
<1>5. QED
  BY <1>1, <1>3, <1>4, TypePartsNext

\* What the loop of finalize() adds is well formed.
LEMMA FinalType ==
  ASSUME TypeOK, NEW S, S \subseteq Touched
  PROVE  /\ FinalDeclarations(S) \subseteq [name : Nat, of : Nat]
         /\ FinalReads(S) \subseteq FormulaSet
         /\ FinalStores(S) \subseteq FormulaSet
<1>1. ASSUME NEW l \in S
      PROVE  l \in Location /\ FinalName(l) \in Nat /\ FinalSymbol(l) \in Nat
  <2>1. l \in Location /\ Rank(l) \in Nat
    BY RankType
  <2>2. QED
    BY <2>1, NamesInNat DEF FinalName, FinalSymbol
<1>2. \A l \in S : /\ Stored(symbolSetTimes[l], l, SymbolAtom(FinalSymbol(l))) \in Body
                   /\ Stored(0, l, SymbolAtom(FinalSymbol(l))) \in Body
  BY <1>1, BodyType, SymbolAtomType DEF TypeOK
<1>3. FinalDeclarations(S) \subseteq [name : Nat, of : Nat]
  BY <1>1, DeclarationType DEF FinalDeclarations
<1>4. FinalReads(S) \subseteq FormulaSet
  BY <1>1, <1>2, FormulaType DEF FinalReads
<1>5. FinalStores(S) \subseteq FormulaSet
  BY <1>1, <1>2, FormulaType DEF FinalStores
<1>6. QED
  BY <1>3, <1>4, <1>5

LEMMA FinalizeType ==
  ASSUME TypeOK, Finalize
  PROVE  TypeOK'
<1>1. NamesType'
  BY RankType, NamesInNat DEF NamesType, Finalize
<1>2. RestType'
  BY DEF TypeOK, RestType, Finalize, scoping, declarations
<1>3. TraceType'
  BY FinalType, TypeParts DEF TraceType, Finalize
<1>4. QED
  BY <1>1, <1>2, <1>3, TypePartsNext

LEMMA FinalizeThrowsType ==
  ASSUME TypeOK, FinalizeThrows
  PROVE  TypeOK'
<1>1. PICK bad \in Touched \cap Unsupported :
        LET visited == { l \in Touched : l < bad } IN
        /\ symbolName' = FinalSymbol(bad) + 1
        /\ formulaName' = FinalName(bad) + 1
        /\ symbolDefinitions' = symbolDefinitions \cup FinalDeclarations(visited \cup {bad})
        /\ formulae' = formulae \cup FinalReads(visited) \cup FinalStores(visited)
  BY DEF FinalizeThrows
<1> DEFINE visited == { l \in Touched : l < bad }
<1>2. visited \subseteq Touched /\ visited \cup {bad} \subseteq Touched
  BY <1>1
<1>3. Rank(bad) \in Nat
  BY <1>1, RankType
<1>4. NamesType'
  BY <1>1, <1>3 DEF FinalSymbol, FinalName, TypeOK, NamesType
<1>5. RestType'
  BY DEF TypeOK, RestType, FinalizeThrows, times, scoping, declarations
<1>6. /\ FinalDeclarations(visited \cup {bad}) \subseteq [name : Nat, of : Nat]
      /\ FinalReads(visited) \subseteq FormulaSet
      /\ FinalStores(visited) \subseteq FormulaSet
  BY <1>2, FinalType
<1>7. /\ symbolDefinitions' = symbolDefinitions \cup FinalDeclarations(visited \cup {bad})
      /\ formulae' = formulae \cup FinalReads(visited) \cup FinalStores(visited)
  BY <1>1
<1>8. TraceType'
  BY <1>6, <1>7, TypeParts DEF TraceType
<1>9. QED
  BY <1>4, <1>5, <1>8, TypePartsNext

-----------------------------------------------------------------------------
(* The scopes *)

LEMMA InitScopes == Init => ScopesMatch
  BY DEF Init, ScopesMatch

\* The calls that open, end or outlive no scope.
LEMMA ScopesUnchanged ==
  ASSUME ScopesMatch, UNCHANGED scoping
  PROVE  ScopesMatch'
  BY DEF ScopesMatch, scoping

LEMMA MakeEnvironmentScopes ==
  ASSUME TypeOK, ScopesMatch, NEW c \in Logic, MakeEnvironment(c)
  PROVE  ScopesMatch'
<1> DEFINE s == [logic |-> c, bound |-> TRUE, registered |-> TRUE]
           n == Len(scopes)
<1>1. /\ n \in Nat /\ DOMAIN scopes = 1 .. n
      /\ environments = [i \in 1 .. n |-> scopes[i].logic]
      /\ alive /\ alive'
      /\ environments' = Append(environments, c)
      /\ scopes' = Append(scopes, s)
  BY DEF TypeOK, ScopesMatch, MakeEnvironment
<1>2. Len(environments) = n
  BY <1>1
<1>3. /\ DOMAIN scopes' = 1 .. n + 1
      /\ \A i \in 1 .. n : scopes'[i] = scopes[i]
      /\ scopes'[n + 1] = s
  BY <1>1 DEF TypeOK
<1>4. environments' = [i \in 1 .. n + 1 |-> IF i = n + 1 THEN c ELSE environments[i]]
  <2>1. environments \in Seq(Logic)
    BY NamesInNat
  <2>2. environments' \in Seq(Logic) /\ Len(environments') = n + 1
    BY <1>1, <1>2, <2>1
  <2>3. \A i \in 1 .. n + 1 :
          environments'[i] = IF i = n + 1 THEN c ELSE environments[i]
    BY <1>1, <1>2, <2>1
  <2>4. environments' = [i \in 1 .. n + 1 |-> environments'[i]]
    BY <2>2
  <2>5. QED
    BY <2>3, <2>4
<1>5. \A i \in DOMAIN scopes' : scopes'[i].registered /\ (scopes'[i].bound <=> alive')
  <2>1. s.registered /\ s.bound
    OBVIOUS
  <2>2. QED
    BY <1>1, <1>3, <2>1 DEF ScopesMatch
<1>6. environments' = [i \in DOMAIN scopes' |-> scopes'[i].logic]
  <2>1. s.logic = c
    OBVIOUS
  <2> HIDE DEF s
  <2>2. \A i \in 1 .. n : environments[i] = scopes[i].logic
    BY <1>1
  <2>3. \A i \in 1 .. n + 1 :
          (IF i = n + 1 THEN c ELSE environments[i]) = scopes'[i].logic
    BY <1>1, <1>3, <2>1, <2>2
  <2>4. QED
    BY <1>3, <1>4, <2>3
<1>7. QED
  BY <1>1, <1>5, <1>6 DEF ScopesMatch

LEMMA ReleaseEnvironmentScopes ==
  ASSUME TypeOK, ScopesMatch, ReleaseEnvironment
  PROVE  ScopesMatch'
<1> DEFINE n == Len(scopes)
<1>1. n \in Nat \ {0} /\ DOMAIN scopes = 1 .. n /\ alive' = alive
  BY DEF TypeOK, ReleaseEnvironment
<1>2. /\ DOMAIN scopes' = 1 .. n - 1
      /\ \A i \in 1 .. n - 1 : scopes'[i] = scopes[i]
  BY FrontProperties DEF TypeOK, ReleaseEnvironment
<1>3. \A i \in DOMAIN scopes' : scopes'[i].registered /\ (scopes'[i].bound <=> alive')
  BY <1>1, <1>2 DEF ScopesMatch
<1>4. ASSUME alive
      PROVE  environments' = [i \in DOMAIN scopes' |-> scopes'[i].logic]
  <2>1. environments = [i \in 1 .. n |-> scopes[i].logic] /\ scopes[n].bound
    BY <1>1, <1>4 DEF ScopesMatch
  <2>2. Len(environments) = n
    BY <1>1, <2>1
  <2>3. environments' = SubSeq(environments, 1, n - 1)
    BY <2>1, <2>2 DEF ReleaseEnvironment
  <2>4. environments' = [i \in 1 .. n - 1 |-> environments[i]]
    BY <1>1, <2>2, <2>3 DEF TypeOK
  <2>5. QED
    BY <1>1, <1>2, <2>1, <2>4
<1>5. QED
  BY <1>1, <1>3, <1>4 DEF ScopesMatch

LEMMA DestroyScopes ==
  ASSUME TypeOK, ScopesMatch, Destroy
  PROVE  ScopesMatch'
<1>1. DOMAIN scopes' = DOMAIN scopes
  BY DEF Destroy
<1>2. \A i \in DOMAIN scopes : scopes[i].registered
  BY DEF ScopesMatch
<1> DEFINE ScopeSet == [logic : Logic, bound : BOOLEAN, registered : BOOLEAN]
<1>3. \A i \in DOMAIN scopes : scopes[i] \in ScopeSet
  <2>1. scopes \in Seq(ScopeSet)
    BY DEF TypeOK
  <2> HIDE DEF ScopeSet
  <2>2. QED
    BY <2>1
<1>4. \A i \in DOMAIN scopes : scopes'[i].registered /\ ~scopes'[i].bound
  BY <1>2, <1>3 DEF Destroy
<1>5. QED
  BY <1>1, <1>4 DEF ScopesMatch, Destroy

-----------------------------------------------------------------------------
(* Theorems *)

EnvironmentInvariant == TypeOK /\ ScopesMatch

LEMMA NextInvariant == EnvironmentInvariant /\ [Next]_vars => EnvironmentInvariant'
<1> SUFFICES ASSUME TypeOK, ScopesMatch, [Next]_vars
             PROVE  TypeOK' /\ ScopesMatch'
  BY DEF EnvironmentInvariant
<1>1. ASSUME NEW l \in Location, Get(l) \/ GetThrows(l)
      PROVE  TypeOK' /\ ScopesMatch'
  BY <1>1, GetType, GetThrowsType, ScopesUnchanged DEF Get, GetThrows
<1>2. ASSUME NEW l \in Location, NEW a \in Atoms, Set(l, a)
      PROVE  TypeOK' /\ ScopesMatch'
  BY <1>2, SetType, ScopesUnchanged DEF Set
<1>3. ASSUME NEW c \in Logic, NEW a \in Atoms, NEW b \in Atoms, MergeSymbolPaths(c, a, b)
      PROVE  TypeOK' /\ ScopesMatch'
  BY <1>3, MergeSymbolPathsType, ScopesUnchanged DEF MergeSymbolPaths
<1>4. ASSUME NEW op \in Operator, NEW a \in Atoms, NEW b \in Atoms,
             SymbolicInstruction(op, a, b)
      PROVE  TypeOK' /\ ScopesMatch'
  BY <1>4, SymbolicInstructionType, ScopesUnchanged DEF SymbolicInstruction
<1>5. CASE UnconstrainedSymbol
  BY <1>5, UnconstrainedSymbolType, ScopesUnchanged DEF UnconstrainedSymbol
<1>6. ASSUME NEW f \in FunctionName, AddFunctionDeclaration(f)
      PROVE  TypeOK' /\ ScopesMatch'
  BY <1>6, AddFunctionDeclarationType, ScopesUnchanged DEF AddFunctionDeclaration
<1>7. CASE Finalize
  BY <1>7, FinalizeType, ScopesUnchanged DEF Finalize
<1>8. CASE FinalizeThrows
  BY <1>8, FinalizeThrowsType, ScopesUnchanged DEF FinalizeThrows
<1>9. CASE IncrementTime
  BY <1>9, IncrementTimeType, ScopesUnchanged DEF IncrementTime
<1>10. ASSUME NEW c \in Logic, MakeEnvironment(c)
       PROVE  TypeOK' /\ ScopesMatch'
  BY <1>10, MakeEnvironmentType, MakeEnvironmentScopes
<1>11. CASE ReleaseEnvironment
  BY <1>11, ReleaseEnvironmentType, ReleaseEnvironmentScopes
<1>12. CASE Destroy
  BY <1>12, DestroyType, DestroyScopes
<1>13. CASE UNCHANGED vars
  <2>1. TypeOK'
    BY <1>13 DEF TypeOK, vars, names, times, scoping, declarations
  <2>2. QED
    BY <1>13, <2>1, ScopesUnchanged DEF vars
<1>14. QED
  BY <1>1, <1>2, <1>3, <1>4, <1>5, <1>6, <1>7, <1>8, <1>9, <1>10, <1>11, <1>12, <1>13
  DEF Next, SetThrows

\* The state has its types whatever the clients call.  The two name counters
\* stay natural numbers through finalize() because the locations it visits are
\* finitely many, and the stack of guards is never popped when it is empty.
THEOREM EnvironmentTyped == Spec => []TypeOK
<1>1. Init => EnvironmentInvariant
  BY InitType, InitScopes DEF EnvironmentInvariant
<1>2. QED
  BY <1>1, NextInvariant, PTL DEF Spec, EnvironmentInvariant

\* The guards are always those of the open scopes, outermost first, for every
\* set of conditions and any nesting; and no scope outlives the environment
\* with a pointer to it.
THEOREM GuardsAreOpenScopes == Spec => []ScopesMatch
<1>1. Init => EnvironmentInvariant
  BY InitType, InitScopes DEF EnvironmentInvariant
<1>2. QED
  BY <1>1, NextInvariant, PTL DEF Spec, EnvironmentInvariant

-----------------------------------------------------------------------------
(* Names *)

\* A vector of definitions has no name twice; two have no name in common; the names of
\* one are below the counter.
Single(defs) == \A d, e \in defs : d.name = e.name => d = e
Apart(defs, others) == \A d \in defs, e \in others : d.name # e.name
Numbered(defs, n) == \A d \in defs : d.name \in Nat /\ d.name < n

NamesApart(sd, fd, fs, fm) ==
  /\ Single(sd) /\ Single(fd) /\ Single(fs) /\ Single(fm)
  /\ Apart(sd, fd) /\ Apart(sd, fs) /\ Apart(sd, fm)
  /\ Apart(fd, fs) /\ Apart(fd, fm) /\ Apart(fs, fm)

TraceNumbered ==
  /\ Numbered(symbolDefinitions, formulaName) /\ Numbered(functionDeclarations, formulaName)
  /\ Numbered(functions, formulaName) /\ Numbered(formulae, formulaName)
  /\ \A d \in symbolDefinitions : d.of < symbolName

Unique(sd, fd, fs, fm) ==
  LET vectors == << sd, fd, fs, fm >>
  IN \A i, j \in DOMAIN vectors : \A d \in vectors[i], e \in vectors[j] :
       d.name = e.name => i = j /\ d = e

\* Whether vectors of definitions share no name, said in the two ways.
LEMMA UniqueIsApart ==
  ASSUME NEW sd, NEW fd, NEW fs, NEW fm
  PROVE  Unique(sd, fd, fs, fm) <=> NamesApart(sd, fd, fs, fm)
<1> DEFINE vectors == << sd, fd, fs, fm >>
<1>1. /\ DOMAIN vectors = {1, 2, 3, 4}
      /\ vectors[1] = sd /\ vectors[2] = fd /\ vectors[3] = fs /\ vectors[4] = fm
  OBVIOUS
<1> HIDE DEF vectors
<1>2. Unique(sd, fd, fs, fm) <=>
        \A i, j \in DOMAIN vectors : \A d \in vectors[i], e \in vectors[j] :
          d.name = e.name => i = j /\ d = e
  BY DEF vectors, Unique
<1>3. Unique(sd, fd, fs, fm) => NamesApart(sd, fd, fs, fm)
  BY <1>1, <1>2 DEF NamesApart, Single, Apart
<1>4. ASSUME NamesApart(sd, fd, fs, fm)
      PROVE  Unique(sd, fd, fs, fm)
  <2>1. SUFFICES ASSUME NEW i \in {1, 2, 3, 4}, NEW j \in {1, 2, 3, 4},
                        NEW d \in vectors[i], NEW e \in vectors[j], d.name = e.name
                 PROVE  i = j /\ d = e
    BY <1>1, <1>2
  <2>2. QED
    BY <1>1, <1>4, <2>1 DEF NamesApart, Single, Apart
<1>5. QED
  BY <1>3, <1>4

\* NamesUnique in these parts.
DeclaredOnce ==
  /\ \A d, e \in symbolDefinitions : d.of = e.of => d = e
  /\ \A d, e \in functionDeclarations : d.of = e.of => d = e

LEMMA NamesUniqueParts ==
  NamesUnique <=>
    /\ NamesApart(symbolDefinitions, functionDeclarations, functions, formulae)
    /\ DeclaredOnce
  BY UniqueIsApart DEF NamesUnique, Unique, Containers, DeclaredOnce

LEMMA NamesUniquePartsNext ==
  NamesUnique' <=>
    /\ NamesApart(symbolDefinitions', functionDeclarations', functions', formulae')
    /\ DeclaredOnce'
  BY UniqueIsApart DEF NamesUnique, Unique, Containers, DeclaredOnce

LEMMA SingleExtended ==
  ASSUME NEW A, NEW B, NEW n \in Nat, Numbered(A, n), Single(A), Single(B),
         \A d \in B : d.name \in Nat /\ n <= d.name
  PROVE  Single(A \cup B)
  BY DEF Numbered, Single

LEMMA ApartExtended ==
  ASSUME NEW A, NEW B, NEW C, NEW D, NEW n \in Nat, Numbered(A, n), Numbered(C, n),
         Apart(A, C), Apart(B, D),
         \A d \in B \cup D : d.name \in Nat /\ n <= d.name
  PROVE  Apart(A \cup B, C \cup D)
<1> SUFFICES ASSUME NEW d \in A \cup B, NEW e \in C \cup D
             PROVE  d.name # e.name
  BY DEF Apart
<1>1. CASE d \in A /\ e \in C
  BY <1>1 DEF Apart
<1>2. CASE d \in B /\ e \in D
  BY <1>2 DEF Apart
<1>3. CASE d \in A /\ e \in D
  BY <1>3 DEF Numbered
<1>4. CASE d \in B /\ e \in C
  BY <1>4 DEF Numbered
<1>5. QED
  BY <1>1, <1>2, <1>3, <1>4

\* A call adds definitions to the four vectors and takes names for them.
Added(sd, fd, fs, fm) ==
  /\ symbolDefinitions' = symbolDefinitions \cup sd
  /\ functionDeclarations' = functionDeclarations \cup fd
  /\ functions' = functions \cup fs
  /\ formulae' = formulae \cup fm
  /\ formulaName <= formulaName' /\ symbolName <= symbolName'

TakesNames(defs) == \A d \in defs : d.name \in formulaName .. formulaName' - 1

NamesInvariant == TypeOK /\ TraceNumbered /\ NamesUnique /\ DeclaredBeforeUse

\* New names are unique if those taken by one call are.
LEMMA NamesExtended ==
  ASSUME NamesInvariant, TypeOK', NEW sd, NEW fd, NEW fs, NEW fm, Added(sd, fd, fs, fm),
         TakesNames(sd), TakesNames(fd), TakesNames(fs), TakesNames(fm),
         NamesApart(sd, fd, fs, fm),
         \A d \in sd : d.of \in symbolName .. symbolName' - 1,
         \A d, e \in sd : d.of = e.of => d = e,
         \A d \in fd : ~Declared(d.of),
         \A d, e \in fd : d.of = e.of => d = e
  PROVE  TraceNumbered' /\ NamesUnique'
<1>1. /\ formulaName \in Nat /\ formulaName' \in Nat /\ formulaName <= formulaName'
      /\ symbolName \in Nat /\ symbolName' \in Nat /\ symbolName <= symbolName'
  BY DEF NamesInvariant, TypeOK, Added
<1>2. \A d \in sd \cup fd \cup fs \cup fm :
        d.name \in Nat /\ formulaName <= d.name /\ d.name < formulaName'
  BY <1>1 DEF TakesNames
<1>3. TraceNumbered'
  <2>1. ASSUME NEW A, Numbered(A, formulaName), NEW B, B \subseteq sd \cup fd \cup fs \cup fm
        PROVE  Numbered(A \cup B, formulaName')
    BY <1>1, <1>2, <2>1 DEF Numbered
  <2>2. /\ Numbered(symbolDefinitions', formulaName') /\ Numbered(functionDeclarations', formulaName')
        /\ Numbered(functions', formulaName') /\ Numbered(formulae', formulaName')
    BY <2>1 DEF NamesInvariant, TraceNumbered, Added
  <2>3. \A d \in symbolDefinitions' : d.of < symbolName'
    BY <1>1 DEF NamesInvariant, TypeOK, TraceNumbered, Added
  <2>4. QED
    BY <2>2, <2>3 DEF TraceNumbered, Numbered
<1>4. NamesApart(symbolDefinitions', functionDeclarations', functions', formulae')
  <2>1. /\ NamesApart(symbolDefinitions, functionDeclarations, functions, formulae)
        /\ Numbered(symbolDefinitions, formulaName) /\ Numbered(functionDeclarations, formulaName)
        /\ Numbered(functions, formulaName) /\ Numbered(formulae, formulaName)
    BY NamesUniqueParts DEF NamesInvariant, TraceNumbered
  <2>2. /\ Single(symbolDefinitions') /\ Single(functionDeclarations')
        /\ Single(functions') /\ Single(formulae')
    BY <1>1, <1>2, <2>1, SingleExtended DEF NamesApart, Added
  <2>3. /\ Apart(symbolDefinitions', functionDeclarations') /\ Apart(symbolDefinitions', functions')
        /\ Apart(symbolDefinitions', formulae') /\ Apart(functionDeclarations', functions')
        /\ Apart(functionDeclarations', formulae') /\ Apart(functions', formulae')
    BY <1>1, <1>2, <2>1, ApartExtended DEF NamesApart, Added
  <2>4. QED
    BY <2>2, <2>3 DEF NamesApart
<1>5. DeclaredOnce'
  <2>1. \A d \in symbolDefinitions : d.of \in Nat /\ d.of < symbolName
    BY DEF NamesInvariant, TypeOK, TraceNumbered
  <2>2. DeclaredOnce
    BY NamesUniqueParts DEF NamesInvariant
  <2>3. \A d, e \in symbolDefinitions' : d.of = e.of => d = e
    BY <1>1, <2>1, <2>2 DEF Added, DeclaredOnce
  <2>4. \A d, e \in functionDeclarations' : d.of = e.of => d = e
    BY <2>2 DEF Added, Declared, DeclaredOnce
  <2>5. QED
    BY <2>3, <2>4 DEF DeclaredOnce
<1>6. QED
  BY <1>3, <1>4, <1>5, NamesUniquePartsNext

\* What the new formulae speak of has been declared, before them or with them.
LEMMA DeclaredExtended ==
  ASSUME NamesInvariant, NEW sd, NEW fd, NEW fs, NEW fm, Added(sd, fd, fs, fm),
         \A f \in fm : \A a \in AtomsOf(f.body) : a.symbolic =>
           \E d \in symbolDefinitions \cup sd : d.of = a.of /\ d.name < f.name,
         \A f \in fm : f.body.kind = "applied" =>
           \E d \in functionDeclarations \cup fd : d.of = f.body.operator /\ d.name < f.name
  PROVE  DeclaredBeforeUse'
<1> HIDE DEF AtomsOf
<1>1. ASSUME NEW f \in formulae
      PROVE  /\ \A a \in AtomsOf(f.body) : a.symbolic =>
                  \E d \in symbolDefinitions \cup sd : d.of = a.of /\ d.name < f.name
             /\ f.body.kind = "applied" =>
                  \E d \in functionDeclarations \cup fd : d.of = f.body.operator /\ d.name < f.name
  BY DEF NamesInvariant, DeclaredBeforeUse
<1>2. QED
  BY <1>1 DEF DeclaredBeforeUse, Added

\* A client passes the symbols it was given.
LEMMA AtomDeclared ==
  ASSUME NamesInvariant, NEW a \in Atoms, a.symbolic
  PROVE  \E d \in symbolDefinitions : d.of = a.of /\ d.name < formulaName
  BY DEF Atoms, Symbols, SymbolAtom, LiteralAtom, NamesInvariant, TraceNumbered, Numbered

LEMMA AtomsOfBodies ==
  /\ \A t, l, a : /\ AtomsOf(Stored(t, l, a)) = {a}
                  /\ Stored(t, l, a).kind # "applied"
  /\ \A c, a, b, s : /\ AtomsOf(Merged(c, a, b, s)) = {a, b, SymbolAtom(s)}
                     /\ Merged(c, a, b, s).kind # "applied"
  /\ \A op, a, b, s : /\ AtomsOf(Applied(op, a, b, s)) = {a, b, SymbolAtom(s)}
                      /\ Applied(op, a, b, s).operator = op
  BY DEF AtomsOf, Stored, Merged, Applied

LEMMA FormulaParts == \A n, b : Formula(n, b).name = n /\ Formula(n, b).body = b
  BY DEF Formula
LEMMA DeclarationParts == \A n, x : Declaration(n, x).name = n /\ Declaration(n, x).of = x
  BY DEF Declaration
LEMMA SymbolAtomParts == \A s : SymbolAtom(s).symbolic /\ SymbolAtom(s).of = s
  BY DEF SymbolAtom

\* What a call has to show.
NamesKept == TraceNumbered' /\ NamesUnique' /\ DeclaredBeforeUse'

\* A call that takes a symbol, declares at most one operator and states at most one
\* formula, named m, of the symbol and of the client's atoms.
StatesOfSymbol(m, fd, fm) ==
  /\ Added({Declaration(formulaName, symbolName)}, fd, {}, fm)
  /\ symbolName' = symbolName + 1
  /\ formulaName < m /\ formulaName < formulaName'
  /\ \A f, g \in fm : f = g
  /\ \A d, e \in fd : d = e
  /\ \A f \in fm : f.name = m /\ m < formulaName'
  /\ \A d \in fd : /\ ~Declared(d.of)
                   /\ d.name \in Nat /\ formulaName < d.name /\ d.name < m /\ d.name < formulaName'
  /\ \A f \in fm : \A a \in AtomsOf(f.body) : a \in Atoms \cup {SymbolAtom(symbolName)}
  /\ \A f \in fm : f.body.kind = "applied" =>
       \E d \in functionDeclarations \cup fd : d.of = f.body.operator /\ d.name < f.name

LEMMA FreshSymbolNames ==
  ASSUME NamesInvariant, TypeOK', NEW m \in Nat, NEW fd, NEW fm, StatesOfSymbol(m, fd, fm)
  PROVE  NamesKept
<1> DEFINE decl == Declaration(formulaName, symbolName)
           sd == {decl}
<1>0. /\ symbolName \in Nat /\ formulaName \in Nat /\ formulaName' \in Nat
      /\ decl.name = formulaName /\ decl.of = symbolName
  BY DeclarationParts DEF NamesInvariant, TypeOK
<1> HIDE DEF decl
<1> HIDE DEF AtomsOf
<1> USE DEF StatesOfSymbol
<1>1. TakesNames(sd) /\ TakesNames(fd) /\ TakesNames({}) /\ TakesNames(fm)
  BY <1>0 DEF TakesNames
<1>2. NamesApart(sd, fd, {}, fm)
  BY <1>0 DEF NamesApart, Single, Apart
<1>3. /\ \A d \in sd : d.of \in symbolName .. symbolName' - 1
      /\ \A d, e \in sd : d.of = e.of => d = e
  BY <1>0
<1>4. TraceNumbered' /\ NamesUnique'
  BY <1>1, <1>2, <1>3, NamesExtended DEF decl
<1>5. ASSUME NEW f \in fm, NEW a \in AtomsOf(f.body), a.symbolic
      PROVE  \E d \in symbolDefinitions \cup sd : d.of = a.of /\ d.name < f.name
  <2>1. CASE a \in Atoms
    <3>1. PICK d \in symbolDefinitions : d.of = a.of /\ d.name < formulaName
      BY <1>5, <2>1, AtomDeclared
    <3>2. d.name \in Nat
      BY DEF NamesInvariant, TypeOK
    <3>3. QED
      BY <1>0, <3>1, <3>2
  <2>2. CASE a = SymbolAtom(symbolName)
    BY <1>0, <2>2, SymbolAtomParts
  <2>3. QED
    BY <2>1, <2>2
<1>6. DeclaredBeforeUse'
  BY <1>5, DeclaredExtended DEF decl
<1>7. QED
  BY <1>4, <1>6 DEF NamesKept

LEMMA GetNames ==
  ASSUME NamesInvariant, TypeOK', NEW l \in Location, Get(l)
  PROVE  NamesKept
<1> DEFINE n == formulaName + 1
           f == Formula(n, Stored(ReadTime(l), l, SymbolAtom(symbolName)))
<1>1. formulaName \in Nat /\ symbolName \in Nat
  BY DEF NamesInvariant, TypeOK
<1>2. Added({Declaration(formulaName, symbolName)}, {}, {}, {f})
  BY <1>1 DEF Get, Added, declarations
<1>3. /\ f.name = n
      /\ AtomsOf(f.body) = {SymbolAtom(symbolName)}
      /\ f.body.kind # "applied"
  BY FormulaParts, AtomsOfBodies
<1>4. symbolName' = symbolName + 1 /\ formulaName' = n + 1 /\ n \in Nat /\ formulaName < n
  BY <1>1 DEF Get
<1> HIDE DEF f, n
<1>5. StatesOfSymbol(n, {}, {f})
  BY <1>1, <1>2, <1>3, <1>4 DEF StatesOfSymbol
<1>6. QED
  BY <1>4, <1>5, FreshSymbolNames

\* GetThrows and UnconstrainedSymbol
LEMMA LoneSymbolNames ==
  ASSUME NamesInvariant, TypeOK',
         symbolName' = symbolName + 1, formulaName' = formulaName + 1,
         symbolDefinitions' = symbolDefinitions \cup { Declaration(formulaName, symbolName) },
         UNCHANGED << declarations, formulae >>
  PROVE  NamesKept
<1>1. formulaName \in Nat /\ symbolName \in Nat
  BY DEF NamesInvariant, TypeOK
<1>2. Added({Declaration(formulaName, symbolName)}, {}, {}, {})
  BY <1>1 DEF Added, declarations
<1>3. formulaName + 1 \in Nat /\ StatesOfSymbol(formulaName + 1, {}, {})
  BY <1>1, <1>2 DEF StatesOfSymbol
<1>4. QED
  BY <1>3, FreshSymbolNames

LEMMA MergeSymbolPathsNames ==
  ASSUME NamesInvariant, TypeOK', NEW c \in Logic, NEW a \in Atoms, NEW b \in Atoms,
         MergeSymbolPaths(c, a, b)
  PROVE  NamesKept
<1> DEFINE f == Formula(formulaName + 1, Merged(c, a, b, symbolName))
<1>1. formulaName \in Nat /\ symbolName \in Nat
  BY DEF NamesInvariant, TypeOK
<1>2. Added({Declaration(formulaName, symbolName)}, {}, {}, {f})
  BY <1>1 DEF MergeSymbolPaths, Added, declarations
<1> DEFINE n == formulaName + 1
<1>3. /\ f.name = n
      /\ AtomsOf(f.body) = {a, b, SymbolAtom(symbolName)}
      /\ f.body.kind # "applied"
  BY FormulaParts, AtomsOfBodies
<1>4. symbolName' = symbolName + 1 /\ formulaName' = n + 1 /\ n \in Nat /\ formulaName < n
  BY <1>1 DEF MergeSymbolPaths
<1> HIDE DEF f, n
<1>5. StatesOfSymbol(n, {}, {f})
  BY <1>1, <1>2, <1>3, <1>4 DEF StatesOfSymbol
<1>6. QED
  BY <1>4, <1>5, FreshSymbolNames

LEMMA SymbolicInstructionNames ==
  ASSUME NamesInvariant, TypeOK', NEW op \in Operator, NEW a \in Atoms, NEW b \in Atoms,
         SymbolicInstruction(op, a, b)
  PROVE  NamesKept
<1>1. formulaName \in Nat /\ symbolName \in Nat
  BY DEF NamesInvariant, TypeOK
<1> DEFINE n == IF Declared(op) THEN formulaName + 1 ELSE formulaName + 2
           f == Formula(n, Applied(op, a, b, symbolName))
           fd == IF Declared(op) THEN {} ELSE { Declaration(formulaName + 1, op) }
<1>2. /\ symbolName' = symbolName + 1 /\ formulaName' = n + 1
      /\ n \in Nat /\ formulaName < n
  BY <1>1 DEF SymbolicInstruction
<1>3. Added({Declaration(formulaName, symbolName)}, fd, {}, {f})
  BY <1>1, <1>2 DEF SymbolicInstruction, Added
<1>4. f.name = n /\ f.body = Applied(op, a, b, symbolName)
  BY FormulaParts
<1>5. AtomsOf(f.body) = {a, b, SymbolAtom(symbolName)} /\ f.body.operator = op
  BY <1>4, AtomsOfBodies
<1>6. \A d \in fd : d.of = op /\ ~Declared(op) /\ d.name = formulaName + 1 /\ d.name < n
  BY <1>1, DeclarationParts
<1>7. \E d \in functionDeclarations \cup fd : d.of = op /\ d.name < n
  <2>1. CASE Declared(op)
    BY <1>2, <2>1, <1>1 DEF Declared, NamesInvariant, TraceNumbered, Numbered
  <2>2. CASE ~Declared(op)
    BY <1>6, <2>2
  <2>3. QED
    BY <2>1, <2>2
<1>8. \A d, e \in fd : d = e
  OBVIOUS
<1> HIDE DEF f, fd, n
<1>9. \A d \in fd : /\ ~Declared(d.of) /\ d.name \in Nat
                   /\ formulaName < d.name /\ d.name < n /\ d.name < formulaName'
  BY <1>1, <1>2, <1>6
<1>10. StatesOfSymbol(n, fd, {f})
  BY <1>1, <1>2, <1>3, <1>4, <1>5, <1>7, <1>8, <1>9 DEF StatesOfSymbol
<1>11. QED
  BY <1>2, <1>10, FreshSymbolNames

LEMMA SetNames ==
  ASSUME NamesInvariant, TypeOK', NEW l \in Location, NEW a \in Atoms, Set(l, a)
  PROVE  NamesKept
<1> DEFINE f == Formula(formulaName, Stored(time, l, a))
<1>1. formulaName \in Nat /\ symbolName \in Nat
  BY DEF NamesInvariant, TypeOK
<1>2. Added({}, {}, {}, {f}) /\ formulaName' = formulaName + 1
  BY <1>1 DEF Set, Added, declarations
<1>3. f.name = formulaName /\ AtomsOf(f.body) = {a} /\ f.body.kind # "applied"
  BY FormulaParts, AtomsOfBodies
<1> HIDE DEF f
<1>4. TakesNames({}) /\ TakesNames({f}) /\ NamesApart({}, {}, {}, {f})
  BY <1>1, <1>2, <1>3 DEF TakesNames, NamesApart, Single, Apart
<1>5. TraceNumbered' /\ NamesUnique'
  BY <1>2, <1>4, NamesExtended
<1>6. DeclaredBeforeUse'
  BY <1>2, <1>3, AtomDeclared, DeclaredExtended
<1>7. QED
  BY <1>5, <1>6 DEF NamesKept

LEMMA AddFunctionDeclarationNames ==
  ASSUME NamesInvariant, TypeOK', NEW g \in FunctionName, AddFunctionDeclaration(g)
  PROVE  NamesKept
<1> DEFINE d == Declaration(formulaName, g)
<1>1. formulaName \in Nat /\ symbolName \in Nat
  BY DEF NamesInvariant, TypeOK
<1>2. Added({}, {}, {d}, {}) /\ formulaName' = formulaName + 1
  BY <1>1 DEF AddFunctionDeclaration, Added
<1>3. d.name = formulaName
  BY DeclarationParts
<1> HIDE DEF d
<1>4. TakesNames({}) /\ TakesNames({d}) /\ NamesApart({}, {}, {d}, {})
  BY <1>1, <1>2, <1>3 DEF TakesNames, NamesApart, Single, Apart
<1>5. TraceNumbered' /\ NamesUnique'
  BY <1>2, <1>4, NamesExtended
<1>6. DeclaredBeforeUse'
  BY <1>2, DeclaredExtended
<1>7. QED
  BY <1>5, <1>6 DEF NamesKept

LEMMA NamesUnchanged ==
  ASSUME NamesInvariant, UNCHANGED << names, declarations, symbolDefinitions, formulae >>
  PROVE  NamesKept
  BY DEF NamesInvariant, NamesKept, TraceNumbered, Numbered, NamesUnique, Containers,
         DeclaredBeforeUse, names, declarations

LEMMA SmallerSubset ==
  ASSUME NEW S, NEW T, IsFiniteSet(T), S \subseteq T, NEW x \in T, x \notin S
  PROVE  Cardinality(S) \in Nat /\ Cardinality(T) \in Nat /\ Cardinality(S) < Cardinality(T)
  BY FS_Subset, FS_CardinalityType

\* finalize() visits the locations in their order, one after the other.
LEMMA RankOrder ==
  ASSUME TypeOK
  PROVE  /\ \A l \in Touched : Rank(l) < Cardinality(Touched)
         /\ \A l, k \in Touched : l < k => Rank(l) < Rank(k)
<1> DEFINE below(l) == { k \in Touched : k < l }
<1>1. Touched \subseteq Nat /\ IsFiniteSet(Touched) /\ \A l \in Touched : IsFiniteSet(below(l))
  BY FS_Subset DEF Touched
<1>2. ASSUME NEW l \in Touched
      PROVE  Rank(l) < Cardinality(Touched)
  <2>1. below(l) \subseteq Touched /\ l \notin below(l)
    BY <1>1
  <2>2. QED
    BY <1>1, <2>1, SmallerSubset DEF Rank
<1>3. ASSUME NEW l \in Touched, NEW k \in Touched, l < k
      PROVE  Rank(l) < Rank(k)
  <2>1. \A i \in Touched : i < l => i < k
    BY <1>1, <1>3
  <2>2. below(l) \subseteq below(k)
    BY <2>1
  <2>3. l \notin below(l) /\ l \in below(k)
    BY <1>1, <1>3
  <2>4. QED
    BY <1>1, <2>2, <2>3, SmallerSubset DEF Rank
<1>4. QED
  BY <1>2, <1>3

\* Two visits share no symbol and no formula name: a visit takes three names.
LEMMA VisitNames ==
  ASSUME TypeOK, NEW l \in Touched, NEW k \in Touched
  PROVE  /\ FinalSymbol(l) \in Nat /\ symbolName <= FinalSymbol(l)
         /\ FinalName(l) \in Nat /\ formulaName <= FinalName(l)
         /\ l < k => FinalSymbol(l) < FinalSymbol(k) /\ FinalName(l) + 3 <= FinalName(k)
         /\ FinalSymbol(l) = FinalSymbol(k) => l = k
         /\ FinalName(l) \in FinalName(k) - 2 .. FinalName(k) + 2 => l = k
<1>1. /\ formulaName \in Nat /\ symbolName \in Nat /\ Rank(l) \in Nat /\ Rank(k) \in Nat
      /\ l \in Nat /\ k \in Nat
  BY RankType DEF TypeOK
<1>2. /\ l < k => Rank(l) < Rank(k)
      /\ k < l => Rank(k) < Rank(l)
  BY RankOrder
<1>3. l < k \/ l = k \/ k < l
  BY <1>1
<1> DEFINE i == Rank(l)
           j == Rank(k)
<1>4. /\ FinalSymbol(l) = symbolName + i /\ FinalSymbol(k) = symbolName + j
      /\ FinalName(l) = formulaName + 3 * i /\ FinalName(k) = formulaName + 3 * j
  BY DEF FinalSymbol, FinalName
<1> HIDE DEF i, j
<1>5. i \in Nat /\ j \in Nat /\ (l < k => i < j) /\ (k < l => j < i)
  BY <1>1, <1>2 DEF i, j
<1>6. QED
  BY <1>1, <1>3, <1>4, <1>5

\* What a visit adds.
FinalRead(l) ==
  Formula(FinalName(l) + 1, Stored(symbolSetTimes[l], l, SymbolAtom(FinalSymbol(l))))
FinalStore(l) == Formula(FinalName(l) + 2, Stored(0, l, SymbolAtom(FinalSymbol(l))))
SpeaksOf(f, l) == AtomsOf(f.body) = {SymbolAtom(FinalSymbol(l))} /\ f.body.kind # "applied"

LEMMA VisitFormulae ==
  ASSUME NEW S
  PROVE  /\ \A d \in FinalDeclarations(S) : \E l \in S :
              /\ d = Declaration(FinalName(l), FinalSymbol(l))
              /\ d.name = FinalName(l) /\ d.of = FinalSymbol(l)
         /\ \A f \in FinalReads(S) : \E l \in S :
              f = FinalRead(l) /\ f.name = FinalName(l) + 1 /\ SpeaksOf(f, l)
         /\ \A f \in FinalStores(S) : \E l \in S :
              f = FinalStore(l) /\ f.name = FinalName(l) + 2 /\ SpeaksOf(f, l)
<1> USE FormulaParts, AtomsOfBodies, DeclarationParts
<1> HIDE DEF AtomsOf, Formula, Stored, Declaration
<1>1. QED
  BY DEF FinalDeclarations, FinalReads, FinalStores, FinalRead, FinalStore, SpeaksOf

\* The loop of finalize(), whole or up to the location it throws for.
LEMMA VisitsNames ==
  ASSUME NamesInvariant, TypeOK',
         NEW D, NEW S, D \subseteq Touched, S \subseteq D,
         Added(FinalDeclarations(D), {}, {}, FinalReads(S) \cup FinalStores(S)),
         \A l \in D : FinalSymbol(l) < symbolName' /\ FinalName(l) < formulaName',
         \A l \in S : FinalName(l) + 2 < formulaName'
  PROVE  NamesKept
<1> DEFINE sd == FinalDeclarations(D)
           fm == FinalReads(S) \cup FinalStores(S)
<1>0. /\ symbolName \in Nat /\ symbolName' \in Nat /\ formulaName \in Nat /\ formulaName' \in Nat
      /\ \A l \in D : /\ FinalSymbol(l) \in Nat /\ symbolName <= FinalSymbol(l)
                      /\ FinalName(l) \in Nat /\ formulaName <= FinalName(l)
      /\ \A l, k \in D : /\ FinalSymbol(l) = FinalSymbol(k) => l = k
                         /\ FinalName(l) \in FinalName(k) - 2 .. FinalName(k) + 2 => l = k
  BY VisitNames DEF NamesInvariant, TypeOK
<1>1. \A d \in sd : \E l \in D :
        /\ d = Declaration(FinalName(l), FinalSymbol(l))
        /\ d.name = FinalName(l) /\ d.of = FinalSymbol(l)
  BY VisitFormulae
<1>2. \A f \in FinalReads(S) : \E l \in S :
        f = FinalRead(l) /\ f.name = FinalName(l) + 1 /\ SpeaksOf(f, l)
  BY VisitFormulae
<1>3. \A f \in FinalStores(S) : \E l \in S :
        f = FinalStore(l) /\ f.name = FinalName(l) + 2 /\ SpeaksOf(f, l)
  BY VisitFormulae
<1>4. \A l \in S : Declaration(FinalName(l), FinalSymbol(l)) \in sd
  BY DEF FinalDeclarations
<1> HIDE DEF sd
<1>5. TakesNames(sd) /\ TakesNames({}) /\ TakesNames(fm)
  BY <1>0, <1>1, <1>2, <1>3 DEF TakesNames
<1>6. Single(sd)
  BY <1>0, <1>1 DEF Single
<1>7. Single(fm)
  <2>1. ASSUME NEW f \in FinalReads(S), NEW g \in FinalReads(S), f.name = g.name
        PROVE  f = g
    <3>1. PICK l \in S : f = FinalRead(l) /\ f.name = FinalName(l) + 1
      BY <1>2
    <3>2. PICK k \in S : g = FinalRead(k) /\ g.name = FinalName(k) + 1
      BY <1>2
    <3>3. l = k
      BY <1>0, <2>1, <3>1, <3>2
    <3>4. QED
      BY <3>1, <3>2, <3>3
  <2>2. ASSUME NEW f \in FinalStores(S), NEW g \in FinalStores(S), f.name = g.name
        PROVE  f = g
    <3>1. PICK l \in S : f = FinalStore(l) /\ f.name = FinalName(l) + 2
      BY <1>3
    <3>2. PICK k \in S : g = FinalStore(k) /\ g.name = FinalName(k) + 2
      BY <1>3
    <3>3. l = k
      BY <1>0, <2>2, <3>1, <3>2
    <3>4. QED
      BY <3>1, <3>2, <3>3
  <2>3. ASSUME NEW f \in FinalReads(S), NEW g \in FinalStores(S)
        PROVE  f.name # g.name
    <3>1. PICK l \in S : f.name = FinalName(l) + 1
      BY <1>2
    <3>2. PICK k \in S : g.name = FinalName(k) + 2
      BY <1>3
    <3>3. SUFFICES ASSUME f.name = g.name PROVE FALSE
      OBVIOUS
    <3>4. l = k
      BY <1>0, <3>1, <3>2, <3>3
    <3>5. QED
      BY <1>0, <3>1, <3>2, <3>3, <3>4
  <2>4. QED
    BY <2>1, <2>2, <2>3 DEF Single
<1>8. Apart(sd, fm)
  <2>1. SUFFICES ASSUME NEW d \in sd, NEW f \in fm, d.name = f.name
                 PROVE  FALSE
    BY DEF Apart
  <2>2. PICK k \in D : d.name = FinalName(k)
    BY <1>1
  <2>3. PICK l \in S : f.name = FinalName(l) + 1 \/ f.name = FinalName(l) + 2
    BY <1>2, <1>3
  <2>4. l = k
    BY <1>0, <2>1, <2>2, <2>3
  <2>5. QED
    BY <1>0, <2>1, <2>2, <2>3, <2>4
<1>9. /\ \A d \in sd : d.of \in symbolName .. symbolName' - 1
      /\ \A d, e \in sd : d.of = e.of => d = e
  BY <1>0, <1>1
<1>10. NamesApart(sd, {}, {}, fm)
  BY <1>6, <1>7, <1>8 DEF NamesApart, Single, Apart
<1>11. Added(sd, {}, {}, fm)
  BY DEF sd
<1>12. ASSUME NEW f \in fm
       PROVE  f.body.kind # "applied"
              /\ \A a \in AtomsOf(f.body) : \E d \in sd : d.of = a.of /\ d.name < f.name
  <2>1. PICK l \in S : /\ f.name = FinalName(l) + 1 \/ f.name = FinalName(l) + 2
                       /\ AtomsOf(f.body) = {SymbolAtom(FinalSymbol(l))} /\ f.body.kind # "applied"
    BY <1>2, <1>3 DEF SpeaksOf
  <2> DEFINE e == Declaration(FinalName(l), FinalSymbol(l))
  <2>2. e \in sd /\ e.of = FinalSymbol(l) /\ e.name = FinalName(l)
    BY <1>4, DeclarationParts
  <2>3. \A a \in AtomsOf(f.body) : a.of = FinalSymbol(l)
    BY <2>1, SymbolAtomParts
  <2>4. e.name < f.name
    BY <1>0, <2>1, <2>2
  <2>5. QED
    BY <2>1, <2>2, <2>3, <2>4
<1> HIDE DEF fm
<1>13. TraceNumbered' /\ NamesUnique'
  BY <1>5, <1>9, <1>10, <1>11, NamesExtended
<1>14. DeclaredBeforeUse'
  BY <1>11, <1>12, DeclaredExtended
<1>15. QED
  BY <1>13, <1>14 DEF NamesKept

LEMMA FinalizeNames ==
  ASSUME NamesInvariant, TypeOK', Finalize
  PROVE  NamesKept
<1>1. /\ symbolName \in Nat /\ formulaName \in Nat /\ Cardinality(Touched) \in Nat
      /\ \A l \in Touched : Rank(l) \in Nat /\ Rank(l) < Cardinality(Touched)
  BY RankType, RankOrder DEF NamesInvariant, TypeOK
<1>2. /\ symbolName' = symbolName + Cardinality(Touched)
      /\ formulaName' = formulaName + 3 * Cardinality(Touched)
  BY DEF Finalize
<1>3. \A l \in Touched : /\ FinalSymbol(l) < symbolName'
                         /\ FinalName(l) \in Nat /\ FinalName(l) + 2 < formulaName'
  BY <1>1, <1>2 DEF FinalSymbol, FinalName
<1>4. Added(FinalDeclarations(Touched), {}, {}, FinalReads(Touched) \cup FinalStores(Touched))
  BY <1>1, <1>2 DEF Finalize, Added, declarations
<1>5. \A l \in Touched : FinalName(l) < formulaName'
  BY <1>1, <1>2, <1>3
<1>6. QED
  BY <1>3, <1>4, <1>5, VisitsNames

LEMMA FinalizeThrowsNames ==
  ASSUME NamesInvariant, TypeOK', FinalizeThrows
  PROVE  NamesKept
<1>1. PICK bad \in Touched \cap Unsupported :
        LET visited == { l \in Touched : l < bad } IN
        /\ symbolName' = FinalSymbol(bad) + 1
        /\ formulaName' = FinalName(bad) + 1
        /\ symbolDefinitions' = symbolDefinitions \cup FinalDeclarations(visited \cup {bad})
        /\ formulae' = formulae \cup FinalReads(visited) \cup FinalStores(visited)
  BY DEF FinalizeThrows
<1> DEFINE visited == { l \in Touched : l < bad }
<1>2. visited \subseteq Touched /\ visited \cup {bad} \subseteq Touched
  BY <1>1
<1>3. /\ symbolName \in Nat /\ formulaName \in Nat
      /\ \A l \in Touched : /\ FinalSymbol(l) \in Nat /\ symbolName <= FinalSymbol(l)
                            /\ FinalName(l) \in Nat /\ formulaName <= FinalName(l)
      /\ \A l \in visited : FinalSymbol(l) < FinalSymbol(bad) /\ FinalName(l) + 3 <= FinalName(bad)
  BY <1>1, VisitNames DEF NamesInvariant, TypeOK
<1>4. \A l \in visited \cup {bad} : FinalSymbol(l) < symbolName' /\ FinalName(l) < formulaName'
  BY <1>1, <1>2, <1>3
<1>5. \A l \in visited : FinalName(l) + 2 < formulaName'
  BY <1>1, <1>2, <1>3
<1>6. Added(FinalDeclarations(visited \cup {bad}), {}, {},
            FinalReads(visited) \cup FinalStores(visited))
  <2>1. UNCHANGED declarations
    BY DEF FinalizeThrows
  <2>2. formulaName <= formulaName' /\ symbolName <= symbolName'
    BY <1>1, <1>3
  <2>3. QED
    BY <1>1, <2>1, <2>2 DEF Added, declarations
<1> HIDE DEF visited
<1>7. QED
  BY <1>2, <1>4, <1>5, <1>6, VisitsNames

LEMMA NextNames ==
  NamesInvariant /\ ScopesMatch /\ [Next]_vars => NamesInvariant' /\ ScopesMatch'
<1> SUFFICES ASSUME NamesInvariant, ScopesMatch, [Next]_vars
             PROVE  NamesInvariant' /\ ScopesMatch'
  OBVIOUS
<1>1. TypeOK' /\ ScopesMatch'
  BY NextInvariant DEF EnvironmentInvariant, NamesInvariant
<1>2. SUFFICES NamesKept
  BY <1>1 DEF NamesInvariant, NamesKept
<1>3. ASSUME NEW l \in Location, Get(l)
      PROVE  NamesKept
  BY <1>1, <1>3, GetNames
<1>4. ASSUME NEW l \in Location, GetThrows(l)
      PROVE  NamesKept
  BY <1>1, <1>4, LoneSymbolNames DEF GetThrows
<1>5. ASSUME NEW l \in Location, NEW a \in Atoms, Set(l, a)
      PROVE  NamesKept
  BY <1>1, <1>5, SetNames
<1>6. ASSUME NEW c \in Logic, NEW a \in Atoms, NEW b \in Atoms, MergeSymbolPaths(c, a, b)
      PROVE  NamesKept
  BY <1>1, <1>6, MergeSymbolPathsNames
<1>7. ASSUME NEW op \in Operator, NEW a \in Atoms, NEW b \in Atoms, SymbolicInstruction(op, a, b)
      PROVE  NamesKept
  BY <1>1, <1>7, SymbolicInstructionNames
<1>8. CASE UnconstrainedSymbol
  BY <1>1, <1>8, LoneSymbolNames DEF UnconstrainedSymbol
<1>9. ASSUME NEW f \in FunctionName, AddFunctionDeclaration(f)
      PROVE  NamesKept
  BY <1>1, <1>9, AddFunctionDeclarationNames
<1>10. CASE Finalize
  BY <1>1, <1>10, FinalizeNames
<1>11. CASE FinalizeThrows
  BY <1>1, <1>11, FinalizeThrowsNames
<1>12. CASE \/ IncrementTime \/ \E c \in Logic : MakeEnvironment(c)
            \/ ReleaseEnvironment \/ Destroy \/ UNCHANGED vars
  BY <1>12, NamesUnchanged
  DEF IncrementTime, MakeEnvironment, ReleaseEnvironment, Destroy, vars
<1>13. QED
  BY <1>3, <1>4, <1>5, <1>6, <1>7, <1>8, <1>9, <1>10, <1>11, <1>12
  DEF Next, SetThrows

LEMMA InitNames == Init => NamesInvariant /\ ScopesMatch
  BY InitType, InitScopes, NamesUniqueParts
  DEF Init, NamesInvariant, TraceNumbered, Numbered, NamesApart, Single, Apart, DeclaredOnce,
      DeclaredBeforeUse

\* No two definitions of the trace ever get the same formula name, for every
\* finite set of locations and any sequence of calls, those that throw half-way
\* included; no symbol and no operator is declared twice.
THEOREM DefinitionNamesUnique == Spec => []NamesUnique
<1>1. Spec => [](NamesInvariant /\ ScopesMatch)
  BY InitNames, NextNames, PTL DEF Spec
<1>2. NamesInvariant => NamesUnique
  BY DEF NamesInvariant
<1>3. QED
  BY <1>1, <1>2, PTL

\* Every symbol and operator a formula speaks of is declared under an earlier
\* name, whatever atoms the client passes around and wherever finalize() throws.
THEOREM UsesFollowDeclarations == Spec => []DeclaredBeforeUse
<1>1. Spec => [](NamesInvariant /\ ScopesMatch)
  BY InitNames, NextNames, PTL DEF Spec
<1>2. NamesInvariant => DeclaredBeforeUse
  BY DEF NamesInvariant
<1>3. QED
  BY <1>1, <1>2, PTL

-----------------------------------------------------------------------------
(* The times locations are read at *)

\* Some formula stores the location at that time.
StoredAt(l, t) ==
  \E f \in formulae : /\ f.body.kind = "stored"
                      /\ f.body.location = l
                      /\ f.body.time = t
                      /\ f.name < formulaName

\* incrementTime() commits every update it has ever seen again, so the recorded
\* updates have to be anchored as the reads are, and ahead of them.
ReadsInOrder ==
  \A l \in Location :
    /\ symbolUpdateSet[l] <= time
    /\ symbolUpdateSet[l] # 0 => symbolSetTimes[l] <= symbolUpdateSet[l]
    /\ symbolUpdateSet[l] = 0 => symbolSetTimes[l] \in {0, 1}

UpdatesAnchored == \A l \in Location : symbolUpdateSet[l] # 0 => StoredAt(l, symbolUpdateSet[l])

ReadsInvariant == ReadsInOrder /\ UpdatesAnchored /\ ReadsAnchored

LEMMA InitReads == Init => ReadsInvariant
  BY DEF Init, ReadsInvariant, ReadsInOrder, UpdatesAnchored, ReadsAnchored

\* No call takes a formula or a name back.
LEMMA TraceGrows ==
  ASSUME TypeOK, [Next]_vars
  PROVE  formulae \subseteq formulae' /\ formulaName <= formulaName' /\ formulaName' \in Nat
<1>1. /\ formulaName \in Nat /\ Cardinality(Touched) \in Nat
      /\ \A l \in Touched : FinalName(l) \in Nat /\ formulaName <= FinalName(l)
  <2>1. formulaName \in Nat /\ Cardinality(Touched) \in Nat /\ \A l \in Touched : Rank(l) \in Nat
    BY RankType, NamesInNat
  <2>2. QED
    BY <2>1 DEF FinalName
<1>2. ASSUME NEW l \in Location, NEW a, Get(l) \/ GetThrows(l) \/ Set(l, a) \/ SetThrows(l)
      PROVE  formulae \subseteq formulae' /\ formulaName <= formulaName' /\ formulaName' \in Nat
  BY <1>1, <1>2 DEF Get, GetThrows, Set, SetThrows, vars, names
<1>3. ASSUME NEW c, NEW a, NEW b, MergeSymbolPaths(c, a, b) \/ SymbolicInstruction(c, a, b)
      PROVE  formulae \subseteq formulae' /\ formulaName <= formulaName' /\ formulaName' \in Nat
  BY <1>1, <1>3 DEF MergeSymbolPaths, SymbolicInstruction
<1>4. ASSUME NEW f, AddFunctionDeclaration(f)
      PROVE  formulae \subseteq formulae' /\ formulaName <= formulaName' /\ formulaName' \in Nat
  BY <1>1, <1>4 DEF AddFunctionDeclaration
<1>5. CASE UnconstrainedSymbol
  BY <1>1, <1>5 DEF UnconstrainedSymbol
<1>6. CASE Finalize
  BY <1>1, <1>6 DEF Finalize
<1>7. CASE FinalizeThrows
  <2>1. PICK bad \in Touched : formulaName' = FinalName(bad) + 1
    BY <1>7 DEF FinalizeThrows
  <2>2. formulae \subseteq formulae'
    BY <1>7 DEF FinalizeThrows
  <2>3. QED
    BY <1>1, <2>1, <2>2
<1>8. CASE \/ IncrementTime \/ \E c \in Logic : MakeEnvironment(c)
           \/ ReleaseEnvironment \/ Destroy \/ UNCHANGED vars
  <2>1. UNCHANGED << names, formulae >>
    BY <1>8 DEF IncrementTime, MakeEnvironment, ReleaseEnvironment, Destroy, vars
  <2>2. QED
    BY <1>1, <2>1 DEF names
<1>9. QED
  BY <1>2, <1>3, <1>4, <1>5, <1>6, <1>7, <1>8 DEF Next

\* An anchor is never lost.
LEMMA StoredAtKept ==
  ASSUME TypeOK, [Next]_vars, NEW l, NEW t, StoredAt(l, t)
  PROVE  StoredAt(l, t)'
<1>1. PICK f \in formulae : /\ f.body.kind = "stored" /\ f.body.location = l
                            /\ f.body.time = t /\ f.name < formulaName
  BY DEF StoredAt
<1>2. f.name \in Nat /\ formulaName \in Nat
  BY DEF TypeOK
<1>3. f \in formulae' /\ f.name < formulaName'
  BY <1>1, <1>2, TraceGrows
<1>4. QED
  BY <1>1, <1>3 DEF StoredAt


\* What a step may do to the times of one location.
ReadsKept(l) ==
  /\ symbolUpdateSet'[l] <= time'
  /\ symbolUpdateSet'[l] # 0 => symbolSetTimes'[l] <= symbolUpdateSet'[l]
  /\ symbolUpdateSet'[l] = 0 => symbolSetTimes'[l] \in {0, 1}
  /\ (symbolUpdateSet[l] # 0 => StoredAt(l, symbolUpdateSet[l]))'
  /\ (symbolSetTimes[l] > 1 => StoredAt(l, symbolSetTimes[l]))'

ReadMoves(l) ==
  \/ symbolSetTimes'[l] = symbolSetTimes[l]
  \/ symbolSetTimes'[l] \in {0, 1} /\ symbolSetTimes'[l] # symbolSetTimes[l] /\ time' = time
  \/ symbolSetTimes'[l] > symbolSetTimes[l] /\ symbolSetTimes'[l] < time'

LEMMA ReadsParts ==
  (\A l \in Location : ReadsKept(l)) => ReadsInvariant'
  BY DEF ReadsKept, ReadsInvariant, ReadsInOrder, UpdatesAnchored, ReadsAnchored, StoredAt

\* The state of one location as the invariant gives it.
LEMMA ReadsOf ==
  ASSUME TypeOK, ReadsInvariant, NEW l \in Location
  PROVE  /\ time \in Nat \ {0} /\ symbolSetTimes[l] \in Nat /\ symbolUpdateSet[l] \in Nat
         /\ symbolUpdateSet[l] <= time
         /\ symbolUpdateSet[l] # 0 => symbolSetTimes[l] <= symbolUpdateSet[l]
         /\ symbolUpdateSet[l] = 0 => symbolSetTimes[l] \in {0, 1}
         /\ symbolUpdateSet[l] # 0 => StoredAt(l, symbolUpdateSet[l])
         /\ symbolSetTimes[l] > 1 => StoredAt(l, symbolSetTimes[l])
  BY DEF TypeOK, ReadsInvariant, ReadsInOrder, UpdatesAnchored, ReadsAnchored, StoredAt

\* A location whose update is kept and whose read time is kept or reset.
LEMMA SameUpdate ==
  ASSUME TypeOK, ReadsInvariant, [Next]_vars, NEW l \in Location, time' = time,
         symbolUpdateSet'[l] = symbolUpdateSet[l],
         \/ symbolSetTimes'[l] = symbolSetTimes[l]
         \/ symbolSetTimes'[l] = 0
         \/ symbolSetTimes'[l] = ReadTime(l)
  PROVE  ReadsKept(l) /\ ReadMoves(l)
<1>1. /\ time \in Nat \ {0} /\ symbolSetTimes[l] \in Nat /\ symbolUpdateSet[l] \in Nat
      /\ symbolUpdateSet[l] <= time
      /\ symbolUpdateSet[l] # 0 => symbolSetTimes[l] <= symbolUpdateSet[l]
      /\ symbolUpdateSet[l] = 0 => symbolSetTimes[l] \in {0, 1}
  BY ReadsOf
<1>2. \/ symbolSetTimes'[l] = symbolSetTimes[l]
      \/ symbolSetTimes'[l] = 0
      \/ symbolSetTimes[l] = 0 /\ symbolSetTimes'[l] = 1
  BY DEF ReadTime
<1>3. (symbolUpdateSet[l] # 0 => StoredAt(l, symbolUpdateSet[l]))'
  BY ReadsOf, StoredAtKept
<1>4. (symbolSetTimes[l] > 1 => StoredAt(l, symbolSetTimes[l]))'
  BY <1>2, ReadsOf, StoredAtKept
<1>5. QED
  BY <1>1, <1>2, <1>3, <1>4 DEF ReadsKept, ReadMoves

LEMMA SetReads ==
  ASSUME TypeOK, TypeOK', ReadsInvariant, [Next]_vars, NEW l \in Location, NEW a \in Atoms, Set(l, a)
  PROVE  \A k \in Location : ReadsKept(k) /\ ReadMoves(k)
<1>1. ASSUME NEW k \in Location, k # l
      PROVE  ReadsKept(k) /\ ReadMoves(k)
  BY <1>1, SameUpdate DEF Set, TypeOK
<1>2. ReadsKept(l) /\ ReadMoves(l)
  <2>1. /\ time' = time /\ symbolUpdateSet'[l] = time /\ symbolSetTimes' = symbolSetTimes
        /\ formulaName' = formulaName + 1 /\ formulaName \in Nat
    BY DEF Set, TypeOK
  <2>2. Formula(formulaName, Stored(time, l, a)) \in formulae'
    BY DEF Set
  <2>3. StoredAt(l, time)'
    BY <2>1, <2>2 DEF StoredAt, Formula, Stored
  <2>4. (symbolSetTimes[l] > 1 => StoredAt(l, symbolSetTimes[l]))'
    BY <2>1, ReadsOf, StoredAtKept
  <2>5. symbolSetTimes[l] \in Nat /\ symbolSetTimes[l] <= time /\ time \in Nat \ {0}
    BY ReadsOf
  <2>6. (symbolUpdateSet[l] # 0 => StoredAt(l, symbolUpdateSet[l]))'
    BY <2>1, <2>3
  <2>7. QED
    BY <2>1, <2>4, <2>5, <2>6 DEF ReadsKept, ReadMoves
<1>3. QED
  BY <1>1, <1>2

LEMMA IncrementTimeReads ==
  ASSUME TypeOK, ReadsInvariant, [Next]_vars, NEW l \in Location, IncrementTime
  PROVE  ReadsKept(l) /\ ReadMoves(l)
<1>1. /\ time' = time + 1 /\ symbolUpdateSet' = symbolUpdateSet
      /\ symbolSetTimes'[l] = IF symbolUpdateSet[l] # 0 THEN symbolUpdateSet[l] ELSE symbolSetTimes[l]
  BY DEF IncrementTime
<1>2. (symbolUpdateSet[l] # 0 => StoredAt(l, symbolUpdateSet[l]))'
  BY <1>1, ReadsOf, StoredAtKept
<1>3. (symbolSetTimes[l] > 1 => StoredAt(l, symbolSetTimes[l]))'
  BY <1>1, ReadsOf, StoredAtKept
<1>4. QED
  BY <1>1, <1>2, <1>3, ReadsOf DEF ReadsKept, ReadMoves

LEMMA NextReads ==
  ASSUME TypeOK, TypeOK', ReadsInvariant, [Next]_vars
  PROVE  \A k \in Location : ReadsKept(k) /\ ReadMoves(k)
<1>1. ASSUME NEW l \in Location, Get(l) \/ GetThrows(l)
      PROVE  \A k \in Location : ReadsKept(k) /\ ReadMoves(k)
  <2>1. /\ symbolSetTimes' = [symbolSetTimes EXCEPT ![l] = ReadTime(l)]
        /\ UNCHANGED << time, symbolUpdateSet >>
    BY <1>1 DEF Get, GetThrows
  <2>2. \A k \in Location : symbolSetTimes'[k] = IF k = l THEN ReadTime(k) ELSE symbolSetTimes[k]
    BY <2>1 DEF TypeOK
  <2>3. QED
    BY <2>1, <2>2, SameUpdate
<1>2. ASSUME NEW l \in Location, NEW a \in Atoms, Set(l, a)
      PROVE  \A k \in Location : ReadsKept(k) /\ ReadMoves(k)
  BY <1>2, SetReads
<1>3. CASE IncrementTime
  BY <1>3, IncrementTimeReads
<1>4. CASE Finalize
  <2>1. (\A k \in Location : symbolSetTimes'[k] = 0) /\ UNCHANGED << time, symbolUpdateSet >>
    BY <1>4 DEF Finalize
  <2>2. QED
    BY <2>1, SameUpdate
<1>5. CASE UNCHANGED times
  BY <1>5, SameUpdate DEF times
<1>6. QED
  BY <1>1, <1>2, <1>3, <1>4, <1>5
  DEF Next, SetThrows, MergeSymbolPaths, SymbolicInstruction, UnconstrainedSymbol, AddFunctionDeclaration,
      FinalizeThrows, MakeEnvironment, ReleaseEnvironment, Destroy, vars

LEMMA EnvironmentReads ==
  EnvironmentInvariant /\ ReadsInvariant /\ [Next]_vars =>
    ReadsInvariant' /\ \A l \in Location : ReadMoves(l)
  BY NextInvariant, NextReads, ReadsParts DEF EnvironmentInvariant

LEMMA EnvironmentInvariantHolds == Spec => [](EnvironmentInvariant /\ ReadsInvariant)
<1>1. Init => EnvironmentInvariant /\ ReadsInvariant
  BY InitType, InitScopes, InitReads DEF EnvironmentInvariant
<1>2. QED
  BY <1>1, NextInvariant, EnvironmentReads, PTL DEF Spec

\* A location is never read at a state the trace says nothing of, although
\* incrementTime() commits every location ever updated again.
THEOREM ReadsAreAnchored == Spec => []ReadsAnchored
<1>1. ReadsInvariant => ReadsAnchored
  BY DEF ReadsInvariant
<1>2. QED
  BY <1>1, EnvironmentInvariantHolds, PTL

\* No step moves the read time of a location backwards, except finalize(), and
\* none moves it to a time that is not over yet.
THEOREM ReadTimesNeverFallBack == Spec => ReadTimesMonotone
<1>1. EnvironmentInvariant /\ ReadsInvariant /\ [Next]_vars =>
        [ \A l \in Location :
            \/ symbolSetTimes'[l] = symbolSetTimes[l]
            \/ symbolSetTimes'[l] \in {0, 1} /\ symbolSetTimes'[l] # symbolSetTimes[l] /\ time' = time
            \/ symbolSetTimes'[l] > symbolSetTimes[l] /\ symbolSetTimes'[l] < time' ]_vars
  BY EnvironmentReads DEF ReadMoves
<1>2. QED
  BY <1>1, EnvironmentInvariantHolds, PTL DEF Spec, ReadTimesMonotone

-----------------------------------------------------------------------------
(* The run next to a concrete execution: SymbolicRun *)

USE ValueAssumption, MeaningAssumption

-----------------------------------------------------------------------------
(* Values of atoms *)

LEMMA AtomsOfFormulae ==
  ASSUME TypeOK, NEW f \in formulae
  PROVE  /\ f.body \in Body
         /\ f.guard \in Seq(Logic)
         /\ AtomsOf(f.body) \subseteq Atom
<1>1. f.body \in Body /\ f.guard \in Seq(Logic)
  BY TypeParts DEF TraceType, FormulaSet
<1>2. CASE f.body.kind = "stored"
  BY <1>1, <1>2, SymbolAtomType DEF Body, AtomsOf
<1>3. CASE f.body.kind = "merged"
  BY <1>1, <1>3, SymbolAtomType DEF Body, AtomsOf
<1>4. CASE f.body.kind = "applied"
  BY <1>1, <1>4, SymbolAtomType DEF Body, AtomsOf
<1>5. QED
  BY <1>1, <1>2, <1>3, <1>4 DEF Body

\* An atom that exists keeps its value when symbols are added.
LEMMA ValueKept ==
  ASSUME RunTypeOK, NEW a \in Atom, a.symbolic => a.of \in 0 .. symbolName - 1,
         \A i \in 1 .. symbolName : valuation'[i] = valuation[i]
  PROVE  ValueOf(a)' = ValueOf(a)
<1>1. CASE a.symbolic
  <2>1. a.of + 1 \in 1 .. symbolName
    BY <1>1 DEF RunTypeOK, TypeOK
  <2>2. QED
    BY <2>1, <1>1 DEF ValueOf
<1>2. CASE ~a.symbolic
  BY <1>2 DEF ValueOf
<1>3. QED
  BY <1>1, <1>2

\* The atoms of a client exist and have a value.
LEMMA AtomsKnown ==
  ASSUME RunTypeOK, FormulaeKnown, phase # "done", NEW a \in Atoms
  PROVE  /\ a \in Atom
         /\ a.symbolic => a.of \in 0 .. symbolName - 1
         /\ ValueOf(a) \in Value
<1>1. a \in Atom
  BY AtomsType DEF RunTypeOK
<1>2. CASE a \in Symbols
  <2>1. PICK d \in symbolDefinitions : a = SymbolAtom(d.of)
    BY <1>2 DEF Symbols
  <2>2. d.of \in Nat /\ d.of < symbolName /\ symbolName \in Nat
    BY <2>1 DEF FormulaeKnown, RunTypeOK, TypeOK
  <2>3. a.symbolic /\ a.of = d.of
    BY <2>1 DEF SymbolAtom
  <2>4. d.of + 1 \in 1 .. Len(valuation) /\ valuation \in Seq(Value)
    BY <2>2 DEF RunTypeOK
  <2>5. valuation[d.of + 1] \in Value
    BY <2>4
  <2>6. QED
    BY <1>1, <2>2, <2>3, <2>5 DEF ValueOf
<1>3. CASE a \in { LiteralAtom(v) : v \in Literal }
  <2>1. PICK v \in Literal : a = LiteralAtom(v)
    BY <1>3
  <2>2. ~a.symbolic /\ a.of = v
    BY <2>1 DEF LiteralAtom
  <2>3. QED
    BY <1>1, <2>2 DEF ValueOf
<1>4. QED
  BY <1>2, <1>3 DEF Atoms

-----------------------------------------------------------------------------
(* Formulae stay true *)

\* No formula becomes false while the execution stands still and symbols are
\* added.
LEMMA FormulaeKept ==
  ASSUME RunTypeOK, FormulaeKnown, TraceSound, phase # "done",
         UNCHANGED << time, execution >>,
         \A i \in 1 .. symbolName : valuation'[i] = valuation[i],
         NEW f \in formulae
  PROVE  Holds(f)'
<1>1. \A a \in AtomsOf(f.body) : ValueOf(a)' = ValueOf(a)
  BY AtomsOfFormulae, ValueKept DEF FormulaeKnown, RunTypeOK
<1>2. GuardHolds(f.guard)' = GuardHolds(f.guard)
  BY DEF GuardHolds, execution
<1>3. f.body.kind \in {"stored", "merged", "applied"}
  BY AtomsOfFormulae DEF Body, RunTypeOK
<1>4. GuardHolds(f.guard) => BodyHolds(f.body)
  BY DEF TraceSound, Holds
<1>5. \A t : StateAt(t)' = StateAt(t)
  BY DEF StateAt, execution
<1>6. BodyHolds(f.body) => BodyHolds(f.body)'
  <2>1. CASE f.body.kind = "stored"
    BY <1>1, <1>5, <2>1 DEF BodyHolds, AtomsOf
  <2>2. CASE f.body.kind = "merged"
    <3>1. /\ ValueOf(f.body.then)' = ValueOf(f.body.then)
          /\ ValueOf(f.body.else)' = ValueOf(f.body.else)
          /\ ValueOf(SymbolAtom(f.body.result))' = ValueOf(SymbolAtom(f.body.result))
      BY <1>1, <2>2 DEF AtomsOf
    <3>2. valuation'[f.body.result + 1] = valuation[f.body.result + 1]
      BY <3>1 DEF ValueOf, SymbolAtom
    <3>3. QED
      BY <3>1, <3>2, <2>2 DEF BodyHolds, execution
  <2>3. CASE f.body.kind = "applied"
    <3>1. /\ ValueOf(f.body.lhs)' = ValueOf(f.body.lhs)
          /\ ValueOf(f.body.rhs)' = ValueOf(f.body.rhs)
          /\ ValueOf(SymbolAtom(f.body.result))' = ValueOf(SymbolAtom(f.body.result))
      BY <1>1, <2>3 DEF AtomsOf
    <3>2. valuation'[f.body.result + 1] = valuation[f.body.result + 1]
      BY <3>1 DEF ValueOf, SymbolAtom
    <3>3. QED
      BY <3>1, <3>2, <2>3 DEF BodyHolds
  <2>4. QED
    BY <1>3, <2>1, <2>2, <2>3
<1>7. QED
  BY <1>2, <1>4, <1>6 DEF Holds

\* Appending the value of a new symbol.
LEMMA AppendKeeps ==
  ASSUME RunTypeOK, NEW v \in Value, valuation' = Append(valuation, v)
  PROVE  /\ valuation' \in Seq(Value)
         /\ Len(valuation') = symbolName + 1
         /\ \A i \in 1 .. symbolName : valuation'[i] = valuation[i]
         /\ valuation'[symbolName + 1] = v
  BY DEF RunTypeOK

\* The calls that make one symbol and state one formula of it.
LEMMA OneMoreFormula ==
  ASSUME RunTypeOK, FormulaeKnown, TraceSound, phase = "step", phase' = phase,
         UNCHANGED << time, execution >>,
         symbolName' = symbolName + 1,
         NEW m \in Nat, NEW n \in Nat, NEW body,
         symbolDefinitions' = symbolDefinitions \cup { Declaration(m, symbolName) },
         formulae' = formulae \cup { Formula(n, body) },
         NEW v \in Value, valuation' = Append(valuation, v),
         \A a \in AtomsOf(body) : a.symbolic => a.of \in 0 .. symbolName,
         body.kind = "stored" => body.time \in 1 .. time - 1,
         BodyHolds(body)'
  PROVE  FormulaeKnown' /\ TraceSound'
<1> DEFINE g == Formula(n, body)
<1>1. g.body = body /\ g.guard = environments
  BY DEF Formula
<1>2. \A i \in 1 .. symbolName : valuation'[i] = valuation[i]
  BY ONLY RunTypeOK, v \in Value, valuation' = Append(valuation, v), AppendKeeps
<1>3. TraceSound'
  <2>1. \A f \in formulae : Holds(f)'
    BY <1>2, FormulaeKept
  <2>2. ASSUME NEW f, f = g
        PROVE  Holds(f)'
    <3>1. f.body = body
      BY <1>1, <2>2
    <3>2. BodyHolds(f.body)'
      BY <3>1
    <3>3. QED
      BY <3>2 DEF Holds
  <2>3. QED
    BY <2>1, <2>2 DEF TraceSound
<1>4. symbolName \in Nat /\ time \in Nat
  BY DEF RunTypeOK, TypeOK
<1>5. \A d \in symbolDefinitions' : d.of < symbolName'
  <2>1. \A d \in symbolDefinitions : d.of < symbolName /\ d.of \in Nat
    BY DEF FormulaeKnown, RunTypeOK, TypeOK
  <2>2. Declaration(m, symbolName).of = symbolName
    BY DEF Declaration
  <2>3. QED
    BY <1>4, <2>1, <2>2
<1>6. \A f \in formulae' : \A a \in AtomsOf(f.body) : a.symbolic => a.of \in 0 .. symbolName' - 1
  <2>1. \A f \in formulae : \A a \in AtomsOf(f.body) : a.symbolic => a.of \in 0 .. symbolName - 1
    BY DEF FormulaeKnown
  <2>2. \A x : x \in 0 .. symbolName - 1 \/ x \in 0 .. symbolName => x \in 0 .. symbolName' - 1
    BY <1>4
  <2>3. QED
    BY <1>1, <2>1, <2>2
<1>7. ASSUME NEW f \in formulae', f.body.kind = "stored"
      PROVE  /\ f.body.time <= time'
             /\ f.body.time = 0 => phase' = "done"
             /\ f.body.time = time' /\ GuardHolds(f.guard)' => f.body.location \in updated'
  <2>1. CASE f \in formulae
    BY <1>7, <2>1 DEF FormulaeKnown, GuardHolds, execution
  <2>2. CASE f = g
    BY <1>1, <1>4, <1>7, <2>2
  <2>3. QED
    BY <2>1, <2>2
<1>8. QED
  BY <1>3, <1>5, <1>6, <1>7 DEF FormulaeKnown

-----------------------------------------------------------------------------
(* Types of the run *)

LEMMA RunInitType == RunInit => RunTypeOK
  BY InitType DEF RunInit, RunTypeOK, Init

LEMMA ExecutionType ==
  ASSUME RunTypeOK, UNCHANGED << time, phase, execution >>
  PROVE  /\ phase' \in {"initialise", "step", "done"}
         /\ truth' \in [Logic -> BOOLEAN]
         /\ store' \in [Location -> Value]
         /\ pending' \in [Location -> Value]
         /\ updated' \in SUBSET Location
         /\ history' \in Seq([Location -> Value])
         /\ Len(history') = time' - 1
  BY DEF RunTypeOK, execution

\* The state has a value for every location.
LEMMA StoreType ==
  ASSUME RunTypeOK, NEW l \in Location
  PROVE  store[l] \in Value /\ pending[l] \in Value
  BY DEF RunTypeOK

LEMMA RunGetType ==
  ASSUME RunTypeOK, NEW l \in Location, RunGet(l)
  PROVE  RunTypeOK'
<1>1. TypeOK' /\ symbolName' = symbolName + 1
  BY GetType DEF RunGet, RunTypeOK, Get
<1>2. UNCHANGED << time, phase, execution >>
  BY DEF RunGet, Get
<1>3. valuation' \in Seq(Value) /\ Len(valuation') = symbolName + 1
  BY StoreType, AppendKeeps DEF RunGet
<1>4. QED
  BY <1>1, <1>2, <1>3, ExecutionType DEF RunTypeOK

LEMMA RunSetType ==
  ASSUME RunTypeOK, FormulaeKnown, NEW l \in Location, NEW a \in Atoms, RunSet(l, a)
  PROVE  RunTypeOK'
<1>1. TypeOK' /\ UNCHANGED << time, symbolName >>
  BY SetType DEF RunSet, RunTypeOK, Set
<1>2. ValueOf(a) \in Value
  BY AtomsKnown DEF RunSet
<1>3. pending' \in [Location -> Value] /\ updated' \in SUBSET Location
  BY <1>2 DEF RunSet, RunTypeOK
<1>4. QED
  BY <1>1, <1>3 DEF RunTypeOK, RunSet

LEMMA RunIncrementTimeType ==
  ASSUME RunTypeOK, RunIncrementTime
  PROVE  RunTypeOK'
<1>1. TypeOK' /\ time' = time + 1 /\ symbolName' = symbolName /\ time \in Nat
  BY IncrementTimeType DEF RunIncrementTime, RunTypeOK, IncrementTime, names, TypeOK
<1>2. history' \in Seq([Location -> Value]) /\ Len(history') = time' - 1
  BY <1>1 DEF RunIncrementTime, RunTypeOK
<1>3. QED
  BY <1>1, <1>2 DEF RunTypeOK, RunIncrementTime

LEMMA RunScopeType ==
  ASSUME RunTypeOK, ScopesMatch, RunScope
  PROVE  RunTypeOK' /\ ScopesMatch' /\ UNCHANGED << names, times, symbolDefinitions, formulae >>
<1>1. ASSUME NEW c \in Logic, MakeEnvironment(c)
      PROVE  TypeOK' /\ ScopesMatch' /\ UNCHANGED << names, times, symbolDefinitions, formulae >>
  BY <1>1, MakeEnvironmentType, MakeEnvironmentScopes DEF RunTypeOK, MakeEnvironment
<1>2. ASSUME ReleaseEnvironment
      PROVE  TypeOK' /\ ScopesMatch' /\ UNCHANGED << names, times, symbolDefinitions, formulae >>
  BY <1>2, ReleaseEnvironmentType, ReleaseEnvironmentScopes DEF RunTypeOK, ReleaseEnvironment
<1>3. TypeOK' /\ ScopesMatch' /\ UNCHANGED << names, times, symbolDefinitions, formulae >>
  BY <1>1, <1>2 DEF RunScope
<1>4. UNCHANGED << time, symbolName, phase, execution, valuation >>
  BY <1>3 DEF RunScope, names, times
<1>5. QED
  BY <1>3, <1>4, ExecutionType DEF RunTypeOK

LEMMA RunMergeType ==
  ASSUME RunTypeOK, FormulaeKnown, NEW c \in Logic, NEW a \in Atoms, NEW b \in Atoms,
         RunMerge(c, a, b)
  PROVE  RunTypeOK'
<1>1. TypeOK' /\ symbolName' = symbolName + 1
  BY MergeSymbolPathsType DEF RunMerge, RunTypeOK, MergeSymbolPaths
<1>2. UNCHANGED << time, phase, execution >>
  BY DEF RunMerge, MergeSymbolPaths, times
<1>3. ValueOf(a) \in Value /\ ValueOf(b) \in Value
  BY AtomsKnown DEF RunMerge
<1>4. valuation' \in Seq(Value) /\ Len(valuation') = symbolName + 1
  BY <1>3, AppendKeeps DEF RunMerge
<1>5. QED
  BY <1>1, <1>2, <1>4, ExecutionType DEF RunTypeOK

LEMMA RunInstructionType ==
  ASSUME RunTypeOK, FormulaeKnown, NEW op \in Operator, NEW a \in Atoms, NEW b \in Atoms,
         RunInstruction(op, a, b)
  PROVE  RunTypeOK' /\ Meaning[op][<< ValueOf(a), ValueOf(b) >>] \in Value
<1>1. TypeOK' /\ symbolName' = symbolName + 1
  BY SymbolicInstructionType DEF RunInstruction, RunTypeOK, SymbolicInstruction
<1>2. UNCHANGED << time, phase, execution >>
  BY DEF RunInstruction, SymbolicInstruction, times
<1>3. ValueOf(a) \in Value /\ ValueOf(b) \in Value
  BY AtomsKnown DEF RunInstruction
<1>4. Meaning[op][<< ValueOf(a), ValueOf(b) >>] \in Value
  BY <1>3
<1>5. valuation' \in Seq(Value) /\ Len(valuation') = symbolName + 1
  BY <1>4, AppendKeeps DEF RunInstruction
<1>6. QED
  BY <1>1, <1>2, <1>4, <1>5, ExecutionType DEF RunTypeOK

LEMMA RunUnconstrainedSymbolType ==
  ASSUME RunTypeOK, RunUnconstrainedSymbol
  PROVE  RunTypeOK'
<1>1. TypeOK' /\ symbolName' = symbolName + 1
  BY UnconstrainedSymbolType DEF RunUnconstrainedSymbol, RunTypeOK, UnconstrainedSymbol
<1>2. UNCHANGED << time, phase, execution >>
  BY DEF RunUnconstrainedSymbol, UnconstrainedSymbol, times
<1>3. valuation' \in Seq(Value) /\ Len(valuation') = symbolName + 1
  BY AppendKeeps DEF RunUnconstrainedSymbol
<1>4. QED
  BY <1>1, <1>2, <1>3, ExecutionType DEF RunTypeOK

LEMMA RunFinalizeType ==
  ASSUME RunTypeOK, RunFinalize
  PROVE  RunTypeOK'
<1>1. TypeOK' /\ UNCHANGED time
  BY FinalizeType DEF RunFinalize, RunTypeOK, Finalize
<1>2. symbolName' \in Nat
  BY <1>1 DEF TypeOK
<1>3. valuation' \in [1 .. symbolName' -> Value]
  BY DEF RunFinalize
<1>4. valuation' \in Seq(Value) /\ Len(valuation') = symbolName'
  BY <1>2, <1>3
<1>5. QED
  BY <1>1, <1>4 DEF RunTypeOK, RunFinalize, execution

-----------------------------------------------------------------------------
(* The maps and the execution agree *)

Agree == TimesAgree /\ StatesAgree

LEMMA AgreeKept ==
  ASSUME Agree, UNCHANGED << times, phase, execution >>,
         phase # "initialise"
  PROVE  Agree'
  BY DEF Agree, TimesAgree, StatesAgree, ReadTime, times, execution

LEMMA RunGetAgree ==
  ASSUME RunTypeOK, Agree, NEW l \in Location, RunGet(l)
  PROVE  Agree'
<1>1. /\ phase = "step" /\ phase' = phase /\ time > 1 /\ time \in Nat
      /\ UNCHANGED << time, symbolUpdateSet, execution >>
      /\ symbolSetTimes' = [symbolSetTimes EXCEPT ![l] = ReadTime(l)]
      /\ symbolSetTimes \in [Location -> Nat]
      /\ symbolUpdateSet \in [Location -> Nat]
  BY DEF RunGet, Get, Agree, StatesAgree, RunTypeOK, TypeOK
<1>2. \A k \in Location : ReadTime(k)' = ReadTime(k)
  BY <1>1 DEF ReadTime
<1>3. ReadTime(l) < time
  BY <1>1 DEF ReadTime, Agree, TimesAgree
<1>4. TimesAgree'
  BY <1>1, <1>3 DEF Agree, TimesAgree, ReadTime
<1>5. StatesAgree'
  BY <1>1, <1>2 DEF Agree, StatesAgree, execution
<1>6. QED
  BY <1>4, <1>5 DEF Agree

LEMMA RunSetAgree ==
  ASSUME RunTypeOK, Agree, NEW l \in Location, NEW a \in Atoms, RunSet(l, a)
  PROVE  Agree'
<1>1. /\ phase \in {"initialise", "step"} /\ phase' = phase /\ time \in Nat \ {0}
      /\ UNCHANGED << time, symbolName, symbolSetTimes, environments, truth, store, history >>
      /\ symbolUpdateSet' = [symbolUpdateSet EXCEPT ![l] = time]
      /\ symbolSetTimes \in [Location -> Nat]
      /\ symbolUpdateSet \in [Location -> Nat]
      /\ pending \in [Location -> Value]
  BY DEF RunSet, Set, RunTypeOK, TypeOK, scoping
<1>2. \A k \in Location : ReadTime(k)' = ReadTime(k)
  BY <1>1 DEF ReadTime
<1>3. TimesAgree'
  BY <1>1 DEF Agree, TimesAgree
<1>4. \A k \in Location : k \in updated' => symbolUpdateSet'[k] = time'
  BY <1>1 DEF RunSet, Agree, StatesAgree
<1>5. \A k \in Location : k \notin updated' => pending'[k] = store'[k]
  BY <1>1 DEF RunSet, Agree, StatesAgree
<1>6. phase' = "step" => \A k \in Location : \A t \in 1 .. time' - 1 :
        ReadTime(k)' <= t => history'[t][k] = store'[k]
  BY <1>1, <1>2 DEF Agree, StatesAgree
<1>7. StatesAgree'
  BY <1>1, <1>4, <1>5, <1>6 DEF Agree, StatesAgree
<1>8. QED
  BY <1>3, <1>7 DEF Agree

LEMMA RunIncrementTimeAgree ==
  ASSUME RunTypeOK, Agree, RunIncrementTime
  PROVE  Agree'
<1>1. /\ phase \in {"initialise", "step"} /\ phase' = "step"
      /\ time \in Nat \ {0} /\ time' = time + 1
      /\ symbolUpdateSet' = symbolUpdateSet
      /\ store' = pending /\ pending' = pending /\ updated' = {}
      /\ symbolSetTimes \in [Location -> Nat]
      /\ symbolUpdateSet \in [Location -> Nat]
  BY DEF RunIncrementTime, IncrementTime, RunTypeOK, TypeOK
<1>2. \A l \in Location : symbolSetTimes'[l] =
        IF symbolUpdateSet[l] # 0 THEN symbolUpdateSet[l] ELSE symbolSetTimes[l]
  BY DEF RunIncrementTime, IncrementTime
<1>3. /\ \A t \in 1 .. time - 1 : history'[t] = history[t]
      /\ history'[time] = pending
  BY <1>1 DEF RunIncrementTime, RunTypeOK
<1>4. TimesAgree'
  BY <1>1, <1>2 DEF Agree, TimesAgree
<1>5. ASSUME NEW l \in Location, NEW t \in 1 .. time' - 1, ReadTime(l)' <= t
      PROVE  history'[t][l] = store'[l]
  <2>1. CASE t = time
    BY <1>1, <1>3, <2>1
  <2>2. CASE t # time
    <3>1. t \in 1 .. time - 1 /\ phase = "step"
      BY <1>1, <2>2 DEF Agree, StatesAgree
    <3>2. symbolUpdateSet[l] # time
      BY <1>1, <1>2, <1>5, <3>1 DEF ReadTime
    <3>3. pending[l] = store[l]
      BY <3>2 DEF Agree, StatesAgree
    <3>4. symbolSetTimes'[l] = symbolSetTimes[l]
      BY <1>1, <1>2, <3>1, <3>2 DEF Agree, TimesAgree
    <3>5. ReadTime(l) <= t
      BY <1>5, <3>4 DEF ReadTime
    <3>6. history[t][l] = store[l]
      BY <3>1, <3>5 DEF Agree, StatesAgree
    <3>7. QED
      BY <1>1, <1>3, <3>1, <3>3, <3>6
  <2>3. QED
    BY <2>1, <2>2
<1>6. /\ phase' # "initialise" /\ time' > 1
      /\ history'[time' - 1] = store'
      /\ \A l \in Location : l \notin updated' /\ pending'[l] = store'[l]
  <2>1. phase' = "step" /\ store' = pending /\ pending' = pending /\ updated' = {}
    BY <1>1
  <2>2. time' > 1 /\ time' - 1 = time
    BY <1>1
  <2>3. history'[time' - 1] = store'
    BY <1>3, <2>1, <2>2
  <2>4. \A l \in Location : l \notin updated' /\ pending'[l] = store'[l]
    BY <2>1, Zenon
  <2>5. QED
    BY <2>1, <2>2, <2>3, <2>4
<1>7. StatesAgree'
  BY <1>5, <1>6, Zenon DEF StatesAgree
<1>8. QED
  BY <1>4, <1>7 DEF Agree

LEMMA RunFinalizeAgree ==
  ASSUME RunTypeOK, Agree, RunFinalize
  PROVE  Agree'
<1>1. /\ phase = "step" /\ phase' = "done" /\ time \in Nat \ {0}
      /\ UNCHANGED << time, symbolUpdateSet, execution >>
      /\ \A l \in Location : symbolSetTimes'[l] = 0
  BY DEF RunFinalize, Finalize, RunTypeOK, TypeOK
<1>2. TimesAgree'
  BY <1>1 DEF Agree, TimesAgree
<1>3. StatesAgree'
  BY <1>1 DEF Agree, StatesAgree, execution
<1>4. QED
  BY <1>2, <1>3 DEF Agree

-----------------------------------------------------------------------------
(* Every call states what is true *)

Sound == FormulaeKnown /\ TraceSound

LEMMA RunGetSound ==
  ASSUME RunTypeOK, Agree, Sound, NEW l \in Location, RunGet(l)
  PROVE  Sound'
<1>1. /\ phase = "step" /\ phase' = phase
      /\ time > 1 /\ time \in Nat /\ formulaName \in Nat /\ symbolName \in Nat
      /\ UNCHANGED << time, execution >>
      /\ symbolName' = symbolName + 1
      /\ symbolDefinitions' = symbolDefinitions \cup { Declaration(formulaName, symbolName) }
      /\ valuation' = Append(valuation, store[l])
  BY DEF RunGet, Get, Agree, StatesAgree, RunTypeOK, TypeOK
<1>2. PICK body : body = Stored(ReadTime(l), l, SymbolAtom(symbolName))
  OBVIOUS
<1>3. formulae' = formulae \cup { Formula(formulaName + 1, body) }
  BY <1>2 DEF RunGet, Get
<1>4. PICK v \in Value : v = store[l]
  BY StoreType
<1>5. valuation' = Append(valuation, v)
  BY <1>1, <1>4
<1>6. ReadTime(l) \in 1 .. time - 1
  BY <1>1, ReadTimeType DEF RunTypeOK, Agree, TimesAgree, ReadTime
<1>7. body.kind = "stored" /\ body.time = ReadTime(l) /\ body.location = l
      /\ body.atom.symbolic /\ body.atom.of = symbolName
  BY <1>2 DEF Stored, SymbolAtom
<1>8. \A a \in AtomsOf(body) : a.symbolic => a.of \in 0 .. symbolName
  BY <1>1, <1>7 DEF AtomsOf
<1>9. BodyHolds(body)'
  <2>1. history[ReadTime(l)][l] = store[l]
    BY <1>1, <1>6 DEF Agree, StatesAgree
  <2>2. StateAt(body.time)'[body.location] = store[l]
    BY <1>1, <1>6, <1>7, <2>1 DEF StateAt, execution
  <2>3. valuation'[symbolName + 1] = v
    BY <1>5, AppendKeeps
  <2>4. ValueOf(body.atom)' = store[l]
    BY <1>4, <1>7, <2>3 DEF ValueOf
  <2>5. QED
    BY <1>7, <2>2, <2>4 DEF BodyHolds
<1>10. formulaName + 1 \in Nat
  BY <1>1
<1>11. body.kind = "stored" => body.time \in 1 .. time - 1
  BY <1>6, <1>7
<1>12. QED
  BY <1>1, <1>3, <1>5, <1>8, <1>9, <1>10, <1>11, OneMoreFormula DEF Sound

LEMMA RunMergeSound ==
  ASSUME RunTypeOK, Agree, Sound, NEW c \in Logic, NEW a \in Atoms, NEW b \in Atoms,
         RunMerge(c, a, b)
  PROVE  Sound'
<1>1. /\ phase = "step" /\ phase' = phase
      /\ formulaName \in Nat /\ formulaName + 1 \in Nat /\ symbolName \in Nat
      /\ UNCHANGED << time, execution >>
      /\ symbolName' = symbolName + 1
      /\ symbolDefinitions' = symbolDefinitions \cup { Declaration(formulaName, symbolName) }
  BY DEF RunMerge, MergeSymbolPaths, times, RunTypeOK, TypeOK
<1>2. PICK body : body = Merged(c, a, b, symbolName)
  OBVIOUS
<1>3. formulae' = formulae \cup { Formula(formulaName + 1, body) }
  BY <1>2 DEF RunMerge, MergeSymbolPaths
<1>4. /\ a \in Atom /\ (a.symbolic => a.of \in 0 .. symbolName - 1) /\ ValueOf(a) \in Value
      /\ b \in Atom /\ (b.symbolic => b.of \in 0 .. symbolName - 1) /\ ValueOf(b) \in Value
  BY <1>1, AtomsKnown DEF Sound
<1>5. PICK v \in Value : v = IF truth[c] THEN ValueOf(a) ELSE ValueOf(b)
  BY <1>4
<1>6. valuation' = Append(valuation, v)
  BY <1>5 DEF RunMerge
<1>7. /\ body.kind = "merged" /\ body.condition = c /\ body.then = a /\ body.else = b
      /\ body.result = symbolName
  BY <1>2 DEF Merged
<1>8. \A x \in AtomsOf(body) : x.symbolic => x.of \in 0 .. symbolName
  <2>1. SymbolAtom(symbolName).of = symbolName
    BY DEF SymbolAtom
  <2>2. AtomsOf(body) = {a, b, SymbolAtom(symbolName)}
    BY <1>7 DEF AtomsOf
  <2>3. \A n : n \in 0 .. symbolName - 1 \/ n = symbolName => n \in 0 .. symbolName
    BY <1>1
  <2>4. QED
    BY <1>4, <2>1, <2>2, <2>3
<1>9. BodyHolds(body)'
  <2>1. /\ \A i \in 1 .. symbolName : valuation'[i] = valuation[i]
        /\ valuation'[symbolName + 1] = v
    BY <1>6, AppendKeeps
  <2>2. ValueOf(a)' = ValueOf(a) /\ ValueOf(b)' = ValueOf(b)
    BY <1>4, <2>1, ValueKept
  <2>3. QED
    BY <1>1, <1>5, <1>7, <2>1, <2>2 DEF BodyHolds, execution
<1>10. body.kind = "stored" => body.time \in 1 .. time - 1
  BY <1>7
<1>11. QED
  BY <1>1, <1>3, <1>6, <1>8, <1>9, <1>10, OneMoreFormula DEF Sound

LEMMA RunInstructionSound ==
  ASSUME RunTypeOK, Agree, Sound, NEW op \in Operator, NEW a \in Atoms, NEW b \in Atoms,
         RunInstruction(op, a, b)
  PROVE  Sound'
<1>1. /\ phase = "step" /\ phase' = phase
      /\ formulaName \in Nat /\ symbolName \in Nat
      /\ UNCHANGED << time, execution >>
      /\ symbolName' = symbolName + 1
      /\ symbolDefinitions' = symbolDefinitions \cup { Declaration(formulaName, symbolName) }
  BY DEF RunInstruction, SymbolicInstruction, times, RunTypeOK, TypeOK
<1>2. PICK body : body = Applied(op, a, b, symbolName)
  OBVIOUS
<1>3. PICK n \in Nat : formulae' = formulae \cup { Formula(n, body) }
  <2>1. PICK n \in Nat : n = IF Declared(op) THEN formulaName + 1 ELSE formulaName + 2
    BY <1>1
  <2>2. formulae' = formulae \cup { Formula(n, body) }
    BY <1>2, <2>1 DEF RunInstruction, SymbolicInstruction
  <2> QED BY <2>2
<1>4. /\ a \in Atom /\ (a.symbolic => a.of \in 0 .. symbolName - 1)
      /\ b \in Atom /\ (b.symbolic => b.of \in 0 .. symbolName - 1)
  BY <1>1, AtomsKnown DEF Sound
<1>5. PICK v \in Value : v = Meaning[op][<< ValueOf(a), ValueOf(b) >>]
  BY RunInstructionType DEF Sound
<1>6. valuation' = Append(valuation, v)
  BY <1>5 DEF RunInstruction
<1>7. /\ body.kind = "applied" /\ body.operator = op /\ body.lhs = a /\ body.rhs = b
      /\ body.result = symbolName
  BY <1>2 DEF Applied
<1>8. \A x \in AtomsOf(body) : x.symbolic => x.of \in 0 .. symbolName
  <2>1. SymbolAtom(symbolName).of = symbolName
    BY DEF SymbolAtom
  <2>2. AtomsOf(body) = {a, b, SymbolAtom(symbolName)}
    BY <1>7 DEF AtomsOf
  <2>3. \A m : m \in 0 .. symbolName - 1 \/ m = symbolName => m \in 0 .. symbolName
    BY <1>1
  <2>4. QED
    BY <1>4, <2>1, <2>2, <2>3
<1>9. BodyHolds(body)'
  <2>1. /\ \A i \in 1 .. symbolName : valuation'[i] = valuation[i]
        /\ valuation'[symbolName + 1] = v
    BY <1>6, AppendKeeps
  <2>2. ValueOf(a)' = ValueOf(a) /\ ValueOf(b)' = ValueOf(b)
    BY <1>4, <2>1, ValueKept
  <2>3. QED
    BY <1>5, <1>7, <2>1, <2>2 DEF BodyHolds
<1>10. body.kind = "stored" => body.time \in 1 .. time - 1
  BY <1>7
<1>11. QED
  BY <1>1, <1>3, <1>6, <1>8, <1>9, <1>10, OneMoreFormula DEF Sound

LEMMA RunUnconstrainedSymbolSound ==
  ASSUME RunTypeOK, Sound, RunUnconstrainedSymbol
  PROVE  Sound'
<1>1. /\ phase = "step" /\ phase' = phase /\ symbolName \in Nat
      /\ UNCHANGED << time, execution, formulae >>
      /\ symbolName' = symbolName + 1
      /\ symbolDefinitions' = symbolDefinitions \cup { Declaration(formulaName, symbolName) }
  BY DEF RunUnconstrainedSymbol, UnconstrainedSymbol, times, RunTypeOK, TypeOK
<1>2. \A i \in 1 .. symbolName : valuation'[i] = valuation[i]
  BY AppendKeeps DEF RunUnconstrainedSymbol
<1>3. TraceSound'
  BY <1>1, <1>2, FormulaeKept DEF Sound, TraceSound
<1>4. \A d \in symbolDefinitions' : d.of < symbolName'
  <2>1. \A d \in symbolDefinitions : d.of < symbolName /\ d.of \in Nat
    BY <1>1 DEF Sound, FormulaeKnown, RunTypeOK, TypeOK
  <2>2. Declaration(formulaName, symbolName).of = symbolName
    BY DEF Declaration
  <2>3. QED
    BY <1>1, <2>1, <2>2
<1>5. \A f \in formulae : \A a \in AtomsOf(f.body) : a.symbolic => a.of \in 0 .. symbolName' - 1
  <2>1. \A x : x \in 0 .. symbolName - 1 => x \in 0 .. symbolName' - 1
    BY <1>1
  <2>2. QED
    BY <1>1, <2>1 DEF Sound, FormulaeKnown
<1>6. FormulaeKnown'
  BY <1>1, <1>4, <1>5 DEF Sound, FormulaeKnown, GuardHolds, execution
<1>7. QED
  BY <1>3, <1>6 DEF Sound

LEMMA RunScopeSound ==
  ASSUME RunTypeOK, ScopesMatch, Sound, RunScope
  PROVE  Sound'
<1>1. UNCHANGED << symbolName, time, symbolDefinitions, formulae, phase, execution, valuation >>
  BY RunScopeType DEF RunScope, names, times
<1>2. phase # "done"
  BY DEF RunScope
<1>3. TraceSound'
  BY <1>1, <1>2, FormulaeKept DEF Sound, TraceSound
<1>4. FormulaeKnown'
  BY <1>1, <1>2 DEF Sound, FormulaeKnown, GuardHolds, execution
<1>5. QED
  BY <1>3, <1>4 DEF Sound

\* An update is true of the state the step is making; an earlier update of the
\* same location and step agrees with it or was not made by this execution.
LEMMA RunSetSound ==
  ASSUME RunTypeOK, Agree, Sound, NEW l \in Location, NEW a \in Atoms, RunSet(l, a)
  PROVE  Sound'
<1>1. /\ phase # "done" /\ phase' = phase /\ time \in Nat \ {0}
      /\ UNCHANGED << time, symbolName, symbolDefinitions, environments, truth, store, history, valuation >>
      /\ pending \in [Location -> Value]
      /\ (Effective /\ l \in updated) => pending[l] = ValueOf(a)
      /\ pending' = IF Effective THEN [pending EXCEPT ![l] = ValueOf(a)] ELSE pending
      /\ updated' = IF Effective THEN updated \cup {l} ELSE updated
      /\ formulae' = formulae \cup { Formula(formulaName, Stored(time, l, a)) }
  BY DEF RunSet, Set, RunTypeOK, TypeOK, scoping
<1>0. PICK g : g = Formula(formulaName, Stored(time, l, a))
  OBVIOUS
<1>2. g.guard = environments /\ g.body = Stored(time, l, a)
  BY <1>0 DEF Formula
<1>3. /\ g.body.kind = "stored" /\ g.body.time = time /\ g.body.location = l /\ g.body.atom = a
      /\ AtomsOf(g.body) = {a}
  BY <1>2 DEF Stored, AtomsOf
<1>4. /\ \A guard : GuardHolds(guard)' = GuardHolds(guard)
      /\ \A x : ValueOf(x)' = ValueOf(x)
  BY <1>1 DEF GuardHolds, ValueOf
<1>5. a.symbolic => a.of \in 0 .. symbolName - 1
  BY <1>1, AtomsKnown DEF Sound
<1>6. ASSUME NEW f \in formulae, GuardHolds(f.guard)
      PROVE  BodyHolds(f.body)'
  <2>1. BodyHolds(f.body)
    BY <1>6 DEF Sound, TraceSound, Holds
  <2>2. CASE f.body.kind = "stored"
    <3>1. /\ f.body.time \in Nat /\ f.body.location \in Location
          /\ f.body.time <= time /\ f.body.time # 0
          /\ f.body.time = time => f.body.location \in updated
      <4>1. f.body \in Body
        BY AtomsOfFormulae DEF RunTypeOK
      <4>2. QED
        BY <1>1, <1>6, <2>2, <4>1 DEF Body, Sound, FormulaeKnown
    <3>2. StateAt(f.body.time)'[f.body.location] = StateAt(f.body.time)[f.body.location]
      <4>1. CASE f.body.time < time
        BY <1>1, <3>1, <4>1 DEF StateAt
      <4>2. CASE f.body.time = time
        <5>1. pending'[f.body.location] = pending[f.body.location]
          BY <1>1, <3>1, <4>2
        <5>2. QED
          BY <1>1, <4>2, <5>1 DEF StateAt
      <4>3. f.body.time < time \/ f.body.time = time
        <5>1. time \in Nat /\ f.body.time \in Nat /\ f.body.time <= time
          BY <1>1, <3>1
        <5>2. QED
          BY ONLY <5>1
      <4>4. QED
        BY <4>1, <4>2, <4>3
    <3>3. QED
      BY <1>4, <2>1, <2>2, <3>2 DEF BodyHolds
  <2>3. CASE f.body.kind # "stored"
    BY <1>1, <1>4, <2>1, <2>3 DEF BodyHolds
  <2>4. QED
    BY <2>2, <2>3
<1>7. ASSUME GuardHolds(environments)
      PROVE  BodyHolds(g.body)'
  <2>1. pending'[l] = ValueOf(a)
    BY <1>1, <1>7 DEF Effective
  <2>2. StateAt(g.body.time)'[g.body.location] = ValueOf(a)
    BY <1>1, <1>3, <2>1 DEF StateAt
  <2>3. ValueOf(g.body.atom)' = ValueOf(a)
    BY <1>3, <1>4
  <2>4. QED
    BY <1>3, <2>2, <2>3 DEF BodyHolds
<1>8. TraceSound'
  <2>1. ASSUME NEW f \in formulae'
        PROVE  GuardHolds(f.guard)' => BodyHolds(f.body)'
    <3>1. CASE f \in formulae
      BY <1>4, <1>6, <3>1
    <3>2. CASE f = g
      BY <1>2, <1>4, <1>7, <3>2
    <3>3. QED
      BY <1>0, <1>1, <3>1, <3>2
  <2>2. QED
    BY <2>1 DEF TraceSound, Holds
<1>9. ASSUME NEW f \in formulae', f.body.kind = "stored"
      PROVE  /\ f.body.time <= time'
             /\ f.body.time = 0 => phase' = "done"
             /\ f.body.time = time' /\ GuardHolds(f.guard)' => f.body.location \in updated'
  <2>1. CASE f \in formulae
    BY <1>1, <1>4, <1>9, <2>1 DEF Sound, FormulaeKnown
  <2>2. CASE f = g
    BY <1>1, <1>2, <1>3, <1>4, <2>2 DEF Effective
  <2>3. QED
    BY <1>0, <1>1, <2>1, <2>2
<1>10. \A f \in formulae' : \A x \in AtomsOf(f.body) : x.symbolic => x.of \in 0 .. symbolName' - 1
  BY <1>0, <1>1, <1>3, <1>5 DEF Sound, FormulaeKnown
<1>11. FormulaeKnown'
  BY <1>1, <1>9, <1>10 DEF Sound, FormulaeKnown
<1>12. QED
  BY <1>8, <1>11 DEF Sound

\* The state a step has made is from now on that of its time.
LEMMA RunIncrementTimeSound ==
  ASSUME RunTypeOK, Agree, Sound, RunIncrementTime
  PROVE  Sound'
<1>1. /\ phase # "done" /\ phase' = "step" /\ time \in Nat \ {0} /\ time' = time + 1
      /\ UNCHANGED << symbolName, symbolDefinitions, formulae, truth, valuation, pending >>
      /\ store' = pending /\ updated' = {}
  BY DEF RunIncrementTime, IncrementTime, names, RunTypeOK, TypeOK
<1>2. /\ \A t \in 1 .. time - 1 : history'[t] = history[t]
      /\ history'[time] = pending
  BY <1>1 DEF RunIncrementTime, RunTypeOK
<1>3. /\ \A guard : GuardHolds(guard)' = GuardHolds(guard)
      /\ \A x : ValueOf(x)' = ValueOf(x)
  BY <1>1 DEF GuardHolds, ValueOf
<1>4. ASSUME NEW f \in formulae, f.body.kind = "stored"
      PROVE  f.body.time \in 1 .. time
  <2>1. f.body \in Body
    BY AtomsOfFormulae DEF RunTypeOK
  <2>2. QED
    BY <1>1, <1>4, <2>1 DEF Body, Sound, FormulaeKnown
<1>5. ASSUME NEW f \in formulae, GuardHolds(f.guard)
      PROVE  BodyHolds(f.body)'
  <2>1. BodyHolds(f.body)
    BY <1>5 DEF Sound, TraceSound, Holds
  <2>2. CASE f.body.kind = "stored"
    <3>1. StateAt(f.body.time)' = StateAt(f.body.time)
      <4>1. CASE f.body.time = time
        BY <1>1, <1>2, <4>1 DEF StateAt
      <4>2. CASE f.body.time \in 1 .. time - 1
        BY <1>1, <1>2, <4>2 DEF StateAt
      <4>3. f.body.time = time \/ f.body.time \in 1 .. time - 1
        <5>1. time \in Nat /\ f.body.time \in 1 .. time
          BY <1>1, <1>4, <2>2
        <5>2. QED
          BY ONLY <5>1
      <4>4. QED
        BY <4>1, <4>2, <4>3
    <3>2. QED
      BY <1>3, <2>1, <2>2, <3>1 DEF BodyHolds
  <2>3. CASE f.body.kind # "stored"
    BY <1>1, <1>3, <2>1, <2>3 DEF BodyHolds
  <2>4. QED
    BY <2>2, <2>3
<1>6. TraceSound'
  BY <1>1, <1>3, <1>5 DEF TraceSound, Holds
<1>7. FormulaeKnown'
  BY <1>1, <1>4 DEF Sound, FormulaeKnown
<1>8. QED
  BY <1>6, <1>7 DEF Sound

\* finalize() reads what the locations hold and stores the same symbols.
LEMMA RunFinalizeSound ==
  ASSUME RunTypeOK, Agree, Sound, RunFinalize
  PROVE  Sound'
<1>1. /\ phase = "step" /\ phase' = "done" /\ time > 1 /\ time \in Nat
      /\ UNCHANGED << time, execution >>
      /\ symbolSetTimes \in [Location -> Nat]
      /\ formulae' = formulae \cup FinalReads(Touched) \cup FinalStores(Touched)
      /\ \A i \in 1 .. symbolName : valuation'[i] = valuation[i]
      /\ \A l \in Touched : valuation'[FinalSymbol(l) + 1] = store[l]
  BY DEF RunFinalize, Finalize, Agree, StatesAgree, RunTypeOK, TypeOK
<1>2. ASSUME NEW f \in FinalReads(Touched) \cup FinalStores(Touched)
      PROVE  /\ f.body.kind = "stored" /\ f.body.time < time
             /\ BodyHolds(f.body)'
  <2>1. PICK l \in Touched : \E t \in {0, symbolSetTimes[l]} :
          f.body = Stored(t, l, SymbolAtom(FinalSymbol(l)))
    BY DEF FinalReads, FinalStores, Formula
  <2>0. PICK t \in {0, symbolSetTimes[l]} : f.body = Stored(t, l, SymbolAtom(FinalSymbol(l)))
    BY <2>1
  <2>2. /\ f.body.kind = "stored" /\ f.body.time = t /\ f.body.location = l
        /\ f.body.atom.symbolic /\ f.body.atom.of = FinalSymbol(l)
    BY <2>0 DEF Stored, SymbolAtom
  <2>3. l \in Location /\ symbolSetTimes[l] # 0 /\ symbolSetTimes[l] \in Nat
        /\ symbolSetTimes[l] < time
    BY <1>1, <2>1 DEF Touched, Agree, TimesAgree
  <2>4. ValueOf(f.body.atom)' = store[l]
    BY <1>1, <2>1, <2>2 DEF ValueOf
  <2>5. StateAt(t)'[l] = store[l]
    <3>1. CASE t = 0
      BY <1>1, <3>1 DEF StateAt, execution
    <3>2. CASE t = symbolSetTimes[l]
      <4>1. ReadTime(l) = t
        BY <2>3, <3>2 DEF ReadTime
      <4>2. history[t][l] = store[l]
        BY <1>1, <2>3, <3>2, <4>1 DEF Agree, StatesAgree
      <4>3. QED
        BY <1>1, <2>3, <3>2, <4>2 DEF StateAt, execution
    <3>3. QED
      BY <2>0, <3>1, <3>2
  <2>6. QED
    BY <1>1, <2>0, <2>2, <2>3, <2>4, <2>5 DEF BodyHolds
<1>3. \A f \in formulae : Holds(f)'
  BY <1>1, FormulaeKept DEF Sound
<1>4. TraceSound'
  BY <1>1, <1>2, <1>3 DEF TraceSound, Holds
<1>5. ASSUME NEW f \in formulae', f.body.kind = "stored"
      PROVE  /\ f.body.time <= time'
             /\ f.body.time = 0 => phase' = "done"
             /\ f.body.time = time' /\ GuardHolds(f.guard)' => f.body.location \in updated'
  <2>1. CASE f \in formulae
    BY <1>1, <1>5, <2>1 DEF Sound, FormulaeKnown, GuardHolds, execution
  <2>2. CASE f \in FinalReads(Touched) \cup FinalStores(Touched)
    <3>1. f.body.time < time /\ f.body.time \in Nat
      <4>1. f \in formulae' /\ TypeOK'
        BY RunFinalizeType DEF RunTypeOK
      <4>2. f \in FormulaSet
        BY <4>1, TypePartsNext DEF TraceType
      <4>3. QED
        BY <1>2, <1>5, <2>2, <4>2 DEF FormulaSet, Body
    <3>2. QED
      BY <1>1, <3>1
  <2>3. QED
    BY <1>1, <2>1, <2>2
<1>6. FormulaeKnown'
  BY <1>1, <1>5 DEF FormulaeKnown
<1>7. QED
  BY <1>4, <1>6 DEF Sound

-----------------------------------------------------------------------------
(* Theorems *)

LEMMA RunInvariantParts ==
  RunInvariant <=> RunTypeOK /\ ScopesMatch /\ Agree /\ Sound
  BY DEF RunInvariant, Agree, Sound

LEMMA RunInvariantPartsNext ==
  RunInvariant' <=> RunTypeOK' /\ ScopesMatch' /\ Agree' /\ Sound'
  BY DEF RunInvariant, Agree, Sound

LEMMA RunInvariantInit == RunInit => RunInvariant
<1> SUFFICES ASSUME RunInit PROVE RunInvariant
  OBVIOUS
<1>1. RunTypeOK /\ ScopesMatch
  BY RunInitType, InitScopes DEF RunInit
<1>2. TimesAgree /\ StatesAgree
  BY DEF RunInit, Init, TimesAgree, StatesAgree
<1>3. FormulaeKnown /\ TraceSound
  BY DEF RunInit, Init, FormulaeKnown, TraceSound
<1>4. QED
  BY <1>1, <1>2, <1>3 DEF RunInvariant

LEMMA RunInvariantNext == RunInvariant /\ [RunNext]_runVars => RunInvariant'
<1> DEFINE Parts == RunTypeOK /\ ScopesMatch /\ Agree /\ Sound
<1> SUFFICES ASSUME RunTypeOK, ScopesMatch, Agree, Sound, FormulaeKnown, [RunNext]_runVars
             PROVE  Parts'
  BY RunInvariantParts, RunInvariantPartsNext DEF Sound
<1>1. ASSUME NEW l \in Location, RunGet(l)
      PROVE  Parts'
  BY <1>1, RunGetType, RunGetAgree, RunGetSound, ScopesUnchanged DEF RunGet, Get
<1>2. ASSUME NEW l \in Location, NEW a \in Atoms, RunSet(l, a)
      PROVE  Parts'
  BY <1>2, RunSetType, RunSetAgree, RunSetSound, ScopesUnchanged DEF RunSet, Set
<1>3. ASSUME NEW c \in Logic, NEW a \in Atoms, NEW b \in Atoms, RunMerge(c, a, b)
      PROVE  Parts'
  BY <1>3, RunMergeType, AgreeKept, RunMergeSound, ScopesUnchanged DEF RunMerge, MergeSymbolPaths
<1>4. ASSUME NEW op \in Operator, NEW a \in Atoms, NEW b \in Atoms, RunInstruction(op, a, b)
      PROVE  Parts'
  BY <1>4, RunInstructionType, AgreeKept, RunInstructionSound, ScopesUnchanged
  DEF RunInstruction, SymbolicInstruction
<1>5. CASE RunUnconstrainedSymbol
  BY <1>5, RunUnconstrainedSymbolType, AgreeKept, RunUnconstrainedSymbolSound, ScopesUnchanged
  DEF RunUnconstrainedSymbol, UnconstrainedSymbol
<1>6. CASE RunIncrementTime
  BY <1>6, RunIncrementTimeType, RunIncrementTimeAgree, RunIncrementTimeSound, ScopesUnchanged
  DEF RunIncrementTime, IncrementTime
<1>7. CASE RunScope
  BY <1>7, RunScopeType, AgreeKept, RunScopeSound DEF RunScope
<1>8. CASE RunFinalize
  BY <1>8, RunFinalizeType, RunFinalizeAgree, RunFinalizeSound, ScopesUnchanged
  DEF RunFinalize, Finalize
<1>9. CASE UNCHANGED runVars
  <2>1. RunTypeOK'
    BY <1>9 DEF RunTypeOK, TypeOK, runVars, vars, names, times, scoping, declarations, execution
  <2>2. ScopesMatch'
    BY <1>9, ScopesUnchanged DEF runVars, vars
  <2>3. Agree'
    BY <1>9 DEF Agree, TimesAgree, StatesAgree, ReadTime, runVars, vars, names, times, scoping, execution
  <2>4. FormulaeKnown'
    BY <1>9 DEF FormulaeKnown, GuardHolds, runVars, vars, names, times, execution
  <2>5. TraceSound'
    BY <1>9 DEF Sound, TraceSound, Holds, GuardHolds, BodyHolds, StateAt, ValueOf,
                runVars, vars, names, times, execution
  <2>6. QED
    BY <2>1, <2>2, <2>3, <2>4, <2>5 DEF Sound
<1>10. QED
  BY <1>1, <1>2, <1>3, <1>4, <1>5, <1>6, <1>7, <1>8, <1>9 DEF RunNext

\* For any locations, conditions, operators and their meaning, and runs of any
\* length, every formula the environment has recorded is true of every concrete
\* execution that takes the same steps.
THEOREM TraceIsSound == RunSpec => []TraceSound
<1>1. RunInvariant => TraceSound
  BY DEF RunInvariant
<1>2. QED
  BY <1>1, RunInvariantInit, RunInvariantNext, PTL DEF RunSpec

\* The types of the run, and what its induction rests on.
THEOREM RunInvariantHolds == RunSpec => []RunInvariant
  BY RunInvariantInit, RunInvariantNext, PTL DEF RunSpec

-----------------------------------------------------------------------------
(* The final state *)

\* After finalize() nothing happens.
LEMMA DoneIsLast == phase = "done" /\ [RunNext]_runVars => UNCHANGED runVars
  BY DEF RunNext, RunGet, RunSet, RunMerge, RunInstruction, RunUnconstrainedSymbol,
         RunIncrementTime, RunScope, RunFinalize

\* Nothing but finalize() ends a run.
LEMMA OnlyFinalizeEnds ==
  phase # "done" /\ [RunNext]_runVars /\ phase' = "done" => RunFinalize
  BY DEF RunNext, RunGet, RunSet, RunMerge, RunInstruction, RunUnconstrainedSymbol,
         RunIncrementTime, RunScope, RunFinalize, runVars

\* The two formulae finalize() adds for a location.
LEMMA FinalFormulae ==
  ASSUME NEW l \in Touched
  PROVE  /\ FinalRead(l) \in FinalReads(Touched) /\ FinalStore(l) \in FinalStores(Touched)
         /\ FinalRead(l).guard = environments /\ FinalStore(l).guard = environments
         /\ FinalRead(l).body = Stored(symbolSetTimes[l], l, SymbolAtom(FinalSymbol(l)))
         /\ FinalStore(l).body = Stored(0, l, SymbolAtom(FinalSymbol(l)))
  BY DEF FinalRead, FinalStore, FinalReads, FinalStores, Formula

LEMMA StoredParts ==
  \A t, l, a : /\ Stored(t, l, a).kind = "stored" /\ Stored(t, l, a).time = t
               /\ Stored(t, l, a).location = l /\ Stored(t, l, a).atom = a
  BY DEF Stored

\* A location whose content has changed is read later than time 1, so finalize()
\* visits it and reads it at the time of an update.
LEMMA FinalizeTies ==
  ASSUME RunInvariant, RunFinalize
  PROVE  FinalStateTied'
<1>1. /\ phase = "step" /\ time \in Nat /\ time > 1 /\ environments = << >>
      /\ store' = store /\ history' = history
      /\ formulae' = formulae \cup FinalReads(Touched) \cup FinalStores(Touched)
      /\ symbolSetTimes \in [Location -> Nat]
  BY DEF RunInvariant, StatesAgree, RunTypeOK, TypeOK, RunFinalize, Finalize, execution
<1>2. SUFFICES ASSUME NEW l \in Location, store[l] # history[1][l]
               PROVE  \E f, g \in formulae' :
                        /\ f.body.kind = "stored" /\ f.guard = << >>
                        /\ g.body.kind = "stored" /\ g.guard = << >>
                        /\ f.body.location = l /\ g.body.location = l
                        /\ f.body.atom = g.body.atom
                        /\ f.body.time = 0 /\ g.body.time > 1
  BY <1>1 DEF FinalStateTied
<1>3. 1 \in 1 .. time - 1 /\ ReadTime(l) \in Nat
  BY <1>1 DEF ReadTime
<1>4. ~(ReadTime(l) <= 1)
  BY <1>1, <1>2, <1>3 DEF RunInvariant, StatesAgree
<1>5. l \in Touched /\ symbolSetTimes[l] > 1
  BY <1>1, <1>3, <1>4 DEF ReadTime, Touched
<1>6. FinalStore(l) \in formulae' /\ FinalRead(l) \in formulae'
  BY <1>1, <1>5, FinalFormulae
<1>7. QED
  BY <1>1, <1>5, <1>6, FinalFormulae, StoredParts

LEMMA FinalStateNext ==
  RunInvariant /\ FinalStateTied /\ [RunNext]_runVars => FinalStateTied'
<1> SUFFICES ASSUME RunInvariant, FinalStateTied, [RunNext]_runVars
             PROVE  FinalStateTied'
  OBVIOUS
<1>1. CASE phase = "done"
  <2>1. phase' = phase /\ store' = store /\ history' = history /\ formulae' = formulae
    BY <1>1, DoneIsLast DEF runVars, vars, execution
  <2>2. ASSUME NEW l \in Location, store[l] # history[1][l]
        PROVE  \E f, g \in formulae :
                 /\ f.body.kind = "stored" /\ f.guard = << >>
                 /\ g.body.kind = "stored" /\ g.guard = << >>
                 /\ f.body.location = l /\ g.body.location = l
                 /\ f.body.atom = g.body.atom
                 /\ f.body.time = 0 /\ g.body.time > 1
    BY <1>1, <2>2, Zenon DEF FinalStateTied
  <2>3. ASSUME NEW l \in Location, store'[l] # history'[1][l]
        PROVE  \E f, g \in formulae' :
                 /\ f.body.kind = "stored" /\ f.guard = << >>
                 /\ g.body.kind = "stored" /\ g.guard = << >>
                 /\ f.body.location = l /\ g.body.location = l
                 /\ f.body.atom = g.body.atom
                 /\ f.body.time = 0 /\ g.body.time > 1
    <3>1. store[l] # history[1][l] /\ formulae' = formulae
      BY <2>1, <2>3
    <3>2. PICK f \in formulae, g \in formulae :
            /\ f.body.kind = "stored" /\ f.guard = << >>
            /\ g.body.kind = "stored" /\ g.guard = << >>
            /\ f.body.location = l /\ g.body.location = l
            /\ f.body.atom = g.body.atom
            /\ f.body.time = 0 /\ g.body.time > 1
      BY <2>2, <3>1
    <3>3. f \in formulae' /\ g \in formulae'
      BY <3>1
    <3>4. QED
      BY <3>2, <3>3
  <2>4. QED
    BY <2>3, Zenon DEF FinalStateTied
<1>2. CASE phase # "done"
  <2>1. CASE phase' = "done"
    BY <1>2, <2>1, OnlyFinalizeEnds, FinalizeTies
  <2>2. CASE phase' # "done"
    BY <2>2 DEF FinalStateTied
  <2>3. QED
    BY <2>1, <2>2
<1>3. QED
  BY <1>1, <1>2

\* A finalized trace ties the final state to the time of the last update of every
\* location whose content has changed since the initial state, by one atom and
\* under no guard, for runs of any length.
THEOREM FinalStateIsTied == RunSpec => []FinalStateTied
<1>1. RunInit => FinalStateTied
  BY DEF RunInit, FinalStateTied
<1>2. QED
  BY <1>1, FinalStateNext, RunInvariantInit, RunInvariantNext, PTL DEF RunSpec

-----------------------------------------------------------------------------
(* The store of update sets *)

\* The facts a set of formulae states; the abstract state, said in these words.
Fact(t, l, a) == [time |-> t, location |-> l, atom |-> a]
FactsOf(F) ==
  { [time |-> f.body.time, location |-> f.body.location, atom |-> f.body.atom] :
      f \in { g \in F : g.body.kind = "stored" } }
Trace == FactsOf(formulae)
Version == [l \in Location |-> ReadTime(l)]
Updates == { l \in Location : symbolUpdateSet[l] = time }
Closed == phase = "done"

\* What a step has to show of the abstract state.
LEMMA StoreInit ==
  ASSUME time = 1, Version = [l \in Location |-> 1], Updates = {}, Trace = {}, ~Closed
  PROVE  Store!Init
  BY DEF Store!Init, Version, Updates, Trace, FactsOf, Closed

LEMMA StoreStutters ==
  ASSUME UNCHANGED << time, Version, Updates, Trace, Closed >>
  PROVE  UNCHANGED Store!storeVars
  BY DEF Store!storeVars, Version, Updates, Trace, FactsOf, Closed

LEMMA StoreReads ==
  ASSUME NEW l \in Location, NEW a, ~Closed, \A e \in Trace : e.atom # a,
         Trace' = Trace \cup {Fact(Version[l], l, a)},
         UNCHANGED << time, Version, Updates, Closed >>
  PROVE  Store!Read(l)
<1> DEFINE e == Fact(Version[l], l, a)
<1>1. e.atom = a
  BY DEF Fact
<1>2. Trace' \ Trace = {e}
  BY <1>1
<1>3. /\ ~Closed /\ Trace \subseteq Trace'
      /\ \E d \in Trace' \ Trace : /\ Trace' \ Trace = {d}
                                   /\ d = Fact(Version[l], l, d.atom)
                                   /\ \A c \in Trace : c.atom # d.atom
      /\ UNCHANGED << time, Version, Updates, Closed >>
  <2> HIDE DEF e
  <2>1. e = Fact(Version[l], l, e.atom)
    BY <1>1 DEF e
  <2>2. QED
    BY <1>1, <1>2, <2>1
<1>4. QED
  BY <1>3 DEF Store!Read, Store!Fact, Store!Fresh, Store!New, Fact, Version, Updates, Trace,
              FactsOf, Closed

LEMMA StoreWrites ==
  ASSUME NEW l \in Location, NEW a, ~Closed,
         Trace' = Trace \cup {Fact(time, l, a)},
         Updates' = Updates \cup {l},
         UNCHANGED << time, Version, Closed >>
  PROVE  Store!Write(l)
<1>1. Fact(time, l, a) = Fact(time, l, Fact(time, l, a).atom)
  BY DEF Fact
<1>2. /\ Trace \subseteq Trace'
      /\ \A e \in Trace' \ Trace : e = Fact(time, l, e.atom)
  BY <1>1
<1>3. QED
  BY <1>2 DEF Store!Write, Store!Fact, Store!New, Fact, Version, Updates, Trace, FactsOf, Closed

LEMMA StoreCommits ==
  ASSUME ~Closed, time' = time + 1,
         Version' = [l \in Location |-> IF l \in Updates THEN time ELSE Version[l]],
         Updates' = {},
         UNCHANGED << Trace, Closed >>
  PROVE  Store!Commit
  BY DEF Store!Commit, Version, Updates, Trace, FactsOf, Closed

\* The locations of S are closed with the atoms A.
ClosesWith(S, A, facts) ==
  /\ S \subseteq Location
  /\ \A l \in Location : Version[l] > 1 => l \in S
  /\ \A l \in S : \A e \in Trace : e.atom # A[l]
  /\ \A l, k \in S : A[l] = A[k] => l = k
  /\ Trace' = Trace \cup facts
  /\ \A l \in S : Fact(Version[l], l, A[l]) \in facts /\ Fact(0, l, A[l]) \in facts
  /\ \A e \in facts : \E l \in S : e = Fact(Version[l], l, A[l]) \/ e = Fact(0, l, A[l])

LEMMA StoreCloses ==
  ASSUME ~Closed, Closed', Updates = {}, UNCHANGED << time, Updates >>,
         NEW S, NEW A, NEW facts, ClosesWith(S, A, facts)
  PROVE  Store!Close
<1> USE DEF ClosesWith
<1>1. \A t, l, a : Fact(t, l, a).time = t /\ Fact(t, l, a).location = l /\ Fact(t, l, a).atom = a
  BY DEF Fact
<1>2. \A e \in facts : \E l \in S : /\ (e = Fact(Version[l], l, A[l]) \/ e = Fact(0, l, A[l]))
                                     /\ e.location = l /\ e.atom = A[l]
                                     /\ e.time \in {0, Version[l]}
  BY <1>1
<1>3. Trace' \ Trace = facts
  BY <1>2
<1>4. \A l \in Location : Version[l] > 1 => \E e \in Trace' \ Trace : e = Fact(0, l, e.atom)
  BY <1>1, <1>3
<1>5. ASSUME NEW e \in Trace' \ Trace
      PROVE  /\ \A d \in Trace : d.atom # e.atom
             /\ e.time \in {0, Version[e.location]}
             /\ Fact(0, e.location, e.atom) \in Trace' \ Trace
             /\ Fact(Version[e.location], e.location, e.atom) \in Trace' \ Trace
             /\ \A d \in Trace' \ Trace : d.atom = e.atom => d.location = e.location
  <2>1. PICK l \in S : /\ e.location = l /\ e.atom = A[l]
                       /\ e.time \in {0, Version[l]}
    BY <1>2, <1>3
  <2>2. ASSUME NEW d \in Trace' \ Trace, d.atom = e.atom
        PROVE  d.location = e.location
    <3>1. PICK k \in S : d.location = k /\ d.atom = A[k]
      BY <1>2, <1>3
    <3>2. QED
      BY <2>1, <2>2, <3>1 DEF ClosesWith
  <2>3. QED
    BY <1>3, <2>1, <2>2
<1>6. /\ ~Closed /\ Updates = {} /\ Closed' = TRUE /\ Trace \subseteq Trace'
      /\ UNCHANGED << time, Updates >>
  OBVIOUS
<1>7. QED
  BY <1>4, <1>5, <1>6 DEF Store!Close, Store!Fact, Store!New, Store!Fresh, Fact, Version,
                          Updates, Trace, FactsOf, Closed

\* The facts of formulae are those of each.
LEMMA FactsOfUnion ==
  /\ \A F, G : FactsOf(F \cup G) = FactsOf(F) \cup FactsOf(G)
  /\ \A f : f.body.kind = "stored" =>
       FactsOf({f}) = {Fact(f.body.time, f.body.location, f.body.atom)}
  /\ \A f : f.body.kind # "stored" => FactsOf({f}) = {}
  BY DEF FactsOf, Fact

LEMMA FactsOfMembers ==
  ASSUME NEW F
  PROVE  /\ \A f \in F : f.body.kind = "stored" =>
              Fact(f.body.time, f.body.location, f.body.atom) \in FactsOf(F)
         /\ \A e \in FactsOf(F) : \E f \in F :
              f.body.kind = "stored" /\ e = Fact(f.body.time, f.body.location, f.body.atom)
  BY DEF FactsOf, Fact

\* A formula of the trace that was not stored is no fact; one that was is.
LEMMA TraceKept ==
  ASSUME formulae' = formulae
  PROVE  Trace' = Trace
  BY DEF Trace, FactsOf

LEMMA TraceStores ==
  ASSUME NEW n, NEW t, NEW l, NEW a,
         formulae' = formulae \cup {Formula(n, Stored(t, l, a))}
  PROVE  Trace' = Trace \cup {Fact(t, l, a)}
<1> DEFINE f == Formula(n, Stored(t, l, a))
<1>1. Trace' = FactsOf(formulae')
  BY DEF Trace, FactsOf
<1>2. /\ f.body.kind = "stored"
      /\ f.body.time = t /\ f.body.location = l /\ f.body.atom = a
  BY FormulaParts, StoredParts
<1>3. formulae' = formulae \cup {f}
  OBVIOUS
<1> HIDE DEF f
<1>4. FactsOf({f}) = {Fact(t, l, a)}
  BY <1>2, FactsOfUnion
<1>5. FactsOf(formulae \cup {f}) = FactsOf(formulae) \cup FactsOf({f})
  BY FactsOfUnion
<1>6. QED
  BY <1>1, <1>3, <1>4, <1>5 DEF Trace

LEMMA TraceOmits ==
  ASSUME NEW n, NEW b, b.kind # "stored", formulae' = formulae \cup {Formula(n, b)}
  PROVE  Trace' = Trace
<1> DEFINE f == Formula(n, b)
<1>1. Trace' = FactsOf(formulae')
  BY DEF Trace, FactsOf
<1>2. f.body.kind # "stored" /\ formulae' = formulae \cup {f}
  BY FormulaParts
<1> HIDE DEF f
<1>3. FactsOf({f}) = {}
  BY <1>2, FactsOfUnion
<1>4. FactsOf(formulae \cup {f}) = FactsOf(formulae) \cup FactsOf({f})
  BY FactsOfUnion
<1>5. QED
  BY <1>1, <1>2, <1>3, <1>4 DEF Trace

\* No stored formula speaks of a symbol that is not there yet.
LEMMA FreshSymbol ==
  ASSUME RunInvariant, phase # "done", NEW s \in Nat, symbolName <= s
  PROVE  \A e \in Trace : e.atom # SymbolAtom(s)
<1>1. SUFFICES ASSUME NEW f \in formulae, f.body.kind = "stored", f.body.atom = SymbolAtom(s)
               PROVE  FALSE
  BY DEF Trace, FactsOf
<1>2. AtomsOf(f.body) = {f.body.atom}
  BY <1>1 DEF AtomsOf
<1>3. f.body.atom.symbolic /\ f.body.atom.of = s
  BY <1>1, SymbolAtomParts
<1>4. s \in 0 .. symbolName - 1 /\ symbolName \in Nat
  BY <1>2, <1>3 DEF RunInvariant, FormulaeKnown, RunTypeOK, TypeOK
<1>5. QED
  BY <1>4

\* The steps of the run are steps of the store.
LEMMA RunGetReads ==
  ASSUME RunInvariant, NEW l \in Location, RunGet(l)
  PROVE  Store!Read(l)
<1>1. /\ phase = "step" /\ phase' = phase /\ symbolName \in Nat
      /\ UNCHANGED << time, symbolUpdateSet >>
      /\ symbolSetTimes' = [symbolSetTimes EXCEPT ![l] = ReadTime(l)]
      /\ symbolSetTimes \in [Location -> Nat]
      /\ formulae' = formulae \cup
           { Formula(formulaName + 1, Stored(ReadTime(l), l, SymbolAtom(symbolName))) }
  BY DEF RunGet, Get, RunInvariant, RunTypeOK, TypeOK
<1>2. \A k \in Location : ReadTime(k)' = ReadTime(k)
  BY <1>1 DEF ReadTime
<1>3. UNCHANGED << time, Version, Updates, Closed >> /\ ~Closed
  BY <1>1, <1>2 DEF Version, Updates, Closed
<1>4. Version[l] = ReadTime(l)
  BY DEF Version
<1>5. Trace' = Trace \cup {Fact(Version[l], l, SymbolAtom(symbolName))}
  BY <1>1, <1>4, TraceStores
<1>6. \A e \in Trace : e.atom # SymbolAtom(symbolName)
  BY <1>1, FreshSymbol
<1>7. QED
  BY <1>3, <1>5, <1>6, StoreReads

LEMMA RunSetWrites ==
  ASSUME RunInvariant, NEW l \in Location, NEW a \in Atoms, RunSet(l, a)
  PROVE  Store!Write(l)
<1>1. /\ phase # "done" /\ phase' = phase
      /\ UNCHANGED << time, symbolSetTimes >>
      /\ symbolUpdateSet' = [symbolUpdateSet EXCEPT ![l] = time]
      /\ symbolUpdateSet \in [Location -> Nat]
      /\ formulae' = formulae \cup { Formula(formulaName, Stored(time, l, a)) }
  BY DEF RunSet, Set, RunInvariant, RunTypeOK, TypeOK
<1>2. UNCHANGED << time, Version, Closed >> /\ ~Closed
  BY <1>1 DEF Version, ReadTime, Closed
<1>3. Updates' = Updates \cup {l}
  BY <1>1 DEF Updates
<1>4. Trace' = Trace \cup {Fact(time, l, a)}
  BY <1>1, TraceStores
<1>5. QED
  BY <1>2, <1>3, <1>4, StoreWrites

LEMMA RunIncrementTimeCommits ==
  ASSUME RunInvariant, RunIncrementTime
  PROVE  Store!Commit
<1>1. /\ phase # "done" /\ phase' = "step" /\ time \in Nat \ {0} /\ time' = time + 1
      /\ symbolUpdateSet' = symbolUpdateSet /\ formulae' = formulae
      /\ symbolSetTimes \in [Location -> Nat] /\ symbolUpdateSet \in [Location -> Nat]
      /\ \A l \in Location : symbolSetTimes'[l] =
           IF symbolUpdateSet[l] # 0 THEN symbolUpdateSet[l] ELSE symbolSetTimes[l]
  BY DEF RunIncrementTime, IncrementTime, RunInvariant, RunTypeOK, TypeOK
<1>2. \A l \in Location :
        /\ symbolUpdateSet[l] <= time
        /\ symbolUpdateSet[l] # 0 /\ symbolUpdateSet[l] # time => symbolSetTimes[l] = symbolUpdateSet[l]
  BY <1>1 DEF RunInvariant, TimesAgree
<1>3. Version' = [l \in Location |-> IF l \in Updates THEN time ELSE Version[l]]
  BY <1>1, <1>2 DEF Version, Updates, ReadTime
<1>4. Updates' = {}
  <2>1. \A l \in Location : symbolUpdateSet'[l] # time'
    BY <1>1, <1>2
  <2>2. QED
    BY <2>1 DEF Updates
<1>5. Trace' = Trace /\ ~Closed /\ Closed' = Closed
  BY <1>1, TraceKept DEF Closed
<1>6. QED
  BY <1>1, <1>3, <1>4, <1>5, StoreCommits

LEMMA RunFinalizeCloses ==
  ASSUME RunInvariant, RunFinalize
  PROVE  Store!Close
<1> DEFINE A == [l \in Touched |-> SymbolAtom(FinalSymbol(l))]
<1>1. /\ phase # "done" /\ phase' = "done" /\ UNCHANGED << time, symbolUpdateSet >>
      /\ \A l \in Location : symbolUpdateSet[l] # time
      /\ symbolSetTimes \in [Location -> Nat]
      /\ formulae' = formulae \cup FinalReads(Touched) \cup FinalStores(Touched)
      /\ symbolName \in Nat /\ TypeOK
  BY DEF RunFinalize, Finalize, RunInvariant, RunTypeOK, TypeOK
<1>2. ~Closed /\ Closed' /\ Updates = {} /\ UNCHANGED << time, Updates >>
  BY <1>1 DEF Closed, Updates
<1>3. /\ Touched \subseteq Location
      /\ \A l \in Location : Version[l] > 1 => l \in Touched
      /\ \A l \in Touched : Version[l] = symbolSetTimes[l]
  BY DEF Touched, Version, ReadTime
<1>4. \A l \in Touched : /\ FinalSymbol(l) \in Nat /\ symbolName <= FinalSymbol(l)
                         /\ \A k \in Touched : FinalSymbol(l) = FinalSymbol(k) => l = k
  BY <1>1, VisitNames
<1>5. \A l \in Touched : \A e \in Trace : e.atom # A[l]
  BY <1>1, <1>4, FreshSymbol
<1>6. \A l, k \in Touched : A[l] = A[k] => l = k
  <2>1. \A l \in Touched : A[l].of = FinalSymbol(l)
    BY SymbolAtomParts
  <2> HIDE DEF A
  <2>2. QED
    BY <1>4, <2>1
<1> DEFINE facts == FactsOf(FinalReads(Touched)) \cup FactsOf(FinalStores(Touched))
<1>7. /\ \A l \in Touched : Fact(Version[l], l, A[l]) \in facts /\ Fact(0, l, A[l]) \in facts
      /\ \A e \in facts : \E l \in Touched : e = Fact(Version[l], l, A[l]) \/ e = Fact(0, l, A[l])
  <2>1. \A l \in Touched : A[l] = SymbolAtom(FinalSymbol(l))
    OBVIOUS
  <2> HIDE DEF A
  <2>2. ASSUME NEW l \in Touched
        PROVE  Fact(Version[l], l, A[l]) \in facts /\ Fact(0, l, A[l]) \in facts
    <3>1. /\ FinalRead(l).body.kind = "stored" /\ FinalStore(l).body.kind = "stored"
          /\ FinalRead(l).body.time = Version[l] /\ FinalStore(l).body.time = 0
          /\ FinalRead(l).body.location = l /\ FinalStore(l).body.location = l
          /\ FinalRead(l).body.atom = A[l] /\ FinalStore(l).body.atom = A[l]
      BY <1>3, <2>1, FinalFormulae, StoredParts
    <3>2. /\ Fact(Version[l], l, A[l]) \in FactsOf(FinalReads(Touched))
          /\ Fact(0, l, A[l]) \in FactsOf(FinalStores(Touched))
      BY <3>1, FinalFormulae, FactsOfMembers
    <3>3. QED
      BY <3>2
  <2>3. ASSUME NEW e \in facts
        PROVE  \E l \in Touched : e = Fact(Version[l], l, A[l]) \/ e = Fact(0, l, A[l])
    <3>1. PICK f \in FinalReads(Touched) \cup FinalStores(Touched) :
            e = Fact(f.body.time, f.body.location, f.body.atom)
      BY FactsOfMembers
    <3>2. PICK l \in Touched : f = FinalRead(l) \/ f = FinalStore(l)
      BY VisitFormulae
    <3>3. /\ f.body.location = l /\ f.body.atom = A[l]
          /\ f.body.time = Version[l] \/ f.body.time = 0
      BY <1>3, <2>1, <3>2, FinalFormulae, StoredParts
    <3>4. QED
      BY <3>1, <3>3
  <2>4. QED
    BY <2>2, <2>3
<1>8. Trace' = Trace \cup facts
  <2>1. Trace' = FactsOf(formulae')
    BY DEF Trace, FactsOf
  <2>2. FactsOf(formulae') = FactsOf(formulae) \cup facts
    <3> DEFINE reads == FinalReads(Touched)
               stores == FinalStores(Touched)
    <3>1. formulae' = (formulae \cup reads) \cup stores
      BY <1>1
    <3> HIDE DEF reads, stores
    <3>2. FactsOf(formulae') = FactsOf(formulae \cup reads) \cup FactsOf(stores)
      BY <3>1, FactsOfUnion
    <3>3. FactsOf(formulae \cup reads) = FactsOf(formulae) \cup FactsOf(reads)
      BY FactsOfUnion
    <3>4. QED
      BY <3>2, <3>3 DEF reads, stores
  <2>3. QED
    BY <2>1, <2>2 DEF Trace
<1> HIDE DEF A, facts
<1>9. ClosesWith(Touched, A, facts)
  BY <1>3, <1>5, <1>6, <1>7, <1>8 DEF ClosesWith
<1>10. QED
  BY <1>2, <1>9, StoreCloses

\* The calls that touch no location are no step of the store.
LEMMA OthersStutter ==
  ASSUME UNCHANGED << times, phase >>,
         \/ formulae' = formulae
         \/ \E n, b : b.kind # "stored" /\ formulae' = formulae \cup {Formula(n, b)}
  PROVE  UNCHANGED Store!storeVars
<1>1. UNCHANGED << time, Version, Updates, Closed >>
  BY DEF times, Version, ReadTime, Updates, Closed
<1>2. Trace' = Trace
  BY TraceKept, TraceOmits
<1>3. QED
  BY <1>1, <1>2, StoreStutters

LEMMA StoreStep ==
  RunInvariant /\ [RunNext]_runVars => [Store!Next]_Store!storeVars
<1> SUFFICES ASSUME RunInvariant, [RunNext]_runVars
             PROVE  Store!Next \/ UNCHANGED Store!storeVars
  OBVIOUS
<1>1. ASSUME NEW l \in Location, RunGet(l)
      PROVE  Store!Next
  BY <1>1, RunGetReads DEF Store!Next
<1>2. ASSUME NEW l \in Location, NEW a \in Atoms, RunSet(l, a)
      PROVE  Store!Next
  BY <1>2, RunSetWrites DEF Store!Next
<1>3. ASSUME NEW c \in Logic, NEW a \in Atoms, NEW b \in Atoms, RunMerge(c, a, b)
      PROVE  UNCHANGED Store!storeVars
  <2>1. Merged(c, a, b, symbolName).kind # "stored"
    BY DEF Merged
  <2>2. QED
    BY <1>3, <2>1, OthersStutter DEF RunMerge, MergeSymbolPaths
<1>4. ASSUME NEW op \in Operator, NEW a \in Atoms, NEW b \in Atoms, RunInstruction(op, a, b)
      PROVE  UNCHANGED Store!storeVars
  <2>1. Applied(op, a, b, symbolName).kind # "stored"
    BY DEF Applied
  <2>2. QED
    BY <1>4, <2>1, OthersStutter DEF RunInstruction, SymbolicInstruction
<1>5. CASE RunUnconstrainedSymbol
  BY <1>5, OthersStutter DEF RunUnconstrainedSymbol, UnconstrainedSymbol
<1>6. CASE RunIncrementTime
  BY <1>6, RunIncrementTimeCommits DEF Store!Next
<1>7. CASE RunScope
  BY <1>7, OthersStutter DEF RunScope, MakeEnvironment, ReleaseEnvironment
<1>8. CASE RunFinalize
  BY <1>8, RunFinalizeCloses DEF Store!Next
<1>9. CASE UNCHANGED runVars
  BY <1>9, OthersStutter DEF runVars, vars
<1>10. QED
  BY <1>1, <1>2, <1>3, <1>4, <1>5, <1>6, <1>7, <1>8, <1>9 DEF RunNext

LEMMA StoreInitially == RunInit => Store!Init
<1> SUFFICES ASSUME RunInit PROVE Store!Init
  OBVIOUS
<1>1. /\ time = 1 /\ formulae = {} /\ phase = "initialise"
      /\ \A l \in Location : symbolSetTimes[l] = 0 /\ symbolUpdateSet[l] = 0
  BY DEF RunInit, Init
<1>2. Version = [l \in Location |-> 1] /\ Updates = {}
  <2>1. \A l \in Location : ReadTime(l) = 1 /\ symbolUpdateSet[l] # time
    BY <1>1 DEF ReadTime
  <2>2. QED
    BY <2>1 DEF Version, Updates
<1>3. Trace = {}
  BY <1>1 DEF Trace, FactsOf
<1>4. QED
  BY <1>1, <1>2, <1>3, StoreInit DEF Closed

\* The environment implements the store of update sets, for every set of locations
\* and every run: reads are of the last committed version, updates of a step take
\* effect together although m_symbolUpdateSet is never cleared, and finalize()
\* ties every location that was touched to the final version.
THEOREM RunImplementsStore == RunSpec => ImplementsStore
  BY StoreInitially, StoreStep, RunInvariantInit, RunInvariantNext, PTL
  DEF RunSpec, ImplementsStore, Store!Spec
=================================================================================
