-------------------- MODULE SymbolicExecutionEnvironment --------------------
(***************************************************************************)
(* The trace recorder of symbolic execution (SymbolicExecutionEnvironment  *)
(* .cpp/.h): it turns reads and updates of function locations into TPTP    *)
(* hypotheses  '@f'(time, args.., atom),  where the time tells the states  *)
(* of the run apart.                                                       *)
(*                                                                         *)
(* Abstractions.  A Location is a whole (name, arguments) key; locations   *)
(* are natural numbers because the maps of the code are ordered by         *)
(* Location::Comperator and finalize() visits them in that order.  A TPTP  *)
(* formula is the record of what it states.  The vectors of definitions    *)
(* are sets: the formula name of a definition is a counter, so it also     *)
(* gives the position in its vector.                                       *)
(***************************************************************************)
EXTENDS Integers, Sequences, FiniteSets

CONSTANTS
  Location,    \* the locations a run may touch
  Unsupported, \* those with an argument that has no TPTP literal
  Logic,       \* the conditions a scope may be guarded by
  Operator,    \* the operators: a token together with its relation type
  FunctionName, \* the functions a client declares
  Literal,     \* the constants that have a TPTP literal
  MaxFormula,  \* bound: no call is made once this many formula names exist
  MaxTime,     \* bound on the number of steps
  MaxScope     \* bound on the nesting of scoped environments

ASSUME LocationAssumption == Location \subseteq Nat /\ IsFiniteSet(Location)
ASSUME UnsupportedAssumption == Unsupported \subseteq Location
ASSUME LiteralAssumption == Literal \subseteq Int
ASSUME BoundAssumption == MaxFormula \in Nat /\ MaxTime \in Nat /\ MaxScope \in Nat

VARIABLES
  symbolName,           \* m_symbolName
  formulaName,          \* m_formulaName
  time,                 \* m_time
  environments,         \* m_environments: the guards of the open scopes
  scopes,               \* the ScopedEnvironment objects that are alive
  symbolSetTimes,       \* m_symbolSetTimes; 0: the location is not a key
  symbolUpdateSet,      \* m_symbolUpdateSet; 0: the location is not a key
  functionDeclarations, \* m_functionDeclarations: the declared operators
  functions,            \* m_functions
  symbolDefinitions,    \* m_symbolDefinitions
  formulae,             \* m_formulae
  alive                 \* FALSE once the environment is destroyed

names == << symbolName, formulaName >>
times == << time, symbolSetTimes, symbolUpdateSet >>
scoping == << environments, scopes, alive >>
declarations == << functionDeclarations, functions >>
vars == << names, times, scoping, declarations, symbolDefinitions, formulae >>

-----------------------------------------------------------------------------
(* What a formula is made of *)

SymbolAtom(s) == [symbolic |-> TRUE, of |-> s]
LiteralAtom(v) == [symbolic |-> FALSE, of |-> v]
Atom == [symbolic : BOOLEAN, of : Int]

Stored(t, l, a) == [kind |-> "stored", time |-> t, location |-> l, atom |-> a]
Merged(c, a, b, s) ==
  [kind |-> "merged", condition |-> c, then |-> a, else |-> b, result |-> s]
Applied(op, a, b, s) ==
  [kind |-> "applied", operator |-> op, lhs |-> a, rhs |-> b, result |-> s]

Body ==
  [kind : {"stored"}, time : Nat, location : Location, atom : Atom]
    \cup [kind : {"merged"}, condition : Logic, then : Atom, else : Atom, result : Nat]
    \cup [kind : {"applied"}, operator : Operator, lhs : Atom, rhs : Atom, result : Nat]

\* addFormula(): the innermost scope wraps first, so the guards read from the
\* outermost scope inwards.
Formula(n, body) == [name |-> n, guard |-> environments, body |-> body]

Declaration(n, x) == [name |-> n, of |-> x]

Supported == Location \ Unsupported

\* The symbols and literals a client can pass to a call.
Symbols == { SymbolAtom(d.of) : d \in symbolDefinitions }
Atoms == Symbols \cup { LiteralAtom(v) : v \in Literal }

-----------------------------------------------------------------------------
Init ==
  /\ symbolName = 0
  /\ formulaName = 0
  /\ time = 1
  /\ environments = << >>
  /\ scopes = << >>
  /\ symbolSetTimes = [l \in Location |-> 0]
  /\ symbolUpdateSet = [l \in Location |-> 0]
  /\ functionDeclarations = {}
  /\ functions = {}
  /\ symbolDefinitions = {}
  /\ formulae = {}
  /\ alive = TRUE

\* Mutants of ReadTime: an off-by-one, and a first read at the current time.
ReadTimeBefore(l) == symbolSetTimes[l] - 1
ReadTimeCurrent(l) == IF symbolSetTimes[l] = 0 THEN time ELSE symbolSetTimes[l]

\* The time a location is read at: that of its last committed update, or 1,
\* the initial state, for a location get() meets for the first time.
ReadTime(l) == IF symbolSetTimes[l] = 0 THEN 1 ELSE symbolSetTimes[l]

\* get(): a fresh symbol stands for the content of the location.
Get(l) ==
  /\ alive
  /\ l \in Supported
  /\ symbolName' = symbolName + 1
  /\ formulaName' = formulaName + 2
  /\ symbolDefinitions' = symbolDefinitions \cup { Declaration(formulaName, symbolName) }
  /\ symbolSetTimes' = [symbolSetTimes EXCEPT ![l] = ReadTime(l)]
  /\ formulae' = formulae \cup
       { Formula(formulaName + 1, Stored(ReadTime(l), l, SymbolAtom(symbolName))) }
  /\ UNCHANGED << time, symbolUpdateSet, scoping, declarations >>

\* get() of a location setAtTime() throws for: the symbol is declared and the
\* location has become a key by then.
GetThrows(l) ==
  /\ alive
  /\ l \in Unsupported
  /\ symbolName' = symbolName + 1
  /\ formulaName' = formulaName + 1
  /\ symbolDefinitions' = symbolDefinitions \cup { Declaration(formulaName, symbolName) }
  /\ symbolSetTimes' = [symbolSetTimes EXCEPT ![l] = ReadTime(l)]
  /\ UNCHANGED << time, symbolUpdateSet, scoping, declarations, formulae >>

\* Mutants of Set: the update is visible at once, or is not recorded.
SetAtOnce(l, a) ==
  /\ alive
  /\ l \in Supported
  /\ formulaName' = formulaName + 1
  /\ formulae' = formulae \cup { Formula(formulaName, Stored(time, l, a)) }
  /\ symbolSetTimes' = [symbolSetTimes EXCEPT ![l] = time]
  /\ UNCHANGED << symbolName, time, symbolUpdateSet, scoping, declarations, symbolDefinitions >>

SetForgets(l, a) ==
  /\ alive
  /\ l \in Supported
  /\ formulaName' = formulaName + 1
  /\ formulae' = formulae \cup { Formula(formulaName, Stored(time, l, a)) }
  /\ UNCHANGED << symbolName, times, scoping, declarations, symbolDefinitions >>

\* set(), the three overloads: the update is recorded at the current time and
\* becomes visible with the next incrementTime().
Set(l, a) ==
  /\ alive
  /\ l \in Supported
  /\ formulaName' = formulaName + 1
  /\ formulae' = formulae \cup { Formula(formulaName, Stored(time, l, a)) }
  /\ symbolUpdateSet' = [symbolUpdateSet EXCEPT ![l] = time]
  /\ UNCHANGED << symbolName, time, symbolSetTimes, scoping, declarations, symbolDefinitions >>

\* Mutant of SetThrows: the update is recorded before setAtTime() throws.
SetThrowsLate(l) ==
  /\ alive
  /\ l \in Unsupported
  /\ symbolUpdateSet' = [symbolUpdateSet EXCEPT ![l] = time]
  /\ UNCHANGED << names, time, symbolSetTimes, scoping, declarations, symbolDefinitions, formulae >>

\* set() of a location setAtTime() throws for: nothing has changed by then.
SetThrows(l) ==
  /\ alive
  /\ l \in Unsupported
  /\ UNCHANGED vars

\* Mutant of IncrementTime: every location ever updated gets the current time.
IncrementTimeAll ==
  /\ alive
  /\ symbolSetTimes' = [l \in Location |->
       IF symbolUpdateSet[l] # 0 THEN time ELSE symbolSetTimes[l]]
  /\ time' = time + 1
  /\ UNCHANGED << names, symbolUpdateSet, scoping, declarations, symbolDefinitions, formulae >>

\* incrementTime(): m_symbolUpdateSet is not cleared, so every location ever
\* updated is committed again, at the time of its own last update.
IncrementTime ==
  /\ alive
  /\ symbolSetTimes' = [l \in Location |->
       IF symbolUpdateSet[l] # 0 THEN symbolUpdateSet[l] ELSE symbolSetTimes[l]]
  /\ time' = time + 1
  /\ UNCHANGED << names, symbolUpdateSet, scoping, declarations, symbolDefinitions, formulae >>

\* makeEnvironment() and the constructor of ScopedEnvironment.
MakeEnvironment(c) ==
  /\ alive
  /\ environments' = Append(environments, c)
  /\ scopes' = Append(scopes, [logic |-> c, bound |-> TRUE, registered |-> TRUE])
  /\ UNCHANGED << names, times, alive, declarations, symbolDefinitions, formulae >>

\* ~ScopedEnvironment() of the innermost scope: the guard object is held by
\* the block of the client that made it, so scopes end in reverse order.
ReleaseEnvironment ==
  /\ scopes # << >>
  /\ environments' =
       IF scopes[Len(scopes)].bound
         THEN SubSeq(environments, 1, Len(environments) - 1)
         ELSE environments
  /\ scopes' = SubSeq(scopes, 1, Len(scopes) - 1)
  /\ UNCHANGED << names, times, alive, declarations, symbolDefinitions, formulae >>

\* Mutant of Destroy: no scope is invalidated.
DestroyOnly ==
  /\ alive
  /\ alive' = FALSE
  /\ UNCHANGED << names, times, environments, scopes, declarations, symbolDefinitions, formulae >>

\* ~SymbolicExecutionEnvironment(): the scopes that outlive it forget it.
Destroy ==
  /\ alive
  /\ alive' = FALSE
  /\ scopes' = [i \in DOMAIN scopes |->
       [scopes[i] EXCEPT !.bound = @ /\ ~scopes[i].registered]]
  /\ UNCHANGED << names, times, environments, declarations, symbolDefinitions, formulae >>

\* mergeSymbolPaths(): a fresh symbol is one value or the other.
MergeSymbolPaths(c, a, b) ==
  /\ alive
  /\ symbolName' = symbolName + 1
  /\ formulaName' = formulaName + 2
  /\ symbolDefinitions' = symbolDefinitions \cup { Declaration(formulaName, symbolName) }
  /\ formulae' = formulae \cup { Formula(formulaName + 1, Merged(c, a, b, symbolName)) }
  /\ UNCHANGED << times, scoping, declarations >>

\* Mutants of Declared: no look-up, and one by anything ever declared.
DeclaredNever(op) == op \notin Operator
DeclaredAny(op) == functions # {} \/ functionDeclarations # {}

\* generateOperatorFunction(): an operator is declared at its first use.
Declared(op) == \E d \in functionDeclarations : d.of = op

\* symbolicInstruction() of an arithmetic instruction on defined operands.
SymbolicInstruction(op, a, b) ==
  /\ alive
  /\ a.symbolic \/ b.symbolic
  /\ symbolName' = symbolName + 1
  /\ symbolDefinitions' = symbolDefinitions \cup { Declaration(formulaName, symbolName) }
  /\ functionDeclarations' =
       IF Declared(op)
         THEN functionDeclarations
         ELSE functionDeclarations \cup { Declaration(formulaName + 1, op) }
  /\ LET next == IF Declared(op) THEN formulaName + 1 ELSE formulaName + 2 IN
       /\ formulae' = formulae \cup { Formula(next, Applied(op, a, b, symbolName)) }
       /\ formulaName' = next + 1
  /\ UNCHANGED << times, scoping, functions >>

\* A fresh symbol nothing is stated of: symbolicInstruction() with an undefined
\* operand, and it or mergeSymbolPaths() with an operand that has no TPTP
\* literal, which throw after the symbol is declared.
UnconstrainedSymbol ==
  /\ alive
  /\ symbolName' = symbolName + 1
  /\ formulaName' = formulaName + 1
  /\ symbolDefinitions' = symbolDefinitions \cup { Declaration(formulaName, symbolName) }
  /\ UNCHANGED << times, scoping, declarations, formulae >>

\* addFunctionDeclaration(): no look-up here, every call declares.
AddFunctionDeclaration(f) ==
  /\ alive
  /\ formulaName' = formulaName + 1
  /\ functions' = functions \cup { Declaration(formulaName, f) }
  /\ UNCHANGED << symbolName, times, scoping, functionDeclarations, symbolDefinitions, formulae >>

\* The loop of finalize(): the locations are visited in their order, each one
\* is read into a fresh symbol which is then stored at time 0.  A visit takes
\* one symbol name and three formula names.
Touched == { l \in Location : symbolSetTimes[l] # 0 }
Rank(l) == Cardinality({ k \in Touched : k < l })
FinalSymbol(l) == symbolName + Rank(l)
FinalName(l) == formulaName + 3 * Rank(l)
FinalDeclarations(S) == { Declaration(FinalName(l), FinalSymbol(l)) : l \in S }
FinalReads(S) ==
  { Formula(FinalName(l) + 1, Stored(symbolSetTimes[l], l, SymbolAtom(FinalSymbol(l)))) : l \in S }
\* Mutant of FinalStores: the final state is stored at the current time.
FinalStoresNow(S) ==
  { Formula(FinalName(l) + 2, Stored(time, l, SymbolAtom(FinalSymbol(l)))) : l \in S }
FinalStores(S) ==
  { Formula(FinalName(l) + 2, Stored(0, l, SymbolAtom(FinalSymbol(l)))) : l \in S }

\* finalize()
Finalize ==
  /\ alive
  /\ Touched \cap Unsupported = {}
  /\ symbolName' = symbolName + Cardinality(Touched)
  /\ formulaName' = formulaName + 3 * Cardinality(Touched)
  /\ symbolDefinitions' = symbolDefinitions \cup FinalDeclarations(Touched)
  /\ formulae' = formulae \cup FinalReads(Touched) \cup FinalStores(Touched)
  /\ symbolSetTimes' = [l \in Location |-> 0]
  /\ UNCHANGED << time, symbolUpdateSet, scoping, declarations >>

\* finalize() with a location that get() throws for: the locations before it
\* are stored, it has its symbol, and no location is forgotten.
FinalizeThrows ==
  /\ alive
  /\ \E bad \in Touched \cap Unsupported :
       LET visited == { l \in Touched : l < bad } IN
       /\ visited \cap Unsupported = {}
       /\ symbolName' = FinalSymbol(bad) + 1
       /\ formulaName' = FinalName(bad) + 1
       /\ symbolDefinitions' = symbolDefinitions \cup FinalDeclarations(visited \cup {bad})
       /\ formulae' = formulae \cup FinalReads(visited) \cup FinalStores(visited)
  /\ UNCHANGED << times, scoping, declarations >>

-----------------------------------------------------------------------------
Room == formulaName < MaxFormula

Next ==
  \/ /\ Room
     /\ \E l \in Location :
          \/ Get(l)
          \/ GetThrows(l)
          \/ \E a \in Atoms : Set(l, a)
          \/ SetThrows(l)
  \/ Room /\ \E c \in Logic, a \in Atoms, b \in Atoms : MergeSymbolPaths(c, a, b)
  \/ Room /\ \E op \in Operator, a \in Atoms, b \in Atoms : SymbolicInstruction(op, a, b)
  \/ Room /\ UnconstrainedSymbol
  \/ Room /\ \E f \in FunctionName : AddFunctionDeclaration(f)
  \/ Room /\ Finalize
  \/ Room /\ FinalizeThrows
  \/ time < MaxTime /\ IncrementTime
  \/ Len(scopes) < MaxScope /\ \E c \in Logic : MakeEnvironment(c)
  \/ ReleaseEnvironment
  \/ Destroy

Spec == Init /\ [][Next]_vars

-----------------------------------------------------------------------------
(* Properties *)

\* The types of the state.
TypeOK ==
  /\ symbolName \in Nat
  /\ formulaName \in Nat
  /\ time \in Nat \ {0}
  /\ environments \in Seq(Logic)
  /\ scopes \in Seq([logic : Logic, bound : BOOLEAN, registered : BOOLEAN])
  /\ symbolSetTimes \in [Location -> Nat]
  /\ symbolUpdateSet \in [Location -> Nat]
  /\ functionDeclarations \subseteq [name : Nat, of : Operator]
  /\ functions \subseteq [name : Nat, of : FunctionName]
  /\ symbolDefinitions \subseteq [name : Nat, of : Nat]
  /\ formulae \subseteq [name : Nat, guard : Seq(Logic), body : Body]
  /\ alive \in BOOLEAN

Containers == << symbolDefinitions, functionDeclarations, functions, formulae >>

\* Whatever the clients call and whichever call throws, no two definitions of
\* the finalized specification get the same formula name, across the vectors
\* generateFormulaName() numbers, and no symbol or operator is declared twice.
NamesUnique ==
  /\ \A i, j \in DOMAIN Containers : \A d \in Containers[i], e \in Containers[j] :
       d.name = e.name => i = j /\ d = e
  /\ \A d, e \in symbolDefinitions : d.of = e.of => d = e
  /\ \A d, e \in functionDeclarations : d.of = e.of => d = e

AtomsOf(body) ==
  IF body.kind = "stored" THEN {body.atom}
  ELSE IF body.kind = "merged" THEN {body.then, body.else, SymbolAtom(body.result)}
  ELSE {body.lhs, body.rhs, SymbolAtom(body.result)}

\* A formula speaks only of symbols and operators whose declaration has an
\* earlier formula name: finalize() emits the declarations it needs.
DeclaredBeforeUse ==
  \A f \in formulae :
    /\ \A a \in AtomsOf(f.body) :
         a.symbolic => \E d \in symbolDefinitions : d.of = a.of /\ d.name < f.name
    /\ f.body.kind = "applied" =>
         \E d \in functionDeclarations : d.of = f.body.operator /\ d.name < f.name

\* While the environment lives its guards are those of the scopes that are
\* still open, outermost first: an ended scope guards no later formula and an
\* open one is never lost.  Once it is destroyed no scope still points to it,
\* so releasing one touches no freed memory: every scope is in
\* m_scoped_environments.
ScopesMatch ==
  /\ alive => environments = [i \in DOMAIN scopes |-> scopes[i].logic]
  /\ \A i \in DOMAIN scopes : scopes[i].registered /\ (scopes[i].bound <=> alive)

\* A location is read at the initial time or at a time some formula stores it:
\* a read is never anchored at a state the trace says nothing of, not even
\* when a set() of the location threw.
ReadsAnchored ==
  \A l \in Location : symbolSetTimes[l] > 1 =>
    \E f \in formulae : /\ f.body.kind = "stored"
                        /\ f.body.location = l
                        /\ f.body.time = symbolSetTimes[l]
                        /\ f.name < formulaName

\* incrementTime() never moves the read time of a location backwards, although
\* it commits every location ever updated again, and no call moves it forward
\* to a time that has not been committed: an update becomes visible in the
\* next step, never in its own.
ReadTimesMonotone ==
  [][ \A l \in Location :
        \/ symbolSetTimes'[l] = symbolSetTimes[l]
        \/ symbolSetTimes'[l] \in {0, 1} /\ symbolSetTimes'[l] # symbolSetTimes[l] /\ time' = time
        \/ symbolSetTimes'[l] > symbolSetTimes[l] /\ symbolSetTimes'[l] < time' ]_vars
=============================================================================
