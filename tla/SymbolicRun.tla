----------------------------- MODULE SymbolicRun -----------------------------
(***************************************************************************)
(* A run of a specification over the environment, next to one concrete     *)
(* execution of the same steps.  The client first sets the initial state   *)
(* and increments the time, then every step reads, calculates, updates and *)
(* increments, and the run is finalized between two steps.  The concrete   *)
(* execution gives every condition a truth value, every symbol a value and *)
(* every time a state; the trace is right when each formula it holds is    *)
(* true of every such execution.                                           *)
(***************************************************************************)
EXTENDS SymbolicExecutionEnvironment

CONSTANTS
  Value,    \* the values of locations and symbols
  Meaning   \* what the operators calculate

ASSUME ValueAssumption == Literal \subseteq Value /\ Value \subseteq Int
ASSUME MeaningAssumption == Meaning \in [Operator -> [Value \X Value -> Value]]

VARIABLES
  phase,     \* "initialise", "step" or "done"
  truth,     \* the conditions that are true of this execution
  store,     \* the current state
  pending,   \* the state the current step is about to make
  updated,   \* the locations the current step has updated
  history,   \* history[t]: the state the step of time t made, 1: the initial one
  valuation  \* the value of the i-th symbol

execution == << truth, store, pending, updated, history >>
runVars == << vars, phase, execution, valuation >>

ValueOf(a) == IF a.symbolic THEN valuation[a.of + 1] ELSE a.of

\* Every condition of a guard is true of this execution.
GuardHolds(guard) == \A i \in DOMAIN guard : truth[guard[i]]
Effective == GuardHolds(environments)

RunInit ==
  /\ Init
  /\ phase = "initialise"
  /\ truth \in [Logic -> BOOLEAN]
  /\ store \in [Location -> Value]
  /\ pending = store
  /\ updated = {}
  /\ history = << >>
  /\ valuation = << >>

RunGet(l) ==
  /\ phase = "step"
  /\ Get(l)
  /\ valuation' = Append(valuation, store[l])
  /\ UNCHANGED << phase, execution >>

\* Two updates of one location in one step agree: the client reports an
\* inconsistent update set otherwise.
RunSet(l, a) ==
  /\ phase \in {"initialise", "step"}
  /\ Effective /\ l \in updated => pending[l] = ValueOf(a)
  /\ Set(l, a)
  /\ pending' = IF Effective THEN [pending EXCEPT ![l] = ValueOf(a)] ELSE pending
  /\ updated' = IF Effective THEN updated \cup {l} ELSE updated
  /\ UNCHANGED << phase, truth, store, history, valuation >>

RunIncrementTime ==
  /\ phase \in {"initialise", "step"}
  /\ IncrementTime
  /\ phase' = "step"
  /\ store' = pending
  /\ updated' = {}
  /\ history' = Append(history, pending)
  /\ UNCHANGED << truth, pending, valuation >>

RunScope ==
  /\ phase = "step"
  /\ \/ Len(scopes) < MaxScope /\ \E c \in Logic : MakeEnvironment(c)
     \/ ReleaseEnvironment
  /\ UNCHANGED << phase, execution, valuation >>

RunMerge(c, a, b) ==
  /\ phase = "step"
  /\ MergeSymbolPaths(c, a, b)
  /\ valuation' = Append(valuation, IF truth[c] THEN ValueOf(a) ELSE ValueOf(b))
  /\ UNCHANGED << phase, execution >>

RunInstruction(op, a, b) ==
  /\ phase = "step"
  /\ SymbolicInstruction(op, a, b)
  /\ valuation' = Append(valuation, Meaning[op][<< ValueOf(a), ValueOf(b) >>])
  /\ UNCHANGED << phase, execution >>

RunUnconstrainedSymbol ==
  /\ phase = "step"
  /\ UnconstrainedSymbol
  /\ \E v \in Value : valuation' = Append(valuation, v)
  /\ UNCHANGED << phase, execution >>

\* finalize() between two steps and outside of every scope.
RunFinalize ==
  /\ phase = "step"
  /\ environments = << >>
  /\ \A l \in Location : symbolUpdateSet[l] # time
  /\ Finalize
  /\ phase' = "done"
  /\ \E v \in [1 .. symbolName' -> Value] :
       /\ \A i \in 1 .. symbolName : v[i] = valuation[i]
       /\ \A l \in Touched : v[FinalSymbol(l) + 1] = store[l]
       /\ valuation' = v
  /\ UNCHANGED execution

RunNext ==
  \/ Room /\ \E l \in Location : RunGet(l) \/ \E a \in Atoms : RunSet(l, a)
  \/ Room /\ \E c \in Logic, a \in Atoms, b \in Atoms : RunMerge(c, a, b)
  \/ Room /\ \E op \in Operator, a \in Atoms, b \in Atoms : RunInstruction(op, a, b)
  \/ Room /\ RunUnconstrainedSymbol
  \/ time < MaxTime /\ RunIncrementTime
  \/ RunScope
  \/ RunFinalize

RunSpec == RunInit /\ [][RunNext]_runVars

-----------------------------------------------------------------------------
(* Properties *)

\* The types of the execution next to those of the environment.
RunTypeOK ==
  /\ TypeOK
  /\ phase \in {"initialise", "step", "done"}
  /\ truth \in [Logic -> BOOLEAN]
  /\ store \in [Location -> Value]
  /\ pending \in [Location -> Value]
  /\ updated \in SUBSET Location
  /\ history \in Seq([Location -> Value])
  /\ Len(history) = time - 1
  /\ valuation \in Seq(Value)
  /\ Len(valuation) = symbolName

\* The state of time t: 0 is the final one, and the current step is making
\* that of the current time.
StateAt(t) == IF t = 0 THEN store ELSE IF t < time THEN history[t] ELSE pending

BodyHolds(body) ==
  /\ body.kind = "stored" =>
       StateAt(body.time)[body.location] = ValueOf(body.atom)
  /\ body.kind = "merged" =>
       valuation[body.result + 1] =
         IF truth[body.condition] THEN ValueOf(body.then) ELSE ValueOf(body.else)
  /\ body.kind = "applied" =>
       valuation[body.result + 1] = Meaning[body.operator][<< ValueOf(body.lhs), ValueOf(body.rhs) >>]

Holds(f) == GuardHolds(f.guard) => BodyHolds(f.body)

\* Every formula of the trace is true of the concrete execution, so the prover
\* never excludes a real run: reads are tied to the state their time stands
\* for although updates stay in m_symbolUpdateSet for ever, updates under a
\* false condition still move the read time of their location, and finalize()
\* reads through the same maps it is about to clear.
TraceSound == \A f \in formulae : Holds(f)

-----------------------------------------------------------------------------
(* The inductive invariant TraceSound rests on *)

\* Between the maps: a committed update is what its location is read at, and
\* an update is never later than the current time.
TimesAgree ==
  \A l \in Location :
    /\ symbolSetTimes[l] < time
    /\ symbolUpdateSet[l] <= time
    /\ phase # "done" /\ symbolUpdateSet[l] # 0 /\ symbolUpdateSet[l] # time =>
         symbolSetTimes[l] = symbolUpdateSet[l]

\* Between the maps and the execution: an update this execution made is in
\* m_symbolUpdateSet, what it did not update keeps its content, and since the
\* time a location is read at its content has not changed.
StatesAgree ==
  /\ phase = "initialise" => time = 1 /\ symbolName = 0 /\ environments = << >>
  /\ phase # "initialise" => time > 1 /\ history[time - 1] = store
  /\ \A l \in Location : l \in updated => symbolUpdateSet[l] = time
  /\ \A l \in Location : l \notin updated => pending[l] = store[l]
  /\ phase = "step" => \A l \in Location : \A t \in 1 .. time - 1 :
       ReadTime(l) <= t => history[t][l] = store[l]

\* Of the formulae: they speak of symbols that exist and of times that have
\* come, of time 0 only in a finalized trace, and an update stored at the
\* current time under a true guard is one this execution made.
FormulaeKnown ==
  /\ phase # "done" => \A d \in symbolDefinitions : d.of < symbolName
  /\ phase # "done" => \A f \in formulae : \A a \in AtomsOf(f.body) :
       a.symbolic => a.of \in 0 .. symbolName - 1
  /\ \A f \in formulae : f.body.kind = "stored" =>
       /\ f.body.time <= time
       /\ f.body.time = 0 => phase = "done"
       /\ f.body.time = time /\ GuardHolds(f.guard) => f.body.location \in updated

RunInvariant ==
  RunTypeOK /\ ScopesMatch /\ TimesAgree /\ StatesAgree /\ FormulaeKnown /\ TraceSound

-----------------------------------------------------------------------------
\* A finalized trace speaks of the final state of every location whose content
\* has changed: an unguarded formula stores an atom at time 0 that another
\* unguarded formula stores at the time of an update.
FinalStateTied ==
  phase = "done" => \A l \in Location : store[l] # history[1][l] =>
    \E f, g \in formulae :
      /\ f.body.kind = "stored" /\ f.guard = << >>
      /\ g.body.kind = "stored" /\ g.guard = << >>
      /\ f.body.location = l /\ g.body.location = l
      /\ f.body.atom = g.body.atom
      /\ f.body.time = 0 /\ g.body.time > 1

\* The environment implements the store of update sets: its two maps of times,
\* of which one is never cleared, are the version of a location and the
\* updates of the step.
Store == INSTANCE UpdateSetStore WITH
  clock <- time,
  version <- [l \in Location |-> ReadTime(l)],
  updates <- { l \in Location : symbolUpdateSet[l] = time },
  trace <- { [time |-> f.body.time, location |-> f.body.location, atom |-> f.body.atom] :
               f \in { g \in formulae : g.body.kind = "stored" } },
  closed <- phase = "done"

ImplementsStore == Store!Spec
=============================================================================
