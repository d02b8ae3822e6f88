# A verification of libcasm-ir

`libcasm-ir` is the intermediate representation of CASM (abstract state
machines): a graph of typed values, rules made of nested blocks, instructions
with an executable meaning, passes over that graph, and an environment that
records a symbolic execution as a TPTP problem. It is a sequential library; what
is hard in it is not concurrency but *protocols of calls*: object graphs with
back pointers that are rewritten while they are traversed, maps of times that are
never cleared, calls that throw half-way, type objects that stand for one type and
are renamed, lists of uses that are searched by structure, and four kinds of operands
(undefined, symbolic, values, and what reads a symbol as a value).

This directory models those parts in TLA+, checks them with TLC on small
instances and proves the central ones with TLAPS for every instance.
`PROJECT.json` maps every definition to the lines it models.

## 1. The system

| component | state | operations | correct when |
|---|---|---|---|
| Symbolic execution environment (`SymbolicExecutionEnvironment.*`) | name counters, time, stack of guards, read times and update set by location, vectors of definitions | `get`, `set`, `incrementTime`, `makeEnvironment` and its guard object, `mergeSymbolPaths`, operators, declarations, `finalize` | every formula is true of every concrete run; declarations are unique and complete; guards are the open scopes |
| Blocks, statements, rules (`Block.*`, `Statement.*`, `Rule.*`) | lists of blocks, parent and scope of a block, context of a rule and rule of a context | `add`, `replace`, `replaceWith`, `setContext` | a block has one place, and says which |
| Traversal (`Visitor.*`) and branch elimination (`transform/BranchEliminationPass.*`) | the call stack, the list iterated over | pre/post-order visit, `optimize` | it ends, and the rule means what it meant |
| Consistency check (`analyze/ConsistencyCheckPass.*`) | a count of errors | `visit`, `verify` | the rules it accepts are what the later passes rely on |
| Instructions (`Instruction.*`, `Operation.*`) | operands; no state of their own | `execute` of the operators, `add` and `replace` of operands | symbolic execution abstracts the concrete one; the operators agree on undefined operands |
| Builtins (`Builtin.*`) | none | `execute` of conversions, binary arithmetic, list access | results are constants of the type that was inferred, and in its range |
| Constants (`Constant.*`) | a value or a pointer, defined, symbolic | constructors, comparison, hash, `choose`, `foreach` | a constant is a member of its type; equal ones hash alike |
| Types, enumerations, ranges, lists (`Type.*`, `Enumeration.*`, `Range.*`, `List.*`) | type objects, a cache of them, the registry of IDs, numbered values | `make`, `id`, `fromID`, `setRange`, `encode`, `decode`, `add`, `choose`, `foreach`, `validate` | an ID is one type for ever; constants are read back as they were made; what is chosen is visited and validated |
| Values, users, uses (`Value.*`, `User.*`) | cache of labels, list of uses | `setUse`, `removeUse`, `replaceAllUsesWith`, `label` | an operand knows the instructions that use it; a value that has been replaced is used no more |
| Annotations (`Annotation.*`) | registries of relations | registration, `resolve`, `inference`, `valid` | what is inferred is accepted, whatever order the types become known in, and is what execution makes |
| Specification, agents, functions, deriveds, properties, exceptions | containers, names, flags | insertion and look-up | no behaviour of its own |
| Dump passes, numeric execution pass | none | printing; a stub | output only |

How they interact: a client builds rules top-down through `add`; passes run over
the rules of a specification, each requiring the consistency check; an
interpreter calls `Operation::execute()` for every instruction; an operator that
meets a symbolic operand calls the environment the operand carries, which
declares a fresh symbol, wraps a formula in the guards of the open scopes and
numbers it. A front end asks the annotation of an operation for the types of a call
before it makes one; the constants it is executed on find their types by ID in the
registry, and every operand enters the instruction in its list of uses.

The hard behaviours are listed one by one, with the line where each bites, under
"hazards" in `PROJECT.json`. In short:

* the environment reads an unknown location at time 1 whatever the time is, never
  clears its update set, moves read times also under a false guard, and changes
  state before it throws;
* `replace()` finds blocks by structural equality, back pointers are set by
  whoever lists a block, a replaced context keeps its rule;
* the branch elimination replaces the very block the traversal is inside of;
* operators are written out one by one with undefined and symbolic operands
  handled in different orders, and apart from the relations they are registered with;
* many type objects stand for one type, each ID is found by a name that may change
  later, and a constant is decoded by whichever object its ID leads to by then;
* a use is removed by structural equality and without shortening the list, while
  `replaceAllUsesWith()` iterates over that list.

## 2. The modules

```
UpdateSetStore                 what a run is promised of its locations (abstract)
  ^ implements
SymbolicRun                    a run next to a concrete execution
  | EXTENDS
SymbolicExecutionEnvironment   the environment, any order of calls

BranchElimination              the pass over one rule
  | EXTENDS
BlockTree                      blocks, statements, rules, consistency check

OperatorInstructions           execute() of the operators
BinaryConstants                bit vectors: instructions, builtins, casts

TypedCalls                     a call from its annotation to its result
  | EXTENDS
Annotations                    relations, resolution and inference of all operations

Universe                       choose(), foreach() and validate() of types and constants
  | EXTENDS
TypeRegistry                   type objects, IDs, constants with content

Users                          operands, lists of uses, replacement

PowersOfTwo                    powers of two, for BinaryConstants and Universe
```

`MC*.tla` give instances to TLC. `*_proofs.tla` hold the theorems: one module each for
`SymbolicRun` (its first part is about `SymbolicExecutionEnvironment` alone),
`BranchElimination` (its first part is about `BlockTree` alone), `TypeRegistry` (with
`Universe`), `BinaryConstants`, `OperatorInstructions`, `Users` and `TypedCalls`.
`NaturalNumbers_proofs` holds the lemmas that several of them need: induction for sets of
naturals, division, and the laws of powers of two. Operators
that a comment calls a *mutant* of another one are plausible bugs: with the
mutant in its place, the property named in `PROJECT.json` is violated, which
shows that the property says something about that code.

### SymbolicExecutionEnvironment

Every variable is a member of the class (`symbolSetTimes` is
`m_symbolSetTimes`, ...); a location that is not a key of a map has the time 0,
which the code never stores there. Every action is one public call up to its
return or its exception: `GetThrows`, `SetThrows` and `FinalizeThrows` are the
calls for a location one of whose arguments has no TPTP literal
(`tptpLiteralFromNumericConstant()` throws), with what they have changed by
then. `Finalize` is the whole loop: the i-th location in the order of the map
gets the i-th next symbol name and three formula names. `SymbolicInstruction` is
what an arithmetic instruction does to the environment. A scope is released in
the order of C++ blocks, innermost first.

A location is the whole key of the map, so two argument lists whose hashes
collide are not modelled. Formula names are numbers, so the vectors are sets: a
name gives the position.

### SymbolicRun and UpdateSetStore

`SymbolicRun` restricts the order of calls to that of a run: the initial state is
set at time 1 before anything is read, then steps of reads, calculations, guarded
updates and `incrementTime()`, and `finalize()` between two steps. Next to it runs
one concrete execution: the truth of every condition, the value of every symbol,
the state of every time. `Holds(f)` is what formula `f` says of that execution;
when a path condition is false its update does not happen but the environment
records it all the same, guarded.

`UpdateSetStore` is what this promises, with no map in sight: updates are
collected and take effect together, a read is of the version the last committed
update made, closing the store ties every updated location to version 0 by a
fresh atom. `ImplementsStore` is the refinement: `version` is the read time,
`updates` are the locations whose update time is the current time (which is why
stale entries do no harm), the trace is the set of stored facts.

### BlockTree

Blocks are numbered, `parent`, `scope`, `blocks`, `context`, `ruleOf` are the
pointers of the code, and `kind` is what `name()` returns. `Same` is
`Block::operator==()`: same id and same name. `Operands` is the list of operands a select ends up
with; whether it starts with the expression is up to the client, since the
constructor drops it (`ExpressionFirst`). `Consistent` is the verdict of the consistency check: what
is only logged does not count. The clients hold a pointer to every block and list
a block before they fill it; blocks expire in no model.

`EqualSiblings` = FALSE restricts the clients to replacing blocks that no
sibling equals. That is a restriction of the checks, not of the code: the run
`sibling_branches` shows what happens without it.

### BranchElimination

`Build` actions make a rule, `Optimize` starts the pass on a rule the check
accepts, and the actions of `Traverse` are the steps of the post-order traversal
with an explicit stack of (block, position). A range-for over a vector whose
elements are replaced but never added or removed reads the element that is at its
position by then; `VisitBlock` does the same. `Executed` is the meaning of a rule:
the sequence of statements under a valuation of its conditions, a recursive function
over the blocks.

### OperatorInstructions

Each operator is the set of its outcomes for operands that are undefined, a symbol
or a value: more than one where the code reads a symbol as an integer or Boolean,
`Unchanged` where it does not assign the result, `Throws` where it throws. Registers
are driven by sequences of instructions, in lock step with concrete registers.
Only the integer and Boolean cases are modelled; `Handled` names the clients that execute
the operators that read symbols as values on values only.

### BinaryConstants

Registers hold constants of several binary types; clients create constants and
integers, and execute the instructions on operands of one width, `zext`, `sext`,
`trunc`, the shifts and the casts, which are the operators of the same names
(`AndBits` is the binary case of `AndInstruction::execute()`, `FromInteger` the
integer case of `AsBinaryBuiltin::execute()`). `BinaryConstant` is the constructor
with its check, which accepts values up to 2 ^ (w + 1): it is not what keeps the values
inside of their widths, so `FitsWidth` rests on each operation. `NotBits`
complements a machine word and so always ends in the exception of the constructor.
The natural numbers with their operators `&`, `|`, `^` and `~` are a library's;
`WordAnd`, `WordOr`, `WordXor` and `Complement` are what they do with the bits of a
machine word (`Bit`, `FromBits`).
`Careful` = TRUE restricts the clients: they shift no bit out to the left (`Shl`
does not mask) and narrow by `trunc` only; the run `as_binary_narrow` shows why.

### Annotations and TypedCalls

`Annotations` holds, for every instruction and builtin, the relations its
annotation object registers, which function completes unknown types of operands
(`Resolved`), which infers the type of the result (`Inferred`), and which
relation types are accepted (`Valid`). A type is its kind with the parameter that tells
types of the kind apart (width, range, name, type of the elements).

`TypedCalls` follows one call at a time: `Open` with registers or the literal
`undef`, whose type is not known; `Resolve`, and `Learn` when the client gets a type
from elsewhere, in any order; `Infer`; `Evaluate`, which is
`Operation::execute()` and puts the result into a register, an operand of later calls.
A constant is its type and whether it is undefined, a value or a symbol; a
result that depends on values is any of what it can be, an exception is `Thrown`.
Every operator and builtin is there, with one operator of its name for its
`execute()`; those that throw whatever they get are `Unimplemented`.
`Missing` is the list of calls the annotations accept and no code executes, `Gap` the
few relation types on which inference and validation disagree; the properties say
that there are no others, in both directions. `Careful` keeps clients from powers
with a symbolic or negative exponent, which leave the result as it was.

### TypeRegistry

`types` are the type objects, in the order they are made: by `std::make_shared`
(`Make`) or by `Memory::get`, which keeps a cache (`Get`). `IDOf` is `id()`: the first
object of a name is entered into the maps and numbered, later ones get the same ID
and are not entered. `FromID` asks the cache first. Range constants keep their range in
their type object, which is renamed by that; enumeration constants keep the number
of a value, list constants the list. `Add` of a value that exists throws after the
value was appended: `values` and `uid` differ from then on.

Names are kinds with content, hashes are the names. `RangeConstant` gives its type a
range whether it has none, that one or another: `setRange()` asks nothing, and the
type is renamed after its ID was taken. Types are renamed so in the run and in the
theorems, in whatever order with everything else. `RegistryConsistent`, `IDsStay` and
`EqualValuesEqualConstants` hold whatever is renamed: an object that has an ID keeps it, and
one that was given the ID of another object of its name keeps that until it is renamed
itself, also when the other one has been renamed meanwhile. The other three say what an ID
stands for, and a rename does break that: of two types without range, as
`etc/test/constant/range.cpp:49` makes one, the second has the ID of the first, and a range
constant made of it is read through the first. So they have `NoneRenamed` as hypothesis, that every range
constant was made of a type of its range; without it TLC finds `ReadBack` violated.
`Careful` = TRUE restricts the clients otherwise: they give no two enumerations one name, as
each `Agent` does.

### Universe

What a quantifier or a choose of a specification ranges over, and what is checked before
a value is stored: `foreach()`, `choose()` and `validate()`, which are three switches over
types written apart. They change nothing, so they are operators on the states of
`TypeRegistry`: `TypeVisited`, `TypeChosen` and `Validates` of type objects,
`ConstantVisited` and `ConstantChosen` of constants, `DomainVisited` of a domain
constant, which has the values of the object `FromID` finds for its type. Of a draw there is
the set of its outcomes; the loop that `choose()` of a list is, is an action of
`TypeRegistry`. Constants made by `foreach()` and `choose()` of an enumeration are
those of `EnumerationConstantOf`.

`UniversesAgree` is about ranges whose bounds are in order and enumerations with
values (`Bounded`): of others the draw is not defined, `foreach()` visits nothing and
`validate()` accepts nothing. Three things that no document speaks of are modelled as
they are: a range type without a range validates every range and no integer; a binary type
visits nothing and draws numbers below its width, not below 2 to its width; and the width of an
integer is taken from the number before it, rounded down, so that `validate()` of 8 bits
accepts the integer 512. The property asks that what fits is accepted, not the converse.

### Users

Instructions are made of operands that exist (`New`), or throw after their first
operand has got its use (`NewThrows`). `Replace` is `Instruction::replace()`:
operands, uses of the old value, use of the new one. `RemoveUse` is
`std::remove_if` without `erase`: what is kept moves to the front, what has been moved
from is an empty pointer, the length stays (`Kept` is what is kept, in its order). `ReplaceAllUsesWith` starts the loop
over a list, `ReplaceUse` is one iteration on the list as it is by then. A step that uses
an empty pointer or an instruction that was never made ends the model (`undefined`),
and `ReturnsIfUniform` says exactly when that can happen: when the uses are
not all of one structure. Clients call `replace()` only of an instruction that no
other use looks like (`Distinct`), since otherwise a use is lost, and use only values that
were made before (`Before`).

## 3. What is checked

All passing runs together take about ten minutes. `CHECK_DEADLOCK FALSE` is set
because every system here may stop: an environment is destroyed, a run is
finalized, a pass is done, undefined behaviour is met, and the bounds stop the clients.

| run | bounds | shows |
|---|---|---|
| `see_calls` | 2 locations, one of them without literal, 1 condition, nesting 1, 1 operator, 1 function, names up to 5 (the last call may go beyond), 3 times | types; definitions have unique names over the four vectors; symbols and operators are declared once, and before every formula that uses them, whatever is called and whatever throws; reads are anchored at times the trace stores; read times never move backwards or ahead of their commit; guards are the open scopes |
| `symbolic_run` | 2 locations, 1 condition, 1 operator, 3 times, nesting 1, names up to 4 | the trace is true of the execution, the final state is tied to it, the inductive invariant of the proofs, the refinement of `UpdateSetStore` |
| `block_tree` | 1 rule, 5 blocks, 2 values, 1 condition | parent and scope agree with the lists, no block has two places, rules and contexts agree, also after contexts have been replaced twice |
| `branch_elimination` | 1 rule, 6 blocks of clients plus those of the pass | the traversal ends; meaning is preserved after every step; no branch on a constant is left, all are counted once; the rule stays consistent |
| `typed_calls` | 2 registers, all operators and builtins, 9 types with 2 widths | results are constants of the inferred type; inference is accepted and independent of the order types become known in; where undefined operands decide; symbols are neither lost nor made up; what is annotated is implemented |
| `type_registry` | 3 objects, 1 enumeration of 2 values added up to twice in any order, 2 ranges, [-1..1] and [1..-1], 1 width, lists of 2, 2 constants, range types renamed at any time | whatever is renamed, the registry is consistent, an ID once given stays and constants of enumerations compare as their values; until a type is renamed, IDs are types, constants are read back as made, also after failed additions, and what is chosen or was made is visited and validated by every object of the type; `choose()` returns |
| `users` | 4 instructions of a unary and a binary kind, 1 constant, lists of uses longer than 1 from `New` only | an operand has its use; `replaceAllUsesWith()` replaces all and returns exactly for uses of one structure |
| `binary_constants` | 2 registers, widths 1..4, a word of 6 bits, integers -9..9 | values fit their widths; casts to integers are two's complement and sums, negations and sign extensions agree with it; the casts are inverse to each other and refuse exactly what the width cannot hold; trunc undoes both extensions |
| `operators` | 2 registers of each type, integers -1..1 | a register that is no symbol equals the concrete one and a symbol never stands for undef; connectives are Kleene's; comparisons agree with each other |

Why the bounds are enough. The errors these properties are about need few
objects: a location that is touched, one that throws, and an order between them;
three times, so that an update of the first step is stale in the third; one scope,
as nested ones are covered by the theorem `GuardsAreOpenScopes`; a branch inside of
the arm of a branch, next to a statement (six blocks). The integers -1, 0, 1 tell
apart the cases of the operators; widths 1 to 4 hold the one-bit type, and the
distances 1 to 3 between two widths; integers up to 9 go beyond both ends of four
bits. In `operators` and `typed_calls` all register contents are initial states, so
one more call covers sequences of any length. An ID is ambiguous with two objects of
a name, and a third one is needed to be cached in between; a value is added twice
with two values. Four instructions hold a value, two users of it that look alike or do
not, and the value they are moved to.

The runs that find a violation show disagreements between the code and what its
comments and messages say:

* `sibling_branches`: a branch on a constant listed next to a branch on an
  expression; the pass removes both, because `replace()` compares kinds.
* `as_binary_narrow`: the cast of a binary constant to a narrower type hands trunc
  the value as the offset, so the result may not fit its type, or the cast throws.
* `pow_table`: a power with a negative exponent leaves its result unassigned.

A select made as in the test of the pass, with arms only, has its first value taken
for the expression: with `ExpressionFirst = FALSE` TLC finds `OnlyConstantRemoved`
violated with one branch. Three more were met and are modelled (`And`, `Div`, `Not`) without a run of their
own: the tables above `AndInstruction::execute()` and `DivInstruction::execute()`
have false for `false and sym` and undef for `sym / 0`, the code makes a symbol
or throws; `NotInstruction::execute()` reads a symbol as a Boolean. For this
reason the run `operators` executes `div`, `mod` and `not` on operands that are no
symbols only (`ValuesOnly`).

**Fairness.** `PassTerminates` needs weak fairness of `Traverse` (`FairPassSpec`),
because the pass is one sequential call that runs as long as it has a step to take.
`ChooseReturns` needs weak fairness of each `Draw(i)`: `choose()` loops over draws
from a uniform distribution, so every element is drawn sooner or later. The property is
about lists with a constant; of others `choose()` never returns. Nothing is
assumed of the clients: they need not ever start either call.

## 4. What is proved

For every value of the constants and every bound, from the named assumptions of the
modules: locations are a finite set of naturals, literals are integers and values,
operators have a meaning, no range is the mark for no content, widths are not zero
(`RegistryAssumption`), widths of bit vectors are at most two less than that of the word
(`WidthAssumption`), the instructions executed are among those modelled
(`InstructionAssumption`), constants are not instructions and neither are the empty pointer
and the dangling reference (`UsersAssumption`), types of clients are those the kinds have and
a client that has the type of a list has the type of its elements (`TypeAssumption`), and the
literal undef is no register (`RegisterAssumption`). A theorem that holds of some clients only
has them as its hypothesis, in the same constant the runs use: `Careful`,
`~EqualSiblings`, `ExpressionFirst`, `Handled`.

**Environment.**

* `EnvironmentTyped`: `Spec => []TypeOK`. Inductive as it is; the arithmetic of
  `Finalize` needs that the touched locations are finite.
* `GuardsAreOpenScopes`: `Spec => []ScopesMatch`. Inductive together with
  `TypeOK`: a release pops the guard of the very scope that ends, and destruction
  unbinds every scope because every scope is registered.
* `DefinitionNamesUnique` and `UsesFollowDeclarations`: `[]NamesUnique` and
  `[]DeclaredBeforeUse`, from `NamesInvariant`. It adds `TraceNumbered`: every name given
  is below the counter, every symbol below its own. One lemma (`NamesExtended`) says that a
  call that takes its names from between the old and the new counters, each for one
  definition, keeps it; each action, the loop of `Finalize` and the calls that throw included,
  is shown to be one.
* `ReadsAreAnchored` and `ReadTimesNeverFallBack`: `[]ReadsAnchored` and the action property
  `ReadTimesMonotone`, from `ReadsInvariant`. `incrementTime()` moves every read time to the
  update time, stale or not, so the update times have to be anchored as well
  (`UpdatesAnchored`), not behind the read time and not ahead of the clock (`ReadsInOrder`).

**Run.**

* `RunInvariantHolds`: `RunSpec => []RunInvariant`, and from it
  `TraceIsSound`: `RunSpec => []TraceSound`. `TraceSound` alone is not inductive: that a
  read is true needs that the content of a location has not changed since its
  read time (`StatesAgree`); that this survives a step needs that the update set
  holds every update of the step (`StatesAgree`) and that a stale entry equals
  the read time (`TimesAgree`); that older formulae stay true needs that they speak
  of symbols and times that exist already and that nothing unguarded is stated
  of the current time that the step has not done (`FormulaeKnown`). The run
  `symbolic_run` checks the same invariant.
* `FinalStateIsTied`: `RunSpec => []FinalStateTied`. By `StatesAgree` a location whose content
  has changed is read later than time 1, so `finalize()` visits it.
* `RunImplementsStore`: `RunSpec => ImplementsStore`, the refinement. `StoreInitially` maps
  the initial states, `StoreStep` every step: `get` to a read, `set` to a write,
  `incrementTime()` to the commit, `finalize()` to the close, every other call to a stutter. That
  `incrementTime()` commits entries of earlier steps again does no harm by `TimesAgree`.

**Blocks.**

* `ContextsStayBound`: `TreeSpec => []ContextsBound`, of all clients, from the types and
  `Bindings`: what has a rule is a block that nothing lists, and the context of a rule has it.
* `TreesAreAnchored` and `BlocksAreListedOnce`: if `~EqualSiblings`, `[]Anchored` and
  `[]ListedOnce`. Neither is inductive: `Places` adds that no list has a block twice, and
  what the arms of a replaced branch keep.

**Branch elimination.** `MeaningIsPreserved`, `EliminationIsExact` and `RulesStayConsistent`:
if `~EqualSiblings` and `ExpressionFirst`, then `PassSpec` implies `[]MeaningPreserved`,
`[]EliminationExact` and `[]StaysConsistent`, for rules of any size and depth. Without the first
hypothesis the run `sibling_branches` finds the pass wrong, without the second it
takes a value for the expression of a select. The invariant is
`PassInvariant`: the shape of trees that clients build and the pass leaves (`Shaped`), and
of a pass that goes on:

* the traversal stays in a set of blocks (`Region`) that is closed under the lists,
  that the check has accepted, and whose constant branches not yet replaced have no equal sibling. The
  blocks that the rule has lost are in it too, because the frames of the stack are inside of them;
* `elimination` is the number of constant branches replaced (`Gone`), and what is left to replace
  (`Left`) is in whatever the frames still have before them (`Covers`). When the stack is empty
  nothing is, which is exactness;
* only the last frame can be at the instructions of its block, and then the block is in its
  place (`Frames`);
* the meaning of the rule is what it was. A list names only later blocks (`ListShape`), so the
  recursive function that `Executed` is exists (`RunExists`), and replacing a branch by the arm
  it takes gives every block the value it had (`RunKept`).

**Operators.** `SymbolicExecutionIsSound` (if `Handled`), `ConnectivesAreKleene` and
`ComparisonsAlwaysAgree`, over all integers. `RegTyped` and `LastTyped` are the types, and that
the last result is one of the results of its operands; `ResultsFollow` is the step: the
results of operands that stand for concrete operands stand for the concrete results.

**Binary constants.** All four properties of `BinaryConstants`, if `Careful`, for all widths up to
two bits short of the machine word (`WidthAssumption`): the sum of two values and the
constructor's 2 ^ (w + 1) then are within the word.

* `ValuesFit`: `BinSpec => []FitsWidth`. It is inductive as it is, with one lemma per action.
  That the operations fit has to be shown of each, as the constructor accepts more than fits:
  `WordAnd` with a mask is the remainder (`AndMask`), what `WordAnd`, `WordOr` and `WordXor` make
  of values of a width fits the width (`OperatorsFit`), and `NotBits` always throws.
* `ConstantsAreTwosComplement`, `CastsAreInverse`, `TruncationUndoesExtensions`: `[]TwosComplement`,
  `[]CastsInverse` and `[]TruncUndoesExtensions`, of every state that fits. `WordXor` with a mask is
  the mask minus the value (`XorMask`), and `WordOr` of values that have no bits in common is the
  sum (`OrAbove`), so every operation is arithmetic modulo a power of two.
* A word is the sum over its bits (`FromBits`), a recursive function: what a sum is of is
  shown by induction over the number of bits.

**Types and constants.**

* `RegistryIsTyped` and `RegistryIsConsistent`: `RegistrySpec => []RegistryConsistent`
  for any clients, careful or not. The invariant is `RegistryInvariant`: types, the
  maps (`Fit`) and the constants. Two lemmas carry it: `EnteredFits` for the `id()` that
  enters a type and `ExtendedFits` for what leaves the maps alone, such as one more
  object or another range; each operation that calls `id()` is one of the two.
* `IDsAreTypes`: `RegistrySpec => []EqualTypesShareID`, for any clients. It needs that an
  object with an ID still has the name it was entered under (`Named`), a range type
  as long as none is renamed; from `Fit` an ID then has one name and a name one ID. A
  constant tells that a type was renamed, and constants stay: `RenamedForGood`.
* `IDsNeverChange`: `RegistrySpec => IDsStay`, for any clients. No step, a rename
  included, changes the number of an object that has one or what a name was entered
  for (`IDsKept`); `RegistryInvariant` says that what a name was entered for has a
  number. `EveryStep` splits the steps: a rename, or one that keeps the entries
  of the maps (`StepFrom`).
* `ConstantsAreReadBack` and `EqualityOfConstants`: `[]ReadBack` and
  `[]EqualValuesEqualConstants` if `Careful`, from `ContentInvariant`: enumerations differ
  in their names, a value's number is a position it is at (`Numbered`; a failed addition
  leaves a position without a number), the cache finds objects by the names they have, of ranges
  as long as none is renamed, and what a constant of an enumeration is of is told by the name
  its ID was given for (`ConstantsTold`), not by an object.
* `AllUniversesAgree`: `[]UniversesAgree` if `Careful`. What `foreach()` visits is computed from
  the object an ID leads to, which by `Named` and `ConstantsTold` has the content of the one the
  constant was made with until a type is renamed; the width of integers needs the laws of powers of two.

**Uses.** `UsersInvariantHolds`, and from `UsersInvariant` `UsesAreComplete`
(`[]UsesComplete`), `AllUsesReplaced` and `ReturnsOnlyIfUniform`, which are action properties.
Between replacements no use is missing (`Complete`). During a replacement of uses of one
structure, a removal leaves the list as it is, since all of it matches, and those in front of
the position have been replaced (`Replacing`). During any other, the first removal puts
an empty pointer into the list, which the second iteration meets (`Failing`).

**Calls.** Six properties of `TypedCalls`, for every one of the 60 operations, all
types of clients and all widths. The annotations are data: lemmas compute from `Registered`
what each operation accepts (`JoinsKind`, `ComparesKind`, `Converts`, ... say it for the shapes
operations have in common), and everything else is by cases over those shapes.

* `TypesAreKnown`: `CallSpec => []TypesHold`, the inductive invariant of types. A call keeps the
  types of its registers while it is open, and once it has a result its types are complete and
  valid. It rests on `AllInferWell`: an inferred type is a type, or there is none.
* `InferenceIsAccepted` and `ResolutionIsConfluent`: `[]InferenceAccepted` by `AllInferWell`,
  which has the gaps in both directions, and `[]ResolutionConfluent` by `TypesConfluent`.
* `ResultsAreTyped`: `Careful => (CallSpec => []ResultsTyped)`. With `TypesHold`,
  `ConstantsHold` is inductive: a constant is of the type of its register but for ranges, and only
  a symbol has a range. The step is `CallsFit`: what an operation makes of operands of
  their types is of the type of the result, for every operation.
* `UndefinedIsDecided` and `SymbolsAreKept`: of any clients, by `CallsTold`, which needs of the
  operands only how many there are.
* `CallsAreImplemented`: `Careful => (CallSpec => []CallsImplemented)`. The comparisons need
  that values have no range, or the assertion that operands are of one type would fail.

Induction over the naturals is only used for sets of them (`SetInduction`, from the theorems about
finite sets), which is why `Kept`, `PowerOf2`, `FromBits` and `Executed` are recursive functions:
that they exist and meet their equations is proved, of `PowerOf2` in `NaturalNumbers_proofs`.

Every safety invariant and every action property of the passing runs, and the refinement, is
a theorem.

Model-checked only:

* `PassTerminates` and `ChooseReturns`: liveness is out of the reach of the provers.
* The violation runs, which are about the clients that the hypotheses above exclude.

## 5. Not modelled

* Values of decimals, rationals and strings, and the texts that constants are parsed
  from and printed as: `TypedCalls` has their types, undefined and symbolic
  constants of them, but not what they are.
* Labels of values, and dumps: output only. Properties, exceptions, the specification as
  a container, and the numeric execution pass (a stub) have no behaviour to model.
* Lifetimes: weak pointers do not expire, objects live as long as the program. A list
  constant whose list has been destroyed, and a traversal inside of a branch that its
  callback has released, are hazards without a property for this reason.
* Collisions of hashes, of locations and of names of types.
* `validate()`, `choose()` and `foreach()` of decimals, rationals and strings, whose
  `foreach()` is empty or throws; `available()` and `create()` of builtins.
* Entry and exit statements, `Instruction::next()`, statements that are filled before
  they are listed, releases of scopes out of order, and functions
  that nothing calls (`generateFunctionDefinition()`).
* The rounding of the logarithm in the constructor of binary constants, of values of more
  than 53 bits, and widths less than two bits short of the machine word.

## 6. What is left to do

1. Instructions inside of statements: `setNext`, `Statement::add` before the
   statement is listed, composed with `BlockTree` and `Users`.
2. Lifetimes: blocks and lists whose last owner goes away.
