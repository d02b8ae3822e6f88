------------------------------ MODULE BlockTree ------------------------------
(***************************************************************************)
(* The blocks of the intermediate representation (Block, Statement, Rule): *)
(* a rule has a parallel block as its context, an execution semantics      *)
(* block lists blocks and statements, and a branch statement lists the     *)
(* blocks its select instruction chooses between.                          *)
(*                                                                         *)
(* Abstractions.  Blocks are numbered in the order they are made; 0 is the *)
(* null pointer.  The clients hold a pointer to every block they make, as  *)
(* the tests do, so no weak pointer expires.  They build top-down: a new   *)
(* block is added at once to one that is in a tree.  The entry and exit    *)
(* statements of init() never change and are left out.  A trivial          *)
(* statement has its one instruction when it is added.                     *)
(***************************************************************************)
EXTENDS Integers, Sequences, SequencesExt, FiniteSets

CONSTANTS
  Rule,         \* the rules of the specification
  NoRule,       \* what a block that is no context says of its rule
  Value,        \* the constants a select may compare
  Condition,    \* the expressions that are no constants
  MaxBlock,     \* bound: no client makes a block once this many exist
  EqualSiblings, \* TRUE: clients replace a block next to one that equals it
  ExpressionFirst \* TRUE: clients pass the expression among the operands too

ASSUME MaxBlockAssumption == MaxBlock \in Nat
ASSUME NoRuleAssumption == NoRule \notin Rule
ASSUME ConventionAssumption == EqualSiblings \in BOOLEAN /\ ExpressionFirst \in BOOLEAN

\* The pass makes at most one more block for every block of a client.
Block == 1 .. 2 * MaxBlock
Null == 0

VARIABLES
  made,     \* how many blocks exist
  kind,     \* what name() returns: "par", "seq", "statement" or "branch"
  parent,   \* m_parent
  scope,    \* m_scope
  blocks,   \* m_blocks
  select,   \* the select instruction of a branch: << >>, or << it >>
  skips,    \* the statements whose instruction is a skip
  context,  \* m_context of the rules
  ruleOf    \* m_rule of the parallel blocks

treeVars == << made, kind, parent, scope, blocks, select, skips, context, ruleOf >>

SemanticsKind == {"par", "seq"}
StatementKind == {"statement", "branch"}
IsSemantics(b) == b # Null /\ kind[b] \in SemanticsKind

Constant(v) == [is |-> "constant", of |-> v]
Dynamic(x) == [is |-> "dynamic", of |-> x]
Reference(b) == [is |-> "block", of |-> b]
Expression == { Constant(v) : v \in Value } \cup { Dynamic(x) : x \in Condition }
Select(e, vs) == [expression |-> e, values |-> vs]

\* m_operands of the select: the constructor hands the arms to Instruction,
\* but not the expression.
Operands(b) ==
  LET s == select[b][1]
      arms == [i \in DOMAIN s.values |-> << Constant(s.values[i]), Reference(blocks[b][i]) >>]
  IN (IF ExpressionFirst THEN << s.expression >> ELSE << >>) \o FlattenSeq(arms)

\* No other block of the list has the kind of b.
Alone(b) == \A c \in Range(blocks[parent[b]]) : kind[c] = kind[b] => c = b

\* The blocks below b, itself included, and those of a rule.
Below(b) ==
  LET level[n \in 0 .. made] ==
        IF n = 0 THEN {b}
        ELSE level[n - 1] \cup UNION { Range(blocks[c]) : c \in level[n - 1] }
  IN level[made]
Tree(r) == IF context[r] = Null THEN {} ELSE Below(context[r])
Trees == UNION { Tree(r) : r \in Rule }

-----------------------------------------------------------------------------
TreeInit ==
  /\ made = 0
  /\ kind = [b \in Block |-> "none"]
  /\ parent = [b \in Block |-> Null]
  /\ scope = [b \in Block |-> Null]
  /\ blocks = [b \in Block |-> << >>]
  /\ select = [b \in Block |-> << >>]
  /\ skips = {}
  /\ context = [r \in Rule |-> Null]
  /\ ruleOf = [b \in Block |-> NoRule]

\* Mutant of Bound: the context is not told its rule.
BoundOneWay(r, c) == ruleOf

\* Rule::setContext(): the rule and the block are bound to each other.
Bound(r, c) == [ruleOf EXCEPT ![c] = r]

\* Rule::setContext() of a block made for it; of one that has a rule it throws.
SetContext(r) ==
  /\ made < MaxBlock
  /\ context[r] = Null
  /\ made' = made + 1
  /\ kind' = [kind EXCEPT ![made'] = "par"]
  /\ context' = [context EXCEPT ![r] = made']
  /\ ruleOf' = Bound(r, made')
  /\ UNCHANGED << parent, scope, blocks, select, skips >>

\* ExecutionSemanticsBlock::add< T >()
AddNew(p, k) ==
  /\ made < MaxBlock
  /\ IsSemantics(p)
  /\ made' = made + 1
  /\ kind' = [kind EXCEPT ![made'] = k]
  /\ parent' = [parent EXCEPT ![made'] = p]
  /\ scope' = [scope EXCEPT ![made'] = p]
  /\ blocks' = [blocks EXCEPT ![p] = Append(@, made')]
  /\ UNCHANGED << select, skips, context, ruleOf >>

\* Statement::add() of a block, which asserts that the branch has a scope.
AddArm(b, k) ==
  /\ made < MaxBlock
  /\ kind[b] = "branch"
  /\ select[b] = << >>
  /\ scope[b] # Null
  /\ made' = made + 1
  /\ kind' = [kind EXCEPT ![made'] = k]
  /\ parent' = [parent EXCEPT ![made'] = b]
  /\ scope' = [scope EXCEPT ![made'] = scope[b]]
  /\ blocks' = [blocks EXCEPT ![b] = Append(@, made')]
  /\ UNCHANGED << select, skips, context, ruleOf >>

\* Statement::add< SelectInstruction >() over the arms of the branch: a block
\* among the operands is bound to the statement.
AddSelect(b, e, vs) ==
  /\ kind[b] = "branch"
  /\ select[b] = << >>
  /\ blocks[b] # << >>
  /\ Len(vs) = Len(blocks[b])
  /\ select' = [select EXCEPT ![b] = << Select(e, vs) >>]
  /\ parent' = [c \in Block |-> IF c \in Range(blocks[b]) THEN b ELSE parent[c]]
  /\ scope' = [c \in Block |-> IF c \in Range(blocks[b]) THEN scope[b] ELSE scope[c]]
  /\ UNCHANGED << made, kind, blocks, skips, context, ruleOf >>

\* Mutant of Same: the name is not compared, only the class of blocks.
SameClass(a, b) == kind[a] \in StatementKind /\ kind[b] \in StatementKind

\* Block::operator==(): values with the same id and name are equal.
Same(a, b) == kind[a] = kind[b]

\* Mutant of Anchors: to is not bound.
AnchorsCleared(f, p, from, to) == [f EXCEPT ![from] = Null]

\* ExecutionSemanticsBlock::replace(): every block of the list that equals
\* from becomes to; from alone forgets its parent and scope.
Replaced(p, from, to) ==
  [blocks EXCEPT ![p] = [i \in DOMAIN @ |-> IF Same(@[i], from) THEN to ELSE @[i]]]
Anchors(f, p, from, to) == [f EXCEPT ![from] = Null, ![to] = p]

\* replaceWith() of a listed block by a new one of kind k.  It asserts that the
\* parent is an execution semantics block.
ReplaceWith(b, k) ==
  /\ made < MaxBlock
  /\ ruleOf[b] = NoRule
  /\ IsSemantics(parent[b])
  /\ EqualSiblings \/ Alone(b)
  /\ made' = made + 1
  /\ kind' = [kind EXCEPT ![made'] = k]
  /\ blocks' = Replaced(parent[b], b, made')
  /\ parent' = Anchors(parent, parent[b], b, made')
  /\ scope' = Anchors(scope, parent[b], b, made')
  /\ UNCHANGED << select, skips, context, ruleOf >>

\* The context of a rule that has its context replaced by block n: a block of
\* another kind is put into a new parallel block.
Wrapper(n, k) == IF k = "par" THEN n ELSE n + 1

\* ParallelBlock::replaceWith() of the context of a rule: a Wrapper is
\* bound to the rule.  The old context keeps its rule, and can be replaced again.
ReplaceContext(b, k) ==
  /\ ruleOf[b] # NoRule
  /\ LET n == made + 1
         c == Wrapper(n, k)
     IN
       /\ c <= MaxBlock
       /\ made' = c
       /\ kind' = [kind EXCEPT ![c] = "par", ![n] = k]
       /\ parent' = [parent EXCEPT ![n] = IF c = n THEN Null ELSE c]
       /\ scope' = [scope EXCEPT ![n] = IF c = n THEN Null ELSE c]
       /\ blocks' = [blocks EXCEPT ![c] = IF c = n THEN << >> ELSE << n >>]
       /\ context' = [context EXCEPT ![ruleOf[b]] = c]
       /\ ruleOf' = Bound(ruleOf[b], c)
  /\ UNCHANGED << select, skips >>

TreeNext ==
  \/ \E r \in Rule : SetContext(r)
  \/ \E p \in Trees, k \in SemanticsKind \cup StatementKind : AddNew(p, k)
  \/ \E b \in Trees, k \in SemanticsKind : AddArm(b, k)
  \/ \E b \in Trees, e \in Expression : \E vs \in [1 .. Len(blocks[b]) -> Value] :
       AddSelect(b, e, vs)
  \/ \E b \in Trees, k \in SemanticsKind \cup StatementKind : ReplaceWith(b, k)
  \/ \E b \in 1 .. made, k \in SemanticsKind \cup StatementKind : ReplaceContext(b, k)

TreeSpec == TreeInit /\ [][TreeNext]_treeVars

-----------------------------------------------------------------------------
(* ConsistencyCheckPass *)

\* verify(), for the parts of it that depend on the tree.
Verified(b) ==
  /\ kind[b] \in StatementKind => parent[b] # Null /\ scope[b] # Null
  /\ kind[b] = "branch" => select[b] # << >>
  /\ kind[b] \in SemanticsKind =>
       /\ ruleOf[b] = NoRule => parent[b] # Null /\ scope[b] # Null
       /\ blocks[b] # << >>

\* visit( Rule ): TRUE when no error is counted.  What visit( SelectInstruction )
\* finds wrong is logged only.
Consistent(r) ==
  /\ context[r] # Null
  /\ ruleOf[context[r]] = r
  /\ \A b \in Tree(r) : Verified(b)

-----------------------------------------------------------------------------
(* Properties *)

\* replaceWith() and the traversals rely on what a block says of its place: in
\* the tree of a rule the parent of a block is the one that lists it, and its
\* scope the innermost execution semantics block around it, although blocks
\* are moved between lists and only the replaced one is cleared.
Anchored ==
  \A p \in Trees : \A b \in Range(blocks[p]) :
    /\ parent[b] = p
    /\ scope[b] = IF IsSemantics(p) THEN p ELSE scope[p]

\* No block has two places in the trees: its statements are executed once.
ListedOnce ==
  \A p, q \in Trees : \A i \in DOMAIN blocks[p], j \in DOMAIN blocks[q] :
    blocks[p][i] = blocks[q][j] => p = q /\ i = j

\* A rule and its context agree on each other, and the context is a parallel block
\* that no block lists, whichever blocks a context has been replaced by.
ContextsBound ==
  \A r \in Rule : context[r] # Null =>
    /\ kind[context[r]] = "par" /\ ruleOf[context[r]] = r
    /\ \A p \in Trees : context[r] \notin Range(blocks[p])
=============================================================================
