-------------------------- MODULE BranchElimination --------------------------
(***************************************************************************)
(* BranchEliminationPass::optimize(): a post-order traversal of a rule     *)
(* (TraversalVisitor) whose callback replaces the branch it is inside of,  *)
(* in the very list the traversal is iterating over.  The clients build a  *)
(* rule first; the pass runs only on rules ConsistencyCheckPass accepts.   *)
(*                                                                         *)
(* The call stack of the traversal is explicit: a frame is a block and the *)
(* position in its list, position 0 being its own instructions, or its     *)
(* entry statement.                                                        *)
(***************************************************************************)
EXTENDS BlockTree

VARIABLES
  rule,        \* the rule that is optimized, or NoRule before
  stack,       \* the frames of the traversal
  elimination, \* what optimize() returns
  meaning,     \* what the rule executed before the pass
  branches     \* the branches of the rule before the pass

passVars == << treeVars, rule, stack, elimination, meaning, branches >>

Frame(b, i) == [block |-> b, at |-> i]
Top == stack[Len(stack)]
Moved(i) == [stack EXCEPT ![Len(stack)].at = i]

IsConstant(e) == e.is = "constant"

\* The branches whose condition is known at compile time.
ConstantBranch(b) == select[b] # << >> /\ IsConstant(select[b][1].expression)

\* Under a valuation of the conditions a branch executes the first arm whose
\* value its expression has; a skip executes nothing.
Taken(b, valuation) ==
  LET s == select[b][1]
      v == IF IsConstant(s.expression) THEN s.expression.of ELSE valuation[s.expression.of]
      hits == { i \in DOMAIN blocks[b] : s.values[i] = v }
  IN IF hits = {} THEN << >> ELSE << blocks[b][Min(hits)] >>

\* The statements a rule executes, in their order.
Executed(r, valuation) ==
  LET run[b \in Block] ==
        LET inner == IF kind[b] = "branch" THEN Taken(b, valuation) ELSE blocks[b] IN
        IF kind[b] = "statement"
          THEN IF b \in skips THEN << >> ELSE << b >>
          ELSE FlattenSeq([i \in DOMAIN inner |-> run[inner[i]]])
  IN run[context[r]]

Meaning(r) == [valuation \in [Condition -> Value] |-> Executed(r, valuation)]

BranchesOf(r) == { b \in Tree(r) : kind[b] = "branch" }

-----------------------------------------------------------------------------
PassInit ==
  /\ TreeInit
  /\ rule = NoRule
  /\ stack = << >>
  /\ elimination = 0
  /\ meaning = << >>
  /\ branches = {}

\* Rules are built list by list: the order of the calls gives no other trees.
InOrder(p) == parent[made] <= p

Build ==
  /\ rule = NoRule
  /\ \/ \E r \in Rule : SetContext(r)
     \/ \E p \in Trees : InOrder(p) /\ \E k \in {"par"} \cup StatementKind : AddNew(p, k)
     \/ \E b \in Trees : InOrder(b) /\ \E k \in SemanticsKind : AddArm(b, k)
     \/ \E b \in Trees, e \in Expression : \E vs \in [1 .. Len(blocks[b]) -> Value] :
          AddSelect(b, e, vs)
  /\ UNCHANGED << rule, stack, elimination, meaning, branches >>

\* run() on an accepted rule, up to the first block of the traversal.  Unless
\* EqualSiblings, no branch the pass replaces is next to another one.
Optimize(r) ==
  /\ rule = NoRule
  /\ Consistent(r)
  /\ EqualSiblings \/ \A b \in BranchesOf(r) : ConstantBranch(b) => Alone(b)
  /\ rule' = r
  /\ stack' = << Frame(context[r], 0) >>
  /\ meaning' = Meaning(r)
  /\ branches' = BranchesOf(r)
  /\ UNCHANGED << treeVars, elimination >>

\* Mutant of Candidates: an off-by-one in the loop, which misses the last one.
CandidatesButLast(b) == { c \in 2 .. Len(Operands(b)) - 2 : c % 2 = 0 }

\* The operands the callback compares with the first one.
Candidates(b) == { c \in 2 .. Len(Operands(b)) : c % 2 = 0 }

Matches(b) == { c \in Candidates(b) : Operands(b)[c] = Operands(b)[1] }

\* Mutant of HasConstantSelect: any select is taken for one on a constant.
HasSelect(b) == select[b] # << >>

HasConstantSelect(b) == select[b] # << >> /\ IsConstant(Operands(b)[1])

\* The instructions of a block without a select on a constant change nothing.
VisitInstructions ==
  /\ stack # << >>
  /\ Top.at = 0
  /\ ~HasConstantSelect(Top.block)
  /\ stack' = Moved(1)
  /\ UNCHANGED << treeVars, rule, elimination, meaning, branches >>

\* The block after the first candidate that matches.
Arm(b) == Operands(b)[Min(Matches(b)) + 1]

\* "found constant block branch": the arm takes the place of the branch.
ReplaceByArm ==
  /\ stack # << >>
  /\ Top.at = 0
  /\ HasConstantSelect(Top.block)
  /\ Matches(Top.block) # {}
  /\ LET b == Top.block
         arm == Arm(b).of
     IN
       /\ blocks' = Replaced(parent[b], b, arm)
       /\ parent' = Anchors(parent, parent[b], b, arm)
       /\ scope' = Anchors(scope, parent[b], b, arm)
  /\ elimination' = elimination + 1
  /\ stack' = Moved(1)
  /\ UNCHANGED << made, kind, select, skips, context, ruleOf, rule, meaning, branches >>

\* "rhs not in select -> skip": a new statement takes the place of the branch.
ReplaceBySkip ==
  /\ stack # << >>
  /\ Top.at = 0
  /\ HasConstantSelect(Top.block)
  /\ Matches(Top.block) = {}
  /\ LET b == Top.block IN
       /\ made' = made + 1
       /\ kind' = [kind EXCEPT ![made'] = "statement"]
       /\ skips' = skips \cup {made'}
       /\ blocks' = Replaced(parent[b], b, made')
       /\ parent' = Anchors(parent, parent[b], b, made')
       /\ scope' = Anchors(scope, parent[b], b, made')
  /\ elimination' = elimination + 1
  /\ stack' = Moved(1)
  /\ UNCHANGED << select, context, ruleOf, rule, meaning, branches >>

\* Mutant of VisitBlock: the position is not advanced.
VisitBlockAgain ==
  /\ stack # << >>
  /\ Top.at \in DOMAIN blocks[Top.block]
  /\ stack' = Append(stack, Frame(blocks[Top.block][Top.at], 0))
  /\ UNCHANGED << treeVars, rule, elimination, meaning, branches >>

\* The next block of the list, as the list is by now.
VisitBlock ==
  /\ stack # << >>
  /\ Top.at \in DOMAIN blocks[Top.block]
  /\ stack' = Append(Moved(Top.at + 1), Frame(blocks[Top.block][Top.at], 0))
  /\ UNCHANGED << treeVars, rule, elimination, meaning, branches >>

LeaveBlock ==
  /\ stack # << >>
  /\ Top.at > Len(blocks[Top.block])
  /\ stack' = SubSeq(stack, 1, Len(stack) - 1)
  /\ UNCHANGED << treeVars, rule, elimination, meaning, branches >>

Traverse == VisitInstructions \/ ReplaceByArm \/ ReplaceBySkip \/ VisitBlock \/ LeaveBlock

PassNext == Build \/ (\E r \in Rule : Optimize(r)) \/ Traverse

PassSpec == PassInit /\ [][PassNext]_passVars

\* The pass is one sequential call: it runs as long as it has a step to take.
FairPassSpec == PassSpec /\ WF_passVars(Traverse)

-----------------------------------------------------------------------------
(* Properties *)

Done == rule # NoRule /\ stack = << >>

\* After every step of the pass the rule still executes the statements it did
\* before, in their order and under every valuation of its conditions.
MeaningPreserved == rule # NoRule => Meaning(rule) = meaning

\* optimize() returns the number of constant branches the rule had, and leaves none,
\* however deep it was: none is missed, and none is counted twice, although an arm
\* that has taken its branch's place is listed both where the traversal goes on and
\* in the branch it is inside of.
EliminationExact ==
  Done => /\ elimination = Cardinality({ b \in branches : ConstantBranch(b) })
          /\ \A b \in BranchesOf(rule) : ~ConstantBranch(b)

\* What the consistency check accepted before, it accepts after every step: the
\* passes that require it can follow.
StaysConsistent == rule # NoRule => Consistent(rule)

\* BranchEliminationPass.cpp: the pass "removes compile-time constant
\* branches".  Any other branch stays in the rule unless it was inside of one.
OnlyConstantRemoved ==
  rule # NoRule => \A b \in branches : b \in Tree(rule) \/ ConstantBranch(b)
    \/ \E c \in branches : ConstantBranch(c) /\ b \in Below(c)

\* The traversal ends although it changes the lists it iterates over.
PassTerminates == (rule # NoRule) ~> Done
=============================================================================
