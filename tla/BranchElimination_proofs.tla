------------------------ MODULE BranchElimination_proofs ------------------------
(***************************************************************************)
(* What the operations on blocks keep, for every number of rules, values,  *)
(* conditions and blocks, and what BranchEliminationPass keeps and         *)
(* returns, for every rule that clients build.                             *)
(*                                                                         *)
(* The first part is about BlockTree alone.  Its properties are about the  *)
(* trees, the blocks that the contexts reach.  What a block reaches is a   *)
(* recursive function, so induction comes first, and with it that the      *)
(* blocks below one stay in every set that is closed under the lists.  The *)
(* invariant itself is not about trees:                                    *)
(*   Typed     the types; a block that is not made lists none              *)
(*   Bindings  a block with a rule is parallel, and no block lists it      *)
(*   Places    what a list says of its blocks, for all the blocks          *)
(* Typed and Bindings are inductive for all clients, Places for clients    *)
(* that replace no block next to one that equals it: replace() puts the    *)
(* new block at every place that equals the old one's.                     *)
(*                                                                         *)
(* The second part is about the pass, under the two conditions that its    *)
(* documentation takes for granted, that no branch it replaces is next to  *)
(* another one, and that a select has its expression among its operands.   *)
(*                                                                         *)
(* The pass changes the lists it iterates over, and an arm that has taken  *)
(* the place of its branch is listed twice, so neither the trees nor the   *)
(* stack alone say what is left to do.  The invariant does with three      *)
(* sets:                                                                   *)
(*   Region  a set closed under the lists that the traversal stays in: in  *)
(*           it are all the blocks that the check has accepted, the arms   *)
(*           and skips that came later included                            *)
(*   Gone    the constant branches replaced so far, which have no parent;  *)
(*           there are as many of them as have been counted                *)
(*   Left    the other constant branches, which are in every set that      *)
(*           covers what the frames are at and is closed under the lists   *)
(*           (Covers): the traversal is going to visit them                *)
(* A list only names later blocks, so that what a block executes is a      *)
(* recursive function that exists (RunExists), and a step of the pass      *)
(* gives every block the same value as before (RunKept).                   *)
(***************************************************************************)
EXTENDS BranchElimination, NaturalNumbers_proofs, SequenceTheorems

-----------------------------------------------------------------------------
(* The blocks: BlockTree *)

USE MaxBlockAssumption, NoRuleAssumption

-----------------------------------------------------------------------------
(* The blocks below a block *)

\* The levels of the recursion of Below, down to the m-th.
Level(b, f, m) ==
  f = [n \in 0 .. m |->
         IF n = 0 THEN {b}
         ELSE f[n - 1] \cup UNION { Range(blocks[c]) : c \in f[n - 1] }]

\* They exist, so f of one is the recursive function of Below.
LEMMA LevelsExist ==
  ASSUME NEW b
  PROVE  \A m \in Nat : \E f : Level(b, f, m)
<1> DEFINE N == { m \in Nat : \E f : Level(b, f, m) }
<1>1. 0 \in N
  <2> DEFINE f == [n \in 0 .. 0 |-> {b}]
  <2>1. Level(b, f, 0)
    BY DEF Level
  <2>2. QED
    BY <2>1
<1>2. ASSUME NEW m \in Nat, m \in N
      PROVE  m + 1 \in N
  <2>1. PICK f : Level(b, f, m)
    BY <1>2
  <2>2. /\ f = [n \in 0 .. m |-> f[n]]
        /\ \A n \in 0 .. m :
             f[n] = IF n = 0 THEN {b}
                    ELSE f[n - 1] \cup UNION { Range(blocks[c]) : c \in f[n - 1] }
    BY <2>1 DEF Level
  <2> DEFINE last == f[m] \cup UNION { Range(blocks[c]) : c \in f[m] }
             g == [n \in 0 .. m + 1 |-> IF n = m + 1 THEN last ELSE f[n]]
  <2>3. ASSUME NEW n \in 0 .. m + 1
        PROVE  g[n] = IF n = 0 THEN {b}
                      ELSE g[n - 1] \cup UNION { Range(blocks[c]) : c \in g[n - 1] }
    <3>1. CASE n = m + 1
      <4>1. g[n] = last /\ g[n - 1] = f[m] /\ n # 0
        BY <3>1
      <4>2. QED
        BY <4>1
    <3>2. CASE n # m + 1
      <4>1. n \in 0 .. m /\ g[n] = f[n]
        BY <3>2
      <4>2. n # 0 => n - 1 \in 0 .. m /\ g[n - 1] = f[n - 1]
        BY <4>1
      <4> HIDE DEF g
      <4>3. QED
        BY <2>2, <4>1, <4>2
    <3>3. QED
      BY <3>1, <3>2
  <2>4. Level(b, g, m + 1)
    <3>1. g = [n \in 0 .. m + 1 |-> g[n]]
      OBVIOUS
    <3> HIDE DEF g
    <3>2. QED
      BY <2>3, <3>1 DEF Level
  <2>5. QED
    BY <2>4
<1> HIDE DEF N
<1>3. Nat \subseteq N
  BY <1>1, <1>2, SetInduction
<1>4. QED
  BY <1>3 DEF N

LEMMA BelowIsLevel ==
  ASSUME NEW b, made \in Nat
  PROVE  \E f : Level(b, f, made) /\ Below(b) = f[made]
<1> DEFINE f == CHOOSE g : Level(b, g, made)
<1>1. Level(b, f, made)
  BY LevelsExist
<1>2. Below(b) = f[made]
  BY DEF Below, Level
<1>3. QED
  BY <1>1, <1>2

\* Below(b) is inside any set that b is in and no block of it lists a block outside of.
LEMMA BelowInside ==
  ASSUME made \in Nat, NEW X, NEW b \in X, \A c \in X : Range(blocks[c]) \subseteq X
  PROVE  Below(b) \subseteq X
<1>1. PICK f : Level(b, f, made) /\ Below(b) = f[made]
  BY BelowIsLevel
<1>2. \A n \in 0 .. made :
        f[n] = IF n = 0 THEN {b} ELSE f[n - 1] \cup UNION { Range(blocks[c]) : c \in f[n - 1] }
  BY <1>1 DEF Level
<1> DEFINE N == { n \in Nat : n <= made => f[n] \subseteq X }
<1>3. 0 \in N
  <2>1. 0 \in 0 .. made
    OBVIOUS
  <2>2. f[0] = {b}
    BY <1>2, <2>1
  <2>3. QED
    BY <2>2
<1>4. ASSUME NEW n \in Nat, n \in N
      PROVE  n + 1 \in N
  <2>1. SUFFICES ASSUME n + 1 <= made
                 PROVE  f[n + 1] \subseteq X
    OBVIOUS
  <2>2. f[n] \subseteq X
    BY <1>4, <2>1
  <2>3. f[n + 1] = f[n] \cup UNION { Range(blocks[c]) : c \in f[n] }
    <3> DEFINE k == n + 1
    <3>1. k \in 0 .. made /\ k # 0 /\ k - 1 = n
      BY <2>1
    <3> HIDE DEF k
    <3>2. f[k] = f[k - 1] \cup UNION { Range(blocks[c]) : c \in f[k - 1] }
      BY <1>2, <3>1
    <3>3. QED
      BY <3>1, <3>2 DEF k
  <2>4. QED
    BY <2>2, <2>3
<1> HIDE DEF N
<1>5. Nat \subseteq N
  BY <1>3, <1>4, SetInduction
<1>6. QED
  BY <1>1, <1>5 DEF N

(* The shape of the state *)

\* The types of the state; blocks that are not made yet have no blocks.
Typed ==
  /\ made \in 0 .. MaxBlock
  /\ kind \in [Block -> SemanticsKind \cup StatementKind \cup {"none"}]
  /\ parent \in [Block -> 0 .. made]
  /\ scope \in [Block -> 0 .. made]
  /\ DOMAIN blocks = Block /\ blocks = [p \in Block |-> blocks[p]]
  /\ \A p \in Block : blocks[p] \in Seq(1 .. made)
  /\ \A p \in Block : p > made => blocks[p] = << >>
  /\ context \in [Rule -> 0 .. made]
  /\ ruleOf \in [Block -> Rule \cup {NoRule}]

\* A block with a rule is a parallel block that no block lists; the context of a rule
\* has that rule.
Bindings ==
  /\ \A b \in Block : ruleOf[b] # NoRule =>
       b <= made /\ kind[b] = "par" /\ \A p \in Block : b \notin Range(blocks[p])
  /\ \A r \in Rule : context[r] # Null => ruleOf[context[r]] = r

\* The place of a block that p lists.  A branch that has been replaced has no scope any
\* more, though its arms still do.
Place(p, b) ==
  /\ parent[b] = p
  /\ IsSemantics(p) => scope[b] = p
  /\ ~IsSemantics(p) /\ scope[p] # Null => scope[b] = scope[p]

Distinct(list) == \A i, j \in DOMAIN list : list[i] = list[j] => i = j

Places ==
  \A p \in Block : Distinct(blocks[p]) /\ \A b \in Range(blocks[p]) : Place(p, b)

\* Facts about lists of blocks.
LEMMA ListFacts ==
  /\ \A S : \A s \in Seq(S) : Range(s) \subseteq S /\ DOMAIN s = 1 .. Len(s) /\ Len(s) \in Nat
  /\ Range(<< >>) = {}
  /\ \A x : Range(<< x >>) = {x}
  /\ \A s : \A i \in DOMAIN s : s[i] \in Range(s)
  /\ \A s : \A x \in Range(s) : \E i \in DOMAIN s : s[i] = x
<1>1. \A S : \A s \in Seq(S) : Range(s) \subseteq S /\ DOMAIN s = 1 .. Len(s) /\ Len(s) \in Nat
  BY DEF Range
<1>2. Range(<< >>) = {}
  BY DEF Range
<1>3. ASSUME NEW x PROVE Range(<< x >>) = {x}
  <2>1. DOMAIN << x >> = {1} /\ << x >>[1] = x
    OBVIOUS
  <2>2. QED
    BY <2>1 DEF Range
<1>4. /\ \A s : \A i \in DOMAIN s : s[i] \in Range(s)
      /\ \A s : \A x \in Range(s) : \E i \in DOMAIN s : s[i] = x
  BY DEF Range
<1>5. QED
  BY <1>1, <1>2, <1>3, <1>4

LEMMA AppendFacts ==
  ASSUME NEW S, NEW s \in Seq(S), NEW x
  PROVE  /\ \A T : S \subseteq T /\ x \in T => Append(s, x) \in Seq(T)
         /\ Range(Append(s, x)) = Range(s) \cup {x}
         /\ x \notin Range(s) /\ Distinct(s) => Distinct(Append(s, x))
<1>1. /\ DOMAIN s = 1 .. Len(s) /\ Len(s) \in Nat
      /\ DOMAIN Append(s, x) = 1 .. Len(s) + 1
      /\ \A i \in 1 .. Len(s) : Append(s, x)[i] = s[i] /\ s[i] \in S
      /\ Append(s, x)[Len(s) + 1] = x
  OBVIOUS
<1>2. ASSUME NEW T, S \subseteq T, x \in T
      PROVE  Append(s, x) \in Seq(T)
  BY <1>1, <1>2
<1>3. Range(Append(s, x)) = Range(s) \cup {x}
  BY <1>1 DEF Range
<1>4. ASSUME x \notin Range(s), Distinct(s)
      PROVE  Distinct(Append(s, x))
  <2> DEFINE t == Append(s, x)
  <2>1. SUFFICES ASSUME NEW i \in 1 .. Len(s) + 1, NEW j \in 1 .. Len(s) + 1, t[i] = t[j]
                 PROVE  i = j
    BY <1>1 DEF Distinct
  <2>2. \A k \in 1 .. Len(s) : s[k] # x
    BY <1>1, <1>4 DEF Range
  <2> HIDE DEF t
  <2>3. /\ \A k \in 1 .. Len(s) : t[k] = s[k]
        /\ t[Len(s) + 1] = x
    BY <1>1 DEF t
  <2>4. CASE i = Len(s) + 1 \/ j = Len(s) + 1
    BY <1>1, <2>1, <2>2, <2>3, <2>4
  <2>5. CASE i \in 1 .. Len(s) /\ j \in 1 .. Len(s)
    BY <1>1, <1>4, <2>1, <2>3, <2>5 DEF Distinct
  <2>6. QED
    BY <1>1, <2>1, <2>4, <2>5
<1>5. QED
  BY <1>2, <1>3, <1>4

\* The facts about numbers of blocks that the types give.
LEMMA MadeFacts ==
  ASSUME Typed
  PROVE  /\ made \in Nat /\ made <= MaxBlock /\ MaxBlock \in Nat
         /\ Block \subseteq Nat \ {0}
         /\ 1 .. made \subseteq Block
         /\ made < MaxBlock => made + 1 \in Block /\ made + 1 \notin 1 .. made
         /\ \A p \in Block : Range(blocks[p]) \subseteq 1 .. made
         /\ \A p \in Block : p > made => Range(blocks[p]) = {}
         /\ \A p \in Block : Range(blocks[p]) # {} => p \in 1 .. made
<1>1. /\ made \in Nat /\ made <= MaxBlock /\ MaxBlock \in Nat
      /\ Block \subseteq Nat \ {0} /\ 1 .. made \subseteq Block
      /\ made < MaxBlock => made + 1 \in Block /\ made + 1 \notin 1 .. made
  BY DEF Typed, Block
<1>2. \A p \in Block : Range(blocks[p]) \subseteq 1 .. made
  BY ListFacts DEF Typed
<1>3. \A p \in Block : p > made => Range(blocks[p]) = {}
  BY ListFacts DEF Typed
<1>4. \A p \in Block : Range(blocks[p]) # {} => p \in 1 .. made
  BY <1>1, <1>3
<1>5. QED
  BY <1>1, <1>2, <1>3, <1>4

\* The trees are made of blocks.
LEMMA TreesMade ==
  ASSUME Typed
  PROVE  Trees \subseteq 1 .. made
<1>1. made \in Nat /\ \A c \in 1 .. made : Range(blocks[c]) \subseteq 1 .. made
  BY MadeFacts
<1>2. ASSUME NEW r \in Rule, context[r] # Null
      PROVE  Below(context[r]) \subseteq 1 .. made
  <2>1. context[r] \in 1 .. made
    BY <1>1, <1>2 DEF Typed, Null
  <2> HIDE DEF Below
  <2>2. QED
    BY <1>1, <2>1, BelowInside
<1>3. QED
  BY <1>2 DEF Trees, Tree

\* In a tree, a block that is no execution semantics block has a scope.
LEMMA TreesScoped ==
  ASSUME Typed, Bindings, Places
  PROVE  \A p \in Trees : IsSemantics(p) \/ scope[p] # Null
<1> DEFINE X == { p \in 1 .. made : IsSemantics(p) \/ scope[p] # Null }
<1>1. ASSUME NEW p \in X
      PROVE  Range(blocks[p]) \subseteq X
  <2>1. SUFFICES ASSUME NEW b \in Range(blocks[p])
                 PROVE  b \in X
    OBVIOUS
  <2>2. p \in Block /\ b \in 1 .. made /\ p # Null
    BY MadeFacts DEF Null
  <2>3. Place(p, b)
    BY <2>2 DEF Places
  <2>4. scope[b] # Null
    BY <2>2, <2>3 DEF Place
  <2>5. QED
    BY <2>2, <2>4
<1>2. ASSUME NEW r \in Rule, context[r] # Null
      PROVE  context[r] \in X
  <2>1. context[r] \in 1 .. made /\ context[r] \in Block
    BY <1>2, MadeFacts DEF Typed, Null
  <2>2. ruleOf[context[r]] # NoRule
    BY <1>2 DEF Bindings
  <2>3. kind[context[r]] = "par"
    BY <2>1, <2>2 DEF Bindings
  <2>4. QED
    BY <1>2, <2>1, <2>3 DEF IsSemantics, SemanticsKind
<1> HIDE DEF X
<1>3. ASSUME NEW r \in Rule, context[r] # Null
      PROVE  Below(context[r]) \subseteq X
  <2>1. made \in Nat
    BY MadeFacts
  <2>2. QED
    BY <1>1, <1>2, <1>3, <2>1, BelowInside
<1>4. Trees \subseteq X
  BY <1>3 DEF Trees, Tree
<1>5. QED
  BY <1>4 DEF X

\* The properties from the invariant.
LEMMA InvariantContexts ==
  ASSUME Typed, Bindings
  PROVE  ContextsBound
<1>1. SUFFICES ASSUME NEW r \in Rule, context[r] # Null
               PROVE  /\ kind[context[r]] = "par" /\ ruleOf[context[r]] = r
                      /\ \A p \in Trees : context[r] \notin Range(blocks[p])
  BY DEF ContextsBound
<1>2. context[r] \in Block /\ ruleOf[context[r]] = r /\ r # NoRule
  BY <1>1, MadeFacts DEF Typed, Null, Bindings
<1>3. Trees \subseteq Block
  BY TreesMade, MadeFacts
<1>4. QED
  BY <1>2, <1>3 DEF Bindings

LEMMA InvariantPlaces ==
  ASSUME Typed, Bindings, Places
  PROVE  Anchored /\ ListedOnce
<1>1. Trees \subseteq Block
  BY TreesMade, MadeFacts
<1>2. Anchored
  BY <1>1, TreesScoped DEF Anchored, Places, Place
<1>3. ASSUME NEW p \in Trees, NEW q \in Trees,
             NEW i \in DOMAIN blocks[p], NEW j \in DOMAIN blocks[q],
             blocks[p][i] = blocks[q][j]
      PROVE  p = q /\ i = j
  <2> DEFINE b == blocks[p][i]
  <2>1. b \in Range(blocks[p]) /\ b \in Range(blocks[q])
    BY <1>3, ListFacts
  <2>2. parent[b] = p /\ parent[b] = q
    BY <1>1, <2>1 DEF Places, Place
  <2>3. QED
    BY <1>1, <1>3, <2>2 DEF Places, Distinct
<1>4. QED
  BY <1>2, <1>3 DEF ListedOnce

LEMMA WiderSeq ==
  ASSUME NEW S, NEW T, S \subseteq T, NEW s \in Seq(S)
  PROVE  s \in Seq(T)
  OBVIOUS

LEMMA FunctionIsSequence ==
  ASSUME NEW S, NEW n \in Nat, NEW t, t = [i \in 1 .. n |-> t[i]],
         \A i \in 1 .. n : t[i] \in S
  PROVE  t \in Seq(S)
  OBVIOUS

-----------------------------------------------------------------------------
(* Every operation keeps the invariant *)

\* A block that was made keeps its kind.
LEMMA SemanticsKept ==
  ASSUME NEW p, kind'[p] = kind[p]
  PROVE  IsSemantics(p)' <=> IsSemantics(p)
  BY DEF IsSemantics

\* So does a place, also when the block that lists it loses its scope.
LEMMA PlaceKept ==
  ASSUME NEW p, NEW b, Place(p, b),
         kind'[p] = kind[p], parent'[b] = parent[b], scope'[b] = scope[b],
         scope'[p] = scope[p] \/ scope'[p] = Null
  PROVE  Place(p, b)'
  BY SemanticsKept DEF Place, Null

\* Rule::setContext().
LEMMA SetContextKeeps ==
  ASSUME Typed, Bindings, NEW r \in Rule, SetContext(r)
  PROVE  Typed' /\ Bindings' /\ (Places => Places')
<1> DEFINE n == made + 1
<1>1. /\ n \in Block /\ n \notin 1 .. made /\ made \in Nat /\ n \in Nat \ {0}
      /\ Block \subseteq Nat \ {0} /\ 1 .. made \subseteq Block
  BY MadeFacts DEF SetContext
<1>2. /\ made' = n /\ made' \in 0 .. MaxBlock
      /\ kind' = [kind EXCEPT ![n] = "par"]
      /\ context' = [context EXCEPT ![r] = n]
      /\ ruleOf' = [ruleOf EXCEPT ![n] = r]
      /\ UNCHANGED << parent, scope, blocks >>
  BY <1>1, MadeFacts DEF SetContext, Bound
<1> HIDE DEF n
<1>3. /\ \A q \in Block : kind'[q] = IF q = n THEN "par" ELSE kind[q]
      /\ \A q \in Block : ruleOf'[q] = IF q = n THEN r ELSE ruleOf[q]
      /\ \A q \in Rule : context'[q] = IF q = r THEN n ELSE context[q]
  BY <1>1, <1>2 DEF Typed
<1>4. Typed'
  <2>1. 0 .. made \subseteq 0 .. made' /\ 1 .. made \subseteq 1 .. made' /\ n \in 0 .. made'
    BY <1>1, <1>2 DEF n
  <2>2. /\ kind' \in [Block -> SemanticsKind \cup StatementKind \cup {"none"}]
        /\ context' \in [Rule -> 0 .. made']
        /\ ruleOf' \in [Block -> Rule \cup {NoRule}]
    BY <1>2, <2>1 DEF Typed, SemanticsKind
  <2>3. /\ parent' \in [Block -> 0 .. made'] /\ scope' \in [Block -> 0 .. made']
    BY <1>2, <2>1 DEF Typed
  <2>4. \A p \in Block : blocks'[p] \in Seq(1 .. made')
    BY <1>2, <2>1, WiderSeq DEF Typed
  <2>5. \A p \in Block : p > made' => p > made
    BY <1>1, <1>2 DEF n
  <2>6. QED
    BY <1>2, <2>2, <2>3, <2>4, <2>5 DEF Typed
<1>5. Bindings'
  <2>1. \A p \in Block : n \notin Range(blocks[p])
    BY <1>1, MadeFacts
  <2>2. ASSUME NEW b \in Block, ruleOf'[b] # NoRule
        PROVE  b <= made' /\ kind'[b] = "par" /\ \A p \in Block : b \notin Range(blocks'[p])
    BY <1>1, <1>2, <1>3, <2>1, <2>2 DEF Bindings, n
  <2>3. ASSUME NEW q \in Rule, context'[q] # Null
        PROVE  ruleOf'[context'[q]] = q
    <3>1. CASE q = r
      BY <1>1, <1>3, <3>1
    <3>2. CASE q # r
      <4>1. context'[q] = context[q] /\ context[q] \in 1 .. made
        BY <1>1, <1>3, <2>3, <3>2 DEF Typed, Null
      <4>2. QED
        BY <1>1, <1>3, <2>3, <4>1 DEF Bindings
    <3>3. QED
      BY <3>1, <3>2
  <2>4. QED
    BY <2>2, <2>3 DEF Bindings, Null
<1>6. ASSUME Places
      PROVE  Places'
  <2>1. ASSUME NEW p \in Block, NEW b \in Range(blocks'[p])
        PROVE  Place(p, b)'
    <3>1. p \in 1 .. made /\ b \in Range(blocks[p])
      BY <1>2, <2>1, MadeFacts
    <3>2. Place(p, b)
      BY <1>6, <3>1 DEF Places
    <3>3. kind'[p] = kind[p]
      BY <1>1, <1>3, <3>1
    <3>4. QED
      BY <1>2, <3>2, <3>3, PlaceKept
  <2>2. QED
    BY <1>2, <1>6, <2>1 DEF Places
<1>7. QED
  BY <1>4, <1>5, <1>6

Kinds == SemanticsKind \cup StatementKind

\* What an operation may do to the types.
LEMMA TypedNext ==
  ASSUME Typed, made' \in made .. MaxBlock,
         kind' \in [Block -> Kinds \cup {"none"}],
         parent' \in [Block -> 0 .. made'], scope' \in [Block -> 0 .. made'],
         context' \in [Rule -> 0 .. made'],
         ruleOf' \in [Block -> Rule \cup {NoRule}],
         DOMAIN blocks' = Block, blocks' = [p \in Block |-> blocks'[p]],
         \A p \in Block : \/ blocks'[p] = blocks[p]
                          \/ p <= made' /\ blocks'[p] \in Seq(1 .. made')
  PROVE  Typed'
<1>1. made' \in Nat /\ made \in Nat /\ made <= made' /\ Block \subseteq Nat
  BY MadeFacts
<1>2. 1 .. made \subseteq 1 .. made' /\ made' \in 0 .. MaxBlock
  BY <1>1
<1>3. \A p \in Block : blocks'[p] \in Seq(1 .. made')
  BY <1>2, WiderSeq DEF Typed
<1>4. \A p \in Block : p > made' => blocks'[p] = << >>
  BY <1>1 DEF Typed
<1>5. QED
  BY <1>2, <1>3, <1>4 DEF Typed, Kinds

\* Functions that keep their values on the blocks that exist, and get good ones for others.
LEMMA AnchorsTyped ==
  ASSUME Typed, NEW f \in [Block -> 0 .. made], NEW m \in made .. MaxBlock, NEW g,
         g = [q \in Block |-> g[q]],
         \A q \in Block : g[q] = f[q] \/ g[q] \in 0 .. m
  PROVE  g \in [Block -> 0 .. m]
<1>1. 0 .. made \subseteq 0 .. m
  BY MadeFacts
<1>2. QED
  BY <1>1

\* Lists get new blocks only, and no rule gets a context.
LEMMA BindingsKept ==
  ASSUME Typed, Bindings, made' \in Nat, made <= made',
         \A q \in 1 .. made : kind'[q] = kind[q],
         UNCHANGED << context, ruleOf >>,
         \A p \in Block : \A b \in Range(blocks'[p]) : b \in Range(blocks[p]) \/ b > made
  PROVE  Bindings'
<1>1. ASSUME NEW b \in Block, ruleOf[b] # NoRule
      PROVE  b <= made' /\ kind'[b] = "par" /\ \A p \in Block : b \notin Range(blocks'[p])
  <2>1. b <= made /\ kind[b] = "par" /\ \A p \in Block : b \notin Range(blocks[p])
    BY <1>1 DEF Bindings
  <2>2. b \in 1 .. made /\ b \in Nat /\ made \in Nat
    BY <2>1, MadeFacts
  <2>3. QED
    BY <2>1, <2>2
<1>2. QED
  BY <1>1 DEF Bindings

\* A new block n at the end of the list of p.
LEMMA ListsNew ==
  ASSUME Typed, NEW n, n = made + 1, n \in Block, NEW p \in 1 .. made,
         made' = n, made' <= MaxBlock,
         blocks' = [blocks EXCEPT ![p] = Append(@, n)]
  PROVE  /\ DOMAIN blocks' = Block /\ blocks' = [q \in Block |-> blocks'[q]]
         /\ \A q \in Block : blocks'[q] = IF q = p THEN Append(blocks[p], n) ELSE blocks[q]
         /\ blocks'[p] \in Seq(1 .. made') /\ p <= made'
         /\ Range(blocks'[p]) = Range(blocks[p]) \cup {n}
         /\ Distinct(blocks[p]) => Distinct(blocks'[p])
         /\ \A q \in Block : \A b \in Range(blocks'[q]) : b \in Range(blocks[q]) \/ b > made
<1>1. /\ made \in Nat /\ p \in Block /\ n > made /\ n \in 1 .. made' /\ p <= made'
      /\ 1 .. made \subseteq 1 .. made'
  BY MadeFacts
<1>2. /\ DOMAIN blocks' = Block /\ blocks' = [q \in Block |-> blocks'[q]]
      /\ \A q \in Block : blocks'[q] = IF q = p THEN Append(blocks[p], n) ELSE blocks[q]
  BY <1>1 DEF Typed
<1>3. blocks[p] \in Seq(1 .. made) /\ n \notin Range(blocks[p])
  BY <1>1, MadeFacts DEF Typed
<1>4. blocks'[p] = Append(blocks[p], n)
  BY <1>1, <1>2
<1>5. /\ blocks'[p] \in Seq(1 .. made')
      /\ Range(blocks'[p]) = Range(blocks[p]) \cup {n}
      /\ Distinct(blocks[p]) => Distinct(blocks'[p])
  <2> DEFINE s == blocks[p]
             T == 1 .. made'
  <2>1. 1 .. made \subseteq T /\ n \in T /\ s \in Seq(1 .. made) /\ n \notin Range(s)
    BY <1>1, <1>3
  <2> HIDE DEF s, T
  <2>2. /\ Append(s, n) \in Seq(T)
        /\ Range(Append(s, n)) = Range(s) \cup {n}
        /\ Distinct(s) => Distinct(Append(s, n))
    BY <2>1, AppendFacts
  <2>3. QED
    BY <1>4, <2>2 DEF s, T
<1>6. QED
  BY <1>1, <1>2, <1>5

LEMMA PlacesOfNew ==
  ASSUME Typed, Places, NEW n, n = made + 1, n \in Block, NEW p \in 1 .. made,
         made' = n, made' <= MaxBlock,
         blocks' = [blocks EXCEPT ![p] = Append(@, n)],
         \A q \in 1 .. made : kind'[q] = kind[q] /\ parent'[q] = parent[q] /\ scope'[q] = scope[q],
         parent'[n] = p,
         IsSemantics(p) => scope'[n] = p,
         ~IsSemantics(p) => scope'[n] = scope[p]
  PROVE  Places'
<1>1. p \in Block /\ made \in Nat
  BY MadeFacts
<1>2. ASSUME NEW q \in Block, NEW b \in Range(blocks'[q])
      PROVE  Place(q, b)'
  <2>1. CASE b \in Range(blocks[q])
    <3>1. q \in 1 .. made /\ b \in 1 .. made /\ Place(q, b)
      BY <2>1, MadeFacts DEF Places
    <3>2. QED
      BY <3>1, PlaceKept
  <2>2. CASE b \notin Range(blocks[q])
    <3>1. q = p /\ b = n
      <4>1. /\ q # p => blocks'[q] = blocks[q]
            /\ Range(blocks'[p]) = Range(blocks[p]) \cup {n}
        BY ListsNew
      <4>2. QED
        BY <1>2, <2>2, <4>1
    <3>2. IsSemantics(p)' <=> IsSemantics(p)
      BY SemanticsKept
    <3>3. QED
      BY <3>1, <3>2 DEF Place
  <2>3. QED
    BY <2>1, <2>2
<1>3. ASSUME NEW q \in Block
      PROVE  Distinct(blocks'[q])
  BY ListsNew DEF Places
<1>4. QED
  BY <1>2, <1>3 DEF Places, Distinct

\* ExecutionSemanticsBlock::add< T >() and Statement::add() of a block.
LEMMA AddKeeps ==
  ASSUME Typed, Bindings, NEW p \in 1 .. made, NEW k \in Kinds, NEW s \in 1 .. made,
         made < MaxBlock, made' = made + 1,
         kind' = [kind EXCEPT ![made'] = k],
         parent' = [parent EXCEPT ![made'] = p],
         scope' = [scope EXCEPT ![made'] = s],
         blocks' = [blocks EXCEPT ![p] = Append(@, made')],
         UNCHANGED << context, ruleOf >>,
         IsSemantics(p) => s = p,
         ~IsSemantics(p) => s = scope[p]
  PROVE  Typed' /\ Bindings' /\ (Places => Places')
<1> DEFINE n == made + 1
<1>1. /\ n \in Block /\ n \notin 1 .. made /\ made \in Nat /\ MaxBlock \in Nat
      /\ made <= made' /\ made' <= MaxBlock
      /\ Block \subseteq Nat \ {0} /\ 1 .. made \subseteq Block
      /\ made' = n /\ made' \in made .. MaxBlock /\ made' \in Nat
  BY MadeFacts
<1>2. n = made + 1
  OBVIOUS
<1> HIDE DEF n
<1>3. /\ \A q \in Block : kind'[q] = IF q = n THEN k ELSE kind[q]
      /\ \A q \in Block : parent'[q] = IF q = n THEN p ELSE parent[q]
      /\ \A q \in Block : scope'[q] = IF q = n THEN s ELSE scope[q]
      /\ kind' \in [Block -> Kinds \cup {"none"}]
  BY <1>1 DEF Typed, Kinds
<1>4. \A q \in 1 .. made : kind'[q] = kind[q] /\ parent'[q] = parent[q] /\ scope'[q] = scope[q]
  BY <1>1, <1>3
<1>5. blocks' = [blocks EXCEPT ![p] = Append(@, n)]
  BY <1>1
<1>6. Typed'
  <2>1. p \in 0 .. made' /\ s \in 0 .. made'
    BY <1>1
  <2>2. parent' = [q \in Block |-> parent'[q]] /\ scope' = [q \in Block |-> scope'[q]]
    BY DEF Typed
  <2>3. parent' \in [Block -> 0 .. made'] /\ scope' \in [Block -> 0 .. made']
    <3>1. /\ parent \in [Block -> 0 .. made] /\ scope \in [Block -> 0 .. made]
          /\ \A q \in Block : parent'[q] = parent[q] \/ parent'[q] \in 0 .. made'
          /\ \A q \in Block : scope'[q] = scope[q] \/ scope'[q] \in 0 .. made'
      BY <1>3, <2>1 DEF Typed
    <3>2. parent' \in [Block -> 0 .. made']
      BY <1>1, <2>2, <3>1, AnchorsTyped
    <3>3. QED
      BY <1>1, <2>2, <3>1, <3>2, AnchorsTyped
  <2>4. context' \in [Rule -> 0 .. made'] /\ ruleOf' \in [Block -> Rule \cup {NoRule}]
    BY <1>1 DEF Typed
  <2>5. /\ DOMAIN blocks' = Block /\ blocks' = [q \in Block |-> blocks'[q]]
        /\ \A q \in Block : \/ blocks'[q] = blocks[q]
                            \/ q <= made' /\ blocks'[q] \in Seq(1 .. made')
    BY <1>1, <1>2, <1>5, ListsNew
  <2>6. QED
    BY <1>1, <1>3, <2>3, <2>4, <2>5, TypedNext
<1>7. Bindings'
  <2>1. \A q \in Block : \A b \in Range(blocks'[q]) : b \in Range(blocks[q]) \/ b > made
    BY <1>1, <1>2, <1>5, ListsNew
  <2>2. QED
    BY <1>1, <1>4, <2>1, BindingsKept
<1>8. ASSUME Places
      PROVE  Places'
  <2>1. parent'[n] = p /\ scope'[n] = s
    BY <1>1, <1>3
  <2>2. /\ IsSemantics(p) => scope'[n] = p
        /\ ~IsSemantics(p) => scope'[n] = scope[p]
    BY <2>1
  <2>3. QED
    BY <1>1, <1>2, <1>4, <1>5, <1>8, <2>1, <2>2, PlacesOfNew
<1>9. QED
  BY <1>6, <1>7, <1>8

LEMMA AddNewKeeps ==
  ASSUME Typed, Bindings, NEW p \in Trees, NEW k \in Kinds, AddNew(p, k)
  PROVE  Typed' /\ Bindings' /\ (Places => Places')
<1>1. p \in 1 .. made /\ IsSemantics(p)
  BY TreesMade DEF AddNew
<1>2. QED
  BY <1>1, AddKeeps DEF AddNew

LEMMA AddArmKeeps ==
  ASSUME Typed, Bindings, NEW p \in Trees, NEW k \in SemanticsKind, AddArm(p, k)
  PROVE  Typed' /\ Bindings' /\ (Places => Places')
<1>1. p \in 1 .. made /\ p \in Block /\ ~IsSemantics(p) /\ k \in Kinds
  BY TreesMade, MadeFacts DEF AddArm, IsSemantics, SemanticsKind, Kinds
<1>2. scope[p] \in 1 .. made
  BY <1>1, MadeFacts DEF Typed, AddArm, Null
<1>3. QED
  BY <1>1, <1>2, AddKeeps DEF AddArm

\* Statement::add() of a select binds the arms where they are bound already.
LEMMA AddSelectKeeps ==
  ASSUME Typed, Bindings, NEW b \in Trees, NEW e, NEW vs, AddSelect(b, e, vs)
  PROVE  Typed' /\ Bindings' /\ (Places => Places')
<1> DEFINE arms == Range(blocks[b])
<1>1. /\ b \in 1 .. made /\ b \in Block /\ kind[b] = "branch" /\ ~IsSemantics(b)
      /\ UNCHANGED << made, kind, blocks, context, ruleOf >>
      /\ parent' = [c \in Block |-> IF c \in arms THEN b ELSE parent[c]]
      /\ scope' = [c \in Block |-> IF c \in arms THEN scope[b] ELSE scope[c]]
  BY TreesMade, MadeFacts DEF AddSelect, IsSemantics, SemanticsKind
<1>2. Typed'
  <2>1. \A c \in Block : parent[c] \in 0 .. made /\ scope[c] \in 0 .. made
    BY DEF Typed
  <2>2. b \in 0 .. made
    BY <1>1, MadeFacts
  <2> HIDE DEF arms
  <2>3. parent' \in [Block -> 0 .. made] /\ scope' \in [Block -> 0 .. made]
    BY <1>1, <2>1, <2>2
  <2>4. QED
    BY <1>1, <2>3 DEF Typed
<1>3. Bindings'
  BY <1>1 DEF Bindings
<1>4. ASSUME Places
      PROVE  Places'
  <2>1. scope[b] # Null
    BY <1>1, <1>4, TreesScoped
  <2>2. \A c \in arms : parent[c] = b /\ scope[c] = scope[b]
    BY <1>1, <1>4, <2>1 DEF Places, Place
  <2>3. \A c \in Block : parent'[c] = parent[c] /\ scope'[c] = scope[c]
    BY <1>1, <2>2
  <2>4. ASSUME NEW q \in Block, NEW c \in Range(blocks'[q])
        PROVE  Place(q, c)'
    <3>1. Place(q, c) /\ c \in Block
      BY <1>1, <1>4, MadeFacts DEF Places
    <3>2. kind'[q] = kind[q]
      BY <1>1
    <3>3. QED
      BY <2>3, <3>1, <3>2, PlaceKept
  <2>5. QED
    BY <1>1, <1>4, <2>4 DEF Places
<1>5. QED
  BY <1>2, <1>3, <1>4

\* The list t is s with n for its members in D.
Exchanged(t, s, D, n) == t = [i \in DOMAIN s |-> IF s[i] \in D THEN n ELSE s[i]]

LEMMA ExchangeFacts ==
  ASSUME NEW S, NEW s \in Seq(S), NEW D, NEW n, NEW t, Exchanged(t, s, D, n)
  PROVE  /\ \A T : S \subseteq T /\ n \in T => t \in Seq(T)
         /\ \A x \in Range(t) : x = n \/ x \in Range(s) \ D
<1>1. DOMAIN s = 1 .. Len(s) /\ Len(s) \in Nat /\ \A i \in 1 .. Len(s) : s[i] \in S
  OBVIOUS
<1>2. ASSUME NEW T, S \subseteq T, n \in T
      PROVE  t \in Seq(T)
  BY <1>1, <1>2 DEF Exchanged
<1>3. \A x \in Range(t) : x = n \/ x \in Range(s) \ D
  BY <1>1 DEF Range, Exchanged
<1>4. QED
  BY <1>2, <1>3

\* replaceWith() of a listed block: alone of its kind, it has one place in the list.
LEMMA ReplaceWithKeeps ==
  ASSUME Typed, Bindings, NEW b \in Trees, NEW k \in Kinds, ReplaceWith(b, k)
  PROVE  Typed' /\ Bindings' /\ (Places /\ ~EqualSiblings => Places')
<1> DEFINE list == blocks[parent[b]]
<1>0. SUFFICES ASSUME NEW n, n = made + 1, NEW p, p = parent[b]
               PROVE  Typed' /\ Bindings' /\ (Places /\ ~EqualSiblings => Places')
  OBVIOUS
<1>1. /\ n \in Block /\ n \notin 1 .. made /\ made \in Nat /\ n \in Nat /\ n > made
      /\ Block \subseteq Nat \ {0} /\ 1 .. made \subseteq Block
      /\ made' = n /\ made' \in made .. MaxBlock /\ made <= made'
      /\ 1 .. made \subseteq 1 .. made'
  BY <1>0, MadeFacts DEF ReplaceWith
<1>2. /\ b \in 1 .. made /\ b \in Block /\ b # n
      /\ IsSemantics(p) /\ p \in 1 .. made /\ p \in Block /\ p # n
  <2>1. b \in 1 .. made /\ b \in Block /\ IsSemantics(p) /\ p # Null
    BY <1>0, <1>1, TreesMade DEF ReplaceWith, IsSemantics
  <2>2. p \in 1 .. made
    BY <1>0, <1>1, <2>1 DEF Typed, Null
  <2>3. QED
    BY <1>1, <2>1, <2>2
<1>3. /\ kind' = [kind EXCEPT ![n] = k]
      /\ blocks' = [blocks EXCEPT ![p] = [i \in DOMAIN @ |-> IF Same(@[i], b) THEN n ELSE @[i]]]
      /\ parent' = [parent EXCEPT ![b] = Null, ![n] = p]
      /\ scope' = [scope EXCEPT ![b] = Null, ![n] = p]
      /\ UNCHANGED << context, ruleOf >>
  BY <1>0, <1>1 DEF ReplaceWith, Replaced, Anchors
<1>4. EqualSiblings \/ \A x \in Range(list) : kind[x] = kind[b] => x = b
  BY <1>0 DEF ReplaceWith, Alone
<1>5. list \in Seq(1 .. made)
  BY <1>0, <1>2 DEF Typed
<1>6. n = made + 1 /\ p = parent[b] /\ list = blocks[p]
  BY <1>0
<1> HIDE DEF list
<1>7. /\ kind' \in [Block -> Kinds \cup {"none"}]
      /\ \A q \in Block : kind'[q] = IF q = n THEN k ELSE kind[q]
      /\ \A q \in Block : parent'[q] = IF q = n THEN p ELSE IF q = b THEN Null ELSE parent[q]
      /\ \A q \in Block : scope'[q] = IF q = n THEN p ELSE IF q = b THEN Null ELSE scope[q]
      /\ parent' = [q \in Block |-> parent'[q]] /\ scope' = [q \in Block |-> scope'[q]]
  BY <1>1, <1>2, <1>3 DEF Typed, Kinds
<1>8. /\ DOMAIN blocks' = Block /\ blocks' = [q \in Block |-> blocks'[q]]
      /\ \A q \in Block : q # p => blocks'[q] = blocks[q]
      /\ blocks'[p] = [i \in DOMAIN list |-> IF Same(list[i], b) THEN n ELSE list[i]]
  BY <1>1, <1>2, <1>3, <1>6 DEF Typed
<1>9. /\ blocks'[p] \in Seq(1 .. made')
      /\ \A x \in Range(blocks'[p]) : x = n \/ (x \in Range(list) /\ ~Same(x, b))
  <2> DEFINE t == blocks'[p]
             S == 1 .. made
             T == 1 .. made'
             D == { x \in S : Same(x, b) }
  <2>1. /\ S \subseteq T /\ n \in T /\ list \in Seq(S)
        /\ Exchanged(t, list, D, n)
    <3>1. Range(list) \subseteq S /\ \A i \in DOMAIN list : list[i] \in Range(list)
      BY <1>5, ListFacts
    <3>2. QED
      BY <1>1, <1>5, <1>8, <3>1 DEF Exchanged
  <2>2. Range(list) \subseteq S
    BY <1>5, ListFacts
  <2> HIDE DEF t, S, T, D
  <2>3. /\ \A U : S \subseteq U /\ n \in U => t \in Seq(U)
        /\ \A x \in Range(t) : x = n \/ x \in Range(list) \ D
    BY <2>1, ExchangeFacts
  <2>4. t \in Seq(T)
    BY <2>1, <2>3
  <2>5. QED
    BY <2>2, <2>3, <2>4 DEF t, T, D
<1>10. \A q \in 1 .. made : kind'[q] = kind[q]
  BY <1>1, <1>7
<1>11. Typed'
  <2>1. p \in 0 .. made' /\ Null \in 0 .. made'
    BY <1>1, <1>2 DEF Null
  <2>2. /\ parent \in [Block -> 0 .. made] /\ scope \in [Block -> 0 .. made]
        /\ \A q \in Block : parent'[q] = parent[q] \/ parent'[q] \in 0 .. made'
        /\ \A q \in Block : scope'[q] = scope[q] \/ scope'[q] \in 0 .. made'
    BY <1>7, <2>1 DEF Typed
  <2>3. parent' \in [Block -> 0 .. made']
    BY <1>1, <1>7, <2>2, AnchorsTyped
  <2>4. scope' \in [Block -> 0 .. made']
    BY <1>1, <1>7, <2>2, AnchorsTyped
  <2>5. context' \in [Rule -> 0 .. made'] /\ ruleOf' \in [Block -> Rule \cup {NoRule}]
    BY <1>1, <1>3 DEF Typed
  <2>6. \A q \in Block : \/ blocks'[q] = blocks[q]
                         \/ q <= made' /\ blocks'[q] \in Seq(1 .. made')
    <3>1. p <= made'
      BY <1>1, <1>2
    <3>2. QED
      BY <1>8, <1>9, <3>1
  <2>7. QED
    BY <1>1, <1>7, <1>8, <2>3, <2>4, <2>5, <2>6, TypedNext
<1>12. Bindings'
  <2>1. \A q \in Block : \A x \in Range(blocks'[q]) : x \in Range(blocks[q]) \/ x > made
    BY <1>1, <1>6, <1>8, <1>9
  <2>2. QED
    BY <1>1, <1>3, <1>10, <2>1, BindingsKept
<1>13. ASSUME Places, ~EqualSiblings
       PROVE  Places'
  <2>1. \A x \in Range(list) : Same(x, b) <=> x = b
    BY <1>4, <1>13 DEF Same
  <2>2. Distinct(blocks'[p])
    <3>1. Distinct(list) /\ n \notin Range(list)
      BY <1>1, <1>2, <1>6, <1>13, MadeFacts DEF Places
    <3>2. \A i \in DOMAIN list : list[i] \in Range(list) /\ list[i] # n
      BY <3>1, ListFacts
    <3>3. blocks'[p] = [i \in DOMAIN list |-> IF list[i] = b THEN n ELSE list[i]]
      BY <1>8, <2>1, <3>2
    <3>4. QED
      BY <3>1, <3>2, <3>3 DEF Distinct
  <2>3. ASSUME NEW q \in Block, NEW x \in Range(blocks'[q])
        PROVE  Place(q, x)'
    <3>1. CASE x = n
      <4>1. q = p
        BY <1>1, <1>8, <2>3, <3>1, MadeFacts
      <4>2. parent'[n] = p /\ scope'[n] = p
        BY <1>1, <1>7
      <4>3. IsSemantics(p)'
        BY <1>2, <1>10, SemanticsKept
      <4>4. QED
        BY <3>1, <4>1, <4>2, <4>3 DEF Place
    <3>2. CASE x # n
      <4>1. x \in Range(blocks[q]) /\ (q = p => x # b)
        BY <1>6, <1>8, <1>9, <2>1, <2>3, <3>2
      <4>2. q \in 1 .. made /\ x \in 1 .. made /\ Place(q, x)
        BY <1>13, <4>1, MadeFacts DEF Places
      <4>3. x # b
        BY <1>6, <4>1, <4>2 DEF Place
      <4>4. /\ kind'[q] = kind[q] /\ parent'[x] = parent[x] /\ scope'[x] = scope[x]
            /\ scope'[q] = scope[q] \/ scope'[q] = Null
        BY <1>1, <1>7, <1>10, <4>2, <4>3
      <4>5. QED
        BY <4>2, <4>4, PlaceKept
    <3>3. QED
      BY <3>1, <3>2
  <2>4. ASSUME NEW q \in Block
        PROVE  Distinct(blocks'[q])
    BY <1>8, <1>13, <2>2 DEF Places
  <2>5. QED
    BY <2>3, <2>4 DEF Places, Distinct
<1>14. QED
  BY <1>11, <1>12, <1>13

\* ParallelBlock::replaceWith() of a context binds at most two new blocks.
LEMMA ReplaceContextKeeps ==
  ASSUME Typed, Bindings, NEW b \in 1 .. made, NEW k \in Kinds, ReplaceContext(b, k)
  PROVE  Typed' /\ Bindings' /\ (Places => Places')
<1>0. SUFFICES ASSUME NEW n, n = made + 1, NEW c, c = Wrapper(n, k), NEW r, r = ruleOf[b]
               PROVE  Typed' /\ Bindings' /\ (Places => Places')
  OBVIOUS
<1>1. /\ made \in Nat /\ MaxBlock \in Nat /\ n \in Nat /\ n > made
      /\ c \in {n, n + 1} /\ (c = n <=> k = "par")
      /\ Block \subseteq Nat \ {0} /\ 1 .. made \subseteq Block
      /\ c <= MaxBlock /\ made' = c
  BY <1>0, MadeFacts DEF ReplaceContext, Wrapper
<1>2. /\ n \in Block /\ c \in Block /\ n \notin 1 .. made /\ c \notin 1 .. made
      /\ made' \in made .. MaxBlock /\ made <= made' /\ made' \in Nat /\ c > made
      /\ n \in 1 .. made' /\ c \in 1 .. made'
  BY <1>1 DEF Block
<1>3. r \in Rule /\ r # NoRule
  BY <1>0, <1>1 DEF ReplaceContext, Typed
<1>4. /\ kind' = [kind EXCEPT ![c] = "par", ![n] = k]
      /\ parent' = [parent EXCEPT ![n] = IF c = n THEN Null ELSE c]
      /\ scope' = [scope EXCEPT ![n] = IF c = n THEN Null ELSE c]
      /\ blocks' = [blocks EXCEPT ![c] = IF c = n THEN << >> ELSE << n >>]
      /\ context' = [context EXCEPT ![r] = c]
      /\ ruleOf' = [ruleOf EXCEPT ![c] = r]
  BY <1>0 DEF ReplaceContext, Bound
<1>5. /\ kind' \in [Block -> Kinds \cup {"none"}]
      /\ context' \in [Rule -> 0 .. made']
      /\ ruleOf' \in [Block -> Rule \cup {NoRule}]
      /\ \A q \in Block : kind'[q] = IF q = n THEN k ELSE IF q = c THEN "par" ELSE kind[q]
      /\ \A q \in Block : ruleOf'[q] = IF q = c THEN r ELSE ruleOf[q]
      /\ \A q \in Rule : context'[q] = IF q = r THEN c ELSE context[q]
  <2>1. 0 .. made \subseteq 0 .. made' /\ c \in 0 .. made'
    BY <1>1
  <2>2. /\ kind' \in [Block -> Kinds \cup {"none"}]
        /\ \A q \in Block : kind'[q] = IF q = n THEN k ELSE IF q = c THEN "par" ELSE kind[q]
    BY <1>2, <1>4 DEF Typed, Kinds, SemanticsKind
  <2>3. /\ context' \in [Rule -> 0 .. made']
        /\ \A q \in Rule : context'[q] = IF q = r THEN c ELSE context[q]
    BY <1>3, <1>4, <2>1 DEF Typed
  <2>4. /\ ruleOf' \in [Block -> Rule \cup {NoRule}]
        /\ \A q \in Block : ruleOf'[q] = IF q = c THEN r ELSE ruleOf[q]
    BY <1>2, <1>3, <1>4 DEF Typed
  <2>5. QED
    BY <2>2, <2>3, <2>4
<1>6. /\ \A q \in Block : parent'[q] = IF q = n THEN (IF c = n THEN Null ELSE c) ELSE parent[q]
      /\ \A q \in Block : scope'[q] = IF q = n THEN (IF c = n THEN Null ELSE c) ELSE scope[q]
      /\ parent' = [q \in Block |-> parent'[q]] /\ scope' = [q \in Block |-> scope'[q]]
  BY <1>2, <1>4 DEF Typed
<1>7. /\ DOMAIN blocks' = Block /\ blocks' = [q \in Block |-> blocks'[q]]
      /\ \A q \in Block : q # c => blocks'[q] = blocks[q]
      /\ blocks'[c] = IF c = n THEN << >> ELSE << n >>
  BY <1>2, <1>4 DEF Typed
<1>8. /\ blocks'[c] \in Seq(1 .. made') /\ Distinct(blocks'[c])
      /\ \A x \in Range(blocks'[c]) : x = n /\ c # n
  <2>1. CASE c = n
    <3>1. blocks'[c] = << >>
      BY <1>7, <2>1
    <3>2. QED
      BY <3>1, ListFacts DEF Distinct
  <2>2. CASE c # n
    <3>1. blocks'[c] = << n >>
      BY <1>7, <2>2
    <3>2. << n >> \in Seq(1 .. made') /\ Distinct(<< n >>)
      BY <1>2 DEF Distinct
    <3>3. QED
      BY <2>2, <3>1, <3>2, ListFacts
  <2>3. QED
    BY <2>1, <2>2
<1>9. \A q \in 1 .. made : /\ kind'[q] = kind[q] /\ parent'[q] = parent[q] /\ scope'[q] = scope[q]
                           /\ ruleOf'[q] = ruleOf[q] /\ blocks'[q] = blocks[q]
  BY <1>1, <1>2, <1>5, <1>6, <1>7
<1>10. kind'[c] = "par" /\ IsSemantics(c)'
  BY <1>1, <1>2, <1>5 DEF IsSemantics, SemanticsKind, Null
<1>11. Typed'
  <2>1. c \in 0 .. made' /\ Null \in 0 .. made'
    BY <1>2 DEF Null
  <2>2. /\ parent \in [Block -> 0 .. made] /\ scope \in [Block -> 0 .. made]
        /\ \A q \in Block : parent'[q] = parent[q] \/ parent'[q] \in 0 .. made'
        /\ \A q \in Block : scope'[q] = scope[q] \/ scope'[q] \in 0 .. made'
    BY <1>6, <2>1 DEF Typed
  <2>3. parent' \in [Block -> 0 .. made']
    BY <1>2, <1>6, <2>2, AnchorsTyped
  <2>4. scope' \in [Block -> 0 .. made']
    BY <1>2, <1>6, <2>2, AnchorsTyped
  <2>5. \A q \in Block : \/ blocks'[q] = blocks[q]
                         \/ q <= made' /\ blocks'[q] \in Seq(1 .. made')
    BY <1>2, <1>7, <1>8
  <2>6. QED
    BY <1>2, <1>5, <1>7, <2>3, <2>4, <2>5, TypedNext
<1>12. Bindings'
  <2>1. ASSUME NEW x \in Block, ruleOf'[x] # NoRule
        PROVE  x <= made' /\ kind'[x] = "par" /\ \A p \in Block : x \notin Range(blocks'[p])
    <3>1. CASE x = c
      <4>1. \A p \in Block : p # c => c \notin Range(blocks'[p])
        BY <1>2, <1>7, MadeFacts
      <4>2. c \notin Range(blocks'[c])
        BY <1>8
      <4>3. QED
        BY <1>2, <1>10, <3>1, <4>1, <4>2
    <3>2. CASE x # c
      <4>1. /\ x \in 1 .. made /\ x <= made /\ kind[x] = "par"
            /\ \A p \in Block : x \notin Range(blocks[p])
        BY <1>1, <1>5, <2>1, <3>2 DEF Bindings
      <4>2. x # n
        BY <1>2, <4>1
      <4>3. \A p \in Block : x \notin Range(blocks'[p])
        BY <1>7, <1>8, <4>1, <4>2
      <4>4. QED
        <5>1. x <= made'
          BY <1>1, <1>2, <4>1
        <5>2. kind'[x] = "par"
          BY <1>9, <4>1
        <5>3. QED
          BY <4>3, <5>1, <5>2
    <3>3. QED
      BY <3>1, <3>2
  <2>2. ASSUME NEW q \in Rule, context'[q] # Null
        PROVE  ruleOf'[context'[q]] = q
    <3>1. CASE q = r
      BY <1>2, <1>5, <3>1
    <3>2. CASE q # r
      <4>1. context'[q] = context[q] /\ context[q] \in 1 .. made
        BY <1>1, <1>5, <2>2, <3>2 DEF Typed, Null
      <4>2. QED
        BY <1>9, <2>2, <4>1 DEF Bindings
    <3>3. QED
      BY <3>1, <3>2
  <2>3. QED
    BY <2>1, <2>2 DEF Bindings, Null
<1>13. ASSUME Places
       PROVE  Places'
  <2>1. ASSUME NEW q \in Block, NEW x \in Range(blocks'[q])
        PROVE  Place(q, x)'
    <3>1. CASE q = c
      <4>1. x = n /\ c # n
        BY <1>8, <2>1, <3>1
      <4>2. parent'[x] = c /\ scope'[x] = c
        BY <1>2, <1>6, <4>1
      <4>3. QED
        BY <1>10, <3>1, <4>2 DEF Place
    <3>2. CASE q # c
      <4>1. x \in Range(blocks[q])
        BY <1>7, <2>1, <3>2
      <4>2. q \in 1 .. made /\ x \in 1 .. made /\ Place(q, x)
        BY <1>13, <4>1, MadeFacts DEF Places
      <4>3. /\ kind'[q] = kind[q] /\ parent'[x] = parent[x]
            /\ scope'[x] = scope[x] /\ scope'[q] = scope[q]
        BY <1>9, <4>2
      <4>4. QED
        BY <4>2, <4>3, PlaceKept
    <3>3. QED
      BY <3>1, <3>2
  <2>2. ASSUME NEW q \in Block
        PROVE  Distinct(blocks'[q])
    BY <1>7, <1>8, <1>13 DEF Places
  <2>3. QED
    BY <2>1, <2>2 DEF Places, Distinct
<1>14. QED
  BY <1>11, <1>12, <1>13

-----------------------------------------------------------------------------
(* The theorems *)

LEMMA TreeInvariantInit ==
  ASSUME TreeInit
  PROVE  Typed /\ Bindings /\ Places
<1>1. \A q \in Block : blocks[q] = << >> /\ Range(blocks[q]) = {}
  BY ListFacts DEF TreeInit
<1>2. DOMAIN blocks = Block /\ blocks = [q \in Block |-> blocks[q]]
  BY DEF TreeInit
<1>3. made = 0 /\ 0 .. made = {0} /\ MaxBlock \in Nat
  BY DEF TreeInit
<1>4. \A q \in Block : blocks[q] \in Seq(1 .. made) /\ Distinct(blocks[q])
  <2>1. << >> \in Seq(1 .. made) /\ Distinct(<< >>)
    BY DEF Distinct
  <2>2. QED
    BY <1>1, <2>1
<1>5. Typed
  BY <1>1, <1>2, <1>3, <1>4 DEF Typed, TreeInit, Null
<1>6. Bindings
  BY DEF Bindings, TreeInit
<1>7. Places
  BY <1>1, <1>4 DEF Places
<1>8. QED
  BY <1>5, <1>6, <1>7

LEMMA TreeInvariantNext ==
  ASSUME Typed, Bindings, [TreeNext]_treeVars
  PROVE  Typed' /\ Bindings' /\ (Places /\ ~EqualSiblings => Places')
<1>1. ASSUME NEW r \in Rule, SetContext(r)
      PROVE  Typed' /\ Bindings' /\ (Places => Places')
  BY <1>1, SetContextKeeps
<1>2. ASSUME NEW p \in Trees, NEW k \in Kinds, AddNew(p, k)
      PROVE  Typed' /\ Bindings' /\ (Places => Places')
  BY <1>2, AddNewKeeps
<1>3. ASSUME NEW b \in Trees, NEW k \in SemanticsKind, AddArm(b, k)
      PROVE  Typed' /\ Bindings' /\ (Places => Places')
  BY <1>3, AddArmKeeps
<1>4. ASSUME NEW b \in Trees, NEW e, NEW vs, AddSelect(b, e, vs)
      PROVE  Typed' /\ Bindings' /\ (Places => Places')
  BY <1>4, AddSelectKeeps
<1>5. ASSUME NEW b \in Trees, NEW k \in Kinds, ReplaceWith(b, k)
      PROVE  Typed' /\ Bindings' /\ (Places /\ ~EqualSiblings => Places')
  BY <1>5, ReplaceWithKeeps
<1>6. ASSUME NEW b \in 1 .. made, NEW k \in Kinds, ReplaceContext(b, k)
      PROVE  Typed' /\ Bindings' /\ (Places => Places')
  BY <1>6, ReplaceContextKeeps
<1>7. ASSUME UNCHANGED treeVars
      PROVE  Typed' /\ Bindings' /\ (Places => Places')
  <2>1. Typed'
    BY <1>7 DEF treeVars, Typed
  <2>2. Bindings'
    BY <1>7 DEF treeVars, Bindings
  <2>3. Places => Places'
    BY <1>7 DEF treeVars, Places, Place, IsSemantics, Distinct
  <2>4. QED
    BY <2>1, <2>2, <2>3
<1>8. QED
  BY <1>1, <1>2, <1>3, <1>4, <1>5, <1>6, <1>7 DEF TreeNext, Kinds

\* Every rule and its context agree on each other, and no block of a tree lists a
\* context, through every Rule::setContext() and ParallelBlock::replaceWith().
THEOREM ContextsStayBound == TreeSpec => []ContextsBound
<1>1. Typed /\ Bindings => ContextsBound
  BY InvariantContexts
<1>2. TreeInit => Typed /\ Bindings
  BY TreeInvariantInit
<1>3. Typed /\ Bindings /\ [TreeNext]_treeVars => (Typed /\ Bindings)'
  BY TreeInvariantNext
<1>4. QED
  BY <1>1, <1>2, <1>3, PTL DEF TreeSpec

\* The inductive invariant, for the clients of the next two theorems.
LEMMA TreeInvariant ==
  ASSUME ~EqualSiblings
  PROVE  TreeSpec => [](Typed /\ Bindings /\ Places)
<1>1. TreeInit => Typed /\ Bindings /\ Places
  BY TreeInvariantInit
<1>2. Typed /\ Bindings /\ Places /\ [TreeNext]_treeVars => (Typed /\ Bindings /\ Places)'
  BY TreeInvariantNext
<1>3. QED
  BY <1>1, <1>2, PTL DEF TreeSpec

\* As long as no client replaces a block next to one that equals it, every block of a
\* tree says the place it has.
THEOREM TreesAreAnchored ==
  ASSUME ~EqualSiblings
  PROVE  TreeSpec => []Anchored
<1>1. Typed /\ Bindings /\ Places => Anchored
  BY InvariantPlaces
<1>2. QED
  BY <1>1, TreeInvariant, PTL

\* Under the same condition no block has two places.
THEOREM BlocksAreListedOnce ==
  ASSUME ~EqualSiblings
  PROVE  TreeSpec => []ListedOnce
<1>1. Typed /\ Bindings /\ Places => ListedOnce
  BY InvariantPlaces
<1>2. QED
  BY <1>1, TreeInvariant, PTL

-----------------------------------------------------------------------------
(* The pass: BranchElimination *)

-----------------------------------------------------------------------------
(* The invariant *)

BlockKind == SemanticsKind \cup StatementKind

\* What a list says of the blocks in it, and what may have one.
ListShape ==
  /\ \A p \in Block : kind[p] \notin SemanticsKind \cup {"branch"} => blocks[p] = << >>
  /\ \A p \in Block : \A c \in Range(blocks[p]) :
       /\ c > p
       /\ kind[p] = "branch" => kind[c] \in SemanticsKind
       /\ kind[c] \in StatementKind => parent[c] = p
       /\ parent[c] # Null /\ scope[c] # Null

\* A statement has a scope as long as it has a parent: a block that was there before it.
PlaceShape ==
  \A b \in Block : kind[b] \in StatementKind =>
    /\ scope[b] = Null <=> parent[b] = Null
    /\ parent[b] # Null => parent[b] < b /\ kind[parent[b]] \in SemanticsKind

\* The select of a branch has a value for every arm.
SelectShape ==
  \A b \in Block : select[b] # << >> =>
    /\ kind[b] = "branch"
    /\ \E e \in Expression : \E vs \in [1 .. Len(blocks[b]) -> Value] : select[b] = << Select(e, vs) >>

\* The shape of the state, while the clients build and during the pass.
Shaped ==
  /\ made \in 0 .. 2 * MaxBlock
  /\ kind \in [Block -> BlockKind \cup {"none"}]
  /\ \A b \in Block : b > made <=> kind[b] = "none"
  /\ parent \in [Block -> 0 .. made] /\ scope \in [Block -> 0 .. made]
  /\ blocks = [p \in Block |-> blocks[p]] /\ \A p \in Block : blocks[p] \in Seq(1 .. made)
  /\ select = [b \in Block |-> select[b]]
  /\ skips \subseteq 1 .. made
  /\ context \in [Rule -> 0 .. made] /\ \A r \in Rule : context[r] # Null => kind[context[r]] = "par"
  /\ PlaceShape /\ ListShape /\ SelectShape

\* Before the pass: the blocks of clients, none of which has been replaced.
Building ==
  /\ made <= MaxBlock
  /\ \A b \in Block : kind[b] \in StatementKind => parent[b] # Null
  /\ stack = << >> /\ elimination = 0

\* The constant branches of the rule that the pass has replaced, and those that are left.
Gone == { b \in branches : ConstantBranch(b) /\ parent[b] = Null }
Left == { b \in branches : ConstantBranch(b) /\ parent[b] # Null }

\* A region that the traversal stays in, which the check has accepted.
Region(R) ==
  /\ context[rule] \in R
  /\ \A c \in R : Range(blocks[c]) \subseteq R
  /\ \A c \in R : kind[c] = "branch" => c \in branches /\ select[c] # << >>
  /\ \A c \in R : kind[c] \in SemanticsKind => blocks[c] # << >>
  /\ \A c \in R : ConstantBranch(c) /\ parent[c] # Null => Alone(c)
  /\ \A i \in DOMAIN stack : stack[i].block \in R

\* The frames: only the last one may be at the instructions of its block, and then the
\* block has not been replaced.
FrameOf(m) == [block : 1 .. m, at : Nat]

Frames ==
  /\ stack \in Seq(FrameOf(made))
  /\ \A i \in DOMAIN stack : stack[i].at = 0 =>
       /\ i = Len(stack)
       /\ kind[stack[i].block] \in StatementKind => parent[stack[i].block] # Null

\* What the traversal is going to visit is in every set that has what the frames are at
\* and is closed under the lists.
Covers(W) ==
  /\ \A c \in W : Range(blocks[c]) \subseteq W
  /\ \A i \in DOMAIN stack :
       /\ stack[i].at = 0 => stack[i].block \in W
       /\ \A j \in DOMAIN blocks[stack[i].block] :
            j >= stack[i].at => blocks[stack[i].block][j] \in W

Passing ==
  /\ rule \in Rule /\ context[rule] # Null /\ ruleOf[context[rule]] = rule
  /\ \E R \in SUBSET (1 .. made) : Region(R)
  /\ Frames
  /\ branches \subseteq 1 .. MaxBlock /\ \A b \in branches : kind[b] = "branch"
  /\ elimination = Cardinality(Gone)
  /\ made <= MaxBlock + elimination
  /\ \A W \in SUBSET Block : Covers(W) => Left \subseteq W
  /\ Meaning(rule) = meaning

PassInvariant == Shaped /\ IF rule = NoRule THEN Building ELSE Passing

-----------------------------------------------------------------------------
(* Least numbers and flattened lists *)

LEMMA MinIn ==
  ASSUME NEW S \in SUBSET Nat, S # {}
  PROVE  Min(S) \in S /\ \A x \in S : Min(S) <= x
<1> DEFINE N == { n \in Nat : \A x \in S : x > n }
<1>1. \E m \in S : \A x \in S : m <= x
  <2> SUFFICES ASSUME \A m \in S : \E x \in S : x < m
               PROVE  FALSE
    OBVIOUS
  <2>1. 0 \in N
    <3>1. \A x \in S : x \in Nat /\ x # 0
      OBVIOUS
    <3> QED BY <3>1
  <2>2. ASSUME NEW n \in Nat, n \in N
        PROVE  n + 1 \in N
    <3>1. \A x \in S : x \in Nat /\ x > n
      BY <2>2
    <3>2. \A x \in S : x # n + 1
      BY <3>1
    <3> QED BY <3>1, <3>2
  <2> HIDE DEF N
  <2>3. Nat \subseteq N
    BY <2>1, <2>2, SetInduction
  <2>4. PICK x \in S : TRUE
    OBVIOUS
  <2>5. x \in Nat /\ x > x
    BY <2>3, <2>4 DEF N
  <2> QED BY <2>5
<1> QED BY <1>1 DEF Min

\* The partial lists that FlattenSeq builds.
IsFlat(f, s, n) == f = [i \in 1 .. n |-> IF i = 1 THEN s[i] ELSE f[i - 1] \o s[i]]

LEMMA FlatExists ==
  ASSUME NEW s
  PROVE  \A n \in Nat : \E f : IsFlat(f, s, n)
<1> DEFINE N == { n \in Nat : \E f : IsFlat(f, s, n) }
<1>1. 0 \in N
  <2> DEFINE f == [i \in 1 .. 0 |-> {}]
  <2>1. IsFlat(f, s, 0)
    BY DEF IsFlat
  <2> QED BY <2>1
<1>2. ASSUME NEW n \in Nat, n \in N
      PROVE  n + 1 \in N
  <2>1. PICK f : IsFlat(f, s, n)
    BY <1>2
  <2>2. \A i \in 1 .. n : f[i] = IF i = 1 THEN s[i] ELSE f[i - 1] \o s[i]
    BY <2>1 DEF IsFlat
  <2> DEFINE last == IF n = 0 THEN s[n + 1] ELSE f[n] \o s[n + 1]
             g == [i \in 1 .. n + 1 |-> IF i = n + 1 THEN last ELSE f[i]]
  <2>3. ASSUME NEW i \in 1 .. n + 1
        PROVE  g[i] = IF i = 1 THEN s[i] ELSE g[i - 1] \o s[i]
    <3>1. CASE i = n + 1
      <4>1. g[i] = last /\ (i = 1 <=> n = 0)
        BY <3>1
      <4>2. n # 0 => g[i - 1] = f[n]
        BY <3>1
      <4> HIDE DEF g
      <4> QED BY <3>1, <4>1, <4>2
    <3>2. CASE i # n + 1
      <4>1. i \in 1 .. n /\ g[i] = f[i]
        BY <3>2
      <4>2. i # 1 => i - 1 \in 1 .. n /\ g[i - 1] = f[i - 1]
        BY <4>1
      <4> HIDE DEF g
      <4> QED BY <2>2, <4>1, <4>2
    <3> QED BY <3>1, <3>2
  <2>4. g = [i \in 1 .. n + 1 |-> g[i]]
    OBVIOUS
  <2> HIDE DEF g
  <2>5. IsFlat(g, s, n + 1)
    BY <2>3, <2>4 DEF IsFlat
  <2> QED BY <2>5
<1> HIDE DEF N
<1>3. Nat \subseteq N
  BY <1>1, <1>2, SetInduction
<1> QED BY <1>3 DEF N

FlatSteps(f, s, n) ==
  /\ f[1] = s[1]
  /\ \A i \in 1 .. n - 1 : f[i + 1] = f[i] \o s[i + 1]

LEMMA FlatIs ==
  ASSUME NEW s, NEW n \in Nat, n # 0, Len(s) = n
  PROVE  \E f : FlatSteps(f, s, n) /\ FlattenSeq(s) = f[n]
<1> DEFINE f == CHOOSE g : IsFlat(g, s, n)
<1>1. IsFlat(f, s, n)
  BY FlatExists
<1>2. FlattenSeq(s) = f[n]
  BY DEF FlattenSeq, IsFlat
<1> HIDE DEF f
<1>3. \A i \in 1 .. n : f[i] = IF i = 1 THEN s[i] ELSE f[i - 1] \o s[i]
  BY <1>1 DEF IsFlat
<1>4. f[1] = s[1]
  BY <1>3
<1>5. ASSUME NEW i \in 1 .. n - 1, NEW k, k = i + 1
      PROVE  f[k] = f[i] \o s[k]
  <2>1. k \in 1 .. n /\ k # 1 /\ k - 1 = i
    BY <1>5
  <2> QED BY <1>3, <2>1
<1>6. FlatSteps(f, s, n)
  BY <1>4, <1>5 DEF FlatSteps
<1> QED BY <1>2, <1>6

LEMMA FlattenFew ==
  /\ FlattenSeq(<< >>) = << >>
  /\ \A x : FlattenSeq(<< x >>) = x
<1>1. FlattenSeq(<< >>) = << >>
  BY DEF FlattenSeq
<1>2. ASSUME NEW x
      PROVE  FlattenSeq(<< x >>) = x
  <2> DEFINE s == << x >>
  <2>1. Len(s) = 1 /\ s[1] = x
    OBVIOUS
  <2> HIDE DEF s
  <2>2. PICK n \in Nat : n > 0 /\ n < 2 /\ Len(s) = n
    BY <2>1
  <2>3. PICK f : FlatSteps(f, s, n) /\ FlattenSeq(s) = f[n]
    BY <2>2, FlatIs
  <2>4. n = 1
    BY <2>2
  <2> QED BY <2>1, <2>3, <2>4 DEF s, FlatSteps
<1> QED BY <1>1, <1>2

LEMMA PairAdded ==
  ASSUME NEW S, NEW s \in Seq(S), NEW pair \in Seq(S), Len(pair) = 2, NEW k \in Nat, Len(s) = k
  PROVE  /\ s \o pair \in Seq(S) /\ Len(s \o pair) = k + 2
         /\ \A j \in 1 .. k : (s \o pair)[j] = s[j]
         /\ (s \o pair)[k + 1] = pair[1] /\ (s \o pair)[k + 2] = pair[2]
<1>1. /\ s \o pair \in Seq(S) /\ Len(s \o pair) = Len(s) + Len(pair)
      /\ \A i \in 1 .. Len(s) + Len(pair) :
           (s \o pair)[i] = IF i <= Len(s) THEN s[i] ELSE pair[i - Len(s)]
  BY ConcatProperties
<1>2. /\ s \o pair \in Seq(S) /\ Len(s \o pair) = k + 2
      /\ \A i \in 1 .. k + 2 : (s \o pair)[i] = IF i <= k THEN s[i] ELSE pair[i - k]
  BY <1>1
<1>3. ASSUME NEW j \in 1 .. k
      PROVE  (s \o pair)[j] = s[j]
  BY <1>2
<1>4. k + 1 \in 1 .. k + 2 /\ ~(k + 1 <= k) /\ (k + 1) - k = 1
  OBVIOUS
<1>5. k + 2 \in 1 .. k + 2 /\ ~(k + 2 <= k) /\ (k + 2) - k = 2
  OBVIOUS
<1> QED BY <1>2, <1>3, <1>4, <1>5

\* A list of pairs, flattened, has the two of each side by side.
SideBySide(flat, n, p, q) ==
  Len(flat) = 2 * n /\ \A i \in 1 .. n : flat[2 * i - 1] = p[i] /\ flat[2 * i] = q[i]

LEMMA FlattenPairs ==
  ASSUME NEW S, NEW n \in Nat, NEW p \in [1 .. n -> S], NEW q \in [1 .. n -> S],
         NEW s, s = [i \in 1 .. n |-> << p[i], q[i] >>]
  PROVE  FlattenSeq(s) \in Seq(S) /\ SideBySide(FlattenSeq(s), n, p, q)
<1> USE DEF SideBySide
<1>1. CASE n = 0
  <2>1. s = << >>
    BY <1>1
  <2>2. FlattenSeq(s) = << >>
    BY <2>1, FlattenFew
  <2>3. << >> \in Seq(S) /\ Len(<< >>) = 0 /\ 2 * n = 0
    BY <1>1
  <2>4. \A i \in 1 .. n : FALSE
    BY <1>1
  <2> QED BY <2>2, <2>3, <2>4
<1>2. CASE n # 0
  <2>1. Len(s) = n /\ \A i \in 1 .. n : s[i] = << p[i], q[i] >>
    OBVIOUS
  <2>2. PICK f : FlatSteps(f, s, n) /\ FlattenSeq(s) = f[n]
    BY <1>2, <2>1, FlatIs
  <2> DEFINE Good(m) == /\ f[m] \in Seq(S) /\ Len(f[m]) = 2 * m
                        /\ \A i \in 1 .. m : f[m][2 * i - 1] = p[i] /\ f[m][2 * i] = q[i]
             N == { m \in Nat : m + 1 <= n => Good(m + 1) }
  <2>3. 0 \in N
    <3>1. 1 \in 1 .. n /\ f[1] = << p[1], q[1] >> /\ p[1] \in S /\ q[1] \in S
      BY <1>2, <2>1, <2>2 DEF FlatSteps
    <3>2. Good(1)
      BY <3>1
    <3> QED BY <3>2
  <2>4. ASSUME NEW m \in Nat, m \in N
        PROVE  m + 1 \in N
    <3> HIDE DEF Good
    <3> SUFFICES ASSUME NEW k, k = m + 1, k + 1 <= n
                 PROVE  Good(k + 1)
      OBVIOUS
    <3>1. k \in Nat /\ k \in 1 .. n - 1 /\ k + 1 \in 1 .. n
      OBVIOUS
    <3>2. Good(k)
      BY <2>4, <3>1
    <3> USE DEF Good
    <3> DEFINE l == k + 1
               pair == << p[l], q[l] >>
    <3>3. f[l] = f[k] \o pair
      BY <2>1, <2>2, <3>1 DEF FlatSteps
    <3>4. pair \in Seq(S) /\ Len(pair) = 2 /\ pair[1] = p[l] /\ pair[2] = q[l]
      BY <3>1
    <3> HIDE DEF pair
    <3>5. /\ f[l] \in Seq(S) /\ Len(f[l]) = 2 * k + 2
          /\ \A j \in 1 .. 2 * k : f[l][j] = f[k][j]
          /\ f[l][2 * k + 1] = pair[1] /\ f[l][2 * k + 2] = pair[2]
      <4>1. PICK d \in Nat : d = 2 * k
        BY <3>1
      <4>2. PICK a \in Seq(S) : a = f[k] /\ Len(a) = d
        BY <3>2, <4>1
      <4>3. pair \in Seq(S) /\ Len(pair) = 2 /\ Len(a) = d
        BY <3>4, <4>2
      <4>4. /\ a \o pair \in Seq(S) /\ Len(a \o pair) = d + 2
            /\ \A j \in 1 .. d : (a \o pair)[j] = a[j]
            /\ (a \o pair)[d + 1] = pair[1] /\ (a \o pair)[d + 2] = pair[2]
        BY <4>3, PairAdded
      <4> DEFINE cat == a \o pair
      <4>5. f[l] = cat
        BY <3>3, <4>2
      <4> HIDE DEF cat
      <4> QED BY <4>1, <4>2, <4>4, <4>5 DEF cat
    <3>6. \A i \in 1 .. l : i \in 1 .. k \/ i = l
      BY <3>1
    <3>7. ASSUME NEW i \in 1 .. k
          PROVE  f[l][2 * i - 1] = p[i] /\ f[l][2 * i] = q[i]
      <4>1. 2 * i - 1 \in 1 .. 2 * k /\ 2 * i \in 1 .. 2 * k
        BY <3>1
      <4> QED BY <3>2, <3>5, <4>1
    <3>8. 2 * l - 1 = 2 * k + 1 /\ 2 * l = 2 * k + 2 /\ l = k + 1
      BY <3>1
    <3> HIDE DEF l
    <3>9. \A i \in 1 .. l : f[l][2 * i - 1] = p[i] /\ f[l][2 * i] = q[i]
      BY <3>4, <3>5, <3>6, <3>7, <3>8
    <3>10. Good(l)
      BY <3>5, <3>8, <3>9
    <3> QED BY <3>10 DEF l
  <2> HIDE DEF N, Good
  <2>5. Nat \subseteq N
    BY <2>3, <2>4, SetInduction
  <2>6. Good(n)
    <3>1. n - 1 \in Nat /\ (n - 1) + 1 = n
      BY <1>2
    <3>2. (n - 1) + 1 <= n => Good((n - 1) + 1)
      BY <2>5, <3>1 DEF N
    <3> QED BY <3>1, <3>2
  <2> QED BY <2>2, <2>6 DEF Good
<1> QED BY <1>1, <1>2

-----------------------------------------------------------------------------
(* The operands of a select *)

LEMMA ShapedFacts ==
  ASSUME Shaped
  PROVE  /\ made \in Nat /\ 1 .. made \subseteq Block /\ Block \subseteq Nat \ {0}
         /\ \A p \in Block : /\ blocks[p] \in Seq(1 .. made) /\ DOMAIN blocks[p] = 1 .. Len(blocks[p])
                             /\ Len(blocks[p]) \in Nat
         /\ \A p \in Block : \A i \in DOMAIN blocks[p] :
              blocks[p][i] \in Range(blocks[p]) /\ blocks[p][i] \in Block /\ blocks[p][i] > p
<1>1. made \in Nat /\ 1 .. made \subseteq Block /\ Block \subseteq Nat \ {0}
  BY MaxBlockAssumption DEF Shaped, Block
<1>2. \A p \in Block : /\ blocks[p] \in Seq(1 .. made) /\ DOMAIN blocks[p] = 1 .. Len(blocks[p])
                       /\ Len(blocks[p]) \in Nat
  BY DEF Shaped
<1>3. ASSUME NEW p \in Block, NEW i \in DOMAIN blocks[p]
      PROVE  blocks[p][i] \in Range(blocks[p]) /\ blocks[p][i] \in Block /\ blocks[p][i] > p
  <2>1. blocks[p][i] \in Range(blocks[p])
    BY DEF Range
  <2>2. blocks[p][i] \in 1 .. made
    <3>1. blocks[p] \in Seq(1 .. made)
      BY <1>2
    <3>2. Range(blocks[p]) \subseteq 1 .. made
      BY <3>1, ListFacts
    <3> QED BY <2>1, <3>2
  <2>3. blocks[p][i] > p
    BY <2>1 DEF Shaped, ListShape
  <2> QED BY <1>1, <2>1, <2>2, <2>3
<1> QED BY <1>1, <1>2, <1>3

\* The expression, and then every value with its arm.
LEMMA OperandsOf ==
  ASSUME Shaped, ExpressionFirst, NEW b \in Block, NEW n \in Nat, n = Len(blocks[b]),
         NEW e \in Expression, NEW vs \in [1 .. n -> Value], select[b] = << Select(e, vs) >>
  PROVE  /\ Len(Operands(b)) = 2 * n + 1 /\ Operands(b)[1] = e
         /\ \A i \in 1 .. n : /\ Operands(b)[2 * i] = Constant(vs[i])
                              /\ Operands(b)[2 * i + 1] = Reference(blocks[b][i])
<1> DEFINE S == Expression \cup { Reference(c) : c \in 1 .. made }
           p == [i \in 1 .. n |-> Constant(vs[i])]
           q == [i \in 1 .. n |-> Reference(blocks[b][i])]
           arms == [i \in 1 .. n |-> << p[i], q[i] >>]
           flat == FlattenSeq(arms)
<1>1. p \in [1 .. n -> S]
  BY DEF Expression
<1>2. q \in [1 .. n -> S]
  <2>1. \A i \in 1 .. n : blocks[b][i] \in 1 .. made
    BY ShapedFacts
  <2> QED BY <2>1
<1>3. Operands(b) = << e >> \o flat
  <2>1. select[b][1].expression = e /\ select[b][1].values = vs
    BY DEF Select
  <2>2. [i \in DOMAIN vs |-> << Constant(vs[i]), Reference(blocks[b][i]) >>] = arms
    OBVIOUS
  <2> HIDE DEF arms
  <2> QED BY <2>1, <2>2 DEF Operands
<1>4. \A i \in 1 .. n : p[i] = Constant(vs[i]) /\ q[i] = Reference(blocks[b][i])
  OBVIOUS
<1>5. e \in S
  OBVIOUS
<1>6. arms = [i \in 1 .. n |-> << p[i], q[i] >>]
  OBVIOUS
<1> HIDE DEF S, p, q, arms
<1>7. /\ flat \in Seq(S) /\ Len(flat) = 2 * n
      /\ \A i \in 1 .. n : flat[2 * i - 1] = p[i] /\ flat[2 * i] = q[i]
  <2>1. FlattenSeq(arms) \in Seq(S) /\ SideBySide(FlattenSeq(arms), n, p, q)
    BY <1>1, <1>2, <1>6, FlattenPairs
  <2> QED BY <2>1 DEF SideBySide
<1> HIDE DEF flat
<1> DEFINE one == << e >>
<1>8. one \in Seq(S) /\ Len(one) = 1 /\ one[1] = e
  BY <1>5
<1>9. Operands(b) = one \o flat
  BY <1>3
<1> HIDE DEF one
<1>10. /\ Len(one \o flat) = Len(one) + Len(flat)
       /\ \A i \in 1 .. Len(one) + Len(flat) :
            (one \o flat)[i] = IF i <= Len(one) THEN one[i] ELSE flat[i - Len(one)]
  BY <1>7, <1>8, ConcatProperties
<1>11. /\ Len(Operands(b)) = 1 + 2 * n
       /\ \A i \in 1 .. 1 + 2 * n : Operands(b)[i] = IF i <= 1 THEN one[i] ELSE flat[i - 1]
  BY <1>7, <1>8, <1>9, <1>10
<1>12. Operands(b)[1] = e
  <2>1. 1 \in 1 .. 1 + 2 * n
    OBVIOUS
  <2> QED BY <1>8, <1>11, <2>1
<1>13. ASSUME NEW i \in 1 .. n
       PROVE  /\ Operands(b)[2 * i] = Constant(vs[i])
              /\ Operands(b)[2 * i + 1] = Reference(blocks[b][i])
  <2>1. 2 * i \in 1 .. 1 + 2 * n /\ ~(2 * i <= 1)
    OBVIOUS
  <2>2. 2 * i + 1 \in 1 .. 1 + 2 * n /\ ~(2 * i + 1 <= 1) /\ (2 * i + 1) - 1 = 2 * i
    OBVIOUS
  <2>3. Operands(b)[2 * i] = flat[2 * i - 1] /\ Operands(b)[2 * i + 1] = flat[2 * i]
    BY <1>11, <2>1, <2>2
  <2>4. flat[2 * i - 1] = p[i] /\ flat[2 * i] = q[i]
    BY <1>7
  <2>5. p[i] = Constant(vs[i]) /\ q[i] = Reference(blocks[b][i])
    BY <1>4
  <2> QED BY <2>3, <2>4, <2>5
<1>14. Len(Operands(b)) = 2 * n + 1
  BY <1>11
<1> QED BY <1>12, <1>13, <1>14

LEMMA SelectOf ==
  ASSUME Shaped, NEW b \in Block, select[b] # << >>
  PROVE  \E n \in Nat : \E e \in Expression : \E vs \in [1 .. n -> Value] :
           n = Len(blocks[b]) /\ select[b] = << Select(e, vs) >>
<1>1. Len(blocks[b]) \in Nat
  BY ShapedFacts
<1>2. \E e \in Expression : \E vs \in [1 .. Len(blocks[b]) -> Value] : select[b] = << Select(e, vs) >>
  BY DEF Shaped, SelectShape
<1> QED BY <1>1, <1>2

LEMMA ConstantSelects ==
  ASSUME Shaped, ExpressionFirst, NEW b \in Block
  PROVE  HasConstantSelect(b) <=> ConstantBranch(b)
<1>1. CASE select[b] = << >>
  BY <1>1 DEF HasConstantSelect, ConstantBranch
<1>2. CASE select[b] # << >>
  <2>1. PICK n \in Nat, e \in Expression : \E vs \in [1 .. n -> Value] :
          n = Len(blocks[b]) /\ select[b] = << Select(e, vs) >>
    BY <1>2, SelectOf
  <2>2. PICK vs \in [1 .. n -> Value] : n = Len(blocks[b]) /\ select[b] = << Select(e, vs) >>
    BY <2>1
  <2>3. Operands(b)[1] = e
    BY <2>2, OperandsOf
  <2>4. select[b][1].expression = e
    BY <2>2 DEF Select
  <2> QED BY <1>2, <2>3, <2>4 DEF HasConstantSelect, ConstantBranch
<1> QED BY <1>1, <1>2

\* The arm the callback finds is the one that is taken, whatever the conditions are.
LEMMA ArmIsTaken ==
  ASSUME Shaped, ExpressionFirst, NEW b \in Block, ConstantBranch(b)
  PROVE  /\ \A valuation : Taken(b, valuation) = IF Matches(b) = {} THEN << >> ELSE << Arm(b).of >>
         /\ Matches(b) # {} => Arm(b).of \in Range(blocks[b])
<1>1. PICK n \in Nat, e \in Expression : \E vs \in [1 .. n -> Value] :
        n = Len(blocks[b]) /\ select[b] = << Select(e, vs) >>
  BY SelectOf DEF ConstantBranch
<1>2. PICK vs \in [1 .. n -> Value] : n = Len(blocks[b]) /\ select[b] = << Select(e, vs) >>
  BY <1>1
<1>3. select[b][1].expression = e /\ select[b][1].values = vs
  BY <1>2 DEF Select
<1>4. e = Constant(e.of)
  <2>1. e.is = "constant"
    BY <1>3 DEF ConstantBranch, IsConstant
  <2> QED BY <2>1 DEF Expression, Constant, Dynamic
<1>5. /\ Len(Operands(b)) = 2 * n + 1 /\ Operands(b)[1] = e
      /\ \A i \in 1 .. n : /\ Operands(b)[2 * i] = Constant(vs[i])
                           /\ Operands(b)[2 * i + 1] = Reference(blocks[b][i])
  BY <1>2, OperandsOf
<1> DEFINE hits == { i \in 1 .. n : vs[i] = e.of }
<1>6. DOMAIN blocks[b] = 1 .. n
  BY <1>2, ShapedFacts
<1>7. \A valuation : Taken(b, valuation) = IF hits = {} THEN << >> ELSE << blocks[b][Min(hits)] >>
  <2>1. IsConstant(e)
    BY <1>4 DEF Constant, IsConstant
  <2> QED BY <1>3, <1>6, <2>1 DEF Taken
<1>8. \A i \in 1 .. n : vs[i] = e.of <=> Constant(vs[i]) = e
  BY <1>4 DEF Constant
<1>9. ASSUME NEW i \in hits
      PROVE  2 * i \in Matches(b)
  <2>1. 2 * i \in 2 .. 2 * n + 1 /\ (2 * i) % 2 = 0
    OBVIOUS
  <2>2. Operands(b)[2 * i] = Operands(b)[1]
    BY <1>5, <1>8
  <2> QED BY <1>5, <2>1, <2>2 DEF Matches, Candidates
<1>10. ASSUME NEW c \in Matches(b)
       PROVE  \E i \in hits : c = 2 * i
  <2>1. c \in 2 .. 2 * n + 1 /\ c % 2 = 0 /\ Operands(b)[c] = e
    BY <1>5 DEF Matches, Candidates
  <2>2. PICK i \in 1 .. n : c = 2 * i
    BY <2>1
  <2>3. Constant(vs[i]) = e
    BY <1>5, <2>1, <2>2
  <2>4. i \in hits
    BY <1>8, <2>3
  <2> QED BY <2>2, <2>4
<1>11. hits \in SUBSET Nat /\ Matches(b) \in SUBSET Nat
  BY DEF Matches, Candidates
<1>12. hits = {} <=> Matches(b) = {}
  BY <1>9, <1>10
<1>13. ASSUME Matches(b) # {}
       PROVE  Arm(b).of = blocks[b][Min(hits)] /\ Min(hits) \in 1 .. n
  <2>1. Min(hits) \in hits /\ \A i \in hits : Min(hits) <= i
    BY <1>11, <1>12, <1>13, MinIn
  <2>2. Min(Matches(b)) \in Matches(b) /\ \A c \in Matches(b) : Min(Matches(b)) <= c
    BY <1>11, <1>13, MinIn
  <2>3. PICK i \in hits : Min(Matches(b)) = 2 * i
    BY <1>10, <2>2
  <2>4. 2 * i <= 2 * Min(hits) /\ Min(hits) <= i
    BY <1>9, <2>1, <2>2, <2>3
  <2>5. Min(hits) = i /\ i \in 1 .. n
    BY <2>1, <2>4
  <2>6. Arm(b) = Reference(blocks[b][i])
    BY <1>5, <2>3, <2>5 DEF Arm
  <2> QED BY <2>5, <2>6 DEF Reference
<1>14. Matches(b) # {} => Arm(b).of \in Range(blocks[b])
  BY <1>6, <1>13, ShapedFacts
<1> QED BY <1>7, <1>12, <1>13, <1>14

-----------------------------------------------------------------------------
(* What a rule executes *)

LastBlock == 2 * MaxBlock

\* What block b executes when the blocks have the kinds K, the lists L and the skips S,
\* and f says it of the blocks in the lists.
Step(f, K, L, S, b) ==
  IF K[b] = "statement" THEN IF b \in S THEN << >> ELSE << b >>
  ELSE FlattenSeq([i \in DOMAIN L[b] |-> f[L[b][i]]])

IsRun(f, K, L, S, m) == f = [b \in m .. LastBlock |-> Step(f, K, L, S, b)]

\* Lists that only name later blocks.
Rising(L) == \A b \in Block : \A i \in DOMAIN L[b] : L[b][i] \in Block /\ L[b][i] > b

LEMMA StepOfSame ==
  ASSUME NEW f, NEW g, NEW K, NEW L, NEW S, NEW b, \A i \in DOMAIN L[b] : f[L[b][i]] = g[L[b][i]]
  PROVE  Step(f, K, L, S, b) = Step(g, K, L, S, b)
<1>1. [i \in DOMAIN L[b] |-> f[L[b][i]]] = [i \in DOMAIN L[b] |-> g[L[b][i]]]
  OBVIOUS
<1> QED BY <1>1 DEF Step

LEMMA RunExists ==
  ASSUME NEW K, NEW L, NEW S, Rising(L)
  PROVE  \E f : IsRun(f, K, L, S, 1)
<1> DEFINE N == { n \in Nat : n <= LastBlock => \E f : IsRun(f, K, L, S, LastBlock + 1 - n) }
<1>1. LastBlock \in Nat /\ Block = 1 .. LastBlock
  BY MaxBlockAssumption DEF LastBlock, Block
<1>2. 0 \in N
  <2> DEFINE f == [b \in LastBlock + 1 .. LastBlock |-> Step({}, K, L, S, b)]
  <2>1. LastBlock + 1 - 0 = LastBlock + 1 /\ \A b \in LastBlock + 1 .. LastBlock : FALSE
    BY <1>1
  <2>2. f = [b \in LastBlock + 1 .. LastBlock |-> Step(f, K, L, S, b)]
    BY <2>1
  <2> HIDE DEF f
  <2>3. IsRun(f, K, L, S, LastBlock + 1 - 0)
    BY <2>1, <2>2 DEF IsRun
  <2> QED BY <2>3
<1>3. ASSUME NEW n \in Nat, n \in N
      PROVE  n + 1 \in N
  <2> SUFFICES ASSUME NEW m, m = LastBlock - n, m \in Nat, m > 0, m <= LastBlock
               PROVE  \E g : IsRun(g, K, L, S, m)
    BY <1>1
  <2>1. LastBlock + 1 - n = m + 1 /\ n <= LastBlock
    BY <1>1
  <2>2. PICK f : IsRun(f, K, L, S, m + 1)
    BY <1>3, <2>1
  <2>3. \A b \in m + 1 .. LastBlock : f[b] = Step(f, K, L, S, b)
    BY <2>2 DEF IsRun
  <2> DEFINE g == [b \in m .. LastBlock |-> Step(f, K, L, S, b)]
  <2>4. ASSUME NEW b \in m .. LastBlock
        PROVE  Step(f, K, L, S, b) = Step(g, K, L, S, b)
    <3>1. b \in Block
      BY <1>1
    <3>2. ASSUME NEW i \in DOMAIN L[b]
          PROVE  f[L[b][i]] = g[L[b][i]]
      <4>1. L[b][i] \in Block /\ L[b][i] > b
        BY <3>1 DEF Rising
      <4>2. L[b][i] \in m + 1 .. LastBlock /\ L[b][i] \in m .. LastBlock
        BY <1>1, <4>1
      <4> QED BY <2>3, <4>2
    <3> HIDE DEF g
    <3> QED BY <3>2, StepOfSame
  <2>5. g = [b \in m .. LastBlock |-> Step(g, K, L, S, b)]
    BY <2>4
  <2> HIDE DEF g
  <2> QED BY <2>5 DEF IsRun
<1> HIDE DEF N
<1>4. Nat \subseteq N
  BY <1>2, <1>3, SetInduction
<1>5. LastBlock + 1 - LastBlock = 1 /\ LastBlock <= LastBlock
  BY <1>1
<1> QED BY <1>1, <1>4, <1>5 DEF N

\* Of the first m blocks, only p has another list: one with to in the place of b.
OneReplaced(K, L, S, K2, L2, S2, m, p, b, to) ==
  /\ \A c \in 1 .. m : \A i \in DOMAIN L[c] : L[c][i] <= m
  /\ \A c \in 1 .. m : K2[c] = K[c] /\ (c \in S2 <=> c \in S)
  /\ K[p] # "statement"
  /\ \A c \in 1 .. m : c # p => L2[c] = L[c]
  /\ L2[p] = [i \in DOMAIN L[p] |-> IF L[p][i] = b THEN to ELSE L[p][i]]

\* to executes what b did, as far as the blocks after p execute what they did.
DoesTheSame(f, g, m, p, b, to) ==
  (\A c \in 1 .. m : c > p => g[c] = f[c]) => g[to] = f[b]

Agree(f, g, m) == \A c \in 1 .. m : g[c] = f[c]

\* Then no block executes anything else.
LEMMA RunKept ==
  ASSUME NEW K, NEW L, NEW S, NEW f, IsRun(f, K, L, S, 1), Rising(L),
         NEW K2, NEW L2, NEW S2, NEW g, IsRun(g, K2, L2, S2, 1),
         NEW m \in 0 .. LastBlock, NEW p \in 1 .. m, NEW b, NEW to,
         OneReplaced(K, L, S, K2, L2, S2, m, p, b, to), DoesTheSame(f, g, m, p, b, to)
  PROVE  Agree(f, g, m)
<1> USE DEF OneReplaced, DoesTheSame, Agree
<1> DEFINE N == { n \in Nat : \A c \in 1 .. m : c > m - n => g[c] = f[c] }
<1>1. LastBlock \in Nat /\ Block = 1 .. LastBlock /\ m \in Nat /\ p \in Nat
  BY MaxBlockAssumption DEF LastBlock, Block
<1>2. 0 \in N
  BY <1>1
<1>3. ASSUME NEW n \in Nat, n \in N
      PROVE  n + 1 \in N
  <2> SUFFICES ASSUME NEW c \in 1 .. m, c = m - n
               PROVE  g[c] = f[c]
    BY <1>1, <1>3
  <2>1. c \in 1 .. LastBlock /\ c \in Block /\ c \in Nat
    BY <1>1
  <2>2. f[c] = Step(f, K, L, S, c) /\ g[c] = Step(g, K2, L2, S2, c)
    BY <2>1 DEF IsRun
  <2>3. \A x \in 1 .. m : x > c => g[x] = f[x]
    BY <1>1, <1>3, <2>1
  <2>4. ASSUME NEW i \in DOMAIN L[c]
        PROVE  g[L[c][i]] = f[L[c][i]]
    <3>1. L[c][i] \in Block /\ L[c][i] > c /\ L[c][i] <= m
      BY <2>1 DEF Rising
    <3>2. L[c][i] \in 1 .. m
      BY <1>1, <3>1
    <3> QED BY <2>3, <3>1, <3>2
  <2>5. CASE c # p
    <3>1. L2[c] = L[c] /\ K2[c] = K[c] /\ (c \in S2 <=> c \in S)
      BY <2>5
    <3>2. Step(g, K2, L2, S2, c) = Step(g, K, L, S, c)
      BY <3>1 DEF Step
    <3>3. Step(g, K, L, S, c) = Step(f, K, L, S, c)
      BY <2>4, StepOfSame
    <3> QED BY <2>2, <3>2, <3>3
  <2>6. CASE c = p
    <3>1. K2[p] # "statement" /\ K[p] # "statement"
      OBVIOUS
    <3>2. g[to] = f[b]
      BY <2>3, <2>6
    <3>3. DOMAIN L2[p] = DOMAIN L[p]
      OBVIOUS
    <3>4. ASSUME NEW i \in DOMAIN L[p]
          PROVE  g[L2[p][i]] = f[L[p][i]]
      <4>1. L2[p][i] = IF L[p][i] = b THEN to ELSE L[p][i]
        OBVIOUS
      <4>2. g[L[p][i]] = f[L[p][i]]
        BY <2>4, <2>6
      <4> QED BY <3>2, <4>1, <4>2
    <3>5. [i \in DOMAIN L2[p] |-> g[L2[p][i]]] = [i \in DOMAIN L[p] |-> f[L[p][i]]]
      BY <3>3, <3>4
    <3>6. Step(g, K2, L2, S2, p) = FlattenSeq([i \in DOMAIN L2[p] |-> g[L2[p][i]]])
      BY <3>1 DEF Step
    <3>7. Step(f, K, L, S, p) = FlattenSeq([i \in DOMAIN L[p] |-> f[L[p][i]]])
      BY <3>1 DEF Step
    <3>8. f[p] = Step(f, K, L, S, p) /\ g[p] = Step(g, K2, L2, S2, p)
      BY <2>2, <2>6
    <3>9. g[p] = f[p]
      BY <3>5, <3>6, <3>7, <3>8
    <3> QED BY <2>6, <3>9
  <2> QED BY <2>5, <2>6
<1> HIDE DEF N
<1>4. Nat \subseteq N
  BY <1>2, <1>3, SetInduction
<1>5. m \in N /\ \A c \in 1 .. m : c > m - m
  BY <1>1, <1>4
<1> QED BY <1>5 DEF N

\* The blocks that are executed for a block.
Inner(b, valuation) == IF kind[b] = "branch" THEN Taken(b, valuation) ELSE blocks[b]
Inners(valuation) == [b \in Block |-> Inner(b, valuation)]
Run(K, L, S) == CHOOSE f : IsRun(f, K, L, S, 1)

LEMMA ExecutedIsRun ==
  ASSUME NEW r, NEW valuation, context[r] \in Block
  PROVE  Executed(r, valuation) = Run(kind, Inners(valuation), skips)[context[r]]
<1> DEFINE Listed(b) == IF kind[b] = "branch" THEN Taken(b, valuation) ELSE blocks[b]
           Body(f, b) == IF kind[b] = "statement"
                           THEN IF b \in skips THEN << >> ELSE << b >>
                           ELSE FlattenSeq([i \in DOMAIN Listed(b) |-> f[Listed(b)[i]]])
<1>1. Executed(r, valuation) = (CHOOSE f : f = [b \in Block |-> Body(f, b)])[context[r]]
  BY DEF Executed
<1>2. 1 .. LastBlock = Block
  BY DEF Block, LastBlock
<1>3. ASSUME NEW f, NEW b \in Block
      PROVE  Body(f, b) = Step(f, kind, Inners(valuation), skips, b)
  <2>1. Inners(valuation)[b] = Listed(b)
    BY DEF Inners, Inner
  <2> HIDE DEF Listed
  <2> QED BY <2>1 DEF Step
<1> HIDE DEF Body
<1>4. ASSUME NEW f
      PROVE  [b \in Block |-> Body(f, b)]
               = [b \in 1 .. LastBlock |-> Step(f, kind, Inners(valuation), skips, b)]
  BY <1>2, <1>3
<1>5. \A f : f = [b \in Block |-> Body(f, b)] <=> IsRun(f, kind, Inners(valuation), skips, 1)
  BY <1>4 DEF IsRun
<1>6. (CHOOSE f : f = [b \in Block |-> Body(f, b)])
        = (CHOOSE f : IsRun(f, kind, Inners(valuation), skips, 1))
  BY <1>5
<1> QED BY <1>1, <1>6 DEF Run

\* A rule executes the run of its context.
RunsExecuted ==
  \A r : context[r] \in Block =>
    \A valuation : Executed(r, valuation) = Run(kind, Inners(valuation), skips)[context[r]]

LEMMA ExecutedRuns == RunsExecuted
BY ExecutedIsRun DEF RunsExecuted

LEMMA TakenIsLater ==
  ASSUME Shaped, NEW b \in Block, NEW valuation
  PROVE  \A i \in DOMAIN Taken(b, valuation) : Taken(b, valuation)[i] \in Range(blocks[b])
<1> DEFINE s == select[b][1]
           v == IF IsConstant(s.expression) THEN s.expression.of ELSE valuation[s.expression.of]
           hits == { i \in DOMAIN blocks[b] : s.values[i] = v }
<1>1. Taken(b, valuation) = IF hits = {} THEN << >> ELSE << blocks[b][Min(hits)] >>
  BY DEF Taken
<1>2. hits \in SUBSET Nat /\ hits \subseteq DOMAIN blocks[b]
  BY ShapedFacts
<1> HIDE DEF hits
<1>3. CASE hits = {}
  BY <1>1, <1>3
<1>4. CASE hits # {}
  <2>1. Min(hits) \in DOMAIN blocks[b]
    BY <1>2, <1>4, MinIn
  <2>2. blocks[b][Min(hits)] \in Range(blocks[b])
    BY <2>1, ShapedFacts
  <2> DEFINE x == blocks[b][Min(hits)]
  <2>3. Taken(b, valuation) = << x >> /\ x \in Range(blocks[b])
    BY <1>1, <1>4, <2>2
  <2> HIDE DEF x
  <2> QED BY <2>3
<1> QED BY <1>3, <1>4

\* What is executed for a block is later than it, and no later than the last one made.
LEMMA InnersRise ==
  ASSUME Shaped, NEW valuation, NEW L, L = Inners(valuation)
  PROVE  /\ Rising(L)
         /\ \A c \in Block : \A i \in DOMAIN L[c] : L[c][i] <= made
<1>1. ASSUME NEW c \in Block, NEW i \in DOMAIN L[c]
      PROVE  L[c][i] \in Range(blocks[c])
  <2>1. L[c] = Inner(c, valuation)
    BY DEF Inners
  <2>2. CASE kind[c] = "branch"
    BY <1>1, <2>1, <2>2, TakenIsLater DEF Inner
  <2>3. CASE kind[c] # "branch"
    <3>1. L[c] = blocks[c]
      BY <2>1, <2>3 DEF Inner
    <3> QED BY <1>1, <3>1, ShapedFacts
  <2> QED BY <2>2, <2>3
<1>2. ASSUME NEW c \in Block, NEW x \in Range(blocks[c])
      PROVE  x \in Block /\ x > c /\ x <= made
  <2>1. blocks[c] \in Seq(1 .. made) /\ made \in Nat /\ 1 .. made \subseteq Block
    BY ShapedFacts
  <2>2. x \in 1 .. made
    BY <2>1, ListFacts
  <2>3. x > c
    BY DEF Shaped, ListShape
  <2> QED BY <2>1, <2>2, <2>3
<1> QED BY <1>1, <1>2 DEF Rising

\* A block of the list of p is replaced by one that executes the same.
Exchange(p, b, to) ==
  /\ p \in 1 .. made /\ kind[p] \in SemanticsKind
  /\ b \in 1 .. made /\ b > p /\ kind[b] = "branch"
  /\ to \in Block /\ to > p
  /\ \A c \in Block : c # p => blocks'[c] = blocks[c]
  /\ blocks'[p] = [i \in DOMAIN blocks[p] |-> IF blocks[p][i] = b THEN to ELSE blocks[p][i]]
  /\ \A c \in 1 .. made : kind'[c] = kind[c] /\ (c \in skips' <=> c \in skips)
  /\ \A c \in Block : c > made => kind'[c] # "branch"
  /\ select' = select
  /\ \/ \A valuation : Taken(b, valuation) = << to >> /\ to <= made
     \/ \A valuation : Taken(b, valuation) = << >> /\ kind'[to] = "statement" /\ to \in skips'

LEMMA RunExchanged ==
  ASSUME Shaped, NEW p, NEW b, NEW to, Exchange(p, b, to), NEW valuation, NEW c \in 1 .. made,
         NEW L, L = Inners(valuation), NEW L2, L2 = Inners(valuation)'
  PROVE  Run(kind', L2, skips')[c] = Run(kind, L, skips)[c]
<1>1. /\ Rising(L)
      /\ \A q \in Block : \A i \in DOMAIN L[q] : L[q][i] <= made
  BY InnersRise
<1>2. /\ made \in 0 .. LastBlock /\ made \in Nat /\ 1 .. made \subseteq Block /\ Block = 1 .. LastBlock
      /\ LastBlock \in Nat
  BY MaxBlockAssumption DEF Shaped, LastBlock, Block
<1>3. /\ p \in 1 .. made /\ b \in 1 .. made /\ to \in Block /\ to > p /\ b > p
      /\ kind[p] # "branch" /\ kind[p] # "statement" /\ kind[b] = "branch"
  BY DEF Exchange, SemanticsKind
<1>4. ASSUME NEW q \in Block, q # p
      PROVE  L2[q] = L[q]
  <2>1. L2[q] = Inner(q, valuation)' /\ L[q] = Inner(q, valuation)
    BY DEF Inners
  <2>2. blocks'[q] = blocks[q] /\ select' = select
    BY <1>4 DEF Exchange
  <2>3. Taken(q, valuation)' = Taken(q, valuation)
    BY <2>2 DEF Taken
  <2>4. CASE q \in 1 .. made
    <3>1. kind'[q] = kind[q]
      BY <2>4 DEF Exchange
    <3> QED BY <2>1, <2>2, <2>3, <3>1 DEF Inner
  <2>5. CASE q \notin 1 .. made
    <3>1. q > made
      BY <1>2, <2>5
    <3>2. kind'[q] # "branch" /\ kind[q] # "branch"
      BY <3>1 DEF Exchange, Shaped
    <3> QED BY <2>1, <2>2, <3>2 DEF Inner
  <2> QED BY <2>4, <2>5
<1>5. L2[p] = [i \in DOMAIN L[p] |-> IF L[p][i] = b THEN to ELSE L[p][i]]
  <2>1. L2[p] = Inner(p, valuation)' /\ L[p] = Inner(p, valuation)
    BY <1>2, <1>3 DEF Inners
  <2>2. kind'[p] = kind[p]
    BY <1>3 DEF Exchange
  <2>3. L2[p] = blocks'[p] /\ L[p] = blocks[p]
    BY <1>3, <2>1, <2>2 DEF Inner
  <2> QED BY <2>3 DEF Exchange
<1>6. Rising(L2)
  <2>1. ASSUME NEW q \in Block, NEW i \in DOMAIN L2[q]
        PROVE  L2[q][i] \in Block /\ L2[q][i] > q
    <3>1. CASE q # p
      BY <1>1, <1>4, <2>1, <3>1 DEF Rising
    <3>2. CASE q = p
      <4>1. i \in DOMAIN L[p]
        BY <1>5, <2>1, <3>2
      <4>2. L2[p][i] = to \/ L2[p][i] = L[p][i]
        BY <1>5, <4>1
      <4>3. L[p][i] \in Block /\ L[p][i] > p
        BY <1>1, <1>2, <1>3, <4>1 DEF Rising
      <4> QED BY <1>3, <3>2, <4>2, <4>3
    <3> QED BY <3>1, <3>2
  <2> QED BY <2>1 DEF Rising
<1> DEFINE f == Run(kind, L, skips)
           g == Run(kind', L2, skips')
<1>7. IsRun(f, kind, L, skips, 1)
  BY <1>1, RunExists DEF Run
<1>8. IsRun(g, kind', L2, skips', 1)
  BY <1>6, RunExists DEF Run
<1> HIDE DEF f, g
<1>9. ASSUME \A q \in 1 .. made : q > p => g[q] = f[q]
      PROVE  g[to] = f[b]
  <2>1. b \in Block /\ L[b] = Taken(b, valuation)
    BY <1>2, <1>3 DEF Inners, Inner
  <2>2. f[b] = Step(f, kind, L, skips, b)
    BY <1>2, <1>7, <2>1 DEF IsRun
  <2>3. f[b] = FlattenSeq([i \in DOMAIN L[b] |-> f[L[b][i]]])
    BY <1>3, <2>2 DEF Step
  <2>4. CASE L[b] = << to >> /\ to <= made
    <3>1. [i \in DOMAIN L[b] |-> f[L[b][i]]] = << f[to] >>
      BY <2>4
    <3>2. f[b] = f[to]
      BY <2>3, <3>1, FlattenFew
    <3>3. to \in 1 .. made
      BY <1>2, <1>3, <2>4
    <3> QED BY <1>3, <1>9, <3>2, <3>3
  <2>5. CASE L[b] = << >> /\ kind'[to] = "statement" /\ to \in skips'
    <3>1. [i \in DOMAIN L[b] |-> f[L[b][i]]] = << >>
      BY <2>5
    <3>2. f[b] = << >>
      BY <2>3, <3>1, FlattenFew
    <3>3. g[to] = Step(g, kind', L2, skips', to)
      BY <1>2, <1>3, <1>8 DEF IsRun
    <3> QED BY <2>5, <3>2, <3>3 DEF Step
  <2> QED BY <2>1, <2>4, <2>5 DEF Exchange
<1>10. \A q \in 1 .. made : kind'[q] = kind[q] /\ (q \in skips' <=> q \in skips)
  BY DEF Exchange
<1>11. \A q \in 1 .. made : \A i \in DOMAIN L[q] : L[q][i] <= made
  BY <1>1, <1>2
<1>12. \A q \in 1 .. made : q # p => L2[q] = L[q]
  BY <1>2, <1>4
<1>13. OneReplaced(kind, L, skips, kind', L2, skips', made, p, b, to)
  BY <1>3, <1>5, <1>10, <1>11, <1>12 DEF OneReplaced
<1>14. DoesTheSame(f, g, made, p, b, to)
  BY <1>9 DEF DoesTheSame
<1>15. /\ IsRun(f, kind, L, skips, 1) /\ Rising(L) /\ IsRun(g, kind', L2, skips', 1)
       /\ made \in 0 .. LastBlock /\ p \in 1 .. made
  BY <1>1, <1>2, <1>3, <1>7, <1>8
<1>16. Agree(f, g, made)
  BY <1>13, <1>14, <1>15, RunKept
<1> QED BY <1>16 DEF f, g, Agree

LEMMA MeaningKept ==
  ASSUME Shaped, NEW p, NEW b, NEW to, Exchange(p, b, to),
         NEW r, context[r] \in 1 .. made, context' = context
  PROVE  Meaning(r)' = Meaning(r)
<1>1. 1 .. made \subseteq Block
  BY ShapedFacts
<1>2. RunsExecuted'
  BY ExecutedRuns, PTL
<1>3. ASSUME NEW valuation
      PROVE  Executed(r, valuation)' = Executed(r, valuation)
  <2> DEFINE c == context[r]
  <2>1. SUFFICES ASSUME NEW L, L = Inners(valuation), NEW L2, L2 = Inners(valuation)'
                 PROVE  Executed(r, valuation)' = Executed(r, valuation)
    OBVIOUS
  <2>2. Executed(r, valuation)' = Run(kind', L2, skips')[c]
    BY <1>1, <1>2, <2>1 DEF RunsExecuted
  <2>3. Executed(r, valuation) = Run(kind, L, skips)[c]
    BY <1>1, <2>1, ExecutedRuns DEF RunsExecuted
  <2>4. Run(kind', L2, skips')[c] = Run(kind, L, skips)[c]
    BY <2>1, RunExchanged
  <2> QED BY <2>2, <2>3, <2>4
<1> QED BY <1>3 DEF Meaning

\* A step that changes no block changes no meaning.
LEMMA MeaningUnchanged ==
  ASSUME NEW r, context[r] \in Block, UNCHANGED treeVars
  PROVE  Meaning(r)' = Meaning(r)
<1>1. RunsExecuted'
  BY ExecutedRuns, PTL
<1>2. ASSUME NEW valuation
      PROVE  Executed(r, valuation)' = Executed(r, valuation)
  <2>1. \A b : Taken(b, valuation)' = Taken(b, valuation)
    BY DEF Taken, treeVars
  <2>2. \A b : Inner(b, valuation)' = Inner(b, valuation)
    BY <2>1 DEF Inner, treeVars
  <2>3. Inners(valuation)' = Inners(valuation)
    BY <2>2 DEF Inners
  <2> QED BY <1>1, <2>3, ExecutedRuns DEF treeVars, RunsExecuted
<1> QED BY <1>2 DEF Meaning

-----------------------------------------------------------------------------
(* The clients keep the shape *)

LEMMA ShapedNext ==
  ASSUME Shaped, made' \in made .. LastBlock,
         kind' \in [Block -> BlockKind \cup {"none"}],
         \A q \in 1 .. made : kind'[q] = kind[q],
         \A q \in Block : q > made => (q > made' <=> kind'[q] = "none"),
         parent' \in [Block -> 0 .. made'], scope' \in [Block -> 0 .. made'],
         blocks' = [q \in Block |-> blocks'[q]],
         \A q \in Block : blocks'[q] = blocks[q] \/ blocks'[q] \in Seq(1 .. made'),
         select' = [q \in Block |-> select'[q]],
         skips' \subseteq 1 .. made',
         context' = [r \in Rule |-> context'[r]],
         \A r \in Rule : \/ context'[r] = context[r]
                         \/ context'[r] \in 1 .. made' /\ kind'[context'[r]] = "par",
         PlaceShape', ListShape', SelectShape'
  PROVE  Shaped'
<1>1. made \in Nat /\ LastBlock \in Nat /\ made' \in Nat /\ made <= made' /\ made' \in 0 .. 2 * MaxBlock
  BY ShapedFacts, MaxBlockAssumption DEF LastBlock
<1>2. \A q \in Block : q > made' <=> kind'[q] = "none"
  <2>1. ASSUME NEW q \in Block, q <= made
        PROVE  q > made' <=> kind'[q] = "none"
    <3>1. q \in 1 .. made
      BY <1>1, <2>1, ShapedFacts
    <3>2. kind'[q] = kind[q] /\ kind[q] # "none"
      BY <2>1, <3>1 DEF Shaped
    <3> QED BY <1>1, <3>1, <3>2
  <2> QED BY <1>1, <2>1, ShapedFacts
<1>3. \A q \in Block : blocks'[q] \in Seq(1 .. made')
  <2>1. \A q \in Block : blocks[q] \in Seq(1 .. made)
    BY ShapedFacts
  <2>2. 1 .. made \subseteq 1 .. made'
    BY <1>1
  <2>3. \A q \in Block : blocks[q] \in Seq(1 .. made')
    BY <2>1, <2>2, WiderSeq
  <2> QED BY <2>3
<1>4. context' \in [Rule -> 0 .. made'] /\ \A r \in Rule : context'[r] # Null => kind'[context'[r]] = "par"
  <2>1. ASSUME NEW r \in Rule
        PROVE  context'[r] \in 0 .. made' /\ (context'[r] # Null => kind'[context'[r]] = "par")
    <3>1. CASE context'[r] = context[r]
      <4>1. context[r] \in 0 .. made /\ (context[r] # Null => kind[context[r]] = "par")
        BY DEF Shaped
      <4> QED BY <1>1, <3>1, <4>1 DEF Null
    <3>2. CASE context'[r] \in 1 .. made' /\ kind'[context'[r]] = "par"
      BY <1>1, <3>2
    <3> QED BY <3>1, <3>2
  <2> QED BY <2>1
<1> QED BY <1>1, <1>2, <1>3, <1>4 DEF Shaped

\* Rule::setContext().
LEMMA SetContextShaped ==
  ASSUME Shaped, Building, NEW r \in Rule, SetContext(r)
  PROVE  Shaped'
<1> SUFFICES ASSUME NEW n, n = made + 1
             PROVE  Shaped'
  OBVIOUS
<1>1. /\ made \in Nat /\ MaxBlock \in Nat /\ LastBlock \in Nat /\ n \in Block /\ n \in Nat \ {0}
      /\ made' = n /\ made' \in made .. LastBlock /\ n \notin 1 .. made /\ Block \subseteq Nat \ {0}
      /\ 1 .. made \subseteq Block
  BY ShapedFacts, MaxBlockAssumption DEF SetContext, LastBlock, Block
<1>2. /\ kind' = [kind EXCEPT ![n] = "par"]
      /\ context' = [context EXCEPT ![r] = n]
      /\ UNCHANGED << parent, scope, blocks, select, skips >>
  BY <1>1 DEF SetContext
<1>3. /\ kind' \in [Block -> BlockKind \cup {"none"}]
      /\ \A q \in Block : kind'[q] = IF q = n THEN "par" ELSE kind[q]
  BY <1>1, <1>2 DEF Shaped, BlockKind, SemanticsKind
<1>4. kind[n] = "none" /\ \A q \in Block : q > made => kind[q] = "none"
  BY <1>1 DEF Shaped
<1>5. \A q \in Block : q > made => (q > made' <=> kind'[q] = "none")
  BY <1>1, <1>3, <1>4
<1>6. \A q \in 1 .. made : kind'[q] = kind[q]
  BY <1>1, <1>3
<1>7. /\ parent' \in [Block -> 0 .. made'] /\ scope' \in [Block -> 0 .. made']
      /\ skips' \subseteq 1 .. made'
  <2>1. 0 .. made \subseteq 0 .. made' /\ 1 .. made \subseteq 1 .. made'
    BY <1>1
  <2> QED BY <1>2, <2>1 DEF Shaped
<1>8. /\ blocks' = [q \in Block |-> blocks'[q]] /\ \A q \in Block : blocks'[q] = blocks[q]
      /\ select' = [q \in Block |-> select'[q]]
  BY <1>2 DEF Shaped
<1>9. /\ context' = [q \in Rule |-> context'[q]]
      /\ \A q \in Rule : \/ context'[q] = context[q]
                         \/ context'[q] \in 1 .. made' /\ kind'[context'[q]] = "par"
  <2>1. context \in [Rule -> 0 .. made]
    BY DEF Shaped
  <2>2. context' = [q \in Rule |-> context'[q]] /\ \A q \in Rule : context'[q] = IF q = r THEN n ELSE context[q]
    BY <1>2, <2>1
  <2>3. n \in 1 .. made' /\ kind'[n] = "par"
    BY <1>1, <1>3
  <2> QED BY <2>2, <2>3
<1>10. PlaceShape'
  <2>1. ASSUME NEW b \in Block, kind'[b] \in StatementKind
        PROVE  /\ scope'[b] = Null <=> parent'[b] = Null
               /\ parent'[b] # Null => parent'[b] < b /\ kind'[parent'[b]] \in SemanticsKind
    <3>1. kind[b] \in StatementKind
      BY <1>3, <2>1 DEF StatementKind
    <3>2. /\ scope[b] = Null <=> parent[b] = Null
          /\ parent[b] # Null => parent[b] < b /\ kind[parent[b]] \in SemanticsKind
      BY <3>1 DEF Shaped, PlaceShape
    <3>3. parent[b] # Null => parent[b] \in 1 .. made
      BY <1>1 DEF Shaped, Null
    <3> QED BY <1>2, <1>6, <3>2, <3>3
  <2> QED BY <2>1 DEF PlaceShape
<1>11. ListShape'
  <2>1. ASSUME NEW p \in Block, kind'[p] \notin SemanticsKind \cup {"branch"}
        PROVE  blocks'[p] = << >>
    <3>1. kind[p] \notin SemanticsKind \cup {"branch"}
      BY <1>3, <1>4, <2>1 DEF SemanticsKind
    <3> QED BY <1>2, <3>1 DEF Shaped, ListShape
  <2>2. ASSUME NEW p \in Block, NEW c \in Range(blocks'[p])
        PROVE  /\ c > p
               /\ kind'[p] = "branch" => kind'[c] \in SemanticsKind
               /\ kind'[c] \in StatementKind => parent'[c] = p
               /\ parent'[c] # Null /\ scope'[c] # Null
    <3>1. c \in Range(blocks[p])
      BY <1>2, <2>2
    <3>2. /\ c > p
          /\ kind[p] = "branch" => kind[c] \in SemanticsKind
          /\ kind[c] \in StatementKind => parent[c] = p
          /\ parent[c] # Null /\ scope[c] # Null
      BY <3>1 DEF Shaped, ListShape
    <3>3. blocks[p] \in Seq(1 .. made)
      BY ShapedFacts
    <3>4. c \in 1 .. made
      BY <3>1, <3>3, ListFacts
    <3>5. kind'[p] = "branch" => kind[p] = "branch"
      BY <1>3
    <3> QED BY <1>2, <1>6, <3>2, <3>4, <3>5
  <2> QED BY <2>1, <2>2 DEF ListShape
<1>12. SelectShape'
  <2>1. ASSUME NEW b \in Block, select'[b] # << >>
        PROVE  /\ kind'[b] = "branch"
               /\ \E e \in Expression : \E vs \in [1 .. Len(blocks'[b]) -> Value] :
                    select'[b] = << Select(e, vs) >>
    <3>1. /\ kind[b] = "branch"
          /\ \E e \in Expression : \E vs \in [1 .. Len(blocks[b]) -> Value] :
               select[b] = << Select(e, vs) >>
      BY <1>2, <2>1 DEF Shaped, SelectShape
    <3> QED BY <1>2, <1>3, <1>4, <3>1
  <2> QED BY <2>1 DEF SelectShape
<1> QED BY <1>1, <1>3, <1>5, <1>6, <1>7, <1>8, <1>9, <1>10, <1>11, <1>12, ShapedNext

\* add() of a new block, to an execution semantics block or to a branch.
LEMMA AddShaped ==
  ASSUME Shaped, Building, NEW p \in 1 .. made, NEW s \in 1 .. made, NEW k \in BlockKind,
         made < MaxBlock, made' = made + 1,
         kind' = [kind EXCEPT ![made'] = k],
         parent' = [parent EXCEPT ![made'] = p],
         scope' = [scope EXCEPT ![made'] = s],
         blocks' = [blocks EXCEPT ![p] = Append(@, made')],
         UNCHANGED << select, skips, context >>,
         \/ kind[p] \in SemanticsKind
         \/ kind[p] = "branch" /\ k \in SemanticsKind /\ select[p] = << >>
  PROVE  Shaped'
<1> SUFFICES ASSUME NEW n, n = made + 1
             PROVE  Shaped'
  OBVIOUS
<1>1. /\ made \in Nat /\ MaxBlock \in Nat /\ LastBlock \in Nat /\ n \in Block /\ n \in Nat \ {0}
      /\ made' = n /\ made' \in made .. LastBlock /\ n \notin 1 .. made /\ Block \subseteq Nat \ {0}
      /\ 1 .. made \subseteq Block /\ p \in Block /\ p < n /\ p # Null /\ s # Null /\ p # n
  BY ShapedFacts, MaxBlockAssumption DEF LastBlock, Block, Null
<1>2. /\ kind' \in [Block -> BlockKind \cup {"none"}]
      /\ \A q \in Block : kind'[q] = IF q = n THEN k ELSE kind[q]
  BY <1>1 DEF Shaped
<1>3. kind[n] = "none" /\ \A q \in Block : q > made => kind[q] = "none"
  <2>1. \A q \in Block : q > made <=> kind[q] = "none"
    BY DEF Shaped
  <2>2. n \in Block /\ n > made
    BY <1>1
  <2> QED BY <2>1, <2>2
<1>4. k # "none"
  BY DEF BlockKind, SemanticsKind, StatementKind
<1>5. \A q \in Block : q > made => (q > made' <=> kind'[q] = "none")
  BY <1>1, <1>2, <1>3, <1>4
<1>6. \A q \in 1 .. made : kind'[q] = kind[q]
  BY <1>1, <1>2
<1>7. /\ parent' \in [Block -> 0 .. made'] /\ scope' \in [Block -> 0 .. made']
      /\ \A q \in Block : parent'[q] = IF q = n THEN p ELSE parent[q]
      /\ \A q \in Block : scope'[q] = IF q = n THEN s ELSE scope[q]
      /\ skips' \subseteq 1 .. made'
  <2>1. 0 .. made \subseteq 0 .. made' /\ 1 .. made \subseteq 1 .. made'
        /\ p \in 0 .. made' /\ s \in 0 .. made'
    BY <1>1
  <2> QED BY <1>1, <2>1 DEF Shaped
<1>8. /\ blocks' = [q \in Block |-> blocks'[q]]
      /\ \A q \in Block : blocks'[q] = IF q = p THEN Append(blocks[p], n) ELSE blocks[q]
      /\ select' = [q \in Block |-> select'[q]]
  BY <1>1 DEF Shaped
<1>9. /\ blocks'[p] \in Seq(1 .. made')
      /\ Range(blocks'[p]) = Range(blocks[p]) \cup {n}
  <2>1. blocks[p] \in Seq(1 .. made) /\ 1 .. made \subseteq 1 .. made' /\ n \in 1 .. made'
    BY <1>1, ShapedFacts
  <2>2. blocks'[p] = Append(blocks[p], n)
    BY <1>1, <1>8
  <2>3. /\ \A T : 1 .. made \subseteq T /\ n \in T => Append(blocks[p], n) \in Seq(T)
        /\ Range(Append(blocks[p], n)) = Range(blocks[p]) \cup {n}
    BY <2>1, AppendFacts
  <2> QED BY <2>1, <2>2, <2>3
<1>10. /\ context' = [q \in Rule |-> context'[q]]
       /\ \A q \in Rule : context'[q] = context[q]
  BY DEF Shaped
<1>11. PlaceShape'
  <2>1. ASSUME NEW b \in Block, kind'[b] \in StatementKind
        PROVE  /\ scope'[b] = Null <=> parent'[b] = Null
               /\ parent'[b] # Null => parent'[b] < b /\ kind'[parent'[b]] \in SemanticsKind
    <3>1. CASE b = n
      <4>1. kind'[b] = k /\ parent'[b] = p /\ scope'[b] = s /\ kind'[p] = kind[p]
        BY <1>1, <1>2, <1>6, <1>7, <3>1
      <4>2. kind[p] \in SemanticsKind
        BY <2>1, <4>1 DEF SemanticsKind, StatementKind
      <4> QED BY <1>1, <3>1, <4>1, <4>2
    <3>2. CASE b # n
      <4>1. kind[b] \in StatementKind /\ parent'[b] = parent[b] /\ scope'[b] = scope[b]
        BY <1>2, <1>7, <2>1, <3>2
      <4>2. /\ scope[b] = Null <=> parent[b] = Null
            /\ parent[b] # Null => parent[b] < b /\ kind[parent[b]] \in SemanticsKind
        BY <4>1 DEF Shaped, PlaceShape
      <4>3. parent[b] # Null => parent[b] \in 1 .. made
        <5>1. parent[b] \in 0 .. made
          BY DEF Shaped
        <5> QED BY <1>1, <5>1 DEF Null
      <4> QED BY <1>6, <4>1, <4>2, <4>3
    <3> QED BY <3>1, <3>2
  <2> QED BY <2>1 DEF PlaceShape
<1>12. ListShape'
  <2>1. ASSUME NEW q \in Block, kind'[q] \notin SemanticsKind \cup {"branch"}
        PROVE  blocks'[q] = << >>
    <3>1. q # p
      BY <1>1, <1>2, <2>1
    <3>2. kind[q] \notin SemanticsKind \cup {"branch"}
      BY <1>2, <1>3, <2>1 DEF SemanticsKind
    <3> QED BY <1>8, <3>1, <3>2 DEF Shaped, ListShape
  <2>2. ASSUME NEW q \in Block, NEW c \in Range(blocks'[q])
        PROVE  /\ c > q
               /\ kind'[q] = "branch" => kind'[c] \in SemanticsKind
               /\ kind'[c] \in StatementKind => parent'[c] = q
               /\ parent'[c] # Null /\ scope'[c] # Null
    <3>1. CASE q = p /\ c = n
      <4>1. kind'[q] = "branch" => k \in SemanticsKind
        BY <1>1, <1>2, <3>1 DEF SemanticsKind
      <4> QED BY <1>1, <1>2, <1>7, <3>1, <4>1
    <3>2. CASE ~(q = p /\ c = n)
      <4>1. c \in Range(blocks[q])
        BY <1>8, <1>9, <2>2, <3>2
      <4>2. /\ c > q
            /\ kind[q] = "branch" => kind[c] \in SemanticsKind
            /\ kind[c] \in StatementKind => parent[c] = q
            /\ parent[c] # Null /\ scope[c] # Null
        BY <4>1 DEF Shaped, ListShape
      <4>3. blocks[q] \in Seq(1 .. made)
        BY ShapedFacts
      <4>4. c \in 1 .. made /\ c \in Block /\ c # n /\ c \in Nat /\ q \in Nat
        BY <1>1, <4>1, <4>3, ListFacts
      <4>5. q # n /\ parent'[c] = parent[c] /\ scope'[c] = scope[c]
        BY <1>1, <1>7, <4>2, <4>4
      <4> QED BY <1>2, <4>2, <4>4, <4>5
    <3> QED BY <3>1, <3>2
  <2> QED BY <2>1, <2>2 DEF ListShape
<1>13. SelectShape'
  <2>1. ASSUME NEW b \in Block, select'[b] # << >>
        PROVE  /\ kind'[b] = "branch"
               /\ \E e \in Expression : \E vs \in [1 .. Len(blocks'[b]) -> Value] :
                    select'[b] = << Select(e, vs) >>
    <3>1. /\ kind[b] = "branch"
          /\ \E e \in Expression : \E vs \in [1 .. Len(blocks[b]) -> Value] :
               select[b] = << Select(e, vs) >>
      BY <2>1 DEF Shaped, SelectShape
    <3>2. b # p /\ b # n
      BY <1>3, <2>1, <3>1 DEF SemanticsKind
    <3>3. blocks'[b] = blocks[b] /\ kind'[b] = kind[b]
      BY <1>2, <1>8, <3>2
    <3> QED BY <3>1, <3>3
  <2> QED BY <2>1 DEF SelectShape
<1>14. \A q \in Block : blocks'[q] = blocks[q] \/ blocks'[q] \in Seq(1 .. made')
  BY <1>8, <1>9
<1> QED BY <1>1, <1>2, <1>5, <1>6, <1>7, <1>8, <1>10, <1>11, <1>12, <1>13, <1>14, ShapedNext

\* Statement::add() of the select of a branch, which binds the arms to it once more.
LEMMA AddSelectShaped ==
  ASSUME Shaped, Building, NEW b \in 1 .. made, NEW e \in Expression,
         NEW vs \in [1 .. Len(blocks[b]) -> Value], AddSelect(b, e, vs)
  PROVE  Shaped'
<1>1. /\ made \in Nat /\ LastBlock \in Nat /\ made' = made /\ made' \in made .. LastBlock
      /\ Block \subseteq Nat \ {0} /\ 1 .. made \subseteq Block /\ b \in Block /\ b # Null
  BY ShapedFacts, MaxBlockAssumption DEF LastBlock, Block, Null, Shaped, AddSelect
<1>2. /\ select' = [select EXCEPT ![b] = << Select(e, vs) >>]
      /\ parent' = [c \in Block |-> IF c \in Range(blocks[b]) THEN b ELSE parent[c]]
      /\ scope' = [c \in Block |-> IF c \in Range(blocks[b]) THEN scope[b] ELSE scope[c]]
      /\ UNCHANGED << kind, blocks, skips, context >> /\ kind[b] = "branch"
  BY DEF AddSelect
<1>3. \A q \in Block : q > made => (q > made' <=> kind'[q] = "none")
  BY <1>1, <1>2 DEF Shaped
<1>4. scope[b] # Null /\ scope[b] \in 0 .. made
  <2>1. kind[b] \in StatementKind
    BY <1>2 DEF StatementKind
  <2>2. parent[b] # Null /\ (scope[b] = Null <=> parent[b] = Null)
    BY <1>1, <2>1 DEF Building, Shaped, PlaceShape
  <2> QED BY <1>1, <2>2 DEF Shaped
<1>5. parent' \in [Block -> 0 .. made'] /\ scope' \in [Block -> 0 .. made']
  <2>1. b \in 0 .. made /\ \A c \in Block : parent[c] \in 0 .. made /\ scope[c] \in 0 .. made
    BY <1>1 DEF Shaped
  <2> QED BY <1>1, <1>2, <1>4, <2>1
<1>6. ASSUME NEW c \in Range(blocks[b])
      PROVE  c \in 1 .. made /\ c \in Block /\ kind[c] \in SemanticsKind
  <2>1. blocks[b] \in Seq(1 .. made)
    BY <1>1, ShapedFacts
  <2>2. c \in 1 .. made
    BY <2>1, ListFacts
  <2>3. kind[c] \in SemanticsKind
    BY <1>1, <1>2 DEF Shaped, ListShape
  <2> QED BY <1>1, <2>2, <2>3
<1>7. ASSUME NEW c \in Block, kind[c] \in StatementKind
      PROVE  parent'[c] = parent[c] /\ scope'[c] = scope[c]
  <2>1. c \notin Range(blocks[b])
    BY <1>6, <1>7 DEF SemanticsKind, StatementKind
  <2> QED BY <1>2, <2>1
<1>8. PlaceShape'
  <2>1. ASSUME NEW c \in Block, kind'[c] \in StatementKind
        PROVE  /\ scope'[c] = Null <=> parent'[c] = Null
               /\ parent'[c] # Null => parent'[c] < c /\ kind'[parent'[c]] \in SemanticsKind
    <3>1. /\ scope[c] = Null <=> parent[c] = Null
          /\ parent[c] # Null => parent[c] < c /\ kind[parent[c]] \in SemanticsKind
      BY <1>2, <2>1 DEF Shaped, PlaceShape
    <3> QED BY <1>2, <1>7, <2>1, <3>1
  <2> QED BY <2>1 DEF PlaceShape
<1>9. ListShape'
  <2>1. \A p \in Block : kind'[p] \notin SemanticsKind \cup {"branch"} => blocks'[p] = << >>
    BY <1>2 DEF Shaped, ListShape
  <2>2. ASSUME NEW p \in Block, NEW c \in Range(blocks'[p])
        PROVE  /\ c > p
               /\ kind'[p] = "branch" => kind'[c] \in SemanticsKind
               /\ kind'[c] \in StatementKind => parent'[c] = p
               /\ parent'[c] # Null /\ scope'[c] # Null
    <3>1. c \in Range(blocks[p])
      BY <1>2, <2>2
    <3>2. /\ c > p
          /\ kind[p] = "branch" => kind[c] \in SemanticsKind
          /\ kind[c] \in StatementKind => parent[c] = p
          /\ parent[c] # Null /\ scope[c] # Null
      BY <3>1 DEF Shaped, ListShape
    <3>3. blocks[p] \in Seq(1 .. made)
      BY ShapedFacts
    <3>4. c \in 1 .. made /\ c \in Block
      BY <1>1, <3>1, <3>3, ListFacts
    <3>5. parent'[c] # Null /\ scope'[c] # Null
      BY <1>1, <1>2, <1>4, <3>2, <3>4
    <3>6. kind[c] \in StatementKind => parent'[c] = parent[c]
      BY <1>7, <3>4
    <3> QED BY <1>2, <3>2, <3>5, <3>6
  <2> QED BY <2>1, <2>2 DEF ListShape
<1>10. select' = [q \in Block |-> select'[q]]
       /\ \A q \in Block : select'[q] = IF q = b THEN << Select(e, vs) >> ELSE select[q]
  BY <1>1, <1>2 DEF Shaped
<1>11. SelectShape'
  <2>1. ASSUME NEW c \in Block, select'[c] # << >>
        PROVE  /\ kind'[c] = "branch"
               /\ \E x \in Expression : \E ws \in [1 .. Len(blocks'[c]) -> Value] :
                    select'[c] = << Select(x, ws) >>
    <3>1. CASE c = b
      <4>1. select'[c] = << Select(e, vs) >> /\ kind'[c] = "branch" /\ blocks'[c] = blocks[b]
        BY <1>2, <1>10, <3>1
      <4>2. vs \in [1 .. Len(blocks'[c]) -> Value]
        BY <4>1
      <4> QED BY <4>1, <4>2
    <3>2. CASE c # b
      <4>1. select'[c] = select[c]
        BY <1>10, <3>2
      <4>2. /\ kind[c] = "branch"
            /\ \E x \in Expression : \E ws \in [1 .. Len(blocks[c]) -> Value] :
                 select[c] = << Select(x, ws) >>
        BY <2>1, <4>1 DEF Shaped, SelectShape
      <4> QED BY <1>2, <4>1, <4>2
    <3> QED BY <3>1, <3>2
  <2> QED BY <2>1 DEF SelectShape
<1>12. /\ kind' \in [Block -> BlockKind \cup {"none"}] /\ \A q \in 1 .. made : kind'[q] = kind[q]
       /\ blocks' = [q \in Block |-> blocks'[q]] /\ \A q \in Block : blocks'[q] = blocks[q]
       /\ skips' \subseteq 1 .. made'
       /\ context' = [r \in Rule |-> context'[r]] /\ \A r \in Rule : context'[r] = context[r]
  BY <1>1, <1>2 DEF Shaped
<1> QED BY <1>1, <1>3, <1>5, <1>8, <1>9, <1>10, <1>11, <1>12, ShapedNext

\* What the pass needs of the operations of the clients.
LEMMA BuildShaped ==
  ASSUME Shaped, Building, Build
  PROVE  Shaped' /\ Building' /\ rule' = rule
<1>1. /\ made \in Nat /\ 1 .. made \subseteq Block /\ Block \subseteq Nat \ {0}
      /\ \A c \in Block : Range(blocks[c]) \subseteq 1 .. made
      /\ made <= MaxBlock /\ MaxBlock \in Nat
  <2>1. \A c \in Block : blocks[c] \in Seq(1 .. made)
    BY ShapedFacts
  <2> QED BY <2>1, ShapedFacts, ListFacts, MaxBlockAssumption DEF Building
<1>2. Trees \subseteq 1 .. made
  <2>1. ASSUME NEW r \in Rule, context[r] # Null
        PROVE  Below(context[r]) \subseteq 1 .. made
    <3>1. context[r] \in 1 .. made
      <4>1. context[r] \in 0 .. made
        BY DEF Shaped
      <4> QED BY <1>1, <2>1, <4>1 DEF Null
    <3>2. \A c \in 1 .. made : Range(blocks[c]) \subseteq 1 .. made
      BY <1>1
    <3> QED BY <1>1, <3>1, <3>2, BelowInside
  <2> QED BY <2>1 DEF Trees, Tree
<1>3. UNCHANGED << rule, stack, elimination >>
  BY DEF Build
<1>4. ASSUME NEW r \in Rule, SetContext(r)
      PROVE  Shaped' /\ Building'
  <2>1. made' = made + 1 /\ made' <= MaxBlock /\ parent' = parent
        /\ kind' = [kind EXCEPT ![made'] = "par"]
    BY <1>1, <1>4 DEF SetContext
  <2>2. ASSUME NEW q \in Block, kind'[q] \in StatementKind
        PROVE  parent'[q] # Null
    <3>1. kind'[q] = kind[q]
      BY <2>1, <2>2 DEF Shaped, StatementKind
    <3> QED BY <2>1, <2>2, <3>1 DEF Building
  <2> QED BY <1>3, <1>4, <2>1, <2>2, SetContextShaped DEF Building
<1>5. ASSUME NEW p \in 1 .. made, NEW s \in 1 .. made, NEW k \in BlockKind,
             made < MaxBlock, made' = made + 1,
             kind' = [kind EXCEPT ![made'] = k],
             parent' = [parent EXCEPT ![made'] = p]
      PROVE  Building'
  <2>1. made' \in Block /\ p # Null
    BY <1>1, <1>5 DEF Block, Null
  <2>2. ASSUME NEW q \in Block, kind'[q] \in StatementKind
        PROVE  parent'[q] # Null
    <3>1. CASE q = made'
      BY <1>5, <2>1, <3>1 DEF Shaped
    <3>2. CASE q # made'
      <4>1. kind'[q] = kind[q] /\ parent'[q] = parent[q]
        BY <1>5, <3>2 DEF Shaped
      <4> QED BY <2>2, <4>1 DEF Building
    <3> QED BY <3>1, <3>2
  <2> QED BY <1>1, <1>3, <1>5, <2>2 DEF Building
<1>6. ASSUME NEW p \in Trees, NEW k \in {"par"} \cup StatementKind, AddNew(p, k)
      PROVE  Shaped' /\ Building'
  <2>1. p \in 1 .. made /\ k \in BlockKind /\ kind[p] \in SemanticsKind
    BY <1>2, <1>6 DEF BlockKind, SemanticsKind, AddNew, IsSemantics
  <2>2. /\ made < MaxBlock /\ made' = made + 1
        /\ kind' = [kind EXCEPT ![made'] = k]
        /\ parent' = [parent EXCEPT ![made'] = p]
        /\ scope' = [scope EXCEPT ![made'] = p]
        /\ blocks' = [blocks EXCEPT ![p] = Append(@, made')]
        /\ UNCHANGED << select, skips, context >>
    BY <1>6 DEF AddNew
  <2> QED BY <1>5, <2>1, <2>2, AddShaped
<1>7. ASSUME NEW b \in Trees, NEW k \in SemanticsKind, AddArm(b, k)
      PROVE  Shaped' /\ Building'
  <2>1. /\ b \in 1 .. made /\ k \in BlockKind /\ kind[b] = "branch" /\ select[b] = << >>
        /\ scope[b] # Null
    BY <1>2, <1>7 DEF BlockKind, AddArm
  <2>2. scope[b] \in 1 .. made
    <3>1. scope[b] \in 0 .. made
      BY <1>1, <2>1 DEF Shaped
    <3> QED BY <1>1, <2>1, <3>1 DEF Null
  <2>3. /\ made < MaxBlock /\ made' = made + 1
        /\ kind' = [kind EXCEPT ![made'] = k]
        /\ parent' = [parent EXCEPT ![made'] = b]
        /\ scope' = [scope EXCEPT ![made'] = scope[b]]
        /\ blocks' = [blocks EXCEPT ![b] = Append(@, made')]
        /\ UNCHANGED << select, skips, context >>
    BY <1>7 DEF AddArm
  <2> QED BY <1>5, <2>1, <2>2, <2>3, AddShaped
<1>8. ASSUME NEW b \in Trees, NEW e \in Expression, NEW vs \in [1 .. Len(blocks[b]) -> Value],
             AddSelect(b, e, vs)
      PROVE  Shaped' /\ Building'
  <2>1. b \in 1 .. made
    BY <1>2
  <2>2. made' = made /\ kind' = kind
        /\ parent' = [c \in Block |-> IF c \in Range(blocks[b]) THEN b ELSE parent[c]]
    BY <1>8 DEF AddSelect
  <2>3. ASSUME NEW q \in Block, kind'[q] \in StatementKind
        PROVE  parent'[q] # Null
    BY <1>1, <2>1, <2>2, <2>3 DEF Building, Null
  <2> QED BY <1>1, <1>3, <1>8, <2>1, <2>2, <2>3, AddSelectShaped DEF Building
<1>9. Shaped' /\ Building'
  BY <1>4, <1>6, <1>7, <1>8 DEF Build
<1> QED BY <1>3, <1>9

-----------------------------------------------------------------------------
(* The pass starts *)

\* A list only names later blocks, so the levels are complete before there are as many of
\* them as blocks.
LEMMA BelowClosed ==
  ASSUME Shaped, NEW b \in 1 .. made
  PROVE  b \in Below(b) /\ \A c \in Below(b) : Range(blocks[c]) \subseteq Below(b)
<1>1. /\ made \in Nat /\ b \in Nat /\ b > 0 /\ 1 .. made \subseteq Block /\ Block \subseteq Nat \ {0}
  BY ShapedFacts
<1>2. PICK f : Level(b, f, made) /\ Below(b) = f[made]
  BY <1>1, BelowIsLevel
<1>3. \A k \in 0 .. made :
        f[k] = IF k = 0 THEN {b} ELSE f[k - 1] \cup UNION { Range(blocks[c]) : c \in f[k - 1] }
  BY <1>2 DEF Level
<1>4. \A c \in Block : \A x \in Range(blocks[c]) : x > c /\ x \in 1 .. made
  <2>1. ASSUME NEW c \in Block, NEW x \in Range(blocks[c])
        PROVE  x > c /\ x \in 1 .. made
    <3>1. blocks[c] \in Seq(1 .. made)
      BY ShapedFacts
    <3>2. x \in 1 .. made
      BY <3>1, ListFacts
    <3> QED BY <3>2 DEF Shaped, ListShape
  <2> QED BY <2>1
<1> DEFINE Steady(x) == x \in b .. made /\ \A k \in x - b .. made : x \in f[k]
           N == { n \in Nat : n <= made => \A x \in f[n] : Steady(x) }
           M == { n \in Nat : n <= made => b \in f[n] }
<1>5. \A n \in 0 .. made : b \in f[n]
  <2>1. 0 \in M
    <3>1. 0 \in 0 .. made
      BY <1>1
    <3>2. f[0] = {b}
      BY <1>3, <3>1
    <3> QED BY <3>2
  <2>2. ASSUME NEW n \in Nat, n \in M
        PROVE  n + 1 \in M
    <3> SUFFICES ASSUME NEW k, k = n + 1, k <= made
                 PROVE  b \in f[k]
      OBVIOUS
    <3>1. k \in 0 .. made /\ k # 0 /\ k - 1 = n /\ n <= made
      BY <1>1
    <3>2. b \in f[k - 1]
      BY <2>2, <3>1
    <3> QED BY <1>3, <3>1, <3>2
  <2> HIDE DEF M
  <2>3. Nat \subseteq M
    BY <2>1, <2>2, SetInduction
  <2> QED BY <1>1, <2>3 DEF M
<1>6. 0 \in N
  <2>1. Steady(b)
    <3>1. \A k \in b - b .. made : k \in 0 .. made
      BY <1>1
    <3> QED BY <1>1, <1>5, <3>1
  <2>2. f[0] = {b}
    <3>1. 0 \in 0 .. made
      BY <1>1
    <3> QED BY <1>3, <3>1
  <2> HIDE DEF Steady
  <2> QED BY <2>1, <2>2
<1>7. ASSUME NEW c, Steady(c), NEW x \in Range(blocks[c])
      PROVE  Steady(x)
  <2>1. c \in Nat /\ c >= b /\ c \in Block
    BY <1>1, <1>7
  <2>2. x > c /\ x \in 1 .. made /\ x \in Nat
    BY <1>1, <1>4, <2>1
  <2>3. ASSUME NEW k \in x - b .. made
        PROVE  x \in f[k]
    <3>1. k \in 0 .. made /\ k # 0 /\ k - 1 \in c - b .. made
      BY <1>1, <2>1, <2>2
    <3>2. c \in f[k - 1]
      BY <1>7, <3>1
    <3>3. f[k] = f[k - 1] \cup UNION { Range(blocks[d]) : d \in f[k - 1] }
      BY <1>3, <3>1
    <3> QED BY <1>7, <3>2, <3>3
  <2> QED BY <1>1, <2>1, <2>2, <2>3
<1>8. ASSUME NEW n \in Nat, n \in N
      PROVE  n + 1 \in N
  <2> HIDE DEF Steady
  <2> SUFFICES ASSUME NEW k, k = n + 1, k <= made, NEW x \in f[k]
               PROVE  Steady(x)
    OBVIOUS
  <2>1. k \in 0 .. made /\ k # 0 /\ k - 1 = n /\ n <= made
    BY <1>1
  <2>2. \A c \in f[k - 1] : Steady(c)
    BY <1>8, <2>1
  <2>3. x \in f[k - 1] \cup UNION { Range(blocks[c]) : c \in f[k - 1] }
    BY <1>3, <2>1
  <2> QED BY <1>7, <2>2, <2>3
<1> HIDE DEF N, M
<1>9. Nat \subseteq N
  BY <1>6, <1>8, SetInduction
<1>10. \A x \in f[made] : Steady(x)
  BY <1>1, <1>9 DEF N
<1>11. ASSUME NEW c \in f[made], NEW x \in Range(blocks[c])
       PROVE  x \in f[made]
  <2>1. Steady(x)
    BY <1>7, <1>10
  <2>2. x - b <= made /\ x - b \in Int
    BY <1>1, <2>1
  <2> QED BY <1>1, <2>1, <2>2
<1>12. b \in f[made]
  BY <1>1, <1>5
<1> QED BY <1>2, <1>11, <1>12

\* A step that changes no block.
LEMMA ShapedUnchanged ==
  ASSUME Shaped, UNCHANGED treeVars
  PROVE  Shaped'
<1>1. PlaceShape'
  BY DEF Shaped, treeVars, PlaceShape
<1>2. ListShape'
  BY DEF Shaped, treeVars, ListShape
<1>3. SelectShape'
  <2>1. SelectShape /\ select' = select /\ kind' = kind /\ blocks' = blocks
    BY DEF Shaped, treeVars
  <2> QED BY <2>1, Zenon DEF SelectShape
<1> QED BY <1>1, <1>2, <1>3 DEF Shaped, treeVars

LEMMA OptimizeShaped ==
  ASSUME Shaped, Building, NEW r \in Rule, Optimize(r), ~EqualSiblings
  PROVE  Shaped' /\ Passing'
<1> SUFFICES ASSUME NEW T, T = Tree(r), NEW top, top = context[r]
             PROVE  Shaped' /\ Passing'
  OBVIOUS
<1>1. /\ Consistent(r) /\ \A b \in BranchesOf(r) : ConstantBranch(b) => Alone(b)
      /\ rule' = r /\ stack' = << Frame(top, 0) >> /\ meaning' = Meaning(r)
      /\ branches' = BranchesOf(r) /\ UNCHANGED treeVars /\ elimination' = elimination
  BY DEF Optimize
<1>2. /\ made' = made /\ kind' = kind /\ parent' = parent /\ blocks' = blocks /\ scope' = scope
      /\ select' = select /\ skips' = skips /\ context' = context /\ ruleOf' = ruleOf
  BY <1>1 DEF treeVars
<1>3. /\ made \in Nat /\ 1 .. made \subseteq Block /\ made <= MaxBlock /\ elimination = 0
      /\ top \in 1 .. made /\ top \in Block /\ kind[top] = "par" /\ ruleOf[top] = r /\ top # Null
      /\ MaxBlock \in Nat
  <2>1. top \in 0 .. made /\ top # Null
    BY <1>1 DEF Shaped, Consistent
  <2>2. made \in Nat /\ 1 .. made \subseteq Block
    BY ShapedFacts
  <2> QED BY <1>1, <2>1, <2>2, MaxBlockAssumption DEF Shaped, Consistent, Building, Null
<1>4. T = Below(top)
  BY <1>3 DEF Tree
<1>5. T \subseteq 1 .. made
  <2>1. \A c \in 1 .. made : Range(blocks[c]) \subseteq 1 .. made
    <3>1. \A c \in Block : blocks[c] \in Seq(1 .. made)
      BY ShapedFacts
    <3> QED BY <1>3, <3>1, ListFacts
  <2> QED BY <1>3, <1>4, <2>1, BelowInside
<1>6. top \in T /\ \A c \in T : Range(blocks[c]) \subseteq T
  BY <1>3, <1>4, BelowClosed
<1>7. \A c \in T : Verified(c)
  BY <1>1 DEF Consistent
<1>8. BranchesOf(r) = { b \in T : kind[b] = "branch" }
  BY DEF BranchesOf
<1>9. Shaped'
  BY <1>1, ShapedUnchanged
<1>10. stack' \in Seq(FrameOf(made)) /\ Len(stack') = 1
       /\ stack'[1] = Frame(top, 0) /\ DOMAIN stack' = {1}
  <2>1. Frame(top, 0) \in FrameOf(made)
    BY <1>3 DEF Frame, FrameOf
  <2> QED BY <1>1, <2>1
<1>11. Region(T)'
  <2>1. \A c \in T : kind[c] = "branch" => c \in branches' /\ select[c] # << >>
    BY <1>1, <1>7, <1>8 DEF Verified
  <2>2. \A c \in T : kind[c] \in SemanticsKind => blocks[c] # << >>
    BY <1>7 DEF Verified
  <2>3. ASSUME NEW c \in T, ConstantBranch(c)' 
        PROVE  Alone(c)'
    <3>1. ConstantBranch(c)
      BY <1>2, <2>3 DEF ConstantBranch
    <3>2. c \in Block
      BY <1>3, <1>5
    <3>3. kind[c] = "branch"
      BY <3>1, <3>2 DEF Shaped, SelectShape, ConstantBranch
    <3>4. Alone(c)
      BY <1>1, <1>8, <3>1, <3>3
    <3> QED BY <1>2, <3>4 DEF Alone
  <2>4. \A i \in DOMAIN stack' : stack'[i].block \in T
    BY <1>6, <1>10 DEF Frame
  <2>5. context'[rule'] \in T
    BY <1>1, <1>2, <1>6
  <2> QED BY <1>2, <1>6, <2>1, <2>2, <2>3, <2>4, <2>5 DEF Region
<1>12. Frames'
  BY <1>2, <1>3, <1>10 DEF Frames, Frame, StatementKind
<1>13. branches' \subseteq 1 .. MaxBlock /\ \A b \in branches' : kind'[b] = "branch"
  BY <1>1, <1>2, <1>3, <1>5, <1>8
<1>14. elimination' = Cardinality(Gone')
  <2>1. ASSUME NEW b \in branches'
        PROVE  parent'[b] # Null
    <3>1. kind[b] = "branch" /\ b \in Block
      BY <1>1, <1>3, <1>5, <1>8, <2>1
    <3> QED BY <1>2, <3>1 DEF Building, StatementKind
  <2>2. Gone' = {}
    BY <2>1 DEF Gone
  <2> QED BY <1>1, <1>3, <2>2, FS_EmptySet
<1>15. ASSUME NEW W \in SUBSET Block, Covers(W)'
       PROVE  Left' \subseteq W
  <2>1. \A c \in W : Range(blocks[c]) \subseteq W
    BY <1>2, <1>15 DEF Covers
  <2>2. top \in W
    BY <1>10, <1>15 DEF Covers, Frame
  <2>3. T \subseteq W
    BY <1>3, <1>4, <2>1, <2>2, BelowInside
  <2>4. Left' \subseteq branches'
    BY DEF Left
  <2> QED BY <1>1, <1>8, <2>3, <2>4
<1>16. Meaning(r)' = Meaning(r)
  BY <1>1, <1>3, MeaningUnchanged
<1>17. (Meaning(rule) = meaning)'
  BY <1>1, <1>16
<1>18. /\ rule' \in Rule /\ context'[rule'] # Null /\ ruleOf'[context'[rule']] = rule'
       /\ made' <= MaxBlock + elimination'
  BY <1>1, <1>2, <1>3
<1>19. \E R \in SUBSET (1 .. made') : Region(R)'
  BY <1>2, <1>5, <1>11
<1>20. Passing'
  BY <1>12, <1>13, <1>14, <1>15, <1>17, <1>18, <1>19 DEF Passing
<1> QED BY <1>9, <1>20

-----------------------------------------------------------------------------
(* The traversal *)

\* Facts about stacks.
LEMMA StackFacts ==
  ASSUME NEW S, NEW s \in Seq(S)
  PROVE  /\ Len(s) \in Nat /\ DOMAIN s = 1 .. Len(s) /\ \A i \in 1 .. Len(s) : s[i] \in S
         /\ s # << >> => Len(s) # 0
  OBVIOUS

LEMMA PushFacts ==
  ASSUME NEW S, NEW s \in Seq(S), NEW x \in S, NEW l, l = Len(s), NEW t, t = Append(s, x)
  PROVE  /\ t \in Seq(S) /\ Len(t) = l + 1 /\ DOMAIN t = 1 .. l + 1
         /\ \A i \in 1 .. l : t[i] = s[i]
         /\ t[l + 1] = x
  OBVIOUS

LEMMA PopFacts ==
  ASSUME NEW S, NEW s \in Seq(S), NEW l, l = Len(s), l # 0, NEW t, t = SubSeq(s, 1, l - 1)
  PROVE  /\ t \in Seq(S) /\ Len(t) = l - 1 /\ DOMAIN t = 1 .. l - 1
         /\ \A i \in 1 .. l - 1 : t[i] = s[i] /\ i \in 1 .. l /\ i # l
<1>1. l \in Nat /\ l - 1 \in Nat /\ \A i \in 1 .. l - 1 : i \in 1 .. l /\ i # l
  OBVIOUS
<1>2. Len(t) = l - 1 /\ \A i \in 1 .. l - 1 : t[i] = s[i]
  BY <1>1
<1>3. t \in Seq(S)
  BY <1>1, <1>2
<1> QED BY <1>1, <1>2, <1>3

MovedTo(t, s, m, l, a) ==
  /\ t \in Seq(FrameOf(m)) /\ Len(t) = l /\ DOMAIN t = 1 .. l
  /\ \A i \in 1 .. l : t[i].block = s[i].block
  /\ \A i \in 1 .. l : t[i].at = IF i = l THEN a ELSE s[i].at

LEMMA MoveFacts ==
  ASSUME NEW m, NEW s \in Seq(FrameOf(m)), NEW l, l = Len(s), l # 0, NEW a \in Nat,
         NEW t, t = [s EXCEPT ![l].at = a]
  PROVE  MovedTo(t, s, m, l, a)
<1>1. l \in 1 .. l /\ DOMAIN s = 1 .. l /\ l \in Nat /\ \A i \in 1 .. l : s[i] \in FrameOf(m)
  BY StackFacts
<1>2. t = [i \in 1 .. l |-> IF i = l THEN [s[l] EXCEPT !.at = a] ELSE s[i]]
  BY <1>1
<1>3. \A f \in FrameOf(m) : /\ [f EXCEPT !.at = a] \in FrameOf(m)
                           /\ [f EXCEPT !.at = a].at = a /\ [f EXCEPT !.at = a].block = f.block
  BY DEF FrameOf
<1> DEFINE top == [s[l] EXCEPT !.at = a]
<1>4. top \in FrameOf(m) /\ top.at = a /\ top.block = s[l].block
  BY <1>1, <1>3
<1> HIDE DEF top
<1>5. t = [i \in 1 .. l |-> IF i = l THEN top ELSE s[i]]
  BY <1>2 DEF top
<1>6. \A i \in 1 .. l : t[i] \in FrameOf(m)
  BY <1>1, <1>4, <1>5
<1>7. t \in Seq(FrameOf(m)) /\ Len(t) = l
  BY <1>1, <1>5, <1>6
<1> QED BY <1>1, <1>4, <1>5, <1>7 DEF MovedTo

LEMMA TopFacts ==
  ASSUME Shaped, Frames, stack # << >>
  PROVE  /\ Len(stack) \in Nat \ {0} /\ DOMAIN stack = 1 .. Len(stack) /\ Len(stack) \in DOMAIN stack
         /\ Top = stack[Len(stack)] /\ Top.block \in 1 .. made /\ Top.at \in Nat
         /\ \A i \in DOMAIN stack : stack[i].block \in 1 .. made /\ stack[i].at \in Nat
         /\ \A i \in DOMAIN stack : stack[i].at = 0 => i = Len(stack)
         /\ Top.at = 0 /\ kind[Top.block] \in StatementKind => parent[Top.block] # Null
<1>1. stack \in Seq(FrameOf(made))
  BY DEF Frames
<1>2. /\ Len(stack) \in Nat /\ DOMAIN stack = 1 .. Len(stack) /\ Len(stack) # 0
      /\ \A i \in 1 .. Len(stack) : stack[i] \in FrameOf(made)
  BY <1>1, StackFacts
<1>3. /\ Len(stack) \in Nat \ {0} /\ Len(stack) \in DOMAIN stack
      /\ \A i \in DOMAIN stack : stack[i].block \in 1 .. made /\ stack[i].at \in Nat
  BY <1>2 DEF FrameOf
<1> QED BY <1>2, <1>3 DEF Frames, Top

\* A step of the traversal that changes no block.
LEMMA QuietStep ==
  ASSUME Shaped, Passing, UNCHANGED << treeVars, rule, elimination, meaning, branches >>, Frames',
         \A R \in SUBSET (1 .. made) : Region(R) => \A i \in DOMAIN stack' : stack'[i].block \in R,
         \A W \in SUBSET Block : Covers(W)' =>
           \E V \in SUBSET Block : Covers(V) /\ (Left \subseteq V => Left \subseteq W)
  PROVE  Shaped' /\ Passing'
<1>1. /\ made' = made /\ kind' = kind /\ parent' = parent /\ blocks' = blocks /\ scope' = scope
      /\ select' = select /\ skips' = skips /\ context' = context /\ ruleOf' = ruleOf
      /\ UNCHANGED << rule, elimination, meaning, branches >> /\ UNCHANGED treeVars
  BY DEF treeVars
<1>2. Shaped'
  BY <1>1, ShapedUnchanged
<1>3. PICK R \in SUBSET (1 .. made) : Region(R)
  BY DEF Passing
<1>4. Region(R)'
  BY <1>1, <1>3 DEF Region, ConstantBranch, Alone
<1>5. Gone' = Gone /\ Left' = Left
  BY <1>1 DEF Gone, Left, ConstantBranch
<1>6. \A W \in SUBSET Block : Covers(W)' => Left' \subseteq W
  <2>1. \A V \in SUBSET Block : Covers(V) => Left \subseteq V
    BY DEF Passing
  <2> QED BY <1>5, <2>1
<1>7. (Meaning(rule) = meaning)'
  <2>1. context[rule] \in Block
    <3>1. rule \in Rule /\ context[rule] # Null /\ context[rule] \in 0 .. made
      BY DEF Passing, Shaped
    <3> QED BY <3>1, ShapedFacts DEF Null
  <2>2. SUFFICES ASSUME NEW q, q = rule
                 PROVE  (Meaning(rule) = meaning)'
    OBVIOUS
  <2>3. Meaning(q)' = Meaning(q)
    BY <1>1, <2>1, <2>2, MeaningUnchanged
  <2> QED BY <1>1, <2>2, <2>3 DEF Passing
<1>8. \E X \in SUBSET (1 .. made') : Region(X)'
  BY <1>1, <1>4
<1>9. /\ rule' \in Rule /\ context'[rule'] # Null /\ ruleOf'[context'[rule']] = rule'
      /\ branches' \subseteq 1 .. MaxBlock /\ \A b \in branches' : kind'[b] = "branch"
      /\ elimination' = Cardinality(Gone') /\ made' <= MaxBlock + elimination'
  BY <1>1, <1>5 DEF Passing
<1> QED BY <1>2, <1>6, <1>7, <1>8, <1>9 DEF Passing

LEMMA VisitInstructionsKeeps ==
  ASSUME Shaped, Passing, VisitInstructions, ExpressionFirst
  PROVE  Shaped' /\ Passing'
<1> SUFFICES ASSUME NEW l, l = Len(stack), NEW b, b = Top.block
             PROVE  Shaped' /\ Passing'
  OBVIOUS
<1>1. /\ stack # << >> /\ Top.at = 0 /\ ~HasConstantSelect(b)
      /\ stack' = [stack EXCEPT ![l].at = 1]
      /\ UNCHANGED << treeVars, rule, elimination, meaning, branches >>
      /\ made' = made /\ kind' = kind /\ parent' = parent /\ blocks' = blocks
  BY DEF VisitInstructions, Moved, treeVars
<1>2. Frames
  BY DEF Passing
<1>3. /\ l \in Nat \ {0} /\ DOMAIN stack = 1 .. l /\ b \in 1 .. made /\ b = stack[l].block
      /\ b \in Block
      /\ \A i \in 1 .. l : stack[i].block \in 1 .. made /\ stack[i].at \in Nat
      /\ \A i \in 1 .. l : stack[i].at = 0 => i = l
      /\ stack \in Seq(FrameOf(made))
  BY <1>1, <1>2, TopFacts, ShapedFacts DEF Frames
<1>4. /\ stack' \in Seq(FrameOf(made)) /\ DOMAIN stack' = 1 .. l /\ Len(stack') = l
      /\ \A i \in 1 .. l : stack'[i].block = stack[i].block
      /\ \A i \in 1 .. l : stack'[i].at = IF i = l THEN 1 ELSE stack[i].at
  <2>1. /\ stack \in Seq(FrameOf(made)) /\ l = Len(stack) /\ l # 0 /\ 1 \in Nat
        /\ stack' = [stack EXCEPT ![l].at = 1]
    BY <1>1, <1>3
  <2>2. MovedTo(stack', stack, made, l, 1)
    BY <2>1, MoveFacts
  <2> QED BY <2>2 DEF MovedTo
<1>5. Frames'
  BY <1>1, <1>3, <1>4 DEF Frames
<1>6. \A R \in SUBSET (1 .. made) : Region(R) => \A i \in DOMAIN stack' : stack'[i].block \in R
  BY <1>3, <1>4 DEF Region
<1>7. ASSUME NEW W \in SUBSET Block, Covers(W)'
      PROVE  \E V \in SUBSET Block : Covers(V) /\ (Left \subseteq V => Left \subseteq W)
  <2> DEFINE V == W \cup {b}
  <2>1. \A c \in W : Range(blocks[c]) \subseteq W
    BY <1>1, <1>7 DEF Covers
  <2>2. \A i \in 1 .. l : \A j \in DOMAIN blocks[stack[i].block] :
          j >= stack'[i].at => blocks[stack[i].block][j] \in W
    BY <1>1, <1>4, <1>7 DEF Covers
  <2>3. \A j \in DOMAIN blocks[b] : j >= 1 /\ j >= 0
    BY <1>3, ShapedFacts
  <2>4. \A j \in DOMAIN blocks[b] : blocks[b][j] \in W
    <3>1. l \in 1 .. l /\ stack'[l].at = 1 /\ stack[l].block = b
      BY <1>3, <1>4
    <3> QED BY <2>2, <2>3, <3>1
  <2>5. Range(blocks[b]) \subseteq W
    BY <2>4, ListFacts
  <2>6. Covers(V)
    <3>1. \A c \in V : Range(blocks[c]) \subseteq V
      BY <2>1, <2>5
    <3>2. \A i \in DOMAIN stack : stack[i].at = 0 => stack[i].block \in V
      BY <1>3
    <3>3. ASSUME NEW i \in DOMAIN stack, NEW j \in DOMAIN blocks[stack[i].block], j >= stack[i].at
          PROVE  blocks[stack[i].block][j] \in V
      BY <1>3, <1>4, <2>2, <2>4, <3>3
    <3> QED BY <3>1, <3>2, <3>3 DEF Covers
  <2>7. b \notin Left
    BY <1>1, <1>3, ConstantSelects DEF Left
  <2>8. V \in SUBSET Block /\ (Left \subseteq V => Left \subseteq W)
    BY <1>3, <2>7
  <2> QED BY <2>6, <2>8
<1> QED BY <1>1, <1>5, <1>6, <1>7, QuietStep

LEMMA VisitBlockKeeps ==
  ASSUME Shaped, Passing, VisitBlock
  PROVE  Shaped' /\ Passing'
<1> SUFFICES ASSUME NEW l, l = Len(stack), NEW b, b = Top.block, NEW a, a = Top.at,
                    NEW x, x = blocks[b][a]
             PROVE  Shaped' /\ Passing'
  OBVIOUS
<1>1. /\ stack # << >> /\ a \in DOMAIN blocks[b]
      /\ stack' = Append([stack EXCEPT ![l].at = a + 1], Frame(x, 0))
      /\ UNCHANGED << treeVars, rule, elimination, meaning, branches >>
      /\ made' = made /\ kind' = kind /\ parent' = parent /\ blocks' = blocks
  BY DEF VisitBlock, Moved, treeVars
<1>2. Frames
  BY DEF Passing
<1>3. /\ l \in Nat \ {0} /\ DOMAIN stack = 1 .. l /\ b \in 1 .. made /\ b = stack[l].block
      /\ b \in Block /\ a = stack[l].at
      /\ \A i \in 1 .. l : stack[i].block \in 1 .. made /\ stack[i].at \in Nat
      /\ \A i \in 1 .. l : stack[i].at = 0 => i = l
      /\ stack \in Seq(FrameOf(made))
  BY <1>1, <1>2, TopFacts, ShapedFacts DEF Frames
<1>4. /\ a \in Nat /\ a # 0 /\ x \in Range(blocks[b]) /\ x \in 1 .. made
      /\ x \in Block /\ parent[x] # Null
  <2>1. a \in Nat /\ a # 0 /\ x \in Range(blocks[b]) /\ blocks[b] \in Seq(1 .. made)
    BY <1>1, <1>3, ShapedFacts
  <2>2. x \in 1 .. made
    BY <2>1, ListFacts
  <2>3. parent[x] # Null
    BY <1>3, <2>1 DEF Shaped, ListShape
  <2> QED BY <2>1, <2>2, <2>3, ShapedFacts
<1>5. /\ stack' \in Seq(FrameOf(made)) /\ DOMAIN stack' = 1 .. l + 1
      /\ Len(stack') = l + 1
      /\ \A i \in 1 .. l : stack'[i].block = stack[i].block
      /\ \A i \in 1 .. l : stack'[i].at = IF i = l THEN a + 1 ELSE stack[i].at
      /\ stack'[l + 1] = Frame(x, 0)
  <2> DEFINE s == [stack EXCEPT ![l].at = a + 1]
  <2>1. /\ s \in Seq(FrameOf(made)) /\ DOMAIN s = 1 .. l /\ Len(s) = l
        /\ \A i \in 1 .. l : s[i].block = stack[i].block
        /\ \A i \in 1 .. l : s[i].at = IF i = l THEN a + 1 ELSE stack[i].at
    <3> DEFINE k == a + 1
    <3>1. stack \in Seq(FrameOf(made)) /\ l = Len(stack) /\ l # 0 /\ k \in Nat
      BY <1>3, <1>4
    <3>2. s = [stack EXCEPT ![l].at = k]
      OBVIOUS
    <3> HIDE DEF k, s
    <3>3. MovedTo(s, stack, made, l, k)
      BY <3>1, <3>2, MoveFacts
    <3> QED BY <3>3 DEF k, MovedTo
  <2>2. Frame(x, 0) \in FrameOf(made)
    BY <1>4 DEF Frame, FrameOf
  <2>3. stack' = Append(s, Frame(x, 0))
    BY <1>1
  <2> HIDE DEF s
  <2>4. /\ stack' \in Seq(FrameOf(made)) /\ Len(stack') = l + 1
        /\ DOMAIN stack' = 1 .. l + 1
        /\ \A i \in 1 .. l : stack'[i] = s[i]
        /\ stack'[l + 1] = Frame(x, 0)
    BY <2>1, <2>2, <2>3, PushFacts
  <2> QED BY <2>1, <2>4
<1>6. \A i \in 1 .. l + 1 : i \in 1 .. l \/ i = l + 1
  BY <1>3
<1>7. Frame(x, 0).block = x /\ Frame(x, 0).at = 0
  BY DEF Frame
<1>8. Frames'
  <2>1. ASSUME NEW i \in 1 .. l + 1, stack'[i].at = 0
        PROVE  i = l + 1 /\ (kind[stack'[i].block] \in StatementKind => parent[stack'[i].block] # Null)
    <3>1. CASE i = l + 1
      BY <1>4, <1>5, <1>7, <3>1
    <3>2. CASE i \in 1 .. l
      <4>1. stack'[i].at = IF i = l THEN a + 1 ELSE stack[i].at
        BY <1>5, <3>2
      <4>2. i # l => stack[i].at # 0
        BY <1>3, <3>2
      <4>3. a + 1 # 0
        BY <1>4
      <4> QED BY <2>1, <4>1, <4>2, <4>3
    <3> QED BY <1>6, <3>1, <3>2
  <2>2. l + 1 = Len(stack')
    BY <1>5
  <2>3. stack' \in Seq(FrameOf(made'))
    BY <1>1, <1>5
  <2>4. \A i \in DOMAIN stack' : stack'[i].at = 0 =>
          /\ i = Len(stack')
          /\ kind'[stack'[i].block] \in StatementKind => parent'[stack'[i].block] # Null
    BY <1>1, <1>5, <2>1, <2>2
  <2> QED BY <2>3, <2>4 DEF Frames
<1>9. ASSUME NEW R \in SUBSET (1 .. made), Region(R), NEW i \in DOMAIN stack'
      PROVE  stack'[i].block \in R
  <2>1. \A k \in 1 .. l : stack[k].block \in R
    BY <1>3, <1>9 DEF Region
  <2>2. x \in R
    <3>1. b \in R
      BY <1>3, <2>1
    <3> QED BY <1>4, <1>9, <3>1 DEF Region
  <2> QED BY <1>5, <1>6, <1>7, <1>9, <2>1, <2>2
<1>10. ASSUME NEW W \in SUBSET Block, Covers(W)'
       PROVE  Covers(W)
  <2>1. \A c \in W : Range(blocks[c]) \subseteq W
    BY <1>1, <1>10 DEF Covers
  <2>2. \A i \in 1 .. l : \A j \in DOMAIN blocks[stack[i].block] :
          j >= stack'[i].at => blocks[stack[i].block][j] \in W
    <3>1. \A i \in 1 .. l : i \in DOMAIN stack'
      BY <1>3, <1>5
    <3>2. \A i \in DOMAIN stack' : \A j \in DOMAIN blocks'[stack'[i].block] :
            j >= stack'[i].at => blocks'[stack'[i].block][j] \in W
      BY <1>10, Zenon DEF Covers
    <3>3. blocks' = blocks
      BY <1>1
    <3>4. \A i \in DOMAIN stack' : \A j \in DOMAIN blocks[stack'[i].block] :
            j >= stack'[i].at => blocks[stack'[i].block][j] \in W
      BY <3>2, <3>3
    <3> QED BY <1>5, <3>1, <3>4
  <2>3. x \in W
    <3>1. l + 1 \in DOMAIN stack'
      BY <1>3, <1>5
    <3>2. stack'[l + 1].at = 0 /\ stack'[l + 1].block = x
      BY <1>5, <1>7
    <3>3. \A i \in DOMAIN stack' : stack'[i].at = 0 => stack'[i].block \in W
      BY <1>10 DEF Covers
    <3> QED BY <3>1, <3>2, <3>3
  <2>4. ASSUME NEW i \in DOMAIN stack
        PROVE  stack[i].at # 0
    BY <1>3, <1>4
  <2>5. ASSUME NEW i \in DOMAIN stack, NEW j \in DOMAIN blocks[stack[i].block], j >= stack[i].at
        PROVE  blocks[stack[i].block][j] \in W
    <3>1. CASE i = l
      <4>1. j \in Nat /\ j >= a /\ (j = a \/ j >= a + 1)
        <5>1. DOMAIN blocks[b] = 1 .. Len(blocks[b])
          BY <1>3, ShapedFacts
        <5>2. j \in Nat
          BY <1>3, <3>1, <5>1
        <5> QED BY <1>3, <1>4, <2>5, <3>1, <5>2
      <4>2. blocks[b][a] \in W
        BY <2>3
      <4> QED BY <1>3, <1>5, <2>2, <2>5, <3>1, <4>1, <4>2
    <3>2. CASE i # l
      BY <1>3, <1>5, <2>2, <2>5, <3>2
    <3> QED BY <3>1, <3>2
  <2> QED BY <2>1, <2>4, <2>5 DEF Covers
<1>11. \A W \in SUBSET Block : Covers(W)' =>
         \E V \in SUBSET Block : Covers(V) /\ (Left \subseteq V => Left \subseteq W)
  BY <1>10
<1> QED BY <1>1, <1>8, <1>9, <1>11, QuietStep

LEMMA LeaveBlockKeeps ==
  ASSUME Shaped, Passing, LeaveBlock
  PROVE  Shaped' /\ Passing'
<1> SUFFICES ASSUME NEW l, l = Len(stack), NEW b, b = Top.block, NEW a, a = Top.at
             PROVE  Shaped' /\ Passing'
  OBVIOUS
<1>1. /\ stack # << >> /\ a > Len(blocks[b])
      /\ stack' = SubSeq(stack, 1, l - 1)
      /\ UNCHANGED << treeVars, rule, elimination, meaning, branches >>
      /\ made' = made /\ kind' = kind /\ parent' = parent /\ blocks' = blocks
  BY DEF LeaveBlock, treeVars
<1>2. Frames
  BY DEF Passing
<1>3. /\ l \in Nat \ {0} /\ DOMAIN stack = 1 .. l /\ b \in 1 .. made /\ b = stack[l].block
      /\ b \in Block /\ a = stack[l].at
      /\ \A i \in 1 .. l : stack[i].block \in 1 .. made /\ stack[i].at \in Nat
      /\ \A i \in 1 .. l : stack[i].at = 0 => i = l
      /\ stack \in Seq(FrameOf(made))
  BY <1>1, <1>2, TopFacts, ShapedFacts DEF Frames
<1>4. a \in Nat /\ a # 0 /\ \A j \in DOMAIN blocks[b] : ~(j >= a)
  <2>1. DOMAIN blocks[b] = 1 .. Len(blocks[b]) /\ Len(blocks[b]) \in Nat
    BY <1>3, ShapedFacts
  <2> QED BY <1>1, <1>3, <2>1
<1>5. /\ stack' \in Seq(FrameOf(made)) /\ DOMAIN stack' = 1 .. l - 1
      /\ Len(stack') = l - 1
      /\ \A i \in 1 .. l - 1 : stack'[i] = stack[i] /\ i \in 1 .. l /\ i # l
  <2>1. l # 0
    BY <1>3
  <2> QED BY <1>1, <1>3, <2>1, PopFacts
<1>6. Frames'
  BY <1>1, <1>3, <1>5 DEF Frames
<1>7. \A R \in SUBSET (1 .. made) : Region(R) => \A i \in DOMAIN stack' : stack'[i].block \in R
  BY <1>3, <1>5 DEF Region
<1>8. ASSUME NEW W \in SUBSET Block, Covers(W)'
      PROVE  Covers(W)
  <2>1. \A c \in W : Range(blocks[c]) \subseteq W
    BY <1>1, <1>8 DEF Covers
  <2>2. \A i \in 1 .. l - 1 : \A j \in DOMAIN blocks[stack[i].block] :
          j >= stack[i].at => blocks[stack[i].block][j] \in W
    BY <1>1, <1>5, <1>8 DEF Covers
  <2>3. \A i \in 1 .. l : i \in 1 .. l - 1 \/ i = l
    BY <1>3
  <2>4. \A i \in DOMAIN stack : stack[i].at # 0
    BY <1>3, <1>4
  <2>5. ASSUME NEW i \in DOMAIN stack, NEW j \in DOMAIN blocks[stack[i].block], j >= stack[i].at
        PROVE  blocks[stack[i].block][j] \in W
    BY <1>3, <1>4, <2>2, <2>3, <2>5
  <2> QED BY <2>1, <2>4, <2>5 DEF Covers
<1>9. \A W \in SUBSET Block : Covers(W)' =>
        \E V \in SUBSET Block : Covers(V) /\ (Left \subseteq V => Left \subseteq W)
  BY <1>8
<1> QED BY <1>1, <1>6, <1>7, <1>9, QuietStep

-----------------------------------------------------------------------------
(* The callback replaces a branch *)

\* In the list of p, an arm of branch b or a new skip takes the place of it.
Replacing(p, b, to) ==
  /\ Exchange(p, b, to)
  /\ parent[b] = p /\ ConstantBranch(b)
  /\ to > b /\ to \in 1 .. made' /\ made' \in made .. LastBlock
  /\ kind' \in [Block -> BlockKind \cup {"none"}] /\ \A q \in Block : q # to => kind'[q] = kind[q]
  /\ \/ made' = made /\ to \in Range(blocks[b]) /\ kind'[to] = kind[to] /\ skips' = skips
     \/ made' = made + 1 /\ to = made' /\ kind'[to] = "statement" /\ skips' = skips \cup {to}
  /\ parent' = Anchors(parent, p, b, to)
  /\ scope' = Anchors(scope, p, b, to)
  /\ blocks' = [q \in Block |-> blocks'[q]]
  /\ context' = context /\ ruleOf' = ruleOf

LEMMA ReplacingFacts ==
  ASSUME Shaped, NEW p, NEW b, NEW to, Replacing(p, b, to)
  PROVE  /\ made \in Nat /\ made' \in Nat /\ made <= made' /\ 1 .. made \subseteq Block
         /\ 1 .. made' \subseteq Block /\ Block \subseteq Nat \ {0} /\ 1 .. made \subseteq 1 .. made'
         /\ p \in 1 .. made /\ b \in 1 .. made /\ to \in 1 .. made'
         /\ p < b /\ b < to /\ p # b /\ p # to /\ b # to /\ p # Null
         /\ kind[p] \in SemanticsKind /\ kind[b] = "branch"
         /\ kind'[p] = kind[p] /\ kind'[to] \in SemanticsKind \cup {"statement"}
         /\ kind'[to] \in StatementKind => to = made' /\ made' = made + 1
         /\ \A q \in Block : q # to => kind'[q] = kind[q]
         /\ \A q \in 1 .. made : kind'[q] = kind[q]
         /\ \A q \in Block : parent'[q] = IF q = to THEN p ELSE IF q = b THEN Null ELSE parent[q]
         /\ \A q \in Block : scope'[q] = IF q = to THEN p ELSE IF q = b THEN Null ELSE scope[q]
         /\ parent' = [q \in Block |-> parent'[q]] /\ scope' = [q \in Block |-> scope'[q]]
         /\ \A q \in Block : q # p => blocks'[q] = blocks[q]
         /\ blocks'[p] = [i \in DOMAIN blocks[p] |-> IF blocks[p][i] = b THEN to ELSE blocks[p][i]]
         /\ \A q \in Block : Range(blocks[q]) \subseteq 1 .. made
         /\ kind[to] # "branch" /\ select' = select
<1>1. /\ made \in Nat /\ made' \in Nat /\ made <= made' /\ 1 .. made \subseteq Block
      /\ 1 .. made' \subseteq Block /\ Block \subseteq Nat \ {0} /\ 1 .. made \subseteq 1 .. made'
  BY ShapedFacts, MaxBlockAssumption DEF Replacing, LastBlock, Block
<1>2. /\ p \in 1 .. made /\ b \in 1 .. made /\ to \in 1 .. made'
      /\ p < b /\ b < to /\ kind[p] \in SemanticsKind /\ kind[b] = "branch"
      /\ \A q \in Block : q # to => kind'[q] = kind[q]
      /\ \A q \in 1 .. made : kind'[q] = kind[q]
      /\ \A q \in Block : q # p => blocks'[q] = blocks[q]
      /\ blocks'[p] = [i \in DOMAIN blocks[p] |-> IF blocks[p][i] = b THEN to ELSE blocks[p][i]]
      /\ select' = select
  BY DEF Replacing, Exchange
<1>3. p # b /\ p # to /\ b # to /\ p # Null
  BY <1>1, <1>2 DEF Null
<1>4. \A q \in Block : Range(blocks[q]) \subseteq 1 .. made
  <2>1. \A q \in Block : blocks[q] \in Seq(1 .. made)
    BY ShapedFacts
  <2> QED BY <2>1, ListFacts
<1>5. /\ kind'[to] \in SemanticsKind \cup {"statement"} /\ kind[to] # "branch"
      /\ kind'[to] \in StatementKind => to = made' /\ made' = made + 1
  <2>1. CASE made' = made /\ to \in Range(blocks[b]) /\ kind'[to] = kind[to]
    <3>1. kind[to] \in SemanticsKind
      BY <1>1, <1>2, <2>1 DEF Shaped, ListShape
    <3> QED BY <2>1, <3>1 DEF SemanticsKind, StatementKind
  <2>2. CASE made' = made + 1 /\ to = made' /\ kind'[to] = "statement"
    <3>1. kind[to] = "none"
      BY <1>1, <1>2, <2>2 DEF Shaped
    <3> QED BY <2>2, <3>1
  <2> QED BY <2>1, <2>2 DEF Replacing
<1>6. /\ parent' = [parent EXCEPT ![b] = Null, ![to] = p]
      /\ scope' = [scope EXCEPT ![b] = Null, ![to] = p]
  BY DEF Replacing, Anchors
<1>7. /\ \A q \in Block : parent'[q] = IF q = to THEN p ELSE IF q = b THEN Null ELSE parent[q]
      /\ \A q \in Block : scope'[q] = IF q = to THEN p ELSE IF q = b THEN Null ELSE scope[q]
      /\ parent' = [q \in Block |-> parent'[q]] /\ scope' = [q \in Block |-> scope'[q]]
  <2>1. parent \in [Block -> 0 .. made] /\ scope \in [Block -> 0 .. made]
    BY DEF Shaped
  <2>2. b \in Block /\ to \in Block
    BY <1>1, <1>2
  <2> QED BY <1>3, <1>6, <2>1, <2>2
<1>8. kind'[p] = kind[p]
  BY <1>2
<1> QED BY <1>1, <1>2, <1>3, <1>4, <1>5, <1>7, <1>8

LEMMA ReplacingList ==
  ASSUME Shaped, NEW p, NEW b, NEW to, Replacing(p, b, to)
  PROVE  /\ blocks'[p] \in Seq(1 .. made')
         /\ \A c \in Range(blocks'[p]) : c = to \/ (c \in Range(blocks[p]) /\ c # b)
         /\ \A c \in Range(blocks[p]) : c = b \/ c \in Range(blocks'[p])
         /\ blocks[p] # << >> => blocks'[p] # << >>
         /\ \A q \in Block : \A j \in DOMAIN blocks[q] :
              j \in DOMAIN blocks'[q] /\ (blocks[q][j] = b \/ blocks'[q][j] = blocks[q][j])
<1> SUFFICES ASSUME NEW s, s = blocks[p], NEW t, t = blocks'[p]
             PROVE  /\ t \in Seq(1 .. made')
                    /\ \A c \in Range(t) : c = to \/ (c \in Range(s) /\ c # b)
                    /\ \A c \in Range(s) : c = b \/ c \in Range(t)
                    /\ s # << >> => t # << >>
                    /\ \A q \in Block : \A j \in DOMAIN blocks[q] :
                         j \in DOMAIN blocks'[q] /\ (blocks[q][j] = b \/ blocks'[q][j] = blocks[q][j])
  OBVIOUS
<1>1. /\ p \in Block /\ to \in 1 .. made' /\ made \in Nat /\ made' \in Nat /\ made <= made'
      /\ b # to /\ \A q \in Block : q # p => blocks'[q] = blocks[q]
      /\ t = [i \in DOMAIN s |-> IF s[i] = b THEN to ELSE s[i]]
  BY ReplacingFacts
<1>2. s \in Seq(1 .. made) /\ DOMAIN s = 1 .. Len(s) /\ Len(s) \in Nat
  BY <1>1, ShapedFacts
<1>3. t \in Seq(1 .. made')
  <2>1. \A i \in 1 .. Len(s) : s[i] \in 1 .. made'
    BY <1>1, <1>2
  <2>2. t = [i \in 1 .. Len(s) |-> IF s[i] = b THEN to ELSE s[i]]
    BY <1>1, <1>2
  <2>3. \A i \in 1 .. Len(s) : t[i] \in 1 .. made'
    BY <1>1, <2>1, <2>2
  <2>4. t = [i \in 1 .. Len(s) |-> t[i]]
    BY <2>2
  <2> QED BY <1>2, <2>3, <2>4, FunctionIsSequence
<1>4. \A i \in DOMAIN s : i \in DOMAIN t /\ t[i] = IF s[i] = b THEN to ELSE s[i]
  BY <1>1
<1>5. DOMAIN t = DOMAIN s
  BY <1>1
<1>6. \A c \in Range(t) : c = to \/ (c \in Range(s) /\ c # b)
  <2>1. ASSUME NEW c \in Range(t)
        PROVE  c = to \/ (c \in Range(s) /\ c # b)
    <3>1. PICK i \in DOMAIN t : t[i] = c
      BY ListFacts
    <3>2. s[i] \in Range(s)
      BY <1>5, <3>1, ListFacts
    <3> QED BY <1>4, <1>5, <3>1, <3>2
  <2> QED BY <2>1
<1>7. \A c \in Range(s) : c = b \/ c \in Range(t)
  <2>1. ASSUME NEW c \in Range(s)
        PROVE  c = b \/ c \in Range(t)
    <3>1. PICK i \in DOMAIN s : s[i] = c
      BY ListFacts
    <3>2. t[i] \in Range(t)
      BY <1>5, <3>1, ListFacts
    <3> QED BY <1>4, <3>1, <3>2
  <2> QED BY <2>1
<1>8. s # << >> => t # << >>
  <2>1. ASSUME t = << >>
        PROVE  s = << >>
    <3>1. DOMAIN s = {}
      BY <1>5, <2>1
    <3>2. Len(s) = 0
      <4>1. 1 \notin 1 .. Len(s)
        BY <1>2, <3>1
      <4> QED BY <1>2, <4>1
    <3> QED BY <1>2, <3>2
  <2> QED BY <2>1
<1>9. \A q \in Block : \A j \in DOMAIN blocks[q] :
        j \in DOMAIN blocks'[q] /\ (blocks[q][j] = b \/ blocks'[q][j] = blocks[q][j])
  BY <1>1, <1>4
<1> QED BY <1>3, <1>6, <1>7, <1>8, <1>9

LEMMA ReplacingShaped ==
  ASSUME Shaped, NEW p, NEW b, NEW to, Replacing(p, b, to)
  PROVE  Shaped'
<1>1. /\ made \in Nat /\ made' \in Nat /\ made <= made' /\ 1 .. made \subseteq Block
      /\ 1 .. made' \subseteq Block /\ Block \subseteq Nat \ {0} /\ 1 .. made \subseteq 1 .. made'
      /\ p \in 1 .. made /\ b \in 1 .. made /\ to \in 1 .. made'
      /\ p < b /\ b < to /\ p # b /\ p # to /\ b # to /\ p # Null
      /\ kind[p] \in SemanticsKind /\ kind[b] = "branch"
      /\ kind'[p] = kind[p] /\ kind'[to] \in SemanticsKind \cup {"statement"}
      /\ kind'[to] \in StatementKind => to = made' /\ made' = made + 1
      /\ \A q \in Block : q # to => kind'[q] = kind[q]
      /\ \A q \in 1 .. made : kind'[q] = kind[q]
      /\ \A q \in Block : parent'[q] = IF q = to THEN p ELSE IF q = b THEN Null ELSE parent[q]
      /\ \A q \in Block : scope'[q] = IF q = to THEN p ELSE IF q = b THEN Null ELSE scope[q]
      /\ parent' = [q \in Block |-> parent'[q]] /\ scope' = [q \in Block |-> scope'[q]]
      /\ \A q \in Block : q # p => blocks'[q] = blocks[q]
      /\ blocks'[p] = [i \in DOMAIN blocks[p] |-> IF blocks[p][i] = b THEN to ELSE blocks[p][i]]
      /\ \A q \in Block : Range(blocks[q]) \subseteq 1 .. made
      /\ kind[to] # "branch" /\ select' = select
  BY ReplacingFacts
<1>2. /\ blocks'[p] \in Seq(1 .. made')
      /\ \A c \in Range(blocks'[p]) : c = to \/ (c \in Range(blocks[p]) /\ c # b)
  BY ReplacingList
<1>3. /\ made' \in made .. LastBlock /\ kind' \in [Block -> BlockKind \cup {"none"}]
      /\ blocks' = [q \in Block |-> blocks'[q]] /\ context' = context
  BY DEF Replacing
<1>4. \A q \in Block : q > made => (q > made' <=> kind'[q] = "none")
  <2>1. ASSUME NEW q \in Block, q > made
        PROVE  q > made' <=> kind'[q] = "none"
    <3>1. kind[q] = "none"
      BY <2>1 DEF Shaped
    <3>2. CASE q = to
      BY <1>1, <3>2 DEF SemanticsKind
    <3>3. CASE q # to
      <4>1. made' = made \/ (made' = made + 1 /\ to = made')
        BY DEF Replacing
      <4>2. q > made'
        BY <1>1, <2>1, <3>3, <4>1
      <4> QED BY <1>1, <3>1, <3>3, <4>2
    <3> QED BY <3>2, <3>3
  <2> QED BY <2>1
<1>5. parent' \in [Block -> 0 .. made'] /\ scope' \in [Block -> 0 .. made']
  <2>1. \A q \in Block : parent[q] \in 0 .. made' /\ scope[q] \in 0 .. made'
    <3>1. \A q \in Block : parent[q] \in 0 .. made /\ scope[q] \in 0 .. made
      BY DEF Shaped
    <3>2. 0 .. made \subseteq 0 .. made'
      BY <1>1
    <3> QED BY <3>1, <3>2
  <2>2. p \in 0 .. made' /\ Null \in 0 .. made'
    BY <1>1 DEF Null
  <2>3. \A q \in Block : parent'[q] \in 0 .. made' /\ scope'[q] \in 0 .. made'
    BY <1>1, <2>1, <2>2
  <2> QED BY <1>1, <2>3
<1>6. skips' \subseteq 1 .. made'
  <2>1. skips \subseteq 1 .. made
    BY DEF Shaped
  <2> QED BY <1>1, <2>1 DEF Replacing
<1>7. PlaceShape'
  <2>1. ASSUME NEW c \in Block, kind'[c] \in StatementKind
        PROVE  /\ scope'[c] = Null <=> parent'[c] = Null
               /\ parent'[c] # Null => parent'[c] < c /\ kind'[parent'[c]] \in SemanticsKind
    <3>1. CASE c = to
      BY <1>1, <3>1
    <3>2. CASE c = b
      BY <1>1, <3>2
    <3>3. CASE c # to /\ c # b
      <4>1. /\ kind[c] \in StatementKind /\ parent'[c] = parent[c] /\ scope'[c] = scope[c]
        BY <1>1, <2>1, <3>3
      <4>2. /\ scope[c] = Null <=> parent[c] = Null
            /\ parent[c] # Null => parent[c] < c /\ kind[parent[c]] \in SemanticsKind
        BY <4>1 DEF Shaped, PlaceShape
      <4>3. parent[c] # Null => parent[c] \in 1 .. made
        <5>1. parent[c] \in 0 .. made
          BY DEF Shaped
        <5> QED BY <1>1, <5>1 DEF Null
      <4> QED BY <1>1, <4>1, <4>2, <4>3
    <3> QED BY <3>1, <3>2, <3>3
  <2> QED BY <2>1 DEF PlaceShape
<1>8. ListShape'
  <2>1. ASSUME NEW q \in Block, kind'[q] \notin SemanticsKind \cup {"branch"}
        PROVE  blocks'[q] = << >>
    <3>1. q # p
      BY <1>1, <2>1
    <3>2. kind[q] \notin SemanticsKind \cup {"branch"}
      <4>1. CASE q = to
        <5>1. kind'[to] = "statement" /\ to = made' /\ made' = made + 1
          BY <1>1, <2>1, <4>1 DEF StatementKind
        <5>2. kind[to] = "none"
          BY <1>1, <5>1 DEF Shaped
        <5> QED BY <4>1, <5>2 DEF SemanticsKind
      <4>2. CASE q # to
        BY <1>1, <2>1, <4>2
      <4> QED BY <4>1, <4>2
    <3> QED BY <1>1, <3>1, <3>2 DEF Shaped, ListShape
  <2>2. ASSUME NEW q \in Block, NEW c \in Range(blocks'[q])
        PROVE  /\ c > q
               /\ kind'[q] = "branch" => kind'[c] \in SemanticsKind
               /\ kind'[c] \in StatementKind => parent'[c] = q
               /\ parent'[c] # Null /\ scope'[c] # Null
    <3>1. CASE q = p /\ c = to
      <4>1. c > q /\ kind'[q] # "branch" /\ c \in Block
        BY <1>1, <3>1 DEF SemanticsKind
      <4>2. parent'[c] = q /\ scope'[c] = q /\ q # Null
        BY <1>1, <3>1, <4>1
      <4> QED BY <4>1, <4>2
    <3>2. CASE ~(q = p /\ c = to)
      <4>1. c \in Range(blocks[q]) /\ (q = p => c # b)
        BY <1>1, <1>2, <2>2, <3>2
      <4>2. /\ c > q
            /\ kind[q] = "branch" => kind[c] \in SemanticsKind
            /\ kind[c] \in StatementKind => parent[c] = q
            /\ parent[c] # Null /\ scope[c] # Null
        BY <4>1 DEF Shaped, ListShape
      <4>3. c \in 1 .. made /\ c \in Block /\ kind'[c] = kind[c]
        BY <1>1, <4>1
      <4>4. c # b
        <5>1. parent[b] = p /\ kind[b] \in StatementKind
          BY <1>1 DEF Replacing, StatementKind
        <5> QED BY <4>1, <4>2, <5>1
      <4>5. parent'[c] # Null /\ scope'[c] # Null
        BY <1>1, <4>2, <4>3, <4>4
      <4>6. kind'[c] \in StatementKind => parent'[c] = q
        <5>1. ASSUME kind'[c] \in StatementKind
              PROVE  c # to
          BY <1>1, <4>3, <5>1
        <5> QED BY <1>1, <4>2, <4>3, <4>4, <5>1
      <4>7. kind'[q] = "branch" => kind[q] = "branch"
        BY <1>1 DEF SemanticsKind
      <4> QED BY <4>2, <4>3, <4>5, <4>6, <4>7
    <3> QED BY <3>1, <3>2
  <2> QED BY <2>1, <2>2 DEF ListShape
<1>9. SelectShape'
  <2>1. ASSUME NEW c \in Block, select'[c] # << >>
        PROVE  /\ kind'[c] = "branch"
               /\ \E e \in Expression : \E vs \in [1 .. Len(blocks'[c]) -> Value] :
                    select'[c] = << Select(e, vs) >>
    <3>1. /\ kind[c] = "branch"
          /\ \E e \in Expression : \E vs \in [1 .. Len(blocks[c]) -> Value] :
               select[c] = << Select(e, vs) >>
      BY <1>1, <2>1 DEF Shaped, SelectShape
    <3>2. c # p /\ c # to
      BY <1>1, <3>1 DEF SemanticsKind
    <3> QED BY <1>1, <3>1, <3>2
  <2> QED BY <2>1 DEF SelectShape
<1>10. \A q \in Block : blocks'[q] = blocks[q] \/ blocks'[q] \in Seq(1 .. made')
  BY <1>1, <1>2
<1>11. /\ select' = [q \in Block |-> select'[q]] /\ context' = [r \in Rule |-> context'[r]]
       /\ \A r \in Rule : context'[r] = context[r]
  BY <1>1, <1>3 DEF Shaped
<1> QED BY <1>1, <1>3, <1>4, <1>5, <1>6, <1>7, <1>8, <1>9, <1>10, <1>11, ShapedNext

\* Before a branch is replaced, it is not among those that are gone.
LEMMA GoneFacts ==
  ASSUME Shaped, Passing, NEW b, stack # << >>, b = Top.block, kind[b] = "branch",
         ConstantBranch(b), parent[b] # Null
  PROVE  /\ b \in branches /\ b \in 1 .. MaxBlock /\ b \notin Gone /\ IsFiniteSet(Gone)
         /\ elimination \in Nat /\ elimination = Cardinality(Gone) /\ elimination + 1 <= MaxBlock
<1>1. b \in branches /\ branches \subseteq 1 .. MaxBlock /\ elimination = Cardinality(Gone)
  <2>1. PICK R \in SUBSET (1 .. made) : Region(R)
    BY DEF Passing
  <2>2. Frames
    BY DEF Passing
  <2>3. Top = stack[Len(stack)] /\ Len(stack) \in DOMAIN stack
    BY <2>2, TopFacts
  <2>4. b \in R
    BY <2>1, <2>3 DEF Region
  <2> QED BY <2>1, <2>4 DEF Region, Passing
<1>2. b \notin Gone /\ Gone \subseteq (1 .. MaxBlock) \ {b}
  BY <1>1 DEF Gone
<1>3. IsFiniteSet(1 .. MaxBlock) /\ Cardinality(1 .. MaxBlock) = MaxBlock
  <2>1. MaxBlock \in Nat
    BY MaxBlockAssumption
  <2>2. IsFiniteSet(1 .. MaxBlock) /\ Cardinality(1 .. MaxBlock) = IF 1 > MaxBlock THEN 0 ELSE MaxBlock - 1 + 1
    BY <2>1, FS_Interval
  <2> QED BY <1>1, <2>1, <2>2
<1>4. /\ IsFiniteSet((1 .. MaxBlock) \ {b})
      /\ Cardinality((1 .. MaxBlock) \ {b}) = MaxBlock - 1
  <2>1. b \in 1 .. MaxBlock
    BY <1>1
  <2> QED BY <1>3, <2>1, FS_RemoveElement
<1>5. IsFiniteSet(Gone) /\ Cardinality(Gone) <= MaxBlock - 1
  <2> DEFINE S == (1 .. MaxBlock) \ {b}
  <2>1. Gone \in SUBSET S /\ IsFiniteSet(S) /\ Cardinality(S) = MaxBlock - 1
    BY <1>2, <1>4
  <2> HIDE DEF S
  <2>2. IsFiniteSet(Gone) /\ Cardinality(Gone) <= Cardinality(S)
    BY <2>1, FS_Subset
  <2> QED BY <2>1, <2>2
<1>6. Cardinality(Gone) \in Nat
  BY <1>5, FS_CardinalityType
<1> QED BY <1>1, <1>2, <1>5, <1>6, MaxBlockAssumption

LEMMA ReplacingKeeps ==
  ASSUME Shaped, Passing, NEW p, NEW b, NEW to, Replacing(p, b, to),
         stack # << >>, Top.at = 0, b = Top.block, stack' = Moved(1),
         elimination' = elimination + 1, UNCHANGED << rule, meaning, branches >>
  PROVE  Passing'
<1> SUFFICES ASSUME NEW l, l = Len(stack)
             PROVE  Passing'
  OBVIOUS
<1>1. /\ made \in Nat /\ made' \in Nat /\ made <= made' /\ 1 .. made \subseteq Block
      /\ 1 .. made' \subseteq Block /\ Block \subseteq Nat \ {0} /\ 1 .. made \subseteq 1 .. made'
      /\ p \in 1 .. made /\ b \in 1 .. made /\ to \in 1 .. made'
      /\ p < b /\ b < to /\ p # b /\ p # to /\ b # to /\ p # Null
      /\ kind[p] \in SemanticsKind /\ kind[b] = "branch"
      /\ kind'[p] = kind[p] /\ kind'[to] \in SemanticsKind \cup {"statement"}
      /\ kind'[to] \in StatementKind => to = made' /\ made' = made + 1
      /\ \A q \in Block : q # to => kind'[q] = kind[q]
      /\ \A q \in 1 .. made : kind'[q] = kind[q]
      /\ \A q \in Block : parent'[q] = IF q = to THEN p ELSE IF q = b THEN Null ELSE parent[q]
      /\ \A q \in Block : scope'[q] = IF q = to THEN p ELSE IF q = b THEN Null ELSE scope[q]
      /\ parent' = [q \in Block |-> parent'[q]] /\ scope' = [q \in Block |-> scope'[q]]
      /\ \A q \in Block : q # p => blocks'[q] = blocks[q]
      /\ blocks'[p] = [i \in DOMAIN blocks[p] |-> IF blocks[p][i] = b THEN to ELSE blocks[p][i]]
      /\ \A q \in Block : Range(blocks[q]) \subseteq 1 .. made
      /\ kind[to] # "branch" /\ select' = select
  BY ReplacingFacts
<1>2. /\ blocks'[p] \in Seq(1 .. made')
      /\ \A c \in Range(blocks'[p]) : c = to \/ (c \in Range(blocks[p]) /\ c # b)
      /\ \A c \in Range(blocks[p]) : c = b \/ c \in Range(blocks'[p])
      /\ blocks[p] # << >> => blocks'[p] # << >>
      /\ \A q \in Block : \A j \in DOMAIN blocks[q] :
           j \in DOMAIN blocks'[q] /\ (blocks[q][j] = b \/ blocks'[q][j] = blocks[q][j])
  BY ReplacingList
<1>3. /\ parent[b] = p /\ ConstantBranch(b) /\ context' = context /\ ruleOf' = ruleOf
      /\ \/ made' = made /\ to \in Range(blocks[b])
         \/ made' = made + 1 /\ to = made' /\ kind'[to] = "statement"
  BY DEF Replacing
<1>4. Frames
  BY DEF Passing
<1>5. /\ l \in Nat \ {0} /\ DOMAIN stack = 1 .. l /\ b = stack[l].block
      /\ \A i \in 1 .. l : stack[i].block \in 1 .. made /\ stack[i].at \in Nat
      /\ \A i \in 1 .. l : stack[i].at = 0 => i = l
      /\ stack \in Seq(FrameOf(made))
  BY <1>4, TopFacts DEF Frames
<1>6. /\ stack' \in Seq(FrameOf(made)) /\ Len(stack') = l /\ DOMAIN stack' = 1 .. l
      /\ \A i \in 1 .. l : stack'[i].block = stack[i].block
      /\ \A i \in 1 .. l : stack'[i].at = IF i = l THEN 1 ELSE stack[i].at
  <2>1. /\ stack \in Seq(FrameOf(made)) /\ l = Len(stack) /\ l # 0 /\ 1 \in Nat
        /\ stack' = [stack EXCEPT ![l].at = 1]
    BY <1>5 DEF Moved
  <2>2. MovedTo(stack', stack, made, l, 1)
    BY <2>1, MoveFacts
  <2> QED BY <2>2 DEF MovedTo
<1>7. Frames'
  <2>1. FrameOf(made) \subseteq FrameOf(made')
    BY <1>1 DEF FrameOf
  <2>2. stack' \in Seq(FrameOf(made'))
    BY <1>6, <2>1, WiderSeq
  <2>3. \A i \in DOMAIN stack' : stack'[i].at # 0
    BY <1>5, <1>6
  <2> QED BY <2>2, <2>3 DEF Frames
<1>8. PICK R \in SUBSET (1 .. made) : Region(R)
  BY DEF Passing
<1>9. b \in R /\ \A i \in 1 .. l : stack[i].block \in R
  BY <1>5, <1>8 DEF Region
<1>10. \A c \in Block : ConstantBranch(c)' <=> ConstantBranch(c)
  BY <1>1 DEF ConstantBranch
<1>11. \A c \in Block : ConstantBranch(c) => kind[c] = "branch" /\ c # to /\ kind'[c] = "branch"
  BY <1>1 DEF Shaped, SelectShape, ConstantBranch
<1>12. ASSUME NEW c \in Block, ConstantBranch(c), parent'[c] # Null, Alone(c)
       PROVE  Alone(c)'
  <2>1. c # to /\ c # b /\ kind'[c] = "branch" /\ kind[c] = "branch" /\ parent'[c] = parent[c]
    BY <1>1, <1>11, <1>12
  <2>2. parent[c] \in Block
    <3>1. parent[c] \in 0 .. made /\ parent[c] # Null
      BY <1>12, <2>1 DEF Shaped
    <3> QED BY <1>1, <3>1 DEF Null
  <2>3. ASSUME NEW x \in Range(blocks'[parent[c]]), kind'[x] = "branch"
        PROVE  x = c
    <3>1. x # to
      BY <1>1, <2>3 DEF SemanticsKind
    <3>2. x \in Range(blocks[parent[c]])
      BY <1>1, <1>2, <2>2, <2>3, <3>1
    <3>3. kind[x] = "branch"
      BY <1>1, <2>2, <2>3, <3>1, <3>2
    <3> QED BY <1>12, <2>1, <3>2, <3>3 DEF Alone
  <2> QED BY <2>1, <2>3 DEF Alone
<1>13. ASSUME NEW S, S = R \cup {to}
       PROVE  S \in SUBSET (1 .. made') /\ Region(S)'
  <2>1. S \in SUBSET (1 .. made') /\ S \subseteq Block /\ R \subseteq Block /\ R \subseteq 1 .. made
    BY <1>1, <1>13
  <2>2. blocks'[to] = blocks[to] /\ to \in Block
    BY <1>1
  <2>3. Range(blocks[to]) \subseteq R /\ (to \notin R => kind'[to] = "statement")
    <3>1. CASE made' = made /\ to \in Range(blocks[b])
      <4>1. to \in R
        BY <1>8, <1>9, <3>1 DEF Region
      <4> QED BY <1>8, <4>1 DEF Region
    <3>2. CASE made' = made + 1 /\ to = made' /\ kind'[to] = "statement"
      <4>1. kind[to] = "none"
        BY <1>1, <2>2, <3>2 DEF Shaped
      <4>2. blocks[to] = << >>
        BY <2>2, <4>1 DEF Shaped, ListShape, SemanticsKind
      <4> QED BY <3>2, <4>2, ListFacts
    <3> QED BY <1>3, <3>1, <3>2
  <2>4. \A c \in S : Range(blocks'[c]) \subseteq S
    <3>1. ASSUME NEW c \in R
          PROVE  Range(blocks'[c]) \subseteq S
      <4>1. Range(blocks[c]) \subseteq R
        BY <1>8 DEF Region
      <4>2. CASE c = p
        BY <1>2, <1>13, <4>1, <4>2
      <4>3. CASE c # p
        BY <1>1, <1>13, <2>1, <4>1, <4>3
      <4> QED BY <4>2, <4>3
    <3> QED BY <1>13, <2>2, <2>3, <3>1
  <2>5. \A c \in S : kind'[c] = "branch" => c \in branches' /\ select'[c] # << >>
    <3>1. ASSUME NEW c \in S, kind'[c] = "branch"
          PROVE  c \in branches' /\ select'[c] # << >>
      <4>1. c # to /\ c \in R /\ kind[c] = "branch"
        BY <1>1, <1>13, <2>1, <3>1 DEF SemanticsKind
      <4> QED BY <1>1, <1>8, <4>1 DEF Region
    <3> QED BY <3>1
  <2>6. \A c \in S : kind'[c] \in SemanticsKind => blocks'[c] # << >>
    <3>1. ASSUME NEW c \in S, kind'[c] \in SemanticsKind
          PROVE  blocks'[c] # << >>
      <4>1. c \in R
        BY <1>13, <2>3, <3>1 DEF SemanticsKind
      <4>2. kind[c] \in SemanticsKind
        BY <1>1, <2>1, <3>1, <4>1
      <4>3. blocks[c] # << >>
        BY <1>8, <4>1, <4>2 DEF Region
      <4> QED BY <1>1, <1>2, <2>1, <4>1, <4>3
    <3> QED BY <3>1
  <2>7. ASSUME NEW c \in S, ConstantBranch(c)', parent'[c] # Null
        PROVE  Alone(c)'
    <3>1. c \in Block /\ ConstantBranch(c) /\ c # to /\ c \in R
      BY <1>10, <1>11, <1>13, <2>1, <2>7
    <3>2. parent[c] # Null
      BY <1>1, <2>7, <3>1
    <3>3. Alone(c)
      BY <1>8, <3>1, <3>2 DEF Region
    <3> QED BY <1>12, <2>7, <3>1, <3>3
  <2>8. context'[rule'] \in S /\ \A i \in DOMAIN stack' : stack'[i].block \in S
    <3>1. context[rule] \in R
      BY <1>8 DEF Region
    <3> QED BY <1>3, <1>6, <1>9, <1>13, <3>1
  <2> QED BY <2>1, <2>4, <2>5, <2>6, <2>7, <2>8 DEF Region
<1>14. \E S \in SUBSET (1 .. made') : Region(S)'
  BY <1>13
<1>15. /\ b \in branches /\ b \in 1 .. MaxBlock /\ b \notin Gone /\ IsFiniteSet(Gone)
       /\ elimination \in Nat /\ elimination = Cardinality(Gone) /\ elimination + 1 <= MaxBlock
  BY <1>1, <1>3, GoneFacts
<1>16. branches \subseteq Block /\ branches \subseteq 1 .. MaxBlock
       /\ \A c \in branches : kind[c] = "branch" /\ c # to /\ kind'[c] = "branch"
  <2>1. branches \subseteq 1 .. MaxBlock /\ \A c \in branches : kind[c] = "branch"
    BY DEF Passing
  <2>2. branches \subseteq Block
    BY <2>1, MaxBlockAssumption DEF Block
  <2> QED BY <1>1, <2>1, <2>2
<1>17. Gone' = Gone \cup {b} /\ Left' = Left \ {b}
  <2>1. \A c \in branches : parent'[c] = Null <=> (c = b \/ parent[c] = Null)
    BY <1>1, <1>16
  <2> QED BY <1>3, <1>10, <1>15, <1>16, <2>1 DEF Gone, Left
<1>18. elimination' = Cardinality(Gone')
  BY <1>15, <1>17, FS_AddElement
<1>19. made' <= MaxBlock + elimination'
  <2>1. made <= MaxBlock + elimination
    BY DEF Passing
  <2>2. made' = made \/ made' = made + 1
    BY <1>3
  <2> QED BY <1>1, <1>15, <2>1, <2>2, MaxBlockAssumption
<1>20. ASSUME NEW W \in SUBSET Block, Covers(W)'
       PROVE  Left' \subseteq W
  <2> DEFINE V == W \cup {b}
  <2>1. \A c \in W : Range(blocks'[c]) \subseteq W
    BY <1>20 DEF Covers
  <2>2. \A i \in 1 .. l : \A j \in DOMAIN blocks'[stack[i].block] :
          j >= stack'[i].at => blocks'[stack[i].block][j] \in W
    BY <1>6, <1>20 DEF Covers
  <2>3. \A j \in DOMAIN blocks[b] : j >= 1
    BY <1>1, ShapedFacts
  <2>4. \A j \in DOMAIN blocks[b] : blocks[b][j] \in W
    <3>1. l \in 1 .. l /\ stack'[l].at = 1 /\ stack[l].block = b
      BY <1>5, <1>6
    <3>2. blocks'[b] = blocks[b]
      BY <1>1
    <3> QED BY <2>2, <2>3, <3>1, <3>2
  <2>5. Range(blocks[b]) \subseteq W
    BY <2>4, ListFacts
  <2>6. \A c \in V : Range(blocks[c]) \subseteq V
    <3>1. ASSUME NEW c \in W
          PROVE  Range(blocks[c]) \subseteq V
      <4>1. CASE c = p
        BY <1>2, <2>1, <4>1
      <4>2. CASE c # p
        <5>1. blocks'[c] = blocks[c]
          BY <1>1, <4>2
        <5> QED BY <2>1, <5>1
      <4> QED BY <4>1, <4>2
    <3> QED BY <2>5, <3>1
  <2>7. \A i \in DOMAIN stack : stack[i].at = 0 => stack[i].block \in V
    BY <1>5
  <2>8. ASSUME NEW i \in DOMAIN stack, NEW j \in DOMAIN blocks[stack[i].block], j >= stack[i].at
        PROVE  blocks[stack[i].block][j] \in V
    <3>1. i \in 1 .. l /\ stack[i].block \in Block
      BY <1>1, <1>5
    <3>2. CASE i = l
      BY <1>5, <2>4, <2>8, <3>2
    <3>3. CASE i # l
      <4>1. stack'[i].at = stack[i].at
        BY <1>6, <3>1, <3>3
      <4>2. /\ j \in DOMAIN blocks'[stack[i].block]
            /\ \/ blocks[stack[i].block][j] = b
               \/ blocks'[stack[i].block][j] = blocks[stack[i].block][j]
        BY <1>2, <2>8, <3>1
      <4>3. blocks'[stack[i].block][j] \in W
        BY <2>2, <2>8, <3>1, <4>1, <4>2
      <4> QED BY <4>2, <4>3
    <3> QED BY <3>2, <3>3
  <2>9. Covers(V)
    BY <2>6, <2>7, <2>8 DEF Covers
  <2>10. V \in SUBSET Block
    BY <1>1
  <2>11. Left \subseteq V
    BY <2>9, <2>10 DEF Passing
  <2> QED BY <1>17, <2>11
<1>21. (Meaning(rule) = meaning)'
  <2>1. SUFFICES ASSUME NEW r, r = rule
                 PROVE  (Meaning(rule) = meaning)'
    OBVIOUS
  <2>2. context[r] \in 1 .. made
    <3>1. context[rule] \in R
      BY <1>8 DEF Region
    <3> QED BY <1>8, <2>1, <3>1
  <2>3. Exchange(p, b, to)
    BY DEF Replacing
  <2>4. Meaning(r)' = Meaning(r)
    BY <1>3, <2>2, <2>3, MeaningKept
  <2> QED BY <2>1, <2>4 DEF Passing
<1>22. /\ rule' \in Rule /\ context'[rule'] # Null /\ ruleOf'[context'[rule']] = rule'
       /\ branches' \subseteq 1 .. MaxBlock /\ \A c \in branches' : kind'[c] = "branch"
  BY <1>3, <1>16 DEF Passing
<1>23. \A W \in SUBSET Block : Covers(W)' => Left' \subseteq W
  BY <1>20
<1> QED BY <1>7, <1>14, <1>18, <1>19, <1>21, <1>22, <1>23 DEF Passing

\* In the list of a branch that is alone, it is the only one that is replaced.
LEMMA ReplacedAlone ==
  ASSUME Shaped, NEW b, NEW p \in Block, p = parent[b], Alone(b), NEW to,
         NEW lists, lists = Replaced(p, b, to)
  PROVE  /\ lists = [q \in Block |-> lists[q]]
         /\ \A q \in Block : q # p => lists[q] = blocks[q]
         /\ lists[p] = [i \in DOMAIN blocks[p] |-> IF blocks[p][i] = b THEN to ELSE blocks[p][i]]
<1>1. blocks = [q \in Block |-> blocks[q]]
  BY DEF Shaped
<1>2. lists = [blocks EXCEPT ![p] = [i \in DOMAIN blocks[p] |->
                  IF Same(blocks[p][i], b) THEN to ELSE blocks[p][i]]]
  BY DEF Replaced
<1>3. \A i \in DOMAIN blocks[p] : Same(blocks[p][i], b) <=> blocks[p][i] = b
  <2>1. \A i \in DOMAIN blocks[p] : blocks[p][i] \in Range(blocks[p])
    BY ListFacts
  <2> QED BY <2>1 DEF Alone, Same
<1>4. [i \in DOMAIN blocks[p] |-> IF Same(blocks[p][i], b) THEN to ELSE blocks[p][i]]
        = [i \in DOMAIN blocks[p] |-> IF blocks[p][i] = b THEN to ELSE blocks[p][i]]
  BY <1>3
<1>5. lists = [blocks EXCEPT ![p] = [i \in DOMAIN blocks[p] |->
                  IF blocks[p][i] = b THEN to ELSE blocks[p][i]]]
  BY <1>2, <1>4
<1> QED BY <1>1, <1>5

\* What the callback finds.
LEMMA BranchFound ==
  ASSUME Shaped, Passing, ExpressionFirst, stack # << >>, Top.at = 0, NEW b, b = Top.block,
         HasConstantSelect(b)
  PROVE  /\ b \in 1 .. made /\ b \in Block /\ ConstantBranch(b) /\ kind[b] = "branch" /\ Alone(b)
         /\ parent[b] \in 1 .. made /\ parent[b] \in Block /\ parent[b] # Null /\ parent[b] < b
         /\ kind[parent[b]] \in SemanticsKind
<1>1. Frames
  BY DEF Passing
<1>2. /\ b \in 1 .. made /\ Top = stack[Len(stack)] /\ Len(stack) \in DOMAIN stack
      /\ kind[b] \in StatementKind => parent[b] # Null
  BY <1>1, TopFacts
<1>3. b \in Block /\ 1 .. made \subseteq Block /\ made \in Nat
  BY <1>2, ShapedFacts
<1>4. ConstantBranch(b)
  BY <1>3, ConstantSelects
<1>5. kind[b] = "branch" /\ kind[b] \in StatementKind
  BY <1>3, <1>4 DEF ConstantBranch, Shaped, SelectShape, StatementKind
<1>6. parent[b] # Null /\ parent[b] < b /\ kind[parent[b]] \in SemanticsKind
  BY <1>2, <1>3, <1>5 DEF Shaped, PlaceShape
<1>7. parent[b] \in 1 .. made
  <2>1. parent[b] \in 0 .. made
    BY <1>3 DEF Shaped
  <2> QED BY <1>3, <1>6, <2>1 DEF Null
<1>8. Alone(b)
  <2>1. PICK R \in SUBSET (1 .. made) : Region(R)
    BY DEF Passing
  <2>2. b \in R
    BY <1>2, <2>1 DEF Region
  <2> QED BY <1>4, <1>6, <2>1, <2>2 DEF Region
<1> QED BY <1>2, <1>3, <1>4, <1>5, <1>6, <1>7, <1>8

LEMMA ReplaceByArmKeeps ==
  ASSUME Shaped, Passing, ExpressionFirst, ReplaceByArm
  PROVE  Shaped' /\ Passing'
<1> SUFFICES ASSUME NEW b, b = Top.block, NEW p, p = parent[b], NEW to, to = Arm(b).of
             PROVE  Shaped' /\ Passing'
  OBVIOUS
<1>1. /\ stack # << >> /\ Top.at = 0 /\ HasConstantSelect(b) /\ Matches(b) # {}
      /\ blocks' = Replaced(p, b, to)
      /\ parent' = Anchors(parent, p, b, to) /\ scope' = Anchors(scope, p, b, to)
      /\ elimination' = elimination + 1 /\ stack' = Moved(1)
      /\ UNCHANGED << made, kind, select, skips, context, ruleOf, rule, meaning, branches >>
  BY DEF ReplaceByArm
<1>2. /\ b \in 1 .. made /\ b \in Block /\ ConstantBranch(b) /\ kind[b] = "branch" /\ Alone(b)
      /\ p \in 1 .. made /\ p \in Block /\ p # Null /\ p < b /\ kind[p] \in SemanticsKind
  BY <1>1, BranchFound
<1>3. /\ \A valuation : Taken(b, valuation) = << to >>
      /\ to \in Range(blocks[b])
  BY <1>1, <1>2, ArmIsTaken
<1>4. to \in 1 .. made /\ to > b /\ to \in Block /\ to > p /\ to <= made
  <2>1. blocks[b] \in Seq(1 .. made) /\ 1 .. made \subseteq Block /\ Block \subseteq Nat \ {0}
        /\ made \in Nat
    BY <1>2, ShapedFacts
  <2>2. to \in 1 .. made
    BY <1>3, <2>1, ListFacts
  <2>3. to > b
    BY <1>2, <1>3 DEF Shaped, ListShape
  <2> QED BY <1>2, <2>1, <2>2, <2>3
<1>5. /\ blocks' = [q \in Block |-> blocks'[q]]
      /\ \A q \in Block : q # p => blocks'[q] = blocks[q]
      /\ blocks'[p] = [i \in DOMAIN blocks[p] |-> IF blocks[p][i] = b THEN to ELSE blocks[p][i]]
  <2>1. p \in Block /\ p = parent[b] /\ Alone(b) /\ blocks' = Replaced(p, b, to)
    BY <1>1, <1>2
  <2> QED BY <2>1, ReplacedAlone
<1>6. \A c \in Block : c > made => kind'[c] # "branch"
  BY <1>1 DEF Shaped
<1>7. Exchange(p, b, to)
  BY <1>1, <1>2, <1>3, <1>4, <1>5, <1>6 DEF Exchange
<1>8. made' \in made .. LastBlock
  <2>1. made \in Nat /\ made <= LastBlock /\ LastBlock \in Nat
    BY MaxBlockAssumption DEF Shaped, LastBlock
  <2> QED BY <1>1, <2>1
<1>9. kind' \in [Block -> BlockKind \cup {"none"}]
  BY <1>1 DEF Shaped
<1>10. Replacing(p, b, to)
  BY <1>1, <1>2, <1>3, <1>4, <1>5, <1>7, <1>8, <1>9 DEF Replacing
<1> QED BY <1>1, <1>10, ReplacingShaped, ReplacingKeeps

LEMMA ReplaceBySkipKeeps ==
  ASSUME Shaped, Passing, ExpressionFirst, ReplaceBySkip
  PROVE  Shaped' /\ Passing'
<1> SUFFICES ASSUME NEW b, b = Top.block, NEW p, p = parent[b], NEW to, to = made + 1
             PROVE  Shaped' /\ Passing'
  OBVIOUS
<1>1. /\ stack # << >> /\ Top.at = 0 /\ HasConstantSelect(b) /\ Matches(b) = {}
      /\ made' = to /\ kind' = [kind EXCEPT ![to] = "statement"] /\ skips' = skips \cup {to}
      /\ blocks' = Replaced(p, b, to)
      /\ parent' = Anchors(parent, p, b, to) /\ scope' = Anchors(scope, p, b, to)
      /\ elimination' = elimination + 1 /\ stack' = Moved(1)
      /\ UNCHANGED << select, context, ruleOf, rule, meaning, branches >>
  BY DEF ReplaceBySkip
<1>2. /\ b \in 1 .. made /\ b \in Block /\ ConstantBranch(b) /\ kind[b] = "branch" /\ Alone(b)
      /\ p \in 1 .. made /\ p \in Block /\ p # Null /\ p < b /\ kind[p] \in SemanticsKind
      /\ parent[b] # Null
  BY <1>1, BranchFound
<1>3. \A valuation : Taken(b, valuation) = << >>
  BY <1>1, <1>2, ArmIsTaken
<1>4. /\ made \in Nat /\ to \in Nat /\ to > made /\ to \in Block /\ to > b /\ to > p
      /\ made' \in made .. LastBlock /\ to \in 1 .. made' /\ to \notin 1 .. made
      /\ 1 .. made \subseteq Block
  <2>1. elimination \in Nat /\ elimination + 1 <= MaxBlock /\ made <= MaxBlock + elimination
    BY <1>1, <1>2, GoneFacts DEF Passing
  <2>2. made \in Nat /\ MaxBlock \in Nat /\ 1 .. made \subseteq Block
    BY ShapedFacts, MaxBlockAssumption
  <2>3. to \in 1 .. 2 * MaxBlock
    BY <2>1, <2>2
  <2> QED BY <1>1, <1>2, <2>2, <2>3 DEF Block, LastBlock
<1>5. /\ blocks' = [q \in Block |-> blocks'[q]]
      /\ \A q \in Block : q # p => blocks'[q] = blocks[q]
      /\ blocks'[p] = [i \in DOMAIN blocks[p] |-> IF blocks[p][i] = b THEN to ELSE blocks[p][i]]
  <2>1. p \in Block /\ p = parent[b] /\ Alone(b) /\ blocks' = Replaced(p, b, to)
    BY <1>1, <1>2
  <2> QED BY <2>1, ReplacedAlone
<1>6. /\ kind' \in [Block -> BlockKind \cup {"none"}]
      /\ \A q \in Block : kind'[q] = IF q = to THEN "statement" ELSE kind[q]
  BY <1>1, <1>4 DEF Shaped, BlockKind, StatementKind
<1>7. \A c \in Block : c > made => kind'[c] # "branch"
  BY <1>6 DEF Shaped
<1>8. \A c \in 1 .. made : kind'[c] = kind[c] /\ (c \in skips' <=> c \in skips)
  BY <1>1, <1>4, <1>6
<1>9. kind'[to] = "statement" /\ to \in skips'
  BY <1>1, <1>4, <1>6
<1>10. Exchange(p, b, to)
  BY <1>1, <1>2, <1>3, <1>4, <1>5, <1>7, <1>8, <1>9 DEF Exchange
<1>11. Replacing(p, b, to)
  BY <1>1, <1>2, <1>4, <1>5, <1>6, <1>9, <1>10 DEF Replacing
<1> QED BY <1>1, <1>11, ReplacingShaped, ReplacingKeeps

-----------------------------------------------------------------------------
(* The theorems *)

LEMMA PassInvariantInit ==
  ASSUME PassInit
  PROVE  PassInvariant
<1>1. /\ made = 0 /\ rule = NoRule /\ stack = << >> /\ elimination = 0 /\ skips = {}
      /\ kind = [b \in Block |-> "none"] /\ parent = [b \in Block |-> Null]
      /\ scope = [b \in Block |-> Null] /\ blocks = [b \in Block |-> << >>]
      /\ select = [b \in Block |-> << >>] /\ context = [r \in Rule |-> Null]
  BY DEF PassInit, TreeInit
<1>2. MaxBlock \in Nat /\ Block \subseteq Nat \ {0}
  BY MaxBlockAssumption DEF Block
<1>3. PlaceShape
  BY <1>1 DEF PlaceShape, StatementKind
<1>4. ListShape
  <2>1. \A p \in Block : blocks[p] = << >> /\ Range(blocks[p]) = {}
    BY <1>1, ListFacts
  <2> QED BY <2>1 DEF ListShape
<1>5. SelectShape
  BY <1>1 DEF SelectShape
<1>6. Shaped
  <2>1. /\ kind \in [Block -> BlockKind \cup {"none"}]
        /\ \A b \in Block : b > made <=> kind[b] = "none"
    BY <1>1, <1>2
  <2>2. parent \in [Block -> 0 .. made] /\ scope \in [Block -> 0 .. made]
        /\ context \in [Rule -> 0 .. made] /\ \A r \in Rule : context[r] = Null
    BY <1>1 DEF Null
  <2>3. blocks = [p \in Block |-> blocks[p]] /\ \A p \in Block : blocks[p] \in Seq(1 .. made)
    BY <1>1
  <2> QED BY <1>1, <1>2, <1>3, <1>4, <1>5, <2>1, <2>2, <2>3 DEF Shaped
<1>7. Building
  BY <1>1, <1>2 DEF Building, StatementKind
<1> QED BY <1>1, <1>6, <1>7 DEF PassInvariant

LEMMA PassInvariantNext ==
  ASSUME PassInvariant, [PassNext]_passVars, ~EqualSiblings, ExpressionFirst
  PROVE  PassInvariant'
<1>1. CASE Build
  <2>1. rule = NoRule
    BY <1>1 DEF Build
  <2> QED BY <1>1, <2>1, BuildShaped DEF PassInvariant
<1>2. ASSUME NEW r \in Rule, Optimize(r)
      PROVE  PassInvariant'
  <2>1. rule = NoRule /\ rule' # NoRule
    BY <1>2, NoRuleAssumption DEF Optimize
  <2> QED BY <1>2, <2>1, OptimizeShaped DEF PassInvariant
<1>3. CASE Traverse
  <2>1. rule # NoRule /\ rule' = rule
    BY <1>3 DEF Traverse, VisitInstructions, ReplaceByArm, ReplaceBySkip, VisitBlock, LeaveBlock,
         PassInvariant, Building
  <2>2. Shaped /\ Passing
    BY <2>1 DEF PassInvariant
  <2>3. Shaped' /\ Passing'
    BY <1>3, <2>2, VisitInstructionsKeeps, ReplaceByArmKeeps, ReplaceBySkipKeeps, VisitBlockKeeps,
       LeaveBlockKeeps DEF Traverse
  <2> QED BY <2>1, <2>3 DEF PassInvariant
<1>4. CASE UNCHANGED passVars
  <2>1. UNCHANGED << treeVars, rule, stack, elimination, meaning, branches >>
    BY <1>4 DEF passVars
  <2>2. CASE rule = NoRule
    <3>1. Shaped'
      BY <2>1, <2>2, ShapedUnchanged DEF PassInvariant
    <3>2. Building'
      BY <2>1, <2>2 DEF PassInvariant, Building, treeVars
    <3> QED BY <2>1, <2>2, <3>1, <3>2 DEF PassInvariant
  <2>3. CASE rule # NoRule
    <3>1. Shaped /\ Passing
      BY <2>3 DEF PassInvariant
    <3>2. Frames'
      BY <2>1, <3>1 DEF Passing, Frames, treeVars
    <3>3. \A R \in SUBSET (1 .. made) : Region(R) => \A i \in DOMAIN stack' : stack'[i].block \in R
      BY <2>1 DEF Region
    <3>4. \A W \in SUBSET Block : Covers(W)' => Covers(W)
      BY <2>1 DEF Covers, treeVars
    <3>5. \A W \in SUBSET Block : Covers(W)' =>
            \E V \in SUBSET Block : Covers(V) /\ (Left \subseteq V => Left \subseteq W)
      BY <3>4
    <3>6. Shaped' /\ Passing'
      BY <2>1, <3>1, <3>2, <3>3, <3>5, QuietStep
    <3> QED BY <2>1, <2>3, <3>6 DEF PassInvariant
  <2> QED BY <2>2, <2>3
<1> QED BY <1>1, <1>2, <1>3, <1>4 DEF PassNext

LEMMA PassInvariantHolds ==
  ASSUME ~EqualSiblings, ExpressionFirst
  PROVE  PassSpec => []PassInvariant
<1>1. PassInit => PassInvariant
  BY PassInvariantInit
<1>2. PassInvariant /\ [PassNext]_passVars => PassInvariant'
  BY PassInvariantNext
<1> QED BY <1>1, <1>2, PTL DEF PassSpec

\* In the tree of the rule, all but its context is listed, and nothing is outside of a region.
LEMMA TreeOfRule ==
  ASSUME Shaped, Passing, NEW R \in SUBSET (1 .. made), Region(R), NEW b \in Tree(rule)
  PROVE  /\ b \in R /\ b \in Block
         /\ b = context[rule] \/ (parent[b] # Null /\ scope[b] # Null)
<1> DEFINE top == context[rule]
           X == { x \in R : x = top \/ (parent[x] # Null /\ scope[x] # Null) }
<1>1. top \in X
  BY DEF Region
<1>2. made \in Nat /\ R \subseteq Block
  BY ShapedFacts
<1>3. ASSUME NEW c \in X
      PROVE  Range(blocks[c]) \subseteq X
  <2>1. c \in R /\ c \in Block
    BY <1>2
  <2>2. \A x \in Range(blocks[c]) : x \in R /\ parent[x] # Null /\ scope[x] # Null
    BY <2>1 DEF Region, Shaped, ListShape
  <2> QED BY <2>2
<1>4. Tree(rule) = Below(top)
  BY DEF Tree, Passing
<1> HIDE DEF X, top
<1>5. Tree(rule) \subseteq X
  BY <1>1, <1>2, <1>3, <1>4, BelowInside
<1> QED BY <1>2, <1>5 DEF X, top

\* The pass changes nothing of what a rule executes, whatever its conditions are: the
\* first arm whose value is the constant of its branch is the one that would be taken,
\* and a branch without one is executed like the skip that replaces it.
THEOREM MeaningIsPreserved ==
  ASSUME ~EqualSiblings, ExpressionFirst
  PROVE  PassSpec => []MeaningPreserved
<1>1. PassInvariant => MeaningPreserved
  BY DEF PassInvariant, Passing, MeaningPreserved
<1> QED BY <1>1, PassInvariantHolds, PTL

\* When the traversal has come to its end, it has replaced all the constant branches that
\* the rule had and counted each of them once, for every rule.
THEOREM EliminationIsExact ==
  ASSUME ~EqualSiblings, ExpressionFirst
  PROVE  PassSpec => []EliminationExact
<1>1. PassInvariant => EliminationExact
  <2> SUFFICES ASSUME Shaped, Passing, stack = << >>
               PROVE  /\ elimination = Cardinality({ b \in branches : ConstantBranch(b) })
                      /\ \A b \in BranchesOf(rule) : ~ConstantBranch(b)
    BY DEF PassInvariant, EliminationExact, Done
  <2>1. Left = {}
    <3>1. {} \in SUBSET Block /\ Covers({})
      BY DEF Covers
    <3> QED BY <3>1 DEF Passing
  <2>2. Gone = { b \in branches : ConstantBranch(b) }
    BY <2>1 DEF Gone, Left
  <2>3. PICK R \in SUBSET (1 .. made) : Region(R)
    BY DEF Passing
  <2>4. ASSUME NEW b \in BranchesOf(rule), ConstantBranch(b)
        PROVE  FALSE
    <3>1. b \in Tree(rule) /\ kind[b] = "branch"
      BY DEF BranchesOf
    <3>2. b \in R /\ (b = context[rule] \/ parent[b] # Null)
      BY <2>3, <3>1, TreeOfRule
    <3>3. parent[b] # Null
      BY <3>1, <3>2 DEF Shaped, Passing
    <3>4. b \in branches
      BY <2>3, <3>1, <3>2 DEF Region
    <3> QED BY <2>1, <2>4, <3>3, <3>4 DEF Left
  <2> QED BY <2>2, <2>4 DEF Passing
<1> QED BY <1>1, PassInvariantHolds, PTL

\* After every step of the pass the consistency check accepts the rule again.
THEOREM RulesStayConsistent ==
  ASSUME ~EqualSiblings, ExpressionFirst
  PROVE  PassSpec => []StaysConsistent
<1>1. PassInvariant => StaysConsistent
  <2> SUFFICES ASSUME Shaped, Passing
               PROVE  Consistent(rule)
    BY DEF PassInvariant, StaysConsistent
  <2>1. PICK R \in SUBSET (1 .. made) : Region(R)
    BY DEF Passing
  <2>2. rule \in Rule /\ context[rule] # Null /\ ruleOf[context[rule]] = rule
        /\ kind[context[rule]] = "par" /\ rule # NoRule
    BY NoRuleAssumption DEF Passing, Shaped
  <2>3. ASSUME NEW b \in Tree(rule)
        PROVE  Verified(b)
    <3>1. b \in R /\ (b = context[rule] \/ (parent[b] # Null /\ scope[b] # Null))
      BY <2>1, TreeOfRule
    <3>2. /\ kind[b] = "branch" => select[b] # << >>
          /\ kind[b] \in SemanticsKind => blocks[b] # << >>
      BY <2>1, <3>1 DEF Region
    <3>3. kind[b] \in StatementKind => b # context[rule]
      BY <2>2 DEF StatementKind
    <3> QED BY <2>2, <3>1, <3>2, <3>3 DEF Verified
  <2> QED BY <2>2, <2>3 DEF Consistent
<1> QED BY <1>1, PassInvariantHolds, PTL
=================================================================================
