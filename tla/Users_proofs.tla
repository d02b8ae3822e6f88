----------------------------- MODULE Users_proofs -----------------------------
(***************************************************************************)
(* That the uses instructions have are never lost from the lists, although *)
(* removal compares by structure, and that replaceAllUsesWith() either     *)
(* replaces all uses or does not return, for every number of instructions  *)
(* and of classes of them.                                                 *)
(*                                                                         *)
(* The first part is about the two loops of the code that are functions in *)
(* the model: remove_if() on one list, by induction over the length.  The  *)
(* invariant (UsersInvariant) says in addition what the loop of            *)
(* replaceAllUsesWith() has left of the list it iterates over: when all    *)
(* uses are of one structure the list stays as it is, and otherwise the    *)
(* first removal leaves an empty pointer in front of it.                   *)
(***************************************************************************)
EXTENDS Users, NaturalNumbers_proofs


-----------------------------------------------------------------------------
(* remove_if() *)

IsKept(f, list, user, m) ==
  f = [i \in 0 .. m |->
         IF i = 0 THEN << >>
         ELSE IF Matches(list[i], user) THEN f[i - 1] ELSE Append(f[i - 1], list[i])]

LEMMA KeptExists ==
  ASSUME NEW list, NEW user
  PROVE  \A m \in Nat : \E f : IsKept(f, list, user, m)
<1> DEFINE N == { m \in Nat : \E f : IsKept(f, list, user, m) }
           Match(i) == Matches(list[i], user)
<1> HIDE DEF Match
<1>1. 0 \in N
  <2> DEFINE f == [i \in 0 .. 0 |-> << >>]
  <2>1. IsKept(f, list, user, 0)
    BY DEF IsKept
  <2> QED BY <2>1
<1>2. ASSUME NEW m \in Nat, m \in N
      PROVE  m + 1 \in N
  <2>1. PICK f : IsKept(f, list, user, m)
    BY <1>2
  <2>2. \A i \in 0 .. m :
          f[i] = IF i = 0 THEN << >>
                 ELSE IF Match(i) THEN f[i - 1] ELSE Append(f[i - 1], list[i])
    BY <2>1 DEF IsKept, Match
  <2> DEFINE last == IF Match(m + 1) THEN f[m] ELSE Append(f[m], list[m + 1])
             g == [i \in 0 .. m + 1 |-> IF i = m + 1 THEN last ELSE f[i]]
  <2>3. ASSUME NEW i \in 0 .. m + 1
        PROVE  g[i] = IF i = 0 THEN << >>
                      ELSE IF Match(i) THEN g[i - 1] ELSE Append(g[i - 1], list[i])
    <3>1. CASE i = m + 1
      <4>1. g[i] = last /\ g[i - 1] = f[m] /\ i # 0
        BY <3>1
      <4> QED BY <3>1, <4>1
    <3>2. CASE i # m + 1
      <4>1. i \in 0 .. m /\ g[i] = f[i]
        BY <3>2
      <4>2. i # 0 => i - 1 \in 0 .. m /\ g[i - 1] = f[i - 1]
        BY <4>1
      <4> HIDE DEF g
      <4> QED BY <2>2, <4>1, <4>2
    <3> QED BY <3>1, <3>2
  <2>4. g = [i \in 0 .. m + 1 |-> g[i]]
    OBVIOUS
  <2> HIDE DEF g
  <2>5. IsKept(g, list, user, m + 1)
    BY <2>3, <2>4 DEF IsKept, Match
  <2> QED BY <2>5
<1> HIDE DEF N
<1>3. Nat \subseteq N
  BY <1>1, <1>2, SetInduction
<1> QED BY <1>3 DEF N

\* Kept is the last of the lists that the loop builds.
KeptSteps(f, list, user) ==
  /\ f[0] = << >>
  /\ \A i \in Nat : i < Len(list) =>
       f[i + 1] = IF Matches(list[i + 1], user) THEN f[i] ELSE Append(f[i], list[i + 1])

LEMMA KeptIs ==
  ASSUME NEW S, NEW list \in Seq(S), NEW user
  PROVE  \E f : KeptSteps(f, list, user) /\ Kept(list, user) = f[Len(list)]
<1> DEFINE f == CHOOSE g : IsKept(g, list, user, Len(list))
<1>0. Len(list) \in Nat
  OBVIOUS
<1>1. IsKept(f, list, user, Len(list))
  BY <1>0, KeptExists
<1>2. Kept(list, user) = f[Len(list)]
  BY DEF Kept, IsKept
<1> HIDE DEF f
<1>3. \A i \in 0 .. Len(list) :
        f[i] = IF i = 0 THEN << >>
               ELSE IF Matches(list[i], user) THEN f[i - 1] ELSE Append(f[i - 1], list[i])
  BY <1>1 DEF IsKept
<1>4. f[0] = << >>
  BY <1>0, <1>3
<1>5. ASSUME NEW i \in Nat, i < Len(list), NEW k, k = i + 1
      PROVE  f[k] = IF Matches(list[k], user) THEN f[i] ELSE Append(f[i], list[k])
  <2>1. k \in 0 .. Len(list) /\ k # 0 /\ k - 1 = i
    BY <1>0, <1>5
  <2> QED BY <1>3, <2>1
<1>6. KeptSteps(f, list, user)
  BY <1>4, <1>5 DEF KeptSteps
<1> QED BY <1>2, <1>6

\* Of the first i uses: those that do not match are kept, and no others.
KeptSoFar(kept, list, user, i) ==
  /\ Len(kept) <= i
  /\ \A j \in 1 .. i : ~Matches(list[j], user) => \E k \in 1 .. Len(kept) : kept[k] = list[j]
  /\ (\A j \in 1 .. i : Matches(list[j], user)) => kept = << >>
  /\ i > 0 /\ Matches(list[1], user) => Len(kept) < i

LEMMA KeptStep ==
  ASSUME NEW S, NEW list \in Seq(S), NEW user, NEW i \in Nat, i < Len(list),
         NEW kept \in Seq(S), KeptSoFar(kept, list, user, i),
         NEW next, next = IF Matches(list[i + 1], user) THEN kept ELSE Append(kept, list[i + 1])
  PROVE  next \in Seq(S) /\ KeptSoFar(next, list, user, i + 1)
<1> DEFINE use == list[i + 1]
<1>1. use \in S /\ Len(kept) \in Nat /\ Len(kept) <= i
  BY DEF KeptSoFar
<1> HIDE DEF use
<1>2. /\ \A j \in 1 .. i : ~Matches(list[j], user) => \E k \in 1 .. Len(kept) : kept[k] = list[j]
      /\ (\A j \in 1 .. i : Matches(list[j], user)) => kept = << >>
      /\ i > 0 /\ Matches(list[1], user) => Len(kept) < i
  BY DEF KeptSoFar
<1>3. \A j \in 1 .. i + 1 : j \in 1 .. i \/ j = i + 1
  OBVIOUS
<1>4. CASE Matches(use, user)
  <2>1. next = kept
    BY <1>4 DEF use
  <2>2. \A j \in 1 .. i + 1 : ~Matches(list[j], user) => j \in 1 .. i
    BY <1>3, <1>4 DEF use
  <2>3. Len(kept) < i + 1
    BY <1>1
  <2> QED BY <1>1, <1>2, <2>1, <2>2, <2>3 DEF KeptSoFar
<1>5. CASE ~Matches(use, user)
  <2>1. next = Append(kept, use)
    BY <1>5 DEF use
  <2>2. /\ next \in Seq(S) /\ Len(next) = Len(kept) + 1 /\ next[Len(kept) + 1] = use
        /\ \A k \in 1 .. Len(kept) : next[k] = kept[k]
    BY <1>1, <2>1
  <2>3. ASSUME NEW j \in 1 .. i + 1, ~Matches(list[j], user)
        PROVE  \E k \in 1 .. Len(next) : next[k] = list[j]
    <3>1. CASE j \in 1 .. i
      <4>1. PICK k \in 1 .. Len(kept) : kept[k] = list[j]
        BY <1>2, <2>3, <3>1
      <4>2. k \in 1 .. Len(next) /\ next[k] = list[j]
        BY <1>1, <2>2, <4>1
      <4> QED BY <4>2
    <3>2. CASE j = i + 1
      <4>1. Len(kept) + 1 \in 1 .. Len(next) /\ next[Len(kept) + 1] = list[j]
        BY <1>1, <2>2, <3>2 DEF use
      <4> QED BY <4>1
    <3> QED BY <1>3, <3>1, <3>2
  <2>4. ~(\A j \in 1 .. i + 1 : Matches(list[j], user))
    BY <1>5 DEF use
  <2>5. ASSUME Matches(list[1], user)
        PROVE  Len(next) < i + 1
    <3>1. i > 0
      BY <1>5, <2>5 DEF use
    <3> QED BY <1>1, <1>2, <2>2, <2>5, <3>1
  <2>6. Len(next) <= i + 1
    BY <1>1, <2>2
  <2> QED BY <2>2, <2>3, <2>4, <2>5, <2>6 DEF KeptSoFar
<1> QED BY <1>4, <1>5

LEMMA KeptFacts ==
  ASSUME NEW S, NEW list \in Seq(S), NEW user, NEW f, KeptSteps(f, list, user)
  PROVE  \A i \in Nat : i <= Len(list) => f[i] \in Seq(S) /\ KeptSoFar(f[i], list, user, i)
<1> DEFINE N == { i \in Nat : i <= Len(list) => f[i] \in Seq(S) /\ KeptSoFar(f[i], list, user, i) }
<1>1. 0 \in N
  <2>1. f[0] = << >>
    BY DEF KeptSteps
  <2>2. KeptSoFar(<< >>, list, user, 0)
    BY DEF KeptSoFar
  <2>3. f[0] \in Seq(S) /\ KeptSoFar(f[0], list, user, 0)
    BY <2>1, <2>2
  <2> QED BY <2>3
<1>2. ASSUME NEW i \in Nat, i \in N
      PROVE  i + 1 \in N
  <2> SUFFICES ASSUME i + 1 <= Len(list)
               PROVE  f[i + 1] \in Seq(S) /\ KeptSoFar(f[i + 1], list, user, i + 1)
    OBVIOUS
  <2>1. i < Len(list) /\ i <= Len(list)
    OBVIOUS
  <2>2. f[i] \in Seq(S) /\ KeptSoFar(f[i], list, user, i)
    BY <1>2, <2>1
  <2>3. f[i + 1] = IF Matches(list[i + 1], user) THEN f[i] ELSE Append(f[i], list[i + 1])
    BY <2>1 DEF KeptSteps
  <2> QED BY <2>1, <2>2, <2>3, KeptStep
<1> HIDE DEF N
<1>3. Nat \subseteq N
  BY <1>1, <1>2, SetInduction
<1> QED BY <1>3 DEF N

\* From a point on where all uses match nothing is kept any more.
LEMMA KeptStays ==
  ASSUME NEW S, NEW list \in Seq(S), NEW user, NEW f, KeptSteps(f, list, user), NEW k \in Nat,
         \A j \in DOMAIN list : j > k => Matches(list[j], user)
  PROVE  \A d \in Nat : k + d <= Len(list) => f[k + d] = f[k]
<1> DEFINE N == { d \in Nat : k + d <= Len(list) => f[k + d] = f[k] }
<1>1. 0 \in N
  OBVIOUS
<1>2. ASSUME NEW d \in Nat, d \in N
      PROVE  d + 1 \in N
  <2> SUFFICES ASSUME k + (d + 1) <= Len(list)
               PROVE  f[k + (d + 1)] = f[k]
    OBVIOUS
  <2> DEFINE i == k + d
  <2>1. i \in Nat /\ i < Len(list) /\ k + (d + 1) = i + 1 /\ i + 1 \in DOMAIN list /\ i + 1 > k
    OBVIOUS
  <2>2. f[i] = f[k]
    BY <1>2, <2>1
  <2> HIDE DEF i
  <2>3. f[i + 1] = f[i]
    BY <2>1 DEF KeptSteps
  <2> QED BY <2>1, <2>2, <2>3
<1> HIDE DEF N
<1>3. Nat \subseteq N
  BY <1>1, <1>2, SetInduction
<1> QED BY <1>3 DEF N

\* What a removal makes of a list: its length stays, a use that does not match stays in it,
\* a list in which all match stays as it is, and one that begins with a match, but does
\* not consist of them, gets an empty pointer.
LEMMA Removed ==
  ASSUME NEW S, NEW list \in Seq(S), NEW user
  PROVE  /\ \A k \in DOMAIN list : RemoveUse(list, user)[k] \in S \cup {Empty}
         /\ DOMAIN RemoveUse(list, user) = DOMAIN list
         /\ Len(RemoveUse(list, user)) = Len(list)
         /\ \A j \in DOMAIN list : ~Matches(list[j], user) =>
              \E k \in DOMAIN list : RemoveUse(list, user)[k] = list[j]
         /\ (\A j \in DOMAIN list : Matches(list[j], user)) => RemoveUse(list, user) = list
         /\ Matches(list[1], user) /\ (\E j \in DOMAIN list : ~Matches(list[j], user)) =>
              \E k \in DOMAIN list : RemoveUse(list, user)[k] = Empty
<1> DEFINE n == Len(list)
           kept == Kept(list, user)
           result == RemoveUse(list, user)
<1>1. n \in Nat /\ DOMAIN list = 1 .. n
  OBVIOUS
<1>2. PICK f : KeptSteps(f, list, user) /\ kept = f[n]
  BY KeptIs
<1>3. kept \in Seq(S) /\ KeptSoFar(kept, list, user, n)
  BY <1>1, <1>2, KeptFacts
<1>4. Len(kept) \in Nat /\ Len(kept) <= n /\ \A i \in 1 .. Len(kept) : kept[i] \in S
  BY <1>3 DEF KeptSoFar
<1>5. result = [i \in 1 .. n |->
                  IF i <= Len(kept) THEN kept[i]
                  ELSE IF Matches(list[i], user) THEN list[i] ELSE Empty]
  BY <1>1 DEF RemoveUse
<1> HIDE DEF kept, result
<1>6. \A i \in 1 .. n : result[i] \in S \cup {Empty}
  BY <1>1, <1>4, <1>5
<1>7. DOMAIN result = DOMAIN list /\ Len(result) = n
  BY <1>1, <1>5, <1>6
<1>8. ASSUME NEW j \in DOMAIN list, ~Matches(list[j], user)
      PROVE  \E k \in DOMAIN list : result[k] = list[j]
  <2>1. PICK k \in 1 .. Len(kept) : kept[k] = list[j]
    BY <1>1, <1>3, <1>8 DEF KeptSoFar
  <2>2. k \in DOMAIN list /\ result[k] = kept[k]
    BY <1>1, <1>4, <1>5
  <2> QED BY <2>1, <2>2
<1>9. ASSUME \A j \in DOMAIN list : Matches(list[j], user)
      PROVE  result = list
  <2>1. kept = << >>
    BY <1>1, <1>3, <1>9 DEF KeptSoFar
  <2>2. \A i \in 1 .. n : ~(i <= Len(kept))
    BY <2>1
  <2>3. result = [i \in 1 .. n |-> list[i]]
    BY <1>1, <1>5, <1>9, <2>2
  <2> QED BY <1>1, <2>3
<1>10. ASSUME Matches(list[1], user), NEW j \in DOMAIN list, ~Matches(list[j], user)
       PROVE  \E k \in DOMAIN list : result[k] = Empty
  <2> DEFINE l == Len(kept)
  <2>1. l \in 1 .. n
    BY <1>1, <1>3, <1>4, <1>10 DEF KeptSoFar
  <2> HIDE DEF l
  <2>2. \E k \in DOMAIN list : k > l /\ ~Matches(list[k], user)
    <3> SUFFICES ASSUME \A k \in DOMAIN list : k > l => Matches(list[k], user)
                 PROVE  FALSE
      OBVIOUS
    <3>1. n - l \in Nat /\ l + (n - l) = n
      BY <1>1, <2>1
    <3>2. f[n] = f[l]
      <4>1. l \in Nat
        BY <2>1
      <4>2. \A d \in Nat : l + d <= Len(list) => f[l + d] = f[l]
        <5>1. KeptSteps(f, list, user)
          BY <1>2
        <5>2. \A m \in DOMAIN list : m > l => Matches(list[m], user)
          OBVIOUS
        <5> QED BY <4>1, <5>1, <5>2, KeptStays, SMTT(20)
      <4>3. l + (n - l) <= Len(list) => f[l + (n - l)] = f[l]
        BY <3>1, <4>2
      <4> QED BY <3>1, <4>3
    <3>3. KeptSoFar(f[l], list, user, l)
      BY <1>1, <1>2, <2>1, KeptFacts
    <3>4. Len(f[l]) < l
      BY <1>10, <2>1, <3>3 DEF KeptSoFar
    <3> QED BY <1>2, <3>2, <3>4 DEF l
  <2> QED BY <1>1, <1>5, <2>1, <2>2 DEF l
<1> QED BY <1>1, <1>6, <1>7, <1>8, <1>9, <1>10 DEF result

LEMMA RemovedSequence ==
  ASSUME NEW S, NEW list \in Seq(S), NEW user, Empty \in S
  PROVE  RemoveUse(list, user) \in Seq(S)
<1> DEFINE result == RemoveUse(list, user)
<1>1. \A k \in DOMAIN list : result[k] \in S
  BY Removed
<1>2. DOMAIN list = 1 .. Len(list) /\ Len(list) \in Nat
  OBVIOUS
<1>3. result = [k \in 1 .. Len(list) |-> result[k]]
  BY <1>2 DEF RemoveUse
<1> HIDE DEF result
<1>4. result \in [1 .. Len(list) -> S]
  BY <1>1, <1>2, <1>3
<1>5. result \in Seq(S)
  BY <1>2, <1>4
<1> QED BY <1>5 DEF result


-----------------------------------------------------------------------------
(* The invariant *)

Listed == Nat \cup {Empty, Dangling}
Value == Instruction \cup Constant

\* The types of the state: operands and uses are of instructions that exist.
UsersTyped ==
  /\ kind \in Seq(Kind)
  /\ operands \in Seq([1 .. 1 -> Nat \cup Constant] \cup [1 .. 2 -> Nat \cup Constant])
  /\ uses \in Seq(Seq(Listed))
  /\ Len(operands) = Len(kind) /\ Len(uses) = Len(kind)
  /\ \A user \in Instruction : \A i \in DOMAIN operands[user] : operands[user][i] \in Value
  /\ \A value \in Instruction : \A j \in DOMAIN uses[value] :
       uses[value][j] \in Instruction \cup {Empty, Dangling}
  /\ undefined \in BOOLEAN
  /\ \/ loop = Idle
     \/ /\ loop \in [def : Instruction, to : Value, at : Nat \ {0}, uniform : BOOLEAN]
        /\ loop.to # loop.def

Has(list, user) == \E j \in DOMAIN list : list[j] = user

\* No use an instruction has of a value is missing from the list of the value.
Complete ==
  \A user \in Instruction : \A i \in DOMAIN operands[user] :
    operands[user][i] \in Instruction => Has(uses[operands[user][i]], user)

\* A loop over uses of one structure, of which those in front have been replaced.
Replacing ==
  /\ Uniform(uses[loop.def]) /\ Complete
  /\ \A j \in DOMAIN uses[loop.def] : j < loop.at => ~Uses(uses[loop.def][j], loop.def)

\* A loop that is going to use an empty pointer or a dangling reference.
Failing ==
  \/ loop.at = 1 /\ ~Uniform(uses[loop.def])
  \/ loop.at = 2 /\ loop.at <= Len(uses[loop.def])
       /\ \E j \in DOMAIN uses[loop.def] : ~Alive(uses[loop.def][j])

Looping ==
  ~undefined =>
    /\ loop = Idle => Complete
    /\ loop # Idle => IF loop.uniform THEN Replacing ELSE Failing

UsersInvariant == UsersTyped /\ Looping

-----------------------------------------------------------------------------
(* Lists of uses *)

\* More is in the lists, of the user.
More(lists, more, user) ==
  \A value \in DOMAIN lists :
    /\ \A u : Has(lists[value], u) => Has(more[value], u)
    /\ \A u : Has(more[value], u) => Has(lists[value], u) \/ u = user

LEMMA AppendedUse ==
  ASSUME NEW T, NEW list \in Seq(T), NEW user \in T
  PROVE  /\ Append(list, user) \in Seq(T)
         /\ Has(Append(list, user), user)
         /\ \A u : Has(list, u) => Has(Append(list, user), u)
         /\ \A u : Has(Append(list, user), u) => Has(list, u) \/ u = user
<1> DEFINE more == Append(list, user)
           n == Len(list)
<1>1. /\ n \in Nat /\ DOMAIN list = 1 .. n
      /\ more \in Seq(T) /\ DOMAIN more = 1 .. (n + 1)
      /\ \A j \in 1 .. n : more[j] = list[j]
      /\ more[n + 1] = user
  OBVIOUS
<1> HIDE DEF more, n
<1>2. n + 1 \in DOMAIN more
  BY <1>1
<1>3. ASSUME NEW u, Has(list, u)
      PROVE  Has(more, u)
  <2>1. PICK j \in DOMAIN list : list[j] = u
    BY <1>3 DEF Has
  <2>2. j \in DOMAIN more /\ more[j] = u
    BY <1>1, <2>1
  <2> QED BY <2>2 DEF Has
<1>4. ASSUME NEW u, Has(more, u)
      PROVE  Has(list, u) \/ u = user
  <2>1. PICK j \in DOMAIN more : more[j] = u
    BY <1>4 DEF Has
  <2>2. j \in DOMAIN list \/ j = n + 1
    BY <1>1
  <2> QED BY <1>1, <2>1, <2>2 DEF Has
<1> QED BY <1>1, <1>2, <1>3, <1>4 DEF Has, more

LEMMA UpdatedSequence ==
  ASSUME NEW Q, NEW s \in Seq(Q), NEW i \in DOMAIN s, NEW x \in Q
  PROVE  /\ [s EXCEPT ![i] = x] \in Seq(Q)
         /\ DOMAIN [s EXCEPT ![i] = x] = DOMAIN s
         /\ Len([s EXCEPT ![i] = x]) = Len(s)
OBVIOUS

\* setUse()
LEMMA UseSet ==
  ASSUME NEW T, NEW lists \in Seq(Seq(T)), NEW user \in T, NEW value
  PROVE  /\ SetUse(lists, value, user) \in Seq(Seq(T))
         /\ DOMAIN SetUse(lists, value, user) = DOMAIN lists
         /\ Len(SetUse(lists, value, user)) = Len(lists)
         /\ \A v \in DOMAIN lists : v # value => SetUse(lists, value, user)[v] = lists[v]
         /\ value \in DOMAIN lists => Has(SetUse(lists, value, user)[value], user)
         /\ More(lists, SetUse(lists, value, user), user)
<1> DEFINE more == SetUse(lists, value, user)
<1>1. CASE value \in DOMAIN lists
  <2> DEFINE new == Append(lists[value], user)
  <2>1. lists[value] \in Seq(T)
    BY <1>1
  <2>2. /\ new \in Seq(T) /\ Has(new, user)
        /\ \A u : Has(lists[value], u) => Has(new, u)
        /\ \A u : Has(new, u) => Has(lists[value], u) \/ u = user
    BY <2>1, AppendedUse
  <2>3. more = [lists EXCEPT ![value] = new]
    BY <1>1 DEF SetUse
  <2> HIDE DEF new
  <2>4. more \in Seq(Seq(T)) /\ DOMAIN more = DOMAIN lists /\ Len(more) = Len(lists)
    BY <1>1, <2>2, <2>3, UpdatedSequence
  <2>5. more[value] = new /\ \A v \in DOMAIN lists : v # value => more[v] = lists[v]
    BY <1>1, <2>3
  <2> HIDE DEF more
  <2>6. More(lists, more, user)
    BY <2>2, <2>5 DEF More
  <2> QED BY <2>2, <2>4, <2>5, <2>6 DEF more
<1>2. CASE value \notin DOMAIN lists
  BY <1>2 DEF SetUse, More
<1> QED BY <1>1, <1>2

\* What Has says of the lists of the state.
LEMMA TypedFacts ==
  ASSUME UsersTyped
  PROVE  /\ DOMAIN operands = Instruction /\ DOMAIN uses = Instruction
         /\ Len(kind) \in Nat /\ Instruction = 1 .. Len(kind)
         /\ \A value \in Instruction : uses[value] \in Seq(Listed)
         /\ \A value \in Instruction : \A u : Has(uses[value], u) => u \in Instruction \cup {Empty, Dangling}
         /\ Empty \notin Nat /\ Dangling \notin Nat
         /\ Constant \cap Nat = {}
<1>1. Empty \notin Nat /\ Dangling \notin Nat /\ Constant \cap Nat = {}
  BY UsersAssumption
<1>2. DOMAIN kind = 1 .. Len(kind) /\ Len(kind) \in Nat
  BY DEF UsersTyped
<1>3. DOMAIN operands = 1 .. Len(kind) /\ DOMAIN uses = 1 .. Len(kind)
  BY DEF UsersTyped
<1>4. \A value \in Instruction : uses[value] \in Seq(Listed)
  BY <1>2, <1>3 DEF Instruction, UsersTyped
<1>5. \A value \in Instruction : \A u : Has(uses[value], u) => u \in Instruction \cup {Empty, Dangling}
  BY DEF UsersTyped, Has
<1> QED BY <1>1, <1>2, <1>3, <1>4, <1>5 DEF Instruction

-----------------------------------------------------------------------------
(* Instructions are made *)

LEMMA Initially == UsersInit => UsersInvariant
<1> SUFFICES ASSUME UsersInit
             PROVE  UsersInvariant
  OBVIOUS
<1>1. kind = << >> /\ operands = << >> /\ uses = << >> /\ Instruction = {}
  BY DEF UsersInit, Instruction
<1>2. UsersTyped
  <2>1. \A S : << >> \in Seq(S)
    OBVIOUS
  <2>2. undefined \in BOOLEAN /\ loop = Idle
    BY DEF UsersInit
  <2> QED BY <1>1, <2>1, <2>2 DEF UsersTyped
<1>3. Complete
  BY <1>1 DEF Complete
<1> QED BY <1>2, <1>3 DEF UsersInvariant, Looping, UsersInit

\* The lists after the constructor of the user has added its operands.
LEMMA UsedBy ==
  ASSUME UsersTyped, NEW class \in Kind, NEW values \in Operands(class), NEW user \in Nat,
         NEW first, first = SetUse(uses, values[1], user),
         NEW used, used = IF class \in Unary THEN first ELSE SetUse(first, values[2], user)
  PROVE  /\ used \in Seq(Seq(Listed)) /\ DOMAIN used = DOMAIN uses /\ Len(used) = Len(uses)
         /\ More(uses, used, user)
         /\ \A i \in DOMAIN values : values[i] \in Instruction => Has(used[values[i]], user)
<1>1. DOMAIN uses = Instruction /\ user \in Listed /\ uses \in Seq(Seq(Listed))
  BY TypedFacts DEF Listed, UsersTyped
<1>2. /\ first \in Seq(Seq(Listed)) /\ DOMAIN first = DOMAIN uses /\ Len(first) = Len(uses)
      /\ values[1] \in DOMAIN uses => Has(first[values[1]], user)
      /\ More(uses, first, user)
  BY <1>1, UseSet
<1>3. CASE class \in Unary
  <2>1. DOMAIN values = {1}
    BY <1>3 DEF Operands
  <2> QED BY <1>1, <1>2, <1>3, <2>1
<1>4. CASE class \notin Unary
  <2>1. used = SetUse(first, values[2], user)
    BY <1>4
  <2>2. DOMAIN values = {1, 2}
    BY <1>4 DEF Operands
  <2>3. /\ used \in Seq(Seq(Listed)) /\ DOMAIN used = DOMAIN first /\ Len(used) = Len(first)
        /\ values[2] \in DOMAIN first => Has(used[values[2]], user)
        /\ More(first, used, user)
    BY <1>1, <1>2, <2>1, UseSet
  <2>4. More(uses, used, user)
    BY <1>2, <2>3 DEF More
  <2>5. values[1] \in DOMAIN uses => Has(used[values[1]], user)
    BY <1>2, <2>3 DEF More
  <2> QED BY <1>1, <1>2, <2>2, <2>3, <2>4, <2>5
<1> QED BY <1>3, <1>4

LEMMA NewPreserves ==
  ASSUME UsersInvariant, ~undefined, loop = Idle,
         NEW class \in Kind, NEW values \in Operands(class), New(class, values)
  PROVE  UsersInvariant'
<1> DEFINE user == Len(kind) + 1
           first == SetUse(uses, values[1], user)
           used == IF class \in Unary THEN first ELSE SetUse(first, values[2], user)
<1>1. /\ kind' = Append(kind, class) /\ operands' = Append(operands, values)
      /\ uses' = Append(used, << >>) /\ UNCHANGED << loop, undefined >>
  BY DEF New
<1>2. /\ DOMAIN operands = Instruction /\ DOMAIN uses = Instruction
      /\ Len(kind) \in Nat /\ Instruction = 1 .. Len(kind)
  BY TypedFacts DEF UsersInvariant
<1>3. user \in Nat /\ user \notin Instruction
  BY <1>2
<1> HIDE DEF user
<1>0. first = SetUse(uses, values[1], user)
      /\ used = IF class \in Unary THEN first ELSE SetUse(first, values[2], user)
  OBVIOUS
<1> HIDE DEF first, used
<1>4. /\ used \in Seq(Seq(Listed)) /\ DOMAIN used = Instruction /\ Len(used) = Len(kind)
      /\ More(uses, used, user)
      /\ \A i \in DOMAIN values : values[i] \in Instruction => Has(used[values[i]], user)
  <2>1. UsersTyped /\ Len(uses) = Len(kind)
    BY DEF UsersInvariant, UsersTyped
  <2>2. /\ used \in Seq(Seq(Listed)) /\ DOMAIN used = DOMAIN uses /\ Len(used) = Len(uses)
        /\ More(uses, used, user)
        /\ \A i \in DOMAIN values : values[i] \in Instruction => Has(used[values[i]], user)
    BY <1>0, <1>3, <2>1, UsedBy
  <2> QED BY <1>2, <2>1, <2>2
<1>5. values \in [1 .. 1 -> Value] \cup [1 .. 2 -> Value] /\ \A i \in DOMAIN values : values[i] \in Value
  BY DEF Operands, Value
<1>6. values \in [1 .. 1 -> Nat \cup Constant] \cup [1 .. 2 -> Nat \cup Constant]
  BY <1>2, <1>5 DEF Value
<1>7. /\ kind' \in Seq(Kind) /\ Len(kind') = user /\ Instruction' = Instruction \cup {user}
      /\ Instruction' = 1 .. user
  BY <1>1, <1>2 DEF UsersInvariant, UsersTyped, Instruction, user
<1>8. /\ operands' \in Seq([1 .. 1 -> Nat \cup Constant] \cup [1 .. 2 -> Nat \cup Constant])
      /\ Len(operands') = user /\ operands'[user] = values
      /\ \A v \in Instruction : operands'[v] = operands[v]
  BY <1>1, <1>2, <1>6 DEF UsersInvariant, UsersTyped, user
<1>9. /\ uses' \in Seq(Seq(Listed)) /\ Len(uses') = user /\ uses'[user] = << >>
      /\ \A v \in Instruction : uses'[v] = used[v]
  BY <1>1, <1>2, <1>4 DEF user
<1>10. \A v \in Instruction' : \A i \in DOMAIN operands'[v] : operands'[v][i] \in Value'
  BY <1>5, <1>7, <1>8 DEF UsersInvariant, UsersTyped, Value
<1>11. \A v \in Instruction' : \A j \in DOMAIN uses'[v] :
         uses'[v][j] \in Instruction' \cup {Empty, Dangling}
  <2> SUFFICES ASSUME NEW v \in Instruction', NEW j \in DOMAIN uses'[v]
               PROVE  uses'[v][j] \in Instruction' \cup {Empty, Dangling}
    OBVIOUS
  <2>1. CASE v = user
    BY <1>9, <2>1
  <2>2. CASE v \in Instruction
    <3>1. Has(used[v], uses'[v][j])
      BY <1>9, <2>2 DEF Has
    <3>2. Has(uses[v], uses'[v][j]) \/ uses'[v][j] = user
      BY <1>2, <1>4, <2>2, <3>1 DEF More
    <3>3. Has(uses[v], uses'[v][j]) => uses'[v][j] \in Instruction \cup {Empty, Dangling}
      BY <2>2, TypedFacts DEF UsersInvariant
    <3> QED BY <1>7, <3>2, <3>3
  <2> QED BY <1>7, <2>1, <2>2
<1>12. UsersTyped'
  <2>1. undefined' \in BOOLEAN /\ loop' = Idle
    BY <1>1 DEF UsersInvariant, UsersTyped
  <2> QED BY <1>7, <1>8, <1>9, <1>10, <1>11, <2>1 DEF UsersTyped, Idle
<1>13. Complete'
  <2>1. Complete
    BY DEF UsersInvariant, Looping
  <2> SUFFICES ASSUME NEW u \in Instruction', NEW i \in DOMAIN operands'[u],
                      NEW v, v = operands'[u][i], v \in Instruction'
               PROVE  Has(uses'[v], u)
    BY DEF Complete, Has
  <2>2. v \in Value
    BY <1>5, <1>7, <1>8 DEF UsersInvariant, UsersTyped
  <2>3. v \in Instruction /\ uses'[v] = used[v]
    BY <1>2, <1>3, <1>7, <1>9, <2>2, TypedFacts DEF UsersInvariant, Value, user
  <2>4. CASE u = user
    BY <1>4, <1>8, <2>3, <2>4
  <2>5. CASE u \in Instruction
    <3>1. Has(uses[v], u)
      BY <1>8, <2>1, <2>3, <2>5 DEF Complete
    <3> QED BY <1>2, <1>4, <2>3, <3>1 DEF More
  <2> QED BY <1>7, <2>4, <2>5
<1> QED BY <1>1, <1>12, <1>13 DEF UsersInvariant, Looping, Idle

\* A constructor that throws leaves a use that nothing asks for.
LEMMA NewThrowsPreserves ==
  ASSUME UsersInvariant, ~undefined, loop = Idle, NEW lhs \in Instruction, NewThrows(lhs)
  PROVE  UsersInvariant'
<1>1. /\ uses' = SetUse(uses, lhs, Dangling)
      /\ kind' = kind /\ operands' = operands /\ loop' = loop /\ undefined' = undefined
  BY DEF NewThrows
<1>2. /\ DOMAIN uses = Instruction /\ DOMAIN operands = Instruction /\ Dangling \in Listed
      /\ uses \in Seq(Seq(Listed))
  BY TypedFacts DEF UsersInvariant, UsersTyped, Listed
<1>3. /\ uses' \in Seq(Seq(Listed)) /\ Len(uses') = Len(uses) /\ More(uses, uses', Dangling)
  BY <1>1, <1>2, UseSet
<1>4. Instruction' = Instruction
  BY <1>1 DEF Instruction
<1>5. \A v \in Instruction : \A j \in DOMAIN uses'[v] : uses'[v][j] \in Instruction \cup {Empty, Dangling}
  <2> SUFFICES ASSUME NEW v \in Instruction, NEW j \in DOMAIN uses'[v]
               PROVE  uses'[v][j] \in Instruction \cup {Empty, Dangling}
    OBVIOUS
  <2>1. Has(uses'[v], uses'[v][j])
    BY DEF Has
  <2>2. Has(uses[v], uses'[v][j]) \/ uses'[v][j] = Dangling
    BY <1>2, <1>3, <2>1 DEF More
  <2> QED BY <2>2, TypedFacts DEF UsersInvariant
<1>6. UsersTyped'
  BY <1>1, <1>3, <1>4, <1>5 DEF UsersInvariant, UsersTyped, Value, Idle
<1>7. Complete'
  <2>1. Complete
    BY DEF UsersInvariant, Looping
  <2> SUFFICES ASSUME NEW u \in Instruction, NEW i \in DOMAIN operands[u],
                      NEW v, v = operands[u][i], v \in Instruction
               PROVE  Has(uses'[v], u)
    BY <1>1, <1>4 DEF Complete, Has
  <2>2. Has(uses[v], u)
    BY <2>1 DEF Complete
  <2> QED BY <1>2, <1>3, <2>2 DEF More
<1> QED BY <1>1, <1>6, <1>7 DEF UsersInvariant, Looping, Idle

-----------------------------------------------------------------------------
(* replace() *)

\* No operand is lost but those that are the same as the one that is replaced.
LEMMA ReplacedOperands ==
  ASSUME NEW list, NEW from, NEW to, to # from
  PROVE  /\ DOMAIN Replaced(list, from, to) = DOMAIN list
         /\ \A i \in DOMAIN list : /\ Replaced(list, from, to)[i] # from
                                   /\ \/ Replaced(list, from, to)[i] = to
                                      \/ Replaced(list, from, to)[i] = list[i]
BY DEF Replaced, Same

\* The uses after it, unless it has used an empty pointer.
UsesReplaced(user, from, to) ==
  /\ from \in Instruction => uses'[from] = RemoveUse(uses[from], user)
  /\ \A v \in Instruction : v # from => \A u : Has(uses[v], u) => Has(uses'[v], u)
  /\ to \in Instruction => Has(uses'[to], user)

LEMMA ReplaceUses ==
  ASSUME UsersTyped, NEW user \in Instruction, NEW from \in Value, NEW to \in Value, to # from,
         Replace(user, from, to)
  PROVE  /\ uses' \in Seq(Seq(Listed)) /\ Len(uses') = Len(uses)
         /\ \A v \in Instruction : \A j \in DOMAIN uses'[v] :
              uses'[v][j] \in Instruction \cup {Empty, Dangling}
         /\ undefined' \in BOOLEAN
         /\ ~undefined' =>
              /\ ~undefined /\ UsesReplaced(user, from, to)
              /\ from \in Instruction => \A j \in DOMAIN uses[from] : Alive(uses[from][j])
         /\ undefined' /\ ~undefined =>
              from \in Instruction /\ \E j \in DOMAIN uses[from] : ~Alive(uses[from][j])
<1> DEFINE bad == from \in Instruction /\ \E j \in DOMAIN uses[from] : ~Alive(uses[from][j])
           removed == IF from \in Instruction
                        THEN [uses EXCEPT ![from] = RemoveUse(@, user)] ELSE uses
<1>1. /\ DOMAIN uses = Instruction /\ user \in Listed /\ uses \in Seq(Seq(Listed))
      /\ Empty \in Listed /\ Listed \cup {Empty} = Listed
      /\ \A v \in Instruction : \A j \in DOMAIN uses[v] : uses[v][j] \in Instruction \cup {Empty, Dangling}
  BY TypedFacts DEF Listed, UsersTyped
<1>2. CASE bad
  <2>1. undefined' = TRUE /\ uses' = uses
    BY <1>2 DEF Replace
  <2> QED BY <1>1, <1>2, <2>1
<1>3. CASE ~bad
  <2>1. uses' = SetUse(removed, to, user) /\ undefined' = undefined
    BY <1>3 DEF Replace
  <2>2. /\ removed \in Seq(Seq(Listed)) /\ DOMAIN removed = Instruction /\ Len(removed) = Len(uses)
        /\ from \in Instruction => removed[from] = RemoveUse(uses[from], user)
        /\ \A v \in Instruction : v # from => removed[v] = uses[v]
    <3>1. CASE from \notin Instruction
      BY <1>1, <3>1
    <3>2. CASE from \in Instruction
      <4>1. uses[from] \in Seq(Listed)
        BY <3>2, TypedFacts
      <4>2. Empty \in Listed
        BY DEF Listed
      <4>3. RemoveUse(uses[from], user) \in Seq(Listed)
        BY <4>1, <4>2, RemovedSequence
      <4>4. removed = [uses EXCEPT ![from] = RemoveUse(uses[from], user)]
        BY <3>2
      <4>5. removed \in Seq(Seq(Listed)) /\ DOMAIN removed = DOMAIN uses /\ Len(removed) = Len(uses)
        BY <1>1, <3>2, <4>3, <4>4, UpdatedSequence
      <4> QED BY <1>1, <3>2, <4>4, <4>5
    <3> QED BY <3>1, <3>2
  <2> HIDE DEF removed
  <2>3. /\ uses' \in Seq(Seq(Listed)) /\ Len(uses') = Len(uses)
        /\ \A v \in Instruction : v # to => uses'[v] = removed[v]
        /\ to \in Instruction => Has(uses'[to], user)
        /\ More(removed, uses', user)
    <3> SUFFICES ASSUME NEW after, after = SetUse(removed, to, user)
                 PROVE  /\ after \in Seq(Seq(Listed)) /\ Len(after) = Len(uses)
                        /\ \A v \in Instruction : v # to => after[v] = removed[v]
                        /\ to \in Instruction => Has(after[to], user)
                        /\ More(removed, after, user)
      BY <2>1
    <3>1. removed \in Seq(Seq(Listed)) /\ user \in Listed
      BY <1>1, <2>2
    <3>2. /\ after \in Seq(Seq(Listed)) /\ Len(after) = Len(removed)
          /\ \A v \in DOMAIN removed : v # to => after[v] = removed[v]
          /\ to \in DOMAIN removed => Has(after[to], user)
          /\ More(removed, after, user)
      BY <3>1, UseSet
    <3> QED BY <2>2, <3>2
  <2>4. UsesReplaced(user, from, to)
    <3>1. \A v \in Instruction : v # from => \A u : Has(uses[v], u) => Has(uses'[v], u)
      BY <2>2, <2>3 DEF More
    <3> QED BY <2>2, <2>3, <3>1 DEF UsesReplaced
  <2>5. ASSUME NEW v \in Instruction, NEW j \in DOMAIN uses'[v]
        PROVE  uses'[v][j] \in Instruction \cup {Empty, Dangling}
    <3> DEFINE use == uses'[v][j]
    <3>1. Has(uses'[v], use)
      BY DEF Has
    <3> HIDE DEF use
    <3>2. Has(removed[v], use) \/ use = user
      BY <2>2, <2>3, <3>1 DEF More
    <3>3. CASE v # from
      BY <2>2, <3>2, <3>3, TypedFacts DEF use
    <3>4. CASE v = from /\ Has(removed[v], use)
      <4> DEFINE S == Instruction \cup {Empty, Dangling}
      <4>1. uses[v] \in Seq(S)
        <5>1. uses[v] \in Seq(Listed) /\ \A k \in DOMAIN uses[v] : uses[v][k] \in S
          BY <1>1, TypedFacts
        <5> HIDE DEF S
        <5> QED BY <5>1
      <4>2. Empty \in S
        OBVIOUS
      <4>3. removed[v] = RemoveUse(uses[v], user)
        BY <2>2, <3>4
      <4> HIDE DEF S
      <4>4. removed[v] \in Seq(S)
        BY <4>1, <4>2, <4>3, RemovedSequence
      <4>5. use \in S
        BY <3>4, <4>4 DEF Has
      <4> QED BY <4>5 DEF S, use
    <3> QED BY <3>2, <3>3, <3>4 DEF use
  <2> QED BY <1>3, <2>1, <2>3, <2>4, <2>5 DEF UsersTyped
<1> QED BY <1>2, <1>3

\* The operands after it; the state keeps its types.
LEMMA ReplaceKeepsTypes ==
  ASSUME UsersTyped, NEW user \in Instruction, NEW from \in Value, NEW to \in Value, to # from,
         Replace(user, from, to),
         \/ loop' = loop
         \/ loop # Idle /\ loop' = [loop EXCEPT !.at = @ + 1]
  PROVE  /\ UsersTyped' /\ Instruction' = Instruction
         /\ DOMAIN operands' = Instruction
         /\ \A u \in Instruction : u # user => operands'[u] = operands[u]
         /\ DOMAIN operands'[user] = DOMAIN operands[user]
         /\ \A i \in DOMAIN operands[user] :
              /\ operands'[user][i] # from
              /\ operands'[user][i] = to \/ operands'[user][i] = operands[user][i]
<1> DEFINE Q == [1 .. 1 -> Nat \cup Constant] \cup [1 .. 2 -> Nat \cup Constant]
           list == operands[user]
           new == Replaced(list, from, to)
<1>1. kind' = kind /\ Instruction' = Instruction /\ operands' = [operands EXCEPT ![user] = new]
  BY DEF Replace, Instruction
<1>2. DOMAIN operands = Instruction /\ operands \in Seq(Q) /\ list \in Q
      /\ Instruction \subseteq Nat
  BY TypedFacts DEF UsersTyped
<1>3. /\ DOMAIN new = DOMAIN list
      /\ \A i \in DOMAIN list : new[i] # from /\ (new[i] = to \/ new[i] = list[i])
  BY ReplacedOperands
<1>4. \A i \in DOMAIN list : list[i] \in Value
  BY DEF UsersTyped
<1>5. \A i \in DOMAIN list : new[i] \in Value /\ new[i] \in Nat \cup Constant
  BY <1>2, <1>3, <1>4 DEF Value
<1>6. new \in Q
  <2>1. new = [i \in DOMAIN list |-> new[i]]
    BY DEF Replaced
  <2> HIDE DEF new
  <2> QED BY <1>2, <1>5, <2>1
<1> HIDE DEF new, Q
<1>7. /\ operands' \in Seq(Q) /\ DOMAIN operands' = Instruction /\ Len(operands') = Len(operands)
      /\ operands'[user] = new
      /\ \A u \in Instruction : u # user => operands'[u] = operands[u]
  BY <1>1, <1>2, <1>6, UpdatedSequence
<1>8. \A u \in Instruction : \A i \in DOMAIN operands'[u] : operands'[u][i] \in Value
  BY <1>3, <1>5, <1>7 DEF UsersTyped
<1>9. \/ loop' = Idle
      \/ /\ loop' \in [def : Instruction, to : Value, at : Nat \ {0}, uniform : BOOLEAN]
         /\ loop'.to # loop'.def
  <2>1. CASE loop' = loop
    BY <2>1 DEF UsersTyped
  <2>2. CASE loop # Idle /\ loop' = [loop EXCEPT !.at = @ + 1]
    <3>1. loop \in [def : Instruction, to : Value, at : Nat \ {0}, uniform : BOOLEAN]
          /\ loop.to # loop.def
      BY <2>2 DEF UsersTyped
    <3> QED BY <2>2, <3>1
  <2> QED BY <2>1, <2>2
<1>10. Value' = Value
  BY <1>1 DEF Value
<1>11. UsersTyped'
  BY <1>1, <1>7, <1>8, <1>9, <1>10, ReplaceUses DEF UsersTyped, Q, Idle
<1> QED BY <1>1, <1>3, <1>7, <1>11

\* No use is missing after it if none but the user's is removed.
LEMMA ReplaceCompletes ==
  ASSUME UsersTyped, Complete,
         NEW user \in Instruction, NEW from \in Value, NEW to \in Value, to # from,
         Replace(user, from, to), ~undefined',
         \/ loop' = loop
         \/ loop # Idle /\ loop' = [loop EXCEPT !.at = @ + 1],
         from \in Instruction =>
           \A u \in Instruction : u # user /\ Has(uses[from], u) => Has(uses'[from], u)
  PROVE  Complete'
<1>1. /\ Instruction' = Instruction
      /\ \A u \in Instruction : u # user => operands'[u] = operands[u]
      /\ DOMAIN operands'[user] = DOMAIN operands[user]
      /\ \A i \in DOMAIN operands[user] :
           /\ operands'[user][i] # from
           /\ operands'[user][i] = to \/ operands'[user][i] = operands[user][i]
  BY ReplaceKeepsTypes
<1>2. UsesReplaced(user, from, to)
  BY ReplaceUses
<1> SUFFICES ASSUME NEW u \in Instruction, NEW i \in DOMAIN operands'[u],
                    NEW v, v = operands'[u][i], v \in Instruction
             PROVE  Has(uses'[v], u)
  BY <1>1 DEF Complete, Has
<1>3. CASE u = user /\ v = to
  BY <1>2, <1>3 DEF UsesReplaced
<1>4. CASE u = user /\ v # to
  <2>1. v # from /\ i \in DOMAIN operands[user] /\ v = operands[user][i]
    BY <1>1, <1>4
  <2>2. Has(uses[v], u)
    BY <1>4, <2>1 DEF Complete
  <2> QED BY <1>2, <2>1, <2>2 DEF UsesReplaced
<1>5. CASE u # user
  <2>1. Has(uses[v], u)
    BY <1>1, <1>5 DEF Complete
  <2>2. CASE v = from
    BY <1>5, <2>1, <2>2
  <2>3. CASE v # from
    BY <1>2, <2>1, <2>3 DEF UsesReplaced
  <2> QED BY <2>2, <2>3
<1> QED BY <1>3, <1>4, <1>5

\* A client replaces an operand of an instruction that no other use looks like.
LEMMA ReplacePreserves ==
  ASSUME UsersInvariant, ~undefined, loop = Idle, NEW user \in Instruction,
         NEW to \in Value, NEW i \in DOMAIN operands[user], to # operands[user][i],
         Distinct(user, operands[user][i]), Replace(user, operands[user][i], to), UNCHANGED loop
  PROVE  UsersInvariant'
<1> DEFINE from == operands[user][i]
<1>1. UsersTyped /\ Complete /\ from \in Value
  BY DEF UsersInvariant, Looping, UsersTyped
<1>2. Replace(user, from, to) /\ Distinct(user, from) /\ to # from /\ loop' = loop
  OBVIOUS
<1> HIDE DEF from
<1>3. UsersTyped'
  BY <1>1, <1>2, ReplaceKeepsTypes
<1>4. ASSUME ~undefined'
      PROVE  Complete'
  <2>1. ASSUME from \in Instruction, NEW u \in Instruction, u # user, Has(uses[from], u)
        PROVE  Has(uses'[from], u)
    <3>1. uses'[from] = RemoveUse(uses[from], user)
      BY <1>1, <1>2, <1>4, <2>1, ReplaceUses DEF UsesReplaced
    <3>2. PICK j \in DOMAIN uses[from] : uses[from][j] = u
      BY <2>1 DEF Has
    <3>3. ~Matches(uses[from][j], user)
      BY <1>2, <2>1, <3>2 DEF Distinct, Matches
    <3>4. uses[from] \in Seq(Listed)
      BY <1>1, <2>1, TypedFacts
    <3>5. \E k \in DOMAIN uses[from] : RemoveUse(uses[from], user)[k] = u
      BY <3>2, <3>3, <3>4, Removed
    <3>6. DOMAIN RemoveUse(uses[from], user) = DOMAIN uses[from]
      BY DEF RemoveUse
    <3> QED BY <3>1, <3>5, <3>6 DEF Has
  <2> QED BY <1>1, <1>2, <1>4, <2>1, ReplaceCompletes
<1>5. loop' = Idle' /\ Idle' = Idle
  BY <1>2 DEF Idle
<1> QED BY <1>3, <1>4, <1>5 DEF UsersInvariant, Looping

-----------------------------------------------------------------------------
(* replaceAllUsesWith() *)

LEMMA LoopStarts ==
  ASSUME UsersInvariant, ~undefined, loop = Idle, NEW def \in Instruction, NEW to \in Value,
         def # to, ReplaceAllUsesWith(def, to)
  PROVE  UsersInvariant'
<1>1. /\ loop' = [def |-> def, to |-> to, at |-> 1, uniform |-> Uniform(uses[def])]
      /\ kind' = kind /\ operands' = operands /\ uses' = uses /\ undefined' = undefined
      /\ Instruction' = Instruction /\ Value' = Value
  BY DEF ReplaceAllUsesWith, Instruction, Value
<1>2. /\ loop'.def = def /\ loop'.to = to /\ loop'.at = 1
      /\ loop'.uniform = Uniform(uses[def])
      /\ Uniform(uses[def]) \in BOOLEAN
  BY <1>1 DEF Uniform
<1>3. loop' \in [def : Instruction, to : Value, at : Nat \ {0}, uniform : BOOLEAN]
  BY <1>1, <1>2
<1>4. UsersTyped'
  BY <1>1, <1>2, <1>3 DEF UsersInvariant, UsersTyped
<1>5. Complete'
  BY <1>1 DEF UsersInvariant, Looping, Complete, Has
<1>6. Uniform(uses[def]) => Replacing'
  <2>1. uses[def] \in Seq(Listed)
    BY TypedFacts DEF UsersInvariant
  <2>2. \A j \in DOMAIN uses[def] : ~(j < 1)
    BY <2>1
  <2> SUFFICES ASSUME Uniform(uses[def])
               PROVE  Uniform(uses[def])'
    BY <1>1, <1>2, <1>5, <2>2 DEF Replacing
  <2> QED BY <1>1 DEF Uniform, Alive, Same
<1>7. ~Uniform(uses[def]) => Failing'
  BY <1>1, <1>2 DEF Failing, Uniform, Alive, Same
<1>8. loop' # Idle'
  <2>1. def \in Nat /\ Empty \notin Nat
    BY TypedFacts DEF UsersInvariant
  <2> QED BY <1>2, <2>1 DEF Idle
<1> QED BY <1>1, <1>2, <1>4, <1>6, <1>7, <1>8 DEF UsersInvariant, Looping

\* A loop that goes on, and the use that it is at.
LEMMA LoopFacts ==
  ASSUME UsersInvariant, loop # Idle
  PROVE  /\ loop.def \in Instruction /\ loop.to \in Value /\ loop.to # loop.def
         /\ loop.at \in Nat \ {0} /\ loop.uniform \in BOOLEAN
         /\ loop \in [def : Instruction, to : Value, at : Nat \ {0}, uniform : BOOLEAN]
         /\ uses[loop.def] \in Seq(Listed)
         /\ loop.def \in Value
         /\ \A j \in DOMAIN uses[loop.def] : Alive(uses[loop.def][j]) => uses[loop.def][j] \in Instruction
<1>1. /\ loop \in [def : Instruction, to : Value, at : Nat \ {0}, uniform : BOOLEAN]
      /\ loop.to # loop.def
  BY DEF UsersInvariant, UsersTyped
<1>2. uses[loop.def] \in Seq(Listed)
  BY <1>1, TypedFacts DEF UsersInvariant
<1>3. \A j \in DOMAIN uses[loop.def] : Alive(uses[loop.def][j]) => uses[loop.def][j] \in Instruction
  BY <1>1 DEF UsersInvariant, UsersTyped, Alive
<1> QED BY <1>1, <1>2, <1>3 DEF Value

\* The loop over uses of one structure: the list stays as it is.
LEMMA UniformStep ==
  ASSUME UsersInvariant, ~undefined, loop # Idle, loop.uniform, ReplaceUse,
         NEW def, def = loop.def, NEW list, list = uses[def], NEW at, at = loop.at,
         NEW user, user = list[at]
  PROVE  UsersTyped' /\ ~undefined' /\ Replacing'
<1>1. /\ def \in Instruction /\ def \in Value /\ loop.to \in Value /\ loop.to # def
      /\ list \in Seq(Listed) /\ at \in Nat \ {0}
      /\ \A j \in DOMAIN list : Alive(list[j]) => list[j] \in Instruction
  BY LoopFacts
<1>2. UsersTyped /\ Uniform(list) /\ Complete
      /\ \A j \in DOMAIN list : j < at => ~Uses(list[j], def)
  BY DEF UsersInvariant, Looping, Replacing
<1>3. at \in DOMAIN list /\ loop' = [loop EXCEPT !.at = @ + 1]
  BY <1>1 DEF ReplaceUse
<1>4. \A i, j \in DOMAIN list : Alive(list[i]) /\ Same(list[i], list[j])
  BY <1>2 DEF Uniform
<1>5. Alive(user) /\ user \in Instruction
  BY <1>1, <1>3, <1>4
<1>6. Replace(user, def, loop.to)
  BY <1>5 DEF ReplaceUse
<1>7. ~undefined'
  BY <1>1, <1>2, <1>4, <1>5, <1>6, ReplaceUses
<1>8. UsesReplaced(user, def, loop.to)
  BY <1>1, <1>2, <1>5, <1>6, <1>7, ReplaceUses
<1>9. uses'[def] = list
  <2>1. \A j \in DOMAIN list : Matches(list[j], user)
    BY <1>3, <1>4 DEF Matches
  <2>2. list \in Seq(Listed)
    BY <1>1
  <2>3. RemoveUse(list, user) = list
    BY <2>1, <2>2, Removed
  <2> QED BY <1>1, <1>8, <2>3 DEF UsesReplaced
<1>10. /\ UsersTyped' /\ Instruction' = Instruction
       /\ \A u \in Instruction : u # user => operands'[u] = operands[u]
       /\ DOMAIN operands'[user] = DOMAIN operands[user]
       /\ \A i \in DOMAIN operands[user] : operands'[user][i] # def
  BY <1>1, <1>2, <1>3, <1>5, <1>6, ReplaceKeepsTypes
<1>11. Complete'
  BY <1>1, <1>2, <1>3, <1>5, <1>6, <1>7, <1>9, ReplaceCompletes
<1>12. kind' = kind
  BY <1>6 DEF Replace
<1>13. loop'.def = def /\ loop'.at = at + 1
  <2>1. loop \in [def : Instruction, to : Value, at : Nat \ {0}, uniform : BOOLEAN]
    BY LoopFacts
  <2> QED BY <1>3, <2>1
<1>14. Uniform(list)'
  <2>1. ASSUME NEW v, NEW w, Same(v, w)
        PROVE  Same(v, w)'
    BY <1>10, <1>12, <2>1 DEF Same
  <2>2. \A i, j \in DOMAIN list : Same(list[i], list[j])'
    BY <1>4, <2>1
  <2> QED BY <1>4, <2>2 DEF Uniform, Alive
<1>15. ASSUME NEW j \in DOMAIN list, j < at + 1, NEW u, u = list[j]
       PROVE  ~Uses(u, def)'
  <2>1. u \in Instruction
    BY <1>1, <1>4, <1>15
  <2>2. CASE u = user
    BY <1>10, <2>2 DEF Uses
  <2>3. CASE u # user
    <3>1. j # at
      BY <1>15, <2>3
    <3>2. j < at
      BY <1>1, <1>15, <3>1
    <3> QED BY <1>2, <1>10, <1>15, <2>1, <2>3, <3>2 DEF Uses
  <2> QED BY <2>2, <2>3
<1>16. Replacing'
  BY <1>9, <1>11, <1>13, <1>14, <1>15 DEF Replacing
<1> QED BY <1>7, <1>10, <1>16

\* Of uses that are not of one structure the first removal leaves an empty pointer.
LEMMA FirstRemoval ==
  ASSUME NEW S, NEW list \in Seq(S), NEW user, user = list[1], 1 \in DOMAIN list,
         ~Uniform(list), \A j \in DOMAIN list : Alive(list[j])
  PROVE  /\ 2 <= Len(RemoveUse(list, user))
         /\ \E k \in DOMAIN RemoveUse(list, user) : RemoveUse(list, user)[k] = Empty
<1>1. Matches(list[1], user)
  BY DEF Matches, Same
<1>2. \E k \in DOMAIN list : ~Matches(list[k], user)
  <2>1. PICK i \in DOMAIN list, j \in DOMAIN list : ~Same(list[i], list[j])
    BY DEF Uniform
  <2> QED BY <2>1 DEF Matches, Same
<1>3. Len(list) >= 2
  <2>1. PICK k \in DOMAIN list : ~Matches(list[k], user)
    BY <1>2
  <2>2. k # 1
    BY <1>1, <2>1
  <2> QED BY <2>1, <2>2
<1>4. \E k \in DOMAIN list : RemoveUse(list, user)[k] = Empty
  BY <1>1, <1>2, Removed
<1>5. Len(RemoveUse(list, user)) = Len(list)
  BY Removed
<1>6. DOMAIN RemoveUse(list, user) = DOMAIN list
  BY DEF RemoveUse
<1> QED BY <1>3, <1>4, <1>5, <1>6

\* The loop over uses that are not of one structure: the first removal leaves an empty
\* pointer in the list, at which the next one fails.
LEMMA FailingStep ==
  ASSUME UsersInvariant, ~undefined, loop # Idle, ~loop.uniform, ReplaceUse,
         NEW def, def = loop.def, NEW list, list = uses[def], NEW at, at = loop.at,
         NEW user, user = list[at]
  PROVE  UsersTyped' /\ (~undefined' => Failing')
<1>1. /\ def \in Instruction /\ def \in Value /\ loop.to \in Value /\ loop.to # def
      /\ list \in Seq(Listed) /\ at \in Nat \ {0}
      /\ loop \in [def : Instruction, to : Value, at : Nat \ {0}, uniform : BOOLEAN]
      /\ \A j \in DOMAIN list : Alive(list[j]) => list[j] \in Instruction
  BY LoopFacts
<1>2. /\ UsersTyped
      /\ \/ at = 1 /\ ~Uniform(list)
         \/ at = 2 /\ \E j \in DOMAIN list : ~Alive(list[j])
  BY DEF UsersInvariant, Looping, Failing
<1>3. at \in DOMAIN list /\ loop' = [loop EXCEPT !.at = @ + 1]
  BY <1>1 DEF ReplaceUse
<1>4. CASE ~Alive(user)
  <2>1. undefined' = TRUE /\ kind' = kind /\ operands' = operands /\ uses' = uses
    BY <1>4 DEF ReplaceUse
  <2>2. Instruction' = Instruction /\ Value' = Value
    BY <2>1 DEF Instruction, Value
  <2>3. /\ loop' \in [def : Instruction, to : Value, at : Nat \ {0}, uniform : BOOLEAN]
        /\ loop'.to # loop'.def
    BY <1>1, <1>3
  <2> QED BY <1>2, <2>1, <2>2, <2>3 DEF UsersTyped
<1>5. CASE Alive(user)
  <2>1. Replace(user, def, loop.to) /\ user \in Instruction
    BY <1>1, <1>3, <1>5 DEF ReplaceUse
  <2>2. UsersTyped' /\ Instruction' = Instruction
    BY <1>1, <1>2, <1>3, <2>1, ReplaceKeepsTypes
  <2>3. ASSUME ~undefined'
        PROVE  Failing'
    <3>1. UsesReplaced(user, def, loop.to) /\ \A j \in DOMAIN list : Alive(list[j])
      BY <1>1, <1>2, <2>1, <2>3, ReplaceUses
    <3>2. at = 1 /\ user = list[1] /\ 1 \in DOMAIN list
      BY <1>2, <1>3, <3>1
    <3>3. list \in Seq(Listed)
      BY <1>1
    <3>4. ~Uniform(list) /\ \A j \in DOMAIN list : Alive(list[j])
      BY <1>2, <3>1, <3>2
    <3>5. /\ 2 <= Len(RemoveUse(list, user))
          /\ \E k \in DOMAIN RemoveUse(list, user) : RemoveUse(list, user)[k] = Empty
      BY <3>2, <3>3, <3>4, FirstRemoval
    <3>6. uses'[def] = RemoveUse(list, user)
      BY <1>1, <3>1 DEF UsesReplaced
    <3>7. loop'.def = def /\ loop'.at = 2
      BY <1>1, <1>3, <3>2
    <3>8. \E k \in DOMAIN uses'[def] : ~Alive(uses'[def][k])
      BY <3>5, <3>6 DEF Alive
    <3>9. 2 <= Len(uses'[def])
      BY <3>5, <3>6
    <3> QED BY <3>7, <3>8, <3>9 DEF Failing
  <2> QED BY <2>2, <2>3
<1> QED BY <1>4, <1>5

LEMMA ReplaceUsePreserves ==
  ASSUME UsersInvariant, ~undefined, ReplaceUse
  PROVE  UsersInvariant' /\ loop' # Idle /\ (undefined' => ~loop.uniform)
<1>0. loop # Idle
  BY DEF ReplaceUse
<1>1. /\ loop.def \in Nat /\ loop.uniform \in BOOLEAN
      /\ loop \in [def : Instruction, to : Value, at : Nat \ {0}, uniform : BOOLEAN]
      /\ loop' = [loop EXCEPT !.at = @ + 1]
  BY <1>0, LoopFacts DEF ReplaceUse, UsersInvariant, UsersTyped, Instruction
<1>2. loop'.def = loop.def /\ loop'.uniform = loop.uniform
  BY <1>1
<1>3. loop' # Idle
  BY <1>1, <1>2, UsersAssumption DEF Idle
<1>4. CASE loop.uniform
  <2>1. UsersTyped' /\ ~undefined' /\ Replacing'
    BY <1>0, <1>4, UniformStep
  <2> QED BY <1>2, <1>3, <1>4, <2>1 DEF UsersInvariant, Looping, Idle
<1>5. CASE ~loop.uniform
  <2>1. UsersTyped' /\ (~undefined' => Failing')
    BY <1>0, <1>5, FailingStep
  <2> QED BY <1>2, <1>3, <1>5, <2>1 DEF UsersInvariant, Looping, Idle
<1> QED BY <1>1, <1>4, <1>5

\* The loop ends only if the uses were of one structure, and then it has replaced all.
LEMMA ReturnPreserves ==
  ASSUME UsersInvariant, ~undefined, Return
  PROVE  /\ UsersInvariant' /\ loop.uniform
         /\ \A user \in Instruction : \A i \in DOMAIN operands[user] : operands[user][i] # loop.def
<1> DEFINE list == uses[loop.def]
<1>1. /\ loop # Idle /\ loop.at > Len(list) /\ loop' = Idle
      /\ kind' = kind /\ operands' = operands /\ uses' = uses /\ undefined' = undefined
  BY DEF Return
<1>2. /\ loop.def \in Instruction /\ list \in Seq(Listed) /\ loop.at \in Nat \ {0}
      /\ loop.uniform \in BOOLEAN
  BY <1>1, LoopFacts
<1>3. loop.uniform
  <2> SUFFICES ASSUME ~loop.uniform
               PROVE  FALSE
    BY <1>2
  <2>1. \/ loop.at = 1 /\ ~Uniform(list)
        \/ loop.at = 2 /\ loop.at <= Len(list)
    BY <1>1 DEF UsersInvariant, Looping, Failing
  <2>2. Len(list) = 0 => Uniform(list)
    BY <1>2 DEF Uniform
  <2> QED BY <1>1, <1>2, <2>1, <2>2
<1>4. Complete /\ \A j \in DOMAIN list : j < loop.at => ~Uses(list[j], loop.def)
  BY <1>1, <1>3 DEF UsersInvariant, Looping, Replacing
<1>5. \A user \in Instruction : \A i \in DOMAIN operands[user] : operands[user][i] # loop.def
  <2> SUFFICES ASSUME NEW user \in Instruction, NEW i \in DOMAIN operands[user],
                      operands[user][i] = loop.def
               PROVE  FALSE
    OBVIOUS
  <2>1. PICK j \in DOMAIN list : list[j] = user
    BY <1>2, <1>4 DEF Complete, Has
  <2>2. j < loop.at
    BY <1>1, <1>2
  <2>3. Uses(user, loop.def)
    BY DEF Uses
  <2> QED BY <1>4, <2>1, <2>2, <2>3
<1>6. UsersTyped' /\ Complete'
  BY <1>1, <1>4 DEF UsersInvariant, UsersTyped, Complete, Has, Instruction, Value, Idle
<1> QED BY <1>1, <1>3, <1>5, <1>6 DEF UsersInvariant, Looping, Idle

-----------------------------------------------------------------------------
(* The theorems *)

\* One step: the invariant is kept, and what the action properties say holds.
StepHolds ==
  /\ UsersInvariant'
  /\ loop # Idle /\ loop' = Idle =>
       /\ loop.uniform
       /\ \A user \in Instruction : \A i \in DOMAIN operands[user] : operands[user][i] # loop.def
  /\ loop # Idle /\ undefined' /\ ~undefined => ~loop.uniform

LEMMA UsersStep == UsersInvariant /\ UsersNext => StepHolds
<1> SUFFICES ASSUME UsersInvariant, UsersNext
             PROVE  StepHolds
  OBVIOUS
<1>1. ~undefined
  BY DEF UsersNext
<1>2. ASSUME loop = Idle, NEW class \in Kind, NEW values \in Operands(class), New(class, values)
      PROVE  StepHolds
  BY <1>1, <1>2, NewPreserves DEF StepHolds
<1>3. ASSUME loop = Idle, NEW lhs \in Instruction, NewThrows(lhs)
      PROVE  StepHolds
  BY <1>1, <1>3, NewThrowsPreserves DEF StepHolds
<1>4. ASSUME loop = Idle, NEW user \in Instruction, NEW to \in Instruction \cup Constant,
             NEW i \in DOMAIN operands[user], to # operands[user][i],
             Distinct(user, operands[user][i]),
             Replace(user, operands[user][i], to), UNCHANGED loop
      PROVE  StepHolds
  BY <1>1, <1>4, ReplacePreserves DEF StepHolds, Value
<1>5. ASSUME loop = Idle, NEW def \in Instruction, NEW to \in Instruction \cup Constant,
             def # to, ReplaceAllUsesWith(def, to)
      PROVE  StepHolds
  BY <1>1, <1>5, LoopStarts DEF StepHolds, Value
<1>6. CASE ReplaceUse
  BY <1>1, <1>6, ReplaceUsePreserves DEF StepHolds
<1>7. CASE Return
  BY <1>1, <1>7, ReturnPreserves DEF StepHolds, Return
<1> QED BY <1>2, <1>3, <1>4, <1>5, <1>6, <1>7 DEF UsersNext

LEMMA UsersInvariantKept == UsersInvariant /\ [UsersNext]_usersVars => UsersInvariant'
<1>1. UsersInvariant /\ UsersNext => UsersInvariant'
  BY UsersStep DEF StepHolds
<1>2. UsersInvariant /\ UNCHANGED usersVars => UsersInvariant'
  BY DEF UsersInvariant, UsersTyped, Looping, Complete, Replacing, Failing, Uniform, Has, Uses,
         Same, Alive, Instruction, Value, Idle, usersVars
<1> QED BY <1>1, <1>2

\* The invariant, of every state.
THEOREM UsersInvariantHolds == UsersSpec => []UsersInvariant
<1> QED BY Initially, UsersInvariantKept, PTL DEF UsersSpec

\* Whenever no replacement is going on, every instruction is among the uses of each of its
\* operands (User.cpp, Instruction.cpp), though removal compares uses by structure: what
\* clients replace themselves is told apart, and a loop over uses of one structure leaves
\* the list as it is.
THEOREM UsesAreComplete == UsersSpec => []UsesComplete
<1>1. UsersInvariant => UsesComplete
  BY DEF UsersInvariant, Looping, UsesComplete, Complete, Has
<1> QED BY <1>1, UsersInvariantHolds, PTL

\* When replaceAllUsesWith() returns no instruction has the value for an operand any more,
\* although the list it iterates over is written to under it.
THEOREM AllUsesReplaced == UsersSpec => AllReplaced
<1>1. UsersInvariant /\ [UsersNext]_usersVars =>
        [ loop # Idle /\ loop' = Idle =>
            \A user \in Instruction : \A i \in DOMAIN operands[user] :
              operands[user][i] # loop.def ]_usersVars
  BY UsersStep DEF StepHolds
<1> QED BY <1>1, UsersInvariantHolds, PTL DEF UsersSpec, AllReplaced

\* replaceAllUsesWith() returns only if the uses were all of one structure, and uses an
\* empty pointer or a dangling reference only if they were not.
THEOREM ReturnsOnlyIfUniform == UsersSpec => ReturnsIfUniform
<1>1. UsersInvariant /\ [UsersNext]_usersVars =>
        [ loop # Idle => (loop' = Idle => loop.uniform) /\ (undefined' => ~loop.uniform) ]_usersVars
  <2> SUFFICES ASSUME UsersInvariant, UsersNext
               PROVE  loop # Idle => (loop' = Idle => loop.uniform) /\ (undefined' => ~loop.uniform)
    OBVIOUS
  <2> QED BY UsersStep DEF StepHolds, UsersNext
<1> QED BY <1>1, UsersInvariantHolds, PTL DEF UsersSpec, ReturnsIfUniform
=============================================================================
