----------------------- MODULE NaturalNumbers_proofs -----------------------
(***************************************************************************)
(* Induction over the natural numbers, for sets of them: the theorem of    *)
(* the library takes an operator, which no prover here instantiates.  With *)
(* it, that the recursive function of the powers of two exists, its        *)
(* equations, that powers grow, and quotients and remainders by them.      *)
(***************************************************************************)
EXTENDS PowersOfTwo, FiniteSetTheorems, FunctionTheorems, TLAPS

\* Induction over the natural numbers, for sets of them: the least number that is missing
\* would be the image of none under  x -> x - 1.
LEMMA SetInduction ==
  ASSUME NEW N, 0 \in N, \A n \in Nat : n \in N => n + 1 \in N
  PROVE  Nat \subseteq N
<1> SUFFICES ASSUME NEW n \in Nat, n \notin N
             PROVE  FALSE
  OBVIOUS
<1> DEFINE Left == { x \in 0 .. n : x \notin N }
           Less == [x \in Left |-> x - 1]
<1>1. \A x \in Left : x - 1 \in Left
  <2> SUFFICES ASSUME NEW x \in Left
               PROVE  x - 1 \in Left
    OBVIOUS
  <2>1. x \in 1 .. n /\ x - 1 \in Nat
    OBVIOUS
  <2>2. QED
    BY <2>1
<1>2. Less \in [Left -> Left] /\ \A x, y \in Left : Less[x] = Less[y] => x = y
  BY <1>1
<1>3. IsFiniteSet(Left)
  <2>1. IsFiniteSet(0 .. n)
    BY FS_Interval
  <2>2. Left \in SUBSET (0 .. n)
    OBVIOUS
  <2>3. QED
    BY <2>1, <2>2, FS_Subset
<1> HIDE DEF Less
<1>4. Less \in Injection(Left, Left)
  BY <1>2, Fun_IsInj
<1>5. Less \in Surjection(Left, Left)
  BY <1>3, <1>4, FS_Injection
<1>6. PICK x \in Left : Less[x] = n
  <2>1. n \in Left
    OBVIOUS
  <2>2. QED
    BY <1>5, <2>1, Fun_SurjectionProperties
<1>7. QED
  BY <1>6 DEF Less

IsPower(f, n) == f = [m \in 0 .. n |-> IF m = 0 THEN 1 ELSE 2 * f[m - 1]]

LEMMA IsPowerMakes ==
  ASSUME NEW n \in Nat, NEW f, IsPower(f, n)
  PROVE  f[0] = 1 /\ \A k \in Nat : k + 1 <= n => f[k + 1] = 2 * f[k]
<1>1. \A m \in 0 .. n : f[m] = IF m = 0 THEN 1 ELSE 2 * f[m - 1]
  BY DEF IsPower
<1>2. f[0] = 1
  BY <1>1
<1>3. ASSUME NEW k \in Nat, NEW m \in Nat, m = k + 1, m <= n
      PROVE  f[m] = 2 * f[k]
  <2>1. m \in 0 .. n /\ m # 0 /\ m - 1 = k
    BY <1>3
  <2> QED BY <1>1, <2>1
<1> QED BY <1>2, <1>3

LEMMA PowersExist == \A n \in Nat : \E f : IsPower(f, n)
<1> DEFINE N == { n \in Nat : \E f : IsPower(f, n) }
<1>1. 0 \in N
  <2> DEFINE f == [m \in 0 .. 0 |-> 1]
  <2>1. IsPower(f, 0)
    BY DEF IsPower
  <2> QED BY <2>1
<1>2. ASSUME NEW n \in Nat, n \in N
      PROVE  n + 1 \in N
  <2>1. PICK f : IsPower(f, n)
    BY <1>2
  <2>2. \A m \in 0 .. n : f[m] = IF m = 0 THEN 1 ELSE 2 * f[m - 1]
    BY <2>1 DEF IsPower
  <2> DEFINE g == [m \in 0 .. n + 1 |-> IF m = n + 1 THEN 2 * f[n] ELSE f[m]]
  <2>3. ASSUME NEW m \in 0 .. n + 1
        PROVE  g[m] = IF m = 0 THEN 1 ELSE 2 * g[m - 1]
    <3>1. CASE m = n + 1
      <4>1. g[m] = 2 * f[n] /\ g[m - 1] = f[n] /\ m # 0
        BY <3>1
      <4> QED BY <4>1
    <3>2. CASE m # n + 1
      <4>1. m \in 0 .. n /\ g[m] = f[m]
        BY <3>2
      <4>2. m # 0 => m - 1 \in 0 .. n /\ g[m - 1] = f[m - 1]
        BY <4>1
      <4> HIDE DEF g
      <4> QED BY <2>2, <4>1, <4>2
    <3> QED BY <3>1, <3>2
  <2>4. g = [m \in 0 .. n + 1 |-> g[m]]
    OBVIOUS
  <2> HIDE DEF g
  <2>5. IsPower(g, n + 1)
    BY <2>3, <2>4 DEF IsPower
  <2> QED BY <2>5
<1> HIDE DEF N
<1>3. Nat \subseteq N
  BY <1>1, <1>2, SetInduction
<1> QED BY <1>3 DEF N

LEMMA PowersAgree ==
  ASSUME NEW n \in Nat, NEW f, IsPower(f, n), NEW m \in Nat, NEW g, IsPower(g, m)
  PROVE  \A k \in Nat : k <= n /\ k <= m => f[k] \in Nat /\ f[k] = g[k]
<1> DEFINE N == { k \in Nat : k <= n /\ k <= m => f[k] \in Nat /\ f[k] = g[k] }
<1>1. 0 \in N
  BY IsPowerMakes
<1>2. ASSUME NEW k \in Nat, k \in N
      PROVE  k + 1 \in N
  <2>1. k + 1 <= n => f[k + 1] = 2 * f[k]
    BY IsPowerMakes
  <2>2. k + 1 <= m => g[k + 1] = 2 * g[k]
    BY IsPowerMakes
  <2>3. k + 1 <= n /\ k + 1 <= m => f[k] \in Nat /\ f[k] = g[k]
    BY <1>2
  <2> QED BY <2>1, <2>2, <2>3
<1> HIDE DEF N
<1>3. Nat \subseteq N
  BY <1>1, <1>2, SetInduction
<1> QED BY <1>3 DEF N

LEMMA PowerIs ==
  ASSUME NEW n \in Nat
  PROVE  \E f : IsPower(f, n) /\ PowerOf2(n) = f[n]
<1> DEFINE f == CHOOSE g : IsPower(g, n)
<1>1. IsPower(f, n)
  BY PowersExist
<1>2. PowerOf2(n) = f[n]
  BY DEF PowerOf2, IsPower
<1> QED BY <1>1, <1>2

LEMMA PowerFacts ==
  /\ PowerOf2(0) = 1
  /\ \A n \in Nat : PowerOf2(n) \in Nat /\ PowerOf2(n + 1) = 2 * PowerOf2(n)
<1>1. PowerOf2(0) = 1
  BY PowerIs, IsPowerMakes
<1>2. ASSUME NEW n \in Nat
      PROVE  PowerOf2(n) \in Nat /\ PowerOf2(n + 1) = 2 * PowerOf2(n)
  <2>1. PICK f : IsPower(f, n) /\ PowerOf2(n) = f[n]
    BY PowerIs
  <2>2. PICK g : IsPower(g, n + 1) /\ PowerOf2(n + 1) = g[n + 1]
    BY PowerIs
  <2>3. g[n + 1] = 2 * g[n]
    BY <2>2, IsPowerMakes
  <2>4. f[n] \in Nat /\ f[n] = g[n]
    BY <2>1, <2>2, PowersAgree
  <2> QED BY <2>1, <2>2, <2>3, <2>4
<1> QED BY <1>1, <1>2

\* A power is greater than its exponent, and powers grow with it.
LEMMA PowersGrow ==
  /\ \A n \in Nat : n < PowerOf2(n)
  /\ \A n, m \in Nat : n <= m => PowerOf2(n) <= PowerOf2(m)
<1>1. \A n \in Nat : n < PowerOf2(n)
  <2> DEFINE N == { n \in Nat : n < PowerOf2(n) }
  <2>1. 0 \in N /\ \A n \in Nat : n \in N => n + 1 \in N
    BY PowerFacts
  <2> HIDE DEF N
  <2>2. Nat \subseteq N
    BY <2>1, SetInduction
  <2> QED BY <2>2 DEF N
<1>2. ASSUME NEW n \in Nat
      PROVE  \A d \in Nat : PowerOf2(n) <= PowerOf2(n + d)
  <2> DEFINE N == { d \in Nat : PowerOf2(n) <= PowerOf2(n + d) }
  <2>1. 0 \in N
    BY PowerFacts
  <2>2. ASSUME NEW d \in Nat, d \in N
        PROVE  d + 1 \in N
    <3>1. PowerOf2(n + d) \in Nat /\ PowerOf2((n + d) + 1) = 2 * PowerOf2(n + d)
      BY PowerFacts
    <3>2. (n + d) + 1 = n + (d + 1)
      OBVIOUS
    <3> QED BY <2>2, <3>1, <3>2, PowerFacts
  <2> HIDE DEF N
  <2>3. Nat \subseteq N
    BY <2>1, <2>2, SetInduction
  <2> QED BY <2>3 DEF N
<1>3. ASSUME NEW n \in Nat, NEW m \in Nat, n <= m
      PROVE  PowerOf2(n) <= PowerOf2(m)
  <2>1. m - n \in Nat /\ n + (m - n) = m
    BY <1>3
  <2> QED BY <1>2, <2>1
<1> QED BY <1>1, <1>3

\* The power of a sum is the product of the powers.
LEMMA PowersMultiply == \A n, m \in Nat : PowerOf2(n + m) = PowerOf2(n) * PowerOf2(m)
<1> SUFFICES ASSUME NEW n \in Nat
             PROVE  \A m \in Nat : PowerOf2(n + m) = PowerOf2(n) * PowerOf2(m)
  OBVIOUS
<1> DEFINE N == { m \in Nat : PowerOf2(n + m) = PowerOf2(n) * PowerOf2(m) }
<1>1. 0 \in N
  BY PowerFacts
<1>2. ASSUME NEW m \in Nat, m \in N
      PROVE  m + 1 \in N
  <2>1. /\ PowerOf2(n) \in Nat /\ PowerOf2(m) \in Nat
        /\ PowerOf2(m + 1) = 2 * PowerOf2(m)
        /\ PowerOf2((n + m) + 1) = 2 * PowerOf2(n + m)
    BY PowerFacts
  <2>2. (n + m) + 1 = n + (m + 1)
    OBVIOUS
  <2>3. PowerOf2(n + m) = PowerOf2(n) * PowerOf2(m)
    BY <1>2
  <2>4. PowerOf2(n + (m + 1)) = 2 * (PowerOf2(n) * PowerOf2(m))
    BY <2>1, <2>2, <2>3
  <2>5. 2 * (PowerOf2(n) * PowerOf2(m)) = PowerOf2(n) * (2 * PowerOf2(m))
    BY <2>1
  <2> QED BY <2>1, <2>4, <2>5
<1> HIDE DEF N
<1>3. Nat \subseteq N
  BY <1>1, <1>2, SetInduction
<1> QED BY <1>3 DEF N

-----------------------------------------------------------------------------
(* Quotients and remainders *)

LEMMA Division ==
  ASSUME NEW a \in Int, NEW p \in Nat, p > 0
  PROVE  /\ a = p * (a \div p) + (a % p)
         /\ a % p \in 0 .. p - 1
         /\ a \div p \in Int
         /\ a >= 0 => a \div p \in 0 .. a
OBVIOUS

\* There is one quotient and one remainder.
LEMMA DivisionIs ==
  ASSUME NEW p \in Nat, p > 0, NEW q \in Int, NEW r \in 0 .. p - 1,
         NEW a \in Int, a = p * q + r
  PROVE  a \div p = q /\ a % p = r
<1>1. ASSUME NEW d \in Int, d >= 1
      PROVE  p * d >= p
  BY <1>1
<1>2. ASSUME NEW s \in Int, NEW t \in 0 .. p - 1, p * q + r = p * s + t
      PROVE  q = s /\ r = t
  <2>1. p * (q - s) = t - r /\ p * (s - q) = r - t
    BY <1>2
  <2>2. ~(q - s >= 1) /\ ~(s - q >= 1)
    BY <2>1, <1>1
  <2> QED BY <2>2, <1>2
<1> QED BY <1>2, Division

LEMMA Remainders ==
  ASSUME NEW p \in Nat, p > 0
  PROVE  /\ \A a \in Nat : a % p \in 0 .. p - 1
         /\ \A a \in 0 .. p - 1 : a % p = a /\ a \div p = 0
         /\ \A a, k \in Int : (a + k * p) % p = a % p
<1>1. ASSUME NEW a \in 0 .. p - 1
      PROVE  a % p = a /\ a \div p = 0
  <2>1. a = p * 0 + a
    OBVIOUS
  <2> QED BY <2>1, DivisionIs
<1>2. ASSUME NEW a \in Int, NEW k \in Int
      PROVE  (a + k * p) % p = a % p
  <2>1. PICK q \in Int, r \in 0 .. p - 1 : a = p * q + r /\ a % p = r
    BY Division
  <2>2. a + k * p = p * (q + k) + r /\ q + k \in Int
    BY <2>1
  <2> QED BY <2>1, <2>2, DivisionIs
<1>3. ASSUME NEW a \in Nat
      PROVE  a % p \in 0 .. p - 1
  BY <1>3
<1> QED BY <1>1, <1>2, <1>3

\* The remainder by twice the divisor has one more binary digit.
LEMMA NextDigit ==
  ASSUME NEW a \in Nat, NEW p \in Nat, p > 0
  PROVE  /\ a % (2 * p) = (a % p) + ((a \div p) % 2) * p
         /\ (a \div p) % 2 \in {0, 1}
<1>1. PICK q \in Nat, r \in 0 .. p - 1 : a = p * q + r /\ a \div p = q /\ a % p = r
  BY Division
<1>2. PICK h \in Nat, b \in {0, 1} : q = 2 * h + b /\ q % 2 = b
  <2>1. q = 2 * (q \div 2) + (q % 2) /\ q \div 2 \in Nat /\ q % 2 \in {0, 1}
    OBVIOUS
  <2> QED BY <2>1
<1>3. PICK s \in Nat : s = r + b * p /\ s \in 0 .. (2 * p) - 1
  <2>1. CASE b = 0
    BY <2>1
  <2>2. CASE b = 1
    BY <2>2
  <2> QED BY <2>1, <2>2
<1>4. a = (2 * p) * h + s
  BY <1>1, <1>2, <1>3
<1>5. a % (2 * p) = s
  BY <1>3, <1>4, DivisionIs
<1> QED BY <1>1, <1>2, <1>3, <1>5

-----------------------------------------------------------------------------
(* Quotients and remainders by powers *)

LEMMA PowerTypes ==
  \A n \in Nat : PowerOf2(n) \in Nat /\ PowerOf2(n) > 0 /\ PowerOf2(n + 1) = 2 * PowerOf2(n)
BY PowerFacts, PowersGrow

LEMMA PowerDivisionIs ==
  ASSUME NEW n \in Nat, NEW q \in Int, NEW r \in 0 .. PowerOf2(n) - 1,
         NEW a \in Int, a = PowerOf2(n) * q + r
  PROVE  a \div PowerOf2(n) = q /\ a % PowerOf2(n) = r
<1>1. PICK p \in Nat : p = PowerOf2(n) /\ p > 0
  BY PowerTypes
<1>2. \A s \in Int, t \in 0 .. p - 1, b \in Int : b = p * s + t => b \div p = s /\ b % p = t
  BY <1>1, DivisionIs
<1>3. \A s \in Int, t \in 0 .. PowerOf2(n) - 1, b \in Int :
        b = PowerOf2(n) * s + t => b \div PowerOf2(n) = s /\ b % PowerOf2(n) = t
  BY <1>1, <1>2, Zenon
<1> QED BY <1>3, Zenon

LEMMA PowerRemainders ==
  ASSUME NEW n \in Nat
  PROVE  /\ \A a \in Nat : a % PowerOf2(n) \in 0 .. PowerOf2(n) - 1
         /\ \A a \in Nat : a % PowerOf2(n) \in Nat
         /\ \A a \in 0 .. PowerOf2(n) - 1 : a % PowerOf2(n) = a /\ a \div PowerOf2(n) = 0
         /\ \A a, k \in Int : (a + k * PowerOf2(n)) % PowerOf2(n) = a % PowerOf2(n)
<1>1. PICK p \in Nat : p = PowerOf2(n) /\ p > 0
  BY PowerTypes
<1>2. /\ \A a \in Nat : a % p \in 0 .. p - 1
      /\ \A a \in 0 .. p - 1 : a % p = a /\ a \div p = 0
      /\ \A a, k \in Int : (a + k * p) % p = a % p
  BY <1>1, Remainders
<1>3. 0 .. p - 1 \subseteq Nat
  OBVIOUS
<1>4. \A a \in Nat : a % p \in Nat
  BY <1>2, <1>3
<1> QED BY <1>1, <1>2, <1>4

LEMMA PowerDigit ==
  ASSUME NEW a \in Nat, NEW n \in Nat
  PROVE  /\ a % PowerOf2(n + 1) = (a % PowerOf2(n)) + ((a \div PowerOf2(n)) % 2) * PowerOf2(n)
         /\ (a \div PowerOf2(n)) % 2 \in {0, 1}
<1>1. PICK p \in Nat : p = PowerOf2(n) /\ p > 0 /\ PowerOf2(n + 1) = 2 * p
  BY PowerTypes
<1>2. a % (2 * p) = (a % p) + ((a \div p) % 2) * p /\ (a \div p) % 2 \in {0, 1}
  BY <1>1, NextDigit
<1> QED BY <1>1, <1>2

\* A power is the product of the powers of the parts of its exponent.
LEMMA PowerSplits ==
  ASSUME NEW n \in Nat, NEW m \in 0 .. n
  PROVE  /\ PowerOf2(n) = PowerOf2(m) * PowerOf2(n - m)
         /\ PowerOf2(m) <= PowerOf2(n)
<1>1. n - m \in Nat /\ m + (n - m) = n /\ m \in Nat
  OBVIOUS
<1> QED BY <1>1, PowersMultiply, PowersGrow
=============================================================================
