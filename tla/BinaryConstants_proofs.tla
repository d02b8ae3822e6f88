------------------------ MODULE BinaryConstants_proofs ------------------------
(***************************************************************************)
(* That the values of binary constants stay within their widths with       *)
(* careful clients, and what the operations make of such values: that they *)
(* are integers in two's complement, that the casts are inverse to each    *)
(* other, and that truncation undoes the extensions.                       *)
(*                                                                         *)
(* The first part is about the operators of a machine word: what a sum     *)
(* over bits is, and so what they do with masks.                           *)
(***************************************************************************)
EXTENDS BinaryConstants, NaturalNumbers_proofs

-----------------------------------------------------------------------------
(* Sums over bits *)

BitVector == [Position -> {0, 1}]

\* g holds the sums over the first bits, up to all of the first n.
Sums(g, bits, n) ==
  /\ g \in [0 .. n -> Nat]
  /\ g[0] = 0
  /\ \A m \in Nat : m < n => g[m + 1] = g[m] + bits[m] * PowerOf2(m)

LEMMA BitVectorMakes ==
  ASSUME NEW bits \in BitVector, NEW m \in Nat, m < Word
  PROVE  bits[m] \in {0, 1} /\ bits[m] * PowerOf2(m) \in Nat
<1>1. m \in Position
  BY WordAssumption DEF Position
<1> QED BY <1>1, PowerFacts DEF BitVector

LEMMA SumsExist ==
  ASSUME NEW bits \in BitVector
  PROVE  \E g : Sums(g, bits, Word)
<1> DEFINE N == { n \in Nat : n <= Word => \E g : Sums(g, bits, n) }
<1>1. 0 \in N
  <2> DEFINE g == [m \in 0 .. 0 |-> 0]
  <2>1. Sums(g, bits, 0)
    BY DEF Sums
  <2> QED BY <2>1
<1>2. ASSUME NEW n \in Nat, n \in N
      PROVE  n + 1 \in N
  <2> SUFFICES ASSUME n + 1 <= Word
               PROVE  \E g : Sums(g, bits, n + 1)
    OBVIOUS
  <2>1. PICK f : Sums(f, bits, n)
    BY <1>2, WordAssumption
  <2>2. n < Word /\ bits[n] * PowerOf2(n) \in Nat
    BY BitVectorMakes, WordAssumption
  <2> DEFINE g == [m \in 0 .. n + 1 |-> IF m = n + 1 THEN f[n] + bits[n] * PowerOf2(n) ELSE f[m]]
  <2>3. f \in [0 .. n -> Nat] /\ f[0] = 0
    BY <2>1 DEF Sums
  <2>4. g \in [0 .. n + 1 -> Nat] /\ g[0] = 0
    BY <2>2, <2>3
  <2>5. ASSUME NEW m \in Nat, m < n + 1
        PROVE  g[m + 1] = g[m] + bits[m] * PowerOf2(m)
    <3>1. CASE m = n
      BY <3>1
    <3>2. CASE m < n
      <4>1. g[m + 1] = f[m + 1] /\ g[m] = f[m]
        BY <3>2
      <4>2. f[m + 1] = f[m] + bits[m] * PowerOf2(m)
        BY <3>2, <2>1 DEF Sums
      <4> QED BY <4>1, <4>2
    <3> QED BY <3>1, <3>2, <2>5
  <2> HIDE DEF g
  <2>6. Sums(g, bits, n + 1)
    BY <2>4, <2>5 DEF Sums
  <2> QED BY <2>6
<1> HIDE DEF N
<1>3. Nat \subseteq N
  BY <1>1, <1>2, SetInduction
<1> QED BY <1>3, WordAssumption DEF N

\* The sum over bits is the last one of whatever meets its equations.
LEMMA FromBitsIs ==
  ASSUME NEW bits \in BitVector, NEW g, Sums(g, bits, Word)
  PROVE  FromBits(bits) = g[Word]
<1> DEFINE IsSum(f) ==
      f = [n \in 0 .. Word |->
             IF n = 0 THEN 0 ELSE f[n - 1] + bits[n - 1] * PowerOf2(n - 1)]
           h == CHOOSE f : IsSum(f)
<1>1. IsSum(g)
  <2>1. ASSUME NEW n \in 0 .. Word
        PROVE  g[n] = IF n = 0 THEN 0 ELSE g[n - 1] + bits[n - 1] * PowerOf2(n - 1)
    <3>1. CASE n = 0
      BY <3>1 DEF Sums
    <3>2. CASE n # 0
      <4>1. n - 1 \in Nat /\ n - 1 < Word /\ (n - 1) + 1 = n
        BY <3>2, WordAssumption
      <4>2. g[(n - 1) + 1] = g[n - 1] + bits[n - 1] * PowerOf2(n - 1)
        BY <4>1 DEF Sums
      <4> QED BY <3>2, <4>1, <4>2
    <3> QED BY <3>1, <3>2
  <2>2. g = [n \in 0 .. Word |-> g[n]]
    BY DEF Sums
  <2> QED BY <2>1, <2>2
<1>2. IsSum(h)
  BY <1>1
<1>3. FromBits(bits) = h[Word]
  BY DEF FromBits
<1>4. \A n \in 0 .. Word : h[n] = IF n = 0 THEN 0 ELSE h[n - 1] + bits[n - 1] * PowerOf2(n - 1)
  BY <1>2
<1> HIDE DEF h
<1> DEFINE N == { n \in Nat : n <= Word => h[n] = g[n] }
<1>5. 0 \in N
  BY <1>4, WordAssumption DEF Sums
<1>6. ASSUME NEW n \in Nat, n \in N
      PROVE  n + 1 \in N
  <2> SUFFICES ASSUME n + 1 <= Word
               PROVE  h[n + 1] = g[n + 1]
    OBVIOUS
  <2>1. h[n] = g[n] /\ n < Word /\ n + 1 \in 0 .. Word /\ n + 1 # 0 /\ (n + 1) - 1 = n
    BY <1>6, WordAssumption
  <2>2. h[n + 1] = h[n] + bits[n] * PowerOf2(n)
    BY <2>1, <1>4
  <2>3. g[n + 1] = g[n] + bits[n] * PowerOf2(n)
    BY <2>1 DEF Sums
  <2> QED BY <2>1, <2>2, <2>3
<1> HIDE DEF N
<1>7. Nat \subseteq N
  BY <1>5, <1>6, SetInduction
<1>8. h[Word] = g[Word]
  BY <1>7, WordAssumption DEF N
<1> QED BY <1>3, <1>8

\* Without bits from position w on, the sum is a number of w bits.
LEMMA FromBitsFits ==
  ASSUME NEW bits \in BitVector, NEW w \in 0 .. Word,
         \A i \in Position : i >= w => bits[i] = 0
  PROVE  FromBits(bits) \in 0 .. Mask(w)
<1>1. PICK g : Sums(g, bits, Word)
  BY SumsExist
<1>2. FromBits(bits) = g[Word]
  BY <1>1, FromBitsIs
<1> DEFINE Bound(n) == IF n <= w THEN PowerOf2(n) ELSE PowerOf2(w)
           N == { n \in Nat : n <= Word => g[n] \in 0 .. Bound(n) - 1 }
<1>3. 0 \in N
  <2>1. g[0] = 0 /\ Bound(0) = 1
    BY <1>1, PowerFacts, WordAssumption DEF Sums
  <2> QED BY <2>1
<1>4. ASSUME NEW n \in Nat, n \in N
      PROVE  n + 1 \in N
  <2> SUFFICES ASSUME n + 1 <= Word
               PROVE  g[n + 1] \in 0 .. Bound(n + 1) - 1
    OBVIOUS
  <2>1. n < Word /\ n \in Position /\ g[n] \in 0 .. Bound(n) - 1
    BY <1>4, WordAssumption DEF Position
  <2>2. g[n + 1] = g[n] + bits[n] * PowerOf2(n)
    BY <1>1, <2>1 DEF Sums
  <2>3. bits[n] \in {0, 1}
    BY <2>1, BitVectorMakes
  <2>4. PowerOf2(n) \in Nat /\ PowerOf2(n + 1) = 2 * PowerOf2(n) /\ PowerOf2(w) \in Nat
    BY PowerFacts
  <2>5. CASE n < w
    <3>1. bits[n] * PowerOf2(n) \in 0 .. PowerOf2(n)
      BY <2>3, <2>4
    <3> QED BY <2>5, <2>1, <2>2, <2>4, <3>1
  <2>6. CASE n >= w
    <3>1. bits[n] = 0 /\ bits[n] * PowerOf2(n) = 0
      BY <2>6, <2>1, <2>4
    <3>2. Bound(n + 1) = Bound(n)
      BY <2>6
    <3>3. g[n + 1] = g[n]
      BY <2>1, <2>2, <2>4, <3>1
    <3> QED BY <2>1, <3>2, <3>3
  <2> QED BY <2>5, <2>6
<1> HIDE DEF N
<1>5. Nat \subseteq N
  BY <1>3, <1>4, SetInduction
<1>6. g[Word] \in 0 .. Bound(Word) - 1
  BY <1>5, WordAssumption DEF N
<1>7. Bound(Word) = PowerOf2(w)
  BY WordAssumption
<1> QED BY <1>2, <1>6, <1>7 DEF Mask

-----------------------------------------------------------------------------
(* Bits *)

LEMMA BitFacts ==
  ASSUME NEW v \in Nat, NEW i \in Nat
  PROVE  /\ Bit(v, i) \in {0, 1}
         /\ v % PowerOf2(i + 1) = (v % PowerOf2(i)) + Bit(v, i) * PowerOf2(i)
         /\ v % PowerOf2(i) \in 0 .. PowerOf2(i) - 1
BY PowerDigit, PowerRemainders DEF Bit

\* A number has the bits of its quotient by a power, and none above its width.
LEMMA HighBits ==
  ASSUME NEW w \in Nat, NEW v \in 0 .. Mask(w), NEW i \in Nat, i >= w
  PROVE  Bit(v, i) = 0
<1>1. PowerOf2(w) \in Nat /\ PowerOf2(i) \in Nat /\ PowerOf2(w) <= PowerOf2(i)
  BY PowerTypes, PowersGrow
<1>2. v \in 0 .. PowerOf2(i) - 1 /\ v = PowerOf2(i) * 0 + v
  BY <1>1 DEF Mask
<1>3. v \div PowerOf2(i) = 0
  BY <1>2, PowerDivisionIs
<1> QED BY <1>3 DEF Bit

LEMMA BitIs ==
  ASSUME NEW i \in Nat, NEW q \in Nat, NEW r \in 0 .. PowerOf2(i) - 1, NEW b \in {0, 1},
         NEW v \in Nat, v = PowerOf2(i) * (2 * q + b) + r
  PROVE  Bit(v, i) = b
<1>1. v \div PowerOf2(i) = 2 * q + b
  BY PowerDivisionIs
<1>2. (2 * q + b) % 2 = b
  OBVIOUS
<1> QED BY <1>1, <1>2 DEF Bit

\* The mask of width w without the one of width u has the bits from u up to w.
LEMMA MaskBits ==
  ASSUME NEW w \in Nat, NEW u \in 0 .. w, NEW i \in Nat
  PROVE  Bit(PowerOf2(w) - PowerOf2(u), i) = IF u <= i /\ i < w THEN 1 ELSE 0
<1>1. PICK v \in Nat : v = PowerOf2(w) - PowerOf2(u) /\ v <= Mask(w)
  <2>1. PowerOf2(u) <= PowerOf2(w)
    BY PowerSplits
  <2>2. PowerOf2(u) \in Nat /\ PowerOf2(u) > 0 /\ PowerOf2(w) \in Nat
    BY PowerTypes
  <2> QED BY <2>1, <2>2 DEF Mask
<1>2. CASE i < u
  <2>1. PICK p \in Nat, a \in Nat, b \in Nat :
          /\ p = PowerOf2(i) /\ p > 0 /\ b > 0
          /\ PowerOf2(u) = (2 * p) * a /\ PowerOf2(w) = ((2 * p) * a) * b
    <3>1. i + 1 \in 0 .. u /\ u \in Nat /\ u - (i + 1) \in Nat /\ w - u \in Nat
      BY <1>2
    <3>2. /\ PowerOf2(u) = PowerOf2(i + 1) * PowerOf2(u - (i + 1))
          /\ PowerOf2(w) = PowerOf2(u) * PowerOf2(w - u)
      BY <3>1, PowerSplits
    <3>3. /\ PowerOf2(i) \in Nat /\ PowerOf2(i) > 0 /\ PowerOf2(i + 1) = 2 * PowerOf2(i)
          /\ PowerOf2(u - (i + 1)) \in Nat /\ PowerOf2(w - u) \in Nat /\ PowerOf2(w - u) > 0
      BY <3>1, PowerTypes
    <3> QED BY <3>2, <3>3
  <2>2. v = p * (2 * (a * (b - 1)) + 0) + 0 /\ a * (b - 1) \in Nat
    BY <1>1, <2>1
  <2>3. 0 \in 0 .. PowerOf2(i) - 1 /\ v = PowerOf2(i) * (2 * (a * (b - 1)) + 0) + 0
    BY <2>1, <2>2
  <2>4. Bit(v, i) = 0
    <3>1. PICK q \in Nat, r \in 0 .. PowerOf2(i) - 1, d \in {0, 1} :
            d = 0 /\ v = PowerOf2(i) * (2 * q + d) + r
      BY <2>2, <2>3
    <3>2. Bit(v, i) = d
      BY <3>1, BitIs
    <3> QED BY <3>1, <3>2
  <2> QED BY <1>1, <1>2, <2>4
<1>3. CASE u <= i /\ i < w
  <2>1. PICK p \in Nat, a \in Nat :
          /\ p = PowerOf2(i) /\ p > 0 /\ a > 0 /\ PowerOf2(w) = (2 * p) * a
          /\ PowerOf2(u) \in 1 .. p
    <3>1. i + 1 \in 0 .. w /\ w - (i + 1) \in Nat /\ u \in 0 .. i
      BY <1>3
    <3>2. PowerOf2(w) = PowerOf2(i + 1) * PowerOf2(w - (i + 1)) /\ PowerOf2(u) <= PowerOf2(i)
      BY <3>1, PowerSplits
    <3>3. /\ PowerOf2(i) \in Nat /\ PowerOf2(i) > 0 /\ PowerOf2(i + 1) = 2 * PowerOf2(i)
          /\ PowerOf2(w - (i + 1)) \in Nat /\ PowerOf2(w - (i + 1)) > 0
          /\ PowerOf2(u) \in Nat /\ PowerOf2(u) > 0
      BY <3>1, PowerTypes
    <3> QED BY <3>2, <3>3
  <2>2. /\ v = p * (2 * (a - 1) + 1) + (p - PowerOf2(u))
        /\ a - 1 \in Nat
        /\ p - PowerOf2(u) \in 0 .. p - 1
    BY <1>1, <2>1
  <2>3. /\ v = PowerOf2(i) * (2 * (a - 1) + 1) + (p - PowerOf2(u))
        /\ p - PowerOf2(u) \in 0 .. PowerOf2(i) - 1
    BY <2>1, <2>2
  <2>4. Bit(v, i) = 1
    <3>1. PICK q \in Nat, r \in 0 .. PowerOf2(i) - 1, d \in {0, 1} :
            d = 1 /\ v = PowerOf2(i) * (2 * q + d) + r
      BY <2>2, <2>3
    <3>2. Bit(v, i) = d
      BY <3>1, BitIs
    <3> QED BY <3>1, <3>2
  <2> QED BY <1>1, <1>3, <2>4
<1>4. CASE i >= w
  <2>1. Mask(w) \in Nat /\ v \in 0 .. Mask(w)
    BY <1>1, PowerTypes DEF Mask
  <2>2. Bit(v, i) = 0
    BY <1>4, <2>1, HighBits
  <2> QED BY <1>1, <1>4, <2>2
<1> QED BY <1>2, <1>3, <1>4

LEMMA MaskFacts ==
  ASSUME NEW w \in Nat
  PROVE  /\ Mask(w) \in Nat
         /\ \A i \in Nat : Bit(Mask(w), i) = IF i < w THEN 1 ELSE 0
<1>1. PowerOf2(0) = 1 /\ PowerOf2(w) \in Nat /\ PowerOf2(w) > 0
  BY PowerFacts, PowersGrow
<1>2. ASSUME NEW i \in Nat
      PROVE  Bit(PowerOf2(w) - PowerOf2(0), i) = IF 0 <= i /\ i < w THEN 1 ELSE 0
  BY MaskBits
<1> QED BY <1>1, <1>2 DEF Mask

-----------------------------------------------------------------------------
(* The operators of a machine word *)

AndVector(x, y) == [i \in Position |-> IF Bit(x, i) = 1 /\ Bit(y, i) = 1 THEN 1 ELSE 0]
OrVector(x, y) == [i \in Position |-> IF Bit(x, i) = 1 \/ Bit(y, i) = 1 THEN 1 ELSE 0]
XorVector(x, y) == [i \in Position |-> IF Bit(x, i) # Bit(y, i) THEN 1 ELSE 0]

LEMMA Vectors ==
  ASSUME NEW x, NEW y
  PROVE  /\ AndVector(x, y) \in BitVector /\ WordAnd(x, y) = FromBits(AndVector(x, y))
         /\ OrVector(x, y) \in BitVector /\ WordOr(x, y) = FromBits(OrVector(x, y))
         /\ XorVector(x, y) \in BitVector /\ WordXor(x, y) = FromBits(XorVector(x, y))
BY DEF BitVector, AndVector, OrVector, XorVector, WordAnd, WordOr, WordXor

\* What the operators make of numbers of w bits are numbers of w bits.
LEMMA OperatorsFit ==
  ASSUME NEW w \in 0 .. Word, NEW x \in 0 .. Mask(w), NEW y \in 0 .. Mask(w)
  PROVE  WordAnd(x, y) \in 0 .. Mask(w) /\ WordOr(x, y) \in 0 .. Mask(w)
         /\ WordXor(x, y) \in 0 .. Mask(w)
<1>1. ASSUME NEW i \in Position, i >= w
      PROVE  AndVector(x, y)[i] = 0 /\ OrVector(x, y)[i] = 0 /\ XorVector(x, y)[i] = 0
  <2>1. w \in Nat /\ i \in Nat
    BY WordAssumption DEF Position
  <2>2. Bit(x, i) = 0 /\ Bit(y, i) = 0
    BY <1>1, <2>1, HighBits
  <2> QED BY <2>2 DEF AndVector, OrVector, XorVector
<1> QED BY <1>1, Vectors, FromBitsFits

\* A mask takes the remainder.
LEMMA AndMask ==
  ASSUME NEW v \in Nat, NEW w \in 0 .. Word
  PROVE  WordAnd(v, Mask(w)) = v % PowerOf2(w) /\ WordAnd(Mask(w), v) = v % PowerOf2(w)
<1> DEFINE g == [n \in 0 .. Word |-> IF n <= w THEN v % PowerOf2(n) ELSE v % PowerOf2(w)]
<1>1. w \in Nat
  BY WordAssumption
<1>2. \A n \in Nat : v % PowerOf2(n) \in Nat
  BY PowerRemainders
<1>3. AndVector(v, Mask(w)) = AndVector(Mask(w), v)
  BY DEF AndVector
<1>4. ASSUME NEW n \in Nat, n < Word
      PROVE  g[n + 1] = g[n] + AndVector(v, Mask(w))[n] * PowerOf2(n)
  <2>1. n \in Position /\ n \in 0 .. Word /\ n + 1 \in 0 .. Word
    BY <1>4, WordAssumption DEF Position
  <2>2. AndVector(v, Mask(w))[n] = IF n < w THEN Bit(v, n) ELSE 0
    BY <1>1, <2>1, MaskFacts, BitFacts DEF AndVector
  <2>3. PowerOf2(n) \in Nat
    BY PowerFacts
  <2>4. CASE n < w
    <3>1. g[n + 1] = v % PowerOf2(n + 1) /\ g[n] = v % PowerOf2(n)
      BY <1>1, <2>1, <2>4
    <3> QED BY <2>2, <2>4, <3>1, BitFacts
  <2>5. CASE n >= w
    <3>1. g[n + 1] = v % PowerOf2(w) /\ g[n] = v % PowerOf2(w)
      BY <1>1, <2>1, <2>5
    <3> QED BY <1>1, <1>2, <2>2, <2>3, <2>5, <3>1
  <2> QED BY <1>1, <2>4, <2>5
<1>5. g \in [0 .. Word -> Nat]
  BY <1>1, <1>2, WordAssumption
<1>6. g[0] = 0
  <2>1. v % PowerOf2(0) = 0
    BY PowerFacts
  <2> QED BY <1>1, <2>1, WordAssumption
<1>7. g[Word] = v % PowerOf2(w)
  BY <1>1, WordAssumption
<1> HIDE DEF g
<1>8. Sums(g, AndVector(v, Mask(w)), Word)
  BY <1>4, <1>5, <1>6 DEF Sums
<1> QED BY <1>3, <1>7, <1>8, Vectors, FromBitsIs

\* With a mask, exclusive or takes the complement within its width.
LEMMA XorMask ==
  ASSUME NEW w \in 0 .. Word, NEW v \in 0 .. Mask(w)
  PROVE  WordXor(v, Mask(w)) = Mask(w) - v
<1> DEFINE g == [n \in 0 .. Word |->
                   IF n <= w THEN Mask(n) - (v % PowerOf2(n)) ELSE Mask(w) - v]
<1>1. w \in Nat /\ v \in Nat
  BY WordAssumption
<1>2. \A n \in Nat : /\ v % PowerOf2(n) \in 0 .. Mask(n)
                     /\ Mask(n) - (v % PowerOf2(n)) \in Nat
  <2> SUFFICES ASSUME NEW n \in Nat
               PROVE  v % PowerOf2(n) \in 0 .. Mask(n) /\ Mask(n) - (v % PowerOf2(n)) \in Nat
    OBVIOUS
  <2>1. v % PowerOf2(n) \in 0 .. PowerOf2(n) - 1 /\ PowerOf2(n) \in Nat
    BY <1>1, PowerRemainders, PowerTypes
  <2> QED BY <2>1 DEF Mask
<1>3. v % PowerOf2(w) = v
  BY <1>1, PowerRemainders DEF Mask
<1>4. ASSUME NEW n \in Nat, n < Word
      PROVE  g[n + 1] = g[n] + XorVector(v, Mask(w))[n] * PowerOf2(n)
  <2>1. n \in Position /\ n \in 0 .. Word /\ n + 1 \in 0 .. Word
    BY <1>4, WordAssumption DEF Position
  <2>2. PowerOf2(n) \in Nat /\ PowerOf2(n + 1) = 2 * PowerOf2(n)
    BY PowerFacts
  <2>3. CASE n < w
    <3>1. g[n + 1] = Mask(n + 1) - (v % PowerOf2(n + 1)) /\ g[n] = Mask(n) - (v % PowerOf2(n))
      BY <1>1, <2>1, <2>3
    <3>2. /\ v % PowerOf2(n + 1) = (v % PowerOf2(n)) + Bit(v, n) * PowerOf2(n)
          /\ v % PowerOf2(n) \in 0 .. PowerOf2(n) - 1
          /\ Bit(v, n) \in {0, 1}
      BY <1>1, BitFacts
    <3>3. Bit(Mask(w), n) = 1
      BY <1>1, <2>3, MaskFacts
    <3>4. XorVector(v, Mask(w))[n] = 1 - Bit(v, n)
      BY <2>1, <3>2, <3>3 DEF XorVector
    <3>5. PICK q \in Nat : q = PowerOf2(n) /\ Mask(n) = q - 1 /\ Mask(n + 1) = 2 * q - 1
      BY <2>2 DEF Mask
    <3>6. PICK r \in Nat : r = v % PowerOf2(n)
      BY <3>2, <3>5
    <3>7. CASE Bit(v, n) = 0
      <4>1. /\ g[n + 1] = (2 * q - 1) - r /\ g[n] = (q - 1) - r
            /\ XorVector(v, Mask(w))[n] * PowerOf2(n) = q
        BY <3>1, <3>2, <3>4, <3>5, <3>6, <3>7
      <4> QED BY <4>1
    <3>8. CASE Bit(v, n) = 1
      <4>1. /\ g[n + 1] = (2 * q - 1) - (r + q) /\ g[n] = (q - 1) - r
            /\ XorVector(v, Mask(w))[n] * PowerOf2(n) = 0
        BY <3>1, <3>2, <3>4, <3>5, <3>6, <3>8
      <4> QED BY <4>1
    <3> QED BY <3>2, <3>7, <3>8
  <2>4. CASE n >= w
    <3>1. g[n + 1] = Mask(w) - v /\ g[n] = Mask(w) - v
      BY <1>1, <1>3, <2>1, <2>4
    <3>2. XorVector(v, Mask(w))[n] = 0
      BY <1>1, <2>1, <2>4, MaskFacts, HighBits DEF XorVector
    <3>3. Mask(w) - v \in Nat
      BY <1>1, <1>2, <1>3
    <3> QED BY <2>2, <3>1, <3>2, <3>3
  <2> QED BY <1>1, <2>3, <2>4
<1>5. g \in [0 .. Word -> Nat]
  BY <1>1, <1>2, <1>3, WordAssumption
<1>6. g[0] = 0
  <2>1. v % PowerOf2(0) = 0 /\ Mask(0) = 0
    BY <1>1, PowerFacts DEF Mask
  <2> QED BY <1>1, <2>1, WordAssumption
<1>7. g[Word] = Mask(w) - v
  BY <1>1, <1>3, WordAssumption
<1> HIDE DEF g
<1>8. Sums(g, XorVector(v, Mask(w)), Word)
  BY <1>4, <1>5, <1>6 DEF Sums
<1> QED BY <1>7, <1>8, Vectors, FromBitsIs

\* Or with the bits above the width of a value adds them to it.
LEMMA OrAbove ==
  ASSUME NEW w \in 0 .. Word, NEW u \in 0 .. w, NEW v \in 0 .. Mask(u)
  PROVE  WordOr(v, PowerOf2(w) - PowerOf2(u)) = v + (PowerOf2(w) - PowerOf2(u))
<1> DEFINE above == PowerOf2(w) - PowerOf2(u)
           g == [n \in 0 .. Word |->
                   IF n <= u THEN v % PowerOf2(n)
                   ELSE IF n <= w THEN v + (PowerOf2(n) - PowerOf2(u))
                   ELSE v + above]
<1>1. w \in Nat /\ u \in Nat /\ v \in Nat /\ u <= w
  BY WordAssumption
<1>2. \A n \in Nat : v % PowerOf2(n) \in Nat
  BY <1>1, PowerRemainders
<1>3. v % PowerOf2(u) = v
  BY <1>1, PowerRemainders DEF Mask
<1>4. /\ above \in Nat /\ PowerOf2(u) \in Nat
      /\ \A n \in Nat : PowerOf2(n) \in Nat /\ (u <= n => PowerOf2(u) <= PowerOf2(n))
  <2>1. \A n \in Nat : PowerOf2(n) \in Nat /\ (u <= n => PowerOf2(u) <= PowerOf2(n))
    BY <1>1, PowerTypes, PowersGrow
  <2>2. PowerOf2(w) \in Nat /\ PowerOf2(u) \in Nat /\ PowerOf2(u) <= PowerOf2(w)
    BY <1>1, <2>1
  <2> QED BY <2>1, <2>2
<1>5. ASSUME NEW n \in Nat, n < Word
      PROVE  g[n + 1] = g[n] + OrVector(v, above)[n] * PowerOf2(n)
  <2>1. n \in Position /\ n \in 0 .. Word /\ n + 1 \in 0 .. Word
    BY <1>5, WordAssumption DEF Position
  <2>2. PowerOf2(n) \in Nat /\ PowerOf2(n + 1) = 2 * PowerOf2(n)
    BY PowerFacts
  <2>3. Bit(above, n) = IF u <= n /\ n < w THEN 1 ELSE 0
    BY <1>1, MaskBits
  <2>4. Bit(v, n) \in {0, 1} /\ (u <= n => Bit(v, n) = 0)
    BY <1>1, BitFacts, HighBits
  <2>5. CASE n < u
    <3>1. g[n + 1] = v % PowerOf2(n + 1) /\ g[n] = v % PowerOf2(n)
      BY <1>1, <2>1, <2>5
    <3>2. OrVector(v, above)[n] = Bit(v, n)
      BY <1>1, <2>1, <2>3, <2>4, <2>5 DEF OrVector
    <3> QED BY <1>1, <3>1, <3>2, BitFacts
  <2>6. CASE u <= n /\ n < w
    <3>1. g[n + 1] = v + (PowerOf2(n + 1) - PowerOf2(u)) /\ g[n] = v + (PowerOf2(n) - PowerOf2(u))
      <4>1. CASE n = u
        BY <1>1, <1>3, <1>4, <2>1, <2>6, <4>1
      <4>2. CASE n > u
        BY <1>1, <2>1, <2>6, <4>2
      <4> QED BY <1>1, <2>6, <4>1, <4>2
    <3>2. OrVector(v, above)[n] = 1
      BY <2>1, <2>3, <2>6 DEF OrVector
    <3>3. PowerOf2(u) \in Nat
      BY <1>4
    <3> HIDE DEF g
    <3> QED BY <1>1, <2>2, <3>1, <3>2, <3>3
  <2>7. CASE w <= n
    <3>1. g[n + 1] = v + above /\ g[n] = v + above
      <4>1. CASE n > w
        BY <1>1, <2>1, <4>1
      <4>2. CASE n = w /\ u < w
        BY <1>1, <2>1, <4>2
      <4>3. CASE n = w /\ u = w
        <5>1. g[n + 1] = v + above /\ g[n] = v % PowerOf2(u) /\ above = 0
          BY <1>1, <1>4, <2>1, <4>3
        <5> QED BY <1>1, <1>3, <5>1
      <4> QED BY <1>1, <2>7, <4>1, <4>2, <4>3
    <3>2. OrVector(v, above)[n] = 0
      BY <1>1, <2>1, <2>3, <2>4, <2>7 DEF OrVector
    <3> HIDE DEF above, g
    <3> QED BY <1>1, <1>4, <2>2, <3>1, <3>2
  <2> QED BY <1>1, <2>5, <2>6, <2>7
<1>6. g \in [0 .. Word -> Nat]
  <2>1. ASSUME NEW n \in 0 .. Word
        PROVE  g[n] \in Nat
    BY <1>1, <1>2, <1>4, WordAssumption
  <2> QED BY <2>1
<1>7. g[0] = 0
  <2>1. v % PowerOf2(0) = 0
    BY <1>1, PowerFacts
  <2> QED BY <1>1, <2>1, WordAssumption
<1>8. g[Word] = v + above
  <2>1. CASE Word > w
    BY <1>1, <2>1, WordAssumption
  <2>2. CASE Word = w /\ u < w
    BY <1>1, <2>2, WordAssumption
  <2>3. CASE Word = w /\ u = w
    <3>1. g[Word] = v % PowerOf2(u) /\ above = 0
      BY <1>1, <1>4, <2>3, WordAssumption
    <3> QED BY <1>1, <1>3, <3>1
  <2> QED BY <1>1, <2>1, <2>2, <2>3, WordAssumption
<1> HIDE DEF g
<1>9. Sums(g, OrVector(v, above), Word)
  BY <1>5, <1>6, <1>7 DEF Sums
<1>10. WordOr(v, above) = v + above
  BY <1>8, <1>9, Vectors, FromBitsIs
<1> QED BY <1>10
-----------------------------------------------------------------------------
(* What the operations make of values that fit into their widths *)

Content == BinaryValue \cup { Undef(w) : w \in Width }

LEMMA WidthFacts ==
  ASSUME NEW w \in Width
  PROVE  /\ w \in Nat /\ w >= 1 /\ w + 2 <= Word /\ w \in 0 .. Word /\ w - 1 \in Nat
         /\ PowerOf2(w) \in Nat /\ PowerOf2(w) > 0 /\ Mask(w) \in Nat
         /\ PowerOf2(w - 1) \in Nat /\ PowerOf2(w - 1) > 0 /\ PowerOf2(w) = 2 * PowerOf2(w - 1)
         /\ PowerOf2(w + 1) = 2 * PowerOf2(w)
<1>1. w \in Nat /\ w >= 1 /\ w + 2 <= Word /\ w \in 0 .. Word /\ w - 1 \in Nat
  BY WidthAssumption, WordAssumption
<1>2. (w - 1) + 1 = w
  BY <1>1
<1>3. /\ PowerOf2(w) \in Nat /\ PowerOf2(w) > 0 /\ PowerOf2(w + 1) = 2 * PowerOf2(w)
      /\ PowerOf2(w - 1) \in Nat /\ PowerOf2(w - 1) > 0
      /\ PowerOf2((w - 1) + 1) = 2 * PowerOf2(w - 1)
  BY <1>1, PowerTypes
<1> QED BY <1>1, <1>2, <1>3 DEF Mask

\* The constructor accepts the values of a width.
LEMMA Constructed ==
  ASSUME NEW w \in Width, NEW v \in 0 .. Mask(w)
  PROVE  BinaryConstant(w, v) = Bits(w, v) /\ Bits(w, v) \in BinaryValue
<1>1. ~(v > PowerOf2(w + 1))
  BY WidthFacts DEF Mask
<1> QED BY <1>1 DEF BinaryConstant, BinaryValue

LEMMA BitsFields ==
  ASSUME NEW w, NEW v
  PROVE  /\ Bits(w, v).width = w /\ Bits(w, v).of = v /\ Defined(Bits(w, v))
         /\ Bits(w, v) # Throws
         /\ Undef(w).width = w /\ ~Defined(Undef(w)) /\ Undef(w) # Throws
BY DEF Bits, Undef, Defined, Throws

LEMMA ContentIs ==
  ASSUME NEW b \in Content
  PROVE  \/ \E w \in Width : b = Undef(w)
         \/ \E w \in Width : \E v \in 0 .. Mask(w) : b = Bits(w, v)
BY DEF Content, BinaryValue

LEMMA SumIs ==
  ASSUME NEW w \in Width, NEW x \in 0 .. Mask(w), NEW y \in 0 .. Mask(w)
  PROVE  /\ Add(Bits(w, x), Bits(w, y)) = Bits(w, (x + y) % PowerOf2(w))
         /\ (x + y) % PowerOf2(w) \in 0 .. Mask(w)
<1>1. w \in 0 .. Word /\ w \in Nat /\ Mask(w) \in Nat
  BY WidthFacts
<1>2. x + y \in Nat
  BY <1>1
<1>3. (x + y) % PowerOf2(w) \in 0 .. Mask(w)
  BY <1>1, <1>2, PowerRemainders DEF Mask
<1>4. WordAnd(x + y, Mask(w)) = (x + y) % PowerOf2(w)
  BY <1>1, <1>2, AndMask
<1>5. Add(Bits(w, x), Bits(w, y)) = BinaryConstant(w, WordAnd(x + y, Mask(w)))
  BY BitsFields DEF Add
<1> QED BY <1>3, <1>4, <1>5, Constructed

\* The negation is one of the machine word, of which the mask takes the remainder.
LEMMA NegationIs ==
  ASSUME NEW w \in Width, NEW x \in 0 .. Mask(w)
  PROVE  Inv(Bits(w, x)) = Bits(w, IF x = 0 THEN 0 ELSE PowerOf2(w) - x)
<1>1. /\ w \in 0 .. Word /\ w \in Nat /\ PowerOf2(w) \in Nat /\ PowerOf2(w) > 0
      /\ Word \in Nat /\ Word - w \in Nat
  BY WidthFacts, WordAssumption
<1>2. PICK k \in Nat, p \in Nat, t \in Nat :
        k > 0 /\ p > 0 /\ p = PowerOf2(w) /\ t = PowerOf2(Word) /\ t = p * k
  <2>1. PowerOf2(Word) = PowerOf2(w) * PowerOf2(Word - w)
    BY <1>1, PowerSplits
  <2>2. PowerOf2(Word - w) \in Nat /\ PowerOf2(Word - w) > 0 /\ PowerOf2(Word) \in Nat
    BY <1>1, PowerTypes
  <2> QED BY <1>1, <2>1, <2>2
<1>3. x \in Nat /\ x < p
  BY <1>2 DEF Mask
<1>4. Complement(x) + 1 = t - x
  BY <1>2, <1>3 DEF Complement, Mask
<1>5. t - x \in Nat
  <2>1. p * k >= p
    BY <1>2
  <2> QED BY <1>2, <1>3, <2>1
<1> DEFINE r == IF x = 0 THEN 0 ELSE p - x
<1>6. r \in 0 .. p - 1
  BY <1>2, <1>3
<1>7. PICK q \in Int : t - x = p * q + r
  <2>1. CASE x = 0
    BY <1>2, <2>1
  <2>2. CASE x # 0
    <3>1. t - x = p * (k - 1) + (p - x) /\ k - 1 \in Int
      BY <1>2, <1>3
    <3> QED BY <2>2, <3>1
  <2> QED BY <2>1, <2>2
<1>8. (t - x) % p = r
  <2>1. PICK a \in Int : a = t - x /\ a = p * q + r
    BY <1>5, <1>7
  <2> HIDE DEF r
  <2>2. a % p = r
    BY <1>2, <1>6, <2>1, DivisionIs
  <2> QED BY <2>1, <2>2
<1>9. WordAnd(t - x, Mask(w)) = (t - x) % PowerOf2(w)
  BY <1>1, <1>5, AndMask
<1>10. WordAnd(Complement(x) + 1, Mask(w)) = r
  BY <1>2, <1>4, <1>8, <1>9
<1>11. Inv(Bits(w, x)) = BinaryConstant(w, WordAnd(Complement(x) + 1, Mask(w)))
  BY BitsFields DEF Inv
<1>12. r \in 0 .. Mask(w)
  BY <1>2, <1>6 DEF Mask
<1> QED BY <1>2, <1>10, <1>11, <1>12, Constructed

\* The complement of a machine word fits into no width that is two bits less.
LEMMA ComplementThrows ==
  ASSUME NEW w \in Width, NEW x \in 0 .. Mask(w)
  PROVE  NotBits(Bits(w, x)) = Throws
<1>1. /\ w \in Nat /\ w + 1 \in Nat /\ PowerOf2(w) \in Nat /\ PowerOf2(w) > 0
      /\ PowerOf2(w + 1) = 2 * PowerOf2(w) /\ (w + 1) + 1 \in 0 .. Word
      /\ Word \in Nat
  BY WidthFacts, WordAssumption
<1>2. PowerOf2((w + 1) + 1) = 2 * PowerOf2(w + 1) /\ PowerOf2(Word) \in Nat
  BY <1>1, PowerTypes
<1>3. PowerOf2((w + 1) + 1) <= PowerOf2(Word)
  BY <1>1, PowerSplits
<1>4. Complement(x) > PowerOf2(w + 1)
  BY <1>1, <1>2, <1>3 DEF Complement, Mask
<1> QED BY <1>4, BitsFields DEF NotBits, BinaryConstant

LEMMA LogicFits ==
  ASSUME NEW w \in Width, NEW x \in 0 .. Mask(w), NEW y \in 0 .. Mask(w)
  PROVE  /\ AndBits(Bits(w, x), Bits(w, y)) = Bits(w, WordAnd(x, y))
         /\ OrBits(Bits(w, x), Bits(w, y)) = Bits(w, WordOr(x, y))
         /\ XorBits(Bits(w, x), Bits(w, y)) = Bits(w, WordXor(x, y))
         /\ WordAnd(x, y) \in 0 .. Mask(w)
         /\ WordOr(x, y) \in 0 .. Mask(w)
         /\ WordXor(x, y) \in 0 .. Mask(w)
<1>1. w \in 0 .. Word
  BY WidthFacts
<1>2. WordAnd(x, y) \in 0 .. Mask(w) /\ WordOr(x, y) \in 0 .. Mask(w)
      /\ WordXor(x, y) \in 0 .. Mask(w)
  BY <1>1, OperatorsFit
<1> QED BY <1>2, BitsFields, Constructed DEF AndBits, OrBits, XorBits

\* The bit of the sign tells the upper half of the values of a width.
LEMMA SignBit ==
  ASSUME NEW w \in Width, NEW x \in 0 .. Mask(w)
  PROVE  /\ IsSet(x, w) <=> x >= PowerOf2(w - 1)
         /\ x \div PowerOf2(w - 1) = 0 <=> x < PowerOf2(w - 1)
<1>1. /\ w - 1 \in Nat /\ PowerOf2(w - 1) \in Nat /\ PowerOf2(w - 1) > 0
      /\ PowerOf2(w) = 2 * PowerOf2(w - 1) /\ x \in Nat /\ x < PowerOf2(w)
  BY WidthFacts DEF Mask
<1>2. CASE x < PowerOf2(w - 1)
  <2>1. x \in 0 .. PowerOf2(w - 1) - 1
    BY <1>1, <1>2
  <2>2. x \div PowerOf2(w - 1) = 0
    BY <1>1, <2>1, PowerRemainders
  <2> QED BY <1>1, <1>2, <2>2 DEF IsSet, Bit
<1>3. CASE x >= PowerOf2(w - 1)
  <2>1. PICK q \in Int, r \in 0 .. PowerOf2(w - 1) - 1 : q = 1 /\ x = PowerOf2(w - 1) * q + r
    <3>1. x = PowerOf2(w - 1) * 1 + (x - PowerOf2(w - 1))
          /\ x - PowerOf2(w - 1) \in 0 .. PowerOf2(w - 1) - 1
      BY <1>1, <1>3
    <3> QED BY <3>1
  <2>2. x \div PowerOf2(w - 1) = q
    BY <1>1, <2>1, PowerDivisionIs
  <2>3. x \div PowerOf2(w - 1) = 1
    BY <2>1, <2>2
  <2>4. Bit(x, w - 1) = 1
    BY <2>3 DEF Bit
  <2>5. ~(x < PowerOf2(w - 1))
    BY <1>1, <1>3
  <2> QED BY <1>3, <2>3, <2>4, <2>5 DEF IsSet
<1> QED BY <1>1, <1>2, <1>3

LEMMA AsIntegerIs ==
  ASSUME NEW w \in Width, NEW x \in 0 .. Mask(w)
  PROVE  /\ AsInteger(Bits(w, x)) = Integer(Signed(w, x))
         /\ Signed(w, x) \in -PowerOf2(w - 1) .. PowerOf2(w - 1) - 1
<1>1. /\ PowerOf2(w - 1) \in Nat /\ PowerOf2(w - 1) > 0
      /\ PowerOf2(w) = 2 * PowerOf2(w - 1) /\ x \in Nat /\ x < PowerOf2(w)
  BY WidthFacts DEF Mask
<1>2. Signed(w, x) \in -PowerOf2(w - 1) .. PowerOf2(w - 1) - 1
  BY <1>1 DEF Signed
<1>3. CASE x >= PowerOf2(w - 1)
  <2>1. Inv(Bits(w, x)) = Bits(w, PowerOf2(w) - x)
    BY <1>1, <1>3, NegationIs
  <2>2. -(Inv(Bits(w, x)).of) = Signed(w, x)
    BY <1>1, <1>3, <2>1, BitsFields DEF Signed
  <2> QED BY <1>2, <1>3, <2>2, SignBit, BitsFields DEF AsInteger
<1>4. CASE x < PowerOf2(w - 1)
  BY <1>1, <1>2, <1>4, SignBit, BitsFields DEF AsInteger, Signed
<1> QED BY <1>1, <1>3, <1>4

LEMMA IntegerFields ==
  ASSUME NEW n
  PROVE  Integer(n).of = n /\ Defined(Integer(n)) /\ ~Defined(NoInteger) /\ Integer(n) # NoInteger
BY DEF Integer, NoInteger, Defined

\* A mask keeps just the numbers of its width.
LEMMA MaskKeeps ==
  ASSUME NEW w \in Width, NEW n \in Nat
  PROVE  /\ WordAnd(n, Mask(w)) \in 0 .. Mask(w)
         /\ WordAnd(n, Mask(w)) = n <=> n \in 0 .. Mask(w)
<1>1. w \in 0 .. Word /\ w \in Nat /\ PowerOf2(w) \in Nat
  BY WidthFacts
<1>2. WordAnd(n, Mask(w)) = n % PowerOf2(w)
  BY <1>1, AndMask
<1>3. n % PowerOf2(w) \in 0 .. Mask(w) /\ (n \in 0 .. Mask(w) => n % PowerOf2(w) = n)
  BY <1>1, PowerRemainders DEF Mask
<1> QED BY <1>2, <1>3

LEMMA FromIntegerIs ==
  ASSUME NEW w \in Width, NEW n \in Int
  PROVE  /\ n \in 0 .. PowerOf2(w - 1) - 1 => FromInteger(Integer(n), w) = Bits(w, n)
         /\ n \in -PowerOf2(w - 1) .. -1 => FromInteger(Integer(n), w) = Bits(w, PowerOf2(w) + n)
         /\ n \notin -PowerOf2(w - 1) .. PowerOf2(w - 1) - 1 =>
              FromInteger(Integer(n), w) = Undef(w)
<1>1. /\ w \in 0 .. Word /\ PowerOf2(w - 1) \in Nat /\ PowerOf2(w - 1) > 0
      /\ PowerOf2(w) = 2 * PowerOf2(w - 1) /\ PowerOf2(w) \in Nat
      /\ Mask(w) = PowerOf2(w) - 1
  BY WidthFacts DEF Mask
<1>2. CASE n >= 0
  <2>1. FromInteger(Integer(n), w) =
          IF WordAnd(n, Mask(w)) # n \/ IsSet(n, w) THEN Undef(w) ELSE BinaryConstant(w, n)
    BY <1>2, IntegerFields DEF FromInteger
  <2>2. CASE n \in 0 .. Mask(w)
    <3>1. WordAnd(n, Mask(w)) = n
      BY <1>2, <2>2, MaskKeeps
    <3>2. IsSet(n, w) <=> n >= PowerOf2(w - 1)
      BY <2>2, SignBit
    <3>3. BinaryConstant(w, n) = Bits(w, n)
      BY <2>2, Constructed
    <3> QED BY <1>1, <1>2, <2>1, <3>1, <3>2, <3>3
  <2>3. CASE n \notin 0 .. Mask(w)
    <3>1. WordAnd(n, Mask(w)) # n
      BY <1>2, <2>3, MaskKeeps
    <3>2. n \notin -PowerOf2(w - 1) .. PowerOf2(w - 1) - 1
      BY <1>1, <1>2, <2>3
    <3>3. FromInteger(Integer(n), w) = Undef(w)
      BY <2>1, <3>1
    <3> QED BY <1>1, <3>2, <3>3
  <2> QED BY <2>2, <2>3
<1>3. CASE n < 0
  <2>1. PICK m \in Nat : m = -n /\ m > 0
    BY <1>3
  <2> DEFINE nat == WordXor(m, Mask(w)) + 1
  <2>2. FromInteger(Integer(n), w) =
          IF WordAnd(m, Mask(w)) # m \/ ~IsSet(nat, w)
            THEN Undef(w)
            ELSE BinaryConstant(w, WordAnd(nat, Mask(w)))
    BY <1>3, <2>1, IntegerFields DEF FromInteger
  <2> HIDE DEF nat
  <2>3. CASE m \in 0 .. Mask(w)
    <3>1. WordAnd(m, Mask(w)) = m
      BY <2>3, MaskKeeps
    <3>2. nat = PowerOf2(w) + n
      <4>1. WordXor(m, Mask(w)) = Mask(w) - m
        BY <1>1, <2>3, XorMask
      <4>2. nat = (Mask(w) - m) + 1
        BY <4>1 DEF nat
      <4>3. PowerOf2(w) + n = (Mask(w) - m) + 1
        <5>1. PICK p \in Nat : p = PowerOf2(w) /\ Mask(w) = p - 1
          BY <1>1
        <5>2. p + n = ((p - 1) - m) + 1
          BY <2>1
        <5> QED BY <5>1, <5>2
      <4> QED BY <4>2, <4>3
    <3>3. nat \in Nat /\ nat \in 0 .. Mask(w)
      BY <1>1, <2>1, <2>3, <3>2
    <3>4. WordAnd(nat, Mask(w)) = nat
      BY <3>3, MaskKeeps
    <3>5. IsSet(nat, w) <=> nat >= PowerOf2(w - 1)
      BY <3>3, SignBit
    <3>6. BinaryConstant(w, nat) = Bits(w, nat)
      BY <3>3, Constructed
    <3>7. nat >= PowerOf2(w - 1) <=> n >= -PowerOf2(w - 1)
      BY <1>1, <3>2
    <3>8. FromInteger(Integer(n), w) =
            IF n >= -PowerOf2(w - 1) THEN Bits(w, PowerOf2(w) + n) ELSE Undef(w)
      BY <2>2, <3>1, <3>2, <3>4, <3>5, <3>6, <3>7
    <3> QED BY <1>1, <1>3, <3>8
  <2>4. CASE m \notin 0 .. Mask(w)
    <3>1. WordAnd(m, Mask(w)) # m
      BY <2>4, MaskKeeps
    <3>2. n \notin -PowerOf2(w - 1) .. PowerOf2(w - 1) - 1
      BY <1>1, <2>1, <2>4
    <3>3. FromInteger(Integer(n), w) = Undef(w)
      BY <2>2, <3>1
    <3> QED BY <1>1, <1>3, <3>2, <3>3
  <2> QED BY <2>3, <2>4
<1> QED BY <1>2, <1>3

\* Extension by zeros, and asBinary to a wider type, keep the value.
LEMMA ZerosAdded ==
  ASSUME NEW u \in Width, NEW w \in Width, u < w, NEW x \in 0 .. Mask(u)
  PROVE  /\ x \in 0 .. Mask(w)
         /\ Zext(Bits(u, x), w) = Bits(w, x)
         /\ AsBinary(Bits(u, x), w) = Bits(w, x)
<1>1. u \in Nat /\ w \in Nat /\ PowerOf2(u) \in Nat /\ PowerOf2(w) \in Nat
  BY WidthFacts
<1>2. PowerOf2(u) <= PowerOf2(w)
  BY <1>1, PowerSplits
<1>3. x \in 0 .. Mask(w)
  BY <1>1, <1>2 DEF Mask
<1>4. BinaryConstant(w, x) = Bits(w, x)
  BY <1>3, Constructed
<1>5. w > u /\ ~(w < u)
  BY <1>1
<1> QED BY <1>3, <1>4, <1>5, BitsFields DEF Zext, AsBinary

SignExtended(u, w, x) == IF x < PowerOf2(u - 1) THEN x ELSE x + (PowerOf2(w) - PowerOf2(u))

LEMMA SignsAdded ==
  ASSUME NEW u \in Width, NEW w \in Width, u < w, NEW x \in 0 .. Mask(u)
  PROVE  /\ SignExtended(u, w, x) \in 0 .. Mask(w)
         /\ Sext(Bits(u, x), w) = Bits(w, SignExtended(u, w, x))
         /\ Signed(w, SignExtended(u, w, x)) = Signed(u, x)
         /\ SignExtended(u, w, x) % PowerOf2(u) = x
<1>1. /\ u \in Nat /\ w \in Nat /\ w \in 0 .. Word /\ u \in 0 .. w /\ w - u \in Nat /\ u - 1 \in Nat
      /\ PowerOf2(u) \in Nat /\ PowerOf2(u) > 0 /\ PowerOf2(w) \in Nat
      /\ PowerOf2(u) = 2 * PowerOf2(u - 1) /\ PowerOf2(u - 1) \in Nat
      /\ PowerOf2(w) = 2 * PowerOf2(w - 1) /\ PowerOf2(w - 1) \in Nat
  BY WidthFacts
<1>2. PICK k \in Nat : k = PowerOf2(w - u) /\ k > 0
  BY <1>1, PowerTypes
<1>3. PowerOf2(w) = PowerOf2(u) * k
  BY <1>1, <1>2, PowerSplits
<1>4. PowerOf2(u) <= PowerOf2(w - 1)
  <2>1. w - 1 \in Nat /\ u \in 0 .. w - 1
    BY <1>1
  <2> QED BY <2>1, PowerSplits
<1>5. x \in 0 .. PowerOf2(u) - 1 /\ x % PowerOf2(u) = x
  BY <1>1, PowerRemainders DEF Mask
<1>6. CASE x < PowerOf2(u - 1)
  <2>1. SignExtended(u, w, x) = x
    BY <1>6 DEF SignExtended
  <2>2. Sext(Bits(u, x), w) = Zext(Bits(u, x), w)
    BY <1>6, SignBit, BitsFields DEF Sext
  <2>3. ~(x >= PowerOf2(u - 1)) /\ ~(x >= PowerOf2(w - 1))
    BY <1>1, <1>4, <1>5, <1>6
  <2> QED BY <1>5, <2>1, <2>2, <2>3, ZerosAdded DEF Signed
<1>7. CASE x >= PowerOf2(u - 1)
  <2> DEFINE e == x + (PowerOf2(w) - PowerOf2(u))
             above == PowerOf2(w) - PowerOf2(u)
  <2>1. SignExtended(u, w, x) = e
    BY <1>1, <1>5, <1>7 DEF SignExtended
  <2>2. above \in 0 .. Mask(w) /\ e \in 0 .. Mask(w)
    BY <1>1, <1>4, <1>5 DEF Mask
  <2>3. Mask(w - u) * PowerOf2(u) = above
    BY <1>1, <1>2, <1>3 DEF Mask
  <2>4. BinaryConstant(w, Mask(w - u) * PowerOf2(u)) = Bits(w, above)
    BY <2>2, <2>3, Constructed
  <2>5. Zext(Bits(u, x), w) = Bits(w, x) /\ x \in 0 .. Mask(w)
    BY ZerosAdded
  <2>6. Sext(Bits(u, x), w) = OrBits(Bits(w, x), Bits(w, above))
    <3>1. ~(x \div PowerOf2(u - 1) = 0)
      BY <1>1, <1>5, <1>7, SignBit
    <3>2. Sext(Bits(u, x), w)
            = OrBits(Zext(Bits(u, x), w), BinaryConstant(w, Mask(w - u) * PowerOf2(u)))
      BY <3>1, BitsFields DEF Sext
    <3> QED BY <2>4, <2>5, <3>2
  <2>7. OrBits(Bits(w, x), Bits(w, above)) = Bits(w, WordOr(x, above))
    BY <2>2, <2>5, LogicFits
  <2>8. WordOr(x, above) = e
    BY <1>1, OrAbove
  <2>9. Signed(w, e) = Signed(u, x)
    <3>1. e >= PowerOf2(w - 1)
      BY <1>1, <1>4, <1>5, <1>7
    <3> QED BY <1>1, <1>5, <1>7, <3>1 DEF Signed
  <2>10. e % PowerOf2(u) = x
    <3>1. PICK j \in Int : e = x + j * PowerOf2(u)
      <4>1. e = x + (k - 1) * PowerOf2(u) /\ k - 1 \in Int
        BY <1>1, <1>2, <1>3, <1>5
      <4> QED BY <4>1
    <3>2. (x + j * PowerOf2(u)) % PowerOf2(u) = x % PowerOf2(u)
      <4>1. x \in Int
        BY <1>5
      <4> QED BY <1>1, <4>1, PowerRemainders
    <3> QED BY <1>5, <3>1, <3>2
  <2> HIDE DEF e, above
  <2> QED BY <2>1, <2>2, <2>6, <2>7, <2>8, <2>9, <2>10
<1> QED BY <1>1, <1>5, <1>6, <1>7

\* Truncation takes the remainder.
LEMMA TruncIs ==
  ASSUME NEW u \in Width, NEW w \in Width, w < u, NEW x \in 0 .. Mask(u)
  PROVE  /\ Trunc(Bits(u, x), w, w) = Bits(w, x % PowerOf2(w))
         /\ x % PowerOf2(w) \in 0 .. Mask(w)
<1>1. /\ u \in Nat /\ w \in Nat /\ w \in 0 .. Word /\ w \in 0 .. u
      /\ PowerOf2(u) \in Nat /\ PowerOf2(w) \in Nat /\ PowerOf2(w) > 0
      /\ Mask(u) \in Nat /\ x \in Nat
  BY WidthFacts
<1>2. PowerOf2(w) <= PowerOf2(u)
  BY <1>1, PowerSplits
<1>3. Mask(w) \in 0 .. Mask(u)
  BY <1>1, <1>2 DEF Mask
<1>4. BinaryConstant(u, Mask(w)) = Bits(u, Mask(w))
  BY <1>3, Constructed
<1>5. AndBits(Bits(u, Mask(w)), Bits(u, x)) = Bits(u, WordAnd(Mask(w), x))
  BY <1>3, LogicFits
<1>6. WordAnd(Mask(w), x) = x % PowerOf2(w)
  BY <1>1, AndMask
<1>7. x % PowerOf2(w) \in 0 .. Mask(w)
  BY <1>1, PowerRemainders DEF Mask
<1>8. Trunc(Bits(u, x), w, w) = BinaryConstant(w, AndBits(Bits(u, Mask(w)), Bits(u, x)).of)
  BY <1>4, BitsFields DEF Trunc
<1> QED BY <1>5, <1>6, <1>7, <1>8, BitsFields, Constructed
-----------------------------------------------------------------------------
(* Values stay within their widths *)

LEMMA UndefContent == \A w \in Width : Undef(w) \in Content
BY DEF Content

LEMMA BitsContent == \A w \in Width : \A v \in 0 .. Mask(w) : Bits(w, v) \in Content
BY DEF Content, BinaryValue

\* Operands of one width.
LEMMA Operands ==
  ASSUME NEW l \in Content, NEW r \in Content, l.width = r.width, Defined(l), Defined(r)
  PROVE  \E w \in Width : \E x, y \in 0 .. Mask(w) : l = Bits(w, x) /\ r = Bits(w, y)
<1>1. PICK w \in Width : \E x \in 0 .. Mask(w) : l = Bits(w, x)
  BY ContentIs, BitsFields
<1>2. PICK u \in Width : \E y \in 0 .. Mask(u) : r = Bits(u, y)
  BY ContentIs, BitsFields
<1>3. w = u
  BY <1>1, <1>2, BitsFields
<1> QED BY <1>1, <1>2, <1>3

LEMMA WidthOf ==
  ASSUME NEW b \in Content
  PROVE  b.width \in Width /\ (~Defined(b) => b = Undef(b.width))
BY ContentIs, BitsFields

LEMMA InstructionStays ==
  ASSUME NEW l \in Content, NEW r \in Content, l.width = r.width,
         NEW res \in {Add(l, r), AndBits(l, r), OrBits(l, r), XorBits(l, r), Inv(l), NotBits(l)}
  PROVE  res \in Content \cup {Throws}
<1>1. Undef(l.width) \in Content
  BY WidthOf, UndefContent
<1>2. ASSUME ~(Defined(l) /\ Defined(r))
      PROVE  {Add(l, r), AndBits(l, r), OrBits(l, r), XorBits(l, r)} = {Undef(l.width)}
  BY <1>2 DEF Add, AndBits, OrBits, XorBits
<1>3. ASSUME Defined(l), Defined(r)
      PROVE  /\ Add(l, r) \in Content /\ AndBits(l, r) \in Content
             /\ OrBits(l, r) \in Content /\ XorBits(l, r) \in Content
  <2>1. PICK w \in Width : \E x, y \in 0 .. Mask(w) : l = Bits(w, x) /\ r = Bits(w, y)
    BY <1>3, Operands
  <2>2. PICK x \in 0 .. Mask(w), y \in 0 .. Mask(w) : l = Bits(w, x) /\ r = Bits(w, y)
    BY <2>1
  <2>3. Add(l, r) \in Content
    BY <2>2, SumIs, BitsContent
  <2> QED BY <2>2, <2>3, LogicFits, BitsContent
<1>4. CASE ~Defined(l)
  <2>1. Inv(l) = l /\ NotBits(l) = l
    BY <1>4 DEF Inv, NotBits
  <2> QED BY <1>1, <1>2, <1>4, <2>1
<1>5. CASE Defined(l)
  <2>1. PICK w \in Width : \E x \in 0 .. Mask(w) : l = Bits(w, x)
    BY <1>5, ContentIs, BitsFields
  <2>2. PICK x \in 0 .. Mask(w) : l = Bits(w, x)
    BY <2>1
  <2>3. NotBits(l) = Throws
    BY <2>2, ComplementThrows
  <2>4. (IF x = 0 THEN 0 ELSE PowerOf2(w) - x) \in 0 .. Mask(w)
    BY WidthFacts DEF Mask
  <2>5. Inv(l) \in Content
    BY <2>2, <2>4, NegationIs, BitsContent
  <2> QED BY <1>1, <1>2, <1>3, <1>5, <2>3, <2>5
<1> QED BY <1>4, <1>5

LEMMA ExtensionStays ==
  ASSUME NEW b \in Content, NEW w \in Width
  PROVE  /\ w > b.width => Zext(b, w) \in Content /\ Sext(b, w) \in Content
         /\ w < b.width => Trunc(b, w, w) \in Content
<1>1. Undef(w) \in Content
  BY UndefContent
<1>2. CASE ~Defined(b)
  <2>1. Zext(b, w) = Undef(w) /\ Sext(b, w) = Undef(w) /\ Trunc(b, w, w) = Undef(w)
    BY <1>2 DEF Zext, Sext, Trunc
  <2> QED BY <1>1, <2>1
<1>3. CASE Defined(b)
  <2>1. PICK u \in Width : \E x \in 0 .. Mask(u) : b = Bits(u, x)
    BY <1>3, ContentIs, BitsFields
  <2>2. PICK x \in 0 .. Mask(u) : b = Bits(u, x) /\ b.width = u
    BY <2>1, BitsFields
  <2>3. ASSUME w > u
        PROVE  Zext(b, w) \in Content /\ Sext(b, w) \in Content
    <3>1. u < w
      BY <2>3, WidthFacts
    <3>2. Zext(b, w) = Bits(w, x) /\ x \in 0 .. Mask(w)
      BY <2>2, <3>1, ZerosAdded
    <3>3. Sext(b, w) = Bits(w, SignExtended(u, w, x)) /\ SignExtended(u, w, x) \in 0 .. Mask(w)
      BY <2>2, <3>1, SignsAdded
    <3> QED BY <3>2, <3>3, BitsContent
  <2>4. ASSUME w < u
        PROVE  Trunc(b, w, w) \in Content
    BY <2>2, <2>4, TruncIs, BitsContent
  <2> QED BY <2>2, <2>3, <2>4
<1> QED BY <1>2, <1>3

LEMMA ShiftStays ==
  ASSUME NEW b \in Content, NEW offset, Defined(offset) => offset.of \in 0 .. MaxInteger
  PROVE  /\ FewerBits(b, offset) => Shl(b, offset) \in Content
         /\ Shr(b, offset) \in Content
<1>1. CASE ~(Defined(b) /\ Defined(offset))
  BY <1>1 DEF Shl, Shr
<1>2. CASE Defined(b) /\ Defined(offset)
  <2>1. PICK w \in Width : \E x \in 0 .. Mask(w) : b = Bits(w, x)
    BY <1>2, ContentIs, BitsFields
  <2>2. PICK x \in 0 .. Mask(w) : b = Bits(w, x) /\ b.width = w /\ b.of = x
    BY <2>1, BitsFields
  <2>3. Mask(w) \in Nat /\ x \in Nat /\ x <= Mask(w)
    BY WidthFacts
  <2>4. offset.of \in Nat
    BY <1>2, IntegerAssumption
  <2>5. PICK p \in Nat : p = PowerOf2(offset.of) /\ p > 0
    BY <2>4, PowerTypes
  <2>6. ASSUME x * p <= Mask(w)
        PROVE  Shl(b, offset) \in Content
    <3>1. x * p \in 0 .. Mask(w)
      BY <2>3, <2>5, <2>6
    <3>2. Shl(b, offset) = BinaryConstant(w, x * p)
      BY <1>2, <2>2, <2>5 DEF Shl
    <3> QED BY <3>1, <3>2, Constructed, BitsContent
  <2>7. Shr(b, offset) \in Content
    <3>1. PICK q \in 0 .. x : q = x \div p
      BY <2>3, <2>5, Division
    <3>2. q \in 0 .. Mask(w)
      BY <2>3, <3>1
    <3>3. Shr(b, offset) = BinaryConstant(w, q)
      BY <1>2, <2>2, <2>5, <3>1 DEF Shr
    <3> QED BY <3>2, <3>3, Constructed, BitsContent
  <2> QED BY <1>2, <2>2, <2>5, <2>6, <2>7 DEF FewerBits
<1> QED BY <1>1, <1>2

\* What the register for an integer constant holds.
NumberIs(n) == n = NoInteger \/ \E v \in Int : n = Integer(v)

LEMMA NumberFits ==
  ASSUME NEW n
  PROVE  NumberIs(n) <=> (n = NoInteger \/ (n.of \in Int /\ n = Integer(n.of)))
BY IntegerFields DEF NumberIs

LEMMA FromIntegerStays ==
  ASSUME NEW n, NumberIs(n), NEW w \in Width
  PROVE  FromInteger(n, w) \in Content
<1>1. CASE n = NoInteger
  BY <1>1, IntegerFields, UndefContent DEF FromInteger
<1>2. ASSUME NEW v \in Int, n = Integer(v)
      PROVE  FromInteger(n, w) \in Content
  <2>1. /\ PowerOf2(w - 1) \in Nat /\ PowerOf2(w - 1) > 0 /\ PowerOf2(w) = 2 * PowerOf2(w - 1)
        /\ Mask(w) = PowerOf2(w) - 1
    BY WidthFacts DEF Mask
  <2>2. CASE v \in 0 .. PowerOf2(w - 1) - 1
    <3>1. v \in 0 .. Mask(w)
      BY <2>1, <2>2
    <3> QED BY <1>2, <2>2, <3>1, FromIntegerIs, BitsContent
  <2>3. CASE v \in -PowerOf2(w - 1) .. -1
    <3>1. PowerOf2(w) + v \in 0 .. Mask(w)
      BY <2>1, <2>3
    <3> QED BY <1>2, <2>3, <3>1, FromIntegerIs, BitsContent
  <2>4. CASE v \notin -PowerOf2(w - 1) .. PowerOf2(w - 1) - 1
    BY <1>2, <2>4, FromIntegerIs, UndefContent
  <2> QED BY <2>1, <2>2, <2>3, <2>4
<1> QED BY <1>1, <1>2 DEF NumberIs

LEMMA AsBinaryStays ==
  ASSUME NEW b \in Content, NEW w \in Width, w >= b.width
  PROVE  AsBinary(b, w) \in Content
<1>1. CASE ~Defined(b)
  BY <1>1, UndefContent DEF AsBinary
<1>2. CASE Defined(b)
  <2>1. PICK u \in Width : \E x \in 0 .. Mask(u) : b = Bits(u, x)
    BY <1>2, ContentIs, BitsFields
  <2>2. PICK x \in 0 .. Mask(u) : b = Bits(u, x) /\ b.width = u
    BY <2>1, BitsFields
  <2>3. u \in Nat /\ w \in Nat /\ u <= w
    BY <2>2, WidthFacts
  <2>4. CASE u = w
    <3>1. AsBinary(b, w) = b
      BY <1>2, <2>2, <2>3, <2>4 DEF AsBinary
    <3> QED BY <3>1
  <2>5. CASE u < w
    BY <2>2, <2>5, ZerosAdded, BitsContent
  <2> QED BY <2>3, <2>4, <2>5
<1> QED BY <1>1, <1>2

LEMMA AsIntegerStays ==
  ASSUME NEW b \in Content
  PROVE  NumberIs(AsInteger(b))
<1>1. CASE ~Defined(b)
  BY <1>1 DEF AsInteger, NumberIs
<1>2. CASE Defined(b)
  <2>1. PICK w \in Width : \E x \in 0 .. Mask(w) : b = Bits(w, x)
    BY <1>2, ContentIs, BitsFields
  <2>2. PICK x \in 0 .. Mask(w) : b = Bits(w, x)
    BY <2>1
  <2>3. AsInteger(b) = Integer(Signed(w, x)) /\ Signed(w, x) \in Int
    BY <2>2, AsIntegerIs, WidthFacts
  <2> QED BY <2>3 DEF NumberIs
<1> QED BY <1>1, <1>2

LEMMA AssignKeeps ==
  ASSUME binary \in [Register -> Content], NEW k \in Register, NEW res,
         res \in Content \cup {Throws}, Assign(k, res)
  PROVE  binary' \in [Register -> Content]
BY DEF Assign
LEMMA InitFits == BinInit => FitsWidth
BY DEF BinInit, FitsWidth

LEMMA StepFits ==
  ASSUME Careful, FitsWidth, BinNext
  PROVE  FitsWidth'
<1>1. binary \in [Register -> Content] /\ NumberIs(number)
  BY NumberFits DEF FitsWidth, Content
<1> SUFFICES binary' \in [Register -> Content] /\ NumberIs(number')
  BY NumberFits DEF FitsWidth, Content
<1>2. ASSUME NEW k \in Register, NEW w \in Width, NEW v \in 0 .. Mask(w), CreateBinary(k, w, v)
      PROVE  binary' \in [Register -> Content] /\ NumberIs(number')
  <2>1. BinaryConstant(w, v) \in Content
    BY Constructed, BitsContent
  <2> QED BY <1>1, <1>2, <2>1, AssignKeeps DEF CreateBinary
<1>3. ASSUME NEW v \in -MaxInteger .. MaxInteger, CreateInteger(v)
      PROVE  binary' \in [Register -> Content] /\ NumberIs(number')
  <2>1. v \in Int
    BY IntegerAssumption
  <2> QED BY <1>1, <1>3, <2>1 DEF CreateInteger, NumberIs
<1>4. ASSUME NEW i \in Register, NEW j \in Register, NEW k \in Register,
             ExecuteInstruction(k, binary[i], binary[j])
      PROVE  binary' \in [Register -> Content] /\ NumberIs(number')
  <2> DEFINE l == binary[i]
             r == binary[j]
  <2>1. PICK res \in {Add(l, r), AndBits(l, r), OrBits(l, r), XorBits(l, r), Inv(l), NotBits(l)} :
          Assign(k, res)
    BY <1>4 DEF ExecuteInstruction
  <2>2. res \in Content \cup {Throws}
    <3>1. l \in Content /\ r \in Content /\ l.width = r.width
      BY <1>1, <1>4 DEF ExecuteInstruction
    <3> HIDE DEF l, r
    <3> QED BY <2>1, <3>1, InstructionStays
  <2> QED BY <1>1, <1>4, <2>1, <2>2, AssignKeeps DEF ExecuteInstruction
<1>5. ASSUME NEW i \in Register, NEW k \in Register, NEW w \in Width,
             ExecuteExtension(k, binary[i], w)
      PROVE  binary' \in [Register -> Content] /\ NumberIs(number')
  <2>1. PICK res : Assign(k, res) /\ res \in Content
    <3>1. binary[i] \in Content /\ binary[i].width \in Width
      BY <1>1, WidthOf
    <3>2. CASE w > binary[i].width
      <4>1. PICK res \in {Zext(binary[i], w), Sext(binary[i], w)} : Assign(k, res)
        BY <1>5, <3>2 DEF ExecuteExtension
      <4> QED BY <3>1, <3>2, <4>1, ExtensionStays
    <3>3. CASE ~(w > binary[i].width)
      <4>1. w < binary[i].width /\ Assign(k, Trunc(binary[i], w, w))
        BY <1>5, <3>3 DEF ExecuteExtension
      <4> QED BY <3>1, <4>1, ExtensionStays
    <3> QED BY <3>2, <3>3
  <2> QED BY <1>1, <1>5, <2>1, AssignKeeps DEF ExecuteExtension
<1>6. ASSUME NEW i \in Register, NEW k \in Register, NEW offset,
             ExecuteShift(k, binary[i], offset)
      PROVE  binary' \in [Register -> Content] /\ NumberIs(number')
  <2>1. PICK res : Assign(k, res) /\ res \in Content
    <3>1. binary[i] \in Content
      BY <1>1
    <3>2. Defined(offset) => offset.of \in 0 .. MaxInteger
      BY <1>6 DEF ExecuteShift
    <3>3. \/ FewerBits(binary[i], offset) /\ Assign(k, Shl(binary[i], offset))
          \/ Assign(k, Shr(binary[i], offset))
      BY <1>6 DEF ExecuteShift
    <3> QED BY <3>1, <3>2, <3>3, ShiftStays
  <2> QED BY <1>1, <1>6, <2>1, AssignKeeps DEF ExecuteShift
<1>7. ASSUME NEW i \in Register, CastToInteger(binary[i])
      PROVE  binary' \in [Register -> Content] /\ NumberIs(number')
  BY <1>1, <1>7, AsIntegerStays DEF CastToInteger
<1>8. ASSUME NEW k \in Register, NEW w \in Width, CastToBinary(k, w)
      PROVE  binary' \in [Register -> Content] /\ NumberIs(number')
  <2>1. PICK res : Assign(k, res) /\ res \in Content
    <3>1. CASE Assign(k, FromInteger(number, w))
      BY <1>1, <3>1, FromIntegerStays
    <3>2. ASSUME NEW i \in Register, w >= binary[i].width, Assign(k, AsBinary(binary[i], w))
          PROVE  \E res : Assign(k, res) /\ res \in Content
      BY <1>1, <3>2, AsBinaryStays
    <3> QED BY <1>8, <3>1, <3>2 DEF CastToBinary
  <2> QED BY <1>1, <1>8, <2>1, AssignKeeps DEF CastToBinary
<1> QED BY <1>2, <1>3, <1>4, <1>5, <1>6, <1>7, <1>8 DEF BinNext

\* Values stay within their widths: every operation that careful clients call
\* makes a constant that fits, or throws.
THEOREM ValuesFit ==
  ASSUME Careful
  PROVE  BinSpec => []FitsWidth
<1>1. BinInit => FitsWidth
  BY InitFits
<1>2. FitsWidth /\ [BinNext]_binVars => FitsWidth'
  <2>1. FitsWidth /\ BinNext => FitsWidth'
    BY StepFits
  <2>2. FitsWidth /\ UNCHANGED binVars => FitsWidth'
    BY DEF FitsWidth, binVars
  <2>3. QED
    BY <2>1, <2>2
<1>3. QED
  BY <1>1, <1>2, PTL DEF BinSpec

-----------------------------------------------------------------------------
(* Two's complement *)

LEMMA MultiplesCongruent ==
  ASSUME NEW w \in Width, NEW a \in Int, NEW b \in Int, NEW k \in Int, a - b = k * PowerOf2(w)
  PROVE  Congruent(w, a, b)
<1>1. PICK p \in Nat : p = PowerOf2(w) /\ p > 0
  BY WidthFacts
<1>2. (0 + k * p) % p = 0 % p /\ 0 % p = 0
  <2>1. \A a1, k1 \in Int : (a1 + k1 * p) % p = a1 % p
    BY <1>1, Remainders
  <2>2. 0 \in Int
    OBVIOUS
  <2>3. (0 + k * p) % p = 0 % p
    BY <2>1, <2>2, Zenon
  <2>4. \A a1 \in 0 .. p - 1 : a1 % p = a1
    BY <1>1, Remainders
  <2>5. 0 \in 0 .. p - 1
    BY <1>1
  <2> QED BY <2>3, <2>4, <2>5
<1>3. a - b = 0 + k * p
  BY <1>1
<1> QED BY <1>1, <1>2, <1>3 DEF Congruent

\* The integer of a value is the value, up to the power of the width.
LEMMA SignedIs ==
  ASSUME NEW w \in Width, NEW x \in 0 .. Mask(w)
  PROVE  \E s \in Int : Signed(w, x) = x - s * PowerOf2(w)
<1>1. PowerOf2(w) \in Nat /\ x \in Nat
  BY WidthFacts
<1>2. x = x - 0 * PowerOf2(w) /\ x - PowerOf2(w) = x - 1 * PowerOf2(w)
  BY <1>1
<1> QED BY <1>2 DEF Signed

LEMMA SumCongruent ==
  ASSUME NEW w \in Width, NEW x \in 0 .. Mask(w), NEW y \in 0 .. Mask(w)
  PROVE  Congruent(w, Signed(w, (x + y) % PowerOf2(w)), Signed(w, x) + Signed(w, y))
<1>1. PICK p \in Nat : p = PowerOf2(w) /\ p > 0 /\ Mask(w) = p - 1
  BY WidthFacts DEF Mask
<1>2. PICK c \in Int, z \in Nat : z = (x + y) % p /\ x + y = p * c + z /\ z \in 0 .. p - 1
  <2>1. PICK a \in Int : a = x + y
    BY <1>1
  <2>2. p > 0
    BY <1>1
  <2>3. a = p * (a \div p) + (a % p) /\ a % p \in 0 .. p - 1 /\ a \div p \in Int
    BY <2>2, Division
  <2> QED BY <2>1, <2>3
<1>3. PICK s \in Int : Signed(w, z) = z - s * p
  BY <1>1, <1>2, SignedIs
<1>4. PICK t \in Int : Signed(w, x) = x - t * p
  BY <1>1, SignedIs
<1>5. PICK u \in Int : Signed(w, y) = y - u * p
  BY <1>1, SignedIs
<1>6. (z - s * p) - ((x - t * p) + (y - u * p)) = (((t + u) - s) - c) * p
  BY <1>1, <1>2
<1>7. Signed(w, z) \in Int /\ Signed(w, x) + Signed(w, y) \in Int /\ ((t + u) - s) - c \in Int
  BY <1>1, <1>2, <1>3, <1>4, <1>5
<1>8. Signed(w, z) - (Signed(w, x) + Signed(w, y)) = (((t + u) - s) - c) * PowerOf2(w)
  BY <1>1, <1>3, <1>4, <1>5, <1>6
<1>9. Congruent(w, Signed(w, z), Signed(w, x) + Signed(w, y))
  BY <1>7, <1>8, MultiplesCongruent
<1> QED BY <1>1, <1>2, <1>9

LEMMA NegationCongruent ==
  ASSUME NEW w \in Width, NEW x \in 0 .. Mask(w)
  PROVE  LET z == IF x = 0 THEN 0 ELSE PowerOf2(w) - x
         IN z \in 0 .. Mask(w) /\ Congruent(w, Signed(w, z), -Signed(w, x))
<1> DEFINE z == IF x = 0 THEN 0 ELSE PowerOf2(w) - x
<1>1. PICK p \in Nat : p = PowerOf2(w) /\ p > 0 /\ Mask(w) = p - 1
  BY WidthFacts DEF Mask
<1>2. PICK c \in Int : z = c * p - x /\ z \in 0 .. p - 1
  <2>1. CASE x = 0
    <3>1. 0 = 0 * p - x
      BY <1>1, <2>1
    <3> QED BY <1>1, <2>1, <3>1
  <2>2. CASE x # 0
    <3>1. p - x = 1 * p - x /\ p - x \in 0 .. p - 1
      BY <1>1, <2>2
    <3> QED BY <1>1, <2>2, <3>1
  <2> QED BY <2>1, <2>2
<1> HIDE DEF z
<1>3. PICK s \in Int : Signed(w, z) = z - s * p
  BY <1>1, <1>2, SignedIs
<1>4. PICK t \in Int : Signed(w, x) = x - t * p
  BY <1>1, SignedIs
<1>5. Signed(w, z) \in Int /\ -Signed(w, x) \in Int /\ (c - s) - t \in Int
  BY <1>1, <1>2, <1>3, <1>4
<1>6. Signed(w, z) - (-Signed(w, x)) = ((c - s) - t) * PowerOf2(w)
  <2>1. (z - s * p) - (-(x - t * p)) = ((c - s) - t) * p
    BY <1>1, <1>2
  <2> QED BY <1>1, <1>3, <1>4, <2>1
<1>7. Congruent(w, Signed(w, z), -Signed(w, x))
  BY <1>5, <1>6, MultiplesCongruent
<1> QED BY <1>1, <1>2, <1>7 DEF z

\* Of fitting values, what AsInteger makes is the two's complement, with sums,
\* negations and sign extensions as they should be.
LEMMA FittingComplement == FitsWidth => TwosComplement
<1> SUFFICES ASSUME FitsWidth, NEW i \in Register, NEW j \in Register,
                    Defined(binary[i]), Defined(binary[j])
             PROVE  LET l == binary[i]
                        r == binary[j]
                    IN /\ AsInteger(l) = Integer(Signed(l.width, l.of))
                       /\ Congruent(l.width, AsInteger(Inv(l)).of, -AsInteger(l).of)
                       /\ l.width = r.width =>
                            Congruent(l.width, AsInteger(Add(l, r)).of,
                                      AsInteger(l).of + AsInteger(r).of)
                       /\ \A w \in Width : w > l.width => AsInteger(Sext(l, w)) = AsInteger(l)
  BY DEF TwosComplement
<1> DEFINE l == binary[i]
           r == binary[j]
<1>1. l \in Content /\ r \in Content /\ Defined(l) /\ Defined(r)
  BY DEF FitsWidth, Content
<1> HIDE DEF l, r
<1>2. PICK u \in Width : \E x \in 0 .. Mask(u) : l = Bits(u, x)
  BY <1>1, ContentIs, BitsFields
<1>3. PICK x \in 0 .. Mask(u) : l = Bits(u, x) /\ l.width = u /\ l.of = x
  BY <1>2, BitsFields
<1>4. AsInteger(l) = Integer(Signed(u, x)) /\ AsInteger(l).of = Signed(u, x)
  BY <1>3, AsIntegerIs, IntegerFields
<1>5. Congruent(u, AsInteger(Inv(l)).of, -AsInteger(l).of)
  <2> DEFINE z == IF x = 0 THEN 0 ELSE PowerOf2(u) - x
  <2>1. Inv(l) = Bits(u, z)
    BY <1>3, NegationIs
  <2>2. z \in 0 .. Mask(u) /\ Congruent(u, Signed(u, z), -Signed(u, x))
    BY NegationCongruent
  <2> HIDE DEF z
  <2>3. AsInteger(Inv(l)).of = Signed(u, z)
    BY <2>1, <2>2, AsIntegerIs, IntegerFields
  <2> QED BY <1>4, <2>2, <2>3
<1>6. ASSUME u = r.width
      PROVE  Congruent(u, AsInteger(Add(l, r)).of, AsInteger(l).of + AsInteger(r).of)
  <2>1. PICK y \in 0 .. Mask(u) : r = Bits(u, y)
    BY <1>1, <1>6, ContentIs, BitsFields
  <2>2. AsInteger(r).of = Signed(u, y)
    BY <2>1, AsIntegerIs, IntegerFields
  <2> DEFINE z == (x + y) % PowerOf2(u)
  <2>3. Add(l, r) = Bits(u, z) /\ z \in 0 .. Mask(u)
    BY <1>3, <2>1, SumIs
  <2>4. Congruent(u, Signed(u, z), Signed(u, x) + Signed(u, y))
    BY SumCongruent
  <2> HIDE DEF z
  <2>5. AsInteger(Add(l, r)).of = Signed(u, z)
    BY <2>3, AsIntegerIs, IntegerFields
  <2> QED BY <1>4, <2>2, <2>4, <2>5
<1>7. ASSUME NEW w \in Width, w > u
      PROVE  AsInteger(Sext(l, w)) = AsInteger(l)
  <2> DEFINE e == SignExtended(u, w, x)
  <2>1. u < w
    BY <1>7, WidthFacts
  <2>2. Sext(l, w) = Bits(w, e) /\ e \in 0 .. Mask(w) /\ Signed(w, e) = Signed(u, x)
    BY <1>3, <2>1, SignsAdded
  <2> HIDE DEF e
  <2>3. AsInteger(Sext(l, w)) = Integer(Signed(w, e))
    BY <2>2, AsIntegerIs
  <2> QED BY <1>4, <2>2, <2>3
<1>8. QED
  BY <1>3, <1>4, <1>5, <1>6, <1>7 DEF l, r

\* Binary constants are integers in two's complement.
THEOREM ConstantsAreTwosComplement ==
  ASSUME Careful
  PROVE  BinSpec => []TwosComplement
BY ValuesFit, FittingComplement, PTL

-----------------------------------------------------------------------------
(* The casts, extensions and truncation *)

LEMMA FittingCasts == FitsWidth => CastsInverse
<1>1. ASSUME FitsWidth, NEW k \in Register
      PROVE  FromInteger(AsInteger(binary[k]), binary[k].width) = binary[k]
  <2> DEFINE b == binary[k]
  <2>1. b \in Content
    BY <1>1 DEF FitsWidth, Content
  <2> HIDE DEF b
  <2>2. CASE ~Defined(b)
    <3>1. b = Undef(b.width) /\ AsInteger(b) = NoInteger
      BY <2>1, <2>2, WidthOf DEF AsInteger
    <3>2. FromInteger(NoInteger, b.width) = Undef(b.width)
      BY IntegerFields DEF FromInteger
    <3>3. FromInteger(AsInteger(b), b.width) = b
      BY <3>1, <3>2
    <3> QED BY <3>3 DEF b
  <2>3. CASE Defined(b)
    <3>1. PICK w \in Width : \E x \in 0 .. Mask(w) : b = Bits(w, x)
      BY <2>1, <2>3, ContentIs, BitsFields
    <3>2. PICK x \in 0 .. Mask(w) : b = Bits(w, x) /\ b.width = w
      BY <3>1, BitsFields
    <3>3. /\ PowerOf2(w - 1) \in Nat /\ PowerOf2(w) = 2 * PowerOf2(w - 1)
          /\ x \in Nat /\ x < PowerOf2(w)
      BY WidthFacts DEF Mask
    <3>4. AsInteger(b) = Integer(Signed(w, x))
      BY <3>2, AsIntegerIs
    <3>5. FromInteger(Integer(Signed(w, x)), w) = Bits(w, x)
      <4>1. CASE x < PowerOf2(w - 1)
        <5>1. Signed(w, x) = x /\ x \in 0 .. PowerOf2(w - 1) - 1 /\ x \in Int
          BY <3>3, <4>1 DEF Signed
        <5>2. FromInteger(Integer(x), w) = Bits(w, x)
          BY <5>1, FromIntegerIs
        <5> QED BY <5>1, <5>2
      <4>2. CASE x >= PowerOf2(w - 1)
        <5>1. PICK n \in Int : n = Signed(w, x) /\ n \in -PowerOf2(w - 1) .. -1
                               /\ PowerOf2(w) + n = x
          BY <3>3, <4>2 DEF Signed
        <5>2. FromInteger(Integer(n), w) = Bits(w, PowerOf2(w) + n)
          BY <5>1, FromIntegerIs
        <5> QED BY <5>1, <5>2
      <4> QED BY <3>3, <4>1, <4>2
    <3>6. FromInteger(AsInteger(b), b.width) = b
      BY <3>2, <3>4, <3>5
    <3> QED BY <3>6 DEF b
  <2> QED BY <2>2, <2>3
<1>2. ASSUME FitsWidth, NEW w \in Width, Defined(number)
      PROVE  IF number.of \in -(PowerOf2(w - 1)) .. PowerOf2(w - 1) - 1
               THEN AsInteger(FromInteger(number, w)) = number
               ELSE FromInteger(number, w) = Undef(w)
  <2>1. PICK n \in Int : number = Integer(n) /\ number.of = n
    BY <1>2, IntegerFields DEF FitsWidth
  <2>2. /\ PowerOf2(w - 1) \in Nat /\ PowerOf2(w) = 2 * PowerOf2(w - 1) /\ PowerOf2(w - 1) > 0
        /\ Mask(w) = PowerOf2(w) - 1
    BY WidthFacts DEF Mask
  <2>3. CASE n \in 0 .. PowerOf2(w - 1) - 1
    <3>1. n \in 0 .. Mask(w) /\ Signed(w, n) = n
      BY <2>2, <2>3 DEF Signed
    <3>2. FromInteger(number, w) = Bits(w, n)
      BY <2>1, <2>3, FromIntegerIs
    <3>3. AsInteger(Bits(w, n)) = Integer(Signed(w, n))
      BY <3>1, AsIntegerIs
    <3> QED BY <2>1, <2>2, <2>3, <3>1, <3>2, <3>3
  <2>4. CASE n \in -PowerOf2(w - 1) .. -1
    <3>1. PICK x \in 0 .. Mask(w) : x = PowerOf2(w) + n
      BY <2>2, <2>4
    <3>2. Signed(w, x) = n
      BY <2>2, <2>4, <3>1 DEF Signed
    <3>3. FromInteger(number, w) = Bits(w, x)
      BY <2>1, <2>4, <3>1, FromIntegerIs
    <3>4. AsInteger(Bits(w, x)) = Integer(Signed(w, x))
      BY AsIntegerIs
    <3> QED BY <2>1, <2>2, <2>4, <3>2, <3>3, <3>4
  <2>5. CASE n \notin -PowerOf2(w - 1) .. PowerOf2(w - 1) - 1
    BY <2>1, <2>5, FromIntegerIs
  <2> QED BY <2>2, <2>3, <2>4, <2>5
<1> QED BY <1>1, <1>2 DEF CastsInverse

\* The casts from and to integers are inverse to each other, and only integers
\* the width cannot hold are cast to undef.
THEOREM CastsAreInverse ==
  ASSUME Careful
  PROVE  BinSpec => []CastsInverse
BY ValuesFit, FittingCasts, PTL

LEMMA FittingTruncations == FitsWidth => TruncUndoesExtensions
<1> SUFFICES ASSUME FitsWidth, NEW k \in Register, NEW w \in Width
             PROVE  LET b == binary[k]
                    IN /\ w > b.width =>
                            \A ext \in {Zext(b, w), Sext(b, w), AsBinary(b, w)} :
                              Trunc(ext, b.width, b.width) = b
                       /\ w < b.width /\ Defined(b) => Trunc(b, w, w) = Bits(w, b.of % PowerOf2(w))
  BY DEF TruncUndoesExtensions
<1> DEFINE b == binary[k]
<1>1. b \in Content
  BY DEF FitsWidth, Content
<1> HIDE DEF b
<1>2. CASE ~Defined(b)
  <2>1. Zext(b, w) = Undef(w) /\ Sext(b, w) = Undef(w) /\ AsBinary(b, w) = Undef(w)
    BY <1>2 DEF Zext, Sext, AsBinary
  <2>2. Trunc(Undef(w), b.width, b.width) = Undef(b.width) /\ b = Undef(b.width)
    BY <1>1, <1>2, WidthOf, BitsFields DEF Trunc
  <2> QED BY <1>2, <2>1, <2>2 DEF b
<1>3. CASE Defined(b)
  <2>1. PICK u \in Width : \E x \in 0 .. Mask(u) : b = Bits(u, x)
    BY <1>1, <1>3, ContentIs, BitsFields
  <2>2. PICK x \in 0 .. Mask(u) : b = Bits(u, x) /\ b.width = u /\ b.of = x
    BY <2>1, BitsFields
  <2>3. ASSUME w > u
        PROVE  /\ Trunc(Zext(b, w), u, u) = b
               /\ Trunc(Sext(b, w), u, u) = b
               /\ Trunc(AsBinary(b, w), u, u) = b
    <3>1. u < w
      BY <2>3, WidthFacts
    <3>2. /\ Zext(b, w) = Bits(w, x) /\ AsBinary(b, w) = Bits(w, x) /\ x \in 0 .. Mask(w)
      BY <2>2, <3>1, ZerosAdded
    <3> DEFINE e == SignExtended(u, w, x)
    <3>3. Sext(b, w) = Bits(w, e) /\ e \in 0 .. Mask(w) /\ e % PowerOf2(u) = x
      BY <2>2, <3>1, SignsAdded
    <3> HIDE DEF e
    <3>4. x % PowerOf2(u) = x
      BY WidthFacts, PowerRemainders DEF Mask
    <3>5. Trunc(Bits(w, x), u, u) = Bits(u, x % PowerOf2(u))
      BY <3>1, <3>2, TruncIs
    <3>6. Trunc(Bits(w, e), u, u) = Bits(u, e % PowerOf2(u))
      BY <3>1, <3>3, TruncIs
    <3> QED BY <2>2, <3>2, <3>3, <3>4, <3>5, <3>6
  <2>4. w < u => Trunc(b, w, w) = Bits(w, x % PowerOf2(w))
    BY <2>2, TruncIs
  <2> QED BY <2>2, <2>3, <2>4 DEF b
<1>4. QED
  BY <1>2, <1>3

\* Truncation undoes the extensions.
THEOREM TruncationUndoesExtensions ==
  ASSUME Careful
  PROVE  BinSpec => []TruncUndoesExtensions
BY ValuesFit, FittingTruncations, PTL
=============================================================================
