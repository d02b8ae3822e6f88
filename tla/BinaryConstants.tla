--------------------------- MODULE BinaryConstants ---------------------------
(***************************************************************************)
(* Constants of the binary types (bit vectors of a width) and what the     *)
(* instructions and builtins make of them: arithmetic and logic of one     *)
(* width, extension and truncation between widths, shifts, and the casts   *)
(* from and to integers.  Registers hold constants; a call that throws     *)
(* leaves its result register as it was.                                   *)
(*                                                                         *)
(* Abstractions.  The natural numbers of libstdhl are external.  Operands  *)
(* are no symbols.  The width of a value is calculated exactly: rounding   *)
(* the logarithm of a value of more than 53 bits is left out.              *)
(***************************************************************************)
EXTENDS Integers, PowersOfTwo

CONSTANTS
  Register,   \* the registers for binary constants
  Width,      \* the widths of the binary types
  Word,       \* the width of a machine word
  Careful,    \* TRUE: clients shift no bit out and narrow by trunc only
  MaxInteger  \* bound: the integers that are cast, and shifted by

ASSUME WidthAssumption == Width \subseteq 1 .. Word - 2
ASSUME WordAssumption == Word \in Nat
ASSUME CarefulAssumption == Careful \in BOOLEAN
ASSUME IntegerAssumption == MaxInteger \in Nat

VARIABLES
  binary, \* the registers for binary constants
  number  \* a register for an integer constant

binVars == << binary, number >>

Undef(w) == [width |-> w, is |-> "undef"]
Bits(w, v) == [width |-> w, is |-> "value", of |-> v]
NoInteger == [is |-> "undef"]
Integer(v) == [is |-> "value", of |-> v]
Throws == [is |-> "throws"]

Defined(c) == c.is = "value"
Mask(w) == PowerOf2(w) - 1

\* The constructor of a binary constant accepts the values up to 2 ^ (w + 1).
BinaryConstant(w, v) == IF v > PowerOf2(w + 1) THEN Throws ELSE Bits(w, v)

-----------------------------------------------------------------------------
(* The operators of a machine word, bit by bit *)

Position == 0 .. Word - 1
Bit(v, i) == (v \div PowerOf2(i)) % 2
FromBits(bits) ==
  LET sum[n \in 0 .. Word] == IF n = 0 THEN 0 ELSE sum[n - 1] + bits[n - 1] * PowerOf2(n - 1)
  IN sum[Word]

WordAnd(x, y) == FromBits([i \in Position |-> IF Bit(x, i) = 1 /\ Bit(y, i) = 1 THEN 1 ELSE 0])
WordOr(x, y) == FromBits([i \in Position |-> IF Bit(x, i) = 1 \/ Bit(y, i) = 1 THEN 1 ELSE 0])
WordXor(x, y) == FromBits([i \in Position |-> IF Bit(x, i) # Bit(y, i) THEN 1 ELSE 0])
Complement(v) == Mask(Word) - v

-----------------------------------------------------------------------------
(* The instructions on operands of one width *)

\* Mutant of Add: the sum is not masked.
AddUnmasked(l, r) ==
  IF Defined(l) /\ Defined(r) THEN BinaryConstant(l.width, l.of + r.of) ELSE Undef(l.width)

Add(l, r) ==
  IF Defined(l) /\ Defined(r)
    THEN BinaryConstant(l.width, WordAnd(l.of + r.of, Mask(l.width)))
    ELSE Undef(l.width)

Inv(l) ==
  IF Defined(l)
    THEN BinaryConstant(l.width, WordAnd(Complement(l.of) + 1, Mask(l.width)))
    ELSE l
\* The complement is one of the machine word.
NotBits(l) == IF Defined(l) THEN BinaryConstant(l.width, Complement(l.of)) ELSE l

AndBits(l, r) ==
  IF Defined(l) /\ Defined(r) THEN BinaryConstant(l.width, WordAnd(l.of, r.of)) ELSE Undef(l.width)
OrBits(l, r) ==
  IF Defined(l) /\ Defined(r) THEN BinaryConstant(l.width, WordOr(l.of, r.of)) ELSE Undef(l.width)
XorBits(l, r) ==
  IF Defined(l) /\ Defined(r) THEN BinaryConstant(l.width, WordXor(l.of, r.of)) ELSE Undef(l.width)

-----------------------------------------------------------------------------
(* The builtins between widths *)

Zext(b, w) == IF Defined(b) THEN BinaryConstant(w, b.of) ELSE Undef(w)

\* Mutant of Sext: the mask is not moved to the bits that are new.
SextUnmoved(b, w) ==
  IF ~Defined(b) \/ b.of \div PowerOf2(b.width - 1) = 0
    THEN Zext(b, w)
    ELSE OrBits(Zext(b, w), BinaryConstant(w, Mask(w - b.width)))

Sext(b, w) ==
  IF ~Defined(b) \/ b.of \div PowerOf2(b.width - 1) = 0
    THEN Zext(b, w)
    ELSE OrBits(Zext(b, w), BinaryConstant(w, Mask(w - b.width) * PowerOf2(b.width)))

\* Mutant of Trunc: the mask ends one bit too early.
TruncShort(b, offset, w) ==
  IF Defined(b)
    THEN BinaryConstant(w, WordAnd(b.of, Mask(IF offset > 0 THEN offset - 1 ELSE 0)))
    ELSE Undef(w)

\* The mask is a constant of the type of the value: its constructor may throw.
Trunc(b, offset, w) ==
  IF ~Defined(b) THEN Undef(w)
  ELSE LET mask == BinaryConstant(b.width, Mask(offset))
       IN IF mask = Throws THEN Throws ELSE BinaryConstant(w, AndBits(mask, b).of)

\* An offset is an integer or a binary constant; an undefined one is ignored.
Shl(b, offset) ==
  IF Defined(b) /\ Defined(offset)
    THEN BinaryConstant(b.width, b.of * PowerOf2(offset.of))
    ELSE b
Shr(b, offset) ==
  IF Defined(b) /\ Defined(offset)
    THEN BinaryConstant(b.width, b.of \div PowerOf2(offset.of))
    ELSE b

-----------------------------------------------------------------------------
(* The casts *)

\* Whether the bit of the sign of width w is set.
IsSet(v, w) == Bit(v, w - 1) = 1

AsInteger(b) ==
  IF ~Defined(b) THEN NoInteger
  ELSE IF IsSet(b.of, b.width) THEN Integer(-(Inv(b).of)) ELSE Integer(b.of)

\* Mutant of FromInteger: the bit of the sign is not looked at.
FromIntegerUnchecked(n, w) ==
  IF ~Defined(n) THEN Undef(w)
  ELSE IF n.of >= 0
    THEN IF WordAnd(n.of, Mask(w)) # n.of THEN Undef(w) ELSE BinaryConstant(w, n.of)
    ELSE IF WordAnd(-n.of, Mask(w)) # -n.of THEN Undef(w)
         ELSE BinaryConstant(w, WordAnd(WordXor(-n.of, Mask(w)) + 1, Mask(w)))

\* asBinary of an integer: undef, unless two's complement has the number.
FromInteger(n, w) ==
  IF ~Defined(n) THEN Undef(w)
  ELSE IF n.of >= 0
    THEN IF WordAnd(n.of, Mask(w)) # n.of \/ IsSet(n.of, w)
           THEN Undef(w)
           ELSE BinaryConstant(w, n.of)
    ELSE LET nat == WordXor(-n.of, Mask(w)) + 1
         IN IF WordAnd(-n.of, Mask(w)) # -n.of \/ ~IsSet(nat, w)
              THEN Undef(w)
              ELSE BinaryConstant(w, WordAnd(nat, Mask(w)))

\* asBinary of a binary constant: it truncates at the value, not at the width.
AsBinary(b, w) ==
  IF ~Defined(b) THEN Undef(w)
  ELSE IF w < b.width THEN Trunc(b, b.of, w)
  ELSE IF w > b.width THEN BinaryConstant(w, b.of)
  ELSE b

-----------------------------------------------------------------------------
(* Registers *)

BinaryValue == UNION { { Bits(w, v) : v \in 0 .. Mask(w) } : w \in Width }
BinInit ==
  /\ binary \in [Register -> { Undef(w) : w \in Width }]
  /\ number = NoInteger

Assign(k, res) == binary' = IF res = Throws THEN binary ELSE [binary EXCEPT ![k] = res]

\* Clients create constants of values that fit.
CreateBinary(k, w, v) == Assign(k, BinaryConstant(w, v)) /\ UNCHANGED number
CreateInteger(v) == number' = Integer(v) /\ UNCHANGED binary

\* Instructions are typed: their operands are of one width.
ExecuteInstruction(k, l, r) ==
  /\ l.width = r.width
  /\ \E res \in {Add(l, r), AndBits(l, r), OrBits(l, r), XorBits(l, r), Inv(l), NotBits(l)} :
       Assign(k, res)
  /\ UNCHANGED number

\* The annotations of the builtins allow wider results for the extensions and
\* narrower ones for trunc, whose offset is the width its type comes from.
ExecuteExtension(k, b, w) ==
  /\ IF w > b.width
       THEN \E res \in {Zext(b, w), Sext(b, w)} : Assign(k, res)
       ELSE w < b.width /\ Assign(k, Trunc(b, w, w))
  /\ UNCHANGED number

FewerBits(b, offset) == Defined(b) /\ Defined(offset) => b.of * PowerOf2(offset.of) <= Mask(b.width)

\* Clients shift by natural numbers: a negative one is out of libstdhl's domain.
ExecuteShift(k, b, offset) ==
  /\ Defined(offset) => offset.of \in 0 .. MaxInteger
  /\ \/ (Careful => FewerBits(b, offset)) /\ Assign(k, Shl(b, offset))
     \/ Assign(k, Shr(b, offset))
  /\ UNCHANGED number

CastToInteger(b) == number' = AsInteger(b) /\ UNCHANGED binary

CastToBinary(k, w) ==
  /\ \/ Assign(k, FromInteger(number, w))
     \/ \E i \in Register :
          /\ Careful => w >= binary[i].width
          /\ Assign(k, AsBinary(binary[i], w))
  /\ UNCHANGED number

BinNext ==
  \/ \E k \in Register, w \in Width : \E v \in 0 .. Mask(w) : CreateBinary(k, w, v)
  \/ \E v \in -MaxInteger .. MaxInteger : CreateInteger(v)
  \/ \E i, j, k \in Register : ExecuteInstruction(k, binary[i], binary[j])
  \/ \E i, k \in Register, w \in Width : ExecuteExtension(k, binary[i], w)
  \/ \E i, j, k \in Register : ExecuteShift(k, binary[i], binary[j])
  \/ \E i, k \in Register : ExecuteShift(k, binary[i], number)
  \/ \E i \in Register : CastToInteger(binary[i])
  \/ \E k \in Register, w \in Width : CastToBinary(k, w)

BinSpec == BinInit /\ [][BinNext]_binVars

-----------------------------------------------------------------------------
(* Properties *)

\* Whatever clients that are careful do with them, the registers hold constants
\* whose values fit into their widths, which the constructor does not ensure.
FitsWidth ==
  /\ binary \in [Register -> BinaryValue \cup { Undef(w) : w \in Width }]
  /\ number = NoInteger \/ (number.of \in Int /\ number = Integer(number.of))

\* The two's complement of width w, as a reference for the casts.
Signed(w, v) == IF v >= PowerOf2(w - 1) THEN v - PowerOf2(w) ELSE v
Congruent(w, a, b) == (a - b) % PowerOf2(w) = 0

\* Binary constants are integers in two's complement: the integers of a sum, of
\* a negation and of a sign extension are the sum, the negation and the integer
\* itself, up to what the width can hold, and the extension is exact.
TwosComplement ==
  \A i, j \in Register :
    LET l == binary[i]
        r == binary[j]
    IN Defined(l) /\ Defined(r) =>
         /\ AsInteger(l) = Integer(Signed(l.width, l.of))
         /\ Congruent(l.width, AsInteger(Inv(l)).of, -AsInteger(l).of)
         /\ l.width = r.width =>
              Congruent(l.width, AsInteger(Add(l, r)).of, AsInteger(l).of + AsInteger(r).of)
         /\ \A w \in Width : w > l.width => AsInteger(Sext(l, w)) = AsInteger(l)

\* A binary constant is what its integer is cast back to, and an integer is cast
\* to undef just when the width cannot hold it, else it comes back as it was.
CastsInverse ==
  /\ \A k \in Register : FromInteger(AsInteger(binary[k]), binary[k].width) = binary[k]
  /\ \A w \in Width :
       Defined(number) =>
         IF number.of \in -(PowerOf2(w - 1)) .. PowerOf2(w - 1) - 1
           THEN AsInteger(FromInteger(number, w)) = number
           ELSE FromInteger(number, w) = Undef(w)

\* Truncation undoes both extensions, and never throws on a constant that fits.
TruncUndoesExtensions ==
  \A k \in Register, w \in Width :
    LET b == binary[k]
    IN /\ w > b.width =>
            \A ext \in {Zext(b, w), Sext(b, w), AsBinary(b, w)} : Trunc(ext, b.width, b.width) = b
       /\ w < b.width /\ Defined(b) => Trunc(b, w, w) = Bits(w, b.of % PowerOf2(w))

\* asBinary to a narrower type truncates, as its comment has it: the result is
\* that of trunc, the lower bits of the value.
AsBinaryTruncates ==
  \A k \in Register, w \in Width :
    w < binary[k].width => AsBinary(binary[k], w) = Trunc(binary[k], w, w)
=============================================================================
