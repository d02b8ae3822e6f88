-------------------- MODULE OperatorInstructions_proofs --------------------
(***************************************************************************)
(* What holds of the operator instructions for registers, integers and     *)
(* sequences of instructions of any number.                                *)
(*                                                                         *)
(* The first parts are lemmas about the results of the instructions: on    *)
(* operands that are no symbols an instruction has one result, on others   *)
(* it has one that follows the concrete result.  The invariant has         *)
(*   RegTyped   the types: a concrete register never holds a symbol        *)
(*   LastTyped  the last outcome is a result of its instruction            *)
(* and SymbolicExecutionSound itself, which is inductive with RegTyped.    *)
(* Powers are not looked into: the proofs take any number for l ^ r.       *)
(***************************************************************************)
EXTENDS OperatorInstructions, TLAPS

USE InstructionAssumption

-----------------------------------------------------------------------------
(* Constants *)

\* What an operand may be when it is no symbol.
IntegerOperand == IntegerValue \cup {Undef}
BooleanOperand == BooleanValue \cup {Undef}

\* The constants and outcomes differ, whatever the value of a literal.
LEMMA Distinctions ==
  /\ Undef # Symbol /\ Undef # Throws /\ Undef # Unchanged
  /\ Symbol # Throws /\ Symbol # Unchanged /\ Throws # Unchanged
  /\ \A v : /\ Literal(v) # Undef /\ Literal(v) # Symbol
            /\ Literal(v) # Throws /\ Literal(v) # Unchanged
            /\ Literal(v).of = v
<1>1. /\ Undef.is = "undef" /\ Symbol.is = "symbol" /\ Throws.is = "throws"
      /\ Unchanged.is = "unchanged"
      /\ \A v : Literal(v).is = "value" /\ Literal(v).of = v
  BY DEF Undef, Symbol, Throws, Unchanged, Literal
<1>2. QED
  BY <1>1

\* The operands, by cases.
LEMMA IntegerOperands ==
  /\ \A c \in IntegerConstant :
       c = Undef \/ c = Symbol \/ \E v \in Int : v \in Range /\ c = Literal(v)
  /\ \A v \in Range : v \in Int /\ Literal(v) \in IntegerOperand
  /\ Symbol \notin IntegerOperand
  /\ IntegerOperand = IntegerConstant \ {Symbol}
  /\ \A c \in IntegerOperand : c # Undef => c.of \in Int /\ c = Literal(c.of)
<1>1. \A v \in Range : v \in Int
  BY DEF Range
<1>2. Symbol \notin IntegerOperand
  BY Distinctions DEF IntegerOperand, IntegerValue
<1>3. ASSUME NEW c \in IntegerOperand, c # Undef
      PROVE  c.of \in Int /\ c = Literal(c.of)
  <2>1. PICK v \in Range : c = Literal(v)
    BY <1>3 DEF IntegerOperand, IntegerValue
  <2>2. QED
    BY <1>1, <2>1, Distinctions
<1>4. QED
  BY <1>1, <1>2, <1>3 DEF IntegerConstant, IntegerOperand, IntegerValue

LEMMA BooleanOperands ==
  /\ \A c \in BooleanConstant :
       c = Undef \/ c = Symbol \/ c = Literal(TRUE) \/ c = Literal(FALSE)
  /\ Literal(TRUE) \in BooleanOperand /\ Literal(FALSE) \in BooleanOperand
  /\ \A v : v \in BOOLEAN => Literal(v) \in BooleanOperand
  /\ Symbol \notin BooleanOperand
  /\ BooleanOperand = BooleanConstant \ {Symbol}
  /\ \A c \in BooleanOperand : c # Undef => c.of \in BOOLEAN
  /\ Undef \in BooleanOperand
<1>1. Symbol \notin BooleanOperand
  BY Distinctions DEF BooleanOperand, BooleanValue
<1>2. \A c \in BooleanOperand : c # Undef => c.of \in BOOLEAN
  BY Distinctions DEF BooleanOperand, BooleanValue
<1>3. QED
  BY <1>1, <1>2 DEF BooleanConstant, BooleanOperand, BooleanValue

\* Results, by instruction.
LEMMA ResultsCases ==
  ASSUME NEW l, NEW r
  PROVE  /\ Results("inv", l, r) = Inv(l) /\ Results("add", l, r) = Add(l, r)
         /\ Results("sub", l, r) = Sub(l, r) /\ Results("mul", l, r) = Mul(l, r)
         /\ Results("mod", l, r) = Mod(l, r) /\ Results("div", l, r) = Div(l, r)
         /\ Results("pow", l, r) = Pow(l, r)
         /\ Results("equ", l, r) = Equ(l, r) /\ Results("neq", l, r) = Neq(l, r)
         /\ Results("lth", l, r) = Lth(l, r) /\ Results("leq", l, r) = Leq(l, r)
         /\ Results("gth", l, r) = Gth(l, r) /\ Results("geq", l, r) = Geq(l, r)
         /\ Results("and", l, r) = And(l, r) /\ Results("or", l, r) = Or(l, r)
         /\ Results("xor", l, r) = Xor(l, r) /\ Results("imp", l, r) = Imp(l, r)
         /\ Results("not", l, r) = Not(l)
  BY DEF Results

-----------------------------------------------------------------------------
(* What the instructions make of operands that are no symbols *)

\* Arithmetic instructions have one result, neither a symbol nor an exception.
LEMMA ArithmeticResults ==
  ASSUME NEW op \in ArithmeticInstruction,
         NEW l \in IntegerOperand, NEW r \in IntegerOperand
  PROVE  \A x, y \in Results(op, l, r) : x = y /\ x # Symbol /\ x # Throws
<1>1. l # Symbol /\ r # Symbol /\ ~AnySymbol(l, r)
  BY IntegerOperands DEF AnySymbol
<1>2. CASE op = "inv"
  <2>1. \A x, y \in Inv(l) : x = y /\ x # Symbol /\ x # Throws
    BY <1>1, Distinctions DEF Inv
  <2>2. QED
    BY <1>2, <2>1, ResultsCases
<1>3. CASE op = "add"
  <2>1. \A x, y \in Add(l, r) : x = y /\ x # Symbol /\ x # Throws
    BY <1>1, Distinctions DEF Add, Arithmetic
  <2>2. QED
    BY <1>3, <2>1, ResultsCases
<1>4. CASE op = "sub"
  <2>1. \A x, y \in Sub(l, r) : x = y /\ x # Symbol /\ x # Throws
    BY <1>1, Distinctions DEF Sub, Arithmetic
  <2>2. QED
    BY <1>4, <2>1, ResultsCases
<1>5. CASE op = "mul"
  <2>1. \A x, y \in Mul(l, r) : x = y /\ x # Symbol /\ x # Throws
    BY <1>1, Distinctions DEF Mul, Arithmetic
  <2>2. QED
    BY <1>5, <2>1, ResultsCases
<1>6. CASE op = "mod"
  <2>1. \A x, y \in Mod(l, r) : x = y /\ x # Symbol /\ x # Throws
    BY <1>1, Distinctions DEF Mod, Arithmetic
  <2>2. QED
    BY <1>6, <2>1, ResultsCases
<1>7. CASE op = "div"
  <2>1. \A x, y \in Div(l, r) : x = y /\ x # Symbol /\ x # Throws
    BY <1>1, Distinctions DEF Div, Arithmetic
  <2>2. QED
    BY <1>7, <2>1, ResultsCases
<1>8. CASE op = "pow"
  <2>1. \A x, y \in Pow(l, r) : x = y /\ x # Symbol /\ x # Throws
    <3>1. l # Undef => l = Literal(l.of)
      BY IntegerOperands
    <3>2. r # Undef => r.of \in Int
      BY IntegerOperands
    <3>3. \/ l = Undef
          \/ l # Undef /\ r = Undef
          \/ l # Undef /\ r # Undef /\ r.of < 0
          \/ l # Undef /\ r # Undef /\ r.of = 0
          \/ l # Undef /\ r # Undef /\ r.of > 0
      BY <3>2
    <3>4. CASE l # Undef /\ r # Undef /\ r.of > 0
      <4>1. Pow(l, r) = { Literal(l.of ^ r.of) }
        BY <1>1, <3>2, <3>4 DEF Pow
      <4>2. QED
        BY <4>1, Distinctions
    <3>5. QED
      BY <1>1, <3>1, <3>3, <3>4, Distinctions DEF Pow
  <2>2. QED
    BY <1>8, <2>1, ResultsCases
<1>9. QED
  BY <1>2, <1>3, <1>4, <1>5, <1>6, <1>7, <1>8 DEF ArithmeticInstruction

\* A comparison that is handled like arithmetic.
LEMMA ArithmeticTruth ==
  ASSUME NEW l, NEW r, ~AnySymbol(l, r), NEW b, ~AnyUndef(l, r) => b \in BOOLEAN
  PROVE  \A x, y \in Arithmetic(l, r, { Literal(b) }) : x = y /\ x \in BooleanOperand
  BY BooleanOperands DEF Arithmetic

\* Comparisons have one result, that is no symbol.
LEMMA CompareResults ==
  ASSUME NEW op \in CompareInstruction,
         NEW l \in IntegerOperand, NEW r \in IntegerOperand
  PROVE  \A x, y \in Results(op, l, r) : x = y /\ x \in BooleanOperand
<1>1. l # Symbol /\ r # Symbol /\ ~AnySymbol(l, r)
  BY IntegerOperands DEF AnySymbol
<1>2. ~AnyUndef(l, r) => l.of \in Int /\ r.of \in Int
  BY IntegerOperands DEF AnyUndef
<1>3. CASE op = "lth"
  <2> DEFINE b == l.of < r.of
  <2>1. ~AnyUndef(l, r) => b \in BOOLEAN
    OBVIOUS
  <2>2. Results(op, l, r) = Arithmetic(l, r, { Literal(b) })
    BY <1>3, ResultsCases DEF Lth
  <2> HIDE DEF b
  <2>3. \A x, y \in Arithmetic(l, r, { Literal(b) }) : x = y /\ x \in BooleanOperand
    BY <1>1, <2>1, ArithmeticTruth
  <2>4. QED
    BY <2>2, <2>3
<1>4. CASE op = "leq"
  <2> DEFINE b == l.of <= r.of
  <2>1. ~AnyUndef(l, r) => b \in BOOLEAN
    OBVIOUS
  <2>2. \/ Results(op, l, r) = Arithmetic(l, r, { Literal(b) })
        \/ Results(op, l, r) = { Literal(TRUE) }
    BY <1>4, ResultsCases DEF Leq
  <2> HIDE DEF b
  <2>3. \A x, y \in Arithmetic(l, r, { Literal(b) }) : x = y /\ x \in BooleanOperand
    BY <1>1, <2>1, ArithmeticTruth
  <2>4. QED
    BY <2>2, <2>3, BooleanOperands
<1>5. CASE op = "gth"
  <2> DEFINE b == l.of > r.of
  <2>1. ~AnyUndef(l, r) => b \in BOOLEAN
    OBVIOUS
  <2>2. Results(op, l, r) = Arithmetic(l, r, { Literal(b) })
    BY <1>5, ResultsCases DEF Gth
  <2> HIDE DEF b
  <2>3. \A x, y \in Arithmetic(l, r, { Literal(b) }) : x = y /\ x \in BooleanOperand
    BY <1>1, <2>1, ArithmeticTruth
  <2>4. QED
    BY <2>2, <2>3
<1>6. CASE op = "geq"
  <2> DEFINE b == l.of >= r.of
  <2>1. ~AnyUndef(l, r) => b \in BOOLEAN
    OBVIOUS
  <2>2. \/ Results(op, l, r) = Arithmetic(l, r, { Literal(b) })
        \/ Results(op, l, r) = { Literal(TRUE) }
    BY <1>6, ResultsCases DEF Geq
  <2> HIDE DEF b
  <2>3. \A x, y \in Arithmetic(l, r, { Literal(b) }) : x = y /\ x \in BooleanOperand
    BY <1>1, <2>1, ArithmeticTruth
  <2>4. QED
    BY <2>2, <2>3, BooleanOperands
<1>7. CASE op = "equ"
  <2>1. \A x, y \in Equ(l, r) : x = y /\ x \in BooleanOperand
    BY <1>1, <1>2, BooleanOperands DEF Equ
  <2>2. QED
    BY <1>7, <2>1, ResultsCases
<1>8. CASE op = "neq"
  <2>1. \A x, y \in Neq(l, r) : x = y /\ x \in BooleanOperand
    BY <1>1, <1>2, BooleanOperands DEF Neq
  <2>2. QED
    BY <1>8, <2>1, ResultsCases
<1>9. QED
  BY <1>3, <1>4, <1>5, <1>6, <1>7, <1>8 DEF CompareInstruction

\* So do the logical instructions.
LEMMA LogicalResults ==
  ASSUME NEW op \in LogicalInstruction,
         NEW l \in BooleanOperand, NEW r \in BooleanOperand
  PROVE  \A x, y \in Results(op, l, r) : x = y /\ x \in BooleanOperand
<1>1. l # Symbol /\ r # Symbol /\ ~AnySymbol(l, r)
  BY BooleanOperands DEF AnySymbol
<1>2. CASE op = "and"
  <2>1. \A x, y \in And(l, r) : x = y /\ x \in BooleanOperand
    BY <1>1, BooleanOperands DEF And, Connective
  <2>2. QED
    BY <1>2, <2>1, ResultsCases
<1>3. CASE op = "or"
  <2>1. \A x, y \in Or(l, r) : x = y /\ x \in BooleanOperand
    BY <1>1, BooleanOperands DEF Or, Connective
  <2>2. QED
    BY <1>3, <2>1, ResultsCases
<1>4. CASE op = "xor"
  <2>1. \A x, y \in Xor(l, r) : x = y /\ x \in BooleanOperand
    BY <1>1, BooleanOperands DEF Xor, Connective
  <2>2. QED
    BY <1>4, <2>1, ResultsCases
<1>5. CASE op = "imp"
  <2>1. \A x, y \in Imp(l, r) : x = y /\ x \in BooleanOperand
    BY <1>1, BooleanOperands DEF Imp, Connective
  <2>2. QED
    BY <1>5, <2>1, ResultsCases
<1>6. CASE op = "not"
  <2>1. \A x, y \in Not(l) : x = y /\ x \in BooleanOperand
    BY <1>1, BooleanOperands DEF Not
  <2>2. QED
    BY <1>6, <2>1, ResultsCases
<1>7. QED
  BY <1>2, <1>3, <1>4, <1>5, <1>6 DEF LogicalInstruction

-----------------------------------------------------------------------------
(* What they make of symbols *)

\* An undefined operand decides, for arithmetic and for the comparisons by order.
LEMMA ArithmeticOfSymbols ==
  ASSUME NEW l, NEW r, AnySymbol(l, r),
         NEW op \in {"add", "sub", "mul", "lth", "leq", "gth", "geq"}
  PROVE  Results(op, l, r) = IF AnyUndef(l, r) THEN {Undef} ELSE {Symbol}
<1>1. ~(l = Undef /\ r = Undef)
  BY Distinctions DEF AnySymbol
<1>2. CASE op = "add"
  <2>1. Add(l, r) = IF AnyUndef(l, r) THEN {Undef} ELSE {Symbol}
    BY <1>1 DEF Add, Arithmetic
  <2>2. QED
    BY <1>2, <2>1, ResultsCases
<1>3. CASE op = "sub"
  <2>1. Sub(l, r) = IF AnyUndef(l, r) THEN {Undef} ELSE {Symbol}
    BY <1>1 DEF Sub, Arithmetic
  <2>2. QED
    BY <1>3, <2>1, ResultsCases
<1>4. CASE op = "mul"
  <2>1. Mul(l, r) = IF AnyUndef(l, r) THEN {Undef} ELSE {Symbol}
    BY <1>1 DEF Mul, Arithmetic
  <2>2. QED
    BY <1>4, <2>1, ResultsCases
<1>5. CASE op = "lth"
  <2>1. Lth(l, r) = IF AnyUndef(l, r) THEN {Undef} ELSE {Symbol}
    BY <1>1 DEF Lth, Arithmetic
  <2>2. QED
    BY <1>5, <2>1, ResultsCases
<1>6. CASE op = "leq"
  <2>1. Leq(l, r) = IF AnyUndef(l, r) THEN {Undef} ELSE {Symbol}
    BY <1>1 DEF Leq, Arithmetic
  <2>2. QED
    BY <1>6, <2>1, ResultsCases
<1>7. CASE op = "gth"
  <2>1. Gth(l, r) = IF AnyUndef(l, r) THEN {Undef} ELSE {Symbol}
    BY <1>1 DEF Gth, Arithmetic
  <2>2. QED
    BY <1>7, <2>1, ResultsCases
<1>8. CASE op = "geq"
  <2>1. Geq(l, r) = IF AnyUndef(l, r) THEN {Undef} ELSE {Symbol}
    BY <1>1 DEF Geq, Arithmetic
  <2>2. QED
    BY <1>8, <2>1, ResultsCases
<1>9. QED
  BY <1>2, <1>3, <1>4, <1>5, <1>6, <1>7, <1>8

\* A connective is a symbol when both operands are, and not implemented otherwise.
LEMMA ConnectiveOfSymbols ==
  ASSUME NEW l, NEW r, AnySymbol(l, r), NEW op \in {"and", "or", "xor", "imp"}
  PROVE  Results(op, l, r) = IF l = r THEN {Symbol} ELSE {Throws}
<1>1. CASE op = "and"
  <2>1. And(l, r) = IF l = r THEN {Symbol} ELSE {Throws}
    BY DEF And, Connective
  <2>2. QED
    BY <1>1, <2>1, ResultsCases
<1>2. CASE op = "or"
  <2>1. Or(l, r) = IF l = r THEN {Symbol} ELSE {Throws}
    BY DEF Or, Connective
  <2>2. QED
    BY <1>2, <2>1, ResultsCases
<1>3. CASE op = "xor"
  <2>1. Xor(l, r) = IF l = r THEN {Symbol} ELSE {Throws}
    BY DEF Xor, Connective
  <2>2. QED
    BY <1>3, <2>1, ResultsCases
<1>4. CASE op = "imp"
  <2>1. Imp(l, r) = IF l = r THEN {Symbol} ELSE {Throws}
    BY DEF Imp, Connective
  <2>2. QED
    BY <1>4, <2>1, ResultsCases
<1>5. QED
  BY <1>1, <1>2, <1>3, <1>4

\* Comparison and logic have a Boolean constant as their result, for all operands.
LEMMA BooleanResults ==
  ASSUME NEW op, NEW l, NEW r,
         \/ op \in CompareInstruction /\ l \in IntegerConstant /\ r \in IntegerConstant
         \/ op \in LogicalInstruction /\ l \in BooleanConstant /\ r \in BooleanConstant
  PROVE  \A x \in Results(op, l, r) : x \in BooleanConstant \/ x = Throws
<1>1. BooleanOperand \subseteq BooleanConstant /\ Undef \in BooleanConstant
      /\ Symbol \in BooleanConstant /\ BooleanValue \subseteq BooleanConstant
  BY DEF BooleanOperand, BooleanConstant
<1>2. CASE ~AnySymbol(l, r)
  <2>1. CASE op \in CompareInstruction /\ l \in IntegerConstant /\ r \in IntegerConstant
    <3>1. l \in IntegerOperand /\ r \in IntegerOperand
      BY <1>2, <2>1, IntegerOperands DEF AnySymbol
    <3>2. QED
      BY <1>1, <2>1, <3>1, CompareResults
  <2>2. CASE op \in LogicalInstruction /\ l \in BooleanConstant /\ r \in BooleanConstant
    <3>1. l \in BooleanOperand /\ r \in BooleanOperand
      BY <1>2, <2>2, BooleanOperands DEF AnySymbol
    <3>2. QED
      BY <1>1, <2>2, <3>1, LogicalResults
  <2>3. QED
    BY <2>1, <2>2
<1>3. CASE AnySymbol(l, r)
  <2>4. op \in {"lth", "leq", "gth", "geq"} => Results(op, l, r) \subseteq {Undef, Symbol}
    BY <1>3, ArithmeticOfSymbols
  <2>5. op \in {"equ", "neq"} => Results(op, l, r) \subseteq {Symbol}
    BY <1>3, ResultsCases DEF Equ, Neq
  <2>6. op \in {"and", "or", "xor", "imp"} => Results(op, l, r) \subseteq {Symbol, Throws}
    BY <1>3, ConnectiveOfSymbols
  <2>7. op = "not" => \A x \in Results(op, l, r) : x \in BooleanConstant
    <3>1. l \in BooleanConstant /\ l # Undef /\ l # Symbol => l.of \in BOOLEAN
      BY BooleanOperands
    <3>2. \A v \in BOOLEAN : Literal(v) \in BooleanConstant
      BY <1>1, BooleanOperands
    <3>3. op = "not" => l \in BooleanConstant
      BY DEF CompareInstruction
    <3>4. l \in BooleanConstant => \A x \in Not(l) : x \in BooleanConstant
      <4>1. CASE l = Undef \/ l = Symbol
        BY <1>1, <4>1 DEF Not
      <4>2. CASE l # Undef /\ l # Symbol
        BY <3>1, <3>2, <4>2 DEF Not
      <4>3. QED
        BY <4>1, <4>2
    <3>5. QED
      BY <3>3, <3>4, ResultsCases
  <2>8. QED
    BY <1>1, <2>4, <2>5, <2>6, <2>7 DEF CompareInstruction, LogicalInstruction
<1>4. QED
  BY <1>2, <1>3

-----------------------------------------------------------------------------
(* The symbolic results follow the concrete ones *)

\* A constant stands for a concrete one: it is that, or a symbol of a defined one.
Stands(c, k) == IF c = Symbol THEN k # Undef ELSE c = k

\* Outcomes after which registers stand for the concrete ones as before.
Follows(res, cres) ==
  \/ res = Throws
  \/ res = Unchanged /\ cres = Unchanged
  \/ res \notin {Unchanged, Throws} /\ cres \notin {Unchanged, Throws} /\ Stands(res, cres)

LEMMA SameFollows ==
  ASSUME NEW res, res # Symbol
  PROVE  Follows(res, res)
  BY DEF Follows, Stands

\* A constant that a symbol may stand for.
Defined(c) == c \notin {Undef, Symbol, Throws, Unchanged}

LEMMA SymbolFollows ==
  /\ Follows(Undef, Undef)
  /\ \A c : Defined(c) => Follows(Symbol, c)
  /\ \A c : Follows(Throws, c)
  BY Distinctions DEF Follows, Stands, Defined

LEMMA StandingOperands ==
  ASSUME NEW l, NEW r, NEW kl, NEW kr, kl # Symbol, kr # Symbol,
         Stands(l, kl), Stands(r, kr), AnySymbol(l, r)
  PROVE  /\ ~AnySymbol(kl, kr)
         /\ AnyUndef(l, r) <=> AnyUndef(kl, kr)
         /\ ~(kl = Undef /\ kr = Undef)
         /\ l = r => ~AnyUndef(kl, kr)
  BY Distinctions DEF Stands, AnySymbol, AnyUndef

\* The instructions that handle symbols, by what they make of them.
Arithmetical == {"add", "sub", "mul", "lth", "leq", "gth", "geq"}
Equality == {"equ", "neq"}
Connecting == {"and", "or", "xor", "imp"}

\* Arithmetic passes an undefined operand on.
LEMMA ArithmeticOfUndef ==
  ASSUME NEW op \in Arithmetical, NEW l, NEW r, ~(l = Undef /\ r = Undef), AnyUndef(l, r)
  PROVE  Results(op, l, r) = {Undef}
<1>1. CASE op = "add"
  <2>1. Add(l, r) = {Undef}
    BY DEF Add, Arithmetic
  <2>2. QED
    BY <1>1, <2>1, ResultsCases
<1>2. CASE op = "sub"
  <2>1. Sub(l, r) = {Undef}
    BY DEF Sub, Arithmetic
  <2>2. QED
    BY <1>2, <2>1, ResultsCases
<1>3. CASE op = "mul"
  <2>1. Mul(l, r) = {Undef}
    BY DEF Mul, Arithmetic
  <2>2. QED
    BY <1>3, <2>1, ResultsCases
<1>4. CASE op = "lth"
  <2>1. Lth(l, r) = {Undef}
    BY DEF Lth, Arithmetic
  <2>2. QED
    BY <1>4, <2>1, ResultsCases
<1>5. CASE op = "leq"
  <2>1. Leq(l, r) = {Undef}
    BY DEF Leq, Arithmetic
  <2>2. QED
    BY <1>5, <2>1, ResultsCases
<1>6. CASE op = "gth"
  <2>1. Gth(l, r) = {Undef}
    BY DEF Gth, Arithmetic
  <2>2. QED
    BY <1>6, <2>1, ResultsCases
<1>7. CASE op = "geq"
  <2>1. Geq(l, r) = {Undef}
    BY DEF Geq, Arithmetic
  <2>2. QED
    BY <1>7, <2>1, ResultsCases
<1>8. QED
  BY <1>1, <1>2, <1>3, <1>4, <1>5, <1>6, <1>7 DEF Arithmetical

\* On values their result is one, and the equalities are defined always.
LEMMA DefinedResults ==
  ASSUME NEW op \in Arithmetical \cup Equality \cup Connecting, NEW l, NEW r, ~AnySymbol(l, r),
         op \in Equality \/ ~AnyUndef(l, r)
  PROVE  \A c \in Results(op, l, r) : Defined(c)
<1>1. \A v : Defined(Literal(v))
  BY Distinctions DEF Defined
<1>2. CASE op = "add"
  <2>1. \A c \in Add(l, r) : Defined(c)
    BY <1>1, <1>2 DEF Add, Arithmetic, Equality
  <2>2. QED
    BY <1>2, <2>1, ResultsCases
<1>3. CASE op = "sub"
  <2>1. \A c \in Sub(l, r) : Defined(c)
    BY <1>1, <1>3 DEF Sub, Arithmetic, Equality
  <2>2. QED
    BY <1>3, <2>1, ResultsCases
<1>4. CASE op = "mul"
  <2>1. \A c \in Mul(l, r) : Defined(c)
    BY <1>1, <1>4 DEF Mul, Arithmetic, Equality
  <2>2. QED
    BY <1>4, <2>1, ResultsCases
<1>5. CASE op = "lth"
  <2>1. \A c \in Lth(l, r) : Defined(c)
    BY <1>1, <1>5 DEF Lth, Arithmetic, Equality
  <2>2. QED
    BY <1>5, <2>1, ResultsCases
<1>6. CASE op = "leq"
  <2>1. \A c \in Leq(l, r) : Defined(c)
    BY <1>1, <1>6 DEF Leq, Arithmetic, Equality
  <2>2. QED
    BY <1>6, <2>1, ResultsCases
<1>7. CASE op = "gth"
  <2>1. \A c \in Gth(l, r) : Defined(c)
    BY <1>1, <1>7 DEF Gth, Arithmetic, Equality
  <2>2. QED
    BY <1>7, <2>1, ResultsCases
<1>8. CASE op = "geq"
  <2>1. \A c \in Geq(l, r) : Defined(c)
    BY <1>1, <1>8 DEF Geq, Arithmetic, Equality
  <2>2. QED
    BY <1>8, <2>1, ResultsCases
<1>9. CASE op = "and"
  <2>1. \A c \in And(l, r) : Defined(c)
    BY <1>1, <1>9 DEF And, Connective, Equality
  <2>2. QED
    BY <1>9, <2>1, ResultsCases
<1>10. CASE op = "or"
  <2>1. \A c \in Or(l, r) : Defined(c)
    BY <1>1, <1>10 DEF Or, Connective, Equality
  <2>2. QED
    BY <1>10, <2>1, ResultsCases
<1>11. CASE op = "xor"
  <2>1. \A c \in Xor(l, r) : Defined(c)
    BY <1>1, <1>11 DEF Xor, Connective, Equality
  <2>2. QED
    BY <1>11, <2>1, ResultsCases
<1>12. CASE op = "imp"
  <2>1. \A c \in Imp(l, r) : Defined(c)
    BY <1>1, <1>12 DEF Imp, Connective, Equality
  <2>2. QED
    BY <1>12, <2>1, ResultsCases
<1>13. CASE op \in Equality
  <2>1. \A c \in Equ(l, r) \cup Neq(l, r) : Defined(c)
    BY <1>1 DEF Equ, Neq
  <2>2. QED
    BY <1>13, <2>1, ResultsCases DEF Equality
<1>14. QED
  BY <1>2, <1>3, <1>4, <1>5, <1>6, <1>7, <1>8, <1>9, <1>10, <1>11, <1>12, <1>13
  DEF Arithmetical, Connecting

\* With a symbol among its operands, an instruction that handles symbols has a result
\* that follows the concrete one.
LEMMA HandlingFollows ==
  ASSUME NEW op \in {"inv"} \cup Arithmetical \cup Equality \cup Connecting,
         NEW l, NEW r, NEW kl, NEW kr, kl # Symbol, kr # Symbol,
         Stands(l, kl), Stands(r, kr), AnySymbol(l, r),
         NEW res \in Results(op, l, r), NEW cres \in Results(op, kl, kr)
  PROVE  Follows(res, cres)
<1>1. CASE op = "inv"
  <2>1. res \in Inv(l) /\ cres \in Inv(kl)
    BY <1>1, ResultsCases
  <2>2. CASE l = Symbol
    BY <2>1, <2>2, Distinctions DEF Inv, Follows
  <2>3. CASE l # Symbol
    <3>1. kl = l /\ res = cres /\ res # Symbol
      BY <2>1, <2>3, Distinctions DEF Inv, Stands
    <3>2. QED
      BY <3>1, SameFollows
  <2>4. QED
    BY <2>2, <2>3
<1>2. /\ ~AnySymbol(kl, kr) /\ (AnyUndef(l, r) <=> AnyUndef(kl, kr))
      /\ ~(kl = Undef /\ kr = Undef) /\ (l = r => ~AnyUndef(kl, kr))
  BY StandingOperands
<1>3. CASE op \in Arithmetical
  <2>1. Results(op, l, r) = IF AnyUndef(l, r) THEN {Undef} ELSE {Symbol}
    BY <1>3, ArithmeticOfSymbols DEF Arithmetical
  <2>2. CASE AnyUndef(l, r)
    BY <1>2, <1>3, <2>1, <2>2, ArithmeticOfUndef, SymbolFollows
  <2>3. CASE ~AnyUndef(l, r)
    BY <1>2, <1>3, <2>1, <2>3, DefinedResults, SymbolFollows
  <2>4. QED
    BY <2>2, <2>3
<1>4. CASE op \in Equality
  <2>1. Results(op, l, r) = {Symbol}
    BY <1>4, ResultsCases DEF Equality, Equ, Neq
  <2>2. QED
    BY <1>2, <1>4, <2>1, DefinedResults, SymbolFollows
<1>5. CASE op \in Connecting
  <2>1. Results(op, l, r) = IF l = r THEN {Symbol} ELSE {Throws}
    BY <1>5, ConnectiveOfSymbols DEF Connecting
  <2>2. CASE l = r
    BY <1>2, <1>5, <2>1, <2>2, DefinedResults, SymbolFollows
  <2>3. CASE l # r
    BY <2>1, <2>3, SymbolFollows
  <2>4. QED
    BY <2>2, <2>3
<1>6. QED
  BY <1>1, <1>3, <1>4, <1>5

-----------------------------------------------------------------------------
(* execute() *)

Banks == {"integers", "booleans"}
Registers(A, B) == [integers : [Register -> A], booleans : [Register -> B]]

\* A bank of registers is a function of the registers.
LEMMA BankFacts ==
  ASSUME NEW A, NEW B, NEW regs \in Registers(A, B)
  PROVE  /\ regs["integers"] \in [Register -> A] /\ regs["booleans"] \in [Register -> B]
         /\ DOMAIN regs = Banks
  BY DEF Registers, Banks

LEMMA BanksMake ==
  ASSUME NEW A, NEW B, NEW regs, regs = [b \in Banks |-> regs[b]],
         regs["integers"] \in [Register -> A], regs["booleans"] \in [Register -> B]
  PROVE  regs \in Registers(A, B)
  BY DEF Registers, Banks

\* What an assignment of c does to registers.
LEMMA AssignedFacts ==
  ASSUME NEW A, NEW B, NEW regs \in Registers(A, B), NEW bank \in Banks, NEW k \in Register, NEW c,
         c \in IF bank = "integers" THEN A ELSE B
  PROVE  /\ [regs EXCEPT ![bank][k] = c] \in Registers(A, B)
         /\ \A b \in Banks, q \in Register :
              [regs EXCEPT ![bank][k] = c][b][q] = IF b = bank /\ q = k THEN c ELSE regs[b][q]
<1> DEFINE new == [regs EXCEPT ![bank][k] = c]
<1>1. /\ regs["integers"] \in [Register -> A] /\ regs["booleans"] \in [Register -> B]
      /\ DOMAIN regs = Banks
  BY BankFacts
<1>2. /\ new = [b \in Banks |-> new[b]]
      /\ \A b \in Banks : new[b] = IF b = bank THEN [regs[b] EXCEPT ![k] = c] ELSE regs[b]
  BY <1>1
<1> HIDE DEF new
<1>3. /\ new["integers"] \in [Register -> A]
      /\ new["booleans"] \in [Register -> B]
  BY <1>1, <1>2 DEF Banks
<1>4. new \in Registers(A, B)
  BY <1>2, <1>3, BanksMake
<1>5. \A b \in Banks, q \in Register :
        new[b][q] = IF b = bank /\ q = k THEN c ELSE regs[b][q]
  BY <1>1, <1>2 DEF Banks
<1>6. QED
  BY <1>4, <1>5 DEF new

\* The types of the registers; a concrete register holds no symbol.
RegTyped ==
  /\ registers \in Registers(IntegerConstant, BooleanConstant)
  /\ concrete \in Registers(IntegerOperand, BooleanOperand)

Operand(bank) == IF bank = "integers" THEN IntegerConstant ELSE BooleanConstant
ConcreteOperand(bank) == IF bank = "integers" THEN IntegerOperand ELSE BooleanOperand

\* last has operands of the types of its instruction, and one of its results.
LastTyped ==
  last.op # "none" =>
    /\ last.op \in Instruction
    /\ last.lhs \in Operand(Source(last.op)) /\ last.rhs \in Operand(Source(last.op))
    /\ last.res \in Results(last.op, last.lhs, last.rhs)

\* The banks an instruction reads and assigns.
LEMMA Instructions ==
  ASSUME NEW op \in Instruction
  PROVE  /\ Source(op) \in Banks /\ Target(op) \in Banks
         /\ \/ op \in ArithmeticInstruction /\ Source(op) = "integers" /\ Target(op) = "integers"
            \/ op \in CompareInstruction /\ Source(op) = "integers" /\ Target(op) = "booleans"
            \/ op \in LogicalInstruction /\ Source(op) = "booleans" /\ Target(op) = "booleans"
         /\ op # "none"
  BY DEF Source, Target, Banks, ArithmeticInstruction, CompareInstruction, LogicalInstruction

LEMMA ReadFacts ==
  ASSUME RegTyped, NEW bank \in Banks, NEW k \in Register
  PROVE  registers[bank][k] \in Operand(bank) /\ concrete[bank][k] \in ConcreteOperand(bank)
<1>1. /\ registers["integers"] \in [Register -> IntegerConstant]
      /\ registers["booleans"] \in [Register -> BooleanConstant]
      /\ concrete["integers"] \in [Register -> IntegerOperand]
      /\ concrete["booleans"] \in [Register -> BooleanOperand]
  BY BankFacts DEF RegTyped
<1>2. QED
  BY <1>1 DEF Banks, Operand, ConcreteOperand

\* A result that is assigned has the type of the target, a concrete one is no symbol.
LEMMA ResultTypes ==
  ASSUME NEW op \in Instruction, NEW l \in Operand(Source(op)), NEW r \in Operand(Source(op)),
         NEW kl \in ConcreteOperand(Source(op)), NEW kr \in ConcreteOperand(Source(op)),
         NEW res \in Results(op, l, r), NEW cres \in Results(op, kl, kr),
         Target(op) = "integers" => {res, cres} \subseteq IntegerConstant \cup {Unchanged, Throws}
  PROVE  /\ res \in {Unchanged, Throws} \/ res \in Operand(Target(op))
         /\ cres \in {Unchanged, Throws} \/ cres \in ConcreteOperand(Target(op))
<1>1. CASE op \in ArithmeticInstruction /\ Source(op) = "integers" /\ Target(op) = "integers"
  <2>1. cres # Symbol /\ cres # Throws
    BY <1>1, ArithmeticResults DEF ConcreteOperand
  <2>2. QED
    BY <1>1, <2>1, IntegerOperands DEF Operand, ConcreteOperand
<1>2. CASE op \in CompareInstruction /\ Source(op) = "integers" /\ Target(op) = "booleans"
  <2>1. cres \in BooleanOperand
    BY <1>2, CompareResults DEF ConcreteOperand
  <2>2. res \in BooleanConstant \/ res = Throws
    BY <1>2, BooleanResults DEF Operand
  <2>3. QED
    BY <1>2, <2>1, <2>2 DEF Operand, ConcreteOperand
<1>3. CASE op \in LogicalInstruction /\ Source(op) = "booleans" /\ Target(op) = "booleans"
  <2>1. cres \in BooleanOperand
    BY <1>3, LogicalResults DEF ConcreteOperand
  <2>2. res \in BooleanConstant \/ res = Throws
    BY <1>3, BooleanResults DEF Operand
  <2>3. QED
    BY <1>3, <2>1, <2>2 DEF Operand, ConcreteOperand
<1>4. QED
  BY <1>1, <1>2, <1>3, Instructions

\* The registers after an outcome.
LEMMA AssignedOutcome ==
  ASSUME NEW A, NEW B, NEW regs \in Registers(A, B), NEW op \in Instruction, NEW k \in Register,
         NEW res, res \in {Unchanged, Throws} \/ res \in IF Target(op) = "integers" THEN A ELSE B
  PROVE  /\ Assigned(regs, op, k, res) \in Registers(A, B)
         /\ \A b \in Banks, q \in Register :
              Assigned(regs, op, k, res)[b][q] =
                IF res \notin {Unchanged, Throws} /\ b = Target(op) /\ q = k
                  THEN res ELSE regs[b][q]
<1>1. CASE res \in {Unchanged, Throws}
  BY <1>1 DEF Assigned
<1>2. CASE res \notin {Unchanged, Throws}
  <2> DEFINE bank == Target(op)
  <2>1. bank \in Banks
    BY Instructions
  <2>2. Assigned(regs, op, k, res) = [regs EXCEPT ![bank][k] = res]
    BY <1>2 DEF Assigned
  <2> HIDE DEF bank
  <2>3. res \in IF bank = "integers" THEN A ELSE B
    BY <1>2 DEF bank
  <2>4. /\ [regs EXCEPT ![bank][k] = res] \in Registers(A, B)
        /\ \A b \in Banks, q \in Register :
             [regs EXCEPT ![bank][k] = res][b][q] = IF b = bank /\ q = k THEN res ELSE regs[b][q]
    BY <2>1, <2>3, AssignedFacts
  <2>5. QED
    BY <1>2, <2>2, <2>4 DEF bank
<1>3. QED
  BY <1>1, <1>2

\* The parts of an execute(), by name.
Executed(op, i, j, k, res, cres) ==
  LET from == Source(op)
      l == registers[from][i]
      r == registers[from][j]
  IN
    /\ op \in ValuesOnly => ~AnySymbol(l, r)
    /\ res \in Results(op, l, r)
    /\ cres \in Results(op, concrete[from][i], concrete[from][j])
    /\ Target(op) = "integers" => {res, cres} \subseteq IntegerConstant \cup {Unchanged, Throws}
    /\ registers' = Assigned(registers, op, k, res)
    /\ concrete' = IF res = Throws THEN concrete ELSE Assigned(concrete, op, k, cres)
    /\ last' = [op |-> op, lhs |-> l, rhs |-> r, res |-> res]

\* Every execute() keeps the types.
LEMMA ExecutedTyped ==
  ASSUME RegTyped, NEW op \in Instruction, NEW i \in Register, NEW j \in Register,
         NEW k \in Register, NEW res, NEW cres, Executed(op, i, j, k, res, cres)
  PROVE  /\ RegTyped' /\ LastTyped'
         /\ res \in {Unchanged, Throws} \/ res \in Operand(Target(op))
         /\ cres \in {Unchanged, Throws} \/ cres \in ConcreteOperand(Target(op))
<1> DEFINE l == registers[Source(op)][i]
           r == registers[Source(op)][j]
           kl == concrete[Source(op)][i]
           kr == concrete[Source(op)][j]
<1>1. /\ l \in Operand(Source(op)) /\ r \in Operand(Source(op))
      /\ kl \in ConcreteOperand(Source(op)) /\ kr \in ConcreteOperand(Source(op))
  BY Instructions, ReadFacts
<1>2. /\ res \in Results(op, l, r) /\ cres \in Results(op, kl, kr)
      /\ Target(op) = "integers" => {res, cres} \subseteq IntegerConstant \cup {Unchanged, Throws}
      /\ registers' = Assigned(registers, op, k, res)
      /\ concrete' = concrete \/ concrete' = Assigned(concrete, op, k, cres)
      /\ last' = [op |-> op, lhs |-> l, rhs |-> r, res |-> res]
  BY DEF Executed
<1> HIDE DEF l, r, kl, kr
<1>3. /\ res \in {Unchanged, Throws} \/ res \in Operand(Target(op))
      /\ cres \in {Unchanged, Throws} \/ cres \in ConcreteOperand(Target(op))
  BY <1>1, <1>2, ResultTypes
<1>4. RegTyped'
  <2>1. Assigned(registers, op, k, res) \in Registers(IntegerConstant, BooleanConstant)
    BY <1>3, AssignedOutcome DEF RegTyped, Operand
  <2>2. Assigned(concrete, op, k, cres) \in Registers(IntegerOperand, BooleanOperand)
    BY <1>3, AssignedOutcome DEF RegTyped, ConcreteOperand
  <2>3. QED
    BY <1>2, <2>1, <2>2 DEF RegTyped
<1>5. LastTyped'
  BY <1>1, <1>2 DEF LastTyped
<1>6. QED
  BY <1>3, <1>4, <1>5

-----------------------------------------------------------------------------
(* The symbolic execution is sound *)

\* Clients do not execute the other instructions on symbols.
Handled == Instruction \cap {"div", "mod", "pow", "not"} \subseteq ValuesOnly

\* The property, by registers.
LEMMA SoundAsStands ==
  SymbolicExecutionSound <=>
    \A bank \in Banks, k \in Register : Stands(registers[bank][k], concrete[bank][k])
  BY DEF SymbolicExecutionSound, Stands, Banks

LEMMA SoundAsStandsNext ==
  SymbolicExecutionSound' <=>
    \A bank \in Banks, k \in Register : Stands(registers'[bank][k], concrete'[bank][k])
  BY DEF SymbolicExecutionSound, Stands, Banks

\* A result follows the concrete one of the operands that the operands stand for.
LEMMA ResultsFollow ==
  ASSUME Handled, NEW op \in Instruction,
         NEW l \in Operand(Source(op)), NEW r \in Operand(Source(op)),
         NEW kl \in ConcreteOperand(Source(op)), NEW kr \in ConcreteOperand(Source(op)),
         Stands(l, kl), Stands(r, kr), op \in ValuesOnly => ~AnySymbol(l, r),
         NEW res \in Results(op, l, r), NEW cres \in Results(op, kl, kr)
  PROVE  Follows(res, cres)
<1>1. kl # Symbol /\ kr # Symbol
  BY IntegerOperands, BooleanOperands DEF ConcreteOperand
<1>2. CASE AnySymbol(l, r)
  <2>1. op \in {"inv"} \cup Arithmetical \cup Equality \cup Connecting
    BY <1>2 DEF Handled, ArithmeticInstruction, CompareInstruction, LogicalInstruction,
                Arithmetical, Equality, Connecting
  <2>2. QED
    BY <1>1, <1>2, <2>1, HandlingFollows
<1>3. CASE ~AnySymbol(l, r)
  <2>1. l = kl /\ r = kr
    BY <1>3 DEF Stands, AnySymbol
  <2>2. CASE op \in ArithmeticInstruction /\ Source(op) = "integers"
    <3>1. res = cres /\ res # Symbol
      BY <2>1, <2>2, ArithmeticResults DEF ConcreteOperand
    <3>2. QED
      BY <3>1, SameFollows
  <2>3. CASE op \in CompareInstruction /\ Source(op) = "integers"
    <3>1. res = cres /\ res # Symbol
      BY <2>1, <2>3, CompareResults, BooleanOperands DEF ConcreteOperand
    <3>2. QED
      BY <3>1, SameFollows
  <2>4. CASE op \in LogicalInstruction /\ Source(op) = "booleans"
    <3>1. res = cres /\ res # Symbol
      BY <2>1, <2>4, LogicalResults, BooleanOperands DEF ConcreteOperand
    <3>2. QED
      BY <3>1, SameFollows
  <2>5. QED
    BY <2>2, <2>3, <2>4, Instructions
<1>4. QED
  BY <1>2, <1>3

\* So every execute() keeps the registers standing for the concrete ones.
LEMMA ExecutedSound ==
  ASSUME Handled, RegTyped, SymbolicExecutionSound,
         NEW op \in Instruction, NEW i \in Register, NEW j \in Register,
         NEW k \in Register, NEW res, NEW cres, Executed(op, i, j, k, res, cres)
  PROVE  SymbolicExecutionSound'
<1> DEFINE l == registers[Source(op)][i]
           r == registers[Source(op)][j]
           kl == concrete[Source(op)][i]
           kr == concrete[Source(op)][j]
<1>1. /\ l \in Operand(Source(op)) /\ r \in Operand(Source(op))
      /\ kl \in ConcreteOperand(Source(op)) /\ kr \in ConcreteOperand(Source(op))
      /\ Stands(l, kl) /\ Stands(r, kr)
  BY Instructions, ReadFacts, SoundAsStands
<1>2. /\ op \in ValuesOnly => ~AnySymbol(l, r)
      /\ res \in Results(op, l, r) /\ cres \in Results(op, kl, kr)
      /\ registers' = Assigned(registers, op, k, res)
      /\ concrete' = IF res = Throws THEN concrete ELSE Assigned(concrete, op, k, cres)
  BY DEF Executed
<1> HIDE DEF l, r, kl, kr
<1>3. Follows(res, cres)
  BY <1>1, <1>2, ResultsFollow
<1>4. \A b \in Banks, q \in Register :
        registers'[b][q] = IF res \notin {Unchanged, Throws} /\ b = Target(op) /\ q = k
                             THEN res ELSE registers[b][q]
  <2>1. res \in {Unchanged, Throws} \/ res \in Operand(Target(op))
    BY ExecutedTyped
  <2>2. QED
    BY <1>2, <2>1, AssignedOutcome DEF RegTyped, Operand
<1>5. \A b \in Banks, q \in Register :
        Assigned(concrete, op, k, cres)[b][q] =
          IF cres \notin {Unchanged, Throws} /\ b = Target(op) /\ q = k
            THEN cres ELSE concrete[b][q]
  <2>1. cres \in {Unchanged, Throws} \/ cres \in ConcreteOperand(Target(op))
    BY ExecutedTyped
  <2>2. QED
    BY <2>1, AssignedOutcome DEF RegTyped, ConcreteOperand
<1>6. ASSUME NEW b \in Banks, NEW q \in Register
      PROVE  Stands(registers'[b][q], concrete'[b][q])
  <2>1. Stands(registers[b][q], concrete[b][q])
    BY SoundAsStands
  <2>2. CASE res = Throws
    BY <1>2, <1>4, <2>1, <2>2
  <2>3. CASE res = Unchanged /\ cres = Unchanged
    BY <1>2, <1>4, <1>5, <2>1, <2>3, Distinctions
  <2>4. CASE res \notin {Unchanged, Throws} /\ cres \notin {Unchanged, Throws} /\ Stands(res, cres)
    BY <1>2, <1>4, <1>5, <2>1, <2>4
  <2>5. QED
    BY <1>3, <2>2, <2>3, <2>4 DEF Follows
<1>7. QED
  BY <1>6, SoundAsStandsNext

-----------------------------------------------------------------------------
(* The connectives are those of Kleene's logic *)

True == Literal(TRUE)
False == Literal(FALSE)

LEMMA Truths ==
  /\ Truth(Undef) = 1 /\ Truth(True) = 2 /\ Truth(False) = 0
  /\ True.of = TRUE /\ False.of = FALSE
  /\ True # False /\ True # Undef /\ False # Undef
  /\ \A c \in BooleanOperand : c = Undef \/ c = True \/ c = False
<1>1. True.of = TRUE /\ False.of = FALSE
  BY DEF Literal, True, False
<1>2. True # Undef /\ False # Undef
  BY Distinctions DEF True, False
<1>3. Truth(Undef) = 1 /\ Truth(True) = 2 /\ Truth(False) = 0
  BY <1>1, <1>2 DEF Truth
<1>4. \A c \in BooleanOperand : c = Undef \/ c = True \/ c = False
  BY DEF BooleanOperand, BooleanValue, True, False
<1>5. QED
  BY <1>1, <1>2, <1>3, <1>4

\* The operands, by their truth values.
LEMMA TruthCases ==
  ASSUME NEW l \in BooleanOperand, NEW r \in BooleanOperand
  PROVE  /\ l \in {Undef, True, False} /\ r \in {Undef, True, False}
         /\ ~AnySymbol(l, r)
  BY Truths, BooleanOperands DEF AnySymbol

LEMMA AndIsKleene ==
  ASSUME NEW l \in BooleanOperand, NEW r \in BooleanOperand, NEW res \in And(l, r)
  PROVE  Truth(res) = Least(Truth(l), Truth(r))
<1>1. CASE AnyUndef(l, r)
  <2>1. res = IF False \in {l, r} THEN False ELSE Undef
    BY <1>1, TruthCases DEF And, Connective, True, False
  <2>2. QED
    BY <1>1, <2>1, TruthCases, Truths DEF AnyUndef, Least
<1>2. CASE ~AnyUndef(l, r)
  <2>1. res = Literal(l.of /\ r.of)
    BY <1>2, TruthCases DEF And, Connective
  <2>2. CASE l = True /\ r = True
    <3>1. (l.of /\ r.of) = TRUE
      BY <2>2, Truths
    <3>2. res = True
      BY <2>1, <3>1 DEF True
    <3>3. QED
      BY <2>2, <3>2, Truths DEF Least
  <2>3. CASE l = True /\ r = False
    <3>1. (l.of /\ r.of) = FALSE
      BY <2>3, Truths
    <3>2. res = False
      BY <2>1, <3>1 DEF False
    <3>3. QED
      BY <2>3, <3>2, Truths DEF Least
  <2>4. CASE l = False /\ r = True
    <3>1. (l.of /\ r.of) = FALSE
      BY <2>4, Truths
    <3>2. res = False
      BY <2>1, <3>1 DEF False
    <3>3. QED
      BY <2>4, <3>2, Truths DEF Least
  <2>5. CASE l = False /\ r = False
    <3>1. (l.of /\ r.of) = FALSE
      BY <2>5, Truths
    <3>2. res = False
      BY <2>1, <3>1 DEF False
    <3>3. QED
      BY <2>5, <3>2, Truths DEF Least
  <2>6. QED
    BY <1>2, <2>2, <2>3, <2>4, <2>5, TruthCases DEF AnyUndef
<1>3. QED
  BY <1>1, <1>2

LEMMA OrIsKleene ==
  ASSUME NEW l \in BooleanOperand, NEW r \in BooleanOperand, NEW res \in Or(l, r)
  PROVE  Truth(res) = Greatest(Truth(l), Truth(r))
<1>1. CASE AnyUndef(l, r)
  <2>1. res = IF True \in {l, r} THEN True ELSE Undef
    BY <1>1, TruthCases DEF Or, Connective, True, False
  <2>2. QED
    BY <1>1, <2>1, TruthCases, Truths DEF AnyUndef, Greatest
<1>2. CASE ~AnyUndef(l, r)
  <2>1. res = Literal(l.of \/ r.of)
    BY <1>2, TruthCases DEF Or, Connective
  <2>2. CASE l = True /\ r = True
    <3>1. (l.of \/ r.of) = TRUE
      BY <2>2, Truths
    <3>2. res = True
      BY <2>1, <3>1 DEF True
    <3>3. QED
      BY <2>2, <3>2, Truths DEF Greatest
  <2>3. CASE l = True /\ r = False
    <3>1. (l.of \/ r.of) = TRUE
      BY <2>3, Truths
    <3>2. res = True
      BY <2>1, <3>1 DEF True
    <3>3. QED
      BY <2>3, <3>2, Truths DEF Greatest
  <2>4. CASE l = False /\ r = True
    <3>1. (l.of \/ r.of) = TRUE
      BY <2>4, Truths
    <3>2. res = True
      BY <2>1, <3>1 DEF True
    <3>3. QED
      BY <2>4, <3>2, Truths DEF Greatest
  <2>5. CASE l = False /\ r = False
    <3>1. (l.of \/ r.of) = FALSE
      BY <2>5, Truths
    <3>2. res = False
      BY <2>1, <3>1 DEF False
    <3>3. QED
      BY <2>5, <3>2, Truths DEF Greatest
  <2>6. QED
    BY <1>2, <2>2, <2>3, <2>4, <2>5, TruthCases DEF AnyUndef
<1>3. QED
  BY <1>1, <1>2

LEMMA ImpIsKleene ==
  ASSUME NEW l \in BooleanOperand, NEW r \in BooleanOperand, NEW res \in Imp(l, r)
  PROVE  Truth(res) = Greatest(2 - Truth(l), Truth(r))
<1>1. CASE AnyUndef(l, r)
  <2>1. res = IF l = False \/ r = True THEN True ELSE Undef
    BY <1>1, TruthCases DEF Imp, Connective, True, False
  <2>2. QED
    BY <1>1, <2>1, TruthCases, Truths DEF AnyUndef, Greatest
<1>2. CASE ~AnyUndef(l, r)
  <2>1. res = Literal(l.of => r.of)
    BY <1>2, TruthCases DEF Imp, Connective
  <2>2. CASE l = True /\ r = True
    <3>1. (l.of => r.of) = TRUE
      BY <2>2, Truths
    <3>2. res = True
      BY <2>1, <3>1 DEF True
    <3>3. QED
      BY <2>2, <3>2, Truths DEF Greatest
  <2>3. CASE l = True /\ r = False
    <3>1. (l.of => r.of) = FALSE
      BY <2>3, Truths
    <3>2. res = False
      BY <2>1, <3>1 DEF False
    <3>3. QED
      BY <2>3, <3>2, Truths DEF Greatest
  <2>4. CASE l = False /\ r = True
    <3>1. (l.of => r.of) = TRUE
      BY <2>4, Truths
    <3>2. res = True
      BY <2>1, <3>1 DEF True
    <3>3. QED
      BY <2>4, <3>2, Truths DEF Greatest
  <2>5. CASE l = False /\ r = False
    <3>1. (l.of => r.of) = TRUE
      BY <2>5, Truths
    <3>2. res = True
      BY <2>1, <3>1 DEF True
    <3>3. QED
      BY <2>5, <3>2, Truths DEF Greatest
  <2>6. QED
    BY <1>2, <2>2, <2>3, <2>4, <2>5, TruthCases DEF AnyUndef
<1>3. QED
  BY <1>1, <1>2

LEMMA XorIsKleene ==
  ASSUME NEW l \in BooleanOperand, NEW r \in BooleanOperand, NEW res \in Xor(l, r)
  PROVE  Truth(res) = Greatest(Least(Truth(l), 2 - Truth(r)), Least(2 - Truth(l), Truth(r)))
<1>1. CASE AnyUndef(l, r)
  <2>1. res = Undef
    BY <1>1, TruthCases DEF Xor, Connective, True, False
  <2>2. QED
    BY <1>1, <2>1, TruthCases, Truths DEF AnyUndef, Least, Greatest
<1>2. CASE ~AnyUndef(l, r)
  <2>1. res = Literal(l.of # r.of)
    BY <1>2, TruthCases DEF Xor, Connective
  <2>2. CASE l = True /\ r = True
    <3>1. (l.of # r.of) = FALSE
      BY <2>2, Truths
    <3>2. res = False
      BY <2>1, <3>1 DEF False
    <3>3. QED
      BY <2>2, <3>2, Truths DEF Least, Greatest
  <2>3. CASE l = True /\ r = False
    <3>1. (l.of # r.of) = TRUE
      BY <2>3, Truths
    <3>2. res = True
      BY <2>1, <3>1 DEF True
    <3>3. QED
      BY <2>3, <3>2, Truths DEF Least, Greatest
  <2>4. CASE l = False /\ r = True
    <3>1. (l.of # r.of) = TRUE
      BY <2>4, Truths
    <3>2. res = True
      BY <2>1, <3>1 DEF True
    <3>3. QED
      BY <2>4, <3>2, Truths DEF Least, Greatest
  <2>5. CASE l = False /\ r = False
    <3>1. (l.of # r.of) = FALSE
      BY <2>5, Truths
    <3>2. res = False
      BY <2>1, <3>1 DEF False
    <3>3. QED
      BY <2>5, <3>2, Truths DEF Least, Greatest
  <2>6. QED
    BY <1>2, <2>2, <2>3, <2>4, <2>5, TruthCases DEF AnyUndef
<1>3. QED
  BY <1>1, <1>2

\* Either operand may be undefined; if none is, they are integers.
LEMMA ComparedOperands ==
  ASSUME NEW l \in IntegerOperand, NEW r \in IntegerOperand
  PROVE  /\ ~AnySymbol(l, r)
         /\ ~AnyUndef(l, r) => l.of \in Int /\ r.of \in Int
         /\ l = Undef \/ r = Undef <=> AnyUndef(l, r)
  BY IntegerOperands DEF AnySymbol, AnyUndef

LEMMA LiteralLogic ==
  /\ \A v \in BOOLEAN : Literal(~v) \in Not(Literal(v))
  /\ \A v, w \in BOOLEAN : Literal(v \/ w) \in Or(Literal(v), Literal(w))
<1>1. ASSUME NEW v \in BOOLEAN
      PROVE  Literal(~v) \in Not(Literal(v))
  BY Distinctions DEF Not
<1>2. ASSUME NEW v \in BOOLEAN, NEW w \in BOOLEAN
      PROVE  Literal(v \/ w) \in Or(Literal(v), Literal(w))
  <2>1. ~AnySymbol(Literal(v), Literal(w)) /\ ~AnyUndef(Literal(v), Literal(w))
    BY Distinctions DEF AnySymbol, AnyUndef
  <2>2. Literal(v).of = v /\ Literal(w).of = w
    BY Distinctions
  <2>3. QED
    BY <2>1, <2>2 DEF Or, Connective
<1>3. QED
  BY <1>1, <1>2

LEMMA EqualityAgrees ==
  ASSUME NEW l \in IntegerOperand, NEW r \in IntegerOperand
  PROVE  /\ \A res \in Equ(l, r) : \E a \in Neq(l, r) : res \in Not(a)
         /\ \A res \in Neq(l, r) : \E a \in Equ(l, r) : res \in Not(a)
<1>1. PICK v \in BOOLEAN : Equ(l, r) = { Literal(v) } /\ Neq(l, r) = { Literal(~v) }
  <2>1. CASE AnyUndef(l, r)
    <3>1. Equ(l, r) = { Literal(l = r) } /\ Neq(l, r) = { Literal(~(l = r)) }
      BY <2>1, ComparedOperands DEF Equ, Neq
    <3>2. QED
      BY <3>1
  <2>2. CASE ~AnyUndef(l, r)
    <3>1. Equ(l, r) = { Literal(l.of = r.of) } /\ Neq(l, r) = { Literal(~(l.of = r.of)) }
      BY <2>2, ComparedOperands DEF Equ, Neq
    <3>2. QED
      BY <3>1
  <2>3. QED
    BY <2>1, <2>2
<1>2. Literal(v) \in Not(Literal(~v)) /\ Literal(~v) \in Not(Literal(v))
  <2>1. CASE v = TRUE
    BY <2>1, LiteralLogic
  <2>2. CASE v = FALSE
    BY <2>2, LiteralLogic
  <2>3. QED
    BY <2>1, <2>2
<1>3. QED
  BY <1>1, <1>2

LEMMA OrderAgrees ==
  ASSUME NEW l \in IntegerOperand, NEW r \in IntegerOperand
  PROVE  Lth(l, r) = Gth(r, l)
<1>1. (AnyUndef(l, r) <=> AnyUndef(r, l)) /\ ~AnySymbol(l, r) /\ ~AnySymbol(r, l)
  BY ComparedOperands DEF AnyUndef
<1>2. CASE AnyUndef(l, r)
  BY <1>1, <1>2 DEF Lth, Gth, Arithmetic
<1>3. CASE ~AnyUndef(l, r)
  <2>1. (l.of < r.of) = (r.of > l.of)
    BY <1>3, ComparedOperands
  <2>2. Lth(l, r) = { Literal(l.of < r.of) }
    BY <1>1, <1>3 DEF Lth, Arithmetic
  <2>3. Gth(r, l) = { Literal(r.of > l.of) }
    BY <1>1, <1>3 DEF Gth, Arithmetic
  <2>4. QED
    BY <2>1, <2>2, <2>3
<1>4. QED
  BY <1>2, <1>3

\* Undefined operands of Or.
LEMMA UndefOr ==
  Literal(TRUE) \in Or(Undef, Literal(TRUE)) /\ Undef \in Or(Undef, Literal(FALSE))
<1>1. /\ True # False /\ True # Undef /\ False # Undef /\ True # Symbol /\ False # Symbol
      /\ Undef # Symbol
  BY Truths, Distinctions DEF True, False
<1>2. True \in Or(Undef, True) /\ Undef \in Or(Undef, False)
  BY <1>1 DEF Or, Connective, AnySymbol, AnyUndef, True, False
<1>3. QED
  BY <1>2 DEF True, False

LEMMA OrEqualAgrees ==
  ASSUME NEW l \in IntegerOperand, NEW r \in IntegerOperand
  PROVE  /\ \A res \in Leq(l, r) : \E a \in Lth(l, r), b \in Equ(l, r) : res \in Or(a, b)
         /\ \A res \in Geq(l, r) : \E a \in Gth(l, r), b \in Equ(l, r) : res \in Or(a, b)
<1>0. ~AnySymbol(l, r)
  BY ComparedOperands
<1>1. CASE AnyUndef(l, r)
  <2>1. /\ Lth(l, r) = {Undef} /\ Gth(l, r) = {Undef} /\ Equ(l, r) = { Literal(l = r) }
        /\ Leq(l, r) = IF l = r THEN { Literal(TRUE) } ELSE {Undef}
        /\ Geq(l, r) = IF l = r THEN { Literal(TRUE) } ELSE {Undef}
    <3>1. l = r <=> l = Undef /\ r = Undef
      BY <1>1 DEF AnyUndef
    <3>2. QED
      BY <1>0, <1>1, <3>1 DEF Lth, Gth, Leq, Geq, Equ, Arithmetic
  <2>2. CASE l = r
    <3>1. (l = r) = TRUE
      BY <2>2
    <3>2. Literal(TRUE) \in Equ(l, r)
      BY <2>1, <3>1
    <3>3. \A res \in Leq(l, r) \cup Geq(l, r) : res = Literal(TRUE)
      BY <2>1, <2>2
    <3>4. Undef \in Lth(l, r) /\ Undef \in Gth(l, r)
      BY <2>1
    <3>5. QED
      BY <3>2, <3>3, <3>4, UndefOr
  <2>3. CASE l # r
    <3>1. (l = r) = FALSE
      BY <2>3
    <3>2. Literal(FALSE) \in Equ(l, r)
      BY <2>1, <3>1
    <3>3. \A res \in Leq(l, r) \cup Geq(l, r) : res = Undef
      BY <2>1, <2>3
    <3>4. Undef \in Lth(l, r) /\ Undef \in Gth(l, r)
      BY <2>1
    <3>5. QED
      BY <3>2, <3>3, <3>4, UndefOr
  <2>4. QED
    BY <2>2, <2>3
<1>2. CASE ~AnyUndef(l, r)
  <2> DEFINE lt == l.of < r.of
             gt == l.of > r.of
             eq == l.of = r.of
             le == l.of <= r.of
             ge == l.of >= r.of
  <2>1. /\ lt \in BOOLEAN /\ gt \in BOOLEAN /\ eq \in BOOLEAN
        /\ le = (lt \/ eq) /\ ge = (gt \/ eq)
    BY <1>2, ComparedOperands
  <2>2. /\ Lth(l, r) = { Literal(lt) } /\ Gth(l, r) = { Literal(gt) }
        /\ Leq(l, r) = { Literal(le) } /\ Geq(l, r) = { Literal(ge) }
        /\ Equ(l, r) = { Literal(eq) }
    <3>1. ~(l = Undef /\ r = Undef)
      BY <1>2 DEF AnyUndef
    <3>2. QED
      BY <1>0, <1>2, <3>1 DEF Lth, Gth, Leq, Geq, Equ, Arithmetic
  <2> HIDE DEF lt, gt, eq, le, ge
  <2>3. Leq(l, r) = { Literal(lt \/ eq) } /\ Geq(l, r) = { Literal(gt \/ eq) }
    BY <2>1, <2>2
  <2>4. Literal(lt \/ eq) \in Or(Literal(lt), Literal(eq))
        /\ Literal(gt \/ eq) \in Or(Literal(gt), Literal(eq))
    BY <2>1, LiteralLogic
  <2>5. QED
    BY <2>2, <2>3, <2>4
<1>3. QED
  BY <1>1, <1>2

-----------------------------------------------------------------------------
(* The invariants of the specification *)

\* What the last execute() says of its operands is what the properties say.
LEMMA LastIsKleene ==
  ASSUME LastTyped
  PROVE  LogicIsKleene
<1>1. SUFFICES ASSUME last.op \in {"and", "or", "imp", "xor"}, ~AnySymbol(last.lhs, last.rhs)
               PROVE  Truth(last.res) = Kleene(last.op, Truth(last.lhs), Truth(last.rhs))
  BY DEF LogicIsKleene
<1> DEFINE l == last.lhs
           r == last.rhs
           res == last.res
<1>2. l \in BooleanOperand /\ r \in BooleanOperand /\ res \in Results(last.op, l, r)
  <2>1. l \in BooleanConstant /\ r \in BooleanConstant /\ res \in Results(last.op, l, r)
    BY <1>1 DEF LastTyped, Source, LogicalInstruction, Operand
  <2>2. QED
    BY <1>1, <2>1, BooleanOperands DEF AnySymbol
<1> HIDE DEF l, r, res
<1>3. CASE last.op = "and"
  <2>1. Truth(res) = Least(Truth(l), Truth(r))
    BY <1>2, <1>3, ResultsCases, AndIsKleene
  <2>2. QED
    BY <1>3, <2>1 DEF Kleene, l, r, res
<1>4. CASE last.op = "or"
  <2>1. Truth(res) = Greatest(Truth(l), Truth(r))
    BY <1>2, <1>4, ResultsCases, OrIsKleene
  <2>2. QED
    BY <1>4, <2>1 DEF Kleene, l, r, res
<1>5. CASE last.op = "imp"
  <2>1. Truth(res) = Greatest(2 - Truth(l), Truth(r))
    BY <1>2, <1>5, ResultsCases, ImpIsKleene
  <2>2. QED
    BY <1>5, <2>1 DEF Kleene, l, r, res
<1>6. CASE last.op = "xor"
  <2>1. Truth(res) = Greatest(Least(Truth(l), 2 - Truth(r)), Least(2 - Truth(l), Truth(r)))
    BY <1>2, <1>6, ResultsCases, XorIsKleene
  <2>2. QED
    BY <1>6, <2>1 DEF Kleene, l, r, res
<1>7. QED
  BY <1>1, <1>3, <1>4, <1>5, <1>6

LEMMA LastAgrees ==
  ASSUME LastTyped
  PROVE  ComparisonsAgree
<1>1. ASSUME last.op \in CompareInstruction, ~AnySymbol(last.lhs, last.rhs)
      PROVE  /\ last.lhs \in IntegerOperand /\ last.rhs \in IntegerOperand
             /\ last.res \in Results(last.op, last.lhs, last.rhs)
  <2>1. /\ last.lhs \in IntegerConstant /\ last.rhs \in IntegerConstant
        /\ last.res \in Results(last.op, last.lhs, last.rhs)
    BY <1>1 DEF LastTyped, Source, CompareInstruction, LogicalInstruction, Operand
  <2>2. QED
    BY <1>1, <2>1, IntegerOperands DEF AnySymbol
<1>2. \A l, r \in IntegerOperand : \A res \in Results(last.op, l, r) :
        /\ last.op = "equ" => \E a \in Neq(l, r) : res \in Not(a)
        /\ last.op = "neq" => \E a \in Equ(l, r) : res \in Not(a)
  BY ResultsCases, EqualityAgrees
<1>3. \A l, r \in IntegerOperand : \A res \in Results(last.op, l, r) :
        /\ last.op = "lth" => res \in Gth(r, l)
        /\ last.op = "gth" => res \in Lth(r, l)
  BY ResultsCases, OrderAgrees
<1>4. \A l, r \in IntegerOperand : \A res \in Results(last.op, l, r) :
        /\ last.op = "leq" => \E a \in Lth(l, r), b \in Equ(l, r) : res \in Or(a, b)
        /\ last.op = "geq" => \E a \in Gth(l, r), b \in Equ(l, r) : res \in Or(a, b)
  BY ResultsCases, OrEqualAgrees
<1>5. QED
  BY <1>1, <1>2, <1>3, <1>4 DEF ComparisonsAgree, CompareInstruction

LEMMA RegInvariantInit ==
  ASSUME RegInit
  PROVE  RegTyped /\ LastTyped /\ SymbolicExecutionSound
<1>1. RegTyped
  BY DEF RegInit, RegTyped, Registers, IntegerOperand, BooleanOperand
<1>2. LastTyped
  BY DEF RegInit, LastTyped
<1>3. \A bank \in Banks, k \in Register : registers[bank][k] \in Start(concrete[bank][k])
  BY DEF RegInit, Banks
<1>4. ASSUME NEW bank \in Banks, NEW k \in Register
      PROVE  Stands(registers[bank][k], concrete[bank][k])
  <2>1. concrete[bank][k] # Symbol
    BY <1>1, ReadFacts, IntegerOperands, BooleanOperands DEF ConcreteOperand
  <2>2. QED
    BY <1>3, <2>1 DEF Start, Stands
<1>5. QED
  BY <1>1, <1>2, <1>4, SoundAsStands

LEMMA RegInvariantNext ==
  ASSUME RegTyped, LastTyped, [RegNext]_regVars
  PROVE  /\ RegTyped' /\ LastTyped'
         /\ Handled /\ SymbolicExecutionSound => SymbolicExecutionSound'
<1>1. ASSUME NEW op \in Instruction, NEW i \in Register, NEW j \in Register, NEW k \in Register,
             Execute(op, i, j, k)
      PROVE  /\ RegTyped' /\ LastTyped'
             /\ Handled /\ SymbolicExecutionSound => SymbolicExecutionSound'
  <2>1. PICK res, cres : Executed(op, i, j, k, res, cres)
    BY <1>1 DEF Execute, Executed
  <2>2. QED
    BY <2>1, ExecutedTyped, ExecutedSound
<1>2. CASE UNCHANGED regVars
  BY <1>2 DEF regVars, RegTyped, LastTyped, SymbolicExecutionSound
<1>3. QED
  BY <1>1, <1>2 DEF RegNext

\* However long a sequence of instructions is, a register that is no symbol has the value
\* of the concrete execution, and a symbol stands for a defined one, if clients do
\* not execute the four instructions of Handled on symbols.
THEOREM SymbolicExecutionIsSound ==
  ASSUME Handled
  PROVE  RegSpec => []SymbolicExecutionSound
<1>1. RegInit => RegTyped /\ LastTyped /\ SymbolicExecutionSound
  BY RegInvariantInit
<1>2. RegTyped /\ LastTyped /\ SymbolicExecutionSound /\ [RegNext]_regVars =>
        (RegTyped /\ LastTyped /\ SymbolicExecutionSound)'
  BY RegInvariantNext
<1>3. QED
  BY <1>1, <1>2, PTL DEF RegSpec

LEMMA RegInvariant == RegSpec => [](RegTyped /\ LastTyped)
<1>1. RegInit => RegTyped /\ LastTyped
  BY RegInvariantInit
<1>2. RegTyped /\ LastTyped /\ [RegNext]_regVars => (RegTyped /\ LastTyped)'
  BY RegInvariantNext
<1>3. QED
  BY <1>1, <1>2, PTL DEF RegSpec

\* The connectives of AndInstruction, OrInstruction, XorInstruction and ImpInstruction
\* are those of Kleene's logic on operands that are no symbols.
THEOREM ConnectivesAreKleene == RegSpec => []LogicIsKleene
<1>1. RegTyped /\ LastTyped => LogicIsKleene
  BY LastIsKleene
<1>2. QED
  BY <1>1, RegInvariant, PTL

\* The six comparisons agree with each other, also on undefined operands, for integers
\* of any size.
THEOREM ComparisonsAlwaysAgree == RegSpec => []ComparisonsAgree
<1>1. RegTyped /\ LastTyped => ComparisonsAgree
  BY LastAgrees
<1>2. QED
  BY <1>1, RegInvariant, PTL
=============================================================================
