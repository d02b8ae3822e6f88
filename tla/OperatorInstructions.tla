------------------------ MODULE OperatorInstructions ------------------------
(***************************************************************************)
(* The operator instructions of Instruction.cpp on integers and Booleans:  *)
(* what execute() makes of operands that are undefined, symbolic or values,*)
(* and what a sequence of them makes of registers.  Next to the registers  *)
(* the same instructions run on concrete ones, which hold a value wherever *)
(* the former hold a symbol at the start.                                  *)
(*                                                                         *)
(* Abstractions.  Symbols are all alike: SymbolicExecutionEnvironment has  *)
(* what the environment records of them.  The arbitrary precision integers *)
(* are external; they divide towards zero.  The binary, decimal, rational  *)
(* and string cases of execute() are left out.                             *)
(***************************************************************************)
EXTENDS Integers, FiniteSets

CONSTANTS
  Register,   \* the registers of each of the two types
  Instruction, \* the instructions that are executed
  ValuesOnly, \* those of them that clients execute on operands that are no symbols
  Symbolic,   \* TRUE: registers may hold a symbol at the start
  MaxInteger  \* bound: no instruction is executed that calculates beyond it

ASSUME SymbolicAssumption == Symbolic \in BOOLEAN
ASSUME MaxIntegerAssumption == MaxInteger \in Nat

VARIABLES
  registers, \* the registers, by type: "integers" and "booleans"
  concrete,  \* the registers of the concrete execution
  last       \* the last execute(): its instruction, operands and outcome

regVars == << registers, concrete, last >>

\* Constants, and what may happen to the result argument besides.
Undef == [is |-> "undef"]
Symbol == [is |-> "symbol"]
Literal(v) == [is |-> "value", of |-> v]
Throws == [is |-> "throws"]       \* InternalException
Unchanged == [is |-> "unchanged"] \* the result argument is not assigned

Range == -MaxInteger .. MaxInteger
IntegerValue == { Literal(v) : v \in Range }
BooleanValue == { Literal(v) : v \in BOOLEAN }
IntegerConstant == IntegerValue \cup {Undef, Symbol}
BooleanConstant == BooleanValue \cup {Undef, Symbol}

AnySymbol(l, r) == l = Symbol \/ r = Symbol
AnyUndef(l, r) == l = Undef \/ r = Undef

-----------------------------------------------------------------------------
(* Arithmetic: the first operand that is undefined, or symbolic, decides. *)

\* Mutant of Arithmetic: symbols are handled before undefined operands.
ArithmeticSymbolFirst(l, r, results) ==
  IF AnySymbol(l, r) THEN {Symbol} ELSE IF AnyUndef(l, r) THEN {Undef} ELSE results

Arithmetic(l, r, results) ==
  IF AnyUndef(l, r) THEN {Undef} ELSE IF AnySymbol(l, r) THEN {Symbol} ELSE results

Add(l, r) == Arithmetic(l, r, { Literal(l.of + r.of) })
Sub(l, r) == Arithmetic(l, r, { Literal(l.of - r.of) })
Mul(l, r) == Arithmetic(l, r, { Literal(l.of * r.of) })

Magnitude(a) == IF a < 0 THEN -a ELSE a
Quotient(a, b) ==
  LET q == Magnitude(a) \div Magnitude(b) IN IF (a < 0) = (b < 0) THEN q ELSE -q
Remainder(a, b) == a - b * Quotient(a, b)

Div(l, r) ==
  Arithmetic(l, r, { IF r.of = 0 THEN Undef ELSE Literal(Quotient(l.of, r.of)) })
Mod(l, r) ==
  Arithmetic(l, r, { IF r.of = 0 THEN Undef ELSE Literal(Remainder(l.of, r.of)) })

\* No case for symbols: the layout of a symbol is read as an integer.  The
\* results for a negative exponent are made, but not assigned.
Pow(l, r) ==
  IF l = Undef THEN {Undef}
  ELSE IF AnySymbol(l, r) THEN IntegerValue \cup {Undef, Unchanged}
  ELSE IF r = Undef THEN { IF l.of = 1 THEN l ELSE Undef }
  ELSE IF r.of < 0 THEN {Unchanged}
  ELSE IF r.of = 0 THEN { IF l.of = 0 THEN Undef ELSE Literal(1) }
  ELSE { Literal(l.of ^ r.of) }

Inv(l) == IF l = Undef THEN {Undef} ELSE IF l = Symbol THEN {Throws} ELSE { Literal(-l.of) }

-----------------------------------------------------------------------------
(* Comparison *)

\* symbolicInstruction(), also for a symbol and an undefined operand.
Equ(l, r) ==
  IF AnySymbol(l, r) THEN {Symbol}
  ELSE IF AnyUndef(l, r) THEN { Literal(l = r) } ELSE { Literal(l.of = r.of) }
Neq(l, r) ==
  IF AnySymbol(l, r) THEN {Symbol}
  ELSE IF AnyUndef(l, r) THEN { Literal(l # r) } ELSE { Literal(l.of # r.of) }

Lth(l, r) == Arithmetic(l, r, { Literal(l.of < r.of) })
Gth(l, r) == Arithmetic(l, r, { Literal(l.of > r.of) })
\* Mutant of Leq: one undefined operand is enough.
LeqOneUndef(l, r) ==
  IF AnyUndef(l, r) THEN { Literal(TRUE) } ELSE Arithmetic(l, r, { Literal(l.of <= r.of) })

Leq(l, r) ==
  IF l = Undef /\ r = Undef THEN { Literal(TRUE) } ELSE Arithmetic(l, r, { Literal(l.of <= r.of) })
Geq(l, r) ==
  IF l = Undef /\ r = Undef THEN { Literal(TRUE) } ELSE Arithmetic(l, r, { Literal(l.of >= r.of) })

-----------------------------------------------------------------------------
(* Logic: a symbol with an undefined operand is unimplemented, and a Boolean *)
(* value has no TPTP literal.                                                *)

Connective(l, r, results) ==
  IF AnySymbol(l, r) THEN IF l = r THEN {Symbol} ELSE {Throws} ELSE results

And(l, r) ==
  Connective(l, r, { IF ~AnyUndef(l, r) THEN Literal(l.of /\ r.of)
                     ELSE IF Literal(FALSE) \in {l, r} THEN Literal(FALSE) ELSE Undef })
Or(l, r) ==
  Connective(l, r, { IF ~AnyUndef(l, r) THEN Literal(l.of \/ r.of)
                     ELSE IF Literal(TRUE) \in {l, r} THEN Literal(TRUE) ELSE Undef })
Xor(l, r) ==
  Connective(l, r, { IF ~AnyUndef(l, r) THEN Literal(l.of # r.of) ELSE Undef })
\* Mutant of Imp: an undefined operand makes it undefined.
ImpStrict(l, r) ==
  Connective(l, r, { IF ~AnyUndef(l, r) THEN Literal(l.of => r.of) ELSE Undef })

Imp(l, r) ==
  Connective(l, r, { IF ~AnyUndef(l, r) THEN Literal(l.of => r.of)
                     ELSE IF l = Literal(FALSE) \/ r = Literal(TRUE) THEN Literal(TRUE) ELSE Undef })

\* No case for symbols: the layout of a symbol is read as a Boolean.
Not(l) ==
  IF l = Undef THEN {Undef} ELSE IF l = Symbol THEN BooleanValue ELSE { Literal(~l.of) }

-----------------------------------------------------------------------------
(* Operation::execute() *)

ArithmeticInstruction == {"inv", "add", "sub", "mul", "mod", "div", "pow"}
CompareInstruction == {"equ", "neq", "lth", "leq", "gth", "geq"}
LogicalInstruction == {"and", "xor", "or", "imp", "not"}

ASSUME InstructionAssumption ==
  Instruction \subseteq ArithmeticInstruction \cup CompareInstruction \cup LogicalInstruction

Results(op, l, r) ==
  CASE op = "inv" -> Inv(l)
    [] op = "add" -> Add(l, r)
    [] op = "sub" -> Sub(l, r)
    [] op = "mul" -> Mul(l, r)
    [] op = "mod" -> Mod(l, r)
    [] op = "div" -> Div(l, r)
    [] op = "pow" -> Pow(l, r)
    [] op = "equ" -> Equ(l, r)
    [] op = "neq" -> Neq(l, r)
    [] op = "lth" -> Lth(l, r)
    [] op = "leq" -> Leq(l, r)
    [] op = "gth" -> Gth(l, r)
    [] op = "geq" -> Geq(l, r)
    [] op = "and" -> And(l, r)
    [] op = "xor" -> Xor(l, r)
    [] op = "or" -> Or(l, r)
    [] op = "imp" -> Imp(l, r)
    [] op = "not" -> Not(l)

\* The registers an instruction reads and the ones it assigns.
Source(op) == IF op \in LogicalInstruction THEN "booleans" ELSE "integers"
Target(op) == IF op \in ArithmeticInstruction THEN "integers" ELSE "booleans"

\* The constant a register may hold where the concrete one holds c.
Start(c) == IF Symbolic /\ c # Undef THEN {c, Symbol} ELSE {c}

RegInit ==
  /\ concrete \in [integers : [Register -> IntegerValue \cup {Undef}],
                   booleans : [Register -> BooleanValue \cup {Undef}]]
  /\ registers \in [integers : [Register -> IntegerConstant],
                    booleans : [Register -> BooleanConstant]]
  /\ \A bank \in {"integers", "booleans"}, k \in Register :
       registers[bank][k] \in Start(concrete[bank][k])
  /\ last = [op |-> "none", lhs |-> Undef, rhs |-> Undef, res |-> Undef]

\* The registers after an outcome.
Assigned(regs, op, k, res) ==
  IF res \in {Unchanged, Throws} THEN regs ELSE [regs EXCEPT ![Target(op)][k] = res]

\* execute() on the operands in i and j, assigned to k, on either side.
Execute(op, i, j, k) ==
  LET from == Source(op)
      l == registers[from][i]
      r == registers[from][j]
  IN
    /\ op \in ValuesOnly => ~AnySymbol(l, r)
    /\ \E res \in Results(op, l, r), cres \in Results(op, concrete[from][i], concrete[from][j]) :
         /\ Target(op) = "integers" => {res, cres} \subseteq IntegerConstant \cup {Unchanged, Throws}
         /\ registers' = Assigned(registers, op, k, res)
         /\ concrete' = IF res = Throws THEN concrete ELSE Assigned(concrete, op, k, cres)
         /\ last' = [op |-> op, lhs |-> l, rhs |-> r, res |-> res]

RegNext == \E op \in Instruction, i, j, k \in Register : Execute(op, i, j, k)

RegSpec == RegInit /\ [][RegNext]_regVars

-----------------------------------------------------------------------------
(* Properties *)

\* The symbolic execution is a sound abstraction of the concrete one however
\* long the sequence: a register that is no symbol has the concrete constant,
\* and a symbol, which counts as defined, never stands for undef.
SymbolicExecutionSound ==
  \A bank \in {"integers", "booleans"}, k \in Register :
    IF registers[bank][k] = Symbol
      THEN concrete[bank][k] # Undef
      ELSE registers[bank][k] = concrete[bank][k]

\* Truth values in the order of Kleene's strong logic, and back.
Truth(c) == IF c = Undef THEN 1 ELSE IF c.of THEN 2 ELSE 0
Least(a, b) == IF a < b THEN a ELSE b
Greatest(a, b) == IF a > b THEN a ELSE b
Kleene(op, a, b) ==
  CASE op = "and" -> Least(a, b)
    [] op = "or" -> Greatest(a, b)
    [] op = "imp" -> Greatest(2 - a, b)
    [] op = "xor" -> Greatest(Least(a, 2 - b), Least(2 - a, b))

\* On operands that are no symbols the connectives are those of Kleene's
\* three-valued logic: an undefined operand is ignored just when the other
\* one decides.
LogicIsKleene ==
  last.op \in {"and", "or", "imp", "xor"} /\ ~AnySymbol(last.lhs, last.rhs) =>
    Truth(last.res) = Kleene(last.op, Truth(last.lhs), Truth(last.rhs))

\* The comparisons agree with each other also on undefined operands: != is the
\* negation of =, > is < the other way round, and <= is < or =.
ComparisonsAgree ==
  LET l == last.lhs
      r == last.rhs
      Either(as, bs) == UNION { Or(a, b) : a \in as, b \in bs }
  IN last.op \in CompareInstruction /\ ~AnySymbol(l, r) =>
       last.res \in CASE last.op = "equ" -> UNION { Not(a) : a \in Neq(l, r) }
                      [] last.op = "neq" -> UNION { Not(a) : a \in Equ(l, r) }
                      [] last.op = "lth" -> Gth(r, l)
                      [] last.op = "gth" -> Lth(r, l)
                      [] last.op = "leq" -> Either(Lth(l, r), Equ(l, r))
                      [] last.op = "geq" -> Either(Gth(l, r), Equ(l, r))

\* The table of "pow" in Instruction.cpp for a negative exponent: (-1) ^
\* abs(rhs) for -1, 1 for 1, and undef for any other value.
PowTable ==
  last.op = "pow" /\ last.lhs \in IntegerValue /\ last.rhs \in { Literal(v) : v \in -MaxInteger .. -1 } =>
    last.res = IF last.lhs.of \in {-1, 1} THEN Literal(last.lhs.of ^ (-last.rhs.of)) ELSE Undef
=============================================================================
