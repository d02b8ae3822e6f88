------------------------------ MODULE TypedCalls ------------------------------
(***************************************************************************)
(* Calls of operations from the types of their operands to their results:  *)
(* the annotation of the operation completes the types that are not known, *)
(* infers the type of the result and accepts the relation type; then       *)
(* Operation::execute() makes the result, which may be an operand of the   *)
(* next call.  An operand is a register or the literal undef, which has no *)
(* type until it gets one.                                                 *)
(*                                                                         *)
(* Abstractions.  A constant is its type and whether it is undefined, a    *)
(* value or symbolic: a result that depends on the values is any of those  *)
(* it can be.  Integer constants are of type Integer whatever the range of *)
(* their register, as their constructors have it.  Where a symbol is read  *)
(* as a value, which C++ leaves undefined, the result is any constant of   *)
(* the type or an exception.  Assertions are compiled in: one that fails   *)
(* counts as an exception.                                                 *)
(***************************************************************************)
EXTENDS Annotations

CONSTANTS
  Register, \* the registers
  Type,     \* the types clients declare registers of
  Careful   \* TRUE: clients give pow no exponent that is negative or a symbol

ASSUME CarefulAssumption == Careful \in BOOLEAN

\* A type of a kind without parameter is the one of its kind, and clients that know the
\* type of a list know the type of its elements.
ASSUME TypeAssumption ==
  \A type \in Type :
    /\ type.kind \notin {Null.kind, Throws.kind}
    /\ type.kind \in {"VOID", "BOOLEAN", "STRING", "DECIMAL", "RATIONAL"} =>
         type = Plain(type.kind)
    /\ type.kind = "INTEGER" => type \in {INTEGER, RangedInteger}
    /\ type.kind = "BINARY" => \E n \in Bitsize : type = Binary(n)
    /\ type.kind = "LIST" => type.result \in Type

\* The literal undef, which is no register.
UndefLiteral == "undef"
ASSUME RegisterAssumption == UndefLiteral \notin Register

VARIABLES
  registers, \* the declared type of a register, and the constant it holds
  call       \* the call in progress

callVars == << registers, call >>

Dynamic(type) == IF type.kind = "INTEGER" THEN INTEGER ELSE type

\* undef() of a type, a value and a symbol of it.
Undef(type) == [type |-> Dynamic(type), is |-> "undef"]
Value(type) == [type |-> Dynamic(type), is |-> "value"]
Symbol(type) == [type |-> type, is |-> "symbol"]
Thrown == [is |-> "thrown"]
Unchanged == [is |-> "unchanged"] \* the result argument is not assigned

Defined(c) == c.is # "undef"
Symbolic(c) == c.is = "symbol"
SomeUndef(args) == \E i \in DOMAIN args : ~Defined(args[i])
SomeSymbol(args) == \E i \in DOMAIN args : Symbolic(args[i])

\* The results of code that reads the operands as values, symbols too.
Read(args, results) ==
  IF SomeSymbol(args) THEN results \cup { Undef(c.type) : c \in results \ {Thrown} } \cup {Thrown}
  ELSE results

-----------------------------------------------------------------------------
(* Instructions *)

HasLiteral(c) == Symbolic(c) \/ c.type.kind \in {"INTEGER", "STRING"}

\* symbolicInstruction(): operands get literals only if both are defined.
SymbolicInstruction(args, type) ==
  IF ~SomeUndef(args) /\ \E i \in DOMAIN args : ~HasLiteral(args[i]) THEN {Thrown} ELSE { Symbol(type) }

\* The operators on values, with the kinds of results they are implemented for.
Arithmetic(args, result, implemented, results) ==
  CASE ~Defined(args[1]) -> { args[1] }
    [] Defined(args[1]) /\ ~Defined(args[2]) -> { args[2] }
    [] ~SomeUndef(args) /\ SomeSymbol(args) -> SymbolicInstruction(args, args[1].type)
    [] OTHER -> IF result.kind \in implemented THEN results ELSE {Thrown}

Inv(args) ==
  IF ~Defined(args[1]) THEN { args[1] }
  ELSE IF Symbolic(args[1]) THEN {Thrown} ELSE { Value(args[1].type) }
\* Mutant of Add: the case of binary values is missing.
AddNotBinary(args, result) == Arithmetic(args, result, {"INTEGER", "STRING"}, { Value(result) })

Add(args, result) == Arithmetic(args, result, {"INTEGER", "BINARY", "STRING"}, { Value(result) })
Sub(args, result) == Arithmetic(args, result, {"INTEGER"}, { Value(result) })
Mul(args, result) == Arithmetic(args, result, {"INTEGER"}, { Value(result) })
Mod(args, result) == Arithmetic(args, result, {"INTEGER"}, { Value(result), Undef(result) })
Div(args, result) == Arithmetic(args, result, {"INTEGER"}, { Value(result), Undef(result) })

\* 1 to an undefined power is 1.
Pow(args, result) ==
  IF ~Defined(args[1]) THEN { args[1] }
  ELSE IF ~Defined(args[2]) THEN { args[1], Undef(result) }
  ELSE Read(args, { Value(result), Undef(result) }) \cup (IF Careful THEN {} ELSE {Unchanged})

\* One operand may decide whatever the other one is, of Booleans only.
Connective(args, result, decided) ==
  IF SomeSymbol(args)
    THEN IF result.kind = "BOOLEAN" /\ ~SomeUndef(args)
           THEN SymbolicInstruction(args, args[1].type) ELSE {Thrown}
  ELSE IF ~SomeUndef(args) THEN { Value(result) }
  ELSE IF result.kind = "BOOLEAN" /\ decided /\ \E i \in DOMAIN args : Defined(args[i])
         THEN { Value(result), Undef(result) }
  ELSE { Undef(result) }

\* Mutant of Xor: one operand decides.
XorDecided(args, result) == Connective(args, result, TRUE)

And(args, result) == Connective(args, result, TRUE)
Xor(args, result) == Connective(args, result, FALSE)
Or(args, result) == Connective(args, result, TRUE)
Imp(args, result) == Connective(args, result, TRUE)

\* The complement of a binary value may be too wide for its type.
Not(args, result) ==
  IF ~Defined(args[1]) THEN { Undef(result) }
  ELSE Read(args, { Value(args[1].type) } \cup (IF args[1].type.kind = "BINARY" THEN {Thrown} ELSE {}))

Equ(args) == IF SomeSymbol(args) THEN SymbolicInstruction(args, BOOLEAN_TYPE) ELSE { Value(BOOLEAN_TYPE) }
Neq(args) == IF SomeSymbol(args) THEN SymbolicInstruction(args, BOOLEAN_TYPE) ELSE { Value(BOOLEAN_TYPE) }

\* Mutant of Order: it is not asked whether an operand is a symbol.
OrderOfValues(args, bothUndef) ==
  IF Differ(<< args[1].type, args[2].type >>) THEN {Thrown}
  ELSE IF \A i \in DOMAIN args : ~Defined(args[i]) THEN { bothUndef }
  ELSE IF SomeUndef(args) THEN { Undef(BOOLEAN_TYPE) }
  ELSE IF args[1].type.kind = "INTEGER" THEN Read(args, { Value(BOOLEAN_TYPE) }) ELSE {Thrown}

\* The operands are of one type by assertion: a symbol of a ranged integer is not
\* of the type of an integer value.
Order(args, bothUndef) ==
  IF Differ(<< args[1].type, args[2].type >>) THEN {Thrown}
  ELSE IF \A i \in DOMAIN args : ~Defined(args[i]) THEN { bothUndef }
  ELSE IF SomeUndef(args) THEN { Undef(BOOLEAN_TYPE) }
  ELSE IF SomeSymbol(args)
    THEN IF args[1].type.kind \in {"INTEGER", "DECIMAL", "RATIONAL"}
           THEN SymbolicInstruction(args, BOOLEAN_TYPE) ELSE {Thrown}
  ELSE IF args[1].type.kind = "INTEGER" THEN { Value(BOOLEAN_TYPE) } ELSE {Thrown}

Lth(args) == Order(args, Undef(BOOLEAN_TYPE))
Gth(args) == Order(args, Undef(BOOLEAN_TYPE))
Leq(args) == Order(args, Value(BOOLEAN_TYPE))
Geq(args) == Order(args, Value(BOOLEAN_TYPE))

-----------------------------------------------------------------------------
(* Builtins *)

AssertBuiltin(args) ==
  IF Symbolic(args[1]) THEN { Value(VOID) }
  ELSE IF Defined(args[1]) THEN { Value(VOID), Thrown } ELSE {Thrown}
AssureBuiltin(args) == IF Defined(args[1]) THEN { Value(VOID), Thrown } ELSE {Thrown}

\* The size of an enumeration is the one of its type.
Size(args) ==
  IF ~Defined(args[1]) THEN { Undef(INTEGER) }
  ELSE IF args[1].type.kind = "ENUMERATION" THEN { Value(INTEGER) }
  ELSE Read(args, { Value(INTEGER) })

\* A list that is defined fails the assertion that it is a tuple.
At(args) == IF SomeUndef(args) THEN { Undef(args[1].type.result) } ELSE {Thrown}

PrintBuiltin(args) == IF Symbolic(args[1]) THEN { Value(VOID), Thrown } ELSE { Value(VOID) }
PrintLnBuiltin(args) == PrintBuiltin(args)

\* The casts: some operands are their own result.
Cast(arg, result, kept, results) ==
  IF ~Defined(arg) THEN { Undef(result) } ELSE IF kept THEN { arg } ELSE Read(<< arg >>, results)

AsBoolean(arg, result) == Cast(arg, result, arg.type.kind = "BOOLEAN", { Value(result) })
AsInteger(arg, result) == Cast(arg, result, arg.type.kind = "INTEGER", { Value(result) })
AsDecimal(arg, result) == Cast(arg, result, arg.type.kind = "DECIMAL", { Value(result) })
AsRational(arg, result) == Cast(arg, result, arg.type.kind = "RATIONAL", { Value(result) })
\* A value that does not fit is undef, but the truncation of a binary one throws.
AsBinary(arg, result) ==
  Cast(arg, result, arg.type = result,
       { Value(result) } \cup
       CASE arg.type.kind \in {"INTEGER", "DECIMAL"} -> { Undef(result) }
         [] arg.type.kind = "BINARY" /\ arg.type.bitsize > result.bitsize -> {Thrown}
         [] OTHER -> {})
AsEnumeration(arg, result) ==
  IF Defined(arg) /\ arg.type = result THEN { arg } ELSE { Undef(result) }
\* The name of the constant: a symbol has one too.
AsString(arg) == { IF Defined(arg) THEN Value(STRING_TYPE) ELSE Undef(STRING_TYPE) }

Stringify(arg) ==
  IF Defined(arg) THEN Read(<< arg >>, { Value(STRING_TYPE) }) ELSE { Undef(STRING_TYPE) }
Dec(arg) == Stringify(arg)
Hex(arg) == Stringify(arg)
Oct(arg) == Stringify(arg)
Bin(arg) == Stringify(arg)

Addu(args) ==
  IF SomeUndef(args) THEN { Undef(args[1].type) }
  ELSE IF args[1].type.kind = "INTEGER" THEN Read(args, { Value(INTEGER) }) ELSE {Thrown}

Zext(arg, result) ==
  IF Defined(arg) THEN Read(<< arg >>, { Value(result) }) ELSE { Undef(result) }
Sext(arg, result) == Zext(arg, result)
Trunc(args, result) ==
  IF ~Defined(args[2]) THEN {Thrown}
  ELSE IF ~Defined(args[1]) THEN { Undef(result) } ELSE Read(args, { Value(result), Thrown })

\* Mutant of Shift: an undefined offset is the result.
ShiftOfOffset(args) ==
  IF SomeUndef(args) THEN { IF Defined(args[1]) THEN args[2] ELSE args[1] }
  ELSE Read(args, { Value(args[1].type), Thrown })

\* A shift by an undefined offset leaves the value as it is.
Shift(args) ==
  IF SomeUndef(args) THEN { args[1] } ELSE Read(args, { Value(args[1].type), Thrown })
Shl(args) == Shift(args)
Shr(args) == Shift(args)

\* The builtins that throw whatever they are given.
Unimplemented ==
  {"adds", "subu", "subs", "mulu", "muls", "lesu", "less", "lequ", "leqs", "greu", "gres",
   "gequ", "geqs", "ashr", "clz", "clo", "cls"}

-----------------------------------------------------------------------------
(* Operation::execute() *)

ExecuteInstruction(op, args, result) ==
  CASE op = "inv" -> Inv(args)
    [] op = "add" -> Add(args, result)
    [] op = "sub" -> Sub(args, result)
    [] op = "mul" -> Mul(args, result)
    [] op = "mod" -> Mod(args, result)
    [] op = "div" -> Div(args, result)
    [] op = "pow" -> Pow(args, result)
    [] op = "and" -> And(args, result)
    [] op = "xor" -> Xor(args, result)
    [] op = "or" -> Or(args, result)
    [] op = "imp" -> Imp(args, result)
    [] op = "not" -> Not(args, result)
    [] op = "equ" -> Equ(args)
    [] op = "neq" -> Neq(args)
    [] op = "lth" -> Lth(args)
    [] op = "leq" -> Leq(args)
    [] op = "gth" -> Gth(args)
    [] op = "geq" -> Geq(args)

Instruction ==
  {"inv", "add", "sub", "mul", "mod", "div", "pow", "and", "xor", "or", "imp", "not",
   "equ", "neq", "lth", "leq", "gth", "geq"}

ExecuteBuiltin(op, args, result) ==
  CASE op = "isSymbolic" -> { Value(BOOLEAN_TYPE) }
    [] op = "abort" -> {Thrown}
    [] op = "assert" -> AssertBuiltin(args)
    [] op = "assure" -> AssureBuiltin(args)
    [] op = "size" -> Size(args)
    [] op = "at" -> At(args)
    [] op = "print" -> PrintBuiltin(args)
    [] op = "println" -> PrintLnBuiltin(args)
    [] op = "asBoolean" -> AsBoolean(args[1], result)
    [] op = "asInteger" -> AsInteger(args[1], result)
    [] op = "asBinary" -> AsBinary(args[1], result)
    [] op = "asString" -> AsString(args[1])
    [] op = "asDecimal" -> AsDecimal(args[1], result)
    [] op = "asRational" -> AsRational(args[1], result)
    [] op = "asEnumeration" -> AsEnumeration(args[1], result)
    [] op = "dec" -> Dec(args[1])
    [] op = "hex" -> Hex(args[1])
    [] op = "oct" -> Oct(args[1])
    [] op = "bin" -> Bin(args[1])
    [] op = "addu" -> Addu(args)
    [] op = "zext" -> Zext(args[1], result)
    [] op = "sext" -> Sext(args[1], result)
    [] op = "trunc" -> Trunc(args, result)
    [] op = "shl" -> Shl(args)
    [] op = "shr" -> Shr(args)
    [] op \in Unimplemented -> {Thrown}

Execute(op, args, result) ==
  IF op \in Instruction THEN ExecuteInstruction(op, args, result) ELSE ExecuteBuiltin(op, args, result)

-----------------------------------------------------------------------------
(* Calls *)

NoCall == [op |-> "none"]
Idle == call = NoCall

RegistersOf(type) ==
  { [type |-> type, constant |-> c] : c \in { Undef(type), Value(type), Symbol(type) } }

CallInit ==
  /\ registers \in [Register -> UNION { RegistersOf(type) : type \in Type }]
  /\ call = NoCall

\* A client calls an operation: of the literal undef the type is not known.
Open(op, operands, width) ==
  /\ Idle
  /\ call' = [op |-> op, operands |-> operands, width |-> width, result |-> Null,
              types |-> [i \in DOMAIN operands |-> IF operands[i] = UndefLiteral
                           THEN Null ELSE registers[operands[i]].type]]
  /\ UNCHANGED registers

Complete(types) == \A i \in DOMAIN types : types[i] # Null

Resolve ==
  /\ ~Idle /\ ~Complete(call.types)
  /\ call' = [call EXCEPT !.types = Resolved(call.op, call.types)]
  /\ UNCHANGED registers

\* The client learns the type of an operand from elsewhere.
Learn(i, type) ==
  /\ ~Idle /\ i \in DOMAIN call.types /\ call.types[i] = Null
  /\ call' = [call EXCEPT !.types[i] = type]
  /\ UNCHANGED registers

\* The type of the result: the inferred one or, if there is none, one the client
\* knows of, as of a cast.
Infer ==
  /\ ~Idle /\ Complete(call.types) /\ call.result = Null
  /\ LET inferred == Inferred(call.op, call.types, call.width)
     IN \E type \in IF inferred = Null THEN Type ELSE {inferred} :
          /\ Valid(call.op, type, call.types)
          /\ call' = [call EXCEPT !.result = type]
  /\ UNCHANGED registers

\* The client reports an error: a call with a type that is not known, a call that
\* is not valid, or an exception of inference().
GiveUp ==
  /\ ~Idle /\ call.result = Null
  /\ call' = NoCall
  /\ UNCHANGED registers

\* The operands: the literal is made an undef of its type.
Operands ==
  [i \in DOMAIN call.operands |-> IF call.operands[i] = UndefLiteral
     THEN Undef(call.types[i]) ELSE registers[call.operands[i]].constant]

Evaluate(k) ==
  /\ ~Idle /\ call.result # Null
  /\ Careful /\ call.op = "pow" => ~Symbolic(Operands[2])
  /\ \E res \in Execute(call.op, Operands, call.result) :
       registers' =
         CASE res = Thrown -> registers
           [] res = Unchanged -> [registers EXCEPT ![k].type = call.result]
           [] OTHER -> [registers EXCEPT ![k] = [type |-> call.result, constant |-> res]]
  /\ call' = NoCall

\* The calls that are opened: one operand of two is a register.
OperandsOf(op) ==
  { operands \in [1..Arity(op) -> Register \cup {UndefLiteral}] :
      Arity(op) = 2 => \E i \in 1..2 : operands[i] \in Register }

CallNext ==
  \/ \E op \in Token : \E operands \in OperandsOf(op) :
       \E width \in IF Registered[op].inference = "width" THEN 0 .. SizeMax + 1 ELSE {0} :
         Open(op, operands, width)
  \/ Resolve
  \/ \E i \in 1..2, type \in Type : Learn(i, type)
  \/ Infer
  \/ GiveUp
  \/ \E k \in Register : Evaluate(k)

CallSpec == CallInit /\ [][CallNext]_callVars

-----------------------------------------------------------------------------
(* Properties *)

\* A register holds a constant of the type that was inferred for it, or given by
\* the client, however many calls it went through: only the ranges of integers
\* are lost.  Instructions cast their operands to the class of that type.
ResultsTyped ==
  \A k \in Register :
    LET r == registers[k]
    IN r.constant.type = r.type \/ (r.constant.type.kind = "INTEGER" /\ r.type.kind = "INTEGER")

\* An inferred type is accepted by valid(), for operands the operation is registered
\* for, but for the gaps between the two functions: inv infers Integer of a ranged
\* integer, "at" is registered for elements of two kinds alone, and the widths of
\* zext, sext and trunc are looked at by valid() only.
Gap(op, type, types) ==
  \/ op = "inv" /\ types[1] = RangedInteger
  \/ op = "at" /\ type.kind \notin {"INTEGER", "BOOLEAN"}
  \/ op \in {"zext", "sext"} /\ type.bitsize <= types[1].bitsize
  \/ op = "trunc" /\ type.bitsize >= types[1].bitsize
InferenceAccepted ==
  ~Idle /\ Complete(call.types) /\ Accepts(call.op, call.types) =>
    LET type == Inferred(call.op, call.types, call.width)
    IN type \notin {Null, Throws} => (Valid(call.op, type, call.types) <=> ~Gap(call.op, type, call.types))

\* Resolving keeps the types that are known, and a client that resolves first infers
\* the same type as one that learns the types by itself and has a valid call.
ResolutionConfluent ==
  ~Idle =>
    LET settled == Resolved(call.op, call.types)
    IN /\ \A i \in DOMAIN settled : call.types[i] # Null => settled[i] = call.types[i]
       /\ Complete(settled) =>
            \A learned \in Type :
              LET types == [i \in DOMAIN settled |-> Known(call.types[i], learned)]
                  type == Inferred(call.op, types, call.width)
              IN type # Null /\ Valid(call.op, type, types)
                   => Inferred(call.op, settled, call.width) = type

\* Whether execute() may be called, and the results it has that are constants.
Typed == ~Idle /\ call.result # Null /\ (Careful /\ call.op = "pow" => ~Symbolic(Operands[2]))
Results == Execute(call.op, Operands, call.result) \ {Thrown}

\* An undefined operand makes the result undefined, or the call throws, unless the
\* operation tells undef from values, the other operand decides, or the operand it
\* is about is defined.  Of values only partial operations make undef.
UndefinedDecides ==
  Typed =>
    \A res \in Results :
      /\ SomeUndef(Operands) /\ Defined(res) =>
           \/ call.op \in {"equ", "neq", "isSymbolic", "print", "println", "zext", "sext"}
           \/ call.op \in {"leq", "geq"} /\ \A i \in DOMAIN Operands : ~Defined(Operands[i])
           \/ call.op \in {"and", "or", "imp"} /\ \E i \in DOMAIN Operands : Defined(Operands[i])
           \/ call.op \in {"pow", "shl", "shr"} /\ res = Operands[1]
      /\ ~SomeUndef(Operands) /\ ~SomeSymbol(Operands) /\ ~Defined(res) =>
           call.op \in {"mod", "div", "pow", "asBinary", "asEnumeration"}

\* Symbols come from symbols alone, and an instruction with a symbolic operand makes
\* a symbol, undef or an exception, never a value: but "not" and "pow", which read
\* the symbol as a value.
SymbolsKept ==
  Typed =>
    \A res \in Results :
      /\ Symbolic(res) => SomeSymbol(Operands)
      /\ SomeSymbol(Operands) /\ call.op \in Instruction \ {"not", "pow"} =>
           Symbolic(res) \/ ~Defined(res)

\* What the annotations accept is implemented, of operands that are values, but for
\* rationals, decimals and most binary operations, and for "at".
Missing(op, types) ==
  \/ op \in Unimplemented \cup {"abort", "at"}
  \/ op = "add" /\ types[1].kind \in {"RATIONAL", "DECIMAL"}
  \/ op \in {"sub", "mul", "div", "lth", "leq", "gth", "geq", "addu"} /\ types[1].kind # "INTEGER"
CallsImplemented ==
  Typed /\ (\A i \in DOMAIN Operands : Operands[i].is = "value") =>
    (Results = {} <=> Missing(call.op, call.types))
=============================================================================
