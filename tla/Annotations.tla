----------------------------- MODULE Annotations -----------------------------
(***************************************************************************)
(* The annotations of the instructions and builtins (Annotation.cpp and    *)
(* the annotation objects of Instruction.cpp and Builtin.cpp): the         *)
(* relations an operation is registered with, how it completes the types   *)
(* of its operands, which type it infers, and which relation types it      *)
(* accepts.                                                                *)
(*                                                                         *)
(* Abstractions.  A type is a record of its kind and of the parameter that *)
(* tells types of a kind apart, so that types are equal when the names     *)
(* they are hashed by are.  The functions that several annotations share   *)
(* are named by strings, as the code names them by variables; the ones     *)
(* they do not share have a name of their own.  Operations are applied to  *)
(* as many operands as they take: their checks of the number are left out. *)
(***************************************************************************)
EXTENDS Integers, Sequences, FiniteSets

CONSTANTS
  Bitsize, \* the widths of the binary types clients use
  SizeMax  \* BinaryType::SizeMax, the greatest width of a binary type

ASSUME BitsizeAssumption == SizeMax \in Nat /\ Bitsize \subseteq 1 .. SizeMax

-----------------------------------------------------------------------------
(* Types *)

Plain(kind) == [kind |-> kind]
VOID == Plain("VOID")
BOOLEAN_TYPE == Plain("BOOLEAN")
INTEGER == Plain("INTEGER")
STRING_TYPE == Plain("STRING")
DECIMAL == Plain("DECIMAL")
RATIONAL == Plain("RATIONAL")

RangedInteger == [kind |-> "INTEGER", range |-> "range"]
Binary(n) == [kind |-> "BINARY", bitsize |-> n]
Enumeration(name) == [kind |-> "ENUMERATION", name |-> name]
ListOf(type) == [kind |-> "LIST", result |-> type]

\* What stands for a type that is not known, and for a call that throws.
Null == Plain("null")
Throws == Plain("throws")

Kind(types) == [i \in DOMAIN types |-> types[i].kind]
AllOfKind(types, kind) == \A i \in DOMAIN types : types[i].kind = kind

-----------------------------------------------------------------------------
(* Relations *)

Relation(result, arguments) == [result |-> result, argument |-> arguments]
To(result, kinds) == { Relation(result, << k >>) : k \in kinds }
Same(kinds) == { Relation(k, << k >>) : k \in kinds }
SamePairs(kinds) == { Relation(k, << k, k >>) : k \in kinds }
Compared(kinds) == { Relation("BOOLEAN", << k, k >>) : k \in kinds }

Annotation(relations, resolve, inference, validate) ==
  [relations |-> relations, resolve |-> resolve, inference |-> inference, validate |-> validate]

Numeric == {"INTEGER", "BINARY", "RATIONAL", "DECIMAL"}

-----------------------------------------------------------------------------
(* Instructions *)

InvAnnotation == Annotation(Same(Numeric), "none", "arithmetic", "arithmetic")
AddAnnotation ==
  Annotation(SamePairs(Numeric \cup {"STRING"}), "operands", "arithmetic", "arithmetic")
SubAnnotation == Annotation(SamePairs(Numeric), "operands", "arithmetic", "arithmetic")
MulAnnotation == Annotation(SamePairs(Numeric), "operands", "arithmetic", "arithmetic")
ModAnnotation == Annotation(SamePairs({"INTEGER"}), "operands", "arithmetic", "arithmetic")
DivAnnotation ==
  Annotation(SamePairs({"INTEGER", "RATIONAL"}), "operands", "arithmetic", "arithmetic")
PowAnnotation ==
  Annotation({ Relation(k, << k, "INTEGER" >>) : k \in {"INTEGER", "DECIMAL"} },
             "exponent", "arithmetic", "power")

AndAnnotation == Annotation(SamePairs({"BOOLEAN", "BINARY"}), "operands", "logic", "arithmetic")
XorAnnotation == Annotation(SamePairs({"BOOLEAN", "BINARY"}), "operands", "logic", "arithmetic")
OrAnnotation == Annotation(SamePairs({"BOOLEAN", "BINARY"}), "operands", "logic", "arithmetic")
ImpAnnotation == Annotation(SamePairs({"BOOLEAN"}), "boolean", "logic", "arithmetic")
NotAnnotation == Annotation(Same({"BOOLEAN", "BINARY"}), "none", "logic", "arithmetic")

Comparable ==
  Numeric \cup {"BOOLEAN", "STRING", "ENUMERATION", "RANGE", "TUPLE", "LIST",
                "RULE_REFERENCE", "FUNCTION_REFERENCE", "FILE", "PORT"}
EquAnnotation == Annotation(Compared(Comparable), "operands", "comparison", "comparison")
NeqAnnotation == Annotation(Compared(Comparable), "operands", "comparison", "comparison")
LthAnnotation == Annotation(Compared(Numeric), "operands", "comparison", "comparison")
LeqAnnotation == Annotation(Compared(Numeric), "operands", "comparison", "comparison")
GthAnnotation == Annotation(Compared(Numeric), "operands", "comparison", "comparison")
GeqAnnotation == Annotation(Compared(Numeric), "operands", "comparison", "comparison")

-----------------------------------------------------------------------------
(* Builtins.  A validate that is "result" asks for the kind of the result, *)
(* which the relations have asked for already.                             *)

IsSymbolicAnnotation ==
  Annotation(To("BOOLEAN", Numeric \cup {"BOOLEAN", "STRING", "ENUMERATION"}),
             "none", "BOOLEAN", "result")
AbortAnnotation == Annotation({ Relation("VOID", << >>) }, "none", "VOID", "result")
AssertAnnotation == Annotation(To("VOID", {"BOOLEAN"}), "boolean", "VOID", "result")
AssureAnnotation == Annotation(To("VOID", {"BOOLEAN"}), "boolean", "VOID", "result")
SizeAnnotation ==
  Annotation(To("INTEGER", {"ENUMERATION", "LIST", "RANGE"}), "none", "INTEGER", "result")
AtAnnotation == Annotation({ Relation("_SIZE_", << "LIST", "INTEGER" >>) }, "none", "element", "element")
PrintAnnotation == Annotation(To("VOID", {"STRING"}), "string", "output", "result")
PrintLnAnnotation == Annotation(To("VOID", {"STRING"}), "string", "output", "result")

AsBooleanAnnotation ==
  Annotation(To("BOOLEAN", {"BOOLEAN", "INTEGER", "BINARY"}), "none", "BOOLEAN", "result")
AsIntegerAnnotation ==
  Annotation(To("INTEGER", {"BOOLEAN", "INTEGER", "BINARY", "DECIMAL"}),
             "none", "asInteger", "result")
AsBinaryAnnotation ==
  Annotation(To("BINARY", {"BOOLEAN", "INTEGER", "BINARY", "DECIMAL"}), "none", "null", "result")
AsStringAnnotation ==
  Annotation(To("STRING", Numeric \cup {"BOOLEAN", "STRING", "ENUMERATION",
                                        "RULE_REFERENCE", "FUNCTION_REFERENCE"}),
             "none", "STRING", "result")
AsDecimalAnnotation ==
  Annotation(To("DECIMAL", {"BOOLEAN", "INTEGER", "BINARY", "DECIMAL"}),
             "none", "DECIMAL", "result")
AsRationalAnnotation ==
  Annotation(To("RATIONAL", {"BOOLEAN", "INTEGER", "RATIONAL", "BINARY"}),
             "none", "RATIONAL", "result")
AsEnumerationAnnotation == Annotation(Same({"ENUMERATION"}), "none", "null", "result")

Stringified == Numeric \cup {"BOOLEAN", "ENUMERATION"}
StringifyAnnotation == Annotation(To("STRING", Stringified), "none", "STRING", "result")
DecAnnotation == StringifyAnnotation
HexAnnotation == StringifyAnnotation
OctAnnotation == StringifyAnnotation
BinAnnotation == StringifyAnnotation

ArithmeticBuiltinAnnotation ==
  Annotation(SamePairs({"INTEGER", "BINARY"}), "operands", "equal", "equal")
AdduAnnotation == ArithmeticBuiltinAnnotation
AddsAnnotation == ArithmeticBuiltinAnnotation
SubuAnnotation == ArithmeticBuiltinAnnotation
SubsAnnotation == ArithmeticBuiltinAnnotation
MuluAnnotation == ArithmeticBuiltinAnnotation
MulsAnnotation == ArithmeticBuiltinAnnotation

CompareBuiltinAnnotation ==
  Annotation(Compared(Numeric), "operands", "compareEqual", "compareEqual")
LesuAnnotation == CompareBuiltinAnnotation
LessAnnotation == CompareBuiltinAnnotation
LequAnnotation == CompareBuiltinAnnotation
LeqsAnnotation == CompareBuiltinAnnotation
GreuAnnotation == CompareBuiltinAnnotation
GresAnnotation == CompareBuiltinAnnotation
GequAnnotation == CompareBuiltinAnnotation
GeqsAnnotation == CompareBuiltinAnnotation

ZextAnnotation ==
  Annotation({ Relation("BINARY", << "BINARY", "INTEGER" >>) }, "none", "width", "wider")
SextAnnotation ==
  Annotation({ Relation("BINARY", << "BINARY", "INTEGER" >>) }, "none", "width", "wider")
TruncAnnotation ==
  Annotation({ Relation("BINARY", << "BINARY", "INTEGER" >>) }, "none", "width", "narrower")
ShiftRelations == { Relation("BINARY", << "BINARY", k >>) : k \in {"INTEGER", "BINARY"} }
ShlAnnotation == Annotation(ShiftRelations, "none", "shift", "shift")
ShrAnnotation == Annotation(ShiftRelations, "none", "shift", "shift")
AshrAnnotation == Annotation(ShiftRelations, "none", "shift", "shift")
ClzAnnotation == Annotation(To("INTEGER", {"BINARY"}), "none", "INTEGER", "result")
CloAnnotation == Annotation(To("INTEGER", {"BINARY"}), "none", "INTEGER", "result")
ClsAnnotation == Annotation(To("INTEGER", {"BINARY"}), "none", "INTEGER", "result")

-----------------------------------------------------------------------------
(* Annotation *)

\* str2obj(): the annotations by the tokens of their operations.
Registered ==
  [inv |-> InvAnnotation, add |-> AddAnnotation, sub |-> SubAnnotation, mul |-> MulAnnotation,
   mod |-> ModAnnotation, div |-> DivAnnotation, pow |-> PowAnnotation,
   and |-> AndAnnotation, xor |-> XorAnnotation, or |-> OrAnnotation, imp |-> ImpAnnotation,
   not |-> NotAnnotation, equ |-> EquAnnotation, neq |-> NeqAnnotation, lth |-> LthAnnotation,
   leq |-> LeqAnnotation, gth |-> GthAnnotation, geq |-> GeqAnnotation,
   isSymbolic |-> IsSymbolicAnnotation, abort |-> AbortAnnotation, assert |-> AssertAnnotation,
   assure |-> AssureAnnotation, size |-> SizeAnnotation, at |-> AtAnnotation,
   print |-> PrintAnnotation, println |-> PrintLnAnnotation,
   asBoolean |-> AsBooleanAnnotation, asInteger |-> AsIntegerAnnotation,
   asBinary |-> AsBinaryAnnotation, asString |-> AsStringAnnotation,
   asDecimal |-> AsDecimalAnnotation, asRational |-> AsRationalAnnotation,
   asEnumeration |-> AsEnumerationAnnotation,
   dec |-> DecAnnotation, hex |-> HexAnnotation, oct |-> OctAnnotation, bin |-> BinAnnotation,
   addu |-> AdduAnnotation, adds |-> AddsAnnotation, subu |-> SubuAnnotation,
   subs |-> SubsAnnotation, mulu |-> MuluAnnotation, muls |-> MulsAnnotation,
   lesu |-> LesuAnnotation, less |-> LessAnnotation, lequ |-> LequAnnotation,
   leqs |-> LeqsAnnotation, greu |-> GreuAnnotation, gres |-> GresAnnotation,
   gequ |-> GequAnnotation, geqs |-> GeqsAnnotation,
   zext |-> ZextAnnotation, sext |-> SextAnnotation, trunc |-> TruncAnnotation,
   shl |-> ShlAnnotation, shr |-> ShrAnnotation, ashr |-> AshrAnnotation,
   clz |-> ClzAnnotation, clo |-> CloAnnotation, cls |-> ClsAnnotation]

Token == DOMAIN Registered
Arity(op) == Len((CHOOSE r \in Registered[op].relations : TRUE).argument)

\* m_templates: the kinds of the result and of the operands.
Templates(op) ==
  UNION { { << result >> \o r.argument :
              result \in IF r.result = "_SIZE_" THEN {"INTEGER", "BOOLEAN"} ELSE {r.result} } :
          r \in Registered[op].relations }

\* The kinds of operands the operation is registered for.
Accepts(op, types) == \E r \in Registered[op].relations : r.argument = Kind(types)

\* resolve() of the annotations: the types of the operands, Null where unknown.
Known(type, other) == IF type = Null THEN other ELSE type

\* Mutant of Resolved: an operand takes the type of the other one even if known.
ResolvedFromFirst(op, types) ==
  CASE Registered[op].resolve = "operands" /\ types[1] # Null -> << types[1], types[1] >>
    [] Registered[op].resolve = "operands" -> << types[2], types[2] >>
    [] OTHER -> types

Resolved(op, types) ==
  CASE Registered[op].resolve = "none" -> types
    [] Registered[op].resolve = "operands" ->
         << Known(types[1], types[2]), Known(types[2], types[1]) >>
    [] Registered[op].resolve = "exponent" -> << types[1], Known(types[2], INTEGER) >>
    [] Registered[op].resolve = "boolean" -> [i \in DOMAIN types |-> Known(types[i], BOOLEAN_TYPE)]
    [] Registered[op].resolve = "string" -> [i \in DOMAIN types |-> Known(types[i], STRING_TYPE)]

Differ(types) == \E i, j \in DOMAIN types : types[i] # types[j]

\* Two integers have type Integer whatever their ranges.
ArithmeticInference(types) ==
  IF AllOfKind(types, "INTEGER") THEN INTEGER ELSE IF Differ(types) THEN Null ELSE types[1]
LogicInference(types) ==
  IF Differ(types) THEN Null ELSE IF types[1].kind = "BINARY" THEN types[1] ELSE BOOLEAN_TYPE
ComparisonInference(types) ==
  IF Differ(types) /\ ~AllOfKind(types, "INTEGER") THEN Null ELSE BOOLEAN_TYPE
\* Mutant of ShiftInference: the type of the offset is inferred.
ShiftInferenceOfOffset(types) ==
  IF types[2].kind = "BINARY" /\ Differ(types) THEN Null ELSE types[2]

ShiftInference(types) ==
  IF types[2].kind = "BINARY" /\ Differ(types) THEN Null ELSE types[1]
\* The width is the second operand, when that is a constant, and 0 else.
WidthInference(width) ==
  IF width = 0 THEN Null ELSE IF width > SizeMax THEN Throws ELSE Binary(width)

\* inference(): the type of the result, Null if there is none.
Inferred(op, types, width) ==
  LET inference == Registered[op].inference
  IN CASE inference = "arithmetic" -> ArithmeticInference(types)
       [] inference = "logic" -> LogicInference(types)
       [] inference = "comparison" -> ComparisonInference(types)
       [] inference = "equal" -> IF Differ(types) THEN Null ELSE types[1]
       [] inference = "compareEqual" -> IF Differ(types) THEN Null ELSE BOOLEAN_TYPE
       [] inference = "shift" -> ShiftInference(types)
       [] inference = "width" -> WidthInference(width)
       [] inference = "element" -> IF types[1].kind = "LIST" THEN types[1].result ELSE Throws
       [] inference = "output" -> IF types[1] = STRING_TYPE THEN VOID ELSE Throws
       [] inference = "asInteger" -> IF types[1] = RangedInteger THEN Throws ELSE INTEGER
       [] inference = "null" -> Null
       [] OTHER -> Plain(inference)

\* validate of the annotations: the parameters of the types fit together.
Validated(op, result, types) ==
  LET validate == Registered[op].validate
      integers == result.kind = "INTEGER" /\ AllOfKind(types, "INTEGER")
      equal == \A i \in DOMAIN types : types[i] = result
  IN CASE validate = "arithmetic" -> (Len(types) = 2 /\ integers) \/ equal
       [] validate = "power" -> integers \/ (result = types[1] /\ types[2].kind = "INTEGER")
       [] validate = "comparison" -> ~Differ(types) \/ AllOfKind(types, "INTEGER")
       [] validate = "equal" -> equal
       [] validate = "compareEqual" -> ~Differ(types)
       [] validate = "shift" -> IF types[2].kind = "INTEGER" THEN result = types[1] ELSE equal
       [] validate = "wider" -> result.bitsize > types[1].bitsize
       [] validate = "narrower" -> result.bitsize < types[1].bitsize
       [] validate = "element" -> types[1].result = result
       [] validate = "result" -> TRUE

\* valid() of the relation type of the call.
Valid(op, result, types) ==
  << result.kind >> \o Kind(types) \in Templates(op) /\ Validated(op, result, types)
=============================================================================
