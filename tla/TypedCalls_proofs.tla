--------------------------- MODULE TypedCalls_proofs ---------------------------
(***************************************************************************)
(* Proofs about TypedCalls, for any types, registers and widths.           *)
(***************************************************************************)
EXTENDS TypedCalls, TLAPS

-----------------------------------------------------------------------------
(* Types *)

PlainKind == {"VOID", "BOOLEAN", "STRING", "DECIMAL", "RATIONAL"}

\* The types of clients and those that annotations infer.
AnyType ==
  Type \cup { Plain(kind) : kind \in PlainKind \cup {"INTEGER"} }
       \cup { Binary(n) : n \in 1 .. SizeMax }

\* Types that both stand for integers are told apart by their ranges alone.
Alike(a, b) == a = b \/ (a.kind = "INTEGER" /\ b.kind = "INTEGER")

LEMMA PlainParts == \A kind : Plain(kind).kind = kind
  BY DEF Plain

LEMMA TypeParts ==
  ASSUME NEW type \in AnyType
  PROVE  /\ type.kind \notin {"null", "throws"}
         /\ type \notin {Null, Throws}
         /\ type.kind \in PlainKind => type = Plain(type.kind)
         /\ type.kind = "INTEGER" => type \in {INTEGER, RangedInteger}
         /\ type.kind = "BINARY" => \E n \in 1 .. SizeMax : type = Binary(n) /\ type.bitsize = n
         /\ type.kind = "LIST" => type.result \in AnyType
<1>1. Null.kind = "null" /\ Throws.kind = "throws"
  BY DEF Null, Throws, Plain
<1>2. CASE type \in Type
  <2>1. type.kind = "BINARY" => \E n \in Bitsize : type = Binary(n)
    BY <1>2, TypeAssumption
  <2>2. type.kind = "BINARY" => \E n \in 1 .. SizeMax : type = Binary(n) /\ type.bitsize = n
    BY <2>1, BitsizeAssumption DEF Binary
  <2>3. /\ type.kind \in PlainKind => type = Plain(type.kind)
        /\ type.kind = "INTEGER" => type \in {INTEGER, RangedInteger}
        /\ type.kind = "LIST" => type.result \in Type
        /\ type.kind \notin {"null", "throws"}
    BY <1>1, <1>2, TypeAssumption DEF PlainKind
  <2>4. QED
    BY <1>1, <2>2, <2>3 DEF AnyType
<1>3. CASE type \in { Plain(kind) : kind \in PlainKind \cup {"INTEGER"} }
  <2>1. PICK kind \in PlainKind \cup {"INTEGER"} : type = Plain(kind)
    BY <1>3
  <2>2. type.kind = kind
    BY <2>1, PlainParts
  <2>3. QED
    BY <1>1, <2>1, <2>2 DEF PlainKind, INTEGER
<1>4. CASE type \in { Binary(n) : n \in 1 .. SizeMax }
  <2>1. PICK n \in 1 .. SizeMax : type = Binary(n)
    BY <1>4
  <2>2. type.kind = "BINARY" /\ type.bitsize = n
    BY <2>1 DEF Binary
  <2>3. QED
    BY <1>1, <2>1, <2>2 DEF PlainKind
<1>5. QED
  BY <1>2, <1>3, <1>4 DEF AnyType

\* The types of which there is one.
LEMMA NamedTypes ==
  /\ VOID \in AnyType /\ BOOLEAN_TYPE \in AnyType /\ INTEGER \in AnyType
  /\ STRING_TYPE \in AnyType /\ DECIMAL \in AnyType /\ RATIONAL \in AnyType
  /\ VOID.kind = "VOID" /\ BOOLEAN_TYPE.kind = "BOOLEAN" /\ INTEGER.kind = "INTEGER"
  /\ STRING_TYPE.kind = "STRING" /\ DECIMAL.kind = "DECIMAL" /\ RATIONAL.kind = "RATIONAL"
  /\ \A type \in AnyType :
       /\ type.kind = "VOID" => type = VOID
       /\ type.kind = "BOOLEAN" => type = BOOLEAN_TYPE
       /\ type.kind = "STRING" => type = STRING_TYPE
       /\ type.kind = "DECIMAL" => type = DECIMAL
       /\ type.kind = "RATIONAL" => type = RATIONAL
<1>1. /\ VOID = Plain("VOID") /\ BOOLEAN_TYPE = Plain("BOOLEAN") /\ INTEGER = Plain("INTEGER")
      /\ STRING_TYPE = Plain("STRING") /\ DECIMAL = Plain("DECIMAL") /\ RATIONAL = Plain("RATIONAL")
  BY DEF VOID, BOOLEAN_TYPE, INTEGER, STRING_TYPE, DECIMAL, RATIONAL
<1>2. \A kind \in PlainKind \cup {"INTEGER"} : Plain(kind) \in AnyType
  BY DEF AnyType
<1>3. QED
  BY <1>1, <1>2, PlainParts, TypeParts DEF PlainKind

-----------------------------------------------------------------------------
(* Relations *)

\* The kinds of a relation type are those of a template.
Templated(op, result, types) == << result.kind >> \o Kind(types) \in Templates(op)

LEMMA ValidParts ==
  \A op, result, types :
    Valid(op, result, types) <=> Templated(op, result, types) /\ Validated(op, result, types)
  BY DEF Valid, Templated

\* What a relation makes of operands it is registered for.
Makes(r, kind) == kind \in IF r.result = "_SIZE_" THEN {"INTEGER", "BOOLEAN"} ELSE {r.result}

LEMMA TemplatedBy ==
  ASSUME NEW op, NEW result, NEW types
  PROVE  Templated(op, result, types) <=>
           \E r \in Registered[op].relations : \E kind :
             Makes(r, kind) /\ << result.kind >> \o Kind(types) = << kind >> \o r.argument
<1> DEFINE Of(r) ==
      { << kind >> \o r.argument :
          kind \in IF r.result = "_SIZE_" THEN {"INTEGER", "BOOLEAN"} ELSE {r.result} }
<1>1. Templates(op) = UNION { Of(r) : r \in Registered[op].relations }
  BY DEF Templates
<1>2. \A r, x : x \in Of(r) <=> \E kind : Makes(r, kind) /\ x = << kind >> \o r.argument
  BY DEF Makes
<1> HIDE DEF Of
<1>3. \A x : x \in Templates(op) <=>
        \E r \in Registered[op].relations : \E kind : Makes(r, kind) /\ x = << kind >> \o r.argument
  <2>1. \A x : x \in UNION { Of(r) : r \in Registered[op].relations } <=>
          \E r \in Registered[op].relations : x \in Of(r)
    OBVIOUS
  <2>2. TAKE x
  <2>3. x \in Templates(op) <=> \E r \in Registered[op].relations : x \in Of(r)
    BY <1>1, <2>1
  <2>4. QED
    BY <1>2, <2>3, Zenon
<1>4. QED
  BY <1>3 DEF Templated

LEMMA RelationParts ==
  \A result, arguments : /\ Relation(result, arguments).result = result
                         /\ Relation(result, arguments).argument = arguments
  BY DEF Relation

LEMMA UnaryTemplate ==
  ASSUME NEW x, NEW y, NEW a, NEW b
  PROVE  << x >> \o << a >> = << y >> \o << b >> <=> x = y /\ a = b
<1> DEFINE s == << x >> \o << a >>
           t == << y >> \o << b >>
<1>1. s[1] = x /\ s[2] = a /\ t[1] = y /\ t[2] = b
  OBVIOUS
<1>2. x = y /\ a = b => s = t
  OBVIOUS
<1> HIDE DEF s, t
<1>3. s = t <=> x = y /\ a = b
  BY <1>1, <1>2
<1>4. QED
  BY <1>3 DEF s, t

\* The same of two operands.
Pair(p) == p = << p[1], p[2] >>
Joined(x, p) == << x >> \o p

LEMMA BinaryTemplate ==
  ASSUME NEW x, NEW y, NEW p, NEW q, Pair(p), Pair(q)
  PROVE  Joined(x, p) = Joined(y, q) <=> x = y /\ p[1] = q[1] /\ p[2] = q[2]
<1> DEFINE s == << x >> \o p
           t == << y >> \o q
<1>1. s[1] = x /\ s[2] = p[1] /\ s[3] = p[2] /\ t[1] = y /\ t[2] = q[1] /\ t[3] = q[2]
  BY DEF Pair
<1>2. x = y /\ p[1] = q[1] /\ p[2] = q[2] => s = t
  BY DEF Pair
<1> HIDE DEF s, t
<1>3. s = t <=> x = y /\ p[1] = q[1] /\ p[2] = q[2]
  BY <1>1, <1>2
<1>4. QED
  BY <1>3 DEF s, t, Joined

\* Operations on one operand: the templates and the operands that are accepted.
UnaryRelations(op) ==
  /\ Registered[op].relations # {}
  /\ \A r \in Registered[op].relations : r.argument = << r.argument[1] >>
BinaryRelations(op) ==
  /\ Registered[op].relations # {}
  /\ \A r \in Registered[op].relations : r.argument = << r.argument[1], r.argument[2] >>

LEMMA UnaryOperation ==
  ASSUME NEW op, UnaryRelations(op)
  PROVE  /\ Arity(op) = 1
         /\ \A T : \A types \in [1 .. 1 -> T] :
              /\ \A result : Templated(op, result, types) <=>
                   \E r \in Registered[op].relations :
                     Makes(r, result.kind) /\ r.argument[1] = types[1].kind
              /\ Accepts(op, types) <=>
                   \E r \in Registered[op].relations : r.argument[1] = types[1].kind
<1>1. Arity(op) = 1
  <2> DEFINE r == CHOOSE r \in Registered[op].relations : TRUE
  <2>1. r \in Registered[op].relations
    BY DEF UnaryRelations
  <2> HIDE DEF r
  <2>2. Len(r.argument) = 1
    <3>1. \A a : Len(<< a >>) = 1
      OBVIOUS
    <3>2. QED
      BY <2>1, <3>1, Zenon DEF UnaryRelations
  <2>3. QED
    BY <2>2 DEF Arity, r
<1>2. SUFFICES ASSUME NEW T, NEW types \in [1 .. 1 -> T]
               PROVE  /\ \A result : Templated(op, result, types) <=>
                           \E r \in Registered[op].relations :
                             Makes(r, result.kind) /\ r.argument[1] = types[1].kind
                      /\ Accepts(op, types) <=>
                           \E r \in Registered[op].relations : r.argument[1] = types[1].kind
  BY <1>1
<1>3. Kind(types) = << types[1].kind >>
  BY DEF Kind
<1>4. \A a, b : << a >> = << b >> <=> a = b
  OBVIOUS
<1>5. Accepts(op, types) <=>
        \E r \in Registered[op].relations : r.argument[1] = types[1].kind
  BY <1>3, <1>4 DEF Accepts, UnaryRelations
<1>6. ASSUME NEW result
      PROVE  Templated(op, result, types) <=>
               \E r \in Registered[op].relations :
                 Makes(r, result.kind) /\ r.argument[1] = types[1].kind
  <2>1. \A r \in Registered[op].relations : \A kind :
          << result.kind >> \o Kind(types) = << kind >> \o r.argument <=>
          result.kind = kind /\ types[1].kind = r.argument[1]
    BY <1>3, UnaryTemplate DEF UnaryRelations
  <2>2. QED
    BY <2>1, TemplatedBy
<1>7. QED
  BY <1>5, <1>6

LEMMA BinaryOperation ==
  ASSUME NEW op, BinaryRelations(op)
  PROVE  /\ Arity(op) = 2
         /\ \A T : \A types \in [1 .. 2 -> T] :
              /\ \A result : Templated(op, result, types) <=>
                   \E r \in Registered[op].relations :
                     /\ Makes(r, result.kind)
                     /\ r.argument[1] = types[1].kind /\ r.argument[2] = types[2].kind
              /\ Accepts(op, types) <=>
                   \E r \in Registered[op].relations :
                     r.argument[1] = types[1].kind /\ r.argument[2] = types[2].kind
<1>1. Arity(op) = 2
  <2> DEFINE r == CHOOSE r \in Registered[op].relations : TRUE
  <2>1. r \in Registered[op].relations
    BY DEF BinaryRelations
  <2> HIDE DEF r
  <2>2. Len(r.argument) = 2
    <3>1. \A a, b : Len(<< a, b >>) = 2
      OBVIOUS
    <3>2. QED
      BY <2>1, <3>1, Zenon DEF BinaryRelations
  <2>3. QED
    BY <2>2 DEF Arity, r
<1>2. SUFFICES ASSUME NEW T, NEW types \in [1 .. 2 -> T]
               PROVE  /\ \A result : Templated(op, result, types) <=>
                           \E r \in Registered[op].relations :
                             /\ Makes(r, result.kind)
                             /\ r.argument[1] = types[1].kind /\ r.argument[2] = types[2].kind
                      /\ Accepts(op, types) <=>
                           \E r \in Registered[op].relations :
                             r.argument[1] = types[1].kind /\ r.argument[2] = types[2].kind
  BY <1>1
<1>3. Kind(types) = << types[1].kind, types[2].kind >>
  BY DEF Kind
<1>4. \A a, b, c, d : << a, c >> = << b, d >> <=> a = b /\ c = d
  OBVIOUS
<1>5. Accepts(op, types) <=>
        \E r \in Registered[op].relations :
          r.argument[1] = types[1].kind /\ r.argument[2] = types[2].kind
  BY <1>3, <1>4 DEF Accepts, BinaryRelations
<1>6. ASSUME NEW result
      PROVE  Templated(op, result, types) <=>
               \E r \in Registered[op].relations :
                 /\ Makes(r, result.kind)
                 /\ r.argument[1] = types[1].kind /\ r.argument[2] = types[2].kind
  <2>1. ASSUME NEW r \in Registered[op].relations, NEW kind
        PROVE  << result.kind >> \o Kind(types) = << kind >> \o r.argument <=>
               result.kind = kind /\ types[1].kind = r.argument[1] /\ types[2].kind = r.argument[2]
    <3>1. Pair(r.argument) /\ Pair(Kind(types))
      BY <1>3 DEF Pair, BinaryRelations
    <3>2. Joined(result.kind, Kind(types)) = Joined(kind, r.argument) <=>
          result.kind = kind /\ Kind(types)[1] = r.argument[1] /\ Kind(types)[2] = r.argument[2]
      BY <3>1, BinaryTemplate
    <3>3. Kind(types)[1] = types[1].kind /\ Kind(types)[2] = types[2].kind
      BY <1>3
    <3>4. QED
      BY <3>2, <3>3, Zenon DEF Joined
  <2>2. QED
    BY <2>1, TemplatedBy
<1>7. QED
  BY <1>5, <1>6

-----------------------------------------------------------------------------
(* Signatures *)

\* The operands and results of the shapes of relations that operations have in common.
Converts(op, kinds, made) ==
  /\ Arity(op) = 1
  /\ \A types \in [1 .. 1 -> AnyType] :
       /\ \A result : Templated(op, result, types) <=> types[1].kind \in kinds /\ result.kind = made
       /\ Accepts(op, types) <=> types[1].kind \in kinds

KeepsKind(op, kinds) ==
  /\ Arity(op) = 1
  /\ \A types \in [1 .. 1 -> AnyType] :
       /\ \A result : Templated(op, result, types) <=>
            types[1].kind \in kinds /\ result.kind = types[1].kind
       /\ Accepts(op, types) <=> types[1].kind \in kinds

JoinsKind(op, kinds) ==
  /\ Arity(op) = 2
  /\ \A types \in [1 .. 2 -> AnyType] :
       /\ \A result : Templated(op, result, types) <=>
            /\ types[1].kind \in kinds /\ types[2].kind = types[1].kind
            /\ result.kind = types[1].kind
       /\ Accepts(op, types) <=> types[1].kind \in kinds /\ types[2].kind = types[1].kind

ComparesKind(op, kinds) ==
  /\ Arity(op) = 2
  /\ \A types \in [1 .. 2 -> AnyType] :
       /\ \A result : Templated(op, result, types) <=>
            /\ types[1].kind \in kinds /\ types[2].kind = types[1].kind
            /\ result.kind = "BOOLEAN"
       /\ Accepts(op, types) <=> types[1].kind \in kinds /\ types[2].kind = types[1].kind

\* Operations on a value of the one kind and an operand of the others.
AdjustsKind(op, kinds, others) ==
  /\ Arity(op) = 2
  /\ \A types \in [1 .. 2 -> AnyType] :
       /\ \A result : Templated(op, result, types) <=>
            /\ types[1].kind \in kinds /\ types[2].kind \in others
            /\ result.kind = types[1].kind
       /\ Accepts(op, types) <=> types[1].kind \in kinds /\ types[2].kind \in others

LEMMA UnaryRelationParts ==
  \A k, made : LET r == Relation(made, << k >>)
               IN r.argument[1] = k /\ r.argument = << r.argument[1] >> /\ r.result = made
  BY RelationParts

LEMMA BinaryRelationParts ==
  \A k, other, made :
    LET r == Relation(made, << k, other >>)
    IN /\ r.argument[1] = k /\ r.argument[2] = other
       /\ r.argument = << r.argument[1], r.argument[2] >> /\ r.result = made
  BY RelationParts

LEMMA ToConverts ==
  ASSUME NEW op, NEW kinds, kinds # {}, NEW made, made # "_SIZE_",
         Registered[op].relations = To(made, kinds)
  PROVE  Converts(op, kinds, made)
<1>1. ASSUME NEW r \in Registered[op].relations
      PROVE  /\ r.argument[1] \in kinds
             /\ r.argument = << r.argument[1] >> /\ r.result = made
  <2>1. PICK k \in kinds : r = Relation(made, << k >>)
    BY DEF To
  <2>2. QED
    BY <2>1, UnaryRelationParts
<1>2. ASSUME NEW k \in kinds
      PROVE  \E r \in Registered[op].relations : r.argument[1] = k /\ r.result = made
  <2>1. Relation(made, << k >>) \in Registered[op].relations
    BY DEF To
  <2>2. QED
    BY <2>1, UnaryRelationParts
<1>3. UnaryRelations(op)
  BY <1>1, <1>2 DEF UnaryRelations
<1>4. ASSUME NEW types \in [1 .. 1 -> AnyType]
      PROVE  /\ \A result : Templated(op, result, types) <=>
                  types[1].kind \in kinds /\ result.kind = made
             /\ Accepts(op, types) <=> types[1].kind \in kinds
  <2>1. /\ \A result : Templated(op, result, types) <=>
             \E r \in Registered[op].relations :
               /\ Makes(r, result.kind)
               /\ r.argument[1] = types[1].kind
        /\ Accepts(op, types) <=>
             \E r \in Registered[op].relations : r.argument[1] = types[1].kind
    BY <1>3, UnaryOperation
  <2>2. \A r \in Registered[op].relations : \A kind : Makes(r, kind) <=> kind = r.result
    BY <1>1 DEF Makes
  <2>3. QED
    BY <1>1, <1>2, <2>1, <2>2
<1>5. QED
  BY <1>3, <1>4, UnaryOperation DEF Converts

LEMMA SameKeepsKind ==
  ASSUME NEW op, NEW kinds, kinds # {}, "_SIZE_" \notin kinds,
         Registered[op].relations = Same(kinds)
  PROVE  KeepsKind(op, kinds)
<1>1. ASSUME NEW r \in Registered[op].relations
      PROVE  /\ r.argument[1] \in kinds
             /\ r.argument = << r.argument[1] >> /\ r.result = r.argument[1]
  <2>1. PICK k \in kinds : r = Relation(k, << k >>)
    BY DEF Same
  <2>2. QED
    BY <2>1, UnaryRelationParts
<1>2. ASSUME NEW k \in kinds
      PROVE  \E r \in Registered[op].relations : r.argument[1] = k /\ r.result = k
  <2>1. Relation(k, << k >>) \in Registered[op].relations
    BY DEF Same
  <2>2. QED
    BY <2>1, UnaryRelationParts
<1>3. UnaryRelations(op)
  BY <1>1, <1>2 DEF UnaryRelations
<1>4. ASSUME NEW types \in [1 .. 1 -> AnyType]
      PROVE  /\ \A result : Templated(op, result, types) <=>
                  types[1].kind \in kinds /\ result.kind = types[1].kind
             /\ Accepts(op, types) <=> types[1].kind \in kinds
  <2>1. /\ \A result : Templated(op, result, types) <=>
             \E r \in Registered[op].relations :
               /\ Makes(r, result.kind)
               /\ r.argument[1] = types[1].kind
        /\ Accepts(op, types) <=>
             \E r \in Registered[op].relations : r.argument[1] = types[1].kind
    BY <1>3, UnaryOperation
  <2>2. \A r \in Registered[op].relations : \A kind : Makes(r, kind) <=> kind = r.result
    BY <1>1 DEF Makes
  <2>3. QED
    BY <1>1, <1>2, <2>1, <2>2
<1>5. QED
  BY <1>3, <1>4, UnaryOperation DEF KeepsKind

LEMMA SamePairsJoinsKind ==
  ASSUME NEW op, NEW kinds, kinds # {}, "_SIZE_" \notin kinds,
         Registered[op].relations = SamePairs(kinds)
  PROVE  JoinsKind(op, kinds)
<1>1. ASSUME NEW r \in Registered[op].relations
      PROVE  /\ r.argument[1] \in kinds /\ r.argument[2] = r.argument[1]
             /\ r.argument = << r.argument[1], r.argument[2] >> /\ r.result = r.argument[1]
  <2>1. PICK k \in kinds : r = Relation(k, << k, k >>)
    BY DEF SamePairs
  <2>2. QED
    BY <2>1, BinaryRelationParts
<1>2. ASSUME NEW k \in kinds
      PROVE  \E r \in Registered[op].relations :
               r.argument[1] = k /\ r.argument[2] = k /\ r.result = k
  <2>1. Relation(k, << k, k >>) \in Registered[op].relations
    BY DEF SamePairs
  <2>2. QED
    BY <2>1, BinaryRelationParts
<1>3. BinaryRelations(op)
  BY <1>1, <1>2 DEF BinaryRelations
<1>4. ASSUME NEW types \in [1 .. 2 -> AnyType]
      PROVE  /\ \A result : Templated(op, result, types) <=>
                  /\ types[1].kind \in kinds /\ types[2].kind = types[1].kind
                  /\ result.kind = types[1].kind
             /\ Accepts(op, types) <=> types[1].kind \in kinds /\ types[2].kind = types[1].kind
  <2>1. /\ \A result : Templated(op, result, types) <=>
             \E r \in Registered[op].relations :
               /\ Makes(r, result.kind)
               /\ r.argument[1] = types[1].kind /\ r.argument[2] = types[2].kind
        /\ Accepts(op, types) <=>
             \E r \in Registered[op].relations :
               r.argument[1] = types[1].kind /\ r.argument[2] = types[2].kind
    BY <1>3, BinaryOperation
  <2>2. \A r \in Registered[op].relations : \A kind : Makes(r, kind) <=> kind = r.result
    BY <1>1 DEF Makes
  <2>3. QED
    BY <1>1, <1>2, <2>1, <2>2
<1>5. QED
  BY <1>3, <1>4, BinaryOperation DEF JoinsKind

LEMMA ComparedComparesKind ==
  ASSUME NEW op, NEW kinds, kinds # {},
         Registered[op].relations = Compared(kinds)
  PROVE  ComparesKind(op, kinds)
<1>1. ASSUME NEW r \in Registered[op].relations
      PROVE  /\ r.argument[1] \in kinds /\ r.argument[2] = r.argument[1]
             /\ r.argument = << r.argument[1], r.argument[2] >> /\ r.result = "BOOLEAN"
  <2>1. PICK k \in kinds : r = Relation("BOOLEAN", << k, k >>)
    BY DEF Compared
  <2>2. QED
    BY <2>1, BinaryRelationParts
<1>2. ASSUME NEW k \in kinds
      PROVE  \E r \in Registered[op].relations :
               r.argument[1] = k /\ r.argument[2] = k /\ r.result = "BOOLEAN"
  <2>1. Relation("BOOLEAN", << k, k >>) \in Registered[op].relations
    BY DEF Compared
  <2>2. QED
    BY <2>1, BinaryRelationParts
<1>3. BinaryRelations(op)
  BY <1>1, <1>2 DEF BinaryRelations
<1>4. ASSUME NEW types \in [1 .. 2 -> AnyType]
      PROVE  /\ \A result : Templated(op, result, types) <=>
                  /\ types[1].kind \in kinds /\ types[2].kind = types[1].kind
                  /\ result.kind = "BOOLEAN"
             /\ Accepts(op, types) <=> types[1].kind \in kinds /\ types[2].kind = types[1].kind
  <2>1. /\ \A result : Templated(op, result, types) <=>
             \E r \in Registered[op].relations :
               /\ Makes(r, result.kind)
               /\ r.argument[1] = types[1].kind /\ r.argument[2] = types[2].kind
        /\ Accepts(op, types) <=>
             \E r \in Registered[op].relations :
               r.argument[1] = types[1].kind /\ r.argument[2] = types[2].kind
    BY <1>3, BinaryOperation
  <2>2. \A r \in Registered[op].relations : \A kind : Makes(r, kind) <=> kind = r.result
    BY <1>1 DEF Makes
  <2>3. QED
    BY <1>1, <1>2, <2>1, <2>2
<1>5. QED
  BY <1>3, <1>4, BinaryOperation DEF ComparesKind

LEMMA MixedAdjustsKind ==
  ASSUME NEW op, NEW kinds, NEW others, kinds # {}, others # {}, "_SIZE_" \notin kinds,
         \A r : r \in Registered[op].relations <=>
           \E k \in kinds : \E other \in others : r = Relation(k, << k, other >>)
  PROVE  AdjustsKind(op, kinds, others)
<1>1. ASSUME NEW r \in Registered[op].relations
      PROVE  /\ r.argument[1] \in kinds /\ r.argument[2] \in others
             /\ r.argument = << r.argument[1], r.argument[2] >> /\ r.result = r.argument[1]
  <2>1. PICK k \in kinds, other \in others : r = Relation(k, << k, other >>)
    OBVIOUS
  <2>2. QED
    BY <2>1, BinaryRelationParts
<1>2. ASSUME NEW k \in kinds, NEW other \in others
      PROVE  \E r \in Registered[op].relations :
               r.argument[1] = k /\ r.argument[2] = other /\ r.result = k
  <2>1. Relation(k, << k, other >>) \in Registered[op].relations
    OBVIOUS
  <2>2. QED
    BY <2>1, BinaryRelationParts
<1>3. BinaryRelations(op)
  BY <1>1, <1>2 DEF BinaryRelations
<1>4. ASSUME NEW types \in [1 .. 2 -> AnyType]
      PROVE  /\ \A result : Templated(op, result, types) <=>
                  /\ types[1].kind \in kinds /\ types[2].kind \in others
                  /\ result.kind = types[1].kind
             /\ Accepts(op, types) <=> types[1].kind \in kinds /\ types[2].kind \in others
  <2>1. /\ \A result : Templated(op, result, types) <=>
             \E r \in Registered[op].relations :
               /\ Makes(r, result.kind)
               /\ r.argument[1] = types[1].kind /\ r.argument[2] = types[2].kind
        /\ Accepts(op, types) <=>
             \E r \in Registered[op].relations :
               r.argument[1] = types[1].kind /\ r.argument[2] = types[2].kind
    BY <1>3, BinaryOperation
  <2>2. \A r \in Registered[op].relations : \A kind : Makes(r, kind) <=> kind = r.result
    BY <1>1 DEF Makes
  <2>3. ASSUME NEW result
        PROVE  Templated(op, result, types) <=>
                 /\ types[1].kind \in kinds /\ types[2].kind \in others
                 /\ result.kind = types[1].kind
    <3>1. Templated(op, result, types) =>
            /\ types[1].kind \in kinds /\ types[2].kind \in others
            /\ result.kind = types[1].kind
      BY <1>1, <2>1, <2>2
    <3>2. ASSUME types[1].kind \in kinds, types[2].kind \in others, result.kind = types[1].kind
          PROVE  Templated(op, result, types)
      <4>1. PICK r \in Registered[op].relations :
              /\ r.argument[1] = types[1].kind /\ r.argument[2] = types[2].kind
              /\ r.result = types[1].kind
        BY <1>2, <3>2
      <4>2. Makes(r, result.kind)
        BY <2>2, <3>2, <4>1
      <4>3. QED
        BY <2>1, <4>1, <4>2
    <3>3. QED
      BY <3>1, <3>2
  <2>4. Accepts(op, types) <=> types[1].kind \in kinds /\ types[2].kind \in others
    <3>1. Accepts(op, types) => types[1].kind \in kinds /\ types[2].kind \in others
      BY <1>1, <2>1
    <3>2. ASSUME types[1].kind \in kinds, types[2].kind \in others
          PROVE  Accepts(op, types)
      <4>1. \E r \in Registered[op].relations :
              /\ r.argument[1] = types[1].kind /\ r.argument[2] = types[2].kind
              /\ r.result = types[1].kind
        BY <1>2, <3>2
      <4>2. QED
        BY <2>1, <4>1
    <3>3. QED
      BY <3>1, <3>2
  <2>5. QED
    BY <2>3, <2>4
<1>5. QED
  BY <1>3, <1>4, BinaryOperation DEF AdjustsKind

-----------------------------------------------------------------------------
(* The annotations, by what they have in common *)

ArithmeticPair == {"add", "sub", "mul", "mod", "div"}
LogicPair == {"and", "xor", "or"}
Comparison == {"equ", "neq", "lth", "leq", "gth", "geq"}
ArithmeticBuiltin == {"addu", "adds", "subu", "subs", "mulu", "muls"}
CompareBuiltin == {"lesu", "less", "lequ", "leqs", "greu", "gres", "gequ", "geqs"}

LEMMA ArithmeticPairs ==
  ASSUME NEW op \in ArithmeticPair
  PROVE  \E kinds \in SUBSET (Numeric \cup {"STRING"}) :
           /\ Registered[op] =
                Annotation(SamePairs(kinds), "operands", "arithmetic", "arithmetic")
           /\ kinds # {} /\ (op = "mod" => kinds = {"INTEGER"})
<1>1. /\ Registered["add"] = AddAnnotation /\ Registered["sub"] = SubAnnotation
      /\ Registered["mul"] = MulAnnotation /\ Registered["mod"] = ModAnnotation
      /\ Registered["div"] = DivAnnotation
  BY DEF Registered
<1>2. QED
  BY <1>1 DEF ArithmeticPair, AddAnnotation, SubAnnotation, MulAnnotation, ModAnnotation,
              DivAnnotation, Numeric

LEMMA LogicPairs ==
  ASSUME NEW op \in LogicPair
  PROVE  Registered[op] =
           Annotation(SamePairs({"BOOLEAN", "BINARY"}), "operands", "logic", "arithmetic")
  BY DEF LogicPair, Registered, AndAnnotation, XorAnnotation, OrAnnotation

LEMMA Comparisons ==
  ASSUME NEW op \in Comparison
  PROVE  \E kinds \in SUBSET Comparable :
           /\ Registered[op] =
                Annotation(Compared(kinds), "operands", "comparison", "comparison")
           /\ kinds # {} /\ (op \notin {"equ", "neq"} => kinds = Numeric)
<1>1. /\ Registered["equ"] = EquAnnotation /\ Registered["neq"] = NeqAnnotation
      /\ Registered["lth"] = LthAnnotation /\ Registered["leq"] = LeqAnnotation
      /\ Registered["gth"] = GthAnnotation /\ Registered["geq"] = GeqAnnotation
  BY DEF Registered
<1>2. QED
  BY <1>1 DEF Comparison, EquAnnotation, NeqAnnotation, LthAnnotation, LeqAnnotation,
              GthAnnotation, GeqAnnotation, Comparable, Numeric

LEMMA ArithmeticBuiltins ==
  ASSUME NEW op \in ArithmeticBuiltin
  PROVE  Registered[op] =
           Annotation(SamePairs({"INTEGER", "BINARY"}), "operands", "equal", "equal")
  BY DEF ArithmeticBuiltin, Registered, ArithmeticBuiltinAnnotation, AdduAnnotation,
         AddsAnnotation, SubuAnnotation, SubsAnnotation, MuluAnnotation, MulsAnnotation

LEMMA CompareBuiltins ==
  ASSUME NEW op \in CompareBuiltin
  PROVE  Registered[op] =
           Annotation(Compared(Numeric), "operands", "compareEqual", "compareEqual")
  BY DEF CompareBuiltin, Registered, CompareBuiltinAnnotation, LesuAnnotation, LessAnnotation,
         LequAnnotation, LeqsAnnotation, GreuAnnotation, GresAnnotation, GequAnnotation,
         GeqsAnnotation
Extension == {"zext", "sext", "trunc"}
Shifting == {"shl", "shr", "ashr"}
Printing == {"print", "println"}

\* Builtins on one operand that always make constants of one type.
Conversion ==
  {"isSymbolic", "assert", "assure", "size", "asBoolean", "asString", "asDecimal", "asRational",
   "dec", "hex", "oct", "bin", "clz", "clo", "cls"}

LEMMA Conversions ==
  ASSUME NEW op \in Conversion
  PROVE  \E kinds \in SUBSET Comparable, made \in PlainKind \cup {"INTEGER"},
           resolve \in {"none", "boolean"} :
           /\ Registered[op] = Annotation(To(made, kinds), resolve, made, "result")
           /\ kinds # {}
           /\ resolve = "boolean" => made = "VOID"
<1> USE DEF PlainKind, Comparable, Numeric, Stringified
<1>1. CASE op = "isSymbolic"
  BY <1>1 DEF Registered, IsSymbolicAnnotation
<1>2. CASE op \in {"assert", "assure"}
  BY <1>2 DEF Registered, AssertAnnotation, AssureAnnotation
<1>3. CASE op = "size"
  BY <1>3 DEF Registered, SizeAnnotation
<1>4. CASE op = "asBoolean"
  BY <1>4 DEF Registered, AsBooleanAnnotation
<1>5. CASE op = "asString"
  BY <1>5 DEF Registered, AsStringAnnotation
<1>6. CASE op = "asDecimal"
  BY <1>6 DEF Registered, AsDecimalAnnotation
<1>7. CASE op = "asRational"
  BY <1>7 DEF Registered, AsRationalAnnotation
<1>8. CASE op \in {"dec", "hex", "oct", "bin"}
  BY <1>8 DEF Registered, StringifyAnnotation, DecAnnotation, HexAnnotation, OctAnnotation,
              BinAnnotation
<1>9. CASE op \in {"clz", "clo", "cls"}
  BY <1>9 DEF Registered, ClzAnnotation, CloAnnotation, ClsAnnotation
<1>10. QED
  BY <1>1, <1>2, <1>3, <1>4, <1>5, <1>6, <1>7, <1>8, <1>9 DEF Conversion

LEMMA Singles ==
  /\ Registered["inv"] = Annotation(Same(Numeric), "none", "arithmetic", "arithmetic")
  /\ Registered["not"] = Annotation(Same({"BOOLEAN", "BINARY"}), "none", "logic", "arithmetic")
  /\ Registered["imp"] = Annotation(SamePairs({"BOOLEAN"}), "boolean", "logic", "arithmetic")
  /\ Registered["pow"].resolve = "exponent" /\ Registered["pow"].inference = "arithmetic"
  /\ Registered["pow"].validate = "power"
  /\ Registered["abort"] = Annotation({ Relation("VOID", << >>) }, "none", "VOID", "result")
  /\ Registered["at"] =
       Annotation({ Relation("_SIZE_", << "LIST", "INTEGER" >>) }, "none", "element", "element")
  /\ Registered["asInteger"] =
       Annotation(To("INTEGER", {"BOOLEAN", "INTEGER", "BINARY", "DECIMAL"}),
                  "none", "asInteger", "result")
  /\ Registered["asBinary"] =
       Annotation(To("BINARY", {"BOOLEAN", "INTEGER", "BINARY", "DECIMAL"}),
                  "none", "null", "result")
  /\ Registered["asEnumeration"] = Annotation(Same({"ENUMERATION"}), "none", "null", "result")
  BY DEF Registered, InvAnnotation, NotAnnotation, ImpAnnotation, PowAnnotation, AbortAnnotation,
         AtAnnotation, AsIntegerAnnotation, AsBinaryAnnotation, AsEnumerationAnnotation, Annotation

LEMMA Printings ==
  ASSUME NEW op \in Printing
  PROVE  Registered[op] = Annotation(To("VOID", {"STRING"}), "string", "output", "result")
  BY DEF Printing, Registered, PrintAnnotation, PrintLnAnnotation

LEMMA Extensions ==
  ASSUME NEW op \in Extension
  PROVE  \E validate \in {"wider", "narrower"} :
           /\ Registered[op] =
                Annotation({ Relation("BINARY", << "BINARY", "INTEGER" >>) },
                           "none", "width", validate)
           /\ validate = "narrower" <=> op = "trunc"
  BY DEF Extension, Registered, ZextAnnotation, SextAnnotation, TruncAnnotation

LEMMA Shiftings ==
  ASSUME NEW op \in Shifting
  PROVE  Registered[op] = Annotation(ShiftRelations, "none", "shift", "shift")
  BY DEF Shifting, Registered, ShlAnnotation, ShrAnnotation, AshrAnnotation

\* Every operation is one of these.
LEMMA TokenCases ==
  Token =
    ArithmeticPair \cup LogicPair \cup Comparison \cup ArithmeticBuiltin \cup CompareBuiltin
      \cup Extension \cup Shifting \cup Printing \cup Conversion
      \cup {"inv", "not", "imp", "pow", "abort", "at", "asInteger", "asBinary", "asEnumeration"}
  BY DEF Token, Registered, ArithmeticPair, LogicPair, Comparison, ArithmeticBuiltin,
         CompareBuiltin, Extension, Shifting, Printing, Conversion

LEMMA AnnotationParts ==
  \A relations, resolve, inference, validate :
    LET a == Annotation(relations, resolve, inference, validate)
    IN /\ a.relations = relations /\ a.resolve = resolve
       /\ a.inference = inference /\ a.validate = validate
  BY DEF Annotation
\* How an operation completes, infers and validates types.
Traits(op, resolve, inference, validate) ==
  /\ Registered[op].resolve = resolve /\ Registered[op].inference = inference
  /\ Registered[op].validate = validate

LEMMA ArithmeticPairSigned ==
  ASSUME NEW op \in ArithmeticPair
  PROVE  /\ Traits(op, "operands", "arithmetic", "arithmetic")
         /\ \E kinds \in SUBSET (Numeric \cup {"STRING"}) :
              JoinsKind(op, kinds) /\ (op = "mod" => kinds = {"INTEGER"})
<1>1. PICK kinds \in SUBSET (Numeric \cup {"STRING"}) :
        /\ Registered[op] = Annotation(SamePairs(kinds), "operands", "arithmetic", "arithmetic")
        /\ kinds # {} /\ (op = "mod" => kinds = {"INTEGER"})
  BY ArithmeticPairs
<1>2. JoinsKind(op, kinds)
  BY <1>1, AnnotationParts, SamePairsJoinsKind DEF Numeric
<1>3. QED
  BY <1>1, <1>2, AnnotationParts DEF Traits

LEMMA LogicPairSigned ==
  ASSUME NEW op \in LogicPair
  PROVE  Traits(op, "operands", "logic", "arithmetic") /\ JoinsKind(op, {"BOOLEAN", "BINARY"})
<1>1. Registered[op] =
        Annotation(SamePairs({"BOOLEAN", "BINARY"}), "operands", "logic", "arithmetic")
  BY LogicPairs
<1>2. JoinsKind(op, {"BOOLEAN", "BINARY"})
  BY <1>1, AnnotationParts, SamePairsJoinsKind
<1>3. QED
  BY <1>1, <1>2, AnnotationParts DEF Traits

LEMMA ImpSigned ==
  Traits("imp", "boolean", "logic", "arithmetic") /\ JoinsKind("imp", {"BOOLEAN"})
<1>1. Registered["imp"] = Annotation(SamePairs({"BOOLEAN"}), "boolean", "logic", "arithmetic")
  BY Singles
<1>2. JoinsKind("imp", {"BOOLEAN"})
  BY <1>1, AnnotationParts, SamePairsJoinsKind
<1>3. QED
  BY <1>1, <1>2, AnnotationParts DEF Traits

LEMMA ArithmeticBuiltinSigned ==
  ASSUME NEW op \in ArithmeticBuiltin
  PROVE  Traits(op, "operands", "equal", "equal") /\ JoinsKind(op, {"INTEGER", "BINARY"})
<1>1. Registered[op] = Annotation(SamePairs({"INTEGER", "BINARY"}), "operands", "equal", "equal")
  BY ArithmeticBuiltins
<1>2. JoinsKind(op, {"INTEGER", "BINARY"})
  BY <1>1, AnnotationParts, SamePairsJoinsKind
<1>3. QED
  BY <1>1, <1>2, AnnotationParts DEF Traits

LEMMA ComparisonSigned ==
  ASSUME NEW op \in Comparison
  PROVE  /\ Traits(op, "operands", "comparison", "comparison")
         /\ \E kinds \in SUBSET Comparable :
              ComparesKind(op, kinds) /\ (op \notin {"equ", "neq"} => kinds = Numeric)
<1>1. PICK kinds \in SUBSET Comparable :
        /\ Registered[op] = Annotation(Compared(kinds), "operands", "comparison", "comparison")
        /\ kinds # {} /\ (op \notin {"equ", "neq"} => kinds = Numeric)
  BY Comparisons
<1>2. ComparesKind(op, kinds)
  BY <1>1, AnnotationParts, ComparedComparesKind
<1>3. QED
  BY <1>1, <1>2, AnnotationParts DEF Traits

LEMMA CompareBuiltinSigned ==
  ASSUME NEW op \in CompareBuiltin
  PROVE  Traits(op, "operands", "compareEqual", "compareEqual") /\ ComparesKind(op, Numeric)
<1>1. Registered[op] = Annotation(Compared(Numeric), "operands", "compareEqual", "compareEqual")
  BY CompareBuiltins
<1>2. Numeric # {}
  BY DEF Numeric
<1>3. ComparesKind(op, Numeric)
  BY <1>1, <1>2, AnnotationParts, ComparedComparesKind
<1>4. QED
  BY <1>1, <1>3, AnnotationParts DEF Traits

LEMMA PowSigned ==
  /\ Traits("pow", "exponent", "arithmetic", "power")
  /\ AdjustsKind("pow", {"INTEGER", "DECIMAL"}, {"INTEGER"})
<1>1. Registered["pow"].relations =
        { Relation(k, << k, "INTEGER" >>) : k \in {"INTEGER", "DECIMAL"} }
  BY DEF Registered, PowAnnotation, Annotation
<1>2. \A r : r \in Registered["pow"].relations <=>
        \E k \in {"INTEGER", "DECIMAL"} : \E other \in {"INTEGER"} : r = Relation(k, << k, other >>)
  BY <1>1
<1>3. AdjustsKind("pow", {"INTEGER", "DECIMAL"}, {"INTEGER"})
  BY <1>2, MixedAdjustsKind
<1>4. QED
  BY <1>3, Singles DEF Traits

LEMMA ExtensionSigned ==
  ASSUME NEW op \in Extension
  PROVE  /\ Traits(op, "none", "width", IF op = "trunc" THEN "narrower" ELSE "wider")
         /\ AdjustsKind(op, {"BINARY"}, {"INTEGER"})
<1>1. PICK validate \in {"wider", "narrower"} :
        /\ Registered[op] =
             Annotation({ Relation("BINARY", << "BINARY", "INTEGER" >>) },
                        "none", "width", validate)
        /\ validate = "narrower" <=> op = "trunc"
  BY Extensions
<1>2. Registered[op].relations = { Relation("BINARY", << "BINARY", "INTEGER" >>) }
  BY <1>1, AnnotationParts
<1>3. \A r : r \in Registered[op].relations <=>
        \E k \in {"BINARY"} : \E other \in {"INTEGER"} : r = Relation(k, << k, other >>)
  BY <1>2
<1>4. AdjustsKind(op, {"BINARY"}, {"INTEGER"})
  BY <1>3, MixedAdjustsKind
<1>5. QED
  BY <1>1, <1>4, AnnotationParts DEF Traits

LEMMA ShiftingSigned ==
  ASSUME NEW op \in Shifting
  PROVE  /\ Traits(op, "none", "shift", "shift")
         /\ AdjustsKind(op, {"BINARY"}, {"INTEGER", "BINARY"})
<1>1. Registered[op] = Annotation(ShiftRelations, "none", "shift", "shift")
  BY Shiftings
<1>2. Registered[op].relations =
        { Relation("BINARY", << "BINARY", k >>) : k \in {"INTEGER", "BINARY"} }
  BY <1>1, AnnotationParts DEF ShiftRelations
<1>3. \A r : r \in Registered[op].relations <=>
        \E k \in {"BINARY"} : \E other \in {"INTEGER", "BINARY"} : r = Relation(k, << k, other >>)
  BY <1>2
<1>4. AdjustsKind(op, {"BINARY"}, {"INTEGER", "BINARY"})
  BY <1>3, MixedAdjustsKind
<1>5. QED
  BY <1>1, <1>4, AnnotationParts DEF Traits

LEMMA UnarySigned ==
  /\ Traits("inv", "none", "arithmetic", "arithmetic") /\ KeepsKind("inv", Numeric)
  /\ Traits("not", "none", "logic", "arithmetic") /\ KeepsKind("not", {"BOOLEAN", "BINARY"})
  /\ Traits("asEnumeration", "none", "null", "result")
  /\ KeepsKind("asEnumeration", {"ENUMERATION"})
  /\ Traits("asInteger", "none", "asInteger", "result")
  /\ Converts("asInteger", {"BOOLEAN", "INTEGER", "BINARY", "DECIMAL"}, "INTEGER")
  /\ Traits("asBinary", "none", "null", "result")
  /\ Converts("asBinary", {"BOOLEAN", "INTEGER", "BINARY", "DECIMAL"}, "BINARY")
<1>1. Numeric # {} /\ "_SIZE_" \notin Numeric
  BY DEF Numeric
<1>2. Traits("inv", "none", "arithmetic", "arithmetic") /\ KeepsKind("inv", Numeric)
  BY <1>1, Singles, AnnotationParts, SameKeepsKind DEF Traits
<1>3. Traits("not", "none", "logic", "arithmetic") /\ KeepsKind("not", {"BOOLEAN", "BINARY"})
  BY Singles, AnnotationParts, SameKeepsKind DEF Traits
<1>4. /\ Traits("asEnumeration", "none", "null", "result")
      /\ KeepsKind("asEnumeration", {"ENUMERATION"})
  BY Singles, AnnotationParts, SameKeepsKind DEF Traits
<1>5. /\ Traits("asInteger", "none", "asInteger", "result")
      /\ Converts("asInteger", {"BOOLEAN", "INTEGER", "BINARY", "DECIMAL"}, "INTEGER")
  BY Singles, AnnotationParts, ToConverts DEF Traits
<1>6. /\ Traits("asBinary", "none", "null", "result")
      /\ Converts("asBinary", {"BOOLEAN", "INTEGER", "BINARY", "DECIMAL"}, "BINARY")
  BY Singles, AnnotationParts, ToConverts DEF Traits
<1>7. QED
  BY <1>2, <1>3, <1>4, <1>5, <1>6

LEMMA PrintingSigned ==
  ASSUME NEW op \in Printing
  PROVE  Traits(op, "string", "output", "result") /\ Converts(op, {"STRING"}, "VOID")
  BY Printings, AnnotationParts, ToConverts DEF Traits

LEMMA ConversionSigned ==
  ASSUME NEW op \in Conversion
  PROVE  \E kinds \in SUBSET Comparable, made \in PlainKind \cup {"INTEGER"},
           resolve \in {"none", "boolean"} :
             /\ Traits(op, resolve, made, "result") /\ Converts(op, kinds, made)
             /\ resolve = "boolean" => made = "VOID"
<1>1. PICK kinds \in SUBSET Comparable, made \in PlainKind \cup {"INTEGER"},
           resolve \in {"none", "boolean"} :
        /\ Registered[op] = Annotation(To(made, kinds), resolve, made, "result")
        /\ kinds # {}
        /\ resolve = "boolean" => made = "VOID"
  BY Conversions
<1>2. made # "_SIZE_"
  BY DEF PlainKind
<1>3. Converts(op, kinds, made)
  BY <1>1, <1>2, AnnotationParts, ToConverts
<1>4. QED
  BY <1>1, <1>3, AnnotationParts DEF Traits

LEMMA AtSigned ==
  /\ Traits("at", "none", "element", "element")
  /\ Arity("at") = 2
  /\ \A types \in [1 .. 2 -> AnyType] :
       /\ \A result : Templated("at", result, types) <=>
            /\ types[1].kind = "LIST" /\ types[2].kind = "INTEGER"
            /\ result.kind \in {"INTEGER", "BOOLEAN"}
       /\ Accepts("at", types) <=> types[1].kind = "LIST" /\ types[2].kind = "INTEGER"
<1>1. Registered["at"] =
        Annotation({ Relation("_SIZE_", << "LIST", "INTEGER" >>) }, "none", "element", "element")
  BY Singles
<1>2. Registered["at"].relations = { Relation("_SIZE_", << "LIST", "INTEGER" >>) }
  BY <1>1, AnnotationParts
<1>3. \A r \in Registered["at"].relations :
        /\ r.argument[1] = "LIST" /\ r.argument[2] = "INTEGER" /\ r.result = "_SIZE_"
        /\ r.argument = << r.argument[1], r.argument[2] >>
  BY <1>2, BinaryRelationParts
<1>4. BinaryRelations("at")
  BY <1>2, <1>3 DEF BinaryRelations
<1>5. \A r \in Registered["at"].relations : \A kind :
        Makes(r, kind) <=> kind \in {"INTEGER", "BOOLEAN"}
  BY <1>3 DEF Makes
<1>6. Registered["at"].relations # {}
  BY <1>2
<1>7. QED
  BY <1>1, <1>3, <1>4, <1>5, <1>6, AnnotationParts, BinaryOperation DEF Traits

LEMMA AbortSigned ==
  /\ Traits("abort", "none", "VOID", "result")
  /\ Arity("abort") = 0
  /\ \A types \in [1 .. 0 -> AnyType] : \A result :
       Templated("abort", result, types) <=> result.kind = "VOID"
<1>1. Registered["abort"] = Annotation({ Relation("VOID", << >>) }, "none", "VOID", "result")
  BY Singles
<1>2. Registered["abort"].relations = { Relation("VOID", << >>) }
  BY <1>1, AnnotationParts
<1>3. \A r \in Registered["abort"].relations : r.argument = << >> /\ r.result = "VOID"
  BY <1>2, RelationParts
<1>4. Arity("abort") = 0
  <2>1. (CHOOSE r \in Registered["abort"].relations : TRUE).argument = << >>
    BY <1>2, RelationParts
  <2>2. QED
    BY <2>1 DEF Arity
<1>5. ASSUME NEW types \in [1 .. 0 -> AnyType], NEW result
      PROVE  Templated("abort", result, types) <=> result.kind = "VOID"
  <2>1. Kind(types) = << >>
    BY DEF Kind
  <2>2. \A x, y : << x >> \o << >> = << y >> \o << >> <=> x = y
    OBVIOUS
  <2>3. \A r \in Registered["abort"].relations : \A kind :
          << result.kind >> \o Kind(types) = << kind >> \o r.argument <=> result.kind = kind
    BY <1>3, <2>1, <2>2
  <2>4. \A r \in Registered["abort"].relations : \A kind : Makes(r, kind) <=> kind = "VOID"
    BY <1>3 DEF Makes
  <2>5. Registered["abort"].relations # {}
    BY <1>2
  <2>6. QED
    BY <2>3, <2>4, <2>5, TemplatedBy
<1>6. QED
  BY <1>1, <1>4, <1>5, AnnotationParts DEF Traits

-----------------------------------------------------------------------------
(* Inference *)

LEMMA UnaryTypes ==
  ASSUME NEW T, NEW types \in [1 .. 1 -> T]
  PROVE  /\ DOMAIN types = {1} /\ types[1] \in T /\ Len(types) = 1 /\ ~Differ(types)
         /\ \A kind : AllOfKind(types, kind) <=> types[1].kind = kind
  BY DEF Differ, AllOfKind

LEMMA BinaryTypes ==
  ASSUME NEW T, NEW types \in [1 .. 2 -> T]
  PROVE  /\ DOMAIN types = {1, 2} /\ types[1] \in T /\ types[2] \in T /\ Len(types) = 2
         /\ Differ(types) <=> types[1] # types[2]
         /\ \A kind : AllOfKind(types, kind) <=> types[1].kind = kind /\ types[2].kind = kind
  BY DEF Differ, AllOfKind

\* What an operation infers is a type that it accepts, but for the gaps.
InfersWell(op, types, type) ==
  /\ type \in AnyType \cup {Null, Throws}
  /\ type \in AnyType /\ Accepts(op, types) => (Valid(op, type, types) <=> ~Gap(op, type, types))

LEMMA ArithmeticInferred ==
  ASSUME NEW op \in ArithmeticPair, NEW types \in [1 .. 2 -> AnyType], NEW width
  PROVE  InfersWell(op, types, Inferred(op, types, width))
<1>1. PICK kinds \in SUBSET (Numeric \cup {"STRING"}) : JoinsKind(op, kinds)
  BY ArithmeticPairSigned
<1>2. Traits(op, "operands", "arithmetic", "arithmetic")
  BY ArithmeticPairSigned
<1> DEFINE type == Inferred(op, types, width)
<1>3. type = IF types[1].kind = "INTEGER" /\ types[2].kind = "INTEGER" THEN INTEGER
             ELSE IF types[1] # types[2] THEN Null ELSE types[1]
  BY <1>2, BinaryTypes DEF Inferred, Traits, ArithmeticInference
<1> HIDE DEF type
<1>4. type \in AnyType \cup {Null}
  BY <1>3, BinaryTypes, NamedTypes
<1>5. ASSUME type \in AnyType, Accepts(op, types)
      PROVE  Valid(op, type, types)
  <2>1. types[1].kind \in kinds /\ types[2].kind = types[1].kind /\ type.kind = types[1].kind
    BY <1>1, <1>3, <1>5, NamedTypes, TypeParts DEF JoinsKind
  <2>2. Templated(op, type, types)
    BY <1>1, <2>1 DEF JoinsKind
  <2>3. Validated(op, type, types)
    BY <1>2, <1>3, <1>5, <2>1, BinaryTypes, NamedTypes, TypeParts DEF Validated, Traits
  <2>4. QED
    BY <2>2, <2>3, ValidParts
<1>6. ~Gap(op, type, types)
  BY DEF Gap, ArithmeticPair
<1>7. QED
  BY <1>4, <1>5, <1>6 DEF InfersWell, type

LEMMA LogicInferred ==
  ASSUME NEW op \in LogicPair \cup {"imp"}, NEW types \in [1 .. 2 -> AnyType], NEW width
  PROVE  InfersWell(op, types, Inferred(op, types, width))
<1>1. PICK kinds \in SUBSET {"BOOLEAN", "BINARY"} : JoinsKind(op, kinds)
  BY LogicPairSigned, ImpSigned
<1>2. Registered[op].inference = "logic" /\ Registered[op].validate = "arithmetic"
  BY LogicPairSigned, ImpSigned DEF Traits
<1> DEFINE type == Inferred(op, types, width)
<1>3. type = IF types[1] # types[2] THEN Null
             ELSE IF types[1].kind = "BINARY" THEN types[1] ELSE BOOLEAN_TYPE
  BY <1>2, BinaryTypes DEF Inferred, LogicInference
<1> HIDE DEF type
<1>4. type \in AnyType \cup {Null}
  BY <1>3, BinaryTypes, NamedTypes
<1>5. ASSUME type \in AnyType, Accepts(op, types)
      PROVE  Valid(op, type, types)
  <2>1. types[1].kind \in kinds /\ types[2] = types[1] /\ type = types[1]
    BY <1>1, <1>3, <1>5, BinaryTypes, NamedTypes, TypeParts DEF JoinsKind
  <2>2. Templated(op, type, types)
    BY <1>1, <2>1 DEF JoinsKind
  <2>3. Validated(op, type, types)
    BY <1>2, <2>1, BinaryTypes DEF Validated
  <2>4. QED
    BY <2>2, <2>3, ValidParts
<1>6. ~Gap(op, type, types)
  BY DEF Gap, LogicPair
<1>7. QED
  BY <1>4, <1>5, <1>6 DEF InfersWell, type

LEMMA ComparisonInferred ==
  ASSUME NEW op \in Comparison \cup CompareBuiltin, NEW types \in [1 .. 2 -> AnyType], NEW width
  PROVE  InfersWell(op, types, Inferred(op, types, width))
<1>1. PICK kinds \in SUBSET Comparable : ComparesKind(op, kinds)
  BY ComparisonSigned, CompareBuiltinSigned DEF Comparable
<1>2. \/ Registered[op].inference = "comparison" /\ Registered[op].validate = "comparison"
      \/ Registered[op].inference = "compareEqual" /\ Registered[op].validate = "compareEqual"
  BY ComparisonSigned, CompareBuiltinSigned DEF Traits
<1> DEFINE type == Inferred(op, types, width)
<1>3. /\ type \in {Null, BOOLEAN_TYPE}
      /\ type = BOOLEAN_TYPE =>
           \/ types[1] = types[2]
           \/ /\ Registered[op].validate = "comparison"
              /\ types[1].kind = "INTEGER" /\ types[2].kind = "INTEGER"
  BY <1>2, BinaryTypes, TypeParts, NamedTypes DEF Inferred, ComparisonInference
<1> HIDE DEF type
<1>4. ASSUME type \in AnyType, Accepts(op, types)
      PROVE  Valid(op, type, types)
  <2>1. type = BOOLEAN_TYPE /\ type.kind = "BOOLEAN"
    BY <1>3, <1>4, TypeParts, NamedTypes
  <2>2. Templated(op, type, types)
    BY <1>1, <1>4, <2>1 DEF ComparesKind
  <2>3. Validated(op, type, types)
    BY <1>2, <1>3, <2>1, BinaryTypes DEF Validated
  <2>4. QED
    BY <2>2, <2>3, ValidParts
<1>5. ~Gap(op, type, types)
  BY DEF Gap, Comparison, CompareBuiltin
<1>6. QED
  BY <1>3, <1>4, <1>5, NamedTypes DEF InfersWell, type

LEMMA EqualInferred ==
  ASSUME NEW op \in ArithmeticBuiltin, NEW types \in [1 .. 2 -> AnyType], NEW width
  PROVE  InfersWell(op, types, Inferred(op, types, width))
<1>1. JoinsKind(op, {"INTEGER", "BINARY"}) /\ Traits(op, "operands", "equal", "equal")
  BY ArithmeticBuiltinSigned
<1> DEFINE type == Inferred(op, types, width)
<1>2. type = IF types[1] # types[2] THEN Null ELSE types[1]
  BY <1>1, BinaryTypes DEF Inferred, Traits
<1> HIDE DEF type
<1>3. ASSUME type \in AnyType, Accepts(op, types)
      PROVE  Valid(op, type, types)
  <2>1. type = types[1] /\ types[1] = types[2]
    BY <1>2, <1>3, TypeParts
  <2>2. Templated(op, type, types)
    BY <1>1, <1>3, <2>1 DEF JoinsKind
  <2>3. Validated(op, type, types)
    BY <1>1, <2>1, BinaryTypes DEF Validated, Traits
  <2>4. QED
    BY <2>2, <2>3, ValidParts
<1>4. ~Gap(op, type, types)
  BY DEF Gap, ArithmeticBuiltin
<1>5. QED
  BY <1>2, <1>3, <1>4, BinaryTypes DEF InfersWell, type

LEMMA PowInferred ==
  ASSUME NEW types \in [1 .. 2 -> AnyType], NEW width
  PROVE  InfersWell("pow", types, Inferred("pow", types, width))
<1>1. Traits("pow", "exponent", "arithmetic", "power")
      /\ AdjustsKind("pow", {"INTEGER", "DECIMAL"}, {"INTEGER"})
  BY PowSigned
<1> DEFINE type == Inferred("pow", types, width)
<1>2. type = IF types[1].kind = "INTEGER" /\ types[2].kind = "INTEGER" THEN INTEGER
             ELSE IF types[1] # types[2] THEN Null ELSE types[1]
  BY <1>1, BinaryTypes DEF Inferred, Traits, ArithmeticInference
<1> HIDE DEF type
<1>3. type \in AnyType \cup {Null}
  BY <1>2, BinaryTypes, NamedTypes
<1>4. ASSUME type \in AnyType, Accepts("pow", types)
      PROVE  Valid("pow", type, types)
  <2>1. types[1].kind \in {"INTEGER", "DECIMAL"} /\ types[2].kind = "INTEGER"
    BY <1>1, <1>4 DEF AdjustsKind
  <2>2. types[1].kind = "INTEGER" /\ type = INTEGER
    BY <1>2, <1>4, <2>1, TypeParts
  <2>3. Templated("pow", type, types)
    BY <1>1, <2>1, <2>2, NamedTypes DEF AdjustsKind
  <2>4. Validated("pow", type, types)
    BY <1>1, <2>1, <2>2, BinaryTypes, NamedTypes DEF Validated, Traits
  <2>5. QED
    BY <2>3, <2>4, ValidParts
<1>5. ~Gap("pow", type, types)
  BY DEF Gap
<1>6. QED
  BY <1>3, <1>4, <1>5 DEF InfersWell, type

LEMMA ShiftInferred ==
  ASSUME NEW op \in Shifting, NEW types \in [1 .. 2 -> AnyType], NEW width
  PROVE  InfersWell(op, types, Inferred(op, types, width))
<1>1. Traits(op, "none", "shift", "shift") /\ AdjustsKind(op, {"BINARY"}, {"INTEGER", "BINARY"})
  BY ShiftingSigned
<1> DEFINE type == Inferred(op, types, width)
<1>2. type = IF types[2].kind = "BINARY" /\ types[1] # types[2] THEN Null ELSE types[1]
  BY <1>1, BinaryTypes DEF Inferred, Traits, ShiftInference
<1> HIDE DEF type
<1>3. ASSUME type \in AnyType, Accepts(op, types)
      PROVE  Valid(op, type, types)
  <2>1. types[1].kind = "BINARY" /\ types[2].kind \in {"INTEGER", "BINARY"}
    BY <1>1, <1>3 DEF AdjustsKind
  <2>2. type = types[1] /\ (types[2].kind = "BINARY" => types[1] = types[2])
    BY <1>2, <1>3, TypeParts
  <2>3. Templated(op, type, types)
    BY <1>1, <2>1, <2>2 DEF AdjustsKind
  <2>4. Validated(op, type, types)
    BY <1>1, <2>1, <2>2, BinaryTypes DEF Validated, Traits
  <2>5. QED
    BY <2>3, <2>4, ValidParts
<1>4. ~Gap(op, type, types)
  BY DEF Gap, Shifting
<1>5. QED
  BY <1>2, <1>3, <1>4, BinaryTypes DEF InfersWell, type

LEMMA WidthInferred ==
  ASSUME NEW op \in Extension, NEW types \in [1 .. 2 -> AnyType], NEW width \in Nat
  PROVE  InfersWell(op, types, Inferred(op, types, width))
<1>1. /\ Traits(op, "none", "width", IF op = "trunc" THEN "narrower" ELSE "wider")
      /\ AdjustsKind(op, {"BINARY"}, {"INTEGER"})
  BY ExtensionSigned
<1> DEFINE type == Inferred(op, types, width)
<1>2. type = IF width = 0 THEN Null ELSE IF width > SizeMax THEN Throws ELSE Binary(width)
  BY <1>1 DEF Inferred, Traits, WidthInference
<1> HIDE DEF type
<1>3. type \in { Binary(n) : n \in 1 .. SizeMax } \cup {Null, Throws}
  BY <1>2, BitsizeAssumption
<1>4. type \in AnyType \cup {Null, Throws}
  BY <1>3 DEF AnyType
<1>5. ASSUME type \in AnyType, Accepts(op, types)
      PROVE  Valid(op, type, types) <=> ~Gap(op, type, types)
  <2>1. types[1].kind = "BINARY" /\ types[2].kind = "INTEGER"
    BY <1>1, <1>5 DEF AdjustsKind
  <2>2. type.kind = "BINARY" /\ type.bitsize \in Nat /\ types[1].bitsize \in Nat
    <3>1. PICK n \in 1 .. SizeMax : type = Binary(n)
      BY <1>3, <1>5, TypeParts
    <3>2. type.kind = "BINARY" /\ type.bitsize = n /\ n \in Nat
      BY <3>1, BitsizeAssumption DEF Binary
    <3>3. types[1].bitsize \in Nat
      BY <2>1, BinaryTypes, TypeParts, BitsizeAssumption
    <3>4. QED
      BY <3>2, <3>3
  <2>3. Templated(op, type, types)
    BY <1>1, <2>1, <2>2 DEF AdjustsKind
  <2>4. Validated(op, type, types) <=>
          IF op = "trunc" THEN type.bitsize < types[1].bitsize ELSE type.bitsize > types[1].bitsize
    BY <1>1 DEF Validated, Traits
  <2>5. Gap(op, type, types) <=>
          IF op = "trunc" THEN type.bitsize >= types[1].bitsize
          ELSE type.bitsize <= types[1].bitsize
    BY DEF Gap, Extension
  <2>6. QED
    BY <2>2, <2>3, <2>4, <2>5, ValidParts
<1>6. QED
  BY <1>4, <1>5 DEF InfersWell, type

LEMMA ElementInferred ==
  ASSUME NEW types \in [1 .. 2 -> AnyType], NEW width
  PROVE  InfersWell("at", types, Inferred("at", types, width))
<1> DEFINE type == Inferred("at", types, width)
<1>1. type = IF types[1].kind = "LIST" THEN types[1].result ELSE Throws
  BY AtSigned DEF Inferred, Traits
<1> HIDE DEF type
<1>2. type \in AnyType \cup {Throws}
  BY <1>1, BinaryTypes, TypeParts
<1>3. ASSUME type \in AnyType, Accepts("at", types)
      PROVE  Valid("at", type, types) <=> ~Gap("at", type, types)
  <2>1. types[1].kind = "LIST" /\ types[2].kind = "INTEGER" /\ type = types[1].result
    BY <1>1, <1>3, AtSigned
  <2>2. Templated("at", type, types) <=> type.kind \in {"INTEGER", "BOOLEAN"}
    BY <2>1, AtSigned
  <2>3. Validated("at", type, types)
    BY <2>1, AtSigned DEF Validated, Traits
  <2>4. Gap("at", type, types) <=> type.kind \notin {"INTEGER", "BOOLEAN"}
    BY DEF Gap
  <2>5. QED
    BY <2>2, <2>3, <2>4, ValidParts
<1>4. QED
  BY <1>2, <1>3 DEF InfersWell, type

LEMMA ConversionInferred ==
  ASSUME NEW op \in Conversion, NEW types \in [1 .. 1 -> AnyType], NEW width
  PROVE  InfersWell(op, types, Inferred(op, types, width))
<1>1. PICK kinds \in SUBSET Comparable, made \in PlainKind \cup {"INTEGER"},
           resolve \in {"none", "boolean"} :
        Traits(op, resolve, made, "result") /\ Converts(op, kinds, made)
  BY ConversionSigned
<1>2. Inferred(op, types, width) = Plain(made)
  BY <1>1 DEF Inferred, Traits, PlainKind
<1>3. Plain(made) \in AnyType /\ Plain(made).kind = made
  BY PlainParts DEF AnyType
<1>4. Accepts(op, types) => Templated(op, Plain(made), types)
  BY <1>1, <1>3 DEF Converts
<1>5. Validated(op, Plain(made), types)
  BY <1>1 DEF Validated, Traits
<1>6. ~Gap(op, Plain(made), types)
  BY DEF Gap, Conversion
<1>7. QED
  BY <1>2, <1>3, <1>4, <1>5, <1>6, ValidParts DEF InfersWell

LEMMA PrintingInferred ==
  ASSUME NEW op \in Printing, NEW types \in [1 .. 1 -> AnyType], NEW width
  PROVE  InfersWell(op, types, Inferred(op, types, width))
<1>1. Traits(op, "string", "output", "result") /\ Converts(op, {"STRING"}, "VOID")
  BY PrintingSigned
<1>2. Inferred(op, types, width) = IF types[1] = STRING_TYPE THEN VOID ELSE Throws
  BY <1>1 DEF Inferred, Traits
<1>3. Accepts(op, types) => Templated(op, VOID, types)
  BY <1>1, NamedTypes DEF Converts
<1>4. Validated(op, VOID, types) /\ ~Gap(op, VOID, types)
  BY <1>1 DEF Validated, Traits, Gap, Printing
<1>5. QED
  BY <1>2, <1>3, <1>4, ValidParts, NamedTypes, TypeParts DEF InfersWell

LEMMA CastInferred ==
  ASSUME NEW op \in {"asInteger", "asBinary", "asEnumeration"},
         NEW types \in [1 .. 1 -> AnyType], NEW width
  PROVE  InfersWell(op, types, Inferred(op, types, width))
<1>1. CASE op = "asInteger"
  <2>1. Inferred(op, types, width) = IF types[1] = RangedInteger THEN Throws ELSE INTEGER
    BY <1>1, UnarySigned DEF Inferred, Traits
  <2>2. Accepts(op, types) => Templated(op, INTEGER, types)
    BY <1>1, UnarySigned, NamedTypes DEF Converts
  <2>3. Validated(op, INTEGER, types) /\ ~Gap(op, INTEGER, types)
    BY <1>1, UnarySigned DEF Validated, Traits, Gap
  <2>4. QED
    BY <2>1, <2>2, <2>3, ValidParts, NamedTypes, TypeParts DEF InfersWell
<1>2. CASE op # "asInteger"
  <2>1. Inferred(op, types, width) = Null
    BY <1>2, UnarySigned DEF Inferred, Traits
  <2>2. QED
    BY <2>1, TypeParts DEF InfersWell
<1>3. QED
  BY <1>1, <1>2

LEMMA RangedApart == INTEGER # RangedInteger /\ RangedInteger.kind = "INTEGER"
<1>1. DOMAIN INTEGER = {"kind"} /\ DOMAIN RangedInteger = {"kind", "range"}
  BY DEF INTEGER, Plain, RangedInteger
<1>2. RangedInteger.kind = "INTEGER"
  BY DEF RangedInteger
<1>3. QED
  BY <1>1, <1>2

LEMMA InvInferred ==
  ASSUME NEW types \in [1 .. 1 -> AnyType], NEW width
  PROVE  InfersWell("inv", types, Inferred("inv", types, width))
<1>1. Traits("inv", "none", "arithmetic", "arithmetic") /\ KeepsKind("inv", Numeric)
  BY UnarySigned
<1> DEFINE type == Inferred("inv", types, width)
<1>2. type = IF types[1].kind = "INTEGER" THEN INTEGER ELSE types[1]
  BY <1>1, UnaryTypes DEF Inferred, Traits, ArithmeticInference
<1> HIDE DEF type
<1>3. type \in AnyType /\ type.kind = types[1].kind
  BY <1>2, UnaryTypes, NamedTypes
<1>4. ASSUME Accepts("inv", types)
      PROVE  Valid("inv", type, types) <=> ~Gap("inv", type, types)
  <2>1. Templated("inv", type, types)
    BY <1>1, <1>3, <1>4 DEF KeepsKind
  <2>2. Validated("inv", type, types) <=> types[1] = type
    BY <1>1, UnaryTypes DEF Validated, Traits
  <2>3. types[1] = type <=> types[1] # RangedInteger
    BY <1>2, RangedApart, UnaryTypes, NamedTypes, TypeParts
  <2>4. Gap("inv", type, types) <=> types[1] = RangedInteger
    BY DEF Gap
  <2>5. QED
    BY <2>1, <2>2, <2>3, <2>4, ValidParts
<1>5. QED
  BY <1>3, <1>4 DEF InfersWell, type

LEMMA NotInferred ==
  ASSUME NEW types \in [1 .. 1 -> AnyType], NEW width
  PROVE  InfersWell("not", types, Inferred("not", types, width))
<1>1. Traits("not", "none", "logic", "arithmetic") /\ KeepsKind("not", {"BOOLEAN", "BINARY"})
  BY UnarySigned
<1> DEFINE type == Inferred("not", types, width)
<1>2. type = IF types[1].kind = "BINARY" THEN types[1] ELSE BOOLEAN_TYPE
  BY <1>1, UnaryTypes DEF Inferred, Traits, LogicInference
<1> HIDE DEF type
<1>3. type \in AnyType
  BY <1>2, UnaryTypes, NamedTypes
<1>4. ASSUME Accepts("not", types)
      PROVE  Valid("not", type, types)
  <2>1. types[1].kind \in {"BOOLEAN", "BINARY"} /\ type = types[1]
    BY <1>1, <1>2, <1>4, UnaryTypes, NamedTypes DEF KeepsKind
  <2>2. Templated("not", type, types)
    BY <1>1, <2>1 DEF KeepsKind
  <2>3. Validated("not", type, types)
    BY <1>1, <2>1, UnaryTypes DEF Validated, Traits
  <2>4. QED
    BY <2>2, <2>3, ValidParts
<1>5. ~Gap("not", type, types)
  BY DEF Gap
<1>6. QED
  BY <1>3, <1>4, <1>5 DEF InfersWell, type

LEMMA AbortInferred ==
  ASSUME NEW types \in [1 .. 0 -> AnyType], NEW width
  PROVE  InfersWell("abort", types, Inferred("abort", types, width))
<1>1. Inferred("abort", types, width) = VOID
  BY AbortSigned DEF Inferred, Traits, VOID
<1>2. Templated("abort", VOID, types)
  BY AbortSigned, NamedTypes
<1>3. Validated("abort", VOID, types) /\ ~Gap("abort", VOID, types)
  BY AbortSigned DEF Validated, Traits, Gap
<1>4. QED
  BY <1>1, <1>2, <1>3, ValidParts, NamedTypes DEF InfersWell

\* The number of operands of every operation.
BinaryOp ==
  ArithmeticPair \cup LogicPair \cup Comparison \cup ArithmeticBuiltin \cup CompareBuiltin
    \cup Extension \cup Shifting \cup {"imp", "pow", "at"}
UnaryOp == Printing \cup Conversion \cup {"inv", "not", "asInteger", "asBinary", "asEnumeration"}

LEMMA Arities ==
  /\ \A op \in BinaryOp : Arity(op) = 2
  /\ \A op \in UnaryOp : Arity(op) = 1
  /\ Token = BinaryOp \cup UnaryOp \cup {"abort"}
<1>1. ASSUME NEW op \in BinaryOp PROVE Arity(op) = 2
  <2>1. CASE op \in ArithmeticPair
    BY <2>1, ArithmeticPairSigned DEF JoinsKind
  <2>2. CASE op \in LogicPair \cup {"imp"}
    BY <2>2, LogicPairSigned, ImpSigned DEF JoinsKind
  <2>3. CASE op \in Comparison
    BY <2>3, ComparisonSigned DEF ComparesKind
  <2>4. CASE op \in ArithmeticBuiltin
    BY <2>4, ArithmeticBuiltinSigned DEF JoinsKind
  <2>5. CASE op \in CompareBuiltin
    BY <2>5, CompareBuiltinSigned DEF ComparesKind
  <2>6. CASE op \in Extension \cup Shifting \cup {"pow"}
    BY <2>6, ExtensionSigned, ShiftingSigned, PowSigned DEF AdjustsKind
  <2>7. CASE op = "at"
    BY <2>7, AtSigned
  <2>8. QED
    BY <2>1, <2>2, <2>3, <2>4, <2>5, <2>6, <2>7 DEF BinaryOp
<1>2. ASSUME NEW op \in UnaryOp PROVE Arity(op) = 1
  <2>1. CASE op \in Printing
    BY <2>1, PrintingSigned DEF Converts
  <2>2. CASE op \in Conversion
    BY <2>2, ConversionSigned DEF Converts
  <2>3. CASE op \in {"inv", "not", "asInteger", "asBinary", "asEnumeration"}
    BY <2>3, UnarySigned DEF Converts, KeepsKind
  <2>4. QED
    BY <2>1, <2>2, <2>3 DEF UnaryOp
<1>3. Token = BinaryOp \cup UnaryOp \cup {"abort"}
  BY TokenCases DEF BinaryOp, UnaryOp
<1>4. QED
  BY <1>1, <1>2, <1>3

LEMMA AllInferWell ==
  ASSUME NEW op \in Token, NEW types \in [1 .. Arity(op) -> AnyType], NEW width \in Nat
  PROVE  InfersWell(op, types, Inferred(op, types, width))
<1>1. CASE op \in BinaryOp
  <2>1. types \in [1 .. 2 -> AnyType]
    BY <1>1, Arities
  <2>2. QED
    BY <1>1, <2>1, ArithmeticInferred, LogicInferred, ComparisonInferred, EqualInferred,
       PowInferred, ShiftInferred, WidthInferred, ElementInferred DEF BinaryOp
<1>2. CASE op \in UnaryOp
  <2>1. types \in [1 .. 1 -> AnyType]
    BY <1>2, Arities
  <2>2. QED
    BY <1>2, <2>1, ConversionInferred, PrintingInferred, CastInferred, InvInferred, NotInferred
    DEF UnaryOp
<1>3. CASE op = "abort"
  BY <1>3, AbortInferred, AbortSigned
<1>4. QED
  BY <1>1, <1>2, <1>3, Arities

-----------------------------------------------------------------------------
(* Resolution *)

ResolvesPair ==
  ArithmeticPair \cup LogicPair \cup Comparison \cup ArithmeticBuiltin \cup CompareBuiltin

LEMMA Resolutions ==
  /\ \A op \in ResolvesPair : Registered[op].resolve = "operands"
  /\ Registered["pow"].resolve = "exponent" /\ Registered["imp"].resolve = "boolean"
  /\ \A op \in Printing : Registered[op].resolve = "string"
  /\ \A op \in Conversion :
       \/ Registered[op].resolve = "none"
       \/ Registered[op].resolve = "boolean" /\ Registered[op].inference = "VOID"
  /\ \A op \in Extension \cup Shifting \cup {"at", "inv", "not", "asInteger", "asBinary",
                                             "asEnumeration", "abort"} :
       Registered[op].resolve = "none"
<1>1. \A op \in ResolvesPair : Registered[op].resolve = "operands"
  BY ArithmeticPairSigned, LogicPairSigned, ComparisonSigned, ArithmeticBuiltinSigned,
     CompareBuiltinSigned DEF ResolvesPair, Traits
<1>2. ASSUME NEW op \in Conversion
      PROVE  \/ Registered[op].resolve = "none"
             \/ Registered[op].resolve = "boolean" /\ Registered[op].inference = "VOID"
  BY ConversionSigned DEF Traits
<1>3. QED
  BY <1>1, <1>2, PowSigned, ImpSigned, PrintingSigned, ExtensionSigned, ShiftingSigned, AtSigned,
     UnarySigned, AbortSigned DEF Traits

\* Types of operands, known or not.
SomeTypes(op) == [1 .. Arity(op) -> AnyType \cup {Null}]

Keeps(settled, types) == \A i \in DOMAIN settled : types[i] # Null => settled[i] = types[i]

LEMMA KnownParts ==
  ASSUME NEW type \in AnyType \cup {Null}, NEW other \in AnyType \cup {Null}
  PROVE  /\ Known(type, other) \in AnyType \cup {Null}
         /\ type # Null => Known(type, other) = type
         /\ type = Null => Known(type, other) = other
  BY DEF Known

LEMMA ResolvedKeeps ==
  ASSUME NEW op \in Token, NEW types \in SomeTypes(op)
  PROVE  Resolved(op, types) \in SomeTypes(op) /\ Keeps(Resolved(op, types), types)
<1> DEFINE settled == Resolved(op, types)
<1>1. CASE op \in ResolvesPair
  <2>1. types \in [1 .. 2 -> AnyType \cup {Null}] /\ Arity(op) = 2
    BY <1>1, Arities DEF SomeTypes, ResolvesPair, BinaryOp
  <2>2. settled = << Known(types[1], types[2]), Known(types[2], types[1]) >>
    BY <1>1, Resolutions DEF Resolved
  <2>3. settled[1] = Known(types[1], types[2]) /\ settled[2] = Known(types[2], types[1])
        /\ DOMAIN settled = 1 .. 2 /\ settled = [i \in 1 .. 2 |-> settled[i]]
    BY <2>2
  <2> HIDE DEF settled
  <2>4. settled \in SomeTypes(op) /\ Keeps(settled, types)
    BY <2>1, <2>3, KnownParts DEF SomeTypes, Keeps
  <2>5. QED
    BY <2>4 DEF settled
<1>2. CASE op = "pow"
  <2>1. types \in [1 .. 2 -> AnyType \cup {Null}] /\ Arity(op) = 2
    BY <1>2, Arities DEF SomeTypes, BinaryOp
  <2>2. settled = << types[1], Known(types[2], INTEGER) >>
    BY <1>2, Resolutions DEF Resolved
  <2>3. settled[1] = types[1] /\ settled[2] = Known(types[2], INTEGER)
        /\ DOMAIN settled = 1 .. 2 /\ settled = [i \in 1 .. 2 |-> settled[i]]
    BY <2>2
  <2> HIDE DEF settled
  <2>4. settled \in SomeTypes(op) /\ Keeps(settled, types)
    BY <2>1, <2>3, KnownParts, NamedTypes DEF SomeTypes, Keeps
  <2>5. QED
    BY <2>4 DEF settled
<1>3. CASE op \notin ResolvesPair \cup {"pow"}
  <2>1. \/ settled = types
        \/ \E t \in {BOOLEAN_TYPE, STRING_TYPE} :
             settled = [i \in DOMAIN types |-> Known(types[i], t)]
    BY <1>3, Resolutions, TokenCases DEF Resolved, ResolvesPair
  <2>2. DOMAIN types = 1 .. Arity(op)
    BY DEF SomeTypes
  <2> HIDE DEF settled
  <2>3. settled \in SomeTypes(op) /\ Keeps(settled, types)
    <3>1. CASE settled = types
      BY <3>1 DEF Keeps
    <3>2. ASSUME NEW t \in AnyType, settled = [i \in DOMAIN types |-> Known(types[i], t)]
          PROVE  settled \in SomeTypes(op) /\ Keeps(settled, types)
      <4>1. \A i \in 1 .. Arity(op) : types[i] \in AnyType \cup {Null}
        BY DEF SomeTypes
      <4>2. settled = [i \in 1 .. Arity(op) |-> Known(types[i], t)]
        BY <2>2, <3>2
      <4>3. \A i \in 1 .. Arity(op) : Known(types[i], t) \in AnyType \cup {Null}
        BY <4>1, KnownParts
      <4>4. QED
        BY <4>2, <4>3, KnownParts DEF SomeTypes, Keeps, Known
    <3>3. QED
      BY <2>1, <3>1, <3>2, NamedTypes
  <2>4. QED
    BY <2>3 DEF settled
<1>4. QED
  BY <1>1, <1>2, <1>3

\* The types a client that learns them by itself ends up with.
LearnedTypes(types, learned) == [i \in DOMAIN types |-> Known(types[i], learned)]

LEMMA LearnedParts ==
  ASSUME NEW op \in Token, NEW types \in SomeTypes(op), NEW learned \in AnyType
  PROVE  /\ LearnedTypes(types, learned) \in [1 .. Arity(op) -> AnyType]
         /\ \A i \in 1 .. Arity(op) : LearnedTypes(types, learned)[i] = Known(types[i], learned)
         /\ Complete(types) => LearnedTypes(types, learned) = types
<1>1. DOMAIN types = 1 .. Arity(op) /\ \A i \in 1 .. Arity(op) : types[i] \in AnyType \cup {Null}
  BY DEF SomeTypes
<1>2. \A i \in 1 .. Arity(op) : LearnedTypes(types, learned)[i] = Known(types[i], learned)
  BY <1>1 DEF LearnedTypes
<1>3. LearnedTypes(types, learned) \in [1 .. Arity(op) -> AnyType]
  BY <1>1, KnownParts, TypeParts DEF LearnedTypes, Known
<1>4. ASSUME Complete(types) PROVE LearnedTypes(types, learned) = types
  BY <1>1, <1>4 DEF LearnedTypes, Complete, Known, SomeTypes
<1>5. QED
  BY <1>2, <1>3, <1>4

\* Both operands of a resolved pair are of the type that is known.
LEMMA PairConfluent ==
  ASSUME NEW op \in ResolvesPair, NEW t \in AnyType, NEW learned \in AnyType, NEW width,
         NEW types \in [1 .. 2 -> AnyType], NEW settled \in [1 .. 2 -> AnyType],
         settled[1] = t, settled[2] = t,
         \/ types[1] = t /\ types[2] = learned
         \/ types[1] = learned /\ types[2] = t,
         Inferred(op, types, width) # Null,
         Valid(op, Inferred(op, types, width), types)
  PROVE  Inferred(op, settled, width) = Inferred(op, types, width)
<1>1. types[1] = types[2] => settled = types
  OBVIOUS
<1>2. ~Differ(settled)
  BY BinaryTypes
<1>3. CASE op \in ArithmeticPair
  <2>1. Registered[op].inference = "arithmetic"
    BY <1>3, ArithmeticPairSigned DEF Traits
  <2>2. \A ts : Inferred(op, ts, width) = ArithmeticInference(ts)
    BY <2>1 DEF Inferred
  <2>3. types[1] = types[2] \/ (types[1].kind = "INTEGER" /\ types[2].kind = "INTEGER")
    BY <2>2, BinaryTypes DEF ArithmeticInference
  <2>4. QED
    BY <1>1, <2>2, <2>3, BinaryTypes DEF ArithmeticInference
<1>4. CASE op \in LogicPair
  <2>1. Registered[op].inference = "logic"
    BY <1>4, LogicPairSigned DEF Traits
  <2>2. types[1] = types[2]
    BY <2>1, BinaryTypes DEF Inferred, LogicInference
  <2>3. QED
    BY <1>1, <2>2
<1>5. CASE op \in Comparison
  <2>1. Registered[op].inference = "comparison"
    BY <1>5, ComparisonSigned DEF Traits
  <2>2. \A ts : Inferred(op, ts, width) = ComparisonInference(ts)
    BY <2>1 DEF Inferred
  <2>3. QED
    BY <1>2, <2>2 DEF ComparisonInference
<1>6. CASE op \in ArithmeticBuiltin
  <2>1. Registered[op].inference = "equal"
    BY <1>6, ArithmeticBuiltinSigned DEF Traits
  <2>2. types[1] = types[2]
    BY <2>1, BinaryTypes DEF Inferred
  <2>3. QED
    BY <1>1, <2>2
<1>7. CASE op \in CompareBuiltin
  <2>1. Registered[op].inference = "compareEqual"
    BY <1>7, CompareBuiltinSigned DEF Traits
  <2>2. types[1] = types[2]
    BY <2>1, BinaryTypes DEF Inferred
  <2>3. QED
    BY <1>1, <2>2
<1>8. QED
  BY <1>3, <1>4, <1>5, <1>6, <1>7 DEF ResolvesPair

Unknown(types) == \A i \in DOMAIN types : types[i] = Null

LEMMA SameFunction ==
  ASSUME NEW D, NEW T, NEW f \in [D -> T], NEW g \in [D -> T], \A i \in D : f[i] = g[i]
  PROVE  f = g
  OBVIOUS

LEMMA TypesConfluent ==
  ASSUME NEW op \in Token, NEW types \in SomeTypes(op), NEW learned \in Type, NEW width \in Nat,
         Arity(op) = 2 => ~Unknown(types),
         Complete(Resolved(op, types)),
         Inferred(op, LearnedTypes(types, learned), width) # Null,
         Valid(op, Inferred(op, LearnedTypes(types, learned), width), LearnedTypes(types, learned))
  PROVE  Inferred(op, Resolved(op, types), width)
           = Inferred(op, LearnedTypes(types, learned), width)
<1> DEFINE settled == Resolved(op, types)
           ts == LearnedTypes(types, learned)
           type == Inferred(op, ts, width)
<1>1. learned \in AnyType
  BY DEF AnyType
<1>2. /\ ts \in [1 .. Arity(op) -> AnyType]
      /\ \A i \in 1 .. Arity(op) : ts[i] = Known(types[i], learned)
      /\ Complete(types) => ts = types
  BY <1>1, LearnedParts
<1>3. settled \in SomeTypes(op) /\ Keeps(settled, types) /\ Complete(settled)
  BY ResolvedKeeps
<1>4. settled \in [1 .. Arity(op) -> AnyType]
  BY <1>3 DEF SomeTypes, Complete
<1>5. DOMAIN types = 1 .. Arity(op) /\ \A i \in 1 .. Arity(op) : types[i] \in AnyType \cup {Null}
  BY DEF SomeTypes
<1>6. type # Null /\ Valid(op, type, ts) /\ Templated(op, type, ts)
  BY ValidParts
<1>7. CASE Complete(types)
  <2>1. \A i \in 1 .. Arity(op) : types[i] # Null
    BY <1>5, <1>7 DEF Complete
  <2> HIDE DEF settled
  <2>2. \A i \in 1 .. Arity(op) : settled[i] = types[i]
    BY <1>3, <1>4, <2>1 DEF Keeps
  <2>3. types \in [1 .. Arity(op) -> AnyType]
    BY <1>5, <2>1 DEF SomeTypes
  <2>4. settled = types
    <3>1. \A f, g \in [1 .. Arity(op) -> AnyType] :
            (\A i \in 1 .. Arity(op) : f[i] = g[i]) => f = g
      BY SameFunction
    <3>2. QED
      BY <1>4, <2>2, <2>3, <3>1, Zenon
  <2>5. QED
    BY <1>2, <1>7, <2>4 DEF settled
<1>8. CASE ~Complete(types) /\ op \in ResolvesPair
  <2>1. Arity(op) = 2
    BY <1>8, Arities DEF ResolvesPair, BinaryOp
  <2>2. settled = << Known(types[1], types[2]), Known(types[2], types[1]) >>
    BY <1>8, Resolutions DEF Resolved
  <2>3. PICK i \in 1 .. 2, j \in 1 .. 2 : i # j /\ types[i] # Null /\ types[j] = Null
    BY <1>5, <1>8, <2>1 DEF Complete, Unknown
  <2>4. settled[1] = types[i] /\ settled[2] = types[i] /\ types[i] \in AnyType
    BY <1>5, <2>1, <2>2, <2>3 DEF Known
  <2>5. ts[i] = types[i] /\ ts[j] = learned
    BY <1>2, <2>1, <2>3 DEF Known
  <2>6. \/ ts[1] = types[i] /\ ts[2] = learned
        \/ ts[1] = learned /\ ts[2] = types[i]
    BY <2>3, <2>5
  <2>7. ts \in [1 .. 2 -> AnyType] /\ settled \in [1 .. 2 -> AnyType]
    BY <1>2, <1>4, <2>1
  <2> HIDE DEF settled, ts
  <2>8. Inferred(op, settled, width) = Inferred(op, ts, width)
    BY <1>1, <1>6, <1>8, <2>4, <2>6, <2>7, PairConfluent DEF type
  <2>9. QED
    BY <2>8 DEF settled, ts
<1>9. CASE ~Complete(types) /\ op = "pow"
  <2>1. Arity(op) = 2 /\ settled = << types[1], Known(types[2], INTEGER) >>
    BY <1>9, Resolutions, Arities DEF Resolved, BinaryOp
  <2>2. types[1] # Null /\ types[2] = Null
    BY <1>3, <1>5, <1>9, <2>1 DEF Complete
  <2>3. ts \in [1 .. 2 -> AnyType] /\ ts[1] = types[1] /\ ts[2] = learned
    BY <1>2, <2>1, <2>2 DEF Known
  <2>4. learned.kind = "INTEGER"
    BY <1>6, <1>9, <2>3, PowSigned DEF AdjustsKind
  <2>5. settled[1] = types[1] /\ settled[2] = INTEGER /\ settled \in [1 .. 2 -> AnyType]
    BY <1>4, <2>1, <2>2 DEF Known
  <2>6. \A x : Inferred(op, x, width) = ArithmeticInference(x)
    BY <1>9, PowSigned DEF Inferred, Traits
  <2>7. ts[1].kind = "INTEGER"
    BY <1>6, <1>9, <2>3, <2>4, <2>6, BinaryTypes, TypeParts, PowSigned
    DEF ArithmeticInference, AdjustsKind
  <2> HIDE DEF settled, ts
  <2>8. ArithmeticInference(settled) = INTEGER /\ ArithmeticInference(ts) = INTEGER
    BY <2>3, <2>4, <2>5, <2>7, BinaryTypes, NamedTypes DEF ArithmeticInference
  <2>9. QED
    BY <2>6, <2>8 DEF settled, ts
<1>10. CASE ~Complete(types) /\ op = "imp"
  <2>1. Arity(op) = 2 /\ settled = [i \in DOMAIN types |-> Known(types[i], BOOLEAN_TYPE)]
    BY <1>10, Resolutions, Arities DEF Resolved, BinaryOp
  <2>2. ts \in [1 .. 2 -> AnyType] /\ settled \in [1 .. 2 -> AnyType]
    BY <1>2, <1>4, <2>1
  <2>3. ts[1].kind = "BOOLEAN" /\ ts[2].kind = "BOOLEAN"
    BY <1>6, <1>10, <2>2, ImpSigned DEF JoinsKind
  <2>4. \A i \in 1 .. 2 : ts[i] = BOOLEAN_TYPE
    BY <2>2, <2>3, NamedTypes, BinaryTypes
  <2>5. \A i \in 1 .. 2 : settled[i] = BOOLEAN_TYPE
    BY <1>2, <1>5, <2>1, <2>4 DEF Known
  <2>6. settled = ts
    BY <2>2, <2>4, <2>5
  <2>7. QED
    BY <2>6
<1>11. CASE ~Complete(types) /\ op \in Printing
  <2>1. Arity(op) = 1 /\ settled = [i \in DOMAIN types |-> Known(types[i], STRING_TYPE)]
    BY <1>11, Resolutions, Arities DEF Resolved, UnaryOp, Printing
  <2>2. ts \in [1 .. 1 -> AnyType] /\ settled \in [1 .. 1 -> AnyType]
    BY <1>2, <1>4, <2>1
  <2>3. ts[1].kind = "STRING"
    BY <1>6, <1>11, <2>2, PrintingSigned DEF Converts
  <2>4. ts[1] = STRING_TYPE
    BY <2>2, <2>3, NamedTypes, UnaryTypes
  <2>5. settled[1] = STRING_TYPE
    BY <1>2, <1>5, <2>1, <2>4 DEF Known
  <2>6. settled = ts
    BY <2>2, <2>4, <2>5
  <2>7. QED
    BY <2>6
<1>12. CASE ~Complete(types) /\ Registered[op].resolve = "none"
  BY <1>3, <1>12 DEF Resolved
<1>13. CASE op \in Conversion /\ Registered[op].inference = "VOID"
  BY <1>13 DEF Inferred
<1>14. QED
  BY <1>7, <1>8, <1>9, <1>10, <1>11, <1>12, <1>13, Resolutions, TokenCases DEF ResolvesPair

-----------------------------------------------------------------------------
(* The types of a call *)

\* A result that is valid is of a type.
LEMMA ValidIsTyped ==
  ASSUME NEW op \in Token, NEW types \in [1 .. Arity(op) -> AnyType]
  PROVE  ~Valid(op, Throws, types)
<1>1. SUFFICES ASSUME Templated(op, Throws, types)
               PROVE  FALSE
  BY ValidParts
<1>2. Throws.kind = "throws"
  BY DEF Throws, Plain
<1>3. CASE op \in ArithmeticPair \cup LogicPair \cup {"imp"} \cup ArithmeticBuiltin
  <2>1. types \in [1 .. 2 -> AnyType]
    BY <1>3, Arities DEF BinaryOp
  <2>2. PICK kinds : JoinsKind(op, kinds)
    BY <1>3, ArithmeticPairSigned, LogicPairSigned, ImpSigned, ArithmeticBuiltinSigned
  <2>3. types[1].kind = "throws"
    BY <1>1, <1>2, <2>1, <2>2 DEF JoinsKind
  <2>4. QED
    BY <2>1, <2>3, BinaryTypes, TypeParts
<1>4. CASE op \in Comparison \cup CompareBuiltin
  <2>1. types \in [1 .. 2 -> AnyType]
    BY <1>4, Arities DEF BinaryOp
  <2>2. PICK kinds : ComparesKind(op, kinds)
    BY <1>4, ComparisonSigned, CompareBuiltinSigned
  <2>3. QED
    BY <1>1, <1>2, <2>1, <2>2 DEF ComparesKind
<1>5. CASE op \in Extension \cup Shifting \cup {"pow"}
  <2>1. types \in [1 .. 2 -> AnyType]
    BY <1>5, Arities DEF BinaryOp
  <2>2. PICK kinds, others : AdjustsKind(op, kinds, others)
    BY <1>5, ExtensionSigned, ShiftingSigned, PowSigned
  <2>3. types[1].kind = "throws"
    BY <1>1, <1>2, <2>1, <2>2 DEF AdjustsKind
  <2>4. QED
    BY <2>1, <2>3, BinaryTypes, TypeParts
<1>6. CASE op = "at"
  BY <1>1, <1>2, <1>6, AtSigned
<1>7. CASE op \in Conversion \cup Printing \cup {"asInteger", "asBinary"}
  <2>1. types \in [1 .. 1 -> AnyType]
    BY <1>7, Arities DEF UnaryOp
  <2>2. PICK kinds \in SUBSET Comparable, made \in PlainKind \cup {"INTEGER", "BINARY"} :
           Converts(op, kinds, made)
    <3>1. CASE op \in Conversion
      BY <3>1, ConversionSigned
    <3>2. CASE op \in Printing
      <4>1. /\ Converts(op, {"STRING"}, "VOID") /\ "VOID" \in PlainKind
            /\ {"STRING"} \in SUBSET Comparable
        BY <3>2, PrintingSigned DEF PlainKind, Comparable
      <4>2. QED
        BY <4>1
    <3>3. CASE op \in {"asInteger", "asBinary"}
      <4>1. \E made \in {"INTEGER", "BINARY"} :
              Converts(op, {"BOOLEAN", "INTEGER", "BINARY", "DECIMAL"}, made)
        BY <3>3, UnarySigned
      <4>2. {"BOOLEAN", "INTEGER", "BINARY", "DECIMAL"} \in SUBSET Comparable
        BY DEF Comparable, Numeric
      <4>3. QED
        BY <4>1, <4>2
    <3>4. QED
      BY <1>7, <3>1, <3>2, <3>3
  <2>3. QED
    BY <1>1, <1>2, <2>1, <2>2 DEF Converts, PlainKind
<1>8. CASE op \in {"inv", "not", "asEnumeration"}
  <2>1. types \in [1 .. 1 -> AnyType]
    BY <1>8, Arities DEF UnaryOp
  <2>2. PICK kinds : KeepsKind(op, kinds)
    BY <1>8, UnarySigned
  <2>3. types[1].kind = "throws"
    BY <1>1, <1>2, <2>1, <2>2 DEF KeepsKind
  <2>4. QED
    BY <2>1, <2>3, UnaryTypes, TypeParts
<1>9. CASE op = "abort"
  BY <1>1, <1>2, <1>9, AbortSigned
<1>10. QED
  BY <1>3, <1>4, <1>5, <1>6, <1>7, <1>8, <1>9, TokenCases

\* A call that has a result has all its types, and they are accepted.
CallHolds(c, types) ==
  /\ c = [op |-> c.op, operands |-> c.operands, width |-> c.width, result |-> c.result,
          types |-> c.types]
  /\ c.op \in Token /\ c.width \in Nat
  /\ c.operands \in OperandsOf(c.op)
  /\ c.types \in SomeTypes(c.op)
  /\ \A i \in 1 .. Arity(c.op) : c.operands[i] \in Register => c.types[i] = types[c.operands[i]]
  /\ c.result # Null =>
       c.result \in AnyType /\ Complete(c.types) /\ Valid(c.op, c.result, c.types)

RegisterTypes == [k \in Register |-> registers[k].type]

\* The inductive invariant.
TypesHold ==
  /\ registers = [k \in Register |-> registers[k]]
  /\ \A k \in Register :
       registers[k] = [type |-> registers[k].type, constant |-> registers[k].constant]
  /\ RegisterTypes \in [Register -> AnyType]
  /\ ~Idle => CallHolds(call, RegisterTypes)

LEMMA KnownCall ==
  ASSUME NEW c, NEW types \in [Register -> AnyType], CallHolds(c, types)
  PROVE  /\ Arity(c.op) = 2 => ~Unknown(c.types)
         /\ DOMAIN c.types = 1 .. Arity(c.op) /\ DOMAIN c.operands = 1 .. Arity(c.op)
         /\ Complete(c.types) => c.types \in [1 .. Arity(c.op) -> AnyType]
<1>1. DOMAIN c.types = 1 .. Arity(c.op) /\ DOMAIN c.operands = 1 .. Arity(c.op)
  BY DEF CallHolds, OperandsOf, SomeTypes
<1>2. ASSUME Arity(c.op) = 2
      PROVE  ~Unknown(c.types)
  <2>1. PICK i \in 1 .. 2 : c.operands[i] \in Register
    BY <1>2 DEF CallHolds, OperandsOf
  <2>2. c.types[i] \in AnyType
    BY <1>2, <2>1 DEF CallHolds
  <2>3. QED
    BY <1>1, <1>2, <2>2, TypeParts DEF Unknown
<1>3. ASSUME Complete(c.types)
      PROVE  c.types \in [1 .. Arity(c.op) -> AnyType]
  BY <1>1, <1>3 DEF CallHolds, SomeTypes, Complete
<1>4. QED
  BY <1>1, <1>2, <1>3

LEMMA TypesInit ==
  ASSUME CallInit
  PROVE  TypesHold
<1>1. ASSUME NEW k \in Register
      PROVE  /\ registers[k] = [type |-> registers[k].type, constant |-> registers[k].constant]
             /\ registers[k].type \in AnyType
  <2>1. PICK type \in Type : registers[k] \in RegistersOf(type)
    BY DEF CallInit
  <2>2. QED
    BY <2>1 DEF RegistersOf, AnyType
<1>2. Idle
  BY DEF CallInit, Idle
<1>3. registers = [k \in Register |-> registers[k]]
  BY DEF CallInit
<1>4. QED
  BY <1>1, <1>2, <1>3 DEF TypesHold, RegisterTypes

\* Registers change when a call ends, and then no call is open.
LEMMA TypesEvaluate ==
  ASSUME TypesHold, NEW k \in Register, Evaluate(k)
  PROVE  TypesHold'
<1>1. call.result \in AnyType
  BY DEF TypesHold, Evaluate, CallHolds
<1>2. PICK res, kept :
        /\ \/ registers' = registers
           \/ registers' = [registers EXCEPT ![k] = [type |-> call.result, constant |-> res]]
           \/ registers' = [registers EXCEPT ![k] = kept]
        /\ kept = [registers[k] EXCEPT !.type = call.result]
  BY DEF Evaluate
<1>3. Idle'
  BY DEF Evaluate, Idle
<1>4. /\ registers = [j \in Register |-> registers[j]]
      /\ \A j \in Register :
           /\ registers[j] = [type |-> registers[j].type, constant |-> registers[j].constant]
           /\ registers[j].type \in AnyType
  BY DEF TypesHold, RegisterTypes
<1>5. kept = [type |-> call.result, constant |-> registers[k].constant]
  BY <1>2, <1>4
<1>6. \/ registers' = registers
      \/ \E c : registers' = [registers EXCEPT ![k] = [type |-> call.result, constant |-> c]]
  BY <1>2, <1>5
<1>7. CASE registers' = registers
  BY <1>3, <1>4, <1>7 DEF TypesHold, RegisterTypes
<1>8. ASSUME NEW c, registers' = [registers EXCEPT ![k] = [type |-> call.result, constant |-> c]]
      PROVE  TypesHold'
  <2>1. registers' = [j \in Register |->
          IF j = k THEN [type |-> call.result, constant |-> c] ELSE registers[j]]
    BY <1>4, <1>8
  <2>2. QED
    BY <1>1, <1>3, <1>4, <2>1 DEF TypesHold, RegisterTypes
<1>9. QED
  BY <1>6, <1>7, <1>8

\* The other actions change the call alone.
LEMMA TypesCall ==
  ASSUME TypesHold, UNCHANGED registers, Idle' \/ CallHolds(call', RegisterTypes)
  PROVE  TypesHold'
<1>1. RegisterTypes' = RegisterTypes
  BY DEF RegisterTypes
<1>2. QED
  BY <1>1 DEF TypesHold

LEMMA TypesOpen ==
  ASSUME TypesHold, NEW op \in Token, NEW operands \in OperandsOf(op), NEW width \in Nat,
         Open(op, operands, width)
  PROVE  TypesHold'
<1> DEFINE types == [i \in DOMAIN operands |-> IF operands[i] = UndefLiteral
                       THEN Null ELSE registers[operands[i]].type]
<1>1. call' = [op |-> op, operands |-> operands, width |-> width, result |-> Null, types |-> types]
  BY DEF Open
<1>2. operands \in [1 .. Arity(op) -> Register \cup {UndefLiteral}]
  BY DEF OperandsOf
<1>3. RegisterTypes \in [Register -> AnyType]
  BY DEF TypesHold
<1>4. \A i \in 1 .. Arity(op) :
        types[i] = IF operands[i] \in Register THEN RegisterTypes[operands[i]] ELSE Null
  BY <1>2, RegisterAssumption DEF RegisterTypes
<1>5. types \in SomeTypes(op)
  <2>1. types = [i \in 1 .. Arity(op) |-> types[i]]
    BY <1>2
  <2> HIDE DEF types
  <2>2. QED
    BY <1>3, <1>4, <2>1 DEF SomeTypes
<1> HIDE DEF types
<1>6. CallHolds(call', RegisterTypes)
  BY <1>1, <1>4, <1>5 DEF CallHolds
<1>7. QED
  BY <1>6, TypesCall DEF Open

LEMMA TypesResolve ==
  ASSUME TypesHold, Resolve
  PROVE  TypesHold'
<1>1. CallHolds(call, RegisterTypes) /\ RegisterTypes \in [Register -> AnyType]
  BY DEF TypesHold, Resolve
<1> DEFINE types == Resolved(call.op, call.types)
<1>2. types \in SomeTypes(call.op) /\ Keeps(types, call.types)
  BY <1>1, ResolvedKeeps DEF CallHolds
<1>3. call' = [call EXCEPT !.types = types] /\ UNCHANGED registers /\ ~Complete(call.types)
  BY DEF Resolve
<1> HIDE DEF types
<1>4. call.result = Null
  BY <1>1, <1>3 DEF CallHolds
<1>5. call' = [op |-> call.op, operands |-> call.operands, width |-> call.width,
               result |-> call.result, types |-> types]
  BY <1>1, <1>3 DEF CallHolds
<1>6. \A i \in 1 .. Arity(call.op) :
        call.operands[i] \in Register => types[i] = RegisterTypes[call.operands[i]]
  <2>1. TAKE i \in 1 .. Arity(call.op)
  <2>2. HAVE call.operands[i] \in Register
  <2>3. call.types[i] = RegisterTypes[call.operands[i]] /\ call.types[i] \in AnyType
    BY <1>1, <2>2 DEF CallHolds
  <2>4. i \in DOMAIN types /\ call.types[i] # Null
    BY <1>2, <2>3, TypeParts DEF SomeTypes
  <2>5. QED
    BY <1>2, <2>3, <2>4 DEF Keeps
<1>7. CallHolds(call', RegisterTypes)
  BY <1>1, <1>2, <1>4, <1>5, <1>6 DEF CallHolds
<1>8. QED
  BY <1>3, <1>7, TypesCall

LEMMA TypesLearn ==
  ASSUME TypesHold, NEW i \in 1 .. 2, NEW type \in Type, Learn(i, type)
  PROVE  TypesHold'
<1>1. CallHolds(call, RegisterTypes) /\ RegisterTypes \in [Register -> AnyType]
  BY DEF TypesHold, Learn
<1>2. /\ i \in DOMAIN call.types /\ call.types[i] = Null
      /\ call' = [call EXCEPT !.types[i] = type] /\ UNCHANGED registers
  BY DEF Learn
<1> DEFINE types == [call.types EXCEPT ![i] = type]
<1>3. types \in SomeTypes(call.op) /\ i \in 1 .. Arity(call.op)
  BY <1>1, <1>2 DEF CallHolds, SomeTypes, AnyType
<1>4. call.result = Null
  BY <1>1, <1>2 DEF CallHolds, Complete
<1>5. call' = [op |-> call.op, operands |-> call.operands, width |-> call.width,
               result |-> call.result, types |-> types]
  BY <1>1, <1>2 DEF CallHolds
<1>6. \A j \in 1 .. Arity(call.op) :
        call.operands[j] \in Register => types[j] = RegisterTypes[call.operands[j]]
  <2>1. TAKE j \in 1 .. Arity(call.op)
  <2>2. HAVE call.operands[j] \in Register
  <2>3. call.types[j] = RegisterTypes[call.operands[j]] /\ call.types[j] \in AnyType
    BY <1>1, <2>2 DEF CallHolds
  <2>4. j # i
    BY <1>2, <2>3, TypeParts
  <2>5. QED
    BY <1>1, <2>3, <2>4 DEF CallHolds, SomeTypes
<1> HIDE DEF types
<1>7. CallHolds(call', RegisterTypes)
  BY <1>1, <1>3, <1>4, <1>5, <1>6 DEF CallHolds
<1>8. QED
  BY <1>2, <1>7, TypesCall

LEMMA TypesInfer ==
  ASSUME TypesHold, Infer
  PROVE  TypesHold'
<1>1. CallHolds(call, RegisterTypes) /\ RegisterTypes \in [Register -> AnyType]
  BY DEF TypesHold, Infer
<1> DEFINE inferred == Inferred(call.op, call.types, call.width)
<1>2. PICK type \in IF inferred = Null THEN Type ELSE {inferred} :
        /\ Valid(call.op, type, call.types) /\ call' = [call EXCEPT !.result = type]
  BY DEF Infer
<1>3. Complete(call.types) /\ UNCHANGED registers
  BY DEF Infer
<1>4. call.types \in [1 .. Arity(call.op) -> AnyType]
  BY <1>1, <1>3, KnownCall
<1>5. inferred \in AnyType \cup {Null, Throws}
  BY <1>1, <1>4, AllInferWell DEF InfersWell, CallHolds
<1>6. type # Throws
  BY <1>1, <1>2, <1>4, ValidIsTyped DEF CallHolds
<1>7. type \in AnyType
  BY <1>2, <1>5, <1>6 DEF AnyType
<1>8. call' = [op |-> call.op, operands |-> call.operands, width |-> call.width,
               result |-> type, types |-> call.types]
  BY <1>1, <1>2 DEF CallHolds
<1>9. CallHolds(call', RegisterTypes)
  BY <1>1, <1>2, <1>3, <1>7, <1>8 DEF CallHolds
<1>10. QED
  BY <1>3, <1>9, TypesCall

LEMMA TypesStep ==
  ASSUME TypesHold, [CallNext]_callVars
  PROVE  TypesHold'
<1>1. ASSUME NEW op \in Token, NEW operands \in OperandsOf(op),
             NEW width \in IF Registered[op].inference = "width" THEN 0 .. SizeMax + 1 ELSE {0},
             Open(op, operands, width)
      PROVE  TypesHold'
  <2>1. width \in Nat
    BY BitsizeAssumption
  <2>2. QED
    BY <1>1, <2>1, TypesOpen
<1>2. CASE GiveUp
  <2>1. Idle' /\ UNCHANGED registers
    BY <1>2 DEF GiveUp, Idle
  <2>2. QED
    BY <2>1, TypesCall
<1>3. CASE UNCHANGED callVars
  <2>1. UNCHANGED registers /\ UNCHANGED call /\ (Idle' <=> Idle)
    BY <1>3 DEF callVars, Idle
  <2>2. Idle \/ CallHolds(call, RegisterTypes)
    BY DEF TypesHold
  <2>3. QED
    BY <2>1, <2>2, TypesCall
<1>4. QED
  BY <1>1, <1>2, <1>3, TypesResolve, TypesLearn, TypesInfer, TypesEvaluate DEF CallNext

\* Registers and calls are of known types, and a call with a result is valid.
THEOREM TypesAreKnown == CallSpec => []TypesHold
<1>1. CallInit => TypesHold
  BY TypesInit
<1>2. TypesHold /\ [CallNext]_callVars => TypesHold'
  BY TypesStep
<1>3. QED
  BY <1>1, <1>2, PTL DEF CallSpec

\* Every type that is inferred for operands the operation is registered for is valid,
\* but for the gaps, which are not: for all types of clients.
THEOREM InferenceIsAccepted == CallSpec => []InferenceAccepted
<1>1. TypesHold => InferenceAccepted
  <2>1. SUFFICES ASSUME TypesHold, ~Idle, Complete(call.types), Accepts(call.op, call.types),
                        NEW type, type = Inferred(call.op, call.types, call.width),
                        type \notin {Null, Throws}
                 PROVE  Valid(call.op, type, call.types) <=> ~Gap(call.op, type, call.types)
    BY DEF InferenceAccepted
  <2>2. CallHolds(call, RegisterTypes) /\ RegisterTypes \in [Register -> AnyType]
    BY <2>1 DEF TypesHold
  <2>3. InfersWell(call.op, call.types, type)
    BY <2>1, <2>2, KnownCall, AllInferWell DEF CallHolds
  <2>4. QED
    BY <2>1, <2>3 DEF InfersWell
<1>2. QED
  BY <1>1, TypesAreKnown, PTL

\* The order of resolving the types and learning them makes no difference to what is inferred.
THEOREM ResolutionIsConfluent == CallSpec => []ResolutionConfluent
<1>1. TypesHold => ResolutionConfluent
  <2>1. SUFFICES ASSUME TypesHold, ~Idle
                 PROVE  ResolutionConfluent
    BY DEF ResolutionConfluent
  <2>2. CallHolds(call, RegisterTypes) /\ RegisterTypes \in [Register -> AnyType]
    BY <2>1 DEF TypesHold
  <2> DEFINE settled == Resolved(call.op, call.types)
  <2>3. settled \in SomeTypes(call.op) /\ Keeps(settled, call.types)
    BY <2>2, ResolvedKeeps DEF CallHolds
  <2>4. DOMAIN settled = DOMAIN call.types
    BY <2>2, <2>3 DEF SomeTypes, CallHolds
  <2>5. ASSUME Complete(settled), NEW learned \in Type,
               NEW types, types = [i \in DOMAIN settled |-> Known(call.types[i], learned)],
               NEW type, type = Inferred(call.op, types, call.width),
               type # Null, Valid(call.op, type, types)
        PROVE  Inferred(call.op, settled, call.width) = type
    <3>1. types = LearnedTypes(call.types, learned)
      BY <2>4, <2>5 DEF LearnedTypes
    <3>2. QED
      BY <2>2, <2>5, <3>1, KnownCall, TypesConfluent DEF CallHolds
  <2>6. QED
    BY <2>3, <2>5 DEF ResolutionConfluent, Keeps
<1>2. QED
  BY <1>1, TypesAreKnown, PTL

-----------------------------------------------------------------------------
(* Results *)

LEMMA ConstantParts ==
  /\ \A type : /\ Undef(type).is = "undef" /\ Undef(type).type = Dynamic(type)
               /\ Value(type).is = "value" /\ Value(type).type = Dynamic(type)
               /\ Symbol(type).is = "symbol" /\ Symbol(type).type = type
  /\ Thrown.is = "thrown" /\ Unchanged.is = "unchanged"
  BY DEF Undef, Value, Symbol, Thrown, Unchanged

\* A constant of a type: it is not of a range unless it is a symbol.
Holds(c, type) ==
  /\ c.type \in AnyType /\ Alike(c.type, type)
  /\ c.is \in {"undef", "value", "symbol"}
  /\ c.is # "symbol" => c.type = Dynamic(c.type)

LEMMA DynamicParts ==
  ASSUME NEW type \in AnyType
  PROVE  /\ Dynamic(type) \in AnyType /\ Alike(Dynamic(type), type)
         /\ Dynamic(Dynamic(type)) = Dynamic(type) /\ Dynamic(type).kind = type.kind
  BY NamedTypes DEF Dynamic, Alike

LEMMA MadeHolds ==
  ASSUME NEW type \in AnyType, NEW result, Alike(type, result)
  PROVE  Holds(Undef(type), result) /\ Holds(Value(type), result) /\ Holds(Symbol(type), result)
  BY DynamicParts, ConstantParts DEF Holds, Alike

LEMMA HoldsAlike ==
  ASSUME NEW c, NEW type, NEW result, Holds(c, type), Alike(type, result)
  PROVE  Holds(c, result)
  BY DEF Holds, Alike

\* What a call makes is a constant of the type of its result, or it throws.
Fits(res, result) == res = Thrown \/ Holds(res, result)

LEMMA ReadFits ==
  ASSUME NEW args, NEW result, NEW results, \A res \in results : Fits(res, result)
  PROVE  \A res \in Read(args, results) : Fits(res, result)
<1>1. ASSUME NEW c \in results \ {Thrown}
      PROVE  Fits(Undef(c.type), result)
  <2>1. Holds(c, result)
    BY <1>1 DEF Fits
  <2>2. c.type \in AnyType /\ Alike(c.type, result)
    BY <2>1 DEF Holds
  <2>3. QED
    BY <2>2, MadeHolds DEF Fits
<1>2. QED
  BY <1>1 DEF Read, Fits

LEMMA SymbolicFits ==
  ASSUME NEW args, NEW type, NEW result, Fits(Symbol(type), result)
  PROVE  \A res \in SymbolicInstruction(args, type) : Fits(res, result)
  BY DEF SymbolicInstruction, Fits

\* Operands that are constants of their types.
Given(args, n, types) == DOMAIN args = 1 .. n /\ \A i \in 1 .. n : Holds(args[i], types[i])

-----------------------------------------------------------------------------
(* What the operations execute *)

Implemented(op) == IF op = "add" THEN {"INTEGER", "BINARY", "STRING"} ELSE {"INTEGER"}
Computed(op, result) ==
  IF op \in {"mod", "div"} THEN { Value(result), Undef(result) } ELSE { Value(result) }

LEMMA ExecutedPairs ==
  ASSUME NEW op \in ArithmeticPair, NEW args, NEW result
  PROVE  Execute(op, args, result) = Arithmetic(args, result, Implemented(op), Computed(op, result))
<1> USE DEF Execute, ExecuteInstruction, Instruction, Implemented, Computed
<1>1. CASE op = "add"
  BY <1>1 DEF Add
<1>2. CASE op = "sub"
  BY <1>2 DEF Sub
<1>3. CASE op = "mul"
  BY <1>3 DEF Mul
<1>4. CASE op = "mod"
  BY <1>4 DEF Mod
<1>5. CASE op = "div"
  BY <1>5 DEF Div
<1>6. QED
  BY <1>1, <1>2, <1>3, <1>4, <1>5 DEF ArithmeticPair

LEMMA ExecutedLogic ==
  ASSUME NEW op \in LogicPair \cup {"imp"}, NEW args, NEW result
  PROVE  Execute(op, args, result) = Connective(args, result, op # "xor")
<1> USE DEF Execute, ExecuteInstruction, Instruction
<1>1. CASE op = "and"
  BY <1>1 DEF And
<1>2. CASE op = "xor"
  BY <1>2 DEF Xor
<1>3. CASE op = "or"
  BY <1>3 DEF Or
<1>4. CASE op = "imp"
  BY <1>4 DEF Imp
<1>5. QED
  BY <1>1, <1>2, <1>3, <1>4 DEF LogicPair

LEMMA ExecutedComparison ==
  ASSUME NEW op \in Comparison, NEW args, NEW result
  PROVE  Execute(op, args, result) =
           IF op \in {"equ", "neq"} THEN Equ(args)
           ELSE Order(args,
                      IF op \in {"leq", "geq"} THEN Value(BOOLEAN_TYPE) ELSE Undef(BOOLEAN_TYPE))
<1> USE DEF Execute, ExecuteInstruction, Instruction
<1>1. CASE op = "equ"
  BY <1>1
<1>2. CASE op = "neq"
  BY <1>2 DEF Neq, Equ
<1>3. CASE op = "lth"
  BY <1>3 DEF Lth
<1>4. CASE op = "leq"
  BY <1>4 DEF Leq
<1>5. CASE op = "gth"
  BY <1>5 DEF Gth
<1>6. CASE op = "geq"
  BY <1>6 DEF Geq
<1>7. QED
  BY <1>1, <1>2, <1>3, <1>4, <1>5, <1>6 DEF Comparison

LEMMA ExecutedThrowing ==
  ASSUME NEW op \in Unimplemented \cup {"abort"}, NEW args, NEW result
  PROVE  Execute(op, args, result) = {Thrown}
  BY DEF Execute, ExecuteBuiltin, Instruction, Unimplemented

LEMMA ExecutedSingles ==
  ASSUME NEW args, NEW result
  PROVE  /\ Execute("inv", args, result) = Inv(args)
         /\ Execute("pow", args, result) = Pow(args, result)
         /\ Execute("not", args, result) = Not(args, result)
         /\ Execute("isSymbolic", args, result) = { Value(BOOLEAN_TYPE) }
         /\ Execute("assert", args, result) = AssertBuiltin(args)
         /\ Execute("assure", args, result) = AssureBuiltin(args)
         /\ Execute("size", args, result) = Size(args)
         /\ Execute("at", args, result) = At(args)
         /\ Execute("print", args, result) = PrintBuiltin(args)
         /\ Execute("println", args, result) = PrintBuiltin(args)
         /\ Execute("addu", args, result) = Addu(args)
         /\ Execute("zext", args, result) = Zext(args[1], result)
         /\ Execute("sext", args, result) = Zext(args[1], result)
         /\ Execute("trunc", args, result) = Trunc(args, result)
         /\ Execute("shl", args, result) = Shift(args)
         /\ Execute("shr", args, result) = Shift(args)
  BY DEF Execute, ExecuteInstruction, ExecuteBuiltin, Instruction, Unimplemented, PrintLnBuiltin,
         Sext, Shl, Shr

LEMMA ExecutedCasts ==
  ASSUME NEW args, NEW result
  PROVE  /\ Execute("asBoolean", args, result) = AsBoolean(args[1], result)
         /\ Execute("asInteger", args, result) = AsInteger(args[1], result)
         /\ Execute("asBinary", args, result) = AsBinary(args[1], result)
         /\ Execute("asString", args, result) = AsString(args[1])
         /\ Execute("asDecimal", args, result) = AsDecimal(args[1], result)
         /\ Execute("asRational", args, result) = AsRational(args[1], result)
         /\ Execute("asEnumeration", args, result) = AsEnumeration(args[1], result)
         /\ Execute("dec", args, result) = Stringify(args[1])
         /\ Execute("hex", args, result) = Stringify(args[1])
         /\ Execute("oct", args, result) = Stringify(args[1])
         /\ Execute("bin", args, result) = Stringify(args[1])
  BY DEF Execute, ExecuteBuiltin, Instruction, Unimplemented, Dec, Hex, Oct, Bin

-----------------------------------------------------------------------------
(* Results are of the type of the call *)

\* A valid call of operands that are constants of their types.
Called(op, args, types, result) ==
  /\ types \in [1 .. Arity(op) -> AnyType] /\ result \in AnyType /\ Valid(op, result, types)
  /\ Given(args, Arity(op), types)

AllFit(op, args, result) == \A res \in Execute(op, args, result) : Fits(res, result)

LEMMA CalledBinary ==
  ASSUME NEW op, NEW args, NEW types, NEW result, Called(op, args, types, result), Arity(op) = 2
  PROVE  /\ types \in [1 .. 2 -> AnyType] /\ types[1] \in AnyType /\ types[2] \in AnyType
         /\ DOMAIN types = {1, 2} /\ Len(types) = 2 /\ DOMAIN args = {1, 2}
         /\ \A kind : AllOfKind(types, kind) <=> types[1].kind = kind /\ types[2].kind = kind
         /\ Templated(op, result, types) /\ Validated(op, result, types)
         /\ Holds(args[1], types[1]) /\ Holds(args[2], types[2])
  BY BinaryTypes, ValidParts DEF Called, Given

LEMMA CalledUnary ==
  ASSUME NEW op, NEW args, NEW types, NEW result, Called(op, args, types, result), Arity(op) = 1
  PROVE  /\ types \in [1 .. 1 -> AnyType] /\ types[1] \in AnyType
         /\ DOMAIN types = {1} /\ Len(types) = 1 /\ DOMAIN args = {1}
         /\ Templated(op, result, types) /\ Validated(op, result, types)
         /\ Holds(args[1], types[1])
  BY UnaryTypes, ValidParts DEF Called, Given

\* The operands that may be results are of the type of the result.
LEMMA OperandsFit ==
  ASSUME NEW op, NEW args, NEW types, NEW result, Called(op, args, types, result)
  PROVE  /\ op \in ArithmeticPair \cup LogicPair \cup {"imp"} \cup ArithmeticBuiltin =>
              Holds(args[1], result) /\ Holds(args[2], result)
         /\ op \in Shifting \cup {"pow", "inv", "not"} => Holds(args[1], result)
<1>1. ASSUME op \in ArithmeticPair \cup LogicPair \cup {"imp"} \cup ArithmeticBuiltin
      PROVE  Holds(args[1], result) /\ Holds(args[2], result)
  <2>1. Arity(op) = 2
    BY <1>1, Arities DEF BinaryOp
  <2>2. Registered[op].validate \in {"arithmetic", "equal"}
    BY <1>1, ArithmeticPairSigned, LogicPairSigned, ImpSigned, ArithmeticBuiltinSigned DEF Traits
  <2>3. /\ Validated(op, result, types) /\ DOMAIN types = {1, 2}
        /\ AllOfKind(types, "INTEGER") => types[1].kind = "INTEGER" /\ types[2].kind = "INTEGER"
    BY <2>1, CalledBinary
  <2>4. Alike(types[1], result) /\ Alike(types[2], result)
    BY <2>2, <2>3 DEF Validated, Alike
  <2>5. QED
    BY <2>1, <2>4, CalledBinary, HoldsAlike
<1>2. ASSUME op \in Shifting \cup {"pow"}
      PROVE  Holds(args[1], result)
  <2>1. Arity(op) = 2
    BY <1>2, Arities DEF BinaryOp
  <2>2. Registered[op].validate \in {"shift", "power"}
    BY <1>2, ShiftingSigned, PowSigned DEF Traits
  <2>3. /\ Validated(op, result, types) /\ DOMAIN types = {1, 2}
        /\ AllOfKind(types, "INTEGER") => types[1].kind = "INTEGER" /\ types[2].kind = "INTEGER"
    BY <2>1, CalledBinary
  <2>4. Alike(types[1], result)
    BY <2>2, <2>3 DEF Validated, Alike
  <2>5. QED
    BY <2>1, <2>4, CalledBinary, HoldsAlike
<1>3. ASSUME op \in {"inv", "not"}
      PROVE  Holds(args[1], result)
  <2>1. Arity(op) = 1
    BY <1>3, Arities DEF UnaryOp
  <2>2. Registered[op].validate = "arithmetic"
    BY <1>3, UnarySigned DEF Traits
  <2>3. Validated(op, result, types) /\ DOMAIN types = {1} /\ Len(types) = 1
    BY <2>1, CalledUnary
  <2>4. Alike(types[1], result)
    BY <2>2, <2>3 DEF Validated, Alike
  <2>5. QED
    BY <2>1, <2>4, CalledUnary, HoldsAlike
<1>4. QED
  BY <1>1, <1>2, <1>3

LEMMA ResultFits ==
  ASSUME NEW result \in AnyType
  PROVE  /\ Fits(Value(result), result) /\ Fits(Undef(result), result)
         /\ Fits(Symbol(result), result) /\ Fits(Thrown, result)
         /\ \A c : Holds(c, result) => /\ Fits(c, result) /\ Fits(Value(c.type), result)
                                       /\ Fits(Undef(c.type), result)
                                       /\ Fits(Symbol(c.type), result)
  BY MadeHolds DEF Fits, Holds, Alike

LEMMA ArithmeticFits ==
  ASSUME NEW op \in ArithmeticPair, NEW args, NEW types, NEW result, Called(op, args, types, result)
  PROVE  AllFit(op, args, result)
<1>1. Holds(args[1], result) /\ Holds(args[2], result) /\ result \in AnyType
  BY OperandsFit DEF Called
<1>2. \A res \in SymbolicInstruction(args, args[1].type) : Fits(res, result)
  BY <1>1, ResultFits, SymbolicFits
<1>3. \A res \in Computed(op, result) : Fits(res, result)
  BY <1>1, ResultFits DEF Computed
<1>4. QED
  BY <1>1, <1>2, <1>3, ResultFits, ExecutedPairs DEF AllFit, Arithmetic

LEMMA LogicFits ==
  ASSUME NEW op \in LogicPair \cup {"imp"}, NEW args, NEW types, NEW result,
         Called(op, args, types, result)
  PROVE  AllFit(op, args, result)
<1>1. Holds(args[1], result) /\ result \in AnyType
  BY OperandsFit DEF Called
<1>2. \A res \in SymbolicInstruction(args, args[1].type) : Fits(res, result)
  BY <1>1, ResultFits, SymbolicFits
<1>3. \A decided \in BOOLEAN : \A res \in Connective(args, result, decided) :
        res \in SymbolicInstruction(args, args[1].type) \cup {Thrown, Value(result), Undef(result)}
  BY DEF Connective
<1>4. \A res \in Execute(op, args, result) :
        res \in SymbolicInstruction(args, args[1].type) \cup {Thrown, Value(result), Undef(result)}
  BY <1>3, ExecutedLogic
<1>5. QED
  BY <1>1, <1>2, <1>4, ResultFits DEF AllFit

LEMMA ComparisonFits ==
  ASSUME NEW op \in Comparison, NEW args, NEW types, NEW result, Called(op, args, types, result)
  PROVE  AllFit(op, args, result)
<1>1. Arity(op) = 2
  BY Arities DEF BinaryOp
<1>2. PICK kinds \in SUBSET Comparable : ComparesKind(op, kinds)
  BY ComparisonSigned
<1>3. result = BOOLEAN_TYPE /\ result \in AnyType
  BY <1>1, <1>2, CalledBinary, NamedTypes DEF ComparesKind, Called
<1>4. \A res \in SymbolicInstruction(args, BOOLEAN_TYPE) : Fits(res, result)
  BY <1>3, ResultFits, SymbolicFits
<1>5. \A res \in Equ(args) : Fits(res, result)
  BY <1>3, <1>4, ResultFits DEF Equ
<1>6. \A res \in Order(args, Value(BOOLEAN_TYPE)) : Fits(res, result)
  BY <1>3, <1>4, ResultFits DEF Order
<1>7. \A res \in Order(args, Undef(BOOLEAN_TYPE)) : Fits(res, result)
  BY <1>3, <1>4, ResultFits DEF Order
<1>8. QED
  BY <1>5, <1>6, <1>7, ExecutedComparison DEF AllFit

\* Only an exponent that clients have to look at leaves the result as it was.
LEMMA SinglesFit ==
  ASSUME NEW op \in {"inv", "pow", "not"}, NEW args, NEW types, NEW result,
         Called(op, args, types, result), Careful
  PROVE  AllFit(op, args, result)
<1>1. Holds(args[1], result) /\ result \in AnyType
  BY OperandsFit DEF Called
<1>2. CASE op = "inv"
  BY <1>1, <1>2, ResultFits, ExecutedSingles DEF AllFit, Inv
<1>3. CASE op = "pow"
  <2>1. \A res \in Read(args, { Value(result), Undef(result) }) : Fits(res, result)
    BY <1>1, ResultFits, ReadFits
  <2>2. \A res \in Pow(args, result) :
          res \in Read(args, { Value(result), Undef(result) }) \cup { args[1], Undef(result) }
    BY DEF Pow
  <2>3. QED
    BY <1>1, <1>3, <2>1, <2>2, ResultFits, ExecutedSingles DEF AllFit
<1>4. CASE op = "not"
  <2> DEFINE results == { Value(args[1].type) } \cup
                          (IF args[1].type.kind = "BINARY" THEN {Thrown} ELSE {})
  <2>1. \A res \in results : Fits(res, result)
    BY <1>1, ResultFits
  <2>2. \A res \in Read(args, results) : Fits(res, result)
    BY <2>1, ReadFits
  <2>3. Execute(op, args, result) =
          IF ~Defined(args[1]) THEN { Undef(result) } ELSE Read(args, results)
    BY <1>4, ExecutedSingles DEF Not
  <2> HIDE DEF results
  <2>4. QED
    BY <1>1, <2>2, <2>3, ResultFits DEF AllFit
<1>5. QED
  BY <1>2, <1>3, <1>4

LEMMA StringifyFits ==
  ASSUME NEW arg, NEW result, result = STRING_TYPE
  PROVE  \A res \in Stringify(arg) : Fits(res, result)
<1>1. result \in AnyType
  BY NamedTypes
<1>2. \A res \in { Value(STRING_TYPE) } : Fits(res, result)
  BY <1>1, ResultFits
<1>3. \A res \in Read(<< arg >>, { Value(STRING_TYPE) }) : Fits(res, result)
  BY <1>2, ReadFits
<1>4. QED
  BY <1>1, <1>3, ResultFits DEF Stringify

\* What the conversions convert to.
LEMMA ConversionTypes ==
  /\ Registered["isSymbolic"].inference = "BOOLEAN" /\ Registered["asBoolean"].inference = "BOOLEAN"
  /\ Registered["assert"].inference = "VOID" /\ Registered["assure"].inference = "VOID"
  /\ Registered["size"].inference = "INTEGER"
  /\ Registered["asDecimal"].inference = "DECIMAL"
  /\ Registered["asRational"].inference = "RATIONAL"
  /\ \A op \in {"asString", "dec", "hex", "oct", "bin"} : Registered[op].inference = "STRING"
  BY DEF Registered, IsSymbolicAnnotation, AsBooleanAnnotation, AssertAnnotation, AssureAnnotation,
         SizeAnnotation, AsDecimalAnnotation, AsRationalAnnotation, AsStringAnnotation,
         StringifyAnnotation, DecAnnotation, HexAnnotation, OctAnnotation, BinAnnotation, Annotation

LEMMA CalledConversion ==
  ASSUME NEW op \in Conversion, NEW args, NEW types, NEW result, Called(op, args, types, result)
  PROVE  /\ Arity(op) = 1 /\ result \in AnyType /\ Holds(args[1], types[1])
         /\ result.kind = Registered[op].inference
<1>1. PICK kinds \in SUBSET Comparable, made \in PlainKind \cup {"INTEGER"},
           resolve \in {"none", "boolean"} :
        Traits(op, resolve, made, "result") /\ Converts(op, kinds, made)
  BY ConversionSigned
<1>2. Arity(op) = 1
  BY <1>1 DEF Converts
<1>3. result.kind = made
  BY <1>1, <1>2, CalledUnary DEF Converts
<1>4. QED
  BY <1>1, <1>2, <1>3, CalledUnary DEF Called, Traits

LEMMA ConversionsFit ==
  ASSUME NEW op \in Conversion \ Unimplemented, NEW args, NEW types, NEW result,
         Called(op, args, types, result)
  PROVE  AllFit(op, args, result)
<1>1. /\ result \in AnyType /\ result.kind = Registered[op].inference
      /\ args[1].type \in AnyType
  BY CalledConversion DEF Holds
<1>2. CASE op = "isSymbolic"
  <2>1. result = BOOLEAN_TYPE
    BY <1>1, <1>2, ConversionTypes, NamedTypes
  <2>2. QED
    BY <1>1, <1>2, <2>1, ResultFits, ExecutedSingles DEF AllFit
<1>3. CASE op \in {"assert", "assure"}
  <2>1. result = VOID
    BY <1>1, <1>3, ConversionTypes, NamedTypes
  <2>2. \A res \in AssertBuiltin(args) \cup AssureBuiltin(args) : res \in {Value(result), Thrown}
    BY <2>1 DEF AssertBuiltin, AssureBuiltin
  <2>3. QED
    BY <1>1, <1>3, <2>2, ResultFits, ExecutedSingles DEF AllFit
<1>4. CASE op = "size"
  <2>1. result.kind = "INTEGER"
    BY <1>1, <1>4, ConversionTypes
  <2>2. Fits(Value(INTEGER), result) /\ Fits(Undef(INTEGER), result)
    BY <2>1, NamedTypes, MadeHolds DEF Fits, Alike
  <2>3. \A res \in Read(args, { Value(INTEGER) }) : Fits(res, result)
    BY <2>2, ReadFits
  <2>4. QED
    BY <1>4, <2>2, <2>3, ExecutedSingles DEF AllFit, Size
<1>5. \A x \in {"BOOLEAN", "DECIMAL", "RATIONAL"} :
        result.kind = x /\ args[1].type.kind = x =>
          Fits(args[1], result) /\ Holds(args[1], result)
  <2>1. Holds(args[1], types[1])
    BY CalledConversion
  <2>2. QED
    BY <1>1, <2>1, NamedTypes DEF Fits, Holds, Alike
<1>6. \A res \in Read(<< args[1] >>, { Value(result) }) : Fits(res, result)
  <2>1. \A res \in { Value(result) } : Fits(res, result)
    BY <1>1, ResultFits
  <2>2. QED
    BY <2>1, ReadFits
<1>7. CASE op = "asBoolean"
  <2>1. args[1].type.kind = "BOOLEAN" => Fits(args[1], result)
    BY <1>1, <1>5, <1>7, ConversionTypes
  <2>2. \A res \in AsBoolean(args[1], result) : Fits(res, result)
    BY <1>1, <1>6, <2>1, ResultFits DEF AsBoolean, Cast
  <2>3. QED
    BY <1>7, <2>2, ExecutedCasts DEF AllFit
<1>8. CASE op = "asDecimal"
  <2>1. args[1].type.kind = "DECIMAL" => Fits(args[1], result)
    BY <1>1, <1>5, <1>8, ConversionTypes
  <2>2. \A res \in AsDecimal(args[1], result) : Fits(res, result)
    BY <1>1, <1>6, <2>1, ResultFits DEF AsDecimal, Cast
  <2>3. QED
    BY <1>8, <2>2, ExecutedCasts DEF AllFit
<1>9. CASE op = "asRational"
  <2>1. args[1].type.kind = "RATIONAL" => Fits(args[1], result)
    BY <1>1, <1>5, <1>9, ConversionTypes
  <2>2. \A res \in AsRational(args[1], result) : Fits(res, result)
    BY <1>1, <1>6, <2>1, ResultFits DEF AsRational, Cast
  <2>3. QED
    BY <1>9, <2>2, ExecutedCasts DEF AllFit
<1>10. CASE op \in {"asString", "dec", "hex", "oct", "bin"}
  <2>1. result = STRING_TYPE
    BY <1>1, <1>10, ConversionTypes, NamedTypes
  <2>2. \A res \in Stringify(args[1]) \cup AsString(args[1]) : Fits(res, result)
    BY <1>1, <2>1, StringifyFits, ResultFits DEF AsString
  <2>3. QED
    BY <1>10, <2>2, ExecutedCasts DEF AllFit
<1>11. QED
  BY <1>2, <1>3, <1>4, <1>7, <1>8, <1>9, <1>10 DEF Conversion, Unimplemented

LEMMA CastsFit ==
  ASSUME NEW op \in {"asInteger", "asBinary", "asEnumeration"}, NEW args, NEW types, NEW result,
         Called(op, args, types, result)
  PROVE  AllFit(op, args, result)
<1>1. Arity(op) = 1
  BY Arities DEF UnaryOp
<1>2. result \in AnyType /\ Holds(args[1], types[1])
  BY <1>1, CalledUnary DEF Called
<1>3. CASE op = "asInteger"
  <2>1. result.kind = "INTEGER"
    BY <1>1, <1>3, CalledUnary, UnarySigned DEF Converts
  <2>2. args[1].type.kind = "INTEGER" => Holds(args[1], result)
    BY <1>2, <2>1 DEF Holds, Alike
  <2>3. \A res \in { Value(result) } : Fits(res, result)
    BY <1>2, ResultFits
  <2>4. \A res \in Read(<< args[1] >>, { Value(result) }) : Fits(res, result)
    BY <2>3, ReadFits
  <2>5. \A res \in AsInteger(args[1], result) : Fits(res, result)
    BY <1>2, <2>2, <2>4, ResultFits DEF AsInteger, Cast
  <2>6. QED
    BY <1>3, <2>5, ExecutedCasts DEF AllFit
<1>4. CASE op = "asBinary"
  <2> DEFINE results == { Value(result) } \cup
                          CASE args[1].type.kind \in {"INTEGER", "DECIMAL"} -> { Undef(result) }
                            [] args[1].type.kind = "BINARY" /\ args[1].type.bitsize > result.bitsize
                                 -> {Thrown}
                            [] OTHER -> {}
  <2>1. \A res \in results : Fits(res, result)
    <3>1. \A res \in results : res \in { Value(result), Undef(result), Thrown }
      OBVIOUS
    <3>2. QED
      BY <1>2, <3>1, ResultFits
  <2>2. args[1].type = result => Holds(args[1], result)
    BY <1>2 DEF Holds, Alike
  <2>3. AsBinary(args[1], result) = Cast(args[1], result, args[1].type = result, results)
    BY DEF AsBinary
  <2> HIDE DEF results
  <2>4. \A res \in Read(<< args[1] >>, results) : Fits(res, result)
    BY <2>1, ReadFits
  <2>5. \A res \in AsBinary(args[1], result) : Fits(res, result)
    BY <1>2, <2>2, <2>3, <2>4, ResultFits DEF Cast
  <2>6. QED
    BY <1>4, <2>5, ExecutedCasts DEF AllFit
<1>5. CASE op = "asEnumeration"
  <2>1. args[1].type = result => Holds(args[1], result)
    BY <1>2 DEF Holds, Alike
  <2>2. QED
    BY <1>2, <1>5, <2>1, ResultFits, ExecutedCasts DEF AllFit, AsEnumeration
<1>6. QED
  BY <1>3, <1>4, <1>5

LEMMA BinaryBuiltinsFit ==
  ASSUME NEW op \in {"addu", "at", "zext", "sext", "trunc", "shl", "shr"}, NEW args, NEW types,
         NEW result, Called(op, args, types, result)
  PROVE  AllFit(op, args, result)
<1>1. Arity(op) = 2
  BY Arities DEF BinaryOp, ArithmeticBuiltin, Extension, Shifting
<1>2. result \in AnyType /\ Holds(args[1], types[1])
  BY <1>1, CalledBinary DEF Called
<1>3. CASE op = "addu"
  <2>1. Holds(args[1], result)
    BY <1>3, OperandsFit DEF ArithmeticBuiltin
  <2>2. args[1].type.kind = "INTEGER" => \A res \in { Value(INTEGER) } : Fits(res, result)
    BY <2>1, NamedTypes, MadeHolds DEF Fits, Holds, Alike
  <2>3. args[1].type.kind = "INTEGER" =>
          \A res \in Read(args, { Value(INTEGER) }) : Fits(res, result)
    BY <2>2, ReadFits
  <2>4. \A res \in Addu(args) : Fits(res, result)
    BY <1>2, <2>1, <2>3, ResultFits DEF Addu
  <2>5. QED
    BY <1>3, <2>4, ExecutedSingles DEF AllFit
<1>4. CASE op = "at"
  <2>1. types[1].kind = "LIST"
    BY <1>1, <1>4, CalledBinary, AtSigned
  <2>2. types[1].result = result
    <3>1. Validated(op, result, types) /\ Registered[op].validate = "element"
      BY <1>1, <1>4, CalledBinary, AtSigned DEF Traits
    <3>2. QED
      BY <3>1 DEF Validated
  <2>3. args[1].type = types[1]
    BY <1>2, <2>1 DEF Holds, Alike
  <2>4. QED
    BY <1>2, <1>4, <2>2, <2>3, ResultFits, ExecutedSingles DEF AllFit, At
<1>5. CASE op \in {"zext", "sext"}
  <2>1. \A res \in { Value(result) } : Fits(res, result)
    BY <1>2, ResultFits
  <2>2. \A res \in Read(<< args[1] >>, { Value(result) }) : Fits(res, result)
    BY <2>1, ReadFits
  <2>3. QED
    BY <1>2, <1>5, <2>2, ResultFits, ExecutedSingles DEF AllFit, Zext
<1>6. CASE op = "trunc"
  <2>1. \A res \in { Value(result), Thrown } : Fits(res, result)
    BY <1>2, ResultFits
  <2>2. \A res \in Read(args, { Value(result), Thrown }) : Fits(res, result)
    BY <2>1, ReadFits
  <2>3. \A res \in Trunc(args, result) : Fits(res, result)
    BY <1>2, <2>2, ResultFits DEF Trunc
  <2>4. QED
    BY <1>6, <2>3, ExecutedSingles DEF AllFit
<1>7. CASE op \in {"shl", "shr"}
  <2>1. Holds(args[1], result)
    BY <1>7, OperandsFit DEF Shifting
  <2>2. \A res \in { Value(args[1].type), Thrown } : Fits(res, result)
    BY <1>2, <2>1, ResultFits
  <2>3. \A res \in Read(args, { Value(args[1].type), Thrown }) : Fits(res, result)
    BY <2>2, ReadFits
  <2>4. QED
    BY <1>2, <1>7, <2>1, <2>3, ResultFits, ExecutedSingles DEF AllFit, Shift
<1>8. QED
  BY <1>3, <1>4, <1>5, <1>6, <1>7

LEMMA PrintingFits ==
  ASSUME NEW op \in Printing, NEW args, NEW types, NEW result, Called(op, args, types, result)
  PROVE  AllFit(op, args, result)
<1>1. Arity(op) = 1
  BY Arities DEF UnaryOp
<1>2. Converts(op, {"STRING"}, "VOID")
  BY PrintingSigned
<1>3. result = VOID
  BY <1>1, <1>2, CalledUnary, NamedTypes DEF Converts, Called
<1>4. \A res \in PrintBuiltin(args) : res \in { Value(result), Thrown }
  BY <1>3 DEF PrintBuiltin
<1>5. QED
  BY <1>3, <1>4, NamedTypes, ResultFits, ExecutedSingles DEF AllFit, Printing

\* The operations by what they execute.
LEMMA ExecutedCases ==
  Token = ArithmeticPair \cup LogicPair \cup Comparison \cup {"imp", "inv", "pow", "not"}
            \cup Unimplemented \cup {"abort"}
            \cup (Conversion \ Unimplemented) \cup {"asInteger", "asBinary", "asEnumeration"}
            \cup {"addu", "at", "zext", "sext", "trunc", "shl", "shr"} \cup Printing
  BY TokenCases DEF ArithmeticPair, LogicPair, Comparison, ArithmeticBuiltin, CompareBuiltin,
         Extension, Shifting, Printing, Conversion, Unimplemented

\* Every operation: what a valid call of constants makes is a constant of its result.
LEMMA CallsFit ==
  ASSUME NEW op \in Token, NEW args, NEW types, NEW result, Called(op, args, types, result), Careful
  PROVE  AllFit(op, args, result)
<1>1. CASE op \in Unimplemented \cup {"abort"}
  BY <1>1, ExecutedThrowing DEF AllFit, Fits
<1>2. QED
  BY <1>1, ExecutedCases, ArithmeticFits, LogicFits, ComparisonFits, SinglesFit, ConversionsFit,
     CastsFit, BinaryBuiltinsFit, PrintingFits

-----------------------------------------------------------------------------
(* Registers hold constants of their types *)

ConstantsHold == \A k \in Register : Holds(registers[k].constant, registers[k].type)

LEMMA OpenCall ==
  ASSUME TypesHold, ~Idle, call.result # Null
  PROVE  /\ call.op \in Token
         /\ call.types \in [1 .. Arity(call.op) -> AnyType]
         /\ call.result \in AnyType /\ Valid(call.op, call.result, call.types)
         /\ DOMAIN Operands = 1 .. Arity(call.op)
         /\ \A i \in 1 .. Arity(call.op) :
              \/ Operands[i] = Undef(call.types[i])
              \/ \E k \in Register :
                   Operands[i] = registers[k].constant /\ registers[k].type = call.types[i]
<1>1. CallHolds(call, RegisterTypes) /\ RegisterTypes \in [Register -> AnyType]
  BY DEF TypesHold
<1>2. call.types \in [1 .. Arity(call.op) -> AnyType] /\ DOMAIN call.operands = 1 .. Arity(call.op)
  BY <1>1, KnownCall DEF CallHolds
<1>3. ASSUME NEW i \in 1 .. Arity(call.op)
      PROVE  \/ Operands[i] = Undef(call.types[i])
             \/ \E k \in Register :
                  Operands[i] = registers[k].constant /\ registers[k].type = call.types[i]
  <2>1. CASE call.operands[i] = UndefLiteral
    BY <1>2, <2>1 DEF Operands
  <2>2. CASE call.operands[i] # UndefLiteral
    <3>1. call.operands[i] \in Register
      BY <1>1, <2>2 DEF CallHolds, OperandsOf
    <3>2. call.types[i] = registers[call.operands[i]].type
      BY <1>1, <3>1 DEF CallHolds, RegisterTypes
    <3>3. Operands[i] = registers[call.operands[i]].constant
      BY <1>2, <2>2 DEF Operands
    <3>4. QED
      BY <3>1, <3>2, <3>3
  <2>3. QED
    BY <2>1, <2>2
<1>4. DOMAIN Operands = 1 .. Arity(call.op)
  BY <1>2 DEF Operands
<1>5. QED
  BY <1>1, <1>2, <1>3, <1>4 DEF CallHolds

LEMMA OpenIsCalled ==
  ASSUME TypesHold, ConstantsHold, ~Idle, call.result # Null
  PROVE  Called(call.op, Operands, call.types, call.result)
<1>1. ASSUME NEW i \in 1 .. Arity(call.op)
      PROVE  Holds(Operands[i], call.types[i])
  <2>1. call.types[i] \in AnyType
    BY <1>1, OpenCall
  <2>2. CASE Operands[i] = Undef(call.types[i])
    BY <2>1, <2>2, MadeHolds DEF Alike
  <2>3. CASE \E k \in Register :
               Operands[i] = registers[k].constant /\ registers[k].type = call.types[i]
    BY <2>3 DEF ConstantsHold
  <2>4. QED
    BY <1>1, <2>2, <2>3, OpenCall
<1>2. QED
  BY <1>1, OpenCall DEF Called, Given

LEMMA ConstantsInit ==
  ASSUME CallInit
  PROVE  ConstantsHold
<1>1. SUFFICES ASSUME NEW k \in Register
               PROVE  Holds(registers[k].constant, registers[k].type)
  BY DEF ConstantsHold
<1>2. PICK type \in Type : registers[k] \in RegistersOf(type)
  BY DEF CallInit
<1>3. type \in AnyType /\ Alike(type, type)
  BY DEF AnyType, Alike
<1>4. QED
  BY <1>2, <1>3, MadeHolds DEF RegistersOf

LEMMA ConstantsStep ==
  ASSUME Careful, TypesHold, ConstantsHold, [CallNext]_callVars
  PROVE  ConstantsHold'
<1>1. CASE UNCHANGED registers
  BY <1>1 DEF ConstantsHold
<1>2. ASSUME NEW k \in Register, Evaluate(k)
      PROVE  ConstantsHold'
  <2>1. ~Idle /\ call.result # Null
    BY <1>2 DEF Evaluate
  <2>2. AllFit(call.op, Operands, call.result)
    BY <2>1, OpenIsCalled, OpenCall, CallsFit
  <2>3. PICK res \in Execute(call.op, Operands, call.result) :
          registers' = CASE res = Thrown -> registers
                         [] res = Unchanged -> [registers EXCEPT ![k].type = call.result]
                         [] OTHER -> [registers EXCEPT ![k] =
                                        [type |-> call.result, constant |-> res]]
    BY <1>2 DEF Evaluate
  <2>4. res = Thrown \/ Holds(res, call.result)
    BY <2>2 DEF AllFit, Fits
  <2>5. res = Unchanged => ~Holds(res, call.result) /\ res # Thrown
    BY ConstantParts DEF Holds
  <2>6. registers = [j \in Register |-> registers[j]]
    BY DEF TypesHold
  <2>7. CASE res = Thrown
    <3>1. registers' = registers
      BY <2>3, <2>5, <2>7
    <3>2. QED
      BY <3>1 DEF ConstantsHold
  <2>8. CASE res # Thrown
    <3>1. registers' = [registers EXCEPT ![k] = [type |-> call.result, constant |-> res]]
      BY <2>3, <2>4, <2>5, <2>8
    <3>2. registers' = [j \in Register |->
            IF j = k THEN [type |-> call.result, constant |-> res] ELSE registers[j]]
      BY <2>6, <3>1
    <3>3. QED
      BY <2>4, <2>8, <3>2 DEF ConstantsHold
  <2>9. QED
    BY <2>7, <2>8
<1>3. QED
  BY <1>1, <1>2 DEF CallNext, Open, Resolve, Learn, Infer, GiveUp, callVars

LEMMA RegistersHold ==
  ASSUME Careful
  PROVE  CallSpec => []ConstantsHold
<1>1. CallInit => ConstantsHold
  BY ConstantsInit
<1>2. TypesHold /\ ConstantsHold /\ [CallNext]_callVars => ConstantsHold'
  BY ConstantsStep
<1>3. QED
  BY <1>1, <1>2, TypesAreKnown, PTL DEF CallSpec

\* Where clients look at the exponents, a register holds a constant of its type however
\* many calls it went through, for all types of clients.
THEOREM ResultsAreTyped ==
  ASSUME Careful
  PROVE  CallSpec => []ResultsTyped
<1>1. ConstantsHold => ResultsTyped
  BY DEF ConstantsHold, Holds, Alike, ResultsTyped
<1>2. QED
  BY <1>1, RegistersHold, PTL

-----------------------------------------------------------------------------
(* Undefined operands and symbols *)

\* What the properties say of one result.
Decided(op, args, res) ==
  /\ SomeUndef(args) /\ Defined(res) =>
       \/ op \in {"equ", "neq", "isSymbolic", "print", "println", "zext", "sext"}
       \/ op \in {"leq", "geq"} /\ \A i \in DOMAIN args : ~Defined(args[i])
       \/ op \in {"and", "or", "imp"} /\ \E i \in DOMAIN args : Defined(args[i])
       \/ op \in {"pow", "shl", "shr"} /\ res = args[1]
  /\ ~SomeUndef(args) /\ ~SomeSymbol(args) /\ ~Defined(res) =>
       op \in {"mod", "div", "pow", "asBinary", "asEnumeration"}

Kept(op, args, res) ==
  /\ Symbolic(res) => SomeSymbol(args)
  /\ SomeSymbol(args) /\ op \in Instruction \ {"not", "pow"} => Symbolic(res) \/ ~Defined(res)

Told(op, args, result) ==
  \A res \in Execute(op, args, result) \ {Thrown} : Decided(op, args, res) /\ Kept(op, args, res)

LEMMA Unaries ==
  ASSUME NEW args, DOMAIN args = 1 .. 1
  PROVE  /\ SomeUndef(args) <=> ~Defined(args[1])
         /\ SomeSymbol(args) <=> Symbolic(args[1])
         /\ SomeSymbol(<< args[1] >>) <=> Symbolic(args[1])
  BY DEF SomeUndef, SomeSymbol

LEMMA Binaries ==
  ASSUME NEW args, DOMAIN args = 1 .. 2
  PROVE  /\ SomeUndef(args) <=> ~Defined(args[1]) \/ ~Defined(args[2])
         /\ SomeSymbol(args) <=> Symbolic(args[1]) \/ Symbolic(args[2])
         /\ (\A i \in DOMAIN args : ~Defined(args[i])) <=> ~Defined(args[1]) /\ ~Defined(args[2])
         /\ (\E i \in DOMAIN args : Defined(args[i])) <=> Defined(args[1]) \/ Defined(args[2])
  BY DEF SomeUndef, SomeSymbol

\* Defined, symbolic and neither.
LEMMA States ==
  /\ \A type : /\ ~Defined(Undef(type)) /\ ~Symbolic(Undef(type))
               /\ Defined(Value(type)) /\ ~Symbolic(Value(type))
               /\ Defined(Symbol(type)) /\ Symbolic(Symbol(type))
  /\ Defined(Unchanged) /\ ~Symbolic(Unchanged)
  /\ \A c : Symbolic(c) => Defined(c)
  BY ConstantParts DEF Defined, Symbolic

LEMMA ReadParts ==
  ASSUME NEW args, NEW results
  PROVE  \A res \in Read(args, results) :
           \/ res \in results
           \/ SomeSymbol(args) /\ (res = Thrown \/ (~Defined(res) /\ ~Symbolic(res)))
  BY States DEF Read

LEMMA SymbolicParts ==
  ASSUME NEW args, NEW type
  PROVE  SymbolicInstruction(args, type) \subseteq {Thrown, Symbol(type)}
  BY DEF SymbolicInstruction

LEMMA ArithmeticTold ==
  ASSUME NEW op \in ArithmeticPair, NEW args, DOMAIN args = 1 .. 2, NEW result
  PROVE  Told(op, args, result)
<1>1. SUFFICES ASSUME NEW res \in Arithmetic(args, result, Implemented(op), Computed(op, result)),
                      res # Thrown
               PROVE  Decided(op, args, res) /\ Kept(op, args, res)
  BY ExecutedPairs DEF Told
<1>2. \/ res = args[1] /\ ~Defined(args[1])
      \/ res = args[2] /\ ~Defined(args[2])
      \/ res = Symbol(args[1].type) /\ ~SomeUndef(args) /\ SomeSymbol(args)
      \/ res \in Computed(op, result) /\ ~SomeUndef(args) /\ ~SomeSymbol(args)
  BY <1>1, Binaries, SymbolicParts DEF Arithmetic
<1>3. \A c \in Computed(op, result) :
        ~Symbolic(c) /\ (~Defined(c) => op \in {"mod", "div"})
  BY States DEF Computed
<1>4. QED
  BY <1>2, <1>3, Binaries, States DEF Decided, Kept

LEMMA LogicTold ==
  ASSUME NEW op \in LogicPair \cup {"imp"}, NEW args, DOMAIN args = 1 .. 2, NEW result
  PROVE  Told(op, args, result)
<1>1. SUFFICES ASSUME NEW res \in Connective(args, result, op # "xor"), res # Thrown
               PROVE  Decided(op, args, res) /\ Kept(op, args, res)
  BY ExecutedLogic DEF Told
<1>2. \/ res = Symbol(args[1].type) /\ ~SomeUndef(args) /\ SomeSymbol(args)
      \/ res = Value(result) /\ ~SomeUndef(args) /\ ~SomeSymbol(args)
      \/ res \in {Value(result), Undef(result)} /\ op # "xor" /\ SomeUndef(args)
           /\ ~SomeSymbol(args) /\ \E i \in DOMAIN args : Defined(args[i])
      \/ res = Undef(result) /\ SomeUndef(args) /\ ~SomeSymbol(args)
  BY <1>1, SymbolicParts DEF Connective
<1>3. QED
  BY <1>2, States DEF Decided, Kept, LogicPair

LEMMA ComparisonTold ==
  ASSUME NEW op \in Comparison, NEW args, DOMAIN args = 1 .. 2, NEW result
  PROVE  Told(op, args, result)
<1>1. CASE op \in {"equ", "neq"}
  <2>1. SUFFICES ASSUME NEW res \in Equ(args), res # Thrown
                 PROVE  Decided(op, args, res) /\ Kept(op, args, res)
    BY <1>1, ExecutedComparison DEF Told
  <2>2. \/ res = Symbol(BOOLEAN_TYPE) /\ SomeSymbol(args)
        \/ res = Value(BOOLEAN_TYPE) /\ ~SomeSymbol(args)
    BY <2>1, SymbolicParts DEF Equ
  <2>3. QED
    BY <1>1, <2>2, States DEF Decided, Kept
<1>2. CASE op \notin {"equ", "neq"}
  <2> DEFINE bothUndef ==
        IF op \in {"leq", "geq"} THEN Value(BOOLEAN_TYPE) ELSE Undef(BOOLEAN_TYPE)
  <2>1. SUFFICES ASSUME NEW res \in Order(args, bothUndef), res # Thrown
                 PROVE  Decided(op, args, res) /\ Kept(op, args, res)
    BY <1>2, ExecutedComparison DEF Told
  <2>2. \/ res = bothUndef /\ \A i \in DOMAIN args : ~Defined(args[i])
        \/ res = Undef(BOOLEAN_TYPE) /\ SomeUndef(args)
        \/ res = Symbol(BOOLEAN_TYPE) /\ ~SomeUndef(args) /\ SomeSymbol(args)
        \/ res = Value(BOOLEAN_TYPE) /\ ~SomeUndef(args) /\ ~SomeSymbol(args)
    BY <2>1, SymbolicParts DEF Order
  <2>3. QED
    BY <1>2, <2>2, Binaries, States DEF Decided, Kept
<1>3. QED
  BY <1>1, <1>2

LEMMA SinglesTold ==
  ASSUME NEW op \in {"inv", "pow", "not"}, NEW args, DOMAIN args = 1 .. Arity(op), NEW result
  PROVE  Told(op, args, result)
<1>1. ASSUME NEW res \in Inv(args), res # Thrown, DOMAIN args = 1 .. 1
      PROVE  Decided("inv", args, res) /\ Kept("inv", args, res)
  BY <1>1, Unaries, States DEF Inv, Decided, Kept
<1>2. ASSUME NEW res \in Pow(args, result), res # Thrown, DOMAIN args = 1 .. 2
      PROVE  Decided("pow", args, res) /\ Kept("pow", args, res)
  <2>1. \/ res = args[1] /\ (~Defined(args[1]) \/ ~Defined(args[2]))
        \/ res = Undef(result)
        \/ /\ Defined(args[1]) /\ Defined(args[2])
           /\ res \in Read(args, { Value(result), Undef(result) }) \cup {Unchanged}
    BY <1>2 DEF Pow
  <2>2. CASE res = args[1] /\ (~Defined(args[1]) \/ ~Defined(args[2]))
    BY <1>2, <2>2, Binaries, States DEF Decided, Kept
  <2>3. CASE res = Undef(result)
    BY <2>3, States DEF Decided, Kept
  <2>4. ASSUME Defined(args[1]), Defined(args[2]),
               res \in Read(args, { Value(result), Undef(result) }) \cup {Unchanged}
        PROVE  Decided("pow", args, res) /\ Kept("pow", args, res)
    <3>1. ~Symbolic(res)
      BY <1>2, <2>4, ReadParts, States
    <3>2. QED
      BY <1>2, <2>4, <3>1, Binaries DEF Decided, Kept
  <2>5. QED
    BY <2>1, <2>2, <2>3, <2>4
<1>3. ASSUME NEW res \in Not(args, result), res # Thrown, DOMAIN args = 1 .. 1
      PROVE  Decided("not", args, res) /\ Kept("not", args, res)
  <2> DEFINE results == { Value(args[1].type) } \cup
                          (IF args[1].type.kind = "BINARY" THEN {Thrown} ELSE {})
  <2>1. \/ res = Undef(result) /\ ~Defined(args[1])
        \/ res \in Read(args, results) /\ Defined(args[1])
    BY <1>3 DEF Not
  <2>2. \A c \in results : c \in {Value(args[1].type), Thrown}
    OBVIOUS
  <2> HIDE DEF results
  <2>3. ~Symbolic(res) /\ (~Defined(res) => ~Defined(args[1]) \/ SomeSymbol(args))
    BY <1>3, <2>1, <2>2, ReadParts, States
  <2>4. SomeUndef(args) => ~Defined(res)
    BY <1>3, <2>1, Unaries, States
  <2>5. QED
    BY <1>3, <2>3, <2>4, Unaries DEF Decided, Kept
<1>4. Arity("inv") = 1 /\ Arity("not") = 1 /\ Arity("pow") = 2
  BY Arities DEF UnaryOp, BinaryOp
<1>5. QED
  BY <1>1, <1>2, <1>3, <1>4, ExecutedSingles DEF Told

LEMMA ConversionsTold ==
  ASSUME NEW op \in Conversion \ Unimplemented, NEW args, DOMAIN args = 1 .. 1, NEW result
  PROVE  Told(op, args, result)
<1>1. CASE op = "isSymbolic"
  BY <1>1, ExecutedSingles, States DEF Told, Decided, Kept, Instruction
<1>2. CASE op \in {"assert", "assure"}
  <2>1. \A res \in AssertBuiltin(args) \cup AssureBuiltin(args) :
          res = Thrown \/ (Defined(res) /\ ~Symbolic(res) /\ Defined(args[1]))
    BY States DEF AssertBuiltin, AssureBuiltin
  <2>2. ASSUME NEW res \in Execute(op, args, result), res # Thrown
        PROVE  Defined(res) /\ ~Symbolic(res) /\ Defined(args[1])
    BY <1>2, <2>1, <2>2, ExecutedSingles
  <2>3. QED
    BY <1>2, <2>2, Unaries DEF Told, Decided, Kept, Instruction
<1>3. ASSUME NEW made, NEW res \in Read(args, { made }) \cup Read(<< args[1] >>, { made }),
             res # Thrown, Defined(made), ~Symbolic(made), Defined(args[1])
      PROVE  Decided(op, args, res) /\ Kept(op, args, res)
  <2>1. res = made \/ (SomeSymbol(args) /\ ~Defined(res) /\ ~Symbolic(res))
    BY <1>3, ReadParts, Unaries
  <2>2. QED
    BY <1>3, <2>1, Unaries DEF Decided, Kept, Conversion, Instruction
<1>4. CASE op = "size"
  <2>1. \A res \in Size(args) :
          \/ res = Undef(INTEGER) /\ ~Defined(args[1])
          \/ res = Value(INTEGER) /\ Defined(args[1])
          \/ res \in Read(args, { Value(INTEGER) }) /\ Defined(args[1])
    BY DEF Size
  <2>2. QED
    BY <1>3, <1>4, <2>1, ExecutedSingles, Unaries, States DEF Told, Decided, Kept, Instruction
<1>5. ASSUME NEW made, made \in {Value(result), Value(STRING_TYPE)},
             NEW res, res # Thrown,
             \/ ~Defined(res) /\ ~Defined(args[1])
             \/ res = args[1] /\ Defined(args[1])
             \/ res = made /\ Defined(args[1])
             \/ res \in Read(<< args[1] >>, { made }) /\ Defined(args[1])
      PROVE  Decided(op, args, res) /\ Kept(op, args, res)
  <2>1. Defined(made) /\ ~Symbolic(made)
    BY <1>5, States
  <2>2. CASE ~Defined(res) /\ ~Defined(args[1])
    BY <2>2, Unaries, States DEF Decided, Kept, Conversion, Instruction
  <2>3. CASE res = args[1] /\ Defined(args[1])
    BY <2>3, Unaries DEF Decided, Kept, Conversion, Instruction
  <2>4. CASE res = made /\ Defined(args[1])
    BY <2>1, <2>4, Unaries DEF Decided, Kept, Conversion, Instruction
  <2>5. CASE res \in Read(<< args[1] >>, { made }) /\ Defined(args[1])
    BY <1>3, <1>5, <2>1, <2>5
  <2>6. QED
    BY <1>5, <2>2, <2>3, <2>4, <2>5
<1>6. CASE op \in {"asBoolean", "asDecimal", "asRational"}
  <2>1. \A res \in AsBoolean(args[1], result) \cup AsDecimal(args[1], result)
                     \cup AsRational(args[1], result) :
          \/ ~Defined(res) /\ ~Defined(args[1])
          \/ res = args[1] /\ Defined(args[1])
          \/ res \in Read(<< args[1] >>, { Value(result) }) /\ Defined(args[1])
    BY States DEF AsBoolean, AsDecimal, AsRational, Cast
  <2>2. QED
    BY <1>5, <1>6, <2>1, ExecutedCasts DEF Told
<1>7. CASE op \in {"asString", "dec", "hex", "oct", "bin"}
  <2>1. \A res \in AsString(args[1]) \cup Stringify(args[1]) :
          \/ ~Defined(res) /\ ~Defined(args[1])
          \/ res = Value(STRING_TYPE) /\ Defined(args[1])
          \/ res \in Read(<< args[1] >>, { Value(STRING_TYPE) }) /\ Defined(args[1])
    BY States DEF AsString, Stringify
  <2>2. QED
    BY <1>5, <1>7, <2>1, ExecutedCasts DEF Told
<1>8. QED
  BY <1>1, <1>2, <1>4, <1>6, <1>7 DEF Conversion, Unimplemented

LEMMA CastsTold ==
  ASSUME NEW op \in {"asInteger", "asBinary", "asEnumeration"}, NEW args, DOMAIN args = 1 .. 1,
         NEW result
  PROVE  Told(op, args, result)
<1>1. CASE op = "asInteger"
  <2>1. ASSUME NEW res \in AsInteger(args[1], result), res # Thrown
        PROVE  \/ ~Defined(res) /\ ~Defined(args[1])
               \/ res = args[1] /\ Defined(args[1])
               \/ res = Value(result) /\ Defined(args[1])
               \/ SomeSymbol(args) /\ Defined(args[1]) /\ ~Symbolic(res)
    BY <2>1, ReadParts, Unaries, States DEF AsInteger, Cast
  <2>2. QED
    BY <1>1, <2>1, ExecutedCasts, Unaries, States DEF Told, Decided, Kept, Instruction
<1>2. CASE op = "asBinary"
  <2> DEFINE results == { Value(result) } \cup
                          CASE args[1].type.kind \in {"INTEGER", "DECIMAL"} -> { Undef(result) }
                            [] args[1].type.kind = "BINARY" /\ args[1].type.bitsize > result.bitsize
                                 -> {Thrown}
                            [] OTHER -> {}
  <2>1. \A c \in results : c \in { Value(result), Undef(result), Thrown }
    OBVIOUS
  <2>2. AsBinary(args[1], result) = Cast(args[1], result, args[1].type = result, results)
    BY DEF AsBinary
  <2> HIDE DEF results
  <2>3. ASSUME NEW res \in AsBinary(args[1], result), res # Thrown
        PROVE  \/ ~Defined(res) /\ ~Defined(args[1])
               \/ res = args[1] /\ Defined(args[1])
               \/ Defined(args[1]) /\ ~Symbolic(res)
    BY <2>1, <2>2, <2>3, ReadParts, Unaries, States DEF Cast
  <2>4. QED
    BY <1>2, <2>3, ExecutedCasts, Unaries, States DEF Told, Decided, Kept, Instruction
<1>3. CASE op = "asEnumeration"
  <2>1. ASSUME NEW res \in Execute(op, args, result)
        PROVE  \/ res = args[1] /\ Defined(args[1])
               \/ ~Defined(res) /\ ~Symbolic(res)
    BY <1>3, <2>1, ExecutedCasts, States DEF AsEnumeration
  <2>2. QED
    BY <1>3, <2>1, Unaries DEF Told, Decided, Kept, Instruction
<1>4. QED
  BY <1>1, <1>2, <1>3

LEMMA BinaryBuiltinsTold ==
  ASSUME NEW op \in {"addu", "at", "zext", "sext", "trunc", "shl", "shr"}, NEW args,
         DOMAIN args = 1 .. 2, NEW result
  PROVE  Told(op, args, result)
<1>1. CASE op = "addu"
  <2>1. ASSUME NEW res \in Addu(args), res # Thrown
        PROVE  \/ ~Defined(res) /\ ~Symbolic(res) /\ SomeUndef(args)
               \/ ~SomeUndef(args) /\ ~Symbolic(res) /\ (~Defined(res) => SomeSymbol(args))
    BY <2>1, ReadParts, States DEF Addu
  <2>2. QED
    BY <1>1, <2>1, ExecutedSingles DEF Told, Decided, Kept, Instruction
<1>2. CASE op = "at"
  BY <1>2, ExecutedSingles, States DEF Told, Decided, Kept, Instruction, At
<1>3. CASE op \in {"zext", "sext"}
  <2>1. ASSUME NEW res \in Zext(args[1], result), res # Thrown
        PROVE  ~Symbolic(res) /\ (~Defined(res) => SomeUndef(args) \/ SomeSymbol(args))
    <3>1. SomeSymbol(<< args[1] >>) => SomeSymbol(args)
      BY DEF SomeSymbol
    <3>2. QED
      BY <2>1, <3>1, ReadParts, Binaries, States DEF Zext
  <2>2. QED
    BY <1>3, <2>1, ExecutedSingles DEF Told, Decided, Kept, Instruction
<1>4. CASE op = "trunc"
  <2>1. ASSUME NEW res \in Trunc(args, result), res # Thrown
        PROVE  \/ ~Defined(res) /\ ~Symbolic(res) /\ SomeUndef(args)
               \/ ~SomeUndef(args) /\ ~Symbolic(res) /\ (~Defined(res) => SomeSymbol(args))
    BY <2>1, ReadParts, Binaries, States DEF Trunc
  <2>2. QED
    BY <1>4, <2>1, ExecutedSingles DEF Told, Decided, Kept, Instruction
<1>5. CASE op \in {"shl", "shr"}
  <2>1. ASSUME NEW res \in Shift(args), res # Thrown
        PROVE  \/ SomeUndef(args) /\ res = args[1]
               \/ ~SomeUndef(args) /\ ~Symbolic(res) /\ (~Defined(res) => SomeSymbol(args))
    BY <2>1, ReadParts, States DEF Shift
  <2>2. QED
    BY <1>5, <2>1, ExecutedSingles, Binaries DEF Told, Decided, Kept, Instruction
<1>6. QED
  BY <1>1, <1>2, <1>3, <1>4, <1>5

LEMMA PrintingTold ==
  ASSUME NEW op \in Printing, NEW args, NEW result
  PROVE  Told(op, args, result)
<1>1. \A res \in PrintBuiltin(args) : res \in { Value(VOID), Thrown }
  BY DEF PrintBuiltin
<1>2. QED
  BY <1>1, ExecutedSingles, States DEF Told, Decided, Kept, Instruction, Printing

\* Every operation: what is said of undefined operands and symbols is true of its results.
LEMMA CallsTold ==
  ASSUME NEW op \in Token, NEW args, DOMAIN args = 1 .. Arity(op), NEW result
  PROVE  Told(op, args, result)
<1>1. CASE op \in Unimplemented \cup {"abort"}
  BY <1>1, ExecutedThrowing DEF Told
<1>2. CASE op \in ArithmeticPair \cup LogicPair \cup {"imp"} \cup Comparison
              \cup {"addu", "at", "zext", "sext", "trunc", "shl", "shr"}
  <2>1. Arity(op) = 2
    BY <1>2, Arities DEF BinaryOp, ArithmeticBuiltin, Extension, Shifting
  <2>2. QED
    BY <1>2, <2>1, ArithmeticTold, LogicTold, ComparisonTold, BinaryBuiltinsTold
<1>3. CASE op \in (Conversion \ Unimplemented) \cup {"asInteger", "asBinary", "asEnumeration"}
  <2>1. Arity(op) = 1
    BY <1>3, Arities DEF UnaryOp
  <2>2. QED
    BY <1>3, <2>1, ConversionsTold, CastsTold
<1>4. QED
  BY <1>1, <1>2, <1>3, ExecutedCases, SinglesTold, PrintingTold

\* An undefined operand decides the result, but for the operations that say otherwise.
THEOREM UndefinedIsDecided == CallSpec => []UndefinedDecides
<1>1. TypesHold => UndefinedDecides
  <2>1. SUFFICES ASSUME TypesHold, ~Idle, call.result # Null
                 PROVE  \A res \in Results : Decided(call.op, Operands, res)
    BY DEF UndefinedDecides, Typed, Decided
  <2>2. Told(call.op, Operands, call.result)
    BY <2>1, OpenCall, CallsTold
  <2>3. QED
    BY <2>2 DEF Told, Results
<1>2. QED
  BY <1>1, TypesAreKnown, PTL

\* Instructions on symbols make symbols, and nothing else does.
THEOREM SymbolsAreKept == CallSpec => []SymbolsKept
<1>1. TypesHold => SymbolsKept
  <2>1. SUFFICES ASSUME TypesHold, ~Idle, call.result # Null
                 PROVE  \A res \in Results : Kept(call.op, Operands, res)
    BY DEF SymbolsKept, Typed, Kept
  <2>2. Told(call.op, Operands, call.result)
    BY <2>1, OpenCall, CallsTold
  <2>3. QED
    BY <2>2 DEF Told, Results
<1>2. QED
  BY <1>1, TypesAreKnown, PTL

-----------------------------------------------------------------------------
(* What is implemented *)

Valued(args) == \A i \in DOMAIN args : args[i].is = "value"

LEMMA ValuedParts ==
  ASSUME NEW args, Valued(args)
  PROVE  /\ ~SomeUndef(args) /\ ~SomeSymbol(args)
         /\ \A results : Read(args, results) = results
         /\ \A i \in DOMAIN args : Defined(args[i]) /\ ~Symbolic(args[i]) /\ args[i] # Thrown
  BY ConstantParts DEF Valued, SomeUndef, SomeSymbol, Defined, Symbolic, Read

LEMMA ReadFirst ==
  ASSUME NEW args, Valued(args), 1 \in DOMAIN args
  PROVE  \A results : Read(<< args[1] >>, results) = results
<1>1. Valued(<< args[1] >>)
  BY DEF Valued
<1>2. QED
  BY <1>1, ValuedParts

LEMMA NotThrown ==
  \A type : Value(type) # Thrown /\ Undef(type) # Thrown
  BY ConstantParts

LEMMA HoldsKind ==
  ASSUME NEW c, NEW type, Holds(c, type)
  PROVE  c.type.kind = type.kind
  BY DEF Holds, Alike

\* A call has a result that is a constant, unless the operation is missing.
Answers(op, args, types, result) ==
  (\E res \in Execute(op, args, result) : res # Thrown) <=> ~Missing(op, types)

\* The operations that are missing for some types of operands.
PartlyMissing ==
  Unimplemented \cup {"abort", "at", "add", "sub", "mul", "div", "lth", "leq", "gth", "geq", "addu"}

LEMMA NeverMissing ==
  ASSUME NEW op, op \notin PartlyMissing, NEW types
  PROVE  ~Missing(op, types)
  BY DEF Missing, PartlyMissing

LEMMA ArithmeticAnswers ==
  ASSUME NEW op \in ArithmeticPair, NEW args, NEW types, NEW result,
         Called(op, args, types, result), Valued(args)
  PROVE  Answers(op, args, types, result)
<1>1. Arity(op) = 2
  BY Arities DEF BinaryOp
<1>2. PICK kinds \in SUBSET (Numeric \cup {"STRING"}) :
        JoinsKind(op, kinds) /\ (op = "mod" => kinds = {"INTEGER"})
  BY ArithmeticPairSigned
<1>3. types[1].kind \in kinds /\ result.kind = types[1].kind
  BY <1>1, <1>2, CalledBinary DEF JoinsKind
<1>4. Defined(args[1]) /\ Defined(args[2]) /\ ~SomeSymbol(args)
  BY <1>1, CalledBinary, ValuedParts
<1>5. Execute(op, args, result) =
        IF result.kind \in Implemented(op) THEN Computed(op, result) ELSE {Thrown}
  BY <1>4, ExecutedPairs DEF Arithmetic
<1>6. Value(result) \in Computed(op, result) /\ Value(result) # Thrown
  BY NotThrown DEF Computed
<1>7. (\E res \in Execute(op, args, result) : res # Thrown) <=> result.kind \in Implemented(op)
  BY <1>5, <1>6
<1>8. result.kind \in Implemented(op) <=> ~Missing(op, types)
  BY <1>2, <1>3 DEF Implemented, Missing, Numeric, ArithmeticPair, Unimplemented
<1>9. QED
  BY <1>7, <1>8 DEF Answers

LEMMA ComparisonAnswers ==
  ASSUME NEW op \in Comparison, NEW args, NEW types, NEW result,
         Called(op, args, types, result), Valued(args)
  PROVE  Answers(op, args, types, result)
<1>1. Arity(op) = 2 /\ ~SomeSymbol(args) /\ ~SomeUndef(args)
  BY Arities, ValuedParts DEF BinaryOp
<1>2. Value(BOOLEAN_TYPE) # Thrown
  BY NotThrown
<1>3. CASE op \in {"equ", "neq"}
  <2>1. Execute(op, args, result) = { Value(BOOLEAN_TYPE) }
    BY <1>1, <1>3, ExecutedComparison DEF Equ
  <2>2. ~Missing(op, types)
    BY <1>3, NeverMissing DEF PartlyMissing, Unimplemented
  <2>3. QED
    BY <1>2, <2>1, <2>2 DEF Answers
<1>4. CASE op \in {"lth", "leq", "gth", "geq"}
  <2> DEFINE bothUndef ==
        IF op \in {"leq", "geq"} THEN Value(BOOLEAN_TYPE) ELSE Undef(BOOLEAN_TYPE)
  <2>1. PICK kinds \in SUBSET Comparable : ComparesKind(op, kinds)
    BY ComparisonSigned
  <2>2. types[2].kind = types[1].kind
    BY <1>1, <2>1, CalledBinary DEF ComparesKind
  <2>3. args[1].type.kind = types[1].kind /\ args[2].type.kind = types[2].kind
    BY <1>1, CalledBinary, HoldsKind
  <2>4. ~(\A i \in DOMAIN args : ~Defined(args[i]))
    BY <1>1, CalledBinary, ValuedParts
  <2>5. Execute(op, args, result) =
          IF Differ(<< args[1].type, args[2].type >>) THEN {Thrown}
          ELSE IF args[1].type.kind = "INTEGER" THEN { Value(BOOLEAN_TYPE) } ELSE {Thrown}
    BY <1>1, <1>4, <2>4, ExecutedComparison DEF Order
  <2>6. Missing(op, types) <=> types[1].kind # "INTEGER"
    BY <1>4 DEF Missing, Unimplemented
  <2>7. ASSUME types[1].kind = "INTEGER"
        PROVE  ~Differ(<< args[1].type, args[2].type >>)
    <3>1. args[1].is = "value" /\ args[2].is = "value"
      BY <1>1, CalledBinary DEF Valued
    <3>2. args[1].type = INTEGER /\ args[2].type = INTEGER
      BY <1>1, <2>2, <2>3, <2>7, <3>1, CalledBinary DEF Holds, Dynamic
    <3>3. QED
      BY <3>2 DEF Differ
  <2>8. QED
    BY <1>2, <2>3, <2>5, <2>6, <2>7 DEF Answers
<1>5. QED
  BY <1>3, <1>4 DEF Comparison

\* The operations that are never missing answer: with one of these.
LEMMA AnswersWith ==
  ASSUME NEW op, op \notin PartlyMissing, NEW args, NEW types, NEW result,
         NEW res \in Execute(op, args, result), res # Thrown
  PROVE  Answers(op, args, types, result)
  BY NeverMissing DEF Answers

LEMMA SinglesAnswer ==
  ASSUME NEW op \in LogicPair \cup {"imp", "inv", "pow", "not"}, NEW args, NEW types, NEW result,
         DOMAIN args = 1 .. Arity(op), Valued(args)
  PROVE  Answers(op, args, types, result)
<1>1. ~SomeSymbol(args) /\ ~SomeUndef(args) /\ \A results : Read(args, results) = results
  BY ValuedParts
<1>2. 1 \in DOMAIN args /\ (op = "pow" => 2 \in DOMAIN args)
  BY Arities DEF BinaryOp, UnaryOp
<1>3. Defined(args[1]) /\ ~Symbolic(args[1]) /\ (op = "pow" => Defined(args[2]))
  BY <1>2, ValuedParts
<1>4. Value(result) \in Pow(args, result) \/ op # "pow"
  BY <1>1, <1>3 DEF Pow
<1>5. Value(args[1].type) \in Inv(args) /\ Value(args[1].type) \in Not(args, result)
  BY <1>1, <1>3 DEF Inv, Not
<1>6. \/ Value(result) \in Execute(op, args, result)
      \/ Value(args[1].type) \in Execute(op, args, result)
  <2>1. CASE op \in LogicPair \cup {"imp"}
    <3>1. Connective(args, result, op # "xor") = { Value(result) }
      BY <1>1 DEF Connective
    <3>2. QED
      BY <2>1, <3>1, ExecutedLogic
  <2>2. CASE op \in {"inv", "pow", "not"}
    BY <1>4, <1>5, <2>2, ExecutedSingles
  <2>3. QED
    BY <2>1, <2>2
<1>7. op \notin PartlyMissing
  BY DEF PartlyMissing, LogicPair, Unimplemented
<1>8. QED
  BY <1>6, <1>7, AnswersWith, NotThrown

LEMMA ConversionsAnswer ==
  ASSUME NEW op \in (Conversion \ Unimplemented) \cup {"asInteger", "asBinary", "asEnumeration"}
                      \cup Printing,
         NEW args, NEW types, NEW result, DOMAIN args = 1 .. 1, Valued(args)
  PROVE  Answers(op, args, types, result)
<1>1. /\ \A results : Read(args, results) = results
      /\ \A results : Read(<< args[1] >>, results) = results
      /\ Defined(args[1]) /\ ~Symbolic(args[1]) /\ args[1] # Thrown
  BY ValuedParts, ReadFirst
<1>2. op \notin PartlyMissing
  BY DEF PartlyMissing, Conversion, Printing, Unimplemented
<1>3. Value(VOID) \in AssertBuiltin(args) /\ Value(VOID) \in AssureBuiltin(args)
      /\ Value(VOID) \in PrintBuiltin(args) /\ Value(INTEGER) \in Size(args)
  BY <1>1 DEF AssertBuiltin, AssureBuiltin, PrintBuiltin, Size
<1>4. Value(STRING_TYPE) \in AsString(args[1]) /\ Value(STRING_TYPE) \in Stringify(args[1])
  BY <1>1 DEF AsString, Stringify
<1>5. /\ \E res \in AsBoolean(args[1], result) : res \in {args[1], Value(result)}
      /\ \E res \in AsDecimal(args[1], result) : res \in {args[1], Value(result)}
      /\ \E res \in AsRational(args[1], result) : res \in {args[1], Value(result)}
      /\ \E res \in AsInteger(args[1], result) : res \in {args[1], Value(result)}
  BY <1>1 DEF AsBoolean, AsDecimal, AsRational, AsInteger, Cast
<1>6. \E res \in AsBinary(args[1], result) : res \in {args[1], Value(result)}
  BY <1>1 DEF AsBinary, Cast
<1>7. \E res \in AsEnumeration(args[1], result) : res \in {args[1], Undef(result)}
  BY DEF AsEnumeration
<1>8. \E res \in Execute(op, args, result) :
        \/ res \in {args[1], Value(result), Undef(result)}
        \/ res \in {Value(VOID), Value(INTEGER), Value(STRING_TYPE), Value(BOOLEAN_TYPE)}
  <2>1. CASE op \in {"isSymbolic", "assert", "assure", "size", "print", "println"}
    BY <1>3, <2>1, ExecutedSingles
  <2>2. CASE op \in {"asString", "dec", "hex", "oct", "bin"}
    BY <1>4, <2>2, ExecutedCasts
  <2>3. CASE op \in {"asBoolean", "asDecimal", "asRational", "asInteger"}
    BY <1>5, <2>3, ExecutedCasts
  <2>4. CASE op \in {"asBinary", "asEnumeration"}
    BY <1>6, <1>7, <2>4, ExecutedCasts
  <2>5. QED
    BY <2>1, <2>2, <2>3, <2>4 DEF Conversion, Unimplemented, Printing
<1>9. QED
  BY <1>1, <1>2, <1>8, AnswersWith, NotThrown

LEMMA BinaryBuiltinsAnswer ==
  ASSUME NEW op \in {"addu", "at", "zext", "sext", "trunc", "shl", "shr"}, NEW args, NEW types,
         NEW result, Called(op, args, types, result), Valued(args)
  PROVE  Answers(op, args, types, result)
<1>1. Arity(op) = 2
  BY Arities DEF BinaryOp, ArithmeticBuiltin, Extension, Shifting
<1>2. DOMAIN args = {1, 2} /\ Holds(args[1], types[1])
  BY <1>1, CalledBinary
<1>3. /\ ~SomeUndef(args) /\ Defined(args[1]) /\ Defined(args[2])
      /\ \A results : Read(args, results) = results
      /\ \A results : Read(<< args[1] >>, results) = results
  BY <1>2, ValuedParts, ReadFirst
<1>4. CASE op = "addu"
  <2>1. Addu(args) = IF types[1].kind = "INTEGER" THEN { Value(INTEGER) } ELSE {Thrown}
    BY <1>2, <1>3, HoldsKind DEF Addu
  <2>2. Missing(op, types) <=> types[1].kind # "INTEGER"
    BY <1>4 DEF Missing, Unimplemented
  <2>3. Value(INTEGER) # Thrown
    BY NotThrown
  <2>4. QED
    BY <1>4, <2>1, <2>2, <2>3, ExecutedSingles DEF Answers
<1>5. CASE op = "at"
  <2>1. At(args) = {Thrown}
    BY <1>3 DEF At
  <2>2. Missing(op, types)
    BY <1>5 DEF Missing
  <2>3. QED
    BY <1>5, <2>1, <2>2, ExecutedSingles DEF Answers
<1>6. CASE op \in {"zext", "sext", "trunc", "shl", "shr"}
  <2>1. /\ Value(result) \in Zext(args[1], result) /\ Value(result) \in Trunc(args, result)
        /\ Value(args[1].type) \in Shift(args)
    BY <1>3 DEF Zext, Trunc, Shift
  <2>2. \/ Value(result) \in Execute(op, args, result)
        \/ Value(args[1].type) \in Execute(op, args, result)
    BY <1>6, <2>1, ExecutedSingles
  <2>3. op \notin PartlyMissing
    BY <1>6 DEF PartlyMissing, Unimplemented
  <2>4. QED
    BY <2>2, <2>3, AnswersWith, NotThrown
<1>7. QED
  BY <1>4, <1>5, <1>6

LEMMA CallsAnswer ==
  ASSUME NEW op \in Token, NEW args, NEW types, NEW result,
         Called(op, args, types, result), Valued(args)
  PROVE  Answers(op, args, types, result)
<1>1. DOMAIN args = 1 .. Arity(op)
  BY DEF Called, Given
<1>2. CASE op \in Unimplemented \cup {"abort"}
  BY <1>2, ExecutedThrowing DEF Answers, Missing
<1>3. CASE op \in (Conversion \ Unimplemented) \cup {"asInteger", "asBinary", "asEnumeration"}
                     \cup Printing
  <2>1. Arity(op) = 1
    BY <1>3, Arities DEF UnaryOp
  <2>2. QED
    BY <1>1, <1>3, <2>1, ConversionsAnswer
<1>4. QED
  BY <1>1, <1>2, <1>3, ExecutedCases, ArithmeticAnswers, ComparisonAnswers, SinglesAnswer,
     BinaryBuiltinsAnswer

\* A valid call of values has a result exactly if the operation is implemented for their
\* types.
THEOREM CallsAreImplemented ==
  ASSUME Careful
  PROVE  CallSpec => []CallsImplemented
<1>1. TypesHold /\ ConstantsHold => CallsImplemented
  <2>1. SUFFICES ASSUME TypesHold, ConstantsHold, ~Idle, call.result # Null,
                        \A i \in DOMAIN Operands : Operands[i].is = "value"
                 PROVE  Results = {} <=> Missing(call.op, call.types)
    BY DEF CallsImplemented, Typed
  <2>2. Called(call.op, Operands, call.types, call.result) /\ call.op \in Token
    BY <2>1, OpenIsCalled, OpenCall
  <2>3. Answers(call.op, Operands, call.types, call.result)
    BY <2>1, <2>2, CallsAnswer DEF Valued
  <2>4. Results = {} <=> ~\E res \in Execute(call.op, Operands, call.result) : res # Thrown
    BY DEF Results
  <2>5. QED
    BY <2>3, <2>4 DEF Answers
<1>2. QED
  BY <1>1, TypesAreKnown, RegistersHold, PTL
====
