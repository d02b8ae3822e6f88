------------------------------- MODULE Universe -------------------------------
(***************************************************************************)
(* What choose(), foreach() and validate() of a type and of a constant say *)
(* of its values (Type.cpp, Constant.cpp).  A quantifier, a choose or a    *)
(* forall of a specification ranges over a constant this way, and a value  *)
(* is checked against a type before it is stored.  The three are written   *)
(* apart and read what TypeRegistry keeps: the object fromID() finds by    *)
(* now, its range, its enumeration.                                        *)
(*                                                                         *)
(* Values are numbers: integers, FALSE and TRUE as 0 and 1, the numbers of *)
(* enumeration values, and the positions of the elements of a list.  Of a  *)
(* random draw there is the set of its outcomes.  Ranges of decimals, and  *)
(* the types whose foreach() is empty for being infinite, are left out.    *)
(***************************************************************************)
EXTENDS TypeRegistry, PowersOfTwo

CONSTANTS From, To  \* the bounds of the ranges

ASSUME IntervalAssumption == From \in [Interval -> Int] /\ To \in [Interval -> Int]

-----------------------------------------------------------------------------
(* Ranges of integers, and integers constrained to one *)

\* Mutant of RangeVisited: the last integer is not visited.
RangeVisitedShort(range) == From[range] .. (To[range] - 1)

\* RangeType::foreach(): from the first bound up to the second one.
RangeVisited(range) == From[range] .. To[range]

\* RangeType::choose(): the draw requires the bounds to be in order.
Ascending(range) == From[range] <= To[range]
RangeChosen(range) == From[range] .. To[range]

\* RangeType::validate(): of a type without a range it throws for every integer.
RangeAccepts(range, i) == range # None /\ ~(From[range] > i \/ i > To[range])

\* The same of a range: a type without one accepts all of them.
RangeIncludes(range, other) ==
  range = None \/ ~(From[range] > From[other] \/ To[other] > To[range])

\* IntegerType( range ) throws of bounds that are not in order.
Constrains(range) == Ascending(range)

-----------------------------------------------------------------------------
(* Booleans and ranges of them *)

BooleanVisited(from, to) == {from} \cup (IF from # to THEN {to} ELSE {})
BooleanChosen(from, to) == from .. to

\* BooleanType: the range from FALSE to TRUE, written as one.
BooleanTypeVisited == {0, 1}
BooleanTypeChosen == { value % 2 : value \in 0 .. 3 }

-----------------------------------------------------------------------------
(* Binary types: foreach() visits nothing *)

BinaryChosen(bitsize) == { value % bitsize : value \in 0 .. (2 * bitsize) }

\* The logarithm of the number before it stands for the width of an integer.
IntegerWidth(i) ==
  LET m == IF i > 1 THEN i - 1 ELSE 1
  IN CHOOSE w \in 0 .. m : PowerOf2(w) <= m /\ m < PowerOf2(w + 1)

BinaryAccepts(bitsize, width) == ~(bitsize < width)

-----------------------------------------------------------------------------
(* Enumerations *)

EnumerationVisited(e) ==
  { enumerations[e].uid[enumerations[e].values[i]] : i \in DOMAIN enumerations[e].values }

\* A draw of an index, of a type with values; encoded like any other.
EnumerationChosen(e) == EnumerationVisited(e)

\* The type of the constant is one by the name of this one, and knows the name
\* of the value that its own type decodes.
EnumerationAccepts(k, id, number) ==
  LET other == types[FromID(id)] IN
    /\ Name(types[k]) = Name(other)
    /\ number \in DOMAIN enumerations[other.content].values
    /\ Encodes(types[k].content, enumerations[other.content].values[number])

-----------------------------------------------------------------------------
(* Types and constants *)

\* foreach() and choose() of a type object.
TypeVisited(type) ==
  CASE type.kind = "RANGE" -> RangeVisited(type.content)
    [] type.kind = "ENUMERATION" -> EnumerationVisited(type.content)
    [] OTHER -> {}

TypeChosen(type) ==
  CASE type.kind = "RANGE" -> RangeChosen(type.content)
    [] type.kind = "ENUMERATION" -> EnumerationChosen(type.content)
    [] type.kind = "BINARY" -> BinaryChosen(type.content)
    [] OTHER -> {}

\* Whether a type has values to visit, and bounds a draw can be made between.
Bounded(type) ==
  CASE type.kind = "RANGE" -> type.content # None /\ Ascending(type.content)
    [] type.kind = "ENUMERATION" -> enumerations[type.content].values # << >>
    [] OTHER -> FALSE

\* validate(), by the k-th type object, of a value of the type with the ID.
Validates(k, id, value) ==
  CASE types[k].kind = "RANGE" -> RangeAccepts(types[k].content, value)
    [] types[k].kind = "ENUMERATION" -> EnumerationAccepts(k, id, value)
    [] types[k].kind = "BINARY" -> BinaryAccepts(types[k].content, types[FromID(id)].content)
    [] OTHER -> TRUE

\* A domain constant has the values of its type.
DomainVisited(id) == TypeVisited(types[FromID(id)])
DomainChosen(id) == TypeChosen(types[FromID(id)])

\* The elements of a list that are constants.
ListVisited(elements) == { i \in DOMAIN elements : elements[i] }

\* Constant::foreach() and Constant::choose(): any other constant is its own value.
ConstantVisited(c) ==
  CASE c.type[1] = "RANGE" -> TypeVisited(types[FromID(c.type)])
    [] c.type[1] = "LIST" -> ListVisited(c.data)
    [] OTHER -> {c.data}

ConstantChosen(c) ==
  CASE c.type[1] = "RANGE" -> TypeChosen(types[FromID(c.type)])
    [] c.type[1] = "LIST" -> { i \in DOMAIN c.data : c.data[i] }
    [] OTHER -> {c.data}

-----------------------------------------------------------------------------
(* Properties *)

\* The objects a client can have of the type with the ID.
Objects(id) == { k \in DOMAIN types : Name(types[k]) = id2hash[id] }

\* A domain constant visits what it chooses, if it visits anything; every object of
\* the type, the one it was made with or another, validates that; and a range
\* validates no integer around it that it does not visit.
DomainsAgree ==
  \A id \in DOMAIN id2hash :
    LET type == types[FromID(id)] IN
      /\ Bounded(type) => DomainVisited(id) = DomainChosen(id) /\ DomainVisited(id) # {}
      /\ Bounded(type) \/ type.kind = "BINARY" =>
           \A value \in DomainVisited(id) \cup DomainChosen(id), k \in Objects(id) :
             Validates(k, id, value)
      /\ type.kind = "RANGE" /\ type.content # None =>
           \A i \in (From[type.content] - 2) .. (To[type.content] + 2) :
             RangeAccepts(type.content, i) <=> i \in DomainVisited(id)

\* A constant chooses among what it visits, and visits what it was made of, whatever
\* became of its type meanwhile; the objects of its type still validate it.
ConstantsAgree ==
  \A j \in DOMAIN constants :
    LET c == constants[j] IN
      /\ (c.type[1] = "RANGE" => Ascending(c.of)) => ConstantVisited(c) = ConstantChosen(c)
      /\ CASE c.type[1] = "RANGE" ->
                /\ ConstantVisited(c) = { i \in From[c.of] .. To[c.of] : RangeAccepts(c.of, i) }
                /\ \A k \in Objects(c.type) : RangeIncludes(types[k].content, c.of)
           [] c.type[1] = "ENUMERATION" ->
                \A k \in Objects(c.type) : EnumerationAccepts(k, c.type, c.data)
           [] OTHER -> TRUE

\* Integers constrained to a range have values; ranges of booleans visit what they
\* choose; a binary type is drawn numbers it can hold, and accepts the integers it can hold.
PlainTypesAgree ==
  /\ \A range \in Interval : Constrains(range) => RangeVisited(range) = RangeChosen(range) /\ RangeVisited(range) # {}
  /\ \A from, to \in 0 .. 1 : from <= to => BooleanVisited(from, to) = BooleanChosen(from, to)
  /\ BooleanTypeVisited = BooleanTypeChosen /\ BooleanTypeVisited = BooleanVisited(0, 1)
  /\ \A n \in Bitsize :
       /\ BinaryChosen(n) \subseteq 0 .. (PowerOf2(n) - 1)
       /\ \A i \in 0 .. (PowerOf2(n) - 1) : BinaryAccepts(n, IntegerWidth(i))

\* choose(), foreach() and validate() agree on the values of every type and constant, of
\* ranges until a type is renamed.
UniversesAgree == (NoneRenamed => DomainsAgree /\ ConstantsAgree) /\ PlainTypesAgree
=============================================================================
