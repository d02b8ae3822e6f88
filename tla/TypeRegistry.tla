----------------------------- MODULE TypeRegistry -----------------------------
(***************************************************************************)
(* The registry of types (Type.cpp, Type.h) and the constants over types   *)
(* that have content of their own (Constant.cpp, Enumeration.cpp,          *)
(* Range.cpp, List.cpp).  Many type objects can stand for one type: they   *)
(* are equal when their names are.  A value keeps only the ID of its type, *)
(* given out at the first id() of a name, and finds an object again by it. *)
(*                                                                         *)
(* Abstractions.  A name is its kind and what tells names of a kind apart; *)
(* hashes are the names, and no enumeration is named like a type of        *)
(* another kind.  Ranges are of integers and all lists have one type of    *)
(* element.  Objects live as long as the program.                          *)
(***************************************************************************)
EXTENDS Integers, Sequences, FiniteSets

CONSTANTS
  Bitsize,      \* the widths of the binary types
  Interval,        \* the ranges of integers
  EnumName,     \* the names of enumerations
  EnumValue,    \* the names of their values
  None,         \* no content
  Careful,      \* TRUE: clients give no two enumerations one name
  MaxTypes,     \* bound: no type object is made once there are that many
  MaxContents,  \* bound: that many enumerations, values of one, elements of a list
  MaxConstants  \* bound on the constants

ASSUME RegistryAssumption ==
  /\ Careful \in BOOLEAN
  /\ Bitsize \subseteq Nat \ {0}
  /\ None \notin Interval
  /\ MaxTypes \in Nat /\ MaxContents \in Nat \ {0} /\ MaxConstants \in Nat

VARIABLES
  types,        \* the type objects: kind, content and flavor, 0 while they have no ID
  cache,        \* s_cache: the objects of Memory::get by name
  hash2ptr,     \* s_registered_type_hash2ptr: the object a name was registered for
  id2hash,      \* s_registered_type_id2hash: the name an ID was given for
  typeIDs,      \* s_typeIDs: the number of IDs of a kind
  enumerations, \* name, values and the uids of values
  constants,    \* type ID, data, and what the constant was made of
  drawing       \* the list constant that choose() is in the loop of, 0 if none

registered == << hash2ptr, id2hash, typeIDs >>
registryVars == << types, cache, registered, enumerations, constants, drawing >>

Kind == {"BINARY", "RANGE", "ENUMERATION", "LIST"}
Emplaced(f, x, y) == [z \in DOMAIN f \cup {x} |-> IF z = x THEN y ELSE f[z]]

-----------------------------------------------------------------------------
(* Type objects *)

BinaryType(n) == [kind |-> "BINARY", content |-> n, flavor |-> 0]
\* RangeType( Type::Ptr ), without a range, and RangeType( Range::Ptr ).
RangeType(range) == [kind |-> "RANGE", content |-> range, flavor |-> 0]
EnumerationType(e) == [kind |-> "ENUMERATION", content |-> e, flavor |-> 0]
ListType == [kind |-> "LIST", content |-> None, flavor |-> 0]

\* name(): of a range type the range it has at the time.
Name(type) ==
  << type.kind, IF type.kind = "ENUMERATION" THEN enumerations[type.content].name ELSE type.content >>

NewTypes ==
  { BinaryType(n) : n \in Bitsize } \cup { RangeType(r) : r \in Interval \cup {None} }
    \cup { EnumerationType(e) : e \in DOMAIN enumerations } \cup {ListType}

\* Memory::get: the objects and the cache after it, and the object it returns.
Cached(type) == Name(type) \in DOMAIN cache
TypesWith(type) == IF Cached(type) THEN types ELSE Append(types, type)
CacheWith(type) == IF Cached(type) THEN cache ELSE Emplaced(cache, Name(type), Len(types) + 1)
Got(type) == IF Cached(type) THEN cache[Name(type)] ELSE Len(types) + 1

-----------------------------------------------------------------------------
(* IDs *)

OwnID(type) == << type.kind, type.flavor >>
NextID(type) == << type.kind, typeIDs[type.kind] + 1 >>

\* Whether id() enters the type: it has no ID and nor has its name.
Enters(type) == type.flavor = 0 /\ Name(type) \notin DOMAIN hash2ptr

\* Mutants of IDOf: an object of a name that is registered gets an ID of its own, and
\* the name is looked up also of an object that has an ID.
IDOfObject(ts, k) ==
  IF ts[k].flavor # 0 THEN OwnID(ts[k]) ELSE NextID(ts[k])

IDOfName(ts, k) ==
  IF Name(ts[k]) \in DOMAIN hash2ptr THEN OwnID(ts[hash2ptr[Name(ts[k])]]) ELSE NextID(ts[k])

\* id() of the k-th of the objects ts.
IDOf(ts, k) ==
  IF ts[k].flavor # 0 THEN OwnID(ts[k])
  ELSE IF Enters(ts[k]) THEN NextID(ts[k])
  ELSE OwnID(ts[hash2ptr[Name(ts[k])]])

\* The objects, and the maps, after it.
TypesAfterID(ts, k) ==
  IF Enters(ts[k]) THEN [ts EXCEPT ![k].flavor = typeIDs[ts[k].kind] + 1] ELSE ts

Register(ts, k) ==
  IF Enters(ts[k])
    THEN /\ hash2ptr' = Emplaced(hash2ptr, Name(ts[k]), k)
         /\ id2hash' = Emplaced(id2hash, NextID(ts[k]), Name(ts[k]))
         /\ typeIDs' = [typeIDs EXCEPT ![ts[k].kind] = @ + 1]
    ELSE UNCHANGED registered

\* Mutant of FromID: the index of the ID is that of the object.
FromIDByFlavor(id) == id[2]

\* fromID(): the cache is asked first.
FromID(id) ==
  IF id2hash[id] \in DOMAIN cache THEN cache[id2hash[id]] ELSE hash2ptr[id2hash[id]]

-----------------------------------------------------------------------------
(* Operations *)

RegistryInit ==
  /\ types = << >>
  /\ cache = << >>
  /\ hash2ptr = << >>
  /\ id2hash = << >>
  /\ typeIDs = [kind \in Kind |-> 0]
  /\ enumerations = << >>
  /\ constants = << >>
  /\ drawing = 0

Make(type) ==
  /\ types' = Append(types, type)
  /\ UNCHANGED << cache, registered, enumerations, constants, drawing >>

Get(type) ==
  /\ types' = TypesWith(type)
  /\ cache' = CacheWith(type)
  /\ UNCHANGED << registered, enumerations, constants, drawing >>

\* A value of the type is made: an undefined constant, an instruction, a function.
RegisterValue(k) ==
  /\ Enters(types[k])
  /\ types' = TypesAfterID(types, k)
  /\ Register(types, k)
  /\ UNCHANGED << cache, enumerations, constants, drawing >>

\* RangeConstant( type, from, to ): setRange() gives the type the range after its id(),
\* whichever range it has: the type is renamed.
RangeConstant(k, range) ==
  /\ types[k].kind = "RANGE"
  /\ types' = [TypesAfterID(types, k) EXCEPT ![k].content = range]
  /\ Register(types, k)
  /\ constants' = Append(constants, [type |-> IDOf(types, k), data |-> 0, of |-> range])
  /\ UNCHANGED << cache, enumerations, drawing >>

Encodes(e, value) == value \in DOMAIN enumerations[e].uid

\* EnumerationConstant( type, value ); encode() throws of another value.
EnumerationConstant(k, value) ==
  /\ types[k].kind = "ENUMERATION"
  /\ Encodes(types[k].content, value)
  /\ types' = TypesAfterID(types, k)
  /\ Register(types, k)
  /\ constants' = Append(constants, [type |-> IDOf(types, k), of |-> value,
                                     data |-> enumerations[types[k].content].uid[value]])
  /\ UNCHANGED << cache, enumerations, drawing >>

\* EnumerationConstant( kind, value ): of the type that Memory::get returns.
EnumerationConstantOf(e, value) ==
  /\ Encodes(e, value)
  /\ LET type == EnumerationType(e)
         k == Got(type)
     IN /\ cache' = CacheWith(type)
        /\ types' = TypesAfterID(TypesWith(type), k)
        /\ Register(TypesWith(type), k)
        /\ constants' = Append(constants, [type |-> IDOf(TypesWith(type), k), of |-> value,
                                           data |-> enumerations[e].uid[value]])
  /\ UNCHANGED << enumerations, drawing >>

\* ListConstant( type, value ): of an element of the list it matters whether
\* isa< Constant > holds, as it does not of lists, tuples, ranges and references.
ListConstant(k, elements) ==
  /\ types[k].kind = "LIST"
  /\ types' = TypesAfterID(types, k)
  /\ Register(types, k)
  /\ constants' = Append(constants, [type |-> IDOf(types, k), data |-> elements, of |-> elements])
  /\ UNCHANGED << cache, enumerations, drawing >>

NewEnumeration(name) ==
  /\ Careful => \A e \in DOMAIN enumerations : enumerations[e].name # name
  /\ enumerations' = Append(enumerations, [name |-> name, values |-> << >>, uid |-> << >>])
  /\ UNCHANGED << types, cache, registered, constants, drawing >>

\* Mutant of Add: a value that exists already gets the new position.
AddOverwrites(e, value) ==
  /\ enumerations' = [enumerations EXCEPT
       ![e].values = Append(@, value),
       ![e].uid = Emplaced(@, value, Len(enumerations[e].values) + 1)]
  /\ UNCHANGED << types, cache, registered, constants, drawing >>

\* Enumeration::add(): of a value that exists it throws, after it was appended.
Add(e, value) ==
  /\ enumerations' = [enumerations EXCEPT
       ![e].values = Append(@, value),
       ![e].uid = IF value \in DOMAIN @ THEN @ ELSE Emplaced(@, value, Len(enumerations[e].values) + 1)]
  /\ UNCHANGED << types, cache, registered, constants, drawing >>

\* ListConstant::choose() draws until it meets a constant.
Choose(i) ==
  /\ constants[i].type[1] = "LIST"
  /\ drawing' = i
  /\ UNCHANGED << types, cache, registered, enumerations, constants >>

Drawn == constants[drawing].data

\* Mutant of Draw: the first element is drawn each time.
DrawFirst(i) ==
  /\ drawing # 0
  /\ i = 1 /\ Drawn[i]
  /\ drawing' = 0
  /\ UNCHANGED << types, cache, registered, enumerations, constants >>

\* The draw that ends the loop; any other one leaves everything as it is.
Draw(i) ==
  /\ drawing # 0
  /\ i \in DOMAIN Drawn /\ Drawn[i]
  /\ drawing' = 0
  /\ UNCHANGED << types, cache, registered, enumerations, constants >>

\* The lists clients make: with MaxContents elements.
Elements == [1..MaxContents -> BOOLEAN]

RegistryNext ==
  \/ /\ drawing = 0
     /\ \/ /\ Len(types) < MaxTypes
           /\ \E type \in NewTypes : Make(type) \/ Get(type)
        \/ \E k \in DOMAIN types : RegisterValue(k)
        \/ /\ Len(constants) < MaxConstants
           /\ \E k \in DOMAIN types :
                \/ \E range \in Interval : RangeConstant(k, range)
                \/ \E value \in EnumValue : EnumerationConstant(k, value)
                \/ \E elements \in Elements : ListConstant(k, elements)
        \/ /\ Len(constants) < MaxConstants /\ Len(types) < MaxTypes
           /\ \E e \in DOMAIN enumerations, value \in EnumValue : EnumerationConstantOf(e, value)
        \/ /\ Len(enumerations) < MaxContents
           /\ \E name \in EnumName : NewEnumeration(name)
        \/ \E e \in DOMAIN enumerations, value \in EnumValue :
             Len(enumerations[e].values) < MaxContents /\ Add(e, value)
        \/ \E i \in DOMAIN constants : Choose(i)
  \/ \E i \in 1..MaxContents : Draw(i)

\* The draws are uniform: an element is drawn again and again.
RegistrySpec ==
  RegistryInit /\ [][RegistryNext]_registryVars
    /\ \A i \in 1..MaxContents : WF_registryVars(Draw(i))

-----------------------------------------------------------------------------
(* Properties *)

TypeObject == [kind : Kind, content : Bitsize \cup Interval \cup {None} \cup Nat, flavor : Nat]

Enumeration ==
  [name : EnumName, values : Seq(EnumValue), uid : UNION { [V -> 1 .. MaxContents] : V \in SUBSET EnumValue }]

\* The types of the state; an enumeration type has one of the enumerations.
RegistryTyped ==
  /\ types \in Seq(TypeObject)
  /\ typeIDs \in [Kind -> Nat]
  /\ enumerations \in Seq(Enumeration)
  /\ \A k \in DOMAIN types : types[k].kind = "ENUMERATION" => types[k].content \in DOMAIN enumerations

\* The maps, from names to objects, from IDs to names, and the numbers of IDs, fit the
\* objects: an ID has one name and a name one ID, the IDs of a kind are numbered without
\* a gap, and an object with an ID is the one its name was registered for.
Fit(ts, pointers, names, numbers) ==
  /\ \A id \in DOMAIN names : id \in Kind \X Nat /\ id[2] \in 1 .. numbers[id[1]]
  /\ \A kind \in Kind : \A flavor \in 1 .. numbers[kind] : << kind, flavor >> \in DOMAIN names
  /\ \A name \in DOMAIN pointers :
       /\ pointers[name] \in DOMAIN ts
       /\ OwnID(ts[pointers[name]]) \in DOMAIN names
       /\ names[OwnID(ts[pointers[name]])] = name
  /\ \A id \in DOMAIN names : names[id] \in DOMAIN pointers /\ OwnID(ts[pointers[names[id]]]) = id
  /\ \A k \in DOMAIN ts : ts[k].flavor # 0 =>
       OwnID(ts[k]) \in DOMAIN names /\ pointers[names[OwnID(ts[k])]] = k

\* Whatever objects are made, cached and renamed in whatever order, the maps fit
\* together: the assertions of id() and fromID() that the registered types are in a
\* consistent state hold, and fromID() finds an object for the type of every value.
RegistryConsistent ==
  /\ Fit(types, hash2ptr, id2hash, typeIDs)
  /\ \A name \in DOMAIN cache : cache[name] \in DOMAIN types
  /\ \A i \in DOMAIN constants : constants[i].type \in DOMAIN id2hash

\* No type has been renamed: every range constant was made of a type of its range.
NoneRenamed ==
  \A i \in DOMAIN constants : constants[i].type[1] = "RANGE" =>
    id2hash[constants[i].type][2] = constants[i].of

\* Values of equal types have one ID, and values with one ID have equal types, however
\* many objects there are of a type: sets of IDs, and values that keep an ID, stand for
\* types, until a type is renamed.
EqualTypesShareID ==
  NoneRenamed => \A k, j \in DOMAIN types :
    LET known == types[k].flavor # 0 /\ (types[j].flavor # 0 \/ ~Enters(types[j]))
    IN known => (IDOf(types, k) = IDOf(types, j) <=> Name(types[k]) = Name(types[j]))

\* A constant is read back as what it was made of, through the object fromID() finds
\* for its type at the time: objects of the type that are made or cached later and
\* values added to the enumeration later, twice even, do not change it; a renamed type may.
ReadBack ==
  NoneRenamed => \A i \in DOMAIN constants :
    LET c == constants[i]
        type == types[FromID(c.type)]
    IN CASE type.kind = "RANGE" -> type.content = c.of
         [] type.kind = "ENUMERATION" ->
              Name(type)[2] = id2hash[c.type][2] /\ c.data \in DOMAIN enumerations[type.content].values
                /\ enumerations[type.content].values[c.data] = c.of
         [] OTHER -> TRUE

\* Constants of one type are equal when what they were made of is, as operator== has it
\* that compares the numbers of values: also of a value that was added twice.
EqualValuesEqualConstants ==
  \A i, j \in DOMAIN constants :
    constants[i].type = constants[j].type /\ constants[i].type[1] = "ENUMERATION" =>
      (constants[i].data = constants[j].data <=> constants[i].of = constants[j].of)

\* Whatever types are renamed, an object that has an ID keeps it, and one that was given
\* the ID of another object of its name keeps that until it is renamed itself, also after
\* the other one is: id() gives the values of a type one ID for good.
IDsStay ==
  [][ \A k \in DOMAIN types :
        ~Enters(types[k]) /\ (types[k].flavor # 0 \/ Name(types[k])' = Name(types[k])) =>
          IDOf(types, k)' = IDOf(types, k) ]_registryVars

\* choose() of a list that has a constant returns.
ChooseReturns == drawing # 0 /\ (\E i \in DOMAIN Drawn : Drawn[i]) ~> drawing = 0
=============================================================================
