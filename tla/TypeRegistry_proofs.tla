------------------------- MODULE TypeRegistry_proofs -------------------------
(***************************************************************************)
(* That the maps of the registry of types fit together whatever clients do *)
(* and that id() gives an object one ID for good, whatever is renamed;     *)
(* and that until a type is renamed IDs stand for types one to one,        *)
(* constants are read back as what they were made of, and choose(),        *)
(* foreach() and validate() agree on the values of types.                  *)
(*                                                                         *)
(* Two lemmas about the maps carry the first part: one for the id() that   *)
(* enters a type and one for what leaves the maps alone.  The second part  *)
(* is about the names IDs were given for, which only the objects of range  *)
(* types lose (Named), and about what enumerations, the cache and          *)
(* constants say of each other (ContentInvariant), which takes careful     *)
(* clients: no two enumerations have one name.                             *)
(***************************************************************************)
EXTENDS Universe, NaturalNumbers_proofs

-----------------------------------------------------------------------------
(* The maps *)

\* Entering the name of an object that has no ID keeps the maps fitting: id().
LEMMA EnteredFits ==
  ASSUME NEW ts, NEW us, NEW pointers, NEW names, NEW numbers \in [Kind -> Nat],
         NEW k \in DOMAIN ts, NEW name,
         Fit(ts, pointers, names, numbers),
         ts[k].kind \in Kind, ts[k].flavor = 0, name \notin DOMAIN pointers,
         DOMAIN us = DOMAIN ts,
         \A j \in DOMAIN ts : us[j].kind = ts[j].kind,
         \A j \in DOMAIN ts : j # k => us[j].flavor = ts[j].flavor,
         us[k].flavor = numbers[ts[k].kind] + 1
  PROVE  Fit(us, Emplaced(pointers, name, k),
             Emplaced(names, << ts[k].kind, numbers[ts[k].kind] + 1 >>, name),
             [numbers EXCEPT ![ts[k].kind] = @ + 1])
<1> DEFINE kind == ts[k].kind
           new == << kind, numbers[kind] + 1 >>
           pointers2 == Emplaced(pointers, name, k)
           names2 == Emplaced(names, new, name)
           numbers2 == [numbers EXCEPT ![kind] = @ + 1]
<1> USE DEF OwnID
<1>1. DOMAIN pointers2 = DOMAIN pointers \cup {name} /\ pointers2[name] = k
      /\ \A n \in DOMAIN pointers : pointers2[n] = pointers[n]
  BY DEF Emplaced
<1>2. DOMAIN names2 = DOMAIN names \cup {new} /\ names2[new] = name
      /\ \A id \in DOMAIN names : id # new => names2[id] = names[id]
  BY DEF Emplaced
<1>3. numbers[kind] \in Nat /\ numbers2 \in [Kind -> Nat] /\ numbers2[kind] = numbers[kind] + 1
      /\ \A other \in Kind : other # kind => numbers2[other] = numbers[other]
  OBVIOUS
<1>4. new \notin DOMAIN names
  BY <1>3 DEF Fit
<1>5. OwnID(us[k]) = new /\ \A j \in DOMAIN ts : j # k => OwnID(us[j]) = OwnID(ts[j])
  OBVIOUS
<1>6. \A n \in DOMAIN pointers : pointers[n] # k
  <2> SUFFICES ASSUME NEW n \in DOMAIN pointers, pointers[n] = k PROVE FALSE
    OBVIOUS
  <2>1. << kind, 0 >> \in DOMAIN names
    BY DEF Fit
  <2> QED BY <2>1, <1>3 DEF Fit
<1>7. \A id \in DOMAIN names2 : id \in Kind \X Nat /\ id[2] \in 1 .. numbers2[id[1]]
  <2> SUFFICES ASSUME NEW id \in DOMAIN names2
               PROVE id \in Kind \X Nat /\ id[2] \in 1 .. numbers2[id[1]]
    OBVIOUS
  <2>1. CASE id = new
    BY <2>1, <1>3
  <2>2. CASE id \in DOMAIN names
    <3>1. id \in Kind \X Nat /\ id[2] \in 1 .. numbers[id[1]]
      BY <2>2 DEF Fit
    <3>2. id[1] \in Kind /\ numbers[id[1]] \in Nat /\ numbers2[id[1]] \in Nat
          /\ numbers2[id[1]] >= numbers[id[1]]
      BY <3>1, <1>3
    <3> QED BY <3>1, <3>2
  <2> QED BY <2>1, <2>2, <1>2
<1>8. \A other \in Kind : \A flavor \in 1 .. numbers2[other] : << other, flavor >> \in DOMAIN names2
  <2> SUFFICES ASSUME NEW other \in Kind, NEW flavor \in 1 .. numbers2[other]
               PROVE << other, flavor >> \in DOMAIN names2
    OBVIOUS
  <2>1. CASE other = kind /\ flavor = numbers[kind] + 1
    BY <2>1, <1>2
  <2>2. CASE flavor \in 1 .. numbers[other]
    BY <2>2, <1>2 DEF Fit
  <2> QED BY <2>1, <2>2, <1>3
<1>9. \A n \in DOMAIN pointers2 :
        /\ pointers2[n] \in DOMAIN us
        /\ OwnID(us[pointers2[n]]) \in DOMAIN names2
        /\ names2[OwnID(us[pointers2[n]])] = n
  <2> SUFFICES ASSUME NEW n \in DOMAIN pointers2
               PROVE /\ pointers2[n] \in DOMAIN us
                     /\ OwnID(us[pointers2[n]]) \in DOMAIN names2
                     /\ names2[OwnID(us[pointers2[n]])] = n
    OBVIOUS
  <2>1. CASE n = name
    BY <2>1, <1>1, <1>2, <1>5
  <2>2. CASE n \in DOMAIN pointers
    <3>1. pointers2[n] = pointers[n] /\ pointers[n] # k
      BY <2>2, <1>1, <1>6
    <3>2. /\ pointers[n] \in DOMAIN ts
          /\ OwnID(ts[pointers[n]]) \in DOMAIN names
          /\ names[OwnID(ts[pointers[n]])] = n
      BY <2>2 DEF Fit
    <3>3. OwnID(us[pointers[n]]) = OwnID(ts[pointers[n]])
      BY <3>1, <3>2, <1>5
    <3> QED BY <3>1, <3>2, <3>3, <1>2, <1>4
  <2> QED BY <2>1, <2>2, <1>1
<1>10. \A id \in DOMAIN names2 : names2[id] \in DOMAIN pointers2 /\ OwnID(us[pointers2[names2[id]]]) = id
  <2> SUFFICES ASSUME NEW id \in DOMAIN names2
               PROVE names2[id] \in DOMAIN pointers2 /\ OwnID(us[pointers2[names2[id]]]) = id
    OBVIOUS
  <2>1. CASE id = new
    BY <2>1, <1>1, <1>2, <1>5
  <2>2. CASE id \in DOMAIN names
    <3>1. names2[id] = names[id] /\ names[id] \in DOMAIN pointers
      BY <2>2, <1>2, <1>4 DEF Fit
    <3>2. pointers2[names[id]] = pointers[names[id]] /\ pointers[names[id]] # k
          /\ pointers[names[id]] \in DOMAIN ts
      BY <3>1, <1>1, <1>6 DEF Fit
    <3>3. OwnID(us[pointers[names[id]]]) = OwnID(ts[pointers[names[id]]])
      BY <3>2, <1>5
    <3>4. OwnID(ts[pointers[names[id]]]) = id
      BY <2>2 DEF Fit
    <3> QED BY <3>1, <3>2, <3>3, <3>4, <1>1
  <2> QED BY <2>1, <2>2, <1>2
<1>11. \A j \in DOMAIN us : us[j].flavor # 0 =>
         OwnID(us[j]) \in DOMAIN names2 /\ pointers2[names2[OwnID(us[j])]] = j
  <2> SUFFICES ASSUME NEW j \in DOMAIN us, us[j].flavor # 0
               PROVE OwnID(us[j]) \in DOMAIN names2 /\ pointers2[names2[OwnID(us[j])]] = j
    OBVIOUS
  <2>1. CASE j = k
    BY <2>1, <1>1, <1>2, <1>5
  <2>2. CASE j # k
    <3>1. OwnID(us[j]) = OwnID(ts[j]) /\ ts[j].flavor # 0
      BY <2>2, <1>5
    <3>2. OwnID(ts[j]) \in DOMAIN names /\ pointers[names[OwnID(ts[j])]] = j
      BY <3>1 DEF Fit
    <3>3. names[OwnID(ts[j])] \in DOMAIN pointers
      BY <3>2 DEF Fit
    <3> QED BY <3>1, <3>2, <3>3, <1>1, <1>2, <1>4
  <2> QED BY <2>1, <2>2
<1> HIDE DEF pointers2, names2, numbers2
<1>12. Fit(us, pointers2, names2, numbers2)
  BY <1>7, <1>8, <1>9, <1>10, <1>11 DEF Fit
<1> QED BY <1>12 DEF pointers2, names2, numbers2, new, kind

\* Objects that are added without an ID, and new names of objects, leave the maps fitting.
LEMMA ExtendedFits ==
  ASSUME NEW ts, NEW us, NEW pointers, NEW names, NEW numbers,
         Fit(ts, pointers, names, numbers),
         DOMAIN ts \subseteq DOMAIN us,
         \A j \in DOMAIN ts : us[j].kind = ts[j].kind /\ us[j].flavor = ts[j].flavor,
         \A j \in DOMAIN us \ DOMAIN ts : us[j].flavor = 0
  PROVE  Fit(us, pointers, names, numbers)
<1>1. \A j \in DOMAIN ts : OwnID(us[j]) = OwnID(ts[j])
  BY DEF OwnID
<1>2. \A name \in DOMAIN pointers :
        /\ pointers[name] \in DOMAIN us
        /\ OwnID(us[pointers[name]]) \in DOMAIN names
        /\ names[OwnID(us[pointers[name]])] = name
  BY <1>1 DEF Fit
<1>3. \A id \in DOMAIN names : names[id] \in DOMAIN pointers /\ OwnID(us[pointers[names[id]]]) = id
  BY <1>1 DEF Fit
<1>4. \A k \in DOMAIN us : us[k].flavor # 0 =>
        OwnID(us[k]) \in DOMAIN names /\ pointers[names[OwnID(us[k])]] = k
  BY <1>1 DEF Fit
<1> QED BY <1>2, <1>3, <1>4 DEF Fit

-----------------------------------------------------------------------------
(* id() and Memory::get *)

\* id() of an object: the maps fit the objects after it, and it returns an ID that is known.
LEMMA Registered ==
  ASSUME typeIDs \in [Kind -> Nat], NEW ts \in Seq(TypeObject), NEW k \in DOMAIN ts,
         Fit(ts, hash2ptr, id2hash, typeIDs), Register(ts, k)
  PROVE  /\ TypesAfterID(ts, k) \in Seq(TypeObject) /\ typeIDs' \in [Kind -> Nat]
         /\ DOMAIN TypesAfterID(ts, k) = DOMAIN ts
         /\ \A j \in DOMAIN ts : /\ TypesAfterID(ts, k)[j].kind = ts[j].kind
                                 /\ TypesAfterID(ts, k)[j].content = ts[j].content
                                 /\ ts[j].flavor # 0 => TypesAfterID(ts, k)[j].flavor = ts[j].flavor
         /\ Fit(TypesAfterID(ts, k), hash2ptr', id2hash', typeIDs')
         /\ IDOf(ts, k) \in DOMAIN id2hash'
         /\ DOMAIN id2hash \subseteq DOMAIN id2hash'
<1> DEFINE us == TypesAfterID(ts, k)
<1>1. ts[k] \in TypeObject /\ ts[k].kind \in Kind /\ \A j \in DOMAIN ts : ts[j] \in TypeObject
  <2>1. \A j \in DOMAIN ts : ts[j] \in TypeObject
    OBVIOUS
  <2> QED BY <2>1 DEF TypeObject
<1>2. CASE ~Enters(ts[k])
  <2>1. us = ts /\ hash2ptr' = hash2ptr /\ id2hash' = id2hash /\ typeIDs' = typeIDs
    BY <1>2 DEF Register, TypesAfterID, registered
  <2>2. CASE ts[k].flavor # 0
    BY <2>1, <2>2 DEF IDOf, Fit
  <2>3. CASE ts[k].flavor = 0
    <3>1. Name(ts[k]) \in DOMAIN hash2ptr /\ IDOf(ts, k) = OwnID(ts[hash2ptr[Name(ts[k])]])
      BY <1>2, <2>3 DEF IDOf, Enters
    <3> QED BY <2>1, <3>1 DEF Fit
  <2> QED BY <2>2, <2>3
<1>3. CASE Enters(ts[k])
  <2> DEFINE n == typeIDs[ts[k].kind] + 1
  <2>1. ts[k].flavor = 0 /\ Name(ts[k]) \notin DOMAIN hash2ptr
    BY <1>3 DEF Enters
  <2>2. n \in Nat /\ n # 0
    BY <1>1
  <2>3. us = [ts EXCEPT ![k].flavor = n]
    BY <1>3 DEF TypesAfterID
  <2>4. us = [ts EXCEPT ![k] = [ts[k] EXCEPT !.flavor = n]] /\ [ts[k] EXCEPT !.flavor = n] \in TypeObject
    BY <2>2, <2>3, <1>1 DEF TypeObject
  <2>5. us \in Seq(TypeObject) /\ DOMAIN us = DOMAIN ts
    BY <2>4
  <2>6. /\ \A j \in DOMAIN ts : us[j].kind = ts[j].kind /\ us[j].content = ts[j].content
        /\ \A j \in DOMAIN ts : j # k => us[j].flavor = ts[j].flavor
        /\ us[k].flavor = n
    BY <2>4, <1>1 DEF TypeObject
  <2>7. /\ hash2ptr' = Emplaced(hash2ptr, Name(ts[k]), k)
        /\ id2hash' = Emplaced(id2hash, << ts[k].kind, n >>, Name(ts[k]))
        /\ typeIDs' = [typeIDs EXCEPT ![ts[k].kind] = @ + 1]
    BY <1>3 DEF Register, NextID
  <2>8. typeIDs' \in [Kind -> Nat]
    BY <2>7, <2>2, <1>1
  <2> HIDE DEF us
  <2>9. Fit(us, hash2ptr', id2hash', typeIDs')
    BY <1>1, <2>1, <2>5, <2>6, <2>7, EnteredFits
  <2>10. IDOf(ts, k) = << ts[k].kind, n >>
    BY <1>3, <2>1 DEF IDOf, NextID
  <2>11. DOMAIN id2hash' = DOMAIN id2hash \cup {<< ts[k].kind, n >>}
    BY <2>7 DEF Emplaced
  <2> QED BY <2>1, <2>5, <2>6, <2>8, <2>9, <2>10, <2>11 DEF us
<1> QED BY <1>2, <1>3

\* What the content of an object is: of a range type also after it was renamed.
Proper(type) ==
  /\ type.kind = "RANGE" => type.content \in Interval \cup {None}
  /\ type.kind = "BINARY" => type.content \in Bitsize

\* The objects clients make have the types of objects, no ID, and an enumeration that exists.
LEMMA NewTypesTyped ==
  ASSUME RegistryTyped, NEW type \in NewTypes
  PROVE  /\ type \in TypeObject /\ type.flavor = 0 /\ Proper(type)
         /\ type.kind = "ENUMERATION" => type.content \in DOMAIN enumerations
<1>1. enumerations \in Seq(Enumeration) /\ DOMAIN enumerations \subseteq Nat
  BY DEF RegistryTyped
<1> QED BY <1>1 DEF NewTypes, BinaryType, RangeType, EnumerationType, ListType, TypeObject, Kind,
              Proper

\* One more object without an ID.
LEMMA AppendedFits ==
  ASSUME RegistryTyped, RegistryConsistent, NEW type \in NewTypes
  PROVE  LET ts == Append(types, type)
         IN /\ ts \in Seq(TypeObject) /\ DOMAIN ts = DOMAIN types \cup {Len(types) + 1}
            /\ \A j \in DOMAIN types : ts[j] = types[j]
            /\ ts[Len(types) + 1] = type
            /\ Fit(ts, hash2ptr, id2hash, typeIDs)
<1> DEFINE ts == Append(types, type)
<1>1. type \in TypeObject /\ type.flavor = 0 /\ types \in Seq(TypeObject)
  BY NewTypesTyped DEF RegistryTyped
<1>2. /\ ts \in Seq(TypeObject) /\ DOMAIN ts = DOMAIN types \cup {Len(types) + 1}
      /\ \A j \in DOMAIN types : ts[j] = types[j]
      /\ ts[Len(types) + 1] = type
  BY <1>1
<1> HIDE DEF ts
<1>3. Fit(ts, hash2ptr, id2hash, typeIDs)
  BY <1>1, <1>2, ExtendedFits DEF RegistryConsistent
<1> QED BY <1>2, <1>3 DEF ts

\* Memory::get: it returns one of the objects, and so does any later one.
LEMMA Obtained ==
  ASSUME RegistryTyped, RegistryConsistent, NEW type \in NewTypes
  PROVE  /\ TypesWith(type) \in Seq(TypeObject)
         /\ DOMAIN types \subseteq DOMAIN TypesWith(type)
         /\ \A j \in DOMAIN types : TypesWith(type)[j] = types[j]
         /\ \A j \in DOMAIN TypesWith(type) \ DOMAIN types : TypesWith(type)[j] = type
         /\ Fit(TypesWith(type), hash2ptr, id2hash, typeIDs)
         /\ Got(type) \in DOMAIN TypesWith(type)
         /\ \A name \in DOMAIN CacheWith(type) : CacheWith(type)[name] \in DOMAIN TypesWith(type)
<1>1. CASE Cached(type)
  BY <1>1 DEF Cached, TypesWith, CacheWith, Got, RegistryTyped, RegistryConsistent
<1>2. CASE ~Cached(type)
  BY <1>2, AppendedFits DEF TypesWith, CacheWith, Got, Emplaced, RegistryConsistent
<1> QED BY <1>1, <1>2

-----------------------------------------------------------------------------
(* The inductive invariant *)

Sequence(s) == s \in Seq({ s[i] : i \in DOMAIN s })

\* The constants are a sequence, whatever they are constants of.
RegistryInvariant == RegistryTyped /\ RegistryConsistent /\ Sequence(constants)

LEMMA AppendSequence ==
  ASSUME NEW s, NEW c, Sequence(s)
  PROVE  /\ Sequence(Append(s, c))
         /\ DOMAIN Append(s, c) = DOMAIN s \cup {Len(s) + 1}
         /\ \A i \in DOMAIN s : Append(s, c)[i] = s[i]
         /\ Append(s, c)[Len(s) + 1] = c
<1> DEFINE S == { s[i] : i \in DOMAIN s } \cup {c}
           t == Append(s, c)
<1>1. s \in Seq(S) /\ c \in S
  BY DEF Sequence
<1> HIDE DEF S
<1>2. /\ t \in Seq(S) /\ DOMAIN t = DOMAIN s \cup {Len(s) + 1}
      /\ \A i \in DOMAIN s : t[i] = s[i]
      /\ t[Len(s) + 1] = c
  BY <1>1
<1> HIDE DEF t
<1>3. t \in Seq({ t[i] : i \in DOMAIN t })
  <2>1. Len(t) \in Nat /\ DOMAIN t = 1 .. Len(t) /\ t = [i \in 1 .. Len(t) |-> t[i]]
    <3>1. t \in Seq(S)
      BY <1>2
    <3>2. Len(t) \in Nat /\ DOMAIN t = 1 .. Len(t)
      BY <3>1
    <3>3. t = [i \in 1 .. Len(t) |-> t[i]]
      BY <3>1
    <3> QED BY <3>2, <3>3
  <2> DEFINE T == { t[i] : i \in DOMAIN t }
  <2>2. \A i \in 1 .. Len(t) : t[i] \in T
    BY <2>1
  <2> HIDE DEF T
  <2>3. t \in Seq(T)
    BY <2>1, <2>2
  <2> QED BY <2>3 DEF T
<1> QED BY <1>2, <1>3 DEF t, Sequence

\* What the operations that call id() have in common: the objects ts, of which they use
\* the k-th, are those before or one more, and what they do to them afterwards is to
\* replace contents.
LEMMA UsedConsistent ==
  ASSUME RegistryInvariant, NEW ts \in Seq(TypeObject), NEW k \in DOMAIN ts,
         Fit(ts, hash2ptr, id2hash, typeIDs), Register(ts, k),
         \A name \in DOMAIN cache' : cache'[name] \in DOMAIN ts,
         DOMAIN types' = DOMAIN ts,
         \A j \in DOMAIN ts : /\ types'[j].kind = TypesAfterID(ts, k)[j].kind
                              /\ types'[j].flavor = TypesAfterID(ts, k)[j].flavor,
         \/ constants' = constants
         \/ \E c : constants' = Append(constants, c) /\ c.type = IDOf(ts, k)
  PROVE  RegistryConsistent' /\ typeIDs' \in [Kind -> Nat] /\ Sequence(constants)'
<1>1. typeIDs \in [Kind -> Nat]
  BY DEF RegistryInvariant, RegistryTyped
<1>2. /\ typeIDs' \in [Kind -> Nat]
      /\ DOMAIN TypesAfterID(ts, k) = DOMAIN ts
      /\ Fit(TypesAfterID(ts, k), hash2ptr', id2hash', typeIDs')
      /\ IDOf(ts, k) \in DOMAIN id2hash'
      /\ DOMAIN id2hash \subseteq DOMAIN id2hash'
  BY <1>1, Registered
<1>3. Fit(types', hash2ptr', id2hash', typeIDs')
  BY <1>2, ExtendedFits
<1>4. \A i \in DOMAIN constants : constants[i].type \in DOMAIN id2hash'
  BY <1>2 DEF RegistryInvariant, RegistryConsistent
<1>5. Sequence(constants') /\ \A i \in DOMAIN constants' : constants'[i].type \in DOMAIN id2hash'
  <2>1. CASE constants' = constants
    BY <2>1, <1>4 DEF RegistryInvariant
  <2>2. CASE \E c : constants' = Append(constants, c) /\ c.type = IDOf(ts, k)
    BY <2>2, <1>2, <1>4, AppendSequence DEF RegistryInvariant
  <2> QED BY <2>1, <2>2
<1> QED BY <1>2, <1>3, <1>5 DEF RegistryConsistent, Sequence

LEMMA InvariantInitially == RegistryInit => RegistryInvariant
<1> SUFFICES ASSUME RegistryInit PROVE RegistryInvariant
  OBVIOUS
<1>1. RegistryTyped
  BY DEF RegistryInit, RegistryTyped
<1>2. RegistryConsistent
  BY DEF RegistryInit, RegistryConsistent, Fit
<1>3. Sequence(constants)
  BY DEF RegistryInit, Sequence
<1> QED BY <1>1, <1>2, <1>3 DEF RegistryInvariant

-----------------------------------------------------------------------------
(* The operations *)

LEMMA MakePreserves ==
  ASSUME RegistryInvariant, NEW type \in NewTypes, Make(type)
  PROVE  RegistryInvariant'
<1>1. /\ types' \in Seq(TypeObject) /\ DOMAIN types' = DOMAIN types \cup {Len(types) + 1}
      /\ \A j \in DOMAIN types : types'[j] = types[j]
      /\ types'[Len(types) + 1] = type
      /\ Fit(types', hash2ptr, id2hash, typeIDs)
  BY AppendedFits DEF Make, RegistryInvariant
<1>2. RegistryTyped'
  BY <1>1, NewTypesTyped DEF Make, RegistryInvariant, RegistryTyped, registered
<1>3. RegistryConsistent'
  BY <1>1 DEF Make, RegistryInvariant, RegistryConsistent, registered
<1> QED BY <1>2, <1>3 DEF Make, RegistryInvariant, Sequence

LEMMA GetPreserves ==
  ASSUME RegistryInvariant, NEW type \in NewTypes, Get(type)
  PROVE  RegistryInvariant'
<1>1. /\ types' \in Seq(TypeObject) /\ DOMAIN types \subseteq DOMAIN types'
      /\ \A j \in DOMAIN types : types'[j] = types[j]
      /\ \A j \in DOMAIN types' \ DOMAIN types : types'[j] = type
      /\ Fit(types', hash2ptr, id2hash, typeIDs)
      /\ \A name \in DOMAIN cache' : cache'[name] \in DOMAIN types'
  BY Obtained DEF Get, RegistryInvariant
<1>2. RegistryTyped'
  BY <1>1, NewTypesTyped DEF Get, RegistryInvariant, RegistryTyped, registered
<1>3. RegistryConsistent'
  BY <1>1 DEF Get, RegistryInvariant, RegistryConsistent, registered
<1> QED BY <1>2, <1>3 DEF Get, RegistryInvariant, Sequence

\* The operations that use one of the objects and do not rename it.
LEMMA UsePreserves ==
  ASSUME RegistryInvariant, NEW k \in DOMAIN types,
         types' = TypesAfterID(types, k), Register(types, k),
         UNCHANGED << cache, enumerations >>,
         \/ constants' = constants
         \/ \E c : constants' = Append(constants, c) /\ c.type = IDOf(types, k)
  PROVE  RegistryInvariant'
<1>1. types \in Seq(TypeObject) /\ typeIDs \in [Kind -> Nat] /\ Fit(types, hash2ptr, id2hash, typeIDs)
      /\ \A name \in DOMAIN cache : cache[name] \in DOMAIN types
  BY DEF RegistryInvariant, RegistryTyped, RegistryConsistent
<1>2. /\ types' \in Seq(TypeObject) /\ DOMAIN types' = DOMAIN types
      /\ \A j \in DOMAIN types : types'[j].kind = types[j].kind /\ types'[j].content = types[j].content
  BY <1>1, Registered
<1>3. RegistryConsistent' /\ typeIDs' \in [Kind -> Nat] /\ Sequence(constants)'
  BY <1>1, <1>2, UsedConsistent
<1>4. RegistryTyped'
  BY <1>2, <1>3 DEF RegistryTyped, RegistryInvariant
<1> QED BY <1>3, <1>4 DEF RegistryInvariant

LEMMA RangeConstantPreserves ==
  ASSUME RegistryInvariant, NEW k \in DOMAIN types, NEW range \in Interval, RangeConstant(k, range)
  PROVE  RegistryInvariant'
<1> DEFINE us == TypesAfterID(types, k)
<1>1. types \in Seq(TypeObject) /\ typeIDs \in [Kind -> Nat] /\ Fit(types, hash2ptr, id2hash, typeIDs)
      /\ \A name \in DOMAIN cache : cache[name] \in DOMAIN types
  BY DEF RegistryInvariant, RegistryTyped, RegistryConsistent
<1>2. Register(types, k) /\ types[k].kind = "RANGE"
  BY DEF RangeConstant
<1>3. /\ us \in Seq(TypeObject) /\ DOMAIN us = DOMAIN types
      /\ \A j \in DOMAIN types : us[j].kind = types[j].kind /\ us[j].content = types[j].content
  BY <1>1, <1>2, Registered
<1>4. types' = [us EXCEPT ![k].content = range]
  BY DEF RangeConstant
<1> HIDE DEF us
<1>5. us[k] \in TypeObject
  BY <1>3
<1>6. types' = [us EXCEPT ![k] = [us[k] EXCEPT !.content = range]]
      /\ [us[k] EXCEPT !.content = range] \in TypeObject
  BY <1>4, <1>5 DEF TypeObject
<1>7. types' \in Seq(TypeObject) /\ DOMAIN types' = DOMAIN types
  BY <1>3, <1>6
<1>8. \A j \in DOMAIN types : /\ types'[j].kind = us[j].kind /\ types'[j].flavor = us[j].flavor
                              /\ j # k => types'[j].content = us[j].content
  BY <1>3, <1>5, <1>6 DEF TypeObject
<1>9. RegistryConsistent' /\ typeIDs' \in [Kind -> Nat] /\ Sequence(constants)'
  <2>1. \E c : constants' = Append(constants, c) /\ c.type = IDOf(types, k)
    BY DEF RangeConstant
  <2>2. cache' = cache
    BY DEF RangeConstant
  <2> QED BY <1>1, <1>2, <1>7, <1>8, <2>1, <2>2, UsedConsistent DEF us
<1>10. \A j \in DOMAIN types' : types'[j].kind = "ENUMERATION" => types'[j].content \in DOMAIN enumerations
  BY <1>2, <1>3, <1>7, <1>8 DEF RegistryInvariant, RegistryTyped
<1>11. RegistryTyped'
  BY <1>7, <1>9, <1>10 DEF RegistryTyped, RegistryInvariant, RangeConstant
<1> QED BY <1>9, <1>11 DEF RegistryInvariant

LEMMA EnumerationConstantOfPreserves ==
  ASSUME RegistryInvariant, NEW e \in DOMAIN enumerations, NEW value, EnumerationConstantOf(e, value)
  PROVE  RegistryInvariant'
<1> DEFINE type == EnumerationType(e)
           ts == TypesWith(type)
           k == Got(type)
<1>1. type \in NewTypes
  BY DEF NewTypes
<1> HIDE DEF type
<1>2. /\ ts \in Seq(TypeObject) /\ DOMAIN types \subseteq DOMAIN ts
      /\ \A j \in DOMAIN types : ts[j] = types[j]
      /\ \A j \in DOMAIN ts \ DOMAIN types : ts[j] = type
      /\ Fit(ts, hash2ptr, id2hash, typeIDs)
      /\ k \in DOMAIN ts
      /\ \A name \in DOMAIN CacheWith(type) : CacheWith(type)[name] \in DOMAIN ts
  BY <1>1, Obtained DEF RegistryInvariant
<1>3. /\ cache' = CacheWith(type) /\ types' = TypesAfterID(ts, k) /\ Register(ts, k)
      /\ \E c : constants' = Append(constants, c) /\ c.type = IDOf(ts, k)
      /\ enumerations' = enumerations
  BY DEF EnumerationConstantOf, type
<1> HIDE DEF ts, k
<1>4. typeIDs \in [Kind -> Nat]
  BY DEF RegistryInvariant, RegistryTyped
<1>5. /\ types' \in Seq(TypeObject) /\ DOMAIN types' = DOMAIN ts
      /\ \A j \in DOMAIN ts : types'[j].kind = ts[j].kind /\ types'[j].content = ts[j].content
  BY <1>2, <1>3, <1>4, Registered
<1>6. RegistryConsistent' /\ typeIDs' \in [Kind -> Nat] /\ Sequence(constants)'
  BY <1>2, <1>3, <1>5, UsedConsistent
<1>7. \A j \in DOMAIN ts : ts[j].kind = "ENUMERATION" => ts[j].content \in DOMAIN enumerations
  BY <1>1, <1>2, NewTypesTyped DEF RegistryInvariant, RegistryTyped
<1>8. RegistryTyped'
  BY <1>3, <1>5, <1>6, <1>7 DEF RegistryTyped, RegistryInvariant
<1> QED BY <1>6, <1>8 DEF RegistryInvariant

LEMMA NewEnumerationPreserves ==
  ASSUME RegistryInvariant, NEW name \in EnumName, NewEnumeration(name)
  PROVE  RegistryInvariant'
<1> DEFINE new == [name |-> name, values |-> << >>, uid |-> << >>]
<1>1. new \in Enumeration
  <2>1. << >> \in [{} -> 1 .. MaxContents] /\ {} \in SUBSET EnumValue
    OBVIOUS
  <2> QED BY <2>1 DEF Enumeration
<1>2. enumerations' = Append(enumerations, new) /\ enumerations \in Seq(Enumeration)
  BY DEF NewEnumeration, RegistryInvariant, RegistryTyped
<1> HIDE DEF new
<1>3. enumerations' \in Seq(Enumeration) /\ DOMAIN enumerations \subseteq DOMAIN enumerations'
  BY <1>1, <1>2
<1>4. RegistryTyped'
  BY <1>3 DEF NewEnumeration, RegistryInvariant, RegistryTyped, registered
<1>5. RegistryConsistent' /\ Sequence(constants)'
  BY DEF NewEnumeration, RegistryInvariant, RegistryConsistent, Sequence, registered
<1> QED BY <1>4, <1>5 DEF RegistryInvariant

LEMMA AddPreserves ==
  ASSUME RegistryInvariant, NEW e \in DOMAIN enumerations, NEW value \in EnumValue,
         Len(enumerations[e].values) < MaxContents, Add(e, value)
  PROVE  RegistryInvariant'
<1> DEFINE old == enumerations[e]
           uid == IF value \in DOMAIN old.uid THEN old.uid
                  ELSE Emplaced(old.uid, value, Len(old.values) + 1)
           new == [[old EXCEPT !.values = Append(old.values, value)] EXCEPT !.uid = uid]
<1>1. old \in Enumeration /\ enumerations \in Seq(Enumeration)
  BY DEF RegistryInvariant, RegistryTyped
<1>2. old.values \in Seq(EnumValue)
  BY <1>1 DEF Enumeration
<1>3. PICK V \in SUBSET EnumValue : old.uid \in [V -> 1 .. MaxContents]
  BY <1>1 DEF Enumeration
<1>4. Len(old.values) + 1 \in 1 .. MaxContents
  BY <1>2, RegistryAssumption
<1>5. \E W \in SUBSET EnumValue : uid \in [W -> 1 .. MaxContents]
  <2>1. CASE value \in DOMAIN old.uid
    BY <2>1, <1>3
  <2>2. CASE value \notin DOMAIN old.uid
    <3>1. uid \in [V \cup {value} -> 1 .. MaxContents]
      BY <2>2, <1>3, <1>4 DEF Emplaced
    <3> QED BY <3>1
  <2> QED BY <2>1, <2>2
<1> HIDE DEF uid
<1>6. new \in Enumeration
  <2>1. Append(old.values, value) \in Seq(EnumValue)
    BY <1>2
  <2>2. uid \in UNION { [W -> 1 .. MaxContents] : W \in SUBSET EnumValue }
    BY <1>5
  <2> QED BY <1>1, <2>1, <2>2 DEF Enumeration
<1>7. enumerations' = [enumerations EXCEPT ![e] = new]
  BY <1>1 DEF Add, uid, Enumeration
<1> HIDE DEF new
<1>8. enumerations' \in Seq(Enumeration) /\ DOMAIN enumerations' = DOMAIN enumerations
  BY <1>1, <1>6, <1>7
<1>9. RegistryTyped'
  BY <1>8 DEF Add, RegistryInvariant, RegistryTyped, registered
<1>10. RegistryConsistent' /\ Sequence(constants)'
  BY DEF Add, RegistryInvariant, RegistryConsistent, Sequence, registered
<1> QED BY <1>9, <1>10 DEF RegistryInvariant

LEMMA DrawingPreserves ==
  ASSUME RegistryInvariant, UNCHANGED << types, cache, registered, enumerations, constants >>
  PROVE  RegistryInvariant'
<1>1. RegistryTyped'
  BY DEF RegistryInvariant, RegistryTyped, registered
<1>2. RegistryConsistent' /\ Sequence(constants)'
  BY DEF RegistryInvariant, RegistryConsistent, Sequence, registered
<1> QED BY <1>1, <1>2 DEF RegistryInvariant

LEMMA InvariantPreserved == RegistryInvariant /\ [RegistryNext]_registryVars => RegistryInvariant'
<1> SUFFICES ASSUME RegistryInvariant, [RegistryNext]_registryVars PROVE RegistryInvariant'
  OBVIOUS
<1>1. CASE \E type \in NewTypes : Make(type) \/ Get(type)
  BY <1>1, MakePreserves, GetPreserves
<1>2. CASE \E k \in DOMAIN types : RegisterValue(k)
  BY <1>2, UsePreserves DEF RegisterValue
<1>3. CASE \E k \in DOMAIN types, range \in Interval : RangeConstant(k, range)
  BY <1>3, RangeConstantPreserves
<1>4. CASE \E k \in DOMAIN types, value \in EnumValue : EnumerationConstant(k, value)
  <2>1. PICK k \in DOMAIN types, value \in EnumValue : EnumerationConstant(k, value)
    BY <1>4
  <2>2. \E c : constants' = Append(constants, c) /\ c.type = IDOf(types, k)
    BY <2>1 DEF EnumerationConstant
  <2> QED BY <2>1, <2>2, UsePreserves DEF EnumerationConstant
<1>5. CASE \E k \in DOMAIN types, elements \in Elements : ListConstant(k, elements)
  <2>1. PICK k \in DOMAIN types, elements \in Elements : ListConstant(k, elements)
    BY <1>5
  <2>2. \E c : constants' = Append(constants, c) /\ c.type = IDOf(types, k)
    BY <2>1 DEF ListConstant
  <2> QED BY <2>1, <2>2, UsePreserves DEF ListConstant
<1>6. CASE \E e \in DOMAIN enumerations, value \in EnumValue : EnumerationConstantOf(e, value)
  BY <1>6, EnumerationConstantOfPreserves
<1>7. CASE \E name \in EnumName : NewEnumeration(name)
  BY <1>7, NewEnumerationPreserves
<1>8. CASE \E e \in DOMAIN enumerations, value \in EnumValue :
             Len(enumerations[e].values) < MaxContents /\ Add(e, value)
  BY <1>8, AddPreserves
<1>9. CASE \E i : Choose(i) \/ Draw(i)
  BY <1>9, DrawingPreserves DEF Choose, Draw
<1>10. CASE UNCHANGED registryVars
  BY <1>10, DrawingPreserves DEF registryVars
<1> QED BY <1>1, <1>2, <1>3, <1>4, <1>5, <1>6, <1>7, <1>8, <1>9, <1>10 DEF RegistryNext

LEMMA InvariantHolds == RegistrySpec => []RegistryInvariant
<1> QED BY InvariantInitially, InvariantPreserved, PTL DEF RegistrySpec

\* The objects, the enumerations and the numbers of IDs keep their types.
THEOREM RegistryIsTyped == RegistrySpec => []RegistryTyped
<1>1. RegistryInvariant => RegistryTyped
  BY DEF RegistryInvariant
<1> QED BY <1>1, InvariantHolds, PTL

\* The maps of the registry fit together whatever clients do, careful or not: the
\* assertions of id() and fromID() hold, and every value finds an object for its type.
THEOREM RegistryIsConsistent == RegistrySpec => []RegistryConsistent
<1>1. RegistryInvariant => RegistryConsistent
  BY DEF RegistryInvariant
<1> QED BY <1>1, InvariantHolds, PTL

-----------------------------------------------------------------------------
(* Steps *)

\* A step uses one of the objects ts, those before it or one more, or none.
StepFrom(ts) ==
  /\ ts \in Seq(TypeObject) /\ DOMAIN types \subseteq DOMAIN ts
  /\ \A j \in DOMAIN types : ts[j] = types[j]
  /\ \A j \in DOMAIN ts \ DOMAIN types : ts[j].flavor = 0 /\ Proper(ts[j])
  /\ \A j \in DOMAIN ts : ts[j].kind = "ENUMERATION" => ts[j].content \in DOMAIN enumerations
  /\ Fit(ts, hash2ptr, id2hash, typeIDs)
  /\ \A e \in DOMAIN enumerations : enumerations'[e].name = enumerations[e].name
  /\ \/ types' = ts /\ UNCHANGED registered
     \/ \E k \in DOMAIN ts : types' = TypesAfterID(ts, k) /\ Register(ts, k)

\* The name of the j-th object after the step.
NameAfter(j) == Name(types[j])'

LEMMA StandingStep ==
  ASSUME RegistryInvariant, UNCHANGED enumerations,
         \/ types' = types /\ UNCHANGED registered
         \/ \E k \in DOMAIN types : types' = TypesAfterID(types, k) /\ Register(types, k)
  PROVE  StepFrom(types)
BY DEF StepFrom, RegistryInvariant, RegistryTyped, RegistryConsistent

LEMMA EnumerationsStanding ==
  ASSUME RegistryInvariant, UNCHANGED << types, registered >>,
         \A e \in DOMAIN enumerations : enumerations'[e].name = enumerations[e].name
  PROVE  StepFrom(types)
BY DEF StepFrom, RegistryInvariant, RegistryTyped, RegistryConsistent

\* What Memory::get is called from is a step from the objects it leaves.
LEMMA ObtainingStep ==
  ASSUME RegistryInvariant, NEW type \in NewTypes, UNCHANGED enumerations,
         \/ types' = TypesWith(type) /\ UNCHANGED registered
         \/ /\ types' = TypesAfterID(TypesWith(type), Got(type))
            /\ Register(TypesWith(type), Got(type))
  PROVE  StepFrom(TypesWith(type)) /\ Got(type) \in DOMAIN TypesWith(type)
<1>1. Got(type) \in DOMAIN TypesWith(type)
  BY Obtained DEF RegistryInvariant
<1>2. StepFrom(TypesWith(type))
  BY <1>1, Obtained, NewTypesTyped DEF StepFrom, RegistryInvariant, RegistryTyped
<1> QED BY <1>1, <1>2

\* A step renames an object or is one of those.
LEMMA EveryStep ==
  ASSUME RegistryInvariant, [RegistryNext]_registryVars
  PROVE  \/ \E ts : StepFrom(ts)
         \/ \E k \in DOMAIN types, range \in Interval : RangeConstant(k, range)
<1>1. CASE \E type \in NewTypes : Make(type)
  <2>1. PICK type \in NewTypes : Make(type)
    BY <1>1
  <2>2. StepFrom(types')
    BY <2>1, AppendedFits, NewTypesTyped DEF Make, StepFrom, registered, RegistryInvariant, RegistryTyped
  <2> QED BY <2>2
<1>2. CASE \E type \in NewTypes : Get(type)
  BY <1>2, ObtainingStep DEF Get
<1>3. CASE \E k \in DOMAIN types : RegisterValue(k)
  BY <1>3, StandingStep DEF RegisterValue
<1>4. CASE \E k \in DOMAIN types, range \in Interval : RangeConstant(k, range)
  BY <1>4
<1>5. CASE \E k \in DOMAIN types, value \in EnumValue : EnumerationConstant(k, value)
  BY <1>5, StandingStep DEF EnumerationConstant
<1>6. CASE \E k \in DOMAIN types, elements \in Elements : ListConstant(k, elements)
  BY <1>6, StandingStep DEF ListConstant
<1>7. CASE \E e \in DOMAIN enumerations, value \in EnumValue : EnumerationConstantOf(e, value)
  <2>1. PICK e \in DOMAIN enumerations, value \in EnumValue : EnumerationConstantOf(e, value)
    BY <1>7
  <2> DEFINE type == EnumerationType(e)
             ts == TypesWith(type)
  <2>2. type \in NewTypes
    BY DEF NewTypes
  <2>3. types' = TypesAfterID(ts, Got(type)) /\ Register(ts, Got(type)) /\ enumerations' = enumerations
    BY <2>1 DEF EnumerationConstantOf
  <2> HIDE DEF type
  <2>4. StepFrom(ts)
    BY <2>2, <2>3, ObtainingStep
  <2> QED BY <2>4
<1>8. CASE \E name \in EnumName : NewEnumeration(name)
  <2>1. PICK name \in EnumName : NewEnumeration(name)
    BY <1>8
  <2>2. enumerations \in Seq(Enumeration)
    BY DEF RegistryInvariant, RegistryTyped
  <2>3. \E new : enumerations' = Append(enumerations, new)
    BY <2>1 DEF NewEnumeration
  <2>4. \A e \in DOMAIN enumerations : enumerations'[e].name = enumerations[e].name
    BY <2>2, <2>3
  <2> QED BY <2>1, <2>4, EnumerationsStanding DEF NewEnumeration
<1>9. CASE \E e \in DOMAIN enumerations, value \in EnumValue : Add(e, value)
  <2>1. PICK e \in DOMAIN enumerations, value \in EnumValue : Add(e, value)
    BY <1>9
  <2>2. enumerations \in Seq(Enumeration)
    BY DEF RegistryInvariant, RegistryTyped
  <2>3. \A f \in DOMAIN enumerations : enumerations[f] \in Enumeration
    BY <2>2
  <2>4. \A f \in DOMAIN enumerations : enumerations'[f].name = enumerations[f].name
    BY <2>1, <2>3 DEF Add, Enumeration
  <2> QED BY <2>1, <2>4, EnumerationsStanding DEF Add
<1>10. CASE \E i : Choose(i) \/ Draw(i)
  BY <1>10, StandingStep DEF Choose, Draw
<1>11. CASE UNCHANGED registryVars
  BY <1>11, StandingStep DEF registryVars
<1> QED BY <1>1, <1>2, <1>3, <1>4, <1>5, <1>6, <1>7, <1>8, <1>9, <1>10, <1>11 DEF RegistryNext

\* What such a step keeps: names, the objects and the names that were registered, and IDs.
LEMMA StepKeeps ==
  ASSUME RegistryInvariant, NEW ts, StepFrom(ts)
  PROVE  /\ \A j \in DOMAIN ts : /\ types'[j].kind = ts[j].kind
                                 /\ ~Enters(ts[j]) => types'[j].flavor = ts[j].flavor
         /\ \A j \in DOMAIN ts : NameAfter(j) = Name(ts[j])
         /\ DOMAIN types' = DOMAIN ts
         /\ \A n \in DOMAIN hash2ptr : n \in DOMAIN hash2ptr' /\ hash2ptr'[n] = hash2ptr[n]
         /\ \A id \in DOMAIN id2hash : id2hash'[id] = id2hash[id]
         /\ \A j \in DOMAIN ts : types'[j].flavor # ts[j].flavor =>
              id2hash'[OwnID(types'[j])] = Name(ts[j])
<1>1. ts \in Seq(TypeObject) /\ Fit(ts, hash2ptr, id2hash, typeIDs)
  BY DEF StepFrom
<1>2. \A j \in DOMAIN ts : ts[j] \in TypeObject
  BY <1>1
<1>3. ASSUME NEW j \in DOMAIN ts, types'[j].kind = ts[j].kind, types'[j].content = ts[j].content
      PROVE  NameAfter(j) = Name(ts[j])
  BY <1>3 DEF StepFrom, Name, NameAfter
<1>4. CASE types' = ts /\ UNCHANGED registered
  BY <1>3, <1>4 DEF registered
<1>5. CASE \E k \in DOMAIN ts : types' = TypesAfterID(ts, k) /\ Register(ts, k)
  <2>1. PICK k \in DOMAIN ts : types' = TypesAfterID(ts, k) /\ Register(ts, k)
    BY <1>5
  <2>2. CASE ~Enters(ts[k])
    BY <1>3, <2>1, <2>2 DEF registered, TypesAfterID, Register
  <2>3. CASE Enters(ts[k])
    <3> DEFINE kind == ts[k].kind
               n == typeIDs[kind] + 1
    <3>1. kind \in Kind /\ typeIDs[kind] \in Nat
      BY <1>2 DEF TypeObject, RegistryInvariant, RegistryTyped
    <3>2. /\ hash2ptr' = Emplaced(hash2ptr, Name(ts[k]), k)
          /\ id2hash' = Emplaced(id2hash, << kind, n >>, Name(ts[k]))
          /\ types' = [ts EXCEPT ![k].flavor = n]
      BY <2>1, <2>3 DEF Register, TypesAfterID, NextID
    <3>3. Name(ts[k]) \notin DOMAIN hash2ptr
      BY <2>3 DEF Enters
    <3>4. << kind, n >> \notin DOMAIN id2hash
      BY <1>1, <3>1 DEF Fit
    <3>5. /\ DOMAIN types' = DOMAIN ts
          /\ \A j \in DOMAIN ts : types'[j].kind = ts[j].kind /\ types'[j].content = ts[j].content
          /\ \A j \in DOMAIN ts : j # k => types'[j].flavor = ts[j].flavor
          /\ types'[k].flavor = n
      BY <1>1, <1>2, <3>2 DEF TypeObject
    <3>6. \A m \in DOMAIN hash2ptr : m \in DOMAIN hash2ptr' /\ hash2ptr'[m] = hash2ptr[m]
      BY <3>2, <3>3 DEF Emplaced
    <3>7. (\A id \in DOMAIN id2hash : id2hash'[id] = id2hash[id]) /\ id2hash'[<< kind, n >>] = Name(ts[k])
      BY <3>2, <3>4 DEF Emplaced
    <3>8. OwnID(types'[k]) = << kind, n >>
      BY <3>5 DEF OwnID
    <3>9. \A j \in DOMAIN ts : NameAfter(j) = Name(ts[j])
      BY <1>3, <3>5
    <3> QED BY <2>3, <3>5, <3>6, <3>7, <3>8, <3>9
  <2> QED BY <2>2, <2>3
<1> QED BY <1>4, <1>5 DEF StepFrom

\* The object a name is registered for has an ID.
LEMMA RegisteredHasID ==
  ASSUME NEW ts, Fit(ts, hash2ptr, id2hash, typeIDs), NEW name \in DOMAIN hash2ptr,
         typeIDs \in [Kind -> Nat]
  PROVE  hash2ptr[name] \in DOMAIN ts /\ ts[hash2ptr[name]].flavor # 0
<1>1. hash2ptr[name] \in DOMAIN ts /\ OwnID(ts[hash2ptr[name]]) \in DOMAIN id2hash
  BY DEF Fit
<1>2. OwnID(ts[hash2ptr[name]])[2] \in 1 .. typeIDs[OwnID(ts[hash2ptr[name]])[1]]
      /\ OwnID(ts[hash2ptr[name]])[1] \in Kind
  BY <1>1 DEF Fit
<1> QED BY <1>1, <1>2 DEF OwnID

-----------------------------------------------------------------------------
(* Any clients: an ID stays *)

\* What id() of the k-th object leaves alone: IDs that objects have, and what is registered.
LEMMA RegisteringKeeps ==
  ASSUME RegistryInvariant, NEW k \in DOMAIN types, Register(types, k)
  PROVE  /\ \A j \in DOMAIN types : ~Enters(types[j]) =>
              TypesAfterID(types, k)[j].flavor = types[j].flavor
         /\ \A n \in DOMAIN hash2ptr : n \in DOMAIN hash2ptr' /\ hash2ptr'[n] = hash2ptr[n]
         /\ \A j \in DOMAIN types : j # k => TypesAfterID(types, k)[j] = types[j]
<1>1. CASE ~Enters(types[k])
  BY <1>1 DEF TypesAfterID, Register, registered
<1>2. CASE Enters(types[k])
  <2>1. hash2ptr' = Emplaced(hash2ptr, Name(types[k]), k) /\ Name(types[k]) \notin DOMAIN hash2ptr
    BY <1>2 DEF Register, Enters
  <2>2. \A j \in DOMAIN types : j # k => TypesAfterID(types, k)[j] = types[j]
    BY <1>2 DEF TypesAfterID
  <2> QED BY <1>2, <2>1, <2>2 DEF Emplaced
<1> QED BY <1>1, <1>2

\* What no step changes, RangeConstant( type, from, to ) of any type included.
LEMMA IDsKept ==
  ASSUME RegistryInvariant, [RegistryNext]_registryVars
  PROVE  /\ \A j \in DOMAIN types :
              /\ types'[j].kind = types[j].kind
              /\ ~Enters(types[j]) => types'[j].flavor = types[j].flavor
         /\ \A n \in DOMAIN hash2ptr : n \in DOMAIN hash2ptr' /\ hash2ptr'[n] = hash2ptr[n]
<1>1. ASSUME NEW ts, StepFrom(ts)
      PROVE  /\ \A j \in DOMAIN types :
                  /\ types'[j].kind = types[j].kind
                  /\ ~Enters(types[j]) => types'[j].flavor = types[j].flavor
             /\ \A n \in DOMAIN hash2ptr : n \in DOMAIN hash2ptr' /\ hash2ptr'[n] = hash2ptr[n]
  BY <1>1, StepKeeps DEF StepFrom
<1>2. ASSUME NEW k \in DOMAIN types, NEW range \in Interval, RangeConstant(k, range)
      PROVE  /\ \A j \in DOMAIN types :
                  /\ types'[j].kind = types[j].kind
                  /\ ~Enters(types[j]) => types'[j].flavor = types[j].flavor
             /\ \A n \in DOMAIN hash2ptr : n \in DOMAIN hash2ptr' /\ hash2ptr'[n] = hash2ptr[n]
  <2> DEFINE us == TypesAfterID(types, k)
  <2>1. Register(types, k) /\ types' = [us EXCEPT ![k].content = range]
    BY <1>2 DEF RangeConstant
  <2>2. us \in Seq(TypeObject) /\ DOMAIN us = DOMAIN types
        /\ \A j \in DOMAIN types : us[j].kind = types[j].kind
    BY <2>1, Registered DEF RegistryInvariant, RegistryTyped, RegistryConsistent
  <2>3. \A j \in DOMAIN types : ~Enters(types[j]) => us[j].flavor = types[j].flavor
    BY <2>1, RegisteringKeeps
  <2>4. \A n \in DOMAIN hash2ptr : n \in DOMAIN hash2ptr' /\ hash2ptr'[n] = hash2ptr[n]
    BY <2>1, RegisteringKeeps
  <2> HIDE DEF us
  <2>5. \A j \in DOMAIN us : us[j] \in TypeObject
    BY <2>2
  <2>6. \A j \in DOMAIN types : types'[j].kind = us[j].kind /\ types'[j].flavor = us[j].flavor
    BY <2>1, <2>2, <2>5 DEF TypeObject
  <2> QED BY <2>2, <2>3, <2>4, <2>6
<1> QED BY <1>1, <1>2, EveryStep

\* An object that has an ID keeps it, and one that was given the ID of another object of
\* its name keeps that until it is renamed itself, also when the other one is renamed.
THEOREM IDsNeverChange == RegistrySpec => IDsStay
<1> DEFINE Stay == \A k \in DOMAIN types :
             ~Enters(types[k]) /\ (types[k].flavor # 0 \/ Name(types[k])' = Name(types[k])) =>
               IDOf(types, k)' = IDOf(types, k)
<1>1. ASSUME RegistryInvariant, [RegistryNext]_registryVars
      PROVE  Stay
  <2> SUFFICES ASSUME NEW k \in DOMAIN types, ~Enters(types[k]),
                      types[k].flavor # 0 \/ NameAfter(k) = Name(types[k])
               PROVE  IDOf(types, k)' = IDOf(types, k)
    BY DEF NameAfter
  <2>1. types'[k].kind = types[k].kind /\ types'[k].flavor = types[k].flavor
    BY <1>1, IDsKept
  <2>2. CASE types[k].flavor # 0
    BY <2>1, <2>2 DEF IDOf, OwnID
  <2>3. CASE types[k].flavor = 0
    <3> DEFINE name == Name(types[k])
               p == hash2ptr[name]
    <3>1. name \in DOMAIN hash2ptr /\ NameAfter(k) = name
      BY <2>3 DEF Enters
    <3>2. name \in DOMAIN hash2ptr' /\ hash2ptr'[name] = p
      BY <1>1, <3>1, IDsKept
    <3>3. p \in DOMAIN types /\ types[p].flavor # 0
      BY <1>1, <3>1, RegisteredHasID DEF RegistryInvariant, RegistryConsistent, RegistryTyped
    <3>4. types'[p].kind = types[p].kind /\ types'[p].flavor = types[p].flavor
      BY <1>1, <3>3, IDsKept DEF Enters
    <3>5. IDOf(types, k) = OwnID(types[p])
      BY <2>3, <3>1 DEF IDOf, Enters
    <3>6. IDOf(types, k)' = OwnID(types'[p])
      BY <2>1, <2>3, <3>1, <3>2 DEF IDOf, Enters, OwnID, NameAfter
    <3> QED BY <3>4, <3>5, <3>6 DEF OwnID
  <2> QED BY <2>2, <2>3
<1> QED BY <1>1, InvariantHolds, PTL DEF RegistrySpec, IDsStay

-----------------------------------------------------------------------------
(* An ID stands for one type until one is renamed *)

\* The types of the kind have the names they were made with: only range types are renamed.
Standing(kind) == kind = "RANGE" => NoneRenamed

\* An ID is of the kind of the name it was given for, and the object that has it is still
\* of that name.
Named ==
  /\ \A id \in DOMAIN id2hash : id2hash[id][1] = id[1]
  /\ \A k \in DOMAIN types : types[k].flavor # 0 /\ Standing(types[k].kind) =>
       id2hash[OwnID(types[k])] = Name(types[k])

\* The name and the kind of the ID that id() returns of the k-th of the objects ts.
LEMMA RegisteredName ==
  ASSUME typeIDs \in [Kind -> Nat], NEW ts \in Seq(TypeObject), NEW k \in DOMAIN ts,
         Fit(ts, hash2ptr, id2hash, typeIDs), Register(ts, k),
         \A id \in DOMAIN id2hash : id2hash[id][1] = id[1]
  PROVE  /\ IDOf(ts, k)[1] = ts[k].kind
         /\ ts[k].flavor = 0 \/ id2hash[OwnID(ts[k])] = Name(ts[k]) =>
              id2hash'[IDOf(ts, k)] = Name(ts[k])
         /\ \A id \in DOMAIN id2hash : id2hash'[id] = id2hash[id]
         /\ \A id \in DOMAIN id2hash' : id2hash'[id][1] = id[1]
<1>1. CASE Enters(ts[k])
  <2> DEFINE new == NextID(ts[k])
  <2>1. IDOf(ts, k) = new /\ new[1] = ts[k].kind /\ Name(ts[k])[1] = ts[k].kind
    BY <1>1 DEF IDOf, Enters, NextID, Name
  <2>2. new \notin DOMAIN id2hash
    <3>1. ts[k] \in TypeObject
      OBVIOUS
    <3>2. typeIDs[ts[k].kind] \in Nat
      BY <3>1 DEF TypeObject
    <3> QED BY <3>2 DEF Fit, NextID
  <2>3. id2hash' = Emplaced(id2hash, new, Name(ts[k]))
    BY <1>1 DEF Register
  <2> HIDE DEF new
  <2> QED BY <2>1, <2>2, <2>3 DEF Emplaced
<1>2. CASE ~Enters(ts[k])
  <2>1. id2hash' = id2hash
    BY <1>2 DEF Register, registered
  <2>2. CASE ts[k].flavor # 0
    BY <2>1, <2>2 DEF IDOf, OwnID
  <2>3. CASE ts[k].flavor = 0
    <3> DEFINE name == Name(ts[k])
               id == OwnID(ts[hash2ptr[name]])
    <3>1. name \in DOMAIN hash2ptr /\ IDOf(ts, k) = id
      BY <1>2, <2>3 DEF IDOf, Enters
    <3>2. id \in DOMAIN id2hash /\ id2hash[id] = name
      BY <3>1 DEF Fit
    <3>3. name[1] = ts[k].kind
      BY DEF Name
    <3> HIDE DEF name, id
    <3> QED BY <2>1, <3>1, <3>2, <3>3 DEF name
  <2> QED BY <2>2, <2>3
<1> QED BY <1>1, <1>2

\* The names of IDs, and constants, are kept, and their number is only added to.
LEMMA ValuesKept ==
  ASSUME RegistryInvariant, Named, [RegistryNext]_registryVars
  PROVE  /\ \A id \in DOMAIN id2hash : id2hash'[id] = id2hash[id]
         /\ \A id \in DOMAIN id2hash' : id2hash'[id][1] = id[1]
         /\ \A i \in DOMAIN constants : i \in DOMAIN constants' /\ constants'[i] = constants[i]
<1>1. types \in Seq(TypeObject) /\ typeIDs \in [Kind -> Nat] /\ Fit(types, hash2ptr, id2hash, typeIDs)
      /\ \A id \in DOMAIN id2hash : id2hash[id][1] = id[1]
  BY DEF RegistryInvariant, RegistryTyped, RegistryConsistent, Named
<1>2. (\A id \in DOMAIN id2hash : id2hash'[id] = id2hash[id])
      /\ \A id \in DOMAIN id2hash' : id2hash'[id][1] = id[1]
  <2>1. CASE \E ts : StepFrom(ts)
    <3>1. PICK ts : StepFrom(ts)
      BY <2>1
    <3>2. ts \in Seq(TypeObject) /\ Fit(ts, hash2ptr, id2hash, typeIDs)
          /\ (id2hash' = id2hash \/ \E k \in DOMAIN ts : Register(ts, k))
      BY <3>1 DEF StepFrom, registered
    <3> QED BY <1>1, <3>2, RegisteredName
  <2>2. CASE \E k \in DOMAIN types, range \in Interval : RangeConstant(k, range)
    BY <1>1, <2>2, RegisteredName DEF RangeConstant
  <2> QED BY <2>1, <2>2, EveryStep
<1>3. constants' = constants \/ \E c : constants' = Append(constants, c)
  BY DEF RegistryNext, registryVars, Make, Get, RegisterValue, RangeConstant, EnumerationConstant,
         EnumerationConstantOf, ListConstant, NewEnumeration, Add, Choose, Draw
<1>4. \A i \in DOMAIN constants : i \in DOMAIN constants' /\ constants'[i] = constants[i]
  BY <1>3, AppendSequence DEF RegistryInvariant
<1> QED BY <1>2, <1>4

\* A type that was renamed stays so.
LEMMA RenamedForGood ==
  ASSUME RegistryInvariant, Named, [RegistryNext]_registryVars, NoneRenamed'
  PROVE  NoneRenamed
<1> SUFFICES ASSUME NEW i \in DOMAIN constants, constants[i].type[1] = "RANGE"
             PROVE  id2hash[constants[i].type][2] = constants[i].of
  BY DEF NoneRenamed
<1>1. i \in DOMAIN constants' /\ constants'[i] = constants[i]
  BY ValuesKept
<1>2. id2hash'[constants[i].type] = id2hash[constants[i].type]
  BY ValuesKept DEF RegistryInvariant, RegistryConsistent
<1>3. id2hash'[constants'[i].type][2] = constants'[i].of
  BY <1>1 DEF NoneRenamed
<1> QED BY <1>1, <1>2, <1>3

\* RangeConstant( type, from, to ) sets the range of the one object.
LEMMA RenamesOne ==
  ASSUME RegistryInvariant, NEW k \in DOMAIN types, NEW range \in Interval, RangeConstant(k, range)
  PROVE  /\ DOMAIN types' = DOMAIN types
         /\ \A j \in DOMAIN types : j # k => types'[j] = types[j]
         /\ types'[k].kind = "RANGE" /\ types'[k].content = range
<1> DEFINE us == TypesAfterID(types, k)
<1>1. Register(types, k) /\ types' = [us EXCEPT ![k].content = range] /\ types[k].kind = "RANGE"
  BY DEF RangeConstant
<1>2. /\ us \in Seq(TypeObject) /\ DOMAIN us = DOMAIN types
      /\ \A j \in DOMAIN types : us[j].kind = types[j].kind
  BY <1>1, Registered DEF RegistryInvariant, RegistryTyped, RegistryConsistent
<1>3. \A j \in DOMAIN types : j # k => us[j] = types[j]
  BY <1>1, RegisteringKeeps
<1> HIDE DEF us
<1>4. us[k] \in TypeObject
  BY <1>2
<1>5. types' = [us EXCEPT ![k] = [us[k] EXCEPT !.content = range]]
  BY <1>1
<1> QED BY <1>1, <1>2, <1>3, <1>4, <1>5 DEF TypeObject

\* RangeConstant( type, from, to ) renames a type that has another range, for good.
LEMMA RangeConstantStep ==
  ASSUME RegistryInvariant, Named, [RegistryNext]_registryVars, NoneRenamed',
         NEW k \in DOMAIN types, NEW range \in Interval, RangeConstant(k, range)
  PROVE  StepFrom(types)
<1> DEFINE us == TypesAfterID(types, k)
           c == [type |-> IDOf(types, k), data |-> 0, of |-> range]
<1>1. Register(types, k) /\ types' = [us EXCEPT ![k].content = range]
      /\ enumerations' = enumerations /\ types[k].kind = "RANGE" /\ constants' = Append(constants, c)
  BY DEF RangeConstant
<1>2. us \in Seq(TypeObject) /\ k \in DOMAIN us /\ us[k].content = types[k].content
  BY <1>1, Registered DEF RegistryInvariant, RegistryTyped, RegistryConsistent
<1> HIDE DEF us
<1>3. types[k].content = range
  <2>1. NoneRenamed
    BY RenamedForGood
  <2>2. types[k].flavor # 0 => id2hash[OwnID(types[k])] = Name(types[k])
    BY <2>1 DEF Named, Standing
  <2>3. id2hash'[IDOf(types, k)] = Name(types[k]) /\ IDOf(types, k)[1] = "RANGE"
    BY <1>1, <2>2, RegisteredName
       DEF Named, RegistryInvariant, RegistryTyped, RegistryConsistent
  <2>4. c.type = IDOf(types, k) /\ c.of = range
    OBVIOUS
  <2> HIDE DEF c
  <2>5. \E i \in DOMAIN constants' : constants'[i] = c
    BY <1>1, AppendSequence DEF RegistryInvariant
  <2>6. id2hash'[IDOf(types, k)][2] = range
    BY <2>3, <2>4, <2>5 DEF NoneRenamed
  <2>7. Name(types[k])[2] = types[k].content
    BY <1>1 DEF Name
  <2> QED BY <2>3, <2>6, <2>7
<1>4. us[k] \in TypeObject
  BY <1>2
<1>5. [us[k] EXCEPT !.content = range] = us[k]
  BY <1>2, <1>3, <1>4 DEF TypeObject
<1>6. types' = us
  BY <1>1, <1>2, <1>5
<1> QED BY <1>1, <1>6, StandingStep DEF us

\* While no type of its kind is renamed an object keeps its name.
LEMMA NamesKept ==
  ASSUME RegistryInvariant, Named, [RegistryNext]_registryVars, NEW j \in DOMAIN types
  PROVE  /\ j \in DOMAIN types' /\ types'[j].kind = types[j].kind
         /\ (types[j].kind = "RANGE" => NoneRenamed') =>
              Standing(types[j].kind) /\ NameAfter(j) = Name(types[j])
<1>1. CASE \E ts : StepFrom(ts)
  <2>1. PICK ts : StepFrom(ts)
    BY <1>1
  <2>2. j \in DOMAIN ts /\ ts[j] = types[j]
    BY <2>1 DEF StepFrom
  <2> QED BY <2>1, <2>2, StepKeeps, RenamedForGood DEF Standing
<1>2. CASE ~(\E ts : StepFrom(ts))
  <2>1. PICK k \in DOMAIN types, range \in Interval : RangeConstant(k, range)
    BY <1>2, EveryStep
  <2>2. ~NoneRenamed'
    BY <1>2, <2>1, RangeConstantStep
  <2>3. /\ DOMAIN types' = DOMAIN types /\ (j # k => types'[j] = types[j])
        /\ types[k].kind = "RANGE" /\ enumerations' = enumerations
    BY <2>1, RenamesOne DEF RangeConstant
  <2>4. types'[j].kind = types[j].kind
    BY IDsKept
  <2>5. j # k => NameAfter(j) = Name(types[j])
    BY <2>3 DEF NameAfter, Name
  <2> QED BY <2>2, <2>3, <2>4, <2>5 DEF Standing
<1> QED BY <1>1, <1>2

LEMMA NamedPreserved ==
  ASSUME RegistryInvariant, Named, [RegistryNext]_registryVars
  PROVE  Named'
<1>1. \A id \in DOMAIN id2hash' : id2hash'[id][1] = id[1]
  BY ValuesKept
<1>2. ASSUME NEW j \in DOMAIN types', types'[j].flavor # 0, types'[j].kind = "RANGE" => NoneRenamed'
      PROVE  id2hash'[OwnID(types'[j])] = NameAfter(j)
  <2>1. ASSUME j \in DOMAIN types, types'[j].flavor = types[j].flavor
        PROVE  id2hash'[OwnID(types'[j])] = NameAfter(j)
    <3>1. types'[j].kind = types[j].kind /\ Standing(types[j].kind) /\ NameAfter(j) = Name(types[j])
      BY <1>2, <2>1, NamesKept
    <3>2. OwnID(types'[j]) = OwnID(types[j])
      BY <2>1, <3>1 DEF OwnID
    <3>3. OwnID(types[j]) \in DOMAIN id2hash
      BY <1>2, <2>1 DEF RegistryInvariant, RegistryConsistent, Fit
    <3>4. id2hash'[OwnID(types[j])] = id2hash[OwnID(types[j])]
      BY <3>3, ValuesKept
    <3>5. id2hash[OwnID(types[j])] = Name(types[j])
      BY <1>2, <2>1, <3>1 DEF Named
    <3> QED BY <3>1, <3>2, <3>4, <3>5
  <2>2. CASE \E ts : StepFrom(ts)
    <3>1. PICK ts : StepFrom(ts)
      BY <2>2
    <3>2. j \in DOMAIN ts /\ NameAfter(j) = Name(ts[j])
      BY <3>1, StepKeeps
    <3>3. CASE types'[j].flavor # ts[j].flavor
      BY <3>1, <3>2, <3>3, StepKeeps
    <3>4. CASE types'[j].flavor = ts[j].flavor
      <4>1. j \in DOMAIN types /\ ts[j] = types[j]
        BY <1>2, <3>1, <3>2, <3>4 DEF StepFrom
      <4> QED BY <2>1, <3>4, <4>1
    <3> QED BY <3>3, <3>4
  <2>3. CASE ~(\E ts : StepFrom(ts))
    <3>1. PICK k \in DOMAIN types, range \in Interval : RangeConstant(k, range)
      BY <2>3, EveryStep
    <3>2. ~NoneRenamed'
      BY <2>3, <3>1, RangeConstantStep
    <3>3. j \in DOMAIN types /\ types'[j] = types[j]
      BY <1>2, <3>1, <3>2, RenamesOne
    <3> QED BY <2>1, <3>3
  <2> QED BY <2>2, <2>3
<1> QED BY <1>1, <1>2 DEF Named, Standing, OwnID, NameAfter

LEMMA NamedHolds == RegistrySpec => []Named
<1>1. RegistryInit => Named
  BY DEF RegistryInit, Named
<1>2. RegistryInvariant /\ Named /\ [RegistryNext]_registryVars => Named'
  BY NamedPreserved
<1> QED BY <1>1, <1>2, InvariantHolds, PTL DEF RegistrySpec

\* Two objects whose IDs are known have one ID exactly when they have one name, so that
\* a value, which keeps the ID of its type and no object, keeps its type, while none of
\* the types is renamed.
THEOREM IDsAreTypes == RegistrySpec => []EqualTypesShareID
<1> DEFINE Known(k) == types[k].flavor # 0 \/ ~Enters(types[k])
<1>1. ASSUME RegistryInvariant, Named
      PROVE  EqualTypesShareID
  <2> SUFFICES ASSUME NoneRenamed
               PROVE  EqualTypesShareID
    BY DEF EqualTypesShareID
  <2>1. Fit(types, hash2ptr, id2hash, typeIDs) /\ typeIDs \in [Kind -> Nat]
    BY <1>1 DEF RegistryInvariant, RegistryConsistent, RegistryTyped
  <2>2. ASSUME NEW k \in DOMAIN types, Known(k)
        PROVE  /\ Name(types[k]) \in DOMAIN hash2ptr
               /\ IDOf(types, k) = OwnID(types[hash2ptr[Name(types[k])]])
               /\ id2hash[IDOf(types, k)] = Name(types[k])
    <3>1. CASE types[k].flavor # 0
      <4>1. /\ OwnID(types[k]) \in DOMAIN id2hash /\ hash2ptr[id2hash[OwnID(types[k])]] = k
            /\ id2hash[OwnID(types[k])] \in DOMAIN hash2ptr
        BY <2>1, <3>1 DEF Fit
      <4>2. id2hash[OwnID(types[k])] = Name(types[k])
        BY <1>1, <3>1 DEF Named, Standing
      <4> QED BY <3>1, <4>1, <4>2 DEF IDOf
    <3>2. CASE types[k].flavor = 0
      <4>1. Name(types[k]) \in DOMAIN hash2ptr /\ ~Enters(types[k])
        BY <2>2, <3>2 DEF Enters
      <4>2. IDOf(types, k) = OwnID(types[hash2ptr[Name(types[k])]])
        BY <3>2, <4>1 DEF IDOf
      <4> QED BY <2>1, <4>1, <4>2 DEF Fit
    <3> QED BY <3>1, <3>2
  <2> QED BY <2>2 DEF EqualTypesShareID
<1> QED BY <1>1, InvariantHolds, NamedHolds, PTL

-----------------------------------------------------------------------------
(* Constants keep what they were made of *)

\* No two enumerations have one name.
NamesDiffer ==
  \A e, f \in DOMAIN enumerations : enumerations[e].name = enumerations[f].name => e = f

\* The uid of a value is a position at which the enumeration has it; all of them have one.
NumberedIn(enum) ==
  /\ \A value \in DOMAIN enum.uid :
       enum.uid[value] \in DOMAIN enum.values /\ enum.values[enum.uid[value]] = value
  /\ \A i \in DOMAIN enum.values : enum.values[i] \in DOMAIN enum.uid

Numbered == \A e \in DOMAIN enumerations : NumberedIn(enumerations[e])

\* The objects in the cache are of the names they are found by.
CacheNamed == \A name \in DOMAIN cache :
  types[cache[name]].kind = name[1] /\ (Standing(name[1]) => Name(types[cache[name]]) = name)

\* The name its type ID was given for and the uids of values tell what the constant is of.
Tells(c, names, enums) ==
  /\ c.type[1] = "RANGE" => c.of \in Interval
  /\ c.type[1] = "ENUMERATION" => \E e \in DOMAIN enums :
       /\ names[c.type][2] = enums[e].name
       /\ c.of \in DOMAIN enums[e].uid /\ c.data = enums[e].uid[c.of]

ConstantsTold == \A i \in DOMAIN constants : Tells(constants[i], id2hash, enumerations)

ContentsProper == \A k \in DOMAIN types : Proper(types[k])

ContentInvariant ==
  NamesDiffer /\ Numbered /\ CacheNamed /\ ConstantsTold /\ ContentsProper

\* No enumeration loses its name, or a value or its uid.
Grown(enums, more) ==
  /\ DOMAIN enums \subseteq DOMAIN more
  /\ \A e \in DOMAIN enums :
       /\ more[e].name = enums[e].name
       /\ \A value \in DOMAIN enums[e].uid :
            value \in DOMAIN more[e].uid /\ more[e].uid[value] = enums[e].uid[value]

LEMMA NothingGrows ==
  ASSUME UNCHANGED enumerations, NamesDiffer, Numbered
  PROVE  Grown(enumerations, enumerations') /\ NamesDiffer' /\ Numbered'
BY DEF Grown, NamesDiffer, Numbered

LEMMA NewEnumerationGrows ==
  ASSUME RegistryInvariant, Careful, NamesDiffer, Numbered,
         NEW name \in EnumName, NewEnumeration(name)
  PROVE  Grown(enumerations, enumerations') /\ NamesDiffer' /\ Numbered'
<1> DEFINE new == [name |-> name, values |-> << >>, uid |-> << >>]
           more == Append(enumerations, new)
<1>1. enumerations \in Seq(Enumeration) /\ enumerations' = more
  BY DEF RegistryInvariant, RegistryTyped, NewEnumeration
<1>2. new.name = name /\ NumberedIn(new)
  BY DEF NumberedIn
<1> HIDE DEF new
<1>3. /\ DOMAIN more = DOMAIN enumerations \cup {Len(enumerations) + 1}
      /\ \A e \in DOMAIN enumerations : more[e] = enumerations[e]
      /\ more[Len(enumerations) + 1] = new
  BY <1>1
<1> HIDE DEF more
<1>4. \A e \in DOMAIN enumerations : enumerations[e].name # name
  BY DEF NewEnumeration
<1>5. Grown(enumerations, more)
  BY <1>3 DEF Grown
<1>6. NamesDiffer'
  BY <1>1, <1>2, <1>3, <1>4 DEF NamesDiffer
<1>7. Numbered'
  BY <1>1, <1>2, <1>3 DEF Numbered
<1> QED BY <1>1, <1>5, <1>6, <1>7

LEMMA AddGrows ==
  ASSUME RegistryInvariant, NamesDiffer, Numbered,
         NEW e \in DOMAIN enumerations, NEW value \in EnumValue, Add(e, value)
  PROVE  Grown(enumerations, enumerations') /\ NamesDiffer' /\ Numbered'
<1> DEFINE old == enumerations[e]
           n == Len(old.values) + 1
           new == enumerations'[e]
<1>1. enumerations \in Seq(Enumeration)
  BY DEF RegistryInvariant, RegistryTyped
<1>2. /\ old.values \in Seq(EnumValue)
      /\ old = [name |-> old.name, values |-> old.values, uid |-> old.uid]
  <2>1. old \in Enumeration
    BY <1>1
  <2> QED BY <2>1 DEF Enumeration
<1>3. /\ DOMAIN enumerations' = DOMAIN enumerations
      /\ \A f \in DOMAIN enumerations : f # e => enumerations'[f] = enumerations[f]
  BY DEF Add
<1>4. /\ new.name = old.name
      /\ new.values = Append(old.values, value)
      /\ new.uid = IF value \in DOMAIN old.uid THEN old.uid ELSE Emplaced(old.uid, value, n)
  BY <1>2 DEF Add
<1>5. /\ DOMAIN new.values = DOMAIN old.values \cup {n}
      /\ \A k \in DOMAIN old.values : new.values[k] = old.values[k]
      /\ new.values[n] = value
  BY <1>2, <1>4
<1>6. \A v \in DOMAIN old.uid : v \in DOMAIN new.uid /\ new.uid[v] = old.uid[v]
  BY <1>4 DEF Emplaced
<1>7. \A v \in DOMAIN new.uid : v \in DOMAIN old.uid \/ (v = value /\ new.uid[v] = n)
  BY <1>4 DEF Emplaced
<1> HIDE DEF old, n, new
<1>8. /\ \A v \in DOMAIN old.uid : old.uid[v] \in DOMAIN old.values /\ old.values[old.uid[v]] = v
      /\ \A k \in DOMAIN old.values : old.values[k] \in DOMAIN old.uid
  BY DEF Numbered, NumberedIn, old
<1>9. NumberedIn(new)
  <2>1. \A v \in DOMAIN new.uid : new.uid[v] \in DOMAIN new.values /\ new.values[new.uid[v]] = v
    BY <1>5, <1>6, <1>7, <1>8
  <2>2. value \in DOMAIN new.uid
    BY <1>4 DEF Emplaced
  <2>3. \A k \in DOMAIN new.values : new.values[k] \in DOMAIN new.uid
    BY <1>5, <1>6, <1>8, <2>2
  <2> QED BY <2>1, <2>3 DEF NumberedIn
<1>10. Grown(enumerations, enumerations')
  BY <1>3, <1>4, <1>6 DEF Grown, old, new
<1>11. \A f \in DOMAIN enumerations : enumerations'[f].name = enumerations[f].name
  BY <1>10 DEF Grown
<1>12. NamesDiffer'
  BY <1>3, <1>11 DEF NamesDiffer
<1>13. Numbered'
  BY <1>3, <1>9 DEF Numbered, new
<1> QED BY <1>10, <1>12, <1>13

\* Enumerations never lose what they have, and it stays told apart.
LEMMA EnumerationsGrow ==
  ASSUME RegistryInvariant, Careful, NamesDiffer, Numbered, [RegistryNext]_registryVars
  PROVE  Grown(enumerations, enumerations') /\ NamesDiffer' /\ Numbered'
<1>1. CASE \E name \in EnumName : NewEnumeration(name)
  BY <1>1, NewEnumerationGrows
<1>2. CASE \E e \in DOMAIN enumerations, value \in EnumValue : Add(e, value)
  BY <1>2, AddGrows
<1>3. CASE UNCHANGED enumerations
  BY <1>3, NothingGrows
<1>4. (\E name \in EnumName : NewEnumeration(name))
      \/ (\E e \in DOMAIN enumerations, value \in EnumValue : Add(e, value))
      \/ UNCHANGED enumerations
  BY DEF RegistryNext, registryVars, Make, Get, RegisterValue, RangeConstant, EnumerationConstant,
         EnumerationConstantOf, ListConstant, Choose, Draw
<1> QED BY <1>1, <1>2, <1>3, <1>4

-----------------------------------------------------------------------------

\* A step that makes a constant of the k-th of the objects ts: id() is called of it.
LEMMA UsedName ==
  ASSUME RegistryInvariant, Named, NEW ts, StepFrom(ts), NEW k \in DOMAIN ts, Register(ts, k)
  PROVE  /\ IDOf(ts, k)[1] = ts[k].kind
         /\ ts[k].kind # "RANGE" => id2hash'[IDOf(ts, k)] = Name(ts[k])
<1>1. ts \in Seq(TypeObject) /\ Fit(ts, hash2ptr, id2hash, typeIDs) /\ typeIDs \in [Kind -> Nat]
  BY DEF StepFrom, RegistryInvariant, RegistryTyped
<1>2. ts[k].kind # "RANGE" => ts[k].flavor = 0 \/ id2hash[OwnID(ts[k])] = Name(ts[k])
  <2>1. CASE k \in DOMAIN types
    BY <2>1 DEF StepFrom, Named, Standing
  <2>2. CASE k \notin DOMAIN types
    BY <2>2 DEF StepFrom
  <2> QED BY <2>1, <2>2
<1> QED BY <1>1, <1>2, RegisteredName DEF Named

\* Memory::get keeps finding objects by their names.
LEMMA CachingKeepsNames ==
  ASSUME RegistryInvariant, Named, CacheNamed, [RegistryNext]_registryVars, NEW type \in NewTypes,
         StepFrom(TypesWith(type)), cache' = CacheWith(type)
  PROVE  CacheNamed'
<1> DEFINE n == Len(types) + 1
<1>1. \A name \in DOMAIN cache : cache[name] \in DOMAIN types
  BY DEF RegistryInvariant, RegistryConsistent
<1> SUFFICES ASSUME NEW name \in DOMAIN cache', NEW j, j = cache'[name]
             PROVE  types'[j].kind = name[1] /\ ((name[1] = "RANGE" => NoneRenamed') => NameAfter(j) = name)
  BY DEF CacheNamed, Standing, NameAfter
<1>2. CASE name \in DOMAIN cache /\ j = cache[name]
  BY <1>1, <1>2, NamesKept DEF CacheNamed
<1>3. CASE ~Cached(type) /\ name = Name(type) /\ j = n
  <2>1. n \in DOMAIN TypesWith(type) /\ TypesWith(type)[n] = type
    BY <1>3, AppendedFits DEF TypesWith, RegistryInvariant
  <2>2. name[1] = type.kind
    BY <1>3 DEF Name
  <2> HIDE DEF n
  <2> QED BY <1>3, <2>1, <2>2, StepKeeps
<1>4. (name \in DOMAIN cache /\ j = cache[name]) \/ (~Cached(type) /\ name = Name(type) /\ j = n)
  BY DEF CacheWith, Emplaced
<1> QED BY <1>2, <1>3, <1>4

LEMMA CacheNamedPreserved ==
  ASSUME RegistryInvariant, Named, CacheNamed, [RegistryNext]_registryVars
  PROVE  CacheNamed'
<1>1. CASE \E type \in NewTypes : Get(type)
  <2>1. PICK type \in NewTypes : Get(type)
    BY <1>1
  <2>2. StepFrom(TypesWith(type)) /\ cache' = CacheWith(type)
    BY <2>1, ObtainingStep DEF Get
  <2> QED BY <2>2, CachingKeepsNames
<1>2. CASE \E e \in DOMAIN enumerations, value \in EnumValue : EnumerationConstantOf(e, value)
  <2>1. PICK e \in DOMAIN enumerations, value \in EnumValue : EnumerationConstantOf(e, value)
    BY <1>2
  <2> DEFINE type == EnumerationType(e)
  <2>2. type \in NewTypes
    BY DEF NewTypes
  <2>3. /\ types' = TypesAfterID(TypesWith(type), Got(type)) /\ Register(TypesWith(type), Got(type))
        /\ enumerations' = enumerations /\ cache' = CacheWith(type)
    BY <2>1 DEF EnumerationConstantOf
  <2> HIDE DEF type
  <2>4. StepFrom(TypesWith(type))
    BY <2>2, <2>3, ObtainingStep
  <2> QED BY <2>2, <2>3, <2>4, CachingKeepsNames
<1>3. CASE UNCHANGED cache
  <2> SUFFICES ASSUME NEW name \in DOMAIN cache, NEW j, j = cache[name]
               PROVE  /\ types'[j].kind = name[1]
                      /\ (name[1] = "RANGE" => NoneRenamed') => NameAfter(j) = name
    BY <1>3 DEF CacheNamed, Standing, NameAfter
  <2>1. j \in DOMAIN types
    BY DEF RegistryInvariant, RegistryConsistent
  <2> QED BY <2>1, NamesKept DEF CacheNamed
<1>4. \/ \E type \in NewTypes : Get(type)
      \/ \E e \in DOMAIN enumerations, value \in EnumValue : EnumerationConstantOf(e, value)
      \/ UNCHANGED cache
  BY DEF RegistryNext, registryVars, Make, RegisterValue, RangeConstant, EnumerationConstant,
         ListConstant, NewEnumeration, Add, Choose, Draw
<1> QED BY <1>1, <1>2, <1>3, <1>4

-----------------------------------------------------------------------------

\* A constant that tells what it is of still does when names stay and enumerations grow.
LEMMA StillTells ==
  ASSUME NEW c, NEW names, NEW names2, NEW enums, NEW more,
         Tells(c, names, enums), names2[c.type] = names[c.type], Grown(enums, more)
  PROVE  Tells(c, names2, more)
<1>1. CASE c.type[1] = "ENUMERATION"
  <2>1. PICK e \in DOMAIN enums : /\ names[c.type][2] = enums[e].name
                                  /\ c.of \in DOMAIN enums[e].uid /\ c.data = enums[e].uid[c.of]
    BY <1>1 DEF Tells
  <2>2. e \in DOMAIN more /\ more[e].name = enums[e].name
        /\ c.of \in DOMAIN more[e].uid /\ more[e].uid[c.of] = enums[e].uid[c.of]
    BY <2>1 DEF Grown
  <2> QED BY <1>1, <2>1, <2>2 DEF Tells
<1>2. CASE c.type[1] # "ENUMERATION"
  BY <1>2 DEF Tells
<1> QED BY <1>1, <1>2

\* The constant a step adds, if any, tells what it is of.
AddsTelling ==
  \/ constants' = constants
  \/ \E c : constants' = Append(constants, c) /\ Tells(c, id2hash', enumerations')

LEMMA RangeConstantTells ==
  ASSUME RegistryInvariant, Named, NEW k \in DOMAIN types, NEW range \in Interval,
         RangeConstant(k, range)
  PROVE  AddsTelling
<1> DEFINE c == [type |-> IDOf(types, k), data |-> 0, of |-> range]
<1>1. Register(types, k) /\ types[k].kind = "RANGE" /\ constants' = Append(constants, c)
  BY DEF RangeConstant
<1>2. IDOf(types, k)[1] = "RANGE"
  BY <1>1, RegisteredName DEF Named, RegistryInvariant, RegistryTyped, RegistryConsistent
<1>3. c.type = IDOf(types, k) /\ c.of = range
  OBVIOUS
<1> HIDE DEF c
<1>4. Tells(c, id2hash', enumerations')
  BY <1>2, <1>3 DEF Tells
<1> QED BY <1>1, <1>4 DEF AddsTelling

\* A constant of the k-th of the objects ts, of a value of its enumeration.
LEMMA EnumeratedTells ==
  ASSUME RegistryInvariant, Named, NEW ts, StepFrom(ts), NEW k \in DOMAIN ts, Register(ts, k),
         UNCHANGED enumerations, ts[k].kind = "ENUMERATION",
         NEW value \in DOMAIN enumerations[ts[k].content].uid,
         NEW c, c.type = IDOf(ts, k), c.of = value, c.data = enumerations[ts[k].content].uid[value]
  PROVE  Tells(c, id2hash', enumerations')
<1>1. id2hash'[c.type] = Name(ts[k]) /\ c.type[1] = "ENUMERATION"
  BY UsedName
<1>2. Name(ts[k])[2] = enumerations[ts[k].content].name /\ ts[k].content \in DOMAIN enumerations
  BY DEF Name, StepFrom
<1> QED BY <1>1, <1>2 DEF Tells

LEMMA ListConstantTells ==
  ASSUME RegistryInvariant, Named, NEW k \in DOMAIN types, NEW elements, ListConstant(k, elements)
  PROVE  AddsTelling
<1> DEFINE c == [type |-> IDOf(types, k), data |-> elements, of |-> elements]
<1>1. StepFrom(types) /\ Register(types, k)
  BY StandingStep DEF ListConstant
<1>2. IDOf(types, k)[1] = types[k].kind
  BY <1>1, UsedName
<1>3. types[k].kind = "LIST" /\ constants' = Append(constants, c) /\ c.type = IDOf(types, k)
  BY DEF ListConstant
<1> HIDE DEF c
<1>4. Tells(c, id2hash', enumerations')
  BY <1>2, <1>3 DEF Tells
<1> QED BY <1>3, <1>4 DEF AddsTelling

LEMMA EnumerationConstantTells ==
  ASSUME RegistryInvariant, Named, NEW k \in DOMAIN types, NEW value, EnumerationConstant(k, value)
  PROVE  AddsTelling
<1> DEFINE c == [type |-> IDOf(types, k), of |-> value,
                 data |-> enumerations[types[k].content].uid[value]]
<1>1. StepFrom(types) /\ Register(types, k)
  BY StandingStep DEF EnumerationConstant
<1>2. /\ types[k].kind = "ENUMERATION" /\ UNCHANGED enumerations
      /\ value \in DOMAIN enumerations[types[k].content].uid
      /\ constants' = Append(constants, c)
  BY DEF EnumerationConstant, Encodes
<1>3. /\ c.type = IDOf(types, k) /\ c.of = value
      /\ c.data = enumerations[types[k].content].uid[value]
  OBVIOUS
<1> HIDE DEF c
<1>4. Tells(c, id2hash', enumerations')
  BY <1>1, <1>2, <1>3, EnumeratedTells
<1> QED BY <1>2, <1>4 DEF AddsTelling

LEMMA EnumerationConstantOfTells ==
  ASSUME RegistryInvariant, Named, CacheNamed, NamesDiffer,
         NEW e \in DOMAIN enumerations, NEW value, EnumerationConstantOf(e, value)
  PROVE  AddsTelling
<1> DEFINE type == EnumerationType(e)
           ts == TypesWith(type)
           k == Got(type)
           c == [type |-> IDOf(ts, k), of |-> value, data |-> enumerations[e].uid[value]]
<1>1. type \in NewTypes
  BY DEF NewTypes
<1>2. /\ types' = TypesAfterID(ts, k) /\ Register(ts, k) /\ UNCHANGED enumerations
      /\ value \in DOMAIN enumerations[e].uid /\ constants' = Append(constants, c)
  BY DEF EnumerationConstantOf, Encodes
<1>3. c.type = IDOf(ts, k) /\ c.of = value /\ c.data = enumerations[e].uid[value]
  OBVIOUS
<1> HIDE DEF c
<1>4. type.kind = "ENUMERATION" /\ type.content = e
  BY DEF EnumerationType
<1> HIDE DEF type
<1>5. StepFrom(ts) /\ k \in DOMAIN ts
  BY <1>1, <1>2, ObtainingStep
<1>6. ts[k].kind = "ENUMERATION" /\ ts[k].content = e
  <2>1. CASE Cached(type)
    <3>1. ts = types /\ k = cache[Name(type)] /\ Name(type)[1] = "ENUMERATION"
      BY <1>4, <2>1 DEF TypesWith, Got, Cached, Name
    <3>2. ts[k].kind = "ENUMERATION" /\ Name(ts[k]) = Name(type)
      BY <2>1, <3>1 DEF Cached, CacheNamed, Standing
    <3>3. enumerations[ts[k].content].name = enumerations[e].name /\ ts[k].content \in DOMAIN enumerations
      BY <1>4, <1>5, <3>1, <3>2 DEF Name, StepFrom
    <3> QED BY <3>2, <3>3 DEF NamesDiffer
  <2>2. CASE ~Cached(type)
    BY <1>1, <1>4, <2>2, AppendedFits DEF TypesWith, Got, RegistryInvariant
  <2> QED BY <2>1, <2>2
<1> HIDE DEF ts, k
<1>7. Tells(c, id2hash', enumerations')
  BY <1>2, <1>3, <1>5, <1>6, EnumeratedTells
<1> QED BY <1>2, <1>7 DEF AddsTelling

LEMMA ConstantsToldPreserved ==
  ASSUME RegistryInvariant, Careful, Named, ContentInvariant, [RegistryNext]_registryVars
  PROVE  ConstantsTold'
<1>1. Grown(enumerations, enumerations')
  BY EnumerationsGrow DEF ContentInvariant
<1>2. \A id \in DOMAIN id2hash : id2hash'[id] = id2hash[id]
  BY ValuesKept
<1>3. \A i \in DOMAIN constants : Tells(constants[i], id2hash', enumerations')
  BY <1>1, <1>2, StillTells DEF ContentInvariant, ConstantsTold, RegistryInvariant, RegistryConsistent
<1>4. AddsTelling
  <2>1. CASE \E k \in DOMAIN types, range \in Interval : RangeConstant(k, range)
    BY <2>1, RangeConstantTells
  <2>2. CASE \E k \in DOMAIN types, value \in EnumValue : EnumerationConstant(k, value)
    BY <2>2, EnumerationConstantTells
  <2>3. CASE \E k \in DOMAIN types, elements \in Elements : ListConstant(k, elements)
    BY <2>3, ListConstantTells
  <2>4. CASE \E e \in DOMAIN enumerations, value \in EnumValue : EnumerationConstantOf(e, value)
    BY <2>4, EnumerationConstantOfTells DEF ContentInvariant
  <2>5. CASE UNCHANGED constants
    BY <2>5 DEF AddsTelling
  <2>6. \/ \E k \in DOMAIN types, range \in Interval : RangeConstant(k, range)
        \/ \E k \in DOMAIN types, value \in EnumValue : EnumerationConstant(k, value)
        \/ \E k \in DOMAIN types, elements \in Elements : ListConstant(k, elements)
        \/ \E e \in DOMAIN enumerations, value \in EnumValue : EnumerationConstantOf(e, value)
        \/ UNCHANGED constants
    BY DEF RegistryNext, registryVars, Make, Get, RegisterValue, NewEnumeration, Add, Choose, Draw
  <2> QED BY <2>1, <2>2, <2>3, <2>4, <2>5, <2>6
<1>5. \A i \in DOMAIN constants' : Tells(constants'[i], id2hash', enumerations')
  <2>1. CASE constants' = constants
    BY <1>3, <2>1
  <2>2. CASE \E c : constants' = Append(constants, c) /\ Tells(c, id2hash', enumerations')
    BY <1>3, <2>2, AppendSequence DEF RegistryInvariant
  <2> QED BY <1>4, <2>1, <2>2 DEF AddsTelling
<1> QED BY <1>5 DEF ConstantsTold, Tells

LEMMA ContentsProperPreserved ==
  ASSUME RegistryInvariant, ContentsProper, [RegistryNext]_registryVars
  PROVE  ContentsProper'
<1> SUFFICES ASSUME NEW j \in DOMAIN types'
             PROVE  Proper(types'[j])
  BY DEF ContentsProper, Proper
<1>1. CASE \E ts : StepFrom(ts)
  <2>1. PICK ts : StepFrom(ts)
    BY <1>1
  <2>2. j \in DOMAIN ts /\ types'[j].kind = ts[j].kind /\ NameAfter(j) = Name(ts[j])
    BY <2>1, StepKeeps
  <2>3. Proper(ts[j])
    BY <2>1, <2>2 DEF StepFrom, ContentsProper
  <2>4. ts[j].kind # "ENUMERATION" => types'[j].content = ts[j].content
    BY <2>2 DEF NameAfter, Name
  <2> QED BY <2>2, <2>3, <2>4 DEF Proper
<1>2. CASE \E k \in DOMAIN types, range \in Interval : RangeConstant(k, range)
  BY <1>2, RenamesOne DEF ContentsProper, Proper
<1> QED BY <1>1, <1>2, EveryStep

LEMMA ContentHolds ==
  ASSUME Careful
  PROVE  RegistrySpec => []ContentInvariant
<1>1. RegistryInit => ContentInvariant
  BY DEF RegistryInit, ContentInvariant, NamesDiffer, Numbered, CacheNamed, ConstantsTold,
         ContentsProper
<1>2. RegistryInvariant /\ Named /\ ContentInvariant /\ [RegistryNext]_registryVars => ContentInvariant'
  BY EnumerationsGrow, CacheNamedPreserved, ConstantsToldPreserved, ContentsProperPreserved
     DEF ContentInvariant
<1> QED BY <1>1, <1>2, InvariantHolds, NamedHolds, PTL DEF RegistrySpec

-----------------------------------------------------------------------------

\* What fromID() finds of an ID that is known: an object of the name it was given for.
LEMMA FoundByID ==
  ASSUME RegistryInvariant, Named, CacheNamed, NoneRenamed, NEW id \in DOMAIN id2hash
  PROVE  /\ FromID(id) \in DOMAIN types
         /\ Name(types[FromID(id)]) = id2hash[id]
         /\ id2hash[id][1] = id[1]
<1> DEFINE name == id2hash[id]
           p == hash2ptr[name]
<1>1. Fit(types, hash2ptr, id2hash, typeIDs) /\ typeIDs \in [Kind -> Nat]
  BY DEF RegistryInvariant, RegistryConsistent, RegistryTyped
<1>2. name \in DOMAIN hash2ptr /\ OwnID(types[p]) = id
  BY <1>1 DEF Fit
<1>3. p \in DOMAIN types /\ types[p].flavor # 0
  BY <1>1, <1>2, RegisteredHasID
<1>4. Name(types[p]) = name /\ name[1] = id[1]
  BY <1>2, <1>3 DEF Named, Standing
<1> HIDE DEF name
<1>5. CASE name \in DOMAIN cache
  BY <1>4, <1>5 DEF FromID, CacheNamed, Standing, RegistryInvariant, RegistryConsistent, name
<1>6. CASE name \notin DOMAIN cache
  BY <1>3, <1>4, <1>6 DEF FromID, name
<1> QED BY <1>5, <1>6

\* A constant is read back as what it was made of, whatever objects of its type are made
\* and cached and whatever values the enumeration gets, twice even, after it was made,
\* until a type is renamed.
THEOREM ConstantsAreReadBack ==
  ASSUME Careful
  PROVE  RegistrySpec => []ReadBack
<1>1. ASSUME RegistryInvariant, Named, ContentInvariant
      PROVE  ReadBack
  <2> SUFFICES ASSUME NoneRenamed, NEW i \in DOMAIN constants, NEW c, c = constants[i],
                      NEW type, type = types[FromID(c.type)]
               PROVE  /\ type.kind = "RANGE" => type.content = c.of
                      /\ type.kind = "ENUMERATION" =>
                           /\ Name(type)[2] = id2hash[c.type][2]
                           /\ c.data \in DOMAIN enumerations[type.content].values
                           /\ enumerations[type.content].values[c.data] = c.of
    BY DEF ReadBack
  <2>1. c.type \in DOMAIN id2hash /\ Tells(c, id2hash, enumerations)
    BY <1>1 DEF RegistryInvariant, RegistryConsistent, ContentInvariant, ConstantsTold
  <2>2. /\ FromID(c.type) \in DOMAIN types
        /\ Name(type) = id2hash[c.type]
        /\ type.kind = c.type[1]
    BY <1>1, <2>1, FoundByID DEF ContentInvariant, Name
  <2>3. CASE type.kind = "RANGE"
    <3>1. id2hash[c.type][2] = c.of
      BY <2>2, <2>3 DEF NoneRenamed
    <3>2. Name(type)[2] = type.content
      BY <2>3 DEF Name
    <3> QED BY <2>2, <2>3, <3>1, <3>2
  <2>4. CASE type.kind = "ENUMERATION"
    <3>1. PICK e \in DOMAIN enumerations :
            /\ id2hash[c.type][2] = enumerations[e].name
            /\ c.of \in DOMAIN enumerations[e].uid /\ c.data = enumerations[e].uid[c.of]
      BY <2>1, <2>2, <2>4 DEF Tells
    <3>2. type.content \in DOMAIN enumerations
          /\ enumerations[type.content].name = enumerations[e].name
      <4>1. type.content \in DOMAIN enumerations
        BY <1>1, <2>2, <2>4 DEF RegistryInvariant, RegistryTyped
      <4>2. Name(type)[2] = enumerations[type.content].name
        BY <2>4 DEF Name
      <4> QED BY <2>2, <3>1, <4>1, <4>2
    <3>3. type.content = e
      BY <1>1, <3>2 DEF ContentInvariant, NamesDiffer
    <3> QED BY <1>1, <2>2, <2>4, <3>1, <3>3 DEF ContentInvariant, Numbered, NumberedIn
  <2> QED BY <2>3, <2>4
<1> QED BY <1>1, InvariantHolds, NamedHolds, ContentHolds, PTL

\* Constants of one enumeration are equal exactly when they are of one value, whatever
\* types are renamed.
THEOREM EqualityOfConstants ==
  ASSUME Careful
  PROVE  RegistrySpec => []EqualValuesEqualConstants
<1>1. ASSUME RegistryInvariant, Named, ContentInvariant
      PROVE  EqualValuesEqualConstants
  <2> SUFFICES ASSUME NEW i \in DOMAIN constants, NEW j \in DOMAIN constants,
                      NEW c, c = constants[i], NEW d, d = constants[j],
                      c.type = d.type, c.type[1] = "ENUMERATION"
               PROVE  c.data = d.data <=> c.of = d.of
    BY DEF EqualValuesEqualConstants
  <2>1. Tells(c, id2hash, enumerations) /\ Tells(d, id2hash, enumerations)
    BY <1>1 DEF ContentInvariant, ConstantsTold
  <2>2. PICK e \in DOMAIN enumerations :
          /\ id2hash[c.type][2] = enumerations[e].name
          /\ c.of \in DOMAIN enumerations[e].uid /\ c.data = enumerations[e].uid[c.of]
    BY <2>1 DEF Tells
  <2>3. PICK f \in DOMAIN enumerations :
          /\ id2hash[c.type][2] = enumerations[f].name
          /\ d.of \in DOMAIN enumerations[f].uid /\ d.data = enumerations[f].uid[d.of]
    BY <2>1 DEF Tells
  <2>4. e = f
    BY <1>1, <2>2, <2>3 DEF ContentInvariant, NamesDiffer
  <2> QED BY <1>1, <2>2, <2>3, <2>4 DEF ContentInvariant, Numbered, NumberedIn
<1> QED BY <1>1, InvariantHolds, NamedHolds, ContentHolds, PTL
-----------------------------------------------------------------------------
(* Powers of two *)

\* Every positive number has a logarithm, rounded down.
LEMMA LogarithmExists ==
  ASSUME NEW m \in Nat \ {0}
  PROVE  \E w \in 0 .. m : PowerOf2(w) <= m /\ m < PowerOf2(w + 1)
<1> SUFFICES ASSUME \A w \in 0 .. m : ~(PowerOf2(w) <= m /\ m < PowerOf2(w + 1))
             PROVE  FALSE
  OBVIOUS
<1> DEFINE N == { w \in Nat : w <= m => PowerOf2(w) <= m }
<1>1. 0 \in N
  BY PowerFacts
<1>2. ASSUME NEW w \in Nat, w \in N
      PROVE  w + 1 \in N
  <2> SUFFICES ASSUME w + 1 <= m
               PROVE  PowerOf2(w + 1) <= m
    OBVIOUS
  <2>1. w \in 0 .. m /\ PowerOf2(w) <= m
    BY <1>2
  <2>2. PowerOf2(w + 1) \in Nat
    BY PowerFacts
  <2> QED BY <2>1, <2>2
<1> HIDE DEF N
<1>3. Nat \subseteq N
  BY <1>1, <1>2, SetInduction
<1>4. PowerOf2(m) <= m
  BY <1>3 DEF N
<1> QED BY <1>4, PowersGrow, PowerFacts

-----------------------------------------------------------------------------
(* Types that nothing changes *)

LEMMA PlainTypes == PlainTypesAgree
<1>1. \A range \in Interval : Constrains(range) =>
        RangeVisited(range) = RangeChosen(range) /\ RangeVisited(range) # {}
  BY IntervalAssumption DEF Constrains, Ascending, RangeVisited, RangeChosen
<1>2. \A from, to \in 0 .. 1 : from <= to => BooleanVisited(from, to) = BooleanChosen(from, to)
  BY DEF BooleanVisited, BooleanChosen
<1>3. BooleanTypeVisited = BooleanTypeChosen /\ BooleanTypeVisited = BooleanVisited(0, 1)
  BY DEF BooleanTypeVisited, BooleanTypeChosen, BooleanVisited
<1>4. ASSUME NEW n \in Bitsize
      PROVE  BinaryChosen(n) \subseteq 0 .. (PowerOf2(n) - 1)
  <2>1. n \in Nat \ {0}
    BY RegistryAssumption
  <2>2. n < PowerOf2(n) /\ PowerOf2(n) \in Nat
    BY <2>1, PowersGrow, PowerFacts
  <2>3. \A value \in 0 .. (2 * n) : value % n \in 0 .. (n - 1)
    BY <2>1
  <2> QED BY <2>1, <2>2, <2>3 DEF BinaryChosen
<1>5. ASSUME NEW n \in Bitsize, NEW i \in 0 .. (PowerOf2(n) - 1)
      PROVE  BinaryAccepts(n, IntegerWidth(i))
  <2> DEFINE m == IF i > 1 THEN i - 1 ELSE 1
             w == CHOOSE v \in 0 .. m : PowerOf2(v) <= m /\ m < PowerOf2(v + 1)
  <2>1. n \in Nat /\ 1 <= n /\ PowerOf2(n) \in Nat
    BY RegistryAssumption, PowerFacts
  <2>2. PowerOf2(1) = 2
    <3>1. PowerOf2(0 + 1) = 2 * 1
      BY PowerFacts
    <3> QED BY <3>1
  <2>3. 2 <= PowerOf2(n)
    BY <2>1, <2>2, PowersGrow
  <2>4. m \in Nat \ {0} /\ m < PowerOf2(n)
    BY <2>1, <2>3
  <2> HIDE DEF m
  <2>5. w \in 0 .. m /\ PowerOf2(w) <= m
    BY <2>4, LogarithmExists
  <2>6. IntegerWidth(i) = w
    BY DEF IntegerWidth, m
  <2> HIDE DEF w
  <2>7. ~(n < w)
    <3> SUFFICES ASSUME n < w
                 PROVE  FALSE
      OBVIOUS
    <3>1. w \in Nat /\ n <= w /\ PowerOf2(w) \in Nat
      BY <2>1, <2>4, <2>5, PowerFacts
    <3>2. PowerOf2(n) <= PowerOf2(w)
      BY <2>1, <3>1, PowersGrow
    <3> QED BY <2>1, <2>4, <2>5, <3>1, <3>2
  <2> QED BY <2>6, <2>7 DEF BinaryAccepts
<1> QED BY <1>1, <1>2, <1>3, <1>4, <1>5 DEF PlainTypesAgree

-----------------------------------------------------------------------------
(* Universes *)

\* The object that fromID() finds, and any other object a client has of the type.
LEMMA ObjectsOfOneType ==
  ASSUME RegistryInvariant, Named, ContentInvariant, NoneRenamed, NEW id \in DOMAIN id2hash,
         NEW type, type = types[FromID(id)]
  PROVE  /\ type \in TypeObject /\ type.kind = id[1] /\ Proper(type)
         /\ type.kind = "ENUMERATION" => type.content \in DOMAIN enumerations
         /\ \A k \in Objects(id) : types[k].kind = type.kind /\ types[k].content = type.content
<1>1. FromID(id) \in DOMAIN types /\ Name(type) = id2hash[id] /\ id2hash[id][1] = id[1]
  BY FoundByID DEF ContentInvariant
<1>2. type \in TypeObject /\ (type.kind = "ENUMERATION" => type.content \in DOMAIN enumerations)
      /\ Proper(type)
  BY <1>1 DEF RegistryInvariant, RegistryTyped, ContentInvariant, ContentsProper
<1>3. type.kind = id[1]
  BY <1>1 DEF Name
<1>4. ASSUME NEW k \in Objects(id)
      PROVE  types[k].kind = type.kind /\ types[k].content = type.content
  <2>1. k \in DOMAIN types /\ Name(types[k]) = Name(type)
    BY <1>1 DEF Objects
  <2>2. types[k].kind = type.kind
    BY <2>1 DEF Name
  <2>3. CASE type.kind # "ENUMERATION"
    BY <2>1, <2>2, <2>3 DEF Name
  <2>4. CASE type.kind = "ENUMERATION"
    <3>1. enumerations[types[k].content].name = enumerations[type.content].name
      BY <2>1, <2>2, <2>4 DEF Name
    <3>2. types[k].content \in DOMAIN enumerations
      BY <2>1, <2>2, <2>4 DEF RegistryInvariant, RegistryTyped
    <3> QED BY <1>2, <2>2, <2>4, <3>1, <3>2 DEF ContentInvariant, NamesDiffer
  <2> QED BY <2>2, <2>3, <2>4
<1> QED BY <1>2, <1>3, <1>4

LEMMA DomainAgrees ==
  ASSUME RegistryInvariant, Named, ContentInvariant, NoneRenamed, NEW id \in DOMAIN id2hash,
         NEW type, type = types[FromID(id)]
  PROVE  /\ Bounded(type) => DomainVisited(id) = DomainChosen(id) /\ DomainVisited(id) # {}
         /\ Bounded(type) \/ type.kind = "BINARY" =>
              \A value \in DomainVisited(id) \cup DomainChosen(id), k \in Objects(id) :
                Validates(k, id, value)
         /\ type.kind = "RANGE" /\ type.content # None =>
              \A i \in (From[type.content] - 2) .. (To[type.content] + 2) :
                RangeAccepts(type.content, i) <=> i \in DomainVisited(id)
<1>1. /\ Proper(type)
      /\ type.kind = "ENUMERATION" => type.content \in DOMAIN enumerations
      /\ \A k \in Objects(id) : types[k].kind = type.kind /\ types[k].content = type.content
  BY ObjectsOfOneType
<1>2. DomainVisited(id) = TypeVisited(type) /\ DomainChosen(id) = TypeChosen(type)
  BY DEF DomainVisited, DomainChosen
<1> DEFINE range == type.content
           visited == From[range] .. To[range]
<1>3. CASE type.kind = "RANGE"
  <2>1. DomainVisited(id) = visited /\ DomainChosen(id) = visited
    BY <1>2, <1>3 DEF TypeVisited, TypeChosen, RangeVisited, RangeChosen
  <2>2. CASE range # None
    <3>1. range \in Interval /\ From[range] \in Int /\ To[range] \in Int
      BY <1>1, <1>3, <2>2, IntervalAssumption DEF Proper
    <3> HIDE DEF range
    <3>2. \A i \in Int : RangeAccepts(range, i) <=> i \in visited
      BY <2>2, <3>1 DEF RangeAccepts
    <3>3. Bounded(type) => visited # {}
      BY <1>3, <3>1 DEF Bounded, Ascending, range
    <3>4. \A value \in visited, k \in Objects(id) : Validates(k, id, value)
      BY <1>1, <1>3, <3>1, <3>2 DEF Validates, range
    <3> HIDE DEF visited
    <3> QED BY <1>3, <2>1, <3>1, <3>2, <3>3, <3>4 DEF range
  <2>3. CASE range = None
    BY <1>3, <2>3 DEF Bounded
  <2> QED BY <2>2, <2>3
<1>4. CASE type.kind = "ENUMERATION"
  <2> DEFINE e == type.content
             enum == enumerations[e]
  <2>1. e \in DOMAIN enumerations /\ NumberedIn(enum)
    BY <1>1, <1>4 DEF ContentInvariant, Numbered, NumberedIn
  <2>2. DomainVisited(id) = EnumerationVisited(e) /\ DomainChosen(id) = EnumerationVisited(e)
    BY <1>2, <1>4 DEF TypeVisited, TypeChosen, EnumerationChosen
  <2>3. enum.values \in Seq(EnumValue)
    <3>1. enum \in Enumeration
      BY <2>1 DEF RegistryInvariant, RegistryTyped
    <3> QED BY <3>1 DEF Enumeration
  <2>4. Bounded(type) => EnumerationVisited(e) # {}
    <3>1. enum.values # << >> => 1 \in DOMAIN enum.values
      BY <2>3
    <3>2. 1 \in DOMAIN enum.values => enum.uid[enum.values[1]] \in EnumerationVisited(e)
      BY DEF EnumerationVisited
    <3> QED BY <1>4, <3>1, <3>2 DEF Bounded
  <2>5. ASSUME NEW value \in EnumerationVisited(e), NEW k \in Objects(id)
        PROVE  Validates(k, id, value)
    <3>1. PICK i \in DOMAIN enum.values : value = enum.uid[enum.values[i]]
      BY DEF EnumerationVisited
    <3>2. enum.values[i] \in DOMAIN enum.uid
      BY <2>1 DEF NumberedIn
    <3>3. value \in DOMAIN enum.values /\ enum.values[value] = enum.values[i]
      BY <2>1, <3>1, <3>2 DEF NumberedIn
    <3>4. types[k].kind = "ENUMERATION" /\ types[k].content = e /\ Name(types[k]) = Name(type)
      BY <1>1, <1>4 DEF Name
    <3>5. EnumerationAccepts(k, id, value)
      BY <3>2, <3>3, <3>4 DEF EnumerationAccepts, Encodes
    <3> QED BY <3>4, <3>5 DEF Validates
  <2> HIDE DEF e, enum
  <2> QED BY <1>4, <2>2, <2>4, <2>5
<1>5. CASE type.kind = "BINARY"
  <2>1. type.content \in Nat
    BY <1>1, <1>5, RegistryAssumption DEF Proper
  <2>2. \A k \in Objects(id) : \A value : Validates(k, id, value)
    BY <1>1, <1>5, <2>1 DEF Validates, BinaryAccepts
  <2> QED BY <1>5, <2>2 DEF Bounded
<1>6. CASE type.kind \notin {"RANGE", "ENUMERATION", "BINARY"}
  BY <1>6 DEF Bounded
<1> QED BY <1>3, <1>4, <1>5, <1>6

LEMMA ConstantAgrees ==
  ASSUME RegistryInvariant, Named, ContentInvariant, NoneRenamed, NEW j \in DOMAIN constants,
         NEW c, c = constants[j]
  PROVE  /\ (c.type[1] = "RANGE" => Ascending(c.of)) => ConstantVisited(c) = ConstantChosen(c)
         /\ c.type[1] = "RANGE" =>
              /\ ConstantVisited(c) = { i \in From[c.of] .. To[c.of] : RangeAccepts(c.of, i) }
              /\ \A k \in Objects(c.type) : RangeIncludes(types[k].content, c.of)
         /\ c.type[1] = "ENUMERATION" =>
              \A k \in Objects(c.type) : EnumerationAccepts(k, c.type, c.data)
<1> DEFINE type == types[FromID(c.type)]
<1>1. c.type \in DOMAIN id2hash /\ Tells(c, id2hash, enumerations)
  BY DEF RegistryInvariant, RegistryConsistent, ContentInvariant, ConstantsTold
<1>2. /\ type.kind = c.type[1]
      /\ type.kind = "ENUMERATION" => type.content \in DOMAIN enumerations
      /\ \A k \in Objects(c.type) : types[k].kind = type.kind /\ types[k].content = type.content
  BY <1>1, ObjectsOfOneType
<1>3. Name(type) = id2hash[c.type]
  BY <1>1, FoundByID DEF ContentInvariant
<1> HIDE DEF type
<1>4. CASE c.type[1] = "RANGE"
  <2>1. c.of \in Interval /\ type.content = c.of
    BY <1>1, <1>2, <1>3, <1>4 DEF Tells, Name, NoneRenamed
  <2>2. From[c.of] \in Int /\ To[c.of] \in Int /\ c.of # None
    BY <2>1, IntervalAssumption, RegistryAssumption
  <2>3. /\ ConstantVisited(c) = From[c.of] .. To[c.of]
        /\ ConstantChosen(c) = From[c.of] .. To[c.of]
    BY <1>2, <1>4, <2>1
       DEF ConstantVisited, ConstantChosen, TypeVisited, TypeChosen, RangeVisited, RangeChosen, type
  <2>4. From[c.of] .. To[c.of] = { i \in From[c.of] .. To[c.of] : RangeAccepts(c.of, i) }
    BY <2>2 DEF RangeAccepts
  <2>5. \A k \in Objects(c.type) : RangeIncludes(types[k].content, c.of)
    BY <1>2, <2>1, <2>2 DEF RangeIncludes
  <2> QED BY <1>4, <2>3, <2>4, <2>5
<1>5. CASE c.type[1] = "ENUMERATION"
  <2>1. PICK e \in DOMAIN enumerations :
          /\ id2hash[c.type][2] = enumerations[e].name
          /\ c.of \in DOMAIN enumerations[e].uid /\ c.data = enumerations[e].uid[c.of]
    BY <1>1, <1>5 DEF Tells
  <2>2. enumerations[type.content].name = enumerations[e].name
    BY <1>2, <1>3, <1>5, <2>1 DEF Name
  <2>3. type.content = e
    BY <1>2, <1>5, <2>2 DEF ContentInvariant, NamesDiffer
  <2>4. c.data \in DOMAIN enumerations[e].values /\ enumerations[e].values[c.data] = c.of
    BY <2>1 DEF ContentInvariant, Numbered, NumberedIn
  <2>5. ASSUME NEW k \in Objects(c.type)
        PROVE  EnumerationAccepts(k, c.type, c.data)
    <3>1. types[k].content = e /\ Name(types[k]) = Name(type)
      BY <1>2, <2>3 DEF Name
    <3> QED BY <2>1, <2>3, <2>4, <3>1 DEF EnumerationAccepts, Encodes, type
  <2> QED BY <1>5, <2>5 DEF ConstantVisited, ConstantChosen
<1>6. CASE c.type[1] \notin {"RANGE", "ENUMERATION"}
  BY <1>6 DEF ConstantVisited, ConstantChosen, ListVisited
<1> QED BY <1>4, <1>5, <1>6

\* choose(), foreach() and validate() agree on the values of every type and constant, for
\* all ranges, widths and enumerations, and through whichever object of the type, until a
\* type is renamed.
THEOREM AllUniversesAgree ==
  ASSUME Careful
  PROVE  RegistrySpec => []UniversesAgree
<1>1. ASSUME RegistryInvariant, Named, ContentInvariant
      PROVE  UniversesAgree
  <2>1. NoneRenamed => DomainsAgree
    BY <1>1, DomainAgrees DEF DomainsAgree
  <2>2. NoneRenamed => ConstantsAgree
    BY <1>1, ConstantAgrees DEF ConstantsAgree
  <2> QED BY <2>1, <2>2, PlainTypes DEF UniversesAgree
<1> QED BY <1>1, InvariantHolds, NamedHolds, ContentHolds, PTL
=============================================================================
