------------------------- MODULE XmppAttributesProofs -------------------------
(***************************************************************************)
(* The attributes of elements are maps (XmppAttributes), proved for any    *)
(* number of elements, keys and slots, and any hash function.  HashProofs  *)
(* shows what hash_drop and an insertion do to one table whose chains have *)
(* each key once and in its slot, and the first lemmas here that hash_add  *)
(* and the copy of a table keep it so; that all tables are like this is    *)
(* the invariant, and each call then is a step of ElementAttributes or     *)
(* changes nothing.                                                        *)
(***************************************************************************)
EXTENDS XmppAttributes, HashProofs, FiniteSetTheorems, WellFoundedInduction

(* The tables of attributes.                                               *)
TableOK(t) == t \in Tables /\ KeysInPlace(t)

(* They are tables of values that have a free function.                    *)
LEMMA TableIs == ASSUME NEW t PROVE TableOK(t) <=> IsTable(t, Values) /\ t.free
BY DEF TableOK, IsTable, TablesOf, Tables, EntriesOf, Entries

(* hash_add of a table with a free function, for keys that are not empty:  *)
(* the key maps to the value from then on, and nothing else changes.       *)
LEMMA AddRight ==
  ASSUME NEW t, TableOK(t), NEW k \in Keys, NEW v \in Values
  PROVE  /\ TableOK(hash_add(t, k, v))
         /\ \A j \in Keys :
              hash_get(hash_add(t, k, v), j) = IF j = k THEN v ELSE hash_get(t, j)
<1> DEFINE d == hash_drop(t, k)
<1>1. t.free = TRUE
  BY DEF TableOK, Tables
<1>2. hash_add(t, k, v) = Inserted(d, k, v)
  BY <1>1, EmptyKeyAssumption DEF hash_add, Refuses
<1>3. /\ TableOK(d)
      /\ \A j \in Keys : hash_get(d, j) = IF j = k THEN NULL ELSE hash_get(t, j)
  BY DropRight, TableIs
<1> HIDE DEF d
<1>4. /\ TableOK(Inserted(d, k, v))
      /\ \A j \in Keys :
           hash_get(Inserted(d, k, v), j) = IF j = k THEN v ELSE hash_get(d, j)
  BY <1>3, InsertedRight, TableIs, ValuesAssumption
<1> QED
  BY <1>2, <1>3, <1>4

(* The copy of a table reads like it: reversing chains moves no key.       *)
LEMMA CopiedRight ==
  ASSUME NEW t, TableOK(t)
  PROVE  /\ TableOK(Copied(t))
         /\ \A j \in Keys : hash_get(Copied(t), j) = hash_get(t, j)
<1> DEFINE es == [i \in Slots |-> Reverse(t.entries[i])]
           u == Copied(t)
<1>1. t = TableRecord(t.free, t.num_keys, t.entries) /\ t.free = TRUE /\ t.num_keys \in Int
  BY DEF TableOK, Tables, TableRecord
<1>2. \A i \in Slots : t.entries[i] \in Seq(Entries) /\ Len(t.entries[i]) \in Nat
  BY DEF TableOK, Tables
<1>3. \A i \in Slots :
        /\ Reverse(t.entries[i]) \in Seq(Entries)
        /\ Len(Reverse(t.entries[i])) = Len(t.entries[i])
        /\ \A p \in 1 .. Len(t.entries[i]) :
             Reverse(t.entries[i])[p] = t.entries[i][Len(t.entries[i]) - p + 1]
  BY <1>2 DEF Reverse
<1>4. es \in [Slots -> Seq(Entries)]
  BY <1>3
<1> HIDE DEF es
<1>5. u = TableRecord(t.free, t.num_keys, es)
  BY <1>1, Fields DEF Copied, es
<1> HIDE DEF u
<1>6. u \in Tables /\ u.entries = es
  <2>1. u \in Tables
    BY <1>1, <1>4, <1>5, Zenon DEF TableRecord, Tables
  <2>2. u.entries = es
    BY <1>5, Fields
  <2> QED
    BY <2>1, <2>2
<1>7. \A i \in Slots : u.entries[i] = Reverse(t.entries[i])
  BY <1>6 DEF es
<1>8. KeysInPlace(u)
  <2> SUFFICES ASSUME NEW i \in Slots
               PROVE  /\ \A p \in 1 .. Len(u.entries[i]) : HashKey[u.entries[i][p].key] = i
                      /\ \A p, q \in 1 .. Len(u.entries[i]) :
                           u.entries[i][p].key = u.entries[i][q].key => p = q
    BY DEF KeysInPlace
  <2> DEFINE c == t.entries[i]
             n == Len(c)
  <2>1. /\ n \in Nat
        /\ \A p \in 1 .. n : HashKey[c[p].key] = i
        /\ \A p, q \in 1 .. n : c[p].key = c[q].key => p = q
    BY <1>2 DEF TableOK, KeysInPlace
  <2>2. /\ Len(u.entries[i]) = n
        /\ \A p \in 1 .. n : u.entries[i][p] = c[n - p + 1]
    BY <1>3, <1>7
  <2> HIDE DEF c, n
  <2>3. \A p \in 1 .. n : n - p + 1 \in 1 .. n
    BY <2>1
  <2>4. \A p, q \in 1 .. n : n - p + 1 = n - q + 1 => p = q
    BY <2>1
  <2>5. /\ \A p \in 1 .. n : HashKey[u.entries[i][p].key] = i
        /\ \A p, q \in 1 .. n : u.entries[i][p].key = u.entries[i][q].key => p = q
    <3> SUFFICES ASSUME NEW p \in 1 .. n, NEW q \in 1 .. n
                 PROVE  /\ HashKey[u.entries[i][p].key] = i
                        /\ u.entries[i][p].key = u.entries[i][q].key => p = q
      OBVIOUS
    <3>1. /\ n - p + 1 \in 1 .. n /\ u.entries[i][p] = c[n - p + 1]
          /\ n - q + 1 \in 1 .. n /\ u.entries[i][q] = c[n - q + 1]
      BY <2>2, <2>3
    <3>2. HashKey[u.entries[i][p].key] = i
      BY <2>1, <3>1
    <3>3. u.entries[i][p].key = u.entries[i][q].key => n - p + 1 = n - q + 1
      BY <2>1, <3>1
    <3> QED
      BY <2>4, <3>2, <3>3
  <2> QED
    BY <2>2, <2>5
<1>9. ASSUME NEW j \in Keys
      PROVE  hash_get(u, j) = hash_get(t, j)
  <2> DEFINE c == Chain(t, j)
             d == Chain(u, j)
             n == Len(c)
  <2>1. HashKey[j] \in Slots /\ n \in Nat
    BY <1>2, HashKeyAssumption DEF Slots, Chain
  <2>2. Len(d) = n /\ \A p \in 1 .. n : d[p] = c[n - p + 1]
    BY <2>1, <1>3, <1>7 DEF Chain
  <2>3. TableOK(u)
    BY <1>6, <1>8 DEF TableOK
  <2>4. CASE \E p \in 1 .. n : c[p].key = j
    <3>1. PICK p \in 1 .. n : c[p].key = j
      BY <2>4
    <3> DEFINE q == n - p + 1
    <3>2. q \in 1 .. n /\ n - q + 1 = p
      BY <2>1, <3>1
    <3> HIDE DEF q
    <3>3. q \in 1 .. Len(d) /\ d[q] = c[p]
      BY <3>2, <2>2
    <3>4. hash_get(t, j) = c[p].value
      BY <3>1, GetHit, TableIs
    <3>5. hash_get(u, j) = d[q].value
      BY <3>1, <3>3, <2>3, GetHit, TableIs
    <3> QED
      BY <3>3, <3>4, <3>5
  <2>5. CASE \A p \in 1 .. n : c[p].key # j
    <3>1. \A p \in 1 .. n : n - p + 1 \in 1 .. n
      BY <2>1
    <3>2. \A p \in 1 .. Len(d) : d[p].key # j
      BY <3>1, <2>2, <2>5
    <3> QED
      BY <3>2, <2>5, GetMiss
  <2> QED
    BY <2>4, <2>5
<1> QED
  BY <1>6, <1>8, <1>9 DEF TableOK, u

-----------------------------------------------------------------------------
(* The invariant: types, and every table has its keys in place.            *)
AttrInv == AttrTypeOK /\ \A e \in Elements : attributes[e] # NULL => KeysInPlace(attributes[e])

(* What is needed of attributes alone.                                     *)
TablesOK(a) == a \in [Elements -> Tables \cup {NULL}]
               /\ \A e \in Elements : a[e] # NULL => TableOK(a[e])

(* What the invariant says of the tables.                                  *)
LEMMA InvTables == AttrInv => TablesOK(attributes)
BY DEF AttrInv, AttrTypeOK, TablesOK, TableOK

(* Another good table, or none, for one element.                           *)
LEMMA TableAtOK ==
  ASSUME NEW a, TablesOK(a), NEW e \in Elements, NEW t, t = NULL \/ TableOK(t)
  PROVE  TablesOK([a EXCEPT ![e] = t])
BY DEF TablesOK, TableOK

(* The table that an attribute of e is added to.                           *)
TableFor(a, e) == IF a[e] = NULL THEN hash_new(TRUE) ELSE a[e]

(* That table is good, and reads like the attributes of e.                 *)
LEMMA TableForRight ==
  ASSUME NEW a, TablesOK(a), NEW e \in Elements
  PROVE  /\ TableOK(TableFor(a, e)) /\ TableFor(a, e) # NULL
         /\ \A k \in Keys : hash_get(TableFor(a, e), k) =
                              IF a[e] = NULL THEN NULL ELSE hash_get(a[e], k)
<1>1. CASE a[e] = NULL
  BY <1>1, NewRight, TableIs, NullIsNoTable DEF TableFor, TableOK
<1>2. CASE a[e] # NULL
  BY <1>2 DEF TableFor, TablesOK
<1> QED
  BY <1>1, <1>2

(* What xmpp_stanza_set_attribute does, by way of TableFor;                *)
LEMMA SetTables ==
  ASSUME AttrInv, NEW e \in Elements, NEW k \in Keys, NEW v \in Values \cup {EmptyString},
         xmpp_stanza_set_attribute(e, k, v)
  PROVE  LET t == TableFor(attributes, e)
         IN  /\ e \in made /\ made' = made
             /\ TableOK(IF v = EmptyString THEN t ELSE hash_add(t, k, v))
             /\ attributes' = [attributes EXCEPT
                                 ![e] = IF v = EmptyString THEN t ELSE hash_add(t, k, v)]
<1>1. TableOK(TableFor(attributes, e))
  BY InvTables, TableForRight
<1>2. v # EmptyString => TableOK(hash_add(TableFor(attributes, e), k, v))
  BY <1>1, AddRight
<1> QED
  BY <1>1, <1>2, Zenon DEF xmpp_stanza_set_attribute, TableFor

(* and what xmpp_stanza_copy does.                                         *)
LEMMA CopyTables ==
  ASSUME AttrInv, NEW e \in Elements, NEW d \in Elements, CopyAttributes(e, d)
  PROVE  LET t == IF attributes[e] = NULL THEN NULL ELSE Copied(attributes[e])
         IN  /\ d \notin made /\ made' = made \cup {d}
             /\ t = NULL \/ TableOK(t)
             /\ attributes' = [attributes EXCEPT ![d] = t]
BY InvTables, CopiedRight, Zenon DEF TablesOK, CopyAttributes

(* Every step keeps the invariant,                                         *)
LEMMA InvStep == AttrInv /\ [AttrNext]_attrVars => AttrInv'
<1> SUFFICES ASSUME AttrInv, [AttrNext]_attrVars
             PROVE  AttrInv'
  OBVIOUS
<1>1. /\ TablesOK(attributes) /\ made \subseteq Elements
      /\ \A e \in Elements : attributes[e] # NULL => e \in made
  BY InvTables DEF AttrInv, AttrTypeOK
<1>2. SUFFICES /\ TablesOK(attributes') /\ made' \subseteq Elements
               /\ \A e \in Elements : attributes'[e] # NULL => e \in made'
  BY DEF AttrInv, AttrTypeOK, TablesOK, TableOK
<1>3. ASSUME NEW e \in Elements, AttrNew(e)
      PROVE  /\ TablesOK(attributes') /\ made' \subseteq Elements
             /\ \A d \in Elements : attributes'[d] # NULL => d \in made'
  BY <1>1, <1>3 DEF AttrNew
<1>4. ASSUME NEW e \in Elements, AttrRelease(e)
      PROVE  /\ TablesOK(attributes') /\ made' \subseteq Elements
             /\ \A d \in Elements : attributes'[d] # NULL => d \in made'
  <2>1. attributes' = [attributes EXCEPT ![e] = NULL] /\ made' = made \ {e}
    BY <1>4 DEF AttrRelease
  <2>2. TablesOK(attributes')
    BY <2>1, <1>1, TableAtOK
  <2> QED
    BY <2>1, <2>2, <1>1 DEF TablesOK
<1>5. ASSUME NEW e \in Elements, NEW k \in Keys, NEW v \in Values \cup {EmptyString},
             xmpp_stanza_set_attribute(e, k, v)
      PROVE  /\ TablesOK(attributes') /\ made' \subseteq Elements
             /\ \A d \in Elements : attributes'[d] # NULL => d \in made'
  <2>1. PICK t : /\ e \in made /\ made' = made
                 /\ TableOK(t)
                 /\ attributes' = [attributes EXCEPT ![e] = t]
    BY <1>5, SetTables
  <2>2. TablesOK(attributes')
    BY <2>1, <1>1, TableAtOK
  <2> QED
    BY <2>1, <2>2, <1>1 DEF TablesOK
<1>6. ASSUME NEW e \in Elements, NEW d \in Elements, CopyAttributes(e, d)
      PROVE  /\ TablesOK(attributes') /\ made' \subseteq Elements
             /\ \A j \in Elements : attributes'[j] # NULL => j \in made'
  <2>1. PICK t : /\ d \notin made /\ made' = made \cup {d}
                 /\ t = NULL \/ TableOK(t)
                 /\ attributes' = [attributes EXCEPT ![d] = t]
    BY <1>6, CopyTables
  <2>2. TablesOK(attributes')
    BY <2>1, <1>1, TableAtOK
  <2> QED
    BY <2>1, <2>2, <1>1 DEF TablesOK
<1>7. CASE UNCHANGED attrVars
  BY <1>1, <1>7 DEF attrVars
<1> QED
  BY <1>3, <1>4, <1>5, <1>6, <1>7 DEF AttrNext

(* it holds at first,                                                      *)
LEMMA InvInit == AttrInit => AttrInv
BY DEF AttrInit, AttrInv, AttrTypeOK

(* and so always.                                                          *)
LEMMA InvAlways == AttrSpec => []AttrInv
<1>1. AttrInit => AttrInv
  BY InvInit
<1>2. AttrInv /\ [AttrNext]_attrVars => AttrInv'
  BY InvStep
<1> QED
  BY <1>1, <1>2, PTL DEF AttrSpec

(* Elements and attributes are always what they are declared to be: each   *)
(* table has chains of entries in all of its slots, and only an element    *)
(* that exists has one.                                                    *)
THEOREM AttributesTypeCorrect == AttrSpec => []AttrTypeOK
BY InvAlways, PTL DEF AttrInv

-----------------------------------------------------------------------------
(* The maps that tables stand for.                                         *)
MapOf(t) == [k \in Keys |-> IF t = NULL THEN NULL ELSE hash_get(t, k)]
MapsOf(a) == [e \in Elements |-> MapOf(a[e])]
NoValues == [k \in Keys |-> NULL]

(* Another table for e is another map for e, all others being as before;   *)
LEMMA MapAt ==
  ASSUME NEW a, TablesOK(a), NEW e \in Elements, NEW t
  PROVE  MapsOf([a EXCEPT ![e] = t]) = [MapsOf(a) EXCEPT ![e] = MapOf(t)]
BY Zenon DEF MapsOf, TablesOK

(* the map it had is the map it had;                                       *)
LEMMA MapStays ==
  ASSUME NEW a, NEW e \in Elements
  PROVE  MapsOf(a) = [MapsOf(a) EXCEPT ![e] = MapOf(a[e])]
BY DEF MapsOf

(* and the map of a table that v was added to has v for k.                 *)
LEMMA MapAdded ==
  ASSUME NEW a, TablesOK(a), NEW e \in Elements, NEW k \in Keys, NEW v \in Values
  PROVE  MapOf(hash_add(TableFor(a, e), k, v)) = [MapsOf(a)[e] EXCEPT ![k] = v]
<1> DEFINE t == TableFor(a, e)
           u == hash_add(t, k, v)
<1>1. /\ TableOK(t)
      /\ \A j \in Keys : hash_get(t, j) = IF a[e] = NULL THEN NULL ELSE hash_get(a[e], j)
  BY TableForRight
<1> HIDE DEF t
<1>2. TableOK(u) /\ \A j \in Keys : hash_get(u, j) = IF j = k THEN v ELSE hash_get(t, j)
  BY <1>1, AddRight
<1> HIDE DEF u
<1>3. u # NULL
  BY <1>2, NullIsNoTable DEF TableOK
<1>4. MapOf(u) = [j \in Keys |-> IF j = k THEN v ELSE hash_get(t, j)]
  BY <1>2, <1>3 DEF MapOf
<1>5. MapsOf(a)[e] = [j \in Keys |-> hash_get(t, j)]
  BY <1>1 DEF MapsOf, MapOf
<1> QED
  BY <1>4, <1>5 DEF u, t

(* Elements are maps from keys to values (xmpp-stanza.c over hash.c): what *)
(* is set last is what is read, an attribute disturbs no other, whatever   *)
(* slot it falls in, and a copy starts as its original and is independent  *)
(* of it from then on.  For any number of elements, keys and slots.        *)
THEOREM AttributesAreKept == AttrSpec => AttributesKept
<1>1. AttrInit => AttributeMaps!Init
  BY DEF AttrInit, AttributeMaps!Init, AttributeMaps!NoAttributes, xmpp_stanza_get_attribute
<1>2. AttrInv /\ [AttrNext]_attrVars =>
        [AttributeMaps!Next]_([e \in Elements |-> [k \in Keys |-> xmpp_stanza_get_attribute(e, k)]])
  <2> DEFINE maps == [e \in Elements |-> [k \in Keys |-> xmpp_stanza_get_attribute(e, k)]]
  <2>1. maps = MapsOf(attributes) /\ maps' = MapsOf(attributes')
    BY DEF MapsOf, MapOf, xmpp_stanza_get_attribute
  <2> SUFFICES ASSUME AttrInv, [AttrNext]_attrVars, maps' # maps
               PROVE  AttributeMaps!Next
    OBVIOUS
  <2>2. TablesOK(attributes)
    BY InvTables
  <2>3. ASSUME NEW e \in Elements, AttrNew(e)
        PROVE  AttributeMaps!Next
    BY <2>1, <2>3 DEF AttrNew
  <2>4. ASSUME NEW e \in Elements, AttrRelease(e)
        PROVE  AttributeMaps!Next
    <3>1. attributes' = [attributes EXCEPT ![e] = NULL]
      BY <2>4 DEF AttrRelease
    <3>2. maps' = [maps EXCEPT ![e] = MapOf(NULL)]
      <4>1. MapsOf(attributes') = [MapsOf(attributes) EXCEPT ![e] = MapOf(NULL)]
        BY <3>1, <2>2, MapAt, Zenon
      <4> QED
        BY <4>1, <2>1, Zenon
    <3>3. MapOf(NULL) = NoValues
      BY DEF MapOf, NoValues
    <3>4. AttributeMaps!Forget(e)
      BY <3>2, <3>3, Zenon DEF AttributeMaps!Forget, AttributeMaps!NoAttributes, NoValues
    <3> QED
      BY <3>4 DEF AttributeMaps!Next
  <2>5. ASSUME NEW e \in Elements, NEW k \in Keys, NEW v \in Values \cup {EmptyString},
               xmpp_stanza_set_attribute(e, k, v)
        PROVE  AttributeMaps!Next
    <3> DEFINE t == TableFor(attributes, e)
    <3>1. CASE v = EmptyString
      <4>1. attributes' = [attributes EXCEPT ![e] = t]
        BY <2>5, <3>1, SetTables, Zenon
      <4>2. MapOf(t) = MapOf(attributes[e])
        BY <2>2, TableForRight DEF MapOf
      <4>3. maps' = maps
        <5>1. MapsOf(attributes') = [MapsOf(attributes) EXCEPT ![e] = MapOf(t)]
          BY <4>1, <2>2, MapAt, Zenon
        <5>2. MapsOf(attributes') = MapsOf(attributes)
          BY <5>1, <4>2, MapStays, Zenon
        <5> QED
          BY <5>2, <2>1, Zenon
      <4> QED
        BY <4>3, Zenon
    <3>2. CASE v # EmptyString
      <4>1. attributes' = [attributes EXCEPT ![e] = hash_add(t, k, v)] /\ v \in Values
        BY <2>5, <3>2, SetTables, Zenon
      <4>2. maps' = [maps EXCEPT ![e] = [maps[e] EXCEPT ![k] = v]]
        <5> DEFINE u == hash_add(t, k, v)
        <5>1. MapsOf(attributes') = [MapsOf(attributes) EXCEPT ![e] = MapOf(u)]
          BY <4>1, <2>2, MapAt, Zenon
        <5>2. MapOf(u) = [MapsOf(attributes)[e] EXCEPT ![k] = v]
          <6>1. v \in Values
            BY <4>1
          <6> QED
            BY <6>1, <2>2, MapAdded
        <5>3. MapsOf(attributes') =
                [MapsOf(attributes) EXCEPT ![e] = [MapsOf(attributes)[e] EXCEPT ![k] = v]]
          BY <5>1, <5>2, Zenon
        <5> QED
          BY <5>3, <2>1, Zenon
      <4>3. AttributeMaps!Set(e, k, v)
        BY <4>2, Zenon DEF AttributeMaps!Set
      <4> QED
        BY <4>1, <4>3 DEF AttributeMaps!Next
    <3> QED
      BY <3>1, <3>2
  <2>6. ASSUME NEW e \in Elements, NEW d \in Elements, CopyAttributes(e, d)
        PROVE  AttributeMaps!Next
    <3> DEFINE t == IF attributes[e] = NULL THEN NULL ELSE Copied(attributes[e])
    <3>1. d \notin made /\ attributes' = [attributes EXCEPT ![d] = t]
      BY <2>6, CopyTables, Zenon
    <3>2. MapOf(t) = MapOf(attributes[e])
      <4>1. CASE attributes[e] = NULL
        BY <4>1
      <4>2. CASE attributes[e] # NULL
        <5>1. TableOK(attributes[e]) /\ t = Copied(attributes[e])
          BY <4>2, <2>2 DEF TablesOK
        <5>2. TableOK(t) /\ \A j \in Keys : hash_get(t, j) = hash_get(attributes[e], j)
          BY <5>1, CopiedRight
        <5>3. t # NULL
          BY <5>2, NullIsNoTable DEF TableOK
        <5> HIDE DEF t
        <5> QED
          BY <4>2, <5>2, <5>3 DEF MapOf
      <4> QED
        BY <4>1, <4>2
    <3>3. maps[d] = NoValues
      <4>1. attributes[d] = NULL
        BY <3>1 DEF AttrInv, AttrTypeOK
      <4> QED
        BY <4>1 DEF xmpp_stanza_get_attribute, NoValues
    <3>4. maps' = [maps EXCEPT ![d] = maps[e]]
      <4>1. MapsOf(attributes') = [MapsOf(attributes) EXCEPT ![d] = MapOf(t)]
        BY <3>1, <2>2, MapAt, Zenon
      <4>2. MapsOf(attributes') = [MapsOf(attributes) EXCEPT ![d] = MapOf(attributes[e])]
        BY <4>1, <3>2, Zenon
      <4>3. MapsOf(attributes)[e] = MapOf(attributes[e])
        BY DEF MapsOf
      <4>4. MapsOf(attributes') = [MapsOf(attributes) EXCEPT ![d] = MapsOf(attributes)[e]]
        BY <4>2, <4>3, Zenon
      <4> QED
        BY <4>4, <2>1, Zenon
    <3>5. maps[d] = AttributeMaps!NoAttributes /\ AttributeMaps!Copy(e, d)
      BY <3>3, <3>4, Zenon DEF AttributeMaps!NoAttributes, AttributeMaps!Copy, NoValues
    <3> QED
      BY <3>5 DEF AttributeMaps!Next
  <2>7. CASE UNCHANGED attrVars
    BY <2>1, <2>7 DEF attrVars
  <2> QED
    BY <2>3, <2>4, <2>5, <2>6, <2>7 DEF AttrNext
<1> QED
  BY <1>1, <1>2, InvAlways, PTL DEF AttrSpec, AttributesKept, AttributeMaps!Spec

-----------------------------------------------------------------------------
(* What the iterator and the loops over it give.  A set of numbers that    *)
(* has 0 and with n also n + 1, up to a bound, has all up to the bound: the*)
(* numbers it lacks would have a least member.                             *)
LEMMA SetInduction ==
  ASSUME NEW S, 0 \in S, NEW m \in Nat,
         \A n \in 0 .. m - 1 : n \in S => n + 1 \in S
  PROVE  0 .. m \subseteq S
<1> SUFFICES ASSUME (0 .. m) \ S # {} PROVE FALSE
  OBVIOUS
<1> DEFINE T == (0 .. m) \ S
           R == OpToRel(<, Nat)
<1>1. IsWellFoundedOn(R, Nat)
  BY NatLessThanWellFounded
<1>2. \A x, y \in Nat : <<y, x>> \in R <=> y < x
  BY DEF OpToRel
<1>3. T \in SUBSET Nat /\ T # {}
  OBVIOUS
<1> HIDE DEF R, T
<1>4. \E x \in T : \A y \in T : ~ (<<y, x>> \in R)
  BY <1>1, <1>3, WFMin
<1>5. PICK x \in T : \A y \in T : ~ (y < x)
  BY <1>2, <1>3, <1>4
<1> USE DEF T
<1>6. x # 0 /\ x - 1 \in 0 .. m - 1 /\ x = (x - 1) + 1
  BY <1>5
<1>7. x - 1 \in S
  BY <1>5, <1>6
<1> QED
  BY <1>5, <1>6, <1>7

LEMMA MaxRoundsType == MaxRounds \in Nat /\ Cardinality(Keys) \in Nat
BY KeysAreFinite, FS_CardinalityType DEF MaxRounds

(* The rounds of a loop follow their definition,                           *)
LEMMA RoundsAre ==
  ASSUME NEW t
  PROVE  \A n \in 0 .. MaxRounds :
           Rounds(t)[n] = IF n = 0 THEN [it |-> hash_iter_new, keys |-> <<>>]
                          ELSE Visited(t, Rounds(t)[n - 1])
<1> DEFINE Def(g, m) == [n \in 0 .. m |-> IF n = 0 THEN [it |-> hash_iter_new, keys |-> <<>>]
                                          ELSE Visited(t, g[n - 1])]
           S == {m \in 0 .. MaxRounds : \E g : g = Def(g, m)}
<1>1. 0 \in S
  <2> DEFINE g == [k \in 0 .. 0 |-> [it |-> hash_iter_new, keys |-> <<>>]]
  <2>1. g = Def(g, 0)
    OBVIOUS
  <2> HIDE DEF g
  <2>2. \E f : f = Def(f, 0)
    BY <2>1
  <2> QED
    BY <2>2, MaxRoundsType
<1>2. ASSUME NEW m \in 0 .. MaxRounds - 1, m \in S
      PROVE  m + 1 \in S
  <2>1. PICK g : g = Def(g, m)
    BY <1>2
  <2> DEFINE h == Def(g, m + 1)
  <2>2. \A k \in 0 .. m : h[k] = g[k]
    <3>1. \A k \in 0 .. m : g[k] = IF k = 0 THEN [it |-> hash_iter_new, keys |-> <<>>]
                                   ELSE Visited(t, g[k - 1])
      BY <2>1
    <3>2. \A k \in 0 .. m : h[k] = IF k = 0 THEN [it |-> hash_iter_new, keys |-> <<>>]
                                   ELSE Visited(t, g[k - 1])
      OBVIOUS
    <3> QED
      BY <3>1, <3>2
  <2>3. Def(g, m + 1) = Def(h, m + 1)
    <3> HIDE DEF h
    <3>1. \A k \in 0 .. m + 1 : k # 0 => h[k - 1] = g[k - 1]
      BY <2>2
    <3> QED
      BY <3>1
  <2>4. h = Def(h, m + 1)
    BY <2>3
  <2> HIDE DEF h
  <2>5. \E f : f = Def(f, m + 1)
    BY <2>4
  <2> QED
    BY <2>5, MaxRoundsType
<1>3. MaxRounds \in S
  <2> HIDE DEF S
  <2>1. \A n \in 0 .. MaxRounds - 1 : n \in S => n + 1 \in S
    BY <1>2
  <2>2. 0 .. MaxRounds \subseteq S
    BY <1>1, <2>1, MaxRoundsType, SetInduction
  <2> QED
    BY <2>2, MaxRoundsType
<1>4. \E g : g = Def(g, MaxRounds)
  BY <1>3
<1>5. Rounds(t) = CHOOSE g : g = Def(g, MaxRounds)
  BY DEF Rounds
<1>6. Rounds(t) = Def(Rounds(t), MaxRounds)
  BY <1>4, <1>5
<1> QED
  BY <1>6

(* and so does the loop of the copy.                                       *)
LEMMA CopyLoopIs ==
  ASSUME NEW t, NEW keys, Len(keys) \in Nat
  PROVE  \A n \in 0 .. Len(keys) :
           CopyLoop(t, keys)[n] =
             IF n = 0 THEN hash_new(TRUE)
             ELSE hash_add(CopyLoop(t, keys)[n - 1], keys[n], hash_get(t, keys[n]))
<1> DEFINE top == Len(keys)
           Added(c, n) == hash_add(c, keys[n], hash_get(t, keys[n]))
<1>t. top \in Nat
  OBVIOUS
<1> HIDE DEF top, Added
<1> DEFINE Def(g, m) == [n \in 0 .. m |-> IF n = 0 THEN hash_new(TRUE)
                                          ELSE Added(g[n - 1], n)]
           S == {m \in 0 .. top : \E g : g = Def(g, m)}
<1>1. 0 \in S
  <2> DEFINE g == [k \in 0 .. 0 |-> hash_new(TRUE)]
  <2>1. g = Def(g, 0)
    OBVIOUS
  <2> HIDE DEF g
  <2>2. \E f : f = Def(f, 0)
    BY <2>1
  <2>3. 0 \in 0 .. top
    BY <1>t
  <2> QED
    BY <2>2, <2>3, Zenon
<1>2. ASSUME NEW m \in 0 .. top - 1, m \in S
      PROVE  m + 1 \in S
  <2>1. PICK g : g = Def(g, m)
    BY <1>2
  <2> DEFINE h == Def(g, m + 1)
  <2>2. \A k \in 0 .. m : h[k] = g[k]
    <3>1. \A k \in 0 .. m : g[k] = IF k = 0 THEN hash_new(TRUE)
                                   ELSE Added(g[k - 1], k)
      BY <2>1
    <3>2. \A k \in 0 .. m : h[k] = IF k = 0 THEN hash_new(TRUE)
                                   ELSE Added(g[k - 1], k)
      BY <1>t
    <3> QED
      BY <3>1, <3>2
  <2>3. Def(g, m + 1) = Def(h, m + 1)
    <3> HIDE DEF h
    <3>1. \A k \in 0 .. m + 1 : k # 0 => h[k - 1] = g[k - 1]
      BY <2>2
    <3> QED
      BY <3>1
  <2>4. h = Def(h, m + 1)
    BY <2>3
  <2> HIDE DEF h
  <2>5. \E f : f = Def(f, m + 1)
    BY <2>4
  <2> QED
    BY <2>5, <1>t
<1>3. top \in S
  <2> HIDE DEF S
  <2>1. \A n \in 0 .. top - 1 : n \in S => n + 1 \in S
    BY <1>2
  <2>2. 0 .. top \subseteq S
    BY <1>1, <2>1, <1>t, SetInduction
  <2> QED
    BY <2>2, <1>t
<1>4. \E g : g = Def(g, top)
  BY <1>3
<1>5. CopyLoop(t, keys) = CHOOSE g : g = Def(g, top)
  BY DEF CopyLoop, top, Added
<1>6. CopyLoop(t, keys) = Def(CopyLoop(t, keys), top)
  BY <1>4, <1>5
<1> QED
  BY <1>6 DEF top, Added

(* How far a loop has come: of the chain in slot i it has met the first    *)
(* at[i] entries, where the iterator stands on the last of them.           *)
StandsAt(t, it, at) ==
  /\ at \in [Slots -> Nat]
  /\ \/ it = hash_iter_new /\ \A i \in Slots : at[i] = 0
     \/ \E x \in Slots :
          /\ at[x] \in 1 .. Len(t.entries[x])
          /\ it = [index |-> x, entry |-> t.entries[x][at[x]].key]
          /\ \A i \in Slots : i < x => at[i] = Len(t.entries[i])
          /\ \A i \in Slots : i > x => at[i] = 0

AllMet(t, at) == \A i \in Slots : at[i] = Len(t.entries[i])

(* One step is to the next entry of some slot, or there is none left.      *)
Advances(t, it, at) ==
  \/ hash_iter_next(t, it).key = NULL /\ AllMet(t, at)
  \/ \E x \in Slots :
       /\ at[x] < Len(t.entries[x])
       /\ hash_iter_next(t, it).key = t.entries[x][at[x] + 1].key
       /\ StandsAt(t, hash_iter_next(t, it).it, [at EXCEPT ![x] = @ + 1])

LEMMA ChainsAre ==
  ASSUME NEW t, TableOK(t), NEW i \in Slots
  PROVE  /\ t.entries[i] \in Seq(Entries) /\ Len(t.entries[i]) \in Nat
         /\ \A p \in 1 .. Len(t.entries[i]) :
              /\ t.entries[i][p] \in Entries /\ t.entries[i][p].key \in Keys
              /\ t.entries[i][p].key # NULL
              /\ t.entries[i][p].value \in Values
              /\ HashKey[t.entries[i][p].key] = i
         /\ \A p, q \in 1 .. Len(t.entries[i]) :
              t.entries[i][p].key = t.entries[i][q].key => p = q
<1>1. t.entries[i] \in Seq(Entries)
  BY DEF TableOK, Tables
<1>2. /\ \A p \in 1 .. Len(t.entries[i]) : HashKey[t.entries[i][p].key] = i
      /\ \A p, q \in 1 .. Len(t.entries[i]) :
           t.entries[i][p].key = t.entries[i][q].key => p = q
  BY DEF TableOK, KeysInPlace
<1>3. \A p \in 1 .. Len(t.entries[i]) : t.entries[i][p] \in Entries
  BY <1>1
<1>4. \A e \in Entries : e.key \in Keys /\ e.key # NULL /\ e.value \in Values
  BY NullIsNoKey DEF Entries
<1> QED
  BY <1>1, <1>2, <1>3, <1>4

LEMMA LeastSlot ==
  ASSUME NEW S \in SUBSET Slots, S # {}
  PROVE  LET least == CHOOSE i \in S : \A j \in S : i <= j
         IN  least \in S /\ \A j \in S : least <= j
<1> DEFINE R == OpToRel(<, Nat)
<1>1. IsWellFoundedOn(R, Nat)
  BY NatLessThanWellFounded
<1>2. \A x, y \in Nat : <<y, x>> \in R <=> y < x
  BY DEF OpToRel
<1>3. S \in SUBSET Nat /\ S # {}
  BY LengthAssumption DEF Slots
<1> HIDE DEF R
<1>4. \E i \in S : \A j \in S : ~ (<<j, i>> \in R)
  BY <1>1, <1>3, WFMin
<1>5. PICK i \in S : \A j \in S : ~ (<<j, i>> \in R)
  BY <1>4
<1>6. \A j \in S : ~ (j < i) /\ j \in Nat /\ i \in Nat
  BY <1>2, <1>3, <1>5
<1>7. \A j \in S : i <= j
  BY <1>6
<1>8. \E m \in S : \A j \in S : m <= j
  BY <1>7
<1> QED
  BY <1>8

LEMMA NextOf ==
  ASSUME NEW t, NEW it, NEW new, Successors(t, it) = {new}
  PROVE  hash_iter_next(t, it) = [it |-> new, key |-> new.entry]
BY DEF hash_iter_next

LEMMA NextOfNone ==
  ASSUME NEW t, NEW it, Successors(t, it) = {}
  PROVE  hash_iter_next(t, it).key = NULL
BY DEF hash_iter_next

(* At the end of a chain, and at first, the next entry is the head of the  *)
(* next chain that has one.                                                *)
Later(t, x) == {i \in Slots : i > x /\ t.entries[i] # <<>>}
LaterSlot(t, x) == CHOOSE i \in Later(t, x) : \A j \in Later(t, x) : i <= j

LEMMA NextChain ==
  ASSUME NEW t, TableOK(t), NEW it, NEW x \in Int, NEW at \in [Slots -> Nat],
         \A i \in Slots : i <= x => at[i] = Len(t.entries[i]),
         \A i \in Slots : i > x => at[i] = 0,
         Successors(t, it) =
           IF Later(t, x) = {} THEN {}
           ELSE {[index |-> LaterSlot(t, x), entry |-> t.entries[LaterSlot(t, x)][1].key]}
  PROVE  Advances(t, it, at)
<1>s. \A i \in Slots : i \in Int
  BY DEF Slots
<1>1. \A i \in Slots : t.entries[i] = <<>> <=> Len(t.entries[i]) = 0
  BY ChainsAre
<1>2. CASE Later(t, x) = {}
  <2>1. \A i \in Slots : i > x => Len(t.entries[i]) = 0
    BY <1>1, <1>2 DEF Later
  <2>2. AllMet(t, at)
    BY <2>1, <1>s DEF AllMet
  <2> QED
    BY <2>2, <1>2, NextOfNone DEF Advances
<1>3. CASE Later(t, x) # {}
  <2> DEFINE y == LaterSlot(t, x)
             new == [index |-> y, entry |-> t.entries[y][1].key]
             upto == [at EXCEPT ![y] = @ + 1]
  <2>1. y \in Later(t, x) /\ \A j \in Later(t, x) : y <= j
    BY <1>3, LeastSlot DEF LaterSlot, Later
  <2> HIDE DEF y
  <2>2. y \in Slots /\ y > x /\ Len(t.entries[y]) # 0 /\ at[y] = 0
    BY <2>1, <1>1 DEF Later
  <2>3. \A i \in Slots : i > x /\ i < y => Len(t.entries[i]) = 0
    BY <2>1, <1>1, <1>s DEF Later
  <2>4. upto \in [Slots -> Nat] /\ upto[y] = 1 /\ \A i \in Slots : i # y => upto[i] = at[i]
    BY <2>2
  <2>5. \A i \in Slots : i < y => upto[i] = Len(t.entries[i])
    BY <2>3, <2>4, <1>s
  <2>6. \A i \in Slots : i > y => upto[i] = 0
    BY <2>2, <2>4, <1>s
  <2> HIDE DEF upto
  <2>7. upto[y] \in 1 .. Len(t.entries[y])
    BY <2>2, <2>4, ChainsAre
  <2>8. StandsAt(t, new, upto)
    BY <2>2, <2>4, <2>5, <2>6, <2>7 DEF StandsAt
  <2>9. Successors(t, it) = {new}
    BY <1>3 DEF y
  <2> HIDE DEF new
  <2>10. hash_iter_next(t, it) = [it |-> new, key |-> new.entry]
    BY <2>9, NextOf
  <2>11. hash_iter_next(t, it).it = new /\ hash_iter_next(t, it).key = t.entries[y][1].key
    BY <2>10 DEF new
  <2>12. at[y] < Len(t.entries[y]) /\ at[y] + 1 = 1
    BY <2>2, ChainsAre
  <2> QED
    BY <2>2, <2>8, <2>11, <2>12 DEF Advances, upto
<1> QED
  BY <1>2, <1>3

LEMMA NextAdvances ==
  ASSUME NEW t, TableOK(t), NEW it, NEW at, StandsAt(t, it, at)
  PROVE  Advances(t, it, at)
<1>0. at \in [Slots -> Nat]
  BY DEF StandsAt
<1>s. \A i \in Slots : i \in Nat
  BY LengthAssumption DEF Slots
<1>1. CASE it = hash_iter_new /\ \A i \in Slots : at[i] = 0
  <2>1. it.entry = NULL /\ it.index = -1
    BY <1>1 DEF hash_iter_new
  <2>2. Successors(t, it) =
          IF Later(t, -1) = {} THEN {}
          ELSE {[index |-> LaterSlot(t, -1), entry |-> t.entries[LaterSlot(t, -1)][1].key]}
    BY <2>1 DEF Successors, Later, LaterSlot
  <2>3. \A i \in Slots : ~ (i <= -1)
    BY <1>s
  <2> QED
    BY <1>0, <1>1, <2>2, <2>3, NextChain
<1>2. CASE \E x \in Slots :
             /\ at[x] \in 1 .. Len(t.entries[x])
             /\ it = [index |-> x, entry |-> t.entries[x][at[x]].key]
             /\ \A i \in Slots : i < x => at[i] = Len(t.entries[i])
             /\ \A i \in Slots : i > x => at[i] = 0
  <2>1. PICK x \in Slots :
             /\ at[x] \in 1 .. Len(t.entries[x])
             /\ it = [index |-> x, entry |-> t.entries[x][at[x]].key]
             /\ \A i \in Slots : i < x => at[i] = Len(t.entries[i])
             /\ \A i \in Slots : i > x => at[i] = 0
    BY <1>2
  <2> DEFINE c == t.entries[x]
             k == c[at[x]].key
  <2>2. /\ Len(c) \in Nat /\ at[x] \in 1 .. Len(c) /\ k \in Keys /\ k # NULL
        /\ HashKey[k] = x /\ it.index = x /\ it.entry = k
    BY <2>1, ChainsAre
  <2>3. FirstHit(c, k) = at[x]
    <3>1. Chain(t, k) = c /\ IsTable(t, Values)
      BY <2>2, TableIs DEF Chain
    <3> QED
      BY <3>1, <2>2, GetHit
  <2>4. CASE at[x] < Len(c)
    <3> DEFINE new == [it EXCEPT !.entry = c[at[x] + 1].key]
               upto == [at EXCEPT ![x] = @ + 1]
    <3>1. Successors(t, it) = {new}
      BY <2>2, <2>3, <2>4 DEF Successors
    <3>2. new = [index |-> x, entry |-> c[at[x] + 1].key]
      BY <2>1
    <3>3. /\ upto \in [Slots -> Nat] /\ upto[x] = at[x] + 1
          /\ \A i \in Slots : i # x => upto[i] = at[i]
      BY <1>0
    <3>4. /\ upto[x] \in 1 .. Len(c)
          /\ \A i \in Slots : i < x => upto[i] = Len(t.entries[i])
          /\ \A i \in Slots : i > x => upto[i] = 0
      BY <2>1, <2>2, <2>4, <3>3, <1>s
    <3> HIDE DEF new, upto
    <3>5. StandsAt(t, new, upto)
      BY <3>2, <3>3, <3>4 DEF StandsAt
    <3>6. hash_iter_next(t, it) = [it |-> new, key |-> new.entry]
      BY <3>1, NextOf
    <3>7. hash_iter_next(t, it).it = new /\ hash_iter_next(t, it).key = c[at[x] + 1].key
      BY <3>2, <3>6
    <3> QED
      BY <2>4, <3>5, <3>7 DEF Advances, upto
  <2>5. CASE ~(at[x] < Len(c))
    <3>1. Successors(t, it) =
            IF Later(t, x) = {} THEN {}
            ELSE {[index |-> LaterSlot(t, x), entry |-> t.entries[LaterSlot(t, x)][1].key]}
      BY <2>2, <2>3, <2>5 DEF Successors, Later, LaterSlot
    <3>2. \A i \in Slots : i <= x => at[i] = Len(t.entries[i])
      BY <2>1, <2>2, <2>5, <1>s
    <3>3. x \in Int
      BY <1>s
    <3> QED
      BY <1>0, <2>1, <3>1, <3>2, <3>3, NextChain
  <2> QED
    BY <2>4, <2>5
<1> QED
  BY <1>1, <1>2 DEF StandsAt

-----------------------------------------------------------------------------
(* What an iterator has met, and what a copy of that is.                   *)
Met(t, at, k) == \E i \in Slots : \E p \in 1 .. at[i] : t.entries[i][p].key = k

CopyOf(t, at, c) ==
  \A i \in Slots : /\ Len(c.entries[i]) = at[i]
                   /\ \A p \in 1 .. at[i] : c.entries[i][p] = t.entries[i][at[i] - p + 1]

(* The entry that comes next in slot x.                                    *)
NextEntry(t, at, x) == t.entries[x][at[x] + 1]
MovedOn(at, x) == [at EXCEPT ![x] = @ + 1]

LEMMA StandsBounded ==
  ASSUME NEW t, TableOK(t), NEW it, NEW at, StandsAt(t, it, at), NEW i \in Slots
  PROVE  at[i] \in Nat /\ at[i] <= Len(t.entries[i])
<1>1. \A j \in Slots : j \in Int /\ Len(t.entries[j]) \in Nat
  BY ChainsAre DEF Slots
<1> QED
  BY <1>1 DEF StandsAt

(* The next entry is in no other place, so its key is new.                 *)
LEMMA NextIsNew ==
  ASSUME NEW t, TableOK(t), NEW it, NEW at, StandsAt(t, it, at),
         NEW x \in Slots, at[x] < Len(t.entries[x]), NEW e, e = NextEntry(t, at, x)
  PROVE  /\ e \in Entries /\ e = [key |-> e.key, value |-> e.value]
         /\ e.key \in Keys /\ e.value \in Values /\ HashKey[e.key] = x
         /\ hash_get(t, e.key) = e.value
         /\ ~ Met(t, at, e.key)
         /\ \A k \in Keys : Met(t, MovedOn(at, x), k) <=> Met(t, at, k) \/ k = e.key
<1> DEFINE n == at[x] + 1
           upto == MovedOn(at, x)
<1>e. e = t.entries[x][n]
  BY DEF NextEntry
<1>1. /\ \A i \in Slots : at[i] \in Nat /\ at[i] <= Len(t.entries[i])
      /\ at \in [Slots -> Nat]
  BY StandsBounded DEF StandsAt
<1>2. n \in 1 .. Len(t.entries[x]) /\ Len(t.entries[x]) \in Nat
  BY <1>1, ChainsAre
<1>3. e \in Entries /\ e.key \in Keys /\ e.value \in Values /\ HashKey[e.key] = x
  BY <1>2, <1>e, ChainsAre
<1>4. e = [key |-> e.key, value |-> e.value]
  BY <1>3 DEF Entries
<1>5. hash_get(t, e.key) = e.value
  <2>1. Chain(t, e.key) = t.entries[x] /\ IsTable(t, Values)
    BY <1>3, TableIs DEF Chain
  <2> QED
    BY <2>1, <1>2, <1>3, <1>e, GetHit
<1>6. ASSUME NEW i \in Slots, NEW p \in 1 .. at[i], t.entries[i][p].key = e.key
      PROVE  FALSE
  <2>1. p \in 1 .. Len(t.entries[i])
    BY <1>1, ChainsAre
  <2>2. i = x
    BY <2>1, <1>3, <1>6, ChainsAre
  <2>3. p = n
    BY <2>1, <2>2, <1>2, <1>6, <1>e, ChainsAre
  <2> QED
    BY <2>2, <2>3, <1>1
<1>7. /\ upto[x] = n /\ \A i \in Slots : i # x => upto[i] = at[i]
      /\ upto \in [Slots -> Nat]
  BY <1>1 DEF MovedOn
<1>8. ASSUME NEW k \in Keys
      PROVE  Met(t, upto, k) <=> Met(t, at, k) \/ k = e.key
  <2> HIDE DEF upto, n
  <2>0. n = at[x] + 1 /\ at[x] \in Nat
    BY <1>1 DEF n
  <2>1. ASSUME NEW i \in Slots, NEW p \in 1 .. upto[i], t.entries[i][p].key = k
        PROVE  Met(t, at, k) \/ k = e.key
    <3>1. CASE i = x /\ p = n
      BY <3>1, <2>1, <1>e
    <3>2. CASE i = x /\ p # n
      <4>1. p \in 1 .. at[x]
        BY <3>2, <2>0, <1>7
      <4> QED
        BY <4>1, <3>2, <2>1 DEF Met
    <3>3. CASE i # x
      BY <3>3, <2>1, <1>7 DEF Met
    <3> QED
      BY <3>1, <3>2, <3>3
  <2>2. ASSUME NEW i \in Slots, NEW p \in 1 .. at[i], t.entries[i][p].key = k
        PROVE  Met(t, upto, k)
    <3>1. p \in 1 .. upto[i]
      BY <2>0, <1>1, <1>7
    <3> QED
      BY <3>1, <2>2 DEF Met
  <2>3. k = e.key => Met(t, upto, k)
    <3>1. n \in 1 .. upto[x]
      BY <2>0, <1>7
    <3> QED
      BY <3>1, <1>e DEF Met
  <2> QED
    BY <2>1, <2>2, <2>3 DEF Met
<1> QED
  BY <1>3, <1>4, <1>5, <1>6, <1>8 DEF Met

(* A copy so far, and one entry more.                                      *)
LEMMA CopyAdds ==
  ASSUME NEW t, TableOK(t), NEW it, NEW at, StandsAt(t, it, at),
         NEW x \in Slots, at[x] < Len(t.entries[x]),
         NEW c, TableOK(c), CopyOf(t, at, c), NEW e, e = NextEntry(t, at, x)
  PROVE  /\ TableOK(hash_add(c, e.key, e.value))
         /\ hash_add(c, e.key, e.value).num_keys = c.num_keys + 1
         /\ CopyOf(t, MovedOn(at, x), hash_add(c, e.key, e.value))
<1> DEFINE n == at[x]
           d == hash_add(c, e.key, e.value)
           upto == MovedOn(at, x)
<1>e. e = t.entries[x][n + 1]
  BY DEF NextEntry
<1>1. /\ \A i \in Slots : at[i] \in Nat /\ at[i] <= Len(t.entries[i])
      /\ at \in [Slots -> Nat]
  BY StandsBounded DEF StandsAt
<1>2. /\ e = [key |-> e.key, value |-> e.value]
      /\ e.key \in Keys /\ e.value \in Values /\ HashKey[e.key] = x
      /\ ~ Met(t, at, e.key)
  BY NextIsNew
<1>3. TableOK(d)
  BY <1>2, AddRight
<1>4. Chain(c, e.key) = c.entries[x]
  BY <1>2 DEF Chain
<1>5. Len(c.entries[x]) = n /\ n \in Nat
  BY <1>1 DEF CopyOf
<1>6. \A p \in 1 .. n : c.entries[x][p].key # e.key
  <2> SUFFICES ASSUME NEW p \in 1 .. n PROVE c.entries[x][p].key # e.key
    OBVIOUS
  <2>1. c.entries[x][p] = t.entries[x][n - p + 1]
    BY DEF CopyOf
  <2>2. n - p + 1 \in 1 .. at[x]
    BY <1>5
  <2> QED
    BY <2>1, <2>2, <1>2 DEF Met
<1>7. hash_drop(c, e.key) = c
  BY <1>4, <1>5, <1>6 DEF hash_drop, Hits, Chain
<1>8. d = Inserted(c, e.key, e.value)
  <2>1. c.free = TRUE
    BY DEF TableOK, Tables
  <2> QED
    BY <2>1, <1>2, <1>7, EmptyKeyAssumption DEF hash_add, Refuses
<1> DEFINE new == <<e>> \o c.entries[x]
<1>9. d.num_keys = c.num_keys + 1 /\ d.entries = [c.entries EXCEPT ![x] = new]
  <2>1. IsTable(c, Values)
    BY TableIs
  <2>2. /\ Inserted(c, e.key, e.value).num_keys = c.num_keys + 1
        /\ Inserted(c, e.key, e.value).entries =
             [c.entries EXCEPT ![HashKey[e.key]] =
                <<[key |-> e.key, value |-> e.value]>> \o Chain(c, e.key)]
    BY <2>1, <1>2, InsertedIs
  <2> QED
    BY <2>2, <1>2, <1>4, <1>8
<1>10. /\ upto[x] = n + 1 /\ \A i \in Slots : i # x => upto[i] = at[i]
  BY <1>1 DEF MovedOn
<1>11. e \in Entries
  BY NextIsNew
<1>12. c.entries \in [Slots -> Seq(Entries)]
  BY DEF TableOK, Tables
<1>13. /\ Len(new) = n + 1
       /\ \A p \in 1 .. n + 1 : new[p] = IF p = 1 THEN e ELSE c.entries[x][p - 1]
  <2> HIDE DEF n
  <2>1. c.entries[x] \in Seq(Entries) /\ <<e>> \in Seq(Entries) /\ Len(<<e>>) = 1 /\ <<e>>[1] = e
    BY <1>11, <1>12
  <2>2. Len(new) = 1 + n
        /\ \A p \in 1 .. 1 + n : new[p] = IF p <= 1 THEN <<e>>[p] ELSE c.entries[x][p - 1]
    BY <2>1, <1>5, ConcatProperties
  <2> QED
    BY <2>1, <2>2, <1>5
<1>14. ASSUME NEW i \in Slots
       PROVE  /\ Len(d.entries[i]) = upto[i]
              /\ \A p \in 1 .. upto[i] : d.entries[i][p] = t.entries[i][upto[i] - p + 1]
  <2> HIDE DEF d, upto, new
  <2>1. CASE i # x
    BY <2>1, <1>9, <1>10, <1>12 DEF CopyOf
  <2>2. CASE i = x
    <3>1. d.entries[x] = new
      BY <1>9, <1>12
    <3> SUFFICES ASSUME NEW p \in 1 .. n + 1 PROVE new[p] = t.entries[x][(n + 1) - p + 1]
      BY <3>1, <2>2, <1>10, <1>13
    <3>2. CASE p = 1
      <4>1. (n + 1) - p + 1 = n + 1
        BY <3>2, <1>5
      <4> QED
        BY <4>1, <3>2, <1>13, <1>e
    <3>3. CASE p # 1
      <4>1. p - 1 \in 1 .. n /\ n - (p - 1) + 1 = (n + 1) - p + 1
        BY <3>3, <1>5
      <4>2. c.entries[x][p - 1] = t.entries[x][n - (p - 1) + 1]
        BY <4>1 DEF CopyOf
      <4> QED
        BY <4>1, <4>2, <3>3, <1>13
    <3> QED
      BY <3>2, <3>3
  <2> QED
    BY <2>1, <2>2
<1> QED
  BY <1>3, <1>9, <1>14 DEF CopyOf

-----------------------------------------------------------------------------
(* The loops.                                                              *)
LEMMA CopyLoopExtends ==
  ASSUME NEW t, NEW keys \in Seq(Keys), NEW k \in Keys
  PROVE  CopyLoop(t, Append(keys, k))[Len(keys) + 1]
           = hash_add(CopyLoop(t, keys)[Len(keys)], k, hash_get(t, k))
<1> DEFINE more == Append(keys, k)
           n == Len(keys)
           old == CopyLoop(t, keys)
           new == CopyLoop(t, more)
           S == {i \in 0 .. n : new[i] = old[i]}
<1>1. /\ n \in Nat /\ Len(more) = n + 1 /\ more[n + 1] = k
      /\ \A i \in 1 .. n : more[i] = keys[i]
  OBVIOUS
<1>2. \A i \in 0 .. n : old[i] = IF i = 0 THEN hash_new(TRUE)
                                 ELSE hash_add(old[i - 1], keys[i], hash_get(t, keys[i]))
  <2>1. Len(keys) \in Nat
    BY ONLY <1>1
  <2>2. \A i \in 0 .. Len(keys) :
          CopyLoop(t, keys)[i] = IF i = 0 THEN hash_new(TRUE)
                                 ELSE hash_add(CopyLoop(t, keys)[i - 1], keys[i], hash_get(t, keys[i]))
    BY ONLY <2>1, CopyLoopIs
  <2> QED
    BY ONLY <2>2
<1>3. \A i \in 0 .. n + 1 : new[i] = IF i = 0 THEN hash_new(TRUE)
                                     ELSE hash_add(new[i - 1], more[i], hash_get(t, more[i]))
  <2> HIDE DEF more
  <2>1. Len(more) \in Nat
    BY <1>1
  <2>2. \A i \in 0 .. Len(more) :
          CopyLoop(t, more)[i] = IF i = 0 THEN hash_new(TRUE)
                                 ELSE hash_add(CopyLoop(t, more)[i - 1], more[i], hash_get(t, more[i]))
    BY ONLY <2>1, CopyLoopIs
  <2>3. Len(more) = n + 1
    BY ONLY <1>1
  <2> QED
    BY ONLY <2>2, <2>3
<1> HIDE DEF more, n, old, new
<1>4. 0 \in S
  <2>1. 0 \in 0 .. n /\ 0 \in 0 .. n + 1
    BY <1>1
  <2>2. new[0] = old[0]
    BY <1>2, <1>3, <2>1, Zenon
  <2> QED
    BY <2>1, <2>2, Zenon
<1>5. ASSUME NEW i \in 0 .. n - 1, i \in S
      PROVE  i + 1 \in S
  <2>1. i + 1 \in 1 .. n /\ i + 1 \in 0 .. n /\ i + 1 \in 0 .. n + 1 /\ i + 1 # 0 /\ (i + 1) - 1 = i
    BY <1>1
  <2>2. new[i] = old[i]
    BY <1>5
  <2>3. new[i + 1] = old[i + 1]
    BY <1>1, <1>2, <1>3, <2>1, <2>2
  <2> QED
    BY <2>1, <2>3
<1>6. n \in S
  <2> HIDE DEF S
  <2>1. \A i \in 0 .. n - 1 : i \in S => i + 1 \in S
    BY <1>5
  <2>2. 0 .. n \subseteq S
    BY <1>1, <1>4, <2>1, SetInduction
  <2> QED
    BY <1>1, <2>2
<1>7. new[n] = old[n]
  BY <1>6
<1>8. n + 1 \in 0 .. n + 1 /\ n + 1 # 0 /\ (n + 1) - 1 = n
  BY <1>1
<1>9. new[n + 1] = hash_add(old[n], k, hash_get(t, k))
  BY <1>1, <1>3, <1>7, <1>8
<1> QED
  BY <1>9 DEF new, old, more, n

(* A loop after some rounds: it has met each key once that the iterator has*)
(* passed, and the copy of what it has met is a table with each chain, as  *)
(* far as it was passed, reversed.                                         *)
WalkOK(t, s, at) ==
  /\ StandsAt(t, s.it, at)
  /\ s.keys \in Seq(Keys)
  /\ \A i, j \in 1 .. Len(s.keys) : s.keys[i] = s.keys[j] => i = j
  /\ \A k \in Keys : (\E j \in 1 .. Len(s.keys) : s.keys[j] = k) <=> Met(t, at, k)
  /\ TableOK(CopyLoop(t, s.keys)[Len(s.keys)])
  /\ CopyLoop(t, s.keys)[Len(s.keys)].num_keys = Len(s.keys)
  /\ CopyOf(t, at, CopyLoop(t, s.keys)[Len(s.keys)])

LEMMA WalkStarts ==
  ASSUME NEW t, TableOK(t)
  PROVE  WalkOK(t, [it |-> hash_iter_new, keys |-> <<>>], [i \in Slots |-> 0])
<1> DEFINE s == [it |-> hash_iter_new, keys |-> <<>>]
           at == [i \in Slots |-> 0]
<1>1. StandsAt(t, s.it, at)
  BY DEF StandsAt
<1>2. s.keys = <<>> /\ s.keys \in Seq(Keys) /\ Len(s.keys) = 0
  OBVIOUS
<1>3. \A k : ~ Met(t, at, k)
  BY DEF Met
<1>4. CopyLoop(t, s.keys)[Len(s.keys)] = hash_new(TRUE)
  <2>1. Len(s.keys) \in Nat /\ Len(s.keys) = 0 /\ 0 \in 0 .. Len(s.keys)
    BY <1>2
  <2>2. CopyLoop(t, s.keys)[0] = hash_new(TRUE)
    <3> DEFINE keys == s.keys
    <3>1. Len(keys) \in Nat /\ 0 \in 0 .. Len(keys)
      BY <2>1
    <3> HIDE DEF keys
    <3>2. \A n \in 0 .. Len(keys) :
            CopyLoop(t, keys)[n] = IF n = 0 THEN hash_new(TRUE)
                                   ELSE hash_add(CopyLoop(t, keys)[n - 1], keys[n], hash_get(t, keys[n]))
      BY <3>1, CopyLoopIs
    <3>3. CopyLoop(t, keys)[0] = hash_new(TRUE)
      BY <3>1, <3>2, Zenon
    <3> QED
      BY <3>3 DEF keys
  <2> QED
    BY <2>1, <2>2, Zenon
<1>5. TableOK(hash_new(TRUE))
  BY NewRight, TableIs DEF hash_new
<1>6. hash_new(TRUE).num_keys = 0 /\ CopyOf(t, at, hash_new(TRUE))
  BY DEF hash_new, CopyOf
<1>7. /\ TableOK(CopyLoop(t, s.keys)[Len(s.keys)])
      /\ CopyLoop(t, s.keys)[Len(s.keys)].num_keys = Len(s.keys)
      /\ CopyOf(t, at, CopyLoop(t, s.keys)[Len(s.keys)])
  BY <1>2, <1>4, <1>5, <1>6, Zenon
<1>8. /\ \A i, j \in 1 .. Len(s.keys) : s.keys[i] = s.keys[j] => i = j
      /\ \A k \in Keys : (\E j \in 1 .. Len(s.keys) : s.keys[j] = k) <=> Met(t, at, k)
  BY <1>2, <1>3
<1> HIDE DEF s, at
<1>9. WalkOK(t, s, at)
  BY <1>1, <1>2, <1>7, <1>8, Zenon DEF WalkOK
<1> QED
  BY <1>9 DEF s, at

LEMMA WalkSteps ==
  ASSUME NEW t, TableOK(t), NEW s, NEW at, WalkOK(t, s, at)
  PROVE  \/ AllMet(t, at) /\ Visited(t, s) = s
         \/ \E upto : /\ WalkOK(t, Visited(t, s), upto)
                      /\ Len(Visited(t, s).keys) = Len(s.keys) + 1
<1>1. StandsAt(t, s.it, at) /\ s.keys \in Seq(Keys)
  BY DEF WalkOK
<1> DEFINE next == hash_iter_next(t, s.it)
<1>2. CASE next.key = NULL /\ AllMet(t, at)
  BY <1>2 DEF Visited
<1>3. CASE \E x \in Slots : /\ at[x] < Len(t.entries[x])
                            /\ next.key = t.entries[x][at[x] + 1].key
                            /\ StandsAt(t, next.it, [at EXCEPT ![x] = @ + 1])
  <2>1. PICK x \in Slots : /\ at[x] < Len(t.entries[x])
                           /\ next.key = NextEntry(t, at, x).key
                           /\ StandsAt(t, next.it, MovedOn(at, x))
    BY <1>3 DEF NextEntry, MovedOn
  <2> DEFINE e == NextEntry(t, at, x)
             upto == MovedOn(at, x)
             u == Visited(t, s)
             n == Len(s.keys)
             c == CopyLoop(t, s.keys)[n]
             d == CopyLoop(t, u.keys)[n + 1]
  <2>2. /\ e.key \in Keys /\ hash_get(t, e.key) = e.value
        /\ ~ Met(t, at, e.key)
        /\ \A k \in Keys : Met(t, upto, k) <=> Met(t, at, k) \/ k = e.key
    BY <1>1, <2>1, NextIsNew
  <2>3. u = [it |-> next.it, keys |-> Append(s.keys, e.key)]
    BY <2>1, <2>2, NullIsNoKey DEF Visited
  <2>4. u.it = next.it /\ u.keys = Append(s.keys, e.key)
    BY <2>3
  <2>5. /\ u.keys \in Seq(Keys) /\ n \in Nat /\ Len(u.keys) = n + 1
        /\ u.keys[n + 1] = e.key
        /\ \A i \in 1 .. n : u.keys[i] = s.keys[i]
    BY <1>1, <2>2, <2>4
  <2>6. /\ \A i, j \in 1 .. n : s.keys[i] = s.keys[j] => i = j
        /\ \A k \in Keys : (\E j \in 1 .. n : s.keys[j] = k) <=> Met(t, at, k)
        /\ TableOK(c) /\ c.num_keys = n /\ CopyOf(t, at, c)
    BY DEF WalkOK
  <2>7. \A i \in 1 .. n : s.keys[i] # e.key
    BY <2>2, <2>6
  <2>8. d = hash_add(c, e.key, e.value)
    BY <1>1, <2>2, <2>4, CopyLoopExtends
  <2>9. TableOK(d) /\ d.num_keys = n + 1 /\ CopyOf(t, upto, d)
    <3> HIDE DEF c, n, d, upto
    <3>1. /\ TableOK(hash_add(c, e.key, e.value))
          /\ hash_add(c, e.key, e.value).num_keys = c.num_keys + 1
          /\ CopyOf(t, MovedOn(at, x), hash_add(c, e.key, e.value))
      BY <1>1, <2>1, <2>6, CopyAdds
    <3> QED
      BY <2>6, <2>8, <3>1 DEF upto
  <2> HIDE DEF e, upto, u, n, c, d
  <2>10. StandsAt(t, u.it, upto)
    BY <2>1, <2>4 DEF upto
  <2>11. \A i, j \in 1 .. n + 1 : u.keys[i] = u.keys[j] => i = j
    <3>1. \A i \in 1 .. n + 1 : i \in 1 .. n \/ i = n + 1
      BY <2>5
    <3> QED
      BY <3>1, <2>5, <2>6, <2>7
  <2>12. ASSUME NEW k \in Keys
         PROVE  (\E j \in 1 .. n + 1 : u.keys[j] = k) <=> Met(t, upto, k)
    <3>1. \A i \in 1 .. n + 1 : i \in 1 .. n \/ i = n + 1
      BY <2>5
    <3>2. n + 1 \in 1 .. n + 1 /\ \A i \in 1 .. n : i \in 1 .. n + 1
      BY <2>5
    <3>3. (\E j \in 1 .. n + 1 : u.keys[j] = k) <=> (\E j \in 1 .. n : s.keys[j] = k) \/ k = e.key
      BY <3>1, <3>2, <2>5
    <3> QED
      BY <3>3, <2>2, <2>6
  <2>13. /\ TableOK(CopyLoop(t, u.keys)[n + 1])
         /\ CopyLoop(t, u.keys)[n + 1].num_keys = n + 1
         /\ CopyOf(t, upto, CopyLoop(t, u.keys)[n + 1])
    BY <2>9 DEF d
  <2>14. WalkOK(t, u, upto)
    BY <2>5, <2>10, <2>11, <2>12, <2>13 DEF WalkOK
  <2> QED
    BY <2>5, <2>14 DEF u, n
<1> QED
  BY <1>1, <1>2, <1>3, NextAdvances DEF Advances

(* The rounds are enough: with each the loop has met another key, and there*)
(* are no more than Keys.                                                  *)
LEMMA WalkEnds ==
  ASSUME NEW t, TableOK(t)
  PROVE  \E at : WalkOK(t, Rounds(t)[MaxRounds], at) /\ AllMet(t, at)
<1> DEFINE r == Rounds(t)
           Good(n) == \E at : /\ WalkOK(t, r[n], at)
                              /\ AllMet(t, at) \/ Len(r[n].keys) = n
           S == {n \in 0 .. MaxRounds : Good(n)}
<1>1. \A n \in 0 .. MaxRounds :
        r[n] = IF n = 0 THEN [it |-> hash_iter_new, keys |-> <<>>] ELSE Visited(t, r[n - 1])
  BY RoundsAre
<1> HIDE DEF r
<1>2. 0 \in S
  <2>1. 0 \in 0 .. MaxRounds
    BY MaxRoundsType
  <2>2. r[0] = [it |-> hash_iter_new, keys |-> <<>>]
    BY <1>1, <2>1
  <2>3. Len(r[0].keys) = 0
    BY <2>2
  <2>4. WalkOK(t, r[0], [i \in Slots |-> 0])
    BY <2>2, WalkStarts
  <2>5. Good(0)
    BY <2>3, <2>4
  <2> QED
    BY <2>1, <2>5
<1>3. ASSUME NEW n \in 0 .. MaxRounds - 1, n \in S
      PROVE  n + 1 \in S
  <2>1. n + 1 \in 0 .. MaxRounds /\ n + 1 # 0 /\ (n + 1) - 1 = n
    BY MaxRoundsType
  <2>2. r[n + 1] = Visited(t, r[n])
    BY <1>1, <2>1
  <2>3. PICK at : WalkOK(t, r[n], at) /\ (AllMet(t, at) \/ Len(r[n].keys) = n)
    BY <1>3
  <2>4. CASE AllMet(t, at) /\ Visited(t, r[n]) = r[n]
    BY <2>1, <2>2, <2>3, <2>4
  <2>5. CASE \E upto : /\ WalkOK(t, Visited(t, r[n]), upto)
                       /\ Len(Visited(t, r[n]).keys) = Len(r[n].keys) + 1
    <3>1. PICK upto : /\ WalkOK(t, r[n + 1], upto)
                      /\ Len(r[n + 1].keys) = Len(r[n].keys) + 1
      BY <2>2, <2>5
    <3>2. CASE Len(r[n].keys) = n
      BY <2>1, <3>1, <3>2
    <3>3. CASE AllMet(t, at)
      <4>1. StandsAt(t, r[n].it, at)
        BY <2>3 DEF WalkOK
      <4>2. Advances(t, r[n].it, at)
        BY <4>1, NextAdvances
      <4>3. \A x \in Slots : ~ (at[x] < Len(t.entries[x]))
        BY <3>3, ChainsAre DEF AllMet
      <4>4. hash_iter_next(t, r[n].it).key = NULL
        BY <4>2, <4>3 DEF Advances
      <4>5. Visited(t, r[n]) = r[n]
        BY <4>4 DEF Visited
      <4> QED
        BY <2>1, <2>2, <2>3, <3>3, <4>5
    <3> QED
      BY <2>3, <3>2, <3>3
  <2> QED
    BY <2>3, <2>4, <2>5, WalkSteps
<1>4. Good(MaxRounds)
  <2> HIDE DEF Good
  <2>1. MaxRounds \in S
    <3> HIDE DEF S
    <3>1. \A n \in 0 .. MaxRounds - 1 : n \in S => n + 1 \in S
      BY <1>3
    <3>2. 0 .. MaxRounds \subseteq S
      BY <1>2, <3>1, MaxRoundsType, SetInduction
    <3> QED
      BY <3>2, MaxRoundsType
  <2> QED
    BY <2>1
<1>5. PICK at : /\ WalkOK(t, r[MaxRounds], at)
                /\ AllMet(t, at) \/ Len(r[MaxRounds].keys) = MaxRounds
  BY <1>4
<1>6. CASE Len(r[MaxRounds].keys) = MaxRounds
  <2> DEFINE keys == r[MaxRounds].keys
             f == [i \in 1 .. MaxRounds |-> keys[i]]
  <2>1. keys \in Seq(Keys) /\ \A i, j \in 1 .. MaxRounds : keys[i] = keys[j] => i = j
    BY <1>5, <1>6 DEF WalkOK
  <2> HIDE DEF keys
  <2>2. \A i \in 1 .. MaxRounds : keys[i] \in Keys
    BY <2>1, <1>6, MaxRoundsType DEF keys
  <2>3. f \in Injection(1 .. MaxRounds, Keys)
    BY <2>1, <2>2 DEF Injection, IsInjective
  <2>4. Cardinality(1 .. MaxRounds) <= Cardinality(Keys)
    BY <2>3, KeysAreFinite, FS_Injection
  <2>5. Cardinality(1 .. MaxRounds) = MaxRounds
    BY MaxRoundsType, FS_Interval DEF MaxRounds
  <2> QED
    BY <2>4, <2>5, MaxRoundsType DEF MaxRounds
<1> QED
  BY <1>5, <1>6 DEF r

(* What a whole loop gives: all keys of the table, each once,              *)
KeysOf(t) == {k \in Keys : hash_get(t, k) # NULL}
Counted(t) == t.num_keys = Cardinality(KeysOf(t))

LEMMA VisitsRight ==
  ASSUME NEW t, TableOK(t)
  PROVE  /\ Visits(t) \in Seq(Keys)
         /\ \A i, j \in 1 .. Len(Visits(t)) : Visits(t)[i] = Visits(t)[j] => i = j
         /\ \A k \in Keys : (\E j \in 1 .. Len(Visits(t)) : Visits(t)[j] = k) <=> k \in KeysOf(t)
         /\ Len(Visits(t)) = Cardinality(KeysOf(t))
<1> DEFINE keys == Visits(t)
           n == Len(keys)
<1>1. PICK at : WalkOK(t, Rounds(t)[MaxRounds], at) /\ AllMet(t, at)
  BY WalkEnds
<1>2. /\ keys \in Seq(Keys) /\ n \in Nat
      /\ \A i, j \in 1 .. n : keys[i] = keys[j] => i = j
      /\ \A k \in Keys : (\E j \in 1 .. n : keys[j] = k) <=> Met(t, at, k)
  BY <1>1 DEF WalkOK, Visits
<1>3. ASSUME NEW k \in Keys
      PROVE  Met(t, at, k) <=> k \in KeysOf(t)
  <2>1. IsTable(t, Values) /\ NULL \notin Values
    BY TableIs, ValuesAssumption
  <2>2. hash_get(t, k) # NULL <=> \E p \in 1 .. Len(Chain(t, k)) : Chain(t, k)[p].key = k
    BY <2>1, GetType
  <2>3. HashKey[k] \in Slots /\ Chain(t, k) = t.entries[HashKey[k]]
    BY HashKeyAssumption DEF Chain, Slots
  <2>4. Met(t, at, k) <=> \E i \in Slots : \E p \in 1 .. Len(t.entries[i]) : t.entries[i][p].key = k
    BY <1>1 DEF Met, AllMet
  <2>5. \A i \in Slots : \A p \in 1 .. Len(t.entries[i]) : t.entries[i][p].key = k => i = HashKey[k]
    BY ChainsAre
  <2> QED
    BY <2>2, <2>3, <2>4, <2>5 DEF KeysOf
<1>4. n = Cardinality(KeysOf(t))
  <2> DEFINE f == [i \in 1 .. n |-> keys[i]]
  <2> HIDE DEF keys, n
  <2>1. \A i \in 1 .. n : keys[i] \in Keys
    BY <1>2 DEF n
  <2>2. \A i \in 1 .. n : keys[i] \in KeysOf(t)
    BY <1>2, <1>3, <2>1
  <2>3. f \in [1 .. n -> KeysOf(t)] /\ \A i \in 1 .. n : f[i] = keys[i]
    BY <2>2
  <2> HIDE DEF f
  <2>4. f \in Injection(1 .. n, KeysOf(t))
    BY <1>2, <2>3 DEF Injection, IsInjective
  <2>5. \A k \in KeysOf(t) : \E i \in 1 .. n : f[i] = k
    BY <1>2, <1>3, <2>3 DEF KeysOf
  <2>6. f \in Surjection(1 .. n, KeysOf(t))
    BY <2>3, <2>5 DEF Surjection
  <2>7. IsFiniteSet(KeysOf(t))
    BY KeysAreFinite, FS_Subset DEF KeysOf
  <2>8. Cardinality(1 .. n) = Cardinality(KeysOf(t))
    BY <2>4, <2>6, <2>7, FS_Injection
  <2>9. Cardinality(1 .. n) = n
    BY <1>2, FS_Interval
  <2> QED
    BY <2>8, <2>9
<1> QED
  BY <1>2, <1>3, <1>4

(* and the copy of the table.                                              *)
LEMMA CopyLoopRight ==
  ASSUME NEW t, TableOK(t), Counted(t)
  PROVE  CopyLoop(t, Visits(t))[Len(Visits(t))] = Copied(t)
<1> DEFINE c == CopyLoop(t, Visits(t))[Len(Visits(t))]
           es == [i \in Slots |-> Reverse(t.entries[i])]
<1>1. PICK at : WalkOK(t, Rounds(t)[MaxRounds], at) /\ AllMet(t, at)
  BY WalkEnds
<1>2. TableOK(c) /\ c.num_keys = Len(Visits(t)) /\ CopyOf(t, at, c)
  BY <1>1 DEF WalkOK, Visits
<1>3. c.num_keys = t.num_keys
  BY <1>2, VisitsRight DEF Counted
<1> HIDE DEF c
<1>4. /\ c = TableRecord(c.free, c.num_keys, c.entries) /\ c.free = TRUE
      /\ t = TableRecord(t.free, t.num_keys, t.entries) /\ t.free = TRUE
      /\ c.entries \in [Slots -> Seq(Entries)]
  BY <1>2 DEF TableOK, Tables, TableRecord
<1>5. ASSUME NEW i \in Slots
      PROVE  c.entries[i] = Reverse(t.entries[i])
  <2>a. at[i] = Len(t.entries[i]) /\ Len(t.entries[i]) \in Nat
    BY <1>1, ChainsAre DEF AllMet
  <2>b. /\ Len(c.entries[i]) = at[i]
        /\ \A p \in 1 .. at[i] : c.entries[i][p] = t.entries[i][at[i] - p + 1]
    BY <1>2 DEF CopyOf
  <2>1. /\ c.entries[i] \in Seq(Entries) /\ Len(c.entries[i]) = Len(t.entries[i])
        /\ Len(t.entries[i]) \in Nat
        /\ \A p \in 1 .. Len(t.entries[i]) :
             c.entries[i][p] = t.entries[i][Len(t.entries[i]) - p + 1]
    BY <1>4, <2>a, <2>b
  <2>2. c.entries[i] = [p \in 1 .. Len(c.entries[i]) |-> c.entries[i][p]]
    BY <2>1
  <2> QED
    BY <2>1, <2>2 DEF Reverse
<1>6. c.entries = es
  BY <1>4, <1>5
<1> HIDE DEF es
<1>7. Copied(t) = TableRecord(t.free, t.num_keys, es)
  BY <1>4, Fields DEF Copied, es
<1>8. c = Copied(t)
  BY <1>3, <1>4, <1>6, <1>7
<1> QED
  BY <1>8 DEF c

(* The count keeps up with what is added                                   *)
LEMMA AddCounted ==
  ASSUME NEW t, TableOK(t), Counted(t), NEW k \in Keys, NEW v \in Values
  PROVE  Counted(hash_add(t, k, v))
<1> DEFINE d == hash_drop(t, k)
           u == hash_add(t, k, v)
<1>1. IsTable(t, Values) /\ NULL \notin Values /\ t.num_keys \in Int
  BY TableIs, ValuesAssumption, CountType
<1>2. u = Inserted(d, k, v)
  <2>1. t.free = TRUE
    BY DEF TableOK, Tables
  <2> QED
    BY <2>1, EmptyKeyAssumption DEF hash_add, Refuses
<1>3. d.num_keys = IF hash_get(t, k) = NULL THEN t.num_keys ELSE t.num_keys - 1
  BY <1>1, DropCount
<1>4. IsTable(d, Values)
  BY <1>1, DropRight
<1> HIDE DEF d
<1>5. u.num_keys = d.num_keys + 1
  <2>1. /\ Inserted(d, k, v).num_keys = d.num_keys + 1
        /\ Inserted(d, k, v).entries =
             [d.entries EXCEPT ![HashKey[k]] = <<[key |-> k, value |-> v]>> \o Chain(d, k)]
    BY <1>4, InsertedIs
  <2> QED
    BY <1>2, <2>1
<1>6. \A j \in Keys : hash_get(u, j) = IF j = k THEN v ELSE hash_get(t, j)
  BY AddRight
<1> HIDE DEF u
<1>7. KeysOf(u) = KeysOf(t) \cup {k}
  BY <1>1, <1>6 DEF KeysOf
<1>8. IsFiniteSet(KeysOf(t))
  BY KeysAreFinite, FS_Subset DEF KeysOf
<1>9. Cardinality(KeysOf(u)) = IF k \in KeysOf(t) THEN Cardinality(KeysOf(t))
                               ELSE Cardinality(KeysOf(t)) + 1
  BY <1>7, <1>8, FS_AddElement
<1>10. k \in KeysOf(t) <=> hash_get(t, k) # NULL
  BY DEF KeysOf
<1>11. Counted(u)
  BY <1>1, <1>3, <1>5, <1>9, <1>10 DEF Counted
<1> QED
  BY <1>11 DEF u

(* and with what is copied.                                                *)
LEMMA CopiedCounted ==
  ASSUME NEW t, TableOK(t), Counted(t)
  PROVE  Counted(Copied(t))
<1>1. KeysOf(Copied(t)) = KeysOf(t)
  BY CopiedRight DEF KeysOf
<1>2. Copied(t).num_keys = t.num_keys
  <2> DEFINE es == [i \in Slots |-> Reverse(t.entries[i])]
  <2>1. t = TableRecord(t.free, t.num_keys, t.entries)
    BY DEF TableOK, Tables, TableRecord
  <2> HIDE DEF es
  <2>2. Copied(t) = TableRecord(t.free, t.num_keys, es)
    BY <2>1, Fields DEF Copied, es
  <2> QED
    BY <2>2, Fields
<1> QED
  BY <1>1, <1>2 DEF Counted

LEMMA NewCounted == Counted(hash_new(TRUE))
<1>1. hash_new(TRUE).num_keys = 0
  BY DEF hash_new
<1>2. KeysOf(hash_new(TRUE)) = {}
  BY NewRight, ValuesAssumption DEF KeysOf
<1> QED
  BY <1>1, <1>2, FS_EmptySet DEF Counted

-----------------------------------------------------------------------------
(* All tables are counted.                                                 *)
CountInv == \A e \in Elements : attributes[e] # NULL => Counted(attributes[e])

LEMMA CountStep == AttrInv /\ CountInv /\ [AttrNext]_attrVars => CountInv'
<1> SUFFICES ASSUME AttrInv, CountInv, [AttrNext]_attrVars
             PROVE  \A e \in Elements : attributes'[e] # NULL => Counted(attributes'[e])
  BY DEF CountInv, Counted, KeysOf
<1>1. TablesOK(attributes) /\ attributes \in [Elements -> Tables \cup {NULL}]
  BY InvTables DEF TablesOK
<1>2. ASSUME NEW e \in Elements, NEW t, t = NULL \/ Counted(t),
             attributes' = [attributes EXCEPT ![e] = t]
      PROVE  \A d \in Elements : attributes'[d] # NULL => Counted(attributes'[d])
  BY <1>1, <1>2 DEF CountInv
<1>3. ASSUME NEW e \in Elements, AttrNew(e)
      PROVE  \A d \in Elements : attributes'[d] # NULL => Counted(attributes'[d])
  BY <1>3 DEF AttrNew, CountInv
<1>4. ASSUME NEW e \in Elements, AttrRelease(e)
      PROVE  \A d \in Elements : attributes'[d] # NULL => Counted(attributes'[d])
  BY <1>2, <1>4 DEF AttrRelease
<1>5. ASSUME NEW e \in Elements, NEW k \in Keys, NEW v \in Values \cup {EmptyString},
             xmpp_stanza_set_attribute(e, k, v)
      PROVE  \A d \in Elements : attributes'[d] # NULL => Counted(attributes'[d])
  <2> DEFINE t == TableFor(attributes, e)
             u == IF v = EmptyString THEN t ELSE hash_add(t, k, v)
  <2>1. attributes' = [attributes EXCEPT ![e] = u]
    BY <1>5, SetTables
  <2>2. TableOK(t) /\ Counted(t)
    BY <1>1, TableForRight, NewCounted DEF TableFor, CountInv
  <2>3. v # EmptyString => Counted(hash_add(t, k, v))
    BY <2>2, AddCounted
  <2>4. Counted(u)
    BY <2>2, <2>3
  <2> QED
    BY <1>2, <2>1, <2>4
<1>6. ASSUME NEW e \in Elements, NEW d \in Elements, CopyAttributes(e, d)
      PROVE  \A j \in Elements : attributes'[j] # NULL => Counted(attributes'[j])
  <2> DEFINE u == IF attributes[e] = NULL THEN NULL ELSE Copied(attributes[e])
  <2>1. attributes' = [attributes EXCEPT ![d] = u]
    BY <1>6, CopyTables
  <2>2. attributes[e] # NULL => TableOK(attributes[e]) /\ Counted(attributes[e])
    BY <1>1 DEF TablesOK, CountInv
  <2>3. u = NULL \/ Counted(u)
    BY <2>2, CopiedCounted
  <2> QED
    BY <1>2, <2>1, <2>3
<1>7. CASE UNCHANGED attrVars
  BY <1>7 DEF attrVars, CountInv
<1> QED
  BY <1>3, <1>4, <1>5, <1>6, <1>7 DEF AttrNext

(* The array of n places that is filled, and how many of them are.        *)
ArrayOf(t, keys, n) ==
  LET all == [i \in 1 .. 2 * Len(keys) |->
                IF i % 2 = 1 THEN keys[(i + 1) \div 2] ELSE hash_get(t, keys[i \div 2])]
  IN  [i \in 1 .. (IF n < Len(all) THEN n ELSE Len(all)) |-> all[i]]

Room(keys, n) == IF n < 2 * Len(keys) THEN n ELSE 2 * Len(keys)

ArrayRight(list, t, keys, len) ==
  /\ Len(list) = len /\ len \in Nat
  /\ \A i \in 1 .. len : i % 2 = 1 =>
       /\ (i + 1) \div 2 \in 1 .. Len(keys) /\ 2 * ((i + 1) \div 2) = i + 1
       /\ list[i] = keys[(i + 1) \div 2]
       /\ i < len => list[i + 1] = hash_get(t, keys[(i + 1) \div 2])

LEMMA ArrayIs ==
  ASSUME NEW t, NEW keys \in Seq(Keys), NEW n \in Nat
  PROVE  ArrayRight(ArrayOf(t, keys, n), t, keys, Room(keys, n))
<1> DEFINE m == Len(keys)
           all == [i \in 1 .. 2 * m |->
                     IF i % 2 = 1 THEN keys[(i + 1) \div 2] ELSE hash_get(t, keys[i \div 2])]
           len == IF n < 2 * m THEN n ELSE 2 * m
           list == ArrayOf(t, keys, n)
<1>1. m \in Nat
  OBVIOUS
<1>2. Len(all) = 2 * m
  <2> HIDE DEF m
  <2> QED
    BY <1>1
<1>3. list = [i \in 1 .. len |-> all[i]]
  <2>1. list = [i \in 1 .. (IF n < Len(all) THEN n ELSE Len(all)) |-> all[i]]
    BY DEF ArrayOf
  <2> HIDE DEF all, list, m
  <2> QED
    BY <1>2, <2>1
<1> HIDE DEF m
<1>4. len \in Nat /\ len <= 2 * m
  BY <1>1
<1>5. Len(list) = len
  <2> HIDE DEF len, all, list
  <2> QED
    BY <1>3, <1>4
<1>6. ASSUME NEW i \in 1 .. len, i % 2 = 1
      PROVE  /\ (i + 1) \div 2 \in 1 .. m /\ 2 * ((i + 1) \div 2) = i + 1
             /\ list[i] = keys[(i + 1) \div 2]
             /\ i < len => list[i + 1] = hash_get(t, keys[(i + 1) \div 2])
  <2> HIDE DEF len, list
  <2>1. (i + 1) \div 2 \in 1 .. m /\ 2 * ((i + 1) \div 2) = i + 1 /\ (i + 1) % 2 = 0
    BY <1>1, <1>4, <1>6
  <2>2. i \in 1 .. 2 * m /\ i \in 1 .. len
    BY <1>1, <1>4
  <2>3. list[i] = keys[(i + 1) \div 2]
    <3>1. all[i] = keys[(i + 1) \div 2]
      BY <1>6, <2>2
    <3> HIDE DEF all
    <3> QED
      BY <1>3, <2>2, <3>1
  <2>4. ASSUME i < len PROVE list[i + 1] = hash_get(t, keys[(i + 1) \div 2])
    <3>1. i + 1 \in 1 .. 2 * m /\ i + 1 \in 1 .. len
      BY <1>1, <1>4, <2>4
    <3>2. all[i + 1] = hash_get(t, keys[(i + 1) \div 2])
      BY <2>1, <3>1
    <3> HIDE DEF all
    <3> QED
      BY <1>3, <3>1, <3>2
  <2> QED
    BY <2>1, <2>3, <2>4
<1> QED
  BY <1>4, <1>5, <1>6 DEF m, ArrayRight, Room

(* The array of an element, and how long it is.                            *)
LEMMA ListedRight ==
  ASSUME AttrInv, CountInv, NEW e \in Elements, NEW n \in Nat
  PROVE  LET keys == {k \in Keys : xmpp_stanza_get_attribute(e, k) # NULL}
             list == xmpp_stanza_get_attributes(e, n)
             odd == {i \in 1 .. Len(list) : i % 2 = 1}
         IN  /\ xmpp_stanza_get_attribute_count(e) = Cardinality(keys)
             /\ Len(list) = IF n < 2 * Cardinality(keys) THEN n ELSE 2 * Cardinality(keys)
             /\ \A i \in odd : list[i] \in keys
             /\ \A i, j \in odd : list[i] = list[j] => i = j
             /\ \A i \in odd : i < Len(list) =>
                  list[i + 1] = xmpp_stanza_get_attribute(e, list[i])
<1> DEFINE keys == {k \in Keys : xmpp_stanza_get_attribute(e, k) # NULL}
           list == xmpp_stanza_get_attributes(e, n)
<1>1. CASE attributes[e] = NULL
  <2>1. keys = {} /\ list = <<>> /\ xmpp_stanza_get_attribute_count(e) = 0
    BY <1>1 DEF xmpp_stanza_get_attribute, xmpp_stanza_get_attributes,
                xmpp_stanza_get_attribute_count
  <2>2. Cardinality(keys) = 0 /\ Len(list) = 0
    BY <2>1, FS_EmptySet
  <2> HIDE DEF keys, list
  <2> QED
    BY <2>1, <2>2 DEF keys, list
<1>2. CASE attributes[e] # NULL
  <2> DEFINE t == attributes[e]
             ks == Visits(t)
             m == Len(ks)
             len == IF n < 2 * m THEN n ELSE 2 * m
  <2>1. TableOK(t) /\ Counted(t)
    BY <1>2, InvTables DEF TablesOK, CountInv
  <2>2. keys = KeysOf(t) /\ xmpp_stanza_get_attribute_count(e) = t.num_keys
    BY <1>2 DEF xmpp_stanza_get_attribute, xmpp_stanza_get_attribute_count, KeysOf, hash_num_keys
  <2>3. /\ ks \in Seq(Keys) /\ m \in Nat
        /\ \A i, j \in 1 .. m : ks[i] = ks[j] => i = j
        /\ \A k \in Keys : (\E j \in 1 .. m : ks[j] = k) <=> k \in KeysOf(t)
        /\ m = Cardinality(KeysOf(t))
    BY <2>1, VisitsRight
  <2>4. list = ArrayOf(t, ks, n)
    BY <1>2 DEF xmpp_stanza_get_attributes, ArrayOf
  <2>5. \A k \in Keys : xmpp_stanza_get_attribute(e, k) = hash_get(t, k)
    BY <1>2 DEF xmpp_stanza_get_attribute
  <2> HIDE DEF t, ks, list, keys
  <2>6. /\ Len(list) = len /\ len \in Nat
        /\ \A i \in 1 .. len : i % 2 = 1 =>
             /\ (i + 1) \div 2 \in 1 .. m /\ 2 * ((i + 1) \div 2) = i + 1
             /\ list[i] = ks[(i + 1) \div 2]
             /\ i < len => list[i + 1] = hash_get(t, ks[(i + 1) \div 2])
    <3>1. ArrayRight(list, t, ks, Room(ks, n))
      BY <2>3, <2>4, ArrayIs
    <3> QED
      BY <3>1 DEF ArrayRight, Room
  <2>7. \A i \in 1 .. m : ks[i] \in Keys /\ ks[i] \in keys
    BY <2>2, <2>3
  <2> HIDE DEF m
  <2>8. Len(list) = (IF n < 2 * Cardinality(keys) THEN n ELSE 2 * Cardinality(keys))
    BY <2>2, <2>3, <2>6
  <2> HIDE DEF len
  <2>9. ASSUME NEW i \in 1 .. Len(list), i % 2 = 1
        PROVE  /\ list[i] \in keys
               /\ i < Len(list) => list[i + 1] = xmpp_stanza_get_attribute(e, list[i])
    <3> DEFINE h == (i + 1) \div 2
    <3>1. h \in 1 .. m /\ list[i] = ks[h] /\ (i < len => list[i + 1] = hash_get(t, ks[h]))
      BY <2>6, <2>9
    <3> HIDE DEF h
    <3> QED
      BY <2>5, <2>6, <2>7, <3>1
  <2>10. ASSUME NEW i \in 1 .. Len(list), i % 2 = 1, NEW j \in 1 .. Len(list), j % 2 = 1,
                list[i] = list[j]
         PROVE  i = j
    <3> DEFINE h == (i + 1) \div 2
               l == (j + 1) \div 2
    <3>1. /\ h \in 1 .. m /\ list[i] = ks[h] /\ 2 * h = i + 1
          /\ l \in 1 .. m /\ list[j] = ks[l] /\ 2 * l = j + 1
      BY <2>6, <2>10
    <3> HIDE DEF h, l
    <3>2. h = l
      BY <2>3, <2>10, <3>1
    <3> QED
      BY <3>1, <3>2
  <2>11. xmpp_stanza_get_attribute_count(e) = Cardinality(keys)
    BY <2>1, <2>2 DEF Counted
  <2> QED
    BY <2>8, <2>9, <2>10, <2>11 DEF keys, list
<1> QED
  BY <1>1, <1>2

(* What xmpp_stanza_get_attributes fills into an array of any length are   *)
(* keys of the element, none twice, each followed by its value, as many as *)
(* there is room for; the count is how many there are; and the loop of     *)
(* xmpp_stanza_copy makes of a table the copy that the model takes.        *)
THEOREM AttributesAreListed == AttrSpec => []AttributesListed
<1>1. AttrInit => CountInv
  BY DEF AttrInit, CountInv
<1>2. AttrInv /\ CountInv /\ [AttrNext]_attrVars => CountInv'
  BY CountStep
<1>3. AttrInv /\ CountInv => AttributesListed
  <2> SUFFICES ASSUME AttrInv, CountInv, NEW e \in made
               PROVE  LET keys == {k \in Keys : xmpp_stanza_get_attribute(e, k) # NULL}
                          copied(t) == CopyLoop(t, Visits(t))[Len(Visits(t))]
                      IN  /\ xmpp_stanza_get_attribute_count(e) = Cardinality(keys)
                          /\ attributes[e] # NULL => Copied(attributes[e]) = copied(attributes[e])
                          /\ \A n \in 0 .. 2 * Cardinality(Keys) + 1 :
                               LET list == xmpp_stanza_get_attributes(e, n)
                                   odd == {i \in 1 .. Len(list) : i % 2 = 1}
                               IN  /\ Len(list) = IF n < 2 * Cardinality(keys) THEN n
                                                  ELSE 2 * Cardinality(keys)
                                   /\ \A i \in odd : list[i] \in keys
                                   /\ \A i, j \in odd : list[i] = list[j] => i = j
                                   /\ \A i \in odd : i < Len(list) =>
                                        list[i + 1] = xmpp_stanza_get_attribute(e, list[i])
    BY Zenon DEF AttributesListed
  <2>1. e \in Elements
    BY DEF AttrInv, AttrTypeOK
  <2>2. attributes[e] # NULL =>
          Copied(attributes[e]) = CopyLoop(attributes[e], Visits(attributes[e]))[Len(Visits(attributes[e]))]
    BY <2>1, InvTables, CopyLoopRight DEF TablesOK, CountInv
  <2>3. 0 .. 2 * Cardinality(Keys) + 1 \subseteq Nat /\ 0 \in Nat
    BY MaxRoundsType
  <2> QED
    BY <2>1, <2>2, <2>3, ListedRight, Zenon
<1> QED
  BY <1>1, <1>2, <1>3, InvAlways, PTL DEF AttrSpec
=============================================================================
