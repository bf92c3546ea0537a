------------------------------ MODULE HashProofs ------------------------------
(***************************************************************************)
(* Lemmas about the hash table (Hash), for any keys, slots and hash        *)
(* function, and values of any set V: hash_drop and an insertion change    *)
(* what hash_get finds for the key they are called with, and nothing else, *)
(* whichever keys share its slot.                                          *)
(***************************************************************************)
EXTENDS Hash, SequenceTheorems, TLAPS

(* The tables with values in V, as hash_add leaves them, and the chain for *)
(* k.                                                                      *)
EntriesOf(V) == [key : Keys, value : V]
TablesOf(V) == [free : BOOLEAN, num_keys : Int, entries : [Slots -> Seq(EntriesOf(V))]]
IsTable(t, V) == t \in TablesOf(V) /\ KeysInPlace(t)
Chain(t, k) == t.entries[HashKey[k]]

(* A sequence without its element p.                                       *)
LEMMA RemovedAt ==
  ASSUME NEW S, NEW c \in Seq(S), NEW p \in 1 .. Len(c)
  PROVE  /\ RemoveAt(c, p) \in Seq(S)
         /\ Len(RemoveAt(c, p)) = Len(c) - 1
         /\ \A i \in 1 .. Len(c) - 1 :
              RemoveAt(c, p)[i] = IF i < p THEN c[i] ELSE c[i + 1]
<1> DEFINE a == SubSeq(c, 1, p - 1)
           b == SubSeq(c, p + 1, Len(c))
<1>1. a \in Seq(S) /\ Len(a) = p - 1 /\ \A i \in 1 .. p - 1 : a[i] = c[i]
  OBVIOUS
<1>2. b \in Seq(S) /\ Len(b) = Len(c) - p /\ \A i \in 1 .. Len(c) - p : b[i] = c[i + p]
  OBVIOUS
<1>3. RemoveAt(c, p) = a \o b
  BY DEF RemoveAt
<1>n. Len(c) \in Nat
  OBVIOUS
<1> HIDE DEF a, b
<1>4. /\ a \o b \in Seq(S)
      /\ Len(a \o b) = Len(a) + Len(b)
      /\ \A i \in 1 .. Len(a) + Len(b) :
           (a \o b)[i] = IF i <= Len(a) THEN a[i] ELSE b[i - Len(a)]
  BY <1>1, <1>2, ConcatProperties
<1>5. Len(a) + Len(b) = Len(c) - 1
  BY <1>1, <1>2, <1>n
<1>6. ASSUME NEW i \in 1 .. Len(c) - 1
      PROVE  (a \o b)[i] = IF i < p THEN c[i] ELSE c[i + 1]
  <2>1. CASE i < p
    BY <2>1, <1>1, <1>4, <1>5, <1>n
  <2>2. CASE ~(i < p)
    <3>1. (a \o b)[i] = b[i - Len(a)]
      BY <2>2, <1>1, <1>4, <1>5, <1>n
    <3>2. i - Len(a) \in 1 .. Len(c) - p /\ (i - Len(a)) + p = i + 1
      BY <2>2, <1>1, <1>n
    <3> QED
      BY <3>1, <3>2, <1>2, <2>2
  <2> QED
    BY <2>1, <2>2
<1> QED
  BY <1>3, <1>4, <1>5, <1>6

(* What is known of the chain for k: its keys are different.               *)
LEMMA ChainType ==
  ASSUME NEW V, NEW t, IsTable(t, V), NEW k \in Keys
  PROVE  /\ HashKey[k] \in Slots
         /\ Chain(t, k) \in Seq(EntriesOf(V))
         /\ Len(Chain(t, k)) \in Nat
         /\ \A p \in 1 .. Len(Chain(t, k)) : Chain(t, k)[p] \in EntriesOf(V)
         /\ \A p, q \in 1 .. Len(Chain(t, k)) :
              Chain(t, k)[p].key = Chain(t, k)[q].key => p = q
<1>1. HashKey[k] \in Slots
  BY HashKeyAssumption DEF Slots
<1>2. Chain(t, k) \in Seq(EntriesOf(V))
  BY <1>1 DEF Chain, IsTable, TablesOf
<1> QED
  BY <1>1, <1>2 DEF IsTable, KeysInPlace, Chain

(* The count is a number.                                                  *)
LEMMA CountType ==
  ASSUME NEW V, NEW t, IsTable(t, V)
  PROVE  t.num_keys \in Int
  BY DEF IsTable, TablesOf

(* All keys of a chain have the slot of k.                                 *)
LEMMA ChainInSlot ==
  ASSUME NEW V, NEW t, IsTable(t, V), NEW k \in Keys, NEW p \in 1 .. Len(Chain(t, k))
  PROVE  HashKey[Chain(t, k)[p].key] = HashKey[k]
  BY ChainType DEF IsTable, KeysInPlace, Chain

(* A key in its chain is found there, with its value;                      *)
LEMMA GetHit ==
  ASSUME NEW V, NEW t, IsTable(t, V), NEW k \in Keys,
         NEW p \in 1 .. Len(Chain(t, k)), Chain(t, k)[p].key = k
  PROVE  hash_get(t, k) = Chain(t, k)[p].value /\ FirstHit(Chain(t, k), k) = p
<1>1. Hits(Chain(t, k), k) = {p}
  BY ChainType DEF Hits
<1>2. FirstHit(Chain(t, k), k) = p
  <2> DEFINE best(i) == \A j \in Hits(Chain(t, k), k) : i <= j
  <2>1. \A i \in Hits(Chain(t, k), k) : best(i) <=> i = p
    BY <1>1, ChainType
  <2> QED
    BY <2>1, <1>1 DEF FirstHit
<1> QED
  BY <1>1, <1>2 DEF hash_get, Chain

(* one that is not in its chain is not found.                              *)
LEMMA GetMiss ==
  ASSUME NEW t, NEW k, \A p \in 1 .. Len(Chain(t, k)) : Chain(t, k)[p].key # k
  PROVE  hash_get(t, k) = NULL
  BY DEF hash_get, Hits, Chain

(* The result of hash_get is a value, or NULL exactly for absent keys.     *)
LEMMA GetType ==
  ASSUME NEW V, NULL \notin V, NEW t, IsTable(t, V), NEW k \in Keys
  PROVE  /\ hash_get(t, k) \in V \cup {NULL}
         /\ hash_get(t, k) = NULL <=> \A p \in 1 .. Len(Chain(t, k)) : Chain(t, k)[p].key # k
<1>1. CASE \A p \in 1 .. Len(Chain(t, k)) : Chain(t, k)[p].key # k
  BY <1>1, GetMiss
<1>2. CASE \E p \in 1 .. Len(Chain(t, k)) : Chain(t, k)[p].key = k
  <2>1. PICK p \in 1 .. Len(Chain(t, k)) : Chain(t, k)[p].key = k
    BY <1>2
  <2>2. hash_get(t, k) = Chain(t, k)[p].value
    BY <2>1, GetHit
  <2>3. Chain(t, k)[p].value \in V
    BY <2>1, ChainType DEF EntriesOf
  <2> QED
    BY <2>1, <2>2, <2>3
<1> QED
  BY <1>1, <1>2

(* What EXCEPT makes of a record, for provers that do not see through it.  *)
TableRecord(f, n, es) == [free |-> f, num_keys |-> n, entries |-> es]

LEMMA Fields ==
  ASSUME NEW f, NEW m, NEW e, NEW x, NEW y, NEW r, r = TableRecord(f, m, e)
  PROVE  /\ [r EXCEPT !.entries = x] = TableRecord(f, m, x)
         /\ [r EXCEPT !.num_keys = y] = TableRecord(f, y, e)
         /\ r.free = f /\ r.num_keys = m /\ r.entries = e
  BY DEF TableRecord

(* The table t with the chain c in slot i and the count n.                 *)
WithChain(t, i, c, n) == [t EXCEPT !.entries[i] = c, !.num_keys = n]

(* It is a table where t is one.                                           *)
LEMMA OtherFields ==
  ASSUME NEW V, NEW t \in TablesOf(V), NEW i \in Slots, NEW c \in Seq(EntriesOf(V)),
         NEW n \in Int
  PROVE  /\ WithChain(t, i, c, n) \in TablesOf(V)
         /\ WithChain(t, i, c, n).entries = [t.entries EXCEPT ![i] = c]
         /\ WithChain(t, i, c, n).free = t.free
         /\ WithChain(t, i, c, n).num_keys = n
<1> DEFINE es == [t.entries EXCEPT ![i] = c]
           w == [t EXCEPT !.entries = es]
           u == [w EXCEPT !.num_keys = n]
<1>1. es \in [Slots -> Seq(EntriesOf(V))]
  BY DEF TablesOf
<1>2. t = TableRecord(t.free, t.num_keys, t.entries) /\ t.free \in BOOLEAN
  BY DEF TablesOf, TableRecord
<1> HIDE DEF es
<1>3. w = TableRecord(t.free, t.num_keys, es)
  BY <1>2, Fields
<1> HIDE DEF w
<1>4. u = TableRecord(t.free, n, es)
  BY <1>3, Fields
<1> HIDE DEF u
<1>5. u \in TablesOf(V)
  BY <1>1, <1>2, <1>4, Zenon DEF TableRecord, TablesOf
<1>6. u.entries = es /\ u.free = t.free /\ u.num_keys = n
  BY <1>4, Fields
<1>7. WithChain(t, i, c, n) = u
  BY Zenon DEF u, w, es, WithChain
<1> QED
  BY <1>5, <1>6, <1>7 DEF es

(* The table u is t but for the chain for k, which is c.                   *)
ChainReplaced(t, k, c, u, V) ==
  /\ IsTable(u, V) /\ u.free = t.free
  /\ Chain(u, k) = c
  /\ \A j \in Keys : HashKey[j] # HashKey[k] => Chain(u, j) = Chain(t, j)

(* A table with another chain for k is a table if that chain has only keys *)
(* of its slot, each once.                                                 *)
LEMMA OtherChain ==
  ASSUME NEW V, NEW t, IsTable(t, V), NEW k \in Keys, NEW c \in Seq(EntriesOf(V)),
         NEW n \in Int,
         \A p \in 1 .. Len(c) : HashKey[c[p].key] = HashKey[k],
         \A p, q \in 1 .. Len(c) : c[p].key = c[q].key => p = q
  PROVE  ChainReplaced(t, k, c, WithChain(t, HashKey[k], c, n), V)
<1>1. /\ t \in TablesOf(V)
      /\ HashKey[k] \in Slots
      /\ \A j \in Keys : HashKey[j] \in Slots
  BY HashKeyAssumption DEF Slots, IsTable
<1> DEFINE u == WithChain(t, HashKey[k], c, n)
<1>3. u \in TablesOf(V) /\ u.free = t.free /\ u.entries = [t.entries EXCEPT ![HashKey[k]] = c]
  BY <1>1, OtherFields
<1> HIDE DEF u
<1>4. t.entries \in [Slots -> Seq(EntriesOf(V))]
  BY DEF IsTable, TablesOf
<1>5. \A i \in Slots : u.entries[i] = IF i = HashKey[k] THEN c ELSE t.entries[i]
  BY <1>3, <1>4
<1>6. KeysInPlace(u)
  <2> SUFFICES ASSUME NEW i \in Slots
               PROVE  /\ \A p \in 1 .. Len(u.entries[i]) : HashKey[u.entries[i][p].key] = i
                      /\ \A p, q \in 1 .. Len(u.entries[i]) :
                           u.entries[i][p].key = u.entries[i][q].key => p = q
    BY Zenon DEF KeysInPlace
  <2>1. CASE i = HashKey[k]
    <3>1. u.entries[i] = c
      BY <2>1, <1>5, Zenon
    <3> QED
      BY <2>1, <3>1, Zenon
  <2>2. CASE i # HashKey[k]
    BY <2>2, <1>5, Zenon DEF IsTable, KeysInPlace
  <2> QED
    BY <2>1, <2>2, Zenon
<1>7. /\ Chain(u, k) = c
      /\ \A j \in Keys : HashKey[j] # HashKey[k] => Chain(u, j) = Chain(t, j)
  BY <1>1, <1>5, Zenon DEF Chain
<1> QED
  BY <1>3, <1>6, <1>7, Zenon DEF IsTable, ChainReplaced, u

(* Keys of other slots read as before.                                     *)
LEMMA GetElsewhere ==
  ASSUME NEW t, NEW u, NEW j, Chain(u, j) = Chain(t, j)
  PROVE  hash_get(u, j) = hash_get(t, j)
  BY DEF hash_get, Chain

(* hash_drop takes the key away and leaves all others.                     *)
LEMMA DropRight ==
  ASSUME NEW V, NEW t, IsTable(t, V), NEW k \in Keys
  PROVE  /\ IsTable(hash_drop(t, k), V) /\ hash_drop(t, k).free = t.free
         /\ \A j \in Keys :
              hash_get(hash_drop(t, k), j) = IF j = k THEN NULL ELSE hash_get(t, j)
<1> DEFINE c == Chain(t, k)
           u == hash_drop(t, k)
<1>1. CASE \A p \in 1 .. Len(c) : c[p].key # k
  <2>1. u = t
    BY <1>1 DEF hash_drop, Hits, Chain
  <2> QED
    BY <1>1, <2>1, GetMiss
<1>2. CASE \E p \in 1 .. Len(c) : c[p].key = k
  <2>1. PICK p \in 1 .. Len(c) : c[p].key = k
    BY <1>2
  <2>2. FirstHit(c, k) = p /\ p \in Hits(c, k)
    BY <2>1, GetHit DEF Hits
  <2> DEFINE d == RemoveAt(c, p)
  <2>3. u = WithChain(t, HashKey[k], d, t.num_keys - 1)
    BY <2>2, Zenon DEF hash_drop, Chain, WithChain
  <2>4. /\ c \in Seq(EntriesOf(V)) /\ Len(c) \in Nat
        /\ \A q, r \in 1 .. Len(c) : c[q].key = c[r].key => q = r
        /\ \A q \in 1 .. Len(c) : HashKey[c[q].key] = HashKey[k]
        /\ t.num_keys - 1 \in Int
    BY ChainType, ChainInSlot, CountType
  <2>5. /\ d \in Seq(EntriesOf(V))
        /\ Len(d) = Len(c) - 1
        /\ \A i \in 1 .. Len(c) - 1 : d[i] = IF i < p THEN c[i] ELSE c[i + 1]
    BY <2>1, <2>4, RemovedAt
  <2> HIDE DEF c, d, u
  <2> DEFINE from(i) == IF i < p THEN i ELSE i + 1
  <2>a. /\ \A i \in 1 .. Len(d) : from(i) \in 1 .. Len(c) /\ from(i) # p /\ d[i] = c[from(i)]
        /\ \A i, q \in 1 .. Len(d) : from(i) = from(q) => i = q
    <3>1. p \in 1 .. Len(c) /\ Len(c) \in Nat /\ Len(d) = Len(c) - 1
      BY ONLY <2>1, <2>4, <2>5
    <3>2. \A i \in 1 .. Len(d) : from(i) \in 1 .. Len(c) /\ from(i) # p
      BY ONLY <3>1
    <3>3. \A i, q \in 1 .. Len(d) : from(i) = from(q) => i = q
      BY ONLY <3>1
    <3>4. \A i \in 1 .. Len(d) : d[i] = IF i < p THEN c[i] ELSE c[i + 1]
      BY ONLY <2>5
    <3>5. \A i \in 1 .. Len(d) : d[i] = c[from(i)]
      BY ONLY <3>4
    <3> QED BY ONLY <3>2, <3>3, <3>5
  <2> HIDE DEF from
  <2>6. /\ \A q \in 1 .. Len(d) : HashKey[d[q].key] = HashKey[k] /\ d[q].key # k
        /\ \A q, r \in 1 .. Len(d) : d[q].key = d[r].key => q = r
    <3> SUFFICES ASSUME NEW q \in 1 .. Len(d), NEW r \in 1 .. Len(d)
                 PROVE  /\ HashKey[d[q].key] = HashKey[k] /\ d[q].key # k
                        /\ d[q].key = d[r].key => q = r
      OBVIOUS
    <3>1. /\ from(q) \in 1 .. Len(c) /\ from(q) # p /\ d[q] = c[from(q)]
          /\ from(r) \in 1 .. Len(c) /\ d[r] = c[from(r)]
      BY <2>a
    <3>2. d[q].key = d[r].key => from(q) = from(r)
      BY <2>4, <3>1
    <3>3. HashKey[d[q].key] = HashKey[k] /\ d[q].key # k
      BY <2>1, <2>4, <3>1
    <3> QED
      BY <2>a, <3>2, <3>3
  <2>7. /\ IsTable(u, V) /\ u.free = t.free
        /\ Chain(u, k) = d
        /\ \A j \in Keys : HashKey[j] # HashKey[k] => Chain(u, j) = Chain(t, j)
    <3>1. ChainReplaced(t, k, d, WithChain(t, HashKey[k], d, t.num_keys - 1), V)
      BY <2>4, <2>5, <2>6, OtherChain
    <3> QED
      BY <2>3, <3>1, Zenon DEF ChainReplaced
  <2>8. ASSUME NEW j \in Keys
        PROVE  hash_get(u, j) = IF j = k THEN NULL ELSE hash_get(t, j)
    <3>1. CASE j = k
      BY <3>1, <2>6, <2>7, GetMiss
    <3>2. CASE HashKey[j] # HashKey[k]
      BY <3>2, <2>7, GetElsewhere
    <3>3. CASE j # k /\ HashKey[j] = HashKey[k]
      <4>1. Chain(t, j) = c /\ Chain(u, j) = d
        BY <3>3, <2>7 DEF Chain, c
      <4>2. CASE \E q \in 1 .. Len(c) : c[q].key = j
        <5>1. PICK q \in 1 .. Len(c) : c[q].key = j
          BY <4>2
        <5>2. PICK r \in 1 .. Len(d) : d[r] = c[q]
          <6>1. CASE q < p
            BY <6>1, <2>1, <2>4, <2>5
          <6>2. CASE q > p
            <7>1. q - 1 \in 1 .. Len(d) /\ d[q - 1] = c[q]
              BY <6>2, <2>1, <2>4, <2>5
            <7> QED
              BY <7>1
          <6>3. q # p
            BY <5>1, <2>1, <3>3
          <6> QED
            BY <6>1, <6>2, <6>3, <2>4
        <5>3. hash_get(t, j) = c[q].value
          BY <4>1, <5>1, GetHit
        <5>4. hash_get(u, j) = d[r].value
          BY <4>1, <5>1, <5>2, <2>7, GetHit
        <5> QED
          BY <5>2, <5>3, <5>4, <3>3
      <4>3. CASE \A q \in 1 .. Len(c) : c[q].key # j
        <5>1. \A r \in 1 .. Len(d) : d[r].key # j
          BY <4>3, <2>1, <2>4, <2>5
        <5> QED
          BY <4>1, <4>3, <5>1, <3>3, GetMiss
      <4> QED
        BY <4>2, <4>3
    <3> QED
      BY <3>1, <3>2, <3>3
  <2> QED
    BY <2>7, <2>8 DEF u
<1> QED
  BY <1>1, <1>2

(* A table with another chain has the count it is given.                   *)
LEMMA CountIs ==
  ASSUME NEW V, NEW t, IsTable(t, V), NEW k \in Keys, NEW c \in Seq(EntriesOf(V)), NEW n \in Int
  PROVE  /\ WithChain(t, HashKey[k], c, n).num_keys = n
         /\ WithChain(t, HashKey[k], c, n).entries = [t.entries EXCEPT ![HashKey[k]] = c]
<1>1. HashKey[k] \in Slots
  BY ChainType
<1> QED
  BY <1>1, OtherFields DEF IsTable

(* The count goes down with a key that was there,                          *)
LEMMA DropCount ==
  ASSUME NEW V, NULL \notin V, NEW t, IsTable(t, V), NEW k \in Keys
  PROVE  hash_drop(t, k).num_keys =
           IF hash_get(t, k) = NULL THEN t.num_keys ELSE t.num_keys - 1
<1> DEFINE c == Chain(t, k)
<1>1. CASE \A p \in 1 .. Len(c) : c[p].key # k
  <2>1. hash_get(t, k) = NULL
    BY <1>1, GetMiss
  <2>2. hash_drop(t, k) = t
    BY <1>1 DEF hash_drop, Hits, Chain
  <2> QED
    BY <2>1, <2>2
<1>2. CASE \E p \in 1 .. Len(c) : c[p].key = k
  <2>1. PICK p \in 1 .. Len(c) : c[p].key = k
    BY <1>2
  <2>2. hash_get(t, k) # NULL
    BY <2>1, GetType
  <2>3. p \in Hits(c, k) /\ FirstHit(c, k) = p
    BY <2>1, GetHit DEF Hits
  <2>4. RemoveAt(c, p) \in Seq(EntriesOf(V)) /\ HashKey[k] \in Slots /\ t.num_keys - 1 \in Int
    BY ChainType, RemovedAt, CountType
  <2>5. hash_drop(t, k) = WithChain(t, HashKey[k], RemoveAt(c, p), t.num_keys - 1)
    BY <2>3, Zenon DEF hash_drop, WithChain, Chain
  <2>6. hash_drop(t, k).num_keys = t.num_keys - 1
    <3> DEFINE r == RemoveAt(c, p)
               m == t.num_keys - 1
    <3>1. r \in Seq(EntriesOf(V)) /\ m \in Int
      BY <2>4
    <3> HIDE DEF r, m, c
    <3>2. /\ WithChain(t, HashKey[k], r, m).num_keys = m
          /\ WithChain(t, HashKey[k], r, m).entries = [t.entries EXCEPT ![HashKey[k]] = r]
      BY <3>1, CountIs
    <3> QED
      BY <2>5, <3>2, Zenon DEF r, m
  <2> QED
    BY <2>2, <2>6
<1> QED
  BY <1>1, <1>2

(* and up with an insertion, which changes one chain.                      *)
LEMMA InsertedIs ==
  ASSUME NEW V, NEW t, IsTable(t, V), NEW k \in Keys, NEW v \in V
  PROVE  /\ Inserted(t, k, v).num_keys = t.num_keys + 1
         /\ Inserted(t, k, v).entries =
              [t.entries EXCEPT ![HashKey[k]] = <<[key |-> k, value |-> v]>> \o Chain(t, k)]
<1> DEFINE d == <<[key |-> k, value |-> v]>> \o Chain(t, k)
<1>1. d \in Seq(EntriesOf(V)) /\ HashKey[k] \in Slots /\ t.num_keys + 1 \in Int
  <2>1. <<[key |-> k, value |-> v]>> \in Seq(EntriesOf(V))
    BY DEF EntriesOf
  <2>2. Chain(t, k) \in Seq(EntriesOf(V)) /\ HashKey[k] \in Slots /\ t.num_keys + 1 \in Int
    BY ChainType, CountType
  <2> QED
    BY <2>1, <2>2, ConcatProperties
<1>2. Inserted(t, k, v) = WithChain(t, HashKey[k], d, t.num_keys + 1)
  BY Zenon DEF Inserted, Chain, WithChain
<1> HIDE DEF d
<1>3. /\ WithChain(t, HashKey[k], d, t.num_keys + 1).num_keys = t.num_keys + 1
      /\ WithChain(t, HashKey[k], d, t.num_keys + 1).entries = [t.entries EXCEPT ![HashKey[k]] = d]
  BY <1>1, CountIs
<1> QED
  BY <1>2, <1>3 DEF d

(* A new head of its chain is read from then on, all other keys as before. *)
LEMMA InsertedRight ==
  ASSUME NEW V, NEW t, IsTable(t, V), NEW k \in Keys, NEW v \in V,
         NULL \notin V, hash_get(t, k) = NULL
  PROVE  /\ IsTable(Inserted(t, k, v), V) /\ Inserted(t, k, v).free = t.free
         /\ \A j \in Keys :
              hash_get(Inserted(t, k, v), j) = IF j = k THEN v ELSE hash_get(t, j)
<1> DEFINE c == Chain(t, k)
           u == Inserted(t, k, v)
           e == [key |-> k, value |-> v]
           d == <<e>> \o c
<1>1. /\ c \in Seq(EntriesOf(V)) /\ Len(c) \in Nat
      /\ \A q, r \in 1 .. Len(c) : c[q].key = c[r].key => q = r
      /\ \A q \in 1 .. Len(c) : HashKey[c[q].key] = HashKey[k]
      /\ t.num_keys + 1 \in Int
  BY ChainType, ChainInSlot, CountType
<1>2. \A q \in 1 .. Len(c) : c[q].key # k
  BY GetType
<1>3. <<e>> \in Seq(EntriesOf(V)) /\ Len(<<e>>) = 1 /\ <<e>>[1] = e /\ e.key = k /\ e.value = v
  BY DEF EntriesOf
<1>4. u = WithChain(t, HashKey[k], d, t.num_keys + 1)
  BY Zenon DEF Inserted, Chain, WithChain
<1>5. /\ d \in Seq(EntriesOf(V))
      /\ Len(d) = 1 + Len(c)
      /\ \A i \in 1 .. 1 + Len(c) : d[i] = IF i <= 1 THEN <<e>>[i] ELSE c[i - 1]
  BY <1>1, <1>3, ConcatProperties
<1> HIDE DEF c, d, e, u
<1> DEFINE n == Len(c)
<1>s. /\ n \in Nat /\ Len(d) = 1 + n
      /\ d[1] = e
      /\ \A i \in 2 .. 1 + n : i - 1 \in 1 .. n /\ d[i] = c[i - 1]
  <2>1. n \in Nat /\ Len(d) = 1 + n /\ <<e>>[1] = e
    BY ONLY <1>1, <1>3, <1>5
  <2>2. \A i \in 1 .. 1 + n : d[i] = IF i <= 1 THEN <<e>>[i] ELSE c[i - 1]
    BY ONLY <1>5
  <2> HIDE DEF n
  <2>3. 1 \in 1 .. 1 + n /\ \A i \in 2 .. 1 + n : i \in 1 .. 1 + n /\ ~(i <= 1) /\ i - 1 \in 1 .. n
    BY ONLY <2>1
  <2> QED BY ONLY <2>1, <2>2, <2>3
<1>6. /\ 1 \in 1 .. Len(d) /\ d[1] = e
      /\ \A i \in 2 .. Len(d) : i - 1 \in 1 .. Len(c) /\ d[i] = c[i - 1]
      /\ \A i \in 1 .. Len(c) : i + 1 \in 1 .. Len(d) /\ d[i + 1] = c[i]
  <2> HIDE DEF n
  <2>1. \A i \in 1 .. n : i + 1 \in 2 .. 1 + n /\ (i + 1) - 1 = i
    BY <1>s
  <2>2. \A i \in 1 .. n : i + 1 \in 1 .. Len(d) /\ d[i + 1] = c[i]
    BY <1>s, <2>1
  <2> QED BY <1>s, <2>2 DEF n
<1>7. \A q \in 1 .. Len(d) : HashKey[d[q].key] = HashKey[k]
  <2> SUFFICES ASSUME NEW q \in 1 .. 1 + n PROVE HashKey[d[q].key] = HashKey[k]
    BY <1>s
  <2>1. CASE q = 1
    BY <2>1, <1>3, <1>s
  <2>2. CASE q # 1
    BY <2>2, <1>1, <1>s
  <2> QED BY <2>1, <2>2
<1>8. \A q, r \in 1 .. Len(d) : d[q].key = d[r].key => q = r
  <2> SUFFICES ASSUME NEW q \in 1 .. Len(d), NEW r \in 1 .. Len(d), d[q].key = d[r].key
               PROVE  q = r
    OBVIOUS
  <2>a. \A i \in 1 .. Len(d) : i # 1 => d[i].key # d[1].key
    <3> SUFFICES ASSUME NEW i \in 1 .. 1 + n, i # 1 PROVE d[i].key # d[1].key
      BY <1>s
    <3>1. i \in 2 .. 1 + n
      BY ONLY <1>s, i # 1, i \in 1 .. 1 + n
    <3>2. i - 1 \in 1 .. Len(c) /\ d[i] = c[i - 1]
      BY ONLY <1>s, <3>1
    <3> QED BY ONLY <1>2, <1>3, <1>s, <3>2
  <2>1. CASE q = 1
    BY ONLY <2>1, <2>a, r \in 1 .. Len(d), d[q].key = d[r].key
  <2>2. CASE r = 1
    BY ONLY <2>2, <2>a, q \in 1 .. Len(d), d[q].key = d[r].key
  <2>3. CASE q # 1 /\ r # 1
    <3>1. q - 1 \in 1 .. Len(c) /\ r - 1 \in 1 .. Len(c)
      BY <2>3, <1>1, <1>5
    <3>2. d[q] = c[q - 1] /\ d[r] = c[r - 1]
      BY <2>3, <1>1, <1>5, <1>6
    <3>3. q - 1 = r - 1
      BY <3>1, <3>2, <1>1
    <3> QED
      BY <3>3, <1>1, <1>5
  <2> QED
    BY <2>1, <2>2, <2>3
<1>9. /\ IsTable(u, V) /\ u.free = t.free
      /\ Chain(u, k) = d
      /\ \A j \in Keys : HashKey[j] # HashKey[k] => Chain(u, j) = Chain(t, j)
  <2>1. ChainReplaced(t, k, d, WithChain(t, HashKey[k], d, t.num_keys + 1), V)
    BY <1>1, <1>5, <1>7, <1>8, OtherChain
  <2> QED
    BY <1>4, <2>1, Zenon DEF ChainReplaced
<1>10. ASSUME NEW j \in Keys
       PROVE  hash_get(u, j) = IF j = k THEN v ELSE hash_get(t, j)
  <2>1. CASE j = k
    BY <2>1, <1>3, <1>6, <1>9, GetHit
  <2>2. CASE HashKey[j] # HashKey[k]
    BY <2>2, <1>9, GetElsewhere
  <2>3. CASE j # k /\ HashKey[j] = HashKey[k]
    <3>1. Chain(t, j) = c /\ Chain(u, j) = d
      BY <2>3, <1>9 DEF Chain, c
    <3>2. CASE \E q \in 1 .. Len(c) : c[q].key = j
      <4>1. PICK q \in 1 .. Len(c) : c[q].key = j
        BY <3>2
      <4>2. q + 1 \in 1 .. Len(d) /\ d[q + 1] = c[q]
        BY <4>1, <1>6
      <4> QED
        BY <4>1, <4>2, <3>1, <1>9, <2>3, GetHit
    <3>3. CASE \A q \in 1 .. Len(c) : c[q].key # j
      <4>1. \A r \in 1 .. Len(d) : d[r].key # j
        BY <3>3, <2>3, <1>1, <1>3, <1>5, <1>6
      <4> QED
        BY <4>1, <3>1, <3>3, <2>3, GetMiss
    <3> QED
      BY <3>2, <3>3
  <2> QED
    BY <2>1, <2>2, <2>3
<1> QED
  BY <1>9, <1>10 DEF u

(* A new table is empty.                                                   *)
LEMMA NewRight ==
  ASSUME NEW V, NEW f \in BOOLEAN
  PROVE  /\ IsTable(hash_new(f), V) /\ hash_new(f).free = f
         /\ \A j \in Keys : hash_get(hash_new(f), j) = NULL
<1> DEFINE t == hash_new(f)
<1>1. t \in TablesOf(V)
  BY DEF hash_new, TablesOf
<1>2. \A i \in Slots : t.entries[i] = <<>>
  BY DEF hash_new
<1>3. \A j \in Keys : HashKey[j] \in Slots
  BY HashKeyAssumption DEF Slots
<1> HIDE DEF t
<1>4. KeysInPlace(t)
  BY <1>2 DEF KeysInPlace
<1>5. \A j \in Keys : Chain(t, j) = <<>>
  BY <1>2, <1>3 DEF Chain
<1>6. \A j \in Keys : hash_get(t, j) = NULL
  BY <1>5, GetMiss
<1> QED
  BY <1>1, <1>4, <1>6 DEF IsTable, t, hash_new

(* hash_add of a table without a free function: a key that is not there is *)
(* added if the comment of the function is right, and refused by the code. *)
LEMMA AddWithoutFree ==
  ASSUME NEW V, NULL \notin V, NEW t, IsTable(t, V), ~t.free, NEW k \in Keys, NEW v \in V,
         HashAddInserts \in BOOLEAN, k # EmptyKey, hash_get(t, k) = NULL
  PROVE  /\ IsTable(hash_add(t, k, v), V) /\ ~hash_add(t, k, v).free
         /\ Refuses(t, k) <=> ~HashAddInserts
         /\ \A j \in Keys :
              hash_get(hash_add(t, k, v), j) =
                IF j = k /\ HashAddInserts THEN v ELSE hash_get(t, j)
<1>2. Refuses(t, k) <=> ~HashAddInserts
  BY DEF Refuses
<1>3. hash_add(t, k, v) = IF HashAddInserts THEN Inserted(t, k, v) ELSE t
  BY <1>2 DEF hash_add
<1>4. /\ IsTable(Inserted(t, k, v), V) /\ Inserted(t, k, v).free = t.free
      /\ \A j \in Keys : hash_get(Inserted(t, k, v), j) = IF j = k THEN v ELSE hash_get(t, j)
  BY InsertedRight
<1> QED
  BY <1>2, <1>3, <1>4
===============================================================================
