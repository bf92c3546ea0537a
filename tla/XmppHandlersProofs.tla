-------------------------- MODULE XmppHandlersProofs --------------------------
(***************************************************************************)
(* Theorems about the handler lists (XmppHandlers), for any number of      *)
(* items, functions and ids: who owns each item, what a stanza is          *)
(* dispatched to, and what alone makes the program touch freed memory.     *)
(***************************************************************************)
EXTENDS XmppHandlers, SequenceTheorems, FiniteSetTheorems, TLAPS

(* Lemmas about the table of the lists by id.                              *)
Facts == INSTANCE HashProofs WITH
  Keys <- Ids \cup {EmptyId}, EmptyKey <- EmptyId, HashAddInserts <- inserts

-----------------------------------------------------------------------------
(* The inductive invariant.                                                *)

AllFns == Fns \cup IdFns \cup TimedFns
ItemType == [kind : {"unused", "plain", "id", "timed", "head"}, fn : AllFns \cup {NULL},
             enabled : BOOLEAN, list : Seq(Items)]

(* The table of the lists by id: its values are heads, which it does not   *)
(* free.                                                                   *)
IdTable(t) == Facts!IsTable(t, Items) /\ ~t.free

(* What the variables of the lists hold.                                   *)
ListTypes ==
  /\ mem \in [Items -> ItemType]
  /\ handlers \in Seq(Items) /\ IsInjective(handlers)
  /\ timed \in Seq(Items) /\ IsInjective(timed)
  /\ due \subseteq Range(timed)
  /\ inserts \in BOOLEAN
  /\ IdTable(id_handlers)

(* The kind of an item says in which list it is; functions are in the list *)
(* of handlers once.                                                       *)
KindsOK ==
  /\ \A a \in Items : mem[a].kind = "unused" => mem[a] = Unused
  /\ \A a \in Items : mem[a].kind = "plain" <=> a \in Range(handlers)
  /\ \A a \in Items : mem[a].kind = "timed" <=> a \in Range(timed)

FnsOnce ==
  \A a, b \in Range(handlers) : mem[a].fn = mem[b].fn => a = b

(* The list of an id, if it has one: its head and its items are of no other*)
(* id, and not lost.                                                       *)
IdListOK(id) ==
  HeadOf(id) # NULL =>
    /\ mem[HeadOf(id)].kind = "head" /\ HeadOf(id) \notin leaked
    /\ ListOf(id) # <<>> /\ IsInjective(ListOf(id))
    /\ \A a \in Range(ListOf(id)) : mem[a].kind = "id" /\ a \notin leaked

IdsApart ==
  \A id, jd \in Ids :
    /\ HeadOf(id) = HeadOf(jd) /\ HeadOf(id) # NULL => id = jd
    /\ Range(ListOf(id)) \cap Range(ListOf(jd)) # {} => id = jd

(* Each head and each item of a list by id is in the table or lost.        *)
IdsOwned ==
  /\ \A a \in Items : mem[a].kind = "head" => a \in leaked \/ \E id \in Ids : HeadOf(id) = a
  /\ \A a \in Items : mem[a].kind = "id" =>
                        a \in leaked \/ \E id \in Ids : a \in Range(ListOf(id))
  /\ leaked \subseteq {a \in Items : mem[a].kind \in {"head", "id"}}
  /\ inserts => leaked = {}
  /\ ~inserts => \A id \in Ids : HeadOf(id) = NULL

IdsOK ==
  /\ \A id \in Ids : IdListOK(id)
  /\ IdsApart
  /\ IdsOwned

HeapInv == ListTypes /\ KindsOK /\ FnsOnce /\ IdsOK

(* The walk of the list of handlers: its item is linked until its function *)
(* deletes it, the next one too.                                           *)
PlainWalk ==
  walk.on /\ walk.id = NULL =>
    /\ walk.tmp # walk.pos
    /\ walk.at = "item" => walk.pos \in Range(handlers) /\ walk.tmp = After(handlers, walk.pos)
    /\ walk.pos \in Range(handlers) \/ walk.at = "after" \/ "self" \in misuse
    /\ walk.tmp \in Range(handlers) \cup {NULL} \/ "next" \in misuse

(* The walk of the list of an id: the same until the list goes, and it goes*)
(* with the item itself.                                                   *)
IdWalk ==
  walk.on /\ walk.id # NULL =>
    /\ walk.head # NULL
    /\ HeadOf(walk.id) = walk.head \/ "emptied" \in misuse
    /\ "emptied" \in misuse => "self" \in misuse
    /\ walk.pos \in Range(ListOf(walk.id)) \/ walk.at = "after" \/ "self" \in misuse
    /\ walk.tmp \in Range(ListOf(walk.id)) \cup {NULL} \/ misuse \cap {"next", "emptied"} # {}

WalkType == [on : BOOLEAN, id : Ids \cup {NULL}, head : Items \cup {NULL},
             pos : Items \cup {NULL}, tmp : Items \cup {NULL},
             at : {"none", "item", "call", "after"}]

WalkTypes ==
  /\ walk \in WalkType
  /\ IF walk.on THEN walk.at # "none" /\ walk.pos # NULL ELSE walk = NoWalk

WalkInv == fault = "none" => WalkTypes /\ PlainWalk /\ IdWalk

(* The order of a list.                                                    *)
Before(s, a, b) == \E i, j \in DOMAIN s : i <= j /\ s[i] = a /\ s[j] = b

(* The item the walk has to deal with next.                                *)
Cursor == IF walk.at = "item" THEN walk.pos ELSE walk.tmp

(* Each enabled item from c on has its function among those that wait, and *)
(* each function that waits is that of such an item.                       *)
WaitingFrom(c) ==
  /\ \A b \in Range(handlers) :
       Before(handlers, c, b) /\ mem[b].enabled => mem[b].fn \in waiting
  /\ "next" \in misuse \/
       \A f \in waiting : \E b \in Range(handlers) :
         Before(handlers, c, b) /\ mem[b].enabled /\ mem[b].fn = f

WaitingInv ==
  fault = "none" =>
    /\ ~walk.on => waiting = {} \/ "next" \in misuse
    /\ walk.on /\ walk.id = NULL => WaitingFrom(Cursor)

HandlersInv == HeapInv /\ WalkInv /\ WaitingInv

-----------------------------------------------------------------------------
(* Lists.                                                                  *)

(* The items of a list, by their places.                                   *)
LEMMA ListShape ==
  ASSUME NEW S, NEW s \in Seq(S)
  PROVE  /\ Len(s) \in Nat /\ DOMAIN s = 1 .. Len(s)
         /\ Range(s) \subseteq S
         /\ \A a : a \in Range(s) <=> \E i \in 1 .. Len(s) : s[i] = a
         /\ s = <<>> <=> Range(s) = {}
<1>1. Len(s) \in Nat /\ DOMAIN s = 1 .. Len(s) /\ \A i \in 1 .. Len(s) : s[i] \in S
  BY LenProperties, ElementOfSeq
<1>2. Range(s) = {s[i] : i \in 1 .. Len(s)}
  BY <1>1 DEF Range
<1>3. s = <<>> <=> Len(s) = 0
  BY EmptySeq
<1> QED BY <1>1, <1>2, <1>3

(* Before is the order of the places in a list.                            *)
LEMMA BeforeRange ==
  ASSUME NEW S, NEW s \in Seq(S)
  PROVE  /\ \A a, b : Before(s, a, b) => a \in Range(s) /\ b \in Range(s)
         /\ \A a \in Range(s) : Before(s, a, a)
         /\ s # <<>> => s[1] \in Range(s) /\ \A b \in Range(s) : Before(s, s[1], b)
<1>1. Len(s) \in Nat /\ DOMAIN s = 1 .. Len(s)
  BY ListShape
<1>2. s # <<>> => Len(s) >= 1
  BY <1>1, EmptySeq
<1> QED BY <1>1, <1>2, ListShape DEF Before

(* What Hash asks of its constants holds here.                             *)
LEMMA TableConstants ==
  /\ NULL \notin Ids \cup {EmptyId}
  /\ HashKey \in [Ids \cup {EmptyId} -> 0 .. Length - 1]
  /\ Length \in Nat \ {0}
  /\ EmptyId \notin Ids
  /\ NULL \notin Items
BY SlotsAssumption, NullAssumption, EmptyIdAssumption

(* A sequence without its element p.                                       *)
LEMMA RemovedAt ==
  ASSUME NEW S, NEW c \in Seq(S), NEW p \in 1 .. Len(c)
  PROVE  /\ RemoveAt(c, p) \in Seq(S)
         /\ Len(RemoveAt(c, p)) = Len(c) - 1
         /\ \A i \in 1 .. Len(c) - 1 :
              RemoveAt(c, p)[i] = IF i < p THEN c[i] ELSE c[i + 1]
<1>1. Facts!RemoveAt(c, p) = RemoveAt(c, p)
  BY Zenon DEF RemoveAt, Facts!RemoveAt
<1>2. /\ Facts!RemoveAt(c, p) \in Seq(S)
      /\ Len(Facts!RemoveAt(c, p)) = Len(c) - 1
      /\ \A i \in 1 .. Len(c) - 1 :
           Facts!RemoveAt(c, p)[i] = IF i < p THEN c[i] ELSE c[i + 1]
  BY Facts!RemovedAt, TableConstants
<1> QED BY <1>1, <1>2

(* Without the item a, the others are left in their order.                 *)
LEMMA WithoutRight ==
  ASSUME NEW S, NEW s \in Seq(S), IsInjective(s), NEW a \in Range(s)
  PROVE  /\ Without(s, a) \in Seq(S) /\ IsInjective(Without(s, a))
         /\ Range(Without(s, a)) = Range(s) \ {a}
         /\ \A x, y : Before(Without(s, a), x, y) <=> Before(s, x, y) /\ x # a /\ y # a
<1> DEFINE n == Len(s)
           w == Without(s, a)
<1>1. n \in Nat /\ DOMAIN s = 1 .. n /\ \A i, j \in 1 .. n : s[i] = s[j] => i = j
  BY ListShape DEF IsInjective
<1>2. PICK p \in 1 .. n : s[p] = a
  BY ListShape
<1>3. w = RemoveAt(s, p)
  <2>1. \A i \in DOMAIN s : s[i] = a <=> i = p
    BY <1>1, <1>2
  <2> QED BY <2>1, <1>1, Zenon DEF Without
<1>4. /\ w \in Seq(S) /\ Len(w) = n - 1
      /\ \A i \in 1 .. n - 1 : w[i] = IF i < p THEN s[i] ELSE s[i + 1]
  BY <1>3, RemovedAt
<1>5. DOMAIN w = 1 .. n - 1
  BY <1>4, ListShape
<1> HIDE DEF n, w
<1> DEFINE from(i) == IF i < p THEN i ELSE i + 1
           to(j)   == IF j < p THEN j ELSE j - 1
<1>6. \A i \in 1 .. n - 1 : from(i) \in 1 .. n /\ from(i) # p /\ w[i] = s[from(i)]
  BY <1>1, <1>2, <1>4
<1>7. \A j \in 1 .. n : j # p => to(j) \in 1 .. n - 1 /\ from(to(j)) = j
  BY <1>1, <1>2
<1>8. \A i, j \in 1 .. n - 1 : (from(i) <= from(j) <=> i <= j) /\ (from(i) = from(j) => i = j)
  BY <1>1, <1>2
<1>9. \A i, j \in 1 .. n : i # p /\ j # p /\ i <= j => to(i) <= to(j)
  BY <1>1, <1>2
<1> HIDE DEF from, to
<1>10. IsInjective(w)
  BY <1>1, <1>5, <1>6, <1>8 DEF IsInjective
<1>11. \A j \in 1 .. n : j # p => w[to(j)] = s[j]
  BY <1>6, <1>7
<1>12. \A x : x \in Range(w) <=> x \in Range(s) /\ x # a
  <2>1. \A x : x \in Range(w) <=> \E i \in 1 .. n - 1 : w[i] = x
    BY <1>5 DEF Range
  <2>2. \A x : x \in Range(s) <=> \E i \in 1 .. n : s[i] = x
    BY <1>1 DEF Range
  <2> QED BY <2>1, <2>2, <1>1, <1>2, <1>6, <1>7, <1>11
<1>13. ASSUME NEW x, NEW y
       PROVE  Before(w, x, y) <=> Before(s, x, y) /\ x # a /\ y # a
  <2>1. ASSUME Before(w, x, y) PROVE Before(s, x, y) /\ x # a /\ y # a
    <3>1. PICK i \in 1 .. n - 1, j \in 1 .. n - 1 : i <= j /\ w[i] = x /\ w[j] = y
      BY <2>1, <1>5 DEF Before
    <3>2. from(i) <= from(j) /\ s[from(i)] = x /\ s[from(j)] = y
      BY <3>1, <1>6, <1>8
    <3> QED BY <3>1, <3>2, <1>1, <1>2, <1>6 DEF Before
  <2>2. ASSUME Before(s, x, y), x # a, y # a PROVE Before(w, x, y)
    <3>1. PICK i \in 1 .. n, j \in 1 .. n : i <= j /\ s[i] = x /\ s[j] = y
      BY <2>2, <1>1 DEF Before
    <3>2. i # p /\ j # p
      BY <3>1, <2>2, <1>2
    <3>3. to(i) <= to(j) /\ w[to(i)] = x /\ w[to(j)] = y
      BY <3>1, <3>2, <1>9, <1>11
    <3> QED BY <3>2, <3>3, <1>5, <1>7 DEF Before
  <2> QED BY <2>1, <2>2
<1> QED BY <1>4, <1>10, <1>12, <1>13 DEF w

(* A new item comes after all others.                                      *)
LEMMA AppendRight ==
  ASSUME NEW S, NEW s \in Seq(S), IsInjective(s), NEW a \in S, a \notin Range(s)
  PROVE  /\ Append(s, a) \in Seq(S) /\ IsInjective(Append(s, a))
         /\ Range(Append(s, a)) = Range(s) \cup {a}
         /\ \A x, y : Before(Append(s, a), x, y) <=>
                        Before(s, x, y) \/ (y = a /\ x \in Range(s) \cup {a})
<1> DEFINE n == Len(s)
           w == Append(s, a)
<1>1. n \in Nat /\ DOMAIN s = 1 .. n /\ \A i, j \in 1 .. n : s[i] = s[j] => i = j
  BY ListShape DEF IsInjective
<1>2. /\ w \in Seq(S) /\ Len(w) = n + 1
      /\ \A i \in 1 .. n : w[i] = s[i]
      /\ w[n + 1] = a
  BY AppendProperties
<1>3. DOMAIN w = 1 .. n + 1
  BY <1>2, ListShape
<1>4. \A x : x \in Range(s) <=> \E i \in 1 .. n : s[i] = x
  BY <1>1 DEF Range
<1> HIDE DEF n, w
<1>5. \A i \in 1 .. n + 1 : IF i = n + 1 THEN w[i] = a ELSE i \in 1 .. n /\ w[i] = s[i]
  BY <1>1, <1>2
<1>6. \A i \in 1 .. n : w[i] # a
  BY <1>2, <1>4
<1>7. IsInjective(w)
  BY <1>1, <1>3, <1>5, <1>6 DEF IsInjective
<1>8. \A x : x \in Range(w) <=> x \in Range(s) \/ x = a
  <2>1. \A x : x \in Range(w) <=> \E i \in 1 .. n + 1 : w[i] = x
    BY <1>3 DEF Range
  <2> QED BY <2>1, <1>1, <1>2, <1>4, <1>5
<1>9. ASSUME NEW x, NEW y
      PROVE  Before(w, x, y) <=> Before(s, x, y) \/ (y = a /\ x \in Range(s) \cup {a})
  <2>1. ASSUME Before(w, x, y) PROVE Before(s, x, y) \/ (y = a /\ x \in Range(s) \cup {a})
    <3>1. PICK i \in 1 .. n + 1, j \in 1 .. n + 1 : i <= j /\ w[i] = x /\ w[j] = y
      BY <2>1, <1>3 DEF Before
    <3>2. CASE j = n + 1
      BY <3>1, <3>2, <1>4, <1>5
    <3>3. CASE j # n + 1
      <4>1. i \in 1 .. n /\ j \in 1 .. n
        BY <3>1, <3>3, <1>1
      <4>2. s[i] = x /\ s[j] = y
        BY <3>1, <4>1, <1>2
      <4> QED BY <3>1, <4>1, <4>2, <1>1 DEF Before
    <3> QED BY <3>2, <3>3
  <2>2. ASSUME Before(s, x, y) PROVE Before(w, x, y)
    <3>1. PICK i \in 1 .. n, j \in 1 .. n : i <= j /\ s[i] = x /\ s[j] = y
      BY <2>2, <1>1 DEF Before
    <3> QED BY <3>1, <1>1, <1>2, <1>3 DEF Before
  <2>3. ASSUME y = a, x \in Range(s) \cup {a} PROVE Before(w, x, y)
    <3>1. PICK i \in 1 .. n + 1 : w[i] = x
      BY <2>3, <1>8, <1>3 DEF Range
    <3>2. i <= n + 1 /\ n + 1 \in 1 .. n + 1
      BY <1>1
    <3> QED BY <3>1, <3>2, <2>3, <1>2, <1>3 DEF Before
  <2> QED BY <2>1, <2>2, <2>3
<1> QED BY <1>2, <1>7, <1>8, <1>9 DEF w

(* The items from a on are a and those from the one after it on.           *)
LEMMA AfterRight ==
  ASSUME NEW S, NULL \notin S, NEW s \in Seq(S), IsInjective(s), NEW a \in Range(s)
  PROVE  /\ After(s, a) \in Range(s) \cup {NULL} /\ After(s, a) # a
         /\ \A y : Before(s, a, y) <=> y = a \/ Before(s, After(s, a), y)
         /\ ~Before(s, After(s, a), a)
<1> DEFINE n == Len(s)
<1>1. n \in Nat /\ DOMAIN s = 1 .. n /\ \A i, j \in 1 .. n : s[i] = s[j] => i = j
  BY ListShape DEF IsInjective
<1>2. /\ \A x : x \in Range(s) <=> \E i \in 1 .. n : s[i] = x
      /\ Range(s) \subseteq S
  BY ListShape
<1>3. PICK p \in 1 .. n : s[p] = a
  BY <1>2
<1>4. After(s, a) = IF p = n THEN NULL ELSE s[p + 1]
  <2>1. \A i \in DOMAIN s : s[i] = a <=> i = p
    BY <1>1, <1>3
  <2> DEFINE q == CHOOSE j \in DOMAIN s : s[j] = a
  <2>2. q = p
    BY <2>1, <1>1
  <2>3. After(s, a) = IF q = Len(s) THEN NULL ELSE s[q + 1]
    BY DEF After
  <2> HIDE DEF q
  <2> QED BY <2>2, <2>3
<1> HIDE DEF n
<1>5. CASE p = n
  <2>1. \A y : Before(s, a, y) <=> y = a
    BY <1>1, <1>3, <1>5 DEF Before
  <2>2. \A y : ~Before(s, NULL, y)
    BY <1>1, <1>2 DEF Before
  <2> QED BY <2>1, <2>2, <1>2, <1>4, <1>5
<1>6. CASE p # n
  <2>1. p + 1 \in 1 .. n
    BY <1>1, <1>3, <1>6
  <2>2. ASSUME NEW y PROVE Before(s, a, y) <=> y = a \/ Before(s, s[p + 1], y)
    <3>1. Before(s, a, y) <=> \E j \in 1 .. n : p <= j /\ s[j] = y
      BY <1>1, <1>3 DEF Before
    <3>2. Before(s, s[p + 1], y) <=> \E j \in 1 .. n : p + 1 <= j /\ s[j] = y
      BY <1>1, <2>1 DEF Before
    <3>3. \A j \in 1 .. n : p <= j <=> p = j \/ p + 1 <= j
      BY <1>1, <1>3
    <3> QED BY <3>1, <3>2, <3>3, <1>3
  <2>3. s[p + 1] # a /\ ~Before(s, s[p + 1], a)
    BY <2>1, <1>1, <1>3 DEF Before
  <2> QED BY <2>1, <2>2, <2>3, <1>2, <1>4, <1>6
<1> QED BY <1>5, <1>6

-----------------------------------------------------------------------------
(* The table.                                                              *)

(* The table of the model is that of the lemmas.                           *)
LEMMA SameTable ==
  ASSUME NEW t, NEW k, NEW v
  PROVE  /\ Table!hash_get(t, k) = Facts!hash_get(t, k)
         /\ Table!hash_drop(t, k) = Facts!hash_drop(t, k)
         /\ Table!hash_add(t, k, v) = Facts!hash_add(t, k, v)
         /\ Table!Refuses(t, k) <=> Facts!Refuses(t, k)
<1>1. Table!FirstHit(t.entries[HashKey[k]], k) = Facts!FirstHit(t.entries[HashKey[k]], k)
  BY Zenon DEF Table!FirstHit, Table!Hits, Facts!FirstHit, Facts!Hits
<1>2. Table!Hits(t.entries[HashKey[k]], k) = Facts!Hits(t.entries[HashKey[k]], k)
  BY Zenon DEF Table!Hits, Facts!Hits
<1>3. Table!hash_get(t, k) = Facts!hash_get(t, k)
  BY <1>1, <1>2, Zenon DEF Table!hash_get, Facts!hash_get
<1>4. Table!hash_drop(t, k) = Facts!hash_drop(t, k)
  BY <1>1, <1>2, Zenon
     DEF Table!hash_drop, Facts!hash_drop, Table!RemoveAt, Facts!RemoveAt
<1>5. Table!Refuses(t, k) <=> Facts!Refuses(t, k)
  BY <1>3, Zenon DEF Table!Refuses, Facts!Refuses
<1>6. Table!hash_add(t, k, v) = Facts!hash_add(t, k, v)
  BY <1>4, <1>5, Zenon
     DEF Table!hash_add, Facts!hash_add, Table!Inserted, Facts!Inserted
<1> QED BY <1>3, <1>4, <1>5, <1>6

(* A head is an item, or there is none.                                    *)
LEMMA GetType ==
  ASSUME NEW t, IdTable(t), NEW id \in Ids
  PROVE  Table!hash_get(t, id) \in Items \cup {NULL}
<1>1. Facts!hash_get(t, id) \in Items \cup {NULL}
  BY Facts!GetType, TableConstants DEF IdTable
<1> QED BY <1>1, SameTable, Zenon

(* hash_drop takes the head of an id away.                                 *)
LEMMA DropRight ==
  ASSUME NEW t, IdTable(t), NEW id \in Ids
  PROVE  /\ IdTable(Table!hash_drop(t, id))
         /\ \A jd \in Ids : Table!hash_get(Table!hash_drop(t, id), jd) =
                              IF jd = id THEN NULL ELSE Table!hash_get(t, jd)
<1> DEFINE d == Facts!hash_drop(t, id)
<1>1. /\ Facts!IsTable(d, Items) /\ d.free = t.free
      /\ \A jd \in Ids : Facts!hash_get(d, jd) =
                           IF jd = id THEN NULL ELSE Facts!hash_get(t, jd)
  BY Facts!DropRight, TableConstants DEF IdTable
<1>2. Table!hash_drop(t, id) = d
  BY SameTable, Zenon
<1> HIDE DEF d
<1>3. \A jd \in Ids : /\ Table!hash_get(d, jd) = Facts!hash_get(d, jd)
                      /\ Table!hash_get(t, jd) = Facts!hash_get(t, jd)
  BY SameTable, Zenon
<1> QED BY <1>1, <1>2, <1>3 DEF IdTable

(* hash_add gives an id without a list its head, or does nothing.          *)
LEMMA AddRight ==
  ASSUME NEW t, IdTable(t), NEW id \in Ids, NEW h \in Items, inserts \in BOOLEAN,
         Table!hash_get(t, id) = NULL
  PROVE  /\ IdTable(Table!hash_add(t, id, h))
         /\ Table!Refuses(t, id) <=> ~inserts
         /\ \A jd \in Ids : Table!hash_get(Table!hash_add(t, id, h), jd) =
                              IF jd = id /\ inserts THEN h ELSE Table!hash_get(t, jd)
<1> DEFINE u == Facts!hash_add(t, id, h)
<1>1. Facts!hash_get(t, id) = NULL /\ id # EmptyId
  BY SameTable, TableConstants, Zenon
<1>2. /\ Facts!IsTable(u, Items) /\ ~u.free
      /\ Facts!Refuses(t, id) <=> ~inserts
      /\ \A jd \in Ids : Facts!hash_get(u, jd) =
                           IF jd = id /\ inserts THEN h ELSE Facts!hash_get(t, jd)
  BY <1>1, Facts!AddWithoutFree, TableConstants DEF IdTable
<1>3. Table!hash_add(t, id, h) = u /\ (Table!Refuses(t, id) <=> Facts!Refuses(t, id))
  BY SameTable, Zenon
<1> HIDE DEF u
<1>4. \A jd \in Ids : /\ Table!hash_get(u, jd) = Facts!hash_get(u, jd)
                      /\ Table!hash_get(t, jd) = Facts!hash_get(t, jd)
  BY SameTable, Zenon
<1> QED BY <1>2, <1>3, <1>4 DEF IdTable

(* A new table has no heads.                                               *)
LEMMA NewRight ==
  /\ IdTable(Table!hash_new(FALSE))
  /\ \A id \in Ids : Table!hash_get(Table!hash_new(FALSE), id) = NULL
<1> DEFINE t == Facts!hash_new(FALSE)
<1>1. /\ Facts!IsTable(t, Items) /\ t.free = FALSE
      /\ \A id \in Ids : Facts!hash_get(t, id) = NULL
  BY Facts!NewRight, TableConstants
<1>2. Table!hash_new(FALSE) = t
  BY Zenon DEF Table!hash_new, Facts!hash_new, Table!Slots, Facts!Slots
<1> HIDE DEF t
<1>3. \A id \in Ids : Table!hash_get(t, id) = Facts!hash_get(t, id)
  BY SameTable, Zenon
<1> QED BY <1>1, <1>2, <1>3 DEF IdTable

-----------------------------------------------------------------------------
(* The lists by id.                                                        *)

(* The head of an id after a step is read from the table after it.         *)
LEMMA HeadNext ==
  ASSUME NEW id, inserts' = inserts
  PROVE  HeadOf(id)' = Table!hash_get(id_handlers', id)
BY DEF HeadOf

(* The list of an id is a sequence of items, empty without a head.         *)
LEMMA ListOfType ==
  ASSUME ListTypes, NEW id \in Ids
  PROVE  /\ HeadOf(id) \in Items \cup {NULL}
         /\ ListOf(id) \in Seq(Items) /\ Range(ListOf(id)) \subseteq Items
         /\ HeadOf(id) = NULL => ListOf(id) = <<>> /\ Range(ListOf(id)) = {}
<1>1. HeadOf(id) \in Items \cup {NULL}
  BY GetType DEF ListTypes, HeadOf
<1>2. ListOf(id) \in Seq(Items)
  BY <1>1 DEF ListTypes, ItemType, ListOf
<1> QED BY <1>1, <1>2, ListShape DEF ListOf

(* What does not touch the table, the heads and the items of its lists     *)
(* leaves the lists by id as they are.                                     *)
LEMMA IdsUntouched ==
  ASSUME ListTypes, IdsOK, UNCHANGED <<id_handlers, leaked, inserts>>,
         \A a \in Items : \/ mem'[a] = mem[a]
                          \/ {mem[a].kind, mem'[a].kind} \cap {"head", "id"} = {}
  PROVE  /\ IdsOK'
         /\ \A id \in Ids : HeadOf(id)' = HeadOf(id) /\ ListOf(id)' = ListOf(id)
<1>1. \A id \in Ids : HeadOf(id)' = HeadOf(id)
  BY HeadNext DEF HeadOf
<1>2. ASSUME NEW id \in Ids PROVE ListOf(id)' = ListOf(id)
  <2>1. CASE HeadOf(id) = NULL
    BY <1>1, <2>1 DEF ListOf
  <2>2. CASE HeadOf(id) # NULL
    <3>1. HeadOf(id) \in Items /\ mem[HeadOf(id)].kind = "head"
      BY <2>2, ListOfType DEF IdsOK, IdListOK
    <3>2. mem'[HeadOf(id)] = mem[HeadOf(id)]
      BY <3>1
    <3> QED BY <1>1, <2>2, <3>2 DEF ListOf
  <2> QED BY <2>1, <2>2
<1>3. \A a \in Items : /\ mem[a].kind \in {"head", "id"} => mem'[a].kind = mem[a].kind
                       /\ mem'[a].kind \in {"head", "id"} => mem'[a].kind = mem[a].kind
  OBVIOUS
<1>4. ASSUME NEW id \in Ids PROVE IdListOK(id)'
  <2>1. CASE HeadOf(id) = NULL
    BY <1>1, <2>1 DEF IdListOK
  <2>2. CASE HeadOf(id) # NULL
    <3>1. /\ HeadOf(id) \in Items /\ Range(ListOf(id)) \subseteq Items
          /\ mem[HeadOf(id)].kind = "head" /\ HeadOf(id) \notin leaked
          /\ ListOf(id) # <<>> /\ IsInjective(ListOf(id))
          /\ \A a \in Range(ListOf(id)) : mem[a].kind = "id" /\ a \notin leaked
      BY <2>2, ListOfType DEF IdsOK, IdListOK
    <3> QED BY <1>1, <1>2, <1>3, <3>1 DEF IdListOK
  <2> QED BY <2>1, <2>2
<1>5. IdsApart'
  BY <1>1, <1>2 DEF IdsOK, IdsApart
<1>6. IdsOwned'
  BY <1>1, <1>2, <1>3 DEF IdsOK, IdsOwned
<1> QED BY <1>1, <1>2, <1>4, <1>5, <1>6 DEF IdsOK

-----------------------------------------------------------------------------
(* The items.                                                              *)

(* The fields of an item.                                                  *)
LEMMA WithListFields ==
  ASSUME NEW m \in ItemType, NEW s \in Seq(Items)
  PROVE  /\ WithList(m, s) \in ItemType
         /\ WithList(m, s).kind = m.kind /\ WithList(m, s).fn = m.fn
         /\ WithList(m, s).enabled = m.enabled /\ WithList(m, s).list = s
BY DEF ItemType, WithList

(* handler_fire_stanza enables an item and leaves the rest of it.          *)
LEMMA EnabledFields ==
  ASSUME NEW m \in ItemType
  PROVE  /\ Enabled(m) \in ItemType
         /\ Enabled(m).kind = m.kind /\ Enabled(m).fn = m.fn
         /\ Enabled(m).enabled = TRUE /\ Enabled(m).list = m.list
BY DEF ItemType, Enabled

(* A new item is not enabled and has no list.                              *)
LEMMA NewItemFields ==
  ASSUME NEW kind \in {"unused", "plain", "id", "timed", "head"}, NEW f \in AllFns \cup {NULL}
  PROVE  /\ NewItem(kind, f) \in ItemType
         /\ NewItem(kind, f).kind = kind /\ NewItem(kind, f).fn = f
         /\ NewItem(kind, f).enabled = FALSE /\ NewItem(kind, f).list = <<>>
BY DEF ItemType, NewItem

(* Memory that is not in use.                                              *)
LEMMA UnusedFields == Unused \in ItemType /\ Unused.kind = "unused"
BY DEF ItemType, NewItem, Unused

(* An item that is free is in no list and is not lost.                     *)
LEMMA FreeItem ==
  ASSUME HeapInv, NEW a \in Free
  PROVE  /\ a \in Items /\ mem[a].kind = "unused"
         /\ a \notin Range(handlers) /\ a \notin Range(timed) /\ a \notin leaked
         /\ \A id \in Ids : HeadOf(id) # a /\ a \notin Range(ListOf(id))
<1>1. a \in Items /\ mem[a].kind = "unused"
  BY UnusedFields DEF Free
<1>2. a \notin Range(handlers) /\ a \notin Range(timed) /\ a \notin leaked
  BY <1>1 DEF HeapInv, KindsOK, IdsOK, IdsOwned
<1>3. ASSUME NEW id \in Ids PROVE HeadOf(id) # a /\ a \notin Range(ListOf(id))
  <2>1. CASE HeadOf(id) = NULL
    BY <2>1, <1>1, ListOfType, TableConstants DEF HeapInv
  <2>2. CASE HeadOf(id) # NULL
    BY <2>2, <1>1 DEF HeapInv, IdsOK, IdListOK
  <2> QED BY <2>1, <2>2
<1> QED BY <1>1, <1>2, <1>3

-----------------------------------------------------------------------------
(* What the functions do to the heap.                                      *)

(* handler_add: the item is the last of the list.                          *)
LEMMA AddPlainHeap ==
  ASSUME HeapInv, NEW f \in Fns, ItemsOf(handlers, f) = {}, NEW a \in Free, AddedPlain(a, f),
         UNCHANGED <<timed, id_handlers, inserts, due, leaked>>
  PROVE  /\ HeapInv'
         /\ \A id \in Ids : HeadOf(id)' = HeadOf(id) /\ ListOf(id)' = ListOf(id)
<1>1. /\ a \in Items /\ mem[a].kind = "unused" /\ a \notin Range(handlers)
      /\ a \notin Range(timed)
  BY FreeItem
<1>2. /\ handlers' \in Seq(Items) /\ IsInjective(handlers')
      /\ Range(handlers') = Range(handlers) \cup {a}
  BY <1>1, AppendRight DEF HeapInv, ListTypes, AddedPlain
<1>3. /\ NewItem("plain", f) \in ItemType
      /\ NewItem("plain", f).kind = "plain" /\ NewItem("plain", f).fn = f
  BY NewItemFields DEF AllFns
<1>4. /\ mem \in [Items -> ItemType] /\ mem' \in [Items -> ItemType]
      /\ mem'[a].kind = "plain" /\ mem'[a].fn = f
      /\ \A b \in Items : b # a => mem'[b] = mem[b]
  BY <1>1, <1>3 DEF HeapInv, ListTypes, AddedPlain
<1>5. /\ IdsOK'
      /\ \A id \in Ids : HeadOf(id)' = HeadOf(id) /\ ListOf(id)' = ListOf(id)
  <2>1. \A b \in Items : \/ mem'[b] = mem[b]
                         \/ {mem[b].kind, mem'[b].kind} \cap {"head", "id"} = {}
    BY <1>1, <1>4
  <2> QED BY <2>1, IdsUntouched DEF HeapInv
<1>6. KindsOK'
  BY <1>1, <1>2, <1>4 DEF HeapInv, KindsOK
<1>7. FnsOnce'
  <2>1. \A b \in Range(handlers) : b \in Items /\ mem[b].fn # f /\ mem'[b] = mem[b]
    BY <1>1, <1>4, ListShape DEF HeapInv, ListTypes, ItemsOf
  <2> QED BY <1>2, <1>4, <2>1 DEF HeapInv, FnsOnce
<1>8. ListTypes'
  BY <1>2, <1>4 DEF HeapInv, ListTypes
<1> QED BY <1>5, <1>6, <1>7, <1>8 DEF HeapInv

(* _handler_free: the item is of no list any more.                         *)
LEMMA FreePlainHeap ==
  ASSUME HeapInv, NEW a \in Range(handlers), FreePlain(a),
         UNCHANGED <<timed, id_handlers, inserts, due, leaked>>
  PROVE  /\ HeapInv'
         /\ \A id \in Ids : HeadOf(id)' = HeadOf(id) /\ ListOf(id)' = ListOf(id)
<1>1. a \in Items /\ mem[a].kind = "plain"
  BY ListShape DEF HeapInv, ListTypes, KindsOK
<1>2. /\ handlers' \in Seq(Items) /\ IsInjective(handlers')
      /\ Range(handlers') = Range(handlers) \ {a}
  BY WithoutRight DEF HeapInv, ListTypes, FreePlain
<1>3. /\ mem \in [Items -> ItemType] /\ mem' \in [Items -> ItemType]
      /\ mem'[a] = Unused /\ mem'[a].kind = "unused"
      /\ \A b \in Items : b # a => mem'[b] = mem[b]
  BY <1>1, UnusedFields DEF HeapInv, ListTypes, FreePlain
<1>4. /\ IdsOK'
      /\ \A id \in Ids : HeadOf(id)' = HeadOf(id) /\ ListOf(id)' = ListOf(id)
  <2>1. \A b \in Items : \/ mem'[b] = mem[b]
                         \/ {mem[b].kind, mem'[b].kind} \cap {"head", "id"} = {}
    BY <1>1, <1>3
  <2> QED BY <2>1, IdsUntouched DEF HeapInv
<1>5. KindsOK'
  BY <1>1, <1>2, <1>3 DEF HeapInv, KindsOK
<1>6. FnsOnce'
  <2>1. Range(handlers) \subseteq Items
    BY ListShape DEF HeapInv, ListTypes
  <2> QED BY <1>2, <1>3, <2>1 DEF HeapInv, FnsOnce
<1>7. ListTypes'
  BY <1>2, <1>3 DEF HeapInv, ListTypes
<1> QED BY <1>4, <1>5, <1>6, <1>7 DEF HeapInv

(* handler_add_timed.                                                      *)
LEMMA AddTimedHeap ==
  ASSUME HeapInv, NEW f \in TimedFns, NEW a \in Free,
         mem' = [mem EXCEPT ![a] = NewItem("timed", f)], timed' = Append(timed, a),
         UNCHANGED <<handlers, id_handlers, inserts, due, leaked>>
  PROVE  /\ HeapInv'
         /\ \A id \in Ids : HeadOf(id)' = HeadOf(id) /\ ListOf(id)' = ListOf(id)
<1>1. /\ a \in Items /\ mem[a].kind = "unused" /\ a \notin Range(handlers)
      /\ a \notin Range(timed)
  BY FreeItem
<1>2. /\ timed' \in Seq(Items) /\ IsInjective(timed')
      /\ Range(timed') = Range(timed) \cup {a}
  BY <1>1, AppendRight DEF HeapInv, ListTypes
<1>3. NewItem("timed", f) \in ItemType /\ NewItem("timed", f).kind = "timed"
  BY NewItemFields DEF AllFns
<1>4. /\ mem \in [Items -> ItemType] /\ mem' \in [Items -> ItemType]
      /\ mem'[a].kind = "timed"
      /\ \A b \in Items : b # a => mem'[b] = mem[b]
  BY <1>1, <1>3 DEF HeapInv, ListTypes
<1>5. /\ IdsOK'
      /\ \A id \in Ids : HeadOf(id)' = HeadOf(id) /\ ListOf(id)' = ListOf(id)
  <2>1. \A b \in Items : \/ mem'[b] = mem[b]
                         \/ {mem[b].kind, mem'[b].kind} \cap {"head", "id"} = {}
    BY <1>1, <1>4
  <2> QED BY <2>1, IdsUntouched DEF HeapInv
<1>6. KindsOK'
  BY <1>1, <1>2, <1>4 DEF HeapInv, KindsOK
<1>7. FnsOnce'
  <2>1. \A b \in Range(handlers) : b \in Items /\ mem'[b] = mem[b]
    BY <1>1, <1>4, ListShape DEF HeapInv, ListTypes
  <2> QED BY <2>1 DEF HeapInv, FnsOnce
<1>8. ListTypes'
  BY <1>2, <1>4 DEF HeapInv, ListTypes
<1> QED BY <1>5, <1>6, <1>7, <1>8 DEF HeapInv

(* _timed_handler_free: an event that was due is gone with it.             *)
LEMMA FreeTimedHeap ==
  ASSUME HeapInv, NEW a \in Range(timed), mem' = [mem EXCEPT ![a] = Unused],
         timed' = Without(timed, a), due' = due \ {a},
         UNCHANGED <<handlers, id_handlers, inserts, leaked>>
  PROVE  /\ HeapInv'
         /\ \A id \in Ids : HeadOf(id)' = HeadOf(id) /\ ListOf(id)' = ListOf(id)
<1>1. a \in Items /\ mem[a].kind = "timed" /\ a \notin Range(handlers)
  BY ListShape DEF HeapInv, ListTypes, KindsOK
<1>2. /\ timed' \in Seq(Items) /\ IsInjective(timed')
      /\ Range(timed') = Range(timed) \ {a}
  BY WithoutRight DEF HeapInv, ListTypes
<1>3. /\ mem \in [Items -> ItemType] /\ mem' \in [Items -> ItemType]
      /\ mem'[a] = Unused /\ mem'[a].kind = "unused"
      /\ \A b \in Items : b # a => mem'[b] = mem[b]
  BY <1>1, UnusedFields DEF HeapInv, ListTypes
<1>4. /\ IdsOK'
      /\ \A id \in Ids : HeadOf(id)' = HeadOf(id) /\ ListOf(id)' = ListOf(id)
  <2>1. \A b \in Items : \/ mem'[b] = mem[b]
                         \/ {mem[b].kind, mem'[b].kind} \cap {"head", "id"} = {}
    BY <1>1, <1>3
  <2> QED BY <2>1, IdsUntouched DEF HeapInv
<1>5. KindsOK'
  BY <1>1, <1>2, <1>3 DEF HeapInv, KindsOK
<1>6. FnsOnce'
  <2>1. \A b \in Range(handlers) : b \in Items /\ mem'[b] = mem[b]
    BY <1>1, <1>3, ListShape DEF HeapInv, ListTypes
  <2> QED BY <2>1 DEF HeapInv, FnsOnce
<1>7. ListTypes'
  BY <1>2, <1>3 DEF HeapInv, ListTypes
<1> QED BY <1>4, <1>5, <1>6, <1>7 DEF HeapInv

(* handler_fire_stanza enables all items of the list.                      *)
LEMMA WalkHeap ==
  ASSUME HeapInv, WalkHandlers,
         UNCHANGED <<handlers, timed, id_handlers, inserts, due, leaked>>
  PROVE  /\ HeapInv'
         /\ \A id \in Ids : HeadOf(id)' = HeadOf(id) /\ ListOf(id)' = ListOf(id)
         /\ \A a \in Range(handlers) : mem'[a].enabled /\ mem'[a].fn = mem[a].fn
<1>1. Range(handlers) \subseteq Items /\ mem \in [Items -> ItemType] /\ <<>> \in Seq(Items)
  BY ListShape DEF HeapInv, ListTypes
<1>2. \A a \in Range(handlers) : mem'[a] = Enabled(mem[a]) /\ mem[a] \in ItemType
  BY <1>1 DEF WalkHandlers
<1>3. \A a \in Items : a \notin Range(handlers) => mem'[a] = mem[a]
  BY <1>1 DEF WalkHandlers
<1>4. \A a \in Range(handlers) :
        /\ mem'[a] \in ItemType /\ mem'[a].kind = mem[a].kind /\ mem'[a].fn = mem[a].fn
        /\ mem'[a].enabled = TRUE
  BY <1>1, <1>2, EnabledFields
<1>5. mem' \in [Items -> ItemType]
  <2>1. DOMAIN mem' = Items /\ mem' = [a \in Items |-> mem'[a]]
    BY DEF WalkHandlers
  <2>2. \A a \in Items : mem'[a] \in ItemType
    BY <1>1, <1>3, <1>4
  <2> QED BY <2>1, <2>2
<1>6. \A a \in Range(handlers) : mem[a].kind = "plain"
  BY <1>1 DEF HeapInv, KindsOK
<1>7. /\ IdsOK'
      /\ \A id \in Ids : HeadOf(id)' = HeadOf(id) /\ ListOf(id)' = ListOf(id)
  <2>1. \A b \in Items : \/ mem'[b] = mem[b]
                         \/ {mem[b].kind, mem'[b].kind} \cap {"head", "id"} = {}
    BY <1>3, <1>4, <1>6
  <2> QED BY <2>1, IdsUntouched DEF HeapInv
<1>8. KindsOK'
  BY <1>3, <1>4, <1>6 DEF HeapInv, KindsOK
<1>9. FnsOnce'
  BY <1>4 DEF HeapInv, FnsOnce
<1>10. ListTypes'
  BY <1>5 DEF HeapInv, ListTypes
<1> QED BY <1>4, <1>7, <1>8, <1>9, <1>10 DEF HeapInv

(* What changes the list of id alone leaves all others as they are.        *)
LEMMA OtherIds ==
  ASSUME ListTypes, IdsOK, inserts' = inserts, NEW id \in Ids,
         \A jd \in Ids : jd # id => HeadOf(jd)' = HeadOf(jd),
         \A b \in Items : b # HeadOf(id) /\ mem[b].kind = "head" => mem'[b] = mem[b],
         \A b \in Items : b \notin Range(ListOf(id)) /\ mem[b].kind = "id" => mem'[b] = mem[b],
         \A b \in leaked' : b \in leaked \/ mem[b].kind = "unused"
  PROVE  \A jd \in Ids : jd # id => /\ IdListOK(jd)' /\ ListOf(jd)' = ListOf(jd)
<1> SUFFICES ASSUME NEW jd \in Ids, jd # id
             PROVE  IdListOK(jd)' /\ ListOf(jd)' = ListOf(jd)
  OBVIOUS
<1>1. CASE HeadOf(jd) = NULL
  BY <1>1 DEF IdListOK, ListOf
<1>2. CASE HeadOf(jd) # NULL
  <2>1. /\ HeadOf(jd) \in Items /\ Range(ListOf(jd)) \subseteq Items
        /\ mem[HeadOf(jd)].kind = "head" /\ HeadOf(jd) \notin leaked
        /\ ListOf(jd) # <<>> /\ IsInjective(ListOf(jd))
        /\ \A b \in Range(ListOf(jd)) : mem[b].kind = "id" /\ b \notin leaked
    BY <1>2, ListOfType DEF IdsOK, IdListOK
  <2>2. HeadOf(jd) # HeadOf(id) /\ Range(ListOf(jd)) \cap Range(ListOf(id)) = {}
    BY <1>2 DEF IdsOK, IdsApart
  <2>3. mem'[HeadOf(jd)] = mem[HeadOf(jd)] /\ HeadOf(jd) \notin leaked'
    BY <2>1, <2>2
  <2>4. \A b \in Range(ListOf(jd)) : mem'[b] = mem[b] /\ b \notin leaked'
    BY <2>1, <2>2
  <2>5. ListOf(jd)' = ListOf(jd)
    BY <1>2, <2>3 DEF ListOf
  <2> QED BY <2>1, <2>3, <2>4, <2>5 DEF IdListOK
<1> QED BY <1>1, <1>2

(* handler_add_id, where the id has a list.                                *)
LEMMA AppendIdHeap ==
  ASSUME HeapInv, NEW f \in IdFns, NEW id \in Ids, NEW a \in Free, HeadOf(id) # NULL,
         mem' = [mem EXCEPT ![a] = NewItem("id", f),
                            ![HeadOf(id)] = WithList(@, Append(@.list, a))],
         UNCHANGED <<handlers, timed, id_handlers, inserts, due, leaked>>
  PROVE  /\ HeapInv'
         /\ \A jd \in Ids : /\ HeadOf(jd)' = HeadOf(jd)
                            /\ Range(ListOf(jd)) \subseteq Range(ListOf(jd)')
<1> DEFINE h == HeadOf(id)
           list == ListOf(id)
<1>1. /\ a \in Items /\ mem[a].kind = "unused" /\ a \notin Range(handlers)
      /\ a \notin Range(timed) /\ a \notin leaked
      /\ \A jd \in Ids : HeadOf(jd) # a /\ a \notin Range(ListOf(jd))
  BY FreeItem
<1>2. /\ h \in Items /\ mem[h].kind = "head" /\ h \notin leaked /\ h # a
      /\ list = mem[h].list /\ list \in Seq(Items) /\ Range(list) \subseteq Items
      /\ list # <<>> /\ IsInjective(list)
      /\ \A b \in Range(list) : mem[b].kind = "id" /\ b \notin leaked
  BY <1>1, ListOfType DEF HeapInv, IdsOK, IdListOK, ListOf
<1>3. NewItem("id", f) \in ItemType /\ NewItem("id", f).kind = "id"
  BY NewItemFields DEF AllFns
<1>4. /\ Append(list, a) \in Seq(Items) /\ IsInjective(Append(list, a))
      /\ Range(Append(list, a)) = Range(list) \cup {a}
      /\ Append(list, a) # <<>>
  <2>1. /\ Append(list, a) \in Seq(Items) /\ IsInjective(Append(list, a))
        /\ Range(Append(list, a)) = Range(list) \cup {a}
    BY <1>1, <1>2, AppendRight
  <2> QED BY <2>1, ListShape
<1>5. /\ mem \in [Items -> ItemType] /\ mem' \in [Items -> ItemType]
      /\ mem'[a].kind = "id"
      /\ mem'[h].kind = "head" /\ mem'[h].list = Append(list, a)
      /\ \A b \in Items : b \notin {a, h} => mem'[b] = mem[b]
  <2> DEFINE w == WithList(mem[h], Append(mem[h].list, a))
  <2>1. mem \in [Items -> ItemType] /\ mem[h] \in ItemType
    BY <1>2 DEF HeapInv, ListTypes
  <2>2. w \in ItemType /\ w.kind = "head" /\ w.list = Append(list, a)
    <3>1. Append(mem[h].list, a) = Append(list, a) /\ Append(list, a) \in Seq(Items)
      BY <1>2, <1>4
    <3> HIDE DEF h, list
    <3> QED BY <3>1, <2>1, <1>2, WithListFields
  <2>3. mem' = [mem EXCEPT ![a] = NewItem("id", f), ![h] = w]
    BY <1>2, <1>1, <2>1
  <2> HIDE DEF w, h, list
  <2> QED BY <2>1, <2>2, <2>3, <1>1, <1>2, <1>3
<1>6. \A jd \in Ids : HeadOf(jd)' = HeadOf(jd)
  BY HeadNext DEF HeadOf
<1>7. \A jd \in Ids : jd # id => /\ IdListOK(jd)' /\ ListOf(jd)' = ListOf(jd)
  <2>1. /\ \A b \in Items : b # h /\ mem[b].kind = "head" => mem'[b] = mem[b]
        /\ \A b \in Items : b \notin Range(list) /\ mem[b].kind = "id" => mem'[b] = mem[b]
        /\ \A b \in leaked' : b \in leaked \/ mem[b].kind = "unused"
    BY <1>1, <1>2, <1>5
  <2> QED BY <2>1, <1>6, OtherIds DEF HeapInv
<1>8. ListOf(id)' = Append(list, a)
  BY <1>5, <1>6 DEF ListOf
<1>9. IdListOK(id)'
  BY <1>1, <1>2, <1>4, <1>5, <1>6, <1>8 DEF IdListOK
<1>10. IdsApart'
  <2>1. \A jd \in Ids : \A b \in Range(ListOf(jd)') :
          b \in Range(ListOf(jd)) \/ (jd = id /\ b = a)
    BY <1>4, <1>7, <1>8
  <2>2. ASSUME NEW jd \in Ids, NEW kd \in Ids, Range(ListOf(jd)') \cap Range(ListOf(kd)') # {}
        PROVE  jd = kd
    <3>1. PICK b : b \in Range(ListOf(jd)') /\ b \in Range(ListOf(kd)')
      BY <2>2
    <3>2. CASE b = a
      BY <3>1, <3>2, <2>1, <1>1
    <3>3. CASE b # a
      <4>1. b \in Range(ListOf(jd)) /\ b \in Range(ListOf(kd))
        BY <3>1, <3>3, <2>1
      <4> QED BY <4>1 DEF HeapInv, IdsOK, IdsApart
    <3> QED BY <3>2, <3>3
  <2>3. \A jd, kd \in Ids : HeadOf(jd)' = HeadOf(kd)' /\ HeadOf(jd)' # NULL => jd = kd
    BY <1>6 DEF HeapInv, IdsOK, IdsApart
  <2> QED BY <2>2, <2>3 DEF IdsApart
<1>11. \A jd \in Ids : Range(ListOf(jd)) \subseteq Range(ListOf(jd)')
  BY <1>4, <1>7, <1>8
<1>12. IdsOwned'
  <2>1. \A b \in Items : b \notin {a} => mem'[b].kind = mem[b].kind
    BY <1>2, <1>5
  <2>2. a \in Range(ListOf(id)')
    BY <1>4, <1>8
  <2>3. /\ \A b \in Items : mem'[b].kind = "head" =>
                              b \in leaked' \/ \E jd \in Ids : HeadOf(jd)' = b
        /\ \A b \in Items : mem'[b].kind = "id" =>
                              b \in leaked' \/ \E jd \in Ids : b \in Range(ListOf(jd)')
    BY <2>1, <2>2, <1>5, <1>6, <1>11 DEF HeapInv, IdsOK, IdsOwned
  <2>4. leaked' \subseteq {b \in Items : mem'[b].kind \in {"head", "id"}}
    BY <2>1, <1>1 DEF HeapInv, IdsOK, IdsOwned
  <2>5. (inserts' => leaked' = {}) /\ (~inserts' => \A jd \in Ids : HeadOf(jd)' = NULL)
    BY <1>6 DEF HeapInv, IdsOK, IdsOwned
  <2> QED BY <2>3, <2>4, <2>5, <1>6 DEF IdsOwned
<1>13. IdsOK'
  BY <1>7, <1>9, <1>10, <1>12 DEF IdsOK
<1>14. KindsOK'
  <2>1. \A b \in Items : mem'[b] = mem[b]
                         \/ ({mem[b].kind, mem'[b].kind} \cap {"plain", "timed"} = {}
                             /\ mem'[b].kind # "unused")
    BY <1>1, <1>2, <1>5
  <2> QED BY <2>1, <1>1 DEF HeapInv, KindsOK
<1>15. FnsOnce'
  <2>1. \A b \in Range(handlers) : b \in Items /\ mem[b].kind = "plain"
    BY ListShape DEF HeapInv, ListTypes, KindsOK
  <2> QED BY <2>1, <1>1, <1>2, <1>5 DEF HeapInv, FnsOnce
<1>16. ListTypes'
  BY <1>5 DEF HeapInv, ListTypes
<1> QED BY <1>6, <1>11, <1>13, <1>14, <1>15, <1>16 DEF HeapInv

(* handler_add_id, where the id has no list: the table takes the new one,  *)
(* or it is lost.                                                          *)
LEMMA NewIdHeap ==
  ASSUME HeapInv, NEW f \in IdFns, NEW id \in Ids, NEW a \in Free, NEW h \in Free \ {a},
         HeadOf(id) = NULL,
         mem' = [mem EXCEPT ![a] = NewItem("id", f),
                            ![h] = WithList(NewItem("head", NULL), <<a>>)],
         id_handlers' = Table!hash_add(id_handlers, id, h),
         leaked' = IF Table!Refuses(id_handlers, id) THEN leaked \cup {a, h} ELSE leaked,
         UNCHANGED <<handlers, timed, inserts, due>>
  PROVE  /\ HeapInv'
         /\ \A jd \in Ids : /\ HeadOf(jd) # NULL => HeadOf(jd)' = HeadOf(jd)
                            /\ Range(ListOf(jd)) \subseteq Range(ListOf(jd)')
<1>1. /\ \A b \in {a, h} : /\ b \in Items /\ mem[b].kind = "unused" /\ b \notin leaked
                           /\ b \notin Range(handlers) /\ b \notin Range(timed)
                           /\ \A jd \in Ids : HeadOf(jd) # b /\ b \notin Range(ListOf(jd))
      /\ h # a /\ h # NULL
  BY FreeItem, TableConstants
<1>2. /\ IdTable(id_handlers')
      /\ Table!Refuses(id_handlers, id) <=> ~inserts
      /\ \A jd \in Ids : HeadOf(jd)' = IF jd = id /\ inserts THEN h ELSE HeadOf(jd)
  <2>1. /\ IdTable(id_handlers) /\ inserts \in BOOLEAN
        /\ Table!hash_get(id_handlers, id) = NULL
    BY DEF HeapInv, ListTypes, HeadOf
  <2>2. /\ IdTable(id_handlers')
        /\ Table!Refuses(id_handlers, id) <=> ~inserts
        /\ \A jd \in Ids : Table!hash_get(id_handlers', jd) =
                             IF jd = id /\ inserts THEN h ELSE Table!hash_get(id_handlers, jd)
    BY <2>1, <1>1, AddRight
  <2> QED BY <2>2, HeadNext DEF HeadOf
<1>3. /\ mem \in [Items -> ItemType] /\ mem' \in [Items -> ItemType]
      /\ mem'[a].kind = "id"
      /\ mem'[h].kind = "head" /\ mem'[h].list = <<a>>
      /\ \A b \in Items : b \notin {a, h} => mem'[b] = mem[b]
  <2> DEFINE w == WithList(NewItem("head", NULL), <<a>>)
             v == NewItem("id", f)
  <2>1. v \in ItemType /\ v.kind = "id"
    BY NewItemFields DEF AllFns
  <2>2. NewItem("head", NULL) \in ItemType /\ NewItem("head", NULL).kind = "head"
    BY NewItemFields
  <2>3. <<a>> \in Seq(Items)
    BY <1>1
  <2>4. w \in ItemType /\ w.kind = "head" /\ w.list = <<a>>
    BY <2>2, <2>3, WithListFields
  <2>5. mem \in [Items -> ItemType]
    BY DEF HeapInv, ListTypes
  <2> HIDE DEF w, v
  <2>6. mem' = [mem EXCEPT ![a] = v, ![h] = w]
    BY DEF w, v
  <2> QED BY <2>1, <2>4, <2>5, <2>6, <1>1
<1>4. \A b \in leaked' : b \in leaked \/ mem[b].kind = "unused"
  BY <1>1
<1>5. \A jd \in Ids : jd # id => IdListOK(jd)' /\ ListOf(jd)' = ListOf(jd)
  <2>1. /\ \A b \in Items : b # HeadOf(id) /\ mem[b].kind = "head" => mem'[b] = mem[b]
        /\ \A b \in Items :
             b \notin Range(ListOf(id)) /\ mem[b].kind = "id" => mem'[b] = mem[b]
    BY <1>1, <1>3
  <2>2. \A jd \in Ids : jd # id => HeadOf(jd)' = HeadOf(jd)
    BY <1>2
  <2> QED BY <2>1, <2>2, <1>4, OtherIds DEF HeapInv
<1>6. ListOf(id) = <<>> /\ Range(ListOf(id)) = {}
  BY ListOfType DEF HeapInv
<1>7. \A jd \in Ids : Range(ListOf(jd)) \subseteq Range(ListOf(jd)')
  BY <1>5, <1>6
<1>8. /\ inserts => ListOf(id)' = <<a>>
      /\ ~inserts => ListOf(id)' = <<>>
  BY <1>1, <1>2, <1>3 DEF ListOf
<1>9. /\ <<a>> # <<>> /\ IsInjective(<<a>>) /\ Range(<<a>>) = {a} /\ Range(<<>>) = {}
  BY DEF IsInjective, Range
<1>10. IdListOK(id)'
  <2>1. CASE inserts
    <3>1. leaked' = leaked
      BY <2>1, <1>2
    <3> QED BY <2>1, <3>1, <1>1, <1>2, <1>3, <1>8, <1>9 DEF IdListOK
  <2>2. CASE ~inserts
    BY <2>2, <1>2 DEF IdListOK
  <2> QED BY <2>1, <2>2
<1>11. IdsApart'
  <2>1. \A jd \in Ids : \A b \in Range(ListOf(jd)') :
          b \in Range(ListOf(jd)) \/ (jd = id /\ b = a)
    BY <1>5, <1>8, <1>9 DEF HeapInv, ListTypes
  <2>2. ASSUME NEW jd \in Ids, NEW kd \in Ids, Range(ListOf(jd)') \cap Range(ListOf(kd)') # {}
        PROVE  jd = kd
    <3>1. PICK b : b \in Range(ListOf(jd)') /\ b \in Range(ListOf(kd)')
      BY <2>2
    <3>2. CASE b = a
      BY <3>1, <3>2, <2>1, <1>1
    <3>3. CASE b # a
      <4>1. b \in Range(ListOf(jd)) /\ b \in Range(ListOf(kd))
        BY <3>1, <3>3, <2>1
      <4> QED BY <4>1 DEF HeapInv, IdsOK, IdsApart
    <3> QED BY <3>2, <3>3
  <2>3. \A jd, kd \in Ids : HeadOf(jd)' = HeadOf(kd)' /\ HeadOf(jd)' # NULL => jd = kd
    BY <1>1, <1>2 DEF HeapInv, IdsOK, IdsApart
  <2> QED BY <2>2, <2>3 DEF IdsApart
<1>12. IdsOwned'
  <2>1. \A b \in Items : b \notin {a, h} => mem'[b].kind = mem[b].kind
    BY <1>3
  <2>2. CASE inserts
    <3>1. leaked' = leaked /\ leaked = {} /\ HeadOf(id)' = h /\ a \in Range(ListOf(id)')
      BY <2>2, <1>2, <1>8, <1>9 DEF HeapInv, IdsOK, IdsOwned
    <3>2. /\ \A b \in Items : mem'[b].kind = "head" => \E jd \in Ids : HeadOf(jd)' = b
          /\ \A b \in Items : mem'[b].kind = "id" => \E jd \in Ids : b \in Range(ListOf(jd)')
      <4>1. \A jd \in Ids : HeadOf(jd) # NULL => HeadOf(jd)' = HeadOf(jd)
        BY <1>2
      <4>2. ASSUME NEW b \in Items, mem'[b].kind = "head"
            PROVE  \E jd \in Ids : HeadOf(jd)' = b
        <5>1. CASE b = h
          BY <5>1, <3>1
        <5>2. CASE b # h
          <6>1. mem[b].kind = "head"
            BY <4>2, <5>2, <1>3
          <6> QED BY <6>1, <3>1, <4>1, TableConstants DEF HeapInv, IdsOK, IdsOwned
        <5> QED BY <5>1, <5>2
      <4>3. ASSUME NEW b \in Items, mem'[b].kind = "id"
            PROVE  \E jd \in Ids : b \in Range(ListOf(jd)')
        <5>1. CASE b = a
          BY <5>1, <3>1
        <5>2. CASE b # a
          <6>1. mem[b].kind = "id"
            BY <4>3, <5>2, <1>3
          <6> QED BY <6>1, <3>1, <1>7 DEF HeapInv, IdsOK, IdsOwned
        <5> QED BY <5>1, <5>2
      <4> QED BY <4>2, <4>3
    <3> QED BY <2>2, <3>1, <3>2 DEF IdsOwned
  <2>3. CASE ~inserts
    <3>1. leaked' = leaked \cup {a, h}
      BY <2>3, <1>2
    <3>2. \A jd \in Ids : HeadOf(jd) = NULL /\ HeadOf(jd)' = NULL
      BY <2>3, <1>2 DEF HeapInv, IdsOK, IdsOwned
    <3>3. \A jd \in Ids : Range(ListOf(jd)) = {}
      BY <3>2, ListOfType DEF HeapInv
    <3>4. \A b \in Items : mem[b].kind \in {"head", "id"} => b \in leaked
      BY <3>2, <3>3, TableConstants DEF HeapInv, IdsOK, IdsOwned
    <3>5. leaked \subseteq {b \in Items : mem[b].kind \in {"head", "id"}}
      BY DEF HeapInv, IdsOK, IdsOwned
    <3>6. \A b \in Items : b \in leaked' <=> mem'[b].kind \in {"head", "id"}
      BY <3>1, <3>4, <3>5, <2>1, <1>1, <1>3
    <3>7. leaked' \subseteq Items
      BY <3>1, <3>5, <1>1
    <3> QED BY <2>3, <3>2, <3>6, <3>7 DEF IdsOwned
  <2> QED BY <2>2, <2>3
<1>13. IdsOK'
  BY <1>5, <1>10, <1>11, <1>12 DEF IdsOK
<1>14. KindsOK'
  <2>1. \A b \in Items : mem'[b] = mem[b]
                         \/ ({mem[b].kind, mem'[b].kind} \cap {"plain", "timed"} = {}
                             /\ mem'[b].kind # "unused")
    BY <1>1, <1>3
  <2> QED BY <2>1, <1>1 DEF HeapInv, KindsOK
<1>15. FnsOnce'
  <2>1. \A b \in Range(handlers) : b \in Items /\ mem[b].kind = "plain"
    BY ListShape DEF HeapInv, ListTypes, KindsOK
  <2> QED BY <2>1, <1>1, <1>3 DEF HeapInv, FnsOnce
<1>16. ListTypes'
  BY <1>2, <1>3 DEF HeapInv, ListTypes
<1>17. \A jd \in Ids : HeadOf(jd) # NULL => HeadOf(jd)' = HeadOf(jd)
  BY <1>2
<1> QED BY <1>7, <1>13, <1>14, <1>15, <1>16, <1>17 DEF HeapInv

(* _handler_id_free: the list of the id loses the item, and goes with its  *)
(* last one.                                                               *)
LEMMA FreeIdHeap ==
  ASSUME HeapInv, NEW id \in Ids, NEW a \in Range(ListOf(id)), FreeId(a, id),
         UNCHANGED <<handlers, timed, inserts, due, leaked>>
  PROVE  /\ HeapInv'
         /\ \A jd \in Ids : jd # id => HeadOf(jd)' = HeadOf(jd) /\ ListOf(jd)' = ListOf(jd)
         /\ Range(ListOf(id)') = Range(ListOf(id)) \ {a}
         /\ HeadOf(id)' = IF Without(mem[HeadOf(id)].list, a) = <<>> THEN NULL ELSE HeadOf(id)
         /\ Without(mem[HeadOf(id)].list, a) = <<>> => Range(ListOf(id)) = {a}
<1> DEFINE h == HeadOf(id)
           list == ListOf(id)
           left == Without(mem[HeadOf(id)].list, a)
           gone == left = <<>>
<1>1. HeadOf(id) # NULL
  BY ListOfType DEF HeapInv
<1>2. /\ h \in Items /\ mem[h].kind = "head" /\ h \notin leaked
      /\ list = mem[h].list /\ list \in Seq(Items) /\ Range(list) \subseteq Items
      /\ list # <<>> /\ IsInjective(list)
      /\ \A b \in Range(list) : mem[b].kind = "id" /\ b \notin leaked
      /\ a \in Items /\ mem[a].kind = "id" /\ a # h /\ a \notin leaked
  BY <1>1, ListOfType DEF HeapInv, IdsOK, IdListOK, ListOf
<1>3. /\ left \in Seq(Items) /\ IsInjective(left) /\ Range(left) = Range(list) \ {a}
      /\ gone <=> Range(list) = {a}
  <2>1. left = Without(list, a)
    BY <1>2
  <2>2. /\ Without(list, a) \in Seq(Items) /\ IsInjective(Without(list, a))
        /\ Range(Without(list, a)) = Range(list) \ {a}
    BY <1>2, WithoutRight
  <2>3. left = <<>> <=> Range(left) = {}
    BY <2>1, <2>2, ListShape
  <2> QED BY <2>1, <2>2, <2>3
<1>4. /\ mem \in [Items -> ItemType] /\ mem' \in [Items -> ItemType]
      /\ mem'[a] = Unused /\ mem'[a].kind = "unused"
      /\ IF gone THEN mem'[h] = Unused /\ mem'[h].kind = "unused"
         ELSE mem'[h].kind = "head" /\ mem'[h].list = left
      /\ \A b \in Items : b \notin {a, h} => mem'[b] = mem[b]
  <2> DEFINE w == WithList(mem[h], left)
             v == IF gone THEN Unused ELSE w
  <2>1. mem \in [Items -> ItemType] /\ mem[h] \in ItemType
    BY <1>2 DEF HeapInv, ListTypes
  <2>2. w \in ItemType /\ w.kind = "head" /\ w.list = left
    <3> HIDE DEF h, list, left
    <3> QED BY <2>1, <1>2, <1>3, WithListFields
  <2>3. mem' = [mem EXCEPT ![a] = Unused, ![h] = v]
    <3>1. mem' = [mem EXCEPT ![a] = Unused,
                             ![h] = IF left = <<>> THEN Unused ELSE WithList(@, left)]
      BY DEF FreeId
    <3> QED BY <3>1, <1>2, <2>1
  <2> HIDE DEF w, h, list, left, gone
  <2> QED BY <2>1, <2>2, <2>3, <1>2, UnusedFields
<1>5. /\ IdTable(id_handlers')
      /\ \A jd \in Ids : HeadOf(jd)' = IF jd = id /\ gone THEN NULL ELSE HeadOf(jd)
  <2>1. id_handlers' = IF gone THEN Table!hash_drop(id_handlers, id) ELSE id_handlers
    BY DEF FreeId
  <2>2. IdTable(id_handlers)
    BY DEF HeapInv, ListTypes
  <2> HIDE DEF gone
  <2>3. /\ IdTable(id_handlers')
        /\ \A jd \in Ids : Table!hash_get(id_handlers', jd) =
             IF jd = id /\ gone THEN NULL ELSE Table!hash_get(id_handlers, jd)
    BY <2>1, <2>2, DropRight
  <2> QED BY <2>3, HeadNext DEF HeadOf
<1> HIDE DEF left
<1>6. \A jd \in Ids : jd # id => IdListOK(jd)' /\ ListOf(jd)' = ListOf(jd)
  <2>1. /\ \A b \in Items : b # h /\ mem[b].kind = "head" => mem'[b] = mem[b]
        /\ \A b \in Items : b \notin Range(list) /\ mem[b].kind = "id" => mem'[b] = mem[b]
        /\ \A b \in leaked' : b \in leaked \/ mem[b].kind = "unused"
    BY <1>2, <1>4
  <2>2. \A jd \in Ids : jd # id => HeadOf(jd)' = HeadOf(jd)
    BY <1>5
  <2> QED BY <2>1, <2>2, OtherIds DEF HeapInv
<1>7. ListOf(id)' = left
  BY <1>1, <1>4, <1>5 DEF ListOf
<1>8. IdListOK(id)'
  <2>1. CASE gone
    BY <2>1, <1>5 DEF IdListOK
  <2>2. CASE ~gone
    BY <2>2, <1>2, <1>3, <1>4, <1>5, <1>7 DEF IdListOK
  <2> QED BY <2>1, <2>2
<1>9. \A jd \in Ids : \A b : b \in Range(ListOf(jd)') <=> b \in Range(ListOf(jd)) /\ b # a
  <2>1. \A jd \in Ids : jd # id => a \notin Range(ListOf(jd))
    BY DEF HeapInv, IdsOK, IdsApart
  <2> QED BY <2>1, <1>3, <1>6, <1>7
<1>10. IdsApart'
  <2>1. ASSUME NEW jd \in Ids, NEW kd \in Ids, Range(ListOf(jd)') \cap Range(ListOf(kd)') # {}
        PROVE  jd = kd
    <3>1. PICK b : b \in Range(ListOf(jd)') /\ b \in Range(ListOf(kd)')
      BY <2>1
    <3>2. b \in Range(ListOf(jd)) /\ b \in Range(ListOf(kd))
      BY <3>1, <1>9
    <3> QED BY <3>2 DEF HeapInv, IdsOK, IdsApart
  <2>2. \A jd, kd \in Ids : HeadOf(jd)' = HeadOf(kd)' /\ HeadOf(jd)' # NULL => jd = kd
    BY <1>5 DEF HeapInv, IdsOK, IdsApart
  <2> QED BY <2>1, <2>2 DEF IdsApart
<1>11. IdsOwned'
  <2>1. ASSUME NEW b \in Items, mem'[b].kind = "head"
        PROVE  b \in leaked' \/ \E jd \in Ids : HeadOf(jd)' = b
    <3>1. b # a /\ (gone => b # h) /\ mem[b].kind = "head"
      BY <2>1, <1>2, <1>4
    <3>2. CASE \E jd \in Ids : HeadOf(jd) = b
      <4>1. PICK jd \in Ids : HeadOf(jd) = b
        BY <3>2
      <4>2. HeadOf(jd)' = b
        BY <4>1, <3>1, <1>5
      <4> QED BY <4>2
    <3> QED BY <3>1, <3>2 DEF HeapInv, IdsOK, IdsOwned
  <2>2. ASSUME NEW b \in Items, mem'[b].kind = "id"
        PROVE  b \in leaked' \/ \E jd \in Ids : b \in Range(ListOf(jd)')
    <3>1. b # a /\ mem[b].kind = "id"
      BY <2>2, <1>2, <1>4
    <3> QED BY <3>1, <1>9 DEF HeapInv, IdsOK, IdsOwned
  <2>3. leaked' \subseteq {b \in Items : mem'[b].kind \in {"head", "id"}}
    BY <1>2, <1>4 DEF HeapInv, IdsOK, IdsOwned
  <2>4. (inserts' => leaked' = {}) /\ (~inserts' => \A jd \in Ids : HeadOf(jd)' = NULL)
    BY <1>1 DEF HeapInv, IdsOK, IdsOwned
  <2> QED BY <2>1, <2>2, <2>3, <2>4 DEF IdsOwned
<1>12. IdsOK'
  BY <1>6, <1>8, <1>10, <1>11 DEF IdsOK
<1>13. KindsOK'
  <2>1. \A b \in Items : mem'[b] = mem[b] \/
          (/\ {mem[b].kind, mem'[b].kind} \cap {"plain", "timed"} = {}
           /\ mem'[b].kind = "unused" => mem'[b] = Unused)
    BY <1>2, <1>4
  <2> QED BY <2>1, <1>2 DEF HeapInv, KindsOK
<1>14. FnsOnce'
  <2>1. \A b \in Range(handlers) : b \in Items /\ mem[b].kind = "plain"
    BY ListShape DEF HeapInv, ListTypes, KindsOK
  <2> QED BY <2>1, <1>2, <1>4 DEF HeapInv, FnsOnce
<1>15. ListTypes'
  BY <1>4, <1>5 DEF HeapInv, ListTypes
<1>16. Range(ListOf(id)') = Range(ListOf(id)) \ {a}
  BY <1>3, <1>7
<1> QED BY <1>3, <1>5, <1>6, <1>12, <1>13, <1>14, <1>15, <1>16 DEF HeapInv, left

(* handler_clear_all without lists by id: all items are freed.             *)
LEMMA ClearHeap ==
  ASSUME HeapInv, \A id \in Ids : HeadOf(id) = NULL,
         mem' = [a \in Items |->
                   IF a \in Range(handlers) \cup Range(timed) THEN Unused ELSE mem[a]],
         handlers' = <<>>, timed' = <<>>, due' = {},
         UNCHANGED <<id_handlers, inserts, leaked>>
  PROVE  HeapInv'
<1>1. /\ <<>> \in Seq(Items) /\ IsInjective(<<>>) /\ Range(<<>>) = {}
  BY DEF IsInjective, Range
<1>2. \A a \in Items : /\ mem[a].kind \in {"plain", "timed"} => mem'[a] = Unused
                       /\ mem[a].kind \notin {"plain", "timed"} => mem'[a] = mem[a]
  BY DEF HeapInv, KindsOK
<1>3. mem' \in [Items -> ItemType]
  BY UnusedFields DEF HeapInv, ListTypes
<1>4. IdsOK'
  <2>1. \A b \in Items : \/ mem'[b] = mem[b]
                         \/ {mem[b].kind, mem'[b].kind} \cap {"head", "id"} = {}
    BY <1>2, UnusedFields
  <2> QED BY <2>1, IdsUntouched DEF HeapInv
<1>5. KindsOK'
  BY <1>1, <1>2, UnusedFields DEF HeapInv, KindsOK
<1>6. FnsOnce'
  BY <1>1 DEF FnsOnce
<1>7. ListTypes'
  BY <1>1, <1>3 DEF HeapInv, ListTypes
<1> QED BY <1>4, <1>5, <1>6, <1>7 DEF HeapInv

(* A step that changes only which timers are due.                          *)
LEMMA SameHeap ==
  ASSUME HeapInv, UNCHANGED <<mem, handlers, timed, id_handlers, inserts, leaked>>,
         due' \subseteq Range(timed)
  PROVE  /\ HeapInv'
         /\ \A id \in Ids : HeadOf(id)' = HeadOf(id) /\ ListOf(id)' = ListOf(id)
<1>1. /\ IdsOK'
      /\ \A id \in Ids : HeadOf(id)' = HeadOf(id) /\ ListOf(id)' = ListOf(id)
  BY IdsUntouched DEF HeapInv
<1>2. ListTypes' /\ KindsOK' /\ FnsOnce'
  BY DEF HeapInv, ListTypes, KindsOK, FnsOnce
<1> QED BY <1>1, <1>2 DEF HeapInv

(* Every step keeps the heap.                                              *)
LEMMA HeapStep == HeapInv /\ WalkInv /\ [Next]_vars => HeapInv'
<1> SUFFICES ASSUME HeapInv, WalkInv, [Next]_vars PROVE HeapInv'
  OBVIOUS
<1>s. ASSUME UNCHANGED <<mem, handlers, timed, id_handlers, inserts, leaked>>,
             due' \subseteq due \cup Range(timed)
      PROVE  HeapInv'
  BY <1>s, SameHeap DEF HeapInv, ListTypes
<1>1. ASSUME NEW f \in Fns, handler_add(f) PROVE HeapInv'
  BY <1>1, AddPlainHeap DEF handler_add
<1>2. ASSUME NEW f \in Fns, xmpp_handler_delete(f) PROVE HeapInv'
  <2>1. PICK a \in ItemsOf(handlers, f) : FreePlain(a)
    BY <1>2 DEF xmpp_handler_delete
  <2> QED BY <1>2, <2>1, FreePlainHeap DEF xmpp_handler_delete, ItemsOf
<1>3. ASSUME NEW f \in IdFns, NEW id \in Ids, handler_add_id(f, id) PROVE HeapInv'
  <2>1. CASE HeadOf(id) # NULL
    BY <1>3, <2>1, AppendIdHeap DEF handler_add_id
  <2>2. CASE HeadOf(id) = NULL
    BY <1>3, <2>2, NewIdHeap DEF handler_add_id
  <2> QED BY <2>1, <2>2
<1>4. ASSUME NEW f \in IdFns, NEW id \in Ids, xmpp_id_handler_delete(f, id) PROVE HeapInv'
  <2>1. PICK a \in ItemsOf(ListOf(id), f) : FreeId(a, id)
    BY <1>4 DEF xmpp_id_handler_delete
  <2> QED BY <1>4, <2>1, FreeIdHeap DEF xmpp_id_handler_delete, ItemsOf
<1>5. ASSUME NEW f \in TimedFns, handler_add_timed(f) PROVE HeapInv'
  BY <1>5, AddTimedHeap DEF handler_add_timed
<1>6. ASSUME NEW f \in TimedFns, xmpp_timed_handler_delete(f) PROVE HeapInv'
  BY <1>6, FreeTimedHeap DEF xmpp_timed_handler_delete, ItemsOf
<1>7. ASSUME NEW user_only \in BOOLEAN, handler_reset_timed(user_only) PROVE HeapInv'
  BY <1>7, <1>s DEF handler_reset_timed
<1>8. CASE LogIn \/ xmpp_conn_clone \/ xmpp_run \/ xmpp_stop \/ LoopReturns
  BY <1>8, <1>s DEF LogIn, xmpp_conn_clone, xmpp_run, xmpp_stop, LoopReturns, lists
<1>9. CASE xmpp_conn_release
  <2>1. CASE UNCHANGED lists
    BY <1>9, <2>1, <1>s DEF xmpp_conn_release, lists
  <2>2. CASE ~UNCHANGED lists
    BY <1>9, <2>2, ClearHeap DEF xmpp_conn_release, lists
  <2> QED BY <2>1, <2>2
<1>10. ASSUME NEW a \in Items, TimerExpires(a) \/ TimerProxy(a) PROVE HeapInv'
  BY <1>10, <1>s DEF TimerExpires, TimerProxy
<1>11. ASSUME NEW id, FireStanza(id) PROVE HeapInv'
  <2>1. CASE WalkHandlers
    BY <1>11, <2>1, WalkHeap DEF FireStanza
  <2>2. CASE ~WalkHandlers
    BY <1>11, <2>2, <1>s DEF FireStanza
  <2> QED BY <2>1, <2>2
<1>12. CASE SkipItem \/ CallItem \/ ReturnsAgain \/ Advance
  BY <1>12, <1>s DEF SkipItem, CallItem, ReturnsAgain, Advance, lists
<1>13. CASE EndsHandler
  <2>1. CASE walk.pos \in Range(handlers)
    BY <1>13, <2>1, FreePlainHeap DEF EndsHandler
  <2>2. CASE walk.pos \notin Range(handlers)
    BY <1>13, <2>2, <1>s DEF EndsHandler
  <2> QED BY <2>1, <2>2
<1>14. CASE EndsIdHandler
  <2>1. CASE UNCHANGED <<mem, id_handlers>>
    BY <1>14, <2>1, <1>s DEF EndsIdHandler
  <2>2. CASE ~UNCHANGED <<mem, id_handlers>>
    <3>1. PICK a \in ItemsOf(ListOf(walk.id), mem[walk.pos].fn) : FreeId(a, walk.id)
      BY <1>14, <2>2 DEF EndsIdHandler
    <3>2. walk.id \in Ids
      BY <1>14 DEF EndsIdHandler, WalkInv, WalkTypes, WalkType
    <3> QED BY <1>14, <3>1, <3>2, FreeIdHeap DEF EndsIdHandler, ItemsOf
  <2> QED BY <2>1, <2>2
<1>15. CASE AdvanceId
  <2>1. CASE WalkHandlers
    BY <1>15, <2>1, WalkHeap DEF AdvanceId
  <2>2. CASE ~WalkHandlers
    BY <1>15, <2>2, <1>s DEF AdvanceId
  <2> QED BY <2>1, <2>2
<1>16. CASE UNCHANGED vars
  BY <1>16, <1>s DEF vars
<1> QED BY <1>1, <1>2, <1>3, <1>4, <1>5, <1>6, <1>7, <1>8, <1>9, <1>10, <1>11, <1>12, <1>13,
           <1>14, <1>15, <1>16 DEF Next

-----------------------------------------------------------------------------
(* The walk.                                                               *)

(* Its fields.                                                             *)
LEMMA PlaceFields ==
  ASSUME walk \in WalkType, NEW p \in {"none", "item", "call", "after"}
  PROVE  /\ Place(p) \in WalkType /\ Place(p).at = p
         /\ Place(p).on = walk.on /\ Place(p).id = walk.id /\ Place(p).head = walk.head
         /\ Place(p).pos = walk.pos /\ Place(p).tmp = walk.tmp
BY DEF Place, WalkType

(* No stanza is being handled.                                             *)
LEMMA NoWalkFields == NoWalk \in WalkType /\ NoWalk.on = FALSE /\ NoWalk.at = "none"
BY DEF NoWalk, WalkType

(* The next item is one of the list, or there is none.                     *)
LEMMA AfterType ==
  ASSUME NEW s \in Seq(Items), NEW a \in Range(s)
  PROVE  After(s, a) \in Range(s) \cup {NULL}
<1> DEFINE p == CHOOSE j \in DOMAIN s : s[j] = a
<1>1. p \in DOMAIN s
  BY ListShape
<1>2. After(s, a) = IF p = Len(s) THEN NULL ELSE s[p + 1]
  BY DEF After
<1> HIDE DEF p
<1> QED BY <1>1, <1>2, ListShape

(* The cursors come to the item a of a list.                               *)
LEMMA WalkTo ==
  ASSUME NEW s \in Seq(Items), NEW id \in Ids \cup {NULL}, NEW head \in Items \cup {NULL},
         NEW a \in Range(s), walk' = WalkAt(s, id, head, a)
  PROVE  /\ WalkTypes' /\ walk'.on /\ walk'.at = "item"
         /\ walk'.id = id /\ walk'.head = head /\ walk'.pos = a
         /\ walk'.tmp = After(s, a) /\ walk'.tmp \in Range(s) \cup {NULL}
<1>1. a \in Items /\ a # NULL
  BY ListShape, TableConstants
<1>2. After(s, a) \in Range(s) \cup {NULL} /\ Range(s) \subseteq Items
  BY AfterType, ListShape
<1> QED BY <1>1, <1>2 DEF WalkAt, WalkType, WalkTypes

(* The walk of the list of handlers comes to an item of it.                *)
LEMMA WalkToHandler ==
  ASSUME HeapInv, NEW a \in Range(handlers), walk' = WalkAt(handlers, NULL, NULL, a),
         handlers' = handlers
  PROVE  WalkTypes' /\ PlainWalk' /\ IdWalk'
<1>1. handlers \in Seq(Items) /\ IsInjective(handlers)
  BY DEF HeapInv, ListTypes
<1>2. After(handlers, a) # a
  BY <1>1, AfterRight, TableConstants
<1>3. /\ WalkTypes' /\ walk'.on /\ walk'.at = "item" /\ walk'.id = NULL
      /\ walk'.pos = a /\ walk'.tmp = After(handlers, a)
      /\ walk'.tmp \in Range(handlers) \cup {NULL}
  BY <1>1, WalkTo
<1> QED BY <1>2, <1>3 DEF PlainWalk, IdWalk

(* The walk of the list of an id comes to an item of it.                   *)
LEMMA WalkToId ==
  ASSUME HeapInv, NEW id \in Ids, NEW head \in Items, NEW s \in Seq(Items), NEW a \in Range(s),
         walk' = WalkAt(s, id, head, a), UNCHANGED <<mem, id_handlers, inserts>>,
         \/ HeadOf(id) = head /\ s = ListOf(id) /\ "emptied" \notin misuse'
         \/ {"emptied", "self"} \subseteq misuse'
  PROVE  WalkTypes' /\ PlainWalk' /\ IdWalk'
<1>1. /\ WalkTypes' /\ walk'.on /\ walk'.at = "item" /\ walk'.id = id /\ walk'.head = head
      /\ walk'.pos = a /\ walk'.tmp \in Range(s) \cup {NULL}
  BY WalkTo
<1>2. HeadOf(id)' = HeadOf(id) /\ ListOf(id)' = ListOf(id)
  BY HeadNext DEF HeadOf, ListOf
<1>3. id # NULL /\ head # NULL
  BY TableConstants
<1> QED BY <1>1, <1>2, <1>3 DEF PlainWalk, IdWalk

(* What the functions may do to the lists under a walk.                    *)
LEMMA WalkSame ==
  ASSUME WalkTypes, PlainWalk, IdWalk, walk' = walk, misuse \subseteq misuse',
         walk.on => walk.at = "call" \/ UNCHANGED <<handlers, id_handlers, mem, misuse>>,
         walk.on /\ walk.id = NULL =>
           \A a \in Range(handlers) : \/ a \in Range(handlers')
                                      \/ Spoils(a) \subseteq misuse',
         walk.on /\ walk.id # NULL =>
           /\ HeadOf(walk.id)' = HeadOf(walk.id) \/ "emptied" \in misuse'
           /\ "emptied" \in misuse' => "emptied" \in misuse \/ "self" \in misuse'
           /\ \A a \in Range(ListOf(walk.id)) : \/ a \in Range(ListOf(walk.id))'
                                                \/ Spoils(a) \subseteq misuse'
  PROVE  WalkTypes' /\ PlainWalk' /\ IdWalk'
<1>1. WalkTypes'
  BY DEF WalkTypes
<1>2. PlainWalk'
  BY DEF PlainWalk, Spoils
<1>3. IdWalk'
  BY DEF IdWalk, Spoils
<1> QED BY <1>1, <1>2, <1>3

(* The walk of the list of handlers begins.                                *)
LEMMA WalkBegins ==
  ASSUME HeapInv, WalkHandlers, handlers' = handlers
  PROVE  WalkTypes' /\ PlainWalk' /\ IdWalk'
<1>1. CASE handlers = <<>>
  BY <1>1, NoWalkFields DEF WalkHandlers, WalkTypes, PlainWalk, IdWalk
<1>2. CASE handlers # <<>>
  <2>1. handlers[1] \in Range(handlers)
    BY <1>2, BeforeRange DEF HeapInv, ListTypes
  <2>2. walk' = WalkAt(handlers, NULL, NULL, handlers[1])
    BY <1>2 DEF WalkHandlers, WalkOf
  <2> QED BY <2>1, <2>2, WalkToHandler
<1> QED BY <1>1, <1>2

(* _handler_id_free of an item of the list that is walked.                 *)
LEMMA FreeIdWalk ==
  ASSUME HeapInv, WalkTypes, IdWalk, walk.on, walk.at = "call", NEW id \in Ids, walk.id = id,
         NEW a \in Range(ListOf(id)), FreeId(a, id),
         UNCHANGED <<handlers, timed, inserts, due, leaked>>
  PROVE  /\ misuse \cup Spoils(a) \subseteq misuse'
         /\ HeadOf(id)' = HeadOf(id) \/ "emptied" \in misuse'
         /\ "emptied" \in misuse' => "emptied" \in misuse \/ "self" \in misuse'
         /\ Range(ListOf(id)') = Range(ListOf(id)) \ {a}
<1> DEFINE left == Without(mem[HeadOf(id)].list, a)
<1>1. misuse' = misuse \cup Spoils(a) \cup (IF left = <<>> THEN {"emptied"} ELSE {})
  BY DEF FreeId
<1>2. /\ HeadOf(id)' = IF left = <<>> THEN NULL ELSE HeadOf(id)
      /\ left = <<>> => Range(ListOf(id)) = {a}
      /\ Range(ListOf(id)') = Range(ListOf(id)) \ {a}
  BY FreeIdHeap
<1> HIDE DEF left
<1>3. id # NULL
  BY TableConstants
<1>4. "emptied" \in misuse' => "emptied" \in misuse \/ "self" \in misuse'
  BY <1>1, <1>2, <1>3 DEF IdWalk, Spoils
<1> QED BY <1>1, <1>2, <1>4

(* A fault ends the behaviour.                                             *)
LEMMA FaultEnds == [Next]_vars /\ fault' = "none" => fault = "none"
BY DEF Next, vars, handler_add, xmpp_handler_delete, handler_add_id, xmpp_id_handler_delete,
       handler_add_timed, xmpp_timed_handler_delete, handler_reset_timed, LogIn,
       xmpp_conn_clone, xmpp_conn_release, xmpp_run, xmpp_stop, LoopReturns, TimerExpires,
       TimerProxy, Program, Event, FireStanza, SkipItem, CallItem, ReturnsAgain, EndsHandler,
       EndsIdHandler, Advance, AdvanceId

(* Every step keeps the walk.                                              *)
LEMMA WalkStep == HeapInv /\ WalkInv /\ [Next]_vars => WalkInv'
<1> SUFFICES ASSUME HeapInv, WalkInv, [Next]_vars, fault' = "none"
             PROVE  WalkTypes' /\ PlainWalk' /\ IdWalk'
  BY DEF WalkInv
<1>f. fault = "none"
  BY FaultEnds
<1>w. /\ WalkTypes /\ PlainWalk /\ IdWalk
      /\ walk \in WalkType
      /\ walk.on => walk.id = NULL \/ walk.id \in Ids
      /\ ~walk.on => walk.at = "none"
  BY <1>f, NoWalkFields DEF WalkInv, WalkTypes, WalkType
<1>s. ASSUME UNCHANGED <<walk, handlers, misuse>>, walk.on => walk.at = "call",
             \A id \in Ids : /\ HeadOf(id) # NULL => HeadOf(id)' = HeadOf(id)
                             /\ Range(ListOf(id)) \subseteq Range(ListOf(id)')
      PROVE  WalkTypes' /\ PlainWalk' /\ IdWalk'
  <2>1. walk.on /\ walk.id # NULL =>
          HeadOf(walk.id)' = HeadOf(walk.id) \/ "emptied" \in misuse'
    BY <1>s, <1>w DEF IdWalk
  <2> QED BY <2>1, <1>s, <1>w, WalkSame
<1>u. ASSUME UNCHANGED <<mem, id_handlers, leaked, inserts>>
      PROVE  \A id \in Ids : HeadOf(id)' = HeadOf(id) /\ ListOf(id)' = ListOf(id)
  BY <1>u, IdsUntouched DEF HeapInv
<1>1. ASSUME NEW f \in Fns, handler_add(f) PROVE WalkTypes' /\ PlainWalk' /\ IdWalk'
  <2>1. PICK a \in Free : AddedPlain(a, f)
    BY <1>1 DEF handler_add
  <2>2. /\ \A id \in Ids : HeadOf(id)' = HeadOf(id) /\ ListOf(id)' = ListOf(id)
        /\ Range(handlers') = Range(handlers) \cup {a}
    <3>1. a \in Items /\ a \notin Range(handlers)
      BY FreeItem
    <3>2. Range(handlers') = Range(handlers) \cup {a}
      BY <2>1, <3>1, AppendRight DEF AddedPlain, HeapInv, ListTypes
    <3> QED BY <1>1, <2>1, <3>2, AddPlainHeap DEF handler_add
  <2> QED BY <1>1, <1>w, <2>2, WalkSame DEF handler_add, Program, history, IdWalk
<1>2. ASSUME NEW f \in Fns, xmpp_handler_delete(f) PROVE WalkTypes' /\ PlainWalk' /\ IdWalk'
  <2>1. PICK a \in ItemsOf(handlers, f) :
          /\ FreePlain(a)
          /\ misuse' = IF walk.on /\ walk.id = NULL THEN misuse \cup Spoils(a) ELSE misuse
    BY <1>2 DEF xmpp_handler_delete
  <2>2. /\ \A id \in Ids : HeadOf(id)' = HeadOf(id) /\ ListOf(id)' = ListOf(id)
        /\ Range(handlers') = Range(handlers) \ {a}
    <3>1. Range(handlers') = Range(handlers) \ {a}
      BY <2>1, WithoutRight DEF FreePlain, ItemsOf, HeapInv, ListTypes
    <3> QED BY <1>2, <2>1, <3>1, FreePlainHeap DEF xmpp_handler_delete, ItemsOf
  <2> QED BY <1>2, <1>w, <2>1, <2>2, WalkSame DEF xmpp_handler_delete, Program, IdWalk
<1>3. ASSUME NEW f \in IdFns, NEW id \in Ids, handler_add_id(f, id)
      PROVE  WalkTypes' /\ PlainWalk' /\ IdWalk'
  <2>1. \A jd \in Ids : /\ HeadOf(jd) # NULL => HeadOf(jd)' = HeadOf(jd)
                        /\ Range(ListOf(jd)) \subseteq Range(ListOf(jd)')
    <3>1. CASE HeadOf(id) # NULL
      BY <1>3, <3>1, AppendIdHeap DEF handler_add_id
    <3>2. CASE HeadOf(id) = NULL
      BY <1>3, <3>2, NewIdHeap DEF handler_add_id
    <3> QED BY <3>1, <3>2
  <2> QED BY <1>3, <2>1, <1>s DEF handler_add_id, Program, history
<1>4. ASSUME NEW f \in IdFns, NEW id \in Ids, xmpp_id_handler_delete(f, id)
      PROVE  WalkTypes' /\ PlainWalk' /\ IdWalk'
  <2>1. PICK a \in ItemsOf(ListOf(id), f) : FreeId(a, id)
    BY <1>4 DEF xmpp_id_handler_delete
  <2>2. /\ a \in Range(ListOf(id))
        /\ UNCHANGED <<handlers, timed, inserts, due, leaked, walk>>
        /\ walk.on => walk.at = "call"
    BY <1>4, <2>1 DEF xmpp_id_handler_delete, ItemsOf, Program
  <2>3. CASE walk.on /\ walk.id = id
    <3>1. /\ misuse \cup Spoils(a) \subseteq misuse'
          /\ HeadOf(id)' = HeadOf(id) \/ "emptied" \in misuse'
          /\ "emptied" \in misuse' => "emptied" \in misuse \/ "self" \in misuse'
          /\ Range(ListOf(id)') = Range(ListOf(id)) \ {a}
      BY <2>1, <2>2, <2>3, <1>w, FreeIdWalk
    <3>2. walk.id # NULL
      BY <2>3, TableConstants
    <3> QED BY <2>2, <2>3, <3>1, <3>2, <1>w, WalkSame
  <2>4. CASE ~(walk.on /\ walk.id = id)
    <3>1. misuse' = misuse
      BY <2>1, <2>4 DEF FreeId
    <3>2. \A jd \in Ids : jd # id => HeadOf(jd)' = HeadOf(jd) /\ ListOf(jd)' = ListOf(jd)
      BY <2>1, <2>2, FreeIdHeap
    <3> QED BY <2>2, <2>4, <3>1, <3>2, <1>w, WalkSame
  <2> QED BY <2>3, <2>4
<1>5. ASSUME NEW f \in TimedFns, handler_add_timed(f) PROVE WalkTypes' /\ PlainWalk' /\ IdWalk'
  <2>1. \A id \in Ids : HeadOf(id)' = HeadOf(id) /\ ListOf(id)' = ListOf(id)
    BY <1>5, AddTimedHeap DEF handler_add_timed
  <2> QED BY <1>5, <2>1, <1>s DEF handler_add_timed, Program, history
<1>6. ASSUME NEW f \in TimedFns, xmpp_timed_handler_delete(f)
      PROVE  WalkTypes' /\ PlainWalk' /\ IdWalk'
  <2>1. \A id \in Ids : HeadOf(id)' = HeadOf(id) /\ ListOf(id)' = ListOf(id)
    BY <1>6, FreeTimedHeap DEF xmpp_timed_handler_delete, ItemsOf
  <2> QED BY <1>6, <2>1, <1>s DEF xmpp_timed_handler_delete, Program, history
<1>7. ASSUME NEW user_only \in BOOLEAN, handler_reset_timed(user_only)
      PROVE  WalkTypes' /\ PlainWalk' /\ IdWalk'
  BY <1>7, <1>u, <1>s DEF handler_reset_timed, Program, history
<1>8. CASE LogIn \/ xmpp_conn_clone \/ xmpp_run \/ xmpp_stop \/ LoopReturns
  <2>1. /\ UNCHANGED <<mem, id_handlers, leaked, inserts, walk, handlers, misuse>>
        /\ walk.on => walk.at = "call"
    BY <1>8 DEF LogIn, xmpp_conn_clone, xmpp_run, xmpp_stop, LoopReturns, lists, history,
                Program
  <2> QED BY <2>1, <1>u, <1>s
<1>9. CASE xmpp_conn_release
  BY <1>9, <1>w DEF xmpp_conn_release, WalkTypes, PlainWalk, IdWalk
<1>10. ASSUME NEW a \in Items, TimerExpires(a) \/ TimerProxy(a)
       PROVE  WalkTypes' /\ PlainWalk' /\ IdWalk'
  <2>1. UNCHANGED <<mem, id_handlers, leaked, inserts, walk, handlers, misuse>>
    BY <1>10 DEF TimerExpires, TimerProxy, history
  <2>2. \A id \in Ids : HeadOf(id)' = HeadOf(id) /\ ListOf(id)' = ListOf(id)
    BY <2>1, <1>u
  <2> QED BY <2>1, <2>2, <1>w DEF WalkTypes, PlainWalk, IdWalk
<1>11. ASSUME NEW id \in Ids \cup {NULL}, FireStanza(id)
       PROVE  WalkTypes' /\ PlainWalk' /\ IdWalk'
  <2>1. CASE id # NULL /\ HeadOf(id) # NULL
    <3>1. id \in Ids /\ HeadOf(id) \in Items /\ ListOf(id) \in Seq(Items)
      BY <2>1, ListOfType DEF HeapInv
    <3>2. ListOf(id)[1] \in Range(ListOf(id))
      BY <2>1, <3>1, BeforeRange DEF HeapInv, IdsOK, IdListOK
    <3>3. /\ walk' = WalkAt(ListOf(id), id, HeadOf(id), ListOf(id)[1])
          /\ UNCHANGED <<mem, id_handlers, inserts>> /\ misuse' = {}
      BY <1>11, <2>1 DEF FireStanza, WalkOf
    <3>4. "emptied" \notin misuse'
      BY <3>3
    <3> QED BY <3>1, <3>2, <3>3, <3>4, WalkToId
  <2>2. CASE ~(id # NULL /\ HeadOf(id) # NULL)
    BY <1>11, <2>2, WalkBegins DEF FireStanza
  <2> QED BY <2>1, <2>2
<1>12. CASE SkipItem \/ CallItem \/ ReturnsAgain
  <2>1. /\ UNCHANGED <<mem, id_handlers, leaked, inserts, handlers, misuse>>
        /\ \E p \in {"call", "after"} : walk' = Place(p)
        /\ walk.at \in {"item", "call"}
    BY <1>12 DEF SkipItem, CallItem, ReturnsAgain, lists, history
  <2>2. \A id \in Ids : HeadOf(id)' = HeadOf(id) /\ ListOf(id)' = ListOf(id)
    BY <2>1, <1>u
  <2>3. /\ walk' \in WalkType /\ walk'.at \in {"call", "after"}
        /\ walk'.on = walk.on /\ walk'.id = walk.id /\ walk'.head = walk.head
        /\ walk'.pos = walk.pos /\ walk'.tmp = walk.tmp
    BY <2>1, <1>w, PlaceFields
  <2> QED BY <2>1, <2>2, <2>3, <1>w DEF WalkTypes, PlainWalk, IdWalk
<1>p. ASSUME walk' = Place("after")
      PROVE  /\ walk' \in WalkType /\ walk'.at = "after"
             /\ walk'.on = walk.on /\ walk'.id = walk.id /\ walk'.head = walk.head
             /\ walk'.pos = walk.pos /\ walk'.tmp = walk.tmp
  BY <1>p, <1>w, PlaceFields
<1>13. CASE EndsHandler
  <2>1. /\ walk.on /\ walk.id = NULL /\ walk.pos \in Range(handlers)
        /\ FreePlain(walk.pos) /\ walk' = Place("after") /\ misuse' = misuse
    BY <1>13, <1>w DEF EndsHandler
  <2>2. Range(handlers') = Range(handlers) \ {walk.pos}
    BY <2>1, WithoutRight DEF FreePlain, HeapInv, ListTypes
  <2> QED BY <2>1, <2>2, <1>p, <1>w DEF WalkTypes, PlainWalk, IdWalk
<1>14. CASE EndsIdHandler
  <2>1. /\ walk.on /\ walk.id # NULL /\ walk.at = "call" /\ walk' = Place("after")
        /\ UNCHANGED <<handlers, timed, inserts, due, leaked>>
    BY <1>14, <1>w DEF EndsIdHandler
  <2>2. PICK id \in Ids : walk.id = id
    BY <2>1, <1>w
  <2>3. CASE ItemsOf(ListOf(id), mem[walk.pos].fn) = {}
    <3>1. UNCHANGED <<mem, id_handlers, misuse>>
      BY <1>14, <2>2, <2>3 DEF EndsIdHandler
    <3>2. HeadOf(id)' = HeadOf(id) /\ ListOf(id)' = ListOf(id)
      BY <2>1, <3>1, <1>u
    <3> QED BY <2>1, <2>2, <3>1, <3>2, <1>p, <1>w DEF WalkTypes, PlainWalk, IdWalk
  <2>4. CASE ItemsOf(ListOf(id), mem[walk.pos].fn) # {}
    <3>1. PICK a \in ItemsOf(ListOf(id), mem[walk.pos].fn) : FreeId(a, id)
      BY <1>14, <2>2, <2>4 DEF EndsIdHandler
    <3>2. a \in Range(ListOf(id))
      BY DEF ItemsOf
    <3>3. /\ misuse \cup Spoils(a) \subseteq misuse'
          /\ HeadOf(id)' = HeadOf(id) \/ "emptied" \in misuse'
          /\ "emptied" \in misuse' => "emptied" \in misuse \/ "self" \in misuse'
          /\ Range(ListOf(id)') = Range(ListOf(id)) \ {a}
      BY <2>1, <2>2, <3>1, <3>2, <1>w, FreeIdWalk
    <3>4. (walk.tmp = a => "next" \in misuse') /\ (walk.pos = a => "self" \in misuse')
      BY <3>3 DEF Spoils
    <3> QED BY <2>1, <2>2, <3>3, <3>4, <1>p, <1>w DEF WalkTypes, PlainWalk, IdWalk
  <2> QED BY <2>3, <2>4
<1>15. CASE Advance
  <2>1. CASE walk' = NoWalk
    BY <2>1, NoWalkFields DEF WalkTypes, PlainWalk, IdWalk
  <2>2. CASE walk' # NoWalk
    BY <1>15, <2>2, WalkToHandler DEF Advance, lists
  <2> QED BY <2>1, <2>2
<1>16. CASE AdvanceId
  <2> DEFINE list == IF mem[walk.head].kind = "head" THEN mem[walk.head].list ELSE <<>>
  <2>1. /\ walk.on /\ walk.id # NULL /\ walk.id \in Ids /\ walk.head \in Items
        /\ UNCHANGED <<handlers, id_handlers, inserts, misuse>>
    BY <1>16, <1>w DEF AdvanceId, IdWalk, WalkType
  <2>2. CASE walk.tmp = NULL
    BY <1>16, <2>1, <2>2, WalkBegins DEF AdvanceId
  <2>3. CASE walk.tmp # NULL
    <3>1. /\ walk.tmp \in Range(list) /\ mem' = mem
          /\ walk' = WalkAt(list, walk.id, walk.head, walk.tmp)
      BY <1>16, <2>3 DEF AdvanceId
    <3>2. list = mem[walk.head].list /\ list \in Seq(Items)
      <4>1. Range(<<>>) = {}
        BY DEF Range
      <4>2. mem[walk.head] \in ItemType
        BY <2>1 DEF HeapInv, ListTypes
      <4> QED BY <3>1, <4>1, <4>2 DEF ItemType
    <3>3. \/ HeadOf(walk.id) = walk.head /\ list = ListOf(walk.id) /\ "emptied" \notin misuse'
          \/ {"emptied", "self"} \subseteq misuse'
      BY <2>1, <3>2, <1>w, TableConstants DEF IdWalk, ListOf
    <3> HIDE DEF list
    <3> QED BY <2>1, <3>1, <3>2, <3>3, WalkToId
  <2> QED BY <2>2, <2>3
<1>17. CASE UNCHANGED vars
  <2>1. UNCHANGED <<mem, id_handlers, leaked, inserts, walk, handlers, misuse>>
    BY <1>17 DEF vars
  <2>2. \A id \in Ids : HeadOf(id)' = HeadOf(id) /\ ListOf(id)' = ListOf(id)
    BY <2>1, <1>u
  <2> QED BY <2>1, <2>2, <1>w DEF WalkTypes, PlainWalk, IdWalk
<1> QED BY <1>1, <1>2, <1>3, <1>4, <1>5, <1>6, <1>7, <1>8, <1>9, <1>10, <1>11, <1>12, <1>13,
           <1>14, <1>15, <1>16, <1>17 DEF Next

-----------------------------------------------------------------------------
(* Who waits.                                                              *)

(* What leaves the list of handlers, its functions, those that wait and the*)
(* cursor.                                                                 *)
LEMMA WaitingSame ==
  ASSUME WaitingFrom(Cursor), UNCHANGED <<handlers, waiting, Cursor>>,
         \A b \in Range(handlers) : mem'[b].fn = mem[b].fn /\ mem'[b].enabled = mem[b].enabled,
         "next" \in misuse => "next" \in misuse'
  PROVE  WaitingFrom(Cursor)'
BY DEF WaitingFrom

(* The walk begins: all functions wait.                                    *)
LEMMA WaitingBegins ==
  ASSUME HeapInv, WalkHandlers,
         UNCHANGED <<handlers, timed, id_handlers, inserts, due, leaked>>
  PROVE  /\ ~walk'.on => waiting' = {}
         /\ walk'.on => WaitingFrom(Cursor)'
<1>1. CASE handlers = <<>>
  <2>1. Range(handlers) = {}
    BY <1>1 DEF Range
  <2> QED BY <1>1, <2>1, NoWalkFields DEF WalkHandlers
<1>2. CASE handlers # <<>>
  <2>1. /\ handlers[1] \in Range(handlers)
        /\ \A b \in Range(handlers) : Before(handlers, handlers[1], b)
    BY <1>2, BeforeRange DEF HeapInv, ListTypes
  <2>2. walk'.on /\ Cursor' = handlers[1]
    BY <1>2 DEF WalkHandlers, WalkOf, WalkAt, Cursor
  <2>3. \A a \in Range(handlers) : mem'[a].enabled /\ mem'[a].fn = mem[a].fn
    BY WalkHeap
  <2>4. waiting' = {mem[a].fn : a \in Range(handlers)}
    BY DEF WalkHandlers
  <2> QED BY <2>1, <2>2, <2>3, <2>4 DEF WaitingFrom
<1> QED BY <1>1, <1>2

(* A handler that comes while one is called is the last, and not enabled.  *)
LEMMA WaitingAdded ==
  ASSUME HeapInv, WaitingFrom(Cursor), UNCHANGED <<waiting, misuse, Cursor>>,
         NEW f \in Fns, NEW a \in Free, AddedPlain(a, f)
  PROVE  WaitingFrom(Cursor)'
<1>1. a \in Items /\ a \notin Range(handlers) /\ Range(handlers) \subseteq Items
  BY FreeItem, ListShape DEF HeapInv, ListTypes
<1>2. /\ Range(handlers') = Range(handlers) \cup {a}
      /\ \A x, y : Before(handlers', x, y) <=>
                     Before(handlers, x, y) \/ (y = a /\ x \in Range(handlers) \cup {a})
  BY <1>1, AppendRight DEF AddedPlain, HeapInv, ListTypes
<1>3. ~mem'[a].enabled
  <2>1. NewItem("plain", f).enabled = FALSE
    BY NewItemFields DEF AllFns
  <2> QED BY <2>1, <1>1 DEF AddedPlain, HeapInv, ListTypes
<1>4. \A b \in Range(handlers) : b # a /\ mem'[b] = mem[b]
  BY <1>1 DEF AddedPlain, HeapInv, ListTypes
<1> QED BY <1>2, <1>3, <1>4 DEF WaitingFrom

(* A handler that goes takes its function with it.                         *)
LEMMA WaitingFreed ==
  ASSUME HeapInv, WaitingFrom(Cursor), Cursor' = Cursor,
         NEW a \in Range(handlers), FreePlain(a),
         misuse \subseteq misuse', a # Cursor \/ "next" \in misuse'
  PROVE  WaitingFrom(Cursor)'
<1>1. a \in Items /\ Range(handlers) \subseteq Items
  BY ListShape DEF HeapInv, ListTypes
<1>2. /\ Range(handlers') = Range(handlers) \ {a}
      /\ \A x, y : Before(handlers', x, y) <=> Before(handlers, x, y) /\ x # a /\ y # a
  BY WithoutRight DEF FreePlain, HeapInv, ListTypes
<1>3. \A b \in Range(handlers) : b # a => mem'[b] = mem[b] /\ mem[b].fn # mem[a].fn
  BY <1>1 DEF FreePlain, HeapInv, ListTypes, FnsOnce
<1>4. waiting' = waiting \ {mem[a].fn}
  BY DEF FreePlain
<1>5. ASSUME NEW b \in Range(handlers'), Before(handlers', Cursor, b), mem'[b].enabled
      PROVE  mem'[b].fn \in waiting'
  BY <1>2, <1>3, <1>4, <1>5 DEF WaitingFrom
<1>6. ASSUME "next" \notin misuse', NEW f \in waiting'
      PROVE  \E b \in Range(handlers') :
               Before(handlers', Cursor, b) /\ mem'[b].enabled /\ mem'[b].fn = f
  <2>1. PICK b \in Range(handlers) :
          Before(handlers, Cursor, b) /\ mem[b].enabled /\ mem[b].fn = f
    BY <1>4, <1>6 DEF WaitingFrom
  <2>2. b # a
    BY <2>1, <1>4, <1>6
  <2> QED BY <2>1, <2>2, <1>2, <1>3, <1>6
<1> QED BY <1>5, <1>6 DEF WaitingFrom

(* The item that the cursor leaves takes its function with it.             *)
LEMMA WaitingMet ==
  ASSUME HeapInv, PlainWalk, walk.on, walk.id = NULL, walk.at = "item", WaitingFrom(Cursor),
         UNCHANGED <<handlers, mem, misuse>>, waiting' = waiting \ {mem[walk.pos].fn},
         Cursor' = walk.tmp
  PROVE  WaitingFrom(Cursor)'
<1>1. walk.pos \in Range(handlers) /\ walk.tmp = After(handlers, walk.pos) /\ Cursor = walk.pos
  BY DEF PlainWalk, Cursor
<1>2. /\ \A y : Before(handlers, walk.pos, y) <=> y = walk.pos \/ Before(handlers, walk.tmp, y)
      /\ ~Before(handlers, walk.tmp, walk.pos)
  BY <1>1, AfterRight, TableConstants DEF HeapInv, ListTypes
<1>3. \A b \in Range(handlers) : mem[b].fn = mem[walk.pos].fn => b = walk.pos
  BY <1>1 DEF HeapInv, FnsOnce
<1>4. ASSUME NEW b \in Range(handlers), Before(handlers, walk.tmp, b), mem[b].enabled
      PROVE  mem[b].fn \in waiting'
  BY <1>1, <1>2, <1>3, <1>4 DEF WaitingFrom
<1>5. ASSUME "next" \notin misuse, NEW f \in waiting'
      PROVE  \E b \in Range(handlers) :
               Before(handlers, walk.tmp, b) /\ mem[b].enabled /\ mem[b].fn = f
  <2>1. PICK b \in Range(handlers) :
          Before(handlers, walk.pos, b) /\ mem[b].enabled /\ mem[b].fn = f
    BY <1>1, <1>5 DEF WaitingFrom
  <2>2. b # walk.pos
    BY <2>1, <1>5
  <2> QED BY <2>1, <2>2, <1>2
<1> QED BY <1>4, <1>5 DEF WaitingFrom

(* What is done to the lists by id leaves the handlers as they are.        *)
LEMMA HandlersApart ==
  ASSUME HeapInv, NEW b \in Range(handlers)
  PROVE  /\ \A m : \A a \in Free, h \in Free, f \in IdFns :
              mem' = [mem EXCEPT ![a] = NewItem("id", f), ![h] = m] => mem'[b] = mem[b]
         /\ \A m : \A a \in Free, id \in Ids, f \in IdFns :
              /\ HeadOf(id) # NULL
              /\ mem' = [mem EXCEPT ![a] = NewItem("id", f), ![HeadOf(id)] = m]
              => mem'[b] = mem[b]
         /\ \A id \in Ids : \A a \in Range(ListOf(id)) : FreeId(a, id) => mem'[b] = mem[b]
<1>1. b \in Items /\ mem[b].kind = "plain"
  BY ListShape DEF HeapInv, ListTypes, KindsOK
<1>2. \A a \in Free : b # a
  BY FreeItem
<1>3. \A id \in Ids : HeadOf(id) # NULL => b # HeadOf(id)
  BY <1>1 DEF HeapInv, IdsOK, IdListOK
<1>4. ASSUME NEW id \in Ids, NEW a \in Range(ListOf(id)), FreeId(a, id)
      PROVE  mem'[b] = mem[b]
  <2>1. HeadOf(id) # NULL
    BY ListOfType DEF HeapInv
  <2>2. b # a /\ b # HeadOf(id)
    BY <1>1, <1>3, <2>1 DEF HeapInv, IdsOK, IdListOK
  <2>3. mem'[b] = mem[b]
    BY <1>1, <1>4, <2>2 DEF FreeId, HeapInv, ListTypes
  <2> QED BY <2>3
<1>5. mem \in [Items -> ItemType]
  BY DEF HeapInv, ListTypes
<1> QED BY <1>1, <1>2, <1>3, <1>4, <1>5

(* Every step keeps those that wait.                                       *)
LEMMA WaitingStep == HeapInv /\ WalkInv /\ WaitingInv /\ [Next]_vars => WaitingInv'
<1> SUFFICES ASSUME HeapInv, WalkInv, WaitingInv, [Next]_vars, fault' = "none"
             PROVE  /\ ~walk'.on => waiting' = {} \/ "next" \in misuse'
                    /\ walk'.on /\ walk'.id = NULL => WaitingFrom(Cursor)'
  BY DEF WaitingInv
<1>f. fault = "none"
  BY FaultEnds
<1>w. /\ WalkTypes /\ PlainWalk /\ IdWalk
      /\ walk \in WalkType
      /\ walk.on => walk.id = NULL \/ walk.id \in Ids
      /\ ~walk.on => walk.at = "none" /\ (waiting = {} \/ "next" \in misuse)
      /\ walk.on /\ walk.id = NULL => WaitingFrom(Cursor)
  BY <1>f, NoWalkFields DEF WalkInv, WalkTypes, WalkType, WaitingInv
<1>s. ASSUME UNCHANGED <<walk, handlers, waiting>>, misuse \subseteq misuse',
             \A b \in Range(handlers) : mem'[b] = mem[b]
      PROVE  /\ ~walk'.on => waiting' = {} \/ "next" \in misuse'
             /\ walk'.on /\ walk'.id = NULL => WaitingFrom(Cursor)'
  BY <1>s, <1>w, WaitingSame DEF Cursor
<1>d. ASSUME NEW a \in Range(handlers), FreePlain(a), walk' = walk \/ walk' = Place("after"),
             walk.on => walk.at = "call" /\ misuse \subseteq misuse',
             ~walk.on => misuse' = misuse,
             walk.on /\ walk.id = NULL => a # walk.tmp \/ "next" \in misuse'
      PROVE  /\ ~walk'.on => waiting' = {} \/ "next" \in misuse'
             /\ walk'.on /\ walk'.id = NULL => WaitingFrom(Cursor)'
  <2>1. /\ walk'.on = walk.on /\ walk'.id = walk.id
        /\ walk.on => Cursor' = Cursor /\ Cursor = walk.tmp
    BY <1>d, <1>w, PlaceFields DEF Cursor
  <2>2. waiting' = waiting \ {mem[a].fn}
    BY <1>d DEF FreePlain
  <2> QED BY <2>1, <2>2, <1>d, <1>w, WaitingFreed
<1>1. CASE \E f \in Fns : handler_add(f)
  <2>1. PICK f \in Fns, a \in Free : AddedPlain(a, f)
    BY <1>1 DEF handler_add
  <2>2. UNCHANGED <<walk, waiting, misuse, Cursor>>
    BY <1>1 DEF handler_add, history, Cursor
  <2> QED BY <2>1, <2>2, <1>w, WaitingAdded
<1>2. ASSUME NEW f \in Fns, xmpp_handler_delete(f)
      PROVE  /\ ~walk'.on => waiting' = {} \/ "next" \in misuse'
             /\ walk'.on /\ walk'.id = NULL => WaitingFrom(Cursor)'
  <2>1. PICK a \in ItemsOf(handlers, f) :
          /\ FreePlain(a)
          /\ misuse' = IF walk.on /\ walk.id = NULL THEN misuse \cup Spoils(a) ELSE misuse
    BY <1>2 DEF xmpp_handler_delete
  <2>2. a \in Range(handlers) /\ walk' = walk /\ (walk.on => walk.at = "call")
    BY <1>2, <2>1 DEF xmpp_handler_delete, ItemsOf, Program
  <2>3. a = walk.tmp => "next" \in Spoils(a)
    BY DEF Spoils
  <2> QED BY <2>1, <2>2, <2>3, <1>d
<1>3. ASSUME NEW f \in IdFns, NEW id \in Ids, handler_add_id(f, id)
      PROVE  /\ ~walk'.on => waiting' = {} \/ "next" \in misuse'
             /\ walk'.on /\ walk'.id = NULL => WaitingFrom(Cursor)'
  <2>1. \A b \in Range(handlers) : mem'[b] = mem[b]
    <3>1. CASE HeadOf(id) # NULL
      BY <1>3, <3>1, HandlersApart DEF handler_add_id
    <3>2. CASE HeadOf(id) = NULL
      BY <1>3, <3>2, HandlersApart DEF handler_add_id
    <3> QED BY <3>1, <3>2
  <2> QED BY <1>3, <2>1, <1>s DEF handler_add_id, history
<1>4. ASSUME NEW f \in IdFns, NEW id \in Ids, xmpp_id_handler_delete(f, id)
      PROVE  /\ ~walk'.on => waiting' = {} \/ "next" \in misuse'
             /\ walk'.on /\ walk'.id = NULL => WaitingFrom(Cursor)'
  <2>1. PICK a \in ItemsOf(ListOf(id), f) : FreeId(a, id)
    BY <1>4 DEF xmpp_id_handler_delete
  <2>2. /\ \A b \in Range(handlers) : mem'[b] = mem[b]
        /\ misuse \subseteq misuse'
    BY <2>1, HandlersApart DEF ItemsOf, FreeId
  <2> QED BY <1>4, <2>2, <1>s DEF xmpp_id_handler_delete
<1>5. ASSUME NEW f \in TimedFns, handler_add_timed(f) \/ xmpp_timed_handler_delete(f)
      PROVE  /\ ~walk'.on => waiting' = {} \/ "next" \in misuse'
             /\ walk'.on /\ walk'.id = NULL => WaitingFrom(Cursor)'
  <2>1. PICK a \in Free \cup Range(timed) : \E m : mem' = [mem EXCEPT ![a] = m]
    BY <1>5 DEF handler_add_timed, xmpp_timed_handler_delete, ItemsOf
  <2>2. ASSUME NEW b \in Range(handlers) PROVE b # a /\ b \in Items
    <3>1. b \in Items /\ mem[b].kind = "plain"
      BY ListShape DEF HeapInv, ListTypes, KindsOK
    <3>2. a \in Free => b # a
      BY FreeItem
    <3>3. a \in Range(timed) => a \in Items /\ mem[a].kind = "timed"
      BY ListShape DEF HeapInv, ListTypes, KindsOK
    <3> QED BY <3>1, <3>2, <3>3
  <2>3. \A b \in Range(handlers) : mem'[b] = mem[b]
    BY <2>1, <2>2 DEF HeapInv, ListTypes
  <2> QED BY <1>5, <2>3, <1>s DEF handler_add_timed, xmpp_timed_handler_delete, history
<1>6. CASE \/ \E user_only \in BOOLEAN : handler_reset_timed(user_only)
           \/ LogIn \/ xmpp_conn_clone \/ xmpp_run \/ xmpp_stop \/ LoopReturns
           \/ \E a \in Items : TimerExpires(a) \/ TimerProxy(a)
           \/ UNCHANGED vars
  <2>1. UNCHANGED <<walk, handlers, waiting, misuse, mem>>
    BY <1>6 DEF handler_reset_timed, LogIn, xmpp_conn_clone, xmpp_run, xmpp_stop, LoopReturns,
                TimerExpires, TimerProxy, lists, history, vars
  <2> QED BY <2>1, <1>s
<1>7. CASE xmpp_conn_release
  BY <1>7, <1>w DEF xmpp_conn_release, history
<1>8. ASSUME NEW id \in Ids \cup {NULL}, FireStanza(id)
      PROVE  /\ ~walk'.on => waiting' = {} \/ "next" \in misuse'
             /\ walk'.on /\ walk'.id = NULL => WaitingFrom(Cursor)'
  <2>1. CASE id # NULL /\ HeadOf(id) # NULL
    <3>1. walk' = WalkOf(ListOf(id), id, HeadOf(id))
      BY <1>8, <2>1 DEF FireStanza
    <3> QED BY <2>1, <3>1 DEF WalkOf, WalkAt
  <2>2. CASE ~(id # NULL /\ HeadOf(id) # NULL)
    BY <1>8, <2>2, WaitingBegins DEF FireStanza
  <2> QED BY <2>1, <2>2
<1>9. CASE SkipItem \/ CallItem
  <2>1. /\ UNCHANGED <<mem, handlers, misuse>> /\ walk.at = "item" /\ walk.on
        /\ \E p \in {"call", "after"} : walk' = Place(p)
        /\ walk.id = NULL => waiting' = waiting \ {mem[walk.pos].fn}
    BY <1>9, <1>w DEF SkipItem, CallItem, lists
  <2>2. walk'.on = walk.on /\ walk'.id = walk.id /\ Cursor' = walk.tmp
    BY <2>1, <1>w, PlaceFields DEF Cursor
  <2> QED BY <2>1, <2>2, <1>w, WaitingMet
<1>10. CASE ReturnsAgain
  <2>1. /\ UNCHANGED <<mem, handlers, waiting, misuse>> /\ walk.at = "call" /\ walk.on
        /\ walk' = Place("after")
    BY <1>10, <1>w DEF ReturnsAgain, lists, history
  <2>2. walk'.on = walk.on /\ walk'.id = walk.id /\ Cursor' = Cursor
    BY <2>1, <1>w, PlaceFields DEF Cursor
  <2> QED BY <2>1, <2>2, <1>w, WaitingSame
<1>11. CASE EndsHandler
  <2>1. /\ walk.on /\ walk.at = "call" /\ walk.id = NULL /\ walk.pos \in Range(handlers)
        /\ FreePlain(walk.pos) /\ walk' = Place("after") /\ misuse' = misuse
    BY <1>11, <1>w DEF EndsHandler
  <2>2. walk.pos # walk.tmp
    BY <2>1, <1>w DEF PlainWalk
  <2> QED BY <2>1, <2>2, <1>d
<1>12. CASE EndsIdHandler
  <2>1. walk.on /\ walk.id # NULL /\ walk' = Place("after")
    BY <1>12, <1>w DEF EndsIdHandler
  <2> QED BY <2>1, <1>w, PlaceFields
<1>13. CASE Advance
  <2>1. /\ UNCHANGED <<mem, handlers, waiting, misuse>> /\ walk.on /\ walk.id = NULL
        /\ Cursor = walk.tmp
    BY <1>13, <1>w DEF Advance, lists, history, Cursor
  <2>2. CASE walk.tmp = NULL
    <3>1. \A b : ~Before(handlers, NULL, b)
      BY BeforeRange, ListShape, TableConstants DEF HeapInv, ListTypes
    <3>2. walk'.on = FALSE
      BY <1>13, <2>2, NoWalkFields DEF Advance
    <3> QED BY <2>1, <2>2, <3>1, <3>2, <1>w DEF WaitingFrom
  <2>3. CASE walk.tmp # NULL
    <3>1. walk' = WalkAt(handlers, NULL, NULL, walk.tmp)
      BY <1>13, <2>3 DEF Advance
    <3>2. walk'.on /\ walk'.id = NULL /\ Cursor' = walk.tmp
      BY <3>1 DEF WalkAt, Cursor
    <3> QED BY <2>1, <3>2, <1>w, WaitingSame
  <2> QED BY <2>2, <2>3
<1>14. CASE AdvanceId
  <2>1. CASE walk.tmp = NULL
    BY <1>14, <2>1, WaitingBegins DEF AdvanceId
  <2>2. CASE walk.tmp # NULL
    <3>1. /\ \E s : walk' = WalkAt(s, walk.id, walk.head, walk.tmp)
          /\ walk.id # NULL
      BY <1>14, <2>2 DEF AdvanceId
    <3> QED BY <3>1 DEF WalkAt
  <2> QED BY <2>1, <2>2
<1> QED BY <1>1, <1>2, <1>3, <1>4, <1>5, <1>6, <1>7, <1>8, <1>9, <1>10, <1>11, <1>12, <1>13,
           <1>14 DEF Next

-----------------------------------------------------------------------------
(* The theorems.                                                           *)

(* xmpp_conn_new: the lists are empty.                                     *)
LEMMA InitHandlers == Init => HandlersInv
<1> SUFFICES ASSUME Init PROVE HandlersInv
  OBVIOUS
<1>1. /\ \A a \in Items : mem[a] = Unused /\ mem[a].kind = "unused"
      /\ mem \in [Items -> ItemType]
  BY UnusedFields DEF Init
<1>2. /\ handlers = <<>> /\ timed = <<>>
      /\ <<>> \in Seq(Items) /\ IsInjective(<<>>) /\ Range(<<>>) = {}
  BY DEF Init, IsInjective, Range
<1>3. IdTable(id_handlers) /\ \A id \in Ids : HeadOf(id) = NULL
  BY NewRight DEF Init, HeadOf
<1>4. \A id \in Ids : Range(ListOf(id)) = {}
  BY <1>2, <1>3 DEF ListOf
<1>5. ListTypes /\ KindsOK /\ FnsOnce
  BY <1>1, <1>2, <1>3 DEF Init, ListTypes, KindsOK, FnsOnce
<1>6. IdsOK
  BY <1>1, <1>3, <1>4 DEF Init, IdsOK, IdListOK, IdsApart, IdsOwned
<1>7. walk = NoWalk /\ walk.on = FALSE /\ waiting = {}
  BY NoWalkFields DEF Init
<1> QED BY <1>5, <1>6, <1>7, NoWalkFields
        DEF HandlersInv, HeapInv, WalkInv, WalkTypes, PlainWalk, IdWalk, WaitingInv

(* Each step keeps the invariant.                                          *)
LEMMA HandlersStep == HandlersInv /\ [Next]_vars => HandlersInv'
BY HeapStep, WalkStep, WaitingStep DEF HandlersInv

(* So it holds always.                                                     *)
LEMMA HandlersAlways == Spec => []HandlersInv
BY InitHandlers, HandlersStep, PTL DEF Spec

(* An injective sequence has as many elements as places.                   *)
LEMMA InjectiveLength ==
  ASSUME NEW S, NEW s \in Seq(S), IsInjective(s)
  PROVE  Len(s) = Cardinality(Range(s))
<1>1. Len(s) \in Nat /\ DOMAIN s = 1 .. Len(s) /\ s \in [1 .. Len(s) -> S]
  BY LenProperties, ListShape
<1>2. Range(s) = {s[i] : i \in 1 .. Len(s)}
  BY <1>1 DEF Range
<1>3. s \in Bijection(1 .. Len(s), Range(s))
  <2>1. s \in [1 .. Len(s) -> Range(s)]
    BY <1>1, <1>2
  <2>2. \A t \in Range(s) : \E i \in 1 .. Len(s) : s[i] = t
    BY <1>2
  <2> QED BY <2>1, <2>2 DEF Bijection, Injection, Surjection
<1> QED BY <1>1, <1>3, FS_CountingElements DEF ExistsBijection

(* The invariant says who owns what.                                       *)
LEMMA HeapOwned == HeapInv => ItemsOwned
<1> SUFFICES ASSUME HeapInv PROVE ItemsOwned
  OBVIOUS
<1> DEFINE InIds == UNION {Range(ListOf(id)) : id \in Ids}
           owned == Range(handlers) \cup Range(timed) \cup HeadsInTable \cup InIds
<1>1. /\ handlers \in Seq(Items) /\ IsInjective(handlers) /\ Range(handlers) \subseteq Items
      /\ timed \in Seq(Items) /\ IsInjective(timed) /\ Range(timed) \subseteq Items
      /\ mem \in [Items -> ItemType]
  BY ListShape DEF HeapInv, ListTypes
<1>2. \A a \in HeadsInTable : \E id \in Ids : HeadOf(id) = a /\ a # NULL
  BY DEF HeadsInTable
<1>3. \A a \in HeadsInTable : /\ a \in Items /\ mem[a].kind = "head" /\ a \notin leaked
                              /\ mem[a].list # <<>> /\ mem[a].list \in Seq(Items)
                              /\ IsInjective(mem[a].list)
  BY <1>2, ListOfType DEF HeapInv, IdsOK, IdListOK, ListOf
<1>4. \A a \in InIds : \E id \in Ids : a \in Range(ListOf(id))
  OBVIOUS
<1>5. \A a \in InIds : a \in Items /\ mem[a].kind = "id" /\ a \notin leaked
  <2>1. \A id \in Ids : \A a \in Range(ListOf(id)) :
          a \in Items /\ mem[a].kind = "id" /\ a \notin leaked
    BY ListOfType DEF HeapInv, IdsOK, IdListOK
  <2> QED BY <1>4, <2>1
<1>6. /\ \A a \in Range(handlers) : mem[a].kind = "plain"
      /\ \A a \in Range(timed) : mem[a].kind = "timed"
  BY <1>1 DEF HeapInv, KindsOK
<1> HIDE DEF InIds
<1>7. {a \in Items : mem[a] # Unused} = owned \cup leaked
  <2>1. ASSUME NEW a \in Items, mem[a] # Unused PROVE a \in owned \cup leaked
    <3>1. mem[a].kind \in {"plain", "id", "timed", "head"}
      BY <2>1, <1>1 DEF HeapInv, KindsOK, ItemType
    <3>2. mem[a].kind = "plain" => a \in Range(handlers)
      BY DEF HeapInv, KindsOK
    <3>3. mem[a].kind = "timed" => a \in Range(timed)
      BY DEF HeapInv, KindsOK
    <3>4. mem[a].kind = "head" => a \in HeadsInTable \cup leaked
      BY TableConstants DEF HeapInv, IdsOK, IdsOwned, HeadsInTable
    <3>5. mem[a].kind = "id" => a \in InIds \cup leaked
      BY DEF HeapInv, IdsOK, IdsOwned, InIds
    <3> QED BY <3>1, <3>2, <3>3, <3>4, <3>5
  <2>2. ASSUME NEW a \in owned \cup leaked PROVE a \in Items /\ mem[a] # Unused
    <3>1. a \in leaked => a \in Items /\ mem[a].kind \in {"head", "id"}
      BY DEF HeapInv, IdsOK, IdsOwned
    <3>2. a \in Items /\ mem[a].kind # "unused"
      BY <3>1, <1>1, <1>3, <1>5, <1>6
    <3> QED BY <3>2, UnusedFields
  <2> QED BY <2>1, <2>2
<1>8. owned \cap leaked = {}
  <2>1. \A a \in leaked : mem[a].kind \in {"head", "id"}
    BY DEF HeapInv, IdsOK, IdsOwned
  <2> QED BY <2>1, <1>3, <1>5, <1>6
<1>9. ASSUME NEW a \in owned
      PROVE  /\ mem[a].kind \in {"plain", "timed", "head", "id"}
             /\ mem[a].kind = "plain" => a \in Range(handlers)
             /\ mem[a].kind = "timed" => a \in Range(timed)
             /\ mem[a].kind = "head" => Cardinality({id \in Ids : HeadOf(id) = a}) = 1
             /\ mem[a].kind = "id" => Cardinality({id \in Ids : a \in Range(ListOf(id))}) = 1
  <2>1. mem[a].kind \in {"plain", "timed", "head", "id"}
    BY <1>3, <1>5, <1>6
  <2>2. mem[a].kind = "plain" => a \in Range(handlers)
    BY <1>3, <1>5, <1>6
  <2>3. mem[a].kind = "timed" => a \in Range(timed)
    BY <1>3, <1>5, <1>6
  <2>4. ASSUME mem[a].kind = "head" PROVE Cardinality({id \in Ids : HeadOf(id) = a}) = 1
    <3>1. PICK id \in Ids : HeadOf(id) = a /\ a # NULL
      BY <2>4, <1>2, <1>5, <1>6
    <3>2. {jd \in Ids : HeadOf(jd) = a} = {id}
      BY <3>1 DEF HeapInv, IdsOK, IdsApart
    <3> QED BY <3>2, FS_Singleton
  <2>5. ASSUME mem[a].kind = "id" PROVE Cardinality({id \in Ids : a \in Range(ListOf(id))}) = 1
    <3>1. PICK id \in Ids : a \in Range(ListOf(id))
      BY <2>5, <1>3, <1>4, <1>6
    <3>2. {jd \in Ids : a \in Range(ListOf(jd))} = {id}
      BY <3>1 DEF HeapInv, IdsOK, IdsApart
    <3> QED BY <3>2, FS_Singleton
  <2> QED BY <2>1, <2>2, <2>3, <2>4, <2>5
<1>10. \A h \in HeadsInTable : Len(mem[h].list) = Cardinality(Range(mem[h].list))
  BY <1>3, InjectiveLength
<1>11. Len(handlers) = Cardinality(Range(handlers)) /\ Len(timed) = Cardinality(Range(timed))
  BY <1>1, InjectiveLength
<1>12. /\ due \subseteq Range(timed)
       /\ inserts => leaked = {}
       /\ ~inserts => HeadsInTable = {}
  BY DEF HeapInv, ListTypes, IdsOK, IdsOwned, HeadsInTable
<1> HIDE DEF owned
<1>13. \A a \in owned :
         CASE mem[a].kind = "plain" -> a \in Range(handlers)
           [] mem[a].kind = "timed" -> a \in Range(timed)
           [] mem[a].kind = "head"  -> Cardinality({id \in Ids : HeadOf(id) = a}) = 1
           [] mem[a].kind = "id" -> Cardinality({id \in Ids : a \in Range(ListOf(id))}) = 1
  BY <1>9
<1> QED BY <1>3, <1>7, <1>8, <1>10, <1>11, <1>12, <1>13 DEF ItemsOwned, owned, InIds

(* Every item that is allocated is in one list, once, or is one that       *)
(* hash_add refused (handler_add, handler_add_id, handler_add_timed and    *)
(* what frees their items, xmpp-handler.c).                                *)
THEOREM ItemsAreOwned == Spec => []ItemsOwned
<1>1. HandlersInv => ItemsOwned
  BY HeapOwned DEF HandlersInv
<1> QED BY <1>1, HandlersAlways, PTL

(* The walk of the list of handlers calls each function that was there, in *)
(* its turn, and none that came later, unless the next item was deleted    *)
(* under it (handler_fire_stanza, xmpp-handler.c).                         *)
THEOREM DispatchIsExact == Spec => []DispatchExact
<1>1. HandlersInv => DispatchExact
  <2> SUFFICES ASSUME HandlersInv, fault = "none" PROVE DispatchExact
    BY DEF DispatchExact
  <2>1. ~walk.on => waiting = {} \/ "next" \in misuse
    BY DEF HandlersInv, WaitingInv
  <2>2. ASSUME walk.at = "item", walk.id = NULL, mem[walk.pos].enabled
        PROVE  mem[walk.pos].fn \in waiting
    <3>1. walk.on
      BY <2>2, NoWalkFields DEF HandlersInv, WalkInv, WalkTypes
    <3>2. walk.pos \in Range(handlers) /\ Cursor = walk.pos
      BY <2>2, <3>1 DEF HandlersInv, WalkInv, PlainWalk, Cursor
    <3>3. Before(handlers, walk.pos, walk.pos)
      BY <3>2, BeforeRange DEF HandlersInv, HeapInv, ListTypes
    <3> QED BY <2>2, <3>1, <3>2, <3>3 DEF HandlersInv, WaitingInv, WaitingFrom
  <2> QED BY <2>1, <2>2 DEF DispatchExact
<1> QED BY <1>1, HandlersAlways, PTL

(* A step touches freed memory only after the misuse that explains it.     *)
LEMMA FaultStep == HandlersInv /\ FaultsExplained /\ [Next]_vars => FaultsExplained'
<1> SUFFICES ASSUME HandlersInv, FaultsExplained, [Next]_vars PROVE FaultsExplained'
  OBVIOUS
<1>1. CASE UNCHANGED vars
  BY <1>1 DEF vars, FaultsExplained
<1>2. CASE fault' = "none"
  BY <1>2 DEF FaultsExplained
<1>3. CASE Next /\ fault' # "none"
  <2>1. fault = "none" => WalkTypes /\ PlainWalk /\ IdWalk
    BY DEF HandlersInv, WalkInv
  <2>2. CASE xmpp_conn_release
    <3>1. fault' = "iterator" /\ "cleared" \in misuse'
      BY <1>3, <2>2 DEF xmpp_conn_release, Program
    <3> QED BY <3>1 DEF FaultsExplained
  <2>3. CASE \E a \in Items : TimerProxy(a)
    <3>1. fault' = "call" /\ "early timer" \in misuse'
      BY <1>3, <2>3 DEF TimerProxy, Event
    <3> QED BY <3>1 DEF FaultsExplained
  <2>4. CASE EndsHandler
    <3>1. /\ fault' = "free" /\ misuse' = misuse /\ walk.at = "call" /\ walk.id = NULL
          /\ walk.pos \notin Range(handlers) /\ walk.on
      BY <1>3, <2>1, <2>4, NoWalkFields DEF EndsHandler, WalkTypes
    <3>2. "self" \in misuse
      BY <2>1, <2>4, <3>1 DEF EndsHandler, PlainWalk
    <3> QED BY <3>1, <3>2 DEF FaultsExplained
  <2>5. CASE EndsIdHandler
    <3>1. /\ fault' = "free" /\ misuse' = misuse /\ walk.at = "call" /\ walk.id # NULL
          /\ mem[walk.pos] = Unused /\ walk.on /\ walk.id \in Ids
      BY <1>3, <2>1, <2>5, NoWalkFields DEF EndsIdHandler, WalkTypes, WalkType
    <3>2. walk.pos \notin Range(ListOf(walk.id))
      <4>1. \A b \in Range(ListOf(walk.id)) : mem[b].kind = "id"
        BY <3>1, ListOfType DEF HandlersInv, HeapInv, IdsOK, IdListOK
      <4> QED BY <3>1, <4>1, UnusedFields
    <3>3. "self" \in misuse
      BY <2>1, <2>5, <3>1, <3>2 DEF EndsIdHandler, IdWalk
    <3> QED BY <3>1, <3>3 DEF FaultsExplained
  <2>6. CASE Advance
    <3>1. /\ fault' = "cursor" /\ misuse' = misuse /\ walk.at = "after" /\ walk.id = NULL
          /\ walk.tmp \notin Range(handlers) \cup {NULL} /\ walk.on
      BY <1>3, <2>1, <2>6, NoWalkFields DEF Advance, WalkTypes, history
    <3>2. "next" \in misuse
      BY <2>1, <2>6, <3>1 DEF Advance, PlainWalk
    <3> QED BY <3>1, <3>2 DEF FaultsExplained
  <2>7. CASE AdvanceId
    <3> DEFINE list == IF mem[walk.head].kind = "head" THEN mem[walk.head].list ELSE <<>>
    <3>1. /\ fault' = "cursor" /\ misuse' = misuse /\ walk.at = "after" /\ walk.id # NULL
          /\ walk.tmp = NULL => mem[walk.head] = Unused
          /\ walk.tmp # NULL => walk.tmp \notin Range(list)
          /\ walk.on /\ walk.id \in Ids
      BY <1>3, <2>1, <2>7, NoWalkFields DEF AdvanceId, WalkTypes, WalkType
    <3>2. PlainWalk /\ IdWalk
      BY <2>1, <2>7 DEF AdvanceId
    <3>3. CASE HeadOf(walk.id) = walk.head
      <4>1. HeadOf(walk.id) # NULL
        BY <3>1, <3>2, <3>3 DEF IdWalk
      <4>2. mem[walk.head].kind = "head" /\ list = ListOf(walk.id)
        BY <3>1, <3>3, <4>1 DEF HandlersInv, HeapInv, IdsOK, IdListOK, ListOf
      <4>3. walk.tmp \notin Range(ListOf(walk.id)) \cup {NULL}
        BY <3>1, <4>2, UnusedFields
      <4>4. misuse \cap {"next", "emptied"} # {}
        BY <3>1, <3>2, <4>3 DEF IdWalk
      <4> QED BY <3>1, <4>4 DEF FaultsExplained
    <3>4. CASE HeadOf(walk.id) # walk.head
      <4>1. "emptied" \in misuse
        BY <3>1, <3>2, <3>4 DEF IdWalk
      <4> QED BY <3>1, <4>1 DEF FaultsExplained
    <3> QED BY <3>3, <3>4
  <2>8. CASE fault' = fault
    <3>1. fault = "none"
      BY <1>3, <2>8
         DEF Next, handler_add, xmpp_handler_delete, handler_add_id, xmpp_id_handler_delete,
             handler_add_timed, xmpp_timed_handler_delete, handler_reset_timed, LogIn,
             xmpp_conn_clone, xmpp_conn_release, xmpp_run, xmpp_stop, LoopReturns,
             TimerExpires, TimerProxy, Program, Event, FireStanza, SkipItem, CallItem,
             ReturnsAgain, EndsHandler, EndsIdHandler, Advance, AdvanceId
    <3> QED BY <1>3, <2>8, <3>1
  <2>9. \/ xmpp_conn_release \/ \E a \in Items : TimerProxy(a)
        \/ EndsHandler \/ EndsIdHandler \/ Advance \/ AdvanceId \/ fault' = fault
    BY <1>3
       DEF Next, handler_add, xmpp_handler_delete, handler_add_id, xmpp_id_handler_delete,
           handler_add_timed, xmpp_timed_handler_delete, handler_reset_timed, LogIn,
           xmpp_conn_clone, xmpp_run, xmpp_stop, LoopReturns, TimerExpires, FireStanza,
           SkipItem, CallItem, ReturnsAgain, history
  <2> QED BY <2>2, <2>3, <2>4, <2>5, <2>6, <2>7, <2>8, <2>9
<1> QED BY <1>1, <1>2, <1>3

(* Freed memory is touched only after one of the misuses that the lists do *)
(* not allow for: the item of the function, or the next one, deleted by it,*)
(* the list of the id emptied, a timer of the application before the login,*)
(* id handlers left when the connection goes (xmpp-handler.c).             *)
THEOREM FaultsAreExplained == Spec => []FaultsExplained
<1>1. Init => FaultsExplained
  BY DEF Init, FaultsExplained
<1>2. HandlersInv /\ FaultsExplained /\ [Next]_vars => FaultsExplained'
  BY FaultStep
<1> QED BY <1>1, <1>2, HandlersAlways, PTL DEF Spec
=============================================================================
