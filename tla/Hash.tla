--------------------------------- MODULE Hash ---------------------------------
(***************************************************************************)
(* The hash table (src/src/hash.c) as a value: a chain of entries for each *)
(* slot, and what each function makes of it.  Allocations succeed.  A key  *)
(* is plain ASCII: the characters of any other are negative for            *)
(* _hash_key, which then may leave the slots (hash.c:89).                  *)
(***************************************************************************)
EXTENDS Integers, FiniteSets, SequencesExt

CONSTANTS
  Keys,           \* the keys
  EmptyKey,       \* the empty string, which im_strndup does not copy
  NULL,
  Length,         \* table->length, the number of slots
  HashKey,        \* [Keys -> slots]: _hash_key
  HashAddInserts  \* without a free function, hash_add takes keys that are
                  \* absent: FALSE is the code (100), TRUE its comment (30, 99)

ASSUME LengthAssumption == Length \in Nat \ {0}
ASSUME HashKeyAssumption == HashKey \in [Keys -> 0 .. Length - 1]
ASSUME NullIsNoKey == NULL \notin Keys

Slots == 0 .. Length - 1

hash_new(free) == [free |-> free, num_keys |-> 0, entries |-> [i \in Slots |-> <<>>]]

(* Where k is in the chain c, and the first such place.                    *)
Hits(c, k) == {i \in 1 .. Len(c) : c[i].key = k}
FirstHit(c, k) == CHOOSE i \in Hits(c, k) : \A j \in Hits(c, k) : i <= j

hash_get(t, k) ==
  LET c == t.entries[HashKey[k]]
  IN  IF Hits(c, k) = {} THEN NULL ELSE c[FirstHit(c, k)].value

hash_drop(t, k) ==
  LET c == t.entries[HashKey[k]]
  IN  IF Hits(c, k) = {} THEN t
      ELSE [t EXCEPT !.entries[HashKey[k]] = RemoveAt(c, FirstHit(c, k)),
                     !.num_keys = @ - 1]

(* The new entry becomes the head of its chain.                            *)
Inserted(t, k, v) ==
  [t EXCEPT !.entries[HashKey[k]] = <<[key |-> k, value |-> v]>> \o @,
            !.num_keys = @ + 1]

Refuses(t, k) == ~t.free /\ (HashAddInserts <=> hash_get(t, k) # NULL)

\* Faulty variant: an entry that is already there stays behind the new one.
AddKeepsOld(t, k, v) ==
  IF k = EmptyKey \/ Refuses(t, k) THEN t ELSE Inserted(t, k, v)

(* hash_add returns -1 where this leaves t alone: for a key it refuses, and*)
(* for the empty key, which is tested only after the drop of the old entry.*)
hash_add(t, k, v) ==
  IF Refuses(t, k) THEN t
  ELSE LET dropped == IF t.free THEN hash_drop(t, k) ELSE t
       IN  IF k = EmptyKey THEN dropped ELSE Inserted(dropped, k, v)

hash_num_keys(t) == t.num_keys

(* An iterator, its first position, and hash_iter_next, whose result is the*)
(* key of the entry it then stands on.  After the last entry it stays, and *)
(* the result is NULL.                                                     *)
hash_iter_new == [index |-> -1, entry |-> NULL]

Successors(t, it) ==
  LET c == t.entries[it.index]
      p == FirstHit(c, it.entry)
      later == {i \in Slots : i > it.index /\ t.entries[i] # <<>>}
      slot == CHOOSE i \in later : \A j \in later : i <= j
  IN  IF it.entry # NULL /\ p < Len(c) THEN {[it EXCEPT !.entry = c[p + 1].key]}
      ELSE IF later = {} THEN {}
      ELSE {[index |-> slot, entry |-> t.entries[slot][1].key]}

hash_iter_next(t, it) ==
  IF Successors(t, it) = {} THEN [it |-> it, key |-> NULL]
  ELSE LET at == CHOOSE i \in Successors(t, it) : TRUE
       IN  [it |-> at, key |-> at.entry]

(* One round of a loop over hash_iter_next, and the keys that the loop     *)
(* meets, for as long as it leaves the table alone.                        *)
Visited(t, s) ==
  LET next == hash_iter_next(t, s.it)
  IN  IF next.key = NULL THEN s ELSE [it |-> next.it, keys |-> Append(s.keys, next.key)]

MaxRounds == Cardinality(Keys) + 1   \* in the last one the iterator is at the end

Rounds(t) ==
  LET round[n \in 0 .. MaxRounds] ==
        IF n = 0 THEN [it |-> hash_iter_new, keys |-> <<>>] ELSE Visited(t, round[n - 1])
  IN  round

Visits(t) == Rounds(t)[MaxRounds].keys

(* A chain holds a key at most once, and only keys of its slot.            *)
KeysInPlace(t) ==
  \A i \in Slots :
    /\ \A p \in 1 .. Len(t.entries[i]) : HashKey[t.entries[i][p].key] = i
    /\ \A p, q \in 1 .. Len(t.entries[i]) :
         t.entries[i][p].key = t.entries[i][q].key => p = q
=============================================================================
