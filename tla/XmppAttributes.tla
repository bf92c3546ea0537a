---------------------------- MODULE XmppAttributes ----------------------------
(***************************************************************************)
(* The attributes of elements (src/src/xmpp-stanza.c): a hash table for    *)
(* each, made by the first attribute that is set.  The table owns its      *)
(* values, so it has a free function and hash_add replaces.  Text nodes,   *)
(* which have no attributes, are left out.                                 *)
(***************************************************************************)
EXTENDS Hash

CONSTANTS
  Elements,      \* addresses for elements
  Values,        \* the values, the empty string not among them
  EmptyString    \* "", which xmpp_strdup does not copy

ASSUME ValuesAssumption == NULL \notin Values \cup {EmptyString}
ASSUME EmptyKeyAssumption == EmptyKey \notin Keys

ASSUME KeysAreFinite == IsFiniteSet(Keys)

Entries == [key : Keys, value : Values]
Tables == [free : {TRUE}, num_keys : Int, entries : [Slots -> Seq(Entries)]]

ASSUME NullIsNoTable == NULL \notin Tables

VARIABLES
  made,        \* the elements that exist
  attributes   \* [Elements -> table or NULL]

attrVars == <<made, attributes>>

AttrInit ==
  /\ made = {}
  /\ attributes = [e \in Elements |-> NULL]

xmpp_stanza_get_attribute(e, k) ==
  IF attributes[e] = NULL THEN NULL ELSE hash_get(attributes[e], k)

xmpp_stanza_get_attribute_count(e) ==
  IF attributes[e] = NULL THEN 0 ELSE hash_num_keys(attributes[e])

(* The array that xmpp_stanza_get_attributes fills: keys and values in     *)
(* turn, up to attrlen of them, be the last a key without its value.       *)
xmpp_stanza_get_attributes(e, attrlen) ==
  IF attributes[e] = NULL THEN <<>>
  ELSE LET keys == Visits(attributes[e])
           all == [i \in 1 .. 2 * Len(keys) |->
                     IF i % 2 = 1 THEN keys[(i + 1) \div 2]
                     ELSE hash_get(attributes[e], keys[i \div 2])]
       IN  [i \in 1 .. (IF attrlen < Len(all) THEN attrlen ELSE Len(all)) |-> all[i]]

-----------------------------------------------------------------------------
AttrNew(e) ==
  /\ e \notin made
  /\ made' = made \cup {e}
  /\ UNCHANGED attributes

(* The table is made first, and kept also where the value is refused: an   *)
(* attribute that is set to the empty string keeps its old value.          *)
xmpp_stanza_set_attribute(e, k, v) ==
  LET table == IF attributes[e] = NULL THEN hash_new(TRUE) ELSE attributes[e]
  IN  /\ e \in made
      /\ attributes' = [attributes EXCEPT
                          ![e] = IF v = EmptyString THEN table ELSE hash_add(table, k, v)]
      /\ UNCHANGED made

(* The loop of xmpp_stanza_copy: what stands for each key is added to a new*)
(* table.                                                                  *)
CopyLoop(t, keys) ==
  LET copy[n \in 0 .. Len(keys)] ==
        IF n = 0 THEN hash_new(TRUE)
        ELSE hash_add(copy[n - 1], keys[n], hash_get(t, keys[n]))
  IN  copy

(* The copy of a table: its entries are added in the order of their chains,*)
(* so each becomes the head of its chain.                                  *)
Copied(t) == [t EXCEPT !.entries = [i \in Slots |-> Reverse(t.entries[i])]]

\* Faulty variant: only the head of each chain is copied.
CopyHeads(e, d) ==
  /\ e \in made /\ d \notin made
  /\ made' = made \cup {d}
  /\ attributes' = [attributes EXCEPT
       ![d] = IF attributes[e] = NULL THEN NULL
              ELSE [attributes[e] EXCEPT !.entries =
                      [i \in Slots |-> IF attributes[e].entries[i] = <<>> THEN <<>>
                                       ELSE <<Head(attributes[e].entries[i])>>]]]

(* The part of xmpp_stanza_copy about attributes.                          *)
CopyAttributes(e, d) ==
  /\ e \in made /\ d \notin made
  /\ made' = made \cup {d}
  /\ attributes' = [attributes EXCEPT
       ![d] = IF attributes[e] = NULL THEN NULL ELSE Copied(attributes[e])]

AttrRelease(e) ==
  /\ e \in made
  /\ made' = made \ {e}
  /\ attributes' = [attributes EXCEPT ![e] = NULL]

AttrNext ==
  \/ \E e \in Elements : AttrNew(e) \/ AttrRelease(e)
  \/ \E e \in Elements, k \in Keys, v \in Values \cup {EmptyString} :
       xmpp_stanza_set_attribute(e, k, v)
  \/ \E e, d \in Elements : CopyAttributes(e, d)

AttrSpec == AttrInit /\ [][AttrNext]_attrVars

-----------------------------------------------------------------------------
(* Type correctness.                                                       *)
AttrTypeOK ==
  /\ made \subseteq Elements
  /\ attributes \in [Elements -> Tables \cup {NULL}]
  /\ \A e \in Elements : attributes[e] # NULL => e \in made

(* xmpp-stanza.c:370-402 and the copy: an array of any length has the      *)
(* element's keys, none twice, each with its value, as many as it has room *)
(* for; and the copy of a table is what the loop of xmpp_stanza_copy makes *)
(* of it.  It goes wrong with an entry left behind by hash_add, a count    *)
(* that is not kept, or an iterator that skips or repeats a chain.         *)
AttributesListed ==
  \A e \in made :
    LET keys == {k \in Keys : xmpp_stanza_get_attribute(e, k) # NULL}
        copied(t) == CopyLoop(t, Visits(t))[Len(Visits(t))]
    IN  /\ xmpp_stanza_get_attribute_count(e) = Cardinality(keys)
        /\ attributes[e] # NULL => Copied(attributes[e]) = copied(attributes[e])
        /\ \A n \in 0 .. 2 * Cardinality(Keys) + 1 :
             LET list == xmpp_stanza_get_attributes(e, n)
                 odd == {i \in 1 .. Len(list) : i % 2 = 1}
             IN  /\ Len(list) = IF n < 2 * Cardinality(keys) THEN n
                                ELSE 2 * Cardinality(keys)
                 /\ \A i \in odd : list[i] \in keys
                 /\ \A i, j \in odd : list[i] = list[j] => i = j
                 /\ \A i \in odd : i < Len(list) =>
                      list[i + 1] = xmpp_stanza_get_attribute(e, list[i])

(* Elements implement maps from keys to values: what is set last is read,  *)
(* nothing else changes, and an original and its copy go separate ways.    *)
AttributeMaps == INSTANCE ElementAttributes WITH
  maps <- [e \in Elements |-> [k \in Keys |-> xmpp_stanza_get_attribute(e, k)]]
AttributesKept == AttributeMaps!Spec
=============================================================================
