--------------------------- MODULE ElementAttributes ---------------------------
(***************************************************************************)
(* What the attributes of XML elements promise: each element maps keys to  *)
(* values, and its copy is a map of its own.                               *)
(***************************************************************************)
CONSTANTS Elements, Keys, Values, NULL

VARIABLE
  maps   \* maps[e][k]: the value of k in e, or NULL; an element that does not
         \* exist has none

NoAttributes == [k \in Keys |-> NULL]

Init == maps = [e \in Elements |-> NoAttributes]

Set(e, k, v) == maps' = [maps EXCEPT ![e][k] = v]
Copy(e, d) == maps' = [maps EXCEPT ![d] = maps[e]]
Forget(e) == maps' = [maps EXCEPT ![e] = NoAttributes]

Next ==
  \/ \E e \in Elements, k \in Keys, v \in Values : Set(e, k, v)
  \/ \E e, d \in Elements : maps[d] = NoAttributes /\ Copy(e, d)
  \/ \E e \in Elements : Forget(e)

Spec == Init /\ [][Next]_maps
=============================================================================
