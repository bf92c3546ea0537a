----------------------------- MODULE StanzaTree -----------------------------
(***************************************************************************)
(* What the stanza functions promise: ordered trees that are kept by       *)
(* owners.  The program owns the nodes it holds, the parser owns the       *)
(* stanza it is building or delivering, and a node exists for as long as   *)
(* it can be reached from an owner.  Nothing is said of reference counts,  *)
(* of sibling pointers or of the moment at which memory is given back.     *)
(***************************************************************************)
EXTENDS Naturals, Sequences, FiniteSets, Functions

CONSTANTS Nodes, Null

VARIABLES
  kids,   \* the children of each node, in order
  held,   \* the nodes the program holds
  open    \* the stanza of the parser, or Null

vars == <<kids, held, open>>

(* The nodes below the set S, S included, in the forest k.                 *)
Under(k, S) ==
  LET level[i \in 0 .. Cardinality(Nodes)] ==
        IF i = 0 THEN S
        ELSE LET above == level[i - 1]
             IN  above \cup UNION {Range(k[n]) : n \in above}
  IN  level[Cardinality(Nodes)]

Owned(H, o) == H \cup ({o} \ {Null})
Alive == Under(kids, Owned(held, open))
Unused == Nodes \ Alive

(* The forest k without the nodes no owner reaches.                        *)
Kept(k, H, o) ==
  LET kept == Under(k, Owned(H, o))
  IN  [n \in Nodes |-> IF n \in kept THEN k[n] ELSE <<>>]

Init == kids = [n \in Nodes |-> <<>>] /\ held = {} /\ open = Null

New(n) == held' = held \cup {n} /\ n \in Unused /\ UNCHANGED <<open, kids>>

Open(n) ==
  open = Null /\ open' = n /\ n \in Unused /\ UNCHANGED <<held, kids>>

Keep == open # Null /\ held' = held \cup {open} /\ UNCHANGED <<open, kids>>

(* A child becomes the last one of p: a node made for it, or a root that   *)
(* does not hold p.                                                        *)
Attach(p, c) ==
  /\ UNCHANGED <<held, open>>
  /\ p \in Alive
  /\ \/ c \in Unused
     \/ /\ c \in Alive
        /\ p \notin Under(kids, {c})
        /\ \A n \in Nodes : c \notin Range(kids[n])
  /\ kids' = [kids EXCEPT ![p] = Append(@, c)]

(* A copy has the shape of the original and none of its nodes.             *)
Copy(s) ==
  /\ UNCHANGED open
  /\ s \in Alive
  /\ \E f \in Injection(Under(kids, {s}), Unused) :
       /\ held' = held \cup {f[s]}
       /\ kids' = [n \in Nodes |->
                     IF n \in Range(f)
                     THEN LET m == CHOOSE m \in DOMAIN f : f[m] = n
                          IN  [i \in DOMAIN kids[m] |-> f[kids[m][i]]]
                     ELSE kids[n]]

Drop(n) ==
  /\ n \in held
  /\ held' = held \ {n}
  /\ UNCHANGED open
  /\ kids' = Kept(kids, held', open)

Close ==
  /\ open' = Null
  /\ UNCHANGED held
  /\ kids' = Kept(kids, held, Null)

Next ==
  \/ Keep \/ Close
  \/ \E n \in Nodes : Drop(n) \/ Open(n) \/ New(n) \/ Copy(n)
  \/ \E p, c \in Nodes : Attach(p, c)

Spec == Init /\ [][Next]_vars
=============================================================================
