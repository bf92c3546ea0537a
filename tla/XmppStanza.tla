----------------------------- MODULE XmppStanza -----------------------------
(***************************************************************************)
(* Stanzas (src/src/xmpp-stanza.c): trees of nodes with a reference count, *)
(* built by the callbacks of the XML parser (xmpp-parser-expat.c) and by   *)
(* the program, which runs between two chunks or inside the parser's       *)
(* stanza callback.  The heap is a function from addresses to nodes; names,*)
(* texts and attributes of a node are left out.  Allocations succeed.      *)
(*                                                                         *)
(* The program follows the rules the code relies on and does not enforce:  *)
(* a child that is added has no parent yet and is not above its new        *)
(* parent, only whole stanzas are cloned, and a node is released only when *)
(* nothing below it is still in use, be it by the parser's callback.       *)
(***************************************************************************)
EXTENDS Naturals, Sequences, FiniteSets, Functions

CONSTANTS
  Nodes,      \* addresses for nodes; bounds the heap
  Null,       \* NULL
  MaxDepth    \* bound on the nesting of received elements

ASSUME NullIsNoNode == Null \notin Nodes
ASSUME NodesAreFinite == IsFiniteSet(Nodes)
ASSUME MaxDepthAssumption == MaxDepth \in Nat

VARIABLES
  node,       \* [Nodes -> node]: the heap; an unused address has ref 0
  held,       \* the nodes the program holds a reference to
  depth,      \* parser->depth
  stanza,     \* parser->stanza
  reset,      \* parser->reset
  ended,      \* expat expects no element: not set up yet, or document complete
  calling,    \* the stanza callback runs
  lost        \* history: nodes that a reset of the parser left behind

vars == <<node, held, depth, stanza, reset, ended, calling, lost>>
parserVars == <<depth, stanza, reset, ended, calling>>

Blank == [ref |-> 0, parent |-> Null, prev |-> Null, next |-> Null, children |-> Null]

-----------------------------------------------------------------------------
(* The heap h, read along its pointers.                                    *)

(* The nodes x, p[x], p[p[x]] and so forth, up to Null.                    *)
Follow(p, x) ==
  LET from[k \in 0 .. Cardinality(Nodes)] ==
        [y \in Nodes \cup {Null} |->
           IF k = 0 \/ y = Null THEN <<>> ELSE <<y>> \o from[k - 1][p[y]]]
  IN  from[Cardinality(Nodes)][x]

(* The set S and what is reached from it by steps from x to next[x].       *)
Closure(next, S) ==
  LET under[k \in 0 .. Cardinality(Nodes)] ==
        [x \in Nodes |->
           {x} \cup IF k = 0 THEN {} ELSE UNION {under[k - 1][y] : y \in next[x]}]
  IN  UNION {under[Cardinality(Nodes)][x] : x \in S}

Free(h) == {n \in Nodes : h[n].ref = 0}
Live(h) == Nodes \ Free(h)

(* The children of n: the first one and its siblings.                      *)
Kids(h, n) == Follow([x \in Nodes |-> h[x].next], h[n].children)

(* The nodes below the set S, S included.                                  *)
Below(h, S) == Closure([n \in Nodes |-> Range(Kids(h, n))], S)

(* n and the nodes above it, from n up, and the last of them.              *)
Path(h, n) == Follow([x \in Nodes |-> h[x].parent], n)
Root(h, n) == Path(h, n)[Len(Path(h, n))]

-----------------------------------------------------------------------------
(* The functions of xmpp-stanza.c, as changes of the heap h.               *)

xmpp_stanza_new(h, n) == [h EXCEPT ![n] = [Blank EXCEPT !.ref = 1]]
xmpp_stanza_clone(h, n) == [h EXCEPT ![n].ref = @ + 1]

(* What the release of n frees: n if this was its last reference, and then *)
(* the same of each child.                                                 *)
Freed(h, n) ==
  LET last == {x \in Nodes : h[x].ref <= 1}
  IN  Closure([x \in Nodes |-> Range(Kids(h, x)) \cap last], {n} \cap last)

xmpp_stanza_release(h, n) ==
  LET gone == Freed(h, n)
      dropped == {n} \cup UNION {Range(Kids(h, x)) : x \in gone}
  IN  [x \in Nodes |->
         IF x \in gone THEN Blank
         ELSE IF x \in dropped THEN [h[x] EXCEPT !.ref = @ - 1]
         ELSE h[x]]

\* Faulty variant: the new child becomes the first one.
LinkedFirst(h, p, c) ==
  LET g == [xmpp_stanza_clone(h, c) EXCEPT ![c].parent = p]
  IN  IF g[p].children = Null THEN [g EXCEPT ![p].children = c]
      ELSE [g EXCEPT ![p].children = c, ![c].next = h[p].children,
                     ![h[p].children].prev = c]

(* c becomes the last child of p, which takes a reference to it.           *)
xmpp_stanza_add_child(h, p, c) ==
  LET kids == Kids(h, p)
      g == [xmpp_stanza_clone(h, c) EXCEPT ![c].parent = p]
  IN  IF kids = <<>> THEN [g EXCEPT ![p].children = c]
      ELSE [g EXCEPT ![kids[Len(kids)]].next = c, ![c].prev = kids[Len(kids)]]

\* Faulty variant: the copy of the root keeps the parent and siblings of the original.
CopyLinked(h, s, f) ==
  LET image(p) == IF p = Null THEN Null ELSE IF p \in DOMAIN f THEN f[p] ELSE p
      copy(m) == [h[m] EXCEPT !.ref = 1, !.parent = image(@), !.prev = image(@),
                              !.next = image(@), !.children = image(@)]
  IN  [n \in Nodes |-> IF n \in Range(f) THEN copy(CHOOSE m \in DOMAIN f : f[m] = n)
                       ELSE h[n]]

(* The copy of s in the nodes f[m], for m below s: the same tree, each     *)
(* node with one reference, and a root without parent and siblings.        *)
xmpp_stanza_copy(h, s, f) ==
  LET image(p) == IF p = Null THEN Null ELSE f[p]
      copy(m) == IF m = s
                 THEN [Blank EXCEPT !.ref = 1, !.children = image(h[s].children)]
                 ELSE [ref |-> 1, parent |-> image(h[m].parent),
                       prev |-> image(h[m].prev), next |-> image(h[m].next),
                       children |-> image(h[m].children)]
  IN  [n \in Nodes |-> IF n \in Range(f) THEN copy(CHOOSE m \in DOMAIN f : f[m] = n)
                       ELSE h[n]]

-----------------------------------------------------------------------------
Init ==
  /\ node = [n \in Nodes |-> Blank]
  /\ held = {}
  /\ depth = 0
  /\ stanza = Null
  /\ reset = TRUE
  /\ ended = TRUE
  /\ calling = FALSE
  /\ lost = {}

(* Expat reads the document: it has the parser's callbacks only after the  *)
(* first reset was carried out, and nothing follows the end of a document. *)
Reading == ~calling /\ ~ended

(* _defer_parser_reset, at the head of parser_feed: between two chunks.    *)
(* Only the innermost open element is released; with it open inside        *)
(* another one, the outer ones stay behind.                                *)
parser_feed ==
  /\ ~calling /\ reset
  /\ IF stanza = Null THEN UNCHANGED <<node, lost>>
     ELSE /\ node' = xmpp_stanza_release(node, stanza)
          /\ lost' = lost \cup (Below(node, {Root(node, stanza)}) \ Below(node, {stanza}))
  /\ depth' = 0 /\ stanza' = Null /\ reset' = FALSE /\ ended' = FALSE
  /\ UNCHANGED <<held, calling>>

\* Faulty variant: the parser is reset inside the callback that asks for it.
ResetAtOnce ==
  /\ node' = IF stanza = Null THEN node ELSE xmpp_stanza_release(node, stanza)
  /\ depth' = 0 /\ stanza' = Null /\ reset' = FALSE /\ ended' = FALSE
  /\ UNCHANGED <<held, calling, lost>>

(* Called on a connect and when the stream restarts, often from a handler: *)
(* the rest of the chunk is still read by the old parser.                  *)
parser_reset ==
  /\ reset' = TRUE
  /\ UNCHANGED <<node, held, depth, stanza, ended, calling, lost>>

\* Faulty variant: the reference of the maker is not given back.
GrowUnreleased(c) == node' = xmpp_stanza_add_child(xmpp_stanza_new(node, c), stanza, c)

(* An element or a text inside the stanza: a new last child.               *)
Grow(c) ==
  node' = xmpp_stanza_release(
            xmpp_stanza_add_child(xmpp_stanza_new(node, c), stanza, c), c)

StartElement ==
  /\ Reading /\ depth < MaxDepth
  /\ depth' = depth + 1
  /\ IF depth = 0 THEN UNCHANGED <<node, stanza>>
     ELSE \E c \in Free(node) :
            /\ stanza' = c
            /\ IF depth = 1 THEN node' = xmpp_stanza_new(node, c) ELSE Grow(c)
  /\ UNCHANGED <<held, reset, ended, calling, lost>>

Characters ==
  /\ Reading /\ depth > 1
  /\ \E c \in Free(node) : Grow(c)
  /\ UNCHANGED <<held, depth, stanza, reset, ended, calling, lost>>

\* Faulty variant: the depth decides, off by one.
EndElementByDepth ==
  /\ Reading /\ depth > 0
  /\ depth' = depth - 1
  /\ ended' = (depth = 1)
  /\ calling' = (depth = 3)
  /\ stanza' = IF depth > 3 THEN node[stanza].parent ELSE stanza
  /\ UNCHANGED <<node, held, reset, lost>>

(* The end of the stream, of an inner element, or of a stanza, which then  *)
(* goes to the callback.                                                   *)
EndElement ==
  /\ Reading /\ depth > 0
  /\ depth' = depth - 1
  /\ ended' = (depth = 1)
  /\ LET inner == depth > 1 /\ node[stanza].parent # Null
     IN  /\ calling' = (depth > 1 /\ ~inner)
         /\ stanza' = IF inner THEN node[stanza].parent ELSE stanza
  /\ UNCHANGED <<node, held, reset, lost>>

\* Faulty variant: the delivered stanza is not released.
StanzaCallbackKeeps ==
  /\ calling
  /\ stanza' = Null
  /\ calling' = FALSE
  /\ UNCHANGED <<node, held, depth, reset, ended, lost>>
StanzaCallbackReturns ==
  /\ calling
  /\ node' = xmpp_stanza_release(node, stanza)
  /\ stanza' = Null
  /\ calling' = FALSE
  /\ UNCHANGED <<held, depth, reset, ended, lost>>

Parser ==
  \/ parser_feed \/ parser_reset \/ StartElement \/ Characters
  \/ EndElement \/ StanzaCallbackReturns

-----------------------------------------------------------------------------
(* The program: the handlers of the connection and the users of the API.   *)

(* The stanzas it can name: its own, and the one a callback hands it.      *)
InHand == held \cup (IF calling THEN {stanza} ELSE {})

AppNew ==
  /\ \E c \in Free(node) :
       node' = xmpp_stanza_new(node, c) /\ held' = held \cup {c}
  /\ UNCHANGED <<parserVars, lost>>

AppClone ==
  /\ calling /\ stanza \notin held
  /\ node' = xmpp_stanza_clone(node, stanza)
  /\ held' = held \cup {stanza}
  /\ UNCHANGED <<parserVars, lost>>

AppCopy(s) ==
  /\ s \in Below(node, InHand)
  /\ \E f \in Injection(Below(node, {s}), Free(node)) :
       node' = xmpp_stanza_copy(node, s, f) /\ held' = held \cup {f[s]}
  /\ UNCHANGED <<parserVars, lost>>

AppAddChild(p, c) ==
  /\ p \in held /\ c \in InHand
  /\ node[c].parent = Null
  /\ p \notin Below(node, {c})
  /\ node' = xmpp_stanza_add_child(node, p, c)
  /\ UNCHANGED <<held, parserVars, lost>>

AppRelease(n) ==
  /\ n \in held
  /\ Below(node, {n}) \cap InHand = {n}
  /\ node' = xmpp_stanza_release(node, n)
  /\ held' = held \ {n}
  /\ UNCHANGED <<parserVars, lost>>

App ==
  \/ AppNew \/ AppClone
  \/ \E n \in Nodes : AppCopy(n) \/ AppRelease(n)
  \/ \E p, c \in Nodes : AppAddChild(p, c)

Next == Parser \/ App

Spec == Init /\ [][Next]_vars

-----------------------------------------------------------------------------
NodeType ==
  [ref : Nat, parent : Nodes \cup {Null}, prev : Nodes \cup {Null},
   next : Nodes \cup {Null}, children : Nodes \cup {Null}]

(* Types of the variables: the pointers that are in use are to allocated   *)
(* nodes, and a callback is handed a stanza.                               *)
TypeOK ==
  /\ node \in [Nodes -> NodeType]
  /\ held \subseteq Live(node) /\ lost \subseteq Nodes
  /\ depth \in 0 .. MaxDepth
  /\ stanza \in Live(node) \cup {Null}
  /\ {reset, ended, calling} \subseteq BOOLEAN
  /\ calling => stanza # Null

(* The stanza the parser owns: the root of the one it builds, or the one   *)
(* it delivers, which the callback may have put below another.             *)
ParserStanza ==
  IF stanza = Null \/ calling THEN stanza ELSE Root(node, stanza)

Reachable == Below(node, held \cup ({ParserStanza} \ {Null}))

(* The list of the children of a node can be walked in both directions, a  *)
(* child knows its parent, and a node that names a parent is in its list:  *)
(* what _end_element, the serializer and get_next read                     *)
(* (xmpp-stanza.c:431-448, 78-90).                                         *)
ListsAgree ==
  \A n \in Reachable :
    LET kids == Kids(node, n)
        parent == node[n].parent
    IN  /\ IsInjective(kids)
        /\ \A i \in DOMAIN kids :
             /\ node[kids[i]].parent = n
             /\ node[kids[i]].prev = IF i = 1 THEN Null ELSE kids[i - 1]
        /\ parent # Null => n \in Range(Kids(node, parent))

(* The count of a node is the number of its owners: the program, the       *)
(* parser and its parent.  One too few frees what is still in use, one too *)
(* many keeps it for ever (xmpp-stanza.c:26-30, 100-122).                  *)
RefsExact ==
  LET reachable == Reachable
  IN  \A n \in reachable :
        node[n].ref =
          Cardinality({n} \cap held) + Cardinality({n} \cap {ParserStanza})
            + Cardinality({p \in reachable : n \in Range(Kids(node, p))})

(* Every allocated node can be reached by an owner, except what a reset in *)
(* the middle of a nested element left behind (xmpp-parser-expat.c:221-    *)
(* 246), and nothing that was left behind is in reach.                     *)
NothingElseLeaks == Live(node) = Reachable \cup lost /\ Reachable \cap lost = {}

(* The element the parser writes to lies as deep in the stanza as the      *)
(* nesting of the document says, and a stanza is open exactly inside the   *)
(* stream element: _end_element decides by the parent pointer what         *)
(* _start_element decided by the depth (xmpp-parser-expat.c:97-136,        *)
(* 141-162).                                                               *)
ParserKeepsLevel ==
  IF stanza = Null THEN depth < 2
  ELSE IF calling THEN depth = 1
  ELSE Len(Path(node, stanza)) = depth - 1

(* The heap keeps the trees that StanzaTree promises: what is received, or *)
(* built by the program, is exactly what readers find, a copy is equal and *)
(* separate, and a tree exists for as long as one of its owners does.      *)
Tree == INSTANCE StanzaTree WITH
  kids <- LET reachable == Reachable
          IN  [n \in Nodes |-> IF n \in reachable THEN Kids(node, n) ELSE <<>>],
  open <- ParserStanza
TreeKept == Tree!Spec
=============================================================================
