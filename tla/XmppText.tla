------------------------------- MODULE XmppText -------------------------------
(***************************************************************************)
(* How a stanza becomes text (src/src/xmpp-stanza.c).  A node is a record  *)
(* with its type, its data (the name, or the text, or NoData), its         *)
(* attributes in the order of the hash iterator, and its children.  Texts  *)
(* are sequences of characters; a name, a key or a namespace counts as     *)
(* one.  xmpp_strdup makes NULL of an empty string, so only a text from    *)
(* the parser may be empty, and <<>> is the NULL value of an attribute.    *)
(* Allocations succeed.                                                    *)
(***************************************************************************)
LOCAL INSTANCE Integers
LOCAL INSTANCE SequencesExt

NsClient == "jabber:client"
Nul == "NUL"

(* stanza->data is NULL.                                                   *)
NoData == <<Nul>>

EscapeChar(c) ==
  CASE c = "<" -> <<"&", "l", "t", ";">>
    [] c = ">" -> <<"&", "g", "t", ";">>
    [] c = "&" -> <<"&", "a", "m", "p", ";">>
    [] c = "\"" -> <<"&", "q", "u", "o", "t", ";">>
    [] OTHER -> <<c>>

escape_xml(text) == FlattenSeq([i \in DOMAIN text |-> EscapeChar(text[i])])

(* hash_get for the key "xmlns": its value, <<>> if there is none.         *)
Xmlns(node) ==
  LET own == SelectSeq(node.attributes, LAMBDA a : a.key = "xmlns")
  IN  IF own = <<>> THEN <<>> ELSE own[1].value

\* Faulty variant: the client's namespace is left out everywhere.
ShownOutsideClient(a, parents) ==
  a.value # <<>> /\ (a.key = "xmlns" => a.value # <<NsClient>>)

(* parents is <<>> or <<stanza->parent>>.                                  *)
Shown(a, parents) ==
  /\ a.value # <<>>
  /\ a.key = "xmlns" =>
       IF parents = <<>> THEN a.value # <<NsClient>> ELSE a.value # Xmlns(parents[1])

-----------------------------------------------------------------------------
(* A call of _render_stanza_recursive under way: the buffer, where ptr     *)
(* points in it (0 for NULL), the room it was given and what is left of    *)
(* it, and what it has written, or would have.                             *)
Started(buf, ptr, room) ==
  [buf |-> buf, ptr |-> ptr, length |-> room, left |-> room, written |-> 0]

(* Once the room is used up nothing more is written, but it is counted.    *)
render_update(w, n) ==
  LET written == w.written + n
  IN  IF written > w.length
      THEN [w EXCEPT !.written = written, !.left = 0, !.ptr = 0]
      ELSE [w EXCEPT !.written = written, !.left = @ - n, !.ptr = @ + n]

(* im_snprintf and the update that follows it.                             *)
Printed(w, text) ==
  LET fits == IF Len(text) < w.left THEN Len(text) ELSE w.left - 1
      put == [i \in DOMAIN w.buf |->
                CASE w.left = 0 -> w.buf[i]
                  [] i \in w.ptr .. w.ptr + fits - 1 -> text[i - w.ptr + 1]
                  [] i = w.ptr + fits -> Nul
                  [] OTHER -> w.buf[i]]
  IN  render_update([w EXCEPT !.buf = put], Len(text))

RECURSIVE Render(_, _, _)
Render(node, parents, w) ==
  LET attribute(v, a) ==
        IF Shown(a, parents)
        THEN Printed(v, <<" ", a.key, "=", "'">> \o escape_xml(a.value) \o <<"'">>)
        ELSE v
      child(v, c) ==
        LET sub == Render(c, <<node>>, Started(v.buf, v.ptr, v.left))
        IN  render_update([v EXCEPT !.buf = sub.buf], sub.written)
      head == FoldLeft(attribute, Printed(w, <<"<", node.data[1]>>), node.attributes)
      body == FoldLeft(child, Printed(head, <<">">>), node.children)
  IN  CASE node.type = "text" -> Printed(w, escape_xml(node.data))
        [] node.type = "tag" /\ node.children = <<>> -> Printed(head, <<"/", ">">>)
        [] node.type = "tag" /\ node.children # <<>> ->
             Printed(body, <<"<", "/", node.data[1], ">">>)

(* XMPP_EINVOP: somewhere in the tree is a node without a type or data.    *)
RECURSIVE Renderable(_)
Renderable(node) ==
  /\ node.type # "unknown"
  /\ node.data # NoData
  /\ \A i \in DOMAIN node.children : Renderable(node.children[i])

(* The size of the buffer for the second pass, or of the only one.         *)
Room(written, unit) == IF written > unit - 1 THEN written + 1 ELSE unit

(* The first buffer has 128 bytes in the code, here unit.                  *)
xmpp_stanza_to_text(node, unit) ==
  LET blank(n) == [i \in 1 .. n |-> "?"]
      first == Render(node, <<>>, Started(blank(unit), 1, unit))
      room == Room(first.written, unit)
      grown == [i \in 1 .. room |-> IF i <= unit THEN first.buf[i] ELSE "?"]
      second == IF room = unit THEN first ELSE Render(node, <<>>, Started(grown, 1, room))
  IN  IF ~Renderable(node) THEN [ret |-> "XMPP_EINVOP"]
      ELSE IF second.written > room - 1 THEN [ret |-> "XMPP_EMEM"]
      ELSE [ret |-> "XMPP_EOK", buf |-> [second.buf EXCEPT ![room] = Nul],
            buflen |-> second.written]
=============================================================================
