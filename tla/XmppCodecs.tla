------------------------------ MODULE XmppCodecs ------------------------------
(***************************************************************************)
(* Calls of the functions that only compute (Base64, XmppSasl, XmppText),  *)
(* each with what it must give by the standard it follows.                 *)
(***************************************************************************)
EXTENDS XmppSasl, XmppText
LOCAL INSTANCE Integers
LOCAL INSTANCE FiniteSets
LOCAL INSTANCE SequencesExt

CONSTANTS
  ByteTexts,    \* texts to encode, two bytes at least
  CodedTexts,   \* texts to decode
  BeforeTable,  \* what may stand before the table of the decoder
  Names,        \* names and passwords for PLAIN
  Challenges,   \* lists of directives: key, value, quote ("" for none)
  Separators,   \* what stands between directives
  Jids,
  Stanzas,      \* nodes without a parent
  Units         \* sizes of the first buffer

VARIABLE call   \* the function called, its input and its result

codecVars == <<call>>

CodecInit == call = [fn |-> "none"]

Calls(fn, in, out) == call' = [fn |-> fn, in |-> in, out |-> out]

(* A list of directives as a server writes it.                             *)
ChallengeText(directives, separator) ==
  LET mark(d) == IF d.quote = "" THEN <<>> ELSE <<d.quote>>
      text(d) == <<d.key, "=">> \o mark(d) \o d.value \o mark(d)
  IN  FlattenSeq([i \in DOMAIN directives |->
        (IF i = 1 THEN <<>> ELSE separator) \o text(directives[i])])

(* One call, with any input.                                               *)
CodecNext ==
  /\ call.fn = "none"
  /\ \/ \E b \in ByteTexts : Calls("base64_encode", b, base64_encode(b))
     \/ \E t \in CodedTexts : \E r \in Readings(t, BeforeTable) :
          Calls("base64_decode", t, base64_decode(r))
     \/ \E authid, password \in Names :
          Calls("sasl_plain", <<authid, password>>, sasl_plain(authid, password))
     \/ \E ds \in Challenges, s \in Separators, jid \in Jids :
          \E challenge \in {Coding(ChallengeText(ds, s)), Garbled} :
            /\ CanRespond(challenge, jid)
            /\ Calls("sasl_digest_md5",
                     [challenge |-> ds, garbled |-> challenge = Garbled, jid |-> jid],
                     sasl_digest_md5(challenge, jid, "password"))
     \/ \E node \in Stanzas, unit \in Units :
          Calls("xmpp_stanza_to_text", node, xmpp_stanza_to_text(node, unit))

-----------------------------------------------------------------------------
(* RFC 4648 by its bits.                                                   *)
Bits(values, width) ==
  [i \in 1 .. width * Len(values) |->
     (values[((i - 1) \div width) + 1] \div 2 ^ (width - 1 - ((i - 1) % width))) % 2]

Digits(bits, width) ==
  [i \in 1 .. Len(bits) \div width |->
     FoldLeft(LAMBDA v, b : 2 * v + b, 0, SubSeq(bits, width * (i - 1) + 1, width * i))]

Zeros(n) == [i \in 1 .. n |-> 0]

Rfc4648(bytes) ==
  LET bits == Bits(bytes, 8)
      code == Digits(bits \o Zeros((6 - (Len(bits) % 6)) % 6), 6)
  IN  code \o [i \in 1 .. (4 - (Len(code) % 4)) % 4 |-> PAD]

Data(t) == SelectSeq(t, LAMBDA c : c < PAD)
IsRfc4648(t) ==
  /\ t # <<>> /\ Len(t) % 4 = 0
  /\ Len(t) - Len(Data(t)) \in 0 .. 2
  /\ \A i \in 1 .. Len(t) : t[i] < PAD \/ (t[i] = PAD /\ i > Len(Data(t)))

(* The text ends with data, one pad or two.                                *)
EndsWell(t) ==
  \E pads \in 0 .. 2 :
    /\ pads < Len(t) /\ Coded(t[Len(t) - pads])
    /\ \A i \in Len(t) - pads + 1 .. Len(t) : t[i] = PAD

WholeAtFirst(t) == Len(t) >= 4 /\ \A i \in 1 .. 4 : Coded(t[i])

(* base64.c:40-191, xmpp-sasl.c:11-28: the encoding is the standard's for  *)
(* 7-bit texts, and for others just where the sign of a char changes       *)
(* nothing; decoding gives just those texts back.  A code of the standard  *)
(* is decoded to what it stands for, and a foreign character before the    *)
(* first '=' never to anything.  A text that ends with data, one pad or    *)
(* two is never written beyond the bytes allocated for it, whatever else   *)
(* is in it; another is just where its first quartet is whole.  PLAIN      *)
(* carries both names.                                                     *)
Base64Exact ==
  CASE call.fn = "base64_encode" ->
         /\ Len(call.out) = base64_encoded_len(Len(call.in))
         /\ call.out = Rfc4648(call.in) <=> SignIsHarmless(call.in)
         /\ base64_decode(call.out) = call.in <=> SignIsHarmless(call.in)
    [] call.fn = "base64_decode" ->
         /\ IsRfc4648(call.in) =>
              call.out = Digits(Bits(Data(call.in), 6), 8)
         /\ (Outside(call.in) # {} /\ call.in[FirstOutside(call.in)] = INVALID)
              => call.out \in {Nothing, Overrun}
         /\ EndsWell(call.in) => call.out # Overrun
         /\ ~EndsWell(call.in) /\ HIGH \notin ToSet(call.in) /\ Len(call.in) % 4 = 0
              => (call.out = Overrun <=> WholeAtFirst(call.in))
    [] call.fn = "sasl_plain" ->
         base64_decode(call.out) = <<0>> \o call.in[1] \o <<0>> \o call.in[2]
    [] OTHER -> TRUE

-----------------------------------------------------------------------------
(* What a server reads: fields between commas outside quotes, each a key   *)
(* and a value without its quotes.                                         *)
Fields(text) ==
  LET quotes(i) == Cardinality({k \in 1 .. i - 1 : text[k] = "\""})
      cuts == {i \in DOMAIN text : text[i] = "," /\ quotes(i) % 2 = 0}
      starts == {1} \cup {i + 1 : i \in cuts}
      end(s) == LET later == {i \in cuts : i >= s}
                IN  IF later = {} THEN Len(text) + 1
                    ELSE CHOOSE i \in later : \A k \in later : i <= k
      field(s) == LET eq == Find(text, s, {"="})
                  IN  [at |-> s, key |-> SubSeq(text, s, eq - 1),
                       value |-> SelectSeq(SubSeq(text, eq + 1, end(s) - 1),
                                           LAMBDA c : c # "\"")]
  IN  {field(s) : s \in starts}

(* The last value of a key in a list of directives; <<>> if none.          *)
LastValue(directives, key) ==
  LET of == SelectSeq(directives, LAMBDA d : d.key = key)
  IN  IF of = <<>> THEN <<>> ELSE of[Len(of)].value

(* xmpp-sasl.c:56-111, 123-295: whatever the order, the quotes and the     *)
(* repetitions in a challenge, a server finds each field of the answer     *)
(* once, its own nonce and realm among them (the domain where it gave no   *)
(* realm), and a response made of just the values that it reads; only a    *)
(* challenge that cannot be decoded is not answered.                       *)
ResponseRight ==
  call.fn = "sasl_digest_md5" =>
   IF call.in.garbled THEN call.out = Absent ELSE
    LET fields == Fields(call.out.text)
        read(key) == (CHOOSE f \in fields : f.key = <<key>>).value
        realm == LastValue(call.in.challenge, "realm")
        node == xmpp_jid_node(call.in.jid)
        domain == xmpp_jid_domain(call.in.jid)
    IN  /\ {f.key : f \in fields} =
             {<<"username">>, <<"realm">>, <<"nonce">>, <<"cnonce">>, <<"nc">>, <<"qop">>,
              <<"digest-uri">>, <<"response">>, <<"charset">>}
        /\ \A f, g \in fields : f.key = g.key => f = g
        /\ read("username") = node
        /\ read("nonce") = LastValue(call.in.challenge, "nonce")
        /\ read("realm") = IF realm = <<>> THEN domain ELSE realm
        /\ read("charset") = LastValue(call.in.challenge, "charset")
        /\ read("digest-uri") = <<"xmpp/">> \o domain
        /\ read("response") =
             DigestResponse(read("username"), read("realm"), "password", read("nonce"),
                            read("cnonce"), read("nc"), read("qop"), read("digest-uri"))

-----------------------------------------------------------------------------
(* The text that a reader of XML makes of characters and entities.         *)
Entities ==
  <<"&", "l", "t", ";">> :> "<" @@ <<"&", "g", "t", ";">> :> ">"
  @@ <<"&", "a", "m", "p", ";">> :> "&" @@ <<"&", "q", "u", "o", "t", ";">> :> "\""

RECURSIVE ReadBack(_)
ReadBack(text) ==
  LET entity == {e \in DOMAIN Entities : IsPrefix(e, text)}
      e == CHOOSE x \in entity : TRUE
  IN  IF text = <<>> THEN <<>>
      ELSE IF entity = {} THEN <<Head(text)>> \o ReadBack(Tail(text))
      ELSE <<Entities[e]>> \o ReadBack(SubSeq(text, Len(e) + 1, Len(text)))

(* Every text of a tree is free of marks and read as it was.               *)
RECURSIVE Escaped(_)
Escaped(node) ==
  LET readable(text) == /\ ReadBack(escape_xml(text)) = text
                        /\ "<" \notin ToSet(escape_xml(text))
  IN  /\ node.type = "text" => readable(node.data)
      /\ \A i \in DOMAIN node.attributes : readable(node.attributes[i].value)
      /\ \A i \in DOMAIN node.children : Escaped(node.children[i])

(* The tree as it is written, with the attributes that are left out gone.  *)
RECURSIVE Pruned(_, _)
Pruned(node, parents) ==
  [node EXCEPT !.attributes = SelectSeq(@, LAMBDA a : Shown(a, parents)),
               !.children = [i \in DOMAIN @ |-> Pruned(@[i], <<node>>)]]

RECURSIVE TextOf(_)
TextOf(node) ==
  LET attribute(a) == <<" ", a.key, "=", "'">> \o escape_xml(a.value) \o <<"'">>
      all(op(_), list) == FlattenSeq([i \in DOMAIN list |-> op(list[i])])
      head == <<"<", node.data[1]>> \o all(attribute, node.attributes)
      body == FlattenSeq([i \in DOMAIN node.children |-> TextOf(node.children[i])])
  IN  IF node.type = "text" THEN escape_xml(node.data)
      ELSE IF node.children = <<>> THEN head \o <<"/", ">">>
      ELSE head \o <<">">> \o body \o <<"<", "/", node.data[1], ">">>

(* The namespaces of a tree, below an element that is in namespace ns.     *)
RECURSIVE Namespaces(_, _)
Namespaces(node, ns) ==
  LET own == IF Xmlns(node) = <<>> THEN ns ELSE Xmlns(node)
  IN  <<own, [i \in DOMAIN node.children |-> Namespaces(node.children[i], own)]>>

(* xmpp-stanza.c:134-353: the text of a tree is whole, ends with a NUL and *)
(* has the length that is returned, whether it fits the first buffer, just *)
(* fits or is rendered again; inside the stream every element keeps its    *)
(* namespace although repeated ones are left out, and texts are read as    *)
(* they were (but for an apostrophe in an attribute); only a tree with a   *)
(* node without a name or a text has no text.                              *)
RenderExact ==
  call.fn = "xmpp_stanza_to_text" =>
    LET written == Pruned(call.in, <<>>)
        text == TextOf(written)
    IN  IF ~Renderable(call.in) THEN call.out.ret = "XMPP_EINVOP"
        ELSE /\ call.out.ret = "XMPP_EOK"
             /\ call.out.buflen = Len(text)
             /\ SubSeq(call.out.buf, 1, Len(text) + 1) = Append(text, Nul)
             /\ Namespaces(written, <<NsClient>>) = Namespaces(call.in, <<NsClient>>)
             /\ Escaped(call.in)
=============================================================================
