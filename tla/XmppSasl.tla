------------------------------- MODULE XmppSasl -------------------------------
(***************************************************************************)
(* The SASL mechanisms (src/src/xmpp-sasl.c) and the two parts of a JID    *)
(* they use (src/src/xmpp-jid.c).  A text is a sequence of words and of    *)
(* the characters that the code looks for, each a string.  The table of    *)
(* directives is a map, which is what XmppAttributes shows a hash table    *)
(* with a free function to be.  Messages are base64: the code of a text of *)
(* words is a record with that text, which is all that matters of it, as   *)
(* decoding gives the text back (CodecProofs!Base64RoundTrip).             *)
(***************************************************************************)
EXTENDS Base64, TLC
LOCAL INSTANCE Integers
LOCAL INSTANCE SequencesExt

(* NULL, as a text.                                                        *)
Absent == <<"(NULL)">>

(* The base64 code of a text, and one that base64_decode gives up on.      *)
Coding(text) == [text |-> text]
Garbled == Coding(Absent)

(* msg[0] and the byte after authid are NUL.                               *)
sasl_plain(authid, password) == base64_encode(<<0>> \o authid \o <<0>> \o password)

(* The first place in text, from s on, with one of chars; its end if there *)
(* is none, where C has the NUL.                                           *)
Find(text, s, chars) ==
  LET found == {i \in s .. Len(text) : text[i] \in chars}
  IN  IF found = {} THEN Len(text) + 1 ELSE CHOOSE i \in found : \A j \in found : i <= j

SkipOver(text, s, chars) ==
  LET others == {i \in s .. Len(text) : text[i] \notin chars}
  IN  IF others = {} THEN Len(text) + 1 ELSE CHOOSE i \in others : \A j \in others : i <= j

Before(text, i) == SubSeq(text, 1, i - 1)

xmpp_jid_node(jid) ==
  LET at == Find(jid, 1, {"@"})
  IN  IF at > Len(jid) THEN Absent ELSE Before(jid, at)

xmpp_jid_domain(jid) ==
  LET at == Find(jid, 1, {"@"})
      c == IF at > Len(jid) THEN 1 ELSE at + 1
  IN  SubSeq(jid, c, Find(jid, c, {"/"}) - 1)

-----------------------------------------------------------------------------
hash_add_directive(table, key, value) ==
  IF key = <<>> THEN table ELSE (key :> value) @@ table

\* Faulty variant: a value ends at the first comma, quoted or not.
ValueToComma(text, s) ==
  LET t == Find(text, s, {","})
  IN  [value |-> SelectSeq(SubSeq(text, s, t - 1), LAMBDA c : c \notin {"'", "\""}), next |-> t]

(* The value that starts at s, and where the next directive starts.        *)
ValueAt(text, s) ==
  IF s <= Len(text) /\ text[s] \in {"'", "\""}
  THEN LET t == Find(text, s + 1, {text[s]})
       IN  [value |-> SubSeq(text, s + 1, t - 1),
            next |-> IF t <= Len(text) THEN t + 1 ELSE t]
  ELSE LET t == Find(text, s, {","})
       IN  [value |-> SubSeq(text, s, t - 1), next |-> t]

(* The loop of _parse_digest_challenge, from s on.                         *)
RECURSIVE ParseFrom(_, _, _)
ParseFrom(text, s, table) ==
  LET k == SkipOver(text, s, {",", " "})
      t == Find(text, k, {"="})
      at == ValueAt(text, t + 1)
  IN  IF t > Len(text) THEN table
      ELSE ParseFrom(text, at.next, hash_add_directive(table, SubSeq(text, k, t - 1), at.value))

parse_digest_challenge(text) == ParseFrom(text, 1, <<>>)

-----------------------------------------------------------------------------
(* MD5, of which only matters that it tells its inputs apart.              *)
MD5(input) == ToString(input)

(* KD(HEX(MD5(A1)), ...) of the comment at line 183.                       *)
DigestResponse(node, realm, password, nonce, cnonce, nc, qop, uri) ==
  LET A1 == MD5(<<MD5(<<node, realm, password>>), nonce, cnonce>>)
      A2 == MD5(<<"AUTHENTICATE", uri>>)
  IN  <<MD5(<<A1, nonce, nc, cnonce, qop, A2>>)>>

(* One _add_key of the reply.                                              *)
add_key(table, key, quote) ==
  LET value == IF <<key>> \in DOMAIN table THEN table[<<key>>] ELSE <<>>
  IN  <<key, "=">> \o (IF quote THEN <<"\"">> \o value \o <<"\"">> ELSE value)

(* The server's realm, or the domain where it gives none.                  *)
Realm(table, domain) ==
  IF <<"realm">> \in DOMAIN table /\ table[<<"realm">>] # <<>>
  THEN table[<<"realm">>] ELSE domain

(* The code takes the lengths of a node, of a nonce and of a realm without *)
(* asking whether there is one; an empty domain copied as a realm is NULL. *)
CanRespond(challenge, jid) ==
  challenge # Garbled =>
    LET parsed == parse_digest_challenge(challenge.text)
    IN  /\ xmpp_jid_node(jid) # Absent
        /\ <<"nonce">> \in DOMAIN parsed
        /\ Realm(parsed, xmpp_jid_domain(jid)) # <<>>

(* The reply to a challenge that can be decoded.                           *)
DigestReply(challenge, jid, password) ==
  LET parsed == parse_digest_challenge(challenge)
      node == xmpp_jid_node(jid)
      domain == xmpp_jid_domain(jid)
      realm == Realm(parsed, domain)
      nonce == parsed[<<"nonce">>]
      uri == <<"xmpp/">> \o domain
      fields == (<<"realm">> :> realm) @@ (<<"username">> :> node)
                @@ (<<"cnonce">> :> <<"00DEADBEEF00">>) @@ (<<"nc">> :> <<"00000001">>)
                @@ (<<"qop">> :> <<"auth">>) @@ (<<"digest-uri">> :> uri)
                @@ (<<"response">> :> DigestResponse(node, realm, password, nonce,
                      <<"00DEADBEEF00">>, <<"00000001">>, <<"auth">>, uri))
                @@ parsed
      reply == <<add_key(fields, "username", TRUE), add_key(fields, "realm", TRUE),
                 add_key(fields, "nonce", TRUE), add_key(fields, "cnonce", TRUE),
                 add_key(fields, "nc", FALSE), add_key(fields, "qop", FALSE),
                 add_key(fields, "digest-uri", TRUE), add_key(fields, "response", FALSE),
                 add_key(fields, "charset", FALSE)>>
  IN  FlattenSeq([i \in DOMAIN reply |-> IF i = 1 THEN reply[i] ELSE <<",">> \o reply[i]])

sasl_digest_md5(challenge, jid, password) ==
  IF challenge = Garbled THEN Absent
  ELSE Coding(DigestReply(challenge.text, jid, password))
=============================================================================
