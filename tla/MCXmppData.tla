------------------------------ MODULE MCXmppData ------------------------------
(***************************************************************************)
(* The parts that share no state with the connection, checked together:    *)
(* the attributes of elements, the SRV lookup, the digest, and the         *)
(* functions that only compute.  Init picks the part that runs, the others *)
(* stand still.                                                            *)
(***************************************************************************)
EXTENDS XmppAttributes, XmppCodecs, SrvLookup, Md5

CONSTANTS k1, k2, k3, e1, e2, v1, v2

VARIABLE part

MCHashKey == k1 :> 0 @@ k2 :> 0 @@ k3 :> 1

Sequences(S, lengths) == UNION {[1 .. n -> S] : n \in lengths}

MCByteTexts == Sequences({0, 77, 127, 128, 255}, 2 .. 4) \cup Sequences({77, 128, 255}, {5, 6})
MCCodedTexts ==
  LET last == [1 .. 4 -> {17, 63, PAD, INVALID}]
      first == {<<0, 17, 63, 48>>, <<17, 63, PAD, PAD>>, <<17, 63, 0, INVALID>>}
      high == {<<HIGH, 17, PAD, PAD>>, <<17, 63, 0, HIGH>>, <<17, HIGH, HIGH, PAD>>}
  IN  {<<>>, <<17>>, <<17, 63>>, <<17, 63, 0>>} \cup last \cup high
      \cup {f \o l : f \in first, l \in last \cup high}
MCBeforeTable == {-1, 0, 63, PAD, INVALID}
MCNames == {<<97>>, <<97, 98>>, <<97, 98, 99>>}

MCChallenges ==
  LET directive(k, v, q) == [key |-> k, value |-> v, quote |-> q]
      all == {directive("realm", <<"r", ",", "s">>, "\""), directive("realm", <<>>, "\""),
              directive("nonce", <<"n", "=">>, "\""), directive("nonce", <<"o">>, "'"),
              directive("qop", <<"auth", ",", "auth-int">>, "\""),
              directive("charset", <<"utf-8">>, ""), directive("response", <<"x">>, "")}
  IN  Sequences(all, 1 .. 3)
MCSeparators == {<<",">>, <<",", " ">>}
MCJids == {<<"u", "@", "d">>, <<"u", "@", "d", "/", "r">>, <<"u", "@">>, <<"d">>}

MCStanzas ==
  LET text(d) == [type |-> "text", data |-> d, attributes |-> <<>>, children |-> <<>>]
      tag(as, c) == [type |-> "tag", data |-> <<"t">>, attributes |-> as, children |-> c]
      ns(n) == [key |-> "xmlns", value |-> <<n>>]
      lists == {<<>>, <<ns(NsClient)>>, <<ns("other")>>,
                <<[key |-> "k", value |-> <<"&", "v">>], [key |-> "n", value |-> <<>>], ns("other")>>}
      leaves == {text(<<"b">>), text(<<"<", "b", "\"">>), text(<<>>), text(NoData),
                 [type |-> "unknown", data |-> NoData, attributes |-> <<>>, children |-> <<>>]}
                \cup {tag(as, <<>>) : as \in lists}
      middle == {tag(as, <<c>>) : as \in lists, c \in leaves}
  IN  {tag(as, <<>>) : as \in lists}
      \cup {tag(as, c) : as \in lists, c \in Sequences(leaves, {1, 2})}
      \cup {tag(as, <<c, text(<<"b">>)>>) : as \in lists, c \in middle}
MCUnits == {1, 5, 12, 17, 24, 40}

MCService == <<95, 120>>
MCProto == <<95, 116>>
Label(n) == [p \in 1 .. n |-> 97]
MCDomains == {<<100>>, <<100, 46, 99>>, Label(63), Label(64)}
Host == <<104, 46, 100>>
MCRecords ==
  LET srv(t, p) == [type |-> SRV, target |-> t, port |-> p]
      cname == [type |-> 5, target |-> Host, port |-> 0]
  IN  {<<>>, <<cname>>, <<srv(Host, 5222)>>, <<cname, srv(Host, 5223)>>,
       <<srv(<<104>>, 255), cname>>, <<srv(Host, 256), srv(<<100>>, 65535), cname>>}

(* Blocks of 8 bytes: pieces that leave it empty, short, full, or over.    *)
MCPieces == {[p \in 1 .. n |-> (16 * n + p) % 256] : n \in {0, 1, 3, 4, 7, 8, 11, 17, 33}}

DataInit ==
  /\ part \in {"attributes", "codecs", "lookup", "digest"}
  /\ AttrInit /\ CodecInit /\ LookupInit /\ MD5Init
  /\ part # "lookup" => domain = <<100>>

DataNext ==
  /\ UNCHANGED part
  /\ \/ part = "attributes" /\ AttrNext /\ UNCHANGED <<codecVars, lookupVars, md5Vars>>
     \/ part = "codecs" /\ CodecNext /\ UNCHANGED <<attrVars, lookupVars, md5Vars>>
     \/ part = "lookup" /\ LookupNext /\ UNCHANGED <<attrVars, codecVars, md5Vars>>
     \/ part = "digest" /\ MD5Next /\ UNCHANGED <<attrVars, codecVars, lookupVars>>

DataSpec == DataInit /\ [][DataNext]_<<part, attrVars, codecVars, lookupVars, md5Vars>>
=============================================================================
