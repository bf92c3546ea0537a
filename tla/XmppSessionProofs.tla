------------------------- MODULE XmppSessionProofs -------------------------
(***************************************************************************)
(* Theorems about the first connection with a server that keeps to the     *)
(* protocol (XmppSession), for all offers: client and server agree on the  *)
(* layer of the stream, nothing undefined happens, and the events that the *)
(* application sees are those of ConnEvents.                               *)
(*                                                                         *)
(* The argument is that the two talk in turns.  While the server is open,  *)
(* one thing at most is under way: a request that the client wrote, its    *)
(* answer, or the answer being handled; and whatever it is, the handlers   *)
(* that are registered are those for it.                                   *)
(***************************************************************************)
EXTENDS XmppSession, XmppConnProofs

-----------------------------------------------------------------------------
(* The inductive invariant: the client alone.                               *)

\* The handlers that are no part of a conversation.
Idlers == {"stream_error"}

\* The login waits for one thing at a time.
AtMostOne == \A g, h \in Registered \ Idlers : g = h

\* The next element that the parser takes is the header of a stream.
HeaderDue == parser_reset \/ xml = "fresh"

ClientInv ==
  /\ "user" \notin Registered /\ AtMostOne
  /\ accepted => Registered \cap SaslHandlers = {}
  /\ HeaderDue \/ state = "CONNECTING" => Registered \subseteq Idlers /\ id_handlers = {}
  /\ bind_required => Registered \subseteq Idlers /\ ~HeaderDue /\ accepted
  /\ id_handlers # {} => bind_required
  /\ xml = "fresh" => ~parser_reset /\ state # "CONNECTING"
  /\ attempts = 0 => xml = "ended"
  /\ open_handler = "auth_handle_open_sasl" <=> accepted

\* A connection is closed once, and then no callback finds anything to do.
CloseInv ==
  /\ fault = "none" /\ stream_id # "freed"
  /\ attempts = 0 => notified = "none" /\ server = "closed" /\ inbox = <<>> /\ outbox = <<>>
  /\ state # "DISCONNECTED" => notified # "DISCONNECT"
  /\ phase # "idle" /\ state = "DISCONNECTED" =>
       xml = "ended" /\ inbox = <<>> /\ server = "closed"

-----------------------------------------------------------------------------
(* The queues.                                                              *)

Messages == {Header, Text, End_} \cup {Whole(s) : s \in Stanzas}

\* A header comes first and an end last.
Shape(q) == \A i \in DOMAIN q : (q[i] = Header => i = 1) /\ (q[i] = End_ => i = Len(q))

QueueInv ==
  /\ server \in Layers \cup {"closed"}
  /\ inbox \in Seq(Messages) /\ outbox \in Seq(Elements \ {"none"})
  /\ Shape(inbox)
  /\ End_ \in Range(inbox) => server = "closed"
  /\ inbox # <<>> /\ Head(inbox) = Header /\ state = "CONNECTED" => HeaderDue

-----------------------------------------------------------------------------
(* The conversation.                                                        *)

Requests == Range(outbox) \ {"close"}

OneRequest == \A i, j \in DOMAIN outbox : outbox[i] # "close" /\ outbox[j] # "close" => i = j

\* The stanza that was read is still to be handled.
Handling ==
  \/ phase = "ids" /\ (stanza.id \in id_handlers \/ ~(Registered \subseteq Idlers))
  \/ phase = "handlers" /\ ~(Range(todo) \subseteq Idlers)

Waits(h) == Registered \subseteq Idlers \cup {h}

WaitsForFeatures ==
  /\ id_handlers = {}
  /\ IF server = "authenticated" THEN Waits("features_sasl")
     ELSE server \in {"plain", "tls"} /\ Waits("features")

WaitsForHeader ==
  /\ HeaderDue \/ state = "DISCONNECTED"
  /\ Registered \subseteq Idlers /\ id_handlers = {}
  /\ server # "handshake"
  /\ open_handler = "auth_handle_open_sasl" <=> server = "authenticated"

WaitsForTls  == Waits("proceedtls") /\ id_handlers = {}
WaitsForSasl == (\E h \in SaslHandlers : Waits(h)) /\ id_handlers = {}

WaitsForReply(i) ==
  server = "authenticated" /\ Registered \subseteq Idlers /\ id_handlers \subseteq {i}

\* What the client waits for after it wrote r, on the layer that the server is on.
Asked(r) ==
  \/ r = "stream" /\ WaitsForHeader
  \/ r = "starttls" /\ server = "plain" /\ WaitsForTls
  \/ /\ r \in {"auth_plain", "auth_digest", "response", "empty_response"}
     /\ server \in {"plain", "tls"} /\ WaitsForSasl
  \/ r = "bind" /\ WaitsForReply(BindId)
  \/ r = "session" /\ WaitsForReply(SessionId)

FeaturesNow == {FeaturesOf(o) : o \in OffersAt(server)}

\* The client waits for s, and the server is on the layer that s leads to.
Fits(s) ==
  \/ WaitsForFeatures /\ s \in FeaturesNow
  \/ s = Element("proceed", "tls") /\ server = "handshake" /\ WaitsForTls
  \/ /\ s \in {Element(n, "sasl") : n \in {"challenge", "failure"}}
     /\ server \in {"plain", "tls"} /\ WaitsForSasl
  \/ s = Element("success", "sasl") /\ server = "authenticated" /\ WaitsForSasl
  \/ \E i \in Ids, t \in {"result", "error"} : s = Reply(i, t) /\ WaitsForReply(i)

Answered ==
  \/ WaitsForHeader /\ \E s \in FeaturesNow : inbox = <<Header, Whole(s)>>
  \/ \E s \in Stanzas : inbox = <<Whole(s)>> /\ Fits(s)

\* Nothing is under way, but for a keepalive.
AtRest == Requests = {} /\ ~Handling /\ inbox \in {<<>>, <<Text>>}

\* The connection comes up when neither has anything to say.
ComesUp == AtRest /\ inbox = <<>> /\ server = (IF evbuffer = "ssl" THEN "handshake" ELSE "plain")

TalkInv ==
  server # "closed" =>
    /\ OneRequest
    /\ \A r \in Requests : Asked(r)
    /\ Requests # {} => inbox = <<>> /\ ~Handling
    /\ inbox = <<>> \/ (inbox = <<Text>> /\ authenticated) \/ Answered
    /\ Handling => inbox = <<>> /\ Fits(stanza)
    /\ authenticated => AtRest
    /\ state = "CONNECTING" => ComesUp

SessionInv == attempts <= 1 => ClientInv /\ CloseInv /\ QueueInv /\ TalkInv

\* What is known of the connection whoever the server is.
Known == TypeOK /\ ListInv /\ BufferOwned /\ Basics /\ Stages

-----------------------------------------------------------------------------
(* Queues and what is put into them.                                        *)

\* The messages are different.
LEMMA MessagesDiffer ==
  /\ Header # Text /\ Header # End_ /\ Text # End_
  /\ \A s : Whole(s) # Header /\ Whole(s) # Text /\ Whole(s) # End_
  /\ \A s : Whole(s).stanza = s /\ Whole(s).event = "stanza"
  /\ Header.event = "header" /\ Text.event = "text" /\ End_.event = "end"
BY DEF Header, Text, End_, Whole

\* A message is taken from the queue.
LEMMA TailShape ==
  ASSUME NEW q \in Seq(Messages), q # <<>>, Shape(q)
  PROVE  /\ Tail(q) \in Seq(Messages) /\ Shape(Tail(q))
         /\ Header \notin Range(Tail(q))
         /\ Range(Tail(q)) \subseteq Range(q)
         /\ Head(q) \in Range(q) /\ Head(q) \in Messages
         /\ Head(q) = End_ => Tail(q) = <<>>
         /\ Tail(q) # <<>> => Head(Tail(q)) # Header
<1> DEFINE t == Tail(q)
<1>1. /\ DOMAIN q = 1 .. Len(q) /\ Len(q) \in Nat /\ Len(q) > 0 /\ Head(q) = q[1]
  BY LenProperties, EmptySeq
<1>2. /\ t \in Seq(Messages) /\ Len(t) = Len(q) - 1
      /\ \A i \in 1 .. Len(t) : t[i] = q[i + 1]
  BY HeadTailProperties
<1> HIDE DEF t
<1>3. DOMAIN t = 1 .. Len(t) /\ Len(t) \in Nat /\ (t = <<>> <=> Len(t) = 0)
      /\ (t # <<>> => Head(t) = t[1])
  BY <1>2, LenProperties, EmptySeq
<1>4. \A i \in 1 .. Len(t) : i + 1 \in DOMAIN q /\ t[i] = q[i + 1]
  BY <1>1, <1>2, <1>3
<1>5. Shape(t)
  <2>1. ASSUME NEW i \in DOMAIN t PROVE (t[i] = Header => i = 1) /\ (t[i] = End_ => i = Len(t))
    <3>1. i + 1 \in DOMAIN q /\ t[i] = q[i + 1] /\ i \in Nat /\ i >= 1
      BY <1>3, <1>4, <2>1
    <3>2. (q[i + 1] = Header => i + 1 = 1) /\ (q[i + 1] = End_ => i + 1 = Len(q))
      BY <3>1 DEF Shape
    <3> QED BY <1>1, <1>2, <1>3, <3>1, <3>2
  <2> QED BY <2>1 DEF Shape
<1>6. \A i \in 1 .. Len(t) : t[i] # Header
  BY <1>1, <1>2, <1>3, <1>4 DEF Shape
<1>7. Header \notin Range(t) /\ Range(t) \subseteq Range(q)
  BY <1>3, <1>4, <1>6 DEF Range
<1>8. Head(q) \in Range(q) /\ q[1] \in Messages
  BY <1>1 DEF Range
<1>9. Head(q) = End_ => t = <<>>
  BY <1>1, <1>2, <1>3 DEF Shape
<1>10. t # <<>> => Head(t) # Header
  BY <1>2, <1>3, <1>6
<1>11. /\ t \in Seq(Messages) /\ Head(q) \in Range(q) /\ Head(q) \in Messages
       /\ Shape(t) /\ Header \notin Range(t) /\ Range(t) \subseteq Range(q)
       /\ Head(q) = End_ => t = <<>>
       /\ t # <<>> => Head(t) # Header
  <2>1. Head(q) = q[1] /\ t \in Seq(Messages)
    BY ONLY <1>1, <1>2
  <2> QED BY ONLY <2>1, <1>5, <1>7, <1>8, <1>9, <1>10
<1> QED BY ONLY <1>11, Zenon DEF t

\* Messages are put at the end.
LEMMA ConcatShape ==
  ASSUME NEW p \in Seq(Messages), NEW x \in Seq(Messages), Shape(p), Shape(x),
         End_ \notin Range(p), p = <<>> \/ Header \notin Range(x)
  PROVE  /\ p \o x \in Seq(Messages) /\ Shape(p \o x)
         /\ p # <<>> => p \o x # <<>> /\ Head(p \o x) = Head(p)
         /\ p = <<>> => p \o x = x
<1>1. /\ DOMAIN p = 1 .. Len(p) /\ Len(p) \in Nat /\ DOMAIN x = 1 .. Len(x) /\ Len(x) \in Nat
      /\ p # <<>> => Len(p) > 0 /\ Head(p) = p[1]
      /\ p = <<>> => Len(p) = 0
  BY LenProperties, EmptySeq
<1> DEFINE q == p \o x
<1>2. /\ q \in Seq(Messages) /\ Len(q) = Len(p) + Len(x)
      /\ \A i \in 1 .. Len(p) + Len(x) : q[i] = IF i <= Len(p) THEN p[i] ELSE x[i - Len(p)]
  BY ConcatProperties
<1>3. DOMAIN q = 1 .. Len(q) /\ (q = <<>> => Len(q) = 0) /\ (q # <<>> => Head(q) = q[1])
  BY <1>2, LenProperties, EmptySeq
<1>4. p = <<>> => q = x
  BY ConcatEmptySeq
<1> HIDE DEF q
<1>5. ASSUME NEW i \in DOMAIN q PROVE (q[i] = Header => i = 1) /\ (q[i] = End_ => i = Len(q))
  <2>1. CASE i <= Len(p)
    <3>1. i \in DOMAIN p /\ q[i] = p[i]
      BY <1>1, <1>2, <1>3, <2>1
    <3> QED BY <3>1 DEF Shape, Range
  <2>2. CASE i > Len(p)
    <3>1. i - Len(p) \in DOMAIN x /\ q[i] = x[i - Len(p)] /\ i \in Nat
      BY <1>1, <1>2, <1>3, <2>2
    <3>2. q[i] = Header => i - Len(p) = 1 /\ p = <<>>
      BY <3>1 DEF Shape, Range
    <3>3. q[i] = End_ => i - Len(p) = Len(x)
      BY <3>1 DEF Shape
    <3> QED BY <1>1, <1>2, <3>1, <3>2, <3>3
  <2> QED BY <1>1, <1>2, <1>3, <2>1, <2>2
<1>6. p # <<>> => q # <<>> /\ q[1] = p[1]
  BY <1>1, <1>2, <1>3
<1> QED BY <1>1, <1>2, <1>3, <1>4, <1>5, <1>6 DEF Shape, q

\* Short queues.
LEMMA ShortQueues ==
  ASSUME NEW a \in Messages
  PROVE  /\ <<a>> \in Seq(Messages) /\ Range(<<a>>) = {a} /\ Shape(<<a>>)
         /\ <<a>> # <<>> /\ Head(<<a>>) = a /\ Tail(<<a>>) = <<>>
         /\ \A b \in Messages : a # End_ /\ b # Header =>
              /\ <<a, b>> \in Seq(Messages) /\ Range(<<a, b>>) = {a, b} /\ Shape(<<a, b>>)
              /\ <<a, b>> # <<>> /\ Head(<<a, b>>) = a /\ Tail(<<a, b>>) = <<b>>
         /\ \A b, c \in Messages : a # End_ /\ b # Header /\ b # End_ /\ c # Header =>
              /\ <<a, b, c>> \in Seq(Messages) /\ Range(<<a, b, c>>) = {a, b, c}
              /\ Shape(<<a, b, c>>)
              /\ <<a, b, c>> # <<>> /\ Head(<<a, b, c>>) = a
<1>1. /\ <<a>> \in Seq(Messages) /\ Len(<<a>>) = 1 /\ DOMAIN <<a>> = {1} /\ <<a>>[1] = a
      /\ <<a>> # <<>> /\ Head(<<a>>) = a /\ Tail(<<a>>) = <<>>
  OBVIOUS
<1>2. ASSUME NEW b \in Messages
      PROVE  /\ <<a, b>> \in Seq(Messages) /\ Len(<<a, b>>) = 2 /\ DOMAIN <<a, b>> = {1, 2}
             /\ <<a, b>>[1] = a /\ <<a, b>>[2] = b
             /\ <<a, b>> # <<>> /\ Head(<<a, b>>) = a /\ Tail(<<a, b>>) = <<b>>
  OBVIOUS
<1>3. ASSUME NEW b \in Messages, NEW c \in Messages
      PROVE  /\ <<a, b, c>> \in Seq(Messages) /\ Len(<<a, b, c>>) = 3
             /\ DOMAIN <<a, b, c>> = {1, 2, 3}
             /\ <<a, b, c>>[1] = a /\ <<a, b, c>>[2] = b /\ <<a, b, c>>[3] = c
             /\ <<a, b, c>> # <<>> /\ Head(<<a, b, c>>) = a
  OBVIOUS
<1>4. Range(<<a>>) = {a} /\ Shape(<<a>>)
  BY <1>1 DEF Range, Shape
<1>5. ASSUME NEW b \in Messages, a # End_, b # Header
      PROVE  Range(<<a, b>>) = {a, b} /\ Shape(<<a, b>>)
  <2> DEFINE q == <<a, b>>
  <2>1. DOMAIN q = {1, 2} /\ Len(q) = 2 /\ q[1] = a /\ q[2] = b
    BY <1>2
  <2> HIDE DEF q
  <2>2. Range(q) = {a, b} /\ Shape(q)
    BY <1>5, <2>1 DEF Range, Shape
  <2> QED BY <2>2 DEF q
<1>6. ASSUME NEW b \in Messages, NEW c \in Messages, a # End_, b # Header, b # End_, c # Header
      PROVE  Range(<<a, b, c>>) = {a, b, c} /\ Shape(<<a, b, c>>)
  <2> DEFINE q == <<a, b, c>>
  <2>1. DOMAIN q = {1, 2, 3} /\ Len(q) = 3 /\ q[1] = a /\ q[2] = b /\ q[3] = c
    BY <1>3
  <2> HIDE DEF q
  <2>2. Range(q) = {a, b, c} /\ Shape(q)
    BY <1>6, <2>1 DEF Range, Shape
  <2> QED BY <2>2 DEF q
<1> QED BY <1>1, <1>2, <1>3, <1>4, <1>5, <1>6

\* One element is put into, or taken from, the queue to the server.
LEMMA OutboxMoves ==
  ASSUME NEW S, NEW q \in Seq(S), NEW e \in S
  PROVE  /\ Append(q, e) \in Seq(S)
         /\ Range(Append(q, e)) = Range(q) \cup {e}
         /\ DOMAIN Append(q, e) = DOMAIN q \cup {Len(q) + 1}
         /\ Len(q) + 1 \notin DOMAIN q
         /\ \A i \in DOMAIN q : Append(q, e)[i] = q[i]
         /\ Append(q, e)[Len(q) + 1] = e
<1>1. /\ DOMAIN q = 1 .. Len(q) /\ Len(q) \in Nat
      /\ Append(q, e) \in Seq(S) /\ Len(Append(q, e)) = Len(q) + 1
      /\ \A i \in 1 .. Len(q) : Append(q, e)[i] = q[i]
      /\ Append(q, e)[Len(q) + 1] = e
  BY LenProperties, AppendProperties
<1>2. DOMAIN Append(q, e) = 1 .. Len(q) + 1
  BY <1>1, LenProperties
<1> QED BY <1>1, <1>2 DEF Range

\* The first element is taken from the queue.
LEMMA OutboxTail ==
  ASSUME NEW S, NEW q \in Seq(S), q # <<>>
  PROVE  /\ Tail(q) \in Seq(S) /\ Head(q) \in S /\ 1 \in DOMAIN q /\ Head(q) = q[1]
         /\ Head(q) \in Range(q)
         /\ \A i \in DOMAIN Tail(q) : i \in Nat /\ i + 1 \in DOMAIN q /\ Tail(q)[i] = q[i + 1]
                                        /\ i + 1 # 1
         /\ Range(Tail(q)) \subseteq Range(q)
<1>1. /\ DOMAIN q = 1 .. Len(q) /\ Len(q) \in Nat /\ Len(q) > 0 /\ Head(q) = q[1]
  BY LenProperties, EmptySeq
<1>2. /\ Tail(q) \in Seq(S) /\ Len(Tail(q)) = Len(q) - 1
      /\ \A i \in 1 .. Len(Tail(q)) : Tail(q)[i] = q[i + 1]
  BY HeadTailProperties
<1>3. DOMAIN Tail(q) = 1 .. Len(Tail(q))
  BY <1>2, LenProperties
<1>4. \A i \in DOMAIN Tail(q) : i \in Nat /\ i + 1 \in DOMAIN q /\ Tail(q)[i] = q[i + 1]
                                  /\ i + 1 # 1
  BY <1>1, <1>2, <1>3
<1>5. q[1] \in S /\ 1 \in DOMAIN q
  BY <1>1
<1> QED BY <1>1, <1>2, <1>4, <1>5 DEF Range

-----------------------------------------------------------------------------
(* A session is a connection.                                               *)

\* What the server may say to an element, as the alternatives of Answers.
LEMMA AnswerForms ==
  ASSUME NEW e \in Elements \ {"none"}, NEW layer, NEW a \in Answers(e, layer)
  PROVE  \/ layer = "handshake" /\ a = <<<<>>, "closed">>
         \/ /\ layer # "handshake" /\ e = "stream"
            /\ \E o \in OffersAt(layer) : a = <<<<Header, Whole(FeaturesOf(o))>>, layer>>
         \/ /\ layer # "handshake" /\ e = "starttls"
            /\ \/ a = <<<<Tls("proceed")>>, "handshake">>
               \/ a = <<<<Tls("failure"), End_>>, "closed">>
         \/ /\ layer # "handshake" 
            /\ e \in {"auth_plain", "auth_digest", "response", "empty_response"}
            /\ \/ a = <<<<Sasl("success")>>, "authenticated">>
               \/ a = <<<<Sasl("failure")>>, layer>>
               \/ a = <<<<Sasl("challenge")>>, layer>>
         \/ /\ layer # "handshake" /\ e = "bind"
            /\ \E t \in {"result", "error"} : a = <<<<Whole(Reply(BindId, t))>>, layer>>
         \/ /\ layer # "handshake" /\ e = "session"
            /\ \E t \in {"result", "error"} : a = <<<<Whole(Reply(SessionId, t))>>, layer>>
         \/ /\ layer # "handshake" /\ e = "close" /\ a = <<<<End_>>, "closed">>
<1>1. CASE layer = "handshake"
  BY <1>1 DEF Answers
<1>2. CASE layer # "handshake" /\ e = "stream"
  BY <1>2 DEF Answers
<1>3. CASE layer # "handshake" /\ e = "starttls"
  BY <1>3 DEF Answers
<1>4. CASE /\ layer # "handshake"
           /\ e \in {"auth_plain", "auth_digest", "response", "empty_response"}
  BY <1>4 DEF Answers
<1>5. CASE layer # "handshake" /\ e = "bind"
  BY <1>5 DEF Answers
<1>6. CASE layer # "handshake" /\ e = "session"
  BY <1>6 DEF Answers
<1>7. CASE layer # "handshake" /\ e = "close"
  BY <1>7 DEF Answers
<1> QED BY <1>1, <1>2, <1>3, <1>4, <1>5, <1>6, <1>7 DEF Elements

\* What the server says are messages.
LEMMA StanzaTypes ==
  /\ Header \in Messages /\ Text \in Messages /\ End_ \in Messages
  /\ \A s \in Stanzas : Whole(s) \in Messages
  /\ \A layer : \A o \in OffersAt(layer) : FeaturesOf(o) \in Stanzas
  /\ Element("error", "streams") \in Stanzas
  /\ \A n \in {"proceed", "failure"} : Element(n, "tls") \in Stanzas
  /\ \A n \in {"success", "failure", "challenge"} : Element(n, "sasl") \in Stanzas
  /\ \A i \in Ids, t \in {"result", "error"} : Reply(i, t) \in Stanzas
  /\ \A n \in {"proceed", "failure"} : Tls(n) \in Messages
  /\ \A n \in {"success", "failure", "challenge"} : Sasl(n) \in Messages
<1>1. \A layer : \A o \in OffersAt(layer) : FeaturesOf(o) \in Stanzas
  BY DEF OffersAt, Stanzas
<1>2. /\ Element("error", "streams") \in Stanzas
      /\ \A n \in {"proceed", "failure"} : Element(n, "tls") \in Stanzas
      /\ \A n \in {"success", "failure", "challenge"} : Element(n, "sasl") \in Stanzas
      /\ \A i \in Ids, t \in {"result", "error"} : Reply(i, t) \in Stanzas
  BY DEF Stanzas
<1>3. \A s \in Stanzas : Whole(s) \in Messages
  BY DEF Messages
<1> QED BY <1>1, <1>2, <1>3 DEF Messages, Tls, Sasl

\* What a step leaves or puts into the queue to the server.
Written(e) == outbox' = outbox \/ (server # "closed" /\ outbox' = Append(outbox, e))

\* An element that is written is put into the queue.
LEMMA WroteWritten ==
  ASSUME NEW e, Wrote, sent' \in {sent, e}
  PROVE  Written(e)
BY DEF Wrote, Written

\* The types that a session needs to be a connection.
QueueTypes ==
  /\ sent \in Elements
  /\ inbox \in Seq(Messages)
  /\ outbox \in Seq(Elements \ {"none"})

\* The server names the condition of each error and sends whole challenges, so no handler
\* misses anything.
LEMMA NeverNull == ~NullDereference
BY BothConform DEF NullDereference

\* Callbacks write one element, or none.
LEMMA CallbackWrites == Callback => \E e \in Elements \ {"none"} : sent' \in {sent, e}
<1> DEFINE Writes == \E e \in Elements \ {"none"} : sent' \in {sent, e}
<1>1. \A e \in Elements \ {"none"} : LinkStep(e) => Writes
  BY DEF LinkStep
<1>2. {"close", "starttls", "auth_plain", "auth_digest", "stream", "response",
       "empty_response", "bind", "session"} \subseteq Elements \ {"none"}
  BY DEF Elements
<1>3. sent' = sent => Writes
  BY <1>2
<1> HIDE DEF Writes
<1> SUFFICES ASSUME Callback PROVE Writes
  BY DEF Writes
<1>4. \A h, tls, mechs, past : do_auth(h, tls, mechs, past) => Writes
  BY <1>1, <1>2, LinkSteps DEF do_auth
<1>5. \A h : handle_sasl_result(h) => Writes
  BY <1>1, <1>2, <1>4, LinkSteps DEF handle_sasl_result, SaslFailure, SaslSuccess, SaslUnexpected
<1>6. conn_start_ssl => Writes
  BY <1>1, <1>2, <1>3, LinkSteps DEF conn_start_ssl, link
<1>7. CASE handle_features \/ handle_proceedtls
  BY <1>3, <1>4, <1>6, <1>7 DEF handle_features, handle_proceedtls, link
<1>8. CASE HandleSaslResult \/ HandleChallengeResult \/ HandleRspauthResult
  BY <1>5, <1>8 DEF HandleSaslResult, HandleChallengeResult, HandleRspauthResult
<1>9. CASE \/ ReadDone \/ EnableHandlers \/ SkipHandler \/ handle_stream_error
           \/ \E again \in BOOLEAN : handle_user(again)
  BY <1>3, <1>9, NeverNull DEF ReadDone, EnableHandlers, SkipHandler, handle_stream_error, handle_user, link
<1>10. CASE \/ HandleChallenge \/ HandleRspauth \/ handle_features_sasl \/ handle_bind
            \/ handle_session
  BY <1>1, <1>2, <1>3, <1>10, LinkSteps, NeverNull DEF HandleChallenge, HandleRspauth, handle_features_sasl,
     handle_bind, handle_session, LoggedIn
<1> QED BY <1>7, <1>8, <1>9, <1>10 DEF Callback

\* Answers are sequences of messages.
LEMMA AnswerTypes ==
  ASSUME NEW e \in Elements \ {"none"}, NEW layer, NEW a \in Answers(e, layer)
  PROVE  a[1] \in Seq(Messages)
<1>1. \A m, n \in Messages : <<>> \in Seq(Messages) /\ <<m>> \in Seq(Messages)
                              /\ <<m, n>> \in Seq(Messages)
  OBVIOUS
<1>2. BindId \in Ids /\ SessionId \in Ids
  BY DEF Ids
<1>3. ASSUME NEW q, NEW y, a = <<q, y>>, q \in Seq(Messages) PROVE a[1] \in Seq(Messages)
  BY <1>3
<1>4. Header \in Messages /\ End_ \in Messages
  BY StanzaTypes
<1>5. CASE a = <<<<>>, "closed">>
  BY <1>1, <1>3, <1>4, <1>5
<1>6. ASSUME NEW o \in OffersAt(layer), a = <<<<Header, Whole(FeaturesOf(o))>>, layer>>
      PROVE  a[1] \in Seq(Messages)
  <2>1. Whole(FeaturesOf(o)) \in Messages
    BY StanzaTypes
  <2> QED BY <1>1, <1>3, <1>4, <1>6, <2>1
<1>7. ASSUME NEW m \in Messages, NEW y, a = <<<<m>>, y>> \/ a = <<<<m, End_>>, y>>
      PROVE  a[1] \in Seq(Messages)
  BY <1>1, <1>3, <1>4, <1>7
<1>8. /\ Tls("proceed") \in Messages /\ Tls("failure") \in Messages
      /\ Sasl("success") \in Messages /\ Sasl("failure") \in Messages
      /\ Sasl("challenge") \in Messages
      /\ \A t \in {"result", "error"} : /\ Whole(Reply(BindId, t)) \in Messages
                                        /\ Whole(Reply(SessionId, t)) \in Messages
  BY <1>2, StanzaTypes
<1> HIDE DEF BindId, SessionId
<1> QED BY <1>4, <1>5, <1>6, <1>7, <1>8, AnswerForms

\* The server says messages, the client elements.
LEMMA QueueTypesHold == SessionInit /\ [][SessionNext]_all => []QueueTypes
<1>1. SessionInit => QueueTypes
  <2>1. <<>> \in Seq(Messages) /\ <<>> \in Seq(Elements \ {"none"})
    BY EmptySeq
  <2> QED BY <2>1 DEF SessionInit, Init, QueueTypes, Elements
<1>2. QueueTypes /\ [SessionNext]_all => QueueTypes'
  <2> SUFFICES ASSUME QueueTypes, [SessionNext]_all PROVE QueueTypes'
    OBVIOUS
  <2>1. ASSUME NEW e \in Elements \ {"none"}, sent' \in {sent, e}, Wrote
        PROVE  sent' \in Elements /\ outbox' \in Seq(Elements \ {"none"})
    <3>1. Written(e)
      BY <2>1, WroteWritten
    <3>2. Append(outbox, e) \in Seq(Elements \ {"none"})
      BY <2>1, OutboxMoves DEF QueueTypes
    <3> QED BY <2>1, <3>1, <3>2 DEF Written, QueueTypes
  <2>2. {"close", "stream"} \subseteq Elements \ {"none"}
    BY DEF Elements
  <2>3. outbox # <<>> => /\ Tail(outbox) \in Seq(Elements \ {"none"})
                         /\ Head(outbox) \in Elements \ {"none"}
    BY OutboxTail DEF QueueTypes
  <2>4. inbox # <<>> => Tail(inbox) \in Seq(Messages)
    BY HeadTailProperties DEF QueueTypes
  <2>5. ASSUME NEW x \in Seq(Messages) PROVE inbox \o x \in Seq(Messages)
    BY <2>5, ConcatProperties DEF QueueTypes
  <2>6. CASE UNCHANGED all
    BY <2>6 DEF all, vars, link, network, QueueTypes
  <2>7. CASE SessionConnect \/ SessionDown
    <3>1. <<>> \in Seq(Messages) /\ <<>> \in Seq(Elements \ {"none"})
      BY EmptySeq
    <3>2. sent' \in Elements
      BY <2>7 DEF SessionConnect, SessionDown, xmpp_connect_client, EvbClosed,
         conn_do_disconnect, Close, Elements, QueueTypes
    <3> QED BY <2>7, <3>1, <3>2 DEF SessionConnect, SessionDown, QueueTypes
  <2>8. CASE SessionDisableTls \/ SessionRead
    BY <2>8 DEF SessionDisableTls, SessionRead, xmpp_conn_disable_tls, evb_read_cb, link, network,
       QueueTypes
  <2>9. CASE SessionDisconnect \/ SessionUp
    <3>1. sent' \in {sent, "close"} \/ sent' \in {sent, "stream"}
      BY <2>9, LinkSteps DEF SessionDisconnect, SessionUp, AppDisconnect, EvbConnected, LinkStep
    <3> QED BY <2>1, <2>2, <2>9, <3>1 DEF SessionDisconnect, SessionUp, QueueTypes
  <2>10. CASE SessionCallback
    BY <2>1, <2>10, CallbackWrites DEF SessionCallback, QueueTypes
  <2>11. CASE SessionParse
    <3>1. sent' \in {sent, "close"}
      BY <2>11, LinkSteps DEF SessionParse, HandleStreamStart, TextOutsideStanza,
         handle_stream_end, FireStanza, ReadError, link, LinkStep
    <3> QED BY <2>1, <2>2, <2>4, <2>11, <3>1 DEF SessionParse, QueueTypes
  <2>12. CASE ServerAnswers
    <3>1. PICK a \in Answers(Head(outbox), server) : inbox' = inbox \o a[1]
      BY <2>12 DEF ServerAnswers
    <3>2. a[1] \in Seq(Messages)
      <4>1. Head(outbox) \in Elements \ {"none"}
        BY <2>3, <2>12 DEF ServerAnswers
      <4> QED BY <4>1, AnswerTypes
    <3> QED BY <2>3, <2>5, <2>12, <3>1, <3>2 DEF ServerAnswers, vars, link, QueueTypes
  <2>13. CASE ServerRefuses
    <3>1. /\ Whole(Element("error", "streams")) \in Messages /\ End_ \in Messages
          /\ Header \in Messages
      BY StanzaTypes
    <3>2. StreamError \in Seq(Messages) /\ <<Header>> \in Seq(Messages) /\ <<>> \in Seq(Messages)
      BY <3>1 DEF StreamError
    <3>3. inbox' \in Seq(Messages)
      BY <2>5, <2>13, <3>2, ConcatProperties DEF ServerRefuses
    <3> QED BY <2>3, <2>13, <3>3 DEF ServerRefuses, vars, link, QueueTypes
  <2>14. CASE ServerEnds \/ ServerKeepsAlive
    <3>1. /\ Whole(Element("error", "streams")) \in Messages /\ End_ \in Messages
          /\ Text \in Messages
      BY StanzaTypes
    <3>2. StreamError \in Seq(Messages) /\ <<Text>> \in Seq(Messages)
      BY <3>1 DEF StreamError
    <3>3. inbox' \in Seq(Messages)
      BY <2>5, <2>14, <3>2 DEF ServerEnds, ServerKeepsAlive
    <3> QED BY <2>14, <3>3 DEF ServerEnds, ServerKeepsAlive, vars, link, QueueTypes
  <2> QED BY <2>6, <2>7, <2>8, <2>9, <2>10, <2>11, <2>12, <2>13, <2>14 DEF SessionNext, Server
<1> QED BY <1>1, <1>2, PTL

\* Each step of a session is one of the connection, or leaves it alone.
LEMMA SessionStepIsConnStep == QueueTypes /\ [SessionNext]_all => [Next]_vars
<1> SUFFICES ASSUME QueueTypes, [SessionNext]_all PROVE [Next]_vars
  OBVIOUS
<1>1. CASE UNCHANGED all
  BY <1>1 DEF all
<1>2. CASE Server
  BY <1>2 DEF Server, ServerAnswers, ServerRefuses, ServerEnds, ServerKeepsAlive
<1>3. CASE SessionParse
  <2>1. inbox # <<>> => Head(inbox) \in Messages
    BY HeadTailProperties DEF QueueTypes
  <2>2. inbox # <<>> /\ Head(inbox).event = "stanza" => Head(inbox).stanza \in Stanzas
    BY <2>1, MessagesDiffer DEF Messages
  <2>3. Document
    BY <1>3, <2>2 DEF SessionParse, Document
  <2> QED BY <2>3 DEF Next
<1> QED BY <1>1, <1>2, <1>3 DEF SessionNext, SessionConnect, SessionDisconnect, SessionDisableTls,
           SessionCallback, SessionUp, SessionDown, SessionRead, Next, Application, Event

\* What is proved of a connection holds of one with this server.
LEMMA SessionIsConn == SessionSpec => Spec
<1>1. SessionInit => Init
  BY DEF SessionInit
<1> QED BY <1>1, QueueTypesHold, SessionStepIsConnStep, PTL DEF SessionSpec, Spec

-----------------------------------------------------------------------------
(* The client's steps.                                                      *)

\* What a step does to the link when no write fails.
Stays(e) == UNCHANGED <<state, evbuffer, notified, fault>> /\ sent' \in {sent, e}

\* Sending and disconnecting are such steps.
LEMMA NoFailure ==
  ASSUME ~LibeventFails
  PROVE  /\ \A e : xmpp_send(e) => Stays(e)
         /\ xmpp_disconnect => Stays("close")
         /\ \A e : UNCHANGED link => Stays(e)
BY DEF xmpp_send, xmpp_disconnect, Write, Close, link, Stays

\* Closing a connection that is not closed.
Closed == state' = "DISCONNECTED" /\ fault' = fault /\ notified' = "DISCONNECT" /\ sent' = sent

\* The bufferevent is freed once.
LEMMA ClosesOnce ==
  ASSUME BufferOwned, state # "DISCONNECTED", conn_do_disconnect
  PROVE  Closed
BY DEF BufferOwned, conn_do_disconnect, Close, Closed

\* A handler of the login is called: it is the only one, and once it has ended nothing of
\* the stanza is left to be handled.
LEMMA HandlerCalled ==
  ASSUME Known, ClientInv, NEW h, Calls(h), h \notin Idlers
  PROVE  /\ h \in Registered /\ Registered \subseteq Idlers \cup {h}
         /\ phase = "handlers" /\ xml = "open" /\ ~parser_reset /\ state # "CONNECTING"
         /\ id_handlers = {} /\ ~bind_required /\ attempts # 0
         /\ Handling
         /\ Advance => ~Handling'
         /\ End(h, handlers) => Registered' \subseteq Idlers /\ ~Handling'
         /\ \A g \in Handlers : End(h, Added(g)) => Registered' \subseteq Idlers \cup {g}
                                                      /\ ~Handling'
<1>1. /\ h \in Registered
      /\ End(h, handlers) => Registered' \subseteq Registered \ {h}
      /\ \A g \in Handlers :
           End(h, Added(g)) => Registered' \subseteq (Registered \cup {g}) \ {h}
  BY CallEnds DEF Known
<1>2. Registered \subseteq Idlers \cup {h}
  BY <1>1 DEF ClientInv, AtMostOne
<1>3. /\ phase = "handlers" /\ xml = "open" /\ ~parser_reset /\ state # "CONNECTING"
      /\ id_handlers = {} /\ ~bind_required /\ attempts # 0
  BY <1>1 DEF Calls, Known, Basics, ClientInv, HeaderDue
<1>4. /\ todo \in Seq(Handlers) /\ todo # <<>> /\ IsInjective(todo)
      /\ Range(todo) \subseteq Registered /\ Head(todo) = h
  BY DEF Known, ListInv, DispatchSafe, Calls, Registered
<1>5. Range(Tail(todo)) \subseteq Range(todo) \ {h} /\ h \in Range(todo)
  BY <1>4, TailKeeps
<1>6. Handling
  BY <1>3, <1>5 DEF Handling
<1>7. Advance => ~Handling'
  BY <1>2, <1>4, <1>5 DEF Advance, Handling
<1> QED BY <1>1, <1>2, <1>3, <1>6, <1>7 DEF End

\* Nothing is added to what the client waits for.
LEMMA ClientKept ==
  ASSUME ClientInv, UNCHANGED <<accepted, bind_required, open_handler, parser_reset, attempts>>,
         Registered' \subseteq Registered, id_handlers' = id_handlers,
         state' \in {state, "DISCONNECTED"}, xml' \in {xml, "ended"}
  PROVE  ClientInv'
BY DEF ClientInv, AtMostOne, HeaderDue

\* A handler has ended, perhaps in favour of another one.
LEMMA ClientWaits ==
  ASSUME ClientInv, NEW g, g # "user", accepted => g \notin SaslHandlers,
         ~HeaderDue, ~bind_required, Registered' \subseteq Idlers \cup {g},
         UNCHANGED <<accepted, bind_required, open_handler, parser_reset, xml, attempts,
                     id_handlers>>,
         state' \in {state, "DISCONNECTED"}, state # "CONNECTING"
  PROVE  ClientInv'
BY DEF ClientInv, AtMostOne, HeaderDue, Idlers, SaslHandlers

\* The stage of the login in which a handler is.
LEMMA StageOf ==
  ASSUME Known, ClientInv, NEW h \in Registered
  PROVE  /\ h = "features_sasl" => accepted
         /\ h \in SaslHandlers => Authenticating /\ ~accepted
         /\ h \in {"features", "proceedtls"} => Opening /\ ~accepted
<1>1. /\ h = "features_sasl" => accepted
      /\ h \in SaslHandlers => Authenticating \/ Accepted
      /\ h \in {"features", "proceedtls"} => Opening
  BY DEF Known, Stages, Opening, Authenticating, Accepted, OwnHandlers, SaslHandlers
<1>2. h \in SaslHandlers => ~accepted
  BY DEF ClientInv
<1> QED BY <1>1, <1>2 DEF Accepted, Opening

\* The application, the loop and the timers.
LEMMA ClientOutside ==
  ASSUME Known, ClientInv, attempts' <= 1,
         SessionConnect \/ SessionDisconnect \/ SessionDisableTls \/ SessionUp \/ SessionDown
           \/ SessionRead \/ Server \/ UNCHANGED all
  PROVE  ClientInv'
<1>1. CASE SessionConnect
  <2>1. attempts = 0 /\ state' = "CONNECTING"
    BY <1>1 DEF SessionConnect, xmpp_connect_client, Known, TypeOK
  <2>2. Opening /\ parser_reset
    BY <2>1 DEF Known, Basics, Stages, Authenticating, Accepted, Begun
  <2>3. xml = "ended" /\ Registered \subseteq Idlers /\ id_handlers = {} /\ ~accepted
        /\ ~bind_required /\ open_handler = "auth_handle_open"
    BY <2>1, <2>2 DEF ClientInv, HeaderDue, Opening
  <2>4. /\ UNCHANGED <<bind_required, id_handlers, open_handler, parser_reset, xml>>
        /\ Registered' = Registered /\ ~accepted' /\ attempts' = attempts + 1
    BY <1>1 DEF SessionConnect, xmpp_connect_client, flags, stream, Registered
  <2> QED BY <2>1, <2>2, <2>3, <2>4 DEF ClientInv, AtMostOne, HeaderDue, Idlers
<1>2. CASE SessionDisconnect \/ SessionDown
  <2>1. /\ UNCHANGED <<accepted, bind_required, open_handler, parser_reset, xml, attempts,
                       id_handlers>>
        /\ Registered' = Registered
    BY <1>2 DEF SessionDisconnect, SessionDown, AppDisconnect, EvbClosed, flags, stream, ghosts,
       Registered
  <2>2. state' \in {state, "DISCONNECTED"}
    BY <1>2, LinkSteps DEF SessionDisconnect, SessionDown, AppDisconnect, EvbClosed, LinkStep
  <2> QED BY <2>1, <2>2, ClientKept
<1>3. CASE SessionDisableTls \/ Server \/ UNCHANGED all
  <2>1. /\ UNCHANGED <<accepted, bind_required, open_handler, parser_reset, xml, attempts,
                       id_handlers, state>>
        /\ Registered' = Registered
    BY <1>3 DEF SessionDisableTls, xmpp_conn_disable_tls, Server, ServerAnswers, ServerRefuses,
       ServerEnds, ServerKeepsAlive, all, vars, link, flags, stream, ghosts, Registered
  <2> QED BY <2>1, ClientKept
<1>4. CASE SessionUp
  <2>1. /\ state = "CONNECTING" /\ state' # "CONNECTING"
        /\ parser_reset' /\ open_handler' = "auth_handle_open"
        /\ UNCHANGED <<accepted, bind_required, xml, attempts, id_handlers>>
        /\ Registered' = Registered
    BY <1>4 DEF SessionUp, EvbConnected, conn_reset_stream, conn_do_disconnect, Close, ghosts,
       Registered
  <2>2. Opening
    BY <2>1 DEF Known, Stages, Authenticating, Accepted, Begun
  <2> QED BY <2>1, <2>2 DEF ClientInv, AtMostOne, HeaderDue, Opening
<1>5. CASE SessionRead
  <2>1. /\ state = "CONNECTED" /\ state' = state
        /\ xml' = IF parser_reset THEN "fresh" ELSE xml
        /\ ~parser_reset' /\ attempts # 0
        /\ UNCHANGED <<accepted, bind_required, open_handler, attempts, id_handlers>>
        /\ Registered' = Registered
    BY <1>5 DEF SessionRead, evb_read_cb, link, flags, ghosts, Registered, Known, Basics
  <2> QED BY <2>1 DEF ClientInv, AtMostOne, HeaderDue
<1> QED BY <1>1, <1>2, <1>3, <1>4, <1>5

\* What the parser reports.
LEMMA ClientParses ==
  ASSUME Known, ClientInv, SessionParse
  PROVE  ClientInv'
<1>1. CASE HandleStreamStart(TRUE)
  <2>1. /\ phase = "reading" /\ xml = "fresh" /\ xml' = "open"
        /\ UNCHANGED <<accepted, bind_required, open_handler, parser_reset, attempts, id_handlers>>
    BY <1>1 DEF HandleStreamStart, StreamHeader, flags, ghosts
  <2>2. /\ HeaderDue /\ ~parser_reset /\ ~bind_required /\ id_handlers = {}
        /\ Registered \subseteq Idlers /\ state # "CONNECTING" /\ attempts # 0
    BY <2>1 DEF ClientInv, HeaderDue, Known, Basics
  <2>3. state' \in {state, "DISCONNECTED"}
    BY <1>1 DEF HandleStreamStart, conn_do_disconnect, Close, link
  <2>4. Registered' \subseteq Idlers \cup {IF accepted THEN "features_sasl" ELSE "features"}
    <3>1. /\ "stream_error" \in Handlers /\ "features" \in Handlers
          /\ "features_sasl" \in Handlers
      BY DEF Handlers
    <3>2. /\ handlers \in Seq(Handlers) /\ IsInjective(handlers)
      BY DEF Known, ListInv, HandlersOnce
    <3>3. /\ Added("stream_error") \in Seq(Handlers)
          /\ Range(Added("stream_error")) \subseteq Registered \cup {"stream_error"}
          /\ Range(Added("features_sasl")) \subseteq Registered \cup {"features_sasl"}
      BY <3>1, <3>2, AddedToKeeps, AddedToAdds DEF Added, Registered
    <3>4. Range(AddedTo(Added("stream_error"), "features"))
            \subseteq Registered \cup {"stream_error", "features"}
      BY <3>1, <3>3, AddedToAdds
    <3>5. handlers' = IF accepted THEN Added("features_sasl")
                      ELSE AddedTo(Added("stream_error"), "features")
      BY <1>1 DEF HandleStreamStart, StreamHeader, OpenHandlers, ClientInv, Known, TypeOK
    <3> QED BY <2>2, <3>3, <3>4, <3>5 DEF Registered, Idlers
  <2> QED BY <2>1, <2>2, <2>3, <2>4 DEF ClientInv, AtMostOne, HeaderDue, Idlers, SaslHandlers
<1>2. CASE TextOutsideStanza \/ handle_stream_end \/ ReadError \/ \E s : FireStanza(s)
  <2>1. /\ UNCHANGED <<accepted, bind_required, open_handler, parser_reset, attempts,
                       id_handlers>>
        /\ Registered' = Registered /\ xml' \in {xml, "ended"}
    BY <1>2 DEF TextOutsideStanza, handle_stream_end, ReadError, FireStanza, flags, stream,
       ghosts, Registered
  <2>2. state' \in {state, "DISCONNECTED"}
    BY <1>2, LinkSteps DEF TextOutsideStanza, handle_stream_end, ReadError, FireStanza, LinkStep
  <2> QED BY <2>1, <2>2, ClientKept
<1> QED BY <1>1, <1>2 DEF SessionParse

\* _do_auth, which leaves one handler in place of the one that called it.
LEMMA DoAuthWaits ==
  ASSUME Known, ClientInv, ~LibeventFails, NEW h, Calls(h), h \notin Idlers,
         NEW tls, NEW mechs, NEW past, do_auth(h, tls, mechs, past)
  PROVE  \E g \in SaslHandlers \cup Idlers \cup {"proceedtls"} :
           /\ Registered' \subseteq Idlers \cup {g} /\ ~Handling'
           /\ g \in SaslHandlers => ~NeedsTls(tls) /\ \E e \in Credentials : Stays(e)
           /\ g = "proceedtls" => NeedsTls(tls) /\ Stays("starttls")
           /\ g \in Idlers => Stays("close")
<1>1. /\ "proceedtls" \in Handlers /\ "digestmd5_challenge" \in Handlers
      /\ "sasl_result" \in Handlers
  BY DEF Handlers
<1>2. CASE NeedsTls(tls)
  <2>1. End(h, Added("proceedtls")) /\ xmpp_send("starttls")
    BY <1>2 DEF do_auth
  <2> QED BY <1>1, <1>2, <2>1, HandlerCalled, NoFailure DEF SaslHandlers, Idlers
<1>3. CASE ~NeedsTls(tls) /\ End(h, Added("digestmd5_challenge")) /\ xmpp_send("auth_digest")
  BY <1>1, <1>3, HandlerCalled, NoFailure DEF SaslHandlers, Idlers, Credentials
<1>4. CASE ~NeedsTls(tls) /\ End(h, Added("sasl_result")) /\ xmpp_send("auth_plain")
  BY <1>1, <1>4, HandlerCalled, NoFailure DEF SaslHandlers, Idlers, Credentials
<1>5. CASE End(h, handlers) /\ (xmpp_disconnect \/ UNCHANGED <<link, timers>>)
  <2>1. Stays("close")
    BY <1>5, NoFailure
  <2> QED BY <1>5, <2>1, HandlerCalled DEF SaslHandlers, Idlers
<1> QED BY <1>2, <1>3, <1>4, <1>5 DEF do_auth

\* An answer to a mechanism.
LEMMA ClientSasl ==
  ASSUME Known, ClientInv, ~LibeventFails, NEW h \in SaslHandlers, Calls(h), handle_sasl_result(h)
  PROVE  ClientInv'
<1>1. h \notin Idlers
  BY DEF Idlers, SaslHandlers
<1>2. /\ xml = "open" /\ ~HeaderDue /\ ~bind_required /\ id_handlers = {} /\ attempts # 0
      /\ state # "CONNECTING" /\ h \in Registered
      /\ End(h, handlers) => Registered' \subseteq Idlers
  BY <1>1, HandlerCalled DEF HeaderDue
<1>3. Authenticating /\ ~accepted
  BY <1>2, StageOf
<1>4. UNCHANGED <<bind_required, attempts, id_handlers>>
  BY DEF handle_sasl_result
<1>5. CASE SaslFailure(h)
  <2>1. PICK g \in SaslHandlers \cup Idlers \cup {"proceedtls"} :
          Registered' \subseteq Idlers \cup {g} /\ \E e : Stays(e)
    BY <1>1, <1>5, DoAuthWaits DEF SaslFailure
  <2>2. UNCHANGED <<open_handler, parser_reset, xml, accepted>>
    BY <1>5 DEF SaslFailure, stream
  <2>3. g # "user" /\ state' = state
    BY <2>1 DEF SaslHandlers, Idlers, Stays
  <2> QED BY <1>2, <1>3, <1>4, <2>1, <2>2, <2>3, ClientWaits
<1>6. CASE SaslSuccess(h)
  <2>1. /\ Registered' \subseteq Idlers /\ accepted' /\ parser_reset' /\ xml' = xml
        /\ open_handler' = "auth_handle_open_sasl" /\ state' = state
    BY <1>2, <1>6, NoFailure DEF SaslSuccess, conn_reset_stream, Stays
  <2> QED BY <1>2, <1>4, <2>1 DEF ClientInv, AtMostOne, HeaderDue, Idlers, SaslHandlers
<1>7. CASE SaslUnexpected(h)
  <2>1. /\ Registered' \subseteq Idlers \cup {"stream_error"} /\ state' = state
        /\ UNCHANGED <<open_handler, parser_reset, xml, accepted>>
    BY <1>2, <1>7, NoFailure DEF SaslUnexpected, stream, Stays
  <2> QED BY <1>2, <1>3, <1>4, <2>1, ClientWaits
<1> QED BY <1>5, <1>6, <1>7 DEF handle_sasl_result

\* The handlers.
LEMMA ClientCallback ==
  ASSUME Known, ClientInv, ~LibeventFails, Callback
  PROVE  ClientInv'
<1> USE DEF Idlers
<1>1. CASE \/ ReadDone \/ EnableHandlers \/ SkipHandler \/ handle_stream_error
           \/ \E again \in BOOLEAN : handle_user(again)
  <2>1. /\ UNCHANGED <<accepted, bind_required, open_handler, parser_reset, xml, attempts,
                       id_handlers>>
        /\ state' \in {state, "DISCONNECTED"}
    BY <1>1, NeverNull DEF ReadDone, EnableHandlers, SkipHandler, handle_stream_error,
       handle_user, flags, stream, ghosts, link
  <2>2. Registered' \subseteq Registered
    BY <1>1, CallEnds DEF ReadDone, EnableHandlers, SkipHandler, handle_stream_error,
       handle_user, Registered, Known
  <2> QED BY <2>1, <2>2, ClientKept
<1>2. ASSUME NEW h \in {"features", "proceedtls", "digestmd5_challenge", "digestmd5_rspauth"},
             Calls(h), NEW g, g # "user",
             h \notin SaslHandlers => g \notin SaslHandlers \/ ~accepted,
             Registered' \subseteq Idlers \cup {g}, state' \in {state, "DISCONNECTED"},
             UNCHANGED <<accepted, bind_required, open_handler, parser_reset, xml, attempts,
                         id_handlers>>
      PROVE  ClientInv'
  <2>1. /\ h \in Registered /\ ~HeaderDue /\ ~bind_required /\ state # "CONNECTING"
    BY <1>2, HandlerCalled DEF HeaderDue
  <2>2. ~accepted
    BY <2>1, StageOf DEF SaslHandlers
  <2> QED BY <1>2, <2>1, <2>2, ClientWaits
<1>3. CASE handle_features
  <2>1. PICK g \in SaslHandlers \cup Idlers \cup {"proceedtls"} :
          Registered' \subseteq Idlers \cup {g} /\ \E e : Stays(e)
    BY <1>3, DoAuthWaits DEF handle_features
  <2>2. "features" \in Registered
    BY <1>3, HandlerCalled DEF handle_features
  <2>3. ~accepted
    BY <2>2, StageOf
  <2>4. UNCHANGED <<accepted, bind_required, open_handler, parser_reset, xml, attempts,
                    id_handlers>>
    BY <1>3 DEF handle_features, stream
  <2> QED BY <1>2, <1>3, <2>1, <2>3, <2>4 DEF handle_features, Stays, SaslHandlers
<1>4. CASE handle_proceedtls
  <2>1. /\ Registered' \subseteq Idlers
        /\ xml = "open" /\ ~HeaderDue /\ ~bind_required /\ id_handlers = {} /\ attempts # 0
    BY <1>4, HandlerCalled DEF handle_proceedtls, HeaderDue
  <2>2. UNCHANGED <<accepted, bind_required, open_handler, parser_reset, xml, attempts,
                    id_handlers>>
    BY <1>4 DEF handle_proceedtls, flags, stream, ghosts
  <2> QED BY <2>1, <2>2 DEF ClientInv, AtMostOne, HeaderDue, SaslHandlers
<1>5. CASE HandleSaslResult \/ HandleChallengeResult \/ HandleRspauthResult
  BY <1>5, ClientSasl DEF HandleSaslResult, HandleChallengeResult, HandleRspauthResult,
     SaslHandlers
<1>6. CASE HandleChallenge
  <2>1. "digestmd5_rspauth" \in Handlers
    BY DEF Handlers
  <2>2. Registered' \subseteq Idlers \cup {"digestmd5_rspauth"}
    BY <1>6, <2>1, HandlerCalled DEF HandleChallenge
  <2>3. state' = state
    BY <1>6, NoFailure, NeverNull DEF HandleChallenge, Stays
  <2>4. UNCHANGED <<accepted, bind_required, open_handler, parser_reset, xml, attempts,
                    id_handlers>>
    BY <1>6 DEF HandleChallenge, flags, stream, ghosts
  <2> QED BY <1>2, <1>6, <2>2, <2>3, <2>4 DEF HandleChallenge, SaslHandlers
<1>7. CASE HandleRspauth
  <2>1. Registered' = Registered
    BY <1>7, CallEnds DEF HandleRspauth, Known
  <2>2. state' = state
    BY <1>7, NoFailure DEF HandleRspauth, Stays
  <2>3. UNCHANGED <<accepted, bind_required, open_handler, parser_reset, xml, attempts,
                    id_handlers>>
    BY <1>7 DEF HandleRspauth, flags, stream, ghosts
  <2> QED BY <2>1, <2>2, <2>3, ClientKept
<1>8. CASE handle_features_sasl
  <2>1. /\ Registered' \subseteq Idlers /\ "features_sasl" \in Registered
        /\ xml = "open" /\ ~HeaderDue /\ ~bind_required /\ id_handlers = {} /\ attempts # 0
        /\ state # "CONNECTING"
    BY <1>8, HandlerCalled DEF handle_features_sasl, HeaderDue
  <2>2. accepted
    BY <2>1, StageOf
  <2>3. /\ UNCHANGED <<accepted, open_handler, parser_reset, xml, attempts>>
        /\ state' = state
        /\ id_handlers' # {} => bind_required'
    BY <1>8, <2>1, NoFailure DEF handle_features_sasl, stream, ghosts, Stays
  <2> QED BY <2>1, <2>2, <2>3 DEF ClientInv, AtMostOne, HeaderDue, SaslHandlers
<1>9. CASE handle_bind \/ handle_session
  <2>1. id_handlers # {} /\ attempts # 0
    BY <1>9 DEF handle_bind, handle_session, CallsId, Known, Basics
  <2>2. /\ UNCHANGED <<accepted, bind_required, open_handler, parser_reset, xml, attempts>>
        /\ Registered' = Registered
    BY <1>9 DEF handle_bind, handle_session, stream, ghosts, Registered
  <2>3. state' = state
    BY <1>9, NoFailure DEF handle_bind, handle_session, LoggedIn, Stays
  <2> QED BY <2>1, <2>2, <2>3 DEF ClientInv, AtMostOne, HeaderDue
<1> QED BY <1>1, <1>3, <1>4, <1>5, <1>6, <1>7, <1>8, <1>9 DEF Callback


\* What the handlers do to the connection itself.
LEMMA CallbackLink ==
  ASSUME Known, ClientInv, ~LibeventFails, Callback
  PROVE  /\ phase # "idle" /\ UNCHANGED <<fault, stream_id, attempts, xml>>
         /\ notified' \in {notified, "CONNECT"}
         /\ state' = state \/ (state = "CONNECTED" /\ state' = "CONNECTING")
         /\ parser_reset => parser_reset'
<1> DEFINE Same == UNCHANGED <<state, notified, fault>>
<1>1. /\ \A e : Stays(e) => Same
      /\ UNCHANGED link => Same
  BY DEF Stays, link
<1>2. \A h, tls, mechs, past : do_auth(h, tls, mechs, past) => Same
  BY <1>1, NoFailure DEF do_auth
<1>3. \A h : handle_sasl_result(h) => Same
  BY <1>1, <1>2, NoFailure DEF handle_sasl_result, SaslFailure, SaslSuccess, SaslUnexpected
<1> HIDE DEF Same
<1>4. Same => UNCHANGED <<state, notified, fault>>
  BY DEF Same
<1>5. CASE HandleSaslResult \/ HandleChallengeResult \/ HandleRspauthResult
  <2>1. Same /\ phase # "idle"
    BY <1>3, <1>5 DEF HandleSaslResult, HandleChallengeResult, HandleRspauthResult, Calls
  <2>2. PICK h : handle_sasl_result(h)
    BY <1>5 DEF HandleSaslResult, HandleChallengeResult, HandleRspauthResult
  <2>3. /\ UNCHANGED <<stream_id, attempts, xml>>
        /\ parser_reset => parser_reset'
    BY <2>2 DEF handle_sasl_result, SaslFailure, SaslSuccess, SaslUnexpected, conn_reset_stream,
       stream
  <2> QED BY <1>4, <2>1, <2>3
<1>6. CASE handle_features
  BY <1>2, <1>4, <1>6 DEF handle_features, Calls, stream
<1>7. CASE handle_proceedtls
  BY <1>7 DEF handle_proceedtls, conn_start_ssl, Calls, link, stream, ghosts
<1>8. CASE \/ ReadDone \/ EnableHandlers \/ SkipHandler \/ handle_stream_error
           \/ \E again \in BOOLEAN : handle_user(again)
  BY <1>8, NeverNull DEF ReadDone, EnableHandlers, SkipHandler, handle_stream_error,
     handle_user, Calls, link, stream, ghosts
<1>9. CASE HandleChallenge \/ HandleRspauth
  BY <1>1, <1>4, <1>9, NoFailure, NeverNull
  DEF HandleChallenge, HandleRspauth, Calls, stream, ghosts
<1>10. CASE handle_features_sasl
  <2>1. ~bind_required
    BY <1>10, HandlerCalled DEF handle_features_sasl, Idlers
  <2> QED BY <1>1, <1>4, <1>10, <2>1, NoFailure DEF handle_features_sasl, Calls, stream, ghosts
<1>11. CASE handle_bind \/ handle_session
  BY <1>1, <1>4, <1>11, NoFailure DEF handle_bind, handle_session, LoggedIn, CallsId, stream,
     ghosts
<1> QED BY <1>5, <1>6, <1>7, <1>8, <1>9, <1>10, <1>11 DEF Callback

\* What is read, is read from a connection that is up or being closed by the application.
LEMMA ParsesOpen ==
  ASSUME CloseInv, Known, SessionParse
  PROVE  state # "DISCONNECTED" /\ phase = "reading" /\ inbox # <<>> /\ attempts # 0
<1>1. phase = "reading" /\ inbox # <<>>
  BY DEF SessionParse, HandleStreamStart, StreamHeader, TextOutsideStanza, handle_stream_end,
     FireStanza, ReadError
<1> QED BY <1>1 DEF CloseInv, Known, Basics

\* A step that closes nothing in the middle of a callback.
LEMMA CloseKept ==
  ASSUME CloseInv, UNCHANGED <<attempts, fault>>, stream_id' \in {stream_id, "set"},
         attempts # 0,
         state' # "DISCONNECTED" => notified' # "DISCONNECT",
         phase' # "idle" /\ state' = "DISCONNECTED" =>
           xml' = "ended" /\ inbox' = <<>> /\ server' = "closed"
  PROVE  CloseInv'
BY DEF CloseInv

\* A connection is closed once, and when that happens within a callback, nothing is left
\* for it.
LEMMA CloseStep ==
  ASSUME Known, ClientInv, CloseInv, QueueInv, ~LibeventFails, attempts' <= 1, [SessionNext]_all
  PROVE  CloseInv'
<1>1. phase # "idle" \/ state # "DISCONNECTED" \/ server # "closed" => attempts # 0
  BY DEF Known, Basics, CloseInv
<1>2. CASE SessionConnect
  <2>1. /\ attempts = 0 /\ attempts' # 0 /\ state' = "CONNECTING" /\ notified' = "none"
        /\ UNCHANGED <<fault, stream_id, phase>>
    BY <1>2 DEF SessionConnect, xmpp_connect_client, Known, TypeOK, stream, loop
  <2> QED BY <2>1 DEF CloseInv
<1>3. CASE SessionDisconnect
  <2>1. state # "DISCONNECTED" /\ Stays("close") /\ UNCHANGED <<attempts, stream_id, phase, xml>>
    BY <1>3, NoFailure DEF SessionDisconnect, AppDisconnect, ghosts, stream, loop
  <2> QED BY <1>1, <2>1, CloseKept DEF Stays, CloseInv
<1>4. CASE SessionDisableTls \/ UNCHANGED all
  <2>1. UNCHANGED <<fault, stream_id, attempts, notified, server, inbox, outbox, state, phase,
                    xml>>
    BY <1>4 DEF SessionDisableTls, xmpp_conn_disable_tls, link, stream, loop, ghosts, network,
       all, vars
  <2> QED BY <2>1 DEF CloseInv
<1>5. CASE SessionCallback
  <2>1. /\ phase # "idle" /\ UNCHANGED <<fault, stream_id, attempts, xml, inbox, server>>
        /\ notified' \in {notified, "CONNECT"}
        /\ state' = state \/ (state = "CONNECTED" /\ state' = "CONNECTING")
    BY <1>5, CallbackLink DEF SessionCallback
  <2> QED BY <1>1, <2>1, CloseKept DEF CloseInv
<1>6. CASE SessionUp
  <2>1. /\ state = "CONNECTING" /\ state' = "CONNECTED" /\ phase' = "idle"
        /\ UNCHANGED <<fault, stream_id, attempts, notified>>
    BY <1>6 DEF SessionUp, EvbConnected, conn_reset_stream, loop, ghosts
  <2> QED BY <1>1, <2>1, CloseKept DEF CloseInv
<1>7. CASE SessionDown
  <2>1. /\ state # "DISCONNECTED" /\ Closed /\ phase' = "idle"
        /\ UNCHANGED <<stream_id, attempts>>
    BY <1>7, ClosesOnce DEF SessionDown, EvbClosed, stream, loop, ghosts, Known
  <2> QED BY <1>1, <2>1, CloseKept DEF Closed
<1>8. CASE SessionRead
  <2>1. /\ state = "CONNECTED" /\ UNCHANGED <<state, notified, fault, stream_id, attempts>>
    BY <1>8 DEF SessionRead, evb_read_cb, link, ghosts
  <2> QED BY <1>1, <2>1, CloseKept DEF CloseInv
<1>9. CASE SessionParse
  <2>1. state # "DISCONNECTED" /\ phase = "reading" /\ inbox # <<>> /\ attempts # 0
    BY <1>9, ParsesOpen
  <2>2. /\ UNCHANGED <<attempts, server>> /\ stream_id' \in {stream_id, "set"}
        /\ inbox' = Tail(inbox)
    BY <1>9 DEF SessionParse, HandleStreamStart, StreamHeader, TextOutsideStanza,
       handle_stream_end, FireStanza, ReadError, ghosts, stream
  <2>3. CASE HandleStreamStart(TRUE)
    BY <2>1, <2>2, <2>3, CloseKept DEF HandleStreamStart, link, CloseInv
  <2>4. CASE TextOutsideStanza \/ \E s : FireStanza(s)
    BY <2>1, <2>2, <2>4, NoFailure, CloseKept DEF TextOutsideStanza, FireStanza, Stays, CloseInv
  <2>5. CASE handle_stream_end /\ Head(inbox).event = "end"
    <3>1. Head(inbox) = End_ /\ Head(inbox) \in Range(inbox) /\ Tail(inbox) = <<>>
      BY <2>1, <2>5, TailShape, MessagesDiffer DEF QueueInv, Messages
    <3>2. Closed /\ xml' = "ended"
      BY <2>1, <2>5, ClosesOnce DEF handle_stream_end, Known
    <3> QED BY <2>1, <2>2, <3>1, <3>2, CloseKept DEF Closed, QueueInv
  <2>6. CASE ReadError
    <3>1. Closed /\ phase' = "idle"
      BY <2>1, <2>6, ClosesOnce DEF ReadError, Known
    <3> QED BY <2>1, <2>2, <3>1, CloseKept DEF Closed
  <2> QED BY <1>9, <2>3, <2>4, <2>5, <2>6 DEF SessionParse
<1>10. CASE Server
  <2>1. /\ server # "closed"
        /\ UNCHANGED <<state, notified, fault, stream_id, attempts, phase>>
    BY <1>10 DEF Server, ServerAnswers, ServerRefuses, ServerEnds, ServerKeepsAlive, vars, link,
       stream, loop, ghosts
  <2> QED BY <1>1, <2>1, CloseKept DEF CloseInv
<1> QED BY <1>2, <1>3, <1>4, <1>5, <1>6, <1>7, <1>8, <1>9, <1>10 DEF SessionNext

-----------------------------------------------------------------------------
(* The queues.                                                              *)

\* A header that is due stays so until the parser takes it.
LEMMA HeaderStaysDue ==
  ASSUME Known, ClientInv, ~LibeventFails, [SessionNext]_all, state' = "CONNECTED",
         ~HeaderDue', ~SessionParse
  PROVE  state = "CONNECTED" /\ ~HeaderDue
<1>1. CASE SessionCallback
  BY <1>1, CallbackLink DEF SessionCallback, HeaderDue
<1>2. CASE SessionUp
  BY <1>2 DEF SessionUp, EvbConnected, conn_reset_stream, HeaderDue
<1>3. CASE SessionRead
  BY <1>3 DEF SessionRead, evb_read_cb, HeaderDue, link
<1>4. CASE SessionDisconnect
  BY <1>4, NoFailure DEF SessionDisconnect, AppDisconnect, Stays, HeaderDue, stream
<1>5. CASE SessionConnect \/ SessionDown
  BY <1>5 DEF SessionConnect, xmpp_connect_client, SessionDown, EvbClosed, conn_do_disconnect,
     Close
<1>6. CASE SessionDisableTls \/ Server \/ UNCHANGED all
  BY <1>6 DEF SessionDisableTls, xmpp_conn_disable_tls, Server, ServerAnswers, ServerRefuses,
     ServerEnds, ServerKeepsAlive, all, vars, link, stream, HeaderDue
<1> QED BY <1>1, <1>2, <1>3, <1>4, <1>5, <1>6 DEF SessionNext

\* What the server says to an element: a header only to a stream's, an end only when it
\* closes.
LEMMA AnswerShapes ==
  ASSUME NEW e \in Elements \ {"none"}, NEW layer \in Layers, NEW a \in Answers(e, layer)
  PROVE  /\ a[1] \in Seq(Messages) /\ Shape(a[1])
         /\ a[2] \in Layers \cup {"closed"}
         /\ Header \in Range(a[1]) => e = "stream"
         /\ End_ \in Range(a[1]) => a[2] = "closed"
<1> DEFINE Good(q, y) == /\ q \in Seq(Messages) /\ Shape(q)
                         /\ y \in Layers \cup {"closed"}
                         /\ Header \in Range(q) => e = "stream"
                         /\ End_ \in Range(q) => y = "closed"
<1>1. ASSUME NEW q, NEW y, a = <<q, y>>, Good(q, y) PROVE Good(a[1], a[2])
  BY <1>1
<1>2. Good(<<>>, "closed")
  <2>1. <<>> \in Seq(Messages) /\ DOMAIN <<>> = {}
    BY EmptySeq
  <2> QED BY <2>1 DEF Shape, Range
<1>3. ASSUME NEW m \in Messages \ {Header, End_}, NEW y \in Layers PROVE Good(<<m>>, y)
  <2>1. <<m>> \in Seq(Messages) /\ Range(<<m>>) = {m} /\ Shape(<<m>>)
    BY ShortQueues
  <2> QED BY <1>3, <2>1
<1>4. Good(<<End_>>, "closed")
  BY ShortQueues, StanzaTypes, MessagesDiffer
<1>5. ASSUME NEW m \in Messages \ {Header, End_} PROVE Good(<<m, End_>>, "closed")
  BY <1>5, ShortQueues, StanzaTypes, MessagesDiffer
<1>6. ASSUME NEW m \in Messages \ {Header, End_}, e = "stream"
      PROVE  Good(<<Header, m>>, layer)
  BY <1>6, ShortQueues, StanzaTypes, MessagesDiffer
<1>7. "closed" \in Layers \cup {"closed"} /\ "handshake" \in Layers /\ "authenticated" \in Layers
  BY DEF Layers
<1>8. \A s \in Stanzas : Whole(s) \in Messages \ {Header, End_}
  BY StanzaTypes, MessagesDiffer
<1>9. BindId \in Ids /\ SessionId \in Ids
  BY DEF Ids
<1>10. /\ \A n \in {"proceed", "failure"} : Tls(n) \in Messages \ {Header, End_}
       /\ \A n \in {"success", "failure", "challenge"} : Sasl(n) \in Messages \ {Header, End_}
       /\ \A t \in {"result", "error"} :
            /\ Whole(Reply(BindId, t)) \in Messages \ {Header, End_}
            /\ Whole(Reply(SessionId, t)) \in Messages \ {Header, End_}
       /\ \A o \in OffersAt(layer) : Whole(FeaturesOf(o)) \in Messages \ {Header, End_}
  BY <1>8, <1>9, StanzaTypes DEF Tls, Sasl
<1> HIDE DEF Good, BindId, SessionId
<1>11. Good(a[1], a[2])
  <2>1. CASE a = <<<<>>, "closed">>
    BY <1>1, <1>2, <2>1
  <2>2. ASSUME NEW o \in OffersAt(layer), a = <<<<Header, Whole(FeaturesOf(o))>>, layer>>,
               e = "stream"
        PROVE  Good(a[1], a[2])
    BY <1>1, <1>6, <1>10, <2>2
  <2>3. ASSUME NEW m \in Messages \ {Header, End_}, NEW y \in Layers, a = <<<<m>>, y>>
        PROVE  Good(a[1], a[2])
    BY <1>1, <1>3, <2>3
  <2>4. ASSUME NEW m \in Messages \ {Header, End_}, a = <<<<m, End_>>, "closed">>
        PROVE  Good(a[1], a[2])
    BY <1>1, <1>5, <2>4
  <2>5. CASE a = <<<<End_>>, "closed">>
    BY <1>1, <1>4, <2>5
  <2> QED BY <1>7, <1>10, <2>1, <2>2, <2>3, <2>4, <2>5, AnswerForms
<1> QED BY <1>11 DEF Good

\* Putting one message before two.
LEMMA HeaderJoins ==
  ASSUME NEW a \in Messages, NEW b \in Messages, NEW c \in Messages
  PROVE  <<a>> \o <<b, c>> = <<a, b, c>>
<1> DEFINE p == <<a>>
           q == <<b, c>>
           r == <<a, b, c>>
<1>1. /\ p \in Seq(Messages) /\ q \in Seq(Messages) /\ Len(p) = 1 /\ Len(q) = 2
      /\ p[1] = a /\ q[1] = b /\ q[2] = c
  OBVIOUS
<1>2. r \in Seq(Messages) /\ Len(r) = 3 /\ r[1] = a /\ r[2] = b /\ r[3] = c
  OBVIOUS
<1> HIDE DEF p, q, r
<1>3. /\ p \o q \in Seq(Messages) /\ Len(p \o q) = Len(p) + Len(q)
      /\ \A i \in 1 .. Len(p) + Len(q) : (p \o q)[i] = IF i <= Len(p) THEN p[i] ELSE q[i - Len(p)]
  BY <1>1, ConcatProperties
<1>4. Len(p \o q) = 3 /\ \A i \in 1 .. 3 : (p \o q)[i] = r[i]
  BY <1>1, <1>2, <1>3
<1>5. p \o q = r
  BY <1>2, <1>3, <1>4, SeqEqual
<1> QED BY <1>5 DEF p, q, r

\* The queues stay in order.
LEMMA QueueStep ==
  ASSUME Known, ClientInv, QueueInv, TalkInv, QueueTypes', ~LibeventFails, [SessionNext]_all
  PROVE  QueueInv'
<1>1. inbox' \in Seq(Messages) /\ outbox' \in Seq(Elements \ {"none"})
  BY DEF QueueTypes
<1>2. ASSUME UNCHANGED <<inbox, server>>, ~SessionParse
      PROVE  QueueInv'
  <2>1. inbox # <<>> /\ Head(inbox) = Header /\ state' = "CONNECTED" => HeaderDue'
    BY <1>2, HeaderStaysDue DEF QueueInv
  <2> QED BY <1>1, <1>2, <2>1 DEF QueueInv, Shape
<1>3. ASSUME inbox' = <<>>, server' \in Layers \cup {"closed"} PROVE QueueInv'
  <2>1. DOMAIN <<>> = {}
    OBVIOUS
  <2> QED BY <1>1, <1>3, <2>1 DEF QueueInv, Shape, Range
<1>4. ASSUME NEW x \in Seq(Messages), Shape(x), server # "closed", inbox' = inbox \o x,
             Header \in Range(x) => outbox # <<>> /\ Head(outbox) = "stream",
             End_ \in Range(x) => server' = "closed", server' \in Layers \cup {"closed"},
             UNCHANGED vars
      PROVE  QueueInv'
  <2>1. Header \in Range(x) => inbox = <<>> /\ WaitsForHeader
    <3>1. outbox # <<>> => Head(outbox) \in Range(outbox)
      BY OutboxTail DEF QueueInv
    <3> QED BY <1>4, <3>1 DEF TalkInv, Requests, Asked
  <2>2. End_ \notin Range(inbox) /\ inbox \in Seq(Messages) /\ Shape(inbox)
    BY <1>4 DEF QueueInv
  <2>3. /\ Shape(inbox')
        /\ inbox # <<>> => Head(inbox') = Head(inbox)
        /\ inbox = <<>> => inbox' = x
    BY <1>4, <2>1, <2>2, ConcatShape
  <2>4. Range(inbox') \subseteq Range(inbox) \cup Range(x)
    BY <1>4, <2>2, RangeConcatenation
  <2>5. x # <<>> /\ Head(x) = Header => Header \in Range(x)
    <3>1. x # <<>> => 1 \in DOMAIN x /\ Head(x) = x[1]
      BY <1>4, LenProperties, EmptySeq
    <3> QED BY <3>1 DEF Range
  <2>6. UNCHANGED <<state, parser_reset, xml>>
    BY <1>4 DEF vars, link, stream
  <2>7. inbox' # <<>> /\ Head(inbox') = Header /\ state' = "CONNECTED" => HeaderDue'
    BY <2>1, <2>3, <2>5, <2>6 DEF QueueInv, WaitsForHeader, HeaderDue
  <2> QED BY <1>1, <1>4, <2>2, <2>3, <2>4, <2>7 DEF QueueInv
<1>5. "plain" \in Layers /\ "tls" \in Layers
  BY DEF Layers
<1>6. CASE SessionConnect \/ SessionDown
  BY <1>3, <1>5, <1>6 DEF SessionConnect, SessionDown
<1>7. CASE SessionParse
  <2>1. /\ inbox # <<>> /\ inbox' = Tail(inbox) /\ server' = server
        /\ inbox \in Seq(Messages) /\ Shape(inbox)
    BY <1>7 DEF SessionParse, QueueInv
  <2>2. Shape(inbox') /\ Range(inbox') \subseteq Range(inbox)
        /\ (inbox' # <<>> => Head(inbox') # Header)
    BY <2>1, TailShape
  <2> QED BY <1>1, <2>1, <2>2 DEF QueueInv
<1>8. CASE /\ SessionDisconnect \/ SessionDisableTls \/ SessionCallback \/ SessionRead
              \/ UNCHANGED all
           /\ ~SessionParse
  BY <1>2, <1>8 DEF SessionDisconnect, SessionDisableTls, SessionCallback, SessionRead, network,
     all
<1>9. CASE SessionUp /\ ~SessionParse
  <2>1. CASE server' = server
    BY <1>2, <1>9, <2>1 DEF SessionUp
  <2>2. CASE server' = "tls"
    <3>1. HeaderDue' /\ UNCHANGED inbox
      BY <1>9 DEF SessionUp, EvbConnected, conn_reset_stream, HeaderDue
    <3>2. End_ \notin Range(inbox)
      BY <1>9, <2>1, <2>2 DEF SessionUp, QueueInv
    <3> QED BY <1>1, <1>5, <2>2, <3>1, <3>2 DEF QueueInv, Shape
  <2> QED BY <1>9, <2>1, <2>2 DEF SessionUp
<1>10. CASE ServerAnswers
  <2>1. PICK a \in Answers(Head(outbox), server) : inbox' = inbox \o a[1] /\ server' = a[2]
    BY <1>10 DEF ServerAnswers
  <2>2. /\ server \in Layers /\ server # "closed" /\ outbox # <<>> /\ UNCHANGED vars
        /\ Head(outbox) \in Elements \ {"none"}
    BY <1>10, OutboxTail DEF ServerAnswers, QueueInv
  <2>3. /\ a[1] \in Seq(Messages) /\ Shape(a[1])
        /\ a[2] \in Layers \cup {"closed"}
        /\ Header \in Range(a[1]) => Head(outbox) = "stream"
        /\ End_ \in Range(a[1]) => a[2] = "closed"
    BY <2>2, AnswerShapes
  <2> QED BY <1>4, <2>1, <2>2, <2>3
<1>11. CASE ServerRefuses \/ ServerEnds
  <2> DEFINE m == Whole(Element("error", "streams"))
  <2>1. /\ m \in Messages /\ m # Header /\ m # End_
        /\ Header \in Messages /\ End_ \in Messages /\ Header # End_
    BY StanzaTypes, MessagesDiffer
  <2>2. PICK x \in {<<Header, m, End_>>, <<m, End_>>} :
          /\ inbox' = inbox \o x /\ server' = "closed" /\ server # "closed" /\ UNCHANGED vars
          /\ x = <<Header, m, End_>> => outbox # <<>> /\ Head(outbox) = "stream"
    <3>1. <<Header>> \o <<m, End_>> = <<Header, m, End_>> /\ <<>> \o <<m, End_>> = <<m, End_>>
      <4>1. <<m, End_>> \in Seq(Messages)
        BY <2>1, ShortQueues
      <4> HIDE DEF m
      <4> QED BY <2>1, <4>1, ConcatEmptySeq, HeaderJoins
    <3>2. CASE ServerEnds
      BY <3>2 DEF ServerEnds, StreamError
    <3>3. CASE ServerRefuses
      <4>1. inbox' = inbox \o (IF Head(outbox) = "stream" THEN <<Header>> ELSE <<>>)
                       \o StreamError
        BY <3>3 DEF ServerRefuses
      <4>2. \A p \in {<<Header>>, <<>>} :
              (inbox \o p) \o <<m, End_>> = inbox \o (p \o <<m, End_>>)
        <5>1. /\ <<Header>> \in Seq(Messages) /\ <<>> \in Seq(Messages)
              /\ <<m, End_>> \in Seq(Messages) /\ inbox \in Seq(Messages)
          BY <2>1 DEF QueueInv
        <5> HIDE DEF m
        <5> QED BY <5>1, ConcatAssociative
      <4> QED BY <3>1, <3>3, <4>1, <4>2 DEF ServerRefuses, StreamError
    <3> QED BY <1>11, <3>2, <3>3
  <2> HIDE DEF m
  <2>3. /\ x \in Seq(Messages) /\ Shape(x)
        /\ Header \in Range(x) => x = <<Header, m, End_>>
    BY <2>1, <2>2, ShortQueues
  <2> QED BY <1>4, <2>2, <2>3
<1>12. CASE ServerKeepsAlive
  <2>1. /\ inbox = <<>> /\ inbox' = <<Text>> /\ UNCHANGED <<vars, server>> /\ server # "closed"
    BY <1>12 DEF ServerKeepsAlive
  <2>2. /\ <<Text>> \in Seq(Messages) /\ Shape(<<Text>>) /\ Range(<<Text>>) = {Text}
        /\ Text # Header /\ Text # End_
    BY ShortQueues, StanzaTypes, MessagesDiffer
  <2>3. <<>> \o <<Text>> = <<Text>>
    BY <2>2, ConcatEmptySeq
  <2> QED BY <1>4, <2>1, <2>2, <2>3 DEF QueueInv
<1> QED BY <1>6, <1>7, <1>8, <1>9, <1>10, <1>11, <1>12 DEF SessionNext, Server

-----------------------------------------------------------------------------
(* The conversation.                                                        *)

\* What is written is one request more, unless it is the end of the stream.
LEMMA RequestsWritten ==
  ASSUME QueueInv, NEW e \in Elements \ {"none"}, Written(e)
  PROVE  /\ Requests' \subseteq Requests \cup ({e} \ {"close"})
         /\ OneRequest /\ (e = "close" \/ Requests = {}) => OneRequest'
<1>1. CASE outbox' = outbox
  BY <1>1 DEF Requests, OneRequest
<1>2. CASE outbox' = Append(outbox, e)
  <2> DEFINE n == Len(outbox) + 1
  <2>1. /\ Range(outbox') = Range(outbox) \cup {e}
        /\ DOMAIN outbox' = DOMAIN outbox \cup {n} /\ n \notin DOMAIN outbox
        /\ \A i \in DOMAIN outbox : outbox'[i] = outbox[i]
        /\ outbox'[n] = e
    BY <1>2, OutboxMoves DEF QueueInv
  <2> HIDE DEF n
  <2>2. Requests' \subseteq Requests \cup ({e} \ {"close"})
    BY <2>1 DEF Requests
  <2>3. ASSUME OneRequest, e = "close" \/ Requests = {},
               NEW i \in DOMAIN outbox', NEW j \in DOMAIN outbox',
               outbox'[i] # "close", outbox'[j] # "close"
        PROVE  i = j
    <3>1. Requests = {} => \A k \in DOMAIN outbox : outbox[k] = "close"
      BY DEF Requests, Range
    <3> QED BY <2>1, <2>3, <3>1 DEF OneRequest
  <2> QED BY <2>2, <2>3 DEF OneRequest
<1> QED BY <1>1, <1>2 DEF Written

\* A request is taken from the queue: nothing but the end of the stream is left.
LEMMA RequestTaken ==
  ASSUME QueueInv, outbox # <<>>, OneRequest, outbox' = Tail(outbox)
  PROVE  /\ Head(outbox) # "close" => Requests' = {} /\ Head(outbox) \in Requests
         /\ OneRequest'
<1>1. /\ 1 \in DOMAIN outbox /\ Head(outbox) = outbox[1] /\ Head(outbox) \in Range(outbox)
      /\ \A i \in DOMAIN outbox' : i \in Nat /\ i + 1 \in DOMAIN outbox
                                     /\ outbox'[i] = outbox[i + 1] /\ i + 1 # 1
  BY OutboxTail DEF QueueInv
<1>2. ASSUME Head(outbox) # "close" PROVE \A i \in DOMAIN outbox' : outbox'[i] = "close"
  BY <1>1, <1>2 DEF OneRequest
<1>3. OneRequest'
  <2>1. ASSUME NEW i \in DOMAIN outbox', NEW j \in DOMAIN outbox',
               outbox'[i] # "close", outbox'[j] # "close"
        PROVE  i = j
    <3>1. i + 1 = j + 1
      BY <1>1, <2>1 DEF OneRequest
    <3> QED BY <1>1, <3>1
  <2> QED BY <2>1 DEF OneRequest
<1>4. Head(outbox) # "close" => Requests' = {}
  BY <1>2 DEF Requests, Range
<1> QED BY <1>1, <1>3, <1>4 DEF Requests

\* A step that says nothing but the end of the stream, and hears nothing.
LEMMA TalkCalm ==
  ASSUME TalkInv, QueueInv, Written("close"), inbox' \in {inbox, <<>>},
         UNCHANGED <<server, open_handler, id_handlers, authenticated>>, Registered' = Registered,
         HeaderDue \/ state = "DISCONNECTED" => HeaderDue' \/ state' = "DISCONNECTED",
         Handling' => Handling /\ stanza' = stanza,
         state' = "CONNECTING" => state = "CONNECTING" /\ evbuffer' = evbuffer
  PROVE  TalkInv'
<1> SUFFICES ASSUME server # "closed" PROVE TalkInv'
  BY DEF TalkInv
<1>1. Requests' \subseteq Requests /\ OneRequest'
  <2>1. "close" \in Elements \ {"none"}
    BY DEF Elements
  <2> QED BY <2>1, RequestsWritten DEF TalkInv
<1>2. \A r : Asked(r) => Asked(r)'
  BY DEF Asked, WaitsForHeader, WaitsForTls, WaitsForSasl, WaitsForReply, Waits
<1>3. \A s : Fits(s) => Fits(s)'
  BY DEF Fits, WaitsForFeatures, WaitsForTls, WaitsForSasl, WaitsForReply, Waits, FeaturesNow
<1>4. WaitsForHeader => WaitsForHeader'
  BY DEF WaitsForHeader
<1>5. FeaturesNow' = FeaturesNow
  BY DEF FeaturesNow
<1>6. Answered /\ inbox' = inbox => Answered'
  BY <1>3, <1>4, <1>5 DEF Answered
<1>7. AtRest => AtRest'
  BY <1>1 DEF AtRest
<1>8. ComesUp /\ evbuffer' = evbuffer => ComesUp'
  BY <1>7 DEF ComesUp
<1> QED BY <1>1, <1>2, <1>3, <1>6, <1>7, <1>8 DEF TalkInv

\* A handler takes what the server answered and says one thing at most.
LEMMA TalkHandled ==
  ASSUME TalkInv, QueueInv, Handling, ~Handling', UNCHANGED <<inbox, server>>,
         NEW r \in Elements \ {"none"}, Written(r),
         r = "close" \/ (Asked(r)' /\ ~authenticated'),
         state' = "CONNECTING" => outbox' = outbox /\ evbuffer' = "ssl" /\ server = "handshake"
  PROVE  TalkInv'
<1> SUFFICES ASSUME server # "closed" PROVE TalkInv'
  BY DEF TalkInv
<1>1. Requests = {} /\ inbox = <<>> /\ OneRequest
  BY DEF TalkInv
<1>2. Requests' \subseteq {r} \ {"close"} /\ OneRequest'
  BY <1>1, RequestsWritten
<1>3. authenticated' => AtRest'
  BY <1>1, <1>2 DEF AtRest
<1>4. outbox' = outbox => Requests' = {}
  BY <1>1 DEF Requests
<1>5. state' = "CONNECTING" => ComesUp'
  BY <1>1, <1>4 DEF ComesUp, AtRest
<1> QED BY <1>1, <1>2, <1>3, <1>5 DEF TalkInv

\* The header of a stream is taken, or is in the way of a parser that ends.
LEMMA TalkHeader ==
  ASSUME TalkInv, QueueInv, server # "closed",
         NEW s, s \in FeaturesNow, s \in Stanzas, WaitsForHeader, inbox = <<Header, Whole(s)>>,
         UNCHANGED <<server, outbox, id_handlers, authenticated>>, inbox' = <<Whole(s)>>,
         Registered' \subseteq Idlers \cup {IF server = "authenticated" THEN "features_sasl"
                                            ELSE "features"},
         phase' \notin {"ids", "handlers"}, state' \in {state, "DISCONNECTED"}
  PROVE  TalkInv'
<1>1. inbox # <<>> /\ inbox # <<Text>>
  BY MessagesDiffer
<1>2. Requests = {} /\ ~authenticated /\ state # "CONNECTING" /\ OneRequest
  BY <1>1 DEF TalkInv, AtRest, ComesUp
<1>3. Requests' = {} /\ OneRequest'
  BY <1>2 DEF Requests, OneRequest
<1>4. WaitsForFeatures'
  BY DEF WaitsForFeatures, WaitsForHeader, Waits, QueueInv, Layers
<1>5. Answered'
  BY <1>4 DEF Answered, Fits, FeaturesNow
<1>6. ~Handling'
  BY DEF Handling
<1> QED BY <1>2, <1>3, <1>5, <1>6 DEF TalkInv

\* A handler of the login was called for what the server answered.
LEMMA HandlerFits ==
  ASSUME Known, ClientInv, TalkInv, server # "closed", NEW h, Calls(h), h \notin Idlers
  PROVE  /\ h = "features" => server \in {"plain", "tls"} /\ stanza \in FeaturesNow
         /\ h = "features_sasl" => server = "authenticated" /\ stanza \in FeaturesNow
         /\ h = "proceedtls" => stanza.name = "proceed" /\ server = "handshake"
         /\ h \in SaslHandlers =>
              IF stanza.name = "success" THEN server = "authenticated"
              ELSE server \in {"plain", "tls"}
         /\ Handling /\ ~authenticated
<1>1. /\ h \in Registered /\ Handling /\ ~bind_required
  BY HandlerCalled
<1>2. Fits(stanza) /\ ~authenticated
  BY <1>1 DEF TalkInv, AtRest
<1>3. ASSUME NEW g, Waits(g) PROVE h = g
  BY <1>1, <1>3 DEF Waits
<1>4. WaitsForFeatures =>
        IF server = "authenticated" THEN h = "features_sasl"
        ELSE h = "features" /\ server \in {"plain", "tls"}
  BY <1>3 DEF WaitsForFeatures
<1>5. WaitsForTls => h = "proceedtls"
  BY <1>3 DEF WaitsForTls
<1>6. WaitsForSasl => h \in SaslHandlers
  BY <1>3 DEF WaitsForSasl
<1>7. \A i : ~WaitsForReply(i)
  BY <1>1 DEF WaitsForReply
<1>8. /\ \A n \in {"challenge", "failure"} : Element(n, "sasl").name # "success"
      /\ Element("success", "sasl").name = "success"
      /\ Element("proceed", "tls").name = "proceed"
  BY DEF Element
<1>9. \/ WaitsForFeatures /\ stanza \in FeaturesNow
      \/ stanza.name = "proceed" /\ server = "handshake" /\ WaitsForTls
      \/ stanza.name # "success" /\ server \in {"plain", "tls"} /\ WaitsForSasl
      \/ stanza.name = "success" /\ server = "authenticated" /\ WaitsForSasl
  BY <1>2, <1>7, <1>8 DEF Fits
<1> QED BY <1>1, <1>2, <1>4, <1>5, <1>6, <1>9 DEF SaslHandlers

\* The features that the server announces on each layer.
LEMMA FeaturesOffered ==
  ASSUME NEW s, s \in FeaturesNow
  PROVE  /\ server = "tls" => "starttls" \notin s.offers
         /\ server = "authenticated" => "bind" \in s.offers
<1>1. PICK o \in OffersAt(server) : s = FeaturesOf(o)
  BY DEF FeaturesNow
<1>2. s.offers = o
  BY <1>1 DEF FeaturesOf
<1>3. /\ server = "tls" => "starttls" \notin o
      /\ server = "authenticated" => "bind" \in o
  BY DEF OffersAt, Mechanisms
<1> QED BY <1>2, <1>3

\* _do_auth talks.
LEMMA TalkAuth ==
  ASSUME Known, ClientInv, QueueInv, TalkInv, ~LibeventFails, UNCHANGED <<inbox, server>>, Wrote,
         server # "closed", NEW h, Calls(h), h \notin Idlers,
         NEW tls, NEW mechs, NEW past, do_auth(h, tls, mechs, past),
         server \in {"plain", "tls"}, NeedsTls(tls) => server = "plain",
         UNCHANGED <<authenticated, id_handlers>>
  PROVE  TalkInv'
<1>1. PICK g \in SaslHandlers \cup Idlers \cup {"proceedtls"} :
        /\ Registered' \subseteq Idlers \cup {g} /\ ~Handling'
        /\ g \in SaslHandlers => ~NeedsTls(tls) /\ \E e \in Credentials : Stays(e)
        /\ g = "proceedtls" => NeedsTls(tls) /\ Stays("starttls")
        /\ g \in Idlers => Stays("close")
  BY DoAuthWaits
<1>2. /\ Handling /\ ~authenticated' /\ id_handlers' = {} /\ state # "CONNECTING"
  BY HandlerFits, HandlerCalled
<1>3. ASSUME NEW r \in Elements \ {"none"}, Stays(r), r = "close" \/ Asked(r)' PROVE TalkInv'
  <2>1. Written(r) /\ state' # "CONNECTING"
    BY <1>2, <1>3, WroteWritten DEF Stays
  <2> QED BY <1>1, <1>2, <1>3, <2>1, TalkHandled
<1>4. {"auth_plain", "auth_digest", "starttls", "close"} \subseteq Elements \ {"none"}
  BY DEF Elements
<1>5. CASE g \in SaslHandlers
  <2>1. PICK e \in Credentials : Stays(e)
    BY <1>1, <1>5
  <2>2. Asked(e)'
    BY <1>1, <1>2, <1>5 DEF Asked, WaitsForSasl, Waits, Credentials
  <2> QED BY <1>3, <1>4, <2>1, <2>2 DEF Credentials
<1>6. CASE g = "proceedtls"
  <2>1. Asked("starttls")' /\ Stays("starttls")
    BY <1>1, <1>2, <1>6 DEF Asked, WaitsForTls, Waits
  <2> QED BY <1>3, <1>4, <2>1
<1>7. CASE g \in Idlers
  BY <1>1, <1>3, <1>4, <1>7
<1> QED BY <1>5, <1>6, <1>7

\* The client answers what it was told of its mechanism.
LEMMA TalkSasl ==
  ASSUME Known, ClientInv, QueueInv, TalkInv, ~LibeventFails, UNCHANGED <<inbox, server>>, Wrote,
         server # "closed", NEW h \in SaslHandlers, Calls(h), handle_sasl_result(h)
  PROVE  TalkInv'
<1>1. h \notin Idlers
  BY DEF Idlers, SaslHandlers
<1>2. /\ Handling /\ ~authenticated /\ id_handlers = {} /\ state # "CONNECTING"
      /\ h \in Registered
      /\ IF stanza.name = "success" THEN server = "authenticated" ELSE server \in {"plain", "tls"}
      /\ End(h, handlers) => Registered' \subseteq Idlers /\ ~Handling'
  BY <1>1, HandlerFits, HandlerCalled
<1>3. UNCHANGED <<authenticated, id_handlers>>
  BY DEF handle_sasl_result
<1>4. ASSUME NEW r \in Elements \ {"none"}, Stays(r), ~Handling', r = "close" \/ Asked(r)'
      PROVE  TalkInv'
  <2>1. Written(r) /\ state' # "CONNECTING"
    BY <1>2, <1>4, WroteWritten DEF Stays
  <2> QED BY <1>2, <1>3, <1>4, <2>1, TalkHandled
<1>5. {"stream", "close"} \subseteq Elements \ {"none"}
  BY DEF Elements
<1>6. CASE SaslFailure(h)
  <2>1. ~NeedsTls(tls_support)
    BY <1>2, StageOf DEF Authenticating, Begun, NeedsTls
  <2> QED BY <1>1, <1>2, <1>3, <1>6, <2>1, TalkAuth DEF SaslFailure
<1>7. CASE SaslSuccess(h)
  <2>1. /\ Registered' \subseteq Idlers /\ ~Handling' /\ parser_reset' /\ Stays("stream")
        /\ open_handler' = "auth_handle_open_sasl" /\ server' = "authenticated"
    BY <1>2, <1>7, NoFailure DEF SaslSuccess, conn_reset_stream
  <2>2. Asked("stream")'
    BY <1>2, <1>3, <2>1 DEF Asked, WaitsForHeader, HeaderDue
  <2> QED BY <1>4, <1>5, <2>1, <2>2
<1>8. CASE SaslUnexpected(h)
  BY <1>2, <1>4, <1>5, <1>8, NoFailure DEF SaslUnexpected
<1> QED BY <1>6, <1>7, <1>8 DEF handle_sasl_result

\* The answers to the elements of DIGEST-MD5.
LEMMA TalkChallenge ==
  ASSUME Known, ClientInv, QueueInv, TalkInv, ~LibeventFails, UNCHANGED <<inbox, server>>, Wrote,
         server # "closed", HandleChallenge \/ HandleRspauth
  PROVE  TalkInv'
<1>1. PICK h \in SaslHandlers : Calls(h) /\ h \notin Idlers
  BY DEF HandleChallenge, HandleRspauth, SaslHandlers, Idlers
<1>2. /\ Handling /\ ~authenticated /\ id_handlers = {} /\ state # "CONNECTING"
      /\ server \in {"plain", "tls"} /\ UNCHANGED <<authenticated, id_handlers>>
  <2>1. stanza.name = "challenge" /\ UNCHANGED <<authenticated, id_handlers>>
    BY DEF HandleChallenge, HandleRspauth, flags
  <2> QED BY <1>1, <2>1, HandlerFits, HandlerCalled
<1>3. ASSUME NEW r \in Elements \ {"none"}, Stays(r), ~Handling', r = "close" \/ Asked(r)'
      PROVE  TalkInv'
  <2>1. Written(r) /\ state' # "CONNECTING"
    BY <1>2, <1>3, WroteWritten DEF Stays
  <2> QED BY <1>2, <1>3, <2>1, TalkHandled
<1>4. {"response", "empty_response", "close"} \subseteq Elements \ {"none"}
  BY DEF Elements
<1>5. ASSUME NEW g \in SaslHandlers, Registered' \subseteq Idlers \cup {g}
      PROVE  Asked("response")' /\ Asked("empty_response")'
  BY <1>2, <1>5 DEF Asked, WaitsForSasl, Waits
<1>6. CASE HandleChallenge
  <2>1. "digestmd5_rspauth" \in Handlers /\ "digestmd5_rspauth" \in SaslHandlers
        /\ "digestmd5_challenge" \notin Idlers /\ Calls("digestmd5_challenge")
    BY <1>6 DEF Handlers, SaslHandlers, Idlers, HandleChallenge
  <2>2. CASE End("digestmd5_challenge", Added("digestmd5_rspauth")) /\ xmpp_send("response")
    <3>1. Registered' \subseteq Idlers \cup {"digestmd5_rspauth"} /\ ~Handling'
      BY <2>1, <2>2, HandlerCalled
    <3> QED BY <1>3, <1>4, <1>5, <2>1, <2>2, <3>1, NoFailure
  <2>3. CASE End("digestmd5_challenge", handlers) /\ xmpp_disconnect
    BY <1>3, <1>4, <2>1, <2>3, HandlerCalled, NoFailure
  <2> QED BY <1>6, <2>2, <2>3, NeverNull DEF HandleChallenge
<1>7. CASE HandleRspauth
  <2>1. "digestmd5_rspauth" \in SaslHandlers
        /\ "digestmd5_rspauth" \notin Idlers /\ Calls("digestmd5_rspauth")
    BY <1>7 DEF SaslHandlers, Idlers, HandleRspauth
  <2>2. /\ Again(handlers) /\ xmpp_send("empty_response")
        /\ Registered \subseteq Idlers \cup {"digestmd5_rspauth"} /\ ~Handling'
        /\ Registered' = Registered
    BY <1>7, <2>1, HandlerCalled DEF HandleRspauth, Again, Registered
  <2> QED BY <1>3, <1>4, <1>5, <2>1, <2>2, NoFailure
<1> QED BY <1>6, <1>7

\* The features after the authentication: the client binds its resource.
LEMMA TalkBind ==
  ASSUME Known, ClientInv, QueueInv, TalkInv, ~LibeventFails, UNCHANGED <<inbox, server>>, Wrote,
         server # "closed", handle_features_sasl
  PROVE  TalkInv'
<1>1. /\ "features_sasl" \notin Idlers /\ Calls("features_sasl")
      /\ "bind" \in Elements \ {"none"} /\ End("features_sasl", handlers)
  BY DEF Idlers, handle_features_sasl, Elements
<1>2. /\ Handling /\ ~authenticated /\ id_handlers = {} /\ state # "CONNECTING"
      /\ server = "authenticated" /\ "bind" \in stanza.offers
      /\ Registered' \subseteq Idlers /\ ~Handling'
  BY <1>1, HandlerFits, HandlerCalled, FeaturesOffered
<1>3. Stays("bind") /\ id_handlers' = IdAdded(BindId) /\ authenticated' = authenticated
  BY <1>2, NoFailure DEF handle_features_sasl
<1>4. Written("bind") /\ state' # "CONNECTING"
  BY <1>1, <1>2, <1>3, WroteWritten DEF Stays
<1>5. Asked("bind")'
  BY <1>2, <1>3 DEF Asked, WaitsForReply, IdAdded
<1> QED BY <1>1, <1>2, <1>3, <1>4, <1>5, TalkHandled

\* The replies to the bind and to the session.
LEMMA TalkReply ==
  ASSUME Known, ClientInv, QueueInv, TalkInv, ~LibeventFails, UNCHANGED <<inbox, server>>, Wrote,
         server # "closed", handle_bind \/ handle_session
  PROVE  TalkInv'
<1>1. PICK i \in Ids : /\ CallsId(i)
                       /\ i = BindId => handle_bind
                       /\ i = SessionId => handle_session
  BY DEF handle_bind, handle_session, Ids, BindId, SessionId
<1>2. /\ phase = "ids" /\ stanza.id = i /\ i \in id_handlers /\ BindId # SessionId
      /\ Handling
  BY <1>1 DEF CallsId, Handling, BindId, SessionId
<1>3. Fits(stanza) /\ ~authenticated /\ state # "CONNECTING"
  BY <1>2 DEF TalkInv, AtRest, ComesUp
<1>4. server = "authenticated" /\ Registered \subseteq Idlers /\ id_handlers = {i}
  BY <1>2, <1>3 DEF Fits, WaitsForFeatures, WaitsForTls, WaitsForSasl, WaitsForReply
<1> HIDE DEF BindId, SessionId
<1>5. /\ UNCHANGED <<phase, stanza>> /\ Registered' = Registered
      /\ id_handlers' \subseteq {SessionId} \ {i}
  BY <1>1, <1>2, <1>4 DEF handle_bind, handle_session, loop, Registered, IdAdded, Ids
<1>6. ~Handling'
  BY <1>2, <1>4, <1>5 DEF Handling
<1>7. ASSUME NEW r \in Elements \ {"none"}, state' = state, sent' \in {sent, r},
             r = "close" \/ (Asked(r)' /\ ~authenticated')
      PROVE  TalkInv'
  BY <1>2, <1>3, <1>6, <1>7, WroteWritten, TalkHandled
<1>8. "close" \in Elements \ {"none"} /\ "session" \in Elements \ {"none"}
  BY DEF Elements
<1>9. CASE LoggedIn \/ xmpp_disconnect
  BY <1>7, <1>8, <1>9, NoFailure DEF LoggedIn, Stays
<1>10. CASE xmpp_send("session") /\ UNCHANGED authenticated
  <2>1. Asked("session")'
    BY <1>4, <1>5 DEF Asked, WaitsForReply
  <2>2. state' = state /\ sent' \in {sent, "session"}
    BY <1>10, NoFailure DEF Stays
  <2> QED BY <1>3, <1>7, <1>8, <1>10, <2>1, <2>2
<1> QED BY <1>9, <1>10 DEF handle_bind, handle_session

\* Callbacks.
LEMMA TalkCallback ==
  ASSUME Known, ClientInv, QueueInv, TalkInv, ~LibeventFails, SessionCallback
  PROVE  TalkInv'
<1>1. UNCHANGED <<inbox, server>> /\ Wrote /\ Callback
  BY DEF SessionCallback
<1> SUFFICES ASSUME server # "closed" PROVE TalkInv'
  BY <1>1 DEF TalkInv
<1>2. ASSUME UNCHANGED <<link, open_handler, id_handlers, authenticated, parser_reset, xml>>,
             Registered' = Registered, Handling' => Handling /\ stanza' = stanza
      PROVE  TalkInv'
  <2>1. Written("close") /\ UNCHANGED <<state, evbuffer>>
    BY <1>1, <1>2, WroteWritten DEF link
  <2> QED BY <1>1, <1>2, <2>1, TalkCalm DEF HeaderDue
<1>3. ASSUME phase = "handlers", Advance PROVE Handling' => Handling /\ stanza' = stanza
  <2>1. todo \in Seq(Handlers) /\ todo # <<>> /\ IsInjective(todo)
    BY <1>3 DEF Known, ListInv, DispatchSafe
  <2>2. Range(Tail(todo)) \subseteq Range(todo)
    BY <2>1, TailKeeps
  <2> QED BY <1>3, <2>2 DEF Advance, Handling
<1>4. CASE ReadDone
  <2>1. Registered' = Registered /\ ~Handling'
    BY <1>4 DEF ReadDone, Registered, Handling
  <2> QED BY <1>2, <1>4, <2>1 DEF ReadDone, stream, flags
<1>5. CASE EnableHandlers
  <2>1. Registered' = Registered
    BY <1>5 DEF EnableHandlers, Registered
  <2>2. Handling' => Handling /\ stanza' = stanza
    BY <1>5 DEF EnableHandlers, Handling, Registered
  <2> QED BY <1>2, <1>5, <2>1, <2>2 DEF EnableHandlers, stream, flags
<1>6. CASE SkipHandler \/ handle_stream_error
  <2>1. phase = "handlers" /\ Advance /\ handlers' = handlers
    BY <1>6 DEF SkipHandler, handle_stream_error, Calls, Again
  <2>2. UNCHANGED <<link, open_handler, id_handlers, authenticated, parser_reset, xml>>
    BY <1>6, NeverNull DEF SkipHandler, handle_stream_error, stream, flags
  <2> QED BY <1>2, <1>3, <2>1, <2>2 DEF Registered
<1>7. CASE \E again \in BOOLEAN : handle_user(again)
  <2>1. "user" \in Registered
    BY <1>7, CallEnds DEF handle_user, Known
  <2> QED BY <2>1 DEF ClientInv
<1>8. CASE handle_features
  <2> DEFINE tls == "starttls" \in stanza.offers /\ ~secured /\ ~tls_disabled
             mechs == stanza.offers \cap Mechanisms
  <2>1. /\ "features" \notin Idlers /\ Calls("features")
        /\ do_auth("features", tls, mechs, <<>>)
        /\ UNCHANGED <<authenticated, id_handlers>>
    BY <1>8 DEF Idlers, handle_features
  <2>2. server \in {"plain", "tls"} /\ (NeedsTls(tls) => server = "plain")
    BY <2>1, HandlerFits, FeaturesOffered DEF NeedsTls
  <2> HIDE DEF tls, mechs
  <2> QED BY <1>1, <2>1, <2>2, TalkAuth
<1>9. CASE handle_proceedtls
  <2>1. /\ "proceedtls" \notin Idlers /\ Calls("proceedtls") /\ End("proceedtls", handlers)
        /\ authenticated' = authenticated
    BY <1>9 DEF Idlers, handle_proceedtls, flags
  <2>2. /\ Handling /\ ~Handling' /\ server = "handshake" /\ stanza.name = "proceed"
        /\ state # "CONNECTING"
    BY <2>1, HandlerFits, HandlerCalled
  <2>3. sent' = sent /\ (state' = "CONNECTING" => evbuffer' = "ssl")
    BY <1>9, <2>2 DEF handle_proceedtls, conn_start_ssl, link
  <2>4. Written("close") /\ outbox' = outbox /\ "close" \in Elements \ {"none"}
    BY <1>1, <2>3 DEF Wrote, Written, Elements
  <2> QED BY <1>1, <2>1, <2>2, <2>3, <2>4, TalkHandled
<1>10. CASE HandleSaslResult \/ HandleChallengeResult \/ HandleRspauthResult
  BY <1>1, <1>10, TalkSasl DEF HandleSaslResult, HandleChallengeResult, HandleRspauthResult,
     SaslHandlers
<1>11. CASE HandleChallenge \/ HandleRspauth
  BY <1>1, <1>11, TalkChallenge
<1>12. CASE handle_features_sasl
  BY <1>1, <1>12, TalkBind
<1>13. CASE handle_bind \/ handle_session
  BY <1>1, <1>13, TalkReply
<1> QED BY <1>1, <1>4, <1>5, <1>6, <1>7, <1>8, <1>9, <1>10, <1>11, <1>12, <1>13 DEF Callback

\* What is in the queue while the server is open.
LEMMA FirstOfInbox ==
  ASSUME TalkInv, QueueInv, server # "closed", inbox # <<>>
  PROVE  \/ Head(inbox) = Text /\ inbox = <<Text>> /\ Tail(inbox) = <<>>
         \/ /\ WaitsForHeader
            /\ \E s \in FeaturesNow : /\ inbox = <<Header, Whole(s)>> /\ Head(inbox) = Header
                                      /\ Tail(inbox) = <<Whole(s)>> /\ s \in Stanzas
         \/ \E s \in Stanzas : /\ inbox = <<Whole(s)>> /\ Head(inbox) = Whole(s)
                               /\ Tail(inbox) = <<>> /\ Fits(s)
<1>1. inbox = <<Text>> \/ Answered
  BY DEF TalkInv
<1>2. CASE inbox = <<Text>>
  BY <1>2, ShortQueues, StanzaTypes
<1>3. CASE WaitsForHeader /\ \E s \in FeaturesNow : inbox = <<Header, Whole(s)>>
  <2>1. PICK s \in FeaturesNow : inbox = <<Header, Whole(s)>>
    BY <1>3
  <2>2. s \in Stanzas
    BY StanzaTypes DEF FeaturesNow
  <2>3. /\ Header \in Messages /\ Whole(s) \in Messages
        /\ Header # End_ /\ Whole(s) # Header
    BY <2>2, StanzaTypes, MessagesDiffer
  <2>4. Head(inbox) = Header /\ Tail(inbox) = <<Whole(s)>>
    BY <2>1, <2>3, ShortQueues
  <2> QED BY <1>3, <2>1, <2>2, <2>4
<1>4. CASE \E s \in Stanzas : inbox = <<Whole(s)>> /\ Fits(s)
  <2>1. PICK s \in Stanzas : inbox = <<Whole(s)>> /\ Fits(s)
    BY <1>4
  <2>2. Head(inbox) = Whole(s) /\ Tail(inbox) = <<>>
    BY <2>1, StanzaTypes, ShortQueues
  <2> QED BY <2>1, <2>2
<1> QED BY <1>1, <1>2, <1>3, <1>4 DEF Answered

\* What the parser reports.
LEMMA TalkParse ==
  ASSUME Known, ClientInv, CloseInv, QueueInv, TalkInv, ~LibeventFails, SessionParse
  PROVE  TalkInv'
<1>1. /\ server' = server /\ inbox' = Tail(inbox) /\ Wrote /\ inbox # <<>>
      /\ UNCHANGED <<open_handler, id_handlers, authenticated, parser_reset>>
      /\ state # "DISCONNECTED"
  <2>1. UNCHANGED <<open_handler, id_handlers, authenticated, parser_reset>>
    BY DEF SessionParse, HandleStreamStart, StreamHeader, TextOutsideStanza, handle_stream_end,
       FireStanza, ReadError, flags, stream
  <2> QED BY <2>1, ParsesOpen DEF SessionParse
<1> SUFFICES ASSUME server # "closed" PROVE TalkInv'
  BY <1>1 DEF TalkInv
<1>2. Head(inbox).event # "end"
  <2>1. Head(inbox) \in Messages /\ Head(inbox) \in Range(inbox)
    BY <1>1, TailShape DEF QueueInv
  <2>2. Head(inbox) # End_
    BY <2>1 DEF QueueInv
  <2> QED BY <2>1, <2>2, MessagesDiffer DEF Messages
<1>3. CASE Head(inbox).event = "header" /\ HandleStreamStart(TRUE)
  <2>1. PICK s \in FeaturesNow : /\ inbox = <<Header, Whole(s)>> /\ WaitsForHeader
                                 /\ Tail(inbox) = <<Whole(s)>> /\ s \in Stanzas
    BY <1>1, <1>3, FirstOfInbox, MessagesDiffer
  <2>2. UNCHANGED link /\ phase = "reading" /\ phase' = phase
    BY <1>3 DEF HandleStreamStart, StreamHeader, loop, CloseInv
  <2>3. outbox' = outbox /\ state' = state
    BY <1>1, <2>2 DEF Wrote, link
  <2>4. Registered' \subseteq Idlers \cup {IF server = "authenticated" THEN "features_sasl"
                                           ELSE "features"}
    <3>1. /\ "stream_error" \in Handlers /\ "features" \in Handlers
          /\ "features_sasl" \in Handlers
      BY DEF Handlers
    <3>2. /\ handlers \in Seq(Handlers) /\ IsInjective(handlers)
      BY DEF Known, ListInv, HandlersOnce
    <3>3. /\ Added("stream_error") \in Seq(Handlers)
          /\ Range(Added("stream_error")) \subseteq Registered \cup {"stream_error"}
          /\ Range(Added("features_sasl")) \subseteq Registered \cup {"features_sasl"}
      BY <3>1, <3>2, AddedToKeeps, AddedToAdds DEF Added, Registered
    <3>4. Range(AddedTo(Added("stream_error"), "features"))
            \subseteq Registered \cup {"stream_error", "features"}
      BY <3>1, <3>3, AddedToAdds
    <3>5. handlers' = IF server = "authenticated" THEN Added("features_sasl")
                      ELSE AddedTo(Added("stream_error"), "features")
      BY <1>3, <2>1 DEF HandleStreamStart, StreamHeader, OpenHandlers, WaitsForHeader, Known,
         TypeOK
    <3>6. Registered \subseteq Idlers
      BY <2>1 DEF WaitsForHeader
    <3> QED BY <3>3, <3>4, <3>5, <3>6 DEF Registered, Idlers
  <2> QED BY <1>1, <2>1, <2>2, <2>3, <2>4, TalkHeader
<1>4. CASE Head(inbox).event = "text" /\ TextOutsideStanza
  <2>1. Tail(inbox) = <<>>
    BY <1>1, <1>4, FirstOfInbox, MessagesDiffer
  <2>2. /\ Stays("close") /\ Registered' = Registered /\ UNCHANGED <<phase, stanza, todo, xml>>
    BY <1>4, NoFailure DEF TextOutsideStanza, Registered, loop, stream
  <2>3. Written("close") /\ UNCHANGED <<state, evbuffer>>
    BY <1>1, <2>2, WroteWritten DEF Stays
  <2>4. Handling' => Handling /\ stanza' = stanza
    BY <1>1, <2>2 DEF Handling
  <2> QED BY <1>1, <2>1, <2>2, <2>3, <2>4, TalkCalm DEF HeaderDue
<1>5. CASE Head(inbox).event = "stanza" /\ FireStanza(Head(inbox).stanza)
  <2>1. PICK s \in Stanzas : /\ inbox = <<Whole(s)>> /\ Head(inbox) = Whole(s)
                             /\ Tail(inbox) = <<>> /\ Fits(s)
    BY <1>1, <1>5, FirstOfInbox, MessagesDiffer
  <2>2. /\ UNCHANGED link /\ stanza' = s /\ Registered' = Registered
    BY <1>5, <2>1, MessagesDiffer DEF FireStanza, Registered
  <2>3. outbox' = outbox /\ state' = state
    BY <1>1, <2>2 DEF Wrote, link
  <2>4. inbox # <<>> /\ inbox # <<Text>>
    BY <2>1, MessagesDiffer
  <2>5. Requests = {} /\ ~authenticated /\ state # "CONNECTING" /\ OneRequest
    BY <2>4 DEF TalkInv, AtRest, ComesUp
  <2>6. Requests' = {} /\ OneRequest'
    BY <2>3, <2>5 DEF Requests, OneRequest
  <2>7. Fits(s)'
    BY <1>1, <2>1, <2>2 DEF Fits, WaitsForFeatures, WaitsForTls, WaitsForSasl, WaitsForReply,
       Waits, FeaturesNow
  <2> QED BY <1>1, <2>1, <2>2, <2>3, <2>5, <2>6, <2>7 DEF TalkInv
<1>6. CASE ReadError
  <2>1. /\ Closed /\ phase' = "idle" /\ Registered' = Registered
    BY <1>1, <1>6, ClosesOnce DEF ReadError, Known, Registered
  <2>2. /\ outbox' = outbox /\ Written("close") /\ ~Handling' /\ state' = "DISCONNECTED"
    BY <1>1, <2>1 DEF Wrote, Written, Closed, Handling
  <2>3. CASE Tail(inbox) = <<>>
    BY <1>1, <2>1, <2>2, <2>3, TalkCalm
  <2>4. ASSUME NEW s \in FeaturesNow, inbox = <<Header, Whole(s)>>, WaitsForHeader,
               Tail(inbox) = <<Whole(s)>>, s \in Stanzas
        PROVE  TalkInv'
    <3>1. Registered' \subseteq Idlers
      BY <2>1, <2>4 DEF WaitsForHeader
    <3> QED BY <1>1, <2>1, <2>2, <2>4, <3>1, TalkHeader
  <2> QED BY <1>1, <2>3, <2>4, FirstOfInbox
<1> QED BY <1>2, <1>3, <1>4, <1>5, <1>6 DEF SessionParse

\* The server answers a request, and the client then waits for what it said.
LEMMA TalkAnswers ==
  ASSUME ClientInv, QueueInv, TalkInv, ServerAnswers
  PROVE  TalkInv'
<1> DEFINE e == Head(outbox)
<1>1. PICK a \in Answers(e, server) : inbox' = inbox \o a[1] /\ server' = a[2]
  BY DEF ServerAnswers
<1> SUFFICES ASSUME server' # "closed" PROVE TalkInv'
  BY DEF TalkInv
<1>2. /\ server # "closed" /\ outbox # <<>> /\ outbox' = Tail(outbox)
      /\ UNCHANGED vars /\ e \in Elements \ {"none"}
  BY OutboxTail DEF ServerAnswers, QueueInv
<1>3. e # "close" => e \in Requests /\ Requests' = {} /\ OneRequest'
  BY <1>2, RequestTaken DEF TalkInv
<1>4. /\ UNCHANGED <<authenticated, state, open_handler, id_handlers, phase, stanza, todo,
                     parser_reset, xml>>
      /\ Registered' = Registered
  BY <1>2 DEF vars, link, flags, stream, loop, Registered
<1>5. ASSUME e # "close", inbox' # <<>>, Answered' PROVE TalkInv'
  <2>1. inbox = <<>> /\ ~Handling /\ ~authenticated /\ state # "CONNECTING"
    BY <1>2, <1>3, <1>5 DEF TalkInv, AtRest, ComesUp
  <2>2. ~Handling'
    BY <1>4, <2>1 DEF Handling
  <2> QED BY <1>3, <1>4, <1>5, <2>1, <2>2 DEF TalkInv
<1>6. ASSUME e # "close", NEW s \in Stanzas, a[1] = <<Whole(s)>>, Fits(s)' PROVE TalkInv'
  <2>1. inbox = <<>>
    BY <1>2, <1>3, <1>6 DEF TalkInv
  <2>2. inbox' = <<Whole(s)>>
    <3>1. <<Whole(s)>> \in Seq(Messages)
      BY <1>6, StanzaTypes, ShortQueues
    <3> QED BY <1>1, <1>6, <2>1, <3>1, ConcatEmptySeq
  <2>3. inbox' # <<>> /\ Answered'
    BY <1>6, <2>2 DEF Answered
  <2> QED BY <1>5, <1>6, <2>3
<1>7. e # "close" => Asked(e)
  BY <1>2, <1>3 DEF TalkInv
<1>8. \A m \in {"result", "error"} : /\ Reply(BindId, m) \in Stanzas /\ BindId \in Ids
                                     /\ Reply(SessionId, m) \in Stanzas /\ SessionId \in Ids
  <2>1. BindId \in Ids /\ SessionId \in Ids
    BY DEF Ids
  <2> QED BY <2>1, StanzaTypes
<1>9. server # "handshake"
  BY <1>1, <1>2, AnswerForms
<1>10. CASE e = "stream"
  <2>1. PICK o \in OffersAt(server) : a = <<<<Header, Whole(FeaturesOf(o))>>, server>>
    BY <1>2, <1>9, <1>10, AnswerForms
  <2> DEFINE s == FeaturesOf(o)
  <2>2. s \in FeaturesNow /\ s \in Stanzas
    BY StanzaTypes DEF FeaturesNow
  <2> HIDE DEF s
  <2>3. /\ a[1] = <<Header, Whole(s)>> /\ server' = server /\ <<Header, Whole(s)>> # <<>>
    BY <1>1, <2>1 DEF s
  <2>4. inbox = <<>>
    BY <1>2, <1>3, <1>10 DEF TalkInv
  <2>5. inbox' = <<Header, Whole(s)>>
    <3>1. <<Header, Whole(s)>> \in Seq(Messages)
      BY <2>2, StanzaTypes, ShortQueues, MessagesDiffer
    <3> QED BY <1>1, <2>3, <2>4, <3>1, ConcatEmptySeq
  <2>6. WaitsForHeader'
    BY <1>4, <1>7, <1>10, <2>3 DEF Asked, WaitsForHeader, HeaderDue
  <2>7. FeaturesNow' = FeaturesNow
    BY <2>3 DEF FeaturesNow
  <2>8. Answered'
    BY <2>2, <2>5, <2>6, <2>7 DEF Answered
  <2> QED BY <1>5, <1>10, <2>3, <2>5, <2>8
<1>11. CASE e = "starttls"
  <2>1. a = <<<<Tls("proceed")>>, "handshake">>
    BY <1>1, <1>2, <1>9, <1>11, AnswerForms
  <2>2. Element("proceed", "tls") \in Stanzas /\ a[1] = <<Whole(Element("proceed", "tls"))>>
        /\ server' = "handshake"
    BY <1>1, <2>1, StanzaTypes DEF Tls
  <2>3. Fits(Element("proceed", "tls"))'
    BY <1>4, <1>7, <1>11, <2>2 DEF Asked, Fits, WaitsForTls, Waits
  <2> QED BY <1>6, <1>11, <2>2, <2>3
<1>12. CASE e \in {"auth_plain", "auth_digest", "response", "empty_response"}
  <2>1. PICK n \in {"success", "failure", "challenge"} :
          a = <<<<Sasl(n)>>, IF n = "success" THEN "authenticated" ELSE server>>
    BY <1>2, <1>9, <1>12, AnswerForms
  <2>2. Element(n, "sasl") \in Stanzas /\ a[1] = <<Whole(Element(n, "sasl"))>>
        /\ server' = IF n = "success" THEN "authenticated" ELSE server
    BY <1>1, <2>1, StanzaTypes DEF Sasl
  <2>3. Fits(Element(n, "sasl"))'
    BY <1>4, <1>7, <1>12, <2>2 DEF Asked, Fits, WaitsForSasl, Waits
  <2> QED BY <1>6, <1>12, <2>2, <2>3
<1>13. CASE e \in {"bind", "session"}
  <2> HIDE DEF e
  <2>1. PICK i \in Ids, t \in {"result", "error"} :
          /\ a = <<<<Whole(Reply(i, t))>>, server>> /\ Reply(i, t) \in Stanzas
          /\ i = IF e = "bind" THEN BindId ELSE SessionId
    <3>1. \/ e = "bind" /\ \E t \in {"result", "error"} : a = <<<<Whole(Reply(BindId, t))>>, server>>
          \/ e = "session" /\ \E t \in {"result", "error"} : a = <<<<Whole(Reply(SessionId, t))>>, server>>
      BY ONLY <1>2, <1>9, <1>13, AnswerForms DEF e
    <3> QED BY ONLY <3>1, <1>8
  <2>2. a[1] = <<Whole(Reply(i, t))>> /\ server' = server
    BY <1>1, <2>1
  <2>3. WaitsForReply(i)
    BY <1>7, <1>13, <2>1 DEF Asked
  <2>4. WaitsForReply(i)'
    BY <1>4, <2>2, <2>3 DEF WaitsForReply
  <2>5. Fits(Reply(i, t))'
    BY <2>4 DEF Fits
  <2> QED BY <1>6, <1>13, <2>1, <2>2, <2>5
<1>14. CASE e = "close"
  <2> HIDE DEF e
  <2>1. a = <<<<End_>>, "closed">>
    BY ONLY <1>2, <1>9, <1>14, AnswerForms
  <2>2. a[2] = "closed"
    BY ONLY <2>1
  <2> QED BY <1>1, <2>2
<1> QED BY <1>2, <1>10, <1>11, <1>12, <1>13, <1>14 DEF Elements

\* The application, the loop and the server.
LEMMA TalkOutside ==
  ASSUME Known, ClientInv, CloseInv, QueueInv, TalkInv, ~LibeventFails, attempts' <= 1,
         SessionConnect \/ SessionDisconnect \/ SessionDisableTls \/ SessionUp \/ SessionDown
           \/ SessionRead \/ Server \/ UNCHANGED all
  PROVE  TalkInv'
<1>1. CASE SessionConnect
  <2>1. /\ state' = "CONNECTING" /\ evbuffer' = "tcp" /\ phase' = "idle"
        /\ outbox' = <<>> /\ inbox' = <<>> /\ server' = "plain"
    BY <1>1 DEF SessionConnect, xmpp_connect_client, loop, Known, Basics, TypeOK
  <2>2. DOMAIN <<>> = {}
    OBVIOUS
  <2>3. Requests' = {} /\ OneRequest' /\ ~Handling'
    BY <2>1, <2>2 DEF Requests, OneRequest, Handling, Range
  <2> QED BY <2>1, <2>3 DEF TalkInv, ComesUp, AtRest
<1>2. CASE SessionDown \/ ServerRefuses \/ ServerEnds
  BY <1>2 DEF SessionDown, ServerRefuses, ServerEnds, TalkInv
<1>3. CASE SessionDisconnect
  <2>1. /\ Stays("close") /\ Wrote /\ Registered' = Registered
        /\ UNCHANGED <<inbox, server, open_handler, id_handlers, authenticated, parser_reset, xml,
                       phase, stanza, todo>>
    BY <1>3, NoFailure DEF SessionDisconnect, AppDisconnect, Registered, stream, loop, flags
  <2>2. Written("close") /\ UNCHANGED <<state, evbuffer>>
    BY <2>1, WroteWritten DEF Stays
  <2> QED BY <2>1, <2>2, TalkCalm DEF HeaderDue, Handling
<1>4. CASE SessionDisableTls \/ UNCHANGED all
  <2>1. /\ Registered' = Registered
        /\ UNCHANGED <<inbox, outbox, server, open_handler, id_handlers, authenticated,
                       parser_reset, xml, phase, stanza, todo, state, evbuffer>>
    BY <1>4 DEF SessionDisableTls, xmpp_conn_disable_tls, Registered, link, stream, loop, network,
       all, vars, flags
  <2> QED BY <2>1, TalkCalm DEF HeaderDue, Handling, Written
<1>5. CASE SessionRead
  <2>1. /\ Registered' = Registered /\ phase = "idle" /\ phase' = "reading"
        /\ UNCHANGED <<inbox, outbox, server, open_handler, id_handlers, authenticated, state,
                       evbuffer>>
        /\ xml' = (IF parser_reset THEN "fresh" ELSE xml) /\ state = "CONNECTED"
    BY <1>5 DEF SessionRead, evb_read_cb, Registered, link, flags, network
  <2>2. ~Handling'
    BY <2>1 DEF Handling
  <2>3. HeaderDue => HeaderDue'
    BY <2>1 DEF HeaderDue
  <2> QED BY <2>1, <2>2, <2>3, TalkCalm DEF Written
<1>6. CASE SessionUp
  <2>1. /\ state = "CONNECTING" /\ state' # "CONNECTING" /\ phase' = "idle" /\ parser_reset'
        /\ open_handler' = "auth_handle_open" /\ UNCHANGED <<id_handlers, authenticated, inbox>>
        /\ Registered' = Registered
        /\ sent' \in {sent, "stream"} /\ Wrote
        /\ \/ evbuffer = "tcp" /\ UNCHANGED server
           \/ evbuffer = "ssl" /\ server' = "tls" /\ server # "closed"
    BY <1>6 DEF SessionUp, EvbConnected, conn_reset_stream, loop, Registered
  <2> SUFFICES ASSUME server # "closed" PROVE TalkInv'
    BY <2>1 DEF TalkInv
  <2>2. Written("stream") /\ "stream" \in Elements \ {"none"}
    BY <2>1, WroteWritten DEF Elements
  <2>3. Requests = {} /\ inbox = <<>> /\ OneRequest /\ server' \in {"plain", "tls"}
    BY <2>1 DEF TalkInv, ComesUp, AtRest
  <2>4. Requests' \subseteq {"stream"} /\ OneRequest'
    BY <2>2, <2>3, RequestsWritten
  <2>5. ~authenticated
    BY <2>1 DEF Known, Stages, Opening, Authenticating, Accepted, Begun
  <2>6. Registered \subseteq Idlers /\ id_handlers = {}
    BY <2>1 DEF ClientInv
  <2>7. Asked("stream")'
    BY <2>1, <2>3, <2>6 DEF Asked, WaitsForHeader, HeaderDue
  <2>8. ~Handling'
    BY <2>1 DEF Handling
  <2> QED BY <2>1, <2>3, <2>4, <2>5, <2>7, <2>8 DEF TalkInv
<1>7. CASE ServerAnswers
  BY <1>7, TalkAnswers
<1>8. CASE ServerKeepsAlive
  <2>1. /\ inbox' = <<Text>> /\ authenticated /\ server # "closed" /\ UNCHANGED <<outbox, server>>
        /\ UNCHANGED <<authenticated, state, open_handler, id_handlers, phase, stanza, todo>>
        /\ Registered' = Registered
    BY <1>8 DEF ServerKeepsAlive, vars, link, flags, stream, loop, Registered
  <2>2. AtRest /\ state # "CONNECTING" /\ OneRequest
    <3>1. state = "CONNECTING" => ~authenticated
      BY DEF Known, Stages, Opening, Authenticating, Accepted, Begun
    <3> QED BY <2>1, <3>1 DEF TalkInv
  <2>3. Requests' = {} /\ OneRequest' /\ ~Handling'
    BY <2>1, <2>2 DEF AtRest, Requests, OneRequest, Handling
  <2> QED BY <2>1, <2>2, <2>3 DEF TalkInv, AtRest
<1> QED BY <1>1, <1>2, <1>3, <1>4, <1>5, <1>6, <1>7, <1>8 DEF Server

-----------------------------------------------------------------------------
(* The theorems.                                                            *)

\* The first connection keeps its turns.
LEMMA SessionInvHolds == ASSUME ~LibeventFails PROVE SessionSpec => []SessionInv
<1>1. SessionInit => SessionInv
  <2> SUFFICES ASSUME SessionInit PROVE ClientInv /\ CloseInv /\ QueueInv /\ TalkInv
    BY DEF SessionInv
  <2>1. DOMAIN <<>> = {} /\ Range(<<>>) = {}
    BY DEF Range
  <2>2. Registered = {}
    BY <2>1 DEF SessionInit, Init, Registered
  <2>3. ClientInv
    BY <2>2 DEF SessionInit, Init, ClientInv, AtMostOne, HeaderDue
  <2>4. CloseInv
    BY DEF SessionInit, Init, CloseInv
  <2>5. QueueInv
    <3>1. <<>> \in Seq(Messages) /\ <<>> \in Seq(Elements \ {"none"})
      BY EmptySeq
    <3> QED BY <2>1, <3>1 DEF SessionInit, QueueInv, Shape
  <2>6. TalkInv
    BY DEF SessionInit, TalkInv
  <2> QED BY <2>3, <2>4, <2>5, <2>6
<1>2. /\ TypeOK /\ ListInv /\ BufferOwned /\ FirstInv /\ QueueTypes /\ QueueTypes'
      /\ SessionInv /\ [SessionNext]_all
      => SessionInv'
  <2> SUFFICES ASSUME TypeOK, ListInv, BufferOwned, FirstInv, QueueTypes, QueueTypes', SessionInv,
                      [SessionNext]_all, attempts' <= 1
               PROVE  ClientInv' /\ CloseInv' /\ QueueInv' /\ TalkInv'
    BY DEF SessionInv
  <2>1. attempts <= 1
    BY SessionStepIsConnStep, AttemptsGrow
  <2>2. Known /\ ClientInv /\ CloseInv /\ QueueInv /\ TalkInv
    BY <2>1 DEF SessionInv, FirstInv, Known
  <2>3. ClientInv'
    <3>1. CASE SessionCallback
      BY <2>2, <3>1, ClientCallback DEF SessionCallback
    <3> QED BY <2>2, <3>1, ClientOutside, ClientParses DEF SessionNext
  <2>4. CloseInv'
    BY <2>2, CloseStep
  <2>5. QueueInv'
    BY <2>2, QueueStep
  <2>6. TalkInv'
    BY <2>2, TalkOutside, TalkCallback, TalkParse DEF SessionNext
  <2> QED BY <2>3, <2>4, <2>5, <2>6
<1> QED BY <1>1, <1>2, SessionIsConn, TypeCorrect, ListInvHolds, BufferIsOwned, FirstInvHolds,
           QueueTypesHold, PTL DEF SessionSpec

(***************************************************************************)
(* On the first connection with a server that keeps to the protocol, no    *)
(* pointer is freed twice and no null pointer is copied, whatever features *)
(* the server offers and whenever the application disconnects.             *)
(***************************************************************************)
THEOREM NothingUndefined ==
  ASSUME ~LibeventFails PROVE SessionSpec => [](attempts <= 1 => NoFault)
<1>1. SessionInv => (attempts <= 1 => NoFault)
  BY DEF SessionInv, CloseInv, NoFault, Running
<1> QED BY <1>1, SessionInvHolds, PTL

(***************************************************************************)
(* On the first connection client and server agree on the layer of the     *)
(* stream: what is written there may be said on it, and the header of a    *)
(* new stream finds a parser that will start afresh.                       *)
(***************************************************************************)
THEOREM StreamsAreAgreed ==
  ASSUME ~LibeventFails PROVE SessionSpec => [](attempts <= 1 => StreamsAgree)
<1>1. SessionInv => (attempts <= 1 => StreamsAgree)
  <2> SUFFICES ASSUME QueueInv, TalkInv PROVE StreamsAgree
    BY DEF SessionInv
  <2>1. ASSUME NEW r \in Range(outbox) PROVE r \in ElementsFor(server)
    <3>1. r \in Elements \ {"none"}
      BY RangeOfSeq DEF QueueInv
    <3>2. CASE server = "closed"
      BY <3>1, <3>2 DEF ElementsFor
    <3>3. CASE server # "closed" /\ r = "close"
      BY <3>1, <3>3 DEF ElementsFor, QueueInv, Layers
    <3>4. CASE server # "closed" /\ r # "close"
      <4>1. Asked(r)
        BY <3>4 DEF TalkInv, Requests
      <4>2. r \in {"starttls"} => server = "plain"
        BY <4>1 DEF Asked
      <4>3. r \in {"bind", "session"} => server = "authenticated"
        BY <4>1 DEF Asked, WaitsForReply
      <4>4. r \in {"auth_plain", "auth_digest", "response", "empty_response"} =>
              server \in {"plain", "tls"}
        BY <4>1 DEF Asked
      <4>5. server # "handshake"
        BY <4>1 DEF Asked, WaitsForHeader, WaitsForReply
      <4>6. r \in {"stream", "starttls", "auth_plain", "auth_digest", "response",
                   "empty_response", "bind", "session"}
        BY <3>1, <3>4 DEF Elements
      <4>7. server \in {"plain", "tls", "authenticated"}
        BY <3>4, <4>5 DEF QueueInv, Layers
      <4> QED BY <3>1, <4>2, <4>3, <4>4, <4>6, <4>7 DEF ElementsFor
    <3> QED BY <3>2, <3>3, <3>4
  <2>2. outbox \in Seq(ElementsFor(server))
    <3>1. outbox \in Seq(Range(outbox))
      BY SeqOfRange DEF QueueInv
    <3>2. Range(outbox) \subseteq ElementsFor(server)
      BY <2>1
    <3> QED BY <3>1, <3>2
  <2> QED BY <2>2 DEF QueueInv, Messages, HeaderDue, StreamsAgree
<1> QED BY <1>1, SessionInvHolds, PTL

-----------------------------------------------------------------------------
(* The events that the application sees.                                    *)

\* The stage is what the last event says.
LEMMA StageIs ==
  ASSUME TypeOK, CloseInv
  PROVE  stage = IF attempts = 0 THEN "new" ELSE
                 IF notified = "none" THEN "connecting" ELSE
                 IF notified = "CONNECT" THEN "up" ELSE "down"
<1>1. attempts # 0 => attempts > 0
  BY DEF TypeOK
<1>2. attempts = 0 => notified = "none"
  BY DEF CloseInv
<1>3. notified \in {"none", "CONNECT", "DISCONNECT"}
  BY DEF TypeOK
<1>4. CASE attempts = 0
  BY <1>2, <1>4 DEF stage
<1>5. CASE attempts # 0
  BY <1>1, <1>3, <1>5 DEF stage
<1> QED BY <1>4, <1>5

\* Only the replies to the bind and to the session give the application an event.
LEMMA NoNotice ==
  ASSUME Known, ClientInv, ~LibeventFails, Callback, phase # "ids"
  PROVE  notified' = notified
<1> DEFINE Same == notified' = notified
<1>1. /\ \A e : Stays(e) => Same
      /\ UNCHANGED link => Same
  BY DEF Stays, link
<1>2. \A h, tls, mechs, past : do_auth(h, tls, mechs, past) => Same
  BY <1>1, NoFailure DEF do_auth
<1>3. \A h : handle_sasl_result(h) => Same
  BY <1>1, <1>2, NoFailure DEF handle_sasl_result, SaslFailure, SaslSuccess, SaslUnexpected
<1>4. CASE HandleSaslResult \/ HandleChallengeResult \/ HandleRspauthResult
  BY <1>3, <1>4 DEF HandleSaslResult, HandleChallengeResult, HandleRspauthResult
<1>5. CASE handle_features
  BY <1>2, <1>5 DEF handle_features
<1>6. CASE handle_proceedtls
  BY <1>1, <1>6 DEF handle_proceedtls, conn_start_ssl
<1>7. CASE \/ ReadDone \/ EnableHandlers \/ SkipHandler \/ handle_stream_error
           \/ \E again \in BOOLEAN : handle_user(again)
  BY <1>1, <1>7, NeverNull
  DEF ReadDone, EnableHandlers, SkipHandler, handle_stream_error, handle_user
<1>8. CASE HandleChallenge \/ HandleRspauth \/ handle_features_sasl
  BY <1>1, <1>8, NoFailure, NeverNull DEF HandleChallenge, HandleRspauth, handle_features_sasl
<1>9. CASE handle_bind \/ handle_session
  BY <1>9 DEF handle_bind, handle_session, CallsId
<1> QED BY <1>4, <1>5, <1>6, <1>7, <1>8, <1>9 DEF Callback

\* CONNECT is given in a login that has not been given an event, DISCONNECT to one that was
\* not given it yet.
LEMMA Notifies ==
  ASSUME Known, ClientInv, CloseInv, ~LibeventFails, attempts' <= 1, [SessionNext]_all
  PROVE  \/ attempts = 0 /\ attempts' # 0 /\ notified' = "none"
         \/ attempts' = attempts /\ notified' = notified
         \/ /\ attempts' = attempts /\ attempts # 0
            /\ \/ notified # "DISCONNECT" /\ notified' = "DISCONNECT"
               \/ notified # "DISCONNECT" /\ notified' = "CONNECT"
<1>1. CASE SessionConnect
  BY <1>1 DEF SessionConnect, xmpp_connect_client, Known, TypeOK
<1>2. CASE SessionDisconnect
  BY <1>2, NoFailure DEF SessionDisconnect, AppDisconnect, Stays, ghosts
<1>3. CASE SessionDisableTls \/ SessionRead \/ SessionUp \/ Server \/ UNCHANGED all
  BY <1>3 DEF SessionDisableTls, xmpp_conn_disable_tls, SessionRead, evb_read_cb, SessionUp,
     EvbConnected, Server, ServerAnswers, ServerRefuses, ServerEnds, ServerKeepsAlive, all,
     vars, link, ghosts
<1>4. CASE SessionDown
  <2>1. state # "DISCONNECTED" /\ Closed /\ attempts' = attempts
    BY <1>4, ClosesOnce DEF SessionDown, EvbClosed, ghosts, Known
  <2> QED BY <2>1 DEF Closed, CloseInv, Known, Basics
<1>5. CASE SessionParse
  <2>1. state # "DISCONNECTED" /\ attempts # 0 /\ notified # "DISCONNECT"
    BY <1>5, ParsesOpen DEF CloseInv
  <2>2. attempts' = attempts
    BY <1>5 DEF SessionParse, HandleStreamStart, StreamHeader, TextOutsideStanza,
       handle_stream_end, FireStanza, ReadError, ghosts
  <2>3. notified' \in {notified, "DISCONNECT"}
    BY <1>5, NoFailure DEF SessionParse, HandleStreamStart, TextOutsideStanza,
       handle_stream_end, FireStanza, ReadError, conn_do_disconnect, Close, Stays, link
  <2> QED BY <2>1, <2>2, <2>3
<1>6. CASE SessionCallback
  <2>1. Callback /\ phase # "idle" /\ attempts' = attempts /\ notified' \in {notified, "CONNECT"}
    BY <1>6, CallbackLink DEF SessionCallback
  <2>2. attempts # 0
    BY <2>1 DEF Known, Basics
  <2>3. ASSUME notified = "DISCONNECT" PROVE notified' = notified
    <3>1. xml = "ended" /\ phase # "ids"
      BY <2>1, <2>3 DEF CloseInv, Known, Basics
    <3> QED BY <2>1, <3>1, NoNotice
  <2> QED BY <2>1, <2>2, <2>3
<1> QED BY <1>1, <1>2, <1>3, <1>4, <1>5, <1>6 DEF SessionNext

(***************************************************************************)
(* The events that the application sees of a connection are those of       *)
(* ConnEvents, step by step: an attempt is given CONNECT at most once and  *)
(* DISCONNECT at most once, and nothing after DISCONNECT.                  *)
(***************************************************************************)
THEOREM EventsInOrder ==
  ASSUME ~LibeventFails, MaxConnects <= 1
  PROVE  SessionSpec => Events!Init /\ [][Events!Next]_stage
<1>1. SessionInit => Events!Init
  BY DEF SessionInit, Init, stage, Events!Init
<1>2. /\ TypeOK /\ TypeOK' /\ ListInv /\ BufferOwned /\ FirstInv /\ SessionInv /\ SessionInv'
      /\ [SessionNext]_all
      => [Events!Next]_stage
  <2> SUFFICES ASSUME TypeOK, TypeOK', ListInv, BufferOwned, FirstInv, SessionInv, SessionInv',
                      [SessionNext]_all
               PROVE  [Events!Next]_stage
    OBVIOUS
  <2>1. attempts <= 1 /\ attempts' <= 1
    BY MaxConnectsAssumption DEF TypeOK
  <2>2. Known /\ ClientInv /\ CloseInv /\ CloseInv'
    BY <2>1 DEF SessionInv, FirstInv, Known
  <2>3. /\ stage = IF attempts = 0 THEN "new" ELSE
                   IF notified = "none" THEN "connecting" ELSE
                   IF notified = "CONNECT" THEN "up" ELSE "down"
        /\ stage' = IF attempts' = 0 THEN "new" ELSE
                    IF notified' = "none" THEN "connecting" ELSE
                    IF notified' = "CONNECT" THEN "up" ELSE "down"
    <3>1. TypeOK /\ CloseInv =>
            stage = IF attempts = 0 THEN "new" ELSE
                    IF notified = "none" THEN "connecting" ELSE
                    IF notified = "CONNECT" THEN "up" ELSE "down"
      BY StageIs
    <3>2. (TypeOK /\ CloseInv =>
             stage = IF attempts = 0 THEN "new" ELSE
                     IF notified = "none" THEN "connecting" ELSE
                     IF notified = "CONNECT" THEN "up" ELSE "down")'
      BY StageIs, PTL
    <3> QED BY <2>2, <3>1, <3>2
  <2>4. notified \in {"none", "CONNECT", "DISCONNECT"}
    BY DEF TypeOK
  <2>5. \/ attempts = 0 /\ attempts' # 0 /\ notified' = "none"
        \/ attempts' = attempts /\ notified' = notified
        \/ /\ attempts' = attempts /\ attempts # 0
           /\ \/ notified # "DISCONNECT" /\ notified' = "DISCONNECT"
              \/ notified # "DISCONNECT" /\ notified' = "CONNECT"
    BY <2>1, <2>2, Notifies
  <2> QED BY <2>3, <2>4, <2>5 DEF Events!Next, Events!Connect, Events!Connected,
             Events!Disconnect
<1> QED BY <1>1, <1>2, SessionIsConn, TypeCorrect, ListInvHolds, BufferIsOwned, FirstInvHolds,
           SessionInvHolds, PTL DEF SessionSpec
=============================================================================
