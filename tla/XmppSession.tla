---------------------------- MODULE XmppSession ----------------------------
(***************************************************************************)
(* The connection of XmppConn with a server that keeps to the protocol:    *)
(* it answers each element the client writes, in order, with one of the    *)
(* answers XMPP allows, and otherwise only announces a stream error, sends *)
(* a whitespace keepalive to a client that is logged in, or closes.        *)
(*                                                                         *)
(* The network is two FIFO queues.  It may break the connection at any     *)
(* time; a chunk that the client reads ends anywhere.  The server is not   *)
(* code of this repository: it is what xmpp-auth.c expects of one.         *)
(***************************************************************************)
EXTENDS XmppConn

\* Such a server, and an application with a full JID.
ASSUME BothConform == Conforming

VARIABLES
  outbox,     \* elements the client wrote and the server has not read
  inbox,      \* what the server wrote and the client has not parsed
  server      \* what the server knows: the stream's layer, or "closed"

network == <<outbox, inbox, server>>
all     == <<vars, network>>

\* The server's streams: before STARTTLS, while it waits for the TLS handshake, over
\* TLS, and after authentication.
Layers == {"plain", "handshake", "tls", "authenticated"}

Header     == [event |-> "header", stanza |-> NoStanza]
Text       == [event |-> "text",   stanza |-> NoStanza]
End_       == [event |-> "end",    stanza |-> NoStanza]
Whole(s)   == [event |-> "stanza", stanza |-> s]

SessionInit == Init /\ outbox = <<>> /\ inbox = <<>> /\ server = "closed"

-----------------------------------------------------------------------------
(* The client: XmppConn, with what it writes put into outbox.  No element   *)
(* is ever written twice in a row but a second "close", which adds nothing. *)

Wrote == outbox' = IF sent' = sent \/ server = "closed" THEN outbox ELSE Append(outbox, sent')

SessionConnect ==
  /\ xmpp_connect_client
  /\ outbox' = <<>> /\ inbox' = <<>> /\ server' = "plain"

SessionDisconnect == AppDisconnect /\ Wrote /\ UNCHANGED <<inbox, server>>

SessionDisableTls == xmpp_conn_disable_tls /\ UNCHANGED network

SessionCallback == Callback /\ Wrote /\ UNCHANGED <<inbox, server>>

\* TCP is up, or the TLS handshake that the server also began.
SessionUp ==
  /\ EvbConnected
  /\ \/ evbuffer = "tcp" /\ UNCHANGED server
     \/ evbuffer = "ssl" /\ server = "handshake" /\ outbox = <<>> /\ server' = "tls"
  /\ Wrote /\ UNCHANGED inbox

\* The connection breaks: in time also because the server closed it.
SessionDown ==
  /\ EvbClosed
  /\ outbox' = <<>> /\ inbox' = <<>> /\ server' = "closed"

SessionRead == inbox # <<>> /\ evb_read_cb /\ UNCHANGED network

\* What is left of a stream that the client has restarted in the meantime is not
\* well-formed to the fresh parser.
SessionParse ==
  /\ inbox # <<>>
  /\ LET e == Head(inbox) IN
       \/ e.event = "header" /\ HandleStreamStart(TRUE)
       \/ e.event = "text" /\ TextOutsideStanza
       \/ e.event = "end" /\ handle_stream_end
       \/ e.event = "stanza" /\ FireStanza(e.stanza)
       \/ (e.event = "header") # (xml = "fresh") /\ ReadError
  /\ inbox' = Tail(inbox)
  /\ Wrote /\ UNCHANGED server

-----------------------------------------------------------------------------
(* The server.                                                              *)

OffersAt(layer) ==
  {o \in Offers :
     CASE layer = "plain"         -> o \subseteq {"starttls"} \cup Mechanisms
       [] layer = "tls"           -> o \subseteq Mechanisms
       [] layer = "authenticated" -> "bind" \in o /\ o \subseteq {"bind", "session"}}

Sasl(n) == Whole(Element(n, "sasl"))
Tls(n)  == Whole(Element(n, "tls"))

StreamError == <<Whole(Element("error", "streams")), End_>>

\* The answers to an element, each with the layer that it puts the server on.  Text
\* in place of a TLS handshake makes the server close.
Answers(e, layer) ==
  IF layer = "handshake" THEN {<<<<>>, "closed">>} ELSE
  CASE e = "stream" -> {<<<<Header, Whole(FeaturesOf(o))>>, layer>> : o \in OffersAt(layer)}
    [] e = "starttls" -> {<<<<Tls("proceed")>>, "handshake">>, <<<<Tls("failure"), End_>>, "closed">>}
    [] e = "auth_plain" ->
         {<<<<Sasl("success")>>, "authenticated">>, <<<<Sasl("failure")>>, layer>>}
    [] e = "auth_digest" ->
         {<<<<Sasl("challenge")>>, layer>>, <<<<Sasl("failure")>>, layer>>}
    [] e = "response" ->
         {<<<<Sasl("challenge")>>, layer>>, <<<<Sasl("success")>>, "authenticated">>,
          <<<<Sasl("failure")>>, layer>>}
    [] e = "empty_response" ->
         {<<<<Sasl("success")>>, "authenticated">>, <<<<Sasl("failure")>>, layer>>}
    [] e = "bind" -> {<<<<Whole(Reply(BindId, t))>>, layer>> : t \in {"result", "error"}}
    [] e = "session" -> {<<<<Whole(Reply(SessionId, t))>>, layer>> : t \in {"result", "error"}}
    [] e = "close" -> {<<<<End_>>, "closed">>}

ServerAnswers ==
  /\ server # "closed" /\ outbox # <<>>
  /\ outbox' = Tail(outbox)
  /\ \E a \in Answers(Head(outbox), server) : inbox' = inbox \o a[1] /\ server' = a[2]
  /\ UNCHANGED vars

\* A stream error in place of an answer.
ServerRefuses ==
  /\ server \notin {"closed", "handshake"} /\ outbox # <<>>
  /\ outbox' = Tail(outbox)
  /\ inbox' = inbox \o (IF Head(outbox) = "stream" THEN <<Header>> ELSE <<>>) \o StreamError
  /\ server' = "closed"
  /\ UNCHANGED vars

\* A stream error, or a keepalive, to a client that has bound its resource.
ServerEnds ==
  /\ server = "authenticated" /\ authenticated
  /\ inbox' = inbox \o StreamError
  /\ server' = "closed"
  /\ UNCHANGED <<vars, outbox>>

ServerKeepsAlive ==
  /\ server = "authenticated" /\ authenticated /\ inbox = <<>>
  /\ inbox' = <<Text>>
  /\ UNCHANGED <<vars, outbox, server>>

Server == ServerAnswers \/ ServerRefuses \/ ServerEnds \/ ServerKeepsAlive

SessionNext ==
  \/ SessionConnect \/ SessionDisconnect \/ SessionDisableTls
  \/ SessionCallback \/ SessionUp \/ SessionDown \/ SessionRead \/ SessionParse
  \/ Server

\* The loop runs its callbacks and reads what has come; the server answers; a TCP or
\* TLS handshake ends one way or the other; and the close of a server is noticed once
\* everything it sent was read.  A chunk may hold no complete element, but not for
\* ever, so parsing needs strong fairness.
SessionFairness ==
  /\ WF_all(SessionCallback)
  /\ WF_all(SessionRead)
  /\ SF_all(SessionParse)
  /\ WF_all(SessionUp)
  /\ WF_all(ServerAnswers)
  /\ WF_all(server = "closed" /\ inbox = <<>> /\ SessionDown)

SessionSpec == SessionInit /\ [][SessionNext]_all /\ SessionFairness

-----------------------------------------------------------------------------
\* What a client may still say to a server in that state.
ElementsFor(layer) ==
  CASE layer = "plain"         -> Elements \ {"none", "bind", "session"}
    [] layer = "handshake"     -> {"close"}
    [] layer = "tls"           -> Elements \ {"none", "starttls", "bind", "session"}
    [] layer = "authenticated" -> {"stream", "bind", "session", "close"}
    [] layer = "closed"        -> Elements \ {"none"}

\* Client and server agree on where the stream is: what the client still has to say suits
\* the layer that the server has got to, and the header of a stream that was restarted
\* comes to a parser that has not begun a document, or will start afresh.
StreamsAgree ==
  /\ server \in Layers \cup {"closed"}
  /\ inbox \in Seq({Header, Text, End_} \cup {Whole(s) : s \in Stanzas})
  /\ outbox \in Seq(ElementsFor(server))
  /\ inbox # <<>> /\ Head(inbox) = Header /\ state = "CONNECTED" => parser_reset \/ xml = "fresh"

\* With such a server no pointer is freed twice and no null pointer is copied: each
\* connection is closed once, and the bind of the features is there when it is needed.
NoFault == Running

\* The stage of the application's callback that the state of the connection stands for.
stage == CASE attempts = 0 -> "new"
           [] attempts > 0 /\ notified = "none" -> "connecting"
           [] notified = "CONNECT" -> "up"
           [] notified = "DISCONNECT" -> "down"

Events == INSTANCE ConnEvents

\* The events the application sees are those of ConnEvents: every attempt is resolved,
\* whichever mechanism, layer or answer the server chooses and whenever the application
\* asks to disconnect.
EventsKept == Events!Spec

\* An attempt to log in comes to an end: _handle_bind or _handle_session or a close
\* tells the application.
LoginResolves == stage = "connecting" ~> stage # "connecting"
=============================================================================
