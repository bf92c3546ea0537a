------------------------------ MODULE XmppConn ------------------------------
(***************************************************************************)
(* One xmpp_conn_t of imcore: the connection life cycle of xmpp-conn.c,    *)
(* the handshake of xmpp-auth.c, and as much of xmpp-handler.c (the        *)
(* dispatch of a stanza), xmpp-parser-expat.c (the deferred reset, what    *)
(* expat can report in which order) and libevent as those two need.        *)
(*                                                                         *)
(* The event loop runs one callback at a time.  The variable phase says    *)
(* where it is:                                                            *)
(*    "idle"      in the loop, between callbacks                           *)
(*    "reading"   in _evb_read_cb, inside parser_feed                      *)
(*    "ids"       in handler_fire_stanza, about to call the id handler     *)
(*    "handlers"  in handler_fire_stanza, todo being the rest of the list  *)
(* and every handler call is one step, so that what the application does   *)
(* from its own callbacks or threads can fall between any two of them.     *)
(* The server is the environment: it may send any stanza at any time.      *)
(***************************************************************************)
EXTENDS Naturals, SequencesExt

CONSTANTS
  Offers,          \* the <stream:features/> the server may announce
  MaxConnects,     \* how often the application calls xmpp_connect_client
  LibeventFails,   \* whether bufferevent_write and
                   \* bufferevent_openssl_filter_new may report an error
  HashAddInserts,  \* what hash_add does with an absent key in a table that
                   \* has no free function: FALSE is hash.c:100, which
                   \* refuses it; TRUE is what hash.c:30 says and what
                   \* _id_handler_add relies on
  Conforming       \* whether each stream error names its condition, each
                   \* challenge has a text with a nonce, and the JID a node

Mechanisms == {"PLAIN", "DIGEST-MD5"}
Features   == {"starttls", "bind", "session"} \cup Mechanisms

ASSUME OffersAssumption         == Offers \subseteq SUBSET Features
ASSUME MaxConnectsAssumption    == MaxConnects \in Nat
ASSUME LibeventFailsAssumption  == LibeventFails \in BOOLEAN
ASSUME HashAddInsertsAssumption == HashAddInserts \in BOOLEAN
ASSUME ConformingAssumption     == Conforming \in BOOLEAN

-----------------------------------------------------------------------------
(* Stanzas: the ones the handlers tell apart.  "" is an absent attribute.  *)

Element(n, s) == [name |-> n, ns |-> s, id |-> "", type |-> "", offers |-> {}]
Reply(i, t)   == [name |-> "iq", ns |-> "client", id |-> i, type |-> t, offers |-> {}]
FeaturesOf(o) == [name |-> "features", ns |-> "streams", id |-> "", type |-> "", offers |-> o]

BindId    == "imcore_xmpp_bind"
SessionId == "imcore_xmpp_session"
Ids       == {BindId, SessionId}

Stanzas ==
  {FeaturesOf(o) : o \in Offers}
    \cup {Element("error", "streams"), Element("message", "client")}
    \cup {[Element("message", "client") EXCEPT !.offers = {f}] : f \in {"starttls", "PLAIN"}}
    \cup {Element(n, "tls")  : n \in {"proceed", "failure"}}
    \cup {Element(n, "sasl") : n \in {"challenge", "success", "failure", "abort"}}
    \cup {Reply(i, t) : i \in Ids, t \in {"result", "error", "set"}}

NoStanza == Element("", "")

\* The namespace of the child element that announces a feature; any stanza may
\* have such a child.
NamespaceOf(f) ==
  CASE f = "starttls" -> "tls" [] f \in Mechanisms -> "sasl" [] OTHER -> f

\* The functions registered with handler_add; "user" stands for one that the
\* application registered with xmpp_handler_add, without any filter.
Handlers == {"stream_error", "features", "proceedtls", "sasl_result",
             "digestmd5_challenge", "digestmd5_rspauth", "features_sasl", "user"}

\* The ns and the name each of them is registered with.
FilterNs(h) ==
  CASE h \in {"stream_error", "features", "features_sasl"} -> "streams"
    [] h = "proceedtls" -> "tls"
    [] h \in {"sasl_result", "digestmd5_challenge", "digestmd5_rspauth"} -> "sasl"
    [] h = "user" -> ""

FilterName(h) ==
  CASE h = "stream_error" -> "error"
    [] h \in {"features", "features_sasl"} -> "features"
    [] OTHER -> ""

Matches(h, s) ==
  /\ \/ FilterNs(h) \in {"", s.ns}
     \/ \E f \in s.offers : NamespaceOf(f) = FilterNs(h)
  /\ FilterName(h) \in {"", s.name}

-----------------------------------------------------------------------------
VARIABLES
  state,            \* conn->state
  evbuffer,         \* what conn->evbuffer points to; "freed": a stale pointer
  secured, authenticated, tls_disabled, tls_support, sasl_support,
  bind_required, session_required,
  stream_error,     \* whether conn->stream_error is set
  error,            \* conn->error
  stream_id,        \* conn->stream_id: "null", "set", or "freed" but not NULL
  open_handler,     \* conn->open_handler
  handlers,         \* conn->handlers, in list order
  id_handlers,      \* the ids under which conn->id_handlers has an entry
  timers,           \* conn->timed_handlers
  parser_reset,     \* parser->reset
  xml,              \* what the expat parser has seen of the document
  phase, stanza, todo,
  fault,            \* the undefined behaviour that ended the program, if any
  attempts,         \* calls of xmpp_connect_client so far
  notified,         \* the last event given to conn_handler in this attempt
  sent,             \* the last element written in this attempt
  offered, tried,   \* the last features read in this attempt, and the
                    \* mechanisms tried since
  accepted          \* whether a SASL <success/> was accepted in this attempt

link   == <<state, evbuffer, notified, fault, sent>>
flags  == <<secured, authenticated, tls_disabled, tls_support, sasl_support,
            bind_required, session_required>>
errors == <<stream_error, error>>
stream == <<stream_id, open_handler, parser_reset, xml>>
loop   == <<phase, stanza, todo>>
ghosts == <<attempts, offered, tried, accepted>>
vars   == <<link, flags, errors, stream, loop, ghosts, handlers, id_handlers, timers>>

Elements == {"none", "stream", "starttls", "auth_plain", "auth_digest", "response",
             "empty_response", "bind", "session", "close"}

TypeOK ==
  /\ state \in {"DISCONNECTED", "CONNECTING", "CONNECTED"}
  /\ evbuffer \in {"null", "tcp", "ssl", "freed"}
  /\ secured \in BOOLEAN /\ authenticated \in BOOLEAN
  /\ tls_disabled \in BOOLEAN /\ tls_support \in BOOLEAN
  /\ sasl_support \subseteq Mechanisms
  /\ bind_required \in BOOLEAN /\ session_required \in BOOLEAN
  /\ stream_error \in BOOLEAN
  /\ error \in {"none", "ECONNRESET"}
  /\ stream_id \in {"null", "set", "freed"}
  /\ open_handler \in {"auth_handle_open", "auth_handle_open_sasl"}
  /\ handlers \in Seq(Handlers)
  /\ id_handlers \subseteq Ids
  /\ timers \subseteq {"disconnect_cleanup", "user"}
  /\ parser_reset \in BOOLEAN
  /\ xml \in {"fresh", "open", "ended"}
  /\ phase \in {"idle", "reading", "ids", "handlers"}
  /\ stanza \in Stanzas \cup {NoStanza}
  /\ todo \in Seq(Handlers) /\ (phase = "handlers" <=> todo # <<>>)
  /\ fault \in {"none", "double_free", "null_dereference", "bad_call"}
  /\ attempts \in 0 .. MaxConnects
  /\ notified \in {"none", "CONNECT", "DISCONNECT"}
  /\ sent \in Elements
  /\ offered \subseteq Features
  /\ tried \in Seq(Mechanisms)
  /\ accepted \in BOOLEAN

\* xmpp_conn_new
Init ==
  /\ state = "DISCONNECTED" /\ evbuffer = "null"
  /\ secured = FALSE /\ authenticated = FALSE
  /\ tls_disabled = FALSE /\ tls_support = FALSE /\ sasl_support = {}
  /\ bind_required = FALSE /\ session_required = FALSE
  /\ stream_error = FALSE /\ error = "none"
  /\ stream_id = "null"
  /\ open_handler = "auth_handle_open" /\ parser_reset = TRUE
  /\ xml = "ended"                       \* no expat parser has been made yet
  /\ handlers = <<>> /\ id_handlers = {} /\ timers = {}
  /\ phase = "idle" /\ stanza = NoStanza /\ todo = <<>>
  /\ fault = "none"
  /\ attempts = 0 /\ notified = "none" /\ sent = "none"
  /\ offered = {} /\ tried = <<>> /\ accepted = FALSE

-----------------------------------------------------------------------------
(* What several handlers do.  Each of these determines the next value of    *)
(* link and timers, and of nothing else.                                    *)

\* Faulty variant: the state is left as it was.
CloseKeepsState ==
  /\ UNCHANGED <<state, sent>>
  /\ evbuffer' = "freed"
  /\ notified' = "DISCONNECT"
  /\ fault' = IF evbuffer = "freed" THEN "double_free" ELSE fault

\* conn_do_disconnect, but for the timer.  It does not look at state, and
\* leaves the freed pointer in evbuffer.
Close ==
  /\ state' = "DISCONNECTED"
  /\ evbuffer' = "freed"
  /\ notified' = "DISCONNECT"
  /\ fault' = IF evbuffer = "freed" THEN "double_free" ELSE fault
  /\ UNCHANGED sent

\* Faulty variant: the cleanup timer is left running.
conn_do_disconnect_keeps_timer == Close /\ UNCHANGED timers

conn_do_disconnect ==
  /\ Close
  /\ timers' = timers \ {"disconnect_cleanup"}

\* A pointer to what the server or the application left out is followed.
NullDereference ==
  /\ ~Conforming
  /\ fault' = "null_dereference"
  /\ UNCHANGED <<state, evbuffer, notified, sent>>

\* xmpp_send_raw
Write(e) ==
  \/ state # "CONNECTED" /\ UNCHANGED link
  \/ state = "CONNECTED" /\ sent' = e /\ UNCHANGED <<state, evbuffer, notified, fault>>
  \/ state = "CONNECTED" /\ LibeventFails /\ Close

xmpp_send(e) ==
  /\ Write(e)
  /\ timers' = IF state' = state THEN timers ELSE timers \ {"disconnect_cleanup"}

\* The timer is set after the write, even when the write closed the connection.
xmpp_disconnect ==
  /\ Write("close")
  /\ timers' = IF state = "DISCONNECTED" THEN timers
               ELSE timers \cup {"disconnect_cleanup"}

\* Faulty variant: the parser goes on with the old document.
conn_reset_stream_keeps_parser(h) ==
  /\ open_handler' = h
  /\ UNCHANGED <<parser_reset, stream_id, xml>>

conn_reset_stream(h) ==
  /\ open_handler' = h
  /\ parser_reset' = TRUE
  /\ UNCHANGED <<stream_id, xml>>

\* Faulty variant: the check for a registered function is missing.
AddedAgain(list, h) == Append(list, h)

\* handler_add: a function is registered once, at the tail.
AddedTo(list, h) == IF Contains(list, h) THEN list ELSE Append(list, h)

Added(h) == AddedTo(handlers, h)

\* list_del of the item of a list that holds h.
Unlink(list, h) == RemoveAt(list, CHOOSE i \in DOMAIN list : list[i] = h)

\* handler_add_id, by way of hash_add.
IdAdded(i) == IF HashAddInserts \/ i \in id_handlers THEN id_handlers \cup {i}
              ELSE id_handlers

-----------------------------------------------------------------------------
(* The connection.                                                          *)

Running == fault = "none"

\* The application connects a connection that is not in use: at first, or after
\* (perhaps from) the DISCONNECT callback.  Nothing of the previous attempt is
\* reset.
xmpp_connect_client ==
  /\ Running /\ state = "DISCONNECTED" /\ attempts < MaxConnects
  /\ state' = "CONNECTING" /\ evbuffer' = "tcp"
  /\ attempts' = attempts + 1
  /\ notified' = "none" /\ sent' = "none"
  /\ offered' = {} /\ tried' = <<>> /\ accepted' = FALSE
  /\ UNCHANGED <<flags, errors, stream, loop, handlers, id_handlers, timers, fault>>

\* bufferevent_socket_connect fails: the new buffer is freed, not forgotten.
ConnectClientFails ==
  /\ Running /\ state = "DISCONNECTED" /\ attempts < MaxConnects
  /\ evbuffer' = "freed"
  /\ UNCHANGED <<state, notified, fault, sent, flags, errors, stream, loop, ghosts,
                 handlers, id_handlers, timers>>

xmpp_conn_disable_tls ==
  /\ Running /\ ~tls_disabled
  /\ tls_disabled' = TRUE
  /\ UNCHANGED <<link, secured, authenticated, tls_support, sasl_support, bind_required,
                 session_required, errors, stream, loop, ghosts, handlers, id_handlers,
                 timers>>

\* conn->secured once the connection is up.
TlsUp == secured \/ evbuffer = "ssl"

\* _evb_event_cb, BEV_EVENT_CONNECTED: the TCP connection or the TLS session is up.
EvbConnected ==
  /\ Running /\ phase = "idle" /\ state = "CONNECTING"
  /\ secured' = TlsUp
  /\ conn_reset_stream("auth_handle_open")
  /\ \/ /\ state' = "CONNECTED" /\ sent' = "stream"
        /\ UNCHANGED <<evbuffer, notified, fault, timers>>
     \/ LibeventFails /\ conn_do_disconnect
  /\ UNCHANGED <<authenticated, tls_disabled, tls_support, sasl_support, bind_required,
                 session_required, errors, loop, ghosts, handlers, id_handlers>>

\* _evb_event_cb, BEV_EVENT_EOF or BEV_EVENT_ERROR.
EvbClosed ==
  /\ Running /\ phase = "idle" /\ state # "DISCONNECTED"
  /\ error' = "ECONNRESET"
  /\ conn_do_disconnect
  /\ UNCHANGED <<flags, stream_error, stream, loop, ghosts, handlers, id_handlers>>

\* The application calls xmpp_disconnect.
AppDisconnect ==
  /\ Running /\ state # "DISCONNECTED"
  /\ xmpp_disconnect
  /\ UNCHANGED <<flags, errors, stream, loop, ghosts, handlers, id_handlers>>

\* The application calls xmpp_send and the write fails.
AppSendFails ==
  /\ Running /\ state = "CONNECTED" /\ LibeventFails
  /\ conn_do_disconnect
  /\ UNCHANGED <<flags, errors, stream, loop, ghosts, handlers, id_handlers>>

\* xmpp_handler_add, of the function "user".
AppHandlerAdd ==
  /\ Running /\ ~Contains(handlers, "user")
  /\ handlers' = Added("user")
  /\ UNCHANGED <<link, flags, errors, stream, loop, ghosts, id_handlers, timers>>

\* xmpp_timed_handler_add and xmpp_timed_handler_delete.
AppTimedHandler ==
  /\ Running
  /\ timers' = IF "user" \in timers THEN timers \ {"user"} ELSE timers \cup {"user"}
  /\ UNCHANGED <<link, flags, errors, stream, loop, ghosts, handlers, id_handlers>>

\* A timer expires.  _handler_timer_proxy takes the flag user_handler for the
\* function to call, so a user's timer jumps to address 1 before the login and
\* is ignored after it, and the connection's own timers are always ignored.
handler_timer_proxy(t) ==
  /\ Running /\ phase = "idle" /\ t \in timers
  /\ fault' = IF t = "user" /\ ~authenticated THEN "bad_call" ELSE fault
  /\ UNCHANGED <<state, evbuffer, notified, sent, flags, errors, stream, loop, ghosts,
                 handlers, id_handlers, timers>>

-----------------------------------------------------------------------------
(* Reading: _evb_read_cb hands a chunk to parser_feed, and expat reports    *)
(* the events in it.                                                        *)

evb_read_cb ==
  /\ Running /\ phase = "idle" /\ state = "CONNECTED"
  /\ phase' = "reading"
  /\ xml' = IF parser_reset THEN "fresh" ELSE xml
  /\ parser_reset' = FALSE
  /\ UNCHANGED <<link, flags, errors, stream_id, open_handler, stanza, todo, ghosts,
                 handlers, id_handlers, timers>>

\* The chunk is used up.
ReadDone ==
  /\ Running /\ phase = "reading"
  /\ phase' = "idle"
  /\ UNCHANGED <<link, flags, errors, stream, stanza, todo, ghosts, handlers, id_handlers,
                 timers>>

\* XML_Parse fails.
ReadError ==
  /\ Running /\ phase = "reading"
  /\ phase' = "idle"
  /\ xml' = "ended"
  /\ conn_do_disconnect
  /\ UNCHANGED <<flags, errors, stream_id, open_handler, parser_reset, stanza, todo, ghosts,
                 handlers, id_handlers>>

\* Faulty variant: the handler of the second features is there from the start.
OpenHandlersEarly == handlers' = Added("features_sasl")

\* conn->open_handler, called for every stream header, also for one after
\* which the connection has just been closed.
OpenHandlers ==
  handlers' = IF open_handler = "auth_handle_open"
              THEN AddedTo(Added("stream_error"), "features")
              ELSE Added("features_sasl")

StreamHeader ==
  /\ Running /\ phase = "reading" /\ xml = "fresh"
  /\ xml' = "open"
  /\ OpenHandlers
  /\ UNCHANGED <<flags, errors, open_handler, parser_reset, loop, ghosts, id_handlers>>

\* _handle_stream_start, for a root element that is not <stream/>.
HandleBadStreamStart ==
  /\ StreamHeader
  /\ conn_do_disconnect
  /\ UNCHANGED stream_id

\* _handle_stream_start.  The old id is freed but not set to NULL, so a header
\* without an id is noticed only if there was no id before.
HandleStreamStart(hasId) ==
  /\ StreamHeader
  /\ stream_id' = IF hasId THEN "set"
                  ELSE IF stream_id = "null" THEN "null" ELSE "freed"
  /\ \/ /\ stream_id = "freed"
        /\ fault' = "double_free"
        /\ UNCHANGED <<state, evbuffer, notified, sent, timers>>
     \/ /\ stream_id # "freed" /\ stream_id' = "null"
        /\ conn_do_disconnect
     \/ /\ stream_id # "freed" /\ stream_id' # "null"
        /\ UNCHANGED <<link, timers>>

handle_stream_end ==
  /\ Running /\ phase = "reading" /\ xml = "open"
  /\ xml' = "ended"
  /\ conn_do_disconnect
  /\ UNCHANGED <<flags, errors, stream_id, open_handler, parser_reset, loop, ghosts,
                 handlers, id_handlers>>

\* _characters: text between two stanzas, such as a whitespace keepalive.
TextOutsideStanza ==
  /\ Running /\ phase = "reading" /\ xml = "open"
  /\ xmpp_disconnect
  /\ UNCHANGED <<flags, errors, stream, loop, ghosts, handlers, id_handlers>>

-----------------------------------------------------------------------------
(* handler_fire_stanza.                                                     *)

\* A whole stanza has been read; the id handlers come first.
FireStanza(s) ==
  /\ Running /\ phase = "reading" /\ xml = "open"
  /\ phase' = "ids" /\ stanza' = s
  /\ UNCHANGED <<link, flags, errors, stream, todo, ghosts, handlers, id_handlers, timers>>

\* Then every handler now in the list is enabled; the ones added from here on
\* wait for the next stanza.
EnableHandlers ==
  /\ Running /\ phase = "ids" /\ stanza.id \notin id_handlers
  /\ todo' = handlers
  /\ phase' = IF handlers = <<>> THEN "reading" ELSE "handlers"
  /\ stanza' = IF handlers = <<>> THEN NoStanza ELSE stanza
  /\ UNCHANGED <<link, flags, errors, stream, ghosts, handlers, id_handlers, timers>>

\* Faulty variant: the loop goes on past the end of the list.
AdvancePastEnd ==
  /\ todo' = Tail(todo)
  /\ UNCHANGED <<phase, stanza>>

\* The cursor moves to the item saved as the next one; after the last one the stanza
\* is released.
Advance ==
  /\ todo' = Tail(todo)
  /\ phase' = IF Tail(todo) = <<>> THEN "reading" ELSE "handlers"
  /\ stanza' = IF Tail(todo) = <<>> THEN NoStanza ELSE stanza

\* Whether the handler under the cursor is called.
IsCalled(h) == Matches(h, stanza) /\ (h = "user" => authenticated)

Calls(h) ==
  /\ Running /\ phase = "handlers" /\ Head(todo) = h /\ IsCalled(h)

\* The handler returned XMPP_HANDLER_AGAIN or XMPP_HANDLER_END, and left the
\* list as given.
Again(list) == handlers' = list /\ Advance

\* Faulty variant: the next item is freed in place of this one.
EndOfNext(h, list) ==
  /\ handlers' = IF Len(todo) > 1 THEN Unlink(list, todo[2]) ELSE list
  /\ Advance

End(h, list) == handlers' = Unlink(list, h) /\ Advance

SkipHandler ==
  /\ Running /\ phase = "handlers" /\ ~IsCalled(Head(todo))
  /\ Advance
  /\ UNCHANGED <<link, flags, errors, stream, ghosts, handlers, id_handlers, timers>>

\* A function of the application returns; what else it does are the
\* application's own actions.
handle_user(again) ==
  /\ Calls("user")
  /\ IF again THEN Again(handlers) ELSE End("user", handlers)
  /\ UNCHANGED <<link, flags, errors, stream, ghosts, id_handlers, timers>>

-----------------------------------------------------------------------------
(* xmpp-auth.c.                                                             *)

\* Faulty variants: STARTTLS is never, or always, asked for when it is offered.
NeedsTlsNever(tls)  == FALSE
NeedsTlsAlways(tls) == tls

NeedsTls(tls) == tls /\ ~secured

\* Faulty variant: the bit of the mechanism is not cleared.
RemainingAll(mechs, m) == mechs

\* The mask of the mechanisms left once m is being tried.
Remaining(mechs, m) == mechs \ {m}

\* _do_auth, called by handler h, which ends: tls and mechs are tls_support and
\* sasl_support, and past is what has been tried since the last features.  For a
\* JID without a node there is no PLAIN, and the mask is left as it is.
do_auth(h, tls, mechs, past) ==
  /\ tls_support' = tls
  /\ \/ /\ NeedsTls(tls)
        /\ End(h, Added("proceedtls"))
        /\ xmpp_send("starttls")
        /\ sasl_support' = mechs /\ tried' = past
     \/ /\ ~NeedsTls(tls) /\ ~authenticated
        /\ "DIGEST-MD5" \in mechs
        /\ End(h, Added("digestmd5_challenge"))
        /\ xmpp_send("auth_digest")
        /\ sasl_support' = Remaining(mechs, "DIGEST-MD5")
        /\ tried' = Append(past, "DIGEST-MD5")
     \/ /\ ~NeedsTls(tls) /\ ~authenticated
        /\ "DIGEST-MD5" \notin mechs /\ "PLAIN" \in mechs
        /\ End(h, Added("sasl_result"))
        /\ xmpp_send("auth_plain")
        /\ sasl_support' = Remaining(mechs, "PLAIN")
        /\ tried' = Append(past, "PLAIN")
     \/ /\ ~NeedsTls(tls) /\ ~authenticated
        /\ "DIGEST-MD5" \notin mechs /\ (mechs = {} \/ ~Conforming)
        /\ End(h, handlers)
        /\ xmpp_disconnect
        /\ sasl_support' = mechs /\ tried' = past
     \/ /\ ~NeedsTls(tls) /\ authenticated
        /\ End(h, handlers)
        /\ sasl_support' = mechs /\ tried' = past
        /\ UNCHANGED <<link, timers>>

\* _handle_stream_error, whose loop takes a first child for granted.
handle_stream_error ==
  /\ Calls("stream_error")
  /\ stream_error' = TRUE
  /\ Again(handlers)
  /\ UNCHANGED link \/ NullDereference
  /\ UNCHANGED <<flags, error, stream, ghosts, id_handlers, timers>>

\* _handle_features
handle_features ==
  /\ Calls("features")
  /\ offered' = stanza.offers
  /\ do_auth("features",
             "starttls" \in stanza.offers /\ ~secured /\ ~tls_disabled,
             stanza.offers \cap Mechanisms, <<>>)
  /\ UNCHANGED <<secured, authenticated, tls_disabled, bind_required, session_required,
                 errors, stream, attempts, accepted, id_handlers>>

\* conn_start_ssl
conn_start_ssl ==
  \/ /\ state # "CONNECTED" \/ evbuffer = "ssl"
     /\ UNCHANGED <<link, timers>>
  \/ /\ state = "CONNECTED" /\ evbuffer # "ssl"
     /\ state' = "CONNECTING" /\ evbuffer' = "ssl"
     /\ UNCHANGED <<notified, fault, sent, timers>>
  \/ /\ state = "CONNECTED" /\ evbuffer # "ssl"
     /\ LibeventFails /\ conn_do_disconnect

\* _handle_proceedtls
handle_proceedtls ==
  /\ Calls("proceedtls")
  /\ IF stanza.name = "proceed" THEN conn_start_ssl ELSE UNCHANGED <<link, timers>>
  /\ End("proceedtls", handlers)
  /\ UNCHANGED <<flags, errors, stream, ghosts, id_handlers>>

\* _handle_sasl_result, reached through handler h.
SaslFailure(h) ==
  /\ stanza.name = "failure"
  /\ do_auth(h, tls_support, sasl_support, tried)
  /\ UNCHANGED <<stream, accepted>>

SaslSuccess(h) ==
  /\ stanza.name = "success"
  /\ End(h, handlers)
  /\ conn_reset_stream("auth_handle_open_sasl")
  /\ xmpp_send("stream")
  /\ accepted' = TRUE
  /\ UNCHANGED <<tls_support, sasl_support, tried>>

SaslUnexpected(h) ==
  /\ stanza.name \notin {"failure", "success"}
  /\ End(h, handlers)
  /\ xmpp_disconnect
  /\ UNCHANGED <<tls_support, sasl_support, stream, tried, accepted>>

handle_sasl_result(h) ==
  /\ SaslFailure(h) \/ SaslSuccess(h) \/ SaslUnexpected(h)
  /\ UNCHANGED <<secured, authenticated, tls_disabled, bind_required, session_required,
                 errors, attempts, offered, id_handlers>>

HandleSaslResult ==
  /\ Calls("sasl_result")
  /\ handle_sasl_result("sasl_result")

\* _handle_digestmd5_challenge; sasl_digest_md5 gives no response to a
\* challenge that it cannot decode, and takes text, nonce and node for granted.
HandleChallenge ==
  /\ Calls("digestmd5_challenge") /\ stanza.name = "challenge"
  /\ \/ End("digestmd5_challenge", Added("digestmd5_rspauth")) /\ xmpp_send("response")
     \/ End("digestmd5_challenge", handlers) /\ xmpp_disconnect
     \/ End("digestmd5_challenge", handlers) /\ NullDereference /\ UNCHANGED timers
  /\ UNCHANGED <<flags, errors, stream, ghosts, id_handlers>>

HandleChallengeResult ==
  /\ Calls("digestmd5_challenge") /\ stanza.name # "challenge"
  /\ handle_sasl_result("digestmd5_challenge")

\* _handle_digestmd5_rspauth: every challenge is answered, and the handler stays.
HandleRspauth ==
  /\ Calls("digestmd5_rspauth") /\ stanza.name = "challenge"
  /\ Again(handlers)
  /\ xmpp_send("empty_response")
  /\ UNCHANGED <<flags, errors, stream, ghosts, id_handlers>>

HandleRspauthResult ==
  /\ Calls("digestmd5_rspauth") /\ stanza.name # "challenge"
  /\ handle_sasl_result("digestmd5_rspauth")

\* _handle_features_sasl.  The two flags are only ever set; if bind_required was
\* set earlier and there is no <bind/> now, a null pointer is copied.
handle_features_sasl ==
  /\ Calls("features_sasl")
  /\ bind_required'    = (bind_required \/ "bind" \in stanza.offers)
  /\ session_required' = (session_required \/ "session" \in stanza.offers)
  /\ End("features_sasl", handlers)
  /\ \/ /\ "bind" \in stanza.offers
        /\ id_handlers' = IdAdded(BindId)
        /\ xmpp_send("bind")
     \/ /\ "bind" \notin stanza.offers /\ bind_required
        /\ id_handlers' = IdAdded(BindId)
        /\ fault' = "null_dereference"
        /\ UNCHANGED <<state, evbuffer, notified, sent, timers>>
     \/ /\ "bind" \notin stanza.offers /\ ~bind_required
        /\ xmpp_disconnect
        /\ UNCHANGED id_handlers
  /\ UNCHANGED <<secured, authenticated, tls_disabled, tls_support, sasl_support,
                 errors, stream, ghosts>>

\* The login is complete: the flag and the application's CONNECT event.
LoggedIn ==
  /\ authenticated' = TRUE
  /\ notified' = "CONNECT"
  /\ UNCHANGED <<state, evbuffer, fault, sent, timers>>

CallsId(i) == Running /\ phase = "ids" /\ stanza.id = i /\ i \in id_handlers

\* _handle_bind.  When the id handler that is called last ends, the loop over the
\* ids goes on from the freed head: that fault is in XmppHandlers only.
handle_bind ==
  /\ CallsId(BindId)
  /\ \/ /\ stanza.type = "result" /\ session_required
        /\ id_handlers' = IdAdded(SessionId) \ {BindId}
        /\ xmpp_send("session")
        /\ UNCHANGED authenticated
     \/ /\ stanza.type = "result" /\ ~session_required
        /\ id_handlers' = id_handlers \ {BindId}
        /\ LoggedIn
     \/ /\ stanza.type # "result"
        /\ id_handlers' = id_handlers \ {BindId}
        /\ xmpp_disconnect
        /\ UNCHANGED authenticated
  /\ UNCHANGED <<secured, tls_disabled, tls_support, sasl_support, bind_required,
                 session_required, errors, stream, loop, ghosts, handlers>>

\* _handle_session
handle_session ==
  /\ CallsId(SessionId)
  /\ id_handlers' = id_handlers \ {SessionId}
  /\ IF stanza.type = "result" THEN LoggedIn
     ELSE xmpp_disconnect /\ UNCHANGED authenticated
  /\ UNCHANGED <<secured, tls_disabled, tls_support, sasl_support, bind_required,
                 session_required, errors, stream, loop, ghosts, handlers>>

-----------------------------------------------------------------------------
\* What the application may do, at any time.
Application ==
  \/ xmpp_connect_client \/ ConnectClientFails
  \/ xmpp_conn_disable_tls
  \/ AppDisconnect \/ AppSendFails
  \/ AppHandlerAdd \/ AppTimedHandler

\* What the loop does with a callback once it has begun it.
Callback ==
  \/ ReadDone \/ EnableHandlers \/ SkipHandler
  \/ \E again \in BOOLEAN : handle_user(again)
  \/ handle_stream_error \/ handle_features \/ handle_proceedtls
  \/ HandleSaslResult \/ HandleChallenge \/ HandleChallengeResult
  \/ HandleRspauth \/ HandleRspauthResult
  \/ handle_features_sasl \/ handle_bind \/ handle_session

\* What the server has sent, as expat sees it.
Document ==
  \/ HandleBadStreamStart
  \/ \E hasId \in BOOLEAN : HandleStreamStart(hasId)
  \/ \E s \in Stanzas : FireStanza(s)
  \/ handle_stream_end \/ TextOutsideStanza \/ ReadError

\* What the loop begins a callback for.
Event ==
  \/ EvbConnected \/ EvbClosed \/ evb_read_cb
  \/ \E t \in timers : handler_timer_proxy(t)

Next == Application \/ Callback \/ Document \/ Event

Spec == Init /\ [][Next]_vars

\* The loop finishes the callbacks it has begun, and runs timers that are due.
Fairness ==
  /\ WF_vars(Callback)
  /\ SF_vars(ReadDone)
  /\ \A t \in {"disconnect_cleanup", "user"} : SF_vars(handler_timer_proxy(t))

FairSpec == Spec /\ Fairness

-----------------------------------------------------------------------------
(* Properties.                                                              *)

\* A connection that is not DISCONNECTED owns a bufferevent: whatever handler
\* closed it half way, no write and no event goes to one that was freed.
BufferOwned == state # "DISCONNECTED" => evbuffer \in {"tcp", "ssl"}

\* list_for_each_safe in handler_fire_stanza: the items it has yet to visit are
\* still linked, and none is visited twice, whatever the handlers add and end.
DispatchSafe ==
  /\ Range(todo) \subseteq Range(handlers)
  /\ IsInjective(todo)

\* A function is in conn->handlers at most once, also after a reconnect that
\* found handlers of the previous connection still registered.
HandlersOnce == IsInjective(handlers)

\* conn->authenticated, and with it the CONNECT event and the calls of the
\* application's handlers, comes only after the server accepted a mechanism that
\* this client tried.
LoginAfterSasl ==
  authenticated => accepted /\ tried # <<>> /\ notified # "none"

\* _do_auth tries each mechanism once, and PLAIN only when DIGEST-MD5 is not
\* offered or was refused, whichever handler it is called from.
StrongestMechanismFirst ==
  /\ IsInjective(tried)
  /\ tried # <<>> /\ tried[1] = "PLAIN" => "DIGEST-MD5" \notin offered

\* No credentials are sent over plain TCP when the server offered STARTTLS and the
\* application did not disable it.
AuthUnderTls ==
  sent \in {"auth_plain", "auth_digest"} /\ "starttls" \in offered /\ ~tls_disabled
    => evbuffer # "tcp"

\* STARTTLS is not asked for inside TLS, also when tls_support is still set from
\* the features that were read before.
NoTlsInsideTls == state = "CONNECTED" /\ sent = "starttls" => evbuffer = "tcp"

\* conn->secured says whether the connection that is up is a TLS one
\* (xmpp-inl.h:128).
SecuredIsTls == state = "CONNECTED" => (secured <=> evbuffer = "ssl")

\* Data of a live connection never goes to a parser whose document has ended, be it
\* that of the previous connection.
ParserReady == phase = "idle" /\ state = "CONNECTED" => parser_reset \/ xml # "ended"

\* The cleanup timer of xmpp_disconnect is pending only while there is a
\* connection to close.
CleanupWhileOpen == "disconnect_cleanup" \in timers => state # "DISCONNECTED"

\* xmpp_disconnect closes the connection, by its timer at the latest
\* (xmpp-conn.c:335, 338 and 353).
DisconnectCompletes ==
  "disconnect_cleanup" \in timers ~> state = "DISCONNECTED" \/ ~Running
=============================================================================
