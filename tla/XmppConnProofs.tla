--------------------------- MODULE XmppConnProofs ---------------------------
(***************************************************************************)
(* Theorems about XmppConn, for every set of offers, every number of       *)
(* connections and both behaviours of libevent and of hash_add.            *)
(***************************************************************************)
EXTENDS XmppConn, SequenceTheorems, TLAPS

-----------------------------------------------------------------------------
(* The handler lists.                                                       *)

\* What handler_fire_stanza relies on while it walks conn->handlers.
ListInv ==
  /\ handlers \in Seq(Handlers)
  /\ todo \in Seq(Handlers)
  /\ phase \in {"idle", "reading", "ids", "handlers"}
  /\ phase = "handlers" <=> todo # <<>>
  /\ DispatchSafe
  /\ HandlersOnce

\* Unlink takes one item out and closes the gap.
LEMMA UnlinkShape ==
  ASSUME NEW S, NEW list \in Seq(S), NEW h \in Range(list)
  PROVE  \E i \in 1 .. Len(list) :
           /\ list[i] = h
           /\ Unlink(list, h) \in Seq(S)
           /\ Len(Unlink(list, h)) = Len(list) - 1
           /\ \A j \in 1 .. Len(list) - 1 :
                Unlink(list, h)[j] = IF j < i THEN list[j] ELSE list[j + 1]
<1> DEFINE i == CHOOSE j \in DOMAIN list : list[j] = h
           front == SubSeq(list, 1, i - 1)
           back  == SubSeq(list, i + 1, Len(list))
<1>1. DOMAIN list = 1 .. Len(list) /\ Len(list) \in Nat
  BY LenProperties
<1>2. i \in 1 .. Len(list) /\ list[i] = h
  BY <1>1 DEF Range
<1>3. /\ front \in Seq(S) /\ Len(front) = i - 1
      /\ \A j \in 1 .. i - 1 : front[j] = list[j]
  <2>1. CASE i = 1
    BY <2>1, <1>1, <1>2, SubSeqProperties
  <2>2. CASE i > 1
    BY <2>2, <1>1, <1>2, SubSeqProperties
  <2> QED BY <2>1, <2>2, <1>2
<1>4. /\ back \in Seq(S) /\ Len(back) = Len(list) - i
      /\ \A j \in 1 .. Len(list) - i : back[j] = list[i + j]
  <2> DEFINE l == Len(list)
             m == i + 1
  <2>1. /\ m \in Int /\ l \in Int /\ l - m + 1 = l - i /\ l - i >= 0
        /\ (IF m <= l THEN l - m + 1 ELSE 0) = l - i
        /\ \A j \in 1 .. l - i : m + j - 1 = i + j
    BY ONLY <1>1, <1>2
  <2>2. \A j \in m .. l : list[j] \in S
    BY <1>1, <1>2
  <2> HIDE DEF l, m
  <2>3. /\ SubSeq(list, m, l) \in Seq(S)
        /\ Len(SubSeq(list, m, l)) = IF m <= l THEN l - m + 1 ELSE 0
        /\ \A j \in 1 .. l - m + 1 : SubSeq(list, m, l)[j] = list[m + j - 1]
    BY ONLY <2>1, <2>2, SubSeqProperties
  <2>4. back = SubSeq(list, m, l)
    BY DEF l, m
  <2> HIDE DEF back
  <2> QED BY ONLY <2>1, <2>3, <2>4 DEF l
<1>5. Unlink(list, h) = front \o back
  BY DEF Unlink, RemoveAt
<1> HIDE DEF i, front, back
<1>6. /\ front \o back \in Seq(S)
      /\ Len(front \o back) = Len(front) + Len(back)
      /\ \A j \in 1 .. Len(front) + Len(back) :
           (front \o back)[j] = IF j <= Len(front) THEN front[j] ELSE back[j - Len(front)]
  BY <1>3, <1>4, ConcatProperties
<1>7. Len(Unlink(list, h)) = Len(list) - 1 /\ Unlink(list, h) \in Seq(S)
  BY <1>1, <1>2, <1>3, <1>4, <1>5, <1>6
<1>8. ASSUME NEW j \in 1 .. Len(list) - 1
      PROVE  Unlink(list, h)[j] = IF j < i THEN list[j] ELSE list[j + 1]
  <2>1. j \in 1 .. Len(front) + Len(back)
    BY <1>1, <1>2, <1>3, <1>4
  <2>2. CASE j < i
    BY <2>1, <2>2, <1>1, <1>2, <1>3, <1>5, <1>6
  <2>3. CASE ~(j < i)
    <3>1. Unlink(list, h)[j] = back[j - (i - 1)]
      BY <2>1, <2>3, <1>1, <1>2, <1>3, <1>5, <1>6
    <3>2. j - (i - 1) \in 1 .. Len(list) - i /\ i + (j - (i - 1)) = j + 1
      BY <2>3, <1>1, <1>2
    <3> QED BY <3>1, <3>2, <2>3, <1>4
  <2> QED BY <2>2, <2>3
<1> QED BY <1>2, <1>7, <1>8

\* What is left after list_del of h are the other functions, each as often as before.
LEMMA UnlinkKeeps ==
  ASSUME NEW S, NEW list \in Seq(S), NEW h \in Range(list), IsInjective(list)
  PROVE  /\ Unlink(list, h) \in Seq(S)
         /\ IsInjective(Unlink(list, h))
         /\ Range(list) \ {h} \subseteq Range(Unlink(list, h))
<1> DEFINE left == Unlink(list, h)
<1>1. PICK i \in 1 .. Len(list) :
        /\ list[i] = h
        /\ left \in Seq(S)
        /\ Len(left) = Len(list) - 1
        /\ \A j \in 1 .. Len(list) - 1 : left[j] = IF j < i THEN list[j] ELSE list[j + 1]
  BY UnlinkShape
<1>2. /\ DOMAIN list = 1 .. Len(list) /\ DOMAIN left = 1 .. Len(list) - 1
      /\ Len(list) \in Nat
  BY <1>1, LenProperties
<1> HIDE DEF left
<1>3. IsInjective(left)
  <2> SUFFICES ASSUME NEW a \in 1 .. Len(list) - 1, NEW b \in 1 .. Len(list) - 1,
                      left[a] = left[b]
               PROVE  a = b
    BY <1>2 DEF IsInjective
  <2> DEFINE up(j) == IF j < i THEN j ELSE j + 1
  <2>1. /\ up(a) \in 1 .. Len(list) /\ up(b) \in 1 .. Len(list)
        /\ up(a) = up(b) => a = b
    BY ONLY <1>2, i \in 1 .. Len(list), a \in 1 .. Len(list) - 1, b \in 1 .. Len(list) - 1
  <2>2. left[a] = list[up(a)] /\ left[b] = list[up(b)]
    BY ONLY <1>1, a \in 1 .. Len(list) - 1, b \in 1 .. Len(list) - 1
  <2>3. \A x, y \in 1 .. Len(list) : list[x] = list[y] => x = y
    BY <1>2 DEF IsInjective
  <2> QED BY ONLY <2>1, <2>2, <2>3, left[a] = left[b]
<1>4. ASSUME NEW x \in Range(list), x # h PROVE x \in Range(left)
  <2>1. PICK k \in 1 .. Len(list) : list[k] = x
    BY <1>2 DEF Range
  <2>2. CASE k < i
    <3>1. k \in 1 .. Len(list) - 1
      BY <2>2, <1>2
    <3>2. left[k] = x
      BY <3>1, <2>1, <2>2, <1>1
    <3> QED BY <3>1, <3>2, <1>2 DEF Range
  <2>3. CASE k > i
    <3>1. k - 1 \in 1 .. Len(list) - 1 /\ ~(k - 1 < i) /\ (k - 1) + 1 = k
      BY <2>3, <1>2
    <3>2. left[k - 1] = x
      BY <3>1, <2>1, <1>1
    <3> QED BY <3>1, <3>2, <1>2 DEF Range
  <2> QED BY <2>1, <2>2, <2>3, <1>1, <1>2, <1>4
<1> QED BY <1>1, <1>3, <1>4 DEF left

\* handler_add leaves what was there, and adds a function that was not.
LEMMA AddedToKeeps ==
  ASSUME NEW S, NEW list \in Seq(S), NEW h \in S, IsInjective(list)
  PROVE  /\ AddedTo(list, h) \in Seq(S)
         /\ IsInjective(AddedTo(list, h))
         /\ Range(list) \subseteq Range(AddedTo(list, h))
<1>1. DOMAIN list = 1 .. Len(list) /\ Len(list) \in Nat
  BY LenProperties
<1>2. CASE Contains(list, h)
  BY <1>2 DEF AddedTo
<1>3. CASE ~Contains(list, h)
  <2> DEFINE more == Append(list, h)
  <2>1. /\ more \in Seq(S) /\ Len(more) = Len(list) + 1
        /\ \A i \in 1 .. Len(list) : more[i] = list[i]
        /\ more[Len(list) + 1] = h
    BY AppendProperties
  <2>2. DOMAIN more = 1 .. Len(list) + 1
    BY <2>1, LenProperties
  <2>3. \A i \in 1 .. Len(list) : list[i] # h
    BY <1>3 DEF Contains
  <2> HIDE DEF more
  <2>4. IsInjective(more)
    BY <2>1, <2>2, <2>3, <1>1 DEF IsInjective
  <2>5. Range(list) \subseteq Range(more)
    BY <2>1, <2>2, <1>1 DEF Range
  <2>6. AddedTo(list, h) = more
    BY <1>3 DEF AddedTo, more
  <2> QED BY <2>1, <2>4, <2>5, <2>6
<1> QED BY <1>2, <1>3

\* The cursor of handler_fire_stanza moves to the other functions.
LEMMA TailKeeps ==
  ASSUME NEW S, NEW list \in Seq(S), list # <<>>, IsInjective(list)
  PROVE  /\ Tail(list) \in Seq(S)
         /\ IsInjective(Tail(list))
         /\ Range(Tail(list)) \subseteq Range(list) \ {Head(list)}
         /\ Head(list) \in Range(list)
<1>1. /\ DOMAIN list = 1 .. Len(list) /\ Len(list) \in Nat /\ Len(list) > 0
      /\ Head(list) = list[1]
  BY LenProperties, EmptySeq
<1>2. /\ Tail(list) \in Seq(S)
      /\ Len(Tail(list)) = Len(list) - 1
      /\ \A i \in 1 .. Len(Tail(list)) : Tail(list)[i] = list[i + 1]
  BY HeadTailProperties
<1>3. DOMAIN Tail(list) = 1 .. Len(list) - 1
  BY <1>2, LenProperties
<1>4. IsInjective(Tail(list))
  BY <1>1, <1>2, <1>3 DEF IsInjective
<1>5. Range(Tail(list)) \subseteq Range(list) \ {Head(list)}
  BY <1>1, <1>2, <1>3 DEF IsInjective, Range
<1> QED BY <1>1, <1>2, <1>4, <1>5 DEF Range

-----------------------------------------------------------------------------
(* What a step does to the lists: it leaves them, adds functions, begins    *)
(* the walk, or moves on, having kept or ended the function under the       *)
(* cursor.                                                                  *)

KeepsLists ==
  /\ UNCHANGED <<handlers, todo>>
  /\ phase' \in {"idle", "reading", "ids", "handlers"}
  /\ phase' = "handlers" <=> phase = "handlers"

GrowsLists ==
  /\ \E g, h \in Handlers : handlers' \in {Added(h), AddedTo(Added(g), h)}
  /\ UNCHANGED <<todo, phase>>

StartsWalk ==
  /\ UNCHANGED handlers
  /\ todo' = handlers
  /\ phase' = IF handlers = <<>> THEN "reading" ELSE "handlers"

MovesOn ==
  /\ phase = "handlers"
  /\ Advance
  /\ \/ UNCHANGED handlers
     \/ \E list \in {handlers} \cup {Added(h) : h \in Handlers} :
          handlers' = Unlink(list, Head(todo))

ListStep == KeepsLists \/ GrowsLists \/ StartsWalk \/ MovesOn

\* Such a step keeps the lists well formed.
LEMMA ListStepKeeps == ListInv /\ ListStep => ListInv'
<1> SUFFICES ASSUME ListInv, ListStep PROVE ListInv'
  OBVIOUS
<1> USE DEF ListInv, DispatchSafe, HandlersOnce
<1>1. CASE KeepsLists
  BY <1>1 DEF KeepsLists
<1>2. CASE GrowsLists
  <2>1. PICK g \in Handlers, h \in Handlers : handlers' \in {Added(h), AddedTo(Added(g), h)}
    BY <1>2 DEF GrowsLists
  <2>2. /\ Added(h) \in Seq(Handlers) /\ IsInjective(Added(h))
        /\ Range(handlers) \subseteq Range(Added(h))
        /\ Added(g) \in Seq(Handlers) /\ IsInjective(Added(g))
        /\ Range(handlers) \subseteq Range(Added(g))
    BY AddedToKeeps DEF Added
  <2>3. /\ AddedTo(Added(g), h) \in Seq(Handlers) /\ IsInjective(AddedTo(Added(g), h))
        /\ Range(Added(g)) \subseteq Range(AddedTo(Added(g), h))
    BY <2>2, AddedToKeeps
  <2> QED BY <1>2, <2>1, <2>2, <2>3 DEF GrowsLists
<1>3. CASE StartsWalk
  BY <1>3 DEF StartsWalk
<1>4. CASE MovesOn
  <2>1. todo # <<>> /\ todo' = Tail(todo)
    BY <1>4 DEF MovesOn, Advance
  <2>2. /\ todo' \in Seq(Handlers) /\ IsInjective(todo')
        /\ Range(todo') \subseteq Range(todo) \ {Head(todo)}
        /\ Head(todo) \in Range(todo)
    BY <2>1, TailKeeps
  <2>3. /\ phase' \in {"idle", "reading", "ids", "handlers"}
        /\ phase' = "handlers" <=> todo' # <<>>
    BY <1>4 DEF MovesOn, Advance
  <2>4. CASE UNCHANGED handlers
    BY <2>2, <2>3, <2>4
  <2>5. ASSUME NEW list \in {handlers} \cup {Added(h) : h \in Handlers},
               handlers' = Unlink(list, Head(todo))
        PROVE  ListInv'
    <3>1. list \in Seq(Handlers) /\ IsInjective(list) /\ Range(handlers) \subseteq Range(list)
      <4>1. ASSUME NEW h \in Handlers
            PROVE  /\ Added(h) \in Seq(Handlers) /\ IsInjective(Added(h))
                   /\ Range(handlers) \subseteq Range(Added(h))
        BY ONLY ListInv, AddedToKeeps, h \in Handlers DEF Added, ListInv, HandlersOnce
      <4> QED BY ONLY <4>1, ListInv, list \in {handlers} \cup {Added(h) : h \in Handlers}
              DEF ListInv, HandlersOnce
    <3>2. Head(todo) \in Range(list)
      BY <3>1, <2>2
    <3>3. /\ handlers' \in Seq(Handlers) /\ IsInjective(handlers')
          /\ Range(list) \ {Head(todo)} \subseteq Range(handlers')
      BY <2>5, <3>1, <3>2, UnlinkKeeps
    <3> QED BY <2>2, <2>3, <3>1, <3>3
  <2> QED BY <1>4, <2>4, <2>5 DEF MovesOn
<1> QED BY <1>1, <1>2, <1>3, <1>4 DEF ListStep

\* Every action of the connection is such a step.
LEMMA NextIsListStep == ListInv /\ [Next]_vars => ListStep
<1> SUFFICES ASSUME ListInv, [Next]_vars PROVE ListStep
  OBVIOUS
<1> USE DEF ListInv
<1>1. CASE UNCHANGED vars
  BY <1>1 DEF vars, loop, ListStep, KeepsLists
<1>2. CASE Application
  BY <1>2 DEF Application, xmpp_connect_client, ConnectClientFails, xmpp_conn_disable_tls,
     AppDisconnect, AppSendFails, AppHandlerAdd, AppTimedHandler, loop, Handlers,
     ListStep, KeepsLists, GrowsLists
<1>3. CASE Document
  BY <1>3 DEF Document, HandleBadStreamStart, HandleStreamStart, StreamHeader, OpenHandlers,
     FireStanza, handle_stream_end, TextOutsideStanza, ReadError, loop, Handlers,
     ListStep, KeepsLists, GrowsLists
<1>4. CASE Event
  BY <1>4 DEF Event, EvbConnected, EvbClosed, evb_read_cb, handler_timer_proxy, loop,
     ListStep, KeepsLists
<1>5. CASE Callback
  <2>1. CASE ReadDone
    BY <2>1 DEF ReadDone, ListStep, KeepsLists
  <2>2. CASE EnableHandlers
    BY <2>2 DEF EnableHandlers, ListStep, StartsWalk
  <2>3. CASE SkipHandler
    BY <2>3 DEF SkipHandler, ListStep, MovesOn
  <2>4. ASSUME NEW again \in BOOLEAN, handle_user(again) PROVE ListStep
    BY <2>4 DEF handle_user, Calls, Again, End, ListStep, MovesOn
  <2>5. CASE handle_stream_error
    BY <2>5 DEF handle_stream_error, Calls, Again, ListStep, MovesOn
  <2>6. ASSUME NEW h \in Handlers, NEW tls, NEW mechs, NEW past,
               Calls(h), do_auth(h, tls, mechs, past)
        PROVE  ListStep
    BY <2>6 DEF do_auth, Calls, End, Handlers, ListStep, MovesOn
  <2>7. CASE handle_features
    BY <2>6, <2>7 DEF handle_features, Handlers
  <2>8. CASE handle_proceedtls
    BY <2>8 DEF handle_proceedtls, Calls, End, ListStep, MovesOn
  <2>9. ASSUME NEW h \in Handlers, Calls(h), handle_sasl_result(h) PROVE ListStep
    BY <2>6, <2>9 DEF handle_sasl_result, SaslFailure, SaslSuccess, SaslUnexpected, Calls, End,
       ListStep, MovesOn
  <2>10. CASE HandleSaslResult \/ HandleChallengeResult \/ HandleRspauthResult
    BY <2>9, <2>10 DEF HandleSaslResult, HandleChallengeResult, HandleRspauthResult, Handlers
  <2>11. CASE HandleChallenge
    BY <2>11 DEF HandleChallenge, Calls, End, Handlers, ListStep, MovesOn
  <2>12. CASE HandleRspauth
    BY <2>12 DEF HandleRspauth, Calls, Again, ListStep, MovesOn
  <2>13. CASE handle_features_sasl
    BY <2>13 DEF handle_features_sasl, Calls, End, ListStep, MovesOn
  <2>14. CASE handle_bind \/ handle_session
    BY <2>14 DEF handle_bind, handle_session, loop, ListStep, KeepsLists
  <2> QED BY <1>5, <2>1, <2>2, <2>3, <2>4, <2>5, <2>7, <2>8, <2>10, <2>11, <2>12, <2>13,
             <2>14 DEF Callback
<1> QED BY <1>1, <1>2, <1>3, <1>4, <1>5 DEF Next

\* The lists are well formed in every reachable state.
LEMMA ListInvHolds == Spec => []ListInv
<1>1. Init => ListInv
  <2>1. <<>> \in Seq(Handlers) /\ DOMAIN <<>> = {}
    BY EmptySeq, LenProperties
  <2> QED BY <2>1 DEF Init, ListInv, DispatchSafe, HandlersOnce, IsInjective, Range
<1>2. ListInv /\ [Next]_vars => ListInv'
  BY ListStepKeeps, NextIsListStep
<1> QED BY <1>1, <1>2, PTL DEF Spec

\* For every set of offers and any number of connections: while handler_fire_stanza
\* walks the list, all that it has yet to visit is linked and is visited once.
THEOREM DispatchIsSafe == Spec => []DispatchSafe
<1>1. ListInv => DispatchSafe
  BY DEF ListInv
<1> QED BY <1>1, ListInvHolds, PTL

\* handler_add keeps every function in the list at most once, whatever was left there by
\* earlier connections.
THEOREM HandlersAreUnique == Spec => []HandlersOnce
<1>1. ListInv => HandlersOnce
  BY DEF ListInv
<1> QED BY <1>1, ListInvHolds, PTL

-----------------------------------------------------------------------------
(* Type correctness.                                                        *)

\* TypeOK but for the lists, in three parts: what conn_do_disconnect and the writing
\* operations change, what is known of the server, and the stream.
LinkOK ==
  /\ state \in {"DISCONNECTED", "CONNECTING", "CONNECTED"}
  /\ evbuffer \in {"null", "tcp", "ssl", "freed"}
  /\ timers \subseteq {"disconnect_cleanup", "user"}
  /\ fault \in {"none", "double_free", "null_dereference", "bad_call"}
  /\ notified \in {"none", "CONNECT", "DISCONNECT"}
  /\ sent \in Elements

FlagsOK ==
  /\ secured \in BOOLEAN /\ authenticated \in BOOLEAN
  /\ tls_disabled \in BOOLEAN /\ tls_support \in BOOLEAN
  /\ sasl_support \subseteq Mechanisms
  /\ bind_required \in BOOLEAN /\ session_required \in BOOLEAN
  /\ stream_error \in BOOLEAN
  /\ error \in {"none", "ECONNRESET"}
  /\ attempts \in 0 .. MaxConnects
  /\ offered \subseteq Features
  /\ tried \in Seq(Mechanisms)
  /\ accepted \in BOOLEAN

StreamOK ==
  /\ stream_id \in {"null", "set", "freed"}
  /\ open_handler \in {"auth_handle_open", "auth_handle_open_sasl"}
  /\ id_handlers \subseteq Ids
  /\ parser_reset \in BOOLEAN
  /\ xml \in {"fresh", "open", "ended"}
  /\ stanza \in Stanzas \cup {NoStanza}

FieldsOK == LinkOK /\ FlagsOK /\ StreamOK

\* A step that leaves a part alone keeps it.
LEMMA PartsKept ==
  /\ LinkOK /\ UNCHANGED <<link, timers>> => LinkOK'
  /\ FlagsOK /\ UNCHANGED <<flags, errors, ghosts>> => FlagsOK'
  /\ StreamOK /\ UNCHANGED <<stream, id_handlers, stanza>> => StreamOK'
<1>1. LinkOK /\ UNCHANGED <<link, timers>> => LinkOK'
  BY DEF LinkOK, link
<1>2. FlagsOK /\ UNCHANGED <<flags, errors, ghosts>> => FlagsOK'
  BY DEF FlagsOK, flags, errors, ghosts
<1>3. StreamOK /\ UNCHANGED <<stream, id_handlers, stanza>> => StreamOK'
  BY DEF StreamOK, stream
<1> QED BY <1>1, <1>2, <1>3

\* Whatever is written or closed, the connection's link and timers keep their types.
LEMMA LinkKept ==
  ASSUME LinkOK
  PROVE  /\ conn_do_disconnect => LinkOK'
         /\ \A e \in Elements : xmpp_send(e) => LinkOK'
         /\ xmpp_disconnect => LinkOK'
         /\ NullDereference /\ UNCHANGED timers => LinkOK'
<1> USE DEF LinkOK, Write, Close, link
<1>1. conn_do_disconnect => LinkOK'
  BY DEF conn_do_disconnect
<1>2. ASSUME NEW e \in Elements, xmpp_send(e) PROVE LinkOK'
  BY <1>2 DEF xmpp_send
<1>3. "close" \in Elements
  BY DEF Elements
<1>4. xmpp_disconnect => LinkOK'
  BY <1>3 DEF xmpp_disconnect
<1>5. NullDereference /\ UNCHANGED timers => LinkOK'
  BY DEF NullDereference
<1> QED BY <1>1, <1>2, <1>4, <1>5

\* The application's actions keep the types.
LEMMA ApplicationTypes == FieldsOK /\ Application => FieldsOK'
<1> SUFFICES ASSUME LinkOK, FlagsOK, StreamOK, Application PROVE FieldsOK'
  BY DEF FieldsOK
<1> USE DEF FieldsOK
<1>1. CASE xmpp_connect_client
  <2>1. LinkOK'
    BY <1>1 DEF xmpp_connect_client, LinkOK, Elements
  <2>2. FlagsOK'
    <3>1. attempts' \in 0 .. MaxConnects
      BY <1>1, MaxConnectsAssumption DEF xmpp_connect_client, FlagsOK
    <3>2. tried' \in Seq(Mechanisms)
      BY <1>1, EmptySeq DEF xmpp_connect_client
    <3> QED BY <1>1, <3>1, <3>2 DEF xmpp_connect_client, FlagsOK, flags, errors
  <2>3. StreamOK'
    BY <1>1, PartsKept DEF xmpp_connect_client, loop
  <2> QED BY <2>1, <2>2, <2>3
<1>2. CASE ConnectClientFails
  BY <1>2, PartsKept DEF ConnectClientFails, LinkOK, loop
<1>3. CASE xmpp_conn_disable_tls
  BY <1>3, PartsKept DEF xmpp_conn_disable_tls, FlagsOK, errors, loop, ghosts
<1>4. CASE AppDisconnect
  BY <1>4, LinkKept, PartsKept DEF AppDisconnect, loop
<1>5. CASE AppSendFails
  BY <1>5, LinkKept, PartsKept DEF AppSendFails, loop
<1>6. CASE AppHandlerAdd
  BY <1>6, PartsKept DEF AppHandlerAdd, loop
<1>7. CASE AppTimedHandler
  <2>1. LinkOK'
    BY <1>7 DEF AppTimedHandler, LinkOK, link
  <2> QED BY <2>1, <1>7, PartsKept DEF AppTimedHandler, loop
<1> QED BY <1>1, <1>2, <1>3, <1>4, <1>5, <1>6, <1>7 DEF Application

\* So does what expat reports.
LEMMA DocumentTypes == FieldsOK /\ Document => FieldsOK'
<1> SUFFICES ASSUME LinkOK, FlagsOK, StreamOK, Document PROVE FieldsOK'
  BY DEF FieldsOK
<1> USE DEF FieldsOK
<1>1. ASSUME StreamHeader PROVE FlagsOK' /\ (stream_id' \in {"null", "set", "freed"} => StreamOK')
  BY <1>1, PartsKept DEF StreamHeader, StreamOK, loop
<1>2. CASE HandleBadStreamStart
  BY <1>1, <1>2, LinkKept DEF HandleBadStreamStart, StreamOK
<1>3. ASSUME NEW hasId \in BOOLEAN, HandleStreamStart(hasId) PROVE FieldsOK'
  <2>1. stream_id' \in {"null", "set", "freed"}
    BY <1>3 DEF HandleStreamStart
  <2>2. LinkOK'
    BY <1>3, LinkKept, PartsKept DEF HandleStreamStart, LinkOK
  <2> QED BY <1>1, <1>3, <2>1, <2>2 DEF HandleStreamStart
<1>4. ASSUME NEW s \in Stanzas, FireStanza(s) PROVE FieldsOK'
  BY <1>4, PartsKept DEF FireStanza, StreamOK, stream
<1>5. CASE handle_stream_end
  BY <1>5, LinkKept, PartsKept DEF handle_stream_end, StreamOK, loop
<1>6. CASE TextOutsideStanza
  BY <1>6, LinkKept, PartsKept DEF TextOutsideStanza, loop
<1>7. CASE ReadError
  BY <1>7, LinkKept, PartsKept DEF ReadError, StreamOK
<1> QED BY <1>2, <1>3, <1>4, <1>5, <1>6, <1>7 DEF Document

\* And what the loop calls back for.
LEMMA EventTypes == FieldsOK /\ Event => FieldsOK'
<1> SUFFICES ASSUME LinkOK, FlagsOK, StreamOK, Event PROVE FieldsOK'
  BY DEF FieldsOK
<1> USE DEF FieldsOK
<1>1. CASE EvbConnected
  <2>1. LinkOK'
    BY <1>1, LinkKept DEF EvbConnected, LinkOK, Elements
  <2>2. FlagsOK'
    BY <1>1 DEF EvbConnected, TlsUp, FlagsOK, errors, ghosts
  <2>3. StreamOK'
    BY <1>1 DEF EvbConnected, conn_reset_stream, StreamOK, loop
  <2> QED BY <2>1, <2>2, <2>3
<1>2. CASE EvbClosed
  <2>1. FlagsOK'
    BY <1>2 DEF EvbClosed, FlagsOK, flags, ghosts
  <2> QED BY <2>1, <1>2, LinkKept, PartsKept DEF EvbClosed, loop
<1>3. CASE evb_read_cb
  BY <1>3, PartsKept DEF evb_read_cb, StreamOK
<1>4. ASSUME NEW t \in timers, handler_timer_proxy(t) PROVE FieldsOK'
  BY <1>4, PartsKept DEF handler_timer_proxy, LinkOK, loop
<1> QED BY <1>1, <1>2, <1>3, <1>4 DEF Event

\* What an element announces is a set of features.
LEMMA StanzaOffers == StreamOK => stanza.offers \subseteq Features
<1>1. ASSUME NEW o \in Offers, stanza = FeaturesOf(o) PROVE stanza.offers \subseteq Features
  BY <1>1, OffersAssumption DEF FeaturesOf
<1>2. ASSUME NEW n, NEW s, stanza = Element(n, s) PROVE stanza.offers \subseteq Features
  BY <1>2 DEF Element
<1>3. ASSUME NEW i, NEW t, stanza = Reply(i, t) PROVE stanza.offers \subseteq Features
  BY <1>3 DEF Reply
<1>4. ASSUME NEW f \in {"starttls", "PLAIN"},
             stanza = [Element("message", "client") EXCEPT !.offers = {f}]
      PROVE  stanza.offers \subseteq Features
  BY <1>4 DEF Element, Features, Mechanisms
<1>5. \A s \in Stanzas \cup {NoStanza} :
        \/ \E o \in Offers : s = FeaturesOf(o)
        \/ \E f \in {"starttls", "PLAIN"} :
             s = [Element("message", "client") EXCEPT !.offers = {f}]
        \/ \E n, ns : s = Element(n, ns)
        \/ \E i, t : s = Reply(i, t)
  <2>1. ASSUME NEW s \in {Element(n, "tls")  : n \in {"proceed", "failure"}}
                 \cup {Element(n, "sasl") : n \in {"challenge", "success", "failure", "abort"}}
        PROVE  \E n, ns : s = Element(n, ns)
    OBVIOUS
  <2>2. ASSUME NEW s \in {Reply(i, t) : i \in Ids, t \in {"result", "error", "set"}}
        PROVE  \E i, t : s = Reply(i, t)
    OBVIOUS
  <2>3. ASSUME NEW s \in {Element("error", "streams"), Element("message", "client"), NoStanza}
        PROVE  \E n, ns : s = Element(n, ns)
    BY <2>3 DEF NoStanza
  <2> QED BY <2>1, <2>2, <2>3 DEF Stanzas
<1> QED BY <1>1, <1>2, <1>3, <1>4, <1>5 DEF StreamOK

\* Moving on in the list keeps the stanza or forgets it.
LEMMA StanzaKept ==
  ASSUME StreamOK, Advance, UNCHANGED <<stream, id_handlers>>
  PROVE  StreamOK'
BY DEF StreamOK, Advance, stream

\* _do_auth records the mechanism it tries.
LEMMA DoAuthTypes ==
  ASSUME LinkOK, NEW h, NEW tls \in BOOLEAN, NEW mechs \in SUBSET Mechanisms,
         NEW past \in Seq(Mechanisms), do_auth(h, tls, mechs, past)
  PROVE  /\ LinkOK' /\ Advance
         /\ tls_support' \in BOOLEAN /\ sasl_support' \subseteq Mechanisms
         /\ tried' \in Seq(Mechanisms)
<1>1. \A m \in Mechanisms : Append(past, m) \in Seq(Mechanisms)
  BY AppendProperties
<1>2. "starttls" \in Elements /\ "auth_digest" \in Elements /\ "auth_plain" \in Elements
  BY DEF Elements
<1>3. LinkOK' /\ Advance
  BY <1>2, LinkKept, PartsKept DEF do_auth, End
<1>4. /\ tls_support' \in BOOLEAN /\ sasl_support' \subseteq Mechanisms
      /\ tried' \in Seq(Mechanisms)
  BY <1>1 DEF do_auth, Remaining, Mechanisms
<1> QED BY <1>3, <1>4

\* _handle_sasl_result, whichever handler leads to it.
LEMMA SaslResultTypes ==
  ASSUME LinkOK, FlagsOK, StreamOK, NEW h, handle_sasl_result(h)
  PROVE  FieldsOK'
<1>1. "stream" \in Elements
  BY DEF Elements
<1>2. CASE SaslFailure(h)
  <2>1. /\ LinkOK' /\ Advance
        /\ tls_support' \in BOOLEAN /\ sasl_support' \subseteq Mechanisms
        /\ tried' \in Seq(Mechanisms)
    BY <1>2, DoAuthTypes DEF SaslFailure, FlagsOK
  <2>2. StreamOK'
    BY <1>2, <2>1, StanzaKept DEF SaslFailure, handle_sasl_result
  <2> QED BY <1>2, <2>1, <2>2 DEF SaslFailure, handle_sasl_result, FieldsOK, FlagsOK, errors
<1>3. CASE SaslSuccess(h)
  <2>1. LinkOK'
    BY <1>3, <1>1, LinkKept DEF SaslSuccess
  <2>2. StreamOK'
    BY <1>3 DEF SaslSuccess, handle_sasl_result, conn_reset_stream, End, Advance, StreamOK
  <2> QED BY <1>3, <2>1, <2>2 DEF SaslSuccess, handle_sasl_result, FieldsOK, FlagsOK, errors
<1>4. CASE SaslUnexpected(h)
  <2>1. LinkOK'
    BY <1>4, LinkKept DEF SaslUnexpected
  <2>2. StreamOK'
    BY <1>4, StanzaKept DEF SaslUnexpected, handle_sasl_result, End
  <2> QED BY <1>4, <2>1, <2>2 DEF SaslUnexpected, handle_sasl_result, FieldsOK, FlagsOK, errors
<1> QED BY <1>2, <1>3, <1>4 DEF handle_sasl_result

\* Every handler and every other step of a callback keeps the types.
LEMMA CallbackTypes == FieldsOK /\ Callback => FieldsOK'
<1> SUFFICES ASSUME LinkOK, FlagsOK, StreamOK, Callback PROVE FieldsOK'
  BY DEF FieldsOK
<1> USE DEF FieldsOK
<1>1. CASE ReadDone
  BY <1>1, PartsKept DEF ReadDone
<1>2. CASE EnableHandlers
  BY <1>2, PartsKept DEF EnableHandlers, StreamOK, stream
<1>3. CASE SkipHandler
  BY <1>3, PartsKept, StanzaKept DEF SkipHandler
<1>4. ASSUME NEW again \in BOOLEAN, handle_user(again) PROVE FieldsOK'
  BY <1>4, PartsKept, StanzaKept DEF handle_user, Again, End
<1>5. CASE handle_stream_error
  <2>1. LinkOK'
    BY <1>5, LinkKept, PartsKept DEF handle_stream_error
  <2>2. FlagsOK'
    BY <1>5 DEF handle_stream_error, FlagsOK, flags, ghosts
  <2>3. StreamOK'
    BY <1>5, StanzaKept DEF handle_stream_error, Again
  <2> QED BY <2>1, <2>2, <2>3
<1>6. CASE handle_features
  <2> DEFINE tls == "starttls" \in stanza.offers /\ ~secured /\ ~tls_disabled
             mechs == stanza.offers \cap Mechanisms
  <2>1. tls \in BOOLEAN /\ mechs \in SUBSET Mechanisms /\ <<>> \in Seq(Mechanisms)
    BY EmptySeq
  <2>2. do_auth("features", tls, mechs, <<>>)
    BY <1>6 DEF handle_features
  <2> HIDE DEF tls, mechs
  <2>3. /\ LinkOK' /\ Advance
        /\ tls_support' \in BOOLEAN /\ sasl_support' \subseteq Mechanisms
        /\ tried' \in Seq(Mechanisms)
    BY <2>1, <2>2, DoAuthTypes
  <2>4. StreamOK'
    BY <1>6, <2>3, StanzaKept DEF handle_features
  <2>5. offered' \subseteq Features
    BY <1>6, StanzaOffers DEF handle_features
  <2> QED BY <1>6, <2>3, <2>4, <2>5 DEF handle_features, FlagsOK, errors
<1>7. CASE handle_proceedtls
  <2>1. LinkOK'
    BY <1>7, LinkKept, PartsKept DEF handle_proceedtls, conn_start_ssl, LinkOK
  <2> QED BY <2>1, <1>7, PartsKept, StanzaKept DEF handle_proceedtls, End
<1>8. CASE HandleSaslResult
  BY <1>8, SaslResultTypes DEF HandleSaslResult
<1>9. CASE HandleChallenge
  <2>1. "response" \in Elements
    BY DEF Elements
  <2> QED BY <2>1, <1>9, LinkKept, PartsKept, StanzaKept DEF HandleChallenge, End
<1>10. CASE HandleChallengeResult
  BY <1>10, SaslResultTypes DEF HandleChallengeResult
<1>11. CASE HandleRspauth
  <2>1. "empty_response" \in Elements
    BY DEF Elements
  <2> QED BY <2>1, <1>11, LinkKept, PartsKept, StanzaKept DEF HandleRspauth, Again
<1>12. CASE HandleRspauthResult
  BY <1>12, SaslResultTypes DEF HandleRspauthResult
<1>13. CASE handle_features_sasl
  <2>1. "bind" \in Elements
    BY DEF Elements
  <2>2. LinkOK'
    BY <2>1, <1>13, LinkKept DEF handle_features_sasl, LinkOK
  <2>3. FlagsOK'
    BY <1>13 DEF handle_features_sasl, FlagsOK, errors, ghosts
  <2>4. StreamOK'
    BY <1>13 DEF handle_features_sasl, IdAdded, End, Advance, Ids, StreamOK, stream
  <2> QED BY <2>2, <2>3, <2>4
<1>14. CASE handle_bind
  <2>1. "session" \in Elements
    BY DEF Elements
  <2>2. LinkOK'
    BY <2>1, <1>14, LinkKept DEF handle_bind, LoggedIn, LinkOK
  <2>3. FlagsOK'
    BY <1>14 DEF handle_bind, LoggedIn, FlagsOK, errors, ghosts
  <2>4. StreamOK'
    BY <1>14 DEF handle_bind, IdAdded, Ids, StreamOK, stream, loop
  <2> QED BY <2>2, <2>3, <2>4
<1>15. CASE handle_session
  <2>1. LinkOK'
    BY <1>15, LinkKept DEF handle_session, LoggedIn, LinkOK
  <2>2. FlagsOK'
    BY <1>15 DEF handle_session, LoggedIn, FlagsOK, errors, ghosts
  <2>3. StreamOK'
    BY <1>15 DEF handle_session, StreamOK, stream, loop
  <2> QED BY <2>1, <2>2, <2>3
<1> QED BY <1>1, <1>2, <1>3, <1>4, <1>5, <1>6, <1>7, <1>8, <1>9, <1>10, <1>11, <1>12, <1>13,
           <1>14, <1>15 DEF Callback

\* Every field of the connection keeps its type, for any server and any number of
\* connections.
THEOREM TypeCorrect == Spec => []TypeOK
<1>1. Init => FieldsOK
  <2>1. 0 \in 0 .. MaxConnects /\ <<>> \in Seq(Mechanisms)
    BY MaxConnectsAssumption, EmptySeq
  <2> QED BY <2>1 DEF Init, FieldsOK, LinkOK, FlagsOK, StreamOK, Elements
<1>2. FieldsOK /\ [Next]_vars => FieldsOK'
  <2>1. FieldsOK /\ UNCHANGED vars => FieldsOK'
    BY PartsKept DEF FieldsOK, vars, loop
  <2> QED BY <2>1, ApplicationTypes, CallbackTypes, DocumentTypes, EventTypes DEF Next
<1>3. FieldsOK /\ ListInv => TypeOK
  BY DEF FieldsOK, LinkOK, FlagsOK, StreamOK, ListInv, TypeOK
<1> QED BY <1>1, <1>2, <1>3, ListInvHolds, PTL DEF Spec

-----------------------------------------------------------------------------
(* Who owns the bufferevent.                                                *)

\* conn_do_disconnect, called half way through any handler, never leaves a connection
\* that is not DISCONNECTED with a bufferevent that was freed.
THEOREM BufferIsOwned == Spec => []BufferOwned
<1> USE DEF BufferOwned
<1>1. Init => BufferOwned
  BY DEF Init
<1>2. BufferOwned /\ [Next]_vars => BufferOwned'
  <2> SUFFICES ASSUME BufferOwned, [Next]_vars PROVE BufferOwned'
    OBVIOUS
  <2>1. conn_do_disconnect \/ xmpp_disconnect \/ (\E e : xmpp_send(e)) => BufferOwned'
    BY DEF conn_do_disconnect, xmpp_disconnect, xmpp_send, Write, Close, link
  <2>2. UNCHANGED <<state, evbuffer>> => BufferOwned'
    OBVIOUS
  <2>3. UNCHANGED link \/ NullDereference => BufferOwned'
    BY <2>2 DEF link, NullDereference
  <2>4. CASE UNCHANGED vars
    BY <2>3, <2>4 DEF vars
  <2>5. CASE Application
    BY <2>1, <2>3, <2>5 DEF Application, xmpp_connect_client, ConnectClientFails,
       xmpp_conn_disable_tls, AppDisconnect, AppSendFails, AppHandlerAdd, AppTimedHandler
  <2>6. CASE Document
    BY <2>1, <2>2, <2>3, <2>6 DEF Document, HandleBadStreamStart, HandleStreamStart, FireStanza,
       handle_stream_end, TextOutsideStanza, ReadError
  <2>7. CASE Event
    BY <2>1, <2>2, <2>3, <2>7 DEF Event, EvbConnected, EvbClosed, evb_read_cb,
       handler_timer_proxy
  <2>8. CASE Callback
    <3>1. \A h, tls, mechs, past : do_auth(h, tls, mechs, past) => BufferOwned'
      BY <2>1, <2>3 DEF do_auth
    <3>2. \A h : handle_sasl_result(h) => BufferOwned'
      BY <3>1, <2>1 DEF handle_sasl_result, SaslFailure, SaslSuccess, SaslUnexpected
    <3>3. conn_start_ssl => BufferOwned'
      BY <2>1, <2>3 DEF conn_start_ssl
    <3>4. CASE \/ ReadDone \/ EnableHandlers \/ SkipHandler
               \/ \E again \in BOOLEAN : handle_user(again)
      BY <3>4, <2>3 DEF ReadDone, EnableHandlers, SkipHandler, handle_user
    <3>5. CASE handle_stream_error \/ handle_features \/ handle_proceedtls
      BY <3>5, <3>1, <3>3, <2>3 DEF handle_stream_error, handle_features, handle_proceedtls
    <3>6. CASE HandleSaslResult \/ HandleChallengeResult \/ HandleRspauthResult
      BY <3>6, <3>2 DEF HandleSaslResult, HandleChallengeResult, HandleRspauthResult
    <3>7. CASE HandleChallenge \/ HandleRspauth \/ handle_features_sasl
      BY <3>7, <2>1, <2>3 DEF HandleChallenge, HandleRspauth, handle_features_sasl
    <3>8. CASE handle_bind \/ handle_session
      BY <3>8, <2>1, <2>2 DEF handle_bind, handle_session, LoggedIn
    <3> QED BY <2>8, <3>4, <3>5, <3>6, <3>7, <3>8 DEF Callback
  <2> QED BY <2>4, <2>5, <2>6, <2>7, <2>8 DEF Next
<1> QED BY <1>1, <1>2, PTL DEF Spec

-----------------------------------------------------------------------------
(* STARTTLS.                                                                *)

\* NoTlsInsideTls made inductive: while TLS is up conn->secured is set, so that _do_auth
\* does not ask for it again.
TlsInv ==
  /\ BufferOwned
  /\ NoTlsInsideTls
  /\ state = "CONNECTED" /\ evbuffer = "ssl" => secured

\* Closing and writing keep it, if STARTTLS is asked for only without TLS.
LEMMA TlsWritten ==
  ASSUME TlsInv, secured => secured'
  PROVE  /\ conn_do_disconnect \/ xmpp_disconnect => TlsInv'
         /\ \A e : xmpp_send(e) /\ (e = "starttls" => ~secured) => TlsInv'
         /\ UNCHANGED <<state, evbuffer, sent>> => TlsInv'
         /\ UNCHANGED link \/ NullDereference => TlsInv'
<1> USE DEF TlsInv, BufferOwned, NoTlsInsideTls, Write, Close, link
<1>1. conn_do_disconnect \/ xmpp_disconnect => TlsInv'
  BY DEF conn_do_disconnect, xmpp_disconnect
<1>2. \A e : xmpp_send(e) /\ (e = "starttls" => ~secured) => TlsInv'
  BY DEF xmpp_send
<1>3. UNCHANGED <<state, evbuffer, sent>> => TlsInv'
  OBVIOUS
<1> QED BY <1>1, <1>2, <1>3 DEF NullDereference

\* STARTTLS is never asked for inside TLS, for any server, any number of connections and
\* whatever tls_support was left at.
THEOREM TlsIsNotNested == Spec => []NoTlsInsideTls
<1>1. Init => TlsInv
  BY DEF Init, TlsInv, BufferOwned, NoTlsInsideTls
<1>2. TlsInv /\ [Next]_vars => TlsInv'
  <2> SUFFICES ASSUME TlsInv, [Next]_vars PROVE TlsInv'
    OBVIOUS
  <2>1. CASE UNCHANGED vars
    BY <2>1, TlsWritten DEF vars, flags
  <2>2. CASE Application
    <3>1. CASE xmpp_connect_client
      BY <3>1 DEF xmpp_connect_client, TlsInv, BufferOwned, NoTlsInsideTls
    <3>2. CASE ConnectClientFails
      BY <3>2 DEF ConnectClientFails, TlsInv, BufferOwned, NoTlsInsideTls
    <3> QED BY <2>2, <3>1, <3>2, TlsWritten DEF Application, xmpp_conn_disable_tls,
            AppDisconnect, AppSendFails, AppHandlerAdd, AppTimedHandler, flags
  <2>3. CASE Document
    BY <2>3, TlsWritten DEF Document, HandleBadStreamStart, HandleStreamStart, StreamHeader,
       FireStanza, handle_stream_end, TextOutsideStanza, ReadError, flags
  <2>4. CASE Event
    <3>1. CASE EvbConnected
      <4>1. secured => secured'
        BY <3>1 DEF EvbConnected, TlsUp
      <4>2. CASE conn_do_disconnect
        BY <4>1, <4>2, TlsWritten
      <4>3. CASE state' = "CONNECTED" /\ sent' = "stream" /\ UNCHANGED evbuffer
        BY <4>3, <3>1 DEF EvbConnected, TlsUp, TlsInv, BufferOwned, NoTlsInsideTls
      <4> QED BY <3>1, <4>2, <4>3 DEF EvbConnected
    <3> QED BY <2>4, <3>1, TlsWritten DEF Event, EvbClosed, evb_read_cb, handler_timer_proxy,
            flags
  <2>5. CASE Callback
    <3>1. ASSUME NEW h, NEW tls, NEW mechs, NEW past,
                 do_auth(h, tls, mechs, past), UNCHANGED secured
          PROVE  TlsInv'
      BY <3>1, TlsWritten DEF do_auth, NeedsTls
    <3>2. ASSUME NEW h, handle_sasl_result(h) PROVE TlsInv'
      BY <3>1, <3>2, TlsWritten
      DEF handle_sasl_result, SaslFailure, SaslSuccess, SaslUnexpected
    <3>3. CASE \/ ReadDone \/ EnableHandlers \/ SkipHandler \/ handle_stream_error
               \/ \E again \in BOOLEAN : handle_user(again)
      BY <3>3, TlsWritten
      DEF ReadDone, EnableHandlers, SkipHandler, handle_stream_error, handle_user, flags
    <3>4. CASE handle_features
      BY <3>1, <3>4 DEF handle_features
    <3>5. CASE handle_proceedtls
      <4>1. conn_start_ssl /\ UNCHANGED secured => TlsInv'
        BY TlsWritten DEF conn_start_ssl, TlsInv, BufferOwned, NoTlsInsideTls
      <4> QED BY <3>5, <4>1, TlsWritten DEF handle_proceedtls, flags
    <3>6. CASE HandleSaslResult \/ HandleChallengeResult \/ HandleRspauthResult
      BY <3>2, <3>6 DEF HandleSaslResult, HandleChallengeResult, HandleRspauthResult
    <3>7. CASE HandleChallenge \/ HandleRspauth \/ handle_features_sasl
      BY <3>7, TlsWritten DEF HandleChallenge, HandleRspauth, handle_features_sasl, flags
    <3>8. CASE handle_bind \/ handle_session
      BY <3>8, TlsWritten DEF handle_bind, handle_session, LoggedIn
    <3> QED BY <2>5, <3>3, <3>4, <3>5, <3>6, <3>7, <3>8 DEF Callback
  <2> QED BY <2>1, <2>2, <2>3, <2>4, <2>5 DEF Next
<1>3. TlsInv => NoTlsInsideTls
  BY DEF TlsInv
<1> QED BY <1>1, <1>2, <1>3, PTL DEF Spec

-----------------------------------------------------------------------------
(* The login: which mechanisms are tried, what the first connection of an   *)
(* application may send and when it counts as logged in, and what the       *)
(* parser and the timer are left in.                                        *)

-----------------------------------------------------------------------------
(* The mechanisms.                                                          *)

\* What _do_auth keeps of the mask, of what was tried and of the offer: a mechanism that
\* was tried is not left, and DIGEST-MD5 is the first of those offered.
MechsOK(mechs, past, offer) ==
  /\ \A i \in DOMAIN past : past[i] \notin mechs
  /\ IsInjective(past)
  /\ "DIGEST-MD5" \in offer =>
       IF past = <<>> THEN "DIGEST-MD5" \in mechs ELSE past[1] = "DIGEST-MD5"

MechInv == MechsOK(sasl_support, tried, offered)

\* One more mechanism is tried.
LEMMA AppendTried ==
  ASSUME NEW past \in Seq(Mechanisms), NEW m \in Mechanisms
  PROVE  /\ DOMAIN past = 1 .. Len(past) /\ Len(past) \in Nat
         /\ DOMAIN Append(past, m) = 1 .. Len(past) + 1
         /\ \A i \in 1 .. Len(past) : Append(past, m)[i] = past[i]
         /\ Append(past, m)[Len(past) + 1] = m
         /\ Append(past, m) # <<>>
         /\ past = <<>> => Len(past) = 0
         /\ past # <<>> => Len(past) > 0
<1>1. /\ Append(past, m) \in Seq(Mechanisms)
      /\ Len(Append(past, m)) = Len(past) + 1
      /\ \A i \in 1 .. Len(past) : Append(past, m)[i] = past[i]
      /\ Append(past, m)[Len(past) + 1] = m
  BY AppendProperties
<1>2. Len(past) \in Nat /\ (past = <<>> <=> Len(past) = 0)
  BY LenProperties, EmptySeq
<1>3. Append(past, m) # <<>>
  BY <1>1, <1>2, EmptySeq
<1> QED BY <1>1, <1>2, <1>3, LenProperties

\* A mechanism that goes from the mask to those tried, DIGEST-MD5 first, keeps that.
LEMMA TriedKeepsMechs ==
  ASSUME NEW mechs \in SUBSET Mechanisms, NEW past \in Seq(Mechanisms), NEW offer,
         NEW m \in mechs, MechsOK(mechs, past, offer),
         m = "DIGEST-MD5" \/ "DIGEST-MD5" \notin mechs
  PROVE  MechsOK(mechs \ {m}, Append(past, m), offer)
<1>1. m \in Mechanisms
  OBVIOUS
<1> DEFINE more == Append(past, m)
           n == Len(past)
<1>2. /\ DOMAIN past = 1 .. n /\ n \in Nat
      /\ DOMAIN more = 1 .. n + 1
      /\ \A i \in 1 .. n : more[i] = past[i]
      /\ more[n + 1] = m
      /\ more # <<>>
      /\ past = <<>> => n = 0
      /\ past # <<>> => n > 0
  BY <1>1, AppendTried
<1> HIDE DEF more, n
<1>3. \A i \in 1 .. n : past[i] \notin mechs
  BY <1>2 DEF MechsOK
<1>4. \A i \in DOMAIN more : more[i] \notin mechs \ {m}
  BY <1>2, <1>3
<1>5. IsInjective(more)
  BY <1>2, <1>3 DEF MechsOK, IsInjective
<1>6. "DIGEST-MD5" \in offer => more[1] = "DIGEST-MD5"
  BY <1>2 DEF MechsOK
<1> QED BY <1>2, <1>4, <1>5, <1>6 DEF MechsOK, more

\* _do_auth takes DIGEST-MD5 if it is in the mask, PLAIN after it, or nothing.
LEMMA DoAuthKeepsMechs ==
  ASSUME NEW h, NEW tls, NEW mechs \in SUBSET Mechanisms, NEW past \in Seq(Mechanisms),
         NEW offer, MechsOK(mechs, past, offer), do_auth(h, tls, mechs, past)
  PROVE  MechsOK(sasl_support', tried', offer)
<1>1. CASE sasl_support' = mechs /\ tried' = past
  BY <1>1
<1>2. CASE /\ "DIGEST-MD5" \in mechs /\ sasl_support' = mechs \ {"DIGEST-MD5"}
           /\ tried' = Append(past, "DIGEST-MD5")
  BY <1>2, TriedKeepsMechs
<1>3. CASE /\ "DIGEST-MD5" \notin mechs /\ "PLAIN" \in mechs
           /\ sasl_support' = mechs \ {"PLAIN"} /\ tried' = Append(past, "PLAIN")
  BY <1>3, TriedKeepsMechs
<1> QED BY <1>1, <1>2, <1>3 DEF do_auth, Remaining

\* The mask is filled by _handle_features alone, and emptied by _do_auth alone.
LEMMA MechInvHolds == Spec => []MechInv
<1>1. Init => MechInv
  <2>1. DOMAIN <<>> = {}
    OBVIOUS
  <2> QED BY <2>1 DEF Init, MechInv, MechsOK, IsInjective
<1>2. TypeOK /\ MechInv /\ [Next]_vars => MechInv'
  <2> SUFFICES ASSUME TypeOK, MechInv, [Next]_vars PROVE MechInv'
    OBVIOUS
  <2>1. UNCHANGED <<sasl_support, tried, offered>> => MechInv'
    BY DEF MechInv, MechsOK
  <2>2. ASSUME NEW h, do_auth(h, tls_support, sasl_support, tried), UNCHANGED offered
        PROVE  MechInv'
    BY <2>2, DoAuthKeepsMechs DEF TypeOK, MechInv
  <2>3. ASSUME NEW h, handle_sasl_result(h) PROVE MechInv'
    BY <2>1, <2>2, <2>3 DEF handle_sasl_result, SaslFailure, SaslSuccess, SaslUnexpected
  <2>4. CASE UNCHANGED vars
    BY <2>1, <2>4 DEF vars, flags, ghosts
  <2>5. CASE Application
    <3>1. CASE xmpp_connect_client
      <4>1. DOMAIN <<>> = {}
        OBVIOUS
      <4> QED BY <3>1, <4>1 DEF xmpp_connect_client, MechInv, MechsOK, IsInjective
    <3> QED BY <2>1, <2>5, <3>1 DEF Application, ConnectClientFails, xmpp_conn_disable_tls,
               AppDisconnect, AppSendFails, AppHandlerAdd, AppTimedHandler, flags, ghosts
  <2>6. CASE Document
    BY <2>1, <2>6 DEF Document, HandleBadStreamStart, HandleStreamStart, StreamHeader,
       FireStanza, handle_stream_end, TextOutsideStanza, ReadError, flags, ghosts
  <2>7. CASE Event
    BY <2>1, <2>7 DEF Event, EvbConnected, EvbClosed, evb_read_cb, handler_timer_proxy, flags,
       ghosts
  <2>8. CASE Callback
    <3>1. CASE handle_features
      <4> DEFINE tls == "starttls" \in stanza.offers /\ ~secured /\ ~tls_disabled
                 mechs == stanza.offers \cap Mechanisms
      <4>1. DOMAIN <<>> = {} /\ <<>> \in Seq(Mechanisms)
        BY EmptySeq
      <4>2. mechs \in SUBSET Mechanisms /\ "DIGEST-MD5" \in Mechanisms
        BY DEF Mechanisms
      <4>3. MechsOK(mechs, <<>>, stanza.offers)
        BY <4>1, <4>2 DEF MechsOK, IsInjective
      <4>4. do_auth("features", tls, mechs, <<>>) /\ offered' = stanza.offers
        BY <3>1 DEF handle_features
      <4> HIDE DEF tls, mechs
      <4>5. MechsOK(sasl_support', tried', stanza.offers)
        BY <4>1, <4>2, <4>3, <4>4, DoAuthKeepsMechs
      <4> QED BY <4>4, <4>5 DEF MechInv
    <3>2. CASE HandleSaslResult \/ HandleChallengeResult \/ HandleRspauthResult
      BY <2>3, <3>2 DEF HandleSaslResult, HandleChallengeResult, HandleRspauthResult
    <3>3. CASE ~handle_features /\ ~HandleSaslResult /\ ~HandleChallengeResult
               /\ ~HandleRspauthResult
      BY <2>1, <2>8, <3>3 DEF Callback, ReadDone, EnableHandlers, SkipHandler, handle_user,
         handle_stream_error, handle_proceedtls, HandleChallenge, HandleRspauth,
         handle_features_sasl, handle_bind, handle_session, flags, ghosts
    <3> QED BY <3>1, <3>2, <3>3
  <2> QED BY <2>4, <2>5, <2>6, <2>7, <2>8 DEF Next
<1> QED BY <1>1, <1>2, TypeCorrect, PTL DEF Spec

(***************************************************************************)
(* _do_auth tries every mechanism once, and PLAIN before DIGEST-MD5 never, *)
(* for all offers, whichever handler it is called from and whatever mask   *)
(* an earlier connection left.                                             *)
(***************************************************************************)
THEOREM StrongestIsFirst == Spec => []StrongestMechanismFirst
<1>1. TypeOK /\ MechInv => StrongestMechanismFirst
  <2> SUFFICES ASSUME TypeOK, MechInv PROVE StrongestMechanismFirst
    OBVIOUS
  <2> QED BY DEF MechInv, MechsOK, StrongestMechanismFirst
<1> QED BY <1>1, MechInvHolds, TypeCorrect, PTL

-----------------------------------------------------------------------------
(* The parser and the cleanup timer.                                        *)

\* ParserReady made inductive: the parser of a connection that is up is ready also within
\* a callback.
ParserInv == state = "CONNECTED" => parser_reset \/ xml # "ended"

\* Writing and closing leave the connection or close it.
LEMMA LinkMoves ==
  /\ conn_do_disconnect => state' = "DISCONNECTED"
  /\ xmpp_disconnect => state' \in {state, "DISCONNECTED"}
  /\ \A e : xmpp_send(e) => state' \in {state, "DISCONNECTED"}
  /\ NullDereference => state' \in {state, "DISCONNECTED"}
BY DEF NullDereference, conn_do_disconnect, xmpp_disconnect, xmpp_send, Write, Close, link

(***************************************************************************)
(* Between two callbacks a connection that is up has a parser that can go  *)
(* on: a document that ended has closed its connection, and a new          *)
(* connection has asked for a reset.                                       *)
(***************************************************************************)
THEOREM ParserIsReady == Spec => []ParserReady
<1> USE DEF ParserInv
<1>1. Init => ParserInv
  BY DEF Init
<1>2. ParserInv /\ [Next]_vars => ParserInv'
  <2> SUFFICES ASSUME ParserInv, [Next]_vars PROVE ParserInv'
    OBVIOUS
  <2>1. state' \in {state, "DISCONNECTED"} /\ UNCHANGED <<parser_reset, xml>> => ParserInv'
    OBVIOUS
  <2>2. state' \in {state, "DISCONNECTED"} /\ parser_reset' => ParserInv'
    OBVIOUS
  <2>3. UNCHANGED link => state' \in {state, "DISCONNECTED"}
    BY DEF link
  <2>4. CASE UNCHANGED vars
    BY <2>1, <2>3, <2>4 DEF vars, stream
  <2>5. CASE Application
    BY <2>1, <2>3, <2>5, LinkMoves DEF Application, xmpp_connect_client, ConnectClientFails,
       xmpp_conn_disable_tls, AppDisconnect, AppSendFails, AppHandlerAdd, AppTimedHandler,
       stream
  <2>6. CASE Document
    BY <2>1, <2>3, <2>6, LinkMoves DEF Document, HandleBadStreamStart, HandleStreamStart,
       StreamHeader, FireStanza, handle_stream_end, TextOutsideStanza, ReadError, stream
  <2>7. CASE Event
    BY <2>1, <2>3, <2>7, LinkMoves DEF Event, EvbConnected, EvbClosed, evb_read_cb,
       handler_timer_proxy, conn_reset_stream, stream, link
  <2>8. CASE Callback
    <3>1. ASSUME NEW h, NEW tls, NEW mechs, NEW past, do_auth(h, tls, mechs, past)
          PROVE  state' \in {state, "DISCONNECTED"}
      BY <3>1, <2>3, LinkMoves DEF do_auth
    <3>2. ASSUME NEW h, handle_sasl_result(h) PROVE ParserInv'
      BY <3>1, <3>2, <2>1, <2>2, LinkMoves DEF handle_sasl_result, SaslFailure, SaslSuccess,
         SaslUnexpected, conn_reset_stream, stream
    <3>3. CASE handle_features
      BY <3>1, <3>3, <2>1 DEF handle_features, stream
    <3>4. CASE handle_proceedtls
      BY <3>4, <2>1, <2>3, LinkMoves DEF handle_proceedtls, conn_start_ssl, stream
    <3>5. CASE HandleSaslResult \/ HandleChallengeResult \/ HandleRspauthResult
      BY <3>2, <3>5 DEF HandleSaslResult, HandleChallengeResult, HandleRspauthResult
    <3>6. CASE \/ ReadDone \/ EnableHandlers \/ SkipHandler \/ handle_stream_error
               \/ \E again \in BOOLEAN : handle_user(again)
      BY <3>6, <2>1, <2>3, LinkMoves DEF ReadDone, EnableHandlers, SkipHandler, handle_stream_error,
         handle_user, stream
    <3>7. CASE \/ HandleChallenge \/ HandleRspauth \/ handle_features_sasl \/ handle_bind
               \/ handle_session
      BY <3>7, <2>1, LinkMoves DEF HandleChallenge, HandleRspauth, handle_features_sasl,
         handle_bind, handle_session, LoggedIn, stream
    <3> QED BY <2>8, <3>3, <3>4, <3>5, <3>6, <3>7 DEF Callback
  <2> QED BY <2>4, <2>5, <2>6, <2>7, <2>8 DEF Next
<1>3. ParserInv => ParserReady
  BY DEF ParserReady
<1> QED BY <1>1, <1>2, <1>3, PTL DEF Spec

\* What writing and closing do to the timer if no write fails.
LEMMA TimerMoves ==
  ASSUME CleanupWhileOpen, ~LibeventFails
  PROVE  /\ conn_do_disconnect => CleanupWhileOpen'
         /\ xmpp_disconnect => CleanupWhileOpen'
         /\ \A e : xmpp_send(e) => CleanupWhileOpen'
         /\ UNCHANGED <<state, timers>> => CleanupWhileOpen'
         /\ UNCHANGED <<link, timers>> => CleanupWhileOpen'
         /\ NullDereference /\ UNCHANGED timers => CleanupWhileOpen'
BY DEF NullDereference, conn_do_disconnect, xmpp_disconnect, xmpp_send, Write, Close, link, CleanupWhileOpen

(***************************************************************************)
(* If libevent's calls do not fail, the cleanup timer that xmpp_disconnect *)
(* starts is gone whenever the connection is closed, so that it can not    *)
(* close the next one.                                                     *)
(***************************************************************************)
THEOREM CleanupIsOfThisConnection == ASSUME ~LibeventFails PROVE Spec => []CleanupWhileOpen
<1>1. Init => CleanupWhileOpen
  BY DEF Init, CleanupWhileOpen
<1>2. CleanupWhileOpen /\ [Next]_vars => CleanupWhileOpen'
  <2> SUFFICES ASSUME CleanupWhileOpen, [Next]_vars PROVE CleanupWhileOpen'
    OBVIOUS
  <2>1. CASE UNCHANGED vars
    BY <2>1, TimerMoves DEF vars
  <2>2. CASE Application
    <3>1. CASE xmpp_connect_client
      BY <3>1 DEF xmpp_connect_client, CleanupWhileOpen
    <3>2. CASE AppTimedHandler
      BY <3>2 DEF AppTimedHandler, CleanupWhileOpen, link
    <3> QED BY <2>2, <3>1, <3>2, TimerMoves DEF Application, ConnectClientFails,
            xmpp_conn_disable_tls, AppDisconnect, AppSendFails, AppHandlerAdd
  <2>3. CASE Document
    BY <2>3, TimerMoves DEF Document, HandleBadStreamStart, HandleStreamStart, FireStanza,
       handle_stream_end, TextOutsideStanza, ReadError
  <2>4. CASE Event
    <3>1. CASE EvbConnected
      BY <3>1, TimerMoves DEF EvbConnected, CleanupWhileOpen
    <3> QED BY <2>4, <3>1, TimerMoves DEF Event, EvbClosed, evb_read_cb, handler_timer_proxy
  <2>5. CASE Callback
    <3>1. ASSUME NEW h, NEW tls, NEW mechs, NEW past, do_auth(h, tls, mechs, past)
          PROVE  CleanupWhileOpen'
      BY <3>1, TimerMoves DEF do_auth
    <3>2. ASSUME NEW h, handle_sasl_result(h) PROVE CleanupWhileOpen'
      BY <3>1, <3>2, TimerMoves DEF handle_sasl_result, SaslFailure, SaslSuccess,
         SaslUnexpected
    <3>3. CASE handle_features
      BY <3>1, <3>3 DEF handle_features
    <3>4. CASE handle_proceedtls
      BY <3>4, TimerMoves DEF handle_proceedtls, conn_start_ssl, CleanupWhileOpen
    <3>5. CASE HandleSaslResult \/ HandleChallengeResult \/ HandleRspauthResult
      BY <3>2, <3>5 DEF HandleSaslResult, HandleChallengeResult, HandleRspauthResult
    <3>6. CASE \/ ReadDone \/ EnableHandlers \/ SkipHandler \/ handle_stream_error
               \/ \E again \in BOOLEAN : handle_user(again)
      BY <3>6, TimerMoves DEF ReadDone, EnableHandlers, SkipHandler, handle_stream_error,
         handle_user
    <3>7. CASE \/ HandleChallenge \/ HandleRspauth \/ handle_features_sasl \/ handle_bind
               \/ handle_session
      BY <3>7, TimerMoves DEF HandleChallenge, HandleRspauth, handle_features_sasl,
         handle_bind, handle_session, LoggedIn
    <3> QED BY <2>5, <3>3, <3>4, <3>5, <3>6, <3>7 DEF Callback
  <2> QED BY <2>1, <2>2, <2>3, <2>4, <2>5 DEF Next
<1> QED BY <1>1, <1>2, PTL DEF Spec

-----------------------------------------------------------------------------
(* The first connection.                                                    *)

\* Of a list without repetitions, list_del takes the function out for good.
LEMMA UnlinkRemoves ==
  ASSUME NEW S, NEW list \in Seq(S), NEW h \in Range(list), IsInjective(list)
  PROVE  Range(Unlink(list, h)) \subseteq Range(list) \ {h}
<1> DEFINE left == Unlink(list, h)
<1>1. PICK i \in 1 .. Len(list) :
        /\ list[i] = h
        /\ left \in Seq(S)
        /\ Len(left) = Len(list) - 1
        /\ \A j \in 1 .. Len(list) - 1 : left[j] = IF j < i THEN list[j] ELSE list[j + 1]
  BY UnlinkShape
<1>2. /\ DOMAIN list = 1 .. Len(list) /\ DOMAIN left = 1 .. Len(list) - 1
      /\ Len(list) \in Nat
  BY <1>1, LenProperties
<1> HIDE DEF left
<1>3. ASSUME NEW j \in 1 .. Len(list) - 1 PROVE left[j] \in Range(list) /\ left[j] # h
  <2> DEFINE from == IF j < i THEN j ELSE j + 1
  <2>0. from \in 1 .. Len(list) /\ from # i
    BY ONLY <1>2, i \in 1 .. Len(list), j \in 1 .. Len(list) - 1
  <2>1. PICK k \in 1 .. Len(list) : left[j] = list[k] /\ k # i
    BY <2>0, <1>1
  <2>2. list[k] # list[i]
    BY <2>1, <1>2 DEF IsInjective
  <2> QED BY <2>1, <2>2, <1>1, <1>2 DEF Range
<1>4. Range(left) \subseteq Range(list) \ {h}
  BY <1>2, <1>3 DEF Range
<1> QED BY <1>4 DEF left

\* handler_add adds nothing but the function.
LEMMA AddedToAdds ==
  ASSUME NEW S, NEW list \in Seq(S), NEW h \in S
  PROVE  Range(AddedTo(list, h)) \subseteq Range(list) \cup {h}
<1> DEFINE more == Append(list, h)
<1>1. /\ more \in Seq(S) /\ Len(more) = Len(list) + 1
      /\ \A i \in 1 .. Len(list) : more[i] = list[i]
      /\ more[Len(list) + 1] = h
  BY AppendProperties
<1>2. DOMAIN more = 1 .. Len(list) + 1 /\ DOMAIN list = 1 .. Len(list) /\ Len(list) \in Nat
  BY <1>1, LenProperties
<1> HIDE DEF more
<1>3. Range(more) \subseteq Range(list) \cup {h}
  BY <1>1, <1>2 DEF Range
<1> QED BY <1>3 DEF AddedTo, more

\* The functions that are registered.
Registered == Range(handlers)

\* The function under the cursor is registered; when it ends it is not, and what it added
\* is.
LEMMA CallEnds ==
  ASSUME ListInv, NEW h, Calls(h)
  PROVE  /\ h \in Registered
         /\ Again(handlers) => Registered' = Registered
         /\ End(h, handlers) => Registered' \subseteq Registered \ {h}
         /\ \A g \in Handlers :
              End(h, Added(g)) => Registered' \subseteq (Registered \cup {g}) \ {h}
<1> USE DEF Registered
<1>1. h \in Range(handlers) /\ h \in Handlers /\ handlers \in Seq(Handlers)
      /\ IsInjective(handlers)
  <2>1. todo # <<>> /\ todo \in Seq(Handlers) /\ Head(todo) = h
    BY DEF ListInv, Calls
  <2>2. h \in Range(todo)
    BY <2>1, TailKeeps DEF ListInv, DispatchSafe
  <2>3. handlers \in Seq(Handlers) /\ IsInjective(handlers) /\ h \in Range(handlers)
    BY <2>2 DEF ListInv, DispatchSafe, HandlersOnce
  <2>4. h \in Handlers
    BY <2>1, HeadTailProperties
  <2> QED BY <2>3, <2>4
<1>2. Again(handlers) => Range(handlers)' = Range(handlers)
  BY DEF Again
<1>3. End(h, handlers) => Range(handlers)' \subseteq Range(handlers) \ {h}
  BY <1>1, UnlinkRemoves DEF End
<1>4. ASSUME NEW g \in Handlers, End(h, Added(g))
      PROVE  Range(handlers)' \subseteq (Range(handlers) \cup {g}) \ {h}
  <2>1. /\ Added(g) \in Seq(Handlers) /\ IsInjective(Added(g))
        /\ Range(handlers) \subseteq Range(Added(g))
        /\ Range(Added(g)) \subseteq Range(handlers) \cup {g}
    BY <1>1, AddedToKeeps, AddedToAdds DEF Added
  <2>2. Range(Unlink(Added(g), h)) \subseteq Range(Added(g)) \ {h}
    BY <1>1, <2>1, UnlinkRemoves
  <2> QED BY <1>4, <2>1, <2>2 DEF End
<1> QED BY <1>1, <1>2, <1>3, <1>4

SaslHandlers == {"sasl_result", "digestmd5_challenge", "digestmd5_rspauth"}
OwnHandlers  == {"stream_error", "user"}

\* No stream header can come: the document is the one that was begun.
NoHeaderToCome == state # "CONNECTING" /\ ~parser_reset /\ xml # "fresh"

Basics ==
  /\ attempts = 0 => state = "DISCONNECTED" /\ phase = "idle" /\ parser_reset /\ ~secured
  /\ phase \in {"ids", "handlers"} => xml = "open"
  /\ secured => evbuffer # "tcp"

\* Before a mechanism is tried: the features, which may lead to TLS and to another header.
Opening ==
  /\ tried = <<>> /\ ~accepted /\ ~authenticated /\ id_handlers = {}
  /\ open_handler = "auth_handle_open" /\ sent \notin {"auth_plain", "auth_digest"}
  /\ phase # "idle" => ~parser_reset
  /\ phase # "idle" /\ state = "CONNECTING" => "features" \notin Registered /\ xml # "fresh"
  /\ \/ Registered \subseteq OwnHandlers \cup {"features"}
     \/ Registered \subseteq OwnHandlers \cup {"proceedtls"} /\ NoHeaderToCome

\* Once one is tried, TLS is settled, and the connection does not come up again.
Begun ==
  /\ attempts # 0 /\ state # "CONNECTING"
  /\ tried # <<>>
  /\ tls_support => secured
  /\ "starttls" \in offered /\ ~tls_disabled => secured

Authenticating ==
  /\ Begun /\ NoHeaderToCome
  /\ Registered \subseteq OwnHandlers \cup SaslHandlers
  /\ ~accepted /\ ~authenticated /\ id_handlers = {} /\ open_handler = "auth_handle_open"

Accepted ==
  /\ Begun
  /\ Registered \subseteq OwnHandlers \cup SaslHandlers \cup {"features_sasl"}
  /\ accepted /\ open_handler = "auth_handle_open_sasl"
  /\ authenticated => notified # "none"

Stages == Opening \/ Authenticating \/ Accepted

FirstInv == attempts <= 1 => Basics /\ Stages

\* What any write or close does to the link, e being what may be written.
LinkStep(e) ==
  /\ state' \in {state, "DISCONNECTED"}
  /\ evbuffer' \in {evbuffer, "freed"}
  /\ sent' \in {sent, e}
  /\ notified # "none" => notified' # "none"

\* Closing, disconnecting and sending are such steps, and so is doing none of it.
LEMMA LinkSteps ==
  /\ conn_do_disconnect => LinkStep("close")
  /\ xmpp_disconnect => LinkStep("close")
  /\ \A e : xmpp_send(e) => LinkStep(e)
  /\ \A e : UNCHANGED link => LinkStep(e)
  /\ \A e : UNCHANGED <<state, evbuffer, notified, sent>> => LinkStep(e)
  /\ \A e : NullDereference => LinkStep(e)
BY DEF NullDereference, conn_do_disconnect, xmpp_disconnect, xmpp_send, Write, Close, link, LinkStep

Credentials == {"auth_plain", "auth_digest"}

\* A step that writes no credentials and changes nothing of the login.
Quiet ==
  /\ \E e : LinkStep(e) /\ e \notin Credentials
  /\ UNCHANGED <<secured, tls_disabled, tls_support, open_handler, parser_reset,
                 id_handlers, offered, tried, accepted, authenticated, attempts>>
  /\ Registered' \subseteq Registered \cup {"user"}
  /\ phase = "idle" => phase' = "idle"
  /\ xml' \in {xml, "ended"}
  /\ phase' \in {"ids", "handlers"} => xml' = "open"

\* A step that is quiet stays in its stage.
LEMMA QuietKeeps ==
  ASSUME Basics, Stages, Quiet
  PROVE  Basics' /\ Stages'
<1>1. PICK e : LinkStep(e) /\ e \notin Credentials
  BY DEF Quiet
<1>2. Basics'
  BY <1>1 DEF Basics, Quiet, LinkStep
<1>3. Opening => Opening'
  BY <1>1 DEF Opening, Quiet, LinkStep, OwnHandlers, NoHeaderToCome, Credentials
<1>4. Begun => Begun'
  BY <1>1 DEF Begun, Quiet, LinkStep
<1>5. Authenticating => Authenticating'
  BY <1>1, <1>4 DEF Authenticating, Quiet, LinkStep, OwnHandlers, NoHeaderToCome
<1>6. Accepted => Accepted'
  BY <1>1, <1>4 DEF Accepted, Quiet, LinkStep, OwnHandlers
<1> QED BY <1>2, <1>3, <1>5, <1>6 DEF Stages

\* A handler of the authentication that adds another one, or tries another mechanism.
LEMMA SaslStepKeeps ==
  ASSUME Basics, Authenticating \/ Accepted, NEW e, LinkStep(e), phase = "handlers",
         Registered' \subseteq Registered \cup SaslHandlers, tried' # <<>>,
         UNCHANGED <<secured, tls_disabled, tls_support, open_handler, parser_reset, xml,
                     id_handlers, offered, accepted, authenticated, attempts>>
  PROVE  Basics' /\ Stages'
<1>1. Basics'
  BY DEF Basics, LinkStep
<1>2. Begun'
  BY DEF Authenticating, Accepted, Begun, LinkStep
<1>3. Authenticating => Authenticating'
  BY <1>2 DEF Authenticating, LinkStep, NoHeaderToCome
<1>4. Accepted => Accepted'
  BY <1>2 DEF Accepted, LinkStep
<1> QED BY <1>1, <1>3, <1>4 DEF Stages

\* In the authentication no TLS is asked for, so _do_auth is such a step.
LEMMA SaslFailureKeeps ==
  ASSUME Basics, Stages, ListInv, TypeOK, NEW h \in SaslHandlers, Calls(h),
         handle_sasl_result(h), SaslFailure(h)
  PROVE  Basics' /\ Stages'
<1>1. h \in Registered
  BY CallEnds
<1>2. Authenticating \/ Accepted
  BY <1>1 DEF Stages, Opening, SaslHandlers, OwnHandlers
<1>3. tried # <<>> /\ tried \in Seq(Mechanisms) /\ ~NeedsTls(tls_support)
  BY <1>2 DEF Authenticating, Accepted, Begun, NeedsTls, TypeOK
<1>4. do_auth(h, tls_support, sasl_support, tried)
  BY DEF SaslFailure
<1>5. \A m \in Mechanisms : Append(tried, m) # <<>>
  BY <1>3, AppendTried
<1>6. tried' # <<>> /\ tls_support' = tls_support
  BY <1>3, <1>4, <1>5 DEF do_auth, Mechanisms
<1>7. \E e : LinkStep(e)
  BY <1>3, <1>4, LinkSteps DEF do_auth
<1>8. Registered' \subseteq Registered \cup SaslHandlers
  <2>1. "digestmd5_challenge" \in Handlers /\ "sasl_result" \in Handlers
    BY DEF Handlers
  <2> QED BY <2>1, <1>3, <1>4, CallEnds DEF do_auth, SaslHandlers
<1>9. phase = "handlers" /\ xml' = xml
  BY DEF Calls, SaslFailure, stream
<1> QED BY <1>2, <1>6, <1>7, <1>8, <1>9, SaslStepKeeps
    DEF handle_sasl_result, SaslFailure, stream

\* An answer of the server to a mechanism: the next one is tried, or it is accepted, or
\* the connection is closed.
LEMMA SaslResultKeeps ==
  ASSUME Basics, Stages, ListInv, TypeOK, NEW h \in SaslHandlers, Calls(h),
         handle_sasl_result(h)
  PROVE  Basics' /\ Stages'
<1>1. h \in Registered
  BY CallEnds
<1>2. Authenticating \/ Accepted
  BY <1>1 DEF Stages, Opening, SaslHandlers, OwnHandlers
<1>3. phase = "handlers" /\ xml = "open"
  BY DEF Calls, Basics
<1>4. CASE SaslFailure(h)
  BY <1>4, SaslFailureKeeps
<1>5. CASE SaslSuccess(h)
  <2>1. /\ LinkStep("stream") /\ Registered' \subseteq Registered
    BY <1>5, LinkSteps, CallEnds DEF SaslSuccess
  <2>2. /\ UNCHANGED <<secured, tls_disabled, tls_support, xml, offered, tried, authenticated,
                       id_handlers, attempts>>
        /\ accepted' /\ open_handler' = "auth_handle_open_sasl"
    BY <1>5 DEF SaslSuccess, handle_sasl_result, conn_reset_stream
  <2>3. Basics'
    BY <2>1, <2>2, <1>3 DEF Basics, LinkStep
  <2>4. Begun'
    BY <1>2, <2>1, <2>2 DEF Authenticating, Accepted, Begun, LinkStep
  <2>5. Accepted'
    BY <1>2, <2>1, <2>2, <2>4 DEF Authenticating, Accepted, LinkStep
  <2> QED BY <2>3, <2>5 DEF Stages
<1>6. CASE SaslUnexpected(h)
  <2>1. LinkStep("close") /\ "close" \notin Credentials
    BY <1>6, LinkSteps DEF SaslUnexpected, Credentials
  <2>2. Registered' \subseteq Registered
    BY <1>6, CallEnds DEF SaslUnexpected
  <2>3. Quiet
    BY <1>3, <1>6, <2>1, <2>2 DEF SaslUnexpected, handle_sasl_result, Quiet, stream
  <2> QED BY <2>3, QuietKeeps
<1> QED BY <1>4, <1>5, <1>6 DEF handle_sasl_result

\* The application's actions, until it connects again.
LEMMA ApplicationFirst ==
  ASSUME Basics, Stages, ListInv, TypeOK, Application, attempts' <= 1
  PROVE  Basics' /\ Stages'
<1>1. phase \in {"ids", "handlers"} => xml = "open"
  BY DEF Basics
<1>2. "close" \notin Credentials
  BY DEF Credentials
<1>3. CASE xmpp_connect_client
  <2>1. attempts = 0 /\ attempts' = 1
    BY <1>3 DEF xmpp_connect_client, TypeOK
  <2>2. /\ state = "DISCONNECTED" /\ phase = "idle" /\ parser_reset /\ ~secured
        /\ Opening
    BY <2>1 DEF Basics, Stages, Authenticating, Accepted, Begun
  <2>3. Basics'
    BY <1>3, <2>1, <2>2 DEF xmpp_connect_client, Basics, flags, stream, loop
  <2>4. Registered' = Registered
    BY <1>3 DEF xmpp_connect_client, Registered
  <2>5. Opening'
    BY <1>3, <2>2, <2>4 DEF xmpp_connect_client, Opening, NoHeaderToCome, flags, stream, loop
  <2> QED BY <2>3, <2>5 DEF Stages
<1>4. CASE ConnectClientFails
  <2>1. Quiet
    BY <1>1, <1>2, <1>4 DEF ConnectClientFails, Quiet, LinkStep, Registered, flags, stream,
       loop, ghosts
  <2> QED BY <2>1, QuietKeeps
<1>5. CASE xmpp_conn_disable_tls
  <2>1. /\ Registered' = Registered /\ tls_disabled'
        /\ UNCHANGED <<link, secured, authenticated, tls_support, stream, loop, ghosts,
                       id_handlers>>
    BY <1>5 DEF xmpp_conn_disable_tls, Registered
  <2>2. Basics'
    BY <2>1 DEF Basics, link, stream, loop, ghosts
  <2>3. NoHeaderToCome' = NoHeaderToCome
    BY <2>1 DEF NoHeaderToCome, link, stream
  <2>4. Opening => Opening'
    BY <2>1, <2>3 DEF Opening, link, stream, loop, ghosts
  <2>5. Begun => Begun'
    BY <2>1 DEF Begun, link, ghosts
  <2>6. Authenticating => Authenticating'
    BY <2>1, <2>3, <2>5 DEF Authenticating, stream, ghosts
  <2>7. Accepted => Accepted'
    BY <2>1, <2>5 DEF Accepted, link, stream, ghosts
  <2> QED BY <2>2, <2>4, <2>6, <2>7 DEF Stages
<1>6. CASE AppDisconnect \/ AppSendFails
  <2>1. LinkStep("close")
    BY <1>6, LinkSteps DEF AppDisconnect, AppSendFails
  <2>2. Quiet
    BY <1>1, <1>2, <1>6, <2>1 DEF AppDisconnect, AppSendFails, Quiet, Registered,
        flags, stream,
       loop, ghosts
  <2> QED BY <2>2, QuietKeeps
<1>7. CASE AppHandlerAdd
  <2>1. LinkStep("close")
    BY <1>7, LinkSteps DEF AppHandlerAdd
  <2>2. "user" \in Handlers
    BY DEF Handlers
  <2>3. Registered' \subseteq Registered \cup {"user"}
    BY <1>7, <2>2, AddedToAdds DEF AppHandlerAdd, Added, Registered, ListInv
  <2>4. Quiet
    BY <1>1, <1>2, <1>7, <2>1, <2>3 DEF AppHandlerAdd, Quiet, flags, stream, loop, ghosts
  <2> QED BY <2>4, QuietKeeps
<1>8. CASE AppTimedHandler
  <2>1. LinkStep("close")
    BY <1>8, LinkSteps DEF AppTimedHandler
  <2>2. Quiet
    BY <1>1, <1>2, <1>8, <2>1 DEF AppTimedHandler, Quiet, Registered, flags, stream, loop,
       ghosts
  <2> QED BY <2>2, QuietKeeps
<1> QED BY <1>3, <1>4, <1>5, <1>6, <1>7, <1>8 DEF Application

\* A stream header, which calls auth_handle_open or auth_handle_open_sasl.
LEMMA HeaderFirst ==
  ASSUME Basics, Stages, ListInv, NEW e, LinkStep(e), e \notin Credentials, StreamHeader
  PROVE  Basics' /\ Stages'
<1>1. /\ phase = "reading" /\ xml = "fresh" /\ xml' = "open"
      /\ UNCHANGED <<secured, authenticated, tls_disabled, tls_support, open_handler,
                     parser_reset, phase, attempts, offered, tried, accepted, id_handlers>>
  BY DEF StreamHeader, flags, loop, ghosts
<1>2. Basics'
  BY <1>1 DEF Basics, LinkStep
<1>3. ~Authenticating /\ (Opening => state # "CONNECTING")
  BY <1>1 DEF Authenticating, NoHeaderToCome, Opening
<1>4. /\ open_handler = "auth_handle_open" =>
           Registered' \subseteq Registered \cup {"stream_error", "features"}
      /\ open_handler # "auth_handle_open" =>
           Registered' \subseteq Registered \cup {"features_sasl"}
  <2>1. /\ "stream_error" \in Handlers /\ "features" \in Handlers
        /\ "features_sasl" \in Handlers
    BY DEF Handlers
  <2>2. /\ handlers \in Seq(Handlers) /\ IsInjective(handlers)
    BY DEF ListInv, HandlersOnce
  <2>3. /\ Added("stream_error") \in Seq(Handlers)
        /\ Range(Added("stream_error")) \subseteq Range(handlers) \cup {"stream_error"}
        /\ Range(Added("features_sasl")) \subseteq Range(handlers) \cup {"features_sasl"}
    BY <2>1, <2>2, AddedToKeeps, AddedToAdds DEF Added
  <2>4. Range(AddedTo(Added("stream_error"), "features"))
          \subseteq Range(handlers) \cup {"stream_error", "features"}
    BY <2>1, <2>3, AddedToAdds
  <2> QED BY <2>3, <2>4 DEF StreamHeader, OpenHandlers, Registered
<1>5. Opening => Opening'
  BY <1>1, <1>3, <1>4 DEF Opening, LinkStep, OwnHandlers, NoHeaderToCome, Credentials
<1>6. Begun => Begun'
  BY <1>1 DEF Begun, LinkStep
<1>7. Accepted => Accepted'
  BY <1>1, <1>4, <1>6 DEF Accepted, LinkStep
<1> QED BY <1>2, <1>3, <1>5, <1>7 DEF Stages

\* What expat reports.
LEMMA DocumentFirst ==
  ASSUME Basics, Stages, ListInv, Document
  PROVE  Basics' /\ Stages'
<1>1. "close" \notin Credentials
  BY DEF Credentials
<1>2. CASE HandleBadStreamStart \/ \E hasId \in BOOLEAN : HandleStreamStart(hasId)
  <2>1. StreamHeader /\ LinkStep("close")
    BY <1>2, LinkSteps DEF HandleBadStreamStart, HandleStreamStart
  <2> QED BY <1>1, <2>1, HeaderFirst
<1>3. ASSUME NEW s \in Stanzas, FireStanza(s) PROVE Basics' /\ Stages'
  <2>1. LinkStep("close")
    BY <1>3, LinkSteps DEF FireStanza
  <2>2. Quiet
    BY <1>1, <1>3, <2>1 DEF FireStanza, Quiet, Registered, flags, stream, ghosts
  <2> QED BY <2>2, QuietKeeps
<1>4. CASE handle_stream_end \/ TextOutsideStanza \/ ReadError
  <2>1. LinkStep("close")
    BY <1>4, LinkSteps DEF handle_stream_end, TextOutsideStanza, ReadError
  <2>2. Quiet
    BY <1>1, <1>4, <2>1 DEF handle_stream_end, TextOutsideStanza, ReadError, Quiet, Registered,
       flags, stream, loop, ghosts
  <2> QED BY <2>2, QuietKeeps
<1> QED BY <1>2, <1>3, <1>4 DEF Document

\* What the loop calls back for.
LEMMA EventFirst ==
  ASSUME Basics, Stages, Event
  PROVE  Basics' /\ Stages'
<1>1. "close" \notin Credentials /\ "stream" \notin Credentials
  BY DEF Credentials
<1>2. phase \in {"ids", "handlers"} => xml = "open"
  BY DEF Basics
<1>3. CASE EvbConnected
  <2>1. Opening /\ phase = "idle" /\ state = "CONNECTING" /\ attempts # 0
    BY <1>3 DEF EvbConnected, Stages, Authenticating, Accepted, Begun, Basics
  <2>2. /\ parser_reset' /\ open_handler' = "auth_handle_open" /\ xml' = xml
        /\ UNCHANGED <<authenticated, tls_disabled, tls_support, id_handlers, phase, attempts,
                       offered, tried, accepted>>
        /\ Registered' = Registered
    BY <1>3 DEF EvbConnected, conn_reset_stream, loop, ghosts, Registered
  <2>3. /\ state' # "CONNECTING"
        /\ evbuffer' \in {evbuffer, "freed"}
        /\ sent' \in {sent, "stream"}
    BY <1>3 DEF EvbConnected, conn_do_disconnect, Close
  <2>4. Basics'
    BY <1>3, <2>1, <2>2, <2>3 DEF EvbConnected, TlsUp, Basics
  <2>5. Opening'
    BY <2>1, <2>2, <2>3 DEF Opening, NoHeaderToCome
  <2> QED BY <2>4, <2>5 DEF Stages
<1>4. CASE EvbClosed
  <2>1. LinkStep("close")
    BY <1>4, LinkSteps DEF EvbClosed
  <2>2. Quiet
    BY <1>1, <1>2, <1>4, <2>1 DEF EvbClosed, Quiet, Registered, flags, stream, loop, ghosts
  <2> QED BY <2>2, QuietKeeps
<1>5. CASE evb_read_cb
  <2>1. /\ state = "CONNECTED" /\ phase' = "reading" /\ ~parser_reset'
        /\ xml' = IF parser_reset THEN "fresh" ELSE xml
        /\ UNCHANGED <<state, evbuffer, notified, sent, secured, authenticated, tls_disabled,
                       tls_support, id_handlers, open_handler, attempts, offered, tried,
                       accepted>>
        /\ Registered' = Registered
    BY <1>5 DEF evb_read_cb, link, flags, ghosts, Registered
  <2>2. Basics'
    BY <2>1 DEF Basics
  <2>3. Opening => Opening'
    BY <2>1 DEF Opening, NoHeaderToCome
  <2>4. Begun => Begun'
    BY <2>1 DEF Begun
  <2>5. Authenticating => Authenticating'
    BY <2>1, <2>4 DEF Authenticating, NoHeaderToCome
  <2>6. Accepted => Accepted'
    BY <2>1, <2>4 DEF Accepted
  <2> QED BY <2>2, <2>3, <2>5, <2>6 DEF Stages
<1>6. ASSUME NEW t \in timers, handler_timer_proxy(t) PROVE Basics' /\ Stages'
  <2>1. LinkStep("close")
    BY <1>6, LinkSteps DEF handler_timer_proxy
  <2>2. Quiet
    BY <1>1, <1>2, <1>6, <2>1 DEF handler_timer_proxy, Quiet, Registered, flags, stream, loop,
       ghosts
  <2> QED BY <2>2, QuietKeeps
<1> QED BY <1>3, <1>4, <1>5, <1>6 DEF Event

\* _handle_features: TLS first, or the first mechanism.
LEMMA FeaturesFirst ==
  ASSUME Basics, Stages, ListInv, handle_features
  PROVE  Basics' /\ Stages'
<1> DEFINE tls == "starttls" \in stanza.offers /\ ~secured /\ ~tls_disabled
           mechs == stanza.offers \cap Mechanisms
<1>1. /\ Calls("features") /\ do_auth("features", tls, mechs, <<>>)
      /\ offered' = stanza.offers
      /\ UNCHANGED <<secured, authenticated, tls_disabled, attempts, accepted, id_handlers,
                     open_handler, parser_reset, xml>>
  BY DEF handle_features, stream
<1>2. phase = "handlers" /\ "features" \in Registered /\ xml = "open"
  BY <1>1, CallEnds DEF Calls, Basics
<1>3. Opening /\ state # "CONNECTING" /\ ~parser_reset /\ attempts # 0
  BY <1>2 DEF Stages, Opening, Authenticating, Accepted, OwnHandlers, SaslHandlers, Basics
<1>4. Registered \subseteq OwnHandlers \cup {"features"}
  BY <1>2, <1>3 DEF Opening, OwnHandlers
<1>5. /\ "proceedtls" \in Handlers /\ "digestmd5_challenge" \in Handlers
      /\ "sasl_result" \in Handlers
  BY DEF Handlers
<1>6. ASSUME NEW e, LinkStep(e) PROVE Basics'
  BY <1>1, <1>2, <1>6 DEF Basics, LinkStep
<1>7. ASSUME NEW e, LinkStep(e), e \notin Credentials, tried' = <<>>,
             Registered' \subseteq OwnHandlers \cup {"proceedtls"}
      PROVE  Basics' /\ Opening'
  <2>1. NoHeaderToCome'
    BY <1>1, <1>2, <1>3, <1>7 DEF NoHeaderToCome, LinkStep
  <2> QED BY <1>1, <1>2, <1>3, <1>6, <1>7, <2>1
          DEF Opening, LinkStep, OwnHandlers, Credentials
<1>8. ASSUME NEW e, LinkStep(e), tried' # <<>>, ~NeedsTls(tls), tls_support' = tls,
             Registered' \subseteq OwnHandlers \cup SaslHandlers
      PROVE  Basics' /\ Authenticating'
  <2>1. NoHeaderToCome'
    BY <1>1, <1>2, <1>3, <1>8 DEF NoHeaderToCome, LinkStep
  <2>2. Begun'
    BY <1>1, <1>3, <1>8 DEF Begun, LinkStep, NeedsTls
  <2> QED BY <1>1, <1>3, <1>6, <1>8, <2>1, <2>2 DEF Opening, Authenticating, LinkStep
<1>9. tls_support' = tls
  BY <1>1 DEF do_auth
<1>10. CASE /\ End("features", Added("proceedtls")) /\ xmpp_send("starttls")
            /\ tried' = <<>>
  <2>1. LinkStep("starttls") /\ "starttls" \notin Credentials
    BY <1>10, LinkSteps DEF Credentials
  <2>2. Registered' \subseteq OwnHandlers \cup {"proceedtls"}
    BY <1>1, <1>4, <1>5, <1>10, CallEnds
  <2> QED BY <1>7, <1>10, <2>1, <2>2 DEF Stages
<1>11. ASSUME NEW e, NEW m \in Mechanisms, NEW h \in {"digestmd5_challenge", "sasl_result"},
              ~NeedsTls(tls), End("features", Added(h)), xmpp_send(e),
              tried' = Append(<<>>, m)
       PROVE  Basics' /\ Stages'
  <2>1. LinkStep(e)
    BY <1>11, LinkSteps
  <2>2. Registered' \subseteq OwnHandlers \cup SaslHandlers
    BY <1>1, <1>4, <1>5, <1>11, CallEnds DEF SaslHandlers
  <2>3. tried' # <<>>
    BY <1>11, AppendTried, EmptySeq
  <2> QED BY <1>8, <1>9, <1>11, <2>1, <2>2, <2>3 DEF Stages
<1>12. CASE /\ End("features", handlers) /\ tried' = <<>>
            /\ xmpp_disconnect \/ UNCHANGED <<link, timers>>
  <2>1. LinkStep("close") /\ "close" \notin Credentials
    BY <1>12, LinkSteps DEF Credentials
  <2>2. Registered' \subseteq OwnHandlers \cup {"proceedtls"}
    BY <1>1, <1>4, <1>12, CallEnds
  <2> QED BY <1>7, <1>12, <2>1, <2>2 DEF Stages
<1> HIDE DEF tls, mechs
<1> QED BY <1>1, <1>10, <1>11, <1>12 DEF do_auth, Mechanisms

\* _handle_proceedtls: the connection comes up again, with a header but no features yet.
LEMMA ProceedFirst ==
  ASSUME Basics, Stages, ListInv, handle_proceedtls
  PROVE  Basics' /\ Stages'
<1>1. /\ Calls("proceedtls") /\ End("proceedtls", handlers)
      /\ UNCHANGED <<secured, authenticated, tls_disabled, tls_support, attempts, offered,
                     tried, accepted, id_handlers, open_handler, parser_reset, xml>>
  BY DEF handle_proceedtls, stream, flags, ghosts
<1>2. phase = "handlers" /\ "proceedtls" \in Registered /\ xml = "open"
      /\ Registered' \subseteq Registered \ {"proceedtls"}
  BY <1>1, CallEnds DEF Calls, Basics
<1>3. Opening /\ attempts # 0 /\ ~parser_reset
  BY <1>2 DEF Stages, Opening, Authenticating, Accepted, OwnHandlers, SaslHandlers, Basics
<1>4. Registered' \subseteq OwnHandlers
  BY <1>2, <1>3 DEF Opening, OwnHandlers
<1>5. /\ sent' = sent
      /\ evbuffer' \in {evbuffer, "ssl", "freed"}
  BY DEF handle_proceedtls, conn_start_ssl, conn_do_disconnect, Close, link
<1>6. Basics'
  BY <1>1, <1>2, <1>3, <1>5 DEF Basics
<1>7. Opening'
  BY <1>1, <1>2, <1>3, <1>4, <1>5 DEF Opening, OwnHandlers
<1> QED BY <1>6, <1>7 DEF Stages

\* The handlers of a challenge.
LEMMA ChallengeFirst ==
  ASSUME Basics, Stages, ListInv, HandleChallenge \/ HandleRspauth
  PROVE  Basics' /\ Stages'
<1>1. "digestmd5_challenge" \in Registered \/ "digestmd5_rspauth" \in Registered
  <2>1. CASE HandleChallenge
    <3>1. Calls("digestmd5_challenge")
      BY <2>1 DEF HandleChallenge
    <3> QED BY <3>1, CallEnds
  <2>2. CASE HandleRspauth
    <3>1. Calls("digestmd5_rspauth")
      BY <2>2 DEF HandleRspauth
    <3> QED BY <3>1, CallEnds
  <2> QED BY <2>1, <2>2
<1>2. phase = "handlers"
  BY DEF HandleChallenge, HandleRspauth, Calls
<1>3. Authenticating \/ Accepted
  BY <1>1 DEF Stages, Opening, OwnHandlers
<1>4. tried # <<>>
  BY <1>3 DEF Authenticating, Accepted, Begun
<1>5. \E e : LinkStep(e)
  BY LinkSteps DEF HandleChallenge, HandleRspauth
<1>6. "digestmd5_rspauth" \in Handlers
  BY DEF Handlers
<1>7. Registered' \subseteq Registered \cup SaslHandlers
  <2>1. CASE HandleChallenge
    <3>1. /\ Calls("digestmd5_challenge")
          /\ \/ End("digestmd5_challenge", Added("digestmd5_rspauth"))
             \/ End("digestmd5_challenge", handlers)
      BY <2>1 DEF HandleChallenge
    <3> QED BY <3>1, <1>6, CallEnds DEF SaslHandlers
  <2>2. CASE HandleRspauth
    <3>1. Calls("digestmd5_rspauth") /\ Again(handlers)
      BY <2>2 DEF HandleRspauth
    <3> QED BY <3>1, CallEnds
  <2> QED BY <2>1, <2>2
<1>8. UNCHANGED <<secured, tls_disabled, tls_support, open_handler, parser_reset, xml,
                  id_handlers, offered, accepted, authenticated, attempts, tried>>
  BY DEF HandleChallenge, HandleRspauth, flags, stream, ghosts
<1> QED BY <1>2, <1>3, <1>4, <1>5, <1>7, <1>8, SaslStepKeeps

\* The resource and the session: only after <success/> are these handlers there.
LEMMA BindFirst ==
  ASSUME Basics, Stages, ListInv, handle_features_sasl \/ handle_bind \/ handle_session
  PROVE  Basics' /\ Stages'
<1>1. Accepted
  <2>1. CASE handle_features_sasl
    <3>1. "features_sasl" \in Registered
      BY <2>1, CallEnds DEF handle_features_sasl
    <3> QED BY <3>1 DEF Stages, Opening, Authenticating, OwnHandlers, SaslHandlers
  <2>2. CASE handle_bind \/ handle_session
    BY <2>2 DEF handle_bind, handle_session, CallsId, Stages, Opening, Authenticating
  <2> QED BY <2>1, <2>2
<1>2. UNCHANGED <<secured, tls_disabled, tls_support, open_handler, parser_reset, xml, offered,
                  accepted, attempts, tried>>
  BY DEF handle_features_sasl, handle_bind, handle_session, stream, ghosts
<1>3. phase \in {"ids", "handlers"} /\ xml = "open"
  BY DEF handle_features_sasl, handle_bind, handle_session, Calls, CallsId, Basics
<1>4. Registered' \subseteq Registered
  BY CallEnds DEF handle_features_sasl, handle_bind, handle_session, Registered
<1>5. /\ state' \in {state, "DISCONNECTED"} /\ evbuffer' \in {evbuffer, "freed"}
      /\ authenticated' => authenticated \/ notified' # "none"
      /\ notified # "none" => notified' # "none"
  BY LinkSteps DEF handle_features_sasl, handle_bind, handle_session, LoggedIn, LinkStep
<1>6. Basics'
  BY <1>2, <1>3, <1>5 DEF Basics
<1>7. Begun'
  BY <1>1, <1>2, <1>5 DEF Accepted, Begun
<1>8. Accepted'
  BY <1>1, <1>2, <1>4, <1>5, <1>7 DEF Accepted
<1> QED BY <1>6, <1>8 DEF Stages

\* Every step of a callback.
LEMMA CallbackFirst ==
  ASSUME Basics, Stages, ListInv, TypeOK, Callback
  PROVE  Basics' /\ Stages'
<1>1. "close" \notin Credentials
  BY DEF Credentials
<1>2. phase \in {"ids", "handlers"} => xml = "open"
  BY DEF Basics
<1>3. CASE ReadDone \/ EnableHandlers \/ SkipHandler
  <2>1. LinkStep("close")
    BY <1>3, LinkSteps DEF ReadDone, EnableHandlers, SkipHandler
  <2>2. Quiet
    BY <1>1, <1>2, <1>3, <2>1 DEF ReadDone, EnableHandlers, SkipHandler, Advance, Quiet,
       Registered, flags, stream, ghosts
  <2> QED BY <2>2, QuietKeeps
<1>4. CASE handle_stream_error \/ \E again \in BOOLEAN : handle_user(again)
  <2>1. LinkStep("close")
    BY <1>4, LinkSteps DEF handle_stream_error, handle_user
  <2>2. Registered' \subseteq Registered
    BY <1>4, CallEnds DEF handle_stream_error, handle_user
  <2>3. phase = "handlers" /\ Advance
    BY <1>4 DEF handle_stream_error, handle_user, Calls, Again, End
  <2>4. Quiet
    BY <1>1, <1>2, <1>4, <2>1, <2>2, <2>3 DEF handle_stream_error, handle_user, Quiet, flags,
       stream, ghosts
  <2> QED BY <2>4, QuietKeeps
<1>5. CASE HandleSaslResult \/ HandleChallengeResult \/ HandleRspauthResult
  BY <1>5, SaslResultKeeps DEF HandleSaslResult, HandleChallengeResult, HandleRspauthResult,
     SaslHandlers
<1> QED BY <1>3, <1>4, <1>5, FeaturesFirst, ProceedFirst, ChallengeFirst, BindFirst
        DEF Callback

\* The application is the only one to begin a connection.
LEMMA AttemptsGrow ==
  TypeOK /\ [Next]_vars =>
    attempts' \in {attempts, attempts + 1} /\ (attempts' <= 1 => attempts <= 1)
<1> SUFFICES ASSUME TypeOK, [Next]_vars
             PROVE  attempts' \in {attempts, attempts + 1} /\ attempts \in Nat
  OBVIOUS
<1> QED
  BY DEF TypeOK, Next, Application, Document, Event, Callback, vars, ghosts,
     xmpp_connect_client, ConnectClientFails, xmpp_conn_disable_tls, AppDisconnect,
     AppSendFails, AppHandlerAdd, AppTimedHandler, HandleBadStreamStart,
     HandleStreamStart, StreamHeader, FireStanza, handle_stream_end, TextOutsideStanza,
     ReadError, EvbConnected, EvbClosed, evb_read_cb, handler_timer_proxy, ReadDone,
     EnableHandlers, SkipHandler, handle_user, handle_stream_error, handle_features,
     handle_proceedtls, HandleSaslResult, HandleChallengeResult, HandleRspauthResult,
     handle_sasl_result, HandleChallenge, HandleRspauth, handle_features_sasl,
     handle_bind, handle_session

\* The first connection is in one of its stages.
LEMMA FirstInvHolds == Spec => []FirstInv
<1>1. Init => FirstInv
  <2>1. Init => Registered = {}
    BY DEF Init, Registered, Range
  <2> QED BY <2>1 DEF Init, FirstInv, Basics, Stages, Opening, OwnHandlers
<1>2. TypeOK /\ ListInv /\ FirstInv /\ [Next]_vars => FirstInv'
  <2> SUFFICES ASSUME TypeOK, ListInv, FirstInv, [Next]_vars, attempts' <= 1
               PROVE  Basics' /\ Stages'
    BY DEF FirstInv
  <2>1. attempts <= 1
    BY AttemptsGrow
  <2>2. Basics /\ Stages
    BY <2>1 DEF FirstInv
  <2>3. CASE UNCHANGED vars
    BY <2>2, <2>3 DEF Basics, Stages, Opening, Authenticating, Accepted, Begun, NoHeaderToCome,
       Registered, vars, link, flags, stream, loop, ghosts
  <2> QED BY <2>2, <2>3, ApplicationFirst, DocumentFirst, EventFirst, CallbackFirst DEF Next
<1> QED BY <1>1, <1>2, TypeCorrect, ListInvHolds, PTL DEF Spec

(***************************************************************************)
(* On the first connection of any application, whatever the server sends,  *)
(* the client counts as logged in only after a <success/> for a mechanism  *)
(* it tried.                                                               *)
(***************************************************************************)
THEOREM LoginNeedsSasl == Spec => [](attempts <= 1 => LoginAfterSasl)
<1>1. FirstInv => (attempts <= 1 => LoginAfterSasl)
  BY DEF FirstInv, Stages, Opening, Authenticating, Accepted, Begun, LoginAfterSasl
<1> QED BY <1>1, FirstInvHolds, PTL

(***************************************************************************)
(* On the first connection no credentials go over plain TCP when STARTTLS  *)
(* was offered and is not disabled.                                        *)
(***************************************************************************)
THEOREM CredentialsNeedTls == Spec => [](attempts <= 1 => AuthUnderTls)
<1>1. FirstInv => (attempts <= 1 => AuthUnderTls)
  BY DEF FirstInv, Basics, Stages, Opening, Authenticating, Accepted, Begun, AuthUnderTls
<1> QED BY <1>1, FirstInvHolds, PTL
=============================================================================
