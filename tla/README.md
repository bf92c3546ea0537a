# imcore in TLA+

A specification of imcore (`src/`), a C client library for XMPP with its own message threads,
in TLA+. TLC model-checks it on small instances, TLAPS proves most of its safety for all values of the
constants. Modules, configurations and this file are all there is; every definition names the
function it stands for, and `PROJECT.json` maps each to its lines.

To check: `tlc -config Conn.cfg MCXmppConn.tla` and likewise for the other runs below, and
`tlapm XmppConnProofs.tla` and likewise for the other modules whose name ends in `Proofs`.

## 1. The system

| Part | Code (`src/src/`) | State | Operations | Correct when |
|---|---|---|---|---|
| connection | `xmpp-conn.c`, `xmpp-inl.h` | `xmpp_conn_t`: state, bufferevent, TLS and login flags, errors, stream id | connect, TLS start, read and event callbacks, write, disconnect, stream restart | a connection that is not closed owns its bufferevent; flags are those of *this* connection; closing is done once and reported once; a disconnect ends |
| authentication | `xmpp-auth.c` | the flags above, handlers registered at each step | `auth_handle_open`, `_handle_features`, `_do_auth`, SASL handlers, bind, session | no login without an accepted mechanism; strongest first, each once; TLS first where it is offered; every attempt ends |
| handler lists | `xmpp-handler.c` | a list, a table of lists by id, timers | add, delete, fire on a stanza, timer proxy | dispatch survives what handlers do to the lists; one entry per function; timers run |
| parser | `xmpp-parser-expat.c` | depth, open stanza, pending reset | start, end and text callbacks of expat, feed, deferred reset | depth and tree agree; no data reaches a finished document |
| stanza tree | `xmpp-stanza.c` | nodes with a reference count, parent, siblings, children | new, clone, copy, release, add_child, attributes, serializer | counts are exact; trees are what was built |
| message threads | `im-thread.c` | a thread, its event base, its messages, an auto-reset signal | new, start, post, send, stop, join, free, break, wrap | a send returns after its handler; a stop runs what is due and returns; messages have a sink |
| hash table | `hash.c` | chains of entries | add, get, drop, iterate, free function | a map; iterators survive what is documented |
| loop, context | `xmpp-loop.c`, `xmpp-ctx.c` | loop status, allocator, log | run, run_once, stop | a stop ends the loop |
| SASL, digests, base64 | `xmpp-sasl.c`, `md5.c`, `base64.c` | the waiting block of MD5; else none | pure functions | agree with their RFCs |
| SRV lookup | `srv.c` | one buffer, loops over servers and polls | look a service up | ends with the record that was sent, or the domain and its default port |
| JID, strings, sockets | `xmpp-jid.c`, `stringutils.c`, `sock.c` | none | pure functions and system calls | lengths and offsets |
| memory ring | `mm.c` | a ring of allocations | alloc, free, dump | ring and counts agree |
| client facade, stubs | `imcore.c`, `im-conn.c`, `im-msg*.c`, `xmpp-oob.*` | little | mostly stubs | |

How they meet: libevent's loop runs `_evb_read_cb`, `_evb_event_cb` and timers of the connection
one at a time. A read feeds the parser; the parser calls the stream callbacks of the connection and
`handler_fire_stanza`; that calls handlers of the authentication and of the application, which
write, register and end handlers, restart the stream or close the connection, all of it inside the
parser's and the list's own loops. Message threads have loops of their own and talk through posted
and sent messages.

What is hard is therefore not parallelism inside the connection but *re-entrance*: an error three
calls down closes the connection and every caller goes on; a handler changes the list that is being
walked; the stream is restarted while the parser is in the middle of a chunk; a second connection
starts with what the first left behind. In the message threads it is ordinary concurrency: shared
signals, joins, and loops that end by themselves. `PROJECT.json` lists these hazards by line.

## 2. Modules

| Module | Models | Uses |
|---|---|---|
| `XmppConn` | connection, handshake, dispatch, timers; the server may send anything | |
| `XmppSession` | `XmppConn` with a server that keeps to XMPP and FIFO queues | `XmppConn`, `ConnEvents` |
| `ConnEvents` | abstract: what the application is told about an attempt | |
| `XmppSessionProofs` | theorems about `XmppSession` | `XmppSession`, `XmppConnProofs` |
| `XmppConnProofs` | theorems about `XmppConn`: lists, types, buffer, TLS, login, parser, cleanup timer | `XmppConn` |
| `ImThread` | message threads | |
| `ImThreadProofs` | theorems about `ImThread` | `ImThread` |
| `XmppStanza` | the heap of stanza nodes, the parser that builds it, the program that uses it | `StanzaTree` |
| `XmppStanzaProofs` | theorems about `XmppStanza` | `XmppStanza` |
| `StanzaTree` | abstract: ordered trees kept by owners | |
| `XmppHandlers` | handler lists as items in memory, timers, loop, references to the connection | `Hash` |
| `XmppHandlersProofs` | theorems about `XmppHandlers` | `XmppHandlers`, `HashProofs` |
| `Hash` | the hash table as a value | |
| `HashProofs` | lemmas about its operators, for tables of any values | `Hash` |
| `XmppAttributes` | attributes of elements in their tables | `Hash`, `ElementAttributes` |
| `ElementAttributes` | abstract: maps from keys to values, one per element | |
| `XmppAttributesProofs` | theorems about `XmppAttributes` | `XmppAttributes`, `HashProofs` |
| `Base64`, `XmppSasl`, `XmppText` | functions that only compute: base64, the SASL mechanisms, the text of a stanza | |
| `XmppCodecs` | calls of those, each with what it must give | the three above |
| `Md5` | how a digest cuts its text into blocks | |
| `CodecProofs` | theorems about `Md5` and `Base64` | `Md5`, `Base64` |
| `DnsMessage`, `SrvLookup` | the messages of a lookup; its servers, polls and fallback | |
| `MC...` | constants for TLC; `MCXmppData` runs the independent parts together | |

A definition marked *Faulty variant* is a plausible mistake in the code. No specification uses
it: each property is known to fail when the definition below it is exchanged for such a variant.

### XmppConn

The variables are the fields of `xmpp_conn_t`, plus where the loop is: `phase`, `stanza` and `todo`
(the part of the list that `list_for_each_safe` has yet to visit). One step is one handler, one
libevent callback, one call of the application, or one thing that expat reports. A handler is one
step with all it calls, failing writes included: `Write`, `conn_do_disconnect`, `xmpp_disconnect`,
`conn_reset_stream` are the functions of those names as changes of state. The application may act
between any two steps: connect (when the connection is DISCONNECTED), disconnect, forbid TLS, send
something that fails, add a handler and a timer. `fault` records undefined behaviour (a double free,
a copy of NULL, a write to no bufferevent) and stops the program. `attempts`, `notified`, `sent`,
`offered`, `tried`, `accepted` are history for the properties.

Three constants are behaviours, not bounds. `LibeventFails` lets writes and the TLS filter fail.
`HashAddInserts` says what `hash_add` does with an absent key in a table without a free function:
`FALSE` is the code (`hash.c:100`), `TRUE` is its comment (`hash.c:30`). With the code as it is no
login ever completes (finding 1); to see what lies behind that, the login is also examined with
`TRUE`. `Conforming` says whether each stream error names its condition, each challenge has a nonce and
the application's JID a node. With `FALSE`, in the runs of `XmppConn`, `_handle_stream_error` may
dereference the child that is not there (`xmpp-auth.c:91-152`), `_handle_digestmd5_challenge` the nonce or
the node (`NullDereference`), and `_do_auth` gives up before PLAIN with its mask and handlers as they were
(`xmpp-auth.c:587-596`). `XmppSession` is about servers and JIDs that conform.

### XmppSession

Adds a server and two queues. `Answers` gives what XMPP allows in return for each element the client
writes; a server may instead end with a stream error, keep alive with whitespace once the client is
logged in, or lose the connection. A chunk may end anywhere, so parsing and reading are separate.
`stage` maps this to `ConnEvents`.

### ImThread

`im_thread_t` objects, clients, and handlers that make calls themselves. Calls are cut where another
thread can come between: a post lists its message under the lock and then arms its event; a send
then waits for the sink's signal, which all its senders share; a stop asks the loop to exit and then
joins. Event loops follow libevent: they return when no event is left, after a break, and after the
exit event once everything that was due before it has run.

`SerialSends` restricts the application to one send per thread at a time. `HandlerCalls` says which
calls handlers make.

### XmppStanza

A heap of nodes with the fields of `xmpp_stanza_t` that make the tree. The operators
`xmpp_stanza_new`, `_clone`, `_release`, `_add_child`, `_copy` are functions of a heap, so that a
caller such as `Grow` (new, add, release) composes them in the code's order. The parser's actions are
expat's callbacks, `parser_reset` (a flag) and `parser_feed` (which acts on the flag between two
chunks). The refinement maps the heap to `StanzaTree`: the children of a node are its chain, the
parser owns the root of what it builds.

### XmppHandlers

`XmppConn` has the handler lists as far as the handshake uses them. Here they are what the code has:
items at addresses that are freed and used again, a list per id with a head of its own in a hash
table, and the two cursors `pos` and `tmp` of `list_for_each_safe`. One step is one call of the
program, one move of the cursors or one event; whoever is called may add, delete, log in, clone, stop
the loop, and delete itself or its neighbour. `fault` names the memory error that ends a behaviour,
`misuse` what the functions called for this stanza did to provoke it: `FaultsExplained` says that
there is no other cause. `inserts` is the behaviour of `hash_add` (`HashAddInserts` above), chosen in
`Init`, so that both are checked.

### Hash, XmppAttributes

The operators of `Hash` are the functions of `hash.c` on a record of chains, count and flag.
`XmppAttributes` has a table for each element, made by the first attribute, and a copy that reverses
chains; it implements `ElementAttributes`, where an element is a map. `XmppSasl` therefore uses a map
for its table of directives.

### Functions: Base64, XmppSasl, XmppText, XmppCodecs

What has no state is an operator, translated loop by loop: signed bytes under shifts in base64, the
reader of a DIGEST-MD5 challenge, the two passes of the serializer with the room that is left. A step
of `XmppCodecs` is one call; its invariants compare the result with a reference: decoding inverts
encoding, the answer holds the directives that were sent, the text is that of a direct definition.

`base64_decode` keeps the room that it allocates, `base64_decoded_len` and a byte, next to the bytes that
it stores: `Overrun` is the result where the second exceed the first. A character from 128 up is negative
and reads what stands before the table; what that is the build decides, so `Readings` has all values that
make a difference. `sasl_digest_md5` takes and gives the base64 code of a text (`Coding`), and gives up on
one that cannot be decoded (`Garbled`).

### Md5, DnsMessage, SrvLookup

`Md5` keeps the block that waits and the two words of the count; `MD5Transform` is left uninterpreted,
so that its argument, all bytes block after block, is what `BlocksRight` compares with RFC 1321.
`SrvLookup` is `im_srv_lookup` on Windows (the sockets build on nothing else): dnsapi, then each
server with its polls, then the fallback. What a server does when it is asked (answer now or later,
stay silent, send an empty datagram, fail) is chosen when it is asked. After the answers the function
reads as many records again (`srv.c:642-644`, `ReadAgain`), from where the answers end. If the message has
as many records of other sections there, the loop stays inside it; if not, it reads bytes that were never
written, which may end, go round in a circle of pointers, or leave the buffer. A caller for whom it does
not end well is "lost".

`MCXmppData` runs these parts: they share no state, so `Init` picks the one that moves.

## 3. Runs

| Run | Bounds | States | Shows |
|---|---|---|---|
| `conn` | 1 attempt, 5 offers, failing writes, `HashAddInserts` | 2.6 M | `TypeOK`; `BufferOwned`: no write or event goes to a freed bufferevent; `DispatchSafe`; `LoginAfterSasl`; `StrongestMechanismFirst`; `AuthUnderTls` |
| `conn_reconnect` | 2 attempts, 2 offers | 5.7 M | What the first connection leaves: `HandlersOnce`, `NoTlsInsideTls`, `ParserReady`, `CleanupWhileOpen` |
| `session` | 1 attempt, 6 offers, conforming server | 17 k | `StreamsAgree`: client and server never disagree on the layer; `NoFault`; `EventsKept`: refines `ConnEvents`, liveness included |
| `thread` | 2 threads, 1 client, 2 messages, handlers that send, stop, break | 74 k | `TypeOK`, `SignalIsOwed`, `MessagesHaveSink`, `SendWaitsForHandler`, `StopRunsDue`, `StopReturns` |
| `stanza` | 5 nodes, 4 levels, symmetric addresses | 14 k | `TypeOK`, `ListsAgree`, `RefsExact`, `NothingElseLeaks`, `ParserKeepsLevel`; `TreeKept`: refines `StanzaTree` |
| `handlers` | 4 items, 3 functions, 2 for ids, 1 for timers, 2 ids in one slot, 2 references, symmetric addresses | 0.99 M | `ItemsOwned`: each item is in one list, once; `DispatchExact`: who is called for a stanza; `FaultsExplained` |
| `data` | see below | 24 k | `AttributesListed`; `AttributesKept`: refines `ElementAttributes`; `Base64Exact`; `ResponseRight`; `RenderExact`; `LookupRight`; `BlocksRight` |

Runs in which TLC finds what a comment of the code says to be false:

| Run | Property | Finding |
|---|---|---|
| `session_bind` | `LoginResolves` | 1. `hash_add` refuses absent keys, the reply to bind finds no handler, a login never ends |
| `disconnect_timeout` | `DisconnectCompletes` | 2. the timer proxy skips functions that are not the application's, so `_disconnect_cleanup` never runs |
| `secured_reconnect` | `SecuredIsTls` | 3. `secured` is never reset: a later plain connection counts as secure |
| `thread_send_order` | `SendWaitsForHandler` | 4. two senders share one auto-reset signal, one can be woken by the other's handler |
| `thread_send_returns` | `SendCompletes` | 5. a send to a loop that does not run waits for ever |

What three of the properties of `data` say exactly:

* `Base64Exact`: encoding is that of RFC 4648 just where no sign is in the way. A text that ends with data,
  one pad or two is never stored beyond its room, whatever characters are in it; a text with another ending
  is, just where its first quartet is in the alphabet. So "reject bad coding" (`base64.c:112`) is not what
  happens: the length is 0, but the decoder does not ask for that, allocates one byte and stores all whole
  quartets.
* `RenderExact`: texts and attributes are read back as they were, but for an apostrophe in an attribute, which
  `_escape_xml` leaves as it is although attributes stand in apostrophes.
* `LookupRight`: a lookup that returns has the last SRV record of the answers, or the fallback. The first loop
  never reads behind the datagram; the second does only where fewer records follow the answers than there
  are answers.

**Why the bounds suffice.** The handshake has no loop but the tries of mechanisms (two) and stream
restarts; all of them happen in one attempt. Two attempts are needed, and enough, for a field to be
left over by one and used in the next. `FewOffers` has the offer that leads to TLS and the one that
does not. Two threads let a handler send to and stop another thread that does the same; a
lost or stolen signal needs two messages. Five nodes at four levels include a stanza with
siblings, a grandchild, a copy of a tree of two, and a tree adopted by another. Four items are
a list of three with its cursors apart, or a list of an id with its head and two entries and one item
to spare, whose memory can come back in a place the cursors hold; two ids in one slot share a chain.

In `data`: three keys in two slots, so that a chain has two; two elements, for a copy and its
original. Texts of two to six bytes from {0, 77, 127, 128, 255} have every remainder by three with
and without a sign in every place. Texts to decode have all endings of data, pads and foreign
characters, behind a first quartet that is whole or not, with a character from 128 up in the first, the
middle and the last place, read as negative, data, pad or foreign. Up to three directives of seven, twice the same among them. Trees
of depth three, rendered into first buffers of 1 to 40 characters, so that every element is once the
one that no longer fits. Labels of 63 and 64 bytes, the limit and what exceeds it; two servers with
two polls; answers of none to three records, with none to three of other sections behind. Blocks of 8 bytes with words of one byte: up to four pieces of nine lengths leave the
block empty, short, full or over, and 32 bytes overflow the low word, by a carry and in one
addition.

**Deadlock** is checked in `stanza`. The other systems may really stop: the application makes no more
calls, or a fault ends the program.

### Fairness

* `XmppConn` (`FairSpec`, for `DisconnectCompletes`): the loop finishes a callback it has begun and
  runs a timer that is due. A read ends although chunks may follow each other, hence strong fairness
  of `ReadDone`. Nothing is assumed of the server or the application.
* `XmppSession`: as above, and the server answers, a TCP or TLS handshake ends one way or the other,
  data that has arrived is read, a closed connection is noticed. A chunk need not hold a
  complete element, so parsing, which may be disabled by the end of a chunk, is strongly fair.
* `ImThread`: threads are scheduled and handlers return unless they wait for another thread.
  libevent runs active events in order, so that an event that came up is not overtaken for ever:
  strong fairness of running a message and of the exit event.

## 4. Proofs

Every theorem is about a specification without fairness, or with fairness that it does not use, and
holds for all values of the constants that satisfy the named assumptions of its module. Where a theorem
needs more it says so in its statement.

### XmppConn

From `OffersAssumption` (offers are sets of features), `MaxConnectsAssumption` (a natural number),
`LibeventFailsAssumption`, `HashAddInsertsAssumption` and `ConformingAssumption` (Booleans). In
`XmppConnProofs`:

| Theorem | Property | Inductive invariant |
|---|---|---|
| `DispatchIsSafe` | `DispatchSafe` | `ListInv` |
| `HandlersAreUnique` | `HandlersOnce` | `ListInv` |
| `TypeCorrect` | `TypeOK` | `ListInv /\ FieldsOK` |
| `BufferIsOwned` | `BufferOwned` | `BufferOwned` itself |
| `TlsIsNotNested` | `NoTlsInsideTls` | `TlsInv` |

*Lists.* `DispatchSafe` alone is not inductive: ending a handler keeps the rest of the walk linked
only if no function is twice in the list and none twice in the walk, and the walk is non-empty
exactly in phase "handlers". `ListInv` says so. Its proof does not go through every action: lemma
`NextIsListStep` shows that each action does one of four things to the lists (nothing; adds one or
two functions outside the walk; starts a walk over what is there; moves on, perhaps unlinking the
current one after adding one), and `ListStepKeeps` that these four keep it. `UnlinkKeeps`,
`AddedToKeeps` and `TailKeeps` are facts about sequences without duplicates.

*Types.* `FieldsOK` splits in `LinkOK`, `FlagsOK` and `StreamOK`, the parts that the operations
change together; each group of actions has a lemma.

*Buffer.* `conn_do_disconnect` is the only operation that frees the bufferevent; action by action,
whatever may reach it leaves DISCONNECTED behind.

*TLS.* `NoTlsInsideTls` speaks of the last element written; `TlsInv` adds that while TLS is up
`secured` is set, which is what `_do_auth` tests.

The login, in the second half of the module:

| Theorem | Property | Inductive invariant |
|---|---|---|
| `StrongestIsFirst` | `StrongestMechanismFirst` | `MechInv` |
| `ParserIsReady` | `ParserReady` | `ParserInv` |
| `CleanupIsOfThisConnection` | `CleanupWhileOpen`, if libevent's calls do not fail | itself |
| `LoginNeedsSasl` | `LoginAfterSasl`, on the first connection | `FirstInv` |
| `CredentialsNeedTls` | `AuthUnderTls`, on the first connection | `FirstInv` |

*Mechanisms.* That each is tried once depends on the mask: `MechInv` adds that what was tried is no
longer in it, and that DIGEST-MD5, if offered, is there as long as nothing was tried. It holds over any
number of connections, since `_handle_features` fills the mask anew.

*The first connection.* `LoginAfterSasl` relates a flag to a step long past. `FirstInv` says in which
of three stages a connection is and which handlers each of them has: `Opening` (features, perhaps TLS;
the connection may still come up), `Authenticating` (something was tried; only handlers of SASL),
`Accepted` (the second features, bind, session). A step is *quiet* (`QuietKeeps`) or one of the dozen
that a stage is about. What keeps the stages apart is that no second header can arrive while one
authenticates, `NoHeaderToCome`: the parser is in the middle of its document and nobody asks for a
reset. On a later connection the two properties are only model-checked where they hold and are false
where they do not: `authenticated` is still set and handlers of the earlier login are still listed.

*The timer.* With failing writes the property is false (`xmpp_disconnect` sets the timer on a
connection that its own write has closed), so `~LibeventFails` is a hypothesis of the theorem.

### ImThread

From `ThreadsAssumption` (a thread is not a client), `NobodyAssumption` (what stands for no actor and no
message is neither) and `SerialSendsAssumption` (a Boolean), in `ImThreadProofs`:

| Theorem | Property | Inductive invariant |
|---|---|---|
| `ThreadsTypeCorrect` | `TypeOK` | `ThreadInv` |
| `MessagesKeepSink` | `MessagesHaveSink` | `ThreadInv` |
| `StopKeepsPromise` | `StopRunsDue` | `ThreadInv` |
| `SignalsAreOwed` | `SignalIsOwed`, if sends are serial | `ThreadInv /\ SerialInv` |
| `SendsWaitForHandler` | `SendWaitsForHandler`, if sends are serial | `ThreadInv /\ SerialInv` |

`ThreadInv` is a conjunction of what the parts of a call rely on: that a caller is in one call, of a
thread and a message that exist (`CallTarget`, `CallMessage`, `CallExclusive`); that a message has a
sender, a sink and a place in its list that agree (`MessageOK`); that what a loop runs is its own
(`CurrentOK`, `LoopOK`); that what was due before a stop is still there or has run (`StopPromise`,
`BeforeOK`, `HandledOK`). `SerialInv` is the argument of the code's comment made exact: with one sender
at a time (`OneSender`) a set signal is that sender's (`SignalOK`), so a wait is not satisfied by another
one's handler. Without `SerialSends` both are false, which is finding 4. `SendWaitsForHandler` is an
action property: it is proved for each step, from the two invariants.

### Hash tables and attributes

`HashProofs` has the facts about `hash.c` that other modules cite, for tables of any values:
`hash_drop` takes away what its key stood for and nothing else (`DropRight`), `hash_add` gives the key
its value and changes no other, those in the same chain included (`InsertedRight`), also in a table
without a free function, in which it refuses absent keys (`AddWithoutFree`). They need `KeysInPlace` (a
chain has only keys of its slot, each once): `hash_drop` unlinks the first hit, and a second one would be
read from then on.

`XmppAttributesProofs` proves, for any elements, keys, slots and hash function, from
`HashKeyAssumption` (keys have a slot), `KeysAreFinite`, `ValuesAssumption`, `NullIsNoTable` (NULL is neither a value
nor a table) and `EmptyKeyAssumption` (attributes have names) alone:

| Theorem | Property | Inductive invariant |
|---|---|---|
| `AttributesTypeCorrect` | `AttrTypeOK` | `AttrInv` |
| `AttributesAreKept` | `AttributesKept`, the refinement of `ElementAttributes` | `AttrInv` |
| `AttributesAreListed` | `AttributesListed` | `AttrInv /\ CountInv` |

`AttrInv` adds `KeysInPlace` to the types. Lemma `CopiedRight` says what the copy, which reverses
chains, makes of a table; with `MapOf`, the map a table stands for, each action is then a step of
`ElementAttributes` or changes nothing (an attribute set to the empty string).

For the list, `CountInv` adds that the count of a table is the number of keys that are found in it. An
iterator stands somewhere in the table, `StandsAt`: it has met the first `at[i]` entries of each slot.
`NextAdvances` shows that a step raises one of these numbers by one and gives the entry there, or that
all are met, chains that are empty and the change from one chain to the next included. By induction over
the rounds (`WalkSteps`, `WalkEnds`) a loop has then met each key it passed once, and what its copy has so
far is each chain, as far as it was passed, reversed. The rounds are enough because each meets another
key and keys are finite. Recursive functions are shown to follow their definitions (`RoundsAre`,
`CopyLoopIs`) and inductions are done with `SetInduction`, for sets of numbers, which follows from the
least member of the set of counterexamples; the library's theorem takes a predicate as a parameter,
which the prover cannot instantiate.

### Handler lists

`XmppHandlersProofs` proves, for any functions, ids, slots and any number of items, from `UserFnsAssumption`
(the application's functions are functions), `NullAssumption` (NULL is no address, id or function),
`EmptyIdAssumption` (no handler is registered for the empty id) and `SlotsAssumption` (ids have a
slot):

| Theorem | Property | Inductive invariant |
|---|---|---|
| `ItemsAreOwned` | `ItemsOwned` | `HeapInv` |
| `FaultsAreExplained` | `FaultsExplained` | `HeapInv /\ WalkInv` |
| `DispatchIsExact` | `DispatchExact` | `HeapInv /\ WalkInv /\ WaitingInv` |

`HeapInv` says what the lists are: sequences of allocated items without duplicates (`ListTypes`), each of
the kind of its list (`KindsOK`), one per function (`FnsOnce`), and of the lists by id that the head is
the one in the table and no item of two ids (`IdsOK`). That the table finds an id's list, and only that,
is where the lemmas of `HashProofs` come in. `WalkInv` says where the two cursors are: `pos` and `tmp`
are in the list that is walked, for as long as no function that was called has deleted itself, the next
one, or the last of its list; these are what `misuse` records, and the proof that every fault has one of
them is the proof that there is no other way. `WaitingInv` says that who is still to be called is exactly who is enabled
from the cursor on (`WaitingFrom`); `DispatchExact` is its special case at the end of the walk, where
nobody may be left.

### XmppSession

`XmppSessionProofs`, for all sets of offers, from `BothConform` (`Conforming` is TRUE). `~LibeventFails` is a hypothesis of all three: a write that
fails closes the connection under its caller, and the server knows nothing of it.

| Theorem | Property | Inductive invariant |
|---|---|---|
| `StreamsAreAgreed` | `StreamsAgree`, on the first connection | `SessionInv` |
| `NothingUndefined` | `NoFault`, on the first connection | `SessionInv` |
| `EventsInOrder` | `Events!Init /\ [][Events!Next]_stage`, the safety part of `EventsKept`, for one connection | `SessionInv` |

What has been proved of `XmppConn` is used here: a session is a connection (`SessionIsConn`), so its
types, lists, buffer and stages are known. The rest is that client and server talk *in turns*.
`SessionInv` has four parts. `ClientInv`: the login waits for one thing at a time, that is, but for
`_handle_stream_error` one function at most is registered, and none while a header is due or TLS comes
up. `CloseInv`: a connection is closed once, and when that happens within a callback nothing is left
that the callback could do with it. `QueueInv`: a header comes first in what is read, an end last.
`TalkInv`, the core: while the server is open, at most one thing is under way, a request in the queue
(`Asked`), its answer (`Answered`) or the answer being handled (`Handling`), and the handlers that are
registered are those that fit it, on the layer that it leads to. None of these follows from the others:
that a header finds a fresh parser needs that nothing else was in the queue; that `bind` is never copied
from NULL needs that the features of an authenticated stream are answered by `_handle_features_sasl` and
by no other. On a second connection `authenticated` and old handlers are left over, the turns are lost,
and the invariant with them, hence the restriction to the first.

### Md5

From `BlockSizeAssumption` (a word has bytes; a block has room for a length; blocks divide the range of a
word of the count) and `PiecesAssumption` (pieces are sequences of bytes), in `CodecProofs`:

| Theorem | Property | Inductive invariant |
|---|---|---|
| `DigestsTheText` | `BlocksRight` | `Md5Inv` |

`Md5Inv` adds to `BlocksRight` what the two words of the count are: the length in bits modulo a word, and
its overflow modulo a word. This is where the code could go wrong (`CountedRight`): the carry is recognised by a low word
that got smaller, which is right although the length of a piece may itself be more than a word holds, since
its upper part is added separately. `LongPiece` puts the block that waits, the whole blocks and the rest
together again, `PaddedRight` compares the two forms of the last blocks with the fewest zeros that RFC
1321 asks for, and `WordsRight` the bytes of two words with those of one number.

That powers of 256 multiply (`PowerOfSum`) is an induction over sets of numbers, as for the lists of
attributes.

### Base64

`Base64RoundTrip`, in `CodecProofs`, says of every text of two bytes or more that its encoding has the
length `base64_encoded_len` for which the code made room, and that decoding gives the text back if and
only if `SignIsHarmless`: where a byte of a whole group is 128 or more, the bytes of that group before it
are 255. It is a clause of `Base64Exact` for texts of any length, needs no assumption, and has no
invariant, since both functions are pure.

The texts are rows of groups, of three bytes and of four characters. The member at a place of such a row
is found by division (`FlattenRow`); that needs that the recursive function by which the library flattens
a sequence has one solution, the induction over sets of numbers again (`FlattenIs`). `HextetsDecode` is
the arithmetic of one group, and `GroupIs` says that a group comes back just if no sign spoils it.
`EncodedIs` and `DecodedIs` put the groups and the last quartet with its pads together: pads stand only
there (`FirstOutsideIs`), so the decoder reads all the whole quartets and takes as many bytes from the
last one as were left over.

`DecodingFits` is about the room, for any text of whole quartets, foreign characters and whatever is read
before the table included: the decoder stores more bytes than it allocated if and only if
`base64_decoded_len` is 0 and the first four characters are in the alphabet. So a text that ends with data,
one pad or two always fits: the first character outside the alphabet is at or before its first pad
(`FirstOutsideLeast`, `WholeOf`), the last quartet is not among the whole ones where there is a pad, and
then adds no more than the length counted (`RestLen`). And every other text that begins with a whole
quartet does not fit: room for no byte, and three are stored.

### XmppStanza

From `NullIsNoNode`, `NodesAreFinite` and `MaxDepthAssumption` (the bound on the nesting is a number), in
`XmppStanzaProofs`, with `StanzaInv` as the inductive invariant of all:

| Theorem | Property |
|---|---|
| `StanzaInvariant` | `StanzaInv` itself |
| `TypesHold` | `TypeOK` |
| `ListsAlwaysAgree` | `ListsAgree` |
| `CountsAlwaysExact` | `RefsExact` |
| `OnlyResetLeaks` | `NothingElseLeaks` |
| `LevelKept` | `ParserKeepsLevel` |
| `TreesAreKept` | `TreeKept`, the refinement of `StanzaTree` |

The properties speak of what can be *reached*, by walks along pointers, and a step changes pointers in the
middle of such walks. `StanzaInv` speaks of single nodes instead. `Owned` is what is allocated and was not
left behind. `Forest` says of it: the pointers of a node lead to owned nodes and agree with each other
(`Linked`: the first child has no predecessor, the next one has this one before it and the same parent, a
root has no siblings), and none of the three ways, to the parent, to the next and to the previous, is a
circle (`Ends`: a set of nodes that is not empty has one whose pointer leaves the set). `CountsRight`
counts parents by the parent pointer. `RootsHeld` and `ParserRight` say whose the trees are: what the
program holds is in a tree that it holds; the parser's is nobody else's until it is delivered.

The bridge between the two is one lemma about the walks of the model, `FollowRight` (a walk follows its
pointer, stays in the forest, and ends at Null), and one about sets that are reached, `ClosureIs` (the least
set that is closed). That the walks are long enough is where finiteness comes in: without a circle no walk
is longer than there are nodes. From them, `KidsListed`, `KidsOnce`, `KidsRight`: the list of children
is in order, without repetition, and is exactly the nodes that name their parent. `BelowIs`: the
nodes below a set are those with one of the set above them. `ReachableIs`: what can be reached is all that is
owned, since a node without a parent has a count and thus an owner.

Each operation then has a lemma that it keeps the forest (`AddForest`, `NewForest`, `RemoveForest`,
`CopyForest`) and one on the nodes that it leaves where they were (`PathFrame`), and `ReleaseKeeps` and
`ReleaseRemoves` say what the recursion of `xmpp_stanza_release` does: with another owner left it takes
one from one count, and otherwise the whole tree is gone. It is the last one that needs the counts
below the root: each is one, so nothing in the tree is spared.

The rules for the program (first paragraph of the module) are used where one expects them: that a child
has no parent and is not above its new one, in `Attached`; that nothing below a released node is in use, in
`AppReleaseStep`. Without them the invariant is false, and so is the code.

**The refinement.** `TreesAreKept` says that the heap implements the ordered trees of `StanzaTree`, where
there are no counts, no siblings and no moment of freeing. `Shape(h, R)` is the lists of children of the
nodes of a forest; with `StanzaInv` it is what the refinement mapping gives for `kids` (`TreeIs`), and
`Under` of `StanzaTree`, another recursion, is `Below` (`UnderIsBelow`: both are least closed sets).
What is alive there is thus what is owned here (`AliveIs`). The list of a node is the only sequence
that its pointers lead along (`ChainedOnce`), so the effect of an operation on the lists follows from the
pointers that it sets: nothing for nodes whose first child and whose children's next pointers stay
(`KidsFrame`), one more at the end for `xmpp_stanza_add_child` (`ShapeAdded`), the images of the children
for `xmpp_stanza_copy` (`ShapeCopied`), and for a release, whether it counts down or frees a
tree, what the owners of the next state still reach (`ShapeReleased`). Each action is then one step of
the trees or none (`StartMaps` to `StutterMaps`): elements and texts are `Attach`, the end of a callback and
a reset are `Close`, and the calls of the program are `New`, `Keep`, `Copy`, `Attach` and `Drop`.

### Only model-checked

* Liveness, `StopReturns` and the fairness part of `EventsKept`, is beyond the prover.
* What `XmppText`, `XmppSasl`, `DnsMessage` and `SrvLookup` compute (`ResponseRight`, `RenderExact`,
  `LookupRight`), and that the text of `Base64` is that of RFC 4648 and foreign characters are refused
  (the rest of `Base64Exact`): these compare what a recursive operator or a fold makes of data with a
  reference definition that is given for small inputs, and the modules that declare recursive operators
  are out of the prover's reach.
* `SecuredIsTls`, `LoginResolves` and the other properties of the runs that find a violation are false of
  the code.


## 5. What the model assumes and leaves out

* Memory allocation succeeds, except where `LibeventFails` makes libevent report an error.
* One thread uses a connection. Calls from other threads (as in `tests/test_ctx.c`) fall between
  handlers, not inside them.
* In `XmppConn` the application connects only when DISCONNECTED, adds one function without a filter,
  and deletes none from a callback; what functions do to each other is the subject of `XmppHandlers`,
  which leaves open which stanza matches. There the connection is not released inside a callback.
* BEV_EVENT_TIMEOUT cannot come: no timeout is ever set. `zlib_support`, `tls_failed`, and the time
  limit declared in `xmpp-auth.c` are never used.
* `CleanupWhileOpen` needs writes that succeed: after a failing one, `xmpp_disconnect` sets its timer
  on a connection that is already closed. `NoFault` needs a conforming server. `session` is limited to
  one attempt: `authenticated` is still set on a second one, and with that an attempt can stall.
* Message threads: control calls (start, stop, join, free) on one thread do not overlap, an
  object is used only while it exists, wrapped threads, a send to the own thread (a plain call) and a
  failing CreateThread are left out. Delays of posts are arbitrary. `SetEvent` and the removal of the
  message are one step.
* Stanzas: names, texts and attributes are left out. The program releases a node only when
  nothing below it is in use (by itself, or as the stanza being delivered), clones whole stanzas only and links a node to one parent: the code does not
  check this, and its callers keep to it. `parser_free`, which leaves an open stanza behind, is not
  modelled; nodes that a reset in mid-stanza leaves behind are collected in `lost`.
* Keys of hash tables are plain ASCII: `_hash_key` shifts signed characters, and any other may leave
  the table (`hash.c:89`).
* Base64 is given two bytes or more: `len - 2` is unsigned. What a decoder does that has stored bytes
  beyond its room is not followed further. `char` is signed, as on the platforms the library is built for.
* SASL values have no quotes inside. `ResponseRight` is about answers, so the challenge has a nonce, the
  JID a node and a domain (`CanRespond`); what the code does without them is in `XmppConn`. MD5 is
  uninterpreted, so that the property says which values the response is made of, in the order of
  `DigestResponse`, which stands on both sides; that this order is RFC 2831's is read off the code.
* `RenderExact` excludes an apostrophe in an attribute, which the serializer does not escape.
* In `XmppConn` other stanzas than features come without children, but for a message with a child in the
  namespace of TLS or SASL, which a handler of that namespace takes for its own (`xmpp-handler.c:89`).
  The list of an id whose last handler ends (`xmpp-handler.c:51`) is a matter of `XmppHandlers`.
* DNS answers are whole, with pointers that lead back; the code checks neither. The second loop is
  followed up to the end of the datagram. A domain ends
  without a dot. How the registry's list of servers is read is abstracted to how many there are.
* `xmpp_run_once` with a timeout sets a timer and dispatches nothing, so it has no action.

**Not modelled.** `MD5Transform` is straight-line arithmetic. The memory ring (`mm.c`) is a list that
all threads change without a lock: whatever two of them do at once is undefined. Wrapped threads,
logging, the allocator and the SSL context are set-up. The pthread emulation is another project's and
not used by the message threads. Client facade and message files are stubs: their functions return at
once or are declared only. `PROJECT.json` has each under `components`.

## 6. Plan

Done: connection and session, message threads, stanza tree, handler lists with the hash table, the
codecs and the lookup. Proved: the safety of `XmppConn`, `ImThread`, `XmppHandlers`, `XmppSession`, `XmppStanza`,
the attributes and the blocks of `Md5`, with the refinements of `ElementAttributes` and `StanzaTree` and
the steps of `ConnEvents`. What is left to the runs is listed at the end of section 4.
