----------------------------- MODULE XmppHandlers -----------------------------
(***************************************************************************)
(* The handler lists of a connection (src/src/xmpp-handler.c), as items in *)
(* a heap: a list of handlers, a hash table of lists by id, each with an   *)
(* item of its own as its head, and timers.  A stanza walks the list of    *)
(* its id and then the other one, with the two cursors of                  *)
(* list_for_each_safe; the functions it calls change the lists under it.   *)
(* The loop that brings the events (xmpp-loop.c) and the references to the *)
(* connection (xmpp-conn.c:137-180) are here too.                          *)
(*                                                                         *)
(* One step is one call of the program, one move of the cursors, or one    *)
(* event.  All run in one thread.  Which stanza matches a handler is left  *)
(* open, and allocations succeed.  The program does not release the        *)
(* connection inside one of its callbacks.  What touches freed memory sets *)
(* fault and ends the behaviour.                                           *)
(***************************************************************************)
EXTENDS Naturals, FiniteSets, SequencesExt

CONSTANTS
  Items,       \* addresses for items; bounds the heap
  Fns,         \* functions for the list of handlers
  IdFns,       \* functions for the lists by id
  TimedFns,    \* functions for timers
  UserFns,     \* those of them that are the application's (user_handler)
  Ids,         \* ids of stanzas
  EmptyId,     \* the empty id, which no stanza has
  NULL,
  Length, HashKey,   \* of the hash table
  MaxRefs      \* bound on the references to the connection

ASSUME UserFnsAssumption == UserFns \subseteq Fns \cup IdFns \cup TimedFns
ASSUME NullAssumption == NULL \notin Items \cup Ids \cup Fns \cup IdFns \cup TimedFns
ASSUME MaxRefsAssumption == MaxRefs \in Nat \ {0}
ASSUME EmptyIdAssumption == EmptyId \notin Ids \cup {NULL}
ASSUME SlotsAssumption ==
  Length \in Nat \ {0} /\ HashKey \in [Ids \cup {EmptyId} -> 0 .. Length - 1]

VARIABLES
  mem,            \* [Items -> item]
  handlers,       \* conn->handlers, as the sequence of its items
  timed,          \* conn->timed_handlers
  id_handlers,    \* conn->id_handlers: from an id to the head of its list
  inserts,        \* whether hash_add takes absent keys, see HashAddInserts
  due,            \* timers that expired and wait for the loop
  authenticated,  \* conn->authenticated
  ref,            \* conn->ref; 0 once the connection is freed
  loop,           \* ctx->loop_status, and "DONE" when xmpp_run has returned
  walk,           \* handler_fire_stanza: its list and its cursors
  fault,          \* the memory error that ended the behaviour, or "none"
  leaked,         \* history: items of a list that hash_add did not take
  waiting,        \* history: functions that were in the list when its walk
                  \* began, not met since and not deleted
  misuse          \* history: what the functions called for this stanza, or
                  \* the program, did that the lists do not allow for

vars == <<mem, handlers, timed, id_handlers, inserts, due, authenticated, ref,
          loop, walk, fault, leaked, waiting, misuse>>
lists == <<mem, handlers, timed, id_handlers, due, leaked>>
history == <<waiting, misuse>>

Table == INSTANCE Hash WITH
  Keys <- Ids \cup {EmptyId}, EmptyKey <- EmptyId, HashAddInserts <- inserts

(* A head has a list; an item that is not in use is Unused.                *)
NewItem(kind, f) == [kind |-> kind, fn |-> f, enabled |-> FALSE, list |-> <<>>]
Unused == NewItem("unused", NULL)
WithList(item, s) == [item EXCEPT !.list = s]
Enabled(item) == [item EXCEPT !.enabled = TRUE]
Free == {a \in Items : mem[a] = Unused}

(* list_del of the item a of the list s.                                   *)
Without(s, a) == RemoveAt(s, CHOOSE i \in DOMAIN s : s[i] = a)

ItemsOf(s, f) == {a \in Range(s) : mem[a].fn = f}
HeadOf(id) == Table!hash_get(id_handlers, id)
ListOf(id) == IF HeadOf(id) = NULL THEN <<>> ELSE mem[HeadOf(id)].list

(* No walk, or one of the list of id (NULL: of the other one), with its    *)
(* head, its cursors, where NULL is the end, and its place in the code:    *)
(* before an item, inside its function, after it.                          *)
NoWalk == [on |-> FALSE, id |-> NULL, head |-> NULL, pos |-> NULL, tmp |-> NULL, at |-> "none"]

Init ==
  /\ mem = [a \in Items |-> Unused]
  /\ handlers = <<>> /\ timed = <<>>
  /\ inserts \in BOOLEAN
  /\ id_handlers = Table!hash_new(FALSE)
  /\ due = {}
  /\ authenticated = FALSE
  /\ ref = 1
  /\ loop = "NOTSTARTED"
  /\ walk = NoWalk
  /\ fault = "none"
  /\ leaked = {} /\ waiting = {} /\ misuse = {}

-----------------------------------------------------------------------------
(* The program, between two events or inside a function that is called.    *)
Program == fault = "none" /\ ref > 0 /\ (walk.on => walk.at = "call")

\* Faulty variant: a handler takes part in the walk it was added in.
AddedEnabled(a, f) ==
  /\ mem' = [mem EXCEPT ![a] = Enabled(NewItem("plain", f))]
  /\ handlers' = Append(handlers, a)

AddedPlain(a, f) ==
  /\ mem' = [mem EXCEPT ![a] = NewItem("plain", f)]
  /\ handlers' = Append(handlers, a)

(* A function that is in the list already is not added again.              *)
handler_add(f) ==
  /\ Program /\ ItemsOf(handlers, f) = {}
  /\ \E a \in Free : AddedPlain(a, f)
  /\ UNCHANGED <<timed, id_handlers, inserts, due, authenticated, ref, loop,
                 walk, fault, leaked, history>>

(* What a function that is called spoils by deleting the item a of the     *)
(* list that is walked.                                                    *)
Spoils(a) ==
  (IF a = walk.pos THEN {"self"} ELSE {}) \cup (IF a = walk.tmp THEN {"next"} ELSE {})

(* _handler_free, for an item that is linked.                              *)
FreePlain(a) ==
  /\ handlers' = Without(handlers, a)
  /\ mem' = [mem EXCEPT ![a] = Unused]
  /\ waiting' = waiting \ {mem[a].fn}

xmpp_handler_delete(f) ==
  /\ Program
  /\ \E a \in ItemsOf(handlers, f) :
       /\ FreePlain(a)
       /\ misuse' = IF walk.on /\ walk.id = NULL THEN misuse \cup Spoils(a) ELSE misuse
  /\ UNCHANGED <<timed, id_handlers, inserts, due, authenticated, ref, loop,
                 walk, fault, leaked>>

(* The head of a new list and its first item are lost when hash_add        *)
(* refuses the id: its result is not looked at.                            *)
handler_add_id(f, id) ==
  /\ Program /\ ItemsOf(ListOf(id), f) = {}
  /\ \E a \in Free :
       LET item == NewItem("id", f)
           head == HeadOf(id)
       IN  IF head # NULL
           THEN /\ mem' = [mem EXCEPT ![a] = item, ![head] = WithList(@, Append(@.list, a))]
                /\ UNCHANGED <<id_handlers, leaked>>
           ELSE \E h \in Free \ {a} :
                  /\ mem' = [mem EXCEPT ![a] = item,
                                        ![h] = WithList(NewItem("head", NULL), <<a>>)]
                  /\ id_handlers' = Table!hash_add(id_handlers, id, h)
                  /\ leaked' = IF Table!Refuses(id_handlers, id)
                               THEN leaked \cup {a, h} ELSE leaked
  /\ UNCHANGED <<handlers, timed, inserts, due, authenticated, ref, loop, walk,
                 fault, history>>

\* Faulty variant: the head of an empty list stays in the table.
FreeIdKeepsHead(a, id) ==
  LET h == HeadOf(id)
  IN  /\ mem' = [mem EXCEPT ![a] = Unused, ![h] = WithList(@, Without(@.list, a))]
      /\ id_handlers' = id_handlers
      /\ misuse' = IF walk.on /\ walk.id = id THEN misuse \cup Spoils(a) ELSE misuse

(* _handler_id_free: the head goes with the last item of its list.         *)
FreeId(a, id) ==
  LET h == HeadOf(id)
      left == Without(mem[h].list, a)
  IN  /\ mem' = [mem EXCEPT ![a] = Unused,
                            ![h] = IF left = <<>> THEN Unused ELSE WithList(@, left)]
      /\ id_handlers' = IF left = <<>> THEN Table!hash_drop(id_handlers, id) ELSE id_handlers
      /\ misuse' = IF walk.on /\ walk.id = id
                   THEN misuse \cup Spoils(a) \cup (IF left = <<>> THEN {"emptied"} ELSE {})
                   ELSE misuse

xmpp_id_handler_delete(f, id) ==
  /\ Program
  /\ \E a \in ItemsOf(ListOf(id), f) : FreeId(a, id)
  /\ UNCHANGED <<handlers, timed, inserts, due, authenticated, ref, loop, walk,
                 fault, leaked, waiting>>

handler_add_timed(f) ==
  /\ Program /\ ItemsOf(timed, f) = {}
  /\ \E a \in Free : /\ mem' = [mem EXCEPT ![a] = NewItem("timed", f)]
                     /\ timed' = Append(timed, a)
  /\ UNCHANGED <<handlers, id_handlers, inserts, due, authenticated, ref, loop,
                 walk, fault, leaked, history>>

xmpp_timed_handler_delete(f) ==
  /\ Program
  /\ \E a \in ItemsOf(timed, f) :
       /\ timed' = Without(timed, a)
       /\ mem' = [mem EXCEPT ![a] = Unused]
       /\ due' = due \ {a}
  /\ UNCHANGED <<handlers, id_handlers, inserts, authenticated, ref, loop, walk,
                 fault, leaked, history>>

(* auth_handle_open has all timers start anew, also those that are due.    *)
handler_reset_timed(user_only) ==
  /\ Program
  /\ due' = {a \in due : user_only /\ mem[a].fn \notin UserFns}
  /\ UNCHANGED <<mem, handlers, timed, id_handlers, inserts, authenticated, ref,
                 loop, walk, fault, leaked, history>>

(* The login completes in a function of the library (xmpp-auth.c:498, 519).*)
LogIn ==
  /\ Program /\ walk.on
  /\ authenticated' = TRUE
  /\ UNCHANGED <<lists, inserts, ref, loop, walk, fault, history>>

xmpp_conn_clone ==
  /\ Program /\ ref < MaxRefs
  /\ ref' = ref + 1
  /\ UNCHANGED <<lists, inserts, authenticated, loop, walk, fault, history>>

(* The last release calls handler_clear_all.  For each id it frees the     *)
(* list, its head and the entry of the table that the iterator stands on,  *)
(* and then asks the iterator for the next one (382-386).                  *)
xmpp_conn_release ==
  /\ Program /\ ~walk.on
  /\ ref' = ref - 1
  /\ IF ref > 1 THEN UNCHANGED <<lists, fault, history>>
     ELSE IF \E id \in Ids : HeadOf(id) # NULL
     THEN /\ fault' = "iterator"
          /\ misuse' = misuse \cup {"cleared"}
          /\ UNCHANGED <<lists, waiting>>
     ELSE /\ mem' = [a \in Items |->
                       IF a \in Range(handlers) \cup Range(timed) THEN Unused ELSE mem[a]]
          /\ handlers' = <<>> /\ timed' = <<>> /\ due' = {}
          /\ UNCHANGED <<id_handlers, leaked, fault, history>>
  /\ UNCHANGED <<inserts, authenticated, loop, walk>>

-----------------------------------------------------------------------------
(* The loop.  A stop before xmpp_run, or after the loop, does nothing; the *)
(* pass of the loop in which it is called goes on with its other events.   *)
xmpp_run ==
  /\ Program /\ ~walk.on /\ loop = "NOTSTARTED"
  /\ loop' = "RUNNING"
  /\ UNCHANGED <<lists, inserts, authenticated, ref, walk, fault, history>>

xmpp_stop ==
  /\ Program /\ loop = "RUNNING"
  /\ loop' = "QUIT"
  /\ UNCHANGED <<lists, inserts, authenticated, ref, walk, fault, history>>

LoopReturns ==
  /\ fault = "none" /\ ~walk.on /\ loop = "QUIT"
  /\ loop' = "DONE"
  /\ UNCHANGED <<lists, inserts, authenticated, ref, walk, fault, history>>

Event == fault = "none" /\ ref > 0 /\ ~walk.on /\ loop \in {"RUNNING", "QUIT"}

TimerExpires(a) ==
  /\ ref > 0 /\ fault = "none" /\ a \in Range(timed) \ due
  /\ due' = due \cup {a}
  /\ UNCHANGED <<mem, handlers, timed, id_handlers, inserts, authenticated, ref,
                 loop, walk, fault, leaked, history>>

(* _handler_timer_proxy takes the flag for the function and calls it, for  *)
(* the application's timers and before the login; otherwise nothing.       *)
TimerProxy(a) ==
  /\ Event /\ a \in due
  /\ due' = due \ {a}
  /\ IF mem[a].fn \in UserFns /\ ~authenticated
     THEN fault' = "call" /\ misuse' = misuse \cup {"early timer"}
     ELSE UNCHANGED <<fault, misuse>>
  /\ UNCHANGED <<mem, handlers, timed, id_handlers, inserts, authenticated, ref,
                 loop, walk, leaked, waiting>>

-----------------------------------------------------------------------------
(* handler_fire_stanza.                                                    *)

After(s, a) ==
  LET i == CHOOSE j \in DOMAIN s : s[j] = a
  IN  IF i = Len(s) THEN NULL ELSE s[i + 1]

(* The walk of the list s at its item a, and at its first item.            *)
WalkAt(s, id, head, a) ==
  [on |-> TRUE, id |-> id, head |-> head, pos |-> a, tmp |-> After(s, a), at |-> "item"]
WalkOf(s, id, head) == WalkAt(s, id, head, s[1])

Place(at) == [walk EXCEPT !.at = at]

(* The walk of the other list: all its items are enabled.                  *)
WalkHandlers ==
  /\ mem' = [a \in Items |-> IF a \in Range(handlers)
                             THEN Enabled(mem[a]) ELSE mem[a]]
  /\ waiting' = {mem[a].fn : a \in Range(handlers)}
  /\ walk' = IF handlers = <<>> THEN NoWalk ELSE WalkOf(handlers, NULL, NULL)

FireStanza(id) ==
  /\ Event
  /\ misuse' = {}
  /\ IF id # NULL /\ HeadOf(id) # NULL
     THEN /\ walk' = WalkOf(ListOf(id), id, HeadOf(id))
          /\ UNCHANGED <<mem, waiting>>
     ELSE WalkHandlers
  /\ UNCHANGED <<handlers, timed, id_handlers, inserts, due, authenticated, ref,
                 loop, fault, leaked>>

IsUser(a) == mem[a].fn \in UserFns

(* An item is passed over if it is the application's before the login, and *)
(* in the list of handlers if it is new or the stanza does not match.      *)
SkipItem ==
  /\ fault = "none" /\ walk.at = "item"
  /\ walk.id = NULL \/ (IsUser(walk.pos) /\ ~authenticated)
  /\ walk' = Place("after")
  /\ waiting' = IF walk.id = NULL THEN waiting \ {mem[walk.pos].fn} ELSE waiting
  /\ UNCHANGED <<lists, inserts, authenticated, ref, loop, fault, misuse>>

CallItem ==
  /\ fault = "none" /\ walk.at = "item"
  /\ walk.id = NULL => mem[walk.pos].enabled
  /\ IsUser(walk.pos) => authenticated
  /\ walk' = Place("call")
  /\ waiting' = IF walk.id = NULL THEN waiting \ {mem[walk.pos].fn} ELSE waiting
  /\ UNCHANGED <<lists, inserts, authenticated, ref, loop, fault, misuse>>

ReturnsAgain ==
  /\ fault = "none" /\ walk.at = "call"
  /\ walk' = Place("after")
  /\ UNCHANGED <<lists, inserts, authenticated, ref, loop, fault, history>>

(* The item is freed once more if its function has deleted it, unless its  *)
(* memory is an item of the list again, which then goes in its place.      *)
EndsHandler ==
  /\ fault = "none" /\ walk.at = "call" /\ walk.id = NULL
  /\ IF walk.pos \in Range(handlers) THEN FreePlain(walk.pos) /\ UNCHANGED fault
     ELSE fault' = "free" /\ UNCHANGED <<mem, handlers, waiting>>
  /\ walk' = Place("after")
  /\ UNCHANGED <<timed, id_handlers, inserts, due, authenticated, ref, loop,
                 leaked, misuse>>

(* The function to delete is read from the item, and then looked for.      *)
EndsIdHandler ==
  /\ fault = "none" /\ walk.at = "call" /\ walk.id # NULL
  /\ LET found == ItemsOf(ListOf(walk.id), mem[walk.pos].fn)
     IN  IF mem[walk.pos] = Unused
         THEN fault' = "free" /\ UNCHANGED <<mem, id_handlers, misuse>>
         ELSE /\ IF found = {} THEN UNCHANGED <<mem, id_handlers, misuse>>
                 ELSE \E a \in found : FreeId(a, walk.id)
              /\ UNCHANGED fault
  /\ walk' = Place("after")
  /\ UNCHANGED <<handlers, timed, inserts, due, authenticated, ref, loop, leaked,
                 waiting>>

\* Faulty variant: as list_for_each, the item that was called is asked for the next.
AdvanceFromItem ==
  /\ fault = "none" /\ walk.at = "after" /\ walk.id = NULL
  /\ IF walk.pos \notin Range(handlers)
     THEN fault' = "cursor" /\ UNCHANGED <<walk, mem, waiting>>
     ELSE /\ UNCHANGED <<fault, mem, waiting>>
          /\ walk' = LET n == After(handlers, walk.pos)
                     IN  IF n = NULL THEN NoWalk
                         ELSE [walk EXCEPT !.pos = n, !.at = "item"]
  /\ UNCHANGED <<handlers, timed, id_handlers, inserts, due, authenticated, ref,
                 loop, leaked, misuse>>

(* pos = tmp, tmp = tmp->next.  The memory of tmp may have become another  *)
(* item of the same list meanwhile, which is then the next.                *)
Advance ==
  /\ fault = "none" /\ walk.at = "after" /\ walk.id = NULL
  /\ IF walk.tmp = NULL THEN walk' = NoWalk /\ UNCHANGED fault
     ELSE IF walk.tmp \notin Range(handlers) THEN fault' = "cursor" /\ UNCHANGED walk
     ELSE walk' = WalkAt(handlers, NULL, NULL, walk.tmp) /\ UNCHANGED fault
  /\ UNCHANGED <<lists, inserts, authenticated, ref, loop, history>>

(* The same in the list of an id.  Its end is the head, which is read as   *)
(* any other item.                                                         *)
AdvanceId ==
  LET list == IF mem[walk.head].kind = "head" THEN mem[walk.head].list ELSE <<>>
  IN
  /\ fault = "none" /\ walk.at = "after" /\ walk.id # NULL
  /\ IF walk.tmp = NULL
     THEN IF mem[walk.head] = Unused THEN fault' = "cursor" /\ UNCHANGED <<walk, mem, waiting>>
          ELSE WalkHandlers /\ UNCHANGED fault
     ELSE /\ IF walk.tmp \notin Range(list) THEN fault' = "cursor" /\ UNCHANGED walk
             ELSE walk' = WalkAt(list, walk.id, walk.head, walk.tmp) /\ UNCHANGED fault
          /\ UNCHANGED <<mem, waiting>>
  /\ UNCHANGED <<handlers, timed, id_handlers, inserts, due, authenticated, ref,
                 loop, leaked, misuse>>

-----------------------------------------------------------------------------
Next ==
  \/ \E f \in Fns : handler_add(f) \/ xmpp_handler_delete(f)
  \/ \E f \in IdFns, id \in Ids : handler_add_id(f, id) \/ xmpp_id_handler_delete(f, id)
  \/ \E f \in TimedFns : handler_add_timed(f) \/ xmpp_timed_handler_delete(f)
  \/ \E user_only \in BOOLEAN : handler_reset_timed(user_only)
  \/ LogIn \/ xmpp_conn_clone \/ xmpp_conn_release
  \/ xmpp_run \/ xmpp_stop \/ LoopReturns
  \/ \E a \in Items : TimerExpires(a) \/ TimerProxy(a)
  \/ \E id \in Ids \cup {NULL} : FireStanza(id)
  \/ SkipItem \/ CallItem \/ ReturnsAgain \/ EndsHandler \/ EndsIdHandler
  \/ Advance \/ AdvanceId

Spec == Init /\ [][Next]_vars

-----------------------------------------------------------------------------
HeadsInTable == {HeadOf(id) : id \in Ids} \ {NULL}

(* Every item that is allocated is in one list, once: the list of handlers,*)
(* the timers, or a list that the table has, under one id and never empty. *)
(* Lost are only lists that hash_add refused, all of them with the code as *)
(* it is, none if hash_add did what its comment says.                      *)
ItemsOwned ==
  LET owned == Range(handlers) \cup Range(timed) \cup HeadsInTable
               \cup UNION {Range(ListOf(id)) : id \in Ids}
      places == <<handlers, timed>>
  IN  /\ {a \in Items : mem[a] # Unused} = owned \cup leaked
      /\ owned \cap leaked = {}
      /\ Len(handlers) = Cardinality(Range(handlers))
      /\ Len(timed) = Cardinality(Range(timed))
      /\ \A a \in owned :
           CASE mem[a].kind = "plain" -> a \in Range(handlers)
             [] mem[a].kind = "timed" -> a \in Range(timed)
             [] mem[a].kind = "head"  -> Cardinality({id \in Ids : HeadOf(id) = a}) = 1
             [] mem[a].kind = "id" ->
                  Cardinality({id \in Ids : a \in Range(ListOf(id))}) = 1
      /\ \A h \in HeadsInTable : /\ mem[h].list # <<>>
                                 /\ Len(mem[h].list) = Cardinality(Range(mem[h].list))
      /\ due \subseteq Range(timed)
      /\ inserts => leaked = {}
      /\ ~inserts => HeadsInTable = {}

(* The walk of the list of handlers meets each function that was there when*)
(* it began, in its turn and once, unless it was deleted before; it calls  *)
(* none that came later, not even one that was deleted and added again     *)
(* (the comment at xmpp-handler.c:72).  Only a function that deletes the   *)
(* item after its own may lead it astray.                                  *)
DispatchExact ==
  fault = "none" =>
    /\ walk.at = "item" /\ walk.id = NULL /\ mem[walk.pos].enabled
         => mem[walk.pos].fn \in waiting
    /\ ~walk.on => waiting = {} \/ "next" \in misuse

(* Freed memory is touched only if a function that was called deleted its  *)
(* own item and ended, or the next one, or emptied the list of the id that *)
(* is being handled; if a timer of the application expired before the login*)
(* or if the connection went with id handlers left.  Nothing else that     *)
(* functions do to the lists, in any order, harms the walk.                *)
FaultsExplained ==
  /\ fault = "free"     => "self" \in misuse
  /\ fault = "cursor"   => misuse \cap {"next", "emptied"} # {}
  /\ fault = "call"     => "early timer" \in misuse
  /\ fault = "iterator" => "cleared" \in misuse
=============================================================================
