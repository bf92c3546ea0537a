------------------------------ MODULE ImThread ------------------------------
(***************************************************************************)
(* The message threads of im-thread.c (the Windows build): im_thread_t     *)
(* objects, each with a libevent loop of its own, and the calls of client  *)
(* threads, and of message handlers, on them.                              *)
(*                                                                         *)
(* A call is split where other threads can come between its parts: a post  *)
(* or a send first lists its message under the sink's lock, then arms the  *)
(* message's event, and a send then waits for the sink's signal, an        *)
(* auto-reset event that all senders to that sink share.  A stop asks the  *)
(* loop to exit and then joins.                                            *)
(*                                                                         *)
(* What libevent does is external: event_base_dispatch returns when there  *)
(* are no events left, after event_base_loopbreak, or once the event of    *)
(* event_base_loopexit has come up, events that were due before it having  *)
(* been run first.                                                         *)
(***************************************************************************)
EXTENDS FiniteSets, TLC

CONSTANTS
  Threads,       \* the im_thread_t objects
  Clients,       \* threads of the application that are not IM threads
  Messages,      \* the messages that can exist at a time
  SerialSends,   \* whether the application sends to a thread only while no other
                 \* of its threads does
  HandlerCalls   \* the calls that message handlers make themselves

Actors == Threads \cup Clients
Nobody == "nobody"
NoMessage == "no message"

ASSUME ThreadsAssumption == Threads \cap Clients = {}
ASSUME NobodyAssumption  == Nobody \notin Actors /\ NoMessage \notin Messages
ASSUME SerialSendsAssumption  == SerialSends \in BOOLEAN
ASSUME HandlerCallsAssumption == HandlerCalls \subseteq {"post", "send", "stop", "break"}

VARIABLES
  object,    \* of each im_thread_t: "none" or "alive"
  started,   \* t->started
  os,        \* the operating system's thread: "none", "looping", "handler",
             \* "handled" (the handler has returned), "ended"
  current,   \* the message whose proxy the loop is running
  signal,    \* t->signal is set
  exit,      \* an event of event_base_loopexit is in the base
  before,    \* the messages that were due before that event was added
  broken,    \* event_base_loopbreak was called since the loop began
  message,   \* the messages: their state, sink, kind and sender
  call       \* what each actor is in the middle of

vars == <<object, started, os, current, signal, exit, before, broken, message, call>>

Idle == [op |-> "idle", thread |-> Nobody, msg |-> NoMessage, done |-> FALSE, due |-> {}]

Calling(op, t, m, due) ==
  [op |-> op, thread |-> t, msg |-> m, done |-> FALSE, due |-> due]

Unused == [state |-> "unused", sink |-> Nobody, kind |-> "post", sender |-> Nobody]

Of(t)    == {m \in Messages : message[m].state # "unused" /\ message[m].sink = t}
Due(t)   == {m \in Of(t) : message[m].state = "due"}
Armed(t) == {m \in Of(t) : message[m].state = "armed"}

Running(t) == os[t] \in {"looping", "handler", "handled"}

CallOps == {"idle", "post", "send", "wait", "stop", "join", "free"}

TypeOK ==
  /\ object \in [Threads -> {"none", "alive"}]
  /\ started \in [Threads -> BOOLEAN]
  /\ os \in [Threads -> {"none", "looping", "handler", "handled", "ended"}]
  /\ current \in [Threads -> Messages \cup {NoMessage}]
  /\ signal \in [Threads -> BOOLEAN]
  /\ exit \in [Threads -> BOOLEAN]
  /\ before \in [Threads -> SUBSET Messages] /\ \A t \in Threads : before[t] \subseteq Due(t)
  /\ broken \in [Threads -> BOOLEAN]
  /\ message \in [Messages -> [state : {"unused", "listed", "armed", "due", "running"},
                               sink : Threads \cup {Nobody}, kind : {"post", "send"},
                               sender : Actors \cup {Nobody}]]
  /\ call \in [Actors -> [op : CallOps, thread : Threads \cup {Nobody},
                          msg : Messages \cup {NoMessage}, done : BOOLEAN,
                          due : SUBSET Messages]]

Init ==
  /\ object  = [t \in Threads |-> "none"]
  /\ started = [t \in Threads |-> FALSE]
  /\ os      = [t \in Threads |-> "none"]
  /\ current = [t \in Threads |-> NoMessage]
  /\ signal  = [t \in Threads |-> FALSE]
  /\ exit    = [t \in Threads |-> FALSE]
  /\ before  = [t \in Threads |-> {}]
  /\ broken  = [t \in Threads |-> FALSE]
  /\ message = [m \in Messages |-> Unused]
  /\ call    = [a \in Actors |-> Idle]

-----------------------------------------------------------------------------
(* The application.  It uses an object only while it exists, and its calls  *)
(* that start, stop, join or free one thread do not overlap.                *)

\* An actor can make a call: a client always, an IM thread from a handler.
CanCall(a, op) ==
  /\ call[a] = Idle
  /\ a \in Threads => op \in HandlerCalls /\ os[a] = "handler"

Controlled(t) == \E b \in Actors : call[b].thread = t /\ call[b].op \in {"stop", "join", "free"}

im_thread_new(a, t) ==
  /\ CanCall(a, "new") /\ object[t] = "none"
  /\ object' = [object EXCEPT ![t] = "alive"]
  /\ UNCHANGED <<started, os, current, signal, exit, before, broken, message, call>>

\* event_base_loop forgets an earlier loopbreak, but the event of an earlier loopexit
\* may still be in the base.
im_thread_start(a, t) ==
  /\ CanCall(a, "start") /\ object[t] = "alive" /\ a # t /\ ~started[t] /\ ~Controlled(t)
  /\ started' = [started EXCEPT ![t] = TRUE]
  /\ os' = [os EXCEPT ![t] = "looping"]
  /\ broken' = [broken EXCEPT ![t] = FALSE]
  /\ UNCHANGED <<object, current, signal, exit, before, message, call>>

\* The first part of im_thread_post and of im_thread_send to another thread: the message
\* is made and put in the sink's list.
ListMessage(a, t, kind) ==
  /\ CanCall(a, kind) /\ object[t] = "alive"
  /\ kind = "send" => a # t
  /\ kind = "send" /\ SerialSends =>
       \A b \in Actors : ~(call[b].op \in {"send", "wait"} /\ call[b].thread = t)
  /\ a # t => ~\E b \in Actors : call[b].op = "free" /\ call[b].thread = t
  /\ \E m \in Messages :
       /\ message[m] = Unused
       /\ message' = [message EXCEPT ![m] = [state |-> "listed", sink |-> t, kind |-> kind,
                                             sender |-> a]]
       /\ call' = [call EXCEPT ![a] = Calling(kind, t, m, {})]
  /\ UNCHANGED <<object, started, os, current, signal, exit, before, broken>>

\* The second part: event_add, with the delay of a post or without.
ArmMessage(a) ==
  /\ call[a].op \in {"post", "send"}
  /\ \E s \in {"armed", "due"} :
       /\ call[a].op = "send" => s = "due"
       /\ message' = [message EXCEPT ![call[a].msg].state = s]
  /\ call' = [call EXCEPT ![a] = IF call[a].op = "send" THEN [@ EXCEPT !.op = "wait"] ELSE Idle]
  /\ UNCHANGED <<object, started, os, current, signal, exit, before, broken>>

\* The third part, of a send: WaitForSingleObject(sink->signal) returns.
SendReturns(a) ==
  /\ call[a].op = "wait" /\ signal[call[a].thread]
  /\ signal' = [signal EXCEPT ![call[a].thread] = FALSE]
  /\ call' = [call EXCEPT ![a] = Idle]
  /\ UNCHANGED <<object, started, os, current, exit, before, broken, message>>

\* Faulty variant: the exit does not wait for the messages that are due.
ask_to_exit_first(t) ==
  /\ exit' = [exit EXCEPT ![t] = TRUE]
  /\ before' = IF exit[t] THEN before ELSE [before EXCEPT ![t] = {}]
  /\ UNCHANGED broken

\* Faulty variant: the exit waits for messages with a delay, too.
ask_to_exit_after_all(t) ==
  /\ exit' = [exit EXCEPT ![t] = TRUE]
  /\ before' = IF exit[t] THEN before ELSE [before EXCEPT ![t] = Of(t)]
  /\ UNCHANGED broken

\* event_base_loopexit(t->base, NULL).  If there is an event of an earlier call, that one
\* comes up first.
ask_to_exit(t) ==
  /\ exit' = [exit EXCEPT ![t] = TRUE]
  /\ before' = IF exit[t] THEN before ELSE [before EXCEPT ![t] = Due(t)]
  /\ UNCHANGED broken

\* What the caller of stop is promised: the messages now due in a loop that has neither
\* ended, nor been told to end, nor been broken; of any other loop, nothing.
Promised(t) == IF Running(t) /\ ~exit[t] /\ ~broken[t] THEN Due(t) ELSE {}

\* im_thread_stop (and im_thread_free, which begins with it), for a started thread.
BeginStop(a, t, op) ==
  /\ CanCall(a, op) /\ object[t] = "alive" /\ a # t /\ started[t] /\ ~Controlled(t)
  /\ ask_to_exit(t)
  /\ call' = [call EXCEPT ![a] = Calling(op, t, NoMessage, Promised(t))]
  /\ UNCHANGED <<object, started, os, current, signal, message>>

\* An object is freed only when no actor but the thread itself is using it.
UsedByNoOther(a, t) == \A b \in Actors \ {a, t} : call[b].thread # t

im_thread_stop(a, t) == BeginStop(a, t, "stop")

FreeStarted(a, t) == UsedByNoOther(a, t) /\ BeginStop(a, t, "free")

\* im_thread_join, for a started thread.
im_thread_join(a, t) ==
  /\ CanCall(a, "join") /\ object[t] = "alive" /\ a # t /\ started[t] /\ ~Controlled(t)
  /\ call' = [call EXCEPT ![a] = Calling("join", t, NoMessage, {})]
  /\ UNCHANGED <<object, started, os, current, signal, exit, before, broken, message>>

\* Faulty variant: the messages that are left are not freed with the object.
im_thread_free_leaks(t) ==
  /\ object' = [object EXCEPT ![t] = "none"]
  /\ os' = [os EXCEPT ![t] = "none"]
  /\ signal' = [signal EXCEPT ![t] = FALSE]
  /\ exit' = [exit EXCEPT ![t] = FALSE] /\ before' = [before EXCEPT ![t] = {}]
  /\ UNCHANGED <<message, broken, current>>

\* _im_thread_free: the messages in the list, the base and the signal go with the object.
_im_thread_free(t) ==
  /\ object' = [object EXCEPT ![t] = "none"]
  /\ os' = [os EXCEPT ![t] = "none"]
  /\ signal' = [signal EXCEPT ![t] = FALSE]
  /\ exit' = [exit EXCEPT ![t] = FALSE] /\ before' = [before EXCEPT ![t] = {}]
  /\ message' = [m \in Messages |-> IF m \in Of(t) THEN Unused ELSE message[m]]
  /\ UNCHANGED <<broken, current>>

\* Faulty variant: what is waited for is the exit event, not the thread.
joined_after_exit(t) == os[t] = "ended" /\ ~exit[t]

\* WaitForSingleObject(t->thread_handle) returns.
joined(t) == os[t] = "ended"

\* The end of im_thread_join, which every stop and free goes through.
JoinReturns(a) ==
  LET t == call[a].thread IN
    /\ call[a].op \in {"stop", "join", "free"} /\ joined(t)
    /\ started' = [started EXCEPT ![t] = FALSE]
    /\ call' = [call EXCEPT ![a] = Idle]
    /\ IF call[a].op = "free" THEN _im_thread_free(t)
       ELSE UNCHANGED <<object, os, current, signal, exit, before, broken, message>>

\* im_thread_free of a thread that is not started.
FreeNotStarted(a, t) ==
  /\ CanCall(a, "free") /\ object[t] = "alive" /\ a # t /\ ~started[t] /\ UsedByNoOther(a, t)
  /\ _im_thread_free(t)
  /\ UNCHANGED <<started, call>>

-----------------------------------------------------------------------------
(* The loop of an IM thread.                                                *)

TimePasses(m) ==
  /\ message[m].state = "armed"
  /\ message' = [message EXCEPT ![m].state = "due"]
  /\ UNCHANGED <<object, started, os, current, signal, exit, before, broken, call>>

\* The loop calls the proxy of a message that is due.
RunMessage(t, m) ==
  /\ os[t] = "looping" /\ ~broken[t] /\ m \in Due(t)
  /\ message' = [message EXCEPT ![m].state = "running"]
  /\ current' = [current EXCEPT ![t] = m]
  /\ before'  = [before EXCEPT ![t] = @ \ {m}]
  /\ call'    = [a \in Actors |-> [call[a] EXCEPT !.due = @ \ {m}]]
  /\ os' = [os EXCEPT ![t] = "handler"]
  /\ UNCHANGED <<object, started, signal, exit, broken>>

\* The handler returns; done is set for the sender whose call this was.
HandlerReturns(t) ==
  /\ os[t] = "handler" /\ call[t] = Idle
  /\ os' = [os EXCEPT ![t] = "handled"]
  /\ call' = [a \in Actors |->
                [call[a] EXCEPT !.done = @ \/ (call[a].op \in {"send", "wait"}
                                                 /\ call[a].msg = current[t])]]
  /\ UNCHANGED <<object, started, current, signal, exit, before, broken, message>>

\* Faulty variant: a post sets the signal, too.
signals_always(t) == TRUE

\* Which proxy sets the signal.
signals(t) == message[current[t]].kind = "send"

\* The rest of the proxy: SetEvent, list_del, event_free.
ProxyReturns(t) ==
  /\ os[t] = "handled"
  /\ signal' = [signal EXCEPT ![t] = @ \/ signals(t)]
  /\ message' = [message EXCEPT ![current[t]] = Unused]
  /\ current' = [current EXCEPT ![t] = NoMessage]
  /\ os' = [os EXCEPT ![t] = "looping"]
  /\ UNCHANGED <<object, started, exit, before, broken, call>>

\* im_thread_break, called by a handler.
im_thread_break(t) ==
  /\ CanCall(t, "break") /\ ~broken[t]
  /\ broken' = [broken EXCEPT ![t] = TRUE]
  /\ UNCHANGED <<object, started, os, current, signal, exit, before, message, call>>

\* event_base_dispatch returns because it was told to.
LoopExits(t) ==
  /\ os[t] = "looping"
  /\ \/ broken[t] /\ UNCHANGED exit
     \/ exit[t] /\ before[t] = {} /\ exit' = [exit EXCEPT ![t] = FALSE]
  /\ os' = [os EXCEPT ![t] = "ended"]
  /\ UNCHANGED <<object, started, current, signal, before, broken, message, call>>

\* event_base_dispatch returns because the base has no events.
LoopRunsDry(t) ==
  /\ os[t] = "looping" /\ ~exit[t] /\ Due(t) \cup Armed(t) = {}
  /\ os' = [os EXCEPT ![t] = "ended"]
  /\ UNCHANGED <<object, started, current, signal, exit, before, broken, message, call>>

-----------------------------------------------------------------------------
Loop(t) ==
  \/ \E m \in Messages : RunMessage(t, m)
  \/ HandlerReturns(t) \/ ProxyReturns(t) \/ LoopExits(t) \/ LoopRunsDry(t)

CallsOn(a, t) ==
  \/ im_thread_new(a, t) \/ im_thread_start(a, t)
  \/ \E kind \in {"post", "send"} : ListMessage(a, t, kind)
  \/ im_thread_stop(a, t) \/ im_thread_join(a, t)
  \/ FreeStarted(a, t) \/ FreeNotStarted(a, t)

Continues(a) == ArmMessage(a) \/ SendReturns(a) \/ JoinReturns(a)

Next ==
  \/ \E a \in Actors, t \in Threads : CallsOn(a, t)
  \/ \E a \in Actors : Continues(a)
  \/ \E t \in Threads : Loop(t) \/ im_thread_break(t)
  \/ \E m \in Messages : TimePasses(m)

Spec == Init /\ [][Next]_vars

\* Threads are scheduled and handlers return.  Events are run in the order in which they
\* come up, so that later ones put off neither a message nor the event of loopexit for ever.
Fairness ==
  /\ \A a \in Actors : WF_vars(Continues(a))
  /\ \A t \in Threads : WF_vars(Loop(t)) /\ SF_vars(LoopExits(t)) /\ SF_vars(HandlerReturns(t))
  /\ \A m \in Messages : WF_vars(TimePasses(m)) /\ SF_vars(\E t \in Threads : RunMessage(t, m))

FairSpec == Spec /\ Fairness

-----------------------------------------------------------------------------
\* im_thread_send returns only after its handler has run (im-thread.h:163).
SendWaitsForHandler == [][\A a \in Actors : SendReturns(a) => call[a].done]_vars

\* A signal that is set belongs to a send whose handler has run: none is left over to let
\* a later send return at once.
SignalIsOwed ==
  \A t \in Threads : signal[t] =>
    \E a \in Actors : call[a].op = "wait" /\ call[a].thread = t /\ call[a].done

\* im_thread_stop returns only after the messages that were due have run (im-thread.h:95).
\* Nothing is promised where the loop had ended, was already asked to exit or was broken
\* when stop was called, or where a handler breaks it before stop returns.  That a loop
\* asked to exit runs what is due before is event_base_loopexit of libevent 2.0, whose
\* exit is a timer of its own.
StopRunsDue ==
  [][\A a \in Actors : JoinReturns(a) => call[a].due = {} \/ broken[call[a].thread]]_vars

\* A message is listed, armed or run only while its sink exists, only the thread that is
\* running it takes it off, and a loop runs only in a thread that was neither freed nor
\* joined.
MessagesHaveSink ==
  /\ \A m \in Messages : message[m].state # "unused" => object[message[m].sink] = "alive"
  /\ \A t \in Threads : os[t] \in {"handler", "handled"} <=>
       \E m \in Of(t) : message[m].state = "running" /\ current[t] = m
  /\ \A t \in Threads : Running(t) => object[t] = "alive" /\ started[t]

\* The handler of t waits for a thread that does not run, or that waits for t.
Stuck(t) ==
  LET u == call[t].thread IN
    call[t] # Idle /\ (Running(u) => call[u] # Idle /\ call[u].thread = t)

\* A stop or free (im-thread.c:179, 192) comes to an end, unless the handler it waits for is
\* itself waiting for a thread that cannot answer.
StopReturns ==
  \A a \in Clients, t \in Threads :
    (call[a].op \in {"stop", "free"} /\ call[a].thread = t) ~> (call[a] = Idle \/ Stuck(t))

\* im_thread_send comes back (im-thread.h:163).
SendCompletes == \A a \in Clients : call[a].op = "wait" ~> call[a] = Idle
=============================================================================
