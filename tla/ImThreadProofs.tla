--------------------------- MODULE ImThreadProofs ---------------------------
(***************************************************************************)
(* Proofs about ImThread for every number of threads, clients and          *)
(* messages and for all calls of handlers.                                 *)
(*                                                                         *)
(* ThreadInv is inductive without any assumption: a call is on an object   *)
(* that lives, the message of a call that is not over is still the one it  *)
(* made, no two calls control one thread, what a stop promised is among    *)
(* what its exit waits for.  SerialInv holds on top of it if no two        *)
(* threads send to the same one at a time: the one signal of a thread is   *)
(* then for the one sender that waits, whose handler has run.              *)
(***************************************************************************)
EXTENDS ImThread, TLAPS

MessageType == [state : {"unused", "listed", "armed", "due", "running"},
                sink : Threads \cup {Nobody}, kind : {"post", "send"},
                sender : Actors \cup {Nobody}]

CallType == [op : CallOps, thread : Threads \cup {Nobody}, msg : Messages \cup {NoMessage},
             done : BOOLEAN, due : SUBSET Messages]

\* TypeOK but for the list of what an exit waits for, which is BeforeOK below.
FieldsOK ==
  /\ object \in [Threads -> {"none", "alive"}]
  /\ started \in [Threads -> BOOLEAN]
  /\ os \in [Threads -> {"none", "looping", "handler", "handled", "ended"}]
  /\ current \in [Threads -> Messages \cup {NoMessage}]
  /\ signal \in [Threads -> BOOLEAN]
  /\ exit \in [Threads -> BOOLEAN]
  /\ before \in [Threads -> SUBSET Messages]
  /\ broken \in [Threads -> BOOLEAN]
  /\ message \in [Messages -> MessageType]
  /\ call \in [Actors -> CallType]

\* The calls that start, end or free a thread.
Control == {"stop", "join", "free"}

\* A call is on an object that lives, on another thread's if it waits for it, and an IM
\* thread makes it from a handler.
CallTarget(a) ==
  /\ call[a].op = "idle" => call[a].thread = Nobody
  /\ call[a].op # "idle" => call[a].thread \in Threads /\ object[call[a].thread] = "alive"
  /\ call[a].op \in {"send", "wait"} \cup Control => call[a].thread # a
  /\ a \in Threads /\ call[a].op # "idle" => os[a] = "handler"

\* A message that is not armed yet is its caller's, and so is one whose handler a sender
\* still waits for.
CallMessage(a) ==
  /\ call[a].op \in {"post", "send"} =>
       /\ call[a].msg \in Messages
       /\ message[call[a].msg].state = "listed"
       /\ message[call[a].msg].sink = call[a].thread
       /\ message[call[a].msg].kind = call[a].op
       /\ message[call[a].msg].sender = a
  /\ call[a].op = "wait" /\ ~call[a].done =>
       /\ call[a].msg \in Messages
       /\ message[call[a].msg].state \in {"due", "running"}
       /\ message[call[a].msg].sink = call[a].thread
       /\ message[call[a].msg].kind = "send"
       /\ message[call[a].msg].sender = a

\* Nobody else but its own handlers uses a thread that is being freed, and one call at a
\* time controls it.
CallExclusive(a) ==
  /\ call[a].op = "free" =>
       \A b \in Actors \ {a, call[a].thread} : call[b].thread # call[a].thread
  /\ call[a].op \in Control =>
       \A b \in Actors \ {a} : ~(call[b].op \in Control /\ call[b].thread = call[a].thread)

\* What a stop promised and has not been run is what the exit waits for.
StopPromise(a) ==
  call[a].due # {} =>
    /\ call[a].op \in {"stop", "free"}
    /\ ~broken[call[a].thread] =>
         /\ Running(call[a].thread) /\ exit[call[a].thread]
         /\ call[a].due \subseteq before[call[a].thread]

\* A message has a sink that lives; one that runs is the one the sink's loop runs.
MessageOK(m) ==
  message[m].state # "unused" =>
    /\ message[m].sink \in Threads
    /\ object[message[m].sink] = "alive"
    /\ message[m].state = "running" =>
         current[message[m].sink] = m /\ os[message[m].sink] \in {"handler", "handled"}

\* A loop in a handler has a message that runs.
CurrentOK(t) ==
  os[t] \in {"handler", "handled"} =>
    /\ current[t] \in Messages
    /\ message[current[t]].state = "running"
    /\ message[current[t]].sink = t

LoopOK(t) == Running(t) => started[t] /\ object[t] = "alive"

BeforeOK(t) == before[t] \subseteq Due(t)

\* Once a handler has returned, the sender that waits for it has been told.
HandledOK(t) ==
  os[t] = "handled" =>
    \A a \in Actors : call[a].op = "wait" /\ call[a].msg = current[t] => call[a].done

ThreadInv ==
  /\ FieldsOK
  /\ \A a \in Actors : CallTarget(a) /\ CallMessage(a) /\ CallExclusive(a) /\ StopPromise(a)
  /\ \A m \in Messages : MessageOK(m)
  /\ \A t \in Threads : CurrentOK(t) /\ LoopOK(t) /\ BeforeOK(t) /\ HandledOK(t)

-----------------------------------------------------------------------------
\* The name that stands for nobody is none of the actors'.
LEMMA NoThread == Nobody \notin Threads /\ Nobody \notin Actors
BY NobodyAssumption DEF Actors

\* A message whose state changes keeps its type.
LEMMA StateKeepsType ==
  ASSUME NEW r \in MessageType, NEW s \in {"unused", "listed", "armed", "due", "running"}
  PROVE  [r EXCEPT !.state = s] \in MessageType
BY DEF MessageType

\* A call whose promise changes keeps its type.
LEMMA DueKeepsType ==
  ASSUME NEW c \in CallType, NEW D \in SUBSET Messages
  PROVE  [c EXCEPT !.due = D] \in CallType
BY DEF CallType

\* So does a call that goes on to its next part, and one that learns that its handler ran.
LEMMA OpKeepsType ==
  ASSUME NEW c \in CallType, NEW o \in CallOps
  PROVE  [c EXCEPT !.op = o] \in CallType
BY DEF CallType

LEMMA DoneKeepsType ==
  ASSUME NEW c \in CallType, NEW d \in BOOLEAN
  PROVE  [c EXCEPT !.done = d] \in CallType
BY DEF CallType

\* An actor that is in no call, and a message that does not exist, have their types.
LEMMA IdleType == Idle \in CallType /\ Unused \in MessageType
BY DEF Idle, Unused, CallType, MessageType, CallOps

\* What FieldsOK says of the messages and the calls.
LEMMA CallsAndMessages ==
  ASSUME ThreadInv
  PROVE  /\ message \in [Messages -> MessageType]
         /\ call \in [Actors -> CallType]
BY DEF ThreadInv, FieldsOK

(***************************************************************************)
(* Every action keeps ThreadInv.                                           *)
(***************************************************************************)
\* im_thread_new: a new object comes without messages and calls.
LEMMA im_thread_newKeeps ==
  ASSUME ThreadInv, NEW a \in Actors, NEW t \in Threads, im_thread_new(a, t)
  PROVE  ThreadInv'
<1> USE NoThread DEF ThreadInv, FieldsOK, MessageType, CallType, CallOps, im_thread_new
<1>1. FieldsOK'
  OBVIOUS
<1>2. ASSUME NEW b \in Actors PROVE CallTarget(b)'
  BY DEF CallTarget
<1>3. ASSUME NEW n \in Messages PROVE MessageOK(n)'
  BY DEF MessageOK
<1>4. ASSUME NEW u \in Threads PROVE LoopOK(u)'
  BY DEF LoopOK, Running
<1>5. /\ \A b \in Actors : CallMessage(b)' /\ CallExclusive(b)' /\ StopPromise(b)'
      /\ \A u \in Threads : CurrentOK(u)' /\ BeforeOK(u)' /\ HandledOK(u)'
  BY DEF CallMessage, CallExclusive, StopPromise, CurrentOK, BeforeOK, HandledOK, Running, Due,
     Of
<1> QED BY <1>1, <1>2, <1>3, <1>4, <1>5

\* im_thread_start: no handler runs in a thread that is not started, and nobody was promised
\* anything of it.
LEMMA im_thread_startKeeps ==
  ASSUME ThreadInv, NEW a \in Actors, NEW t \in Threads, im_thread_start(a, t)
  PROVE  ThreadInv'
<1> USE NoThread DEF ThreadInv, FieldsOK, MessageType, CallType, CallOps, im_thread_start
<1>1. FieldsOK'
  OBVIOUS
<1>2. ASSUME NEW b \in Actors PROVE CallTarget(b)'
  BY DEF CallTarget, LoopOK, Running
<1>3. ASSUME NEW b \in Actors PROVE StopPromise(b)'
  BY DEF StopPromise, Running, Controlled
<1>4. ASSUME NEW n \in Messages PROVE MessageOK(n)'
  BY DEF MessageOK, LoopOK, Running
<1>5. ASSUME NEW u \in Threads PROVE CurrentOK(u)'
  BY DEF CurrentOK
<1>6. ASSUME NEW u \in Threads PROVE LoopOK(u)'
  BY DEF LoopOK, Running
<1>7. ASSUME NEW u \in Threads PROVE HandledOK(u)'
  BY DEF HandledOK
<1>8. /\ \A b \in Actors : CallMessage(b)' /\ CallExclusive(b)'
      /\ \A u \in Threads : BeforeOK(u)'
  BY DEF CallMessage, CallExclusive, BeforeOK, Due, Of
<1> QED BY <1>1, <1>2, <1>3, <1>4, <1>5, <1>6, <1>7, <1>8

\* ListMessage: the first part of a post or send; the message is the caller's until it is
\* armed.
LEMMA ListMessageKeeps ==
  ASSUME ThreadInv, NEW a \in Actors, NEW t \in Threads, NEW kind \in {"post", "send"},
         ListMessage(a, t, kind)
  PROVE  ThreadInv'
<1> USE NoThread DEF ThreadInv, FieldsOK, MessageType, CallType, CallOps, ListMessage, CanCall,
   Calling, Unused
<1>1. FieldsOK'
  OBVIOUS
<1>2. ASSUME NEW b \in Actors PROVE CallTarget(b)'
  BY DEF CallTarget, Control
<1>3. ASSUME NEW b \in Actors PROVE CallMessage(b)'
  BY DEF CallMessage
<1>4. ASSUME NEW b \in Actors PROVE CallExclusive(b)'
  BY DEF CallExclusive, Control
<1>5. ASSUME NEW b \in Actors PROVE StopPromise(b)'
  BY DEF StopPromise, Running
<1>6. ASSUME NEW n \in Messages PROVE MessageOK(n)'
  BY DEF MessageOK
<1>7. ASSUME NEW u \in Threads PROVE CurrentOK(u)'
  BY DEF CurrentOK
<1>8. ASSUME NEW u \in Threads PROVE BeforeOK(u)'
  BY DEF BeforeOK, Due, Of
<1>9. ASSUME NEW u \in Threads PROVE HandledOK(u)'
  BY DEF HandledOK
<1>10. \A u \in Threads : LoopOK(u)'
  BY DEF LoopOK, Running
<1> QED BY <1>1, <1>2, <1>3, <1>4, <1>5, <1>6, <1>7, <1>8, <1>9, <1>10

\* ArmMessage: the message was still the caller's, and its sink is alive.
LEMMA ArmMessageKeeps ==
  ASSUME ThreadInv, NEW a \in Actors, ArmMessage(a)
  PROVE  ThreadInv'
<1> USE NoThread DEF ThreadInv, FieldsOK, MessageType, CallType, CallOps, ArmMessage
<1>1. FieldsOK'
  <2>1. call[a].msg \in Messages
    BY DEF CallMessage
  <2>2. PICK s \in {"armed", "due"} :
               message' = [message EXCEPT ![call[a].msg] = [@ EXCEPT !.state = s]]
    OBVIOUS
  <2>3. message[call[a].msg] \in MessageType
    BY <2>1
  <2>4. [message[call[a].msg] EXCEPT !.state = s] \in MessageType
    BY <2>3, StateKeepsType
  <2>5. message' \in [Messages -> MessageType]
    BY <2>1, <2>2, <2>4
  <2>6. Idle \in CallType /\ [call[a] EXCEPT !.op = "wait"] \in CallType
    <3>1. call[a] \in CallType
      BY ONLY ThreadInv, CallsAndMessages
    <3>2. "wait" \in CallOps
      BY ONLY DEF CallOps
    <3> QED BY ONLY <3>1, <3>2, IdleType, OpKeepsType
  <2>7. call' \in [Actors -> CallType]
    <3>1. call' = [call EXCEPT ![a] = IF call[a].op = "send" THEN [@ EXCEPT !.op = "wait"]
                                      ELSE Idle]
      BY ONLY ArmMessage(a) DEF ArmMessage
    <3> QED BY ONLY <2>6, <3>1, ThreadInv, CallsAndMessages
  <2> QED BY <2>5, <2>7
<1>2. ASSUME NEW b \in Actors PROVE CallTarget(b)'
  BY DEF CallTarget, Idle
<1>3. ASSUME NEW b \in Actors PROVE CallMessage(b)'
  BY DEF CallMessage, Idle
<1>4. ASSUME NEW b \in Actors PROVE CallExclusive(b)'
  BY DEF CallTarget, CallExclusive, Idle, Control
<1>5. ASSUME NEW b \in Actors PROVE StopPromise(b)'
  BY DEF StopPromise, Idle, Running
<1>6. ASSUME NEW n \in Messages PROVE MessageOK(n)'
  BY DEF CallMessage, MessageOK
<1>7. ASSUME NEW u \in Threads PROVE CurrentOK(u)'
  BY DEF CallMessage, CurrentOK
<1>8. ASSUME NEW u \in Threads PROVE BeforeOK(u)'
  BY DEF CallMessage, BeforeOK, Due, Of
<1>9. ASSUME NEW u \in Threads PROVE HandledOK(u)'
  BY DEF HandledOK, CurrentOK, Idle, CallMessage
<1>10. \A u \in Threads : LoopOK(u)'
  BY DEF LoopOK, Running
<1> QED BY <1>1, <1>2, <1>3, <1>4, <1>5, <1>6, <1>7, <1>8, <1>9, <1>10

\* SendReturns: a sender takes the signal and forgets its message.
LEMMA SendReturnsKeeps ==
  ASSUME ThreadInv, NEW a \in Actors, SendReturns(a)
  PROVE  ThreadInv'
<1> USE NoThread DEF ThreadInv, FieldsOK, MessageType, CallType, CallOps, SendReturns
<1>1. FieldsOK'
  BY DEF Idle
<1>2. ASSUME NEW b \in Actors PROVE CallTarget(b)'
  BY DEF CallTarget, Idle
<1>3. ASSUME NEW b \in Actors PROVE CallMessage(b)'
  BY DEF CallMessage, Idle
<1>4. ASSUME NEW b \in Actors PROVE CallExclusive(b)'
  BY DEF CallTarget, CallExclusive, Idle, Control
<1>5. ASSUME NEW b \in Actors PROVE StopPromise(b)'
  BY DEF StopPromise, Idle, Running
<1>6. ASSUME NEW u \in Threads PROVE HandledOK(u)'
  BY DEF HandledOK, Idle
<1>7. /\ \A n \in Messages : MessageOK(n)'
      /\ \A u \in Threads : CurrentOK(u)' /\ LoopOK(u)' /\ BeforeOK(u)'
  BY DEF MessageOK, CurrentOK, LoopOK, BeforeOK, Running, Due, Of
<1> QED BY <1>1, <1>2, <1>3, <1>4, <1>5, <1>6, <1>7

\* BeginStop: a stop, or the stop a free begins with; what it promises is before the exit.
LEMMA BeginStopKeeps ==
  ASSUME ThreadInv, NEW a \in Actors, NEW t \in Threads, NEW op \in {"stop", "free"},
         BeginStop(a, t, op),
         op = "free" => UsedByNoOther(a, t)
  PROVE  ThreadInv'
<1> USE NoThread DEF ThreadInv, FieldsOK, MessageType, CallType, CallOps, BeginStop, CanCall,
   Calling, ask_to_exit
<1>1. FieldsOK'
  <2>1. before' \in [Threads -> SUBSET Messages]
    BY DEF Due, Of
  <2>2. call' \in [Actors -> CallType]
    <3>1. Promised(t) \in SUBSET Messages
      BY DEF Promised, Due, Of
    <3> QED BY <3>1
  <2> QED BY <2>1, <2>2
<1>2. ASSUME NEW b \in Actors PROVE CallTarget(b)'
  BY DEF CallTarget
<1>3. ASSUME NEW b \in Actors PROVE CallMessage(b)'
  BY DEF CallMessage
<1>4. ASSUME NEW b \in Actors PROVE CallExclusive(b)'
  BY DEF CallExclusive, Control, Controlled, UsedByNoOther
<1>5. ASSUME NEW b \in Actors PROVE StopPromise(b)'
  BY DEF StopPromise, Running, Promised
<1>6. ASSUME NEW u \in Threads PROVE BeforeOK(u)'
  BY DEF BeforeOK, Due, Of
<1>7. ASSUME NEW u \in Threads PROVE HandledOK(u)'
  BY DEF HandledOK
<1>8. /\ \A n \in Messages : MessageOK(n)'
      /\ \A u \in Threads : CurrentOK(u)' /\ LoopOK(u)'
  BY DEF MessageOK, CurrentOK, LoopOK, Running
<1> QED BY <1>1, <1>2, <1>3, <1>4, <1>5, <1>6, <1>7, <1>8

\* im_thread_join: a join promises nothing.
LEMMA im_thread_joinKeeps ==
  ASSUME ThreadInv, NEW a \in Actors, NEW t \in Threads, im_thread_join(a, t)
  PROVE  ThreadInv'
<1> USE NoThread DEF ThreadInv, FieldsOK, MessageType, CallType, CallOps, im_thread_join,
   CanCall, Calling
<1>1. FieldsOK'
  OBVIOUS
<1>2. ASSUME NEW b \in Actors PROVE CallTarget(b)'
  BY DEF CallTarget
<1>3. ASSUME NEW b \in Actors PROVE CallMessage(b)'
  BY DEF CallMessage
<1>4. ASSUME NEW b \in Actors PROVE CallExclusive(b)'
  BY DEF CallExclusive, Control, Controlled
<1>5. ASSUME NEW b \in Actors PROVE StopPromise(b)'
  BY DEF StopPromise, Running
<1>6. ASSUME NEW u \in Threads PROVE HandledOK(u)'
  BY DEF HandledOK
<1>7. /\ \A n \in Messages : MessageOK(n)'
      /\ \A u \in Threads : CurrentOK(u)' /\ LoopOK(u)' /\ BeforeOK(u)'
  BY DEF MessageOK, CurrentOK, LoopOK, BeforeOK, Running, Due, Of
<1> QED BY <1>1, <1>2, <1>3, <1>4, <1>5, <1>6, <1>7

\* JoinReturns: a free takes the messages of the object with it; no other call is on it.
LEMMA JoinReturnsKeeps ==
  ASSUME ThreadInv, NEW a \in Actors, JoinReturns(a)
  PROVE  ThreadInv'
<1> USE NoThread DEF ThreadInv, FieldsOK, MessageType, CallType, CallOps, JoinReturns, joined,
   _im_thread_free
<1>1. FieldsOK'
  <2>1. call[a].thread \in Threads
    BY DEF CallTarget
  <2>2. message' \in [Messages -> MessageType]
    BY DEF Unused
  <2>3. call' \in [Actors -> CallType]
    BY DEF Idle
  <2>4. before' \in [Threads -> SUBSET Messages]
    BY <2>1
  <2>5. /\ object' \in [Threads -> {"none", "alive"}]
        /\ started' \in [Threads -> BOOLEAN]
        /\ os' \in [Threads -> {"none", "looping", "handler", "handled", "ended"}]
    BY <2>1
  <2>6. /\ current' \in [Threads -> Messages \cup {NoMessage}]
        /\ signal' \in [Threads -> BOOLEAN]
        /\ exit' \in [Threads -> BOOLEAN]
        /\ broken' \in [Threads -> BOOLEAN]
    BY <2>1
  <2> QED BY ONLY <2>2, <2>3, <2>4, <2>5, <2>6 DEF FieldsOK
<1>2. ASSUME NEW b \in Actors PROVE CallTarget(b)'
  BY DEF CallTarget, Idle, CallExclusive
<1>3. ASSUME NEW b \in Actors PROVE CallMessage(b)'
  <2>1. CASE call[a].op # "free" \/ b = a
    BY <2>1 DEF CallMessage, Idle
  <2>2. CASE call[a].op = "free" /\ b # a /\ call[b].op # "idle"
    <3>1. call[b].thread # call[a].thread
      BY <2>2 DEF CallExclusive, CallTarget
    <3> QED BY <2>2, <3>1 DEF CallMessage, Of
  <2>3. CASE call[b].op = "idle" /\ b # a
    BY <2>3 DEF CallMessage
  <2> QED BY <2>1, <2>2, <2>3
<1>4. ASSUME NEW b \in Actors PROVE CallExclusive(b)'
  BY DEF CallTarget, CallExclusive, Idle, Control
<1>5. ASSUME NEW b \in Actors PROVE StopPromise(b)'
  BY DEF CallTarget, StopPromise, Idle, Running
<1>6. ASSUME NEW n \in Messages PROVE MessageOK(n)'
  BY DEF MessageOK, Of, Unused
<1>7. ASSUME NEW u \in Threads PROVE CurrentOK(u)'
  BY DEF CurrentOK, LoopOK, Of
<1>8. ASSUME NEW u \in Threads PROVE LoopOK(u)'
  BY DEF LoopOK, Running
<1>9. ASSUME NEW u \in Threads PROVE BeforeOK(u)'
  <2>1. BeforeOK(u)
    BY ONLY ThreadInv DEF ThreadInv
  <2>2. CASE call[a].op = "free" /\ u = call[a].thread
    <3>1. before'[u] = {}
      BY <2>2
    <3> QED BY ONLY <3>1 DEF BeforeOK
  <2>3. CASE ~(call[a].op = "free" /\ u = call[a].thread)
    <3>1. before'[u] = before[u]
      BY <2>3
    <3>2. \A n \in Messages : message[n].sink = u => message'[n] = message[n]
      BY <2>3 DEF Of
    <3> QED BY ONLY <2>1, <3>1, <3>2 DEF BeforeOK, Due, Of
  <2> QED BY ONLY <2>2, <2>3
<1>10. ASSUME NEW u \in Threads PROVE HandledOK(u)'
  BY DEF HandledOK, Idle
<1> QED BY <1>1, <1>2, <1>3, <1>4, <1>5, <1>6, <1>7, <1>8, <1>9, <1>10

\* FreeNotStarted: as above, for an object whose loop never ran.
LEMMA FreeNotStartedKeeps ==
  ASSUME ThreadInv, NEW a \in Actors, NEW t \in Threads, FreeNotStarted(a, t)
  PROVE  ThreadInv'
<1> USE NoThread DEF ThreadInv, FieldsOK, MessageType, CallType, CallOps, FreeNotStarted,
   _im_thread_free
<1>1. FieldsOK'
  BY DEF Unused
<1>2. ASSUME NEW b \in Actors PROVE CallTarget(b)'
  BY DEF CallTarget, LoopOK, Running, UsedByNoOther, CanCall, Idle
<1>3. ASSUME NEW b \in Actors PROVE CallMessage(b)'
  <2>1. call[b].op # "idle" => call[b].thread # t
    BY DEF CallTarget, LoopOK, Running, UsedByNoOther, CanCall, Idle
  <2>2. \A n \in Messages : message[n].sink # t => message'[n] = message[n]
    BY DEF Of
  <2>3. call' = call /\ CallMessage(b)
    OBVIOUS
  <2> QED BY ONLY <2>1, <2>2, <2>3 DEF CallMessage
<1>4. ASSUME NEW b \in Actors PROVE StopPromise(b)'
  BY DEF StopPromise, LoopOK, Running
<1>5. ASSUME NEW n \in Messages PROVE MessageOK(n)'
  BY DEF MessageOK, Of, Unused
<1>6. ASSUME NEW u \in Threads PROVE CurrentOK(u)'
  BY DEF CurrentOK, Of
<1>7. ASSUME NEW u \in Threads PROVE LoopOK(u)'
  BY DEF LoopOK, Running
<1>8. ASSUME NEW u \in Threads PROVE BeforeOK(u)'
  BY DEF BeforeOK, Due, Of
<1>9. ASSUME NEW u \in Threads PROVE HandledOK(u)'
  BY DEF HandledOK
<1>10. \A b \in Actors : CallExclusive(b)'
  BY DEF CallExclusive
<1> QED BY <1>1, <1>2, <1>3, <1>4, <1>5, <1>6, <1>7, <1>8, <1>9, <1>10

\* TimePasses: a delay ends.
LEMMA TimePassesKeeps ==
  ASSUME ThreadInv, NEW m \in Messages, TimePasses(m)
  PROVE  ThreadInv'
<1> USE NoThread DEF ThreadInv, FieldsOK, MessageType, CallType, CallOps, TimePasses
<1>1. FieldsOK'
  <2>1. message' = [message EXCEPT ![m] = [@ EXCEPT !.state = "due"]]
    OBVIOUS
  <2>2. message' \in [Messages -> MessageType]
    <3>1. [message[m] EXCEPT !.state = "due"] \in MessageType
      BY ONLY m \in Messages, ThreadInv, CallsAndMessages, StateKeepsType
    <3> QED BY ONLY <2>1, <3>1, ThreadInv, CallsAndMessages
  <2>3. UNCHANGED <<object, started, os, current, signal, exit, before, broken, call>>
    OBVIOUS
  <2>4. FieldsOK
    BY ONLY ThreadInv DEF ThreadInv
  <2> QED BY ONLY <2>2, <2>3, <2>4 DEF FieldsOK
<1>2. ASSUME NEW b \in Actors PROVE CallMessage(b)'
  BY DEF CallMessage
<1>3. ASSUME NEW n \in Messages PROVE MessageOK(n)'
  BY DEF MessageOK
<1>4. ASSUME NEW u \in Threads PROVE CurrentOK(u)'
  BY DEF CurrentOK
<1>5. ASSUME NEW u \in Threads PROVE BeforeOK(u)'
  BY DEF BeforeOK, Due, Of
<1>6. /\ \A b \in Actors : CallTarget(b)' /\ CallExclusive(b)' /\ StopPromise(b)'
      /\ \A u \in Threads : LoopOK(u)' /\ HandledOK(u)'
  BY DEF CallTarget, CallExclusive, StopPromise, LoopOK, HandledOK, Running
<1> QED BY <1>1, <1>2, <1>3, <1>4, <1>5, <1>6

\* RunMessage: the message leaves the exit's and every caller's list.
LEMMA RunMessageKeeps ==
  ASSUME ThreadInv, NEW t \in Threads, NEW m \in Messages, RunMessage(t, m)
  PROVE  ThreadInv'
<1> USE NoThread DEF ThreadInv, FieldsOK, MessageType, CallType, CallOps, RunMessage, Due, Of
<1>1. FieldsOK'
  <2>1. message' \in [Messages -> MessageType]
    <3>1. message' = [message EXCEPT ![m] = [@ EXCEPT !.state = "running"]]
      BY ONLY RunMessage(t, m) DEF RunMessage
    <3>2. [message[m] EXCEPT !.state = "running"] \in MessageType
      BY ONLY m \in Messages, ThreadInv, CallsAndMessages, StateKeepsType
    <3> QED BY ONLY <3>1, <3>2, ThreadInv, CallsAndMessages
  <2>2. \A x \in Actors : call[x] \in CallType /\ call[x].due \ {m} \in SUBSET Messages
    BY ONLY ThreadInv, CallsAndMessages DEF CallType
  <2>3. call' \in [Actors -> CallType]
    <3>1. call' = [x \in Actors |-> [call[x] EXCEPT !.due = call[x].due \ {m}]]
      BY ONLY RunMessage(t, m) DEF RunMessage
    <3>2. ASSUME NEW x \in Actors
          PROVE  [call[x] EXCEPT !.due = call[x].due \ {m}] \in CallType
      BY ONLY <2>2, DueKeepsType
    <3> QED BY ONLY <3>1, <3>2
  <2>4. before' \in [Threads -> SUBSET Messages]
    OBVIOUS
  <2> QED BY <2>1, <2>3, <2>4
<1>2. ASSUME NEW b \in Actors PROVE CallTarget(b)'
  <2>1. /\ call'[b].op = call[b].op /\ call'[b].thread = call[b].thread /\ UNCHANGED object
        /\ b \in Threads /\ os[b] = "handler" => os'[b] = "handler"
    OBVIOUS
  <2>2. CallTarget(b)
    BY ONLY ThreadInv DEF ThreadInv
  <2> QED BY ONLY <2>1, <2>2 DEF CallTarget
<1>3. ASSUME NEW b \in Actors PROVE CallMessage(b)'
  <2>1. call'[b].op = call[b].op /\ call'[b].thread = call[b].thread /\ call'[b].msg =
     call[b].msg
        /\ call'[b].done = call[b].done /\ call'[b].due = call[b].due \ {m}
    OBVIOUS
  <2>2. \A n \in Messages : /\ message'[n].sink = message[n].sink
                            /\ message'[n].kind = message[n].kind
                            /\ message'[n].sender = message[n].sender
                            /\ n # m => message'[n].state = message[n].state
    OBVIOUS
  <2>3. message[m].state = "due" /\ message'[m].state = "running"
    OBVIOUS
  <2>4. CallMessage(b)
    BY ONLY ThreadInv DEF ThreadInv
  <2> QED BY ONLY <2>1, <2>2, <2>3, <2>4, m \in Messages DEF CallMessage
<1>4. ASSUME NEW b \in Actors PROVE CallExclusive(b)'
  <2>1. \A x \in Actors : call'[x].op = call[x].op /\ call'[x].thread = call[x].thread
    OBVIOUS
  <2>2. CallExclusive(b) /\ CallTarget(b)
    BY ONLY ThreadInv DEF ThreadInv
  <2> QED BY ONLY <2>1, <2>2, NoThread DEF CallExclusive, CallTarget, Control
<1>5. ASSUME NEW b \in Actors PROVE StopPromise(b)'
  <2>1. call'[b].op = call[b].op /\ call'[b].thread = call[b].thread /\ call'[b].msg =
     call[b].msg
        /\ call'[b].done = call[b].done /\ call'[b].due = call[b].due \ {m}
    OBVIOUS
  <2>2. call[b].due # {} => call[b].thread \in Threads
    BY DEF StopPromise, CallTarget
  <2>3. /\ \A u \in Threads : Running(u) => Running(u)'
        /\ \A u \in Threads : before'[u] = before[u] \ {m} \/ before'[u] = before[u]
        /\ UNCHANGED <<exit, broken>>
    BY DEF Running
  <2>4. StopPromise(b)
    BY ONLY ThreadInv DEF ThreadInv
  <2> QED BY ONLY <2>1, <2>2, <2>3, <2>4 DEF StopPromise, Running
<1>6. ASSUME NEW n \in Messages PROVE MessageOK(n)'
  BY DEF MessageOK
<1>7. ASSUME NEW u \in Threads PROVE CurrentOK(u)'
  BY DEF CurrentOK
<1>8. ASSUME NEW u \in Threads PROVE LoopOK(u)'
  BY DEF LoopOK, Running
<1>9. ASSUME NEW u \in Threads PROVE BeforeOK(u)'
  BY DEF BeforeOK
<1>10. ASSUME NEW u \in Threads PROVE HandledOK(u)'
  <2> SUFFICES ASSUME NEW x \in Actors, os'[u] = "handled", call'[x].op = "wait",
                      call'[x].msg = current'[u]
               PROVE  call'[x].done
    BY DEF HandledOK
  <2>1. HandledOK(u) /\ u # t
    BY DEF HandledOK
  <2>2. /\ os[u] = "handled" /\ current'[u] = current[u]
        /\ call'[x].op = call[x].op /\ call'[x].msg = call[x].msg
        /\ call'[x].done = call[x].done
    BY <2>1
  <2> QED BY ONLY <2>1, <2>2, call'[x].op = "wait", call'[x].msg = current'[u], x \in Actors
          DEF HandledOK
<1> QED BY <1>1, <1>2, <1>3, <1>4, <1>5, <1>6, <1>7, <1>8, <1>9, <1>10

\* HandlerReturns: the waiting sender of this message learns of it.
LEMMA HandlerReturnsKeeps ==
  ASSUME ThreadInv, NEW t \in Threads, HandlerReturns(t)
  PROVE  ThreadInv'
<1> USE NoThread DEF ThreadInv, FieldsOK, MessageType, CallType, CallOps, HandlerReturns
<1>1. FieldsOK'
  <2>1. ASSUME NEW x \in Actors
        PROVE  [call[x] EXCEPT !.done = @ \/ (call[x].op \in {"send", "wait"}
                                                /\ call[x].msg = current[t])] \in CallType
    <3>1. call[x] \in CallType /\ call[x].done \in BOOLEAN
      BY ONLY ThreadInv, CallsAndMessages DEF CallType
    <3> QED BY ONLY <3>1, DoneKeepsType
  <2>2. call' \in [Actors -> CallType]
    BY ONLY <2>1, HandlerReturns(t) DEF HandlerReturns
  <2>3. os' \in [Threads -> {"none", "looping", "handler", "handled", "ended"}]
    OBVIOUS
  <2>4. UNCHANGED <<object, started, current, signal, exit, before, broken, message>>
    OBVIOUS
  <2>5. FieldsOK
    BY ONLY ThreadInv DEF ThreadInv
  <2> QED BY ONLY <2>2, <2>3, <2>4, <2>5 DEF FieldsOK
<1>2. ASSUME NEW b \in Actors PROVE CallTarget(b)'
  <2>1. call'[b].op = call[b].op /\ call'[b].thread = call[b].thread /\ UNCHANGED object
    OBVIOUS
  <2>2. b \in Threads /\ call[b].op # "idle" /\ os[b] = "handler" => os'[b] = "handler"
    BY DEF Idle
  <2>3. CallTarget(b)
    BY ONLY ThreadInv DEF ThreadInv
  <2> QED BY ONLY <2>1, <2>2, <2>3 DEF CallTarget
<1>3. ASSUME NEW b \in Actors PROVE CallMessage(b)'
  <2>1. /\ call'[b].op = call[b].op /\ call'[b].thread = call[b].thread
        /\ call'[b].msg = call[b].msg /\ UNCHANGED message
        /\ call[b].done => call'[b].done
    OBVIOUS
  <2>2. CallMessage(b)
    BY ONLY ThreadInv DEF ThreadInv
  <2> QED BY ONLY <2>1, <2>2 DEF CallMessage
<1>4. ASSUME NEW b \in Actors PROVE CallExclusive(b)'
  BY DEF CallTarget, CallExclusive
<1>5. ASSUME NEW b \in Actors PROVE StopPromise(b)'
  <2>1. call'[b].op = call[b].op /\ call'[b].thread = call[b].thread /\ call'[b].due = call[b].due
    OBVIOUS
  <2>2. /\ \A u \in Threads : Running(u) => Running(u)'
        /\ UNCHANGED <<exit, before, broken>>
    BY DEF Running
  <2>3. call[b].due # {} => call[b].thread \in Threads
    BY DEF StopPromise, CallTarget
  <2>4. StopPromise(b)
    BY ONLY ThreadInv DEF ThreadInv
  <2> QED BY ONLY <2>1, <2>2, <2>3, <2>4 DEF StopPromise, Running
<1>6. ASSUME NEW n \in Messages PROVE MessageOK(n)'
  BY DEF MessageOK
<1>7. ASSUME NEW u \in Threads PROVE CurrentOK(u)'
  BY DEF CurrentOK
<1>8. ASSUME NEW u \in Threads PROVE LoopOK(u)'
  BY DEF LoopOK, Running
<1>9. ASSUME NEW u \in Threads PROVE HandledOK(u)'
  <2> SUFFICES ASSUME NEW x \in Actors, os'[u] = "handled", call'[x].op = "wait",
                      call'[x].msg = current'[u]
               PROVE  call'[x].done
    BY DEF HandledOK
  <2>1. HandledOK(u) /\ current'[u] = current[u]
    OBVIOUS
  <2>2. /\ call'[x].op = call[x].op /\ call'[x].msg = call[x].msg
        /\ call'[x].done = (call[x].done \/ (call[x].op \in {"send", "wait"}
                                              /\ call[x].msg = current[t]))
    OBVIOUS
  <2>3. CASE u = t
    BY ONLY <2>1, <2>2, <2>3, call'[x].op = "wait", call'[x].msg = current'[u]
  <2>4. CASE u # t
    <3>1. os[u] = "handled"
      BY <2>4
    <3> QED BY ONLY <2>1, <2>2, <3>1, call'[x].op = "wait", call'[x].msg = current'[u],
                    x \in Actors DEF HandledOK
  <2> QED BY ONLY <2>3, <2>4
<1>10. \A u \in Threads : BeforeOK(u)'
  BY DEF BeforeOK, Due, Of
<1> QED BY <1>1, <1>2, <1>3, <1>4, <1>5, <1>6, <1>7, <1>8, <1>9, <1>10

\* ProxyReturns: the message goes; the call that waited for it is done.
LEMMA ProxyReturnsKeeps ==
  ASSUME ThreadInv, NEW t \in Threads, ProxyReturns(t)
  PROVE  ThreadInv'
<1> USE NoThread DEF ThreadInv, FieldsOK, MessageType, CallType, CallOps, ProxyReturns
<1>1. FieldsOK'
  BY DEF Unused
<1>2. ASSUME NEW b \in Actors PROVE CallTarget(b)'
  BY DEF CallTarget
<1>3. ASSUME NEW b \in Actors PROVE CallMessage(b)'
  BY DEF CallMessage, HandledOK, CurrentOK
<1>4. ASSUME NEW b \in Actors PROVE StopPromise(b)'
  BY DEF StopPromise, Running
<1>5. ASSUME NEW n \in Messages PROVE MessageOK(n)'
  BY DEF MessageOK, Unused
<1>6. ASSUME NEW u \in Threads PROVE CurrentOK(u)'
  BY DEF CurrentOK
<1>7. ASSUME NEW u \in Threads PROVE LoopOK(u)'
  BY DEF LoopOK, Running
<1>8. ASSUME NEW u \in Threads PROVE BeforeOK(u)'
  BY DEF BeforeOK, CurrentOK, Due, Of
<1>9. ASSUME NEW u \in Threads PROVE HandledOK(u)'
  BY DEF HandledOK
<1>10. \A b \in Actors : CallExclusive(b)'
  BY DEF CallExclusive
<1> QED BY <1>1, <1>2, <1>3, <1>4, <1>5, <1>6, <1>7, <1>8, <1>9, <1>10

\* im_thread_break: a broken loop owes nothing.
LEMMA im_thread_breakKeeps ==
  ASSUME ThreadInv, NEW t \in Threads, im_thread_break(t)
  PROVE  ThreadInv'
<1> USE NoThread DEF ThreadInv, FieldsOK, MessageType, CallType, CallOps, im_thread_break
<1>1. FieldsOK'
  OBVIOUS
<1>2. ASSUME NEW b \in Actors PROVE StopPromise(b)'
  BY DEF StopPromise, Running
<1>3. /\ \A b \in Actors : CallTarget(b)' /\ CallMessage(b)' /\ CallExclusive(b)'
      /\ \A n \in Messages : MessageOK(n)'
      /\ \A u \in Threads : CurrentOK(u)' /\ LoopOK(u)' /\ BeforeOK(u)' /\ HandledOK(u)'
  BY DEF CallTarget, CallMessage, CallExclusive, MessageOK, CurrentOK, LoopOK, BeforeOK,
     HandledOK, Running, Due, Of
<1> QED BY <1>1, <1>2, <1>3

\* LoopExits: the loop ends when it was broken or owes nothing more.
LEMMA LoopExitsKeeps ==
  ASSUME ThreadInv, NEW t \in Threads, LoopExits(t)
  PROVE  ThreadInv'
<1> USE NoThread DEF ThreadInv, FieldsOK, MessageType, CallType, CallOps, LoopExits
<1>1. FieldsOK'
  OBVIOUS
<1>2. ASSUME NEW b \in Actors PROVE CallTarget(b)'
  BY DEF CallTarget
<1>3. ASSUME NEW b \in Actors PROVE StopPromise(b)'
  BY DEF CallTarget, StopPromise, Running
<1>4. ASSUME NEW n \in Messages PROVE MessageOK(n)'
  BY DEF MessageOK
<1>5. ASSUME NEW u \in Threads PROVE CurrentOK(u)'
  BY DEF CurrentOK
<1>6. ASSUME NEW u \in Threads PROVE LoopOK(u)'
  BY DEF LoopOK, Running
<1>7. ASSUME NEW u \in Threads PROVE HandledOK(u)'
  BY DEF HandledOK
<1>8. /\ \A b \in Actors : CallMessage(b)' /\ CallExclusive(b)'
      /\ \A u \in Threads : BeforeOK(u)'
  BY DEF CallMessage, CallExclusive, BeforeOK, Due, Of
<1> QED BY <1>1, <1>2, <1>3, <1>4, <1>5, <1>6, <1>7, <1>8

\* LoopRunsDry: a loop with an exit to come does not end this way.
LEMMA LoopRunsDryKeeps ==
  ASSUME ThreadInv, NEW t \in Threads, LoopRunsDry(t)
  PROVE  ThreadInv'
<1> USE NoThread DEF ThreadInv, FieldsOK, MessageType, CallType, CallOps, LoopRunsDry
<1>1. FieldsOK'
  OBVIOUS
<1>2. ASSUME NEW b \in Actors PROVE CallTarget(b)'
  BY DEF CallTarget
<1>3. ASSUME NEW b \in Actors PROVE StopPromise(b)'
  BY DEF StopPromise, Running
<1>4. ASSUME NEW n \in Messages PROVE MessageOK(n)'
  BY DEF MessageOK
<1>5. ASSUME NEW u \in Threads PROVE CurrentOK(u)'
  BY DEF CurrentOK
<1>6. ASSUME NEW u \in Threads PROVE LoopOK(u)'
  BY DEF LoopOK, Running
<1>7. ASSUME NEW u \in Threads PROVE HandledOK(u)'
  BY DEF HandledOK
<1>8. /\ \A b \in Actors : CallMessage(b)' /\ CallExclusive(b)'
      /\ \A u \in Threads : BeforeOK(u)'
  BY DEF CallMessage, CallExclusive, BeforeOK, Due, Of
<1> QED BY <1>1, <1>2, <1>3, <1>4, <1>5, <1>6, <1>7, <1>8

-----------------------------------------------------------------------------
\* ThreadInv is inductive.
LEMMA ThreadInvHolds == Spec => []ThreadInv
<1>1. Init => ThreadInv
  <2> SUFFICES ASSUME Init PROVE ThreadInv
    OBVIOUS
  <2> USE NoThread DEF Init
  <2>1. FieldsOK
    <3>1. Idle \in CallType /\ Unused \in MessageType
      BY DEF Idle, Unused, CallType, MessageType, CallOps
    <3> QED BY <3>1 DEF FieldsOK
  <2>2. ASSUME NEW a \in Actors
        PROVE  CallTarget(a) /\ CallMessage(a) /\ CallExclusive(a) /\ StopPromise(a)
    BY DEF Idle, Control, CallTarget, CallMessage, CallExclusive, StopPromise
  <2>3. ASSUME NEW m \in Messages PROVE MessageOK(m)
    BY DEF Unused, MessageOK
  <2>4. ASSUME NEW t \in Threads
        PROVE  CurrentOK(t) /\ LoopOK(t) /\ BeforeOK(t) /\ HandledOK(t)
    BY DEF CurrentOK, LoopOK, Running, BeforeOK, HandledOK
  <2> QED BY <2>1, <2>2, <2>3, <2>4 DEF ThreadInv
<1>2. ThreadInv /\ [Next]_vars => ThreadInv'
  <2> SUFFICES ASSUME ThreadInv, [Next]_vars PROVE ThreadInv'
    OBVIOUS
  <2>1. ASSUME NEW a \in Actors, NEW t \in Threads, CallsOn(a, t) PROVE ThreadInv'
    BY <2>1, im_thread_newKeeps, im_thread_startKeeps, ListMessageKeeps, BeginStopKeeps,
       im_thread_joinKeeps, FreeNotStartedKeeps DEF CallsOn, im_thread_stop, FreeStarted
  <2>2. ASSUME NEW a \in Actors, Continues(a) PROVE ThreadInv'
    BY <2>2, ArmMessageKeeps, SendReturnsKeeps, JoinReturnsKeeps DEF Continues
  <2>3. ASSUME NEW t \in Threads, Loop(t) \/ im_thread_break(t) PROVE ThreadInv'
    BY <2>3, RunMessageKeeps, HandlerReturnsKeeps, ProxyReturnsKeeps, LoopExitsKeeps,
       LoopRunsDryKeeps, im_thread_breakKeeps DEF Loop
  <2>4. ASSUME NEW m \in Messages, TimePasses(m) PROVE ThreadInv'
    BY <2>4, TimePassesKeeps
  <2>5. CASE UNCHANGED vars
    BY <2>5 DEF vars, ThreadInv, FieldsOK, CallTarget, CallMessage, CallExclusive, StopPromise,
       MessageOK, CurrentOK, LoopOK, BeforeOK, HandledOK, Running, Due, Of
  <2> QED BY <2>1, <2>2, <2>3, <2>4, <2>5 DEF Next
<1> QED BY <1>1, <1>2, PTL DEF Spec

(***************************************************************************)
(* Every reachable state has its type, and an exit waits only for          *)
(* messages that are still due (event_base_loopexit in im_thread_stop).    *)
(***************************************************************************)
THEOREM ThreadsTypeCorrect == Spec => []TypeOK
<1>1. ThreadInv => TypeOK
  BY DEF ThreadInv, FieldsOK, BeforeOK, MessageType, CallType, TypeOK
<1> QED BY <1>1, ThreadInvHolds, PTL

(***************************************************************************)
(* Whatever calls overlap, a message has a living sink, the one that runs  *)
(* is the one its sink's loop is in, and a loop runs only in a thread that *)
(* was neither freed nor joined (_im_thread_free).                         *)
(***************************************************************************)
THEOREM MessagesKeepSink == Spec => []MessagesHaveSink
<1>1. ThreadInv => MessagesHaveSink
  <2> SUFFICES ASSUME ThreadInv PROVE MessagesHaveSink
    OBVIOUS
  <2>1. \A m \in Messages : message[m].state # "unused" => object[message[m].sink] = "alive"
    BY DEF ThreadInv, MessageOK
  <2>2. ASSUME NEW t \in Threads
        PROVE  os[t] \in {"handler", "handled"} <=>
                 \E m \in Of(t) : message[m].state = "running" /\ current[t] = m
    BY DEF ThreadInv, MessageOK, CurrentOK, Of
  <2>3. \A t \in Threads : Running(t) => object[t] = "alive" /\ started[t]
    BY DEF ThreadInv, LoopOK
  <2> QED BY <2>1, <2>2, <2>3 DEF MessagesHaveSink
<1> QED BY <1>1, ThreadInvHolds, PTL

(***************************************************************************)
(* A stop or free returns only when every message that was due at its      *)
(* start has been run, unless a handler broke the loop: im_thread_stop     *)
(* joins a thread whose exit came up after those messages.                 *)
(***************************************************************************)
THEOREM StopKeepsPromise == Spec => StopRunsDue
<1>1. ASSUME ThreadInv, NEW a \in Actors, JoinReturns(a)
      PROVE  call[a].due = {} \/ broken[call[a].thread]
  BY <1>1 DEF ThreadInv, StopPromise, JoinReturns, joined, Running
<1>2. ThreadInv /\ [Next]_vars =>
        [\A a \in Actors : JoinReturns(a) => call[a].due = {} \/ broken[call[a].thread]]_vars
  BY <1>1
<1> QED BY <1>2, ThreadInvHolds, PTL DEF Spec, StopRunsDue

-----------------------------------------------------------------------------
(***************************************************************************)
(* Sends that are made one at a time to each thread.                       *)
(***************************************************************************)
Sending(a) == call[a].op \in {"send", "wait"}

OneSender ==
  \A a, b \in Actors : Sending(a) /\ Sending(b) /\ call[a].thread = call[b].thread => a = b

\* The message of a send has a sender that has not returned.
SendOfSender(m) ==
  message[m].kind = "send" /\ message[m].state # "unused" =>
    \E a \in Actors : /\ message[m].sender = a /\ Sending(a)
                      /\ call[a].msg = m /\ call[a].thread = message[m].sink
                      /\ message[m].state # "listed" => call[a].op = "wait"

OwedTo(a, t) == call[a].op = "wait" /\ call[a].thread = t /\ call[a].done

\* A signal that is set is for a sender that waits and whose message is gone.
SignalOK(t) ==
  signal[t] => /\ \E a \in Actors : OwedTo(a, t)
               /\ \A m \in Of(t) : message[m].kind = "post"

SerialInv ==
  /\ OneSender
  /\ \A m \in Messages : SendOfSender(m)
  /\ \A t \in Threads : SignalOK(t)

\* ListMessage: SerialSends: nobody else is sending to this thread.
LEMMA ListMessageKeepsSerial ==
  ASSUME ThreadInv, SerialSends, SerialInv, NEW a \in Actors, NEW t \in Threads, NEW kind \in
     {"post", "send"},
         ListMessage(a, t, kind)
  PROVE  SerialInv'
<1> USE NoThread DEF ThreadInv, FieldsOK, MessageType, CallType, CallOps, SerialInv,
   ListMessage, CanCall, Calling, Unused
<1>1. OneSender'
  BY DEF OneSender, Sending
<1>2. ASSUME NEW n \in Messages PROVE SendOfSender(n)'
  BY DEF SendOfSender, Sending, Idle
<1>3. ASSUME NEW u \in Threads PROVE SignalOK(u)'
  BY DEF SignalOK, OwedTo, Idle, Of
<1> QED BY <1>1, <1>2, <1>3

\* ArmMessage: the sender begins to wait.
LEMMA ArmMessageKeepsSerial ==
  ASSUME ThreadInv, SerialSends, SerialInv, NEW a \in Actors, ArmMessage(a)
  PROVE  SerialInv'
<1> USE NoThread DEF ThreadInv, FieldsOK, MessageType, CallType, CallOps, SerialInv, ArmMessage
<1>1. OneSender'
  BY DEF OneSender, Sending, Idle
<1>2. ASSUME NEW n \in Messages PROVE SendOfSender(n)'
  BY DEF SendOfSender, Sending, CallMessage
<1>3. ASSUME NEW u \in Threads PROVE SignalOK(u)'
  BY DEF SignalOK, OwedTo, CallMessage, Of
<1> QED BY <1>1, <1>2, <1>3

\* SendReturns: a signal that is set means that the message is gone already.
LEMMA SendReturnsKeepsSerial ==
  ASSUME ThreadInv, SerialSends, SerialInv, NEW a \in Actors, SendReturns(a)
  PROVE  SerialInv'
<1> USE NoThread DEF ThreadInv, FieldsOK, MessageType, CallType, CallOps, SerialInv,
   SendReturns
<1>1. OneSender'
  BY DEF OneSender, Sending, Idle
<1>2. ASSUME NEW n \in Messages PROVE SendOfSender(n)'
  <2>1. CASE message[n].sink = call[a].thread /\ message[n].state # "unused"
    BY <2>1 DEF SendOfSender, SignalOK, Of, CallTarget
  <2>2. CASE ~(message[n].sink = call[a].thread /\ message[n].state # "unused")
    BY <2>2 DEF SendOfSender, Sending
  <2> QED BY <2>1, <2>2
<1>3. ASSUME NEW u \in Threads PROVE SignalOK(u)'
  BY DEF SignalOK, OwedTo, Of
<1> QED BY <1>1, <1>2, <1>3

\* BeginStop: it says nothing of sends.
LEMMA BeginStopKeepsSerial ==
  ASSUME ThreadInv, SerialSends, SerialInv, NEW a \in Actors, NEW t \in Threads, NEW op \in
     {"stop", "free"},
         BeginStop(a, t, op),
         op = "free" => UsedByNoOther(a, t)
  PROVE  SerialInv'
<1> USE NoThread DEF ThreadInv, FieldsOK, MessageType, CallType, CallOps, SerialInv, BeginStop,
   CanCall, Calling, ask_to_exit
<1>1. OneSender'
  BY DEF OneSender, Sending
<1>2. ASSUME NEW n \in Messages PROVE SendOfSender(n)'
  BY DEF SendOfSender, Sending, Idle
<1>3. ASSUME NEW u \in Threads PROVE SignalOK(u)'
  BY DEF SignalOK, OwedTo, Idle, Of
<1> QED BY <1>1, <1>2, <1>3

\* im_thread_join: it says nothing of sends.
LEMMA im_thread_joinKeepsSerial ==
  ASSUME ThreadInv, SerialSends, SerialInv, NEW a \in Actors, NEW t \in Threads,
     im_thread_join(a, t)
  PROVE  SerialInv'
<1> USE NoThread DEF ThreadInv, FieldsOK, MessageType, CallType, CallOps, SerialInv,
   im_thread_join, CanCall, Calling
<1>1. OneSender'
  BY DEF OneSender, Sending
<1>2. ASSUME NEW n \in Messages PROVE SendOfSender(n)'
  BY DEF SendOfSender, Sending, Idle
<1>3. ASSUME NEW u \in Threads PROVE SignalOK(u)'
  BY DEF SignalOK, OwedTo, Idle, Of
<1> QED BY <1>1, <1>2, <1>3

\* JoinReturns: the messages and the signal of a freed object go together.
LEMMA JoinReturnsKeepsSerial ==
  ASSUME ThreadInv, SerialSends, SerialInv, NEW a \in Actors, JoinReturns(a)
  PROVE  SerialInv'
<1> USE NoThread DEF ThreadInv, FieldsOK, MessageType, CallType, CallOps, SerialInv,
   JoinReturns, joined, _im_thread_free
<1>1. OneSender'
  BY DEF OneSender, Sending, Idle
<1>2. ASSUME NEW n \in Messages PROVE SendOfSender(n)'
  BY DEF SendOfSender, Sending, Unused
<1>3. ASSUME NEW u \in Threads PROVE SignalOK(u)'
  BY DEF SignalOK, OwedTo, Unused, Of
<1> QED BY <1>1, <1>2, <1>3

\* FreeNotStarted: the messages and the signal of a freed object go together.
LEMMA FreeNotStartedKeepsSerial ==
  ASSUME ThreadInv, SerialSends, SerialInv, NEW a \in Actors, NEW t \in Threads,
     FreeNotStarted(a, t)
  PROVE  SerialInv'
<1> USE NoThread DEF ThreadInv, FieldsOK, MessageType, CallType, CallOps, SerialInv,
   FreeNotStarted, _im_thread_free
<1>1. ASSUME NEW n \in Messages PROVE SendOfSender(n)'
  BY DEF SendOfSender, Sending, Unused
<1>2. ASSUME NEW u \in Threads PROVE SignalOK(u)'
  BY DEF SignalOK, OwedTo, Unused, Of
<1>3. OneSender'
  BY DEF OneSender, Sending
<1> QED BY <1>1, <1>2, <1>3

\* TimePasses: only a post is armed with a delay.
LEMMA TimePassesKeepsSerial ==
  ASSUME ThreadInv, SerialSends, SerialInv, NEW m \in Messages, TimePasses(m)
  PROVE  SerialInv'
<1> USE NoThread DEF ThreadInv, FieldsOK, MessageType, CallType, CallOps, SerialInv, TimePasses
<1>1. ASSUME NEW n \in Messages PROVE SendOfSender(n)'
  BY DEF SendOfSender, Sending
<1>2. ASSUME NEW u \in Threads PROVE SignalOK(u)'
  BY DEF SignalOK, OwedTo, Of
<1>3. OneSender'
  BY DEF OneSender, Sending
<1> QED BY <1>1, <1>2, <1>3

\* RunMessage: the message keeps its sender.
LEMMA RunMessageKeepsSerial ==
  ASSUME ThreadInv, SerialSends, SerialInv, NEW t \in Threads, NEW m \in Messages,
     RunMessage(t, m)
  PROVE  SerialInv'
<1> USE NoThread DEF ThreadInv, FieldsOK, MessageType, CallType, CallOps, SerialInv,
   RunMessage, Due, Of
<1>1. OneSender'
  <2>1. \A x \in Actors : call'[x].op = call[x].op /\ call'[x].thread = call[x].thread
    OBVIOUS
  <2> QED BY ONLY <2>1, SerialInv DEF SerialInv, OneSender, Sending
<1>2. ASSUME NEW n \in Messages PROVE SendOfSender(n)'
  <2> SUFFICES ASSUME message'[n].kind = "send", message'[n].state # "unused"
               PROVE  SendOfSender(n)'
    BY DEF SendOfSender
  <2>1. /\ message'[n].sink = message[n].sink /\ message'[n].kind = message[n].kind
        /\ message'[n].sender = message[n].sender
        /\ message[n].state # "unused"
        /\ message[n].state = "listed" => message'[n].state = "listed"
    OBVIOUS
  <2>2. PICK a \in Actors : /\ message[n].sender = a /\ Sending(a)
                            /\ call[a].msg = n /\ call[a].thread = message[n].sink
                            /\ message[n].state # "listed" => call[a].op = "wait"
    BY <2>1 DEF SendOfSender
  <2>3. /\ call'[a].op = call[a].op /\ call'[a].msg = call[a].msg
        /\ call'[a].thread = call[a].thread
    OBVIOUS
  <2>4. message[n].state # "listed" <=> message'[n].state # "listed"
    OBVIOUS
  <2>5. /\ message'[n].sender = a /\ Sending(a)' /\ call'[a].msg = n
        /\ call'[a].thread = message'[n].sink
        /\ message'[n].state # "listed" => call'[a].op = "wait"
    BY ONLY <2>1, <2>2, <2>3, <2>4 DEF Sending
  <2> QED BY ONLY <2>5, a \in Actors DEF SendOfSender
<1>3. ASSUME NEW u \in Threads PROVE SignalOK(u)'
  BY DEF SignalOK, OwedTo, CallTarget, CallMessage, CurrentOK
<1> QED BY <1>1, <1>2, <1>3

\* HandlerReturns: no call ends here.
LEMMA HandlerReturnsKeepsSerial ==
  ASSUME ThreadInv, SerialSends, SerialInv, NEW t \in Threads, HandlerReturns(t)
  PROVE  SerialInv'
<1> USE NoThread DEF ThreadInv, FieldsOK, MessageType, CallType, CallOps, SerialInv,
   HandlerReturns
<1>1. OneSender'
  BY DEF OneSender, Sending
<1>2. ASSUME NEW n \in Messages PROVE SendOfSender(n)'
  <2>1. \A x \in Actors : /\ call'[x].op = call[x].op /\ call'[x].msg = call[x].msg
                          /\ call'[x].thread = call[x].thread
    OBVIOUS
  <2>2. message' = message /\ SendOfSender(n)
    OBVIOUS
  <2>3. \A x \in Actors : Sending(x)' <=> Sending(x)
    BY ONLY <2>1 DEF Sending
  <2> QED BY ONLY <2>1, <2>2, <2>3 DEF SendOfSender
<1>3. ASSUME NEW u \in Threads PROVE SignalOK(u)'
  <2>1. signal' = signal /\ message' = message /\ SignalOK(u)
    OBVIOUS
  <2>2. \A x \in Actors : /\ call'[x].op = call[x].op /\ call'[x].thread = call[x].thread
                          /\ call[x].done => call'[x].done
    OBVIOUS
  <2>3. ASSUME NEW x \in Actors, OwedTo(x, u) PROVE OwedTo(x, u)'
    BY ONLY <2>2, <2>3 DEF OwedTo
  <2> QED BY ONLY <2>1, <2>3 DEF SignalOK, Of
<1> QED BY <1>1, <1>2, <1>3

\* ProxyReturns: the signal of a send is for its sender, who is done, and there is no other.
LEMMA ProxyReturnsKeepsSerial ==
  ASSUME ThreadInv, SerialSends, SerialInv, NEW t \in Threads, ProxyReturns(t)
  PROVE  SerialInv'
<1> USE NoThread DEF ThreadInv, FieldsOK, MessageType, CallType, CallOps, SerialInv,
   ProxyReturns
<1>1. ASSUME NEW n \in Messages PROVE SendOfSender(n)'
  BY DEF SendOfSender, Sending, Unused
<1>2. ASSUME NEW u \in Threads PROVE SignalOK(u)'
  <2>1. CASE u = t /\ message[current[t]].kind = "send"
    <3>1. PICK a \in Actors : /\ message[current[t]].sender = a /\ call[a].op = "wait"
                              /\ call[a].msg = current[t] /\ call[a].thread = t
      BY <2>1 DEF CurrentOK, SendOfSender
    <3>2. call[a].done
      BY <3>1 DEF HandledOK
    <3>3. ASSUME NEW n \in Messages, n # current[t], message[n].state # "unused",
                 message[n].sink = t
          PROVE  message[n].kind = "post"
      BY <2>1, <3>1, <3>3 DEF SendOfSender, OneSender, Sending
    <3>4. \A n \in Of(t)' : message'[n].kind = "post"
      BY <3>3 DEF Of, Unused
    <3> QED BY <2>1, <3>1, <3>2, <3>4 DEF SignalOK, OwedTo
  <2>2. CASE u # t \/ message[current[t]].kind # "send"
    <3>1. signal'[u] = signal[u]
      BY <2>2 DEF signals
    <3>2. \A n \in Of(u)' : n \in Of(u) /\ message'[n].kind = message[n].kind
      BY DEF Of, Unused
    <3> QED BY <3>1, <3>2 DEF SignalOK, OwedTo
  <2> QED BY <2>1, <2>2
<1>3. OneSender'
  BY DEF OneSender, Sending
<1> QED BY <1>1, <1>2, <1>3

-----------------------------------------------------------------------------
\* SerialInv is inductive with ThreadInv if sends to one thread do not overlap.
LEMMA SerialInvHolds == ASSUME SerialSends PROVE Spec => []SerialInv
<1>1. Init => SerialInv
  BY DEF Init, Idle, Unused, SerialInv, OneSender, Sending, SendOfSender, SignalOK
<1>2. ThreadInv /\ SerialInv /\ [Next]_vars => SerialInv'
  <2> SUFFICES ASSUME ThreadInv, SerialInv, [Next]_vars PROVE SerialInv'
    OBVIOUS
  <2> DEFINE Same == UNCHANGED <<message, call, signal>>
  <2>1. ASSUME Same PROVE SerialInv'
    BY <2>1 DEF SerialInv, OneSender, Sending, SendOfSender, SignalOK, OwedTo, Of
  <2>2. ASSUME NEW a \in Actors, NEW t \in Threads, CallsOn(a, t) PROVE SerialInv'
    <3>1. CASE im_thread_new(a, t) \/ im_thread_start(a, t)
      BY <2>1, <3>1 DEF im_thread_new, im_thread_start
    <3>2. CASE \E kind \in {"post", "send"} : ListMessage(a, t, kind)
      BY <3>2, ListMessageKeepsSerial
    <3>3. CASE im_thread_stop(a, t) \/ FreeStarted(a, t)
      BY <3>3, BeginStopKeepsSerial DEF im_thread_stop, FreeStarted
    <3>4. CASE im_thread_join(a, t) \/ FreeNotStarted(a, t)
      BY <3>4, im_thread_joinKeepsSerial, FreeNotStartedKeepsSerial
    <3> QED BY <2>2, <3>1, <3>2, <3>3, <3>4 DEF CallsOn
  <2>3. ASSUME NEW a \in Actors, Continues(a) PROVE SerialInv'
    BY <2>3, ArmMessageKeepsSerial, SendReturnsKeepsSerial, JoinReturnsKeepsSerial DEF
       Continues
  <2>4. ASSUME NEW t \in Threads, Loop(t) \/ im_thread_break(t) PROVE SerialInv'
    <3>1. CASE im_thread_break(t) \/ LoopExits(t) \/ LoopRunsDry(t)
      BY <2>1, <3>1 DEF im_thread_break, LoopExits, LoopRunsDry
    <3>2. CASE \E m \in Messages : RunMessage(t, m)
      BY <3>2, RunMessageKeepsSerial
    <3>3. CASE HandlerReturns(t) \/ ProxyReturns(t)
      BY <3>3, HandlerReturnsKeepsSerial, ProxyReturnsKeepsSerial
    <3> QED BY <2>4, <3>1, <3>2, <3>3 DEF Loop
  <2>5. ASSUME NEW m \in Messages, TimePasses(m) PROVE SerialInv'
    BY <2>5, TimePassesKeepsSerial
  <2>6. CASE UNCHANGED vars
    BY <2>1, <2>6 DEF vars
  <2> QED BY <2>2, <2>3, <2>4, <2>5, <2>6 DEF Next
<1> QED BY <1>1, <1>2, ThreadInvHolds, PTL DEF Spec

(***************************************************************************)
(* If sends to one thread do not overlap, no signal of the auto-reset      *)
(* event is ever left over: it is for a sender that waits and whose        *)
(* handler has run.                                                        *)
(***************************************************************************)
THEOREM SignalsAreOwed == ASSUME SerialSends PROVE Spec => []SignalIsOwed
<1>1. SerialInv => SignalIsOwed
  BY DEF SerialInv, SignalOK, OwedTo, SignalIsOwed
<1> QED BY <1>1, SerialInvHolds, PTL

(***************************************************************************)
(* If sends to one thread do not overlap, im_thread_send returns only      *)
(* after its handler has run, however many threads call and are called.    *)
(***************************************************************************)
THEOREM SendsWaitForHandler == ASSUME SerialSends PROVE Spec => SendWaitsForHandler
<1>1. ASSUME ThreadInv, SerialInv, NEW a \in Actors, SendReturns(a) PROVE call[a].done
  <2>1. call[a].op = "wait" /\ call[a].thread \in Threads /\ signal[call[a].thread]
    BY <1>1 DEF ThreadInv, CallTarget, SendReturns
  <2>2. PICK b \in Actors : OwedTo(b, call[a].thread)
    BY <1>1, <2>1 DEF SerialInv, SignalOK
  <2> QED BY <1>1, <2>1, <2>2 DEF SerialInv, OneSender, Sending, OwedTo
<1>2. ThreadInv /\ SerialInv /\ [Next]_vars =>
        [\A a \in Actors : SendReturns(a) => call[a].done]_vars
  BY <1>1
<1> QED BY <1>2, ThreadInvHolds, SerialInvHolds, PTL DEF Spec, SendWaitsForHandler
=============================================================================
