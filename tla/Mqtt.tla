------------------------------- MODULE Mqtt --------------------------------
(***************************************************************************)
(* The MQTT library, src/lib/mqtt.c: the application's calls, the event    *)
(* handler in the task of the ESP-MQTT client, the callback task and its   *)
(* queue, against a broker whose connection may go at any time.            *)
(*                                                                         *)
(* A topic is its name, a number in the order of strcmp(); its callback is *)
(* named by the topic.  The application subscribes to the first len topics *)
(* of one array.  set_subscribed_topics() and delete() may be called by    *)
(* the application and by a callback, connect, stop and resume by the      *)
(* application.  Left out: connect() beside a client that works, and a     *)
(* callback's delete() while the application is in a call of its own.      *)
(***************************************************************************)
EXTENDS Integers, Sequences, FiniteSets

CONSTANTS
    Topics,     \* the names, a set of positive numbers
    Quiet,      \* the topics whose callback is NULL
    Array,      \* the application's array as it was compiled
    QueueLen,   \* CB_TASK_QUEUE_LENGTH
    Retry,      \* CONF_LIB_MQTT_RETRY
    MaxMsgs     \* bound on the messages that come

ASSUME TopicsAssumption == Topics \subseteq Nat \ {0} /\ Quiet \subseteq Topics
ASSUME ArrayAssumption ==
    /\ Array \in Seq(Topics)
    /\ \A i, j \in 1 .. Len(Array) : Array[i] = Array[j] => i = j
ASSUME BoundsAssumption ==
    /\ QueueLen \in Nat \ {0}
    /\ Retry \in Nat /\ MaxMsgs \in Nat

None == 0               \* no message
Null == 0               \* no callback
Places == 1 .. Len(Array)
Callers == {"app", "cb"}
Free == "free"          \* topics_mutex is not held

VARIABLES
    mem,        \* the application's array, sorted in place
    size,       \* subs_topics.size
    mutex,      \* who holds topics_mutex
    call,       \* set_subscribed_topics() per caller
    app,        \* where the application is in connect() or delete(), or "gone"
    client,     \* pk_mqtt_client: "null", "half" (connect() failed and has left
                \* the callback task, its queue, the mutex and perhaps a client
                \* that was not started), "made" or "dangling"
    net,        \* the client task: "off", "trying" or "up"
    bits,       \* pk_mqtt_event_group, of it CONNECTED and FAIL
    retry,      \* the handler's static counter
    handler,    \* the event handler and what it holds
    queue,      \* cb_task.queue
    item,       \* what the callback task runs
    heap,       \* the copies malloc() gave and nobody has freed
    came,       \* the number of messages that have come
    subs,       \* the broker: this client's subscriptions
    steady,     \* since the running set call began the connection has held, and
                \* then the broker had no topic from outside the array
    asSet       \* such a call returned 1 and nothing has undone it

topicVars == <<mem, size, mutex, call>>
clientVars == <<app, client, net, bits, retry>>
dispatchVars == <<handler, queue, item, heap, came>>
brokerVars == <<subs, steady, asSet>>
vars == <<topicVars, clientVars, dispatchVars, brokerVars>>

\* The handler between two events.  pair is the place of the entry that
\* find_callback() returned; moved says that qsort() has worked on that place
\* since (a record of the model).
Idle == [pc |-> "idle", msg |-> None, topic |-> 0, pair |-> 0, cb |-> Null,
         moved |-> FALSE]
NoItem == [msg |-> None, topic |-> 0, cb |-> Null, moved |-> FALSE]
NoCall == [pc |-> "idle", len |-> 0, res |-> TRUE]

Copies(msg) == {<<msg, "topic">>, <<msg, "data">>}
Msgs == 1 .. MaxMsgs
Calls == [pc : {"idle", "take", "unsub", "sort", "sub"},
          len : 0 .. Len(Array), res : BOOLEAN]
Handlers == [pc : {"idle", "find", "found", "copy", "send"},
             msg : Msgs \cup {None}, topic : Topics \cup {0},
             pair : Places \cup {0}, cb : Topics \cup {Null}, moved : BOOLEAN]
Items == [msg : Msgs, topic : Topics, cb : Topics \cup {Null}, moved : BOOLEAN]

TypeOK ==
    /\ mem \in [Places -> Topics]
    /\ size \in 0 .. Len(Array)
    /\ mutex \in Callers \cup {Free}
    /\ call \in [Callers -> Calls]
    /\ app \in {"idle", "wait", "destroy", "kill", "release", "gone"}
    /\ client \in {"null", "half", "made", "dangling"}
    /\ net \in {"off", "trying", "up"}
    /\ bits \subseteq {"connected", "fail"}
    /\ retry \in 0 .. Retry
    /\ handler \in Handlers
    /\ queue \in Seq(Items) /\ Len(queue) <= QueueLen
    /\ item \in Items \cup {NoItem}
    /\ heap \subseteq Msgs \X {"topic", "data"}
    /\ came \in 0 .. MaxMsgs
    /\ subs \subseteq Topics
    /\ steady \in BOOLEAN /\ asSet \in BOOLEAN

Init ==
    /\ mem = Array /\ size = 0 /\ mutex = Free
    /\ call = [u \in Callers |-> NoCall]
    /\ app = "idle" /\ client = "null" /\ net = "off" /\ bits = {} /\ retry = 0
    /\ handler = Idle /\ queue = <<>> /\ item = NoItem
    /\ heap = {} /\ came = 0
    /\ subs = {} /\ steady = FALSE /\ asSet = FALSE

-----------------------------------------------------------------------------
(* pk_mqtt_set_subscribed_topics().                                        *)

Set(u, c) == call' = [call EXCEPT ![u] = c]
OnlyCall == UNCHANGED <<clientVars, dispatchVars>>

\* The library is in use: it was connected or resumed, and not deleted.
InUse(u) == IF u = "app" THEN app = "idle" /\ client = "made" ELSE item.msg # None

SetTopics(u) ==
    /\ InUse(u) /\ call[u].pc = "idle"
    /\ \E len \in 1 .. Len(Array) :
          Set(u, [pc |-> "take", len |-> len, res |-> TRUE])
    /\ UNCHANGED <<mem, size, mutex, brokerVars>> /\ OnlyCall

Names == {mem[i] : i \in 1 .. size}

Take(u) ==
    /\ call[u].pc = "take" /\ mutex = Free
    /\ mutex' = u
    /\ Set(u, [call[u] EXCEPT !.pc = "unsub"])
    /\ steady' = (net = "up" /\ subs \subseteq Names) /\ asSet' = FALSE
    /\ UNCHANGED <<mem, size, subs>> /\ OnlyCall

TakeTimesOut(u) ==
    /\ call[u].pc = "take" /\ mutex # Free
    /\ Set(u, NoCall)
    /\ UNCHANGED <<mem, size, mutex, brokerVars>> /\ OnlyCall

\* A loop of requests to the broker, which has some of them done: refused
\* without a connection, each may fail, and with a client that is already
\* destroyed they have no defined effect.  Nothing reads what the loop changes
\* before its end, so it is one step.
Requests(wanted) == IF net = "up" /\ client = "made" THEN SUBSET wanted ELSE {{}}

\* Mutant: the array is exchanged first and its new topics are unsubscribed.
UnsubscribeNew(u) ==
    /\ call[u].pc = "unsub"
    /\ size' = call[u].len
    /\ \E did \in Requests({mem[i] : i \in 1 .. size'}) :
          /\ subs' = subs \ did
          /\ Set(u, [call[u] EXCEPT !.pc = "sort", !.res = (Cardinality(did) = size')])
    /\ UNCHANGED <<mem, mutex, steady, asSet>> /\ OnlyCall

\* The old topics are unsubscribed, the array is exchanged.
Unsubscribe(u) ==
    /\ call[u].pc = "unsub"
    /\ \E did \in Requests(Names) :
          /\ subs' = subs \ did
          /\ Set(u, [call[u] EXCEPT !.pc = "sort", !.res = (did = Names)])
    /\ size' = call[u].len
    /\ UNCHANGED <<mem, mutex, steady, asSet>> /\ OnlyCall

\* While qsort() works, and after it has moved an entry, a pointer into the
\* sorted part is no longer the entry that was found.
Moved(len) ==
    handler' = IF handler.pair \in 1 .. len
               THEN [handler EXCEPT !.moved = TRUE] ELSE handler

Sorted(m, n) == \A i, j \in 1 .. n : i < j => m[i] < m[j]
SortsTo(m, n) ==
    /\ m \in [Places -> Topics] /\ Sorted(m, n)
    /\ \A i \in Places : i > n => m[i] = mem[i]
    /\ {m[i] : i \in 1 .. n} = {mem[i] : i \in 1 .. n}

Qsort(u) ==
    /\ call[u].pc = "sort"
    /\ \E m \in [Places -> Topics] : SortsTo(m, size) /\ mem' = m
    /\ Moved(size)
    /\ Set(u, [call[u] EXCEPT !.pc = "sub"])
    /\ UNCHANGED <<size, mutex, clientVars, queue, item, heap, came,
                   brokerVars>>

\* The new topics are subscribed, the mutex is given.
Subscribe(u) ==
    /\ call[u].pc = "sub"
    /\ \E did \in Requests(Names) :
          /\ subs' = subs \cup did
          /\ asSet' = (call[u].res /\ did = Names /\ steady)
    /\ Set(u, NoCall)
    /\ mutex' = Free /\ steady' = FALSE
    /\ UNCHANGED <<mem, size>> /\ OnlyCall

\* pk_mqtt_unsubscribe_topic(): the array is left as it is.
UnsubscribeTopic(u) ==
    /\ InUse(u) /\ call[u].pc = "idle"
    /\ net = "up" /\ client = "made"
    /\ \E t \in subs : subs' = subs \ {t}
    /\ steady' = FALSE /\ asSet' = FALSE
    /\ UNCHANGED topicVars /\ OnlyCall

-----------------------------------------------------------------------------
(* mqtt_event_handler(), in the task of the client.                        *)

OnlyHandler == UNCHANGED <<topicVars, clientVars, brokerVars, item, came>>

\* MQTT_EVENT_DATA; the copy of the topic, or no memory for it.  A message may
\* still come on a topic that has just been unsubscribed.
Data ==
    /\ net = "up" /\ handler.pc = "idle" /\ came < MaxMsgs
    /\ came' = came + 1
    /\ \/ /\ \E t \in Topics :
                handler' = [Idle EXCEPT !.pc = "find", !.msg = came', !.topic = t]
          /\ heap' = heap \cup {<<came', "topic">>}
       \/ UNCHANGED <<handler, heap>>
    /\ UNCHANGED <<topicVars, clientVars, brokerVars, queue, item>>

\* The message is given up and its copies are freed.
Drop == handler' = Idle /\ heap' = heap \ Copies(handler.msg)

\* Mutant: the search gives the first entry that is not less.
LowerBound(t) ==
    {i \in 1 .. size : mem[i] >= t /\ \A j \in 1 .. i - 1 : mem[j] < t} \cup {0}

\* bsearch(): right in a sorted array; in another it may miss the entry.
BSearch(t) ==
    LET hits == {i \in 1 .. size : mem[i] = t}
    IN  IF hits = {} THEN {0} ELSE IF Sorted(mem, size) THEN hits ELSE hits \cup {0}

Find ==
    /\ handler.pc = "find" /\ mutex = Free
    /\ \E i \in BSearch(handler.topic) :
          IF i = 0 THEN Drop
          ELSE /\ handler' = [handler EXCEPT !.pc = "found", !.pair = i]
               /\ UNCHANGED heap
    /\ UNCHANGED queue /\ OnlyHandler

FindTimesOut ==
    /\ handler.pc = "find" /\ mutex # Free
    /\ Drop
    /\ UNCHANGED queue /\ OnlyHandler

\* The handler reads the entry without the mutex: in the middle of qsort() it
\* finds any topic of the part being sorted.
Sorting == /\ handler.pair <= size
           /\ \E u \in Callers : call[u].pc = "sort"
Entry == IF Sorting THEN {mem[i] : i \in 1 .. size} ELSE {mem[handler.pair]}
Callback(t) == IF t \in Quiet THEN Null ELSE t

CheckCallback ==
    /\ handler.pc = "found"
    /\ \E t \in Entry :
          IF Callback(t) = Null THEN Drop
          ELSE /\ handler' = [handler EXCEPT !.pc = "copy", !.moved = @ \/ Sorting]
               /\ UNCHANGED heap
    /\ UNCHANGED queue /\ OnlyHandler

\* The copy of the data, and the second look at the entry.  Without memory the
\* handler returns and keeps the copy of the topic.
CopyData ==
    /\ handler.pc = "copy"
    /\ \/ /\ heap' = heap \cup Copies(handler.msg)
          /\ \E t \in Entry :
                handler' = [handler EXCEPT !.pc = "send", !.pair = 0,
                                           !.cb = Callback(t), !.moved = @ \/ Sorting]
       \/ handler' = Idle /\ UNCHANGED heap
    /\ UNCHANGED queue /\ OnlyHandler

ItemOf(h) == [msg |-> h.msg, topic |-> h.topic, cb |-> h.cb, moved |-> h.moved]

Send ==
    /\ handler.pc = "send" /\ Len(queue) < QueueLen
    /\ queue' = Append(queue, ItemOf(handler))
    /\ handler' = Idle
    /\ UNCHANGED heap /\ OnlyHandler

\* Mutants: the copies are not freed; the queue is overwritten, as
\* xQueueOverwrite() does; the handler waits with portMAX_DELAY.
SendTimesOutLeaks ==
    /\ handler.pc = "send" /\ Len(queue) = QueueLen
    /\ handler' = Idle
    /\ UNCHANGED <<queue, heap>> /\ OnlyHandler
SendOverwrites ==
    /\ handler.pc = "send" /\ Len(queue) = QueueLen
    /\ queue' = Append(Tail(queue), ItemOf(handler))
    /\ handler' = Idle
    /\ heap' = heap \ Copies(Head(queue).msg) /\ OnlyHandler
SendWaits == FALSE

\* xQueueSend() waits a second for room.
SendTimesOut ==
    /\ handler.pc = "send" /\ Len(queue) = QueueLen
    /\ Drop
    /\ UNCHANGED queue /\ OnlyHandler

\* The end of the connection, with the clean session esp_mqtt_client_config_t
\* has by default: the broker forgets the client's subscriptions.
Disconnected ==
    /\ subs' = {} /\ steady' = FALSE /\ asSet' = FALSE

\* MQTT_EVENT_CONNECTED; nothing is subscribed again.
Connected ==
    /\ net = "trying" /\ handler.pc = "idle"
    /\ net' = "up" /\ bits' = bits \cup {"connected"}
    /\ UNCHANGED <<topicVars, app, client, retry, dispatchVars, brokerVars>>

\* MQTT_EVENT_DISCONNECTED, also for an attempt that failed.
Disconnect ==
    /\ net # "off" /\ handler.pc = "idle"
    /\ net' = "trying"
    /\ IF retry < Retry THEN retry' = retry + 1 /\ UNCHANGED bits
       ELSE bits' = bits \cup {"fail"} /\ UNCHANGED retry
    /\ Disconnected
    /\ UNCHANGED <<topicVars, app, client, dispatchVars>>

-----------------------------------------------------------------------------
(* mqtt_callback_task().                                                   *)

Receive ==
    /\ item = NoItem /\ queue # <<>>
    /\ client = "made" \/ app = "kill"     \* the task has not been deleted
    /\ item' = Head(queue) /\ queue' = Tail(queue)
    /\ UNCHANGED <<topicVars, clientVars, brokerVars, handler, heap, came>>

Return ==
    /\ item # NoItem /\ item.cb # Null /\ call["cb"].pc = "idle"
    /\ item' = NoItem /\ heap' = heap \ Copies(item.msg)
    /\ UNCHANGED <<topicVars, clientVars, brokerVars, handler, queue, came>>

\* Neither connect() nor delete() nor a call of set_subscribed_topics() runs.
AppFree == app = "idle" /\ call["app"].pc = "idle"

\* The call of a NULL callback, or a call with the client that delete() has
\* freed, may end in a panic and a restart of the board.
Panic ==
    /\ \/ item # NoItem /\ item.cb = Null
       \/ /\ client = "dangling"
          /\ AppFree \/ \E u \in Callers : call[u].pc \in {"unsub", "sub"}
    /\ mem' = Array /\ size' = 0 /\ mutex' = Free
    /\ call' = [u \in Callers |-> NoCall]
    /\ app' = "idle" /\ client' = "null" /\ net' = "off" /\ bits' = {} /\ retry' = 0
    /\ handler' = Idle /\ queue' = <<>> /\ item' = NoItem /\ heap' = {}
    /\ Disconnected
    /\ UNCHANGED came

-----------------------------------------------------------------------------
(* pk_mqtt_connect(), delete(), stop() and resume().                       *)

\* All handles are overwritten.  Without memory for the queue or its task
\* connect() returns 0 before anything refers to them and may be called again;
\* when the client is not made, registered or started it returns 0 and leaves
\* the rest as it is.
Connect ==
    /\ AppFree /\ client # "made"
    /\ bits' = {} /\ queue' = <<>>
    /\ \/ app' = "wait" /\ client' = "made" /\ net' = "trying"
       \/ client' = "half" /\ UNCHANGED <<app, net>>
    /\ UNCHANGED <<topicVars, retry, handler, item, heap, came, brokerVars>>

\* xEventGroupWaitBits(); with FAIL alone connect() calls delete().
WaitEnds ==
    /\ app = "wait" /\ bits # {}
    /\ app' = IF "connected" \in bits THEN "idle" ELSE "destroy"
    /\ UNCHANGED <<topicVars, client, net, bits, retry, dispatchVars, brokerVars>>

Delete ==
    /\ AppFree /\ client \in {"half", "made"}
    /\ app' = "destroy"
    /\ UNCHANGED <<topicVars, client, net, bits, retry, dispatchVars, brokerVars>>

\* Without a connect() before it the handle of the task is NULL, and
\* vTaskDelete() ends its caller.
DeleteNothing ==
    /\ AppFree /\ client = "null"
    /\ app' = "gone"
    /\ UNCHANGED <<topicVars, client, net, bits, retry, dispatchVars, brokerVars>>

\* From a callback vTaskDelete() ends its caller too, before the handles are
\* cleared; the copies of the message and those that wait are not freed.
DeleteByCallback ==
    /\ AppFree /\ client = "made" /\ handler.pc = "idle"
    /\ item # NoItem /\ item.cb # Null /\ call["cb"].pc = "idle"
    /\ client' = "dangling" /\ net' = "off" /\ item' = NoItem
    /\ Disconnected
    /\ UNCHANGED <<topicVars, app, bits, retry, handler, queue, heap, came>>

\* esp_mqtt_client_destroy() ends the client's task between two events.
Destroy ==
    /\ app = "destroy" /\ handler.pc = "idle"
    /\ app' = "kill" /\ client' = "dangling" /\ net' = "off"
    /\ Disconnected
    /\ UNCHANGED <<topicVars, bits, retry, dispatchVars>>

\* vTaskDelete(cb_task.task.handle), wherever the callback is.
Kill ==
    /\ app = "kill"
    /\ app' = "release"
    /\ item' = NoItem /\ Set("cb", NoCall)
    /\ UNCHANGED <<mem, size, mutex, client, net, bits, retry, handler, queue,
                   heap, came, brokerVars>>

\* The queue goes, with the copies in it; the topics and the count stay.
Release ==
    /\ app = "release"
    /\ app' = "idle" /\ client' = "null" /\ bits' = {}
    /\ mutex' = Free /\ queue' = <<>>
    /\ UNCHANGED <<mem, size, call, net, retry, handler, item, heap, came, brokerVars>>

Stop ==
    /\ AppFree /\ client = "made" /\ net # "off" /\ handler.pc = "idle"
    /\ net' = "off"
    /\ Disconnected
    /\ UNCHANGED <<topicVars, app, client, bits, retry, dispatchVars>>

\* esp_mqtt_client_start(), also of a client that connect() has not started.
Resume ==
    /\ AppFree /\ client \in {"half", "made"} /\ net = "off"
    /\ client' = "made" /\ net' = "trying"
    /\ UNCHANGED <<topicVars, app, bits, retry, dispatchVars, brokerVars>>

-----------------------------------------------------------------------------
SetStep(u) == \/ Take(u) \/ TakeTimesOut(u) \/ Unsubscribe(u)
              \/ Qsort(u) \/ Subscribe(u)
HandlerStep == \/ Find \/ FindTimesOut \/ CheckCallback \/ CopyData
               \/ Send \/ SendTimesOut
AppStep == WaitEnds \/ Destroy \/ Kill \/ Release

Next ==
    \/ \E u \in Callers : SetTopics(u) \/ SetStep(u) \/ UnsubscribeTopic(u)
    \/ Data \/ HandlerStep \/ Connected \/ Disconnect
    \/ Receive \/ Return \/ Panic
    \/ Connect \/ AppStep \/ Delete \/ DeleteNothing \/ DeleteByCallback
    \/ Stop \/ Resume

Spec == Init /\ [][Next]_vars

\* The calls into FreeRTOS and ESP-MQTT return, and the client goes on trying
\* to connect.  A callback need never return and the broker need never send.
FairSpec ==
    /\ Spec
    /\ \A u \in Callers : WF_vars(SetStep(u))
    /\ WF_vars(HandlerStep) /\ WF_vars(AppStep)
    /\ WF_vars(Connected \/ Disconnect)

-----------------------------------------------------------------------------
(* Properties.                                                             *)

\* The callback that is queued or runs is the one of the message's topic,
\* unless qsort() worked on the entry while the handler held a pointer to it
\* (mqtt.c:195-217).
CallbackOfTopic ==
    \A it \in {queue[k] : k \in 1 .. Len(queue)} \cup {item} :
        it # NoItem /\ ~it.moved => it.cb = it.topic

Owned ==
    (IF handler.pc = "send" THEN Copies(handler.msg)
     ELSE IF handler.pc # "idle" THEN {<<handler.msg, "topic">>} ELSE {})
    \cup (UNION {Copies(queue[k].msg) : k \in 1 .. Len(queue)})
    \cup (IF item = NoItem THEN {} ELSE Copies(item.msg))

\* Whoever is to use or free a copy has it live, and a copy is lost only when
\* the second malloc() of the handler fails, delete() ends the callback task and
\* its queue, or a callback's delete() ends it and connect() makes a new queue
\* (mqtt.c:189-228, 243, 324-325).
CopiesKept ==
    [][/\ Owned' \subseteq heap'
       /\ \/ (heap' \ Owned') \subseteq (heap \ Owned)
          \/ handler.pc = "copy" /\ handler'.pc = "idle"
          \/ app \in {"kill", "release"}
          \/ app = "idle" /\ "dangling" \in {client, client'}]_vars

\* After set_subscribed_topics() has returned 1 the broker has exactly the
\* topics of the array, until the connection is lost or a topic is
\* unsubscribed by name; unless a topic was left over from a call that had
\* returned 0 (docs/mqtt.md:54-63).
SubscribedAsSet == asSet => subs = Names

\* Callbacks run one at a time and in order, each message at most once
\* (docs/mqtt.md:34-40).
Dispatch == INSTANCE MessageDispatch
    WITH pending <- [k \in 1 .. Len(queue) |-> queue[k].msg]
                    \o (IF handler.pc = "idle" THEN <<>> ELSE <<handler.msg>>),
         active <- item.msg, newest <- came
ImplementsDispatch == Dispatch!Spec

\* The client's task always comes back from the event handler, also when the
\* callbacks block for ever, and connect() and delete() always return, but a
\* delete() that ends its caller.
NobodyWaitsForEver ==
    /\ handler.pc # "idle" ~> handler.pc = "idle"
    /\ app \notin {"idle", "gone"} ~> app = "idle"
=============================================================================
