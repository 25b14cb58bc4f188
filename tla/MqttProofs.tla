----------------------------- MODULE MqttProofs -----------------------------
(***************************************************************************)
(* The MQTT library, for any topics, any array, any length of the queue    *)
(* and any number of messages.                                             *)
(***************************************************************************)
EXTENDS Mqtt, SequenceTheorems, TLAPS

Held(u) == call[u].pc \in {"unsub", "sort", "sub"}

\* topics_mutex is held by the call that works on the array; the callback task
\* makes calls only from a callback, the application only between its other
\* calls.
Locked ==
    /\ \A u \in Callers : Held(u) => mutex = u /\ ~asSet
    /\ item = NoItem => call["cb"].pc = "idle"
    /\ app # "idle" => call["app"].pc = "idle"

\* Without a client that works nothing of the library runs, but the callback
\* task that delete() has not ended yet.
AtEnd ==
    /\ app \in {"kill", "release"} => client = "dangling"
    /\ client # "made" => handler.pc = "idle" /\ net = "off"
    /\ client # "made" /\ app # "kill" => item = NoItem
    /\ client \in {"null", "half"} => queue = <<>>

\* What the broker has while a call exchanges the array.
Exchanging ==
    \A u \in Callers :
        /\ call[u].pc = "unsub" /\ steady => subs \subseteq Names
        /\ call[u].pc \in {"sort", "sub"} /\ steady /\ call[u].res => subs = {}

\* What the handler holds; the entry is the one it found unless it was moved.
Holds ==
    handler.pc # "idle" =>
        /\ handler.msg = came /\ came \in Msgs /\ handler.topic \in Topics
        /\ handler.pc \in {"found", "copy"} =>
              /\ handler.pair \in Places
              /\ ~handler.moved => mem[handler.pair] = handler.topic
        /\ handler.pc = "copy" /\ ~handler.moved => handler.topic \notin Quiet
        /\ handler.pc = "send" /\ ~handler.moved => handler.cb = handler.topic

\* The messages that wait or run, in the order in which they came.
InTurn ==
    /\ \A j, k \in 1 .. Len(queue) : j < k => queue[j].msg < queue[k].msg
    /\ \A k \in 1 .. Len(queue) :
          queue[k].msg <= came /\ (handler.pc # "idle" => queue[k].msg < came)
    /\ item # NoItem =>
          /\ item.msg <= came /\ (handler.pc # "idle" => item.msg < came)
          /\ \A k \in 1 .. Len(queue) : item.msg < queue[k].msg

OwnedLive == Owned \subseteq heap

Base == TypeOK /\ Locked /\ AtEnd /\ Holds
IInv == Base /\ Exchanging /\ CallbackOfTopic /\ SubscribedAsSet /\ InTurn /\ OwnedLive

USE DEF None, Null, Places, Callers, Free, Msgs

LEMMA ArrayType == Array \in [Places -> Topics] /\ Len(Array) \in Nat
BY ArrayAssumption, LenProperties

LEMMA IdleType ==
    /\ Idle \in Handlers /\ Idle.pc = "idle" /\ Idle.msg = 0
    /\ NoItem.msg = 0
    /\ NoCall \in Calls /\ NoCall.pc = "idle"
BY ArrayType DEF Idle, Handlers, NoItem, NoCall, Calls

\* The changes that the steps make to a call and to the handler.
LEMMA CallType ==
    ASSUME NEW c \in Calls, NEW r \in BOOLEAN
    PROVE  /\ \A p \in {"unsub", "sub"} : [c EXCEPT !.pc = p] \in Calls
           /\ [c EXCEPT !.pc = "sort", !.res = r] \in Calls
           /\ c.len \in 0 .. Len(Array)
BY DEF Calls

LEMMA HandlerType ==
    ASSUME NEW h \in Handlers, NEW b \in BOOLEAN
    PROVE  /\ \A m \in Msgs, t \in Topics :
                 [Idle EXCEPT !.pc = "find", !.msg = m, !.topic = t] \in Handlers
           /\ \A i \in Places : [h EXCEPT !.pc = "found", !.pair = i] \in Handlers
           /\ [h EXCEPT !.moved = TRUE] \in Handlers
           /\ [h EXCEPT !.pc = "copy", !.moved = b] \in Handlers
           /\ \A t \in Topics \cup {Null} :
                 [h EXCEPT !.pc = "send", !.pair = 0, !.cb = t, !.moved = b] \in Handlers
           /\ h.moved \in BOOLEAN /\ h.msg \in Msgs \cup {None}
BY ArrayType DEF Handlers, Idle

LEMMA QueueItem ==
    ASSUME TypeOK, NEW k \in 1 .. Len(queue)
    PROVE  queue[k] \in Items /\ queue[k] # NoItem
<1>1. queue[k] \in Items
  BY ElementOfSeq DEF TypeOK
<1>2. \A it \in Items : it.msg # 0
  BY BoundsAssumption DEF Items
<1> QED
  BY <1>1, <1>2, IdleType

LEMMA InitIInv == Init => IInv
<1> SUFFICES ASSUME Init PROVE IInv
  OBVIOUS
<1>1. TypeOK
  <2>1. call \in [Callers -> Calls] /\ handler \in Handlers
    BY IdleType DEF Init
  <2>2. mem \in [Places -> Topics] /\ size \in 0 .. Len(Array)
    BY ArrayType DEF Init
  <2>3. queue \in Seq(Items) /\ Len(queue) <= QueueLen
    BY BoundsAssumption DEF Init
  <2>4. came \in 0 .. MaxMsgs /\ retry \in 0 .. Retry
    BY BoundsAssumption DEF Init
  <2>5. subs \subseteq Topics /\ bits = {} /\ heap = {}
    BY DEF Init
  <2> QED
    BY <2>1, <2>2, <2>3, <2>4, <2>5 DEF Init, TypeOK
<1>2. Locked /\ AtEnd /\ Holds /\ Exchanging
  BY DEF Init, Locked, Held, AtEnd, Holds, Exchanging, Idle, NoCall
<1>3. CallbackOfTopic /\ SubscribedAsSet /\ InTurn
  BY DEF Init, CallbackOfTopic, SubscribedAsSet, InTurn
<1>4. OwnedLive
  BY DEF Init, OwnedLive, Owned, Idle
<1> QED
  BY <1>1, <1>2, <1>3, <1>4 DEF IInv, Base

-----------------------------------------------------------------------------
(* The steps of set_subscribed_topics() and of the application.            *)

LEMMA TypeOfCalls ==
    ASSUME TypeOK, NEW u \in Callers,
           \/ SetTopics(u) \/ SetStep(u) \/ UnsubscribeTopic(u)
    PROVE  TypeOK'
<1> USE DEF topicVars, clientVars, dispatchVars, brokerVars, OnlyCall, Set
<1>1. call[u] \in Calls /\ \A c \in Calls : [call EXCEPT ![u] = c] \in [Callers -> Calls]
  BY DEF TypeOK
<1>2. CASE SetTopics(u)
  <2>1. \A len \in 1 .. Len(Array) : [pc |-> "take", len |-> len, res |-> TRUE] \in Calls
    BY ArrayType DEF Calls
  <2>2. call' \in [Callers -> Calls]
    BY <1>1, <1>2, <2>1 DEF SetTopics
  <2> QED
    BY <1>2, <2>2 DEF SetTopics, TypeOK
<1>3. CASE Take(u)
  <2>1. call' \in [Callers -> Calls]
    BY <1>1, <1>3, CallType DEF Take
  <2> QED
    BY <1>3, <2>1 DEF Take, TypeOK
<1>4. CASE TakeTimesOut(u)
  <2>1. call' \in [Callers -> Calls]
    BY <1>1, <1>4, IdleType DEF TakeTimesOut
  <2> QED
    BY <1>4, <2>1 DEF TakeTimesOut, TypeOK
<1>5. CASE Unsubscribe(u)
  <2>1. PICK did : /\ subs' = subs \ did
                   /\ Set(u, [call[u] EXCEPT !.pc = "sort", !.res = (did = Names)])
    BY <1>5 DEF Unsubscribe
  <2>2. (did = Names) \in BOOLEAN
    OBVIOUS
  <2>3. call' \in [Callers -> Calls] /\ call[u].len \in 0 .. Len(Array)
    BY <1>1, <2>1, <2>2, CallType
  <2> QED
    BY <1>5, <2>1, <2>3 DEF Unsubscribe, TypeOK
<1>6. CASE Qsort(u)
  <2>1. call' \in [Callers -> Calls]
    BY <1>1, <1>6, CallType DEF Qsort
  <2>2. handler' \in Handlers
    BY <1>6, HandlerType DEF Qsort, Moved, TypeOK
  <2> QED
    BY <1>6, <2>1, <2>2 DEF Qsort, TypeOK, SortsTo
<1>7. CASE Subscribe(u)
  <2>1. call' \in [Callers -> Calls]
    BY <1>1, <1>7, IdleType DEF Subscribe
  <2>2. Names \subseteq Topics
    BY DEF Names, TypeOK
  <2>3. PICK did \in SUBSET Names : subs' = subs \cup did /\ asSet' \in BOOLEAN
    BY <1>7, CallType, <1>1 DEF Subscribe, Requests
  <2> QED
    BY <1>7, <2>1, <2>2, <2>3 DEF Subscribe, TypeOK
<1>8. CASE UnsubscribeTopic(u)
  BY <1>8 DEF UnsubscribeTopic, TypeOK
<1> QED
  BY <1>2, <1>3, <1>4, <1>5, <1>6, <1>7, <1>8 DEF SetStep

LEMMA TypeOfHandler ==
    ASSUME TypeOK, Holds, Data \/ HandlerStep \/ Connected \/ Disconnect
    PROVE  TypeOK'
<1> USE DEF topicVars, clientVars, dispatchVars, brokerVars, OnlyHandler
<1>1. handler \in Handlers /\ Idle \in Handlers /\ heap \subseteq Msgs \X {"topic", "data"}
  BY IdleType DEF TypeOK
<1>2. Drop => handler' \in Handlers /\ heap' \subseteq Msgs \X {"topic", "data"}
  BY <1>1 DEF Drop
<1>3. CASE Data
  <2>1. came < MaxMsgs /\ came' = came + 1 /\ came \in 0 .. MaxMsgs
    BY <1>3 DEF Data, TypeOK
  <2>2. came' \in Msgs /\ came' \in 0 .. MaxMsgs
    BY <2>1, BoundsAssumption
  <2>3. /\ \/ \E t \in Topics :
                 handler' = [Idle EXCEPT !.pc = "find", !.msg = came', !.topic = t]
           \/ handler' = handler
        /\ heap' = heap \cup {<<came', "topic">>} \/ heap' = heap
    BY <1>3 DEF Data
  <2>4. handler' \in Handlers
    <3>1. \A m \in Msgs, t \in Topics :
             [Idle EXCEPT !.pc = "find", !.msg = m, !.topic = t] \in Handlers
      BY <1>1, HandlerType, Zenon
    <3> QED
      BY <1>1, <2>2, <2>3, <3>1, Zenon
  <2>5. heap' \subseteq Msgs \X {"topic", "data"}
    <3>1. \A m \in Msgs : <<m, "topic">> \in Msgs \X {"topic", "data"}
      OBVIOUS
    <3>2. <<came', "topic">> \in Msgs \X {"topic", "data"}
      BY <2>2, <3>1, Zenon
    <3> QED
      BY <1>1, <2>3, <3>2, Zenon
  <2>6. UNCHANGED <<topicVars, clientVars, brokerVars, queue, item>>
    BY <1>3 DEF Data
  <2> QED
    BY <2>2, <2>4, <2>5, <2>6 DEF TypeOK
<1>4. CASE Find
  <2>1. BSearch(handler.topic) \subseteq Places \cup {0}
    BY ArrayType DEF BSearch, TypeOK
  <2>4. PICK i \in Places \cup {0} :
           IF i = 0 THEN Drop
           ELSE handler' = [handler EXCEPT !.pc = "found", !.pair = i] /\ UNCHANGED heap
    BY <1>4, <2>1, Zenon DEF Find
  <2>2. handler' \in Handlers /\ heap' \subseteq Msgs \X {"topic", "data"}
    <3>1. CASE i = 0
      BY <1>2, <2>4, <3>1, Zenon
    <3>2. CASE i \in Places /\ i # 0
      BY <1>1, <2>4, <3>2, HandlerType, Zenon
    <3> QED
      BY <3>1, <3>2
  <2>3. UNCHANGED <<topicVars, clientVars, brokerVars, item, came, queue>>
    BY <1>4 DEF Find
  <2> QED
    BY <2>2, <2>3 DEF TypeOK
<1>5. CASE FindTimesOut
  BY <1>2, <1>5 DEF FindTimesOut, TypeOK
<1>6. CASE CheckCallback
  <2>1. (handler.moved \/ Sorting) \in BOOLEAN
    OBVIOUS
  <2>2. handler' \in Handlers /\ heap' \subseteq Msgs \X {"topic", "data"}
    BY <1>1, <1>2, <1>6, <2>1, HandlerType DEF CheckCallback
  <2> QED
    BY <1>6, <2>2 DEF CheckCallback, TypeOK
<1>7. CASE CopyData
  <2>1. (handler.moved \/ Sorting) \in BOOLEAN
    OBVIOUS
  <2>6. handler.msg \in Msgs /\ handler.pair \in Places
    BY <1>7 DEF CopyData, Holds
  <2>7. {mem[i] : i \in 1 .. size} \subseteq Topics /\ mem[handler.pair] \in Topics
    BY <2>6, ArrayType DEF TypeOK
  <2>2. Entry \subseteq Topics /\ handler.msg \in Msgs
    BY <2>6, <2>7 DEF Entry
  <2>3. \A t \in Entry : Callback(t) \in Topics \cup {Null}
    BY <2>2 DEF Callback
  <2>4. Copies(handler.msg) \subseteq Msgs \X {"topic", "data"}
    BY <2>2 DEF Copies
  <2>5. handler' \in Handlers
    <3>1. CASE handler' = Idle
      BY <1>1, <3>1
    <3>2. CASE \E t \in Entry :
                  handler' = [handler EXCEPT !.pc = "send", !.pair = 0, !.cb = Callback(t),
                                             !.moved = @ \/ Sorting]
      <4> DEFINE b == handler.moved \/ Sorting
      <4>1. b \in BOOLEAN
        OBVIOUS
      <4> HIDE DEF b
      <4>2. \A t \in Topics \cup {Null} :
               [handler EXCEPT !.pc = "send", !.pair = 0, !.cb = t, !.moved = b] \in Handlers
        BY <1>1, <4>1, HandlerType, Zenon
      <4>3. PICK t \in Entry :
               handler' = [handler EXCEPT !.pc = "send", !.pair = 0, !.cb = Callback(t),
                                          !.moved = b]
        BY <3>2, Zenon DEF b
      <4> QED
        BY <2>3, <4>2, <4>3, Zenon
    <3> QED
      BY <1>7, <3>1, <3>2 DEF CopyData
  <2>8. heap' \subseteq Msgs \X {"topic", "data"}
    <3>1. heap \subseteq Msgs \X {"topic", "data"}
      BY DEF TypeOK
    <3>2. heap' = heap \cup Copies(handler.msg) \/ heap' = heap
      BY <1>7 DEF CopyData
    <3> QED
      BY <2>4, <3>1, <3>2, Zenon
  <2>9. UNCHANGED <<topicVars, clientVars, brokerVars, item, came, queue>>
    BY <1>7 DEF CopyData
  <2> QED
    BY <2>5, <2>8, <2>9 DEF TypeOK
<1>8. CASE Send
  <2>1. ItemOf(handler) \in Items
    BY <1>8 DEF Send, TypeOK, Holds, Handlers, ItemOf, Items
  <2>2. queue' \in Seq(Items) /\ Len(queue') = Len(queue) + 1
    BY <1>8, <2>1, AppendProperties DEF Send, TypeOK
  <2>3. Len(queue') <= QueueLen
    BY <1>8, <2>2, BoundsAssumption, LenProperties DEF Send, TypeOK
  <2> QED
    BY <1>1, <1>8, <2>2, <2>3 DEF Send, TypeOK
<1>9. CASE SendTimesOut
  BY <1>2, <1>9 DEF SendTimesOut, TypeOK
<1>10. CASE Connected
  BY <1>10 DEF Connected, TypeOK
<1>11. CASE Disconnect
  <2>1. bits' \subseteq {"connected", "fail"} /\ subs' \subseteq Topics
    BY <1>11 DEF Disconnect, Disconnected, TypeOK
  <2>2. retry' \in 0 .. Retry
    BY <1>11, BoundsAssumption DEF Disconnect, TypeOK
  <2> QED
    BY <1>11, <2>1, <2>2 DEF Disconnect, Disconnected, TypeOK
<1> QED
  BY <1>3, <1>4, <1>5, <1>6, <1>7, <1>8, <1>9, <1>10, <1>11 DEF HandlerStep

LEMMA TypeOfRest ==
    ASSUME TypeOK,
           \/ Receive \/ Return \/ Panic \/ Connect \/ AppStep
           \/ Delete \/ DeleteNothing \/ DeleteByCallback
           \/ Stop \/ Resume \/ UNCHANGED vars
    PROVE  TypeOK'
<1> USE DEF topicVars, clientVars, dispatchVars, brokerVars, Set, Disconnected
<1>1. CASE Receive
  <2>1. /\ queue \in Seq(Items) /\ queue # <<>> /\ Len(queue) \in Nat
        /\ item' = Head(queue) /\ queue' = Tail(queue)
    BY <1>1, LenProperties DEF Receive, TypeOK
  <2>2. /\ Head(queue) \in Items /\ Tail(queue) \in Seq(Items)
        /\ Len(Tail(queue)) = Len(queue) - 1
    BY <2>1, HeadTailProperties, Zenon
  <2>3. Len(queue') <= QueueLen
    BY <2>1, <2>2, BoundsAssumption DEF TypeOK
  <2> QED
    BY <1>1, <2>1, <2>2, <2>3 DEF Receive, TypeOK
<1>2. CASE Return
  BY <1>2 DEF Return, TypeOK
<1>3. CASE Panic
  <2>1. call' \in [Callers -> Calls] /\ handler' \in Handlers
    BY <1>3, IdleType DEF Panic
  <2>2. /\ mem' \in [Places -> Topics] /\ size' \in 0 .. Len(Array)
        /\ queue' \in Seq(Items) /\ Len(queue') <= QueueLen
    BY <1>3, ArrayType, BoundsAssumption DEF Panic
  <2>3. retry' \in 0 .. Retry /\ came' \in 0 .. MaxMsgs
    BY <1>3, BoundsAssumption DEF Panic, TypeOK
  <2>4. /\ bits' \subseteq {"connected", "fail"} /\ heap' \subseteq Msgs \X {"topic", "data"}
        /\ subs' \subseteq Topics
    BY <1>3 DEF Panic
  <2> QED
    BY <1>3, <2>1, <2>2, <2>3, <2>4 DEF Panic, TypeOK
<1>4. CASE Connect
  <2>1. queue' \in Seq(Items) /\ Len(queue') <= QueueLen
    BY <1>4, BoundsAssumption DEF Connect
  <2> QED
    BY <1>4, <2>1 DEF Connect, TypeOK
<1>5. CASE AppStep
  <2>1. CASE WaitEnds \/ Destroy
    BY <1>5, <2>1 DEF WaitEnds, Destroy, TypeOK
  <2>2. CASE Kill
    <3>1. call' \in [Callers -> Calls]
      BY <2>2, IdleType DEF Kill, TypeOK
    <3> QED
      BY <2>2, <3>1 DEF Kill, TypeOK
  <2>3. CASE Release
    <3>1. queue' \in Seq(Items) /\ Len(queue') <= QueueLen
      BY <2>3, BoundsAssumption DEF Release
    <3> QED
      BY <2>3, <3>1 DEF Release, TypeOK
  <2> QED
    BY <1>5, <2>1, <2>2, <2>3 DEF AppStep
<1>6. CASE Delete \/ DeleteNothing \/ DeleteByCallback \/ Stop \/ Resume
  <2>1. CASE Delete \/ DeleteNothing
    BY <2>1 DEF Delete, DeleteNothing, TypeOK
  <2>2. CASE DeleteByCallback
    BY <2>2 DEF DeleteByCallback, TypeOK
  <2>3. CASE Stop \/ Resume
    BY <2>3 DEF Stop, Resume, TypeOK
  <2> QED
    BY <1>6, <2>1, <2>2, <2>3
<1>7. CASE UNCHANGED vars
  BY <1>7 DEF vars, TypeOK
<1> QED
  BY <1>1, <1>2, <1>3, <1>4, <1>5, <1>6, <1>7

LEMMA TypeStep == Base /\ [Next]_vars => TypeOK'
<1> SUFFICES ASSUME Base, [Next]_vars PROVE TypeOK'
  OBVIOUS
<1>1. TypeOK /\ Holds
  BY DEF Base
<1>2. ASSUME NEW u \in Callers, SetTopics(u) \/ SetStep(u) \/ UnsubscribeTopic(u)
      PROVE  TypeOK'
  BY <1>1, <1>2, TypeOfCalls
<1>3. CASE Data \/ HandlerStep \/ Connected \/ Disconnect
  BY <1>1, <1>3, TypeOfHandler
<1>4. CASE \/ Receive \/ Return \/ Panic \/ Connect \/ AppStep
           \/ Delete \/ DeleteNothing \/ DeleteByCallback
           \/ Stop \/ Resume \/ UNCHANGED vars
  BY <1>1, <1>4, TypeOfRest
<1> QED
  BY <1>2, <1>3, <1>4 DEF Next

-----------------------------------------------------------------------------
(* The mutex and the parts of the library that are at rest.                *)

\* A step of set_subscribed_topics(): only its own caller moves.
LEMMA OwnCall ==
    ASSUME TypeOK, NEW u \in Callers, SetTopics(u) \/ SetStep(u)
    PROVE  /\ \A v \in Callers \ {u} : call'[v] = call[v]
           /\ SetTopics(u) => call'[u].pc = "take"
           /\ Take(u) => call'[u].pc = "unsub"
           /\ Unsubscribe(u) => call'[u].pc = "sort"
           /\ Qsort(u) => call'[u].pc = "sub" /\ call'[u].res = call[u].res
           /\ TakeTimesOut(u) \/ Subscribe(u) => call'[u].pc = "idle"
<1>1. /\ \A c : Set(u, c) => call'[u] = c /\ \A v \in Callers \ {u} : call'[v] = call[v]
      /\ call[u] \in Calls
  BY DEF Set, TypeOK
<1>3. \A c \in Calls : \A r : [c EXCEPT !.pc = "sort", !.res = r].pc = "sort"
  BY DEF Calls
<1>4. \E c : Set(u, c)
  BY DEF SetTopics, SetStep, Take, TakeTimesOut, Unsubscribe, Qsort, Subscribe
<1>5. SetTopics(u) => call'[u].pc = "take"
  BY <1>1 DEF SetTopics
<1>6. /\ Take(u) => call'[u].pc = "unsub"
      /\ Qsort(u) => call'[u].pc = "sub" /\ call'[u].res = call[u].res
  <2>1. Take(u) => call'[u] = [call[u] EXCEPT !.pc = "unsub"]
    BY <1>1, Zenon DEF Take
  <2>2. Qsort(u) => call'[u] = [call[u] EXCEPT !.pc = "sub"]
    BY <1>1, Zenon DEF Qsort
  <2> QED
    BY <1>1, <2>1, <2>2 DEF Calls
<1>7. Unsubscribe(u) => call'[u].pc = "sort"
  <2>1. Unsubscribe(u) => \E r : call'[u] = [call[u] EXCEPT !.pc = "sort", !.res = r]
    BY <1>1, Zenon DEF Unsubscribe
  <2>2. call[u] \in Calls
    BY <1>1
  <2> QED
    BY <1>3, <2>1, <2>2, Zenon
<1>8. TakeTimesOut(u) \/ Subscribe(u) => call'[u].pc = "idle"
  BY <1>1, IdleType DEF TakeTimesOut, Subscribe
<1> QED
  BY <1>1, <1>4, <1>5, <1>6, <1>7, <1>8

LEMMA LockedStep == Base /\ [Next]_vars => Locked'
<1> SUFFICES ASSUME Base, [Next]_vars PROVE Locked'
  OBVIOUS
<1> USE DEF Base, topicVars, clientVars, dispatchVars, brokerVars
<1>1. ASSUME NEW u \in Callers, SetTopics(u) PROVE Locked'
  <2>1. u = "cb" => item # NoItem
    BY <1>1, IdleType DEF SetTopics, InUse
  <2>2. u = "app" => app = "idle"
    BY <1>1 DEF SetTopics, InUse
  <2> QED
    BY <1>1, <2>1, <2>2, OwnCall DEF SetTopics, OnlyCall, Locked, Held
<1>2. ASSUME NEW u \in Callers, SetStep(u) PROVE Locked'
  <2>1. call[u].pc # "idle"
    BY <1>2 DEF SetStep, Take, TakeTimesOut, Unsubscribe, Qsort, Subscribe
  <2>2. /\ UNCHANGED <<clientVars, item>>
        /\ \A v \in Callers \ {u} : call'[v] = call[v]
    BY <1>2, OwnCall
       DEF SetStep, Take, TakeTimesOut, Unsubscribe, Qsort, Subscribe, OnlyCall
  <2>3. CASE Take(u)
    BY <2>1, <2>2, <2>3, OwnCall DEF Take, Locked, Held, SetStep
  <2>4. CASE TakeTimesOut(u)
    BY <2>1, <2>2, <2>4, OwnCall DEF TakeTimesOut, Locked, Held, SetStep
  <2>5. CASE Unsubscribe(u)
    BY <2>1, <2>2, <2>5, OwnCall DEF Unsubscribe, Locked, Held, SetStep
  <2>6. CASE Qsort(u)
    BY <2>1, <2>2, <2>6, OwnCall DEF Qsort, Locked, Held, SetStep
  <2>7. CASE Subscribe(u)
    BY <2>1, <2>2, <2>7, OwnCall DEF Subscribe, Locked, Held, SetStep
  <2> QED
    BY <1>2, <2>3, <2>4, <2>5, <2>6, <2>7 DEF SetStep
<1>3. ASSUME NEW u \in Callers, UnsubscribeTopic(u) PROVE Locked'
  BY <1>3 DEF UnsubscribeTopic, OnlyCall, Locked, Held
<1>4. CASE Data \/ HandlerStep
  <2>1. UNCHANGED <<mutex, call, asSet, item, app>>
    BY <1>4 DEF Data, HandlerStep, Find, FindTimesOut, CheckCallback, CopyData, Send,
                SendTimesOut, OnlyHandler
  <2> QED
    BY <2>1 DEF Locked, Held
<1>5. CASE Connected \/ Disconnect \/ Stop \/ Resume \/ UNCHANGED vars
  BY <1>5 DEF Connected, Disconnect, Stop, Resume, Disconnected, vars, Locked, Held
<1>6. CASE Receive
  BY <1>6 DEF Receive, Locked, Held
<1>7. CASE Return
  BY <1>7 DEF Return, Locked, Held
<1>8. CASE Panic
  BY <1>8, IdleType DEF Panic, Disconnected, Locked, Held
<1>9. CASE Connect \/ Delete \/ DeleteNothing \/ DeleteByCallback
  BY <1>9 DEF Connect, Delete, DeleteNothing, DeleteByCallback, Disconnected, AppFree,
              Locked, Held
<1>10. CASE WaitEnds \/ Destroy
  BY <1>10 DEF WaitEnds, Destroy, Disconnected, Locked, Held
<1>11. CASE Kill
  BY <1>11, IdleType DEF Kill, Set, TypeOK, Locked, Held
<1>12. CASE Release
  <2>1. call["app"].pc = "idle" /\ call["cb"].pc = "idle"
    BY <1>12 DEF Release, Locked, AtEnd
  <2> QED
    BY <1>12, <2>1 DEF Release, Locked, Held
<1> QED
  BY <1>1, <1>2, <1>3, <1>4, <1>5, <1>6, <1>7, <1>8, <1>9, <1>10, <1>11, <1>12
     DEF Next, AppStep

LEMMA AtEndStep == Base /\ [Next]_vars => AtEnd'
<1> SUFFICES ASSUME Base, [Next]_vars PROVE AtEnd'
  OBVIOUS
<1> USE DEF Base, topicVars, clientVars, dispatchVars, brokerVars
<1>1. ASSUME NEW u \in Callers, SetTopics(u) \/ SetStep(u) \/ UnsubscribeTopic(u)
      PROVE  AtEnd'
  <2>1. UNCHANGED <<app, client, net, item, queue>>
    BY <1>1 DEF SetTopics, SetStep, Take, TakeTimesOut, Unsubscribe, Qsort, Subscribe,
                UnsubscribeTopic, OnlyCall
  <2>2. handler'.pc = handler.pc
    BY <1>1 DEF SetTopics, SetStep, Take, TakeTimesOut, Unsubscribe, Qsort, Subscribe,
                UnsubscribeTopic, OnlyCall, Moved, TypeOK, Handlers
  <2> QED
    BY <2>1, <2>2 DEF AtEnd
<1>2. CASE Data \/ HandlerStep \/ Receive \/ Return
  <2>1. Data => net = "up"
    BY DEF Data
  <2>2. HandlerStep => handler.pc # "idle"
    BY DEF HandlerStep, Find, FindTimesOut, CheckCallback, CopyData, Send, SendTimesOut
  <2>3. UNCHANGED clientVars /\ (Data \/ HandlerStep => item' = item)
    BY <1>2 DEF Data, HandlerStep, Find, FindTimesOut, CheckCallback, CopyData, Send,
                SendTimesOut, OnlyHandler, Receive, Return
  <2>4. Receive => (client = "made" \/ app = "kill") /\ handler' = handler
                   /\ queue # <<>>
    BY DEF Receive
  <2>5. Return => item' = NoItem /\ UNCHANGED <<handler, queue>>
    BY DEF Return
  <2>6. CASE client = "made"
    BY <2>3, <2>6 DEF AtEnd
  <2>7. CASE client # "made"
    BY <1>2, <2>1, <2>2, <2>3, <2>4, <2>5, <2>7 DEF AtEnd, TypeOK
  <2> QED
    BY <2>6, <2>7
<1>3. CASE Connected \/ Disconnect \/ UNCHANGED vars
  BY <1>3 DEF Connected, Disconnect, vars, AtEnd
<1>4. CASE Panic \/ Connect \/ Delete \/ DeleteNothing \/ DeleteByCallback \/ Stop \/ Resume
  BY <1>4, IdleType DEF Panic, Connect, Delete, DeleteNothing, DeleteByCallback, Stop, Resume,
                        AppFree, AtEnd
<1>5. CASE AppStep
  BY <1>5 DEF AppStep, WaitEnds, Destroy, Kill, Release, AtEnd
<1> QED
  BY <1>1, <1>2, <1>3, <1>4, <1>5 DEF Next

-----------------------------------------------------------------------------
(* The entry that the handler has found, and the callback it takes from it. *)

LEMMA HoldsStep == Base /\ [Next]_vars => Holds'
<1> SUFFICES ASSUME Base, [Next]_vars PROVE Holds'
  OBVIOUS
<1> USE DEF Base, topicVars, clientVars, dispatchVars, brokerVars
<1> USE BoundsAssumption
<1>1. ASSUME NEW u \in Callers, Qsort(u) PROVE Holds'
  <2>1. handler' = IF handler.pair \in 1 .. size
                   THEN [handler EXCEPT !.moved = TRUE] ELSE handler
    BY <1>1 DEF Qsort, Moved
  <2>2. came' = came /\ \A i \in Places : i > size => mem'[i] = mem[i]
    BY <1>1 DEF Qsort, SortsTo
  <2>3. CASE handler.pair \in 1 .. size
    <3>1. /\ handler'.pc = handler.pc /\ handler'.msg = handler.msg
          /\ handler'.topic = handler.topic /\ handler'.pair = handler.pair
          /\ handler'.moved = TRUE
      BY <2>1, <2>3 DEF TypeOK, Handlers
    <3> QED
      BY <2>2, <3>1 DEF Holds
  <2>4. CASE handler.pair \notin 1 .. size
    <3>1. handler' = handler
      BY <2>1, <2>4
    <3>2. handler.pair \in Places => mem'[handler.pair] = mem[handler.pair]
      BY <2>2, <2>4, ArrayType DEF TypeOK
    <3> QED
      BY <2>2, <3>1, <3>2 DEF Holds
  <2> QED
    BY <2>3, <2>4
<1>2. ASSUME NEW u \in Callers, 
             \/ SetTopics(u) \/ Take(u) \/ TakeTimesOut(u) \/ Unsubscribe(u)
             \/ Subscribe(u) \/ UnsubscribeTopic(u)
      PROVE  Holds'
  <2>1. UNCHANGED <<handler, came, mem>>
    BY <1>2 DEF SetTopics, Take, TakeTimesOut, Unsubscribe, Subscribe, UnsubscribeTopic,
                OnlyCall
  <2> QED
    BY <2>1 DEF Holds
<1>3. CASE handler'.pc = "idle"
  BY <1>3 DEF Holds
<1>4. CASE Data
  <2>1. came < MaxMsgs /\ came' = came + 1 /\ came \in 0 .. MaxMsgs
    BY <1>4 DEF Data, TypeOK
  <2>2. came' \in Msgs
    BY <2>1
  <2>3. CASE handler' = handler
    BY <1>4, <2>3, <1>3 DEF Data
  <2>4. ASSUME NEW t \in Topics,
               handler' = [Idle EXCEPT !.pc = "find", !.msg = came', !.topic = t]
        PROVE  Holds'
    <3>1. handler'.pc = "find" /\ handler'.msg = came' /\ handler'.topic = t
      BY <2>4 DEF Idle
    <3> QED
      BY <2>2, <3>1 DEF Holds
  <2> QED
    BY <1>4, <2>3, <2>4 DEF Data
<1>5. CASE FindTimesOut \/ Send \/ SendTimesOut
  BY <1>3, <1>5, IdleType DEF FindTimesOut, Send, SendTimesOut, Drop
<1>6. CASE Find
  <2>1. CASE Drop
    BY <1>3, <2>1, IdleType DEF Drop
  <2>2. ASSUME NEW i \in BSearch(handler.topic), i # 0,
               handler' = [handler EXCEPT !.pc = "found", !.pair = i]
        PROVE  Holds'
    <3>1. i \in Places /\ mem[i] = handler.topic
      BY <2>2, ArrayType DEF BSearch, TypeOK
    <3>2. /\ handler'.pc = "found" /\ handler'.pair = i
          /\ handler'.msg = handler.msg /\ handler'.topic = handler.topic
      BY <2>2 DEF TypeOK, Handlers
    <3>3. handler.pc = "find" /\ UNCHANGED <<mem, came>>
      BY <1>6 DEF Find, OnlyHandler
    <3> QED
      BY <3>1, <3>2, <3>3 DEF Holds
  <2> QED
    BY <1>6, <2>1, <2>2 DEF Find
<1>7. CASE CheckCallback
  <2>1. CASE Drop
    BY <1>3, <2>1, IdleType DEF Drop
  <2>2. ASSUME NEW t \in Entry, Callback(t) # Null,
               handler' = [handler EXCEPT !.pc = "copy", !.moved = @ \/ Sorting]
        PROVE  Holds'
    <3>1. /\ handler'.pc = "copy" /\ handler'.pair = handler.pair
          /\ handler'.msg = handler.msg /\ handler'.topic = handler.topic
          /\ handler'.moved = (handler.moved \/ Sorting)
      BY <2>2 DEF TypeOK, Handlers
    <3>2. handler.pc = "found" /\ UNCHANGED <<mem, came>>
      BY <1>7 DEF CheckCallback, OnlyHandler
    <3>3. ~handler'.moved => handler.topic \notin Quiet
      BY <2>2, <3>1, <3>2 DEF Entry, Callback, Holds
    <3> QED
      BY <3>1, <3>2, <3>3 DEF Holds
  <2> QED
    BY <1>7, <2>1, <2>2 DEF CheckCallback
<1>8. CASE CopyData
  <2>1. CASE handler' = Idle
    BY <1>3, <2>1, IdleType
  <2>2. ASSUME NEW t \in Entry,
               handler' = [handler EXCEPT !.pc = "send", !.pair = 0,
                                          !.cb = Callback(t), !.moved = @ \/ Sorting]
        PROVE  Holds'
    <3>1. /\ handler'.pc = "send" /\ handler'.cb = Callback(t)
          /\ handler'.msg = handler.msg /\ handler'.topic = handler.topic
          /\ handler'.moved = (handler.moved \/ Sorting)
      BY <2>2 DEF TypeOK, Handlers
    <3>2. handler.pc = "copy" /\ UNCHANGED <<mem, came>>
      BY <1>8 DEF CopyData, OnlyHandler
    <3>3. ~handler'.moved => handler'.cb = handler.topic
      BY <2>2, <3>1, <3>2 DEF Entry, Callback, Holds
    <3> QED
      BY <3>1, <3>2, <3>3 DEF Holds
  <2> QED
    BY <1>8, <2>1, <2>2 DEF CopyData
<1>9. CASE Panic
  BY <1>3, <1>9, IdleType DEF Panic
<1>10. CASE \/ Connected \/ Disconnect \/ Receive \/ Return \/ Connect \/ AppStep
            \/ Delete \/ DeleteNothing \/ DeleteByCallback \/ Stop \/ Resume \/ UNCHANGED vars
  <2>1. UNCHANGED <<handler, came, mem>>
    BY <1>10 DEF Connected, Disconnect, Receive, Return, Connect, AppStep, WaitEnds,
                 Destroy, Kill, Release, Delete, DeleteNothing, DeleteByCallback, Stop, Resume, vars
  <2> QED
    BY <2>1 DEF Holds
<1> QED
  BY <1>1, <1>2, <1>4, <1>5, <1>6, <1>7, <1>8, <1>9, <1>10 DEF Next, SetStep, HandlerStep

LEMMA BaseStep == Base /\ [Next]_vars => Base'
BY TypeStep, LockedStep, AtEndStep, HoldsStep DEF Base

\* What waits or runs keeps the callback it was queued with.
LEMMA CallbackStep == Base /\ CallbackOfTopic /\ [Next]_vars => CallbackOfTopic'
<1> SUFFICES ASSUME Base, CallbackOfTopic, [Next]_vars PROVE CallbackOfTopic'
  OBVIOUS
<1> DEFINE Queued == {queue[k] : k \in 1 .. Len(queue)}
           Good(it) == it # NoItem /\ ~it.moved => it.cb = it.topic
<1>1. \A it \in Queued \cup {item} : Good(it)
  BY DEF CallbackOfTopic
<1>2. SUFFICES \A it \in Queued' \cup {item'} : Good(it)
  BY DEF CallbackOfTopic
<1>3. Good(NoItem)
  OBVIOUS
<1> HIDE DEF Good
<1>4. CASE Send
  <2>1. handler.pc = "send" /\ queue' = Append(queue, ItemOf(handler)) /\ item' = item
    BY <1>4 DEF Send, OnlyHandler
  <2>2. Good(ItemOf(handler))
    BY <2>1 DEF Good, ItemOf, Base, Holds
  <2>3. ItemOf(handler) \in Items
    BY <2>1 DEF Base, TypeOK, Holds, Handlers, ItemOf, Items
  <2>4. Queued' \subseteq Queued \cup {ItemOf(handler)}
    <3> DEFINE it == ItemOf(handler)
    <3> HIDE DEF it
    <3>1. /\ it \in Items /\ queue' = Append(queue, it)
          /\ queue \in Seq(Items) /\ Len(queue) \in Nat
      BY <2>1, <2>3, LenProperties DEF it, Base, TypeOK
    <3>2. /\ Len(queue') = Len(queue) + 1
          /\ \A k \in 1 .. Len(queue) : queue'[k] = queue[k]
          /\ queue'[Len(queue) + 1] = it
      BY <3>1, AppendProperties
    <3> QED
      BY <3>1, <3>2 DEF it
  <2> QED
    BY <1>1, <2>1, <2>2, <2>4
<1>5. CASE Receive
  <2>1. /\ queue \in Seq(Items) /\ queue # <<>>
        /\ item' = Head(queue) /\ queue' = Tail(queue)
    BY <1>5 DEF Receive, Base, TypeOK
  <2>2. /\ Len(queue) \in Nat \ {0} /\ Head(queue) = queue[1]
        /\ Len(queue') = Len(queue) - 1
        /\ \A k \in 1 .. Len(queue') : queue'[k] = queue[k + 1]
    BY <2>1, EmptySeq, HeadTailProperties
  <2>3. item' \in Queued /\ Queued' \subseteq Queued
    BY <2>1, <2>2
  <2> QED
    BY <1>1, <2>3
<1>6. CASE Panic \/ Release \/ Connect
  <2>1. queue' = <<>> /\ item' \in {item, NoItem}
    BY <1>6 DEF Panic, Release, Connect
  <2>2. Queued' = {}
    BY <2>1
  <2> QED
    BY <1>1, <1>3, <2>1, <2>2
<1>7. CASE Return \/ Kill \/ DeleteByCallback
  BY <1>1, <1>3, <1>7 DEF Return, Kill, DeleteByCallback
<1>8. CASE UNCHANGED <<queue, item>>
  BY <1>1, <1>8
<1>9. ASSUME NEW u \in Callers, SetTopics(u) \/ SetStep(u) \/ UnsubscribeTopic(u)
      PROVE  UNCHANGED <<queue, item>>
  BY <1>9 DEF SetTopics, SetStep, Take, TakeTimesOut, Unsubscribe, Qsort, Subscribe,
              UnsubscribeTopic, OnlyCall, dispatchVars
<1>10. CASE \/ Data \/ Find \/ FindTimesOut \/ CheckCallback \/ CopyData \/ SendTimesOut
            \/ Connected \/ Disconnect \/ WaitEnds \/ Destroy
            \/ Delete \/ DeleteNothing \/ Stop \/ Resume \/ UNCHANGED vars
  <2>1. UNCHANGED <<queue, item>>
    BY <1>10 DEF Data, Find, FindTimesOut, CheckCallback, CopyData, SendTimesOut,
                 OnlyHandler, Connected, Disconnect, WaitEnds, Destroy,
                 Delete, DeleteNothing, Stop, Resume, vars, dispatchVars
  <2> QED
    BY <1>8, <2>1
<1> QED
  BY <1>4, <1>5, <1>6, <1>7, <1>8, <1>9, <1>10 DEF Next, HandlerStep, AppStep

-----------------------------------------------------------------------------
(* The subscriptions at the broker.                                        *)

Agreed == Exchanging /\ SubscribedAsSet

\* A step that leaves the calls and the array alone, or ends what was agreed.
LEMMA BrokerKept ==
    ASSUME Agreed, UNCHANGED <<mem, size, call, subs, asSet>>, steady' => steady
    PROVE  Agreed'
<1>1. Names' = Names /\ (steady' => steady)
  BY DEF Names
<1>2. Exchanging'
  BY <1>1 DEF Agreed, Exchanging
<1> QED
  BY <1>1, <1>2 DEF Agreed, SubscribedAsSet

LEMMA BrokerForgets ==
    ASSUME ~steady', ~asSet'
    PROVE  Agreed'
BY DEF Agreed, Exchanging, SubscribedAsSet

LEMMA AgreedStep == Base /\ Agreed /\ [Next]_vars => Agreed'
<1> SUFFICES ASSUME Base, Agreed, [Next]_vars PROVE Agreed'
  OBVIOUS
<1> USE DEF topicVars, clientVars, dispatchVars, brokerVars
<1>0. TypeOK /\ Locked /\ AtEnd
  BY DEF Base
<1>1. ASSUME NEW u \in Callers, SetTopics(u) \/ TakeTimesOut(u) PROVE Agreed'
  <2>1. call'[u].pc \in {"take", "idle"} /\ \A v \in Callers \ {u} : call'[v] = call[v]
    BY <1>0, <1>1, OwnCall DEF SetStep
  <2>2. UNCHANGED <<mem, size, subs, steady, asSet>>
    BY <1>1 DEF SetTopics, TakeTimesOut
  <2> QED
    BY <2>1, <2>2 DEF Agreed, Exchanging, SubscribedAsSet, Names
<1>2. ASSUME NEW u \in Callers, Take(u) PROVE Agreed'
  <2>1. /\ mutex = Free /\ steady' = (net = "up" /\ subs \subseteq Names) /\ asSet' = FALSE
        /\ UNCHANGED <<mem, size, subs>>
    BY <1>2 DEF Take
  <2>2. call'[u].pc = "unsub" /\ \A v \in Callers \ {u} : call'[v] = call[v]
    BY <1>0, <1>2, OwnCall DEF SetStep
  <2>3. \A v \in Callers : call[v].pc \notin {"unsub", "sort", "sub"}
    BY <1>0, <2>1 DEF Locked, Held
  <2>4. Names' = Names
    BY <2>1 DEF Names
  <2> QED
    BY <2>1, <2>2, <2>3, <2>4 DEF Agreed, Exchanging, SubscribedAsSet
<1>3. ASSUME NEW u \in Callers, Unsubscribe(u) PROVE Agreed'
  <2>1. PICK did \in Requests(Names) :
           /\ subs' = subs \ did
           /\ Set(u, [call[u] EXCEPT !.pc = "sort", !.res = (did = Names)])
    BY <1>3 DEF Unsubscribe
  <2>2. /\ call[u].pc = "unsub" /\ mutex = u /\ ~asSet /\ asSet' = asSet /\ steady' = steady
    BY <1>0, <1>3 DEF Unsubscribe, Locked, Held
  <2>3. \A v \in Callers \ {u} : call'[v] = call[v] /\ ~Held(v)
    BY <1>0, <1>3, <2>2, OwnCall DEF SetStep, Locked
  <2>4. call'[u].pc = "sort" /\ call'[u].res = (did = Names)
    BY <1>0, <2>1 DEF Set, TypeOK, Calls
  <2>5. steady /\ did = Names => subs' = {}
    BY <2>1, <2>2 DEF Agreed, Exchanging
  <2> QED
    BY <2>2, <2>3, <2>4, <2>5 DEF Agreed, Exchanging, SubscribedAsSet, Held
<1>4. ASSUME NEW u \in Callers, Qsort(u) PROVE Agreed'
  <2>1. /\ call[u].pc = "sort" /\ mutex = u /\ ~asSet
        /\ UNCHANGED <<subs, steady, asSet>>
    BY <1>0, <1>4 DEF Qsort, Locked, Held
  <2>2. \A v \in Callers \ {u} : call'[v] = call[v] /\ ~Held(v)
    BY <1>0, <1>4, <2>1, OwnCall DEF SetStep, Locked
  <2>3. call'[u].pc = "sub" /\ call'[u].res = call[u].res
    BY <1>0, <1>4, OwnCall DEF SetStep
  <2> QED
    BY <2>1, <2>2, <2>3 DEF Agreed, Exchanging, SubscribedAsSet, Held
<1>5. ASSUME NEW u \in Callers, Subscribe(u) PROVE Agreed'
  <2>1. PICK did \in Requests(Names) :
           /\ subs' = subs \cup did
           /\ asSet' = (call[u].res /\ did = Names /\ steady)
    BY <1>5 DEF Subscribe
  <2>2. call[u].pc = "sub" /\ ~steady' /\ Names' = Names
    BY <1>5 DEF Subscribe, Names
  <2>3. asSet' => subs' = Names'
    BY <2>1, <2>2 DEF Agreed, Exchanging
  <2> QED
    BY <2>2, <2>3 DEF Agreed, Exchanging, SubscribedAsSet
<1>6. ASSUME NEW u \in Callers, UnsubscribeTopic(u) PROVE Agreed'
  BY <1>6, BrokerForgets DEF UnsubscribeTopic
<1>7. CASE Disconnect \/ Panic \/ Destroy \/ DeleteByCallback \/ Stop
  BY <1>7, BrokerForgets DEF Disconnect, Panic, Destroy, DeleteByCallback, Stop, Disconnected
<1>8. CASE Kill
  <2>1. call'["cb"].pc = "idle" /\ call'["app"] = call["app"]
    BY <1>0, <1>8, IdleType DEF Kill, Set, TypeOK
  <2>2. UNCHANGED <<mem, size, subs, steady, asSet>>
    BY <1>8 DEF Kill
  <2> QED
    BY <2>1, <2>2 DEF Agreed, Exchanging, SubscribedAsSet, Names
<1>9. CASE \/ Data \/ HandlerStep \/ Connected \/ Receive \/ Return \/ Connect
           \/ WaitEnds \/ Release \/ Delete \/ DeleteNothing \/ Resume \/ UNCHANGED vars
  <2>1. UNCHANGED <<mem, size, call, subs, steady, asSet>>
    BY <1>9 DEF Data, HandlerStep, Find, FindTimesOut, CheckCallback, CopyData, Send,
                SendTimesOut, OnlyHandler, Connected, Receive, Return, Connect, WaitEnds,
                Release, Delete, DeleteNothing, Resume, vars
  <2> QED
    BY <2>1, BrokerKept
<1> QED
  BY <1>1, <1>2, <1>3, <1>4, <1>5, <1>6, <1>7, <1>8, <1>9 DEF Next, SetStep, AppStep

-----------------------------------------------------------------------------
(* The order of the messages.                                              *)

\* Only these steps change what waits or runs.
LEMMA DispatchUnchanged ==
    ASSUME Base, [Next]_vars,
           ~Data, ~HandlerStep, ~Receive, ~Return, ~Panic, ~Kill, ~Release,
           ~Connect, ~DeleteByCallback
    PROVE  /\ UNCHANGED <<queue, item, heap, came>>
           /\ handler'.pc = handler.pc /\ handler'.msg = handler.msg
<1> USE DEF topicVars, clientVars, dispatchVars, brokerVars
<1>1. ASSUME NEW u \in Callers, Qsort(u)
      PROVE  /\ UNCHANGED <<queue, item, heap, came>>
             /\ handler'.pc = handler.pc /\ handler'.msg = handler.msg
  BY <1>1 DEF Qsort, Moved, Base, TypeOK, Handlers
<1>2. ASSUME NEW u \in Callers, SetTopics(u) \/ SetStep(u) \/ UnsubscribeTopic(u), ~Qsort(u)
      PROVE  UNCHANGED dispatchVars
  BY <1>2 DEF SetTopics, SetStep, Take, TakeTimesOut, Unsubscribe, Subscribe,
              UnsubscribeTopic, OnlyCall
<1>3. CASE \/ Connected \/ Disconnect \/ WaitEnds \/ Destroy
           \/ Delete \/ DeleteNothing \/ Stop \/ Resume \/ UNCHANGED vars
  BY <1>3 DEF Connected, Disconnect, WaitEnds, Destroy, Delete, DeleteNothing, Stop, Resume, vars
<1> QED
  BY <1>1, <1>2, <1>3 DEF Next, SetStep, AppStep

LEMMA Numbers ==
    ASSUME TypeOK
    PROVE  /\ came \in Nat /\ queue \in Seq(Items) /\ Len(queue) \in Nat
           /\ \A k \in 1 .. Len(queue) : queue[k] \in Items /\ queue[k].msg \in Nat
           /\ item # NoItem => item \in Items /\ item.msg \in Nat
<1>1. \A it \in Items : it.msg \in Nat
  BY DEF Items
<1>2. \A k \in 1 .. Len(queue) : queue[k] \in Items
  BY QueueItem
<1> QED
  BY <1>1, <1>2, BoundsAssumption, LenProperties DEF TypeOK

\* The handler puts its message at the end of the queue.
LEMMA Sent ==
    ASSUME Base, Send
    PROVE  /\ handler.pc = "send" /\ handler'.pc = "idle" /\ handler.msg = came
           /\ UNCHANGED <<item, came, heap>>
           /\ Len(queue') = Len(queue) + 1
           /\ \A k \in 1 .. Len(queue) : queue'[k] = queue[k]
           /\ queue'[Len(queue) + 1].msg = came
<1>1. /\ handler.pc = "send" /\ queue' = Append(queue, ItemOf(handler))
      /\ handler' = Idle /\ UNCHANGED <<item, came, heap>>
  BY DEF Send, OnlyHandler
<1>2. handler.msg = came
  BY <1>1 DEF Base, Holds
<1>3. ItemOf(handler) \in Items /\ ItemOf(handler).msg = came
  BY <1>1, <1>2 DEF Base, TypeOK, Holds, Handlers, ItemOf, Items
<1>4. queue \in Seq(Items)
  BY DEF Base, TypeOK
<1>5. /\ Len(queue') = Len(queue) + 1
      /\ \A k \in 1 .. Len(queue) : queue'[k] = queue[k]
      /\ queue'[Len(queue) + 1] = ItemOf(handler)
  <2> DEFINE it == ItemOf(handler)
  <2> HIDE DEF it
  <2>1. it \in Items /\ queue' = Append(queue, it)
    BY <1>1, <1>3 DEF it
  <2> QED
    BY <1>4, <2>1, AppendProperties DEF it
<1> QED
  BY <1>1, <1>2, <1>3, <1>5, IdleType

\* The callback task takes the first.
LEMMA Received ==
    ASSUME Base, Receive
    PROVE  /\ item = NoItem /\ item' = queue[1] /\ Len(queue) \in Nat \ {0}
           /\ UNCHANGED <<handler, came, heap>>
           /\ Len(queue') = Len(queue) - 1
           /\ \A k \in 1 .. Len(queue') : queue'[k] = queue[k + 1]
<1>1. /\ queue \in Seq(Items) /\ queue # <<>> /\ item = NoItem
      /\ item' = Head(queue) /\ queue' = Tail(queue) /\ UNCHANGED <<handler, came, heap>>
  BY DEF Receive, Base, TypeOK
<1>2. Len(queue) \in Nat \ {0} /\ Head(queue) = queue[1]
  BY <1>1, EmptySeq
<1>3. /\ Len(queue') = Len(queue) - 1
      /\ \A k \in 1 .. Len(queue') : queue'[k] = queue[k + 1]
  BY <1>1, HeadTailProperties, Zenon
<1> QED
  BY <1>1, <1>2, <1>3

\* A step of the handler that gives a message up, or works on it.
LEMMA HandlerWorks ==
    ASSUME Base, HandlerStep, ~Send
    PROVE  /\ handler.pc # "idle" /\ UNCHANGED <<queue, item, came>>
           /\ handler'.pc # "idle" => handler'.msg = handler.msg
<1> USE DEF Base, OnlyHandler
<1>1. /\ handler.pc # "idle" /\ UNCHANGED <<queue, item, came>>
  BY DEF HandlerStep, Find, FindTimesOut, CheckCallback, CopyData, SendTimesOut
<1>2. CASE handler'.pc = "idle"
  BY <1>1, <1>2
<1>3. CASE Drop
  BY <1>1, <1>3, IdleType DEF Drop
<1>4. CASE Find
  BY <1>1, <1>3, <1>4 DEF Find, TypeOK, Handlers
<1>5. CASE CheckCallback
  BY <1>1, <1>3, <1>5 DEF CheckCallback, TypeOK, Handlers
<1>6. CASE CopyData
  BY <1>1, <1>2, <1>6, IdleType DEF CopyData, TypeOK, Handlers
<1> QED
  BY <1>3, <1>4, <1>5, <1>6 DEF HandlerStep, FindTimesOut, SendTimesOut

\* A message comes: it is given up at once, or the handler has it.
LEMMA Comes ==
    ASSUME Base, Data
    PROVE  /\ handler.pc = "idle" /\ UNCHANGED <<queue, item>> /\ came' = came + 1
           /\ \/ /\ handler'.pc = "find" /\ handler'.msg = came'
                 /\ heap' = heap \cup {<<came', "topic">>}
              \/ UNCHANGED <<handler, heap>>
<1>1. /\ handler.pc = "idle" /\ UNCHANGED <<queue, item>> /\ came' = came + 1
      /\ \/ /\ \E t \in Topics :
                  handler' = [Idle EXCEPT !.pc = "find", !.msg = came', !.topic = t]
            /\ heap' = heap \cup {<<came', "topic">>}
         \/ UNCHANGED <<handler, heap>>
  BY DEF Data
<1>2. ASSUME NEW t \in Topics,
             handler' = [Idle EXCEPT !.pc = "find", !.msg = came', !.topic = t]
      PROVE  handler'.pc = "find" /\ handler'.msg = came'
  BY <1>2 DEF Idle
<1> QED
  BY <1>1, <1>2

LEMMA InTurnStep == Base /\ InTurn /\ [Next]_vars => InTurn'
<1> SUFFICES ASSUME Base, InTurn, [Next]_vars PROVE InTurn'
  OBVIOUS
<1>0. TypeOK
  BY DEF Base
<1>1. CASE Data
  BY <1>0, <1>1, Numbers, Comes DEF InTurn
<1>2. CASE HandlerStep /\ ~Send
  BY <1>2, HandlerWorks DEF InTurn
<1>3. CASE Send
  <2>1. /\ handler.pc # "idle" /\ handler'.pc = "idle" /\ UNCHANGED <<item, came>>
        /\ Len(queue') = Len(queue) + 1 /\ Len(queue) \in Nat /\ came \in Nat
        /\ \A k \in 1 .. Len(queue) : queue'[k] = queue[k] /\ queue'[k].msg < came
        /\ queue'[Len(queue) + 1].msg = came
    BY <1>0, <1>3, Sent, Numbers DEF InTurn
  <2>2. \A j, k \in 1 .. Len(queue') : j < k => queue'[j].msg < queue'[k].msg
    <3> TAKE j, k \in 1 .. Len(queue')
    <3>1. CASE k \in 1 .. Len(queue)
      BY <2>1, <3>1 DEF InTurn
    <3>2. CASE k = Len(queue) + 1
      BY <2>1, <3>2
    <3> QED
      BY <2>1, <3>1, <3>2
  <2>3. \A k \in 1 .. Len(queue') : queue'[k].msg <= came
    BY <1>0, <2>1, Numbers
  <2>4. item # NoItem => item.msg <= came /\ \A k \in 1 .. Len(queue') : item.msg < queue'[k].msg
    BY <2>1 DEF InTurn
  <2> QED
    BY <2>1, <2>2, <2>3, <2>4 DEF InTurn
<1>4. CASE Receive
  <2>1. /\ item' = queue[1] /\ Len(queue) \in Nat \ {0} /\ UNCHANGED <<handler, came>>
        /\ Len(queue') = Len(queue) - 1
        /\ \A k \in 1 .. Len(queue') : k + 1 \in 1 .. Len(queue) /\ queue'[k] = queue[k + 1]
    BY <1>4, Received
  <2>2. \A j, k \in 1 .. Len(queue') : j < k => queue'[j].msg < queue'[k].msg
    BY <2>1 DEF InTurn
  <2>3. \A k \in 1 .. Len(queue') : /\ queue'[k].msg <= came /\ queue[1].msg < queue'[k].msg
                                    /\ handler.pc # "idle" => queue'[k].msg < came
    BY <2>1 DEF InTurn
  <2>4. queue[1].msg <= came /\ (handler.pc # "idle" => queue[1].msg < came)
    BY <2>1 DEF InTurn
  <2> QED
    BY <2>1, <2>2, <2>3, <2>4 DEF InTurn
<1>5. CASE Return \/ Kill \/ DeleteByCallback
  BY <1>5 DEF Return, Kill, DeleteByCallback, InTurn
<1>6. CASE Panic
  BY <1>6, IdleType DEF Panic, InTurn
<1>7. CASE Release \/ Connect
  BY <1>7 DEF Release, Connect, InTurn
<1>8. CASE ~(Data \/ HandlerStep \/ Receive \/ Return \/ Panic \/ Kill \/ Release
               \/ Connect \/ DeleteByCallback)
  BY <1>8, DispatchUnchanged DEF InTurn
<1> QED
  BY <1>1, <1>2, <1>3, <1>4, <1>5, <1>6, <1>7, <1>8

-----------------------------------------------------------------------------
(* The copies on the heap.                                                 *)

Bare(msg) == {<<msg, "topic">>}
HandlerOwns == IF handler.pc = "send" THEN Copies(handler.msg)
               ELSE IF handler.pc # "idle" THEN Bare(handler.msg) ELSE {}
QueueOwns == UNION {Copies(queue[k].msg) : k \in 1 .. Len(queue)}
ItemOwns == IF item = NoItem THEN {} ELSE Copies(item.msg)

LEMMA OwnedParts == Owned = HandlerOwns \cup QueueOwns \cup ItemOwns
BY Zenon DEF Owned, HandlerOwns, QueueOwns, ItemOwns, Bare

LEMMA OwnedParts1 == Owned' = HandlerOwns' \cup QueueOwns' \cup ItemOwns'
BY Zenon DEF Owned, HandlerOwns, QueueOwns, ItemOwns, Bare

\* The copies of different messages are different.
LEMMA CopyOf ==
    ASSUME NEW m, NEW x \in Copies(m)
    PROVE  x[1] = m
BY DEF Copies

\* The copies that wait or are in use are those of earlier messages than the
\* handler's, and those of the callback earlier than those that wait.
LEMMA Disjoint ==
    ASSUME Base, InTurn
    PROVE  /\ handler.pc # "idle" => Copies(handler.msg) \cap (QueueOwns \cup ItemOwns) = {}
           /\ ItemOwns \cap QueueOwns = {}
<1>0. TypeOK
  BY DEF Base
<1>1. handler.pc # "idle" => handler.msg = came
  BY DEF Base, Holds
<1>2. /\ came \in Nat /\ \A k \in 1 .. Len(queue) : queue[k].msg \in Nat
      /\ item # NoItem => item.msg \in Nat
  BY <1>0, Numbers
<1>3. handler.pc # "idle" => /\ \A k \in 1 .. Len(queue) : queue[k].msg # handler.msg
                             /\ item # NoItem => item.msg # handler.msg
  BY <1>1, <1>2 DEF InTurn
<1>4. item # NoItem => \A k \in 1 .. Len(queue) : queue[k].msg # item.msg
  BY <1>2 DEF InTurn
<1>5. \A m, n : m # n => Copies(m) \cap Copies(n) = {}
  BY DEF Copies
<1> QED
  BY <1>3, <1>4, <1>5 DEF QueueOwns, ItemOwns

\* What a step may do to the copies.
Kept == /\ Owned' \subseteq heap'
        /\ (heap' \ Owned') \subseteq (heap \ Owned)
Lost == Owned' \subseteq heap'

LEMMA KeptIfUnchanged ==
    ASSUME OwnedLive, UNCHANGED <<queue, item, heap>>,
           handler'.pc = handler.pc, handler'.msg = handler.msg
    PROVE  Kept
<1>1. Owned' = Owned
  BY DEF Owned
<1> QED
  BY <1>1 DEF Kept, OwnedLive

LEMMA KeptByHandler ==
    ASSUME Base, InTurn, OwnedLive, Data \/ HandlerStep
    PROVE  \/ Kept
           \/ Lost /\ handler.pc = "copy" /\ handler'.pc = "idle"
<1> USE DEF OnlyHandler
<1>1. CASE Data
  <2>1. QueueOwns' = QueueOwns /\ ItemOwns' = ItemOwns /\ HandlerOwns = {}
    BY <1>1, Comes DEF QueueOwns, ItemOwns, HandlerOwns
  <2>2. CASE UNCHANGED <<handler, heap>>
    BY <1>1, <2>2, Comes, KeptIfUnchanged
  <2>3. CASE handler'.pc = "find" /\ handler'.msg = came' /\ heap' = heap \cup Bare(came')
    <3>1. HandlerOwns' = Bare(came')
      BY <2>3 DEF HandlerOwns, Bare
    <3> QED
      BY <2>1, <2>3, <3>1, OwnedParts, OwnedParts1 DEF Kept, OwnedLive
  <2> QED
    BY <1>1, <2>2, <2>3, Comes DEF Bare
<1>2. ASSUME Drop, HandlerStep, ~Send PROVE Kept
  <2>1. /\ handler'.pc = "idle" /\ heap' = heap \ Copies(handler.msg)
        /\ UNCHANGED <<queue, item>> /\ handler.pc # "idle"
    BY <1>2, HandlerWorks, IdleType DEF Drop
  <2>2. QueueOwns' = QueueOwns /\ ItemOwns' = ItemOwns /\ HandlerOwns' = {}
    BY <2>1 DEF QueueOwns, ItemOwns, HandlerOwns
  <2>3. HandlerOwns \subseteq Copies(handler.msg)
    BY DEF HandlerOwns, Copies, Bare
  <2> QED
    BY <2>1, <2>2, <2>3, Disjoint, OwnedParts, OwnedParts1 DEF Kept, OwnedLive
<1>3. CASE FindTimesOut \/ SendTimesOut
  <2>1. Drop /\ HandlerStep /\ ~Send
    BY <1>3 DEF FindTimesOut, SendTimesOut, Send, HandlerStep
  <2> QED
    BY <1>2, <2>1
<1>4. CASE Find \/ CheckCallback
  <2>1. HandlerStep /\ ~Send
    BY <1>4 DEF Find, CheckCallback, Send, HandlerStep
  <2>2. CASE Drop
    BY <1>2, <2>1, <2>2
  <2>3. CASE /\ handler'.pc \in {"found", "copy"} /\ handler'.msg = handler.msg
             /\ UNCHANGED heap
    <3>1. handler.pc \in {"find", "found"} /\ UNCHANGED <<queue, item>>
      BY <1>4, <2>1, HandlerWorks DEF Find, CheckCallback
    <3>2. Owned' = Owned
      BY <2>3, <3>1 DEF Owned
    <3> QED
      BY <2>3, <3>2 DEF Kept, OwnedLive
  <2> QED
    BY <1>4, <2>2, <2>3 DEF Find, CheckCallback, Base, TypeOK, Handlers
<1>5. CASE CopyData
  <2>1. HandlerStep /\ ~Send /\ handler.pc = "copy"
    BY <1>5 DEF CopyData, Send, HandlerStep
  <2>2. QueueOwns' = QueueOwns /\ ItemOwns' = ItemOwns /\ HandlerOwns = Bare(handler.msg)
    BY <2>1, HandlerWorks DEF QueueOwns, ItemOwns, HandlerOwns
  <2>3. CASE handler' = Idle /\ UNCHANGED heap
    <3>1. HandlerOwns' = {}
      BY <2>3, IdleType DEF HandlerOwns
    <3> QED
      BY <2>1, <2>2, <2>3, <3>1, IdleType, OwnedParts, OwnedParts1 DEF Lost, OwnedLive
  <2>4. CASE /\ handler'.pc = "send" /\ handler'.msg = handler.msg
             /\ heap' = heap \cup Copies(handler.msg)
    <3>1. HandlerOwns' = Copies(handler.msg) /\ Bare(handler.msg) \subseteq Copies(handler.msg)
      BY <2>4 DEF HandlerOwns, Bare, Copies
    <3> QED
      BY <2>2, <2>4, <3>1, OwnedParts, OwnedParts1 DEF Kept, OwnedLive
  <2> QED
    BY <1>5, <2>3, <2>4 DEF CopyData, Base, TypeOK, Handlers
<1>6. CASE Send
  <2>1. /\ handler.pc = "send" /\ handler'.pc = "idle" /\ handler.msg = came
        /\ UNCHANGED <<item, heap>> /\ Len(queue') = Len(queue) + 1 /\ Len(queue) \in Nat
        /\ \A k \in 1 .. Len(queue) : queue'[k] = queue[k]
        /\ queue'[Len(queue) + 1].msg = came
    BY <1>6, Sent, Numbers DEF Base
  <2>2. QueueOwns' = QueueOwns \cup Copies(came)
    <3>1. 1 .. Len(queue') = 1 .. Len(queue) \cup {Len(queue) + 1}
      BY <2>1
    <3>2. QueueOwns' = UNION {Copies(queue'[k].msg) : k \in 1 .. Len(queue')}
      BY DEF QueueOwns, Copies
    <3> QED
      BY <2>1, <3>1, <3>2 DEF QueueOwns
  <2>3. HandlerOwns = Copies(came) /\ HandlerOwns' = {} /\ ItemOwns' = ItemOwns
    BY <2>1 DEF HandlerOwns, ItemOwns
  <2> QED
    BY <2>1, <2>2, <2>3, OwnedParts, OwnedParts1 DEF Kept, OwnedLive
<1> QED
  BY <1>1, <1>3, <1>4, <1>5, <1>6 DEF HandlerStep

LEMMA KeptByCallbacks ==
    ASSUME Base, InTurn, OwnedLive, Receive \/ Return \/ Panic
    PROVE  Kept
<1>1. CASE Receive
  <2>1. /\ item = NoItem /\ item' = queue[1] /\ Len(queue) \in Nat \ {0}
        /\ UNCHANGED <<handler, heap>> /\ Len(queue') = Len(queue) - 1
        /\ \A k \in 1 .. Len(queue') : queue'[k] = queue[k + 1]
        /\ item' # NoItem
    BY <1>1, Received, QueueItem DEF Base
  <2>2. HandlerOwns' = HandlerOwns /\ ItemOwns = {} /\ ItemOwns' = Copies(queue[1].msg)
    BY <2>1 DEF HandlerOwns, ItemOwns, Copies
  <2>3. QueueOwns = Copies(queue[1].msg) \cup QueueOwns'
    <3>1. \A j \in 1 .. Len(queue) : j = 1 \/ j - 1 \in 1 .. Len(queue')
      BY <2>1
    <3>2. \A j \in 1 .. Len(queue) : j = 1 \/ Copies(queue[j].msg) \subseteq QueueOwns'
      <4> TAKE j \in 1 .. Len(queue)
      <4>1. CASE j # 1
        <5>1. j - 1 \in 1 .. Len(queue') /\ queue'[j - 1] = queue[j]
          BY <2>1, <3>1, <4>1
        <5> QED
          BY <5>1 DEF QueueOwns, Copies
      <4> QED
        BY <4>1
    <3>3. \A k \in 1 .. Len(queue') : Copies(queue'[k].msg) \subseteq QueueOwns
      BY <2>1 DEF QueueOwns
    <3>4. 1 \in 1 .. Len(queue)
      BY <2>1
    <3> QED
      <4>1. \A x \in QueueOwns : \E j \in 1 .. Len(queue) : x \in Copies(queue[j].msg)
        BY DEF QueueOwns
      <4>2. \A x \in QueueOwns' : \E k \in 1 .. Len(queue') : x \in Copies(queue'[k].msg)
        BY DEF QueueOwns, Copies
      <4>3. Copies(queue[1].msg) \subseteq QueueOwns
        BY <3>4 DEF QueueOwns
      <4> QED
        BY <3>2, <3>3, <4>1, <4>2, <4>3
  <2> QED
    BY <2>1, <2>2, <2>3, OwnedParts, OwnedParts1 DEF Kept, OwnedLive
<1>2. CASE Return
  <2>1. /\ item # NoItem /\ item' = NoItem /\ heap' = heap \ Copies(item.msg)
        /\ UNCHANGED <<handler, queue>>
    BY <1>2 DEF Return
  <2>2. HandlerOwns' = HandlerOwns /\ QueueOwns' = QueueOwns /\ ItemOwns' = {}
        /\ ItemOwns = Copies(item.msg)
    BY <2>1 DEF HandlerOwns, QueueOwns, ItemOwns
  <2>3. HandlerOwns \cap ItemOwns = {}
    <3>1. HandlerOwns \subseteq Copies(handler.msg)
      BY DEF HandlerOwns, Bare, Copies
    <3> QED
      BY <3>1, Disjoint DEF HandlerOwns
  <2> QED
    BY <2>1, <2>2, <2>3, Disjoint, OwnedParts, OwnedParts1 DEF Kept, OwnedLive
<1>3. CASE Panic
  <2>1. handler'.pc = "idle" /\ queue' = <<>> /\ item' = NoItem /\ heap' = {}
    BY <1>3, IdleType DEF Panic
  <2>2. HandlerOwns' = {} /\ QueueOwns' = {} /\ ItemOwns' = {}
    BY <2>1 DEF HandlerOwns, QueueOwns, ItemOwns
  <2> QED
    BY <2>1, <2>2, OwnedParts1 DEF Kept
<1> QED
  BY <1>1, <1>2, <1>3

\* Every step but the second malloc() and those of delete(), or of connect()
\* after the delete() of a callback, loses no copy.
LEMMA CopiesStep ==
    ASSUME Base, InTurn, OwnedLive, [Next]_vars
    PROVE  \/ Kept
           \/ Lost /\ handler.pc = "copy" /\ handler'.pc = "idle"
           \/ Lost /\ app \in {"kill", "release"}
           \/ Lost /\ app = "idle" /\ "dangling" \in {client, client'}
<1>1. CASE Kill \/ DeleteByCallback
  <2>1. item' = NoItem /\ UNCHANGED <<handler, queue, heap>>
    BY <1>1 DEF Kill, DeleteByCallback
  <2>3. app = "kill" \/ (app = "idle" /\ client' = "dangling")
    BY <1>1 DEF Kill, DeleteByCallback, AppFree
  <2>2. HandlerOwns' = HandlerOwns /\ QueueOwns' = QueueOwns /\ ItemOwns' = {}
    BY <2>1 DEF HandlerOwns, QueueOwns, ItemOwns
  <2> QED
    BY <2>1, <2>2, <2>3, OwnedParts, OwnedParts1 DEF Lost, OwnedLive
<1>2. CASE Release \/ (Connect /\ client = "dangling")
  <2>1. queue' = <<>> /\ UNCHANGED <<handler, item, heap>>
    BY <1>2 DEF Release, Connect
  <2>3. app = "release" \/ (app = "idle" /\ client = "dangling")
    BY <1>2 DEF Release, Connect, AppFree
  <2>2. HandlerOwns' = HandlerOwns /\ QueueOwns' = {} /\ ItemOwns' = ItemOwns
    BY <2>1 DEF HandlerOwns, QueueOwns, ItemOwns
  <2> QED
    BY <2>1, <2>2, <2>3, OwnedParts, OwnedParts1 DEF Lost, OwnedLive
<1>3. CASE Data \/ HandlerStep
  BY <1>3, KeptByHandler
<1>4. CASE Receive \/ Return \/ Panic
  BY <1>4, KeptByCallbacks
<1>5. CASE ~(Data \/ HandlerStep \/ Receive \/ Return \/ Panic \/ Kill \/ Release
               \/ Connect \/ DeleteByCallback)
  BY <1>5, DispatchUnchanged, KeptIfUnchanged
<1>6. CASE Connect /\ client # "dangling"
  <2>1. queue = <<>> /\ queue' = <<>> /\ UNCHANGED <<handler, item, heap>>
    BY <1>6 DEF Connect, Base, TypeOK, AtEnd
  <2> QED
    BY <2>1, KeptIfUnchanged
<1> QED
  BY <1>1, <1>2, <1>3, <1>4, <1>5, <1>6

LEMMA NextIInv == IInv /\ [Next]_vars => IInv'
<1> SUFFICES ASSUME IInv, [Next]_vars PROVE IInv'
  OBVIOUS
<1>1. Base /\ Agreed /\ CallbackOfTopic /\ InTurn /\ OwnedLive
  BY DEF IInv, Agreed
<1>2. Base' /\ Agreed' /\ CallbackOfTopic' /\ InTurn'
  BY <1>1, BaseStep, AgreedStep, CallbackStep, InTurnStep
<1>3. OwnedLive'
  BY <1>1, CopiesStep DEF Kept, Lost, OwnedLive
<1> QED
  BY <1>2, <1>3 DEF IInv, Agreed

LEMMA Inductive == Spec => []IInv
BY InitIInv, NextIInv, PTL DEF Spec

-----------------------------------------------------------------------------
(* The refinement.                                                         *)

Waiting == [k \in 1 .. Len(queue) |-> queue[k].msg]
                \o (IF handler.pc = "idle" THEN <<>> ELSE <<handler.msg>>)
QueueMsgs == [k \in 1 .. Len(queue) |-> queue[k].msg]

LEMMA QueueMsgsType ==
    ASSUME TypeOK
    PROVE  QueueMsgs \in Seq(Nat) /\ Len(QueueMsgs) = Len(queue)
<1>1. QueueMsgs \in [1 .. Len(queue) -> Nat] /\ Len(queue) \in Nat
  BY Numbers DEF QueueMsgs
<1> QED
  BY <1>1, IsASeq

LEMMA InitDispatch == Init => Dispatch!Init
BY EmptySeq DEF Init, Dispatch!Init, Idle, NoItem

\* The abstract actions in terms of the library's state.
LEMMA AbstractActions ==
    /\ Dispatch!dispatch = <<Waiting, item.msg, came>>
    /\ /\ came' = came + 1 /\ item'.msg = item.msg
       /\ Waiting' \in {Waiting, Append(Waiting, came + 1)}
       => Dispatch!Next
    /\ /\ Waiting # <<>> /\ Waiting[Len(Waiting)] = came
       /\ Waiting' = SubSeq(Waiting, 1, Len(Waiting) - 1)
       /\ item'.msg = item.msg /\ came' = came
       => Dispatch!Next
    /\ /\ item.msg = 0 /\ Waiting # <<>> /\ item'.msg = Head(Waiting)
       /\ Waiting' = Tail(Waiting) /\ came' = came
       => Dispatch!Next
    /\ item'.msg = 0 /\ Waiting' \in {Waiting, <<>>} /\ came' = came => Dispatch!Next
<1> USE DEF Waiting, Dispatch!Next
<1>1. Dispatch!dispatch = <<Waiting, item.msg, came>>
  BY Zenon DEF Dispatch!dispatch
<1>2. /\ came' = came + 1 /\ item'.msg = item.msg
      /\ Waiting' \in {Waiting, Append(Waiting, came + 1)}
      => Dispatch!Next
  BY Zenon DEF Dispatch!Come
<1>3. /\ Waiting # <<>> /\ Waiting[Len(Waiting)] = came
      /\ Waiting' = SubSeq(Waiting, 1, Len(Waiting) - 1)
      /\ item'.msg = item.msg /\ came' = came
      => Dispatch!Next
  BY Zenon DEF Dispatch!GiveUpNewest
<1>4. /\ item.msg = 0 /\ Waiting # <<>> /\ item'.msg = Head(Waiting)
      /\ Waiting' = Tail(Waiting) /\ came' = came
      => Dispatch!Next
  BY Zenon DEF Dispatch!Call
<1>5. item'.msg = 0 /\ Waiting' = Waiting /\ came' = came => Dispatch!Next
  BY Zenon DEF Dispatch!Kill
<1>6. item'.msg = 0 /\ Waiting' = <<>> /\ came' = came => Dispatch!Next
  BY Zenon DEF Dispatch!Reset
<1> HIDE DEF Waiting, Dispatch!Next
<1> QED
  BY <1>1, <1>2, <1>3, <1>4, <1>5, <1>6

LEMMA SeqFacts ==
    ASSUME NEW q \in Seq(Nat), NEW m \in Nat
    PROVE  /\ q \o <<>> = q /\ q \o <<m>> = Append(q, m)
           /\ Append(q, m) # <<>> /\ Append(q, m)[Len(Append(q, m))] = m
           /\ SubSeq(Append(q, m), 1, Len(Append(q, m)) - 1) = q
<1>1. q \o <<>> = q /\ q \o <<m>> = Append(q, m)
  BY ConcatEmptySeq, AppendIsConcat
<1>2. /\ Append(q, m) \in Seq(Nat) /\ Append(q, m) # <<>>
      /\ Len(q) \in Nat /\ Len(Append(q, m)) = Len(q) + 1
      /\ \A i \in 1 .. Len(q) : Append(q, m)[i] = q[i]
      /\ Append(q, m)[Len(q) + 1] = m
  BY AppendProperties, LenProperties
<1>3. SubSeq(Append(q, m), 1, Len(q)) = q
  <2> DEFINE a == Append(q, m)
             b == SubSeq(a, 1, Len(q))
  <2>1. \A i \in 1 .. Len(q) : a[i] \in Nat
    BY <1>2, ElementOfSeq
  <2>2. /\ b \in Seq(Nat) /\ Len(b) = Len(q)
        /\ \A i \in 1 .. Len(q) : b[i] = a[i]
    <3> HIDE DEF a
    <3>1. /\ b \in Seq(Nat) /\ Len(b) = IF 1 <= Len(q) THEN Len(q) - 1 + 1 ELSE 0
          /\ \A i \in 1 .. Len(q) - 1 + 1 : b[i] = a[1 + i - 1]
      BY <1>2, <2>1, SubSeqProperties
    <3> HIDE DEF b
    <3> QED
      BY <1>2, <3>1
  <2> HIDE DEF a, b
  <2>3. \A i \in 1 .. Len(b) : b[i] = q[i]
    BY <1>2, <2>2 DEF a
  <2>4. b = q
    BY <2>2, <2>3, SeqEqual
  <2> QED
    BY <2>4 DEF a, b
<1> QED
  BY <1>1, <1>2, <1>3

LEMMA WaitingIs ==
    ASSUME TypeOK, Holds
    PROVE  /\ handler.pc = "idle" => Waiting = QueueMsgs
           /\ handler.pc # "idle" => Waiting = Append(QueueMsgs, came)
<1>1. QueueMsgs \in Seq(Nat) /\ came \in Nat
  BY QueueMsgsType, Numbers
<1>2. handler.pc # "idle" => handler.msg = came
  BY DEF Holds
<1>3. QueueMsgs \o <<>> = QueueMsgs /\ QueueMsgs \o <<came>> = Append(QueueMsgs, came)
  BY <1>1, SeqFacts
<1>4. Waiting = QueueMsgs \o (IF handler.pc = "idle" THEN <<>> ELSE <<handler.msg>>)
  BY Zenon DEF Waiting, QueueMsgs
<1> QED
  BY <1>2, <1>3, <1>4, Zenon

LEMMA WaitingWillBe ==
    ASSUME TypeOK', Holds'
    PROVE  /\ handler'.pc = "idle" => Waiting' = QueueMsgs'
           /\ handler'.pc # "idle" => Waiting' = Append(QueueMsgs', came')
<1>1. (TypeOK /\ Holds
         => /\ handler.pc = "idle" => Waiting = QueueMsgs
            /\ handler.pc # "idle" => Waiting = Append(QueueMsgs, came))'
  BY WaitingIs, PTL
<1> QED
  BY <1>1

LEMMA DispatchNext == Base /\ [Next]_vars => [Dispatch!Next]_(Dispatch!dispatch)
<1> SUFFICES ASSUME Base, [Next]_vars PROVE [Dispatch!Next]_(Dispatch!dispatch)
  OBVIOUS
<1>0. TypeOK /\ Holds /\ TypeOK' /\ Holds'
  BY BaseStep DEF Base
<1>1. /\ QueueMsgs \in Seq(Nat) /\ Len(QueueMsgs) = Len(queue) /\ Len(queue) \in Nat
      /\ came \in Nat /\ \A k \in 1 .. Len(queue) : QueueMsgs[k] = queue[k].msg
  BY <1>0, QueueMsgsType, Numbers DEF QueueMsgs
<1>2. /\ QueueMsgs' \in Seq(Nat) /\ Len(QueueMsgs') = Len(queue')
      /\ \A k \in 1 .. Len(queue') : QueueMsgs'[k] = queue'[k].msg
  <2>1. (TypeOK => QueueMsgs \in Seq(Nat) /\ Len(QueueMsgs) = Len(queue))'
    BY QueueMsgsType, PTL
  <2> QED
    BY <1>0, <2>1 DEF QueueMsgs
<1>3. queue' = queue => QueueMsgs' = QueueMsgs
  BY DEF QueueMsgs
<1>4. UNCHANGED <<Waiting, item, came>> => [Dispatch!Next]_(Dispatch!dispatch)
  BY AbstractActions DEF Waiting, Dispatch!dispatch
<1>5. CASE Data
  <2>1. /\ handler.pc = "idle" /\ UNCHANGED <<queue, item>> /\ came' = came + 1
        /\ handler'.pc = "find" \/ UNCHANGED handler
    BY <1>0, <1>5, Comes
  <2>2. Waiting' \in {Waiting, Append(Waiting, came + 1)}
    BY <1>0, <1>3, <2>1, WaitingIs, WaitingWillBe
  <2> QED
    BY <2>1, <2>2, AbstractActions
<1>6. CASE HandlerStep /\ ~Send
  <2>1. handler.pc # "idle" /\ UNCHANGED <<queue, item, came>>
    BY <1>6, HandlerWorks
  <2>2. Waiting = Append(QueueMsgs, came) /\ QueueMsgs' = QueueMsgs
    BY <1>0, <1>3, <2>1, WaitingIs
  <2>3. CASE handler'.pc # "idle"
    <3>1. Waiting' = Waiting
      BY <1>0, <2>1, <2>2, <2>3, WaitingWillBe
    <3> QED
      BY <1>4, <2>1, <3>1
  <2>4. CASE handler'.pc = "idle"
    <3>1. Waiting' = QueueMsgs
      BY <1>0, <2>2, <2>4, WaitingWillBe
    <3>2. /\ Waiting # <<>> /\ Waiting[Len(Waiting)] = came
          /\ SubSeq(Waiting, 1, Len(Waiting) - 1) = QueueMsgs
      BY <1>1, <2>2, SeqFacts
    <3> QED
      BY <2>1, <3>1, <3>2, AbstractActions
  <2> QED
    BY <2>3, <2>4
<1>7. CASE Send
  <2>1. /\ handler.pc # "idle" /\ handler'.pc = "idle" /\ UNCHANGED <<item, came>>
        /\ Len(queue') = Len(queue) + 1
        /\ \A k \in 1 .. Len(queue) : queue'[k] = queue[k]
        /\ queue'[Len(queue) + 1].msg = came
    BY <1>0, <1>7, Sent
  <2> DEFINE a == Append(QueueMsgs, came)
             b == QueueMsgs'
  <2>2. /\ a \in Seq(Nat) /\ Len(a) = Len(queue) + 1
        /\ \A k \in 1 .. Len(queue) : a[k] = queue[k].msg
        /\ a[Len(queue) + 1] = came
    BY <1>1, AppendProperties
  <2>3. /\ b \in Seq(Nat) /\ Len(b) = Len(queue) + 1
        /\ \A k \in 1 .. Len(queue) : b[k] = queue[k].msg
        /\ b[Len(queue) + 1] = came
    BY <1>1, <1>2, <2>1
  <2> HIDE DEF a, b
  <2>4. \A k \in 1 .. Len(b) : b[k] = a[k]
    <3> TAKE k \in 1 .. Len(b)
    <3>1. k \in 1 .. Len(queue) \/ k = Len(queue) + 1
      BY <1>1, <2>3
    <3> QED
      BY <2>2, <2>3, <3>1
  <2>5. a = b
    BY <2>2, <2>3, <2>4, SeqEqual
  <2>6. Waiting' = Waiting
    BY <1>0, <2>1, <2>5, WaitingIs, WaitingWillBe DEF a, b
  <2> QED
    BY <1>4, <2>1, <2>6
<1>8. CASE Receive
  <2>1. /\ item = NoItem /\ item' = queue[1] /\ Len(queue) \in Nat \ {0}
        /\ UNCHANGED <<handler, came>> /\ Len(queue') = Len(queue) - 1
        /\ \A k \in 1 .. Len(queue') : queue'[k] = queue[k + 1]
    BY <1>0, <1>8, Received
  <2> DEFINE q == QueueMsgs
             r == QueueMsgs'
  <2>2. /\ q \in Seq(Nat) /\ q # <<>> /\ Len(q) = Len(queue) /\ q[1] = item'.msg
        /\ r \in Seq(Nat) /\ Len(r) = Len(q) - 1
        /\ \A k \in 1 .. Len(r) : r[k] = q[k + 1]
    <3>1. Len(<<>>) = 0
      BY EmptySeq
    <3>2. \A k \in 1 .. Len(queue') : k + 1 \in 1 .. Len(queue) /\ 1 \in 1 .. Len(queue)
      BY <2>1
    <3>3. 1 \in 1 .. Len(queue)
      BY <2>1
    <3>4. q # <<>> /\ Len(q) = Len(queue) /\ q[1] = item'.msg
      BY <1>1, <2>1, <3>1, <3>3
    <3>5. \A k \in 1 .. Len(r) : r[k] = q[k + 1]
      <4> TAKE k \in 1 .. Len(r)
      <4>1. k \in 1 .. Len(queue') /\ k + 1 \in 1 .. Len(queue)
        BY <1>2, <3>2
      <4>2. r[k] = queue'[k].msg /\ queue'[k] = queue[k + 1]
        BY <1>2, <2>1, <4>1
      <4>3. q[k + 1] = queue[k + 1].msg
        BY <1>1, <4>1
      <4> QED
        BY <4>2, <4>3
    <3> QED
      BY <1>1, <1>2, <2>1, <3>4, <3>5
  <2> HIDE DEF q, r
  <2>3. Tail(q) \in Seq(Nat) /\ Len(Tail(q)) = Len(q) - 1
        /\ \A k \in 1 .. Len(Tail(q)) : Tail(q)[k] = q[k + 1]
    BY <2>2, HeadTailProperties
  <2>4. r = Tail(q) /\ Head(q) = item'.msg
    <3>1. Head(q) = q[1]
      BY <2>2
    <3>2. \A k \in 1 .. Len(r) : r[k] = Tail(q)[k]
      BY <2>2, <2>3
    <3>3. r = Tail(q)
      BY <2>2, <2>3, <3>2, SeqEqual
    <3> QED
      BY <2>2, <3>1, <3>3
  <2>5. CASE handler.pc = "idle"
    <3>1. Waiting = q /\ Waiting' = r
      BY <1>0, <2>1, <2>5, WaitingIs, WaitingWillBe DEF q, r
    <3>2. item.msg = 0 /\ item'.msg = Head(q) /\ came' = came
      BY <2>1, <2>4, IdleType
    <3> QED
      BY <2>2, <2>4, <3>1, <3>2, AbstractActions
  <2>6. CASE handler.pc # "idle"
    <3> DEFINE w == Append(q, came)
    <3>1. w # <<>> /\ Head(w) = Head(q) /\ Tail(w) = Append(Tail(q), came)
      <4>1. w # <<>>
        BY <1>1, <2>2, AppendProperties
      <4> QED
        BY <1>1, <2>2, <4>1, HeadTailAppend, Zenon
    <3>2. Waiting = w /\ Waiting' = Append(r, came)
      BY <1>0, <2>1, <2>6, WaitingIs, WaitingWillBe DEF q, r
    <3> HIDE DEF w
    <3> QED
      BY <2>1, <2>4, <3>1, <3>2, AbstractActions, IdleType
  <2> QED
    BY <2>5, <2>6
<1>9. CASE Return \/ Kill \/ DeleteByCallback
  <2>1. item' = NoItem /\ UNCHANGED <<handler, queue, came>>
    BY <1>9 DEF Return, Kill, DeleteByCallback
  <2>2. Waiting' = Waiting
    BY <2>1 DEF Waiting
  <2> QED
    BY <2>1, <2>2, IdleType, AbstractActions
<1>10. CASE Panic \/ Release \/ Connect
  <2>1. handler'.pc = "idle" /\ queue' = <<>> /\ item' = NoItem /\ came' = came
    BY <1>10, IdleType DEF Panic, Release, Connect, AppFree, Base, AtEnd
  <2>2. QueueMsgs' = <<>>
    <3>1. Len(queue') = 0
      BY <2>1, EmptySeq
    <3> QED
      BY <1>2, <3>1, EmptySeq
  <2>3. Waiting' = <<>>
    BY <1>0, <2>1, <2>2, WaitingWillBe
  <2> QED
    BY <2>1, <2>3, IdleType, AbstractActions
<1>11. CASE ~(Data \/ HandlerStep \/ Receive \/ Return \/ Panic \/ Kill \/ Release
                \/ Connect \/ DeleteByCallback)
  <2>1. UNCHANGED <<queue, item, came>> /\ handler'.pc = handler.pc /\ handler'.msg = handler.msg
    BY <1>11, DispatchUnchanged
  <2>2. Waiting' = Waiting
    BY <2>1 DEF Waiting
  <2> QED
    BY <1>4, <2>1, <2>2
<1> QED
  BY <1>5, <1>6, <1>7, <1>8, <1>9, <1>10, <1>11

-----------------------------------------------------------------------------

\* TypeOK: every part of the library's state stays in its type, the queue within
\* its length and the retry count within its bound.
THEOREM TypeCorrect == Spec => []TypeOK
<1>1. IInv => TypeOK
  BY DEF IInv, Base
<1> QED
  BY <1>1, Inductive, PTL

\* CallbackOfTopic: the callback task runs the callback of the message's topic,
\* unless qsort() worked on the entry while the event handler pointed to it.
THEOREM RightCallback == Spec => []CallbackOfTopic
<1>1. IInv => CallbackOfTopic
  BY DEF IInv
<1> QED
  BY <1>1, Inductive, PTL

\* SubscribedAsSet: after set_subscribed_topics() has returned 1 the broker has
\* exactly the topics of the array.
THEOREM Subscribed == Spec => []SubscribedAsSet
<1>1. IInv => SubscribedAsSet
  BY DEF IInv
<1> QED
  BY <1>1, Inductive, PTL

\* CopiesKept: the copies of a message live as long as someone is to use or free
\* them, and are lost only when the handler's second malloc() fails, delete()
\* ends the callback task, or connect() comes after the delete() of a callback.
THEOREM Copied == Spec => CopiesKept
<1>1. IInv /\ [Next]_vars
        => [/\ Owned' \subseteq heap'
            /\ \/ (heap' \ Owned') \subseteq (heap \ Owned)
               \/ handler.pc = "copy" /\ handler'.pc = "idle"
               \/ app \in {"kill", "release"}
               \/ app = "idle" /\ "dangling" \in {client, client'}]_vars
  BY CopiesStep DEF IInv, Kept, Lost
<1> QED
  BY <1>1, Inductive, PTL DEF Spec, CopiesKept

\* ImplementsDispatch: the library runs the callbacks one at a time, in the order
\* of the messages and each at most once.
THEOREM Refines == Spec => ImplementsDispatch
<1>1. IInv /\ [Next]_vars => [Dispatch!Next]_(Dispatch!dispatch)
  BY DispatchNext DEF IInv
<1> QED
  BY <1>1, InitDispatch, Inductive, PTL DEF Spec, ImplementsDispatch, Dispatch!Spec
=============================================================================
