# Verification of vedruino

TLA+ specifications of the concurrent and crash-exposed parts of the vedruino
firmware library (ESP32, FreeRTOS, `src/src/lib`), the TLC configurations that
check them, and TLAPS proofs. Line numbers refer to the sources in this
repository.

## 1. Inventory

| Component | State | Operations | Interacts with |
|---|---|---|---|
| netlog server (`netlog.c`) | subscriber table, UDP count, `clients_mutex`, flush buffer, sockets | subscribe, unsubscribe, list, flush of stdout, boot broadcast | every task that prints; its peers over TCP/UDP |
| log calls (`log_defs.h`, `log.c`) | `pk_btrace_mutex`, stdout | PKLOGx, backtrace | netlog (stdout is the network log) |
| OTA server (`ota.c`) | update partition, `part_bytes_written`, header, task priority | start-up check and erase, upload, set boot partition, restart | flash, boot loader, `tools/ota.py` |
| ip (`ip.c`) | none (socket handles) | connect, accept, send, sendn, recv, recvn, close | netlog, ota, log (errors are logged) |
| mqtt (`mqtt.c`) | client, event group, topic array, callback queue and task, retry count | connect, set topics, event handler, callback task, publish, stop, resume, delete | esp-mqtt task, user callbacks |
| i2c (`i2c_tools.cpp`) | recursive mutex, cached line | begin, lock, unlock, switch, scan | Wire, multiplexer |
| netlog client (`tools/netlog.py`) | sockets of the select loop, board info, packet count | subscribe, broadcast, log data, unsubscribe on exit | netlog server |
| OTA client (`tools/ota.py`) | none | one upload | OTA server |
| json (`lwjson.c`, `pk_lwjson.c`) | token array, container being filled | init, parse, free, find, typed find | application |
| mdns, misc, btrace.S, config.py and the other tools | none that is shared | start-up calls, formatting, text filters | - |
| wifi.c, sysmon.c | - | disabled with `#if 0` | - |

What is hard here:

* **netlog**: the table is changed by the control task and by any task whose
  print finds a subscriber gone, in the middle of the send loop. Correct means:
  no duplicate, no socket shared, lost or used after close, a right UDP count,
  packet numbers that follow the datagrams, every request answered.
* **locks of a log call**: three locks, errors reported from inside the
  innermost one. Correct means: a log call returns and backtraces do not mix.
* **ota**: power may go at any step; flash must be erased before it is
  programmed. Correct means: always bootable, all or nothing, truthful answer.
* **mqtt**: pointers that outlive the mutex, a bounded queue, deletion in the
  middle of a callback, requests to the broker that fail half way. Correct means:
  each message at most once, in order, to its own callback; no copy lost or used
  after free; the broker subscribed to what the array says; nobody blocked.
* **i2c**: lock nesting over early returns; a cached line against the hardware.
  Correct means: locks are balanced and a task talks to the line it has chosen.
* **ip**: partial writes and reads, retries. Correct means: exactly n bytes, in
  order, and an end to the retries.
* **json**: one array of tokens whose links double as the parser's stack, used
  again for the next text. Correct means: JSON is accepted, the tree is the
  text's, a search finds the first match.
* **netlog client**: boot messages lost, late and out of order against
  reconnection. Correct means: it follows the board and keeps what works.

`PROJECT.json` lists each hazard at its line.

## 2. Modules

| Component | Module | Implements | Instances, runs | Proofs |
|---|---|---|---|---|
| netlog server | `Netlog` | `LogSubscriptions` | `MCNetlog`: `netlog_safety`, `netlog_live`, `netlog_lostblock` | `NetlogProofs` |
| netlog client with the server | `NetlogSession` (an INSTANCE of `LogSubscriptions` is the board) | | `MCNetlogSession`: `session_tcp` | `NetlogSessionProofs` |
| log calls | `LogLock` | | `MCLogLock`: `loglock_all`, `loglock_default` | `LogLockProofs` |
| OTA server | `Ota` | `AtomicUpdate` | `MCOta`: `ota_safety` | `OtaProofs` |
| mqtt | `Mqtt` | `MessageDispatch` | `MCMqtt`: `mqtt_dispatch` | `MqttProofs` |
| i2c | `I2c` | | `MCI2c`: `i2c_bus` | `I2cProofs` |
| ip | `Ip` | | `MCIp`: `ip_stream`, `ip_recvn` | `IpProofs` |
| json | `Json` | | `MCJson`: `json_texts` | `JsonProofs` |

`Netlog` is checked to implement `LogSubscriptions`, and `NetlogSession` composes
the client with that specification in the server's place. `LogLock` stays beside
`Netlog`: it looks at the locks only and adds the two that `Netlog` leaves out; what
`Netlog` assumes of them, and in which build, is said in section 3.
`Ip` is the connection that the others assume; `Ota` takes from it that a field
may be garbled.

Every safety invariant and action property that a run expects to hold is also a
theorem. Still worth doing: the UDP mode of the netlog client.

In every module a definition named like another with a word added, under a
comment that begins with "Mutant", is a plausible mistake in that definition,
which the properties are tested against; no specification uses it.

## 3. Netlog

**State.** `clients`, `clients_num`, `udp_clients_num` and the mutex are the
statics of `netlog.c:56-69`; `n`, `sent`, `blk`, `i` are those and the locals of
`flush_with_shstack()`. `pc[t]` is where a task is in `stdout_flush()` or in
`ctl_server_task()`; a task that logs goes through the flush and returns to
`cont[t]`. `open` is lwIP's table of sockets. `served` and `removed` are history.

**Actions.** One per send of the loop (`SendOk`, `SendFail`), one for the end of
the reports of a failed send and the removal (`DropClient`), one per block, per
taking and giving of the mutex; one per critical section of the control task
(`SubCheckDup`, `SubCheckFree`, `SubInsert`, `UnsubFound`, `UnsubNotFound`), per
blocking call (`Accept`, `Recv`, `SubSocket`, `SubConnectOk`, `SubConnectFail`)
and per step of the unlocked listing (`ListTest`, `ListRead`).

**Abstractions.** Lengths are in units, addresses are names. All slots above
`clients_num` hold one value `Stale`. A send succeeds or fails as a whole. A
failing `accept()` leaves `cl_addr` uninitialised (`netlog.c:142-193`): the model
lets the server survive or the board restart. A failing `close()` is in
`LogLock`, not here. The sockets of other components are not counted.
A failed send is reported inside the flush (`ip.c:138`, `netlog.c:411`): `report` is
the place of a task that does so with `clients_mutex` held. stdout is the UART then, so
no flush begins, but with `BtraceOnError` (`CONF_LOG_BTRACE_ON_ERROR`, on by default)
the report also takes `pk_btrace_mutex`, whose holder may wait for `clients_mutex`.

**Runs.**

* `netlog_safety`: the default build, table of 2, 3 receivers, 4 sockets, 2 printing tasks, flushes
  of up to 2 datagrams, packet numbers modulo 3. Small enough to visit every
  interleaving, large enough for a full table with a subscription on top, a
  removal in front of another entry, several removals in one block, sockets that
  run out, and packet numbers that wrap. Receivers, sockets and printing tasks
  are interchangeable, hence the symmetry. The run also shows the refinement of
  `LogSubscriptions`.
  `SequenceFollowsSends` is exact: the number of a subscriber moves by one in a step
  that sends it a datagram, and in no other. `LeakOnlyOnConnectFailure` allows the
  failing `connect()` to lose the socket it was connecting and nothing else.
* `netlog_live`: 2 receivers, 3 sockets, table of 1, without symmetry, in the build
  without backtraces on errors. Both properties say so (`~BtraceOnError`): in the
  default build they are false, as `loglock_default` shows.
  *Fairness*: the holder of the mutex goes on (weak; a send ends with success or
  an error, so a peer that keeps a zero window for ever is excluded), except that
  nothing is assumed of a report that takes a backtrace (`FreeFlushStep`); the control
  task has priority 10 and a FreeRTOS mutex goes to the waiter of the highest
  priority, hence strong fairness for its steps and for its flush. Input from
  peers is not fair, nor are other tasks' calls.
* `netlog_lostblock` (violation): `netlog.c:416`. The loop removes entry `i` and
  goes on with `i + 1`, the entry that moved to `i` is skipped, and the block goes
  neither to it nor to the UART.

**Seen while modelling, without a run.** The listing in the answer reads the
table without the mutex (`netlog.c:169-175`, against the comment at line 56) and
can read a slot that is no entry any more. Each failed `connect()` in
`ctl_sub()` leaks a socket (`netlog.c:286`), until subscriptions fail with room
in the table. `CTL_SOCK_TIMEOUT_SECS` is not used. A UDP block skipped by the loop
takes no packet number, so the client cannot notice it (`docs/netlog.md:106`).
Subscription connects before the control connection is closed, the document
says the opposite (`docs/netlog.md:56`).

## 4. NetlogSession

`tools/netlog.py --tcp` against a board that restarts. The board is
`LogSubscriptions` (`subs`, `call`); `late` and `inbox` are the boot messages under
way and in the receiver's UDP socket; `backlog` holds the connections the kernel
has accepted for `tcp_serv` and `log` is `socks['tcp_log']`, each by the state of
its other end. `info` is `board_info.session_id`, `ready` what `select()` returned
and `main_loop()` has not handled yet, in the order of the dictionary `socks`.

`HandleBcast`, `Accept` and `ReadLog` are the branches of `main_loop()`;
`ReadOld` is the branch of a socket that the broadcast handler has deleted from
`socks` in the same batch. `Connect`, `Answer` and `AnswerTimesOut` are `ctl_sub()`;
an answer other than `+` and a timeout end the program, which then asks once to be
unsubscribed (`Unsub`). `recv()` may fail whatever the other end is (`ReadLog`):
keepalive ends a connection in an outage the board has not noticed. When the board
gives a receiver up, the close may arrive or not (`Drop`). Only messages of the receiver's own board are modelled, and
the session is the number of the boot: the random session numbers differ.

* `session_tcp`: 1 receiver, 1 other that competes for a table of 1, 3 sessions,
  2 boot messages each, 2 connections waiting. Two restarts let a message of the
  first session come after the answer of the third. Shows that a boot message that
  reaches the receiver leads to a subscription at that session (`FollowsBoot`), and
  the only five ways in which the receiver gives up a connection that the board writes
  to (`KeepsConnection`, `GivesUp`): no answer or a refusal ends it; it believes a boot
  message that is not of the board's session; an earlier connection has the place of the
  new one; `recv()` fails on its log or gives nothing on an earlier one; a socket it has
  deleted is ready in the same batch. So a copy of a message it has followed, or a
  connection refused because the first works, never costs a live connection.
  Deadlock is checked: the other receiver goes on.
  *Fairness*: the board serves an accepted request (`RequestAnswered` of
  `Netlog`), the receiver runs, and its `connect()` gets through among those of
  others (the kernel queues it). Boot messages and restarts are not fair.

**Seen while modelling, without a run.** A log connection that the board closes
raises a plain `Exception` in the client, and a deleted log socket a `KeyError`
(`netlog.py:261`): both end a client that `docs/netlog.md:8-11` says follows the
board. A boot message read late makes the client cut a live connection, and the
board answers that it is subscribed already. A new connection is refused beside a
lost one whose loss was not noticed yet (`netlog.py:248-250`). After a failed `recv()`
the client waits for a boot message (`netlog.py:273-276`), which a board that has not
restarted does not send. These are among the causes in `GivesUp`, or end the client;
the properties exempt them and do not show their absence.

## 5. LogLock

`owner` holds the three locks: `B` (`pk_btrace_mutex`), `F` (newlib's lock of
the FILE netlogout) and `C` (`clients_mutex`); `pc[t]` is the place in PKLOGx,
`printf()` and the flush. `build` is chosen in `Init`: backtraces on errors or
not, sends that may fail or not, closes that may fail or not.

* `loglock_all`: all eight builds, 2 printing tasks and the control task, a
  backtrace of one line. Shows that a set of tasks that wait for each other
  always contains one that reports an error with `C` held
  (`DeadlockNeedsNestedError`), that builds where this cannot happen do not
  deadlock and end each log call, and that backtraces never mix. Deadlock
  checking is off since some builds do deadlock; the invariants find it instead.
  Three tasks suffice for every cycle through three locks.
* `loglock_default` (violation): in the default configuration a log call may
  never return, against `docs/netlog.md:119`.

*Fairness*: a task that can run does; a lock that is released again and again
is got in the end.

## 6. Ota

`flash` holds the two app partitions unit by unit; `boot` is otadata, `running`
the partition the boot loader chose. `pc` is the place in `server_task()` and
`handle_req()`. `req` is the client: what it sends and how much of it. `old`, `done` and `answer` are history: the image at the start of
the request, whether this request has set the boot partition, and the byte the
client got. `PowerCut` is enabled in every state and may leave the block under
erase or the unit under write as `Junk`.

The boot loader (`BootFrom`), `esp_partition_write_raw` (`Programmed`) and
`esp_image_verify` (`Holds`) are external and modelled by what `ota.c` relies on:
a write programs what is erased, an erase works by blocks, and
`esp_ota_set_boot_partition` succeeds only for a whole image and changes otadata
atomically or not at all. `header.size` may be read as any number: `recvn`
garbles a field that arrives in pieces.

* `ota_safety`: 4 units in 2 blocks, images of 3 and of 2 units (one ends inside
  a block), buffers of 2, data up to 6 units (more than the partition). It
  checks that the board is always bootable, that a request finds an erased
  partition, that answers are true, that nothing is programmed twice, the
  refinement of `AtomicUpdate`, and that requests end and new images get to run.
  *Fairness*: the board boots and its task runs; a connected client sends or
  closes (the code has no receive timeout, a silent client does block it). Power
  cuts and new connections are not assumed.

**Seen while modelling, without a run.** `docs/ota.md:18` says that the MD5 of the
data is checked; `ota.c:296` compiles the check under a macro that nothing defines, so
the model installs what passes the check of the image.

## 7. Mqtt

**State.** `mem` is the application's array of topics, sorted in place, and `size`
how much of it `subs_topics` refers to; `mutex` is `topics_mutex`. `call[u]` is where
a caller (the application, or a callback) is in
`pk_mqtt_set_subscribed_topics()`; `app` where the application is in connect or
delete; `handler` the event handler between two events, with the pointer `pair` it
keeps after it gave the mutex; `queue` and `item` the callback queue and what the
callback task runs; `heap` the copies `malloc()` gave; `subs` the broker's
subscriptions of this client. `handler.moved`, `steady` and `asSet` are records of
the model: that `qsort()` worked on the entry behind the pointer, and that a call
returned 1 over a connection that held.

**Actions.** One per step that another task can see: taking the mutex or its
timeout, the unsubscribe loop, `qsort()`, the subscribe loop; in the handler the
message and its first `malloc()`, the search, the first and the second look at the
entry, `xQueueSend()` or its timeout; receive and return of the callback task;
connection and disconnection; connect, its wait, and the three parts of delete.
`Connect` overwrites all handles. It may fail: before the handles matter (then nothing
has happened that a second call does not overwrite) or after them, which leaves the
callback task and its queue without a client that was started (`client = "half"`). A
delete() without a connect() before it calls `vTaskDelete(NULL)` and ends the
application's task (`DeleteNothing`, `app = "gone"`); called from a callback it ends the
callback task half way, with the handles of freed objects in place
(`DeleteByCallback`, `"dangling"`). A callback that is `NULL` when it is called, and a
call with the client that delete() has freed, may end in a restart (`Panic`).

**Abstractions.** A topic is its place in the order of `strcmp()`, its callback is
named by it. All calls use a prefix of one array. A loop of requests to the broker
is one step with any subset of them done: nobody reads what it changes before its
end. In the middle of `qsort()` an entry reads as any topic of the part being
sorted, and `bsearch()` over an unsorted array may miss. A message may come on any
topic. Callbacks call `set_subscribed_topics()`, `unsubscribe_topic()` and `delete()`,
the last only while the application is in no call of its own. `connect()` is not called
beside a client that works. Publishing changes no state of the library.

* `mqtt_dispatch`: 2 topics listed in falling order (so that the first `qsort()`
  moves both), one with a NULL callback, a queue of 1, 1 retry, 2 messages: enough
  for a full queue, a callback that replaces the array while the handler points
  into it, and a deletion with a message in every place. Shows that callbacks are
  those of their topics, the refinement of `MessageDispatch`, that copies have one
  owner, the subscriptions after a successful call, and that the client's task,
  connect() and delete() come back even when callbacks block for ever.
  *Fairness*: calls into FreeRTOS and ESP-MQTT return (each wait in them has a
  timeout), and the client goes on trying to connect. Callbacks need not return.
  Deadlock checking is off: an application that a delete() has ended does nothing more.
  `CopiesKept` exempts the copies that a failing second `malloc()` and delete() lose,
  `CallbackOfTopic` a message whose entry `qsort()` moved (`moved`), `SubscribedAsSet`
  topics that an earlier call, which returned 0, left at the broker (`steady`): there the
  code does go wrong, and the properties show that it does nowhere else.

**Seen while modelling, without a run.** When `qsort()` moves the entry the handler
points to, the message goes to another topic's callback or to `NULL`
(`mqtt.c:195-217`; the exception in `CallbackOfTopic`). Nothing is subscribed again
after a reconnection. The copy of the topic leaks when the second `malloc()` fails
(`mqtt.c:208`). The retry count is static and never reset (`mqtt.c:159`), so a later
connect() gives up at once. A failing connect() leaves its objects, a callback still
running when delete() frees the client uses it, and delete() ends its caller when no
task was made or when the caller is the callback task (`mqtt.c:324`).

## 8. I2c

`owner` and `depth` are the recursive mutex, `cache` is `current_i2c_line`, `mux` the
line the multiplexer has really selected, `call[t]` the library call a task is in
and `open[t]` the locks of its own it must still give back. `leaks`, `want` and
`stale` are records of the model: switches that kept the mutex, the line the
holder relies on, and that the multiplexer may have changed without a successful
transmission. A failed `PK_ASSERT`, which a take of one second ends in, restarts
the chip but not the multiplexer.

* `i2c_bus`: 2 tasks, lines 0 to 2 of which a scan visits two, nesting up to 3 (a
  task's lock, a scan and its switches), failing transmissions that may have
  arrived, and a multiplexer that may lose its line at any time. Shows that every
  path but one gives the mutex back as often as it took it (`LockBalanced`), that
  the holder talks to the line it has chosen while the cache can be trusted
  (`LineKept`; `stale` exempts the cases below), and that a kept mutex
  ends in a restart as soon as another task needs the bus (`LeakEndsInRestart`).
  *Fairness*: a task in a library call goes on. Tasks need never unlock.

**Seen while modelling, without a run.** Selecting the current line keeps the mutex
(`i2c_tools.cpp:72-74`, against `docs/i2c.md:28`). A failed transmission whose byte
arrived, or a multiplexer that lost its line, leaves the cache wrong and the next
switch to the cached line does nothing: hence `stale` in `LineKept`.

## 9. Ip

One connection: `pk_tcp_sendn()` with the retries of `pk_tcp_send()` at one end,
`pk_tcp_recvn()` at the other. A byte is its number in the stream, `pipe` what is
under way. `Write` and `Read` take any number of bytes the connection allows.

* `ip_stream`: 3 fields of 3 bytes, a connection that holds 4, 2 retries: fields
  that overlap in the pipe, pieces of every size. Shows that a field that was
  received is exactly the next of the stream, so that the fields after it begin where
  they should, and stands in the buffer when one `read()` got it all (`FieldTaken`), and that a send ends unless the
  receiver leaves the connection full. *Fairness*: the sender runs. Deadlock
  checking is off: a connection ends.

* `ip_recvn` (violation): `ip.h:85-88` says that the bytes of a field are written to
  the buffer (`FieldReceived`); `recvn` writes each piece at the start of the buffer
  (`ip.c:219`), and a field that comes in two pieces is garbled while the call returns
  true.

## 10. Json

`tok` is `first_token` and the array of tokens, `to` the container being filled,
`pc` what the loop of `lwjson_parse_ex()` looks for next. The text is a sequence of
lexemes and is chosen while it is read, one lexeme a step. While a container is
open its `next` is the pointer to its parent, as in the code. The search is an
operator, `Find`, a function of the segments to go; it is checked against `Reached`,
the ends of the walks down the text by the path, which reads the text alone; so do the
tree (`Parents`, `Depth`) and the grammar (`Fits`: what may stand after a lexeme within
the container around it). `ParseNothing` is the empty text: it is refused before the
reset, so `text` is empty and the tree of the text before stays. `Findt` has the types,
`PK_LWJSON_NULLABLE` and `PK_LWJSON_TYPE_IGNORE` (`"any"`). `MaxPath` and `MaxIndex`
bound the paths that the property asks for; the code has no such bound.

* `json_texts`: every text of up to 9 lexemes and then every text of up to 3 with
  the same tokens; 3 tokens, 2 names, 2 scalar types. Nine lexemes reach three
  members, two levels of nesting and trailing text, the second text meets what the
  first left. Shows that JSON is accepted, or refused for want of tokens alone, that
  the tokens are the tree of the text, and that every search of one or two segments
  from every value finds the first match. The tree and the searches are promised for a
  text that was accepted (`Accepted`). Deadlock checking is off: texts end.

**Seen while modelling, without a run.** The parser accepts more than JSON:
`[1,,2]`, `[1,]`, a missing comma after a container, and a text that ends while only
the root is open (`[[]`), where `lwjson.c:476` speaks of valid JSON. The empty text
leaves the tree of the text before in place and searches find it (`lwjson.c:488`). The properties
therefore say that JSON is accepted, not that only JSON is.

## 11. Proofs

All theorems hold for every value of the constants under the named assumptions
of each module (sizes are positive, names are distinct, `PartSize % Blk = 0`
which is the assertion of `ota.c:111`).

* **NetlogProofs**: `TypeCorrect`, `NoDuplicates`, `Ownership`, `UdpCounted`,
  `AssertHolds` (the assertion of `netlog.c:296`), `DatagramFits`. None of them is
  inductive. `IInv` adds `LockInv` (a task is between take and give exactly when it
  holds the mutex, so nobody else changes the table in a send loop), `BlockInv`,
  `UdpInv` (a block is cut to a datagram whenever UDP subscribers are left) and
  `CtlInv`: what the control task has found out in one critical section is still
  true in the next, since others only remove entries. The finite set lemmas carry
  the UDP count through removals.
  `SkipsBounded`, `Numbers`, `Leaks` and `Refinement` (`Netlog` implements
  `LogSubscriptions`) say what a step may do; `Numbers` says when a packet number
  moves and when it stays. For them `StepInv` adds to `IInv` what a send loop and the
  control task remember: `LoopInv` (while a block is sent, the subscribers behind the
  index that were not served are no more than were removed, and those before it were
  not served yet) and `PlaceInv` (which sockets and which request the control task
  has at each place, also while it flushes a line of its own). The first bounds the
  loss that the index of `netlog.c:395` causes, the second leaves `ctl_sub()` as the
  only place where a socket gets out of sight. In the refinement a removal is one
  address less because no address is in the table twice, and an insertion finds
  fewer than `MaxClients` addresses because its slot was free.
* **NetlogSessionProofs**: `TypeCorrect`, `OneConnection` and `Keeps` (the action property
  `KeepsConnection` with the causes of `GivesUp`), for any receivers, table, number of sessions, copies of a
  boot message and connections waiting. `IInv` bounds the boot messages by what was
  sent (`MailInv`), says that a receiver in its loop takes a connection the board
  writes to for one of the board's session (`InfoInv`), and that the board writes to
  at most one connection of a receiver, waiting or accepted (`OneLive`): without it,
  accepting a second connection could push out a live first one.
* **LogLockProofs**: `TypeCorrect`, `DeadlockCause`, `NoDeadlock`, `Backtraces`, for any number of
  tasks. `LInv` says which locks each place in a log call holds. In a set of
  tasks that wait for each other and do not report, nobody waits for `C` (its
  holder would run), so nobody waits for `F`, so nobody waits for `B`.
* **OtaProofs**: `TypeCorrect`, `Bootable`, `Ready`, `Truthful`, `Once` (the action
  property `ProgrammedOnce`) and `Refinement` (`Ota` implements `AtomicUpdate`), for any
  sizes. `IInv` says which part of the
  update partition is erased at each place (`FlashInv`), that otadata names the
  running partition until a request succeeds (`BootInv`), and that the boot
  partition holds the client's image exactly when `done` (`ClientInv`). That the
  rounded-up number of blocks covers what was written is `BlocksOf`. For the
  refinement: two images in one partition would differ in their first unit, so
  the installed image is `req.data` or `old`, depending on `done`. A unit is
  programmed once because the units from `part_bytes_written` on are clean while a
  request writes.
* **MqttProofs**: `TypeCorrect`, `RightCallback`, `Subscribed`, `Copied`, `Refines`
  (`Mqtt` implements `MessageDispatch`), for any array, queue length and number of
  retries. `IInv` adds `Locked` (who works on the array holds the mutex, and a
  callback's call exists only while a callback runs), `AtEnd` (what the
  client and its task are at each place of delete), `Holds` (which message and which
  entry the handler has at each place, and that the entry is still its topic's
  unless `moved`), `Exchanging` (what the broker has between the two loops of a call
  whose connection held), `InTurn` (messages in handler, queue and task are in order
  and all different) and `OwnedLive`. `Copied` follows from `InTurn`: freeing one
  message's copies touches nobody else's.
* **I2cProofs**: `TypeCorrect`, `Balanced`, `Kept` (`LineKept`, with its condition
  `~stale`), for any number of tasks and lines.
  The invariant adds `CallsInside` (a call past its take is the owner's), `CacheTrue`
  (the cache is the multiplexer's line unless `stale`), `LineRelied` (the line the
  holder relies on is the cached one, or a running scan will return to it) and
  `AtRest`.
* **IpProofs**: `TypeCorrect`, `Taken`, for fields of any length, any window and any
  number of retries. `InOrder` says that the pipe holds consecutive bytes between
  what was received and what was written; `LastPiece` that the buffer begins with the
  last piece read.
* **JsonProofs**: `TypeCorrect`, `BuildsTree` (`TreeOfText`: after a parse that
  succeeds the tokens are the tree of the text), `AcceptsJson` (`JsonAccepted`) and
  `FindsInText` (`FindsFirstMatch`), for any number of tokens, names, texts of any
  length and nesting and paths of any length. The invariant `HasTree` says that at each lexeme
  the tokens are the tree of what was read so far: there are a parent and a place in
  the text for each token and a set of open containers (`Tree`), such that the open
  containers contain each other (`Shape`), each list of children is the members in
  their order and an open container, whose `next` is the pointer to its parent, is the
  last in its list (`Links`), the places are the values of the text in order and the
  depth of the text at a place tells the parent (`Places`), and types and names are
  those of the text (`Marks`). The induction that a list of children needs is done
  without an induction theorem: a set of numbers has a least element (`Least`), so a
  recursive function on numbers exists (`Recursion`) and a chain of tokens that rises
  visits just the members of its container (`Follow`).
  For `AcceptsJson` the invariant also says which lexeme came last at each place of the
  parser (`BuildInv`). The container being filled is the last that the text has open
  (`LastOpen`), so what the grammar asks of the next lexeme is a question of the type of
  that token and of the last lexeme (`Allowed`, `FitsNext`), and each place of the
  parser refuses only what that excludes (`Refused`) or a token for which there is no
  room, when the text has more values than tokens.
  `FindsInText` starts from the tree at rest (`TextTree`). What the search finds with
  `n` segments to go is the first end of the walks down those segments (`FindsFirst`):
  the candidates at a token are its members that the segment fits (`TriedRead`), all
  that is below one of them comes before the next (`WalkStays`), so the first result of
  the candidates is the first of all (`FirstOfAll`). Those walks are the ones of
  `Reached` (`ReachedRead`).

**Only model-checked**: everything temporal under fairness (`RequestAnswered`,
`MutexReleased`, `LogCallReturnsInSafeBuild`, `UpdateTakesEffect`, `RequestEnds`,
`NobodyWaitsForEver`, `LeakEndsInRestart`, `SendStopsOnlyWhenFull`, `FollowsBoot`),
which is out of the prover's reach.

## 12. Not modelled

mdns, misc and btrace.S keep no shared state; wifi.c and sysmon.c are compiled out;
the remaining tools are sequential filters. Left out of what is modelled: the UDP
functions of ip (single calls) and the UDP mode of the netlog client, the scanning
of strings and numbers in lwjson (its streaming parser is declared and not in the
sources), the text of log messages, formatting of sizes and the stack on which a
flush runs.
