------------------------------- MODULE Netlog -------------------------------
(***************************************************************************)
(* The network log of src/src/lib/netlog.c.  One control task accepts      *)
(* subscribe / unsubscribe requests on TCP port 8419; every task that      *)
(* prints runs stdout_flush(), which sends the output to every subscriber  *)
(* under clients_mutex and drops the subscribers it cannot reach.          *)
(*                                                                         *)
(* Abstractions.  Output is counted in units (BufSize, MaxOut), an address *)
(* string is a member of Addrs, a socket a member of Handles (what lwIP    *)
(* has left beside the listening socket).  Consecutive log calls between   *)
(* which the task touches no shared state are one message.  A critical     *)
(* section that prints nothing is one step, guarded by the mutex.          *)
(***************************************************************************)
EXTENDS Integers, FiniteSets

CONSTANTS
    Loggers,      \* tasks that only print
    Ctl,          \* the task that runs ctl_server_task()
    NoTask,       \* nobody holds clients_mutex
    Addrs,        \* ip:port strings of log receivers
    NoAddr,       \* what an untouched table slot holds
    Handles,      \* socket handles
    NoHd,         \* PK_SOCKERR, or no socket
    MaxClients,   \* CONF_LIB_NETLOG_MAX_CLIENTS
    BufSize,      \* CONF_LIB_NETLOG_BUF_SIZE
    MaxOut,       \* bound on the length of one flush
    PackMod,      \* pack_cnt is a 7-bit field: 128
    BtraceOnError \* CONF_LOG_BTRACE_ON_ERROR

ASSUME CtlAssumption == Ctl \notin Loggers /\ NoTask \notin Loggers \cup {Ctl}
ASSUME NamesAssumption == NoAddr \notin Addrs /\ NoHd \notin Handles
ASSUME SizesAssumption ==
    /\ MaxClients \in Nat \ {0}
    /\ BufSize \in Nat \ {0}
    /\ MaxOut \in Nat \ {0}
    /\ PackMod \in Nat \ {0}
ASSUME BuildAssumption == BtraceOnError \in BOOLEAN

Tasks == Loggers \cup {Ctl}
Slots == 0 .. MaxClients - 1
Protos == {"udp", "tcp", "other"}
\* Nobody looks at the protocol of an unsubscription.
Requests == [op : {"S"}, addr : Addrs, proto : Protos]
            \cup [op : {"U"}, addr : Addrs, proto : {"other"}]
NoReq == [op |-> "none", addr |-> NoAddr, proto |-> "other"]
\* RESP_STATUS_OK stands for PK_NETLOG_OK and PK_NETLOG_OK_IGNORED,
\* RESP_STATUS_ERR for the four PK_NETLOG_ERR_x.
Resps == {"+", "-"}

FlushLabels == {"take", "block", "send", "report"}
LoggerLabels == {"idle"} \cup FlushLabels
CtlLabels == FlushLabels \cup
    {"accept", "recv", "dup", "free", "socket", "connect", "insert", "unsub",
     "list", "list_read", "reply", "close"}

VARIABLES
    clients,          \* the table: a C array
    clients_num,
    udp_clients_num,
    mutex,            \* the holder of clients_mutex
    open,             \* sockets open in lwIP
    pc,               \* where each task is
    cont,             \* where a task goes on after the flush it is in
    req,              \* the request the control task serves
    resp,             \* the status ctl_handle_req()'s result stands for
    ctl_hd,           \* the control connection
    log_hd,           \* the log socket ctl_sub() opened and did not store yet
    li,               \* the loop index of the subscriber listing
    n,                \* flush_with_shstack_n
    sent,             \* units of this flush already handled
    blk,              \* cur_blk_size
    i,                \* the send loop's index
    loaded,           \* the block was copied to flush_with_shstack_udpbuf
    served,           \* history: sockets the current block was sent to
    removed           \* history: subscribers dropped during the current block

table == <<clients, clients_num, udp_clients_num>>
ctlVars == <<req, resp, ctl_hd, log_hd, li>>
flushVars == <<n, sent, blk, i, loaded, served, removed>>
vars == <<table, mutex, open, pc, cont, ctlVars, flushVars>>

Entry == [hd : Handles \cup {NoHd}, addr : Addrs \cup {NoAddr},
          udp : BOOLEAN, pack_cnt : 0 .. PackMod - 1]
\* What a slot at or above clients_num holds: PK_NOINIT memory, or the copy
\* that memmove() leaves.  One value stands for all: nothing depends on it.
Stale == [hd |-> NoHd, addr |-> NoAddr, udp |-> FALSE, pack_cnt |-> 0]
Live == 0 .. clients_num - 1
UdpSockets == {clients[j].hd : j \in {k \in Live : clients[k].udp}}

TypeOK ==
    /\ clients \in [Slots -> Entry]
    /\ clients_num \in 0 .. MaxClients
    /\ udp_clients_num \in Int
    /\ mutex \in Tasks \cup {NoTask}
    /\ open \subseteq Handles
    /\ pc \in [Tasks -> LoggerLabels \cup CtlLabels]
    /\ cont \in [Tasks -> LoggerLabels \cup CtlLabels]
    /\ req \in Requests \cup {NoReq}
    /\ resp \in Resps \cup {"none"}
    /\ ctl_hd \in Handles \cup {NoHd}
    /\ log_hd \in Handles \cup {NoHd}
    /\ li \in 0 .. MaxClients
    /\ n \in 0 .. MaxOut
    /\ sent \in 0 .. MaxOut
    /\ blk \in 0 .. MaxOut
    /\ i \in Nat
    /\ loaded \in BOOLEAN
    /\ served \subseteq Handles
    /\ removed \in Nat

\* What pk_netlog_init() and the start of ctl_server_task() leave.
NoClients == [j \in Slots |-> Stale]
AtRest == [t \in Tasks |-> IF t = Ctl THEN "accept" ELSE "idle"]

Init ==
    /\ clients = NoClients /\ clients_num = 0 /\ udp_clients_num = 0
    /\ mutex = NoTask /\ open = {}
    /\ pc = AtRest /\ cont = AtRest
    /\ req = NoReq /\ resp = "none" /\ ctl_hd = NoHd /\ log_hd = NoHd /\ li = 0
    /\ n = 0 /\ sent = 0 /\ blk = 0 /\ i = 0
    /\ loaded = FALSE /\ served = {} /\ removed = 0

-----------------------------------------------------------------------------
(* The table: get_client_idx_by_addr_str, get_free_idx_in_clients,         *)
(* del_client.  Callers hold the mutex.                                    *)

\* get_client_idx_by_addr_str(a) = j: the first live slot with this address.
ClientIdx(j, a) ==
    /\ j \in Live
    /\ clients[j].addr = a
    /\ \A k \in 0 .. j - 1 : clients[k].addr # a

\* Mutant: the search stops one slot early.
SubscribedShort(a) == \E j \in 0 .. clients_num - 2 : clients[j].addr = a

\* get_client_idx_by_addr_str(a) >= 0.
Subscribed(a) == \E j \in Live : clients[j].addr = a

\* Mutant: no check for a full table.
HasFreeIdxAlways == TRUE

\* get_free_idx_in_clients() >= 0; the index is then clients_num.
HasFreeIdx == clients_num # MaxClients

\* Mutant: memmove() starts one slot late, the removed slot stays.
ShiftedLate(j) == [k \in Slots |-> IF k <= j THEN clients[k]
                                   ELSE IF k < clients_num - 1 THEN clients[k + 1]
                                   ELSE Stale]

\* The memmove() of del_client: the slots behind j come one slot forward.
Shifted(j) == [k \in Slots |-> IF k < j THEN clients[k]
                               ELSE IF k < clients_num - 1 THEN clients[k + 1]
                               ELSE Stale]

\* Mutant: the counter is not decremented.
UdpAfterDelKept(j) == udp_clients_num

UdpAfterDel(j) == IF clients[j].udp THEN udp_clients_num - 1 ELSE udp_clients_num

\* Mutant: the socket of the removed subscriber is not closed.
DelClientOpen(j) ==
    /\ open' = open
    /\ udp_clients_num' = UdpAfterDel(j)
    /\ clients' = Shifted(j)
    /\ clients_num' = clients_num - 1

DelClient(j) ==
    /\ open' = open \ {clients[j].hd}
    /\ udp_clients_num' = UdpAfterDel(j)
    /\ clients' = Shifted(j)
    /\ clients_num' = clients_num - 1

-----------------------------------------------------------------------------
(* Control flow of a task.                                                 *)

Goto(t, l) == pc' = [pc EXCEPT ![t] = l] /\ UNCHANGED cont

\* t prints (PKLOGx): it flushes its output and goes on at l.
LogThen(t, l) ==
    /\ pc' = [pc EXCEPT ![t] = "take"]
    /\ cont' = [cont EXCEPT ![t] = l]

At(t, l) == pc[t] = l

-----------------------------------------------------------------------------
(* stdout_flush() and flush_with_shstack().                                *)

\* A task prints something.
LogCall(t) ==
    /\ At(t, "idle")
    /\ LogThen(t, "idle")
    /\ UNCHANGED <<table, mutex, open, ctlVars, flushVars>>

\* CLIENTS_MUX_TAKE in stdout_flush, with the buffer newlib hands over.
FlushTake(t) ==
    /\ At(t, "take")
    /\ mutex = NoTask
    /\ mutex' = t
    /\ n' \in 1 .. MaxOut
    /\ sent' = 0
    /\ Goto(t, "block")
    /\ UNCHANGED <<table, open, ctlVars, blk, i, loaded, served, removed>>

\* Mutant: all that is left is one block.
BlockSizeWhole == n - sent

\* Without UDP subscribers the rest of the output is one block, straight from
\* newlib's buffer; otherwise a block fits the datagram buffer.
BlockSize ==
    IF udp_clients_num = 0 \/ n - sent <= BufSize THEN n - sent ELSE BufSize

UsesUdpBuf == udp_clients_num # 0

\* Mutant: the loop starts at the second subscriber.
FirstClientOne == 1

\* for (int i = 0; ...)
FirstClient == 0

BlockStart(t) ==
    /\ At(t, "block")
    /\ sent < n
    /\ blk' = BlockSize
    /\ loaded' = UsesUdpBuf
    /\ i' = FirstClient
    /\ served' = {}
    /\ removed' = 0
    /\ Goto(t, "send")
    /\ UNCHANGED <<table, mutex, open, ctlVars, n, sent>>

\* Mutant: the number stays.
CountedNever(j) == clients

\* Mutant: the number has no 7-bit field to wrap in.
CountedWide(j) ==
    IF clients[j].udp THEN [clients EXCEPT ![j].pack_cnt = @ + 1] ELSE clients

\* pack_cnt++ on a 7-bit field; only datagrams carry it.
Counted(j) ==
    IF clients[j].udp
    THEN [clients EXCEPT ![j].pack_cnt = (@ + 1) % PackMod]
    ELSE clients

SendOk(t) ==
    /\ At(t, "send")
    /\ i < clients_num
    /\ clients' = Counted(i)
    /\ served' = served \cup {clients[i].hd}
    /\ i' = i + 1
    /\ UNCHANGED <<clients_num, udp_clients_num, mutex, open, pc, cont, ctlVars,
                   n, sent, blk, loaded, removed>>

\* The send failed.  The failure is reported twice (ip.c:138, netlog.c:411)
\* with clients_mutex held; stdout is the UART, so no flush begins, but with
\* backtraces the report wants pk_btrace_mutex, which LogLock models.
SendFail(t) ==
    /\ At(t, "send")
    /\ i < clients_num
    /\ Goto(t, "report")
    /\ UNCHANGED <<table, mutex, open, ctlVars, flushVars>>

\* The loop's ++i after the del_client(i) in its body.
NextAfterDel == i + 1

\* The reports are out and the subscriber is removed.  The datagram number it
\* used goes with its slot.
DropClient(t) ==
    /\ At(t, "report")
    /\ DelClient(i)
    /\ i' = NextAfterDel
    /\ removed' = removed + 1
    /\ Goto(t, "send")
    /\ UNCHANGED <<mutex, ctlVars, n, sent, blk, loaded, served>>

\* Mutant: the block is not counted as sent.
SentAfterBlockLost == sent

\* sent += cur_blk_size
SentAfterBlock == sent + blk

\* End of the loop over the subscribers; the block goes to the UART when the
\* table is empty.
BlockEnd(t) ==
    /\ At(t, "send")
    /\ i >= clients_num
    /\ sent' = SentAfterBlock
    /\ blk' = 0 /\ i' = 0 /\ loaded' = FALSE /\ served' = {} /\ removed' = 0
    /\ Goto(t, "block")
    /\ UNCHANGED <<table, mutex, open, ctlVars, n>>

\* CLIENTS_MUX_GIVE; the task goes on.
FlushGive(t) ==
    /\ At(t, "block")
    /\ sent >= n
    /\ mutex' = NoTask
    /\ n' = 0 /\ sent' = 0
    /\ Goto(t, cont[t])
    /\ UNCHANGED <<table, open, ctlVars, blk, i, loaded, served, removed>>

FlushStep(t) ==
    \/ BlockStart(t) \/ SendOk(t) \/ SendFail(t) \/ DropClient(t)
    \/ BlockEnd(t) \/ FlushGive(t)

\* The steps of a flush that wait for no other task: all but the report of a
\* failed send with its backtrace.
FreeFlushStep(t) ==
    /\ FlushStep(t)
    /\ BtraceOnError => ~At(t, "report")

-----------------------------------------------------------------------------
(* ctl_server_task(): one connection at a time.                            *)

Accept(h) ==
    /\ At(Ctl, "accept")
    /\ h \notin open
    /\ open' = open \cup {h}
    /\ ctl_hd' = h
    /\ Goto(Ctl, "recv")
    /\ UNCHANGED <<table, mutex, req, resp, log_hd, li, flushVars>>

\* accept() failed, for want of a socket or for the transport's reasons.  The
\* code jumps to err_cont with err_msg and cl_addr_str uninitialised: what it
\* prints is garbage, or reading through err_msg panics and the chip restarts.
AcceptFailSurvives ==
    /\ At(Ctl, "accept")
    /\ LogThen(Ctl, "accept")
    /\ UNCHANGED <<table, mutex, open, ctlVars, flushVars>>

AcceptFailPanics ==
    /\ At(Ctl, "accept")
    /\ clients' = NoClients /\ clients_num' = 0 /\ udp_clients_num' = 0
    /\ mutex' = NoTask /\ open' = {}
    /\ pc' = AtRest /\ cont' = AtRest
    /\ req' = NoReq /\ resp' = "none" /\ ctl_hd' = NoHd /\ log_hd' = NoHd /\ li' = 0
    /\ n' = 0 /\ sent' = 0 /\ blk' = 0 /\ i' = 0
    /\ loaded' = FALSE /\ served' = {} /\ removed' = 0

\* The request is decided: its result is logged, then the task goes on at l.
Answer(status, l) == resp' = status /\ req' = NoReq /\ LogThen(Ctl, l)

\* ctl_handle_req(): all of a request has arrived ...
Recv(r) ==
    /\ At(Ctl, "recv")
    /\ req' = r
    /\ Goto(Ctl, IF r.op = "S" THEN "dup" ELSE "unsub")
    /\ UNCHANGED <<table, mutex, open, resp, ctl_hd, log_hd, li, flushVars>>

\* ... or recv() failed or came short, or magic or operation are unknown.
RecvMalformed ==
    /\ At(Ctl, "recv")
    /\ Answer("-", "reply")
    /\ UNCHANGED <<table, mutex, open, ctl_hd, log_hd, li, flushVars>>

-----------------------------------------------------------------------------
(* ctl_sub().                                                              *)

\* First critical section: is the address subscribed?
SubCheckDup ==
    /\ At(Ctl, "dup")
    /\ mutex = NoTask
    /\ \/ Subscribed(req.addr) /\ Answer("+", "reply")
       \/ ~Subscribed(req.addr) /\ Goto(Ctl, "free") /\ UNCHANGED <<req, resp>>
    /\ UNCHANGED <<table, mutex, open, ctl_hd, log_hd, li, flushVars>>

\* Second critical section: is there a free slot?
SubCheckFree ==
    /\ At(Ctl, "free")
    /\ mutex = NoTask
    /\ \/ HasFreeIdx /\ Goto(Ctl, "socket") /\ UNCHANGED <<req, resp>>
       \/ ~HasFreeIdx /\ Answer("-", "reply")
    /\ UNCHANGED <<table, mutex, open, ctl_hd, log_hd, li, flushVars>>

\* The log socket, without the mutex.
SubBadProto ==
    /\ At(Ctl, "socket")
    /\ req.proto = "other"
    /\ Answer("-", "reply")
    /\ UNCHANGED <<table, mutex, open, ctl_hd, log_hd, li, flushVars>>

SubSocket(h) ==
    /\ At(Ctl, "socket")
    /\ req.proto # "other"
    /\ h \notin open
    /\ open' = open \cup {h}
    /\ log_hd' = h
    /\ Goto(Ctl, IF req.proto = "tcp" THEN "connect" ELSE "insert")
    /\ UNCHANGED <<table, mutex, req, resp, ctl_hd, li, flushVars>>

SubSocketFail ==
    /\ At(Ctl, "socket")
    /\ req.proto # "other"
    /\ Answer("-", "reply")
    /\ UNCHANGED <<table, mutex, open, ctl_hd, log_hd, li, flushVars>>

SubConnectOk ==
    /\ At(Ctl, "connect")
    /\ Goto(Ctl, "insert")
    /\ UNCHANGED <<table, mutex, open, ctlVars, flushVars>>

\* What the failing connect() leaves open: the code does not close log_chd.
OpenAfterConnectFail == open

SubConnectFail ==
    /\ At(Ctl, "connect")
    /\ open' = OpenAfterConnectFail
    /\ log_hd' = NoHd
    /\ Answer("-", "reply")
    /\ UNCHANGED <<table, mutex, ctl_hd, li, flushVars>>

NewEntry == [hd |-> log_hd, addr |-> req.addr, udp |-> req.proto = "udp", pack_cnt |-> 0]

\* Third critical section: the free index is computed again, since a flush may
\* have removed subscribers; PK_ASSERT(i >= 0) is InsertHasRoom below.
SubInsert ==
    /\ At(Ctl, "insert")
    /\ mutex = NoTask
    /\ HasFreeIdx
    /\ clients' = [clients EXCEPT ![clients_num] = NewEntry]
    /\ udp_clients_num' = IF req.proto = "udp" THEN udp_clients_num + 1 ELSE udp_clients_num
    /\ clients_num' = clients_num + 1
    /\ log_hd' = NoHd
    /\ Answer("+", "list")
    /\ UNCHANGED <<mutex, open, ctl_hd, li, flushVars>>

-----------------------------------------------------------------------------
(* ctl_unsub().                                                            *)

UnsubFound(j) ==
    /\ At(Ctl, "unsub")
    /\ mutex = NoTask
    /\ ClientIdx(j, req.addr)
    /\ DelClient(j)
    /\ Answer("+", "list")
    /\ UNCHANGED <<mutex, ctl_hd, log_hd, li, flushVars>>

UnsubNotFound ==
    /\ At(Ctl, "unsub")
    /\ mutex = NoTask
    /\ ~Subscribed(req.addr)
    /\ Answer("+", "reply")
    /\ UNCHANGED <<table, mutex, open, ctl_hd, log_hd, li, flushVars>>

-----------------------------------------------------------------------------
(* The answer.                                                             *)

\* for (i = 0; i < clients_num; ++i): the test, without the mutex ...
ListTest ==
    /\ At(Ctl, "list")
    /\ Goto(Ctl, IF li < clients_num THEN "list_read" ELSE "reply")
    /\ UNCHANGED <<table, mutex, open, ctlVars, flushVars>>

\* Mutant: the loop index stays.
NextListedStuck == li

\* ++i of the listing.
NextListed == li + 1

\* ... and the body, which reads the slot and prints it.
ListRead ==
    /\ At(Ctl, "list_read")
    /\ li' = NextListed
    /\ LogThen(Ctl, "list")
    /\ UNCHANGED <<table, mutex, open, req, resp, ctl_hd, log_hd, flushVars>>

\* The status byte and what follows it; a failing send logs.
Reply ==
    /\ At(Ctl, "reply")
    /\ Goto(Ctl, "close") \/ LogThen(Ctl, "close")
    /\ UNCHANGED <<table, mutex, open, ctlVars, flushVars>>

CloseCtl ==
    /\ At(Ctl, "close")
    /\ open' = open \ {ctl_hd}
    /\ ctl_hd' = NoHd /\ resp' = "none" /\ li' = 0
    /\ Goto(Ctl, "accept")
    /\ UNCHANGED <<table, mutex, req, log_hd, flushVars>>

-----------------------------------------------------------------------------
\* The steps of the control task that wait for nobody outside but TCP itself.
CtlStep ==
    \/ SubCheckFree \/ SubBadProto \/ SubSocketFail
    \/ \E h \in Handles : SubSocket(h)
    \/ SubConnectOk \/ SubConnectFail
    \/ SubCheckDup \/ SubInsert
    \/ \E j \in Slots : UnsubFound(j)
    \/ UnsubNotFound
    \/ ListTest \/ ListRead \/ Reply \/ CloseCtl

\* The peer decides when to connect and what to send.
CtlInput ==
    \/ \E h \in Handles : Accept(h)
    \/ AcceptFailSurvives \/ AcceptFailPanics
    \/ \E r \in Requests : Recv(r)
    \/ RecvMalformed

Next ==
    \/ \E t \in Loggers : LogCall(t)
    \/ \E t \in Tasks : FlushTake(t) \/ FlushStep(t)
    \/ CtlStep
    \/ CtlInput

Spec == Init /\ [][Next]_vars

\* The holder of the mutex keeps running: sends end, with an answer or an error,
\* and so does close().  Nothing is said of a report with a backtrace: it waits
\* for pk_btrace_mutex, whose holder may wait for clients_mutex.
\* The control task is the highest-priority task that waits for the mutex, so it
\* gets it when the mutex keeps being released (strong fairness).
Fairness ==
    /\ \A t \in Tasks : WF_vars(FreeFlushStep(t))
    /\ SF_vars(CtlStep)
    /\ SF_vars(FlushTake(Ctl))

FairSpec == Spec /\ Fairness

-----------------------------------------------------------------------------
(* Safety.                                                                 *)

\* At most one live entry per address, although ctl_sub() checks for a
\* duplicate and inserts in different critical sections (netlog.c:261, 292).
NoDuplicateSubscriber ==
    \A j, k \in Live : clients[j].addr = clients[k].addr => j = k

\* Every live entry owns an open socket of its own, other than the control
\* connection and the socket being set up: del_client() closes and shifts
\* without ever sharing or dropping one (netlog.c:351).
SocketsOwned ==
    /\ \A j \in Live : clients[j].hd \in open \ {ctl_hd, log_hd}
    /\ \A j, k \in Live : clients[j].hd = clients[k].hd => j = k
    /\ ctl_hd # NoHd => ctl_hd \in open /\ ctl_hd # log_hd
    /\ log_hd # NoHd => log_hd \in open

\* The cached number of UDP subscribers is right (netlog.c:58, 306, 354).
UdpCount == udp_clients_num = Cardinality(UdpSockets)

\* PK_ASSERT(i >= 0), "should never fail", netlog.c:296.
InsertHasRoom == At(Ctl, "insert") => clients_num < MaxClients

\* A datagram is sent from the buffer the block was copied to, and fits it
\* (netlog.c:387-392, 399-405).
UdpBlockFits ==
    \A t \in Tasks :
        At(t, "send") /\ i < clients_num /\ clients[i].udp => loaded /\ blk <= BufSize

\* A block is not sent to as many live subscribers, at most, as were removed
\* while it was sent (the index moves on over the slot that was filled by
\* memmove, netlog.c:395-413).
SkippedAtMostRemoved ==
    \A t \in Tasks : At(t, "send") /\ i >= clients_num =>
        Cardinality({j \in Live : clients[j].hd \notin served}) <= removed

\* The packet number of subscriber e moves by one when a datagram was sent to
\* it, and only then.
NumberAfter(e) ==
    IF e.hd \in served' \ served THEN (e.pack_cnt + 1) % PackMod ELSE e.pack_cnt

\* The sequence number of a UDP subscriber starts at zero and moves by one just
\* when a datagram is sent to it, whatever is removed around it: a receiver
\* that misses a number missed a datagram, and one that gets the next number
\* missed none (netlog.c:299-305, 351-362, 397-408).
SequenceFollowsSends ==
    [][\A k \in 0 .. clients_num' - 1 : clients'[k].udp =>
        IF \E j \in Live : clients[j].hd = clients'[k].hd
        THEN \E j \in Live : /\ clients[j].hd = clients'[k].hd
                             /\ clients'[k].pack_cnt = NumberAfter(clients[j])
        ELSE clients'[k].pack_cnt = 0]_vars

\* Sockets nobody refers to any more.
Leaked == open \ ({clients[j].hd : j \in Live} \cup {ctl_hd, log_hd})

\* A socket is forgotten without being closed in one place only, the failing
\* connect of ctl_sub() (netlog.c:286): that step loses the log socket it was
\* connecting, and no other step of any task loses one.
LeakOnlyOnConnectFailure ==
    [][Leaked' \subseteq Leaked \cup
           (IF At(Ctl, "connect") /\ resp' = "-" THEN {log_hd} ELSE {})]_vars

-----------------------------------------------------------------------------
(* Refinement of LogSubscriptions: the table is the set of its addresses,   *)
(* and a request is being served until its result is decided.               *)

Subscribers == {clients[j].addr : j \in Live}

CallState ==
    IF resp # "none" THEN [phase |-> resp, op |-> "none", addr |-> NoAddr]
    ELSE IF req # NoReq THEN [phase |-> "serving", op |-> req.op, addr |-> req.addr]
    ELSE [phase |-> "idle", op |-> "none", addr |-> NoAddr]

Abstract == INSTANCE LogSubscriptions WITH subs <- Subscribers, call <- CallState

\* The server with its table, its mutex and its sockets does what
\* LogSubscriptions promises: an answer "+" to a subscription comes with the
\* address in the table, a refusal leaves the table alone, a failed send drops
\* one receiver and no other.
ImplementsSubscriptions == Abstract!Spec

-----------------------------------------------------------------------------
(* Liveness.                                                               *)

\* In the build without backtraces a request that has arrived is answered and
\* its connection closed, whatever the printing tasks do with the mutex and
\* whatever sends fail.  The default build does not promise it (LogLock).
RequestAnswered ==
    ~BtraceOnError /\ pc[Ctl] \in {"dup", "unsub"} ~> At(Ctl, "accept")

\* In that build a flush ends: whoever takes the mutex gives it back, failed
\* sends and dropped subscribers included.
MutexReleased ==
    \A t \in Tasks : ~BtraceOnError /\ mutex = t ~> mutex # t

-----------------------------------------------------------------------------
(* What a comment says and the code does not do.                            *)

\* netlog.c:416 "no subs or failed to send data to all subs": a block that was
\* sent to nobody goes to the UART, which is written when the table is empty.
BlockNotLost ==
    \A t \in Tasks : At(t, "send") /\ i >= clients_num /\ served = {} => clients_num = 0
=============================================================================
