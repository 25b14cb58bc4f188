---------------------------- MODULE NetlogProofs ----------------------------
(***************************************************************************)
(* Netlog for any number of tasks, receivers, sockets and table slots: its *)
(* safety, and what a step may do - whom a block passes over, what the     *)
(* packet numbers and the sockets do, and that the server implements       *)
(* LogSubscriptions.                                                       *)
(***************************************************************************)
EXTENDS Netlog, FiniteSetTheorems, TLAPS

-----------------------------------------------------------------------------
(* The inductive invariant.                                                *)

\* A task is between taking and giving the mutex exactly when it holds it.
LockInv ==
    /\ \A t \in Tasks : pc[t] \in {"block", "send", "report"} <=> mutex = t
    /\ \A t \in Loggers : pc[t] \in LoggerLabels /\ cont[t] = "idle"
    /\ pc[Ctl] \in CtlLabels
    /\ cont[Ctl] \in {"accept", "list", "reply", "close"}

\* The block being sent is part of what is left of the flush.
BlockInv ==
    /\ sent + blk <= n
    /\ blk # 0 => mutex \in Tasks /\ pc[mutex] \in {"send", "report"}

\* Whenever there is a UDP subscriber in a send loop the block was copied and
\* cut to the size of a datagram.  Who could not be reached is still there
\* while that is reported.
SendInv ==
    /\ \A t \in Tasks : pc[t] \in {"send", "report"} =>
        \/ loaded /\ blk <= BufSize
        \/ \A j \in Live : ~clients[j].udp
    /\ \A t \in Tasks : pc[t] = "report" => i < clients_num

\* What the control task knows of the table between its critical sections: only
\* removals happen there.
CtlInv ==
    /\ pc[Ctl] \in {"dup", "free", "socket", "connect", "insert", "unsub"} => req \in Requests
    /\ pc[Ctl] \in {"free", "socket", "connect", "insert"} =>
           \A j \in Live : clients[j].addr # req.addr
    /\ pc[Ctl] \in {"socket", "connect", "insert"} => clients_num < MaxClients
    /\ pc[Ctl] \in {"connect", "insert"} => log_hd # NoHd
    /\ pc[Ctl] = "list_read" => li < MaxClients

IInv ==
    /\ TypeOK
    /\ LockInv
    /\ BlockInv
    /\ SendInv
    /\ CtlInv
    /\ NoDuplicateSubscriber
    /\ SocketsOwned
    /\ UdpCount

USE CtlAssumption, NamesAssumption, SizesAssumption

-----------------------------------------------------------------------------
(* Lemmas.                                                                 *)

\* Only the table matters to the three invariants of the table, and only the
\* sockets beside it.
LEMMA TableUnchanged ==
    ASSUME NoDuplicateSubscriber, UdpCount, UNCHANGED table
    PROVE  NoDuplicateSubscriber' /\ UdpCount' /\ Live' = Live
BY DEF NoDuplicateSubscriber, UdpCount, UdpSockets, Live, table

LEMMA SocketsUnchanged ==
    ASSUME SocketsOwned, UNCHANGED <<table, open, ctl_hd, log_hd>>
    PROVE  SocketsOwned'
BY DEF SocketsOwned, Live, table

LEMMA StaleType == Stale \in Entry
BY DEF Stale, Entry

LEMMA InitInv == ASSUME Init PROVE IInv
<1>1. TypeOK
    <2>1. clients \in [Slots -> Entry]
        BY StaleType DEF Init, NoClients
    <2>2. pc \in [Tasks -> LoggerLabels \cup CtlLabels] /\ cont = pc
        BY DEF Init, AtRest, Tasks, LoggerLabels, CtlLabels
    <2>3. clients_num \in 0 .. MaxClients /\ udp_clients_num \in Int /\ li \in 0 .. MaxClients
        BY DEF Init
    <2>4. n \in 0 .. MaxOut /\ sent \in 0 .. MaxOut /\ blk \in 0 .. MaxOut /\ i \in Nat
        BY DEF Init
    <2>5. served \subseteq Handles /\ removed \in Nat /\ loaded \in BOOLEAN /\ open \subseteq Handles
        BY DEF Init
    <2>6. mutex \in Tasks \cup {NoTask} /\ req \in Requests \cup {NoReq} /\ resp \in Resps \cup {"none"}
        BY DEF Init
    <2>7. ctl_hd \in Handles \cup {NoHd} /\ log_hd \in Handles \cup {NoHd}
        BY DEF Init
    <2> QED
        BY <2>1, <2>2, <2>3, <2>4, <2>5, <2>6, <2>7 DEF TypeOK
<1>2. LockInv /\ BlockInv /\ SendInv /\ CtlInv
    BY DEF Init, LockInv, BlockInv, SendInv, CtlInv, AtRest, Tasks, LoggerLabels,
           FlushLabels, CtlLabels
<1>3. Live = {} /\ UdpSockets = {}
    BY DEF Init, Live, UdpSockets
<1>4. NoDuplicateSubscriber /\ SocketsOwned
    BY <1>3 DEF Init, NoDuplicateSubscriber, SocketsOwned
<1>5. UdpCount
    BY <1>3, FS_EmptySet DEF Init, UdpCount
<1> QED
    BY <1>1, <1>2, <1>4, <1>5 DEF IInv

\* A step of the control task outside the flush, which goes to l or logs first.
CtlGoes(l) ==
    /\ pc[Ctl] \notin FlushLabels
    /\ \/ l \in CtlLabels \ FlushLabels /\ Goto(Ctl, l)
       \/ l \in {"accept", "list", "reply", "close"} /\ LogThen(Ctl, l)
    /\ UNCHANGED <<mutex, flushVars>>

\* The same with the table left alone.
CtlMoves(l) == CtlGoes(l) /\ UNCHANGED table

LEMMA CtlGoesInv ==
    ASSUME IInv, NEW l, CtlGoes(l)
    PROVE  /\ LockInv' /\ BlockInv'
           /\ pc' \in [Tasks -> LoggerLabels \cup CtlLabels]
           /\ cont' \in [Tasks -> LoggerLabels \cup CtlLabels]
           /\ pc'[Ctl] \in {l, "take"}
           /\ \A t \in Loggers : pc'[t] = pc[t]
           /\ pc'[Ctl] \notin {"block", "send", "report"}
<1>1. /\ pc \in [Tasks -> LoggerLabels \cup CtlLabels]
      /\ cont \in [Tasks -> LoggerLabels \cup CtlLabels]
      /\ Ctl \in Tasks
    BY DEF IInv, TypeOK, Tasks
<1>2. /\ pc' \in [Tasks -> LoggerLabels \cup CtlLabels]
      /\ cont' \in [Tasks -> LoggerLabels \cup CtlLabels]
      /\ pc'[Ctl] \in {l, "take"}
      /\ pc'[Ctl] \in CtlLabels \ {"block", "send", "report"}
      /\ cont'[Ctl] \in {"accept", "list", "reply", "close"}
      /\ \A t \in Loggers : pc'[t] = pc[t] /\ cont'[t] = cont[t]
    BY <1>1 DEF IInv, LockInv, CtlGoes, Goto, LogThen, CtlLabels, FlushLabels, LoggerLabels, Tasks
<1>3. pc[Ctl] \notin {"block", "send", "report"} /\ mutex # Ctl
    BY <1>1 DEF CtlGoes, FlushLabels, IInv, LockInv
<1>4. LockInv'
    BY <1>1, <1>2, <1>3 DEF IInv, LockInv, CtlGoes, Tasks
<1>5. BlockInv'
    BY <1>1, <1>2, <1>3 DEF IInv, BlockInv, CtlGoes, flushVars, Tasks
<1> QED
    BY <1>2, <1>4, <1>5

LEMMA CtlMovesInv ==
    ASSUME IInv, NEW l, CtlMoves(l)
    PROVE  /\ LockInv' /\ BlockInv' /\ SendInv' /\ NoDuplicateSubscriber' /\ UdpCount'
           /\ pc'[Ctl] \in {l, "take"}
<1>1. SendInv'
    BY CtlGoesInv DEF IInv, SendInv, CtlMoves, CtlGoes, flushVars, table, Live, Tasks
<1>2. NoDuplicateSubscriber' /\ UdpCount'
    BY TableUnchanged DEF IInv, CtlMoves
<1> QED
    BY <1>1, <1>2, CtlGoesInv DEF CtlMoves

LEMMA CtlGoesType ==
    ASSUME IInv, NEW l, CtlGoes(l),
           clients' \in [Slots -> Entry], clients_num' \in 0 .. MaxClients,
           udp_clients_num' \in Int, open' \subseteq Handles,
           req' \in Requests \cup {NoReq}, resp' \in Resps \cup {"none"},
           ctl_hd' \in Handles \cup {NoHd}, log_hd' \in Handles \cup {NoHd},
           li' \in 0 .. MaxClients
    PROVE  TypeOK'
BY CtlGoesInv DEF IInv, TypeOK, CtlGoes, flushVars, Tasks

LEMMA CtlMovesType ==
    ASSUME IInv, NEW l, CtlMoves(l),
           open' \subseteq Handles,
           req' \in Requests \cup {NoReq}, resp' \in Resps \cup {"none"},
           ctl_hd' \in Handles \cup {NoHd}, log_hd' \in Handles \cup {NoHd},
           li' \in 0 .. MaxClients
    PROVE  TypeOK'
BY CtlGoesType DEF IInv, TypeOK, CtlMoves, table

\* The control task's steps that touch neither the table nor a socket.
CtlQuiet ==
    \/ AcceptFailSurvives \/ (\E r \in Requests : Recv(r)) \/ RecvMalformed
    \/ SubCheckDup \/ SubCheckFree \/ SubBadProto \/ SubSocketFail
    \/ SubConnectOk \/ SubConnectFail \/ UnsubNotFound
    \/ ListTest \/ ListRead \/ Reply

LEMMA CtlQuietInv == ASSUME IInv, CtlQuiet PROVE IInv'
<1> USE DEF At
<1>0. TypeOK /\ CtlInv /\ SocketsOwned /\ Ctl \in Tasks
    BY DEF IInv, Tasks
<1>1. ASSUME NEW l, CtlMoves(l), UNCHANGED <<open, ctl_hd, log_hd>>,
             req' \in Requests \cup {NoReq}, resp' \in Resps \cup {"none"},
             li' \in 0 .. MaxClients, CtlInv'
      PROVE  IInv'
    <2>1. TypeOK'
        BY <1>0, <1>1, CtlMovesType DEF TypeOK
    <2>2. SocketsOwned'
        BY <1>0, <1>1, SocketsUnchanged DEF CtlMoves
    <2> QED
        BY <1>1, <2>1, <2>2, CtlMovesInv DEF IInv
<1>2. CASE AcceptFailSurvives
    <2>1. PICK l \in {"accept"} : CtlMoves(l)
        BY <1>0, <1>2 DEF AcceptFailSurvives, CtlMoves, CtlGoes, FlushLabels, CtlLabels
    <2>2. /\ UNCHANGED <<open, ctl_hd, log_hd>>
          /\ req' \in Requests \cup {NoReq} /\ resp' \in Resps \cup {"none"}
          /\ li' \in 0 .. MaxClients
        BY <1>0, <1>2 DEF AcceptFailSurvives, TypeOK, CtlInv, ctlVars
    <2>3. CtlInv'
        BY <1>0, <1>2, <2>1, CtlMovesInv DEF AcceptFailSurvives, CtlInv, TypeOK, CtlMoves, CtlGoes, Goto, LogThen, table, Live, ctlVars
    <2> QED
        BY <2>1, <2>2, <2>3, <1>1
<1>3. CASE \E r \in Requests : Recv(r)
    <2>1. PICK l \in {"dup", "unsub"} : CtlMoves(l)
        BY <1>0, <1>3 DEF Recv, CtlMoves, CtlGoes, FlushLabels, CtlLabels
    <2>2. /\ UNCHANGED <<open, ctl_hd, log_hd>>
          /\ req' \in Requests \cup {NoReq} /\ resp' \in Resps \cup {"none"}
          /\ li' \in 0 .. MaxClients
        BY <1>0, <1>3 DEF Recv, TypeOK, CtlInv, ctlVars
    <2>3. CtlInv'
        BY <1>0, <1>3, <2>1, CtlMovesInv DEF Recv, CtlInv, TypeOK, CtlMoves, CtlGoes, Goto, LogThen, table, Live, ctlVars
    <2> QED
        BY <2>1, <2>2, <2>3, <1>1
<1>4. CASE RecvMalformed
    <2>1. PICK l \in {"reply"} : CtlMoves(l)
        BY <1>0, <1>4 DEF RecvMalformed, CtlMoves, CtlGoes, FlushLabels, CtlLabels, Answer
    <2>2. /\ UNCHANGED <<open, ctl_hd, log_hd>>
          /\ req' \in Requests \cup {NoReq} /\ resp' \in Resps \cup {"none"}
          /\ li' \in 0 .. MaxClients
        BY <1>0, <1>4 DEF RecvMalformed, TypeOK, CtlInv, ctlVars, Answer, Resps
    <2>3. CtlInv'
        BY <1>0, <1>4, <2>1, CtlMovesInv DEF RecvMalformed, CtlInv, TypeOK, CtlMoves, CtlGoes, Goto, LogThen, table, Live, ctlVars, Answer, Resps
    <2> QED
        BY <2>1, <2>2, <2>3, <1>1
<1>5. CASE SubCheckDup
    <2>1. PICK l \in {"reply", "free"} : CtlMoves(l)
        BY <1>0, <1>5 DEF SubCheckDup, CtlMoves, CtlGoes, FlushLabels, CtlLabels, Answer
    <2>2. /\ UNCHANGED <<open, ctl_hd, log_hd>>
          /\ req' \in Requests \cup {NoReq} /\ resp' \in Resps \cup {"none"}
          /\ li' \in 0 .. MaxClients
        BY <1>0, <1>5 DEF SubCheckDup, TypeOK, CtlInv, ctlVars, Answer, Resps, Subscribed
    <2>3. CtlInv'
        BY <1>0, <1>5, <2>1, CtlMovesInv DEF SubCheckDup, CtlInv, TypeOK, CtlMoves, CtlGoes, Goto, LogThen, table, Live, ctlVars, Answer, Resps, Subscribed
    <2> QED
        BY <2>1, <2>2, <2>3, <1>1
<1>6. CASE SubCheckFree
    <2>1. PICK l \in {"socket", "reply"} : CtlMoves(l)
        BY <1>0, <1>6 DEF SubCheckFree, CtlMoves, CtlGoes, FlushLabels, CtlLabels, Answer
    <2>2. /\ UNCHANGED <<open, ctl_hd, log_hd>>
          /\ req' \in Requests \cup {NoReq} /\ resp' \in Resps \cup {"none"}
          /\ li' \in 0 .. MaxClients
        BY <1>0, <1>6 DEF SubCheckFree, TypeOK, CtlInv, ctlVars, Answer, Resps, HasFreeIdx
    <2>3. CtlInv'
        BY <1>0, <1>6, <2>1, CtlMovesInv DEF SubCheckFree, CtlInv, TypeOK, CtlMoves, CtlGoes, Goto, LogThen, table, Live, ctlVars, Answer, Resps, HasFreeIdx
    <2> QED
        BY <2>1, <2>2, <2>3, <1>1
<1>7. CASE SubBadProto
    <2>1. PICK l \in {"reply"} : CtlMoves(l)
        BY <1>0, <1>7 DEF SubBadProto, CtlMoves, CtlGoes, FlushLabels, CtlLabels, Answer
    <2>2. /\ UNCHANGED <<open, ctl_hd, log_hd>>
          /\ req' \in Requests \cup {NoReq} /\ resp' \in Resps \cup {"none"}
          /\ li' \in 0 .. MaxClients
        BY <1>0, <1>7 DEF SubBadProto, TypeOK, CtlInv, ctlVars, Answer, Resps
    <2>3. CtlInv'
        BY <1>0, <1>7, <2>1, CtlMovesInv DEF SubBadProto, CtlInv, TypeOK, CtlMoves, CtlGoes, Goto, LogThen, table, Live, ctlVars, Answer, Resps
    <2> QED
        BY <2>1, <2>2, <2>3, <1>1
<1>8. CASE SubSocketFail
    <2>1. PICK l \in {"reply"} : CtlMoves(l)
        BY <1>0, <1>8 DEF SubSocketFail, CtlMoves, CtlGoes, FlushLabels, CtlLabels, Answer
    <2>2. /\ UNCHANGED <<open, ctl_hd, log_hd>>
          /\ req' \in Requests \cup {NoReq} /\ resp' \in Resps \cup {"none"}
          /\ li' \in 0 .. MaxClients
        BY <1>0, <1>8 DEF SubSocketFail, TypeOK, CtlInv, ctlVars, Answer, Resps
    <2>3. CtlInv'
        BY <1>0, <1>8, <2>1, CtlMovesInv DEF SubSocketFail, CtlInv, TypeOK, CtlMoves, CtlGoes, Goto, LogThen, table, Live, ctlVars, Answer, Resps
    <2> QED
        BY <2>1, <2>2, <2>3, <1>1
<1>9. CASE SubConnectOk
    <2>1. PICK l \in {"insert"} : CtlMoves(l)
        BY <1>0, <1>9 DEF SubConnectOk, CtlMoves, CtlGoes, FlushLabels, CtlLabels
    <2>2. /\ UNCHANGED <<open, ctl_hd, log_hd>>
          /\ req' \in Requests \cup {NoReq} /\ resp' \in Resps \cup {"none"}
          /\ li' \in 0 .. MaxClients
        BY <1>0, <1>9 DEF SubConnectOk, TypeOK, CtlInv, ctlVars
    <2>3. CtlInv'
        BY <1>0, <1>9, <2>1, CtlMovesInv DEF SubConnectOk, CtlInv, TypeOK, CtlMoves, CtlGoes, Goto, LogThen, table, Live, ctlVars
    <2> QED
        BY <2>1, <2>2, <2>3, <1>1
<1>10. CASE UnsubNotFound
    <2>1. PICK l \in {"reply"} : CtlMoves(l)
        BY <1>0, <1>10 DEF UnsubNotFound, CtlMoves, CtlGoes, FlushLabels, CtlLabels, Answer
    <2>2. /\ UNCHANGED <<open, ctl_hd, log_hd>>
          /\ req' \in Requests \cup {NoReq} /\ resp' \in Resps \cup {"none"}
          /\ li' \in 0 .. MaxClients
        BY <1>0, <1>10 DEF UnsubNotFound, TypeOK, CtlInv, ctlVars, Answer, Resps
    <2>3. CtlInv'
        BY <1>0, <1>10, <2>1, CtlMovesInv DEF UnsubNotFound, CtlInv, TypeOK, CtlMoves, CtlGoes, Goto, LogThen, table, Live, ctlVars, Answer, Resps
    <2> QED
        BY <2>1, <2>2, <2>3, <1>1
<1>11. CASE ListTest
    <2>1. PICK l \in {"list_read", "reply"} : CtlMoves(l)
        BY <1>0, <1>11 DEF ListTest, CtlMoves, CtlGoes, FlushLabels, CtlLabels
    <2>2. /\ UNCHANGED <<open, ctl_hd, log_hd>>
          /\ req' \in Requests \cup {NoReq} /\ resp' \in Resps \cup {"none"}
          /\ li' \in 0 .. MaxClients
        BY <1>0, <1>11 DEF ListTest, TypeOK, CtlInv, ctlVars
    <2>3. CtlInv'
        BY <1>0, <1>11, <2>1, CtlMovesInv DEF ListTest, CtlInv, TypeOK, CtlMoves, CtlGoes, Goto, LogThen, table, Live, ctlVars
    <2> QED
        BY <2>1, <2>2, <2>3, <1>1
<1>12. CASE ListRead
    <2>1. PICK l \in {"list"} : CtlMoves(l)
        BY <1>0, <1>12 DEF ListRead, CtlMoves, CtlGoes, FlushLabels, CtlLabels
    <2>2. /\ UNCHANGED <<open, ctl_hd, log_hd>>
          /\ req' \in Requests \cup {NoReq} /\ resp' \in Resps \cup {"none"}
          /\ li' \in 0 .. MaxClients
        BY <1>0, <1>12 DEF ListRead, TypeOK, CtlInv, ctlVars, NextListed
    <2>3. CtlInv'
        BY <1>0, <1>12, <2>1, CtlMovesInv DEF ListRead, CtlInv, TypeOK, CtlMoves, CtlGoes, Goto, LogThen, table, Live, ctlVars, NextListed
    <2> QED
        BY <2>1, <2>2, <2>3, <1>1
<1>13. CASE Reply
    <2>1. PICK l \in {"close"} : CtlMoves(l)
        BY <1>0, <1>13 DEF Reply, CtlMoves, CtlGoes, FlushLabels, CtlLabels
    <2>2. /\ UNCHANGED <<open, ctl_hd, log_hd>>
          /\ req' \in Requests \cup {NoReq} /\ resp' \in Resps \cup {"none"}
          /\ li' \in 0 .. MaxClients
        BY <1>0, <1>13 DEF Reply, TypeOK, CtlInv, ctlVars
    <2>3. CtlInv'
        BY <1>0, <1>13, <2>1, CtlMovesInv DEF Reply, CtlInv, TypeOK, CtlMoves, CtlGoes, Goto, LogThen, table, Live, ctlVars
    <2> QED
        BY <2>1, <2>2, <2>3, <1>1
<1>14. CASE SubConnectFail
    <2>1. CtlMoves("reply")
        BY <1>0, <1>14 DEF SubConnectFail, CtlMoves, CtlGoes, FlushLabels, Answer
    <2>2. TypeOK'
        BY <1>0, <1>14, <2>1, CtlMovesType DEF SubConnectFail, OpenAfterConnectFail, Answer, Resps, TypeOK
    <2>3. CtlInv'
        BY <2>1, CtlMovesInv DEF CtlInv
    <2>4. SocketsOwned'
        BY <1>0, <1>14 DEF SubConnectFail, OpenAfterConnectFail, SocketsOwned, table, Live, TypeOK
    <2> QED
        BY <2>1, <2>2, <2>3, <2>4, CtlMovesInv DEF IInv
<1> QED
    BY <1>2, <1>3, <1>4, <1>5, <1>6, <1>7, <1>8, <1>9, <1>10, <1>11, <1>12, <1>13, <1>14 DEF CtlQuiet

\* The steps that open or close a socket and leave the table alone.
LEMMA CtlSocketInv ==
    ASSUME IInv, (\E h \in Handles : Accept(h) \/ SubSocket(h)) \/ CloseCtl
    PROVE  IInv'
<1> USE DEF At
<1>0. TypeOK /\ CtlInv /\ SocketsOwned /\ Ctl \in Tasks
    BY DEF IInv, Tasks
<1>1. ASSUME NEW l, CtlMoves(l), TypeOK', CtlInv', SocketsOwned'
      PROVE  IInv'
    BY <1>1, CtlMovesInv DEF IInv
<1>2. ASSUME NEW h \in Handles, Accept(h) PROVE IInv'
    <2>1. CtlMoves("recv")
        BY <1>0, <1>2 DEF Accept, CtlMoves, CtlGoes, FlushLabels, CtlLabels
    <2>2. TypeOK'
        BY <1>0, <1>2, <2>1, CtlMovesType DEF Accept, TypeOK
    <2>3. CtlInv'
        BY <2>1, CtlMovesInv DEF CtlInv
    <2>4. SocketsOwned'
        BY <1>0, <1>2 DEF Accept, SocketsOwned, TypeOK, table, Live
    <2> QED
        BY <2>1, <2>2, <2>3, <2>4, <1>1
<1>3. ASSUME NEW h \in Handles, SubSocket(h) PROVE IInv'
    <2>1. PICK l \in {"connect", "insert"} : CtlMoves(l)
        BY <1>0, <1>3 DEF SubSocket, CtlMoves, CtlGoes, FlushLabels, CtlLabels
    <2>2. TypeOK'
        BY <1>0, <1>3, <2>1, CtlMovesType DEF SubSocket, TypeOK
    <2>3. CtlInv'
        BY <1>0, <1>3, <2>1, CtlMovesInv DEF SubSocket, CtlInv, table, Live
    <2>4. SocketsOwned'
        BY <1>0, <1>3 DEF SubSocket, SocketsOwned, TypeOK, table, Live
    <2> QED
        BY <2>1, <2>2, <2>3, <2>4, <1>1
<1>4. CASE CloseCtl
    <2>1. CtlMoves("accept")
        BY <1>0, <1>4 DEF CloseCtl, CtlMoves, CtlGoes, FlushLabels, CtlLabels
    <2>2. TypeOK'
        BY <1>0, <1>4, <2>1, CtlMovesType DEF CloseCtl, TypeOK
    <2>3. CtlInv'
        BY <2>1, CtlMovesInv DEF CtlInv
    <2>4. SocketsOwned'
        BY <1>0, <1>4 DEF CloseCtl, SocketsOwned, TypeOK, table, Live
    <2> QED
        BY <2>1, <2>2, <2>3, <2>4, <1>1
<1> QED
    BY <1>2, <1>3, <1>4

-----------------------------------------------------------------------------
(* The table.                                                              *)

LEMMA UdpSocketsFinite ==
    ASSUME TypeOK
    PROVE  /\ IsFiniteSet(Live) /\ IsFiniteSet(UdpSockets)
           /\ Cardinality(UdpSockets) \in Nat
<1> DEFINE idx == {k \in Live : clients[k].udp}
            hdOf == [k \in idx |-> clients[k].hd]
<1>1. IsFiniteSet(Live)
    BY FS_Interval DEF Live, TypeOK
<1>2. IsFiniteSet(idx)
    BY <1>1, FS_Subset
<1>3. hdOf \in Surjection(idx, UdpSockets)
    BY DEF Surjection, UdpSockets
<1> HIDE DEF idx, hdOf
<1> QED
    BY <1>1, <1>2, <1>3, FS_Surjection, FS_CardinalityType

\* del_client(j) keeps every other subscriber, in its order, with its socket.
LEMMA DelClientTable ==
    ASSUME TypeOK, NoDuplicateSubscriber, SocketsOwned, UdpCount, NEW j \in Live, DelClient(j),
           UNCHANGED <<ctl_hd, log_hd>>
    PROVE  /\ NoDuplicateSubscriber' /\ SocketsOwned' /\ UdpCount'
           /\ clients' \in [Slots -> Entry] /\ clients_num' \in 0 .. MaxClients
           /\ clients_num' = clients_num - 1
           /\ udp_clients_num' \in Int /\ open' \subseteq Handles
           /\ \A k \in Live' : \E m \in Live : clients'[k] = clients[m]
<1> DEFINE src(k) == IF k < j THEN k ELSE k + 1
<1>1. /\ clients_num \in 1 .. MaxClients /\ j \in 0 .. clients_num - 1
      /\ clients_num' = clients_num - 1
      /\ Live \subseteq Slots
    BY DEF TypeOK, DelClient, Live, Slots
<1>2. \A k \in Live' : k \in Slots /\ src(k) \in Live \ {j} /\ clients'[k] = clients[src(k)]
    BY <1>1 DEF DelClient, Shifted, Live, Slots
<1>3. clients' \in [Slots -> Entry]
    BY <1>1, StaleType DEF DelClient, Shifted, TypeOK, Slots, Live
<1>4. \A k, m \in Live' : src(k) = src(m) => k = m
    BY <1>1 DEF Live
<1>5. \A m \in Live \ {j} : \E k \in Live' : src(k) = m
    <2> SUFFICES ASSUME NEW m \in Live \ {j} PROVE \E k \in Live' : src(k) = m
        OBVIOUS
    <2>1. CASE m < j
        BY <1>1, <2>1 DEF Live
    <2>2. CASE m > j
        <3>1. m - 1 \in Live' /\ src(m - 1) = m
            BY <1>1, <2>2 DEF Live
        <3> QED
            BY <3>1
    <2> QED
        BY <1>1, <2>1, <2>2 DEF Live
<1>6. NoDuplicateSubscriber'
    BY <1>2, <1>4 DEF NoDuplicateSubscriber
<1>7. SocketsOwned'
    <2>1. \A k \in Live' : clients'[k].hd \in open' \ {ctl_hd, log_hd}
        BY <1>2 DEF SocketsOwned, DelClient
    <2>2. \A k, m \in Live' : clients'[k].hd = clients'[m].hd => k = m
        BY <1>2, <1>4 DEF SocketsOwned
    <2>3. clients[j].hd \notin {ctl_hd, log_hd}
        BY DEF SocketsOwned
    <2> QED
        BY <2>1, <2>2, <2>3 DEF SocketsOwned, DelClient
<1>8. UdpCount'
    <2>1. UdpSockets' = UdpSockets \ {clients[j].hd}
        <3>1. UdpSockets' = {clients[src(k)].hd : k \in {m \in Live' : clients[src(m)].udp}}
            BY <1>2 DEF UdpSockets
        <3>2. \A k \in Live' : clients[src(k)].hd # clients[j].hd
            BY <1>2 DEF SocketsOwned
        <3> QED
            BY <3>1, <3>2, <1>2, <1>5 DEF UdpSockets
    <2>2. IsFiniteSet(UdpSockets)
        BY <1>1, UdpSocketsFinite
    <2>3. clients[j].udp <=> clients[j].hd \in UdpSockets
        BY DEF UdpSockets, SocketsOwned
    <2> QED
        BY <2>1, <2>2, <2>3, FS_RemoveElement, FS_CardinalityType DEF UdpCount, DelClient, UdpAfterDel
<1>9. \A k \in Live' : \E m \in Live : clients'[k] = clients[m]
    BY <1>2
<1>10. udp_clients_num' \in Int /\ open' \subseteq Handles /\ clients_num' \in 0 .. MaxClients
    BY <1>1 DEF DelClient, UdpAfterDel, TypeOK
<1> QED
    BY <1>1, <1>3, <1>6, <1>7, <1>8, <1>9, <1>10

\* Nobody is in a send loop while the mutex is free.
LEMMA FreeMutex ==
    ASSUME LockInv, mutex = NoTask
    PROVE  \A t \in Tasks : pc[t] \notin {"block", "send", "report"}
BY DEF LockInv, Tasks

LEMMA SubInsertInv == ASSUME IInv, SubInsert PROVE IInv'
<1> USE DEF At
<1>0. /\ TypeOK /\ LockInv /\ CtlInv /\ SocketsOwned /\ NoDuplicateSubscriber /\ UdpCount
      /\ Ctl \in Tasks
    BY DEF IInv, Tasks
<1>1. CtlGoes("list")
    BY <1>0 DEF SubInsert, Answer, CtlGoes, FlushLabels
<1>2. /\ clients_num \in 0 .. MaxClients - 1 /\ clients_num \in Slots
      /\ clients_num' = clients_num + 1
      /\ req \in Requests /\ log_hd \in Handles
      /\ \A j \in Live : clients[j].addr # req.addr
    BY <1>0 DEF SubInsert, CtlInv, TypeOK, Slots
<1>3. NewEntry \in Entry /\ NewEntry.hd = log_hd /\ NewEntry.addr = req.addr
      /\ NewEntry.udp = (req.proto = "udp")
    BY <1>2 DEF NewEntry, Entry, Requests
<1>4. /\ Live' = Live \cup {clients_num} /\ clients_num \notin Live
      /\ \A j \in Live : clients'[j] = clients[j]
      /\ clients'[clients_num] = NewEntry
    BY <1>0, <1>2 DEF SubInsert, Live, TypeOK, Slots
<1>5. TypeOK'
    BY <1>0, <1>1, <1>2, <1>3, CtlGoesType DEF SubInsert, Answer, Resps, TypeOK
<1>6. SendInv'
    BY <1>0, <1>1, CtlGoesInv, FreeMutex DEF SubInsert, SendInv, Tasks
<1>7. CtlInv'
    BY <1>1, CtlGoesInv DEF CtlInv
<1>8. NoDuplicateSubscriber'
    BY <1>0, <1>2, <1>3, <1>4 DEF NoDuplicateSubscriber
<1>9. SocketsOwned'
    <2>1. /\ log_hd \in open /\ log_hd # ctl_hd /\ NoHd \notin open
          /\ open' = open /\ ctl_hd' = ctl_hd /\ log_hd' = NoHd
        BY <1>0, <1>2 DEF SocketsOwned, SubInsert, TypeOK
    <2>2. \A j \in Live : clients[j].hd \in open \ {ctl_hd, log_hd}
        BY <1>0 DEF SocketsOwned
    <2>3. \A j \in Live' : clients'[j].hd \in open' \ {ctl_hd', log_hd'}
        BY <1>3, <1>4, <2>1, <2>2
    <2>4. \A j, k \in Live' : clients'[j].hd = clients'[k].hd => j = k
        BY <1>0, <1>3, <1>4, <2>2 DEF SocketsOwned
    <2> QED
        BY <1>0, <2>1, <2>3, <2>4 DEF SocketsOwned
<1>10. UdpCount'
    <2>1. IsFiniteSet(UdpSockets) /\ log_hd \notin UdpSockets
        BY <1>0, UdpSocketsFinite DEF UdpSockets, SocketsOwned
    <2>2. CASE req.proto = "udp"
        <3> DEFINE isUdp == {k \in Live : clients[k].udp}
        <3>0. clients'[clients_num].udp /\ clients'[clients_num].hd = log_hd
            BY <1>3, <1>4, <2>2
        <3>1. UdpSockets' = UdpSockets \cup {log_hd}
            <4>1. {k \in Live' : clients'[k].udp} = isUdp \cup {clients_num}
                BY <1>4, <3>0
            <4>2. UdpSockets' = {clients'[k].hd : k \in isUdp \cup {clients_num}}
                BY <4>1 DEF UdpSockets
            <4>3. \A k \in isUdp : clients'[k].hd = clients[k].hd
                BY <1>4
            <4> QED
                BY <4>2, <4>3, <3>0 DEF UdpSockets
        <3>2. Cardinality(UdpSockets \cup {log_hd}) = Cardinality(UdpSockets) + 1
            BY <2>1, FS_AddElement
        <3> QED
            BY <1>0, <2>2, <3>1, <3>2 DEF UdpCount, SubInsert
    <2>3. CASE req.proto # "udp"
        <3>1. UdpSockets' = UdpSockets
            BY <1>3, <1>4, <2>3 DEF UdpSockets
        <3> QED
            BY <1>0, <2>3, <3>1 DEF UdpCount, SubInsert
    <2> QED
        BY <2>2, <2>3
<1> QED
    BY <1>1, <1>5, <1>6, <1>7, <1>8, <1>9, <1>10, CtlGoesInv DEF IInv

LEMMA UnsubFoundInv == ASSUME IInv, NEW j \in Slots, UnsubFound(j) PROVE IInv'
<1> USE DEF At
<1>0. /\ TypeOK /\ LockInv /\ SocketsOwned /\ NoDuplicateSubscriber /\ UdpCount /\ Ctl \in Tasks
    BY DEF IInv, Tasks
<1>1. CtlGoes("list")
    BY <1>0 DEF UnsubFound, Answer, CtlGoes, FlushLabels
<1>2. j \in Live /\ DelClient(j) /\ UNCHANGED <<ctl_hd, log_hd>>
    BY DEF UnsubFound, ClientIdx
<1>3. /\ NoDuplicateSubscriber' /\ SocketsOwned' /\ UdpCount'
      /\ clients' \in [Slots -> Entry] /\ clients_num' \in 0 .. MaxClients
      /\ udp_clients_num' \in Int /\ open' \subseteq Handles
    BY <1>0, <1>2, DelClientTable
<1>4. TypeOK'
    BY <1>0, <1>1, <1>2, <1>3, CtlGoesType DEF UnsubFound, Answer, Resps, TypeOK
<1>5. SendInv'
    BY <1>0, <1>1, CtlGoesInv, FreeMutex DEF UnsubFound, SendInv, Tasks
<1>6. CtlInv'
    BY <1>1, CtlGoesInv DEF CtlInv
<1> QED
    BY <1>1, <1>3, <1>4, <1>5, <1>6, CtlGoesInv DEF IInv

-----------------------------------------------------------------------------
(* The flush.                                                              *)

\* A step of the task t that holds the mutex, or gets or gives it: it goes to l.
FlushGoes(t, l) ==
    /\ pc' = [pc EXCEPT ![t] = l]
    /\ UNCHANGED <<cont, open, ctlVars>>

\* A task other than the holder is not in the flush; the control task is not
\* anywhere CtlInv speaks of while it flushes.
LEMMA FlushCtlInv ==
    ASSUME CtlInv, NEW t \in Tasks, pc[t] \in FlushLabels,
           pc \in [Tasks -> LoggerLabels \cup CtlLabels],
           NEW l \in {"block", "send", "report", "idle", "accept", "list", "reply", "close"},
           FlushGoes(t, l), clients_num' <= clients_num,
           clients_num \in Nat, clients_num' \in Nat,
           \A k \in Live' : \E m \in Live : clients'[k].addr = clients[m].addr
    PROVE  CtlInv'
<1>1. CASE t = Ctl
    BY <1>1 DEF CtlInv, FlushGoes, Tasks
<1>2. CASE t # Ctl
    <2>1. pc'[Ctl] = pc[Ctl] /\ UNCHANGED <<req, log_hd, li>>
        BY <1>2 DEF FlushGoes, Tasks, ctlVars
    <2>2. /\ pc[Ctl] \in {"dup", "free", "socket", "connect", "insert", "unsub"} => req \in Requests
          /\ pc[Ctl] \in {"free", "socket", "connect", "insert"} =>
                 \A j \in Live' : clients'[j].addr # req.addr
          /\ pc[Ctl] \in {"connect", "insert"} => log_hd # NoHd
          /\ pc[Ctl] = "list_read" => li < MaxClients
        BY DEF CtlInv
    <2>3. pc[Ctl] \in {"socket", "connect", "insert"} => clients_num' < MaxClients
        BY DEF CtlInv
    <2> QED
        BY <2>1, <2>2, <2>3 DEF CtlInv
<1> QED
    BY <1>1, <1>2

LEMMA FlushTakeInv == ASSUME IInv, NEW t \in Tasks, FlushTake(t) PROVE IInv'
<1> USE DEF At
<1>0. TypeOK /\ LockInv /\ BlockInv /\ CtlInv /\ pc[t] = "take" /\ mutex = NoTask
    BY DEF IInv, FlushTake
<1>1. FlushGoes(t, "block") /\ UNCHANGED table /\ mutex' = t
    BY DEF FlushTake, FlushGoes, Goto
<1>2. LockInv'
    BY <1>0, <1>1, FreeMutex DEF LockInv, TypeOK, FlushGoes, LoggerLabels, CtlLabels, FlushLabels, Tasks
<1>3. TypeOK'
    BY <1>0, <1>1 DEF FlushTake, TypeOK, FlushGoes, table, ctlVars, LoggerLabels, CtlLabels, FlushLabels
<1>4. BlockInv'
    BY <1>0 DEF FlushTake, BlockInv, Tasks, TypeOK
<1>5. SendInv'
    BY <1>0, <1>1, FreeMutex DEF SendInv, FlushGoes, TypeOK
<1>6. CtlInv'
    BY <1>0, <1>1, FlushCtlInv DEF TypeOK, table, Live, FlushLabels
<1>7. NoDuplicateSubscriber' /\ UdpCount' /\ SocketsOwned'
    BY <1>1, TableUnchanged, SocketsUnchanged DEF IInv, FlushGoes, ctlVars
<1> QED
    BY <1>2, <1>3, <1>4, <1>5, <1>6, <1>7 DEF IInv

LEMMA BlockStartInv == ASSUME IInv, NEW t \in Tasks, BlockStart(t) PROVE IInv'
<1> USE DEF At
<1>0. TypeOK /\ LockInv /\ BlockInv /\ CtlInv /\ UdpCount /\ pc[t] = "block" /\ mutex = t
    BY DEF IInv, BlockStart, LockInv
<1>1. FlushGoes(t, "send") /\ UNCHANGED <<table, mutex>>
    BY DEF BlockStart, FlushGoes, Goto
<1>2. LockInv'
    BY <1>0, <1>1 DEF LockInv, TypeOK, FlushGoes, LoggerLabels, CtlLabels, FlushLabels, Tasks
<1>3. n \in Nat /\ sent \in Nat /\ blk' \in Nat /\ blk' <= n - sent /\ blk' \in 0 .. MaxOut
    BY <1>0 DEF BlockStart, BlockSize, TypeOK
<1>4. TypeOK'
    BY <1>0, <1>1, <1>3 DEF BlockStart, FirstClient, UsesUdpBuf, TypeOK, FlushGoes, table, ctlVars,
                            LoggerLabels, CtlLabels, FlushLabels
<1>5. BlockInv'
    BY <1>0, <1>1, <1>3 DEF BlockStart, BlockInv, FlushGoes, TypeOK
<1>6. SendInv'
    <2>0. \A u \in Tasks : pc'[u] # "report"
        BY <1>0, <1>1, <1>2 DEF LockInv, FlushGoes, TypeOK
    <2>1. CASE udp_clients_num = 0
        <3>1. UdpSockets = {}
            BY <1>0, <2>1, UdpSocketsFinite, FS_EmptySet DEF UdpCount
        <3>2. \A j \in Live' : ~clients'[j].udp
            BY <1>1, <3>1 DEF UdpSockets, table, Live
        <3> QED
            BY <2>0, <3>2 DEF SendInv
    <2>2. CASE udp_clients_num # 0
        <3>1. loaded'
            BY <2>2 DEF BlockStart, UsesUdpBuf
        <3>2. blk' <= BufSize
            BY <1>3, <2>2 DEF BlockStart, BlockSize
        <3> QED
            BY <2>0, <3>1, <3>2 DEF SendInv
    <2> QED
        BY <2>1, <2>2
<1>7. CtlInv'
    BY <1>0, <1>1, FlushCtlInv DEF TypeOK, table, Live, FlushLabels
<1>8. NoDuplicateSubscriber' /\ UdpCount' /\ SocketsOwned'
    BY <1>1, TableUnchanged, SocketsUnchanged DEF IInv, FlushGoes, ctlVars
<1> QED
    BY <1>2, <1>4, <1>5, <1>6, <1>7, <1>8 DEF IInv

LEMMA BlockEndInv == ASSUME IInv, NEW t \in Tasks, BlockEnd(t) PROVE IInv'
<1> USE DEF At
<1>0. TypeOK /\ LockInv /\ BlockInv /\ CtlInv /\ pc[t] = "send" /\ mutex = t
    BY DEF IInv, BlockEnd, LockInv
<1>1. FlushGoes(t, "block") /\ UNCHANGED <<table, mutex>>
    BY DEF BlockEnd, FlushGoes, Goto
<1>2. LockInv'
    BY <1>0, <1>1 DEF LockInv, TypeOK, FlushGoes, LoggerLabels, CtlLabels, FlushLabels, Tasks
<1>3. sent' \in 0 .. MaxOut /\ sent' <= n /\ blk' = 0 /\ n' = n
    BY <1>0 DEF BlockEnd, SentAfterBlock, BlockInv, TypeOK
<1>4. TypeOK'
    <2>1. pc' \in [Tasks -> LoggerLabels \cup CtlLabels]
        BY <1>0, <1>1 DEF TypeOK, FlushGoes, LoggerLabels, FlushLabels
    <2>2. blk' \in 0 .. MaxOut /\ i' \in Nat /\ removed' \in Nat /\ served' \subseteq Handles
        BY DEF BlockEnd
    <2>3. loaded' \in BOOLEAN
        BY DEF BlockEnd
    <2> QED
        BY <1>0, <1>1, <1>3, <2>1, <2>2, <2>3 DEF TypeOK, FlushGoes, table, ctlVars
<1>5. BlockInv'
    <2>1. sent' + blk' <= n' /\ blk' = 0
        BY <1>0 DEF BlockEnd, SentAfterBlock, BlockInv, TypeOK
    <2> QED
        BY <2>1 DEF BlockInv
<1>6. SendInv'
    BY <1>0, <1>1, <1>2 DEF SendInv, LockInv, FlushGoes, TypeOK
<1>7. CtlInv'
    BY <1>0, <1>1, FlushCtlInv DEF TypeOK, table, Live, FlushLabels
<1>8. NoDuplicateSubscriber' /\ UdpCount' /\ SocketsOwned'
    BY <1>1, TableUnchanged, SocketsUnchanged DEF IInv, FlushGoes, ctlVars
<1> QED
    BY <1>2, <1>4, <1>5, <1>6, <1>7, <1>8 DEF IInv

LEMMA FlushGiveInv == ASSUME IInv, NEW t \in Tasks, FlushGive(t) PROVE IInv'
<1> USE DEF At
<1>0. TypeOK /\ LockInv /\ BlockInv /\ CtlInv /\ pc[t] = "block" /\ mutex = t
    BY DEF IInv, FlushGive, LockInv
<1>1. cont[t] \in {"idle", "accept", "list", "reply", "close"}
    BY <1>0 DEF LockInv, Tasks
<1>2. FlushGoes(t, cont[t]) /\ UNCHANGED table /\ mutex' = NoTask
    BY DEF FlushGive, FlushGoes, Goto
<1>3. LockInv'
    BY <1>0, <1>1, <1>2 DEF LockInv, TypeOK, FlushGoes, LoggerLabels, CtlLabels, FlushLabels, Tasks
<1>4. TypeOK'
    BY <1>0, <1>2 DEF FlushGive, TypeOK, FlushGoes, table, ctlVars
<1>5. BlockInv'
    BY <1>0 DEF FlushGive, BlockInv, TypeOK
<1>6. SendInv'
    BY <1>2, <1>3, CtlAssumption DEF SendInv, LockInv, Tasks
<1>7. CtlInv'
    BY <1>0, <1>1, <1>2, FlushCtlInv DEF TypeOK, table, Live, FlushLabels
<1>8. NoDuplicateSubscriber' /\ UdpCount' /\ SocketsOwned'
    BY <1>2, TableUnchanged, SocketsUnchanged DEF IInv, FlushGoes, ctlVars
<1> QED
    BY <1>3, <1>4, <1>5, <1>6, <1>7, <1>8 DEF IInv

LEMMA CountedType ==
    ASSUME TypeOK, NEW j \in Slots
    PROVE  /\ Counted(j) \in [Slots -> Entry]
           /\ \A k \in Slots : /\ Counted(j)[k].hd = clients[k].hd
                              /\ Counted(j)[k].addr = clients[k].addr
                              /\ Counted(j)[k].udp = clients[k].udp
<1>1. CASE ~clients[j].udp
    BY <1>1 DEF Counted, TypeOK
<1>2. CASE clients[j].udp
    <2> DEFINE e == [clients[j] EXCEPT !.pack_cnt = (@ + 1) % PackMod]
    <2>1. clients[j] \in Entry
        BY DEF TypeOK
    <2>2. (clients[j].pack_cnt + 1) % PackMod \in 0 .. PackMod - 1
        BY <2>1 DEF Entry
    <2>3. e \in Entry /\ e.hd = clients[j].hd /\ e.addr = clients[j].addr /\ e.udp = clients[j].udp
        BY <2>1, <2>2 DEF Entry
    <2>4. Counted(j) = [clients EXCEPT ![j] = e]
        BY <1>2 DEF Counted
    <2> HIDE DEF e
    <2> QED
        BY <2>3, <2>4 DEF TypeOK
<1> QED
    BY <1>1, <1>2

LEMMA SendOkInv == ASSUME IInv, NEW t \in Tasks, SendOk(t) PROVE IInv'
<1> USE DEF At
<1>0. /\ TypeOK /\ LockInv /\ BlockInv /\ SendInv /\ CtlInv
      /\ NoDuplicateSubscriber /\ SocketsOwned /\ UdpCount
    BY DEF IInv
<1>1. /\ UNCHANGED <<clients_num, udp_clients_num, mutex, open, pc, cont, ctlVars>>
      /\ UNCHANGED <<n, sent, blk, loaded, removed>>
    BY DEF SendOk
<1>2. i \in Live /\ Live' = Live /\ Live \subseteq Slots /\ i' = i + 1
    BY <1>0 DEF SendOk, TypeOK, Live, Slots
<1>3. clients' \in [Slots -> Entry]
    BY <1>0, <1>2, CountedType DEF SendOk
<1>4. \A j \in Live : /\ clients'[j].hd = clients[j].hd /\ clients'[j].addr = clients[j].addr
                       /\ clients'[j].udp = clients[j].udp
    BY <1>0, <1>2, CountedType DEF SendOk
<1>5. clients[i].hd \in Handles
    BY <1>0, <1>2 DEF SocketsOwned, TypeOK
<1>6. TypeOK'
    <2>1. served' \subseteq Handles /\ i' \in Nat
        BY <1>0, <1>5 DEF SendOk, TypeOK
    <2> QED
        BY <1>0, <1>1, <1>3, <2>1 DEF TypeOK, ctlVars
<1>7. LockInv' /\ BlockInv'
    BY <1>0, <1>1 DEF LockInv, BlockInv
<1>8. SendInv'
    <2>1. \A u \in Tasks : pc'[u] # "report"
        BY <1>0, <1>1 DEF SendOk, LockInv
    <2> QED
        BY <1>0, <1>1, <1>2, <1>4, <2>1 DEF SendInv
<1>9. CtlInv'
    BY <1>0, <1>1, <1>2, <1>4 DEF CtlInv, ctlVars
<1>10. NoDuplicateSubscriber' /\ SocketsOwned'
    BY <1>0, <1>1, <1>2, <1>4 DEF NoDuplicateSubscriber, SocketsOwned, ctlVars
<1>11. UdpCount'
    <2>1. UdpSockets' = UdpSockets
        BY <1>2, <1>4 DEF UdpSockets
    <2> QED
        BY <1>0, <1>1, <2>1 DEF UdpCount
<1> QED
    BY <1>6, <1>7, <1>8, <1>9, <1>10, <1>11 DEF IInv

LEMMA SendFailInv == ASSUME IInv, NEW t \in Tasks, SendFail(t) PROVE IInv'
<1> USE DEF At
<1>0. TypeOK /\ LockInv /\ BlockInv /\ SendInv /\ CtlInv /\ pc[t] = "send" /\ mutex = t
    BY DEF IInv, SendFail, LockInv
<1>1. /\ FlushGoes(t, "report") /\ UNCHANGED <<table, mutex, flushVars>>
      /\ i < clients_num
    BY DEF SendFail, FlushGoes, Goto
<1>2. LockInv'
    BY <1>0, <1>1 DEF LockInv, TypeOK, FlushGoes, LoggerLabels, CtlLabels, FlushLabels, Tasks
<1>3. TypeOK'
    BY <1>0, <1>1 DEF TypeOK, FlushGoes, table, ctlVars, flushVars, LoggerLabels, CtlLabels, FlushLabels
<1>4. BlockInv'
    BY <1>0, <1>1 DEF BlockInv, FlushGoes, flushVars, TypeOK
<1>5. SendInv'
    BY <1>0, <1>1 DEF SendInv, LockInv, FlushGoes, TypeOK, table, flushVars, Live
<1>6. CtlInv'
    BY <1>0, <1>1, FlushCtlInv DEF TypeOK, table, Live, FlushLabels
<1>7. NoDuplicateSubscriber' /\ UdpCount' /\ SocketsOwned'
    BY <1>1, TableUnchanged, SocketsUnchanged DEF IInv, FlushGoes, ctlVars
<1> QED
    BY <1>2, <1>3, <1>4, <1>5, <1>6, <1>7 DEF IInv

LEMMA DropClientInv == ASSUME IInv, NEW t \in Tasks, DropClient(t) PROVE IInv'
<1> USE DEF At
<1>0. /\ TypeOK /\ LockInv /\ BlockInv /\ SendInv /\ CtlInv
      /\ NoDuplicateSubscriber /\ SocketsOwned /\ UdpCount
      /\ pc[t] = "report" /\ mutex = t
    BY DEF IInv, DropClient, LockInv
<1>1. /\ pc' = [pc EXCEPT ![t] = "send"] /\ UNCHANGED <<mutex, cont, ctlVars>>
      /\ UNCHANGED <<n, sent, blk, loaded, served>>
    BY DEF DropClient, Goto
<1>2. i \in Live /\ DelClient(i) /\ UNCHANGED <<ctl_hd, log_hd>>
    BY <1>0 DEF DropClient, SendInv, TypeOK, Live, ctlVars
<1>3. /\ NoDuplicateSubscriber' /\ SocketsOwned' /\ UdpCount'
      /\ clients' \in [Slots -> Entry] /\ clients_num' \in 0 .. MaxClients
      /\ clients_num' = clients_num - 1
      /\ udp_clients_num' \in Int /\ open' \subseteq Handles
      /\ \A k \in Live' : \E m \in Live : clients'[k] = clients[m]
    BY <1>0, <1>2, DelClientTable
<1>4. TypeOK'
    <2>1. i' \in Nat /\ removed' \in Nat
        BY <1>0 DEF DropClient, NextAfterDel, TypeOK
    <2>2. pc' \in [Tasks -> LoggerLabels \cup CtlLabels]
        BY <1>0, <1>1 DEF TypeOK, LoggerLabels, FlushLabels
    <2> QED
        BY <1>0, <1>1, <1>3, <2>1, <2>2 DEF TypeOK, ctlVars
<1>5. LockInv' /\ BlockInv'
    <2>1. LockInv'
        BY <1>0, <1>1 DEF LockInv, TypeOK, LoggerLabels, CtlLabels, FlushLabels, Tasks
    <2>2. BlockInv'
        BY <1>0, <1>1 DEF BlockInv, TypeOK
    <2> QED
        BY <2>1, <2>2
<1>6. SendInv'
    <2>1. \A u \in Tasks : pc'[u] # "report"
        BY <1>0, <1>1 DEF LockInv, TypeOK
    <2> QED
        BY <1>0, <1>1, <1>3, <2>1 DEF SendInv, LockInv, TypeOK
<1>7. CtlInv'
    <2>1. UNCHANGED <<req, log_hd, li>> /\ (pc'[Ctl] = pc[Ctl] \/ pc'[Ctl] = "send")
        BY <1>0, <1>1 DEF ctlVars, TypeOK
    <2>2. (\A j \in Live : clients[j].addr # req.addr) => \A j \in Live' : clients'[j].addr # req'.addr
        BY <1>3, <2>1
    <2>3. clients_num < MaxClients => clients_num' < MaxClients
        BY <1>0, <1>3 DEF TypeOK
    <2> QED
        BY <1>0, <2>1, <2>2, <2>3 DEF CtlInv
<1> QED
    BY <1>3, <1>4, <1>5, <1>6, <1>7 DEF IInv

-----------------------------------------------------------------------------
(* The other steps.                                                        *)

LEMMA LogCallInv == ASSUME IInv, NEW t \in Loggers, LogCall(t) PROVE IInv'
<1> USE DEF At
<1>0. TypeOK /\ LockInv /\ BlockInv /\ SendInv /\ CtlInv /\ t \in Tasks /\ t # Ctl /\ pc[t] = "idle"
    BY DEF IInv, LogCall, Tasks
<1>1. /\ pc' = [pc EXCEPT ![t] = "take"] /\ cont' = [cont EXCEPT ![t] = "idle"]
      /\ UNCHANGED <<table, mutex, open, ctlVars, flushVars>>
    BY DEF LogCall, LogThen
<1>2. /\ pc' \in [Tasks -> LoggerLabels \cup CtlLabels]
      /\ cont' \in [Tasks -> LoggerLabels \cup CtlLabels]
    BY <1>0, <1>1 DEF TypeOK, LoggerLabels, FlushLabels
<1>3. TypeOK'
    BY <1>0, <1>1, <1>2 DEF TypeOK, table, ctlVars, flushVars
<1>4. LockInv'
    BY <1>0, <1>1 DEF LockInv, TypeOK, Tasks, LoggerLabels, FlushLabels
<1>5. BlockInv'
    BY <1>0, <1>1 DEF BlockInv, LockInv, TypeOK, flushVars
<1>6. SendInv'
    BY <1>0, <1>1 DEF SendInv, TypeOK, table, Live, flushVars
<1>7. CtlInv'
    <2>1. pc'[Ctl] = pc[Ctl] /\ UNCHANGED <<clients, clients_num, req, log_hd, li>>
        BY <1>0, <1>1 DEF TypeOK, table, ctlVars, Tasks
    <2> QED
        BY <1>0, <2>1 DEF CtlInv, Live
<1>8. NoDuplicateSubscriber' /\ UdpCount' /\ SocketsOwned'
    BY <1>1, TableUnchanged, SocketsUnchanged DEF IInv, ctlVars
<1> QED
    BY <1>3, <1>4, <1>5, <1>6, <1>7, <1>8 DEF IInv

LEMMA StutterInv == ASSUME IInv, UNCHANGED vars PROVE IInv'
<1>1. UNCHANGED <<table, open, ctl_hd, log_hd>>
    BY DEF vars, ctlVars
<1>2. NoDuplicateSubscriber' /\ UdpCount' /\ SocketsOwned'
    BY <1>1, TableUnchanged, SocketsUnchanged DEF IInv
<1>3. TypeOK'
    BY DEF IInv, TypeOK, vars, table, ctlVars, flushVars
<1>4. LockInv' /\ BlockInv' /\ SendInv' /\ CtlInv'
    BY DEF IInv, LockInv, BlockInv, SendInv, CtlInv, vars, table, ctlVars, flushVars, Live
<1> QED
    BY <1>2, <1>3, <1>4 DEF IInv

\* A restart leaves what Init describes.
LEMMA InitNextInv == Init' => IInv'
<1>1. Init => IInv
    BY InitInv
<1> QED
    BY <1>1, PTL

LEMMA RestartInv == ASSUME AcceptFailPanics PROVE IInv'
<1>1. Init'
    BY DEF AcceptFailPanics, Init, NoClients, AtRest, Stale, Slots, Tasks, NoReq
<1> QED
    BY <1>1, InitNextInv

LEMMA NextInv == ASSUME IInv, [Next]_vars PROVE IInv'
<1>1. CASE \E t \in Loggers : LogCall(t)
    BY <1>1, LogCallInv
<1>2. CASE \E t \in Tasks : FlushTake(t) \/ FlushStep(t)
    BY <1>2, FlushTakeInv, BlockStartInv, SendOkInv, SendFailInv, DropClientInv, BlockEndInv,
        FlushGiveInv
       DEF FlushStep
<1>3. CASE CtlStep
    BY <1>3, CtlQuietInv, CtlSocketInv, SubInsertInv, UnsubFoundInv DEF CtlStep, CtlQuiet
<1>4. CASE CtlInput
    BY <1>4, CtlQuietInv, CtlSocketInv, RestartInv DEF CtlInput, CtlQuiet
<1>5. CASE UNCHANGED vars
    BY <1>5, StutterInv
<1> QED
    BY <1>1, <1>2, <1>3, <1>4, <1>5 DEF Next

-----------------------------------------------------------------------------
(* Theorems.                                                               *)

\* The inductive invariant holds: every reachable state satisfies IInv.
THEOREM Invariance == Spec => []IInv
<1>1. Init => IInv
    BY InitInv
<1>2. IInv /\ [Next]_vars => IInv'
    BY NextInv
<1> QED
    BY <1>1, <1>2, PTL DEF Spec

\* Every variable keeps its type (the table never holds more than MaxClients
\* entries, and no index leaves it).
THEOREM TypeCorrect == Spec => []TypeOK
<1>1. IInv => TypeOK
    BY DEF IInv
<1> QED
    BY <1>1, Invariance, PTL

\* No address is subscribed twice, netlog.c:261 and 292.
THEOREM NoDuplicates == Spec => []NoDuplicateSubscriber
<1>1. IInv => NoDuplicateSubscriber
    BY DEF IInv
<1> QED
    BY <1>1, Invariance, PTL

\* Every subscriber owns an open socket of its own, netlog.c:351.
THEOREM Ownership == Spec => []SocketsOwned
<1>1. IInv => SocketsOwned
    BY DEF IInv
<1> QED
    BY <1>1, Invariance, PTL

\* udp_clients_num counts the UDP subscribers, netlog.c:58.
THEOREM UdpCounted == Spec => []UdpCount
<1>1. IInv => UdpCount
    BY DEF IInv
<1> QED
    BY <1>1, Invariance, PTL

\* PK_ASSERT(i >= 0) of ctl_sub() never fails, netlog.c:297.
THEOREM AssertHolds == Spec => []InsertHasRoom
<1>1. IInv => InsertHasRoom
    BY DEF IInv, CtlInv, InsertHasRoom, At
<1> QED
    BY <1>1, Invariance, PTL

\* A datagram is never built from a buffer the block was not copied to, nor is
\* it longer than that buffer, netlog.c:387-405.
THEOREM DatagramFits == Spec => []UdpBlockFits
<1>1. IInv => UdpBlockFits
    BY DEF IInv, SendInv, UdpBlockFits, At, Live, TypeOK
<1> QED
    BY <1>1, Invariance, PTL

-----------------------------------------------------------------------------
(* What a step may do: the inductive invariants.                           *)

\* The subscribers behind the index that the block has not been sent to.
Missed == {j \in Live : j < i /\ clients[j].hd \notin served}

\* In the loop over the subscribers: those behind the index were served or are
\* no more than were removed, those before it were not served.
LoopInv ==
    \A t \in Tasks : pc[t] \in {"send", "report"} =>
        /\ Cardinality(Missed) <= removed
        /\ \A j \in Live : j >= i => clients[j].hd \notin served

\* Where the control task is, or goes on after the line it logs.
Place == IF pc[Ctl] \in FlushLabels THEN cont[Ctl] ELSE pc[Ctl]

\* The sockets and the request the control task has at each place.
PlaceInv ==
    /\ Place = "accept" => ctl_hd = NoHd
    /\ Place \notin {"connect", "insert"} => log_hd = NoHd
    /\ Place \in {"accept", "recv"} => req = NoReq /\ resp = "none"
    /\ Place \in {"dup", "free", "socket", "connect", "insert"} =>
           req \in Requests /\ req.op = "S" /\ resp = "none"
    /\ Place = "unsub" => req \in Requests /\ req.op = "U" /\ resp = "none"
    /\ Place \in {"list", "list_read", "reply", "close"} =>
           req = NoReq /\ resp \in {"+", "-"}

StepInv == IInv /\ LoopInv /\ PlaceInv

\* Nothing is sent yet and the control task waits for a connection.
LEMMA InitStepInv == ASSUME Init PROVE StepInv
<1>1. LoopInv
    BY DEF Init, AtRest, LoopInv
<1>2. Place = "accept"
    BY DEF Init, AtRest, Place, FlushLabels, Tasks
<1> QED
    BY <1>1, <1>2, InitInv DEF Init, PlaceInv, StepInv

-----------------------------------------------------------------------------
(* Where a step takes the control task.                                    *)

\* The place is the label, and a step that goes on or logs leads to the new one.
LEMMA PlaceOf ==
    ASSUME IInv
    PROVE  /\ pc[Ctl] \notin FlushLabels => Place = pc[Ctl]
           /\ \A l \in CtlLabels \ FlushLabels :
                  Goto(Ctl, l) \/ LogThen(Ctl, l) => Place' = l
BY DEF IInv, TypeOK, Place, Goto, LogThen, FlushLabels, Tasks

\* The steps of the flush and of the other tasks.
FlushSteps ==
    \/ \E t \in Loggers : LogCall(t)
    \/ \E t \in Tasks : FlushTake(t) \/ FlushStep(t)

\* A flush moves the control task nowhere but where it goes on.
LEMMA FlushPlace ==
    ASSUME IInv, FlushSteps \/ UNCHANGED vars
    PROVE  Place' = Place /\ UNCHANGED <<ctlVars>>
<1> USE DEF At
<1>1. /\ pc \in [Tasks -> LoggerLabels \cup CtlLabels]
      /\ cont \in [Tasks -> LoggerLabels \cup CtlLabels]
      /\ Ctl \in Tasks /\ cont[Ctl] \notin FlushLabels
    BY DEF IInv, TypeOK, LockInv, Tasks, FlushLabels
<1>2. CASE UNCHANGED vars
    BY <1>2 DEF vars, Place
<1>3. CASE \E t \in Loggers : LogCall(t)
    BY <1>1, <1>3 DEF LogCall, LogThen, Place, Tasks
<1>4. CASE \E t \in Tasks :
               FlushTake(t) \/ BlockStart(t) \/ SendFail(t) \/ DropClient(t) \/ BlockEnd(t)
    BY <1>1, <1>4 DEF FlushTake, BlockStart, SendFail, DropClient, BlockEnd, Goto, Place, FlushLabels
<1>5. CASE \E t \in Tasks : SendOk(t)
    BY <1>1, <1>5 DEF SendOk, Place
<1>6. CASE \E t \in Tasks : FlushGive(t)
    BY <1>1, <1>6 DEF FlushGive, Goto, Place, FlushLabels
<1> QED
    BY <1>2, <1>3, <1>4, <1>5, <1>6 DEF FlushSteps, FlushStep

\* Every step keeps what the control task has at its place.
LEMMA PlaceStep == ASSUME IInv, PlaceInv, [Next]_vars PROVE PlaceInv'
<1> USE DEF At, Answer, CtlLabels, FlushLabels
<1>0. /\ IInv' /\ NoHd \notin Handles
      /\ req \in Requests \cup {NoReq} /\ resp \in Resps \cup {"none"}
    BY NextInv DEF IInv, TypeOK
<1>1. CASE FlushSteps \/ UNCHANGED vars
    BY <1>1, FlushPlace DEF PlaceInv, ctlVars
<1>2. CASE AcceptFailPanics
    <2>1. Place' = "accept"
        BY <1>2 DEF AcceptFailPanics, Place, AtRest, Tasks
    <2> QED
        BY <1>2, <2>1 DEF AcceptFailPanics, PlaceInv
<1>3. CASE AcceptFailSurvives \/ \E h \in Handles : Accept(h)
    <2>1. Place = "accept"
        BY <1>3, PlaceOf DEF AcceptFailSurvives, Accept
    <2>2. Place' \in {"accept", "recv"}
        BY <1>3, PlaceOf DEF AcceptFailSurvives, Accept
    <2>3. AcceptFailSurvives => Place' = "accept"
        BY PlaceOf DEF AcceptFailSurvives
    <2>4. (\E h \in Handles : Accept(h)) => Place' = "recv"
        BY PlaceOf DEF Accept
    <2> QED
        BY <1>3, <2>1, <2>2, <2>3, <2>4 DEF AcceptFailSurvives, Accept, PlaceInv, ctlVars
<1>4. ASSUME NEW r \in Requests, Recv(r) PROVE PlaceInv'
    <2>1. Place = "recv" /\ Place' = IF r.op = "S" THEN "dup" ELSE "unsub"
        BY <1>4, PlaceOf DEF Recv
    <2>2. r.op \in {"S", "U"}
        BY DEF Requests
    <2> QED
        BY <1>4, <2>1, <2>2 DEF Recv, PlaceInv
<1>5. ASSUME NEW s \in Resps, NEW l \in {"reply", "list"}, Answer(s, l), UNCHANGED ctl_hd,
             log_hd' = NoHd
      PROVE  PlaceInv'
    <2>1. Place' = l
        BY <1>5, PlaceOf
    <2> QED
        BY <1>5, <2>1 DEF PlaceInv, Resps
<1>6. CASE RecvMalformed \/ SubBadProto \/ SubSocketFail \/ UnsubNotFound
    <2>1. Place \in {"recv", "socket", "unsub"}
        BY <1>6, PlaceOf DEF RecvMalformed, SubBadProto, SubSocketFail, UnsubNotFound
    <2> QED
        BY <1>5, <1>6, <2>1
           DEF RecvMalformed, SubBadProto, SubSocketFail, UnsubNotFound, PlaceInv, Resps
<1>7. CASE SubConnectFail \/ SubInsert \/ \E j \in Slots : UnsubFound(j)
    <2>1. (\E j \in Slots : UnsubFound(j)) => Place = "unsub"
        BY PlaceOf DEF UnsubFound
    <2> QED
        BY <1>5, <1>7, <2>1 DEF SubConnectFail, SubInsert, UnsubFound, PlaceInv, Resps
<1>8. CASE SubCheckDup \/ SubCheckFree
    <2>1. Place \in {"dup", "free"}
        BY <1>8, PlaceOf DEF SubCheckDup, SubCheckFree
    <2>2. CASE \E s \in Resps : Answer(s, "reply")
        BY <1>5, <1>8, <2>1, <2>2 DEF SubCheckDup, SubCheckFree, PlaceInv
    <2>3. CASE \/ Goto(Ctl, "free") /\ UNCHANGED <<req, resp>>
               \/ Goto(Ctl, "socket") /\ UNCHANGED <<req, resp>>
        <3>1. Place' \in {"free", "socket"}
            BY <2>3, PlaceOf
        <3> QED
            BY <1>8, <2>1, <2>3, <3>1 DEF SubCheckDup, SubCheckFree, PlaceInv
    <2> QED
        BY <1>8, <2>2, <2>3 DEF SubCheckDup, SubCheckFree, Resps
<1>9. CASE SubConnectOk \/ \E h \in Handles : SubSocket(h)
    <2>1. Place \in {"socket", "connect"} /\ Place' \in {"connect", "insert"}
        BY <1>9, PlaceOf DEF SubConnectOk, SubSocket
    <2> QED
        BY <1>9, <2>1 DEF SubConnectOk, SubSocket, PlaceInv, ctlVars
<1>10. CASE ListTest \/ ListRead \/ Reply
    <2>1. Place \in {"list", "list_read", "reply"} /\ Place' \in {"list", "list_read", "reply", "close"}
        BY <1>10, PlaceOf DEF ListTest, ListRead, Reply
    <2> QED
        BY <1>10, <2>1 DEF ListTest, ListRead, Reply, PlaceInv, ctlVars
<1>11. CASE CloseCtl
    <2>1. Place = "close" /\ Place' = "accept"
        BY <1>11, PlaceOf DEF CloseCtl
    <2> QED
        BY <1>11, <2>1 DEF CloseCtl, PlaceInv
<1> QED
    BY <1>1, <1>2, <1>3, <1>4, <1>6, <1>7, <1>8, <1>9, <1>10, <1>11
       DEF Next, FlushSteps, CtlStep, CtlInput

-----------------------------------------------------------------------------
(* The loop over the subscribers.                                          *)

\* A step outside the loop: it enters the loop nowhere, and changes the table
\* only when no task is in the loop.
OutsideLoop ==
    /\ UNCHANGED <<i, served, removed>>
    /\ mutex = NoTask \/ UNCHANGED table
    /\ \A t \in Tasks : pc'[t] \in {"send", "report"} => pc[t] \in {"send", "report"}

\* A step of the control task outside a flush touches no loop.
LEMMA CtlOutsideLoop ==
    ASSUME IInv, CtlStep \/ CtlInput
    PROVE  OutsideLoop \/ AcceptFailPanics
<1> USE DEF At
<1>1. /\ pc \in [Tasks -> LoggerLabels \cup CtlLabels] /\ Ctl \in Tasks
    BY DEF IInv, TypeOK, Tasks
<1>2. ASSUME NEW l, l \notin {"send", "report"}, Goto(Ctl, l) \/ LogThen(Ctl, l),
             UNCHANGED flushVars, mutex = NoTask \/ UNCHANGED table
      PROVE  OutsideLoop
    BY <1>1, <1>2 DEF OutsideLoop, Goto, LogThen, flushVars
<1> USE <1>2
<1>3. CASE \/ SubCheckDup \/ SubCheckFree \/ SubBadProto \/ SubSocketFail
           \/ SubConnectOk \/ SubConnectFail \/ SubInsert
    BY <1>3 DEF SubCheckDup, SubCheckFree, SubBadProto, SubSocketFail, SubConnectOk,
                SubConnectFail, SubInsert, Answer
<1>4. CASE \/ \E h \in Handles : SubSocket(h) \/ Accept(h)
           \/ \E j \in Slots : UnsubFound(j)
           \/ \E r \in Requests : Recv(r)
           \/ UnsubNotFound \/ RecvMalformed \/ AcceptFailSurvives
    BY <1>4 DEF SubSocket, Accept, UnsubFound, Recv, UnsubNotFound, RecvMalformed,
                AcceptFailSurvives, Answer
<1>5. CASE ListTest \/ ListRead \/ Reply \/ CloseCtl
    BY <1>5 DEF ListTest, ListRead, Reply, CloseCtl
<1> QED
    BY <1>3, <1>4, <1>5 DEF CtlStep, CtlInput

\* del_client(j) keeps every other subscriber, in its order.
LEMMA ShiftedEntries ==
    ASSUME TypeOK, NEW j \in Live, DelClient(j)
    PROVE  /\ clients_num' = clients_num - 1
           /\ \A k \in Live' : /\ clients'[k] = clients[IF k < j THEN k ELSE k + 1]
                               /\ (IF k < j THEN k ELSE k + 1) \in Live \ {j}
           /\ \A m \in Live \ {j} : \E k \in Live' : clients'[k] = clients[m]
<1>1. /\ clients_num \in 1 .. MaxClients /\ j \in 0 .. clients_num - 1
      /\ clients_num' = clients_num - 1
    BY DEF TypeOK, DelClient, Live
<1>2. ASSUME NEW k \in Live'
      PROVE  /\ clients'[k] = clients[IF k < j THEN k ELSE k + 1]
             /\ (IF k < j THEN k ELSE k + 1) \in Live \ {j}
    BY <1>1, <1>2 DEF DelClient, Shifted, Live, Slots
<1>3. ASSUME NEW m \in Live \ {j} PROVE \E k \in Live' : clients'[k] = clients[m]
    <2>1. CASE m < j
        BY <1>1, <1>2, <2>1 DEF Live
    <2>2. CASE m > j
        <3>1. m - 1 \in Live' /\ ~(m - 1 < j) /\ (m - 1) + 1 = m
            BY <1>1, <2>2 DEF Live
        <3> QED
            BY <1>2, <3>1
    <2> QED
        BY <1>1, <2>1, <2>2 DEF Live
<1> QED
    BY <1>1, <1>2, <1>3

\* Who sends is inside the table, and a failed send removes that entry.
LEMMA SendPlace ==
    ASSUME IInv, NEW t \in Tasks, SendOk(t) \/ DropClient(t)
    PROVE  /\ i \in Live /\ i \in Nat /\ removed \in Nat /\ clients_num \in Nat
           /\ Live \subseteq Slots
           /\ SendOk(t) => /\ Live' = Live
                           /\ \A k \in Slots : clients'[k].hd = clients[k].hd
           /\ DropClient(t) => DelClient(i)
<1>1. i \in Nat /\ removed \in Nat /\ clients_num \in 0 .. MaxClients
    BY DEF IInv, TypeOK
<1>2. i < clients_num
    BY DEF SendOk, DropClient, IInv, SendInv, At
<1>3. i \in Live /\ Live \subseteq Slots
    BY <1>1, <1>2 DEF Live, Slots
<1>4. ASSUME SendOk(t)
      PROVE  Live' = Live /\ \A k \in Slots : clients'[k].hd = clients[k].hd
    BY <1>3, <1>4, CountedType DEF SendOk, Live, IInv
<1> QED
    BY <1>1, <1>3, <1>4 DEF DropClient

\* A send leaves nobody behind; a removal leaves one subscriber, at most, for
\* the one it removes.
LEMMA SendMisses ==
    ASSUME IInv, IInv', NEW t \in Tasks, SendOk(t) \/ DropClient(t),
           Cardinality(Missed) <= removed
    PROVE  Cardinality(Missed') <= removed'
<1>1. /\ IsFiniteSet(Missed) /\ Cardinality(Missed) \in Nat
      /\ Cardinality(Missed') \in Nat
    <2>1. IsFiniteSet(Live) /\ IsFiniteSet(Live')
        <3>1. clients_num \in Nat /\ clients_num' \in Nat
            BY DEF IInv, TypeOK
        <3>2. \A num \in Nat : IsFiniteSet(0 .. num - 1)
            BY FS_Interval
        <3> QED
            BY <3>1, <3>2 DEF Live
    <2>2. IsFiniteSet(Missed) /\ IsFiniteSet(Missed')
        <3>1. Missed \subseteq Live /\ Missed' \subseteq Live'
            BY DEF Missed
        <3> QED
            BY <2>1, <3>1, FS_Subset
    <2> QED
        BY <2>2, FS_CardinalityType
<1>2. /\ i \in Live /\ i \in Nat /\ removed \in Nat /\ clients_num \in Nat
      /\ Live \subseteq Slots
    BY SendPlace
<1>3. CASE SendOk(t)
    <2>1. Live' = Live /\ \A k \in Slots : clients'[k].hd = clients[k].hd
        BY <1>3, SendPlace
    <2>2. Missed' \subseteq Missed
        BY <1>2, <1>3, <2>1 DEF SendOk, Missed, Live
    <2>3. Cardinality(Missed') <= Cardinality(Missed)
        BY <1>1, <2>2, FS_Subset
    <2> QED
        BY <1>1, <1>2, <1>3, <2>3 DEF SendOk
<1>4. CASE DropClient(t)
    <2>1. Missed' \subseteq Missed \cup {i}
        <3>1. DelClient(i) /\ i' = i + 1 /\ served' = served
            BY <1>4 DEF DropClient, NextAfterDel
        <3>2. ASSUME NEW k \in Missed', k # i PROVE k \in Missed
            <4>1. k \in Live' /\ k < i /\ clients'[k].hd \notin served
                BY <1>2, <3>1, <3>2 DEF Missed, Live
            <4>2. clients'[k] = clients[k] /\ k \in Live
                BY <1>2, <3>1, <4>1, ShiftedEntries DEF IInv
            <4> QED
                BY <4>1, <4>2 DEF Missed
        <3> QED
            BY <3>2
    <2>2. /\ Cardinality(Missed \cup {i}) <= Cardinality(Missed) + 1
          /\ IsFiniteSet(Missed \cup {i}) /\ Cardinality(Missed \cup {i}) \in Nat
        <3> HIDE DEF Missed
        <3>1. /\ IsFiniteSet(Missed \cup {i})
              /\ Cardinality(Missed \cup {i}) =
                    IF i \in Missed THEN Cardinality(Missed) ELSE Cardinality(Missed) + 1
            BY <1>1, FS_AddElement
        <3> QED
            BY <1>1, <3>1
    <2>3. Cardinality(Missed') <= Cardinality(Missed \cup {i})
        BY <2>1, <2>2, FS_Subset
    <2> QED
        BY <1>1, <1>2, <1>4, <2>2, <2>3 DEF DropClient
<1> QED
    BY <1>3, <1>4

\* What is still to be sent to was not served: sockets are never shared.
LEMMA SendAhead ==
    ASSUME IInv, NEW t \in Tasks, SendOk(t) \/ DropClient(t),
           \A j \in Live : j >= i => clients[j].hd \notin served
    PROVE  \A j \in Live' : j >= i' => clients'[j].hd \notin served'
<1>1. /\ i \in Live /\ i \in Nat /\ clients_num \in Nat /\ Live \subseteq Slots
      /\ \A j, k \in Live : clients[j].hd = clients[k].hd => j = k
    BY SendPlace DEF IInv, SocketsOwned
<1>2. CASE SendOk(t)
    <2>1. Live' = Live /\ \A k \in Slots : clients'[k].hd = clients[k].hd
        BY <1>2, SendPlace
    <2>2. i' = i + 1 /\ served' = served \cup {clients[i].hd}
        BY <1>2 DEF SendOk
    <2> SUFFICES ASSUME NEW j \in Live, j >= i + 1
                 PROVE  clients'[j].hd \notin served \cup {clients[i].hd}
        BY <2>1, <2>2
    <2>3. j \in Int /\ j # i /\ j >= i
        BY <1>1 DEF Live
    <2>4. clients'[j].hd = clients[j].hd
        BY <1>1, <2>1
    <2> QED
        BY <1>1, <2>3, <2>4
<1>3. CASE DropClient(t)
    <2>1. DelClient(i) /\ i' = i + 1 /\ served' = served
        BY <1>3 DEF DropClient, NextAfterDel
    <2> SUFFICES ASSUME NEW j \in Live', j >= i + 1 PROVE clients'[j].hd \notin served
        BY <2>1
    <2>2. clients'[j] = clients[j + 1] /\ j + 1 \in Live /\ j + 1 >= i
        BY <1>1, <2>1, ShiftedEntries DEF IInv, Live
    <2> QED
        BY <2>2
<1> QED
    BY <1>2, <1>3

\* Every step keeps whom the loop has served.
LEMMA LoopStep == ASSUME IInv, LoopInv, [Next]_vars PROVE LoopInv'
<1> DEFINE Sound == /\ Cardinality(Missed) <= removed
                    /\ \A j \in Live : j >= i => clients[j].hd \notin served
<1> SUFFICES ASSUME NEW t \in Tasks, pc'[t] \in {"send", "report"} PROVE Sound'
    BY DEF LoopInv
<1> USE DEF At
<1>0. /\ IInv'
      /\ pc \in [Tasks -> LoggerLabels \cup CtlLabels]
      /\ \A u \in Tasks : pc[u] \in {"block", "send", "report"} <=> mutex = u
    BY NextInv DEF IInv, TypeOK, LockInv
<1>1. ASSUME OutsideLoop PROVE Sound'
    <2>1. pc[t] \in {"send", "report"} /\ mutex = t
        BY <1>0, <1>1 DEF OutsideLoop
    <2>2. UNCHANGED <<clients, clients_num, i, served, removed>>
        BY <1>1, <2>1 DEF OutsideLoop, table, Tasks
    <2>3. Missed' = Missed /\ Live' = Live
        BY <2>2 DEF Missed, Live
    <2> QED
        BY <2>1, <2>2, <2>3 DEF LoopInv
<1>2. CASE UNCHANGED vars
    BY <1>1, <1>2 DEF vars, flushVars, OutsideLoop
<1>3. CASE \E u \in Loggers : LogCall(u)
    BY <1>0, <1>1, <1>3 DEF LogCall, LogThen, OutsideLoop, flushVars, Tasks
<1>4. ASSUME NEW u \in Tasks, FlushTake(u) PROVE Sound'
    BY <1>0, <1>1, <1>4 DEF FlushTake, Goto, OutsideLoop
<1>5. ASSUME NEW u \in Tasks, BlockStart(u) PROVE Sound'
    <2>1. Missed' = {} /\ removed' = 0 /\ served' = {}
        BY <1>5 DEF BlockStart, FirstClient, Missed, Live
    <2> QED
        BY <2>1, FS_EmptySet
<1>6. ASSUME NEW u \in Tasks, SendOk(u) \/ DropClient(u) PROVE Sound'
    <2>1. Sound
        BY <1>6 DEF LoopInv, SendOk, DropClient
    <2> QED
        BY <1>0, <1>6, <2>1, SendMisses, SendAhead
<1>7. ASSUME NEW u \in Tasks, BlockEnd(u) PROVE Sound'
    BY <1>0, <1>7 DEF BlockEnd, Goto
<1>10. ASSUME NEW u \in Tasks, SendFail(u) PROVE Sound'
    BY <1>0, <1>1, <1>10 DEF SendFail, Goto, OutsideLoop, flushVars
<1>8. ASSUME NEW u \in Tasks, FlushGive(u) PROVE Sound'
    <2>1. cont[u] \notin {"send", "report"}
        BY DEF IInv, LockInv, Tasks
    <2> QED
        BY <1>0, <1>1, <1>8, <2>1 DEF FlushGive, Goto, OutsideLoop
<1>9. CASE CtlStep \/ CtlInput
    <2>1. ~AcceptFailPanics
        BY DEF AcceptFailPanics, AtRest
    <2> QED
        BY <1>1, <1>9, <2>1, CtlOutsideLoop
<1> QED
    BY <1>2, <1>3, <1>4, <1>5, <1>6, <1>7, <1>8, <1>9, <1>10 DEF Next, FlushStep

\* The inductive invariant holds in every state.
LEMMA StepInvariant == Spec => []StepInv
<1>1. Init => StepInv
    BY InitStepInv
<1>2. StepInv /\ [Next]_vars => StepInv'
    BY NextInv, PlaceStep, LoopStep DEF StepInv
<1> QED
    BY <1>1, <1>2, PTL DEF Spec

-----------------------------------------------------------------------------
(* What a step does to the table and to the sockets.                       *)

\* The steps that change the table.
TableStep ==
    \/ AcceptFailPanics \/ SubInsert
    \/ \E j \in Slots : UnsubFound(j)
    \/ \E t \in Tasks : SendOk(t) \/ DropClient(t)

\* Only the steps of TableStep change the table.
LEMMA TableSteps == [Next]_vars => TableStep \/ UNCHANGED table
<1>1. UNCHANGED vars => UNCHANGED table
    BY DEF vars
<1>2. ASSUME NEW t \in Tasks, LogCall(t) \/ FlushTake(t) \/ BlockStart(t) \/ SendFail(t) \/ BlockEnd(t) \/ FlushGive(t)
      PROVE  UNCHANGED table
    BY <1>2 DEF LogCall, FlushTake, BlockStart, SendFail, BlockEnd, FlushGive
<1>3. ASSUME CtlStep \/ CtlInput PROVE TableStep \/ UNCHANGED table
    BY <1>3 DEF CtlStep, CtlInput, TableStep, SubCheckFree, SubBadProto, SubSocketFail, SubSocket,
                SubConnectOk, SubConnectFail, SubCheckDup, UnsubNotFound, ListTest, ListRead,
                Reply, CloseCtl, Accept, AcceptFailSurvives, Recv, RecvMalformed
<1> QED
    BY <1>1, <1>2, <1>3 DEF Next, FlushStep, TableStep, Tasks

\* A removal takes a live entry out and no other socket.
LEMMA RemovalPlace ==
    ASSUME IInv, \/ \E j \in Slots : UnsubFound(j)
                 \/ \E t \in Tasks : DropClient(t)
    PROVE  /\ \E j \in Live : DelClient(j)
           /\ UNCHANGED <<ctl_hd, log_hd>>
<1>1. ASSUME NEW j \in Slots, UnsubFound(j) PROVE j \in Live /\ DelClient(j)
    BY <1>1 DEF UnsubFound, ClientIdx
<1>2. ASSUME NEW t \in Tasks, DropClient(t) PROVE i \in Live /\ DelClient(i)
    BY <1>2, SendPlace
<1> QED
    BY <1>1, <1>2 DEF UnsubFound, DropClient, ctlVars

\* The entry that SubInsert adds behind the others.
LEMMA InsertedEntry ==
    ASSUME IInv, SubInsert
    PROVE  /\ clients_num \in 0 .. MaxClients - 1
           /\ Live' = Live \cup {clients_num} /\ clients'[clients_num] = NewEntry
           /\ \A k \in Live : clients'[k] = clients[k]
<1>1. clients_num \in 0 .. MaxClients - 1 /\ clients \in [Slots -> Entry]
    BY DEF IInv, TypeOK, SubInsert, HasFreeIdx
<1>2. clients_num \in Slots /\ clients_num' = clients_num + 1
      /\ clients' = [clients EXCEPT ![clients_num] = NewEntry]
    BY <1>1 DEF SubInsert, Slots
<1>3. Live' = Live \cup {clients_num} /\ Live \subseteq Slots /\ clients_num \notin Live
    BY <1>1, <1>2 DEF Live, Slots
<1> QED
    BY <1>1, <1>2, <1>3

\* What SequenceFollowsSends says of a subscriber after a step.
Follows(k) ==
    IF \E j \in Live : clients[j].hd = clients'[k].hd
    THEN \E j \in Live : /\ clients[j].hd = clients'[k].hd
                         /\ clients'[k].pack_cnt = NumberAfter(clients[j])
    ELSE clients'[k].pack_cnt = 0

\* Only a send that comes through serves anybody.
LEMMA ServedSteps == [Next]_vars => served' \subseteq served \/ \E t \in Tasks : SendOk(t)
<1>1. UNCHANGED vars => served' = served
    BY DEF vars, flushVars
<1>2. ASSUME NEW t \in Tasks,
             \/ LogCall(t) \/ FlushTake(t) \/ BlockStart(t) \/ SendFail(t) \/ DropClient(t)
             \/ BlockEnd(t) \/ FlushGive(t)
      PROVE  served' \subseteq served
    BY <1>2 DEF LogCall, FlushTake, BlockStart, SendFail, DropClient, BlockEnd, FlushGive, flushVars
<1>3. ASSUME CtlStep \/ CtlInput PROVE served' \subseteq served
    BY <1>3 DEF CtlStep, CtlInput, SubCheckFree, SubBadProto, SubSocketFail, SubSocket,
                SubConnectOk, SubConnectFail, SubCheckDup, SubInsert, UnsubFound, UnsubNotFound,
                ListTest, ListRead, Reply, CloseCtl, Accept, AcceptFailSurvives,
                AcceptFailPanics, Recv, RecvMalformed, flushVars
<1> QED
    BY <1>1, <1>2, <1>3 DEF Next, FlushStep, Tasks

\* Every entry follows from one of the step before, or is new.
LEMMA FollowsStep ==
    ASSUME StepInv, [Next]_vars, NEW k \in Live', clients'[k].udp
    PROVE  Follows(k)
<1> USE DEF StepInv
<1>1. ASSUME NEW m \in Live, clients'[k] = clients[m], clients[m].hd \notin served' \ served
      PROVE  Follows(k)
    BY <1>1 DEF Follows, NumberAfter
<1>2. ASSUME NEW t \in Tasks, SendOk(t) PROVE Follows(k)
    <2>1. /\ i \in Live /\ Live' = Live /\ Live \subseteq Slots /\ i \in Nat
          /\ clients'[k].hd = clients[k].hd
        BY <1>2, SendPlace
    <2>2. clients' = Counted(i) /\ served' = served \cup {clients[i].hd}
        BY <1>2 DEF SendOk
    <2>3. clients \in [Slots -> Entry] /\ clients[i] \in Entry
        BY <2>1 DEF IInv, TypeOK
    <2>4. CASE k # i
        <3>1. clients'[k] = clients[k]
            BY <2>1, <2>2, <2>3, <2>4 DEF Counted
        <3>2. clients[k].hd # clients[i].hd
            BY <2>1, <2>4 DEF IInv, SocketsOwned
        <3> QED
            BY <1>1, <2>1, <2>2, <3>1, <3>2
    <2>5. CASE k = i
        <3>1. clients[i].udp
            BY <2>1, <2>2, <2>3, <2>5 DEF Counted, Entry
        <3>2. clients'[k].pack_cnt = (clients[i].pack_cnt + 1) % PackMod
            BY <2>1, <2>2, <2>3, <2>5, <3>1 DEF Counted, Entry
        <3>3. clients[i].hd \in served' \ served
            <4>1. pc[t] = "send"
                BY <1>2 DEF SendOk, At
            <4> QED
                BY <2>1, <2>2, <4>1 DEF LoopInv
        <3> QED
            BY <2>1, <2>5, <3>2, <3>3 DEF Follows, NumberAfter
    <2> QED
        BY <2>4, <2>5
<1>3. CASE served' \subseteq served
    <2>1. CASE UNCHANGED table
        BY <1>1, <1>3, <2>1 DEF table, Live
    <2>2. CASE AcceptFailPanics
        BY <2>2 DEF AcceptFailPanics, Live
    <2>3. CASE SubInsert
        <3>1. CASE k \in Live
            BY <1>1, <1>3, <2>3, <3>1, InsertedEntry
        <3>2. CASE k = clients_num
            <4>1. clients'[k].hd = log_hd /\ clients'[k].pack_cnt = 0
                BY <2>3, <3>2, InsertedEntry DEF NewEntry
            <4>2. \A j \in Live : clients[j].hd # log_hd
                BY DEF IInv, SocketsOwned
            <4> QED
                BY <4>1, <4>2 DEF Follows
        <3> QED
            BY <2>3, <3>1, <3>2, InsertedEntry
    <2>4. CASE (\E j \in Slots : UnsubFound(j)) \/ \E t \in Tasks : DropClient(t)
        <3>1. PICK m \in Live : clients'[k] = clients[m]
            BY <2>4, RemovalPlace, ShiftedEntries DEF IInv
        <3> QED
            BY <1>1, <1>3, <3>1
    <2> QED
        BY <1>2, <2>1, <2>2, <2>3, <2>4, TableSteps DEF TableStep
<1> QED
    BY <1>2, <1>3, ServedSteps

Sockets == {clients[j].hd : j \in Live}

\* No step but a failing connect() loses a socket.
LEMMA LeakStep ==
    ASSUME StepInv, [Next]_vars
    PROVE  Leaked' \subseteq Leaked \cup
               (IF At(Ctl, "connect") /\ resp' = "-" THEN {log_hd} ELSE {})
<1> USE DEF StepInv, At
<1>0. /\ Leaked = open \ (Sockets \cup {ctl_hd, log_hd})
      /\ Leaked' = open' \ (Sockets' \cup {ctl_hd', log_hd'})
      /\ open \subseteq Handles /\ NoHd \notin Handles
    BY DEF Leaked, Sockets, IInv, TypeOK
<1>1. CASE (\E j \in Slots : UnsubFound(j)) \/ \E t \in Tasks : DropClient(t)
    <2>1. PICK j \in Live : DelClient(j)
        BY <1>1, RemovalPlace
    <2>2. open' = open \ {clients[j].hd} /\ UNCHANGED <<ctl_hd, log_hd>>
        BY <1>1, <2>1, RemovalPlace DEF DelClient
    <2>3. Sockets \ {clients[j].hd} \subseteq Sockets'
        BY <2>1, ShiftedEntries DEF IInv, Sockets
    <2> QED
        BY <1>0, <2>2, <2>3
<1>2. CASE SubInsert
    <2>1. open' = open /\ ctl_hd' = ctl_hd /\ NewEntry.hd = log_hd
        BY <1>2 DEF SubInsert, NewEntry
    <2>2. Sockets \subseteq Sockets' /\ log_hd \in Sockets'
        BY <1>2, <2>1, InsertedEntry DEF Sockets
    <2> QED
        BY <1>0, <2>1, <2>2
<1>3. CASE AcceptFailPanics
    BY <1>0, <1>3 DEF AcceptFailPanics
<1>4. ASSUME NEW t \in Tasks, SendOk(t) PROVE Leaked' \subseteq Leaked
    <2>1. Sockets' = Sockets
        BY <1>4, SendPlace DEF Sockets
    <2> QED
        BY <1>0, <1>4, <2>1 DEF SendOk, ctlVars
<1>5. ASSUME UNCHANGED table PROVE Sockets' = Sockets
    BY <1>5 DEF Sockets, Live, table
<1>6. CASE UNCHANGED <<table, open, ctl_hd, log_hd>>
    BY <1>0, <1>5, <1>6
<1>7. ASSUME NEW h \in Handles, Accept(h) PROVE Leaked' \subseteq Leaked
    <2>1. ctl_hd = NoHd
        BY <1>7, PlaceOf DEF Accept, PlaceInv, FlushLabels
    <2> QED
        BY <1>0, <1>5, <1>7, <2>1 DEF Accept
<1>8. ASSUME NEW h \in Handles, SubSocket(h) PROVE Leaked' \subseteq Leaked
    <2>1. log_hd = NoHd
        BY <1>8, PlaceOf DEF SubSocket, PlaceInv, FlushLabels
    <2> QED
        BY <1>0, <1>5, <1>8, <2>1 DEF SubSocket
<1>9. CASE CloseCtl
    BY <1>0, <1>5, <1>9 DEF CloseCtl
<1>10. CASE SubConnectFail
    BY <1>0, <1>5, <1>10 DEF SubConnectFail, OpenAfterConnectFail, Answer
<1>11. CASE FlushSteps \/ UNCHANGED vars
    <2>1. ASSUME NEW t \in Tasks,
                 LogCall(t) \/ FlushTake(t) \/ BlockStart(t) \/ SendFail(t) \/ BlockEnd(t) \/ FlushGive(t)
          PROVE  UNCHANGED <<table, open, ctl_hd, log_hd>>
        BY <2>1 DEF LogCall, FlushTake, BlockStart, SendFail, BlockEnd, FlushGive, ctlVars
    <2> QED
        BY <1>1, <1>4, <1>6, <1>11, <2>1 DEF FlushSteps, FlushStep, vars, ctlVars, Tasks
<1>12. CASE \/ AcceptFailSurvives \/ (\E r \in Requests : Recv(r)) \/ RecvMalformed
            \/ SubCheckDup \/ SubCheckFree \/ SubBadProto \/ SubSocketFail \/ SubConnectOk
            \/ UnsubNotFound \/ ListTest \/ ListRead \/ Reply
    BY <1>6, <1>12 DEF AcceptFailSurvives, Recv, RecvMalformed, SubCheckDup, SubCheckFree,
        SubBadProto, SubSocketFail, SubConnectOk, UnsubNotFound, ListTest, ListRead, Reply, ctlVars
<1> QED
    BY <1>1, <1>2, <1>3, <1>7, <1>8, <1>9, <1>10, <1>11, <1>12
       DEF Next, FlushSteps, CtlStep, CtlInput

-----------------------------------------------------------------------------
(* The refinement of LogSubscriptions.                                     *)

\* The call of LogSubscriptions by the control task's place.
LEMMA CallAt ==
    ASSUME IInv, PlaceInv
    PROVE  /\ Place \in {"accept", "recv"} => CallState = Abstract!Idle
           /\ Place \in {"dup", "free", "socket", "connect", "insert", "unsub"} =>
                  /\ CallState = Abstract!Serving(req.op, req.addr)
                  /\ req.addr \in Addrs
           /\ Place \in {"list", "list_read", "reply", "close"} =>
                  CallState = Abstract!Answered(resp)
<1>1. req \in Requests => req # NoReq /\ req.addr \in Addrs
    BY DEF Requests, NoReq
<1> QED
    BY <1>1 DEF PlaceInv, CallState, Abstract!Idle, Abstract!Serving, Abstract!Answered

\* What answering a request does to the call.
LEMMA CallAnswered ==
    ASSUME NEW s \in Resps, NEW l, Answer(s, l)
    PROVE  CallState' = Abstract!Answered(s)
BY DEF Answer, Resps, CallState, Abstract!Answered

\* The subscribers are those of the table.
LEMMA TableSame ==
    ASSUME UNCHANGED table
    PROVE  Subscribers' = Subscribers
BY DEF Subscribers, Live, table

\* The call is that of the request and its answer.
LEMMA CallSame ==
    ASSUME UNCHANGED <<req, resp>>
    PROVE  CallState' = CallState
BY DEF CallState

\* A removal unsubscribes one address, for no address is in the table twice.
LEMMA Removal ==
    ASSUME IInv, NEW j \in Live, DelClient(j)
    PROVE  /\ clients[j].addr \in Subscribers
           /\ Subscribers' = Subscribers \ {clients[j].addr}
<1>1. \A k, m \in Live : clients[k].addr = clients[m].addr => k = m
    BY DEF IInv, NoDuplicateSubscriber
<1>2. /\ \A k \in Live' : \E m \in Live \ {j} : clients'[k] = clients[m]
      /\ \A m \in Live \ {j} : \E k \in Live' : clients'[k] = clients[m]
    BY ShiftedEntries DEF IInv
<1> QED
    BY <1>1, <1>2 DEF Subscribers

\* There are no more subscribers than entries.
LEMMA SubscribersBounded ==
    ASSUME IInv
    PROVE  /\ Cardinality(Subscribers) <= clients_num
           /\ Cardinality(Subscribers) \in Nat
<1> DEFINE addrOf == [j \in Live |-> clients[j].addr]
<1>1. clients_num \in Nat
    BY DEF IInv, TypeOK
<1>2. IsFiniteSet(Live) /\ Cardinality(Live) = clients_num
    <2>1. \A num \in Nat : /\ IsFiniteSet(0 .. num - 1)
                           /\ Cardinality(0 .. num - 1) = IF 0 > num - 1 THEN 0 ELSE num - 1 - 0 + 1
        BY FS_Interval
    <2> QED
        BY <1>1, <2>1 DEF Live
<1>3. addrOf \in Surjection(Live, Subscribers)
    BY DEF Surjection, Subscribers
<1> HIDE DEF addrOf
<1>4. IsFiniteSet(Subscribers) /\ Cardinality(Subscribers) <= Cardinality(Live)
    BY <1>2, <1>3, FS_Surjection
<1> QED
    BY <1>2, <1>4, FS_CardinalityType

\* Every step is one of LogSubscriptions or changes nothing of it.
LEMMA RefinementStep ==
    ASSUME StepInv, [Next]_vars
    PROVE  [Abstract!Next]_<<Subscribers, CallState>>
<1> USE DEF StepInv, At
<1> DEFINE Same == UNCHANGED <<Subscribers, CallState>>
<1>1. UNCHANGED <<table, req, resp>> => Same
    BY TableSame, CallSame
<1>2. CASE FlushSteps \/ UNCHANGED vars
    <2>1. UNCHANGED ctlVars
        BY <1>2, FlushPlace
    <2>2. ASSUME NEW t \in Tasks, SendOk(t) PROVE Same
        <3>1. /\ Live' = Live
              /\ \A k \in Live : clients'[k].addr = clients[k].addr
            BY <2>2, SendPlace, CountedType DEF SendOk, IInv
        <3>2. Subscribers' = Subscribers
            BY <3>1 DEF Subscribers
        <3> QED
            BY <2>1, <3>2, CallSame DEF ctlVars
    <2>3. ASSUME NEW t \in Tasks, DropClient(t) PROVE Abstract!Drop
        <3>1. PICK j \in Live : DelClient(j)
            BY <2>3, RemovalPlace
        <3>2. UNCHANGED CallState
            BY <2>1, CallSame DEF ctlVars
        <3> QED
            BY <3>1, <3>2, Removal DEF Abstract!Drop
    <2>4. ASSUME NEW t \in Tasks,
                 LogCall(t) \/ FlushTake(t) \/ BlockStart(t) \/ SendFail(t) \/ BlockEnd(t) \/ FlushGive(t)
          PROVE  UNCHANGED table
        BY <2>4 DEF LogCall, FlushTake, BlockStart, SendFail, BlockEnd, FlushGive
    <2> QED
        BY <1>1, <1>2, <2>1, <2>2, <2>3, <2>4
           DEF FlushSteps, FlushStep, vars, ctlVars, Abstract!Next, Tasks
<1>3. CASE AcceptFailPanics
    <2>1. Subscribers' = {} /\ CallState' = Abstract!Idle
        BY <1>3 DEF AcceptFailPanics, Subscribers, Live, CallState, Abstract!Idle
    <2> QED
        BY <2>1 DEF Abstract!Restart, Abstract!Next
<1>4. CASE \/ AcceptFailSurvives \/ SubConnectOk \/ ListTest \/ ListRead \/ Reply
           \/ \E h \in Handles : Accept(h) \/ SubSocket(h)
    BY <1>1, <1>4 DEF AcceptFailSurvives, SubConnectOk, ListTest, ListRead, Reply, Accept,
                      SubSocket, ctlVars
<1>5. ASSUME NEW r \in Requests, Recv(r) PROVE Abstract!Begin
    <2>1. CallState = Abstract!Idle
        BY <1>5, PlaceOf, CallAt DEF Recv, FlushLabels
    <2>2. r.op \in {"S", "U"} /\ r.addr \in Addrs /\ r # NoReq
        BY DEF Requests, NoReq
    <2>3. resp = "none"
        BY <1>5, PlaceOf DEF Recv, FlushLabels, PlaceInv
    <2>4. CallState' = Abstract!Serving(r.op, r.addr)
        BY <1>5, <2>2, <2>3 DEF Recv, CallState, Abstract!Serving
    <2> QED
        BY <1>5, <2>1, <2>2, <2>4, TableSame DEF Recv, Abstract!Begin
<1>6. ASSUME Answer("-", "reply"), UNCHANGED table,
             CallState = Abstract!Idle \/ \E a \in Addrs \ Subscribers : CallState = Abstract!Serving("S", a)
      PROVE  Abstract!Refuse
    BY <1>6, CallAnswered, TableSame DEF Resps, Abstract!Refuse
<1>7. CASE RecvMalformed
    BY <1>6, <1>7, PlaceOf, CallAt DEF RecvMalformed, FlushLabels, Abstract!Next
<1>8. ASSUME pc[Ctl] \in {"free", "socket", "connect", "insert"}
      PROVE  /\ CallState = Abstract!Serving("S", req.addr)
             /\ req.addr \in Addrs \ Subscribers
    BY <1>8, PlaceOf, CallAt DEF FlushLabels, PlaceInv, IInv, CtlInv, Subscribers
<1>9. CASE SubCheckFree \/ SubBadProto \/ SubSocketFail \/ SubConnectFail
    BY <1>1, <1>6, <1>8, <1>9
       DEF SubCheckFree, SubBadProto, SubSocketFail, SubConnectFail, Abstract!Next
<1>10. CASE SubInsert
    <2>1. CallState = Abstract!Serving("S", req.addr) /\ req.addr \in Addrs \ Subscribers
        BY <1>8, <1>10 DEF SubInsert
    <2>2. CallState' = Abstract!Answered("+")
        BY <1>10, CallAnswered DEF SubInsert, Resps
    <2>3. Subscribers' = Subscribers \cup {req.addr}
        BY <1>10, InsertedEntry DEF Subscribers, NewEntry
    <2>4. Cardinality(Subscribers) < MaxClients
        BY <1>10, InsertedEntry, SubscribersBounded
    <2>5. Abstract!Cardinality(Subscribers) = Cardinality(Subscribers)
        BY DEF Abstract!Cardinality, Cardinality
    <2> QED
        <3> HIDE DEF Subscribers, CallState
        <3>1. Abstract!Subscribe
            BY <2>1, <2>2, <2>3, <2>4, <2>5, Zenon DEF Abstract!Subscribe
        <3> QED
            BY <3>1 DEF Abstract!Next
<1>11. CASE SubCheckDup
    <2>1. CallState = Abstract!Serving("S", req.addr)
        BY <1>11, PlaceOf, CallAt DEF SubCheckDup, FlushLabels, PlaceInv
    <2>2. CASE Subscribed(req.addr) /\ Answer("+", "reply")
        <3>1. req.addr \in Subscribers
            BY <2>2 DEF Subscribed, Subscribers
        <3>2. CallState' = Abstract!Answered("+") /\ UNCHANGED Subscribers
            BY <1>11, <2>2, CallAnswered, TableSame DEF SubCheckDup, Resps
        <3> QED
            BY <2>1, <3>1, <3>2 DEF Abstract!NothingToDo, Abstract!Next
    <2> QED
        BY <1>1, <1>11, <2>2 DEF SubCheckDup
<1>12. ASSUME pc[Ctl] = "unsub"
       PROVE  CallState = Abstract!Serving("U", req.addr) /\ req.addr \in Addrs
    BY <1>12, PlaceOf, CallAt DEF FlushLabels, PlaceInv
<1>13. ASSUME NEW j \in Slots, UnsubFound(j) PROVE Abstract!Unsubscribe
    <2>1. j \in Live /\ DelClient(j) /\ clients[j].addr = req.addr /\ pc[Ctl] = "unsub"
        BY <1>13 DEF UnsubFound, ClientIdx
    <2>2. CallState' = Abstract!Answered("+")
        BY <1>13, CallAnswered DEF UnsubFound, Resps
    <2> QED
        BY <1>12, <2>1, <2>2, Removal DEF Abstract!Unsubscribe
<1>14. CASE UnsubNotFound
    <2>1. req.addr \notin Subscribers /\ pc[Ctl] = "unsub"
        BY <1>14 DEF UnsubNotFound, Subscribed, Subscribers
    <2>2. CallState' = Abstract!Answered("+") /\ UNCHANGED Subscribers
        BY <1>14, CallAnswered, TableSame DEF UnsubNotFound, Resps
    <2> QED
        BY <1>12, <2>1, <2>2 DEF Abstract!NothingToDo, Abstract!Next
<1>15. CASE CloseCtl
    <2>1. CallState = Abstract!Answered(resp) /\ resp \in {"+", "-"} /\ req = NoReq
        BY <1>15, PlaceOf, CallAt DEF CloseCtl, FlushLabels, PlaceInv
    <2>2. CallState' = Abstract!Idle
        BY <1>15, <2>1 DEF CloseCtl, CallState, Abstract!Idle
    <2> QED
        BY <1>15, <2>1, <2>2, TableSame DEF CloseCtl, Abstract!Finish, Abstract!Next
<1> QED
    BY <1>2, <1>3, <1>4, <1>5, <1>7, <1>9, <1>10, <1>11, <1>13, <1>14, <1>15
       DEF Next, FlushSteps, CtlStep, CtlInput, Abstract!Next

-----------------------------------------------------------------------------
(* Theorems.                                                               *)

\* A block passes as many subscribers over, at most, as were removed while it
\* was sent (netlog.c:395-413).
THEOREM SkipsBounded == Spec => []SkippedAtMostRemoved
<1>1. StepInv => SkippedAtMostRemoved
    <2> SUFFICES ASSUME StepInv, NEW t \in Tasks, At(t, "send"), i >= clients_num
                 PROVE  Cardinality({j \in Live : clients[j].hd \notin served}) <= removed
        BY DEF SkippedAtMostRemoved
    <2>1. Missed = {j \in Live : clients[j].hd \notin served}
        BY DEF Missed, Live, StepInv, IInv, TypeOK
    <2> QED
        BY <2>1 DEF At, StepInv, LoopInv
<1> QED
    BY <1>1, StepInvariant, PTL

\* The packet number of a UDP subscriber starts at zero, moves by one when a
\* datagram is sent to it and stays when none is, whatever is removed around it
\* (netlog.c:397).
THEOREM Numbers == Spec => SequenceFollowsSends
<1>1. StepInv /\ [Next]_vars =>
        [\A k \in 0 .. clients_num' - 1 : clients'[k].udp =>
            IF \E j \in Live : clients[j].hd = clients'[k].hd
            THEN \E j \in Live : /\ clients[j].hd = clients'[k].hd
                                 /\ clients'[k].pack_cnt = NumberAfter(clients[j])
            ELSE clients'[k].pack_cnt = 0]_vars
    BY FollowsStep DEF Follows, Live
<1> QED
    BY <1>1, StepInvariant, PTL DEF Spec, SequenceFollowsSends

\* No path but the failing connect() of ctl_sub() loses a socket
\* (netlog.c:286).
THEOREM Leaks == Spec => LeakOnlyOnConnectFailure
<1>1. StepInv /\ [Next]_vars => [Leaked' \subseteq Leaked \cup
           (IF At(Ctl, "connect") /\ resp' = "-" THEN {log_hd} ELSE {})]_vars
    BY LeakStep
<1> QED
    BY <1>1, StepInvariant, PTL DEF Spec, LeakOnlyOnConnectFailure

\* The server implements the set of subscriptions of LogSubscriptions, which
\* changes by one request at a time or by the loss of a receiver
\* (netlog.c:256-331, 351-360).
THEOREM Refinement == Spec => ImplementsSubscriptions
<1>1. Init => Abstract!Init
    BY DEF Init, Abstract!Init, Abstract!Idle, Subscribers, Live, CallState
<1>2. StepInv /\ [Next]_vars => [Abstract!Next]_<<Subscribers, CallState>>
    BY RefinementStep
<1> QED
    BY <1>1, <1>2, StepInvariant, PTL DEF Spec, ImplementsSubscriptions, Abstract!Spec
=============================================================================
