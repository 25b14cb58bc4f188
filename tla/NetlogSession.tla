--------------------------- MODULE NetlogSession ---------------------------
(***************************************************************************)
(* The receiver of the network log, tools/netlog.py with --tcp, against a  *)
(* board that restarts.  The board's side is what LogSubscriptions         *)
(* promises; here are added its session number, its boot messages and the  *)
(* connection it opens to a receiver that subscribes.                      *)
(*                                                                         *)
(* A session is the number of the boot.  Boot messages may be lost, late   *)
(* and out of order.                                                       *)
(***************************************************************************)
EXTENDS Integers, Sequences

CONSTANTS
    Me, Others,     \* the addresses of this receiver and of others
    NoAddr,
    MaxClients,     \* CONF_LIB_NETLOG_MAX_CLIENTS
    MaxBoots,       \* bound on the board's sessions
    Copies,         \* bound on the boot messages of a session (BCAST_BOOT_NOTIFIES)
    Backlog         \* the connections the kernel keeps for accept()

ASSUME NamesAssumption == Me \notin Others /\ NoAddr \notin Others \cup {Me}
ASSUME BoundsAssumption ==
    MaxBoots \in Nat \ {0} /\ Copies \in Nat /\ Backlog \in Nat /\ MaxClients \in Nat

Sessions == 1 .. MaxBoots

VARIABLES
    session,    \* the board: its session
    subs, call, \* its subscriptions and the request it serves
    late,       \* the boot messages of each session under way
    inbox,      \* those in the receiver's socket `bcast`
    pc,         \* the receiver: where it is
    info,       \* board_info.session_id, 0 before the first answer
    last,       \* the session of the last answer (a record of the model)
    ready,      \* what select() returned and main_loop() has not handled
    backlog,    \* the connections that wait at `tcp_serv`
    log         \* socks['tcp_log']: the state of its other end, or "none"

net == <<late, inbox>>
links == <<backlog, log>>
vars == <<session, subs, call, net, pc, info, last, ready, links>>

Server == INSTANCE LogSubscriptions WITH Addrs <- Others \cup {Me}

\* The board's end of a connection: the one it writes to, lost in a restart,
\* or closed by it.
Ends == {"live", "lost", "closed"}

TypeOK ==
    /\ session \in Sessions /\ info \in 0 .. MaxBoots /\ last \in 0 .. MaxBoots
    /\ subs \subseteq Others \cup {Me}
    /\ late \in [Sessions -> 0 .. Copies] /\ inbox \in [Sessions -> 0 .. Copies]
    /\ pc \in {"connect", "wait", "loop", "dead", "gone"}
    /\ ready \subseteq {"bcast", "serv", "log", "old"}
    /\ backlog \in Seq(Ends) /\ Len(backlog) <= Backlog
    /\ log \in Ends \cup {"none"}

Init ==
    /\ session = 1 /\ Server!Init
    /\ late = [s \in Sessions |-> IF s = 1 THEN Copies ELSE 0]
    /\ inbox = [s \in Sessions |-> 0]
    /\ pc = "connect" /\ info = 0 /\ last = 0 /\ ready = {}
    /\ backlog = <<>> /\ log = "none"

Cut(as) ==
    /\ backlog' = [k \in DOMAIN backlog |-> IF backlog[k] = "live" THEN as ELSE backlog[k]]
    /\ log' = IF log = "live" THEN as ELSE log

\* An exception that main() reports before it exits; its sockets close.
Dies == pc' = "dead" /\ ready' = {} /\ backlog' = <<>> /\ log' = "none"

-----------------------------------------------------------------------------
(* The board and the network.                                              *)

\* A restart closes nothing.  The receiver whose request was being served gets
\* no answer.
Restart ==
    /\ session < MaxBoots /\ session' = session + 1
    /\ Server!Restart
    /\ late' = [late EXCEPT ![session'] = Copies]
    /\ IF pc = "wait" THEN Dies ELSE Cut("lost") /\ UNCHANGED <<pc, ready>>
    /\ UNCHANGED <<inbox, info, last>>

Arrive == \E s \in Sessions :
    /\ late[s] > 0 /\ late' = [late EXCEPT ![s] = @ - 1]
    /\ inbox' \in {inbox, [inbox EXCEPT ![s] = @ + 1]}
    /\ UNCHANGED <<session, subs, call, pc, info, last, ready, links>>

\* The board serves the request, mine or another's; it opens the connection of
\* a new subscription and closes that of one it gives up.
Mine == call.addr = Me
Serve ==
    /\ \/ Server!Subscribe \/ Server!Unsubscribe \/ Server!NothingToDo
       \/ call # Server!Idle /\ Server!Refuse
    /\ IF Mine /\ subs' = subs \cup {Me} /\ subs' # subs
       THEN /\ pc = "wait" /\ Len(backlog) < Backlog
            /\ backlog' = Append(backlog, "live") /\ UNCHANGED log
       ELSE IF subs' = subs \ {Me} /\ subs' # subs THEN Cut("closed")
       ELSE UNCHANGED links
    /\ UNCHANGED <<session, net, pc, info, last, ready>>

\* The end of a request that is not this receiver's, or that it no longer
\* waits for.
Finish ==
    /\ Server!Finish /\ pc # "wait"
    /\ UNCHANGED <<session, net, pc, info, last, ready, links>>

\* The board gives up a receiver it could not send to and closes the connection;
\* in an outage the close never arrives.
Drop ==
    /\ Server!Drop
    /\ IF Me \in subs \ subs' THEN \E as \in {"closed", "lost"} : Cut(as) ELSE UNCHANGED links
    /\ UNCHANGED <<session, net, pc, info, last, ready>>

\* Another receiver's request, or a malformed one.
OtherBegins ==
    /\ \/ Server!Begin /\ call'.addr # Me
       \/ call = Server!Idle /\ Server!Refuse /\ pc # "wait"
    /\ UNCHANGED <<session, net, pc, info, last, ready, links>>

-----------------------------------------------------------------------------
(* The receiver.                                                           *)

\* ctl_sub(): connect() is tried until the board accepts.
Connect ==
    /\ pc = "connect"
    /\ Server!Begin /\ call' = Server!Serving("S", Me)
    /\ pc' = "wait"
    /\ UNCHANGED <<session, net, info, last, ready, links>>

\* handle_ctl_resp().
Answer ==
    /\ pc = "wait" /\ Server!Finish
    /\ IF call = Server!Answered("+")
       THEN /\ info' = session /\ last' = session
            /\ pc' = "loop"
            /\ UNCHANGED <<ready, links>>
       ELSE Dies /\ UNCHANGED <<info, last>>
    /\ UNCHANGED <<session, net>>

\* No answer within CTL_TIMEOUT.
AnswerTimesOut ==
    /\ pc = "wait" /\ Dies
    /\ UNCHANGED <<session, subs, call, net, info, last>>

Pending == {s \in Sessions : inbox[s] > 0}

\* select(): the log has data, or the loss of its other end was noticed.
Select ==
    /\ pc = "loop" /\ ready = {}
    /\ \E more \in {{}} \cup (IF log = "none" THEN {} ELSE {{"log"}}) :
          ready' = (IF Pending = {} THEN {} ELSE {"bcast"})
                   \cup (IF backlog = <<>> THEN {} ELSE {"serv"}) \cup more
    /\ ready' # {}
    /\ UNCHANGED <<session, subs, call, net, pc, info, last, links>>

\* The sockets are handled in the order they were added to `socks`.
Turn(s) == /\ pc = "loop" /\ s \in ready
           /\ CASE s = "bcast" -> TRUE
                [] s = "serv" -> "bcast" \notin ready
                [] OTHER -> ready \cap {"bcast", "serv"} = {}

\* Mutant: the MAC address alone is compared.
FilterOfMac(s) == TRUE

\* BoardInfo.bcast_filter().
Filter(s) == s # info

\* Mutant: the new session is noted and no request is sent.
BelieveQuietly(s) ==
    /\ info' = s /\ log' = "none" /\ ready' = {}
    /\ UNCHANGED <<pc, backlog>>

\* handle_bcast() of a message that passed the filter.
Believe(s) ==
    /\ info' = s /\ log' = "none"
    /\ ready' = {IF r = "log" THEN "old" ELSE r : r \in ready \ {"bcast"}}
    /\ pc' = "connect"
    /\ UNCHANGED backlog

HandleBcast ==
    /\ Turn("bcast")
    /\ \E s \in Pending :
          /\ inbox' = [inbox EXCEPT ![s] = @ - 1]
          /\ IF Filter(s) THEN Believe(s)
             ELSE ready' = ready \ {"bcast"} /\ UNCHANGED <<pc, info, links>>
    /\ UNCHANGED <<session, subs, call, late, last>>

\* accept(): beside a connection it has, even a lost one, the receiver closes
\* the new one.
Accept ==
    /\ Turn("serv")
    /\ log' = IF log = "none" THEN Head(backlog) ELSE log
    /\ backlog' = Tail(backlog) /\ ready' = ready \ {"serv"}
    /\ UNCHANGED <<session, subs, call, net, pc, info, last>>

\* recv() gives data; fails (OSError: keepalive in an outage, whatever the other
\* end is, or a reset); or gives nothing: that exception is not an OSError and
\* ends the program.
ReadLog ==
    /\ Turn("log")
    /\ \/ ready' = ready \ {"log"} /\ UNCHANGED <<pc, links>>
       \/ /\ log' = "none"
          /\ ready' = ready \ {"log"} /\ UNCHANGED <<pc, backlog>>
       \/ log = "closed" /\ Dies
    /\ UNCHANGED <<session, subs, call, net, info, last>>

\* select() had returned a log socket that handle_bcast() has deleted since:
\* without a new one socks['tcp_log'] raises KeyError.
ReadOld ==
    /\ Turn("old")
    /\ IF log = "none" THEN Dies
       ELSE ready' = ready \ {"old"} /\ UNCHANGED <<pc, links>>
    /\ UNCHANGED <<session, subs, call, net, info, last>>

\* fork_for_unsub(), tried once.
Unsub ==
    /\ pc = "dead" /\ pc' = "gone"
    /\ \/ Server!Begin /\ call' = Server!Serving("U", Me)
       \/ UNCHANGED <<subs, call>>
    /\ UNCHANGED <<session, net, info, last, ready, links>>

Receiver == Answer \/ Select \/ HandleBcast \/ Accept \/ ReadLog \/ ReadOld

Next ==
    \/ Restart \/ Arrive \/ Serve \/ Finish \/ Drop \/ OtherBegins
    \/ Connect \/ AnswerTimesOut \/ Unsub \/ Receiver

Spec == Init /\ [][Next]_vars

\* The board serves what it has accepted; the receiver runs, and its connect()
\* comes through among those of others.
FairSpec == Spec /\ WF_vars(Serve \/ Finish) /\ WF_vars(Receiver) /\ SF_vars(Connect)

-----------------------------------------------------------------------------
(* Properties.                                                             *)

Connected == "live" \in {log} \cup {backlog[k] : k \in DOMAIN backlog}

\* The receiver gives up a connection the board still writes to only when: it
\* gets no answer or a refusal; it believes a boot message that is not of the
\* board's session; an earlier connection has the place of the new one; recv()
\* on its log fails or, on an earlier connection, gives nothing; or a socket is
\* ready that it has deleted (docs/netlog.md:70-76, netlog.py:80-90, 216-224,
\* 248-250, 261-276).
GivesUp ==
    \/ pc = "wait" /\ pc' = "dead"
    \/ Turn("bcast") /\ info' # session
    \/ Turn("serv") /\ log \in {"lost", "closed"}
    \/ Turn("log") /\ log' = "none"
    \/ Turn("old") /\ log = "none"
KeepsConnection == [][Connected /\ ~Connected' /\ Me \in subs' => GivesUp]_vars

\* A boot message that reaches the receiver makes it subscribe at that session,
\* unless the board restarts again or the receiver ends (docs/netlog.md:8-11).
FollowsBoot ==
    \A s \in Sessions :
        session = s /\ inbox[s] > 0 ~> last = s \/ session # s \/ pc \in {"dead", "gone"}
=============================================================================
