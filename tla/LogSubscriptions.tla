-------------------------- MODULE LogSubscriptions --------------------------
(***************************************************************************)
(* What the network log promises to its receivers, without its table, its  *)
(* mutex or its sockets: a bounded set of subscribed addresses, changed by *)
(* one request at a time and by the loss of a receiver                     *)
(* (docs/netlog.md:40-57).                                                 *)
(***************************************************************************)
EXTENDS Integers, FiniteSets

CONSTANTS Addrs, NoAddr, MaxClients

VARIABLES
    subs,     \* the subscribed addresses
    call      \* the request being served: its phase, operation and address

Idle == [phase |-> "idle", op |-> "none", addr |-> NoAddr]
Serving(op, a) == [phase |-> "serving", op |-> op, addr |-> a]
Answered(status) == [phase |-> status, op |-> "none", addr |-> NoAddr]

Init == subs = {} /\ call = Idle

\* A request arrives.
Begin == /\ call = Idle
         /\ \E op \in {"S", "U"}, a \in Addrs : call' = Serving(op, a)
         /\ UNCHANGED subs

Subscribe ==
    \E a \in Addrs \ subs :
        /\ call = Serving("S", a)
        /\ Cardinality(subs) < MaxClients
        /\ subs' = subs \cup {a}
        /\ call' = Answered("+")

Unsubscribe ==
    \E a \in subs :
        /\ call = Serving("U", a)
        /\ subs' = subs \ {a}
        /\ call' = Answered("+")

\* The request asks for what is already so.
NothingToDo ==
    /\ \/ \E a \in subs : call = Serving("S", a)
       \/ \E a \in Addrs \ subs : call = Serving("U", a)
    /\ call' = Answered("+")
    /\ UNCHANGED subs

\* Only a malformed request, or the subscription of an address that is not
\* subscribed, is refused; an unsubscription always succeeds.
Refuse ==
    /\ call = Idle \/ \E a \in Addrs \ subs : call = Serving("S", a)
    /\ call' = Answered("-")
    /\ UNCHANGED subs

\* The connection closes.
Finish == /\ call \in {Answered("+"), Answered("-")}
          /\ call' = Idle
          /\ UNCHANGED subs

\* One receiver could not be reached.
Drop == /\ \E a \in subs : subs' = subs \ {a}
        /\ UNCHANGED call

\* The chip restarts.
Restart == subs' = {} /\ call' = Idle

Next ==
    \/ Begin \/ Subscribe \/ Unsubscribe \/ NothingToDo \/ Refuse \/ Finish
    \/ Drop \/ Restart

Spec == Init /\ [][Next]_<<subs, call>>
=============================================================================
