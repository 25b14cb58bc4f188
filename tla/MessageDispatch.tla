-------------------------- MODULE MessageDispatch --------------------------
(***************************************************************************)
(* What the MQTT library promises to an application (docs/mqtt.md:34-40):  *)
(* the callbacks run one at a time, in the order in which the messages     *)
(* came, each message at most once.  A message may be given up only while  *)
(* it is the newest; all of them go when the library is deleted.           *)
(***************************************************************************)
EXTENDS Integers, Sequences

CONSTANT None       \* no message

VARIABLES
    pending,    \* the messages that wait for their callback
    active,     \* the message whose callback runs, or None
    newest      \* the number of the last message to come

dispatch == <<pending, active, newest>>

Init == pending = <<>> /\ active = None /\ newest = 0

Come == /\ newest' = newest + 1
        /\ pending' \in {pending, Append(pending, newest + 1)}
        /\ UNCHANGED active

GiveUpNewest ==
    /\ pending # <<>>
    /\ pending[Len(pending)] = newest
    /\ pending' = SubSeq(pending, 1, Len(pending) - 1)
    /\ UNCHANGED <<active, newest>>

Call == /\ active = None /\ pending # <<>>
        /\ active' = Head(pending) /\ pending' = Tail(pending)
        /\ UNCHANGED newest

Return == active # None /\ active' = None /\ UNCHANGED <<pending, newest>>

\* The callback task ends in the middle of a callback, its queue stays.
Kill == active' = None /\ UNCHANGED <<pending, newest>>

Reset == active' = None /\ pending' = <<>> /\ newest' = newest

Next == Come \/ GiveUpNewest \/ Call \/ Return \/ Kill \/ Reset

Spec == Init /\ [][Next]_dispatch
=============================================================================
