--------------------------- MODULE LogLockProofs ----------------------------
(***************************************************************************)
(* The lock order of LogLock, for any number of tasks, any set of builds   *)
(* and any length of a backtrace.                                          *)
(***************************************************************************)
EXTENDS LogLock, TLAPS

USE TasksAssumption, BuildsAssumption, LinesAssumption

-----------------------------------------------------------------------------
(* The inductive invariant: who holds which lock follows from where each    *)
(* task is in its log call.                                                 *)

TracesWithB(t) == bt[t] /\ pc[t] \notin {"idle", "takeB", "unsub", "delete"}
HoldsB(t) == TracesWithB(t) \/ pc[t] = "nestPrint"
HoldsF(t) == pc[t] \in {"takeC", "send", "nestB", "nestPrint", "giveC", "giveF"}
HoldsC(t) == pc[t] \in {"send", "nestB", "nestPrint", "giveC", "delete"}

HolderInv ==
    \A t \in Tasks :
        /\ owner["B"] = t <=> HoldsB(t)
        /\ owner["F"] = t <=> HoldsF(t)
        /\ HoldsC(t) => owner["C"] = t
        /\ owner["C"] = t =>
               \/ HoldsC(t)
               \/ build.close_fails /\ pc[t] \in {"takeB", "takeF", "takeC"}

PlaceInv ==
    \A t \in Tasks :
        /\ pc[t] \in {"idle", "unsub", "delete", "nestPrint"} => ~bt[t]
        /\ pc[t] \in {"takeB", "giveB"} => bt[t]
        /\ pc[t] \in {"nestB", "nestPrint"} => build.btrace /\ build.send_fails
        /\ pc[t] \notin {"idle", "unsub", "delete", "giveB"} => left[t] \in 1 .. Lines + 1

LInv == TypeOK /\ HolderInv /\ PlaceInv

-----------------------------------------------------------------------------
LEMMA InitInv == ASSUME Init PROVE LInv
<1>1. TypeOK
    BY DEF Init, TypeOK, Labels
<1>2. HolderInv
    BY DEF Init, HolderInv, HoldsB, TracesWithB, HoldsF, HoldsC, Locks, Tasks
<1>3. PlaceInv
    BY DEF Init, PlaceInv
<1> QED
    BY <1>1, <1>2, <1>3 DEF LInv

LEMMA NextInv == ASSUME LInv, [Next]_vars PROVE LInv'
<1> USE DEF LInv
<1> DEFINE Hold == HolderInv' /\ PlaceInv'
<1>1. ASSUME NEW t \in Tasks, Log(t) PROVE LInv'
    <2>1. TypeOK'
        BY <1>1 DEF TypeOK, Log, StartLog, Goto, Labels
    <2>2. Hold
        BY <1>1 DEF TypeOK, Log, StartLog, Goto, Labels, HolderInv, PlaceInv,
                    HoldsB, TracesWithB, HoldsF, HoldsC
    <2> QED
        BY <2>1, <2>2
<1>2. ASSUME NEW t \in Tasks, Waiting(t) PROVE LInv'
    <2> USE DEF Take, Step, Goto, Taken, Free, Locks
    <2>1. TypeOK'
        BY <1>2 DEF TypeOK, Waiting, TakeB, TakeF, TakeC, TakeNestedB, Labels
    <2>2. PlaceInv'
        <3>1. CASE TakeB(t) \/ TakeF(t) \/ TakeC(t)
            BY <3>1 DEF TypeOK, TakeB, TakeF, TakeC, PlaceInv
        <3>2. CASE TakeNestedB(t)
            BY <3>2 DEF TypeOK, TakeNestedB, CanNest, PlaceInv, HolderInv, HoldsB, TracesWithB, Tasks
        <3> QED
            BY <1>2, <3>1, <3>2 DEF Waiting
    <2>3. HolderInv'
        <3> USE DEF TypeOK, HolderInv, HoldsB, TracesWithB, HoldsF, HoldsC, Tasks
        <3>1. CASE TakeB(t)
            <4>1. /\ owner["B"] = NoTask /\ owner'["B"] = t
                  /\ \A l \in {"F", "C"} : owner'[l] = owner[l]
                BY <3>1 DEF TakeB
            <4>2. /\ pc[t] = "takeB" /\ pc'[t] = "takeF" /\ bt' = bt /\ build' = build
                  /\ \A u \in Tasks \ {t} : pc'[u] = pc[u]
                BY <3>1 DEF TakeB
            <4>3. bt[t]
                BY <4>2 DEF PlaceInv
            <4> QED
                BY <4>1, <4>2, <4>3
        <3>2. CASE TakeF(t)
            BY <3>2 DEF TakeF, PlaceInv
        <3>3. CASE TakeC(t)
            BY <3>3 DEF TakeC, PlaceInv
        <3>4. CASE TakeNestedB(t)
            BY <3>4 DEF TakeNestedB, CanNest, PlaceInv
        <3> QED
            BY <1>2, <3>1, <3>2, <3>3, <3>4 DEF Waiting
    <2> QED
        BY <2>1, <2>2, <2>3
<1>3. ASSUME NEW t \in Tasks, Running(t) PROVE LInv'
    <2>1. CASE SendOk(t)
        BY <2>1 DEF TypeOK, SendOk, Step, Goto, Labels, Locks, HolderInv, PlaceInv,
                    HoldsB, TracesWithB, HoldsF, HoldsC
    <2>2. CASE SendError(t)
        BY <2>2 DEF TypeOK, SendError, Step, Goto, Labels, Locks, HolderInv, PlaceInv,
                    HoldsB, TracesWithB, HoldsF, HoldsC
    <2>3. CASE GiveNestedB(t)
        BY <2>3 DEF TypeOK, GiveNestedB, Given, Step, Goto, Labels, Locks, HolderInv, PlaceInv,
                    HoldsB, TracesWithB, HoldsF, HoldsC, Tasks
    <2>4. CASE GiveC(t)
        BY <2>4 DEF TypeOK, GiveC, Given, Step, Goto, Labels, Locks, HolderInv, PlaceInv,
                    HoldsB, TracesWithB, HoldsF, HoldsC, Tasks
    <2>5. CASE GiveF(t)
        BY <2>5 DEF TypeOK, GiveF, MoreLines, Given, Goto, Labels, Locks, HolderInv, PlaceInv,
                    HoldsB, TracesWithB, HoldsF, HoldsC, Tasks
    <2>6. CASE GiveB(t)
        <3> USE <2>6 DEF GiveB, OwnerAfterTrace, Given, Step, Goto, Locks, TypeOK
        <3>1. TypeOK'
            BY DEF Labels
        <3>2. HolderInv'
            BY DEF HolderInv, PlaceInv, HoldsB, TracesWithB, HoldsF, HoldsC, Tasks
        <3>3. PlaceInv'
            BY DEF PlaceInv
        <3> QED
            BY <3>1, <3>2, <3>3
    <2> QED
        BY <1>3, <2>1, <2>2, <2>3, <2>4, <2>5, <2>6 DEF Running
<1>4. CASE Unsub
    BY <1>4 DEF TypeOK, Unsub, Step, Goto, Labels, Locks, HolderInv, PlaceInv,
                HoldsB, TracesWithB, HoldsF, HoldsC, Tasks
<1>5. CASE CtlUnsub
    <2>1. CASE UnsubTakeC
        BY <2>1 DEF TypeOK, UnsubTakeC, Take, Step, Goto, Taken, Free, Labels, Locks, HolderInv,
                    PlaceInv, HoldsB, TracesWithB, HoldsF, HoldsC, Tasks
    <2>2. CASE UnsubNotFound
        BY <2>2 DEF TypeOK, UnsubNotFound, OwnerAtWarning, Given, StartLog, Goto, Labels, Locks,
                    HolderInv, PlaceInv, HoldsB, TracesWithB, HoldsF, HoldsC, Tasks
    <2>3. CASE UnsubDeleted
        BY <2>3 DEF TypeOK, UnsubDeleted, Given, Step, Goto, Labels, Locks, HolderInv,
                    PlaceInv, HoldsB, TracesWithB, HoldsF, HoldsC, Tasks
    <2>4. CASE UnsubCloseError
        BY <2>4 DEF TypeOK, UnsubCloseError, StartLog, Goto, Labels, Locks, HolderInv,
                    PlaceInv, HoldsB, TracesWithB, HoldsF, HoldsC, Tasks
    <2> QED
        BY <1>5, <2>1, <2>2, <2>3, <2>4 DEF CtlUnsub
<1>6. CASE UNCHANGED vars
    BY <1>6 DEF vars, TypeOK, HolderInv, PlaceInv, HoldsB, TracesWithB, HoldsF, HoldsC
<1> QED
    BY <1>1, <1>2, <1>3, <1>4, <1>5, <1>6 DEF Next

LEMMA NestedErrorInCycle == ASSUME LInv PROVE DeadlockNeedsNestedError
<1> SUFFICES ASSUME NEW S \in SUBSET Tasks, Stuck(S), \A t \in S : ~Reporting(t)
             PROVE  FALSE
    BY DEF DeadlockNeedsNestedError
<1>1. HolderInv /\ \A t \in S : t \in Tasks /\ Wants(t) # "none" /\ owner[Wants(t)] \in S
    BY DEF LInv, Stuck
<1>2. \A t \in S : pc[t] \in {"takeB", "takeF", "takeC", "unsub"}
    BY <1>1 DEF Wants, Reporting
\* Nobody in S waits for C: its holder would be running or reporting.
<1>3. \A t \in S : Wants(t) # "C"
    BY <1>1, <1>2 DEF HolderInv, HoldsC, Reporting
\* Hence nobody in S waits for F, nor for B.
<1>4. \A t \in S : Wants(t) # "F"
    BY <1>1, <1>2, <1>3 DEF HolderInv, HoldsF, Wants
<1>5. \A t \in S : Wants(t) # "B"
    BY <1>1, <1>2, <1>3, <1>4 DEF HolderInv, HoldsB, TracesWithB, Wants
<1> QED
    BY <1>1, <1>2, <1>3, <1>4, <1>5 DEF Stuck, Wants

-----------------------------------------------------------------------------
(* Theorems.                                                               *)

\* Every task's place in its log call says which locks it holds.
THEOREM Invariance == Spec => []LInv
<1>1. Init => LInv
    BY InitInv
<1>2. LInv /\ [Next]_vars => LInv'
    BY NextInv
<1> QED
    BY <1>1, <1>2, PTL DEF Spec

\* The state of a log call keeps its types in every build, and a backtrace
\* prints no more lines than it has (log_defs.h:73-91).
THEOREM TypeCorrect == Spec => []TypeOK
<1>1. LInv => TypeOK
    BY DEF LInv
<1> QED
    BY <1>1, Invariance, PTL

\* A deadlock of the log needs a task that reports an error with clients_mutex
\* held, netlog.c:411, ip.c:138 and 241.
THEOREM DeadlockCause == Spec => []DeadlockNeedsNestedError
<1>1. LInv => DeadlockNeedsNestedError
    BY NestedErrorInCycle
<1> QED
    BY <1>1, Invariance, PTL

\* Builds without backtraces, on networks where close() works, never deadlock.
THEOREM NoDeadlock == Spec => []NoDeadlockInSafeBuild
<1>1. ASSUME LInv PROVE NoDeadlockInSafeBuild
    <2>1. SafeBuild => \A t \in Tasks : ~Reporting(t)
        BY <1>1 DEF SafeBuild, LInv, HolderInv, PlaceInv, HoldsC, Reporting
    <2> QED
        BY <1>1, <2>1, NestedErrorInCycle DEF NoDeadlockInSafeBuild, DeadlockNeedsNestedError
<1>2. LInv => NoDeadlockInSafeBuild
    BY <1>1
<1> QED
    BY <1>2, Invariance, PTL

\* Two backtraces never mix, log.h:14-16.
THEOREM Backtraces == Spec => []BacktraceNotMixed
<1>1. LInv => BacktraceNotMixed
    BY DEF LInv, HolderInv, PlaceInv, HoldsB, TracesWithB, BacktraceNotMixed, InBacktrace
<1> QED
    BY <1>1, Invariance, PTL
=============================================================================
