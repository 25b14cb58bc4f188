------------------------------ MODULE LogLock -------------------------------
(***************************************************************************)
(* The locks that a log call takes when the network log is on:             *)
(*   B  pk_btrace_mutex, around PKLOGE and its backtrace (log_defs.h:74)   *)
(*   F  the lock newlib keeps in the FILE netlogout, taken by printf()     *)
(*   C  clients_mutex, taken by stdout_flush() and by the control task     *)
(* None of B and C may be taken twice by one task.  Inside the flush stdout *)
(* is the UART, so an error reported there takes no F; it takes B.         *)
(*                                                                         *)
(* One printf() is one flush with one send; Lines printf()s stand for a    *)
(* backtrace.  The UART's own lock is a leaf and left out.                 *)
(***************************************************************************)
EXTENDS Integers, FiniteSets

CONSTANTS
    Loggers,    \* tasks that log
    Ctl,        \* the control task, which also logs
    NoTask,     \* nobody holds the lock
    Builds,     \* configurations and networks to look at
    Lines       \* printf()s of a backtrace

ASSUME TasksAssumption == NoTask \notin Loggers \cup {Ctl}
\* btrace: CONF_LOG_BTRACE_ON_ERROR.  send_fails, close_fails: the calls may fail.
ASSUME BuildsAssumption ==
    Builds \subseteq [btrace : BOOLEAN, send_fails : BOOLEAN, close_fails : BOOLEAN]
ASSUME LinesAssumption == Lines \in Nat

Tasks == Loggers \cup {Ctl}
Locks == {"B", "F", "C"}
Labels == {"idle", "takeB", "takeF", "takeC", "send", "nestB", "nestPrint",
           "giveC", "giveF", "giveB", "unsub", "delete"}

VARIABLES
    build,      \* the configuration, fixed
    owner,      \* the holder of each lock
    pc,
    bt,         \* the task's log call holds B for a backtrace
    left        \* printf()s left in the task's log call

vars == <<build, owner, pc, bt, left>>

TypeOK ==
    /\ build \in Builds
    /\ owner \in [Locks -> Tasks \cup {NoTask}]
    /\ pc \in [Tasks -> Labels]
    /\ bt \in [Tasks -> BOOLEAN]
    /\ left \in [Tasks -> 0 .. Lines + 1]

Init ==
    /\ build \in Builds
    /\ owner = [l \in Locks |-> NoTask]
    /\ pc = [t \in Tasks |-> "idle"]
    /\ bt = [t \in Tasks |-> FALSE]
    /\ left = [t \in Tasks |-> 0]

-----------------------------------------------------------------------------
Free(l) == owner[l] = NoTask
Taken(l, t) == [owner EXCEPT ![l] = t]
\* Mutant: a lock is not given back.
GivenNot(l) == owner
Given(l) == [owner EXCEPT ![l] = NoTask]

Goto(t, l) == pc' = [pc EXCEPT ![t] = l]
Step(t, from, to) == pc[t] = from /\ Goto(t, to)

\* t takes lock l and goes on.
Take(t, from, l, to) ==
    /\ Step(t, from, to)
    /\ Free(l)
    /\ owner' = Taken(l, t)
    /\ UNCHANGED <<build, bt, left>>

\* PKLOGE with its backtrace, or a log call without one.
StartLog(t, traced) ==
    /\ Goto(t, IF traced THEN "takeB" ELSE "takeF")
    /\ bt' = [bt EXCEPT ![t] = traced]
    /\ left' = [left EXCEPT ![t] = IF traced THEN Lines + 1 ELSE 1]

\* A task calls PKLOGE (an error) or PKLOGW, PKLOGI, PKLOGD, PKLOGV.
Log(t) ==
    /\ pc[t] = "idle"
    /\ \E error \in BOOLEAN : StartLog(t, error /\ build.btrace)
    /\ UNCHANGED <<build, owner>>

TakeB(t) == Take(t, "takeB", "B", "takeF")
TakeF(t) == Take(t, "takeF", "F", "takeC")
TakeC(t) == Take(t, "takeC", "C", "send")

SendOk(t) ==
    /\ Step(t, "send", "giveC")
    /\ UNCHANGED <<build, owner, bt, left>>

\* handle_send() and flush_with_shstack() report the failure with PKLOGE.
SendError(t) ==
    /\ build.send_fails
    /\ Step(t, "send", IF build.btrace THEN "nestB" ELSE "giveC")
    /\ UNCHANGED <<build, owner, bt, left>>

\* Mutant: the report inside the flush does not wait for B.
CanNestAlways == TRUE
CanNest == Free("B")

TakeNestedB(t) ==
    /\ Step(t, "nestB", "nestPrint")
    /\ CanNest
    /\ owner' = Taken("B", t)
    /\ UNCHANGED <<build, bt, left>>

GiveNestedB(t) ==
    /\ Step(t, "nestPrint", "giveC")
    /\ owner' = Given("B")
    /\ UNCHANGED <<build, bt, left>>

GiveC(t) ==
    /\ Step(t, "giveC", "giveF")
    /\ owner' = Given("C")
    /\ UNCHANGED <<build, bt, left>>

\* Mutant: the last line of the backtrace is printed twice.
MoreLinesTwice(t) == left[t] > 0
MoreLines(t) == left[t] > 1

\* printf() returns; the next line of the backtrace, or the end of the call.
GiveF(t) ==
    /\ pc[t] = "giveF"
    /\ owner' = Given("F")
    /\ left' = [left EXCEPT ![t] = @ - 1]
    /\ Goto(t, IF MoreLines(t) THEN "takeF" ELSE IF bt[t] THEN "giveB" ELSE "idle")
    /\ UNCHANGED <<build, bt>>

\* Mutant: PKLOGE ends without PK_BTRACE_MUTEX_GIVE.
OwnerAfterTraceKept == owner
OwnerAfterTrace == Given("B")

GiveB(t) ==
    /\ Step(t, "giveB", "idle")
    /\ owner' = OwnerAfterTrace
    /\ bt' = [bt EXCEPT ![t] = FALSE]
    /\ UNCHANGED <<build, left>>

-----------------------------------------------------------------------------
(* The control task's critical section that calls others: ctl_unsub().     *)

Unsub ==
    /\ Step(Ctl, "idle", "unsub")
    /\ UNCHANGED <<build, owner, bt, left>>

UnsubTakeC == Take(Ctl, "unsub", "C", "delete")

\* Mutant: PKLOGW before CLIENTS_MUX_GIVE.
OwnerAtWarningHeld == owner

\* The early return gives the mutex before it logs.
OwnerAtWarning == Given("C")

UnsubNotFound ==
    /\ pc[Ctl] = "delete"
    /\ owner' = OwnerAtWarning
    /\ StartLog(Ctl, FALSE)
    /\ UNCHANGED build

UnsubDeleted ==
    /\ Step(Ctl, "delete", "idle")
    /\ owner' = Given("C")
    /\ UNCHANGED <<build, bt, left>>

\* pk_sock_close() fails and reports it, with the mutex held.
UnsubCloseError ==
    /\ build.close_fails
    /\ pc[Ctl] = "delete"
    /\ StartLog(Ctl, build.btrace)
    /\ UNCHANGED <<build, owner>>

-----------------------------------------------------------------------------
Waiting(t) == TakeB(t) \/ TakeF(t) \/ TakeC(t) \/ TakeNestedB(t)

Running(t) ==
    \/ SendOk(t) \/ SendError(t) \/ GiveNestedB(t)
    \/ GiveC(t) \/ GiveF(t) \/ GiveB(t)

CtlUnsub == UnsubTakeC \/ UnsubNotFound \/ UnsubDeleted \/ UnsubCloseError

Next ==
    \/ \E t \in Tasks : Log(t) \/ Waiting(t) \/ Running(t)
    \/ Unsub \/ CtlUnsub

Spec == Init /\ [][Next]_vars

\* A task that can run does; a lock that keeps being free is got in the end
\* (FreeRTOS queues the waiters of a mutex, highest priority first).
Fairness ==
    /\ \A t \in Tasks : WF_vars(Running(t)) /\ SF_vars(Waiting(t))
    /\ SF_vars(CtlUnsub)

FairSpec == Spec /\ Fairness

-----------------------------------------------------------------------------
(* Safety.                                                                 *)

Wants(t) ==
    CASE pc[t] \in {"takeB", "nestB"} -> "B"
      [] pc[t] = "takeF" -> "F"
      [] pc[t] \in {"takeC", "unsub"} -> "C"
      [] OTHER -> "none"

\* t reports an error from inside a critical section of clients_mutex.
Reporting(t) ==
    \/ pc[t] = "nestB"
    \/ owner["C"] = t /\ pc[t] \in {"takeB", "takeF", "takeC"}

\* Every member of S waits for a lock that a member of S holds.
Stuck(S) == S # {} /\ \A t \in S : Wants(t) # "none" /\ owner[Wants(t)] \in S

\* The locks are taken in the order B, F, C, so tasks only wait for each other
\* for ever when one of them reports an error with clients_mutex held
\* (log_defs.h:76, netlog.c:365, 411, ip.c:138, 241).
DeadlockNeedsNestedError ==
    \A S \in SUBSET Tasks : Stuck(S) => \E t \in S : Reporting(t)

\* ... which happens neither where errors have no backtrace and close() works, nor
\* where sockets do not fail.
SafeBuild == ~build.close_fails /\ ~(build.btrace /\ build.send_fails)
NoDeadlockInSafeBuild == SafeBuild => \A S \in SUBSET Tasks : ~Stuck(S)

InBacktrace(t) ==
    \/ pc[t] = "nestPrint"
    \/ bt[t] /\ pc[t] \notin {"idle", "takeB"}

\* log.h:14-16: with the mutex, one backtrace is not interrupted by another.
BacktraceNotMixed ==
    \A t, u \in Tasks : InBacktrace(t) /\ InBacktrace(u) => t = u

-----------------------------------------------------------------------------
(* Liveness.                                                               *)

\* A log call ends, in a build that cannot deadlock.
LogCallReturnsInSafeBuild ==
    \A t \in Tasks : (SafeBuild /\ pc[t] # "idle") ~> pc[t] = "idle"

\* netlog.md:119-120: the printing task "is blocked until the sending is done".
LogCallReturns == \A t \in Tasks : pc[t] # "idle" ~> pc[t] = "idle"
=============================================================================
