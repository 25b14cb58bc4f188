-------------------------------- MODULE I2c ---------------------------------
(***************************************************************************)
(* The I2C tools, src/lib/i2c_tools.cpp, on a board with a multiplexer:    *)
(* tasks that lock the bus, switch the multiplexer and scan its lines.     *)
(*                                                                         *)
(* The mutex is recursive; a take that waits for a second, as every failed *)
(* PK_ASSERT, restarts the chip.  The tasks unlock what they have locked   *)
(* (docs/i2c.md:28).  A call that is refused (pk_i2c_switch() out of range)*)
(* changes nothing and is not an action.                                   *)
(***************************************************************************)
EXTENDS Integers

CONSTANTS
    Tasks, NoTask,
    MaxChannel,             \* MAX_CHANNEL: lines 0 .. MaxChannel - 1
    ScanFirst, ScanLast,    \* the lines pk_i2c_scan() visits
    MaxDepth                \* bound on the nesting of the mutex

ASSUME TasksAssumption == NoTask \notin Tasks
ASSUME LinesAssumption ==
    /\ MaxChannel \in Nat \ {0}
    /\ ScanFirst \in 0 .. MaxChannel - 1 /\ ScanLast \in ScanFirst .. MaxChannel - 1
ASSUME DepthAssumption == MaxDepth \in Nat

Lines == 0 .. MaxChannel - 1
NoLine == -1

VARIABLES
    up,         \* pk_i2c_begin() has run since the chip started
    owner, depth,   \* pk_i2c_mutex
    cache,      \* current_i2c_line
    mux,        \* the line the multiplexer has selected
    call,       \* what each task is executing
    open,       \* the locks each task has taken and not yet given
    leaks,      \* the owner's calls of switch() that kept the mutex
    want,       \* the line the owner's own last switch has set, since it took
                \* the mutex; none when a scan could not return to it
    stale       \* the multiplexer may have changed its line by itself

bus == <<owner, depth, leaks, want>>
hub == <<cache, mux, stale>>
vars == <<up, bus, hub, call, open>>

NoCall == [op |-> "none", at |-> "wait", line |-> NoLine, next |-> 0]
Calls == [op : {"none", "lock", "switch", "scan"}, at : {"wait", "in", "end"},
          line : Lines \cup {NoLine}, next : 0 .. MaxChannel]

TypeOK ==
    /\ up \in BOOLEAN /\ stale \in BOOLEAN
    /\ owner \in Tasks \cup {NoTask}
    /\ depth \in Nat /\ leaks \in Nat
    /\ cache \in Lines \cup {NoLine}
    /\ mux \in Lines \cup {NoLine} /\ want \in Lines \cup {NoLine}
    /\ call \in [Tasks -> Calls]
    /\ open \in [Tasks -> Nat]

Init ==
    /\ up = FALSE
    /\ owner = NoTask /\ depth = 0 /\ leaks = 0 /\ want = NoLine
    /\ cache = NoLine /\ mux = NoLine /\ stale = TRUE
    /\ call = [t \in Tasks |-> NoCall] /\ open = [t \in Tasks |-> 0]

-----------------------------------------------------------------------------
\* Mutant: the cache is set before the transmission, and stays.
TransmitBlind(l) == cache' = l /\ mux' \in {mux, l} /\ stale' = FALSE

\* The transmission to the multiplexer.  When it fails the byte may have
\* arrived; the cache is left as it was.
Transmit(l) ==
    \/ cache' = l /\ mux' = l /\ stale' = FALSE
    \/ /\ mux' \in {mux, l} /\ stale' = (stale \/ mux' # mux)
       /\ UNCHANGED cache

\* pk_i2c_begin(), before the tasks run.
Begin ==
    /\ ~up /\ up' = TRUE
    /\ cache' \in {0, NoLine}
    /\ IF cache' = 0 THEN mux' = 0 /\ stale' = FALSE
       ELSE mux' \in {mux, 0} /\ stale' = TRUE
    /\ UNCHANGED <<bus, call, open>>

\* A failed assertion: the chip restarts, the multiplexer does not.
Restart ==
    /\ up' = FALSE
    /\ owner' = NoTask /\ depth' = 0 /\ leaks' = 0 /\ want' = NoLine
    /\ call' = [t \in Tasks |-> NoCall] /\ open' = [t \in Tasks |-> 0]
    /\ UNCHANGED hub

\* The multiplexer loses its power and comes back with no line selected.
HubReset ==
    /\ up /\ mux' = NoLine /\ stale' = TRUE
    /\ UNCHANGED <<up, bus, cache, call, open>>

Goto(t, c) == call' = [call EXCEPT ![t] = c]

\* The mutex ends at depth d.
Depth(d) ==
    /\ depth' = d
    /\ owner' = IF d = 0 THEN NoTask ELSE owner

\* The owner relies on the line l as long as it has the mutex.
Relies(l) == want' = IF depth' = 0 THEN NoLine ELSE l

CallBegins(t) ==
    /\ up /\ call[t].op = "none" /\ depth < MaxDepth
    /\ \/ Goto(t, [NoCall EXCEPT !.op = "lock"])
       \/ Goto(t, [NoCall EXCEPT !.op = "scan", !.next = ScanFirst])
       \/ \E l \in Lines : Goto(t, [NoCall EXCEPT !.op = "switch", !.line = l])
    /\ UNCHANGED <<up, bus, hub, open>>

\* pk_i2c_lock(), of the task itself or at the start of its call.
Acquire(t) ==
    /\ call[t].op # "none" /\ call[t].at = "wait"
    /\ owner \in {NoTask, t}
    /\ owner' = t /\ depth' = depth + 1
    /\ IF call[t].op = "lock"
       THEN Goto(t, NoCall) /\ open' = [open EXCEPT ![t] = @ + 1]
       ELSE /\ Goto(t, [call[t] EXCEPT
                           !.at = "in",
                           !.line = IF call[t].op = "scan" THEN cache ELSE @])
            /\ UNCHANGED open
    /\ UNCHANGED <<up, leaks, want, hub>>

\* Mutant: the take waits with portMAX_DELAY.
AcquireWaits(t) ==
    /\ call[t].op # "none" /\ call[t].at = "wait"
    /\ owner \notin {NoTask, t}
    /\ UNCHANGED vars

AcquireTimesOut(t) ==
    /\ call[t].op # "none" /\ call[t].at = "wait"
    /\ owner \notin {NoTask, t}
    /\ Restart

\* pk_i2c_unlock() by the task.
Unlock(t) ==
    /\ up /\ call[t].op = "none" /\ open[t] > 0
    /\ open' = [open EXCEPT ![t] = @ - 1]
    /\ Depth(depth - 1) /\ Relies(want)
    /\ UNCHANGED <<up, leaks, hub, call>>

\* Mutant: the unlock is lost when the transmission fails.
SwitchBodyKeeps(l, d) ==
    /\ l \in Lines /\ cache # l
    /\ Transmit(l)
    /\ Depth(IF cache' = l THEN d - 1 ELSE d)
    /\ UNCHANGED leaks

\* The body of pk_i2c_switch(l), entered at depth d - 1.  A line that is
\* already current makes it return before its unlock.
SwitchBody(l, d) ==
    \/ /\ l \in Lines /\ cache = l
       /\ leaks' = leaks + 1 /\ Depth(d)
       /\ UNCHANGED hub
    \/ /\ l \in Lines /\ cache # l
       /\ Transmit(l)
       /\ Depth(d - 1)
       /\ UNCHANGED leaks
    \/ /\ l \notin Lines
       /\ Depth(d - 1)
       /\ UNCHANGED <<leaks, hub>>

Switch(t) ==
    /\ call[t].op = "switch" /\ call[t].at = "in"
    /\ SwitchBody(call[t].line, depth)
    /\ Relies(IF cache' = call[t].line THEN cache' ELSE NoLine)
    /\ Goto(t, NoCall)
    /\ UNCHANGED <<up, open>>

\* pk_i2c_scan(): the next line, then the line from before.
ScanLine(t) ==
    /\ call[t].op = "scan" /\ call[t].at = "in" /\ call[t].next <= ScanLast
    /\ SwitchBody(call[t].next, depth + 1)
    /\ Goto(t, [call[t] EXCEPT !.next = @ + 1])
    /\ UNCHANGED <<up, want, open>>

ScanRestore(t) ==
    /\ call[t].op = "scan" /\ call[t].at = "in" /\ call[t].next > ScanLast
    /\ SwitchBody(call[t].line, depth + 1)
    /\ Relies(IF cache' = call[t].line THEN want ELSE NoLine)
    /\ Goto(t, [call[t] EXCEPT !.at = "end"])
    /\ UNCHANGED <<up, open>>

ScanEnd(t) ==
    /\ call[t].op = "scan" /\ call[t].at = "end"
    /\ Depth(depth - 1) /\ Relies(want)
    /\ Goto(t, NoCall)
    /\ UNCHANGED <<up, leaks, hub, open>>

Step(t) == \/ Acquire(t) \/ AcquireTimesOut(t) \/ Switch(t)
           \/ ScanLine(t) \/ ScanRestore(t) \/ ScanEnd(t)

Next == \/ Begin \/ HubReset
        \/ \E t \in Tasks : CallBegins(t) \/ Step(t) \/ Unlock(t)

Spec == Init /\ [][Next]_vars

\* Tasks are scheduled and a take waits for a second; none need ever unlock.
FairSpec == Spec /\ \A t \in Tasks : WF_vars(Step(t))

-----------------------------------------------------------------------------
(* Properties.                                                             *)

Inside(t) == IF call[t].at = "wait" THEN 0 ELSE 1

\* Each lock is matched by an unlock on every path but one, the switch to the
\* line that is already current (docs/i2c.md:28, i2c_tools.cpp:72-74).
LockBalanced ==
    /\ owner = NoTask => depth = 0 /\ leaks = 0
    /\ owner # NoTask => depth = open[owner] + Inside(owner) + leaks
    /\ \A t \in Tasks : t # owner => open[t] = 0 /\ Inside(t) = 0

\* A task that holds the bus and has switched to a line talks to that line,
\* through nested locks, scans that return to it and other tasks' calls, unless
\* the multiplexer has changed by itself since the last transmission that
\* succeeded (docs/i2c.md:31-35, i2c_tools.cpp:132-138).
LineKept == want # NoLine /\ call[owner].op # "scan" /\ ~stale => mux = want

\* Once a switch has kept the mutex, the next task that needs the bus restarts
\* the chip.
LeakEndsInRestart ==
    \A t \in Tasks :
        leaks > 0 /\ owner # t /\ call[t].op # "none" ~> ~up
=============================================================================
