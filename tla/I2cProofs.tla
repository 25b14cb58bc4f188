----------------------------- MODULE I2cProofs -----------------------------
(***************************************************************************)
(* The mutex of the I2C bus and the line of its multiplexer, for any tasks *)
(* and any number of lines.                                                *)
(***************************************************************************)
EXTENDS I2c, TLAPS

\* A call that is in its body has the mutex; a task has the line it switched to,
\* or, inside a scan, the line the scan will return to.
CallsInside ==
    \A t \in Tasks :
        /\ call[t].at # "wait" => owner = t /\ call[t].op # "none"
        /\ call[t].op = "switch" => call[t].line \in Lines /\ call[t].at # "end"
        /\ call[t].at = "end" => call[t].op = "scan"

CacheTrue == ~stale => mux = cache

LineRelied ==
    /\ owner = NoTask => want = NoLine
    /\ want # NoLine =>
          want = IF call[owner].op = "scan" /\ call[owner].at = "in"
                 THEN call[owner].line ELSE cache

\* Nothing runs between a restart and pk_i2c_begin().
AtRest == ~up => owner = NoTask /\ \A t \in Tasks : call[t] = NoCall

IInv == TypeOK /\ LockBalanced /\ CallsInside /\ CacheTrue /\ LineRelied /\ AtRest

USE DEF Lines, NoLine

LEMMA IdleCall == NoCall \in Calls
BY LinesAssumption DEF NoCall, Calls

LEMMA InitIInv == Init => IInv
<1> SUFFICES ASSUME Init PROVE IInv
  OBVIOUS
<1>1. \A t \in Tasks : call[t] = NoCall /\ open[t] = 0
  BY DEF Init
<1>2. TypeOK
  BY IdleCall DEF Init, TypeOK
<1>3. LockBalanced /\ CallsInside
  BY <1>1 DEF Init, LockBalanced, CallsInside, Inside, NoCall
<1>4. CacheTrue /\ LineRelied /\ AtRest
  BY <1>1 DEF Init, CacheTrue, LineRelied, AtRest
<1> QED
  BY <1>2, <1>3, <1>4 DEF IInv

\* What a body of pk_i2c_switch() does to the mutex and to the line.
LEMMA BodyEffect ==
    ASSUME IInv, NEW l \in Lines \cup {NoLine}, NEW d \in Nat \ {0}, SwitchBody(l, d)
    PROVE  /\ depth' \in Nat /\ leaks' \in Nat
           /\ depth' - leaks' = d - 1 - leaks
           /\ owner' = IF depth' = 0 THEN NoTask ELSE owner
           /\ cache' \in Lines \cup {NoLine} /\ mux' \in Lines \cup {NoLine}
           /\ stale' \in BOOLEAN
           /\ CacheTrue'
<1>1. depth \in Nat /\ leaks \in Nat
  BY DEF IInv, TypeOK
<1>2. /\ depth' \in Nat /\ leaks' \in Nat
      /\ depth' - leaks' = d - 1 - leaks
      /\ owner' = IF depth' = 0 THEN NoTask ELSE owner
  BY <1>1 DEF SwitchBody, Depth
<1>3. /\ cache \in Lines \cup {NoLine} /\ mux \in Lines \cup {NoLine}
      /\ stale \in BOOLEAN /\ (~stale => mux = cache)
  BY DEF IInv, TypeOK, CacheTrue
<1>4. CASE UNCHANGED hub
  BY <1>2, <1>3, <1>4 DEF hub, CacheTrue
<1>5. CASE l \in Lines /\ Transmit(l)
  BY <1>2, <1>3, <1>5 DEF Transmit, CacheTrue
<1> QED
  BY <1>4, <1>5 DEF SwitchBody

LEMMA NextIInv == IInv /\ [Next]_vars => IInv'
<1> SUFFICES ASSUME IInv, [Next]_vars PROVE IInv'
  OBVIOUS
<1> USE DEF IInv
<1>1. CASE UNCHANGED vars
  BY <1>1 DEF vars, bus, hub, TypeOK, LockBalanced, CallsInside, CacheTrue,
              LineRelied, AtRest, Inside
<1>2. CASE Begin
  <2>1. want = NoLine /\ UNCHANGED <<bus, call, open>>
    BY <1>2 DEF Begin, AtRest, LineRelied
  <2>4. /\ up' = TRUE /\ stale' \in BOOLEAN
        /\ cache' \in {0, NoLine} /\ mux' \in {mux, 0}
        /\ ~stale' => mux' = cache'
    BY <1>2 DEF Begin
  <2>5. 0 \in Lines
    BY LinesAssumption
  <2>2. TypeOK' /\ CacheTrue'
    BY <2>1, <2>4, <2>5 DEF bus, TypeOK, CacheTrue
  <2>3. LockBalanced' /\ CallsInside' /\ LineRelied' /\ AtRest'
    BY <1>2, <2>1
       DEF Begin, bus, LockBalanced, CallsInside, LineRelied, AtRest, Inside
  <2> QED
    BY <2>2, <2>3
<1>3. CASE HubReset
  BY <1>3 DEF HubReset, bus, TypeOK, LockBalanced, CallsInside, CacheTrue,
              LineRelied, AtRest, Inside
<1>4. ASSUME NEW t \in Tasks, CallBegins(t) PROVE IInv'
  <2>1. PICK c \in Calls : /\ Goto(t, c) /\ c.at = "wait" /\ c.op # "none"
                           /\ (c.op = "switch" => c.line \in Lines)
    <3>1. PICK c : Goto(t, c) /\ (\/ c = [NoCall EXCEPT !.op = "lock"]
                                 \/ c = [NoCall EXCEPT !.op = "scan", !.next = ScanFirst]
                                 \/ \E l \in Lines :
                                       c = [NoCall EXCEPT !.op = "switch", !.line = l])
      BY <1>4 DEF CallBegins
    <3>2. /\ 0 \in 0 .. MaxChannel /\ ScanFirst \in 0 .. MaxChannel
      BY LinesAssumption
    <3>3. c \in Calls /\ c.at = "wait" /\ c.op # "none"
          /\ (c.op = "switch" => c.line \in Lines)
      <4>1. CASE c = [NoCall EXCEPT !.op = "lock"]
        BY <3>2, <4>1 DEF NoCall, Calls
      <4>2. CASE c = [NoCall EXCEPT !.op = "scan", !.next = ScanFirst]
        BY <3>2, <4>2 DEF NoCall, Calls
      <4>3. ASSUME NEW l \in Lines, c = [NoCall EXCEPT !.op = "switch", !.line = l]
            PROVE  c \in Calls /\ c.at = "wait" /\ c.op # "none" /\ c.line \in Lines
        BY <3>2, <4>3 DEF NoCall, Calls
      <4> QED
        BY <3>1, <4>1, <4>2, <4>3
    <3> QED
      BY <3>1, <3>3
  <2>2. up /\ call[t].op = "none" /\ UNCHANGED <<up, bus, hub, open>>
    BY <1>4 DEF CallBegins
  <2>3. call' = [call EXCEPT ![t] = c] /\ call' \in [Tasks -> Calls]
    BY <2>1 DEF Goto, TypeOK
  <2>4. \A u \in Tasks : Inside(u)' = Inside(u)
    BY <2>1, <2>2, <2>3 DEF Inside, TypeOK, CallsInside
  <2>5. TypeOK' /\ CacheTrue'
    BY <2>2, <2>3 DEF TypeOK, CacheTrue, bus, hub
  <2>6. LockBalanced'
    BY <2>2, <2>4 DEF TypeOK, LockBalanced, bus
  <2>7. CallsInside'
    BY <2>1, <2>2, <2>3 DEF TypeOK, CallsInside, bus
  <2>9. ~(call[t].op = "scan" /\ call[t].at = "in") /\ call'[t].at = "wait"
    BY <2>1, <2>2, <2>3 DEF TypeOK
  <2>8. LineRelied' /\ AtRest'
    BY <2>2, <2>3, <2>9 DEF TypeOK, LineRelied, AtRest, bus, hub
  <2> QED
    BY <2>5, <2>6, <2>7, <2>8
<1>5. ASSUME NEW t \in Tasks, Acquire(t) PROVE IInv'
  <2>1. /\ call[t].op # "none" /\ call[t].at = "wait"
        /\ owner \in {NoTask, t} /\ owner' = t /\ depth' = depth + 1
        /\ UNCHANGED <<up, leaks, want, hub>>
    BY <1>5 DEF Acquire
  <2>4. up
    BY <2>1 DEF AtRest, NoCall, TypeOK
  <2>2. CASE call[t].op = "lock"
    <3>1. /\ call' = [call EXCEPT ![t] = NoCall]
          /\ open' = [open EXCEPT ![t] = @ + 1]
      BY <1>5, <2>2 DEF Acquire, Goto
    <3>2. TypeOK'
      BY <2>1, <3>1, IdleCall DEF TypeOK, hub
    <3>3. \A u \in Tasks : Inside(u)' = Inside(u)
      BY <2>1, <3>1 DEF Inside, TypeOK, NoCall
    <3>4. LockBalanced'
      BY <2>1, <3>1, <3>3, TasksAssumption DEF TypeOK, LockBalanced, Inside
    <3>5. CallsInside' /\ CacheTrue' /\ LineRelied' /\ AtRest'
      BY <2>1, <2>4, <3>1, TasksAssumption
         DEF TypeOK, CallsInside, CacheTrue, LineRelied, AtRest, NoCall, hub
    <3> QED
      BY <3>2, <3>4, <3>5
  <2>3. CASE call[t].op # "lock"
    <3> DEFINE c == [call[t] EXCEPT
                        !.at = "in",
                        !.line = IF call[t].op = "scan" THEN cache ELSE @]
    <3>1. call' = [call EXCEPT ![t] = c] /\ open' = open
      BY <1>5, <2>3 DEF Acquire, Goto
    <3>2. /\ c \in Calls /\ c.at = "in" /\ c.op = call[t].op
          /\ c.line = IF call[t].op = "scan" THEN cache ELSE call[t].line
      BY DEF TypeOK, Calls
    <3> HIDE DEF c
    <3>3. TypeOK'
      BY <2>1, <3>1, <3>2 DEF TypeOK, hub
    <3>4. \A u \in Tasks : Inside(u)' = IF u = t THEN 1 ELSE Inside(u)
      BY <3>1, <3>2 DEF Inside, TypeOK
    <3>5. LockBalanced'
      <4>1. Inside(t) = 0
        BY <2>1 DEF Inside
      <4> QED
        BY <2>1, <3>1, <3>4, <4>1, TasksAssumption DEF TypeOK, LockBalanced
    <3>6. CallsInside' /\ CacheTrue' /\ LineRelied' /\ AtRest'
      BY <2>1, <2>3, <2>4, <3>1, <3>2, TasksAssumption
         DEF TypeOK, CallsInside, CacheTrue, LineRelied, AtRest, hub
    <3> QED
      BY <3>3, <3>5, <3>6
  <2> QED
    BY <2>2, <2>3
<1>6. ASSUME NEW t \in Tasks, AcquireTimesOut(t) PROVE IInv'
  <2>1. \A u \in Tasks : call'[u] = NoCall /\ open'[u] = 0
    BY <1>6 DEF AcquireTimesOut, Restart
  <2>2. TypeOK'
    BY <1>6, IdleCall DEF AcquireTimesOut, Restart, TypeOK, hub
  <2>3. LockBalanced' /\ CallsInside' /\ CacheTrue' /\ LineRelied' /\ AtRest'
    BY <1>6, <2>1
       DEF AcquireTimesOut, Restart, LockBalanced, CallsInside, CacheTrue, LineRelied,
           AtRest, Inside, NoCall, hub
  <2> QED
    BY <2>2, <2>3
<1>7. ASSUME NEW t \in Tasks, Unlock(t) PROVE IInv'
  <2>1. /\ up /\ call[t].op = "none" /\ open[t] > 0
        /\ open' = [open EXCEPT ![t] = @ - 1]
        /\ depth' = depth - 1 /\ owner' = (IF depth' = 0 THEN NoTask ELSE owner)
        /\ want' = (IF depth' = 0 THEN NoLine ELSE want)
        /\ UNCHANGED <<up, leaks, hub, call>>
    BY <1>7 DEF Unlock, Depth, Relies
  <2>2. owner = t /\ Inside(t) = 0
    BY <2>1 DEF TypeOK, LockBalanced, CallsInside, Inside
  <2>3. depth = open[t] + leaks /\ depth \in Nat /\ leaks \in Nat /\ open[t] \in Nat
    BY <2>2, TasksAssumption DEF TypeOK, LockBalanced
  <2>4. TypeOK'
    BY <2>1, <2>3 DEF TypeOK, hub
  <2>5. \A u \in Tasks : Inside(u)' = Inside(u)
    BY <2>1 DEF Inside
  <2>6. LockBalanced'
    BY <2>1, <2>2, <2>3, <2>5 DEF TypeOK, LockBalanced
  <2>7. CallsInside'
    BY <2>1, <2>2 DEF CallsInside
  <2>8. CacheTrue' /\ LineRelied' /\ AtRest'
    BY <2>1, <2>2, TasksAssumption DEF CacheTrue, LineRelied, AtRest, hub
  <2> QED
    BY <2>4, <2>6, <2>7, <2>8
<1>8. ASSUME NEW t \in Tasks, Switch(t) PROVE IInv'
  <2>1. /\ call[t].op = "switch" /\ call[t].at = "in"
        /\ SwitchBody(call[t].line, depth)
        /\ want' = (IF depth' = 0 THEN NoLine
                    ELSE IF cache' = call[t].line THEN cache' ELSE NoLine)
        /\ call' = [call EXCEPT ![t] = NoCall]
        /\ UNCHANGED <<up, open>>
    BY <1>8 DEF Switch, Relies, Goto
  <2>2. /\ owner = t /\ depth = open[t] + 1 + leaks
        /\ open[t] \in Nat /\ leaks \in Nat /\ depth \in Nat \ {0}
    BY <2>1, TasksAssumption DEF TypeOK, LockBalanced, CallsInside, Inside
  <2>3. call[t].line \in Lines \cup {NoLine}
    BY DEF TypeOK, Calls
  <2>4. /\ depth' \in Nat /\ leaks' \in Nat
        /\ depth' - leaks' = depth - 1 - leaks
        /\ owner' = IF depth' = 0 THEN NoTask ELSE t
        /\ cache' \in Lines \cup {NoLine} /\ mux' \in Lines \cup {NoLine}
        /\ stale' \in BOOLEAN /\ CacheTrue'
    BY <2>1, <2>2, <2>3, BodyEffect
  <2>5. TypeOK'
    BY <2>1, <2>4, IdleCall DEF TypeOK
  <2>6. Inside(t)' = 0 /\ \A u \in Tasks \ {t} : Inside(u)' = Inside(u)
    BY <2>1 DEF Inside, TypeOK, NoCall
  <2>7. LockBalanced'
    <3>1. depth' = open[t] + leaks' /\ open' = open
      BY <2>1, <2>2, <2>4
    <3>2. \A u \in Tasks \ {t} : open[u] = 0 /\ Inside(u)' = 0
      BY <2>2, <2>6 DEF LockBalanced
    <3>3. CASE depth' = 0
      BY <2>2, <2>4, <2>6, <3>1, <3>2, <3>3 DEF LockBalanced
    <3>4. CASE depth' # 0
      BY <2>2, <2>4, <2>6, <3>1, <3>2, <3>4, TasksAssumption DEF LockBalanced
    <3> QED
      BY <3>3, <3>4
  <2>8. CallsInside' /\ LineRelied' /\ AtRest'
    BY <2>1, <2>2, <2>4, TasksAssumption
       DEF CallsInside, LineRelied, AtRest, TypeOK, NoCall
  <2> QED
    BY <2>4, <2>5, <2>7, <2>8
<1>9. ASSUME NEW t \in Tasks, ScanLine(t) PROVE IInv'
  <2> DEFINE c == [call[t] EXCEPT !.next = @ + 1]
  <2>1. /\ call[t].op = "scan" /\ call[t].at = "in" /\ call[t].next <= ScanLast
        /\ SwitchBody(call[t].next, depth + 1)
        /\ call' = [call EXCEPT ![t] = c]
        /\ UNCHANGED <<up, want, open>>
    BY <1>9 DEF ScanLine, Goto
  <2>2. /\ owner = t /\ depth = open[t] + 1 + leaks
        /\ open[t] \in Nat /\ leaks \in Nat /\ depth \in Nat \ {0}
    BY <2>1, TasksAssumption DEF TypeOK, LockBalanced, CallsInside, Inside
  <2>3. call[t].next \in Lines /\ call[t].next + 1 \in 0 .. MaxChannel
    BY <2>1, LinesAssumption DEF TypeOK, Calls
  <2>4. /\ c \in Calls /\ c.op = "scan" /\ c.at = "in" /\ c.line = call[t].line
    BY <2>1, <2>3 DEF TypeOK, Calls
  <2> HIDE DEF c
  <2>5. /\ depth' \in Nat /\ leaks' \in Nat
        /\ depth' - leaks' = depth - leaks
        /\ owner' = IF depth' = 0 THEN NoTask ELSE t
        /\ cache' \in Lines \cup {NoLine} /\ mux' \in Lines \cup {NoLine}
        /\ stale' \in BOOLEAN /\ CacheTrue'
    <3> DEFINE d == depth + 1
    <3>1. d \in Nat \ {0} /\ d - 1 = depth
      BY <2>2
    <3>2. SwitchBody(call[t].next, d)
      BY <2>1
    <3> HIDE DEF d
    <3> QED
      BY <2>2, <2>3, <3>1, <3>2, BodyEffect
  <2>6. owner' = t
    BY <2>2, <2>5
  <2>7. TypeOK'
    BY <2>1, <2>4, <2>5 DEF TypeOK
  <2>8. \A u \in Tasks : Inside(u)' = Inside(u)
    BY <2>1, <2>4 DEF Inside, TypeOK
  <2>9. LockBalanced'
    <3>1. depth' = open[t] + 1 + leaks' /\ open' = open
      BY <2>1, <2>2, <2>5
    <3>2. \A u \in Tasks \ {t} : open[u] = 0 /\ Inside(u)' = 0
      BY <2>2, <2>8 DEF LockBalanced
    <3>3. Inside(t)' = 1
      BY <2>1, <2>8 DEF Inside
    <3> QED
      BY <2>6, <3>1, <3>2, <3>3, TasksAssumption DEF LockBalanced
  <2>10. CallsInside' /\ LineRelied' /\ AtRest'
    BY <2>1, <2>2, <2>4, <2>6, TasksAssumption DEF CallsInside, LineRelied, AtRest, TypeOK
  <2> QED
    BY <2>5, <2>7, <2>9, <2>10
<1>10. ASSUME NEW t \in Tasks, ScanRestore(t) PROVE IInv'
  <2> DEFINE c == [call[t] EXCEPT !.at = "end"]
  <2>1. /\ call[t].op = "scan" /\ call[t].at = "in"
        /\ SwitchBody(call[t].line, depth + 1)
        /\ want' = (IF depth' = 0 THEN NoLine
                    ELSE IF cache' = call[t].line THEN want ELSE NoLine)
        /\ call' = [call EXCEPT ![t] = c]
        /\ UNCHANGED <<up, open>>
    BY <1>10 DEF ScanRestore, Goto, Relies
  <2>2. /\ owner = t /\ depth = open[t] + 1 + leaks
        /\ open[t] \in Nat /\ leaks \in Nat /\ depth \in Nat \ {0}
    BY <2>1, TasksAssumption DEF TypeOK, LockBalanced, CallsInside, Inside
  <2>3. call[t].line \in Lines \cup {NoLine}
    BY DEF TypeOK, Calls
  <2>4. /\ c \in Calls /\ c.op = "scan" /\ c.at = "end" /\ c.line = call[t].line
    BY <2>1 DEF TypeOK, Calls
  <2> HIDE DEF c
  <2>5. /\ depth' \in Nat /\ leaks' \in Nat
        /\ depth' - leaks' = depth - leaks
        /\ owner' = IF depth' = 0 THEN NoTask ELSE t
        /\ cache' \in Lines \cup {NoLine} /\ mux' \in Lines \cup {NoLine}
        /\ stale' \in BOOLEAN /\ CacheTrue'
    <3> DEFINE d == depth + 1
    <3>1. d \in Nat \ {0} /\ d - 1 = depth
      BY <2>2
    <3>2. SwitchBody(call[t].line, d)
      BY <2>1
    <3> HIDE DEF d
    <3> QED
      BY <2>2, <2>3, <3>1, <3>2, BodyEffect
  <2>6. owner' = t
    BY <2>2, <2>5
  <2>7. TypeOK'
    BY <2>1, <2>4, <2>5 DEF TypeOK
  <2>8. \A u \in Tasks : Inside(u)' = Inside(u)
    BY <2>1, <2>4 DEF Inside, TypeOK
  <2>9. LockBalanced'
    <3>1. depth' = open[t] + 1 + leaks' /\ open' = open
      BY <2>1, <2>2, <2>5
    <3>2. \A u \in Tasks \ {t} : open[u] = 0 /\ Inside(u)' = 0
      BY <2>2, <2>8 DEF LockBalanced
    <3>3. Inside(t)' = 1
      BY <2>1, <2>8 DEF Inside
    <3> QED
      BY <2>6, <3>1, <3>2, <3>3, TasksAssumption DEF LockBalanced
  <2>10. CallsInside' /\ LineRelied' /\ AtRest'
    BY <2>1, <2>2, <2>4, <2>6, TasksAssumption DEF CallsInside, LineRelied, AtRest, TypeOK
  <2> QED
    BY <2>5, <2>7, <2>9, <2>10
<1>11. ASSUME NEW t \in Tasks, ScanEnd(t) PROVE IInv'
  <2>1. /\ call[t].op = "scan" /\ call[t].at = "end"
        /\ depth' = depth - 1 /\ owner' = (IF depth' = 0 THEN NoTask ELSE owner)
        /\ want' = (IF depth' = 0 THEN NoLine ELSE want)
        /\ call' = [call EXCEPT ![t] = NoCall]
        /\ UNCHANGED <<up, leaks, hub, open>>
    BY <1>11 DEF ScanEnd, Depth, Relies, Goto
  <2>2. /\ owner = t /\ depth = open[t] + 1 + leaks
        /\ open[t] \in Nat /\ leaks \in Nat /\ depth \in Nat \ {0}
    BY <2>1, TasksAssumption DEF TypeOK, LockBalanced, CallsInside, Inside
  <2>3. TypeOK'
    BY <2>1, <2>2, IdleCall DEF TypeOK, hub
  <2>4. Inside(t)' = 0 /\ \A u \in Tasks \ {t} : Inside(u)' = Inside(u)
    BY <2>1 DEF Inside, TypeOK, NoCall
  <2>5. LockBalanced'
    BY <2>1, <2>2, <2>4 DEF TypeOK, LockBalanced
  <2>6. CallsInside' /\ CacheTrue' /\ LineRelied' /\ AtRest'
    BY <2>1, <2>2, TasksAssumption
       DEF CallsInside, CacheTrue, LineRelied, AtRest, TypeOK, NoCall, hub
  <2> QED
    BY <2>3, <2>5, <2>6
<1> QED
  BY <1>1, <1>2, <1>3, <1>4, <1>5, <1>6, <1>7, <1>8, <1>9, <1>10, <1>11 DEF Next, Step

-----------------------------------------------------------------------------

LEMMA Inductive == Spec => []IInv
BY InitIInv, NextIInv, PTL DEF Spec

\* TypeOK: the state of the bus, of the multiplexer and of every call stays in its
\* type.
THEOREM TypeCorrect == Spec => []TypeOK
<1>1. IInv => TypeOK
  BY DEF IInv
<1> QED
  BY <1>1, Inductive, PTL

\* LockBalanced: the depth of the mutex is the number of locks its owner still has
\* to give back, one for the call it is in, and one for every switch to the line
\* that was already current.
THEOREM Balanced == Spec => []LockBalanced
<1>1. IInv => LockBalanced
  BY DEF IInv
<1> QED
  BY <1>1, Inductive, PTL

\* LineKept: the holder of the bus talks to the line it has switched to, as long
\* as the multiplexer has not changed by itself, or on a transmission that was
\* reported as failed, since the last one that succeeded (stale).
THEOREM Kept == Spec => []LineKept
<1>1. IInv => LineKept
  BY DEF IInv, LineKept, LineRelied, CacheTrue
<1> QED
  BY <1>1, Inductive, PTL
=============================================================================
