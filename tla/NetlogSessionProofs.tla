------------------------ MODULE NetlogSessionProofs -------------------------
(***************************************************************************)
(* The receiver and the board, for any number of restarts, other           *)
(* receivers, boot messages and waiting connections.                       *)
(***************************************************************************)
EXTENDS NetlogSession, SequenceTheorems, TLAPS

USE NamesAssumption, BoundsAssumption

-----------------------------------------------------------------------------
(* The inductive invariant.                                                *)

\* No session has more boot messages than were sent, a later one none.
MailInv ==
    \A s \in Sessions : /\ late[s] + inbox[s] <= Copies
                        /\ s > session => late[s] = 0 /\ inbox[s] = 0

\* select() has returned the listening socket only if a connection waits there.
ReadyInv == "serv" \in ready => backlog # <<>>

\* The receiver in its loop takes a connection the board writes to for one of
\* the board's session.
InfoInv == Connected /\ pc = "loop" => info = session

\* The board writes to one connection of this receiver at most, and only while
\* the receiver is subscribed.
OneLive ==
    /\ Connected => Me \in subs
    /\ \A j, k \in DOMAIN backlog : backlog[j] = "live" /\ backlog[k] = "live" => j = k
    /\ log = "live" => \A k \in DOMAIN backlog : backlog[k] # "live"

IInv == TypeOK /\ MailInv /\ ReadyInv /\ InfoInv /\ OneLive

-----------------------------------------------------------------------------
(* Sequences of connections.                                               *)

\* The empty queue.
LEMMA NoLinks == <<>> \in Seq(Ends) /\ Len(<<>>) = 0 /\ DOMAIN <<>> = {}
    BY EmptySeq

\* The places of the queue.
LEMMA BacklogDomain ==
    ASSUME backlog \in Seq(Ends)
    PROVE  /\ DOMAIN backlog = 1 .. Len(backlog) /\ Len(backlog) \in Nat
           /\ \A k \in DOMAIN backlog : backlog[k] \in Ends
           /\ backlog = <<>> <=> Len(backlog) = 0
BY LenProperties, EmptySeq

\* What a cut does to the connections.
LEMMA CutLinks ==
    ASSUME backlog \in Seq(Ends), log \in Ends \cup {"none"},
           NEW as \in {"lost", "closed"}, Cut(as)
    PROVE  /\ backlog' \in Seq(Ends) /\ Len(backlog') = Len(backlog)
           /\ DOMAIN backlog' = DOMAIN backlog
           /\ backlog' = <<>> => backlog = <<>>
           /\ log' \in Ends \cup {"none"} /\ ~Connected'
<1>1. DOMAIN backlog = 1 .. Len(backlog) /\ Len(backlog) \in Nat
      /\ \A k \in DOMAIN backlog : backlog[k] \in Ends
    BY BacklogDomain
<1>2. backlog' \in [1 .. Len(backlog) -> Ends]
    BY <1>1 DEF Cut, Ends
<1>3. backlog' \in Seq(Ends)
    <2>1. Seq(Ends) = UNION {[1 .. n -> Ends] : n \in Nat}
        BY SeqDef
    <2> QED
        BY <1>1, <1>2, <2>1
<1>4. Len(backlog') = Len(backlog) /\ DOMAIN backlog' = DOMAIN backlog
    BY <1>1, <1>2, <1>3, LenProperties
<1>5. log' \in Ends \cup {"none"} /\ log' # "live"
    BY DEF Cut, Ends
<1>6. \A k \in DOMAIN backlog : backlog'[k] # "live"
    BY <1>1 DEF Cut
<1>7. backlog' = <<>> => backlog = <<>>
    BY <1>1, <1>4, NoLinks, EmptySeq
<1> QED
    BY <1>3, <1>4, <1>5, <1>6, <1>7 DEF Connected

\* What a new connection does to the queue.
LEMMA NewLink ==
    ASSUME backlog \in Seq(Ends), NEW e \in Ends
    PROVE  /\ Append(backlog, e) \in Seq(Ends)
           /\ DOMAIN Append(backlog, e) = 1 .. Len(backlog) + 1
           /\ Len(Append(backlog, e)) = Len(backlog) + 1
           /\ \A k \in 1 .. Len(backlog) : Append(backlog, e)[k] = backlog[k]
           /\ Append(backlog, e)[Len(backlog) + 1] = e
<1>1. Append(backlog, e) \in Seq(Ends) /\ Len(Append(backlog, e)) = Len(backlog) + 1
    BY AppendProperties
<1>2. DOMAIN Append(backlog, e) = 1 .. Len(Append(backlog, e))
    BY <1>1, LenProperties
<1> QED
    BY <1>1, <1>2, AppendProperties

\* What taking the head of the queue leaves.
LEMMA TakenLink ==
    ASSUME backlog \in Seq(Ends), backlog # <<>>
    PROVE  /\ Tail(backlog) \in Seq(Ends) /\ Len(Tail(backlog)) = Len(backlog) - 1
           /\ Head(backlog) = backlog[1] /\ 1 \in DOMAIN backlog
           /\ DOMAIN Tail(backlog) = 1 .. Len(backlog) - 1
           /\ \A k \in DOMAIN Tail(backlog) :
                  k + 1 \in DOMAIN backlog /\ Tail(backlog)[k] = backlog[k + 1]
<1>1. Tail(backlog) \in Seq(Ends) /\ Len(Tail(backlog)) = Len(backlog) - 1
    BY HeadTailProperties
<1>2. DOMAIN Tail(backlog) = 1 .. Len(Tail(backlog))
    BY <1>1, LenProperties
<1>3. DOMAIN backlog = 1 .. Len(backlog) /\ Len(backlog) \in Nat \ {0}
    BY LenProperties, EmptySeq
<1> QED
    BY <1>1, <1>2, <1>3, HeadTailProperties

-----------------------------------------------------------------------------
(* Every step keeps the invariant.                                         *)

\* At the start nothing is there.
LEMMA InitIInv == Init => IInv
<1> SUFFICES ASSUME Init PROVE IInv
    OBVIOUS
<1> USE NoLinks DEF Init, Server!Init
<1>1. TypeOK
    BY DEF TypeOK, Sessions
<1>2. MailInv
    BY DEF MailInv, Sessions
<1>3. ReadyInv /\ InfoInv /\ OneLive
    BY DEF ReadyInv, InfoInv, OneLive, Connected
<1> QED
    BY <1>1, <1>2, <1>3 DEF IInv

\* The end of the program closes what it has.
LEMMA Death ==
    ASSUME Dies, session' \in Sessions, info' \in 0 .. MaxBoots, last' \in 0 .. MaxBoots,
           subs' \subseteq Others \cup {Me}, MailInv',
           late' \in [Sessions -> 0 .. Copies], inbox' \in [Sessions -> 0 .. Copies]
    PROVE  IInv'
<1> USE NoLinks DEF Dies
<1>1. TypeOK'
    BY DEF TypeOK
<1>2. ReadyInv' /\ InfoInv' /\ OneLive'
    BY DEF ReadyInv, InfoInv, OneLive, Connected
<1> QED
    BY <1>1, <1>2 DEF IInv

\* Boot messages are counted for each session; none is there before it began.
LEMMA MailStep == ASSUME IInv, [Next]_vars PROVE MailInv' /\ late' \in [Sessions -> 0 .. Copies]
                                                 /\ inbox' \in [Sessions -> 0 .. Copies]
<1>0. /\ late \in [Sessions -> 0 .. Copies] /\ inbox \in [Sessions -> 0 .. Copies]
      /\ session \in Sessions /\ \A s \in Sessions : s \in Nat
      /\ \A s \in Sessions : /\ late[s] + inbox[s] <= Copies
                             /\ s > session => late[s] = 0 /\ inbox[s] = 0
    BY DEF IInv, TypeOK, MailInv, Sessions
<1>1. CASE Restart
    <2>1. /\ session' = session + 1 /\ session' \in Sessions /\ inbox' = inbox
          /\ late' = [late EXCEPT ![session'] = Copies]
        BY <1>0, <1>1 DEF Restart, Sessions
    <2>2. late' \in [Sessions -> 0 .. Copies] /\ inbox' \in [Sessions -> 0 .. Copies]
        BY <1>0, <2>1
    <2>3. \A s \in Sessions : late'[s] = IF s = session' THEN Copies ELSE late[s]
        BY <1>0, <2>1
    <2>4. inbox[session'] = 0
        BY <1>0, <2>1
    <2>5. ASSUME NEW s \in Sessions
          PROVE  /\ late'[s] + inbox'[s] <= Copies
                 /\ s > session' => late'[s] = 0 /\ inbox'[s] = 0
        BY <1>0, <2>1, <2>3, <2>4
    <2> QED
        BY <2>2, <2>5 DEF MailInv
<1>2. CASE Arrive
    <2>1. PICK s \in Sessions :
              /\ late[s] > 0 /\ late' = [late EXCEPT ![s] = @ - 1]
              /\ inbox' = inbox \/ inbox' = [inbox EXCEPT ![s] = @ + 1]
        BY <1>2 DEF Arrive
    <2>2. session' = session
        BY <1>2 DEF Arrive
    <2>3. late[s] + inbox[s] <= Copies /\ late[s] \in 0 .. Copies /\ inbox[s] \in 0 .. Copies
        BY <1>0
    <2>4. late' \in [Sessions -> 0 .. Copies] /\ inbox' \in [Sessions -> 0 .. Copies]
        BY <1>0, <2>1, <2>3
    <2>5. ASSUME NEW r \in Sessions
          PROVE  /\ late'[r] + inbox'[r] <= Copies
                 /\ r > session' => late'[r] = 0 /\ inbox'[r] = 0
        BY <1>0, <2>1, <2>2, <2>3
    <2> QED
        BY <2>4, <2>5 DEF MailInv
<1>3. CASE HandleBcast
    <2>1. PICK s \in Sessions : inbox[s] > 0 /\ inbox' = [inbox EXCEPT ![s] = @ - 1]
        BY <1>3 DEF HandleBcast, Pending
    <2>2. session' = session /\ late' = late
        BY <1>3 DEF HandleBcast
    <2>3. inbox' \in [Sessions -> 0 .. Copies]
        BY <1>0, <2>1
    <2>4. ASSUME NEW r \in Sessions
          PROVE  /\ late'[r] + inbox'[r] <= Copies
                 /\ r > session' => late'[r] = 0 /\ inbox'[r] = 0
        BY <1>0, <2>1, <2>2
    <2> QED
        BY <1>0, <2>2, <2>3, <2>4 DEF MailInv
<1>4. ASSUME UNCHANGED <<session, net>>
      PROVE  MailInv' /\ late' \in [Sessions -> 0 .. Copies] /\ inbox' \in [Sessions -> 0 .. Copies]
    BY <1>0, <1>4 DEF net, MailInv
<1>5. CASE Serve \/ Finish \/ Drop \/ OtherBegins \/ Connect \/ AnswerTimesOut \/ Unsub
           \/ Answer \/ Select \/ Accept \/ ReadLog \/ ReadOld \/ UNCHANGED vars
    BY <1>4, <1>5 DEF Serve, Finish, Drop, OtherBegins, Connect, AnswerTimesOut, Unsub,
                      Answer, Select, Accept, ReadLog, ReadOld, vars
<1> QED
    BY <1>1, <1>2, <1>3, <1>5 DEF Next, Receiver

\* The subscribed addresses stay those that there are.
LEMMA SubsStep == ASSUME IInv, [Next]_vars PROVE subs' \subseteq Others \cup {Me}
<1> USE DEF IInv, TypeOK, Server!Restart, Server!Subscribe, Server!Unsubscribe, Server!NothingToDo,
            Server!Refuse, Server!Finish, Server!Drop, Server!Begin
<1>1. CASE Restart \/ Arrive \/ Serve \/ Finish \/ Drop \/ OtherBegins
    BY <1>1 DEF Restart, Arrive, Serve, Finish, Drop, OtherBegins
<1>2. CASE Connect \/ AnswerTimesOut \/ Unsub \/ Receiver \/ UNCHANGED vars
    BY <1>2 DEF Connect, AnswerTimesOut, Unsub, Receiver, Answer, Select, HandleBcast, Accept,
                ReadLog, ReadOld, vars
<1> QED
    BY <1>1, <1>2 DEF Next

\* By step: the restart and the boot messages, then those that touch connections.
LEMMA NextIInv == ASSUME IInv, [Next]_vars PROVE IInv'
<1> USE DEF IInv
<1>0. /\ MailInv' /\ subs' \subseteq Others \cup {Me}
      /\ late' \in [Sessions -> 0 .. Copies] /\ inbox' \in [Sessions -> 0 .. Copies]
      /\ backlog \in Seq(Ends) /\ log \in Ends \cup {"none"}
    BY MailStep, SubsStep DEF TypeOK
<1>1. ASSUME NEW as \in {"lost", "closed"}, Cut(as), UNCHANGED <<pc, info, last, ready>>,
             session' \in Sessions
      PROVE  IInv'
    <2>1. TypeOK'
        BY <1>0, <1>1, CutLinks DEF TypeOK
    <2>2. ReadyInv'
        BY <1>0, <1>1, CutLinks, NoLinks DEF ReadyInv
    <2>3. InfoInv' /\ OneLive'
        BY <1>0, <1>1, CutLinks DEF InfoInv, OneLive, Connected
    <2> QED
        BY <1>0, <2>1, <2>2, <2>3
<1>2. ASSUME UNCHANGED <<session, info, last, ready, links>>, pc' # "loop" \/ pc' = pc,
             pc' \in {"connect", "wait", "loop", "dead", "gone"},
             Me \in subs => Me \in subs'
      PROVE  IInv'
    <2>1. TypeOK' /\ ReadyInv'
        BY <1>0, <1>2 DEF TypeOK, ReadyInv, links
    <2>2. InfoInv' /\ OneLive'
        BY <1>2 DEF InfoInv, OneLive, Connected, links
    <2> QED
        BY <1>0, <2>1, <2>2
<1>3. CASE Restart
    <2>1. session' \in Sessions
        BY <1>3 DEF Restart, TypeOK, Sessions
    <2>2. CASE pc = "wait"
        BY <1>0, <1>3, <2>1, <2>2, Death DEF Restart, TypeOK
    <2>3. CASE pc # "wait"
        BY <1>1, <1>3, <2>1, <2>3 DEF Restart
    <2> QED
        BY <2>2, <2>3
<1>4. CASE Arrive \/ Finish \/ OtherBegins \/ Connect \/ Unsub \/ UNCHANGED vars
    BY <1>2, <1>4 DEF Arrive, Finish, OtherBegins, Connect, Unsub, vars, TypeOK, links,
                      Server!Finish, Server!Refuse, Server!Begin
<1>5. CASE Drop
    <2>1. CASE Me \in subs \ subs'
        <3>1. PICK as \in {"closed", "lost"} : Cut(as)
            BY <1>5, <2>1 DEF Drop
        <3> QED
            BY <1>1, <1>5, <3>1 DEF Drop, TypeOK
    <2>2. CASE Me \notin subs \ subs'
        BY <1>2, <1>5, <2>2 DEF Drop, TypeOK
    <2> QED
        BY <2>1, <2>2
<1>6. CASE AnswerTimesOut
    BY <1>0, <1>6, Death DEF AnswerTimesOut, TypeOK
<1>7. CASE Serve
    <2>1. Me \in subs => Me \in subs' \/ (subs' = subs \ {Me} /\ subs' # subs)
        BY <1>7 DEF Serve, Server!Subscribe, Server!Unsubscribe, Server!NothingToDo, Server!Refuse
    <2>2. CASE Mine /\ subs' = subs \cup {Me} /\ subs' # subs
        <3>1. /\ Me \notin subs /\ Me \in subs' /\ pc = "wait" /\ Len(backlog) < Backlog
              /\ backlog' = Append(backlog, "live")
              /\ UNCHANGED <<session, net, pc, info, last, ready, log>>
            BY <1>7, <2>2 DEF Serve
        <3>2. "live" \in Ends
            BY DEF Ends
        <3>3. TypeOK'
            BY <1>0, <3>1, <3>2, NewLink, BacklogDomain DEF TypeOK, net
        <3>4. ReadyInv' /\ InfoInv'
            BY <1>0, <3>1, <3>2, NewLink, BacklogDomain, NoLinks DEF ReadyInv, InfoInv
        <3>5. ~Connected /\ log # "live" /\ \A k \in 1 .. Len(backlog) : backlog[k] # "live"
            BY <1>0, <3>1, BacklogDomain DEF OneLive, Connected
        <3>6. OneLive'
            BY <1>0, <3>1, <3>2, <3>5, NewLink, BacklogDomain DEF OneLive, Connected
        <3> QED
            BY <1>0, <3>3, <3>4, <3>6
    <2>3. CASE subs' = subs \ {Me} /\ subs' # subs
        BY <1>1, <1>7, <2>3 DEF Serve, TypeOK
    <2>4. CASE UNCHANGED links /\ Me \in subs'
        BY <1>2, <1>7, <2>4 DEF Serve, TypeOK
    <2>5. CASE UNCHANGED links /\ Me \notin subs
        BY <1>2, <1>7, <2>5 DEF Serve, TypeOK
    <2> QED
        BY <1>7, <2>1, <2>2, <2>3, <2>4, <2>5 DEF Serve
<1>8. CASE Answer
    <2>1. subs' = subs /\ session' = session /\ session \in 0 .. MaxBoots
        BY <1>8 DEF Answer, Server!Finish, TypeOK, Sessions
    <2>2. CASE call = Server!Answered("+")
        <3>1. /\ info' = session /\ last' = session /\ pc' = "loop"
              /\ UNCHANGED <<ready, links>>
            BY <1>8, <2>2 DEF Answer
        <3>2. TypeOK' /\ ReadyInv'
            BY <1>0, <2>1, <3>1 DEF TypeOK, ReadyInv, links
        <3>3. InfoInv' /\ OneLive'
            BY <2>1, <3>1 DEF InfoInv, OneLive, Connected, links
        <3> QED
            BY <1>0, <3>2, <3>3
    <2>3. CASE call # Server!Answered("+")
        BY <1>0, <1>8, <2>1, <2>3, Death DEF Answer, TypeOK
    <2> QED
        BY <2>2, <2>3
<1>9. CASE Select
    <2>1. /\ ready' \subseteq {"bcast", "serv", "log", "old"}
          /\ "serv" \in ready' => backlog # <<>>
        BY <1>9 DEF Select
    <2>2. UNCHANGED <<session, subs, call, net, pc, info, last, links>>
        BY <1>9 DEF Select
    <2>3. TypeOK' /\ ReadyInv'
        BY <1>0, <2>1, <2>2 DEF TypeOK, ReadyInv, links
    <2>4. InfoInv' /\ OneLive'
        BY <2>2 DEF InfoInv, OneLive, Connected, links
    <2> QED
        BY <1>0, <2>3, <2>4
<1>10. CASE HandleBcast
    <2>1. PICK s \in Pending : IF Filter(s) THEN Believe(s)
                               ELSE ready' = ready \ {"bcast"} /\ UNCHANGED <<pc, info, links>>
        BY <1>10 DEF HandleBcast
    <2>2. UNCHANGED <<session, subs, last>>
        BY <1>10 DEF HandleBcast
    <2>3. CASE Believe(s)
        <3>1. /\ pc' = "connect" /\ log' = "none" /\ backlog' = backlog /\ info' = s
              /\ ready' \subseteq {"bcast", "serv", "log", "old"}
              /\ "serv" \in ready' => "serv" \in ready
            BY <2>3 DEF Believe, TypeOK
        <3>2. info' \in 0 .. MaxBoots
            BY <3>1 DEF Pending, Sessions
        <3>3. TypeOK' /\ ReadyInv'
            BY <1>0, <2>2, <3>1, <3>2 DEF TypeOK, ReadyInv
        <3>4. InfoInv' /\ OneLive'
            BY <1>0, <2>2, <3>1 DEF InfoInv, OneLive, Connected
        <3> QED
            BY <1>0, <3>3, <3>4
    <2>4. CASE ready' = ready \ {"bcast"} /\ UNCHANGED <<pc, info, links>>
        <3>1. TypeOK' /\ ReadyInv'
            BY <1>0, <2>2, <2>4 DEF TypeOK, ReadyInv, links
        <3>2. InfoInv' /\ OneLive'
            BY <2>2, <2>4 DEF InfoInv, OneLive, Connected, links
        <3> QED
            BY <1>0, <3>1, <3>2
    <2> QED
        BY <2>1, <2>3, <2>4
<1>11. CASE Accept
    <2>1. /\ log' = IF log = "none" THEN Head(backlog) ELSE log
          /\ backlog' = Tail(backlog) /\ ready' = ready \ {"serv"} /\ "serv" \in ready
          /\ UNCHANGED <<session, subs, call, net, pc, info, last>>
        BY <1>11 DEF Accept, Turn
    <2>2. /\ backlog # <<>> /\ Len(backlog) \in Nat /\ DOMAIN backlog = 1 .. Len(backlog)
          /\ backlog[1] \in Ends
        BY <1>0, <2>1, BacklogDomain, TakenLink DEF ReadyInv
    <2>3. TypeOK' /\ ReadyInv'
        BY <1>0, <2>1, <2>2, TakenLink DEF TypeOK, ReadyInv
    <2>4. Connected' => Connected
        BY <1>0, <2>1, <2>2, TakenLink DEF Connected
    <2>5. InfoInv'
        BY <2>1, <2>4 DEF InfoInv
    <2>6. \A k \in DOMAIN backlog' : k + 1 \in DOMAIN backlog /\ backlog'[k] = backlog[k + 1] /\ k \in 1 .. Len(backlog)
        BY <1>0, <2>1, <2>2, TakenLink
    <2>7. log' = backlog[1] \/ log' = log
        BY <1>0, <2>1, <2>2, TakenLink
    <2>8. /\ \A j, k \in DOMAIN backlog' : backlog'[j] = "live" /\ backlog'[k] = "live" => j = k
          /\ log' = "live" => \A k \in DOMAIN backlog' : backlog'[k] # "live"
        BY <2>2, <2>6, <2>7 DEF OneLive
    <2> QED
        BY <1>0, <2>1, <2>3, <2>4, <2>5, <2>8 DEF OneLive
<1>12. CASE ReadLog \/ ReadOld
    <2>1. CASE Dies
        BY <1>0, <1>12, <2>1, Death DEF ReadLog, ReadOld, TypeOK
    <2>2. CASE ~Dies
        <3>1. /\ ready' \subseteq ready /\ UNCHANGED <<session, subs, pc, info, last, backlog>>
              /\ log' = log \/ log' = "none"
            BY <1>12, <2>2 DEF ReadLog, ReadOld, links
        <3>2. TypeOK' /\ ReadyInv'
            BY <1>0, <3>1 DEF TypeOK, ReadyInv
        <3>3. Connected' => Connected
            BY <3>1 DEF Connected
        <3>4. InfoInv' /\ OneLive'
            BY <3>1, <3>3 DEF InfoInv, OneLive
        <3> QED
            BY <1>0, <3>2, <3>4
    <2> QED
        BY <2>1, <2>2
<1> QED
    BY <1>3, <1>4, <1>5, <1>6, <1>7, <1>8, <1>9, <1>10, <1>11, <1>12 DEF Next, Receiver

\* The invariant holds in every state.
LEMMA Inductive == Spec => []IInv
<1>1. IInv /\ [Next]_vars => IInv'
    BY NextIInv
<1> QED
    BY <1>1, InitIInv, PTL DEF Spec

-----------------------------------------------------------------------------
(* Theorems.                                                               *)

\* Sessions, boot messages and waiting connections keep their types; no more
\* boot messages are there than the board has sent (netlog.c:104-120).
THEOREM TypeCorrect == Spec => []TypeOK
<1>1. IInv => TypeOK
    BY DEF IInv
<1> QED
    BY <1>1, Inductive, PTL

\* The board never writes to two connections of one receiver, whatever the
\* receiver accepts, closes, loses or asks for again (netlog.c:256-300).
THEOREM OneConnection == Spec => []OneLive
<1>1. IInv => OneLive
    BY DEF IInv
<1> QED
    BY <1>1, Inductive, PTL

\* By step, for KeepsConnection.
LEMMA KeepsStep ==
    ASSUME IInv, [Next]_vars, Connected, ~Connected', Me \in subs'
    PROVE  GivesUp
<1> USE DEF IInv, GivesUp
<1>0. backlog \in Seq(Ends) /\ log \in Ends \cup {"none"}
    BY DEF TypeOK
<1>1. ASSUME UNCHANGED links PROVE FALSE
    BY <1>1 DEF Connected, links
<1>2. CASE Restart
    BY <1>2 DEF Restart, Server!Restart
<1>3. CASE Serve
    <2>1. CASE Mine /\ subs' = subs \cup {Me} /\ subs' # subs
        <3>1. backlog' = Append(backlog, "live") /\ "live" \in Ends
            BY <1>3, <2>1 DEF Serve, Ends
        <3> QED
            BY <1>0, <3>1, NewLink, BacklogDomain DEF Connected
    <2>2. CASE subs' = subs \ {Me}
        BY <2>2
    <2> QED
        BY <1>1, <1>3, <2>1, <2>2 DEF Serve
<1>4. CASE Drop
    BY <1>1, <1>4 DEF Drop
<1>5. CASE Answer \/ AnswerTimesOut \/ ReadOld
    BY <1>1, <1>5 DEF Answer, AnswerTimesOut, ReadOld, Dies
<1>6. CASE HandleBcast
    <2>1. PICK s \in Pending : IF Filter(s) THEN Believe(s) ELSE UNCHANGED links
        BY <1>6 DEF HandleBcast
    <2>2. Turn("bcast") /\ info = session
        BY <1>6 DEF HandleBcast, Turn, InfoInv
    \* The connection belongs to the session the receiver knows, so the message
    \* is of another one.
    <2> QED
        BY <1>1, <2>1, <2>2 DEF Filter, Believe
<1>7. CASE Accept
    <2>1. /\ log' = IF log = "none" THEN Head(backlog) ELSE log
          /\ backlog' = Tail(backlog) /\ "serv" \in ready /\ Turn("serv")
        BY <1>7 DEF Accept, Turn
    <2>2. backlog # <<>> /\ DOMAIN backlog = 1 .. Len(backlog) /\ Len(backlog) \in Nat
        BY <1>0, <2>1, BacklogDomain DEF ReadyInv
    <2>3. CASE log = "none"
        <3>1. PICK k \in DOMAIN backlog : backlog[k] = "live"
            BY <2>3 DEF Connected
        <3>2. CASE k = 1
            BY <1>0, <2>1, <2>2, <2>3, <3>1, <3>2, TakenLink DEF Connected
        <3>3. CASE k # 1
            <4>1. k - 1 \in DOMAIN backlog' /\ backlog'[k - 1] = "live"
                BY <1>0, <2>1, <2>2, <3>1, <3>3, TakenLink
            <4> QED
                BY <4>1 DEF Connected
        <3> QED
            BY <3>2, <3>3
    <2> QED
        BY <1>0, <2>1, <2>3 DEF Connected, Ends
<1>8. CASE ReadLog
    BY <1>1, <1>8 DEF ReadLog, Dies, Connected
<1>9. CASE Arrive \/ Finish \/ OtherBegins \/ Connect \/ Unsub \/ Select \/ UNCHANGED vars
    BY <1>1, <1>9 DEF Arrive, Finish, OtherBegins, Connect, Unsub, Select, vars
<1> QED
    BY <1>2, <1>3, <1>4, <1>5, <1>6, <1>7, <1>8, <1>9 DEF Next, Receiver

\* The receiver gives up a connection that the board still writes to for the
\* causes of GivesUp only: a missing or negative answer, a boot message of
\* another session, an earlier connection in its place, the end of the log it
\* reads, a deleted socket (netlog.py:80-90, 216-224, 248-250, 261-276).
THEOREM Keeps == Spec => KeepsConnection
<1>1. IInv /\ [Next]_vars =>
        [Connected /\ ~Connected' /\ Me \in subs' => GivesUp]_vars
    BY KeepsStep
<1> QED
    BY <1>1, Inductive, PTL DEF Spec, KeepsConnection
=============================================================================
