--------------------------------- MODULE Ip ---------------------------------
(***************************************************************************)
(* A TCP connection through the socket layer, src/lib/ip.c: one end sends  *)
(* fields of N bytes with pk_tcp_sendn(), the other receives them with     *)
(* pk_tcp_recvn().  A byte is its number in the stream.                    *)
(***************************************************************************)
EXTENDS Integers, Sequences

CONSTANTS
    N,              \* the bytes of a field
    Fields,         \* bound on the fields
    Window,         \* what the connection holds before write() blocks
    MaxRetries      \* MAX_RETRIES_ON_ENOMEM

ASSUME SizesAssumption == N \in Nat \ {0} /\ Window \in Nat \ {0}
ASSUME BoundsAssumption == Fields \in Nat /\ MaxRetries \in Nat

VARIABLES
    sender,     \* "idle", "sending" or "closed"
    total,      \* total_sent
    retries,    \* retries of the running pk_tcp_send()
    sent,       \* the fields sent
    pipe,       \* the bytes under way
    receiver,   \* "idle", "receiving", "ok" (recvn() returns 1) or "failed"
    rcvd,       \* total_rcv
    pieces,     \* the calls of read() that got it
    buf,        \* the caller's buffer, 0 where it was never written
    taken       \* the fields received

senderVars == <<sender, total, retries, sent>>
receiverVars == <<receiver, rcvd, pieces, buf, taken>>
vars == <<senderVars, pipe, receiverVars>>

Unset == [i \in 1 .. N |-> 0]
\* The bytes of a field, the fields counted from 0.
Field(f) == [i \in 1 .. N |-> f * N + i]

TypeOK ==
    /\ sender \in {"idle", "sending", "closed"}
    /\ total \in 0 .. N /\ retries \in 0 .. MaxRetries /\ sent \in 0 .. Fields
    /\ pipe \in Seq(Nat) /\ Len(pipe) <= Window
    /\ receiver \in {"idle", "receiving", "ok", "failed"}
    /\ rcvd \in 0 .. N /\ pieces \in 0 .. N /\ taken \in 0 .. Fields
    /\ buf \in [1 .. N -> Nat]

Init ==
    /\ sender = "idle" /\ total = 0 /\ retries = 0 /\ sent = 0
    /\ pipe = <<>>
    /\ receiver = "idle" /\ rcvd = 0 /\ pieces = 0 /\ buf = Unset /\ taken = 0

-----------------------------------------------------------------------------
Sendn ==
    /\ sender = "idle" /\ sent < Fields
    /\ sender' = "sending" /\ total' = 0 /\ retries' = 0
    /\ UNCHANGED <<sent, pipe, receiverVars>>

\* Mutant: every write begins at the start of the buffer.
PieceFromStart(k) == [i \in 1 .. k |-> sent * N + i]

\* The k bytes of write(chd, buf + total_sent, n - total_sent).
Piece(k) == [i \in 1 .. k |-> sent * N + total + i]

\* write() takes some of the bytes; the next pk_tcp_send() counts from 0.
Write ==
    /\ sender = "sending" /\ total < N
    /\ \E k \in 1 .. N - total :
          /\ Len(pipe) + k <= Window
          /\ pipe' = pipe \o Piece(k)
          /\ total' = total + k
    /\ retries' = 0
    /\ UNCHANGED <<sender, sent, receiverVars>>

\* Mutant: the count begins again after every hundred.
NoMemoryUncounted ==
    /\ sender = "sending" /\ total < N
    /\ retries' = IF retries < MaxRetries THEN retries + 1 ELSE 0
    /\ UNCHANGED <<sender, total, sent, pipe, receiverVars>>

\* ENOMEM: the write is tried again, so many times.
NoMemory ==
    /\ sender = "sending" /\ total < N
    /\ retries < MaxRetries
    /\ retries' = retries + 1
    /\ UNCHANGED <<sender, total, sent, pipe, receiverVars>>

\* Another error, or ENOMEM once more; sendn() returns 0, its caller closes.
WriteFails ==
    /\ sender = "sending" /\ total < N
    /\ sender' = "closed"
    /\ UNCHANGED <<total, retries, sent, pipe, receiverVars>>

SendnReturns ==
    /\ sender = "sending" /\ total = N
    /\ sender' = "idle" /\ sent' = sent + 1
    /\ UNCHANGED <<total, retries, pipe, receiverVars>>

Close ==
    /\ sender = "idle" /\ sender' = "closed"
    /\ UNCHANGED <<total, retries, sent, pipe, receiverVars>>

Recvn ==
    /\ receiver = "idle" /\ taken < Fields
    /\ receiver' = "receiving" /\ rcvd' = 0 /\ pieces' = 0 /\ buf' = Unset
    /\ UNCHANGED <<senderVars, pipe, taken>>

\* How much read() may be asked for.
Wanted == N - rcvd
\* read(chd, buf, n - total_rcv): whatever has come before, the piece goes to
\* the start of the buffer.
Read ==
    /\ receiver = "receiving" /\ rcvd < N
    /\ \E k \in 1 .. Wanted :
          /\ k <= Len(pipe)
          /\ buf' = [i \in 1 .. N |-> IF i <= k THEN pipe[i] ELSE buf[i]]
          /\ pipe' = SubSeq(pipe, k + 1, Len(pipe))
          /\ rcvd' = rcvd + k
    /\ pieces' = pieces + 1
    /\ UNCHANGED <<senderVars, receiver, taken>>

\* read() fails, or the peer has closed: fewer bytes than expected.
ReadEnds ==
    /\ receiver = "receiving" /\ rcvd < N
    /\ receiver' = "failed"
    /\ UNCHANGED <<senderVars, pipe, rcvd, pieces, buf, taken>>

\* handle_n_func() compares the bytes received with those expected.
RecvnReturns ==
    /\ receiver = "receiving" /\ rcvd >= N
    /\ receiver' = IF rcvd = N THEN "ok" ELSE "failed"
    /\ UNCHANGED <<senderVars, pipe, rcvd, pieces, buf, taken>>

TakeField ==
    /\ receiver = "ok" /\ receiver' = "idle" /\ taken' = taken + 1
    /\ UNCHANGED <<senderVars, pipe, rcvd, pieces, buf>>

SendStep == Write \/ NoMemory \/ WriteFails \/ SendnReturns

Next == \/ Sendn \/ SendStep \/ Close
        \/ Recvn \/ Read \/ ReadEnds \/ RecvnReturns \/ TakeField

Spec == Init /\ [][Next]_vars

\* The sender is scheduled and its write() returns while there is room.
FairSpec == Spec /\ WF_vars(SendStep)

-----------------------------------------------------------------------------
(* Properties.                                                             *)

\* When recvn() returns 1 it has taken exactly the bytes of the next field,
\* over partial writes, retries and partial reads, so the fields that follow
\* begin where they should; and a field that one read() got stands in the
\* buffer (ip.c:216-229).
FieldTaken ==
    receiver = "ok" =>
        /\ pipe # <<>> => pipe[1] = (taken + 1) * N + 1
        /\ pieces = 1 => buf = Field(taken)

\* sendn() ends unless the receiver leaves the connection full: what is tried
\* again is tried a bounded number of times (ip.c:132-155).
SendStopsOnlyWhenFull == []<>(sender # "sending" \/ Len(pipe) = Window)

-----------------------------------------------------------------------------
(* What the documentation says and the code does not do.                    *)

\* ip.h:85-88 "the received bytes are written to buf", exactly n of them: when
\* recvn() returns 1 the buffer holds the field, however many pieces it came
\* in.
FieldReceived == receiver = "ok" => buf = Field(taken)
=============================================================================
