------------------------------ MODULE IpProofs ------------------------------
(***************************************************************************)
(* What a receiver of fields gets over a connection, for fields and        *)
(* windows of any size.                                                    *)
(***************************************************************************)
EXTENDS Ip, SequenceTheorems, TLAPS

\* The bytes written and the bytes read, since the connection began.
Start == taken * N
Consumed == Start + IF receiver = "idle" THEN 0 ELSE rcvd
Written == sent * N + IF sender = "sending" THEN total ELSE 0

Bounded ==
    /\ sender = "sending" => sent < Fields
    /\ receiver # "idle" => taken < Fields /\ pieces <= rcvd
    /\ receiver = "ok" => rcvd = N

\* The bytes under way are those that follow the bytes read, up to the last
\* one written.
InOrder ==
    /\ \A i \in 1 .. Len(pipe) : pipe[i] = Consumed + i
    /\ sender # "closed" => Consumed + Len(pipe) = Written

\* The buffer holds the whole of what came as long as that is one piece.
LastPiece ==
    receiver # "idle" =>
        /\ pieces = 0 => rcvd = 0
        /\ pieces = 1 => \A i \in 1 .. rcvd : buf[i] = Start + i

IInv == TypeOK /\ Bounded /\ InOrder /\ LastPiece

LEMMA OneMoreField ==
    ASSUME NEW f \in Nat
    PROVE  f * N \in Nat /\ (f + 1) * N = f * N + N
BY SizesAssumption

LEMMA Bytes == TypeOK => /\ Start \in Nat /\ Consumed \in Nat /\ Written \in Nat
                         /\ sent * N \in Nat
<1> SUFFICES ASSUME TypeOK
             PROVE  Start \in Nat /\ Consumed \in Nat /\ Written \in Nat /\ sent * N \in Nat
  OBVIOUS
<1>1. taken \in Nat /\ sent \in Nat /\ rcvd \in Nat /\ total \in Nat
  BY SizesAssumption, BoundsAssumption DEF TypeOK
<1>2. taken * N \in Nat /\ sent * N \in Nat
  BY <1>1, OneMoreField
<1> QED
  BY <1>1, <1>2 DEF Start, Consumed, Written

LEMMA InitIInv == Init => IInv
<1> SUFFICES ASSUME Init PROVE IInv
  OBVIOUS
<1>1. TypeOK
  BY SizesAssumption, BoundsAssumption DEF Init, TypeOK, Unset
<1>2. 0 * N = 0
  BY SizesAssumption
<1>3. InOrder
  BY <1>2 DEF Init, InOrder, Consumed, Start, Written
<1>4. Bounded /\ LastPiece
  BY DEF Init, Bounded, LastPiece
<1> QED
  BY <1>1, <1>3, <1>4 DEF IInv

\* A step that moves no byte and counts no field.
LEMMA NoByteMoves ==
    ASSUME IInv, UNCHANGED <<sent, total, pipe, rcvd, pieces, buf, taken>>,
           receiver = "idle" <=> receiver' = "idle",
           sender' = sender \/ (sender' = "closed")
    PROVE  InOrder' /\ LastPiece'
<1>1. Consumed' = Consumed /\ Start' = Start
  BY DEF Consumed, Start
<1>2. sender' # "closed" => sender' = sender /\ Written' = Written
  BY DEF Written
<1>3. InOrder'
  BY <1>1, <1>2 DEF IInv, InOrder
<1>4. LastPiece'
  BY <1>1 DEF IInv, LastPiece
<1> QED
  BY <1>3, <1>4

LEMMA WritePreserves == IInv /\ Write => IInv'
<1> SUFFICES ASSUME IInv, Write PROVE IInv'
  OBVIOUS
<1> USE DEF IInv
<1>1. PICK k \in 1 .. N - total : /\ Len(pipe) + k <= Window
                                  /\ pipe' = pipe \o Piece(k)
                                  /\ total' = total + k
  BY DEF Write
<1>2. /\ sender = "sending" /\ total < N /\ retries' = 0
      /\ UNCHANGED <<sender, sent, receiverVars>>
  BY DEF Write
<1>3. /\ total \in Nat /\ k \in Nat /\ total + k \in 0 .. N
      /\ pipe \in Seq(Nat) /\ Len(pipe) \in Nat
  BY <1>1, SizesAssumption DEF TypeOK
<1>4. sent * N \in Nat /\ Consumed \in Nat
  BY Bytes
<1>5. /\ Piece(k) \in Seq(Nat) /\ Len(Piece(k)) = k
      /\ \A i \in 1 .. k : Piece(k)[i] = sent * N + total + i
  <2> DEFINE s == sent * N
  <2>1. s \in Nat
    BY <1>4
  <2>2. Piece(k) = [i \in 1 .. k |-> s + total + i]
    BY DEF Piece
  <2> HIDE DEF s
  <2>3. Piece(k) \in [1 .. k -> Nat]
    BY <1>3, <2>1, <2>2
  <2>4. /\ Piece(k) \in Seq(Nat) /\ Len(Piece(k)) = k
        /\ \A i \in 1 .. k : Piece(k)[i] = s + total + i
    BY <1>3, <2>2, <2>3
  <2> QED
    BY <2>4 DEF s
<1>6. /\ pipe' \in Seq(Nat)
      /\ Len(pipe') = Len(pipe) + k /\ Len(pipe') \in Nat
      /\ \A i \in 1 .. Len(pipe') :
            pipe'[i] = IF i <= Len(pipe) THEN pipe[i] ELSE Piece(k)[i - Len(pipe)]
  <2> DEFINE p == Piece(k)
  <2>1. p \in Seq(Nat) /\ Len(p) = k /\ pipe' = pipe \o p
    BY <1>1, <1>5
  <2> HIDE DEF p
  <2>2. /\ pipe' \in Seq(Nat)
        /\ Len(pipe') = Len(pipe) + k
        /\ \A i \in 1 .. Len(pipe) + k :
              pipe'[i] = IF i <= Len(pipe) THEN pipe[i] ELSE p[i - Len(pipe)]
    BY <1>3, <2>1, ConcatProperties, Zenon
  <2>3. Len(pipe) + k \in Nat
    BY <1>3
  <2> QED
    BY <2>2, <2>3, Zenon DEF p
<1>10. Len(pipe') = Len(pipe) + k /\ Len(pipe') \in Nat /\ Len(pipe) \in Nat
  BY <1>3, <1>6
<1>11. total \in Nat /\ k \in Nat
  BY <1>3
<1>7. TypeOK'
  BY <1>1, <1>2, <1>3, <1>6, BoundsAssumption DEF TypeOK, receiverVars
<1>8. Bounded' /\ LastPiece'
  BY <1>2 DEF Bounded, LastPiece, Start, receiverVars
<1>9. InOrder'
  <2>1. Consumed' = Consumed
    BY <1>2 DEF Consumed, Start, receiverVars
  <2>2. Consumed + Len(pipe) = sent * N + total
    BY <1>2 DEF InOrder, Written
  <2>3. Written' = sent * N + (total + k)
    BY <1>1, <1>2 DEF Written
  <2>4. ASSUME NEW i \in 1 .. Len(pipe') PROVE pipe'[i] = Consumed + i
    <3>1. CASE i \in 1 .. Len(pipe)
      <4>1. pipe'[i] = pipe[i]
        BY <1>6, <1>10, <3>1
      <4> QED
        BY <3>1, <4>1 DEF InOrder
    <3>2. CASE i > Len(pipe)
      <4>1. i - Len(pipe) \in 1 .. k
        BY <1>10, <1>11, <3>2
      <4>2. pipe'[i] = Piece(k)[i - Len(pipe)]
        BY <1>6, <1>10, <3>2
      <4>3. pipe'[i] = sent * N + total + (i - Len(pipe))
        BY <1>5, <4>1, <4>2
      <4> DEFINE s == sent * N
      <4>4. /\ s \in Nat /\ Consumed + Len(pipe) = s + total
            /\ pipe'[i] = s + total + (i - Len(pipe))
        BY <1>4, <2>2, <4>3
      <4> HIDE DEF s
      <4>5. s + total + (i - Len(pipe)) = Consumed + i
        BY <1>4, <1>10, <1>11, <4>4
      <4> QED
        BY <4>4, <4>5
    <3> QED
      BY <1>10, <3>1, <3>2
  <2>5. Consumed + Len(pipe') = sent * N + (total + k)
    <3> DEFINE s == sent * N
    <3>1. s \in Nat /\ Consumed + Len(pipe) = s + total
      BY <1>4, <2>2
    <3> HIDE DEF s
    <3>2. Consumed + Len(pipe') = s + (total + k)
      BY <1>4, <1>10, <1>11, <3>1
    <3> QED
      BY <3>2 DEF s
  <2> QED
    BY <2>1, <2>3, <2>4, <2>5 DEF InOrder
<1> QED
  BY <1>7, <1>8, <1>9

LEMMA ReadPreserves == IInv /\ Read => IInv'
<1> SUFFICES ASSUME IInv, Read PROVE IInv'
  OBVIOUS
<1> USE DEF IInv
<1>1. PICK k \in 1 .. N - rcvd :
         /\ k <= Len(pipe)
         /\ buf' = [i \in 1 .. N |-> IF i <= k THEN pipe[i] ELSE buf[i]]
         /\ pipe' = SubSeq(pipe, k + 1, Len(pipe))
         /\ rcvd' = rcvd + k
  BY DEF Read, Wanted
<1>2. /\ receiver = "receiving" /\ rcvd < N /\ pieces' = pieces + 1
      /\ UNCHANGED <<senderVars, receiver, taken>>
  BY DEF Read
<1>3. /\ rcvd \in Nat /\ pieces \in Nat /\ k \in Nat /\ rcvd + k \in 0 .. N
      /\ pipe \in Seq(Nat) /\ Len(pipe) \in Nat /\ pieces <= rcvd
  BY <1>1, <1>2, SizesAssumption DEF TypeOK, Bounded
<1>4. Start \in Nat /\ Consumed = Start + rcvd /\ Start' = Start
  BY <1>2, Bytes DEF Consumed, Start
<1>5. /\ pipe' \in Seq(Nat) /\ Len(pipe') = Len(pipe) - k
      /\ \A i \in 1 .. Len(pipe') : pipe'[i] = pipe[k + i]
  <2>1. /\ SubSeq(pipe, k + 1, Len(pipe)) \in Seq(Nat)
        /\ Len(SubSeq(pipe, k + 1, Len(pipe))) = Len(pipe) - k
    BY <1>1, <1>3
  <2>2. \A i \in 1 .. Len(pipe) - k : SubSeq(pipe, k + 1, Len(pipe))[i] = pipe[k + i]
    BY <1>1, <1>3
  <2> QED
    BY <1>1, <2>1, <2>2
<1>6. \A i \in 1 .. k : i \in 1 .. N /\ buf'[i] = Start + rcvd + i
  <2> TAKE i \in 1 .. k
  <2>1. i \in 1 .. Len(pipe) /\ i \in 1 .. N
    BY <1>1, <1>3, SizesAssumption
  <2>2. pipe[i] = Start + rcvd + i
    BY <1>4, <2>1 DEF InOrder
  <2>3. buf'[i] = pipe[i]
    BY <1>1, <2>1
  <2> QED
    BY <2>1, <2>2, <2>3
<1>7. TypeOK'
  <2>1. buf' \in [1 .. N -> Nat]
    BY <1>1, <1>3 DEF TypeOK
  <2>2. Len(pipe') <= Window
    BY <1>1, <1>3, <1>5, SizesAssumption DEF TypeOK
  <2>3. pieces' \in 0 .. N /\ rcvd' \in 0 .. N
    BY <1>1, <1>2, <1>3, SizesAssumption
  <2> QED
    BY <1>2, <1>5, <2>1, <2>2, <2>3 DEF TypeOK, senderVars
<1>8. Bounded'
  BY <1>1, <1>2, <1>3 DEF Bounded, senderVars
<1>9. InOrder'
  <2>1. Consumed' = Consumed + k
    BY <1>1, <1>2, <1>3, <1>4 DEF Consumed
  <2>2. \A i \in 1 .. Len(pipe') : k + i \in 1 .. Len(pipe)
    BY <1>3, <1>5
  <2>3. \A i \in 1 .. Len(pipe') : pipe'[i] = Consumed' + i
    BY <1>3, <1>4, <1>5, <2>1, <2>2 DEF InOrder
  <2>4. sender' # "closed" => Consumed' + Len(pipe') = Written'
    <3>1. Written' = Written /\ sender' = sender
      BY <1>2 DEF Written, senderVars
    <3> QED
      BY <1>3, <1>4, <1>5, <2>1, <3>1 DEF InOrder
  <2> QED
    BY <2>3, <2>4 DEF InOrder
<1>10. LastPiece'
  <2>1. CASE pieces = 0
    <3>1. rcvd = 0
      BY <1>2, <2>1 DEF LastPiece
    <3>2. \A i \in 1 .. rcvd' : buf'[i] = Start' + i
      <4>1. rcvd' = k
        BY <1>1, <1>3, <3>1
      <4>2. Start + rcvd = Start
        BY <1>4, <3>1
      <4> QED
        BY <1>4, <1>6, <4>1, <4>2, Zenon
    <3>3. pieces' = 1 /\ rcvd' # 0
      BY <1>1, <1>2, <1>3, <2>1
    <3> QED
      BY <3>2, <3>3 DEF LastPiece
  <2>2. CASE pieces > 0
    <3> QED
      BY <1>2, <1>3, <2>2 DEF LastPiece
  <2> QED
    BY <1>3, <2>1, <2>2
<1> QED
  BY <1>7, <1>8, <1>9, <1>10

LEMMA NextIInv == IInv /\ [Next]_vars => IInv'
<1> SUFFICES ASSUME IInv, [Next]_vars PROVE IInv'
  OBVIOUS
<1> USE DEF IInv, senderVars, receiverVars
<1> USE SizesAssumption, BoundsAssumption
<1>1. CASE UNCHANGED vars
  <2>1. TypeOK' /\ Bounded'
    BY <1>1 DEF vars, TypeOK, Bounded
  <2> QED
    BY <1>1, <2>1, NoByteMoves DEF vars
<1>2. CASE Sendn
  <2>1. TypeOK' /\ Bounded' /\ LastPiece'
    BY <1>2 DEF Sendn, TypeOK, Bounded, LastPiece, Start
  <2>2. Consumed' = Consumed
    BY <1>2 DEF Sendn, Consumed, Start
  <2>3. Written' = sent * N /\ Written = sent * N
    BY <1>2, Bytes DEF Sendn, Written
  <2> QED
    BY <1>2, <2>1, <2>2, <2>3 DEF Sendn, InOrder
<1>3. CASE Write
  BY <1>3, WritePreserves
<1>4. CASE NoMemory
  <2>1. TypeOK' /\ Bounded'
    BY <1>4 DEF NoMemory, TypeOK, Bounded
  <2> QED
    BY <1>4, <2>1, NoByteMoves DEF NoMemory
<1>5. CASE WriteFails
  <2>1. TypeOK' /\ Bounded'
    BY <1>5 DEF WriteFails, TypeOK, Bounded
  <2> QED
    BY <1>5, <2>1, NoByteMoves DEF WriteFails
<1>6. CASE SendnReturns
  <2>1. TypeOK' /\ Bounded' /\ LastPiece'
    BY <1>6 DEF SendnReturns, TypeOK, Bounded, LastPiece, Start
  <2>2. Consumed' = Consumed
    BY <1>6 DEF SendnReturns, Consumed, Start
  <2>3. sent \in Nat
    BY DEF TypeOK
  <2>4. Written' = (sent + 1) * N /\ Written = sent * N + N
    BY <1>6, <2>3, OneMoreField DEF SendnReturns, Written
  <2>5. Written' = Written
    BY <2>3, <2>4, OneMoreField
  <2> QED
    BY <1>6, <2>1, <2>2, <2>5 DEF SendnReturns, InOrder
<1>7. CASE Close
  <2>1. TypeOK' /\ Bounded'
    BY <1>7 DEF Close, TypeOK, Bounded
  <2> QED
    BY <1>7, <2>1, NoByteMoves DEF Close
<1>8. CASE Recvn
  <2>1. TypeOK' /\ Bounded' /\ LastPiece'
    BY <1>8 DEF Recvn, TypeOK, Bounded, LastPiece, Unset
  <2>2. Consumed' = Consumed
    BY <1>8, Bytes DEF Recvn, Consumed, Start
  <2>3. Written' = Written
    BY <1>8 DEF Recvn, Written
  <2> QED
    BY <1>8, <2>1, <2>2, <2>3 DEF Recvn, InOrder
<1>9. CASE Read
  BY <1>9, ReadPreserves
<1>10. CASE ReadEnds
  <2>1. TypeOK' /\ Bounded'
    BY <1>10 DEF ReadEnds, TypeOK, Bounded
  <2> QED
    BY <1>10, <2>1, NoByteMoves DEF ReadEnds
<1>11. CASE RecvnReturns
  <2>1. TypeOK' /\ Bounded'
    BY <1>11 DEF RecvnReturns, TypeOK, Bounded
  <2> QED
    BY <1>11, <2>1, NoByteMoves DEF RecvnReturns
<1>12. CASE TakeField
  <2>1. TypeOK' /\ Bounded' /\ LastPiece'
    BY <1>12 DEF TakeField, TypeOK, Bounded, LastPiece
  <2>2. taken \in Nat /\ rcvd = N
    BY <1>12 DEF TakeField, TypeOK, Bounded
  <2>3. Consumed' = (taken + 1) * N + 0 /\ Consumed = taken * N + N
    BY <1>12, <2>2 DEF TakeField, Consumed, Start
  <2>4. Consumed' = Consumed
    BY <2>2, <2>3, OneMoreField
  <2>5. Written' = Written
    BY <1>12 DEF TakeField, Written
  <2> QED
    BY <1>12, <2>1, <2>4, <2>5 DEF TakeField, InOrder
<1> QED
  BY <1>1, <1>2, <1>3, <1>4, <1>5, <1>6, <1>7, <1>8, <1>9, <1>10, <1>11, <1>12
     DEF Next, SendStep

LEMMA Inductive == Spec => []IInv
BY InitIInv, NextIInv, PTL DEF Spec

-----------------------------------------------------------------------------

\* TypeOK: no end counts more bytes, fields or retries than there are, and the
\* connection never holds more than its window.
THEOREM TypeCorrect == Spec => []TypeOK
<1>1. IInv => TypeOK
  BY DEF IInv
<1> QED
  BY <1>1, Inductive, PTL

\* FieldTaken: recvn() that succeeds has taken the bytes of one field off the
\* connection, no more and no fewer, and has them in the buffer if they came in
\* one piece (ip.c:216-229).
THEOREM Taken == Spec => []FieldTaken
<1>1. ASSUME IInv, receiver = "ok"
      PROVE  /\ pipe # <<>> => pipe[1] = (taken + 1) * N + 1
             /\ pieces = 1 => buf = Field(taken)
  <2> USE DEF IInv
  <2>1. /\ rcvd = N /\ N \in Nat /\ N > 0 /\ taken \in Nat
        /\ pieces \in Nat /\ buf \in [1 .. N -> Nat] /\ pipe \in Seq(Nat)
    BY <1>1, SizesAssumption, BoundsAssumption DEF TypeOK, Bounded
  <2>7. (taken + 1) * N = Start + N
    BY <2>1, OneMoreField DEF Start
  <2>2. Start \in Nat /\ Consumed = Start + N /\ (taken + 1) * N = Start + N
    BY <1>1, <2>1, <2>7, Bytes DEF Consumed
  <2>3. ASSUME pipe # <<>> PROVE pipe[1] = (taken + 1) * N + 1
    <3>3. Len(pipe) \in Nat \ {0}
      BY <2>1, <2>3, EmptySeq, Zenon
    <3>1. 1 \in 1 .. Len(pipe)
      BY <3>3
    <3>2. pipe[1] = Consumed + 1
      BY <1>1, <3>1 DEF InOrder
    <3> QED
      BY <2>2, <3>2
  <2>4. Field(taken) = [i \in 1 .. N |-> Start + i]
    BY DEF Field, Start
  <2>5. pieces = 1 => buf = Field(taken)
    BY <1>1, <2>1, <2>4 DEF LastPiece
  <2> QED
    BY <2>3, <2>5
<1>2. IInv => FieldTaken
  BY <1>1 DEF FieldTaken
<1> QED
  BY <1>2, Inductive, PTL
=============================================================================
