----------------------------- MODULE OtaProofs ------------------------------
(***************************************************************************)
(* Ota for partitions, blocks, buffers and images of any size.             *)
(***************************************************************************)
EXTENDS Ota, TLAPS

USE ContentsAssumption, SizesAssumption, BlockAssumption, ImgLenAssumption

-----------------------------------------------------------------------------
(* The inductive invariant.                                                *)

\* otadata names the running partition until a request has been successful.
BootInv ==
    /\ Intact(boot)
    /\ pc # "off" => Intact(running)
    /\ pc \notin {"off", "reply", "restart"} => boot = running
    /\ pc \in {"reply", "restart"} => boot = UpdPart

CleanFrom(n) == \A u \in Units : n <= u => flash[UpdPart][u] = Clean
CleanBelow(n) == \A u \in Units : u < n => flash[UpdPart][u] = Clean

\* Which part of the update partition is clean, and what the rest holds.
FlashInv ==
    /\ pc \in {"listen", "header", "recv", "fail", "eraseReq"} => CleanFrom(written)
    /\ pc = "recv" => \A u \in Units : u < written => flash[UpdPart][u] = req.data
    /\ pc \in {"eraseReq", "eraseAll"} => CleanBelow(eraseAt * Blk)
    /\ pc = "eraseReq" => eraseTo = Blocks(written)
    /\ pc = "eraseAll" => eraseTo = Blocks(PartSize)

\* What is left of the last request.
RestInv ==
    /\ conn <=> pc \in {"header", "recv", "fail", "reply"}
    /\ pc \in {"check", "eraseAll", "listen"} => prio = "low"
    /\ pc \in {"check", "eraseAll", "listen", "header"} => written = 0
    /\ pc = "header" => prio = "high"

\* What the client's request has done and what the client knows.
ClientInv ==
    /\ done => req.data \in Images /\ Holds(boot, req.data)
    /\ ~done => Holds(boot, old)
    /\ answer = "+" => done
    /\ answer = "-" => ~done
    /\ pc \in {"header", "recv", "fail", "eraseReq"} => ~done
    /\ pc \in {"header", "recv", "fail", "reply"} => answer = "none"
    /\ pc \in {"reply", "restart"} => done

IInv == TypeOK /\ BootInv /\ FlashInv /\ RestInv /\ ClientInv


-----------------------------------------------------------------------------
(* Arithmetic of blocks.                                                   *)

LEMMA Division ==
    ASSUME NEW m \in Nat
    PROVE  /\ m \div Blk \in Nat /\ m % Blk \in 0 .. Blk - 1
           /\ m = Blk * (m \div Blk) + (m % Blk)
<1> QED
    OBVIOUS

LEMMA BlocksOf ==
    ASSUME NEW n \in Nat
    PROVE  /\ Blocks(n) \in 0 .. PartSize \div Blk
           /\ \A u \in Units : u < n => u < Blocks(n) * Blk
<1> DEFINE m == IF n > PartSize THEN PartSize ELSE n
           q == m \div Blk
           r == m % Blk
           P == PartSize \div Blk
<1>1. m \in Nat /\ m <= PartSize
    OBVIOUS
<1>2. q \in Nat /\ r \in 0 .. Blk - 1 /\ m = Blk * q + r
    BY <1>1, Division
<1>3. P \in Nat /\ PartSize = Blk * P
    BY Division
<1>4. Blocks(n) = q + IF r = 0 THEN 0 ELSE 1
    BY DEF Blocks
<1> HIDE DEF m, q, r, P
<1>5. Blocks(n) \in Nat /\ m <= Blocks(n) * Blk
    BY <1>1, <1>2, <1>4
<1>6. Blocks(n) <= P
    <2> SUFFICES ASSUME P < Blocks(n) PROVE FALSE
        BY <1>3, <1>5
    <2>1. CASE r = 0
        <3>1. P + 1 <= q
            BY <2>1, <1>2, <1>3, <1>4
        <3>2. Blk * (P + 1) <= Blk * q
            BY <3>1, <1>2, <1>3
        <3> QED
            BY <3>2, <2>1, <1>1, <1>2, <1>3
    <2>2. CASE r # 0
        <3>1. P <= q
            BY <2>2, <1>2, <1>3, <1>4
        <3>2. Blk * P <= Blk * q
            BY <3>1, <1>2, <1>3
        <3> QED
            BY <3>2, <2>2, <1>1, <1>2, <1>3
    <2> QED
        BY <2>1, <2>2
<1>7. ASSUME NEW u \in Units, u < n PROVE u < Blocks(n) * Blk
    BY <1>1, <1>5, <1>7 DEF Units, m
<1> QED
    BY <1>3, <1>5, <1>6, <1>7 DEF P

LEMMA NextBlock ==
    ASSUME NEW b \in Nat, NEW u \in Units, u < (b + 1) * Blk
    PROVE  u < b * Blk \/ u \in Block(b)
<1>1. (b + 1) * Blk = b * Blk + Blk /\ b * Blk \in Nat
    OBVIOUS
<1> QED
    BY <1>1 DEF Block, Units


-----------------------------------------------------------------------------
(* Every step keeps the invariant.                                         *)

LEMMA InitInv == ASSUME Init PROVE IInv
<1>1. TypeOK
    <2>1. \A im \in Images : With(im) \in [Units -> Contents]
        BY DEF With, Contents, Data
    <2>2. flash \in [Parts -> [Units -> Contents]]
        BY <2>1 DEF Init, Contents
    <2>3. req \in Requests
        BY DEF Init, Requests, Data
    <2>4. 0 \in 0 .. PartSize \div Blk
        BY Division
    <2>5. size \in 0 .. PartSize /\ written \in 0 .. PartSize + Buf
        BY DEF Init
    <2>6. eraseTo \in 0 .. PartSize \div Blk /\ eraseAt \in 0 .. eraseTo
        BY <2>4 DEF Init
    <2> QED
        BY <2>2, <2>3, <2>5, <2>6 DEF Init, TypeOK, Labels, Parts
<1>2. BootInv
    <2>1. Holds(0, old)
        BY DEF Init, With, Holds, Parts, Units
    <2> QED
        BY <2>1 DEF Init, BootInv, Intact
<1>3. FlashInv
    BY DEF Init, FlashInv
<1>4. RestInv
    BY DEF Init, RestInv
<1>5. ClientInv
    BY DEF Init, ClientInv, With, Holds, Parts, Units
<1> QED
    BY <1>1, <1>2, <1>3, <1>4, <1>5 DEF IInv

LEMMA TypeStep == ASSUME IInv, [Next]_vars PROVE TypeOK'
<1> USE DEF IInv, vars, device, server, client
<1>1. CASE Boot
    <2>1. running' \in Parts
        BY <1>1 DEF Boot, BootFrom, TypeOK, Parts
    <2> QED
        BY <1>1, <2>1 DEF Boot, TypeOK, Labels
<1>2. CASE PowerCut
    <2>1. flash' \in [Parts -> [Units -> Contents]]
        <3>1. UpdPart \in Parts /\ Junk \in Contents
            BY DEF TypeOK, UpdPart, Parts, Contents, Data, Requests
        <3> QED
            BY <1>2, <3>1 DEF PowerCut, TypeOK
    <2>2. written' \in 0 .. PartSize + Buf
        BY <1>2 DEF PowerCut, TypeOK
    <2> QED
        BY <1>2, <2>1, <2>2 DEF PowerCut, TypeOK, Labels
<1>3. CASE StartFails
    BY <1>3 DEF StartFails, TypeOK, Labels, Parts
<1>4. CASE CheckClean
    BY <1>4 DEF CheckClean, TypeOK, Labels, Parts
<1>5. CASE CheckDirty
    <2>1. Blocks(PartSize) \in 0 .. PartSize \div Blk
        BY BlocksOf
    <2> QED
        BY <1>5, <2>1 DEF CheckDirty, TypeOK, Labels
<1>6. CASE EraseAllDone
    BY <1>6 DEF EraseAllDone, TypeOK, Labels, Parts
<1>7. CASE Accept
    <2>1. ImageIn(boot) \in Images
        BY DEF BootInv, Intact, ImageIn
    <2> QED
        BY <1>7, <2>1 DEF Accept, TypeOK, Labels
<1>8. CASE HeaderRefused
    BY <1>8 DEF HeaderRefused, TypeOK, Labels, Parts
<1>9. CASE HeaderRead
    BY <1>9 DEF HeaderRead, TypeOK, Labels, Parts, Acceptable
<1>10. CASE RecvWrite
    <2>1. flash' \in [Parts -> [Units -> Contents]]
        <3>1. UpdPart \in Parts /\ Junk \in Contents /\ req.data \in Contents
            BY DEF TypeOK, UpdPart, Parts, Contents, Data, Requests
        <3> QED
            BY <1>10, <3>1 DEF RecvWrite, TypeOK, Programmed, Receives
    <2>2. written' \in 0 .. PartSize + Buf
        BY <1>10 DEF RecvWrite, TypeOK, Receives
    <2> QED
        BY <1>10, <2>1, <2>2 DEF RecvWrite, TypeOK, Labels, Receives
<1>11. CASE RecvWriteFails
    <2>1. flash' \in [Parts -> [Units -> Contents]]
        <3>1. UpdPart \in Parts /\ Junk \in Contents /\ req.data \in Contents
            BY DEF TypeOK, UpdPart, Parts, Contents, Data, Requests
        <3> QED
            BY <1>11, <3>1 DEF RecvWriteFails, TypeOK, Programmed, Receives
    <2>2. written' \in 0 .. PartSize + Buf
        BY <1>11 DEF RecvWriteFails, TypeOK, Receives, CountOfFailed
    <2> QED
        BY <1>11, <2>1, <2>2 DEF RecvWriteFails, TypeOK, Labels, Receives, CountOfFailed
<1>12. CASE RecvEnd
    BY <1>12 DEF RecvEnd, TypeOK, Labels, Parts, AfterEnd
<1>13. CASE SetBoot
    <2>1. boot' \in Parts
        BY <1>13 DEF SetBoot, TypeOK, Parts, UpdPart
    <2> QED
        BY <1>13, <2>1 DEF SetBoot, TypeOK, Labels
<1>14. CASE SetBootFails
    BY <1>14 DEF SetBootFails, TypeOK, Labels, Parts
<1>15. CASE ReplyOk
    BY <1>15 DEF ReplyOk, TypeOK, Labels, Parts, AfterReply
<1>16. CASE ReplyError
    <2>1. Blocks(written) \in 0 .. PartSize \div Blk
        BY BlocksOf DEF TypeOK
    <2>2. eraseTo' \in 0 .. PartSize \div Blk /\ eraseAt' \in 0 .. eraseTo'
        BY <1>16, <2>1 DEF ReplyError, TypeOK
    <2>3. pc' \in Labels /\ prio' \in {"low", "high"} /\ answer' \in {"none", "+", "-"}
        BY <1>16 DEF ReplyError, TypeOK, Labels
    <2> QED
        BY <1>16, <2>2, <2>3 DEF ReplyError, TypeOK
<1>17. CASE Restart
    BY <1>17 DEF Restart, TypeOK, Labels, Parts
<1>18. CASE EraseBlock
    <2>1. flash' \in [Parts -> [Units -> Contents]]
        BY <1>18 DEF EraseBlock, TypeOK, Contents, UpdPart, Parts
    <2>2. eraseAt' \in 0 .. eraseTo
        BY <1>18 DEF EraseBlock, TypeOK
    <2> QED
        BY <1>18, <2>1, <2>2 DEF EraseBlock, TypeOK
<1>19. CASE EraseFails
    BY <1>19 DEF EraseFails, TypeOK, Labels, Parts
<1>20. CASE EraseReqDone
    BY <1>20 DEF EraseReqDone, TypeOK, Labels, Parts
<1>21. CASE UNCHANGED vars
    BY <1>21 DEF TypeOK, Labels, Parts
<1> QED
    BY <1>1, <1>2, <1>3, <1>4, <1>5, <1>6, <1>7, <1>8, <1>9, <1>10, <1>11, <1>12,
       <1>13, <1>14, <1>15, <1>16, <1>17, <1>18, <1>19, <1>20, <1>21
       DEF Next, Start, Request, Erase

LEMMA BootStep == ASSUME IInv, [Next]_vars PROVE BootInv'
<1> USE DEF IInv, vars, device, server, client
<1>1. CASE Boot
    BY <1>1 DEF Boot, BootFrom, BootInv, TypeOK, Parts, Intact, Holds
<1>2. CASE PowerCut
    <2>1. boot' = boot /\ \A u \in Units : flash'[boot][u] = flash[boot][u]
        <3>1. CASE boot = running
            BY <1>2, <3>1 DEF PowerCut, TypeOK, UpdPart, Parts
        <3>2. CASE boot # running
            <4>1. InProgress = {}
                BY <3>2 DEF InProgress, BootInv
            <4> QED
                BY <1>2, <4>1 DEF PowerCut, TypeOK, UpdPart, Parts
        <3> QED
            BY <3>1, <3>2
    <2>2. Intact(boot)'
        BY <2>1 DEF BootInv, Intact, Holds, Units
    <2> QED
        BY <1>2, <2>2 DEF PowerCut, BootInv
<1>3. CASE StartFails
    BY <1>3 DEF StartFails, TypeOK, BootInv, UpdPart, Parts, Intact, Holds
<1>4. CASE CheckClean
    BY <1>4 DEF CheckClean, TypeOK, BootInv, UpdPart, Parts, Intact, Holds
<1>5. CASE CheckDirty
    BY <1>5 DEF CheckDirty, TypeOK, BootInv, UpdPart, Parts, Intact, Holds
<1>6. CASE EraseAllDone
    BY <1>6 DEF EraseAllDone, TypeOK, BootInv, UpdPart, Parts, Intact, Holds
<1>7. CASE Accept
    BY <1>7 DEF Accept, TypeOK, BootInv, UpdPart, Parts, Intact, Holds
<1>8. CASE HeaderRefused
    BY <1>8 DEF HeaderRefused, TypeOK, BootInv, UpdPart, Parts, Intact, Holds
<1>9. CASE HeaderRead
    BY <1>9 DEF HeaderRead, TypeOK, BootInv, UpdPart, Parts, Intact, Holds, Acceptable
<1>10. CASE RecvWrite
    BY <1>10 DEF RecvWrite, TypeOK, BootInv, UpdPart, Parts, Intact, Holds, Receives, Programmed
<1>11. CASE RecvWriteFails
    BY <1>11 DEF RecvWriteFails, TypeOK, BootInv, UpdPart, Parts, Intact, Holds, Receives,
                 Programmed, CountOfFailed
<1>12. CASE RecvEnd
    BY <1>12 DEF RecvEnd, TypeOK, BootInv, UpdPart, Parts, Intact, Holds, AfterEnd
<1>13. CASE SetBoot
    BY <1>13 DEF SetBoot, TypeOK, BootInv, UpdPart, Parts, Intact, Holds
<1>14. CASE SetBootFails
    BY <1>14 DEF SetBootFails, TypeOK, BootInv, UpdPart, Parts, Intact, Holds
<1>15. CASE ReplyOk
    BY <1>15 DEF ReplyOk, TypeOK, BootInv, UpdPart, Parts, Intact, Holds, AfterReply
<1>16. CASE ReplyError
    BY <1>16 DEF ReplyError, TypeOK, BootInv, UpdPart, Parts, Intact, Holds, Dirty
<1>17. CASE Restart
    BY <1>17 DEF Restart, TypeOK, BootInv, UpdPart, Parts, Intact, Holds
<1>18. CASE EraseBlock
    BY <1>18 DEF EraseBlock, TypeOK, BootInv, UpdPart, Parts, Intact, Holds
<1>19. CASE EraseFails
    BY <1>19 DEF EraseFails, TypeOK, BootInv, UpdPart, Parts, Intact, Holds
<1>20. CASE EraseReqDone
    BY <1>20 DEF EraseReqDone, TypeOK, BootInv, UpdPart, Parts, Intact, Holds
<1>21. CASE UNCHANGED vars
    BY <1>21 DEF TypeOK, BootInv, UpdPart, Parts, Intact, Holds
<1> QED
    BY <1>1, <1>2, <1>3, <1>4, <1>5, <1>6, <1>7, <1>8, <1>9, <1>10, <1>11, <1>12,
       <1>13, <1>14, <1>15, <1>16, <1>17, <1>18, <1>19, <1>20, <1>21
       DEF Next, Start, Request, Erase

LEMMA FlashStep == ASSUME IInv, [Next]_vars PROVE FlashInv'
<1> USE DEF IInv, vars, device, server, client
<1>1. CASE Boot
    BY <1>1 DEF Boot, TypeOK, FlashInv, RestInv, CleanFrom, CleanBelow, UpdPart, Parts, Units,
                PartClean
<1>2. CASE PowerCut
    BY <1>2 DEF PowerCut, TypeOK, FlashInv, RestInv, CleanFrom, CleanBelow, UpdPart, Parts,
                Units, PartClean
<1>3. CASE StartFails
    BY <1>3 DEF StartFails, TypeOK, FlashInv, RestInv, CleanFrom, CleanBelow, UpdPart, Parts,
                Units, PartClean
<1>4. CASE CheckClean
    BY <1>4 DEF CheckClean, TypeOK, FlashInv, RestInv, CleanFrom, CleanBelow, UpdPart, Parts,
                Units, PartClean
<1>5. CASE CheckDirty
    BY <1>5 DEF CheckDirty, TypeOK, FlashInv, RestInv, CleanFrom, CleanBelow, UpdPart, Parts,
                Units, PartClean
<1>6. CASE EraseAllDone
    <2>1. \A u \in Units : u < eraseAt * Blk
        BY <1>6, BlocksOf DEF EraseAllDone, FlashInv, Units
    <2>2. CleanFrom(0)
        BY <1>6, <2>1 DEF EraseAllDone, FlashInv, CleanFrom, CleanBelow
    <2> QED
        BY <1>6, <2>2 DEF EraseAllDone, FlashInv, RestInv, CleanFrom, UpdPart
<1>7. CASE Accept
    BY <1>7 DEF Accept, TypeOK, FlashInv, RestInv, CleanFrom, CleanBelow, UpdPart, Parts,
                Units, PartClean
<1>8. CASE HeaderRefused
    BY <1>8 DEF HeaderRefused, TypeOK, FlashInv, RestInv, CleanFrom, CleanBelow, UpdPart,
                Parts, Units, PartClean
<1>9. CASE HeaderRead
    BY <1>9 DEF HeaderRead, TypeOK, FlashInv, RestInv, CleanFrom, CleanBelow, UpdPart, Parts,
                Units, PartClean, Acceptable
<1>10. CASE RecvWrite
    BY <1>10 DEF RecvWrite, TypeOK, FlashInv, RestInv, CleanFrom, CleanBelow, UpdPart, Parts,
                 Units, PartClean, Receives, Programmed
<1>11. CASE RecvWriteFails
    BY <1>11 DEF RecvWriteFails, TypeOK, FlashInv, RestInv, CleanFrom, CleanBelow, UpdPart,
                 Parts, Units, PartClean, Receives, Programmed, CountOfFailed
<1>12. CASE RecvEnd
    BY <1>12 DEF RecvEnd, TypeOK, FlashInv, RestInv, CleanFrom, CleanBelow, UpdPart, Parts,
                 Units, PartClean, AfterEnd
<1>13. CASE SetBoot
    BY <1>13 DEF SetBoot, TypeOK, FlashInv, RestInv, CleanFrom, CleanBelow, UpdPart, Parts,
                 Units, PartClean
<1>14. CASE SetBootFails
    BY <1>14 DEF SetBootFails, TypeOK, FlashInv, RestInv, CleanFrom, CleanBelow, UpdPart,
                 Parts, Units, PartClean
<1>15. CASE ReplyOk
    BY <1>15 DEF ReplyOk, TypeOK, FlashInv, RestInv, CleanFrom, CleanBelow, UpdPart, Parts,
                 Units, PartClean, AfterReply
<1>16. CASE ReplyError
    BY <1>16 DEF ReplyError, TypeOK, FlashInv, RestInv, CleanFrom, CleanBelow, UpdPart, Parts,
                 Units, PartClean, Dirty
<1>17. CASE Restart
    BY <1>17 DEF Restart, TypeOK, FlashInv, RestInv, CleanFrom, CleanBelow, UpdPart, Parts,
                 Units, PartClean
<1>18. CASE EraseBlock
    <2>1. /\ UpdPart' = UpdPart
          /\ \A u \in Units : flash'[UpdPart][u] =
                IF u \in Block(eraseAt) THEN Clean ELSE flash[UpdPart][u]
        BY <1>18 DEF EraseBlock, TypeOK, UpdPart, Parts
    <2>2. CleanBelow(eraseAt * Blk)
        BY <1>18 DEF EraseBlock, FlashInv
    <2>3. \A u \in Units : u < (eraseAt + 1) * Blk => flash'[UpdPart][u] = Clean
        BY <2>1, <2>2, NextBlock DEF CleanBelow, TypeOK
    <2>4. pc = "eraseReq" => CleanFrom(written)'
        BY <1>18, <2>1 DEF EraseBlock, FlashInv, CleanFrom
    <2> QED
        BY <1>18, <2>1, <2>3, <2>4 DEF EraseBlock, FlashInv, CleanBelow
<1>19. CASE EraseFails
    BY <1>19 DEF EraseFails, TypeOK, FlashInv, RestInv, CleanFrom, CleanBelow, UpdPart, Parts,
                 Units, PartClean
<1>20. CASE EraseReqDone
    <2>1. \A u \in Units : u < written => u < eraseAt * Blk
        BY <1>20, BlocksOf DEF EraseReqDone, FlashInv, TypeOK
    <2>2. CleanFrom(0)
        BY <1>20, <2>1 DEF EraseReqDone, FlashInv, CleanFrom, CleanBelow, Units, TypeOK
    <2> QED
        BY <1>20, <2>2 DEF EraseReqDone, FlashInv, CleanFrom, UpdPart
<1>21. CASE UNCHANGED vars
    BY <1>21 DEF TypeOK, FlashInv, RestInv, CleanFrom, CleanBelow, UpdPart, Parts, Units, PartClean
<1> QED
    BY <1>1, <1>2, <1>3, <1>4, <1>5, <1>6, <1>7, <1>8, <1>9, <1>10, <1>11, <1>12,
       <1>13, <1>14, <1>15, <1>16, <1>17, <1>18, <1>19, <1>20, <1>21
       DEF Next, Start, Request, Erase

LEMMA RestStep == ASSUME IInv, [Next]_vars PROVE RestInv'
<1> USE DEF IInv, vars, device, server, client
<1>1. CASE Boot
    BY <1>1 DEF Boot, TypeOK, RestInv
<1>2. CASE PowerCut
    BY <1>2 DEF PowerCut, TypeOK, RestInv
<1>3. CASE StartFails
    BY <1>3 DEF StartFails, TypeOK, RestInv
<1>4. CASE CheckClean
    BY <1>4 DEF CheckClean, TypeOK, RestInv
<1>5. CASE CheckDirty
    BY <1>5 DEF CheckDirty, TypeOK, RestInv
<1>6. CASE EraseAllDone
    BY <1>6 DEF EraseAllDone, TypeOK, RestInv
<1>7. CASE Accept
    BY <1>7 DEF Accept, TypeOK, RestInv
<1>8. CASE HeaderRefused
    BY <1>8 DEF HeaderRefused, TypeOK, RestInv
<1>9. CASE HeaderRead
    BY <1>9 DEF HeaderRead, TypeOK, RestInv, Acceptable
<1>10. CASE RecvWrite
    BY <1>10 DEF RecvWrite, TypeOK, RestInv, Receives, Programmed
<1>11. CASE RecvWriteFails
    BY <1>11 DEF RecvWriteFails, TypeOK, RestInv, Receives, Programmed, CountOfFailed
<1>12. CASE RecvEnd
    BY <1>12 DEF RecvEnd, TypeOK, RestInv, AfterEnd
<1>13. CASE SetBoot
    BY <1>13 DEF SetBoot, TypeOK, RestInv
<1>14. CASE SetBootFails
    BY <1>14 DEF SetBootFails, TypeOK, RestInv
<1>15. CASE ReplyOk
    BY <1>15 DEF ReplyOk, TypeOK, RestInv, AfterReply
<1>16. CASE ReplyError
    BY <1>16 DEF ReplyError, TypeOK, RestInv, Dirty
<1>17. CASE Restart
    BY <1>17 DEF Restart, TypeOK, RestInv
<1>18. CASE EraseBlock
    BY <1>18 DEF EraseBlock, TypeOK, RestInv
<1>19. CASE EraseFails
    BY <1>19 DEF EraseFails, TypeOK, RestInv
<1>20. CASE EraseReqDone
    BY <1>20 DEF EraseReqDone, TypeOK, RestInv
<1>21. CASE UNCHANGED vars
    BY <1>21 DEF TypeOK, RestInv
<1> QED
    BY <1>1, <1>2, <1>3, <1>4, <1>5, <1>6, <1>7, <1>8, <1>9, <1>10, <1>11, <1>12,
       <1>13, <1>14, <1>15, <1>16, <1>17, <1>18, <1>19, <1>20, <1>21
       DEF Next, Start, Request, Erase

LEMMA ClientStep == ASSUME IInv, [Next]_vars PROVE ClientInv'
<1> USE DEF IInv, vars, device, server, client
<1>1. CASE Boot
    BY <1>1 DEF Boot, TypeOK, ClientInv, BootInv, Holds
<1>2. CASE PowerCut
    <2>1. \A u \in Units : flash'[boot][u] = flash[boot][u]
        <3>1. CASE boot = running
            BY <1>2, <3>1 DEF PowerCut, TypeOK, UpdPart, Parts
        <3>2. CASE boot # running
            <4>1. InProgress = {}
                BY <3>2 DEF InProgress, BootInv
            <4> QED
                BY <1>2, <4>1 DEF PowerCut, TypeOK, UpdPart, Parts
        <3> QED
            BY <3>1, <3>2
    <2>2. \A im \in Images : Holds(boot, im) => Holds(boot, im)'
        BY <1>2, <2>1 DEF PowerCut, Holds, Units
    <2> QED
        BY <1>2, <2>2 DEF PowerCut, ClientInv, TypeOK
<1>3. CASE StartFails
    BY <1>3 DEF StartFails, TypeOK, ClientInv, BootInv, Holds
<1>4. CASE CheckClean
    BY <1>4 DEF CheckClean, TypeOK, ClientInv, BootInv, Holds
<1>5. CASE CheckDirty
    BY <1>5 DEF CheckDirty, TypeOK, ClientInv, BootInv, Holds
<1>6. CASE EraseAllDone
    BY <1>6 DEF EraseAllDone, TypeOK, ClientInv, BootInv, Holds
<1>7. CASE Accept
    <2>1. ImageIn(boot) \in Images /\ Holds(boot, ImageIn(boot))
        BY DEF BootInv, Intact, ImageIn
    <2>2. Holds(boot, old)'
        BY <1>7, <2>1 DEF Accept, Holds
    <2> QED
        BY <1>7, <2>2 DEF Accept, ClientInv
<1>8. CASE HeaderRefused
    BY <1>8 DEF HeaderRefused, TypeOK, ClientInv, BootInv, Holds
<1>9. CASE HeaderRead
    BY <1>9 DEF HeaderRead, TypeOK, ClientInv, BootInv, Holds, Acceptable
<1>10. CASE RecvWrite
    <2>1. \A u \in Units : flash'[boot][u] = flash[boot][u]
        BY <1>10 DEF RecvWrite, BootInv, TypeOK, UpdPart, Parts, Programmed, Receives
    <2>2. \A im \in Images : Holds(boot, im) => Holds(boot, im)'
        BY <1>10, <2>1 DEF RecvWrite, Holds, Units
    <2> QED
        BY <1>10, <2>2 DEF RecvWrite, ClientInv, TypeOK
<1>11. CASE RecvWriteFails
    <2>1. \A u \in Units : flash'[boot][u] = flash[boot][u]
        BY <1>11 DEF RecvWriteFails, BootInv, TypeOK, UpdPart, Parts, Programmed, Receives
    <2>2. \A im \in Images : Holds(boot, im) => Holds(boot, im)'
        BY <1>11, <2>1 DEF RecvWriteFails, Holds, Units
    <2> QED
        BY <1>11, <2>2 DEF RecvWriteFails, Receives, ClientInv, TypeOK
<1>12. CASE RecvEnd
    BY <1>12 DEF RecvEnd, TypeOK, ClientInv, BootInv, Holds, AfterEnd
<1>13. CASE SetBoot
    <2>1. PICK im \in Images : Holds(UpdPart, im)
        BY <1>13 DEF SetBoot, Intact
    <2>2. 0 \in Units /\ 0 \in 0 .. ImgLen[im] - 1
        BY DEF Units
    <2>3. flash[UpdPart][0] = im
        BY <2>1, <2>2 DEF Holds
    \* Something was written, or the first unit would be clean.
    <2>4. written > 0
        BY <1>13, <2>2, <2>3 DEF SetBoot, FlashInv, CleanFrom, TypeOK
    <2>5. req.data = im
        BY <1>13, <2>2, <2>3, <2>4 DEF SetBoot, FlashInv
    <2>6. Holds(boot, req.data)'
        BY <1>13, <2>1, <2>5 DEF SetBoot, Holds, UpdPart
    <2> QED
        BY <1>13, <2>5, <2>6 DEF SetBoot, ClientInv
<1>14. CASE SetBootFails
    BY <1>14 DEF SetBootFails, TypeOK, ClientInv, BootInv, Holds
<1>15. CASE ReplyOk
    BY <1>15 DEF ReplyOk, TypeOK, ClientInv, BootInv, Holds, AfterReply
<1>16. CASE ReplyError
    BY <1>16 DEF ReplyError, TypeOK, ClientInv, BootInv, Holds, Dirty
<1>17. CASE Restart
    BY <1>17 DEF Restart, TypeOK, ClientInv, BootInv, Holds
<1>18. CASE EraseBlock
    <2>1. \A u \in Units : flash'[boot][u] = flash[boot][u]
        BY <1>18 DEF EraseBlock, BootInv, TypeOK, UpdPart, Parts
    <2>2. \A im \in Images : Holds(boot, im) => Holds(boot, im)'
        BY <1>18, <2>1 DEF EraseBlock, Holds, Units
    <2> QED
        BY <1>18, <2>2 DEF EraseBlock, ClientInv, TypeOK
<1>19. CASE EraseFails
    BY <1>19 DEF EraseFails, TypeOK, ClientInv, BootInv, Holds
<1>20. CASE EraseReqDone
    BY <1>20 DEF EraseReqDone, TypeOK, ClientInv, BootInv, Holds
<1>21. CASE UNCHANGED vars
    BY <1>21 DEF TypeOK, ClientInv, BootInv, Holds
<1> QED
    BY <1>1, <1>2, <1>3, <1>4, <1>5, <1>6, <1>7, <1>8, <1>9, <1>10, <1>11, <1>12,
       <1>13, <1>14, <1>15, <1>16, <1>17, <1>18, <1>19, <1>20, <1>21
       DEF Next, Start, Request, Erase

-----------------------------------------------------------------------------
(* Theorems.                                                               *)

LEMMA NextInv == ASSUME IInv, [Next]_vars PROVE IInv'
<1> QED
    BY TypeStep, BootStep, FlashStep, RestStep, ClientStep DEF IInv

THEOREM Invariance == Spec => []IInv
<1>1. Init => IInv
    BY InitInv
<1>2. IInv /\ [Next]_vars => IInv'
    BY NextInv
<1> QED
    BY <1>1, <1>2, PTL DEF Spec

\* The device can boot at any time, whatever is cut short or fails, and never
\* changes the image it runs (ota.c:104, 193-199, 315).
THEOREM Bootable == Spec => []AlwaysBootable
<1>1. IInv => AlwaysBootable
    BY DEF IInv, BootInv, AlwaysBootable
<1> QED
    BY <1>1, Invariance, PTL

\* A request finds an erased partition and nothing of the last request (ota.c:193-202).
THEOREM Ready == Spec => []ReadyToServe
<1>1. ASSUME IInv PROVE ReadyToServe
    <2>1. ASSUME pc \in {"listen", "header"} PROVE PartClean
        BY <1>1, <2>1 DEF IInv, FlashInv, RestInv, CleanFrom, PartClean, Units
    <2>2. ASSUME pc \in {"listen", "header"}
          PROVE  written = 0 /\ prio = (IF pc = "listen" THEN "low" ELSE "high")
        BY <1>1, <2>2 DEF IInv, RestInv
    <2>3. ASSUME pc \in {"listen", "header"} PROVE conn = (pc = "header")
        BY <1>1, <2>3 DEF IInv, RestInv, TypeOK
    <2> QED
        BY <2>1, <2>2, <2>3 DEF ReadyToServe
<1>2. IInv => ReadyToServe
    BY <1>1
<1> QED
    BY <1>2, Invariance, PTL

\* The status byte says what happened to the boot image (ota.c:152-191).
THEOREM Truthful == Spec => []AnswerTruthful
<1>1. IInv => AnswerTruthful
    BY DEF IInv, ClientInv, AnswerTruthful
<1> QED
    BY <1>1, Invariance, PTL

\* Sizes, counts and contents keep their types: header.size never exceeds the
\* partition (ota.c:219) and erase_upd_part() stays within it (ota.c:368).
THEOREM TypeCorrect == Spec => []TypeOK
<1>1. IInv => TypeOK
    BY DEF IInv
<1> QED
    BY <1>1, Invariance, PTL

\* The only steps that program a unit do so behind what is written, where the
\* partition is clean.
LEMMA ProgramStep ==
    ASSUME IInv, [Next]_vars, NEW p \in Parts, NEW u \in Units,
           flash'[p][u] \notin {flash[p][u], Clean}
    PROVE  flash[p][u] = Clean \/ pc' = "off"
<1> USE DEF IInv, vars, device, server, client
<1>1. ASSUME NEW n \in Nat, flash' = Programmed(written, n), pc = "recv" PROVE flash[p][u] = Clean
    <2>1. p = UpdPart /\ written <= u
        BY <1>1 DEF Programmed, TypeOK, UpdPart, Parts, Units
    <2>2. CleanFrom(written)
        BY <1>1 DEF FlashInv
    <2> QED
        BY <2>1, <2>2 DEF CleanFrom
<1>2. CASE RecvWrite \/ RecvWriteFails
    BY <1>1, <1>2 DEF RecvWrite, RecvWriteFails, Receives
<1>3. CASE EraseBlock
    BY <1>3 DEF EraseBlock, TypeOK, UpdPart, Parts
<1>4. CASE PowerCut
    BY <1>4 DEF PowerCut
<1>5. CASE \/ Boot \/ Start \/ Accept \/ EraseFails \/ EraseReqDone \/ UNCHANGED vars
           \/ HeaderRefused \/ HeaderRead \/ RecvEnd \/ SetBoot \/ SetBootFails
           \/ ReplyOk \/ ReplyError \/ Restart
    BY <1>5 DEF Boot, Start, StartFails, CheckClean, CheckDirty, EraseAllDone, Accept,
                EraseFails, EraseReqDone, HeaderRefused, HeaderRead, RecvEnd, SetBoot,
                SetBootFails, ReplyOk, ReplyError, Restart
<1> QED
    BY <1>2, <1>3, <1>4, <1>5 DEF Next, Request, Erase

\* A unit is programmed only after it was erased, in whatever order requests,
\* failures and power cuts come (ota.c:115-125, 193, 265-266, 371-373).
THEOREM Once == Spec => ProgrammedOnce
<1>1. IInv /\ [Next]_vars =>
        [\A p \in Parts, u \in Units :
            flash'[p][u] \notin {flash[p][u], Clean} =>
                flash[p][u] = Clean \/ pc' = "off"]_vars
    BY ProgramStep
<1> QED
    BY <1>1, Invariance, PTL DEF Spec, ProgrammedOnce

-----------------------------------------------------------------------------
(* Refinement.                                                             *)

LEMMA Installed == IInv => ImageIn(boot) = IF done THEN req.data ELSE old
<1> SUFFICES ASSUME IInv PROVE ImageIn(boot) = IF done THEN req.data ELSE old
    OBVIOUS
<1> DEFINE this == IF done THEN req.data ELSE old
<1>1. this \in Images /\ Holds(boot, this)
    BY DEF IInv, ClientInv, TypeOK
<1>2. 0 \in Units /\ \A im \in Images : 0 \in 0 .. ImgLen[im] - 1
    BY DEF Units
\* Two images in one partition would differ in their first unit.
<1>3. \A im \in Images : Holds(boot, im) => im = this
    BY <1>1, <1>2 DEF Holds
<1> QED
    BY <1>1, <1>3 DEF ImageIn, Intact

LEMMA InitRefines == ASSUME Init PROVE Atomic!Init
<1>1. IInv
    BY InitInv
<1>2. ImageIn(boot) = old
    BY <1>1, Installed DEF Init
<1>3. old \in Images /\ req.data \in Data
    BY DEF Init, Data
<1> QED
    BY <1>2, <1>3 DEF Init, Atomic!Init

LEMMA StepRefines ==
    ASSUME IInv, [Next]_vars,
           ImageIn(boot) = (IF done THEN req.data ELSE old),
           ImageIn(boot)' = (IF done' THEN req'.data ELSE old')
    PROVE  [Atomic!Next]_(Atomic!vars)
<1> USE DEF IInv, vars, device, server, client
<1>1. CASE Accept
    <2>1. req'.data \in Data
        BY <1>1 DEF Accept, Requests
    <2> QED
        BY <1>1, <2>1 DEF Accept, Atomic!Next, Atomic!Connect
<1>2. CASE SetBoot
    <2>1. req.data \in Images
        BY <1>2, ClientStep DEF SetBoot, ClientInv
    <2> QED
        BY <1>2, <2>1 DEF SetBoot, ClientInv, Atomic!Next, Atomic!Install
<1>3. CASE ReplyOk
    BY <1>3 DEF ReplyOk, ClientInv, Atomic!Next, Atomic!Answer, Atomic!vars
<1>4. CASE ReplyError
    BY <1>4 DEF ReplyError, ClientInv, Atomic!Next, Atomic!Answer, Atomic!vars
<1>5. ASSUME req' = req, done' = done, old' = old, answer' = answer
      PROVE  UNCHANGED Atomic!vars
    BY <1>5 DEF Atomic!vars
<1>6. CASE Boot \/ PowerCut \/ Start \/ Erase \/ UNCHANGED vars
    BY <1>5, <1>6 DEF Boot, PowerCut, Start, StartFails, CheckClean, CheckDirty, EraseAllDone,
                      Erase, EraseBlock, EraseFails, EraseReqDone
<1>7. CASE HeaderRefused \/ HeaderRead \/ RecvWrite \/ RecvWriteFails \/ RecvEnd
           \/ SetBootFails \/ Restart
    BY <1>5, <1>7 DEF HeaderRefused, HeaderRead, RecvWrite, RecvWriteFails, RecvEnd,
                      SetBootFails, Restart
<1> QED
    BY <1>1, <1>2, <1>3, <1>4, <1>6, <1>7 DEF Next, Request

\* The server replaces the boot image atomically and tells the truth about it.
THEOREM Refinement == Spec => ImplementsAtomicUpdate
<1>1. Init => Atomic!Init
    BY InitRefines
<1>2. (IInv => ImageIn(boot) = IF done THEN req.data ELSE old)'
    BY Installed, PTL
<1>3. IInv /\ IInv' /\ [Next]_vars => [Atomic!Next]_(Atomic!vars)
    BY <1>2, Installed, StepRefines
<1> QED
    BY <1>1, <1>3, Invariance, PTL DEF Spec, ImplementsAtomicUpdate, Atomic!Spec

=============================================================================
