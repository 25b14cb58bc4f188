-------------------------------- MODULE Ota ---------------------------------
(***************************************************************************)
(* The OTA server task, src/lib/ota.c, with the flash it writes and the    *)
(* boot loader that reads it.                                              *)
(*                                                                         *)
(* Flash is counted in units, Blk of them to a block (FIRMWARE_BLK_SIZE).  *)
(* A unit is Clean (0xff), holds what an image or Noise has at that place, *)
(* or is Junk: programmed twice or caught by a power cut.  The device may  *)
(* lose power between any two steps.                                       *)
(*                                                                         *)
(* The MD5 check is compiled out: ota.c tests CONF_OTA_VERIFY_MD5, the     *)
(* configuration defines CONF_LIB_OTA_VERIFY_MD5; a request carries none.  *)
(***************************************************************************)
EXTENDS Integers

CONSTANTS
    Images,     \* firmware images
    Noise,      \* data that is no image
    Clean, Junk,
    ImgLen,     \* the length of each image
    PartSize,   \* upd_part->size
    Blk,        \* FIRMWARE_BLK_SIZE
    Buf,        \* FIRMWARE_BUF_SIZE
    MaxSize     \* bound on the size in a header and on the data sent

ASSUME ContentsAssumption ==
    /\ {Noise, Clean, Junk} \cap Images = {}
    /\ Noise # Clean /\ Noise # Junk /\ Clean # Junk
ASSUME SizesAssumption ==
    /\ PartSize \in Nat \ {0} /\ Blk \in Nat \ {0} /\ Buf \in Nat \ {0}
    /\ MaxSize \in Nat
\* PK_ASSERT(upd_part->size % FIRMWARE_BLK_SIZE == 0)
ASSUME BlockAssumption == PartSize % Blk = 0
ASSUME ImgLenAssumption == ImgLen \in [Images -> 1 .. PartSize]

Parts == {0, 1}     \* app0, app1
Units == 0 .. PartSize - 1
Data == Images \cup {Noise}
Contents == Data \cup {Clean, Junk}
Labels == {"off", "check", "eraseAll", "listen", "header", "recv", "fail",
           "eraseReq", "reply", "restart", "dead"}

VARIABLES
    flash,      \* the contents of the two partitions
    boot,       \* the partition otadata names
    running,    \* esp_ota_get_running_partition()
    pc,
    prio,       \* the priority of the server's task
    conn,       \* chd is open
    size,       \* header.size
    written,    \* part_bytes_written
    eraseAt,    \* esp_partition_erase_range(): the next block ...
    eraseTo,    \* ... and the number of blocks
    req,        \* the client: what it sends and how much of it
    old,        \* the image installed when the client connected
    done,       \* set_boot_partition() has succeeded for this client
    answer      \* the status byte the client got, or "none"

device == <<flash, boot, running>>
server == <<pc, prio, conn, size, written, eraseAt, eraseTo>>
client == <<req, old, done, answer>>
vars == <<device, server, client>>

UpdPart == 1 - running
Holds(p, im) == \A u \in 0 .. ImgLen[im] - 1 : flash[p][u] = im
Intact(p) == \E im \in Images : Holds(p, im)
ImageIn(p) == IF Intact(p) THEN CHOOSE im \in Images : Holds(p, im) ELSE Noise

Requests == [data : Data, len : 0 .. MaxSize]

TypeOK ==
    /\ flash \in [Parts -> [Units -> Contents]]
    /\ boot \in Parts /\ running \in Parts
    /\ pc \in Labels
    /\ prio \in {"low", "high"}
    /\ conn \in BOOLEAN
    /\ size \in 0 .. PartSize
    /\ written \in 0 .. PartSize + Buf
    /\ eraseTo \in 0 .. PartSize \div Blk /\ eraseAt \in 0 .. eraseTo
    /\ req \in Requests
    /\ old \in Images
    /\ done \in BOOLEAN
    /\ answer \in {"none", "+", "-"}

\* A board as it was flashed over the wire: app0 runs, app1 is anything.
With(im) == [u \in Units |-> IF u < ImgLen[im] THEN im ELSE Clean]

Init ==
    /\ old \in Images
    /\ \E other \in {[u \in Units |-> Clean]} \cup {With(im) : im \in Images} :
          flash = [p \in Parts |-> IF p = 0 THEN With(old) ELSE other]
    /\ boot = 0 /\ running = 0
    /\ pc = "off" /\ prio = "low" /\ conn = FALSE
    /\ size = 0 /\ written = 0 /\ eraseAt = 0 /\ eraseTo = 0
    /\ req = [data |-> Noise, len |-> 0]
    /\ done = FALSE /\ answer = "none"

-----------------------------------------------------------------------------
(* The device: power, boot loader, flash.                                  *)

Block(b) == b * Blk .. b * Blk + Blk - 1

\* The boot loader runs the partition otadata names, or the other one.
BootFrom == IF Intact(boot) THEN boot ELSE 1 - boot

Boot ==
    /\ pc = "off"
    /\ running' = BootFrom
    /\ pc' = "check" /\ prio' = "low"
    /\ size' = 0 /\ written' = 0
    /\ UNCHANGED <<flash, boot, conn, eraseAt, eraseTo, client>>

\* What the flash is being changed at: a block under erase, a unit under write.
InProgress ==
    IF pc \in {"eraseAll", "eraseReq"} /\ eraseAt < eraseTo THEN Block(eraseAt)
    ELSE IF pc = "recv" /\ written < size THEN {written}
    ELSE {}

\* Power is lost, between two changes of the flash or in the middle of one.
PowerCut ==
    /\ pc' = "off" /\ conn' = FALSE
    /\ \E torn \in {{}, InProgress} :
          flash' = [flash EXCEPT ![UpdPart] =
                [u \in Units |-> IF u \in torn THEN Junk ELSE @[u]]]
    /\ UNCHANGED <<boot, running, prio, size, written, eraseAt, eraseTo, client>>

\* esp_partition_write_raw(): n units of the client's data from the place `at`.
Programmed(at, n) ==
    [flash EXCEPT ![UpdPart] =
        [u \in Units |-> IF u \in at .. at + n - 1
                         THEN IF @[u] = Clean THEN req.data ELSE Junk
                         ELSE @[u]]]

\* erase_upd_part() has got to erase so many blocks; one step erases one.
EraseBlock ==
    /\ pc \in {"eraseAll", "eraseReq"} /\ eraseAt < eraseTo
    /\ flash' = [flash EXCEPT ![UpdPart] =
          [u \in Units |-> IF u \in Block(eraseAt) THEN Clean ELSE @[u]]]
    /\ eraseAt' = eraseAt + 1
    /\ UNCHANGED <<boot, running, pc, prio, conn, size, written, eraseTo, client>>

\* esp_partition_erase_range() fails: the server shuts down for good.
EraseFails ==
    /\ pc \in {"eraseAll", "eraseReq"} /\ eraseAt < eraseTo
    /\ pc' = "dead"
    /\ UNCHANGED <<device, prio, conn, size, written, eraseAt, eraseTo, client>>

\* Mutant: the last block is rounded away.
BlocksDown(n) == n \div Blk

\* erase_upd_part(): the blocks of the first n units, the whole partition at most.
Blocks(n) ==
    LET m == IF n > PartSize THEN PartSize ELSE n
    IN  m \div Blk + IF m % Blk = 0 THEN 0 ELSE 1

-----------------------------------------------------------------------------
(* server_task() up to its loop.                                           *)

\* Mutant: only the first block is looked at.
PartCleanFirst == \A u \in Block(0) : flash[UpdPart][u] = Clean
PartClean == \A u \in Units : flash[UpdPart][u] = Clean

\* check_upd_part() has no memory or cannot read, or there is no listening socket.
StartFails ==
    /\ pc = "check"
    /\ pc' = "dead"
    /\ UNCHANGED <<device, prio, conn, size, written, eraseAt, eraseTo, client>>

CheckClean ==
    /\ pc = "check" /\ PartClean
    /\ pc' = "listen"
    /\ UNCHANGED <<device, prio, conn, size, written, eraseAt, eraseTo, client>>

CheckDirty ==
    /\ pc = "check" /\ ~PartClean
    /\ pc' = "eraseAll"
    /\ eraseAt' = 0 /\ eraseTo' = Blocks(PartSize)
    /\ UNCHANGED <<device, prio, conn, size, written, client>>

\* The whole partition is erased; pk_tcp_server() may fail.
EraseAllDone ==
    /\ pc = "eraseAll" /\ eraseAt = eraseTo
    /\ pc' \in {"listen", "dead"}
    /\ UNCHANGED <<device, prio, conn, size, written, eraseAt, eraseTo, client>>

-----------------------------------------------------------------------------
(* One request.  A failed accept() is tried again and changes nothing.      *)

Accept ==
    /\ pc = "listen"
    /\ pc' = "header" /\ prio' = "high" /\ conn' = TRUE
    /\ req' \in Requests
    /\ old' = ImageIn(boot) /\ done' = FALSE /\ answer' = "none"
    /\ UNCHANGED <<device, size, written, eraseAt, eraseTo>>

\* A short or wrong header, a size above that of the partition, or no memory.
\* pk_tcp_recvn() garbles a field that comes in two pieces: any size may be read.
HeaderRefused ==
    /\ pc = "header"
    /\ pc' = "fail"
    /\ UNCHANGED <<device, prio, conn, size, written, eraseAt, eraseTo, client>>

\* Mutant: no check of the size.
AcceptableAny(n) == TRUE
Acceptable(n) == n <= PartSize

HeaderRead ==
    /\ pc = "header"
    /\ size' \in {n \in 0 .. MaxSize : Acceptable(n)}
    /\ written' = 0
    /\ pc' = "recv"
    /\ UNCHANGED <<device, prio, conn, eraseAt, eraseTo, client>>

\* pk_tcp_recv() returns k units; the last ones may go beyond header.size.
Receives(k) == pc = "recv" /\ written < size /\ k <= req.len - written

RecvWrite ==
    \E k \in 1 .. Buf :
        /\ Receives(k)
        /\ written + k <= PartSize
        /\ written' = written + k
        /\ flash' = Programmed(written, k)
        /\ UNCHANGED <<boot, running, pc, prio, conn, size, eraseAt, eraseTo, client>>

\* Mutant: the units of a failed write are not counted.
CountOfFailedNone(k) == written
CountOfFailed(k) == written + k

\* The write fails part of the way, or is refused since it would leave the
\* partition.  The units count as written all the same.
RecvWriteFails ==
    \E k \in 1 .. Buf :
        /\ Receives(k)
        /\ written' = CountOfFailed(k)
        /\ \E n \in IF written + k <= PartSize THEN 0 .. k ELSE {0} :
              flash' = Programmed(written, n)
        /\ pc' = "fail"
        /\ UNCHANGED <<boot, running, prio, conn, size, eraseAt, eraseTo, client>>

\* Mutant: an empty read is tried again.
AfterEndRetry == "recv"
AfterEnd == "fail"

\* The client has closed or reset the connection.
RecvEnd ==
    /\ pc = "recv" /\ written < size
    /\ pc' = AfterEnd
    /\ UNCHANGED <<device, prio, conn, size, written, eraseAt, eraseTo, client>>

\* esp_ota_set_boot_partition() checks the image and writes otadata.
SetBoot ==
    /\ pc = "recv" /\ written >= size
    /\ Intact(UpdPart)
    /\ boot' = UpdPart
    /\ done' = TRUE
    /\ pc' = "reply"
    /\ UNCHANGED <<flash, running, prio, conn, size, written, eraseAt, eraseTo, req, old, answer>>

SetBootFails ==
    /\ pc = "recv" /\ written >= size
    /\ pc' = "fail"
    /\ UNCHANGED <<device, prio, conn, size, written, eraseAt, eraseTo, client>>

\* Mutant: the error path also after a success.
AfterReplyFail == "fail"
AfterReply == "restart"

\* The result of sending is not looked at; the answer may be lost.
ReplyOk ==
    /\ pc = "reply"
    /\ answer' \in {"+", "none"}
    /\ conn' = FALSE
    /\ pc' = AfterReply
    /\ UNCHANGED <<device, prio, size, written, eraseAt, eraseTo, req, old, done>>

Restart ==
    /\ pc = "restart"
    /\ pc' = "off"
    /\ UNCHANGED <<device, prio, conn, size, written, eraseAt, eraseTo, client>>

\* Mutant: nothing is erased when nothing was complete.
DirtyFull == written >= size
Dirty == written # 0

ReplyError ==
    /\ pc = "fail"
    /\ answer' \in {"-", answer}
    /\ conn' = FALSE
    /\ IF Dirty
       THEN /\ pc' = "eraseReq" /\ eraseAt' = 0 /\ eraseTo' = Blocks(written)
            /\ UNCHANGED prio
       ELSE /\ pc' = "listen" /\ prio' = "low"
            /\ UNCHANGED <<eraseAt, eraseTo>>
    /\ UNCHANGED <<device, size, written, req, old, done>>

EraseReqDone ==
    /\ pc = "eraseReq" /\ eraseAt = eraseTo
    /\ written' = 0
    /\ pc' = "listen" /\ prio' = "low"
    /\ UNCHANGED <<device, conn, size, eraseAt, eraseTo, client>>

-----------------------------------------------------------------------------
Start == StartFails \/ CheckClean \/ CheckDirty \/ EraseAllDone
Erase == EraseBlock \/ EraseFails \/ EraseReqDone
Request ==
    \/ HeaderRefused \/ HeaderRead
    \/ RecvWrite \/ RecvWriteFails \/ RecvEnd
    \/ SetBoot \/ SetBootFails
    \/ ReplyOk \/ ReplyError \/ Restart

Next == Boot \/ PowerCut \/ Start \/ Accept \/ Request \/ Erase

Spec == Init /\ [][Next]_vars

\* The board boots when it has power and its task runs; a client that has
\* connected goes on sending or closes.  Nobody has to connect.
Fairness == WF_vars(Boot) /\ WF_vars(Start \/ Request \/ Erase)

FairSpec == Spec /\ Fairness

-----------------------------------------------------------------------------
(* Safety.                                                                 *)

\* Whatever happens and whenever power is lost, otadata names a partition with a
\* whole image, and the running image is never touched (ota.c:104, 193-199, 315).
AlwaysBootable == Intact(boot) /\ (pc # "off" => Intact(running))

\* Between two requests the update partition is erased and nothing of the last
\* request is left: count, priority, connection (ota.c:193-202).
ReadyToServe ==
    pc \in {"listen", "header"} =>
        /\ PartClean
        /\ written = 0
        /\ prio = IF pc = "listen" THEN "low" ELSE "high"
        /\ conn = (pc = "header")

\* "+" means that the client's image is the one that boots, "-" that the one from
\* before still does (ota.c:152-191).
AnswerTruthful ==
    /\ answer = "+" => req.data \in Images /\ Holds(boot, req.data)
    /\ answer = "-" => Holds(boot, old)

\* No unit is programmed twice without an erase, in the worst order of power cuts
\* and failed writes (ota.c:115-125, 193, 265-266, 371-373).
ProgrammedOnce ==
    [][\A p \in Parts, u \in Units :
          flash'[p][u] \notin {flash[p][u], Clean} =>
              flash[p][u] = Clean \/ pc' = "off"]_vars

\* A request replaces the image as a whole or not at all.
Atomic == INSTANCE AtomicUpdate WITH installed <- ImageIn(boot), want <- req.data
ImplementsAtomicUpdate == Atomic!Spec

-----------------------------------------------------------------------------
(* Liveness.                                                               *)

\* A new image gets to run, with or without the restart of ota.c:161.
UpdateTakesEffect == boot # running ~> boot = running

\* A request ends: the server listens again, or the board restarts, or the server
\* has shut down after a failed erase.
RequestEnds == pc = "header" ~> pc \in {"listen", "off", "dead"}

=============================================================================
