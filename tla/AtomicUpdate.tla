---------------------------- MODULE AtomicUpdate ----------------------------
(***************************************************************************)
(* What the OTA server promises: the device always has one whole image to  *)
(* boot, a request replaces it by the image the client sent or leaves it    *)
(* alone, and an answer tells the client which of the two happened.         *)
(***************************************************************************)
CONSTANTS
    Images,     \* firmware images
    Data        \* what a client may send, Images among it

VARIABLES
    installed,  \* the image that the next boot runs
    want,       \* what the last client sent
    done,       \* the last request has replaced the image
    answer      \* what the last client was told: "none", "+" or "-"

vars == <<installed, want, done, answer>>

Init ==
    /\ installed \in Images
    /\ want \in Data
    /\ done = FALSE
    /\ answer = "none"

\* A client connects.
Connect ==
    /\ want' \in Data
    /\ done' = FALSE
    /\ answer' = "none"
    /\ UNCHANGED installed

\* The client's image replaces the installed one.
Install ==
    /\ ~done /\ answer = "none"
    /\ want \in Images
    /\ installed' = want
    /\ done' = TRUE
    /\ UNCHANGED <<want, answer>>

\* The client is told.  It may also never be, when the device loses power.
Answer ==
    /\ answer = "none"
    /\ answer' = IF done THEN "+" ELSE "-"
    /\ UNCHANGED <<installed, want, done>>

Next == Connect \/ Install \/ Answer

Spec == Init /\ [][Next]_vars
=============================================================================
