-------------------------- MODULE MCNetlogSession --------------------------
(* A small instance of NetlogSession: three sessions of the board and one    *)
(* other receiver.                                                           *)
EXTENDS NetlogSession

CONSTANTS me, other
=============================================================================
