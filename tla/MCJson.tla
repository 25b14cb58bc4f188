------------------------------- MODULE MCJson -------------------------------
(* A small instance of Json: a text, then a shorter one in the same tokens.  *)
EXTENDS Json

CONSTANTS a, b

MCMaxText == <<9, 3>>
=============================================================================
