------------------------------ MODULE MCNetlog ------------------------------
(* Small instances of Netlog for TLC.                                       *)
EXTENDS Netlog, TLC

\* Receivers, sockets and printing tasks are interchangeable.
Symmetry == Permutations(Addrs) \cup Permutations(Handles) \cup Permutations(Loggers)
=============================================================================
