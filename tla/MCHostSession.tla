--------------------------- MODULE MCHostSession ---------------------------
(* A small instance of HostSession: request numbers are interchangeable.     *)
EXTENDS HostSession, TLC

Numbers == Permutations(Ids)
=============================================================================
