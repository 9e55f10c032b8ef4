-------------------------- MODULE MCRemoteControl --------------------------
(* Small instances of RemoteControl. *)
EXTENDS RemoteControl, TLC

SessionSymmetry == Permutations(Sessions)
=============================================================================
