-------------------------- MODULE MCParameterStore --------------------------
(* A small instance of ParameterStore: a modulus of 4 lets the generations   *)
(* wrap, three words let a save be cut inside the header and the payload.    *)
EXTENDS ParameterStore, TLC

\* The profiles that may be saved are interchangeable.
ProfileSymmetry == Permutations(Valid)
=============================================================================
