-------------------------- MODULE MCRuntimeControl --------------------------
(* Instances of the runtime control plane for TLC. *)
EXTENDS RuntimeControl, TLC

Symmetry == Permutations(StateIds) \cup Permutations(Tokens) \cup Permutations(Objects)
=============================================================================
