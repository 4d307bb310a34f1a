-------------------------- MODULE MCRuntimeRouting --------------------------
(* Instances of the runtime router for TLC. *)
EXTENDS RuntimeRouting, TLC

Symmetry == Permutations(Models) \cup Permutations(StateIds) \cup Permutations(Workers)
            \cup Permutations(Adapters)
=============================================================================
