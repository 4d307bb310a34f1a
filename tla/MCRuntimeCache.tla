--------------------------- MODULE MCRuntimeCache ---------------------------
(* Instances of the runtime registry for TLC. *)
EXTENDS RuntimeCache, TLC

SmallGenerations == 1..3

Bounded(n) == [capacity |-> n, evictIdle |-> TRUE, discards |-> "nothing", panics |-> FALSE]
Retained(n) == [Bounded(n) EXCEPT !.evictIdle = FALSE]

SoundPolicies == {Bounded(1), Bounded(2), Retained(1)}
FaultyPolicies == {[Bounded(1) EXCEPT !.panics = TRUE],
                   [Bounded(1) EXCEPT !.discards = "key"]}
DiscardingPolicies == {[Bounded(2) EXCEPT !.discards = "all"]}
PanickingPolicies == {[Bounded(1) EXCEPT !.panics = TRUE]}

Symmetry == Permutations(Keys) \cup Permutations(Threads)
=============================================================================
