---------------------------- MODULE MCStateStore ----------------------------
(* Instances of the persistent state catalog for TLC. *)
EXTENDS StateStore, TLC

CONSTANTS a, b, c, d, p

UnitSizes == [id \in Ids |-> 1]

\* Two of the large states never fit together; the small one fits beside one.
MixedSizes == [id \in Ids |-> IF id = d THEN 1 ELSE 2]

OneKindOfFault == {{"io", "kill"}, {"power"}, {"interrupt"}}
OfflineFaults == {{"kill", "interrupt"}}
KillAndPower == {{"kill", "power"}}

Symmetry == Permutations(Ids)
MixedSymmetry == Permutations(Ids \ {d})
=============================================================================
