-------------------------- MODULE MemoryManagerProofs --------------------------
(***************************************************************************)
(* The safety invariants of the memory manager, for every set of           *)
(* allocations, sizes, budgets, telemetry and limits.                      *)
(*                                                                         *)
(* The accounts are sums over the allocations, the loads and the claims,   *)
(* and a plan is built by folds over the order of use.  What is needed of  *)
(* these folds comes from FoldLaws, once for each folded operator.         *)
(*                                                                         *)
(*   IInv   a claim fits the allocation it was made for                    *)
(*   TInv   types, and demotions only towards the host                     *)
(*   AInv   the accounts are what they stand for                           *)
(*   GInv   what is granted, as a comparison of bytes with the thresholds  *)
(*   PInv   what a plan and its claims still free is what the load lacks   *)
(***************************************************************************)
EXTENDS MemoryManager, FiniteSetTheorems, TLAPS

USE NamesAssumption

-----------------------------------------------------------------------------
(* Claims *)

Objects ==
  /\ alloc \in [Ids -> Allocation \cup {NoAllocation}]
  /\ loads \in [Ids -> Allocation \cup {NoAllocation}]
  /\ claim = [i \in Ids |-> claim[i]]

\* An allocation is not loaded a second time, so no commit of a load replaces one.
NeverBoth == \A i \in Ids : alloc[i] = NoAllocation \/ loads[i] = NoAllocation

IInv == Objects /\ NeverBoth /\ ClaimsStayValid

LEMMA InitIInv == Init => IInv
BY DEF Init, IInv, Objects, NeverBoth, ClaimsStayValid, Claimed

\* Steps that leave the allocations, the loads and the claims alone.
LEMMA SameObjects == IInv /\ UNCHANGED <<alloc, loads, claim>> => IInv'
BY DEF IInv, Objects, NeverBoth, ClaimsStayValid, Claimed, Fresh

LEMMA ReserveLoadIInv ==
  ASSUME IInv, NEW i \in Ids, NEW a \in Allocation, NEW av \in Samples, ReserveLoad(i, a, av)
  PROVE  IInv'
<1>1. /\ loads' = [loads EXCEPT ![i] = a] /\ UNCHANGED <<alloc, claim>>
      /\ alloc[i] = NoAllocation
  BY DEF ReserveLoad
<1>2. Objects' /\ NeverBoth'
  BY <1>1 DEF IInv, Objects, NeverBoth
<1>3. ClaimsStayValid'
  BY <1>1 DEF IInv, ClaimsStayValid, Claimed, Fresh
<1> QED BY <1>2, <1>3 DEF IInv

\* A load under way has no allocation yet, so nobody can have claimed it.
LEMMA CommitLoadIInv ==
  ASSUME IInv, NEW i \in Ids, CommitLoad(i)
  PROVE  IInv'
<1>1. /\ loads[i] \in Allocation /\ claim' = claim
      /\ alloc' = [alloc EXCEPT ![i] = loads[i]]
      /\ loads' = [loads EXCEPT ![i] = NoAllocation]
  BY DEF CommitLoad, IInv, Objects
<1>2. Objects' /\ NeverBoth'
  BY <1>1 DEF IInv, Objects, NeverBoth
<1>3. alloc[i] = NoAllocation
  BY <1>1 DEF IInv, NeverBoth
<1>4. i \notin Claimed
  BY <1>3 DEF IInv, ClaimsStayValid, Fresh
<1>5. ClaimsStayValid'
  <2> SUFFICES ASSUME NEW j \in Claimed PROVE Fresh(j)' /\ ~alloc'[j].pinned /\ claim'[j].id = j
    BY <1>1 DEF ClaimsStayValid, Claimed
  <2>1. j # i /\ j \in Ids
    BY <1>4 DEF Claimed
  <2>2. alloc'[j] = alloc[j]
    BY <1>1, <2>1 DEF IInv, Objects
  <2> QED BY <1>1, <2>2 DEF IInv, ClaimsStayValid, Fresh
<1> QED BY <1>2, <1>5 DEF IInv

LEMMA DropLoadIInv ==
  ASSUME IInv, NEW i \in Ids, DropLoad(i)
  PROVE  IInv'
<1>1. loads' = [loads EXCEPT ![i] = NoAllocation] /\ UNCHANGED <<alloc, claim>>
  BY DEF DropLoad
<1> QED BY <1>1 DEF IInv, Objects, NeverBoth, ClaimsStayValid, Claimed, Fresh

\* An allocation without a claim may change: no claim of another one does.
LEMMA UnclaimedChange ==
  ASSUME IInv, NEW i \in Ids, Unclaimed(i), UNCHANGED <<loads, claim>>,
         NEW a \in Allocation \cup {NoAllocation}, alloc' = [alloc EXCEPT ![i] = a]
  PROVE  IInv'
<1>1. Objects'
  BY DEF IInv, Objects
<1>2. loads[i] = NoAllocation
  BY DEF Unclaimed, IInv, NeverBoth
<1>3. NeverBoth'
  BY <1>2 DEF IInv, Objects, NeverBoth
<1>4. ClaimsStayValid'
  <2> SUFFICES ASSUME NEW j \in Claimed PROVE Fresh(j)' /\ ~alloc'[j].pinned /\ claim'[j].id = j
    BY DEF ClaimsStayValid, Claimed
  <2>1. j # i /\ j \in Ids
    BY DEF Claimed, Unclaimed
  <2>2. alloc'[j] = alloc[j]
    BY <2>1 DEF IInv, Objects
  <2> QED BY <2>2 DEF IInv, ClaimsStayValid, Fresh
<1> QED BY <1>1, <1>3, <1>4 DEF IInv

LEMMA SetPinnedIInv ==
  ASSUME IInv, NEW i \in Ids, NEW pinned \in BOOLEAN, SetPinned(i, pinned)
  PROVE  IInv'
<1>1. /\ Unclaimed(i) /\ UNCHANGED <<loads, claim>>
      /\ alloc' = [alloc EXCEPT ![i].pinned = pinned]
  BY DEF SetPinned
<1>2. alloc[i] \in Allocation
  BY <1>1 DEF Unclaimed, IInv, Objects
<1>3. [alloc[i] EXCEPT !.pinned = pinned] \in Allocation
  BY <1>2 DEF Allocation
<1>4. alloc' = [alloc EXCEPT ![i] = [alloc[i] EXCEPT !.pinned = pinned]]
  BY <1>1
<1> QED BY <1>1, <1>3, <1>4, UnclaimedChange

LEMMA RemoveAllocationIInv ==
  ASSUME IInv, NEW i \in Ids, RemoveAllocation(i)
  PROVE  IInv'
<1>1. /\ Unclaimed(i) /\ UNCHANGED <<loads, claim>>
      /\ alloc' = [alloc EXCEPT ![i] = NoAllocation]
  BY DEF RemoveAllocation
<1> QED BY <1>1, UnclaimedChange

\* A claim begins with what was just compared.
LEMMA BeginPressureActionIInv ==
  ASSUME IInv, BeginPressureAction
  PROVE  IInv'
<1> DEFINE a == Head(plan)
<1>1. /\ Unclaimed(a.id) /\ ~alloc[a.id].pinned
      /\ alloc[a.id].tier = a.from /\ alloc[a.id].bytes = a.bytes
      /\ a.to # NoTier => alloc[a.id].target = a.to
      /\ claim' = [claim EXCEPT ![a.id] = a] /\ UNCHANGED <<alloc, loads>>
  BY DEF BeginPressureAction
<1>2. PICK b : b = a
  OBVIOUS
<1>3. claim' = [claim EXCEPT ![b.id] = b]
  BY <1>1, <1>2
<1>4. Objects' /\ NeverBoth'
  BY <1>1, <1>3 DEF IInv, Objects, NeverBoth
<1>5. ASSUME NEW j \in Ids, claim'[j] # NoAction
      PROVE  Fresh(j)' /\ ~alloc'[j].pinned /\ claim'[j].id = j
  <2>1. CASE j = b.id
    <3>1. claim'[j] = b
      BY <1>3, <2>1 DEF IInv, Objects
    <3> QED BY <1>1, <1>2, <2>1, <3>1 DEF Unclaimed, Fresh
  <2>2. CASE j # b.id
    <3>1. claim'[j] = claim[j]
      BY <1>3, <2>2 DEF IInv, Objects
    <3> QED BY <1>1, <1>5, <3>1 DEF IInv, ClaimsStayValid, Claimed, Fresh
  <2> QED BY <2>1, <2>2
<1>6. ClaimsStayValid'
  BY <1>5 DEF ClaimsStayValid, Claimed
<1> QED BY <1>4, <1>6 DEF IInv

LEMMA CommitActionIInv ==
  ASSUME IInv, NEW i \in Ids, CommitAction(i)
  PROVE  IInv'
<1>1. /\ claim[i] # NoAction /\ Fresh(i) /\ loads' = loads
      /\ claim' = [claim EXCEPT ![i] = NoAction]
  BY DEF CommitAction, Unclaim
<1>2. alloc' = [alloc EXCEPT ![i] = IF claim[i].to = NoTier THEN NoAllocation
                      ELSE [alloc[i] EXCEPT !.tier = claim[i].to, !.target = NoTier]]
  BY DEF CommitAction
<1>3. alloc[i] \in Allocation
  BY <1>1 DEF Fresh, IInv, Objects
<1>4. claim[i].to = NoTier \/ claim[i].to = "host"
  BY <1>1, <1>3 DEF Fresh, Allocation
<1>5. PICK a \in Allocation \cup {NoAllocation} : alloc' = [alloc EXCEPT ![i] = a]
  BY <1>2, <1>3, <1>4 DEF Allocation, Tiers
<1>6. Objects'
  BY <1>1, <1>5 DEF IInv, Objects
<1>7. loads[i] = NoAllocation
  BY <1>1 DEF Fresh, IInv, NeverBoth
<1>8. NeverBoth'
  BY <1>1, <1>5, <1>7 DEF IInv, Objects, NeverBoth
<1>9. ASSUME NEW j \in Ids, claim'[j] # NoAction
      PROVE  Fresh(j)' /\ ~alloc'[j].pinned /\ claim'[j].id = j
  <2>1. j # i /\ claim'[j] = claim[j]
    BY <1>1, <1>9 DEF IInv, Objects
  <2>2. alloc'[j] = alloc[j]
    BY <1>5, <2>1 DEF IInv, Objects
  <2> QED BY <1>9, <2>1, <2>2 DEF IInv, ClaimsStayValid, Claimed, Fresh
<1>10. ClaimsStayValid'
  BY <1>9 DEF ClaimsStayValid, Claimed
<1> QED BY <1>6, <1>8, <1>10 DEF IInv

LEMMA DropActionIInv ==
  ASSUME IInv, NEW i \in Ids, DropAction(i)
  PROVE  IInv'
<1>1. claim' = [claim EXCEPT ![i] = NoAction] /\ UNCHANGED <<alloc, loads>>
  BY DEF DropAction, Unclaim
<1> QED BY <1>1 DEF IInv, Objects, NeverBoth, ClaimsStayValid, Claimed, Fresh

LEMMA NextIInv == IInv /\ [Next]_vars => IInv'
<1> SUFFICES ASSUME IInv, [Next]_vars PROVE IInv'
  OBVIOUS
<1>1. ASSUME NEW i \in Ids, LoadStep(i) PROVE IInv'
  BY <1>1, ReserveLoadIInv, CommitLoadIInv, DropLoadIInv DEF LoadStep
<1>2. ASSUME NEW i \in Ids, AllocationStep(i) PROVE IInv'
  <2>1. CASE TouchAllocation(i)
    BY <2>1, SameObjects DEF TouchAllocation
  <2>2. CASE RemoveAllocation(i)
    BY <2>2, RemoveAllocationIInv
  <2>3. ASSUME NEW pinned \in BOOLEAN, SetPinned(i, pinned) PROVE IInv'
    BY <2>3, SetPinnedIInv
  <2> QED BY <1>2, <2>1, <2>2, <2>3 DEF AllocationStep
<1>3. ASSUME NEW i \in Ids, ActionStep(i) PROVE IInv'
  BY <1>3, CommitActionIInv, DropActionIInv DEF ActionStep
<1>4. ASSUME NEW t \in Tiers, TierStep(t) PROVE IInv'
  <2>1. CASE CooldownEnds(t)
    BY <2>1, SameObjects DEF CooldownEnds, objects
  <2>2. ASSUME NEW b \in Sizes \cup {Budget[t]}, RecordOrphanedRelease(t, b) PROVE IInv'
    BY <2>2, SameObjects DEF RecordOrphanedRelease, objects
  <2>3. ASSUME NEW requested \in Sizes \cup {0}, NEW eligible \in SUBSET Allocated,
               NEW av \in Samples, Plan(t, requested, eligible, av)
        PROVE  IInv'
    BY <2>3, SameObjects DEF Plan, objects
  <2> QED BY <1>4, <2>1, <2>2, <2>3 DEF TierStep
<1>5. ASSUME NEW av \in Samples, Refresh(av) PROVE IInv'
  BY <1>5, SameObjects DEF Refresh, objects
<1>6. CASE BeginPressureAction
  BY <1>6, BeginPressureActionIInv
<1>7. CASE SkipAction
  BY <1>7, SameObjects DEF SkipAction, objects
<1>8. CASE UNCHANGED vars
  BY <1>8, SameObjects DEF vars, objects
<1> QED BY <1>1, <1>2, <1>3, <1>4, <1>5, <1>6, <1>7, <1>8 DEF Next

\* What the backend did under a claim can be recorded: the claimed allocation is
\* still there, unpinned, in its tier and of its size (PressureActionPermit::commit).
THEOREM ClaimsValid == Spec => []ClaimsStayValid
<1>1. IInv => ClaimsStayValid
  BY DEF IInv
<1> QED BY InitIInv, NextIInv, <1>1, PTL DEF Spec

-----------------------------------------------------------------------------
(* Folds, sums and sequences *)

Plus(p, x, y) == x + y
PlusAfter(p, x, y) == y + x
Zero(p) == 0
Nothing(p) == << >>
BytesAt(f, i) == f[i].bytes
Some(s) == CHOOSE x \in s : TRUE
Elem(p, k) == p[1][k]
KeepStep(p, i, kept) == IF i \in p[2] THEN Append(kept, i) ELSE kept
DemotionStep(p, i, acts) ==
  IF /\ Open(acts, p[2]) /\ alloc[i].target # NoTier
     /\ CanAccept(alloc[i].target, Relief(acts) + alloc[i].bytes, p[3])
  THEN Append(acts, ActionOn(i, alloc[i].target)) ELSE acts
EvictionStep(p, i, acts) ==
  IF Open(acts, p[2]) /\ ~\E k \in 1..Len(acts) : acts[k].id = i
  THEN Append(acts, ActionOn(i, NoTier)) ELSE acts
Begun(p) == p[3]

Charge == INSTANCE FoldLaws WITH Op <- Plus, Value <- BytesAt, Base <- Zero, Choice <- Some
Freed == INSTANCE FoldLaws WITH Op <- PlusAfter, Value <- BytesAt, Base <- Zero, Choice <- Max
Kept == INSTANCE FoldLaws WITH Op <- KeepStep, Value <- Elem, Base <- Nothing, Choice <- Max
Demoted == INSTANCE FoldLaws WITH Op <- DemotionStep, Value <- Elem, Base <- Nothing, Choice <- Max
Evicted == INSTANCE FoldLaws WITH Op <- EvictionStep, Value <- Elem, Base <- Begun, Choice <- Max

LEMMA ChargeIs == \A f, S : BytesOf(f, S) = Charge!Fold(f, S)
BY DEF Charge!Fold, BytesOf, MapThenSumSet, MapThenFoldSet, Plus, Zero, BytesAt, Some, Charge!MapThenFoldSet
LEMMA FreedIs == \A acts : Relief(acts) = Freed!Fold(acts, DOMAIN acts)
BY DEF Freed!Fold, Relief, FoldLeft, MapThenFoldSet, PlusAfter, Zero, BytesAt, Max, Freed!MapThenFoldSet
LEMMA KeptIs == \A seq, set : Among(seq, set) = Kept!Fold(<<seq, set>>, DOMAIN seq)
BY DEF Kept!Fold, Among, FoldLeft, MapThenFoldSet, KeepStep, Nothing, Elem, Max, Kept!MapThenFoldSet
LEMMA DemotedIs == \A c, r, av : WithDemotions(c, r, av) = Demoted!Fold(<<c, r, av>>, DOMAIN c)
BY DEF Demoted!Fold, WithDemotions, FoldLeft, MapThenFoldSet, DemotionStep, Nothing, Elem, Max, Demoted!MapThenFoldSet
LEMMA EvictedIs == \A d, c, r : WithEvictions(d, c, r) = Evicted!Fold(<<c, r, d>>, DOMAIN c)
BY DEF Evicted!Fold, WithEvictions, FoldLeft, MapThenFoldSet, EvictionStep, Begun, Elem, Max, Evicted!MapThenFoldSet

LEMMA Finites ==
  \A S : /\ Charge!IsFiniteSet(S) <=> IsFiniteSet(S)
         /\ Freed!IsFiniteSet(S) <=> IsFiniteSet(S)
         /\ Kept!IsFiniteSet(S) <=> IsFiniteSet(S)
         /\ Demoted!IsFiniteSet(S) <=> IsFiniteSet(S)
         /\ Evicted!IsFiniteSet(S) <=> IsFiniteSet(S)
BY DEF Charge!IsFiniteSet, Freed!IsFiniteSet, Kept!IsFiniteSet, Demoted!IsFiniteSet, Evicted!IsFiniteSet, IsFiniteSet

LEMMA Positions ==
  ASSUME NEW n \in Nat
  PROVE  /\ Freed!IsFiniteSet(1..n) /\ Freed!Chooses(1..n)
         /\ Kept!IsFiniteSet(1..n) /\ Kept!Chooses(1..n)
         /\ Demoted!IsFiniteSet(1..n) /\ Demoted!Chooses(1..n)
         /\ Evicted!IsFiniteSet(1..n) /\ Evicted!Chooses(1..n)
<1>1. ASSUME NEW s \in SUBSET (1..n), s # {} PROVE Max(s) \in s
  <2>1. \E x \in s : \A y \in s : x >= y
    BY <1>1, Kept!LastOf
  <2> QED BY <2>1 DEF Max
<1>2. IsFiniteSet(1..n)
  BY FS_Interval
<1> QED BY <1>1, <1>2, Finites DEF Freed!Chooses, Kept!Chooses, Demoted!Chooses, Evicted!Chooses

(* Sequences *)
LEMMA AmongType ==
  ASSUME NEW X, NEW seq \in Seq(X), NEW set
  PROVE  Among(seq, set) \in Seq(X \cap set)
<1> DEFINE p == <<seq, set>>
<1>1. PICK D : D = Seq(X \cap set)
  OBVIOUS
<1>2. Len(seq) \in Nat /\ DOMAIN seq = 1..Len(seq) /\ \A k \in 1..Len(seq) : seq[k] \in X
  OBVIOUS
<1>3. Nothing(p) \in D
  BY <1>1 DEF Nothing
<1>4. \A k \in 1..Len(seq), kept \in D : KeepStep(p, Elem(p, k), kept) \in D
  BY <1>1, <1>2 DEF KeepStep, Elem
<1>5. \A T \in SUBSET (1..Len(seq)) : Kept!Fold(p, T) \in D
  <2> HIDE DEF p
  <2> QED BY <1>2, <1>3, <1>4, Positions, Kept!FoldStays
<1> QED BY <1>1, <1>2, <1>5, KeptIs

LEMMA DemotionsType ==
  ASSUME NEW c, NEW X, c \in Seq(X), NEW r, NEW av, NEW A,
         \A i \in X : alloc[i].target # NoTier => ActionOn(i, alloc[i].target) \in A
  PROVE  WithDemotions(c, r, av) \in Seq(A)
<1> DEFINE p == <<c, r, av>>
<1>1. PICK D : D = Seq(A)
  OBVIOUS
<1>2. Len(c) \in Nat /\ DOMAIN c = 1..Len(c) /\ \A k \in 1..Len(c) : c[k] \in X
  OBVIOUS
<1>3. Nothing(p) \in D
  BY <1>1 DEF Nothing
<1>4. \A k \in 1..Len(c), acts \in D : DemotionStep(p, Elem(p, k), acts) \in D
  BY <1>1, <1>2 DEF DemotionStep, Elem
<1>5. \A T \in SUBSET (1..Len(c)) : Demoted!Fold(p, T) \in D
  <2> HIDE DEF p
  <2> QED BY <1>2, <1>3, <1>4, Positions, Demoted!FoldStays
<1> QED BY <1>1, <1>2, <1>5, DemotedIs

LEMMA EvictionsType ==
  ASSUME NEW c, NEW X, c \in Seq(X), NEW r, NEW A, NEW d \in Seq(A),
         \A i \in X : ActionOn(i, NoTier) \in A
  PROVE  WithEvictions(d, c, r) \in Seq(A)
<1> DEFINE p == <<c, r, d>>
<1>1. PICK D : D = Seq(A)
  OBVIOUS
<1>2. Len(c) \in Nat /\ DOMAIN c = 1..Len(c) /\ \A k \in 1..Len(c) : c[k] \in X
  OBVIOUS
<1>3. Begun(p) \in D
  BY <1>1 DEF Begun
<1>4. \A k \in 1..Len(c), acts \in D : EvictionStep(p, Elem(p, k), acts) \in D
  BY <1>1, <1>2 DEF EvictionStep, Elem
<1>5. \A T \in SUBSET (1..Len(c)) : Evicted!Fold(p, T) \in D
  <2> HIDE DEF p
  <2> QED BY <1>2, <1>3, <1>4, Positions, Evicted!FoldStays
<1> QED BY <1>1, <1>2, <1>5, EvictedIs

(* Bytes *)
LEMMA Sums == Charge!Summing /\ Freed!Summing /\ \A S : Charge!Chooses(S)
BY DEF Charge!Summing, Freed!Summing, Charge!Chooses, Plus, PlusAfter, Zero, Some

Weighs(f, S) == \A j \in S : f[j].bytes \in Nat
SameBytes(f, g, S) == \A j \in S : f[j].bytes = g[j].bytes

LEMMA BytesChange ==
  ASSUME NEW f, NEW g, NEW S, NEW T, IsFiniteSet(S), NEW i, S \ {i} = T \ {i},
         Weighs(f, S), Weighs(g, T), SameBytes(f, g, S \ {i})
  PROVE  /\ IsFiniteSet(T) /\ BytesOf(f, S) \in Nat /\ BytesOf(g, T) \in Nat
         /\ i \in S => f[i].bytes <= BytesOf(f, S)
         /\ BytesOf(g, T) + (IF i \in S THEN f[i].bytes ELSE 0)
              = BytesOf(f, S) + (IF i \in T THEN g[i].bytes ELSE 0)
<1>1. /\ \A j \in S : BytesAt(f, j) \in Nat
      /\ \A j \in T : BytesAt(g, j) \in Nat
      /\ \A j \in S \ {i} : BytesAt(f, j) = BytesAt(g, j)
  BY DEF BytesAt, Weighs, SameBytes
<1>2. /\ Charge!IsFiniteSet(T) /\ Charge!Fold(f, S) \in Nat /\ Charge!Fold(g, T) \in Nat
      /\ i \in S => BytesAt(f, i) <= Charge!Fold(f, S)
      /\ Charge!Fold(g, T) + (IF i \in S THEN BytesAt(f, i) ELSE 0)
           = Charge!Fold(f, S) + (IF i \in T THEN BytesAt(g, i) ELSE 0)
  BY <1>1, Finites, Sums, Charge!SumChanges
<1> QED BY <1>2, Finites, ChargeIs DEF BytesAt

LEMMA BytesOfNone == \A f : BytesOf(f, {}) = 0
BY Sums, Charge!SumOfNone, ChargeIs

LEMMA CountChange ==
  ASSUME NEW S, NEW T, IsFiniteSet(S), NEW i, S \ {i} = T \ {i}
  PROVE  /\ IsFiniteSet(T) /\ Cardinality(S) \in Nat /\ Cardinality(T) \in Nat
         /\ i \in S => Cardinality(S) >= 1
         /\ Cardinality(T) + (IF i \in S THEN 1 ELSE 0)
              = Cardinality(S) + (IF i \in T THEN 1 ELSE 0)
<1> DEFINE R == S \ {i}
<1>1. IsFiniteSet(R) /\ Cardinality(R) = IF i \in S THEN Cardinality(S) - 1 ELSE Cardinality(S)
  BY FS_RemoveElement
<1>2. (i \in T => T = R \cup {i}) /\ (i \notin T => T = R) /\ i \notin R
  OBVIOUS
<1> HIDE DEF R
<1>3. IsFiniteSet(T) /\ Cardinality(T) = IF i \in T THEN Cardinality(R) + 1 ELSE Cardinality(R)
  <2>1. CASE i \in T
    BY <1>1, <1>2, <2>1, FS_AddElement
  <2>2. CASE i \notin T
    BY <1>1, <1>2, <2>2
  <2> QED BY <2>1, <2>2
<1>4. Cardinality(S) \in Nat /\ Cardinality(R) \in Nat
  BY <1>1, FS_CardinalityType
<1> QED BY <1>1, <1>3, <1>4

(* Relief *)
LEMMA ReliefOfNone == Relief(<< >>) = 0
<1>1. DOMAIN << >> = {}
  OBVIOUS
<1> QED BY <1>1, Sums, Freed!SumOfNone, FreedIs

LEMMA ReliefIsNat ==
  ASSUME NEW X, \A a \in X : a.bytes \in Nat, NEW s \in Seq(X)
  PROVE  Relief(s) \in Nat
<1>1. Len(s) \in Nat /\ DOMAIN s = 1..Len(s) /\ \A k \in 1..Len(s) : BytesAt(s, k) \in Nat
  BY DEF BytesAt
<1>2. Freed!Fold(s, 1..Len(s)) \in Nat
  BY <1>1, Positions, Sums, Freed!SumIsNat
<1> QED BY <1>1, <1>2, FreedIs

\* The last of some positions, taken out of a sum.
LEMMA LastFreed ==
  ASSUME NEW p, NEW m \in Nat \ {0}, \A k \in 1..m : p[k].bytes \in Nat
  PROVE  /\ Freed!Fold(p, 1..(m - 1)) \in Nat
         /\ Freed!Fold(p, 1..m) = p[m].bytes + Freed!Fold(p, 1..(m - 1))
<1>1. PICK N : N = 1..m
  OBVIOUS
<1>2. m \in N /\ N \ {m} = 1..(m - 1) /\ \A k \in N : BytesAt(p, k) \in Nat
  BY <1>1 DEF BytesAt
<1>3. Freed!Fold(p, N) = BytesAt(p, m) + Freed!Fold(p, N \ {m})
  <2>1. Freed!IsFiniteSet(N) /\ Freed!Chooses(N) /\ Freed!Summing
    BY <1>1, Positions, Sums
  <2> QED BY <1>2, <2>1, Freed!SumSplits
<1>4. PICK L : L = 1..(m - 1)
  OBVIOUS
<1>5. m - 1 \in Nat /\ \A k \in L : BytesAt(p, k) \in Nat
  BY <1>4 DEF BytesAt
<1>6. Freed!Fold(p, L) \in Nat
  BY <1>4, <1>5, Positions, Sums, Freed!SumIsNat
<1> QED BY <1>1, <1>2, <1>3, <1>4, <1>6 DEF BytesAt

LEMMA ReliefOfHead ==
  ASSUME NEW X, \A a \in X : a.bytes \in Nat, NEW s \in Seq(X), s # << >>
  PROVE  Relief(s) = Head(s).bytes + Relief(Tail(s))
<1> DEFINE n == Len(s)
           r == Tail(s)
           Differs(m) == Freed!Fold(s, 1..m) # s[1].bytes + Freed!Fold(r, 1..(m - 1))
           B == {1..m : m \in {k \in 1..n : Differs(k)}}
<1>1. /\ n \in Nat /\ n >= 1 /\ DOMAIN s = 1..n /\ \A k \in 1..n : s[k].bytes \in Nat
      /\ r \in Seq(X) /\ Len(r) = n - 1 /\ DOMAIN r = 1..(n - 1)
      /\ \A k \in 1..(n - 1) : r[k] = s[k + 1]
  OBVIOUS
<1>2. ASSUME B # {} PROVE FALSE
  <2>1. PICK N : N = 1..n
    OBVIOUS
  <2>2. Freed!IsFiniteSet(N) /\ B \subseteq SUBSET N
    BY <1>1, <2>1, Positions
  <2>3. PICK U \in B : \A V \in B : V \subseteq U => V = U
    <3> HIDE DEF B
    <3> QED BY <1>2, <2>2, Freed!SmallestSubset
  <2>4. PICK m \in 1..n : U = 1..m /\ Differs(m)
    BY <2>3
  <2>5. Freed!Fold(s, 1..m) = s[m].bytes + Freed!Fold(s, 1..(m - 1))
    <3>1. m \in Nat \ {0} /\ \A k \in 1..m : s[k].bytes \in Nat
      BY <1>1
    <3> QED BY <3>1, LastFreed
  <2>6. CASE m = 1
    <3>1. 1..(m - 1) = {}
      BY <2>6
    <3>2. Freed!Fold(s, 1..(m - 1)) = 0 /\ Freed!Fold(r, 1..(m - 1)) = 0
      BY <3>1, Sums, Freed!SumOfNone
    <3> QED BY <2>4, <2>5, <2>6, <3>2
  <2>7. CASE m > 1
    <3>1. m - 1 \in 1..n /\ m - 1 \in Nat \ {0} /\ \A k \in 1..(m - 1) : r[k].bytes \in Nat
      BY <1>1, <2>7
    <3>2. /\ Freed!Fold(r, 1..(m - 2)) \in Nat
          /\ Freed!Fold(r, 1..(m - 1)) = r[m - 1].bytes + Freed!Fold(r, 1..(m - 2))
      <4>1. (m - 1) - 1 = m - 2
        OBVIOUS
      <4> HIDE DEF r
      <4> QED BY <3>1, <4>1, LastFreed
    <3>3. ~Differs(m - 1)
      <4>1. m \in 1..m /\ m \notin 1..(m - 1) /\ 1..(m - 1) \subseteq 1..m
        BY <2>7
      <4>2. 1..(m - 1) \notin B
        BY <2>3, <2>4, <4>1
      <4> QED BY <3>1, <4>2
    <3>4. Freed!Fold(s, 1..(m - 1)) = s[1].bytes + Freed!Fold(r, 1..(m - 2))
      <4>1. (m - 1) - 1 = m - 2
        OBVIOUS
      <4> HIDE DEF r
      <4> QED BY <3>3, <4>1
    <3>5. s[m] = r[m - 1] /\ s[m].bytes \in Nat /\ s[1].bytes \in Nat
      BY <1>1, <2>7
    <3> HIDE DEF r
    <3> QED BY <2>4, <2>5, <3>2, <3>4, <3>5
  <2> QED BY <2>6, <2>7
<1>3. ~Differs(n)
  BY <1>1, <1>2
<1>4. Head(s) = s[1]
  OBVIOUS
<1>5. Relief(s) = Freed!Fold(s, 1..n) /\ Relief(r) = Freed!Fold(r, 1..(n - 1))
  BY <1>1, FreedIs
<1> QED BY <1>3, <1>4, <1>5

-----------------------------------------------------------------------------
(* Pressure levels, bytes and plans *)

(* Pressure *)
LEMMA BelowHard ==
  ASSUME NEW u \in Nat, NEW B \in Nat \ {0}
  PROVE  Classify(Utilization(u, B)) < Hard <=> 10000 * u < 8500 * B
<1> DEFINE q == (u * 10000) \div B
<1>1. q \in Int /\ B * q <= u * 10000 /\ u * 10000 < B * q + B
  OBVIOUS
<1>2. Classify(q) < Hard <=> q < 8500
  <2>1. EntryBp[Soft] = 7500 /\ EntryBp[Hard] = 8500 /\ EntryBp[Emergency] = 9500
    BY DEF EntryBp, Soft, Hard, Emergency
  <2>2. PICK r \in Int : r = q
    BY <1>1
  <2> HIDE DEF q
  <2>3. Classify(r) < 2 <=> r < 8500
    BY <2>1 DEF Classify, Normal, Soft, Hard, Emergency
  <2> QED BY <2>2, <2>3 DEF Hard
<1>3. q < 8500 => B * q + B <= 8500 * B
  <2>1. PICK r \in Int : r = q
    BY <1>1
  <2> HIDE DEF q
  <2>2. ASSUME r < 8500 PROVE B * r + B <= 8500 * B
    <3>1. r + 1 <= 8500
      BY <2>2
    <3>2. B * (r + 1) <= B * 8500
      BY <3>1
    <3> QED BY <3>2
  <2> QED BY <2>1, <2>2
<1>4. q >= 8500 => B * q >= 8500 * B
  <2>1. PICK r \in Int : r = q
    BY <1>1
  <2> HIDE DEF q
  <2> QED BY <2>1
<1> HIDE DEF q
<1>5. q < 8500 <=> 10000 * u < 8500 * B
  BY <1>1, <1>3, <1>4
<1> QED BY <1>2, <1>5 DEF q, Utilization

LEMMA ClassifyType == \A bp : Classify(bp) \in Levels
BY DEF Classify, Levels, Normal, Soft, Hard, Emergency

LEMMA ReclassifyType ==
  ASSUME NEW previous \in Levels, NEW bp
  PROVE  Reclassify(previous, bp) \in Levels
<1> DEFINE S == {Classify(bp)} \cup {l \in Soft..previous : bp >= EntryBp[l] - HysteresisBp}
<1>1. S \subseteq {0, 1, 2, 3} /\ S # {}
  BY ClassifyType DEF Levels, Normal, Soft, Emergency
<1>2. Reclassify(previous, bp) = Max(S)
  BY DEF Reclassify
<1> HIDE DEF S
<1>3. \E x \in S : \A y \in S : x >= y
  <2>1. CASE 3 \in S
    BY <1>1, <2>1
  <2>2. CASE 3 \notin S /\ 2 \in S
    BY <1>1, <2>2
  <2>3. CASE 3 \notin S /\ 2 \notin S /\ 1 \in S
    BY <1>1, <2>3
  <2>4. CASE 3 \notin S /\ 2 \notin S /\ 1 \notin S
    <3>1. S = {0}
      BY <1>1, <2>4
    <3> QED BY <3>1
  <2> QED BY <2>1, <2>2, <2>3, <2>4
<1>4. Max(S) \in S
  BY <1>3 DEF Max
<1>5. Max(S) \in {0, 1, 2, 3}
  BY <1>1, <1>4
<1>6. \A l \in {0, 1, 2, 3} : l \in Levels
  BY DEF Levels, Normal, Emergency
<1> QED BY <1>2, <1>5, <1>6

(* Bytes as they are moved between the accounts *)
LEMMA AccountTypes ==
  ASSUME NEW f \in [Tiers -> Nat], NEW t \in Tiers, NEW b \in Nat
  PROVE  /\ With(f, t, b) \in [Tiers -> Nat] /\ Without(f, t, b) \in [Tiers -> Nat]
         /\ \A u \in Tiers : With(f, t, b)[u] = IF u = t THEN f[u] + b ELSE f[u]
         /\ \A u \in Tiers : Without(f, t, b)[u] = IF u = t THEN Less(f[u], b) ELSE f[u]
BY DEF With, Without, Less

LEMMA MovedType ==
  ASSUME NEW a \in Action, NEW av \in [Tiers -> Nat], \A t \in Tiers : av[t] <= Total[t]
  PROVE  Moved(a, av) \in [Tiers -> Nat] /\ \A t \in Tiers : Moved(a, av)[t] <= Total[t]
<1>1. a.bytes \in Nat /\ \A t \in Tiers : av[t] \in Nat /\ Total[t] \in Nat
  BY BytesAssumption DEF Action
<1> QED BY <1>1 DEF Moved, Least, Less

\* Which actions a plan for tier t may hold.
PlannedIn(t) ==
  {a \in Action : IF topology = "unified" THEN a.to = NoTier ELSE a.from = t /\ a.to # t}

TargetsOf(f) == \A i \in Ids : f[i] # NoAllocation /\ f[i].target = "host" => f[i].tier = "gpu"
ValidTargets == TargetsOf(alloc) /\ TargetsOf(loads)

\* A plan is made of actions on allocations as they are.
LEMMA ActionsType ==
  ASSUME alloc \in [Ids -> Allocation \cup {NoAllocation}], ValidTargets, recent \in Seq(Ids),
         topology \in {"discrete", "unified"},
         NEW t \in Tiers, NEW eligible, NEW required, NEW av
  PROVE  Actions(t, eligible, required, av) \in Seq(PlannedIn(t))
<1> DEFINE X == {i \in Ids : alloc[i] # NoAllocation /\ (topology = "unified" \/ alloc[i].tier = t)}
           c == Candidates(t, eligible)
<1>1. c \in Seq(X)
  <2> DEFINE set == {i \in eligible : /\ Unclaimed(i) /\ ~alloc[i].pinned
                                      /\ topology = "unified" \/ alloc[i].tier = t}
  <2>1. c = Among(recent, set)
    BY DEF Candidates
  <2>2. Ids \cap set \subseteq X
    BY DEF Unclaimed
  <2> HIDE DEF X, set, c
  <2>3. Among(recent, set) \in Seq(Ids \cap set)
    BY AmongType
  <2> QED BY <2>1, <2>2, <2>3
<1>2. \A i \in X : ActionOn(i, NoTier) \in PlannedIn(t)
  BY DEF ActionOn, PlannedIn, Action, Allocation, Tiers, NoTier
<1>3. topology = "discrete" =>
        \A i \in X : alloc[i].target # NoTier => ActionOn(i, alloc[i].target) \in PlannedIn(t)
  BY DEF ActionOn, PlannedIn, Action, Allocation, Tiers, NoTier, ValidTargets, TargetsOf
<1> HIDE DEF X, c
<1>4. topology = "discrete" => WithDemotions(c, required, av) \in Seq(PlannedIn(t))
  BY <1>1, <1>3, DemotionsType
<1>5. << >> \in Seq(PlannedIn(t))
  OBVIOUS
<1>6. \A d \in Seq(PlannedIn(t)) : WithEvictions(d, c, required) \in Seq(PlannedIn(t))
  BY <1>1, <1>2, EvictionsType
<1> QED BY <1>4, <1>5, <1>6 DEF Actions, c

-----------------------------------------------------------------------------
(* Types *)

TInv == TypeOK /\ ValidTargets

LEMMA InitTInv == Init => TInv
<1> SUFFICES ASSUME Init PROVE TInv
  OBVIOUS
<1>1. << >> \in Seq(Ids) /\ << >> \in Seq(Action)
  OBVIOUS
<1>2. Normal \in Levels
  BY DEF Normal, Levels, Emergency
<1>3. Total \in [Tiers -> Nat]
  BY BytesAssumption
<1> QED BY <1>1, <1>2, <1>3 DEF Init, TInv, TypeOK, ValidTargets, TargetsOf

LEMMA SampleTypes ==
  ASSUME NEW av \in Samples
  PROVE  av \in [Tiers -> Nat] /\ \A t \in Tiers : av[t] <= Total[t]
BY BytesAssumption

LEMMA ObserveTypes ==
  ASSUME pressure \in [Tiers -> Levels], NEW av \in Samples, Observe(av)
  PROVE  avail' \in [Tiers -> Nat] /\ pressure' \in [Tiers -> Levels]
<1>1. Most(pressure["host"], pressure["gpu"]) \in Levels
  BY DEF Most, Tiers
<1>2. \A t \in Tiers : pressure[t] \in Levels
  OBVIOUS
<1>3. pressure' \in [Tiers -> Levels]
  BY <1>1, <1>2, ReclassifyType DEF Observe
<1> QED BY <1>3, SampleTypes DEF Observe

\* Steps of others than the plan and its actions, which all give its promise up.
LEMMA InterfereTypes == TInv /\ Interfere => plan' \in Seq(Action) /\ promise' \in Promise \cup {NoPromise}
BY DEF Interfere, TInv, TypeOK

LEMMA AllocationTypes ==
  \A a \in Allocation : a.tier \in Tiers /\ a.bytes \in Nat /\ a.bytes \in Sizes
BY BytesAssumption DEF Allocation

LEMMA ForgetType == ASSUME recent \in Seq(Ids), NEW i PROVE Forget(i) \in Seq(Ids)
<1>1. Among(recent, Ids \ {i}) \in Seq(Ids \cap (Ids \ {i}))
  BY AmongType
<1> QED BY <1>1 DEF Forget

LEMMA ReleaseTypes ==
  ASSUME reserved \in [Tiers -> Nat], active \in [Tiers -> Nat],
         NEW t \in Tiers, NEW b \in Nat, ReleaseReservation(t, b)
  PROVE  reserved' \in [Tiers -> Nat] /\ active' \in [Tiers -> Nat]
<1>1. 1 \in Nat
  OBVIOUS
<1> QED BY <1>1, AccountTypes DEF ReleaseReservation

LEMMA UnclaimTypes ==
  ASSUME TInv, NEW i \in Ids, claim[i] # NoAction, Unclaim(i)
  PROVE  /\ reserved' \in [Tiers -> Nat] /\ active' \in [Tiers -> Nat]
         /\ claim' \in [Ids -> Action \cup {NoAction}]
<1>1. claim[i] \in Action
  BY DEF TInv, TypeOK
<1>2. claim[i].bytes \in Nat /\ (claim[i].to # NoTier => claim[i].to \in Tiers)
  BY <1>1, BytesAssumption DEF Action
<1>3. reserved \in [Tiers -> Nat] /\ active \in [Tiers -> Nat]
  BY DEF TInv, TypeOK
<1>4. reserved' \in [Tiers -> Nat] /\ active' \in [Tiers -> Nat]
  BY <1>2, <1>3, ReleaseTypes DEF Unclaim
<1> QED BY <1>4 DEF Unclaim, TInv, TypeOK

LEMMA ReserveLoadTInv ==
  ASSUME TInv, NEW i \in Ids, NEW a \in Allocation, NEW av \in Samples, ReserveLoad(i, a, av)
  PROVE  TInv'
<1>1. a.tier \in Tiers /\ a.bytes \in Nat /\ 1 \in Nat
  BY AllocationTypes
<1>2. reserved' \in [Tiers -> Nat] /\ active' \in [Tiers -> Nat]
  BY <1>1, AccountTypes DEF ReserveLoad, TInv, TypeOK
<1>3. avail' \in [Tiers -> Nat] /\ pressure' \in [Tiers -> Levels]
  BY ObserveTypes DEF ReserveLoad, TInv, TypeOK
<1>4. plan' \in Seq(Action) /\ promise' \in Promise \cup {NoPromise}
  BY InterfereTypes DEF ReserveLoad
<1> QED BY <1>2, <1>3, <1>4 DEF ReserveLoad, TInv, TypeOK, ValidTargets, TargetsOf, lost


LEMMA CommitLoadTInv ==
  ASSUME TInv, NEW i \in Ids, CommitLoad(i)
  PROVE  TInv'
<1>1. loads[i] \in Allocation
  BY DEF CommitLoad, TInv, TypeOK
<1>2. loads[i].tier \in Tiers /\ loads[i].bytes \in Nat
  BY <1>1, AllocationTypes
<1>3. reserved' \in [Tiers -> Nat] /\ active' \in [Tiers -> Nat]
  BY <1>2, ReleaseTypes DEF CommitLoad, TInv, TypeOK
<1>4. managed' \in [Tiers -> Nat]
  BY <1>2, AccountTypes DEF CommitLoad, TInv, TypeOK
<1>5. plan' \in Seq(Action) /\ promise' \in Promise \cup {NoPromise}
  BY InterfereTypes DEF CommitLoad
<1>6. recent' \in Seq(Ids)
  BY DEF CommitLoad, TInv, TypeOK
<1>7. /\ alloc' \in [Ids -> Allocation \cup {NoAllocation}]
      /\ loads' \in [Ids -> Allocation \cup {NoAllocation}]
  BY <1>1 DEF CommitLoad, TInv, TypeOK
<1>8. /\ \A j \in Ids : alloc'[j] = NoAllocation \/ loads'[j] = NoAllocation
      /\ ValidTargets'
  BY DEF CommitLoad, TInv, TypeOK, ValidTargets, TargetsOf
<1> QED BY <1>3, <1>4, <1>5, <1>6, <1>7, <1>8 DEF CommitLoad, TInv, TypeOK, seen, lost

LEMMA DropLoadTInv ==
  ASSUME TInv, NEW i \in Ids, DropLoad(i)
  PROVE  TInv'
<1>1. loads[i] \in Allocation
  BY DEF DropLoad, TInv, TypeOK
<1>2. loads[i].tier \in Tiers /\ loads[i].bytes \in Nat
  BY <1>1, AllocationTypes
<1>3. reserved' \in [Tiers -> Nat] /\ active' \in [Tiers -> Nat]
  BY <1>2, ReleaseTypes DEF DropLoad, TInv, TypeOK
<1>4. plan' \in Seq(Action) /\ promise' \in Promise \cup {NoPromise}
  BY InterfereTypes DEF DropLoad
<1> QED BY <1>3, <1>4 DEF DropLoad, TInv, TypeOK, ValidTargets, TargetsOf, seen, lost

LEMMA AllocationStepTInv ==
  ASSUME TInv, NEW i \in Ids, AllocationStep(i)
  PROVE  TInv'
<1>1. CASE TouchAllocation(i)
  <2>1. Forget(i) \in Seq(Ids)
    BY ForgetType DEF TInv, TypeOK
  <2>2. recent' \in Seq(Ids)
    BY <1>1, <2>1 DEF TouchAllocation
  <2>3. plan' \in Seq(Action) /\ promise' \in Promise \cup {NoPromise}
    BY <1>1, InterfereTypes DEF TouchAllocation
  <2> QED BY <1>1, <2>2, <2>3 DEF TouchAllocation, TInv, TypeOK, ValidTargets, TargetsOf, accounts, seen, lost
<1>2. CASE RemoveAllocation(i)
  <2>1. Forget(i) \in Seq(Ids)
    BY ForgetType DEF TInv, TypeOK
  <2>2. recent' \in Seq(Ids)
    BY <1>2, <2>1 DEF RemoveAllocation
  <2>3. plan' \in Seq(Action) /\ promise' \in Promise \cup {NoPromise}
    BY <1>2, InterfereTypes DEF RemoveAllocation
  <2>4. alloc[i].tier \in Tiers /\ alloc[i].bytes \in Nat
    BY <1>2, AllocationTypes DEF RemoveAllocation, Unclaimed, TInv, TypeOK
  <2>5. managed' \in [Tiers -> Nat]
    BY <1>2, <2>4, AccountTypes DEF RemoveAllocation, TInv, TypeOK
  <2> QED BY <1>2, <2>2, <2>3, <2>5 DEF RemoveAllocation, TInv, TypeOK, ValidTargets, TargetsOf, seen, lost
<1>3. ASSUME NEW pinned \in BOOLEAN, SetPinned(i, pinned) PROVE TInv'
  <2>1. alloc[i] \in Allocation /\ loads[i] = NoAllocation
    BY <1>3 DEF SetPinned, Unclaimed, TInv, TypeOK
  <2>2. plan' \in Seq(Action) /\ promise' \in Promise \cup {NoPromise}
    BY <1>3, InterfereTypes DEF SetPinned
  <2>3. PICK a : a = [alloc[i] EXCEPT !.pinned = pinned]
    OBVIOUS
  <2>4. /\ a \in Allocation /\ a # NoAllocation /\ alloc[i] # NoAllocation
        /\ a.tier = alloc[i].tier /\ a.target = alloc[i].target
    BY <2>1, <2>3 DEF Allocation
  <2>5. alloc' = [alloc EXCEPT ![i] = a] /\ loads' = loads
    BY <1>3, <2>3 DEF SetPinned
  <2>6. /\ alloc' \in [Ids -> Allocation \cup {NoAllocation}]
        /\ \A j \in Ids : alloc'[j] = NoAllocation \/ loads'[j] = NoAllocation
        /\ ValidTargets'
    BY <2>1, <2>4, <2>5 DEF TInv, TypeOK, ValidTargets, TargetsOf
  <2> QED BY <1>3, <2>2, <2>6 DEF SetPinned, TInv, TypeOK, accounts, seen, lost
<1> QED BY <1>1, <1>2, <1>3 DEF AllocationStep

LEMMA OrphanTInv ==
  ASSUME TInv, NEW t \in Tiers, NEW b \in Sizes \cup {Budget[t]}, RecordOrphanedRelease(t, b)
  PROVE  TInv'
<1>1. b \in Nat
  BY BytesAssumption
<1>2. managed' \in [Tiers -> Nat] /\ orphaned' \in [Tiers -> Nat]
  BY <1>1, AccountTypes DEF RecordOrphanedRelease, TInv, TypeOK
<1>3. plan' \in Seq(Action) /\ promise' \in Promise \cup {NoPromise}
  BY InterfereTypes DEF RecordOrphanedRelease
<1>4. /\ UNCHANGED <<topology, reserved, active, pressure, avail, cooling, alloc, recent, loads, claim>>
      /\ orphans' = orphans + 1
  BY DEF RecordOrphanedRelease, seen, objects
<1> QED BY <1>2, <1>3, <1>4 DEF TInv, TypeOK, ValidTargets, TargetsOf

LEMMA PlanTInv ==
  ASSUME TInv, NEW t \in Tiers, NEW requested \in Sizes \cup {0}, NEW eligible \in SUBSET Allocated,
         NEW av \in Samples, Plan(t, requested, eligible, av)
  PROVE  TInv' /\ plan' \in Seq(PlannedIn(t))
<1>1. avail' \in [Tiers -> Nat] /\ pressure' \in [Tiers -> Levels]
  BY ObserveTypes DEF Plan, TInv, TypeOK
<1>2. << >> \in Seq(PlannedIn(t))
  OBVIOUS
<1>3. \A required : Actions(t, eligible, required, av) \in Seq(PlannedIn(t))
  BY ActionsType DEF TInv, TypeOK
<1>4. plan' \in Seq(PlannedIn(t))
  BY <1>2, <1>3 DEF Plan
<1>5. PlannedIn(t) \subseteq Action
  BY DEF PlannedIn
<1>6. plan' \in Seq(Action)
  BY <1>4, <1>5
<1>7. promise' \in Promise \cup {NoPromise}
  <2>1. requested > 0 => requested \in Sizes
    OBVIOUS
  <2>2. av \in [Tiers -> Nat]
    BY SampleTypes
  <2> QED BY <2>1, <2>2 DEF Plan, Promise
<1> QED BY <1>1, <1>4, <1>6, <1>7 DEF Plan, TInv, TypeOK, ValidTargets, TargetsOf, accounts, objects, lost

LEMMA BeginPressureActionTInv ==
  ASSUME TInv, BeginPressureAction
  PROVE  TInv'
<1>1. PICK a : a = Head(plan)
  OBVIOUS
<1>2. a \in Action /\ plan' \in Seq(Action)
  BY <1>1 DEF BeginPressureAction, TInv, TypeOK
<1>3. a.bytes \in Nat /\ (a.to # NoTier => a.to \in Tiers) /\ 1 \in Nat
  BY <1>2, BytesAssumption DEF Action
<1>4. IF a.to = NoTier THEN UNCHANGED <<reserved, active>>
      ELSE reserved' = With(reserved, a.to, a.bytes) /\ active' = With(active, a.to, 1)
  BY <1>1 DEF BeginPressureAction
<1>5. reserved' \in [Tiers -> Nat] /\ active' \in [Tiers -> Nat]
  <2>1. reserved \in [Tiers -> Nat] /\ active \in [Tiers -> Nat]
    BY DEF TInv, TypeOK
  <2>2. CASE a.to = NoTier
    BY <1>4, <2>1, <2>2
  <2>3. CASE a.to # NoTier
    <3>1. With(reserved, a.to, a.bytes) \in [Tiers -> Nat] /\ With(active, a.to, 1) \in [Tiers -> Nat]
      BY <1>3, <2>1, <2>3, AccountTypes
    <3> QED BY <1>4, <2>3, <3>1
  <2> QED BY <2>2, <2>3
<1>6. claim' = [claim EXCEPT ![a.id] = a]
  BY <1>1 DEF BeginPressureAction
<1>7. claim' \in [Ids -> Action \cup {NoAction}]
  BY <1>2, <1>6 DEF TInv, TypeOK
<1> QED BY <1>2, <1>5, <1>7 DEF BeginPressureAction, TInv, TypeOK, ValidTargets, TargetsOf, seen, lost

LEMMA SkipActionTInv ==
  ASSUME TInv, SkipAction
  PROVE  TInv'
<1>1. plan' \in Seq(Action)
  BY DEF SkipAction, TInv, TypeOK
<1> QED BY <1>1 DEF SkipAction, TInv, TypeOK, ValidTargets, TargetsOf, accounts, seen, objects, lost

LEMMA CommitActionTInv ==
  ASSUME TInv, \A t \in Tiers : promise # NoPromise => promise.avail[t] <= Total[t],
         NEW i \in Ids, CommitAction(i)
  PROVE  TInv'
<1>1. PICK a \in Action : claim[i] = a
  BY DEF CommitAction, TInv, TypeOK
<1>2. a.bytes \in Nat /\ a.from \in Tiers /\ (a.to # NoTier => a.to \in Tiers)
  BY <1>1, BytesAssumption DEF Action
<1>3. alloc[i] \in Allocation /\ (a.to # NoTier => a.to = "host")
  BY <1>1 DEF CommitAction, Fresh, TInv, TypeOK, Allocation
<1>4. managed' = IF a.to = NoTier THEN Without(managed, a.from, a.bytes)
                 ELSE With(Without(managed, a.from, a.bytes), a.to, a.bytes)
  BY <1>1 DEF CommitAction
<1>5. managed' \in [Tiers -> Nat]
  BY <1>2, <1>4, AccountTypes DEF TInv, TypeOK
<1>6. /\ reserved' \in [Tiers -> Nat] /\ active' \in [Tiers -> Nat]
      /\ claim' \in [Ids -> Action \cup {NoAction}]
  BY UnclaimTypes DEF CommitAction
<1>7. PICK b : b = IF a.to = NoTier THEN NoAllocation
                   ELSE [alloc[i] EXCEPT !.tier = a.to, !.target = NoTier]
  OBVIOUS
<1>8. b \in Allocation \cup {NoAllocation} /\ (b # NoAllocation => b.target = NoTier)
  BY <1>2, <1>3, <1>7 DEF Allocation
<1>9. alloc' = [alloc EXCEPT ![i] = b] /\ loads' = loads
  BY <1>1, <1>7 DEF CommitAction
<1>10. loads[i] = NoAllocation
  BY <1>3 DEF TInv, TypeOK
<1>11. /\ alloc' \in [Ids -> Allocation \cup {NoAllocation}]
       /\ \A j \in Ids : alloc'[j] = NoAllocation \/ loads'[j] = NoAllocation
       /\ ValidTargets'
  BY <1>8, <1>9, <1>10 DEF TInv, TypeOK, ValidTargets, TargetsOf, NoTier
<1>12. recent' \in Seq(Ids)
  <2>1. Forget(i) \in Seq(Ids)
    BY ForgetType DEF TInv, TypeOK
  <2> QED BY <2>1 DEF CommitAction, TInv, TypeOK
<1>13. cooling' \subseteq Tiers
  BY <1>1, <1>2 DEF CommitAction, TInv, TypeOK
<1>14. promise' \in Promise \cup {NoPromise}
  <2>1. CASE promise = NoPromise
    BY <2>1 DEF CommitAction
  <2>2. CASE promise # NoPromise
    <3>1. promise \in Promise
      BY <2>2 DEF TInv, TypeOK
    <3>2. Moved(a, promise.avail) \in [Tiers -> Nat]
      BY <2>2, <3>1, MovedType DEF Promise
    <3>3. promise' = [promise EXCEPT !.avail = Moved(a, promise.avail)]
      BY <1>1, <2>2 DEF CommitAction
    <3> QED BY <3>1, <3>2, <3>3 DEF Promise
  <2> QED BY <2>1, <2>2
<1> QED BY <1>5, <1>6, <1>11, <1>12, <1>13, <1>14 DEF CommitAction, TInv, TypeOK, seen, lost

LEMMA DropActionTInv ==
  ASSUME TInv, NEW i \in Ids, DropAction(i)
  PROVE  TInv'
<1>1. /\ reserved' \in [Tiers -> Nat] /\ active' \in [Tiers -> Nat]
      /\ claim' \in [Ids -> Action \cup {NoAction}]
  BY UnclaimTypes DEF DropAction
<1>2. plan' \in Seq(Action) /\ promise' \in Promise \cup {NoPromise}
  BY InterfereTypes DEF DropAction
<1> QED BY <1>1, <1>2 DEF DropAction, TInv, TypeOK, ValidTargets, TargetsOf, seen, lost

-----------------------------------------------------------------------------
(* The accounts, entry by entry *)

\* Allocations and reservations are made one by one.
Finite == IsFiniteSet(Allocated) /\ IsFiniteSet(Loading) /\ IsFiniteSet(Claimed)

AInv == Finite /\ AccountsExact

(* What one entry contributes to the accounts of a tier. *)
Share(f, i, t) == IF f[i] # NoAllocation /\ f[i].tier = t THEN f[i].bytes ELSE 0
Count(f, i, t) == IF f[i] # NoAllocation /\ f[i].tier = t THEN 1 ELSE 0
Demoting(c, t) == {i \in Ids : c[i] # NoAction /\ c[i].to = t}
ShareTo(c, i, t) == IF c[i] # NoAction /\ c[i].to = t THEN c[i].bytes ELSE 0
CountTo(c, i, t) == IF c[i] # NoAction /\ c[i].to = t THEN 1 ELSE 0

Elsewhere(f, g, i) == \A j \in Ids \ {i} : g[j] = f[j]

Entries(f) == {j \in Ids : f[j] # NoAllocation}
Claims(c) == {j \in Ids : c[j] # NoAction}

LEMMA EntryChanges ==
  ASSUME NEW f \in [Ids -> Allocation \cup {NoAllocation}], IsFiniteSet(Entries(f)),
         NEW g \in [Ids -> Allocation \cup {NoAllocation}], NEW i \in Ids, Elsewhere(f, g, i), NEW t
  PROVE  /\ IsFiniteSet(Entries(g))
         /\ BytesIn(f, t) \in Nat /\ BytesIn(g, t) \in Nat
         /\ Share(f, i, t) \in Nat /\ Share(g, i, t) \in Nat /\ Share(f, i, t) <= BytesIn(f, t)
         /\ BytesIn(g, t) + Share(f, i, t) = BytesIn(f, t) + Share(g, i, t)
         /\ Cardinality(In(f, t)) \in Nat /\ Cardinality(In(g, t)) \in Nat
         /\ Count(f, i, t) \in Nat /\ Count(g, i, t) \in Nat /\ Count(f, i, t) <= Cardinality(In(f, t))
         /\ Cardinality(In(g, t)) + Count(f, i, t) = Cardinality(In(f, t)) + Count(g, i, t)
<1> DEFINE S == Entries(f)
           T == Entries(g)
           P == In(f, t)
           Q == In(g, t)
<1>1. \A j \in Ids \ {i} : g[j] = f[j]
  BY DEF Elsewhere
<1>2. IsFiniteSet(T)
  <2>1. S \ {i} = T \ {i}
    BY <1>1 DEF Entries, Claims
  <2>2. IsFiniteSet(S)
    OBVIOUS
  <2> HIDE DEF S, T
  <2> QED BY <2>1, <2>2, CountChange
<1>3. /\ IsFiniteSet(P) /\ P \ {i} = Q \ {i}
      /\ Weighs(f, P) /\ Weighs(g, Q) /\ SameBytes(f, g, P \ {i})
  <2>1. P \in SUBSET S
    BY DEF In, Entries
  <2> HIDE DEF S
  <2>2. IsFiniteSet(P)
    BY <2>1, FS_Subset DEF S
  <2> QED BY <1>1, <2>2, AllocationTypes DEF In, Weighs, SameBytes
<1>4. /\ (i \in P <=> f[i] # NoAllocation /\ f[i].tier = t)
      /\ (i \in Q <=> g[i] # NoAllocation /\ g[i].tier = t)
  BY DEF In
<1> HIDE DEF P, Q
<1>5. /\ BytesOf(f, P) \in Nat /\ BytesOf(g, Q) \in Nat
      /\ i \in P => f[i].bytes <= BytesOf(f, P)
      /\ BytesOf(g, Q) + (IF i \in P THEN f[i].bytes ELSE 0)
           = BytesOf(f, P) + (IF i \in Q THEN g[i].bytes ELSE 0)
  BY <1>3, BytesChange
<1>6. /\ Cardinality(P) \in Nat /\ Cardinality(Q) \in Nat
      /\ i \in P => Cardinality(P) >= 1
      /\ Cardinality(Q) + (IF i \in P THEN 1 ELSE 0)
           = Cardinality(P) + (IF i \in Q THEN 1 ELSE 0)
  BY <1>3, CountChange
<1>7. (i \in P => f[i].bytes \in Nat) /\ (i \in Q => g[i].bytes \in Nat)
  BY <1>3 DEF Weighs
<1>8. /\ Share(f, i, t) = IF i \in P THEN f[i].bytes ELSE 0
      /\ Share(g, i, t) = IF i \in Q THEN g[i].bytes ELSE 0
      /\ Count(f, i, t) = IF i \in P THEN 1 ELSE 0
      /\ Count(g, i, t) = IF i \in Q THEN 1 ELSE 0
  BY <1>4 DEF Share, Count
<1> QED BY <1>2, <1>5, <1>6, <1>7, <1>8 DEF BytesIn, P, Q

LEMMA ClaimChanges ==
  ASSUME NEW c \in [Ids -> Action \cup {NoAction}], IsFiniteSet(Claims(c)),
         NEW d \in [Ids -> Action \cup {NoAction}], NEW i \in Ids, Elsewhere(c, d, i), NEW t
  PROVE  /\ IsFiniteSet(Claims(d))
         /\ BytesOf(c, Demoting(c, t)) \in Nat /\ BytesOf(d, Demoting(d, t)) \in Nat
         /\ ShareTo(c, i, t) \in Nat /\ ShareTo(d, i, t) \in Nat
         /\ ShareTo(c, i, t) <= BytesOf(c, Demoting(c, t))
         /\ BytesOf(d, Demoting(d, t)) + ShareTo(c, i, t) = BytesOf(c, Demoting(c, t)) + ShareTo(d, i, t)
         /\ Cardinality(Demoting(c, t)) \in Nat /\ Cardinality(Demoting(d, t)) \in Nat
         /\ CountTo(c, i, t) \in Nat /\ CountTo(d, i, t) \in Nat
         /\ CountTo(c, i, t) <= Cardinality(Demoting(c, t))
         /\ Cardinality(Demoting(d, t)) + CountTo(c, i, t) = Cardinality(Demoting(c, t)) + CountTo(d, i, t)
<1> DEFINE S == Claims(c)
           T == Claims(d)
           P == Demoting(c, t)
           Q == Demoting(d, t)
<1>1. \A j \in Ids \ {i} : d[j] = c[j]
  BY DEF Elsewhere
<1>2. IsFiniteSet(T)
  <2>1. S \ {i} = T \ {i}
    BY <1>1 DEF Entries, Claims
  <2>2. IsFiniteSet(S)
    OBVIOUS
  <2> HIDE DEF S, T
  <2> QED BY <2>1, <2>2, CountChange
<1>3. /\ IsFiniteSet(P) /\ P \ {i} = Q \ {i}
      /\ Weighs(c, P) /\ Weighs(d, Q) /\ SameBytes(c, d, P \ {i})
  <2>1. P \in SUBSET S
    BY DEF Demoting, Claims
  <2> HIDE DEF S
  <2>2. IsFiniteSet(P)
    BY <2>1, FS_Subset DEF S
  <2>3. \A b \in Action : b.bytes \in Nat
    BY BytesAssumption DEF Action
  <2> QED BY <1>1, <2>2, <2>3 DEF Demoting, Weighs, SameBytes
<1>4. /\ i \in P <=> c[i] # NoAction /\ c[i].to = t
      /\ i \in Q <=> d[i] # NoAction /\ d[i].to = t
  BY DEF Demoting
<1> HIDE DEF P, Q
<1>5. /\ BytesOf(c, P) \in Nat /\ BytesOf(d, Q) \in Nat
      /\ i \in P => c[i].bytes <= BytesOf(c, P)
      /\ BytesOf(d, Q) + (IF i \in P THEN c[i].bytes ELSE 0)
           = BytesOf(c, P) + (IF i \in Q THEN d[i].bytes ELSE 0)
  BY <1>3, BytesChange
<1>6. /\ Cardinality(P) \in Nat /\ Cardinality(Q) \in Nat
      /\ i \in P => Cardinality(P) >= 1
      /\ Cardinality(Q) + (IF i \in P THEN 1 ELSE 0) = Cardinality(P) + (IF i \in Q THEN 1 ELSE 0)
  BY <1>3, CountChange
<1>7. (i \in P => c[i].bytes \in Nat) /\ (i \in Q => d[i].bytes \in Nat)
  BY <1>3 DEF Weighs
<1>8. /\ ShareTo(c, i, t) = IF i \in P THEN c[i].bytes ELSE 0
      /\ ShareTo(d, i, t) = IF i \in Q THEN d[i].bytes ELSE 0
      /\ CountTo(c, i, t) = IF i \in P THEN 1 ELSE 0
      /\ CountTo(d, i, t) = IF i \in Q THEN 1 ELSE 0
  BY <1>4 DEF ShareTo, CountTo
<1> QED BY <1>2, <1>5, <1>6, <1>7, <1>8 DEF P, Q

LEMMA SumTypes ==
  ASSUME NEW f \in [Ids -> Allocation \cup {NoAllocation}], IsFiniteSet(Entries(f)),
         NEW c \in [Ids -> Action \cup {NoAction}], IsFiniteSet(Claims(c)), NEW t
  PROVE  BytesIn(f, t) \in Nat /\ BytesOf(c, Demoting(c, t)) \in Nat
<1>1. CASE Ids = {}
  <2>1. In(f, t) = {} /\ Demoting(c, t) = {}
    BY <1>1 DEF In, Demoting
  <2> QED BY <2>1, BytesOfNone DEF BytesIn
<1>2. ASSUME NEW i \in Ids PROVE BytesIn(f, t) \in Nat /\ BytesOf(c, Demoting(c, t)) \in Nat
  <2>1. Elsewhere(f, f, i) /\ Elsewhere(c, c, i)
    BY DEF Elsewhere
  <2> QED BY <2>1, EntryChanges, ClaimChanges
<1> QED BY <1>1, <1>2

\* AInv with the claims as an argument of Demoting.
LEMMA AInvIs ==
  AInv <=> /\ IsFiniteSet(Entries(alloc))
           /\ IsFiniteSet(Entries(loads))
           /\ IsFiniteSet(Claims(claim))
           /\ \A t \in Tiers :
                /\ managed[t] = BytesIn(alloc, t) + orphaned[t]
                /\ reserved[t] = BytesIn(loads, t) + BytesOf(claim, Demoting(claim, t))
                /\ active[t] = Cardinality(In(loads, t)) + Cardinality(Demoting(claim, t))
BY DEF AInv, Finite, Allocated, Loading, Claimed, AccountsExact, DemotingTo, Demoting, Entries, Claims

LEMMA AInvNext ==
  AInv' <=> /\ IsFiniteSet(Entries(alloc'))
            /\ IsFiniteSet(Entries(loads'))
            /\ IsFiniteSet(Claims(claim'))
            /\ \A t \in Tiers :
                 /\ managed'[t] = BytesIn(alloc', t) + orphaned'[t]
                 /\ reserved'[t] = BytesIn(loads', t) + BytesOf(claim', Demoting(claim', t))
                 /\ active'[t] = Cardinality(In(loads', t)) + Cardinality(Demoting(claim', t))
BY DEF AInv, Finite, Allocated, Loading, Claimed, AccountsExact, DemotingTo, Demoting, Entries, Claims

LEMMA InitAInv == Init => AInv
<1> SUFFICES ASSUME Init PROVE AInv
  OBVIOUS
<1>1. Entries(alloc) = {} /\ Entries(loads) = {} /\ Claims(claim) = {}
  BY DEF Init, Entries, Claims
<1>2. \A t : In(alloc, t) = {} /\ In(loads, t) = {} /\ Demoting(claim, t) = {}
  BY DEF Init, In, Demoting
<1>3. \A t \in Tiers : managed[t] = 0 /\ reserved[t] = 0 /\ active[t] = 0 /\ orphaned[t] = 0
  BY DEF Init
<1>4. IsFiniteSet({}) /\ Cardinality({}) = 0
  BY FS_EmptySet
<1> QED BY <1>1, <1>2, <1>3, <1>4, BytesOfNone, AInvIs DEF BytesIn

\* What an entry contributes is in the accounts, so nothing that is given back saturates.
LEMMA Contribution ==
  ASSUME TypeOK, AInv, NEW i \in Ids, NEW t \in Tiers
  PROVE  /\ Share(alloc, i, t) \in Nat /\ Share(loads, i, t) \in Nat /\ ShareTo(claim, i, t) \in Nat
         /\ Count(loads, i, t) \in Nat /\ CountTo(claim, i, t) \in Nat
         /\ Share(alloc, i, t) <= managed[t]
         /\ Share(loads, i, t) + ShareTo(claim, i, t) <= reserved[t]
         /\ Count(loads, i, t) + CountTo(claim, i, t) <= active[t]
<1>1. \A f : Elsewhere(f, f, i)
  BY DEF Elsewhere
<1>2. /\ alloc \in [Ids -> Allocation \cup {NoAllocation}] /\ loads \in [Ids -> Allocation \cup {NoAllocation}]
      /\ claim \in [Ids -> Action \cup {NoAction}] /\ orphaned[t] \in Nat
  BY DEF TypeOK
<1>3. /\ BytesIn(alloc, t) \in Nat /\ Share(alloc, i, t) \in Nat /\ Share(alloc, i, t) <= BytesIn(alloc, t)
  BY <1>1, <1>2, EntryChanges, AInvIs
<1>4. /\ BytesIn(loads, t) \in Nat /\ Share(loads, i, t) \in Nat /\ Share(loads, i, t) <= BytesIn(loads, t)
      /\ Cardinality(In(loads, t)) \in Nat /\ Count(loads, i, t) \in Nat
      /\ Count(loads, i, t) <= Cardinality(In(loads, t))
  BY <1>1, <1>2, EntryChanges, AInvIs
<1>5. /\ BytesOf(claim, Demoting(claim, t)) \in Nat /\ ShareTo(claim, i, t) \in Nat
      /\ ShareTo(claim, i, t) <= BytesOf(claim, Demoting(claim, t))
      /\ Cardinality(Demoting(claim, t)) \in Nat /\ CountTo(claim, i, t) \in Nat
      /\ CountTo(claim, i, t) <= Cardinality(Demoting(claim, t))
  BY <1>1, <1>2, ClaimChanges, AInvIs
<1>6. /\ managed[t] = BytesIn(alloc, t) + orphaned[t]
      /\ reserved[t] = BytesIn(loads, t) + BytesOf(claim, Demoting(claim, t))
      /\ active[t] = Cardinality(In(loads, t)) + Cardinality(Demoting(claim, t))
  BY AInvIs
<1> QED BY <1>2, <1>3, <1>4, <1>5, <1>6

\* The accounts change as the entries of an allocation do.
AccountsMove(i) ==
  \A t \in Tiers :
    /\ managed'[t] + Share(alloc, i, t) + orphaned[t]
         = managed[t] + Share(alloc', i, t) + orphaned'[t]
    /\ reserved'[t] + Share(loads, i, t) + ShareTo(claim, i, t)
         = reserved[t] + Share(loads', i, t) + ShareTo(claim', i, t)
    /\ active'[t] + Count(loads, i, t) + CountTo(claim, i, t)
         = active[t] + Count(loads', i, t) + CountTo(claim', i, t)

\* Steps that change the entries of one allocation at most, and the accounts with them.
LEMMA AccountsFollow ==
  ASSUME TypeOK, TypeOK', AInv, NEW i \in Ids,
         Elsewhere(alloc, alloc', i), Elsewhere(loads, loads', i), Elsewhere(claim, claim', i),
         AccountsMove(i)
  PROVE  AInv'
<1>1. /\ alloc \in [Ids -> Allocation \cup {NoAllocation}] /\ loads \in [Ids -> Allocation \cup {NoAllocation}]
      /\ claim \in [Ids -> Action \cup {NoAction}]
      /\ alloc' \in [Ids -> Allocation \cup {NoAllocation}] /\ loads' \in [Ids -> Allocation \cup {NoAllocation}]
      /\ claim' \in [Ids -> Action \cup {NoAction}]
  BY DEF TypeOK
<1>2. /\ IsFiniteSet(Entries(alloc))
      /\ IsFiniteSet(Entries(loads))
      /\ IsFiniteSet(Claims(claim))
  BY AInvIs
<1>3. ASSUME NEW t
      PROVE  /\ IsFiniteSet(Entries(alloc'))
             /\ BytesIn(alloc, t) \in Nat /\ BytesIn(alloc', t) \in Nat
             /\ Share(alloc, i, t) \in Nat /\ Share(alloc', i, t) \in Nat
             /\ BytesIn(alloc', t) + Share(alloc, i, t) = BytesIn(alloc, t) + Share(alloc', i, t)
  <2>1. /\ alloc \in [Ids -> Allocation \cup {NoAllocation}] /\ alloc' \in [Ids -> Allocation \cup {NoAllocation}]
        /\ IsFiniteSet(Entries(alloc)) /\ Elsewhere(alloc, alloc', i)
    BY <1>1, <1>2
  <2> QED BY <2>1, EntryChanges
<1>4. ASSUME NEW t
      PROVE  /\ IsFiniteSet(Entries(loads'))
             /\ BytesIn(loads, t) \in Nat /\ BytesIn(loads', t) \in Nat
             /\ Share(loads, i, t) \in Nat /\ Share(loads', i, t) \in Nat
             /\ BytesIn(loads', t) + Share(loads, i, t) = BytesIn(loads, t) + Share(loads', i, t)
             /\ Cardinality(In(loads, t)) \in Nat /\ Cardinality(In(loads', t)) \in Nat
             /\ Count(loads, i, t) \in Nat /\ Count(loads', i, t) \in Nat
             /\ Cardinality(In(loads', t)) + Count(loads, i, t)
                  = Cardinality(In(loads, t)) + Count(loads', i, t)
  <2>1. /\ loads \in [Ids -> Allocation \cup {NoAllocation}] /\ loads' \in [Ids -> Allocation \cup {NoAllocation}]
        /\ IsFiniteSet(Entries(loads)) /\ Elsewhere(loads, loads', i)
    BY <1>1, <1>2
  <2> QED BY <2>1, EntryChanges
<1>5. ASSUME NEW t
      PROVE  /\ IsFiniteSet(Claims(claim'))
             /\ BytesOf(claim, Demoting(claim, t)) \in Nat /\ BytesOf(claim', Demoting(claim', t)) \in Nat
             /\ ShareTo(claim, i, t) \in Nat /\ ShareTo(claim', i, t) \in Nat
             /\ BytesOf(claim', Demoting(claim', t)) + ShareTo(claim, i, t)
                  = BytesOf(claim, Demoting(claim, t)) + ShareTo(claim', i, t)
             /\ Cardinality(Demoting(claim, t)) \in Nat /\ Cardinality(Demoting(claim', t)) \in Nat
             /\ CountTo(claim, i, t) \in Nat /\ CountTo(claim', i, t) \in Nat
             /\ Cardinality(Demoting(claim', t)) + CountTo(claim, i, t)
                  = Cardinality(Demoting(claim, t)) + CountTo(claim', i, t)
  BY <1>1, <1>2, ClaimChanges
<1>6. ASSUME NEW t \in Tiers
      PROVE  /\ managed'[t] = BytesIn(alloc', t) + orphaned'[t]
             /\ reserved'[t] = BytesIn(loads', t) + BytesOf(claim', Demoting(claim', t))
             /\ active'[t] = Cardinality(In(loads', t)) + Cardinality(Demoting(claim', t))
  <2>1. /\ managed[t] = BytesIn(alloc, t) + orphaned[t]
        /\ reserved[t] = BytesIn(loads, t) + BytesOf(claim, Demoting(claim, t))
        /\ active[t] = Cardinality(In(loads, t)) + Cardinality(Demoting(claim, t))
    BY AInvIs
  <2>2. /\ managed[t] \in Nat /\ managed'[t] \in Nat /\ reserved[t] \in Nat /\ reserved'[t] \in Nat
        /\ active[t] \in Nat /\ active'[t] \in Nat /\ orphaned[t] \in Nat /\ orphaned'[t] \in Nat
    BY DEF TypeOK
  <2>3. /\ managed'[t] + Share(alloc, i, t) + orphaned[t]
             = managed[t] + Share(alloc', i, t) + orphaned'[t]
        /\ reserved'[t] + Share(loads, i, t) + ShareTo(claim, i, t)
             = reserved[t] + Share(loads', i, t) + ShareTo(claim', i, t)
        /\ active'[t] + Count(loads, i, t) + CountTo(claim, i, t)
             = active[t] + Count(loads', i, t) + CountTo(claim', i, t)
    BY DEF AccountsMove
  <2>4. managed'[t] = BytesIn(alloc', t) + orphaned'[t]
    <3>1. PICK m \in Nat, n \in Nat : m = managed[t] /\ n = managed'[t]
      BY <2>2
    <3>2. PICK s \in Nat, r \in Nat : s = Share(alloc, i, t) /\ r = Share(alloc', i, t)
      BY <1>3
    <3>3. PICK o \in Nat, p \in Nat : o = orphaned[t] /\ p = orphaned'[t]
      BY <2>2
    <3>4. PICK b \in Nat, c \in Nat : b = BytesIn(alloc, t) /\ c = BytesIn(alloc', t)
      BY <1>3
    <3>5. n + s + o = m + r + p
      BY <2>3, <3>1, <3>2, <3>3
    <3>6. m = b + o /\ c + s = b + r
      BY <2>1, <1>3, <3>1, <3>2, <3>3, <3>4
    <3>7. n = c + p
      BY <3>5, <3>6
    <3> QED BY <3>1, <3>3, <3>4, <3>7
  <2>5. reserved'[t] = BytesIn(loads', t) + BytesOf(claim', Demoting(claim', t))
    <3>1. PICK m \in Nat, n \in Nat : m = reserved[t] /\ n = reserved'[t]
      BY <2>2
    <3>2. PICK s \in Nat, r \in Nat : s = Share(loads, i, t) /\ r = Share(loads', i, t)
      BY <1>4
    <3>3. PICK o \in Nat, p \in Nat : o = ShareTo(claim, i, t) /\ p = ShareTo(claim', i, t)
      BY <1>5
    <3>4. PICK b \in Nat, c \in Nat : b = BytesIn(loads, t) /\ c = BytesIn(loads', t)
      BY <1>4
    <3>5. PICK d \in Nat, e \in Nat : d = BytesOf(claim, Demoting(claim, t)) /\ e = BytesOf(claim', Demoting(claim', t))
      BY <1>5
    <3>6. n + s + o = m + r + p
      BY <2>3, <3>1, <3>2, <3>3
    <3>7. m = b + d /\ c + s = b + r /\ e + o = d + p
      BY <2>1, <1>4, <1>5, <3>1, <3>2, <3>3, <3>4, <3>5
    <3>8. n = c + e
      BY <3>6, <3>7
    <3> QED BY <3>1, <3>4, <3>5, <3>8
  <2>6. active'[t] = Cardinality(In(loads', t)) + Cardinality(Demoting(claim', t))
    <3>1. PICK m \in Nat, n \in Nat : m = active[t] /\ n = active'[t]
      BY <2>2
    <3>2. PICK s \in Nat, r \in Nat : s = Count(loads, i, t) /\ r = Count(loads', i, t)
      BY <1>4
    <3>3. PICK o \in Nat, p \in Nat : o = CountTo(claim, i, t) /\ p = CountTo(claim', i, t)
      BY <1>5
    <3>4. PICK b \in Nat, c \in Nat : b = Cardinality(In(loads, t)) /\ c = Cardinality(In(loads', t))
      BY <1>4
    <3>5. PICK d \in Nat, e \in Nat : d = Cardinality(Demoting(claim, t)) /\ e = Cardinality(Demoting(claim', t))
      BY <1>5
    <3>6. n + s + o = m + r + p
      BY <2>3, <3>1, <3>2, <3>3
    <3>7. m = b + d /\ c + s = b + r /\ e + o = d + p
      BY <2>1, <1>4, <1>5, <3>1, <3>2, <3>3, <3>4, <3>5
    <3>8. n = c + e
      BY <3>6, <3>7
    <3> QED BY <3>1, <3>4, <3>5, <3>8
  <2> QED BY <2>4, <2>5, <2>6
<1> QED BY <1>3, <1>4, <1>5, <1>6, AInvNext

-----------------------------------------------------------------------------
(* The accounts, action by action *)

LEMMA Same == \A f, i : Elsewhere(f, f, i)
BY DEF Elsewhere

\* Steps that touch neither the accounts nor what they count.
LEMMA SameAccounts ==
  ASSUME AInv, UNCHANGED <<managed, reserved, active, alloc, loads, claim, orphaned>>
  PROVE  AInv'
BY AInvIs, AInvNext

\* What tier t gains from b bytes in tier u.
Gain(t, u, b) == IF t = u THEN b ELSE 0

LEMMA EntryGains ==
  ASSUME NEW f, NEW i, NEW t
  PROVE  /\ f[i] = NoAllocation => Share(f, i, t) = 0 /\ Count(f, i, t) = 0
         /\ f[i] # NoAllocation => /\ Share(f, i, t) = Gain(t, f[i].tier, f[i].bytes)
                                   /\ Count(f, i, t) = Gain(t, f[i].tier, 1)
BY DEF Share, Count, Gain

ManagedMove(i) == \A t \in Tiers : managed'[t] + Share(alloc, i, t) + orphaned[t]
                                     = managed[t] + Share(alloc', i, t) + orphaned'[t]
ReservedMove(i) == \A t \in Tiers : reserved'[t] + Share(loads, i, t) + ShareTo(claim, i, t)
                                      = reserved[t] + Share(loads', i, t) + ShareTo(claim', i, t)
ActiveMove(i) == \A t \in Tiers : active'[t] + Count(loads, i, t) + CountTo(claim, i, t)
                                    = active[t] + Count(loads', i, t) + CountTo(claim', i, t)
Moves(i) == ManagedMove(i) /\ ReservedMove(i) /\ ActiveMove(i)

LEMMA MovesAre == \A i : Moves(i) <=> AccountsMove(i)
BY DEF AccountsMove, Moves, ManagedMove, ReservedMove, ActiveMove

LEMMA ReserveLoadAInv ==
  ASSUME TInv, TInv', AInv, NEW i \in Ids, NEW a \in Allocation, NEW av \in Samples, ReserveLoad(i, a, av)
  PROVE  AInv'
<1>1. loads[i] = NoAllocation /\ loads' = [loads EXCEPT ![i] = a] /\ UNCHANGED <<managed, alloc, claim, orphaned>>
  BY DEF ReserveLoad, lost
<1>2. reserved' = With(reserved, a.tier, a.bytes) /\ active' = With(active, a.tier, 1)
  BY DEF ReserveLoad
<1>3. a.tier \in Tiers /\ a.bytes \in Nat /\ 1 \in Nat
  BY AllocationTypes
<1>4. reserved \in [Tiers -> Nat] /\ active \in [Tiers -> Nat]
  BY DEF TInv, TypeOK
<1>5. Elsewhere(alloc, alloc', i) /\ Elsewhere(loads, loads', i) /\ Elsewhere(claim, claim', i)
  BY <1>1, Same DEF Elsewhere, TInv, TypeOK
<1>6. loads[i] = NoAllocation /\ loads'[i] = a /\ a # NoAllocation
  BY <1>1 DEF TInv, TypeOK
<1>7. ASSUME NEW t
      PROVE  /\ Share(loads, i, t) = 0 /\ Share(loads', i, t) = Gain(t, a.tier, a.bytes)
             /\ Count(loads, i, t) = 0 /\ Count(loads', i, t) = Gain(t, a.tier, 1)
  BY <1>6, EntryGains
<1>8. ASSUME NEW t \in Tiers
      PROVE  /\ Gain(t, a.tier, a.bytes) \in Nat /\ reserved'[t] = reserved[t] + Gain(t, a.tier, a.bytes)
             /\ Gain(t, a.tier, 1) \in Nat /\ active'[t] = active[t] + Gain(t, a.tier, 1)
  BY <1>2, <1>3, <1>4 DEF With, Gain
<1>9. ManagedMove(i)
  BY <1>1 DEF ManagedMove
<1>10. ReservedMove(i) /\ ActiveMove(i)
  <2> SUFFICES ASSUME NEW t \in Tiers
               PROVE  /\ reserved'[t] + Share(loads, i, t) + ShareTo(claim, i, t)
                           = reserved[t] + Share(loads', i, t) + ShareTo(claim', i, t)
                      /\ active'[t] + Count(loads, i, t) + CountTo(claim, i, t)
                           = active[t] + Count(loads', i, t) + CountTo(claim', i, t)
    BY DEF ReservedMove, ActiveMove
  <2>1. PICK s \in Nat, n \in Nat : s = ShareTo(claim, i, t) /\ n = CountTo(claim, i, t)
    BY Contribution DEF TInv
  <2>2. PICK r \in Nat, k \in Nat : r = reserved[t] /\ k = active[t]
    BY <1>4
  <2>3. PICK g \in Nat, h \in Nat : g = Gain(t, a.tier, a.bytes) /\ h = Gain(t, a.tier, 1)
    BY <1>8
  <2>4. /\ Share(loads, i, t) = 0 /\ Share(loads', i, t) = g /\ reserved'[t] = r + g
        /\ Count(loads, i, t) = 0 /\ Count(loads', i, t) = h /\ active'[t] = k + h
    BY <1>7, <1>8, <2>2, <2>3
  <2>5. s = ShareTo(claim', i, t) /\ n = CountTo(claim', i, t)
    BY <1>1, <2>1
  <2> QED BY <2>1, <2>2, <2>4, <2>5
<1> QED BY <1>5, <1>9, <1>10, MovesAre, AccountsFollow DEF TInv, Moves

\* A reservation that ends gives back what it took.
LEMMA LoadReleased ==
  ASSUME TInv, AInv, NEW i \in Ids, loads[i] # NoAllocation, claim' = claim,
         loads' = [loads EXCEPT ![i] = NoAllocation],
         ReleaseReservation(loads[i].tier, loads[i].bytes)
  PROVE  Elsewhere(loads, loads', i) /\ ReservedMove(i) /\ ActiveMove(i)
<1>1. PICK a \in Allocation : a = loads[i]
  BY DEF TInv, TypeOK
<1>2. a.tier \in Tiers /\ a.bytes \in Nat
  BY AllocationTypes
<1>3. reserved \in [Tiers -> Nat] /\ active \in [Tiers -> Nat]
  BY DEF TInv, TypeOK
<1>4. Elsewhere(loads, loads', i) /\ loads'[i] = NoAllocation
  BY DEF Elsewhere, TInv, TypeOK
<1>5. reserved' = Without(reserved, a.tier, a.bytes) /\ active' = Without(active, a.tier, 1)
  BY <1>1 DEF ReleaseReservation
<1>6. ASSUME NEW t
      PROVE  /\ Share(loads, i, t) = Gain(t, a.tier, a.bytes) /\ Share(loads', i, t) = 0
             /\ Count(loads, i, t) = Gain(t, a.tier, 1) /\ Count(loads', i, t) = 0
  BY <1>1, <1>4 DEF Share, Count, Gain
<1>7. SUFFICES ASSUME NEW t \in Tiers
               PROVE  /\ reserved'[t] + Share(loads, i, t) + ShareTo(claim, i, t)
                           = reserved[t] + Share(loads', i, t) + ShareTo(claim', i, t)
                      /\ active'[t] + Count(loads, i, t) + CountTo(claim, i, t)
                           = active[t] + Count(loads', i, t) + CountTo(claim', i, t)
  BY <1>4 DEF ReservedMove, ActiveMove
<1>8. PICK s \in Nat, n \in Nat : s = ShareTo(claim, i, t) /\ n = CountTo(claim, i, t)
  BY Contribution DEF TInv
<1>9. PICK r \in Nat, k \in Nat : r = reserved[t] /\ k = active[t]
  BY <1>3
<1>10. PICK g \in Nat, h \in Nat : /\ g = Gain(t, a.tier, a.bytes) /\ h = Gain(t, a.tier, 1)
                                   /\ g <= r /\ h <= k
  <2>1. /\ Share(loads, i, t) \in Nat /\ Count(loads, i, t) \in Nat
        /\ Share(loads, i, t) + ShareTo(claim, i, t) <= reserved[t]
        /\ Count(loads, i, t) + CountTo(claim, i, t) <= active[t]
    BY Contribution DEF TInv
  <2>2. PICK g \in Nat, h \in Nat : g = Share(loads, i, t) /\ h = Count(loads, i, t)
    BY <2>1
  <2>3. g + s <= r /\ h + n <= k
    BY <1>8, <1>9, <2>1, <2>2
  <2> QED BY <1>6, <2>2, <2>3
<1>11. reserved'[t] + g = r /\ active'[t] + h = k /\ reserved'[t] \in Nat /\ active'[t] \in Nat
  BY <1>2, <1>3, <1>5, <1>9, <1>10 DEF Without, Less, Gain
<1>12. PICK q \in Nat, m \in Nat : q = reserved'[t] /\ m = active'[t]
  BY <1>11
<1>13. /\ Share(loads, i, t) = g /\ Share(loads', i, t) = 0
       /\ Count(loads, i, t) = h /\ Count(loads', i, t) = 0
  BY <1>6, <1>10
<1>14. s = ShareTo(claim', i, t) /\ n = CountTo(claim', i, t)
  BY <1>8
<1> QED BY <1>8, <1>9, <1>11, <1>12, <1>13, <1>14

\* So does a claim that ends.
LEMMA ClaimReleased ==
  ASSUME TInv, AInv, NEW i \in Ids, claim[i] # NoAction, loads' = loads, Unclaim(i)
  PROVE  Elsewhere(claim, claim', i) /\ ReservedMove(i) /\ ActiveMove(i)
<1>1. PICK a \in Action : a = claim[i]
  BY DEF TInv, TypeOK
<1>2. (a.to # NoTier => a.to \in Tiers) /\ a.bytes \in Nat
  BY BytesAssumption DEF Action
<1>3. reserved \in [Tiers -> Nat] /\ active \in [Tiers -> Nat]
  BY DEF TInv, TypeOK
<1>4. Elsewhere(claim, claim', i) /\ claim'[i] = NoAction
  BY DEF Unclaim, Elsewhere, TInv, TypeOK
<1>5. IF a.to = NoTier THEN reserved' = reserved /\ active' = active
      ELSE reserved' = Without(reserved, a.to, a.bytes) /\ active' = Without(active, a.to, 1)
  BY <1>1 DEF Unclaim, ReleaseReservation
<1>6. ASSUME NEW t
      PROVE  /\ ShareTo(claim, i, t) = Gain(t, a.to, a.bytes) /\ ShareTo(claim', i, t) = 0
             /\ CountTo(claim, i, t) = Gain(t, a.to, 1) /\ CountTo(claim', i, t) = 0
  BY <1>1, <1>4 DEF ShareTo, CountTo, Gain
<1>7. SUFFICES ASSUME NEW t \in Tiers
               PROVE  /\ reserved'[t] + Share(loads, i, t) + ShareTo(claim, i, t)
                           = reserved[t] + Share(loads', i, t) + ShareTo(claim', i, t)
                      /\ active'[t] + Count(loads, i, t) + CountTo(claim, i, t)
                           = active[t] + Count(loads', i, t) + CountTo(claim', i, t)
  BY <1>4 DEF ReservedMove, ActiveMove
<1>8. PICK s \in Nat, n \in Nat : s = Share(loads, i, t) /\ n = Count(loads, i, t)
  BY Contribution DEF TInv
<1>9. PICK r \in Nat, k \in Nat : r = reserved[t] /\ k = active[t]
  BY <1>3
<1>10. PICK g \in Nat, h \in Nat : /\ g = Gain(t, a.to, a.bytes) /\ h = Gain(t, a.to, 1)
                                   /\ g <= r /\ h <= k
  <2>1. /\ ShareTo(claim, i, t) \in Nat /\ CountTo(claim, i, t) \in Nat
        /\ Share(loads, i, t) + ShareTo(claim, i, t) <= reserved[t]
        /\ Count(loads, i, t) + CountTo(claim, i, t) <= active[t]
    BY Contribution DEF TInv
  <2>2. PICK g \in Nat, h \in Nat : g = ShareTo(claim, i, t) /\ h = CountTo(claim, i, t)
    BY <2>1
  <2>3. s + g <= r /\ n + h <= k
    BY <1>8, <1>9, <2>1, <2>2
  <2> QED BY <1>6, <2>2, <2>3
<1>11. reserved'[t] + g = r /\ active'[t] + h = k /\ reserved'[t] \in Nat /\ active'[t] \in Nat
  <2>1. CASE a.to = NoTier
    <3>1. t # a.to
      BY <2>1 DEF Tiers, NoTier
    <3> QED BY <1>3, <1>5, <1>9, <1>10, <2>1, <3>1 DEF Gain
  <2>2. CASE a.to # NoTier
    BY <1>2, <1>3, <1>5, <1>9, <1>10, <2>2 DEF Without, Less, Gain
  <2> QED BY <2>1, <2>2
<1>12. PICK q \in Nat, m \in Nat : q = reserved'[t] /\ m = active'[t]
  BY <1>11
<1>13. /\ ShareTo(claim, i, t) = g /\ ShareTo(claim', i, t) = 0
       /\ CountTo(claim, i, t) = h /\ CountTo(claim', i, t) = 0
  BY <1>6, <1>10
<1>14. s = Share(loads', i, t) /\ n = Count(loads', i, t)
  BY <1>8
<1> QED BY <1>8, <1>9, <1>11, <1>12, <1>13, <1>14

LEMMA CommitLoadAInv ==
  ASSUME TInv, TInv', AInv, NEW i \in Ids, CommitLoad(i)
  PROVE  AInv'
<1>1. /\ loads[i] # NoAllocation /\ loads' = [loads EXCEPT ![i] = NoAllocation]
      /\ claim' = claim /\ orphaned' = orphaned /\ ReleaseReservation(loads[i].tier, loads[i].bytes)
  BY DEF CommitLoad, lost
<1>2. Elsewhere(loads, loads', i) /\ ReservedMove(i) /\ ActiveMove(i) /\ Elsewhere(claim, claim', i)
  BY <1>1, Same, LoadReleased
<1>3. PICK a \in Allocation : a = loads[i]
  BY <1>1 DEF TInv, TypeOK
<1>4. a.tier \in Tiers /\ a.bytes \in Nat /\ managed \in [Tiers -> Nat]
  BY AllocationTypes DEF TInv, TypeOK
<1>5. managed' = With(managed, a.tier, a.bytes) /\ alloc' = [alloc EXCEPT ![i] = a]
  BY <1>3 DEF CommitLoad
<1>6. Elsewhere(alloc, alloc', i) /\ alloc'[i] = a /\ alloc[i] = NoAllocation
  BY <1>1, <1>5 DEF Elsewhere, TInv, TypeOK
<1>7. ManagedMove(i)
  <2> SUFFICES ASSUME NEW t \in Tiers
               PROVE  managed'[t] + Share(alloc, i, t) + orphaned[t]
                        = managed[t] + Share(alloc', i, t) + orphaned'[t]
    BY DEF ManagedMove
  <2>1. PICK m \in Nat, o \in Nat : m = managed[t] /\ o = orphaned[t]
    BY DEF TInv, TypeOK
  <2>2. PICK g \in Nat : g = Gain(t, a.tier, a.bytes)
    BY <1>4 DEF Gain
  <2>3. managed'[t] = m + g
    BY <1>4, <1>5, <2>1, <2>2 DEF With, Gain
  <2>4. Share(alloc, i, t) = 0 /\ Share(alloc', i, t) = g
    BY <1>6, <2>2 DEF Share, Gain
  <2>5. orphaned'[t] = o
    BY <1>1, <2>1
  <2> QED BY <2>1, <2>3, <2>4, <2>5
<1> QED BY <1>2, <1>6, <1>7, MovesAre, AccountsFollow DEF TInv, Moves

LEMMA DropLoadAInv ==
  ASSUME TInv, TInv', AInv, NEW i \in Ids, DropLoad(i)
  PROVE  AInv'
<1>1. /\ loads[i] # NoAllocation /\ loads' = [loads EXCEPT ![i] = NoAllocation]
      /\ UNCHANGED <<managed, alloc, claim, orphaned>> /\ ReleaseReservation(loads[i].tier, loads[i].bytes)
  BY DEF DropLoad, lost
<1>2. /\ Elsewhere(loads, loads', i) /\ ReservedMove(i) /\ ActiveMove(i)
      /\ Elsewhere(claim, claim', i) /\ Elsewhere(alloc, alloc', i)
  BY <1>1, Same, LoadReleased
<1>3. ManagedMove(i)
  BY <1>1 DEF ManagedMove
<1> QED BY <1>2, <1>3, MovesAre, AccountsFollow DEF TInv, Moves

\* What is given back with an allocation is what it was charged with.
LEMMA AllocationLeaves ==
  ASSUME TInv, TInv', AInv, NEW i \in Ids, alloc[i] # NoAllocation,
         managed' = Without(managed, alloc[i].tier, alloc[i].bytes),
         alloc' = [alloc EXCEPT ![i] = NoAllocation], orphaned' = orphaned
  PROVE  Elsewhere(alloc, alloc', i) /\ ManagedMove(i)
<1>1. PICK a \in Allocation : a = alloc[i]
  BY DEF TInv, TypeOK
<1>2. a.tier \in Tiers /\ a.bytes \in Nat /\ managed \in [Tiers -> Nat]
  BY AllocationTypes DEF TInv, TypeOK
<1>3. Elsewhere(alloc, alloc', i) /\ alloc'[i] = NoAllocation
  BY DEF Elsewhere, TInv, TypeOK
<1>4. SUFFICES ASSUME NEW t \in Tiers
               PROVE  managed'[t] + Share(alloc, i, t) + orphaned[t]
                        = managed[t] + Share(alloc', i, t) + orphaned'[t]
  BY <1>3 DEF ManagedMove
<1>5. PICK m \in Nat, o \in Nat : m = managed[t] /\ o = orphaned[t]
  BY DEF TInv, TypeOK
<1>6. PICK g \in Nat : g = Gain(t, a.tier, a.bytes) /\ g = Share(alloc, i, t) /\ g <= m
  BY <1>1, <1>5, Contribution DEF Share, Gain, TInv
<1>7. managed'[t] + g = m /\ managed'[t] \in Nat
  BY <1>1, <1>2, <1>5, <1>6 DEF Without, Less, Gain
<1>8. Share(alloc', i, t) = 0
  BY <1>3 DEF Share
<1>9. PICK n \in Nat : n = managed'[t]
  BY <1>7
<1> QED BY <1>5, <1>6, <1>7, <1>8, <1>9

LEMMA StillReserved ==
  ASSUME NEW i \in Ids, UNCHANGED <<reserved, active, loads, claim>>
  PROVE  /\ Elsewhere(loads, loads', i) /\ Elsewhere(claim, claim', i)
         /\ ReservedMove(i) /\ ActiveMove(i)
BY Same DEF ReservedMove, ActiveMove

LEMMA AllocationStepAInv ==
  ASSUME TInv, TInv', AInv, NEW i \in Ids, AllocationStep(i)
  PROVE  AInv'
<1>1. CASE TouchAllocation(i)
  BY <1>1, SameAccounts DEF TouchAllocation, accounts, lost
<1>2. CASE RemoveAllocation(i)
  <2>1. /\ alloc[i] # NoAllocation /\ managed' = Without(managed, alloc[i].tier, alloc[i].bytes)
        /\ alloc' = [alloc EXCEPT ![i] = NoAllocation] /\ orphaned' = orphaned
        /\ UNCHANGED <<reserved, active, loads, claim>>
    BY <1>2 DEF RemoveAllocation, Unclaimed, lost
  <2> QED BY <2>1, AllocationLeaves, StillReserved, MovesAre, AccountsFollow DEF TInv, Moves
<1>3. ASSUME NEW pinned \in BOOLEAN, SetPinned(i, pinned) PROVE AInv'
  <2>1. /\ alloc[i] \in Allocation /\ alloc' = [alloc EXCEPT ![i].pinned = pinned]
        /\ UNCHANGED <<managed, reserved, active, loads, claim, orphaned>>
    BY <1>3 DEF SetPinned, Unclaimed, accounts, lost, TInv, TypeOK
  <2>2. /\ Elsewhere(alloc, alloc', i) /\ alloc[i] # NoAllocation /\ alloc'[i] # NoAllocation
        /\ alloc'[i].tier = alloc[i].tier /\ alloc'[i].bytes = alloc[i].bytes
    <3>1. PICK a : a = [alloc[i] EXCEPT !.pinned = pinned]
      OBVIOUS
    <3>2. a \in Allocation /\ a.tier = alloc[i].tier /\ a.bytes = alloc[i].bytes
      BY <2>1, <3>1 DEF Allocation
    <3>3. alloc' = [alloc EXCEPT ![i] = a]
      BY <2>1, <3>1
    <3> QED BY <2>1, <3>2, <3>3 DEF Elsewhere, TInv, TypeOK
  <2>3. \A t : Share(alloc', i, t) = Share(alloc, i, t)
    BY <2>2 DEF Share
  <2>4. ManagedMove(i)
    BY <2>1, <2>3 DEF ManagedMove
  <2> QED BY <2>1, <2>2, <2>4, StillReserved, MovesAre, AccountsFollow DEF TInv, Moves
<1> QED BY <1>1, <1>2, <1>3 DEF AllocationStep

LEMMA OrphanAInv ==
  ASSUME TInv, AInv, NEW t \in Tiers, NEW b \in Sizes \cup {Budget[t]}, RecordOrphanedRelease(t, b)
  PROVE  AInv'
<1>1. b \in Nat /\ managed \in [Tiers -> Nat] /\ orphaned \in [Tiers -> Nat]
  BY BytesAssumption DEF TInv, TypeOK
<1>2. /\ managed' = With(managed, t, b) /\ orphaned' = With(orphaned, t, b)
      /\ UNCHANGED <<reserved, active, alloc, loads, claim>>
  BY DEF RecordOrphanedRelease, objects
<1>3. ASSUME NEW u \in Tiers
      PROVE  managed'[u] = BytesIn(alloc, u) + orphaned'[u]
  <2>1. PICK g \in Nat : g = Gain(u, t, b)
    BY <1>1 DEF Gain
  <2>2. managed'[u] = managed[u] + g /\ orphaned'[u] = orphaned[u] + g
    BY <1>1, <1>2, <2>1 DEF With, Gain
  <2>3. PICK m \in Nat, o \in Nat : m = managed[u] /\ o = orphaned[u]
    BY <1>1
  <2>4. PICK c \in Nat : c = BytesIn(alloc, u)
    BY SumTypes, AInvIs DEF TInv, TypeOK
  <2>5. m = c + o
    BY <2>3, <2>4, AInvIs
  <2>6. m + g = c + (o + g)
    BY <2>5
  <2> QED BY <2>2, <2>3, <2>4, <2>6
<1> QED BY <1>2, <1>3, AInvIs, AInvNext

LEMMA BeginPressureActionAInv ==
  ASSUME TInv, TInv', AInv, BeginPressureAction
  PROVE  AInv'
<1>1. PICK a : a = Head(plan)
  OBVIOUS
<1>2. a \in Action
  BY <1>1 DEF BeginPressureAction, TInv, TypeOK
<1>3. PICK i \in Ids : i = a.id
  BY <1>2 DEF Action
<1>4. /\ claim[i] = NoAction /\ claim' = [claim EXCEPT ![i] = a]
      /\ UNCHANGED <<managed, alloc, loads, orphaned>>
      /\ IF a.to = NoTier THEN reserved' = reserved /\ active' = active
         ELSE reserved' = With(reserved, a.to, a.bytes) /\ active' = With(active, a.to, 1)
  BY <1>1, <1>3 DEF BeginPressureAction, Unclaimed, lost
<1>5. (a.to # NoTier => a.to \in Tiers) /\ a.bytes \in Nat /\ a # NoAction
  BY <1>2, BytesAssumption DEF Action
<1>6. reserved \in [Tiers -> Nat] /\ active \in [Tiers -> Nat]
  BY DEF TInv, TypeOK
<1>7. /\ Elsewhere(claim, claim', i) /\ claim'[i] = a
      /\ Elsewhere(alloc, alloc', i) /\ Elsewhere(loads, loads', i)
  BY <1>4, Same DEF Elsewhere, TInv, TypeOK
<1>8. ManagedMove(i)
  BY <1>4 DEF ManagedMove
<1>9. ReservedMove(i) /\ ActiveMove(i)
  <2> SUFFICES ASSUME NEW t \in Tiers
               PROVE  /\ reserved'[t] + Share(loads, i, t) + ShareTo(claim, i, t)
                           = reserved[t] + Share(loads', i, t) + ShareTo(claim', i, t)
                      /\ active'[t] + Count(loads, i, t) + CountTo(claim, i, t)
                           = active[t] + Count(loads', i, t) + CountTo(claim', i, t)
    BY DEF ReservedMove, ActiveMove
  <2>1. PICK s \in Nat, n \in Nat : s = Share(loads, i, t) /\ n = Count(loads, i, t)
    BY Contribution DEF TInv
  <2>2. PICK r \in Nat, k \in Nat : r = reserved[t] /\ k = active[t]
    BY <1>6
  <2>3. PICK g \in Nat, h \in Nat : g = Gain(t, a.to, a.bytes) /\ h = Gain(t, a.to, 1)
    BY <1>5 DEF Gain
  <2>4. reserved'[t] = r + g /\ active'[t] = k + h
    <3>1. CASE a.to = NoTier
      <4>1. t # a.to
        BY <3>1 DEF Tiers, NoTier
      <4> QED BY <1>4, <1>6, <2>2, <2>3, <3>1, <4>1 DEF Gain
    <3>2. CASE a.to # NoTier
      <4>1. reserved' = With(reserved, a.to, a.bytes) /\ active' = With(active, a.to, 1)
        BY <1>4, <3>2
      <4> QED BY <1>5, <1>6, <2>2, <2>3, <3>2, <4>1 DEF With, Gain
    <3> QED BY <3>1, <3>2
  <2>5. /\ ShareTo(claim, i, t) = 0 /\ ShareTo(claim', i, t) = g
        /\ CountTo(claim, i, t) = 0 /\ CountTo(claim', i, t) = h
    BY <1>4, <1>5, <1>7, <2>3 DEF ShareTo, CountTo, Gain
  <2>6. s = Share(loads', i, t) /\ n = Count(loads', i, t)
    BY <1>4, <2>1
  <2> QED BY <2>1, <2>2, <2>4, <2>5, <2>6
<1> QED BY <1>7, <1>8, <1>9, MovesAre, AccountsFollow DEF TInv, Moves

LEMMA CommitActionAInv ==
  ASSUME TInv, TInv', AInv, NEW i \in Ids, CommitAction(i)
  PROVE  AInv'
<1>1. PICK a \in Action : a = claim[i]
  BY DEF CommitAction, TInv, TypeOK
<1>2. PICK b \in Allocation : b = alloc[i] /\ b.tier = a.from /\ b.bytes = a.bytes
  BY <1>1 DEF CommitAction, Fresh, TInv, TypeOK
<1>3. /\ claim[i] # NoAction /\ loads' = loads /\ orphaned' = orphaned /\ Unclaim(i)
  BY DEF CommitAction, lost
<1>4. Elsewhere(claim, claim', i) /\ ReservedMove(i) /\ ActiveMove(i) /\ Elsewhere(loads, loads', i)
  BY <1>3, Same, ClaimReleased
<1>5. CASE a.to = NoTier
  <2>1. managed' = Without(managed, b.tier, b.bytes) /\ alloc' = [alloc EXCEPT ![i] = NoAllocation]
    BY <1>1, <1>2, <1>5 DEF CommitAction
  <2>2. Elsewhere(alloc, alloc', i) /\ ManagedMove(i)
    BY <1>2, <1>3, <2>1, AllocationLeaves
  <2> QED BY <1>4, <2>2, MovesAre, AccountsFollow DEF TInv, Moves
<1>6. CASE a.to # NoTier
  <2>1. PICK c : c = [b EXCEPT !.tier = a.to, !.target = NoTier]
    OBVIOUS
  <2>2. a.to \in Tiers /\ a.from \in Tiers /\ a.bytes \in Nat
    BY <1>6, BytesAssumption DEF Action
  <2>3. c # NoAllocation /\ c.tier = a.to /\ c.bytes = a.bytes
    <3>1. c \in Allocation
      BY <1>2, <2>1, <2>2 DEF Allocation
    <3> QED BY <1>2, <2>1, <3>1 DEF Allocation
  <2>4. /\ managed' = With(Without(managed, a.from, a.bytes), a.to, a.bytes)
        /\ alloc' = [alloc EXCEPT ![i] = c]
    BY <1>1, <1>2, <1>6, <2>1 DEF CommitAction
  <2>5. Elsewhere(alloc, alloc', i) /\ alloc'[i] = c
    BY <2>4 DEF Elsewhere, TInv, TypeOK
  <2>6. ManagedMove(i)
    <3> SUFFICES ASSUME NEW t \in Tiers
                 PROVE  managed'[t] + Share(alloc, i, t) + orphaned[t]
                          = managed[t] + Share(alloc', i, t) + orphaned'[t]
      BY DEF ManagedMove
    <3>1. managed \in [Tiers -> Nat]
      BY DEF TInv, TypeOK
    <3>2. PICK m \in Nat, o \in Nat : m = managed[t] /\ o = orphaned[t]
      BY DEF TInv, TypeOK
    <3>3. PICK g \in Nat : g = Gain(t, a.from, a.bytes) /\ g = Share(alloc, i, t) /\ g <= m
      BY <1>2, <3>2, Contribution DEF Share, Gain, TInv
    <3>4. PICK h \in Nat : h = Gain(t, a.to, a.bytes)
      BY <2>2 DEF Gain
    <3>5. Share(alloc', i, t) = h
      BY <2>3, <2>5, <3>4 DEF Share, Gain
    <3>6. PICK w \in [Tiers -> Nat] : w = Without(managed, a.from, a.bytes)
      BY <2>2, <3>1, AccountTypes
    <3>7. w[t] + g = m
      BY <2>2, <3>1, <3>2, <3>3, <3>6 DEF Without, Less, Gain
    <3>8. managed'[t] = w[t] + h
      BY <2>2, <2>4, <3>4, <3>6 DEF With, Gain
    <3>9. PICK v \in Nat : v = w[t]
      BY <3>6
    <3>10. orphaned'[t] = o
      BY <1>3, <3>2
    <3> QED BY <3>2, <3>3, <3>5, <3>7, <3>8, <3>9, <3>10
  <2> QED BY <1>4, <2>5, <2>6, MovesAre, AccountsFollow DEF TInv, Moves
<1> QED BY <1>5, <1>6

LEMMA DropActionAInv ==
  ASSUME TInv, TInv', AInv, NEW i \in Ids, DropAction(i)
  PROVE  AInv'
<1>1. claim[i] # NoAction /\ Unclaim(i) /\ UNCHANGED <<managed, alloc, loads, orphaned>>
  BY DEF DropAction, lost
<1>2. /\ Elsewhere(claim, claim', i) /\ ReservedMove(i) /\ ActiveMove(i)
      /\ Elsewhere(alloc, alloc', i) /\ Elsewhere(loads, loads', i)
  BY <1>1, Same, ClaimReleased
<1>3. ManagedMove(i)
  BY <1>1 DEF ManagedMove
<1> QED BY <1>2, <1>3, MovesAre, AccountsFollow DEF TInv, Moves

-----------------------------------------------------------------------------
(* Grants *)

\* Telemetry reports no more than there is.
Seen == \A t \in Tiers : avail[t] <= Total[t]

\* What is granted in a tier: all it is charged with but the orphans.
Granted(t) == managed[t] - orphaned[t] + reserved[t]

\* The levels, as comparisons of bytes.
GInv ==
  /\ \A t \in Tiers : 10000 * Granted(t) < 8500 * TierBudget(t)
  /\ topology = "unified" => 10000 * (Granted("host") + Granted("gpu")) < 8500 * SharedBudget

LEMMA BudgetTypes ==
  /\ \A t \in Tiers : TierBudget(t) \in Nat \ {0} /\ TierBudget(t) <= Budget[t] /\ TierBudget(t) <= Total[t]
  /\ SharedBudget \in Nat \ {0} /\ \A t \in Tiers : SharedBudget <= TierBudget(t)
  /\ \A t \in Tiers : Budget[t] \in Nat /\ Total[t] \in Nat
<1>1. \A t \in Tiers : Budget[t] \in Nat \ {0} /\ Total[t] \in Nat \ {0}
  BY BytesAssumption
<1>2. \A t \in Tiers : TierBudget(t) \in Nat \ {0} /\ TierBudget(t) <= Budget[t] /\ TierBudget(t) <= Total[t]
  BY <1>1 DEF TierBudget, Least
<1>3. "host" \in Tiers /\ "gpu" \in Tiers /\ \A t \in Tiers : t = "host" \/ t = "gpu"
  BY DEF Tiers
<1>4. PICK h \in Nat \ {0}, g \in Nat \ {0} : h = TierBudget("host") /\ g = TierBudget("gpu")
  BY <1>2, <1>3
<1>5. SharedBudget = Least(h, g)
  BY <1>4 DEF SharedBudget
<1>6. SharedBudget \in Nat \ {0} /\ SharedBudget <= h /\ SharedBudget <= g
  BY <1>5 DEF Least
<1> QED BY <1>1, <1>2, <1>3, <1>4, <1>6

\* The bytes all entries of an allocation hold in tier t.
Weight(i, t) == Share(alloc, i, t) + Share(loads, i, t) + ShareTo(claim, i, t)

LEMMA GrantedIs ==
  ASSUME TInv, AInv, NEW t \in Tiers
  PROVE  /\ Granted(t) \in Nat
         /\ Granted(t) = BytesIn(alloc, t) + BytesIn(loads, t) + BytesOf(claim, Demoting(claim, t))
<1>1. PICK a \in Nat, l \in Nat, c \in Nat :
        a = BytesIn(alloc, t) /\ l = BytesIn(loads, t) /\ c = BytesOf(claim, Demoting(claim, t))
  BY SumTypes, AInvIs DEF TInv, TypeOK
<1>2. PICK m \in Nat, r \in Nat, o \in Nat : m = managed[t] /\ r = reserved[t] /\ o = orphaned[t]
  BY DEF TInv, TypeOK
<1>3. m = a + o /\ r = l + c
  BY <1>1, <1>2, AInvIs
<1> QED BY <1>1, <1>2, <1>3 DEF Granted

LEMMA GInvGrants ==
  ASSUME TInv, AInv, GInv
  PROVE  GrantsStayBelowHard
<1>1. ASSUME NEW t \in Tiers
      PROVE  Classify(Utilization(Granted(t), TierBudget(t))) < Hard
  BY GrantedIs, BudgetTypes, BelowHard DEF GInv
<1>2. ASSUME topology = "unified"
      PROVE  Classify(Utilization(Granted("host") + Granted("gpu"), SharedBudget)) < Hard
  <2>1. PICK u \in Nat : u = Granted("host") + Granted("gpu")
    BY GrantedIs DEF Tiers
  <2>2. 10000 * u < 8500 * SharedBudget
    BY <1>2, <2>1 DEF GInv
  <2> QED BY <2>1, <2>2, BudgetTypes, BelowHard
<1> QED BY <1>1, <1>2 DEF GrantsStayBelowHard, Granted

LEMMA InitGInv == Init => GInv /\ Seen
<1> SUFFICES ASSUME Init PROVE GInv /\ Seen
  OBVIOUS
<1>1. \A t \in Tiers : managed[t] = 0 /\ reserved[t] = 0 /\ orphaned[t] = 0 /\ avail[t] = Total[t]
  BY DEF Init
<1>2. \A t \in Tiers : Granted(t) = 0
  BY <1>1 DEF Granted
<1>3. "host" \in Tiers /\ "gpu" \in Tiers
  BY DEF Tiers
<1>4. Seen
  BY <1>1, BudgetTypes DEF Seen
<1> QED BY <1>2, <1>3, <1>4, BudgetTypes DEF GInv

LEMMA GrantedNext ==
  ASSUME TInv', AInv', NEW t \in Tiers
  PROVE  /\ Granted(t)' \in Nat
         /\ Granted(t)' = BytesIn(alloc', t) + BytesIn(loads', t) + BytesOf(claim', Demoting(claim', t))
<1>1. PICK a \in Nat, l \in Nat, c \in Nat :
        a = BytesIn(alloc', t) /\ l = BytesIn(loads', t) /\ c = BytesOf(claim', Demoting(claim', t))
  BY SumTypes, AInvNext DEF TInv, TypeOK
<1>2. PICK m \in Nat, r \in Nat, o \in Nat : m = managed'[t] /\ r = reserved'[t] /\ o = orphaned'[t]
  BY DEF TInv, TypeOK
<1>3. m = a + o /\ r = l + c
  BY <1>1, <1>2, AInvNext
<1>4. Granted(t)' = m - o + r
  BY <1>2 DEF Granted
<1>5. Granted(t)' = a + l + c
  BY <1>3, <1>4
<1> QED BY <1>1, <1>5

\* Steps under which no tier is granted more.
LEMMA GrantsShrink ==
  ASSUME TInv, AInv, GInv, TInv', AInv', topology' = topology,
         \A t \in Tiers : Granted(t)' <= Granted(t)
  PROVE  GInv'
<1>1. "host" \in Tiers /\ "gpu" \in Tiers
  BY DEF Tiers
<1>2. \A t \in Tiers : Granted(t) \in Nat /\ Granted(t)' \in Nat /\ Granted(t)' <= Granted(t)
  BY GrantedIs, GrantedNext
<1>3. \A t \in Tiers : 10000 * Granted(t)' < 8500 * TierBudget(t)
  <2> SUFFICES ASSUME NEW t \in Tiers PROVE 10000 * Granted(t)' < 8500 * TierBudget(t)
    OBVIOUS
  <2>1. PICK u \in Nat, v \in Nat, b \in Nat : u = Granted(t) /\ v = Granted(t)' /\ b = TierBudget(t)
    BY <1>2, BudgetTypes
  <2>2. v <= u /\ 10000 * u < 8500 * b
    BY <1>2, <2>1 DEF GInv
  <2>3. 10000 * v < 8500 * b
    BY <2>2
  <2> QED BY <2>1, <2>3
<1>4. ASSUME topology = "unified"
      PROVE  10000 * (Granted("host")' + Granted("gpu")') < 8500 * SharedBudget
  <2>1. PICK u \in Nat, v \in Nat : u = Granted("host") /\ v = Granted("host")'
    BY <1>1, <1>2
  <2>2. PICK x \in Nat, y \in Nat : x = Granted("gpu") /\ y = Granted("gpu")'
    BY <1>1, <1>2
  <2>3. PICK b \in Nat : b = SharedBudget
    BY BudgetTypes
  <2>4. v <= u /\ y <= x /\ 10000 * (u + x) < 8500 * b
    BY <1>1, <1>2, <1>4, <2>1, <2>2, <2>3 DEF GInv
  <2>5. 10000 * (v + y) < 8500 * b
    BY <2>4
  <2> QED BY <2>1, <2>2, <2>3, <2>5
<1> QED BY <1>3, <1>4 DEF GInv

\* What an allocation holds in the tiers decides what is granted in them.
LEMMA GrantedMoves ==
  ASSUME TInv, AInv, TInv', AInv', NEW i \in Ids, NEW t \in Tiers,
         Elsewhere(alloc, alloc', i), Elsewhere(loads, loads', i), Elsewhere(claim, claim', i)
  PROVE  /\ Weight(i, t) \in Nat /\ Weight(i, t)' \in Nat
         /\ Granted(t)' + Weight(i, t) = Granted(t) + Weight(i, t)'
<1>1. /\ alloc \in [Ids -> Allocation \cup {NoAllocation}] /\ alloc' \in [Ids -> Allocation \cup {NoAllocation}]
      /\ IsFiniteSet(Entries(alloc)) /\ Elsewhere(alloc, alloc', i)
  BY AInvIs DEF TInv, TypeOK
<1>2. PICK a \in Nat, b \in Nat, s \in Nat, r \in Nat :
        /\ a = BytesIn(alloc, t) /\ b = BytesIn(alloc', t)
        /\ s = Share(alloc, i, t) /\ r = Share(alloc', i, t)
        /\ b + s = a + r
  <2>1. /\ IsFiniteSet(Entries(alloc'))
        /\ BytesIn(alloc, t) \in Nat /\ BytesIn(alloc', t) \in Nat
        /\ Share(alloc, i, t) \in Nat /\ Share(alloc', i, t) \in Nat
        /\ BytesIn(alloc', t) + Share(alloc, i, t) = BytesIn(alloc, t) + Share(alloc', i, t)
    BY <1>1, EntryChanges
  <2> QED BY <2>1
<1>3. /\ loads \in [Ids -> Allocation \cup {NoAllocation}] /\ loads' \in [Ids -> Allocation \cup {NoAllocation}]
      /\ IsFiniteSet(Entries(loads)) /\ Elsewhere(loads, loads', i)
  BY AInvIs DEF TInv, TypeOK
<1>4. PICK l \in Nat, m \in Nat, u \in Nat, v \in Nat :
        /\ l = BytesIn(loads, t) /\ m = BytesIn(loads', t)
        /\ u = Share(loads, i, t) /\ v = Share(loads', i, t)
        /\ m + u = l + v
  <2>1. /\ IsFiniteSet(Entries(loads'))
        /\ BytesIn(loads, t) \in Nat /\ BytesIn(loads', t) \in Nat
        /\ Share(loads, i, t) \in Nat /\ Share(loads', i, t) \in Nat
        /\ BytesIn(loads', t) + Share(loads, i, t) = BytesIn(loads, t) + Share(loads', i, t)
    BY <1>3, EntryChanges
  <2> QED BY <2>1
<1>5. /\ claim \in [Ids -> Action \cup {NoAction}] /\ claim' \in [Ids -> Action \cup {NoAction}]
      /\ IsFiniteSet(Claims(claim)) /\ Elsewhere(claim, claim', i)
  BY AInvIs DEF TInv, TypeOK
<1>6. PICK c \in Nat, d \in Nat, x \in Nat, y \in Nat :
        /\ c = BytesOf(claim, Demoting(claim, t)) /\ d = BytesOf(claim', Demoting(claim', t))
        /\ x = ShareTo(claim, i, t) /\ y = ShareTo(claim', i, t)
        /\ d + x = c + y
  <2>1. /\ IsFiniteSet(Claims(claim'))
        /\ BytesOf(claim, Demoting(claim, t)) \in Nat /\ BytesOf(claim', Demoting(claim', t)) \in Nat
        /\ ShareTo(claim, i, t) \in Nat /\ ShareTo(claim', i, t) \in Nat
        /\ BytesOf(claim', Demoting(claim', t)) + ShareTo(claim, i, t) = BytesOf(claim, Demoting(claim, t)) + ShareTo(claim', i, t)
    BY <1>5, ClaimChanges
  <2> QED BY <2>1
<1>7. Weight(i, t) = s + u + x /\ Weight(i, t)' = r + v + y
  BY <1>2, <1>4, <1>6 DEF Weight
<1>8. Granted(t) = a + l + c /\ Granted(t)' = b + m + d
  BY <1>2, <1>4, <1>6, GrantedIs, GrantedNext
<1> QED BY <1>2, <1>4, <1>6, <1>7, <1>8

\* What the shares of an entry are made of.
LEMMA WeightIs ==
  ASSUME TInv, TInv', AInv, AInv', NEW i \in Ids, NEW t \in Tiers
  PROVE  \E s, r, c, u, v, d \in Nat :
           /\ s = Share(alloc, i, t) /\ r = Share(loads, i, t) /\ c = ShareTo(claim, i, t)
           /\ u = Share(alloc', i, t) /\ v = Share(loads', i, t) /\ d = ShareTo(claim', i, t)
           /\ Weight(i, t) = s + r + c /\ Weight(i, t)' = u + v + d
<1>1. /\ alloc \in [Ids -> Allocation \cup {NoAllocation}] /\ alloc' \in [Ids -> Allocation \cup {NoAllocation}]
      /\ loads \in [Ids -> Allocation \cup {NoAllocation}] /\ loads' \in [Ids -> Allocation \cup {NoAllocation}]
      /\ claim \in [Ids -> Action \cup {NoAction}] /\ claim' \in [Ids -> Action \cup {NoAction}]
  BY DEF TInv, TypeOK
<1>2. ASSUME NEW f \in [Ids -> Allocation \cup {NoAllocation}] PROVE Share(f, i, t) \in Nat
  BY AllocationTypes DEF Share
<1>3. ASSUME NEW c \in [Ids -> Action \cup {NoAction}] PROVE ShareTo(c, i, t) \in Nat
  BY BytesAssumption DEF ShareTo, Action
<1>4. /\ Share(alloc, i, t) \in Nat /\ Share(loads, i, t) \in Nat /\ ShareTo(claim, i, t) \in Nat
      /\ Share(alloc', i, t) \in Nat /\ Share(loads', i, t) \in Nat /\ ShareTo(claim', i, t) \in Nat
  BY <1>1, <1>2, <1>3
<1> USE <1>4
<1>5. WITNESS Share(alloc, i, t) \in Nat, Share(loads, i, t) \in Nat, ShareTo(claim, i, t) \in Nat,
              Share(alloc', i, t) \in Nat, Share(loads', i, t) \in Nat, ShareTo(claim', i, t) \in Nat
<1> QED BY DEF Weight

LEMMA WeightFalls ==
  ASSUME TInv, AInv, GInv, TInv', AInv', topology' = topology, NEW i \in Ids,
         Elsewhere(alloc, alloc', i), Elsewhere(loads, loads', i), Elsewhere(claim, claim', i),
         \A t \in Tiers : Weight(i, t)' <= Weight(i, t)
  PROVE  GInv'
<1>1. ASSUME NEW t \in Tiers PROVE Granted(t)' <= Granted(t)
  <2>1. PICK w \in Nat, v \in Nat : w = Weight(i, t) /\ v = Weight(i, t)'
    BY GrantedMoves
  <2>2. PICK g \in Nat, h \in Nat : g = Granted(t) /\ h = Granted(t)'
    BY GrantedIs, GrantedNext
  <2>3. h + w = g + v /\ v <= w
    BY <2>1, <2>2, GrantedMoves
  <2> QED BY <2>2, <2>3
<1> QED BY <1>1, GrantsShrink

LEMMA SameGrants ==
  ASSUME TInv, AInv, GInv, TInv', AInv', UNCHANGED <<topology, managed, reserved, orphaned>>
  PROVE  GInv'
<1>1. ASSUME NEW t \in Tiers PROVE Granted(t)' <= Granted(t)
  <2>1. Granted(t)' = Granted(t) /\ Granted(t) \in Nat
    BY GrantedIs DEF Granted
  <2> QED BY <2>1
<1> QED BY <1>1, GrantsShrink

LEMMA LoadEndsGInv ==
  ASSUME TInv, AInv, GInv, TInv', AInv', NEW i \in Ids, CommitLoad(i) \/ DropLoad(i)
  PROVE  GInv'
<1>1. PICK a \in Allocation : a = loads[i] /\ alloc[i] = NoAllocation
  BY DEF CommitLoad, DropLoad, TInv, TypeOK
<1>2. /\ topology' = topology /\ claim' = claim /\ loads' = [loads EXCEPT ![i] = NoAllocation]
      /\ alloc' = alloc \/ alloc' = [alloc EXCEPT ![i] = a]
  BY <1>1 DEF CommitLoad, DropLoad
<1>3. /\ Elsewhere(alloc, alloc', i) /\ Elsewhere(loads, loads', i) /\ Elsewhere(claim, claim', i)
      /\ loads'[i] = NoAllocation /\ alloc'[i] \in {a, NoAllocation}
  BY <1>1, <1>2 DEF Elsewhere, TInv, TypeOK
<1>4. ASSUME NEW t \in Tiers PROVE Weight(i, t)' <= Weight(i, t)
  <2>1. PICK s, r, c, u, v, d \in Nat :
          /\ s = Share(alloc, i, t) /\ r = Share(loads, i, t) /\ c = ShareTo(claim, i, t)
          /\ u = Share(alloc', i, t) /\ v = Share(loads', i, t) /\ d = ShareTo(claim', i, t)
          /\ Weight(i, t) = s + r + c /\ Weight(i, t)' = u + v + d
    BY WeightIs
  <2>2. v = 0 /\ d = c
    BY <1>2, <1>3, <2>1 DEF Share
  <2>3. u <= r
    BY <1>1, <1>3, <2>1 DEF Share
  <2> QED BY <2>1, <2>2, <2>3
<1> QED BY <1>2, <1>3, <1>4, WeightFalls

LEMMA AllocationStepGInv ==
  ASSUME TInv, AInv, GInv, TInv', AInv', NEW i \in Ids, AllocationStep(i)
  PROVE  GInv'
<1>1. CASE TouchAllocation(i)
  BY <1>1, SameGrants DEF TouchAllocation, accounts, lost
<1>2. CASE RemoveAllocation(i)
  <2>1. /\ topology' = topology /\ loads' = loads /\ claim' = claim
        /\ alloc' = [alloc EXCEPT ![i] = NoAllocation]
    BY <1>2 DEF RemoveAllocation
  <2>2. /\ Elsewhere(alloc, alloc', i) /\ Elsewhere(loads, loads', i) /\ Elsewhere(claim, claim', i)
        /\ alloc'[i] = NoAllocation
    BY <2>1 DEF Elsewhere, TInv, TypeOK
  <2>3. ASSUME NEW t \in Tiers PROVE Weight(i, t)' <= Weight(i, t)
    <3>1. PICK s, r, c, u, v, d \in Nat :
            /\ s = Share(alloc, i, t) /\ r = Share(loads, i, t) /\ c = ShareTo(claim, i, t)
            /\ u = Share(alloc', i, t) /\ v = Share(loads', i, t) /\ d = ShareTo(claim', i, t)
            /\ Weight(i, t) = s + r + c /\ Weight(i, t)' = u + v + d
      BY WeightIs
    <3>2. u = 0 /\ v = r /\ d = c
      BY <2>1, <2>2, <3>1 DEF Share
    <3> QED BY <3>1, <3>2
  <2> QED BY <2>1, <2>2, <2>3, WeightFalls
<1>3. ASSUME NEW pinned \in BOOLEAN, SetPinned(i, pinned) PROVE GInv'
  BY <1>3, SameGrants DEF SetPinned, accounts, lost
<1> QED BY <1>1, <1>2, <1>3 DEF AllocationStep

LEMMA OrphanGInv ==
  ASSUME TInv, AInv, GInv, TInv', AInv',
         NEW t \in Tiers, NEW b \in Sizes \cup {Budget[t]}, RecordOrphanedRelease(t, b)
  PROVE  GInv'
<1>1. /\ b \in Nat /\ managed \in [Tiers -> Nat] /\ reserved \in [Tiers -> Nat] /\ orphaned \in [Tiers -> Nat]
      /\ topology' = topology /\ reserved' = reserved
      /\ managed' = With(managed, t, b) /\ orphaned' = With(orphaned, t, b)
  BY BytesAssumption DEF TInv, TypeOK, RecordOrphanedRelease
<1>2. ASSUME NEW u \in Tiers PROVE Granted(u)' <= Granted(u)
  <2>1. PICK m \in Nat, r \in Nat, o \in Nat : m = managed[u] /\ r = reserved[u] /\ o = orphaned[u]
    BY <1>1
  <2>2. PICK g \in Nat : managed'[u] = m + g /\ orphaned'[u] = o + g
    <3>1. CASE u = t
      BY <1>1, <2>1, <3>1 DEF With
    <3>2. CASE u # t
      <4>1. managed'[u] = m /\ orphaned'[u] = o
        BY <1>1, <2>1, <3>2 DEF With
      <4>2. managed'[u] = m + 0 /\ orphaned'[u] = o + 0 /\ 0 \in Nat
        BY <4>1
      <4> QED BY <4>2
    <3> QED BY <3>1, <3>2
  <2>3. Granted(u)' = (m + g) - (o + g) + r /\ Granted(u) = m - o + r
    BY <1>1, <2>1, <2>2 DEF Granted
  <2> QED BY <2>3
<1> QED BY <1>1, <1>2, GrantsShrink

LEMMA ActionEndsGInv ==
  ASSUME TInv, AInv, GInv, TInv', AInv', NEW i \in Ids, CommitAction(i) \/ DropAction(i)
  PROVE  GInv'
<1>1. PICK a \in Action : a = claim[i]
  BY DEF CommitAction, DropAction, TInv, TypeOK
<1>2. /\ topology' = topology /\ loads' = loads /\ claim' = [claim EXCEPT ![i] = NoAction]
  BY DEF CommitAction, DropAction, Unclaim
<1>3. Elsewhere(loads, loads', i) /\ Elsewhere(claim, claim', i) /\ claim'[i] = NoAction
  BY <1>2 DEF Elsewhere, TInv, TypeOK
<1>4. /\ Elsewhere(alloc, alloc', i)
      /\ \/ alloc'[i] = alloc[i] \/ alloc'[i] = NoAllocation
         \/ a.to # NoTier /\ alloc'[i].tier = a.to /\ alloc'[i].bytes = a.bytes
  <2>1. CASE CommitAction(i)
    <3>1. PICK b \in Allocation : b = alloc[i] /\ b.bytes = a.bytes
      BY <1>1, <2>1 DEF CommitAction, Fresh, TInv, TypeOK
    <3>2. PICK c : c = [b EXCEPT !.tier = a.to, !.target = NoTier]
      OBVIOUS
    <3>3. c.tier = a.to /\ c.bytes = a.bytes
      BY <3>1, <3>2 DEF Allocation
    <3>4. alloc' = [alloc EXCEPT ![i] = IF a.to = NoTier THEN NoAllocation ELSE c]
      BY <1>1, <2>1, <3>1, <3>2 DEF CommitAction
    <3> QED BY <3>3, <3>4 DEF Elsewhere, TInv, TypeOK
  <2>2. CASE DropAction(i)
    BY <2>2 DEF DropAction, Elsewhere
  <2> QED BY <2>1, <2>2
<1>5. ASSUME NEW t \in Tiers PROVE Weight(i, t)' <= Weight(i, t)
  <2>1. PICK s, r, c, u, v, d \in Nat :
          /\ s = Share(alloc, i, t) /\ r = Share(loads, i, t) /\ c = ShareTo(claim, i, t)
          /\ u = Share(alloc', i, t) /\ v = Share(loads', i, t) /\ d = ShareTo(claim', i, t)
          /\ Weight(i, t) = s + r + c /\ Weight(i, t)' = u + v + d
    BY WeightIs
  <2>2. v = r /\ d = 0
    BY <1>2, <1>3, <2>1 DEF Share, ShareTo
  <2>3. u <= s \/ u <= c
    <3>1. CASE alloc'[i] = alloc[i]
      BY <2>1, <3>1 DEF Share
    <3>2. CASE alloc'[i] = NoAllocation
      BY <2>1, <3>2 DEF Share
    <3>3. CASE a.to # NoTier /\ alloc'[i].tier = a.to /\ alloc'[i].bytes = a.bytes
      <4>1. c = IF a.to = t THEN a.bytes ELSE 0
        BY <1>1, <2>1 DEF ShareTo
      <4>2. u = 0 \/ (a.to = t /\ u = a.bytes)
        BY <2>1, <3>3 DEF Share
      <4> QED BY <2>1, <4>1, <4>2
    <3> QED BY <1>4, <3>1, <3>2, <3>3
  <2> QED BY <2>1, <2>2, <2>3
<1> QED BY <1>2, <1>3, <1>4, <1>5, WeightFalls

\* Everyone else only looks, or moves nothing.
LEMMA SeenStays ==
  ASSUME Seen, avail' = avail \/ \E av \in Samples : avail' = av
  PROVE  Seen'
BY SampleTypes DEF Seen

\* Telemetry as it can be.
Telemetry == {av \in [Tiers -> Nat] : \A t \in Tiers : av[t] <= Total[t]}

\* What is seen in use is at least what is observed and at least what is accounted for.
LEMMA UsedIs ==
  ASSUME TInv, NEW av \in Telemetry
  PROVE  /\ \A t \in Tiers :
              /\ Observed(t, av) \in Nat /\ TierUsed(t, av) \in Nat
              /\ Observed(t, av) + av[t] = Total[t]
              /\ TierUsed(t, av) >= Observed(t, av) + reserved[t]
              /\ TierUsed(t, av) >= managed[t] + reserved[t]
         /\ SharedUsed(av) \in Nat
         /\ SharedUsed(av) >= Both(managed) + Both(reserved)
         /\ \A t \in Tiers : /\ SharedUsed(av) >= Observed(t, av) + Both(reserved)
                             /\ SharedUsed(av) >= TierUsed(t, av)
<1>1. "host" \in Tiers /\ "gpu" \in Tiers /\ \A t \in Tiers : t = "host" \/ t = "gpu"
  BY DEF Tiers
<1>2. PICK m \in Nat, n \in Nat, r \in Nat, s \in Nat :
        m = managed["host"] /\ n = managed["gpu"] /\ r = reserved["host"] /\ s = reserved["gpu"]
  BY <1>1 DEF TInv, TypeOK
<1>3. PICK h \in Nat, g \in Nat, x \in Nat, y \in Nat :
        /\ h = Total["host"] /\ g = Total["gpu"] /\ x = av["host"] /\ y = av["gpu"]
        /\ x <= h /\ y <= g
  BY <1>1, BudgetTypes DEF Telemetry
<1>4. PICK o \in Nat, p \in Nat : o = h - x /\ p = g - y
  BY <1>3
<1>5. Observed("host", av) = o /\ Observed("gpu", av) = p
  BY <1>3, <1>4 DEF Observed
<1>6. TierUsed("host", av) = Most(o, m) + r /\ TierUsed("gpu", av) = Most(p, n) + s
  BY <1>2, <1>5 DEF TierUsed
<1>7. SharedUsed(av) = Most(Most(o, p), m + n) + (r + s)
  BY <1>2, <1>5 DEF SharedUsed, Both
<1>8. Both(managed) = m + n /\ Both(reserved) = r + s
  BY <1>2 DEF Both
<1>9. PICK q \in Nat, w \in Nat, z \in Nat : q = Most(o, m) /\ w = Most(p, n) /\ z = Most(Most(o, p), m + n)
  BY DEF Most
<1>10. q >= o /\ q >= m /\ w >= p /\ w >= n /\ z >= o /\ z >= p /\ z >= m + n /\ z >= q /\ z >= w
  BY <1>9 DEF Most
<1>11. /\ TierUsed("host", av) = q + r /\ TierUsed("gpu", av) = w + s
       /\ SharedUsed(av) = z + (r + s)
  BY <1>6, <1>7, <1>9
<1>12. ASSUME NEW t \in Tiers
       PROVE  /\ Observed(t, av) \in Nat /\ TierUsed(t, av) \in Nat
              /\ Observed(t, av) + av[t] = Total[t]
              /\ TierUsed(t, av) >= Observed(t, av) + reserved[t]
              /\ TierUsed(t, av) >= managed[t] + reserved[t]
              /\ SharedUsed(av) >= Observed(t, av) + Both(reserved)
              /\ SharedUsed(av) >= TierUsed(t, av)
  <2>1. CASE t = "host"
    BY <1>2, <1>3, <1>4, <1>5, <1>8, <1>10, <1>11, <2>1
  <2>2. CASE t = "gpu"
    BY <1>2, <1>3, <1>4, <1>5, <1>8, <1>10, <1>11, <2>2
  <2> QED BY <1>1, <2>1, <2>2
<1> QED BY <1>8, <1>10, <1>11, <1>12

\* Bytes that were admitted to a tier do not make it hard there, nor where it is shared.
LEMMA AdmittedGInv ==
  ASSUME TInv, AInv, GInv, TInv', AInv', NEW t \in Tiers, NEW b \in Nat,
         NEW av \in Telemetry, CanAccept(t, b, av),
         UNCHANGED <<topology, managed, orphaned>>, reserved' = With(reserved, t, b)
  PROVE  GInv'
<1>1. "host" \in Tiers /\ "gpu" \in Tiers /\ \A u \in Tiers : u = "host" \/ u = "gpu"
  BY DEF Tiers
<1>2. managed \in [Tiers -> Nat] /\ reserved \in [Tiers -> Nat] /\ orphaned \in [Tiers -> Nat]
  BY DEF TInv, TypeOK
<1>3. ASSUME NEW u \in Tiers, u # t PROVE Granted(u)' = Granted(u)
  BY <1>2, <1>3 DEF Granted, With
<1>4. Granted(t)' = Granted(t) + b
  <2>1. PICK m \in Nat, r \in Nat, o \in Nat : m = managed[t] /\ r = reserved[t] /\ o = orphaned[t]
    BY <1>2
  <2>2. reserved'[t] = r + b
    BY <1>2, <2>1 DEF With
  <2>3. Granted(t) = m - o + r /\ Granted(t)' = m - o + (r + b)
    BY <2>1, <2>2 DEF Granted
  <2> QED BY <2>3
<1>5. ASSUME NEW u \in Tiers PROVE Granted(u) \in Nat /\ Granted(u) <= managed[u] + reserved[u]
  <2>1. PICK m \in Nat, r \in Nat, o \in Nat : m = managed[u] /\ r = reserved[u] /\ o = orphaned[u]
    BY <1>2
  <2>2. Granted(u) = m - o + r
    BY <2>1 DEF Granted
  <2> QED BY <2>1, <2>2, GrantedIs
<1>6. 10000 * Granted(t)' < 8500 * TierBudget(t)
  <2>1. PICK k \in Nat : k = TierUsed(t, av)
    BY UsedIs
  <2>2. PICK B \in Nat \ {0} : B = TierBudget(t)
    BY BudgetTypes
  <2>3. k + b \in Nat /\ Classify(Utilization(k + b, B)) < Hard
    BY <2>1, <2>2 DEF CanAccept
  <2>4. 10000 * (k + b) < 8500 * B
    BY <2>3, BelowHard
  <2>5. PICK g \in Nat : g = Granted(t)
    BY <1>5
  <2>6. g <= k
    <3>1. PICK m \in Nat, r \in Nat : m = managed[t] /\ r = reserved[t]
      BY <1>2
    <3>2. k >= m + r
      BY <2>1, <3>1, UsedIs
    <3>3. g <= m + r
      BY <1>5, <2>5, <3>1
    <3> QED BY <3>2, <3>3
  <2>7. Granted(t)' = g + b
    BY <1>4, <2>5
  <2> QED BY <2>2, <2>4, <2>6, <2>7
<1>7. \A u \in Tiers : 10000 * Granted(u)' < 8500 * TierBudget(u)
  <2>1. ASSUME NEW u \in Tiers, u # t PROVE 10000 * Granted(u)' < 8500 * TierBudget(u)
    BY <1>3, <2>1 DEF GInv
  <2> QED BY <1>6, <2>1
<1>8. ASSUME topology = "unified"
      PROVE  10000 * (Granted("host")' + Granted("gpu")') < 8500 * SharedBudget
  <2>1. PICK k \in Nat : k = SharedUsed(av)
    BY UsedIs
  <2>2. PICK B \in Nat \ {0} : B = SharedBudget
    BY BudgetTypes
  <2>3. k + b \in Nat /\ Classify(Utilization(k + b, B)) < Hard
    BY <1>8, <2>1, <2>2 DEF CanAccept
  <2>4. 10000 * (k + b) < 8500 * B
    BY <2>3, BelowHard
  <2>5. PICK g \in Nat, h \in Nat : g = Granted("host") /\ h = Granted("gpu")
    BY <1>1, <1>5
  <2>6. g + h <= k
    <3>1. PICK m \in Nat, r \in Nat : m = managed["host"] /\ r = reserved["host"] /\ g <= m + r
      BY <1>1, <1>2, <1>5, <2>5
    <3>2. PICK n \in Nat, s \in Nat : n = managed["gpu"] /\ s = reserved["gpu"] /\ h <= n + s
      BY <1>1, <1>2, <1>5, <2>5
    <3>3. k >= (m + n) + (r + s)
      BY <2>1, <3>1, <3>2, UsedIs DEF Both
    <3> QED BY <3>1, <3>2, <3>3
  <2>7. Granted("host")' + Granted("gpu")' = g + h + b
    <3>1. CASE t = "host"
      <4>1. Granted("host")' = g + b /\ Granted("gpu")' = h
        BY <1>1, <1>3, <1>4, <2>5, <3>1
      <4> QED BY <4>1
    <3>2. CASE t = "gpu"
      <4>1. Granted("host")' = g /\ Granted("gpu")' = h + b
        BY <1>1, <1>3, <1>4, <2>5, <3>2
      <4> QED BY <4>1
    <3> QED BY <1>1, <3>1, <3>2
  <2> QED BY <2>2, <2>4, <2>6, <2>7
<1>9. topology' = topology
  OBVIOUS
<1> QED BY <1>7, <1>8, <1>9 DEF GInv

LEMMA ReserveLoadGInv ==
  ASSUME TInv, AInv, GInv, TInv', AInv',
         NEW i \in Ids, NEW a \in Allocation, NEW av \in Samples, ReserveLoad(i, a, av)
  PROVE  GInv'
<1>1. /\ a.tier \in Tiers /\ a.bytes \in Nat
  BY AllocationTypes
<1>2. av \in Telemetry
  BY SampleTypes DEF Telemetry
<1>3. /\ CanAccept(a.tier, a.bytes, av) /\ reserved' = With(reserved, a.tier, a.bytes)
      /\ UNCHANGED <<topology, managed, orphaned>>
  BY DEF ReserveLoad, lost
<1> QED BY <1>1, <1>2, <1>3, AdmittedGInv

LEMMA BeginPressureActionGInv ==
  ASSUME TInv, AInv, GInv, Seen, TInv', AInv', BeginPressureAction
  PROVE  GInv'
<1>1. PICK a : a = Head(plan)
  OBVIOUS
<1>2. a \in Action
  BY <1>1 DEF BeginPressureAction, TInv, TypeOK
<1>3. UNCHANGED <<topology, managed, orphaned>>
  BY DEF BeginPressureAction, lost
<1>4. CASE a.to = NoTier
  <2>1. reserved' = reserved
    BY <1>1, <1>4 DEF BeginPressureAction
  <2> QED BY <1>3, <2>1, SameGrants
<1>5. CASE a.to # NoTier
  <2>1. a.to \in Tiers /\ a.bytes \in Nat
    BY <1>2, <1>5, BytesAssumption DEF Action
  <2>2. avail \in Telemetry
    BY DEF Telemetry, Seen, TInv, TypeOK
  <2>3. CanAccept(a.to, a.bytes, avail) /\ reserved' = With(reserved, a.to, a.bytes)
    BY <1>1, <1>5 DEF BeginPressureAction, StillAccepted
  <2> QED BY <1>3, <2>1, <2>2, <2>3, AdmittedGInv
<1> QED BY <1>4, <1>5

-----------------------------------------------------------------------------
(* The promise of a plan *)

\* A load of b bytes finds room in tier t, with telemetry av, once the plan and the
\* claimed actions are carried out: all of them free memory of t.
Redeemable(t, b, av) ==
  /\ av \in Telemetry
  /\ plan \in Seq(PlannedIn(t))
  /\ \A i \in Claimed : claim[i] \in PlannedIn(t)
  /\ 10000 * (EffectiveUsed(t, av) + b)
       <= 8499 * EffectiveBudget(t) + 10000 * (Relief(plan) + BytesOf(claim, Claimed))

PInv == promise # NoPromise => Redeemable(promise.tier, promise.bytes, promise.avail)

LEMMA EffectiveIs ==
  ASSUME TInv, NEW t \in Tiers, NEW av \in Telemetry
  PROVE  EffectiveUsed(t, av) \in Nat /\ EffectiveBudget(t) \in Nat \ {0}
BY UsedIs, BudgetTypes DEF EffectiveUsed, EffectiveBudget

LEMMA ActionBytes == \A a \in Action : a.bytes \in Nat /\ a.from \in Tiers /\ (a.to # NoTier => a.to \in Tiers)
BY BytesAssumption DEF Action

\* The claimed bytes change as the claim of one allocation does.
LEMMA ClaimedBytes ==
  ASSUME NEW c \in [Ids -> Action \cup {NoAction}], IsFiniteSet(Claims(c)),
         NEW d \in [Ids -> Action \cup {NoAction}], NEW i \in Ids, Elsewhere(c, d, i)
  PROVE  /\ BytesOf(c, Claims(c)) \in Nat /\ BytesOf(d, Claims(d)) \in Nat
         /\ BytesOf(d, Claims(d)) + (IF c[i] # NoAction THEN c[i].bytes ELSE 0)
              = BytesOf(c, Claims(c)) + (IF d[i] # NoAction THEN d[i].bytes ELSE 0)
<1>1. \A j \in Ids \ {i} : d[j] = c[j]
  BY DEF Elsewhere
<1>2. Claims(c) \ {i} = Claims(d) \ {i}
  BY <1>1 DEF Claims
<1>3. Weighs(c, Claims(c)) /\ Weighs(d, Claims(d)) /\ SameBytes(c, d, Claims(c) \ {i})
  BY <1>1, ActionBytes DEF Weighs, SameBytes, Claims
<1>4. (i \in Claims(c) <=> c[i] # NoAction) /\ (i \in Claims(d) <=> d[i] # NoAction)
  BY DEF Claims
<1> QED BY <1>2, <1>3, <1>4, BytesChange

LEMMA TargetIs == \A level : TargetBp(level) \in {8000, 7000, 8499}
<1>1. EntryBp[Hard] = 8500 /\ EntryBp[Soft] = 7500 /\ HysteresisBp = 500
  BY DEF EntryBp, Hard, Soft, HysteresisBp
<1> QED BY <1>1 DEF TargetBp, Emergency, Hard

\* What a plan frees is what the load lacks, up to the target.
LEMMA RequiredIs ==
  ASSUME NEW t \in Tiers, NEW requested \in Nat, requested > 0, NEW level, NEW av,
         EffectiveUsed(t, av) \in Nat, EffectiveBudget(t) \in Nat
  PROVE  /\ RequiredRelief(t, requested, level, av) \in Nat
         /\ 10000 * (EffectiveUsed(t, av) + requested)
              <= 8499 * EffectiveBudget(t) + 10000 * RequiredRelief(t, requested, level, av)
<1>1. PICK u \in Nat, B \in Nat : u = EffectiveUsed(t, av) /\ B = EffectiveBudget(t)
  OBVIOUS
<1>2. PICK T \in {8000, 7000, 8499} : T = TargetBp(level)
  BY TargetIs
<1>3. PICK P \in Nat : P = B * T /\ P <= 8499 * B
  <2>1. B * T \in Nat /\ B * T <= 8499 * B
    <3>1. CASE T = 8000 BY <3>1
    <3>2. CASE T = 7000 BY <3>2
    <3>3. CASE T = 8499 BY <3>3
    <3> QED BY <3>1, <3>2, <3>3
  <2> QED BY <2>1
<1>4. PICK q \in Nat : q = P \div 10000 /\ 10000 * q <= P
  <2>1. P \div 10000 \in Nat /\ 10000 * (P \div 10000) <= P
    OBVIOUS
  <2> QED BY <2>1
<1>5. RequiredRelief(t, requested, level, av) = Less(u + requested, q)
  BY <1>1, <1>2, <1>3, <1>4 DEF RequiredRelief
<1>6. PICK r \in Nat : r = Less(u + requested, q) /\ u + requested <= q + r
  BY DEF Less
<1> QED BY <1>1, <1>3, <1>4, <1>5, <1>6

LEMMA PlanPInv ==
  ASSUME TInv, TInv', NEW t \in Tiers, NEW requested \in Sizes \cup {0}, NEW eligible \in SUBSET Allocated,
         NEW av \in Samples, Plan(t, requested, eligible, av)
  PROVE  PInv'
<1> SUFFICES ASSUME promise' # NoPromise
             PROVE  Redeemable(promise.tier, promise.bytes, promise.avail)'
  BY DEF PInv
<1>1. requested > 0 /\ Claimed = {} /\ promise' = [tier |-> t, bytes |-> requested, avail |-> av]
  BY DEF Plan
<1>2. /\ UNCHANGED <<topology, managed, reserved, claim>> /\ plan' \in Seq(PlannedIn(t))
      /\ \E level : Relief(plan') >= RequiredRelief(t, requested, level, av)
  BY <1>1, PlanTInv DEF Plan, accounts, objects
<1>3. av \in Telemetry /\ requested \in Nat
  BY SampleTypes, BytesAssumption DEF Telemetry
<1>4. Claimed' = {} /\ BytesOf(claim', Claimed') = 0
  BY <1>1, <1>2, BytesOfNone DEF Claimed
<1>5. plan' \in Seq(PlannedIn(t)')
  BY <1>2 DEF PlannedIn
<1>6. PICK u \in Nat, B \in Nat : u = EffectiveUsed(t, av) /\ B = EffectiveBudget(t)
  BY <1>3, EffectiveIs
<1>7. PICK r \in Nat : r = Relief(plan')
  <2>1. \A a \in PlannedIn(t) : a.bytes \in Nat
    BY ActionBytes DEF PlannedIn
  <2> QED BY <1>2, <2>1, ReliefIsNat
<1>8. PICK level : r >= RequiredRelief(t, requested, level, av)
  BY <1>2, <1>7
<1>9. PICK q \in Nat : q = RequiredRelief(t, requested, level, av) /\ 10000 * (u + requested) <= 8499 * B + 10000 * q
  BY <1>1, <1>3, <1>6, RequiredIs
<1>10. 10000 * (u + requested) <= 8499 * B + 10000 * (r + 0)
  BY <1>3, <1>8, <1>9
<1>11. EffectiveUsed(t, av)' = u /\ EffectiveBudget(t)' = B
  BY <1>2, <1>6 DEF EffectiveUsed, EffectiveBudget, TierUsed, SharedUsed
<1>12. Redeemable(t, requested, av)'
  BY <1>3, <1>4, <1>5, <1>7, <1>10, <1>11 DEF Redeemable
<1>13. promise'.tier = t /\ promise'.bytes = requested /\ promise'.avail = av
  BY <1>1
<1> QED BY <1>12, <1>13 DEF Redeemable, EffectiveUsed, EffectiveBudget, PlannedIn, TierUsed, SharedUsed

LEMMA BeginPressureActionPInv ==
  ASSUME TInv, AInv, PInv, TInv', BeginPressureAction
  PROVE  PInv'
<1> SUFFICES ASSUME promise' # NoPromise
             PROVE  Redeemable(promise.tier, promise.bytes, promise.avail)'
  BY DEF PInv
<1>1. promise' = promise /\ UNCHANGED <<topology, managed>>
  BY DEF BeginPressureAction
<1>2. PICK p \in Promise : p = promise
  BY <1>1 DEF TInv, TypeOK
<1>3. PICK t \in Tiers, b \in Nat, av \in [Tiers -> Nat] : t = p.tier /\ b = p.bytes /\ av = p.avail
  BY <1>2, BytesAssumption DEF Promise
<1>4. Redeemable(t, b, av)
  BY <1>1, <1>2, <1>3 DEF PInv
<1>5. PICK a : a = Head(plan)
  OBVIOUS
<1>6. /\ a \in PlannedIn(t) /\ plan # << >> /\ plan' = Tail(plan)
      /\ plan \in Seq(PlannedIn(t)) /\ plan' \in Seq(PlannedIn(t))
  BY <1>4, <1>5 DEF BeginPressureAction, Redeemable
<1>7. a \in Action /\ a # NoAction
  BY <1>6 DEF PlannedIn
<1>8. PICK i \in Ids : i = a.id
  BY <1>7 DEF Action
<1>9. claim[i] = NoAction /\ claim' = [claim EXCEPT ![i] = a]
  BY <1>5, <1>8 DEF BeginPressureAction, Unclaimed
<1>10. Elsewhere(claim, claim', i) /\ claim'[i] = a
  BY <1>9 DEF Elsewhere, TInv, TypeOK
<1>11. \A j \in Claimed' : claim'[j] \in PlannedIn(t)
  <2>1. \A j \in Claimed : claim[j] \in PlannedIn(t)
    BY <1>4 DEF Redeemable
  <2> QED BY <1>6, <1>10, <2>1 DEF Claimed, Elsewhere
<1>12. PICK c \in Nat, d \in Nat : c = BytesOf(claim, Claimed) /\ d = BytesOf(claim', Claimed') /\ d = c + a.bytes
  <2>1. /\ claim \in [Ids -> Action \cup {NoAction}] /\ claim' \in [Ids -> Action \cup {NoAction}]
        /\ IsFiniteSet(Claims(claim))
    BY AInvIs DEF TInv, TypeOK
  <2>2. /\ BytesOf(claim, Claims(claim)) \in Nat /\ BytesOf(claim', Claims(claim')) \in Nat
        /\ BytesOf(claim', Claims(claim')) + (IF claim[i] # NoAction THEN claim[i].bytes ELSE 0)
             = BytesOf(claim, Claims(claim)) + (IF claim'[i] # NoAction THEN claim'[i].bytes ELSE 0)
    BY <1>10, <2>1, ClaimedBytes
  <2>3. BytesOf(claim', Claims(claim')) = BytesOf(claim, Claims(claim)) + a.bytes
    <3>1. PICK x \in Nat, y \in Nat : x = BytesOf(claim, Claims(claim)) /\ y = BytesOf(claim', Claims(claim'))
      BY <2>2
    <3>2. y + 0 = x + a.bytes
      BY <1>7, <1>9, <1>10, <2>2, <3>1
    <3> QED BY <3>1, <3>2
  <2>4. Claims(claim) = Claimed /\ Claims(claim') = Claimed'
    BY DEF Claims, Claimed
  <2> QED BY <2>2, <2>3, <2>4
<1>13. PICK r \in Nat, s \in Nat : r = Relief(plan) /\ s = Relief(plan') /\ r = a.bytes + s
  <2>1. \A x \in PlannedIn(t) : x.bytes \in Nat
    BY ActionBytes DEF PlannedIn
  <2>2. Relief(plan) \in Nat /\ Relief(plan') \in Nat
    BY <1>6, <2>1, ReliefIsNat
  <2>3. Relief(plan) = Head(plan).bytes + Relief(Tail(plan))
    BY <1>6, <2>1, ReliefOfHead
  <2> QED BY <1>5, <1>6, <2>2, <2>3
<1>14. EffectiveUsed(t, av)' = EffectiveUsed(t, av) /\ EffectiveBudget(t)' = EffectiveBudget(t)
  <2>1. IF a.to = NoTier THEN reserved' = reserved ELSE reserved' = With(reserved, a.to, a.bytes)
    BY <1>5 DEF BeginPressureAction
  <2>2. reserved \in [Tiers -> Nat] /\ topology \in {"discrete", "unified"}
    BY DEF TInv, TypeOK
  <2>3. CASE topology = "discrete"
    <3>1. a.to # t
      BY <1>6, <2>3 DEF PlannedIn
    <3>2. reserved'[t] = reserved[t]
      BY <2>1, <2>2, <3>1 DEF With
    <3> QED BY <1>1, <2>3, <3>2 DEF EffectiveUsed, EffectiveBudget, TierUsed
  <2>4. CASE topology = "unified"
    <3>1. reserved' = reserved
      BY <1>6, <2>1, <2>4 DEF PlannedIn
    <3> QED BY <1>1, <2>4, <3>1 DEF EffectiveUsed, EffectiveBudget, TierUsed, SharedUsed
  <2> QED BY <2>2, <2>3, <2>4
<1>15. PICK u \in Nat, B \in Nat : u = EffectiveUsed(t, av) /\ B = EffectiveBudget(t)
  BY <1>4, EffectiveIs DEF Redeemable
<1>16. 10000 * (u + b) <= 8499 * B + 10000 * (s + d)
  <2>1. 10000 * (u + b) <= 8499 * B + 10000 * (r + c)
    BY <1>4, <1>12, <1>13, <1>15 DEF Redeemable
  <2>2. r + c = s + d
    <3>1. PICK x \in Nat : x = a.bytes
      BY <1>7, ActionBytes
    <3> QED BY <1>12, <1>13, <3>1
  <2> QED BY <2>1, <2>2
<1>17. plan' \in Seq(PlannedIn(t)') /\ \A j \in Claimed' : claim'[j] \in PlannedIn(t)'
  BY <1>1, <1>6, <1>11 DEF PlannedIn
<1>18. av \in Telemetry
  BY <1>4 DEF Redeemable
<1>19. Redeemable(t, b, av)'
  BY <1>12, <1>13, <1>14, <1>15, <1>16, <1>17, <1>18 DEF Redeemable
<1>20. promise'.tier = t /\ promise'.bytes = b /\ promise'.avail = av
  BY <1>1, <1>2, <1>3
<1> QED BY <1>19, <1>20 DEF Redeemable, EffectiveUsed, EffectiveBudget, PlannedIn, TierUsed, SharedUsed

\* T and U are totals, v and w what is available, m what is charged, b the bytes that leave.
Falls(T, v, m, b) == Most(T - Least(T, v + b), m - b) + b = Most(T - v, m)
BothFall(T, v, U, w, m, b) ==
  Most(Most(T - Least(T, v + b), U - Least(U, w + b)), m - b) + b = Most(Most(T - v, U - w), m)

\* Bytes that leave a tier they are charged to leave what is seen in use by as much.
LEMMA UsedFalls ==
  ASSUME NEW T \in Nat, NEW v \in Nat, v <= T, NEW m \in Nat, NEW b \in Nat, b <= m
  PROVE  Falls(T, v, m, b)
<1>1. CASE T - v >= b
  <2>1. Least(T, v + b) = v + b
    BY <1>1 DEF Least
  <2> QED BY <1>1, <2>1 DEF Most, Falls
<1>2. CASE T - v < b
  <2>1. Least(T, v + b) = T
    BY <1>2 DEF Least
  <2>2. Most(0, m - b) = m - b /\ Most(T - v, m) = m
    BY <1>2 DEF Most
  <2> QED BY <2>1, <2>2 DEF Falls
<1> QED BY <1>1, <1>2 DEF Falls

\* With unified memory, that of both tiers together.
LEMMA SharedFalls ==
  ASSUME NEW T \in Nat, NEW v \in Nat, v <= T, NEW U \in Nat, NEW w \in Nat, w <= U,
         NEW m \in Nat, NEW b \in Nat, b <= m
  PROVE  BothFall(T, v, U, w, m, b)
<1>1. T - Least(T, v + b) = Less(T - v, b) /\ U - Least(U, w + b) = Less(U - w, b)
  BY DEF Least, Less
<1>2. PICK o \in Nat, p \in Nat : o = T - v /\ p = U - w
  OBVIOUS
<1>3. Most(Less(o, b), Less(p, b)) = Less(Most(o, p), b)
  BY DEF Most, Less
<1>4. PICK q \in Nat : q = Most(o, p)
  BY DEF Most
<1>5. Most(Less(q, b), m - b) + b = Most(q, m)
  BY DEF Most, Less
<1> QED BY <1>1, <1>2, <1>3, <1>4, <1>5 DEF BothFall

LEMMA CommitActionPInv ==
  ASSUME TInv, AInv, PInv, TInv', NEW i \in Ids, CommitAction(i)
  PROVE  PInv'
<1> SUFFICES ASSUME promise' # NoPromise
             PROVE  Redeemable(promise.tier, promise.bytes, promise.avail)'
  BY DEF PInv
<1>1. promise # NoPromise
  BY DEF CommitAction
<1>2. PICK p \in Promise : p = promise
  BY <1>1 DEF TInv, TypeOK
<1>3. PICK t \in Tiers, b \in Nat, av \in [Tiers -> Nat] : t = p.tier /\ b = p.bytes /\ av = p.avail
  BY <1>2, BytesAssumption DEF Promise
<1>4. Redeemable(t, b, av)
  BY <1>1, <1>2, <1>3 DEF PInv
<1>5. PICK a : a = claim[i]
  OBVIOUS
<1>6. a \in PlannedIn(t) /\ a # NoAction
  BY <1>4, <1>5 DEF CommitAction, Redeemable, Claimed
<1>7. a \in Action
  BY <1>6 DEF PlannedIn
<1>8. PICK k \in Nat : k = a.bytes
  BY <1>7, ActionBytes
<1>9. PICK aw \in Telemetry : aw = Moved(a, av)
  BY <1>4, <1>7, MovedType DEF Redeemable, Telemetry
<1>10. promise'.tier = t /\ promise'.bytes = b /\ promise'.avail = aw
  <2>1. promise' = [p EXCEPT !.avail = aw]
    BY <1>1, <1>2, <1>3, <1>5, <1>9 DEF CommitAction
  <2> QED BY <1>2, <1>3, <2>1 DEF Promise
<1>11. /\ topology' = topology /\ plan' = plan /\ claim' = [claim EXCEPT ![i] = NoAction]
       /\ managed' = IF a.to = NoTier THEN Without(managed, a.from, k)
                     ELSE With(Without(managed, a.from, k), a.to, k)
       /\ reserved' = IF a.to = NoTier THEN reserved ELSE Without(reserved, a.to, k)
  BY <1>5, <1>8 DEF CommitAction, Unclaim, ReleaseReservation
<1>12. Elsewhere(claim, claim', i) /\ claim'[i] = NoAction /\ claim[i] = a
  BY <1>5, <1>11 DEF Elsewhere, TInv, TypeOK
<1>13. PICK c \in Nat, d \in Nat : c = BytesOf(claim, Claimed) /\ d = BytesOf(claim', Claimed') /\ d + k = c
  <2>1. /\ claim \in [Ids -> Action \cup {NoAction}] /\ claim' \in [Ids -> Action \cup {NoAction}]
        /\ IsFiniteSet(Claims(claim))
    BY AInvIs DEF TInv, TypeOK
  <2>2. /\ BytesOf(claim, Claims(claim)) \in Nat /\ BytesOf(claim', Claims(claim')) \in Nat
        /\ BytesOf(claim', Claims(claim')) + (IF claim[i] # NoAction THEN claim[i].bytes ELSE 0)
             = BytesOf(claim, Claims(claim)) + (IF claim'[i] # NoAction THEN claim'[i].bytes ELSE 0)
    BY <1>12, <2>1, ClaimedBytes
  <2>3. BytesOf(claim', Claims(claim')) + k = BytesOf(claim, Claims(claim))
    <3>1. PICK x \in Nat, y \in Nat : x = BytesOf(claim, Claims(claim)) /\ y = BytesOf(claim', Claims(claim'))
      BY <2>2
    <3>2. y + k = x + 0
      BY <1>6, <1>8, <1>12, <2>2, <3>1
    <3> QED BY <3>1, <3>2
  <2>4. Claims(claim) = Claimed /\ Claims(claim') = Claimed'
    BY DEF Claims, Claimed
  <2> QED BY <2>2, <2>3, <2>4
<1>14. \A j \in Claimed' : claim'[j] \in PlannedIn(t)
  <2>1. \A j \in Claimed : claim[j] \in PlannedIn(t)
    BY <1>4 DEF Redeemable
  <2> QED BY <1>12, <2>1 DEF Claimed, Elsewhere
<1>15. PICK r : r = Relief(plan) /\ r = Relief(plan') /\ r \in Nat
  <2>1. \A x \in PlannedIn(t) : x.bytes \in Nat
    BY ActionBytes DEF PlannedIn
  <2>2. Relief(plan) \in Nat
    BY <1>4, <2>1, ReliefIsNat DEF Redeemable
  <2> QED BY <1>11, <2>2
<1>16. managed \in [Tiers -> Nat] /\ reserved \in [Tiers -> Nat] /\ topology \in {"discrete", "unified"}
  BY DEF TInv, TypeOK
<1>17. a.from \in Tiers /\ k <= managed[a.from]
  <2>1. a.from \in Tiers
    BY <1>7, ActionBytes
  <2>2. Share(alloc, i, a.from) = k
    BY <1>5, <1>8 DEF CommitAction, Fresh, Share
  <2>3. Share(alloc, i, a.from) <= managed[a.from]
    BY <2>1, Contribution DEF TInv
  <2> QED BY <2>1, <2>2, <2>3
<1>18. PICK u \in Nat : u = EffectiveUsed(t, av)
  BY <1>4, EffectiveIs DEF Redeemable
<1>19. EffectiveUsed(t, aw)' + k = u
  <2>1. av \in [Tiers -> Nat] /\ \A s \in Tiers : av[s] <= Total[s] /\ Total[s] \in Nat
    BY <1>4, BudgetTypes DEF Redeemable, Telemetry
  <2>2. CASE topology = "discrete"
    <3>1. a.from = t /\ a.to # t /\ t # NoTier
      BY <1>6, <2>2 DEF PlannedIn, Tiers, NoTier
    <3>2. PICK m \in Nat, n \in Nat, q \in Nat :
            m = managed[t] /\ k <= m /\ n = managed'[t] /\ n = m - k /\ q = reserved[t] /\ q = reserved'[t]
      <4>1. PICK w : w = Without(managed, t, k)
        OBVIOUS
      <4>2. w \in [Tiers -> Nat] /\ w[t] = managed[t] - k
        BY <1>16, <1>17, <3>1, <4>1 DEF Without, Less
      <4>3. managed'[t] = managed[t] - k
        BY <1>11, <3>1, <4>1, <4>2 DEF With
      <4>4. reserved'[t] = reserved[t]
        BY <1>11, <1>16, <3>1 DEF Without
      <4>5. managed[t] \in Nat /\ reserved[t] \in Nat /\ managed[t] - k \in Nat /\ k <= managed[t]
        BY <1>16, <1>17, <3>1
      <4> QED BY <4>3, <4>4, <4>5
    <3>3. PICK T \in Nat, v \in Nat, o \in Nat : T = Total[t] /\ v = av[t] /\ o <= T /\ v = T - o /\ o = T - v
      <4>1. PICK T \in Nat, v \in Nat : T = Total[t] /\ v = av[t] /\ v <= T
        BY <2>1
      <4>2. T - v \in Nat /\ T - v <= T /\ v = T - (T - v)
        BY <4>1
      <4> QED BY <4>1, <4>2
    <3>4. aw[t] = Least(T, v + k)
      BY <1>8, <1>9, <2>2, <3>1, <3>3 DEF Moved
    <3>5. u = Most(o, m) + q
      BY <1>18, <2>2, <3>2, <3>3 DEF EffectiveUsed, TierUsed, Observed
    <3>6. EffectiveUsed(t, aw)' = Most(T - Least(T, v + k), n) + q
      BY <1>11, <2>2, <3>2, <3>3, <3>4 DEF EffectiveUsed, TierUsed, Observed
    <3>7. Most(T - Least(T, v + k), n) + k = Most(o, m)
      <4>1. T \in Nat /\ v \in Nat /\ v <= T /\ m \in Nat /\ k \in Nat /\ k <= m
        BY <3>2, <3>3
      <4>2. Falls(T, v, m, k)
        BY <4>1, UsedFalls
      <4> QED BY <3>2, <3>3, <4>2 DEF Falls
    <3>8. PICK x \in Nat, y \in Nat : x = Most(T - Least(T, v + k), n) /\ y = Most(o, m)
      <4>1. PICK f \in Nat : f = T - Least(T, v + k)
        BY <3>3 DEF Least
      <4>2. Most(f, n) \in Nat /\ Most(o, m) \in Nat
        BY <3>2, <3>3 DEF Most
      <4> QED BY <4>1, <4>2
    <3>9. x + k = y /\ u = y + q
      BY <3>5, <3>7, <3>8
    <3>10. EffectiveUsed(t, aw)' = x + q
      BY <3>6, <3>8
    <3> QED BY <3>9, <3>10
  <2>3. CASE topology = "unified"
    <3>1. a.to = NoTier /\ "host" \in Tiers /\ "gpu" \in Tiers /\ a.from \in {"host", "gpu"}
      BY <1>6, <1>17, <2>3 DEF PlannedIn, Tiers
    <3>2. reserved' = reserved /\ managed' = Without(managed, a.from, k)
      BY <1>11, <3>1
    <3>3. PICK m \in Nat, n \in Nat, q \in Nat :
            m = Both(managed) /\ k <= m /\ n = Both(managed') /\ n = m - k /\ q = Both(reserved) /\ q = Both(reserved')
      <4>1. PICK f \in Nat, g \in Nat, y \in Nat, z \in Nat :
              f = managed["host"] /\ g = managed["gpu"] /\ y = reserved["host"] /\ z = reserved["gpu"]
        BY <1>16, <3>1
      <4>2. Both(managed) = f + g /\ Both(reserved) = y + z /\ Both(reserved') = y + z
        BY <3>2, <4>1 DEF Both
      <4>3. Both(managed') = f + g - k /\ k <= f + g
        <5>1. CASE a.from = "host"
          <6>1. managed'["host"] = f - k /\ managed'["gpu"] = g /\ k <= f
            BY <1>16, <1>17, <3>1, <3>2, <4>1, <5>1 DEF Without, Less
          <6> QED BY <6>1 DEF Both
        <5>2. CASE a.from = "gpu"
          <6>1. managed'["host"] = f /\ managed'["gpu"] = g - k /\ k <= g
            BY <1>16, <1>17, <3>1, <3>2, <4>1, <5>2 DEF Without, Less
          <6> QED BY <6>1 DEF Both
        <5> QED BY <3>1, <5>1, <5>2
      <4>4. f + g \in Nat /\ f + g - k \in Nat /\ y + z \in Nat
        BY <4>3
      <4> QED BY <4>2, <4>3, <4>4
    <3>4. PICK T \in Nat, v \in Nat, o \in Nat : T = Total["host"] /\ v = av["host"] /\ o <= T /\ v = T - o /\ o = T - v
      <4>1. PICK T \in Nat, v \in Nat : T = Total["host"] /\ v = av["host"] /\ v <= T
        BY <2>1, <3>1
      <4>2. T - v \in Nat /\ T - v <= T /\ v = T - (T - v)
        BY <4>1
      <4> QED BY <4>1, <4>2
    <3>5. PICK U \in Nat, w \in Nat, z \in Nat : U = Total["gpu"] /\ w = av["gpu"] /\ z <= U /\ w = U - z /\ z = U - w
      <4>1. PICK U \in Nat, w \in Nat : U = Total["gpu"] /\ w = av["gpu"] /\ w <= U
        BY <2>1, <3>1
      <4>2. U - w \in Nat /\ U - w <= U /\ w = U - (U - w)
        BY <4>1
      <4> QED BY <4>1, <4>2
    <3>6. aw["host"] = Least(T, v + k) /\ aw["gpu"] = Least(U, w + k)
      BY <1>8, <1>9, <2>3, <3>1, <3>4, <3>5 DEF Moved
    <3>7. u = Most(Most(o, z), m) + q
      BY <1>18, <2>3, <3>3, <3>4, <3>5 DEF EffectiveUsed, SharedUsed, Observed
    <3>8. EffectiveUsed(t, aw)' = Most(Most(T - Least(T, v + k), U - Least(U, w + k)), n) + q
      BY <1>11, <2>3, <3>3, <3>4, <3>5, <3>6 DEF EffectiveUsed, SharedUsed, Observed
    <3>9. Most(Most(T - Least(T, v + k), U - Least(U, w + k)), n) + k = Most(Most(o, z), m)
      <4>1. /\ T \in Nat /\ v \in Nat /\ v <= T /\ U \in Nat /\ w \in Nat /\ w <= U
            /\ m \in Nat /\ k \in Nat /\ k <= m
        BY <3>3, <3>4, <3>5
      <4>2. BothFall(T, v, U, w, m, k)
        BY <4>1, SharedFalls
      <4> QED BY <3>3, <3>4, <3>5, <4>2 DEF BothFall
    <3>10. PICK x : x = Most(Most(T - Least(T, v + k), U - Least(U, w + k)), n)
      OBVIOUS
    <3>11. PICK y \in Nat : y = Most(Most(o, z), m)
      BY DEF Most
    <3>12. x \in Int
      BY <3>3, <3>10 DEF Most, Least
    <3>13. x + k = y /\ u = y + q /\ EffectiveUsed(t, aw)' = x + q
      BY <3>7, <3>8, <3>9, <3>10, <3>11
    <3> QED BY <3>12, <3>13
  <2> QED BY <1>16, <2>2, <2>3
<1>20. PICK B \in Nat : B = EffectiveBudget(t)
  BY <1>4, EffectiveIs DEF Redeemable
<1>21. PICK x \in Nat : x = EffectiveUsed(t, aw)'
  <2>1. EffectiveUsed(t, aw)' \in Nat
    <3>1. \A s \in Tiers : aw[s] \in Nat /\ Total[s] \in Nat /\ aw[s] <= Total[s]
      BY <1>9, BudgetTypes DEF Telemetry
    <3>2. managed' \in [Tiers -> Nat] /\ reserved' \in [Tiers -> Nat]
      BY DEF TInv, TypeOK
    <3>3. \A s \in Tiers : Observed(s, aw) \in Nat
      BY <3>1 DEF Observed
    <3> QED BY <3>2, <3>3 DEF EffectiveUsed, TierUsed, SharedUsed, Both, Most, Tiers
  <2> QED BY <2>1
<1>22. 10000 * (x + b) <= 8499 * B + 10000 * (r + d)
  <2>1. 10000 * (u + b) <= 8499 * B + 10000 * (r + c)
    BY <1>4, <1>13, <1>15, <1>18, <1>20 DEF Redeemable
  <2>2. x + k = u /\ d + k = c
    BY <1>13, <1>19, <1>21
  <2> QED BY <1>15, <2>1, <2>2
<1>23. EffectiveBudget(t)' = B
  BY <1>11, <1>20 DEF EffectiveBudget
<1>24. plan' \in Seq(PlannedIn(t)') /\ \A j \in Claimed' : claim'[j] \in PlannedIn(t)'
  BY <1>4, <1>11, <1>14 DEF PlannedIn, Redeemable
<1>25. Redeemable(t, b, aw)'
  BY <1>13, <1>15, <1>21, <1>22, <1>23, <1>24 DEF Redeemable
<1> QED BY <1>10, <1>25 DEF Redeemable, EffectiveUsed, EffectiveBudget, PlannedIn, TierUsed, SharedUsed

\* Room below the hard threshold is room for a load.
LEMMA AcceptsWhen ==
  ASSUME TInv, NEW t \in Tiers, NEW b \in Nat, NEW av \in Telemetry,
         10000 * (EffectiveUsed(t, av) + b) <= 8499 * EffectiveBudget(t)
  PROVE  CanAccept(t, b, av)
<1>1. PICK m \in Nat, r \in Nat, o \in Nat, k \in Nat, v \in Nat, T \in Nat :
        /\ m = managed[t] /\ r = reserved[t] /\ o = Observed(t, av) /\ k = TierUsed(t, av)
        /\ v = av[t] /\ T = Total[t] /\ o + v = T /\ k >= o + r /\ k >= m + r
  <2>1. managed[t] \in Nat /\ reserved[t] \in Nat /\ av[t] \in Nat /\ Total[t] \in Nat
    BY BudgetTypes DEF TInv, TypeOK, Telemetry
  <2>2. /\ Observed(t, av) \in Nat /\ TierUsed(t, av) \in Nat /\ Observed(t, av) + av[t] = Total[t]
        /\ TierUsed(t, av) >= Observed(t, av) + reserved[t]
        /\ TierUsed(t, av) >= managed[t] + reserved[t]
    BY UsedIs
  <2> QED BY <2>1, <2>2
<1>2. PICK B \in Nat \ {0}, C \in Nat : B = TierBudget(t) /\ C = Budget[t] /\ B <= C /\ B <= T
  BY <1>1, BudgetTypes
<1>3. PICK u \in Nat, E \in Nat \ {0} : /\ u = EffectiveUsed(t, av) /\ E = EffectiveBudget(t)
                                        /\ 10000 * (u + b) <= 8499 * E
  BY EffectiveIs
<1>4. u >= k /\ E <= B
  BY <1>1, <1>2, <1>3, UsedIs, BudgetTypes DEF EffectiveUsed, EffectiveBudget
<1>5. k + b < B /\ 10000 * (k + b) < 8500 * B
  BY <1>3, <1>4
<1>6. m + r + b <= C /\ r + b <= v
  BY <1>1, <1>2, <1>5
<1>7. Classify(Utilization(k + b, B)) < Hard
  BY <1>5, BelowHard
<1>8. ASSUME topology = "unified"
      PROVE  /\ Both(reserved) + b <= Least(av["host"], av["gpu"])
             /\ Classify(Utilization(SharedUsed(av) + b, SharedBudget)) < Hard
  <2>1. u = SharedUsed(av) /\ E = SharedBudget
    BY <1>3, <1>8 DEF EffectiveUsed, EffectiveBudget
  <2>2. Classify(Utilization(u + b, E)) < Hard
    <3>1. u + b \in Nat /\ 10000 * (u + b) < 8500 * E
      BY <1>3
    <3> QED BY <3>1, BelowHard
  <2>3. PICK q \in Nat : q = Both(reserved)
    <3>1. reserved["host"] \in Nat /\ reserved["gpu"] \in Nat
      BY DEF TInv, TypeOK, Tiers
    <3> QED BY <3>1 DEF Both
  <2>4. ASSUME NEW s \in Tiers PROVE av[s] \in Nat /\ q + b <= av[s]
    <3>1. PICK x \in Nat, y \in Nat, z \in Nat : x = Observed(s, av) /\ y = av[s] /\ z = Total[s] /\ x + y = z
      BY UsedIs, BudgetTypes DEF Telemetry
    <3>2. u >= x + q
      BY <2>1, <2>3, <3>1, UsedIs
    <3>3. E <= z
      <4>1. PICK w \in Nat : w = TierBudget(s) /\ E <= w /\ w <= z
        BY <2>1, <3>1, BudgetTypes
      <4> QED BY <4>1, <3>1
    <3>4. u + b <= E
      BY <1>3
    <3> QED BY <3>1, <3>2, <3>3, <3>4
  <2>5. q + b <= Least(av["host"], av["gpu"])
    BY <2>4 DEF Least, Tiers
  <2> QED BY <2>1, <2>2, <2>3, <2>5
<1> QED BY <1>1, <1>2, <1>6, <1>7, <1>8 DEF CanAccept

LEMMA PInvAdmits ==
  ASSUME TInv, PInv
  PROVE  ReliefAdmits
<1> SUFFICES ASSUME promise # NoPromise, Claimed = {}, plan = << >>
             PROVE  CanAccept(promise.tier, promise.bytes, promise.avail)
  BY DEF ReliefAdmits
<1>1. PICK p \in Promise : p = promise
  BY DEF TInv, TypeOK
<1>2. PICK t \in Tiers, b \in Nat, av \in [Tiers -> Nat] : t = p.tier /\ b = p.bytes /\ av = p.avail
  BY <1>1, BytesAssumption DEF Promise
<1>3. Redeemable(t, b, av)
  BY <1>1, <1>2 DEF PInv
<1>4. Relief(plan) = 0 /\ BytesOf(claim, Claimed) = 0
  BY ReliefOfNone, BytesOfNone
<1>5. PICK u \in Nat, E \in Nat : u = EffectiveUsed(t, av) /\ E = EffectiveBudget(t)
  BY <1>3, EffectiveIs DEF Redeemable
<1>6. 10000 * (u + b) <= 8499 * E
  <2>1. 10000 * (u + b) <= 8499 * E + 10000 * (0 + 0)
    BY <1>3, <1>4, <1>5 DEF Redeemable
  <2> QED BY <2>1
<1>7. CanAccept(t, b, av)
  BY <1>3, <1>5, <1>6, AcceptsWhen DEF Redeemable
<1> QED BY <1>1, <1>2, <1>7

-----------------------------------------------------------------------------
(* The invariant *)

MInv == TInv /\ AInv /\ GInv /\ Seen /\ PInv

LEMMA InitMInv == Init => MInv
<1>1. Init => PInv
  BY DEF Init, PInv
<1> QED BY <1>1, InitTInv, InitAInv, InitGInv DEF MInv

\* Steps that take the promise back.
LEMMA NoPInv == promise' = NoPromise => PInv'
BY DEF PInv

\* Steps that move nothing.
LEMMA SameMInv ==
  ASSUME MInv, TInv', UNCHANGED <<topology, managed, reserved, active, objects, orphaned>>,
         \/ avail' = avail
         \/ \E av \in Samples : avail' = av,
         PInv'
  PROVE  MInv'
<1>1. AInv'
  BY SameAccounts DEF MInv, objects
<1>2. GInv' /\ Seen'
  BY <1>1, SameGrants, SeenStays DEF MInv
<1> QED BY <1>1, <1>2 DEF MInv

LEMMA RefreshMInv ==
  ASSUME MInv, NEW av \in Samples, Refresh(av)
  PROVE  MInv'
<1>1. /\ avail' = av /\ promise' = NoPromise
      /\ UNCHANGED <<topology, managed, reserved, active, objects, orphaned>>
  BY DEF Refresh, Observe, Interfere, accounts, lost
<1>2. TInv'
  <2>1. avail' \in [Tiers -> Nat] /\ pressure' \in [Tiers -> Levels]
    BY ObserveTypes DEF Refresh, MInv, TInv, TypeOK
  <2>2. plan' \in Seq(Action) /\ promise' \in Promise \cup {NoPromise}
    BY InterfereTypes DEF Refresh, MInv
  <2> QED BY <2>1, <2>2 DEF Refresh, MInv, TInv, TypeOK, ValidTargets, TargetsOf, accounts, objects, lost
<1> QED BY <1>1, <1>2, NoPInv, SameMInv

LEMMA CooldownMInv ==
  ASSUME MInv, NEW t \in Tiers, CooldownEnds(t)
  PROVE  MInv'
<1>1. UNCHANGED <<topology, accounts, seen, objects, lost, plan, promise>> /\ cooling' \subseteq Tiers
  BY DEF CooldownEnds, MInv, TInv, TypeOK
<1>2. TInv'
  BY <1>1 DEF MInv, TInv, TypeOK, ValidTargets, TargetsOf, accounts, seen, objects, lost
<1>3. PInv'
  BY <1>1 DEF MInv, PInv, Redeemable, EffectiveUsed, EffectiveBudget, TierUsed, SharedUsed,
              Claimed, PlannedIn, accounts, objects
<1> QED BY <1>1, <1>2, <1>3, SameMInv DEF accounts, seen, lost

LEMMA StutterMInv == MInv /\ UNCHANGED vars => MInv'
<1> SUFFICES ASSUME MInv, UNCHANGED vars PROVE MInv'
  OBVIOUS
<1>1. UNCHANGED <<topology, accounts, seen, cooling, objects, lost, plan, promise>>
  BY DEF vars
<1>2. TInv'
  BY <1>1 DEF MInv, TInv, TypeOK, ValidTargets, TargetsOf, accounts, seen, objects, lost
<1>3. PInv'
  BY <1>1 DEF MInv, PInv, Redeemable, EffectiveUsed, EffectiveBudget, TierUsed, SharedUsed,
              Claimed, PlannedIn, accounts, objects
<1> QED BY <1>1, <1>2, <1>3, SameMInv DEF accounts, seen, lost

LEMMA LoadStepMInv ==
  ASSUME MInv, NEW i \in Ids, LoadStep(i)
  PROVE  MInv'
<1>1. ASSUME NEW a \in Allocation, NEW av \in Samples, ReserveLoad(i, a, av) PROVE MInv'
  <2>1. promise' = NoPromise /\ avail' = av
    BY <1>1 DEF ReserveLoad, Interfere, Observe
  <2>2. TInv'
    BY <1>1, ReserveLoadTInv DEF MInv
  <2>3. AInv'
    BY <1>1, <2>2, ReserveLoadAInv DEF MInv
  <2>4. GInv'
    BY <1>1, <2>2, <2>3, ReserveLoadGInv DEF MInv
  <2> QED BY <2>1, <2>2, <2>3, <2>4, NoPInv, SeenStays DEF MInv
<1>2. CASE CommitLoad(i)
  <2>1. promise' = NoPromise /\ avail' = avail
    BY <1>2 DEF CommitLoad, Interfere, seen
  <2>2. TInv'
    BY <1>2, CommitLoadTInv DEF MInv
  <2>3. AInv'
    BY <1>2, <2>2, CommitLoadAInv DEF MInv
  <2> QED BY <1>2, <2>1, <2>2, <2>3, LoadEndsGInv, NoPInv, SeenStays DEF MInv
<1>3. CASE DropLoad(i)
  <2>1. promise' = NoPromise /\ avail' = avail
    BY <1>3 DEF DropLoad, Interfere, seen
  <2>2. TInv'
    BY <1>3, DropLoadTInv DEF MInv
  <2>3. AInv'
    BY <1>3, <2>2, DropLoadAInv DEF MInv
  <2> QED BY <1>3, <2>1, <2>2, <2>3, LoadEndsGInv, NoPInv, SeenStays DEF MInv
<1> QED BY <1>1, <1>2, <1>3 DEF LoadStep

LEMMA AllocationStepMInv ==
  ASSUME MInv, NEW i \in Ids, AllocationStep(i)
  PROVE  MInv'
<1>1. promise' = NoPromise /\ avail' = avail
  BY DEF AllocationStep, TouchAllocation, RemoveAllocation, SetPinned, Interfere, seen
<1>2. TInv'
  BY AllocationStepTInv DEF MInv
<1>3. AInv'
  BY <1>2, AllocationStepAInv DEF MInv
<1>4. GInv'
  BY <1>2, <1>3, AllocationStepGInv DEF MInv
<1> QED BY <1>1, <1>2, <1>3, <1>4, NoPInv, SeenStays DEF MInv

LEMMA ActionStepMInv ==
  ASSUME MInv, NEW i \in Ids, ActionStep(i)
  PROVE  MInv'
<1>1. CASE CommitAction(i)
  <2>1. avail' = avail
    BY <1>1 DEF CommitAction, seen
  <2>2. \A t \in Tiers : promise # NoPromise => promise.avail[t] <= Total[t]
    BY DEF MInv, PInv, Redeemable, Telemetry
  <2>3. TInv'
    BY <1>1, <2>2, CommitActionTInv DEF MInv
  <2>4. AInv'
    BY <1>1, <2>3, CommitActionAInv DEF MInv
  <2>5. GInv' /\ PInv'
    BY <1>1, <2>3, <2>4, ActionEndsGInv, CommitActionPInv DEF MInv
  <2> QED BY <2>1, <2>3, <2>4, <2>5, SeenStays DEF MInv
<1>2. CASE DropAction(i)
  <2>1. promise' = NoPromise /\ avail' = avail
    BY <1>2 DEF DropAction, Interfere, seen
  <2>2. TInv'
    BY <1>2, DropActionTInv DEF MInv
  <2>3. AInv'
    BY <1>2, <2>2, DropActionAInv DEF MInv
  <2> QED BY <1>2, <2>1, <2>2, <2>3, ActionEndsGInv, NoPInv, SeenStays DEF MInv
<1> QED BY <1>1, <1>2 DEF ActionStep

LEMMA TierStepMInv ==
  ASSUME MInv, NEW t \in Tiers, TierStep(t)
  PROVE  MInv'
<1>1. CASE CooldownEnds(t)
  BY <1>1, CooldownMInv
<1>2. ASSUME NEW b \in Sizes \cup {Budget[t]}, RecordOrphanedRelease(t, b) PROVE MInv'
  <2>1. promise' = NoPromise /\ avail' = avail
    BY <1>2 DEF RecordOrphanedRelease, Interfere, seen
  <2>2. TInv'
    BY <1>2, OrphanTInv DEF MInv
  <2>3. AInv'
    BY <1>2, OrphanAInv DEF MInv
  <2>4. GInv'
    BY <1>2, <2>2, <2>3, OrphanGInv DEF MInv
  <2> QED BY <2>1, <2>2, <2>3, <2>4, NoPInv, SeenStays DEF MInv
<1>3. ASSUME NEW requested \in Sizes \cup {0}, NEW eligible \in SUBSET Allocated, NEW av \in Samples,
             Plan(t, requested, eligible, av)
      PROVE  MInv'
  <2>1. /\ avail' = av
        /\ UNCHANGED <<topology, managed, reserved, active, objects, orphaned>>
    BY <1>3 DEF Plan, Observe, accounts, lost
  <2>2. TInv'
    BY <1>3, PlanTInv DEF MInv
  <2>3. PInv'
    BY <1>3, <2>2, PlanPInv DEF MInv
  <2> QED BY <2>1, <2>2, <2>3, SameMInv
<1> QED BY <1>1, <1>2, <1>3 DEF TierStep

LEMMA NextMInv == MInv /\ [Next]_vars => MInv'
<1> SUFFICES ASSUME MInv, [Next]_vars PROVE MInv'
  OBVIOUS
<1>1. ASSUME NEW i \in Ids, LoadStep(i) \/ AllocationStep(i) \/ ActionStep(i) PROVE MInv'
  BY <1>1, LoadStepMInv, AllocationStepMInv, ActionStepMInv
<1>2. ASSUME NEW t \in Tiers, TierStep(t) PROVE MInv'
  BY <1>2, TierStepMInv
<1>3. ASSUME NEW av \in Samples, Refresh(av) PROVE MInv'
  BY <1>3, RefreshMInv
<1>4. CASE BeginPressureAction
  <2>1. avail' = avail
    BY <1>4 DEF BeginPressureAction, seen
  <2>2. TInv'
    BY <1>4, BeginPressureActionTInv DEF MInv
  <2>3. AInv'
    BY <1>4, <2>2, BeginPressureActionAInv DEF MInv
  <2>4. GInv' /\ PInv'
    BY <1>4, <2>2, <2>3, BeginPressureActionGInv, BeginPressureActionPInv DEF MInv
  <2> QED BY <2>1, <2>2, <2>3, <2>4, SeenStays DEF MInv
<1>5. CASE SkipAction
  <2>1. promise' = NoPromise /\ avail' = avail /\ UNCHANGED <<topology, managed, reserved, active, objects, orphaned>>
    BY <1>5 DEF SkipAction, accounts, seen, lost
  <2>2. TInv'
    BY <1>5, SkipActionTInv DEF MInv
  <2> QED BY <2>1, <2>2, NoPInv, SameMInv
<1>6. CASE UNCHANGED vars
  BY <1>6, StutterMInv
<1> QED BY <1>1, <1>2, <1>3, <1>4, <1>5, <1>6 DEF Next

\* The manager's state stays within its types, and no id is an allocation and a load
\* under way at once (ManagerState, MemoryReservation::commit).
THEOREM MemoryTypes == Spec => []TypeOK
<1>1. MInv => TypeOK
  BY DEF MInv, TInv
<1> QED BY InitMInv, NextMInv, <1>1, PTL DEF Spec

\* The accounts of a tier add up to what they stand for after any sequence of
\* operations (TierAccount, release_pressure_action_locked, record_orphaned_release).
THEOREM AccountsAddUp == Spec => []AccountsExact
<1>1. MInv => AccountsExact
  BY DEF MInv, AInv
<1> QED BY InitMInv, NextMInv, <1>1, PTL DEF Spec

\* What is granted never makes a tier hard by itself (reserve_locked, can_accept_bytes).
THEOREM GrantsBelowHard == Spec => []GrantsStayBelowHard
<1>1. MInv => GrantsStayBelowHard
  BY GInvGrants DEF MInv
<1> QED BY InitMInv, NextMInv, <1>1, PTL DEF Spec

\* A plan for a denied load that is carried out alone lets the load in
\* (plan_for_reservation, reserve_load).
THEOREM ReliefSuffices == Spec => []ReliefAdmits
<1>1. MInv => ReliefAdmits
  BY PInvAdmits DEF MInv
<1> QED BY InitMInv, NextMInv, <1>1, PTL DEF Spec
=============================================================================
