----------------------------- MODULE MemoryManager -----------------------------
(***************************************************************************)
(* Memory accounting and pressure policy, src/runtime_control/memory.rs.   *)
(*                                                                         *)
(* Every operation holds the manager's mutex.  A load reserves bytes of a  *)
(* tier, the backend loads, the reservation is committed or dropped.       *)
(* Under pressure, or when a load was denied, a plan of demotions and      *)
(* evictions is made; each of its actions is claimed, done by the backend  *)
(* and committed, or dropped.  Between these steps anybody may reserve,    *)
(* use, pin, remove or orphan, and telemetry may report anything.          *)
(*                                                                         *)
(* Monotonic time appears as the order of use of the allocations and as    *)
(* the tiers whose last action is within the cooldown.                     *)
(***************************************************************************)
EXTENDS Integers, Sequences, FiniteSets, FiniteSetsExt, SequencesExt

CONSTANTS
  Ids,               \* AllocationId
  Budget,            \* TierBudget: bytes of each tier
  Total,             \* total_bytes telemetry reports for each tier
  Sizes,             \* sizes of loads
  Samples,           \* what telemetry reports as available, for each tier
  MaxAllocations, MaxReservations, MaxActions,
  MaxOrphans,        \* bound: cleanups outside of an allocation that fail
  NoAllocation, NoAction, NoPromise

Tiers == {"host", "gpu"}      \* MemoryTier::Host, MemoryTier::Accelerator(0)
NoTier == "none"

ASSUME BytesAssumption ==
  /\ Budget \in [Tiers -> Nat \ {0}] /\ Total \in [Tiers -> Nat \ {0}]
  /\ Sizes \subseteq Nat \ {0}
  /\ \A av \in Samples : av \in [Tiers -> Nat] /\ \A t \in Tiers : av[t] <= Total[t]
ASSUME LimitsAssumption ==
  {MaxAllocations, MaxReservations, MaxActions} \subseteq Nat \ {0} /\ MaxOrphans \in Nat

Allocation == [tier : Tiers, bytes : Sizes, pinned : BOOLEAN, target : {"host", NoTier}]
Action == [id : Ids, from : Tiers, to : Tiers \cup {NoTier}, bytes : Sizes]  \* NoTier: Evict

Promise == [tier : Tiers, bytes : Sizes, avail : [Tiers -> Nat]]

ASSUME NamesAssumption ==
  NoAllocation \notin Allocation /\ NoAction \notin Action /\ NoPromise \notin Promise

VARIABLES
  topology,   \* MemoryTopology
  managed,    \* TierAccount::managed_used_bytes
  reserved,   \* TierAccount::reserved_bytes
  active,     \* TierAccount::active_reservations
  pressure,   \* TierAccount::pressure
  avail,      \* TierAccount::observation: bytes last seen available
  cooling,    \* tiers whose last_action_millis is within the cooldown
  alloc,      \* ManagerState::allocations
  recent,     \* the allocations in the order of last_used_millis
  loads,      \* MemoryReservation: pending_loads with what they will become
  claim,      \* PressureActionPermit: pending_actions with their action
  orphaned,   \* orphaned_release_bytes, by tier
  orphans,    \* how often record_orphaned_release was called
  plan,       \* PressureActionPlan::actions a caller has still to begin
  promise     \* history: the load the plan makes room for, and the memory it will find

accounts == <<managed, reserved, active>>
seen == <<pressure, avail>>
objects == <<alloc, recent, loads, claim>>
lost == <<orphaned, orphans>>
vars == <<topology, accounts, seen, cooling, objects, lost, plan, promise>>

Allocated == {i \in Ids : alloc[i] # NoAllocation}
Loading == {i \in Ids : loads[i] # NoAllocation}
Claimed == {i \in Ids : claim[i] # NoAction}

-----------------------------------------------------------------------------
(* Pressure *)

Least(a, b) == IF a < b THEN a ELSE b
Most(a, b) == IF a < b THEN b ELSE a
Less(a, b) == IF a < b THEN 0 ELSE a - b     \* saturating_sub
Both(f) == f["host"] + f["gpu"]
With(f, t, b) == [f EXCEPT ![t] = @ + b]
Without(f, t, b) == [f EXCEPT ![t] = Less(@, b)]

Normal == 0
Soft == 1
Hard == 2
Emergency == 3
Levels == Normal..Emergency
EntryBp == <<7500, 8500, 9500>>               \* PressureThresholds::default
HysteresisBp == 500

Utilization(used, budget) == (used * 10000) \div budget

Classify(bp) ==
  CASE bp >= EntryBp[Emergency] -> Emergency
    [] bp < EntryBp[Emergency] /\ bp >= EntryBp[Hard] -> Hard
    [] bp < EntryBp[Hard] /\ bp >= EntryBp[Soft] -> Soft
    [] OTHER -> Normal

\* A level is left downwards only below its entry less the hysteresis.
Reclassify(previous, bp) ==
  Max({Classify(bp)} \cup {l \in Soft..previous : bp >= EntryBp[l] - HysteresisBp})

(* What counts as used, with telemetry av *)

Observed(t, av) == Total[t] - av[t]
TierBudget(t) == Least(Budget[t], Total[t])
TierUsed(t, av) == Most(Observed(t, av), managed[t]) + reserved[t]
SharedBudget == Least(TierBudget("host"), TierBudget("gpu"))
SharedUsed(av) ==
  Most(Most(Observed("host", av), Observed("gpu", av)), Both(managed)) + Both(reserved)

EffectiveBudget(t) == IF topology = "discrete" THEN TierBudget(t) ELSE SharedBudget
EffectiveUsed(t, av) == IF topology = "discrete" THEN TierUsed(t, av) ELSE SharedUsed(av)
TierBp(t, av) == Utilization(EffectiveUsed(t, av), EffectiveBudget(t))

\* reserve_locked and can_accept_bytes decide alike.
CanAccept(t, incoming, av) ==
  /\ managed[t] + reserved[t] + incoming <= Budget[t]
  /\ reserved[t] + incoming <= av[t]
  /\ Classify(Utilization(TierUsed(t, av) + incoming, TierBudget(t))) < Hard
  /\ topology = "unified" =>
       /\ Both(reserved) + incoming <= Least(av["host"], av["gpu"])
       /\ Classify(Utilization(SharedUsed(av) + incoming, SharedBudget)) < Hard

-----------------------------------------------------------------------------
Init ==
  /\ topology \in {"discrete", "unified"}
  /\ managed = [t \in Tiers |-> 0] /\ reserved = managed /\ active = managed
  /\ pressure = [t \in Tiers |-> Normal]
  /\ avail = Total                 \* no observation yet: every user refreshes first
  /\ cooling = {}
  /\ alloc = [i \in Ids |-> NoAllocation] /\ loads = alloc
  /\ recent = << >>
  /\ claim = [i \in Ids |-> NoAction]
  /\ orphaned = [t \in Tiers |-> 0] /\ orphans = 0
  /\ plan = << >> /\ promise = NoPromise

\* A plan made before something else happened no longer promises anything.
Interfere == UNCHANGED plan /\ promise' = NoPromise

\* refresh_accounts: one shared level with unified memory, one for each tier otherwise.
Observe(av) ==
  /\ avail' = av
  /\ pressure' =
       IF topology = "unified"
       THEN [t \in Tiers |-> Reclassify(Most(pressure["host"], pressure["gpu"]), TierBp(t, av))]
       ELSE [t \in Tiers |-> Reclassify(pressure[t], TierBp(t, av))]

\* Also all that a load leaves behind that is denied.
Refresh(av) ==
  /\ Observe(av)
  /\ Interfere
  /\ UNCHANGED <<topology, accounts, cooling, objects, lost>>

(* MemoryReservation *)

ReserveLoad(i, a, av) ==
  /\ alloc[i] = NoAllocation /\ loads[i] = NoAllocation
  /\ Cardinality(Allocated) + Cardinality(Loading) < MaxAllocations
  /\ a.target = "host" => a.tier = "gpu"        \* validate_demotion_target
  /\ Both(active) < MaxReservations
  /\ CanAccept(a.tier, a.bytes, av)
  /\ Observe(av)
  /\ reserved' = With(reserved, a.tier, a.bytes)
  /\ active' = With(active, a.tier, 1)
  /\ loads' = [loads EXCEPT ![i] = a]
  /\ Interfere
  /\ UNCHANGED <<topology, managed, cooling, alloc, recent, claim, lost>>

ReleaseReservation(t, b) ==
  /\ reserved' = Without(reserved, t, b)
  /\ active' = Without(active, t, 1)

\* As if a committed load stayed among the pending ones.
CommitLoadPending(i) ==
  /\ loads[i] # NoAllocation /\ alloc[i] = NoAllocation
  /\ ReleaseReservation(loads[i].tier, loads[i].bytes)
  /\ managed' = With(managed, loads[i].tier, loads[i].bytes)
  /\ alloc' = [alloc EXCEPT ![i] = loads[i]]
  /\ recent' = Append(recent, i)
  /\ Interfere
  /\ UNCHANGED <<topology, seen, cooling, loads, claim, lost>>

CommitLoad(i) ==
  /\ loads[i] # NoAllocation
  /\ ReleaseReservation(loads[i].tier, loads[i].bytes)
  /\ managed' = With(managed, loads[i].tier, loads[i].bytes)
  /\ alloc' = [alloc EXCEPT ![i] = loads[i]]
  /\ loads' = [loads EXCEPT ![i] = NoAllocation]
  /\ recent' = Append(recent, i)
  /\ Interfere
  /\ UNCHANGED <<topology, seen, cooling, claim, lost>>

\* Drop: the backend did not load.
DropLoad(i) ==
  /\ loads[i] # NoAllocation
  /\ ReleaseReservation(loads[i].tier, loads[i].bytes)
  /\ loads' = [loads EXCEPT ![i] = NoAllocation]
  /\ Interfere
  /\ UNCHANGED <<topology, managed, seen, cooling, alloc, recent, claim, lost>>

(* Allocations; refused while an action of theirs is in flight *)

\* As if allocations with an action in flight could be changed.
UnclaimedAlways(i) == alloc[i] # NoAllocation

Unclaimed(i) == alloc[i] # NoAllocation /\ claim[i] = NoAction

\* The elements of a set, in the order of seq.
Among(seq, set) == FoldLeft(LAMBDA kept, i : IF i \in set THEN Append(kept, i) ELSE kept, << >>, seq)

Forget(i) == Among(recent, Ids \ {i})

TouchAllocation(i) ==
  /\ Unclaimed(i)
  /\ recent' = Append(Forget(i), i)
  /\ Interfere
  /\ UNCHANGED <<topology, accounts, seen, cooling, alloc, loads, claim, lost>>

\* set_pinned; record_failed_release pins what it cannot release.
SetPinned(i, pinned) ==
  /\ Unclaimed(i)
  /\ alloc' = [alloc EXCEPT ![i].pinned = pinned]
  /\ Interfere
  /\ UNCHANGED <<topology, accounts, seen, cooling, recent, loads, claim, lost>>

RemoveAllocation(i) ==
  /\ Unclaimed(i)
  /\ managed' = Without(managed, alloc[i].tier, alloc[i].bytes)
  /\ alloc' = [alloc EXCEPT ![i] = NoAllocation]
  /\ recent' = Forget(i)
  /\ Interfere
  /\ UNCHANGED <<topology, reserved, active, seen, cooling, loads, claim, lost>>

\* A backend allocation without a record could not be released; one of unknown
\* size is charged with the budget of its tier.
RecordOrphanedRelease(t, b) ==
  /\ orphans < MaxOrphans
  /\ managed' = With(managed, t, b)
  /\ orphaned' = With(orphaned, t, b) /\ orphans' = orphans + 1
  /\ Interfere
  /\ UNCHANGED <<topology, reserved, active, seen, cooling, objects>>

-----------------------------------------------------------------------------
(* plan_pressure_actions_for *)

\* As if a load without pressure could go up to the hard threshold.
TargetBpAtHard(level) ==
  CASE level = Emergency -> EntryBp[Hard] - HysteresisBp
    [] level = Hard -> EntryBp[Soft] - HysteresisBp
    [] OTHER -> EntryBp[Hard]

\* action_target_basis_points; one below hard for a load without pressure.
TargetBp(level) ==
  CASE level = Emergency -> EntryBp[Hard] - HysteresisBp
    [] level = Hard -> EntryBp[Soft] - HysteresisBp
    [] OTHER -> EntryBp[Hard] - 1

RequiredRelief(t, requested, level, av) ==
  IF level < Hard /\ requested = 0 THEN 0
  ELSE Less(EffectiveUsed(t, av) + requested, (EffectiveBudget(t) * TargetBp(level)) \div 10000)

Candidates(t, eligible) ==
  Among(recent, {i \in eligible : /\ Unclaimed(i) /\ ~alloc[i].pinned
                                  /\ topology = "unified" \/ alloc[i].tier = t})

Relief(acts) == FoldLeft(LAMBDA sum, a : sum + a.bytes, 0, acts)

ActionOn(i, to) == [id |-> i, from |-> alloc[i].tier, to |-> to, bytes |-> alloc[i].bytes]

Open(acts, required) == Relief(acts) < required /\ Len(acts) < MaxActions

\* Demotions come first, each with what those before it bring to its target.
WithDemotions(candidates, required, av) ==
  FoldLeft(LAMBDA acts, i :
             IF /\ Open(acts, required) /\ alloc[i].target # NoTier
                /\ CanAccept(alloc[i].target, Relief(acts) + alloc[i].bytes, av)
             THEN Append(acts, ActionOn(i, alloc[i].target))
             ELSE acts,
           << >>, candidates)

WithEvictions(demotions, candidates, required) ==
  FoldLeft(LAMBDA acts, i :
             IF Open(acts, required) /\ ~\E k \in 1..Len(acts) : acts[k].id = i
             THEN Append(acts, ActionOn(i, NoTier))
             ELSE acts,
           demotions, candidates)

Actions(t, eligible, required, av) ==
  LET candidates == Candidates(t, eligible)
  IN WithEvictions(IF topology = "discrete" THEN WithDemotions(candidates, required, av)
                   ELSE << >>, candidates, required)

CoolingDown(t) == IF topology = "unified" THEN cooling # {} ELSE t \in cooling

\* plan_for_reservation_among (requested > 0) or plan_pressure_actions_among; for a
\* load, a plan that leaves bytes unresolved is an error and only refreshes.
Plan(t, requested, eligible, av) ==
  /\ Observe(av)
  /\ LET required == RequiredRelief(t, requested, pressure'[t], av)
         acts == IF CoolingDown(t) THEN << >> ELSE Actions(t, eligible, required, av)
     IN /\ requested > 0 => Relief(acts) >= required
        /\ plan' = acts
        /\ promise' = IF requested > 0 /\ Claimed = {}
                      THEN [tier |-> t, bytes |-> requested, avail |-> av] ELSE NoPromise
  /\ UNCHANGED <<topology, accounts, cooling, objects, lost>>

(* PressureActionPermit *)

\* As if what was planned were done without looking at the target again.
StillAcceptedAsPlanned(t, b) == TRUE

StillAccepted(t, b) == Both(active) < MaxReservations /\ CanAccept(t, b, avail)

BeginPressureAction ==
  /\ plan # << >>
  /\ LET a == Head(plan) IN
     /\ Unclaimed(a.id) /\ ~alloc[a.id].pinned
     /\ alloc[a.id].tier = a.from /\ alloc[a.id].bytes = a.bytes
     /\ IF a.to = NoTier THEN UNCHANGED <<reserved, active>>
        ELSE /\ alloc[a.id].target = a.to /\ topology = "discrete"
             /\ StillAccepted(a.to, a.bytes)
             /\ reserved' = With(reserved, a.to, a.bytes)
             /\ active' = With(active, a.to, 1)
     /\ claim' = [claim EXCEPT ![a.id] = a]
  /\ plan' = Tail(plan)
  /\ UNCHANGED <<topology, managed, seen, cooling, alloc, recent, loads, lost, promise>>

\* The action is stale or refused, or its state is in use by now.
SkipAction ==
  /\ plan # << >>
  /\ plan' = Tail(plan) /\ promise' = NoPromise
  /\ UNCHANGED <<topology, accounts, seen, cooling, objects, lost>>

\* As if only the claim, not the bytes reserved at the target, were given up.
UnclaimOnly(i) ==
  /\ claim' = [claim EXCEPT ![i] = NoAction]
  /\ UNCHANGED <<reserved, active>>

\* release_pressure_action_locked
Unclaim(i) ==
  /\ claim' = [claim EXCEPT ![i] = NoAction]
  /\ IF claim[i].to = NoTier THEN UNCHANGED <<reserved, active>>
     ELSE ReleaseReservation(claim[i].to, claim[i].bytes)

\* Telemetry that follows the backend exactly.
Moved(a, av) ==
  [t \in Tiers |->
     IF topology = "unified" \/ t = a.from THEN Least(Total[t], av[t] + a.bytes)
     ELSE IF t = a.to THEN Less(av[t], a.bytes)
     ELSE av[t]]

Fresh(i) ==
  LET a == claim[i]
  IN /\ alloc[i] # NoAllocation
     /\ alloc[i].tier = a.from /\ alloc[i].bytes = a.bytes
     /\ a.to # NoTier => alloc[i].target = a.to

CommitAction(i) ==
  /\ claim[i] # NoAction
  /\ Fresh(i)
  /\ LET a == claim[i] IN
     /\ managed' = IF a.to = NoTier THEN Without(managed, a.from, a.bytes)
                   ELSE With(Without(managed, a.from, a.bytes), a.to, a.bytes)
     /\ alloc' = [alloc EXCEPT ![i] = IF a.to = NoTier THEN NoAllocation
                                      ELSE [@ EXCEPT !.tier = a.to, !.target = NoTier]]
     /\ recent' = IF a.to = NoTier THEN Forget(i) ELSE recent
     /\ cooling' = IF topology = "unified" THEN Tiers ELSE cooling \cup {a.from}
     /\ promise' = IF promise = NoPromise THEN promise ELSE [promise EXCEPT !.avail = Moved(a, @)]
  /\ Unclaim(i)
  /\ UNCHANGED <<topology, seen, loads, lost, plan>>

\* A commit that finds its claim stale drops the permit as well.
DropAction(i) ==
  /\ claim[i] # NoAction
  /\ Unclaim(i)
  /\ Interfere
  /\ UNCHANGED <<topology, managed, seen, cooling, alloc, recent, loads, lost>>

CooldownEnds(t) ==
  /\ t \in cooling
  /\ cooling' = cooling \ {t}
  /\ UNCHANGED <<topology, accounts, seen, objects, lost, plan, promise>>

-----------------------------------------------------------------------------
LoadStep(i) ==
  \/ \E a \in Allocation, av \in Samples : ReserveLoad(i, a, av)
  \/ CommitLoad(i) \/ DropLoad(i)

AllocationStep(i) ==
  \/ TouchAllocation(i) \/ RemoveAllocation(i)
  \/ \E pinned \in BOOLEAN : SetPinned(i, pinned)

ActionStep(i) == CommitAction(i) \/ DropAction(i)

TierStep(t) ==
  \/ CooldownEnds(t)
  \/ \E b \in Sizes \cup {Budget[t]} : RecordOrphanedRelease(t, b)
  \/ \E requested \in Sizes \cup {0}, eligible \in SUBSET Allocated, av \in Samples :
       Plan(t, requested, eligible, av)

Next ==
  \/ \E i \in Ids : LoadStep(i) \/ AllocationStep(i) \/ ActionStep(i)
  \/ \E t \in Tiers : TierStep(t)
  \/ \E av \in Samples : Refresh(av)
  \/ BeginPressureAction \/ SkipAction

Spec == Init /\ [][Next]_vars

-----------------------------------------------------------------------------
\* The variables stay within the values the code can hold, and an id is a load under
\* way or an allocation, never both (ManagerState).
TypeOK ==
  /\ topology \in {"discrete", "unified"}
  /\ {managed, reserved, active, orphaned, avail} \subseteq [Tiers -> Nat]
  /\ pressure \in [Tiers -> Levels]
  /\ cooling \subseteq Tiers
  /\ alloc \in [Ids -> Allocation \cup {NoAllocation}]
  /\ loads \in [Ids -> Allocation \cup {NoAllocation}]
  /\ claim \in [Ids -> Action \cup {NoAction}]
  /\ recent \in Seq(Ids) /\ orphans \in Nat
  /\ plan \in Seq(Action) /\ promise \in Promise \cup {NoPromise}
  /\ \A i \in Ids : alloc[i] = NoAllocation \/ loads[i] = NoAllocation

BytesOf(f, S) == MapThenSumSet(LAMBDA i : f[i].bytes, S)
In(f, t) == {i \in Ids : f[i] # NoAllocation /\ f[i].tier = t}
BytesIn(f, t) == BytesOf(f, In(f, t))
DemotingTo(t) == {i \in Claimed : claim[i].to = t}

\* The accounts of a tier are exactly the allocations in it and the lost ones, the
\* loads under way and the demotions claimed towards it, whatever was committed,
\* dropped, removed or orphaned in between (managed_used_bytes, reserved_bytes).
AccountsExact ==
  \A t \in Tiers :
    /\ managed[t] = BytesIn(alloc, t) + orphaned[t]
    /\ reserved[t] = BytesIn(loads, t) + BytesOf(claim, DemotingTo(t))
    /\ active[t] = Cardinality(In(loads, t)) + Cardinality(DemotingTo(t))

\* What the manager granted, loads under way and demotions included, never adds up
\* to hard pressure by itself, in no tier and not in memory the tiers share: only
\* orphans and other programs do that (reserve_locked, can_accept_bytes).
GrantsStayBelowHard ==
  LET granted(t) == managed[t] - orphaned[t] + reserved[t] IN
  /\ \A t \in Tiers : Classify(Utilization(granted(t), TierBudget(t))) < Hard
  /\ topology = "unified" =>
       Classify(Utilization(granted("host") + granted("gpu"), SharedBudget)) < Hard

\* What a backend moved or evicted under a claim can always be recorded: nobody
\* removes, pins or moves a claimed allocation (begin_pressure_action, commit).
ClaimsStayValid ==
  \A i \in Claimed : Fresh(i) /\ ~alloc[i].pinned /\ claim[i].id = i

\* A plan that resolves all that a denied load needs keeps its word: when all of it
\* was carried out, nothing else happened and telemetry follows the backend, the
\* retry is admitted (plan_for_reservation, reserve_load).
ReliefAdmits ==
  promise # NoPromise /\ Claimed = {} /\ plan = << >>
    => CanAccept(promise.tier, promise.bytes, promise.avail)
=============================================================================
