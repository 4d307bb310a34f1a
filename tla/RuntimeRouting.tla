---------------------------- MODULE RuntimeRouting ----------------------------
(***************************************************************************)
(* The model-aware runtime router, src/runtime_control/routing.rs.         *)
(*                                                                         *)
(* One mutex guards the route tables; resolving a backend, reading its     *)
(* descriptor, running it and releasing a state happen without it.  Each   *)
(* backend-owned state counts as a live state of its process instance, and *)
(* an operation that will create one reserves a place first: on an         *)
(* instance that is routed already, or one of the bounded instance places. *)
(*                                                                         *)
(* A backend state is a record of its identity, the process instance that  *)
(* holds it and the adapter that made it.  Process identities are read     *)
(* from the adapter, so a worker that restarts changes its instance, and   *)
(* two adapter objects may claim the same one.  The runtime control plane  *)
(* lets Permits operations that create states run at once (its operation   *)
(* gate has one permit); releases, driven by leases that are dropped, and  *)
(* metadata requests are not gated.                                        *)
(***************************************************************************)
EXTENDS Integers, Sequences, FiniteSets

CONSTANTS
  Models,            \* model fingerprints; also stands for their envelopes
  Adapters,          \* concrete runtime adapters, compared by pointer
  MaxInstance,       \* bound: process identities are 1..MaxInstance
  StateIds,          \* bound: backend states that exist at once
  Workers,           \* threads that call the router
  Permits,           \* operations that create states at once
  MaxModelRoutes,    \* MAX_MODEL_ROUTES
  MaxCompatRoutes,   \* MAX_COMPATIBILITY_ROUTES
  MaxInstanceRoutes, \* MAX_INSTANCE_ROUTES
  NoModel, NoAdapter, NoState

ASSUME NamesAssumption ==
  /\ NoModel \notin Models /\ NoAdapter \notin Adapters
  /\ IsFiniteSet(StateIds) /\ IsFiniteSet(Workers)
  /\ NoState \notin StateIds \X (1..MaxInstance) \X Adapters
ASSUME BoundsAssumption ==
  /\ MaxInstance \in Nat \ {0}
  /\ {Permits, MaxModelRoutes, MaxCompatRoutes, MaxInstanceRoutes} \subseteq Nat \ {0}

Instances == 1..MaxInstance
States == StateIds \X Instances \X Adapters  \* <<identity, instance, maker>>
InstanceOf(s) == s[2]
MakerOf(s) == s[3]

Route == [model : Models, adapter : Adapters]
Kinds == {"none", "metadata", "compatibility", "prefill", "restore", "derive", "release"}
Places == {"idle", "selecting", "resolved", "bound", "planned", "ready", "described",
           "reserved", "produced", "rejected", "releasing", "released"}

VARIABLES
  models,   \* RouteCache::models, least recently used first
  compat,   \* RouteCache::compatibility, least recently used first
  owner,    \* RouteCache::instances: the adapter an instance routes to
  live,     \* InstanceRoute::live_states
  pending,  \* RouteCache::pending_state_routes
  process,  \* the instance each adapter's worker runs as
  held,     \* backend states the control plane owns through leases
  op        \* the operation of each worker

tables == <<models, compat>>
counts == <<owner, live, pending>>
vars == <<tables, counts, process, held, op>>

Idle == [pc |-> "idle", kind |-> "none", model |-> NoModel,
         adapter |-> NoAdapter, inst |-> 0, res |-> "none",
         src |-> NoState, state |-> NoState]

Operation == [pc : Places, kind : Kinds, model : Models \cup {NoModel},
              adapter : Adapters \cup {NoAdapter}, inst : Instances \cup {0},
              res : {"none", "new", "existing"},
              src : States \cup {NoState}, state : States \cup {NoState}]

Routed == {i \in Instances : owner[i] # NoAdapter}
Creating == {w \in Workers : op[w].kind \in {"prefill", "restore", "derive"}}
InUse == {op[w].src : w \in Workers} \cup {op[w].state : w \in Workers}

-----------------------------------------------------------------------------
(* The two bounded route tables: positions, most recent use, insertion. *)

\* A model has one route at most (OneRoutePerModel), so the first, the last and every
\* position of its route are the same.
Positions(table, m) == {i \in 1..Len(table) : table[i].model = m}
Routes(table, m) == Positions(table, m) # {}
Position(table, m) == CHOOSE i \in Positions(table, m) : TRUE
Found(table, m) == table[Position(table, m)]

RemoveRoute(table, i) == SubSeq(table, 1, i - 1) \o SubSeq(table, i + 1, Len(table))
Without(table, m) == IF Routes(table, m) THEN RemoveRoute(table, Position(table, m)) ELSE table

\* A located route moves to the back.
Touch(table, m) == Append(Without(table, m), Found(table, m))

PushBounded(table, r, max) ==
  Append(IF Len(table) = max THEN Tail(table) ELSE table, r)

\* retain(..) then push_bounded(..)
Record(table, m, a, max) ==
  PushBounded(Without(table, m), [model |-> m, adapter |-> a], max)

-----------------------------------------------------------------------------
Init ==
  /\ models = << >> /\ compat = << >>
  /\ owner = [i \in Instances |-> NoAdapter]
  /\ live = [i \in Instances |-> 0]
  /\ pending = 0
  /\ process \in [Adapters -> Instances]
  /\ held = {}
  /\ op = [w \in Workers |-> Idle]

Become(w, o) == op' = [op EXCEPT ![w] = o]
Start(w, k) ==
  /\ op[w].pc = "idle"
  /\ k \in {"prefill", "restore", "derive"} => Cardinality(Creating) < Permits

(* resolve_model_route *)

Resolving(w, k, m) ==
  /\ k \in {"metadata", "compatibility", "restore"}
  /\ Start(w, k)
  /\ k = "restore" => ~Routes(compat, m) \* prepare_persisted_state falls back

ResolveHit(w, k, m) ==
  /\ Resolving(w, k, m)
  /\ Routes(models, m)
  /\ models' = Touch(models, m)
  /\ Become(w, IF k = "metadata" THEN Idle
               ELSE [Idle EXCEPT !.pc = "resolved", !.kind = k, !.model = m,
                                 !.adapter = Found(models, m).adapter])
  /\ UNCHANGED <<compat, counts, process, held>>

ResolveMiss(w, k, m) ==
  /\ Resolving(w, k, m)
  /\ ~Routes(models, m)
  /\ Become(w, [Idle EXCEPT !.pc = "selecting", !.kind = k, !.model = m])
  /\ UNCHANGED <<tables, counts, process, held>>

\* As if the route were recorded without looking for another resolver's.
FinishSelectionBlind(w) ==
  /\ op[w].pc = "selecting"
  /\ \E a \in Adapters :
       /\ models' = PushBounded(models, [model |-> op[w].model, adapter |-> a], MaxModelRoutes)
       /\ Become(w, IF op[w].kind = "metadata" THEN Idle
                    ELSE [op[w] EXCEPT !.pc = "resolved", !.adapter = a])
  /\ UNCHANGED <<compat, counts, process, held>>

\* The backend selected an adapter while the tables were unlocked; a route
\* another resolver recorded meanwhile wins.
FinishSelection(w) ==
  /\ op[w].pc = "selecting"
  /\ LET o == op[w] IN
     \E a \in Adapters :
       LET chosen == IF Routes(models, o.model) THEN Found(models, o.model).adapter ELSE a IN
       /\ models' = IF Routes(models, o.model)
                    THEN Touch(models, o.model)
                    ELSE PushBounded(models, [model |-> o.model, adapter |-> a], MaxModelRoutes)
       /\ Become(w, IF o.kind = "metadata" THEN Idle
                    ELSE [o EXCEPT !.pc = "resolved", !.adapter = chosen])
  /\ UNCHANGED <<compat, counts, process, held>>

\* generate, prepare, preload and chat sessions record the adapter they used.
RecordModelAdapter(m, a) ==
  /\ models' = Record(models, m, a, MaxModelRoutes)
  /\ UNCHANGED <<compat, counts, process, held, op>>

\* compatibility: the adapter made an envelope, its route is recorded.
RecordCompatibility(w) ==
  /\ op[w].pc = "resolved" /\ op[w].kind = "compatibility"
  /\ compat' = Record(compat, op[w].model, op[w].adapter, MaxCompatRoutes)
  /\ Become(w, Idle)
  /\ UNCHANGED <<models, counts, process, held>>

(* prepare_persisted_state: an adapter bound by its descriptor *)

ResolvePlan(w, m) ==
  /\ Start(w, "restore")
  /\ Routes(compat, m)
  /\ compat' = Touch(compat, m)
  /\ Become(w, [Idle EXCEPT !.pc = "resolved", !.kind = "restore", !.model = m,
                            !.adapter = Found(compat, m).adapter])
  /\ UNCHANGED <<models, counts, process, held>>

BindPlan(w) ==
  /\ op[w].pc = "resolved" /\ op[w].kind = "restore"
  /\ Become(w, [op[w] EXCEPT !.pc = "bound", !.inst = process[op[w].adapter]])
  /\ UNCHANGED <<tables, counts, process, held>>

\* validate_current_descriptor, then record_compatibility.
FinishPlan(w) ==
  /\ op[w].pc = "bound"
  /\ process[op[w].adapter] = op[w].inst
  /\ compat' = Record(compat, op[w].model, op[w].adapter, MaxCompatRoutes)
  /\ Become(w, [op[w] EXCEPT !.pc = "planned"])
  /\ UNCHANGED <<models, counts, process, held>>

(* Operations that create a state: the adapter is known *)

RestorePrepared(w) ==
  /\ op[w].pc = "planned"
  /\ process[op[w].adapter] = op[w].inst
  /\ Become(w, [op[w] EXCEPT !.pc = "ready"])
  /\ UNCHANGED <<tables, counts, process, held>>

StartPrefill(w, m) ==
  /\ Start(w, "prefill")
  /\ Routes(compat, m)
  /\ compat' = Touch(compat, m)
  /\ Become(w, [Idle EXCEPT !.pc = "ready", !.kind = "prefill", !.model = m,
                            !.adapter = Found(compat, m).adapter])
  /\ UNCHANGED <<models, counts, process, held>>

\* decode, snapshot and move_state find the adapter by the state's instance.
StartDerive(w, s) ==
  /\ Start(w, "derive")
  /\ s \in held /\ owner[InstanceOf(s)] # NoAdapter
  /\ ~\E v \in Workers : op[v].kind = "release" /\ op[v].src = s
  /\ Become(w, [Idle EXCEPT !.pc = "ready", !.kind = "derive", !.src = s,
                            !.adapter = owner[InstanceOf(s)]])
  /\ UNCHANGED <<tables, counts, process, held>>

(* reserve_state_route: the descriptor is read before the lock is taken *)

ReadDescriptor(w) ==
  /\ op[w].pc = "ready"
  /\ Become(w, [op[w] EXCEPT !.pc = "described", !.inst = process[op[w].adapter]])
  /\ UNCHANGED <<tables, counts, process, held>>

ReserveExisting(w) ==
  /\ op[w].pc = "described"
  /\ owner[op[w].inst] = op[w].adapter
  /\ live' = [live EXCEPT ![op[w].inst] = @ + 1]
  /\ Become(w, [op[w] EXCEPT !.pc = "reserved", !.res = "existing"])
  /\ UNCHANGED <<tables, owner, pending, process, held>>

\* As if the places were counted off by one.
ReserveNewOneMore(w) ==
  /\ op[w].pc = "described"
  /\ owner[op[w].inst] = NoAdapter
  /\ Cardinality(Routed) + pending <= MaxInstanceRoutes
  /\ pending' = pending + 1
  /\ Become(w, [op[w] EXCEPT !.pc = "reserved", !.res = "new"])
  /\ UNCHANGED <<tables, owner, live, process, held>>

ReserveNew(w) ==
  /\ op[w].pc = "described"
  /\ owner[op[w].inst] = NoAdapter
  /\ Cardinality(Routed) + pending < MaxInstanceRoutes
  /\ pending' = pending + 1
  /\ Become(w, [op[w] EXCEPT !.pc = "reserved", !.res = "new"])
  /\ UNCHANGED <<tables, owner, live, process, held>>

\* The operation ends before it holds a place: the backend or its selection
\* fails, the descriptor changed, the identity is taken, or no place is free.
Abandon(w) ==
  /\ op[w].pc \in {"selecting", "resolved", "bound", "planned", "ready", "described"}
  /\ Become(w, Idle)
  /\ UNCHANGED <<tables, counts, process, held>>

\* The backend creates a state in whatever process it runs by now.
Produce(w) ==
  /\ op[w].pc = "reserved"
  /\ \E id \in StateIds :
       /\ \A s \in held \cup (InUse \ {NoState}) : s[1] # id
       /\ Become(w, [op[w] EXCEPT !.pc = "produced",
                       !.state = <<id, process[op[w].adapter], op[w].adapter>>])
  /\ UNCHANGED <<tables, counts, process, held>>

(* The route tables with a state more or a state less of an instance *)

\* As if an instance were found by its identity alone.
CanRecordAnyOwner(own, i, a) ==
  \/ own[i] # NoAdapter
  \/ own[i] = NoAdapter /\ Cardinality({j \in Instances : own[j] # NoAdapter}) # MaxInstanceRoutes

CanRecord(own, i, a) ==
  \/ own[i] = a
  \/ own[i] = NoAdapter /\ Cardinality({j \in Instances : own[j] # NoAdapter}) # MaxInstanceRoutes

CanRelease(i, a) == owner[i] = a /\ live[i] > 0

OwnerWithout(i) == [owner EXCEPT ![i] = IF live[i] = 1 THEN NoAdapter ELSE @]
LiveWithout(i) == [live EXCEPT ![i] = @ - 1]

\* Drop of a reservation: the backend failed or panicked, or decode kept no state.
DropReservation(w) ==
  /\ op[w].pc = "reserved"
  /\ \/ /\ op[w].res = "new"
        /\ pending' = pending - 1
        /\ UNCHANGED <<owner, live>>
     \/ /\ op[w].res = "existing"
        /\ IF CanRelease(op[w].inst, op[w].adapter)
           THEN owner' = OwnerWithout(op[w].inst) /\ live' = LiveWithout(op[w].inst)
           ELSE UNCHANGED <<owner, live>>
        /\ UNCHANGED pending
  /\ Become(w, Idle)
  /\ UNCHANGED <<tables, process, held>>

(* StateRouteReservation::commit *)

\* As if the instance were recorded although the reservation counted the state.
CommitInPlaceTwice(w) ==
  /\ op[w].pc = "produced" /\ op[w].res = "existing"
  /\ InstanceOf(op[w].state) = op[w].inst
  /\ live' = [live EXCEPT ![op[w].inst] = @ + 1]
  /\ held' = held \cup {op[w].state}
  /\ Become(w, Idle)
  /\ UNCHANGED <<tables, owner, pending, process>>

\* As if every reservation gave a pending place back.
CommitInPlacePending(w) ==
  /\ op[w].pc = "produced" /\ op[w].res = "existing"
  /\ InstanceOf(op[w].state) = op[w].inst
  /\ pending' = pending - 1
  /\ held' = held \cup {op[w].state}
  /\ Become(w, Idle)
  /\ UNCHANGED <<tables, owner, live, process>>

\* The state is where the reservation already counted it.
CommitInPlace(w) ==
  /\ op[w].pc = "produced" /\ op[w].res = "existing"
  /\ InstanceOf(op[w].state) = op[w].inst
  /\ held' = held \cup {op[w].state}
  /\ Become(w, Idle)
  /\ UNCHANGED <<tables, counts, process>>

\* The reserved place is given up and the instance recorded, which may fail.
CommitElsewhere(w) ==
  /\ op[w].pc = "produced"
  /\ op[w].res = "new" \/ InstanceOf(op[w].state) # op[w].inst
  /\ LET o == op[w]
         moved == o.res = "existing"
         i == InstanceOf(o.state)
         given == moved => CanRelease(o.inst, o.adapter)
         own == IF moved /\ given THEN OwnerWithout(o.inst) ELSE owner
         liv == IF moved /\ given THEN LiveWithout(o.inst) ELSE live
         recorded == given /\ CanRecord(own, i, o.adapter)
     IN /\ pending' = IF moved THEN pending ELSE pending - 1
        /\ owner' = IF recorded THEN [own EXCEPT ![i] = o.adapter] ELSE own
        /\ live' = IF recorded THEN [liv EXCEPT ![i] = @ + 1] ELSE liv
        /\ held' = IF recorded THEN held \cup {o.state} ELSE held
        /\ Become(w, IF recorded THEN Idle
                     ELSE [o EXCEPT !.pc = "rejected", !.res = "none"])
  /\ UNCHANGED <<tables, process>>

\* commit_state_route: the adapter releases a state without a route; the caller
\* learns whether that was confirmed.
ReleaseRejected(w) ==
  /\ op[w].pc = "rejected"
  /\ Become(w, Idle)
  /\ UNCHANGED <<tables, counts, process, held>>

(* release *)

StartRelease(w, s) ==
  /\ Start(w, "release")
  /\ s \in held \ InUse /\ owner[InstanceOf(s)] # NoAdapter
  /\ Become(w, [Idle EXCEPT !.pc = "releasing", !.kind = "release", !.src = s,
                            !.adapter = owner[InstanceOf(s)]])
  /\ UNCHANGED <<tables, counts, process, held>>

\* A release the backend does not confirm leaves the state and its route.
BackendReleases(w) ==
  /\ op[w].pc = "releasing"
  /\ Become(w, [op[w] EXCEPT !.pc = "released"]) \/ Become(w, Idle)
  /\ UNCHANGED <<tables, counts, process, held>>

FinishRelease(w) ==
  /\ op[w].pc = "released"
  /\ LET i == InstanceOf(op[w].src) IN
     IF CanRelease(i, op[w].adapter)
     THEN /\ owner' = OwnerWithout(i) /\ live' = LiveWithout(i)
          /\ held' = held \ {op[w].src}
     ELSE UNCHANGED <<owner, live, held>>
  /\ Become(w, Idle)
  /\ UNCHANGED <<tables, pending, process>>

(* A worker process is replaced; its instance identity is new. *)
Restart(a) ==
  /\ \E i \in Instances : i > process[a] /\ process' = [process EXCEPT ![a] = i]
  /\ UNCHANGED <<tables, counts, held, op>>

CreateStep(w) ==
  \/ RestorePrepared(w) \/ ReadDescriptor(w)
  \/ ReserveExisting(w) \/ ReserveNew(w) \/ Abandon(w) \/ Produce(w)
  \/ DropReservation(w) \/ CommitInPlace(w) \/ CommitElsewhere(w) \/ ReleaseRejected(w)
  \/ \E m \in Models : StartPrefill(w, m)
  \/ \E s \in held : StartDerive(w, s)

RouteStep(w) ==
  \/ FinishSelection(w) \/ RecordCompatibility(w) \/ BindPlan(w) \/ FinishPlan(w)
  \/ \E m \in Models : ResolvePlan(w, m)
  \/ \E m \in Models, k \in Kinds : ResolveHit(w, k, m) \/ ResolveMiss(w, k, m)

ReleaseStep(w) ==
  \/ BackendReleases(w) \/ FinishRelease(w)
  \/ \E s \in held : StartRelease(w, s)

Next ==
  \/ \E w \in Workers : CreateStep(w) \/ RouteStep(w) \/ ReleaseStep(w)
  \/ \E m \in Models, a \in Adapters : RecordModelAdapter(m, a)
  \/ \E a \in Adapters : Restart(a)

Spec == Init /\ [][Next]_vars

-----------------------------------------------------------------------------
\* The variables stay within the values the code can hold (RouteCache).
TypeOK ==
  /\ models \in Seq(Route) /\ compat \in Seq(Route)
  /\ owner \in [Instances -> Adapters \cup {NoAdapter}]
  /\ live \in [Instances -> Nat]
  /\ pending \in Nat
  /\ process \in [Adapters -> Instances]
  /\ held \in SUBSET States
  /\ op \in [Workers -> Operation]

HeldBy(i) == {s \in held : InstanceOf(s) = i}
ReservedOn(i) == {w \in Workers : op[w].res = "existing" /\ op[w].inst = i}
ReservedNew == {w \in Workers : op[w].res = "new"}

\* The live count of an instance is exactly the states held in it plus the places
\* reserved on it, pending counts the reserved new places, and an instance is routed
\* iff it has a live count: no interleaving of reserving, committing, dropping and
\* releasing leaks a place or gives one up twice (live_states, pending_state_routes).
RouteCountExact ==
  /\ pending = Cardinality(ReservedNew)
  /\ \A i \in Instances :
       /\ live[i] = Cardinality(HeldBy(i)) + Cardinality(ReservedOn(i))
       /\ owner[i] = NoAdapter <=> live[i] = 0

\* Every state the control plane holds is routed to the adapter that made it, also
\* when adapters claim the same process identity, and whoever works on a state or
\* releases it does so through that adapter (adapter_for_state, record_instance_locked).
StatesReachTheirAdapter ==
  /\ \A s \in held : owner[InstanceOf(s)] = MakerOf(s)
  /\ \A w \in Workers : op[w].src # NoState => op[w].adapter = MakerOf(op[w].src)

\* With one operation at a time the instance places and the reserved ones never
\* exceed the bound, so a creation admitted to a new place finds it when it commits
\* (reserve_state_route; the place is given up before the instance is recorded).
ReservationHonoured ==
  Permits = 1 => Cardinality(Routed) + pending <= MaxInstanceRoutes

\* Resolvers that select a backend without the lock never leave two routes for one
\* model, and no table outgrows its bound (resolve_model_route, push_bounded).
OneRoutePerModel ==
  /\ \A m \in Models : Cardinality(Positions(models, m)) <= 1
                       /\ Cardinality(Positions(compat, m)) <= 1
  /\ Len(models) <= MaxModelRoutes /\ Len(compat) <= MaxCompatRoutes
=============================================================================
