---------------------------- MODULE RuntimeCache ----------------------------
(***************************************************************************)
(* The registry of resident model runtimes, src/backend/runtime_cache.rs.  *)
(*                                                                         *)
(* A cache maps a runtime key to a slot (an Arc<CacheSlot>).  A slot owns  *)
(* a mutex around the loaded runtime (an Arc<V>, here an instance: a       *)
(* worker process or in-process weights) and a pin count.  The registry    *)
(* mutex covers lookup and publication only; loading runs under the slot's *)
(* mutex; inference holds the instance and no lock.                        *)
(*                                                                         *)
(* Reference counts are not counters here.  A slot or an instance is       *)
(* shared exactly when someone holds it, so Arc::strong_count(x) = 1 is    *)
(* the absence of a holder other than the registry, and an instance that   *)
(* nobody references any more has been dropped (its process is killed).    *)
(*                                                                         *)
(* At startup one thread, Boot, runs the preload transactions of           *)
(* api/preload.rs; requests (Threads) and telemetry (Monitors) run once    *)
(* the server accepts connections.                                         *)
(***************************************************************************)
EXTENDS Naturals, FiniteSets

CONSTANTS
  Keys,        \* runtime keys: model identity and configuration
  Threads,     \* threads running requests
  Boot,        \* the thread that runs the preload transactions
  Monitors,    \* threads that take snapshots for telemetry
  Generations, \* bound: slots, and instances, of one key that exist at once
  Policies,    \* the constructors and uses of a cache to consider
  MaxPreloads, \* bound: preload targets of one startup
  NoKey, NoSlot, NoInst

Policy == [capacity : Nat \ {0}, \* RuntimeCache::bounded / retained
           evictIdle : BOOLEAN,  \* FALSE for RuntimeCache::retained
           discards : {"nothing", "key", "all"}, \* what a failed request removes
           panics : BOOLEAN]     \* a loader may panic

ASSUME PolicyAssumption == Policies \subseteq Policy
ASSUME NamesAssumption ==
  /\ Generations \subseteq Nat
  /\ Boot \notin Threads
  /\ MaxPreloads \in Nat
  /\ NoKey \notin Keys
  /\ NoSlot \notin Keys \X Generations
  /\ NoInst \notin Keys \X Generations

\* Identities of slot allocations and of loaded runtimes, each made for a key.
Slots == Keys \X Generations
Instances == Keys \X Generations

Workers == Threads \cup {Boot}

Capture == [tx : 1..MaxPreloads, slot : Slots, inst : Instances, fresh : BOOLEAN]

VARIABLES
  policy,    \* the constructor arguments of this cache; never changes
  stage,     \* "startup", "serving" or "stopped"
  slotOf,    \* the registry: the slot published for a key
  older,     \* the order of the registry's deque, as pairs <<nearer the front, nearer the back>>
  val,       \* the instance in a slot
  pins,      \* CacheSlot::pins
  poisoned,  \* slots whose mutex a panicking loader poisoned
  running,   \* instances that work; a crashed worker is not running
  pc, key,   \* where each worker is, and the key it asked for
  slot,      \* the slot clone a worker holds while it looks up and loads
  evicted,   \* the evicted slot a worker must drop before it loads
  inst,      \* the instance a worker uses
  scoped,    \* Boot is inside a preload transaction
  tx,        \* number of the current preload transaction
  captured,  \* slots captured by the current transaction
  handles,   \* captures of committed transactions, owned by PreloadHandles
  watched,   \* slot clones a monitor took under the registry lock
  sampled    \* instances a monitor holds while it reads telemetry

registryVars == <<slotOf, older>>
preloadVars  == <<scoped, tx, captured, handles>>
monitorVars  == <<watched, sampled>>
threadVars   == <<pc, key, slot, evicted, inst>>
vars == <<policy, stage, registryVars, val, pins, poisoned, running,
          threadVars, preloadVars, monitorVars>>

-----------------------------------------------------------------------------
(* Reference counts and the registry *)

Registered == {k \in Keys : slotOf[k] # NoSlot}

SlotShared(s) ==
  \/ \E t \in Workers : slot[t] = s
  \/ \E c \in captured \cup handles : c.slot = s
  \/ \E m \in Monitors : s \in watched[m]

ValueShared(i) ==
  \/ \E t \in Workers : inst[t] = i
  \/ \E m \in Monitors : i \in sampled[m]

Referenced(i) == ValueShared(i) \/ \E s \in Slots : val[s] = i

\* An instance that lost its last owner is dropped and its worker killed.
RunningAmong(S) == running' = {i \in S : Referenced(i)'}

FreeSlots(k) ==
  {s \in {k} \X Generations :
     /\ \A j \in Keys : slotOf[j] # s
     /\ \A t \in Workers : evicted[t] # s
     /\ ~SlotShared(s)}
\* Captures keep a Weak to the instance, so its identity is not used again.
FreeInstances(k) ==
  {i \in {k} \X Generations :
     ~Referenced(i) /\ \A c \in captured \cup handles : c.inst # i}
Least(S) == {s \in S : \A u \in S : s[2] <= u[2]}

\* Mutants: a purge that overlooks threads waiting for the slot, one that never
\* happens, and an eviction that overlooks the users of the instance.
PurgeableUnlocked(s) ==
  /\ \A t \in Workers : ~(pc[t] = "loading" /\ slot[t] = s)
  /\ s \notin poisoned /\ val[s] = NoInst
PurgeableNever(s) == FALSE
EvictableInUse(s) == ~SlotShared(s) /\ s \notin poisoned

Purgeable(s) == ~SlotShared(s) /\ s \notin poisoned /\ val[s] = NoInst
Evictable(s) == /\ ~SlotShared(s)
                /\ s \notin poisoned
                /\ val[s] = NoInst \/ ~ValueShared(val[s])

Purged == {k \in Registered : Purgeable(slotOf[k])}
Ordinary(K) == {k \in K : pins[slotOf[k]] = 0}
FullBeyond(K) == Cardinality(Ordinary(K)) > policy.capacity \* mutant: off by one
Full(K) == Cardinality(Ordinary(K)) >= policy.capacity
Oldest(K) == {k \in K : \A j \in K : j = k \/ <<k, j>> \in older}
Victims == Oldest({k \in Registered \ Purged : Evictable(slotOf[k])})

\* Mutant: the evicted entry stays published.
RepublishKeeping(R, k, s) ==
  /\ slotOf' = [slotOf EXCEPT ![k] = s]
  /\ older' = {p \in older : k \notin {p[1], p[2]}} \cup ((Registered \ {k}) \X {k})

\* Unregister the keys R, then publish slot s for key k at the back.
Republish(R, k, s) ==
  /\ slotOf' = [j \in Keys |-> IF j = k THEN s ELSE IF j \in R THEN NoSlot ELSE slotOf[j]]
  /\ older' = {p \in older : {p[1], p[2]} \cap (R \cup {k}) = {}}
                \cup ((Registered \ (R \cup {k})) \X {k})

Unregister(R) ==
  /\ slotOf' = [j \in Keys |-> IF j \in R THEN NoSlot ELSE slotOf[j]]
  /\ older' = {p \in older : {p[1], p[2]} \cap R = {}}

-----------------------------------------------------------------------------

Init ==
  /\ policy \in Policies
  /\ stage = "startup"
  /\ slotOf = [k \in Keys |-> NoSlot]
  /\ older = {}
  /\ val = [s \in Slots |-> NoInst]
  /\ pins = [s \in Slots |-> 0]
  /\ poisoned = {}
  /\ running = {}
  /\ pc = [t \in Workers |-> "idle"]
  /\ key = [t \in Workers |-> NoKey]
  /\ slot = [t \in Workers |-> NoSlot]
  /\ evicted = [t \in Workers |-> NoSlot]
  /\ inst = [t \in Workers |-> NoInst]
  /\ scoped = FALSE
  /\ tx = 0
  /\ captured = {}
  /\ handles = {}
  /\ watched = [m \in Monitors |-> {}]
  /\ sampled = [m \in Monitors |-> {}]

-----------------------------------------------------------------------------
(* get_or_try_init, under the registry lock *)

MayAsk(t) == /\ pc[t] = "idle"
             /\ IF t = Boot THEN scoped ELSE stage = "serving"

Hold(t, k, s, where) ==
  /\ pc' = [pc EXCEPT ![t] = where]
  /\ key' = [key EXCEPT ![t] = k]
  /\ slot' = [slot EXCEPT ![t] = s]

LookupHit(t, k) ==
  /\ MayAsk(t)
  /\ k \in Registered
  /\ Republish({}, k, slotOf[k])
  /\ Hold(t, k, slotOf[k], "waiting")
  /\ UNCHANGED <<policy, stage, val, pins, poisoned, running, evicted, inst,
                 preloadVars, monitorVars>>

\* A miss with room, or inside a preload transaction, which ignores capacity.
LookupAdmit(t, k) ==
  /\ MayAsk(t)
  /\ k \notin Registered
  /\ t = Boot \/ ~Full(Registered \ Purged)
  /\ \E s \in Least(FreeSlots(k)) :
       /\ Republish(Purged, k, s)
       /\ Hold(t, k, s, "waiting")
  /\ UNCHANGED <<policy, stage, val, pins, poisoned, running, evicted, inst,
                 preloadVars, monitorVars>>

\* A miss on a full cache takes the place of the least recently used idle entry.
LookupEvict(t, k) ==
  /\ MayAsk(t)
  /\ k \notin Registered
  /\ t # Boot /\ Full(Registered \ Purged)
  /\ policy.evictIdle
  /\ \E v \in Victims, s \in Least(FreeSlots(k)) :
       /\ Republish(Purged \cup {v}, k, s)
       /\ Hold(t, k, s, "dropping")
       /\ evicted' = [evicted EXCEPT ![t] = slotOf[v]]
  /\ UNCHANGED <<policy, stage, val, pins, poisoned, running, inst,
                 preloadVars, monitorVars>>

\* A miss on a full cache of which nothing may be evicted is an error; the
\* entries of failed loads are purged all the same.
LookupRefuse(t, k) ==
  /\ MayAsk(t)
  /\ k \notin Registered
  /\ t # Boot /\ Full(Registered \ Purged)
  /\ policy.evictIdle => Victims = {}
  /\ Unregister(Purged)
  /\ pc' = [pc EXCEPT ![t] = "refused"]
  /\ UNCHANGED <<policy, stage, val, pins, poisoned, running, key, slot, evicted, inst,
                 preloadVars, monitorVars>>

ReturnRefusal(t) ==
  /\ pc[t] = "refused"
  /\ pc' = [pc EXCEPT ![t] = "idle"]
  /\ UNCHANGED <<policy, stage, registryVars, val, pins, poisoned, running,
                 key, slot, evicted, inst, preloadVars, monitorVars>>

\* Outside the registry lock: the evicted runtime's destructor stops its worker.
DropEvicted(t) ==
  /\ pc[t] = "dropping"
  /\ pc' = [pc EXCEPT ![t] = "waiting"]
  /\ evicted' = [evicted EXCEPT ![t] = NoSlot]
  /\ val' = [val EXCEPT ![evicted[t]] = NoInst]
  /\ UNCHANGED <<policy, stage, registryVars, pins, poisoned, key, slot, inst,
                 preloadVars, monitorVars>>
  /\ RunningAmong(running)

-----------------------------------------------------------------------------
(* get_or_try_init, under the slot lock *)

LockIgnored(s) == TRUE \* mutant: loading without the slot's mutex
LockFree(s) == \A u \in Workers : ~(pc[u] = "loading" /\ slot[u] = s)

Captures(s, i, fresh) ==
  IF \E c \in captured : c.slot = s THEN {}
  ELSE {[tx |-> tx, slot |-> s, inst |-> i, fresh |-> fresh]}

\* Mutant: a capture that does not pin.
CaptureWithoutPin(t, i, fresh) ==
  /\ captured' = captured \cup
       (IF t = Boot /\ scoped THEN Captures(slot[t], i, fresh) ELSE {})
  /\ pins' = pins

\* capture(): only inside the transaction of this thread.
CaptureSlot(t, i, fresh) ==
  LET new == IF t = Boot /\ scoped THEN Captures(slot[t], i, fresh) ELSE {}
  IN  /\ captured' = captured \cup new
      /\ pins' = [pins EXCEPT ![slot[t]] = @ + (IF new = {} THEN 0 ELSE 1)]

\* The guard and the slot clone go when the call returns.
Return(t, where, i) ==
  /\ pc' = [pc EXCEPT ![t] = where]
  /\ key' = [key EXCEPT ![t] = IF i = NoInst THEN NoKey ELSE @]
  /\ slot' = [slot EXCEPT ![t] = NoSlot]
  /\ inst' = [inst EXCEPT ![t] = i]

AcquirePoisoned(t) ==
  /\ pc[t] = "waiting" /\ LockFree(slot[t])
  /\ slot[t] \in poisoned
  /\ Return(t, "idle", NoInst)
  /\ UNCHANGED <<policy, stage, registryVars, val, pins, poisoned, running, evicted,
                 preloadVars, monitorVars>>

AcquireValid(t) ==
  LET i == val[slot[t]] IN
  /\ pc[t] = "waiting" /\ LockFree(slot[t])
  /\ slot[t] \notin poisoned
  /\ i \in running
  /\ CaptureSlot(t, i, FALSE)
  /\ Return(t, "using", i)
  /\ UNCHANGED <<policy, stage, registryVars, val, poisoned, running, evicted,
                 scoped, tx, handles, monitorVars>>

\* The slot is empty or its worker is dead: release it, then load a new one.
AcquireLoad(t) ==
  /\ pc[t] = "waiting" /\ LockFree(slot[t])
  /\ slot[t] \notin poisoned
  /\ val[slot[t]] \notin running
  /\ pc' = [pc EXCEPT ![t] = "loading"]
  /\ val' = [val EXCEPT ![slot[t]] = NoInst]
  /\ UNCHANGED <<policy, stage, registryVars, pins, poisoned, running, key, slot, evicted,
                 inst, preloadVars, monitorVars>>

LoadSucceeds(t) ==
  /\ pc[t] = "loading"
  /\ \E i \in Least(FreeInstances(key[t])) :
       /\ val' = [val EXCEPT ![slot[t]] = i]
       /\ CaptureSlot(t, i, TRUE)
       /\ Return(t, "using", i)
       /\ running' = running \cup {i}
  /\ UNCHANGED <<policy, stage, registryVars, poisoned, evicted,
                 scoped, tx, handles, monitorVars>>

LoadFails(t) ==
  /\ pc[t] = "loading"
  /\ Return(t, "idle", NoInst)
  /\ UNCHANGED <<policy, stage, registryVars, val, pins, poisoned, running, evicted,
                 preloadVars, monitorVars>>

\* The guard is dropped while unwinding, which poisons the slot's mutex; the
\* panic of a preload unwinds through its transaction.
LoadPanics(t) ==
  /\ policy.panics
  /\ pc[t] = "loading"
  /\ poisoned' = poisoned \cup {slot[t]}
  /\ Return(t, IF t = Boot THEN "rollback" ELSE "idle", NoInst)
  /\ scoped' = (scoped /\ t # Boot)
  /\ UNCHANGED <<policy, stage, registryVars, val, pins, running, evicted,
                 tx, captured, handles, monitorVars>>

-----------------------------------------------------------------------------
(* The users of an instance *)

Finish(t) ==
  /\ pc[t] = "using"
  /\ Return(t, "idle", NoInst)
  /\ UNCHANGED <<policy, stage, registryVars, val, pins, poisoned, evicted,
                 preloadVars, monitorVars>>
  /\ RunningAmong(running)

\* remove_if: the entries whose slot only the registry holds and whose value
\* satisfies the predicate (the set Doomed of instances).
RemoveIf(Doomed) ==
  LET R == {k \in Registered : /\ ~SlotShared(slotOf[k])
                               /\ slotOf[k] \notin poisoned
                               /\ val[slotOf[k]] \in Doomed}
  IN  /\ Unregister(R)
      /\ val' = [s \in Slots |-> IF \E k \in R : slotOf[k] = s THEN NoInst ELSE val[s]]

\* omlx.rs cached_server_with removes workers that died before it looks one up.
RemoveDead ==
  /\ ~policy.evictIdle
  /\ stage = "serving"
  /\ \E k \in Registered : val[slotOf[k]] # NoInst /\ val[slotOf[k]] \notin running
  /\ RemoveIf(Instances \ running)
  /\ UNCHANGED <<policy, stage, pins, poisoned, threadVars, preloadVars, monitorVars>>
  /\ RunningAmong(running)

\* A request that failed drops its instance, then removes from the registry the
\* workers of its key (text_analysis.rs) or all of them (text_analysis_candle.rs).
Fail(t) ==
  /\ policy.discards # "nothing"
  /\ t # Boot
  /\ pc[t] = "using"
  /\ pc' = [pc EXCEPT ![t] = "discarding"]
  /\ inst' = [inst EXCEPT ![t] = NoInst]
  /\ UNCHANGED <<policy, stage, registryVars, val, pins, poisoned, key, slot, evicted,
                 preloadVars, monitorVars>>
  /\ RunningAmong(running)

Discard(t) ==
  /\ pc[t] = "discarding"
  /\ RemoveIf({i \in Instances : policy.discards = "all" \/ i[1] = key[t]})
  /\ Return(t, "idle", NoInst)
  /\ UNCHANGED <<policy, stage, pins, poisoned, evicted, preloadVars, monitorVars>>
  /\ RunningAmong(running)

WorkerDies(i) ==
  /\ i \in running
  /\ running' = running \ {i}
  /\ UNCHANGED <<policy, stage, registryVars, val, pins, poisoned, threadVars,
                 preloadVars, monitorVars>>

\* snapshot(): clone every slot under the registry lock ...
SnapshotSlots(m) ==
  /\ stage = "serving"
  /\ watched[m] = {} /\ sampled[m] = {}
  /\ Registered # {}
  /\ watched' = [watched EXCEPT ![m] = {slotOf[k] : k \in Registered}]
  /\ UNCHANGED <<policy, stage, registryVars, val, pins, poisoned, running, threadVars,
                 preloadVars, sampled>>

\* ... then take the values of those whose mutex is free, without the lock.
SnapshotValues(m) ==
  /\ watched[m] # {}
  /\ sampled' = [sampled EXCEPT ![m] =
        {val[s] : s \in {r \in watched[m] \ poisoned : LockFree(r) /\ val[r] # NoInst}}]
  /\ watched' = [watched EXCEPT ![m] = {}]
  /\ UNCHANGED <<policy, stage, registryVars, val, pins, poisoned, running, threadVars,
                 preloadVars>>

SnapshotDropped(m) ==
  /\ sampled[m] # {}
  /\ sampled' = [sampled EXCEPT ![m] = {}]
  /\ UNCHANGED <<policy, stage, registryVars, val, pins, poisoned, threadVars,
                 preloadVars, watched>>
  /\ RunningAmong(running)

-----------------------------------------------------------------------------
(* Preload transactions *)

BeginPreload ==
  /\ stage = "startup" /\ ~scoped /\ pc[Boot] = "idle"
  /\ tx < MaxPreloads
  /\ tx' = tx + 1
  /\ scoped' = TRUE
  /\ UNCHANGED <<policy, stage, registryVars, val, pins, poisoned, running, threadVars,
                 captured, handles, monitorVars>>

CommitPreload ==
  /\ scoped /\ pc[Boot] = "idle"
  /\ captured # {}
  /\ scoped' = FALSE
  /\ handles' = handles \cup captured
  /\ captured' = {}
  /\ UNCHANGED <<policy, stage, registryVars, val, pins, poisoned, running, threadVars,
                 tx, monitorVars>>

\* The operation returned an error, or retained nothing.
FailPreload ==
  /\ scoped /\ pc[Boot] = "idle"
  /\ scoped' = FALSE
  /\ pc' = [pc EXCEPT ![Boot] = "rollback"]
  /\ UNCHANGED <<policy, stage, registryVars, val, pins, poisoned, running,
                 key, slot, evicted, inst, tx, captured, handles, monitorVars>>

UnpinForgotten(s) == pins' = pins \* mutant: the release keeps the pin
Unpin(s) == pins' = [pins EXCEPT ![s] = @ - 1]

\* Mutant: the rollback also takes back what an earlier transaction preloaded.
ReleaseAnything(c) ==
  /\ pc[Boot] = "rollback"
  /\ c \in captured
  /\ val' = [val EXCEPT ![c.slot] = NoInst]
  /\ Unpin(c.slot)
  /\ captured' = captured \ {c}
  /\ UNCHANGED <<policy, stage, registryVars, poisoned, threadVars, scoped, tx, handles,
                 monitorVars>>
  /\ RunningAmong(running)

\* release(false): take back the instance this transaction loaded, if the slot
\* still holds it.
ReleaseCapture(c) ==
  /\ pc[Boot] = "rollback"
  /\ c \in captured
  /\ val' = [val EXCEPT ![c.slot] = IF c.fresh /\ @ = c.inst THEN NoInst ELSE @]
  /\ Unpin(c.slot)
  /\ captured' = captured \ {c}
  /\ UNCHANGED <<policy, stage, registryVars, poisoned, threadVars, scoped, tx, handles,
                 monitorVars>>
  /\ RunningAmong(running)

\* api/preload.rs stops at the first target that fails and cli.rs then returns.
StopStartup ==
  /\ pc[Boot] = "rollback"
  /\ captured = {}
  /\ pc' = [pc EXCEPT ![Boot] = "idle"]
  /\ stage' = "stopped"
  /\ UNCHANGED <<policy, registryVars, val, pins, poisoned, running, key, slot, evicted,
                 inst, preloadVars, monitorVars>>

StartServing ==
  /\ stage = "startup" /\ ~scoped /\ pc[Boot] = "idle"
  /\ stage' = "serving"
  /\ UNCHANGED <<policy, registryVars, val, pins, poisoned, running, threadVars,
                 preloadVars, monitorVars>>

\* PreloadHandle::drop, release(true): give up the pin, keep the instance.
DropHandle(c) ==
  /\ stage = "stopped"
  /\ c \in handles
  /\ handles' = handles \ {c}
  /\ Unpin(c.slot)
  /\ UNCHANGED <<policy, stage, registryVars, val, poisoned, running, threadVars,
                 scoped, tx, captured, monitorVars>>

Stopped == stage = "stopped" /\ handles = {} /\ UNCHANGED vars

-----------------------------------------------------------------------------

WorkerStep(t) ==
  \/ \E k \in Keys : LookupHit(t, k) \/ LookupAdmit(t, k) \/ LookupEvict(t, k) \/ LookupRefuse(t, k)
  \/ ReturnRefusal(t) \/ DropEvicted(t)
  \/ AcquirePoisoned(t) \/ AcquireValid(t) \/ AcquireLoad(t)
  \/ LoadSucceeds(t) \/ LoadFails(t) \/ LoadPanics(t)
  \/ Finish(t) \/ Fail(t) \/ Discard(t)

MonitorStep(m) == SnapshotSlots(m) \/ SnapshotValues(m) \/ SnapshotDropped(m)

PreloadStep ==
  \/ BeginPreload \/ CommitPreload \/ FailPreload \/ StopStartup \/ StartServing
  \/ \E c \in captured : ReleaseCapture(c)
  \/ \E c \in handles : DropHandle(c)

Next ==
  \/ \E t \in Workers : WorkerStep(t)
  \/ \E m \in Monitors : MonitorStep(m)
  \/ \E i \in Instances : WorkerDies(i)
  \/ PreloadStep
  \/ RemoveDead
  \/ Stopped

Spec == Init /\ [][Next]_vars

-----------------------------------------------------------------------------
(* Properties *)

\* Every variable stays in the set its Rust type gives it.
TypeOK ==
  /\ policy \in Policies
  /\ stage \in {"startup", "serving", "stopped"}
  /\ slotOf \in [Keys -> Slots \cup {NoSlot}]
  /\ older \subseteq Keys \X Keys
  /\ val \in [Slots -> Instances \cup {NoInst}]
  /\ pins \in [Slots -> Nat]
  /\ poisoned \subseteq Slots
  /\ running \subseteq Instances
  /\ pc \in [Workers -> {"idle", "refused", "dropping", "waiting", "loading",
                         "using", "discarding", "rollback"}]
  /\ key \in [Workers -> Keys \cup {NoKey}]
  /\ slot \in [Workers -> Slots \cup {NoSlot}]
  /\ evicted \in [Workers -> Slots \cup {NoSlot}]
  /\ inst \in [Workers -> Instances \cup {NoInst}]
  /\ scoped \in BOOLEAN
  /\ tx \in 0..MaxPreloads
  /\ captured \subseteq Capture
  /\ handles \subseteq Capture
  /\ watched \in [Monitors -> SUBSET Slots]
  /\ sampled \in [Monitors -> SUBSET Instances]

\* "Never evict either or duplicate active weights": a working instance that a
\* request uses is the one the registry offers to the next request for its key.
\* Eviction, purging, replacement, rollback and remove_if could each break it.
ActiveInstanceStaysShared ==
  \A t \in Workers :
    inst[t] \in running => /\ key[t] \in Registered
                           /\ val[slotOf[key[t]]] = inst[t]

Active(i) ==
  \/ \E t \in Workers : inst[t] = i
  \/ \E k \in Registered : val[slotOf[k]] = i

\* "One healthy process per exact key": among the working instances that are
\* registered or in use there are no two for one key.
OneInstancePerKey ==
  \A i, j \in running : i[1] = j[1] /\ Active(i) /\ Active(j) => i = j

\* Single flight: no two threads load the same key at once.
SingleFlight ==
  \A t, u \in Workers : pc[t] = "loading" /\ pc[u] = "loading" /\ key[t] = key[u] => t = u

\* While the server serves, the entries that are not preloaded never exceed the
\* configured capacity: failed preloads, pins and evictions leave no excess.
OrdinaryWithinCapacity ==
  stage = "serving" => Cardinality(Ordinary(Registered)) <= policy.capacity

\* What is resident is bounded too: beyond the ordinary capacity and the pinned
\* slots there is at most one instance per request that is still dropping the
\* entry it evicted.
ResidentBounded ==
  stage = "serving" =>
    Cardinality(running) <= policy.capacity
                            + Cardinality({s \in Slots : pins[s] > 0})
                            + Cardinality({t \in Workers : pc[t] = "dropping"})

\* A slot's pin count is the number of captures that will release it.
PinsAccounted ==
  \A s \in Slots : pins[s] = Cardinality({c \in captured \cup handles : c.slot = s})

\* The steps of requests, failures, rollbacks and removals leave a preloaded
\* runtime that works where its key finds it for as long as its handle lives:
\* nothing evicts, replaces, purges or takes it back.
PreloadedStaysResident ==
  [][\A c \in handles' : c.inst \in running =>
        \E k \in Registered' : slotOf'[k] = c.slot /\ val'[c.slot] = c.inst]_vars

Busy(k) ==
  \/ SlotShared(slotOf[k])
  \/ val[slotOf[k]] # NoInst /\ ValueShared(val[slotOf[k]])

\* A request is refused for capacity only while capacity is really taken: each
\* ordinary entry is being initialised or used, or holds a runtime the retained
\* policy keeps.  "Failed loads ... must not consume the capacity forever".
RefusedOnlyWhenTaken ==
  [][(\E t \in Workers : pc[t] # "refused" /\ pc'[t] = "refused")
       => /\ Full(Registered)'
          /\ \A k \in Ordinary(Registered)' :
               Busy(k)' \/ (~policy.evictIdle /\ val[slotOf'[k]] # NoInst)]_vars
=============================================================================
