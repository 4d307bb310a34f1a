------------------------- MODULE RuntimeCacheProofs -------------------------
(***************************************************************************)
(* What the runtime registry guarantees for every set of keys, threads and *)
(* cache configurations.  The inductive invariant says who holds which     *)
(* slot and where each instance lives; the safety properties follow.       *)
(***************************************************************************)
EXTENDS RuntimeCache, FiniteSetTheorems, TLAPS

Captured == captured \cup handles

\* What each place in a worker's path implies about what it holds.
PlacesOK ==
  \A t \in Workers :
    /\ pc[t] \in {"dropping", "waiting", "loading"} <=> slot[t] # NoSlot
    /\ pc[t] = "dropping" <=> evicted[t] # NoSlot
    /\ pc[t] = "using" <=> inst[t] # NoInst
    /\ slot[t] # NoSlot \/ inst[t] # NoInst \/ pc[t] = "discarding" => key[t] \in Keys
    /\ inst[t] # NoInst => inst[t][1] = key[t]
    /\ pc[t] = "discarding" => policy.discards # "nothing"

\* Only the preload thread acts before the server serves, and never after.
StagesOK ==
  /\ scoped => stage = "startup" /\ pc[Boot] # "rollback"
  /\ pc[Boot] \notin {"idle", "rollback"} => scoped
  /\ pc[Boot] = "rollback" => stage = "startup"
  /\ scoped => tx \in 1..MaxPreloads
  /\ captured # {} => scoped \/ pc[Boot] = "rollback"
  /\ stage = "startup" => /\ \A t \in Threads : pc[t] = "idle"
                          /\ \A m \in Monitors : watched[m] = {} /\ sampled[m] = {}

\* A slot belongs to the key it was allocated for, and whoever holds a clone
\* of it holds the one that is registered.
SlotsOK ==
  /\ \A k \in Registered : slotOf[k][1] = k
  /\ \A t \in Workers : slot[t] # NoSlot => slotOf[key[t]] = slot[t]
  /\ \A c \in Captured : slotOf[c.slot[1]] = c.slot
  /\ \A t \in Workers : evicted[t] # NoSlot => slotOf[evicted[t][1]] # evicted[t]
  /\ \A t, u \in Workers : evicted[t] # NoSlot /\ evicted[t] = evicted[u] => t = u

\* An instance was made for the key of its slot and sits in one slot only;
\* slots that are neither registered nor being dropped are empty.
InstancesOK ==
  /\ \A s \in Slots : val[s] # NoInst => val[s][1] = s[1]
  /\ \A s \in Slots : val[s] # NoInst => \/ slotOf[s[1]] = s
                                         \/ \E t \in Workers : evicted[t] = s
  /\ \A r, s \in Slots : val[r] # NoInst /\ val[r] = val[s] => r = s

LoadersOK ==
  \A t, u \in Workers :
    pc[t] = "loading" => /\ val[slot[t]] = NoInst
                         /\ pc[u] = "loading" /\ slot[u] = slot[t] => t = u

\* A working instance that a capture refers to is in the captured slot; what a
\* transaction loaded itself no earlier transaction refers to, and it captures a
\* slot once.
CapturesOK ==
  /\ \A c \in Captured : c.inst \in running => val[c.slot] = c.inst
  /\ \A c \in captured, h \in handles : c.fresh => h.inst # c.inst
  /\ \A c \in captured : c.tx = tx
  /\ \A c, d \in captured : c.slot = d.slot => c = d
  /\ \A h \in handles : h.tx <= tx /\ (scoped \/ pc[Boot] = "rollback" => h.tx < tx)

PinsOK == IsFiniteSet(Captured) /\ PinsAccounted

SharedUnlessDiscarded == policy.discards = "nothing" => ActiveInstanceStaysShared

IInv ==
  /\ TypeOK
  /\ PlacesOK
  /\ StagesOK
  /\ SlotsOK
  /\ InstancesOK
  /\ LoadersOK
  /\ CapturesOK
  /\ PinsOK
  /\ SharedUnlessDiscarded

\* Publishing a slot allocated for its key, and unregistering slots that nobody
\* holds, leaves every holder with the registered slot.
LEMMA RepublishKeepsSlots ==
  ASSUME IInv,
         NEW t \in Workers, NEW k \in Keys, k \notin Registered,
         NEW s \in FreeSlots(k),
         NEW R \in SUBSET Registered, \A j \in R : ~SlotShared(slotOf[j]),
         Republish(R, k, s),
         slot' = [slot EXCEPT ![t] = s],
         key' = [key EXCEPT ![t] = k],
         UNCHANGED <<captured, handles>>
  PROVE  /\ \A j \in Registered' : slotOf'[j][1] = j
         /\ \A u \in Workers : slot'[u] # NoSlot => slotOf'[key'[u]] = slot'[u]
         /\ \A c \in Captured' : slotOf'[c.slot[1]] = c.slot
<1> USE NamesAssumption DEF IInv, TypeOK, Slots
<1>1. /\ s \in Slots /\ s[1] = k
      /\ slotOf' = [j \in Keys |-> IF j = k THEN s ELSE IF j \in R THEN NoSlot ELSE slotOf[j]]
  BY DEF FreeSlots, Republish
<1>2. \A j \in Registered' : slotOf'[j][1] = j
  BY <1>1 DEF SlotsOK, Registered
<1>3. ASSUME NEW u \in Workers, slot'[u] # NoSlot
      PROVE  slotOf'[key'[u]] = slot'[u]
  <2>1. CASE u = t
    BY <1>1, <2>1
  <2>2. CASE u # t
    <3>1. slot[u] # NoSlot /\ slot'[u] = slot[u] /\ key'[u] = key[u]
      BY <1>3, <2>2
    <3>2. key[u] \in Keys /\ slotOf[key[u]] = slot[u]
      BY <3>1 DEF PlacesOK, SlotsOK
    <3>3. key[u] # k /\ key[u] \notin R
      BY <3>1, <3>2 DEF Registered, SlotShared
    <3> QED
      BY <1>1, <3>1, <3>2, <3>3
  <2> QED
    BY <2>1, <2>2
<1>4. ASSUME NEW c \in Captured'
      PROVE  slotOf'[c.slot[1]] = c.slot
  <2>1. c \in Captured /\ c.slot \in Slots
    BY DEF Captured, Capture
  <2>2. slotOf[c.slot[1]] = c.slot /\ c.slot[1] \in Keys
    BY <2>1 DEF SlotsOK
  <2>3. c.slot[1] # k /\ c.slot[1] \notin R
    BY <2>1, <2>2 DEF Registered, SlotShared, Captured
  <2> QED
    BY <1>1, <2>2, <2>3
<1> QED
  BY <1>2, <1>3, <1>4

\* Unregistering slots that nobody holds, likewise.
LEMMA UnregisterKeepsSlots ==
  ASSUME IInv,
         NEW R \in SUBSET Registered, \A j \in R : ~SlotShared(slotOf[j]),
         Unregister(R),
         UNCHANGED <<captured, handles>>
  PROVE  /\ \A j \in Registered' : slotOf'[j][1] = j
         /\ \A u \in Workers : slot[u] # NoSlot => slotOf'[key[u]] = slot[u]
         /\ \A c \in Captured' : slotOf'[c.slot[1]] = c.slot
         /\ \A u \in Workers : evicted[u] # NoSlot => slotOf'[evicted[u][1]] # evicted[u]
<1> USE NamesAssumption DEF IInv, TypeOK, Slots
<1>1. slotOf' = [j \in Keys |-> IF j \in R THEN NoSlot ELSE slotOf[j]]
  BY DEF Unregister
<1>2. \A j \in Registered' : slotOf'[j][1] = j
  BY <1>1 DEF SlotsOK, Registered
<1>3. ASSUME NEW u \in Workers, slot[u] # NoSlot
      PROVE  slotOf'[key[u]] = slot[u]
  <2>1. key[u] \in Keys /\ slotOf[key[u]] = slot[u]
    BY <1>3 DEF PlacesOK, SlotsOK
  <2>2. key[u] \notin R
    BY <1>3, <2>1 DEF Registered, SlotShared
  <2> QED
    BY <1>1, <2>1, <2>2
<1>4. ASSUME NEW c \in Captured'
      PROVE  slotOf'[c.slot[1]] = c.slot
  <2>1. c \in Captured /\ c.slot \in Slots
    BY DEF Captured, Capture
  <2>2. slotOf[c.slot[1]] = c.slot /\ c.slot[1] \in Keys
    BY <2>1 DEF SlotsOK
  <2>3. c.slot[1] \notin R
    BY <2>1, <2>2 DEF Registered, SlotShared, Captured
  <2> QED
    BY <1>1, <2>2, <2>3
<1>5. \A u \in Workers : evicted[u] # NoSlot => slotOf'[evicted[u][1]] # evicted[u]
  BY <1>1 DEF SlotsOK
<1> QED
  BY <1>2, <1>3, <1>4, <1>5

\* remove_if takes away entries nobody holds, and only their instances.
LEMMA RemoveIfRemoves ==
  ASSUME IInv,
         NEW Doomed,
         RemoveIf(Doomed)
  PROVE  \E R \in SUBSET Registered :
           /\ Unregister(R)
           /\ \A j \in R : ~SlotShared(slotOf[j]) /\ val[slotOf[j]] \in Doomed
           /\ val' = [s \in Slots |-> IF \E j \in R : slotOf[j] = s THEN NoInst ELSE val[s]]
<1> DEFINE R == {k \in Registered : /\ ~SlotShared(slotOf[k])
                                    /\ slotOf[k] \notin poisoned
                                    /\ val[slotOf[k]] \in Doomed}
<1>1. R \in SUBSET Registered
  OBVIOUS
<1>2. Unregister(R) /\ val' = [s \in Slots |-> IF \E j \in R : slotOf[j] = s THEN NoInst ELSE val[s]]
  BY DEF RemoveIf
<1>3. \A j \in R : ~SlotShared(slotOf[j]) /\ val[slotOf[j]] \in Doomed
  OBVIOUS
<1> QED
  BY <1>1, <1>2, <1>3

\* What a removal leaves of the invariant: instances in slots and captures.
LEMMA RemovalKeepsInstances ==
  ASSUME IInv,
         NEW R \in SUBSET Registered, \A j \in R : ~SlotShared(slotOf[j]),
         Unregister(R),
         val' = [s \in Slots |-> IF \E j \in R : slotOf[j] = s THEN NoInst ELSE val[s]],
         running' \subseteq running,
         UNCHANGED <<evicted, captured, handles>>
  PROVE  /\ InstancesOK'
         /\ \A c \in Captured' : c.inst \in running' => val'[c.slot] = c.inst
<1> USE NamesAssumption DEF IInv, TypeOK, Slots
<1>1. slotOf' = [j \in Keys |-> IF j \in R THEN NoSlot ELSE slotOf[j]]
  BY DEF Unregister
<1>2. \A s \in Slots : val'[s] = val[s] \/ val'[s] = NoInst
  OBVIOUS
<1>3. ASSUME NEW s \in Slots, val'[s] # NoInst
      PROVE  slotOf'[s[1]] = s \/ \E u \in Workers : evicted'[u] = s
  <2>1. CASE slotOf[s[1]] = s
    BY <1>1, <1>3, <2>1
  <2>2. CASE slotOf[s[1]] # s
    BY <1>2, <1>3, <2>2 DEF InstancesOK
  <2> QED
    BY <2>1, <2>2
<1>4. InstancesOK'
  BY <1>2, <1>3 DEF InstancesOK
<1>5. ASSUME NEW c \in Captured', c.inst \in running'
      PROVE  val'[c.slot] = c.inst
  <2>1. c \in Captured /\ c.slot \in Slots /\ c.inst \in running
    BY <1>5 DEF Captured, Capture
  <2>2. val[c.slot] = c.inst
    BY <2>1 DEF CapturesOK
  <2>3. \A j \in R : slotOf[j] # c.slot
    BY <2>1 DEF SlotShared, Captured
  <2> QED
    BY <2>1, <2>2, <2>3
<1> QED
  BY <1>4, <1>5

\* A capture that is taken is counted by the pin it takes ...
LEMMA PinTaken ==
  ASSUME TypeOK, PinsOK,
         NEW c, c.slot \in Slots, c \notin Captured,
         Captured' = Captured \cup {c},
         pins' = [pins EXCEPT ![c.slot] = @ + 1]
  PROVE  PinsOK'
<1> DEFINE Refs(s) == {d \in Captured : d.slot = s}
           RefsP(s) == {d \in Captured' : d.slot = s}
<1>1. IsFiniteSet(Captured')
  BY FS_AddElement DEF PinsOK
<1>2. ASSUME NEW s \in Slots
      PROVE  pins'[s] = Cardinality(RefsP(s))
  <2>1. IsFiniteSet(Refs(s)) /\ pins[s] = Cardinality(Refs(s))
    BY FS_Subset DEF PinsOK, PinsAccounted, Captured
  <2>2. CASE s = c.slot
    <3>1. RefsP(s) = Refs(s) \cup {c} /\ c \notin Refs(s)
      BY <2>2
    <3>2. Cardinality(Refs(s) \cup {c}) = Cardinality(Refs(s)) + 1
      BY <2>1, <3>1, FS_AddElement
    <3>3. pins'[s] = pins[s] + 1
      BY <2>2 DEF TypeOK
    <3> QED
      BY <2>1, <3>1, <3>2, <3>3
  <2>3. CASE s # c.slot
    <3>1. RefsP(s) = Refs(s)
      BY <2>3
    <3>2. pins'[s] = pins[s]
      BY <2>3 DEF TypeOK
    <3> QED
      BY <2>1, <3>1, <3>2
  <2> QED
    BY <2>2, <2>3
<1> QED
  BY <1>1, <1>2 DEF PinsOK, PinsAccounted, Captured

\* ... and a capture that is released gives its own pin back.
LEMMA PinReleased ==
  ASSUME TypeOK, PinsOK,
         NEW c \in Captured, c.slot \in Slots,
         Captured' = Captured \ {c},
         Unpin(c.slot)
  PROVE  PinsOK' /\ pins' \in [Slots -> Nat]
<1> DEFINE Refs(s) == {d \in Captured : d.slot = s}
           RefsP(s) == {d \in Captured' : d.slot = s}
<1>1. IsFiniteSet(Captured')
  BY FS_Subset DEF PinsOK
<1>2. pins' = [pins EXCEPT ![c.slot] = @ - 1]
  BY DEF Unpin
<1>3. ASSUME NEW s \in Slots
      PROVE  pins'[s] = Cardinality(RefsP(s)) /\ pins'[s] \in Nat
  <2>1. IsFiniteSet(Refs(s)) /\ pins[s] = Cardinality(Refs(s))
    BY FS_Subset DEF PinsOK, PinsAccounted, Captured
  <2>2. IsFiniteSet(RefsP(s))
    BY <1>1, FS_Subset
  <2>3. CASE s = c.slot
    <3>1. Refs(s) \ {c} = RefsP(s) /\ c \in Refs(s)
      BY <2>3
    <3>2. Cardinality(Refs(s) \ {c}) = Cardinality(Refs(s)) - 1
      BY <2>1, <3>1, FS_RemoveElement
    <3>3. pins'[s] = pins[s] - 1
      BY <1>2, <2>3 DEF TypeOK
    <3> HIDE DEF Refs, RefsP
    <3> QED
      BY <2>1, <2>2, <3>1, <3>2, <3>3, FS_CardinalityType
  <2>4. CASE s # c.slot
    <3>1. RefsP(s) = Refs(s)
      BY <2>4
    <3>2. pins'[s] = pins[s]
      BY <1>2, <2>4 DEF TypeOK
    <3> QED
      BY <2>1, <3>1, <3>2 DEF TypeOK
  <2> QED
    BY <2>3, <2>4
<1> QED
  BY <1>1, <1>2, <1>3 DEF PinsOK, PinsAccounted, Captured, TypeOK

\* What capture() does to the captures and pins of a thread's slot.
LEMMA CaptureCounted ==
  ASSUME IInv,
         NEW t \in Workers, slot[t] \in Slots,
         NEW i \in Instances, NEW fresh \in BOOLEAN,
         CaptureSlot(t, i, fresh),
         UNCHANGED handles
  PROVE  /\ captured' \subseteq Capture
         /\ pins' \in [Slots -> Nat]
         /\ PinsOK'
         /\ \/ captured' = captured
            \/ /\ scoped /\ \A d \in captured : d.slot # slot[t]
               /\ captured' = captured \cup {[tx |-> tx, slot |-> slot[t], inst |-> i, fresh |-> fresh]}
<1> DEFINE new == IF t = Boot /\ scoped THEN Captures(slot[t], i, fresh) ELSE {}
           c == [tx |-> tx, slot |-> slot[t], inst |-> i, fresh |-> fresh]
<1>1. /\ captured' = captured \cup new
      /\ pins' = [pins EXCEPT ![slot[t]] = @ + (IF new = {} THEN 0 ELSE 1)]
  BY DEF CaptureSlot
<1>2. CASE new = {}
  <2>1. captured' = captured /\ pins' = pins
    BY <1>1, <1>2 DEF IInv, TypeOK
  <2> QED
    BY <2>1 DEF IInv, TypeOK, PinsOK, PinsAccounted, Captured
<1>3. CASE new # {}
  <2>1. new = {c} /\ scoped /\ \A d \in captured : d.slot # slot[t]
    BY <1>3 DEF Captures
  <2>2. tx \in 1..MaxPreloads
    BY <2>1 DEF IInv, StagesOK
  <2>3. c \in Capture
    BY <2>2 DEF Capture
  <2>4. c \notin Captured
    BY <2>1, <2>2 DEF IInv, CapturesOK, Captured
  <2>5. Captured' = Captured \cup {c} /\ captured' \subseteq Capture
    BY <1>1, <2>1, <2>3 DEF Captured, IInv, TypeOK
  <2>6. pins' = [pins EXCEPT ![c.slot] = @ + 1] /\ pins' \in [Slots -> Nat]
    <3> HIDE DEF new
    <3>1. pins' = [pins EXCEPT ![slot[t]] = @ + 1]
      BY <1>1, <1>3
    <3> QED
      BY <3>1 DEF IInv, TypeOK
  <2> QED
    BY <1>1, <2>1, <2>4, <2>5, <2>6, PinTaken DEF IInv
<1> QED
  BY <1>2, <1>3

\* A hit moves the entry to the back of the registry and clones its slot.
LEMMA LookupHitInv ==
  ASSUME IInv,
         NEW t \in Workers,
         NEW k \in Keys,
         LookupHit(t, k)
  PROVE  IInv'
<1>1. TypeOK'
  BY DEF IInv, TypeOK, LookupHit, Republish, Hold, Registered, preloadVars, monitorVars
<1>2. PlacesOK'
  BY DEF IInv, TypeOK, PlacesOK, LookupHit, Republish, Hold, MayAsk, Registered
<1>3. StagesOK'
  BY NamesAssumption DEF IInv, StagesOK, LookupHit, Republish, Hold, MayAsk, preloadVars,
     monitorVars
<1>4. SlotsOK'
  BY DEF IInv, TypeOK, SlotsOK, Captured, Registered, LookupHit, Republish, Hold,
     preloadVars, PlacesOK
<1>5. InstancesOK'
  BY DEF IInv, InstancesOK, Slots, LookupHit, Republish, Hold
<1>6. LoadersOK'
  BY DEF IInv, LoadersOK, LookupHit, Republish, Hold, MayAsk
<1>7. CapturesOK'
  BY DEF IInv, CapturesOK, Captured, LookupHit, Republish, Hold, preloadVars
<1>8. SharedUnlessDiscarded'
  BY NamesAssumption DEF IInv, TypeOK, SharedUnlessDiscarded, ActiveInstanceStaysShared,
     Registered, Instances, LookupHit, Republish, Hold, MayAsk, PlacesOK
<1>9. PinsOK'
  BY DEF IInv, PinsOK, LookupHit, registryVars, preloadVars, monitorVars, threadVars, vars, Captured, PinsAccounted
<1> QED
  BY <1>1, <1>2, <1>3, <1>4, <1>5, <1>6, <1>7, <1>8, <1>9 DEF IInv

\* A miss with room publishes a new slot and purges idle empty ones.
LEMMA LookupAdmitInv ==
  ASSUME IInv,
         NEW t \in Workers,
         NEW k \in Keys,
         LookupAdmit(t, k)
  PROVE  IInv'
<1>1. TypeOK'
  BY DEF IInv, TypeOK, Slots, LookupAdmit, Republish, Hold, Registered, Least, FreeSlots,
     preloadVars, monitorVars
<1>2. PlacesOK'
  BY DEF IInv, TypeOK, PlacesOK, LookupAdmit, Republish, Hold, MayAsk, Least, FreeSlots
<1>3. StagesOK'
  BY NamesAssumption DEF IInv, StagesOK, LookupAdmit, Republish, Hold, MayAsk, preloadVars,
     monitorVars
<1>4. SlotsOK'
  <2>1. PICK s \in FreeSlots(k) : Republish(Purged, k, s) /\ Hold(t, k, s, "waiting")
    BY DEF LookupAdmit, Least
  <2>2. \A j \in Purged : ~SlotShared(slotOf[j])
    BY DEF Purged, Purgeable
  <2>3. /\ k \notin Registered
        /\ evicted' = evicted /\ UNCHANGED <<captured, handles>>
    BY DEF LookupAdmit, preloadVars
  <2>4. /\ \A j \in Registered' : slotOf'[j][1] = j
        /\ \A u \in Workers : slot'[u] # NoSlot => slotOf'[key'[u]] = slot'[u]
        /\ \A c \in Captured' : slotOf'[c.slot[1]] = c.slot
    BY <2>1, <2>2, <2>3, RepublishKeepsSlots, Purged \subseteq Registered DEF Hold, Purged
  <2>5. \A u \in Workers : evicted[u] # NoSlot => slotOf'[evicted[u][1]] # evicted[u]
    BY <2>1, NamesAssumption DEF IInv, TypeOK, SlotsOK, FreeSlots, Republish, Slots
  <2> QED
    BY <2>3, <2>4, <2>5 DEF SlotsOK, IInv
<1>5. InstancesOK'
  BY NamesAssumption DEF IInv, InstancesOK, Slots, LookupAdmit, Republish, Hold, Registered,
     Purged, Purgeable
<1>6. LoadersOK'
  BY DEF IInv, LoadersOK, LookupAdmit, Republish, Hold, MayAsk
<1>7. CapturesOK'
  BY DEF IInv, CapturesOK, Captured, LookupAdmit, Republish, Hold, preloadVars
<1>8. SharedUnlessDiscarded'
  BY NamesAssumption DEF IInv, TypeOK, SharedUnlessDiscarded, ActiveInstanceStaysShared,
     Registered, Instances, LookupAdmit, Republish, Hold, MayAsk, Purged, Purgeable,
     PlacesOK
<1>9. PinsOK'
  BY DEF IInv, PinsOK, LookupAdmit, registryVars, preloadVars, monitorVars, threadVars, vars, Captured, PinsAccounted
<1> QED
  BY <1>1, <1>2, <1>3, <1>4, <1>5, <1>6, <1>7, <1>8, <1>9 DEF IInv

\* A miss on a full cache replaces an idle entry.
LEMMA LookupEvictInv ==
  ASSUME IInv,
         NEW t \in Workers,
         NEW k \in Keys,
         LookupEvict(t, k)
  PROVE  IInv'
<1>1. TypeOK'
  BY DEF IInv, TypeOK, Slots, LookupEvict, Republish, Hold, Registered, Least, FreeSlots,
     Victims, Oldest, preloadVars, monitorVars
<1>2. PlacesOK'
  BY DEF IInv, TypeOK, PlacesOK, LookupEvict, Republish, Hold, MayAsk, Least, FreeSlots,
     SlotShared, Victims, Oldest, Evictable
<1>3. StagesOK'
  BY DEF IInv, StagesOK, LookupEvict, Republish, Hold, MayAsk, preloadVars
<1>4. SlotsOK'
  <2>1. PICK v \in Victims, s \in FreeSlots(k) :
          /\ Republish(Purged \cup {v}, k, s)
          /\ Hold(t, k, s, "dropping")
          /\ evicted' = [evicted EXCEPT ![t] = slotOf[v]]
    BY DEF LookupEvict, Least
  <2>2. /\ Purged \cup {v} \subseteq Registered
        /\ \A j \in Purged \cup {v} : ~SlotShared(slotOf[j])
    BY DEF Victims, Oldest, Evictable, Purged, Purgeable
  <2>3. /\ k \notin Registered
        /\ UNCHANGED <<captured, handles>>
    BY DEF LookupEvict, preloadVars
  <2>4. /\ \A j \in Registered' : slotOf'[j][1] = j
        /\ \A u \in Workers : slot'[u] # NoSlot => slotOf'[key'[u]] = slot'[u]
        /\ \A c \in Captured' : slotOf'[c.slot[1]] = c.slot
    <3> HIDE DEF Victims
    <3> QED
      BY <2>1, <2>2, <2>3, RepublishKeepsSlots DEF Hold
  <2>5. /\ slotOf[v] \in Slots /\ slotOf[v][1] = v /\ v # k /\ v \in Keys
        /\ \A u \in Workers : evicted[u] # slotOf[v]
    BY <2>2, <2>3, NamesAssumption DEF IInv, TypeOK, SlotsOK, Registered, Slots
  <2>6. ASSUME NEW u \in Workers, evicted'[u] # NoSlot
        PROVE  slotOf'[evicted'[u][1]] # evicted'[u]
    <3>1. CASE u = t
      BY <2>1, <2>2, <2>5, <3>1, NamesAssumption DEF IInv, TypeOK, Republish, Slots
    <3>2. CASE u # t
      BY <2>1, <2>6, <3>2, NamesAssumption DEF IInv, TypeOK, SlotsOK, FreeSlots, Republish, Slots
    <3> QED
      BY <3>1, <3>2
  <2>7. \A u, w \in Workers : evicted'[u] # NoSlot /\ evicted'[u] = evicted'[w] => u = w
    BY <2>1, <2>5 DEF IInv, TypeOK, SlotsOK
  <2> QED
    BY <2>4, <2>6, <2>7 DEF SlotsOK
<1>5. InstancesOK'
  BY NamesAssumption DEF IInv, TypeOK, InstancesOK, Slots, LookupEvict, Republish, Hold,
     MayAsk, Registered, Purged, Purgeable, PlacesOK
<1>6. LoadersOK'
  BY DEF IInv, LoadersOK, LookupEvict, Republish, Hold, MayAsk
<1>7. CapturesOK'
  BY DEF IInv, CapturesOK, Captured, LookupEvict, Republish, Hold, preloadVars
<1>8. SharedUnlessDiscarded'
  BY NamesAssumption DEF IInv, TypeOK, SharedUnlessDiscarded, ActiveInstanceStaysShared,
     Registered, Instances, LookupEvict, Republish, Hold, MayAsk, Purged, Purgeable,
     Victims, Oldest, Evictable, ValueShared, PlacesOK
<1>9. PinsOK'
  BY DEF IInv, PinsOK, LookupEvict, registryVars, preloadVars, monitorVars, threadVars, vars, Captured, PinsAccounted
<1> QED
  BY <1>1, <1>2, <1>3, <1>4, <1>5, <1>6, <1>7, <1>8, <1>9 DEF IInv

\* A refused miss only purges.
LEMMA LookupRefuseInv ==
  ASSUME IInv,
         NEW t \in Workers,
         NEW k \in Keys,
         LookupRefuse(t, k)
  PROVE  IInv'
<1>1. TypeOK'
  BY DEF IInv, TypeOK, LookupRefuse, Unregister, preloadVars, monitorVars
<1>2. PlacesOK'
  BY DEF IInv, PlacesOK, LookupRefuse, Unregister, MayAsk
<1>3. StagesOK'
  BY DEF IInv, StagesOK, LookupRefuse, Unregister, MayAsk, preloadVars
<1>4. SlotsOK'
  <2>1. \A j \in Purged : ~SlotShared(slotOf[j])
    BY DEF Purged, Purgeable
  <2>2. /\ Unregister(Purged)
        /\ UNCHANGED <<slot, key, evicted, captured, handles>>
    BY DEF LookupRefuse, preloadVars
  <2>3. /\ \A j \in Registered' : slotOf'[j][1] = j
        /\ \A u \in Workers : slot[u] # NoSlot => slotOf'[key[u]] = slot[u]
        /\ \A c \in Captured' : slotOf'[c.slot[1]] = c.slot
        /\ \A u \in Workers : evicted[u] # NoSlot => slotOf'[evicted[u][1]] # evicted[u]
    BY <2>1, <2>2, UnregisterKeepsSlots, Purged \subseteq Registered DEF Purged
  <2> QED
    BY <2>2, <2>3 DEF SlotsOK, IInv
<1>5. InstancesOK'
  BY DEF IInv, InstancesOK, Slots, LookupRefuse, Unregister, Purged, Purgeable
<1>6. LoadersOK'
  BY DEF IInv, LoadersOK, LookupRefuse, Unregister
<1>7. CapturesOK'
  BY DEF IInv, CapturesOK, Captured, LookupRefuse, Unregister, preloadVars
<1>8. SharedUnlessDiscarded'
  BY NamesAssumption DEF IInv, TypeOK, SharedUnlessDiscarded, ActiveInstanceStaysShared,
     Registered, Instances, LookupRefuse, Unregister, Purged, Purgeable
<1>9. PinsOK'
  BY DEF IInv, PinsOK, LookupRefuse, registryVars, preloadVars, monitorVars, threadVars, vars, Captured, PinsAccounted
<1> QED
  BY <1>1, <1>2, <1>3, <1>4, <1>5, <1>6, <1>7, <1>8, <1>9 DEF IInv

\* The refusal reaches the caller.
LEMMA ReturnRefusalInv ==
  ASSUME IInv,
         NEW t \in Workers,
         ReturnRefusal(t)
  PROVE  IInv'
<1>1. TypeOK'
  BY DEF IInv, TypeOK, ReturnRefusal, registryVars, preloadVars, monitorVars
<1>2. PlacesOK'
  BY DEF IInv, PlacesOK, ReturnRefusal
<1>3. StagesOK'
  BY DEF IInv, StagesOK, ReturnRefusal, preloadVars, monitorVars
<1>4. LoadersOK'
  BY DEF IInv, LoadersOK, ReturnRefusal
<1>5. CapturesOK'
  BY DEF IInv, CapturesOK, Captured, ReturnRefusal, preloadVars
<1>6. SlotsOK' /\ InstancesOK' /\ PinsOK' /\ SharedUnlessDiscarded'
  BY DEF IInv, SlotsOK, InstancesOK, PinsOK, SharedUnlessDiscarded, ReturnRefusal, registryVars, preloadVars, monitorVars, threadVars, vars, Captured, Registered, PinsAccounted, ActiveInstanceStaysShared
<1> QED
  BY <1>1, <1>2, <1>3, <1>4, <1>5, <1>6 DEF IInv

\* Dropping an evicted entry takes its instance along.
LEMMA DropEvictedInv ==
  ASSUME IInv,
         NEW t \in Workers,
         DropEvicted(t)
  PROVE  IInv'
<1>1. TypeOK'
  BY DEF IInv, TypeOK, DropEvicted, RunningAmong, registryVars, preloadVars, monitorVars,
     PlacesOK
<1>2. PlacesOK'
  BY DEF IInv, TypeOK, PlacesOK, DropEvicted
<1>3. StagesOK'
  BY DEF IInv, StagesOK, DropEvicted, preloadVars, monitorVars
<1>4. SlotsOK'
  BY DEF IInv, SlotsOK, Captured, Registered, DropEvicted, registryVars, preloadVars
<1>5. InstancesOK'
  BY DEF IInv, TypeOK, InstancesOK, DropEvicted, registryVars
<1>6. LoadersOK'
  BY DEF IInv, LoadersOK, DropEvicted
<1>7. CapturesOK'
  BY DEF IInv, CapturesOK, Captured, DropEvicted, RunningAmong, preloadVars, PlacesOK,
     SlotsOK
<1>8. SharedUnlessDiscarded'
  BY DEF IInv, SharedUnlessDiscarded, ActiveInstanceStaysShared, Registered, DropEvicted,
     RunningAmong, registryVars, PlacesOK, SlotsOK
<1>9. PinsOK'
  BY DEF IInv, PinsOK, DropEvicted, registryVars, preloadVars, monitorVars, threadVars, vars, Captured, PinsAccounted
<1> QED
  BY <1>1, <1>2, <1>3, <1>4, <1>5, <1>6, <1>7, <1>8, <1>9 DEF IInv

\* A poisoned slot gives the caller an error.
LEMMA AcquirePoisonedInv ==
  ASSUME IInv,
         NEW t \in Workers,
         AcquirePoisoned(t)
  PROVE  IInv'
<1>1. TypeOK'
  BY DEF IInv, TypeOK, AcquirePoisoned, Return, registryVars, preloadVars, monitorVars
<1>2. PlacesOK'
  BY DEF IInv, TypeOK, PlacesOK, AcquirePoisoned, Return
<1>3. StagesOK'
  BY DEF IInv, StagesOK, AcquirePoisoned, Return, preloadVars, monitorVars
<1>4. SlotsOK'
  BY DEF IInv, TypeOK, SlotsOK, Captured, Registered, AcquirePoisoned, Return, registryVars,
     preloadVars
<1>5. LoadersOK'
  BY DEF IInv, LoadersOK, AcquirePoisoned, Return
<1>6. CapturesOK'
  BY DEF IInv, CapturesOK, Captured, AcquirePoisoned, Return, preloadVars
<1>7. SharedUnlessDiscarded'
  BY NamesAssumption DEF IInv, TypeOK, SharedUnlessDiscarded, ActiveInstanceStaysShared,
     Registered, Instances, AcquirePoisoned, Return, registryVars
<1>8. InstancesOK' /\ PinsOK'
  BY DEF IInv, InstancesOK, PinsOK, AcquirePoisoned, registryVars, preloadVars, monitorVars, threadVars, vars, Captured, PinsAccounted
<1> QED
  BY <1>1, <1>2, <1>3, <1>4, <1>5, <1>6, <1>7, <1>8 DEF IInv

\* A working instance is captured, if this is a preload, and returned.
LEMMA AcquireValidInv ==
  ASSUME IInv,
         NEW t \in Workers,
         AcquireValid(t)
  PROVE  IInv'
<1>1. TypeOK'
  <2>1. slot[t] \in Slots /\ val[slot[t]] \in Instances /\ UNCHANGED handles
    BY NamesAssumption DEF AcquireValid, IInv, TypeOK, PlacesOK
  <2>2. captured' \subseteq Capture /\ pins' \in [Slots -> Nat]
    BY <2>1, CaptureCounted DEF AcquireValid
  <2> QED
    BY <2>1, <2>2 DEF AcquireValid, Return, IInv, TypeOK, registryVars, preloadVars, monitorVars
<1>2. PlacesOK'
  <2>1. /\ slot[t] \in Slots /\ key[t] \in Keys /\ slotOf[key[t]] = slot[t]
        /\ val[slot[t]] \in Instances
    BY NamesAssumption DEF AcquireValid, IInv, TypeOK, PlacesOK, SlotsOK
  <2>2. slot[t][1] = key[t]
    BY <2>1, NamesAssumption DEF IInv, SlotsOK, Registered, Slots
  <2>3. val[slot[t]] # NoInst /\ val[slot[t]][1] = key[t]
    BY <2>1, <2>2, NamesAssumption DEF IInv, InstancesOK, Instances
  <2> QED
    BY <2>1, <2>3 DEF AcquireValid, Return, IInv, TypeOK, PlacesOK
<1>3. StagesOK'
  BY DEF IInv, StagesOK, AcquireValid, Return, CaptureSlot, Captures, monitorVars
<1>4. SlotsOK'
  BY DEF IInv, TypeOK, SlotsOK, Captured, Registered, AcquireValid, Return, CaptureSlot,
     Captures, registryVars, PlacesOK
<1>5. LoadersOK'
  BY DEF IInv, LoadersOK, AcquireValid, Return, CaptureSlot, Captures
<1>6. CapturesOK'
  <2>1. /\ slot[t] \in Slots /\ val[slot[t]] \in Instances
        /\ UNCHANGED <<handles, scoped, tx, running, val>>
        /\ pc'[Boot] = "rollback" => pc[Boot] = "rollback"
    BY NamesAssumption DEF AcquireValid, Return, IInv, TypeOK, PlacesOK
  <2>2. \/ captured' = captured
        \/ /\ scoped /\ \A d \in captured : d.slot # slot[t]
           /\ captured' = captured \cup
                {[tx |-> tx, slot |-> slot[t], inst |-> val[slot[t]], fresh |-> FALSE]}
    BY <2>1, CaptureCounted DEF AcquireValid
  <2>3. \A d \in Captured' : d.inst \in running' => val'[d.slot] = d.inst
    BY <2>1, <2>2 DEF IInv, CapturesOK, Captured
  <2>4. \A d \in captured', h \in handles' : d.fresh => h.inst # d.inst
    BY <2>1, <2>2 DEF IInv, CapturesOK
  <2>5. \A d, e \in captured' : d.tx = tx' /\ (d.slot = e.slot => d = e)
    <3> DEFINE new == [tx |-> tx, slot |-> slot[t], inst |-> val[slot[t]], fresh |-> FALSE]
    <3>1. \A d, e \in captured : d.tx = tx /\ (d.slot = e.slot => d = e)
      BY DEF IInv, CapturesOK
    <3>2. new.tx = tx /\ new.slot = slot[t]
      OBVIOUS
    <3>3. \/ captured' = captured
          \/ captured' = captured \cup {new} /\ \A d \in captured : d.slot # slot[t]
      BY <2>2
    <3> HIDE DEF new
    <3> QED
      BY <2>1, <3>1, <3>2, <3>3
  <2>6. \A h \in handles' : h.tx <= tx' /\ (scoped' \/ pc'[Boot] = "rollback" => h.tx < tx')
    BY <2>1 DEF IInv, CapturesOK
  <2> QED
    BY <2>3, <2>4, <2>5, <2>6 DEF CapturesOK
<1>7. PinsOK'
  <2>1. slot[t] \in Slots /\ val[slot[t]] \in Instances /\ UNCHANGED handles
    BY NamesAssumption DEF AcquireValid, IInv, TypeOK, PlacesOK
  <2> QED
    BY <2>1, CaptureCounted DEF AcquireValid
<1>8. SharedUnlessDiscarded'
  BY NamesAssumption DEF IInv, TypeOK, SharedUnlessDiscarded, ActiveInstanceStaysShared,
     Registered, Instances, AcquireValid, Return, CaptureSlot, Captures, registryVars,
     PlacesOK, SlotsOK
<1>9. InstancesOK'
  BY DEF IInv, InstancesOK, AcquireValid, registryVars, preloadVars, monitorVars, threadVars, vars
<1> QED
  BY <1>1, <1>2, <1>3, <1>4, <1>5, <1>6, <1>7, <1>8, <1>9 DEF IInv

\* A dead instance is released before the loader starts.
LEMMA AcquireLoadInv ==
  ASSUME IInv,
         NEW t \in Workers,
         AcquireLoad(t)
  PROVE  IInv'
<1>1. TypeOK'
  BY DEF IInv, TypeOK, AcquireLoad, registryVars, preloadVars, monitorVars, PlacesOK
<1>2. PlacesOK'
  BY DEF IInv, PlacesOK, AcquireLoad
<1>3. StagesOK'
  BY DEF IInv, StagesOK, AcquireLoad, preloadVars, monitorVars
<1>4. InstancesOK'
  BY DEF IInv, InstancesOK, AcquireLoad, registryVars
<1>5. LoadersOK'
  BY DEF IInv, TypeOK, LoadersOK, AcquireLoad, LockFree, PlacesOK
<1>6. CapturesOK'
  BY DEF IInv, CapturesOK, Captured, AcquireLoad, preloadVars
<1>7. SharedUnlessDiscarded'
  BY DEF IInv, SharedUnlessDiscarded, ActiveInstanceStaysShared, Registered, AcquireLoad,
     registryVars
<1>8. SlotsOK' /\ PinsOK'
  BY DEF IInv, SlotsOK, PinsOK, AcquireLoad, registryVars, preloadVars, monitorVars, threadVars, vars, Captured, Registered, PinsAccounted
<1> QED
  BY <1>1, <1>2, <1>3, <1>4, <1>5, <1>6, <1>7, <1>8 DEF IInv

\* A loaded instance is new: no slot and no capture refers to it.
LEMMA LoadSucceedsInv ==
  ASSUME IInv,
         NEW t \in Workers,
         LoadSucceeds(t)
  PROVE  IInv'
<1>1. TypeOK'
  <2>1. PICK i \in FreeInstances(key[t]) :
          /\ val' = [val EXCEPT ![slot[t]] = i]
          /\ CaptureSlot(t, i, TRUE)
          /\ Return(t, "using", i)
          /\ running' = running \cup {i}
    BY DEF LoadSucceeds, Least
  <2>2. /\ slot[t] \in Slots /\ key[t] \in Keys /\ slotOf[key[t]] = slot[t]
        /\ i \in Instances /\ i[1] = key[t] /\ i # NoInst
        /\ \A s \in Slots : val[s] # i
    BY NamesAssumption DEF LoadSucceeds, IInv, TypeOK, PlacesOK, SlotsOK, FreeInstances,
                           Referenced, Instances
  <2>3. captured' \subseteq Capture /\ pins' \in [Slots -> Nat]
    BY <2>1, <2>2, CaptureCounted DEF LoadSucceeds
  <2> QED
    BY <2>1, <2>2, <2>3 DEF LoadSucceeds, Return, IInv, TypeOK, registryVars, preloadVars, monitorVars
<1>2. PlacesOK'
  BY DEF IInv, TypeOK, PlacesOK, LoadSucceeds, Return, CaptureSlot, Captures, Least,
     FreeInstances, Referenced, ValueShared
<1>3. StagesOK'
  BY DEF IInv, StagesOK, LoadSucceeds, Return, CaptureSlot, Captures, monitorVars
<1>4. SlotsOK'
  BY DEF IInv, SlotsOK, Captured, Registered, LoadSucceeds, Return, CaptureSlot, Captures,
     Least, FreeInstances, Referenced, ValueShared, registryVars, PlacesOK
<1>5. InstancesOK'
  <2>1. PICK i \in FreeInstances(key[t]) :
          /\ val' = [val EXCEPT ![slot[t]] = i]
          /\ CaptureSlot(t, i, TRUE)
          /\ Return(t, "using", i)
          /\ running' = running \cup {i}
    BY DEF LoadSucceeds, Least
  <2>2. /\ slot[t] \in Slots /\ key[t] \in Keys /\ slotOf[key[t]] = slot[t]
        /\ i \in Instances /\ i[1] = key[t] /\ i # NoInst
        /\ \A s \in Slots : val[s] # i
    BY NamesAssumption DEF LoadSucceeds, IInv, TypeOK, PlacesOK, SlotsOK, FreeInstances,
                           Referenced, Instances
  <2>3. slot[t][1] = key[t]
    BY <2>2, NamesAssumption DEF IInv, SlotsOK, Registered, Slots
  <2>4. slotOf' = slotOf /\ evicted' = evicted
    BY DEF LoadSucceeds, registryVars
  <2> QED
    BY <2>1, <2>2, <2>3, <2>4 DEF IInv, TypeOK, InstancesOK
<1>6. LoadersOK'
  BY DEF IInv, TypeOK, LoadersOK, LoadSucceeds, Return, CaptureSlot, Captures
<1>7. CapturesOK'
  <2>1. PICK i \in FreeInstances(key[t]) :
          /\ val' = [val EXCEPT ![slot[t]] = i]
          /\ CaptureSlot(t, i, TRUE)
          /\ Return(t, "using", i)
          /\ running' = running \cup {i}
    BY DEF LoadSucceeds, Least
  <2>2. /\ slot[t] \in Slots /\ key[t] \in Keys /\ slotOf[key[t]] = slot[t]
        /\ i \in Instances /\ i[1] = key[t] /\ i # NoInst
        /\ \A s \in Slots : val[s] # i
    BY NamesAssumption DEF LoadSucceeds, IInv, TypeOK, PlacesOK, SlotsOK, FreeInstances,
                           Referenced, Instances
  <2>3. \/ captured' = captured
        \/ /\ scoped /\ \A d \in captured : d.slot # slot[t]
           /\ captured' = captured \cup
                {[tx |-> tx, slot |-> slot[t], inst |-> i, fresh |-> TRUE]}
    BY <2>1, <2>2, CaptureCounted DEF LoadSucceeds
  <2>4. /\ UNCHANGED <<handles, scoped, tx>>
        /\ pc'[Boot] = "rollback" => pc[Boot] = "rollback"
        /\ val[slot[t]] = NoInst
    BY <2>1 DEF LoadSucceeds, Return, IInv, TypeOK, LoadersOK
  <2>5. \A d \in Captured : d.inst # i
    BY <2>1 DEF FreeInstances, Captured
  <2>6. \A d \in Captured : d.inst \in running' =>
          d.slot \in Slots /\ d.slot # slot[t] /\ val[d.slot] = d.inst
    BY <2>1, <2>4, <2>5, NamesAssumption
    DEF IInv, TypeOK, CapturesOK, Captured, Capture, Instances
  <2>7. \A d \in Captured' : d.inst \in running' => val'[d.slot] = d.inst
    BY <2>1, <2>2, <2>3, <2>4, <2>6 DEF Captured, IInv, TypeOK
  <2>8. \A d \in captured', h \in handles' : d.fresh => h.inst # d.inst
    BY <2>3, <2>4, <2>5 DEF IInv, CapturesOK, Captured
  <2>9. \A d, e \in captured' : d.tx = tx' /\ (d.slot = e.slot => d = e)
    <3> DEFINE new == [tx |-> tx, slot |-> slot[t], inst |-> i, fresh |-> TRUE]
    <3>1. \A d, e \in captured : d.tx = tx /\ (d.slot = e.slot => d = e)
      BY DEF IInv, CapturesOK
    <3>2. new.tx = tx /\ new.slot = slot[t]
      OBVIOUS
    <3>3. \/ captured' = captured
          \/ captured' = captured \cup {new} /\ \A d \in captured : d.slot # slot[t]
      BY <2>3
    <3> HIDE DEF new
    <3> QED
      BY <2>4, <3>1, <3>2, <3>3
  <2>10. \A h \in handles' : h.tx <= tx' /\ (scoped' \/ pc'[Boot] = "rollback" => h.tx < tx')
    BY <2>4 DEF IInv, CapturesOK
  <2> QED
    BY <2>7, <2>8, <2>9, <2>10 DEF CapturesOK
<1>8. PinsOK'
  <2>1. PICK i \in FreeInstances(key[t]) :
          /\ val' = [val EXCEPT ![slot[t]] = i]
          /\ CaptureSlot(t, i, TRUE)
          /\ Return(t, "using", i)
          /\ running' = running \cup {i}
    BY DEF LoadSucceeds, Least
  <2>2. /\ slot[t] \in Slots /\ key[t] \in Keys /\ slotOf[key[t]] = slot[t]
        /\ i \in Instances /\ i[1] = key[t] /\ i # NoInst
        /\ \A s \in Slots : val[s] # i
    BY NamesAssumption DEF LoadSucceeds, IInv, TypeOK, PlacesOK, SlotsOK, FreeInstances,
                           Referenced, Instances
  <2> QED
    BY <2>1, <2>2, CaptureCounted DEF LoadSucceeds
<1>9. SharedUnlessDiscarded'
  BY NamesAssumption DEF IInv, TypeOK, PlacesOK, StagesOK, SlotsOK, InstancesOK, LoadersOK,
     CapturesOK, SharedUnlessDiscarded, ActiveInstanceStaysShared, Registered, Instances,
     LoadSucceeds, Return, CaptureSlot, Captures, Least, FreeInstances, registryVars
<1> QED
  BY <1>1, <1>2, <1>3, <1>4, <1>5, <1>6, <1>7, <1>8, <1>9 DEF IInv

\* A failed load leaves the slot empty.
LEMMA LoadFailsInv ==
  ASSUME IInv,
         NEW t \in Workers,
         LoadFails(t)
  PROVE  IInv'
<1>1. TypeOK'
  BY DEF IInv, TypeOK, LoadFails, Return, registryVars, preloadVars, monitorVars
<1>2. PlacesOK'
  BY DEF IInv, TypeOK, PlacesOK, LoadFails, Return
<1>3. StagesOK'
  BY DEF IInv, StagesOK, LoadFails, Return, preloadVars, monitorVars
<1>4. SlotsOK'
  BY DEF IInv, TypeOK, SlotsOK, Captured, Registered, LoadFails, Return, registryVars,
     preloadVars
<1>5. LoadersOK'
  BY DEF IInv, TypeOK, LoadersOK, LoadFails, Return
<1>6. CapturesOK'
  BY DEF IInv, CapturesOK, Captured, LoadFails, Return, preloadVars
<1>7. SharedUnlessDiscarded'
  BY NamesAssumption DEF IInv, TypeOK, SharedUnlessDiscarded, ActiveInstanceStaysShared,
     Registered, Instances, LoadFails, Return, registryVars
<1>8. InstancesOK' /\ PinsOK'
  BY DEF IInv, InstancesOK, PinsOK, LoadFails, registryVars, preloadVars, monitorVars, threadVars, vars, Captured, PinsAccounted
<1> QED
  BY <1>1, <1>2, <1>3, <1>4, <1>5, <1>6, <1>7, <1>8 DEF IInv

\* A panicking load poisons its slot, and ends the transaction if it is a preload.
LEMMA LoadPanicsInv ==
  ASSUME IInv,
         NEW t \in Workers,
         LoadPanics(t)
  PROVE  IInv'
<1>1. TypeOK'
  BY DEF IInv, TypeOK, LoadPanics, Return, registryVars, monitorVars, PlacesOK
<1>2. PlacesOK'
  BY DEF IInv, TypeOK, PlacesOK, LoadPanics, Return
<1>3. StagesOK'
  BY PolicyAssumption, NamesAssumption DEF IInv, TypeOK, PlacesOK, StagesOK, SlotsOK,
     InstancesOK, LoadersOK, CapturesOK, Workers, Slots, Instances, LoadPanics, Return,
     vars, registryVars, preloadVars, monitorVars, threadVars
<1>4. SlotsOK'
  BY DEF IInv, TypeOK, SlotsOK, Captured, Registered, LoadPanics, Return, registryVars
<1>5. LoadersOK'
  BY DEF IInv, TypeOK, LoadersOK, LoadPanics, Return
<1>6. CapturesOK'
  BY DEF IInv, TypeOK, CapturesOK, Captured, LoadPanics, Return, StagesOK
<1>7. SharedUnlessDiscarded'
  BY NamesAssumption DEF IInv, TypeOK, SharedUnlessDiscarded, ActiveInstanceStaysShared,
     Registered, Instances, LoadPanics, Return, registryVars
<1>8. InstancesOK' /\ PinsOK'
  BY DEF IInv, InstancesOK, PinsOK, LoadPanics, registryVars, preloadVars, monitorVars, threadVars, vars, Captured, PinsAccounted
<1> QED
  BY <1>1, <1>2, <1>3, <1>4, <1>5, <1>6, <1>7, <1>8 DEF IInv

\* A request that is done drops its instance.
LEMMA FinishInv ==
  ASSUME IInv,
         NEW t \in Workers,
         Finish(t)
  PROVE  IInv'
<1>1. TypeOK'
  BY DEF IInv, TypeOK, Finish, Return, RunningAmong, registryVars, preloadVars, monitorVars
<1>2. PlacesOK'
  BY DEF IInv, TypeOK, PlacesOK, Finish, Return
<1>3. StagesOK'
  BY DEF IInv, StagesOK, Finish, Return, preloadVars, monitorVars
<1>4. SlotsOK'
  BY DEF IInv, TypeOK, SlotsOK, Captured, Registered, Finish, Return, registryVars,
     preloadVars
<1>5. LoadersOK'
  BY DEF IInv, LoadersOK, Finish, Return
<1>6. CapturesOK'
  BY DEF IInv, CapturesOK, Captured, Finish, Return, RunningAmong, preloadVars
<1>7. SharedUnlessDiscarded'
  BY NamesAssumption DEF IInv, TypeOK, SharedUnlessDiscarded, ActiveInstanceStaysShared,
     Registered, Instances, Finish, Return, RunningAmong, registryVars
<1>8. InstancesOK' /\ PinsOK'
  BY DEF IInv, InstancesOK, PinsOK, Finish, registryVars, preloadVars, monitorVars, threadVars, vars, Captured, PinsAccounted
<1> QED
  BY <1>1, <1>2, <1>3, <1>4, <1>5, <1>6, <1>7, <1>8 DEF IInv

\* A failed request drops its instance before it discards entries.
LEMMA FailInv ==
  ASSUME IInv,
         NEW t \in Workers,
         Fail(t)
  PROVE  IInv'
<1>1. TypeOK'
  BY DEF IInv, TypeOK, Fail, RunningAmong, registryVars, preloadVars, monitorVars
<1>2. PlacesOK'
  BY DEF IInv, TypeOK, PlacesOK, Fail
<1>3. StagesOK'
  BY DEF IInv, StagesOK, Fail, preloadVars, monitorVars
<1>4. LoadersOK'
  BY DEF IInv, LoadersOK, Fail
<1>5. CapturesOK'
  BY DEF IInv, CapturesOK, Captured, Fail, RunningAmong, preloadVars
<1>6. SharedUnlessDiscarded'
  BY DEF IInv, SharedUnlessDiscarded, ActiveInstanceStaysShared, Fail
<1>7. SlotsOK' /\ InstancesOK' /\ PinsOK'
  BY DEF IInv, SlotsOK, InstancesOK, PinsOK, Fail, registryVars, preloadVars, monitorVars, threadVars, vars, Captured, Registered, PinsAccounted
<1> QED
  BY <1>1, <1>2, <1>3, <1>4, <1>5, <1>6, <1>7 DEF IInv

\* remove_if after a failure.
LEMMA DiscardInv ==
  ASSUME IInv,
         NEW t \in Workers,
         Discard(t)
  PROVE  IInv'
<1>1. TypeOK'
  BY DEF IInv, TypeOK, Discard, Return, RunningAmong, RemoveIf, Unregister, preloadVars,
     monitorVars
<1>2. PlacesOK'
  BY DEF IInv, TypeOK, PlacesOK, Discard, Return, RemoveIf, Unregister
<1>3. StagesOK'
  BY DEF IInv, StagesOK, Discard, Return, RemoveIf, Unregister, preloadVars, monitorVars
<1>4. SlotsOK'
  <2>1. PICK R \in SUBSET Registered :
          /\ Unregister(R)
          /\ \A j \in R : ~SlotShared(slotOf[j]) /\ val[slotOf[j]] \in {i \in Instances : policy.discards = "all" \/ i[1] = key[t]}
          /\ val' = [s \in Slots |-> IF \E j \in R : slotOf[j] = s THEN NoInst ELSE val[s]]
    BY RemoveIfRemoves DEF Discard
  <2>2. UNCHANGED <<evicted, captured, handles>> /\ running' \subseteq running
    BY DEF Discard, RunningAmong, preloadVars, threadVars
  <2>3. /\ \A j \in Registered' : slotOf'[j][1] = j
        /\ \A u \in Workers : slot[u] # NoSlot => slotOf'[key[u]] = slot[u]
        /\ \A c \in Captured' : slotOf'[c.slot[1]] = c.slot
        /\ \A u \in Workers : evicted[u] # NoSlot => slotOf'[evicted[u][1]] # evicted[u]
    BY <2>1, <2>2, UnregisterKeepsSlots
  <2>4. \A u \in Workers : slot'[u] # NoSlot => slot'[u] = slot[u] /\ key'[u] = key[u]
    BY DEF Discard, Return, IInv, TypeOK
  <2> QED
    BY <2>2, <2>3, <2>4 DEF SlotsOK, IInv
<1>5. InstancesOK'
  <2>1. PICK R \in SUBSET Registered :
          /\ Unregister(R)
          /\ \A j \in R : ~SlotShared(slotOf[j]) /\ val[slotOf[j]] \in {i \in Instances : policy.discards = "all" \/ i[1] = key[t]}
          /\ val' = [s \in Slots |-> IF \E j \in R : slotOf[j] = s THEN NoInst ELSE val[s]]
    BY RemoveIfRemoves DEF Discard
  <2>2. UNCHANGED <<evicted, captured, handles>> /\ running' \subseteq running
    BY DEF Discard, RunningAmong, preloadVars, threadVars
  <2> QED
    BY <2>1, <2>2, RemovalKeepsInstances
<1>6. LoadersOK'
  BY DEF IInv, TypeOK, LoadersOK, Discard, Return, RemoveIf, Unregister, PlacesOK
<1>7. CapturesOK'
  <2>1. PICK R \in SUBSET Registered :
          /\ Unregister(R)
          /\ \A j \in R : ~SlotShared(slotOf[j]) /\ val[slotOf[j]] \in {i \in Instances : policy.discards = "all" \/ i[1] = key[t]}
          /\ val' = [s \in Slots |-> IF \E j \in R : slotOf[j] = s THEN NoInst ELSE val[s]]
    BY RemoveIfRemoves DEF Discard
  <2>2. UNCHANGED <<evicted, captured, handles>> /\ running' \subseteq running
    BY DEF Discard, RunningAmong, preloadVars, threadVars
  <2>3. \A c \in Captured' : c.inst \in running' => val'[c.slot] = c.inst
    BY <2>1, <2>2, RemovalKeepsInstances
  <2>4. UNCHANGED <<scoped, tx, captured, handles>> /\ (pc'[Boot] = "rollback" => pc[Boot] = "rollback")
    BY DEF Discard, Return, IInv, TypeOK, Workers, preloadVars
  <2> QED
    BY <2>3, <2>4 DEF CapturesOK, IInv
<1>8. SharedUnlessDiscarded'
  <2>1. policy.discards # "nothing" /\ policy' = policy
    BY DEF Discard, IInv, PlacesOK
  <2> QED
    BY <2>1 DEF SharedUnlessDiscarded
<1>9. PinsOK'
  BY DEF IInv, PinsOK, Discard, registryVars, preloadVars, monitorVars, threadVars, vars, Captured, PinsAccounted
<1> QED
  BY <1>1, <1>2, <1>3, <1>4, <1>5, <1>6, <1>7, <1>8, <1>9 DEF IInv

\* Telemetry clones the slots.
LEMMA SnapshotSlotsInv ==
  ASSUME IInv,
         NEW m \in Monitors,
         SnapshotSlots(m)
  PROVE  IInv'
<1>1. TypeOK'
  BY DEF IInv, TypeOK, SnapshotSlots, Registered, registryVars, preloadVars, threadVars
<1>2. StagesOK'
  BY DEF IInv, StagesOK, SnapshotSlots, preloadVars, threadVars
<1>3. PlacesOK' /\ SlotsOK' /\ InstancesOK' /\ LoadersOK' /\ CapturesOK' /\ PinsOK' /\ SharedUnlessDiscarded'
  BY DEF IInv, PlacesOK, SlotsOK, InstancesOK, LoadersOK, CapturesOK, PinsOK, SharedUnlessDiscarded, SnapshotSlots, registryVars, preloadVars, monitorVars, threadVars, vars, Captured, Registered, PinsAccounted, ActiveInstanceStaysShared
<1> QED
  BY <1>1, <1>2, <1>3 DEF IInv

\* Telemetry clones the values of unlocked slots.
LEMMA SnapshotValuesInv ==
  ASSUME IInv,
         NEW m \in Monitors,
         SnapshotValues(m)
  PROVE  IInv'
<1>1. TypeOK'
  BY DEF IInv, TypeOK, SnapshotValues, registryVars, preloadVars, threadVars
<1>2. StagesOK'
  BY DEF IInv, StagesOK, SnapshotValues, preloadVars, threadVars
<1>3. PlacesOK' /\ SlotsOK' /\ InstancesOK' /\ LoadersOK' /\ CapturesOK' /\ PinsOK' /\ SharedUnlessDiscarded'
  BY DEF IInv, PlacesOK, SlotsOK, InstancesOK, LoadersOK, CapturesOK, PinsOK, SharedUnlessDiscarded, SnapshotValues, registryVars, preloadVars, monitorVars, threadVars, vars, Captured, Registered, PinsAccounted, ActiveInstanceStaysShared
<1> QED
  BY <1>1, <1>2, <1>3 DEF IInv

\* Telemetry drops its clones.
LEMMA SnapshotDroppedInv ==
  ASSUME IInv,
         NEW m \in Monitors,
         SnapshotDropped(m)
  PROVE  IInv'
<1>1. TypeOK'
  BY DEF IInv, TypeOK, SnapshotDropped, RunningAmong, registryVars, preloadVars, threadVars
<1>2. StagesOK'
  BY DEF IInv, StagesOK, SnapshotDropped, preloadVars, threadVars
<1>3. CapturesOK'
  BY DEF IInv, CapturesOK, Captured, SnapshotDropped, RunningAmong, preloadVars, threadVars
<1>4. SharedUnlessDiscarded'
  BY DEF IInv, SharedUnlessDiscarded, ActiveInstanceStaysShared, Registered,
     SnapshotDropped, RunningAmong, registryVars, threadVars
<1>5. PlacesOK' /\ SlotsOK' /\ InstancesOK' /\ LoadersOK' /\ PinsOK'
  BY DEF IInv, PlacesOK, SlotsOK, InstancesOK, LoadersOK, PinsOK, SnapshotDropped, registryVars, preloadVars, monitorVars, threadVars, vars, Captured, Registered, PinsAccounted
<1> QED
  BY <1>1, <1>2, <1>3, <1>4, <1>5 DEF IInv

\* A worker process dies on its own.
LEMMA WorkerDiesInv ==
  ASSUME IInv,
         NEW i \in Instances,
         WorkerDies(i)
  PROVE  IInv'
<1>1. TypeOK'
  BY DEF IInv, TypeOK, WorkerDies, registryVars, preloadVars, monitorVars, threadVars
<1>2. CapturesOK'
  BY DEF IInv, CapturesOK, Captured, WorkerDies, preloadVars, threadVars
<1>3. SharedUnlessDiscarded'
  BY DEF IInv, SharedUnlessDiscarded, ActiveInstanceStaysShared, Registered, WorkerDies,
     registryVars, threadVars
<1>4. PlacesOK' /\ StagesOK' /\ SlotsOK' /\ InstancesOK' /\ LoadersOK' /\ PinsOK'
  BY DEF IInv, PlacesOK, StagesOK, SlotsOK, InstancesOK, LoadersOK, PinsOK, WorkerDies, registryVars, preloadVars, monitorVars, threadVars, vars, Captured, Registered, PinsAccounted
<1> QED
  BY <1>1, <1>2, <1>3, <1>4 DEF IInv

\* remove_if of dead workers.
LEMMA RemoveDeadInv ==
  ASSUME IInv,
         RemoveDead
  PROVE  IInv'
<1>1. TypeOK'
  BY DEF IInv, TypeOK, RemoveDead, RunningAmong, RemoveIf, Unregister, preloadVars,
     monitorVars, threadVars
<1>2. SlotsOK'
  <2>1. PICK R \in SUBSET Registered :
          /\ Unregister(R)
          /\ \A j \in R : ~SlotShared(slotOf[j]) /\ val[slotOf[j]] \in Instances \ running
          /\ val' = [s \in Slots |-> IF \E j \in R : slotOf[j] = s THEN NoInst ELSE val[s]]
    BY RemoveIfRemoves DEF RemoveDead
  <2>2. UNCHANGED <<evicted, captured, handles>> /\ running' \subseteq running
    BY DEF RemoveDead, RunningAmong, preloadVars, threadVars
  <2>3. /\ \A j \in Registered' : slotOf'[j][1] = j
        /\ \A u \in Workers : slot[u] # NoSlot => slotOf'[key[u]] = slot[u]
        /\ \A c \in Captured' : slotOf'[c.slot[1]] = c.slot
        /\ \A u \in Workers : evicted[u] # NoSlot => slotOf'[evicted[u][1]] # evicted[u]
    BY <2>1, <2>2, UnregisterKeepsSlots
  <2> QED
    BY <2>2, <2>3 DEF SlotsOK, IInv, RemoveDead, threadVars
<1>3. InstancesOK'
  <2>1. PICK R \in SUBSET Registered :
          /\ Unregister(R)
          /\ \A j \in R : ~SlotShared(slotOf[j]) /\ val[slotOf[j]] \in Instances \ running
          /\ val' = [s \in Slots |-> IF \E j \in R : slotOf[j] = s THEN NoInst ELSE val[s]]
    BY RemoveIfRemoves DEF RemoveDead
  <2>2. UNCHANGED <<evicted, captured, handles>> /\ running' \subseteq running
    BY DEF RemoveDead, RunningAmong, preloadVars, threadVars
  <2> QED
    BY <2>1, <2>2, RemovalKeepsInstances
<1>4. LoadersOK'
  BY DEF IInv, TypeOK, LoadersOK, RemoveDead, RemoveIf, Unregister, threadVars, PlacesOK
<1>5. CapturesOK'
  <2>1. PICK R \in SUBSET Registered :
          /\ Unregister(R)
          /\ \A j \in R : ~SlotShared(slotOf[j]) /\ val[slotOf[j]] \in Instances \ running
          /\ val' = [s \in Slots |-> IF \E j \in R : slotOf[j] = s THEN NoInst ELSE val[s]]
    BY RemoveIfRemoves DEF RemoveDead
  <2>2. UNCHANGED <<evicted, captured, handles>> /\ running' \subseteq running
    BY DEF RemoveDead, RunningAmong, preloadVars, threadVars
  <2>3. \A c \in Captured' : c.inst \in running' => val'[c.slot] = c.inst
    BY <2>1, <2>2, RemovalKeepsInstances
  <2>4. UNCHANGED <<scoped, tx, captured, handles, pc>>
    BY DEF RemoveDead, preloadVars, threadVars
  <2> QED
    BY <2>3, <2>4 DEF CapturesOK, IInv
<1>6. SharedUnlessDiscarded'
  <2>1. PICK R \in SUBSET Registered :
          /\ Unregister(R)
          /\ \A j \in R : ~SlotShared(slotOf[j]) /\ val[slotOf[j]] \in Instances \ running
          /\ val' = [s \in Slots |-> IF \E j \in R : slotOf[j] = s THEN NoInst ELSE val[s]]
    BY RemoveIfRemoves DEF RemoveDead
  <2>2. UNCHANGED <<evicted, captured, handles>> /\ running' \subseteq running
    BY DEF RemoveDead, RunningAmong, preloadVars, threadVars
  <2>3. ASSUME NEW u \in Workers, inst'[u] \in running', policy.discards = "nothing"
        PROVE  key'[u] \in Registered' /\ val'[slotOf'[key'[u]]] = inst'[u]
    <3>1. /\ inst'[u] = inst[u] /\ key'[u] = key[u] /\ inst[u] \in running
          /\ key[u] \in Registered /\ val[slotOf[key[u]]] = inst[u]
      BY <2>2, <2>3 DEF RemoveDead, threadVars, IInv, SharedUnlessDiscarded, ActiveInstanceStaysShared
    <3>2. key[u] \notin R
      BY <2>1, <3>1
    <3>3. slotOf[key[u]] \in Slots /\ \A j \in R : slotOf[j] # slotOf[key[u]]
      BY <3>1, <3>2, NamesAssumption DEF IInv, TypeOK, SlotsOK, Registered, Slots
    <3>4. slotOf'[key[u]] = slotOf[key[u]] /\ val'[slotOf[key[u]]] = val[slotOf[key[u]]]
      BY <2>1, <3>1, <3>2, <3>3 DEF Unregister, Registered
    <3> QED
      BY <3>1, <3>4 DEF Registered
  <2>4. policy' = policy
    BY DEF RemoveDead
  <2> QED
    BY <2>3, <2>4 DEF SharedUnlessDiscarded, ActiveInstanceStaysShared
<1>7. PlacesOK' /\ StagesOK' /\ PinsOK'
  BY DEF IInv, PlacesOK, StagesOK, PinsOK, RemoveDead, registryVars, preloadVars, monitorVars, threadVars, vars, Captured, PinsAccounted
<1> QED
  BY <1>1, <1>2, <1>3, <1>4, <1>5, <1>6, <1>7 DEF IInv

\* A new transaction has captured nothing yet.
LEMMA BeginPreloadInv ==
  ASSUME IInv,
         BeginPreload
  PROVE  IInv'
<1>1. TypeOK'
  BY NamesAssumption DEF IInv, TypeOK, BeginPreload, registryVars, monitorVars, threadVars
<1>2. StagesOK'
  BY NamesAssumption DEF IInv, TypeOK, StagesOK, BeginPreload, monitorVars, threadVars
<1>3. CapturesOK'
  <2>1. captured = {} /\ captured' = {} /\ handles' = handles /\ tx' = tx + 1
    BY DEF BeginPreload, IInv, StagesOK
  <2>2. \A h \in handles : h.tx \in Nat /\ h.tx <= tx /\ tx \in Nat
    BY DEF IInv, TypeOK, CapturesOK, Capture, Captured
  <2>3. UNCHANGED <<running, val>>
    BY DEF BeginPreload
  <2> QED
    BY <2>1, <2>2, <2>3 DEF IInv, CapturesOK, Captured
<1>4. PlacesOK' /\ SlotsOK' /\ InstancesOK' /\ LoadersOK' /\ PinsOK' /\ SharedUnlessDiscarded'
  BY DEF IInv, PlacesOK, SlotsOK, InstancesOK, LoadersOK, PinsOK, SharedUnlessDiscarded, BeginPreload, registryVars, preloadVars, monitorVars, threadVars, vars, Captured, Registered, PinsAccounted, ActiveInstanceStaysShared
<1> QED
  BY <1>1, <1>2, <1>3, <1>4 DEF IInv

\* A commit moves the captures to the handle.
LEMMA CommitPreloadInv ==
  ASSUME IInv,
         CommitPreload
  PROVE  IInv'
<1>1. TypeOK'
  BY PolicyAssumption, NamesAssumption DEF IInv, TypeOK, PlacesOK, StagesOK, SlotsOK,
     InstancesOK, LoadersOK, CapturesOK, Capture, Policy, Workers, Slots, Instances,
     CommitPreload, vars, registryVars, preloadVars, monitorVars, threadVars
<1>2. StagesOK'
  BY DEF IInv, StagesOK, CommitPreload, monitorVars, threadVars
<1>3. SlotsOK'
  BY DEF IInv, SlotsOK, Captured, Registered, CommitPreload, registryVars, threadVars
<1>4. CapturesOK'
  BY DEF IInv, TypeOK, CapturesOK, Captured, CommitPreload, threadVars
<1>5. PinsOK'
  <2>1. Captured' = Captured /\ pins' = pins
    BY DEF CommitPreload, Captured
  <2> QED
    BY <2>1 DEF IInv, PinsOK, PinsAccounted, Captured
<1>6. PlacesOK' /\ InstancesOK' /\ LoadersOK' /\ SharedUnlessDiscarded'
  BY DEF IInv, PlacesOK, InstancesOK, LoadersOK, SharedUnlessDiscarded, CommitPreload, registryVars, preloadVars, monitorVars, threadVars, vars, ActiveInstanceStaysShared, Registered
<1> QED
  BY <1>1, <1>2, <1>3, <1>4, <1>5, <1>6 DEF IInv

\* A failed preload starts to roll back.
LEMMA FailPreloadInv ==
  ASSUME IInv,
         FailPreload
  PROVE  IInv'
<1>1. TypeOK'
  BY PolicyAssumption, NamesAssumption DEF IInv, TypeOK, PlacesOK, StagesOK, SlotsOK,
     InstancesOK, LoadersOK, CapturesOK, Capture, Policy, Workers, Slots, Instances,
     FailPreload, vars, registryVars, preloadVars, monitorVars, threadVars
<1>2. PlacesOK'
  BY DEF IInv, PlacesOK, FailPreload
<1>3. StagesOK'
  BY NamesAssumption DEF IInv, TypeOK, StagesOK, Workers, FailPreload, monitorVars
<1>4. LoadersOK'
  BY DEF IInv, LoadersOK, FailPreload
<1>5. CapturesOK'
  BY DEF IInv, CapturesOK, Captured, FailPreload
<1>6. SlotsOK' /\ InstancesOK' /\ PinsOK' /\ SharedUnlessDiscarded'
  BY DEF IInv, SlotsOK, InstancesOK, PinsOK, SharedUnlessDiscarded, FailPreload, registryVars, preloadVars, monitorVars, threadVars, vars, Captured, Registered, PinsAccounted, ActiveInstanceStaysShared
<1> QED
  BY <1>1, <1>2, <1>3, <1>4, <1>5, <1>6 DEF IInv

\* A rollback releases its captures one by one.
LEMMA ReleaseCaptureInv ==
  ASSUME IInv,
         NEW c \in captured,
         ReleaseCapture(c)
  PROVE  IInv'
<1>1. TypeOK'
  <2>1. c \in Captured /\ c.slot \in Slots /\ c \notin handles
    BY DEF ReleaseCapture, IInv, TypeOK, Capture, Captured, CapturesOK
  <2>2. Captured' = Captured \ {c} /\ Unpin(c.slot)
    BY <2>1 DEF ReleaseCapture, Captured
  <2>3. PinsOK' /\ pins' \in [Slots -> Nat]
    BY <2>1, <2>2, PinReleased DEF IInv
  <2> QED
    BY <2>1, <2>3 DEF ReleaseCapture, RunningAmong, IInv, TypeOK, registryVars, threadVars, monitorVars
<1>2. StagesOK'
  BY DEF IInv, StagesOK, ReleaseCapture, Unpin, monitorVars, threadVars
<1>3. SlotsOK'
  BY DEF IInv, SlotsOK, Captured, Registered, ReleaseCapture, Unpin, registryVars,
     threadVars
<1>4. InstancesOK'
  BY DEF IInv, InstancesOK, ReleaseCapture, Unpin, registryVars, threadVars
<1>5. LoadersOK'
  BY DEF IInv, LoadersOK, ReleaseCapture, Unpin, threadVars
<1>6. CapturesOK'
  <2>1. /\ captured' = captured \ {c} /\ handles' = handles
        /\ UNCHANGED <<scoped, tx, pc>>
        /\ running' \subseteq running
        /\ val' = [val EXCEPT ![c.slot] = IF c.fresh /\ @ = c.inst THEN NoInst ELSE @]
    BY DEF ReleaseCapture, RunningAmong, threadVars
  <2>2. c.slot \in Slots /\ c.inst \in Instances
    BY DEF IInv, TypeOK, Capture
  <2>3. ASSUME NEW d \in Captured', d.inst \in running'
        PROVE  val'[d.slot] = d.inst
    <3>1. d \in Captured /\ val[d.slot] = d.inst /\ d.slot \in Slots
      BY <2>1, <2>3 DEF Captured, IInv, CapturesOK, TypeOK, Capture
    <3>2. CASE c.fresh /\ d.slot = c.slot /\ val[c.slot] = c.inst
      BY <2>1, <2>2, <2>3, <3>1, <3>2 DEF Captured, IInv, CapturesOK
    <3>3. CASE ~(c.fresh /\ d.slot = c.slot /\ val[c.slot] = c.inst)
      BY <2>1, <2>2, <3>1, <3>3 DEF IInv, TypeOK
    <3> QED
      BY <3>2, <3>3
  <2> QED
    BY <2>1, <2>3 DEF IInv, CapturesOK
<1>7. PinsOK'
  <2>1. c \in Captured /\ c.slot \in Slots /\ c \notin handles
    BY DEF ReleaseCapture, IInv, TypeOK, Capture, Captured, CapturesOK
  <2>2. Captured' = Captured \ {c} /\ Unpin(c.slot)
    BY <2>1 DEF ReleaseCapture, Captured
  <2>3. PinsOK' /\ pins' \in [Slots -> Nat]
    BY <2>1, <2>2, PinReleased DEF IInv
  <2> QED
    BY <2>3
<1>8. SharedUnlessDiscarded'
  BY DEF IInv, SharedUnlessDiscarded, ActiveInstanceStaysShared, Registered, Workers,
     ReleaseCapture, Unpin, RunningAmong, registryVars, threadVars, PlacesOK, StagesOK
<1>9. PlacesOK'
  BY DEF IInv, PlacesOK, ReleaseCapture, registryVars, preloadVars, monitorVars, threadVars, vars
<1> QED
  BY <1>1, <1>2, <1>3, <1>4, <1>5, <1>6, <1>7, <1>8, <1>9 DEF IInv

\* A startup that failed stops.
LEMMA StopStartupInv ==
  ASSUME IInv,
         StopStartup
  PROVE  IInv'
<1>1. TypeOK'
  BY DEF IInv, TypeOK, Workers, StopStartup, registryVars, preloadVars, monitorVars
<1>2. PlacesOK'
  BY DEF IInv, PlacesOK, StopStartup
<1>3. StagesOK'
  BY DEF IInv, TypeOK, StagesOK, Workers, StopStartup, preloadVars
<1>4. LoadersOK'
  BY DEF IInv, LoadersOK, StopStartup
<1>5. CapturesOK'
  BY DEF IInv, CapturesOK, Captured, StopStartup, preloadVars
<1>6. SlotsOK' /\ InstancesOK' /\ PinsOK' /\ SharedUnlessDiscarded'
  BY DEF IInv, SlotsOK, InstancesOK, PinsOK, SharedUnlessDiscarded, StopStartup, registryVars, preloadVars, monitorVars, threadVars, vars, Captured, Registered, PinsAccounted, ActiveInstanceStaysShared
<1> QED
  BY <1>1, <1>2, <1>3, <1>4, <1>5, <1>6 DEF IInv

\* The server starts after its preloads.
LEMMA StartServingInv ==
  ASSUME IInv,
         StartServing
  PROVE  IInv'
<1>1. TypeOK'
  BY DEF IInv, TypeOK, StartServing, registryVars, preloadVars, monitorVars, threadVars
<1>2. StagesOK'
  BY DEF IInv, StagesOK, StartServing, preloadVars, threadVars
<1>3. PlacesOK' /\ SlotsOK' /\ InstancesOK' /\ LoadersOK' /\ CapturesOK' /\ PinsOK' /\ SharedUnlessDiscarded'
  BY DEF IInv, PlacesOK, SlotsOK, InstancesOK, LoadersOK, CapturesOK, PinsOK, SharedUnlessDiscarded, StartServing, registryVars, preloadVars, monitorVars, threadVars, vars, Captured, Registered, PinsAccounted, ActiveInstanceStaysShared
<1> QED
  BY <1>1, <1>2, <1>3 DEF IInv

\* A handle gives its pins back.
LEMMA DropHandleInv ==
  ASSUME IInv,
         NEW c \in handles,
         DropHandle(c)
  PROVE  IInv'
<1>1. TypeOK'
  <2>1. c \in Captured /\ c.slot \in Slots /\ captured = {}
    BY DEF DropHandle, IInv, TypeOK, Capture, Captured, StagesOK
  <2>2. Captured' = Captured \ {c} /\ Unpin(c.slot)
    BY <2>1 DEF DropHandle, Captured
  <2>3. pins' \in [Slots -> Nat]
    BY <2>1, <2>2, PinReleased DEF IInv
  <2> QED
    BY <2>3 DEF DropHandle, IInv, TypeOK, registryVars, threadVars, monitorVars
<1>2. SlotsOK'
  BY DEF IInv, SlotsOK, Captured, Registered, DropHandle, Unpin, registryVars, threadVars
<1>3. CapturesOK'
  BY DEF IInv, CapturesOK, Captured, DropHandle, Unpin, threadVars
<1>4. PinsOK'
  <2>1. c \in Captured /\ c.slot \in Slots /\ captured = {}
    BY DEF DropHandle, IInv, TypeOK, Capture, Captured, StagesOK
  <2>2. Captured' = Captured \ {c} /\ Unpin(c.slot)
    BY <2>1 DEF DropHandle, Captured
  <2> QED
    BY <2>1, <2>2, PinReleased DEF IInv
<1>5. PlacesOK' /\ StagesOK' /\ InstancesOK' /\ LoadersOK' /\ SharedUnlessDiscarded'
  BY DEF IInv, PlacesOK, StagesOK, InstancesOK, LoadersOK, SharedUnlessDiscarded, DropHandle, registryVars, preloadVars, monitorVars, threadVars, vars, ActiveInstanceStaysShared, Registered
<1> QED
  BY <1>1, <1>2, <1>3, <1>4, <1>5 DEF IInv

\* The empty registry of a fresh process.
LEMMA InitInv == Init => IInv
<1> SUFFICES ASSUME Init
             PROVE  IInv
  OBVIOUS
<1> USE NamesAssumption DEF Init
<1>1. TypeOK
  <2>1. /\ slotOf \in [Keys -> Slots \cup {NoSlot}]
        /\ val \in [Slots -> Instances \cup {NoInst}]
        /\ pins \in [Slots -> Nat]
    OBVIOUS
  <2>2. /\ pc \in [Workers -> {"idle"}]
        /\ key \in [Workers -> Keys \cup {NoKey}]
        /\ slot \in [Workers -> Slots \cup {NoSlot}]
        /\ evicted \in [Workers -> Slots \cup {NoSlot}]
        /\ inst \in [Workers -> Instances \cup {NoInst}]
    OBVIOUS
  <2>3. /\ watched \in [Monitors -> SUBSET Slots]
        /\ sampled \in [Monitors -> SUBSET Instances]
    OBVIOUS
  <2>4. tx \in 0..MaxPreloads
    OBVIOUS
  <2> QED
    BY <2>1, <2>2, <2>3, <2>4 DEF TypeOK
<1>2. PlacesOK /\ StagesOK /\ LoadersOK
  BY DEF PlacesOK, StagesOK, LoadersOK, Workers
<1>3. SlotsOK /\ InstancesOK
  BY DEF SlotsOK, InstancesOK, Registered, Captured, Slots
<1>4. CapturesOK /\ SharedUnlessDiscarded
  BY DEF CapturesOK, Captured, SharedUnlessDiscarded, ActiveInstanceStaysShared
<1>5. PinsOK
  <2>1. Captured = {}
    BY DEF Captured
  <2>2. IsFiniteSet({}) /\ Cardinality({}) = 0
    BY FS_EmptySet
  <2>3. ASSUME NEW s \in Slots
        PROVE  pins[s] = Cardinality({c \in Captured : c.slot = s})
    <3>1. {c \in Captured : c.slot = s} = {}
      BY <2>1
    <3> QED
      BY <2>2, <3>1
  <2> QED
    BY <2>1, <2>2, <2>3 DEF PinsOK, PinsAccounted, Captured
<1> QED
  BY <1>1, <1>2, <1>3, <1>4, <1>5 DEF IInv

\* A stuttering step.
LEMMA StutterInv == IInv /\ UNCHANGED vars => IInv'
<1> SUFFICES ASSUME IInv, UNCHANGED vars
             PROVE  IInv'
  OBVIOUS
<1> USE DEF IInv, vars, registryVars, preloadVars, monitorVars, threadVars
<1>1. TypeOK'
  BY DEF TypeOK
<1>2. PlacesOK' /\ StagesOK' /\ LoadersOK'
  BY DEF PlacesOK, StagesOK, LoadersOK
<1>3. SlotsOK' /\ InstancesOK'
  BY DEF SlotsOK, InstancesOK, Registered, Captured
<1>4. CapturesOK' /\ PinsOK'
  BY DEF CapturesOK, PinsOK, PinsAccounted, Captured
<1>5. SharedUnlessDiscarded'
  BY DEF SharedUnlessDiscarded, ActiveInstanceStaysShared, Registered
<1> QED
  BY <1>1, <1>2, <1>3, <1>4, <1>5

\* Every step of a thread that looks up, loads, uses or discards a runtime.
LEMMA WorkerStepInv ==
  ASSUME IInv, NEW t \in Workers, WorkerStep(t)
  PROVE  IInv'
<1>1. ASSUME NEW k \in Keys,
             LookupHit(t, k) \/ LookupAdmit(t, k) \/ LookupEvict(t, k) \/ LookupRefuse(t, k)
      PROVE  IInv'
  BY <1>1, LookupHitInv, LookupAdmitInv, LookupEvictInv, LookupRefuseInv
<1>2. CASE ReturnRefusal(t)
  BY <1>2, ReturnRefusalInv
<1>3. CASE DropEvicted(t)
  BY <1>3, DropEvictedInv
<1>4. CASE AcquirePoisoned(t)
  BY <1>4, AcquirePoisonedInv
<1>5. CASE AcquireValid(t)
  BY <1>5, AcquireValidInv
<1>6. CASE AcquireLoad(t)
  BY <1>6, AcquireLoadInv
<1>7. CASE LoadSucceeds(t)
  BY <1>7, LoadSucceedsInv
<1>8. CASE LoadFails(t)
  BY <1>8, LoadFailsInv
<1>9. CASE LoadPanics(t)
  BY <1>9, LoadPanicsInv
<1>10. CASE Finish(t)
  BY <1>10, FinishInv
<1>11. CASE Fail(t)
  BY <1>11, FailInv
<1>12. CASE Discard(t)
  BY <1>12, DiscardInv
<1> QED
  BY <1>1, <1>2, <1>3, <1>4, <1>5, <1>6, <1>7, <1>8, <1>9, <1>10, <1>11, <1>12 DEF WorkerStep

\* Every step of the preload transactions and of the stages of the process.
LEMMA PreloadStepInv ==
  ASSUME IInv, PreloadStep
  PROVE  IInv'
<1>1. CASE BeginPreload
  BY <1>1, BeginPreloadInv
<1>2. CASE CommitPreload
  BY <1>2, CommitPreloadInv
<1>3. CASE FailPreload
  BY <1>3, FailPreloadInv
<1>4. CASE StopStartup
  BY <1>4, StopStartupInv
<1>5. CASE StartServing
  BY <1>5, StartServingInv
<1>6. ASSUME NEW c \in captured, ReleaseCapture(c)
      PROVE  IInv'
  BY <1>6, ReleaseCaptureInv
<1>7. ASSUME NEW c \in handles, DropHandle(c)
      PROVE  IInv'
  BY <1>7, DropHandleInv
<1> QED
  BY <1>1, <1>2, <1>3, <1>4, <1>5, <1>6, <1>7 DEF PreloadStep

\* The invariant is inductive.
LEMMA StepInv == IInv /\ [Next]_vars => IInv'
<1> SUFFICES ASSUME IInv, [Next]_vars
             PROVE  IInv'
  OBVIOUS
<1>1. ASSUME NEW t \in Workers, WorkerStep(t)
      PROVE  IInv'
  BY <1>1, WorkerStepInv
<1>2. ASSUME NEW m \in Monitors, MonitorStep(m)
      PROVE  IInv'
  BY <1>2, SnapshotSlotsInv, SnapshotValuesInv, SnapshotDroppedInv DEF MonitorStep
<1>3. ASSUME NEW i \in Instances, WorkerDies(i)
      PROVE  IInv'
  BY <1>3, WorkerDiesInv
<1>4. CASE PreloadStep
  BY <1>4, PreloadStepInv
<1>5. CASE RemoveDead
  BY <1>5, RemoveDeadInv
<1>6. CASE Stopped \/ UNCHANGED vars
  BY <1>6, StutterInv DEF Stopped
<1> QED
  BY <1>1, <1>2, <1>3, <1>4, <1>5, <1>6 DEF Next

\* The inductive invariant holds in every reachable state.
LEMMA InvariantHolds == Spec => []IInv
<1>1. Init => IInv
  BY InitInv
<1>2. IInv /\ [Next]_vars => IInv'
  BY StepInv
<1> QED
  BY <1>1, <1>2, PTL DEF Spec

-----------------------------------------------------------------------------

\* A step leaves a working preloaded runtime in its slot.
LEMMA PreloadedKept ==
  ASSUME IInv, [Next]_vars,
         NEW c \in handles', c.inst \in running
  PROVE  val'[c.slot] = c.inst
<1>1. /\ c \in Captured /\ c.slot \in Slots /\ c.inst \in Instances /\ c.inst # NoInst
      /\ val[c.slot] = c.inst /\ slotOf[c.slot[1]] = c.slot /\ c.slot # NoSlot
      /\ val \in [Slots -> Instances \cup {NoInst}]
  <2>1. c \in Captured
    BY DEF Captured, Next, vars, WorkerStep, MonitorStep, PreloadStep, preloadVars, monitorVars,
           threadVars, LookupHit, LookupAdmit, LookupEvict, LookupRefuse, ReturnRefusal,
           DropEvicted, AcquirePoisoned, AcquireValid, AcquireLoad, LoadSucceeds, LoadFails,
           LoadPanics, Finish, Fail, Discard, WorkerDies, RemoveDead, Stopped, SnapshotSlots,
           SnapshotValues, SnapshotDropped, BeginPreload, CommitPreload, FailPreload,
           StopStartup, StartServing, ReleaseCapture, DropHandle
  <2> QED
    BY <2>1, NamesAssumption DEF IInv, TypeOK, SlotsOK, CapturesOK, Captured, Capture, Slots,
       Instances
<1>2. ASSUME NEW Doomed, RemoveIf(Doomed)
      PROVE  val'[c.slot] = c.inst
  <2>1. PICK R \in SUBSET Registered :
          /\ \A j \in R : ~SlotShared(slotOf[j])
          /\ val' = [s \in Slots |-> IF \E j \in R : slotOf[j] = s THEN NoInst ELSE val[s]]
    BY <1>2, RemoveIfRemoves
  <2>2. SlotShared(c.slot)
    BY <1>1 DEF SlotShared, Captured
  <2> QED
    BY <1>1, <2>1, <2>2
<1>3. ASSUME NEW t \in Workers, DropEvicted(t)
      PROVE  val'[c.slot] = c.inst
  <2>1. evicted[t] # c.slot
    BY <1>1, <1>3 DEF IInv, SlotsOK
  <2> QED
    BY <1>1, <1>3, <2>1 DEF DropEvicted
<1>4. ASSUME NEW t \in Workers, AcquireLoad(t)
      PROVE  val'[c.slot] = c.inst
  BY <1>1, <1>4 DEF AcquireLoad
<1>5. ASSUME NEW t \in Workers, LoadSucceeds(t)
      PROVE  val'[c.slot] = c.inst
  <2>1. slot[t] # c.slot
    BY <1>1, <1>5 DEF IInv, LoadersOK, LoadSucceeds
  <2>2. PICK i : val' = [val EXCEPT ![slot[t]] = i]
    BY <1>5 DEF LoadSucceeds
  <2> QED
    BY <1>1, <2>1, <2>2
<1>6. ASSUME NEW d \in captured, ReleaseCapture(d)
      PROVE  val'[c.slot] = c.inst
  <2>1. /\ val' = [val EXCEPT ![d.slot] = IF d.fresh /\ @ = d.inst THEN NoInst ELSE @]
        /\ c \in handles
    BY <1>6 DEF ReleaseCapture
  <2>2. d.fresh => c.inst # d.inst
    BY <2>1 DEF IInv, CapturesOK
  <2> QED
    BY <1>1, <2>1, <2>2
<1>7. ASSUME val' = val
      PROVE  val'[c.slot] = c.inst
  BY <1>1, <1>7
<1>8. ASSUME NEW t \in Workers, WorkerStep(t)
      PROVE  val'[c.slot] = c.inst
  <2>1. CASE \/ \E k \in Keys : \/ LookupHit(t, k) \/ LookupAdmit(t, k)
                                \/ LookupEvict(t, k) \/ LookupRefuse(t, k)
             \/ ReturnRefusal(t) \/ AcquirePoisoned(t) \/ AcquireValid(t)
             \/ LoadFails(t) \/ LoadPanics(t) \/ Finish(t) \/ Fail(t)
    BY <2>1, <1>7 DEF LookupHit, LookupAdmit, LookupEvict, LookupRefuse, ReturnRefusal,
       AcquirePoisoned, AcquireValid, LoadFails, LoadPanics, Finish, Fail
  <2>2. CASE Discard(t)
    BY <2>2, <1>2 DEF Discard
  <2> QED
    BY <1>8, <1>3, <1>4, <1>5, <2>1, <2>2 DEF WorkerStep
<1>9. ASSUME NEW m \in Monitors, MonitorStep(m)
      PROVE  val'[c.slot] = c.inst
  BY <1>9, <1>7 DEF MonitorStep, SnapshotSlots, SnapshotValues, SnapshotDropped
<1>10. ASSUME NEW i \in Instances, WorkerDies(i)
       PROVE  val'[c.slot] = c.inst
  BY <1>10, <1>7 DEF WorkerDies
<1>11. ASSUME PreloadStep
       PROVE  val'[c.slot] = c.inst
  BY <1>11, <1>6, <1>7 DEF PreloadStep, BeginPreload, CommitPreload, FailPreload, StopStartup,
     StartServing, DropHandle
<1>12. ASSUME RemoveDead
       PROVE  val'[c.slot] = c.inst
  BY <1>12, <1>2 DEF RemoveDead
<1>13. ASSUME Stopped \/ UNCHANGED vars
       PROVE  val'[c.slot] = c.inst
  BY <1>13, <1>7 DEF Stopped, vars
<1> QED
  BY <1>8, <1>9, <1>10, <1>11, <1>12, <1>13 DEF Next

\* Type correctness, pin counts that never go below zero included (a release
\* gives back a pin that was taken).
THEOREM TypeCorrect == Spec => []TypeOK
<1>1. IInv => TypeOK
  BY DEF IInv
<1> QED
  BY <1>1, InvariantHolds, PTL

\* get_or_try_init loads a key in one thread at a time, even across eviction,
\* removal and re-creation of its slot.
THEOREM LoadsAreSingleFlight == Spec => []SingleFlight
<1>1. ASSUME IInv
      PROVE  SingleFlight
  <2> SUFFICES ASSUME NEW t \in Workers, NEW u \in Workers,
                      pc[t] = "loading", pc[u] = "loading", key[t] = key[u]
               PROVE  t = u
    BY DEF SingleFlight
  <2>1. slotOf[key[t]] = slot[t] /\ slotOf[key[u]] = slot[u]
    BY <1>1 DEF IInv, PlacesOK, SlotsOK
  <2> QED
    BY <1>1, <2>1 DEF IInv, LoadersOK
<1> QED
  BY <1>1, InvariantHolds, PTL

\* Every pin has exactly one capture that will release it, over any sequence of
\* preloads, rollbacks and dropped handles.
THEOREM PinsAreAccounted == Spec => []PinsAccounted
<1>1. IInv => PinsAccounted
  BY DEF IInv, PinsOK
<1> QED
  BY <1>1, InvariantHolds, PTL

\* A preloaded runtime that works stays registered under its key, in its slot,
\* while its handle lives, whatever requests, failures and removals happen.
THEOREM PreloadedRuntimesStay == Spec => PreloadedStaysResident
<1>1. ASSUME IInv, IInv', [Next]_vars
      PROVE  [\A c \in handles' : c.inst \in running =>
                \E k \in Registered' : slotOf'[k] = c.slot /\ val'[c.slot] = c.inst]_vars
  <2> SUFFICES ASSUME NEW c \in handles', c.inst \in running
               PROVE  \E k \in Registered' : slotOf'[k] = c.slot /\ val'[c.slot] = c.inst
    OBVIOUS
  <2>1. c.slot \in Slots /\ c.slot[1] \in Keys /\ c.slot # NoSlot
    BY <1>1, NamesAssumption DEF IInv, TypeOK, Capture, Slots
  <2>2. slotOf'[c.slot[1]] = c.slot
    BY <1>1 DEF IInv, SlotsOK, Captured
  <2>3. val'[c.slot] = c.inst
    BY <1>1, PreloadedKept
  <2> QED
    BY <2>1, <2>2, <2>3 DEF Registered
<1>2. Spec => [][Next]_vars
  BY DEF Spec
<1> QED
  BY <1>1, <1>2, InvariantHolds, PTL DEF PreloadedStaysResident

\* Unless failed requests discard entries, the instance a request uses is the
\* one the registry offers to the next request for its key.
THEOREM ActiveInstancesAreShared == Spec => [](policy.discards = "nothing" => ActiveInstanceStaysShared)
<1>1. IInv => (policy.discards = "nothing" => ActiveInstanceStaysShared)
  BY DEF IInv, SharedUnlessDiscarded
<1> QED
  BY <1>1, InvariantHolds, PTL

\* Unless failed requests discard entries, no key has two working instances
\* that are registered or in use.
THEOREM OneInstanceForEachKey == Spec => [](policy.discards = "nothing" => OneInstancePerKey)
<1>1. ASSUME IInv, policy.discards = "nothing"
      PROVE  OneInstancePerKey
  <2>1. ASSUME NEW i \in running, Active(i)
        PROVE  val[slotOf[i[1]]] = i
    <3>1. ASSUME NEW t \in Workers, inst[t] = i
          PROVE  val[slotOf[i[1]]] = i
      <4>1. val[slotOf[key[t]]] = i
        BY <1>1, <3>1 DEF IInv, SharedUnlessDiscarded, ActiveInstanceStaysShared
      <4>2. i # NoInst
        BY <1>1, NamesAssumption DEF IInv, TypeOK, Instances
      <4> QED
        BY <1>1, <3>1, <4>1, <4>2 DEF IInv, PlacesOK
    <3>2. ASSUME NEW k \in Registered, val[slotOf[k]] = i
          PROVE  val[slotOf[i[1]]] = i
      <4>1. slotOf[k] \in Slots /\ slotOf[k][1] = k
        BY <1>1, NamesAssumption DEF IInv, TypeOK, SlotsOK, Registered
      <4>2. i # NoInst
        BY <1>1, NamesAssumption DEF IInv, TypeOK, Instances
      <4> QED
        BY <1>1, <3>2, <4>1, <4>2 DEF IInv, InstancesOK
    <3> QED
      BY <2>1, <3>1, <3>2 DEF Active
  <2> QED
    BY <2>1 DEF OneInstancePerKey
<1>2. IInv => (policy.discards = "nothing" => OneInstancePerKey)
  BY <1>1
<1> QED
  BY <1>2, InvariantHolds, PTL

-----------------------------------------------------------------------------
(* Capacity.  Preloads ignore it, so what matters is what they leave.      *)

\* Until a preload is rolled back, at most one entry is not preloaded: an empty
\* one, which Boot is about to load or the next admission purges.
StartupOK ==
  stage = "startup" /\ pc[Boot] # "rollback" =>
    /\ poisoned = {}
    /\ \A j, k \in Ordinary(Registered) : j = k
    /\ \A k \in Ordinary(Registered) : val[slotOf[k]] = NoInst

CapacityOK == IsFiniteSet(Registered) /\ StartupOK /\ OrdinaryWithinCapacity

\* A slot that a capture refers to is pinned.
LEMMA CapturedIsPinned == IInv => \A c \in Captured : pins[c.slot] > 0
<1> SUFFICES ASSUME IInv, NEW c \in Captured PROVE pins[c.slot] > 0
  OBVIOUS
<1> DEFINE Refs == {d \in Captured : d.slot = c.slot}
<1>1. c.slot \in Slots
  BY DEF IInv, TypeOK, Captured, Capture
<1>2. pins[c.slot] = Cardinality(Refs) /\ IsFiniteSet(Refs) /\ c \in Refs
  BY <1>1, FS_Subset DEF IInv, PinsOK, PinsAccounted, Captured
<1> HIDE DEF Refs
<1>3. Cardinality(Refs) \in Nat /\ Cardinality(Refs) # 0
  BY <1>2, FS_CardinalityType, FS_EmptySet
<1> QED BY <1>2, <1>3

\* A step that neither publishes a slot nor gives back a pin.
Quiet ==
  /\ policy' = policy
  /\ \A k \in Registered' : /\ k \in Registered
                            /\ slotOf'[k] = slotOf[k]
                            /\ pins'[slotOf[k]] >= pins[slotOf[k]]

\* An entry admitted at startup finds nothing else that is not preloaded.
LEMMA StartupPurges ==
  ASSUME IInv, StartupOK, stage = "startup", pc[Boot] = "idle"
  PROVE  Ordinary(Registered \ Purged) = {}
<1> SUFFICES ASSUME NEW k \in Registered, pins[slotOf[k]] = 0 PROVE k \in Purged
  BY DEF Ordinary
<1>1. slotOf[k] \in Slots /\ slotOf[k] # NoSlot
  BY NamesAssumption DEF IInv, TypeOK, Registered
<1>2. \A t \in Workers : slot[t] # slotOf[k]
  BY <1>1 DEF IInv, StagesOK, PlacesOK, Workers
<1>3. \A c \in Captured : c.slot # slotOf[k]
  BY CapturedIsPinned
<1>4. \A m \in Monitors : watched[m] = {}
  BY DEF IInv, StagesOK
<1>5. val[slotOf[k]] = NoInst /\ slotOf[k] \notin poisoned
  BY DEF StartupOK, Ordinary
<1> QED BY <1>2, <1>3, <1>4, <1>5 DEF Purged, Purgeable, SlotShared, Captured

\* Before the server serves and while it does, the ordinary entries fit.
LEMMA OrdinaryFits ==
  ASSUME IInv, CapacityOK,
         stage = "serving" \/ (stage = "startup" /\ pc[Boot] # "rollback")
  PROVE  /\ IsFiniteSet(Ordinary(Registered))
         /\ Cardinality(Ordinary(Registered)) <= policy.capacity
<1> DEFINE O == Ordinary(Registered)
<1>1. IsFiniteSet(O)
  BY FS_Subset DEF CapacityOK, Ordinary
<1>2. policy.capacity \in Nat /\ policy.capacity >= 1
  BY PolicyAssumption DEF IInv, TypeOK, Policy
<1>3. ASSUME stage = "serving" PROVE Cardinality(O) <= policy.capacity
  BY <1>3 DEF CapacityOK, OrdinaryWithinCapacity
<1>4. ASSUME stage = "startup" /\ pc[Boot] # "rollback" PROVE Cardinality(O) <= policy.capacity
  <2>1. \A j, k \in O : j = k
    BY <1>4 DEF CapacityOK, StartupOK
  <2> HIDE DEF O
  <2>2. O = {} \/ (\E k : O = {k})
    <3> SUFFICES ASSUME NEW k \in O PROVE O = {k}
      OBVIOUS
    <3> QED BY <2>1
  <2>3. Cardinality(O) = 0 \/ Cardinality(O) = 1
    BY <2>2, FS_EmptySet, FS_Singleton
  <2> QED BY <1>1, <1>2, <2>3
<1> QED BY <1>1, <1>3, <1>4

LEMMA QuietKeepsCapacity ==
  ASSUME IInv, IInv', CapacityOK, Quiet,
         stage' = "serving" => stage = "serving" \/ (stage = "startup" /\ pc[Boot] # "rollback"),
         stage' = "startup" /\ pc'[Boot] # "rollback" =>
           /\ stage = "startup" /\ pc[Boot] # "rollback"
           /\ poisoned' = poisoned
           /\ \A k \in Registered' : pins'[slotOf[k]] = 0 =>
                val'[slotOf[k]] \in {val[slotOf[k]], NoInst}
  PROVE  CapacityOK'
<1>1. Registered' \subseteq Registered /\ IsFiniteSet(Registered')
  BY FS_Subset DEF Quiet, CapacityOK
<1>2. Ordinary(Registered)' \subseteq Ordinary(Registered)
  <2> SUFFICES ASSUME NEW k \in Registered', pins'[slotOf'[k]] = 0
               PROVE  pins[slotOf[k]] = 0 /\ k \in Registered
    BY DEF Ordinary
  <2>1. slotOf'[k] = slotOf[k] /\ pins'[slotOf[k]] >= pins[slotOf[k]] /\ k \in Registered
    BY DEF Quiet
  <2>2. slotOf[k] \in Slots
    BY <2>1 DEF IInv, TypeOK, Registered
  <2> QED BY <2>1, <2>2 DEF IInv, TypeOK
<1>3. StartupOK'
  <2> SUFFICES ASSUME stage' = "startup", pc'[Boot] # "rollback"
               PROVE  /\ poisoned' = {}
                      /\ \A j, k \in Ordinary(Registered)' : j = k
                      /\ \A k \in Ordinary(Registered)' : val'[slotOf'[k]] = NoInst
    BY DEF StartupOK
  <2>1. /\ poisoned = {} /\ \A j, k \in Ordinary(Registered) : j = k
        /\ \A k \in Ordinary(Registered) : val[slotOf[k]] = NoInst
    BY DEF CapacityOK, StartupOK
  <2>2. ASSUME NEW k \in Ordinary(Registered)' PROVE val'[slotOf'[k]] = NoInst
    <3>1. k \in Registered' /\ pins'[slotOf'[k]] = 0 /\ slotOf'[k] = slotOf[k]
      BY DEF Ordinary, Quiet
    <3> QED BY <3>1, <2>1, <1>2
  <2> QED BY <2>1, <2>2, <1>2
<1>4. OrdinaryWithinCapacity'
  <2> SUFFICES ASSUME stage' = "serving"
               PROVE  Cardinality(Ordinary(Registered)') <= policy'.capacity
    BY DEF OrdinaryWithinCapacity
  <2>1. IsFiniteSet(Ordinary(Registered)) /\ Cardinality(Ordinary(Registered)) <= policy.capacity
    BY OrdinaryFits
  <2>2. /\ Cardinality(Ordinary(Registered)') <= Cardinality(Ordinary(Registered))
        /\ IsFiniteSet(Ordinary(Registered)')
    BY <1>2, <2>1, FS_Subset
  <2>3. policy.capacity \in Nat /\ policy' = policy
    BY PolicyAssumption DEF IInv, TypeOK, Policy, Quiet
  <2> QED BY <2>1, <2>2, <2>3, FS_CardinalityType
<1> QED BY <1>1, <1>3, <1>4 DEF CapacityOK

\* An admission adds one entry to those that are left of the others.
LEMMA PublishingKeepsCapacity ==
  ASSUME IInv, IInv', CapacityOK,
         NEW k \in Keys, NEW R \in SUBSET Registered, NEW s, Republish(R, k, s),
         policy' = policy, stage' = stage, pins' = pins, val' = val, poisoned' = poisoned,
         pc'[Boot] = "rollback" <=> pc[Boot] = "rollback",
         val[s] = NoInst,
         stage = "startup" => Ordinary(Registered \ R) = {},
         stage = "serving" => Cardinality(Ordinary(Registered \ R)) < policy.capacity
  PROVE  CapacityOK'
<1> DEFINE P == Ordinary(Registered \ R)
<1>1. Registered' \subseteq (Registered \ R) \cup {k}
  BY DEF Registered, Republish
<1>2. \A j \in Registered' : j # k => slotOf'[j] = slotOf[j] 
  BY DEF Registered, Republish
<1>3. slotOf'[k] = s
  BY DEF Republish
<1>4. Ordinary(Registered)' \subseteq P \cup {k}
  BY <1>1, <1>2 DEF Ordinary
<1>5. IsFiniteSet(Registered') /\ IsFiniteSet(P)
  <2>1. IsFiniteSet(Registered)
    BY DEF CapacityOK
  <2>2. IsFiniteSet(Registered \ R) /\ P \subseteq Registered
    BY <2>1, FS_Subset DEF Ordinary
  <2>3. IsFiniteSet((Registered \ R) \cup {k})
    BY <2>2, FS_AddElement
  <2> QED BY <1>1, <2>1, <2>2, <2>3, FS_Subset
<1>6. StartupOK'
  <2> SUFFICES ASSUME stage' = "startup", pc'[Boot] # "rollback"
               PROVE  /\ poisoned' = {}
                      /\ \A j, l \in Ordinary(Registered)' : j = l
                      /\ \A j \in Ordinary(Registered)' : val'[slotOf'[j]] = NoInst
    BY DEF StartupOK
  <2>1. Ordinary(Registered)' \subseteq {k} /\ poisoned = {}
    BY <1>4 DEF CapacityOK, StartupOK
  <2> QED BY <2>1, <1>3
<1>7. OrdinaryWithinCapacity'
  <2> SUFFICES ASSUME stage' = "serving"
               PROVE  Cardinality(Ordinary(Registered)') <= policy'.capacity
    BY DEF OrdinaryWithinCapacity
  <2> HIDE DEF P
  <2>1. Cardinality(P) \in Nat /\ Cardinality(P) < policy.capacity
    BY <1>5, FS_CardinalityType DEF P
  <2>2. IsFiniteSet(P \cup {k}) /\ Cardinality(P \cup {k}) <= Cardinality(P) + 1
    <3>1. /\ IsFiniteSet(P \cup {k})
          /\ Cardinality(P \cup {k}) = IF k \in P THEN Cardinality(P) ELSE Cardinality(P) + 1
      BY <1>5, FS_AddElement
    <3> QED BY <2>1, <3>1
  <2>3. IsFiniteSet(Ordinary(Registered)') /\ Cardinality(Ordinary(Registered)') <= Cardinality(P \cup {k})
    BY <1>4, <2>2, FS_Subset
  <2>4. Cardinality(Ordinary(Registered)') \in Nat /\ Cardinality(P \cup {k}) \in Nat
    BY <2>2, <2>3, FS_CardinalityType
  <2>5. policy.capacity \in Nat
    BY PolicyAssumption DEF IInv, TypeOK, Policy
  <2> QED BY <2>1, <2>2, <2>3, <2>4, <2>5
<1> QED BY <1>5, <1>6, <1>7 DEF CapacityOK

LEMMA CapacityInit == Init => CapacityOK
<1> SUFFICES ASSUME Init PROVE CapacityOK
  OBVIOUS
<1>1. Registered = {} /\ Ordinary(Registered) = {}
  BY DEF Init, Registered, Ordinary
<1> QED BY <1>1, FS_EmptySet DEF Init, CapacityOK, StartupOK, OrdinaryWithinCapacity

\* Nobody but Boot acts at startup, and Boot is idle when the server serves.
LEMMA StageFacts ==
  ASSUME IInv
  PROVE  /\ \A t \in Workers : stage = "startup" /\ pc[t] # "idle" => t = Boot
         /\ stage = "serving" => pc[Boot] = "idle" /\ ~scoped /\ captured = {}
         /\ pc[Boot] = "rollback" => stage = "startup" /\ ~scoped
BY DEF IInv, StagesOK, Workers

\* What capture() does to the pins: none is given back, outside a preload
\* nothing changes, and the slot of a preload is pinned afterwards.
LEMMA CapturePins ==
  ASSUME IInv, IInv', NEW t \in Workers, slot[t] \in Slots,
         NEW i, NEW fresh, CaptureSlot(t, i, fresh), handles' = handles
  PROVE  /\ \A s \in Slots : pins'[s] >= pins[s]
         /\ t = Boot /\ scoped => pins'[slot[t]] > 0
<1>1. ASSUME NEW s \in Slots PROVE pins'[s] >= pins[s]
  <2>1. pins[s] \in Nat
    BY DEF IInv, TypeOK
  <2>2. pins'[s] = pins[s] \/ pins'[s] = pins[s] + 1
    BY <2>1 DEF IInv, TypeOK, CaptureSlot
  <2> QED BY <2>1, <2>2
<1>2. ASSUME t = Boot /\ scoped PROVE pins'[slot[t]] > 0
  <2>1. \E c \in captured' : c.slot = slot[t]
    <3>1. captured' = captured \cup Captures(slot[t], i, fresh)
      BY <1>2 DEF CaptureSlot
    <3>2. CASE \E c \in captured : c.slot = slot[t]
      BY <3>1, <3>2
    <3>3. CASE ~\E c \in captured : c.slot = slot[t]
      <4> DEFINE c == [tx |-> tx, slot |-> slot[t], inst |-> i, fresh |-> fresh]
      <4>1. c \in captured' /\ c.slot = slot[t]
        BY <3>1, <3>3 DEF Captures
      <4> QED BY <4>1
    <3> QED BY <3>2, <3>3
  <2>2. (\A c \in Captured : pins[c.slot] > 0)'
    BY CapturedIsPinned, PTL
  <2> QED BY <2>1, <2>2 DEF Captured
<1> QED BY <1>1, <1>2

\* A step that publishes, pins and loads nothing.
LEMMA UnpublishingKeepsCapacity ==
  ASSUME IInv, IInv', CapacityOK,
         \A k \in Keys : slotOf'[k] = slotOf[k] \/ slotOf'[k] = NoSlot,
         \A s \in Slots : val'[s] = val[s] \/ val'[s] = NoInst,
         UNCHANGED <<policy, stage, pins, poisoned>>,
         pc'[Boot] # "rollback" => pc[Boot] # "rollback"
  PROVE  CapacityOK'
<1>1. Quiet
  BY DEF Quiet, Registered, IInv, TypeOK
<1>2. \A k \in Registered' : val'[slotOf[k]] \in {val[slotOf[k]], NoInst}
  BY DEF Registered, IInv, TypeOK
<1>3. stage' = "serving" => stage = "serving" \/ (stage = "startup" /\ pc[Boot] # "rollback")
  OBVIOUS
<1>4. stage' = "startup" /\ pc'[Boot] # "rollback" =>
           /\ stage = "startup" /\ pc[Boot] # "rollback"
           /\ poisoned' = poisoned
           /\ \A k \in Registered' : pins'[slotOf[k]] = 0 =>
                val'[slotOf[k]] \in {val[slotOf[k]], NoInst}
  BY <1>2
<1> HIDE DEF Quiet
<1> QED BY <1>1, <1>3, <1>4, QuietKeepsCapacity

LEMMA WorkerKeepsCapacity ==
  ASSUME IInv, IInv', CapacityOK, NEW t \in Workers, WorkerStep(t)
  PROVE  CapacityOK'
<1> USE StageFacts
<1>1. ASSUME NEW k \in Keys, LookupHit(t, k) PROVE CapacityOK'
  <2>1. slotOf' = slotOf /\ policy' = policy /\ stage' = stage /\ pins' = pins
        /\ poisoned' = poisoned /\ val' = val
    BY <1>1 DEF LookupHit, Republish, IInv, TypeOK, Registered
  <2>2. pc'[Boot] = "rollback" => pc[Boot] = "rollback"
    BY <1>1 DEF LookupHit, Hold, IInv, TypeOK
  <2>3. pc'[Boot] # "rollback" => pc[Boot] # "rollback"
    BY <1>1 DEF LookupHit, Hold, MayAsk, IInv, TypeOK
  <2>4. Quiet
    BY <2>1 DEF Quiet, Registered, IInv, TypeOK
  <2> QED BY <2>1, <2>2, <2>3, <2>4, QuietKeepsCapacity
<1>2. ASSUME NEW k \in Keys, LookupAdmit(t, k) PROVE CapacityOK'
  <2>1. PICK s \in FreeSlots(k) : Republish(Purged, k, s) /\ Hold(t, k, s, "waiting")
    BY <1>2 DEF LookupAdmit, Least
  <2>2. /\ policy' = policy /\ stage' = stage /\ pins' = pins /\ val' = val /\ poisoned' = poisoned
        /\ MayAsk(t) /\ Purged \subseteq Registered
    BY <1>2 DEF LookupAdmit, Purged
  <2>3. val[s] = NoInst
    BY <2>1, NamesAssumption DEF IInv, InstancesOK, FreeSlots, Slots
  <2>4. pc'[Boot] = "rollback" <=> pc[Boot] = "rollback"
    BY <2>1, <2>2 DEF Hold, MayAsk, IInv, TypeOK
  <2>5. stage = "startup" => Ordinary(Registered \ Purged) = {}
    BY <2>2, StartupPurges, NamesAssumption DEF MayAsk, CapacityOK
  <2>6. stage = "serving" => Cardinality(Ordinary(Registered \ Purged)) < policy.capacity
    <3> SUFFICES ASSUME stage = "serving"
                 PROVE  Cardinality(Ordinary(Registered \ Purged)) < policy.capacity
      OBVIOUS
    <3>1. ~Full(Registered \ Purged)
      BY <1>2, <2>2 DEF LookupAdmit, MayAsk
    <3>2. IsFiniteSet(Registered \ Purged)
      BY FS_Subset DEF CapacityOK
    <3>3. IsFiniteSet(Ordinary(Registered \ Purged))
      BY <3>2, FS_Subset DEF Ordinary
    <3>4. Cardinality(Ordinary(Registered \ Purged)) \in Nat /\ policy.capacity \in Nat
      BY <3>3, FS_CardinalityType, PolicyAssumption DEF IInv, TypeOK, Policy
    <3> QED BY <3>1, <3>4 DEF Full
  <2> QED BY <2>1, <2>2, <2>3, <2>4, <2>5, <2>6, PublishingKeepsCapacity
<1>3. ASSUME NEW k \in Keys, LookupEvict(t, k) PROVE CapacityOK'
  <2>1. PICK v \in Victims, s \in FreeSlots(k) :
          Republish(Purged \cup {v}, k, s) /\ Hold(t, k, s, "dropping")
    BY <1>3 DEF LookupEvict, Least
  <2>2. /\ policy' = policy /\ stage' = stage /\ pins' = pins /\ val' = val /\ poisoned' = poisoned
        /\ stage = "serving"
    BY <1>3 DEF LookupEvict, MayAsk
  <2>3. val[s] = NoInst
    BY <2>1, NamesAssumption DEF IInv, InstancesOK, FreeSlots, Slots
  <2>4. pc'[Boot] = "rollback" <=> pc[Boot] = "rollback"
    BY <1>3, <2>1 DEF LookupEvict, Hold, MayAsk, IInv, TypeOK
  <2>5. v \in Registered /\ ~SlotShared(slotOf[v]) /\ Purged \cup {v} \subseteq Registered
    BY DEF Victims, Oldest, Evictable, Purged
  <2>6. v \in Ordinary(Registered)
    <3>1. slotOf[v] \in Slots
      BY <2>5 DEF IInv, TypeOK, Registered
    <3> DEFINE Refs == {c \in Captured : c.slot = slotOf[v]}
    <3>2. Refs = {}
      BY <2>5 DEF SlotShared, Captured
    <3>3. pins[slotOf[v]] = Cardinality(Refs)
      BY <3>1 DEF IInv, PinsOK, PinsAccounted, Captured
    <3> QED BY <2>5, <3>2, <3>3, FS_EmptySet DEF Ordinary
  <2>7. Cardinality(Ordinary(Registered \ (Purged \cup {v}))) < policy.capacity
    <3> DEFINE O == Ordinary(Registered)
               P == Ordinary(Registered \ (Purged \cup {v}))
    <3>1. IsFiniteSet(O) /\ Cardinality(O) <= policy.capacity
      BY <2>2, OrdinaryFits
    <3>2. P \subseteq O \ {v}
      BY DEF Ordinary
    <3>3. v \in O /\ policy.capacity \in Nat
      BY <2>6, PolicyAssumption DEF IInv, TypeOK, Policy
    <3> HIDE DEF O, P
    <3>4. IsFiniteSet(O \ {v}) /\ Cardinality(O \ {v}) = Cardinality(O) - 1
      BY <3>1, <3>3, FS_RemoveElement
    <3>5. IsFiniteSet(P) /\ Cardinality(P) <= Cardinality(O \ {v})
      BY <3>2, <3>4, FS_Subset
    <3>6. Cardinality(O) \in Nat /\ Cardinality(P) \in Nat
      BY <3>1, <3>5, FS_CardinalityType
    <3>7. Cardinality(P) < policy.capacity
      BY <3>1, <3>3, <3>4, <3>5, <3>6
    <3> QED BY <3>7 DEF P
  <2>8. PICK R \in SUBSET Registered : R = Purged \cup {v}
    BY <2>5
  <2>9. /\ Republish(R, k, s) /\ stage # "startup"
        /\ Cardinality(Ordinary(Registered \ R)) < policy.capacity
    BY <2>1, <2>2, <2>7, <2>8
  <2> QED BY <2>2, <2>3, <2>4, <2>9, PublishingKeepsCapacity
<1>4. ASSUME NEW k \in Keys, LookupRefuse(t, k) PROVE CapacityOK'
  BY <1>4, UnpublishingKeepsCapacity DEF LookupRefuse, Unregister, MayAsk, IInv, TypeOK
<1>5. ASSUME ReturnRefusal(t) \/ AcquirePoisoned(t) \/ LoadFails(t) \/ Finish(t) \/ Fail(t)
      PROVE  CapacityOK'
  BY <1>5, UnpublishingKeepsCapacity DEF ReturnRefusal, AcquirePoisoned, LoadFails, Finish, Fail,
     Return, registryVars, IInv, TypeOK
<1>6. ASSUME DropEvicted(t) PROVE CapacityOK'
  BY <1>6, UnpublishingKeepsCapacity DEF DropEvicted, registryVars, IInv, TypeOK
<1>7. ASSUME AcquireLoad(t) PROVE CapacityOK'
  BY <1>7, UnpublishingKeepsCapacity DEF AcquireLoad, registryVars, IInv, TypeOK
<1>8. ASSUME Discard(t) PROVE CapacityOK'
  BY <1>8, UnpublishingKeepsCapacity DEF Discard, Return, RemoveIf, Unregister, IInv, TypeOK
<1>9. ASSUME LoadPanics(t) PROVE CapacityOK'
  <2>1. Quiet /\ stage' = stage
    BY <1>9 DEF Quiet, LoadPanics, registryVars, Registered, IInv, TypeOK
  <2>2. stage' = "startup" => pc'[Boot] = "rollback"
    BY <1>9, <2>1 DEF LoadPanics, Return, IInv, TypeOK
  <2> QED BY <2>1, <2>2, QuietKeepsCapacity
<1>10. ASSUME AcquireValid(t) \/ LoadSucceeds(t) PROVE CapacityOK'
  <2>1. slot[t] \in Slots /\ pc[t] \in {"waiting", "loading"}
    BY <1>10 DEF AcquireValid, LoadSucceeds, IInv, TypeOK, PlacesOK
  <2>2. /\ policy' = policy /\ stage' = stage /\ slotOf' = slotOf /\ handles' = handles
        /\ poisoned' = poisoned
        /\ \A s \in Slots : s # slot[t] => val'[s] = val[s]
        /\ pc'[Boot] = "rollback" <=> pc[Boot] = "rollback"
    <3>1. CASE AcquireValid(t)
      BY <2>1, <3>1 DEF AcquireValid, Return, registryVars, IInv, TypeOK
    <3>2. CASE LoadSucceeds(t)
      BY <2>1, <3>2 DEF LoadSucceeds, Return, registryVars, IInv, TypeOK
    <3> QED BY <1>10, <3>1, <3>2
  <2>3. PICK i, fresh : CaptureSlot(t, i, fresh)
    BY <1>10 DEF AcquireValid, LoadSucceeds
  <2>4. /\ \A s \in Slots : pins'[s] >= pins[s]
        /\ t = Boot /\ scoped => pins'[slot[t]] > 0
    BY <2>1, <2>2, <2>3, CapturePins
  <2>5. Quiet
    BY <2>2, <2>4 DEF Quiet, Registered, IInv, TypeOK
  <2>6. stage = "startup" => t = Boot /\ scoped
    BY <2>1 DEF IInv, StagesOK
  <2>7. ASSUME stage' = "startup", NEW k \in Registered', pins'[slotOf[k]] = 0
        PROVE  val'[slotOf[k]] = val[slotOf[k]]
    BY <2>2, <2>4, <2>6, <2>7 DEF Registered, IInv, TypeOK
  <2> QED BY <2>2, <2>5, <2>7, QuietKeepsCapacity
<1> QED BY <1>1, <1>2, <1>3, <1>4, <1>5, <1>6, <1>7, <1>8, <1>9, <1>10 DEF WorkerStep

LEMMA StepKeepsCapacity == IInv /\ IInv' /\ CapacityOK /\ [Next]_vars => CapacityOK'
<1> SUFFICES ASSUME IInv, IInv', CapacityOK, [Next]_vars PROVE CapacityOK'
  OBVIOUS
<1>1. ASSUME NEW m \in Monitors, MonitorStep(m) PROVE CapacityOK'
  BY <1>1, UnpublishingKeepsCapacity DEF MonitorStep, SnapshotSlots, SnapshotValues, SnapshotDropped,
     registryVars, threadVars, preloadVars
<1>2. ASSUME NEW i \in Instances, WorkerDies(i) PROVE CapacityOK'
  BY <1>2, UnpublishingKeepsCapacity DEF WorkerDies, registryVars, threadVars
<1>3. ASSUME RemoveDead PROVE CapacityOK'
  BY <1>3, UnpublishingKeepsCapacity DEF RemoveDead, RemoveIf, Unregister, threadVars, IInv, TypeOK
<1>4. ASSUME BeginPreload \/ CommitPreload \/ FailPreload PROVE CapacityOK'
  BY <1>4, UnpublishingKeepsCapacity DEF BeginPreload, CommitPreload, FailPreload, registryVars,
     threadVars, IInv, TypeOK
<1>5. ASSUME StopStartup \/ StartServing PROVE CapacityOK'
  <2>1. Quiet
    BY <1>5 DEF Quiet, StopStartup, StartServing, registryVars, Registered, IInv, TypeOK
  <2>2. stage' # "startup" /\ (stage' = "serving" => stage = "startup" /\ pc[Boot] # "rollback")
    BY <1>5 DEF StopStartup, StartServing
  <2> QED BY <2>1, <2>2, QuietKeepsCapacity
<1>6. ASSUME NEW c \in captured, ReleaseCapture(c) PROVE CapacityOK'
  <2>1. IsFiniteSet(Registered') /\ stage' = "startup" /\ pc'[Boot] = "rollback"
    BY <1>6, StageFacts DEF ReleaseCapture, registryVars, threadVars, Registered, CapacityOK
  <2> QED BY <2>1 DEF CapacityOK, StartupOK, OrdinaryWithinCapacity
<1>7. ASSUME NEW c \in handles, DropHandle(c) PROVE CapacityOK'
  <2>1. IsFiniteSet(Registered') /\ stage' = "stopped"
    BY <1>7 DEF DropHandle, registryVars, Registered, CapacityOK
  <2> QED BY <2>1 DEF CapacityOK, StartupOK, OrdinaryWithinCapacity
<1>8. ASSUME UNCHANGED vars PROVE CapacityOK'
  BY <1>8, UnpublishingKeepsCapacity DEF vars, registryVars, threadVars
<1> QED BY <1>1, <1>2, <1>3, <1>4, <1>5, <1>6, <1>7, <1>8, WorkerKeepsCapacity
    DEF Next, PreloadStep, Stopped

LEMMA CapacityHolds == Spec => []CapacityOK
<1>1. Spec => []IInv /\ [][Next]_vars /\ Init
  BY InvariantHolds DEF Spec
<1> QED BY <1>1, CapacityInit, StepKeepsCapacity, PTL

\* While the server serves, the entries that are not preloaded stay within the
\* capacity: what failed and forgotten preloads left is purged or makes the
\* next admission evict, and an eviction takes an ordinary entry.
THEOREM EntriesWithinCapacity == Spec => []OrdinaryWithinCapacity
<1>1. CapacityOK => OrdinaryWithinCapacity
  BY DEF CapacityOK
<1> QED BY <1>1, CapacityHolds, PTL

-----------------------------------------------------------------------------
(* Residence.  Unless failed requests discard entries, a working instance  *)
(* sits in a slot, and whoever uses or samples it finds it registered.     *)

\* Instance i is in a slot that the registry publishes.
AtHome(i) == \E s \in Slots : val[s] = i /\ slotOf[s[1]] = s

ResidenceOK ==
  /\ \A m \in Monitors : \A s \in watched[m] : slotOf[s[1]] = s
  /\ policy.discards = "nothing" =>
       /\ \A i \in running : \E s \in Slots : val[s] = i
       /\ \A i \in running : ValueShared(i) => AtHome(i)
  /\ IsFiniteSet({t \in Workers : pc[t] = "dropping"})

\* A snapshot clones slots of the registry only, and a cloned slot stays there.
LEMMA WatchedStay ==
  ASSUME IInv, ResidenceOK, [Next]_vars, NEW m \in Monitors, NEW s \in watched'[m]
  PROVE  slotOf'[s[1]] = s
<1> USE NamesAssumption
<1>1. ASSUME NEW k \in Keys, NEW R \in SUBSET Registered, \A j \in R : ~SlotShared(slotOf[j]),
             slotOf[s[1]] = s, s \in watched[m], k \notin Registered,
             \A j \in Keys : j # k /\ j \notin R => slotOf'[j] = slotOf[j]
      PROVE  slotOf'[s[1]] = s
  <2>1. s \in Slots /\ s # NoSlot /\ s[1] \in Keys
    BY <1>1 DEF IInv, TypeOK, Slots
  <2>2. s[1] \in Registered
    BY <1>1, <2>1 DEF Registered
  <2>3. s[1] \notin R
    BY <1>1, <2>1 DEF SlotShared
  <2> QED BY <1>1, <2>1, <2>2, <2>3
<1>2. CASE slotOf' = slotOf /\ watched'[m] \subseteq watched[m]
  BY <1>2 DEF ResidenceOK
<1>3. CASE SnapshotSlots(m)
  <2>1. PICK k \in Registered : s = slotOf[k]
    BY <1>3 DEF SnapshotSlots, IInv, TypeOK
  <2> QED BY <1>3, <2>1 DEF SnapshotSlots, registryVars, IInv, SlotsOK
<1>4. ASSUME NEW n \in Monitors, MonitorStep(n) PROVE slotOf'[s[1]] = s
  <2>1. CASE n = m
    BY <1>2, <1>3, <1>4, <2>1 DEF MonitorStep, SnapshotValues, SnapshotDropped, registryVars, IInv, TypeOK
  <2>2. CASE n # m
    BY <1>2, <1>4, <2>2 DEF MonitorStep, SnapshotSlots, SnapshotValues, SnapshotDropped, registryVars, IInv, TypeOK
  <2> QED BY <2>1, <2>2
<1>5. ASSUME NEW Doomed, RemoveIf(Doomed), watched' = watched PROVE slotOf'[s[1]] = s
  <2>1. s \in watched[m] /\ slotOf[s[1]] = s
    BY <1>5 DEF ResidenceOK
  <2>2. s \in Slots /\ s # NoSlot /\ s[1] \in Keys
    BY <2>1 DEF IInv, TypeOK, Slots
  <2>3. SlotShared(slotOf[s[1]])
    BY <2>1 DEF SlotShared
  <2> QED BY <1>5, <2>1, <2>2, <2>3 DEF RemoveIf, Unregister
<1>6. ASSUME NEW t \in Workers, NEW k \in Keys, LookupAdmit(t, k) PROVE slotOf'[s[1]] = s
  <2>1. s \in watched[m] /\ slotOf[s[1]] = s /\ k \notin Registered
    BY <1>6 DEF ResidenceOK, LookupAdmit, monitorVars
  <2>2. Purged \in SUBSET Registered /\ \A j \in Purged : ~SlotShared(slotOf[j])
    BY DEF Purged, Purgeable
  <2>3. \A j \in Keys : j # k /\ j \notin Purged => slotOf'[j] = slotOf[j]
    BY <1>6 DEF LookupAdmit, Republish
  <2> QED BY <1>1, <2>1, <2>2, <2>3
<1>7. ASSUME NEW t \in Workers, NEW k \in Keys, LookupEvict(t, k) PROVE slotOf'[s[1]] = s
  <2>1. s \in watched[m] /\ slotOf[s[1]] = s /\ k \notin Registered
    BY <1>7 DEF ResidenceOK, LookupEvict, monitorVars
  <2>2. PICK v \in Victims : \A j \in Keys : j # k /\ j \notin Purged \cup {v} => slotOf'[j] = slotOf[j]
    BY <1>7 DEF LookupEvict, Republish
  <2>3. Purged \cup {v} \in SUBSET Registered /\ \A j \in Purged \cup {v} : ~SlotShared(slotOf[j])
    BY DEF Purged, Purgeable, Victims, Oldest, Evictable
  <2> QED BY <1>1, <2>1, <2>2, <2>3
<1>8. ASSUME NEW t \in Workers, NEW k \in Keys, LookupRefuse(t, k) PROVE slotOf'[s[1]] = s
  <2>1. s \in watched[m] /\ slotOf[s[1]] = s
    BY <1>8 DEF ResidenceOK, LookupRefuse, monitorVars
  <2>2. s \in Slots /\ s # NoSlot /\ s[1] \in Keys
    BY <2>1 DEF IInv, TypeOK, Slots
  <2>3. SlotShared(slotOf[s[1]])
    BY <2>1 DEF SlotShared
  <2> QED BY <1>8, <2>1, <2>2, <2>3 DEF LookupRefuse, Unregister, Purged, Purgeable
<1>9. ASSUME NEW t \in Workers, NEW k \in Keys, LookupHit(t, k) PROVE slotOf'[s[1]] = s
  BY <1>9, <1>2 DEF LookupHit, Republish, monitorVars, IInv, TypeOK, Registered
<1>10. ASSUME NEW t \in Workers, WorkerStep(t) PROVE slotOf'[s[1]] = s
  <2>1. CASE Discard(t)
    BY <2>1, <1>5 DEF Discard, monitorVars
  <2>2. CASE \/ ReturnRefusal(t) \/ DropEvicted(t) \/ AcquirePoisoned(t) \/ AcquireValid(t)
             \/ AcquireLoad(t) \/ LoadSucceeds(t) \/ LoadFails(t) \/ LoadPanics(t) \/ Finish(t) \/ Fail(t)
    BY <2>2, <1>2 DEF ReturnRefusal, DropEvicted, AcquirePoisoned, AcquireValid, AcquireLoad, LoadSucceeds,
       LoadFails, LoadPanics, Finish, Fail, registryVars, monitorVars
  <2> QED BY <1>10, <1>6, <1>7, <1>8, <1>9, <2>1, <2>2 DEF WorkerStep
<1>11. ASSUME PreloadStep \/ UNCHANGED vars \/ (\E i \in Instances : WorkerDies(i)) PROVE slotOf'[s[1]] = s
  BY <1>11, <1>2 DEF PreloadStep, BeginPreload, CommitPreload, FailPreload, StopStartup, StartServing,
     ReleaseCapture, DropHandle, WorkerDies, vars, registryVars, monitorVars
<1>12. CASE RemoveDead
  BY <1>12, <1>5 DEF RemoveDead, monitorVars
<1> QED BY <1>4, <1>10, <1>11, <1>12 DEF Next, Stopped

\* No step takes an instance that works out of a registered slot while it is
\* in use, ...
LEMMA SharedStayHome ==
  ASSUME IInv, ResidenceOK, [Next]_vars, policy.discards = "nothing",
         NEW i \in running, i \in running', AtHome(i),
         ValueShared(i) \/ ValueShared(i)'
  PROVE  AtHome(i)'
<1> USE NamesAssumption
<1>1. PICK s \in Slots : val[s] = i /\ slotOf[s[1]] = s
  BY DEF AtHome
<1>2. i # NoInst /\ s # NoSlot /\ s[1] \in Keys /\ s[1] \in Registered /\ i \in Instances
  <2>1. i \in Instances /\ i # NoInst
    BY DEF IInv, TypeOK, Instances
  <2>2. s # NoSlot /\ s[1] \in Keys
    BY DEF Slots
  <2> QED BY <1>1, <2>1, <2>2 DEF Registered
<1> SUFFICES val'[s] = i /\ slotOf'[s[1]] = s
  BY DEF AtHome
<1>3. ASSUME slotOf' = slotOf, val'[s] = val[s] PROVE val'[s] = i /\ slotOf'[s[1]] = s
  BY <1>1, <1>3
<1>4. ASSUME NEW k \in Keys, NEW R \in SUBSET Registered,
             \A j \in R : val[slotOf[j]] # i,
             k \notin Registered, val' = val,
             \A j \in Keys : j # k /\ j \notin R => slotOf'[j] = slotOf[j]
      PROVE  val'[s] = i /\ slotOf'[s[1]] = s
  BY <1>1, <1>2, <1>4
<1>5. \A j \in Purged : val[slotOf[j]] # i
  BY <1>2 DEF Purged, Purgeable
<1>6. ASSUME NEW t \in Workers, WorkerStep(t) PROVE val'[s] = i /\ slotOf'[s[1]] = s
  <2>1. ASSUME NEW k \in Keys, LookupHit(t, k) PROVE val'[s] = i /\ slotOf'[s[1]] = s
    BY <2>1, <1>3 DEF LookupHit, Republish, IInv, TypeOK, Registered
  <2>2. ASSUME NEW k \in Keys, LookupAdmit(t, k) PROVE val'[s] = i /\ slotOf'[s[1]] = s
    <3>1. \A j \in Keys : j # k /\ j \notin Purged => slotOf'[j] = slotOf[j]
      BY <2>2 DEF LookupAdmit, Republish
    <3>2. Purged \in SUBSET Registered /\ k \notin Registered /\ val' = val
      BY <2>2 DEF Purged, LookupAdmit
    <3> QED BY <1>4, <1>5, <3>1, <3>2
  <2>3. ASSUME NEW k \in Keys, LookupEvict(t, k) PROVE val'[s] = i /\ slotOf'[s[1]] = s
    <3>1. PICK v \in Victims : \A j \in Keys : j # k /\ j \notin Purged \cup {v} => slotOf'[j] = slotOf[j]
      BY <2>3 DEF LookupEvict, Republish
    <3>2. UNCHANGED <<val, inst, sampled>> /\ k \notin Registered
      BY <2>3 DEF LookupEvict, monitorVars
    <3>3. ValueShared(i)
      BY <3>2 DEF ValueShared
    <3>4. v \in Registered /\ val[slotOf[v]] # i
      BY <1>2, <3>3 DEF Victims, Oldest, Evictable
    <3>5. Purged \cup {v} \in SUBSET Registered
      BY <3>4 DEF Purged
    <3> QED BY <1>4, <1>5, <3>1, <3>2, <3>4, <3>5
  <2>4. ASSUME NEW k \in Keys, LookupRefuse(t, k) PROVE val'[s] = i /\ slotOf'[s[1]] = s
    BY <2>4, <1>1, <1>2, <1>5 DEF LookupRefuse, Unregister
  <2>5. ASSUME DropEvicted(t) PROVE val'[s] = i /\ slotOf'[s[1]] = s
    <3>1. evicted[t] # s
      BY <2>5, <1>1, <1>2 DEF DropEvicted, IInv, SlotsOK
    <3> QED BY <2>5, <3>1, <1>1 DEF DropEvicted, registryVars, IInv, TypeOK
  <2>6. ASSUME AcquireLoad(t) PROVE val'[s] = i /\ slotOf'[s[1]] = s
    BY <2>6, <1>1 DEF AcquireLoad, registryVars, IInv, TypeOK
  <2>7. ASSUME LoadSucceeds(t) PROVE val'[s] = i /\ slotOf'[s[1]] = s
    <3>1. slot[t] # s
      BY <2>7, <1>1, <1>2 DEF LoadSucceeds, IInv, LoadersOK
    <3> QED BY <2>7, <3>1, <1>1 DEF LoadSucceeds, registryVars, IInv, TypeOK
  <2>8. ASSUME Discard(t) \/ Fail(t) PROVE FALSE
    BY <2>8 DEF Fail, Discard, IInv, PlacesOK
  <2>9. ASSUME \/ ReturnRefusal(t) \/ AcquirePoisoned(t) \/ AcquireValid(t)
               \/ LoadFails(t) \/ LoadPanics(t) \/ Finish(t)
        PROVE  val'[s] = i /\ slotOf'[s[1]] = s
    BY <2>9, <1>3 DEF ReturnRefusal, AcquirePoisoned, AcquireValid, LoadFails, LoadPanics, Finish, registryVars
  <2> QED BY <1>6, <2>1, <2>2, <2>3, <2>4, <2>5, <2>6, <2>7, <2>8, <2>9 DEF WorkerStep
<1>7. ASSUME RemoveDead PROVE val'[s] = i /\ slotOf'[s[1]] = s
  <2>1. PICK R \in SUBSET Registered :
          /\ Unregister(R) /\ \A j \in R : val[slotOf[j]] \in Instances \ running
          /\ val' = [r \in Slots |-> IF \E j \in R : slotOf[j] = r THEN NoInst ELSE val[r]]
    BY <1>7, RemoveIfRemoves DEF RemoveDead
  <2>2. s[1] \notin R /\ ~\E j \in R : slotOf[j] = s
    BY <1>1, <2>1
  <2> QED BY <1>1, <1>2, <2>1, <2>2 DEF Unregister
<1>8. ASSUME NEW c \in captured, ReleaseCapture(c) PROVE FALSE
  <2>1. stage = "startup" /\ pc[Boot] = "rollback"
    BY <1>8 DEF ReleaseCapture, IInv, StagesOK
  <2>2. \A t \in Workers : inst[t] = NoInst
    BY <2>1 DEF IInv, StagesOK, PlacesOK, Workers
  <2>3. \A m \in Monitors : sampled[m] = {}
    BY <2>1 DEF IInv, StagesOK
  <2>4. inst' = inst /\ sampled' = sampled
    BY <1>8 DEF ReleaseCapture, threadVars, monitorVars
  <2> QED BY <1>2, <2>2, <2>3, <2>4 DEF ValueShared
<1>9. ASSUME \/ BeginPreload \/ CommitPreload \/ FailPreload \/ StopStartup \/ StartServing
             \/ (\E c \in handles : DropHandle(c)) \/ (\E m \in Monitors : MonitorStep(m))
             \/ (\E j \in Instances : WorkerDies(j)) \/ UNCHANGED vars
      PROVE  val'[s] = i /\ slotOf'[s[1]] = s
  BY <1>9, <1>3 DEF BeginPreload, CommitPreload, FailPreload, StopStartup, StartServing, DropHandle,
     MonitorStep, SnapshotSlots, SnapshotValues, SnapshotDropped, WorkerDies, vars, registryVars
<1> QED BY <1>6, <1>7, <1>8, <1>9 DEF Next, PreloadStep, Stopped

\* What the steps do to the policy, the instances that work, the contents of
\* slots, the samples and the places of the workers.
LEMMA StepEffects ==
  ASSUME TypeOK, [Next]_vars
  PROVE  /\ policy' = policy
         /\ running' \subseteq running \/ \E t \in Workers : LoadSucceeds(t)
         /\ \/ RunningAmong(running) \/ val' = val
            \/ \E t \in Workers : AcquireLoad(t) \/ LoadSucceeds(t)
         /\ \A m \in Monitors : sampled'[m] \subseteq sampled[m] \/ SnapshotValues(m)
         /\ \E u \in Workers : \A t \in Workers : t # u /\ pc'[t] = "dropping" => pc[t] = "dropping"
<1> USE DEF Next, vars, WorkerStep, MonitorStep, PreloadStep, LookupHit, LookupAdmit, LookupEvict,
     LookupRefuse, ReturnRefusal, DropEvicted, AcquirePoisoned, AcquireValid, AcquireLoad,
     LoadSucceeds, LoadFails, LoadPanics, Finish, Fail, Discard, WorkerDies, RemoveDead, Stopped,
     SnapshotSlots, SnapshotValues, SnapshotDropped, BeginPreload, CommitPreload, FailPreload,
     StopStartup, StartServing, ReleaseCapture, DropHandle
<1>1. policy' = policy
  OBVIOUS
<1>2. running' \subseteq running \/ \E t \in Workers : LoadSucceeds(t)
  BY DEF RunningAmong
<1>3. \/ RunningAmong(running) \/ val' = val
      \/ \E t \in Workers : AcquireLoad(t) \/ LoadSucceeds(t)
  OBVIOUS
<1>4. \A m \in Monitors : sampled'[m] \subseteq sampled[m] \/ SnapshotValues(m)
  BY DEF TypeOK, monitorVars
<1>5. \E u \in Workers : \A t \in Workers : t # u /\ pc'[t] = "dropping" => pc[t] = "dropping"
  <2>1. ASSUME NEW u \in Workers, WorkerStep(u) PROVE  \E v \in Workers : \A t \in Workers : t # v /\ pc'[t] = "dropping" => pc[t] = "dropping"
    <3>1. \A t \in Workers : t # u => pc'[t] = pc[t]
      BY <2>1 DEF TypeOK, Hold, Return
    <3> QED BY <3>1
  <2>2. ASSUME ~\E u \in Workers : WorkerStep(u) PROVE  \E v \in Workers : \A t \in Workers : t # v /\ pc'[t] = "dropping" => pc[t] = "dropping"
    <3>1. \A t \in Workers : pc'[t] = "dropping" => pc[t] = "dropping"
      <4> HIDE DEF WorkerStep
      <4> QED BY <2>2 DEF TypeOK, threadVars
    <3> QED BY <3>1 DEF Workers
  <2> QED BY <2>1, <2>2
<1> QED BY <1>1, <1>2, <1>3, <1>4, <1>5

\* ... whoever gets hold of a working instance finds it at home, ...
LEMMA SharedAreHome ==
  ASSUME IInv, IInv', ResidenceOK, [Next]_vars, policy'.discards = "nothing",
         NEW i \in running', ValueShared(i)'
  PROVE  AtHome(i)'
<1> USE NamesAssumption
<1>1. policy' = policy
  BY StepEffects DEF IInv
<1>2. CASE \E t \in Workers : inst'[t] = i
  <2>1. PICK t \in Workers : inst'[t] = i
    BY <1>2
  <2>2. key'[t] \in Registered' /\ val'[slotOf'[key'[t]]] = i
    BY <1>1, <2>1 DEF IInv, SharedUnlessDiscarded, ActiveInstanceStaysShared
  <2> DEFINE s == slotOf'[key'[t]]
  <2>3. s \in Slots /\ s[1] = key'[t]
    BY <2>2 DEF IInv, TypeOK, SlotsOK, Registered
  <2>4. slotOf'[s[1]] = s /\ val'[s] = i
    BY <2>2, <2>3
  <2> HIDE DEF s
  <2> QED BY <2>3, <2>4 DEF AtHome
<1>3. CASE \E m \in Monitors : i \in sampled'[m]
  <2>1. PICK m \in Monitors : i \in sampled'[m]
    BY <1>3
  <2>2. CASE i \in sampled[m] /\ i \in running
    <3>1. ValueShared(i)
      BY <2>2 DEF ValueShared
    <3> QED BY <1>1, <2>2, <3>1, SharedStayHome DEF ResidenceOK
  <2>3. CASE SnapshotValues(m)
    <3>1. PICK s \in watched[m] : val[s] = i
      BY <2>1, <2>3 DEF SnapshotValues, IInv, TypeOK
    <3>2. s \in Slots /\ val'[s] = i /\ slotOf'[s[1]] = s
      BY <2>3, <3>1 DEF ResidenceOK, SnapshotValues, registryVars, IInv, TypeOK
    <3> QED BY <3>2 DEF AtHome
  <2>4. CASE ~SnapshotValues(m)
    <3>1. i \in sampled[m]
      BY <2>1, <2>4, StepEffects DEF IInv
    <3>2. CASE i \in running
      BY <2>2, <3>1, <3>2
    <3>3. CASE i \notin running
      <4>1. ASSUME NEW t \in Workers, LoadSucceeds(t) PROVE FALSE
        <5>1. PICK j \in FreeInstances(key[t]) : running' = running \cup {j}
          BY <4>1 DEF LoadSucceeds, Least
        <5>2. ~ValueShared(j)
          BY DEF FreeInstances, Referenced
        <5> QED BY <3>1, <3>3, <5>1, <5>2 DEF ValueShared
      <4>2. running' \subseteq running
        BY <4>1, StepEffects DEF IInv
      <4> QED BY <3>3, <4>2
    <3> QED BY <3>2, <3>3
  <2> QED BY <2>3, <2>4
<1> QED BY <1>2, <1>3 DEF ValueShared

\* ... and an instance that leaves its slot does not work any more.
LEMMA WorkingStayInSlots ==
  ASSUME IInv, IInv', ResidenceOK, [Next]_vars, policy'.discards = "nothing", NEW i \in running'
  PROVE  \E s \in Slots : val'[s] = i
<1> USE NamesAssumption
<1>1. CASE ValueShared(i)'
  BY <1>1, SharedAreHome DEF AtHome
<1>2. CASE ~ValueShared(i)' /\ Referenced(i)'
  BY <1>2 DEF Referenced
<1>3. CASE ~Referenced(i)'
  <2>1. policy' = policy /\ running' \subseteq running /\ ~RunningAmong(running)
    <3>1. ASSUME NEW t \in Workers, LoadSucceeds(t) PROVE FALSE
      <4>1. PICK j \in FreeInstances(key[t]) : running' = running \cup {j} /\ val' = [val EXCEPT ![slot[t]] = j]
        BY <3>1 DEF LoadSucceeds, Least
      <4>2. slot[t] \in Slots
        BY <3>1 DEF LoadSucceeds, IInv, TypeOK, PlacesOK
      <4>3. i # j
        BY <1>3, <4>1, <4>2 DEF Referenced, IInv, TypeOK
      <4>4. i \in running /\ \A s \in Slots : val'[s] # i
        BY <1>3, <4>1, <4>3 DEF Referenced
      <4>5. PICK s \in Slots : val[s] = i
        BY <3>1, <4>4 DEF ResidenceOK, LoadSucceeds
      <4>6. s # slot[t]
        BY <3>1, <4>4, <4>5 DEF LoadSucceeds, IInv, TypeOK, LoadersOK, Instances
      <4> QED BY <4>1, <4>4, <4>5, <4>6 DEF IInv, TypeOK
    <3>2. ~RunningAmong(running)
      BY <1>3 DEF RunningAmong
    <3> QED BY <3>1, <3>2, StepEffects DEF IInv
  <2>2. PICK s \in Slots : val[s] = i
    BY <2>1 DEF ResidenceOK
  <2>3. val'[s] = val[s]
    <3>1. ASSUME NEW t \in Workers, AcquireLoad(t) PROVE val'[s] = val[s]
      BY <2>1, <2>2, <3>1 DEF AcquireLoad, IInv, TypeOK
    <3>2. ASSUME NEW t \in Workers, LoadSucceeds(t) PROVE val'[s] = val[s]
      BY <2>1, <2>2, <3>2 DEF LoadSucceeds, IInv, TypeOK, LoadersOK, Instances
    <3> QED BY <2>1, <3>1, <3>2, StepEffects DEF IInv
  <2> QED BY <2>2, <2>3
<1> QED BY <1>1, <1>2, <1>3

LEMMA StepKeepsResidence == IInv /\ IInv' /\ ResidenceOK /\ [Next]_vars => ResidenceOK'
<1> SUFFICES ASSUME IInv, IInv', ResidenceOK, [Next]_vars PROVE ResidenceOK'
  OBVIOUS
<1>1. \A m \in Monitors : \A s \in watched'[m] : slotOf'[s[1]] = s
  BY WatchedStay
<1>2. policy'.discards = "nothing" =>
        /\ \A i \in running' : \E s \in Slots : val'[s] = i
        /\ \A i \in running' : ValueShared(i)' => AtHome(i)'
  BY WorkingStayInSlots, SharedAreHome
<1>3. IsFiniteSet({t \in Workers : pc'[t] = "dropping"})
  <2> DEFINE D == {t \in Workers : pc[t] = "dropping"}
             E == {t \in Workers : pc'[t] = "dropping"}
  <2>1. \E u : E \subseteq D \cup {u}
    BY StepEffects DEF IInv
  <2>2. IsFiniteSet(D)
    BY DEF ResidenceOK
  <2> HIDE DEF D, E
  <2>3. IsFiniteSet(E)
    BY <2>1, <2>2, FS_AddElement, FS_Subset
  <2> QED BY <2>3 DEF E
<1> QED BY <1>1, <1>2, <1>3 DEF ResidenceOK

LEMMA ResidenceInit == Init => ResidenceOK
<1> SUFFICES ASSUME Init PROVE ResidenceOK
  OBVIOUS
<1>1. {t \in Workers : pc[t] = "dropping"} = {}
  BY DEF Init
<1> QED BY <1>1, FS_EmptySet DEF Init, ResidenceOK

LEMMA ResidenceHolds == Spec => []ResidenceOK
<1>1. Spec => []IInv /\ [][Next]_vars /\ Init
  BY InvariantHolds DEF Spec
<1> QED BY <1>1, ResidenceInit, StepKeepsResidence, PTL

\* Unless failed requests discard entries, what is resident while the server
\* serves is bounded by the capacity, the pinned slots and the entries being
\* dropped.
THEOREM ResidentIsBounded == Spec => [](policy.discards = "nothing" => ResidentBounded)
<1>1. ASSUME IInv, CapacityOK, ResidenceOK, policy.discards = "nothing", stage = "serving"
      PROVE  Cardinality(running) <= policy.capacity
                            + Cardinality({s \in Slots : pins[s] > 0})
                            + Cardinality({t \in Workers : pc[t] = "dropping"})
  <2> DEFINE O == Ordinary(Registered)
             P == {s \in Slots : pins[s] > 0}
             D == {t \in Workers : pc[t] = "dropping"}
             A == {slotOf[k] : k \in O}
             E == {evicted[t] : t \in D}
  <2>1. IsFiniteSet(O) /\ Cardinality(O) <= policy.capacity
    BY <1>1, OrdinaryFits
  <2>2. IsFiniteSet(A) /\ Cardinality(A) <= Cardinality(O)
    <3>1. [k \in O |-> slotOf[k]] \in Surjection(O, A)
      BY DEF Surjection
    <3> HIDE DEF O, A
    <3> QED BY <2>1, <3>1, FS_Surjection
  <2>3. IsFiniteSet(D)
    BY <1>1 DEF ResidenceOK
  <2>4. IsFiniteSet(E) /\ Cardinality(E) <= Cardinality(D)
    <3>1. [t \in D |-> evicted[t]] \in Surjection(D, E)
      BY DEF Surjection
    <3> HIDE DEF D, E
    <3> QED BY <2>3, <3>1, FS_Surjection
  <2>5. IsFiniteSet(P)
    <3> DEFINE C == {c.slot : c \in Captured}
    <3>1. [c \in Captured |-> c.slot] \in Surjection(Captured, C)
      BY DEF Surjection
    <3>2. IsFiniteSet(Captured)
      BY <1>1 DEF IInv, PinsOK
    <3>3. IsFiniteSet(C)
      <4> HIDE DEF C
      <4> QED BY <3>1, <3>2, FS_Surjection
    <3>4. P \subseteq C
      <4> SUFFICES ASSUME NEW s \in Slots, pins[s] > 0 PROVE \E c \in Captured : c.slot = s
        OBVIOUS
      <4> DEFINE Refs == {c \in Captured : c.slot = s}
      <4>1. pins[s] = Cardinality(Refs)
        BY <1>1 DEF IInv, PinsOK, PinsAccounted, Captured
      <4>2. Refs # {}
        BY <4>1, FS_EmptySet
      <4> QED BY <4>2
    <3> HIDE DEF C, P
    <3> QED BY <3>3, <3>4, FS_Subset
  <2>6. running \subseteq {val[s] : s \in A \cup P \cup E}
    <3> SUFFICES ASSUME NEW i \in running PROVE \E s \in A \cup P \cup E : val[s] = i
      OBVIOUS
    <3>1. PICK s \in Slots : val[s] = i
      BY <1>1 DEF ResidenceOK
    <3>2. i # NoInst /\ s # NoSlot /\ s[1] \in Keys
      BY <1>1, NamesAssumption DEF IInv, TypeOK, Slots, Instances
    <3>3. CASE slotOf[s[1]] = s
      <4>1. s[1] \in Registered
        BY <3>2, <3>3 DEF Registered
      <4>2. pins[s] \in Nat
        BY <1>1 DEF IInv, TypeOK
      <4>3. CASE pins[s] = 0
        <5>1. s[1] \in O
          BY <3>3, <4>1, <4>3 DEF Ordinary
        <5>2. s \in A
          <6> HIDE DEF O
          <6> QED BY <3>3, <5>1
        <5> QED BY <3>1, <5>2
      <4>4. CASE pins[s] > 0
        BY <3>1, <4>4
      <4> QED BY <4>2, <4>3, <4>4
    <3>4. CASE slotOf[s[1]] # s
      <4>1. PICK t \in Workers : evicted[t] = s
        BY <1>1, <3>1, <3>2, <3>4 DEF IInv, InstancesOK
      <4>2. t \in D
        BY <1>1, <3>2, <4>1 DEF IInv, PlacesOK
      <4>3. s \in E
        <5> HIDE DEF D
        <5> QED BY <4>1, <4>2
      <4> QED BY <3>1, <4>3
    <3> QED BY <3>3, <3>4
  <2>7. /\ IsFiniteSet(A \cup P \cup E)
        /\ Cardinality(A \cup P \cup E) <= Cardinality(A) + Cardinality(P) + Cardinality(E)
    <3> HIDE DEF A, P, E
    <3>1. IsFiniteSet(A \cup P) /\ IsFiniteSet(A \cap P)
      BY <2>2, <2>5, FS_Union, FS_Intersection
    <3>2. Cardinality(A \cup P) = Cardinality(A) + Cardinality(P) - Cardinality(A \cap P)
      BY <2>2, <2>5, FS_Union
    <3>3. IsFiniteSet((A \cup P) \cup E) /\ IsFiniteSet((A \cup P) \cap E)
      BY <3>1, <2>4, FS_Union, FS_Intersection
    <3>4. Cardinality((A \cup P) \cup E) = Cardinality(A \cup P) + Cardinality(E) - Cardinality((A \cup P) \cap E)
      BY <3>1, <2>4, FS_Union
    <3>5. /\ Cardinality(A) \in Nat /\ Cardinality(P) \in Nat /\ Cardinality(E) \in Nat
          /\ Cardinality(A \cap P) \in Nat /\ Cardinality((A \cup P) \cap E) \in Nat
      BY <2>2, <2>4, <2>5, <3>1, <3>3, FS_CardinalityType
    <3> QED BY <3>2, <3>3, <3>4, <3>5
  <2> DEFINE S == A \cup P \cup E
             V == {val[s] : s \in S}
  <2>8. IsFiniteSet(V) /\ Cardinality(V) <= Cardinality(S)
    <3>1. [s \in S |-> val[s]] \in Surjection(S, V)
      <4> HIDE DEF S
      <4> QED BY DEF Surjection
    <3> HIDE DEF S, V
    <3>2. IsFiniteSet(S)
      BY <2>7 DEF S
    <3> QED BY <3>1, <3>2, FS_Surjection
  <2>9. IsFiniteSet(running) /\ Cardinality(running) <= Cardinality(V)
    <3>1. running \subseteq V
      BY <2>6
    <3> HIDE DEF V
    <3> QED BY <2>8, <3>1, FS_Subset
  <2>10. Cardinality(S) <= Cardinality(A) + Cardinality(P) + Cardinality(E) /\ IsFiniteSet(S)
    BY <2>7
  <2>11. policy.capacity \in Nat
    BY <1>1, PolicyAssumption DEF IInv, TypeOK, Policy
  <2> HIDE DEF O, P, D, A, E, S, V
  <2>12. /\ Cardinality(running) \in Nat /\ Cardinality(V) \in Nat /\ Cardinality(S) \in Nat
         /\ Cardinality(O) \in Nat /\ Cardinality(P) \in Nat /\ Cardinality(D) \in Nat
         /\ Cardinality(A) \in Nat /\ Cardinality(E) \in Nat
    BY <2>1, <2>2, <2>3, <2>4, <2>5, <2>8, <2>9, <2>10, FS_CardinalityType
  <2>13. Cardinality(running) <= policy.capacity + Cardinality(P) + Cardinality(D)
    BY <2>1, <2>2, <2>4, <2>8, <2>9, <2>10, <2>11, <2>12
  <2> QED BY <2>13 DEF P, D
<1>2. IInv /\ CapacityOK /\ ResidenceOK => (policy.discards = "nothing" => ResidentBounded)
  BY <1>1 DEF ResidentBounded
<1> QED BY <1>2, InvariantHolds, CapacityHolds, ResidenceHolds, PTL

-----------------------------------------------------------------------------
(* Refusals.  The registry's order ranks its entries, so that among those  *)
(* that may be evicted there is an oldest one.                             *)

OrderOK ==
  /\ \A j, k : <<j, k>> \in older => j \in Registered /\ k \in Registered /\ j # k
  /\ \A j, k \in Registered : j = k \/ <<j, k>> \in older \/ <<k, j>> \in older
  /\ \A i, j, k : <<i, j>> \in older /\ <<j, k>> \in older => <<i, k>> \in older

PoisonOK == ~policy.panics => poisoned = {}

RefusalOK == OrderOK /\ PoisonOK

\* A finite set of entries that is not empty has an oldest one.
LEMMA OldestExists ==
  ASSUME OrderOK, NEW K \in SUBSET Registered, IsFiniteSet(K), K # {}
  PROVE  Oldest(K) # {}
<1> DEFINE Before(k) == {j \in K : <<j, k>> \in older}
           B == {Before(k) : k \in K}
<1>1. PICK b \in B : \A c \in B : c \subseteq b => c = b
  <2>1. IsWellFoundedOn(StrictSubsetOrdering(K), SUBSET K)
    BY FS_StrictSubsetOrderingWellFounded, FS_FiniteSubsetsOfFinite
  <2>2. B \subseteq SUBSET K /\ B # {}
    OBVIOUS
  <2> HIDE DEF B
  <2>3. PICK b \in B : \A c \in B : ~(<<c, b>> \in StrictSubsetOrdering(K))
    BY <2>1, <2>2, WFMin
  <2> QED BY <2>2, <2>3 DEF StrictSubsetOrdering
<1>2. PICK k \in K : b = Before(k)
  OBVIOUS
<1>3. ASSUME NEW j \in Before(k) PROVE FALSE
  <2>1. Before(j) \subseteq Before(k) /\ j \notin Before(j)
    BY <1>3 DEF OrderOK
  <2> QED BY <1>1, <1>2, <1>3, <2>1
<1>4. \A j \in K : j = k \/ <<k, j>> \in older
  BY <1>3 DEF OrderOK
<1> QED BY <1>4 DEF Oldest

\* Publishing puts an entry behind all others.
LEMMA RepublishKeepsOrder ==
  ASSUME TypeOK, OrderOK, NEW k \in Keys, NEW R \in SUBSET Registered, NEW s, s # NoSlot,
         Republish(R, k, s)
  PROVE  OrderOK'
<1> DEFINE Old == {p \in older : {p[1], p[2]} \cap (R \cup {k}) = {}}
           Kept == Registered \ (R \cup {k})
<1>1. Registered' = Kept \cup {k} /\ older' = Old \cup (Kept \X {k})
  BY DEF Republish, Registered, TypeOK
<1>2. ASSUME NEW i, NEW j
      PROVE  <<i, j>> \in Old <=> <<i, j>> \in older /\ i \in Kept /\ j \in Kept
  <2> DEFINE p == <<i, j>>
  <2>1. p[1] = i /\ p[2] = j
    OBVIOUS
  <2>2. {p[1], p[2]} \cap (R \cup {k}) = {} <=> i \notin R \cup {k} /\ j \notin R \cup {k}
    BY <2>1
  <2>3. p \in Old <=> p \in older /\ {p[1], p[2]} \cap (R \cup {k}) = {}
    OBVIOUS
  <2>4. p \in older => i \in Registered /\ j \in Registered
    BY DEF OrderOK
  <2> HIDE DEF Old
  <2> QED BY <2>2, <2>3, <2>4
<1>3. k \notin Kept
  OBVIOUS
<1>4. \A i, j : <<i, j>> \in older' <=> \/ <<i, j>> \in older /\ i \in Kept /\ j \in Kept
                                        \/ i \in Kept /\ j = k
  BY <1>1, <1>2
<1>5. Kept \subseteq Registered
  OBVIOUS
<1> HIDE DEF Old, Kept
<1>6. \A i, j : <<i, j>> \in older' => i \in Registered' /\ j \in Registered' /\ i # j
  BY <1>1, <1>3, <1>4 DEF OrderOK
<1>7. \A i, j \in Registered' : i = j \/ <<i, j>> \in older' \/ <<j, i>> \in older'
  BY <1>1, <1>3, <1>4, <1>5 DEF OrderOK
<1>8. \A h, i, j : <<h, i>> \in older' /\ <<i, j>> \in older' => <<h, j>> \in older'
  BY <1>3, <1>4 DEF OrderOK
<1> QED BY <1>6, <1>7, <1>8 DEF OrderOK

LEMMA UnregisterKeepsOrder ==
  ASSUME TypeOK, OrderOK, NEW R, Unregister(R)
  PROVE  OrderOK'
<1>1. Registered' = Registered \ R
  BY DEF Unregister, Registered, TypeOK
<1>2. \A i, j : <<i, j>> \in older' <=> <<i, j>> \in older /\ i \notin R /\ j \notin R
  BY DEF Unregister
<1> QED BY <1>1, <1>2 DEF OrderOK

LEMMA StepKeepsOrder == IInv /\ OrderOK /\ [Next]_vars => OrderOK'
<1> SUFFICES ASSUME IInv, OrderOK, [Next]_vars PROVE OrderOK'
  OBVIOUS
<1>1. ASSUME UNCHANGED registryVars PROVE OrderOK'
  BY <1>1 DEF registryVars, OrderOK, Registered
<1>2. ASSUME NEW t \in Workers, NEW k \in Keys, LookupHit(t, k) PROVE OrderOK'
  <2>1. Republish({}, k, slotOf[k]) /\ slotOf[k] # NoSlot
    BY <1>2 DEF LookupHit, Registered
  <2> QED BY <2>1, RepublishKeepsOrder DEF IInv
<1>3. ASSUME NEW t \in Workers, NEW k \in Keys, LookupAdmit(t, k) PROVE OrderOK'
  <2>1. PICK s \in FreeSlots(k) : Republish(Purged, k, s)
    BY <1>3 DEF LookupAdmit, Least
  <2>2. s # NoSlot /\ Purged \in SUBSET Registered
    BY NamesAssumption DEF FreeSlots, Slots, Purged
  <2> QED BY <2>1, <2>2, RepublishKeepsOrder DEF IInv
<1>4. ASSUME NEW t \in Workers, NEW k \in Keys, LookupEvict(t, k) PROVE OrderOK'
  <2>1. PICK v \in Victims, s \in FreeSlots(k) : Republish(Purged \cup {v}, k, s)
    BY <1>4 DEF LookupEvict, Least
  <2>2. s # NoSlot /\ Purged \cup {v} \in SUBSET Registered
    BY NamesAssumption DEF FreeSlots, Slots, Purged, Victims, Oldest
  <2> QED BY <2>1, <2>2, RepublishKeepsOrder DEF IInv
<1>5. ASSUME NEW t \in Workers, WorkerStep(t) PROVE OrderOK'
  <2>1. ASSUME (\E k \in Keys : LookupRefuse(t, k)) \/ Discard(t) PROVE OrderOK'
    BY <2>1, UnregisterKeepsOrder DEF IInv, LookupRefuse, Discard, RemoveIf
  <2>2. CASE \/ ReturnRefusal(t) \/ DropEvicted(t) \/ AcquirePoisoned(t) \/ AcquireValid(t)
             \/ AcquireLoad(t) \/ LoadSucceeds(t) \/ LoadFails(t) \/ LoadPanics(t) \/ Finish(t) \/ Fail(t)
    BY <2>2, <1>1 DEF ReturnRefusal, DropEvicted, AcquirePoisoned, AcquireValid, AcquireLoad, LoadSucceeds,
       LoadFails, LoadPanics, Finish, Fail
  <2> QED BY <1>2, <1>3, <1>4, <1>5, <2>1, <2>2 DEF WorkerStep
<1>6. ASSUME RemoveDead PROVE OrderOK'
  BY <1>6, UnregisterKeepsOrder DEF IInv, RemoveDead, RemoveIf
<1>7. ASSUME PreloadStep \/ UNCHANGED vars \/ (\E i \in Instances : WorkerDies(i))
             \/ (\E m \in Monitors : MonitorStep(m))
      PROVE  OrderOK'
  BY <1>7, <1>1 DEF PreloadStep, BeginPreload, CommitPreload, FailPreload, StopStartup, StartServing,
     ReleaseCapture, DropHandle, WorkerDies, vars, MonitorStep, SnapshotSlots, SnapshotValues, SnapshotDropped
<1> QED BY <1>5, <1>6, <1>7 DEF Next, Stopped

\* Only the panic of a loader poisons a slot.
LEMMA StepKeepsPoison == PoisonOK /\ [Next]_vars => PoisonOK'
BY DEF PoisonOK, Next, vars, WorkerStep, MonitorStep, PreloadStep, LookupHit, LookupAdmit, LookupEvict,
   LookupRefuse, ReturnRefusal, DropEvicted, AcquirePoisoned, AcquireValid, AcquireLoad,
   LoadSucceeds, LoadFails, LoadPanics, Finish, Fail, Discard, WorkerDies, RemoveDead, Stopped,
   SnapshotSlots, SnapshotValues, SnapshotDropped, BeginPreload, CommitPreload, FailPreload,
   StopStartup, StartServing, ReleaseCapture, DropHandle

LEMMA RefusalHolds == Spec => []RefusalOK
<1>1. Init => RefusalOK
  BY DEF Init, RefusalOK, OrderOK, PoisonOK, Registered
<1>2. IInv /\ RefusalOK /\ [Next]_vars => RefusalOK'
  BY StepKeepsOrder, StepKeepsPoison DEF RefusalOK
<1> QED BY <1>1, <1>2, InvariantHolds, PTL DEF Spec

\* Only a miss on a full cache refuses.
LEMMA RefusalsAreMisses ==
  ASSUME TypeOK, [Next]_vars, NEW t \in Workers, pc[t] # "refused", pc'[t] = "refused"
  PROVE  \E k \in Keys : LookupRefuse(t, k)
<1>1. ASSUME NEW u \in Workers, WorkerStep(u) PROVE \E k \in Keys : LookupRefuse(t, k)
  BY <1>1 DEF TypeOK, WorkerStep, LookupHit, LookupAdmit, LookupEvict,
   LookupRefuse, ReturnRefusal, DropEvicted, AcquirePoisoned, AcquireValid, AcquireLoad,
   LoadSucceeds, LoadFails, LoadPanics, Finish, Fail, Discard, Hold, Return
<1>2. ASSUME ~\E u \in Workers : WorkerStep(u) PROVE FALSE
  <2> HIDE DEF WorkerStep
  <2> QED
    BY <1>2 DEF TypeOK, Next, vars, threadVars, MonitorStep, PreloadStep, WorkerDies, RemoveDead, Stopped,
     SnapshotSlots, SnapshotValues, SnapshotDropped, BeginPreload, CommitPreload, FailPreload,
     StopStartup, StartServing, ReleaseCapture, DropHandle
<1> QED BY <1>1, <1>2

\* Where no loader panics, a request is refused for capacity only while each
\* ordinary entry is being initialised or used, or keeps a retained runtime.
THEOREM RefusalsAreJustified ==
  (\A p \in Policies : ~p.panics) => (Spec => RefusedOnlyWhenTaken)
<1> SUFFICES ASSUME \A p \in Policies : ~p.panics PROVE Spec => RefusedOnlyWhenTaken
  OBVIOUS
<1>1. ASSUME IInv, CapacityOK, RefusalOK, [Next]_vars
      PROVE  (\E t \in Workers : pc[t] # "refused" /\ pc'[t] = "refused")
               => /\ Full(Registered)'
                  /\ \A k \in Ordinary(Registered)' :
                       Busy(k)' \/ (~policy.evictIdle /\ val[slotOf'[k]] # NoInst)
  <2> SUFFICES ASSUME NEW t \in Workers, NEW n \in Keys, LookupRefuse(t, n)
               PROVE  /\ Full(Registered)'
                      /\ \A k \in Ordinary(Registered)' :
                           Busy(k)' \/ (~policy.evictIdle /\ val[slotOf'[k]] # NoInst)
    BY <1>1, RefusalsAreMisses DEF IInv
  <2>1. /\ Full(Registered \ Purged) /\ (policy.evictIdle => Victims = {}) /\ Unregister(Purged)
        /\ UNCHANGED <<policy, pins, val, slot, inst, captured, handles, watched, sampled>>
    BY NamesAssumption DEF LookupRefuse, MayAsk, preloadVars, monitorVars
  <2>2. /\ Registered' = Registered \ Purged
        /\ \A k \in Registered' : slotOf'[k] = slotOf[k]
    BY <1>1, <2>1 DEF Unregister, Registered, IInv, TypeOK
  <2>3. Ordinary(Registered)' = Ordinary(Registered \ Purged)
    BY <2>1, <2>2 DEF Ordinary
  <2>4. Full(Registered)'
    BY <2>1, <2>3 DEF Full
  <2>5. ASSUME NEW k \in Ordinary(Registered)'
        PROVE  Busy(k)' \/ (~policy.evictIdle /\ val[slotOf'[k]] # NoInst)
    <3>1. k \in Registered \ Purged /\ slotOf'[k] = slotOf[k] /\ slotOf[k] \notin poisoned
      <4>1. poisoned = {}
        BY <1>1 DEF RefusalOK, PoisonOK, IInv, TypeOK
      <4> QED BY <2>2, <2>5, <4>1 DEF Ordinary
    <3>2. Busy(k)' <=> Busy(k)
      BY <2>1, <3>1 DEF Busy, SlotShared, ValueShared
    <3>3. CASE policy.evictIdle
      <4> DEFINE K == {j \in Registered \ Purged : Evictable(slotOf[j])}
      <4>1. Oldest(K) = {}
        BY <2>1, <3>3 DEF Victims
      <4>2. IsFiniteSet(K) /\ K \in SUBSET Registered
        BY <1>1, FS_Subset DEF CapacityOK
      <4>3. K = {}
        <5> HIDE DEF K
        <5> QED BY <1>1, <4>1, <4>2, OldestExists DEF RefusalOK
      <4>4. ~Evictable(slotOf[k])
        BY <3>1, <4>3
      <4> QED BY <3>1, <3>2, <4>4 DEF Evictable, Busy
    <3>4. CASE ~policy.evictIdle
      BY <3>1, <3>2, <3>4 DEF Purged, Purgeable, Busy
    <3> QED BY <3>3, <3>4
  <2> QED BY <2>4, <2>5
<1>2. Spec => [][Next]_vars
  BY DEF Spec
<1> QED BY <1>1, <1>2, InvariantHolds, CapacityHolds, RefusalHolds, PTL DEF RefusedOnlyWhenTaken
=============================================================================
