------------------------- MODULE RuntimeRoutingProofs -------------------------
(***************************************************************************)
(* What the router guarantees for every set of adapters, workers and       *)
(* states and every bound.  An operation is described by what its record   *)
(* alone must satisfy (ShapeOK) and by what it says of the tables and of   *)
(* the states that exist (LinkOK); the counts follow by counting one       *)
(* worker or one state at a time.                                          *)
(***************************************************************************)
EXTENDS RuntimeRouting, FiniteSetTheorems, SequenceTheorems, TLAPS

CreatingKinds == {"prefill", "restore", "derive"}

\* What an operation's place implies about the rest of its record.
ShapeOK(o) ==
  /\ o.res # "none" <=> o.pc \in {"reserved", "produced"}
  /\ o.pc \notin {"idle", "selecting"} => o.adapter \in Adapters
  /\ o.pc \in {"bound", "planned", "described", "reserved", "produced"} => o.inst \in Instances
  /\ o.state # NoState <=> o.pc \in {"produced", "rejected"}
  /\ o.state # NoState => MakerOf(o.state) = o.adapter
  /\ o.src # NoState <=> o.kind \in {"derive", "release"}
  /\ o.pc \in {"releasing", "released"} <=> o.kind = "release"
  /\ o.res # "none" => o.kind \in CreatingKinds
  /\ o.pc \in {"ready", "described", "rejected"} => o.kind \in CreatingKinds
  /\ o.pc \in {"bound", "planned"} => o.kind = "restore"
  /\ o.pc \in {"selecting", "resolved", "bound"} =>
       o.model \in Models /\ o.kind \in {"metadata", "compatibility", "restore"}
  /\ o.pc = "resolved" => o.kind \in {"compatibility", "restore"}

\* What an operation knows about the tables and the states.
LinkOK(o) ==
  /\ o.res = "existing" => owner[o.inst] = o.adapter
  /\ o.src # NoState => o.src \in held /\ o.adapter = MakerOf(o.src)
  /\ o.state # NoState => o.state \notin held

\* Two operations create different states, and nobody works on a state that
\* another operation releases.
Exclusive ==
  \A v, w \in Workers : v # w =>
    /\ op[v].state # NoState => op[v].state # op[w].state
    /\ op[v].kind = "release" => op[v].src # op[w].src

CountsOK ==
  /\ pending = Cardinality(ReservedNew)
  /\ \A i \in Instances : live[i] = Cardinality(HeldBy(i)) + Cardinality(ReservedOn(i))

OwnersOK ==
  /\ \A i \in Instances : owner[i] = NoAdapter <=> live[i] = 0
  /\ \A s \in held : owner[InstanceOf(s)] = MakerOf(s)

IInv ==
  /\ TypeOK
  /\ IsFiniteSet(held)
  /\ \A w \in Workers : ShapeOK(op[w]) /\ LinkOK(op[w])
  /\ Exclusive
  /\ CountsOK
  /\ OwnersOK

-----------------------------------------------------------------------------
(* Counting *)

LEMMA AddOne ==
  ASSUME NEW S, IsFiniteSet(S), NEW x, x \notin S
  PROVE  IsFiniteSet(S \cup {x}) /\ Cardinality(S \cup {x}) = Cardinality(S) + 1
BY FS_AddElement

LEMMA RemoveOne ==
  ASSUME NEW S, IsFiniteSet(S), NEW x \in S
  PROVE  /\ IsFiniteSet(S \ {x}) /\ Cardinality(S \ {x}) = Cardinality(S) - 1
         /\ Cardinality(S) \in Nat /\ Cardinality(S) >= 1
<1>1. Cardinality(S \ {x}) \in Nat /\ Cardinality(S) \in Nat /\ IsFiniteSet(S \ {x})
  BY FS_RemoveElement, FS_CardinalityType
<1>2. Cardinality(S \ {x}) = Cardinality(S) - 1
  BY FS_RemoveElement
<1> QED BY <1>1, <1>2

\* The sets the counts range over are finite.
LEMMA FiniteSets ==
  ASSUME TypeOK, IsFiniteSet(held)
  PROVE  /\ IsFiniteSet(ReservedNew) /\ Cardinality(ReservedNew) \in Nat
         /\ \A i \in Instances :
              /\ IsFiniteSet(HeldBy(i)) /\ Cardinality(HeldBy(i)) \in Nat
              /\ IsFiniteSet(ReservedOn(i)) /\ Cardinality(ReservedOn(i)) \in Nat
<1>1. IsFiniteSet(Workers) BY NamesAssumption
<1>2. ReservedNew \subseteq Workers BY DEF ReservedNew
<1>3. IsFiniteSet(ReservedNew) BY <1>1, <1>2, FS_Subset
<1>4. ASSUME NEW i \in Instances
      PROVE  /\ IsFiniteSet(HeldBy(i)) /\ Cardinality(HeldBy(i)) \in Nat
             /\ IsFiniteSet(ReservedOn(i)) /\ Cardinality(ReservedOn(i)) \in Nat
  <2>1. HeldBy(i) \subseteq held /\ ReservedOn(i) \subseteq Workers
    BY DEF HeldBy, ReservedOn
  <2>2. IsFiniteSet(HeldBy(i)) /\ IsFiniteSet(ReservedOn(i))
    BY <1>1, <2>1, FS_Subset
  <2> QED BY <2>2, FS_CardinalityType
<1> QED BY <1>3, <1>4, FS_CardinalityType

\* A routed instance has a live state; a held state or a place makes it routed.
LEMMA LivePositive ==
  ASSUME IInv, NEW i \in Instances
  PROVE  /\ owner[i] # NoAdapter => live[i] > 0
         /\ \A s \in held : InstanceOf(s) = i => live[i] > 0
         /\ \A w \in Workers : op[w].res = "existing" /\ op[w].inst = i => live[i] > 0
         /\ \A s \in held, w \in Workers :
              /\ InstanceOf(s) = i /\ op[w].res = "existing" /\ op[w].inst = i
              => live[i] > 1
         /\ \A s, t \in held : s # t /\ InstanceOf(s) = i /\ InstanceOf(t) = i => live[i] > 1
         /\ \A v, w \in Workers :
              v # w /\ op[v].res = "existing" /\ op[v].inst = i
                    /\ op[w].res = "existing" /\ op[w].inst = i => live[i] > 1
<1> USE DEF IInv
<1>0. /\ live[i] \in Nat /\ live[i] = Cardinality(HeldBy(i)) + Cardinality(ReservedOn(i))
      /\ IsFiniteSet(HeldBy(i)) /\ Cardinality(HeldBy(i)) \in Nat
      /\ IsFiniteSet(ReservedOn(i)) /\ Cardinality(ReservedOn(i)) \in Nat
  BY FiniteSets DEF TypeOK, CountsOK
<1>1. \A s \in held : InstanceOf(s) = i => s \in HeldBy(i)
  BY DEF HeldBy
<1>2. \A w \in Workers : op[w].res = "existing" /\ op[w].inst = i => w \in ReservedOn(i)
  BY DEF ReservedOn
<1>3. \A s \in HeldBy(i) : Cardinality(HeldBy(i)) >= 1
  BY <1>0, RemoveOne
<1>4. \A w \in ReservedOn(i) : Cardinality(ReservedOn(i)) >= 1
  BY <1>0, RemoveOne
<1>5. \A s, t \in HeldBy(i) : s # t => Cardinality(HeldBy(i)) >= 2
  <2> SUFFICES ASSUME NEW s \in HeldBy(i), NEW t \in HeldBy(i), s # t
               PROVE  Cardinality(HeldBy(i)) >= 2
    OBVIOUS
  <2>1. /\ Cardinality(HeldBy(i) \ {s}) = Cardinality(HeldBy(i)) - 1
        /\ IsFiniteSet(HeldBy(i) \ {s})
    BY <1>0, RemoveOne
  <2>2. Cardinality(HeldBy(i) \ {s}) >= 1
    BY <2>1, RemoveOne
  <2> QED BY <1>0, <2>1, <2>2
<1>6. \A v, w \in ReservedOn(i) : v # w => Cardinality(ReservedOn(i)) >= 2
  <2> SUFFICES ASSUME NEW v \in ReservedOn(i), NEW w \in ReservedOn(i), v # w
               PROVE  Cardinality(ReservedOn(i)) >= 2
    OBVIOUS
  <2>1. /\ Cardinality(ReservedOn(i) \ {v}) = Cardinality(ReservedOn(i)) - 1
        /\ IsFiniteSet(ReservedOn(i) \ {v})
    BY <1>0, RemoveOne
  <2>2. Cardinality(ReservedOn(i) \ {v}) >= 1
    BY <2>1, RemoveOne
  <2> QED BY <1>0, <2>1, <2>2
<1>7. owner[i] # NoAdapter => live[i] > 0
  BY <1>0 DEF OwnersOK
<1> QED BY <1>0, <1>1, <1>2, <1>3, <1>4, <1>5, <1>6, <1>7

-----------------------------------------------------------------------------
(* One operation advances *)

LEMMA IdleShape ==
  ASSUME TRUE
  PROVE  /\ Idle \in Operation /\ ShapeOK(Idle)
         /\ Idle.res = "none" /\ Idle.src = NoState /\ Idle.state = NoState
         /\ Idle.kind = "none" /\ Idle.adapter = NoAdapter
BY DEF Idle, Operation, ShapeOK, Places, Kinds, CreatingKinds

LEMMA BecomeFacts ==
  ASSUME TypeOK, NEW w \in Workers, NEW o \in Operation, Become(w, o)
  PROVE  /\ op' \in [Workers -> Operation]
         /\ op'[w] = o
         /\ \A v \in Workers \ {w} : op'[v] = op[v]
         /\ ReservedNew' = IF o.res = "new" THEN ReservedNew \cup {w} ELSE ReservedNew \ {w}
         /\ \A i : ReservedOn(i)' = IF o.res = "existing" /\ o.inst = i
                                    THEN ReservedOn(i) \cup {w} ELSE ReservedOn(i) \ {w}
<1>1. /\ op' \in [Workers -> Operation]
      /\ op'[w] = o
      /\ \A v \in Workers \ {w} : op'[v] = op[v]
  BY DEF Become, TypeOK
<1>2. ReservedNew' = IF o.res = "new" THEN ReservedNew \cup {w} ELSE ReservedNew \ {w}
  BY <1>1 DEF ReservedNew
<1>3. ASSUME NEW i
      PROVE  ReservedOn(i)' = IF o.res = "existing" /\ o.inst = i
                              THEN ReservedOn(i) \cup {w} ELSE ReservedOn(i) \ {w}
  BY <1>1 DEF ReservedOn
<1> QED BY <1>1, <1>2, <1>3

\* The parts of the invariant that speak of one worker's operation, after a step of
\* worker w that leaves what the others rely on.
LEMMA OperationsOK ==
  ASSUME IInv, NEW w \in Workers, NEW o \in Operation, Become(w, o),
         ShapeOK(o), LinkOK(o)',
         \A v \in Workers \ {w} : LinkOK(op[v])',
         \A v \in Workers \ {w} : o.state # NoState => op[v].state # o.state,
         \A v \in Workers \ {w} : o.kind = "release" \/ op[v].kind = "release"
                                 => op[v].src # o.src
  PROVE  (\A v \in Workers : ShapeOK(op[v]) /\ LinkOK(op[v]))' /\ Exclusive'
<1>1. op'[w] = o /\ \A v \in Workers \ {w} : op'[v] = op[v]
  BY BecomeFacts DEF IInv
<1>2. \A v \in Workers : ShapeOK(op'[v])
  BY <1>1 DEF IInv
<1>3. ASSUME NEW v \in Workers PROVE LinkOK(op[v])'
  <2>1. CASE v = w BY <1>1, <2>1 DEF LinkOK
  <2>2. CASE v # w
    <3>1. LinkOK(op[v])' BY <2>2
    <3> QED BY <1>1, <2>2, <3>1 DEF LinkOK
  <2> QED BY <2>1, <2>2
<1>4. Exclusive'
  BY <1>1 DEF Exclusive, IInv
<1>5. \A v \in Workers : ShapeOK(op[v])'
  BY <1>2 DEF ShapeOK
<1> QED BY <1>3, <1>4, <1>5

\* A step that neither counts nor creates: it keeps the tables' types and moves one
\* operation that holds no place.
LEMMA LocalStep ==
  ASSUME IInv, NEW w \in Workers, NEW o \in Operation, Become(w, o),
         UNCHANGED <<counts, held>>,
         models' \in Seq(Route), compat' \in Seq(Route), UNCHANGED process,
         op[w].res = "none", o.res = "none", o.state = NoState, ShapeOK(o),
         o.src # NoState => o.src \in held /\ o.adapter = MakerOf(o.src),
         \A v \in Workers \ {w} : o.kind = "release" \/ op[v].kind = "release"
                                 => op[v].src # o.src
  PROVE  IInv'
<1> USE DEF IInv
<1>1. UNCHANGED <<owner, live, pending, held>> BY DEF counts
<1>2. TypeOK' BY <1>1, BecomeFacts DEF TypeOK
<1>3. LinkOK(o)' BY <1>1 DEF LinkOK
<1>4. \A v \in Workers \ {w} : LinkOK(op[v])' BY <1>1, BecomeFacts DEF LinkOK
<1>5. (\A v \in Workers : ShapeOK(op[v]) /\ LinkOK(op[v]))' /\ Exclusive'
  BY <1>3, <1>4, OperationsOK
<1>6. ReservedNew' = ReservedNew /\ \A i : ReservedOn(i)' = ReservedOn(i)
  <2>1. w \notin ReservedNew /\ \A i : w \notin ReservedOn(i)
    BY DEF ReservedNew, ReservedOn
  <2>2. o.res # "new" /\ o.res # "existing" OBVIOUS
  <2>3. /\ ReservedNew' = ReservedNew \ {w} /\ \A i : ReservedOn(i)' = ReservedOn(i) \ {w}
    BY <2>2, BecomeFacts
  <2> QED BY <2>1, <2>3
<1>7. \A i : HeldBy(i)' = HeldBy(i) BY <1>1 DEF HeldBy
<1>8. CountsOK' BY <1>1, <1>6, <1>7 DEF CountsOK
<1>9. OwnersOK' BY <1>1 DEF OwnersOK
<1>10. IsFiniteSet(held)' BY <1>1
<1> QED BY <1>2, <1>5, <1>8, <1>9, <1>10

-----------------------------------------------------------------------------
(* The route tables *)

LEMMA FoundRoute ==
  ASSUME NEW t \in Seq(Route), NEW m \in Models, Routes(t, m)
  PROVE  /\ Position(t, m) \in 1..Len(t) /\ Found(t, m) \in Route
         /\ Found(t, m).adapter \in Adapters
<1>1. Position(t, m) \in Positions(t, m) BY DEF Position, Routes
<1>2. Position(t, m) \in 1..Len(t) BY <1>1 DEF Positions
<1>3. Found(t, m) \in Route BY <1>2 DEF Found
<1> QED BY <1>2, <1>3 DEF Route

LEMMA TablesTyped ==
  ASSUME NEW t \in Seq(Route), NEW m \in Models, NEW a \in Adapters, NEW max \in Nat \ {0}
  PROVE  /\ Without(t, m) \in Seq(Route)
         /\ Routes(t, m) => Touch(t, m) \in Seq(Route)
         /\ PushBounded(t, [model |-> m, adapter |-> a], max) \in Seq(Route)
         /\ Record(t, m, a, max) \in Seq(Route)
<1>1. ASSUME NEW i \in 1..Len(t) PROVE RemoveRoute(t, i) \in Seq(Route)
  BY DEF RemoveRoute
<1>2. Without(t, m) \in Seq(Route)
  BY <1>1, FoundRoute DEF Without
<1>3. [model |-> m, adapter |-> a] \in Route BY DEF Route
<1>4. ASSUME NEW u \in Seq(Route)
      PROVE  PushBounded(u, [model |-> m, adapter |-> a], max) \in Seq(Route)
  <2>1. CASE Len(u) = max
    BY <1>3, <2>1 DEF PushBounded
  <2>2. CASE Len(u) # max
    BY <1>3, <2>2 DEF PushBounded
  <2> QED BY <2>1, <2>2
<1>5. Routes(t, m) => Touch(t, m) \in Seq(Route)
  BY <1>2, FoundRoute DEF Touch
<1> QED BY <1>2, <1>4, <1>5 DEF Record

-----------------------------------------------------------------------------
(* Steps that neither count nor create *)

LEMMA ToIdle ==
  ASSUME IInv, NEW w \in Workers, Become(w, Idle), op[w].res = "none",
         UNCHANGED <<counts, held>>,
         models' \in Seq(Route), compat' \in Seq(Route), UNCHANGED process
  PROVE  IInv'
<1>1. \A v \in Workers \ {w} : op[v].kind = "release" => op[v].src # Idle.src
  BY IdleShape DEF IInv, ShapeOK
<1> QED BY <1>1, IdleShape, LocalStep

\* The operation keeps its kind, source and adapter and moves to another place.
LEMMA Onward ==
  ASSUME IInv, NEW w \in Workers, NEW o \in Operation, Become(w, o),
         UNCHANGED <<counts, held>>,
         models' \in Seq(Route), compat' \in Seq(Route), UNCHANGED process,
         op[w].res = "none", o.res = "none", o.state = NoState, ShapeOK(o),
         o.kind = op[w].kind, o.src = op[w].src,
         o.adapter = op[w].adapter \/ op[w].src = NoState
  PROVE  IInv'
<1>1. o.src # NoState => o.src \in held /\ o.adapter = MakerOf(o.src)
  BY DEF IInv, LinkOK
<1>2. \A v \in Workers \ {w} : o.kind = "release" \/ op[v].kind = "release"
                                 => op[v].src # o.src
  BY DEF IInv, Exclusive
<1> QED BY <1>1, <1>2, LocalStep

LEMMA RestorePreparedStep ==
  ASSUME IInv, NEW w \in Workers, RestorePrepared(w)
  PROVE  IInv'
<1> DEFINE o == [op[w] EXCEPT !.pc = "ready"]
<1>1. op[w] \in Operation /\ ShapeOK(op[w]) BY DEF IInv, TypeOK
<1>2. op[w].pc = "planned" /\ op[w].kind = "restore"
  BY <1>1 DEF RestorePrepared, IInv, TypeOK, ShapeOK, CreatingKinds
<1>3. Become(w, o) /\ UNCHANGED <<counts, held, process>> BY DEF RestorePrepared
<1>4. /\ o \in Operation /\ o.res = op[w].res /\ o.state = op[w].state /\ o.kind = op[w].kind
      /\ o.src = op[w].src /\ o.model = op[w].model
      /\ o.adapter = op[w].adapter /\ o.inst = op[w].inst /\ o.pc = "ready"
  BY <1>1 DEF Places, Operation
<1> HIDE DEF o
<1>5. op[w].res = "none" /\ op[w].state = NoState
  BY <1>1, <1>2 DEF ShapeOK
<1>6. ShapeOK(o) BY <1>1, <1>2, <1>4, <1>5 DEF ShapeOK, CreatingKinds
<1>7. models' \in Seq(Route) /\ compat' \in Seq(Route)
  BY DEF IInv, TypeOK, tables, RestorePrepared
<1> QED BY <1>3, <1>4, <1>5, <1>6, <1>7, Onward

LEMMA ReadDescriptorStep ==
  ASSUME IInv, NEW w \in Workers, ReadDescriptor(w)
  PROVE  IInv'
<1>1. op[w] \in Operation /\ ShapeOK(op[w]) BY DEF IInv, TypeOK
<1>2. op[w].pc = "ready" /\ op[w].kind \in CreatingKinds
  BY <1>1 DEF ReadDescriptor, ShapeOK
<1>i. PICK i \in Instances : i = process[op[w].adapter]
  BY <1>1, <1>2 DEF IInv, TypeOK, ShapeOK
<1> DEFINE o == [op[w] EXCEPT !.pc = "described", !.inst = i]
<1>3. Become(w, o) /\ UNCHANGED <<counts, held, process>> BY <1>i DEF ReadDescriptor
<1>4. /\ o \in Operation /\ o.res = op[w].res /\ o.state = op[w].state /\ o.kind = op[w].kind
      /\ o.src = op[w].src /\ o.model = op[w].model
      /\ o.adapter = op[w].adapter /\ o.inst = i /\ o.pc = "described"
  <2>1. op[w] \in Operation /\ i \in Instances BY <1>1, <1>i
  <2>2. "described" \in Places BY DEF Places
  <2> QED BY <2>1, <2>2 DEF Operation
<1> HIDE DEF o
<1>5. op[w].res = "none" /\ op[w].state = NoState
  BY <1>1, <1>2 DEF ShapeOK
<1>6. ShapeOK(o) BY <1>1, <1>2, <1>4, <1>5 DEF ShapeOK, CreatingKinds
<1>7. models' \in Seq(Route) /\ compat' \in Seq(Route)
  BY DEF IInv, TypeOK, tables, ReadDescriptor
<1> QED BY <1>3, <1>4, <1>5, <1>6, <1>7, Onward

LEMMA BindPlanStep ==
  ASSUME IInv, NEW w \in Workers, BindPlan(w)
  PROVE  IInv'
<1>1. op[w] \in Operation /\ ShapeOK(op[w]) BY DEF IInv, TypeOK
<1>2. op[w].pc = "resolved" /\ op[w].kind = "restore"
  BY <1>1 DEF BindPlan, ShapeOK
<1>i. PICK i \in Instances : i = process[op[w].adapter]
  BY <1>1, <1>2 DEF IInv, TypeOK, ShapeOK
<1> DEFINE o == [op[w] EXCEPT !.pc = "bound", !.inst = i]
<1>3. Become(w, o) /\ UNCHANGED <<counts, held, process>> BY <1>i DEF BindPlan
<1>4. /\ o \in Operation /\ o.res = op[w].res /\ o.state = op[w].state /\ o.kind = op[w].kind
      /\ o.src = op[w].src /\ o.model = op[w].model
      /\ o.adapter = op[w].adapter /\ o.inst = i /\ o.pc = "bound"
  <2>1. op[w] \in Operation /\ i \in Instances BY <1>1, <1>i
  <2>2. "bound" \in Places BY DEF Places
  <2> QED BY <2>1, <2>2 DEF Operation
<1> HIDE DEF o
<1>5. op[w].res = "none" /\ op[w].state = NoState
  BY <1>1, <1>2 DEF ShapeOK
<1>6. ShapeOK(o) BY <1>1, <1>2, <1>4, <1>5 DEF ShapeOK, CreatingKinds
<1>7. models' \in Seq(Route) /\ compat' \in Seq(Route)
  BY DEF IInv, TypeOK, tables, BindPlan
<1> QED BY <1>3, <1>4, <1>5, <1>6, <1>7, Onward

LEMMA FinishPlanStep ==
  ASSUME IInv, NEW w \in Workers, FinishPlan(w)
  PROVE  IInv'
<1> DEFINE o == [op[w] EXCEPT !.pc = "planned"]
<1>1. op[w] \in Operation /\ ShapeOK(op[w]) BY DEF IInv, TypeOK
<1>2. op[w].pc = "bound" /\ op[w].kind = "restore" /\ op[w].model \in Models
  BY <1>1 DEF FinishPlan, IInv, TypeOK, ShapeOK, CreatingKinds
<1>3. Become(w, o) /\ UNCHANGED <<counts, held, process>> BY DEF FinishPlan
<1>4. /\ o \in Operation /\ o.res = op[w].res /\ o.state = op[w].state /\ o.kind = op[w].kind
      /\ o.src = op[w].src /\ o.model = op[w].model
      /\ o.adapter = op[w].adapter /\ o.inst = op[w].inst /\ o.pc = "planned"
  BY <1>1 DEF Places, Operation
<1> HIDE DEF o
<1>5. op[w].res = "none" /\ op[w].state = NoState
  BY <1>1, <1>2 DEF ShapeOK
<1>6. ShapeOK(o) BY <1>1, <1>2, <1>4, <1>5 DEF ShapeOK, CreatingKinds
<1>7. models' \in Seq(Route) /\ compat' \in Seq(Route)
  <2>1. op[w].adapter \in Adapters BY <1>1, <1>2 DEF ShapeOK
  <2>2. MaxCompatRoutes \in Nat \ {0} BY BoundsAssumption
  <2>3. compat \in Seq(Route) /\ models' = models /\ models \in Seq(Route)
    BY DEF IInv, TypeOK, FinishPlan
  <2>4. compat' = Record(compat, op[w].model, op[w].adapter, MaxCompatRoutes)
    BY DEF FinishPlan
  <2> QED BY <1>2, <2>1, <2>2, <2>3, <2>4, TablesTyped
<1> QED BY <1>3, <1>4, <1>5, <1>6, <1>7, Onward

LEMMA FinishSelectionStep ==
  ASSUME IInv, NEW w \in Workers, FinishSelection(w)
  PROVE  IInv'
<1>1. op[w] \in Operation /\ ShapeOK(op[w]) /\ models \in Seq(Route) /\ compat \in Seq(Route)
  BY DEF IInv, TypeOK
<1>2. op[w].pc = "selecting" BY DEF FinishSelection
<1>3. /\ op[w].model \in Models /\ op[w].kind \in {"metadata", "compatibility", "restore"}
      /\ op[w].res = "none" /\ op[w].state = NoState /\ op[w].src = NoState
  BY <1>1, <1>2 DEF ShapeOK
<1>4. PICK a \in Adapters :
        /\ models' = IF Routes(models, op[w].model) THEN Touch(models, op[w].model)
                     ELSE PushBounded(models, [model |-> op[w].model, adapter |-> a],
                                      MaxModelRoutes)
        /\ Become(w, IF op[w].kind = "metadata" THEN Idle
                     ELSE [op[w] EXCEPT !.pc = "resolved",
                             !.adapter = IF Routes(models, op[w].model)
                                         THEN Found(models, op[w].model).adapter ELSE a])
  BY DEF FinishSelection
<1>5. models' \in Seq(Route) /\ compat' \in Seq(Route) /\ UNCHANGED <<counts, held, process>>
  <2>1. MaxModelRoutes \in Nat \ {0} BY BoundsAssumption
  <2> QED BY <1>1, <1>3, <1>4, <2>1, TablesTyped DEF FinishSelection
<1>6. CASE op[w].kind = "metadata"
  BY <1>3, <1>4, <1>5, <1>6, ToIdle
<1>7. CASE op[w].kind # "metadata"
  <2>1. PICK b \in Adapters : b = IF Routes(models, op[w].model)
                                  THEN Found(models, op[w].model).adapter ELSE a
    BY <1>1, <1>3, FoundRoute
  <2> DEFINE o == [op[w] EXCEPT !.pc = "resolved", !.adapter = b]
  <2>2. Become(w, o) BY <1>4, <1>7, <2>1
  <2>3. b \in Adapters BY <2>1
  <2>4. /\ o \in Operation /\ o.res = op[w].res /\ o.state = op[w].state /\ o.kind = op[w].kind
        /\ o.src = op[w].src /\ o.model = op[w].model /\ o.adapter = b /\ o.pc = "resolved"
    BY <1>1, <2>3 DEF Places, Operation
  <2> HIDE DEF o
  <2>5. ShapeOK(o) BY <1>1, <1>2, <1>3, <1>7, <2>3, <2>4 DEF ShapeOK, CreatingKinds
  <2> QED BY <1>3, <1>5, <2>2, <2>4, <2>5, Onward
<1> QED BY <1>6, <1>7

LEMMA RecordCompatibilityStep ==
  ASSUME IInv, NEW w \in Workers, RecordCompatibility(w)
  PROVE  IInv'
<1>1. ShapeOK(op[w]) /\ models \in Seq(Route) /\ compat \in Seq(Route) BY DEF IInv, TypeOK
<1>2. op[w].pc = "resolved" /\ Become(w, Idle) /\ UNCHANGED <<models, counts, held, process>>
  BY DEF RecordCompatibility
<1>3. op[w].res = "none" /\ op[w].adapter \in Adapters /\ op[w].model \in Models
  BY <1>1, <1>2 DEF ShapeOK
<1>4. MaxCompatRoutes \in Nat \ {0} BY BoundsAssumption
<1>5. compat' \in Seq(Route)
  BY <1>1, <1>3, <1>4, TablesTyped DEF RecordCompatibility
<1> QED BY <1>1, <1>2, <1>3, <1>5, ToIdle

LEMMA AbandonStep ==
  ASSUME IInv, NEW w \in Workers, Abandon(w) \/ ReleaseRejected(w)
  PROVE  IInv'
<1>1. ShapeOK(op[w]) /\ models \in Seq(Route) /\ compat \in Seq(Route) BY DEF IInv, TypeOK
<1>2. /\ op[w].pc \in {"selecting", "resolved", "bound", "planned", "ready", "described",
                      "rejected"}
      /\ Become(w, Idle) /\ UNCHANGED <<models, compat, counts, held, process>>
  BY DEF Abandon, ReleaseRejected, tables
<1>3. op[w].res = "none" BY <1>1, <1>2 DEF ShapeOK
<1> QED BY <1>1, <1>2, <1>3, ToIdle

LEMMA BackendReleasesStep ==
  ASSUME IInv, NEW w \in Workers, BackendReleases(w)
  PROVE  IInv'
<1> DEFINE o == [op[w] EXCEPT !.pc = "released"]
<1>1. op[w] \in Operation /\ ShapeOK(op[w]) /\ models \in Seq(Route) /\ compat \in Seq(Route)
  BY DEF IInv, TypeOK
<1>2. /\ op[w].pc = "releasing" /\ UNCHANGED <<models, compat, counts, held, process>>
      /\ Become(w, o) \/ Become(w, Idle)
  BY DEF BackendReleases, tables
<1>3. /\ op[w].res = "none" /\ op[w].state = NoState /\ op[w].kind = "release"
      /\ op[w].adapter \in Adapters
  BY <1>1, <1>2 DEF ShapeOK
<1>4. CASE Become(w, Idle) BY <1>1, <1>2, <1>3, <1>4, ToIdle
<1>5. CASE Become(w, o)
  <2>1. /\ o \in Operation /\ o.res = op[w].res /\ o.state = op[w].state /\ o.kind = op[w].kind
        /\ o.src = op[w].src /\ o.adapter = op[w].adapter /\ o.pc = "released"
    BY <1>1 DEF Places, Operation
  <2> HIDE DEF o
  <2>2. ShapeOK(o) BY <1>1, <1>2, <1>3, <2>1 DEF ShapeOK, CreatingKinds
  <2> QED BY <1>1, <1>2, <1>3, <1>5, <2>1, <2>2, Onward
<1> QED BY <1>2, <1>4, <1>5

\* An idle worker begins an operation that works on no state yet.
LEMMA Begin ==
  ASSUME IInv, NEW w \in Workers, NEW o \in Operation, Become(w, o),
         UNCHANGED <<counts, held>>,
         models' \in Seq(Route), compat' \in Seq(Route), UNCHANGED process,
         op[w].pc = "idle", o.res = "none", o.state = NoState, o.src = NoState, ShapeOK(o)
  PROVE  IInv'
<1>1. op[w].res = "none" BY DEF IInv, ShapeOK
<1>2. o.kind # "release" BY DEF ShapeOK
<1>3. \A v \in Workers \ {w} : o.kind = "release" \/ op[v].kind = "release"
                                 => op[v].src # o.src
  BY <1>2 DEF IInv, ShapeOK
<1>4. o.src # NoState => o.src \in held /\ o.adapter = MakerOf(o.src) OBVIOUS
<1> QED BY <1>1, <1>3, <1>4, LocalStep

\* The two ways a table hands its adapter to a new operation.
LEMMA BeginRouted ==
  ASSUME IInv, NEW w \in Workers, NEW p \in {"ready", "resolved"},
         NEW k \in {"compatibility", "prefill", "restore"}, NEW m \in Models,
         NEW a \in Adapters,
         p = "ready" => k = "prefill", p = "resolved" => k # "prefill",
         Become(w, [Idle EXCEPT !.pc = p, !.kind = k, !.model = m, !.adapter = a]),
         UNCHANGED <<counts, held>>,
         models' \in Seq(Route), compat' \in Seq(Route), UNCHANGED process,
         op[w].pc = "idle"
  PROVE  IInv'
<1> DEFINE o == [Idle EXCEPT !.pc = p, !.kind = k, !.model = m, !.adapter = a]
<1>1. /\ o \in Operation /\ o.res = "none" /\ o.state = NoState /\ o.src = NoState
      /\ o.pc = p /\ o.kind = k /\ o.model = m /\ o.adapter = a
  BY DEF Operation, Idle, Places, Kinds
<1> HIDE DEF o
<1>2. ShapeOK(o) BY <1>1 DEF ShapeOK, CreatingKinds
<1>3. Become(w, o) BY DEF o
<1> QED BY <1>1, <1>2, <1>3, Begin

LEMMA StartPrefillStep ==
  ASSUME IInv, NEW w \in Workers, NEW m \in Models, StartPrefill(w, m)
  PROVE  IInv'
<1>1. models \in Seq(Route) /\ compat \in Seq(Route) BY DEF IInv, TypeOK
<1>2. /\ op[w].pc = "idle" /\ Routes(compat, m) /\ compat' = Touch(compat, m)
      /\ UNCHANGED <<models, counts, held, process>>
  BY DEF StartPrefill, Start
<1>3. PICK a \in Adapters : a = Found(compat, m).adapter
  BY <1>1, <1>2, FoundRoute
<1>4. compat' \in Seq(Route) BY <1>1, <1>2, <1>3, BoundsAssumption, TablesTyped
<1>5. Become(w, [Idle EXCEPT !.pc = "ready", !.kind = "prefill", !.model = m, !.adapter = a])
  BY <1>3 DEF StartPrefill
<1> QED BY <1>1, <1>2, <1>4, <1>5, BeginRouted

LEMMA ResolvePlanStep ==
  ASSUME IInv, NEW w \in Workers, NEW m \in Models, ResolvePlan(w, m)
  PROVE  IInv'
<1>1. models \in Seq(Route) /\ compat \in Seq(Route) BY DEF IInv, TypeOK
<1>2. /\ op[w].pc = "idle" /\ Routes(compat, m) /\ compat' = Touch(compat, m)
      /\ UNCHANGED <<models, counts, held, process>>
  BY DEF ResolvePlan, Start
<1>3. PICK a \in Adapters : a = Found(compat, m).adapter
  BY <1>1, <1>2, FoundRoute
<1>4. compat' \in Seq(Route) BY <1>1, <1>2, <1>3, BoundsAssumption, TablesTyped
<1>5. Become(w, [Idle EXCEPT !.pc = "resolved", !.kind = "restore", !.model = m,
                             !.adapter = a])
  BY <1>3 DEF ResolvePlan
<1> QED BY <1>1, <1>2, <1>4, <1>5, BeginRouted

LEMMA ResolveHitStep ==
  ASSUME IInv, NEW w \in Workers, NEW k \in Kinds, NEW m \in Models, ResolveHit(w, k, m)
  PROVE  IInv'
<1>1. models \in Seq(Route) /\ compat \in Seq(Route) BY DEF IInv, TypeOK
<1>2. /\ op[w].pc = "idle" /\ k \in {"metadata", "compatibility", "restore"}
      /\ Routes(models, m) /\ models' = Touch(models, m)
      /\ UNCHANGED <<compat, counts, held, process>>
  BY DEF ResolveHit, Resolving, Start
<1>3. PICK a \in Adapters : a = Found(models, m).adapter
  BY <1>1, <1>2, FoundRoute
<1>4. models' \in Seq(Route) BY <1>1, <1>2, <1>3, BoundsAssumption, TablesTyped
<1>5. CASE k = "metadata"
  <2>1. Become(w, Idle) BY <1>5 DEF ResolveHit
  <2>2. op[w].res = "none" BY <1>2 DEF IInv, ShapeOK
  <2> QED BY <1>1, <1>2, <1>4, <2>1, <2>2, ToIdle
<1>6. CASE k # "metadata"
  <2>1. Become(w, [Idle EXCEPT !.pc = "resolved", !.kind = k, !.model = m, !.adapter = a])
    BY <1>3, <1>6 DEF ResolveHit
  <2>2. k \in {"compatibility", "prefill", "restore"} /\ k # "prefill"
    BY <1>2, <1>6
  <2> QED BY <1>1, <1>2, <1>4, <2>1, <2>2, BeginRouted
<1> QED BY <1>5, <1>6

LEMMA ResolveMissStep ==
  ASSUME IInv, NEW w \in Workers, NEW k \in Kinds, NEW m \in Models, ResolveMiss(w, k, m)
  PROVE  IInv'
<1> DEFINE o == [Idle EXCEPT !.pc = "selecting", !.kind = k, !.model = m]
<1>1. models \in Seq(Route) /\ compat \in Seq(Route) BY DEF IInv, TypeOK
<1>2. /\ op[w].pc = "idle" /\ k \in {"metadata", "compatibility", "restore"}
      /\ Become(w, o) /\ UNCHANGED <<models, compat, counts, held, process>>
  BY DEF ResolveMiss, Resolving, Start, tables
<1>3. /\ o \in Operation /\ o.res = "none" /\ o.state = NoState /\ o.src = NoState
      /\ o.pc = "selecting" /\ o.kind = k /\ o.model = m
  BY DEF Operation, Idle, Places, Kinds
<1> HIDE DEF o
<1>4. ShapeOK(o) BY <1>2, <1>3 DEF ShapeOK, CreatingKinds
<1> QED BY <1>1, <1>2, <1>3, <1>4, Begin

\* An idle worker begins to work on a state the control plane holds.
LEMMA BeginOn ==
  ASSUME IInv, NEW w \in Workers, NEW s \in held,
         NEW p, NEW k,
         (p = "ready" /\ k = "derive") \/ (p = "releasing" /\ k = "release"),
         NEW a \in Adapters, a = MakerOf(s),
         Become(w, [Idle EXCEPT !.pc = p, !.kind = k, !.src = s, !.adapter = a]),
         UNCHANGED <<tables, counts, held, process>>,
         op[w].pc = "idle",
         \A v \in Workers : op[v].src = s => k # "release" /\ op[v].kind # "release"
  PROVE  IInv'
<1> DEFINE o == [Idle EXCEPT !.pc = p, !.kind = k, !.src = s, !.adapter = a]
<1>1. /\ s \in States /\ s # NoState /\ models \in Seq(Route) /\ compat \in Seq(Route)
  BY NamesAssumption DEF IInv, TypeOK, States, Instances
<1>2. /\ o \in Operation /\ o.res = "none" /\ o.state = NoState /\ o.src = s
      /\ o.pc = p /\ o.kind = k /\ o.adapter = a
  BY <1>1 DEF Operation, Idle, Places, Kinds
<1> HIDE DEF o
<1>3. ShapeOK(o) BY <1>1, <1>2 DEF ShapeOK, CreatingKinds
<1>4. op[w].res = "none" BY DEF IInv, ShapeOK
<1>5. Become(w, o) /\ UNCHANGED <<models, compat>> BY DEF o, tables
<1>6. \A v \in Workers \ {w} : o.kind = "release" \/ op[v].kind = "release"
                                 => op[v].src # o.src
  BY <1>2
<1> QED BY <1>1, <1>2, <1>3, <1>4, <1>5, <1>6, LocalStep

LEMMA StartOnStep ==
  ASSUME IInv, NEW w \in Workers, NEW s \in held, StartDerive(w, s) \/ StartRelease(w, s)
  PROVE  IInv'
<1>1. op[w].pc = "idle" /\ UNCHANGED <<tables, counts, held, process>>
  BY DEF StartDerive, StartRelease, Start
<1>2. PICK a \in Adapters : a = owner[InstanceOf(s)] /\ a = MakerOf(s)
  <2>1. s \in States BY DEF IInv, TypeOK
  <2>2. MakerOf(s) \in Adapters BY <2>1 DEF States, MakerOf
  <2> QED BY <2>2 DEF IInv, OwnersOK
<1>3. CASE StartDerive(w, s)
  <2>1. PICK p, k : p = "ready" /\ k = "derive" OBVIOUS
  <2>2. Become(w, [Idle EXCEPT !.pc = p, !.kind = k, !.src = s, !.adapter = a])
    BY <1>2, <1>3, <2>1 DEF StartDerive
  <2>3. \A v \in Workers : op[v].src = s => k # "release" /\ op[v].kind # "release"
    BY <1>3, <2>1 DEF StartDerive
  <2>4. (p = "ready" /\ k = "derive") \/ (p = "releasing" /\ k = "release") BY <2>1
  <2> QED BY <1>1, <1>2, <2>2, <2>3, <2>4, BeginOn
<1>4. CASE StartRelease(w, s)
  <2>1. PICK p, k : p = "releasing" /\ k = "release" OBVIOUS
  <2>2. Become(w, [Idle EXCEPT !.pc = p, !.kind = k, !.src = s, !.adapter = a])
    BY <1>2, <1>4, <2>1 DEF StartRelease
  <2>3. \A v \in Workers : op[v].src = s => k # "release" /\ op[v].kind # "release"
    BY <1>4 DEF StartRelease, InUse
  <2>4. (p = "ready" /\ k = "derive") \/ (p = "releasing" /\ k = "release") BY <2>1
  <2> QED BY <1>1, <1>2, <2>2, <2>3, <2>4, BeginOn
<1> QED BY <1>3, <1>4

\* Steps that change the tables or a worker process only, and stuttering.
LEMMA TablesStep ==
  ASSUME IInv, UNCHANGED <<counts, held, op>>,
         models' \in Seq(Route), compat' \in Seq(Route),
         process' \in [Adapters -> Instances]
  PROVE  IInv'
<1> USE DEF IInv
<1>1. UNCHANGED <<owner, live, pending, held, op>> BY DEF counts
<1>2. TypeOK' BY <1>1 DEF TypeOK
<1>3. (\A w \in Workers : ShapeOK(op[w]) /\ LinkOK(op[w]))' BY <1>1 DEF ShapeOK, LinkOK
<1>4. Exclusive' BY <1>1 DEF Exclusive
<1>5. CountsOK' BY <1>1 DEF CountsOK, ReservedNew, ReservedOn, HeldBy
<1>6. OwnersOK' BY <1>1 DEF OwnersOK
<1> QED BY <1>1, <1>2, <1>3, <1>4, <1>5, <1>6

-----------------------------------------------------------------------------
(* Steps that reserve a place or create a state *)

LEMMA ProduceStep ==
  ASSUME IInv, NEW w \in Workers, Produce(w)
  PROVE  IInv'
<1> USE DEF IInv
<1>1. op[w] \in Operation /\ ShapeOK(op[w]) /\ LinkOK(op[w]) BY DEF TypeOK
<1>2. /\ op[w].pc = "reserved" /\ op[w].adapter \in Adapters /\ op[w].inst \in Instances
      /\ op[w].res # "none" /\ op[w].kind \in CreatingKinds
  BY <1>1 DEF Produce, ShapeOK
<1>3. PICK id \in StateIds, i \in Instances :
        /\ i = process[op[w].adapter]
        /\ \A s \in held \cup (InUse \ {NoState}) : s[1] # id
        /\ Become(w, [op[w] EXCEPT !.pc = "produced", !.state = <<id, i, op[w].adapter>>])
  BY <1>2 DEF Produce, TypeOK
<1>4. PICK t \in States : t = <<id, i, op[w].adapter>>
  BY <1>2 DEF States
<1>6. UNCHANGED <<models, compat, owner, live, pending, held, process>>
  BY DEF Produce, tables, counts
<1>7. PICK o \in Operation :
        /\ Become(w, o) /\ o.res = op[w].res /\ o.state = t /\ o.kind = op[w].kind
        /\ o.src = op[w].src /\ o.model = op[w].model
        /\ o.adapter = op[w].adapter /\ o.inst = op[w].inst /\ o.pc = "produced"
  <2> DEFINE d == [op[w] EXCEPT !.pc = "produced", !.state = t]
  <2>1. /\ d \in Operation /\ d.res = op[w].res /\ d.state = t /\ d.kind = op[w].kind
        /\ d.src = op[w].src /\ d.model = op[w].model
        /\ d.adapter = op[w].adapter /\ d.inst = op[w].inst /\ d.pc = "produced"
    BY <1>1 DEF Places, Operation
  <2>2. Become(w, d) BY <1>3, <1>4
  <2> HIDE DEF d
  <2> QED BY <2>1, <2>2
<1>8. /\ t # NoState /\ t \notin held /\ MakerOf(t) = op[w].adapter
      /\ \A v \in Workers : op[v].state # t
  <2>1. t[1] = id /\ t[3] = op[w].adapter BY <1>4
  <2>2. t # NoState BY NamesAssumption DEF States, Instances
  <2>3. t \notin held BY <1>3, <2>1
  <2>4. \A v \in Workers : op[v].state # t
    BY <1>3, <2>1, <2>2 DEF InUse
  <2> QED BY <2>1, <2>2, <2>3, <2>4 DEF MakerOf
<1>9. ShapeOK(o) BY <1>1, <1>2, <1>7, <1>8 DEF ShapeOK, CreatingKinds
<1>10. LinkOK(o)' BY <1>1, <1>6, <1>7, <1>8 DEF LinkOK
<1>11. \A v \in Workers \ {w} : LinkOK(op[v])' BY <1>6, <1>7, BecomeFacts DEF LinkOK
<1>12. (\A v \in Workers : ShapeOK(op[v]) /\ LinkOK(op[v]))' /\ Exclusive'
  <2>1. \A v \in Workers \ {w} : o.state # NoState => op[v].state # o.state
    BY <1>7, <1>8
  <2>2. \A v \in Workers \ {w} : o.kind = "release" \/ op[v].kind = "release"
                                 => op[v].src # o.src
    BY <1>7 DEF Exclusive
  <2> QED BY <1>7, <1>9, <1>10, <1>11, <2>1, <2>2, OperationsOK
<1>13. ReservedNew' = ReservedNew /\ \A j : ReservedOn(j)' = ReservedOn(j)
  <2>1. op'[w] = o /\ op' \in [Workers -> Operation] /\ \A v \in Workers \ {w} : op'[v] = op[v]
    BY <1>7, BecomeFacts
  <2> QED BY <1>7, <2>1 DEF ReservedNew, ReservedOn
<1>14. CountsOK' BY <1>6, <1>13 DEF CountsOK, HeldBy
<1>15. TypeOK' BY <1>6, <1>7, BecomeFacts DEF TypeOK
<1> QED BY <1>6, <1>12, <1>14, <1>15 DEF OwnersOK

LEMMA ReserveExistingStep ==
  ASSUME IInv, NEW w \in Workers, ReserveExisting(w)
  PROVE  IInv'
<1> USE DEF IInv
<1>1. op[w] \in Operation /\ ShapeOK(op[w]) /\ LinkOK(op[w]) BY DEF TypeOK
<1>2. /\ op[w].pc = "described" /\ op[w].adapter \in Adapters /\ op[w].inst \in Instances
      /\ op[w].res = "none" /\ op[w].kind \in CreatingKinds /\ op[w].state = NoState
      /\ owner[op[w].inst] = op[w].adapter
  BY <1>1 DEF ReserveExisting, ShapeOK
<1>4. /\ UNCHANGED <<models, compat, owner, pending, held, process>>
      /\ live' = [live EXCEPT ![op[w].inst] = @ + 1]
  BY DEF ReserveExisting, tables
<1>5. PICK o \in Operation :
        /\ Become(w, o) /\ o.res = "existing" /\ o.state = op[w].state /\ o.kind = op[w].kind
        /\ o.src = op[w].src /\ o.model = op[w].model
        /\ o.adapter = op[w].adapter /\ o.inst = op[w].inst /\ o.pc = "reserved"
  <2> DEFINE d == [op[w] EXCEPT !.pc = "reserved", !.res = "existing"]
  <2>1. /\ d \in Operation /\ d.res = "existing" /\ d.state = op[w].state /\ d.kind = op[w].kind
        /\ d.src = op[w].src /\ d.model = op[w].model
        /\ d.adapter = op[w].adapter /\ d.inst = op[w].inst /\ d.pc = "reserved"
    BY <1>1 DEF Places, Operation
  <2>2. Become(w, d) BY DEF ReserveExisting
  <2> HIDE DEF d
  <2> QED BY <2>1, <2>2
<1>6. ShapeOK(o) BY <1>1, <1>2, <1>5 DEF ShapeOK, CreatingKinds
<1>7. LinkOK(o)' BY <1>1, <1>2, <1>4, <1>5 DEF LinkOK
<1>8. \A v \in Workers \ {w} : LinkOK(op[v])' BY <1>4, <1>5, BecomeFacts DEF LinkOK
<1>9. (\A v \in Workers : ShapeOK(op[v]) /\ LinkOK(op[v]))' /\ Exclusive'
  <2>1. \A v \in Workers \ {w} : o.state # NoState => op[v].state # o.state
    BY <1>2, <1>5
  <2>2. \A v \in Workers \ {w} : o.kind = "release" \/ op[v].kind = "release"
                                 => op[v].src # o.src
    BY <1>5 DEF Exclusive
  <2> QED BY <1>5, <1>6, <1>7, <1>8, <2>1, <2>2, OperationsOK
<1>10. TypeOK' BY <1>2, <1>4, <1>5, BecomeFacts DEF TypeOK
<1>11. CountsOK'
  <2>1. w \notin ReservedNew /\ \A j : w \notin ReservedOn(j)
    BY <1>2 DEF ReservedNew, ReservedOn
  <2>2. /\ ReservedNew' = ReservedNew \ {w}
        /\ \A j : ReservedOn(j)' = IF op[w].inst = j THEN ReservedOn(j) \cup {w}
                                    ELSE ReservedOn(j) \ {w}
    BY <1>5, BecomeFacts
  <2>3. ReservedNew' = ReservedNew BY <2>1, <2>2
  <2>4. ASSUME NEW j \in Instances
        PROVE  live'[j] = Cardinality(HeldBy(j)') + Cardinality(ReservedOn(j)')
    <3>1. HeldBy(j)' = HeldBy(j) BY <1>4 DEF HeldBy
    <3>2. /\ live[j] = Cardinality(HeldBy(j)) + Cardinality(ReservedOn(j))
          /\ Cardinality(HeldBy(j)) \in Nat /\ Cardinality(ReservedOn(j)) \in Nat
          /\ IsFiniteSet(ReservedOn(j))
      BY FiniteSets DEF CountsOK
    <3>3. CASE j = op[w].inst
      <4>1. Cardinality(ReservedOn(j)') = Cardinality(ReservedOn(j)) + 1
        BY <2>1, <2>2, <3>2, <3>3, AddOne
      <4>2. live'[j] = live[j] + 1 BY <1>4, <3>3 DEF TypeOK
      <4> QED BY <3>1, <3>2, <4>1, <4>2
    <3>4. CASE j # op[w].inst
      <4>1. ReservedOn(j)' = ReservedOn(j) BY <2>1, <2>2, <3>4
      <4>2. live'[j] = live[j] BY <1>4, <3>4 DEF TypeOK
      <4> QED BY <3>1, <3>2, <4>1, <4>2
    <3> QED BY <3>3, <3>4
  <2> QED BY <1>4, <2>3, <2>4 DEF CountsOK
<1>12. OwnersOK'
  <2>1. owner[op[w].inst] # NoAdapter BY <1>2, NamesAssumption
  <2>2. \A j \in Instances : owner[j] = NoAdapter <=> live'[j] = 0
    BY <1>2, <1>4, <2>1 DEF OwnersOK, TypeOK
  <2> QED BY <1>4, <2>2 DEF OwnersOK
<1> QED BY <1>4, <1>9, <1>10, <1>11, <1>12

LEMMA ReserveNewStep ==
  ASSUME IInv, NEW w \in Workers, ReserveNew(w)
  PROVE  IInv'
<1> USE DEF IInv
<1>1. op[w] \in Operation /\ ShapeOK(op[w]) /\ LinkOK(op[w]) BY DEF TypeOK
<1>2. /\ op[w].pc = "described" /\ op[w].adapter \in Adapters /\ op[w].inst \in Instances
      /\ op[w].res = "none" /\ op[w].kind \in CreatingKinds /\ op[w].state = NoState
  BY <1>1 DEF ReserveNew, ShapeOK
<1>4. /\ UNCHANGED <<models, compat, owner, live, held, process>>
      /\ pending' = pending + 1
  BY DEF ReserveNew, tables
<1>5. PICK o \in Operation :
        /\ Become(w, o) /\ o.res = "new" /\ o.state = op[w].state /\ o.kind = op[w].kind
        /\ o.src = op[w].src /\ o.model = op[w].model
        /\ o.adapter = op[w].adapter /\ o.inst = op[w].inst /\ o.pc = "reserved"
  <2> DEFINE d == [op[w] EXCEPT !.pc = "reserved", !.res = "new"]
  <2>1. /\ d \in Operation /\ d.res = "new" /\ d.state = op[w].state /\ d.kind = op[w].kind
        /\ d.src = op[w].src /\ d.model = op[w].model
        /\ d.adapter = op[w].adapter /\ d.inst = op[w].inst /\ d.pc = "reserved"
    BY <1>1 DEF Places, Operation
  <2>2. Become(w, d) BY DEF ReserveNew
  <2> HIDE DEF d
  <2> QED BY <2>1, <2>2
<1>6. ShapeOK(o) BY <1>1, <1>2, <1>5 DEF ShapeOK, CreatingKinds
<1>7. LinkOK(o)' BY <1>1, <1>2, <1>4, <1>5 DEF LinkOK
<1>8. \A v \in Workers \ {w} : LinkOK(op[v])' BY <1>4, <1>5, BecomeFacts DEF LinkOK
<1>9. (\A v \in Workers : ShapeOK(op[v]) /\ LinkOK(op[v]))' /\ Exclusive'
  <2>1. \A v \in Workers \ {w} : o.state # NoState => op[v].state # o.state
    BY <1>2, <1>5
  <2>2. \A v \in Workers \ {w} : o.kind = "release" \/ op[v].kind = "release"
                                 => op[v].src # o.src
    BY <1>5 DEF Exclusive
  <2> QED BY <1>5, <1>6, <1>7, <1>8, <2>1, <2>2, OperationsOK
<1>10. TypeOK' BY <1>2, <1>4, <1>5, BecomeFacts DEF TypeOK
<1>11. CountsOK'
  <2>1. w \notin ReservedNew /\ \A j : w \notin ReservedOn(j)
    BY <1>2 DEF ReservedNew, ReservedOn
  <2>2. /\ ReservedNew' = ReservedNew \cup {w}
        /\ \A j : ReservedOn(j)' = ReservedOn(j) \ {w}
    BY <1>5, BecomeFacts
  <2>3. Cardinality(ReservedNew') = Cardinality(ReservedNew) + 1
    BY <2>1, <2>2, FiniteSets, AddOne
  <2>4. \A j : ReservedOn(j)' = ReservedOn(j) /\ HeldBy(j)' = HeldBy(j)
    BY <1>4, <2>1, <2>2 DEF HeldBy
  <2> QED BY <1>4, <2>3, <2>4 DEF CountsOK
<1> QED BY <1>4, <1>9, <1>10, <1>11 DEF OwnersOK

-----------------------------------------------------------------------------
(* Steps that give up a place, keep a state or release one *)

\* Route tables that account for every state and every place but the one worker w holds.
Balanced(own, liv, w) ==
  /\ own \in [Instances -> Adapters \cup {NoAdapter}] /\ liv \in [Instances -> Nat]
  /\ \A i \in Instances :
       /\ liv[i] = Cardinality(HeldBy(i)) + Cardinality(ReservedOn(i) \ {w})
       /\ own[i] = NoAdapter <=> liv[i] = 0
  /\ \A s \in held : own[InstanceOf(s)] = MakerOf(s)
  /\ \A v \in Workers \ {w} : op[v].res = "existing" => own[op[v].inst] = op[v].adapter

LEMMA BalancedNew ==
  ASSUME IInv, NEW w \in Workers, op[w].res # "existing"
  PROVE  Balanced(owner, live, w)
<1> USE DEF IInv
<1>1. \A i : ReservedOn(i) \ {w} = ReservedOn(i) BY DEF ReservedOn
<1>2. \A v \in Workers \ {w} : op[v].res = "existing" => owner[op[v].inst] = op[v].adapter
  BY DEF LinkOK
<1> QED BY <1>1, <1>2 DEF Balanced, CountsOK, OwnersOK, TypeOK

LEMMA BalancedExisting ==
  ASSUME IInv, NEW w \in Workers, op[w].res = "existing"
  PROVE  /\ CanRelease(op[w].inst, op[w].adapter)
         /\ Balanced(OwnerWithout(op[w].inst), LiveWithout(op[w].inst), w)
<1> USE DEF IInv
<1>1. op[w] \in Operation /\ ShapeOK(op[w]) /\ LinkOK(op[w]) BY DEF TypeOK
<1>2. /\ op[w].adapter \in Adapters /\ owner[op[w].inst] = op[w].adapter
      /\ op[w].inst \in Instances
  BY <1>1 DEF ShapeOK, LinkOK
<1>3. PICK i \in Instances : i = op[w].inst BY <1>2
<1>4. live[i] > 0 /\ live[i] \in Nat BY <1>3, LivePositive DEF TypeOK
<1>5. PICK own, liv : own = OwnerWithout(i) /\ liv = LiveWithout(i) OBVIOUS
<1>6. /\ own \in [Instances -> Adapters \cup {NoAdapter}]
      /\ own[i] = IF live[i] = 1 THEN NoAdapter ELSE owner[i]
      /\ \A j \in Instances \ {i} : own[j] = owner[j]
  BY <1>5 DEF OwnerWithout, TypeOK
<1>7. /\ liv \in [Instances -> Nat] /\ liv[i] = live[i] - 1
      /\ \A j \in Instances \ {i} : liv[j] = live[j]
  BY <1>4, <1>5 DEF LiveWithout, TypeOK
<1>8. ASSUME NEW j \in Instances
      PROVE  /\ liv[j] = Cardinality(HeldBy(j)) + Cardinality(ReservedOn(j) \ {w})
             /\ own[j] = NoAdapter <=> liv[j] = 0
  <2>1. /\ live[j] = Cardinality(HeldBy(j)) + Cardinality(ReservedOn(j))
        /\ Cardinality(HeldBy(j)) \in Nat /\ Cardinality(ReservedOn(j)) \in Nat
        /\ IsFiniteSet(ReservedOn(j)) /\ (owner[j] = NoAdapter <=> live[j] = 0)
    BY FiniteSets DEF CountsOK, OwnersOK
  <2>2. CASE j = i
    <3>1. w \in ReservedOn(j) BY <1>3, <2>2 DEF ReservedOn
    <3>2. Cardinality(ReservedOn(j) \ {w}) = Cardinality(ReservedOn(j)) - 1
      BY <2>1, <3>1, RemoveOne
    <3>3. owner[i] # NoAdapter BY <1>4, <2>1, <2>2
    <3> QED BY <1>4, <1>6, <1>7, <2>1, <2>2, <3>2, <3>3
  <2>3. CASE j # i
    <3>1. w \notin ReservedOn(j) BY <1>3, <2>3 DEF ReservedOn
    <3>2. ReservedOn(j) \ {w} = ReservedOn(j) BY <3>1
    <3> QED BY <1>6, <1>7, <2>1, <2>3, <3>2
  <2> QED BY <2>2, <2>3
<1>9. \A s \in held : own[InstanceOf(s)] = MakerOf(s)
  <2> SUFFICES ASSUME NEW s \in held PROVE own[InstanceOf(s)] = MakerOf(s)
    OBVIOUS
  <2>1. InstanceOf(s) \in Instances BY DEF TypeOK, States, InstanceOf
  <2>2. owner[InstanceOf(s)] = MakerOf(s) BY DEF OwnersOK
  <2>3. InstanceOf(s) = i => live[i] > 1 BY <1>3, LivePositive
  <2> QED BY <1>4, <1>6, <2>1, <2>2, <2>3
<1>10. \A v \in Workers \ {w} : op[v].res = "existing" => own[op[v].inst] = op[v].adapter
  <2> SUFFICES ASSUME NEW v \in Workers \ {w}, op[v].res = "existing"
               PROVE  own[op[v].inst] = op[v].adapter
    OBVIOUS
  <2>1. op[v].inst \in Instances /\ owner[op[v].inst] = op[v].adapter
    <3>1. ShapeOK(op[v]) /\ LinkOK(op[v]) OBVIOUS
    <3> QED BY <3>1 DEF ShapeOK, LinkOK
  <2>2. op[v].inst = i => live[i] > 1 BY <1>3, LivePositive
  <2> QED BY <1>4, <1>6, <2>1, <2>2
<1>11. CanRelease(i, op[w].adapter) BY <1>2, <1>3, <1>4 DEF CanRelease
<1>12. Balanced(own, liv, w) BY <1>6, <1>7, <1>8, <1>9, <1>10 DEF Balanced
<1> QED BY <1>3, <1>5, <1>11, <1>12

\* The pending places after worker w gives up the place it holds.
LEMMA PendingWithout ==
  ASSUME IInv, NEW w \in Workers
  PROVE  /\ op[w].res = "new" => /\ pending - 1 = Cardinality(ReservedNew \ {w})
                                 /\ pending - 1 \in Nat
         /\ op[w].res # "new" => /\ pending = Cardinality(ReservedNew \ {w})
                                 /\ pending \in Nat
<1> USE DEF IInv
<1>1. /\ pending = Cardinality(ReservedNew) /\ pending \in Nat /\ IsFiniteSet(ReservedNew)
  BY FiniteSets DEF CountsOK, TypeOK
<1>2. CASE op[w].res = "new"
  <2>1. w \in ReservedNew BY <1>2 DEF ReservedNew
  <2> QED BY <1>1, <1>2, <2>1, RemoveOne
<1>3. CASE op[w].res # "new"
  <2>1. ReservedNew \ {w} = ReservedNew BY <1>3 DEF ReservedNew
  <2> QED BY <1>1, <1>3, <2>1
<1> QED BY <1>2, <1>3

\* Worker w gives up its place and keeps nothing: it is done, or what it created waits
\* to be released.
LEMMA GiveUp ==
  ASSUME IInv, NEW w \in Workers, NEW o \in Operation, Become(w, o),
         Balanced(owner', live', w),
         pending' = Cardinality(ReservedNew \ {w}), pending' \in Nat,
         UNCHANGED <<tables, held, process>>,
         ShapeOK(o), o.res = "none",
         o.state = NoState \/ o.state = op[w].state,
         o.src = NoState \/ (o.src = op[w].src /\ o.adapter = op[w].adapter),
         o.kind # "release" 
  PROVE  IInv'
<1> USE DEF IInv
<1>1. UNCHANGED <<models, compat, held, process>> BY DEF tables
<1>2. /\ op' \in [Workers -> Operation] /\ op'[w] = o
      /\ \A v \in Workers \ {w} : op'[v] = op[v]
      /\ ReservedNew' = ReservedNew \ {w} /\ \A i : ReservedOn(i)' = ReservedOn(i) \ {w}
  BY BecomeFacts
<1>3. TypeOK' BY <1>1, <1>2 DEF TypeOK, Balanced
<1>4. LinkOK(o)' BY <1>1 DEF LinkOK
<1>5. \A v \in Workers \ {w} : LinkOK(op[v])' BY <1>1, <1>2 DEF LinkOK, Balanced
<1>6. (\A v \in Workers : ShapeOK(op[v]) /\ LinkOK(op[v]))' /\ Exclusive'
  <2>1. \A v \in Workers \ {w} : o.state # NoState => op[v].state # o.state
    BY DEF Exclusive
  <2>2. \A v \in Workers \ {w} : op[v].kind = "release" => op[v].src # NoState
    BY DEF ShapeOK
  <2>3. \A v \in Workers \ {w} : o.kind = "release" \/ op[v].kind = "release"
                                 => op[v].src # o.src
    BY <2>2 DEF Exclusive
  <2> QED BY <1>4, <1>5, <2>1, <2>3, OperationsOK
<1>7. CountsOK' BY <1>1, <1>2 DEF CountsOK, HeldBy, Balanced
<1>8. OwnersOK' BY <1>1 DEF OwnersOK, Balanced
<1> QED BY <1>1, <1>3, <1>6, <1>7, <1>8

LEMMA DropReservationStep ==
  ASSUME IInv, NEW w \in Workers, DropReservation(w)
  PROVE  IInv'
<1>1. op[w] \in Operation /\ ShapeOK(op[w]) BY DEF IInv, TypeOK
<1>2. /\ op[w].pc = "reserved" /\ op[w].res \in {"new", "existing"}
      /\ Become(w, Idle) /\ UNCHANGED <<tables, process, held>>
  BY <1>1 DEF DropReservation, ShapeOK, Operation
<1>3. pending' = Cardinality(ReservedNew \ {w}) /\ pending' \in Nat
  BY <1>2, PendingWithout DEF DropReservation
<1>4. Balanced(owner', live', w)
  <2>1. CASE op[w].res = "new"
    <3>1. owner' = owner /\ live' = live BY <2>1 DEF DropReservation
    <3> QED BY <2>1, <3>1, BalancedNew
  <2>2. CASE op[w].res = "existing"
    <3>1. /\ CanRelease(op[w].inst, op[w].adapter)
          /\ Balanced(OwnerWithout(op[w].inst), LiveWithout(op[w].inst), w)
      BY <2>2, BalancedExisting
    <3>2. owner' = OwnerWithout(op[w].inst) /\ live' = LiveWithout(op[w].inst)
      BY <2>2, <3>1 DEF DropReservation
    <3> QED BY <3>1, <3>2
  <2> QED BY <1>2, <2>1, <2>2
<1> QED BY <1>2, <1>3, <1>4, GiveUp, IdleShape

\* Worker w gives up its place and the control plane holds the state it created.
LEMMA KeepState ==
  ASSUME IInv, NEW w \in Workers, Become(w, Idle), op[w].pc = "produced",
         NEW own, NEW liv, Balanced(own, liv, w),
         NEW i \in Instances, i = InstanceOf(op[w].state),
         own[i] = op[w].adapter \/ own[i] = NoAdapter,
         owner' = [own EXCEPT ![i] = op[w].adapter], live' = [liv EXCEPT ![i] = @ + 1],
         pending' = Cardinality(ReservedNew \ {w}), pending' \in Nat,
         held' = held \cup {op[w].state}, UNCHANGED <<tables, process>>
  PROVE  IInv'
<1> USE DEF IInv
<1>1. op[w] \in Operation /\ ShapeOK(op[w]) /\ LinkOK(op[w]) BY DEF TypeOK
<1>2. /\ op[w].adapter \in Adapters /\ op[w].state # NoState /\ op[w].state \notin held
      /\ op[w].state \in States /\ MakerOf(op[w].state) = op[w].adapter
  BY <1>1 DEF ShapeOK, LinkOK, Operation
<1>3. /\ op' \in [Workers -> Operation] /\ op'[w] = Idle
      /\ \A v \in Workers \ {w} : op'[v] = op[v]
      /\ ReservedNew' = ReservedNew \ {w} /\ \A j : ReservedOn(j)' = ReservedOn(j) \ {w}
  BY BecomeFacts, IdleShape
<1>4. /\ owner' \in [Instances -> Adapters \cup {NoAdapter}] /\ live' \in [Instances -> Nat]
      /\ owner'[i] = op[w].adapter /\ live'[i] = liv[i] + 1 /\ liv[i] \in Nat
      /\ \A j \in Instances \ {i} : owner'[j] = own[j] /\ live'[j] = liv[j]
  BY <1>2 DEF Balanced
<1>5. held' \in SUBSET States /\ IsFiniteSet(held')
  BY <1>2, AddOne DEF TypeOK
<1>6. TypeOK' BY <1>3, <1>4, <1>5 DEF TypeOK, tables
<1>7. (\A v \in Workers : ShapeOK(op[v]) /\ LinkOK(op[v]))' /\ Exclusive'
  <2>1. ASSUME NEW v \in Workers \ {w} PROVE LinkOK(op[v])'
    <3>1. LinkOK(op[v]) /\ op'[v] = op[v] BY <1>3
    <3>2. op[v].state # NoState => op[v].state # op[w].state BY DEF Exclusive
    <3>3. op[v].res = "existing" => op[v].inst \in Instances
      <4>1. ShapeOK(op[v]) OBVIOUS
      <4> QED BY <4>1 DEF ShapeOK
    <3>4. op[v].res = "existing" => owner'[op[v].inst] = op[v].adapter
      <4> SUFFICES ASSUME op[v].res = "existing" PROVE owner'[op[v].inst] = op[v].adapter
        OBVIOUS
      <4>1. own[op[v].inst] = op[v].adapter /\ op[v].adapter \in Adapters
        <5>1. ShapeOK(op[v]) OBVIOUS
        <5>2. op[v].pc \notin {"idle", "selecting"} BY <5>1 DEF ShapeOK
        <5> QED BY <5>1, <5>2 DEF Balanced, ShapeOK
      <4> QED BY <1>4, <3>3, <4>1, NamesAssumption
    <3> QED BY <3>1, <3>2, <3>4 DEF LinkOK
  <2>2. LinkOK(Idle)' BY IdleShape DEF LinkOK
  <2>3. \A v \in Workers \ {w} : op[v].kind = "release" => op[v].src # NoState
    BY DEF ShapeOK
  <2> QED BY <2>1, <2>2, <2>3, OperationsOK, IdleShape
<1>8. CountsOK'
  <2>1. ASSUME NEW j \in Instances
        PROVE  live'[j] = Cardinality(HeldBy(j)') + Cardinality(ReservedOn(j)')
    <3>1. /\ liv[j] = Cardinality(HeldBy(j)) + Cardinality(ReservedOn(j)')
          /\ IsFiniteSet(HeldBy(j)) /\ Cardinality(HeldBy(j)) \in Nat
          /\ Cardinality(ReservedOn(j)') \in Nat
      <4>1. IsFiniteSet(ReservedOn(j) \ {w})
        BY FiniteSets, FS_Subset
      <4> QED BY <1>3, <4>1, FiniteSets, FS_CardinalityType DEF Balanced
    <3>2. CASE j = i
      <4>1. HeldBy(j)' = HeldBy(j) \cup {op[w].state} /\ op[w].state \notin HeldBy(j)
        BY <1>2, <3>2 DEF HeldBy
      <4> QED BY <1>4, <3>1, <3>2, <4>1, AddOne
    <3>3. CASE j # i
      <4>1. HeldBy(j)' = HeldBy(j) BY <3>3 DEF HeldBy
      <4> QED BY <1>4, <3>1, <3>3, <4>1
    <3> QED BY <3>2, <3>3
  <2> QED BY <1>3, <2>1 DEF CountsOK
<1>9. OwnersOK'
  <2>1. ASSUME NEW j \in Instances PROVE owner'[j] = NoAdapter <=> live'[j] = 0
    <3>1. CASE j = i
      <4>1. owner'[j] # NoAdapter BY <1>2, <1>4, <3>1, NamesAssumption
      <4>2. live'[j] # 0 BY <1>4, <3>1
      <4> QED BY <4>1, <4>2
    <3>2. CASE j # i
      BY <1>4, <3>2 DEF Balanced
    <3> QED BY <3>1, <3>2
  <2>2. ASSUME NEW s \in held PROVE owner'[InstanceOf(s)] = MakerOf(s)
    <3>1. InstanceOf(s) \in Instances /\ MakerOf(s) \in Adapters
      BY DEF TypeOK, States, InstanceOf, MakerOf
    <3>2. own[InstanceOf(s)] = MakerOf(s) BY DEF Balanced
    <3> QED BY <1>4, <3>1, <3>2, NamesAssumption
  <2>3. owner'[InstanceOf(op[w].state)] = MakerOf(op[w].state) BY <1>2, <1>4
  <2> QED BY <2>1, <2>2, <2>3 DEF OwnersOK
<1> QED BY <1>5, <1>6, <1>7, <1>8, <1>9

LEMMA CommitInPlaceStep ==
  ASSUME IInv, NEW w \in Workers, CommitInPlace(w)
  PROVE  IInv'
<1> USE DEF IInv
<1>1. op[w] \in Operation /\ ShapeOK(op[w]) /\ LinkOK(op[w]) BY DEF TypeOK
<1>2. /\ op[w].pc = "produced" /\ op[w].res = "existing" /\ op[w].inst \in Instances
      /\ InstanceOf(op[w].state) = op[w].inst /\ op[w].adapter \in Adapters
      /\ op[w].state # NoState /\ op[w].state \notin held /\ op[w].state \in States
      /\ MakerOf(op[w].state) = op[w].adapter /\ owner[op[w].inst] = op[w].adapter
  BY <1>1 DEF CommitInPlace, ShapeOK, LinkOK, Operation
<1>3. /\ held' = held \cup {op[w].state} /\ Become(w, Idle)
      /\ UNCHANGED <<models, compat, owner, live, pending, process>>
  BY DEF CommitInPlace, tables, counts
<1>4. /\ op' \in [Workers -> Operation] /\ op'[w] = Idle
      /\ \A v \in Workers \ {w} : op'[v] = op[v]
      /\ ReservedNew' = ReservedNew \ {w} /\ \A j : ReservedOn(j)' = ReservedOn(j) \ {w}
  BY <1>3, BecomeFacts, IdleShape
<1>5. held' \in SUBSET States /\ IsFiniteSet(held')
  BY <1>2, <1>3, AddOne DEF TypeOK
<1>6. TypeOK' BY <1>3, <1>4, <1>5 DEF TypeOK
<1>7. (\A v \in Workers : ShapeOK(op[v]) /\ LinkOK(op[v]))' /\ Exclusive'
  <2>1. ASSUME NEW v \in Workers \ {w} PROVE LinkOK(op[v])'
    <3>1. LinkOK(op[v]) /\ op'[v] = op[v] BY <1>4
    <3>2. op[v].state # NoState => op[v].state # op[w].state BY DEF Exclusive
    <3> QED BY <1>3, <3>1, <3>2 DEF LinkOK
  <2>2. LinkOK(Idle)' BY IdleShape DEF LinkOK
  <2>3. \A v \in Workers \ {w} : op[v].kind = "release" => op[v].src # NoState
    BY DEF ShapeOK
  <2> QED BY <1>3, <2>1, <2>2, <2>3, OperationsOK, IdleShape
<1>8. CountsOK'
  <2>1. ReservedNew' = ReservedNew BY <1>2, <1>4 DEF ReservedNew
  <2>2. ASSUME NEW j \in Instances
        PROVE  live'[j] = Cardinality(HeldBy(j)') + Cardinality(ReservedOn(j)')
    <3>1. /\ live[j] = Cardinality(HeldBy(j)) + Cardinality(ReservedOn(j))
          /\ IsFiniteSet(HeldBy(j)) /\ Cardinality(HeldBy(j)) \in Nat
          /\ IsFiniteSet(ReservedOn(j)) /\ Cardinality(ReservedOn(j)) \in Nat
      BY FiniteSets DEF CountsOK
    <3>2. CASE j = op[w].inst
      <4>1. HeldBy(j)' = HeldBy(j) \cup {op[w].state} /\ op[w].state \notin HeldBy(j)
        BY <1>2, <1>3, <3>2 DEF HeldBy
      <4>2. Cardinality(HeldBy(j)') = Cardinality(HeldBy(j)) + 1
        BY <3>1, <4>1, AddOne
      <4>3. w \in ReservedOn(j) BY <1>2, <3>2 DEF ReservedOn
      <4>4. Cardinality(ReservedOn(j)') = Cardinality(ReservedOn(j)) - 1
        BY <1>4, <3>1, <4>3, RemoveOne
      <4> QED BY <1>3, <3>1, <4>2, <4>4
    <3>3. CASE j # op[w].inst
      <4>1. HeldBy(j)' = HeldBy(j) BY <1>2, <1>3, <3>3 DEF HeldBy
      <4>2. ReservedOn(j)' = ReservedOn(j)
        <5>1. w \notin ReservedOn(j) BY <3>3 DEF ReservedOn
        <5> QED BY <1>4, <5>1
      <4> QED BY <1>3, <3>1, <4>1, <4>2
    <3> QED BY <3>2, <3>3
  <2> QED BY <1>3, <2>1, <2>2 DEF CountsOK
<1>9. OwnersOK' BY <1>2, <1>3 DEF OwnersOK
<1> QED BY <1>5, <1>6, <1>7, <1>8, <1>9

LEMMA CommitElsewhereStep ==
  ASSUME IInv, NEW w \in Workers, CommitElsewhere(w)
  PROVE  IInv'
<1>1. op[w] \in Operation /\ ShapeOK(op[w]) /\ LinkOK(op[w]) BY DEF IInv, TypeOK
<1>2. /\ op[w].pc = "produced" /\ op[w].res \in {"new", "existing"}
      /\ op[w].adapter \in Adapters /\ op[w].kind \in CreatingKinds
      /\ op[w].state # NoState /\ op[w].state \in States
      /\ MakerOf(op[w].state) = op[w].adapter
      /\ UNCHANGED <<tables, process>>
  BY <1>1 DEF CommitElsewhere, ShapeOK, Operation
<1>3. PICK i \in Instances : i = InstanceOf(op[w].state)
  BY <1>2 DEF States, InstanceOf
<1>4. PICK own, liv :
        /\ Balanced(own, liv, w)
        /\ own = IF op[w].res = "existing" THEN OwnerWithout(op[w].inst) ELSE owner
        /\ liv = IF op[w].res = "existing" THEN LiveWithout(op[w].inst) ELSE live
        /\ op[w].res = "existing" => CanRelease(op[w].inst, op[w].adapter)
  BY BalancedNew, BalancedExisting
<1>5. pending' = Cardinality(ReservedNew \ {w}) /\ pending' \in Nat
  <2>1. pending' = IF op[w].res = "existing" THEN pending ELSE pending - 1
    BY DEF CommitElsewhere
  <2> QED BY <1>2, <2>1, PendingWithout
<1> DEFINE recorded == CanRecord(own, i, op[w].adapter)
<1>6. /\ owner' = IF recorded THEN [own EXCEPT ![i] = op[w].adapter] ELSE own
      /\ live' = IF recorded THEN [liv EXCEPT ![i] = @ + 1] ELSE liv
      /\ held' = IF recorded THEN held \cup {op[w].state} ELSE held
      /\ Become(w, IF recorded THEN Idle ELSE [op[w] EXCEPT !.pc = "rejected", !.res = "none"])
  BY <1>2, <1>3, <1>4 DEF CommitElsewhere
<1>7. CASE recorded
  <2>1. own[i] = op[w].adapter \/ own[i] = NoAdapter BY <1>7 DEF CanRecord
  <2>2. /\ owner' = [own EXCEPT ![i] = op[w].adapter] /\ live' = [liv EXCEPT ![i] = @ + 1]
        /\ held' = held \cup {op[w].state} /\ Become(w, Idle)
    BY <1>6, <1>7
  <2> HIDE DEF recorded
  <2> QED BY <1>2, <1>3, <1>4, <1>5, <2>1, <2>2, KeepState
<1>8. CASE ~recorded
  <2>1. PICK o \in Operation :
          /\ Become(w, o) /\ o.pc = "rejected" /\ o.res = "none" /\ o.state = op[w].state
          /\ o.src = op[w].src /\ o.adapter = op[w].adapter /\ o.kind = op[w].kind
    <3> DEFINE d == [op[w] EXCEPT !.pc = "rejected", !.res = "none"]
    <3>1. /\ d \in Operation /\ d.pc = "rejected" /\ d.res = "none" /\ d.state = op[w].state
          /\ d.src = op[w].src /\ d.adapter = op[w].adapter /\ d.kind = op[w].kind
      BY <1>1 DEF Operation, Places
    <3>2. Become(w, d) BY <1>6, <1>8
    <3> HIDE DEF d
    <3> QED BY <3>1, <3>2
  <2>2. ShapeOK(o) BY <1>1, <1>2, <2>1 DEF ShapeOK, CreatingKinds
  <2>3. owner' = own /\ live' = liv /\ held' = held BY <1>6, <1>8
  <2>4. o.kind # "release" BY <1>2, <2>1 DEF CreatingKinds
  <2>5. o.src = NoState \/ (o.src = op[w].src /\ o.adapter = op[w].adapter) BY <2>1
  <2>6. Balanced(owner', live', w) BY <1>4, <2>3
  <2> HIDE DEF recorded
  <2> QED BY <1>2, <1>5, <2>1, <2>2, <2>3, <2>4, <2>5, <2>6, GiveUp
<1> QED BY <1>7, <1>8

\* A confirmed release gives up the live place of the state it released.
LEMMA FinishReleaseStep ==
  ASSUME IInv, NEW w \in Workers, FinishRelease(w)
  PROVE  IInv'
<1> USE DEF IInv
<1>1. op[w] \in Operation /\ ShapeOK(op[w]) /\ LinkOK(op[w]) BY DEF TypeOK
<1>2. /\ op[w].pc = "released" /\ op[w].kind = "release" /\ op[w].src # NoState
      /\ op[w].res = "none" /\ op[w].state = NoState
      /\ op[w].src \in held /\ op[w].src \in States /\ op[w].adapter = MakerOf(op[w].src)
      /\ op[w].adapter \in Adapters
  BY <1>1 DEF FinishRelease, ShapeOK, LinkOK, Operation
<1>3. PICK s \in held, i \in Instances : s = op[w].src /\ i = InstanceOf(s)
  BY <1>2 DEF States, InstanceOf
<1>4. CanRelease(i, op[w].adapter) /\ live[i] > 0 /\ live[i] \in Nat
  BY <1>2, <1>3, LivePositive DEF CanRelease, OwnersOK, TypeOK
<1>5. /\ owner' = OwnerWithout(i) /\ live' = LiveWithout(i) /\ held' = held \ {s}
      /\ Become(w, Idle) /\ UNCHANGED <<models, compat, pending, process>>
  BY <1>3, <1>4 DEF FinishRelease, tables
<1>6. /\ owner' \in [Instances -> Adapters \cup {NoAdapter}]
      /\ owner'[i] = IF live[i] = 1 THEN NoAdapter ELSE owner[i]
      /\ \A j \in Instances \ {i} : owner'[j] = owner[j]
  BY <1>5 DEF OwnerWithout, TypeOK
<1>7. /\ live' \in [Instances -> Nat] /\ live'[i] = live[i] - 1
      /\ \A j \in Instances \ {i} : live'[j] = live[j]
  BY <1>4, <1>5 DEF LiveWithout, TypeOK
<1>8. /\ op' \in [Workers -> Operation] /\ op'[w] = Idle
      /\ \A v \in Workers \ {w} : op'[v] = op[v]
      /\ ReservedNew' = ReservedNew /\ \A j : ReservedOn(j)' = ReservedOn(j)
  <2>1. w \notin ReservedNew /\ \A j : w \notin ReservedOn(j)
    BY <1>2 DEF ReservedNew, ReservedOn
  <2>2. /\ op' \in [Workers -> Operation] /\ op'[w] = Idle
        /\ \A v \in Workers \ {w} : op'[v] = op[v]
        /\ ReservedNew' = ReservedNew \ {w} /\ \A j : ReservedOn(j)' = ReservedOn(j) \ {w}
    BY <1>5, BecomeFacts, IdleShape
  <2> QED BY <2>1, <2>2
<1>9. held' \in SUBSET States /\ IsFiniteSet(held')
  BY <1>3, <1>5, RemoveOne DEF TypeOK
<1>10. TypeOK' BY <1>5, <1>6, <1>7, <1>8, <1>9 DEF TypeOK
<1>11. (\A v \in Workers : ShapeOK(op[v]) /\ LinkOK(op[v]))' /\ Exclusive'
  <2>1. ASSUME NEW v \in Workers \ {w} PROVE LinkOK(op[v])'
    <3>1. LinkOK(op[v]) /\ ShapeOK(op[v]) /\ op'[v] = op[v] BY <1>8
    <3>2. op[v].src # s BY <1>2, <1>3 DEF Exclusive
    <3>3. op[v].res = "existing" => owner'[op[v].inst] = op[v].adapter
      <4> SUFFICES ASSUME op[v].res = "existing" PROVE owner'[op[v].inst] = op[v].adapter
        OBVIOUS
      <4>1. op[v].inst \in Instances /\ owner[op[v].inst] = op[v].adapter
        BY <3>1 DEF LinkOK, ShapeOK
      <4>2. op[v].inst = i => live[i] > 1 BY <1>3, LivePositive
      <4> QED BY <1>4, <1>6, <4>1, <4>2
    <3> QED BY <1>5, <3>1, <3>2, <3>3 DEF LinkOK
  <2>2. LinkOK(Idle)' BY IdleShape DEF LinkOK
  <2>3. \A v \in Workers \ {w} : op[v].kind = "release" => op[v].src # NoState
    BY DEF ShapeOK
  <2> QED BY <1>5, <2>1, <2>2, <2>3, OperationsOK, IdleShape
<1>12. CountsOK'
  <2>1. ASSUME NEW j \in Instances
        PROVE  live'[j] = Cardinality(HeldBy(j)') + Cardinality(ReservedOn(j)')
    <3>1. /\ live[j] = Cardinality(HeldBy(j)) + Cardinality(ReservedOn(j))
          /\ IsFiniteSet(HeldBy(j)) /\ Cardinality(HeldBy(j)) \in Nat
          /\ Cardinality(ReservedOn(j)) \in Nat
      BY FiniteSets DEF CountsOK
    <3>2. CASE j = i
      <4>1. HeldBy(j)' = HeldBy(j) \ {s} /\ s \in HeldBy(j)
        BY <1>3, <1>5, <3>2 DEF HeldBy
      <4>2. Cardinality(HeldBy(j)') = Cardinality(HeldBy(j)) - 1
        BY <3>1, <4>1, RemoveOne
      <4> QED BY <1>7, <1>8, <3>1, <3>2, <4>2
    <3>3. CASE j # i
      <4>1. HeldBy(j)' = HeldBy(j) BY <1>3, <1>5, <3>3 DEF HeldBy
      <4> QED BY <1>7, <1>8, <3>1, <3>3, <4>1
    <3> QED BY <3>2, <3>3
  <2> QED BY <1>5, <1>8, <2>1 DEF CountsOK
<1>13. OwnersOK'
  <2>1. ASSUME NEW j \in Instances PROVE owner'[j] = NoAdapter <=> live'[j] = 0
    <3>1. owner[j] = NoAdapter <=> live[j] = 0 BY DEF OwnersOK
    <3>2. CASE j = i BY <1>4, <1>6, <1>7, <3>1, <3>2
    <3>3. CASE j # i BY <1>6, <1>7, <3>1, <3>3
    <3> QED BY <3>2, <3>3
  <2>2. ASSUME NEW t \in held' PROVE owner'[InstanceOf(t)] = MakerOf(t)
    <3>1. t \in held /\ t # s /\ InstanceOf(t) \in Instances
      BY <1>5 DEF TypeOK, States, InstanceOf
    <3>2. owner[InstanceOf(t)] = MakerOf(t) BY <3>1 DEF OwnersOK
    <3>3. InstanceOf(t) = i => live[i] > 1 BY <1>3, <3>1, LivePositive
    <3> QED BY <1>4, <1>6, <3>1, <3>2, <3>3
  <2> QED BY <2>1, <2>2 DEF OwnersOK
<1> QED BY <1>9, <1>10, <1>11, <1>12, <1>13

-----------------------------------------------------------------------------
(* The invariant *)

LEMMA Initially ==
  ASSUME Init
  PROVE  IInv
<1>1. TypeOK
  <2>1. << >> \in Seq(Route) OBVIOUS
  <2> QED BY <2>1, IdleShape DEF Init, TypeOK, Instances
<1>2. held = {} /\ IsFiniteSet(held) BY FS_EmptySet DEF Init
<1>3. \A w \in Workers : op[w] = Idle BY DEF Init
<1>4. \A w \in Workers : ShapeOK(op[w]) /\ LinkOK(op[w])
  BY <1>3, IdleShape DEF LinkOK
<1>5. Exclusive BY <1>3, IdleShape DEF Exclusive
<1>6. CountsOK
  <2>1. ReservedNew = {} /\ \A i : ReservedOn(i) = {} /\ HeldBy(i) = {}
    BY <1>2, <1>3, IdleShape DEF ReservedNew, ReservedOn, HeldBy
  <2>2. Cardinality({}) = 0 BY FS_EmptySet
  <2>3. pending = 0 /\ \A i \in Instances : live[i] = 0 BY DEF Init
  <2>4. \A i : Cardinality(HeldBy(i)) = 0 /\ Cardinality(ReservedOn(i)) = 0
    BY <2>1, <2>2
  <2> QED BY <2>1, <2>2, <2>3, <2>4 DEF CountsOK
<1>7. OwnersOK BY <1>2 DEF OwnersOK, Init
<1> QED BY <1>1, <1>2, <1>4, <1>5, <1>6, <1>7 DEF IInv

LEMMA Preserved ==
  ASSUME IInv, [Next]_vars
  PROVE  IInv'
<1>1. models \in Seq(Route) /\ compat \in Seq(Route) /\ process \in [Adapters -> Instances]
  BY DEF IInv, TypeOK
<1>2. ASSUME NEW w \in Workers, CreateStep(w) PROVE IInv'
  BY <1>2, RestorePreparedStep, ReadDescriptorStep, ReserveExistingStep, ReserveNewStep,
     AbandonStep, ProduceStep, DropReservationStep, CommitInPlaceStep, CommitElsewhereStep,
     StartPrefillStep, StartOnStep DEF CreateStep
<1>3. ASSUME NEW w \in Workers, RouteStep(w) PROVE IInv'
  BY <1>3, FinishSelectionStep, RecordCompatibilityStep, BindPlanStep, FinishPlanStep,
     ResolvePlanStep, ResolveHitStep, ResolveMissStep DEF RouteStep
<1>4. ASSUME NEW w \in Workers, ReleaseStep(w) PROVE IInv'
  BY <1>4, BackendReleasesStep, FinishReleaseStep, StartOnStep DEF ReleaseStep
<1>5. ASSUME NEW m \in Models, NEW a \in Adapters, RecordModelAdapter(m, a) PROVE IInv'
  <2>1. models' = Record(models, m, a, MaxModelRoutes)
        /\ UNCHANGED <<compat, counts, process, held, op>>
    BY <1>5 DEF RecordModelAdapter
  <2>2. models' \in Seq(Route) BY <1>1, <2>1, BoundsAssumption, TablesTyped
  <2> QED BY <1>1, <2>1, <2>2, TablesStep
<1>6. ASSUME NEW a \in Adapters, Restart(a) PROVE IInv'
  <2>1. process' \in [Adapters -> Instances] /\ UNCHANGED <<models, compat, counts, held, op>>
    BY <1>1, <1>6 DEF Restart, tables
  <2> QED BY <1>1, <2>1, TablesStep
<1>7. CASE UNCHANGED vars
  <2>1. UNCHANGED <<models, compat, counts, process, held, op>> BY <1>7 DEF vars, tables
  <2> QED BY <1>1, <2>1, TablesStep
<1> QED BY <1>2, <1>3, <1>4, <1>5, <1>6, <1>7 DEF Next

\* The inductive invariant of the router holds throughout (StateRouteReservation).
THEOREM Invariant == Spec => []IInv
<1>1. Init => IInv BY Initially
<1>2. IInv /\ [Next]_vars => IInv' BY Preserved
<1> QED BY <1>1, <1>2, PTL DEF Spec

\* Every reachable state of the router is well typed.
THEOREM TypeCorrect == Spec => []TypeOK
<1>1. IInv => TypeOK BY DEF IInv
<1> QED BY <1>1, Invariant, PTL

\* No interleaving of reserving, committing, dropping and releasing leaks a place or
\* gives one up twice.
THEOREM CountsExact == Spec => []RouteCountExact
<1>1. IInv => RouteCountExact BY DEF IInv, CountsOK, OwnersOK, RouteCountExact
<1> QED BY <1>1, Invariant, PTL

\* Every held state is routed to the adapter that made it, and is worked on through it.
THEOREM StatesRouted == Spec => []StatesReachTheirAdapter
<1>1. IInv => StatesReachTheirAdapter BY DEF IInv, OwnersOK, LinkOK, StatesReachTheirAdapter
<1> QED BY <1>1, Invariant, PTL

-----------------------------------------------------------------------------
(* One route for a model *)

Distinct(t) == \A i, j \in 1..Len(t) : t[i].model = t[j].model => i = j
Misses(t, m) == \A i \in 1..Len(t) : t[i].model # m

TableOK(t, max) == t \in Seq(Route) /\ Distinct(t) /\ Len(t) <= max

TablesOK == TableOK(models, MaxModelRoutes) /\ TableOK(compat, MaxCompatRoutes)

\* Removing a route moves those behind it one place forward.
LEMMA RemoveKeeps ==
  ASSUME NEW t \in Seq(Route), NEW p \in 1..Len(t)
  PROVE  /\ RemoveRoute(t, p) \in Seq(Route) /\ Len(RemoveRoute(t, p)) = Len(t) - 1
         /\ \A i \in 1..(Len(t) - 1) : RemoveRoute(t, p)[i] = IF i < p THEN t[i] ELSE t[i + 1]
<1> DEFINE a == SubSeq(t, 1, p - 1)
           b == SubSeq(t, p + 1, Len(t))
<1>1. Len(t) \in Nat /\ p \in Nat /\ p >= 1 /\ p <= Len(t)
  OBVIOUS
<1>2. a \in Seq(Route) /\ Len(a) = p - 1 /\ \A i \in 1..(p - 1) : a[i] = t[i]
  BY <1>1
<1>3. b \in Seq(Route) /\ Len(b) = Len(t) - p /\ \A i \in 1..(Len(t) - p) : b[i] = t[p + i]
  BY <1>1
<1> HIDE DEF a, b
<1>4. a \o b \in Seq(Route) /\ Len(a \o b) = Len(t) - 1
  <2>1. a \o b \in Seq(Route) /\ Len(a \o b) = Len(a) + Len(b)
    BY <1>2, <1>3, ConcatProperties
  <2> QED BY <1>1, <1>2, <1>3, <2>1
<1>5. ASSUME NEW i \in 1..(Len(t) - 1) PROVE (a \o b)[i] = IF i < p THEN t[i] ELSE t[i + 1]
  <2>1. (a \o b)[i] = IF i <= Len(a) THEN a[i] ELSE b[i - Len(a)]
    BY <1>1, <1>2, <1>3, ConcatProperties
  <2>2. CASE i < p
    BY <1>1, <1>2, <2>1, <2>2
  <2>3. CASE ~(i < p)
    <3>1. i - (p - 1) \in 1..(Len(t) - p) /\ p + (i - (p - 1)) = i + 1
      BY <1>1, <2>3
    <3>2. b[i - (p - 1)] = t[i + 1]
      BY <1>3, <3>1
    <3> QED BY <1>1, <1>2, <2>1, <2>3, <3>2
  <2> QED BY <2>2, <2>3
<1> QED BY <1>4, <1>5 DEF RemoveRoute, a, b

\* retain(..): no route of the model is left.
LEMMA WithoutKeeps ==
  ASSUME NEW t \in Seq(Route), Distinct(t), NEW m \in Models
  PROVE  /\ Without(t, m) \in Seq(Route) /\ Distinct(Without(t, m)) /\ Misses(Without(t, m), m)
         /\ Len(Without(t, m)) <= Len(t)
         /\ Routes(t, m) => Len(Without(t, m)) < Len(t)
<1>1. CASE ~Routes(t, m)
  BY <1>1 DEF Without, Routes, Positions, Misses
<1>2. CASE Routes(t, m)
  <2>1. PICK p \in 1..Len(t) : t[p].model = m /\ Without(t, m) = RemoveRoute(t, p)
    <3>1. Position(t, m) \in Positions(t, m) BY <1>2 DEF Position, Routes
    <3> QED BY <1>2, <3>1 DEF Positions, Without
  <2> DEFINE r == RemoveRoute(t, p)
             at(i) == IF i < p THEN i ELSE i + 1
  <2>2. /\ Len(t) \in Nat /\ r \in Seq(Route) /\ Len(r) = Len(t) - 1
        /\ \A i \in 1..Len(r) : r[i] = t[at(i)]
    <3>1. /\ Len(t) \in Nat /\ r \in Seq(Route) /\ Len(r) = Len(t) - 1
          /\ \A i \in 1..(Len(t) - 1) : r[i] = IF i < p THEN t[i] ELSE t[i + 1]
      BY RemoveKeeps
    <3> HIDE DEF r
    <3> QED BY <3>1
  <2>3. /\ \A i \in 1..Len(r) : at(i) \in 1..Len(t) /\ at(i) # p
        /\ \A i, j \in 1..Len(r) : at(i) = at(j) => i = j
    BY <2>2
  <2> HIDE DEF r, at
  <2>4. Distinct(r) /\ Misses(r, m)
    BY <2>1, <2>2, <2>3 DEF Distinct, Misses
  <2>5. r = Without(t, m)
    BY <2>1 DEF r
  <2> QED BY <2>2, <2>4, <2>5
<1> QED BY <1>1, <1>2

\* Appending a route of a model that has none.
LEMMA AppendKeeps ==
  ASSUME NEW t \in Seq(Route), Distinct(t), NEW r \in Route, Misses(t, r.model)
  PROVE  /\ Append(t, r) \in Seq(Route) /\ Distinct(Append(t, r))
         /\ Len(Append(t, r)) = Len(t) + 1
<1> DEFINE u == Append(t, r)
<1>1. /\ Len(t) \in Nat /\ u \in Seq(Route) /\ Len(u) = Len(t) + 1
      /\ \A i \in 1..Len(t) : u[i] = t[i]
      /\ u[Len(t) + 1] = r
  OBVIOUS
<1> HIDE DEF u
<1>2. ASSUME NEW i \in 1..Len(u) PROVE (i \in 1..Len(t) /\ u[i] = t[i]) \/ (i = Len(t) + 1 /\ u[i] = r)
  BY <1>1
<1>3. ASSUME NEW i \in 1..Len(u), NEW j \in 1..Len(u), u[i].model = u[j].model PROVE i = j
  BY <1>2, <1>3 DEF Distinct, Misses
<1>4. Distinct(u)
  BY <1>3 DEF Distinct
<1> QED BY <1>1, <1>4 DEF u

\* push_bounded(..): the least recently used route makes room.
LEMMA PushKeeps ==
  ASSUME NEW max \in Nat \ {0}, NEW t, TableOK(t, max), NEW m \in Models, Misses(t, m), NEW a \in Adapters
  PROVE  TableOK(PushBounded(t, [model |-> m, adapter |-> a], max), max)
<1> DEFINE r == [model |-> m, adapter |-> a]
<1>1. r \in Route /\ r.model = m /\ t \in Seq(Route) /\ Distinct(t) /\ Len(t) <= max /\ Len(t) \in Nat
  BY DEF TableOK, Route
<1> HIDE DEF r
<1>2. CASE Len(t) = max
  <2> DEFINE u == Tail(t)
  <2>1. /\ u \in Seq(Route) /\ Len(u) = max - 1 /\ \A i \in 1..Len(u) : u[i] = t[i + 1]
    BY <1>1, <1>2
  <2> HIDE DEF u
  <2>2. Distinct(u) /\ Misses(u, m)
    <3>1. \A i \in 1..Len(u) : i + 1 \in 1..Len(t)
      BY <1>1, <1>2, <2>1
    <3>2. \A i, j \in 1..Len(u) : i + 1 = j + 1 => i = j
      OBVIOUS
    <3> QED BY <2>1, <3>1, <3>2, <1>1 DEF Distinct, Misses
  <2>3. TableOK(Append(u, r), max)
    BY <1>1, <2>1, <2>2, AppendKeeps DEF TableOK
  <2> QED BY <1>2, <2>3 DEF PushBounded, u, r
<1>3. CASE Len(t) # max
  <2>1. TableOK(Append(t, r), max)
    BY <1>1, <1>3, AppendKeeps DEF TableOK
  <2> QED BY <1>3, <2>1 DEF PushBounded, r
<1> QED BY <1>2, <1>3

\* Using and recording a route keeps the table.
LEMMA TablesKept ==
  ASSUME NEW max \in Nat \ {0}, NEW t, TableOK(t, max), NEW m \in Models
  PROVE  /\ Routes(t, m) => TableOK(Touch(t, m), max)
         /\ ~Routes(t, m) => \A a \in Adapters :
              TableOK(PushBounded(t, [model |-> m, adapter |-> a], max), max)
         /\ \A a \in Adapters : TableOK(Record(t, m, a, max), max)
<1> DEFINE w == Without(t, m)
<1>1. /\ t \in Seq(Route) /\ Len(t) \in Nat /\ Len(w) \in Nat /\ Len(t) <= max
      /\ w \in Seq(Route) /\ Distinct(w) /\ Misses(w, m) /\ Len(w) <= Len(t)
      /\ Routes(t, m) => Len(w) < Len(t)
  BY WithoutKeeps DEF TableOK
<1> HIDE DEF w
<1>2. ASSUME Routes(t, m) PROVE TableOK(Touch(t, m), max)
  <2>1. Position(t, m) \in Positions(t, m) BY <1>2 DEF Position, Routes
  <2>2. Found(t, m) \in Route /\ Found(t, m).model = m
    BY <1>1, <2>1 DEF Positions, Found
  <2>3. TableOK(Append(w, Found(t, m)), max)
    BY <1>1, <1>2, <2>2, AppendKeeps DEF TableOK
  <2> QED BY <2>3 DEF Touch, w
<1>3. ASSUME ~Routes(t, m), NEW a \in Adapters
      PROVE  TableOK(PushBounded(t, [model |-> m, adapter |-> a], max), max)
  <2>1. Misses(t, m)
    BY <1>3 DEF Misses, Routes, Positions
  <2> QED BY <2>1, PushKeeps
<1>4. ASSUME NEW a \in Adapters PROVE TableOK(Record(t, m, a, max), max)
  <2>1. TableOK(w, max)
    BY <1>1 DEF TableOK
  <2> QED BY <1>1, <2>1, PushKeeps DEF Record, w
<1> QED BY <1>2, <1>3, <1>4

LEMMA StepKeepsTables == IInv /\ TablesOK /\ [Next]_vars => TablesOK'
<1> SUFFICES ASSUME IInv, TablesOK, [Next]_vars PROVE TablesOK'
  OBVIOUS
<1>1. MaxModelRoutes \in Nat \ {0} /\ MaxCompatRoutes \in Nat \ {0}
  BY BoundsAssumption
<1>2. ASSUME UNCHANGED tables PROVE TablesOK'
  BY <1>2 DEF tables, TablesOK
<1>3. ASSUME NEW m \in Models, models' = Touch(models, m), Routes(models, m), compat' = compat PROVE TablesOK'
  BY <1>1, <1>3, TablesKept DEF TablesOK
<1>4. ASSUME NEW m \in Models, compat' = Touch(compat, m), Routes(compat, m), models' = models PROVE TablesOK'
  BY <1>1, <1>4, TablesKept DEF TablesOK
<1>5. ASSUME NEW m \in Models, NEW a \in Adapters, models' = models,
             compat' = Record(compat, m, a, MaxCompatRoutes)
      PROVE  TablesOK'
  BY <1>1, <1>5, TablesKept DEF TablesOK
<1>6. ASSUME NEW w \in Workers, CreateStep(w) PROVE TablesOK'
  BY <1>2, <1>4, <1>6 DEF CreateStep, RestorePrepared, ReadDescriptor, ReserveExisting, ReserveNew, Abandon,
     Produce, DropReservation, CommitInPlace, CommitElsewhere, ReleaseRejected, StartPrefill, StartDerive, tables
<1>7. ASSUME NEW w \in Workers, RouteStep(w) PROVE TablesOK'
  <2>1. ShapeOK(op[w]) BY DEF IInv
  <2>2. ASSUME FinishSelection(w) PROVE TablesOK'
    <3>1. op[w].model \in Models /\ compat' = compat
      BY <2>1, <2>2 DEF FinishSelection, ShapeOK
    <3>2. CASE Routes(models, op[w].model)
      BY <1>3, <2>2, <3>1, <3>2 DEF FinishSelection
    <3>3. CASE ~Routes(models, op[w].model)
      <4>1. PICK a \in Adapters :
              models' = PushBounded(models, [model |-> op[w].model, adapter |-> a], MaxModelRoutes)
        BY <2>2, <3>3 DEF FinishSelection
      <4> QED BY <1>1, <3>1, <3>3, <4>1, TablesKept DEF TablesOK
    <3> QED BY <3>2, <3>3
  <2>3. ASSUME RecordCompatibility(w) \/ FinishPlan(w) PROVE TablesOK'
    <3>1. op[w].model \in Models /\ op[w].adapter \in Adapters
      BY <2>1, <2>3 DEF RecordCompatibility, FinishPlan, ShapeOK
    <3> QED BY <1>5, <2>3, <3>1 DEF RecordCompatibility, FinishPlan
  <2>4. ASSUME BindPlan(w) PROVE TablesOK'
    BY <1>2, <2>4 DEF BindPlan
  <2>5. ASSUME NEW m \in Models, ResolvePlan(w, m) PROVE TablesOK'
    BY <1>4, <2>5 DEF ResolvePlan
  <2>6. ASSUME NEW m \in Models, NEW k \in Kinds, ResolveHit(w, k, m) PROVE TablesOK'
    BY <1>3, <2>6 DEF ResolveHit
  <2>7. ASSUME NEW m \in Models, NEW k \in Kinds, ResolveMiss(w, k, m) PROVE TablesOK'
    BY <1>2, <2>7 DEF ResolveMiss
  <2> QED BY <1>7, <2>2, <2>3, <2>4, <2>5, <2>6, <2>7 DEF RouteStep
<1>8. ASSUME NEW w \in Workers, ReleaseStep(w) PROVE TablesOK'
  BY <1>2, <1>8 DEF ReleaseStep, BackendReleases, FinishRelease, StartRelease
<1>9. ASSUME NEW m \in Models, NEW a \in Adapters, RecordModelAdapter(m, a) PROVE TablesOK'
  BY <1>1, <1>9, TablesKept DEF RecordModelAdapter, TablesOK
<1>10. ASSUME UNCHANGED vars \/ (\E a \in Adapters : Restart(a)) PROVE TablesOK'
  BY <1>2, <1>10 DEF vars, Restart
<1> QED BY <1>6, <1>7, <1>8, <1>9, <1>10 DEF Next

\* However resolvers that selected without the lock interleave, a model has one route
\* in each table, and the tables stay within their bounds.
THEOREM RoutesAreUnique == Spec => []OneRoutePerModel
<1>1. Init => TablesOK
  BY BoundsAssumption DEF Init, TablesOK, TableOK, Distinct
<1>2. ASSUME NEW t, Distinct(t), NEW m PROVE Cardinality(Positions(t, m)) <= 1
  <2>1. \A i, j \in Positions(t, m) : i = j
    BY <1>2 DEF Distinct, Positions
  <2>2. Positions(t, m) = {} \/ (\E i : Positions(t, m) = {i})
    <3> SUFFICES ASSUME NEW i \in Positions(t, m) PROVE Positions(t, m) = {i}
      OBVIOUS
    <3> QED BY <2>1
  <2>3. Cardinality(Positions(t, m)) = 0 \/ Cardinality(Positions(t, m)) = 1
    BY <2>2, FS_EmptySet, FS_Singleton
  <2> QED BY <2>3
<1>3. TablesOK => OneRoutePerModel
  BY <1>2 DEF TablesOK, TableOK, OneRoutePerModel
<1> QED BY <1>1, <1>3, StepKeepsTables, Invariant, PTL DEF Spec

-----------------------------------------------------------------------------
(* One permit *)

\* Where one operation at a time may create a state, one worker does, and the routed
\* instances leave room for the place it has reserved.
PermitOK ==
  Permits = 1 => /\ \A v, w \in Creating : v = w
                 /\ Cardinality(Routed) + pending <= MaxInstanceRoutes

\* Worker w alone acts, and creates a state only if it did or has just begun to.
Acts(w) ==
  /\ \A v \in Workers : v # w => op'[v] = op[v]
  /\ op'[w].kind \in CreatingKinds => op[w].kind \in CreatingKinds \/ Start(w, op'[w].kind)

LEMMA NobodyElseCreates ==
  ASSUME PermitOK, Permits = 1, NEW w \in Workers, Acts(w)
  PROVE  \A v, u \in Creating' : v = u
<1>1. Creating' \subseteq Creating \cup {w}
  BY DEF Acts, Creating
<1>2. CASE w \in Creating' /\ w \notin Creating
  <2>1. Cardinality(Creating) < 1
    BY <1>2 DEF Acts, Creating, CreatingKinds, Start
  <2>2. IsFiniteSet(Creating)
    BY NamesAssumption, FS_Subset DEF Creating
  <2>3. Cardinality(Creating) = 0
    BY <2>1, <2>2, FS_CardinalityType
  <2>4. Creating = {}
    BY <2>2, <2>3, FS_EmptySet
  <2> QED BY <1>1, <2>4
<1>3. CASE w \notin Creating' \/ w \in Creating
  BY <1>1, <1>3 DEF PermitOK
<1> QED BY <1>2, <1>3

\* What Become says of the kind of the operation.
LEMMA BecomeActs ==
  ASSUME TypeOK, NEW w \in Workers
  PROVE  /\ Become(w, Idle) => Acts(w)
         /\ \A p : Become(w, [op[w] EXCEPT !.pc = p]) => Acts(w)
         /\ \A p, x : Become(w, [op[w] EXCEPT !.pc = p, !.inst = x]) => Acts(w)
         /\ \A p, x : Become(w, [op[w] EXCEPT !.pc = p, !.res = x]) => Acts(w)
         /\ \A p, x : Become(w, [op[w] EXCEPT !.pc = p, !.state = x]) => Acts(w)
         /\ \A p, x : Become(w, [op[w] EXCEPT !.pc = p, !.adapter = x]) => Acts(w)
<1>1. op \in [Workers -> Operation] /\ op[w] \in Operation
  BY DEF TypeOK
<1>2. ASSUME NEW o, Become(w, o) PROVE op'[w] = o /\ \A v \in Workers : v # w => op'[v] = op[v]
  BY <1>1, <1>2 DEF Become
<1>3. ASSUME NEW o, Become(w, o), o.kind = op[w].kind \/ o.kind = "none" PROVE Acts(w)
  BY <1>2, <1>3 DEF Acts, CreatingKinds
<1>4. Idle.kind = "none"
  BY DEF Idle
<1>5. /\ \A p : [op[w] EXCEPT !.pc = p].kind = op[w].kind
      /\ \A p, x : /\ [op[w] EXCEPT !.pc = p, !.inst = x].kind = op[w].kind
                   /\ [op[w] EXCEPT !.pc = p, !.res = x].kind = op[w].kind
                   /\ [op[w] EXCEPT !.pc = p, !.state = x].kind = op[w].kind
                   /\ [op[w] EXCEPT !.pc = p, !.adapter = x].kind = op[w].kind
  BY <1>1 DEF Operation
<1> QED BY <1>3, <1>4, <1>5

\* Starting an operation.
LEMMA StartActs ==
  ASSUME TypeOK, NEW w \in Workers, NEW o, Become(w, o), Start(w, o.kind)
  PROVE  Acts(w)
BY DEF TypeOK, Become, Acts

LEMMA RoutedFinite == IsFiniteSet(Routed) /\ Cardinality(Routed) \in Nat
<1>1. IsFiniteSet(Instances)
  BY BoundsAssumption, FS_Interval DEF Instances
<1>2. Routed \subseteq Instances
  BY DEF Routed
<1> QED BY <1>1, <1>2, FS_Subset, FS_CardinalityType

\* A step that routes no further instance and reserves no place.
LEMMA NoMoreRoutes ==
  ASSUME IInv, PermitOK, \A i \in Instances : owner'[i] # NoAdapter => owner[i] # NoAdapter,
         pending' \in Int, pending' <= pending, Permits = 1
  PROVE  Cardinality(Routed') + pending' <= MaxInstanceRoutes
<1>1. Routed' \subseteq Routed
  BY DEF Routed
<1>2. IsFiniteSet(Routed') /\ Cardinality(Routed') <= Cardinality(Routed)
  BY <1>1, RoutedFinite, FS_Subset
<1>3. Cardinality(Routed') \in Nat /\ Cardinality(Routed) \in Nat /\ pending \in Nat
  BY <1>2, RoutedFinite, FS_CardinalityType DEF IInv, TypeOK
<1>4. MaxInstanceRoutes \in Nat
  BY BoundsAssumption
<1> QED BY <1>2, <1>3, <1>4 DEF PermitOK

\* The places of a step that records an instance are free: it gives its own up, or,
\* where it moves, nobody has reserved one.
LEMMA CommitElsewhereFits ==
  ASSUME IInv, PermitOK, Permits = 1, NEW w \in Workers, CommitElsewhere(w)
  PROVE  Cardinality(Routed') + pending' <= MaxInstanceRoutes
<1> DEFINE o == op[w]
           i == InstanceOf(o.state)
           moved == o.res = "existing"
           given == moved => CanRelease(o.inst, o.adapter)
           own == IF moved /\ given THEN OwnerWithout(o.inst) ELSE owner
           recorded == given /\ CanRecord(own, i, o.adapter)
           R == {j \in Instances : own[j] # NoAdapter}
<1>1. /\ owner' = IF recorded THEN [own EXCEPT ![i] = o.adapter] ELSE own
      /\ pending' = IF moved THEN pending ELSE pending - 1
  BY DEF CommitElsewhere
<1>2. /\ op[w] \in Operation /\ ShapeOK(op[w]) /\ op[w].pc = "produced"
      /\ o.res \in {"new", "existing"} /\ o.kind \in CreatingKinds /\ o.adapter \in Adapters
      /\ o.state \in States /\ i \in Instances /\ pending \in Nat
      /\ o.inst \in Instances
  <2>1. op[w] \in Operation /\ ShapeOK(op[w]) /\ op[w].pc = "produced" /\ pending \in Nat
    BY DEF CommitElsewhere, IInv, TypeOK
  <2>2. o.res \in {"new", "existing"} /\ o.kind \in CreatingKinds /\ o.adapter \in Adapters
    BY <2>1 DEF ShapeOK, Operation
  <2>3. o.state \in States
    BY <2>1 DEF ShapeOK, Operation
  <2>4. o.inst \in Instances
    BY <2>1 DEF ShapeOK
  <2> QED BY <2>1, <2>2, <2>3, <2>4 DEF States, InstanceOf
<1>3. own \in [Instances -> Adapters \cup {NoAdapter}] /\ R \subseteq Routed
  BY <1>2 DEF OwnerWithout, Routed, IInv, TypeOK
<1>4. /\ IsFiniteSet(R) /\ Cardinality(R) \in Nat /\ Cardinality(R) <= Cardinality(Routed)
      /\ Cardinality(Routed) \in Nat
  <2> HIDE DEF R
  <2> QED BY <1>3, RoutedFinite, FS_Subset, FS_CardinalityType
<1>5. MaxInstanceRoutes \in Nat /\ Cardinality(Routed) + pending <= MaxInstanceRoutes
  BY BoundsAssumption DEF PermitOK
<1>6. moved => pending = 0
  <2> SUFFICES ASSUME moved PROVE pending = 0
    OBVIOUS
  <2>1. ReservedNew = {}
    <3> SUFFICES ASSUME NEW v \in Workers, op[v].res = "new" PROVE FALSE
      BY DEF ReservedNew
    <3>1. op[v].kind \in CreatingKinds
      BY DEF IInv, ShapeOK
    <3>2. v \in Creating /\ w \in Creating
      BY <1>2, <3>1 DEF Creating, CreatingKinds
    <3> QED BY <3>2 DEF PermitOK
  <2>2. pending = Cardinality(ReservedNew)
    BY DEF IInv, CountsOK
  <2> QED BY <2>1, <2>2, FS_EmptySet
<1>7. pending' \in Nat /\ (recorded /\ ~moved => pending' = pending - 1) /\ pending' <= pending
  <2>1. ~moved => pending > 0
    <3> SUFFICES ASSUME ~moved PROVE pending > 0
      OBVIOUS
    <3>1. w \in ReservedNew
      BY <1>2 DEF ReservedNew
    <3>2. IsFiniteSet(ReservedNew)
      BY FiniteSets DEF IInv
    <3>3. Cardinality(ReservedNew) >= 1
      BY <3>1, <3>2, RemoveOne
    <3> QED BY <1>2, <3>3 DEF IInv, CountsOK
  <2> QED BY <1>1, <1>2, <2>1
<1>8. CASE ~recorded \/ own[i] # NoAdapter
  <2>1. Routed' \subseteq R
    BY <1>1, <1>2, <1>3, <1>8 DEF Routed
  <2>2. IsFiniteSet(Routed') /\ Cardinality(Routed') <= Cardinality(R)
    <3> HIDE DEF R
    <3> QED BY <1>4, <2>1, FS_Subset
  <2>3. Cardinality(Routed') \in Nat
    BY <2>2, FS_CardinalityType
  <2> HIDE DEF R, recorded, own
  <2> QED BY <1>2, <1>4, <1>5, <1>7, <2>2, <2>3
<1>9. CASE recorded /\ own[i] = NoAdapter
  <2>1. Routed' \subseteq R \cup {i}
    BY <1>1, <1>2, <1>3, <1>9 DEF Routed
  <2>2. Cardinality(R) # MaxInstanceRoutes
    <3>1. own[i] # o.adapter
      BY <1>2, <1>9, NamesAssumption
    <3> HIDE DEF own
    <3> QED BY <1>9, <3>1 DEF CanRecord
  <2>3. i \notin R
    BY <1>9
  <2> HIDE DEF R
  <2>4. IsFiniteSet(R \cup {i}) /\ Cardinality(R \cup {i}) = Cardinality(R) + 1
    BY <1>4, <2>3, AddOne
  <2>5. IsFiniteSet(Routed') /\ Cardinality(Routed') <= Cardinality(R \cup {i})
    BY <2>1, <2>4, FS_Subset
  <2>6. Cardinality(Routed') \in Nat
    BY <2>5, FS_CardinalityType
  <2>7. moved => pending' = pending
    BY <1>1
  <2> HIDE DEF moved, recorded, own
  <2> QED BY <1>2, <1>4, <1>5, <1>6, <1>7, <1>9, <2>2, <2>4, <2>5, <2>6, <2>7
<1> QED BY <1>8, <1>9

LEMMA StepKeepsPermit == IInv /\ IInv' /\ PermitOK /\ [Next]_vars => PermitOK'
<1> SUFFICES ASSUME IInv, IInv', PermitOK, [Next]_vars, Permits = 1
             PROVE  /\ \A v, w \in Creating' : v = w
                    /\ Cardinality(Routed') + pending' <= MaxInstanceRoutes
  BY DEF PermitOK
<1> DEFINE OneCreates == \A v, w \in Creating' : v = w
           Fits == Cardinality(Routed') + pending' <= MaxInstanceRoutes
<1>0. TypeOK /\ pending \in Nat /\ pending' \in Nat /\ op \in [Workers -> Operation] /\ live \in [Instances -> Nat]
      /\ owner \in [Instances -> Adapters \cup {NoAdapter}]
  BY DEF IInv, TypeOK
<1>1. ASSUME op' = op PROVE OneCreates
  BY <1>1 DEF Creating, PermitOK
<1>2. ASSUME UNCHANGED counts PROVE Fits
  BY <1>0, <1>2, NoMoreRoutes DEF counts
<1>3. ASSUME NEW w \in Workers, CreateStep(w) PROVE OneCreates /\ Fits
  <2>1. ASSUME \/ RestorePrepared(w) \/ ReadDescriptor(w) \/ Abandon(w) \/ Produce(w) \/ ReleaseRejected(w)
        PROVE  OneCreates /\ Fits
    <3>1. Acts(w)
      BY <1>0, <2>1, BecomeActs DEF RestorePrepared, ReadDescriptor, Abandon, Produce, ReleaseRejected
    <3>2. OneCreates
      BY <3>1, NobodyElseCreates
    <3> QED BY <1>2, <2>1, <3>2 DEF RestorePrepared, ReadDescriptor, Abandon, Produce, ReleaseRejected
  <2>2. ASSUME ReserveExisting(w) \/ CommitInPlace(w) PROVE OneCreates /\ Fits
    <3>1. Acts(w)
      BY <1>0, <2>2, BecomeActs DEF ReserveExisting, CommitInPlace
    <3>2. owner' = owner /\ pending' = pending
      BY <2>2 DEF ReserveExisting, CommitInPlace, counts
    <3> QED BY <1>0, <3>1, <3>2, NobodyElseCreates, NoMoreRoutes
  <2>3. ASSUME ReserveNew(w) PROVE OneCreates /\ Fits
    <3>1. Acts(w)
      BY <1>0, <2>3, BecomeActs DEF ReserveNew
    <3>2. Routed' = Routed /\ pending' = pending + 1 /\ Cardinality(Routed) + pending < MaxInstanceRoutes
      BY <2>3 DEF ReserveNew, Routed
    <3> QED BY <1>0, <3>1, <3>2, NobodyElseCreates, RoutedFinite, BoundsAssumption
  <2>4. ASSUME DropReservation(w) PROVE OneCreates /\ Fits
    <3>1. Acts(w)
      BY <1>0, <2>4, BecomeActs DEF DropReservation
    <3>2. /\ \A i \in Instances : owner'[i] # NoAdapter => owner[i] # NoAdapter
          /\ pending' <= pending
      BY <1>0, <2>4 DEF DropReservation, OwnerWithout
    <3> QED BY <1>0, <3>1, <3>2, NobodyElseCreates, NoMoreRoutes
  <2>5. ASSUME CommitElsewhere(w) PROVE OneCreates /\ Fits
    <3>1. Acts(w)
      <4>1. Become(w, Idle) \/ Become(w, [op[w] EXCEPT !.pc = "rejected", !.res = "none"])
        BY <2>5 DEF CommitElsewhere
      <4> QED BY <1>0, <4>1, BecomeActs
    <3> QED BY <2>5, <3>1, NobodyElseCreates, CommitElsewhereFits
  <2>6. ASSUME (\E m \in Models : StartPrefill(w, m)) \/ (\E s \in held : StartDerive(w, s))
        PROVE  OneCreates /\ Fits
    <3>1. Acts(w)
      <4>1. ASSUME NEW m \in Models, StartPrefill(w, m) PROVE Acts(w)
        <5> DEFINE o == [Idle EXCEPT !.pc = "ready", !.kind = "prefill", !.model = m,
                                     !.adapter = Found(compat, m).adapter]
        <5>1. Become(w, o) /\ Start(w, "prefill")
          BY <4>1 DEF StartPrefill
        <5>2. o.kind = "prefill"
          BY DEF Idle
        <5> HIDE DEF o
        <5> QED BY <1>0, <5>1, <5>2, StartActs
      <4>2. ASSUME NEW s \in held, StartDerive(w, s) PROVE Acts(w)
        <5> DEFINE o == [Idle EXCEPT !.pc = "ready", !.kind = "derive", !.src = s,
                                     !.adapter = owner[InstanceOf(s)]]
        <5>1. Become(w, o) /\ Start(w, "derive")
          BY <4>2 DEF StartDerive
        <5>2. o.kind = "derive"
          BY DEF Idle
        <5> HIDE DEF o
        <5> QED BY <1>0, <5>1, <5>2, StartActs
      <4> QED BY <2>6, <4>1, <4>2
    <3> QED BY <1>2, <2>6, <3>1, NobodyElseCreates DEF StartPrefill, StartDerive
  <2> QED BY <1>3, <2>1, <2>2, <2>3, <2>4, <2>5, <2>6 DEF CreateStep
<1>4. ASSUME NEW w \in Workers, RouteStep(w) PROVE OneCreates /\ Fits
  <2>1. UNCHANGED counts
    BY <1>4 DEF RouteStep, FinishSelection, RecordCompatibility, BindPlan, FinishPlan, ResolvePlan,
       ResolveHit, ResolveMiss
  <2>2. ASSUME FinishSelection(w) PROVE Acts(w)
    <3>1. Become(w, Idle) \/ \E a : Become(w, [op[w] EXCEPT !.pc = "resolved", !.adapter = a])
      BY <2>2 DEF FinishSelection
    <3> QED BY <1>0, <3>1, BecomeActs
  <2>3. ASSUME RecordCompatibility(w) \/ BindPlan(w) \/ FinishPlan(w) PROVE Acts(w)
    BY <1>0, <2>3, BecomeActs DEF RecordCompatibility, BindPlan, FinishPlan
  <2>4. ASSUME NEW m \in Models, ResolvePlan(w, m) PROVE Acts(w)
    <3> DEFINE o == [Idle EXCEPT !.pc = "resolved", !.kind = "restore", !.model = m,
                                 !.adapter = Found(compat, m).adapter]
    <3>1. Become(w, o) /\ Start(w, "restore")
      BY <2>4 DEF ResolvePlan
    <3>2. o.kind = "restore"
      BY DEF Idle
    <3> HIDE DEF o
    <3> QED BY <1>0, <3>1, <3>2, StartActs
  <2>5. ASSUME NEW m \in Models, NEW k \in Kinds, ResolveHit(w, k, m) PROVE Acts(w)
    <3> DEFINE o == [Idle EXCEPT !.pc = "resolved", !.kind = k, !.model = m,
                                 !.adapter = Found(models, m).adapter]
    <3>1. (Become(w, Idle) \/ Become(w, o)) /\ Start(w, k)
      BY <2>5 DEF ResolveHit, Resolving
    <3>2. o.kind = k
      BY DEF Idle
    <3> HIDE DEF o
    <3> QED BY <1>0, <3>1, <3>2, StartActs, BecomeActs
  <2>6. ASSUME NEW m \in Models, NEW k \in Kinds, ResolveMiss(w, k, m) PROVE Acts(w)
    <3> DEFINE o == [Idle EXCEPT !.pc = "selecting", !.kind = k, !.model = m]
    <3>1. Become(w, o) /\ Start(w, k)
      BY <2>6 DEF ResolveMiss, Resolving
    <3>2. o.kind = k
      BY DEF Idle
    <3> HIDE DEF o
    <3> QED BY <1>0, <3>1, <3>2, StartActs
  <2>7. Acts(w)
    BY <1>4, <2>2, <2>3, <2>4, <2>5, <2>6 DEF RouteStep
  <2> QED BY <1>2, <2>1, <2>7, NobodyElseCreates
<1>5. ASSUME NEW w \in Workers, ReleaseStep(w) PROVE OneCreates /\ Fits
  <2>1. /\ pending' = pending
        /\ \A i \in Instances : owner'[i] # NoAdapter => owner[i] # NoAdapter
    BY <1>0, <1>5 DEF ReleaseStep, BackendReleases, FinishRelease, StartRelease, counts, OwnerWithout
  <2>2. Acts(w)
    <3>1. ASSUME BackendReleases(w) \/ FinishRelease(w) PROVE Acts(w)
      BY <1>0, <3>1, BecomeActs DEF BackendReleases, FinishRelease
    <3>2. ASSUME NEW s \in held, StartRelease(w, s) PROVE Acts(w)
      <4> DEFINE o == [Idle EXCEPT !.pc = "releasing", !.kind = "release", !.src = s,
                                   !.adapter = owner[InstanceOf(s)]]
      <4>1. Become(w, o) /\ Start(w, "release")
        BY <3>2 DEF StartRelease
      <4>2. o.kind = "release"
        BY DEF Idle
      <4> HIDE DEF o
      <4> QED BY <1>0, <4>1, <4>2, StartActs
    <3> QED BY <1>5, <3>1, <3>2 DEF ReleaseStep
  <2> QED BY <1>0, <2>1, <2>2, NobodyElseCreates, NoMoreRoutes
<1>6. ASSUME UNCHANGED vars \/ (\E a \in Adapters : Restart(a))
             \/ (\E m \in Models, a \in Adapters : RecordModelAdapter(m, a))
      PROVE  OneCreates /\ Fits
  BY <1>1, <1>2, <1>6 DEF vars, Restart, RecordModelAdapter
<1> QED BY <1>3, <1>4, <1>5, <1>6 DEF Next

\* With one operation at a time, an operation admitted to a new instance place finds
\* it when it commits: routed instances and reserved places never exceed the bound.
THEOREM ReservationsHonoured == Spec => []ReservationHonoured
<1>1. ASSUME Init PROVE PermitOK
  <2>1. Creating = {} /\ Routed = {} /\ pending = 0
    BY <1>1 DEF Init, Creating, Routed, Idle
  <2> QED BY <2>1, FS_EmptySet, BoundsAssumption DEF PermitOK
<1>2. PermitOK => ReservationHonoured
  BY DEF PermitOK, ReservationHonoured
<1>3. Init => PermitOK
  BY <1>1
<1> QED BY <1>2, <1>3, StepKeepsPermit, Invariant, PTL DEF Spec
==============================================================================
