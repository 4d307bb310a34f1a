------------------------- MODULE RuntimeControlProofs -------------------------
(***************************************************************************)
(* Proofs about RuntimeControl for any number of names, tokens and backend *)
(* states.                                                                 *)
(***************************************************************************)
EXTENDS RuntimeControl, FiniteSetTheorems, TLAPS

(* Who owns what, spelled out.                                             *)
NamedAs(o) == \E s \in StateIds : named[s] # NotNamed /\ named[s].obj = o
RecordOf(o) == \E t \in Tokens : handoffs[t].use = "record" /\ handoffs[t].obj = o
InBatch(o) == \E e \in op.batch : e.obj = o
Owned(o) == NamedAs(o) \/ RecordOf(o) \/ o \in listed \/ op.obj = o \/ op.export = o \/ InBatch(o)

(* Leases and backend states correspond, and so does what is charged.      *)
Ledger ==
  \A o \in Objects :
    /\ status[o] = "leased" <=> Owned(o)
    /\ status[o] = "raw" <=> op.raw = o
    /\ status[o] = "lost" => latched /\ account[o] # "held"
    /\ account[o] = "held" <=> status[o] = "leased" /\ o # op.export

(* Which operations get where.                                             *)
Creators == {"fresh", "restore", "decode", "move", "promote"}
KindsAt(p) ==
  CASE p = "idle" -> {"none"}
    [] p \in {"find", "stored", "retain"} -> {"fresh"}
    [] p \in {"validate", "reused"} -> {"reuse"}
    [] p \in {"reserve", "relieve", "create", "check", "failed"} -> Creators
    [] p \in {"decoded", "inspected", "taken"} -> {"decode"}
    [] p \in {"export", "commit", "fallback", "confirm"} -> {"fresh", "reuse", "demote"}
    [] p \in {"clear", "insert"} -> {"fresh", "restore", "promote"}
    [] p = "issue" -> {"fresh", "reuse", "restore", "decode"}
    [] p \in {"evict", "remove"} -> {"evict"}
    [] p \in {"demote", "drop"} -> {"demote"}
    [] p \in {"move", "swap"} -> {"move"}
    [] p = "promote" -> {"promote"}
    [] OTHER -> {"prune"}

(* What an operation has in hand.                                          *)
OpShape ==
  /\ op.kind \in KindsAt(op.pc)
  /\ op.raw # NoObject <=> op.pc \in {"check", "decoded"}
  /\ op.export # NoObject => op.pc = "commit"
  /\ op.batch # {} => op.pc = "prune"
  /\ op.kind \in {"fresh", "restore", "promote"} /\ op.pc \notin {"issue", "failed"} =>
       /\ op.obj # NoObject <=> op.pc \in {"retain", "export", "commit", "fallback", "confirm",
                                           "clear", "insert"}
       /\ op.obj # NoObject => ~NamedAs(op.obj)
  /\ op.pc \in {"export", "commit", "fallback", "confirm", "clear", "insert", "validate", "reused"}
       => op.sid \in StateIds
  /\ op.kind \in {"restore", "promote"} => op.sid \in StateIds
  /\ op.pc = "issue" => op.obj # NoObject
  /\ op.kind = "decode" /\ op.pc \in {"check", "idle"} => op.obj = NoObject

(* A name under which an operation works stays.                            *)
WorkShape ==
  /\ op.kind \in {"evict", "demote", "move", "reuse"} /\ op.pc \notin {"remove", "failed", "issue"} =>
       /\ op.sid \in StateIds
       /\ named[op.sid] # NotNamed
       /\ IF op.pc = "swap" THEN op.obj # NoObject /\ ~NamedAs(op.obj)
          ELSE op.obj = named[op.sid].obj
  /\ op.pc \in {"remove", "idle", "prune"} => op.obj = NoObject
  /\ op.pc = "relieve" => \A s \in op.picked : s \in StateIds /\ named[s] # NotNamed

(* A backend state has one name at most, and what is being pruned has none. *)
NameShape ==
  /\ \A e \in op.batch : named[e.sid] = NotNamed /\ ~NamedAs(e.obj)
  /\ \A e, f \in op.batch : e.sid = f.sid \/ e.obj = f.obj => e = f
  /\ \A r, s \in StateIds :
       named[r] # NotNamed /\ named[s] # NotNamed /\ named[r].obj = named[s].obj => r = s

(* The export of a state is nobody else's.                                 *)
ExportShape ==
  op.export # NoObject => /\ ~NamedAs(op.export) /\ ~RecordOf(op.export)
                          /\ op.export \notin listed /\ op.obj # op.export

(* The reservation of a handoff is the operation's.                        *)
TokenShape ==
  /\ \A t \in Tokens : handoffs[t].use = "reserved" <=> op.token = t
  /\ op.token # NoToken <=> \/ op.kind \in {"fresh", "reuse", "restore"}
                            \/ op.kind = "decode" /\ op.pc # "inspected"
  /\ op.pc = "inspected" => op.record \in Tokens

(* The latch and the operation's own failed cleanup.                       *)
TaintShape ==
  /\ tainted => latched
  /\ op.pc \in {"reserve", "relieve", "create", "retain", "export"} => ~tainted
  /\ op.pc = "check" /\ op.kind # "decode" => ~tainted

Shape == OpShape /\ WorkShape /\ NameShape /\ ExportShape /\ TokenShape /\ TaintShape
IInv == TypeOK /\ Ledger /\ Shape

USE SentinelsAssumption

-----------------------------------------------------------------------------
(* What a step does to leases and accounts.                                *)

LEMMA OwnersAre ==
  ASSUME TypeOK
  PROVE  \A o \in Objects : o \in Owners <=> Owned(o)
BY DEF TypeOK, Owners, Owned, NamedAs, RecordOf, InBatch, NamedObjects, NamedIds, Records,
   OwnLeases

LEMMA OwnersWillBe ==
  ASSUME TypeOK'
  PROVE  \A o \in Objects : o \in Owners' <=> Owned(o)'
BY DEF TypeOK, Owners, Owned, NamedAs, RecordOf, InBatch, NamedObjects, NamedIds, Records,
   OwnLeases

(* Nothing is let go of.                                                   *)
LEMMA NothingDropped ==
  ASSUME IInv, Untouched, op'.raw = op.raw, op'.export = op.export,
         \A o \in Objects : Owned(o)' <=> Owned(o)
  PROVE  Ledger' /\ ~Creates
BY DEF IInv, TypeOK, Ledger, Untouched, Creates

(* Leases are let go of, and their backend states released or lost.        *)
LEMMA LeasesDropped ==
  ASSUME IInv, TypeOK', NEW failed, failed \subseteq LastDropped, DropLeases(failed),
         op'.raw = op.raw,
         \A o \in Objects : Owned(o)' => Owned(o),
         \/ op'.export = op.export
         \/ op'.export = NoObject /\ \A o \in Objects : o = op.export => ~Owned(o)'
  PROVE  /\ Ledger' /\ ~Creates
         /\ latched' = (latched \/ failed # {})
         /\ failed = {} \/ \E o \in Objects : Owned(o) /\ ~Owned(o)'
<1>1. \A o \in Objects : /\ o \in Owners <=> Owned(o)
                         /\ o \in Owners' <=> Owned(o)'
  BY OwnersAre, OwnersWillBe DEF IInv
<1>2. LastDropped = {o \in Objects : status[o] = "leased" /\ ~Owned(o)'}
  BY <1>1 DEF LastDropped
<1>3. /\ status' = [o \in Objects |-> IF o \in failed THEN "lost"
                                     ELSE IF o \in LastDropped THEN "free" ELSE status[o]]
      /\ account' = [o \in Objects |->
                       IF o \in failed /\ account[o] = "held" THEN "lost"
                       ELSE IF o \in LastDropped THEN "none" ELSE account[o]]
      /\ latched' = (latched \/ failed # {})
  BY DEF DropLeases
<1>4. ASSUME NEW o \in Objects
      PROVE  /\ status'[o] = "leased" <=> Owned(o)'
             /\ status'[o] = "raw" <=> op'.raw = o
             /\ status'[o] = "lost" => latched' /\ account'[o] # "held"
             /\ account'[o] = "held" <=> status'[o] = "leased" /\ o # op'.export
  <2>1. CASE o \in LastDropped
    <3>1. status[o] = "leased" /\ ~Owned(o)' /\ op.raw # o
      BY <1>2, <2>1 DEF Ledger, IInv
    <3>2. CASE o \in failed
      <4>1. status'[o] = "lost" /\ latched' /\ account'[o] # "held"
        BY <1>3, <2>1, <3>2 DEF Accounts
      <4> QED BY <3>1, <4>1
    <3>3. CASE o \notin failed
      <4>1. status'[o] = "free" /\ account'[o] = "none"
        BY <1>3, <2>1, <3>3
      <4> QED BY <3>1, <4>1
    <3> QED BY <3>2, <3>3
  <2>2. CASE o \notin LastDropped
    <3>1. status'[o] = status[o] /\ account'[o] = account[o] /\ (latched => latched')
      BY <1>3, <2>2
    <3>2. status[o] = "leased" <=> Owned(o)'
      BY <1>2, <2>2 DEF Ledger, IInv
    <3> QED BY <3>1, <3>2 DEF Ledger, IInv
  <2> QED BY <2>1, <2>2
<1>5. ~Creates
  BY <1>2, <1>3 DEF Creates
<1>6. failed = {} \/ \E o \in Objects : Owned(o) /\ ~Owned(o)'
  BY <1>2 DEF IInv, Ledger
<1> QED BY <1>3, <1>4, <1>5, <1>6 DEF Ledger

(* An explicit release of a lease nobody holds any more, or of a state that *)
(* never had one.                                                          *)
LEMMA LeaseReleased ==
  ASSUME IInv, NEW r \in Objects, Release(r), op'.raw = op.raw, op'.export = op.export,
         status[r] = "leased",
         \A o \in Objects : Owned(o)' <=> Owned(o) /\ o # r
  PROVE  Ledger' /\ ~Creates
BY DEF IInv, TypeOK, Ledger, Release, Creates, Statuses, Accounts

(* What the next state of the invariant is made of.                        *)
Kept == IInv' /\ (Creates => ~tainted)

(* A step that leaves every lease where it is.                             *)
Steady ==
  /\ op' \in Ops /\ disk' \subseteq StateIds /\ listed' = listed /\ Untouched
  /\ UNCHANGED <<op.obj, op.raw, op.export, op.batch>>
  /\ named' \in [StateIds -> Named \cup {NotNamed}]
  /\ \A s \in StateIds : /\ named'[s] = NotNamed <=> named[s] = NotNamed
                         /\ named'[s].obj = named[s].obj
  /\ handoffs' \in [Tokens -> {FreeToken, ReservedToken}
                              \cup [use : {"record"}, obj : Objects, expired : BOOLEAN]]
  /\ \A t \in Tokens : /\ handoffs'[t].use = handoffs[t].use
                       /\ handoffs'[t].obj = handoffs[t].obj

LEMMA StaysTheSame ==
  ASSUME IInv, Steady
  PROVE  /\ TypeOK' /\ Ledger' /\ ~Creates /\ ExportShape' /\ NameShape'
         /\ \A o \in Objects : NamedAs(o)' <=> NamedAs(o)
<1>1. TypeOK'
  BY DEF IInv, TypeOK, Steady, Untouched
<1>2. \A o \in Objects : NamedAs(o)' <=> NamedAs(o)
  BY DEF Steady, NamedAs
<1>3. \A o \in Objects : RecordOf(o)' <=> RecordOf(o)
  BY DEF Steady, RecordOf
<1>4. \A o \in Objects : Owned(o)' <=> Owned(o)
  BY <1>2, <1>3 DEF Steady, Owned, InBatch
<1>5. Ledger' /\ ~Creates
  BY <1>4, NothingDropped DEF Steady
<1>6. ExportShape'
  BY <1>2, <1>3 DEF Steady, IInv, TypeOK, Ops, Shape, ExportShape
<1>7. \A e \in op.batch : named'[e.sid] = NotNamed /\ ~NamedAs(e.obj)'
  BY <1>2 DEF Steady, IInv, TypeOK, Ops, Shape, NameShape
<1>8. NameShape'
  BY <1>7 DEF Steady, IInv, TypeOK, Ops, Shape, NameShape
<1> QED BY <1>1, <1>2, <1>5, <1>6, <1>8
(* Names only leave: each object still has one at most.                    *)
LEMMA FewerNames ==
  ASSUME IInv, op'.batch \subseteq op.batch,
         \A s \in StateIds : \/ named'[s] = NotNamed
                             \/ named[s] # NotNamed /\ named'[s].obj = named[s].obj
  PROVE  NameShape' /\ \A o \in Objects : NamedAs(o)' => NamedAs(o)
<1>1. \A o \in Objects : NamedAs(o)' => NamedAs(o)
  BY DEF NamedAs
<1>2. \A e \in op.batch : e.sid \in StateIds /\ e.obj \in Objects
  BY DEF IInv, TypeOK, Ops
<1>3. \A e \in op'.batch : named'[e.sid] = NotNamed /\ ~NamedAs(e.obj)'
  BY <1>1, <1>2 DEF IInv, Shape, NameShape
<1>4. \A e, f \in op'.batch : e.sid = f.sid \/ e.obj = f.obj => e = f
  BY DEF IInv, Shape, NameShape
<1>5. \A r, s \in StateIds :
        named'[r] # NotNamed /\ named'[s] # NotNamed /\ named'[r].obj = named'[s].obj => r = s
  BY DEF IInv, Shape, NameShape
<1> QED BY <1>1, <1>3, <1>4, <1>5 DEF NameShape

(* With nothing under way there is little to say.                          *)
LEMMA IdleShape ==
  ASSUME op' = Idle
  PROVE  op' \in Ops /\ OpShape' /\ WorkShape' /\ ExportShape'
BY DEF Idle, Ops, OpShape, WorkShape, ExportShape, KindsAt

(* What a step with Dropping has to show about the rest of the state.      *)
LEMMA Dropped ==
  ASSUME IInv, Dropping, op' \in Ops, op'.raw = op.raw,
         named' \in [StateIds -> Named \cup {NotNamed}],
         disk' \subseteq StateIds, listed' \subseteq Objects,
         handoffs' \in [Tokens -> {FreeToken, ReservedToken}
                                  \cup [use : {"record"}, obj : Objects, expired : BOOLEAN]],
         \A o \in Objects : Owned(o)' => Owned(o),
         op'.export = op.export \/ (op'.export = NoObject /\ \A o \in Objects : o = op.export => ~Owned(o)')
  PROVE  /\ TypeOK' /\ Ledger' /\ ~Creates
         /\ tainted' => latched'
         /\ latched => latched'
         /\ op'.pc = "idle" => ~tainted'
         /\ (\A o \in Objects : Owned(o) => Owned(o)') => (tainted' => tainted)
<1>1. PICK failed \in SUBSET LastDropped :
        /\ DropLeases(failed)
        /\ tainted' = (op'.pc # "idle" /\ (tainted \/ failed # {}))
  BY DEF Dropping
<1>2. status' \in [Objects -> Statuses] /\ account' \in [Objects -> Accounts]
  BY <1>1 DEF DropLeases, IInv, TypeOK, Statuses, Accounts
<1>3. latched' \in BOOLEAN /\ tainted' \in BOOLEAN
  BY <1>1 DEF DropLeases, IInv, TypeOK
<1>4. TypeOK'
  BY <1>2, <1>3 DEF TypeOK
<1>5. failed \subseteq LastDropped
  OBVIOUS
<1>6. /\ Ledger' /\ ~Creates
      /\ latched' = (latched \/ failed # {})
      /\ failed = {} \/ \E o \in Objects : Owned(o) /\ ~Owned(o)'
  BY <1>1, <1>4, <1>5, LeasesDropped
<1> QED BY <1>1, <1>4, <1>6 DEF IInv, Shape, TaintShape, TypeOK

LEMMA FinishKeeps ==
  ASSUME IInv, Finish, op.raw = NoObject
  PROVE  Kept
<1>1. op' = Idle /\ handoffs' = Unreserved /\ UNCHANGED <<named, disk, listed>> /\ Dropping
  BY DEF Finish
<1>2. op' \in Ops /\ OpShape' /\ WorkShape' /\ ExportShape'
  BY <1>1, IdleShape
<1>3. op'.batch = {} /\ op'.raw = NoObject /\ op'.export = NoObject /\ op'.obj = NoObject
      /\ op'.token = NoToken /\ op'.pc = "idle" /\ op'.kind = "none"
  BY <1>1 DEF Idle
<1>4. NameShape' /\ \A o \in Objects : NamedAs(o)' => NamedAs(o)
  BY <1>1, <1>3, FewerNames
<1>5. handoffs' \in [Tokens -> {FreeToken, ReservedToken}
                               \cup [use : {"record"}, obj : Objects, expired : BOOLEAN]]
  BY <1>1 DEF Unreserved, IInv, TypeOK
<1>6. \A o \in Objects : RecordOf(o)' => RecordOf(o)
  BY <1>1 DEF Unreserved, RecordOf, FreeToken
<1>7. TokenShape'
  <2>1. \A t \in Tokens : handoffs'[t] = IF t = op.token THEN FreeToken ELSE handoffs[t]
    BY <1>1 DEF Unreserved
  <2>2. \A t \in Tokens : handoffs'[t].use # "reserved"
    BY <2>1 DEF IInv, Shape, TokenShape, FreeToken
  <2> QED BY <1>3, <2>2, SentinelsAssumption DEF TokenShape
<1>8. \A o \in Objects : Owned(o)' => NamedAs(o) \/ RecordOf(o) \/ o \in listed
  BY <1>1, <1>3, <1>4, <1>6 DEF Owned, InBatch
<1>9. \A o \in Objects : o = op.export => ~Owned(o)'
  BY <1>8 DEF IInv, Shape, ExportShape
<1>10. /\ TypeOK' /\ Ledger' /\ ~Creates
       /\ tainted' => latched'
       /\ op'.pc = "idle" => ~tainted'
  <2>1. \A o \in Objects : Owned(o)' => Owned(o)
    BY <1>8 DEF Owned
  <2> QED BY <1>1, <1>2, <1>3, <1>5, <1>9, <2>1, Dropped DEF IInv, TypeOK
<1>11. TaintShape'
  BY <1>3, <1>10 DEF TaintShape
<1> QED BY <1>2, <1>4, <1>7, <1>10, <1>11 DEF Kept, IInv, Shape

(* Flags can change under a name.                                          *)
LEMMA Flagged ==
  \A n \in Named : \A b \in BOOLEAN :
     /\ [n EXCEPT !.expired = b] \in Named /\ [n EXCEPT !.expired = b].obj = n.obj
     /\ [n EXCEPT !.persisted = b] \in Named /\ [n EXCEPT !.persisted = b].obj = n.obj
BY DEF Named

LEMMA NamedIsSome ==
  \A n \in Named : n # NotNamed /\ n.obj \in Objects /\ n.obj # NoObject
BY DEF Named, NotNamed

LEMMA Reflagged ==
  ASSUME TypeOK, DOMAIN named' = StateIds, named' = [s \in StateIds |-> named'[s]],
         \A s \in StateIds :
           \/ named'[s] = named[s]
           \/ named[s] # NotNamed /\ named'[s] \in Named /\ named'[s].obj = named[s].obj
  PROVE  /\ named' \in [StateIds -> Named \cup {NotNamed}]
         /\ \A s \in StateIds : /\ named'[s] = NotNamed <=> named[s] = NotNamed
                                /\ named'[s].obj = named[s].obj
<1>1. \A s \in StateIds : named[s] \in Named \cup {NotNamed}
  BY DEF TypeOK
<1> QED BY <1>1, NamedIsSome

(* Everything but the leases in the operation's hands stays.               *)
LEMMA OthersStay ==
  ASSUME IInv, op' \in Ops, UNCHANGED <<named, handoffs, listed>>, op'.batch = op.batch
  PROVE  /\ NameShape'
         /\ \A o \in Objects : (NamedAs(o)' <=> NamedAs(o)) /\ (RecordOf(o)' <=> RecordOf(o))
         /\ \A o \in Objects :
              Owned(o)' <=> \/ NamedAs(o) \/ RecordOf(o) \/ o \in listed \/ InBatch(o)
                            \/ op'.obj = o \/ op'.export = o
<1>1. \A o \in Objects : (NamedAs(o)' <=> NamedAs(o)) /\ (RecordOf(o)' <=> RecordOf(o))
  BY DEF NamedAs, RecordOf
<1>2. NameShape'
  BY <1>1 DEF IInv, TypeOK, Ops, Shape, NameShape
<1> QED BY <1>1, <1>2 DEF Owned, InBatch

(* A backend state nobody leases is given up as lost.                      *)
LEMMA StateLost ==
  ASSUME IInv, NEW r \in Objects, NEW charge \in {"none", "lost"}, Lose(r, charge),
         ~Owned(r), op'.raw # r,
         \A o \in Objects : o # r => (op'.raw = o <=> op.raw = o),
         op'.export = op.export, \A o \in Objects : Owned(o)' <=> Owned(o)
  PROVE  /\ status' \in [Objects -> Statuses] /\ account' \in [Objects -> Accounts]
         /\ latched' = TRUE /\ tainted' = TRUE /\ Ledger'
<1>1. /\ status' = [status EXCEPT ![r] = "lost"] /\ account' = [account EXCEPT ![r] = charge]
      /\ latched' = TRUE /\ tainted' = TRUE
  BY DEF Lose
<1>2. status' \in [Objects -> Statuses] /\ account' \in [Objects -> Accounts]
  BY <1>1 DEF IInv, TypeOK, Statuses, Accounts
<1>3. Ledger'
  BY <1>1 DEF IInv, TypeOK, Ledger
<1> QED BY <1>1, <1>2, <1>3

(* What the clock leaves of the handoffs.                                  *)
LEMMA LiveIs ==
  ASSUME TypeOK
  PROVE  /\ Live \in [Tokens -> {FreeToken, ReservedToken}
                              \cup [use : {"record"}, obj : Objects, expired : BOOLEAN]]
         /\ \A t \in Tokens : /\ Live[t] = FreeToken \/ Live[t] = handoffs[t]
                              /\ Live[t].use = "reserved" <=> handoffs[t].use = "reserved"
BY DEF TypeOK, Live, FreeToken, ReservedToken

(* What a scan for expired states leaves of the names.                     *)
LEMMA ScannedIs ==
  ASSUME TypeOK
  PROVE  /\ Scanned \in [StateIds -> Named \cup {NotNamed}]
         /\ \A s \in StateIds : /\ Scanned[s] = NotNamed \/ Scanned[s] = named[s]
                                /\ ~named[s].expired => Scanned[s] = named[s]
BY DEF TypeOK, Scanned

(* A name goes, and its backend state with it unless someone else owns it. *)
LEMMA NameTaken ==
  ASSUME IInv, NEW s \in StateIds, named[s] # NotNamed, TakeNamed(s),
         UNCHANGED <<handoffs, listed>>, op.batch = {}, op'.batch = {},
         op'.raw = op.raw, op.export = NoObject, op'.export = NoObject,
         op'.obj # named[s].obj,
         \A o \in Objects : o # named[s].obj => (op'.obj = o <=> op.obj = o)
  PROVE  /\ named' \in [StateIds -> Named \cup {NotNamed}]
         /\ \A r \in StateIds : r # s => named'[r] = named[r]
         /\ NameShape' /\ \A o \in Objects : NamedAs(o)' => NamedAs(o)
         /\ status' \in [Objects -> Statuses] /\ account' \in [Objects -> Accounts]
         /\ UNCHANGED <<latched, tainted>> /\ Ledger' /\ ~Creates
<1> DEFINE r == named[s].obj
<1>1. r \in Objects /\ NamedAs(r) /\ status[r] = "leased"
  BY NamedIsSome DEF IInv, TypeOK, NamedAs, Ledger, Owned
<1>2. named' = [named EXCEPT ![s] = NotNamed]
  BY DEF TakeNamed
<1>3. /\ named' \in [StateIds -> Named \cup {NotNamed}]
      /\ \A x \in StateIds : x # s => named'[x] = named[x]
      /\ \A x \in StateIds : \/ named'[x] = NotNamed
                             \/ named[x] # NotNamed /\ named'[x].obj = named[x].obj
  BY <1>2 DEF IInv, TypeOK
<1>4. NameShape' /\ \A o \in Objects : NamedAs(o)' => NamedAs(o)
  BY <1>3, FewerNames
<1>5. \A o \in Objects : NamedAs(o)' <=> NamedAs(o) /\ o # r
  BY <1>2 DEF NamedAs, IInv, TypeOK, Shape, NameShape
<1>6. \A o \in Objects : RecordOf(o)' <=> RecordOf(o)
  BY DEF RecordOf
<1>7. Shared(r) <=> r \in listed \/ RecordOf(r)
  BY DEF Shared, RecordOf, Records
<1>8. \A o \in Objects : Owned(o)' <=> Owned(o) /\ (o # r \/ Shared(r))
  BY <1>1, <1>5, <1>6, <1>7, SentinelsAssumption DEF Owned, InBatch
<1>9. CASE Shared(r)
  <2>1. Untouched
    BY <1>9 DEF TakeNamed
  <2>2. Ledger' /\ ~Creates
    BY <1>8, <1>9, <2>1, NothingDropped
  <2> QED BY <1>3, <1>4, <2>1, <2>2 DEF Untouched, IInv, TypeOK
<1>10. CASE ~Shared(r)
  <2>1. Release(r)
    BY <1>10 DEF TakeNamed
  <2>2. \A o \in Objects : Owned(o)' <=> Owned(o) /\ o # r
    BY <1>8, <1>10
  <2> HIDE DEF r
  <2>3. Ledger' /\ ~Creates
    BY <1>1, <2>1, <2>2, LeaseReleased
  <2> QED BY <1>1, <1>3, <1>4, <2>1, <2>3 DEF Release, IInv, TypeOK, Statuses, Accounts
<1> QED BY <1>9, <1>10

(* A backend state that is free is nobody's.                               *)
LEMMA SpareIsFree ==
  ASSUME IInv, NEW o \in Spare
  PROVE  /\ o \in Objects /\ status[o] = "free" /\ account[o] # "held"
         /\ ~Owned(o) /\ ~NamedAs(o) /\ ~RecordOf(o) /\ o \notin listed /\ op.obj # o
         /\ op.raw # o /\ op.export # o
<1>1. o \in Objects /\ status[o] = "free" /\ ~Owned(o)
  BY OwnersAre DEF Spare, IInv
<1> QED BY <1>1 DEF IInv, Ledger, Owned

(* A backend state is replaced under its name.                             *)
LEMMA Replaced ==
  ASSUME TypeOK, NEW s \in StateIds, named[s] # NotNamed, NEW o \in Objects,
         named' = [named EXCEPT ![s].obj = o]
  PROVE  /\ named' \in [StateIds -> Named \cup {NotNamed}]
         /\ \A x \in StateIds : x # s => named'[x] = named[x]
         /\ named'[s] # NotNamed /\ named'[s].obj = o
<1>1. named[s] \in Named
  BY DEF TypeOK
<1>2. [named[s] EXCEPT !.obj = o] \in Named /\ [named[s] EXCEPT !.obj = o].obj = o
  BY <1>1 DEF Named
<1>3. named' = [named EXCEPT ![s] = [named[s] EXCEPT !.obj = o]]
  OBVIOUS
<1> QED BY <1>2, <1>3, NamedIsSome DEF TypeOK

LEMMA DecodeRecordKeeps ==
  ASSUME IInv, DecodeRecord
  PROVE  Kept
<1>1. /\ op' \in Ops /\ op'.pc = "reserve"
      /\ UNCHANGED <<op.kind, op.sid, op.obj, op.raw, op.export, op.token, op.record, op.batch, op.picked>>
  BY DEF IInv, TypeOK, DecodeRecord, At, Goto, Ops, Checkpoints, Fallible
<1>2. op.pc = "taken" /\ ~latched /\ UNCHANGED <<named, disk, handoffs, listed>> /\ Untouched
  BY DEF DecodeRecord, At
<1>3. Steady
  BY <1>1, <1>2 DEF IInv, TypeOK, Steady
<1>4. /\ TypeOK' /\ Ledger' /\ ~Creates /\ ExportShape' /\ NameShape'
      /\ \A o \in Objects : NamedAs(o)' <=> NamedAs(o)
  BY <1>3, StaysTheSame
<1>5. OpShape'
  BY <1>1, <1>2, <1>4 DEF IInv, TypeOK, Ops, Shape, KindsAt, Creators, OpShape
<1>6. WorkShape'
  BY <1>1, <1>2, <1>4 DEF IInv, TypeOK, Ops, Shape, KindsAt, Creators, OpShape, WorkShape
<1>7. TokenShape'
  BY <1>1, <1>2, <1>4 DEF IInv, TypeOK, Ops, Shape, KindsAt, Creators, OpShape, TokenShape
<1>8. TaintShape'
  BY <1>1, <1>2, <1>4
  DEF IInv, TypeOK, Ops, Shape, KindsAt, Creators, OpShape, TaintShape, Untouched
<1> QED BY <1>4, <1>5, <1>6, <1>7, <1>8 DEF Kept, IInv, Shape

LEMMA UseReusedKeeps ==
  ASSUME IInv, UseReused
  PROVE  Kept
<1>1. /\ op' \in Ops /\ op'.pc \in {"issue", "export"}
      /\ UNCHANGED <<op.kind, op.sid, op.obj, op.raw, op.export, op.token, op.record, op.batch, op.picked>>
  BY DEF IInv, TypeOK, UseReused, At, Goto, Ops, Checkpoints, Fallible
<1>2. op.pc = "reused" /\ ~latched /\ UNCHANGED <<named, disk, handoffs, listed>> /\ Untouched
  BY DEF UseReused, At
<1>3. Steady
  BY <1>1, <1>2 DEF IInv, TypeOK, Steady
<1>4. /\ TypeOK' /\ Ledger' /\ ~Creates /\ ExportShape' /\ NameShape'
      /\ \A o \in Objects : NamedAs(o)' <=> NamedAs(o)
  BY <1>3, StaysTheSame
<1>5. OpShape'
  BY <1>1, <1>2, <1>4 DEF IInv, TypeOK, Ops, Shape, KindsAt, Creators, OpShape, WorkShape, Named
<1>6. WorkShape'
  BY <1>1, <1>2, <1>4 DEF IInv, TypeOK, Ops, Shape, KindsAt, Creators, OpShape, WorkShape
<1>7. TokenShape'
  BY <1>1, <1>2, <1>4 DEF IInv, TypeOK, Ops, Shape, KindsAt, Creators, OpShape, TokenShape
<1>8. TaintShape'
  BY <1>1, <1>2, <1>4
  DEF IInv, TypeOK, Ops, Shape, KindsAt, Creators, OpShape, TaintShape, Untouched
<1> QED BY <1>4, <1>5, <1>6, <1>7, <1>8 DEF Kept, IInv, Shape

LEMMA FindStoredKeeps ==
  ASSUME IInv, FindStored
  PROVE  Kept
<1>1. /\ op' \in Ops /\ op'.pc = "reserve" /\ op'.sid \in StateIds \cup {NoState}
      /\ op'.kind \in {op.kind, "restore"}
      /\ (op'.kind = op.kind \/ op'.sid \in StateIds)
      /\ UNCHANGED <<op.obj, op.raw, op.export, op.token, op.record, op.batch, op.picked>>
  <2>1. CASE \E s \in disk : op' = [op EXCEPT !.pc = "reserve", !.sid = s, !.kind = "restore"]
    <3>1. PICK s \in disk : op' = [op EXCEPT !.pc = "reserve", !.sid = s, !.kind = "restore"]
      BY <2>1
    <3> QED BY <3>1 DEF IInv, TypeOK, Ops, Checkpoints, Fallible
  <2>2. CASE Goto("reserve")
    BY <2>2 DEF IInv, TypeOK, Goto, Ops, Checkpoints, Fallible
  <2> QED BY <2>1, <2>2 DEF FindStored
<1>2. op.pc = "stored" /\ ~latched /\ UNCHANGED <<named, disk, handoffs, listed>> /\ Untouched
  BY DEF FindStored, At
<1>3. Steady
  BY <1>1, <1>2 DEF IInv, TypeOK, Steady
<1>4. /\ TypeOK' /\ Ledger' /\ ~Creates /\ ExportShape' /\ NameShape'
      /\ \A o \in Objects : NamedAs(o)' <=> NamedAs(o)
  BY <1>3, StaysTheSame
<1>5. OpShape'
  BY <1>1, <1>2, <1>4 DEF IInv, TypeOK, Ops, Shape, KindsAt, Creators, OpShape
<1>6. WorkShape'
  BY <1>1, <1>2, <1>4 DEF IInv, TypeOK, Ops, Shape, KindsAt, Creators, OpShape, WorkShape
<1>7. TokenShape'
  BY <1>1, <1>2, <1>4 DEF IInv, TypeOK, Ops, Shape, KindsAt, Creators, OpShape, TokenShape
<1>8. TaintShape'
  BY <1>1, <1>2, <1>4
  DEF IInv, TypeOK, Ops, Shape, KindsAt, Creators, OpShape, TaintShape, Untouched
<1> QED BY <1>4, <1>5, <1>6, <1>7, <1>8 DEF Kept, IInv, Shape

LEMMA RetainPrefillStateKeeps ==
  ASSUME IInv, RetainPrefillState
  PROVE  Kept
<1>1. /\ op' \in Ops /\ op'.pc \in {"issue", "export", "clear"}
      /\ op'.sid \in StateIds \cup {NoState}
      /\ (op'.pc # "issue" => op'.sid \in StateIds)
      /\ UNCHANGED <<op.kind, op.obj, op.raw, op.export, op.token, op.record, op.batch, op.picked>>
  <2>1. CASE Goto("issue")
    BY <2>1 DEF IInv, TypeOK, Goto, Ops, Checkpoints, Fallible
  <2>2. CASE \E s \in StateIds, p \in {"export", "clear"} : op' = [op EXCEPT !.pc = p, !.sid = s]
    <3>1. PICK s \in StateIds, p \in {"export", "clear"} : op' = [op EXCEPT !.pc = p, !.sid = s]
      BY <2>2
    <3> QED BY <3>1 DEF IInv, TypeOK, Ops, Checkpoints, Fallible
  <2> QED BY <2>1, <2>2 DEF RetainPrefillState
<1>2. op.pc = "retain" /\ UNCHANGED <<named, disk, handoffs, listed>> /\ Untouched
  BY DEF RetainPrefillState, At
<1>3. Steady
  BY <1>1, <1>2 DEF IInv, TypeOK, Steady
<1>4. /\ TypeOK' /\ Ledger' /\ ~Creates /\ ExportShape' /\ NameShape'
      /\ \A o \in Objects : NamedAs(o)' <=> NamedAs(o)
  BY <1>3, StaysTheSame
<1>5. OpShape'
  BY <1>1, <1>2, <1>4 DEF IInv, TypeOK, Ops, Shape, KindsAt, Creators, OpShape
<1>6. WorkShape'
  BY <1>1, <1>2, <1>4 DEF IInv, TypeOK, Ops, Shape, KindsAt, Creators, OpShape, WorkShape
<1>7. TokenShape'
  BY <1>1, <1>2, <1>4 DEF IInv, TypeOK, Ops, Shape, KindsAt, Creators, OpShape, TokenShape
<1>8. TaintShape'
  BY <1>1, <1>2, <1>4
  DEF IInv, TypeOK, Ops, Shape, KindsAt, Creators, OpShape, TaintShape, Untouched
<1> QED BY <1>4, <1>5, <1>6, <1>7, <1>8 DEF Kept, IInv, Shape

LEMMA FallBackKeeps ==
  ASSUME IInv, FallBack
  PROVE  Kept
<1>1. /\ op' \in Ops /\ op'.pc \in {"issue", "clear"}
      /\ (op'.pc = "issue" => op.kind = "reuse")
      /\ (op'.pc = "clear" => op.kind = "fresh")
      /\ UNCHANGED <<op.kind, op.sid, op.obj, op.raw, op.export, op.token, op.record, op.batch, op.picked>>
  BY DEF IInv, TypeOK, FallBack, At, Goto, Ops, Checkpoints, Fallible
<1>2. op.pc = "fallback" /\ ~latched /\ UNCHANGED <<named, disk, handoffs, listed>> /\ Untouched
  BY DEF FallBack, At
<1>3. Steady
  BY <1>1, <1>2 DEF IInv, TypeOK, Steady
<1>4. /\ TypeOK' /\ Ledger' /\ ~Creates /\ ExportShape' /\ NameShape'
      /\ \A o \in Objects : NamedAs(o)' <=> NamedAs(o)
  BY <1>3, StaysTheSame
<1>5. OpShape'
  BY <1>1, <1>2, <1>4 DEF IInv, TypeOK, Ops, Shape, KindsAt, Creators, OpShape, WorkShape, Named
<1>6. WorkShape'
  BY <1>1, <1>2, <1>4 DEF IInv, TypeOK, Ops, Shape, KindsAt, Creators, OpShape, WorkShape
<1>7. TokenShape'
  BY <1>1, <1>2, <1>4 DEF IInv, TypeOK, Ops, Shape, KindsAt, Creators, OpShape, TokenShape
<1>8. TaintShape'
  BY <1>1, <1>2, <1>4
  DEF IInv, TypeOK, Ops, Shape, KindsAt, Creators, OpShape, TaintShape, Untouched
<1> QED BY <1>4, <1>5, <1>6, <1>7, <1>8 DEF Kept, IInv, Shape

LEMMA ReserveMemoryKeeps ==
  ASSUME IInv, ReserveMemory
  PROVE  Kept
<1>1. /\ op' \in Ops /\ op'.pc \in {"create", "relieve"}
      /\ (op'.pc = "relieve" => op'.picked \subseteq NamedIds)
      /\ UNCHANGED <<op.kind, op.sid, op.obj, op.raw, op.export, op.token, op.record, op.batch>>
  <2>1. CASE Goto("create")
    BY <2>1 DEF IInv, TypeOK, Goto, Ops, Checkpoints, Fallible
  <2>2. CASE op' = [op EXCEPT !.pc = "relieve", !.picked = {s \in NamedIds : Uncloned(s)}]
    <3>1. {s \in NamedIds : Uncloned(s)} \in SUBSET NamedIds /\ NamedIds \subseteq StateIds
      BY DEF NamedIds
    <3> QED BY <2>2, <3>1 DEF IInv, TypeOK, Ops, Fallible
  <2> QED BY <2>1, <2>2 DEF ReserveMemory
<1>2. op.pc = "reserve" /\ UNCHANGED <<named, disk, handoffs, listed>> /\ Untouched
  BY DEF ReserveMemory, At
<1>3. Steady
  BY <1>1, <1>2 DEF IInv, TypeOK, Steady
<1>4. /\ TypeOK' /\ Ledger' /\ ~Creates /\ ExportShape' /\ NameShape'
      /\ \A o \in Objects : NamedAs(o)' <=> NamedAs(o)
  BY <1>3, StaysTheSame
<1>5. OpShape'
  BY <1>1, <1>2, <1>4 DEF IInv, TypeOK, Ops, Shape, KindsAt, Creators, OpShape
<1>6. WorkShape'
  BY <1>1, <1>2, <1>4
  DEF IInv, TypeOK, Ops, Shape, KindsAt, Creators, OpShape, WorkShape, NamedIds
<1>7. TokenShape'
  BY <1>1, <1>2, <1>4 DEF IInv, TypeOK, Ops, Shape, KindsAt, Creators, OpShape, TokenShape
<1>8. TaintShape'
  BY <1>1, <1>2, <1>4
  DEF IInv, TypeOK, Ops, Shape, KindsAt, Creators, OpShape, TaintShape, Untouched
<1> QED BY <1>4, <1>5, <1>6, <1>7, <1>8 DEF Kept, IInv, Shape

LEMMA ReserveAgainKeeps ==
  ASSUME IInv, ReserveAgain
  PROVE  Kept
<1>1. /\ op' \in Ops /\ op'.pc = "create" /\ op'.picked = {}
      /\ UNCHANGED <<op.kind, op.sid, op.obj, op.raw, op.export, op.token, op.record, op.batch>>
  BY DEF IInv, TypeOK, ReserveAgain, At, Goto, Ops, Checkpoints, Fallible
<1>2. op.pc = "relieve" /\ UNCHANGED <<named, disk, handoffs, listed>> /\ Untouched
  BY DEF ReserveAgain, At
<1>3. Steady
  BY <1>1, <1>2 DEF IInv, TypeOK, Steady
<1>4. /\ TypeOK' /\ Ledger' /\ ~Creates /\ ExportShape' /\ NameShape'
      /\ \A o \in Objects : NamedAs(o)' <=> NamedAs(o)
  BY <1>3, StaysTheSame
<1>5. OpShape'
  BY <1>1, <1>2, <1>4 DEF IInv, TypeOK, Ops, Shape, KindsAt, Creators, OpShape
<1>6. WorkShape'
  BY <1>1, <1>2, <1>4 DEF IInv, TypeOK, Ops, Shape, KindsAt, Creators, OpShape, WorkShape
<1>7. TokenShape'
  BY <1>1, <1>2, <1>4 DEF IInv, TypeOK, Ops, Shape, KindsAt, Creators, OpShape, TokenShape
<1>8. TaintShape'
  BY <1>1, <1>2, <1>4
  DEF IInv, TypeOK, Ops, Shape, KindsAt, Creators, OpShape, TaintShape, Untouched
<1> QED BY <1>4, <1>5, <1>6, <1>7, <1>8 DEF Kept, IInv, Shape

LEMMA DemoteToDiskKeeps ==
  ASSUME IInv, DemoteToDisk
  PROVE  Kept
<1>1. /\ op' \in Ops /\ op'.pc \in {"drop", "export"}
      /\ UNCHANGED <<op.kind, op.sid, op.obj, op.raw, op.export, op.token, op.record, op.batch, op.picked>>
  BY DEF IInv, TypeOK, DemoteToDisk, At, Goto, Ops, Checkpoints, Fallible
<1>2. op.pc = "demote" /\ ~latched /\ UNCHANGED <<named, disk, handoffs, listed>> /\ Untouched
  BY DEF DemoteToDisk, At
<1>3. Steady
  BY <1>1, <1>2 DEF IInv, TypeOK, Steady
<1>4. /\ TypeOK' /\ Ledger' /\ ~Creates /\ ExportShape' /\ NameShape'
      /\ \A o \in Objects : NamedAs(o)' <=> NamedAs(o)
  BY <1>3, StaysTheSame
<1>5. OpShape'
  BY <1>1, <1>2, <1>4 DEF IInv, TypeOK, Ops, Shape, KindsAt, Creators, OpShape, WorkShape, Named
<1>6. WorkShape'
  BY <1>1, <1>2, <1>4 DEF IInv, TypeOK, Ops, Shape, KindsAt, Creators, OpShape, WorkShape
<1>7. TokenShape'
  BY <1>1, <1>2, <1>4 DEF IInv, TypeOK, Ops, Shape, KindsAt, Creators, OpShape, TokenShape
<1>8. TaintShape'
  BY <1>1, <1>2, <1>4
  DEF IInv, TypeOK, Ops, Shape, KindsAt, Creators, OpShape, TaintShape, Untouched
<1> QED BY <1>4, <1>5, <1>6, <1>7, <1>8 DEF Kept, IInv, Shape

LEMMA MoveStateKeeps ==
  ASSUME IInv, MoveState
  PROVE  Kept
<1>1. /\ op' \in Ops /\ op'.pc = "reserve"
      /\ UNCHANGED <<op.kind, op.sid, op.obj, op.raw, op.export, op.token, op.record, op.batch, op.picked>>
  BY DEF IInv, TypeOK, MoveState, At, Goto, Ops, Checkpoints, Fallible
<1>2. op.pc = "move" /\ ~latched /\ UNCHANGED <<named, disk, handoffs, listed>> /\ Untouched
  BY DEF MoveState, At
<1>3. Steady
  BY <1>1, <1>2 DEF IInv, TypeOK, Steady
<1>4. /\ TypeOK' /\ Ledger' /\ ~Creates /\ ExportShape' /\ NameShape'
      /\ \A o \in Objects : NamedAs(o)' <=> NamedAs(o)
  BY <1>3, StaysTheSame
<1>5. OpShape'
  BY <1>1, <1>2, <1>4 DEF IInv, TypeOK, Ops, Shape, KindsAt, Creators, OpShape
<1>6. WorkShape'
  BY <1>1, <1>2, <1>4 DEF IInv, TypeOK, Ops, Shape, KindsAt, Creators, OpShape, WorkShape
<1>7. TokenShape'
  BY <1>1, <1>2, <1>4 DEF IInv, TypeOK, Ops, Shape, KindsAt, Creators, OpShape, TokenShape
<1>8. TaintShape'
  BY <1>1, <1>2, <1>4
  DEF IInv, TypeOK, Ops, Shape, KindsAt, Creators, OpShape, TaintShape, Untouched
<1> QED BY <1>4, <1>5, <1>6, <1>7, <1>8 DEF Kept, IInv, Shape

LEMMA PromoteFromDiskKeeps ==
  ASSUME IInv, PromoteFromDisk
  PROVE  Kept
<1>1. /\ op' \in Ops /\ op'.pc = "reserve"
      /\ UNCHANGED <<op.kind, op.sid, op.obj, op.raw, op.export, op.token, op.record, op.batch, op.picked>>
  BY DEF IInv, TypeOK, PromoteFromDisk, At, Goto, Ops, Checkpoints, Fallible
<1>2. op.pc = "promote" /\ ~latched /\ UNCHANGED <<named, disk, handoffs, listed>> /\ Untouched
  BY DEF PromoteFromDisk, At
<1>3. Steady
  BY <1>1, <1>2 DEF IInv, TypeOK, Steady
<1>4. /\ TypeOK' /\ Ledger' /\ ~Creates /\ ExportShape' /\ NameShape'
      /\ \A o \in Objects : NamedAs(o)' <=> NamedAs(o)
  BY <1>3, StaysTheSame
<1>5. OpShape'
  BY <1>1, <1>2, <1>4 DEF IInv, TypeOK, Ops, Shape, KindsAt, Creators, OpShape
<1>6. WorkShape'
  BY <1>1, <1>2, <1>4 DEF IInv, TypeOK, Ops, Shape, KindsAt, Creators, OpShape, WorkShape
<1>7. TokenShape'
  BY <1>1, <1>2, <1>4 DEF IInv, TypeOK, Ops, Shape, KindsAt, Creators, OpShape, TokenShape
<1>8. TaintShape'
  BY <1>1, <1>2, <1>4
  DEF IInv, TypeOK, Ops, Shape, KindsAt, Creators, OpShape, TaintShape, Untouched
<1> QED BY <1>4, <1>5, <1>6, <1>7, <1>8 DEF Kept, IInv, Shape

LEMMA UnhealthyKeeps ==
  ASSUME IInv, Unhealthy
  PROVE  Kept
<1>1. op.raw = NoObject
  BY DEF Unhealthy, Checkpoints, IInv, Shape, OpShape
<1>2. Finish
  BY DEF Unhealthy
<1> QED BY <1>1, <1>2, FinishKeeps

LEMMA FailKeeps ==
  ASSUME IInv, Fail
  PROVE  Kept
<1>1. op.raw = NoObject
  BY DEF Fail, Fallible, IInv, Shape, OpShape
<1>2. Finish
  BY DEF Fail
<1> QED BY <1>1, <1>2, FinishKeeps

LEMMA FailedKeeps ==
  ASSUME IInv, Failed
  PROVE  Kept
<1>1. op.raw = NoObject
  BY DEF Failed, At, IInv, Shape, OpShape
<1>2. Finish
  BY DEF Failed
<1> QED BY <1>1, <1>2, FinishKeeps

LEMMA DecodeWithoutStateKeeps ==
  ASSUME IInv, DecodeWithoutState
  PROVE  Kept
<1>1. op.raw = NoObject
  BY DEF DecodeWithoutState, At, IInv, Shape, OpShape
<1>2. Finish
  BY DEF DecodeWithoutState
<1> QED BY <1>1, <1>2, FinishKeeps

LEMMA RevalidateKeeps ==
  ASSUME IInv, Revalidate
  PROVE  Kept
<1>1. CASE named[op.sid].expired
  <2>1. op.raw = NoObject /\ Finish
    BY <1>1 DEF Revalidate, At, IInv, Shape, OpShape
  <2> QED BY <2>1, FinishKeeps
<1>2. CASE ~named[op.sid].expired
  <2>1. /\ op' \in Ops /\ op'.pc = "reused"
        /\ UNCHANGED <<op.kind, op.sid, op.obj, op.raw, op.export, op.token, op.record, op.batch, op.picked>>
    BY <1>2 DEF IInv, TypeOK, Revalidate, At, Goto, Ops, Checkpoints, Fallible
  <2>2. op.pc = "validate" /\ UNCHANGED <<named, disk, handoffs, listed>> /\ Untouched
    BY <1>2 DEF Revalidate, At
  <2>3. Steady
    BY <2>1, <2>2 DEF IInv, TypeOK, Steady
  <2>4. /\ TypeOK' /\ Ledger' /\ ~Creates /\ ExportShape' /\ NameShape'
        /\ \A o \in Objects : NamedAs(o)' <=> NamedAs(o)
    BY <2>3, StaysTheSame
  <2>5. OpShape'
    BY <2>1, <2>2, <2>4 DEF IInv, TypeOK, Ops, Shape, KindsAt, Creators, OpShape
  <2>6. WorkShape'
    BY <2>1, <2>2, <2>4 DEF IInv, TypeOK, Ops, Shape, KindsAt, Creators, OpShape, WorkShape
  <2>7. TokenShape'
    BY <2>1, <2>2, <2>4 DEF IInv, TypeOK, Ops, Shape, KindsAt, Creators, OpShape, TokenShape
  <2>8. TaintShape'
    BY <2>1, <2>2, <2>4
    DEF IInv, TypeOK, Ops, Shape, KindsAt, Creators, OpShape, TaintShape, Untouched
  <2> QED BY <2>4, <2>5, <2>6, <2>7, <2>8 DEF Kept, IInv, Shape
<1> QED BY <1>1, <1>2

LEMMA ConfirmPersistedKeeps ==
  ASSUME IInv, ConfirmPersisted
  PROVE  Kept
<1>1. /\ op' \in Ops /\ op'.pc \in {"issue", "drop"}
      /\ (op'.pc = "drop" => op.kind = "demote")
      /\ (op.kind = "demote" => op'.pc = "drop")
      /\ UNCHANGED <<op.kind, op.sid, op.obj, op.raw, op.export, op.token, op.record, op.batch, op.picked>>
  BY DEF IInv, TypeOK, ConfirmPersisted, At, Goto, Ops, Checkpoints, Fallible
<1>2. op.pc = "confirm" /\ ~latched /\ UNCHANGED <<disk, handoffs, listed>> /\ Untouched
  BY DEF ConfirmPersisted, At
<1>3. Steady
  <2>1. CASE UNCHANGED named
    BY <1>1, <1>2, <2>1 DEF IInv, TypeOK, Steady
  <2>2. CASE op.kind = "reuse" /\ named' = [named EXCEPT ![op.sid].persisted = TRUE]
    <3>1. op.sid \in StateIds /\ named[op.sid] \in Named
      BY <1>2, <2>2 DEF IInv, Shape, WorkShape, TypeOK
    <3>2. named' = [named EXCEPT ![op.sid] = [named[op.sid] EXCEPT !.persisted = TRUE]]
      BY <2>2
    <3>3. \A s \in StateIds :
            \/ named'[s] = named[s]
            \/ named[s] # NotNamed /\ named'[s] \in Named /\ named'[s].obj = named[s].obj
      BY <3>1, <3>2, Flagged, NamedIsSome DEF IInv, TypeOK
    <3>4. named' = [s \in StateIds |-> named'[s]]
      BY <3>2 DEF IInv, TypeOK
    <3>5. /\ named' \in [StateIds -> Named \cup {NotNamed}]
          /\ \A s \in StateIds : /\ named'[s] = NotNamed <=> named[s] = NotNamed
                                 /\ named'[s].obj = named[s].obj
      BY <3>3, <3>4, Reflagged DEF IInv
    <3> QED BY <1>1, <1>2, <3>5 DEF IInv, TypeOK, Steady
  <2> QED BY <2>1, <2>2 DEF ConfirmPersisted
<1>4. /\ TypeOK' /\ Ledger' /\ ~Creates /\ ExportShape' /\ NameShape'
      /\ \A o \in Objects : NamedAs(o)' <=> NamedAs(o)
  BY <1>3, StaysTheSame
<1>5. \A s \in StateIds : /\ named'[s] = NotNamed <=> named[s] = NotNamed
                          /\ named'[s].obj = named[s].obj
  BY <1>3 DEF Steady
<1>6. \A t \in Tokens : handoffs'[t].use = handoffs[t].use
  BY <1>3 DEF Steady
<1>7. OpShape'
  BY <1>1, <1>2, <1>4, <1>5, <1>6
  DEF IInv, TypeOK, Ops, Shape, KindsAt, Creators, OpShape, WorkShape, Named
<1>8. WorkShape'
  BY <1>1, <1>2, <1>4, <1>5, <1>6
  DEF IInv, TypeOK, Ops, Shape, KindsAt, Creators, OpShape, WorkShape
<1>9. TokenShape'
  BY <1>1, <1>2, <1>4, <1>5, <1>6
  DEF IInv, TypeOK, Ops, Shape, KindsAt, Creators, OpShape, TokenShape
<1>10. TaintShape'
  BY <1>1, <1>2, <1>4, <1>5, <1>6
  DEF IInv, TypeOK, Ops, Shape, KindsAt, Creators, OpShape, TaintShape, Untouched
<1> QED BY <1>4, <1>7, <1>8, <1>9, <1>10 DEF Kept, IInv, Shape

LEMMA StateExpiresKeeps ==
  ASSUME IInv, NEW s \in StateIds, StateExpires(s)
  PROVE  Kept
<1>1. /\ op' \in Ops
      /\ UNCHANGED <<op.kind, op.pc, op.sid, op.obj, op.raw, op.export, op.token, op.record, op.batch, op.picked>>
  BY DEF StateExpires, IInv, TypeOK
<1>2. UNCHANGED <<status, account, latched, disk, handoffs, listed, op, tainted>>
  BY DEF StateExpires, At
<1>3. Steady
  <2>1. /\ named[s] # NotNamed /\ named[s] \in Named
        /\ named' = [named EXCEPT ![s] = [named[s] EXCEPT !.expired = TRUE]]
    BY DEF StateExpires, IInv, TypeOK
  <2>2. \A r \in StateIds :
          \/ named'[r] = named[r]
          \/ named[r] # NotNamed /\ named'[r] \in Named /\ named'[r].obj = named[r].obj
    BY <2>1, Flagged DEF IInv, TypeOK
  <2>3. named' = [r \in StateIds |-> named'[r]]
    BY <2>1 DEF IInv, TypeOK
  <2>4. /\ named' \in [StateIds -> Named \cup {NotNamed}]
        /\ \A r \in StateIds : /\ named'[r] = NotNamed <=> named[r] = NotNamed
                               /\ named'[r].obj = named[r].obj
    BY <2>2, <2>3, Reflagged DEF IInv
  <2> QED BY <1>1, <1>2, <2>4 DEF IInv, TypeOK, Steady, Untouched
<1>4. /\ TypeOK' /\ Ledger' /\ ~Creates /\ ExportShape' /\ NameShape'
      /\ \A o \in Objects : NamedAs(o)' <=> NamedAs(o)
  BY <1>3, StaysTheSame
<1>5. \A r \in StateIds : /\ named'[r] = NotNamed <=> named[r] = NotNamed
                          /\ named'[r].obj = named[r].obj
  BY <1>3 DEF Steady
<1>6. \A t \in Tokens : handoffs'[t].use = handoffs[t].use
  BY <1>3 DEF Steady
<1>7. OpShape'
  BY <1>1, <1>2, <1>4, <1>5, <1>6 DEF IInv, TypeOK, Ops, Shape, KindsAt, Creators, OpShape
<1>8. WorkShape'
  BY <1>1, <1>2, <1>4, <1>5, <1>6
  DEF IInv, TypeOK, Ops, Shape, KindsAt, Creators, OpShape, WorkShape
<1>9. TokenShape'
  BY <1>1, <1>2, <1>4, <1>5, <1>6
  DEF IInv, TypeOK, Ops, Shape, KindsAt, Creators, OpShape, TokenShape
<1>10. TaintShape'
  BY <1>1, <1>2, <1>4, <1>5, <1>6
  DEF IInv, TypeOK, Ops, Shape, KindsAt, Creators, OpShape, TaintShape, Untouched
<1> QED BY <1>4, <1>7, <1>8, <1>9, <1>10 DEF Kept, IInv, Shape

LEMMA HandoffExpiresKeeps ==
  ASSUME IInv, NEW t \in Tokens, HandoffExpires(t)
  PROVE  Kept
<1>1. /\ op' \in Ops
      /\ UNCHANGED <<op.kind, op.pc, op.sid, op.obj, op.raw, op.export, op.token, op.record, op.batch, op.picked>>
  BY DEF HandoffExpires, IInv, TypeOK
<1>2. UNCHANGED <<status, account, latched, disk, named, listed, op, tainted>>
  BY DEF HandoffExpires, At
<1>3. Steady
  <2>1. handoffs[t] \in [use : {"record"}, obj : Objects, expired : BOOLEAN]
    BY DEF HandoffExpires, IInv, TypeOK, FreeToken, ReservedToken
  <2>2. /\ [handoffs[t] EXCEPT !.expired = TRUE]
              \in [use : {"record"}, obj : Objects, expired : BOOLEAN]
        /\ [handoffs[t] EXCEPT !.expired = TRUE].use = handoffs[t].use
        /\ [handoffs[t] EXCEPT !.expired = TRUE].obj = handoffs[t].obj
        /\ handoffs' = [handoffs EXCEPT ![t] = [handoffs[t] EXCEPT !.expired = TRUE]]
    BY <2>1 DEF HandoffExpires
  <2>3. /\ handoffs' \in [Tokens -> {FreeToken, ReservedToken}
                               \cup [use : {"record"}, obj : Objects, expired : BOOLEAN]]
        /\ \A u \in Tokens : /\ handoffs'[u].use = handoffs[u].use
                             /\ handoffs'[u].obj = handoffs[u].obj
    BY <2>1, <2>2 DEF IInv, TypeOK
  <2> QED BY <1>1, <1>2, <2>3 DEF IInv, TypeOK, Steady, Untouched
<1>4. /\ TypeOK' /\ Ledger' /\ ~Creates /\ ExportShape' /\ NameShape'
      /\ \A o \in Objects : NamedAs(o)' <=> NamedAs(o)
  BY <1>3, StaysTheSame
<1>5. \A s \in StateIds : /\ named'[s] = NotNamed <=> named[s] = NotNamed
                          /\ named'[s].obj = named[s].obj
  BY <1>3 DEF Steady
<1>6. \A h \in Tokens : handoffs'[h].use = handoffs[h].use
  BY <1>3 DEF Steady
<1>7. OpShape'
  BY <1>1, <1>2, <1>4, <1>5, <1>6 DEF IInv, TypeOK, Ops, Shape, KindsAt, Creators, OpShape
<1>8. WorkShape'
  BY <1>1, <1>2, <1>4, <1>5, <1>6
  DEF IInv, TypeOK, Ops, Shape, KindsAt, Creators, OpShape, WorkShape
<1>9. TokenShape'
  BY <1>1, <1>2, <1>4, <1>5, <1>6
  DEF IInv, TypeOK, Ops, Shape, KindsAt, Creators, OpShape, TokenShape
<1>10. TaintShape'
  BY <1>1, <1>2, <1>4, <1>5, <1>6
  DEF IInv, TypeOK, Ops, Shape, KindsAt, Creators, OpShape, TaintShape, Untouched
<1> QED BY <1>4, <1>7, <1>8, <1>9, <1>10 DEF Kept, IInv, Shape

LEMMA RemoveFromDiskKeeps ==
  ASSUME IInv, RemoveFromDisk
  PROVE  Kept
<1>1. /\ op' \in Ops /\ op'.kind = "none" /\ op'.pc = "idle" /\ op'.sid = NoState
      /\ op'.obj = NoObject /\ op'.raw = NoObject /\ op'.export = NoObject
      /\ op'.token = NoToken /\ op'.record = NoToken /\ op'.batch = {}
      /\ op'.picked = {}
  <2>1. op' = Idle
    BY DEF RemoveFromDisk
  <2> QED BY <2>1, IdleShape DEF Idle
<1>2. op.pc = "remove" /\ UNCHANGED <<handoffs, listed>> /\ Untouched
  BY DEF RemoveFromDisk, At
<1>3. Steady
  BY <1>1, <1>2 DEF IInv, TypeOK, RemoveFromDisk, Steady, Named, NotNamed, Shape, OpShape,
     WorkShape, ExportShape, KindsAt
<1>4. /\ TypeOK' /\ Ledger' /\ ~Creates /\ ExportShape' /\ NameShape'
      /\ \A o \in Objects : NamedAs(o)' <=> NamedAs(o)
  BY <1>3, StaysTheSame
<1>5. \A s \in StateIds : /\ named'[s] = NotNamed <=> named[s] = NotNamed
                          /\ named'[s].obj = named[s].obj
  BY <1>3 DEF Steady
<1>6. \A t \in Tokens : handoffs'[t].use = handoffs[t].use
  BY <1>3 DEF Steady
<1>7. OpShape'
  BY <1>1, <1>2, <1>4, <1>5, <1>6 DEF IInv, TypeOK, Ops, Shape, KindsAt, Creators, OpShape
<1>8. WorkShape'
  BY <1>1, <1>2, <1>4, <1>5, <1>6
  DEF IInv, TypeOK, Ops, Shape, KindsAt, Creators, OpShape, WorkShape
<1>9. TokenShape'
  BY <1>1, <1>2, <1>4, <1>5, <1>6
  DEF IInv, TypeOK, Ops, Shape, KindsAt, Creators, OpShape, TokenShape
<1>10. TaintShape'
  BY <1>1, <1>2, <1>4, <1>5, <1>6
  DEF IInv, TypeOK, Ops, Shape, KindsAt, Creators, OpShape, TaintShape, Untouched
<1> QED BY <1>4, <1>7, <1>8, <1>9, <1>10 DEF Kept, IInv, Shape

LEMMA PruneDiskKeeps ==
  ASSUME IInv, NEW stored \in SUBSET disk, PruneDisk(stored)
  PROVE  Kept
<1>1. /\ op' \in Ops /\ op'.kind = "none" /\ op'.pc = "idle" /\ op'.sid = NoState
      /\ op'.obj = NoObject /\ op'.raw = NoObject /\ op'.export = NoObject
      /\ op'.token = NoToken /\ op'.record = NoToken /\ op'.batch = {}
      /\ op'.picked = {}
  <2>1. op' = Idle
    BY DEF PruneDisk
  <2> QED BY <2>1, IdleShape DEF Idle
<1>2. op.pc = "prune" /\ op.batch = {} /\ UNCHANGED <<handoffs, listed>> /\ Untouched
  BY DEF PruneDisk, At
<1>3. Steady
  <2>1. /\ op.obj = NoObject /\ op.raw = NoObject /\ op.export = NoObject
    BY <1>2 DEF IInv, Shape, OpShape, WorkShape
  <2>2. disk' \subseteq StateIds
    BY DEF PruneDisk, IInv, TypeOK
  <2>3. CASE UNCHANGED named
    BY <1>1, <1>2, <2>1, <2>2, <2>3 DEF IInv, TypeOK, Steady
  <2>4. CASE named' = [s \in StateIds |-> IF s \in stored /\ named[s] # NotNamed
                                        THEN [named[s] EXCEPT !.persisted = FALSE] ELSE named[s]]
    <3>1. \A s \in StateIds :
            \/ named'[s] = named[s]
            \/ named[s] # NotNamed /\ named'[s] = [named[s] EXCEPT !.persisted = FALSE]
      BY <2>4
    <3>2. \A s \in StateIds :
            \/ named'[s] = named[s]
            \/ named[s] # NotNamed /\ named'[s] \in Named /\ named'[s].obj = named[s].obj
      <4>1. \A s \in StateIds : named[s] # NotNamed =>
              /\ [named[s] EXCEPT !.persisted = FALSE] \in Named
              /\ [named[s] EXCEPT !.persisted = FALSE].obj = named[s].obj
        BY Flagged DEF IInv, TypeOK
      <4> QED BY <3>1, <4>1
    <3>3. named' = [s \in StateIds |-> named'[s]]
      BY <2>4
    <3>4. /\ named' \in [StateIds -> Named \cup {NotNamed}]
          /\ \A s \in StateIds : /\ named'[s] = NotNamed <=> named[s] = NotNamed
                                 /\ named'[s].obj = named[s].obj
      BY <3>2, <3>3, Reflagged DEF IInv
    <3> QED BY <1>1, <1>2, <2>1, <2>2, <3>4 DEF IInv, TypeOK, Steady
  <2> QED BY <2>3, <2>4 DEF PruneDisk
<1>4. /\ TypeOK' /\ Ledger' /\ ~Creates /\ ExportShape' /\ NameShape'
      /\ \A o \in Objects : NamedAs(o)' <=> NamedAs(o)
  BY <1>3, StaysTheSame
<1>5. \A s \in StateIds : /\ named'[s] = NotNamed <=> named[s] = NotNamed
                          /\ named'[s].obj = named[s].obj
  BY <1>3 DEF Steady
<1>6. \A t \in Tokens : handoffs'[t].use = handoffs[t].use
  BY <1>3 DEF Steady
<1>7. OpShape'
  BY <1>1, <1>2, <1>4, <1>5, <1>6 DEF IInv, TypeOK, Ops, Shape, KindsAt, Creators, OpShape
<1>8. WorkShape'
  BY <1>1, <1>2, <1>4, <1>5, <1>6
  DEF IInv, TypeOK, Ops, Shape, KindsAt, Creators, OpShape, WorkShape
<1>9. TokenShape'
  BY <1>1, <1>2, <1>4, <1>5, <1>6
  DEF IInv, TypeOK, Ops, Shape, KindsAt, Creators, OpShape, TokenShape
<1>10. TaintShape'
  BY <1>1, <1>2, <1>4, <1>5, <1>6
  DEF IInv, TypeOK, Ops, Shape, KindsAt, Creators, OpShape, TaintShape, Untouched
<1> QED BY <1>4, <1>7, <1>8, <1>9, <1>10 DEF Kept, IInv, Shape

LEMMA StartPrefillKeeps ==
  ASSUME IInv, StartPrefill
  PROVE  Kept
<1>1. op.pc = "idle" /\ ~latched /\ UNCHANGED <<named, disk, listed>> /\ Dropping
  BY DEF StartPrefill, At
<1>2. op.obj = NoObject /\ op.raw = NoObject /\ op.export = NoObject /\ op.batch = {}
      /\ op.token = NoToken
  BY <1>1 DEF IInv, TypeOK, Ops, Shape, OpShape, WorkShape, TokenShape, KindsAt
<1>3. CASE HasRoom(Live)
  <2>1. PICK t \in Tokens \ TokensIn(handoffs) :
          /\ handoffs' = [Live EXCEPT ![t] = ReservedToken]
          /\ op' = [Begin("fresh") EXCEPT !.pc = "find", !.token = t]
    BY <1>3 DEF StartPrefill
  <2>2. /\ op' \in Ops /\ op'.kind = "fresh" /\ op'.pc = "find" /\ op'.sid = NoState
        /\ op'.obj = NoObject /\ op'.raw = NoObject /\ op'.export = NoObject
        /\ op'.token = t /\ op'.record = NoToken /\ op'.batch = {} /\ op'.picked = {}
    BY <2>1, <1>2 DEF Begin, Idle, Ops, Checkpoints
  <2>3. /\ named' \in [StateIds -> Named \cup {NotNamed}]
        /\ \A s \in StateIds : named'[s] = NotNamed \/ named'[s] = named[s]
    BY <1>1, <1>2, <2>2 DEF IInv, TypeOK
  <2>4. NameShape' /\ \A o \in Objects : NamedAs(o)' => NamedAs(o)
    BY <1>1, <1>2, <2>2, <2>3, FewerNames DEF IInv, TypeOK, NotNamed
  <2>5. /\ handoffs' \in [Tokens -> {FreeToken, ReservedToken}
                              \cup [use : {"record"}, obj : Objects, expired : BOOLEAN]]
        /\ \A o \in Objects : RecordOf(o)' => RecordOf(o)
    <3>1. \A u \in Tokens : \/ handoffs'[u] = FreeToken
                               \/ handoffs'[u] = ReservedToken
                               \/ handoffs'[u] = handoffs[u]
      BY <2>1, LiveIs DEF IInv
    <3>2. handoffs' = [u \in Tokens |-> handoffs'[u]]
      BY <2>1, LiveIs DEF IInv
    <3>3. handoffs' \in [Tokens -> {FreeToken, ReservedToken}
                                \cup [use : {"record"}, obj : Objects, expired : BOOLEAN]]
      BY <3>1, <3>2 DEF IInv, TypeOK
    <3>4. FreeToken.use # "record" /\ ReservedToken.use # "record"
      BY DEF FreeToken, ReservedToken
    <3>5. \A o \in Objects : RecordOf(o)' => RecordOf(o)
      BY <3>1, <3>4 DEF RecordOf
    <3> QED BY <3>3, <3>5
  <2>6. \A o \in Objects : Owned(o)' => Owned(o)
    BY <1>1, <1>2, <2>2, <2>4, <2>5 DEF Owned, InBatch
  <2>7. /\ TypeOK' /\ Ledger' /\ ~Creates
        /\ tainted' => latched'
        /\ op'.pc = "idle" => ~tainted'
        /\ (\A o \in Objects : Owned(o) => Owned(o)') => (tainted' => tainted)
    BY <1>1, <1>2, <2>2, <2>3, <2>5, <2>6, Dropped DEF IInv, TypeOK
  <2>8. \A u \in Tokens : handoffs'[u].use = "reserved" <=> u = t
    BY <2>1, <1>2, LiveIs, SentinelsAssumption DEF IInv, Shape, TokenShape, ReservedToken
  <2>9. OpShape'
    BY <1>1, <1>2, <2>2, <2>3, <2>4, <2>5, <2>7, SentinelsAssumption
    DEF IInv, TypeOK, Ops, Shape, KindsAt, Creators, OpShape
  <2>10. WorkShape'
    BY <1>1, <1>2, <2>2, <2>3, <2>4, <2>5, <2>7, SentinelsAssumption
    DEF IInv, TypeOK, Ops, Shape, KindsAt, Creators, OpShape, WorkShape
  <2>11. ExportShape'
    BY <1>1, <1>2, <2>2, <2>3, <2>4, <2>5, <2>7, SentinelsAssumption
    DEF IInv, TypeOK, Ops, Shape, KindsAt, Creators, OpShape, ExportShape
  <2>12. TokenShape'
    BY <1>1, <1>2, <2>2, <2>3, <2>4, <2>5, <2>7, <2>8, SentinelsAssumption
    DEF IInv, TypeOK, Ops, Shape, KindsAt, Creators, OpShape, TokenShape
  <2>13. TaintShape'
    BY <1>1, <1>2, <2>2, <2>3, <2>4, <2>5, <2>7, SentinelsAssumption
    DEF IInv, TypeOK, Ops, Shape, KindsAt, Creators, OpShape, TaintShape
  <2> QED BY <2>4, <2>7, <2>9, <2>10, <2>11, <2>12, <2>13 DEF Kept, IInv, Shape
<1>4. CASE ~HasRoom(Live)
  <2>1. handoffs' = Live /\ op' = op
    BY <1>4 DEF StartPrefill
  <2>2. /\ named' \in [StateIds -> Named \cup {NotNamed}]
        /\ \A s \in StateIds : named'[s] = NotNamed \/ named'[s] = named[s]
    BY <1>1, <1>2, <2>1 DEF IInv, TypeOK
  <2>3. NameShape' /\ \A o \in Objects : NamedAs(o)' => NamedAs(o)
    BY <1>1, <1>2, <2>1, <2>2, FewerNames DEF IInv, TypeOK, NotNamed
  <2>4. /\ handoffs' \in [Tokens -> {FreeToken, ReservedToken}
                              \cup [use : {"record"}, obj : Objects, expired : BOOLEAN]]
        /\ \A o \in Objects : RecordOf(o)' => RecordOf(o)
    BY <2>1, LiveIs DEF IInv, RecordOf, FreeToken
  <2>5. \A o \in Objects : Owned(o)' => Owned(o)
    BY <1>1, <1>2, <2>1, <2>3, <2>4 DEF Owned, InBatch
  <2>6. /\ TypeOK' /\ Ledger' /\ ~Creates
        /\ tainted' => latched'
        /\ op'.pc = "idle" => ~tainted'
        /\ (\A o \in Objects : Owned(o) => Owned(o)') => (tainted' => tainted)
    BY <1>1, <1>2, <2>1, <2>2, <2>4, <2>5, Dropped DEF IInv, TypeOK
  <2>7. \A u \in Tokens : handoffs'[u].use # "reserved"
    BY <2>1, <1>2, LiveIs, SentinelsAssumption DEF IInv, Shape, TokenShape
  <2>8. OpShape'
    BY <1>1, <1>2, <2>1, <2>2, <2>3, <2>4, <2>6, SentinelsAssumption
    DEF IInv, TypeOK, Ops, Shape, KindsAt, Creators, OpShape
  <2>9. WorkShape'
    BY <1>1, <1>2, <2>1, <2>2, <2>3, <2>4, <2>6, SentinelsAssumption
    DEF IInv, TypeOK, Ops, Shape, KindsAt, Creators, OpShape, WorkShape
  <2>10. ExportShape'
    BY <1>1, <1>2, <2>1, <2>2, <2>3, <2>4, <2>6, SentinelsAssumption
    DEF IInv, TypeOK, Ops, Shape, KindsAt, Creators, OpShape, ExportShape
  <2>11. TokenShape'
    BY <1>1, <1>2, <2>1, <2>2, <2>3, <2>4, <2>6, <2>7, SentinelsAssumption
    DEF IInv, TypeOK, Ops, Shape, KindsAt, Creators, OpShape, TokenShape
  <2>12. TaintShape'
    BY <1>1, <1>2, <2>1, <2>2, <2>3, <2>4, <2>6, SentinelsAssumption
    DEF IInv, TypeOK, Ops, Shape, KindsAt, Creators, OpShape, TaintShape
  <2> QED BY <2>3, <2>6, <2>8, <2>9, <2>10, <2>11, <2>12 DEF Kept, IInv, Shape
<1> QED BY <1>3, <1>4

LEMMA IssueHandoffKeeps ==
  ASSUME IInv, IssueHandoff
  PROVE  Kept
<1>1. /\ op.pc = "issue" /\ op' = Idle /\ UNCHANGED <<named, disk, listed>> /\ Dropping
      /\ handoffs' = [handoffs EXCEPT ![op.token] = Handoff(op.obj)]
  BY DEF IssueHandoff, At
<1>2. op.raw = NoObject /\ op.export = NoObject /\ op.token \in Tokens /\ op.obj \in Objects
  BY <1>1 DEF IInv, TypeOK, Ops, Shape, OpShape, TokenShape, KindsAt
<1>3. /\ op' \in Ops /\ op'.kind = "none" /\ op'.pc = "idle" /\ op'.sid = NoState
      /\ op'.obj = NoObject /\ op'.raw = NoObject /\ op'.export = NoObject
      /\ op'.token = NoToken /\ op'.record = NoToken /\ op'.batch = {}
      /\ op'.picked = {}
  BY <1>1, IdleShape DEF Idle
<1>4. /\ named' \in [StateIds -> Named \cup {NotNamed}]
      /\ \A s \in StateIds : named'[s] = NotNamed \/ named'[s] = named[s]
  BY <1>1, <1>2, <1>3 DEF IInv, TypeOK
<1>5. NameShape' /\ \A o \in Objects : NamedAs(o)' => NamedAs(o)
  BY <1>1, <1>2, <1>3, <1>4, FewerNames DEF IInv, TypeOK, NotNamed
<1>6. /\ handoffs' \in [Tokens -> {FreeToken, ReservedToken}
                              \cup [use : {"record"}, obj : Objects, expired : BOOLEAN]]
      /\ \A o \in Objects : RecordOf(o)' => RecordOf(o) \/ o = op.obj
  BY <1>1, <1>2 DEF IInv, TypeOK, RecordOf, Handoff
<1>7. \A o \in Objects : Owned(o)' => Owned(o)
  BY <1>1, <1>2, <1>3, <1>5, <1>6 DEF Owned, InBatch
<1>8. /\ TypeOK' /\ Ledger' /\ ~Creates
      /\ tainted' => latched'
      /\ op'.pc = "idle" => ~tainted'
      /\ (\A o \in Objects : Owned(o) => Owned(o)') => (tainted' => tainted)
  BY <1>1, <1>2, <1>3, <1>4, <1>6, <1>7, Dropped DEF IInv, TypeOK
<1>9. \A u \in Tokens : handoffs'[u].use # "reserved"
  BY <1>1, <1>2 DEF IInv, TypeOK, Shape, TokenShape, Handoff
<1>10. OpShape'
  BY <1>1, <1>2, <1>3, <1>4, <1>5, <1>6, <1>8, SentinelsAssumption
  DEF IInv, TypeOK, Ops, Shape, KindsAt, Creators, OpShape
<1>11. WorkShape'
  BY <1>1, <1>2, <1>3, <1>4, <1>5, <1>6, <1>8, SentinelsAssumption
  DEF IInv, TypeOK, Ops, Shape, KindsAt, Creators, OpShape, WorkShape
<1>12. ExportShape'
  BY <1>1, <1>2, <1>3, <1>4, <1>5, <1>6, <1>8, SentinelsAssumption
  DEF IInv, TypeOK, Ops, Shape, KindsAt, Creators, OpShape, ExportShape
<1>13. TokenShape'
  BY <1>1, <1>2, <1>3, <1>4, <1>5, <1>6, <1>8, <1>9, SentinelsAssumption
  DEF IInv, TypeOK, Ops, Shape, KindsAt, Creators, OpShape, TokenShape
<1>14. TaintShape'
  BY <1>1, <1>2, <1>3, <1>4, <1>5, <1>6, <1>8, SentinelsAssumption
  DEF IInv, TypeOK, Ops, Shape, KindsAt, Creators, OpShape, TaintShape
<1> QED BY <1>5, <1>8, <1>10, <1>11, <1>12, <1>13, <1>14 DEF Kept, IInv, Shape

LEMMA StartDecodeKeeps ==
  ASSUME IInv, NEW t \in Tokens, StartDecode(t)
  PROVE  Kept
<1>1. /\ op.pc = "idle" /\ ~latched /\ UNCHANGED <<named, disk, listed>> /\ Dropping
      /\ handoffs[t].use = "record" /\ handoffs' = Live
  BY DEF StartDecode, At
<1>2. op.obj = NoObject /\ op.raw = NoObject /\ op.export = NoObject /\ op.batch = {}
      /\ op.token = NoToken
  BY <1>1 DEF IInv, TypeOK, Ops, Shape, OpShape, WorkShape, TokenShape, KindsAt
<1>3. handoffs[t].obj \in Objects /\ RecordOf(handoffs[t].obj)
  BY <1>1 DEF IInv, TypeOK, FreeToken, ReservedToken, RecordOf
<1>4. CASE Live[t] = FreeToken
  <2>1. /\ op' \in Ops /\ op'.kind = "none" /\ op'.pc = "idle" /\ op'.sid = NoState
        /\ op'.obj = NoObject /\ op'.raw = NoObject /\ op'.export = NoObject
        /\ op'.token = NoToken /\ op'.record = NoToken /\ op'.batch = {}
        /\ op'.picked = {}
    BY <1>4, IdleShape DEF StartDecode, Idle
  <2>2. /\ named' \in [StateIds -> Named \cup {NotNamed}]
        /\ \A s \in StateIds : named'[s] = NotNamed \/ named'[s] = named[s]
    BY <1>1, <1>2, <2>1 DEF IInv, TypeOK
  <2>3. NameShape' /\ \A o \in Objects : NamedAs(o)' => NamedAs(o)
    BY <1>1, <1>2, <2>1, <2>2, FewerNames DEF IInv, TypeOK, NotNamed
  <2>4. /\ handoffs' \in [Tokens -> {FreeToken, ReservedToken}
                              \cup [use : {"record"}, obj : Objects, expired : BOOLEAN]]
        /\ \A o \in Objects : RecordOf(o)' => RecordOf(o)
    BY <1>1, LiveIs DEF IInv, RecordOf, FreeToken
  <2>5. \A o \in Objects : Owned(o)' => Owned(o)
    BY <1>1, <1>2, <2>1, <2>3, <2>4 DEF Owned, InBatch
  <2>6. /\ TypeOK' /\ Ledger' /\ ~Creates
        /\ tainted' => latched'
        /\ op'.pc = "idle" => ~tainted'
        /\ (\A o \in Objects : Owned(o) => Owned(o)') => (tainted' => tainted)
    BY <1>1, <1>2, <2>1, <2>2, <2>4, <2>5, Dropped DEF IInv, TypeOK
  <2>7. \A u \in Tokens : handoffs'[u].use # "reserved"
    BY <1>1, <1>2, LiveIs, SentinelsAssumption DEF IInv, Shape, TokenShape
  <2>8. OpShape'
    BY <1>1, <1>2, <2>1, <2>2, <2>3, <2>4, <2>6, SentinelsAssumption
    DEF IInv, TypeOK, Ops, Shape, KindsAt, Creators, OpShape
  <2>9. WorkShape'
    BY <1>1, <1>2, <2>1, <2>2, <2>3, <2>4, <2>6, SentinelsAssumption
    DEF IInv, TypeOK, Ops, Shape, KindsAt, Creators, OpShape, WorkShape
  <2>10. ExportShape'
    BY <1>1, <1>2, <2>1, <2>2, <2>3, <2>4, <2>6, SentinelsAssumption
    DEF IInv, TypeOK, Ops, Shape, KindsAt, Creators, OpShape, ExportShape
  <2>11. TokenShape'
    BY <1>1, <1>2, <2>1, <2>2, <2>3, <2>4, <2>6, <2>7, SentinelsAssumption
    DEF IInv, TypeOK, Ops, Shape, KindsAt, Creators, OpShape, TokenShape
  <2>12. TaintShape'
    BY <1>1, <1>2, <2>1, <2>2, <2>3, <2>4, <2>6, SentinelsAssumption
    DEF IInv, TypeOK, Ops, Shape, KindsAt, Creators, OpShape, TaintShape
  <2> QED BY <2>3, <2>6, <2>8, <2>9, <2>10, <2>11, <2>12 DEF Kept, IInv, Shape
<1>5. CASE Live[t] # FreeToken
  <2>1. op' = [Begin("decode") EXCEPT !.pc = "inspected", !.record = t, !.obj = handoffs[t].obj]
    BY <1>5 DEF StartDecode
  <2>2. /\ op' \in Ops /\ op'.kind = "decode" /\ op'.pc = "inspected" /\ op'.sid = NoState
        /\ op'.obj = handoffs[t].obj /\ op'.raw = NoObject /\ op'.export = NoObject
        /\ op'.token = NoToken /\ op'.record = t /\ op'.batch = {} /\ op'.picked = {}
    BY <1>3, <2>1 DEF Begin, Idle, Ops, Checkpoints
  <2>3. /\ named' \in [StateIds -> Named \cup {NotNamed}]
        /\ \A s \in StateIds : named'[s] = NotNamed \/ named'[s] = named[s]
    BY <1>1, <1>2, <1>3, <2>2 DEF IInv, TypeOK
  <2>4. NameShape' /\ \A o \in Objects : NamedAs(o)' => NamedAs(o)
    BY <1>1, <1>2, <1>3, <2>2, <2>3, FewerNames DEF IInv, TypeOK, NotNamed
  <2>5. /\ handoffs' \in [Tokens -> {FreeToken, ReservedToken}
                              \cup [use : {"record"}, obj : Objects, expired : BOOLEAN]]
        /\ \A o \in Objects : RecordOf(o)' => RecordOf(o)
    BY <1>1, LiveIs DEF IInv, RecordOf, FreeToken
  <2>6. \A o \in Objects : Owned(o)' => Owned(o)
    BY <1>1, <1>2, <1>3, <2>2, <2>4, <2>5 DEF Owned, InBatch
  <2>7. /\ TypeOK' /\ Ledger' /\ ~Creates
        /\ tainted' => latched'
        /\ op'.pc = "idle" => ~tainted'
        /\ (\A o \in Objects : Owned(o) => Owned(o)') => (tainted' => tainted)
    BY <1>1, <1>2, <1>3, <2>2, <2>3, <2>5, <2>6, Dropped DEF IInv, TypeOK
  <2>8. \A u \in Tokens : handoffs'[u].use # "reserved"
    BY <1>1, <1>2, LiveIs, SentinelsAssumption DEF IInv, Shape, TokenShape
  <2>9. OpShape'
    BY <1>1, <1>2, <1>3, <2>2, <2>3, <2>4, <2>5, <2>7, SentinelsAssumption
    DEF IInv, TypeOK, Ops, Shape, KindsAt, Creators, OpShape
  <2>10. WorkShape'
    BY <1>1, <1>2, <1>3, <2>2, <2>3, <2>4, <2>5, <2>7, SentinelsAssumption
    DEF IInv, TypeOK, Ops, Shape, KindsAt, Creators, OpShape, WorkShape
  <2>11. ExportShape'
    BY <1>1, <1>2, <1>3, <2>2, <2>3, <2>4, <2>5, <2>7, SentinelsAssumption
    DEF IInv, TypeOK, Ops, Shape, KindsAt, Creators, OpShape, ExportShape
  <2>12. TokenShape'
    BY <1>1, <1>2, <1>3, <2>2, <2>3, <2>4, <2>5, <2>7, <2>8, SentinelsAssumption
    DEF IInv, TypeOK, Ops, Shape, KindsAt, Creators, OpShape, TokenShape
  <2>13. TaintShape'
    BY <1>1, <1>2, <1>3, <2>2, <2>3, <2>4, <2>5, <2>7, SentinelsAssumption
    DEF IInv, TypeOK, Ops, Shape, KindsAt, Creators, OpShape, TaintShape
  <2> QED BY <2>4, <2>7, <2>9, <2>10, <2>11, <2>12, <2>13 DEF Kept, IInv, Shape
<1> QED BY <1>4, <1>5

LEMMA TakeHandoffKeeps ==
  ASSUME IInv, TakeHandoff
  PROVE  Kept
<1>1. op.pc = "inspected" /\ ~latched /\ UNCHANGED <<named, disk, listed>> /\ Dropping
  BY DEF TakeHandoff, At
<1>2. /\ op.kind = "decode" /\ op.raw = NoObject /\ op.export = NoObject /\ op.batch = {}
      /\ op.token = NoToken /\ op.record \in Tokens
  BY <1>1 DEF IInv, TypeOK, Ops, Shape, OpShape, WorkShape, TokenShape, KindsAt
<1>3. CASE Live[op.record] = FreeToken
  <2>1. handoffs' = Live
    BY <1>3 DEF TakeHandoff
  <2>2. /\ op' \in Ops /\ op'.kind = "none" /\ op'.pc = "idle" /\ op'.sid = NoState
        /\ op'.obj = NoObject /\ op'.raw = NoObject /\ op'.export = NoObject
        /\ op'.token = NoToken /\ op'.record = NoToken /\ op'.batch = {}
        /\ op'.picked = {}
    BY <1>3, IdleShape DEF TakeHandoff, Idle
  <2>3. /\ named' \in [StateIds -> Named \cup {NotNamed}]
        /\ \A s \in StateIds : named'[s] = NotNamed \/ named'[s] = named[s]
    BY <1>1, <1>2, <2>2 DEF IInv, TypeOK
  <2>4. NameShape' /\ \A o \in Objects : NamedAs(o)' => NamedAs(o)
    BY <1>1, <1>2, <2>2, <2>3, FewerNames DEF IInv, TypeOK, NotNamed
  <2>5. /\ handoffs' \in [Tokens -> {FreeToken, ReservedToken}
                              \cup [use : {"record"}, obj : Objects, expired : BOOLEAN]]
        /\ \A o \in Objects : RecordOf(o)' => RecordOf(o)
    BY <2>1, LiveIs DEF IInv, RecordOf, FreeToken
  <2>6. \A o \in Objects : Owned(o)' => Owned(o)
    BY <1>1, <1>2, <2>2, <2>4, <2>5 DEF Owned, InBatch
  <2>7. /\ TypeOK' /\ Ledger' /\ ~Creates
        /\ tainted' => latched'
        /\ op'.pc = "idle" => ~tainted'
        /\ (\A o \in Objects : Owned(o) => Owned(o)') => (tainted' => tainted)
    BY <1>1, <1>2, <2>2, <2>3, <2>5, <2>6, Dropped DEF IInv, TypeOK
  <2>8. \A u \in Tokens : handoffs'[u].use # "reserved"
    BY <2>1, <1>2, LiveIs, SentinelsAssumption DEF IInv, Shape, TokenShape
  <2>9. OpShape'
    BY <1>1, <1>2, <2>2, <2>3, <2>4, <2>5, <2>7, SentinelsAssumption
    DEF IInv, TypeOK, Ops, Shape, KindsAt, Creators, OpShape
  <2>10. WorkShape'
    BY <1>1, <1>2, <2>2, <2>3, <2>4, <2>5, <2>7, SentinelsAssumption
    DEF IInv, TypeOK, Ops, Shape, KindsAt, Creators, OpShape, WorkShape
  <2>11. ExportShape'
    BY <1>1, <1>2, <2>2, <2>3, <2>4, <2>5, <2>7, SentinelsAssumption
    DEF IInv, TypeOK, Ops, Shape, KindsAt, Creators, OpShape, ExportShape
  <2>12. TokenShape'
    BY <1>1, <1>2, <2>2, <2>3, <2>4, <2>5, <2>7, <2>8, SentinelsAssumption
    DEF IInv, TypeOK, Ops, Shape, KindsAt, Creators, OpShape, TokenShape
  <2>13. TaintShape'
    BY <1>1, <1>2, <2>2, <2>3, <2>4, <2>5, <2>7, SentinelsAssumption
    DEF IInv, TypeOK, Ops, Shape, KindsAt, Creators, OpShape, TaintShape
  <2> QED BY <2>4, <2>7, <2>9, <2>10, <2>11, <2>12, <2>13 DEF Kept, IInv, Shape
<1>4. CASE Live[op.record] # FreeToken
  <2>1. PICK t \in Tokens \ TokensIn(handoffs) :
          /\ handoffs' = [Live EXCEPT ![op.record] = FreeToken, ![t] = ReservedToken]
          /\ op' = [op EXCEPT !.pc = "taken", !.token = t, !.record = NoToken]
    BY <1>4 DEF TakeHandoff
  <2>2. /\ op' \in Ops /\ op'.pc = "taken" /\ op'.token = t /\ op'.record = NoToken
        /\ UNCHANGED <<op.kind, op.sid, op.obj, op.raw, op.export, op.batch, op.picked>>
    BY <2>1 DEF IInv, TypeOK, Ops, Checkpoints
  <2>3. /\ named' \in [StateIds -> Named \cup {NotNamed}]
        /\ \A s \in StateIds : named'[s] = NotNamed \/ named'[s] = named[s]
    BY <1>1, <1>2, <2>2 DEF IInv, TypeOK
  <2>4. NameShape' /\ \A o \in Objects : NamedAs(o)' => NamedAs(o)
    BY <1>1, <1>2, <2>2, <2>3, FewerNames DEF IInv, TypeOK, NotNamed
  <2>5. /\ handoffs' \in [Tokens -> {FreeToken, ReservedToken}
                              \cup [use : {"record"}, obj : Objects, expired : BOOLEAN]]
        /\ \A o \in Objects : RecordOf(o)' => RecordOf(o)
    <3>1. \A u \in Tokens : \/ handoffs'[u] = FreeToken
                               \/ handoffs'[u] = ReservedToken
                               \/ handoffs'[u] = handoffs[u]
      BY <2>1, <1>2, LiveIs DEF IInv
    <3>2. handoffs' = [u \in Tokens |-> handoffs'[u]]
      BY <2>1, LiveIs DEF IInv
    <3>3. handoffs' \in [Tokens -> {FreeToken, ReservedToken}
                                \cup [use : {"record"}, obj : Objects, expired : BOOLEAN]]
      BY <3>1, <3>2 DEF IInv, TypeOK
    <3>4. FreeToken.use # "record" /\ ReservedToken.use # "record"
      BY DEF FreeToken, ReservedToken
    <3>5. \A o \in Objects : RecordOf(o)' => RecordOf(o)
      BY <3>1, <3>4 DEF RecordOf
    <3> QED BY <3>3, <3>5
  <2>6. \A o \in Objects : Owned(o)' => Owned(o)
    BY <1>1, <1>2, <2>2, <2>4, <2>5 DEF Owned, InBatch
  <2>7. /\ TypeOK' /\ Ledger' /\ ~Creates
        /\ tainted' => latched'
        /\ op'.pc = "idle" => ~tainted'
        /\ (\A o \in Objects : Owned(o) => Owned(o)') => (tainted' => tainted)
    BY <1>1, <1>2, <2>2, <2>3, <2>5, <2>6, Dropped DEF IInv, TypeOK
  <2>8. \A u \in Tokens : handoffs'[u].use = "reserved" <=> u = t
    BY <2>1, <1>2, LiveIs, SentinelsAssumption DEF IInv, Shape, TokenShape, FreeToken,
       ReservedToken
  <2>9. OpShape'
    BY <1>1, <1>2, <2>2, <2>3, <2>4, <2>5, <2>7, SentinelsAssumption
    DEF IInv, TypeOK, Ops, Shape, KindsAt, Creators, OpShape
  <2>10. WorkShape'
    BY <1>1, <1>2, <2>2, <2>3, <2>4, <2>5, <2>7, SentinelsAssumption
    DEF IInv, TypeOK, Ops, Shape, KindsAt, Creators, OpShape, WorkShape
  <2>11. ExportShape'
    BY <1>1, <1>2, <2>2, <2>3, <2>4, <2>5, <2>7, SentinelsAssumption
    DEF IInv, TypeOK, Ops, Shape, KindsAt, Creators, OpShape, ExportShape
  <2>12. TokenShape'
    BY <1>1, <1>2, <2>2, <2>3, <2>4, <2>5, <2>7, <2>8, SentinelsAssumption
    DEF IInv, TypeOK, Ops, Shape, KindsAt, Creators, OpShape, TokenShape
  <2>13. TaintShape'
    BY <1>1, <1>2, <2>2, <2>3, <2>4, <2>5, <2>7, SentinelsAssumption
    DEF IInv, TypeOK, Ops, Shape, KindsAt, Creators, OpShape, TaintShape
  <2> QED BY <2>4, <2>7, <2>9, <2>10, <2>11, <2>12, <2>13 DEF Kept, IInv, Shape
<1> QED BY <1>3, <1>4

LEMMA FindReuseKeeps ==
  ASSUME IInv, FindReuse
  PROVE  Kept
<1>1. op.pc = "find" /\ ~latched /\ UNCHANGED <<disk, handoffs, listed>> /\ Dropping
  BY DEF FindReuse, At
<1>2. /\ op.kind = "fresh" /\ op.obj = NoObject /\ op.raw = NoObject /\ op.export = NoObject
      /\ op.batch = {} /\ op.token # NoToken
  BY <1>1 DEF IInv, Shape, OpShape, TokenShape, KindsAt
<1>3. CASE named' = Scanned /\ \E s \in NamedIds :
             /\ ~named[s].expired
             /\ op' = [op EXCEPT !.pc = "validate", !.sid = s,
                                 !.obj = named[s].obj, !.kind = "reuse"]
  <2>1. PICK s \in NamedIds :
             /\ ~named[s].expired
             /\ op' = [op EXCEPT !.pc = "validate", !.sid = s,
                                 !.obj = named[s].obj, !.kind = "reuse"]
    BY <1>3
  <2>2. /\ s \in StateIds /\ named[s] \in Named /\ named[s] # NotNamed
        /\ named[s].obj \in Objects /\ NamedAs(named[s].obj)
        /\ named' = Scanned /\ named'[s] = named[s]
    BY <1>3, <2>1, ScannedIs, NamedIsSome DEF IInv, TypeOK, NamedIds, NamedAs
  <2>3. /\ op' \in Ops /\ op'.kind = "reuse" /\ op'.pc = "validate" /\ op'.sid = s
        /\ op'.obj = named[s].obj
        /\ UNCHANGED <<op.raw, op.export, op.token, op.record, op.batch, op.picked>>
    BY <2>1, <2>2 DEF IInv, TypeOK, Ops
  <2>4. /\ named' \in [StateIds -> Named \cup {NotNamed}]
        /\ \A r \in StateIds : named'[r] = NotNamed \/ named'[r] = named[r]
    BY <1>3, ScannedIs DEF IInv, TypeOK
  <2>5. NameShape' /\ \A o \in Objects : NamedAs(o)' => NamedAs(o)
    BY <1>1, <1>2, <2>2, <2>3, <2>4, FewerNames DEF IInv, TypeOK, NotNamed
  <2>6. /\ handoffs' \in [Tokens -> {FreeToken, ReservedToken}
                              \cup [use : {"record"}, obj : Objects, expired : BOOLEAN]]
        /\ \A o \in Objects : RecordOf(o)' => RecordOf(o)
    BY <1>1 DEF IInv, TypeOK, RecordOf
  <2>7. \A o \in Objects : Owned(o)' => Owned(o)
    BY <1>1, <1>2, <2>2, <2>3, <2>5, <2>6 DEF Owned, InBatch
  <2>8. /\ TypeOK' /\ Ledger' /\ ~Creates
        /\ tainted' => latched'
        /\ op'.pc = "idle" => ~tainted'
        /\ (\A o \in Objects : Owned(o) => Owned(o)') => (tainted' => tainted)
    BY <1>1, <1>2, <2>2, <2>3, <2>4, <2>6, <2>7, Dropped DEF IInv, TypeOK
  <2>9. \A u \in Tokens : handoffs'[u].use = "reserved" <=> op.token = u
      BY <1>1 DEF IInv, Shape, TokenShape
  <2>10. OpShape'
    BY <1>1, <1>2, <2>2, <2>3, <2>4, <2>5, <2>6, <2>8, SentinelsAssumption
    DEF IInv, TypeOK, Ops, Shape, KindsAt, Creators, OpShape, WorkShape
  <2>11. WorkShape'
    BY <1>1, <1>2, <2>2, <2>3, <2>4, <2>5, <2>6, <2>8, SentinelsAssumption
    DEF IInv, TypeOK, Ops, Shape, KindsAt, Creators, OpShape, WorkShape
  <2>12. ExportShape'
    BY <1>1, <1>2, <2>2, <2>3, <2>4, <2>5, <2>6, <2>8, SentinelsAssumption
    DEF IInv, TypeOK, Ops, Shape, KindsAt, Creators, OpShape, ExportShape
  <2>13. TokenShape'
    BY <1>1, <1>2, <2>2, <2>3, <2>4, <2>5, <2>6, <2>8, <2>9, SentinelsAssumption
    DEF IInv, TypeOK, Ops, Shape, KindsAt, Creators, OpShape, TokenShape
  <2>14. TaintShape'
    BY <1>1, <1>2, <2>2, <2>3, <2>4, <2>5, <2>6, <2>8, SentinelsAssumption
    DEF IInv, TypeOK, Ops, Shape, KindsAt, Creators, OpShape, TaintShape
  <2> QED BY <2>5, <2>8, <2>10, <2>11, <2>12, <2>13, <2>14 DEF Kept, IInv, Shape
<1>4. CASE named' = Scanned /\ Goto("stored")
  <2>1. /\ op' \in Ops /\ op'.pc = "stored"
        /\ UNCHANGED <<op.kind, op.sid, op.obj, op.raw, op.export, op.token, op.record, op.batch, op.picked>>
    BY <1>4 DEF Goto, IInv, TypeOK, Ops, Checkpoints
  <2>2. /\ named' \in [StateIds -> Named \cup {NotNamed}]
        /\ \A s \in StateIds : named'[s] = NotNamed \/ named'[s] = named[s]
    BY <1>4, ScannedIs DEF IInv, TypeOK
  <2>3. NameShape' /\ \A o \in Objects : NamedAs(o)' => NamedAs(o)
    BY <1>1, <1>2, <2>1, <2>2, FewerNames DEF IInv, TypeOK, NotNamed
  <2>4. /\ handoffs' \in [Tokens -> {FreeToken, ReservedToken}
                              \cup [use : {"record"}, obj : Objects, expired : BOOLEAN]]
        /\ \A o \in Objects : RecordOf(o)' => RecordOf(o)
    BY <1>1 DEF IInv, TypeOK, RecordOf
  <2>5. \A o \in Objects : Owned(o)' => Owned(o)
    BY <1>1, <1>2, <2>1, <2>3, <2>4 DEF Owned, InBatch
  <2>6. /\ TypeOK' /\ Ledger' /\ ~Creates
        /\ tainted' => latched'
        /\ op'.pc = "idle" => ~tainted'
        /\ (\A o \in Objects : Owned(o) => Owned(o)') => (tainted' => tainted)
    BY <1>1, <1>2, <2>1, <2>2, <2>4, <2>5, Dropped DEF IInv, TypeOK
  <2>7. \A u \in Tokens : handoffs'[u].use = "reserved" <=> op.token = u
      BY <1>1 DEF IInv, Shape, TokenShape
  <2>8. OpShape'
    BY <1>1, <1>2, <2>1, <2>2, <2>3, <2>4, <2>6, SentinelsAssumption
    DEF IInv, TypeOK, Ops, Shape, KindsAt, Creators, OpShape
  <2>9. WorkShape'
    BY <1>1, <1>2, <2>1, <2>2, <2>3, <2>4, <2>6, SentinelsAssumption
    DEF IInv, TypeOK, Ops, Shape, KindsAt, Creators, OpShape, WorkShape
  <2>10. ExportShape'
    BY <1>1, <1>2, <2>1, <2>2, <2>3, <2>4, <2>6, SentinelsAssumption
    DEF IInv, TypeOK, Ops, Shape, KindsAt, Creators, OpShape, ExportShape
  <2>11. TokenShape'
    BY <1>1, <1>2, <2>1, <2>2, <2>3, <2>4, <2>6, <2>7, SentinelsAssumption
    DEF IInv, TypeOK, Ops, Shape, KindsAt, Creators, OpShape, TokenShape
  <2>12. TaintShape'
    BY <1>1, <1>2, <2>1, <2>2, <2>3, <2>4, <2>6, SentinelsAssumption
    DEF IInv, TypeOK, Ops, Shape, KindsAt, Creators, OpShape, TaintShape
  <2> QED BY <2>3, <2>6, <2>8, <2>9, <2>10, <2>11, <2>12 DEF Kept, IInv, Shape
<1>5. CASE Goto("reserve") /\ UNCHANGED named
  <2>1. /\ op' \in Ops /\ op'.pc = "reserve"
        /\ UNCHANGED <<op.kind, op.sid, op.obj, op.raw, op.export, op.token, op.record, op.batch, op.picked>>
    BY <1>5 DEF Goto, IInv, TypeOK, Ops, Fallible
  <2>2. \A o \in Objects : Owned(o) => Owned(o)'
    BY <1>1, <1>5, <2>1 DEF Owned, NamedAs, RecordOf, InBatch
  <2>3. /\ named' \in [StateIds -> Named \cup {NotNamed}]
        /\ \A s \in StateIds : named'[s] = NotNamed \/ named'[s] = named[s]
    BY <1>5 DEF IInv, TypeOK
  <2>4. NameShape' /\ \A o \in Objects : NamedAs(o)' => NamedAs(o)
    BY <1>1, <1>2, <2>1, <2>2, <2>3, FewerNames DEF IInv, TypeOK, NotNamed
  <2>5. /\ handoffs' \in [Tokens -> {FreeToken, ReservedToken}
                              \cup [use : {"record"}, obj : Objects, expired : BOOLEAN]]
        /\ \A o \in Objects : RecordOf(o)' => RecordOf(o)
    BY <1>1 DEF IInv, TypeOK, RecordOf
  <2>6. \A o \in Objects : Owned(o)' => Owned(o)
    BY <1>1, <1>2, <2>1, <2>2, <2>4, <2>5 DEF Owned, InBatch
  <2>7. /\ TypeOK' /\ Ledger' /\ ~Creates
        /\ tainted' => latched'
        /\ op'.pc = "idle" => ~tainted'
        /\ (\A o \in Objects : Owned(o) => Owned(o)') => (tainted' => tainted)
    BY <1>1, <1>2, <2>1, <2>2, <2>3, <2>5, <2>6, Dropped DEF IInv, TypeOK
  <2>8. \A u \in Tokens : handoffs'[u].use = "reserved" <=> op.token = u
      BY <1>1 DEF IInv, Shape, TokenShape
  <2>9. OpShape'
    BY <1>1, <1>2, <2>1, <2>2, <2>3, <2>4, <2>5, <2>7, SentinelsAssumption
    DEF IInv, TypeOK, Ops, Shape, KindsAt, Creators, OpShape
  <2>10. WorkShape'
    BY <1>1, <1>2, <2>1, <2>2, <2>3, <2>4, <2>5, <2>7, SentinelsAssumption
    DEF IInv, TypeOK, Ops, Shape, KindsAt, Creators, OpShape, WorkShape
  <2>11. ExportShape'
    BY <1>1, <1>2, <2>1, <2>2, <2>3, <2>4, <2>5, <2>7, SentinelsAssumption
    DEF IInv, TypeOK, Ops, Shape, KindsAt, Creators, OpShape, ExportShape
  <2>12. TokenShape'
    BY <1>1, <1>2, <2>1, <2>2, <2>3, <2>4, <2>5, <2>7, <2>8, SentinelsAssumption
    DEF IInv, TypeOK, Ops, Shape, KindsAt, Creators, OpShape, TokenShape
  <2>13. TaintShape'
    BY <1>1, <1>2, <2>1, <2>2, <2>3, <2>4, <2>5, <2>7, SentinelsAssumption
    DEF IInv, TypeOK, Ops, Shape, KindsAt, Creators, OpShape, TaintShape
  <2> QED BY <2>4, <2>7, <2>9, <2>10, <2>11, <2>12, <2>13 DEF Kept, IInv, Shape
<1> QED BY <1>3, <1>4, <1>5 DEF FindReuse

LEMMA ClearExpiredKeeps ==
  ASSUME IInv, ClearExpired
  PROVE  Kept
<1>1. /\ op.pc = "clear" /\ named' = Scanned /\ UNCHANGED <<disk, handoffs, listed>> /\ Dropping
      /\ op.raw = NoObject /\ op.export = NoObject /\ op.batch = {}
  BY DEF ClearExpired, At, IInv, Shape, OpShape
<1>2. /\ op' \in Ops /\ op'.pc = "insert"
      /\ UNCHANGED <<op.kind, op.sid, op.obj, op.raw, op.export, op.token, op.record, op.batch, op.picked>>
  BY DEF ClearExpired, Goto, IInv, TypeOK, Ops, Checkpoints
<1>3. /\ named' \in [StateIds -> Named \cup {NotNamed}]
      /\ \A s \in StateIds : named'[s] = NotNamed \/ named'[s] = named[s]
  BY <1>1, ScannedIs DEF IInv, TypeOK
<1>4. NameShape' /\ \A o \in Objects : NamedAs(o)' => NamedAs(o)
  BY <1>1, <1>2, <1>3, FewerNames DEF IInv, TypeOK, NotNamed
<1>5. /\ handoffs' \in [Tokens -> {FreeToken, ReservedToken}
                              \cup [use : {"record"}, obj : Objects, expired : BOOLEAN]]
      /\ \A o \in Objects : RecordOf(o)' => RecordOf(o)
  BY <1>1 DEF IInv, TypeOK, RecordOf
<1>6. \A o \in Objects : Owned(o)' => Owned(o)
  BY <1>1, <1>2, <1>4, <1>5 DEF Owned, InBatch
<1>7. /\ TypeOK' /\ Ledger' /\ ~Creates
      /\ tainted' => latched'
      /\ op'.pc = "idle" => ~tainted'
      /\ (\A o \in Objects : Owned(o) => Owned(o)') => (tainted' => tainted)
  BY <1>1, <1>2, <1>3, <1>5, <1>6, Dropped DEF IInv, TypeOK
<1>8. \A u \in Tokens : handoffs'[u].use = "reserved" <=> op.token = u
  BY <1>1 DEF IInv, Shape, TokenShape
<1>9. OpShape'
  BY <1>1, <1>2, <1>3, <1>4, <1>5, <1>7, SentinelsAssumption
  DEF IInv, TypeOK, Ops, Shape, KindsAt, Creators, OpShape
<1>10. WorkShape'
  BY <1>1, <1>2, <1>3, <1>4, <1>5, <1>7, SentinelsAssumption
  DEF IInv, TypeOK, Ops, Shape, KindsAt, Creators, OpShape, WorkShape
<1>11. ExportShape'
  BY <1>1, <1>2, <1>3, <1>4, <1>5, <1>7, SentinelsAssumption
  DEF IInv, TypeOK, Ops, Shape, KindsAt, Creators, OpShape, ExportShape
<1>12. TokenShape'
  BY <1>1, <1>2, <1>3, <1>4, <1>5, <1>7, <1>8, SentinelsAssumption
  DEF IInv, TypeOK, Ops, Shape, KindsAt, Creators, OpShape, TokenShape
<1>13. TaintShape'
  BY <1>1, <1>2, <1>3, <1>4, <1>5, <1>7, SentinelsAssumption
  DEF IInv, TypeOK, Ops, Shape, KindsAt, Creators, OpShape, TaintShape
<1> QED BY <1>4, <1>7, <1>9, <1>10, <1>11, <1>12, <1>13 DEF Kept, IInv, Shape

LEMMA DropRecordKeeps ==
  ASSUME IInv, DropRecord
  PROVE  Kept
<1>1. /\ op.pc = "decoded" /\ UNCHANGED <<named, disk, handoffs, listed>> /\ Dropping
      /\ op.kind = "decode" /\ op.export = NoObject /\ op.batch = {}
  BY DEF DropRecord, At, IInv, Shape, OpShape, KindsAt
<1>2. /\ op' \in Ops /\ op'.pc = "check" /\ op'.obj = NoObject
      /\ UNCHANGED <<op.kind, op.sid, op.raw, op.export, op.token, op.record, op.batch, op.picked>>
  BY DEF DropRecord, IInv, TypeOK, Ops
<1>3. /\ named' \in [StateIds -> Named \cup {NotNamed}]
      /\ \A s \in StateIds : named'[s] = NotNamed \/ named'[s] = named[s]
  BY <1>1, <1>2 DEF IInv, TypeOK
<1>4. NameShape' /\ \A o \in Objects : NamedAs(o)' => NamedAs(o)
  BY <1>1, <1>2, <1>3, FewerNames DEF IInv, TypeOK, NotNamed
<1>5. /\ handoffs' \in [Tokens -> {FreeToken, ReservedToken}
                              \cup [use : {"record"}, obj : Objects, expired : BOOLEAN]]
      /\ \A o \in Objects : RecordOf(o)' => RecordOf(o)
  BY <1>1 DEF IInv, TypeOK, RecordOf
<1>6. \A o \in Objects : Owned(o)' => Owned(o)
  BY <1>1, <1>2, <1>4, <1>5 DEF Owned, InBatch
<1>7. /\ TypeOK' /\ Ledger' /\ ~Creates
      /\ tainted' => latched'
      /\ op'.pc = "idle" => ~tainted'
      /\ (\A o \in Objects : Owned(o) => Owned(o)') => (tainted' => tainted)
  BY <1>1, <1>2, <1>3, <1>5, <1>6, Dropped DEF IInv, TypeOK
<1>8. \A u \in Tokens : handoffs'[u].use = "reserved" <=> op.token = u
  BY <1>1 DEF IInv, Shape, TokenShape
<1>9. OpShape'
  BY <1>1, <1>2, <1>3, <1>4, <1>5, <1>7, SentinelsAssumption
  DEF IInv, TypeOK, Ops, Shape, KindsAt, Creators, OpShape
<1>10. WorkShape'
  BY <1>1, <1>2, <1>3, <1>4, <1>5, <1>7, SentinelsAssumption
  DEF IInv, TypeOK, Ops, Shape, KindsAt, Creators, OpShape, WorkShape
<1>11. ExportShape'
  BY <1>1, <1>2, <1>3, <1>4, <1>5, <1>7, SentinelsAssumption
  DEF IInv, TypeOK, Ops, Shape, KindsAt, Creators, OpShape, ExportShape
<1>12. TokenShape'
  BY <1>1, <1>2, <1>3, <1>4, <1>5, <1>7, <1>8, SentinelsAssumption
  DEF IInv, TypeOK, Ops, Shape, KindsAt, Creators, OpShape, TokenShape
<1>13. TaintShape'
  BY <1>1, <1>2, <1>3, <1>4, <1>5, <1>7, SentinelsAssumption
  DEF IInv, TypeOK, Ops, Shape, KindsAt, Creators, OpShape, TaintShape
<1> QED BY <1>4, <1>7, <1>9, <1>10, <1>11, <1>12, <1>13 DEF Kept, IInv, Shape

LEMMA CommitToDiskKeeps ==
  ASSUME IInv, CommitToDisk
  PROVE  Kept
<1>1. /\ op.pc = "commit" /\ UNCHANGED <<named, handoffs, listed>> /\ Dropping
      /\ op.raw = NoObject /\ op.batch = {} /\ op.sid \in StateIds
  BY DEF CommitToDisk, At, IInv, Shape, OpShape
<1>2. /\ disk' \subseteq StateIds
      /\ \A s \in StateIds : named'[s] = named[s]
  BY <1>1 DEF CommitToDisk, IInv, TypeOK
<1>3. /\ op' \in Ops /\ op'.pc = "confirm" /\ op'.export = NoObject
      /\ UNCHANGED <<op.kind, op.sid, op.obj, op.raw, op.token, op.record, op.batch, op.picked>>
  BY DEF CommitToDisk, IInv, TypeOK, Ops, Checkpoints
<1>4. \A o \in Objects : o = op.export => op.obj # o
  BY DEF IInv, Shape, ExportShape
<1>5. /\ named' \in [StateIds -> Named \cup {NotNamed}]
      /\ \A s \in StateIds : named'[s] = NotNamed \/ named'[s] = named[s]
  BY <1>1, <1>2, <1>3, <1>4 DEF IInv, TypeOK
<1>6. NameShape' /\ \A o \in Objects : NamedAs(o)' => NamedAs(o)
  BY <1>1, <1>2, <1>3, <1>4, <1>5, FewerNames DEF IInv, TypeOK, NotNamed
<1>7. /\ handoffs' \in [Tokens -> {FreeToken, ReservedToken}
                              \cup [use : {"record"}, obj : Objects, expired : BOOLEAN]]
      /\ \A o \in Objects : RecordOf(o)' => RecordOf(o)
  BY <1>1 DEF IInv, TypeOK, RecordOf
<1>8. \A o \in Objects : Owned(o)' => Owned(o)
  BY <1>1, <1>2, <1>3, <1>4, <1>6, <1>7 DEF Owned, InBatch
<1>9. op'.export = NoObject /\ \A o \in Objects : o = op.export => ~Owned(o)'
  BY <1>1, <1>2, <1>3, <1>4, <1>6, <1>7 DEF Owned, InBatch, IInv, Shape, ExportShape
<1>10. /\ TypeOK' /\ Ledger' /\ ~Creates
       /\ tainted' => latched'
       /\ op'.pc = "idle" => ~tainted'
       /\ (\A o \in Objects : Owned(o) => Owned(o)') => (tainted' => tainted)
  BY <1>1, <1>2, <1>3, <1>4, <1>5, <1>7, <1>8, <1>9, Dropped DEF IInv, TypeOK
<1>11. \A u \in Tokens : handoffs'[u].use = "reserved" <=> op.token = u
  BY <1>1 DEF IInv, Shape, TokenShape
<1>12. OpShape'
  BY <1>1, <1>2, <1>3, <1>4, <1>5, <1>6, <1>7, <1>10, SentinelsAssumption
  DEF IInv, TypeOK, Ops, Shape, KindsAt, Creators, OpShape
<1>13. WorkShape'
  BY <1>1, <1>2, <1>3, <1>4, <1>5, <1>6, <1>7, <1>10, SentinelsAssumption
  DEF IInv, TypeOK, Ops, Shape, KindsAt, Creators, OpShape, WorkShape
<1>14. ExportShape'
  BY <1>1, <1>2, <1>3, <1>4, <1>5, <1>6, <1>7, <1>10, SentinelsAssumption
  DEF IInv, TypeOK, Ops, Shape, KindsAt, Creators, OpShape, ExportShape
<1>15. TokenShape'
  BY <1>1, <1>2, <1>3, <1>4, <1>5, <1>6, <1>7, <1>10, <1>11, SentinelsAssumption
  DEF IInv, TypeOK, Ops, Shape, KindsAt, Creators, OpShape, TokenShape
<1>16. TaintShape'
  BY <1>1, <1>2, <1>3, <1>4, <1>5, <1>6, <1>7, <1>10, SentinelsAssumption
  DEF IInv, TypeOK, Ops, Shape, KindsAt, Creators, OpShape, TaintShape
<1> QED BY <1>6, <1>10, <1>12, <1>13, <1>14, <1>15, <1>16 DEF Kept, IInv, Shape

LEMMA CommitFailsKeeps ==
  ASSUME IInv, CommitFails
  PROVE  Kept
<1>1. op.pc = "commit" /\ op.raw = NoObject /\ op.batch = {} /\ op.sid \in StateIds
  BY DEF CommitFails, At, IInv, Shape, OpShape
<1>2. CASE Finish
  BY <1>1, <1>2, FinishKeeps
<1>3. CASE /\ op.kind = "reuse"
           /\ op' = [op EXCEPT !.pc = "fallback", !.export = NoObject]
           /\ UNCHANGED <<named, disk, handoffs, listed>>
           /\ Dropping
  <2>1. /\ op' \in Ops /\ op'.pc = "fallback" /\ op'.export = NoObject
        /\ UNCHANGED <<op.kind, op.sid, op.obj, op.raw, op.token, op.record, op.batch, op.picked>>
    BY <1>3 DEF IInv, TypeOK, Ops, Checkpoints
  <2>2. \A o \in Objects : o = op.export => op.obj # o
    BY DEF IInv, Shape, ExportShape
  <2>3. /\ named' \in [StateIds -> Named \cup {NotNamed}]
        /\ \A s \in StateIds : named'[s] = NotNamed \/ named'[s] = named[s]
    BY <1>1, <1>3, <2>1, <2>2 DEF IInv, TypeOK
  <2>4. NameShape' /\ \A o \in Objects : NamedAs(o)' => NamedAs(o)
    BY <1>1, <1>3, <2>1, <2>2, <2>3, FewerNames DEF IInv, TypeOK, NotNamed
  <2>5. /\ handoffs' \in [Tokens -> {FreeToken, ReservedToken}
                              \cup [use : {"record"}, obj : Objects, expired : BOOLEAN]]
        /\ \A o \in Objects : RecordOf(o)' => RecordOf(o)
    BY <1>3 DEF IInv, TypeOK, RecordOf
  <2>6. \A o \in Objects : Owned(o)' => Owned(o)
    BY <1>1, <1>3, <2>1, <2>2, <2>4, <2>5 DEF Owned, InBatch
  <2>7. op'.export = NoObject /\ \A o \in Objects : o = op.export => ~Owned(o)'
    BY <1>1, <1>3, <2>1, <2>2, <2>4, <2>5 DEF Owned, InBatch, IInv, Shape, ExportShape
  <2>8. /\ TypeOK' /\ Ledger' /\ ~Creates
        /\ tainted' => latched'
        /\ op'.pc = "idle" => ~tainted'
        /\ (\A o \in Objects : Owned(o) => Owned(o)') => (tainted' => tainted)
    BY <1>1, <1>3, <2>1, <2>2, <2>3, <2>5, <2>6, <2>7, Dropped DEF IInv, TypeOK
  <2>9. \A u \in Tokens : handoffs'[u].use = "reserved" <=> op.token = u
      BY <1>3 DEF IInv, Shape, TokenShape
  <2>10. OpShape'
    BY <1>1, <1>3, <2>1, <2>2, <2>3, <2>4, <2>5, <2>8, SentinelsAssumption
    DEF IInv, TypeOK, Ops, Shape, KindsAt, Creators, OpShape
  <2>11. WorkShape'
    BY <1>1, <1>3, <2>1, <2>2, <2>3, <2>4, <2>5, <2>8, SentinelsAssumption
    DEF IInv, TypeOK, Ops, Shape, KindsAt, Creators, OpShape, WorkShape
  <2>12. ExportShape'
    BY <1>1, <1>3, <2>1, <2>2, <2>3, <2>4, <2>5, <2>8, SentinelsAssumption
    DEF IInv, TypeOK, Ops, Shape, KindsAt, Creators, OpShape, ExportShape
  <2>13. TokenShape'
    BY <1>1, <1>3, <2>1, <2>2, <2>3, <2>4, <2>5, <2>8, <2>9, SentinelsAssumption
    DEF IInv, TypeOK, Ops, Shape, KindsAt, Creators, OpShape, TokenShape
  <2>14. TaintShape'
    BY <1>1, <1>3, <2>1, <2>2, <2>3, <2>4, <2>5, <2>8, SentinelsAssumption
    DEF IInv, TypeOK, Ops, Shape, KindsAt, Creators, OpShape, TaintShape
  <2> QED BY <2>4, <2>8, <2>10, <2>11, <2>12, <2>13, <2>14 DEF Kept, IInv, Shape
<1> QED BY <1>2, <1>3 DEF CommitFails

LEMMA StartListingKeeps ==
  ASSUME IInv, StartListing
  PROVE  Kept
<1>1. /\ listed = {} /\ UNCHANGED <<status, account, latched, named, disk, handoffs, op, tainted>>
      /\ \A o \in listed' : o \in Objects /\ NamedAs(o)
  BY NamedIsSome DEF StartListing, NamedIds, NamedAs, IInv, TypeOK
<1>2. /\ \A o \in Objects : (NamedAs(o)' <=> NamedAs(o)) /\ (RecordOf(o)' <=> RecordOf(o))
      /\ \A o \in Objects : Owned(o)' <=> Owned(o)
  BY <1>1 DEF NamedAs, RecordOf, Owned, InBatch
<1>3. TypeOK'
  BY <1>1 DEF IInv, TypeOK
<1>4. Ledger' /\ ~Creates
  BY <1>1, <1>2, NothingDropped DEF Untouched
<1>5. NameShape'
  BY <1>1, <1>2 DEF IInv, TypeOK, Ops, Shape, NameShape
<1>6. OpShape'
  BY <1>1, <1>2, SentinelsAssumption DEF IInv, TypeOK, Ops, Shape, KindsAt, Creators, OpShape
<1>7. WorkShape'
  BY <1>1, <1>2, SentinelsAssumption
  DEF IInv, TypeOK, Ops, Shape, KindsAt, Creators, OpShape, WorkShape
<1>8. ExportShape'
  BY <1>1, <1>2, SentinelsAssumption
  DEF IInv, TypeOK, Ops, Shape, KindsAt, Creators, OpShape, ExportShape
<1>9. TokenShape'
  BY <1>1, <1>2, SentinelsAssumption
  DEF IInv, TypeOK, Ops, Shape, KindsAt, Creators, OpShape, TokenShape
<1>10. TaintShape'
  BY <1>1, <1>2, SentinelsAssumption
  DEF IInv, TypeOK, Ops, Shape, KindsAt, Creators, OpShape, TaintShape
<1> QED BY <1>3, <1>4, <1>5, <1>6, <1>7, <1>8, <1>9, <1>10 DEF Kept, IInv, Shape

LEMMA EndListingKeeps ==
  ASSUME IInv, EndListing
  PROVE  Kept
<1>1. listed' = {} /\ UNCHANGED <<named, disk, handoffs, op, tainted>>
  BY DEF EndListing
<1>2. PICK failed \in SUBSET LastDropped : DropLeases(failed)
  BY DEF EndListing
<1>3. /\ \A o \in Objects : (NamedAs(o)' <=> NamedAs(o)) /\ (RecordOf(o)' <=> RecordOf(o))
      /\ \A o \in Objects : Owned(o)' => Owned(o)
  BY <1>1 DEF NamedAs, RecordOf, Owned, InBatch
<1>4. status' \in [Objects -> Statuses] /\ account' \in [Objects -> Accounts]
  BY <1>2 DEF DropLeases, IInv, TypeOK, Statuses, Accounts
<1>5. TypeOK'
  BY <1>1, <1>2, <1>4 DEF DropLeases, IInv, TypeOK
<1>6. failed \subseteq LastDropped
  OBVIOUS
<1>7. /\ Ledger' /\ ~Creates
      /\ latched' = (latched \/ failed # {})
  BY <1>1, <1>2, <1>3, <1>5, <1>6, LeasesDropped
<1>8. NameShape'
  BY <1>1, <1>3 DEF IInv, TypeOK, Ops, Shape, NameShape
<1>9. OpShape'
  BY <1>1, <1>3, <1>7, SentinelsAssumption
  DEF IInv, TypeOK, Ops, Shape, KindsAt, Creators, OpShape
<1>10. WorkShape'
  BY <1>1, <1>3, <1>7, SentinelsAssumption
  DEF IInv, TypeOK, Ops, Shape, KindsAt, Creators, OpShape, WorkShape
<1>11. ExportShape'
  BY <1>1, <1>3, <1>7, SentinelsAssumption
  DEF IInv, TypeOK, Ops, Shape, KindsAt, Creators, OpShape, ExportShape
<1>12. TokenShape'
  BY <1>1, <1>3, <1>7, SentinelsAssumption
  DEF IInv, TypeOK, Ops, Shape, KindsAt, Creators, OpShape, TokenShape
<1>13. TaintShape'
  BY <1>1, <1>3, <1>7, SentinelsAssumption
  DEF IInv, TypeOK, Ops, Shape, KindsAt, Creators, OpShape, TaintShape
<1> QED BY <1>5, <1>7, <1>8, <1>9, <1>10, <1>11, <1>12, <1>13 DEF Kept, IInv, Shape

LEMMA SnapshotStateKeeps ==
  ASSUME IInv, SnapshotState
  PROVE  Kept
<1>1. /\ op.pc = "export" /\ UNCHANGED <<named, disk, handoffs, listed>>
      /\ op.raw = NoObject /\ op.export = NoObject /\ op.batch = {} /\ op.sid \in StateIds
      /\ ~tainted
  BY DEF SnapshotState, At, IInv, Shape, OpShape, TaintShape
<1>2. ASSUME NEW p \in {"commit", "fallback"}, Goto(p), Untouched
      PROVE  Kept
  <2>1. /\ op' \in Ops /\ op'.pc = p
        /\ UNCHANGED <<op.kind, op.sid, op.obj, op.raw, op.export, op.token, op.record, op.batch, op.picked>>
    BY <1>2 DEF Goto, IInv, TypeOK, Ops, Checkpoints
  <2>2. Steady
    BY <1>1, <1>2, <2>1 DEF IInv, TypeOK, Steady
  <2>3. /\ TypeOK' /\ Ledger' /\ ~Creates /\ ExportShape' /\ NameShape'
        /\ \A o \in Objects : NamedAs(o)' <=> NamedAs(o)
    BY <2>2, StaysTheSame
  <2>4. OpShape'
    BY <1>1, <1>2, <2>1, <2>3, SentinelsAssumption
    DEF IInv, TypeOK, Ops, Shape, KindsAt, Creators, OpShape
  <2>5. WorkShape'
    BY <1>1, <1>2, <2>1, <2>3, SentinelsAssumption
    DEF IInv, TypeOK, Ops, Shape, KindsAt, Creators, OpShape, WorkShape
  <2>6. TokenShape'
    BY <1>1, <1>2, <2>1, <2>3, SentinelsAssumption
    DEF IInv, TypeOK, Ops, Shape, KindsAt, Creators, OpShape, TokenShape
  <2>7. TaintShape'
    BY <1>1, <1>2, <2>1, <2>3, SentinelsAssumption
    DEF IInv, TypeOK, Ops, Shape, KindsAt, Creators, OpShape, TaintShape, Untouched
  <2> QED BY <2>3, <2>4, <2>5, <2>6, <2>7 DEF Kept, IInv, Shape
<1>3. ASSUME NEW o \in Spare, op' = [op EXCEPT !.pc = "commit", !.export = o],
             status' = [status EXCEPT ![o] = "leased"], UNCHANGED <<account, latched, tainted>>
      PROVE  Kept
  <2>1. /\ o \in Objects /\ status[o] = "free" /\ account[o] # "held"
        /\ ~Owned(o) /\ ~NamedAs(o) /\ ~RecordOf(o) /\ o \notin listed /\ op.obj # o
        /\ op.raw # o
    BY <1>3, SpareIsFree
  <2>2. /\ op' \in Ops /\ op'.pc = "commit" /\ op'.export = o
        /\ UNCHANGED <<op.kind, op.sid, op.obj, op.raw, op.token, op.record, op.batch, op.picked>>
    BY <1>3, <2>1 DEF IInv, TypeOK, Ops
  <2>3. /\ NameShape'
        /\ \A x \in Objects : (NamedAs(x)' <=> NamedAs(x)) /\ (RecordOf(x)' <=> RecordOf(x))
        /\ \A x \in Objects : Owned(x)' <=> Owned(x) \/ x = o
    BY <1>1, <2>2, OthersStay DEF Owned
  <2>4. TypeOK'
    BY <1>1, <1>3, <2>1, <2>2 DEF IInv, TypeOK, Statuses
  <2>5. Ledger'
    BY <1>1, <1>3, <2>1, <2>2, <2>3 DEF IInv, TypeOK, Ledger
  <2>6. Creates => ~tainted
    BY <1>1
  <2>7. OpShape'
    BY <1>1, <1>3, <2>1, <2>2, <2>3, SentinelsAssumption
    DEF IInv, TypeOK, Ops, Shape, KindsAt, Creators, OpShape
  <2>8. WorkShape'
    BY <1>1, <1>3, <2>1, <2>2, <2>3, SentinelsAssumption
    DEF IInv, TypeOK, Ops, Shape, KindsAt, Creators, OpShape, WorkShape
  <2>9. ExportShape'
    BY <1>1, <1>3, <2>1, <2>2, <2>3, SentinelsAssumption
    DEF IInv, TypeOK, Ops, Shape, KindsAt, Creators, OpShape, ExportShape
  <2>10. TokenShape'
    BY <1>1, <1>3, <2>1, <2>2, <2>3, SentinelsAssumption
    DEF IInv, TypeOK, Ops, Shape, KindsAt, Creators, OpShape, TokenShape
  <2>11. TaintShape'
    BY <1>1, <1>3, <2>1, <2>2, <2>3, SentinelsAssumption
    DEF IInv, TypeOK, Ops, Shape, KindsAt, Creators, OpShape, TaintShape
  <2> QED BY <2>3, <2>4, <2>5, <2>6, <2>7, <2>8, <2>9, <2>10, <2>11 DEF Kept, IInv, Shape
<1>4. ASSUME NEW o \in Spare, NEW charge \in {"none", "lost"}, Goto("fallback"), Lose(o, charge)
      PROVE  Kept
  <2>1. o \in Objects /\ ~Owned(o) /\ op.raw # o
    BY <1>4, SpareIsFree
  <2>2. /\ op' \in Ops /\ op'.pc = "fallback"
        /\ UNCHANGED <<op.kind, op.sid, op.obj, op.raw, op.export, op.token, op.record, op.batch, op.picked>>
    BY <1>4 DEF Goto, IInv, TypeOK, Ops, Checkpoints
  <2>3. /\ NameShape'
        /\ \A x \in Objects : (NamedAs(x)' <=> NamedAs(x)) /\ (RecordOf(x)' <=> RecordOf(x))
        /\ \A x \in Objects : Owned(x)' <=> Owned(x)
    BY <1>1, <2>2, OthersStay DEF Owned
  <2>4. /\ status' \in [Objects -> Statuses] /\ account' \in [Objects -> Accounts]
        /\ latched' = TRUE /\ tainted' = TRUE /\ Ledger'
    BY <1>1, <1>4, <2>1, <2>2, <2>3, StateLost
  <2>5. TypeOK'
    BY <1>1, <2>2, <2>4 DEF IInv, TypeOK
  <2>6. Creates => ~tainted
    BY <1>1
  <2>7. OpShape'
    BY <1>1, <1>4, <2>1, <2>2, <2>3, <2>4, SentinelsAssumption
    DEF IInv, TypeOK, Ops, Shape, KindsAt, Creators, OpShape
  <2>8. WorkShape'
    BY <1>1, <1>4, <2>1, <2>2, <2>3, <2>4, SentinelsAssumption
    DEF IInv, TypeOK, Ops, Shape, KindsAt, Creators, OpShape, WorkShape
  <2>9. ExportShape'
    BY <1>1, <1>4, <2>1, <2>2, <2>3, <2>4, SentinelsAssumption
    DEF IInv, TypeOK, Ops, Shape, KindsAt, Creators, OpShape, ExportShape
  <2>10. TokenShape'
    BY <1>1, <1>4, <2>1, <2>2, <2>3, <2>4, SentinelsAssumption
    DEF IInv, TypeOK, Ops, Shape, KindsAt, Creators, OpShape, TokenShape
  <2>11. TaintShape'
    BY <1>1, <1>4, <2>1, <2>2, <2>3, <2>4, SentinelsAssumption
    DEF IInv, TypeOK, Ops, Shape, KindsAt, Creators, OpShape, TaintShape
  <2> QED BY <2>3, <2>4, <2>5, <2>6, <2>7, <2>8, <2>9, <2>10, <2>11 DEF Kept, IInv, Shape
<1> QED BY <1>2, <1>3, <1>4 DEF SnapshotState

LEMMA CreateStateKeeps ==
  ASSUME IInv, CreateState
  PROVE  Kept
<1>1. /\ op.pc = "create" /\ UNCHANGED <<named, disk, handoffs, listed>>
      /\ op.raw = NoObject /\ op.export = NoObject /\ op.batch = {} /\ op.kind \in Creators
      /\ ~tainted
  BY DEF CreateState, At, IInv, Shape, OpShape, TaintShape, KindsAt
<1>2. ASSUME NEW o \in Spare,
             op' = [op EXCEPT !.pc = IF op.kind = "decode" THEN "decoded" ELSE "check", !.raw = o],
             status' = [status EXCEPT ![o] = "raw"], UNCHANGED <<account, latched, tainted>>
      PROVE  Kept
  <2>1. o \in Objects /\ status[o] = "free" /\ account[o] # "held" /\ ~Owned(o)
    BY <1>2, SpareIsFree
  <2>2. /\ op' \in Ops /\ op'.pc = (IF op.kind = "decode" THEN "decoded" ELSE "check")
        /\ op'.raw = o
        /\ UNCHANGED <<op.kind, op.sid, op.obj, op.export, op.token, op.record, op.batch, op.picked>>
    <3>1. CASE op.kind = "decode"
      <4>1. op' = [op EXCEPT !.pc = "decoded", !.raw = o]
        BY <1>2, <3>1
      <4> QED BY <2>1, <3>1, <4>1 DEF IInv, TypeOK, Ops
    <3>2. CASE op.kind # "decode"
      <4>1. op' = [op EXCEPT !.pc = "check", !.raw = o]
        BY <1>2, <3>2
      <4> QED BY <2>1, <3>2, <4>1 DEF IInv, TypeOK, Ops
    <3> QED BY <3>1, <3>2
  <2>3. /\ NameShape'
        /\ \A x \in Objects : (NamedAs(x)' <=> NamedAs(x)) /\ (RecordOf(x)' <=> RecordOf(x))
        /\ \A x \in Objects : Owned(x)' <=> Owned(x)
    BY <1>1, <2>2, OthersStay DEF Owned
  <2>4. TypeOK'
    BY <1>1, <1>2, <2>1, <2>2 DEF IInv, TypeOK, Statuses
  <2>5. Ledger'
    BY <1>1, <1>2, <2>1, <2>2, <2>3 DEF IInv, TypeOK, Ledger
  <2>6. Creates => ~tainted
    BY <1>1
  <2>7. OpShape'
    BY <1>1, <1>2, <2>1, <2>2, <2>3, SentinelsAssumption
    DEF IInv, TypeOK, Ops, Shape, KindsAt, Creators, OpShape
  <2>8. WorkShape'
    BY <1>1, <1>2, <2>1, <2>2, <2>3, SentinelsAssumption
    DEF IInv, TypeOK, Ops, Shape, KindsAt, Creators, OpShape, WorkShape
  <2>9. ExportShape'
    BY <1>1, <1>2, <2>1, <2>2, <2>3, SentinelsAssumption
    DEF IInv, TypeOK, Ops, Shape, KindsAt, Creators, OpShape, ExportShape
  <2>10. TokenShape'
    BY <1>1, <1>2, <2>1, <2>2, <2>3, SentinelsAssumption
    DEF IInv, TypeOK, Ops, Shape, KindsAt, Creators, OpShape, TokenShape
  <2>11. TaintShape'
    BY <1>1, <1>2, <2>1, <2>2, <2>3, SentinelsAssumption
    DEF IInv, TypeOK, Ops, Shape, KindsAt, Creators, OpShape, TaintShape
  <2> QED BY <2>3, <2>4, <2>5, <2>6, <2>7, <2>8, <2>9, <2>10, <2>11 DEF Kept, IInv, Shape
<1>3. ASSUME NEW o \in Spare, Goto("failed"), Lose(o, "lost")
      PROVE  Kept
  <2>1. o \in Objects /\ ~Owned(o) /\ op.raw # o
    BY <1>3, SpareIsFree
  <2>2. /\ op' \in Ops /\ op'.pc = "failed"
        /\ UNCHANGED <<op.kind, op.sid, op.obj, op.raw, op.export, op.token, op.record, op.batch, op.picked>>
    BY <1>3 DEF Goto, IInv, TypeOK, Ops
  <2>3. /\ NameShape'
        /\ \A x \in Objects : (NamedAs(x)' <=> NamedAs(x)) /\ (RecordOf(x)' <=> RecordOf(x))
        /\ \A x \in Objects : Owned(x)' <=> Owned(x)
    BY <1>1, <2>2, OthersStay DEF Owned
  <2>4. /\ status' \in [Objects -> Statuses] /\ account' \in [Objects -> Accounts]
        /\ latched' = TRUE /\ tainted' = TRUE /\ Ledger'
    BY <1>1, <1>3, <2>1, <2>2, <2>3, StateLost
  <2>5. TypeOK'
    BY <1>1, <2>2, <2>4 DEF IInv, TypeOK
  <2>6. Creates => ~tainted
    BY <1>1
  <2>7. OpShape'
    BY <1>1, <2>1, <2>2, <2>3, <2>4, SentinelsAssumption
    DEF IInv, TypeOK, Ops, Shape, KindsAt, Creators, OpShape
  <2>8. WorkShape'
    BY <1>1, <2>1, <2>2, <2>3, <2>4, SentinelsAssumption
    DEF IInv, TypeOK, Ops, Shape, KindsAt, Creators, OpShape, WorkShape
  <2>9. ExportShape'
    BY <1>1, <2>1, <2>2, <2>3, <2>4, SentinelsAssumption
    DEF IInv, TypeOK, Ops, Shape, KindsAt, Creators, OpShape, ExportShape
  <2>10. TokenShape'
    BY <1>1, <2>1, <2>2, <2>3, <2>4, SentinelsAssumption
    DEF IInv, TypeOK, Ops, Shape, KindsAt, Creators, OpShape, TokenShape
  <2>11. TaintShape'
    BY <1>1, <2>1, <2>2, <2>3, <2>4, SentinelsAssumption
    DEF IInv, TypeOK, Ops, Shape, KindsAt, Creators, OpShape, TaintShape
  <2> QED BY <2>3, <2>4, <2>5, <2>6, <2>7, <2>8, <2>9, <2>10, <2>11 DEF Kept, IInv, Shape
<1> QED BY <1>1, <1>2, <1>3 DEF CreateState

LEMMA CommitBackendMemoryKeeps ==
  ASSUME IInv, CommitBackendMemory
  PROVE  Kept
<1>1. /\ op.pc = "check" /\ Healthy /\ UNCHANGED <<named, disk, handoffs, listed, latched, tainted>>
      /\ status' = [status EXCEPT ![op.raw] = "leased"]
      /\ account' = [account EXCEPT ![op.raw] = "held"]
      /\ op' = [op EXCEPT !.pc = AfterCommit, !.obj = op.raw, !.raw = NoObject]
  BY DEF CommitBackendMemory, At
<1>2. /\ op.raw \in Objects /\ op.export = NoObject /\ op.batch = {} /\ op.kind \in Creators
      /\ op.kind # "decode" => ~tainted
  BY <1>1 DEF IInv, TypeOK, Ops, Shape, OpShape, TaintShape, KindsAt
<1>3. /\ AfterCommit = CASE op.kind = "decode" -> "issue" [] op.kind = "move" -> "swap"
                         [] op.kind = "fresh" -> "retain" [] OTHER -> "clear"
      /\ AfterCommit \in {"issue", "swap", "retain", "clear"}
      /\ AfterCommit = "issue" <=> op.kind = "decode"
      /\ AfterCommit = "swap" <=> op.kind = "move"
      /\ AfterCommit = "retain" <=> op.kind = "fresh"
  BY DEF AfterCommit
<1>4. /\ op' \in Ops /\ op'.pc = AfterCommit /\ op'.obj = op.raw /\ op'.raw = NoObject
      /\ UNCHANGED <<op.kind, op.sid, op.export, op.token, op.record, op.batch, op.picked>>
  <2> DEFINE p == AfterCommit
             r == op.raw
  <2>1. op \in Ops /\ p \in {"issue", "swap", "retain", "clear"} /\ r \in Objects
    BY <1>2, <1>3 DEF IInv, TypeOK
  <2>2. op' = [op EXCEPT !.pc = p, !.obj = r, !.raw = NoObject]
    BY <1>1
  <2> HIDE DEF p, r
  <2>3. /\ op' \in Ops /\ op'.pc = p /\ op'.obj = r /\ op'.raw = NoObject
        /\ UNCHANGED <<op.kind, op.sid, op.export, op.token, op.record, op.batch, op.picked>>
    BY <2>1, <2>2 DEF Ops, Fallible
  <2> QED BY <2>3 DEF p, r
<1>5. status[op.raw] = "raw" /\ ~Owned(op.raw) /\ ~NamedAs(op.raw)
  BY <1>2 DEF IInv, Ledger, Owned
<1>6. op.obj # NoObject => NamedAs(op.obj) /\ op.kind = "move"
  BY <1>1, <1>2 DEF IInv, TypeOK, Ops, Shape, OpShape, WorkShape, NamedAs, Creators
<1>7. /\ NameShape'
      /\ \A x \in Objects : (NamedAs(x)' <=> NamedAs(x)) /\ (RecordOf(x)' <=> RecordOf(x))
      /\ \A x \in Objects : Owned(x)' <=> Owned(x) \/ x = op.raw
  BY <1>1, <1>2, <1>4, <1>6, OthersStay, SentinelsAssumption DEF Owned
<1>8. TypeOK'
  BY <1>1, <1>2, <1>4 DEF IInv, TypeOK, Statuses, Accounts
<1>9. Ledger' /\ ~Creates
  BY <1>1, <1>2, <1>4, <1>5, <1>7, SentinelsAssumption DEF IInv, TypeOK, Ledger, Creates
<1>10. OpShape'
  BY <1>1, <1>2, <1>3, <1>4, <1>5, <1>7, SentinelsAssumption
  DEF IInv, TypeOK, Ops, Shape, KindsAt, Creators, OpShape
<1>11. WorkShape'
  BY <1>1, <1>2, <1>3, <1>4, <1>5, <1>7, SentinelsAssumption
  DEF IInv, TypeOK, Ops, Shape, KindsAt, Creators, OpShape, WorkShape
<1>12. ExportShape'
  BY <1>1, <1>2, <1>3, <1>4, <1>5, <1>7, SentinelsAssumption
  DEF IInv, TypeOK, Ops, Shape, KindsAt, Creators, OpShape, ExportShape
<1>13. TokenShape'
  BY <1>1, <1>2, <1>3, <1>4, <1>5, <1>7, SentinelsAssumption
  DEF IInv, TypeOK, Ops, Shape, KindsAt, Creators, OpShape, TokenShape
<1>14. TaintShape'
  BY <1>1, <1>2, <1>3, <1>4, <1>5, <1>7, SentinelsAssumption
  DEF IInv, TypeOK, Ops, Shape, KindsAt, Creators, OpShape, TaintShape
<1> QED BY <1>7, <1>8, <1>9, <1>10, <1>11, <1>12, <1>13, <1>14 DEF Kept, IInv, Shape

LEMMA CleanupRejectedKeeps ==
  ASSUME IInv, CleanupRejected
  PROVE  Kept
<1>1. /\ op.pc \in {"check", "decoded"} /\ UNCHANGED <<named, disk, handoffs, listed>>
      /\ op' = [op EXCEPT !.pc = "failed", !.raw = NoObject]
  BY DEF CleanupRejected
<1>2. /\ op.raw \in Objects /\ op.export = NoObject /\ op.batch = {} /\ op.kind \in Creators
  BY <1>1 DEF IInv, TypeOK, Ops, Shape, OpShape, KindsAt, Creators
<1>3. /\ op' \in Ops /\ op'.pc = "failed" /\ op'.raw = NoObject
      /\ UNCHANGED <<op.kind, op.sid, op.obj, op.export, op.token, op.record, op.batch, op.picked>>
  BY <1>1 DEF IInv, TypeOK, Ops
<1>4. status[op.raw] = "raw" /\ ~Owned(op.raw) /\ op.raw # NoObject
  BY <1>2, SentinelsAssumption DEF IInv, Ledger
<1>5. /\ NameShape'
      /\ \A x \in Objects : (NamedAs(x)' <=> NamedAs(x)) /\ (RecordOf(x)' <=> RecordOf(x))
      /\ \A x \in Objects : Owned(x)' <=> Owned(x)
  BY <1>1, <1>2, <1>3, OthersStay DEF Owned
<1>6. /\ status' \in [Objects -> Statuses] /\ account' \in [Objects -> Accounts] /\ Ledger'
      /\ ~Creates /\ latched' \in BOOLEAN /\ tainted' \in BOOLEAN /\ (tainted' => latched')
  <2>1. CASE Release(op.raw)
    <3>1. /\ status' = [status EXCEPT ![op.raw] = "free"]
          /\ account' = [account EXCEPT ![op.raw] = "none"]
          /\ UNCHANGED <<latched, tainted>>
      BY <2>1 DEF Release
    <3>2. Ledger'
      BY <1>2, <1>3, <1>4, <1>5, <3>1, SentinelsAssumption DEF IInv, TypeOK, Ledger
    <3> QED BY <1>2, <3>1, <3>2 DEF IInv, TypeOK, Statuses, Accounts, Creates, Shape, TaintShape
  <2>2. CASE Lose(op.raw, "lost")
    <3>1. /\ status' \in [Objects -> Statuses] /\ account' \in [Objects -> Accounts]
          /\ latched' = TRUE /\ tainted' = TRUE /\ Ledger'
      <4> DEFINE r == op.raw
      <4>1. r \in Objects /\ Lose(r, "lost") /\ ~Owned(r) /\ op'.raw # r
        BY <1>2, <1>3, <1>4, <2>2, SentinelsAssumption
      <4>2. \A o \in Objects : o # r => (op'.raw = o <=> op.raw = o)
        BY <1>3, SentinelsAssumption
      <4> QED BY <1>3, <1>5, <4>1, <4>2, StateLost
    <3>2. ~Creates
      BY <1>4, <2>2 DEF Lose, Creates, IInv, TypeOK
    <3> QED BY <3>1, <3>2
  <2> QED BY <2>1, <2>2 DEF CleanupRejected
<1>7. TypeOK'
  BY <1>1, <1>3, <1>6 DEF IInv, TypeOK
<1>8. OpShape'
  BY <1>1, <1>2, <1>3, <1>5, <1>6, SentinelsAssumption
  DEF IInv, TypeOK, Ops, Shape, KindsAt, Creators, OpShape
<1>9. WorkShape'
  BY <1>1, <1>2, <1>3, <1>5, <1>6, SentinelsAssumption
  DEF IInv, TypeOK, Ops, Shape, KindsAt, Creators, OpShape, WorkShape
<1>10. ExportShape'
  BY <1>1, <1>2, <1>3, <1>5, <1>6, SentinelsAssumption
  DEF IInv, TypeOK, Ops, Shape, KindsAt, Creators, OpShape, ExportShape
<1>11. TokenShape'
  BY <1>1, <1>2, <1>3, <1>5, <1>6, SentinelsAssumption
  DEF IInv, TypeOK, Ops, Shape, KindsAt, Creators, OpShape, TokenShape
<1>12. TaintShape'
  BY <1>1, <1>2, <1>3, <1>5, <1>6, SentinelsAssumption
  DEF IInv, TypeOK, Ops, Shape, KindsAt, Creators, OpShape, TaintShape
<1> QED BY <1>5, <1>6, <1>7, <1>8, <1>9, <1>10, <1>11, <1>12 DEF Kept, IInv, Shape

LEMMA InsertVolatileKeeps ==
  ASSUME IInv, InsertVolatile
  PROVE  Kept
<1>1. /\ op.pc = "insert" /\ op.raw = NoObject /\ op.export = NoObject /\ op.batch = {}
      /\ op.kind \in {"fresh", "restore", "promote"} /\ op.sid \in StateIds
      /\ op.obj \in Objects /\ ~NamedAs(op.obj)
  BY DEF InsertVolatile, At, IInv, TypeOK, Ops, Shape, OpShape, KindsAt
<1>2. CASE Finish
  BY <1>1, <1>2, FinishKeeps
<1>3. ASSUME /\ named[op.sid] = NotNamed
             /\ named' = [named EXCEPT ![op.sid] =
                            [obj |-> op.obj, persisted |-> op.kind # "fresh", expired |-> FALSE]]
             /\ op' = IF op.kind = "promote" THEN Idle ELSE [op EXCEPT !.pc = "issue"]
             /\ UNCHANGED <<disk, handoffs, listed>>
             /\ Dropping
      PROVE  Kept
  <2>1. /\ op' \in Ops /\ op'.raw = NoObject /\ op'.export = NoObject /\ op'.batch = {}
        /\ \/ op.kind = "promote" /\ op' = Idle
           \/ /\ op.kind # "promote" /\ op'.pc = "issue"
              /\ UNCHANGED <<op.kind, op.sid, op.obj, op.token>>
    <3>1. CASE op.kind = "promote"
      <4>1. op' = Idle
        BY <1>3, <3>1
      <4>2. op'.raw = NoObject /\ op'.export = NoObject /\ op'.batch = {}
        BY <4>1 DEF Idle
      <4> QED BY <3>1, <4>1, <4>2, IdleShape
    <3>2. CASE op.kind # "promote"
      <4>1. op' = [op EXCEPT !.pc = "issue"]
        BY <1>3, <3>2
      <4> QED BY <1>1, <3>2, <4>1 DEF IInv, TypeOK, Ops
    <3> QED BY <3>1, <3>2
  <2>2. /\ named' \in [StateIds -> Named \cup {NotNamed}]
        /\ \A s \in StateIds : s # op.sid => named'[s] = named[s]
        /\ named'[op.sid] # NotNamed /\ named'[op.sid].obj = op.obj
    <3> DEFINE n == [obj |-> op.obj, persisted |-> op.kind # "fresh", expired |-> FALSE]
    <3>1. n \in Named /\ n # NotNamed /\ n.obj = op.obj
      BY <1>1, SentinelsAssumption DEF Named, NotNamed
    <3>2. named' = [named EXCEPT ![op.sid] = n]
      BY <1>3
    <3> HIDE DEF n
    <3> QED BY <1>1, <3>1, <3>2 DEF IInv, TypeOK
  <2>3. \A o \in Objects : NamedAs(o)' <=> NamedAs(o) \/ o = op.obj
    BY <1>1, <1>3, <2>2 DEF NamedAs
  <2>4. NameShape'
    <3>1. \A r, s \in StateIds :
            named'[r] # NotNamed /\ named'[s] # NotNamed /\ named'[r].obj = named'[s].obj => r = s
      BY <1>1, <1>3, <2>2 DEF NamedAs, IInv, Shape, NameShape
    <3> QED BY <2>1, <3>1 DEF NameShape
  <2>5. \A o \in Objects : RecordOf(o)' <=> RecordOf(o)
    BY <1>3 DEF RecordOf
  <2>6. \A o \in Objects : Owned(o)' => Owned(o)
    BY <1>1, <1>3, <2>1, <2>3, <2>5 DEF Owned, InBatch, Idle
  <2>7. /\ TypeOK' /\ Ledger' /\ ~Creates /\ (tainted' => latched')
    BY <1>1, <1>3, <2>1, <2>2, <2>6, Dropped DEF IInv, TypeOK
  <2>8. \A t \in Tokens : handoffs'[t].use = "reserved" <=> op.token = t
    BY <1>3 DEF IInv, Shape, TokenShape
  <2>9. CASE op' = Idle
    <3>1. OpShape' /\ WorkShape' /\ ExportShape'
      BY <2>9, IdleShape
    <3>2. op.token = NoToken
      BY <1>1, <2>1, <2>9 DEF IInv, Shape, TokenShape, Idle
    <3>3. TokenShape' /\ TaintShape'
      BY <2>7, <2>8, <2>9, <3>2, SentinelsAssumption DEF TokenShape, TaintShape, Idle
    <3> QED BY <2>4, <2>7, <3>1, <3>3 DEF Kept, IInv, Shape
  <2>10. CASE op.kind # "promote" /\ op'.pc = "issue" /\ UNCHANGED <<op.kind, op.sid, op.obj, op.token>>
    <3>1. OpShape'
      BY <1>1, <2>1, <2>3, <2>7, <2>8, <2>10, SentinelsAssumption
      DEF IInv, TypeOK, Ops, Shape, KindsAt, Creators, OpShape
    <3>2. WorkShape'
      BY <1>1, <2>1, <2>3, <2>7, <2>8, <2>10, SentinelsAssumption
      DEF IInv, TypeOK, Ops, Shape, KindsAt, Creators, OpShape, WorkShape
    <3>3. ExportShape'
      BY <1>1, <2>1, <2>3, <2>7, <2>8, <2>10, SentinelsAssumption
      DEF IInv, TypeOK, Ops, Shape, KindsAt, Creators, OpShape, ExportShape
    <3>4. TokenShape'
      BY <1>1, <2>1, <2>3, <2>7, <2>8, <2>10, SentinelsAssumption
      DEF IInv, TypeOK, Ops, Shape, KindsAt, Creators, OpShape, TokenShape
    <3>5. TaintShape'
      BY <1>1, <2>1, <2>3, <2>7, <2>8, <2>10, SentinelsAssumption
      DEF IInv, TypeOK, Ops, Shape, KindsAt, Creators, OpShape, TaintShape
    <3> QED BY <2>4, <2>7, <3>1, <3>2, <3>3, <3>4, <3>5 DEF Kept, IInv, Shape
  <2> QED BY <2>1, <2>9, <2>10
<1> QED BY <1>2, <1>3 DEF InsertVolatile

LEMMA StartActionKeeps ==
  ASSUME IInv, NEW k \in {"evict", "demote", "move"}, NEW s \in StateIds, StartAction(k, s)
  PROVE  Kept
<1>1. /\ op.pc = "idle" /\ named' = Scanned /\ UNCHANGED <<disk, handoffs, listed>> /\ Dropping
      /\ k # "evict" => ~latched
  BY DEF StartAction, At
<1>2. op.obj = NoObject /\ op.raw = NoObject /\ op.export = NoObject /\ op.batch = {}
      /\ op.token = NoToken
  BY <1>1 DEF IInv, TypeOK, Ops, Shape, OpShape, WorkShape, TokenShape, KindsAt
<1>3. CASE named[s] # NotNamed /\ ~named[s].expired
  <2>1. op' = [Begin(k) EXCEPT !.pc = k, !.sid = s, !.obj = named[s].obj]
    BY <1>3 DEF StartAction
  <2>2. /\ named[s] \in Named /\ named[s].obj \in Objects /\ NamedAs(named[s].obj)
        /\ named'[s] = named[s] /\ named'[s] # NotNamed
    <3>1. named[s] \in Named /\ named[s].obj \in Objects /\ NamedAs(named[s].obj)
      BY <1>3, NamedIsSome DEF IInv, TypeOK, NamedAs
    <3>2. Scanned[s] = named[s]
      BY <1>3, ScannedIs DEF IInv
    <3> QED BY <1>1, <1>3, <3>1, <3>2
  <2>3. /\ op' \in Ops /\ op'.kind = k /\ op'.pc = k /\ op'.sid = s /\ op'.obj = named[s].obj
        /\ op'.raw = NoObject /\ op'.export = NoObject /\ op'.token = NoToken
        /\ op'.record = NoToken /\ op'.batch = {} /\ op'.picked = {}
    BY <2>1, <2>2 DEF Begin, Idle, Ops, Checkpoints
  <2>4. /\ named' \in [StateIds -> Named \cup {NotNamed}]
        /\ \A r \in StateIds : named'[r] = NotNamed \/ named'[r] = named[r]
    BY <1>1, ScannedIs DEF IInv, TypeOK
  <2>5. NameShape' /\ \A o \in Objects : NamedAs(o)' => NamedAs(o)
    BY <1>1, <1>2, <2>2, <2>3, <2>4, FewerNames DEF IInv, TypeOK, NotNamed
  <2>6. /\ handoffs' \in [Tokens -> {FreeToken, ReservedToken}
                              \cup [use : {"record"}, obj : Objects, expired : BOOLEAN]]
        /\ \A o \in Objects : RecordOf(o)' => RecordOf(o)
    BY <1>1 DEF IInv, TypeOK, RecordOf
  <2>7. \A o \in Objects : Owned(o)' => Owned(o)
    BY <1>1, <1>2, <2>2, <2>3, <2>5, <2>6 DEF Owned, InBatch
  <2>8. /\ TypeOK' /\ Ledger' /\ ~Creates
        /\ tainted' => latched'
        /\ op'.pc = "idle" => ~tainted'
        /\ (\A o \in Objects : Owned(o) => Owned(o)') => (tainted' => tainted)
    BY <1>1, <1>2, <2>2, <2>3, <2>4, <2>6, <2>7, Dropped DEF IInv, TypeOK
  <2>9. \A u \in Tokens : handoffs'[u].use = "reserved" <=> op.token = u
      BY <1>1 DEF IInv, Shape, TokenShape
  <2>10. OpShape'
    BY <1>1, <1>2, <2>2, <2>3, <2>4, <2>5, <2>6, <2>8, SentinelsAssumption
    DEF IInv, TypeOK, Ops, Shape, KindsAt, Creators, OpShape
  <2>11. WorkShape'
    BY <1>1, <1>2, <2>2, <2>3, <2>4, <2>5, <2>6, <2>8, SentinelsAssumption
    DEF IInv, TypeOK, Ops, Shape, KindsAt, Creators, OpShape, WorkShape
  <2>12. ExportShape'
    BY <1>1, <1>2, <2>2, <2>3, <2>4, <2>5, <2>6, <2>8, SentinelsAssumption
    DEF IInv, TypeOK, Ops, Shape, KindsAt, Creators, OpShape, ExportShape
  <2>13. TokenShape'
    BY <1>1, <1>2, <2>2, <2>3, <2>4, <2>5, <2>6, <2>8, <2>9, SentinelsAssumption
    DEF IInv, TypeOK, Ops, Shape, KindsAt, Creators, OpShape, TokenShape
  <2>14. TaintShape'
    BY <1>1, <1>2, <2>2, <2>3, <2>4, <2>5, <2>6, <2>8, SentinelsAssumption
    DEF IInv, TypeOK, Ops, Shape, KindsAt, Creators, OpShape, TaintShape
  <2> QED BY <2>5, <2>8, <2>10, <2>11, <2>12, <2>13, <2>14 DEF Kept, IInv, Shape
<1>4. CASE k = "evict" /\ op' = [Begin(k) EXCEPT !.pc = "remove", !.sid = s]
  <2>1. /\ op' \in Ops /\ op'.kind = "evict" /\ op'.pc = "remove" /\ op'.sid = s
        /\ op'.obj = NoObject /\ op'.raw = NoObject /\ op'.export = NoObject
        /\ op'.token = NoToken /\ op'.record = NoToken /\ op'.batch = {}
        /\ op'.picked = {}
    BY <1>4 DEF Begin, Idle, Ops
  <2>2. /\ named' \in [StateIds -> Named \cup {NotNamed}]
        /\ \A r \in StateIds : named'[r] = NotNamed \/ named'[r] = named[r]
    BY <1>1, ScannedIs DEF IInv, TypeOK
  <2>3. NameShape' /\ \A o \in Objects : NamedAs(o)' => NamedAs(o)
    BY <1>1, <1>2, <2>1, <2>2, FewerNames DEF IInv, TypeOK, NotNamed
  <2>4. /\ handoffs' \in [Tokens -> {FreeToken, ReservedToken}
                              \cup [use : {"record"}, obj : Objects, expired : BOOLEAN]]
        /\ \A o \in Objects : RecordOf(o)' => RecordOf(o)
    BY <1>1 DEF IInv, TypeOK, RecordOf
  <2>5. \A o \in Objects : Owned(o)' => Owned(o)
    BY <1>1, <1>2, <2>1, <2>3, <2>4 DEF Owned, InBatch
  <2>6. /\ TypeOK' /\ Ledger' /\ ~Creates
        /\ tainted' => latched'
        /\ op'.pc = "idle" => ~tainted'
        /\ (\A o \in Objects : Owned(o) => Owned(o)') => (tainted' => tainted)
    BY <1>1, <1>2, <2>1, <2>2, <2>4, <2>5, Dropped DEF IInv, TypeOK
  <2>7. \A u \in Tokens : handoffs'[u].use = "reserved" <=> op.token = u
      BY <1>1 DEF IInv, Shape, TokenShape
  <2>8. OpShape'
    BY <1>1, <1>2, <2>1, <2>2, <2>3, <2>4, <2>6, SentinelsAssumption
    DEF IInv, TypeOK, Ops, Shape, KindsAt, Creators, OpShape
  <2>9. WorkShape'
    BY <1>1, <1>2, <2>1, <2>2, <2>3, <2>4, <2>6, SentinelsAssumption
    DEF IInv, TypeOK, Ops, Shape, KindsAt, Creators, OpShape, WorkShape
  <2>10. ExportShape'
    BY <1>1, <1>2, <2>1, <2>2, <2>3, <2>4, <2>6, SentinelsAssumption
    DEF IInv, TypeOK, Ops, Shape, KindsAt, Creators, OpShape, ExportShape
  <2>11. TokenShape'
    BY <1>1, <1>2, <2>1, <2>2, <2>3, <2>4, <2>6, <2>7, SentinelsAssumption
    DEF IInv, TypeOK, Ops, Shape, KindsAt, Creators, OpShape, TokenShape
  <2>12. TaintShape'
    BY <1>1, <1>2, <2>1, <2>2, <2>3, <2>4, <2>6, SentinelsAssumption
    DEF IInv, TypeOK, Ops, Shape, KindsAt, Creators, OpShape, TaintShape
  <2> QED BY <2>3, <2>6, <2>8, <2>9, <2>10, <2>11, <2>12 DEF Kept, IInv, Shape
<1>5. CASE op' = [Begin("promote") EXCEPT !.pc = "promote", !.sid = s]
  <2>1. /\ op' \in Ops /\ op'.kind = "promote" /\ op'.pc = "promote" /\ op'.sid = s
        /\ op'.obj = NoObject /\ op'.raw = NoObject /\ op'.export = NoObject
        /\ op'.token = NoToken /\ op'.record = NoToken /\ op'.batch = {}
        /\ op'.picked = {}
    BY <1>5 DEF Begin, Idle, Ops, Checkpoints
  <2>2. /\ named' \in [StateIds -> Named \cup {NotNamed}]
        /\ \A r \in StateIds : named'[r] = NotNamed \/ named'[r] = named[r]
    BY <1>1, ScannedIs DEF IInv, TypeOK
  <2>3. NameShape' /\ \A o \in Objects : NamedAs(o)' => NamedAs(o)
    BY <1>1, <1>2, <2>1, <2>2, FewerNames DEF IInv, TypeOK, NotNamed
  <2>4. /\ handoffs' \in [Tokens -> {FreeToken, ReservedToken}
                              \cup [use : {"record"}, obj : Objects, expired : BOOLEAN]]
        /\ \A o \in Objects : RecordOf(o)' => RecordOf(o)
    BY <1>1 DEF IInv, TypeOK, RecordOf
  <2>5. \A o \in Objects : Owned(o)' => Owned(o)
    BY <1>1, <1>2, <2>1, <2>3, <2>4 DEF Owned, InBatch
  <2>6. /\ TypeOK' /\ Ledger' /\ ~Creates
        /\ tainted' => latched'
        /\ op'.pc = "idle" => ~tainted'
        /\ (\A o \in Objects : Owned(o) => Owned(o)') => (tainted' => tainted)
    BY <1>1, <1>2, <2>1, <2>2, <2>4, <2>5, Dropped DEF IInv, TypeOK
  <2>7. \A u \in Tokens : handoffs'[u].use = "reserved" <=> op.token = u
      BY <1>1 DEF IInv, Shape, TokenShape
  <2>8. OpShape'
    BY <1>1, <1>2, <2>1, <2>2, <2>3, <2>4, <2>6, SentinelsAssumption
    DEF IInv, TypeOK, Ops, Shape, KindsAt, Creators, OpShape
  <2>9. WorkShape'
    BY <1>1, <1>2, <2>1, <2>2, <2>3, <2>4, <2>6, SentinelsAssumption
    DEF IInv, TypeOK, Ops, Shape, KindsAt, Creators, OpShape, WorkShape
  <2>10. ExportShape'
    BY <1>1, <1>2, <2>1, <2>2, <2>3, <2>4, <2>6, SentinelsAssumption
    DEF IInv, TypeOK, Ops, Shape, KindsAt, Creators, OpShape, ExportShape
  <2>11. TokenShape'
    BY <1>1, <1>2, <2>1, <2>2, <2>3, <2>4, <2>6, <2>7, SentinelsAssumption
    DEF IInv, TypeOK, Ops, Shape, KindsAt, Creators, OpShape, TokenShape
  <2>12. TaintShape'
    BY <1>1, <1>2, <2>1, <2>2, <2>3, <2>4, <2>6, SentinelsAssumption
    DEF IInv, TypeOK, Ops, Shape, KindsAt, Creators, OpShape, TaintShape
  <2> QED BY <2>3, <2>6, <2>8, <2>9, <2>10, <2>11, <2>12 DEF Kept, IInv, Shape
<1>6. CASE op' = Idle
  <2>1. /\ op' \in Ops /\ op'.kind = "none" /\ op'.pc = "idle" /\ op'.sid = NoState
        /\ op'.obj = NoObject /\ op'.raw = NoObject /\ op'.export = NoObject
        /\ op'.token = NoToken /\ op'.record = NoToken /\ op'.batch = {}
        /\ op'.picked = {}
    BY <1>6 DEF Idle, Ops
  <2>2. /\ named' \in [StateIds -> Named \cup {NotNamed}]
        /\ \A r \in StateIds : named'[r] = NotNamed \/ named'[r] = named[r]
    BY <1>1, ScannedIs DEF IInv, TypeOK
  <2>3. NameShape' /\ \A o \in Objects : NamedAs(o)' => NamedAs(o)
    BY <1>1, <1>2, <2>1, <2>2, FewerNames DEF IInv, TypeOK, NotNamed
  <2>4. /\ handoffs' \in [Tokens -> {FreeToken, ReservedToken}
                              \cup [use : {"record"}, obj : Objects, expired : BOOLEAN]]
        /\ \A o \in Objects : RecordOf(o)' => RecordOf(o)
    BY <1>1 DEF IInv, TypeOK, RecordOf
  <2>5. \A o \in Objects : Owned(o)' => Owned(o)
    BY <1>1, <1>2, <2>1, <2>3, <2>4 DEF Owned, InBatch
  <2>6. /\ TypeOK' /\ Ledger' /\ ~Creates
        /\ tainted' => latched'
        /\ op'.pc = "idle" => ~tainted'
        /\ (\A o \in Objects : Owned(o) => Owned(o)') => (tainted' => tainted)
    BY <1>1, <1>2, <2>1, <2>2, <2>4, <2>5, Dropped DEF IInv, TypeOK
  <2>7. \A u \in Tokens : handoffs'[u].use = "reserved" <=> op.token = u
      BY <1>1 DEF IInv, Shape, TokenShape
  <2>8. OpShape'
    BY <1>1, <1>2, <2>1, <2>2, <2>3, <2>4, <2>6, SentinelsAssumption
    DEF IInv, TypeOK, Ops, Shape, KindsAt, Creators, OpShape
  <2>9. WorkShape'
    BY <1>1, <1>2, <2>1, <2>2, <2>3, <2>4, <2>6, SentinelsAssumption
    DEF IInv, TypeOK, Ops, Shape, KindsAt, Creators, OpShape, WorkShape
  <2>10. ExportShape'
    BY <1>1, <1>2, <2>1, <2>2, <2>3, <2>4, <2>6, SentinelsAssumption
    DEF IInv, TypeOK, Ops, Shape, KindsAt, Creators, OpShape, ExportShape
  <2>11. TokenShape'
    BY <1>1, <1>2, <2>1, <2>2, <2>3, <2>4, <2>6, <2>7, SentinelsAssumption
    DEF IInv, TypeOK, Ops, Shape, KindsAt, Creators, OpShape, TokenShape
  <2>12. TaintShape'
    BY <1>1, <1>2, <2>1, <2>2, <2>3, <2>4, <2>6, SentinelsAssumption
    DEF IInv, TypeOK, Ops, Shape, KindsAt, Creators, OpShape, TaintShape
  <2> QED BY <2>3, <2>6, <2>8, <2>9, <2>10, <2>11, <2>12 DEF Kept, IInv, Shape
<1> QED BY <1>3, <1>4, <1>5, <1>6 DEF StartAction

LEMMA RelieveEvictKeeps ==
  ASSUME IInv, NEW s \in StateIds, RelieveEvict(s)
  PROVE  Kept
<1>1. /\ op.pc = "relieve" /\ s \in op.picked /\ named[s] # NotNamed
      /\ op.raw = NoObject /\ op.export = NoObject /\ op.batch = {} /\ op.kind \in Creators
  BY DEF RelieveEvict, At, IInv, Shape, OpShape, WorkShape, KindsAt
<1>2. CASE Finish
  BY <1>1, <1>2, FinishKeeps
<1>3. ASSUME Uncloned(s), named' = [named EXCEPT ![s] = NotNamed],
             op' = [op EXCEPT !.picked = @ \ {s}], Release(named[s].obj),
             UNCHANGED <<disk, handoffs, listed>>
      PROVE  Kept
  <2>1. /\ op' \in Ops /\ op'.picked = op.picked \ {s}
        /\ UNCHANGED <<op.kind, op.pc, op.sid, op.obj, op.raw, op.export, op.token, op.record, op.batch>>
    BY <1>3 DEF IInv, TypeOK, Ops
  <2>2. TakeNamed(s) /\ op.obj # named[s].obj
    BY <1>3 DEF TakeNamed, Uncloned
  <2>3. /\ named' \in [StateIds -> Named \cup {NotNamed}]
        /\ \A r \in StateIds : r # s => named'[r] = named[r]
        /\ NameShape' /\ \A o \in Objects : NamedAs(o)' => NamedAs(o)
        /\ status' \in [Objects -> Statuses] /\ account' \in [Objects -> Accounts]
        /\ UNCHANGED <<latched, tainted>> /\ Ledger' /\ ~Creates
    BY <1>1, <1>3, <2>1, <2>2, NameTaken
  <2>4. TypeOK'
    BY <1>3, <2>1, <2>3 DEF IInv, TypeOK
  <2>5. OpShape'
    BY <1>1, <1>3, <2>1, <2>2, <2>3, SentinelsAssumption
    DEF IInv, TypeOK, Ops, Shape, KindsAt, Creators, OpShape
  <2>6. WorkShape'
    BY <1>1, <1>3, <2>1, <2>2, <2>3, SentinelsAssumption
    DEF IInv, TypeOK, Ops, Shape, KindsAt, Creators, OpShape, WorkShape
  <2>7. ExportShape'
    BY <1>1, <1>3, <2>1, <2>2, <2>3, SentinelsAssumption
    DEF IInv, TypeOK, Ops, Shape, KindsAt, Creators, OpShape, ExportShape
  <2>8. TokenShape'
    BY <1>1, <1>3, <2>1, <2>2, <2>3, SentinelsAssumption
    DEF IInv, TypeOK, Ops, Shape, KindsAt, Creators, OpShape, TokenShape
  <2>9. TaintShape'
    BY <1>1, <1>3, <2>1, <2>2, <2>3, SentinelsAssumption
    DEF IInv, TypeOK, Ops, Shape, KindsAt, Creators, OpShape, TaintShape
  <2> QED BY <2>3, <2>4, <2>5, <2>6, <2>7, <2>8, <2>9 DEF Kept, IInv, Shape
<1> QED BY <1>2, <1>3 DEF RelieveEvict

LEMMA RelieveDemoteKeeps ==
  ASSUME IInv, NEW s \in StateIds, RelieveDemote(s)
  PROVE  Kept
<1>1. /\ op.pc = "relieve" /\ s \in op.picked /\ named[s] # NotNamed
      /\ op.raw = NoObject /\ op.export = NoObject /\ op.batch = {} /\ op.kind \in Creators
      /\ ~tainted
  BY DEF RelieveDemote, At, IInv, Shape, OpShape, WorkShape, TaintShape, KindsAt
<1>2. PICK o \in Spare :
        \/ /\ Uncloned(s)
           /\ named' = [named EXCEPT ![s].obj = o]
           /\ status' = [status EXCEPT ![o] = "leased", ![named[s].obj] = "free"]
           /\ account' = [account EXCEPT ![o] = "held", ![named[s].obj] = "none"]
           /\ op' = [op EXCEPT !.picked = @ \ {s}]
           /\ UNCHANGED <<disk, handoffs, listed, latched, tainted>>
        \/ /\ op' = [op EXCEPT !.pc = "failed"]
           /\ Lose(o, "lost")
           /\ UNCHANGED <<named, disk, handoffs, listed>>
  BY DEF RelieveDemote
<1>3. /\ o \in Objects /\ status[o] = "free" /\ account[o] # "held"
      /\ ~Owned(o) /\ ~NamedAs(o) /\ ~RecordOf(o) /\ o \notin listed /\ op.obj # o
      /\ op.raw # o /\ op.export # o
  BY SpareIsFree
<1>4. Creates => ~tainted
  BY <1>1
<1>5. ASSUME Uncloned(s), named' = [named EXCEPT ![s].obj = o],
             status' = [status EXCEPT ![o] = "leased", ![named[s].obj] = "free"],
             account' = [account EXCEPT ![o] = "held", ![named[s].obj] = "none"],
             op' = [op EXCEPT !.picked = @ \ {s}],
             UNCHANGED <<disk, handoffs, listed, latched, tainted>>
      PROVE  Kept
  <2> DEFINE r == named[s].obj
  <2>1. /\ op' \in Ops /\ op'.picked = op.picked \ {s}
        /\ UNCHANGED <<op.kind, op.pc, op.sid, op.obj, op.raw, op.export, op.token, op.record, op.batch>>
    BY <1>5 DEF IInv, TypeOK, Ops
  <2>2. /\ r \in Objects /\ NamedAs(r) /\ r # o /\ op.obj # r /\ status[r] = "leased"
        /\ r \notin listed /\ ~RecordOf(r)
    BY <1>1, <1>3, <1>5, NamedIsSome
    DEF IInv, TypeOK, NamedAs, Uncloned, Shared, RecordOf, Records, Ledger, Owned
  <2>3. /\ named' \in [StateIds -> Named \cup {NotNamed}]
        /\ \A x \in StateIds : x # s => named'[x] = named[x]
        /\ named'[s] # NotNamed /\ named'[s].obj = o
    BY <1>1, <1>3, <1>5, Replaced DEF IInv
  <2>4. \A x \in Objects : NamedAs(x)' <=> (NamedAs(x) /\ x # r) \/ x = o
    BY <1>1, <1>3, <2>2, <2>3 DEF NamedAs, IInv, Shape, NameShape
  <2>5. NameShape'
    <3>1. \A x, y \in StateIds :
            named'[x] # NotNamed /\ named'[y] # NotNamed /\ named'[x].obj = named'[y].obj => x = y
      BY <1>3, <2>3 DEF NamedAs, IInv, Shape, NameShape
    <3> QED BY <1>1, <2>1, <3>1 DEF NameShape
  <2>6. \A x \in Objects : RecordOf(x)' <=> RecordOf(x)
    BY <1>5 DEF RecordOf
  <2>7. \A x \in Objects : Owned(x)' <=> (Owned(x) /\ x # r) \/ x = o
    BY <1>1, <1>3, <1>5, <2>1, <2>2, <2>4, <2>6, SentinelsAssumption DEF Owned, InBatch
  <2>8. /\ \A x \in Objects : status'[x] = IF x = r THEN "free" ELSE IF x = o THEN "leased"
                                           ELSE status[x]
        /\ \A x \in Objects : account'[x] = IF x = r THEN "none" ELSE IF x = o THEN "held"
                                            ELSE account[x]
        /\ status' \in [Objects -> Statuses] /\ account' \in [Objects -> Accounts]
    BY <1>3, <1>5, <2>2 DEF IInv, TypeOK, Statuses, Accounts
  <2> HIDE DEF r
  <2>9. Ledger'
    BY <1>1, <1>3, <1>5, <2>1, <2>2, <2>7, <2>8, SentinelsAssumption DEF IInv, Ledger
  <2>10. TypeOK'
    BY <1>5, <2>1, <2>3, <2>8 DEF IInv, TypeOK
  <2>11. OpShape'
    BY <1>1, <1>5, <2>1, <2>2, <2>3, <2>4, <2>6, SentinelsAssumption
    DEF IInv, TypeOK, Ops, Shape, KindsAt, Creators, OpShape
  <2>12. WorkShape'
    BY <1>1, <1>5, <2>1, <2>2, <2>3, <2>4, <2>6, SentinelsAssumption
    DEF IInv, TypeOK, Ops, Shape, KindsAt, Creators, OpShape, WorkShape, r
  <2>13. ExportShape'
    BY <1>1, <1>5, <2>1, <2>2, <2>3, <2>4, <2>6, SentinelsAssumption
    DEF IInv, TypeOK, Ops, Shape, KindsAt, Creators, OpShape, ExportShape
  <2>14. TokenShape'
    BY <1>1, <1>5, <2>1, <2>2, <2>3, <2>4, <2>6, SentinelsAssumption
    DEF IInv, TypeOK, Ops, Shape, KindsAt, Creators, OpShape, TokenShape
  <2>15. TaintShape'
    BY <1>1, <1>5, <2>1, <2>2, <2>3, <2>4, <2>6, SentinelsAssumption
    DEF IInv, TypeOK, Ops, Shape, KindsAt, Creators, OpShape, TaintShape
  <2> QED BY <1>4, <2>5, <2>9, <2>10, <2>11, <2>12, <2>13, <2>14, <2>15 DEF Kept, IInv, Shape
<1>6. ASSUME op' = [op EXCEPT !.pc = "failed"], Lose(o, "lost"),
             UNCHANGED <<named, disk, handoffs, listed>>
      PROVE  Kept
  <2>1. /\ op' \in Ops /\ op'.pc = "failed"
        /\ UNCHANGED <<op.kind, op.sid, op.obj, op.raw, op.export, op.token, op.record, op.batch, op.picked>>
    BY <1>6 DEF IInv, TypeOK, Ops
  <2>2. /\ NameShape'
        /\ \A x \in Objects : (NamedAs(x)' <=> NamedAs(x)) /\ (RecordOf(x)' <=> RecordOf(x))
        /\ \A x \in Objects : Owned(x)' <=> Owned(x)
    BY <1>6, <2>1, OthersStay DEF Owned
  <2>3. /\ status' \in [Objects -> Statuses] /\ account' \in [Objects -> Accounts]
        /\ latched' = TRUE /\ tainted' = TRUE /\ Ledger'
    BY <1>3, <1>6, <2>1, <2>2, StateLost
  <2>4. TypeOK'
    BY <1>6, <2>1, <2>3 DEF IInv, TypeOK
  <2>5. OpShape'
    BY <1>1, <1>6, <2>1, <2>2, <2>3, SentinelsAssumption
    DEF IInv, TypeOK, Ops, Shape, KindsAt, Creators, OpShape
  <2>6. WorkShape'
    BY <1>1, <1>6, <2>1, <2>2, <2>3, SentinelsAssumption
    DEF IInv, TypeOK, Ops, Shape, KindsAt, Creators, OpShape, WorkShape
  <2>7. ExportShape'
    BY <1>1, <1>6, <2>1, <2>2, <2>3, SentinelsAssumption
    DEF IInv, TypeOK, Ops, Shape, KindsAt, Creators, OpShape, ExportShape
  <2>8. TokenShape'
    BY <1>1, <1>6, <2>1, <2>2, <2>3, SentinelsAssumption
    DEF IInv, TypeOK, Ops, Shape, KindsAt, Creators, OpShape, TokenShape
  <2>9. TaintShape'
    BY <1>1, <1>6, <2>1, <2>2, <2>3, SentinelsAssumption
    DEF IInv, TypeOK, Ops, Shape, KindsAt, Creators, OpShape, TaintShape
  <2> QED BY <1>4, <2>2, <2>3, <2>4, <2>5, <2>6, <2>7, <2>8, <2>9 DEF Kept, IInv, Shape
<1> QED BY <1>2, <1>5, <1>6

(* What an operation that works on a named state has in hand.              *)
LEMMA AtWork ==
  ASSUME IInv, op.kind \in {"evict", "demote", "move"}, op.pc \in {"evict", "drop", "swap"}
  PROVE  /\ op.sid \in StateIds /\ named[op.sid] # NotNamed /\ named[op.sid] \in Named
         /\ named[op.sid].obj \in Objects /\ NamedAs(named[op.sid].obj)
         /\ op.pc # "swap" => op.obj = named[op.sid].obj
         /\ op.raw = NoObject /\ op.export = NoObject /\ op.batch = {} /\ op.token = NoToken
         /\ \A t \in Tokens : handoffs[t].use # "reserved"
<1>1. op.sid \in StateIds /\ named[op.sid] # NotNamed
  BY DEF IInv, Shape, WorkShape
<1>2. named[op.sid] \in Named /\ named[op.sid].obj \in Objects /\ NamedAs(named[op.sid].obj)
  BY <1>1, NamedIsSome DEF IInv, TypeOK, NamedAs
<1>3. op.pc # "swap" => op.obj = named[op.sid].obj
  BY DEF IInv, Shape, WorkShape
<1>4. op.raw = NoObject /\ op.export = NoObject /\ op.batch = {}
  BY DEF IInv, Shape, OpShape
<1>5. op.token = NoToken
  BY DEF IInv, Shape, TokenShape
<1>6. \A t \in Tokens : handoffs[t].use # "reserved"
  BY <1>5, SentinelsAssumption DEF IInv, Shape, TokenShape
<1> QED BY <1>1, <1>2, <1>3, <1>4, <1>5, <1>6

(* A release that is not confirmed puts the state back.                    *)
LEMMA PutBackKeeps ==
  ASSUME IInv, NEW e \in Named, op.kind \in {"evict", "demote"}, op.pc \in {"evict", "drop"},
         e.obj = named[op.sid].obj, PutBack(op.sid, e), op' = Idle,
         UNCHANGED <<disk, handoffs, listed>>
  PROVE  Kept
<1>1. /\ op.sid \in StateIds /\ named[op.sid] # NotNamed
      /\ op.obj = named[op.sid].obj /\ NamedAs(op.obj)
      /\ op.raw = NoObject /\ op.export = NoObject /\ op.batch = {} /\ op.token = NoToken
      /\ \A t \in Tokens : handoffs[t].use # "reserved"
  BY AtWork
<1>2. named' = [named EXCEPT ![op.sid] = e] /\ Untouched
  BY DEF PutBack
<1>3. /\ named' \in [StateIds -> Named \cup {NotNamed}]
      /\ \A s \in StateIds : /\ named'[s] = NotNamed <=> named[s] = NotNamed
                             /\ named'[s].obj = named[s].obj
  <2>1. \A s \in StateIds :
          \/ named'[s] = named[s]
          \/ named[s] # NotNamed /\ named'[s] \in Named /\ named'[s].obj = named[s].obj
    BY <1>1, <1>2 DEF IInv, TypeOK
  <2>2. named' = [s \in StateIds |-> named'[s]]
    BY <1>2 DEF IInv, TypeOK
  <2> QED BY <2>1, <2>2, Reflagged DEF IInv
<1>4. op' \in Ops /\ OpShape' /\ WorkShape' /\ ExportShape'
  BY IdleShape
<1>5. /\ op'.kind = "none" /\ op'.pc = "idle" /\ op'.obj = NoObject /\ op'.raw = NoObject
      /\ op'.export = NoObject /\ op'.batch = {} /\ op'.token = NoToken
  BY DEF Idle
<1>6. \A o \in Objects : (NamedAs(o)' <=> NamedAs(o)) /\ (RecordOf(o)' <=> RecordOf(o))
  BY <1>3 DEF NamedAs, RecordOf
<1>7. \A o \in Objects : Owned(o)' <=> Owned(o)
  BY <1>1, <1>5, <1>6 DEF Owned, InBatch
<1>8. Ledger' /\ ~Creates
  BY <1>1, <1>2, <1>5, <1>7, NothingDropped
<1>9. TypeOK'
  BY <1>2, <1>3, <1>4 DEF IInv, TypeOK, Untouched
<1>10. NameShape'
  BY <1>1, <1>3, <1>5, FewerNames
<1>11. TokenShape'
  BY <1>1, <1>5, SentinelsAssumption DEF TokenShape
<1>12. TaintShape'
  BY <1>2, <1>5 DEF TaintShape, IInv, Shape, Untouched
<1> QED BY <1>4, <1>8, <1>9, <1>10, <1>11, <1>12 DEF Kept, IInv, Shape

(* The name an operation works on is given up.                             *)
LEMMA TakenKeeps ==
  ASSUME IInv, op.kind \in {"evict", "demote"}, op.pc \in {"evict", "drop"},
         TakeNamed(op.sid), UNCHANGED <<disk, handoffs, listed>>,
         \/ op' = Idle
         \/ op.kind = "evict" /\ op' = [op EXCEPT !.pc = "remove", !.obj = NoObject]
  PROVE  Kept
<1>1. /\ op.sid \in StateIds /\ named[op.sid] # NotNamed
      /\ op.obj = named[op.sid].obj /\ op.obj \in Objects
      /\ op.raw = NoObject /\ op.export = NoObject /\ op.batch = {} /\ op.token = NoToken
      /\ \A t \in Tokens : handoffs[t].use # "reserved"
  BY AtWork
<1>2. /\ op' \in Ops /\ op'.obj = NoObject /\ op'.raw = NoObject /\ op'.export = NoObject
      /\ op'.batch = {} /\ op'.token = NoToken
      /\ \/ op'.kind = "none" /\ op'.pc = "idle"
         \/ op'.kind = "evict" /\ op'.pc = "remove"
  <2>1. CASE op' = Idle
    BY <2>1, IdleShape DEF Idle
  <2>2. CASE op.kind = "evict" /\ op' = [op EXCEPT !.pc = "remove", !.obj = NoObject]
    BY <1>1, <2>2 DEF IInv, TypeOK, Ops
  <2> QED BY <2>1, <2>2
<1>3. /\ named' \in [StateIds -> Named \cup {NotNamed}]
      /\ NameShape'
      /\ status' \in [Objects -> Statuses] /\ account' \in [Objects -> Accounts]
      /\ UNCHANGED <<latched, tainted>> /\ Ledger' /\ ~Creates
  <2> DEFINE s == op.sid
  <2>1. /\ s \in StateIds /\ named[s] # NotNamed /\ TakeNamed(s) /\ op'.obj # named[s].obj
        /\ \A o \in Objects : o # named[s].obj => (op'.obj = o <=> op.obj = o)
    BY <1>1, <1>2, SentinelsAssumption
  <2> HIDE DEF s
  <2> QED BY <1>1, <1>2, <2>1, NameTaken
<1>4. TypeOK'
  BY <1>2, <1>3 DEF IInv, TypeOK
<1>5. OpShape' /\ WorkShape' /\ ExportShape'
  BY <1>2 DEF OpShape, WorkShape, ExportShape, KindsAt
<1>6. TokenShape'
  BY <1>1, <1>2, SentinelsAssumption DEF TokenShape
<1>7. TaintShape'
  BY <1>2, <1>3 DEF TaintShape, IInv, Shape
<1> QED BY <1>3, <1>4, <1>5, <1>6, <1>7 DEF Kept, IInv, Shape

LEMMA EvictKeeps ==
  ASSUME IInv, Evict
  PROVE  Kept
<1>1. op.pc = "evict" /\ op.kind = "evict" /\ UNCHANGED <<disk, handoffs, listed>>
  BY DEF Evict, At, IInv, Shape, OpShape, KindsAt
<1>2. named[op.sid] \in Named
  BY <1>1, AtWork
<1>3. CASE PutBack(op.sid, named[op.sid]) /\ op' = Idle
  BY <1>1, <1>2, <1>3, PutBackKeeps
<1>4. CASE /\ TakeNamed(op.sid)
           /\ op' = IF named[op.sid].persisted THEN [op EXCEPT !.pc = "remove", !.obj = NoObject]
                    ELSE Idle
  BY <1>1, <1>4, TakenKeeps
<1> QED BY <1>3, <1>4 DEF Evict

LEMMA DropDemotedKeeps ==
  ASSUME IInv, DropDemoted
  PROVE  Kept
<1>1. op.pc = "drop" /\ op.kind = "demote" /\ op' = Idle /\ UNCHANGED <<disk, handoffs, listed>>
  BY DEF DropDemoted, At, IInv, Shape, OpShape, KindsAt
<1>2. named[op.sid] \in Named
  BY <1>1, AtWork
<1>3. CASE PutBack(op.sid, [named[op.sid] EXCEPT !.persisted = TRUE])
  <2>1. /\ [named[op.sid] EXCEPT !.persisted = TRUE] \in Named
        /\ [named[op.sid] EXCEPT !.persisted = TRUE].obj = named[op.sid].obj
    BY <1>2, Flagged
  <2> QED BY <1>1, <1>3, <2>1, PutBackKeeps
<1>4. CASE TakeNamed(op.sid)
  BY <1>1, <1>4, TakenKeeps
<1> QED BY <1>3, <1>4 DEF DropDemoted

LEMMA SwapMovedKeeps ==
  ASSUME IInv, SwapMoved
  PROVE  Kept
<1> DEFINE old == named[op.sid].obj
           s == op.sid
<1>1. op.pc = "swap" /\ op.kind = "move"
  BY DEF SwapMoved, At, IInv, Shape, OpShape, KindsAt
<1>2. /\ s \in StateIds /\ named[s] # NotNamed /\ old \in Objects /\ NamedAs(old)
      /\ op.raw = NoObject /\ op.export = NoObject /\ op.batch = {} /\ op.token = NoToken
      /\ \A t \in Tokens : handoffs[t].use # "reserved"
  BY <1>1, AtWork
<1>3. op.obj \in Objects /\ ~NamedAs(op.obj) /\ op.obj # old
  BY <1>1, <1>2 DEF IInv, TypeOK, Ops, Shape, WorkShape
<1>4. CASE Finish
  BY <1>2, <1>4, FinishKeeps
<1>5. ASSUME named' = [named EXCEPT ![s].obj = op.obj], op' = Idle,
             IF Shared(old) THEN Untouched ELSE Release(old),
             UNCHANGED <<disk, handoffs, listed>>
      PROVE  Kept
  <2>1. op' \in Ops /\ OpShape' /\ WorkShape' /\ ExportShape'
    BY <1>5, IdleShape
  <2>2. /\ op'.kind = "none" /\ op'.pc = "idle" /\ op'.obj = NoObject /\ op'.raw = NoObject
        /\ op'.export = NoObject /\ op'.batch = {} /\ op'.token = NoToken
    BY <1>5 DEF Idle
  <2>3. /\ named' \in [StateIds -> Named \cup {NotNamed}]
        /\ \A x \in StateIds : x # s => named'[x] = named[x]
        /\ named'[s] # NotNamed /\ named'[s].obj = op.obj
    <3> HIDE DEF s
    <3>1. PICK o \in Objects : o = op.obj
      BY <1>3
    <3> QED BY <1>2, <1>5, <3>1, Replaced DEF IInv
  <2>4. \A x \in Objects : NamedAs(x)' <=> (NamedAs(x) /\ x # old) \/ x = op.obj
    BY <1>2, <1>3, <2>3 DEF NamedAs, IInv, Shape, NameShape
  <2>5. NameShape'
    <3>1. \A x, y \in StateIds :
            named'[x] # NotNamed /\ named'[y] # NotNamed /\ named'[x].obj = named'[y].obj => x = y
      BY <1>3, <2>3 DEF NamedAs, IInv, Shape, NameShape
    <3> QED BY <2>2, <3>1 DEF NameShape
  <2>6. \A x \in Objects : RecordOf(x)' <=> RecordOf(x)
    BY <1>5 DEF RecordOf
  <2>7. Shared(old) <=> old \in listed \/ RecordOf(old)
    BY DEF Shared, RecordOf, Records
  <2>8. \A x \in Objects : Owned(x)' <=> Owned(x) /\ (x # old \/ Shared(old))
    BY <1>2, <1>3, <1>5, <2>2, <2>4, <2>6, <2>7 DEF Owned, InBatch
  <2>9. /\ TypeOK' /\ Ledger' /\ ~Creates /\ UNCHANGED <<latched, tainted>>
    <3>1. CASE Shared(old)
      <4>1. Untouched
        BY <1>5, <3>1
      <4>2. Ledger' /\ ~Creates
        BY <1>2, <2>2, <2>8, <3>1, <4>1, NothingDropped
      <4> QED BY <1>5, <2>1, <2>3, <4>1, <4>2 DEF Untouched, IInv, TypeOK
    <3>2. CASE ~Shared(old)
      <4>1. Release(old) /\ status[old] = "leased"
        BY <1>2, <1>5, <3>2 DEF IInv, Ledger, Owned
      <4>2. \A x \in Objects : Owned(x)' <=> Owned(x) /\ x # old
        BY <2>8, <3>2
      <4> HIDE DEF old
      <4>3. Ledger' /\ ~Creates
        BY <1>2, <2>2, <4>1, <4>2, LeaseReleased
      <4> QED BY <1>2, <1>5, <2>1, <2>3, <4>1, <4>3
              DEF Release, IInv, TypeOK, Statuses, Accounts
    <3> QED BY <3>1, <3>2
  <2>10. TokenShape'
    BY <1>2, <1>5, <2>2, SentinelsAssumption DEF TokenShape
  <2>11. TaintShape'
    BY <2>2, <2>9 DEF TaintShape, IInv, Shape
  <2> QED BY <2>1, <2>5, <2>9, <2>10, <2>11 DEF Kept, IInv, Shape
<1> QED BY <1>4, <1>5 DEF SwapMoved

LEMMA StartPruneKeeps ==
  ASSUME IInv, NEW selected \in SUBSET StateIds, StartPrune(selected)
  PROVE  Kept
<1> DEFINE gone == Taken(selected)
<1>1. /\ op.pc = "idle" /\ UNCHANGED <<disk, handoffs, listed>> /\ Untouched
      /\ named' = [s \in StateIds |-> IF s \in gone THEN NotNamed ELSE named[s]]
      /\ op' = [Begin("prune") EXCEPT !.pc = "prune", !.batch = {Entry(s) : s \in gone}]
  BY DEF StartPrune, At
<1>2. /\ op.obj = NoObject /\ op.raw = NoObject /\ op.export = NoObject /\ op.batch = {}
      /\ op.token = NoToken /\ \A t \in Tokens : handoffs[t].use # "reserved"
  BY <1>1, SentinelsAssumption
  DEF IInv, TypeOK, Ops, Shape, OpShape, WorkShape, TokenShape, KindsAt
<1>3. gone \subseteq StateIds /\ \A s \in gone : named[s] # NotNamed
  BY DEF Taken, NamedIds
<1>4. \A s \in gone : /\ Entry(s) \in [sid : StateIds, obj : Objects, persisted : BOOLEAN,
                                       expired : BOOLEAN]
                      /\ Entry(s).sid = s /\ Entry(s).obj = named[s].obj
                      /\ NamedAs(named[s].obj)
  BY <1>3 DEF Entry, IInv, TypeOK, Named, NamedAs
<1> HIDE DEF gone
<1>5. /\ op' \in Ops /\ op'.kind = "prune" /\ op'.pc = "prune" /\ op'.sid = NoState
      /\ op'.obj = NoObject /\ op'.raw = NoObject /\ op'.export = NoObject
      /\ op'.token = NoToken /\ op'.record = NoToken
      /\ op'.batch = {Entry(s) : s \in gone} /\ op'.picked = {}
  <2>1. {Entry(s) : s \in gone} \in SUBSET [sid : StateIds, obj : Objects, persisted : BOOLEAN,
                                            expired : BOOLEAN]
    BY <1>4
  <2> DEFINE taken == {Entry(s) : s \in gone}
  <2>2. op' = [Begin("prune") EXCEPT !.pc = "prune", !.batch = taken]
    BY <1>1
  <2> HIDE DEF taken
  <2>3. taken \in SUBSET [sid : StateIds, obj : Objects, persisted : BOOLEAN, expired : BOOLEAN]
    BY <2>1 DEF taken
  <2>4. /\ op' \in Ops /\ op'.kind = "prune" /\ op'.pc = "prune" /\ op'.sid = NoState
        /\ op'.obj = NoObject /\ op'.raw = NoObject /\ op'.export = NoObject
        /\ op'.token = NoToken /\ op'.record = NoToken /\ op'.batch = taken /\ op'.picked = {}
    BY <2>2, <2>3 DEF Begin, Idle, Ops
  <2> QED BY <2>4 DEF taken
<1>6. /\ named' \in [StateIds -> Named \cup {NotNamed}]
      /\ \A s \in gone : named'[s] = NotNamed
      /\ \A s \in StateIds \ gone : named'[s] = named[s]
  BY <1>1, <1>3 DEF IInv, TypeOK
<1>7. \A o \in Objects : InBatch(o)' <=> \E s \in gone : named[s].obj = o
  BY <1>4, <1>5 DEF InBatch
<1>8. \A o \in Objects : NamedAs(o)' <=> NamedAs(o) /\ ~InBatch(o)'
  BY <1>3, <1>6, <1>7 DEF NamedAs, IInv, Shape, NameShape
<1>9. \A o \in Objects : RecordOf(o)' <=> RecordOf(o)
  BY <1>1 DEF RecordOf
<1>10. \A o \in Objects : Owned(o)' <=> Owned(o)
  BY <1>1, <1>2, <1>3, <1>5, <1>7, <1>8, <1>9, SentinelsAssumption DEF Owned, NamedAs, InBatch
<1>11. Ledger' /\ ~Creates
  BY <1>1, <1>2, <1>5, <1>10, NothingDropped
<1>12. TypeOK'
  BY <1>1, <1>5, <1>6 DEF IInv, TypeOK, Untouched
<1>13. NameShape'
  <2>1. \A e \in op'.batch : named'[e.sid] = NotNamed /\ ~NamedAs(e.obj)'
    <3>1. ASSUME NEW e \in op'.batch
          PROVE  named'[e.sid] = NotNamed /\ ~NamedAs(e.obj)'
      <4>1. PICK s \in gone : e = Entry(s)
        BY <1>5
      <4>2. e.sid = s /\ e.obj \in Objects
        BY <1>4, <4>1
      <4>3. InBatch(e.obj)'
        BY DEF InBatch
      <4> QED BY <1>6, <1>8, <4>2, <4>3
    <3> QED BY <3>1
  <2>2. \A e, f \in op'.batch : e.sid = f.sid \/ e.obj = f.obj => e = f
    <3>1. \A r, s \in gone : named[r].obj = named[s].obj => r = s
      BY <1>3 DEF IInv, Shape, NameShape
    <3> QED BY <1>4, <1>5, <3>1
  <2>3. \A r, s \in StateIds :
          named'[r] # NotNamed /\ named'[s] # NotNamed /\ named'[r].obj = named'[s].obj => r = s
    BY <1>6 DEF IInv, Shape, NameShape
  <2> QED BY <2>1, <2>2, <2>3 DEF NameShape
<1>14. OpShape'
  BY <1>1, <1>2, <1>5, SentinelsAssumption
  DEF IInv, TypeOK, Ops, Shape, KindsAt, Creators, OpShape
<1>15. WorkShape'
  BY <1>1, <1>2, <1>5, SentinelsAssumption
  DEF IInv, TypeOK, Ops, Shape, KindsAt, Creators, OpShape, WorkShape
<1>16. ExportShape'
  BY <1>1, <1>2, <1>5, SentinelsAssumption
  DEF IInv, TypeOK, Ops, Shape, KindsAt, Creators, OpShape, ExportShape
<1>17. TokenShape'
  BY <1>1, <1>2, <1>5, SentinelsAssumption DEF TokenShape
<1>18. TaintShape'
  BY <1>1, <1>2, <1>5, SentinelsAssumption
  DEF IInv, TypeOK, Ops, Shape, KindsAt, Creators, OpShape, TaintShape, Untouched
<1> QED BY <1>11, <1>12, <1>13, <1>14, <1>15, <1>16, <1>17, <1>18 DEF Kept, IInv, Shape

LEMMA PruneOneKeeps ==
  ASSUME IInv, NEW e \in op.batch, PruneOne(e)
  PROVE  Kept
<1>1. op.pc = "prune" /\ UNCHANGED <<disk, handoffs, listed>>
  BY DEF PruneOne, At
<1>2. /\ op.obj = NoObject /\ op.raw = NoObject /\ op.export = NoObject /\ op.token = NoToken
      /\ op.kind = "prune" /\ \A t \in Tokens : handoffs[t].use # "reserved"
  BY <1>1, SentinelsAssumption
  DEF IInv, TypeOK, Ops, Shape, OpShape, WorkShape, TokenShape, KindsAt
<1>3. /\ \A x \in op.batch : /\ x.sid \in StateIds /\ x.obj \in Objects
                             /\ x.persisted \in BOOLEAN /\ x.expired \in BOOLEAN
                             /\ named[x.sid] = NotNamed /\ ~NamedAs(x.obj)
      /\ \A x, y \in op.batch : x.sid = y.sid \/ x.obj = y.obj => x = y
  BY DEF IInv, TypeOK, Ops, Shape, NameShape
<1>4. \A o \in Objects : RecordOf(o)' <=> RecordOf(o)
  BY <1>1 DEF RecordOf
<1>5. ASSUME op' = [op EXCEPT !.batch = @ \ {e}], UNCHANGED named,
             IF Shared(e.obj) THEN Untouched ELSE Release(e.obj)
      PROVE  Kept
  <2> DEFINE r == e.obj
  <2>1. /\ op' \in Ops /\ op'.batch = op.batch \ {e}
        /\ UNCHANGED <<op.kind, op.pc, op.sid, op.obj, op.raw, op.export, op.token, op.record, op.picked>>
    BY <1>5 DEF IInv, TypeOK, Ops
  <2>2. NameShape' /\ \A o \in Objects : NamedAs(o)' <=> NamedAs(o)
    <3>1. \A o \in Objects : NamedAs(o)' <=> NamedAs(o)
      BY <1>5 DEF NamedAs
    <3>2. NameShape'
      BY <1>5, <2>1, FewerNames
    <3> QED BY <3>1, <3>2
  <2>3. r \in Objects /\ status[r] = "leased"
    BY <1>3 DEF IInv, Ledger, Owned, InBatch
  <2>4. Shared(r) <=> r \in listed \/ RecordOf(r)
    BY DEF Shared, RecordOf, Records
  <2>5. \A o \in Objects : InBatch(o)' <=> InBatch(o) /\ o # r
    BY <1>3, <2>1 DEF InBatch
  <2>6. \A o \in Objects : Owned(o)' <=> Owned(o) /\ (o # r \/ Shared(r))
    <3>1. ~NamedAs(r) /\ op.obj # r /\ op.export # r
      BY <1>2, <1>3, <2>3, SentinelsAssumption
    <3> HIDE DEF r
    <3> QED BY <1>1, <1>4, <2>1, <2>2, <2>4, <2>5, <3>1 DEF Owned
  <2>7. TypeOK' /\ Ledger' /\ ~Creates /\ UNCHANGED <<latched, tainted>>
    <3>1. CASE Shared(r)
      <4>1. Untouched
        BY <1>5, <3>1
      <4>2. Ledger' /\ ~Creates
        BY <2>1, <2>6, <3>1, <4>1, NothingDropped
      <4> QED BY <1>1, <1>5, <2>1, <4>1, <4>2 DEF Untouched, IInv, TypeOK
    <3>2. CASE ~Shared(r)
      <4>1. Release(r)
        BY <1>5, <3>2
      <4>2. \A o \in Objects : Owned(o)' <=> Owned(o) /\ o # r
        BY <2>6, <3>2
      <4> HIDE DEF r
      <4>3. Ledger' /\ ~Creates
        BY <2>1, <2>3, <4>1, <4>2, LeaseReleased
      <4> QED BY <1>1, <1>5, <2>1, <2>3, <4>1, <4>3
              DEF Release, IInv, TypeOK, Statuses, Accounts
    <3> QED BY <3>1, <3>2
  <2>8. OpShape'
    BY <1>1, <1>2, <1>5, <2>1, <2>2, <2>7, SentinelsAssumption
    DEF IInv, TypeOK, Ops, Shape, KindsAt, Creators, OpShape
  <2>9. WorkShape'
    BY <1>1, <1>2, <1>5, <2>1, <2>2, <2>7, SentinelsAssumption
    DEF IInv, TypeOK, Ops, Shape, KindsAt, Creators, OpShape, WorkShape
  <2>10. ExportShape'
    BY <1>1, <1>2, <1>5, <2>1, <2>2, <2>7, SentinelsAssumption
    DEF IInv, TypeOK, Ops, Shape, KindsAt, Creators, OpShape, ExportShape
  <2>11. TokenShape'
    BY <1>1, <1>2, <1>5, <2>1, <2>2, <2>7, SentinelsAssumption
    DEF IInv, TypeOK, Ops, Shape, KindsAt, Creators, OpShape, TokenShape
  <2>12. TaintShape'
    BY <1>1, <1>2, <1>5, <2>1, <2>2, <2>7, SentinelsAssumption
    DEF IInv, TypeOK, Ops, Shape, KindsAt, Creators, OpShape, TaintShape
  <2> QED BY <2>2, <2>7, <2>8, <2>9, <2>10, <2>11, <2>12 DEF Kept, IInv, Shape
<1>6. ASSUME named' = Returned(op.batch), op' = Idle, Untouched
      PROVE  Kept
  <2>1. op' \in Ops /\ OpShape' /\ WorkShape' /\ ExportShape'
    BY <1>6, IdleShape
  <2>2. /\ op'.kind = "none" /\ op'.pc = "idle" /\ op'.obj = NoObject /\ op'.raw = NoObject
        /\ op'.export = NoObject /\ op'.batch = {} /\ op'.token = NoToken
    BY <1>6 DEF Idle
  <2>3. \A s \in StateIds :
          \/ named'[s] = named[s] /\ \A x \in op.batch : x.sid # s
          \/ \E x \in op.batch :
               /\ x.sid = s
               /\ named'[s] = [obj |-> x.obj, persisted |-> x.persisted, expired |-> x.expired]
    BY <1>6 DEF Returned
  <2>4. \A s \in StateIds :
          \/ named'[s] = named[s] /\ \A x \in op.batch : x.sid # s
          \/ \E x \in op.batch : /\ x.sid = s /\ named'[s] \in Named
                                 /\ named'[s] # NotNamed /\ named'[s].obj = x.obj
    <3>1. \A x \in op.batch :
            LET n == [obj |-> x.obj, persisted |-> x.persisted, expired |-> x.expired]
            IN  n \in Named /\ n # NotNamed /\ n.obj = x.obj
      BY <1>3, SentinelsAssumption DEF Named, NotNamed
    <3>2. ASSUME NEW s \in StateIds, NEW x \in op.batch, x.sid = s,
                 named'[s] = [obj |-> x.obj, persisted |-> x.persisted, expired |-> x.expired]
          PROVE  named'[s] \in Named /\ named'[s] # NotNamed /\ named'[s].obj = x.obj
      BY <3>1, <3>2
    <3> QED BY <2>3, <3>2
  <2>5. named' \in [StateIds -> Named \cup {NotNamed}]
    BY <1>6, <2>4 DEF Returned, IInv, TypeOK
  <2>6. \A o \in Objects : NamedAs(o)' <=> NamedAs(o) \/ InBatch(o)
    BY <1>3, <2>4 DEF NamedAs, InBatch
  <2>7. NameShape'
    <3>1. ASSUME NEW r \in StateIds, NEW s \in StateIds, named'[r] # NotNamed,
                 named'[s] # NotNamed, named'[r].obj = named'[s].obj
          PROVE  r = s
      <4>1. CASE named'[r] = named[r] /\ named'[s] = named[s]
        BY <3>1, <4>1 DEF IInv, Shape, NameShape
      <4>2. CASE \E x \in op.batch : x.sid = r /\ named'[r].obj = x.obj
        <5>1. PICK x \in op.batch : x.sid = r /\ named'[r].obj = x.obj
          BY <4>2
        <5>2. ASSUME named'[s] = named[s] PROVE FALSE
          <6>1. NamedAs(x.obj)
            BY <3>1, <5>1, <5>2 DEF NamedAs
          <6> QED BY <1>3, <6>1
        <5>3. PICK y \in op.batch : y.sid = s /\ named'[s].obj = y.obj
          BY <2>4, <5>2
        <5>4. x = y
          BY <1>3, <3>1, <5>1, <5>3
        <5> QED BY <5>1, <5>3, <5>4
      <4>3. CASE \E x \in op.batch : x.sid = s /\ named'[s].obj = x.obj
        <5>1. PICK x \in op.batch : x.sid = s /\ named'[s].obj = x.obj
          BY <4>3
        <5>2. ASSUME named'[r] = named[r] PROVE FALSE
          <6>1. NamedAs(x.obj)
            BY <3>1, <5>1, <5>2 DEF NamedAs
          <6> QED BY <1>3, <6>1
        <5>3. PICK y \in op.batch : y.sid = r /\ named'[r].obj = y.obj
          BY <2>4, <5>2
        <5>4. x = y
          BY <1>3, <3>1, <5>1, <5>3
        <5> QED BY <5>1, <5>3, <5>4
      <4> QED BY <2>4, <4>1, <4>2, <4>3
    <3> QED BY <2>2, <3>1 DEF NameShape
  <2>8. \A o \in Objects : Owned(o)' <=> Owned(o)
    <3>1. \A o \in Objects : ~InBatch(o)' /\ op.obj # o /\ op.export # o /\ op'.obj # o /\ op'.export # o
      BY <1>2, <2>2, SentinelsAssumption DEF InBatch
    <3> QED BY <1>1, <1>4, <2>6, <3>1 DEF Owned
  <2>9. Ledger' /\ ~Creates
    BY <1>2, <1>6, <2>2, <2>8, NothingDropped
  <2>10. TypeOK'
    BY <1>1, <1>6, <2>1, <2>5 DEF IInv, TypeOK, Untouched
  <2>11. TokenShape'
    BY <1>1, <1>2, <2>2, SentinelsAssumption DEF TokenShape
  <2>12. TaintShape'
    BY <1>6, <2>2 DEF TaintShape, IInv, Shape, Untouched
  <2> QED BY <2>1, <2>7, <2>9, <2>10, <2>11, <2>12 DEF Kept, IInv, Shape
<1> QED BY <1>5, <1>6 DEF PruneOne

-----------------------------------------------------------------------------
(* The theorems.                                                           *)

LEMMA InitHolds == Init => IInv
<1> SUFFICES ASSUME Init PROVE IInv
  OBVIOUS
<1>1. /\ op.kind = "none" /\ op.pc = "idle" /\ op.obj = NoObject /\ op.raw = NoObject
      /\ op.export = NoObject /\ op.batch = {} /\ op.token = NoToken /\ op \in Ops
  BY DEF Init, Idle, Ops
<1>2. /\ \A s \in StateIds : named[s] = NotNamed
      /\ \A t \in Tokens : handoffs[t].use = "free"
      /\ listed = {} /\ ~latched /\ ~tainted
      /\ \A o \in Objects : status[o] = "free" /\ account[o] = "none"
  BY DEF Init, FreeToken
<1>3. TypeOK
  BY <1>1 DEF Init, TypeOK, Statuses, Accounts
<1>4. \A o \in Objects : ~NamedAs(o) /\ ~RecordOf(o) /\ ~Owned(o)
  BY <1>1, <1>2, SentinelsAssumption DEF NamedAs, RecordOf, Owned, InBatch
<1>5. Ledger
  BY <1>1, <1>2, <1>4, SentinelsAssumption DEF Ledger
<1>6. OpShape /\ WorkShape /\ ExportShape
  BY <1>1 DEF OpShape, WorkShape, ExportShape, KindsAt
<1>7. NameShape
  BY <1>1, <1>2 DEF NameShape
<1>8. TokenShape
  BY <1>1, <1>2, SentinelsAssumption DEF TokenShape
<1>9. TaintShape
  BY <1>1, <1>2 DEF TaintShape
<1> QED BY <1>3, <1>5, <1>6, <1>7, <1>8, <1>9 DEF IInv, Shape

LEMMA StutterKeeps ==
  ASSUME IInv, UNCHANGED vars
  PROVE  Kept
<1>1. TypeOK' /\ ~Creates
  BY DEF vars, IInv, TypeOK, Creates
<1>2. \A o \in Objects : /\ NamedAs(o)' <=> NamedAs(o)
                         /\ RecordOf(o)' <=> RecordOf(o)
                         /\ Owned(o)' <=> Owned(o)
  BY DEF vars, NamedAs, RecordOf, Owned, InBatch
<1>3. Ledger'
  BY <1>2 DEF vars, IInv, Ledger
<1>4. Shape'
  BY DEF vars, IInv, Shape, OpShape, WorkShape, NameShape, ExportShape, TokenShape, TaintShape,
         NamedAs, RecordOf
<1> QED BY <1>1, <1>3, <1>4 DEF Kept, IInv

LEMMA NextKeeps ==
  ASSUME IInv, [Next]_vars
  PROVE  Kept
<1>1. CASE PrefillStep
  BY <1>1, StartPrefillKeeps, FindReuseKeeps, RevalidateKeeps, UseReusedKeeps, FindStoredKeeps,
     RetainPrefillStateKeeps, ClearExpiredKeeps, InsertVolatileKeeps, IssueHandoffKeeps
  DEF PrefillStep
<1>2. CASE DecodeStep
  BY <1>2, StartDecodeKeeps, TakeHandoffKeeps, DecodeRecordKeeps, DecodeWithoutStateKeeps,
     DropRecordKeeps DEF DecodeStep
<1>3. CASE PersistStep
  BY <1>3, SnapshotStateKeeps, CommitToDiskKeeps, CommitFailsKeeps, FallBackKeeps,
     ConfirmPersistedKeeps DEF PersistStep
<1>4. CASE MemoryStep
  BY <1>4, ReserveMemoryKeeps, ReserveAgainKeeps, CreateStateKeeps, CommitBackendMemoryKeeps,
     CleanupRejectedKeeps, FailedKeeps, RelieveEvictKeeps, RelieveDemoteKeeps DEF MemoryStep
<1>5. CASE ActionStep
  BY <1>5, StartActionKeeps, EvictKeeps, RemoveFromDiskKeeps, DemoteToDiskKeeps,
     DropDemotedKeeps, MoveStateKeeps, SwapMovedKeeps, PromoteFromDiskKeeps DEF ActionStep
<1>6. CASE PruneStep
  BY <1>6, StartPruneKeeps, PruneOneKeeps, PruneDiskKeeps DEF PruneStep
<1>7. CASE Environment
  BY <1>7, StartListingKeeps, EndListingKeeps, StateExpiresKeeps, HandoffExpiresKeeps
  DEF Environment
<1>8. CASE Unhealthy \/ Fail
  BY <1>8, UnhealthyKeeps, FailKeeps
<1>9. CASE UNCHANGED vars
  BY <1>9, StutterKeeps
<1> QED BY <1>1, <1>2, <1>3, <1>4, <1>5, <1>6, <1>7, <1>8, <1>9 DEF Next, Operation

(* The inductive invariant holds throughout.                               *)
THEOREM Invariance == Spec => []IInv
<1>1. IInv /\ [Next]_vars => IInv'
  BY NextKeeps DEF Kept
<1> QED BY InitHolds, <1>1, PTL DEF Spec

(* The control plane's variables keep their types, whatever the number of  *)
(* names, tokens and backend states.                                       *)
THEOREM TypeCorrect == Spec => []TypeOK
<1>1. IInv => TypeOK
  BY DEF IInv
<1> QED BY Invariance, <1>1, PTL

(* No owner ever finds its backend state released: not the name, not the   *)
(* handoff, not a listing that cloned the lease before an eviction, a      *)
(* prune, a demotion or a relief (release_volatile_state,                  *)
(* BackendStateLeaseInner::drop).                                          *)
THEOREM LeasesStayLive == Spec => []LeasesLive
<1>1. IInv => LeasesLive
  <2> SUFFICES ASSUME IInv PROVE \A o \in Owners : status[o] = "leased"
    BY DEF LeasesLive
  <2>1. Owners \subseteq Objects
    BY NamedIsSome DEF IInv, TypeOK, Ops, Owners, NamedObjects, NamedIds, Records, OwnLeases,
                       FreeToken, ReservedToken
  <2> QED BY <2>1, OwnersAre DEF IInv, Ledger
<1> QED BY Invariance, <1>1, PTL

(* No backend state is ever left without an owner, and none leaves the     *)
(* memory account before its release is confirmed, whichever step of an    *)
(* operation fails (cleanup_rejected_backend_state, local_backend_lease).  *)
THEOREM NothingIsLeaked == Spec => []NothingLeaks
<1>1. IInv => NothingLeaks
  <2> SUFFICES ASSUME IInv PROVE NothingLeaks
    OBVIOUS
  <2>1. \A o \in Objects : /\ status[o] = "leased" => o \in Owners
                           /\ status[o] = "raw" => op.raw = o
                           /\ status[o] = "lost" => latched /\ account[o] # "held"
                           /\ account[o] = "held" => status[o] = "leased"
    BY OwnersAre DEF IInv, Ledger
  <2>2. \A o \in Objects : NamedAs(o) \/ RecordOf(o) => account[o] = "held"
    BY DEF IInv, Ledger, Owned, Shape, ExportShape
  <2>3. ASSUME NEW s \in NamedIds PROVE account[named[s].obj] = "held"
    <3>1. named[s].obj \in Objects /\ NamedAs(named[s].obj)
      BY NamedIsSome DEF NamedIds, NamedAs, IInv, TypeOK
    <3> QED BY <2>2, <3>1
  <2>4. ASSUME NEW t \in Records PROVE account[handoffs[t].obj] = "held"
    <3>1. handoffs[t].obj \in Objects /\ RecordOf(handoffs[t].obj)
      BY DEF Records, RecordOf, IInv, TypeOK, FreeToken, ReservedToken
    <3> QED BY <2>2, <3>1
  <2> QED BY <2>1, <2>3, <2>4 DEF NothingLeaks
<1> QED BY Invariance, <1>1, PTL

(* An operation that could not release a lease of its own asks the adapter *)
(* for no further state: between every drop and every creation the latch   *)
(* is read (ensure_backend_cleanup_healthy).                               *)
THEOREM FailedCleanupStops == Spec => NoWorkAfterFailedCleanup
<1>1. IInv /\ [Next]_vars => [Creates => ~tainted]_vars
  BY NextKeeps DEF Kept
<1> QED BY Invariance, <1>1, PTL DEF Spec, NoWorkAfterFailedCleanup

-----------------------------------------------------------------------------
(* The limit on handoffs.                                                  *)
Bound == IsFiniteSet(TokensIn(handoffs)) /\ Cardinality(TokensIn(handoffs)) <= MaxHandoffs

(* What a step does to the places that are taken: it frees some, or takes  *)
(* one where there is room, or takes one for the record it consumes.       *)
PlacesFreed == TokensIn(handoffs)' \subseteq TokensIn(handoffs)
PlaceTaken == HasRoom(Live) /\ \E t \in Tokens : TokensIn(handoffs)' \subseteq TokensIn(Live) \cup {t}
PlaceMoved == \E r \in TokensIn(Live), t \in Tokens :
                TokensIn(handoffs)' \subseteq (TokensIn(Live) \ {r}) \cup {t}

LEMMA LivePlaces == TokensIn(Live) \subseteq TokensIn(handoffs)
BY DEF TokensIn, Live

LEMMA FinishFrees == Finish => PlacesFreed
BY DEF Finish, Unreserved, PlacesFreed, TokensIn

LEMMA PrefillTakes == ASSUME IInv, StartPrefill PROVE PlacesFreed \/ PlaceTaken
<1>1. CASE HasRoom(Live)
  <2>1. PICK t \in Tokens : handoffs' = [Live EXCEPT ![t] = ReservedToken]
    BY <1>1 DEF StartPrefill
  <2>2. TokensIn(handoffs)' \subseteq TokensIn(Live) \cup {t}
    BY <2>1, LiveIs DEF TokensIn, IInv
  <2> QED BY <1>1, <2>2 DEF PlaceTaken
<1>2. CASE ~HasRoom(Live)
  <2>1. handoffs' = Live
    BY <1>2 DEF StartPrefill
  <2> QED BY <2>1, LivePlaces DEF PlacesFreed, TokensIn
<1> QED BY <1>1, <1>2

LEMMA DecodeMoves == ASSUME IInv, TakeHandoff PROVE PlacesFreed \/ PlaceMoved
<1>1. CASE Live[op.record] = FreeToken
  <2>1. handoffs' = Live
    BY <1>1 DEF TakeHandoff
  <2> QED BY <2>1, LivePlaces DEF PlacesFreed, TokensIn
<1>2. CASE Live[op.record] # FreeToken
  <2>1. PICK t \in Tokens \ TokensIn(handoffs) :
          handoffs' = [Live EXCEPT ![op.record] = FreeToken, ![t] = ReservedToken]
    BY <1>2 DEF TakeHandoff
  <2>2. op.record \in Tokens
    BY DEF TakeHandoff, At, IInv, Shape, TokenShape
  <2>3. op.record \in TokensIn(Live)
    BY <1>2, <2>2 DEF TokensIn
  <2>4. TokensIn(handoffs)' \subseteq (TokensIn(Live) \ {op.record}) \cup {t}
    BY <2>1, <2>2, LiveIs DEF TokensIn, IInv
  <2> QED BY <2>3, <2>4 DEF PlaceMoved
<1> QED BY <1>1, <1>2

LEMMA DecodeLooks == ASSUME NEW t \in Tokens, StartDecode(t) PROVE PlacesFreed
<1>1. handoffs' = Live
  BY DEF StartDecode
<1> QED BY <1>1, LivePlaces DEF PlacesFreed, TokensIn

LEMMA HandoffIssued == ASSUME IInv, IssueHandoff PROVE PlacesFreed
<1>1. handoffs' = [handoffs EXCEPT ![op.token] = Handoff(op.obj)]
  BY DEF IssueHandoff
<1>2. op.token \in Tokens /\ handoffs[op.token].use = "reserved"
  BY DEF IssueHandoff, At, IInv, TypeOK, Ops, Shape, OpShape, TokenShape, KindsAt
<1>3. op.token \in TokensIn(handoffs)
  BY <1>2 DEF TokensIn, FreeToken
<1> QED BY <1>1, <1>3 DEF PlacesFreed, TokensIn, IInv, TypeOK

LEMMA HandoffGoesStale == ASSUME IInv, NEW t \in Tokens, HandoffExpires(t) PROVE PlacesFreed
<1>1. handoffs' = [handoffs EXCEPT ![t].expired = TRUE] /\ handoffs[t].use = "record"
  BY DEF HandoffExpires
<1>2. t \in TokensIn(handoffs)
  BY <1>1 DEF TokensIn, FreeToken
<1> QED BY <1>1, <1>2 DEF PlacesFreed, TokensIn, IInv, TypeOK

LEMMA HandoffsChange ==
  ASSUME IInv, [Next]_vars
  PROVE  PlacesFreed \/ PlaceTaken \/ PlaceMoved
<1>1. handoffs' = handoffs => PlacesFreed
  BY DEF PlacesFreed, TokensIn
<1>2. CASE PrefillStep
  BY <1>1, <1>2, FinishFrees, PrefillTakes, HandoffIssued
  DEF PrefillStep, FindReuse, Revalidate, UseReused, FindStored, RetainPrefillState, ClearExpired,
      InsertVolatile
<1>3. CASE DecodeStep
  BY <1>1, <1>3, FinishFrees, DecodeLooks, DecodeMoves
  DEF DecodeStep, DecodeRecord, DecodeWithoutState, DropRecord
<1>4. CASE PersistStep
  BY <1>1, <1>4, FinishFrees
  DEF PersistStep, SnapshotState, CommitToDisk, CommitFails, FallBack, ConfirmPersisted
<1>5. CASE MemoryStep
  BY <1>1, <1>5, FinishFrees
  DEF MemoryStep, ReserveMemory, ReserveAgain, CreateState, CommitBackendMemory, CleanupRejected,
      Failed, RelieveEvict, RelieveDemote
<1>6. CASE ActionStep
  BY <1>1, <1>6, FinishFrees
  DEF ActionStep, StartAction, Evict, RemoveFromDisk, DemoteToDisk, DropDemoted, MoveState,
      SwapMoved, PromoteFromDisk
<1>7. CASE PruneStep
  BY <1>1, <1>7 DEF PruneStep, StartPrune, PruneOne, PruneDisk
<1>8. CASE Environment
  BY <1>1, <1>8, HandoffGoesStale DEF Environment, StartListing, EndListing, StateExpires
<1>9. CASE Unhealthy \/ Fail
  BY <1>9, FinishFrees DEF Unhealthy, Fail
<1>10. CASE UNCHANGED vars
  BY <1>1, <1>10 DEF vars
<1> QED BY <1>2, <1>3, <1>4, <1>5, <1>6, <1>7, <1>8, <1>9, <1>10 DEF Next, Operation

LEMMA BoundKept ==
  ASSUME IInv, Bound, [Next]_vars
  PROVE  Bound'
<1> DEFINE now == TokensIn(handoffs)
           live == TokensIn(Live)
           next == TokensIn(handoffs)'
<1>1. /\ IsFiniteSet(now) /\ Cardinality(now) \in Nat /\ Cardinality(now) <= MaxHandoffs
      /\ live \subseteq now
  BY LivePlaces, FS_CardinalityType DEF Bound
<1>2. IsFiniteSet(live) /\ Cardinality(live) \in Nat /\ Cardinality(live) <= MaxHandoffs
  <2> HIDE DEF now, live
  <2> QED BY <1>1, FS_Subset, FS_CardinalityType, CapacityAssumption
<1>3. ASSUME NEW S, next \subseteq S, IsFiniteSet(S), Cardinality(S) <= MaxHandoffs
      PROVE  Bound'
  <2>1. /\ IsFiniteSet(next) /\ Cardinality(next) \in Nat /\ Cardinality(S) \in Nat
        /\ Cardinality(next) <= Cardinality(S)
    <3> HIDE DEF next
    <3> QED BY <1>3, FS_Subset, FS_CardinalityType
  <2>2. Cardinality(next) <= MaxHandoffs
    <3> HIDE DEF next
    <3> QED BY <1>3, <2>1, CapacityAssumption
  <2> QED BY <2>1, <2>2 DEF Bound
<1>4. CASE PlacesFreed
  BY <1>1, <1>3, <1>4 DEF PlacesFreed
<1>5. CASE PlaceTaken
  <2>1. PICK t \in Tokens : next \subseteq live \cup {t}
    BY <1>5 DEF PlaceTaken
  <2>2. Cardinality(live) < MaxHandoffs
    BY <1>5 DEF PlaceTaken, HasRoom
  <2> HIDE DEF live, next
  <2>3. /\ IsFiniteSet(live \cup {t})
        /\ Cardinality(live \cup {t}) = IF t \in live THEN Cardinality(live) ELSE Cardinality(live)+1
    BY <1>2, FS_AddElement
  <2>4. Cardinality(live \cup {t}) \in Nat
    BY <2>3, FS_CardinalityType
  <2>5. Cardinality(live \cup {t}) <= MaxHandoffs
    BY <1>2, <2>2, <2>3, <2>4, CapacityAssumption
  <2> QED BY <1>3, <2>1, <2>3, <2>5
<1>6. CASE PlaceMoved
  <2>1. PICK r \in live, t \in Tokens : next \subseteq (live \ {r}) \cup {t}
    BY <1>6 DEF PlaceMoved
  <2> DEFINE rest == live \ {r}
  <2> HIDE DEF live, next
  <2>2. IsFiniteSet(rest) /\ Cardinality(rest) = Cardinality(live) - 1
    BY <1>2, FS_RemoveElement
  <2>3. Cardinality(rest) \in Nat
    BY <2>2, FS_CardinalityType
  <2> HIDE DEF rest
  <2>4. /\ IsFiniteSet(rest \cup {t})
        /\ Cardinality(rest \cup {t}) = IF t \in rest THEN Cardinality(rest) ELSE Cardinality(rest)+1
    BY <2>2, <2>3, FS_AddElement
  <2>5. Cardinality(rest \cup {t}) \in Nat
    BY <2>4, FS_CardinalityType
  <2>6. Cardinality(rest \cup {t}) <= MaxHandoffs
    BY <1>2, <2>2, <2>3, <2>4, <2>5, CapacityAssumption
  <2>7. next \subseteq rest \cup {t}
    BY <2>1 DEF rest
  <2> QED BY <1>3, <2>4, <2>6, <2>7
<1> QED BY <1>4, <1>5, <1>6, HandoffsChange

(* Records and reservations never exceed the limit, and every reservation  *)
(* is the operation's that is under way: a failed prefill or decode gives  *)
(* its place back (HandoffRegistry::reserve, take_with_replacement).       *)
THEOREM ReservationsAreHeld == Spec => []ReservationsHeld
<1>1. Init => Bound
  <2> SUFFICES ASSUME Init PROVE Bound
    OBVIOUS
  <2>1. TokensIn(handoffs) = {}
    BY DEF Init, TokensIn
  <2> QED BY <2>1, FS_EmptySet, CapacityAssumption DEF Bound
<1>2. IInv /\ Bound /\ [Next]_vars => IInv' /\ Bound'
  BY NextKeeps, BoundKept DEF Kept
<1>3. IInv /\ Bound => ReservationsHeld
  BY DEF IInv, Bound, Shape, TokenShape, ReservationsHeld
<1> QED BY InitHolds, <1>1, <1>2, <1>3, PTL DEF Spec

-----------------------------------------------------------------------------
(* Why a state leaves its name.                                            *)

(* A demotion that is about to give up the state has its copy on disk.     *)
OnDisk == op.pc \in {"confirm", "drop"} => op.sid \in disk

Confirming == op'.pc \in {"confirm", "drop"}

LEMMA FinishConfirmsNothing == Finish => ~Confirming
BY DEF Finish, Confirming, Idle

LEMMA WhoConfirms ==
  ASSUME op \in Ops, [Next]_vars, Confirming
  PROVE  \/ op' = op /\ disk' = disk
         \/ DemoteToDisk \/ ConfirmPersisted \/ CommitToDisk
<1>1. CASE PrefillStep
  <2>1. CASE StartPrefill
    BY <2>1 DEF StartPrefill, Begin, Idle, Confirming, At
  <2>2. CASE FindReuse
    BY <2>2 DEF FindReuse, Goto, Ops, Confirming
  <2>3. CASE Revalidate \/ InsertVolatile
    BY <2>3, FinishConfirmsNothing DEF Revalidate, InsertVolatile, Goto, Idle, Ops, Confirming
  <2>4. CASE UseReused \/ FindStored
    BY <2>4 DEF UseReused, FindStored, Goto, Ops, Confirming
  <2>5. CASE RetainPrefillState
    BY <2>5 DEF RetainPrefillState, Goto, Ops, Confirming
  <2>6. CASE ClearExpired \/ IssueHandoff
    <3>1. op' = [op EXCEPT !.pc = "insert"] \/ op' = Idle
      BY <2>6 DEF ClearExpired, IssueHandoff, Goto
    <3> QED BY <3>1 DEF Idle, Ops, Confirming
  <2> QED BY <1>1, <2>1, <2>2, <2>3, <2>4, <2>5, <2>6 DEF PrefillStep
<1>2. CASE DecodeStep
  <2>1. CASE \E t \in Tokens : StartDecode(t)
    BY <2>1 DEF StartDecode, Begin, Idle, Confirming
  <2>2. CASE TakeHandoff
    <3>1. op'.pc \in {"idle", "taken"}
      <4>1. CASE op' = Idle
        BY <4>1 DEF Idle
      <4>2. CASE op' # Idle
        <5>1. PICK t \in Tokens : op' = [op EXCEPT !.pc = "taken", !.token = t, !.record = NoToken]
          BY <2>2, <4>2 DEF TakeHandoff
        <5> QED BY <5>1 DEF Ops
      <4> QED BY <4>1, <4>2
    <3> QED BY <3>1 DEF Confirming
  <2>3. CASE DecodeRecord \/ DecodeWithoutState \/ DropRecord
    BY <2>3, FinishConfirmsNothing
    DEF DecodeRecord, DecodeWithoutState, DropRecord, Goto, Ops, Confirming
  <2> QED BY <1>2, <2>1, <2>2, <2>3 DEF DecodeStep
<1>3. CASE PersistStep
  <2>1. CASE SnapshotState
    BY <2>1 DEF SnapshotState, Goto, Ops, Confirming
  <2>2. CASE CommitFails \/ FallBack
    BY <2>2, FinishConfirmsNothing DEF CommitFails, FallBack, Goto, Ops, Confirming
  <2> QED BY <1>3, <2>1, <2>2 DEF PersistStep
<1>4. CASE MemoryStep
  <2>1. CASE ReserveMemory \/ ReserveAgain
    BY <2>1 DEF ReserveMemory, ReserveAgain, Goto, Ops, Confirming
  <2>2. CASE CreateState
    BY <2>2 DEF CreateState, Goto, Ops, Confirming
  <2>3. CASE CommitBackendMemory
    <3>1. AfterCommit \in {"issue", "swap", "retain", "clear"}
      BY DEF AfterCommit
    <3> QED BY <2>3, <3>1 DEF CommitBackendMemory, Ops, Confirming
  <2>4. CASE CleanupRejected \/ Failed
    BY <2>4, FinishConfirmsNothing DEF CleanupRejected, Failed, Ops, Confirming
  <2>5. CASE \E s \in StateIds : RelieveEvict(s) \/ RelieveDemote(s)
    BY <2>5, FinishConfirmsNothing DEF RelieveEvict, RelieveDemote, At, Ops, Confirming
  <2> QED BY <1>4, <2>1, <2>2, <2>3, <2>4, <2>5 DEF MemoryStep
<1>5. CASE ActionStep
  <2>1. CASE \E k \in {"evict", "demote", "move"}, s \in StateIds : StartAction(k, s)
    <3>1. PICK k \in {"evict", "demote", "move"}, s \in StateIds : StartAction(k, s)
      BY <2>1
    <3>2. op'.pc \in {k, "remove", "promote", "idle"}
      BY <3>1 DEF StartAction, Begin, Idle
    <3> QED BY <3>2 DEF Confirming
  <2>2. CASE Evict \/ RemoveFromDisk \/ DropDemoted
    <3>1. op' = [op EXCEPT !.pc = "remove", !.obj = NoObject] \/ op' = Idle
      BY <2>2 DEF Evict, RemoveFromDisk, DropDemoted
    <3>2. op'.pc \in {"remove", "idle"}
      <4>1. CASE op' = Idle
        BY <4>1 DEF Idle
      <4>2. CASE op' = [op EXCEPT !.pc = "remove", !.obj = NoObject]
        BY <4>2 DEF Ops
      <4> QED BY <3>1, <4>1, <4>2
    <3> QED BY <3>2 DEF Confirming
  <2>3. CASE MoveState \/ SwapMoved \/ PromoteFromDisk
    BY <2>3, FinishConfirmsNothing
    DEF MoveState, SwapMoved, PromoteFromDisk, Idle, Goto, Ops, Confirming
  <2> QED BY <1>5, <2>1, <2>2, <2>3 DEF ActionStep
<1>6. CASE PruneStep
  <2>1. CASE \E selected \in SUBSET StateIds : StartPrune(selected)
    <3>1. op'.pc = "prune"
      BY <2>1 DEF StartPrune, Begin, Idle
    <3> QED BY <3>1 DEF Confirming
  <2>2. CASE \E e \in op.batch : PruneOne(e)
    <3>1. op' = Idle \/ (op.pc = "prune" /\ \E e \in op.batch : op' = [op EXCEPT !.batch = @ \ {e}])
      BY <2>2 DEF PruneOne, At
    <3> QED BY <3>1 DEF Idle, Ops, Confirming
  <2>3. CASE \E stored \in SUBSET disk : PruneDisk(stored)
    BY <2>3 DEF PruneDisk, Idle, Confirming
  <2> QED BY <1>6, <2>1, <2>2, <2>3 DEF PruneStep
<1>7. CASE Environment
  BY <1>7 DEF Environment, StartListing, EndListing, StateExpires, HandoffExpires
<1>8. CASE Unhealthy \/ Fail
  BY <1>8, FinishConfirmsNothing DEF Unhealthy, Fail
<1>9. CASE UNCHANGED vars
  BY <1>9 DEF vars
<1> QED BY <1>1, <1>2, <1>3, <1>4, <1>5, <1>6, <1>7, <1>8, <1>9
        DEF Next, Operation, PersistStep, ActionStep

LEMMA OnDiskKept ==
  ASSUME IInv, OnDisk, [Next]_vars
  PROVE  OnDisk'
<1> SUFFICES ASSUME Confirming PROVE op'.sid \in disk'
  BY DEF OnDisk, Confirming
<1>1. op \in Ops
  BY DEF IInv, TypeOK
<1>2. CASE op' = op /\ disk' = disk
  BY <1>2 DEF OnDisk, Confirming
<1>3. CASE DemoteToDisk
  BY <1>1, <1>3 DEF DemoteToDisk, Goto, Ops, Confirming
<1>4. CASE ConfirmPersisted
  BY <1>1, <1>4 DEF ConfirmPersisted, At, Goto, Ops, OnDisk
<1>5. CASE CommitToDisk
  BY <1>1, <1>5 DEF CommitToDisk, Ops
<1> QED BY <1>1, <1>2, <1>3, <1>4, <1>5, WhoConfirms


-----------------------------------------------------------------------------
(* A state stays, or goes for a reason.                                    *)

Present(s) == named[s] # NotNamed \/ \E x \in op.batch : x.sid = s
LeftWithReason(s, e) ==
  /\ e.expired \/ status'[e.obj] = "free" \/ e.obj \in Owners'
  /\ op.kind = "demote" /\ op.sid = s => s \in disk'
KeptOrExplained ==
  \A s \in StateIds : \A e \in StateOf(s) : StateOf(s)' # {} \/ LeftWithReason(s, e)

LEMMA PresentHasState ==
  ASSUME NEW s \in StateIds
  PROVE  /\ StateOf(s) # {} <=> Present(s)
         /\ StateOf(s)' # {} <=> Present(s)'
BY DEF StateOf, Present

LEMMA NoBatch ==
  ASSUME IInv, op.pc # "prune", NEW s \in StateIds, NEW e \in StateOf(s)
  PROVE  named[s] # NotNamed /\ e = named[s] /\ op.batch = {}
BY DEF IInv, Shape, OpShape, StateOf

(* The map has what it had.                                                *)
LEMMA NamesStay ==
  ASSUME IInv, op.pc # "prune",
         \A s \in StateIds : named[s] # NotNamed => named'[s] # NotNamed
  PROVE  KeptOrExplained
BY NoBatch, PresentHasState DEF KeptOrExplained, Present

(* Expired states nobody uses are dropped outside a demotion.              *)
LEMMA ExpiredLeave ==
  ASSUME IInv, op.pc # "prune", op.kind # "demote", named' = Scanned \/ named' = named
  PROVE  KeptOrExplained
<1> SUFFICES ASSUME NEW s \in StateIds, NEW e \in StateOf(s), ~Present(s)'
             PROVE  LeftWithReason(s, e)
  BY PresentHasState DEF KeptOrExplained
<1>1. named[s] # NotNamed /\ e = named[s]
  BY NoBatch
<1>2. named'[s] = NotNamed
  BY DEF Present
<1>3. named[s].expired
  BY <1>1, <1>2, ScannedIs DEF IInv
<1> QED BY <1>1, <1>3 DEF LeftWithReason

(* One name is taken: its state is released or somebody else's.            *)
LEMMA OneLeaves ==
  ASSUME IInv, TypeOK', op.pc # "prune", NEW r \in StateIds, named[r] # NotNamed,
         named' = [named EXCEPT ![r] = NotNamed],
         UNCHANGED <<listed, handoffs>>,
         Shared(named[r].obj) \/ Release(named[r].obj),
         op.kind = "demote" => r \in disk'
  PROVE  KeptOrExplained
<1> SUFFICES ASSUME NEW s \in StateIds, NEW e \in StateOf(s), ~Present(s)'
             PROVE  LeftWithReason(s, e)
  BY PresentHasState DEF KeptOrExplained
<1>1. named[s] # NotNamed /\ e = named[s]
  BY NoBatch
<1>2. s = r
  BY <1>1 DEF Present, IInv, TypeOK
<1>3. e.obj \in Objects
  BY <1>1, NamedIsSome DEF IInv, TypeOK
<1>4. CASE Shared(e.obj)
  <2>1. e.obj \in listed \/ RecordOf(e.obj)
    BY <1>4 DEF Shared, RecordOf, Records
  <2>2. e.obj \in Owners'
    BY <1>3, <2>1, OwnersWillBe DEF Owned, RecordOf
  <2> QED BY <1>2, <2>2 DEF LeftWithReason
<1>5. CASE Release(e.obj)
  <2>1. status'[e.obj] = "free"
    BY <1>3, <1>5 DEF Release, IInv, TypeOK
  <2> QED BY <1>2, <2>1 DEF LeftWithReason
<1> QED BY <1>1, <1>2, <1>4, <1>5

LEMMA FinishKeepsNames == Finish => named' = named
BY DEF Finish

(* Actions of which nothing but the names they touch matters here.         *)
NamesHold == \A s \in StateIds : named[s] # NotNamed => named'[s] # NotNamed

LEMMA SameNamesHold == named' = named => NamesHold
BY DEF NamesHold

LEMMA FlagsHold ==
  ASSUME IInv, NEW r \in StateIds, NEW n \in Named, named' = [named EXCEPT ![r] = n]
  PROVE  NamesHold
BY NamedIsSome DEF NamesHold, IInv, TypeOK

LEMMA RelabelledIsNamed ==
  ASSUME IInv, NEW r \in StateIds, named[r] # NotNamed
  PROVE  /\ named[r] \in Named
         /\ \A b \in BOOLEAN : [named[r] EXCEPT !.persisted = b] \in Named
         /\ \A b \in BOOLEAN : [named[r] EXCEPT !.expired = b] \in Named
         /\ \A o \in Objects : [named[r] EXCEPT !.obj = o] \in Named
BY DEF IInv, TypeOK, Named

LEMMA PrefillNames ==
  ASSUME IInv, PrefillStep
  PROVE  KeptOrExplained
<1>1. CASE StartPrefill \/ Revalidate \/ UseReused \/ FindStored \/ RetainPrefillState \/ IssueHandoff
  <2>1. op.pc # "prune" /\ named' = named
    BY <1>1, FinishKeepsNames
    DEF StartPrefill, Revalidate, UseReused, FindStored, RetainPrefillState, IssueHandoff, At
  <2> QED BY <2>1, SameNamesHold, NamesStay DEF NamesHold
<1>2. CASE FindReuse \/ ClearExpired
  <2>1. op.pc \in {"find", "clear"} /\ (named' = Scanned \/ named' = named)
    BY <1>2 DEF FindReuse, ClearExpired, At
  <2>2. op.kind # "demote"
    BY <2>1 DEF IInv, Shape, OpShape, KindsAt
  <2> QED BY <2>1, <2>2, ExpiredLeave
<1>3. CASE InsertVolatile
  <2>1. CASE Finish
    <3>1. op.pc # "prune"
      BY <1>3 DEF InsertVolatile, At
    <3> QED BY <2>1, <3>1, FinishKeepsNames, SameNamesHold, NamesStay DEF NamesHold
  <2>2. CASE ~Finish
    <3> DEFINE n == [obj |-> op.obj, persisted |-> op.kind # "fresh", expired |-> FALSE]
    <3>1. op.pc = "insert" /\ named' = [named EXCEPT ![op.sid] = n]
      BY <1>3, <2>2 DEF InsertVolatile, At
    <3>2. op.sid \in StateIds
      BY <3>1 DEF IInv, Shape, OpShape
    <3>3. op.obj \in Objects
      <4>1. op.kind \in {"fresh", "restore", "promote"}
        BY <3>1 DEF IInv, Shape, OpShape, KindsAt
      <4>2. op.obj # NoObject
        BY <3>1, <4>1 DEF IInv, Shape, OpShape
      <4> QED BY <4>2 DEF IInv, TypeOK, Ops
    <3>4. n \in Named
      BY <3>3 DEF Named
    <3> HIDE DEF n
    <3>5. NamesHold
      BY <3>1, <3>2, <3>4, FlagsHold
    <3> QED BY <3>1, <3>5, NamesStay DEF NamesHold
  <2> QED BY <2>1, <2>2
<1> QED BY <1>1, <1>2, <1>3 DEF PrefillStep

LEMMA DecodeNames ==
  ASSUME IInv, DecodeStep
  PROVE  KeptOrExplained
<1>1. op.pc # "prune" /\ named' = named
  BY FinishKeepsNames
  DEF DecodeStep, StartDecode, TakeHandoff, DecodeRecord, DecodeWithoutState, DropRecord, At
<1> QED BY <1>1, SameNamesHold, NamesStay DEF NamesHold

LEMMA PersistNames ==
  ASSUME IInv, PersistStep
  PROVE  KeptOrExplained
<1>1. op.pc # "prune"
  BY DEF PersistStep, SnapshotState, CommitToDisk, CommitFails, FallBack, ConfirmPersisted, At
<1>2. CASE named' = named
  BY <1>1, <1>2, SameNamesHold, NamesStay DEF NamesHold
<1>3. CASE named' # named
  <2>1. ConfirmPersisted
    BY <1>3, FinishKeepsNames DEF PersistStep, SnapshotState, CommitToDisk, CommitFails, FallBack
  <2>2. op.pc = "confirm" /\ op.kind = "reuse" /\ named' = [named EXCEPT ![op.sid].persisted = TRUE]
    BY <1>3, <2>1 DEF ConfirmPersisted, At
  <2>3. op.sid \in StateIds /\ named[op.sid] # NotNamed
    BY <2>2 DEF IInv, Shape, WorkShape
  <2>4. [named[op.sid] EXCEPT !.persisted = TRUE] \in Named
    BY <2>3, RelabelledIsNamed
  <2>5. NamesHold
    BY <2>2, <2>3, <2>4, FlagsHold
  <2> QED BY <1>1, <2>5, NamesStay DEF NamesHold
<1> QED BY <1>2, <1>3

LEMMA MemoryNames ==
  ASSUME IInv, TypeOK', MemoryStep
  PROVE  KeptOrExplained
<1>1. op.pc # "prune"
  BY DEF MemoryStep, ReserveMemory, ReserveAgain, CreateState, CommitBackendMemory,
         CleanupRejected, Failed, RelieveEvict, RelieveDemote, At
<1>2. CASE named' = named
  BY <1>1, <1>2, SameNamesHold, NamesStay DEF NamesHold
<1>3. ASSUME NEW r \in StateIds, RelieveEvict(r), named' # named
      PROVE  KeptOrExplained
  <2>1. /\ op.pc = "relieve" /\ r \in op.picked
        /\ named' = [named EXCEPT ![r] = NotNamed] /\ Release(named[r].obj)
        /\ UNCHANGED <<listed, handoffs>>
    BY <1>3, FinishKeepsNames DEF RelieveEvict, At
  <2>2. named[r] # NotNamed /\ op.kind # "demote"
    BY <2>1 DEF IInv, Shape, OpShape, WorkShape, KindsAt, Creators
  <2> QED BY <1>1, <2>1, <2>2, OneLeaves
<1>4. ASSUME NEW r \in StateIds, RelieveDemote(r), named' # named
      PROVE  KeptOrExplained
  <2>1. PICK o \in Spare : named' = [named EXCEPT ![r].obj = o]
    BY <1>4 DEF RelieveDemote
  <2>2. op.pc = "relieve" /\ r \in op.picked /\ o \in Objects
    BY <1>4 DEF RelieveDemote, At, Spare
  <2>3. named[r] # NotNamed
    BY <2>2 DEF IInv, Shape, WorkShape
  <2>4. [named[r] EXCEPT !.obj = o] \in Named
    BY <2>2, <2>3, RelabelledIsNamed
  <2>5. NamesHold
    BY <2>1, <2>4, FlagsHold
  <2> QED BY <1>1, <2>5, NamesStay DEF NamesHold
<1>5. CASE ReserveMemory \/ ReserveAgain \/ CreateState \/ CommitBackendMemory
           \/ CleanupRejected \/ Failed
  <2>1. named' = named
    BY <1>5, FinishKeepsNames DEF ReserveMemory, ReserveAgain, CreateState, CommitBackendMemory,
       CleanupRejected, Failed
  <2> QED BY <1>2, <2>1
<1> QED BY <1>2, <1>3, <1>4, <1>5 DEF MemoryStep

LEMMA ActionNames ==
  ASSUME IInv, TypeOK', OnDisk, ActionStep
  PROVE  KeptOrExplained
<1>1. op.pc # "prune"
  BY DEF ActionStep, StartAction, Evict, RemoveFromDisk, DemoteToDisk, DropDemoted, MoveState,
         SwapMoved, PromoteFromDisk, At
<1>2. CASE named' = named
  BY <1>1, <1>2, SameNamesHold, NamesStay DEF NamesHold
<1>3. CASE \E k \in {"evict", "demote", "move"}, s \in StateIds : StartAction(k, s)
  <2>1. op.pc = "idle" /\ named' = Scanned
    BY <1>3 DEF StartAction, At
  <2>2. op.kind # "demote"
    BY <2>1 DEF IInv, Shape, OpShape, KindsAt
  <2> QED BY <2>1, <2>2, ExpiredLeave
<1>4. CASE Evict \/ DropDemoted
  <2>1. /\ op.pc \in {"evict", "drop"} /\ UNCHANGED <<disk, listed, handoffs>>
        /\ \/ TakeNamed(op.sid)
           \/ \E b \in BOOLEAN : \/ named' = [named EXCEPT ![op.sid] = named[op.sid]]
                                 \/ named' = [named EXCEPT ![op.sid] = [named[op.sid] EXCEPT !.persisted = b]]
    BY <1>4 DEF Evict, DropDemoted, At, PutBack
  <2>2. op.sid \in StateIds /\ named[op.sid] # NotNamed
    <3>1. op.kind \in {"evict", "demote"}
      BY <2>1 DEF IInv, Shape, OpShape, KindsAt
    <3> QED BY <2>1, <3>1 DEF IInv, Shape, WorkShape
  <2>3. CASE TakeNamed(op.sid)
    <3>1. op.kind = "demote" => op.sid \in disk'
      <4>1. op.pc = "evict" => op.kind # "demote"
        BY DEF IInv, Shape, OpShape, KindsAt
      <4> QED BY <2>1, <4>1 DEF OnDisk
    <3>2. /\ named' = [named EXCEPT ![op.sid] = NotNamed]
          /\ Shared(named[op.sid].obj) \/ Release(named[op.sid].obj)
      BY <2>3 DEF TakeNamed
    <3> QED BY <1>1, <2>1, <2>2, <3>1, <3>2, OneLeaves
  <2>4. CASE ~TakeNamed(op.sid)
    <3>1. /\ named[op.sid] \in Named
          /\ \A b \in BOOLEAN : [named[op.sid] EXCEPT !.persisted = b] \in Named
      BY <2>2, RelabelledIsNamed
    <3>2. NamesHold
      BY <2>1, <2>2, <2>4, <3>1, FlagsHold
    <3> QED BY <1>1, <3>2, NamesStay DEF NamesHold
  <2> QED BY <2>3, <2>4
<1>5. CASE SwapMoved
  <2>1. CASE Finish
    BY <1>2, <2>1, FinishKeepsNames
  <2>2. CASE ~Finish
    <3>1. op.pc = "swap" /\ named' = [named EXCEPT ![op.sid].obj = op.obj]
      BY <1>5, <2>2 DEF SwapMoved, At
    <3>2. op.kind = "move"
      BY <3>1 DEF IInv, Shape, OpShape, KindsAt
    <3>3. op.sid \in StateIds /\ named[op.sid] # NotNamed /\ op.obj # NoObject
      BY <3>1, <3>2 DEF IInv, Shape, WorkShape
    <3>4. op.obj \in Objects
      BY <3>3 DEF IInv, TypeOK, Ops
    <3>5. [named[op.sid] EXCEPT !.obj = op.obj] \in Named
      BY <3>3, <3>4, RelabelledIsNamed
    <3>6. NamesHold
      BY <3>1, <3>3, <3>5, FlagsHold
    <3> QED BY <1>1, <3>6, NamesStay DEF NamesHold
  <2> QED BY <2>1, <2>2
<1>6. CASE RemoveFromDisk \/ DemoteToDisk \/ MoveState \/ PromoteFromDisk
  <2>1. named' = named
    BY <1>6 DEF RemoveFromDisk, DemoteToDisk, MoveState, PromoteFromDisk
  <2> QED BY <1>2, <2>1
<1> QED BY <1>3, <1>4, <1>5, <1>6 DEF ActionStep

LEMMA PruneNames ==
  ASSUME IInv, TypeOK', PruneStep
  PROVE  KeptOrExplained
<1>1. CASE \E selected \in SUBSET StateIds : StartPrune(selected)
  <2>1. PICK selected \in SUBSET StateIds : StartPrune(selected)
    BY <1>1
  <2>2. op.pc # "prune"
    BY <2>1 DEF StartPrune, At
  <2>3. /\ named' = [s \in StateIds |-> IF s \in Taken(selected) THEN NotNamed ELSE named[s]]
        /\ op'.batch = {Entry(s) : s \in Taken(selected)}
    BY <2>1 DEF StartPrune, Begin, Idle
  <2> SUFFICES ASSUME NEW s \in StateIds, NEW e \in StateOf(s)
               PROVE  Present(s)'
    BY PresentHasState DEF KeptOrExplained
  <2>4. named[s] # NotNamed
    BY <2>2, NoBatch
  <2>5. CASE s \in Taken(selected)
    <3>1. Entry(s) \in op'.batch /\ Entry(s).sid = s
      BY <2>3, <2>5 DEF Entry
    <3> QED BY <3>1 DEF Present
  <2>6. CASE s \notin Taken(selected)
    BY <2>3, <2>4, <2>6 DEF Present
  <2> QED BY <2>5, <2>6
<1>2. ASSUME NEW x \in op.batch, PruneOne(x)
      PROVE  KeptOrExplained
  <2>1. /\ op.pc = "prune" /\ UNCHANGED <<handoffs, listed>>
        /\ op.kind = "prune"
    BY <1>2 DEF PruneOne, At, IInv, Shape, OpShape, KindsAt
  <2>2. \A y \in op.batch : /\ y.sid \in StateIds /\ y.obj \in Objects
                            /\ y.persisted \in BOOLEAN /\ y.expired \in BOOLEAN
    BY DEF IInv, TypeOK, Ops
  <2>3. CASE named' = named /\ op' = [op EXCEPT !.batch = @ \ {x}]
    <3>1. op'.batch = op.batch \ {x}
      BY <2>3 DEF IInv, TypeOK, Ops
    <3>2. Shared(x.obj) \/ Release(x.obj) \/ named' = Returned(op.batch)
      BY <1>2 DEF PruneOne
    <3>3. Shared(x.obj) \/ Release(x.obj)
      <4>1. CASE op' = Idle
        BY <2>1, <2>3, <4>1 DEF IInv, TypeOK, Ops, Idle
      <4> QED BY <1>2, <4>1 DEF PruneOne
    <3> SUFFICES ASSUME NEW s \in StateIds, NEW e \in StateOf(s), ~Present(s)'
                 PROVE  LeftWithReason(s, e)
      BY PresentHasState DEF KeptOrExplained
    <3>4. named[s] = NotNamed
      BY <2>3 DEF Present
    <3>5. PICK y \in op.batch :
            y.sid = s /\ e = [obj |-> y.obj, persisted |-> y.persisted, expired |-> y.expired]
      BY <3>4 DEF StateOf
    <3>6. y = x
      BY <3>1, <3>5 DEF Present
    <3>7. e.obj = x.obj /\ x.obj \in Objects
      BY <2>2, <3>5, <3>6
    <3>8. CASE Shared(x.obj)
      <4>1. x.obj \in listed \/ RecordOf(x.obj)
        BY <3>8 DEF Shared, RecordOf, Records
      <4>2. x.obj \in Owners'
        BY <2>1, <3>7, <4>1, OwnersWillBe DEF Owned, RecordOf
      <4> QED BY <2>1, <3>7, <4>2 DEF LeftWithReason
    <3>9. CASE Release(x.obj)
      <4>1. status'[x.obj] = "free"
        BY <3>7, <3>9 DEF Release, IInv, TypeOK
      <4> QED BY <2>1, <3>7, <4>1 DEF LeftWithReason
    <3> QED BY <3>3, <3>8, <3>9
  <2>4. CASE named' = Returned(op.batch)
    <3> SUFFICES ASSUME NEW s \in StateIds, NEW e \in StateOf(s)
                 PROVE  Present(s)'
      BY PresentHasState DEF KeptOrExplained
    <3>1. CASE \E y \in op.batch : y.sid = s
      <4> DEFINE z == CHOOSE y \in op.batch : y.sid = s
      <4>1. z \in op.batch
        BY <3>1
      <4>2. named'[s] = [obj |-> z.obj, persisted |-> z.persisted, expired |-> z.expired]
        BY <2>4, <3>1 DEF Returned
      <4> HIDE DEF z
      <4>3. named'[s] \in Named
        BY <2>2, <4>1, <4>2 DEF Named
      <4> QED BY <4>3, NamedIsSome DEF Present
    <3>2. CASE ~\E y \in op.batch : y.sid = s
      <4>1. named[s] # NotNamed
        BY <3>2 DEF StateOf
      <4> QED BY <2>4, <3>2, <4>1 DEF Returned, Present
    <3> QED BY <3>1, <3>2
  <2> QED BY <1>2, <2>3, <2>4 DEF PruneOne
<1>3. ASSUME NEW stored \in SUBSET disk, PruneDisk(stored)
      PROVE  KeptOrExplained
  <2>1. op.batch = {} /\ (named' = named \/
          named' = [s \in StateIds |-> IF s \in stored /\ named[s] # NotNamed
                                       THEN [named[s] EXCEPT !.persisted = FALSE] ELSE named[s]])
    BY <1>3 DEF PruneDisk
  <2> SUFFICES ASSUME NEW s \in StateIds, NEW e \in StateOf(s)
               PROVE  Present(s)'
    BY PresentHasState DEF KeptOrExplained
  <2>2. named[s] # NotNamed
    BY <2>1 DEF StateOf
  <2>3. [named[s] EXCEPT !.persisted = FALSE] # NotNamed
    BY <2>2, RelabelledIsNamed, NamedIsSome
  <2> QED BY <2>1, <2>2, <2>3 DEF Present
<1> QED BY <1>1, <1>2, <1>3 DEF PruneStep

LEMMA OthersNames ==
  ASSUME IInv, Environment \/ Unhealthy \/ Fail \/ UNCHANGED vars
  PROVE  KeptOrExplained
<1>1. CASE Unhealthy \/ Fail
  <2>1. op.pc # "prune" /\ named' = named
    BY <1>1, FinishKeepsNames DEF Unhealthy, Fail, Checkpoints, Fallible
  <2> QED BY <2>1, SameNamesHold, NamesStay DEF NamesHold
<1>2. CASE Environment \/ UNCHANGED vars
  <2>1. op' = op /\ NamesHold
    <3>1. CASE \E r \in StateIds : StateExpires(r)
      <4>1. PICK r \in StateIds : StateExpires(r)
        BY <3>1
      <4>2. named[r] # NotNamed /\ named' = [named EXCEPT ![r].expired = TRUE] /\ op' = op
        BY <4>1 DEF StateExpires
      <4>3. [named[r] EXCEPT !.expired = TRUE] \in Named
        BY <4>2, RelabelledIsNamed
      <4> QED BY <4>2, <4>3, FlagsHold
    <3>2. CASE named' = named /\ op' = op
      BY <3>2, SameNamesHold
    <3> QED BY <1>2, <3>1, <3>2 DEF Environment, StartListing, EndListing, HandoffExpires, vars
  <2> SUFFICES ASSUME NEW s \in StateIds, Present(s)
               PROVE  Present(s)'
    BY PresentHasState DEF KeptOrExplained
  <2> QED BY <2>1 DEF Present, NamesHold
<1> QED BY <1>1, <1>2

(* A state leaves its name only once it was released, was given to another *)
(* owner or had expired, and after a demotion only when its copy is on     *)
(* disk: a failed evict, prune, demotion, move or relief loses nothing.    *)
THEOREM NamesAreKept == Spec => NamedStatesAreKept
<1>1. Init => OnDisk
  BY DEF Init, OnDisk, Idle
<1>2. IInv /\ OnDisk /\ [Next]_vars => IInv' /\ OnDisk'
  BY NextKeeps, OnDiskKept DEF Kept
<1>3. IInv /\ OnDisk /\ [Next]_vars => KeptOrExplained
  <2> SUFFICES ASSUME IInv, OnDisk, [Next]_vars PROVE KeptOrExplained
    OBVIOUS
  <2>1. TypeOK'
    BY NextKeeps DEF Kept, IInv
  <2> QED BY <2>1, PrefillNames, DecodeNames, PersistNames, MemoryNames, ActionNames, PruneNames,
             OthersNames DEF Next, Operation
<1>4. KeptOrExplained =>
        \A s \in StateIds : \A e \in StateOf(s) :
          \/ StateOf(s)' # {}
          \/ /\ e.expired \/ status'[e.obj] = "free" \/ e.obj \in Owners'
             /\ op.kind = "demote" /\ op.sid = s => s \in disk'
  BY DEF KeptOrExplained, LeftWithReason
<1> QED BY InitHolds, <1>1, <1>2, <1>3, <1>4, PTL DEF Spec, NamedStatesAreKept

=============================================================================
