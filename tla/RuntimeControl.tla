--------------------------- MODULE RuntimeControl ---------------------------
(***************************************************************************)
(* The runtime control plane of one process (runtime_control/local.rs)     *)
(* with its registry of single-use handoffs (handoff.rs) and the leases    *)
(* that own backend states (backend.rs).  The operation gate admits one    *)
(* mutating operation at a time and lets it finish even when its caller is *)
(* gone; a listing runs beside it and clones leases under the map's lock,  *)
(* and states and handoffs expire at any moment.  A step of an operation   *)
(* is what it does between two points where a listing, the clock or an     *)
(* earlier step's outcome can make a difference.                           *)
(*                                                                         *)
(* The verdict of the memory manager on a load is any verdict (see         *)
(* MemoryManager), the state store is the set of ids it holds (see         *)
(* StateStore), and of the adapter only what it creates, moves, exports    *)
(* and releases is kept.  One principal; sizes, tiers, pins and recency    *)
(* are left out.                                                           *)
(***************************************************************************)
EXTENDS FiniteSets, Naturals

CONSTANTS StateIds,     \* names of runtime states
          Tokens,       \* handoff tokens, known by their digests
          Objects,      \* backend states; a released one may be created anew
          MaxHandoffs,  \* MAX_HANDOFFS_PER_PRINCIPAL
          MaxVolatile,  \* MAX_VOLATILE_STATES_PER_PRINCIPAL
          NoState, NoToken, NoObject

ASSUME SentinelsAssumption ==
  NoState \notin StateIds /\ NoToken \notin Tokens /\ NoObject \notin Objects
ASSUME CapacityAssumption == MaxHandoffs \in Nat

VARIABLES
  status,    \* what became of each backend state
  account,   \* what the memory manager charges for it
  latched,   \* backend_cleanup_latched: an unconfirmed cleanup stops new work
  named,     \* volatile_states: id -> lease, persisted flag, expiry
  disk,      \* ids the state store holds
  handoffs,  \* HandoffEntries: token -> record or reservation
  listed,    \* leases a listing has cloned
  op,        \* the operation that holds the gate, with its locals
  tainted    \* history: a lease this operation dropped was not released

vars == <<status, account, latched, named, disk, handoffs, listed, op, tainted>>

(* What a value of each kind looks like.                                   *)
Statuses == {"free", "raw", "leased", "lost"}
Accounts == {"none", "held", "lost"}
NotNamed == [obj |-> NoObject, persisted |-> FALSE, expired |-> FALSE]
Named == [obj : Objects, persisted : BOOLEAN, expired : BOOLEAN]
FreeToken == [use |-> "free", obj |-> NoObject, expired |-> FALSE]
ReservedToken == [FreeToken EXCEPT !.use = "reserved"]
Handoff(o) == [use |-> "record", obj |-> o, expired |-> FALSE]

Idle == [kind |-> "none", pc |-> "idle", sid |-> NoState, obj |-> NoObject,
         raw |-> NoObject, export |-> NoObject, token |-> NoToken,
         record |-> NoToken, batch |-> {}, picked |-> {}]

-----------------------------------------------------------------------------
(* Ownership.  A lease is shared: the backend state goes when its last     *)
(* clone does.                                                             *)

Records == {t \in Tokens : handoffs[t].use = "record"}
NamedIds == {s \in StateIds : named[s] # NotNamed}
NamedObjects == {named[s].obj : s \in NamedIds}
OwnLeases == ({op.obj, op.export} \cup {e.obj : e \in op.batch}) \ {NoObject}
Owners == NamedObjects \cup {handoffs[t].obj : t \in Records} \cup listed \cup OwnLeases

(* Mutant: the clones of a listing are not counted.                        *)
SharedByHandoffs(o) == \E t \in Records : handoffs[t].obj = o

(* strong_count > 1 for a lease the map or the operation holds.            *)
Shared(o) == o \in listed \/ \E t \in Records : handoffs[t].obj = o
Uncloned(s) == ~Shared(named[s].obj) /\ named[s].obj # op.obj

(* Drop of BackendStateLeaseInner for every lease the step let go of last. *)
(* The release hook returns the memory, or keeps it charged and latches.   *)
LastDropped == {o \in Objects : status[o] = "leased" /\ o \notin Owners'}
DropLeases(failed) ==
  /\ status' = [o \in Objects |-> IF o \in failed THEN "lost"
                                  ELSE IF o \in LastDropped THEN "free" ELSE status[o]]
  /\ account' = [o \in Objects |->
       IF o \in failed /\ account[o] = "held" THEN "lost"
       ELSE IF o \in LastDropped THEN "none" ELSE account[o]]
  /\ latched' = (latched \/ failed # {})
Dropping == \E failed \in SUBSET LastDropped :
              /\ DropLeases(failed)
              /\ tainted' = (op'.pc # "idle" /\ (tainted \/ failed # {}))

Untouched == UNCHANGED <<status, account, latched, tainted>>

(* An explicit release the adapter confirms, or does not.                  *)
Release(o) == /\ status' = [status EXCEPT ![o] = "free"]
              /\ account' = [account EXCEPT ![o] = "none"]
              /\ UNCHANGED <<latched, tainted>>

(* A backend state nobody leases could not be released.                    *)
Lose(o, charge) == /\ status' = [status EXCEPT ![o] = "lost"]
                   /\ account' = [account EXCEPT ![o] = charge]
                   /\ latched' = TRUE
                   /\ tainted' = TRUE

Spare == {o \in Objects : status[o] = "free" /\ o \notin Owners}

-----------------------------------------------------------------------------
Init == /\ status = [o \in Objects |-> "free"]
        /\ account = [o \in Objects |-> "none"]
        /\ latched = FALSE
        /\ named = [s \in StateIds |-> NotNamed]
        /\ disk = {}
        /\ handoffs = [t \in Tokens |-> FreeToken]
        /\ listed = {}
        /\ op = Idle
        /\ tainted = FALSE

(* Control flow of the operation that holds the gate.                      *)
At(p) == op.pc = p
Goto(p) == op' = [op EXCEPT !.pc = p]

(* Mutant: the reservation of a failed operation is kept.                  *)
StillReserved == handoffs

(* Return, with or without an error: every local lease and the handoff     *)
(* reservation are dropped.                                                *)
Unreserved == [t \in Tokens |-> IF t = op.token THEN FreeToken ELSE handoffs[t]]
Finish == /\ handoffs' = Unreserved
          /\ op' = Idle
          /\ UNCHANGED <<named, disk, listed>>
          /\ Dropping

(* ensure_backend_cleanup_healthy, wherever the code asks.                 *)
Checkpoints == {"find", "reused", "stored", "confirm", "fallback", "insert", "inspected",
                "taken", "demote", "move", "promote"}
Unhealthy == op.pc \in Checkpoints /\ latched /\ Finish

(* An operation can fail wherever it asks the adapter, a store or a limit. *)
Fallible == {"find", "reused", "stored", "reserve", "create", "retain", "fallback",
             "inspected", "taken", "demote", "move", "promote", "relieve"}
Fail == op.pc \in Fallible /\ Finish

-----------------------------------------------------------------------------
(* HandoffRegistry.                                                        *)

Live == [t \in Tokens |-> IF handoffs[t].expired THEN FreeToken ELSE handoffs[t]]
TokensIn(h) == {t \in Tokens : h[t] # FreeToken}
HasRoom(h) == Cardinality(TokensIn(h)) < MaxHandoffs
Begin(k) == [Idle EXCEPT !.kind = k]

(* prefill_inner: capacity for the answer is held before anything else.    *)
StartPrefill ==
  /\ At("idle") /\ ~latched
  /\ IF HasRoom(Live)
     THEN \E t \in Tokens \ TokensIn(handoffs) :
            /\ handoffs' = [Live EXCEPT ![t] = ReservedToken]
            /\ op' = [Begin("fresh") EXCEPT !.pc = "find", !.token = t]
     ELSE handoffs' = Live /\ UNCHANGED op
  /\ UNCHANGED <<named, disk, listed>>
  /\ Dropping

(* issue_handoff: the reservation becomes the record.                      *)
IssueHandoff ==
  /\ At("issue")
  /\ handoffs' = [handoffs EXCEPT ![op.token] = Handoff(op.obj)]
  /\ op' = Idle
  /\ UNCHANGED <<named, disk, listed>>
  /\ Dropping

(* decode_inner looks at the handoff before it consumes it.                *)
StartDecode(t) ==
  /\ At("idle") /\ ~latched
  /\ handoffs[t].use = "record"
  /\ handoffs' = Live
  /\ op' = IF Live[t] = FreeToken THEN Idle
           ELSE [Begin("decode") EXCEPT !.pc = "inspected", !.record = t,
                                        !.obj = handoffs[t].obj]
  /\ UNCHANGED <<named, disk, listed>>
  /\ Dropping

(* take_with_replacement: the record leaves, its place is held for the     *)
(* state decode may return.                                                *)
TakeHandoff ==
  /\ At("inspected") /\ ~latched
  /\ IF Live[op.record] = FreeToken
     THEN handoffs' = Live /\ op' = Idle
     ELSE \E t \in Tokens \ TokensIn(handoffs) :
            /\ handoffs' = [Live EXCEPT ![op.record] = FreeToken, ![t] = ReservedToken]
            /\ op' = [op EXCEPT !.pc = "taken", !.token = t, !.record = NoToken]
  /\ UNCHANGED <<named, disk, listed>>
  /\ Dropping

(* Mutant: no look at the latch after expired handoffs were dropped.       *)
DecodeUnchecked == At("taken") /\ Goto("reserve")
                   /\ UNCHANGED <<named, disk, handoffs, listed>> /\ Untouched

DecodeRecord == At("taken") /\ ~latched /\ Goto("reserve")
                /\ UNCHANGED <<named, disk, handoffs, listed>> /\ Untouched

-----------------------------------------------------------------------------
(* The volatile states.                                                    *)

(* take_expired_volatile_states: an expired entry goes only when nobody    *)
(* else holds its lease.                                                   *)
Scanned == [s \in StateIds |->
              IF named[s].expired /\ Uncloned(s) THEN NotNamed ELSE named[s]]

(* find_volatile_reuse: expired entries go, and a compatible state that    *)
(* the adapter accepts is cloned; which one, if any, is data.              *)
FindReuse ==
  /\ At("find") /\ ~latched
  /\ \/ /\ named' = Scanned
        /\ \/ \E s \in NamedIds : /\ ~named[s].expired
                                  /\ op' = [op EXCEPT !.pc = "validate", !.sid = s,
                                                      !.obj = named[s].obj, !.kind = "reuse"]
           \/ Goto("stored")
     \/ Goto("reserve") /\ UNCHANGED named              \* reuse disabled
  /\ UNCHANGED <<disk, handoffs, listed>>
  /\ Dropping

(* The state may have expired while the adapter validated it.              *)
Revalidate ==
  /\ At("validate")
  /\ IF named[op.sid].expired THEN Finish
     ELSE Goto("reused") /\ UNCHANGED <<named, disk, handoffs, listed>> /\ Untouched

(* A reused state is persisted first when the mode asks for it and its     *)
(* flag does not say that it is.                                           *)
UseReused ==
  /\ At("reused") /\ ~latched
  /\ \/ Goto("issue")
     \/ ~named[op.sid].persisted /\ Goto("export")
  /\ UNCHANGED <<named, disk, handoffs, listed>> /\ Untouched

FindStored ==
  /\ At("stored") /\ ~latched
  /\ \/ \E s \in disk : op' = [op EXCEPT !.pc = "reserve", !.sid = s, !.kind = "restore"]
     \/ Goto("reserve")
  /\ UNCHANGED <<named, disk, handoffs, listed>> /\ Untouched

(* retain_prefill_state: under no name, on disk, or in the map.            *)
RetainPrefillState ==
  /\ At("retain")
  /\ \/ Goto("issue")
     \/ \E s \in StateIds \ (disk \cup NamedIds), p \in {"export", "clear"} :
          op' = [op EXCEPT !.pc = p, !.sid = s]
  /\ UNCHANGED <<named, disk, handoffs, listed>> /\ Untouched

(* insert_volatile: expired states of every principal go first, ...        *)
ClearExpired ==
  /\ At("clear")
  /\ named' = Scanned
  /\ Goto("insert")
  /\ UNCHANGED <<disk, handoffs, listed>>
  /\ Dropping

(* ... and the state is refused if the id is taken or the map is full.     *)
InsertVolatile ==
  /\ At("insert") /\ ~latched
  /\ IF named[op.sid] # NotNamed \/ Cardinality(NamedIds) >= MaxVolatile
     THEN Finish
     ELSE /\ named' = [named EXCEPT ![op.sid] =
                         [obj |-> op.obj, persisted |-> op.kind # "fresh", expired |-> FALSE]]
          /\ op' = IF op.kind = "promote" THEN Idle ELSE [op EXCEPT !.pc = "issue"]
          /\ UNCHANGED <<disk, handoffs, listed>>
          /\ Dropping

-----------------------------------------------------------------------------
(* Persisting a live state: export, commit, let the export go.             *)

(* prepare_snapshot_payload: an opaque state is its own export, another    *)
(* one is exported by the adapter; an export it creates and then cannot    *)
(* use or release is lost.                                                 *)
SnapshotState ==
  /\ At("export")
  /\ \/ Goto("commit") /\ Untouched
     \/ \E o \in Spare : /\ op' = [op EXCEPT !.pc = "commit", !.export = o]
                         /\ status' = [status EXCEPT ![o] = "leased"]
                         /\ UNCHANGED <<account, latched, tainted>>
     \/ Goto("fallback") /\ Untouched
     \/ \E o \in Spare, charge \in {"none", "lost"} : Goto("fallback") /\ Lose(o, charge)
  /\ UNCHANGED <<named, disk, handoffs, listed>>

(* StateStore::commit may remove other states to stay within its quota.    *)
CommitToDisk ==
  /\ At("commit")
  /\ \E victims \in SUBSET (disk \ {op.sid}) : disk' = (disk \ victims) \cup {op.sid}
  /\ op' = [op EXCEPT !.pc = "confirm", !.export = NoObject]
  /\ UNCHANGED <<named, handoffs, listed>>
  /\ Dropping

(* A commit that fails ends the operation; only a reused state in mode     *)
(* auto may go on without a copy.                                          *)
CommitFails ==
  /\ At("commit")
  /\ \/ /\ op.kind = "reuse"
        /\ op' = [op EXCEPT !.pc = "fallback", !.export = NoObject]
        /\ UNCHANGED <<named, disk, handoffs, listed>>
        /\ Dropping
     \/ op.kind # "reuse" /\ Finish

(* Mode auto goes on without a copy on disk.                               *)
FallBack ==
  /\ At("fallback") /\ ~latched
  /\ \/ op.kind = "reuse" /\ Goto("issue")
     \/ op.kind = "fresh" /\ Goto("clear")
  /\ UNCHANGED <<named, disk, handoffs, listed>> /\ Untouched

(* The copy counts once the export has been released.                      *)
ConfirmPersisted ==
  /\ At("confirm") /\ ~latched
  /\ \/ /\ op.kind = "reuse" /\ Goto("issue")
        /\ named' = [named EXCEPT ![op.sid].persisted = TRUE]
     \/ op.kind = "fresh" /\ Goto("issue") /\ UNCHANGED named
     \/ op.kind = "demote" /\ Goto("drop") /\ UNCHANGED named
  /\ UNCHANGED <<disk, handoffs, listed>> /\ Untouched

-----------------------------------------------------------------------------
(* Creating a backend state.                                               *)

(* reserve_backend_memory: granted, or denied and pressure is relieved     *)
(* among the states whose lease only the map holds.                        *)
ReserveMemory ==
  /\ At("reserve")
  /\ \/ Goto("create")
     \/ op' = [op EXCEPT !.pc = "relieve", !.picked = {s \in NamedIds : Uncloned(s)}]
  /\ UNCHANGED <<named, disk, handoffs, listed>> /\ Untouched

(* A release that fails puts the state back and ends the operation.        *)
RelieveEvict(s) ==
  /\ At("relieve") /\ s \in op.picked
  /\ \/ /\ Uncloned(s)
        /\ named' = [named EXCEPT ![s] = NotNamed]
        /\ op' = [op EXCEPT !.picked = @ \ {s}]
        /\ Release(named[s].obj)
        /\ UNCHANGED <<disk, handoffs, listed>>
     \/ Finish

(* The adapter moves the state to another tier; the old one is released    *)
(* and its accounting passes to the new one.  If anything fails the new    *)
(* one is cleaned up and the old one keeps its name.                       *)
RelieveDemote(s) ==
  /\ At("relieve") /\ s \in op.picked
  /\ \E o \in Spare :
       \/ /\ Uncloned(s)
          /\ named' = [named EXCEPT ![s].obj = o]
          /\ status' = [status EXCEPT ![o] = "leased", ![named[s].obj] = "free"]
          /\ account' = [account EXCEPT ![o] = "held", ![named[s].obj] = "none"]
          /\ op' = [op EXCEPT !.picked = @ \ {s}]
          /\ UNCHANGED <<disk, handoffs, listed, latched, tainted>>
       \/ /\ op' = [op EXCEPT !.pc = "failed"]
          /\ Lose(o, "lost")
          /\ UNCHANGED <<named, disk, handoffs, listed>>

(* The second attempt to reserve, after the relief.                        *)
ReserveAgain ==
  /\ At("relieve")
  /\ op' = [op EXCEPT !.pc = "create", !.picked = {}]
  /\ UNCHANGED <<named, disk, handoffs, listed>> /\ Untouched

(* prefill, restore, decode or move_state of the adapter: a state nobody   *)
(* leases yet, or one that was created and could not be taken back.        *)
CreateState ==
  /\ At("create")
  /\ \E o \in Spare :
       \/ /\ op' = [op EXCEPT !.pc = IF op.kind = "decode" THEN "decoded" ELSE "check", !.raw = o]
          /\ status' = [status EXCEPT ![o] = "raw"]
          /\ UNCHANGED <<account, latched, tainted>>
       \/ Goto("failed") /\ Lose(o, "lost")
  /\ UNCHANGED <<named, disk, handoffs, listed>>

(* A decode consumes its state; the result may not have one.               *)
DecodeWithoutState == At("create") /\ op.kind = "decode" /\ Finish
DropRecord ==
  /\ At("decoded")
  /\ op' = [op EXCEPT !.pc = "check", !.obj = NoObject]
  /\ UNCHANGED <<named, disk, handoffs, listed>>
  /\ Dropping

(* commit_backend_memory: the reservation becomes an allocation and the    *)
(* state a lease.                                                          *)
AfterCommit == CASE op.kind = "decode" -> "issue" [] op.kind = "move" -> "swap"
                 [] op.kind = "fresh" -> "retain" [] OTHER -> "clear"
Healthy == op.kind # "decode" \/ ~latched

(* Mutant: the state is charged and its lease goes nowhere.                *)
CommitWithoutLease ==
  /\ At("check") /\ Healthy
  /\ status' = [status EXCEPT ![op.raw] = "leased"]
  /\ account' = [account EXCEPT ![op.raw] = "held"]
  /\ op' = [op EXCEPT !.pc = AfterCommit, !.obj = NoObject, !.raw = NoObject]
  /\ UNCHANGED <<named, disk, handoffs, listed, latched, tainted>>

CommitBackendMemory ==
  /\ At("check") /\ Healthy
  /\ status' = [status EXCEPT ![op.raw] = "leased"]
  /\ account' = [account EXCEPT ![op.raw] = "held"]
  /\ op' = [op EXCEPT !.pc = AfterCommit, !.obj = op.raw, !.raw = NoObject]
  /\ UNCHANGED <<named, disk, handoffs, listed, latched, tainted>>

(* Mutant: a rejected state is forgotten when its release fails.           *)
CleanupUnconfirmed ==
  /\ op.pc \in {"check", "decoded"}
  /\ op' = [op EXCEPT !.pc = "failed", !.raw = NoObject]
  /\ Release(op.raw) \/ Untouched
  /\ UNCHANGED <<named, disk, handoffs, listed>>

(* cleanup_rejected_backend_state, after a failed check of the policy, the *)
(* state or its size, and in decode after a latched cleanup.               *)
CleanupRejected ==
  /\ op.pc \in {"check", "decoded"}
  /\ op' = [op EXCEPT !.pc = "failed", !.raw = NoObject]
  /\ Release(op.raw) \/ Lose(op.raw, "lost")
  /\ UNCHANGED <<named, disk, handoffs, listed>>

Failed == At("failed") /\ Finish

-----------------------------------------------------------------------------
(* state_action_inner: expired states go, the named one is cloned.         *)
StartAction(k, s) ==
  /\ At("idle") /\ (k # "evict" => ~latched)
  /\ named' = Scanned
  /\ LET valid == named[s] # NotNamed /\ ~named[s].expired
     IN op' = IF valid
              THEN [Begin(k) EXCEPT !.pc = k, !.sid = s, !.obj = named[s].obj]
              ELSE IF s \in disk /\ k = "evict" THEN [Begin(k) EXCEPT !.pc = "remove", !.sid = s]
              ELSE IF s \in disk /\ k = "move" THEN [Begin("promote") EXCEPT !.pc = "promote", !.sid = s]
              ELSE Idle
  /\ UNCHANGED <<disk, handoffs, listed>>
  /\ Dropping

(* release_volatile_state of the named state: another owner keeps it       *)
(* alive, or it is released; unconfirmed, it goes back under its name.     *)
TakeNamed(s) == /\ named' = [named EXCEPT ![s] = NotNamed]
                /\ IF Shared(named[s].obj) THEN Untouched ELSE Release(named[s].obj)
PutBack(s, e) == named' = [named EXCEPT ![s] = e] /\ Untouched

Evict ==
  /\ At("evict")
  /\ \/ /\ TakeNamed(op.sid)
        /\ op' = IF named[op.sid].persisted THEN [op EXCEPT !.pc = "remove", !.obj = NoObject]
                 ELSE Idle
     \/ /\ ~Shared(op.obj)
        /\ PutBack(op.sid, named[op.sid])
        /\ op' = Idle
  /\ UNCHANGED <<disk, handoffs, listed>>

(* The copy on disk goes last, and its removal can fail.                   *)
RemoveFromDisk ==
  /\ At("remove")
  /\ disk' \in {disk, disk \ {op.sid}}
  /\ op' = Idle
  /\ UNCHANGED <<named, handoffs, listed>> /\ Untouched

(* Demotion to disk: a state that says it is persisted is looked up, any   *)
(* other one is persisted now.                                             *)
DemoteToDisk ==
  /\ At("demote") /\ ~latched
  /\ IF named[op.sid].persisted THEN op.sid \in disk /\ Goto("drop") ELSE Goto("export")
  /\ UNCHANGED <<named, disk, handoffs, listed>> /\ Untouched

DropDemoted ==
  /\ At("drop")
  /\ \/ TakeNamed(op.sid)
     \/ /\ ~Shared(op.obj)
        /\ PutBack(op.sid, [named[op.sid] EXCEPT !.persisted = TRUE])
  /\ op' = Idle
  /\ UNCHANGED <<disk, handoffs, listed>>

(* Promotion and demotion between memory tiers: the state under the name   *)
(* is replaced once the old one has been released or is someone else's.    *)
MoveState == At("move") /\ ~latched /\ Goto("reserve")
             /\ UNCHANGED <<named, disk, handoffs, listed>> /\ Untouched

SwapMoved ==
  /\ At("swap")
  /\ LET old == named[op.sid].obj
     IN \/ /\ named' = [named EXCEPT ![op.sid].obj = op.obj]
           /\ op' = Idle
           /\ IF Shared(old) THEN Untouched ELSE Release(old)
           /\ UNCHANGED <<disk, handoffs, listed>>
        \/ ~Shared(old) /\ Finish

(* Promotion of a state that is only on disk.                              *)
PromoteFromDisk ==
  /\ At("promote") /\ ~latched
  /\ Goto("reserve")
  /\ UNCHANGED <<named, disk, handoffs, listed>> /\ Untouched

-----------------------------------------------------------------------------
(* prune_states_inner: expired and selected states leave the map together  *)
(* and are released one by one, the expired ones first.                    *)

Entry(s) == [sid |-> s, obj |-> named[s].obj, persisted |-> named[s].persisted,
             expired |-> named[s].expired]
Taken(selected) == {s \in NamedIds : \/ s \in selected /\ ~named[s].expired
                                     \/ named[s].expired /\ Uncloned(s)}
StartPrune(selected) ==
  /\ At("idle")
  /\ named' = [s \in StateIds |-> IF s \in Taken(selected) THEN NotNamed ELSE named[s]]
  /\ op' = [Begin("prune") EXCEPT !.pc = "prune", !.batch = {Entry(s) : s \in Taken(selected)}]
  /\ UNCHANGED <<disk, handoffs, listed>> /\ Untouched

(* Mutant: what a failed prune had taken is not put back.                  *)
NothingReturned(batch) == named

(* The first release that fails puts everything back that is not released. *)
Returned(batch) == [s \in StateIds |->
  IF \E e \in batch : e.sid = s
  THEN LET e == CHOOSE x \in batch : x.sid = s
       IN [obj |-> e.obj, persisted |-> e.persisted, expired |-> e.expired]
  ELSE named[s]]

PruneOne(e) ==
  /\ At("prune") /\ e \in op.batch
  /\ e.expired \/ \A other \in op.batch : ~other.expired
  /\ \/ /\ op' = [op EXCEPT !.batch = @ \ {e}]
        /\ IF Shared(e.obj) THEN Untouched ELSE Release(e.obj)
        /\ UNCHANGED named
     \/ /\ ~Shared(e.obj)
        /\ named' = Returned(op.batch)
        /\ op' = Idle
        /\ Untouched
  /\ UNCHANGED <<disk, handoffs, listed>>

(* Disk states go after every live one was released; the store applies the *)
(* selector to its own copies, whose age and tier are not those of the     *)
(* live ones.  What stays in the map no longer counts as persisted, unless *)
(* a removal fails after some others.                                      *)
PruneDisk(stored) ==
  /\ At("prune") /\ op.batch = {}
  /\ disk' = disk \ stored
  /\ \/ named' = [s \in StateIds |-> IF s \in stored /\ named[s] # NotNamed
                                     THEN [named[s] EXCEPT !.persisted = FALSE] ELSE named[s]]
     \/ UNCHANGED named
  /\ op' = Idle
  /\ UNCHANGED <<handoffs, listed>> /\ Untouched

-----------------------------------------------------------------------------
(* Beside the gate.                                                        *)

(* list_states_inner clones the leases of the states it can see, ...       *)
StartListing ==
  /\ listed = {}
  /\ listed' = {named[s].obj : s \in {n \in NamedIds : ~named[n].expired}}
  /\ UNCHANGED <<status, account, latched, named, disk, handoffs, op, tainted>>

(* ... and is the last owner of those that went meanwhile.                 *)
EndListing ==
  /\ listed # {} /\ listed' = {}
  /\ UNCHANGED <<named, disk, handoffs, op, tainted>>
  /\ \E failed \in SUBSET LastDropped : DropLeases(failed)

(* The clock.                                                              *)
StateExpires(s) == /\ named[s] # NotNamed /\ ~named[s].expired
                   /\ named' = [named EXCEPT ![s].expired = TRUE]
                   /\ UNCHANGED <<status, account, latched, disk, handoffs, listed, op, tainted>>
HandoffExpires(t) == /\ handoffs[t].use = "record" /\ ~handoffs[t].expired
                     /\ handoffs' = [handoffs EXCEPT ![t].expired = TRUE]
                     /\ UNCHANGED <<status, account, latched, named, disk, listed, op, tainted>>

PrefillStep == StartPrefill \/ FindReuse \/ Revalidate \/ UseReused \/ FindStored
               \/ RetainPrefillState \/ ClearExpired \/ InsertVolatile \/ IssueHandoff
DecodeStep == (\E t \in Tokens : StartDecode(t)) \/ TakeHandoff \/ DecodeRecord
              \/ DecodeWithoutState \/ DropRecord
PersistStep == SnapshotState \/ CommitToDisk \/ CommitFails \/ FallBack \/ ConfirmPersisted
MemoryStep == ReserveMemory \/ ReserveAgain \/ CreateState \/ CommitBackendMemory
              \/ CleanupRejected \/ Failed
              \/ \E s \in StateIds : RelieveEvict(s) \/ RelieveDemote(s)
ActionStep == (\E k \in {"evict", "demote", "move"}, s \in StateIds : StartAction(k, s))
              \/ Evict \/ RemoveFromDisk \/ DemoteToDisk \/ DropDemoted
              \/ MoveState \/ SwapMoved \/ PromoteFromDisk
PruneStep == (\E selected \in SUBSET StateIds : StartPrune(selected))
             \/ (\E e \in op.batch : PruneOne(e))
             \/ (\E stored \in SUBSET disk : PruneDisk(stored))
Operation == PrefillStep \/ DecodeStep \/ PersistStep \/ MemoryStep \/ ActionStep \/ PruneStep
             \/ Unhealthy \/ Fail
Environment == StartListing \/ EndListing \/ (\E s \in StateIds : StateExpires(s))
               \/ (\E t \in Tokens : HandoffExpires(t))
Next == Operation \/ Environment
Spec == Init /\ [][Next]_vars

-----------------------------------------------------------------------------
(* Properties.                                                             *)

Ops == [kind : {"none", "fresh", "reuse", "restore", "decode", "evict", "demote", "move",
                "promote", "prune"},
        pc : {"idle", "validate", "export", "commit", "issue", "clear", "check", "decoded",
              "failed", "evict", "remove", "drop", "swap", "prune"} \cup Checkpoints \cup Fallible,
        sid : StateIds \cup {NoState}, obj : Objects \cup {NoObject},
        raw : Objects \cup {NoObject}, export : Objects \cup {NoObject},
        token : Tokens \cup {NoToken}, record : Tokens \cup {NoToken},
        batch : SUBSET [sid : StateIds, obj : Objects, persisted : BOOLEAN, expired : BOOLEAN],
        picked : SUBSET StateIds]

(* The variables stay within the values the code can hold.                 *)
TypeOK ==
  /\ status \in [Objects -> Statuses]
  /\ account \in [Objects -> Accounts]
  /\ latched \in BOOLEAN
  /\ named \in [StateIds -> Named \cup {NotNamed}]
  /\ disk \subseteq StateIds
  /\ handoffs \in [Tokens -> {FreeToken, ReservedToken}
                             \cup [use : {"record"}, obj : Objects, expired : BOOLEAN]]
  /\ listed \subseteq Objects
  /\ op \in Ops
  /\ tainted \in BOOLEAN

(* Whoever holds a lease - a name, a handoff, a listing, the operation -   *)
(* finds the backend state it stands for: release_volatile_state never     *)
(* takes it from another owner.                                            *)
LeasesLive == \A o \in Owners : status[o] = "leased"

(* No backend state is left without an owner, and none is taken off the    *)
(* memory account early: it is leased by someone, in the hands of the      *)
(* operation, or its cleanup failed, the control plane is latched and what *)
(* was charged for it stays charged (local_backend_lease, cleanup_rejected *)
(* _backend_state, backend_operation_error).                               *)
NothingLeaks ==
  /\ \A o \in Objects : /\ status[o] = "leased" => o \in Owners
                        /\ status[o] = "raw" => op.raw = o
                        /\ status[o] = "lost" => latched /\ account[o] # "held"
                        /\ account[o] = "held" => status[o] = "leased"
  /\ \A s \in NamedIds : account[named[s].obj] = "held"
  /\ \A t \in Records : account[handoffs[t].obj] = "held"

(* Records and reservations together respect the limit, and a reservation  *)
(* belongs to the operation under way: none outlives a failed one.         *)
ReservationsHeld ==
  /\ Cardinality(TokensIn(handoffs)) <= MaxHandoffs
  /\ \A t \in Tokens : handoffs[t].use = "reserved" <=> op.token = t

Creates == \E o \in Objects : status[o] = "free" /\ status'[o] # "free"

(* An operation one of whose own leases could not be released creates no   *)
(* further backend state: every drop is followed by a check of the latch   *)
(* before the adapter is asked for a state.                                *)
NoWorkAfterFailedCleanup == [][Creates => ~tainted]_vars

(* A state leaves its name only for a reason: its backend state was        *)
(* released, confirmed, or has another owner, and if it was demoted to     *)
(* disk the copy is there, whatever the persisted flag says.  A failed     *)
(* evict, prune, demotion, move or relief leaves it where it can be        *)
(* retried.                                                                *)
StateOf(s) == IF named[s] # NotNamed THEN {named[s]}
              ELSE {[obj |-> e.obj, persisted |-> e.persisted, expired |-> e.expired] :
                    e \in {x \in op.batch : x.sid = s}}
NamedStatesAreKept ==
  [][\A s \in StateIds : \A e \in StateOf(s) :
       \/ StateOf(s)' # {}
       \/ /\ e.expired \/ status'[e.obj] = "free" \/ e.obj \in Owners'
          /\ op.kind = "demote" /\ op.sid = s => s \in disk']_vars
=============================================================================
