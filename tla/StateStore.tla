----------------------------- MODULE StateStore -----------------------------
(***************************************************************************)
(* The persistent catalog of runtime states, runtime_control/store.rs: the *)
(* directories of one principal's namespace, changed by one operation at a *)
(* time under the catalog's file lock, by processes that can be killed and *)
(* on a machine that can lose power between any two steps.                 *)
(*                                                                         *)
(* A commit renames a complete staging directory into place, journals in   *)
(* it the states that must go to keep the quota, and only then removes     *)
(* them.  Every mutation first reconciles: it finishes what a journal      *)
(* still asks for, then sweeps staging, expired and damaged entries.       *)
(*                                                                         *)
(* Two views of the namespace are kept: dir is what processes see, disk is *)
(* what has been synchronized; without a sync either version of an entry   *)
(* may be there after power is lost.                                       *)
(***************************************************************************)
EXTENDS Naturals, FiniteSets, FiniteSetsExt

CONSTANTS
  Ids,        \* state identifiers
  Size,       \* the payload bytes of each state
  MaxBytes,   \* StateStoreLimits::max_namespace_bytes
  MaxEntries, \* StateStoreLimits::max_namespace_entries
  MaxPayload, \* StateStoreLimits::max_payload_bytes
  Runtimes,   \* Werk processes that use the catalog
  Offline,    \* the process of the offline cache command
  Faults,     \* the combinations of faults to consider
  NoId

ASSUME StoreAssumption ==
  /\ Size \in [Ids -> Nat]
  /\ MaxBytes \in Nat /\ MaxEntries \in Nat /\ MaxPayload \in Nat
  /\ Offline \notin Runtimes
  /\ NoId \notin Ids
  /\ Faults \subseteq SUBSET {"io", "kill", "power", "interrupt"}

VARIABLES
  faults,   \* what may go wrong: a runtime killed, power lost, the offline command interrupted
  dir,      \* the namespace as processes see it
  disk,     \* the namespace as it was last synchronized
  staging,  \* a staging entry is in the namespace
  expired,  \* states whose time has come
  live,     \* runtimes that hold the shared usage lease
  at,       \* where the operation under the catalog lock is; "idle": the lock is free
  op,       \* that operation
  todo,     \* the entries it still has to remove
  owed      \* history: states whose commit returned and that nothing asked to remove since

vars == <<faults, dir, disk, staging, expired, live, at, op, todo, owed>>

Absent == [kind |-> "absent", pinned |-> FALSE, journal |-> {}]
Torn   == [kind |-> "torn", pinned |-> FALSE, journal |-> {}]
Entry  == [kind : {"absent", "valid", "torn"}, pinned : BOOLEAN, journal : SUBSET Ids]

Operation == [by : Runtimes \cup {Offline},
              call : {"commit", "load", "pin", "unpin", "prune", "discard"},
              id : Ids \cup {NoId},
              victims : SUBSET Ids,
              swept : BOOLEAN]

NoOp == [by |-> Offline, call |-> "prune", id |-> NoId, victims |-> {}, swept |-> FALSE]

Calls == {"commit", "load", "pin", "unpin"}

-----------------------------------------------------------------------------
(* Quota *)

Present == {id \in Ids : dir[id].kind # "absent"}
ValidIn(d) == {id \in Ids : d[id].kind = "valid"}
Valid == ValidIn(dir)

Bytes(S) == MapThenSumSet(LAMBDA id : Size[id], S)
FitsWith(S, bytes, entries) ==
  /\ Bytes(S) + bytes <= MaxBytes
  /\ Cardinality(S) + entries <= MaxEntries

\* Mutants of Plans: the pins are not looked at; the newcomer's size is forgotten.
PlansOverPins(bytes, entries, excluded) ==
  {V \in SUBSET (Valid \ excluded) :
     /\ FitsWith(Valid \ V, bytes, entries)
     /\ V = {} \/ \E v \in V : ~FitsWith(Valid \ (V \ {v}), bytes, entries)}
PlansForOldStates(bytes, entries, excluded) ==
  {V \in SUBSET {id \in Valid \ excluded : ~dir[id].pinned} :
     /\ FitsWith(Valid \ V, 0, entries)
     /\ V = {} \/ \E v \in V : ~FitsWith(Valid \ (V \ {v}), 0, entries)}

\* The states whose removal makes room: unpinned, least recently used first,
\* until the rest fits.  Any order of use is considered.
Plans(bytes, entries, excluded) ==
  {V \in SUBSET {id \in Valid \ excluded : ~dir[id].pinned} :
     /\ FitsWith(Valid \ V, bytes, entries)
     /\ V = {} \/ \E v \in V : ~FitsWith(Valid \ (V \ {v}), bytes, entries)}

\* PayloadScanBudget
ScanTooLarge == Bytes(Valid) > MaxBytes + MaxPayload

OwnersIn(d) == {id \in ValidIn(d) : d[id].journal # {}}
Owners == OwnersIn(dir)
JournaledIn(d) == (UNION {d[o].journal : o \in OwnersIn(d)}) \ OwnersIn(d)
Journaled == JournaledIn(dir)

-----------------------------------------------------------------------------

Init ==
  /\ faults \in Faults
  /\ dir = [id \in Ids |-> Absent]
  /\ disk = dir
  /\ staging = FALSE
  /\ expired = {}
  /\ live = {}
  /\ at = "idle"
  /\ op = NoOp
  /\ todo = {}
  /\ owed = {}

Put(id, entry) == dir' = [dir EXCEPT ![id] = entry]

\* What is synchronized is followed only where power may be lost.
Sync(synced) == disk' = IF "power" \in faults THEN synced ELSE disk

\* sync_directory(namespace): entries that came, went or were replaced.
SyncNamespace ==
  Sync([id \in Ids |-> IF (dir[id].kind = "absent") # (disk[id].kind = "absent")
                       THEN dir[id] ELSE disk[id]])

\* A marker is changed in a state's directory, which is then synchronized.
PutMarker(id, entry) ==
  /\ Put(id, entry)
  /\ Sync([disk EXCEPT ![id] = IF @.kind = "absent" THEN @ ELSE entry])

\* Mutant of Unlock: a failed removal leaves its list behind.
UnlockOnly == at' = "idle" /\ op' = NoOp /\ UNCHANGED todo

\* The operation returns, or fails with an error: the catalog lock is released.
Unlock == at' = "idle" /\ op' = NoOp /\ todo' = {}

-----------------------------------------------------------------------------
(* Operations start *)

\* lock_root: the lock is taken, the usage lease kept for the process's life.
Start(p, call, id) ==
  /\ at = "idle"
  /\ at' = "pending"
  /\ op' = [by |-> p, call |-> call, id |-> id, victims |-> {}, swept |-> FALSE]
  /\ live' = live \cup {p}
  /\ UNCHANGED <<faults, dir, disk, staging, expired, todo, owed>>

StartCall(p, call, id) ==
  /\ call = "commit" => Size[id] <= MaxPayload
  /\ Start(p, call, id)

StartPrune(p) == Start(p, "prune", NoId)

\* cache_prune: only without a runtime, and without reconciling.
Discard(id) ==
  /\ at = "idle"
  /\ live = {}
  /\ id \in Valid /\ ~dir[id].pinned
  /\ at' = "removing"
  /\ op' = [by |-> Offline, call |-> "discard", id |-> id, victims |-> {}, swept |-> FALSE]
  /\ todo' = {id}
  /\ owed' = owed \ {id}
  /\ UNCHANGED <<faults, dir, disk, staging, expired, live>>

-----------------------------------------------------------------------------
(* Reconciliation *)

\* Mutant of ScanPending: a journal left behind is not acted upon.
ScanPendingIgnored ==
  /\ at = "pending"
  /\ ~ScanTooLarge
  /\ at' = "sweeping"
  /\ UNCHANGED <<faults, dir, disk, staging, expired, live, op, todo, owed>>

\* complete_pending_quota_evictions_locked reads the journals, within its budget ...
ScanPending ==
  /\ at = "pending"
  /\ IF ScanTooLarge
       THEN Unlock /\ UNCHANGED owed
       ELSE /\ at' = IF Owners = {} THEN "sweeping" ELSE "repairing"
            /\ todo' = Journaled \cap Present
            /\ owed' = owed \ UNION {dir[o].journal :
                         o \in {w \in Owners : "power" \in faults => disk[w].kind = "valid"}}
            /\ UNCHANGED op
  /\ UNCHANGED <<faults, dir, disk, staging, expired, live>>

\* ... the victims are removed and, while that is not enough, further states ...
Repaired ==
  /\ at = "repairing" /\ todo = {}
  /\ SyncNamespace
  /\ IF Plans(0, 0, Owners) = {}
       THEN Unlock /\ UNCHANGED owed
       ELSE \E V \in Plans(0, 0, Owners) :
              /\ todo' = V
              /\ at' = IF V = {} THEN "unmarking" ELSE "repairing"
              /\ owed' = owed \ V
              /\ UNCHANGED op
  /\ UNCHANGED <<faults, dir, staging, expired, live>>

\* ... and only then the journals are cleared.
Unmark(o) ==
  /\ at = "unmarking"
  /\ o \in Owners
  /\ PutMarker(o, [dir[o] EXCEPT !.journal = {}])
  /\ UNCHANGED <<faults, staging, expired, live, at, op, todo, owed>>

Unmarked ==
  /\ at = "unmarking" /\ Owners = {}
  /\ at' = "sweeping"
  /\ op' = [op EXCEPT !.swept = TRUE]
  /\ UNCHANGED <<faults, dir, disk, staging, expired, live, todo, owed>>

\* The state a call is about is left for the call to check.
Sweepable == {id \in Ids : /\ op.call \in {"load", "pin", "unpin"} => id # op.id
                           /\ dir[id].kind = "torn" \/ (id \in Valid /\ id \in expired)}

SweepStaging ==
  /\ at = "sweeping" /\ staging
  /\ staging' = FALSE
  /\ op' = [op EXCEPT !.swept = TRUE]
  /\ UNCHANGED <<faults, dir, disk, expired, live, at, todo, owed>>

\* Expired states are removed, damaged ones are moved to the quarantine.
Sweep(id) ==
  /\ at = "sweeping"
  /\ id \in Sweepable
  /\ Put(id, Absent)
  /\ op' = [op EXCEPT !.swept = TRUE]
  /\ UNCHANGED <<faults, disk, staging, expired, live, at, todo, owed>>

Swept ==
  /\ at = "sweeping" /\ ~staging /\ Sweepable = {}
  /\ IF op.swept THEN SyncNamespace ELSE UNCHANGED disk
  /\ at' = "ready"
  /\ op' = [op EXCEPT !.swept = FALSE]
  /\ UNCHANGED <<faults, dir, staging, expired, live, todo, owed>>

-----------------------------------------------------------------------------
(* commit *)

Stage ==
  /\ at = "ready" /\ op.call = "commit"
  /\ op.id \notin Present
  /\ \E V \in Plans(Size[op.id], 1, {}) : op' = [op EXCEPT !.victims = V]
  /\ staging' = TRUE
  /\ at' = "staged"
  /\ UNCHANGED <<faults, dir, disk, expired, live, todo, owed>>

\* The id is taken, or what is pinned leaves no room.
CommitRefused ==
  /\ at = "ready" /\ op.call = "commit"
  /\ op.id \in Present \/ Plans(Size[op.id], 1, {}) = {}
  /\ Unlock
  /\ UNCHANGED <<faults, dir, disk, staging, expired, live, owed>>

\* A write fails; removing the staging entry may fail too.
StagingFails ==
  /\ "io" \in faults
  /\ at = "staged"
  /\ staging' \in BOOLEAN
  /\ Unlock
  /\ UNCHANGED <<faults, dir, disk, expired, live, owed>>

\* Everything in the staging directory is synchronized; the rename publishes it.
Publish ==
  /\ at = "staged"
  /\ \E pinned \in BOOLEAN :
       Put(op.id, [kind |-> "valid", pinned |-> pinned, journal |-> op.victims])
  /\ staging' = FALSE
  /\ expired' = expired \ {op.id}
  /\ at' = "published"
  /\ UNCHANGED <<faults, disk, live, op, todo, owed>>

\* Mutant of SyncPublished: the victims go before the rename is synchronized.
EvictUnsynced ==
  /\ at = "published"
  /\ at' = IF op.victims = {} THEN "returning" ELSE "evicting"
  /\ todo' = op.victims \cap Present
  /\ owed' = owed \ op.victims
  /\ UNCHANGED <<faults, dir, disk, staging, expired, live, op>>

\* Once the rename is synchronized the victims may go.
SyncPublished ==
  /\ at = "published"
  /\ SyncNamespace
  /\ at' = IF op.victims = {} THEN "returning" ELSE "evicting"
  /\ todo' = op.victims \cap Present
  /\ owed' = owed \ op.victims
  /\ UNCHANGED <<faults, dir, staging, expired, live, op>>

Evicted ==
  /\ at = "evicting" /\ todo = {}
  /\ SyncNamespace
  /\ at' = "clearing"
  /\ UNCHANGED <<faults, dir, staging, expired, live, op, todo, owed>>

Clear ==
  /\ at = "clearing"
  /\ PutMarker(op.id, [dir[op.id] EXCEPT !.journal = {}])
  /\ at' = "returning"
  /\ UNCHANGED <<faults, staging, expired, live, op, todo, owed>>

\* A failed eviction does not fail the commit: the journal stays.
EvictionFails ==
  /\ "io" \in faults
  /\ at \in {"evicting", "clearing"}
  /\ at' = "returning"
  /\ todo' = {}
  /\ UNCHANGED <<faults, dir, disk, staging, expired, live, op, owed>>

CommitReturns ==
  /\ at = "returning"
  /\ Unlock
  /\ owed' = owed \cup ({op.id} \ expired)
  /\ UNCHANGED <<faults, dir, disk, staging, expired, live>>

-----------------------------------------------------------------------------
(* load, set_pinned, prune *)

LoadMissing ==
  /\ at = "ready" /\ op.call \in {"load", "pin", "unpin"}
  /\ op.id \notin Present
  /\ Unlock
  /\ UNCHANGED <<faults, dir, disk, staging, expired, live, owed>>

\* load_locked takes a damaged or expired state away.
LoadDamaged ==
  /\ at = "ready" /\ op.call \in {"load", "pin", "unpin"}
  /\ op.id \in Present
  /\ op.id \in Valid => op.id \in expired
  /\ todo' = {op.id}
  /\ at' = "removing"
  /\ UNCHANGED <<faults, dir, disk, staging, expired, live, op, owed>>

Load ==
  /\ at = "ready" /\ op.call = "load"
  /\ op.id \in Valid \ expired
  /\ Unlock
  /\ UNCHANGED <<faults, dir, disk, staging, expired, live, owed>>

SetPinned ==
  /\ at = "ready" /\ op.call \in {"pin", "unpin"}
  /\ op.id \in Valid \ expired
  /\ PutMarker(op.id, [dir[op.id] EXCEPT !.pinned = (op.call = "pin")])
  /\ Unlock
  /\ UNCHANGED <<faults, staging, expired, live, owed>>

Prune ==
  /\ at = "ready" /\ op.call = "prune"
  /\ \E S \in SUBSET (Valid \ expired) : todo' = S /\ owed' = owed \ S
  /\ at' = "removing"
  /\ UNCHANGED <<faults, dir, disk, staging, expired, live, op>>

-----------------------------------------------------------------------------
(* Removing entries *)

Removing == at \in {"repairing", "evicting", "removing"}

Remove(id) ==
  /\ Removing
  /\ id \in todo
  /\ Put(id, Absent)
  /\ todo' = todo \ {id}
  /\ UNCHANGED <<faults, disk, staging, expired, live, at, op, owed>>

Removed ==
  /\ at = "removing" /\ todo = {}
  /\ SyncNamespace
  /\ Unlock
  /\ UNCHANGED <<faults, dir, staging, expired, live, owed>>

\* An entry cannot be removed: the operation fails, a journal stays.
RemovalFails ==
  /\ "io" \in faults
  /\ at \in {"repairing", "removing"}
  /\ todo # {}
  /\ Unlock
  /\ UNCHANGED <<faults, dir, disk, staging, expired, live, owed>>

-----------------------------------------------------------------------------
(* Time and faults *)

Expire(id) ==
  /\ id \in Valid \ expired
  /\ expired' = expired \cup {id}
  /\ owed' = owed \ {id}
  /\ UNCHANGED <<faults, dir, disk, staging, live, at, op, todo>>

Exit(p) ==
  /\ p \in live
  /\ at = "idle" \/ op.by # p
  /\ live' = live \ {p}
  /\ UNCHANGED <<faults, dir, disk, staging, expired, at, op, todo, owed>>

\* remove_dir_all unlinks the files of an entry one by one, in any order.
Halves(entry) ==
  {Torn, [entry EXCEPT !.pinned = FALSE], [entry EXCEPT !.journal = {}],
   [entry EXCEPT !.pinned = FALSE, !.journal = {}]}

\* The process of the operation ends between two of its steps or inside a removal.
Interrupt ==
  /\ \/ UNCHANGED dir
     \/ Removing /\ \E id \in todo : \E half \in Halves(dir[id]) : Put(id, half)
  /\ Unlock
  /\ UNCHANGED <<faults, disk, staging, expired, owed>>

Kill(p) ==
  /\ "kill" \in faults
  /\ p \in live
  /\ live' = live \ {p}
  /\ IF at # "idle" /\ op.by = p
       THEN Interrupt
       ELSE UNCHANGED <<faults, dir, disk, staging, expired, at, op, todo, owed>>

InterruptOffline ==
  /\ "interrupt" \in faults
  /\ at # "idle" /\ op.by = Offline
  /\ Interrupt
  /\ UNCHANGED live

\* Of what was not synchronized, anything may have reached the disk.
PowerLoss ==
  /\ "power" \in faults
  /\ at # "idle" /\ op.by = Offline => "interrupt" \in faults
  /\ \E S \in SUBSET Ids :
       LET left == [id \in Ids |-> IF id \in S THEN dir[id] ELSE disk[id]]
       IN  \/ dir' = left
           \/ /\ Removing
              /\ \E id \in todo : \E half \in Halves(dir[id]) :
                   dir' = [left EXCEPT ![id] = half]
  /\ Sync(dir')
  /\ staging' \in {staging, FALSE}
  /\ live' = {}
  /\ Unlock
  /\ UNCHANGED <<faults, expired, owed>>

-----------------------------------------------------------------------------

StartStep ==
  \/ \E p \in Runtimes : (\E call \in Calls, id \in Ids : StartCall(p, call, id)) \/ StartPrune(p)
  \/ \E id \in Ids : Discard(id)

ReconcileStep ==
  \/ ScanPending \/ Repaired \/ Unmarked
  \/ SweepStaging \/ Swept
  \/ \E id \in Ids : Unmark(id) \/ Sweep(id)

CommitStep ==
  \/ Stage \/ CommitRefused \/ StagingFails \/ Publish \/ SyncPublished
  \/ Evicted \/ Clear \/ EvictionFails \/ CommitReturns

CallStep ==
  \/ LoadMissing \/ LoadDamaged \/ Load \/ SetPinned \/ Prune \/ Removed \/ RemovalFails
  \/ \E id \in Ids : Remove(id)

FaultStep ==
  \/ \E p \in Runtimes : Exit(p) \/ Kill(p)
  \/ InterruptOffline \/ PowerLoss
  \/ \E id \in Ids : Expire(id)

Next == StartStep \/ ReconcileStep \/ CommitStep \/ CallStep \/ FaultStep

Spec == Init /\ [][Next]_vars

-----------------------------------------------------------------------------
(* Properties *)

\* Every variable stays in its set; entries to remove are remembered only by
\* an operation that removes.
TypeOK ==
  /\ faults \in Faults
  /\ dir \in [Ids -> Entry] /\ disk \in [Ids -> Entry]
  /\ staging \in BOOLEAN
  /\ expired \subseteq Ids
  /\ live \subseteq Runtimes
  /\ at \in {"idle", "pending", "repairing", "unmarking", "sweeping", "ready",
             "staged", "published", "evicting", "clearing", "returning", "removing"}
  /\ op \in Operation
  /\ todo \subseteq Ids
  /\ todo # {} => Removing
  /\ owed \subseteq Ids

\* A state whose commit returned is in the catalog, and on the disk if power may
\* be lost, until it is pruned, expires, or gives way to a newcomer as durable as
\* itself: no crash, recovery or failed operation loses it.
OwedSurvives ==
  \A id \in owed : /\ id \in Valid
                   /\ "power" \in faults => disk[id].kind = "valid"

\* "Pinning protects policy eviction": what a journal condemns is not pinned,
\* though the journal may be acted upon long after it was written.
CondemnedUnpinned == \A id \in Journaled \cap Valid : ~dir[id].pinned

\* "A crash may leave exactly one newly published state awaiting its quota
\* evictions": recovery always finds a catalog it can scan and bring back within
\* its quota, so no sequence of faults locks the catalog for good.
Recoverable ==
  at \in {"idle", "pending"} =>
    /\ ~ScanTooLarge
    /\ Cardinality(Owners) <= 1
    /\ FitsWith({id \in Valid \ Journaled : id \in Owners \/ dir[id].pinned}, 0, 0)

\* The catalog with the journals carried out, where power loss would find it.
Durable == IF "power" \in faults THEN disk ELSE dir

Catalog == INSTANCE StateCatalog
  WITH states  <- ValidIn(Durable) \ JournaledIn(Durable),
       parting <- ValidIn(Durable) \cap JournaledIn(Durable)

\* The directories, journal and recovery implement the abstract catalog.
ImplementsCatalog == Catalog!Spec
=============================================================================
