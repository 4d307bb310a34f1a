-------------------------- MODULE StateStoreProofs --------------------------
(***************************************************************************)
(* What the persistent catalog guarantees for every set of states, sizes   *)
(* and quota, under kills, I/O failures and interrupted removals in any    *)
(* number, and under power loss: a committed state is not lost, and pins   *)
(* are safe from the journals that commits leave behind, however late a    *)
(* journal is acted upon; recovery always finds a catalog it can scan and  *)
(* bring back within its quota; and the directories with their journals    *)
(* implement the abstract catalog.                                         *)
(***************************************************************************)
EXTENDS StateStore, FiniteSetTheorems, TLAPS

\* Power loss is considered apart from the other faults.
Sound == "power" \in faults => faults = {"power"}

\* The entries that a crash may leave of a state.
Versions(id) == IF "power" \in faults THEN {dir[id], disk[id]} ELSE {dir[id]}

EntriesOK ==
  \A id \in Ids : /\ dir[id].kind = "absent" => dir[id] = Absent
                  /\ disk[id].kind = "absent" => disk[id] = Absent

\* What the place of an operation says about the operation.
CallsOK ==
  /\ at \in {"staged", "published", "evicting", "clearing", "returning"} => op.call = "commit"
  /\ at # "idle" /\ op.call \in Calls => op.id \in Ids

\* Without other faults power loss finds everything synchronized but what the
\* operation under way is changing.
SyncedOK ==
  "power" \in faults =>
    /\ at \in {"idle", "pending", "unmarking", "ready", "staged", "clearing", "returning"} =>
         disk = dir
    /\ at = "published" =>
         \A id \in Ids : IF id = op.id THEN disk[id] = Absent ELSE disk[id] = dir[id]
    /\ at \in {"repairing", "evicting", "removing", "sweeping"} =>
         \A id \in Ids : dir[id] \in {disk[id], Absent}
    /\ at = "sweeping" /\ ~op.swept => disk = dir

\* A call is carried out only when no journal is left.
ReconciledOK ==
  at \in {"sweeping", "ready", "staged"} =>
    \A id \in Ids : \A e \in Versions(id) : e.kind = "valid" => e.journal = {}

\* The victims of a commit, while they are planned and not yet journaled.
StagedOK ==
  at = "staged" => /\ dir[op.id] = Absent
                   /\ \A v \in op.victims : ~dir[v].pinned

\* What a journal names is not pinned, in whichever versions the two are found.
JournalsOK ==
  \A o, v \in Ids : \A e \in Versions(o), f \in Versions(v) :
    e.kind = "valid" /\ v \in e.journal /\ f.kind = "valid" => ~f.pinned

\* A published state stays until its commit returns; its victims are others.
PublishedOK ==
  /\ at \in {"published", "evicting", "clearing", "returning"} =>
       op.id \in Valid /\ op.id \notin todo
  /\ at \in {"staged", "published"} => op.id \notin op.victims

\* Nothing owed is about to be removed, for whatever reason.
OwedOK == OwedSurvives /\ owed \cap (todo \cup expired) = {}

IInv ==
  /\ TypeOK
  /\ EntriesOK
  /\ CallsOK
  /\ PublishedOK
  /\ Sound => SyncedOK /\ ReconciledOK /\ StagedOK /\ JournalsOK
  /\ Sound => OwedOK

-----------------------------------------------------------------------------

LEMMA InitInv == Init => IInv
<1> SUFFICES ASSUME Init PROVE IInv
  OBVIOUS
<1> USE DEF Init
<1>1. \A id \in Ids : dir[id] = Absent /\ disk[id] = Absent
  OBVIOUS
<1>2. TypeOK
  <2>1. Absent \in Entry
    BY DEF Absent, Entry
  <2>2. NoOp \in Operation
    BY StoreAssumption DEF NoOp, Operation
  <2> QED
    BY <2>1, <2>2 DEF TypeOK, Removing
<1>3. EntriesOK /\ CallsOK /\ PublishedOK
  BY <1>1 DEF EntriesOK, CallsOK, PublishedOK
<1>4. SyncedOK /\ ReconciledOK /\ StagedOK /\ JournalsOK /\ OwedOK
  BY <1>1 DEF SyncedOK, ReconciledOK, StagedOK, JournalsOK, Versions, Absent, OwedOK, OwedSurvives
<1> QED
  BY <1>2, <1>3, <1>4 DEF IInv

\* Condemned states are unpinned in every version, and so in the namespace.
LEMMA Condemned == IInv /\ Sound => CondemnedUnpinned
BY DEF IInv, TypeOK, CondemnedUnpinned, Journaled, JournaledIn, OwnersIn, Valid, ValidIn, JournalsOK,
   Versions, Entry

LEMMA StartKeeps ==
  ASSUME IInv, NEW p \in Runtimes, NEW call \in Calls \cup {"prune"},
         NEW id \in Ids \cup {NoId}, call \in Calls => id \in Ids, Start(p, call, id)
  PROVE  IInv'
<1> USE DEF IInv, Start
<1>1. TypeOK'
  BY DEF TypeOK, Operation, Removing, Calls
<1>2. EntriesOK' /\ CallsOK'
  BY DEF EntriesOK, CallsOK, Calls
<1>3. ASSUME Sound' PROVE SyncedOK' /\ ReconciledOK' /\ StagedOK' /\ JournalsOK'
  BY <1>3 DEF Sound, SyncedOK, ReconciledOK, StagedOK, JournalsOK, Versions
<1>4. PublishedOK'
  BY DEF PublishedOK, Valid, ValidIn
<1>5. ASSUME Sound' PROVE OwedOK'
  BY <1>5 DEF Sound, OwedOK, OwedSurvives, Valid, ValidIn, SyncedOK
<1> QED
  BY <1>1, <1>2, <1>3, <1>4, <1>5

LEMMA DiscardKeeps == ASSUME IInv, NEW id \in Ids, Discard(id) PROVE IInv'
<1> USE DEF IInv, Discard
<1>1. TypeOK'
  BY DEF TypeOK, Operation, Removing
<1>2. EntriesOK' /\ CallsOK'
  BY DEF EntriesOK, CallsOK, Calls
<1>3. ASSUME Sound' PROVE SyncedOK' /\ ReconciledOK' /\ StagedOK' /\ JournalsOK'
  BY <1>3 DEF Sound, SyncedOK, ReconciledOK, StagedOK, JournalsOK, Versions
<1>4. PublishedOK'
  BY DEF PublishedOK, Valid, ValidIn
<1>5. ASSUME Sound' PROVE OwedOK'
  BY <1>5 DEF Sound, OwedOK, OwedSurvives, Valid, ValidIn, SyncedOK
<1> QED
  BY <1>1, <1>2, <1>3, <1>4, <1>5

\* A state that is whole in every version, and not expired.
Safe(id) == /\ id \notin expired
            /\ \A e \in Versions(id) : e.kind = "valid"

LEMMA OwedIsSafe == IInv /\ Sound => \A id \in owed : Safe(id)
BY DEF IInv, OwedOK, OwedSurvives, Safe, Versions, Valid, ValidIn

\* An operation that ends with everything synchronized, or where power is safe.
LEMMA UnlockKeeps ==
  ASSUME IInv, Unlock, UNCHANGED <<faults, dir>>,
         disk' \in [Ids -> Entry],
         \A id \in Ids : disk'[id] \in {dir[id], disk[id]},
         Sound /\ "power" \in faults => disk' = dir,
         staging' \in BOOLEAN, UNCHANGED expired, live' \subseteq Runtimes, owed' \subseteq Ids,
         Sound => \A id \in owed' : Safe(id)
  PROVE  IInv'
<1> USE DEF IInv, Unlock
<1>1. TypeOK'
  BY StoreAssumption DEF TypeOK, Operation, NoOp, Removing
<1>2. EntriesOK' /\ CallsOK'
  BY DEF EntriesOK, CallsOK, Calls, NoOp
<1>3. ASSUME Sound' PROVE SyncedOK' /\ ReconciledOK' /\ StagedOK' /\ JournalsOK'
  BY <1>3 DEF Sound, SyncedOK, ReconciledOK, StagedOK, JournalsOK, Versions
<1>4. PublishedOK'
  BY DEF PublishedOK
<1>5. ASSUME Sound' PROVE OwedOK'
  BY <1>5 DEF Sound, OwedOK, OwedSurvives, Safe, Versions, TypeOK, Valid, ValidIn
<1> QED
  BY <1>1, <1>2, <1>3, <1>4, <1>5

\* Synchronizing a namespace whose changes are entries that came or went.
LEMMA NamespaceSynced ==
  ASSUME IInv, Sound, SyncNamespace, UNCHANGED <<faults, dir>>,
         at \in {"published", "repairing", "evicting", "removing", "sweeping"}
  PROVE  "power" \in faults => disk' = dir'
<1> SUFFICES ASSUME "power" \in faults PROVE disk' = dir
  OBVIOUS
<1>1. disk' = [id \in Ids |-> IF (dir[id].kind = "absent") # (disk[id].kind = "absent")
                              THEN dir[id] ELSE disk[id]]
  BY DEF SyncNamespace, Sync
<1>2. ASSUME NEW id \in Ids PROVE disk'[id] = dir[id]
  BY <1>1 DEF IInv, SyncedOK, EntriesOK, Absent
<1>3. dir \in [Ids -> Entry]
  BY DEF IInv, TypeOK
<1> QED
  BY <1>1, <1>2, <1>3

\* It keeps every version one of those there were.
LEMMA SyncKeepsType ==
  ASSUME IInv, SyncNamespace
  PROVE  /\ disk' \in [Ids -> Entry]
         /\ \A id \in Ids : disk'[id] \in {dir[id], disk[id]}
BY DEF IInv, TypeOK, SyncNamespace, Sync

LEMMA ScanPendingKeeps == ASSUME IInv, ScanPending PROVE IInv'
<1>1. CASE ScanTooLarge
  <2>1. Unlock /\ UNCHANGED <<faults, dir, disk, staging, expired, live, owed>> /\ at = "pending"
    BY <1>1 DEF ScanPending
  <2> QED
    BY <2>1, UnlockKeeps, OwedIsSafe DEF IInv, TypeOK, SyncedOK
<1>2. CASE ~ScanTooLarge
  <2> USE DEF IInv
  <2>0. /\ at = "pending"
        /\ at' = IF Owners = {} THEN "sweeping" ELSE "repairing"
        /\ todo' \subseteq Journaled
        /\ owed' \subseteq owed
        /\ UNCHANGED <<faults, dir, disk, staging, expired, live, op>>
        /\ Owners = {} => todo' = {}
    BY <1>2 DEF ScanPending, Journaled, JournaledIn, Owners
  <2>1. Journaled \subseteq Ids
    BY DEF TypeOK, Journaled, JournaledIn, OwnersIn, ValidIn, Entry
  <2>2. TypeOK'
    BY <2>0, <2>1 DEF TypeOK, Removing
  <2>3. EntriesOK' /\ CallsOK' /\ PublishedOK'
    BY <2>0 DEF EntriesOK, CallsOK, PublishedOK
  <2>4. ASSUME Sound' PROVE OwedOK'
    <3>1. todo' \cap owed' = {}
      <4>1. /\ todo' = Journaled \cap Present
            /\ owed' = owed \ UNION {dir[o].journal :
                         o \in {w \in Owners : "power" \in faults => disk[w].kind = "valid"}}
        BY <1>2 DEF ScanPending
      <4>2. {w \in Owners : "power" \in faults => disk[w].kind = "valid"} = Owners
        BY <2>0, <2>4 DEF Sound, SyncedOK, Owners, OwnersIn, ValidIn
      <4> QED
        BY <4>1, <4>2 DEF Journaled, JournaledIn, Owners
    <3> QED
      BY <2>0, <2>4, <3>1 DEF Sound, OwedOK, OwedSurvives, Valid, ValidIn
  <2>5. ASSUME Sound' PROVE SyncedOK' /\ ReconciledOK' /\ StagedOK' /\ JournalsOK'
    <3>1. Sound
      BY <2>0, <2>5 DEF Sound
    <3>2. SyncedOK' /\ StagedOK' /\ JournalsOK'
      BY <2>0, <3>1 DEF SyncedOK, StagedOK, JournalsOK, Versions
    <3>3. ReconciledOK'
      BY <2>0, <3>1 DEF SyncedOK, ReconciledOK, Versions, Owners, OwnersIn, ValidIn
    <3> QED
      BY <3>2, <3>3
  <2> QED
    BY <2>2, <2>3, <2>4, <2>5
<1> QED
  BY <1>1, <1>2

LEMMA RepairedKeeps == ASSUME IInv, Repaired PROVE IInv'
<1>0. /\ at = "repairing" /\ SyncNamespace
      /\ UNCHANGED <<faults, dir, staging, expired, live>>
  BY DEF Repaired
<1>1. disk' \in [Ids -> Entry] /\ \A id \in Ids : disk'[id] \in {dir[id], disk[id]}
  BY <1>0, SyncKeepsType
<1>2. Sound /\ "power" \in faults => disk' = dir'
  BY <1>0, NamespaceSynced
<1>3. CASE Plans(0, 0, Owners) = {}
  <2>1. Unlock /\ UNCHANGED owed
    BY <1>3 DEF Repaired
  <2> QED
    BY <1>0, <1>1, <1>2, <2>1, UnlockKeeps, OwedIsSafe DEF IInv, TypeOK
<1>4. CASE Plans(0, 0, Owners) # {}
  <2>1. PICK V \in Plans(0, 0, Owners) :
          /\ todo' = V
          /\ at' = IF V = {} THEN "unmarking" ELSE "repairing"
          /\ owed' = owed \ V
          /\ UNCHANGED op
    BY <1>4 DEF Repaired
  <2>2. V \subseteq Ids
    BY DEF Plans, Valid, ValidIn
  <2>3. TypeOK'
    BY <1>0, <1>1, <2>1, <2>2 DEF IInv, TypeOK, Removing
  <2>4. EntriesOK' /\ CallsOK' /\ PublishedOK'
    BY <1>0, <1>1, <2>1 DEF IInv, EntriesOK, CallsOK, PublishedOK
  <2>5. ASSUME Sound' PROVE OwedOK'
    BY <1>0, <1>1, <2>1, <2>5 DEF IInv, Sound, OwedOK, OwedSurvives, Valid, ValidIn
  <2>6. ASSUME Sound' PROVE SyncedOK' /\ ReconciledOK' /\ StagedOK' /\ JournalsOK'
    BY <1>0, <1>2, <2>1, <2>6 DEF IInv, Sound, SyncedOK, ReconciledOK, StagedOK, JournalsOK, Versions
  <2> QED
    BY <2>3, <2>4, <2>5, <2>6 DEF IInv
<1> QED
  BY <1>3, <1>4

\* A journal is cleared in every version that there is of its state.
LEMMA MarkerKept ==
  ASSUME IInv, NEW id \in Ids, NEW entry \in Entry, PutMarker(id, entry),
         entry.kind = dir[id].kind, entry.kind = "absent" => entry = Absent, UNCHANGED faults
  PROVE  /\ dir' \in [Ids -> Entry] /\ disk' \in [Ids -> Entry]
         /\ EntriesOK'
         /\ \A i \in Ids : dir'[i] = IF i = id THEN entry ELSE dir[i]
         /\ \A i \in Ids : disk'[i] \in {disk[i], dir'[i]}
         /\ "power" \in faults =>
              \A i \in Ids : disk'[i] = IF i = id /\ disk[i].kind # "absent" THEN entry ELSE disk[i]
         /\ "power" \in faults /\ disk = dir => disk' = dir'
<1> USE DEF IInv, TypeOK, PutMarker, Put, Sync
<1>1. /\ dir' \in [Ids -> Entry] /\ disk' \in [Ids -> Entry]
      /\ \A i \in Ids : dir'[i] = IF i = id THEN entry ELSE dir[i]
      /\ "power" \in faults =>
           \A i \in Ids : disk'[i] = IF i = id /\ disk[i].kind # "absent" THEN entry ELSE disk[i]
      /\ \A i \in Ids : disk'[i] \in {disk[i], dir'[i]}
  OBVIOUS
<1>2. EntriesOK'
  BY <1>1 DEF EntriesOK
<1>3. ASSUME "power" \in faults, disk = dir PROVE disk' = dir'
  <2>1. \A i \in Ids : disk'[i] = dir'[i]
    BY <1>1, <1>3 DEF EntriesOK
  <2> QED
    BY <1>1, <2>1
<1> QED
  BY <1>1, <1>2, <1>3

LEMMA UnmarkKeeps == ASSUME IInv, NEW o \in Ids, Unmark(o) PROVE IInv'
<1> DEFINE entry == [dir[o] EXCEPT !.journal = {}]
<1>0. /\ at = "unmarking" /\ dir[o].kind = "valid"
      /\ PutMarker(o, entry)
      /\ UNCHANGED <<faults, staging, expired, live, at, op, todo, owed>>
  BY DEF Unmark, Owners, OwnersIn, ValidIn
<1>1. entry \in Entry /\ entry.kind = dir[o].kind /\ entry.pinned = dir[o].pinned /\ entry.journal = {}
  BY DEF IInv, TypeOK, Entry
<1> HIDE DEF entry
<1>2. /\ dir' \in [Ids -> Entry] /\ disk' \in [Ids -> Entry]
      /\ EntriesOK'
      /\ \A i \in Ids : dir'[i] = IF i = o THEN entry ELSE dir[i]
      /\ "power" \in faults /\ disk = dir => disk' = dir'
  BY <1>0, <1>1, MarkerKept
<1>3. TypeOK' /\ CallsOK'
  BY <1>0, <1>2 DEF IInv, TypeOK, CallsOK, Removing
<1>4. ASSUME Sound' PROVE SyncedOK' /\ ReconciledOK' /\ StagedOK' /\ JournalsOK'
  <2>1. Sound /\ SyncedOK' /\ ReconciledOK' /\ StagedOK'
    BY <1>0, <1>2, <1>4 DEF IInv, Sound, SyncedOK, ReconciledOK, StagedOK
  <2>2. \A i \in Ids : \A e \in Versions(i)' :
          \E f \in Versions(i) : e.kind = f.kind /\ e.pinned = f.pinned /\ e.journal \subseteq f.journal
    BY <1>0, <1>1, <1>2, <2>1 DEF IInv, SyncedOK, Versions
  <2>3. JournalsOK'
    BY <2>1, <2>2 DEF IInv, JournalsOK
  <2> QED
    BY <2>1, <2>3
<1>5. PublishedOK'
  BY <1>0 DEF PublishedOK
<1>6. ASSUME Sound' PROVE OwedOK'
  BY <1>0, <1>1, <1>2, <1>6 DEF IInv, Sound, OwedOK, OwedSurvives, Valid, ValidIn, SyncedOK
<1> QED
  BY <1>2, <1>3, <1>4, <1>5, <1>6 DEF IInv

\* What becomes of an operation that notes whether it swept anything.
LEMMA SweptNoted ==
  ASSUME IInv, NEW b \in BOOLEAN, op' = [op EXCEPT !.swept = b]
  PROVE  op' \in Operation /\ op'.swept = b /\ op'.call = op.call /\ op'.id = op.id
BY DEF IInv, TypeOK, Operation

LEMMA UnmarkedKeeps == ASSUME IInv, Unmarked PROVE IInv'
<1>0. /\ at = "unmarking" /\ Owners = {} /\ at' = "sweeping"
      /\ UNCHANGED <<faults, dir, disk, staging, expired, live, todo, owed>>
      /\ op' \in Operation /\ op'.swept /\ op'.call = op.call /\ op'.id = op.id
  BY SweptNoted DEF Unmarked
<1> USE <1>0 DEF IInv
<1>1. TypeOK'
  BY DEF TypeOK, Operation, Removing
<1>2. EntriesOK' /\ CallsOK'
  BY DEF TypeOK, EntriesOK, CallsOK, Operation
<1>3. ASSUME Sound' PROVE SyncedOK' /\ ReconciledOK' /\ StagedOK' /\ JournalsOK'
  BY <1>3 DEF Sound, SyncedOK, ReconciledOK, StagedOK, JournalsOK, Versions, Owners, OwnersIn, ValidIn
<1>4. PublishedOK'
  BY DEF PublishedOK, Valid, ValidIn
<1>5. ASSUME Sound' PROVE OwedOK'
  BY <1>5 DEF Sound, OwedOK, OwedSurvives, Valid, ValidIn
<1> QED
  BY <1>1, <1>2, <1>3, <1>4, <1>5

LEMMA SweepStagingKeeps == ASSUME IInv, SweepStaging PROVE IInv'
<1>0. /\ at = "sweeping"
      /\ staging' = FALSE
      /\ UNCHANGED <<faults, dir, disk, expired, live, at, todo, owed>>
      /\ op' \in Operation /\ op'.swept /\ op'.call = op.call /\ op'.id = op.id
  BY SweptNoted DEF SweepStaging
<1> USE <1>0 DEF IInv
<1>1. TypeOK'
  BY DEF TypeOK, Operation, Removing
<1>2. EntriesOK' /\ CallsOK'
  BY DEF TypeOK, EntriesOK, CallsOK, Operation
<1>3. ASSUME Sound' PROVE SyncedOK' /\ ReconciledOK' /\ StagedOK' /\ JournalsOK'
  BY <1>3 DEF Sound, SyncedOK, ReconciledOK, StagedOK, JournalsOK, Versions
<1>4. PublishedOK'
  BY DEF PublishedOK, Valid, ValidIn
<1>5. ASSUME Sound' PROVE OwedOK'
  BY <1>5 DEF Sound, OwedOK, OwedSurvives, Valid, ValidIn
<1> QED
  BY <1>1, <1>2, <1>3, <1>4, <1>5

\* Entries that go leave nothing in the namespace that was not there.
LEMMA EntryGone ==
  ASSUME IInv, NEW id \in Ids, Put(id, Absent)
  PROVE  /\ dir' \in [Ids -> Entry]
         /\ \A i \in Ids : dir'[i] = IF i = id THEN Absent ELSE dir[i]
BY DEF IInv, TypeOK, Put, Entry, Absent

LEMMA SweepKeeps == ASSUME IInv, NEW id \in Ids, Sweep(id) PROVE IInv'
<1> USE DEF IInv
<1>0. /\ at = "sweeping" /\ Put(id, Absent)
      /\ UNCHANGED <<faults, disk, staging, expired, live, at, todo, owed>>
      /\ op' \in Operation /\ op'.swept /\ op'.call = op.call /\ op'.id = op.id
      /\ dir[id].kind = "valid" => id \in expired
  BY SweptNoted DEF Sweep, Sweepable
<1>1. dir' \in [Ids -> Entry] /\ \A i \in Ids : dir'[i] = IF i = id THEN Absent ELSE dir[i]
  BY <1>0, EntryGone
<1>2. TypeOK'
  BY <1>0, <1>1 DEF TypeOK, Operation, Removing
<1>3. EntriesOK' /\ CallsOK'
  BY <1>0, <1>1 DEF TypeOK, EntriesOK, CallsOK, Operation
<1>4. ASSUME Sound' PROVE SyncedOK' /\ ReconciledOK' /\ StagedOK' /\ JournalsOK'
  BY <1>0, <1>1, <1>4 DEF Sound, SyncedOK, ReconciledOK, StagedOK, JournalsOK, Versions, Absent
<1>5. PublishedOK'
  BY <1>0, <1>1 DEF PublishedOK, Valid, ValidIn
<1>6. ASSUME Sound' PROVE OwedOK'
  BY <1>0, <1>1, <1>6 DEF Sound, OwedOK, OwedSurvives, Valid, ValidIn, SyncedOK
<1> QED
  BY <1>2, <1>3, <1>4, <1>5, <1>6

LEMMA SweptKeeps == ASSUME IInv, Swept PROVE IInv'
<1>0. /\ at = "sweeping" /\ at' = "ready"
      /\ UNCHANGED <<faults, dir, staging, expired, live, todo, owed>>
      /\ SyncNamespace \/ (~op.swept /\ UNCHANGED disk)
      /\ op' \in Operation /\ op'.call = op.call /\ op'.id = op.id
  BY SweptNoted DEF Swept
<1>1. disk' \in [Ids -> Entry] /\ \A id \in Ids : disk'[id] \in {dir[id], disk[id]}
  BY <1>0, SyncKeepsType DEF IInv, TypeOK
<1>2. Sound /\ "power" \in faults => disk' = dir'
  BY <1>0, NamespaceSynced DEF IInv, SyncedOK
<1>3. TypeOK'
  BY <1>0, <1>1 DEF IInv, TypeOK, Removing
<1>4. EntriesOK' /\ CallsOK'
  BY <1>0, <1>1 DEF IInv, EntriesOK, CallsOK
<1>5. ASSUME Sound' PROVE SyncedOK' /\ ReconciledOK' /\ StagedOK' /\ JournalsOK'
  BY <1>0, <1>2, <1>5 DEF IInv, Sound, SyncedOK, ReconciledOK, StagedOK, JournalsOK, Versions
<1>6. PublishedOK'
  BY <1>0 DEF PublishedOK
<1>7. ASSUME Sound' PROVE OwedOK'
  BY <1>0, <1>1, <1>2, <1>7 DEF IInv, Sound, OwedOK, OwedSurvives, Valid, ValidIn
<1> QED
  BY <1>3, <1>4, <1>5, <1>6, <1>7 DEF IInv

-----------------------------------------------------------------------------

LEMMA StageKeeps == ASSUME IInv, Stage PROVE IInv'
<1>0. /\ at = "ready" /\ at' = "staged" /\ op.call = "commit" /\ op.id \in Ids
      /\ dir[op.id].kind = "absent"
      /\ staging' = TRUE
      /\ UNCHANGED <<faults, dir, disk, expired, live, todo, owed>>
  BY DEF Stage, Present, IInv, CallsOK, Calls
<1>1. PICK V \in Plans(Size[op.id], 1, {}) : op' = [op EXCEPT !.victims = V]
  BY DEF Stage
<1>2. V \subseteq Ids /\ \A v \in V : dir[v].kind = "valid" /\ ~dir[v].pinned
  BY DEF Plans, Valid, ValidIn
<1>3. op' \in Operation /\ op'.victims = V /\ op'.call = op.call /\ op'.id = op.id
  BY <1>1, <1>2 DEF IInv, TypeOK, Operation
<1>4. TypeOK'
  BY <1>0, <1>3 DEF IInv, TypeOK, Removing
<1>5. EntriesOK' /\ CallsOK'
  BY <1>0, <1>3 DEF IInv, EntriesOK, CallsOK
<1>6. ASSUME Sound' PROVE SyncedOK' /\ ReconciledOK' /\ StagedOK' /\ JournalsOK'
  <2>1. StagedOK'
    BY <1>0, <1>2, <1>3 DEF IInv, EntriesOK, StagedOK
  <2>2. SyncedOK' /\ ReconciledOK' /\ JournalsOK'
    BY <1>0, <1>6 DEF IInv, Sound, SyncedOK, ReconciledOK, JournalsOK, Versions
  <2> QED
    BY <2>1, <2>2
<1>7. PublishedOK'
  BY <1>0, <1>2, <1>3 DEF PublishedOK
<1>8. ASSUME Sound' PROVE OwedOK'
  BY <1>0, <1>8 DEF IInv, Sound, OwedOK, OwedSurvives, Valid, ValidIn
<1> QED
  BY <1>4, <1>5, <1>6, <1>7, <1>8 DEF IInv

LEMMA PublishKeeps == ASSUME IInv, Publish PROVE IInv'
<1>0. /\ at = "staged" /\ at' = "published" /\ op.id \in Ids /\ op.victims \subseteq Ids
      /\ staging' = FALSE /\ expired' = expired \ {op.id}
      /\ UNCHANGED <<faults, disk, live, op, todo, owed>>
  BY DEF Publish, IInv, CallsOK, Calls, TypeOK, Operation
<1>1. PICK pinned \in BOOLEAN :
        Put(op.id, [kind |-> "valid", pinned |-> pinned, journal |-> op.victims])
  BY DEF Publish
<1> DEFINE entry == [kind |-> "valid", pinned |-> pinned, journal |-> op.victims]
<1>2. entry \in Entry /\ entry.kind = "valid" /\ entry.journal = op.victims
  BY <1>0 DEF Entry
<1> HIDE DEF entry
<1>3. dir' \in [Ids -> Entry] /\ \A i \in Ids : dir'[i] = IF i = op.id THEN entry ELSE dir[i]
  BY <1>0, <1>1, <1>2 DEF Put, IInv, TypeOK, entry
<1>4. TypeOK'
  BY <1>0, <1>3 DEF IInv, TypeOK, Removing
<1>5. EntriesOK' /\ CallsOK'
  BY <1>0, <1>2, <1>3 DEF IInv, EntriesOK, CallsOK
<1>6. ASSUME Sound' PROVE SyncedOK' /\ ReconciledOK' /\ StagedOK' /\ JournalsOK'
  <2>1. Sound /\ SyncedOK' /\ ReconciledOK' /\ StagedOK'
    BY <1>0, <1>3, <1>6 DEF IInv, Sound, SyncedOK, ReconciledOK, StagedOK, Absent
  <2>2. \A i \in Ids : \A e \in Versions(i)' :
          \/ i = op.id /\ e = entry
          \/ e \in Versions(i) /\ (e.kind = "valid" => e.journal = {} /\ i # op.id)
    BY <1>0, <1>3, <2>1 DEF IInv, SyncedOK, ReconciledOK, StagedOK, Versions, Absent
  <2>3. \A v \in op.victims : v # op.id /\ \A f \in Versions(v) : ~f.pinned
    BY <1>0, <2>1 DEF IInv, SyncedOK, StagedOK, PublishedOK, Versions
  <2>4. JournalsOK'
    BY <1>2, <2>1, <2>2, <2>3 DEF JournalsOK
  <2> QED
    BY <2>1, <2>4
<1>7. PublishedOK'
  BY <1>0, <1>2, <1>3 DEF IInv, TypeOK, Removing, PublishedOK, Valid, ValidIn
<1>8. ASSUME Sound' PROVE OwedOK'
  BY <1>0, <1>2, <1>3, <1>8 DEF IInv, Sound, OwedOK, OwedSurvives, Valid, ValidIn
<1> QED
  BY <1>4, <1>5, <1>6, <1>7, <1>8 DEF IInv

LEMMA SyncPublishedKeeps == ASSUME IInv, SyncPublished PROVE IInv'
<1>0. /\ at = "published" /\ SyncNamespace
      /\ at' = IF op.victims = {} THEN "returning" ELSE "evicting"
      /\ todo' = op.victims \cap Present
      /\ owed' = owed \ op.victims
      /\ UNCHANGED <<faults, dir, staging, expired, live, op>>
  BY DEF SyncPublished
<1>1. disk' \in [Ids -> Entry] /\ \A id \in Ids : disk'[id] \in {dir[id], disk[id]}
  BY <1>0, SyncKeepsType
<1>2. Sound /\ "power" \in faults => disk' = dir'
  BY <1>0, NamespaceSynced
<1>3. TypeOK'
  BY <1>0, <1>1 DEF IInv, TypeOK, Removing, Present
<1>4. EntriesOK' /\ CallsOK'
  BY <1>0, <1>1 DEF IInv, EntriesOK, CallsOK
<1>5. ASSUME Sound' PROVE SyncedOK' /\ ReconciledOK' /\ StagedOK' /\ JournalsOK'
  BY <1>0, <1>2, <1>5 DEF IInv, Sound, SyncedOK, ReconciledOK, StagedOK, JournalsOK, Versions
<1>6. PublishedOK'
  BY <1>0 DEF IInv, PublishedOK, Valid, ValidIn
<1>7. ASSUME Sound' PROVE OwedOK'
  BY <1>0, <1>1, <1>7 DEF IInv, Sound, OwedOK, OwedSurvives, Valid, ValidIn
<1> QED
  BY <1>3, <1>4, <1>5, <1>6, <1>7 DEF IInv

LEMMA EvictedKeeps == ASSUME IInv, Evicted PROVE IInv'
<1>0. /\ at = "evicting" /\ at' = "clearing" /\ SyncNamespace /\ todo = {}
      /\ UNCHANGED <<faults, dir, staging, expired, live, op, todo, owed>>
  BY DEF Evicted
<1>1. disk' \in [Ids -> Entry] /\ \A id \in Ids : disk'[id] \in {dir[id], disk[id]}
  BY <1>0, SyncKeepsType
<1>2. Sound /\ "power" \in faults => disk' = dir'
  BY <1>0, NamespaceSynced
<1>3. TypeOK'
  BY <1>0, <1>1 DEF IInv, TypeOK, Removing
<1>4. EntriesOK' /\ CallsOK'
  BY <1>0, <1>1 DEF IInv, EntriesOK, CallsOK
<1>5. ASSUME Sound' PROVE SyncedOK' /\ ReconciledOK' /\ StagedOK' /\ JournalsOK'
  BY <1>0, <1>2, <1>5 DEF IInv, Sound, SyncedOK, ReconciledOK, StagedOK, JournalsOK, Versions
<1>6. PublishedOK'
  BY <1>0 DEF IInv, PublishedOK, Valid, ValidIn
<1>7. ASSUME Sound' PROVE OwedOK'
  BY <1>0, <1>1, <1>7 DEF IInv, Sound, OwedOK, OwedSurvives, Valid, ValidIn
<1> QED
  BY <1>3, <1>4, <1>5, <1>6, <1>7 DEF IInv

LEMMA ClearKeeps == ASSUME IInv, Clear PROVE IInv'
<1> DEFINE entry == [dir[op.id] EXCEPT !.journal = {}]
<1>0. /\ at = "clearing" /\ at' = "returning" /\ op.id \in Ids
      /\ PutMarker(op.id, entry)
      /\ UNCHANGED <<faults, staging, expired, live, op, todo, owed>>
  BY DEF Clear, IInv, CallsOK, Calls
<1>1. dir[op.id].kind = "absent" => dir[op.id] = Absent
  BY <1>0 DEF IInv, EntriesOK
<1>2. /\ entry \in Entry /\ entry.kind = dir[op.id].kind /\ entry.pinned = dir[op.id].pinned
      /\ entry.journal = {}
  BY <1>0 DEF IInv, TypeOK, Entry
<1>3. entry.kind = "absent" => entry = Absent
  <2>1. [Absent EXCEPT !.journal = {}] = Absent
    BY DEF Absent
  <2> QED
    BY <1>1, <1>2, <2>1, Zenon
<1> HIDE DEF entry
<1>4. /\ dir' \in [Ids -> Entry] /\ disk' \in [Ids -> Entry]
      /\ EntriesOK'
      /\ \A i \in Ids : dir'[i] = IF i = op.id THEN entry ELSE dir[i]
      /\ "power" \in faults /\ disk = dir => disk' = dir'
  BY <1>0, <1>2, <1>3, MarkerKept
<1>5. TypeOK' /\ CallsOK'
  BY <1>0, <1>4 DEF IInv, TypeOK, CallsOK, Removing
<1>6. ASSUME Sound' PROVE SyncedOK' /\ ReconciledOK' /\ StagedOK' /\ JournalsOK'
  <2>1. Sound /\ SyncedOK' /\ ReconciledOK' /\ StagedOK'
    BY <1>0, <1>4, <1>6 DEF IInv, Sound, SyncedOK, ReconciledOK, StagedOK
  <2>2. \A i \in Ids : \A e \in Versions(i)' :
          \E f \in Versions(i) : e.kind = f.kind /\ e.pinned = f.pinned /\ e.journal \subseteq f.journal
    BY <1>0, <1>2, <1>4, <2>1 DEF IInv, SyncedOK, Versions
  <2>3. JournalsOK'
    BY <2>1, <2>2 DEF IInv, JournalsOK
  <2> QED
    BY <2>1, <2>3
<1>7. PublishedOK'
  BY <1>0, <1>2, <1>4 DEF IInv, PublishedOK, Valid, ValidIn
<1>8. ASSUME Sound' PROVE OwedOK'
  BY <1>0, <1>2, <1>4, <1>8 DEF IInv, Sound, OwedOK, OwedSurvives, SyncedOK, Valid, ValidIn
<1> QED
  BY <1>4, <1>5, <1>6, <1>7, <1>8 DEF IInv

LEMMA EvictionFailsKeeps == ASSUME IInv, EvictionFails PROVE IInv'
<1> USE DEF IInv, EvictionFails
<1>1. TypeOK'
  BY DEF TypeOK, Removing
<1>2. EntriesOK' /\ CallsOK'
  BY DEF EntriesOK, CallsOK
<1>3. ASSUME Sound' PROVE SyncedOK' /\ ReconciledOK' /\ StagedOK' /\ JournalsOK'
  BY <1>3 DEF Sound, SyncedOK, ReconciledOK, StagedOK, JournalsOK, Versions
<1>4. PublishedOK'
  BY DEF PublishedOK, Valid, ValidIn
<1>5. ASSUME Sound' PROVE OwedOK'
  BY <1>5 DEF Sound, OwedOK, OwedSurvives, Valid, ValidIn
<1> QED
  BY <1>1, <1>2, <1>3, <1>4, <1>5

-----------------------------------------------------------------------------

LEMMA CommitEndsKeep ==
  ASSUME IInv, CommitRefused \/ StagingFails \/ CommitReturns \/ LoadMissing \/ Load
  PROVE  IInv'
<1>1. CASE CommitRefused \/ LoadMissing \/ Load
  <2>1. /\ at = "ready" /\ Unlock
        /\ UNCHANGED <<faults, dir, disk, staging, expired, live, owed>>
    BY <1>1 DEF CommitRefused, LoadMissing, Load
  <2> QED
    BY <2>1, UnlockKeeps, OwedIsSafe DEF IInv, TypeOK, SyncedOK
<1>2. CASE StagingFails
  <2>1. /\ at = "staged" /\ Unlock /\ staging' \in BOOLEAN
        /\ UNCHANGED <<faults, dir, disk, expired, live, owed>>
    BY <1>2 DEF StagingFails
  <2> QED
    BY <2>1, UnlockKeeps, OwedIsSafe DEF IInv, TypeOK, SyncedOK
<1>3. CASE CommitReturns
  <2>1. /\ at = "returning" /\ Unlock /\ op.id \in Ids
        /\ owed' = owed \cup ({op.id} \ expired)
        /\ UNCHANGED <<faults, dir, disk, staging, expired, live>>
    BY <1>3 DEF CommitReturns, IInv, CallsOK, Calls
  <2>2. Sound => \A id \in owed' : Safe(id)
    BY <2>1, OwedIsSafe DEF IInv, SyncedOK, PublishedOK, Safe, Versions, Valid, ValidIn
  <2> QED
    BY <2>1, <2>2, UnlockKeeps DEF IInv, TypeOK, SyncedOK
<1> QED
  BY <1>1, <1>2, <1>3

LEMMA RemovalStartsKeep == ASSUME IInv, LoadDamaged \/ Prune PROVE IInv'
<1>0. /\ at = "ready" /\ at' = "removing" /\ todo' \subseteq Ids /\ owed' \subseteq owed
      /\ UNCHANGED <<faults, dir, disk, staging, expired, live, op>>
  BY DEF LoadDamaged, Prune, Present, Valid, ValidIn
<1> USE <1>0 DEF IInv
<1>1. TypeOK'
  BY DEF TypeOK, Removing
<1>2. EntriesOK' /\ CallsOK'
  BY DEF EntriesOK, CallsOK
<1>3. ASSUME Sound' PROVE SyncedOK' /\ ReconciledOK' /\ StagedOK' /\ JournalsOK'
  BY <1>3 DEF Sound, SyncedOK, ReconciledOK, StagedOK, JournalsOK, Versions
<1>4. PublishedOK'
  BY DEF PublishedOK, Valid, ValidIn
<1>5. ASSUME Sound' PROVE OwedOK'
  BY <1>5 DEF Sound, OwedOK, OwedSurvives, Valid, ValidIn, LoadDamaged, Prune, Present
<1> QED
  BY <1>1, <1>2, <1>3, <1>4, <1>5

\* A pin is set or taken back only where no journal is left.
LEMMA SetPinnedKeeps == ASSUME IInv, SetPinned PROVE IInv'
<1> DEFINE entry == [dir[op.id] EXCEPT !.pinned = (op.call = "pin")]
<1>0. /\ at = "ready" /\ op.id \in Ids /\ dir[op.id].kind = "valid"
      /\ PutMarker(op.id, entry) /\ Unlock
      /\ UNCHANGED <<faults, staging, expired, live, owed>>
  BY DEF SetPinned, IInv, CallsOK, Calls, Valid, ValidIn
<1>1. entry \in Entry /\ entry.kind = "valid" /\ entry.journal = dir[op.id].journal
  BY <1>0 DEF IInv, TypeOK, Entry
<1> HIDE DEF entry
<1>2. /\ dir' \in [Ids -> Entry] /\ disk' \in [Ids -> Entry]
      /\ EntriesOK'
      /\ \A i \in Ids : dir'[i] = IF i = op.id THEN entry ELSE dir[i]
      /\ "power" \in faults /\ disk = dir => disk' = dir'
  BY <1>0, <1>1, MarkerKept
<1>3. TypeOK'
  BY <1>0, <1>2, StoreAssumption DEF IInv, TypeOK, Unlock, Operation, NoOp, Removing
<1>4. CallsOK'
  BY <1>0 DEF CallsOK, Unlock
<1>5. ASSUME Sound' PROVE SyncedOK' /\ ReconciledOK' /\ StagedOK' /\ JournalsOK'
  <2>1. Sound /\ SyncedOK' /\ ReconciledOK' /\ StagedOK'
    BY <1>0, <1>2, <1>5 DEF IInv, Sound, SyncedOK, ReconciledOK, StagedOK, Unlock
  <2>2. \A i \in Ids : \A e \in Versions(i)' : e.kind = "valid" => e.journal = {}
    BY <1>0, <1>1, <1>2, <2>1 DEF IInv, SyncedOK, ReconciledOK, Versions
  <2> QED
    BY <2>1, <2>2 DEF JournalsOK
<1>6. PublishedOK'
  BY <1>0 DEF PublishedOK, Unlock
<1>7. ASSUME Sound' PROVE OwedOK'
  BY <1>0, <1>1, <1>2, <1>7 DEF IInv, Sound, OwedOK, OwedSurvives, SyncedOK, Unlock, Valid, ValidIn
<1> QED
  BY <1>2, <1>3, <1>4, <1>5, <1>6, <1>7 DEF IInv

LEMMA RemoveKeeps == ASSUME IInv, NEW id \in Ids, Remove(id) PROVE IInv'
<1> USE DEF IInv
<1>0. /\ at \in {"repairing", "evicting", "removing"} /\ Put(id, Absent)
      /\ todo' = todo \ {id}
      /\ UNCHANGED <<faults, disk, staging, expired, live, at, op, owed>>
  BY DEF Remove, Removing
<1>1. dir' \in [Ids -> Entry] /\ \A i \in Ids : dir'[i] = IF i = id THEN Absent ELSE dir[i]
  BY <1>0, EntryGone
<1>2. TypeOK'
  BY <1>0, <1>1 DEF TypeOK, Removing
<1>3. EntriesOK' /\ CallsOK'
  BY <1>0, <1>1 DEF EntriesOK, CallsOK
<1>4. ASSUME Sound' PROVE SyncedOK' /\ ReconciledOK' /\ StagedOK' /\ JournalsOK'
  BY <1>0, <1>1, <1>4 DEF Sound, SyncedOK, ReconciledOK, StagedOK, JournalsOK, Versions, Absent
<1>5. PublishedOK'
  BY <1>0, <1>1 DEF PublishedOK, Valid, ValidIn, Remove
<1>6. ASSUME Sound' PROVE OwedOK'
  BY <1>0, <1>1, <1>6 DEF Sound, OwedOK, OwedSurvives, Valid, ValidIn, SyncedOK, Remove
<1> QED
  BY <1>2, <1>3, <1>4, <1>5, <1>6

LEMMA RemovedKeeps == ASSUME IInv, Removed \/ RemovalFails PROVE IInv'
<1>1. CASE Removed
  <2>1. /\ at = "removing" /\ SyncNamespace /\ Unlock
        /\ UNCHANGED <<faults, dir, staging, expired, live, owed>>
    BY <1>1 DEF Removed
  <2>2. disk' \in [Ids -> Entry] /\ \A id \in Ids : disk'[id] \in {dir[id], disk[id]}
    BY <2>1, SyncKeepsType
  <2>3. Sound /\ "power" \in faults => disk' = dir
    BY <2>1, NamespaceSynced
  <2> QED
    BY <2>1, <2>2, <2>3, UnlockKeeps, OwedIsSafe DEF IInv, TypeOK
<1>2. CASE RemovalFails
  <2>1. /\ "io" \in faults /\ Unlock
        /\ UNCHANGED <<faults, dir, disk, staging, expired, live, owed>>
    BY <1>2 DEF RemovalFails
  <2> QED
    BY <2>1, UnlockKeeps, OwedIsSafe DEF IInv, TypeOK, Sound
<1> QED
  BY <1>1, <1>2

-----------------------------------------------------------------------------

LEMMA TimePassesKeeps ==
  ASSUME IInv, (\E id \in Ids : Expire(id)) \/ (\E p \in Runtimes : Exit(p))
  PROVE  IInv'
<1>0. /\ expired' \subseteq Ids /\ owed' \subseteq owed /\ live' \subseteq Runtimes
      /\ owed' \cap (expired' \ expired) = {}
      /\ UNCHANGED <<faults, dir, disk, staging, at, op, todo>>
  BY DEF Expire, Exit, IInv, TypeOK
<1> USE <1>0 DEF IInv
<1>1. TypeOK'
  BY DEF TypeOK, Removing
<1>2. EntriesOK' /\ CallsOK'
  BY DEF EntriesOK, CallsOK
<1>3. ASSUME Sound' PROVE SyncedOK' /\ ReconciledOK' /\ StagedOK' /\ JournalsOK'
  BY <1>3 DEF Sound, SyncedOK, ReconciledOK, StagedOK, JournalsOK, Versions
<1>4. PublishedOK'
  BY DEF PublishedOK, Valid, ValidIn
<1>5. ASSUME Sound' PROVE OwedOK'
  BY <1>5 DEF Sound, OwedOK, OwedSurvives, Valid, ValidIn
<1> QED
  BY <1>1, <1>2, <1>3, <1>4, <1>5

\* What is left of an entry whose removal was cut short has no more pins and
\* no more victims than the entry had.
LEMMA HalvesShrink ==
  ASSUME NEW entry \in Entry, NEW half \in Halves(entry), entry.kind = "absent" => entry = Absent
  PROVE  /\ half \in Entry
         /\ half.kind = "absent" => half = Absent
         /\ half.kind = "valid" => entry.kind = "valid"
         /\ half.journal \subseteq entry.journal
         /\ half.pinned => entry.pinned
<1>1. PICK k \in {"absent", "valid", "torn"}, p \in BOOLEAN, J \in SUBSET Ids :
        entry = [kind |-> k, pinned |-> p, journal |-> J]
  BY DEF Entry
<1>2. \/ half = Torn
      \/ half = [kind |-> k, pinned |-> FALSE, journal |-> J]
      \/ half = [kind |-> k, pinned |-> p, journal |-> {}]
      \/ half = [kind |-> k, pinned |-> FALSE, journal |-> {}]
  BY <1>1 DEF Halves
<1>3. entry.kind = k /\ entry.pinned = p /\ entry.journal = J
  BY <1>1
<1>4. k = "absent" => p = FALSE /\ J = {}
  BY <1>1, <1>3 DEF Absent
<1>5. CASE half = Torn
  BY <1>5 DEF Torn, Entry
<1>6. ASSUME NEW q \in {p, FALSE}, NEW K \in {J, {}}, half = [kind |-> k, pinned |-> q, journal |-> K]
      PROVE  /\ half \in Entry
             /\ half.kind = "absent" => half = Absent
             /\ half.kind = "valid" => entry.kind = "valid"
             /\ half.journal \subseteq entry.journal
             /\ half.pinned => entry.pinned
  <2>1. half.kind = k /\ half.pinned = q /\ half.journal = K
    BY <1>6
  <2>2. half \in Entry
    BY <1>6 DEF Entry
  <2>3. k = "absent" => q = FALSE /\ K = {}
    BY <1>4
  <2> QED
    BY <1>3, <1>6, <2>1, <2>2, <2>3 DEF Absent
<1> QED
  BY <1>2, <1>5, <1>6

\* What a crash leaves of each state is one of its versions, or a part of it.
LEMMA CrashKeeps ==
  ASSUME IInv, Unlock, dir' \in [Ids -> Entry], disk' \in [Ids -> Entry], EntriesOK',
         \A i \in Ids : \E e \in Versions(i) :
           /\ dir'[i].kind = "valid" => e.kind = "valid"
           /\ dir'[i].journal \subseteq e.journal
           /\ dir'[i].pinned => e.pinned,
         Sound /\ "power" \in faults => disk' = dir',
         Sound => \A id \in owed : dir'[id].kind = "valid",
         UNCHANGED <<faults, expired, owed>>, staging' \in BOOLEAN, live' \subseteq Runtimes
  PROVE  IInv'
<1> USE DEF IInv, Unlock
<1>1. TypeOK'
  BY StoreAssumption DEF TypeOK, Operation, NoOp, Removing
<1>2. CallsOK' /\ PublishedOK'
  BY DEF CallsOK, PublishedOK
<1>3. ASSUME Sound' PROVE OwedOK'
  BY <1>3 DEF Sound, OwedOK, OwedSurvives, TypeOK, Valid, ValidIn
<1>4. ASSUME Sound' PROVE SyncedOK' /\ ReconciledOK' /\ StagedOK' /\ JournalsOK'
  <2>1. SyncedOK' /\ ReconciledOK' /\ StagedOK'
    BY <1>4 DEF Sound, SyncedOK, ReconciledOK, StagedOK
  <2>2. \A i \in Ids : Versions(i)' = {dir'[i]}
    BY <1>4 DEF Sound, Versions
  <2>3. JournalsOK
    BY <1>4 DEF Sound
  <2>4. JournalsOK'
    BY <2>2, <2>3 DEF JournalsOK
  <2> QED
    BY <2>1, <2>4
<1> QED
  BY <1>1, <1>2, <1>3, <1>4

LEMMA InterruptKeeps ==
  ASSUME IInv, Interrupt, "kill" \in faults \/ "interrupt" \in faults, live' \subseteq Runtimes
  PROVE  IInv'
<1>0. Unlock /\ UNCHANGED <<faults, disk, staging, expired, owed>>
  BY DEF Interrupt
<1>1. CASE UNCHANGED dir
  BY <1>0, <1>1, UnlockKeeps, OwedIsSafe DEF IInv, TypeOK, Sound
<1>2. CASE Removing /\ \E id \in todo : \E half \in Halves(dir[id]) : Put(id, half)
  <2>1. PICK id \in todo : \E half \in Halves(dir[id]) : Put(id, half)
    BY <1>2
  <2>2. PICK half \in Halves(dir[id]) : Put(id, half)
    BY <2>1
  <2>3. id \in Ids /\ dir[id] \in Entry /\ (dir[id].kind = "absent" => dir[id] = Absent)
    BY DEF IInv, TypeOK, EntriesOK
  <2>4. /\ half \in Entry
        /\ half.kind = "absent" => half = Absent
        /\ half.kind = "valid" => dir[id].kind = "valid"
        /\ half.journal \subseteq dir[id].journal
        /\ half.pinned => dir[id].pinned
    BY <2>3, HalvesShrink
  <2>5. dir' \in [Ids -> Entry] /\ \A i \in Ids : dir'[i] = IF i = id THEN half ELSE dir[i]
    BY <2>2, <2>3, <2>4 DEF Put, IInv, TypeOK
  <2>6. EntriesOK'
    BY <1>0, <2>4, <2>5 DEF IInv, EntriesOK
  <2>7. \A i \in Ids : /\ dir[i] \in Versions(i)
                       /\ dir'[i].kind = "valid" => dir[i].kind = "valid"
                       /\ dir'[i].journal \subseteq dir[i].journal
                       /\ dir'[i].pinned => dir[i].pinned
    BY <2>4, <2>5 DEF Versions
  <2>8. Sound => \A i \in owed : dir'[i].kind = "valid"
    BY <2>5 DEF IInv, TypeOK, OwedOK, OwedSurvives, Valid, ValidIn
  <2> QED
    BY <1>0, <2>5, <2>6, <2>7, <2>8, CrashKeeps DEF IInv, TypeOK, Sound
<1> QED
  BY <1>1, <1>2 DEF Interrupt

LEMMA KillKeeps == ASSUME IInv, NEW p \in Runtimes, Kill(p) PROVE IInv'
<1>1. "kill" \in faults /\ live' = live \ {p}
  BY DEF Kill
<1>2. CASE at # "idle" /\ op.by = p
  BY <1>1, <1>2, InterruptKeeps DEF Kill, IInv, TypeOK
<1>3. CASE ~(at # "idle" /\ op.by = p)
  <2>1. UNCHANGED <<faults, dir, disk, staging, expired, at, op, todo, owed>>
    BY <1>3 DEF Kill
  <2> USE <1>1, <2>1 DEF IInv
  <2>2. TypeOK' /\ EntriesOK' /\ CallsOK' /\ PublishedOK'
    BY DEF TypeOK, EntriesOK, CallsOK, Removing, PublishedOK, Valid, ValidIn
  <2>3. ASSUME Sound' PROVE OwedOK'
    BY <2>3 DEF Sound, OwedOK, OwedSurvives, Valid, ValidIn
  <2>4. ASSUME Sound' PROVE SyncedOK' /\ ReconciledOK' /\ StagedOK' /\ JournalsOK'
    BY <2>4 DEF Sound, SyncedOK, ReconciledOK, StagedOK, JournalsOK, Versions
  <2> QED
    BY <2>2, <2>3, <2>4
<1> QED
  BY <1>2, <1>3

LEMMA PowerLossKeeps == ASSUME IInv, PowerLoss PROVE IInv'
<1>0. /\ "power" \in faults /\ Unlock /\ live' = {} /\ staging' \in {staging, FALSE}
      /\ disk' = dir'
      /\ UNCHANGED <<faults, expired, owed>>
  BY DEF PowerLoss, Sync
<1>1. PICK S \in SUBSET Ids :
        LET left == [id \in Ids |-> IF id \in S THEN dir[id] ELSE disk[id]]
        IN  \/ dir' = left
            \/ /\ Removing
               /\ \E id \in todo : \E half \in Halves(dir[id]) :
                    dir' = [left EXCEPT ![id] = half]
  BY DEF PowerLoss
<1> DEFINE left == [id \in Ids |-> IF id \in S THEN dir[id] ELSE disk[id]]
<1>2. /\ left \in [Ids -> Entry]
      /\ \A i \in Ids : left[i] \in Versions(i) /\ (left[i].kind = "absent" => left[i] = Absent)
  BY <1>0 DEF IInv, TypeOK, EntriesOK, Versions
<1> DEFINE Left(i) == \E e \in Versions(i) : /\ dir'[i].kind = "valid" => e.kind = "valid"
                                             /\ dir'[i].journal \subseteq e.journal
                                             /\ dir'[i].pinned => e.pinned
<1>3. /\ dir' \in [Ids -> Entry]
      /\ \A i \in Ids : dir'[i].kind = "absent" => dir'[i] = Absent
      /\ \A i \in Ids : Left(i)
      /\ Sound => \A i \in owed : dir'[i].kind = "valid"
  <2>0. Sound => \A i \in owed : left[i].kind = "valid" /\ i \in Ids /\ i \notin todo
    BY <1>0 DEF IInv, TypeOK, OwedOK, OwedSurvives, Valid, ValidIn
  <2>1. CASE dir' = left
    <3> HIDE DEF left
    <3> QED
      BY <1>2, <2>0, <2>1
  <2>2. CASE \E id \in todo : \E half \in Halves(dir[id]) : dir' = [left EXCEPT ![id] = half]
    <3>1. PICK id \in todo : \E half \in Halves(dir[id]) : dir' = [left EXCEPT ![id] = half]
      BY <2>2
    <3>2. PICK half \in Halves(dir[id]) : dir' = [left EXCEPT ![id] = half]
      BY <3>1
    <3> HIDE DEF left
    <3>3. /\ id \in Ids /\ dir[id] \in Entry /\ (dir[id].kind = "absent" => dir[id] = Absent)
          /\ dir[id] \in Versions(id)
      BY <1>0 DEF IInv, TypeOK, EntriesOK, Versions
    <3>4. /\ half \in Entry
          /\ half.kind = "absent" => half = Absent
          /\ half.kind = "valid" => dir[id].kind = "valid"
          /\ half.journal \subseteq dir[id].journal
          /\ half.pinned => dir[id].pinned
      BY <3>3, HalvesShrink
    <3>5. dir' \in [Ids -> Entry] /\ \A i \in Ids : dir'[i] = IF i = id THEN half ELSE left[i]
      BY <1>2, <3>2, <3>3, <3>4
    <3> QED
      BY <1>2, <2>0, <3>3, <3>4, <3>5
  <2> QED
    BY <1>1, <2>1, <2>2
<1>4. EntriesOK'
  BY <1>0, <1>3 DEF EntriesOK
<1> QED
  BY <1>0, <1>3, <1>4, CrashKeeps DEF IInv, TypeOK

-----------------------------------------------------------------------------

LEMMA StepKeeps == IInv /\ [Next]_vars => IInv'
<1> SUFFICES ASSUME IInv, [Next]_vars PROVE IInv'
  OBVIOUS
<1>1. CASE StartStep
  <2>1. ASSUME NEW p \in Runtimes, NEW call \in Calls, NEW id \in Ids, StartCall(p, call, id)
        PROVE  IInv'
    BY <2>1, StartKeeps DEF StartCall
  <2>2. ASSUME NEW p \in Runtimes, StartPrune(p) PROVE IInv'
    BY <2>2, StartKeeps DEF StartPrune, Calls
  <2> QED
    BY <1>1, <2>1, <2>2, DiscardKeeps DEF StartStep
<1>2. CASE ReconcileStep
  BY <1>2, ScanPendingKeeps, RepairedKeeps, UnmarkKeeps, UnmarkedKeeps, SweepStagingKeeps,
     SweepKeeps, SweptKeeps DEF ReconcileStep
<1>3. CASE CommitStep
  BY <1>3, StageKeeps, PublishKeeps, SyncPublishedKeeps, EvictedKeeps, ClearKeeps,
     EvictionFailsKeeps, CommitEndsKeep DEF CommitStep
<1>4. CASE CallStep
  BY <1>4, CommitEndsKeep, RemovalStartsKeep, SetPinnedKeeps, RemoveKeeps, RemovedKeeps DEF CallStep
<1>5. CASE FaultStep
  <2>1. CASE InterruptOffline
    BY <2>1, InterruptKeeps DEF InterruptOffline, IInv, TypeOK
  <2> QED
    BY <1>5, <2>1, KillKeeps, PowerLossKeeps, TimePassesKeeps DEF FaultStep
<1>6. CASE UNCHANGED vars
  <2> USE <1>6 DEF IInv, vars
  <2>1. TypeOK' /\ EntriesOK' /\ CallsOK' /\ PublishedOK'
    BY DEF TypeOK, EntriesOK, CallsOK, Removing, PublishedOK, Valid, ValidIn
  <2>2. ASSUME Sound' PROVE OwedOK'
    BY <2>2 DEF Sound, OwedOK, OwedSurvives, Valid, ValidIn
  <2>3. ASSUME Sound' PROVE SyncedOK' /\ ReconciledOK' /\ StagedOK' /\ JournalsOK'
    BY <2>3 DEF Sound, SyncedOK, ReconciledOK, StagedOK, JournalsOK, Versions
  <2> QED
    BY <2>1, <2>2, <2>3
<1> QED
  BY <1>1, <1>2, <1>3, <1>4, <1>5, <1>6 DEF Next

LEMMA InvariantHolds == Spec => []IInv
BY InitInv, StepKeeps, PTL DEF Spec

-----------------------------------------------------------------------------

\* Every variable of the catalog stays in its set, and entries to remove are
\* remembered only while something is removed, under every combination of faults.
THEOREM TypeCorrect == Spec => []TypeOK
<1>1. IInv => TypeOK
  BY DEF IInv
<1> QED
  BY <1>1, InvariantHolds, PTL

\* "Pinning protects policy eviction": no journal left by a commit names a pinned
\* state, whichever process is killed or fails where, or wherever power is lost.
THEOREM PinsOutliveJournals ==
  Spec => [](("power" \in faults => faults = {"power"}) => CondemnedUnpinned)
<1>1. IInv => (("power" \in faults => faults = {"power"}) => CondemnedUnpinned)
  BY Condemned DEF Sound
<1> QED
  BY <1>1, InvariantHolds, PTL

\* A state whose commit returned is in the catalog, and on the disk where power
\* may be lost, until it is pruned, expires, or gives way to a newcomer.
THEOREM CommittedStatesSurvive ==
  Spec => [](("power" \in faults => faults = {"power"}) => OwedSurvives)
<1>1. IInv => (("power" \in faults => faults = {"power"}) => OwedSurvives)
  BY DEF IInv, Sound, OwedOK
<1> QED
  BY <1>1, InvariantHolds, PTL

-----------------------------------------------------------------------------
(* The quota *)

Plus(p, x, y) == x + y
Zero(p) == 0
SizeOf(p, id) == Size[id]
Some(S) == CHOOSE x \in S : TRUE

Sum == INSTANCE FoldLaws WITH Op <- Plus, Value <- SizeOf, Base <- Zero, Choice <- Some

LEMMA BytesIs == \A S : Bytes(S) = Sum!Fold(0, S)
BY DEF Sum!Fold, Bytes, MapThenSumSet, MapThenFoldSet, Plus, Zero, SizeOf, Some, Sum!MapThenFoldSet

LEMMA Sums ==
  /\ Sum!Summing
  /\ \A S : Sum!Chooses(S) /\ (Sum!IsFiniteSet(S) <=> IsFiniteSet(S))
  /\ \A S \in SUBSET Ids : \A i \in S : SizeOf(0, i) \in Nat
BY StoreAssumption DEF Sum!Summing, Sum!Chooses, Sum!IsFiniteSet, IsFiniteSet, Plus, Zero, Some, SizeOf

LEMMA BytesOfNone == Bytes({}) = 0
BY BytesIs, Sums, Sum!SumOfNone

LEMMA BytesIsNat == ASSUME NEW S \in SUBSET Ids, IsFiniteSet(S) PROVE Bytes(S) \in Nat
BY BytesIs, Sums, Sum!SumIsNat

LEMMA BytesSplit ==
  ASSUME NEW S \in SUBSET Ids, IsFiniteSet(S), NEW i \in S
  PROVE  Bytes(S) = Size[i] + Bytes(S \ {i})
BY BytesIs, Sums, Sum!SumSplits DEF SizeOf

LEMMA BytesOfPart ==
  ASSUME NEW T \in SUBSET Ids, IsFiniteSet(T), NEW S \in SUBSET T
  PROVE  Bytes(S) <= Bytes(T)
BY BytesIs, Sums, Sum!SumOfPart

\* What fits still fits when states go ...
LEMMA PartFits ==
  ASSUME NEW T \in SUBSET Ids, IsFiniteSet(T), NEW S \in SUBSET T,
         NEW b \in Nat, NEW n \in Nat, FitsWith(T, b, n)
  PROVE  FitsWith(S, b, n) /\ FitsWith(S, 0, 0)
<1>1. IsFiniteSet(S) /\ Cardinality(S) <= Cardinality(T)
  BY FS_Subset
<1>2. Bytes(S) \in Nat /\ Bytes(T) \in Nat /\ Cardinality(S) \in Nat /\ Cardinality(T) \in Nat
  BY <1>1, BytesIsNat, FS_CardinalityType
<1>3. Bytes(S) <= Bytes(T)
  BY BytesOfPart
<1> QED BY <1>1, <1>2, <1>3, StoreAssumption DEF FitsWith

\* ... and a newcomer takes the room that was made for it.
LEMMA NewcomerFits ==
  ASSUME NEW S \in SUBSET Ids, IsFiniteSet(S), NEW id \in Ids, FitsWith(S, Size[id], 1)
  PROVE  FitsWith(S \cup {id}, 0, 0)
<1>1. CASE id \in S
  <2>1. S \cup {id} = S /\ Size[id] \in Nat
    BY <1>1, StoreAssumption
  <2> QED BY <2>1, PartFits
<1>2. CASE id \notin S
  <2> DEFINE T == S \cup {id}
  <2>1. IsFiniteSet(T) /\ Cardinality(T) = Cardinality(S) + 1 /\ T \ {id} = S /\ id \in T /\ T \in SUBSET Ids
    BY <1>2, FS_AddElement
  <2> HIDE DEF T
  <2>2. Bytes(T) = Size[id] + Bytes(S)
    BY <2>1, BytesSplit
  <2>3. Bytes(S) \in Nat /\ Cardinality(S) \in Nat /\ Size[id] \in Nat
    BY BytesIsNat, FS_CardinalityType, StoreAssumption
  <2>4. Bytes(S) + Size[id] <= MaxBytes /\ Cardinality(S) + 1 <= MaxEntries
    BY DEF FitsWith
  <2>5. FitsWith(T, 0, 0)
    BY <2>1, <2>2, <2>3, <2>4, StoreAssumption DEF FitsWith
  <2> QED BY <2>5 DEF T
<1> QED BY <1>1, <1>2

-----------------------------------------------------------------------------
(* Recovery finds what it can handle *)

\* The combinations of faults for which it does: power loss and interruptions
\* of the offline command are considered each on its own.
Apart == Sound /\ ("interrupt" \in faults => faults = {"interrupt"})

\* A directory with at most one newcomer that awaits its evictions: without it,
\* or with the evictions carried out, the states keep the quota.
Within(v) ==
  /\ IsFiniteSet(ValidIn(v))
  /\ \A o, w \in OwnersIn(v) : o = w
  /\ FitsWith(ValidIn(v) \ JournaledIn(v), 0, 0)
  /\ \A o \in OwnersIn(v) : Size[o] <= MaxPayload /\ FitsWith(ValidIn(v) \ {o}, 0, 0)

SizesOK == Within(dir) /\ ("power" \in faults => Within(disk))

\* A newcomer is no larger than the scan allows for, and room is made for it.
RoomOK ==
  /\ at # "idle" /\ op.call = "commit" => Size[op.id] <= MaxPayload
  /\ at = "staged" => FitsWith(Valid \ op.victims, Size[op.id], 1)

\* Journals are cleared only when what they name has gone.
EvictionsOK ==
  /\ at \in {"published", "evicting", "clearing"} => Owners \subseteq {op.id}
  /\ at = "published" => dir[op.id].journal = op.victims
  /\ at \in {"repairing", "evicting"} => Journaled \cap Valid \subseteq todo
  /\ at \in {"unmarking", "clearing"} => Journaled \cap Valid = {}

\* Only the offline command removes a newcomer before its victims.
OwnersOK ==
  /\ at # "idle" /\ op.by = Offline => at = "removing" /\ todo \subseteq {op.id}
  /\ op.by # Offline => todo \cap Owners = {}
  /\ "power" \in faults =>
       IF at = "removing" /\ op.by = Offline
         THEN \A i \in Ids \ {op.id} : disk[i] = dir[i]
         ELSE OwnersIn(disk) \subseteq Owners
  /\ "interrupt" \in faults /\ at \notin {"published", "evicting", "clearing"} => Owners = {}

RInv == SizesOK /\ RoomOK /\ EvictionsOK /\ OwnersOK

LEMMA JournaledOne ==
  ASSUME NEW v \in [Ids -> Entry], Within(v)
  PROVE  /\ JournaledIn(v) \subseteq Ids /\ OwnersIn(v) \subseteq ValidIn(v) /\ ValidIn(v) \in SUBSET Ids
         /\ OwnersIn(v) = {} => JournaledIn(v) = {}
         /\ \A o \in OwnersIn(v) : OwnersIn(v) = {o} /\ JournaledIn(v) = v[o].journal \ {o}
<1>1. \A i \in Ids : v[i].journal \subseteq Ids
  BY DEF Entry
<1>2. \A o \in OwnersIn(v) : OwnersIn(v) = {o}
  BY DEF Within
<1>3. OwnersIn(v) \subseteq ValidIn(v) /\ ValidIn(v) \in SUBSET Ids
  BY DEF OwnersIn, ValidIn
<1>4. JournaledIn(v) \subseteq Ids
  BY <1>1, <1>3 DEF JournaledIn
<1>5. OwnersIn(v) = {} => JournaledIn(v) = {}
  BY DEF JournaledIn
<1>6. ASSUME NEW o \in OwnersIn(v) PROVE JournaledIn(v) = v[o].journal \ {o}
  <2>1. JournaledIn(v) = (UNION {v[i].journal : i \in {o}}) \ {o}
    BY <1>2 DEF JournaledIn
  <2>2. {v[i].journal : i \in {o}} = {v[o].journal}
    OBVIOUS
  <2>3. UNION {v[i].journal : i \in {o}} = v[o].journal
    <3> DEFINE J == v[o].journal
    <3>1. UNION {J} = J
      OBVIOUS
    <3> QED BY <2>2, <3>1
  <2> QED BY <2>1, <2>3
<1> QED BY <1>2, <1>3, <1>4, <1>5, <1>6

\* What the scan finds.
LEMMA WithinIsRecoverable == ASSUME TypeOK, Within(dir) PROVE Recoverable
<1>1. dir \in [Ids -> Entry]
  BY DEF TypeOK
<1>2. /\ Valid \in SUBSET Ids /\ Owners \subseteq Valid /\ IsFiniteSet(Valid)
      /\ Owners = {} => Journaled = {}
      /\ \A o \in Owners : Owners = {o} /\ Size[o] <= MaxPayload /\ FitsWith(Valid \ {o}, 0, 0)
      /\ FitsWith(Valid \ Journaled, 0, 0)
  BY <1>1, JournaledOne DEF Within, Owners, Valid, Journaled
<1>3. ~ScanTooLarge
  <2>1. CASE Owners = {}
    <3>1. Valid \ Journaled = Valid
      BY <1>2, <2>1
    <3>2. Bytes(Valid) \in Nat
      BY <1>2, BytesIsNat
    <3>3. FitsWith(Valid, 0, 0)
      BY <1>2, <3>1
    <3> QED BY <3>2, <3>3, StoreAssumption DEF ScanTooLarge, FitsWith
  <2>2. ASSUME NEW o \in Owners PROVE ~ScanTooLarge
    <3> DEFINE R == Valid \ {o}
    <3>1. R \in SUBSET Ids /\ IsFiniteSet(R) /\ o \in Valid /\ Size[o] \in Nat /\ Size[o] <= MaxPayload
      BY <1>2, FS_RemoveElement, StoreAssumption
    <3>2. Bytes(Valid) = Size[o] + Bytes(R)
      BY <1>2, <3>1, BytesSplit
    <3>3. FitsWith(R, 0, 0)
      BY <1>2
    <3> HIDE DEF R
    <3>4. Bytes(R) \in Nat
      BY <3>1, BytesIsNat
    <3> QED BY <3>1, <3>2, <3>3, <3>4, StoreAssumption DEF ScanTooLarge, FitsWith
  <2> QED BY <2>1, <2>2
<1>4. Cardinality(Owners) <= 1
  <2>1. CASE Owners = {}
    BY <2>1, FS_EmptySet
  <2>2. ASSUME NEW o \in Owners PROVE Cardinality(Owners) <= 1
    <3>1. Owners = {o} /\ Cardinality({o}) = 1
      BY <1>2, FS_Singleton
    <3> QED BY <3>1
  <2> QED BY <2>1, <2>2
<1>5. FitsWith({id \in Valid \ Journaled : id \in Owners \/ dir[id].pinned}, 0, 0)
  <2> DEFINE T == Valid \ Journaled
             S == {id \in T : id \in Owners \/ dir[id].pinned}
  <2>1. T \in SUBSET Ids /\ IsFiniteSet(T) /\ S \in SUBSET T /\ FitsWith(T, 0, 0)
    BY <1>2, FS_Difference
  <2> HIDE DEF T, S
  <2>2. FitsWith(S, 0, 0)
    BY <2>1, PartFits
  <2> QED BY <2>2 DEF S, T
<1> QED BY <1>3, <1>4, <1>5 DEF Recoverable

\* A directory of which something is lost: of the entries that remain whole the
\* journals are what they were.
Reduces(w, v) ==
  \A i \in Ids : w[i].kind = "valid" => v[i].kind = "valid" /\ w[i].journal = v[i].journal

\* Whatever is lost, what remains is within bounds: a newcomer that is lost
\* leaves the states that it came to, and those had room.
LEMMA ReducedIsWithin ==
  ASSUME NEW v \in [Ids -> Entry], NEW w \in [Ids -> Entry], Within(v), Reduces(w, v)
  PROVE  Within(w)
<1>1. /\ ValidIn(w) \subseteq ValidIn(v) /\ OwnersIn(w) \subseteq OwnersIn(v)
      /\ \A o \in OwnersIn(v) : o \in ValidIn(w) => o \in OwnersIn(w) /\ w[o].journal = v[o].journal
  BY DEF Reduces, ValidIn, OwnersIn
<1>2. /\ IsFiniteSet(ValidIn(v)) /\ IsFiniteSet(ValidIn(w))
      /\ ValidIn(v) \in SUBSET Ids /\ OwnersIn(w) \subseteq ValidIn(w)
      /\ \A T \in SUBSET ValidIn(v) : IsFiniteSet(T)
  BY <1>1, FS_Subset DEF Within, ValidIn, OwnersIn
<1>3. \A o, u \in OwnersIn(w) : o = u
  BY <1>1 DEF Within
<1>4. ASSUME NEW o \in OwnersIn(w) PROVE Size[o] <= MaxPayload /\ FitsWith(ValidIn(w) \ {o}, 0, 0)
  <2>1. o \in OwnersIn(v) /\ ValidIn(w) \ {o} \in SUBSET (ValidIn(v) \ {o}) /\ ValidIn(v) \ {o} \in SUBSET ValidIn(v)
    BY <1>1
  <2>2. FitsWith(ValidIn(v) \ {o}, 0, 0) /\ Size[o] <= MaxPayload
    BY <2>1 DEF Within
  <2> QED BY <1>2, <2>1, <2>2, PartFits
<1>5. PICK T \in SUBSET ValidIn(v) : FitsWith(T, 0, 0) /\ ValidIn(w) \ JournaledIn(w) \subseteq T
  <2>1. /\ OwnersIn(v) = {} => JournaledIn(v) = {}
        /\ \A o \in OwnersIn(v) : OwnersIn(v) = {o} /\ JournaledIn(v) = v[o].journal \ {o}
    BY JournaledOne
  <2>2. CASE OwnersIn(v) = {}
    BY <1>1, <2>1, <2>2 DEF Within
  <2>3. ASSUME NEW o \in OwnersIn(v) PROVE \E T \in SUBSET ValidIn(v) :
            FitsWith(T, 0, 0) /\ ValidIn(w) \ JournaledIn(w) \subseteq T
    <3>1. CASE o \in ValidIn(w)
      <4>1. OwnersIn(w) = {o} /\ w[o].journal = v[o].journal
        BY <1>1, <2>1, <3>1
      <4>2. JournaledIn(w) = JournaledIn(v)
        BY <2>1, <4>1 DEF JournaledIn
      <4> QED BY <1>1, <4>2 DEF Within
    <3>2. CASE o \notin ValidIn(w)
      <4> DEFINE T == ValidIn(v) \ {o}
      <4>1. T \in SUBSET ValidIn(v) /\ FitsWith(T, 0, 0) /\ ValidIn(w) \ JournaledIn(w) \subseteq T
        BY <1>1, <3>2 DEF Within
      <4> HIDE DEF T
      <4> QED BY <4>1
    <3> QED BY <3>1, <3>2
  <2> QED BY <2>2, <2>3
<1>6. FitsWith(ValidIn(w) \ JournaledIn(w), 0, 0)
  BY <1>2, <1>5, PartFits
<1> QED BY <1>2, <1>3, <1>4, <1>6 DEF Within

LEMMA InitRoom == Init => RInv
<1> SUFFICES ASSUME Init PROVE RInv
  OBVIOUS
<1>1. ValidIn(dir) = {} /\ OwnersIn(dir) = {} /\ JournaledIn(dir) = {} /\ disk = dir
  BY DEF Init, ValidIn, OwnersIn, JournaledIn, Absent
<1>2. IsFiniteSet({}) /\ FitsWith({}, 0, 0)
  BY FS_EmptySet, BytesOfNone, StoreAssumption DEF FitsWith
<1>3. SizesOK
  BY <1>1, <1>2 DEF SizesOK, Within
<1>4. RoomOK /\ EvictionsOK
  BY DEF Init, RoomOK, EvictionsOK
<1>5. OwnersOK
  BY <1>1 DEF Init, OwnersOK, Owners, NoOp
<1> QED BY <1>3, <1>4, <1>5 DEF RInv

\* Steps that leave the namespace as it is, whether they synchronize it or not.
LEMMA NamespaceKept ==
  ASSUME RInv, UNCHANGED <<faults, dir>>, "power" \in faults => disk' \in {disk, dir}
  PROVE  /\ SizesOK' /\ Owners' = Owners /\ Valid' = Valid /\ Journaled' = Journaled
         /\ "power" \in faults /\ OwnersIn(disk) \subseteq Owners => OwnersIn(disk)' \subseteq Owners'
<1>1. Within(dir)' /\ Owners' = Owners /\ Valid' = Valid /\ Journaled' = Journaled
  BY DEF RInv, SizesOK, Owners, Valid, Journaled
<1>2. ASSUME "power" \in faults PROVE Within(disk)'
  <2>1. CASE disk' = disk
    BY <1>2, <2>1 DEF RInv, SizesOK
  <2>2. CASE disk' = dir
    BY <1>2, <2>2 DEF RInv, SizesOK
  <2> QED BY <1>2, <2>1, <2>2
<1>3. "power" \in faults /\ OwnersIn(disk) \subseteq Owners => OwnersIn(disk)' \subseteq Owners'
  BY <1>1 DEF Owners
<1> QED BY <1>1, <1>2, <1>3 DEF SizesOK

\* Once the lock is released everything is synchronized.
LEMMA LockReleased ==
  ASSUME IInv', Apart', Unlock, Within(dir)', "interrupt" \in faults' => Owners' = {}
  PROVE  RInv'
<1>1. at' = "idle" /\ op' = NoOp /\ todo' = {} /\ ("power" \in faults' => disk' = dir')
  BY DEF Unlock, IInv, Apart, SyncedOK
<1>2. SizesOK'
  BY <1>1 DEF SizesOK
<1>3. RoomOK' /\ EvictionsOK'
  BY <1>1 DEF RoomOK, EvictionsOK
<1>4. OwnersOK'
  <2>1. "power" \in faults' => OwnersIn(disk)' \subseteq Owners'
    BY <1>1 DEF Owners
  <2> QED BY <1>1, <2>1 DEF OwnersOK, NoOp
<1> QED BY <1>2, <1>3, <1>4 DEF RInv

\* The operation ends and leaves the namespace as it is.
LEMMA QuietEnd ==
  ASSUME RInv, IInv', Apart, Unlock, UNCHANGED <<faults, dir>>,
         at \notin {"published", "evicting", "clearing"}
  PROVE  RInv'
<1>1. Apart'
  BY DEF Apart, Sound
<1>2. Within(dir)' /\ Owners' = Owners
  BY DEF RInv, SizesOK, Owners
<1>3. "interrupt" \in faults' => Owners' = {}
  BY <1>2 DEF RInv, OwnersOK
<1> QED BY <1>1, <1>2, <1>3, LockReleased

LEMMA StartRoom ==
  ASSUME IInv, RInv, NEW p \in Runtimes, NEW call, NEW id, call = "commit" => Size[id] <= MaxPayload,
         Start(p, call, id)
  PROVE  RInv'
<1>0. /\ at = "idle" /\ at' = "pending" /\ op'.by = p /\ op'.call = call /\ op'.id = id
      /\ UNCHANGED <<faults, dir, disk, todo>>
  BY DEF Start
<1>1. todo = {}
  BY <1>0 DEF IInv, TypeOK, Removing
<1>2. /\ SizesOK' /\ Owners' = Owners /\ Valid' = Valid /\ Journaled' = Journaled
      /\ "power" \in faults /\ OwnersIn(disk) \subseteq Owners => OwnersIn(disk)' \subseteq Owners'
  BY <1>0, NamespaceKept
<1>3. RoomOK' /\ EvictionsOK'
  BY <1>0 DEF RoomOK, EvictionsOK
<1>4. OwnersOK'
  BY <1>0, <1>1, <1>2, StoreAssumption DEF RInv, OwnersOK
<1> QED BY <1>2, <1>3, <1>4 DEF RInv

LEMMA DiscardRoom == ASSUME IInv, RInv, Apart, NEW id \in Ids, Discard(id) PROVE RInv'
<1>0. /\ at = "idle" /\ at' = "removing" /\ op'.by = Offline /\ op'.call = "discard" /\ op'.id = id
      /\ todo' = {id}
      /\ UNCHANGED <<faults, dir, disk>>
  BY DEF Discard
<1>1. /\ SizesOK' /\ Owners' = Owners
  BY <1>0, NamespaceKept
<1>2. RoomOK' /\ EvictionsOK'
  BY <1>0 DEF RoomOK, EvictionsOK
<1>3. "power" \in faults => disk' = dir'
  BY <1>0 DEF IInv, Apart, SyncedOK
<1>4. OwnersOK'
  BY <1>0, <1>1, <1>3 DEF RInv, OwnersOK
<1> QED BY <1>1, <1>2, <1>4 DEF RInv

LEMMA ScanPendingRoom == ASSUME IInv, IInv', RInv, Apart, ScanPending PROVE RInv'
<1>1. CASE ScanTooLarge
  BY <1>1, QuietEnd DEF ScanPending
<1>2. CASE ~ScanTooLarge
  <2>0. /\ at = "pending" /\ at' = IF Owners = {} THEN "sweeping" ELSE "repairing"
        /\ todo' = Journaled \cap Present
        /\ UNCHANGED <<faults, dir, disk, op>>
    BY <1>2 DEF ScanPending
  <2>1. /\ SizesOK' /\ Owners' = Owners /\ Valid' = Valid /\ Journaled' = Journaled
        /\ "power" \in faults /\ OwnersIn(disk) \subseteq Owners => OwnersIn(disk)' \subseteq Owners'
    BY <2>0, NamespaceKept
  <2>2. Valid \subseteq Present /\ Journaled \cap Owners = {}
    BY DEF Valid, ValidIn, Present, Journaled, JournaledIn, Owners
  <2>3. RoomOK'
    BY <2>0 DEF RInv, RoomOK
  <2>4. EvictionsOK'
    BY <2>0, <2>1, <2>2 DEF EvictionsOK
  <2>5. OwnersOK'
    BY <2>0, <2>1, <2>2 DEF RInv, OwnersOK
  <2> QED BY <2>1, <2>3, <2>4, <2>5 DEF RInv
<1> QED BY <1>1, <1>2

LEMMA RepairedRoom == ASSUME IInv, IInv', RInv, Apart, Repaired PROVE RInv'
<1>0. /\ at = "repairing" /\ todo = {} /\ SyncNamespace /\ UNCHANGED <<faults, dir>>
  BY DEF Repaired
<1>1. "power" \in faults => disk' = dir
  BY <1>0, NamespaceSynced DEF Apart
<1>2. CASE Plans(0, 0, Owners) = {}
  BY <1>0, <1>2, QuietEnd DEF Repaired
<1>3. CASE Plans(0, 0, Owners) # {}
  <2>1. PICK V \in Plans(0, 0, Owners) :
          /\ todo' = V
          /\ at' = IF V = {} THEN "unmarking" ELSE "repairing"
          /\ UNCHANGED op
    BY <1>3 DEF Repaired
  <2>2. V \cap Owners = {}
    BY DEF Plans
  <2>3. /\ SizesOK' /\ Owners' = Owners /\ Valid' = Valid /\ Journaled' = Journaled
        /\ "power" \in faults /\ OwnersIn(disk) \subseteq Owners => OwnersIn(disk)' \subseteq Owners'
    BY <1>0, <1>1, NamespaceKept
  <2>4. Journaled \cap Valid = {}
    BY <1>0 DEF RInv, EvictionsOK
  <2>5. RoomOK'
    BY <1>0, <2>1 DEF RInv, RoomOK
  <2>6. EvictionsOK'
    BY <1>0, <2>1, <2>3, <2>4 DEF EvictionsOK
  <2>7. OwnersOK'
    BY <1>0, <2>1, <2>2, <2>3 DEF RInv, OwnersOK
  <2> QED BY <2>3, <2>5, <2>6, <2>7 DEF RInv
<1> QED BY <1>2, <1>3

\* Steps of one operation that only move it on, synchronizing or not.
LEMMA MovesOn ==
  ASSUME IInv, RInv, UNCHANGED <<faults, dir, todo>>, "power" \in faults => disk' \in {disk, dir},
         at \in {"unmarking", "sweeping", "ready", "evicting", "clearing"},
         at' \in {"sweeping", "ready", "clearing", "returning", "staged"},
         op'.by = op.by, op'.call = op.call, op'.id = op.id,
         at' = "clearing" => at = "evicting" /\ todo = {},
         at' \in {"sweeping", "ready", "staged"} => at \notin {"evicting", "clearing"},
         at' = "staged" => FitsWith(Valid \ op'.victims, Size[op.id], 1),
         at \in {"evicting", "clearing"} => at' = "clearing" \/ "interrupt" \notin faults
  PROVE  RInv'
<1>1. /\ SizesOK' /\ Owners' = Owners /\ Valid' = Valid /\ Journaled' = Journaled
      /\ "power" \in faults /\ OwnersIn(disk) \subseteq Owners => OwnersIn(disk)' \subseteq Owners'
  BY NamespaceKept
<1>2. RoomOK'
  BY <1>1 DEF RInv, RoomOK
<1>3. EvictionsOK'
  BY <1>1 DEF RInv, EvictionsOK
<1>4. OwnersOK'
  BY <1>1 DEF RInv, OwnersOK
<1> QED BY <1>1, <1>2, <1>3, <1>4 DEF RInv

LEMMA UnmarkedRoom == ASSUME IInv, RInv, Unmarked PROVE RInv'
<1>0. /\ at = "unmarking" /\ at' = "sweeping" /\ UNCHANGED <<faults, dir, disk, todo>>
      /\ op'.by = op.by /\ op'.call = op.call /\ op'.id = op.id
  BY DEF Unmarked, IInv, TypeOK, Operation
<1> QED BY <1>0, MovesOn

LEMMA SweepStagingRoom == ASSUME IInv, RInv, SweepStaging PROVE RInv'
<1>0. /\ at = "sweeping" /\ UNCHANGED <<faults, dir, disk, todo, at>>
      /\ op'.by = op.by /\ op'.call = op.call /\ op'.id = op.id
  BY DEF SweepStaging, IInv, TypeOK, Operation
<1> QED BY <1>0, MovesOn

LEMMA SweptRoom == ASSUME IInv, RInv, Apart, Swept PROVE RInv'
<1>0. /\ at = "sweeping" /\ at' = "ready" /\ UNCHANGED <<faults, dir, todo>>
      /\ SyncNamespace \/ UNCHANGED disk
      /\ op'.by = op.by /\ op'.call = op.call /\ op'.id = op.id
  BY DEF Swept, IInv, TypeOK, Operation
<1>1. "power" \in faults => disk' \in {disk, dir}
  BY <1>0, NamespaceSynced DEF Apart
<1> QED BY <1>0, <1>1, MovesOn

LEMMA StageRoom == ASSUME IInv, RInv, Stage PROVE RInv'
<1>1. PICK V \in Plans(Size[op.id], 1, {}) : op' = [op EXCEPT !.victims = V]
  BY DEF Stage
<1>2. op'.by = op.by /\ op'.call = op.call /\ op'.id = op.id /\ op'.victims = V
  BY <1>1 DEF IInv, TypeOK, Operation
<1>3. FitsWith(Valid \ V, Size[op.id], 1)
  BY DEF Plans
<1>4. at = "ready" /\ at' = "staged" /\ UNCHANGED <<faults, dir, disk, todo>>
  BY DEF Stage
<1> QED BY <1>2, <1>3, <1>4, MovesOn

LEMMA EvictedRoom == ASSUME IInv, RInv, Apart, Evicted PROVE RInv'
<1>0. /\ at = "evicting" /\ at' = "clearing" /\ todo = {} /\ UNCHANGED <<faults, dir, todo, op>> /\ SyncNamespace
  BY DEF Evicted
<1>1. "power" \in faults => disk' \in {disk, dir}
  BY <1>0, NamespaceSynced DEF Apart
<1> QED BY <1>0, <1>1, MovesOn

LEMMA EvictionFailsRoom == ASSUME IInv, RInv, Apart, EvictionFails PROVE RInv'
<1>0. /\ "io" \in faults /\ at \in {"evicting", "clearing"} /\ at' = "returning" /\ todo' = {}
      /\ UNCHANGED <<faults, dir, disk, op>>
  BY DEF EvictionFails
<1>1. /\ SizesOK' /\ Owners' = Owners /\ Valid' = Valid /\ Journaled' = Journaled
      /\ "power" \in faults /\ OwnersIn(disk) \subseteq Owners => OwnersIn(disk)' \subseteq Owners'
  BY <1>0, NamespaceKept
<1>2. RoomOK' /\ EvictionsOK'
  BY <1>0 DEF RInv, RoomOK, EvictionsOK
<1>3. OwnersOK'
  BY <1>0, <1>1 DEF RInv, OwnersOK, Apart
<1> QED BY <1>1, <1>2, <1>3 DEF RInv

LEMMA EndsRoom ==
  ASSUME IInv, IInv', RInv, Apart,
         CommitRefused \/ StagingFails \/ CommitReturns \/ LoadMissing \/ Load \/ Removed \/ RemovalFails
  PROVE  RInv'
<1>1. /\ at \notin {"published", "evicting", "clearing"} /\ Unlock /\ UNCHANGED <<faults, dir>>
  BY DEF CommitRefused, StagingFails, CommitReturns, LoadMissing, Load, Removed, RemovalFails
<1> QED BY <1>1, QuietEnd

\* Calls are carried out where no journal is left, in any version of the namespace.
LEMMA NoOwners ==
  ASSUME IInv, Apart, at \in {"sweeping", "ready", "staged"}
  PROVE  Owners = {} /\ ("power" \in faults => OwnersIn(disk) = {})
BY DEF IInv, Apart, ReconciledOK, Versions, Owners, OwnersIn, ValidIn

LEMMA RemovalStartsRoom == ASSUME IInv, RInv, Apart, LoadDamaged \/ Prune PROVE RInv'
<1>0. /\ at = "ready" /\ at' = "removing" /\ UNCHANGED <<faults, dir, disk, op>>
  BY DEF LoadDamaged, Prune
<1>1. Owners = {}
  BY <1>0, NoOwners
<1>2. /\ SizesOK' /\ Owners' = Owners
      /\ "power" \in faults /\ OwnersIn(disk) \subseteq Owners => OwnersIn(disk)' \subseteq Owners'
  BY <1>0, NamespaceKept
<1>3. RoomOK' /\ EvictionsOK'
  BY <1>0 DEF RInv, RoomOK, EvictionsOK
<1>4. OwnersOK'
  BY <1>0, <1>1, <1>2 DEF RInv, OwnersOK
<1> QED BY <1>2, <1>3, <1>4 DEF RInv

LEMMA SyncPublishedRoom == ASSUME IInv, RInv, Apart, SyncPublished PROVE RInv'
<1>0. /\ at = "published" /\ SyncNamespace
      /\ at' = IF op.victims = {} THEN "returning" ELSE "evicting"
      /\ todo' = op.victims \cap Present
      /\ UNCHANGED <<faults, dir, op>>
  BY DEF SyncPublished
<1>1. "power" \in faults => disk' = dir
  BY <1>0, NamespaceSynced DEF Apart
<1>2. /\ SizesOK' /\ Owners' = Owners /\ Valid' = Valid /\ Journaled' = Journaled
  BY <1>0, <1>1, NamespaceKept
<1>3. /\ Owners \subseteq {op.id} /\ dir[op.id].journal = op.victims /\ op.id \notin op.victims
  BY <1>0 DEF RInv, EvictionsOK, IInv, PublishedOK
<1>4. Journaled \subseteq op.victims /\ Valid \subseteq Present /\ (op.victims = {} => Owners = {})
  BY <1>3 DEF Journaled, JournaledIn, Owners, OwnersIn, Valid, ValidIn, Present
<1>5. RoomOK'
  BY <1>0 DEF RInv, RoomOK
<1>6. EvictionsOK'
  BY <1>0, <1>2, <1>3, <1>4 DEF EvictionsOK
<1>7. OwnersOK'
  <2>1. "power" \in faults => OwnersIn(disk)' = Owners'
    BY <1>0, <1>1 DEF Owners
  <2> QED BY <1>0, <1>2, <1>3, <1>4, <2>1 DEF RInv, OwnersOK
<1> QED BY <1>2, <1>5, <1>6, <1>7 DEF RInv

-----------------------------------------------------------------------------
(* Markers *)

\* A journal is cleared once nothing that it names is left.
LEMMA ClearedIsWithin ==
  ASSUME NEW v \in [Ids -> Entry], NEW w \in [Ids -> Entry], Within(v),
         ValidIn(w) = ValidIn(v), OwnersIn(w) = {}, JournaledIn(v) \cap ValidIn(v) = {}
  PROVE  Within(w)
<1>1. JournaledIn(w) = {}
  BY DEF JournaledIn
<1>2. ValidIn(w) \ JournaledIn(w) = ValidIn(v) \ JournaledIn(v)
  BY <1>1
<1> QED BY <1>2 DEF Within

LEMMA UnmarkRoom == ASSUME IInv, IInv', RInv, Apart, NEW o \in Ids, Unmark(o) PROVE RInv'
<1> DEFINE entry == [dir[o] EXCEPT !.journal = {}]
<1>0. /\ at = "unmarking" /\ o \in Owners /\ PutMarker(o, entry)
      /\ UNCHANGED <<faults, at, op, todo>>
  BY DEF Unmark
<1>1. entry \in Entry /\ entry.kind = dir[o].kind /\ dir[o].kind = "valid" /\ entry.journal = {}
  BY <1>0 DEF IInv, TypeOK, Entry, Owners, OwnersIn, ValidIn
<1> HIDE DEF entry
<1>2. /\ dir \in [Ids -> Entry] /\ dir' \in [Ids -> Entry]
      /\ \A i \in Ids : dir'[i] = IF i = o THEN entry ELSE dir[i]
      /\ "power" \in faults => disk' = dir'
  BY <1>0, <1>1, MarkerKept DEF IInv, TypeOK, Apart, SyncedOK
<1>3. ValidIn(dir') = ValidIn(dir) /\ OwnersIn(dir') \subseteq OwnersIn(dir) \ {o}
  BY <1>1, <1>2 DEF ValidIn, OwnersIn
<1>4. Within(dir) /\ OwnersIn(dir') = {} /\ JournaledIn(dir) \cap ValidIn(dir) = {}
  <2>1. Within(dir) /\ OwnersIn(dir') = {}
    BY <1>0, <1>3 DEF RInv, SizesOK, Within, Owners
  <2> QED BY <1>0, <2>1 DEF RInv, EvictionsOK, Journaled, Valid
<1>5. Within(dir')
  BY <1>2, <1>3, <1>4, ClearedIsWithin
<1>6. SizesOK'
  BY <1>0, <1>2, <1>5 DEF SizesOK
<1>7. Owners' = {} /\ Journaled' = {} /\ ("power" \in faults => OwnersIn(disk)' = {})
  BY <1>2, <1>4 DEF Owners, Journaled, JournaledIn
<1>8. RoomOK' /\ EvictionsOK'
  BY <1>0, <1>7 DEF RInv, RoomOK, EvictionsOK
<1>9. OwnersOK'
  BY <1>0, <1>7 DEF RInv, OwnersOK
<1> QED BY <1>6, <1>8, <1>9 DEF RInv

LEMMA ClearRoom == ASSUME IInv, IInv', RInv, Apart, Clear PROVE RInv'
<1> DEFINE entry == [dir[op.id] EXCEPT !.journal = {}]
<1>0. /\ at = "clearing" /\ at' = "returning" /\ op.id \in Ids /\ PutMarker(op.id, entry)
      /\ op.call = "commit"
      /\ UNCHANGED <<faults, op, todo>>
  BY DEF Clear, IInv, CallsOK, Calls
<1>1. entry \in Entry /\ entry.kind = dir[op.id].kind /\ dir[op.id].kind = "valid" /\ entry.journal = {}
  BY <1>0 DEF IInv, TypeOK, Entry, PublishedOK, Valid, ValidIn
<1> HIDE DEF entry
<1>2. /\ dir \in [Ids -> Entry] /\ dir' \in [Ids -> Entry]
      /\ \A i \in Ids : dir'[i] = IF i = op.id THEN entry ELSE dir[i]
      /\ "power" \in faults => disk' = dir'
  BY <1>0, <1>1, MarkerKept DEF IInv, TypeOK, Apart, SyncedOK
<1>3. ValidIn(dir') = ValidIn(dir) /\ OwnersIn(dir') \subseteq OwnersIn(dir) \ {op.id}
  BY <1>1, <1>2 DEF ValidIn, OwnersIn
<1>4. Within(dir) /\ OwnersIn(dir') = {} /\ JournaledIn(dir) \cap ValidIn(dir) = {}
  BY <1>0, <1>3 DEF RInv, SizesOK, EvictionsOK, Owners, Journaled, Valid
<1>5. Within(dir')
  BY <1>2, <1>3, <1>4, ClearedIsWithin
<1>6. SizesOK'
  BY <1>0, <1>2, <1>5 DEF SizesOK
<1>7. Owners' = {} /\ Journaled' = {} /\ ("power" \in faults => OwnersIn(disk)' = {})
  BY <1>2, <1>4 DEF Owners, Journaled, JournaledIn
<1>8. RoomOK' /\ EvictionsOK'
  BY <1>0, <1>7 DEF RInv, RoomOK, EvictionsOK
<1>9. OwnersOK'
  BY <1>0, <1>7 DEF RInv, OwnersOK
<1> QED BY <1>6, <1>8, <1>9 DEF RInv

LEMMA SetPinnedRoom == ASSUME IInv, IInv', RInv, Apart, SetPinned PROVE RInv'
<1> DEFINE entry == [dir[op.id] EXCEPT !.pinned = (op.call = "pin")]
<1>0. /\ at = "ready" /\ op.id \in Ids /\ PutMarker(op.id, entry) /\ Unlock
      /\ dir[op.id].kind = "valid" /\ UNCHANGED faults
  BY DEF SetPinned, IInv, CallsOK, Calls, Valid, ValidIn
<1>1. entry \in Entry /\ entry.kind = "valid" /\ entry.journal = dir[op.id].journal
  BY <1>0 DEF IInv, TypeOK, Entry
<1> HIDE DEF entry
<1>2. /\ dir \in [Ids -> Entry] /\ dir' \in [Ids -> Entry]
      /\ \A i \in Ids : dir'[i] = IF i = op.id THEN entry ELSE dir[i]
  BY <1>0, <1>1, MarkerKept DEF IInv, TypeOK
<1>3. OwnersIn(dir) = {}
  BY <1>0, NoOwners DEF Owners
<1>4. ValidIn(dir') = ValidIn(dir) /\ OwnersIn(dir') = {} /\ JournaledIn(dir) = {}
  BY <1>0, <1>1, <1>2, <1>3 DEF ValidIn, OwnersIn, JournaledIn
<1>5. Within(dir')
  BY <1>2, <1>4, ClearedIsWithin DEF RInv, SizesOK
<1>6. Owners' = {}
  BY <1>4 DEF Owners
<1>7. Apart'
  BY <1>0 DEF Apart, Sound
<1> QED BY <1>0, <1>5, <1>6, <1>7, LockReleased

LEMMA PublishRoom == ASSUME IInv, RInv, Apart, Publish PROVE RInv'
<1>0. /\ at = "staged" /\ at' = "published" /\ op.id \in Ids /\ op.victims \subseteq Ids
      /\ op.id \notin op.victims /\ op.call = "commit" /\ todo = {}
      /\ UNCHANGED <<faults, disk, op, todo>>
  BY DEF Publish, IInv, CallsOK, Calls, TypeOK, Removing, Operation, PublishedOK
<1>1. PICK pinned \in BOOLEAN :
        Put(op.id, [kind |-> "valid", pinned |-> pinned, journal |-> op.victims])
  BY DEF Publish
<1> DEFINE entry == [kind |-> "valid", pinned |-> pinned, journal |-> op.victims]
<1>2. entry.kind = "valid" /\ entry.journal = op.victims
  OBVIOUS
<1>3. \A i \in Ids : dir'[i] = IF i = op.id THEN entry ELSE dir[i]
  BY <1>0, <1>1 DEF Put, IInv, TypeOK
<1> HIDE DEF entry
<1>4. Owners = {} /\ ("power" \in faults => OwnersIn(disk) = {}) /\ Valid \in SUBSET Ids
  BY <1>0, NoOwners DEF Valid, ValidIn
<1>5. /\ ValidIn(dir') = Valid \cup {op.id} /\ dir'[op.id].journal = op.victims
      /\ OwnersIn(dir') = IF op.victims = {} THEN {} ELSE {op.id}
  BY <1>0, <1>2, <1>3, <1>4 DEF Valid, ValidIn, Owners, OwnersIn
<1>6. ValidIn(dir') \ JournaledIn(dir') \subseteq (Valid \ op.victims) \cup {op.id}
  <2>1. CASE op.victims = {}
    BY <1>5, <2>1
  <2>2. CASE op.victims # {}
    BY <1>0, <1>5, <2>2 DEF JournaledIn
  <2> QED BY <2>1, <2>2
<1>7. IsFiniteSet(Valid) /\ FitsWith(Valid, 0, 0)
  BY <1>4 DEF RInv, SizesOK, Within, Valid, Owners, JournaledIn
<1>8. FitsWith((Valid \ op.victims) \cup {op.id}, 0, 0) /\ Size[op.id] <= MaxPayload
  <2> DEFINE S == Valid \ op.victims
  <2>1. S \in SUBSET Ids /\ IsFiniteSet(S) /\ FitsWith(S, Size[op.id], 1) /\ Size[op.id] <= MaxPayload
    BY <1>0, <1>4, <1>7, FS_Difference DEF RInv, RoomOK
  <2> HIDE DEF S
  <2>2. FitsWith(S \cup {op.id}, 0, 0)
    BY <1>0, <2>1, NewcomerFits
  <2> QED BY <2>1, <2>2 DEF S
<1>9. FitsWith(ValidIn(dir') \ JournaledIn(dir'), 0, 0) /\ IsFiniteSet(ValidIn(dir'))
  <2> DEFINE T == (Valid \ op.victims) \cup {op.id}
  <2>1. IsFiniteSet(Valid \cup {op.id})
    BY <1>7, FS_AddElement
  <2>2. T \in SUBSET Ids /\ T \subseteq Valid \cup {op.id} /\ FitsWith(T, 0, 0)
    BY <1>0, <1>4, <1>8
  <2>3. IsFiniteSet(T) /\ ValidIn(dir') \ JournaledIn(dir') \in SUBSET T
    BY <1>6, <2>1, <2>2, FS_Subset
  <2> HIDE DEF T
  <2> QED BY <1>5, <2>1, <2>2, <2>3, PartFits
<1>10. \A o \in OwnersIn(dir') : o = op.id
  BY <1>5
<1>11. FitsWith(ValidIn(dir') \ {op.id}, 0, 0)
  <2>1. ValidIn(dir') \ {op.id} \in SUBSET Valid
    BY <1>5
  <2> QED BY <1>4, <1>7, <2>1, PartFits
<1>12. Within(dir')
  BY <1>8, <1>9, <1>10, <1>11 DEF Within
<1>13. SizesOK'
  BY <1>0, <1>12 DEF RInv, SizesOK
<1>14. Owners' \subseteq {op.id} /\ ("power" \in faults => OwnersIn(disk)' = {})
  BY <1>0, <1>4, <1>5 DEF Owners
<1>15. RoomOK' /\ EvictionsOK'
  BY <1>0, <1>5, <1>14 DEF RInv, RoomOK, EvictionsOK
<1>16. OwnersOK'
  BY <1>0, <1>14 DEF RInv, OwnersOK
<1> QED BY <1>13, <1>15, <1>16 DEF RInv

\* An entry that goes.
LEMMA EntryLost ==
  ASSUME IInv, NEW id \in Ids, Put(id, Absent)
  PROVE  /\ Reduces(dir', dir) /\ Valid' = Valid \ {id} /\ Owners' = Owners \ {id}
         /\ \A o \in Owners' : dir'[o] = dir[o]
<1>1. \A i \in Ids : dir'[i] = IF i = id THEN Absent ELSE dir[i]
  BY EntryGone
<1> QED BY <1>1 DEF Reduces, Valid, ValidIn, Owners, OwnersIn, Absent

LEMMA SweepRoom == ASSUME IInv, IInv', RInv, Apart, NEW id \in Ids, Sweep(id) PROVE RInv'
<1>0. /\ at = "sweeping" /\ Put(id, Absent) /\ UNCHANGED <<faults, disk, todo, at>>
      /\ op'.by = op.by /\ op'.call = op.call /\ op'.id = op.id
  BY DEF Sweep, IInv, TypeOK, Operation
<1>1. Reduces(dir', dir) /\ Owners' \subseteq Owners
  BY <1>0, EntryLost
<1>2. Owners = {} /\ ("power" \in faults => OwnersIn(disk) = {})
  BY <1>0, NoOwners
<1>3. Within(dir')
  BY <1>1, ReducedIsWithin DEF RInv, SizesOK, IInv, TypeOK
<1>4. SizesOK'
  BY <1>0, <1>3 DEF RInv, SizesOK
<1>5. RoomOK' /\ EvictionsOK'
  BY <1>0 DEF RInv, RoomOK, EvictionsOK
<1>6. OwnersOK'
  BY <1>0, <1>1, <1>2 DEF RInv, OwnersOK
<1> QED BY <1>4, <1>5, <1>6 DEF RInv

LEMMA RemoveRoom == ASSUME IInv, IInv', RInv, NEW id \in Ids, Remove(id) PROVE RInv'
<1>0. /\ at \in {"repairing", "evicting", "removing"} /\ id \in todo /\ Put(id, Absent)
      /\ todo' = todo \ {id}
      /\ UNCHANGED <<faults, disk, at, op>>
  BY DEF Remove, Removing
<1>1. /\ Reduces(dir', dir) /\ Valid' = Valid \ {id} /\ Owners' = Owners \ {id}
      /\ \A o \in Owners' : dir'[o] = dir[o]
  BY <1>0, EntryLost
<1>2. Within(dir')
  BY <1>1, ReducedIsWithin DEF RInv, SizesOK, IInv, TypeOK
<1>3. SizesOK'
  BY <1>0, <1>2 DEF RInv, SizesOK
<1>4. RoomOK'
  BY <1>0 DEF RInv, RoomOK
<1>5. CASE op.by # Offline
  <2>1. Owners' = Owners
    BY <1>0, <1>1, <1>5 DEF RInv, OwnersOK
  <2>2. Journaled' = Journaled
    BY <1>1, <2>1 DEF Journaled, JournaledIn, Owners
  <2>3. EvictionsOK'
    BY <1>0, <1>1, <2>1, <2>2 DEF RInv, EvictionsOK
  <2>4. OwnersOK'
    BY <1>0, <1>5, <2>1 DEF RInv, OwnersOK
  <2> QED BY <1>3, <1>4, <2>3, <2>4 DEF RInv
<1>6. CASE op.by = Offline
  <2>1. at = "removing" /\ id = op.id
    BY <1>0, <1>6 DEF RInv, OwnersOK
  <2>2. EvictionsOK'
    BY <1>0, <2>1 DEF EvictionsOK
  <2>3. \A i \in Ids \ {op.id} : dir'[i] = dir[i]
    BY <1>0, <2>1, EntryGone
  <2>4. OwnersOK'
    BY <1>0, <1>1, <1>6, <2>1, <2>3 DEF RInv, OwnersOK
  <2> QED BY <1>3, <1>4, <2>2, <2>4 DEF RInv
<1> QED BY <1>5, <1>6

-----------------------------------------------------------------------------
(* Crashes *)

\* What is left of a state that is no newcomer has no journal.
LEMMA HalfReduces ==
  ASSUME NEW entry \in Entry, NEW half \in Halves(entry), entry.kind = "absent" => entry = Absent,
         entry.kind = "valid" => entry.journal = {}
  PROVE  half.kind = "valid" => entry.kind = "valid" /\ half.journal = entry.journal
<1>1. /\ half.kind = "valid" => entry.kind = "valid"
      /\ half.journal \subseteq entry.journal
  BY HalvesShrink
<1> QED BY <1>1

\* What an interruption leaves of the namespace.
LEMMA InterruptLeaves ==
  ASSUME IInv, Interrupt, todo \cap Owners = {}
  PROVE  Reduces(dir', dir) /\ Owners \subseteq Owners' /\ UNCHANGED <<faults, disk>>
<1>1. CASE UNCHANGED dir
  BY <1>1 DEF Interrupt, Reduces, Owners
<1>2. CASE \E id \in todo : \E half \in Halves(dir[id]) : Put(id, half)
  <2>1. PICK id \in todo : \E half \in Halves(dir[id]) : Put(id, half)
    BY <1>2
  <2>2. PICK half \in Halves(dir[id]) : Put(id, half)
    BY <2>1
  <2>3. id \in Ids /\ dir[id] \in Entry /\ (dir[id].kind = "absent" => dir[id] = Absent)
    BY DEF IInv, TypeOK, EntriesOK
  <2>4. id \notin Owners /\ (dir[id].kind = "valid" => dir[id].journal = {})
    BY <2>1, <2>3 DEF Owners, OwnersIn, ValidIn
  <2>5. half.kind = "valid" => dir[id].kind = "valid" /\ half.journal = dir[id].journal
    BY <2>3, <2>4, HalfReduces
  <2>6. \A i \in Ids : dir'[i] = IF i = id THEN half ELSE dir[i]
    BY <2>2, <2>3 DEF Put, IInv, TypeOK
  <2>7. Reduces(dir', dir)
    BY <2>5, <2>6 DEF Reduces
  <2>8. Owners \subseteq Owners'
    BY <2>4, <2>6 DEF Owners, OwnersIn, ValidIn
  <2> QED BY <2>7, <2>8 DEF Interrupt
<1> QED BY <1>1, <1>2 DEF Interrupt

LEMMA InterruptRoom ==
  ASSUME IInv, IInv', RInv, Apart, Interrupt, todo \cap Owners = {}, "interrupt" \in faults => Owners = {}
  PROVE  RInv'
<1>1. Reduces(dir', dir) /\ Unlock /\ UNCHANGED faults
  BY InterruptLeaves DEF Interrupt
<1>2. Within(dir')
  BY <1>1, ReducedIsWithin DEF RInv, SizesOK, IInv, TypeOK
<1>3. Owners' \subseteq Owners
  BY <1>1 DEF Reduces, Owners, OwnersIn, ValidIn
<1>4. Apart'
  BY <1>1 DEF Apart, Sound
<1> QED BY <1>1, <1>2, <1>3, <1>4, LockReleased

LEMMA KillRoom == ASSUME IInv, IInv', RInv, Apart, NEW p \in Runtimes, Kill(p) PROVE RInv'
<1>1. "kill" \in faults /\ "interrupt" \notin faults
  BY DEF Kill, Apart
<1>2. CASE at # "idle" /\ op.by = p
  <2>1. Interrupt /\ todo \cap Owners = {}
    BY <1>2, StoreAssumption DEF Kill, RInv, OwnersOK
  <2> QED BY <1>1, <2>1, InterruptRoom
<1>3. CASE ~(at # "idle" /\ op.by = p)
  <2>1. UNCHANGED <<faults, dir, disk, at, op, todo>>
    BY <1>3 DEF Kill
  <2>2. /\ SizesOK' /\ Owners' = Owners /\ Valid' = Valid /\ Journaled' = Journaled
        /\ "power" \in faults /\ OwnersIn(disk) \subseteq Owners => OwnersIn(disk)' \subseteq Owners'
    BY <2>1, NamespaceKept
  <2> QED BY <2>1, <2>2 DEF RInv, RoomOK, EvictionsOK, OwnersOK
<1> QED BY <1>2, <1>3

LEMMA InterruptOfflineRoom == ASSUME IInv, IInv', RInv, Apart, InterruptOffline PROVE RInv'
<1>1. at = "removing" /\ Interrupt /\ "interrupt" \in faults
  BY DEF InterruptOffline, RInv, OwnersOK
<1>2. Owners = {}
  BY <1>1 DEF RInv, OwnersOK
<1> QED BY <1>1, <1>2, InterruptRoom

\* Power loss leaves a part of the namespace in which more is found: what was
\* synchronized, or, for a newcomer not yet synchronized, what processes saw.
LEMMA PowerLossReduces ==
  ASSUME IInv, RInv, Apart, PowerLoss
  PROVE  Reduces(dir', IF at = "published" THEN dir ELSE disk)
<1>0. /\ "power" \in faults /\ "interrupt" \notin faults /\ (at # "idle" => op.by # Offline)
  BY DEF PowerLoss, Apart, Sound
<1>1. PICK S \in SUBSET Ids :
        LET left == [id \in Ids |-> IF id \in S THEN dir[id] ELSE disk[id]]
        IN  \/ dir' = left
            \/ /\ Removing
               /\ \E id \in todo : \E half \in Halves(dir[id]) :
                    dir' = [left EXCEPT ![id] = half]
  BY DEF PowerLoss
<1> DEFINE left == [id \in Ids |-> IF id \in S THEN dir[id] ELSE disk[id]]
<1>2. \A i \in Ids : left[i] \in {dir[i], disk[i]}
  OBVIOUS
<1>3. CASE at = "published"
  <2>1. dir' = left
    BY <1>1, <1>3 DEF Removing
  <2>2. \A i \in Ids : disk[i] \in {dir[i], Absent}
    BY <1>0, <1>3 DEF IInv, Apart, SyncedOK
  <2> HIDE DEF left
  <2> QED BY <1>2, <1>3, <2>1, <2>2 DEF Reduces, Absent
<1>4. CASE at # "published"
  <2>1. \A i \in Ids : dir[i] \in {disk[i], Absent}
    BY <1>0, <1>4 DEF IInv, Apart, SyncedOK, TypeOK
  <2>2. CASE dir' = left
    <3> HIDE DEF left
    <3> QED BY <1>2, <1>4, <2>1, <2>2 DEF Reduces, Absent
  <2>3. CASE Removing /\ \E id \in todo : \E half \in Halves(dir[id]) : dir' = [left EXCEPT ![id] = half]
    <3>1. PICK id \in todo : \E half \in Halves(dir[id]) : dir' = [left EXCEPT ![id] = half]
      BY <2>3
    <3>2. PICK half \in Halves(dir[id]) : dir' = [left EXCEPT ![id] = half]
      BY <3>1
    <3>3. id \in Ids /\ dir[id] \in Entry /\ (dir[id].kind = "absent" => dir[id] = Absent)
      BY DEF IInv, TypeOK, EntriesOK
    <3>4. id \notin Owners
      BY <1>0, <2>3, <3>1 DEF RInv, OwnersOK, Removing
    <3>5. dir[id].kind = "valid" => dir[id].journal = {}
      BY <3>3, <3>4 DEF Owners, OwnersIn, ValidIn
    <3>6. half.kind = "valid" => dir[id].kind = "valid" /\ half.journal = dir[id].journal
      BY <3>3, <3>5, HalfReduces
    <3>7. \A i \in Ids : dir'[i] = IF i = id THEN half ELSE left[i]
      BY <3>2, <3>3
    <3> HIDE DEF left
    <3> QED BY <1>2, <1>4, <2>1, <3>6, <3>7 DEF Reduces, Absent
  <2> HIDE DEF left
  <2> QED BY <1>1, <2>2, <2>3 DEF left
<1> QED BY <1>3, <1>4

LEMMA PowerLossRoom == ASSUME IInv, IInv', RInv, Apart, PowerLoss PROVE RInv'
<1>0. Unlock /\ UNCHANGED faults /\ "power" \in faults
  BY DEF PowerLoss
<1>1. Within(dir')
  <2> DEFINE v == IF at = "published" THEN dir ELSE disk
  <2>1. Reduces(dir', v) /\ Within(v) /\ v \in [Ids -> Entry] /\ dir' \in [Ids -> Entry]
    BY <1>0, PowerLossReduces DEF RInv, SizesOK, IInv, TypeOK
  <2> HIDE DEF v
  <2> QED BY <2>1, ReducedIsWithin
<1>2. Apart' /\ "interrupt" \notin faults'
  BY <1>0 DEF Apart, Sound
<1> QED BY <1>0, <1>1, <1>2, LockReleased

-----------------------------------------------------------------------------

LEMMA FaultsStay == [Next]_vars => UNCHANGED faults
BY DEF Next, vars, StartStep, ReconcileStep, CommitStep, CallStep, FaultStep, StartCall, StartPrune, Start,
   Discard, ScanPending, Repaired, Unmark, Unmarked, SweepStaging, Sweep, Swept, Stage, CommitRefused,
   StagingFails, Publish, SyncPublished, Evicted, Clear, EvictionFails, CommitReturns, LoadMissing,
   LoadDamaged, Load, SetPinned, Prune, Remove, Removed, RemovalFails, Expire, Exit, Interrupt, Kill,
   InterruptOffline, PowerLoss

LEMMA StepKeepsRoom == ASSUME IInv, RInv, Apart, [Next]_vars PROVE RInv'
<1>0. IInv'
  BY StepKeeps
<1>1. CASE StartStep
  <2>1. ASSUME NEW p \in Runtimes, NEW call \in Calls, NEW id \in Ids, StartCall(p, call, id)
        PROVE  RInv'
    BY <2>1, StartRoom DEF StartCall
  <2>2. ASSUME NEW p \in Runtimes, StartPrune(p) PROVE RInv'
    BY <2>2, StartRoom DEF StartPrune
  <2> QED BY <1>1, <2>1, <2>2, DiscardRoom DEF StartStep
<1>2. CASE ReconcileStep
  BY <1>0, <1>2, ScanPendingRoom, RepairedRoom, UnmarkRoom, UnmarkedRoom, SweepStagingRoom,
     SweepRoom, SweptRoom DEF ReconcileStep
<1>3. CASE CommitStep
  BY <1>0, <1>3, StageRoom, PublishRoom, SyncPublishedRoom, EvictedRoom, ClearRoom,
     EvictionFailsRoom, EndsRoom DEF CommitStep
<1>4. CASE CallStep
  BY <1>0, <1>4, EndsRoom, RemovalStartsRoom, SetPinnedRoom, RemoveRoom DEF CallStep
<1>5. ASSUME UNCHANGED <<faults, dir, disk, at, op, todo>> PROVE RInv'
  <2>1. /\ SizesOK' /\ Owners' = Owners /\ Valid' = Valid /\ Journaled' = Journaled
        /\ "power" \in faults /\ OwnersIn(disk) \subseteq Owners => OwnersIn(disk)' \subseteq Owners'
    BY <1>5, NamespaceKept
  <2> QED BY <1>5, <2>1 DEF RInv, RoomOK, EvictionsOK, OwnersOK
<1>6. CASE FaultStep
  <2>1. CASE (\E id \in Ids : Expire(id)) \/ (\E p \in Runtimes : Exit(p))
    BY <1>5, <2>1 DEF Expire, Exit
  <2> QED BY <1>0, <1>6, <2>1, KillRoom, InterruptOfflineRoom, PowerLossRoom DEF FaultStep
<1>7. CASE UNCHANGED vars
  BY <1>5, <1>7 DEF vars
<1> QED BY <1>1, <1>2, <1>3, <1>4, <1>6, <1>7 DEF Next

\* The strengthening of Recoverable for the faults considered.
LEMMA RoomHolds == Spec => [](Apart => RInv)
<1>1. Init => (Apart => RInv)
  BY InitRoom
<1>2. IInv /\ (Apart => RInv) /\ [Next]_vars => (Apart => RInv)'
  <2> SUFFICES ASSUME IInv, Apart => RInv, [Next]_vars, Apart' PROVE RInv'
    OBVIOUS
  <2>1. Apart
    BY FaultsStay DEF Apart, Sound
  <2> QED BY <2>1, StepKeepsRoom
<1> QED BY <1>1, <1>2, InvariantHolds, PTL DEF Spec

\* "A crash may leave exactly one newly published state awaiting its quota
\* evictions": recovery always finds a catalog that it can scan and bring back
\* within its quota.
THEOREM RecoveryFindsRoom ==
  Spec => []((/\ "power" \in faults => faults = {"power"}
              /\ "interrupt" \in faults => faults = {"interrupt"}) => Recoverable)
<1>1. IInv /\ (Apart => RInv) =>
        ((/\ "power" \in faults => faults = {"power"}
          /\ "interrupt" \in faults => faults = {"interrupt"}) => Recoverable)
  BY WithinIsRecoverable DEF Apart, Sound, RInv, SizesOK, IInv
<1> QED BY <1>1, InvariantHolds, RoomHolds, PTL

-----------------------------------------------------------------------------
(* The catalog that is promised *)

\* A directory with its journals carried out, and what these still name.
Kept(v) == ValidIn(v) \ JournaledIn(v)
Parting(v) == ValidIn(v) \cap JournaledIn(v)

\* The steps of the abstract catalog, on directories.
CommitOf(v, w) ==
  /\ Parting(v) = {}
  /\ \E id \in Ids \ Kept(v), V \in SUBSET Kept(v) : Kept(w) = (Kept(v) \ V) \cup {id} /\ Parting(w) = V
RemoveOf(v, w) == Kept(w) \subseteq Kept(v) /\ Parting(w) \subseteq Parting(v)
ReturnOf(v, w) ==
  /\ \E newcomer \in Kept(v), S \in SUBSET Parting(v) : Kept(w) = (Kept(v) \ {newcomer}) \cup S
  /\ Parting(w) = {}

LEMMA CatalogFits ==
  \A S : Catalog!Fits(S) <=> Bytes(S) <= MaxBytes /\ Cardinality(S) <= MaxEntries
<1>1. \A S : Catalog!Cardinality(S) = Cardinality(S)
  BY DEF Catalog!Cardinality, Cardinality
<1>2. \A S : Catalog!MapThenSumSet(LAMBDA id : Size[id], S) = Bytes(S)
  BY DEF Bytes, MapThenSumSet, MapThenFoldSet, Catalog!MapThenSumSet, Catalog!MapThenFoldSet
<1> QED BY <1>1, <1>2 DEF Catalog!Fits

LEMMA CatalogStep ==
  ASSUME NEW w, Durable' = w, Within(w), w \in [Ids -> Entry],
         \/ CommitOf(Durable, w) \/ RemoveOf(Durable, w) \/ ReturnOf(Durable, w)
  PROVE  Catalog!Next
<1>1. Kept(w) = (ValidIn(Durable) \ JournaledIn(Durable))' /\ Parting(w) = (ValidIn(Durable) \cap JournaledIn(Durable))'
  BY DEF Kept, Parting
<1>2. Catalog!Fits(Kept(w))
  <2>1. FitsWith(Kept(w), 0, 0)
    BY DEF Within, Kept
  <2>2. IsFiniteSet(Kept(w)) /\ Kept(w) \in SUBSET Ids
    BY FS_Difference DEF Within, Kept, ValidIn
  <2>3. Bytes(Kept(w)) \in Nat /\ Cardinality(Kept(w)) \in Nat
    BY <2>2, BytesIsNat, FS_CardinalityType
  <2>4. Bytes(Kept(w)) <= MaxBytes /\ Cardinality(Kept(w)) <= MaxEntries
    BY <2>1, <2>3, StoreAssumption DEF FitsWith
  <2> QED BY <2>4, CatalogFits
<1>3. CASE CommitOf(Durable, w)
  <2>1. Catalog!Commit
    BY <1>1, <1>2, <1>3 DEF CommitOf, Catalog!Commit, Kept, Parting
  <2> QED BY <2>1 DEF Catalog!Next
<1>4. CASE RemoveOf(Durable, w)
  <2>1. Catalog!Remove
    BY <1>1, <1>4 DEF RemoveOf, Catalog!Remove, Kept, Parting
  <2> QED BY <2>1 DEF Catalog!Next
<1>5. CASE ReturnOf(Durable, w)
  <2>1. Catalog!Return
    BY <1>1, <1>2, <1>5 DEF ReturnOf, Catalog!Return, Kept, Parting
  <2> QED BY <2>1 DEF Catalog!Next
<1> QED BY <1>3, <1>4, <1>5

\* States are lost, and no newcomer among them.
LEMMA LostIsRemove ==
  ASSUME NEW v \in [Ids -> Entry], NEW w \in [Ids -> Entry], Within(v), Reduces(w, v),
         OwnersIn(v) \subseteq OwnersIn(w)
  PROVE  RemoveOf(v, w)
<1>1. ValidIn(w) \subseteq ValidIn(v) /\ OwnersIn(w) = OwnersIn(v) /\ \A o \in OwnersIn(v) : w[o].journal = v[o].journal
  BY DEF Reduces, ValidIn, OwnersIn
<1>2. JournaledIn(w) = JournaledIn(v)
  BY <1>1 DEF JournaledIn
<1> QED BY <1>1, <1>2 DEF RemoveOf, Kept, Parting

\* A journal that names nothing any more is cleared.
LEMMA ClearedIsRemove ==
  ASSUME NEW v, NEW w, ValidIn(w) = ValidIn(v), OwnersIn(w) = {}, JournaledIn(v) \cap ValidIn(v) = {}
  PROVE  RemoveOf(v, w)
<1>1. JournaledIn(w) = {}
  BY DEF JournaledIn
<1> QED BY <1>1 DEF RemoveOf, Kept, Parting

\* The newcomer is lost: what was to give way to it is back.
LEMMA NewcomerLostIsReturn ==
  ASSUME NEW v \in [Ids -> Entry], NEW w \in [Ids -> Entry], Within(v), NEW o \in OwnersIn(v),
         \A i \in Ids : w[i] = IF i = o THEN Absent ELSE v[i]
  PROVE  ReturnOf(v, w)
<1>1. OwnersIn(v) = {o} /\ o \in ValidIn(v) /\ o \notin JournaledIn(v)
  BY JournaledOne DEF JournaledIn
<1>2. ValidIn(w) = ValidIn(v) \ {o} /\ OwnersIn(w) = {}
  BY <1>1 DEF ValidIn, OwnersIn, Absent
<1>3. JournaledIn(w) = {}
  BY <1>2 DEF JournaledIn
<1>4. o \in Kept(v) /\ Kept(w) = (Kept(v) \ {o}) \cup Parting(v) /\ Parting(w) = {}
  BY <1>1, <1>2, <1>3 DEF Kept, Parting
<1> QED BY <1>4 DEF ReturnOf

\* A newcomer appears, with the journal of what gives way to it.
LEMMA NewcomerIsCommit ==
  ASSUME NEW v \in [Ids -> Entry], NEW w \in [Ids -> Entry], OwnersIn(v) = {}, NEW id \in Ids,
         v[id].kind # "valid", w[id].kind = "valid", id \notin w[id].journal,
         \A i \in Ids \ {id} : w[i] = v[i]
  PROVE  CommitOf(v, w)
<1> DEFINE J == w[id].journal
<1>1. JournaledIn(v) = {} /\ id \notin ValidIn(v) /\ ValidIn(w) = ValidIn(v) \cup {id}
  BY DEF JournaledIn, ValidIn
<1>2. OwnersIn(w) = IF J = {} THEN {} ELSE {id}
  BY DEF OwnersIn, ValidIn
<1>3. JournaledIn(w) = J
  <2>1. CASE J = {}
    BY <1>2, <2>1 DEF JournaledIn
  <2>2. CASE J # {}
    <3>1. (UNION {w[o].journal : o \in {id}}) = J
      <4>1. {w[o].journal : o \in {id}} = {J}
        OBVIOUS
      <4>2. UNION {J} = J
        OBVIOUS
      <4> QED BY <4>1, <4>2
    <3> QED BY <1>2, <2>2, <3>1 DEF JournaledIn
  <2> QED BY <2>1, <2>2
<1> DEFINE V == ValidIn(v) \cap J
<1>4. /\ Parting(v) = {} /\ Kept(v) = ValidIn(v) /\ id \in Ids \ Kept(v) /\ V \in SUBSET Kept(v)
      /\ Kept(w) = (Kept(v) \ V) \cup {id} /\ Parting(w) = V
  <2> HIDE DEF J
  <2>1. id \notin J
    BY DEF J
  <2> QED BY <1>1, <1>3, <2>1 DEF Kept, Parting
<1> HIDE DEF V
<1> QED BY <1>4 DEF CommitOf

LEMMA InitCatalog == Init => Catalog!Init
<1> SUFFICES ASSUME Init PROVE Catalog!Init
  OBVIOUS
<1>1. ValidIn(Durable) = {}
  BY DEF Init, Durable, ValidIn, Absent
<1> QED BY <1>1 DEF Catalog!Init

\* Steps that the abstract catalog does not see.
LEMMA Unseen ==
  ASSUME UNCHANGED Durable
  PROVE  UNCHANGED Catalog!vars
BY DEF Catalog!vars

LEMMA SeenStep ==
  ASSUME IInv', RInv',
         \/ CommitOf(Durable, Durable') \/ RemoveOf(Durable, Durable') \/ ReturnOf(Durable, Durable')
  PROVE  [Catalog!Next]_(Catalog!vars)
<1>1. Within(Durable') /\ Durable' \in [Ids -> Entry]
  BY DEF Durable, RInv, SizesOK, IInv, TypeOK
<1> QED BY <1>1, CatalogStep

\* The namespace is synchronized and loses what was removed since.
LEMMA SyncMaps ==
  ASSUME IInv, IInv', RInv, RInv', Apart, SyncNamespace, UNCHANGED <<faults, dir>>,
         at \in {"repairing", "evicting", "removing", "sweeping"}
  PROVE  [Catalog!Next]_(Catalog!vars)
<1>1. CASE "power" \notin faults
  BY <1>1, Unseen DEF Durable
<1>2. CASE "power" \in faults
  <2>1. Durable = disk /\ Durable' = dir /\ disk' = dir
    BY <1>2, NamespaceSynced DEF Durable, Apart
  <2>2. /\ \A i \in Ids : dir[i] \in {disk[i], Absent}
        /\ dir \in [Ids -> Entry] /\ disk \in [Ids -> Entry] /\ Within(disk)
    BY <1>2 DEF IInv, Apart, SyncedOK, TypeOK, RInv, SizesOK
  <2>3. Reduces(dir, disk)
    BY <2>2 DEF Reduces, Absent
  <2>4. CASE OwnersIn(disk) \subseteq Owners
    <3>1. RemoveOf(disk, dir)
      BY <2>2, <2>3, <2>4, LostIsRemove DEF Owners
    <3> QED BY <2>1, <3>1, SeenStep
  <2>5. ASSUME NEW o \in OwnersIn(disk), o \notin Owners PROVE [Catalog!Next]_(Catalog!vars)
    <3>1. at = "removing" /\ op.by = Offline /\ \A i \in Ids \ {op.id} : disk[i] = dir[i]
      BY <1>2, <2>5 DEF RInv, OwnersOK
    <3>2. o \in Ids /\ dir[o] # disk[o]
      BY <2>5 DEF Owners, OwnersIn, ValidIn
    <3>3. \A i \in Ids : dir[i] = IF i = o THEN Absent ELSE disk[i]
      BY <2>2, <3>1, <3>2
    <3>4. ReturnOf(disk, dir)
      BY <2>2, <2>5, <3>3, NewcomerLostIsReturn
    <3> QED BY <2>1, <3>4, SeenStep
  <2> QED BY <2>4, <2>5
<1> QED BY <1>1, <1>2

\* The newcomer is synchronized: that is its commit where power may be lost.
LEMMA SyncPublishedMaps ==
  ASSUME IInv, IInv', RInv, RInv', Apart, SyncPublished
  PROVE  [Catalog!Next]_(Catalog!vars)
<1>0. at = "published" /\ SyncNamespace /\ UNCHANGED <<faults, dir>>
  BY DEF SyncPublished
<1>1. CASE "power" \notin faults
  BY <1>0, <1>1, Unseen DEF Durable
<1>2. CASE "power" \in faults
  <2>1. Durable = disk /\ Durable' = dir /\ disk' = dir
    BY <1>0, <1>2, NamespaceSynced DEF Durable, Apart
  <2>2. CommitOf(disk, dir)
    <3>1. /\ op.id \in Ids /\ disk[op.id] = Absent /\ \A i \in Ids \ {op.id} : disk[i] = dir[i]
          /\ dir \in [Ids -> Entry] /\ disk \in [Ids -> Entry]
          /\ dir[op.id].kind = "valid" /\ dir[op.id].journal = op.victims /\ op.id \notin op.victims
      BY <1>0, <1>2 DEF IInv, Apart, SyncedOK, TypeOK, PublishedOK, Valid, ValidIn, RInv, EvictionsOK
    <3>2. OwnersIn(disk) = {}
      <4>1. OwnersIn(disk) \subseteq {op.id}
        BY <1>0, <1>2 DEF RInv, OwnersOK, EvictionsOK
      <4> QED BY <3>1, <4>1 DEF OwnersIn, ValidIn, Absent
    <3> QED BY <3>1, <3>2, NewcomerIsCommit DEF Absent
  <2> QED BY <2>1, <2>2, SeenStep
<1> QED BY <1>1, <1>2

\* Elsewhere the commit is the rename.
LEMMA PublishMaps ==
  ASSUME IInv, IInv', RInv, RInv', Apart, Publish
  PROVE  [Catalog!Next]_(Catalog!vars)
<1>0. /\ at = "staged" /\ at' = "published" /\ op.id \in Ids /\ UNCHANGED <<faults, disk, op>>
  BY DEF Publish, IInv, CallsOK, Calls
<1>1. CASE "power" \in faults
  BY <1>0, <1>1, Unseen DEF Durable
<1>2. CASE "power" \notin faults
  <2>1. Durable = dir /\ Durable' = dir'
    BY <1>0, <1>2 DEF Durable
  <2>2. dir[op.id] = Absent /\ OwnersIn(dir) = {} /\ dir \in [Ids -> Entry] /\ dir' \in [Ids -> Entry]
    BY <1>0, NoOwners DEF IInv, Apart, StagedOK, TypeOK, Owners
  <2>3. dir'[op.id].kind = "valid" /\ dir'[op.id].journal = op.victims /\ op.id \notin op.victims
    BY <1>0 DEF IInv, PublishedOK, Valid, ValidIn, RInv, EvictionsOK
  <2>4. \A i \in Ids \ {op.id} : dir'[i] = dir[i]
    BY <2>2 DEF Publish, Put
  <2>5. CommitOf(dir, dir')
    BY <1>0, <2>2, <2>3, <2>4, NewcomerIsCommit DEF Absent
  <2> QED BY <2>1, <2>5, SeenStep
<1> QED BY <1>1, <1>2

\* A journal is cleared, a pin is changed: no state comes or goes.
LEMMA MarkerMaps ==
  ASSUME IInv, IInv', RInv, RInv', Apart, (\E o \in Ids : Unmark(o)) \/ Clear \/ SetPinned
  PROVE  [Catalog!Next]_(Catalog!vars)
<1>1. /\ UNCHANGED faults /\ at \in {"unmarking", "clearing", "ready"}
      /\ at' \in {"unmarking", "returning", "idle"}
  BY DEF Unmark, Clear, SetPinned, Unlock
<1>2. "power" \in faults => disk = dir /\ disk' = dir'
  BY <1>1 DEF IInv, Apart, Sound, SyncedOK
<1>3. Durable = dir /\ Durable' = dir'
  BY <1>1, <1>2 DEF Durable
<1>4. PICK id \in Ids, entry \in Entry :
        /\ Put(id, entry) /\ entry.kind = "valid" /\ dir[id].kind = "valid"
        /\ entry.journal = {} \/ entry.journal = dir[id].journal
        /\ Owners \subseteq {id} /\ (Owners # {} => entry.journal = {})
        /\ Journaled \cap Valid = {}
  <2>1. ASSUME NEW o \in Ids, Unmark(o) PROVE
        /\ Put(o, [dir[o] EXCEPT !.journal = {}]) /\ dir[o] \in Entry /\ dir[o].kind = "valid"
        /\ Owners \subseteq {o} /\ Journaled \cap Valid = {}
    BY <2>1 DEF Unmark, PutMarker, IInv, TypeOK, Owners, OwnersIn, ValidIn, RInv, SizesOK, Within, EvictionsOK
  <2>2. ASSUME Clear PROVE
        /\ op.id \in Ids
        /\ Put(op.id, [dir[op.id] EXCEPT !.journal = {}]) /\ dir[op.id] \in Entry /\ dir[op.id].kind = "valid"
        /\ Owners \subseteq {op.id} /\ Journaled \cap Valid = {}
    BY <2>2 DEF Clear, PutMarker, IInv, TypeOK, CallsOK, Calls, PublishedOK, Valid, ValidIn, RInv, EvictionsOK
  <2>3. ASSUME SetPinned PROVE
        /\ op.id \in Ids
        /\ Put(op.id, [dir[op.id] EXCEPT !.pinned = (op.call = "pin")])
        /\ dir[op.id] \in Entry /\ dir[op.id].kind = "valid"
        /\ Owners = {} /\ Journaled = {}
    BY <2>3, NoOwners DEF SetPinned, PutMarker, IInv, TypeOK, CallsOK, Calls, Valid, ValidIn, Journaled, JournaledIn, Owners
  <2>4. ASSUME NEW e \in Entry PROVE
        LET c == [e EXCEPT !.journal = {}] IN c \in Entry /\ c.kind = e.kind /\ c.journal = {}
    BY DEF Entry
  <2>5. ASSUME NEW e \in Entry, NEW b \in BOOLEAN PROVE
        LET c == [e EXCEPT !.pinned = b] IN c \in Entry /\ c.kind = e.kind /\ c.journal = e.journal
    BY DEF Entry
  <2>6. ASSUME NEW o \in Ids, Unmark(o) PROVE \E id \in Ids, entry \in Entry :
        /\ Put(id, entry) /\ entry.kind = "valid" /\ dir[id].kind = "valid"
        /\ entry.journal = {} \/ entry.journal = dir[id].journal
        /\ Owners \subseteq {id} /\ (Owners # {} => entry.journal = {})
        /\ Journaled \cap Valid = {}
    BY <2>1, <2>4, <2>6
  <2>7. CASE Clear
    BY <2>2, <2>4, <2>7
  <2>8. CASE SetPinned
    BY <2>3, <2>5, <2>8
  <2> QED BY <2>6, <2>7, <2>8
<1>5. dir \in [Ids -> Entry] /\ \A i \in Ids : dir'[i] = IF i = id THEN entry ELSE dir[i]
  BY <1>4 DEF Put, IInv, TypeOK
<1>6. ValidIn(dir') = ValidIn(dir) /\ OwnersIn(dir') = {} /\ JournaledIn(dir) \cap ValidIn(dir) = {}
  BY <1>4, <1>5 DEF Owners, OwnersIn, ValidIn, Valid, Journaled
<1>7. RemoveOf(dir, dir')
  BY <1>6, ClearedIsRemove
<1> QED BY <1>3, <1>7, SeenStep

\* What processes see becomes less; where power may be lost this is seen later.
LEMMA LossMaps ==
  ASSUME IInv, IInv', RInv, RInv', UNCHANGED <<faults, disk>>, Reduces(dir', dir), Owners \subseteq Owners'
  PROVE  [Catalog!Next]_(Catalog!vars)
<1>1. CASE "power" \in faults
  BY <1>1, Unseen DEF Durable
<1>2. CASE "power" \notin faults
  <2>1. Durable = dir /\ Durable' = dir'
    BY <1>2 DEF Durable
  <2>2. RemoveOf(dir, dir')
    BY LostIsRemove DEF RInv, SizesOK, IInv, TypeOK, Owners
  <2> QED BY <2>1, <2>2, SeenStep
<1> QED BY <1>1, <1>2

LEMMA RemoveMaps ==
  ASSUME IInv, IInv', RInv, RInv', NEW id \in Ids, Remove(id)
  PROVE  [Catalog!Next]_(Catalog!vars)
<1>0. Put(id, Absent) /\ UNCHANGED <<faults, disk>>
  BY DEF Remove
<1>1. CASE id \notin Owners
  BY <1>0, <1>1, EntryLost, LossMaps
<1>2. CASE id \in Owners
  <2>1. CASE "power" \in faults
    BY <1>0, <2>1, Unseen DEF Durable
  <2>2. CASE "power" \notin faults
    <3>1. Durable = dir /\ Durable' = dir'
      BY <1>0, <2>2 DEF Durable
    <3>2. \A i \in Ids : dir'[i] = IF i = id THEN Absent ELSE dir[i]
      BY <1>0, EntryGone
    <3>3. ReturnOf(dir, dir')
      BY <1>2, <3>2, NewcomerLostIsReturn DEF RInv, SizesOK, IInv, TypeOK, Owners
    <3> QED BY <3>1, <3>3, SeenStep
  <2> QED BY <2>1, <2>2
<1> QED BY <1>1, <1>2

LEMMA SweepMaps ==
  ASSUME IInv, IInv', RInv, RInv', Apart, NEW id \in Ids, Sweep(id)
  PROVE  [Catalog!Next]_(Catalog!vars)
<1>1. at = "sweeping" /\ Put(id, Absent) /\ UNCHANGED <<faults, disk>>
  BY DEF Sweep
<1>2. Owners = {}
  BY <1>1, NoOwners
<1> QED BY <1>1, <1>2, EntryLost, LossMaps

LEMMA InterruptMaps ==
  ASSUME IInv, IInv', RInv, RInv', Apart, InterruptOffline \/ \E p \in Runtimes : Kill(p)
  PROVE  [Catalog!Next]_(Catalog!vars)
<1>1. CASE InterruptOffline
  <2>1. Interrupt /\ Owners = {}
    BY <1>1 DEF InterruptOffline, RInv, OwnersOK
  <2> QED BY <2>1, InterruptLeaves, LossMaps
<1>2. ASSUME NEW p \in Runtimes, Kill(p) PROVE [Catalog!Next]_(Catalog!vars)
  <2>1. CASE at # "idle" /\ op.by = p
    <3>1. Interrupt /\ todo \cap Owners = {}
      BY <1>2, <2>1, StoreAssumption DEF Kill, RInv, OwnersOK
    <3> QED BY <3>1, InterruptLeaves, LossMaps
  <2>2. CASE ~(at # "idle" /\ op.by = p)
    BY <1>2, <2>2, Unseen DEF Kill, Durable
  <2> QED BY <2>1, <2>2
<1> QED BY <1>1, <1>2

\* Power loss commits the newcomer that was published, or loses it, or loses
\* states that were being removed.
LEMMA PowerLossMaps ==
  ASSUME IInv, IInv', RInv, RInv', Apart, PowerLoss
  PROVE  [Catalog!Next]_(Catalog!vars)
<1>0. /\ "power" \in faults /\ (at # "idle" => op.by # Offline) /\ UNCHANGED faults /\ disk' = dir'
      /\ Durable = disk /\ Durable' = dir'
      /\ disk \in [Ids -> Entry] /\ dir \in [Ids -> Entry] /\ dir' \in [Ids -> Entry] /\ Within(disk)
  BY DEF PowerLoss, Apart, Sound, Sync, Durable, IInv, TypeOK, RInv, SizesOK
<1>1. PICK S \in SUBSET Ids :
        LET left == [id \in Ids |-> IF id \in S THEN dir[id] ELSE disk[id]]
        IN  \/ dir' = left
            \/ /\ Removing
               /\ \E id \in todo : \E half \in Halves(dir[id]) :
                    dir' = [left EXCEPT ![id] = half]
  BY DEF PowerLoss
<1> DEFINE left == [id \in Ids |-> IF id \in S THEN dir[id] ELSE disk[id]]
<1>2. \A i \in Ids : left[i] \in {dir[i], disk[i]}
  OBVIOUS
<1>3. CASE at = "published"
  <2>1. dir' = left
    BY <1>1, <1>3 DEF Removing
  <2>2. /\ op.id \in Ids /\ disk[op.id] = Absent /\ \A i \in Ids \ {op.id} : disk[i] = dir[i]
        /\ dir[op.id].kind = "valid" /\ dir[op.id].journal = op.victims /\ op.id \notin op.victims
    BY <1>0, <1>3 DEF IInv, Apart, SyncedOK, PublishedOK, Valid, ValidIn, RInv, EvictionsOK
  <2> HIDE DEF left
  <2>3. CASE dir'[op.id] = disk[op.id]
    <3>1. \A i \in Ids : dir'[i] = disk[i]
      BY <1>2, <2>1, <2>2, <2>3
    <3>2. dir' = disk
      BY <1>0, <3>1
    <3> QED BY <1>0, <3>2, Unseen
  <2>4. CASE dir'[op.id] = dir[op.id]
    <3>1. \A i \in Ids \ {op.id} : dir'[i] = disk[i]
      BY <1>2, <2>1, <2>2
    <3>2. OwnersIn(disk) = {}
      <4>1. OwnersIn(disk) \subseteq {op.id}
        BY <1>0, <1>3 DEF RInv, OwnersOK, EvictionsOK
      <4> QED BY <2>2, <4>1 DEF OwnersIn, ValidIn, Absent
    <3>3. CommitOf(disk, dir')
      BY <1>0, <2>2, <2>4, <3>1, <3>2, NewcomerIsCommit DEF Absent
    <3> QED BY <1>0, <3>3, SeenStep
  <2> QED BY <1>2, <2>1, <2>2, <2>3, <2>4
<1>4. CASE at # "published"
  <2>0. OwnersIn(disk) \subseteq Owners
    BY <1>0 DEF RInv, OwnersOK
  <2>1. \A i \in Ids : dir[i] \in {disk[i], Absent}
    BY <1>0, <1>4 DEF IInv, Apart, SyncedOK, TypeOK
  <2>2. \A o \in OwnersIn(disk) : o \in Ids /\ dir[o] = disk[o] /\ disk[o].kind = "valid" /\ disk[o].journal # {} /\ o \in Owners
    BY <2>0, <2>1 DEF Owners, OwnersIn, ValidIn, Absent
  <2>3. \A o \in OwnersIn(disk) : dir'[o] = disk[o]
    <3>1. \A o \in OwnersIn(disk) : left[o] = disk[o]
      BY <1>2, <2>2
    <3>2. CASE dir' = left
      BY <3>1, <3>2
    <3>3. CASE Removing /\ \E id \in todo : \E half \in Halves(dir[id]) : dir' = [left EXCEPT ![id] = half]
      <4>1. PICK id \in todo : \E half \in Halves(dir[id]) : dir' = [left EXCEPT ![id] = half]
        BY <3>3
      <4>2. PICK half \in Halves(dir[id]) : dir' = [left EXCEPT ![id] = half]
        BY <4>1
      <4>3. id \notin Owners
        BY <1>0, <3>3, <4>1 DEF RInv, OwnersOK, Removing
      <4> HIDE DEF left
      <4>4. \A o \in OwnersIn(disk) : o # id /\ o \in Ids
        BY <2>2, <4>3
      <4>5. \A o \in Ids : o # id => dir'[o] = left[o]
        BY <4>2 DEF left
      <4> QED BY <3>1, <4>4, <4>5
    <3> QED BY <1>1, <3>2, <3>3
  <2>4. OwnersIn(disk) \subseteq OwnersIn(dir')
    BY <2>2, <2>3 DEF OwnersIn, ValidIn
  <2>5. Reduces(dir', disk)
    BY <1>4, PowerLossReduces
  <2>6. RemoveOf(disk, dir')
    BY <1>0, <2>4, <2>5, LostIsRemove
  <2> QED BY <1>0, <2>6, SeenStep
<1> QED BY <1>3, <1>4

LEMMA StepMaps ==
  ASSUME IInv, IInv', RInv, RInv', Apart, [Next]_vars
  PROVE  [Catalog!Next]_(Catalog!vars)
<1>1. ASSUME UNCHANGED <<faults, dir, disk>> PROVE [Catalog!Next]_(Catalog!vars)
  BY <1>1, Unseen DEF Durable
<1>2. CASE StartStep
  BY <1>1, <1>2 DEF StartStep, StartCall, StartPrune, Start, Discard
<1>3. CASE ReconcileStep
  <2>1. CASE ScanPending \/ Unmarked \/ SweepStaging
    BY <1>1, <2>1 DEF ScanPending, Unmarked, SweepStaging
  <2>2. CASE Repaired
    BY <2>2, SyncMaps DEF Repaired
  <2>3. CASE Swept
    BY <1>1, <2>3, SyncMaps DEF Swept
  <2> QED BY <1>3, <2>1, <2>2, <2>3, MarkerMaps, SweepMaps DEF ReconcileStep
<1>4. CASE CommitStep
  <2>1. CASE Stage \/ CommitRefused \/ StagingFails \/ EvictionFails \/ CommitReturns
    BY <1>1, <2>1 DEF Stage, CommitRefused, StagingFails, EvictionFails, CommitReturns
  <2>2. CASE Evicted
    BY <2>2, SyncMaps DEF Evicted
  <2> QED BY <1>4, <2>1, <2>2, PublishMaps, SyncPublishedMaps, MarkerMaps DEF CommitStep
<1>5. CASE CallStep
  <2>1. CASE LoadMissing \/ LoadDamaged \/ Load \/ Prune \/ RemovalFails
    BY <1>1, <2>1 DEF LoadMissing, LoadDamaged, Load, Prune, RemovalFails
  <2>2. CASE Removed
    BY <2>2, SyncMaps DEF Removed
  <2> QED BY <1>5, <2>1, <2>2, MarkerMaps, RemoveMaps DEF CallStep
<1>6. CASE FaultStep
  <2>1. CASE (\E id \in Ids : Expire(id)) \/ (\E p \in Runtimes : Exit(p))
    BY <1>1, <2>1 DEF Expire, Exit
  <2> QED BY <1>6, <2>1, InterruptMaps, PowerLossMaps DEF FaultStep
<1>7. CASE UNCHANGED vars
  BY <1>1, <1>7 DEF vars
<1> QED BY <1>2, <1>3, <1>4, <1>5, <1>6, <1>7 DEF Next

LEMMA ApartStays == Spec /\ Apart => []Apart
<1>1. Apart /\ [Next]_vars => Apart'
  BY FaultsStay DEF Apart, Sound
<1> QED BY <1>1, PTL DEF Spec

\* The directories, their journals and recovery implement the abstract catalog:
\* whatever is killed or fails, or wherever power is lost, a commit and what gives
\* way to it are one step, and the catalog never exceeds its quota.
THEOREM CatalogImplemented ==
  Spec /\ ("power" \in faults => faults = {"power"})
       /\ ("interrupt" \in faults => faults = {"interrupt"})
    => ImplementsCatalog
<1>1. ("power" \in faults => faults = {"power"}) /\ ("interrupt" \in faults => faults = {"interrupt"}) <=> Apart
  BY DEF Apart, Sound
<1>2. Init => Catalog!Init
  BY InitCatalog
<1>3. /\ IInv /\ IInv' /\ (Apart => RInv) /\ (Apart => RInv)' /\ Apart /\ Apart' /\ [Next]_vars
      => [Catalog!Next]_(Catalog!vars)
  BY StepMaps
<1> QED BY <1>1, <1>2, <1>3, InvariantHolds, RoomHolds, ApartStays, PTL DEF Spec, ImplementsCatalog, Catalog!Spec
=============================================================================
