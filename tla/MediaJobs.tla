------------------------------ MODULE MediaJobs ------------------------------
(***************************************************************************)
(* Persisted media jobs of one server: the job store and its state machine *)
(* (inference_service/jobs.rs), the worker task of each job, the execution *)
(* it shares with direct requests (service.rs), and the output store whose *)
(* retention sweeps every execution runs over all results (output.rs).     *)
(* The record of a job is its status; a result is the state of its         *)
(* directory.  Which entries are old or too large for the budget is data:  *)
(* a sweep picks any.  The media backend is external.                      *)
(***************************************************************************)
EXTENDS Naturals, FiniteSets

CONSTANTS Jobs,       \* jobs that may be submitted
          Direct,     \* direct requests, which have no record
          MaxCrashes, \* bound on the crashes of the server
          MaxFaults   \* bound on the accesses to the job store that fail

ASSUME MediaJobsAssumption ==
  /\ Jobs \cap Direct = {}
  /\ MaxCrashes \in Nat /\ MaxFaults \in Nat

VARIABLES
  up,        \* the server runs
  status,    \* the persisted status of each job
  pc,        \* where the worker of a job, or a direct request, is
  output,    \* the result directory of each execution: "none", "open" while it is
             \* written, "full" with metadata.json and every file, or "bare", a
             \* directory that lacks some of what it should hold
  victims,   \* entries a sweep has listed and is about to remove
  crashes, faults,
  inTime,    \* history: jobs cancelled before their worker looked
  spared,    \* history: jobs whose complete result an error left in place
  stuck      \* history: jobs an access to the store failed for

vars == <<up, status, pc, output, victims, crashes, faults, inTime, spared, stuck>>
store == <<up, status, crashes, faults, stuck>>

Runs == Jobs \cup Direct
Terminal == {"completed", "failed", "cancelled"}
Open == {"queued", "loading", "running", "encoding"}
Stored == {r \in Runs : output[r] # "none"}

(* valid_job_transition.                                                   *)
After(from) == CASE from = "queued"   -> {"loading", "running", "failed", "cancelled"}
                 [] from = "loading"  -> {"running", "failed", "cancelled"}
                 [] from = "running"  -> {"encoding", "completed", "failed", "cancelled"}
                 [] from = "encoding" -> {"completed", "failed", "cancelled"}
                 [] OTHER -> {}

Init == /\ up = TRUE
        /\ status = [j \in Jobs |-> "none"]
        /\ pc = [r \in Runs |-> "none"]
        /\ output = [r \in Runs |-> "none"]
        /\ victims = [r \in Runs |-> {}]
        /\ crashes = 0 /\ faults = 0
        /\ inTime = {} /\ spared = {} /\ stuck = {}

(* Mutant: a terminal record is overwritten.                               *)
Overwrite(j, to) == status' = [status EXCEPT ![j] = to]

(* Mutant: a refused transition is recorded as one.                        *)
RecordRefusal(j, to) ==
  status' = [status EXCEPT ![j] = IF to \in After(status[j]) THEN to ELSE "refused"]

(* JobStore::transition under the mutation lock: refused from a terminal   *)
(* state and outside valid_job_transition.                                 *)
Transition(j, to) ==
  status' = IF to \in After(status[j]) THEN [status EXCEPT ![j] = to] ELSE status

Goto(r, p) == pc' = [pc EXCEPT ![r] = p]
Unstored == UNCHANGED <<output, victims, inTime, spared, stuck, up, crashes, faults>>

-----------------------------------------------------------------------------
(* JobManager::submit and the worker task.                                 *)
Submit(j) ==
  /\ up /\ status[j] = "none"
  /\ status' = [status EXCEPT ![j] = "queued"]
  /\ Goto(j, "spawned") /\ Unstored

(* A transition that is refused ends the task.                             *)
Advance(j, at, to, next) ==
  /\ pc[j] = at
  /\ Transition(j, to)
  /\ Goto(j, IF to \in After(status[j]) THEN next ELSE "ended")
  /\ Unstored
Load(j) == Advance(j, "spawned", "loading", "loaded")
Run(j) == Advance(j, "loaded", "running", "start")

(* Mutant: the task does not look for a cancellation after it executed.    *)
CheckedBlind(j) ==
  /\ pc[j] \in {"ok", "err"}
  /\ Goto(j, IF pc[j] = "ok" THEN "encode" ELSE "fail")
  /\ UNCHANGED output
  /\ UNCHANGED <<victims, inTime, spared>> /\ UNCHANGED store

(* The outcomes of a removal whose error is ignored: the directory goes,   *)
(* loses some files, or stays as it is (remove_output_dir, remove_result). *)
Discarding(r) ==
  {[output EXCEPT ![r] = o] : o \in IF output[r] = "none" THEN {"none"} ELSE {"none", "bare", output[r]}}

(* After execute: a cancelled job's result is removed, if that succeeds;   *)
(* looking and completing are separate accesses to the store.              *)
Checked(j) ==
  /\ pc[j] \in {"ok", "err"}
  /\ IF status[j] = "cancelled"
     THEN /\ Goto(j, "ended")
          /\ output' \in IF pc[j] = "ok" THEN Discarding(j) ELSE {output}
          /\ spared' = IF output'[j] = "full" THEN spared \cup {j} ELSE spared
     ELSE Goto(j, IF pc[j] = "ok" THEN "encode" ELSE "fail") /\ UNCHANGED <<output, spared>>
  /\ UNCHANGED <<victims, inTime>> /\ UNCHANGED store

(* The outcome of these transitions is ignored.                            *)
Record(j, at, to, next) ==
  pc[j] = at /\ Transition(j, to) /\ Goto(j, next) /\ Unstored
Encode(j) == Record(j, "encode", "encoding", "complete")
Complete(j) == Record(j, "complete", "completed", "ended")
FailJob(j) == Record(j, "fail", "failed", "ended")

(* An access of the task to its record fails: the task ends, or goes on    *)
(* without the transition, or without having seen a cancellation.          *)
StoreFails(j) ==
  /\ faults < MaxFaults /\ faults' = faults + 1
  /\ stuck' = stuck \cup {j}
  /\ \/ pc[j] \in {"spawned", "loaded", "start", "complete", "fail"} /\ Goto(j, "ended")
     \/ pc[j] = "encode" /\ Goto(j, "complete")
     \/ pc[j] = "ok" /\ Goto(j, "encode")
     \/ pc[j] = "err" /\ Goto(j, "fail")
  /\ UNCHANGED <<up, status, output, victims, crashes, inTime, spared>>

-----------------------------------------------------------------------------
(* InferenceService::execute, for jobs and direct requests.                *)
StartDirect(d) ==
  /\ up /\ pc[d] = "none" /\ Goto(d, "start")
  /\ UNCHANGED <<output, victims, inTime, spared>> /\ UNCHANGED store

(* What a sweep leaves that removes the entries in gone and fails half-way *)
(* through those in torn (remove_output_entry, remove_dir_all).            *)
Swept(gone, torn) ==
  [o \in Runs |-> IF o \in gone THEN "none"
                  ELSE IF o \in torn /\ output[o] # "none" THEN "bare" ELSE output[o]]

(* Resolving, estimating and planning can fail, and so can the first       *)
(* sweep, at any of its removals; otherwise what it found old is gone,     *)
(* whoever still writes to it, and the new directory is there.             *)
Plan(r) ==
  /\ pc[r] = "start"
  /\ \E gone \in SUBSET Stored, torn \in SUBSET Stored :
       \/ output' = Swept(gone, torn) /\ Goto(r, "err")
       \/ output' = [Swept(gone, {}) EXCEPT ![r] = "open"] /\ Goto(r, "backend")
  /\ UNCHANGED <<victims, inTime, spared>> /\ UNCHANGED store

(* The backend writes into the directory; a failed attempt is tried on     *)
(* another runtime in a new one, if the old one can be removed, and after  *)
(* the last the directory goes.  A panic leaves it, as a failed removal.   *)
BackendSucceeds(r) ==
  /\ pc[r] \in {"backend", "fallback"} /\ output[r] # "none"
  /\ Goto(r, "metadata")
  /\ UNCHANGED <<output, victims, inTime, spared>> /\ UNCHANGED store

BackendFails(r) ==
  /\ pc[r] \in {"backend", "fallback"}
  /\ \/ /\ pc[r] = "backend" /\ output[r] # "none"
        /\ Goto(r, "fallback")
        /\ output' = [output EXCEPT ![r] = "open"]
     \/ Goto(r, "err") /\ output' \in Discarding(r)
  /\ UNCHANGED <<victims, inTime, spared>> /\ UNCHANGED store

(* The files are looked at first, then metadata.json is written, which     *)
(* creates the directory anew when it is gone.  Both can fail.             *)
Collect(r) ==
  /\ pc[r] = "metadata"
  /\ \/ output[r] = "open" /\ Goto(r, "write") /\ UNCHANGED output
     \/ Goto(r, "err") /\ output' \in Discarding(r)
  /\ UNCHANGED <<victims, inTime, spared>> /\ UNCHANGED store

WriteMetadata(r) ==
  /\ pc[r] = "write"
  /\ \/ /\ Goto(r, "sweep")
        /\ output' = [output EXCEPT ![r] = IF @ = "open" THEN "full" ELSE "bare"]
        /\ \E old \in SUBSET (Stored \ {r}) : victims' = [victims EXCEPT ![r] = old]
     \/ /\ Goto(r, "err") /\ UNCHANGED victims
        /\ output' \in Discarding(r) \cup {[output EXCEPT ![r] = "bare"]}
  /\ UNCHANGED <<inTime, spared>> /\ UNCHANGED store

(* enforce_retention_preserving and, when the budget is still exceeded,    *)
(* the second writing of metadata.json, which creates a directory that is  *)
(* gone anew.  An entry that vanished since it was listed, one that is     *)
(* being written, or any error of the two makes the execution fail, and    *)
(* nothing removes its result.                                             *)
SweepAfter(r) ==
  /\ pc[r] = "sweep"
  /\ victims' = [victims EXCEPT ![r] = {}]
  /\ \E gone \in SUBSET victims[r], torn \in SUBSET victims[r] :
       /\ output' \in {Swept(gone, torn),
                       [Swept(gone, torn) EXCEPT ![r] = IF @ = "none" THEN "bare" ELSE @]}
       /\ \/ gone = victims[r] /\ Goto(r, "ok") /\ UNCHANGED spared
          \/ Goto(r, "err") /\ spared' = spared \cup ({r} \cap Jobs)
  /\ UNCHANGED inTime /\ UNCHANGED store

(* A direct request answers, and removes its result when the answer        *)
(* carries the bytes.                                                      *)
Answer(d) ==
  /\ pc[d] \in {"ok", "err"} /\ Goto(d, "ended")
  /\ output' \in {output} \cup (IF pc[d] = "ok" THEN Discarding(d) ELSE {})
  /\ UNCHANGED <<victims, inTime, spared>> /\ UNCHANGED store

-----------------------------------------------------------------------------
(* JobStore::cancel: a terminal record is returned as it is.               *)
Looked == {"encode", "complete", "fail", "ended", "dead"}
Cancel(j) ==
  /\ up /\ status[j] \in Open
  /\ Transition(j, "cancelled")
  /\ inTime' = IF pc[j] \in Looked THEN inTime ELSE inTime \cup {j}
  /\ UNCHANGED <<up, pc, output, victims, crashes, faults, spared, stuck>>

(* The process dies with every task; files stay as they are.               *)
Crash ==
  /\ up /\ crashes < MaxCrashes
  /\ up' = FALSE /\ crashes' = crashes + 1
  /\ pc' = [r \in Runs |-> IF pc[r] \in {"none", "ended"} THEN pc[r] ELSE "dead"]
  /\ victims' = [r \in Runs |-> {}]
  /\ UNCHANGED <<status, output, faults, inTime, spared, stuck>>

(* Mutant: only jobs that had begun count as interrupted.                  *)
BegunJobs == {j \in Jobs : status[j] \in Open \ {"queued"}}

(* recover_interrupted, when the server starts.  A failed write ends the   *)
(* recovery; the server starts all the same.                               *)
Interrupted == {j \in Jobs : status[j] \in Open}
Restart ==
  /\ ~up /\ up' = TRUE
  /\ \E done \in SUBSET Interrupted :
       /\ done = Interrupted \/ faults < MaxFaults
       /\ faults' = IF done = Interrupted THEN faults ELSE faults + 1
       /\ stuck' = stuck \cup (Interrupted \ done)
       /\ status' = [j \in Jobs |-> IF j \in done THEN "failed" ELSE status[j]]
  /\ UNCHANGED <<pc, output, victims, crashes, inTime, spared>>

Execute(r) == Plan(r) \/ BackendSucceeds(r) \/ BackendFails(r)
              \/ Collect(r) \/ WriteMetadata(r) \/ SweepAfter(r)
Work(j) == Load(j) \/ Run(j) \/ Execute(j) \/ Checked(j) \/ Encode(j) \/ Complete(j) \/ FailJob(j)
Serve(d) == Execute(d) \/ Answer(d)
Next == \/ \E j \in Jobs : Submit(j) \/ Cancel(j) \/ Work(j) \/ StoreFails(j)
        \/ \E d \in Direct : StartDirect(d) \/ Serve(d)
        \/ Crash \/ Restart

(* A task that can run is scheduled and every backend call returns; a      *)
(* server that died is started again.                                      *)
Fairness == (\A j \in Jobs : WF_vars(Work(j))) /\ WF_vars(Restart)
Spec == Init /\ [][Next]_vars
FairSpec == Spec /\ Fairness

-----------------------------------------------------------------------------
(* Properties.                                                             *)

(* The variables stay within the values the code can hold.                 *)
TypeOK ==
  /\ up \in BOOLEAN
  /\ status \in [Jobs -> {"none"} \cup Open \cup Terminal]
  /\ pc \in [Runs -> {"none", "spawned", "loaded", "start", "backend", "fallback",
                      "metadata", "write", "sweep", "ok", "err"} \cup Looked]
  /\ output \in [Runs -> {"none", "open", "full", "bare"}]
  /\ victims \in [Runs -> SUBSET Runs]
  /\ crashes \in 0..MaxCrashes /\ faults \in 0..MaxFaults
  /\ inTime \subseteq Jobs /\ spared \subseteq Jobs /\ stuck \subseteq Jobs

(* A terminal record stays as it is, whatever its worker, a cancellation   *)
(* or a restart still do (JobStore::transition, cancel).                   *)
TerminalStays ==
  [][\A j \in Jobs : status[j] \in Terminal => status'[j] = status[j]]_vars

(* A job cancelled before its worker looked leaves no complete result once *)
(* the worker is done (JobManager::submit), although sweeps of other       *)
(* executions race with it.  Left out are the jobs the code leaves a       *)
(* result to: the removal after the look failed, or the execution did      *)
(* after its result was complete (spared), or the record could not be read *)
(* (stuck).  A worker whose process ended has not looked ("dead").         *)
CancelledResultsDiscarded ==
  \A j \in inTime \ (spared \cup stuck) :
    status[j] = "cancelled" /\ pc[j] = "ended" => output[j] # "full"

(* Every job that was queued ends, by its worker, a cancellation or the    *)
(* recovery at the next start, unless the store failed for it.             *)
JobsEnd == \A j \in Jobs : status[j] = "queued" ~> (status[j] \in Terminal \/ j \in stuck)
=============================================================================
