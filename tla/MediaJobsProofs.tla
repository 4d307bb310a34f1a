--------------------------- MODULE MediaJobsProofs ---------------------------
(***************************************************************************)
(* Proofs about MediaJobs for any number of jobs and direct requests and   *)
(* any number of crashes and store failures.                               *)
(***************************************************************************)
EXTENDS MediaJobs, TLAPS

(* A result is complete only after its execution got that far, a failed    *)
(* execution leaves one only when it had got there, a job counts as        *)
(* cancelled in time for as long as its record says cancelled, and a       *)
(* worker that has looked and gone on has not seen such a job.             *)
Unwritten == {"none", "spawned", "loaded", "start", "backend", "fallback", "metadata", "write"}
JobInv(j) ==
  /\ status[j] = "none" => pc[j] = "none"
  /\ pc[j] \in Unwritten => output[j] # "full"
  /\ pc[j] = "err" /\ j \notin spared => output[j] # "full"
  /\ j \in inTime => status[j] = "cancelled"
  /\ pc[j] \in {"encode", "complete", "fail"} /\ j \notin stuck => j \notin inTime
  /\ j \in inTime /\ j \notin spared /\ j \notin stuck /\ pc[j] = "ended" => output[j] # "full"
JobsInv == \A j \in Jobs : JobInv(j)
IInv == TypeOK /\ JobsInv

(* The types hold initially: every job is unknown, every directory absent. *)
LEMMA InitInv == Init => IInv
  BY MediaJobsAssumption
  DEF Init, IInv, TypeOK, JobsInv, JobInv, Runs, Unwritten, Open, Terminal, Looked

(* The invariant gives the property the runs check.                        *)
LEMMA InvGives == IInv => CancelledResultsDiscarded
  BY DEF IInv, TypeOK, JobsInv, JobInv, CancelledResultsDiscarded

(* The steps of a worker on its job record.                                *)
LEMMA RecordSteps ==
  ASSUME IInv, NEW j \in Jobs,
         Submit(j) \/ Load(j) \/ Run(j) \/ Checked(j) \/ Encode(j) \/ Complete(j)
         \/ FailJob(j) \/ StoreFails(j) \/ Cancel(j)
  PROVE  IInv'
<1> USE DEF IInv, TypeOK, JobsInv, JobInv, Runs, Unwritten, Open, Terminal, Looked,
            Goto, Unstored, store, Transition, After
<1>1. CASE Submit(j) BY <1>1 DEF Submit
<1>2. CASE Load(j) BY <1>2 DEF Load, Advance
<1>3. CASE Run(j) BY <1>3 DEF Run, Advance
<1>4. CASE Checked(j)
  <2>1. \A k \in Runs : output'[k] = output[k] \/ (k = j /\ output'[k] \in {"none", "bare"})
    BY <1>4 DEF Checked, Discarding
  <2>2. output' \in [Runs -> {"none", "open", "full", "bare"}] BY <1>4 DEF Checked, Discarding
  <2>3. /\ pc[j] \in {"ok", "err"} /\ pc' = [pc EXCEPT ![j] = pc'[j]]
        /\ IF status[j] = "cancelled"
           THEN /\ pc'[j] = "ended"
                /\ pc[j] = "err" => output' = output
                /\ spared' = IF output'[j] = "full" THEN spared \cup {j} ELSE spared
           ELSE pc'[j] \in {"encode", "fail"} /\ UNCHANGED <<output, spared>>
        /\ UNCHANGED <<victims, inTime, up, status, crashes, faults, stuck>>
    BY <1>4 DEF Checked
  <2>4. TypeOK' BY <2>2, <2>3
  <2>5. ASSUME NEW k \in Jobs PROVE JobInv(k)'
    <3>1. CASE k = j BY <2>1, <2>3, <3>1
    <3>2. CASE k # j BY <2>1, <2>3, <3>2
    <3> QED BY <3>1, <3>2
  <2> QED BY <2>4, <2>5
<1>5. CASE Encode(j) BY <1>5 DEF Encode, Record
<1>6. CASE Complete(j) BY <1>6 DEF Complete, Record
<1>7. CASE FailJob(j) BY <1>7 DEF FailJob, Record
<1>8. CASE StoreFails(j) BY <1>8, MediaJobsAssumption DEF StoreFails
<1>9. CASE Cancel(j) BY <1>9 DEF Cancel
<1> QED BY <1>1, <1>2, <1>3, <1>4, <1>5, <1>6, <1>7, <1>8, <1>9

(* A sweep completes no result, whatever it removes and wherever it fails. *)
SweepOf(left) ==
  /\ left \in [Runs -> {"none", "open", "full", "bare"}]
  /\ \A o \in Runs : left[o] = "full" => output[o] = "full"

LEMMA SweptDirectories ==
  ASSUME TypeOK, NEW gone, NEW torn
  PROVE  SweepOf(Swept(gone, torn))
  BY DEF TypeOK, SweepOf, Swept

(* The steps of an execution on the result directories.                    *)
LEMMA ExecuteSteps ==
  ASSUME IInv, NEW r \in Runs, Execute(r)
  PROVE  IInv'
<1> USE MediaJobsAssumption
    DEF IInv, TypeOK, JobsInv, JobInv, Runs, Unwritten, Open, Terminal, Looked,
        Goto, store, Stored
<1>1. CASE Plan(r)
  <2>1. PICK gone \in SUBSET Stored, torn \in SUBSET Stored :
          \/ output' = Swept(gone, torn) /\ Goto(r, "err")
          \/ output' = [Swept(gone, {}) EXCEPT ![r] = "open"] /\ Goto(r, "backend")
    BY <1>1 DEF Plan
  <2>2. \A t : SweepOf(Swept(gone, t)) BY SweptDirectories
  <2>3. output' \in [Runs -> {"none", "open", "full", "bare"}] BY <2>1, <2>2 DEF SweepOf
  <2>4. \A o \in Runs : output'[o] = "full" => output[o] = "full" BY <2>1, <2>2 DEF SweepOf
  <2>5. /\ pc[r] = "start" /\ pc' = [pc EXCEPT ![r] = pc'[r]] /\ pc'[r] \in {"err", "backend"}
        /\ UNCHANGED <<up, status, victims, crashes, faults, inTime, spared, stuck>>
    BY <1>1, <2>1 DEF Plan
  <2>6. TypeOK' BY <2>3, <2>5
  <2>7. ASSUME NEW j \in Jobs PROVE JobInv(j)'
    <3>1. CASE j = r BY <2>4, <2>5, <3>1
    <3>2. CASE j # r BY <2>4, <2>5, <3>2
    <3> QED BY <3>1, <3>2
  <2> QED BY <2>6, <2>7
<1>2. CASE BackendSucceeds(r) BY <1>2 DEF BackendSucceeds
<1>3. CASE BackendFails(r) BY <1>3 DEF BackendFails, Discarding
<1>4. CASE Collect(r) BY <1>4 DEF Collect, Discarding
<1>5. CASE WriteMetadata(r) BY <1>5 DEF WriteMetadata, Discarding
<1>6. CASE SweepAfter(r)
  <2>1. PICK gone \in SUBSET victims[r], torn \in SUBSET victims[r] :
          /\ output' \in {Swept(gone, torn),
                          [Swept(gone, torn) EXCEPT ![r] = IF @ = "none" THEN "bare" ELSE @]}
          /\ \/ gone = victims[r] /\ Goto(r, "ok") /\ UNCHANGED spared
             \/ Goto(r, "err") /\ spared' = spared \cup ({r} \cap Jobs)
    BY <1>6 DEF SweepAfter
  <2>2. SweepOf(Swept(gone, torn)) BY SweptDirectories
  <2>3. output' \in [Runs -> {"none", "open", "full", "bare"}] BY <2>1, <2>2 DEF SweepOf
  <2>4. \A o \in Runs : output'[o] = "full" => output[o] = "full" BY <2>1, <2>2 DEF SweepOf
  <2>5. /\ pc[r] = "sweep" /\ pc' = [pc EXCEPT ![r] = pc'[r]] /\ pc'[r] \in {"ok", "err"}
        /\ pc'[r] = "ok" => UNCHANGED spared
        /\ pc'[r] = "err" => spared' = spared \cup ({r} \cap Jobs)
        /\ victims' = [victims EXCEPT ![r] = {}]
        /\ UNCHANGED <<up, status, crashes, faults, inTime, stuck>>
    BY <1>6, <2>1 DEF SweepAfter
  <2>6. TypeOK' BY <2>3, <2>5
  <2>7. ASSUME NEW j \in Jobs PROVE JobInv(j)'
    <3>1. CASE j = r BY <2>4, <2>5, <3>1
    <3>2. CASE j # r BY <2>4, <2>5, <3>2
    <3> QED BY <3>1, <3>2
  <2> QED BY <2>6, <2>7
<1> QED BY <1>1, <1>2, <1>3, <1>4, <1>5, <1>6 DEF Execute

(* The steps of direct requests and of the server.                         *)
LEMMA ServerSteps ==
  ASSUME IInv, Crash \/ Restart \/ \E d \in Direct : StartDirect(d) \/ Answer(d)
  PROVE  IInv'
<1> USE MediaJobsAssumption
    DEF IInv, TypeOK, JobsInv, JobInv, Runs, Unwritten, Open, Terminal, Looked, Goto, store
<1>1. CASE Crash
  <2>1. /\ up' = FALSE /\ crashes' = crashes + 1 /\ crashes < MaxCrashes
        /\ victims' = [r \in Runs |-> {}]
        /\ UNCHANGED <<status, output, faults, inTime, spared, stuck>>
        /\ pc' = [r \in Runs |-> IF pc[r] \in {"none", "ended"} THEN pc[r] ELSE "dead"]
    BY <1>1 DEF Crash
  <2>2. \A r \in Runs : pc'[r] = IF pc[r] \in {"none", "ended"} THEN pc[r] ELSE "dead" BY <2>1
  <2>3. crashes' \in 0..MaxCrashes BY <2>1
  <2>4. pc' \in [Runs -> {"none", "ended", "dead"}] BY <2>1
  <2>5. TypeOK' BY <2>1, <2>3, <2>4
  <2>6. ASSUME NEW j \in Jobs PROVE JobInv(j)'
    BY <2>1, <2>2
  <2> QED BY <2>5, <2>6
<1>2. CASE Restart
  <2>1. PICK done \in SUBSET Interrupted :
          /\ done = Interrupted \/ faults < MaxFaults
          /\ faults' = IF done = Interrupted THEN faults ELSE faults + 1
          /\ stuck' = stuck \cup (Interrupted \ done)
          /\ status' = [j \in Jobs |-> IF j \in done THEN "failed" ELSE status[j]]
    BY <1>2 DEF Restart
  <2>2. faults' \in 0..MaxFaults BY <2>1
  <2>3. stuck' \subseteq Jobs BY <2>1 DEF Interrupted
  <2>4. \A j \in done : status[j] \in Open BY <2>1 DEF Interrupted
  <2>5. status' \in [Jobs -> {"none"} \cup Open \cup Terminal] BY <2>1
  <2>6. \A j \in Jobs : status[j] \notin Open => status'[j] = status[j] BY <2>1, <2>4
  <2>7. \A j \in Jobs : status'[j] = "none" => status[j] = "none" BY <2>1
  <2>8. TypeOK' BY <1>2, <2>2, <2>3, <2>5 DEF Restart
  <2>9. ASSUME NEW j \in Jobs PROVE JobInv(j)'
    BY <1>2, <2>1, <2>6, <2>7 DEF Restart
  <2> QED BY <2>8, <2>9
<1>3. ASSUME NEW d \in Direct, StartDirect(d) PROVE IInv' BY <1>3 DEF StartDirect
<1>4. ASSUME NEW d \in Direct, Answer(d) PROVE IInv' BY <1>4 DEF Answer, Discarding
<1> QED BY <1>1, <1>2, <1>3, <1>4

LEMMA StepInv == IInv /\ [Next]_vars => IInv'
<1> SUFFICES ASSUME IInv, [Next]_vars PROVE IInv'
  OBVIOUS
<1>1. ASSUME NEW j \in Jobs, Submit(j) \/ Cancel(j) \/ Work(j) \/ StoreFails(j) PROVE IInv'
  BY <1>1, RecordSteps, ExecuteSteps DEF Work, Runs
<1>2. ASSUME NEW d \in Direct, StartDirect(d) \/ Serve(d) PROVE IInv'
  BY <1>2, ExecuteSteps, ServerSteps DEF Serve, Runs
<1>3. CASE Crash \/ Restart BY <1>3, ServerSteps
<1>4. CASE UNCHANGED vars
  BY <1>4 DEF vars, IInv, TypeOK, JobsInv, JobInv, Runs
<1> QED BY <1>1, <1>2, <1>3, <1>4 DEF Next

(* The invariant holds throughout.                                         *)
THEOREM Invariant == Spec => []IInv
  BY InitInv, StepInv, PTL DEF Spec

(* Type correctness, for the variables the job store, the workers and the  *)
(* output store keep.                                                      *)
THEOREM TypeCorrect == Spec => []TypeOK
<1>1. IInv => TypeOK BY DEF IInv
<1> QED BY <1>1, Invariant, PTL

(* The complete result of a job cancelled before its worker looked is gone *)
(* once the worker is done (JobManager::submit), for any number of jobs,   *)
(* unless an error left it: of the removal, of what the execution does     *)
(* after its result is complete, or of reading the record.                 *)
THEOREM CancelledDiscarded == Spec => []CancelledResultsDiscarded
  BY Invariant, InvGives, PTL

(* A transition leaves every terminal record as it is.                     *)
LEMMA TransitionKeeps ==
  ASSUME TypeOK, NEW j \in Jobs, NEW to, Transition(j, to)
  PROVE  \A k \in Jobs : status[k] \in Terminal => status'[k] = status[k]
<1>1. CASE to \in After(status[j])
  <2>1. status' = [status EXCEPT ![j] = to] BY <1>1 DEF Transition
  <2>2. status[j] \notin Terminal BY <1>1 DEF After, Terminal
  <2> QED BY <2>1, <2>2 DEF TypeOK
<1>2. CASE to \notin After(status[j]) BY <1>2 DEF Transition
<1> QED BY <1>1, <1>2

(* No step changes a terminal record (JobStore::transition, cancel and     *)
(* recover_interrupted).                                                   *)
THEOREM TerminalForGood == Spec => TerminalStays
<1> DEFINE Kept == \A j \in Jobs : status[j] \in Terminal => status'[j] = status[j]
<1>1. ASSUME IInv, Next PROVE Kept
  <2>1. ASSUME NEW j \in Jobs, Submit(j) PROVE Kept BY <2>1 DEF Submit, IInv, TypeOK, Terminal, Open, store, Unstored
  <2>2. ASSUME NEW j \in Jobs, Cancel(j) PROVE Kept BY <1>1, <2>2, TransitionKeeps DEF Cancel, IInv
  <2>3. ASSUME NEW j \in Jobs, Load(j) \/ Run(j) PROVE Kept
    BY <1>1, <2>3, TransitionKeeps DEF Load, Run, Advance, IInv
  <2>4. ASSUME NEW j \in Jobs, Checked(j) \/ StoreFails(j) PROVE Kept
    BY <2>4 DEF Checked, StoreFails, IInv, TypeOK, Terminal, Open, store, Unstored
  <2>5. ASSUME NEW j \in Jobs, Encode(j) \/ Complete(j) \/ FailJob(j) PROVE Kept
    BY <1>1, <2>5, TransitionKeeps DEF Encode, Complete, FailJob, Record, IInv
  <2>6. ASSUME NEW r \in Runs, Execute(r) PROVE Kept
    BY <2>6 DEF Execute, Plan, BackendSucceeds, BackendFails, Collect, WriteMetadata, SweepAfter, store
  <2>7. ASSUME NEW d \in Direct, StartDirect(d) \/ Answer(d) PROVE Kept
    BY <2>7 DEF StartDirect, Answer, store
  <2>8. CASE Crash BY <2>8 DEF Crash
  <2>9. CASE Restart BY <2>9 DEF Restart, Interrupted, IInv, TypeOK, Terminal, Open, store, Unstored
  <2>10. Jobs \subseteq Runs /\ Direct \subseteq Runs BY DEF Runs
  <2> HIDE DEF Kept
  <2> QED BY <1>1, <2>1, <2>2, <2>3, <2>4, <2>5, <2>6, <2>7, <2>8, <2>9, <2>10
          DEF Next, Work, Serve
<1>2. IInv /\ [Next]_vars => [Kept]_vars BY <1>1
<1> QED BY <1>2, Invariant, PTL DEF Spec, TerminalStays
=============================================================================
