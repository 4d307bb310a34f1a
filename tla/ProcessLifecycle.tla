-------------------------- MODULE ProcessLifecycle --------------------------
(***************************************************************************)
(* Ownership of worker processes, src/backend/llama_process_lifecycle.rs,  *)
(* with the owner that uses all of it: a llama-server runtime              *)
(* (llama_server.rs) and its model-file cache guard (model_file_cache.rs). *)
(*                                                                         *)
(* One thread starts a runtime and drops it when its last user is gone; a  *)
(* request may ask in between whether it is running; the worker may exit   *)
(* on its own; and at any moment a signal starts shutdown_children() in a  *)
(* task of its own, after which the whole process exits.                   *)
(***************************************************************************)
EXTENDS Naturals, FiniteSets

CONSTANTS
  Runtimes, \* the runtimes started; each stands for its owner thread too
  Gpus      \* the GPUs the deployment of a runtime asks for, if it is started for one

VARIABLES
  stage,      \* "running", then shutdown_children: "killing", "waiting", "cleaning", "exited"
  toKill, toWait, toClean, \* what shutdown_children took from the registry, yet to be done
  pc,         \* where the owner of a runtime is
  probe,      \* where a request in is_running() is
  leader,     \* the spawned process: "none", "alive", "killed" (sent SIGKILL and still
              \* there), "exited" or "reaped"
  ranks,      \* runtimes whose process group has descendants nobody has signalled
  dying,      \* runtimes with descendants that were sent SIGKILL and are still there
  recycled,   \* runtimes whose group id now names a group of somebody else
  lock,       \* who holds the mutex of the child across steps
  terminated, \* ManagedChild.1
  reserved,   \* runtimes that hold a reservation of GPUs; only deployments have one
  released,   \* runtimes whose reservation was given back
  token,      \* the cleanup: "none", "armed", run by "owner" or "shutdown", "done"
  cancelled,  \* CacheReleaseGuard::cancelled
  preparing,  \* runtimes whose preparation gate is held
  keep,       \* preparations that found themselves not cancelled
  retained    \* runtimes with retained preparations (populated mappings)

shutdownVars == <<stage, toKill, toWait, toClean>>
childVars    == <<leader, ranks, dying, recycled, lock, terminated>>
guardVars    == <<token, cancelled, preparing, keep, retained>>
reservationVars == <<reserved, released>>
vars == <<shutdownVars, pc, probe, childVars, reservationVars, guardVars>>

\* While its owner is here the Weak of a child can be upgraded.
Owned == {r \in Runtimes : pc[r] \in {"serving", "reaping", "ending", "killing"}}
stopping == stage # "running"
Up == stage # "exited"

Init ==
  /\ stage = "running"
  /\ toKill = {} /\ toWait = {} /\ toClean = {}
  /\ pc = [r \in Runtimes |-> "idle"]
  /\ probe = [r \in Runtimes |-> "none"]
  /\ leader = [r \in Runtimes |-> "none"]
  /\ ranks = {}
  /\ dying = {}
  /\ recycled = {}
  /\ lock = [r \in Runtimes |-> "free"]
  /\ terminated = {}
  /\ reserved = {}
  /\ released = {}
  /\ token = [r \in Runtimes |-> "none"]
  /\ cancelled = {}
  /\ preparing = {}
  /\ keep = {}
  /\ retained = {}

Goto(r, where) == pc' = [pc EXCEPT ![r] = where]

-----------------------------------------------------------------------------
(* The processes *)

\* kill(2) only sends the signal: the processes end later, in steps of their own.
KillLeader(r) == leader' = [leader EXCEPT ![r] = IF @ = "alive" THEN "killed" ELSE @]

\* SIGKILL to the group id of r, whatever that names now, and to the leader.
KillGroup(r) ==
  /\ KillLeader(r)
  /\ ranks' = ranks \ {r}
  /\ dying' = dying \cup ({r} \cap ranks)
  /\ recycled' = recycled \ {r}

\* wait() returns once the leader has exited, and reaps it.  It does not wait for
\* the leader's descendants.
Reap(r) ==
  /\ leader[r] \in {"exited", "reaped"}
  /\ leader' = [leader EXCEPT ![r] = "reaped"]

LeaderExits(r) ==
  /\ Up /\ leader[r] = "alive"
  /\ leader' = [leader EXCEPT ![r] = "exited"]
  /\ UNCHANGED <<shutdownVars, pc, probe, ranks, dying, recycled, lock, terminated,
                 reservationVars, guardVars>>

RanksExit(r) ==
  /\ Up /\ r \in ranks
  /\ ranks' = ranks \ {r}
  /\ UNCHANGED <<shutdownVars, pc, probe, leader, dying, recycled, lock, terminated,
                 reservationVars, guardVars>>

\* The system ends what was sent SIGKILL, with or without Werk.
LeaderDies(r) ==
  /\ leader[r] = "killed"
  /\ leader' = [leader EXCEPT ![r] = "exited"]
  /\ UNCHANGED <<shutdownVars, pc, probe, ranks, dying, recycled, lock, terminated,
                 reservationVars, guardVars>>

RanksDie(r) ==
  /\ r \in dying
  /\ dying' = dying \ {r}
  /\ UNCHANGED <<shutdownVars, pc, probe, leader, ranks, recycled, lock, terminated,
                 reservationVars, guardVars>>

\* Nothing holds the id of a reaped leader without descendants any longer.  What it
\* names matters where the next thing done to it may be a signal.
Recycle(r) ==
  /\ Up /\ leader[r] = "reaped" /\ r \notin ranks \cup dying \cup recycled
  /\ r \in toKill \/ (pc[r] \in {"serving", "ending"} /\ r \notin terminated)
  /\ recycled' = recycled \cup {r}
  /\ UNCHANGED <<shutdownVars, pc, probe, leader, ranks, dying, lock, terminated,
                 reservationVars, guardVars>>

-----------------------------------------------------------------------------
(* Starting a runtime *)

\* Reservations::acquire, for a deployment: no GPU it asks for may be reserved, nor
\* may the deployment have a worker (that one has its GPUs).  The inventory can
\* also say that the memory does not fit, whatever is reserved.
Admit(r) ==
  /\ Up /\ pc[r] = "idle"
  /\ \/ Goto(r, "admitted") /\ UNCHANGED reserved \* not started for a deployment
     \/ /\ \A q \in reserved : Gpus[q] \cap Gpus[r] = {}
        /\ Goto(r, "admitted")
        /\ reserved' = reserved \cup {r}
     \/ Goto(r, "gone") /\ UNCHANGED reserved      \* refused
  /\ UNCHANGED <<shutdownVars, probe, childVars, released, guardVars>>

\* CacheReleaseGuard::prepare.  There is no guard, and no preparation, when the
\* model files cannot be leased or Werk is stopping.
RegisterCleanup(r) ==
  /\ Up /\ pc[r] = "admitted"
  /\ \/ Goto(r, "spawn") /\ UNCHANGED token
     \/ ~stopping /\ Goto(r, "prepare") /\ token' = [token EXCEPT ![r] = "armed"]
  /\ UNCHANGED <<shutdownVars, probe, childVars, reservationVars, cancelled, preparing, keep, retained>>

\* with_retained_preparation takes the gate and reads cancelled ...
BeginPreparation(r) ==
  /\ Up /\ pc[r] = "prepare"
  /\ Goto(r, "preparing")
  /\ preparing' = preparing \cup {r}
  /\ UNCHANGED <<shutdownVars, probe, childVars, reservationVars, token, cancelled, keep, retained>>

\* ... the preparation maps and populates the model files, or is cancelled, and
\* cancelled is read again (it is never reset) ...
EndPreparation(r) ==
  /\ Up /\ pc[r] = "preparing"
  /\ Goto(r, "retaining")
  /\ keep' \in {keep} \cup (IF r \in cancelled THEN {} ELSE {keep \cup {r}})
  /\ UNCHANGED <<shutdownVars, probe, childVars, reservationVars, token, cancelled, preparing, retained>>

\* ... before the mapping is retained and the gate released.
RetainPreparation(r) ==
  /\ Up /\ pc[r] = "retaining"
  /\ Goto(r, "spawn")
  /\ retained' = IF r \in keep THEN retained \cup {r} ELSE retained
  /\ preparing' = preparing \ {r}
  /\ UNCHANGED <<shutdownVars, probe, childVars, reservationVars, token, cancelled, keep>>

\* ManagedChild::spawn, under the registry lock.
SpawnUnregistered(r) == \* mutant: spawned before the stopping flag is looked at
  /\ Up /\ pc[r] = "spawn"
  /\ Goto(r, "serving")
  /\ leader' = [leader EXCEPT ![r] = "alive"]
  /\ ranks' \in {ranks, ranks \cup {r}}
  /\ UNCHANGED <<shutdownVars, probe, dying, recycled, lock, terminated, reservationVars, guardVars>>

Spawn(r) ==
  /\ Up /\ pc[r] = "spawn"
  /\ ~stopping
  /\ Goto(r, "serving")
  /\ leader' = [leader EXCEPT ![r] = "alive"]
  /\ ranks' \in {ranks, ranks \cup {r}}
  /\ UNCHANGED <<shutdownVars, probe, dying, recycled, lock, terminated, reservationVars, guardVars>>

\* Werk is stopping, or the command could not be started; without a worker the
\* order in which the reservation and the guard are dropped does not matter.
SpawnFails(r) ==
  /\ Up /\ pc[r] = "spawn"
  /\ Goto(r, "releasing")
  /\ UNCHANGED <<shutdownVars, probe, childVars, reservationVars, guardVars>>

-----------------------------------------------------------------------------
(* LlamaServerProcess::is_running *)

ProbeFindsExit(r) ==
  /\ Up /\ pc[r] = "serving" /\ probe[r] = "none"
  /\ lock[r] = "free"
  /\ leader[r] = "exited" \/ r \in reserved
  /\ Reap(r)
  /\ probe' = [probe EXCEPT ![r] = IF r \in reserved THEN "found" ELSE @]
  /\ UNCHANGED <<shutdownVars, pc, ranks, dying, recycled, lock, terminated, reservationVars, guardVars>>

\* Mutant: the probe gives the GPUs back without a look at the rest of the group.
ProbeLeavesGroup(r) ==
  /\ Up /\ probe[r] = "found" /\ lock[r] = "free"
  /\ probe' = [probe EXCEPT ![r] = "over"]
  /\ UNCHANGED <<shutdownVars, pc, childVars, reservationVars, guardVars>>

\* terminate(): the lock is held from the kill to the end of the wait.
ProbeTerminates(r) ==
  /\ Up /\ probe[r] = "found" /\ lock[r] = "free"
  /\ IF r \in terminated
       THEN /\ probe' = [probe EXCEPT ![r] = "over"]
            /\ UNCHANGED childVars
       ELSE /\ probe' = [probe EXCEPT ![r] = "killing"]
            /\ lock' = [lock EXCEPT ![r] = "probe"]
            /\ terminated' = terminated \cup {r}
            /\ KillGroup(r)
  /\ UNCHANGED <<shutdownVars, pc, reservationVars, guardVars>>

ProbeKeepsLock(r) == \* mutant: the child stays locked
  /\ Up /\ probe[r] = "killing"
  /\ Reap(r)
  /\ probe' = [probe EXCEPT ![r] = "over"]
  /\ UNCHANGED <<shutdownVars, pc, ranks, dying, recycled, lock, terminated, reservationVars, guardVars>>

ProbeReaps(r) ==
  /\ Up /\ probe[r] = "killing"
  /\ Reap(r)
  /\ lock' = [lock EXCEPT ![r] = "free"]
  /\ probe' = [probe EXCEPT ![r] = "over"]
  /\ UNCHANGED <<shutdownVars, pc, ranks, dying, recycled, terminated, reservationVars, guardVars>>

Release(r) ==
  /\ reserved' = reserved \ {r}
  /\ released' = released \cup ({r} \cap reserved)

\* Only now are the GPUs of the worker given back.
ProbeReleases(r) ==
  /\ Up /\ probe[r] = "over"
  /\ Release(r)
  /\ probe' = [probe EXCEPT ![r] = "none"]
  /\ UNCHANGED <<shutdownVars, pc, childVars, guardVars>>

-----------------------------------------------------------------------------
(* Dropping a runtime: LlamaServerProcess, then its fields in order *)

\* The last reference is gone: kill the leader and keep its mutex for the wait.
DropRuntime(r) ==
  /\ Up /\ pc[r] = "serving" /\ probe[r] = "none"
  /\ lock[r] = "free"
  /\ Goto(r, "reaping")
  /\ lock' = [lock EXCEPT ![r] = "owner"]
  /\ KillLeader(r)
  /\ UNCHANGED <<shutdownVars, probe, ranks, dying, recycled, terminated, reservationVars, guardVars>>

DropReaps(r) ==
  /\ Up /\ pc[r] = "reaping"
  /\ Reap(r)
  /\ lock' = [lock EXCEPT ![r] = "free"]
  /\ Goto(r, "ending")
  /\ UNCHANGED <<shutdownVars, probe, ranks, dying, recycled, terminated, reservationVars, guardVars>>

\* ManagedChild::drop calls terminate() for the group.
DropChild(r) ==
  /\ Up /\ pc[r] = "ending" /\ lock[r] = "free"
  /\ IF r \in terminated
       THEN Goto(r, "releasing") /\ UNCHANGED childVars
       ELSE /\ Goto(r, "killing")
            /\ lock' = [lock EXCEPT ![r] = "owner"]
            /\ terminated' = terminated \cup {r}
            /\ KillGroup(r)
  /\ UNCHANGED <<shutdownVars, probe, reservationVars, guardVars>>

DropChildReaps(r) ==
  /\ Up /\ pc[r] = "killing"
  /\ Reap(r)
  /\ lock' = [lock EXCEPT ![r] = "free"]
  /\ Goto(r, "releasing")
  /\ UNCHANGED <<shutdownVars, probe, ranks, dying, recycled, terminated, reservationVars, guardVars>>

DropReservation(r) ==
  /\ Up /\ pc[r] = "releasing"
  /\ Goto(r, "cleaning")
  /\ Release(r)
  /\ UNCHANGED <<shutdownVars, probe, childVars, guardVars>>

-----------------------------------------------------------------------------
(* run_cleanup: its mutex is held through the callback, which cancels, waits *)
(* for a preparation in progress and drops what preparations retained.       *)

Begin(r, who) ==
  /\ token[r] = "armed"
  /\ token' = [token EXCEPT ![r] = who]
  /\ cancelled' = cancelled \cup {r}
  /\ UNCHANGED <<preparing, keep, retained>>

EndUngated(r, who) == \* mutant: the callback does not wait for the preparation
  /\ token[r] = who
  /\ token' = [token EXCEPT ![r] = "done"]
  /\ retained' = retained \ {r}
  /\ UNCHANGED <<cancelled, preparing, keep>>

End(r, who) ==
  /\ token[r] = who
  /\ r \notin preparing
  /\ token' = [token EXCEPT ![r] = "done"]
  /\ retained' = retained \ {r}
  /\ UNCHANGED <<cancelled, preparing, keep>>

OwnerCleans(r) ==
  /\ Up /\ pc[r] = "cleaning"
  /\ Begin(r, "owner") \/ End(r, "owner")
  /\ UNCHANGED <<shutdownVars, pc, probe, childVars, reservationVars>>

OwnerDone(r) ==
  /\ Up /\ pc[r] = "cleaning"
  /\ token[r] \in {"none", "done"}
  /\ Goto(r, "gone")
  /\ UNCHANGED <<shutdownVars, probe, childVars, reservationVars, guardVars>>

-----------------------------------------------------------------------------
(* shutdown_children *)

Signal ==
  /\ stage = "running"
  /\ stage' = "killing"
  /\ toKill' = Owned
  /\ toWait' = Owned
  /\ toClean' = {r \in Runtimes : token[r] # "none" /\ pc[r] # "gone"}
  /\ UNCHANGED <<pc, probe, childVars, reservationVars, guardVars>>

ShutdownKills(r) ==
  /\ stage = "killing" /\ r \in toKill /\ lock[r] = "free"
  /\ toKill' = toKill \ {r}
  /\ KillGroup(r)
  /\ UNCHANGED <<stage, toWait, toClean, pc, probe, lock, terminated, reservationVars, guardVars>>

ShutdownWaits(r) ==
  /\ stage = "waiting" /\ r \in toWait /\ lock[r] = "free"
  /\ Reap(r)
  /\ toWait' = toWait \ {r}
  /\ UNCHANGED <<stage, toKill, toClean, pc, probe, ranks, dying, recycled, lock, terminated,
                 reservationVars, guardVars>>

\* A cleanup that its owner runs is waited for.
ShutdownCleans(r) ==
  /\ stage = "cleaning" /\ r \in toClean
  /\ \/ (Begin(r, "shutdown") \/ End(r, "shutdown")) /\ UNCHANGED toClean
     \/ /\ token[r] = "done"
        /\ toClean' = toClean \ {r}
        /\ UNCHANGED guardVars
  /\ UNCHANGED <<stage, toKill, toWait, pc, probe, childVars, reservationVars>>

ShutdownSkipsWaits == \* mutant: cleanups run as soon as every group was signalled
  /\ \/ stage = "killing"  /\ toKill = {}  /\ stage' = "cleaning"
     \/ stage = "cleaning" /\ toClean = {} /\ stage' = "exited"
  /\ UNCHANGED <<toKill, toWait, toClean, pc, probe, childVars, reservationVars, guardVars>>

\* Mutant: the process exits when the threads that load models have returned.
ShutdownJoinsLoaders ==
  /\ \/ stage = "killing"  /\ toKill = {}  /\ stage' = "waiting"
     \/ stage = "waiting"  /\ toWait = {}  /\ stage' = "cleaning"
     \/ stage = "cleaning" /\ toClean = {} /\ (\A r \in Runtimes : pc[r] # "spawn")
        /\ stage' = "exited"
  /\ UNCHANGED <<toKill, toWait, toClean, pc, probe, childVars, reservationVars, guardVars>>

ShutdownAdvances ==
  /\ \/ stage = "killing"  /\ toKill = {}  /\ stage' = "waiting"
     \/ stage = "waiting"  /\ toWait = {}  /\ stage' = "cleaning"
     \/ stage = "cleaning" /\ toClean = {} /\ stage' = "exited"
  /\ UNCHANGED <<toKill, toWait, toClean, pc, probe, childVars, reservationVars, guardVars>>

Exited == stage = "exited" /\ UNCHANGED vars

-----------------------------------------------------------------------------

\* What a thread does on its own once it has started it: it holds no resource
\* that only a user could release.
OwnerStep(r) ==
  \/ BeginPreparation(r) \/ EndPreparation(r) \/ RetainPreparation(r)
  \/ ProbeTerminates(r) \/ ProbeReaps(r) \/ ProbeReleases(r)
  \/ DropReaps(r) \/ DropChild(r) \/ DropChildReaps(r) \/ DropReservation(r)
  \/ OwnerCleans(r) \/ OwnerDone(r)

ShutdownStep ==
  \/ ShutdownAdvances
  \/ \E r \in Runtimes : ShutdownKills(r) \/ ShutdownWaits(r) \/ ShutdownCleans(r)

Next ==
  \/ \E r \in Runtimes :
       \/ OwnerStep(r)
       \/ Admit(r) \/ RegisterCleanup(r) \/ Spawn(r) \/ SpawnFails(r)
       \/ ProbeFindsExit(r) \/ DropRuntime(r)
       \/ LeaderExits(r) \/ RanksExit(r) \/ LeaderDies(r) \/ RanksDie(r) \/ Recycle(r)
  \/ Signal
  \/ ShutdownStep
  \/ Exited

Spec == Init /\ [][Next]_vars

\* The runtime schedules threads that can run, and a preparation ends: it polls
\* cancelled, and the work it does without it is finite.  A process that was sent
\* SIGKILL ends.
FairSpec ==
  /\ Spec
  /\ \A r \in Runtimes : WF_vars(OwnerStep(r)) /\ WF_vars(LeaderDies(r))
  /\ WF_vars(ShutdownAdvances)
  /\ \A r \in Runtimes : WF_vars(ShutdownKills(r)) /\ WF_vars(ShutdownWaits(r))
                         /\ WF_vars(ShutdownCleans(r))

-----------------------------------------------------------------------------
(* Properties *)

\* Every variable stays in its set, and the mutex of a child is held across
\* steps exactly by a thread between its kill and the end of its wait.
TypeOK ==
  /\ stage \in {"running", "killing", "waiting", "cleaning", "exited"}
  /\ toKill \subseteq Runtimes /\ toWait \subseteq Runtimes /\ toClean \subseteq Runtimes
  /\ pc \in [Runtimes -> {"idle", "admitted", "prepare", "preparing", "retaining", "spawn", "serving",
                          "reaping", "ending", "killing", "releasing", "cleaning", "gone"}]
  /\ probe \in [Runtimes -> {"none", "found", "killing", "over"}]
  /\ leader \in [Runtimes -> {"none", "alive", "killed", "exited", "reaped"}]
  /\ ranks \subseteq Runtimes /\ dying \subseteq Runtimes /\ recycled \subseteq Runtimes
  /\ lock \in [Runtimes -> {"free", "owner", "probe"}]
  /\ terminated \subseteq Runtimes
  /\ reserved \subseteq Runtimes /\ released \subseteq Runtimes
  /\ token \in [Runtimes -> {"none", "armed", "owner", "shutdown", "done"}]
  /\ cancelled \subseteq Runtimes /\ preparing \subseteq Runtimes
  /\ keep \subseteq Runtimes /\ retained \subseteq Runtimes
  /\ \A r \in Runtimes : /\ lock[r] = "owner" <=> pc[r] \in {"reaping", "killing"}
                         /\ lock[r] = "probe" <=> probe[r] = "killing"

\* The leader of r is gone, zombie included, and every descendant that was left has
\* been sent SIGKILL.  It may take the system a while to end those (dying).
Stopped(r) == leader[r] \in {"none", "reaped"} /\ r \notin ranks

\* "No child can escape between spawning and becoming visible to the
\* interruption handler": when Werk exits, every worker it started is reaped and
\* every descendant in the worker's group has been sent SIGKILL.
NothingOutlivesWerk == stage = "exited" => \A r \in Runtimes : Stopped(r)

\* "Every wait has been attempted before cleanup": model files are released only
\* once the worker that maps them is reaped and its descendants were sent SIGKILL,
\* whoever runs the cleanup.
CleanupAfterWorker == \A r \in Runtimes : token[r] \in {"owner", "shutdown", "done"} => Stopped(r)

\* "Populated mappings must be gone before file-cache advice": what a racing
\* preparation retains never survives the cleanup.
NothingRetainedAfterCleanup == \A r \in Runtimes : token[r] = "done" => r \notin retained

\* "GPU ownership is exclusive": of two workers whose deployments ask for a common
\* GPU one is not started yet or is reaped, with SIGKILL sent to what it left.
OneWorkerPerGpu ==
  \A q, r \in reserved \cup released :
    q # r /\ Gpus[q] \cap Gpus[r] # {} => Stopped(q) \/ Stopped(r)

\* "The negative PID addresses only the group created in spawn": SIGKILL never
\* reaches a group that somebody else got the same id for.
OwnGroupsOnly == [][recycled \subseteq recycled']_vars

\* An interrupted Werk exits, whatever its threads are doing.
ShutdownCompletes == stopping ~> stage = "exited"
=============================================================================
