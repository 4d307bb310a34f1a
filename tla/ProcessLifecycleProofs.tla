----------------------- MODULE ProcessLifecycleProofs -----------------------
(***************************************************************************)
(* No worker outlives Werk, no cleanup precedes the end of its worker, no  *)
(* mapping survives the cleanup and no GPU has two workers, for any number *)
(* of runtimes and any interleaving of their threads with shutdown.        *)
(***************************************************************************)
EXTENDS ProcessLifecycle, TLAPS

Starting == {"idle", "admitted", "prepare", "preparing", "retaining", "spawn"}
Ended == {"releasing", "cleaning", "gone"}

\* What the place of the owner and of a probe says about the processes.
OwnersOK ==
  \A r \in Runtimes :
    /\ pc[r] \in Starting => leader[r] = "none" /\ r \notin terminated \cup released
    /\ leader[r] = "none" => pc[r] \in Starting \cup Ended /\ r \notin ranks
    /\ pc[r] = "reaping" => leader[r] # "alive"
    /\ pc[r] = "ending" => leader[r] = "reaped"
    /\ pc[r] = "killing" => r \in terminated
    /\ pc[r] \in Ended => Stopped(r)
    /\ probe[r] # "none" => pc[r] = "serving"
    /\ probe[r] = "found" => leader[r] = "reaped"
    /\ probe[r] = "killing" => r \in terminated
    /\ probe[r] = "over" => r \in terminated /\ leader[r] = "reaped"
    /\ r \in terminated => r \notin ranks /\ leader[r] # "alive"
    /\ r \in released => Stopped(r)

\* GPUs are reserved by one runtime at a time.
LedgerOK == \A q, r \in reserved : q # r => Gpus[q] \cap Gpus[r] = {}

\* How far shutdown_children has come with every worker that has an owner.
ShutdownOK ==
  /\ toKill \subseteq toWait /\ (stage # "killing" => toKill = {})
  /\ \A r \in toWait : leader[r] # "none"
  /\ stage = "killing" =>
       \A r \in Owned : /\ r \in toWait
                        /\ r \notin toKill => leader[r] # "alive" /\ r \notin ranks
  /\ stage = "waiting" =>
       \A r \in Owned : /\ leader[r] # "alive" /\ r \notin ranks
                        /\ r \notin toWait => Stopped(r)
  /\ stage \in {"cleaning", "exited"} => \A r \in Runtimes : Stopped(r)

\* Who runs a cleanup, and what a preparation may still retain.
CleanupsOK ==
  \A r \in Runtimes :
    /\ token[r] = "owner" => pc[r] = "cleaning"
    /\ token[r] = "shutdown" => stage \in {"cleaning", "exited"}
    /\ token[r] = "done" => pc[r] \in Ended \/ stage \in {"cleaning", "exited"}
    /\ token[r] \in {"owner", "shutdown", "done"} => r \in cancelled
    /\ r \in preparing <=> pc[r] \in {"preparing", "retaining"}
    /\ pc[r] \in {"idle", "admitted", "prepare", "preparing"} => r \notin keep
    /\ token[r] = "done" => r \notin retained /\ (pc[r] = "retaining" => r \notin keep)

IInv == TypeOK /\ OwnersOK /\ LedgerOK /\ ShutdownOK /\ CleanupsOK

-----------------------------------------------------------------------------
(* The invariant is inductive *)

\* Nothing has been started yet.
LEMMA InitInv == Init => IInv
BY DEF Init, IInv, TypeOK, OwnersOK, LedgerOK, ShutdownOK, CleanupsOK, Starting, Ended, Owned, Stopped

\* One step of the system at a time.
LEMMA StepInv == IInv /\ [Next]_vars => IInv'
<1> SUFFICES ASSUME IInv, [Next]_vars
             PROVE  IInv'
  OBVIOUS
<1> USE DEF IInv, TypeOK, OwnersOK, LedgerOK, ShutdownOK, CleanupsOK, Starting, Ended, Owned, Stopped,
            shutdownVars, childVars, guardVars, reservationVars, stopping, Up
<1>1. ASSUME NEW r \in Runtimes, LeaderExits(r)
      PROVE  IInv'
  BY <1>1 DEF LeaderExits
<1>2. ASSUME NEW r \in Runtimes, RanksExit(r)
      PROVE  IInv'
  BY <1>2 DEF RanksExit
<1>3. ASSUME NEW r \in Runtimes, Recycle(r)
      PROVE  IInv'
  BY <1>3 DEF Recycle
<1>4. ASSUME NEW r \in Runtimes, LeaderDies(r)
      PROVE  IInv'
  BY <1>4 DEF LeaderDies
<1>5. ASSUME NEW r \in Runtimes, RanksDie(r)
      PROVE  IInv'
  BY <1>5 DEF RanksDie
<1>6. ASSUME NEW r \in Runtimes, Admit(r)
      PROVE  IInv'
  BY <1>6 DEF Admit, Goto
<1>7. ASSUME NEW r \in Runtimes, RegisterCleanup(r)
      PROVE  IInv'
  <2>1. TypeOK'
    BY <1>7 DEF RegisterCleanup, Goto
  <2>2. OwnersOK'
    BY <1>7 DEF RegisterCleanup, Goto
  <2>3. LedgerOK'
    BY <1>7 DEF RegisterCleanup
  <2>4. ShutdownOK'
    BY <1>7 DEF RegisterCleanup, Goto
  <2>5. CleanupsOK'
    BY <1>7 DEF RegisterCleanup, Goto
  <2> QED
    BY <2>1, <2>2, <2>3, <2>4, <2>5
<1>8. ASSUME NEW r \in Runtimes, BeginPreparation(r)
      PROVE  IInv'
  BY <1>8 DEF BeginPreparation, Goto
<1>9. ASSUME NEW r \in Runtimes, EndPreparation(r)
      PROVE  IInv'
  BY <1>9 DEF EndPreparation, Goto
<1>10. ASSUME NEW r \in Runtimes, RetainPreparation(r)
      PROVE  IInv'
  BY <1>10 DEF RetainPreparation, Goto
<1>11. ASSUME NEW r \in Runtimes, Spawn(r)
      PROVE  IInv'
  BY <1>11 DEF Spawn, Goto
<1>12. ASSUME NEW r \in Runtimes, SpawnFails(r)
      PROVE  IInv'
  BY <1>12 DEF SpawnFails, Goto
<1>13. ASSUME NEW r \in Runtimes, ProbeFindsExit(r)
      PROVE  IInv'
  BY <1>13 DEF ProbeFindsExit, Reap
<1>14. ASSUME NEW r \in Runtimes, ProbeTerminates(r)
      PROVE  IInv'
  BY <1>14 DEF ProbeTerminates, KillGroup, KillLeader
<1>15. ASSUME NEW r \in Runtimes, ProbeReaps(r)
      PROVE  IInv'
  BY <1>15 DEF ProbeReaps, Reap
<1>16. ASSUME NEW r \in Runtimes, ProbeReleases(r)
      PROVE  IInv'
  BY <1>16 DEF ProbeReleases, Release
<1>17. ASSUME NEW r \in Runtimes, DropRuntime(r)
      PROVE  IInv'
  BY <1>17 DEF DropRuntime, Goto, KillLeader
<1>18. ASSUME NEW r \in Runtimes, DropReaps(r)
      PROVE  IInv'
  BY <1>18 DEF DropReaps, Goto, Reap
<1>19. ASSUME NEW r \in Runtimes, DropChild(r)
      PROVE  IInv'
  BY <1>19 DEF DropChild, Goto, KillGroup, KillLeader
<1>20. ASSUME NEW r \in Runtimes, DropChildReaps(r)
      PROVE  IInv'
  BY <1>20 DEF DropChildReaps, Goto, Reap
<1>21. ASSUME NEW r \in Runtimes, DropReservation(r)
      PROVE  IInv'
  BY <1>21 DEF DropReservation, Goto, Release
<1>22. ASSUME NEW r \in Runtimes, OwnerCleans(r)
      PROVE  IInv'
  BY <1>22 DEF OwnerCleans, Begin, End
<1>23. ASSUME NEW r \in Runtimes, OwnerDone(r)
      PROVE  IInv'
  BY <1>23 DEF OwnerDone, Goto
<1>24. CASE Signal
  BY <1>24 DEF Signal
<1>25. ASSUME NEW r \in Runtimes, ShutdownKills(r)
      PROVE  IInv'
  BY <1>25 DEF ShutdownKills, KillGroup, KillLeader
<1>26. ASSUME NEW r \in Runtimes, ShutdownWaits(r)
      PROVE  IInv'
  <2>1. /\ r \in Runtimes /\ leader' = [leader EXCEPT ![r] = "reaped"] /\ leader[r] \in {"exited", "reaped"}
        /\ stage = "waiting" /\ r \in toWait /\ lock[r] = "free"
        /\ toWait' = toWait \ {r}
        /\ UNCHANGED <<stage, toKill, toClean, pc, probe, ranks, dying, recycled, lock, terminated,
                       reserved, released, token, cancelled, preparing, keep, retained>>
    BY <1>26 DEF ShutdownWaits, Reap
  <2>2. TypeOK'
    BY <2>1
  <2>3. OwnersOK'
    BY <2>1
  <2>4. ShutdownOK'
    BY <2>1
  <2>5. CleanupsOK'
    BY <2>1
  <2>6. LedgerOK'
    BY <2>1
  <2> QED
    BY <2>2, <2>3, <2>4, <2>5, <2>6
<1>27. ASSUME NEW r \in Runtimes, ShutdownCleans(r)
      PROVE  IInv'
  BY <1>27 DEF ShutdownCleans, Begin, End
<1>28. CASE ShutdownAdvances
  BY <1>28 DEF ShutdownAdvances
<1>29. CASE Exited \/ UNCHANGED vars
  BY <1>29 DEF Exited, vars
<1> QED
  BY <1>1, <1>2, <1>3, <1>4, <1>5, <1>6, <1>7, <1>8, <1>9, <1>10, <1>11,
     <1>12, <1>13, <1>14, <1>15, <1>16, <1>17, <1>18, <1>19, <1>20, <1>21,
     <1>22, <1>23, <1>24, <1>25, <1>26, <1>27, <1>28, <1>29
  DEF Next, OwnerStep, ShutdownStep

\* The invariant holds in every reachable state.
LEMMA InvariantHolds == Spec => []IInv
<1>1. Init => IInv
  BY InitInv
<1>2. IInv /\ [Next]_vars => IInv'
  BY StepInv
<1> QED
  BY <1>1, <1>2, PTL DEF Spec

-----------------------------------------------------------------------------

\* Type correctness, and that a child's mutex is held across steps only by a
\* thread between its kill and the end of its wait.
THEOREM TypeCorrect == Spec => []TypeOK
<1>1. IInv => TypeOK
  BY DEF IInv
<1> QED
  BY <1>1, InvariantHolds, PTL

\* When shutdown_children has let the process exit, every worker is reaped and what
\* was left of its group has been sent SIGKILL, whatever its owners were doing when
\* the signal came.
THEOREM NoWorkerOutlivesWerk == Spec => []NothingOutlivesWerk
<1>1. IInv => NothingOutlivesWerk
  BY DEF IInv, ShutdownOK, NothingOutlivesWerk
<1> QED
  BY <1>1, InvariantHolds, PTL

\* A cleanup callback starts after the worker is reaped and what was left of its
\* group has been sent SIGKILL, on the owner's path and on the shutdown's.
THEOREM CleanupsFollowWorkers == Spec => []CleanupAfterWorker
<1>1. IInv => CleanupAfterWorker
  BY DEF IInv, OwnersOK, ShutdownOK, CleanupsOK, CleanupAfterWorker, Ended
<1> QED
  BY <1>1, InvariantHolds, PTL

\* No preparation retains a mapping that the cleanup has already swept.
THEOREM CleanupsAreFinal == Spec => []NothingRetainedAfterCleanup
<1>1. IInv => NothingRetainedAfterCleanup
  BY DEF IInv, CleanupsOK, NothingRetainedAfterCleanup
<1> QED
  BY <1>1, InvariantHolds, PTL

\* Whichever of is_running and the destructor gives the reservation back, no worker
\* runs on a GPU while another worker that asked for it runs.
THEOREM GpusAreExclusive == Spec => []OneWorkerPerGpu
<1>1. IInv => OneWorkerPerGpu
  <2>1. SUFFICES ASSUME IInv, NEW q \in reserved \cup released, NEW r \in reserved \cup released,
                        q # r, Gpus[q] \cap Gpus[r] # {}
                 PROVE  Stopped(q) \/ Stopped(r)
    BY DEF OneWorkerPerGpu
  <2>2. q \in released \/ r \in released
    BY <2>1 DEF IInv, LedgerOK
  <2> QED
    BY <2>1, <2>2 DEF IInv, TypeOK, OwnersOK
<1> QED
  BY <1>1, InvariantHolds, PTL
=============================================================================
