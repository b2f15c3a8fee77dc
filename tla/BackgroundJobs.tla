--------------------------- MODULE BackgroundJobs ---------------------------
(***************************************************************************)
(* app/main.py: the life of a hub process and of its two supervised jobs,  *)
(* recovery and integrity checkpoints, with Redis enabled.  Instances of   *)
(* the hub share the database and the lock of the integrity job, whose     *)
(* states are the ones of DistributedLock with the instances as callers.   *)
(***************************************************************************)
EXTENDS DistributedLock, TLAPS

Instances == Procs
Jobs == {"recovery", "integrity"}

VARIABLES
    proc,       \* "down", "up", "stopping" (stop event set, jobs cancelled) or "joined"
    client,     \* instances whose Redis client and database engine are usable
    task,       \* the asyncio task of each job of each instance
    status,     \* app.state.background_jobs: what /health is computed from
    result      \* outcome of the integrity iteration that is leaving its lock

jobVars == <<proc, client, task, status, result>>
jobsVars == <<lockVars, jobVars>>

Live == {"starting", "sleeping", "iterating"}
Over == {"none", "ended", "crashed"}

JobsTypeOK ==
    /\ LockTypeOK
    /\ proc \in [Instances -> {"down", "up", "stopping", "joined"}]
    /\ client \subseteq Instances
    /\ task \in [Instances -> [Jobs -> Live \cup Over \cup {"ending", "crashing"}]]
    /\ status \in [Instances -> [Jobs -> {"absent", "running", "failed", "stopped"}]]
    /\ result \in [Instances -> {"ok", "error", "cancelled"}]

JobsInit ==
    /\ LockInit
    /\ proc = [i \in Instances |-> "down"]
    /\ client = {}
    /\ task = [i \in Instances |-> [j \in Jobs |-> "none"]]
    /\ status = [i \in Instances |-> [j \in Jobs |-> "absent"]]
    /\ result = [i \in Instances |-> "ok"]

SetTask(i, j, t) == task' = [task EXCEPT ![i][j] = t]

Record(i, j, s) == status' = [status EXCEPT ![i][j] = s]
NoLockStep == UNCHANGED lockVars

\* /health: background_health_status.
HealthStatus(i) == IF \E j \in Jobs : status[i][j] = "failed" THEN "degraded" ELSE "ok"

\* Every job that can be created starts; one that cannot is recorded as failed.
StartSupervised(i, started) ==
    /\ task' = [task EXCEPT ![i] = [j \in Jobs |-> IF j \in started THEN "starting" ELSE "none"]]
    /\ status' = [status EXCEPT ![i] = [j \in Jobs |-> IF j \in started THEN "running" ELSE "failed"]]

\* lifespan up to yield: state is fresh, Redis answers its ping (otherwise the
\* process does not come up) and the jobs are started.
StartUp(i) ==
    /\ proc[i] = "down"
    /\ \E started \in SUBSET Jobs : StartSupervised(i, started)
    /\ proc' = [proc EXCEPT ![i] = "up"]
    /\ client' = client \cup {i}
    /\ UNCHANGED result /\ NoLockStep

\* The head of a loop reads its settings and imports outside any try.
Crash(i, j) ==
    /\ task[i][j] = "starting" /\ proc[i] = "up"
    /\ SetTask(i, j, "crashing")
    /\ UNCHANGED <<proc, client, status, result>> /\ NoLockStep

BeginRecovery(i) ==
    /\ task[i]["recovery"] \in {"starting", "sleeping"} /\ proc[i] = "up"
    /\ SetTask(i, "recovery", "iterating")
    /\ UNCHANGED <<proc, client, status, result>> /\ NoLockStep

\* run_recovery_once returns or raises; _record_recovery_iteration tells.
EndRecovery(i) ==
    /\ task[i]["recovery"] = "iterating" /\ proc[i] = "up"
    /\ SetTask(i, "recovery", "sleeping")
    /\ \E s \in {"running", "failed"} : Record(i, "recovery", s)
    /\ UNCHANGED <<proc, client, result>> /\ NoLockStep

BeginIntegrity(i) ==
    /\ task[i]["integrity"] \in {"starting", "sleeping"} /\ proc[i] = "up"
    /\ Enter(i)
    /\ SetTask(i, "integrity", "iterating")
    /\ UNCHANGED <<proc, client, status, result>>

TakeLock(i) ==
    /\ proc[i] = "up" /\ Acquire(i)
    /\ UNCHANGED jobVars

\* ConflictException: another instance computes, which is not a failure.
SkipLocked(i) ==
    /\ proc[i] = "up" /\ Refuse(i)
    /\ SetTask(i, "integrity", "sleeping")
    /\ Record(i, "integrity", "running")
    /\ UNCHANGED <<proc, client, result>>

AskFailed(i) ==
    /\ proc[i] = "up" /\ AskFails(i)
    /\ SetTask(i, "integrity", "sleeping")
    /\ Record(i, "integrity", "failed")
    /\ UNCHANGED <<proc, client, result>>

\* compute_and_store_integrity_checkpoints commits, or rolls back and raises.
Compute(i) ==
    /\ proc[i] = "up" /\ Leave(i)
    /\ \E r \in {"ok", "error"} : result' = [result EXCEPT ![i] = r]
    /\ UNCHANGED <<proc, client, task, status>>

\* Leaving the lock: an exception of the unlock script is dropped.
EndIntegrity(i) ==
    /\ proc[i] = "up"
    /\ Unlock(i) \/ UnlockFails(i)
    /\ SetTask(i, "integrity", "sleeping")
    /\ Record(i, "integrity", IF result[i] = "ok" THEN "running" ELSE "failed")
    /\ result' = [result EXCEPT ![i] = "ok"]
    /\ UNCHANGED <<proc, client>>

\* The done callback, scheduled when the task ended: an end without an error
\* while the process stops is "stopped", anything else a failure.
OnBackgroundTaskDone(i, j) ==
    /\ task[i][j] \in {"ending", "crashing"}
    /\ SetTask(i, j, IF task[i][j] = "ending" THEN "ended" ELSE "crashed")
    /\ Record(i, j, IF task[i][j] = "ending" /\ proc[i] # "up" THEN "stopped" ELSE "failed")
    /\ UNCHANGED <<proc, client, result>> /\ NoLockStep

\* lifespan after yield: the stop event is set and every task is cancelled,
\* in one turn of the event loop.
StopJobs(i) ==
    /\ proc[i] = "up"
    /\ proc' = [proc EXCEPT ![i] = "stopping"]
    /\ UNCHANGED <<client, task, status, result>> /\ NoLockStep

\* CancelledError reaches a task that holds no lock and wants none.
CancelIdle(i, j) ==
    /\ proc[i] = "stopping" /\ task[i][j] \in Live
    /\ j = "integrity" => lpc[i] = "out"
    /\ SetTask(i, j, "ending")
    /\ UNCHANGED <<proc, client, status, result>> /\ NoLockStep

\* It reaches a task that asks for the lock, or whose unlock is under way.
CancelAtRedis(i) ==
    /\ proc[i] = "stopping"
    /\ AskFails(i) \/ (result[i] # "cancelled" /\ (Unlock(i) \/ UnlockFails(i)))
    /\ SetTask(i, "integrity", "ending")
    /\ UNCHANGED <<proc, client, status, result>>

\* It reaches the computation, which rolls back; the unlock still runs.
CancelCompute(i) ==
    /\ proc[i] = "stopping" /\ Leave(i)
    /\ result' = [result EXCEPT ![i] = "cancelled"]
    /\ UNCHANGED <<proc, client, task, status>>

CancelUnlock(i) ==
    /\ proc[i] = "stopping" /\ result[i] = "cancelled"
    /\ Unlock(i) \/ UnlockFails(i)
    /\ SetTask(i, "integrity", "ending")
    /\ UNCHANGED <<proc, client, status, result>>

\* await gather(*tasks): its callback comes after theirs.
Join(i) ==
    /\ proc[i] = "stopping" /\ \A j \in Jobs : task[i][j] \in Over
    /\ proc' = [proc EXCEPT ![i] = "joined"]
    /\ UNCHANGED <<client, task, status, result>> /\ NoLockStep

\* runtime.shutdown(), then the Redis client and the engine are closed.
CloseResources(i) ==
    /\ proc[i] = "joined" /\ i \in client
    /\ client' = client \ {i}
    /\ UNCHANGED <<proc, task, status, result>> /\ NoLockStep

\* app.state goes with the process.
Forget(i) ==
    /\ task' = [task EXCEPT ![i] = [j \in Jobs |-> "none"]]
    /\ status' = [status EXCEPT ![i] = [j \in Jobs |-> "absent"]]
    /\ result' = [result EXCEPT ![i] = "ok"]

Exit(i) ==
    /\ proc[i] = "joined" /\ i \notin client
    /\ proc' = [proc EXCEPT ![i] = "down"]
    /\ Forget(i)
    /\ UNCHANGED client /\ NoLockStep

\* The process dies where it stands; a key it holds stays in Redis.
Kill(i) ==
    /\ proc[i] # "down"
    /\ proc' = [proc EXCEPT ![i] = "down"]
    /\ client' = client \ {i}
    /\ lpc' = [lpc EXCEPT ![i] = "out"]
    /\ Forget(i)
    /\ UNCHANGED <<key, token, drawn, lapsed>>

JobsNext ==
    \/ Expire /\ UNCHANGED jobVars
    \/ \E i \in Instances :
        \/ StartUp(i) \/ BeginRecovery(i) \/ EndRecovery(i) \/ BeginIntegrity(i)
        \/ TakeLock(i) \/ SkipLocked(i) \/ AskFailed(i) \/ Compute(i) \/ EndIntegrity(i)
        \/ StopJobs(i) \/ CancelAtRedis(i) \/ CancelCompute(i) \/ CancelUnlock(i)
        \/ Join(i) \/ CloseResources(i) \/ Exit(i) \/ Kill(i)
        \/ \E j \in Jobs : Crash(i, j) \/ OnBackgroundTaskDone(i, j) \/ CancelIdle(i, j)

\* asyncio delivers a cancellation and runs callbacks; shutdown runs to its end.
JobsFairness ==
    \A i \in Instances :
        /\ WF_jobsVars(CancelAtRedis(i)) /\ WF_jobsVars(CancelCompute(i))
        /\ WF_jobsVars(CancelUnlock(i)) /\ WF_jobsVars(Join(i))
        /\ WF_jobsVars(CloseResources(i)) /\ WF_jobsVars(Exit(i))
        /\ \A j \in Jobs : WF_jobsVars(OnBackgroundTaskDone(i, j)) /\ WF_jobsVars(CancelIdle(i, j))

JobsSpec == JobsInit /\ [][JobsNext]_jobsVars /\ JobsFairness

----------------------------------------------------------------------------
\* _on_background_task_done and start_failed: while a process serves, a job
\* that is not there any more degrades /health.
DeadJobDegradesHealth ==
    \A i \in Instances, j \in Jobs :
        proc[i] = "up" /\ task[i][j] \in Over =>
            status[i][j] = "failed" /\ HealthStatus(i) = "degraded"

\* "normal task exits and cancellations are not reported as unexpected
\* failures": a job that ran until shutdown ends as stopped.
ShutdownIsNoFailure ==
    \A i \in Instances, j \in Jobs :
        proc[i] \in {"stopping", "joined"} /\ task[i][j] = "ended" => status[i][j] = "stopped"

\* Redis and the database are usable for as long as a job may still clean up.
CleanupHasResources ==
    \A i \in Instances :
        i \notin client => lpc[i] = "out" /\ \A j \in Jobs : task[i][j] \in Over

\* A process told to stop does stop, wherever its jobs were cancelled.
ShutdownCompletes ==
    \A i \in Instances : proc[i] = "stopping" ~> proc[i] = "down"

----------------------------------------------------------------------------
(* Proofs about DistributedLock and BackgroundJobs, for any callers, any   *)
(* hub processes and any bound on the tokens drawn.                       *)

\* The tokens drawn so far are the ones in use, and no two callers have the same.
TokensAreDistinct ==
    /\ key <= drawn /\ lapsed \subseteq 1..drawn
    /\ \A p \in Procs : token[p] <= drawn
    /\ \A p \in Procs : lpc[p] # "out" => token[p] # 0
    /\ \A p, q \in Procs : p # q /\ token[p] = token[q] => token[p] = 0

\* The inductive invariant of the lock.
LockInv == LockTypeOK /\ TokensAreDistinct /\ HolderKeepsKey

LEMMA LockInitInv ==
    ASSUME LockAssumption, LockInit
    PROVE  LockInv
BY DEF LockAssumption, LockInit, LockInv, LockTypeOK, TokensAreDistinct, HolderKeepsKey

\* What a caller does at the lock keeps the invariant.
LockStep(p) ==
    \/ Enter(p) \/ Acquire(p) \/ Busy(p) \/ Poll(p) \/ Refuse(p)
    \/ AskFails(p) \/ Leave(p) \/ Unlock(p) \/ UnlockFails(p)

LEMMA LockStepInv ==
    ASSUME LockAssumption, LockInv, NEW p \in Procs, LockStep(p)
    PROVE  LockInv'
<1> USE DEF LockAssumption, LockInv, LockTypeOK, TokensAreDistinct, HolderKeepsKey, Goto
<1>1. CASE Enter(p)
  BY <1>1 DEF Enter
<1>2. CASE Acquire(p)
  BY <1>2 DEF Acquire
<1>3. CASE Busy(p) \/ Poll(p) \/ Refuse(p)
  BY <1>3 DEF Busy, Poll, Refuse
<1>4. CASE AskFails(p)
  BY <1>4 DEF AskFails
<1>5. CASE Leave(p)
  BY <1>5 DEF Leave
<1>6. CASE Unlock(p)
  BY <1>6 DEF Unlock, Delete
<1>7. CASE UnlockFails(p)
  BY <1>7 DEF UnlockFails
<1>8. QED
  BY <1>1, <1>2, <1>3, <1>4, <1>5, <1>6, <1>7 DEF LockStep

LEMMA ExpireInv ==
    ASSUME LockAssumption, LockInv, Expire
    PROVE  LockInv'
BY DEF LockAssumption, LockInv, LockTypeOK, TokensAreDistinct, HolderKeepsKey, Expire

\* Two holders whose time has not run out would own the same key.
LEMMA LockIsExclusive ==
    ASSUME LockInv
    PROVE  ExclusiveUnlessOverrun
BY DEF LockInv, LockTypeOK, TokensAreDistinct, HolderKeepsKey, ExclusiveUnlessOverrun

LEMMA LockNextInv ==
    ASSUME LockAssumption, LockInv, [LockNext]_lockVars
    PROVE  LockInv'
<1>1. CASE Expire
  BY <1>1, ExpireInv
<1>2. ASSUME NEW p \in Procs, LockStep(p)
      PROVE  LockInv'
  BY <1>2, LockStepInv
<1>3. CASE UNCHANGED lockVars
  BY <1>3 DEF lockVars, LockInv, LockTypeOK, TokensAreDistinct, HolderKeepsKey
<1>4. QED
  BY <1>1, <1>2, <1>3 DEF LockNext, LockStep

\* Of the callers of redis_distributed_lock, one whose time to live has not run
\* out still owns the key, and two are inside together only when one outlived its
\* key, over lost replies, failing unlocks and cancellations.
THEOREM HoldersKeepTheKey ==
    ASSUME LockAssumption
    PROVE  LockSpec => [](LockTypeOK /\ HolderKeepsKey /\ ExclusiveUnlessOverrun)
<1>1. LockInit => LockInv
  BY LockInitInv
<1>2. LockInv /\ [LockNext]_lockVars => LockInv'
  BY LockNextInv
<1>3. LockInv => LockTypeOK /\ HolderKeepsKey /\ ExclusiveUnlessOverrun
  BY LockIsExclusive DEF LockInv
<1>4. QED
  BY <1>1, <1>2, <1>3, PTL DEF LockSpec

----------------------------------------------------------------------------
TaskStates == Live \cup Over \cup {"ending", "crashing"}
JobStates == {"absent", "running", "failed", "stopped"}

JobsTypes ==
    /\ proc \in [Instances -> {"down", "up", "stopping", "joined"}]
    /\ client \subseteq Instances
    /\ task \in [Instances -> [Jobs -> TaskStates]]
    /\ status \in [Instances -> [Jobs -> JobStates]]
    /\ result \in [Instances -> {"ok", "error", "cancelled"}]

\* Where a process is bounds what a job of it can be doing, and what is recorded
\* of a job that is gone.
JobFits(p, t, s) ==
    /\ p = "down" => t = "none"
    /\ p = "up" => t \notin {"ending", "ended"} /\ (t \in Over => s = "failed")
    /\ p = "joined" => t \in Over
    /\ p \in {"stopping", "joined"} /\ t = "ended" => s = "stopped"

InstanceFits(i) ==
    /\ lpc[i] # "out" => task[i]["integrity"] = "iterating"
    /\ proc[i] = "down" => i \notin client
    /\ proc[i] \in {"up", "stopping"} => i \in client
    /\ \A j \in Jobs : JobFits(proc[i], task[i][j], status[i][j])

\* The inductive invariant of the jobs.
JobsOwnInv == JobsTypes /\ \A i \in Instances : InstanceFits(i)
JobsInv == LockInv /\ JobsOwnInv

LEMMA JobsInitInv ==
    ASSUME LockAssumption, JobsInit
    PROVE  JobsInv
<1>1. LockInv
  BY LockInitInv DEF JobsInit
<1>2. JobsTypes
  BY DEF JobsInit, JobsTypes, TaskStates, JobStates, Over
<1>3. ASSUME NEW i \in Instances PROVE InstanceFits(i)
  BY DEF JobsInit, LockInit, InstanceFits, JobFits, Instances, Jobs
<1>4. QED
  BY <1>1, <1>2, <1>3 DEF JobsInv, JobsOwnInv

\* A step of an instance is a step at the lock, leaves the lock alone, or kills.
LEMMA JobsStepKeepsLock ==
    ASSUME LockAssumption, LockInv, NEW i \in Instances,
           LockStep(i) \/ UNCHANGED lockVars \/ Kill(i)
    PROVE  LockInv'
<1>1. CASE LockStep(i)
  BY <1>1, LockStepInv DEF Instances
<1>2. CASE UNCHANGED lockVars
  BY <1>2 DEF lockVars, LockInv, LockTypeOK, TokensAreDistinct, HolderKeepsKey
<1>3. CASE Kill(i)
  BY <1>3 DEF Kill, LockInv, LockTypeOK, TokensAreDistinct, HolderKeepsKey, Instances
<1>4. QED
  BY <1>1, <1>2, <1>3

\* Where the lock stands after a step at the lock.
LEMMA LockStepMoves ==
    ASSUME LockTypeOK, NEW i \in Instances
    PROVE  /\ Enter(i) => lpc' = [lpc EXCEPT ![i] = "asking"]
           /\ Acquire(i) => lpc[i] = "asking" /\ lpc' = [lpc EXCEPT ![i] = "in"]
           /\ Leave(i) => lpc[i] = "in" /\ lpc' = [lpc EXCEPT ![i] = "leaving"]
           /\ Refuse(i) \/ AskFails(i) \/ Unlock(i) \/ UnlockFails(i) =>
                 lpc[i] # "out" /\ lpc' = [lpc EXCEPT ![i] = "out"]
BY DEF LockTypeOK, Enter, Acquire, Leave, Refuse, AskFails, Unlock, UnlockFails, Goto, Instances

\* What one entry of the tables of tasks and of recorded states is after a step.
LEMMA TaskIsSet ==
    ASSUME task \in [Instances -> [Jobs -> TaskStates]],
           NEW i \in Instances, NEW j \in Jobs, NEW t \in TaskStates, SetTask(i, j, t)
    PROVE  /\ task' \in [Instances -> [Jobs -> TaskStates]]
           /\ \A k \in Instances, l \in Jobs :
                 task'[k][l] = IF k = i /\ l = j THEN t ELSE task[k][l]
BY DEF SetTask

LEMMA StatusIsRecorded ==
    ASSUME status \in [Instances -> [Jobs -> JobStates]],
           NEW i \in Instances, NEW j \in Jobs, NEW s \in JobStates, Record(i, j, s)
    PROVE  /\ status' \in [Instances -> [Jobs -> JobStates]]
           /\ \A k \in Instances, l \in Jobs :
                 status'[k][l] = IF k = i /\ l = j THEN s ELSE status[k][l]
BY DEF Record

\* A step that changes one instance leaves the others as they are.
OthersStay(i) ==
    \A k \in Instances \ {i} :
        /\ lpc'[k] = lpc[k] /\ proc'[k] = proc[k] /\ (k \in client' <=> k \in client)
        /\ \A l \in Jobs : task'[k][l] = task[k][l] /\ status'[k][l] = status[k][l]

LEMMA OneInstanceMoves ==
    ASSUME JobsOwnInv, NEW i \in Instances, JobsTypes', OthersStay(i), InstanceFits(i)'
    PROVE  JobsOwnInv'
<1>1. ASSUME NEW k \in Instances \ {i} PROVE InstanceFits(k)'
  <2>1. InstanceFits(k) /\ "integrity" \in Jobs
    BY <1>1 DEF JobsOwnInv, Jobs
  <2>2. /\ lpc'[k] = lpc[k] /\ proc'[k] = proc[k] /\ (k \in client' <=> k \in client)
        /\ \A l \in Jobs : task'[k][l] = task[k][l] /\ status'[k][l] = status[k][l]
    BY <1>1 DEF OthersStay
  <2>3. QED
    BY <2>1, <2>2 DEF InstanceFits
<1>2. QED
  BY <1>1 DEF JobsOwnInv

\* Every step of the jobs keeps what is said of them.
LEMMA JobsNextInv ==
    ASSUME LockAssumption, JobsInv, [JobsNext]_jobsVars
    PROVE  JobsInv'
<1> USE DEF NoLockStep, lockVars, jobVars
<1>t. /\ LockInv /\ JobsOwnInv /\ LockTypeOK /\ JobsTypes
      /\ lpc \in [Instances -> {"out", "asking", "waiting", "in", "leaving"}]
      /\ task \in [Instances -> [Jobs -> TaskStates]]
      /\ status \in [Instances -> [Jobs -> JobStates]]
  BY DEF JobsInv, JobsOwnInv, JobsTypes, LockInv, LockTypeOK, Instances
<1>j. "recovery" \in Jobs /\ "integrity" \in Jobs
  BY DEF Jobs
<1>s. /\ {"starting", "sleeping", "iterating", "ending", "crashing", "none", "ended", "crashed"} \subseteq TaskStates
      /\ {"running", "failed", "stopped", "absent"} \subseteq JobStates
  BY DEF TaskStates, JobStates, Live, Over
<1>1. CASE Expire /\ UNCHANGED jobVars
  <2>1. LockInv'
    BY <1>t, <1>1, ExpireInv
  <2>2. JobsOwnInv'
    BY <1>t, <1>1 DEF Expire, JobsOwnInv, JobsTypes, InstanceFits
  <2>3. QED
    BY <2>1, <2>2 DEF JobsInv
<1>2. CASE UNCHANGED jobsVars
  BY <1>t, <1>2 DEF jobsVars, JobsInv, LockInv, LockTypeOK, TokensAreDistinct, HolderKeepsKey,
                    JobsOwnInv, JobsTypes, InstanceFits
<1>3. ASSUME NEW i \in Instances, StartUp(i)
      PROVE  JobsInv'
  <2>1. JobsTypes' /\ OthersStay(i)
    BY <1>t, <1>j, <1>s, <1>3 DEF StartUp, StartSupervised, JobsTypes, OthersStay
  <2>2. InstanceFits(i)'
    <3>1. InstanceFits(i)
      BY <1>t DEF JobsOwnInv
    <3>2. QED
      BY <3>1, <1>t, <1>j, <1>s, <1>3 DEF StartUp, StartSupervised, JobsTypes, InstanceFits, JobFits, Live, Over
  <2>3. QED
    BY <1>t, <1>3, <2>1, <2>2, OneInstanceMoves, JobsStepKeepsLock DEF JobsInv, StartUp
<1>4. ASSUME NEW i \in Instances, BeginRecovery(i)
      PROVE  JobsInv'
  <2>1. JobsTypes' /\ OthersStay(i)
    BY <1>t, <1>j, <1>s, <1>4, TaskIsSet DEF BeginRecovery, JobsTypes, OthersStay
  <2>2. InstanceFits(i)'
    <3>1. InstanceFits(i)
      BY <1>t DEF JobsOwnInv
    <3>2. QED
      BY <3>1, <1>t, <1>j, <1>s, <1>4, TaskIsSet DEF BeginRecovery, JobsTypes, InstanceFits, JobFits, Live, Over
  <2>3. QED
    BY <1>t, <1>4, <2>1, <2>2, OneInstanceMoves, JobsStepKeepsLock DEF JobsInv, BeginRecovery
<1>5. ASSUME NEW i \in Instances, EndRecovery(i)
      PROVE  JobsInv'
  <2>1. JobsTypes' /\ OthersStay(i)
    BY <1>t, <1>j, <1>s, <1>5, TaskIsSet, StatusIsRecorded DEF EndRecovery, JobsTypes, OthersStay
  <2>2. InstanceFits(i)'
    <3>1. InstanceFits(i)
      BY <1>t DEF JobsOwnInv
    <3>2. \A l \in Jobs : task'[i][l] = IF l = "recovery" THEN "sleeping" ELSE task[i][l]
      BY <1>t, <1>j, <1>s, <1>5, TaskIsSet DEF EndRecovery
    <3>3. \E s \in {"running", "failed"} : \A l \in Jobs : status'[i][l] = IF l = "recovery" THEN s ELSE status[i][l]
      BY <1>t, <1>j, <1>s, <1>5, StatusIsRecorded DEF EndRecovery
    <3>4. proc' = proc /\ client' = client /\ proc[i] = "up" /\ lpc'[i] = lpc[i]
      BY <1>t, <1>5 DEF EndRecovery
    <3>5. QED
      BY <3>1, <3>2, <3>3, <3>4, <1>j DEF InstanceFits, JobFits, Over
  <2>3. QED
    BY <1>t, <1>5, <2>1, <2>2, OneInstanceMoves, JobsStepKeepsLock DEF JobsInv, EndRecovery
<1>6. ASSUME NEW i \in Instances, BeginIntegrity(i)
      PROVE  JobsInv'
  <2>1. JobsTypes' /\ OthersStay(i)
    BY <1>t, <1>j, <1>s, <1>6, TaskIsSet, LockStepMoves DEF BeginIntegrity, JobsTypes, OthersStay
  <2>2. InstanceFits(i)'
    <3>1. InstanceFits(i)
      BY <1>t DEF JobsOwnInv
    <3>2. \A l \in Jobs : task'[i][l] = IF l = "integrity" THEN "iterating" ELSE task[i][l]
      BY <1>t, <1>j, <1>s, <1>6, TaskIsSet DEF BeginIntegrity
    <3>3. status' = status
      BY <1>6 DEF BeginIntegrity
    <3>4. proc' = proc /\ client' = client /\ proc[i] = "up"
      BY <1>t, <1>6, LockStepMoves DEF BeginIntegrity
    <3>5. QED
      BY <3>1, <3>2, <3>3, <3>4, <1>j DEF InstanceFits, JobFits, Over
  <2>3. QED
    BY <1>t, <1>6, <2>1, <2>2, OneInstanceMoves, JobsStepKeepsLock DEF JobsInv, BeginIntegrity, LockStep
<1>7. ASSUME NEW i \in Instances, TakeLock(i) \/ Compute(i) \/ CancelCompute(i)
      PROVE  JobsInv'
  <2>1. JobsTypes' /\ OthersStay(i)
    BY <1>t, <1>j, <1>s, <1>7, LockStepMoves DEF TakeLock, Compute, CancelCompute, JobsTypes, OthersStay
  <2>2. InstanceFits(i)'
    <3>1. InstanceFits(i)
      BY <1>t DEF JobsOwnInv
    <3>2. QED
      BY <3>1, <1>t, <1>j, <1>s, <1>7, LockStepMoves DEF TakeLock, Compute, CancelCompute, JobsTypes, InstanceFits, JobFits, Live, Over
  <2>3. QED
    BY <1>t, <1>7, <2>1, <2>2, OneInstanceMoves, JobsStepKeepsLock DEF JobsInv, TakeLock, Compute, CancelCompute, LockStep
<1>8. ASSUME NEW i \in Instances, SkipLocked(i) \/ AskFailed(i)
      PROVE  JobsInv'
  <2>1. JobsTypes' /\ OthersStay(i)
    BY <1>t, <1>j, <1>s, <1>8, TaskIsSet, StatusIsRecorded, LockStepMoves DEF SkipLocked, AskFailed, JobsTypes, OthersStay
  <2>2. InstanceFits(i)'
    <3>1. InstanceFits(i)
      BY <1>t DEF JobsOwnInv
    <3>2. \A l \in Jobs : task'[i][l] = IF l = "integrity" THEN "sleeping" ELSE task[i][l]
      BY <1>t, <1>j, <1>s, <1>8, TaskIsSet DEF SkipLocked, AskFailed
    <3>3. \E s \in {"running", "failed"} : \A l \in Jobs : status'[i][l] = IF l = "integrity" THEN s ELSE status[i][l]
      BY <1>t, <1>j, <1>s, <1>8, StatusIsRecorded DEF SkipLocked, AskFailed
    <3>4. proc' = proc /\ client' = client /\ proc[i] = "up" /\ lpc'[i] = "out"
      BY <1>t, <1>8, LockStepMoves DEF SkipLocked, AskFailed
    <3>5. QED
      BY <3>1, <3>2, <3>3, <3>4, <1>j DEF InstanceFits, JobFits, Over
  <2>3. QED
    BY <1>t, <1>8, <2>1, <2>2, OneInstanceMoves, JobsStepKeepsLock DEF JobsInv, SkipLocked, AskFailed, LockStep
<1>9. ASSUME NEW i \in Instances, EndIntegrity(i)
      PROVE  JobsInv'
  <2>1. JobsTypes' /\ OthersStay(i)
    BY <1>t, <1>j, <1>s, <1>9, TaskIsSet, StatusIsRecorded, LockStepMoves DEF EndIntegrity, JobsTypes, OthersStay
  <2>2. InstanceFits(i)'
    <3>1. InstanceFits(i)
      BY <1>t DEF JobsOwnInv
    <3>2. QED
      BY <3>1, <1>t, <1>j, <1>s, <1>9, TaskIsSet, StatusIsRecorded, LockStepMoves DEF EndIntegrity, JobsTypes, InstanceFits, JobFits, Live, Over
  <2>3. QED
    BY <1>t, <1>9, <2>1, <2>2, OneInstanceMoves, JobsStepKeepsLock DEF JobsInv, EndIntegrity, LockStep
<1>10. ASSUME NEW i \in Instances, CancelAtRedis(i) \/ CancelUnlock(i)
      PROVE  JobsInv'
  <2>1. JobsTypes' /\ OthersStay(i)
    BY <1>t, <1>j, <1>s, <1>10, TaskIsSet, LockStepMoves DEF CancelAtRedis, CancelUnlock, JobsTypes, OthersStay
  <2>2. InstanceFits(i)'
    <3>1. InstanceFits(i)
      BY <1>t DEF JobsOwnInv
    <3>2. \A l \in Jobs : task'[i][l] = IF l = "integrity" THEN "ending" ELSE task[i][l]
      BY <1>t, <1>j, <1>s, <1>10, TaskIsSet DEF CancelAtRedis, CancelUnlock
    <3>3. status' = status
      BY <1>10 DEF CancelAtRedis, CancelUnlock
    <3>4. proc' = proc /\ client' = client /\ lpc'[i] = "out" /\ proc[i] = "stopping"
      BY <1>t, <1>10, LockStepMoves DEF CancelAtRedis, CancelUnlock
    <3>5. QED
      BY <3>1, <3>2, <3>3, <3>4, <1>j DEF InstanceFits, JobFits, Over
  <2>3. QED
    BY <1>t, <1>10, <2>1, <2>2, OneInstanceMoves, JobsStepKeepsLock DEF JobsInv, CancelAtRedis, CancelUnlock, LockStep
<1>11. ASSUME NEW i \in Instances, StopJobs(i) \/ Join(i) \/ CloseResources(i)
      PROVE  JobsInv'
  <2>1. JobsTypes' /\ OthersStay(i)
    BY <1>t, <1>j, <1>s, <1>11 DEF StopJobs, Join, CloseResources, JobsTypes, OthersStay
  <2>2. InstanceFits(i)'
    <3>1. InstanceFits(i)
      BY <1>t DEF JobsOwnInv
    <3>2. QED
      BY <3>1, <1>t, <1>j, <1>s, <1>11 DEF StopJobs, Join, CloseResources, JobsTypes, InstanceFits, JobFits, Live, Over
  <2>3. QED
    BY <1>t, <1>11, <2>1, <2>2, OneInstanceMoves, JobsStepKeepsLock DEF JobsInv, StopJobs, Join, CloseResources
<1>12. ASSUME NEW i \in Instances, Exit(i) \/ Kill(i)
      PROVE  JobsInv'
  <2>1. JobsTypes' /\ OthersStay(i)
    <3>1. /\ task' = [task EXCEPT ![i] = [j \in Jobs |-> "none"]]
          /\ status' = [status EXCEPT ![i] = [j \in Jobs |-> "absent"]]
          /\ result' = [result EXCEPT ![i] = "ok"]
          /\ proc' = [proc EXCEPT ![i] = "down"]
          /\ client' = client \ {i} \/ client' = client
          /\ lpc' = [lpc EXCEPT ![i] = "out"] \/ lpc' = lpc
      BY <1>12 DEF Exit, Kill, Forget
    <3>2. JobsTypes'
      BY <1>t, <1>s, <3>1 DEF JobsTypes
    <3>3. OthersStay(i)
      BY <1>t, <3>1 DEF JobsTypes, OthersStay
    <3>4. QED
      BY <3>2, <3>3
  <2>2. InstanceFits(i)'
    <3>1. InstanceFits(i)
      BY <1>t DEF JobsOwnInv
    <3>2. QED
      BY <3>1, <1>t, <1>j, <1>s, <1>12 DEF Exit, Kill, Forget, JobsTypes, InstanceFits, JobFits, Live, Over
  <2>3. QED
    BY <1>t, <1>12, <2>1, <2>2, OneInstanceMoves, JobsStepKeepsLock DEF JobsInv, Exit
<1>13. ASSUME NEW i \in Instances, NEW j \in Jobs, Crash(i, j)
      PROVE  JobsInv'
  <2>1. JobsTypes' /\ OthersStay(i)
    BY <1>t, <1>j, <1>s, <1>13, TaskIsSet DEF Crash, JobsTypes, OthersStay
  <2>2. InstanceFits(i)'
    <3>1. InstanceFits(i)
      BY <1>t DEF JobsOwnInv
    <3>2. \A l \in Jobs : task'[i][l] = IF l = j THEN "crashing" ELSE task[i][l]
      BY <1>t, <1>j, <1>s, <1>13, TaskIsSet DEF Crash
    <3>3. status' = status
      BY <1>13 DEF Crash
    <3>4. proc' = proc /\ client' = client /\ lpc'[i] = lpc[i] /\ proc[i] = "up" /\ task[i][j] = "starting"
      BY <1>t, <1>13 DEF Crash
    <3>5. QED
      BY <3>1, <3>2, <3>3, <3>4, <1>j DEF InstanceFits, JobFits, Over
  <2>3. QED
    BY <1>t, <1>13, <2>1, <2>2, OneInstanceMoves, JobsStepKeepsLock DEF JobsInv, Crash
<1>14. ASSUME NEW i \in Instances, NEW j \in Jobs, OnBackgroundTaskDone(i, j)
      PROVE  JobsInv'
  <2>1. JobsTypes' /\ OthersStay(i)
    BY <1>t, <1>j, <1>s, <1>14, TaskIsSet, StatusIsRecorded DEF OnBackgroundTaskDone, JobsTypes, OthersStay
  <2>2. InstanceFits(i)'
    <3>1. InstanceFits(i)
      BY <1>t DEF JobsOwnInv
    <3>2. \A l \in Jobs : task'[i][l] = IF l = j THEN IF task[i][j] = "ending" THEN "ended" ELSE "crashed" ELSE task[i][l]
      BY <1>t, <1>j, <1>s, <1>14, TaskIsSet DEF OnBackgroundTaskDone
    <3>3. \A l \in Jobs : status'[i][l] = IF l = j THEN IF task[i][j] = "ending" /\ proc[i] # "up" THEN "stopped" ELSE "failed" ELSE status[i][l]
      BY <1>t, <1>j, <1>s, <1>14, StatusIsRecorded DEF OnBackgroundTaskDone
    <3>4. proc' = proc /\ client' = client /\ lpc'[i] = lpc[i] /\ task[i][j] \in {"ending", "crashing"}
      BY <1>t, <1>14 DEF OnBackgroundTaskDone
    <3>5. QED
      BY <3>1, <3>2, <3>3, <3>4, <1>j DEF InstanceFits, JobFits, Over
  <2>3. QED
    BY <1>t, <1>14, <2>1, <2>2, OneInstanceMoves, JobsStepKeepsLock DEF JobsInv, OnBackgroundTaskDone
<1>15. ASSUME NEW i \in Instances, NEW j \in Jobs, CancelIdle(i, j)
      PROVE  JobsInv'
  <2>1. JobsTypes' /\ OthersStay(i)
    BY <1>t, <1>j, <1>s, <1>15, TaskIsSet DEF CancelIdle, JobsTypes, OthersStay
  <2>2. InstanceFits(i)'
    <3>1. InstanceFits(i)
      BY <1>t DEF JobsOwnInv
    <3>2. \A l \in Jobs : task'[i][l] = IF l = j THEN "ending" ELSE task[i][l]
      BY <1>t, <1>j, <1>s, <1>15, TaskIsSet DEF CancelIdle
    <3>3. status' = status
      BY <1>15 DEF CancelIdle
    <3>4. proc' = proc /\ client' = client /\ lpc'[i] = lpc[i] /\ proc[i] = "stopping" /\ (j = "integrity" => lpc[i] = "out")
      BY <1>t, <1>15 DEF CancelIdle
    <3>5. QED
      BY <3>1, <3>2, <3>3, <3>4, <1>j DEF InstanceFits, JobFits, Over
  <2>3. QED
    BY <1>t, <1>15, <2>1, <2>2, OneInstanceMoves, JobsStepKeepsLock DEF JobsInv, CancelIdle
<1>16. QED
  BY <1>1, <1>2, <1>3, <1>4, <1>5, <1>6, <1>7, <1>8, <1>9, <1>10, <1>11, <1>12, <1>13, <1>14, <1>15 DEF JobsNext

\* What the invariant says of health, shutdown and resources.
LEMMA JobsInvImplies ==
    ASSUME JobsInv
    PROVE  /\ JobsTypeOK /\ HolderKeepsKey /\ DeadJobDegradesHealth
           /\ ShutdownIsNoFailure /\ CleanupHasResources
<1>1. JobsTypeOK /\ HolderKeepsKey
  BY DEF JobsInv, LockInv, JobsOwnInv, JobsTypes, JobsTypeOK, TaskStates, JobStates
<1>2. DeadJobDegradesHealth /\ ShutdownIsNoFailure
  BY DEF JobsInv, JobsOwnInv, InstanceFits, JobFits, DeadJobDegradesHealth, HealthStatus, ShutdownIsNoFailure
<1>3. CleanupHasResources
  BY DEF JobsInv, JobsOwnInv, JobsTypes, InstanceFits, JobFits, CleanupHasResources, Over, Jobs
<1>4. QED
  BY <1>1, <1>2, <1>3

\* app/main.py: whatever crashes, is cancelled or is killed, a job that is gone
\* degrades /health while its process serves, a shutdown is no failure, and jobs
\* clean up before Redis and the database are closed; the lock of the integrity
\* job is kept by the instance that holds it.
THEOREM JobsAreSupervised ==
    ASSUME LockAssumption
    PROVE  JobsSpec => [](/\ JobsTypeOK /\ HolderKeepsKey /\ DeadJobDegradesHealth
                          /\ ShutdownIsNoFailure /\ CleanupHasResources)
<1>1. JobsInit => JobsInv
  BY JobsInitInv
<1>2. JobsInv /\ [JobsNext]_jobsVars => JobsInv'
  BY JobsNextInv
<1>3. JobsInv => /\ JobsTypeOK /\ HolderKeepsKey /\ DeadJobDegradesHealth
                 /\ ShutdownIsNoFailure /\ CleanupHasResources
  BY JobsInvImplies
<1>4. QED
  BY <1>1, <1>2, <1>3, PTL DEF JobsSpec
=============================================================================
