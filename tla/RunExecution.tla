---------------------------- MODULE RunExecution ----------------------------
(***************************************************************************)
(* How a kernel run is executed: the programs that use the job queue of    *)
(* RunJobs.tla, the run row they all write, and the run's execution lock.  *)
(*                                                                         *)
(*   workers   scripts/agent-job-worker.ts: claim a job, execute its run   *)
(*             with AgentKernel.executeRunJob, settle the job              *)
(*   waiters   agent/queue/run-wait.ts in local mode (`run --wait'): the   *)
(*             same for the jobs of one run, until that run is terminal    *)
(*   clients   POST agent/runs and POST agent/runs/:id/resume of server.ts *)
(*                                                                         *)
(* A process is a program counter over its awaits: every await of a store  *)
(* call is one step, so any other process may act between two of them.     *)
(* Processes are killed, shut down and started again.                      *)
(*                                                                         *)
(* Time is abstracted as in RunJobs.tla: a lock is fresh or stale, a lease *)
(* live or expired.  Faults says which deadlines may be missed.  One step  *)
(* of a plan is one indivisible piece of work whose outcome is arbitrary;  *)
(* a correction that the loop queues is one more step of the plan.         *)
(***************************************************************************)
EXTENDS RunJobs

CONSTANTS
  Waiter,       \* the nodes that are waiting CLIs; the others are workers
  WatchedRun,   \* the run a waiter waits for
  Client,       \* concurrent API requests; all runs are of one project
  Pid,          \* process ids; a restarted container may get its old one
  NoOwner,      \* run_lock_owner IS NULL
  StepCount,    \* the length of a run's plan
  Faults,       \* what may go wrong besides processes that stop
  Resumable,    \* the statuses in which a user asks for a resume
  MaxStops      \* bound: how often processes are killed or shut down

RunStatus      == {"queued", "running", "complete", "failed"}
ActiveRun      == {"queued", "running"}       \* hasActiveAgentRun
TerminalRun    == {"complete", "failed"}
LockOwner      == Pid \X Node \X Job          \* `${pid}:worker:${node}:${job}'

ASSUME RunExecutionAssumption ==
  /\ Waiter \subseteq Node
  /\ WatchedRun \in Run
  /\ NoOwner \notin LockOwner
  /\ StepCount \in Nat \ {0}
  /\ Faults \subseteq {"late_renewal", "slow_step", "store_error", "api_stop"}
  /\ Resumable \subseteq RunStatus \ {"complete"}
  /\ MaxStops \in Nat

NoJob == 0

VARIABLES
  runs,         \* table agent_runs
  procs,        \* the worker and waiter processes
  clients,      \* the API requests in progress
  stops         \* how often a process was stopped

execVars == <<jobs, nodes, runs, procs, clients, stops>>

RunRow == [status : RunStatus \union {"absent"}, step : 0..StepCount,
           lock : LockOwner \union {NoOwner}, stale : BOOLEAN]

\* Where a process can be.  A lock holder is between the acquisition of the
\* run lock in executeLoop and its release in the finally.
LockHolderPC == {"prepare", "loop", "work", "advance", "fail", "release", "unwind"}
LeaseTimerPC == LockHolderPC \union
                {"load", "lock", "settle", "failread", "failwrite", "failjob"}
BusyPC       == LeaseTimerPC \union {"claimed"}
IdlePC       == {"down", "look", "poll", "leave"}

Proc == [pc : BusyPC \union IdlePC, pid : Pid, job : Job \union {NoJob},
         step : 0..StepCount, stopping : BOOLEAN]

Request == [pc : {"idle", "create"}, run : {NoRun}]
             \union [pc : {"requeue", "enqueue"}, run : Run]

ExecTypeOK ==
  /\ TypeOK
  /\ runs \in [Run -> RunRow]
  /\ procs \in [Node -> Proc]
  /\ clients \in [Client -> Request]
  /\ stops \in 0..MaxStops
  /\ \A n \in Node : procs[n].pc \in BusyPC =>
       /\ procs[n].job \in Job
       /\ jobs[procs[n].job].status # "absent"
  /\ \A n \in Node : procs[n].pc \in {"work", "advance", "fail"} =>
       procs[n].step < StepCount

-----------------------------------------------------------------------------
Busy(n)      == procs[n].pc \in BusyPC
Executing(n) == procs[n].pc \in LockHolderPC
RunOf(n)     == jobs[procs[n].job].run
Owner(n)     == <<procs[n].pid, n, procs[n].job>>      \* buildRunLockOwner

Home(n)      == IF n \in Waiter THEN "look" ELSE "poll"

NoRequest    == [pc |-> "idle", run |-> NoRun]

ExecInit ==
  /\ JobInit
  /\ runs = [r \in Run |-> [status |-> "absent", step |-> 0, lock |-> NoOwner,
                            stale |-> FALSE]]
  /\ procs \in [Node -> {[pc |-> "down", pid |-> pid, job |-> NoJob, step |-> 0,
                          stopping |-> FALSE] : pid \in Pid}]
  /\ clients = [c \in Client |-> NoRequest]
  /\ stops = 0

\* The process goes on to `pc' and keeps its job.
Goto(n, pc) == procs' = [procs EXCEPT ![n].pc = pc]

\* The process goes back to `pc' without a job.
Drop(n, pc) ==
  procs' = [procs EXCEPT ![n] = [@ EXCEPT !.pc = pc, !.job = NoJob, !.step = 0]]

-----------------------------------------------------------------------------
(* Finding work *)

StartProcess(n) ==
  /\ procs[n].pc = "down"
  /\ UpsertWorkerNodeHeartbeat(n, "compute")
  /\ \E pid \in Pid :
       procs' = [procs EXCEPT ![n] = [pc |-> Home(n), pid |-> pid, job |-> NoJob,
                                      step |-> 0, stopping |-> FALSE]]
  /\ UNCHANGED <<runs, clients, stops>>

\* A waiter leaves when the run is terminal or unknown, or its deadline passed.
WaiterLooks(n) ==
  /\ procs[n].pc = "look"
  /\ \/ Goto(n, "leave")
     \/ runs[WatchedRun].status \in ActiveRun /\ Goto(n, "poll")
  /\ UNCHANGED <<jobVars, runs, clients, stops>>

WaiterLeaves(n) ==
  /\ procs[n].pc = "leave"
  /\ MarkWorkerNodeOffline(n)
  /\ Drop(n, "down")
  /\ UNCHANGED <<runs, clients, stops>>

ClaimedRuns(n) == IF n \in Waiter THEN {WatchedRun} ELSE Run

ClaimJob(n) ==
  /\ procs[n].pc = "poll"
  /\ ~procs[n].stopping
  /\ \E j \in Job :
       /\ ClaimNextRunJob(n, j, ClaimedRuns(n))
       /\ procs' = [procs EXCEPT ![n] = [@ EXCEPT !.pc = "claimed", !.job = j]]
  /\ UNCHANGED <<runs, clients, stops>>

WaiterSleeps(n) ==
  /\ n \in Waiter
  /\ procs[n].pc = "poll"
  /\ \A j \in Job : jobs[j].run = WatchedRun => ~Claimable(j)
  /\ Goto(n, "look")
  /\ UNCHANGED <<jobVars, runs, clients, stops>>

\* The job may have been reclaimed since the claim ("claim_lost").
BeginJob(n) ==
  /\ procs[n].pc = "claimed"
  /\ \/ MarkRunJobRunning(procs[n].job, n) /\ Goto(n, "load")
     \/ ~HeldBy(procs[n].job, n) /\ Drop(n, Home(n)) /\ UNCHANGED jobVars
  /\ UNCHANGED <<runs, clients, stops>>

\* The interval timer set up for the job, until the finally clears it.
RenewLease(n) ==
  /\ procs[n].pc \in LeaseTimerPC
  /\ RenewRunJobLease(procs[n].job, n)
  /\ UNCHANGED <<runs, procs, clients, stops>>

-----------------------------------------------------------------------------
(* executeRunJob and executeLoop *)

\* executeRunJob returns at once for a run that is complete, only then.
LoadRun(n) ==
  /\ procs[n].pc = "load"
  /\ Goto(n, IF runs[RunOf(n)].status = "complete" THEN "settle" ELSE "lock")
  /\ UNCHANGED <<jobVars, runs, clients, stops>>

\* Mutant of LockAvailable: owners of one process id are not told apart.
LockAvailableToPid(r, owner) ==
  \/ runs[r].lock = NoOwner
  \/ runs[r].lock # NoOwner /\ runs[r].lock[1] = owner[1]
  \/ runs[r].stale

\* The WHERE of acquireAgentRunExecutionLock.
LockAvailable(r, owner) ==
  \/ runs[r].lock \in {NoOwner, owner}
  \/ runs[r].stale

\* Mutant of AcquireLock: run_locked_at keeps its old value.
AcquireWithoutTime(n) ==
  /\ procs[n].pc = "lock"
  /\ \/ /\ LockAvailable(RunOf(n), Owner(n))
        /\ runs' = [runs EXCEPT ![RunOf(n)].lock = Owner(n)]
        /\ Goto(n, "prepare")
     \/ /\ ~LockAvailable(RunOf(n), Owner(n))
        /\ Goto(n, "failread")
        /\ UNCHANGED runs
  /\ UNCHANGED <<jobVars, clients, stops>>

AcquireLock(n) ==
  /\ procs[n].pc = "lock"
  /\ \/ /\ LockAvailable(RunOf(n), Owner(n))
        /\ runs' = [runs EXCEPT ![RunOf(n)] = [@ EXCEPT !.lock = Owner(n),
                                                        !.stale = FALSE]]
        /\ Goto(n, "prepare")
     \/ /\ ~LockAvailable(RunOf(n), Owner(n))
        /\ Goto(n, "failread")
        /\ UNCHANGED runs
  /\ UNCHANGED <<jobVars, clients, stops>>

\* The run row is set running whatever its status has become, and the loop
\* starts from the row that update returns.
SetRunning(n) ==
  /\ procs[n].pc = "prepare"
  /\ runs' = [runs EXCEPT ![RunOf(n)].status = "running"]
  /\ procs' = [procs EXCEPT ![n] = [@ EXCEPT !.pc = "loop",
                                             !.step = runs[RunOf(n)].step]]
  /\ UNCHANGED <<jobVars, clients, stops>>

\* refreshAgentRunExecutionLock at the top of the loop.
BeginStep(n) ==
  /\ procs[n].pc = "loop"
  /\ procs[n].step < StepCount
  /\ \/ /\ runs[RunOf(n)].lock = Owner(n)
        /\ runs' = [runs EXCEPT ![RunOf(n)].stale = FALSE]
        /\ Goto(n, "work")
     \/ /\ runs[RunOf(n)].lock # Owner(n)
        /\ Goto(n, "unwind")
        /\ UNCHANGED runs
  /\ UNCHANGED <<jobVars, clients, stops>>

EndLoop(n) ==
  /\ procs[n].pc = "loop"
  /\ procs[n].step >= StepCount
  /\ Goto(n, "release")
  /\ UNCHANGED <<jobVars, runs, clients, stops>>

\* Execute, stage, validate and perhaps commit the step (KernelLoop.tla).
RunStep(n) ==
  /\ procs[n].pc = "work"
  /\ \E outcome \in {"advance", "fail"} : Goto(n, outcome)
  /\ UNCHANGED <<jobVars, runs, clients, stops>>

AdvanceRun(n) ==
  LET next == procs[n].step + 1 IN
  /\ procs[n].pc = "advance"
  /\ runs' = [runs EXCEPT ![RunOf(n)] =
                [@ EXCEPT !.status = IF next >= StepCount THEN "complete" ELSE "running",
                          !.step = next]]
  /\ procs' = [procs EXCEPT ![n] = [@ EXCEPT !.pc = "loop", !.step = next]]
  /\ UNCHANGED <<jobVars, clients, stops>>

FailRun(n) ==
  /\ procs[n].pc = "fail"
  /\ runs' = [runs EXCEPT ![RunOf(n)] = [@ EXCEPT !.status = "failed",
                                                  !.step = procs[n].step]]
  /\ Goto(n, "release")
  /\ UNCHANGED <<jobVars, clients, stops>>

\* An exception (a store call, git, a planner) ends the execution; inside
\* executeLoop it passes through the finally that releases the lock.
Throw(n) ==
  /\ \/ procs[n].pc \in {"prepare", "loop", "work", "advance", "fail"} /\ Goto(n, "unwind")
     \/ procs[n].pc \in {"load", "lock", "settle"} /\ Goto(n, "failread")
  /\ UNCHANGED <<jobVars, runs, clients, stops>>

\* Mutant of ReleaseLock: the release does not ask who owns the lock.
ReleaseAnyLock(n) ==
  /\ procs[n].pc \in {"release", "unwind"}
  /\ runs' = [runs EXCEPT ![RunOf(n)] = [@ EXCEPT !.lock = NoOwner, !.stale = FALSE]]
  /\ Goto(n, IF procs[n].pc = "release" THEN "settle" ELSE "failread")
  /\ UNCHANGED <<jobVars, clients, stops>>

\* The finally of executeLoop; an error of the release is swallowed.
ReleaseLock(n) ==
  /\ procs[n].pc \in {"release", "unwind"}
  /\ \/ /\ runs[RunOf(n)].lock = Owner(n)
        /\ runs' = [runs EXCEPT ![RunOf(n)] = [@ EXCEPT !.lock = NoOwner,
                                                        !.stale = FALSE]]
     \/ /\ runs[RunOf(n)].lock # Owner(n) \/ "store_error" \in Faults
        /\ UNCHANGED runs
  /\ Goto(n, IF procs[n].pc = "release" THEN "settle" ELSE "failread")
  /\ UNCHANGED <<jobVars, clients, stops>>

-----------------------------------------------------------------------------
(* Settling the job *)

CompleteJob(n) ==
  /\ procs[n].pc = "settle"
  /\ \/ EndRunJob(procs[n].job, n, "complete")
     \/ ~HeldBy(procs[n].job, n) /\ UNCHANGED jobVars
  /\ Drop(n, Home(n))
  /\ UNCHANGED <<runs, clients, stops>>

\* Mutant of CheckRun: only the job is failed, the run is left as it is.
SkipRun(n) ==
  /\ procs[n].pc = "failread"
  /\ Goto(n, "failjob")
  /\ UNCHANGED <<jobVars, runs, clients, stops>>

\* markRunFailedIfNeeded is a read and, if the run was not terminal, a write;
\* the caller swallows the errors of both, and those of failRunJob.
CheckRun(n) ==
  /\ procs[n].pc = "failread"
  /\ \/ runs[RunOf(n)].status \in TerminalRun /\ Goto(n, "failjob")
     \/ runs[RunOf(n)].status \notin TerminalRun /\ Goto(n, "failwrite")
     \/ "store_error" \in Faults /\ Goto(n, "failjob")
  /\ UNCHANGED <<jobVars, runs, clients, stops>>

MarkRunFailed(n) ==
  /\ procs[n].pc = "failwrite"
  /\ \/ runs' = [runs EXCEPT ![RunOf(n)].status = "failed"]
     \/ "store_error" \in Faults /\ UNCHANGED runs
  /\ Goto(n, "failjob")
  /\ UNCHANGED <<jobVars, clients, stops>>

FailJob(n) ==
  /\ procs[n].pc = "failjob"
  /\ \/ EndRunJob(procs[n].job, n, "failed")
     \/ /\ ~HeldBy(procs[n].job, n) \/ "store_error" \in Faults
        /\ UNCHANGED jobVars
  /\ Drop(n, IF n \in Waiter THEN "leave" ELSE "poll")
  /\ UNCHANGED <<runs, clients, stops>>

-----------------------------------------------------------------------------
(* Stopping, and time *)

\* A kill leaves the job held and the lock taken.
KillProcess(n) ==
  /\ procs[n].pc # "down"
  /\ stops < MaxStops
  /\ stops' = stops + 1
  /\ procs' = [procs EXCEPT ![n] = [@ EXCEPT !.pc = "down", !.job = NoJob, !.step = 0,
                                             !.stopping = FALSE]]
  /\ UNCHANGED <<jobVars, runs, clients>>

\* SIGTERM marks the node offline and then exits; the job goes on in between.
ShutdownWorker(n) ==
  /\ n \notin Waiter
  /\ procs[n].pc # "down"
  /\ ~procs[n].stopping
  /\ stops < MaxStops
  /\ stops' = stops + 1
  /\ MarkWorkerNodeOffline(n)
  /\ procs' = [procs EXCEPT ![n].stopping = TRUE]
  /\ UNCHANGED <<runs, clients>>

ExitWorker(n) ==
  /\ procs[n].stopping
  /\ procs' = [procs EXCEPT ![n] = [@ EXCEPT !.pc = "down", !.job = NoJob, !.step = 0,
                                             !.stopping = FALSE]]
  /\ UNCHANGED <<jobVars, runs, clients, stops>>

\* The lease of a job passes: when nobody renews it, or renewals come late.
LeaseRunsOut(j) ==
  /\ \/ "late_renewal" \in Faults
     \/ ~ \E n \in Node : Busy(n) /\ procs[n].job = j /\ HeldBy(j, n)
  /\ LeaseExpires(j)
  /\ UNCHANGED <<runs, procs, clients, stops>>

\* A lock gets stale: when nobody refreshes it, or a step takes too long.
LockAges(r) ==
  /\ runs[r].lock # NoOwner
  /\ \/ "slow_step" \in Faults
     \/ ~ \E n \in Node : Executing(n) /\ runs[r].lock = Owner(n)
  /\ runs' = [runs EXCEPT ![r].stale = TRUE]
  /\ UNCHANGED <<jobVars, procs, clients, stops>>

-----------------------------------------------------------------------------
(* API requests *)

\* assertNoActiveAgentRunMutation; planning comes between it and the insert.
PostRun(c) ==
  /\ clients[c].pc = "idle"
  /\ \A r \in Run : runs[r].status \notin ActiveRun
  /\ clients' = [clients EXCEPT ![c].pc = "create"]
  /\ UNCHANGED <<jobVars, runs, procs, stops>>

CreateRun(c, r) ==
  /\ clients[c].pc = "create"
  /\ runs[r].status = "absent"
  /\ runs' = [runs EXCEPT ![r].status = "queued"]
  /\ clients' = [clients EXCEPT ![c] = [pc |-> "enqueue", run |-> r]]
  /\ UNCHANGED <<jobVars, procs, stops>>

PostResume(c, r) ==
  /\ clients[c].pc = "idle"
  /\ runs[r].status \in Resumable
  /\ clients' = [clients EXCEPT ![c] = [pc |-> "requeue", run |-> r]]
  /\ UNCHANGED <<jobVars, runs, procs, stops>>

\* Mutant of RequeueRun: a resumed run starts over.
RequeueFromStart(c) ==
  /\ clients[c].pc = "requeue"
  /\ runs' = [runs EXCEPT ![clients[c].run] = [@ EXCEPT !.status = "queued", !.step = 0]]
  /\ clients' = [clients EXCEPT ![c].pc = "enqueue"]
  /\ UNCHANGED <<jobVars, procs, stops>>

RequeueRun(c) ==
  /\ clients[c].pc = "requeue"
  /\ runs' = [runs EXCEPT ![clients[c].run].status = "queued"]
  /\ clients' = [clients EXCEPT ![c].pc = "enqueue"]
  /\ UNCHANGED <<jobVars, procs, stops>>

\* enqueueRunJob: when the index refuses the row, the active job is returned.
EnqueueJob(c) ==
  /\ clients[c].pc = "enqueue"
  /\ \/ \E j \in Job : InsertRunJob(j, clients[c].run)
     \/ ActiveJobs(clients[c].run) # {} /\ UNCHANGED jobVars
  /\ clients' = [clients EXCEPT ![c] = NoRequest]
  /\ UNCHANGED <<runs, procs, stops>>

RequestDies(c) ==
  /\ "api_stop" \in Faults
  /\ clients[c].pc # "idle"
  /\ clients' = [clients EXCEPT ![c] = NoRequest]
  /\ UNCHANGED <<jobVars, runs, procs, stops>>

-----------------------------------------------------------------------------
\* What a running process does next, its timers apart.
ProcessStep(n) ==
  \/ WaiterLooks(n) \/ WaiterLeaves(n) \/ WaiterSleeps(n)
  \/ ClaimJob(n) \/ BeginJob(n) \/ LoadRun(n)
  \/ AcquireLock(n) \/ SetRunning(n) \/ BeginStep(n) \/ EndLoop(n)
  \/ RunStep(n) \/ AdvanceRun(n) \/ FailRun(n) \/ Throw(n) \/ ReleaseLock(n)
  \/ CompleteJob(n) \/ CheckRun(n) \/ MarkRunFailed(n) \/ FailJob(n)

RequestStep(c) ==
  \/ \E r \in Run : CreateRun(c, r)
  \/ RequeueRun(c)
  \/ EnqueueJob(c)

ExecNext ==
  \/ \E n \in Node :
       \/ StartProcess(n) \/ ProcessStep(n) \/ RenewLease(n)
       \/ KillProcess(n) \/ ShutdownWorker(n) \/ ExitWorker(n)
  \/ \E j \in Job : LeaseRunsOut(j)
  \/ \E r \in Run : LockAges(r)
  \/ \E c \in Client :
       \/ PostRun(c) \/ RequestStep(c) \/ RequestDies(c)
       \/ \E r \in Run : PostResume(c, r)

ExecSpec == ExecInit /\ [][ExecNext]_execVars

\* Stopped workers are started again, running ones and accepted requests go on,
\* and the lease of a job nobody works on runs out.
ExecFairness ==
  /\ \A n \in Node :
       /\ WF_execVars(n \notin Waiter /\ StartProcess(n))
       /\ WF_execVars(ProcessStep(n))
       /\ WF_execVars(ExitWorker(n))
  /\ \A j \in Job : WF_execVars(LeaseRunsOut(j))
  /\ \A c \in Client : WF_execVars(RequestStep(c))

FairExecSpec == ExecSpec /\ ExecFairness

-----------------------------------------------------------------------------
(* Properties *)

\* Two processes never execute the same run at the same time: whatever happens
\* to the leases of its jobs and however often it is resumed, the run lock of
\* acquireAgentRunExecutionLock keeps the second one out.
ExclusiveExecution ==
  \A m, n \in Node :
    Executing(m) /\ Executing(n) /\ RunOf(m) = RunOf(n) => m = n

\* Why: a process inside executeLoop owns its run's lock, and the lock is fresh.
HolderOwnsLock ==
  \A n \in Node : Executing(n) =>
    /\ runs[RunOf(n)].lock = Owner(n)
    /\ ~runs[RunOf(n)].stale

\* The step index a process keeps in a local variable across its awaits is the
\* one in the run row: nobody else moved the run in the meantime.
StepInSync ==
  \A n \in Node :
    procs[n].pc \in {"loop", "work", "advance", "fail"} =>
      procs[n].step = runs[RunOf(n)].step

\* What carries exclusion: the queue is in order, whoever executes owns a fresh
\* lock, and an executor's idea of the step is the recorded one.
ExecInv == ExecTypeOK /\ JobInv /\ HolderOwnsLock /\ StepInSync

\* No crash, retry or resume makes a run go back over steps it has recorded as
\* done, although every write of current_step_index is unconditional.
ProgressForward == \A r \in Run : runs'[r].step >= runs[r].step

\* So current_step_index only grows, over reclaims and resumes.
ProgressNeverRewinds == [][ProgressForward]_execVars

\* The processes that are inside executeLoop with a run.
Executors(r) == {n \in Node : Executing(n) /\ RunOf(n) = r}

\* What the programs, the queue and the lock make together.
Serial == INSTANCE SerialRun WITH executors <- [r \in Run |-> Executors(r)],
                                  done <- [r \in Run |-> runs[r].step]

\* A run is executed by one process after another, and every write of
\* current_step_index by its executor records the next step or none: over lost
\* leases, reclaims, stops, resumes and steps that fail.
ImplementsSerialRun == Serial!Spec

\* Even when steps outlast the lock's staleness limit: a fresh lock is neither
\* taken from the process that executes under it nor released by the one it
\* was taken from.
LockKept ==
  \A n \in Node :
    LET r == RunOf(n) IN
    /\ Executing(n)
    /\ runs[r].lock = Owner(n)
    /\ ~runs[r].stale
    /\ procs'[n].pc \in LockHolderPC
    => runs'[r].lock = Owner(n)

\* So no acquireAgentRunExecutionLock or release of another process takes it.
FreshLockIsKept == [][LockKept]_execVars

\* A run is only marked failed by the process that executes it or when nobody
\* does: a stale claim never fails a run under its executor's hands.
FailsOnlyItsOwn ==
  \A r \in Run : runs[r].status # "failed" /\ runs'[r].status = "failed" =>
    \A m \in Node : Executing(m) /\ RunOf(m) = r => procs'[m] # procs[m]

\* So markRunFailedIfNeeded and the failed step never hit somebody else's run.
NoForeignFailure == [][FailsOnlyItsOwn]_execVars

\* A run that is active has a job some worker will execute, or a request that
\* is about to enqueue one: otherwise nothing would ever move it again.
NoOrphanedRun ==
  \A r \in Run : runs[r].status \in ActiveRun =>
    \/ ActiveJobs(r) # {}
    \/ \E c \in Client : clients[c].pc = "enqueue" /\ clients[c].run = r

\* Every run that was created comes to an end, although workers are killed and
\* shut down in the middle of it.
EveryRunSettles ==
  \A r \in Run : runs[r].status = "queued" ~> runs[r].status \in TerminalRun

\* docs/contracts/adversarial-reliability-matrix.md: after the lease of a dead
\* worker's job expired, "worker B reclaims the same job and executes the same
\* run".  So an executor that asks for the run lock gets it, unless a living
\* process is executing the run.
ReclaimedJobExecutes ==
  \A n \in Node : procs[n].pc = "lock" =>
    \/ LockAvailable(RunOf(n), Owner(n))
    \/ \E m \in Node \ {n} : Executing(m) /\ RunOf(m) = RunOf(n)
=============================================================================
