------------------------ MODULE RunExecution_proofs ------------------------
(***************************************************************************)
(* Proofs about the execution of runs, for any number of processes,        *)
(* requests, runs and faults: the programs use the job queue as RunJobs    *)
(* specifies it, no two processes execute one run at the same time, and    *)
(* a run's recorded progress never goes back.  When lease renewals come in *)
(* time, no process fails another's run; and when besides nothing is lost  *)
(* or resumed, no active run is left without a job.                        *)
(***************************************************************************)
EXTENDS RunExecution, RunJobs_proofs

-----------------------------------------------------------------------------
(* The programs drive the job queue *)

\* Every step of the programs is a statement of the job queue or none at all.
LEMMA QueueStep == ExecTypeOK /\ [ExecNext]_execVars => [JobNext]_jobVars
<1> SUFFICES ASSUME ExecTypeOK, [ExecNext]_execVars PROVE [JobNext]_jobVars
  OBVIOUS
<1>1. ASSUME NEW n \in Node, StartProcess(n) PROVE [JobNext]_jobVars
  BY <1>1 DEF StartProcess, JobNext, Role
<1>2. ASSUME NEW n \in Node, WaiterLeaves(n) \/ ShutdownWorker(n)
      PROVE  [JobNext]_jobVars
  BY <1>2 DEF WaiterLeaves, ShutdownWorker, JobNext
<1>3. ASSUME NEW n \in Node, ClaimJob(n) PROVE [JobNext]_jobVars
  <2> PICK j \in Job : ClaimNextRunJob(n, j, ClaimedRuns(n))
    BY <1>3 DEF ClaimJob
  <2>1. ClaimedRuns(n) \in {Run} \union {{r} : r \in Run}
    BY RunExecutionAssumption DEF ClaimedRuns
  <2> QED
    BY <2>1 DEF JobNext
<1>4. ASSUME NEW n \in Node,
             BeginJob(n) \/ CompleteJob(n) \/ FailJob(n) \/ RenewLease(n)
      PROVE  [JobNext]_jobVars
  <2>1. procs[n].job \in Job
    BY <1>4 DEF BeginJob, CompleteJob, FailJob, RenewLease, ExecTypeOK, BusyPC,
                LeaseTimerPC
  <2> QED
    BY <1>4, <2>1
    DEF BeginJob, CompleteJob, FailJob, RenewLease, JobNext, EndStatus
<1>5. ASSUME NEW j \in Job, LeaseRunsOut(j) PROVE [JobNext]_jobVars
  BY <1>5 DEF LeaseRunsOut, JobNext
<1>6. ASSUME NEW c \in Client, EnqueueJob(c) PROVE [JobNext]_jobVars
  <2>1. CASE UNCHANGED jobVars
    BY <2>1
  <2>2. CASE \E j \in Job : InsertRunJob(j, clients[c].run)
    <3>1. clients[c].run \in Run
      BY <1>6, <2>2 DEF ExecTypeOK, EnqueueJob, Request
    <3> QED
      BY <2>2, <3>1 DEF JobNext
  <2> QED
    BY <1>6, <2>1, <2>2 DEF EnqueueJob
<1>7. CASE UNCHANGED execVars
  BY <1>7 DEF execVars, jobVars
<1>8. ASSUME NEW n \in Node,
             \/ WaiterLooks(n) \/ WaiterSleeps(n) \/ LoadRun(n) \/ AcquireLock(n)
             \/ SetRunning(n) \/ BeginStep(n) \/ EndLoop(n) \/ RunStep(n)
             \/ AdvanceRun(n) \/ FailRun(n) \/ Throw(n) \/ ReleaseLock(n)
             \/ CheckRun(n) \/ MarkRunFailed(n) \/ KillProcess(n) \/ ExitWorker(n)
      PROVE  UNCHANGED jobVars
  BY <1>8 DEF WaiterLooks, WaiterSleeps, LoadRun, AcquireLock, SetRunning, BeginStep,
      EndLoop, RunStep, AdvanceRun, FailRun, Throw, ReleaseLock, CheckRun,
      MarkRunFailed, KillProcess, ExitWorker, jobVars
<1>9. ASSUME NEW r \in Run, LockAges(r) PROVE UNCHANGED jobVars
  BY <1>9 DEF LockAges, jobVars
<1>10. ASSUME NEW c \in Client,
              \/ PostRun(c) \/ RequeueRun(c) \/ RequestDies(c)
              \/ \E r \in Run : CreateRun(c, r) \/ PostResume(c, r)
       PROVE  UNCHANGED jobVars
  BY <1>10 DEF PostRun, RequeueRun, RequestDies, CreateRun, PostResume, jobVars
<1> QED
  BY <1>1, <1>2, <1>3, <1>4, <1>5, <1>6, <1>7, <1>8, <1>9, <1>10
  DEF ExecNext, ProcessStep, RequestStep

-----------------------------------------------------------------------------
(* Processes *)

\* What a process is after going on with its job, or dropping it.
LEMMA GotoFacts ==
  ASSUME procs \in [Node -> Proc], NEW n \in Node,
         NEW pc \in BusyPC \union IdlePC, Goto(n, pc)
  PROVE  /\ procs' \in [Node -> Proc]
         /\ procs'[n].pc = pc
         /\ procs'[n].pid = procs[n].pid
         /\ procs'[n].job = procs[n].job
         /\ procs'[n].step = procs[n].step
         /\ \A m \in Node : m # n => procs'[m] = procs[m]
<1> DEFINE p == [procs[n] EXCEPT !.pc = pc]
<1>1. procs' = [procs EXCEPT ![n] = p]
  BY DEF Goto
<1>2. /\ p \in Proc
      /\ p.pc = pc
      /\ p.pid = procs[n].pid
      /\ p.job = procs[n].job
      /\ p.step = procs[n].step
  BY DEF Proc
<1> HIDE DEF p
<1> QED
  BY <1>1, <1>2

LEMMA DropFacts ==
  ASSUME procs \in [Node -> Proc], NEW n \in Node, NEW pc \in IdlePC, Drop(n, pc)
  PROVE  /\ procs' \in [Node -> Proc]
         /\ procs'[n].pc = pc
         /\ \A m \in Node : m # n => procs'[m] = procs[m]
<1> DEFINE p == [procs[n] EXCEPT !.pc = pc, !.job = NoJob, !.step = 0]
<1>1. procs' = [procs EXCEPT ![n] = p]
  BY DEF Drop
<1>2. 0 \in 0..StepCount
  BY RunExecutionAssumption
<1>3. p \in Proc /\ p.pc = pc
  BY <1>2 DEF Proc, IdlePC
<1> HIDE DEF p
<1> QED
  BY <1>1, <1>3

LEMMA StepFacts ==
  ASSUME procs \in [Node -> Proc], NEW n \in Node,
         NEW pc \in BusyPC \union IdlePC, NEW step \in 0..StepCount,
         procs' = [procs EXCEPT ![n] = [@ EXCEPT !.pc = pc, !.step = step]]
  PROVE  /\ procs' \in [Node -> Proc]
         /\ procs'[n].pc = pc
         /\ procs'[n].pid = procs[n].pid
         /\ procs'[n].job = procs[n].job
         /\ procs'[n].step = step
         /\ \A m \in Node : m # n => procs'[m] = procs[m]
<1> DEFINE p == [procs[n] EXCEPT !.pc = pc, !.step = step]
<1>1. procs' = [procs EXCEPT ![n] = p]
  OBVIOUS
<1>2. /\ p \in Proc
      /\ p.pc = pc
      /\ p.pid = procs[n].pid
      /\ p.job = procs[n].job
      /\ p.step = step
  BY DEF Proc
<1> HIDE DEF p
<1> QED
  BY <1>1, <1>2

\* A busy process works on a stored job.
LEMMA BusyFacts ==
  ASSUME ExecTypeOK, NEW n \in Node, Busy(n)
  PROVE  /\ procs[n].job \in Job
         /\ jobs[procs[n].job].status # "absent"
         /\ jobs[procs[n].job] \in JobRow
         /\ RunOf(n) \in Run
         /\ Owner(n) \in LockOwner
<1>1. procs[n].job \in Job /\ jobs[procs[n].job].status # "absent"
  BY DEF ExecTypeOK, Busy
<1>2. jobs[procs[n].job] \in JobRow
  BY <1>1 DEF ExecTypeOK, TypeOK, NoJobRow
<1>3. procs[n].pid \in Pid
  BY DEF ExecTypeOK, Proc
<1> QED
  BY <1>1, <1>2, <1>3 DEF JobRow, RunOf, Owner, LockOwner

-----------------------------------------------------------------------------
(* Type correctness *)

LEMMA RunStatusRow ==
  ASSUME NEW row \in RunRow, NEW s \in RunStatus
  PROVE  [row EXCEPT !.status = s] \in RunRow
BY DEF RunRow

LEMMA RunStaleRow ==
  ASSUME NEW row \in RunRow, NEW b \in BOOLEAN
  PROVE  [row EXCEPT !.stale = b] \in RunRow
BY DEF RunRow

LEMMA RunLockRow ==
  ASSUME NEW row \in RunRow, NEW o \in LockOwner \union {NoOwner}
  PROVE  [row EXCEPT !.lock = o, !.stale = FALSE] \in RunRow
BY DEF RunRow

LEMMA RunStepRow ==
  ASSUME NEW row \in RunRow, NEW s \in RunStatus, NEW i \in 0..StepCount
  PROVE  [row EXCEPT !.status = s, !.step = i] \in RunRow
BY DEF RunRow

LEMMA RunsType ==
  ASSUME ExecTypeOK, [ExecNext]_execVars
  PROVE  runs' \in [Run -> RunRow]
<1>0. /\ runs \in [Run -> RunRow]
      /\ procs \in [Node -> Proc]
      /\ clients \in [Client -> Request]
  BY DEF ExecTypeOK
<1>1. ASSUME NEW r \in Run, NEW s \in RunStatus,
             runs' = [runs EXCEPT ![r].status = s]
      PROVE  runs' \in [Run -> RunRow]
  <2>1. runs' = [runs EXCEPT ![r] = [runs[r] EXCEPT !.status = s]]
    BY <1>1
  <2> QED
    BY <1>0, <2>1, RunStatusRow
<1>2. ASSUME NEW r \in Run, NEW b \in BOOLEAN,
             runs' = [runs EXCEPT ![r].stale = b]
      PROVE  runs' \in [Run -> RunRow]
  <2>1. runs' = [runs EXCEPT ![r] = [runs[r] EXCEPT !.stale = b]]
    BY <1>2
  <2> QED
    BY <1>0, <2>1, RunStaleRow
<1>3. ASSUME NEW r \in Run, NEW o \in LockOwner \union {NoOwner},
             runs' = [runs EXCEPT ![r] = [@ EXCEPT !.lock = o, !.stale = FALSE]]
      PROVE  runs' \in [Run -> RunRow]
  BY <1>0, <1>3, RunLockRow
<1>4. ASSUME NEW r \in Run, NEW s \in RunStatus, NEW i \in 0..StepCount,
             runs' = [runs EXCEPT ![r] = [@ EXCEPT !.status = s, !.step = i]]
      PROVE  runs' \in [Run -> RunRow]
  BY <1>0, <1>4, RunStepRow
<1>5. ASSUME NEW n \in Node, AcquireLock(n) \/ ReleaseLock(n)
      PROVE  runs' \in [Run -> RunRow]
  <2>1. RunOf(n) \in Run /\ Owner(n) \in LockOwner
    BY <1>5, BusyFacts
    DEF AcquireLock, ReleaseLock, Busy, BusyPC, LeaseTimerPC, LockHolderPC
  <2> QED
    BY <1>0, <1>3, <1>5, <2>1 DEF AcquireLock, ReleaseLock
<1>6. ASSUME NEW n \in Node, SetRunning(n) \/ MarkRunFailed(n) \/ BeginStep(n)
      PROVE  runs' \in [Run -> RunRow]
  <2>1. RunOf(n) \in Run
    BY <1>6, BusyFacts
    DEF SetRunning, MarkRunFailed, BeginStep, Busy, BusyPC, LeaseTimerPC, LockHolderPC
  <2> QED
    BY <1>0, <1>1, <1>2, <1>6, <2>1 DEF SetRunning, MarkRunFailed, BeginStep, RunStatus
<1>7. ASSUME NEW n \in Node, AdvanceRun(n) \/ FailRun(n)
      PROVE  runs' \in [Run -> RunRow]
  <2>1. RunOf(n) \in Run
    BY <1>7, BusyFacts
    DEF AdvanceRun, FailRun, Busy, BusyPC, LeaseTimerPC, LockHolderPC
  <2>2. procs[n].step \in 0..StepCount /\ procs[n].step < StepCount
    BY <1>0, <1>7 DEF Proc, ExecTypeOK, AdvanceRun, FailRun
  <2>3. procs[n].step + 1 \in 0..StepCount
    BY <2>2, RunExecutionAssumption
  <2>4. CASE AdvanceRun(n)
    <3> DEFINE s == IF procs[n].step + 1 >= StepCount THEN "complete" ELSE "running"
    <3>1. s \in RunStatus
      BY DEF RunStatus
    <3>2. runs' = [runs EXCEPT ![RunOf(n)] =
                     [@ EXCEPT !.status = s, !.step = procs[n].step + 1]]
      BY <2>4 DEF AdvanceRun
    <3> HIDE DEF s
    <3> QED
      BY <1>4, <2>1, <2>3, <3>1, <3>2
  <2>5. CASE FailRun(n)
    BY <1>4, <2>1, <2>2, <2>5 DEF FailRun, RunStatus
  <2> QED
    BY <1>7, <2>4, <2>5
<1>8. ASSUME NEW r \in Run, LockAges(r) PROVE runs' \in [Run -> RunRow]
  BY <1>2, <1>8 DEF LockAges
<1>9. ASSUME NEW c \in Client, RequestStep(c) PROVE runs' \in [Run -> RunRow]
  <2>1. ASSUME RequeueRun(c) PROVE runs' \in [Run -> RunRow]
    <3>1. clients[c].run \in Run
      BY <1>0, <2>1 DEF RequeueRun, Request
    <3> QED
      BY <1>1, <2>1, <3>1 DEF RequeueRun, RunStatus
  <2> QED
    BY <1>0, <1>1, <1>9, <2>1 DEF RequestStep, CreateRun, EnqueueJob, RunStatus
<1>10. CASE UNCHANGED runs
  BY <1>0, <1>10
<1> QED
  BY <1>5, <1>6, <1>7, <1>8, <1>9, <1>10
  DEF ExecNext, ProcessStep, execVars, StartProcess, RenewLease, KillProcess,
      ShutdownWorker, ExitWorker, LeaseRunsOut, PostRun, RequestDies, PostResume,
      WaiterLooks, WaiterLeaves, WaiterSleeps, ClaimJob, BeginJob, LoadRun, EndLoop,
      RunStep, Throw, CompleteJob, CheckRun, FailJob

\* What ExecTypeOK says of the processes.
ProcsOK ==
  /\ procs \in [Node -> Proc]
  /\ \A n \in Node : procs[n].pc \in BusyPC =>
       /\ procs[n].job \in Job
       /\ jobs[procs[n].job].status # "absent"
  /\ \A n \in Node : procs[n].pc \in {"work", "advance", "fail"} =>
       procs[n].step < StepCount

\* A step may change one process, as long as it leaves that one in order.
LEMMA OneProcess ==
  ASSUME ExecTypeOK, [ExecNext]_execVars, NEW n \in Node,
         procs' \in [Node -> Proc],
         \A m \in Node : m # n => procs'[m] = procs[m],
         procs'[n].pc \in BusyPC =>
           /\ procs'[n].job \in Job
           /\ jobs[procs'[n].job].status # "absent",
         procs'[n].pc \in {"work", "advance", "fail"} => procs'[n].step < StepCount
  PROVE  ProcsOK'
<1>1. \A j \in Job : jobs[j].status # "absent" => jobs'[j].status # "absent"
  BY QueueStep, StoredRowStays DEF ExecTypeOK
<1> QED
  BY <1>1 DEF ProcsOK, ExecTypeOK

\* The steps after which the process keeps its job and its step.
GoesOn(n) ==
  \/ LoadRun(n) \/ AcquireLock(n) \/ BeginStep(n) \/ EndLoop(n) \/ RunStep(n)
  \/ FailRun(n) \/ Throw(n) \/ ReleaseLock(n) \/ CheckRun(n) \/ MarkRunFailed(n)
  \/ MarkRunJobRunning(procs[n].job, n) /\ BeginJob(n) /\ Goto(n, "load")

LEMMA GoesOnFacts ==
  ASSUME ExecTypeOK, NEW n \in Node, GoesOn(n)
  PROVE  \E pc \in BusyPC :
           /\ Busy(n)
           /\ Goto(n, pc)
           /\ pc = "work" => procs[n].step < StepCount
           /\ pc \in {"advance", "fail"} => procs[n].pc = "work"
<1> USE DEF Busy, BusyPC, LeaseTimerPC, LockHolderPC
<1>1. CASE LoadRun(n) \/ AcquireLock(n) \/ EndLoop(n) \/ RunStep(n) \/ FailRun(n)
  BY <1>1 DEF LoadRun, AcquireLock, EndLoop, RunStep, FailRun
<1>2. CASE BeginStep(n)
  BY <1>2 DEF BeginStep
<1>3. CASE Throw(n) \/ ReleaseLock(n) \/ CheckRun(n) \/ MarkRunFailed(n)
  BY <1>3 DEF Throw, ReleaseLock, CheckRun, MarkRunFailed
<1>4. CASE BeginJob(n) /\ Goto(n, "load")
  BY <1>4 DEF BeginJob
<1> QED
  BY <1>1, <1>2, <1>3, <1>4 DEF GoesOn

LEMMA ProcsType ==
  ASSUME ExecTypeOK, [ExecNext]_execVars
  PROVE  ProcsOK'
<1>0. procs \in [Node -> Proc]
  BY DEF ExecTypeOK
<1>1. ASSUME NEW n \in Node, GoesOn(n) PROVE ProcsOK'
  <2> PICK pc \in BusyPC :
        /\ Busy(n)
        /\ Goto(n, pc)
        /\ pc = "work" => procs[n].step < StepCount
        /\ pc \in {"advance", "fail"} => procs[n].pc = "work"
    BY <1>1, GoesOnFacts
  <2>1. procs[n].pc = "work" => procs[n].step < StepCount
    BY DEF ExecTypeOK
  <2> QED
    BY <1>0, <2>1, GotoFacts, BusyFacts, OneProcess
<1>2. ASSUME NEW n \in Node, NEW pc \in IdlePC, Drop(n, pc) \/ Goto(n, pc)
      PROVE  ProcsOK'
  <2>1. pc \notin BusyPC
    BY DEF IdlePC, BusyPC, LeaseTimerPC, LockHolderPC
  <2>2. pc \notin {"work", "advance", "fail"}
    BY DEF IdlePC
  <2> QED
    BY <1>0, <1>2, <2>1, <2>2, DropFacts, GotoFacts, OneProcess
<1>3. ASSUME NEW n \in Node,
             \/ WaiterLooks(n) \/ WaiterLeaves(n) \/ WaiterSleeps(n)
             \/ CompleteJob(n) \/ FailJob(n)
             \/ BeginJob(n) /\ Drop(n, Home(n))
      PROVE  ProcsOK'
  BY <1>2, <1>3 DEF IdlePC, Home, WaiterLooks, WaiterLeaves, WaiterSleeps,
     CompleteJob, FailJob
<1>4. ASSUME NEW n \in Node, StartProcess(n) PROVE ProcsOK'
  <2> PICK pid \in Pid :
        procs' = [procs EXCEPT ![n] = [pc |-> Home(n), pid |-> pid, job |-> NoJob,
                                       step |-> 0, stopping |-> FALSE]]
    BY <1>4 DEF StartProcess
  <2>1. 0 \in 0..StepCount
    BY RunExecutionAssumption
  <2>2. Home(n) \in IdlePC
    BY DEF Home, IdlePC
  <2>3. [pc |-> Home(n), pid |-> pid, job |-> NoJob, step |-> 0, stopping |-> FALSE]
          \in Proc
    BY <2>1, <2>2 DEF Proc
  <2>4. Home(n) \notin BusyPC \union {"work", "advance", "fail"}
    BY DEF Home, BusyPC, LeaseTimerPC, LockHolderPC
  <2> QED
    BY <1>0, <2>3, <2>4, OneProcess
<1>5. ASSUME NEW n \in Node, ClaimJob(n) PROVE ProcsOK'
  <2> PICK j \in Job :
        /\ ClaimNextRunJob(n, j, ClaimedRuns(n))
        /\ procs' = [procs EXCEPT ![n] = [@ EXCEPT !.pc = "claimed", !.job = j]]
    BY <1>5 DEF ClaimJob
  <2> DEFINE p == [procs[n] EXCEPT !.pc = "claimed", !.job = j]
  <2>1. p \in Proc /\ p.pc = "claimed" /\ p.job = j
    BY <1>0 DEF Proc, BusyPC
  <2>2. procs' = [procs EXCEPT ![n] = p]
    OBVIOUS
  <2>3. jobs[j].status # "absent"
    BY DEF ClaimNextRunJob, Claimable, HeldStatus
  <2> HIDE DEF p
  <2> QED
    BY <1>0, <2>1, <2>2, <2>3, OneProcess
<1>6. ASSUME NEW n \in Node, SetRunning(n) \/ AdvanceRun(n) PROVE ProcsOK'
  <2>1. Busy(n)
    BY <1>6 DEF SetRunning, AdvanceRun, Busy, BusyPC, LeaseTimerPC, LockHolderPC
  <2>2. PICK i \in 0..StepCount :
          procs' = [procs EXCEPT ![n] = [@ EXCEPT !.pc = "loop", !.step = i]]
    <3>1. CASE SetRunning(n)
      <4>1. runs[RunOf(n)].step \in 0..StepCount
        BY <2>1, BusyFacts DEF ExecTypeOK, RunRow
      <4> QED
        BY <3>1, <4>1 DEF SetRunning
    <3>2. CASE AdvanceRun(n)
      <4>1. procs[n].step \in 0..StepCount /\ procs[n].step < StepCount
        BY <1>0, <3>2 DEF ExecTypeOK, Proc, AdvanceRun
      <4>2. procs[n].step + 1 \in 0..StepCount
        BY <4>1, RunExecutionAssumption
      <4> QED
        BY <3>2, <4>2 DEF AdvanceRun
    <3> QED
      BY <1>6, <3>1, <3>2
  <2>3. "loop" \in BusyPC \union IdlePC
    BY DEF BusyPC, LeaseTimerPC, LockHolderPC
  <2>4. /\ procs' \in [Node -> Proc]
        /\ procs'[n].pc = "loop"
        /\ procs'[n].job = procs[n].job
        /\ \A m \in Node : m # n => procs'[m] = procs[m]
    BY <1>0, <2>2, <2>3, StepFacts
  <2> QED
    BY <2>1, <2>4, BusyFacts, OneProcess
<1>7. ASSUME NEW n \in Node, KillProcess(n) \/ ExitWorker(n) PROVE ProcsOK'
  <2> DEFINE p == [procs[n] EXCEPT !.pc = "down", !.job = NoJob, !.step = 0,
                                   !.stopping = FALSE]
  <2>1. 0 \in 0..StepCount
    BY RunExecutionAssumption
  <2>2. p \in Proc /\ p.pc = "down"
    BY <1>0, <2>1 DEF Proc, IdlePC
  <2>3. procs' = [procs EXCEPT ![n] = p]
    BY <1>7 DEF KillProcess, ExitWorker
  <2>4. "down" \notin BusyPC \union {"work", "advance", "fail"}
    BY DEF BusyPC, LeaseTimerPC, LockHolderPC
  <2> HIDE DEF p
  <2> QED
    BY <1>0, <2>2, <2>3, <2>4, OneProcess
<1>8. ASSUME NEW n \in Node, ShutdownWorker(n) PROVE ProcsOK'
  <2> DEFINE p == [procs[n] EXCEPT !.stopping = TRUE]
  <2>1. /\ p \in Proc
        /\ p.pc = procs[n].pc
        /\ p.job = procs[n].job
        /\ p.step = procs[n].step
    BY <1>0 DEF Proc
  <2>2. procs' = [procs EXCEPT ![n] = p]
    BY <1>8 DEF ShutdownWorker
  <2>3. procs[n].pc \in BusyPC =>
          procs[n].job \in Job /\ jobs[procs[n].job].status # "absent"
    BY DEF ExecTypeOK
  <2>4. procs[n].pc \in {"work", "advance", "fail"} => procs[n].step < StepCount
    BY DEF ExecTypeOK
  <2> HIDE DEF p
  <2> QED
    BY <1>0, <2>1, <2>2, <2>3, <2>4, OneProcess
<1>9. CASE UNCHANGED procs
  <2>1. \A j \in Job : jobs[j].status # "absent" => jobs'[j].status # "absent"
    BY QueueStep, StoredRowStays DEF ExecTypeOK
  <2> QED
    BY <1>9, <2>1 DEF ProcsOK, ExecTypeOK
<1>10. ASSUME NEW n \in Node, BeginJob(n) PROVE ProcsOK'
  BY <1>1, <1>3, <1>10 DEF BeginJob, GoesOn
<1>11. ASSUME NEW n \in Node, ProcessStep(n) PROVE ProcsOK'
  <2>1. \/ GoesOn(n) \/ BeginJob(n) \/ ClaimJob(n) \/ SetRunning(n) \/ AdvanceRun(n)
        \/ WaiterLooks(n) \/ WaiterLeaves(n) \/ WaiterSleeps(n)
        \/ CompleteJob(n) \/ FailJob(n)
    BY <1>11 DEF ProcessStep, GoesOn
  <2> QED
    BY <1>1, <1>3, <1>5, <1>6, <1>10, <2>1
<1>12. ASSUME \/ \E n \in Node : RenewLease(n)
              \/ \E j \in Job : LeaseRunsOut(j)
              \/ \E r \in Run : LockAges(r)
              \/ \E c \in Client :
                   \/ PostRun(c) \/ RequestStep(c) \/ RequestDies(c)
                   \/ \E r \in Run : PostResume(c, r)
       PROVE  UNCHANGED procs
  BY <1>12 DEF RenewLease, LeaseRunsOut, LockAges, PostRun, CreateRun, PostResume,
     RequestStep, RequeueRun, EnqueueJob, RequestDies
<1>13. CASE UNCHANGED execVars
  BY <1>9, <1>13 DEF execVars
<1> QED
  BY <1>4, <1>7, <1>8, <1>9, <1>11, <1>12, <1>13 DEF ExecNext

\* Requests and the count of stops.
LEMMA RequestsType ==
  ASSUME ExecTypeOK, [ExecNext]_execVars
  PROVE  clients' \in [Client -> Request] /\ stops' \in 0..MaxStops
<1>0. clients \in [Client -> Request] /\ stops \in 0..MaxStops
  BY DEF ExecTypeOK
<1> USE DEF Request
<1>1. ASSUME NEW c \in Client, NEW q \in Request,
             clients' = [clients EXCEPT ![c] = q]
      PROVE  clients' \in [Client -> Request]
  BY <1>0, <1>1
<1>2. ASSUME NEW c \in Client, PostRun(c) PROVE clients' \in [Client -> Request]
  <2>1. [clients[c] EXCEPT !.pc = "create"] \in Request
    BY <1>0, <1>2 DEF PostRun
  <2>2. clients' = [clients EXCEPT ![c] = [clients[c] EXCEPT !.pc = "create"]]
    BY <1>2 DEF PostRun
  <2> QED
    BY <1>1, <2>1, <2>2
<1>3. ASSUME NEW c \in Client, RequeueRun(c) PROVE clients' \in [Client -> Request]
  <2>1. [clients[c] EXCEPT !.pc = "enqueue"] \in Request
    BY <1>0, <1>3 DEF RequeueRun
  <2>2. clients' = [clients EXCEPT ![c] = [clients[c] EXCEPT !.pc = "enqueue"]]
    BY <1>3 DEF RequeueRun
  <2> QED
    BY <1>1, <2>1, <2>2
<1>4. ASSUME NEW c \in Client, NEW r \in Run, CreateRun(c, r) \/ PostResume(c, r)
      PROVE  clients' \in [Client -> Request]
  BY <1>1, <1>4 DEF CreateRun, PostResume
<1>5. ASSUME NEW c \in Client, EnqueueJob(c) \/ RequestDies(c)
      PROVE  clients' \in [Client -> Request]
  BY <1>1, <1>5 DEF EnqueueJob, RequestDies, NoRequest
<1>6. ASSUME NEW n \in Node, KillProcess(n) \/ ShutdownWorker(n)
      PROVE  clients' = clients /\ stops' \in 0..MaxStops
  BY <1>0, <1>6, RunExecutionAssumption DEF KillProcess, ShutdownWorker
<1>7. ASSUME NEW n \in Node,
             StartProcess(n) \/ ProcessStep(n) \/ RenewLease(n) \/ ExitWorker(n)
      PROVE  UNCHANGED <<clients, stops>>
  BY <1>7 DEF StartProcess, ProcessStep, RenewLease, ExitWorker, WaiterLooks,
     WaiterLeaves, WaiterSleeps, ClaimJob, BeginJob, LoadRun, AcquireLock, SetRunning,
     BeginStep, EndLoop, RunStep, AdvanceRun, FailRun, Throw, ReleaseLock, CompleteJob,
     CheckRun, MarkRunFailed, FailJob
<1>8. ASSUME NEW c \in Client,
             \/ PostRun(c) \/ RequestStep(c) \/ RequestDies(c)
             \/ \E r \in Run : PostResume(c, r)
      PROVE  stops' = stops
  BY <1>8 DEF PostRun, CreateRun, PostResume, RequestStep, RequeueRun, EnqueueJob,
     RequestDies
<1>9. ASSUME (\E j \in Job : LeaseRunsOut(j)) \/ (\E r \in Run : LockAges(r))
      PROVE  UNCHANGED <<clients, stops>>
  BY <1>9 DEF LeaseRunsOut, LockAges
<1>10. CASE UNCHANGED execVars
  BY <1>0, <1>10 DEF execVars
<1> QED
  BY <1>0, <1>2, <1>3, <1>4, <1>5, <1>6, <1>7, <1>8, <1>9, <1>10
  DEF ExecNext, RequestStep

LEMMA ExecTypeStep == ExecTypeOK /\ [ExecNext]_execVars => ExecTypeOK'
<1> SUFFICES ASSUME ExecTypeOK, [ExecNext]_execVars PROVE ExecTypeOK'
  OBVIOUS
<1>1. TypeOK'
  BY QueueStep, TypeStep DEF ExecTypeOK
<1> QED
  BY <1>1, RunsType, ProcsType, RequestsType DEF ExecTypeOK, ProcsOK

LEMMA ExecTypeInit == ExecInit => ExecTypeOK
<1> SUFFICES ASSUME ExecInit PROVE ExecTypeOK
  OBVIOUS
<1>1. TypeOK
  BY JobInvInit DEF ExecInit, JobInv
<1>2. 0 \in 0..StepCount /\ 0 \in 0..MaxStops
  BY RunExecutionAssumption
<1>3. runs \in [Run -> RunRow]
  BY <1>2 DEF ExecInit, RunRow
<1>4. procs \in [Node -> Proc] /\ \A n \in Node : procs[n].pc = "down"
  <2> DEFINE Down == {[pc |-> "down", pid |-> pid, job |-> NoJob, step |-> 0,
                       stopping |-> FALSE] : pid \in Pid}
  <2>1. ASSUME NEW p \in Down PROVE p \in Proc /\ p.pc = "down"
    <3> PICK pid \in Pid : p = [pc |-> "down", pid |-> pid, job |-> NoJob, step |-> 0,
                                stopping |-> FALSE]
      BY <2>1
    <3> QED
      BY <1>2 DEF Proc, IdlePC
  <2>2. procs \in [Node -> Down]
    BY DEF ExecInit
  <2> HIDE DEF Down
  <2> QED
    BY <2>1, <2>2
<1>5. clients \in [Client -> Request]
  BY DEF ExecInit, NoRequest, Request
<1> QED
  BY <1>1, <1>2, <1>3, <1>4, <1>5
  DEF ExecInit, ExecTypeOK, BusyPC, LeaseTimerPC, LockHolderPC

\* Every table, process and request stays well formed, and a busy process
\* always works on a job that exists.
THEOREM ExecTypeCorrect == ExecSpec => []ExecTypeOK
BY ExecTypeInit, ExecTypeStep, PTL DEF ExecSpec

\* The workers, waiters and requests use the queue only through its statements:
\* everything proved of the queue holds of the queue they share.
THEOREM ExecUsesQueue == ExecSpec => JobSpec
<1>1. ExecInit => JobInit
  BY DEF ExecInit
<1> QED
  BY <1>1, QueueStep, ExecTypeCorrect, PTL DEF ExecSpec, JobSpec

-----------------------------------------------------------------------------
(* What one step does to one run row *)

SameLock(r) == runs'[r].lock = runs[r].lock /\ runs'[r].stale = runs[r].stale
SameStep(r) == runs'[r].step = runs[r].step

LEMMA RunRowStep ==
  ASSUME ExecTypeOK, [ExecNext]_execVars, NEW r \in Run
  PROVE  \/ SameLock(r) /\ SameStep(r)
         \/ \E m \in Node :
              /\ RunOf(m) = r
              /\ SameLock(r)
              /\ \/ AdvanceRun(m) /\ runs'[r].step = procs[m].step + 1
                 \/ FailRun(m) /\ runs'[r].step = procs[m].step
         \/ \E m \in Node :
              /\ RunOf(m) = r
              /\ SameStep(r)
              /\ \/ /\ AcquireLock(m)
                    /\ LockAvailable(r, Owner(m))
                    /\ runs'[r].lock = Owner(m)
                    /\ ~runs'[r].stale
                 \/ ReleaseLock(m) /\ runs[r].lock = Owner(m)
                 \/ BeginStep(m) /\ runs'[r].lock = runs[r].lock /\ ~runs'[r].stale
         \/ LockAges(r) /\ SameStep(r)
<1>0. runs \in [Run -> RunRow] /\ procs \in [Node -> Proc]
  BY DEF ExecTypeOK
<1> USE DEF SameLock, SameStep
<1>1. ASSUME NEW q \in Run, NEW s, runs' = [runs EXCEPT ![q].status = s]
      PROVE  SameLock(r) /\ SameStep(r)
  BY <1>0, <1>1 DEF RunRow
<1>2. ASSUME NEW q \in Run, q # r, NEW row, runs' = [runs EXCEPT ![q] = row]
      PROVE  SameLock(r) /\ SameStep(r)
  BY <1>0, <1>2
<1>3. ASSUME NEW m \in Node, AdvanceRun(m) \/ FailRun(m)
      PROVE  \/ SameLock(r) /\ SameStep(r)
             \/ /\ RunOf(m) = r
                /\ SameLock(r)
                /\ \/ AdvanceRun(m) /\ runs'[r].step = procs[m].step + 1
                   \/ FailRun(m) /\ runs'[r].step = procs[m].step
  <2>1. RunOf(m) \in Run
    BY <1>3, BusyFacts
    DEF AdvanceRun, FailRun, Busy, BusyPC, LeaseTimerPC, LockHolderPC
  <2>2. CASE RunOf(m) # r
    BY <1>2, <1>3, <2>1, <2>2 DEF AdvanceRun, FailRun
  <2>3. ASSUME RunOf(m) = r, NEW s, NEW i,
               runs' = [runs EXCEPT ![r] = [@ EXCEPT !.status = s, !.step = i]]
        PROVE  SameLock(r) /\ runs'[r].step = i
    <3> DEFINE row == [runs[r] EXCEPT !.status = s, !.step = i]
    <3>1. /\ row.lock = runs[r].lock
          /\ row.stale = runs[r].stale
          /\ row.step = i
      BY <1>0 DEF RunRow
    <3>2. runs'[r] = row
      BY <1>0, <2>3
    <3> HIDE DEF row
    <3> QED
      BY <3>1, <3>2
  <2>4. CASE RunOf(m) = r /\ AdvanceRun(m)
    BY <2>3, <2>4 DEF AdvanceRun
  <2>5. CASE RunOf(m) = r /\ FailRun(m)
    BY <2>3, <2>5 DEF FailRun
  <2> QED
    BY <1>3, <2>2, <2>4, <2>5
<1>4. ASSUME NEW m \in Node, AcquireLock(m) \/ ReleaseLock(m)
      PROVE  \/ SameLock(r) /\ SameStep(r)
             \/ /\ RunOf(m) = r
                /\ SameStep(r)
                /\ \/ /\ AcquireLock(m)
                      /\ LockAvailable(r, Owner(m))
                      /\ runs'[r].lock = Owner(m)
                      /\ ~runs'[r].stale
                   \/ ReleaseLock(m) /\ runs[r].lock = Owner(m)
  <2>1. RunOf(m) \in Run
    BY <1>4, BusyFacts
    DEF AcquireLock, ReleaseLock, Busy, BusyPC, LeaseTimerPC, LockHolderPC
  <2>2. CASE RunOf(m) # r
    BY <1>2, <1>4, <2>1, <2>2 DEF AcquireLock, ReleaseLock
  <2>3. ASSUME NEW o, runs' = [runs EXCEPT ![r] = [@ EXCEPT !.lock = o, !.stale = FALSE]]
        PROVE  SameStep(r) /\ runs'[r].lock = o /\ ~runs'[r].stale
    <3> DEFINE row == [runs[r] EXCEPT !.lock = o, !.stale = FALSE]
    <3>1. row.step = runs[r].step /\ row.lock = o /\ ~row.stale
      BY <1>0 DEF RunRow
    <3>2. runs'[r] = row
      BY <1>0, <2>3
    <3> HIDE DEF row
    <3> QED
      BY <3>1, <3>2
  <2>4. CASE RunOf(m) = r /\ AcquireLock(m)
    BY <2>3, <2>4 DEF AcquireLock
  <2>5. CASE RunOf(m) = r /\ ReleaseLock(m)
    BY <2>3, <2>5 DEF ReleaseLock
  <2> QED
    BY <1>4, <2>2, <2>4, <2>5
<1>5. ASSUME NEW q \in Run, NEW b, runs' = [runs EXCEPT ![q].stale = b]
      PROVE  \/ SameLock(r) /\ SameStep(r)
             \/ q = r /\ SameStep(r) /\ runs'[r].lock = runs[r].lock /\ runs'[r].stale = b
  BY <1>0, <1>5 DEF RunRow
<1>6. ASSUME NEW m \in Node, BeginStep(m)
      PROVE  \/ SameLock(r) /\ SameStep(r)
             \/ /\ RunOf(m) = r
                /\ SameStep(r)
                /\ runs'[r].lock = runs[r].lock
                /\ ~runs'[r].stale
  <2>1. RunOf(m) \in Run
    BY <1>6, BusyFacts DEF BeginStep, Busy, BusyPC, LeaseTimerPC, LockHolderPC
  <2> QED
    BY <1>5, <1>6, <2>1 DEF BeginStep
<1>7. ASSUME NEW q \in Run, LockAges(q)
      PROVE  \/ SameLock(r) /\ SameStep(r)
             \/ LockAges(r) /\ SameStep(r)
  BY <1>5, <1>7 DEF LockAges
<1>8. ASSUME NEW m \in Node, SetRunning(m) \/ MarkRunFailed(m)
      PROVE  SameLock(r) /\ SameStep(r)
  <2>1. RunOf(m) \in Run
    BY <1>8, BusyFacts
    DEF SetRunning, MarkRunFailed, Busy, BusyPC, LeaseTimerPC, LockHolderPC
  <2> QED
    BY <1>1, <1>8, <2>1 DEF SetRunning, MarkRunFailed
<1>9. ASSUME NEW c \in Client, RequestStep(c) PROVE SameLock(r) /\ SameStep(r)
  <2>1. ASSUME RequeueRun(c) PROVE clients[c].run \in Run
    BY <2>1 DEF RequeueRun, ExecTypeOK, Request
  <2> QED
    BY <1>1, <1>9, <2>1 DEF RequestStep, CreateRun, RequeueRun, EnqueueJob
<1>10. ASSUME NEW m \in Node,
              \/ StartProcess(m) \/ RenewLease(m) \/ KillProcess(m)
              \/ ShutdownWorker(m) \/ ExitWorker(m) \/ WaiterLooks(m)
              \/ WaiterLeaves(m) \/ WaiterSleeps(m) \/ ClaimJob(m) \/ BeginJob(m)
              \/ LoadRun(m) \/ EndLoop(m) \/ RunStep(m) \/ Throw(m)
              \/ CompleteJob(m) \/ CheckRun(m) \/ FailJob(m)
       PROVE  UNCHANGED runs
  BY <1>10 DEF StartProcess, RenewLease, KillProcess, ShutdownWorker, ExitWorker,
     WaiterLooks, WaiterLeaves, WaiterSleeps, ClaimJob, BeginJob, LoadRun, EndLoop,
     RunStep, Throw, CompleteJob, CheckRun, FailJob
<1>11. ASSUME \/ \E j \in Job : LeaseRunsOut(j)
              \/ \E c \in Client :
                   \/ PostRun(c) \/ RequestDies(c)
                   \/ \E q \in Run : PostResume(c, q)
              \/ UNCHANGED execVars
       PROVE  UNCHANGED runs
  BY <1>11 DEF LeaseRunsOut, PostRun, RequestDies, PostResume, execVars
<1>12. CASE UNCHANGED runs
  BY <1>12
<1>13. ASSUME NEW m \in Node, ProcessStep(m)
       PROVE  \/ AdvanceRun(m) \/ FailRun(m) \/ AcquireLock(m) \/ ReleaseLock(m)
              \/ BeginStep(m) \/ SetRunning(m) \/ MarkRunFailed(m)
              \/ UNCHANGED runs
  BY <1>10, <1>13 DEF ProcessStep
<1> HIDE DEF SameLock, SameStep
<1>14. CASE \E m \in Node : ProcessStep(m)
  BY <1>3, <1>4, <1>6, <1>8, <1>12, <1>13, <1>14
<1> QED
  BY <1>7, <1>9, <1>10, <1>11, <1>12, <1>14 DEF ExecNext

-----------------------------------------------------------------------------
(* What one step does to one process *)

\* A step of one process leaves every other process alone.
LEMMA OthersStay ==
  ASSUME ExecTypeOK, NEW m \in Node, NEW n \in Node, n # m,
         \/ StartProcess(m) \/ ProcessStep(m) \/ RenewLease(m)
         \/ KillProcess(m) \/ ShutdownWorker(m) \/ ExitWorker(m)
  PROVE  procs'[n] = procs[n]
<1>0. procs \in [Node -> Proc]
  BY DEF ExecTypeOK
<1>1. ASSUME NEW p, procs' = [procs EXCEPT ![m] = p] PROVE procs'[n] = procs[n]
  BY <1>0, <1>1
<1>2. ASSUME NEW pc, Goto(m, pc) \/ Drop(m, pc) PROVE procs'[n] = procs[n]
  BY <1>0, <1>2 DEF Goto, Drop
<1>3. CASE StartProcess(m) \/ ClaimJob(m) \/ SetRunning(m) \/ AdvanceRun(m)
           \/ KillProcess(m) \/ ExitWorker(m)
  BY <1>1, <1>3
  DEF StartProcess, ClaimJob, SetRunning, AdvanceRun, KillProcess, ExitWorker
<1>4. CASE RenewLease(m) \/ ShutdownWorker(m)
  BY <1>0, <1>4 DEF RenewLease, ShutdownWorker
<1>5. CASE WaiterLooks(m) \/ WaiterLeaves(m) \/ WaiterSleeps(m) \/ BeginJob(m)
           \/ LoadRun(m) \/ EndLoop(m) \/ RunStep(m) \/ Throw(m) \/ CompleteJob(m)
           \/ FailJob(m)
  BY <1>2, <1>5 DEF WaiterLooks, WaiterLeaves, WaiterSleeps, BeginJob, LoadRun,
     EndLoop, RunStep, Throw, CompleteJob, FailJob
<1>6. CASE AcquireLock(m) \/ BeginStep(m) \/ FailRun(m) \/ ReleaseLock(m)
           \/ CheckRun(m) \/ MarkRunFailed(m)
  BY <1>2, <1>6 DEF AcquireLock, BeginStep, FailRun, ReleaseLock, CheckRun, MarkRunFailed
<1> QED
  BY <1>3, <1>4, <1>5, <1>6 DEF ProcessStep

\* The places where the loop's local step index is in use.
SteppingPC == {"loop", "work", "advance", "fail"}

SameProc(n) ==
  /\ procs'[n].pc = procs[n].pc
  /\ procs'[n].pid = procs[n].pid
  /\ procs'[n].job = procs[n].job
  /\ procs'[n].step = procs[n].step

\* How a process comes to be inside executeLoop, and inside its loop.
EntersOrStays(n) ==
  /\ Busy(n)
  /\ procs'[n].pid = procs[n].pid
  /\ procs'[n].job = procs[n].job
  /\ ~ReleaseLock(n)
  /\ \/ Executing(n)
     \/ /\ AcquireLock(n)
        /\ LockAvailable(RunOf(n), Owner(n))
        /\ runs'[RunOf(n)].lock = Owner(n)
        /\ ~runs'[RunOf(n)].stale
  /\ procs'[n].pc \in SteppingPC =>
       \/ SetRunning(n) /\ procs'[n].step = runs[RunOf(n)].step
       \/ AdvanceRun(n) /\ procs'[n].step = procs[n].step + 1
       \/ procs[n].pc \in SteppingPC /\ procs'[n].step = procs[n].step /\ ~AdvanceRun(n)
  /\ procs'[n].pc \in SteppingPC => ~FailRun(n)

LEMMA OwnStep ==
  ASSUME ExecTypeOK, NEW n \in Node, ProcessStep(n), procs'[n].pc \in LockHolderPC
  PROVE  EntersOrStays(n)
<1>0. runs \in [Run -> RunRow] /\ procs \in [Node -> Proc]
  BY DEF ExecTypeOK
<1> USE DEF Busy, BusyPC, LeaseTimerPC, LockHolderPC, IdlePC, SteppingPC, Executing
<1>1. ASSUME NEW pc \in BusyPC \union IdlePC, Goto(n, pc)
      PROVE  /\ procs'[n].pc = pc
             /\ procs'[n].pid = procs[n].pid
             /\ procs'[n].job = procs[n].job
             /\ procs'[n].step = procs[n].step
  BY <1>0, <1>1, GotoFacts
<1>2. CASE LoadRun(n) \/ BeginJob(n) \/ CheckRun(n) \/ MarkRunFailed(n)
  <2>1. \/ \E pc \in {"settle", "lock", "load", "failjob", "failwrite"} : Goto(n, pc)
        \/ \E pc \in IdlePC : Drop(n, pc)
    BY <1>2 DEF LoadRun, BeginJob, CheckRun, MarkRunFailed, Home
  <2>2. procs'[n].pc \in {"settle", "lock", "load", "failjob", "failwrite"} \union IdlePC
    BY <1>0, <1>1, <2>1, DropFacts
  <2> QED
    BY <2>2
<1>3. CASE WaiterLooks(n) \/ WaiterLeaves(n) \/ WaiterSleeps(n) \/ CompleteJob(n)
           \/ FailJob(n) \/ ReleaseLock(n)
  <2>1. \/ \E pc \in {"settle", "failread"} \union IdlePC : Goto(n, pc)
        \/ \E pc \in IdlePC : Drop(n, pc)
    BY <1>3 DEF WaiterLooks, WaiterLeaves, WaiterSleeps, CompleteJob, FailJob,
       ReleaseLock, Home
  <2>2. procs'[n].pc \in {"settle", "failread"} \union IdlePC
    BY <1>0, <1>1, <2>1, DropFacts
  <2> QED
    BY <2>2
<1>4. CASE ClaimJob(n)
  <2> PICK j \in Job :
        procs' = [procs EXCEPT ![n] = [@ EXCEPT !.pc = "claimed", !.job = j]]
    BY <1>4 DEF ClaimJob
  <2> QED
    BY <1>0 DEF Proc
<1>5. CASE AcquireLock(n)
  <2>1. RunOf(n) \in Run
    BY <1>5, BusyFacts DEF AcquireLock
  <2>2. ~LockAvailable(RunOf(n), Owner(n)) => procs'[n].pc = "failread"
    BY <1>1, <1>5 DEF AcquireLock
  <2>3. LockAvailable(RunOf(n), Owner(n))
    BY <2>2
  <2>4. /\ runs' = [runs EXCEPT ![RunOf(n)] = [@ EXCEPT !.lock = Owner(n),
                                                        !.stale = FALSE]]
        /\ Goto(n, "prepare")
    BY <1>5, <2>3 DEF AcquireLock
  <2> DEFINE row == [runs[RunOf(n)] EXCEPT !.lock = Owner(n), !.stale = FALSE]
  <2>5. row.lock = Owner(n) /\ ~row.stale
    BY <1>0, <2>1 DEF RunRow
  <2>6. runs'[RunOf(n)] = row
    BY <1>0, <2>1, <2>4
  <2> HIDE DEF row
  <2>7. procs[n].pc = "lock" /\ ~ReleaseLock(n)
    BY <1>5 DEF AcquireLock, ReleaseLock
  <2> QED
    BY <1>1, <1>5, <2>3, <2>4, <2>5, <2>6, <2>7 DEF EntersOrStays
<1>6. CASE SetRunning(n)
  <2>1. runs[RunOf(n)].step \in 0..StepCount
    BY <1>0, <1>6, BusyFacts DEF SetRunning, RunRow
  <2>2. /\ procs'[n].pid = procs[n].pid
        /\ procs'[n].job = procs[n].job
        /\ procs'[n].step = runs[RunOf(n)].step
    <3> DEFINE i == runs[RunOf(n)].step
    <3> DEFINE p == [procs[n] EXCEPT !.pc = "loop", !.step = i]
    <3>1. procs' = [procs EXCEPT ![n] = p]
      BY <1>6 DEF SetRunning
    <3> HIDE DEF i
    <3>2. p.pid = procs[n].pid /\ p.job = procs[n].job /\ p.step = i
      BY <1>0 DEF Proc
    <3> HIDE DEF p
    <3> QED
      BY <1>0, <3>1, <3>2 DEF i
  <2>3. procs[n].pc = "prepare" /\ ~ReleaseLock(n) /\ ~FailRun(n)
    BY <1>6 DEF SetRunning, ReleaseLock, FailRun
  <2> QED
    BY <1>6, <2>2, <2>3 DEF EntersOrStays
<1>7. CASE AdvanceRun(n)
  <2>1. procs[n].step \in 0..StepCount /\ procs[n].step < StepCount
    BY <1>0, <1>7 DEF ExecTypeOK, Proc, AdvanceRun
  <2>2. procs[n].step + 1 \in 0..StepCount
    BY <2>1, RunExecutionAssumption
  <2>3. /\ procs'[n].pid = procs[n].pid
        /\ procs'[n].job = procs[n].job
        /\ procs'[n].step = procs[n].step + 1
    BY <1>0, <1>7, <2>2, StepFacts DEF AdvanceRun
  <2>4. procs[n].pc = "advance" /\ ~ReleaseLock(n) /\ ~FailRun(n)
    BY <1>7 DEF AdvanceRun, ReleaseLock, FailRun
  <2> QED
    BY <1>7, <2>3, <2>4 DEF EntersOrStays
<1>8. CASE BeginStep(n) \/ EndLoop(n) \/ RunStep(n) \/ Throw(n)
  <2>1. /\ procs[n].pc \in {"prepare", "loop", "work", "advance", "fail", "load",
                            "lock", "settle"}
        /\ \E pc \in BusyPC :
             /\ Goto(n, pc)
             /\ pc \in LockHolderPC => procs[n].pc \in LockHolderPC
             /\ pc \in SteppingPC => procs[n].pc \in {"loop", "work"}
    BY <1>8 DEF BeginStep, EndLoop, RunStep, Throw
  <2>2. ~ReleaseLock(n)
    BY <2>1 DEF ReleaseLock
  <2>3. procs[n].pc \in {"loop", "work"} => ~AdvanceRun(n) /\ ~FailRun(n)
    BY DEF AdvanceRun, FailRun
  <2>4. PICK pc \in BusyPC :
             /\ Goto(n, pc)
             /\ pc \in LockHolderPC => procs[n].pc \in LockHolderPC
             /\ pc \in SteppingPC => procs[n].pc \in {"loop", "work"}
    BY <2>1
  <2>5. /\ procs'[n].pc = pc
        /\ procs'[n].pid = procs[n].pid
        /\ procs'[n].job = procs[n].job
        /\ procs'[n].step = procs[n].step
    BY <1>1, <2>4
  <2> QED
    BY <2>2, <2>3, <2>4, <2>5 DEF EntersOrStays
<1>9. CASE FailRun(n)
  <2>1. procs[n].pc = "fail" /\ Goto(n, "release")
    BY <1>9 DEF FailRun
  <2>2. ~ReleaseLock(n)
    BY <2>1 DEF ReleaseLock
  <2> QED
    BY <1>1, <2>1, <2>2 DEF EntersOrStays
<1> HIDE DEF Busy, BusyPC, LeaseTimerPC, LockHolderPC, IdlePC, SteppingPC, Executing
<1> QED
  BY <1>2, <1>3, <1>4, <1>5, <1>6, <1>7, <1>8, <1>9 DEF ProcessStep

LEMMA NotOwnStep ==
  ASSUME ExecTypeOK, [ExecNext]_execVars, NEW n \in Node, ~ProcessStep(n),
         procs'[n].pc \in LockHolderPC
  PROVE  SameProc(n)
<1>0. procs \in [Node -> Proc]
  BY DEF ExecTypeOK
<1>1. ASSUME procs'[n] = procs[n] PROVE SameProc(n)
  BY <1>1 DEF SameProc
<1>2. ASSUME NEW p \in Proc, p.pc \in IdlePC, procs' = [procs EXCEPT ![n] = p]
      PROVE  FALSE
  BY <1>0, <1>2 DEF LockHolderPC, IdlePC
<1>3. ~StartProcess(n)
  <2> SUFFICES ASSUME StartProcess(n) PROVE FALSE
    OBVIOUS
  <2> PICK pid \in Pid :
        procs' = [procs EXCEPT ![n] = [pc |-> Home(n), pid |-> pid, job |-> NoJob,
                                       step |-> 0, stopping |-> FALSE]]
    BY DEF StartProcess
  <2>1. procs'[n].pc = Home(n)
    BY <1>0
  <2> QED
    BY <2>1 DEF Home, LockHolderPC
<1>4. ~KillProcess(n) /\ ~ExitWorker(n)
  <2> SUFFICES ASSUME KillProcess(n) \/ ExitWorker(n) PROVE FALSE
    OBVIOUS
  <2> DEFINE p == [procs[n] EXCEPT !.pc = "down", !.job = NoJob, !.step = 0,
                                   !.stopping = FALSE]
  <2>1. procs' = [procs EXCEPT ![n] = p]
    BY DEF KillProcess, ExitWorker
  <2>2. p.pc = "down"
    BY <1>0 DEF Proc
  <2> HIDE DEF p
  <2>3. procs'[n].pc = "down"
    BY <1>0, <2>1, <2>2
  <2> QED
    BY <2>3 DEF LockHolderPC
<1>5. ASSUME ShutdownWorker(n) PROVE SameProc(n)
  <2> DEFINE p == [procs[n] EXCEPT !.stopping = TRUE]
  <2>1. procs' = [procs EXCEPT ![n] = p]
    BY <1>5 DEF ShutdownWorker
  <2>2. /\ p.pc = procs[n].pc
        /\ p.pid = procs[n].pid
        /\ p.job = procs[n].job
        /\ p.step = procs[n].step
    BY <1>0 DEF Proc
  <2> HIDE DEF p
  <2> QED
    BY <1>0, <2>1, <2>2 DEF SameProc
<1>6. ASSUME RenewLease(n) PROVE SameProc(n)
  BY <1>1, <1>6 DEF RenewLease
<1>7. ASSUME NEW m \in Node, m # n,
             \/ StartProcess(m) \/ ProcessStep(m) \/ RenewLease(m)
             \/ KillProcess(m) \/ ShutdownWorker(m) \/ ExitWorker(m)
      PROVE  SameProc(n)
  BY <1>1, <1>7, OthersStay
<1>8. ASSUME \/ \E j \in Job : LeaseRunsOut(j)
             \/ \E r \in Run : LockAges(r)
             \/ \E c \in Client :
                  \/ PostRun(c) \/ RequestStep(c) \/ RequestDies(c)
                  \/ \E r \in Run : PostResume(c, r)
             \/ UNCHANGED execVars
      PROVE  SameProc(n)
  BY <1>1, <1>8 DEF LeaseRunsOut, LockAges, PostRun, CreateRun, PostResume,
     RequestStep, RequeueRun, EnqueueJob, RequestDies, execVars
<1> QED
  BY <1>3, <1>4, <1>5, <1>6, <1>7, <1>8 DEF ExecNext

\* While a process is inside executeLoop its job, its run and its name stay.
LEMMA ExecutorStays ==
  ASSUME ExecTypeOK, [ExecNext]_execVars, NEW n \in Node, Executing(n)'
  PROVE  /\ Busy(n)
         /\ RunOf(n)' = RunOf(n)
         /\ Owner(n)' = Owner(n)
         /\ EntersOrStays(n) \/ (~ProcessStep(n) /\ Executing(n) /\ SameProc(n))
<1>1. procs'[n].pc \in LockHolderPC
  BY DEF Executing
<1>2. \/ EntersOrStays(n)
      \/ ~ProcessStep(n) /\ Executing(n) /\ SameProc(n)
  BY <1>1, OwnStep, NotOwnStep DEF Executing, SameProc
<1>3. /\ Busy(n)
      /\ procs'[n].pid = procs[n].pid
      /\ procs'[n].job = procs[n].job
  BY <1>2 DEF EntersOrStays, SameProc, Executing, Busy, BusyPC, LeaseTimerPC
<1>4. jobs'[procs[n].job].run = jobs[procs[n].job].run
  BY <1>3, BusyFacts, QueueStep, StoredRowStays DEF ExecTypeOK
<1> QED
  BY <1>2, <1>3, <1>4 DEF RunOf, Owner

-----------------------------------------------------------------------------
(* Exclusive execution, when no step outlasts the lock's staleness limit *)

LEMMA OwnersDiffer ==
  ASSUME NEW m, NEW n, m # n
  PROVE  Owner(m) # Owner(n)
BY DEF Owner

\* The lock tells the executors of a run apart, so there is at most one.
LEMMA LockExcludes == ExecTypeOK /\ HolderOwnsLock => ExclusiveExecution
BY OwnersDiffer DEF HolderOwnsLock, ExclusiveExecution

LEMMA HolderOwnsLockStep ==
  ASSUME ExecTypeOK, HolderOwnsLock, [ExecNext]_execVars, "slow_step" \notin Faults
  PROVE  HolderOwnsLock'
<1> SUFFICES ASSUME NEW n \in Node, Executing(n)'
             PROVE  /\ runs'[RunOf(n)].lock = Owner(n)
                    /\ ~runs'[RunOf(n)].stale
  BY ExecutorStays DEF HolderOwnsLock
<1> DEFINE r == RunOf(n)
<1>1. /\ r \in Run
      /\ Owner(n) \in LockOwner
      /\ Owner(n) # NoOwner
      /\ EntersOrStays(n) \/ (~ProcessStep(n) /\ Executing(n) /\ SameProc(n))
  BY ExecutorStays, BusyFacts, RunExecutionAssumption
<1> HIDE DEF r
<1>2. CASE EntersOrStays(n) /\ ~Executing(n)
  BY <1>2 DEF EntersOrStays, r
<1>3. CASE Executing(n)
  <2>1. runs[r].lock = Owner(n) /\ ~runs[r].stale
    BY <1>3 DEF HolderOwnsLock, r
  <2>2. ~LockAges(r)
    BY <1>3, <2>1 DEF LockAges
  <2>3. ~ReleaseLock(n)
    BY <1>1 DEF EntersOrStays, ProcessStep
  <2>4. ASSUME NEW m \in Node, LockAvailable(r, Owner(m)) PROVE m = n
    BY <1>1, <2>1, <2>4, OwnersDiffer DEF LockAvailable
  <2>5. ASSUME NEW m \in Node, runs[r].lock = Owner(m) PROVE m = n
    BY <2>1, <2>5, OwnersDiffer
  <2>6. CASE SameLock(r)
    BY <2>1, <2>6 DEF SameLock, r
  <2>7. CASE \E m \in Node : \/ /\ AcquireLock(m)
                                /\ LockAvailable(r, Owner(m))
                                /\ runs'[r].lock = Owner(m)
                                /\ ~runs'[r].stale
                             \/ ReleaseLock(m) /\ runs[r].lock = Owner(m)
                             \/ runs'[r].lock = runs[r].lock /\ ~runs'[r].stale
    BY <2>1, <2>3, <2>4, <2>5, <2>7 DEF r
  <2> QED
    BY <1>1, <2>2, <2>6, <2>7, RunRowStep
<1> QED
  BY <1>1, <1>2, <1>3

LEMMA StepInSyncStep ==
  ASSUME ExecTypeOK, HolderOwnsLock, StepInSync, [ExecNext]_execVars
  PROVE  StepInSync'
<1> SUFFICES ASSUME NEW n \in Node, procs'[n].pc \in SteppingPC
             PROVE  procs'[n].step = runs'[RunOf(n)].step
  <2>1. ASSUME NEW n \in Node, procs'[n].pc \in SteppingPC
        PROVE  RunOf(n)' = RunOf(n)
    BY <2>1, ExecutorStays DEF Executing, SteppingPC, LockHolderPC
  <2> QED
    BY <2>1 DEF StepInSync, SteppingPC
<1> DEFINE r == RunOf(n)
<1>1. /\ r \in Run
      /\ EntersOrStays(n) \/ (~ProcessStep(n) /\ Executing(n) /\ SameProc(n))
  BY ExecutorStays, BusyFacts DEF Executing, SteppingPC, LockHolderPC
<1>2. /\ Executing(n)
      /\ \/ SetRunning(n) /\ procs'[n].step = runs[r].step
         \/ AdvanceRun(n) /\ procs'[n].step = procs[n].step + 1
         \/ procs[n].pc \in SteppingPC /\ procs'[n].step = procs[n].step /\ ~AdvanceRun(n)
      /\ ~FailRun(n)
  <2>1. CASE ~ProcessStep(n) /\ Executing(n) /\ SameProc(n)
    BY <2>1 DEF SameProc, ProcessStep
  <2>2. CASE EntersOrStays(n)
    BY <2>2 DEF EntersOrStays, SetRunning, AdvanceRun, Executing, SteppingPC, LockHolderPC
  <2> QED
    BY <1>1, <2>1, <2>2
<1>3. procs[n].pc \in SteppingPC => procs[n].step = runs[r].step
  BY DEF StepInSync, SteppingPC
<1>4. ASSUME NEW m \in Node, RunOf(m) = r, AdvanceRun(m) \/ FailRun(m) PROVE m = n
  <2>1. Executing(m)
    BY <1>4 DEF AdvanceRun, FailRun, Executing, LockHolderPC
  <2> QED
    BY <1>2, <1>4, <2>1, LockExcludes DEF ExclusiveExecution, r
<1>5. \/ SameStep(r)
      \/ AdvanceRun(n) /\ runs'[r].step = procs[n].step + 1
  <2>1. \/ SameStep(r)
        \/ \E m \in Node : /\ RunOf(m) = r
                           /\ \/ AdvanceRun(m) /\ runs'[r].step = procs[m].step + 1
                              \/ FailRun(m)
    BY <1>1, RunRowStep
  <2> QED
    BY <1>2, <1>4, <2>1
<1>6. CASE AdvanceRun(n)
  <2>1. procs[n].pc = "advance" /\ ~SetRunning(n)
    BY <1>6 DEF AdvanceRun, SetRunning
  <2>2. procs'[n].step = procs[n].step + 1
    BY <1>2, <1>6, <2>1
  <2> DEFINE s == IF procs[n].step + 1 >= StepCount THEN "complete" ELSE "running"
  <2> DEFINE row == [runs[r] EXCEPT !.status = s, !.step = procs[n].step + 1]
  <2>3. runs' = [runs EXCEPT ![r] = row]
    BY <1>6 DEF AdvanceRun
  <2>4. runs \in [Run -> RunRow]
    BY DEF ExecTypeOK
  <2> HIDE DEF s, r
  <2>5. row.step = procs[n].step + 1
    BY <1>1, <2>4 DEF RunRow
  <2> HIDE DEF row
  <2> QED
    BY <1>1, <2>2, <2>3, <2>4, <2>5 DEF r
<1>7. CASE ~AdvanceRun(n)
  BY <1>2, <1>3, <1>5, <1>7 DEF SameStep, r
<1> QED
  BY <1>6, <1>7

LEMMA ExecInvInit == ExecInit => HolderOwnsLock /\ StepInSync
<1> SUFFICES ASSUME ExecInit, NEW n \in Node
             PROVE  procs[n].pc = "down"
  BY DEF HolderOwnsLock, StepInSync, Executing, LockHolderPC
<1> DEFINE Down == {[pc |-> "down", pid |-> pid, job |-> NoJob, step |-> 0,
                     stopping |-> FALSE] : pid \in Pid}
<1>1. procs[n] \in Down
  BY DEF ExecInit
<1> QED
  BY <1>1

\* A process inside executeLoop owns a fresh lock on its run, at all times, as
\* long as no step takes longer than the lock's staleness limit: the lock is
\* refreshed before every step and nobody else can take or release it.
THEOREM HolderAlwaysOwnsLock ==
  ASSUME "slow_step" \notin Faults
  PROVE  ExecSpec => []HolderOwnsLock
<1>1. ExecInit => HolderOwnsLock
  BY ExecInvInit
<1>2. ExecTypeOK /\ HolderOwnsLock /\ [ExecNext]_execVars => HolderOwnsLock'
  BY HolderOwnsLockStep
<1> QED
  BY <1>1, <1>2, ExecTypeCorrect, PTL DEF ExecSpec

\* Two processes never execute the same run at the same time, for any number
\* of workers, waiters, requests and jobs, whatever happens to the leases.
THEOREM RunsExecuteExclusively ==
  ASSUME "slow_step" \notin Faults
  PROVE  ExecSpec => []ExclusiveExecution
BY HolderAlwaysOwnsLock, ExecTypeCorrect, LockExcludes, PTL

\* The step index an executor keeps across its awaits is the recorded one.
THEOREM StepAlwaysInSync ==
  ASSUME "slow_step" \notin Faults
  PROVE  ExecSpec => []StepInSync
<1>1. ExecInit => StepInSync
  BY ExecInvInit
<1>2. ExecTypeOK /\ HolderOwnsLock /\ StepInSync /\ [ExecNext]_execVars => StepInSync'
  BY StepInSyncStep
<1> QED
  BY <1>1, <1>2, ExecTypeCorrect, HolderAlwaysOwnsLock, PTL DEF ExecSpec

\* Types, the invariant of the queue, ownership of the lock and the step index
\* together, as the run checks them.
THEOREM ExecutionInvariant ==
  ASSUME "slow_step" \notin Faults
  PROVE  ExecSpec => []ExecInv
<1>1. ExecSpec => []JobInv
  BY ExecUsesQueue, JobInvariant, PTL
<1> QED
  BY <1>1, ExecTypeCorrect, HolderAlwaysOwnsLock, StepAlwaysInSync, PTL DEF ExecInv

LEMMA ProgressStep ==
  ASSUME ExecTypeOK, StepInSync, [ExecNext]_execVars
  PROVE  ProgressForward
<1> SUFFICES ASSUME NEW r \in Run PROVE runs'[r].step >= runs[r].step
  BY DEF ProgressForward
<1>1. runs[r].step \in Nat
  <2>1. runs[r].step \in 0..StepCount
    BY DEF ExecTypeOK, RunRow
  <2> QED
    BY <2>1, RunExecutionAssumption
<1>2. CASE SameStep(r)
  BY <1>1, <1>2 DEF SameStep
<1>3. ASSUME NEW m \in Node, RunOf(m) = r,
             \/ AdvanceRun(m) /\ runs'[r].step = procs[m].step + 1
             \/ FailRun(m) /\ runs'[r].step = procs[m].step
      PROVE  runs'[r].step >= runs[r].step
  <2>1. procs[m].step = runs[r].step
    BY <1>3 DEF StepInSync, AdvanceRun, FailRun
  <2> QED
    BY <1>1, <1>3, <2>1
<1> QED
  BY <1>2, <1>3, RunRowStep

\* A run's recorded progress never goes back.
THEOREM ProgressIsKept ==
  ASSUME "slow_step" \notin Faults
  PROVE  ExecSpec => ProgressNeverRewinds
<1>1. ExecTypeOK /\ StepInSync /\ [ExecNext]_execVars => [ProgressForward]_execVars
  BY ProgressStep
<1> QED
  BY <1>1, ExecTypeCorrect, StepAlwaysInSync, PTL DEF ExecSpec, ProgressNeverRewinds

-----------------------------------------------------------------------------
(* A run is executed as if by one process after another *)

\* A process that a step leaves as it is stays inside executeLoop with its run, or
\* outside.
LEMMA ExecutorsStay ==
  ASSUME ExecTypeOK, [ExecNext]_execVars, NEW n \in Node, procs'[n] = procs[n]
  PROVE  /\ Executing(n)' <=> Executing(n)
         /\ Executing(n) => RunOf(n)' = RunOf(n)
<1>1. Executing(n)' <=> Executing(n)
  BY DEF Executing
<1> QED
  BY <1>1, ExecutorStays

\* At most one process acts.
LEMMA OneActs ==
  ASSUME ExecTypeOK, [ExecNext]_execVars
  PROVE  \/ \A n \in Node : procs'[n] = procs[n]
         \/ \E m \in Node : \A n \in Node : n # m => procs'[n] = procs[n]
<1>1. ASSUME NEW m \in Node,
             \/ StartProcess(m) \/ ProcessStep(m) \/ RenewLease(m)
             \/ KillProcess(m) \/ ShutdownWorker(m) \/ ExitWorker(m)
      PROVE  \A n \in Node : n # m => procs'[n] = procs[n]
  BY <1>1, OthersStay
<1>2. ASSUME \/ \E j \in Job : LeaseRunsOut(j)
             \/ \E r \in Run : LockAges(r)
             \/ \E c \in Client :
                  \/ PostRun(c) \/ RequestStep(c) \/ RequestDies(c)
                  \/ \E r \in Run : PostResume(c, r)
             \/ UNCHANGED execVars
      PROVE  UNCHANGED procs
  BY <1>2 DEF LeaseRunsOut, LockAges, PostRun, CreateRun, PostResume, RequestStep,
     RequeueRun, EnqueueJob, RequestDies, execVars
<1> QED
  BY <1>1, <1>2 DEF ExecNext

\* The recorded steps: one run's are one more, by its executor, or all are the same.
LEMMA RecordedSteps ==
  ASSUME ExecTypeOK, StepInSync, [ExecNext]_execVars
  PROVE  \/ \A r \in Run : SameStep(r)
         \/ \E m \in Node :
              /\ AdvanceRun(m) /\ RunOf(m) \in Run /\ runs[RunOf(m)].step < StepCount
              /\ runs'[RunOf(m)].step = runs[RunOf(m)].step + 1
              /\ \A q \in Run : q # RunOf(m) => SameStep(q)
<1>1. ASSUME NEW m \in Node, AdvanceRun(m)
      PROVE  /\ RunOf(m) \in Run /\ runs[RunOf(m)].step < StepCount
             /\ runs'[RunOf(m)].step = runs[RunOf(m)].step + 1
             /\ \A q \in Run : q # RunOf(m) => SameStep(q)
  <2> DEFINE r == RunOf(m)
  <2>1. procs[m].pc = "advance" /\ r \in Run
    BY <1>1, BusyFacts DEF AdvanceRun, Busy, BusyPC, LeaseTimerPC, LockHolderPC
  <2>2. procs[m].step = runs[r].step /\ procs[m].step < StepCount
    BY <2>1 DEF StepInSync, ExecTypeOK
  <2> DEFINE s == IF procs[m].step + 1 >= StepCount THEN "complete" ELSE "running"
  <2> DEFINE row == [runs[r] EXCEPT !.status = s, !.step = procs[m].step + 1]
  <2>3. runs' = [runs EXCEPT ![r] = row]
    BY <1>1 DEF AdvanceRun
  <2>4. runs \in [Run -> RunRow]
    BY DEF ExecTypeOK
  <2> HIDE DEF s, r
  <2>5. row.step = procs[m].step + 1
    BY <2>1, <2>4 DEF RunRow
  <2> HIDE DEF row
  <2>6. runs'[r].step = runs[r].step + 1 /\ \A q \in Run : q # r => SameStep(q)
    BY <2>1, <2>2, <2>3, <2>4, <2>5 DEF SameStep
  <2> QED
    BY <2>1, <2>2, <2>6 DEF r
<1>2. ASSUME \A m \in Node : ~AdvanceRun(m), NEW r \in Run PROVE SameStep(r)
  <2>1. ASSUME NEW m \in Node, RunOf(m) = r, FailRun(m), runs'[r].step = procs[m].step
        PROVE  SameStep(r)
    BY <2>1 DEF FailRun, StepInSync, SameStep
  <2> QED
    BY <1>2, <2>1, RunRowStep
<1> QED
  BY <1>1, <1>2

\* Every step takes a run that nobody executes, records the next step, leaves a run,
\* or does none of this.
LEMMA SerialStep ==
  ASSUME ExecTypeOK, HolderOwnsLock, StepInSync, [ExecNext]_execVars
  PROVE  [Serial!Next]_(Serial!serialVars)
<1> DEFINE executors == [r \in Run |-> Executors(r)]
           done == [r \in Run |-> runs[r].step]
<1>1. ASSUME NEW m \in Node, \A n \in Node : n # m => procs'[n] = procs[n], NEW r \in Run
      PROVE  \A n \in Node : n # m => (n \in Executors(r)' <=> n \in Executors(r))
  <2>1. ASSUME NEW n \in Node, n # m PROVE n \in Executors(r)' <=> n \in Executors(r)
    BY <1>1, <2>1, ExecutorsStay DEF Executors
  <2> QED
    BY <2>1
<1>2. ASSUME NEW m \in Node, \A n \in Node : n # m => procs'[n] = procs[n],
             Executing(m) <=> Executing(m)'
      PROVE  UNCHANGED executors
  <2>1. ASSUME NEW r \in Run PROVE Executors(r)' = Executors(r)
    <3>1. m \in Executors(r)' <=> m \in Executors(r)
      BY <1>2, ExecutorStays DEF Executors
    <3>2. \A n \in Node : n \in Executors(r)' <=> n \in Executors(r)
      BY <1>1, <1>2, <3>1
    <3>3. Executors(r)' \subseteq Node /\ Executors(r) \subseteq Node
      BY DEF Executors
    <3> QED
      BY <3>2, <3>3
  <2> QED
    BY <2>1
<1>3. CASE \E m \in Node :
              /\ AdvanceRun(m) /\ RunOf(m) \in Run /\ runs[RunOf(m)].step < StepCount
              /\ runs'[RunOf(m)].step = runs[RunOf(m)].step + 1
              /\ \A q \in Run : q # RunOf(m) => SameStep(q)
  <2> PICK m \in Node :
              /\ AdvanceRun(m) /\ RunOf(m) \in Run /\ runs[RunOf(m)].step < StepCount
              /\ runs'[RunOf(m)].step = runs[RunOf(m)].step + 1
              /\ \A q \in Run : q # RunOf(m) => SameStep(q)
    BY <1>3
  <2>1. ProcessStep(m)
    BY DEF ProcessStep
  <2>2. \A n \in Node : n # m => procs'[n] = procs[n]
    BY <2>1, OthersStay
  <2>3. Executing(m) /\ Executing(m)'
    <3>1. procs[m].pc = "advance"
      BY DEF AdvanceRun
    <3>2. procs'[m].pc = "loop"
      <4>1. procs \in [Node -> Proc] /\ m \in Node
        BY DEF ExecTypeOK
      <4>2. procs[m] \in Proc
        BY <4>1
      <4>3. \E v \in 0..StepCount + 1 :
               procs' = [procs EXCEPT ![m] = [procs[m] EXCEPT !.pc = "loop", !.step = v]]
        <5>1. procs[m].step + 1 \in 0..StepCount + 1
          BY <4>2, RunExecutionAssumption DEF Proc
        <5> QED
          BY <5>1 DEF AdvanceRun
      <4> HIDE DEF Proc
      <4>4. procs'[m].pc = [procs[m] EXCEPT !.pc = "loop"].pc
        BY <4>1, <4>2, <4>3, SMTT(40) DEF Proc
      <4> QED
        BY <4>2, <4>4 DEF Proc
    <3> QED
      BY <3>1, <3>2 DEF Executing, LockHolderPC
  <2>4. UNCHANGED executors
    BY <1>2, <2>2, <2>3
  <2> PICK r \in Run : r = RunOf(m)
    OBVIOUS
  <2>5. executors[r] # {} /\ done[r] < StepCount
    BY <2>3 DEF Executors
  <2>6. done' = [done EXCEPT ![r] = @ + 1]
    <3>1. \A q \in Run : runs'[q].step = IF q = r THEN runs[q].step + 1 ELSE runs[q].step
      BY DEF SameStep
    <3> QED
      BY <3>1
  <2> HIDE DEF executors, done
  <2>8. Serial!Record(r)
    BY <2>4, <2>5, <2>6 DEF Serial!Record, executors, done
  <2> QED
    BY <2>8 DEF Serial!Next
<1>4. CASE \A r \in Run : SameStep(r)
  <2>0. UNCHANGED done
    BY <1>4 DEF SameStep
  <2>1. CASE \A n \in Node : procs'[n] = procs[n]
    <3>1. ASSUME NEW r \in Run PROVE Executors(r)' = Executors(r)
      <4>1. \A n \in Node : n \in Executors(r)' <=> n \in Executors(r)
        BY <2>1, ExecutorsStay DEF Executors
      <4>2. Executors(r)' \subseteq Node /\ Executors(r) \subseteq Node
        BY DEF Executors
      <4> QED
        BY <4>1, <4>2
    <3>2. UNCHANGED executors
      BY <3>1
    <3> QED
      BY <2>0, <3>2 DEF Serial!serialVars
  <2>2. ASSUME NEW m \in Node, \A n \in Node : n # m => procs'[n] = procs[n]
        PROVE  [Serial!Next]_(Serial!serialVars)
    <3>1. CASE Executing(m) <=> Executing(m)'
      <4>1. UNCHANGED executors
        BY <1>2, <2>2, <3>1
      <4> QED
        BY <2>0, <4>1 DEF Serial!serialVars
    <3>2. CASE ~Executing(m) /\ Executing(m)'
      <4>0. /\ RunOf(m) \in Run /\ RunOf(m)' = RunOf(m) /\ Owner(m) # NoOwner
            /\ LockAvailable(RunOf(m), Owner(m))
        BY <3>2, ExecutorStays, BusyFacts, RunExecutionAssumption DEF EntersOrStays
      <4> PICK r \in Run : r = RunOf(m)
        BY <4>0
      <4>1. RunOf(m)' = r /\ Owner(m) # NoOwner /\ LockAvailable(r, Owner(m))
        BY <4>0
      <4>2. Executors(r) = {}
        <5>1. ASSUME NEW n \in Executors(r) PROVE FALSE
          <6>1. n \in Node /\ Executing(n) /\ RunOf(n) = r
            BY <5>1 DEF Executors
          <6>2. runs[r].lock = Owner(n) /\ ~runs[r].stale
            BY <6>1 DEF HolderOwnsLock
          <6>3. Owner(n) # NoOwner
            BY <6>1, BusyFacts, RunExecutionAssumption DEF Busy, BusyPC, LeaseTimerPC, Executing
          <6>4. Owner(n) = Owner(m)
            BY <4>1, <6>2, <6>3 DEF LockAvailable
          <6> QED
            BY <3>2, <6>1, <6>4, OwnersDiffer
        <5> QED
          BY <5>1
      <4>3. \A q \in Run : m \notin Executors(q)
        BY <3>2 DEF Executors
      <4>4. \A q \in Run : Executors(q)' = IF q = r THEN {m} ELSE Executors(q)
        <5>1. ASSUME NEW q \in Run PROVE Executors(q)' = IF q = r THEN {m} ELSE Executors(q)
          <6>1. m \in Executors(q)' <=> q = r
            BY <3>2, <4>1 DEF Executors
          <6>2. \A n \in Node : n # m => (n \in Executors(q)' <=> n \in Executors(q))
            BY <1>1, <2>2
          <6>3. Executors(q)' \subseteq Node /\ Executors(q) \subseteq Node
            BY DEF Executors
          <6> QED
            BY <4>2, <4>3, <6>1, <6>2, <6>3
        <5> QED
          BY <5>1
      <4>5. /\ executors[r] = {} /\ \A q \in Run : m \notin executors[q]
            /\ executors' = [executors EXCEPT ![r] = {m}]
        BY <4>1, <4>2, <4>3, <4>4
      <4> HIDE DEF executors, done
      <4>6. Serial!Take(r, m)
        BY <2>0, <4>5 DEF Serial!Take, executors, done
      <4> QED
        BY <4>6 DEF Serial!Next
    <3>3. CASE Executing(m) /\ ~Executing(m)'
      <4>1. RunOf(m) \in Run
        BY <3>3, BusyFacts DEF Busy, BusyPC, LeaseTimerPC, Executing
      <4> PICK r \in Run : r = RunOf(m)
        BY <4>1
      <4>2. Executors(r) = {m}
        BY <3>3, LockExcludes DEF Executors, ExclusiveExecution
      <4>3. \A q \in Run : Executors(q)' = IF q = r THEN {} ELSE Executors(q)
        <5>1. ASSUME NEW q \in Run PROVE Executors(q)' = IF q = r THEN {} ELSE Executors(q)
          <6>1. m \notin Executors(q)' /\ (m \in Executors(q) => q = r)
            BY <3>3 DEF Executors
          <6>2. \A n \in Node : n # m => (n \in Executors(q)' <=> n \in Executors(q))
            BY <1>1, <2>2
          <6>3. Executors(q)' \subseteq Node /\ Executors(q) \subseteq Node
            BY DEF Executors
          <6> QED
            BY <4>2, <6>1, <6>2, <6>3
        <5> QED
          BY <5>1
      <4>4. executors[r] # {} /\ executors' = [executors EXCEPT ![r] = {}]
        BY <4>1, <4>2, <4>3
      <4> HIDE DEF executors, done
      <4>5. Serial!Leave(r)
        BY <2>0, <4>4 DEF Serial!Leave, executors, done
      <4> QED
        BY <4>5 DEF Serial!Next
    <3> QED
      BY <3>1, <3>2, <3>3
  <2> QED
    BY <2>1, <2>2, OneActs
<1> QED
  BY <1>3, <1>4, RecordedSteps

\* The queue, the lock and the programs implement a serial run: one executor after
\* another, each recording the next step of the plan, for any number of processes,
\* jobs, stops and resumes, and whatever happens to the leases.
THEOREM ExecutionIsSerial ==
  ASSUME "slow_step" \notin Faults
  PROVE  ExecSpec => ImplementsSerialRun
<1>1. ExecInit => Serial!Init
  <2> SUFFICES ASSUME ExecInit PROVE Serial!Init
    OBVIOUS
  <2>1. \A n \in Node : ~Executing(n)
    <3> SUFFICES ASSUME NEW n \in Node PROVE procs[n].pc = "down"
      BY DEF Executing, LockHolderPC
    <3> DEFINE Down == {[pc |-> "down", pid |-> pid, job |-> NoJob, step |-> 0,
                         stopping |-> FALSE] : pid \in Pid}
    <3>1. procs[n] \in Down
      BY DEF ExecInit
    <3> QED
      BY <3>1
  <2>2. \A r \in Run : Executors(r) = {} /\ runs[r].step = 0
    BY <2>1 DEF Executors, ExecInit
  <2> QED
    BY <2>2 DEF Serial!Init
<1>2. ExecTypeOK /\ HolderOwnsLock /\ StepInSync /\ [ExecNext]_execVars
        => [Serial!Next]_(Serial!serialVars)
  BY SerialStep
<1> QED
  BY <1>1, <1>2, ExecTypeCorrect, HolderAlwaysOwnsLock, StepAlwaysInSync, PTL
  DEF ExecSpec, ImplementsSerialRun, Serial!Spec

-----------------------------------------------------------------------------
(* The lock when steps may take any time *)

LEMMA LockKeptStep ==
  ASSUME ExecTypeOK, [ExecNext]_execVars
  PROVE  LockKept
<1> SUFFICES ASSUME NEW n \in Node,
                    Executing(n),
                    runs[RunOf(n)].lock = Owner(n),
                    ~runs[RunOf(n)].stale,
                    procs'[n].pc \in LockHolderPC
             PROVE  runs'[RunOf(n)].lock = Owner(n)
  BY DEF LockKept
<1> DEFINE r == RunOf(n)
<1>1. r \in Run /\ Owner(n) # NoOwner
  BY BusyFacts, RunExecutionAssumption DEF Executing, Busy, BusyPC, LeaseTimerPC
<1> HIDE DEF r
<1>2. ~ReleaseLock(n)
  BY OwnStep DEF EntersOrStays, ProcessStep
<1>3. ASSUME NEW m \in Node, runs[r].lock = Owner(m) PROVE m = n
  BY <1>3, OwnersDiffer DEF r
<1>4. ASSUME NEW m \in Node, LockAvailable(r, Owner(m)) PROVE m = n
  BY <1>1, <1>4, OwnersDiffer DEF LockAvailable, r
<1>5. ASSUME LockAges(r) PROVE runs'[r].lock = runs[r].lock
  BY <1>1, <1>5 DEF LockAges, ExecTypeOK, RunRow
<1>6. \/ runs'[r].lock = runs[r].lock
      \/ \E m \in Node : \/ LockAvailable(r, Owner(m)) /\ runs'[r].lock = Owner(m)
                         \/ ReleaseLock(m) /\ runs[r].lock = Owner(m)
  BY <1>1, <1>5, RunRowStep DEF SameLock
<1> QED
  BY <1>2, <1>3, <1>4, <1>6 DEF r

\* A fresh lock stays with the process that executes under it, however long
\* other steps take: only that process releases it, and nobody can take it.
THEOREM FreshLocksAreKept == ExecSpec => FreshLockIsKept
<1>1. ExecTypeOK /\ [ExecNext]_execVars => [LockKept]_execVars
  BY LockKeptStep
<1> QED
  BY <1>1, ExecTypeCorrect, PTL DEF ExecSpec, FreshLockIsKept

-----------------------------------------------------------------------------
(* Runs and jobs, when no lease expires under its holder *)

\* The process holds its job, and the lease is live.
Holds(n) == HeldBy(procs[n].job, n) /\ jobs[procs[n].job].lease = "live"

BusyHolds == \A n \in Node : Busy(n) => Holds(n)

\* A process that is busy after a step and did not just claim its job was busy
\* with it before.
LEMMA KeepsJob ==
  ASSUME ExecTypeOK, [ExecNext]_execVars, NEW n \in Node, Busy(n)', ~ClaimJob(n)
  PROVE  Busy(n) /\ procs'[n].job = procs[n].job
<1>0. procs \in [Node -> Proc]
  BY DEF ExecTypeOK
<1>1. CASE procs'[n] = procs[n]
  BY <1>1 DEF Busy
<1>2. ASSUME NEW pc \in IdlePC, Drop(n, pc) \/ Goto(n, pc) PROVE FALSE
  <2>1. procs'[n].pc \in IdlePC
    BY <1>0, <1>2, DropFacts, GotoFacts
  <2> QED
    BY <2>1 DEF IdlePC, Busy, BusyPC, LeaseTimerPC, LockHolderPC
<1>3. CASE GoesOn(n)
  BY <1>0, <1>3, GoesOnFacts, GotoFacts
<1>4. CASE SetRunning(n) \/ AdvanceRun(n)
  <2>1. Busy(n)
    BY <1>4 DEF SetRunning, AdvanceRun, Busy, BusyPC, LeaseTimerPC, LockHolderPC
  <2>2. \E p : procs' = [procs EXCEPT ![n] = p] /\ p.job = procs[n].job
    BY <1>0, <1>4 DEF SetRunning, AdvanceRun, Proc
  <2> QED
    BY <1>0, <2>1, <2>2
<1>5. ASSUME \/ WaiterLooks(n) \/ WaiterLeaves(n) \/ WaiterSleeps(n)
             \/ CompleteJob(n) \/ FailJob(n)
             \/ BeginJob(n) /\ Drop(n, Home(n))
      PROVE  FALSE
  BY <1>2, <1>5 DEF IdlePC, Home, WaiterLooks, WaiterLeaves, WaiterSleeps, CompleteJob, FailJob
<1>6. ASSUME StartProcess(n) \/ KillProcess(n) \/ ExitWorker(n) PROVE FALSE
  <2>1. CASE StartProcess(n)
    BY <1>0, <2>1 DEF StartProcess, Home, Busy, BusyPC, LeaseTimerPC, LockHolderPC
  <2>2. CASE KillProcess(n) \/ ExitWorker(n)
    <3> DEFINE p == [procs[n] EXCEPT !.pc = "down", !.job = NoJob, !.step = 0,
                                     !.stopping = FALSE]
    <3>1. procs' = [procs EXCEPT ![n] = p]
      BY <2>2 DEF KillProcess, ExitWorker
    <3>2. p.pc = "down"
      BY <1>0 DEF Proc
    <3> HIDE DEF p
    <3> QED
      BY <1>0, <3>1, <3>2 DEF Busy, BusyPC, LeaseTimerPC, LockHolderPC
  <2> QED
    BY <1>6, <2>1, <2>2
<1>7. CASE ShutdownWorker(n)
  <2> DEFINE p == [procs[n] EXCEPT !.stopping = TRUE]
  <2>1. procs' = [procs EXCEPT ![n] = p]
    BY <1>7 DEF ShutdownWorker
  <2>2. p.job = procs[n].job /\ p.pc = procs[n].pc
    BY <1>0 DEF Proc
  <2> HIDE DEF p
  <2> QED
    BY <1>0, <2>1, <2>2 DEF Busy
<1>8. CASE ProcessStep(n)
  <2>1. BeginJob(n) => (BeginJob(n) /\ Drop(n, Home(n))) \/ GoesOn(n)
    BY DEF BeginJob, GoesOn
  <2> QED
    BY <1>3, <1>4, <1>5, <1>8, <2>1 DEF ProcessStep, GoesOn
<1>9. CASE RenewLease(n)
  BY <1>1, <1>9 DEF RenewLease
<1>10. ASSUME NEW m \in Node, m # n,
              \/ StartProcess(m) \/ ProcessStep(m) \/ RenewLease(m)
              \/ KillProcess(m) \/ ShutdownWorker(m) \/ ExitWorker(m)
       PROVE  procs'[n] = procs[n]
  BY <1>10, OthersStay
<1>11. CASE \/ \E j \in Job : LeaseRunsOut(j)
            \/ \E r \in Run : LockAges(r)
            \/ \E c \in Client :
                 \/ PostRun(c) \/ RequestStep(c) \/ RequestDies(c)
                 \/ \E r \in Run : PostResume(c, r)
            \/ UNCHANGED execVars
  BY <1>1, <1>11 DEF LeaseRunsOut, LockAges, PostRun, CreateRun, PostResume,
     RequestStep, RequeueRun, EnqueueJob, RequestDies, execVars
<1> QED
  BY <1>1, <1>6, <1>7, <1>8, <1>9, <1>10, <1>11 DEF ExecNext

\* What a statement on one row of run_jobs leaves in it.
LEMMA JobRowIs ==
  ASSUME TypeOK, NEW j \in Job, jobs[j] \in JobRow, NEW n \in Node
  PROVE  /\ \/ MarkRunJobRunning(j, n) \/ RenewRunJobLease(j, n)
            \/ (\E among : ClaimNextRunJob(n, j, among))
            => /\ jobs'[j].status \in HeldStatus /\ jobs'[j].node = n /\ jobs'[j].lease = "live"
               /\ \A k \in Job : k # j => jobs'[k] = jobs[k]
         /\ \A end \in EndStatus : EndRunJob(j, n, end) =>
               /\ jobs'[j].status = end
               /\ \A k \in Job : k # j => jobs'[k] = jobs[k]
<1> USE DEF TypeOK
<1>1. ASSUME MarkRunJobRunning(j, n)
      PROVE  /\ jobs'[j].status \in HeldStatus /\ jobs'[j].node = n /\ jobs'[j].lease = "live"
             /\ \A k \in Job : k # j => jobs'[k] = jobs[k]
  BY <1>1 DEF MarkRunJobRunning, HeldBy, JobRow, HeldStatus
<1>2. ASSUME RenewRunJobLease(j, n)
      PROVE  /\ jobs'[j].status \in HeldStatus /\ jobs'[j].node = n /\ jobs'[j].lease = "live"
             /\ \A k \in Job : k # j => jobs'[k] = jobs[k]
  BY <1>2 DEF RenewRunJobLease, HeldBy, JobRow
<1>3. ASSUME NEW among, ClaimNextRunJob(n, j, among)
      PROVE  /\ jobs'[j].status \in HeldStatus /\ jobs'[j].node = n /\ jobs'[j].lease = "live"
             /\ \A k \in Job : k # j => jobs'[k] = jobs[k]
  BY <1>3 DEF ClaimNextRunJob, JobRow, HeldStatus
<1>4. ASSUME NEW end \in EndStatus, EndRunJob(j, n, end)
      PROVE  /\ jobs'[j].status = end
             /\ \A k \in Job : k # j => jobs'[k] = jobs[k]
  BY <1>4 DEF EndRunJob, JobRow
<1> QED
  BY <1>1, <1>2, <1>3, <1>4

\* Its row does not change hands under a busy process.
LEMMA BusyHoldsStep ==
  ASSUME ExecTypeOK, BusyHolds, [ExecNext]_execVars, "late_renewal" \notin Faults
  PROVE  BusyHolds'
<1>0. procs \in [Node -> Proc] /\ TypeOK
  BY DEF ExecTypeOK
<1> SUFFICES ASSUME NEW n \in Node, Busy(n)' PROVE Holds(n)'
  BY DEF BusyHolds
<1>1. CASE ClaimJob(n)
  <2> PICK j \in Job :
        /\ ClaimNextRunJob(n, j, ClaimedRuns(n))
        /\ procs' = [procs EXCEPT ![n] = [@ EXCEPT !.pc = "claimed", !.job = j]]
    BY <1>1 DEF ClaimJob
  <2>1. jobs[j] \in JobRow
    BY <1>0 DEF TypeOK, NoJobRow, ClaimNextRunJob, Claimable, HeldStatus
  <2>2. procs'[n].job = j
    BY <1>0 DEF Proc
  <2> QED
    BY <1>0, <2>1, <2>2, JobRowIs DEF Holds, HeldBy
<1>2. CASE ~ClaimJob(n)
  <2> DEFINE j == procs[n].job
  <2>1. Busy(n) /\ procs'[n].job = j /\ Holds(n) /\ j \in Job
    BY <1>2, KeepsJob, BusyFacts DEF BusyHolds
  <2> HIDE DEF j
  <2>2. CASE jobs'[j] = jobs[j]
    BY <2>1, <2>2 DEF Holds, HeldBy, j
  <2>3. ASSUME NEW m \in Node, ClaimJob(m) PROVE jobs'[j] = jobs[j]
    <3> PICK i \in Job : ClaimNextRunJob(m, i, ClaimedRuns(m))
      BY <2>3 DEF ClaimJob
    <3>1. jobs[i] \in JobRow
      BY <1>0 DEF TypeOK, NoJobRow, ClaimNextRunJob, Claimable, HeldStatus
    <3>2. i # j
      BY <2>1 DEF ClaimNextRunJob, Claimable, Holds, HeldBy, HeldStatus, j
    <3> QED
      BY <1>0, <2>1, <3>1, <3>2, JobRowIs
  <2>4. ASSUME NEW m \in Node, Busy(m),
               \/ MarkRunJobRunning(procs[m].job, m) \/ RenewRunJobLease(procs[m].job, m)
               \/ \E end \in EndStatus : EndRunJob(procs[m].job, m, end)
        PROVE  m = n \/ jobs'[j] = jobs[j]
    <3>1. procs[m].job \in Job /\ jobs[procs[m].job] \in JobRow /\ Holds(m)
      BY <2>4, BusyFacts DEF BusyHolds
    <3>2. m # n => procs[m].job # j
      BY <2>1, <3>1 DEF Holds, HeldBy, j
    <3> QED
      BY <1>0, <2>1, <2>4, <3>1, <3>2, JobRowIs
  <2>5. ASSUME MarkRunJobRunning(j, n) \/ RenewRunJobLease(j, n) PROVE Holds(n)'
    BY <1>0, <2>1, <2>5, JobRowIs, BusyFacts DEF Holds, HeldBy, j
  <2>6. ASSUME NEW m \in Node, BeginJob(m) PROVE Holds(n)'
    <3>1. Busy(m)
      BY <2>6 DEF BeginJob, Busy, BusyPC
    <3>2. UNCHANGED jobs \/ MarkRunJobRunning(procs[m].job, m)
      BY <2>6 DEF BeginJob, jobVars
    <3> QED
      BY <2>2, <2>4, <2>5, <3>1, <3>2 DEF j
  <2>7. ASSUME NEW m \in Node, RenewLease(m) PROVE Holds(n)'
    <3>1. Busy(m) /\ RenewRunJobLease(procs[m].job, m)
      BY <2>7 DEF RenewLease, Busy, BusyPC
    <3> QED
      BY <2>2, <2>4, <2>5, <3>1 DEF j
  <2>8. ASSUME NEW m \in Node, CompleteJob(m) \/ FailJob(m) PROVE Holds(n)'
    <3>1. /\ Busy(m)
          /\ UNCHANGED jobs \/ \E end \in EndStatus : EndRunJob(procs[m].job, m, end)
      BY <2>8 DEF CompleteJob, FailJob, Busy, BusyPC, LeaseTimerPC, jobVars, EndStatus
    <3>2. m # n
      <4> SUFFICES ASSUME CompleteJob(n) \/ FailJob(n) PROVE FALSE
        BY <2>8
      <4>1. \E pc \in IdlePC : Drop(n, pc)
        BY DEF CompleteJob, FailJob, Home, IdlePC
      <4>2. procs'[n].pc \in IdlePC
        BY <1>0, <4>1, DropFacts
      <4> QED
        BY <4>2 DEF IdlePC, Busy, BusyPC, LeaseTimerPC, LockHolderPC
    <3> QED
      BY <2>2, <2>4, <3>1, <3>2
  <2>9. ASSUME NEW i \in Job, LeaseRunsOut(i) PROVE jobs'[j] = jobs[j]
    <3>1. i # j
      BY <2>1, <2>9 DEF LeaseRunsOut, Holds, j
    <3> QED
      BY <1>0, <2>1, <2>9, <3>1 DEF LeaseRunsOut, LeaseExpires, TypeOK
  <2>10. ASSUME NEW c \in Client, EnqueueJob(c) PROVE jobs'[j] = jobs[j]
    <3>1. CASE UNCHANGED jobVars
      BY <3>1 DEF jobVars
    <3>2. ASSUME NEW i \in Job, InsertRunJob(i, clients[c].run) PROVE jobs'[j] = jobs[j]
      <4>1. i # j
        BY <2>1, <3>2 DEF InsertRunJob, NextRow, Holds, HeldBy, HeldStatus, j
      <4> QED
        BY <1>0, <2>1, <3>2, <4>1 DEF InsertRunJob, TypeOK
    <3> QED
      BY <2>10, <3>1, <3>2 DEF EnqueueJob
  <2>11. ASSUME NEW m \in Node,
                \/ StartProcess(m) \/ KillProcess(m) \/ ShutdownWorker(m) \/ ExitWorker(m)
                \/ WaiterLooks(m) \/ WaiterLeaves(m) \/ WaiterSleeps(m) \/ LoadRun(m)
                \/ AcquireLock(m) \/ SetRunning(m) \/ BeginStep(m) \/ EndLoop(m)
                \/ RunStep(m) \/ AdvanceRun(m) \/ FailRun(m) \/ Throw(m)
                \/ ReleaseLock(m) \/ CheckRun(m) \/ MarkRunFailed(m)
         PROVE  UNCHANGED jobs
    BY <2>11 DEF StartProcess, KillProcess, ShutdownWorker, ExitWorker, WaiterLooks,
       WaiterLeaves, WaiterSleeps, LoadRun, AcquireLock, SetRunning, BeginStep, EndLoop,
       RunStep, AdvanceRun, FailRun, Throw, ReleaseLock, CheckRun, MarkRunFailed,
       UpsertWorkerNodeHeartbeat, MarkWorkerNodeOffline, jobVars
  <2>12. ASSUME \/ \E r \in Run : LockAges(r)
                \/ \E c \in Client :
                     \/ PostRun(c) \/ RequeueRun(c) \/ RequestDies(c)
                     \/ \E r \in Run : CreateRun(c, r) \/ PostResume(c, r)
                \/ UNCHANGED execVars
         PROVE  UNCHANGED jobs
    BY <2>12 DEF LockAges, PostRun, RequeueRun, RequestDies, CreateRun, PostResume,
       execVars, jobVars
  <2>13. CASE \E m \in Node : ProcessStep(m)
    BY <2>2, <2>3, <2>6, <2>8, <2>11, <2>13 DEF ProcessStep
  <2> QED
    BY <2>2, <2>7, <2>9, <2>10, <2>11, <2>12, <2>13 DEF ExecNext, RequestStep
<1> QED
  BY <1>1, <1>2

\* So a run has one busy process at most, whatever its lock says.
LEMMA BusyAlone ==
  ASSUME ExecTypeOK, JobInv, BusyHolds, NEW m \in Node, NEW n \in Node,
         Busy(m), Busy(n), RunOf(m) = RunOf(n)
  PROVE  m = n
<1>1. /\ procs[m].job \in Job /\ procs[n].job \in Job
      /\ HeldBy(procs[m].job, m) /\ HeldBy(procs[n].job, n)
  BY BusyFacts DEF BusyHolds, Holds
<1>2. procs[m].job = procs[n].job
  BY <1>1 DEF JobInv, OneActiveJobPerRun, Active, ActiveStatus, HeldBy, HeldStatus, RunOf
<1> QED
  BY <1>1, <1>2 DEF HeldBy

\* How a process writes the status of the run it works on.
Writes(m, r) ==
  /\ Busy(m) /\ RunOf(m) = r
  /\ \/ SetRunning(m) /\ runs'[r].status = "running" /\ SameStep(r)
     \/ /\ AdvanceRun(m) /\ runs'[r].step = procs[m].step + 1
        /\ runs'[r].status =
             IF procs[m].step + 1 >= StepCount THEN "complete" ELSE "running"
     \/ /\ FailRun(m) /\ runs'[r].step = procs[m].step
        /\ runs'[r].status = "failed"
     \/ MarkRunFailed(m) /\ runs'[r].status = "failed" /\ SameStep(r)

\* What one step does to the status and the step index of a run.
LEMMA StatusStep ==
  ASSUME ExecTypeOK, [ExecNext]_execVars, NEW r \in Run
  PROVE  \/ runs'[r].status = runs[r].status /\ SameStep(r)
         \/ \E m \in Node : Writes(m, r)
         \/ \E c \in Client :
              /\ CreateRun(c, r) /\ runs[r].status = "absent"
              /\ runs'[r].status = "queued" /\ SameStep(r)
         \/ \E c \in Client : RequeueRun(c) /\ runs'[r].status = "queued" /\ SameStep(r)
<1>0. runs \in [Run -> RunRow] /\ procs \in [Node -> Proc]
  BY DEF ExecTypeOK
<1> USE DEF SameStep
<1>1. ASSUME NEW q \in Run, NEW s, runs' = [runs EXCEPT ![q].status = s]
      PROVE  \/ runs'[r].status = runs[r].status /\ SameStep(r)
             \/ q = r /\ runs'[r].status = s /\ SameStep(r)
  BY <1>0, <1>1 DEF RunRow
<1>2. ASSUME NEW q \in Run, q # r, NEW row, runs' = [runs EXCEPT ![q] = row]
      PROVE  runs'[r].status = runs[r].status /\ SameStep(r)
  BY <1>0, <1>2
<1>3. ASSUME NEW m \in Node, AdvanceRun(m) \/ FailRun(m)
      PROVE  \/ runs'[r].status = runs[r].status /\ SameStep(r)
             \/ Writes(m, r)
  <2>1. Busy(m) /\ RunOf(m) \in Run
    BY <1>3, BusyFacts
    DEF AdvanceRun, FailRun, Busy, BusyPC, LeaseTimerPC, LockHolderPC
  <2>2. CASE RunOf(m) # r
    BY <1>2, <1>3, <2>1, <2>2 DEF AdvanceRun, FailRun
  <2>3. ASSUME RunOf(m) = r, NEW s, NEW i,
               runs' = [runs EXCEPT ![r] = [@ EXCEPT !.status = s, !.step = i]]
        PROVE  runs'[r].status = s /\ runs'[r].step = i
    <3> DEFINE row == [runs[r] EXCEPT !.status = s, !.step = i]
    <3>1. row.status = s /\ row.step = i
      BY <1>0 DEF RunRow
    <3>2. runs'[r] = row
      BY <1>0, <2>3
    <3> HIDE DEF row
    <3> QED
      BY <3>1, <3>2
  <2>4. CASE RunOf(m) = r /\ AdvanceRun(m)
    <3> DEFINE s == IF procs[m].step + 1 >= StepCount THEN "complete" ELSE "running"
    <3>1. runs' = [runs EXCEPT ![r] = [@ EXCEPT !.status = s, !.step = procs[m].step + 1]]
      BY <2>4 DEF AdvanceRun
    <3> HIDE DEF s
    <3>2. runs'[r].status = s /\ runs'[r].step = procs[m].step + 1
      BY <2>3, <2>4, <3>1
    <3> QED
      BY <2>1, <2>4, <3>2 DEF s, Writes
  <2>5. CASE RunOf(m) = r /\ FailRun(m)
    <3>1. runs' = [runs EXCEPT ![r] = [@ EXCEPT !.status = "failed", !.step = procs[m].step]]
      BY <2>5 DEF FailRun
    <3> QED
      BY <2>1, <2>3, <2>5, <3>1 DEF Writes
  <2> QED
    BY <1>3, <2>2, <2>4, <2>5
<1>4. ASSUME NEW q \in Run, NEW o,
             runs' = [runs EXCEPT ![q] = [@ EXCEPT !.lock = o, !.stale = FALSE]]
      PROVE  runs'[r].status = runs[r].status /\ SameStep(r)
  BY <1>0, <1>4 DEF RunRow
<1>5. ASSUME NEW m \in Node, AcquireLock(m) \/ ReleaseLock(m)
      PROVE  runs'[r].status = runs[r].status /\ SameStep(r)
  <2>1. RunOf(m) \in Run
    BY <1>5, BusyFacts
    DEF AcquireLock, ReleaseLock, Busy, BusyPC, LeaseTimerPC, LockHolderPC
  <2> QED
    BY <1>4, <1>5, <2>1 DEF AcquireLock, ReleaseLock
<1>6. ASSUME NEW q \in Run, NEW b, runs' = [runs EXCEPT ![q].stale = b]
      PROVE  runs'[r].status = runs[r].status /\ SameStep(r)
  BY <1>0, <1>6 DEF RunRow
<1>7. ASSUME NEW m \in Node, BeginStep(m)
      PROVE  runs'[r].status = runs[r].status /\ SameStep(r)
  <2>1. RunOf(m) \in Run
    BY <1>7, BusyFacts DEF BeginStep, Busy, BusyPC, LeaseTimerPC, LockHolderPC
  <2> QED
    BY <1>6, <1>7, <2>1 DEF BeginStep
<1>8. ASSUME NEW q \in Run, LockAges(q)
      PROVE  runs'[r].status = runs[r].status /\ SameStep(r)
  BY <1>6, <1>8 DEF LockAges
<1>9. ASSUME NEW m \in Node, SetRunning(m) \/ MarkRunFailed(m)
      PROVE  \/ runs'[r].status = runs[r].status /\ SameStep(r)
             \/ Writes(m, r)
  <2>1. Busy(m) /\ RunOf(m) \in Run
    BY <1>9, BusyFacts
    DEF SetRunning, MarkRunFailed, Busy, BusyPC, LeaseTimerPC, LockHolderPC
  <2>2. CASE SetRunning(m)
    BY <1>1, <2>1, <2>2 DEF SetRunning, Writes
  <2>3. CASE MarkRunFailed(m)
    BY <1>1, <2>1, <2>3 DEF MarkRunFailed, Writes
  <2> QED
    BY <1>9, <2>2, <2>3
<1>10. ASSUME NEW c \in Client, NEW q \in Run, CreateRun(c, q)
       PROVE  \/ runs'[r].status = runs[r].status /\ SameStep(r)
              \/ /\ CreateRun(c, r) /\ runs[r].status = "absent"
                 /\ runs'[r].status = "queued" /\ SameStep(r)
  BY <1>1, <1>10 DEF CreateRun
<1>11. ASSUME NEW m \in Node,
              \/ StartProcess(m) \/ RenewLease(m) \/ KillProcess(m)
              \/ ShutdownWorker(m) \/ ExitWorker(m) \/ WaiterLooks(m)
              \/ WaiterLeaves(m) \/ WaiterSleeps(m) \/ ClaimJob(m) \/ BeginJob(m)
              \/ LoadRun(m) \/ EndLoop(m) \/ RunStep(m) \/ Throw(m)
              \/ CompleteJob(m) \/ CheckRun(m) \/ FailJob(m)
       PROVE  UNCHANGED runs
  BY <1>11 DEF StartProcess, RenewLease, KillProcess, ShutdownWorker, ExitWorker,
     WaiterLooks, WaiterLeaves, WaiterSleeps, ClaimJob, BeginJob, LoadRun, EndLoop,
     RunStep, Throw, CompleteJob, CheckRun, FailJob
<1>12. ASSUME \/ \E j \in Job : LeaseRunsOut(j)
              \/ \E c \in Client :
                   \/ PostRun(c) \/ RequestDies(c) \/ EnqueueJob(c)
                   \/ \E q \in Run : PostResume(c, q)
              \/ UNCHANGED execVars
       PROVE  UNCHANGED runs
  BY <1>12 DEF LeaseRunsOut, PostRun, RequestDies, EnqueueJob, PostResume, execVars
<1>13. ASSUME UNCHANGED runs PROVE runs'[r].status = runs[r].status /\ SameStep(r)
  BY <1>13
<1>14. ASSUME NEW m \in Node, ProcessStep(m)
       PROVE  \/ AdvanceRun(m) \/ FailRun(m) \/ AcquireLock(m) \/ ReleaseLock(m)
              \/ BeginStep(m) \/ SetRunning(m) \/ MarkRunFailed(m)
              \/ UNCHANGED runs
  BY <1>11, <1>14 DEF ProcessStep
<1>16. ASSUME NEW c \in Client, RequeueRun(c)
       PROVE  \/ runs'[r].status = runs[r].status /\ SameStep(r)
              \/ runs'[r].status = "queued" /\ SameStep(r)
  <2>1. clients[c].run \in Run
    BY <1>16 DEF RequeueRun, ExecTypeOK, Request
  <2> QED
    BY <1>1, <1>16, <2>1 DEF RequeueRun
<1> HIDE DEF SameStep
<1>15. ASSUME NEW m \in Node, ProcessStep(m)
       PROVE  \/ runs'[r].status = runs[r].status /\ SameStep(r)
              \/ Writes(m, r)
  BY <1>3, <1>5, <1>7, <1>9, <1>13, <1>14, <1>15, Zenon
<1>17. CASE \E m \in Node : ProcessStep(m)
  BY <1>15, <1>17, Zenon
<1>18. CASE \E c \in Client : RequestStep(c)
  BY <1>10, <1>12, <1>13, <1>16, <1>18, Zenon DEF RequestStep
<1>19. CASE \E q \in Run : LockAges(q)
  BY <1>8, <1>19, Zenon
<1>20. \/ \E m \in Node : ProcessStep(m)
       \/ \E c \in Client : RequestStep(c)
       \/ \E q \in Run : LockAges(q)
       \/ UNCHANGED runs
  BY <1>11, <1>12, Zenon DEF ExecNext
<1> QED
  BY <1>13, <1>17, <1>18, <1>19, <1>20, Zenon

\* A run is marked failed by the process that works on it, and no other.
LEMMA FailureIsOwn ==
  ASSUME ExecTypeOK, JobInv, BusyHolds, [ExecNext]_execVars
  PROVE  FailsOnlyItsOwn
<1>0. procs \in [Node -> Proc]
  BY DEF ExecTypeOK
<1> SUFFICES ASSUME NEW r \in Run, runs[r].status # "failed", runs'[r].status = "failed",
                    NEW m \in Node, Executing(m), RunOf(m) = r
             PROVE  procs'[m] # procs[m]
  BY DEF FailsOnlyItsOwn
<1>1. PICK n \in Node : Busy(n) /\ RunOf(n) = r /\ (FailRun(n) \/ MarkRunFailed(n))
  BY StatusStep DEF Writes, SetRunning, AdvanceRun
<1>2. m = n
  BY <1>1, BusyAlone DEF Executing, Busy, BusyPC, LeaseTimerPC
<1>3. CASE FailRun(n)
  <2>1. procs[n].pc = "fail" /\ procs'[n].pc = "release"
    BY <1>0, <1>3, GotoFacts DEF FailRun, BusyPC, LeaseTimerPC, LockHolderPC
  <2> QED
    BY <1>2, <2>1
<1>4. CASE MarkRunFailed(n)
  <2>1. procs[n].pc = "failwrite" /\ procs'[n].pc = "failjob"
    BY <1>0, <1>4, GotoFacts DEF MarkRunFailed, BusyPC, LeaseTimerPC
  <2> QED
    BY <1>2, <2>1
<1> QED
  BY <1>1, <1>3, <1>4

\* Nobody works at the start.
LEMMA BusyHoldsInit == ExecInit => BusyHolds
<1> SUFFICES ASSUME ExecInit, NEW n \in Node PROVE procs[n].pc = "down"
  BY DEF BusyHolds, Busy, BusyPC, LeaseTimerPC, LockHolderPC
<1> DEFINE Down == {[pc |-> "down", pid |-> pid, job |-> NoJob, step |-> 0,
                     stopping |-> FALSE] : pid \in Pid}
<1>1. procs[n] \in Down
  BY DEF ExecInit
<1> QED
  BY <1>1

\* As long as renewals come in time, what a busy process works on is its own.
THEOREM BusyAlwaysHolds ==
  ASSUME "late_renewal" \notin Faults
  PROVE  ExecSpec => []BusyHolds
<1>1. ExecTypeOK /\ BusyHolds /\ [ExecNext]_execVars => BusyHolds'
  BY BusyHoldsStep
<1> QED
  BY <1>1, BusyHoldsInit, ExecTypeCorrect, PTL DEF ExecSpec

\* Nobody marks a run failed that another process executes, whatever is resumed,
\* stopped or stored late (markRunFailedIfNeeded, and the failed step).
THEOREM FailuresAreOwn ==
  ASSUME "late_renewal" \notin Faults
  PROVE  ExecSpec => NoForeignFailure
<1>1. ExecSpec => []JobInv
  BY ExecUsesQueue, JobInvariant, PTL
<1>2. ExecTypeOK /\ JobInv /\ BusyHolds /\ [ExecNext]_execVars => [FailsOnlyItsOwn]_execVars
  BY FailureIsOwn
<1> QED
  BY <1>1, <1>2, ExecTypeCorrect, BusyAlwaysHolds, PTL DEF ExecSpec, NoForeignFailure

-----------------------------------------------------------------------------
(* Active runs, when nothing is resumed and no store call is lost *)

\* A run that is not complete has steps left.
RowsFit == \A r \in Run : runs[r].status # "complete" => runs[r].step < StepCount

\* What a process that goes on with a run can rely on: until the last step is
\* recorded the run is not complete, and it has ended before its job does.
RunStands(n) ==
  LET status == runs[RunOf(n)].status IN
  /\ procs[n].pc \in {"lock", "prepare", "work", "advance", "fail", "failwrite"} =>
       status # "complete"
  /\ procs[n].pc = "loop" => (status = "complete" <=> procs[n].step >= StepCount)
  /\ procs[n].pc \in {"release", "settle", "failjob"} => status \in TerminalRun

RunsStand == \A n \in Node : RunStands(n)

NothingRequeued == \A c \in Client : clients[c].pc # "requeue"

ServedInv == RowsFit /\ RunsStand /\ NothingRequeued /\ NoOrphanedRun

\* The places at which RunStands says something.
StandingPC == {"lock", "prepare", "loop", "work", "advance", "fail", "release", "settle",
               "failwrite", "failjob"}

\* How a process comes to such a place.
Moves(n) ==
  LET status == runs[RunOf(n)].status IN
  \/ procs[n].pc = "load" /\ procs'[n].pc = IF status = "complete" THEN "settle" ELSE "lock"
  \/ procs[n].pc = "lock" /\ procs'[n].pc = "prepare"
  \/ SetRunning(n) \/ AdvanceRun(n) \/ FailRun(n)
  \/ /\ procs[n].pc = "loop" /\ procs[n].step < StepCount /\ procs'[n].pc = "work"
  \/ /\ procs[n].pc = "loop" /\ procs[n].step >= StepCount /\ procs'[n].pc = "release"
  \/ procs[n].pc = "work" /\ procs'[n].pc \in {"advance", "fail"}
  \/ procs[n].pc = "release" /\ procs'[n].pc = "settle"
  \/ procs[n].pc = "failread" /\ status \in TerminalRun /\ procs'[n].pc = "failjob"
  \/ procs[n].pc = "failread" /\ status \notin TerminalRun /\ procs'[n].pc = "failwrite"
  \/ MarkRunFailed(n) /\ runs' = [runs EXCEPT ![RunOf(n)].status = "failed"]

\* A process that is at such a place after a step stayed there or came in one of
\* these ways.
LEMMA MovesThere ==
  ASSUME ExecTypeOK, [ExecNext]_execVars, NEW n \in Node, procs'[n].pc \in StandingPC,
         "store_error" \notin Faults
  PROVE  SameProc(n) \/ Moves(n)
<1>0. procs \in [Node -> Proc]
  BY DEF ExecTypeOK
<1>1. CASE procs'[n] = procs[n]
  BY <1>1 DEF SameProc
<1>2. ASSUME NEW pc \in IdlePC \union {"claimed", "load", "unwind", "failread"},
             Drop(n, pc) \/ Goto(n, pc)
      PROVE  FALSE
  <2>1. pc \in BusyPC \union IdlePC /\ pc \notin StandingPC
    BY DEF IdlePC, BusyPC, LeaseTimerPC, LockHolderPC, StandingPC
  <2>2. CASE Goto(n, pc)
    BY <1>0, <2>1, <2>2, GotoFacts
  <2>3. CASE Drop(n, pc)
    <3> DEFINE p == [procs[n] EXCEPT !.pc = pc, !.job = NoJob, !.step = 0]
    <3>1. procs' = [procs EXCEPT ![n] = p]
      BY <2>3 DEF Drop
    <3>2. p.pc = pc
      BY <1>0 DEF Proc
    <3> HIDE DEF p
    <3> QED
      BY <1>0, <2>1, <3>1, <3>2
  <2> QED
    BY <1>2, <2>2, <2>3
<1>3. ASSUME NEW pc \in StandingPC, Goto(n, pc) PROVE procs'[n].pc = pc
  BY <1>0, <1>3, GotoFacts DEF BusyPC, LeaseTimerPC, LockHolderPC, StandingPC
<1>4. CASE LoadRun(n)
  BY <1>3, <1>4 DEF LoadRun, Moves, StandingPC
<1>5. CASE AcquireLock(n)
  <2>1. Goto(n, "prepare") \/ Goto(n, "failread")
    BY <1>5 DEF AcquireLock
  <2> QED
    BY <1>2, <1>3, <1>5, <2>1 DEF AcquireLock, Moves, StandingPC
<1>6. CASE BeginStep(n)
  <2>1. Goto(n, "work") \/ Goto(n, "unwind")
    BY <1>6 DEF BeginStep
  <2> QED
    BY <1>2, <1>3, <1>6, <2>1 DEF BeginStep, Moves, StandingPC
<1>7. CASE EndLoop(n)
  BY <1>3, <1>7 DEF EndLoop, Moves, StandingPC
<1>8. CASE RunStep(n)
  BY <1>3, <1>8 DEF RunStep, Moves, StandingPC
<1>9. CASE Throw(n)
  BY <1>2, <1>9 DEF Throw
<1>10. CASE ReleaseLock(n)
  <2>1. (procs[n].pc = "release" /\ Goto(n, "settle")) \/ Goto(n, "failread")
    BY <1>10 DEF ReleaseLock
  <2> QED
    BY <1>2, <1>3, <2>1 DEF Moves, StandingPC
<1>11. CASE CheckRun(n)
  BY <1>3, <1>11 DEF CheckRun, Moves, StandingPC
<1>12. CASE MarkRunFailed(n)
  BY <1>12 DEF MarkRunFailed, Moves
<1>13. CASE SetRunning(n) \/ AdvanceRun(n) \/ FailRun(n)
  BY <1>13 DEF Moves
<1>14. CASE BeginJob(n)
  <2>1. \E pc \in IdlePC \union {"load"} : Drop(n, pc) \/ Goto(n, pc)
    BY <1>14 DEF BeginJob, Home, IdlePC
  <2> QED
    BY <1>2, <2>1
<1>15. CASE ClaimJob(n)
  BY <1>0, <1>15 DEF ClaimJob, Proc, StandingPC
<1>16. ASSUME \/ WaiterLooks(n) \/ WaiterLeaves(n) \/ WaiterSleeps(n)
              \/ CompleteJob(n) \/ FailJob(n)
       PROVE  FALSE
  BY <1>2, <1>16 DEF IdlePC, Home, WaiterLooks, WaiterLeaves, WaiterSleeps, CompleteJob, FailJob
<1>17. CASE ProcessStep(n)
  BY <1>4, <1>5, <1>6, <1>7, <1>8, <1>9, <1>10, <1>11, <1>12, <1>13, <1>14, <1>15, <1>16, <1>17
  DEF ProcessStep
<1>18. ASSUME StartProcess(n) \/ KillProcess(n) \/ ExitWorker(n) PROVE FALSE
  <2>1. CASE StartProcess(n)
    BY <1>0, <2>1 DEF StartProcess, Home, StandingPC
  <2>2. CASE KillProcess(n) \/ ExitWorker(n)
    <3> DEFINE p == [procs[n] EXCEPT !.pc = "down", !.job = NoJob, !.step = 0,
                                     !.stopping = FALSE]
    <3>1. procs' = [procs EXCEPT ![n] = p]
      BY <2>2 DEF KillProcess, ExitWorker
    <3>2. p.pc = "down"
      BY <1>0 DEF Proc
    <3> HIDE DEF p
    <3> QED
      BY <1>0, <3>1, <3>2 DEF StandingPC
  <2> QED
    BY <1>18, <2>1, <2>2
<1>19. CASE ShutdownWorker(n)
  <2> DEFINE p == [procs[n] EXCEPT !.stopping = TRUE]
  <2>1. procs' = [procs EXCEPT ![n] = p]
    BY <1>19 DEF ShutdownWorker
  <2>2. /\ p.job = procs[n].job /\ p.pc = procs[n].pc
        /\ p.pid = procs[n].pid /\ p.step = procs[n].step
    BY <1>0 DEF Proc
  <2> HIDE DEF p
  <2> QED
    BY <1>0, <2>1, <2>2 DEF SameProc
<1>20. CASE RenewLease(n)
  BY <1>1, <1>20 DEF RenewLease
<1>21. ASSUME NEW m \in Node, m # n,
              \/ StartProcess(m) \/ ProcessStep(m) \/ RenewLease(m)
              \/ KillProcess(m) \/ ShutdownWorker(m) \/ ExitWorker(m)
       PROVE  procs'[n] = procs[n]
  BY <1>21, OthersStay
<1>22. ASSUME \/ \E j \in Job : LeaseRunsOut(j)
              \/ \E r \in Run : LockAges(r)
              \/ \E c \in Client :
                   \/ PostRun(c) \/ RequestStep(c) \/ RequestDies(c)
                   \/ \E r \in Run : PostResume(c, r)
              \/ UNCHANGED execVars
       PROVE  procs'[n] = procs[n]
  BY <1>22 DEF LeaseRunsOut, LockAges, PostRun, CreateRun, PostResume,
     RequestStep, RequeueRun, EnqueueJob, RequestDies, execVars
<1> QED
  BY <1>1, <1>17, <1>18, <1>19, <1>20, <1>21, <1>22 DEF ExecNext

\* A process that writes the status of its run, and where that takes it.
LEMMA OwnWrite ==
  ASSUME ExecTypeOK, NEW n \in Node
  PROVE  /\ SetRunning(n) =>
              /\ procs'[n].pc = "loop" /\ procs'[n].step = runs[RunOf(n)].step
              /\ runs'[RunOf(n)].status = "running"
         /\ AdvanceRun(n) =>
              /\ procs'[n].pc = "loop" /\ procs'[n].step = procs[n].step + 1
              /\ runs'[RunOf(n)].status =
                   IF procs[n].step + 1 >= StepCount THEN "complete" ELSE "running"
         /\ FailRun(n) => procs'[n].pc = "release" /\ runs'[RunOf(n)].status = "failed"
         /\ MarkRunFailed(n) => procs'[n].pc = "failjob"
<1>0. runs \in [Run -> RunRow] /\ procs \in [Node -> Proc]
  BY DEF ExecTypeOK
<1>1. ASSUME NEW s, NEW i, RunOf(n) \in Run,
             runs' = [runs EXCEPT ![RunOf(n)] = [@ EXCEPT !.status = s, !.step = i]]
      PROVE  runs'[RunOf(n)].status = s
  <2> DEFINE row == [runs[RunOf(n)] EXCEPT !.status = s, !.step = i]
  <2>1. row.status = s
    BY <1>0, <1>1 DEF RunRow
  <2>2. runs'[RunOf(n)] = row
    BY <1>0, <1>1
  <2> HIDE DEF row
  <2> QED
    BY <2>1, <2>2
<1>2. SetRunning(n) \/ AdvanceRun(n) \/ FailRun(n) => RunOf(n) \in Run
  BY BusyFacts DEF SetRunning, AdvanceRun, FailRun, Busy, BusyPC, LeaseTimerPC, LockHolderPC
<1>3. CASE SetRunning(n)
  <2>1. /\ procs'[n].pc = "loop" /\ procs'[n].step = runs[RunOf(n)].step
    <3>1. runs[RunOf(n)].step \in 0..StepCount
      BY <1>0, <1>2, <1>3 DEF RunRow
    <3>2. PICK i \in 0..StepCount : i = runs[RunOf(n)].step
      BY <3>1
    <3>3. procs' = [procs EXCEPT ![n] = [@ EXCEPT !.pc = "loop", !.step = i]]
      BY <1>3, <3>2 DEF SetRunning
    <3> DEFINE p == [procs[n] EXCEPT !.pc = "loop", !.step = i]
    <3>4. procs' = [procs EXCEPT ![n] = p]
      BY <3>3
    <3>5. p.pc = "loop" /\ p.step = i
      BY <1>0 DEF Proc
    <3> HIDE DEF p
    <3> QED
      BY <1>0, <3>2, <3>4, <3>5
  <2>2. runs'[RunOf(n)].status = "running"
    BY <1>0, <1>2, <1>3 DEF SetRunning, RunRow
  <2>3. ~AdvanceRun(n) /\ ~FailRun(n) /\ ~MarkRunFailed(n)
    BY <1>3 DEF SetRunning, AdvanceRun, FailRun, MarkRunFailed
  <2> QED
    BY <2>1, <2>2, <2>3
<1>4. CASE AdvanceRun(n)
  <2>1. procs[n].step \in 0..StepCount /\ procs[n].step < StepCount
    BY <1>0, <1>4 DEF ExecTypeOK, Proc, AdvanceRun
  <2>2. procs[n].step + 1 \in 0..StepCount
    BY <2>1, RunExecutionAssumption
  <2>3. procs'[n].pc = "loop" /\ procs'[n].step = procs[n].step + 1
    BY <1>0, <1>4, <2>2, StepFacts DEF AdvanceRun, BusyPC, LeaseTimerPC, LockHolderPC
  <2> DEFINE s == IF procs[n].step + 1 >= StepCount THEN "complete" ELSE "running"
  <2>4. runs' = [runs EXCEPT ![RunOf(n)] = [@ EXCEPT !.status = s, !.step = procs[n].step + 1]]
    BY <1>4 DEF AdvanceRun
  <2> HIDE DEF s
  <2>5. runs'[RunOf(n)].status = s
    BY <1>1, <1>2, <1>4, <2>4
  <2>6. ~SetRunning(n) /\ ~FailRun(n) /\ ~MarkRunFailed(n)
    BY <1>4 DEF SetRunning, AdvanceRun, FailRun, MarkRunFailed
  <2> QED
    BY <2>3, <2>5, <2>6 DEF s
<1>5. CASE FailRun(n)
  <2>1. procs'[n].pc = "release"
    BY <1>0, <1>5, GotoFacts DEF FailRun, BusyPC, LeaseTimerPC, LockHolderPC
  <2>2. runs' = [runs EXCEPT ![RunOf(n)] =
                  [@ EXCEPT !.status = "failed", !.step = procs[n].step]]
    BY <1>5 DEF FailRun
  <2>3. runs'[RunOf(n)].status = "failed"
    BY <1>1, <1>2, <1>5, <2>2
  <2>4. ~SetRunning(n) /\ ~AdvanceRun(n) /\ ~MarkRunFailed(n)
    BY <1>5 DEF SetRunning, AdvanceRun, FailRun, MarkRunFailed
  <2> QED
    BY <2>1, <2>3, <2>4
<1>6. CASE MarkRunFailed(n)
  <2>1. procs'[n].pc = "failjob"
    BY <1>0, <1>6, GotoFacts DEF MarkRunFailed, BusyPC, LeaseTimerPC
  <2>2. ~SetRunning(n) /\ ~AdvanceRun(n) /\ ~FailRun(n)
    BY <1>6 DEF SetRunning, AdvanceRun, FailRun, MarkRunFailed
  <2> QED
    BY <2>1, <2>2
<1> QED
  BY <1>3, <1>4, <1>5, <1>6

\* The index of a run reaches the length of its plan only with `complete'.
LEMMA RowsFitStep ==
  ASSUME ExecTypeOK, RowsFit, RunsStand, NothingRequeued, [ExecNext]_execVars
  PROVE  RowsFit'
<1> SUFFICES ASSUME NEW r \in Run, runs'[r].status # "complete"
             PROVE  runs'[r].step < StepCount
  BY DEF RowsFit
<1>1. ~ \E c \in Client : RequeueRun(c)
  BY DEF NothingRequeued, RequeueRun
<1>2. CASE SameStep(r) /\ runs[r].status # "complete"
  BY <1>2 DEF SameStep, RowsFit
<1>3. ASSUME NEW m \in Node, Writes(m, r) PROVE runs'[r].step < StepCount
  <2>1. CASE SetRunning(m) \/ MarkRunFailed(m)
    <3>1. runs[r].status # "complete"
      BY <1>3, <2>1 DEF RunsStand, RunStands, Writes, SetRunning, MarkRunFailed
    <3>2. SameStep(r)
      BY <1>3, <2>1 DEF Writes, SetRunning, MarkRunFailed, AdvanceRun, FailRun
    <3> QED
      BY <1>2, <3>1, <3>2
  <2>2. CASE AdvanceRun(m)
    <3>1. /\ runs'[r].step = procs[m].step + 1
          /\ runs'[r].status = IF procs[m].step + 1 >= StepCount THEN "complete" ELSE "running"
      BY <1>3, <2>2 DEF Writes, SetRunning, MarkRunFailed, AdvanceRun, FailRun
    <3>2. procs[m].step \in 0..StepCount /\ StepCount \in Nat
      BY RunExecutionAssumption DEF ExecTypeOK, Proc
    <3>3. ~(procs[m].step + 1 >= StepCount)
      BY <3>1
    <3> QED
      BY <3>1, <3>2, <3>3
  <2>3. CASE FailRun(m)
    <3>1. runs'[r].step = procs[m].step
      BY <1>3, <2>3 DEF Writes, SetRunning, MarkRunFailed, AdvanceRun, FailRun
    <3>2. procs[m].step < StepCount
      BY <2>3 DEF ExecTypeOK, FailRun
    <3> QED
      BY <3>1, <3>2
  <2> QED
    BY <1>3, <2>1, <2>2, <2>3 DEF Writes
<1> QED
  BY <1>1, <1>2, <1>3, StatusStep

\* Whoever else acts, what a process read of its run's status stays good enough:
\* only the process itself ends it.
LEMMA RunsStandStep ==
  ASSUME ExecTypeOK, JobInv, BusyHolds, RowsFit, RunsStand, NothingRequeued,
         [ExecNext]_execVars, "store_error" \notin Faults
  PROVE  RunsStand'
<1> SUFFICES ASSUME NEW n \in Node, procs'[n].pc \in StandingPC
             PROVE  RunStands(n)'
  BY DEF RunsStand, RunStands, StandingPC
<1> DEFINE r == RunOf(n)
<1>1. SameProc(n) \/ Moves(n)
  BY MovesThere
<1>2. Busy(n) /\ RunOf(n)' = r /\ r \in Run
  <2>1. Busy(n)'
    BY DEF Busy, BusyPC, LeaseTimerPC, LockHolderPC, StandingPC
  <2>2. ~ClaimJob(n)
    <3> SUFFICES ASSUME ClaimJob(n) PROVE FALSE
      OBVIOUS
    <3>1. procs \in [Node -> Proc]
      BY DEF ExecTypeOK
    <3> QED
      BY <3>1 DEF ClaimJob, Proc, StandingPC
  <2>3. Busy(n) /\ procs'[n].job = procs[n].job
    BY <2>1, <2>2, KeepsJob
  <2>4. jobs'[procs[n].job].run = jobs[procs[n].job].run
    BY <2>3, BusyFacts, QueueStep, StoredRowStays DEF ExecTypeOK
  <2> QED
    BY <2>3, <2>4, BusyFacts DEF RunOf
<1> HIDE DEF r
<1>3. \/ runs'[r].status = runs[r].status
      \/ Writes(n, r)
      \/ runs[r].status = "absent" /\ runs'[r].status = "queued"
  <2>1. ~ \E c \in Client : RequeueRun(c)
    BY DEF NothingRequeued, RequeueRun
  <2>2. ASSUME NEW m \in Node, Writes(m, r) PROVE m = n
    BY <1>2, <2>2, BusyAlone DEF Writes, r
  <2> QED
    BY <1>2, <2>1, <2>2, StatusStep
<1>4. /\ SetRunning(n) =>
              /\ procs'[n].pc = "loop" /\ procs'[n].step = runs[r].step
              /\ runs'[r].status = "running"
      /\ AdvanceRun(n) =>
              /\ procs'[n].pc = "loop" /\ procs'[n].step = procs[n].step + 1
              /\ runs'[r].status =
                   IF procs[n].step + 1 >= StepCount THEN "complete" ELSE "running"
      /\ FailRun(n) => procs'[n].pc = "release" /\ runs'[r].status = "failed"
      /\ MarkRunFailed(n) => procs'[n].pc = "failjob"
  BY OwnWrite DEF r
<1>5. RunStands(n)' <=>
        /\ procs'[n].pc \in {"lock", "prepare", "work", "advance", "fail", "failwrite"} =>
             runs'[r].status # "complete"
        /\ procs'[n].pc = "loop" =>
             (runs'[r].status = "complete" <=> procs'[n].step >= StepCount)
        /\ procs'[n].pc \in {"release", "settle", "failjob"} => runs'[r].status \in TerminalRun
  BY <1>2 DEF RunStands
<1>6. /\ procs[n].pc \in {"lock", "prepare", "work", "advance", "fail", "failwrite"} =>
           runs[r].status # "complete"
      /\ procs[n].pc = "loop" => (runs[r].status = "complete" <=> procs[n].step >= StepCount)
      /\ procs[n].pc \in {"release", "settle", "failjob"} => runs[r].status \in TerminalRun
  BY DEF RunsStand, RunStands, r
<1>7. CASE SetRunning(n)
  <2>1. runs[r].step < StepCount
    BY <1>2, <1>6, <1>7 DEF SetRunning, RowsFit
  <2>2. ~(runs[r].step >= StepCount)
    <3>1. runs[r].step \in 0..StepCount /\ StepCount \in Nat
      BY <1>2, RunExecutionAssumption DEF ExecTypeOK, RunRow
    <3> QED
      BY <2>1, <3>1
  <2> QED
    BY <1>4, <1>5, <1>7, <2>2
<1>8. CASE AdvanceRun(n)
  BY <1>4, <1>5, <1>8
<1>9. CASE FailRun(n)
  BY <1>4, <1>5, <1>9 DEF TerminalRun
<1>10. CASE MarkRunFailed(n) /\ runs' = [runs EXCEPT ![RunOf(n)].status = "failed"]
  <2>1. runs'[r].status = "failed"
    BY <1>2, <1>10 DEF ExecTypeOK, RunRow, r
  <2> QED
    BY <1>4, <1>5, <1>10, <2>1 DEF TerminalRun
<1>11. CASE ~SetRunning(n) /\ ~AdvanceRun(n) /\ ~FailRun(n) /\ ~MarkRunFailed(n)
  <2>1. \/ runs'[r].status = runs[r].status
        \/ runs[r].status = "absent" /\ runs'[r].status = "queued"
    BY <1>3, <1>11 DEF Writes
  <2>2. CASE SameProc(n)
    BY <1>5, <1>6, <2>1, <2>2 DEF SameProc, TerminalRun
  <2>3. CASE Moves(n)
    <3>1. \/ /\ procs[n].pc = "load"
             /\ procs'[n].pc = IF runs[r].status = "complete" THEN "settle" ELSE "lock"
          \/ procs[n].pc = "lock" /\ procs'[n].pc = "prepare"
          \/ procs[n].pc = "loop" /\ procs[n].step < StepCount /\ procs'[n].pc = "work"
          \/ procs[n].pc = "loop" /\ procs[n].step >= StepCount /\ procs'[n].pc = "release"
          \/ procs[n].pc = "work" /\ procs'[n].pc \in {"advance", "fail"}
          \/ procs[n].pc = "release" /\ procs'[n].pc = "settle"
          \/ /\ procs[n].pc = "failread"
             /\ \/ runs[r].status \in TerminalRun /\ procs'[n].pc = "failjob"
                \/ runs[r].status \notin TerminalRun /\ procs'[n].pc = "failwrite"
      BY <1>11, <2>3 DEF Moves, r
    <3>2. procs[n].step < StepCount => ~(procs[n].step >= StepCount)
      BY RunExecutionAssumption DEF ExecTypeOK, Proc
    <3> QED
      BY <1>5, <1>6, <2>1, <3>1, <3>2 DEF TerminalRun
  <2> QED
    BY <1>1, <2>2, <2>3
<1> QED
  BY <1>1, <1>7, <1>8, <1>9, <1>10, <1>11
  DEF SameProc, MarkRunFailed, Moves, SetRunning, AdvanceRun, FailRun

\* Processes and the passing of time leave the requests alone.
LEMMA ProcessesLeaveRequests ==
  ASSUME \/ \E m \in Node :
              \/ StartProcess(m) \/ ProcessStep(m) \/ RenewLease(m)
              \/ KillProcess(m) \/ ShutdownWorker(m) \/ ExitWorker(m)
         \/ \E j \in Job : LeaseRunsOut(j)
         \/ \E r \in Run : LockAges(r)
         \/ UNCHANGED execVars
  PROVE  UNCHANGED clients
BY DEF ProcessStep, StartProcess, KillProcess, ShutdownWorker, ExitWorker, RenewLease,
   WaiterLooks, WaiterLeaves, WaiterSleeps, ClaimJob, BeginJob, LoadRun, AcquireLock,
   SetRunning, BeginStep, EndLoop, RunStep, AdvanceRun, FailRun, Throw, ReleaseLock,
   CompleteJob, CheckRun, MarkRunFailed, FailJob, LeaseRunsOut, LockAges, execVars

\* Without a resume no request puts a run back into the queue.
LEMMA NothingRequeuedStep ==
  ASSUME ExecTypeOK, NothingRequeued, [ExecNext]_execVars, Resumable = {}
  PROVE  NothingRequeued'
<1> SUFFICES ASSUME NEW c \in Client, clients'[c].pc = "requeue" PROVE FALSE
  BY DEF NothingRequeued
<1>0. clients \in [Client -> Request] /\ clients[c].pc # "requeue"
  BY DEF ExecTypeOK, NothingRequeued
<1>1. clients' # clients
  BY <1>0
<1>2. ASSUME NEW d \in Client,
             \/ PostRun(d) \/ RequestStep(d) \/ RequestDies(d)
             \/ \E r \in Run : PostResume(d, r)
      PROVE  FALSE
  <2>1. ~RequeueRun(d) /\ \A r \in Run : ~PostResume(d, r)
    BY DEF NothingRequeued, RequeueRun, PostResume
  <2>2. CASE PostRun(d)
    <3> DEFINE q == [clients[d] EXCEPT !.pc = "create"]
    <3>1. clients' = [clients EXCEPT ![d] = q]
      BY <2>2 DEF PostRun
    <3>2. q.pc = "create"
      BY <1>0, <2>2 DEF Request, PostRun
    <3> HIDE DEF q
    <3> QED
      BY <1>0, <3>1, <3>2
  <2>3. ASSUME NEW r \in Run, CreateRun(d, r) PROVE FALSE
    BY <1>0, <2>3 DEF CreateRun
  <2>4. CASE EnqueueJob(d) \/ RequestDies(d)
    BY <1>0, <2>4 DEF EnqueueJob, RequestDies, NoRequest
  <2> QED
    BY <1>2, <2>1, <2>2, <2>3, <2>4 DEF RequestStep
<1>3. ASSUME \/ \E m \in Node :
                  \/ StartProcess(m) \/ ProcessStep(m) \/ RenewLease(m)
                  \/ KillProcess(m) \/ ShutdownWorker(m) \/ ExitWorker(m)
             \/ \E j \in Job : LeaseRunsOut(j)
             \/ \E r \in Run : LockAges(r)
             \/ UNCHANGED execVars
      PROVE  UNCHANGED clients
  BY <1>3, ProcessesLeaveRequests
<1> QED
  BY <1>1, <1>2, <1>3 DEF ExecNext

\* An active job stays active, unless a process that works on it settles it.
LEMMA ActiveStays ==
  ASSUME ExecTypeOK, BusyHolds, [ExecNext]_execVars, NEW j \in Job, Active(j)
  PROVE  \/ Active(j)' /\ jobs'[j].run = jobs[j].run
         \/ \E n \in Node : (CompleteJob(n) \/ FailJob(n)) /\ procs[n].job = j
<1>0. TypeOK /\ jobs[j] \in JobRow
  BY DEF ExecTypeOK, TypeOK, Active, ActiveStatus, NoJobRow
<1>1. jobs'[j].run = jobs[j].run
  <2>1. jobs[j].status # "absent"
    BY DEF Active, ActiveStatus
  <2> QED
    BY <2>1, QueueStep, StoredRowStays, <1>0
<1>2. ASSUME jobs'[j] = jobs[j] PROVE Active(j)'
  BY <1>2 DEF Active
<1>3. ASSUME NEW i \in Job, jobs[i] \in JobRow, NEW n \in Node,
             \/ MarkRunJobRunning(i, n) \/ RenewRunJobLease(i, n)
             \/ \E among : ClaimNextRunJob(n, i, among)
      PROVE  Active(j)'
  <2>1. CASE i = j
    BY <1>0, <1>3, <2>1, JobRowIs DEF Active, HeldStatus, ActiveStatus
  <2> QED
    BY <1>0, <1>2, <1>3, <2>1, JobRowIs DEF Active
<1>4. ASSUME NEW n \in Node, ClaimJob(n) PROVE Active(j)'
  <2> PICK i \in Job : ClaimNextRunJob(n, i, ClaimedRuns(n))
    BY <1>4 DEF ClaimJob
  <2>1. jobs[i] \in JobRow
    BY <1>0 DEF TypeOK, NoJobRow, ClaimNextRunJob, Claimable, HeldStatus
  <2> QED
    BY <1>3, <2>1
<1>5. ASSUME NEW n \in Node, BeginJob(n) \/ RenewLease(n) PROVE Active(j)'
  <2>1. procs[n].job \in Job /\ jobs[procs[n].job] \in JobRow
    BY <1>5, BusyFacts DEF BeginJob, RenewLease, Busy, BusyPC
  <2>2. \/ UNCHANGED jobs \/ MarkRunJobRunning(procs[n].job, n)
        \/ RenewRunJobLease(procs[n].job, n)
    BY <1>5 DEF BeginJob, RenewLease, jobVars
  <2> QED
    BY <1>2, <1>3, <2>1, <2>2
<1>6. ASSUME NEW n \in Node, CompleteJob(n) \/ FailJob(n), procs[n].job # j PROVE Active(j)'
  <2>1. procs[n].job \in Job /\ jobs[procs[n].job] \in JobRow
    BY <1>6, BusyFacts DEF CompleteJob, FailJob, Busy, BusyPC, LeaseTimerPC
  <2>2. UNCHANGED jobs \/ \E end \in EndStatus : EndRunJob(procs[n].job, n, end)
    BY <1>6 DEF CompleteJob, FailJob, jobVars, EndStatus
  <2> QED
    BY <1>0, <1>2, <1>6, <2>1, <2>2, JobRowIs
<1>7. ASSUME NEW i \in Job, LeaseRunsOut(i) PROVE Active(j)'
  <2>1. jobs' = [jobs EXCEPT ![i].lease = "expired"]
    BY <1>7 DEF LeaseRunsOut, LeaseExpires
  <2> QED
    BY <1>0, <2>1 DEF TypeOK, JobRow, Active
<1>8. ASSUME NEW c \in Client, EnqueueJob(c) PROVE Active(j)'
  <2>1. ASSUME NEW i \in Job, InsertRunJob(i, clients[c].run) PROVE jobs'[j] = jobs[j]
    <3>1. i # j
      BY <2>1 DEF InsertRunJob, NextRow, Active, ActiveStatus
    <3> QED
      BY <1>0, <2>1, <3>1 DEF InsertRunJob, TypeOK
  <2> QED
    BY <1>2, <1>8, <2>1 DEF EnqueueJob, jobVars
<1>9. ASSUME NEW m \in Node,
             \/ StartProcess(m) \/ KillProcess(m) \/ ShutdownWorker(m) \/ ExitWorker(m)
             \/ WaiterLooks(m) \/ WaiterLeaves(m) \/ WaiterSleeps(m) \/ LoadRun(m)
             \/ AcquireLock(m) \/ SetRunning(m) \/ BeginStep(m) \/ EndLoop(m)
             \/ RunStep(m) \/ AdvanceRun(m) \/ FailRun(m) \/ Throw(m)
             \/ ReleaseLock(m) \/ CheckRun(m) \/ MarkRunFailed(m)
      PROVE  UNCHANGED jobs
  BY <1>9 DEF StartProcess, KillProcess, ShutdownWorker, ExitWorker, WaiterLooks,
     WaiterLeaves, WaiterSleeps, LoadRun, AcquireLock, SetRunning, BeginStep, EndLoop,
     RunStep, AdvanceRun, FailRun, Throw, ReleaseLock, CheckRun, MarkRunFailed,
     UpsertWorkerNodeHeartbeat, MarkWorkerNodeOffline, jobVars
<1>10. ASSUME \/ \E r \in Run : LockAges(r)
              \/ \E c \in Client :
                   \/ PostRun(c) \/ RequeueRun(c) \/ RequestDies(c)
                   \/ \E r \in Run : CreateRun(c, r) \/ PostResume(c, r)
              \/ UNCHANGED execVars
       PROVE  UNCHANGED jobs
  BY <1>10 DEF LockAges, PostRun, RequeueRun, RequestDies, CreateRun, PostResume,
     execVars, jobVars
<1>11. ASSUME NEW m \in Node, ProcessStep(m)
       PROVE  Active(j)' \/ ((CompleteJob(m) \/ FailJob(m)) /\ procs[m].job = j)
  BY <1>2, <1>4, <1>5, <1>6, <1>9, <1>11 DEF ProcessStep
<1> QED
  BY <1>1, <1>2, <1>5, <1>7, <1>8, <1>9, <1>10, <1>11 DEF ExecNext, RequestStep

\* A request that is about to enqueue does so, or dies.
LEMMA RequestStays ==
  ASSUME ExecTypeOK, [ExecNext]_execVars, NEW c \in Client, clients[c].pc = "enqueue"
  PROVE  clients'[c] = clients[c] \/ EnqueueJob(c) \/ RequestDies(c)
<1>0. clients \in [Client -> Request]
  BY DEF ExecTypeOK
<1>1. ASSUME NEW d \in Client, d # c,
             \/ PostRun(d) \/ RequestStep(d) \/ RequestDies(d)
             \/ \E r \in Run : PostResume(d, r)
      PROVE  clients'[c] = clients[c]
  BY <1>0, <1>1 DEF PostRun, RequestStep, CreateRun, RequeueRun, EnqueueJob, RequestDies,
     PostResume
<1>2. /\ ~PostRun(c) /\ ~RequeueRun(c)
      /\ \A r \in Run : ~CreateRun(c, r) /\ ~PostResume(c, r)
  BY DEF PostRun, RequeueRun, CreateRun, PostResume
<1>3. ASSUME \/ \E m \in Node :
                  \/ StartProcess(m) \/ ProcessStep(m) \/ RenewLease(m)
                  \/ KillProcess(m) \/ ShutdownWorker(m) \/ ExitWorker(m)
             \/ \E j \in Job : LeaseRunsOut(j)
             \/ \E r \in Run : LockAges(r)
             \/ UNCHANGED execVars
      PROVE  UNCHANGED clients
  BY <1>3, ProcessesLeaveRequests
<1> QED
  BY <1>1, <1>2, <1>3 DEF ExecNext, RequestStep

\* What keeps every active run served.
LEMMA NoOrphanedRunStep ==
  ASSUME ExecTypeOK, JobInv, BusyHolds, ServedInv, [ExecNext]_execVars,
         "api_stop" \notin Faults
  PROVE  NoOrphanedRun'
<1> SUFFICES ASSUME NEW r \in Run, runs'[r].status \in ActiveRun
             PROVE  \/ \E j \in Job : jobs'[j].run = r /\ Active(j)'
                    \/ \E c \in Client : clients'[c].pc = "enqueue" /\ clients'[c].run = r
  BY DEF NoOrphanedRun, ActiveJobs
<1>0. jobs \in [Job -> JobRow \union {NoJobRow}] /\ clients \in [Client -> Request]
  BY DEF ExecTypeOK, TypeOK
<1>1. CASE runs[r].status \in ActiveRun
  <2>1. ASSUME NEW j \in Job, jobs[j].run = r, Active(j)
        PROVE  Active(j)' /\ jobs'[j].run = r
    <3>1. ASSUME NEW n \in Node, CompleteJob(n) \/ FailJob(n), procs[n].job = j PROVE FALSE
      <4>1. runs[r].status \in TerminalRun
        BY <2>1, <3>1 DEF ServedInv, RunsStand, RunStands, CompleteJob, FailJob, RunOf
      <4> QED
        BY <1>1, <4>1 DEF ActiveRun, TerminalRun
    <3> QED
      BY <2>1, <3>1, ActiveStays
  <2>2. ASSUME NEW c \in Client, clients[c].pc = "enqueue", clients[c].run = r
        PROVE  \/ \E j \in Job : jobs'[j].run = r /\ Active(j)'
               \/ clients'[c].pc = "enqueue" /\ clients'[c].run = r
    <3>1. CASE clients'[c] = clients[c]
      BY <2>2, <3>1
    <3>2. ASSUME NEW j \in Job, InsertRunJob(j, r) PROVE jobs'[j].run = r /\ Active(j)'
      BY <1>0, <3>2 DEF InsertRunJob, Active, ActiveStatus
    <3>3. ASSUME ActiveJobs(r) # {} PROVE \E j \in Job : jobs'[j].run = r /\ Active(j)'
      BY <2>1, <3>3 DEF ActiveJobs
    <3>4. CASE EnqueueJob(c)
      BY <2>2, <3>2, <3>3, <3>4 DEF EnqueueJob
    <3> QED
      BY <2>2, <3>1, <3>4, RequestStays DEF RequestDies
  <2> QED
    BY <1>1, <2>1, <2>2 DEF ServedInv, NoOrphanedRun, ActiveJobs
<1>2. ASSUME NEW m \in Node, Writes(m, r)
      PROVE  \E j \in Job : jobs'[j].run = r /\ Active(j)'
  <2>1. /\ procs[m].job \in Job
        /\ jobs[procs[m].job].run = r
        /\ Active(procs[m].job)
    BY <1>2, BusyFacts
    DEF Writes, RunOf, BusyHolds, Holds, HeldBy, Active, HeldStatus, ActiveStatus
  <2>2. SetRunning(m) \/ AdvanceRun(m)
    BY <1>2 DEF Writes, ActiveRun
  <2>3. UNCHANGED jobs
    BY <2>2 DEF SetRunning, AdvanceRun, jobVars
  <2> QED
    BY <2>1, <2>3 DEF Active
<1>3. ASSUME NEW c \in Client, CreateRun(c, r)
      PROVE  clients'[c].pc = "enqueue" /\ clients'[c].run = r
  BY <1>0, <1>3 DEF CreateRun
<1>4. ~ \E c \in Client : RequeueRun(c)
  BY DEF ServedInv, NothingRequeued, RequeueRun
<1>5. CASE runs[r].status \notin ActiveRun
  BY <1>2, <1>3, <1>4, <1>5, StatusStep
<1> QED
  BY <1>1, <1>5

\* Nothing is stored at the start, and nobody works.
LEMMA ServedInit == ExecInit => ServedInv
<1> SUFFICES ASSUME ExecInit PROVE ServedInv
  OBVIOUS
<1>1. \A r \in Run : runs[r].status = "absent" /\ runs[r].step = 0
  BY DEF ExecInit
<1>2. \A n \in Node : procs[n].pc = "down"
  <2> SUFFICES ASSUME NEW n \in Node PROVE procs[n].pc = "down"
    OBVIOUS
  <2> DEFINE Down == {[pc |-> "down", pid |-> pid, job |-> NoJob, step |-> 0,
                       stopping |-> FALSE] : pid \in Pid}
  <2>1. procs[n] \in Down
    BY DEF ExecInit
  <2> QED
    BY <2>1
<1>3. RowsFit
  BY <1>1, RunExecutionAssumption DEF RowsFit
<1>4. RunsStand
  BY <1>2 DEF RunsStand, RunStands
<1>5. NothingRequeued
  BY DEF ExecInit, NothingRequeued, NoRequest
<1>6. NoOrphanedRun
  BY <1>1 DEF NoOrphanedRun, ActiveRun
<1> QED
  BY <1>3, <1>4, <1>5, <1>6 DEF ServedInv

\* When renewals come in time, no store call and no request is lost and nothing
\* is resumed, an active run always has a job or a request about to enqueue one
\* (POST agent/runs, completeRunJob, markRunFailedIfNeeded): whatever is killed, shut
\* down or thrown, no run is left where nobody would move it again.
THEOREM NoRunIsOrphaned ==
  ASSUME "late_renewal" \notin Faults, "store_error" \notin Faults,
         "api_stop" \notin Faults, Resumable = {}
  PROVE  ExecSpec => []NoOrphanedRun
<1>1. ExecSpec => []JobInv
  BY ExecUsesQueue, JobInvariant, PTL
<1>2. ExecTypeOK /\ JobInv /\ BusyHolds /\ ServedInv /\ [ExecNext]_execVars => ServedInv'
  <2> SUFFICES ASSUME ExecTypeOK, JobInv, BusyHolds, ServedInv, [ExecNext]_execVars
               PROVE  ServedInv'
    OBVIOUS
  <2>1. RowsFit' /\ RunsStand' /\ NothingRequeued' /\ NoOrphanedRun'
    BY RowsFitStep, RunsStandStep, NothingRequeuedStep, NoOrphanedRunStep DEF ServedInv
  <2> QED
    BY <2>1 DEF ServedInv
<1>3. ServedInv => NoOrphanedRun
  BY DEF ServedInv
<1> QED
  BY <1>1, <1>2, <1>3, ServedInit, ExecTypeCorrect, BusyAlwaysHolds, PTL DEF ExecSpec
=============================================================================
