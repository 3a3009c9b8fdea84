----------------------------- MODULE KernelLoop -----------------------------
(***************************************************************************)
(* AgentKernel.executeLoop of agent/kernel.ts in isolated mode: how the    *)
(* steps of a run's plan are executed, committed to the run's git branch,  *)
(* validated, corrected and recorded.                                      *)
(*                                                                         *)
(* RunExecution.tla treats a step as one indivisible piece of work; this   *)
(* module opens it.  What is durable (the run row, the step records, the   *)
(* git worktree) changes one write at a time, and the process may crash    *)
(* between any two; its job is then reclaimed and the loop entered again   *)
(* from the durable state.  One process executes the run at a time, which  *)
(* is what RunExecution.tla shows of the run lock.                         *)
(*                                                                         *)
(* A commit is abstracted to the sequence of the steps committed on the    *)
(* run branch up to it, so that `git reset --hard' to a commit of the      *)
(* branch is an assignment.  Proposed changes, validation reports and      *)
(* logs are abstracted to their outcome, which is arbitrary.               *)
(***************************************************************************)
EXTENDS Naturals, Sequences, FiniteSets, SequencesExt

CONSTANTS
  PlanTools,            \* the kinds of the planned steps
  MaxRuntime,           \* executionConfig.maxRuntimeCorrectionAttempts
  MaxHeavy,             \* executionConfig.maxHeavyCorrectionAttempts
  HeavyOn,              \* heavyValidationMode is not "off"
  EnforceConvergence,   \* correctionConvergenceMode is "enforce"
  EnforcePolicy,        \* correctionPolicyMode is "enforce"
  Faults,               \* what may fail: "store_error", "git_error"
  NoCommit,             \* a commit hash column that IS NULL
  MaxCrashes,           \* bound: how often the process crashes
  MaxResumes            \* bound: how often the failed run is resumed

StepKind == {"analyze", "modify", "verify"}

ASSUME KernelLoopAssumption ==
  /\ PlanTools \in Seq(StepKind) /\ PlanTools # <<>>
  /\ MaxRuntime \in Nat
  /\ MaxHeavy \in Nat
  /\ {HeavyOn, EnforceConvergence, EnforcePolicy} \subseteq BOOLEAN
  /\ Faults \subseteq {"store_error", "git_error"}
  /\ MaxCrashes \in Nat
  /\ MaxResumes \in Nat

\* A step's id: its place in the first plan, or the correction it belongs to.
Step == [from : {"plan", "runtime", "retry", "heavy"}, n : Nat \ {0}]

Commit == Seq(Step)

VARIABLES
  run,          \* the run row, and whether it has an active job
  tree,         \* the run's git worktree: its HEAD, and whether it is dirty
  records,      \* table agent_steps
  exec,         \* the process inside executeLoop
  crashes,
  resumes

loopVars == <<run, tree, records, exec, crashes, resumes>>

RunStatus ==
  {"queued", "running", "correcting", "optimizing", "validating", "complete", "failed"}

LoopPC == {"context", "recover", "recovered", "start", "step", "staged", "committed",
           "executed", "validating", "record", "next", "rolledback", "fail", "release"}

LoopTypeOK ==
  /\ run \in [status : RunStatus, step : Nat, plan : Seq(Step),
              current : Commit \union {NoCommit},
              lastValid : Commit \union {NoCommit}, job : BOOLEAN]
  /\ run.step <= Len(run.plan)
  /\ tree \in [head : Commit, dirty : BOOLEAN]
  /\ \A r \in records :
       r \in [index : Nat, attempt : Nat \ {0}, id : Step,
              status : {"completed", "failed"}, commit : Commit \union {NoCommit}]
  /\ exec \in [pc : LoopPC \union {"idle"}, status : {"completed", "failed"},
               commit : Commit \union {NoCommit}, session : Commit,
               heavyFix : BOOLEAN, rollback : BOOLEAN,
               failedBefore : BOOLEAN, blockedBefore : BOOLEAN]
  /\ crashes \in 0..MaxCrashes
  /\ resumes \in 0..MaxResumes

-----------------------------------------------------------------------------
(* The plan *)

InitialPlan == [i \in DOMAIN PlanTools |-> [from |-> "plan", n |-> i]]

Kind(s) == CASE s.from = "plan"  -> PlanTools[s.n]
             [] s.from = "retry" -> "verify"
             [] OTHER            -> "modify"

IsCorrection(s) == s.from \in {"runtime", "heavy"}

\* countRuntimeCorrectionSteps and countHeavyCorrectionSteps; the counters of
\* the loop start there and move with the plan.
Corrections(from) == Cardinality({i \in DOMAIN run.plan : run.plan[i].from = from})

CurrentStep == run.plan[run.step + 1]

LastStep == run.step + 1 >= Len(run.plan)

\* Mutant of SpliceIn: the steps go to the end of the plan.
AppendToPlan(steps) == run.plan \o steps

\* The steps go right behind the current one.
SpliceIn(steps) ==
  SubSeq(run.plan, 1, run.step + 1) \o steps
    \o SubSeq(run.plan, run.step + 2, Len(run.plan))

NextAttempt(index) ==
  Max({r.attempt : r \in {x \in records : x.index = index}} \union {0}) + 1

-----------------------------------------------------------------------------
NoExec == [pc |-> "idle", status |-> "completed", commit |-> NoCommit, session |-> <<>>,
           heavyFix |-> FALSE, rollback |-> FALSE, failedBefore |-> FALSE,
           blockedBefore |-> FALSE]

LoopInit ==
  /\ run = [status |-> "queued", step |-> 0, plan |-> InitialPlan,
            current |-> NoCommit, lastValid |-> NoCommit, job |-> TRUE]
  /\ tree = [head |-> <<>>, dirty |-> FALSE]
  /\ records = {}
  /\ exec = NoExec
  /\ crashes = 0
  /\ resumes = 0

Goto(pc) == exec' = [exec EXCEPT !.pc = pc]

\* The step is over, with `status'.
StepEnds(status) == exec' = [exec EXCEPT !.pc = "executed", !.status = status]

-----------------------------------------------------------------------------
(* Entering the loop *)

\* A worker has claimed the run's job; a complete run's job is just settled.
EnterLoop ==
  /\ exec.pc = "idle"
  /\ run.job
  /\ Goto(IF run.status = "complete" THEN "release" ELSE "context")
  /\ UNCHANGED <<run, tree, records, crashes, resumes>>

\* Commit pointers follow the branch only when the run starts afresh.
EnsureContext ==
  /\ exec.pc = "context"
  /\ run' = IF run.status = "queued" /\ run.step = 0
            THEN [run EXCEPT !.current = tree.head,
                             !.lastValid = IF @ = NoCommit THEN tree.head ELSE @]
            ELSE run
  /\ Goto("recover")
  /\ UNCHANGED <<tree, records, crashes, resumes>>

\* Mutant of RecoverWorkspace: only a run that was queued is recovered.
RecoverQueuedRun ==
  /\ exec.pc = "recover"
  /\ \/ /\ ~tree.dirty \/ run.status # "queued"
        /\ Goto("start")
        /\ UNCHANGED tree
     \/ /\ tree.dirty
        /\ run.lastValid # NoCommit
        /\ tree' = [head |-> run.lastValid, dirty |-> FALSE]
        /\ Goto("recovered")
  /\ UNCHANGED <<run, records, crashes, resumes>>

\* Mutant of RecoverWorkspace: a reset without `git clean', tried again until
\* the worktree is clean.
RecoverUntilClean ==
  /\ exec.pc = "recover"
  /\ \/ ~tree.dirty /\ Goto("start") /\ UNCHANGED tree
     \/ /\ tree.dirty
        /\ run.lastValid # NoCommit
        /\ tree' = [tree EXCEPT !.head = run.lastValid]
        /\ Goto("context")
  /\ UNCHANGED <<run, records, crashes, resumes>>

\* A dirty worktree goes back to lastValid; one git cannot look at is taken
\* for clean.
RecoverWorkspace ==
  /\ exec.pc = "recover"
  /\ \/ /\ ~tree.dirty \/ "git_error" \in Faults
        /\ Goto("start")
        /\ UNCHANGED tree
     \/ /\ tree.dirty
        /\ run.lastValid # NoCommit
        /\ tree' = [head |-> run.lastValid, dirty |-> FALSE]
        /\ Goto("recovered")
  /\ UNCHANGED <<run, records, crashes, resumes>>

\* The pointers follow a reset, of a recovery or of a rollback.
PointAtLastValid ==
  /\ exec.pc \in {"recovered", "rolledback"}
  /\ run' = [run EXCEPT !.current = run.lastValid]
  /\ Goto(IF exec.pc = "recovered" THEN "start" ELSE "fail")
  /\ UNCHANGED <<tree, records, crashes, resumes>>

StartLoop ==
  /\ exec.pc = "start"
  /\ run' = [run EXCEPT !.status = "running"]
  /\ exec' = [NoExec EXCEPT !.pc = "step",
                !.session = IF run.current = NoCommit THEN tree.head ELSE run.current]
  /\ UNCHANGED <<tree, records, crashes, resumes>>

EndLoop ==
  /\ exec.pc = "step"
  /\ run.step >= Len(run.plan)
  /\ Goto("release")
  /\ UNCHANGED <<run, tree, records, crashes, resumes>>

-----------------------------------------------------------------------------
(* One step: its tool and its transaction *)

BeginStep ==
  /\ exec.pc = "step"
  /\ run.step < Len(run.plan)

Analyze ==
  /\ BeginStep
  /\ Kind(CurrentStep) = "analyze"
  /\ \E status \in {"completed", "failed"} : StepEnds(status)
  /\ UNCHANGED <<run, tree, records, crashes, resumes>>

\* A failure may look like the one before the correction, or not.
VerifyRuntime ==
  /\ BeginStep
  /\ Kind(CurrentStep) = "verify"
  /\ \E healthy, repeated \in BOOLEAN :
       /\ repeated => ~healthy /\ exec.failedBefore /\ Corrections("runtime") > 0
       /\ exec' = [exec EXCEPT !.pc = "executed",
                               !.status = IF healthy THEN "completed" ELSE "failed",
                               !.rollback = repeated /\ EnforceConvergence,
                               !.failedBefore = ~healthy]
  /\ UNCHANGED <<run, tree, records, crashes, resumes>>

\* The tool proposes nothing (a correction must propose something), or tool,
\* staging or application fail and leave the worktree as it was.
ModifyNothing ==
  /\ BeginStep
  /\ Kind(CurrentStep) = "modify"
  /\ \/ ~IsCorrection(CurrentStep) /\ StepEnds("completed")
     \/ StepEnds("failed")
  /\ UNCHANGED <<run, tree, records, crashes, resumes>>

\* The changes are written to the worktree; git may be told to ignore them.
ApplyChanges ==
  /\ BeginStep
  /\ Kind(CurrentStep) = "modify"
  /\ \E seen \in BOOLEAN : tree' = [tree EXCEPT !.dirty = seen]
  /\ Goto("staged")
  /\ UNCHANGED <<run, records, crashes, resumes>>

\* Precommit guard or light validation refuse the step: it is aborted.
RejectChanges ==
  /\ exec.pc = "staged"
  /\ tree' = [tree EXCEPT !.dirty = FALSE]
  /\ StepEnds("failed")
  /\ UNCHANGED <<run, records, crashes, resumes>>

\* git fails, before its commit or after it: the files are restored, the
\* index, or the commit, stays.
CommitFails ==
  /\ "git_error" \in Faults
  /\ exec.pc = "staged"
  /\ \/ UNCHANGED tree
     \/ tree.dirty /\ tree' = [tree EXCEPT !.head = Append(@, CurrentStep)]
  /\ StepEnds("failed")
  /\ UNCHANGED <<run, records, crashes, resumes>>

\* Mutant of CommitStep: the session does not move to the new commit.
CommitOutsideSession ==
  /\ exec.pc = "staged"
  /\ tree.dirty
  /\ tree' = [head |-> Append(tree.head, CurrentStep), dirty |-> FALSE]
  /\ exec' = [exec EXCEPT !.pc = "committed", !.commit = tree'.head]
  /\ UNCHANGED <<run, records, crashes, resumes>>

CommitStep ==
  /\ exec.pc = "staged"
  /\ tree.dirty
  /\ tree' = [head |-> Append(tree.head, CurrentStep), dirty |-> FALSE]
  /\ exec' = [exec EXCEPT !.pc = "committed", !.commit = tree'.head,
                          !.session = tree'.head]
  /\ UNCHANGED <<run, records, crashes, resumes>>

\* Nothing to commit; a correction step may not end like that.
CommitNothing ==
  /\ exec.pc = "staged"
  /\ ~tree.dirty
  /\ IF IsCorrection(CurrentStep) THEN StepEnds("failed") ELSE Goto("committed")
  /\ UNCHANGED <<run, tree, records, crashes, resumes>>

\* Mutant of PersistPointers: lastValidCommitHash is not moved.
PersistCurrentOnly ==
  /\ exec.pc = "committed"
  /\ run' = [run EXCEPT !.current = exec.session]
  /\ StepEnds("completed")
  /\ UNCHANGED <<tree, records, crashes, resumes>>

\* If the update fails the step fails, but its commit is there.
PersistPointers ==
  /\ exec.pc = "committed"
  /\ \/ /\ run' = [run EXCEPT !.current = exec.session, !.lastValid = exec.session]
        /\ StepEnds("completed")
     \/ "store_error" \in Faults /\ StepEnds("failed") /\ UNCHANGED run
  /\ UNCHANGED <<tree, records, crashes, resumes>>

-----------------------------------------------------------------------------
(* One step: validation of the whole project, and its record *)

\* Mutant of NeedsHeavyValidation: every step is validated, not only the last.
ValidateEveryStep == exec.status = "completed" /\ HeavyOn

NeedsHeavyValidation == exec.status = "completed" /\ LastStep /\ HeavyOn

BeginHeavyValidation ==
  /\ exec.pc = "executed"
  /\ \/ /\ NeedsHeavyValidation
        /\ run' = [run EXCEPT !.status = "validating"]
        /\ Goto("validating")
     \/ ~NeedsHeavyValidation /\ Goto("record") /\ UNCHANGED run
  /\ UNCHANGED <<tree, records, crashes, resumes>>

\* It passes, breaks down, or blocks, perhaps no less than the last time.
HeavyValidation ==
  LET failed == [exec EXCEPT !.pc = "record", !.status = "failed", !.rollback = TRUE]
  IN
  /\ exec.pc = "validating"
  /\ \/ exec' = [exec EXCEPT !.pc = "record", !.blockedBefore = FALSE]
     \/ exec' = failed
     \/ \E regressed \in BOOLEAN :
          /\ regressed => exec.blockedBefore
          /\ exec' = IF (regressed /\ EnforceConvergence) \/ Corrections("heavy") >= MaxHeavy
                     THEN [failed EXCEPT !.blockedBefore = TRUE]
                     ELSE [exec EXCEPT !.pc = "record", !.heavyFix = TRUE,
                                       !.blockedBefore = TRUE]
  /\ UNCHANGED <<run, tree, records, crashes, resumes>>

\* The correction policy has the last word on a correction; then createAgentStep.
RecordStep ==
  /\ exec.pc = "record"
  /\ \E violated \in BOOLEAN :
       /\ violated => /\ IsCorrection(CurrentStep)
                      /\ EnforcePolicy
                      /\ exec.status = "completed"
       /\ LET status == IF violated THEN "failed" ELSE exec.status IN
          /\ exec' = [exec EXCEPT !.pc = "next", !.status = status,
                                  !.rollback = @ \/ violated]
          /\ records' = records \union
               {[index |-> run.step, attempt |-> NextAttempt(run.step),
                 id |-> CurrentStep, status |-> status, commit |-> exec.commit]}
  /\ UNCHANGED <<run, tree, crashes, resumes>>

-----------------------------------------------------------------------------
(* One step: what comes after it *)

NeedsHeavyCorrection == exec.heavyFix

\* Any failure of a verify step counts as a failure of the runtime.
NeedsRuntimeCorrection ==
  /\ ~NeedsHeavyCorrection
  /\ exec.status = "failed"
  /\ Kind(CurrentStep) = "verify"
  /\ Corrections("runtime") < MaxRuntime

NeedsRollback ==
  /\ ~NeedsHeavyCorrection
  /\ ~NeedsRuntimeCorrection
  /\ exec.status = "failed"
  /\ exec.rollback \/ Kind(CurrentStep) = "verify"

\* The next iteration of the loop: the variables of this one are gone.
NextIteration ==
  exec' = [exec EXCEPT !.pc = "step", !.status = "completed", !.commit = NoCommit,
                       !.heavyFix = FALSE, !.rollback = FALSE]

QueueHeavyCorrection ==
  LET fix == [from |-> "heavy", n |-> Corrections("heavy") + 1] IN
  /\ exec.pc = "next"
  /\ NeedsHeavyCorrection
  /\ run' = [run EXCEPT !.status = "optimizing", !.step = @ + 1,
                        !.plan = SpliceIn(<<fix>>)]
  /\ NextIteration
  /\ UNCHANGED <<tree, records, crashes, resumes>>

QueueRuntimeCorrection ==
  LET n == Corrections("runtime") + 1 IN
  /\ exec.pc = "next"
  /\ NeedsRuntimeCorrection
  /\ run' = [run EXCEPT !.status = "correcting", !.step = @ + 1,
                        !.plan = SpliceIn(<<[from |-> "runtime", n |-> n],
                                            [from |-> "retry", n |-> n]>>)]
  /\ NextIteration
  /\ UNCHANGED <<tree, records, crashes, resumes>>

\* The planner has no correction: the run fails as it is.
PlanningFails ==
  /\ exec.pc = "next"
  /\ NeedsHeavyCorrection \/ NeedsRuntimeCorrection
  /\ run' = [run EXCEPT !.status = "failed"]
  /\ Goto("release")
  /\ UNCHANGED <<tree, records, crashes, resumes>>

\* rollbackRunToLastValid moves the pointers even if git cannot reset.
RollBack ==
  /\ exec.pc = "next"
  /\ NeedsRollback
  /\ IF run.lastValid = NoCommit
     THEN Goto("fail") /\ UNCHANGED tree
     ELSE /\ Goto("rolledback")
          /\ \/ tree' = [head |-> run.lastValid, dirty |-> FALSE]
             \/ "git_error" \in Faults /\ UNCHANGED tree
  /\ UNCHANGED <<run, records, crashes, resumes>>

FailRun ==
  /\ \/ exec.pc = "fail"
     \/ /\ exec.pc = "next"
        /\ exec.status = "failed"
        /\ ~NeedsHeavyCorrection /\ ~NeedsRuntimeCorrection /\ ~NeedsRollback
  /\ run' = [run EXCEPT !.status = "failed"]
  /\ Goto("release")
  /\ UNCHANGED <<tree, records, crashes, resumes>>

AdvanceRun ==
  /\ exec.pc = "next"
  /\ exec.status = "completed"
  /\ ~NeedsHeavyCorrection
  /\ run' = [run EXCEPT !.status = IF LastStep THEN "complete" ELSE "running",
                        !.step = @ + 1]
  /\ NextIteration
  /\ UNCHANGED <<tree, records, crashes, resumes>>

-----------------------------------------------------------------------------
(* Errors, crashes, and what follows the loop *)

\* A call of the store throws out of the loop, or nothing tells how to clean the
\* worktree; the worker marks the run failed, unless that call throws too.
Throw ==
  /\ \/ /\ "store_error" \in Faults
        /\ exec.pc \in LoopPC \ {"staged", "committed", "validating", "release"}
     \/ exec.pc = "recover" /\ tree.dirty /\ run.lastValid = NoCommit
  /\ \E status \in {"failed"} \union (IF "store_error" \in Faults THEN {run.status} ELSE {}) :
       run' = [run EXCEPT !.status = IF @ = "complete" THEN @ ELSE status]
  /\ Goto("release")
  /\ UNCHANGED <<tree, records, crashes, resumes>>

\* The worker settles the job.
SettleJob ==
  /\ exec.pc = "release"
  /\ run' = [run EXCEPT !.job = FALSE]
  /\ exec' = NoExec
  /\ UNCHANGED <<tree, records, crashes, resumes>>

\* The process dies; its job is still there for another one.
Crash ==
  /\ exec.pc # "idle"
  /\ crashes < MaxCrashes
  /\ crashes' = crashes + 1
  /\ exec' = NoExec
  /\ UNCHANGED <<run, tree, records, resumes>>

\* A run that is complete is left alone.
ResumeRun ==
  /\ ~run.job
  /\ run.status # "complete"
  /\ resumes < MaxResumes
  /\ resumes' = resumes + 1
  /\ run' = [run EXCEPT !.status = "queued", !.job = TRUE]
  /\ UNCHANGED <<tree, records, exec, crashes>>

-----------------------------------------------------------------------------
LoopStep ==
  \/ EnterLoop \/ EnsureContext \/ RecoverWorkspace \/ PointAtLastValid \/ StartLoop
  \/ EndLoop \/ Analyze \/ VerifyRuntime \/ ModifyNothing \/ ApplyChanges
  \/ RejectChanges \/ CommitFails \/ CommitStep \/ CommitNothing \/ PersistPointers
  \/ BeginHeavyValidation \/ HeavyValidation \/ RecordStep
  \/ QueueHeavyCorrection \/ QueueRuntimeCorrection \/ PlanningFails
  \/ RollBack \/ FailRun \/ AdvanceRun \/ Throw \/ SettleJob

LoopNext == LoopStep \/ Crash \/ ResumeRun

LoopSpec == LoopInit /\ [][LoopNext]_loopVars

\* A job is claimed again until it is settled, and a process that runs goes on.
FairLoopSpec == LoopSpec /\ WF_loopVars(LoopStep)
-----------------------------------------------------------------------------
(* What must hold *)

(* What is behind the cursor was done: every step of the plan before          *)
(* currentStepIndex has a record, which is completed, or failed with its       *)
(* correction right behind it; over crashes, resumes and insertions.           *)
ProgressIsRecorded ==
  \A i \in 1..run.step :
    \E r \in records :
      /\ r.index = i - 1 /\ r.id = run.plan[i]
      /\ \/ r.status = "completed"
         \/ i < Len(run.plan) /\ IsCorrection(run.plan[i + 1])

(* The step log and the plan of the run row agree: corrections inserted by     *)
(* queueRuntimeCorrection never move a step that was recorded, and attempts of *)
(* a step are numbered without a gap ("append-only with explicit attempts",    *)
(* __tests__/kernel-run-flow.test.ts:1812).                                    *)
RecordsMatchPlan ==
  /\ \A r \in records : r.index < Len(run.plan) /\ r.id = run.plan[r.index + 1]
  /\ \A r \in records : \A n \in 1..(r.attempt - 1) :
       \E q \in records : q.index = r.index /\ q.attempt = n
  /\ \A r, q \in records : r.index = q.index /\ r.attempt = q.attempt => r = q

(* The correction budget is counted from the plan, so no crash or resume       *)
(* refills it; no step is planned twice; a retry follows its correction; and   *)
(* what the user planned is still there, in its order.                         *)
PlanWellFormed ==
  /\ Corrections("runtime") <= MaxRuntime
  /\ Corrections("heavy") <= MaxHeavy
  /\ IsInjective(run.plan)
  /\ \A i \in DOMAIN run.plan : run.plan[i].from = "runtime" =>
       /\ i < Len(run.plan)
       /\ run.plan[i + 1] = [run.plan[i] EXCEPT !.from = "retry"]
  /\ {run.plan[i] : i \in {j \in DOMAIN run.plan : run.plan[j].from = "plan"}} =
       Range(InitialPlan)
  /\ \A i, j \in DOMAIN run.plan :
       run.plan[i].from = "plan" /\ run.plan[j].from = "plan" /\ i < j =>
         run.plan[i].n < run.plan[j].n

(* All of it: the history of a run is complete, and the history of a plan that *)
(* only grew by its corrections.                                               *)
HistoryIsRecorded == LoopTypeOK /\ ProgressIsRecorded /\ RecordsMatchPlan /\ PlanWellFormed

(* The commit of a step recorded as completed is never lost: neither recovery  *)
(* nor rollback (`git reset --hard' to lastValidCommitHash) goes behind it.    *)
CompletedCommitsStay ==
  \A r \in records : r.status = "completed" /\ r.commit # NoCommit =>
    IsPrefix(r.commit, tree.head)

(* No step starts on what an interrupted or refused step left in the worktree, *)
(* as long as git answers (recoverRunWorkspaceIfNeeded, abortStep).            *)
CleanAtStepStart ==
  exec.pc = "step" => ~tree.dirty

(* A complete run is at the head of its branch, in a clean worktree: the       *)
(* commit of the run row is the one that was validated.                        *)
CompleteRunIsAtHead ==
  run.status = "complete" => run.current = tree.head /\ ~tree.dirty

\* lifecycleRunGraph of agent/lifecycle-graph.ts, without "cancelled".
RunGraph ==
  [queued     |-> {"running", "failed"},
   running    |-> {"correcting", "optimizing", "validating", "failed", "complete"},
   correcting |-> {"running", "validating", "failed"},
   optimizing |-> {"running", "validating", "failed", "complete"},
   validating |-> {"running", "optimizing", "failed", "complete"},
   complete   |-> {},
   failed     |-> {"queued"}]

(* A run's status only changes along lifecycleRunGraph, whatever corrections   *)
(* and validations it goes through (docs/contracts/state-machine.md:3 calls    *)
(* the graph authoritative).                                                   *)
StatusFollowsGraph ==
  [][run'.status # run.status => run'.status \in RunGraph[run.status]]_loopVars

(* "committed run-step side effects must remain exactly-once"                  *)
(* (docs/contracts/adversarial-reliability-matrix.md:32): no step is committed *)
(* twice on the branch.                                                        *)
CommittedOnce ==
  IsInjective(tree.head)

(* The same sentence, for a step the run has left behind: its commit is not    *)
(* taken off the branch.                                                       *)
PassedCommitStays ==
  [][\A i \in 1..run.step :
       run.plan[i] \in Range(tree.head) => run.plan[i] \in Range(tree'.head)]_loopVars

(* Once claimed, the job of a run is settled: corrections, crashes and failing *)
(* steps do not keep the loop going for ever.                                  *)
EveryExecutionEnds ==
  run.job ~> ~run.job
=============================================================================
