------------------------- MODULE KernelLoop_proofs -------------------------
(***************************************************************************)
(* What AgentKernel.executeLoop promises of a run: that its history is     *)
(* recorded, that no completed commit is lost, that steps start in a clean *)
(* worktree and that a complete run is at the head of its branch.  Proved  *)
(* for every first plan, every correction budget and mode, and any number  *)
(* of crashes and resumes; the theorems that need git, the store or the    *)
(* process to be well say so in their assumptions.                         *)
(***************************************************************************)
EXTENDS KernelLoop, SequenceTheorems, FiniteSetTheorems, TLAPS

(***************************************************************************)
(* The steps of the loop, by what they can change.                         *)
(***************************************************************************)

\* What the run row holds, ...
RunRows ==
  [status : RunStatus, step : Nat, plan : Seq(Step), current : Commit \union {NoCommit},
   lastValid : Commit \union {NoCommit}, job : BOOLEAN]

\* ... the worktree, ...
Trees == [head : Commit, dirty : BOOLEAN]

\* ... a row of agent_steps, ...
StepRecords ==
  [index : Nat, attempt : Nat \ {0}, id : Step, status : {"completed", "failed"},
   commit : Commit \union {NoCommit}]

\* ... and the process inside executeLoop.
Executions ==
  [pc : LoopPC \union {"idle"}, status : {"completed", "failed"},
   commit : Commit \union {NoCommit}, session : Commit, heavyFix : BOOLEAN,
   rollback : BOOLEAN, failedBefore : BOOLEAN, blockedBefore : BOOLEAN]

\* The points at which a step of the plan is under way.
InStep == {"staged", "committed", "executed", "validating", "record", "next"}

\* The types, and that a step under way is a step of the plan.
BaseInv ==
  /\ run \in RunRows /\ run.step <= Len(run.plan)
  /\ tree \in Trees
  /\ records \subseteq StepRecords
  /\ exec \in Executions
  /\ crashes \in 0..MaxCrashes /\ resumes \in 0..MaxResumes
  /\ exec.pc \in InStep => run.step < Len(run.plan)
  /\ exec.heavyFix => exec.pc \in {"record", "next", "release"}

\* The steps that leave the plan, its cursor and the step records alone.
QuietStep ==
  \/ EnterLoop \/ EnsureContext \/ RecoverWorkspace \/ PointAtLastValid \/ StartLoop
  \/ EndLoop \/ Analyze \/ VerifyRuntime \/ ModifyNothing \/ ApplyChanges
  \/ RejectChanges \/ CommitFails \/ CommitStep \/ CommitNothing \/ PersistPointers
  \/ BeginHeavyValidation \/ HeavyValidation
  \/ PlanningFails \/ RollBack \/ FailRun \/ Throw \/ SettleJob \/ Crash \/ ResumeRun

\* What such a step may do at most.
Quiet ==
  /\ run' \in RunRows /\ run'.plan = run.plan /\ run'.step = run.step
  /\ tree' \in Trees
  /\ records' = records
  /\ exec' \in Executions
  /\ crashes' \in 0..MaxCrashes /\ resumes' \in 0..MaxResumes
  /\ exec'.pc \in InStep \ {"next"} =>
       exec.pc \in InStep \/ (exec.pc = "step" /\ run.step < Len(run.plan))
  /\ exec'.pc = "next" => exec' = exec
  /\ exec'.pc = "validating" => exec.pc = "validating" \/ LastStep
  /\ exec'.heavyFix =>
       \/ exec.heavyFix /\ exec'.pc = "release"
       \/ exec' = exec
       \/ exec.heavyFix /\ exec'.pc = "record"
       \/ exec'.pc = "record" /\ exec.pc = "validating" /\ ~(Corrections("heavy") >= MaxHeavy)

\* The current step is a step.
LEMMA StepIn ==
  ASSUME BaseInv, run.step < Len(run.plan)
  PROVE  CurrentStep \in Step
<1>1. run.step + 1 \in 1..Len(run.plan) /\ run.plan \in Seq(Step)
  BY DEF BaseInv, RunRows
<1>2. QED BY <1>1, ElementOfSeq DEF CurrentStep

\* A process that is not inside the loop.
LEMMA NoExecIn == /\ NoExec \in Executions /\ NoExec.pc = "idle" /\ ~NoExec.heavyFix
BY EmptySeq DEF NoExec, Executions, LoopPC, Commit

\* A worktree after `git reset --hard'.
LEMMA ResetIn ==
  ASSUME NEW c \in Commit
  PROVE  [head |-> c, dirty |-> FALSE] \in Trees
BY DEF Trees

\* The pointers of the run row follow the commit of the step, or the store failed.
LEMMA PointersAre ==
  ASSUME BaseInv, PersistPointers
  PROVE  /\ exec.pc = "committed" /\ UNCHANGED <<tree, records, crashes, resumes>>
         /\ exec' \in Executions /\ exec'.pc = "executed" /\ exec'.session = exec.session
         /\ exec'.commit = exec.commit /\ exec'.heavyFix = exec.heavyFix
         /\ run' \in RunRows /\ run'.plan = run.plan /\ run'.step = run.step
         /\ run'.status = run.status /\ run'.job = run.job
         /\ \/ /\ exec'.status = "completed"
               /\ run'.current = exec.session /\ run'.lastValid = exec.session
            \/ exec'.status = "failed" /\ run' = run
<1>1. exec \in Executions /\ run \in RunRows /\ exec.session \in Commit
  BY DEF BaseInv, Executions
<1>2. exec.pc = "committed" /\ UNCHANGED <<tree, records, crashes, resumes>>
  BY DEF PersistPointers
<1>3. \/ /\ run' = [run EXCEPT !.current = exec.session, !.lastValid = exec.session]
         /\ exec' = [exec EXCEPT !.pc = "executed", !.status = "completed"]
      \/ run' = run /\ exec' = [exec EXCEPT !.pc = "executed", !.status = "failed"]
  BY Zenon DEF PersistPointers, StepEnds
<1>4. /\ exec' \in Executions /\ exec'.pc = "executed" /\ exec'.session = exec.session
      /\ exec'.commit = exec.commit /\ exec'.heavyFix = exec.heavyFix
  BY <1>1, <1>3 DEF Executions, LoopPC
<1>5. CASE /\ run' = [run EXCEPT !.current = exec.session, !.lastValid = exec.session]
           /\ exec' = [exec EXCEPT !.pc = "executed", !.status = "completed"]
  <2>1. exec'.status = "completed"
    BY <1>1, <1>5 DEF Executions
  <2>2. /\ run' \in RunRows /\ run'.plan = run.plan /\ run'.step = run.step
        /\ run'.status = run.status /\ run'.job = run.job
        /\ run'.current = exec.session /\ run'.lastValid = exec.session
    BY <1>1, <1>5 DEF RunRows
  <2>3. QED BY <1>2, <1>4, <2>1, <2>2
<1>6. CASE run' = run /\ exec' = [exec EXCEPT !.pc = "executed", !.status = "failed"]
  <2>1. exec'.status = "failed"
    BY <1>1, <1>6 DEF Executions
  <2>2. QED BY <1>1, <1>2, <1>4, <1>6, <2>1
<1>7. QED BY <1>3, <1>5, <1>6

\* A step with nothing to commit goes on, unless it is a correction.
LEMMA NothingIs ==
  ASSUME BaseInv, CommitNothing
  PROVE  /\ exec.pc = "staged" /\ ~tree.dirty
         /\ UNCHANGED <<run, tree, records, crashes, resumes>>
         /\ exec' \in Executions /\ exec'.session = exec.session
         /\ exec'.commit = exec.commit /\ exec'.heavyFix = exec.heavyFix
         /\ exec'.pc = "committed" \/ (exec'.pc = "executed" /\ exec'.status = "failed")
<1>1. exec \in Executions
  BY DEF BaseInv
<1>2. exec.pc = "staged" /\ ~tree.dirty /\ UNCHANGED <<run, tree, records, crashes, resumes>>
  BY DEF CommitNothing
<1>3. \/ exec' = [exec EXCEPT !.pc = "executed", !.status = "failed"]
      \/ exec' = [exec EXCEPT !.pc = "committed"]
  BY Zenon DEF CommitNothing, StepEnds, Goto
<1>4. QED BY <1>1, <1>2, <1>3 DEF Executions, LoopPC

\* They do no more.
LEMMA QuietIsQuiet ==
  ASSUME BaseInv, QuietStep
  PROVE  Quiet
<1>0. /\ run \in RunRows /\ tree \in Trees /\ exec \in Executions
      /\ crashes \in 0..MaxCrashes /\ resumes \in 0..MaxResumes
      /\ exec.pc \in InStep => run.step < Len(run.plan)
      /\ exec.heavyFix => exec.pc \in {"record", "next", "release"}
      /\ MaxCrashes \in Nat /\ MaxResumes \in Nat
  BY KernelLoopAssumption DEF BaseInv, KernelLoopAssumption
<1> USE DEF Goto, StepEnds, InStep
<1>1. CASE EnterLoop
  BY <1>0, <1>1 DEF EnterLoop, Quiet, Executions, LoopPC
<1>2. CASE EnsureContext
  BY <1>0, <1>2 DEF EnsureContext, Quiet, Executions, LoopPC, RunRows, Trees
<1>3. CASE RecoverWorkspace
  <2>1. /\ exec' \in Executions /\ exec'.pc \in {"start", "recovered"}
        /\ exec'.heavyFix = exec.heavyFix /\ exec.pc = "recover"
    BY <1>0, <1>3 DEF RecoverWorkspace, Executions, LoopPC
  <2>2. tree' \in Trees
    BY <1>0, <1>3, ResetIn DEF RecoverWorkspace, RunRows
  <2>3. UNCHANGED <<run, records, crashes, resumes>>
    BY <1>3 DEF RecoverWorkspace
  <2>4. QED BY <1>0, <2>1, <2>2, <2>3 DEF Quiet
<1>4. CASE PointAtLastValid
  BY <1>0, <1>4 DEF PointAtLastValid, Quiet, Executions, LoopPC, RunRows
<1>5. CASE StartLoop
  BY <1>0, <1>5, NoExecIn DEF StartLoop, Quiet, Executions, LoopPC, RunRows, Trees, RunStatus
<1>6. CASE EndLoop
  BY <1>0, <1>6 DEF EndLoop, Quiet, Executions, LoopPC
<1>7. CASE Analyze
  BY <1>0, <1>7 DEF Analyze, BeginStep, Quiet, Executions, LoopPC
<1>8. CASE VerifyRuntime
  BY <1>0, <1>8 DEF VerifyRuntime, BeginStep, Quiet, Executions, LoopPC
<1>9. CASE ModifyNothing
  BY <1>0, <1>9 DEF ModifyNothing, BeginStep, Quiet, Executions, LoopPC
<1>10. CASE ApplyChanges
  BY <1>0, <1>10 DEF ApplyChanges, BeginStep, Quiet, Executions, LoopPC, Trees
<1>11. CASE RejectChanges
  BY <1>0, <1>11 DEF RejectChanges, Quiet, Executions, LoopPC, Trees
<1>12. CASE CommitFails
  <2>1. /\ exec' \in Executions /\ exec'.pc = "executed"
        /\ exec'.heavyFix = exec.heavyFix /\ exec.pc = "staged"
    BY <1>0, <1>12 DEF CommitFails, Executions, LoopPC
  <2>2. Append(tree.head, CurrentStep) \in Seq(Step)
    BY <1>0, <2>1, StepIn, AppendProperties DEF Trees, Commit
  <2>3. tree' \in Trees
    BY <1>0, <1>12, <2>2 DEF CommitFails, Trees, Commit
  <2>4. UNCHANGED <<run, records, crashes, resumes>>
    BY <1>12 DEF CommitFails
  <2>5. QED BY <1>0, <2>1, <2>3, <2>4 DEF Quiet
<1>13. CASE CommitStep
  <2>1. exec.pc = "staged" /\ UNCHANGED <<run, records, crashes, resumes>>
    BY <1>13 DEF CommitStep
  <2>2. Append(tree.head, CurrentStep) \in Commit
    BY <1>0, <2>1, StepIn, AppendProperties DEF Trees, Commit
  <2>3. PICK h \in Commit : h = Append(tree.head, CurrentStep)
    BY <2>2
  <2>4. tree' = [head |-> h, dirty |-> FALSE]
    BY <1>13, <2>3 DEF CommitStep
  <2>5. tree' \in Trees /\ tree'.head = h
    BY <2>4 DEF Trees
  <2>6. exec' = [exec EXCEPT !.pc = "committed", !.commit = h, !.session = h]
    BY <1>13, <2>5, Zenon DEF CommitStep
  <2>7. exec' \in Executions /\ exec'.pc = "committed" /\ exec'.heavyFix = exec.heavyFix
    BY <1>0, <2>6 DEF Executions, LoopPC
  <2>8. QED BY <1>0, <2>1, <2>5, <2>7 DEF Quiet
<1>14. CASE CommitNothing
  BY <1>0, <1>14, NothingIs DEF Quiet
<1>15. CASE PersistPointers
  BY <1>0, <1>15, PointersAre DEF Quiet
<1>16. CASE BeginHeavyValidation
  BY <1>0, <1>16 DEF BeginHeavyValidation, NeedsHeavyValidation, Quiet, Executions, LoopPC, RunRows, RunStatus
<1>17. CASE HeavyValidation
  <2>1. exec.pc = "validating" /\ UNCHANGED <<run, tree, records, crashes, resumes>>
    BY <1>17 DEF HeavyValidation
  <2>2. PICK failed : failed = [exec EXCEPT !.pc = "record", !.status = "failed", !.rollback = TRUE]
    OBVIOUS
  <2>3. failed \in Executions /\ failed.pc = "record" /\ failed.heavyFix = exec.heavyFix
    BY <1>0, <2>2 DEF Executions, LoopPC
  <2>4. \/ exec' = [exec EXCEPT !.pc = "record", !.blockedBefore = FALSE]
        \/ exec' = failed
        \/ exec' = [failed EXCEPT !.blockedBefore = TRUE]
        \/ /\ ~(Corrections("heavy") >= MaxHeavy)
           /\ exec' = [exec EXCEPT !.pc = "record", !.heavyFix = TRUE, !.blockedBefore = TRUE]
    BY <1>17, <2>2, Zenon DEF HeavyValidation
  <2>5. /\ exec' \in Executions /\ exec'.pc = "record"
        /\ exec'.heavyFix = exec.heavyFix \/ ~(Corrections("heavy") >= MaxHeavy)
    BY <1>0, <2>3, <2>4 DEF Executions, LoopPC
  <2>6. QED BY <1>0, <2>1, <2>5 DEF Quiet
<1>18. CASE PlanningFails
  BY <1>0, <1>18 DEF PlanningFails, Quiet, Executions, LoopPC, RunRows, RunStatus
<1>19. CASE RollBack
  <2>1. /\ exec' \in Executions /\ exec'.pc \in {"fail", "rolledback"} /\ ~exec'.heavyFix
    BY <1>0, <1>19 DEF RollBack, NeedsRollback, NeedsHeavyCorrection, Executions, LoopPC
  <2>2. tree' \in Trees
    BY <1>0, <1>19, ResetIn DEF RollBack, RunRows
  <2>3. UNCHANGED <<run, records, crashes, resumes>>
    BY <1>19 DEF RollBack
  <2>4. QED BY <1>0, <2>1, <2>2, <2>3 DEF Quiet
<1>20. CASE FailRun
  BY <1>0, <1>20 DEF FailRun, Quiet, Executions, LoopPC, RunRows, RunStatus
<1>21. CASE Throw
  BY <1>0, <1>21 DEF Throw, Quiet, Executions, LoopPC, RunRows, RunStatus
<1>22. CASE SettleJob
  BY <1>0, <1>22, NoExecIn DEF SettleJob, Quiet, Executions, LoopPC, RunRows
<1>23. CASE Crash
  BY <1>0, <1>23, NoExecIn DEF Crash, Quiet, Executions, LoopPC
<1>24. CASE ResumeRun
  <2>1. run' \in RunRows /\ run'.plan = run.plan /\ run'.step = run.step
    BY <1>0, <1>24 DEF ResumeRun, RunRows, RunStatus
  <2>2. resumes' \in 0..MaxResumes /\ UNCHANGED <<tree, records, exec, crashes>>
    BY <1>0, <1>24 DEF ResumeRun
  <2>3. QED BY <1>0, <2>1, <2>2 DEF Quiet
<1>25. QED
  BY <1>1, <1>2, <1>3, <1>4, <1>5, <1>6, <1>7, <1>8, <1>9, <1>10, <1>11, <1>12, <1>13,
     <1>14, <1>15, <1>16, <1>17, <1>18, <1>19, <1>20, <1>21, <1>22, <1>23, <1>24, Zenon DEF QuietStep

(***************************************************************************)
(* Plans and the insertion of corrections.                                 *)
(***************************************************************************)

\* How many steps of a plan are of a kind.
CountOf(P, from) == Cardinality({i \in DOMAIN P : P[i].from = from})

\* The steps of a kind are those numbered 1 to k.
Numbered(P, from, k) ==
  \A n \in Nat : n \in 1..k <=> \E i \in DOMAIN P : P[i].from = from /\ P[i].n = n

\* A plan that only grew by its corrections: no step is there twice; a retry is
\* right behind its correction; what was planned first is there in its order; and
\* corrections of each kind are numbered from 1, as many as the budget at most.
PlanFits(P) ==
  /\ \A i, j \in DOMAIN P : P[i].from = P[j].from /\ P[i].n = P[j].n => i = j
  /\ \A i \in DOMAIN P : P[i].from = "runtime" =>
       i < Len(P) /\ P[i + 1].from = "retry" /\ P[i + 1].n = P[i].n
  /\ \A i \in DOMAIN P : P[i].from = "retry" =>
       \E j \in DOMAIN P : P[j].from = "runtime" /\ P[j].n = P[i].n
  /\ \A i, j \in DOMAIN P : P[i].from = "plan" /\ P[j].from = "plan" /\ i < j => P[i].n < P[j].n
  /\ \A i \in DOMAIN P : P[i].from = "plan" => P[i].n \in DOMAIN PlanTools
  /\ \A m \in DOMAIN PlanTools : \E i \in DOMAIN P : P[i].from = "plan" /\ P[i].n = m
  /\ \E k \in 0..MaxRuntime : Numbered(P, "runtime", k)
  /\ \E k \in 0..MaxHeavy : Numbered(P, "heavy", k)

\* Counting the corrections in the plan gives the number of the last one: what
\* countRuntimeCorrectionSteps returns after a crash is what the counter was.
LEMMA Counting ==
  ASSUME NEW P \in Seq(Step), PlanFits(P), NEW from, NEW k \in Nat, Numbered(P, from, k)
  PROVE  CountOf(P, from) = k
<1> DEFINE S == {i \in DOMAIN P : P[i].from = from}
           f == [i \in S |-> P[i].n]
<1>1. DOMAIN P = 1..Len(P) /\ Len(P) \in Nat /\ \A i \in DOMAIN P : P[i] \in Step
  BY LenProperties, ElementOfSeq
<1>2. IsFiniteSet(S)
  <2>1. IsFiniteSet(1..Len(P))
    BY <1>1, FS_Interval
  <2>2. S \subseteq 1..Len(P)
    BY <1>1
  <2>3. QED BY <2>1, <2>2, FS_Subset
<1>3. \A i \in S : f[i] \in 1..k
  BY <1>1 DEF Numbered, Step
<1>4. \A i, j \in S : f[i] = f[j] => i = j
  BY DEF PlanFits
<1>5. \A n \in 1..k : \E i \in S : f[i] = n
  BY DEF Numbered
<1>6. f \in Bijection(S, 1..k)
  BY <1>3, <1>4, <1>5 DEF Bijection, Injection, Surjection, IsInjective
<1>7. ExistsBijection(S, 1..k)
  BY <1>6 DEF ExistsBijection
<1>8. Cardinality(1..k) = Cardinality(S)
  BY <1>2, <1>7, FS_Bijection
<1>9. Cardinality(1..k) = k
  BY FS_Interval
<1>10. QED BY <1>8, <1>9 DEF CountOf

\* Q is P with the steps s behind its step c.
Spliced(P, c, s, Q) ==
  /\ Q \in Seq(Step) /\ Len(Q) = Len(P) + Len(s)
  /\ \A i \in 1..c : Q[i] = P[i]
  /\ \A i \in 1..Len(s) : Q[c + i] = s[i]
  /\ \A i \in c+1..Len(P) : Q[i + Len(s)] = P[i]

\* The insertion of the code, two slices around the new steps, is one of those.
LEMMA Splicing ==
  ASSUME BaseInv, run.step < Len(run.plan), NEW s \in Seq(Step)
  PROVE  Spliced(run.plan, run.step + 1, s, SpliceIn(s))
<1>1. PICK P \in Seq(Step) : P = run.plan
  BY DEF BaseInv, RunRows
<1>2. PICK c \in 1..Len(P) : c = run.step + 1
  BY <1>1 DEF BaseInv, RunRows
<1>3. Len(P) \in Nat /\ Len(s) \in Nat /\ \A i \in 1..Len(P) : P[i] \in Step
  BY LenProperties, ElementOfSeq
<1>4. PICK A \in Seq(Step) : A = SubSeq(P, 1, c) /\ Len(A) = c /\ \A i \in 1..c : A[i] = P[i]
  <2>1. \A i \in 1..c : P[i] \in Step
    BY <1>3
  <2>2. /\ SubSeq(P, 1, c) \in Seq(Step)
        /\ Len(SubSeq(P, 1, c)) = (IF 1 <= c THEN c - 1 + 1 ELSE 0)
        /\ \A i \in 1..c-1+1 : SubSeq(P, 1, c)[i] = P[1+i-1]
    BY <2>1, SubSeqProperties
  <2>3. Len(SubSeq(P, 1, c)) = c /\ \A i \in 1..c : SubSeq(P, 1, c)[i] = P[i]
    BY <2>2, <1>3
  <2>4. QED BY <2>2, <2>3, Zenon
<1>5. PICK B \in Seq(Step) : /\ B = SubSeq(P, c + 1, Len(P)) /\ Len(B) = Len(P) - c
                             /\ \A i \in 1..Len(P) - c : B[i] = P[c + i]
  <2>1. \A i \in c + 1..Len(P) : P[i] \in Step
    BY <1>3
  <2>2. /\ SubSeq(P, c + 1, Len(P)) \in Seq(Step)
        /\ Len(SubSeq(P, c + 1, Len(P))) = (IF c + 1 <= Len(P) THEN Len(P) - (c + 1) + 1 ELSE 0)
        /\ \A i \in 1..Len(P)-(c+1)+1 : SubSeq(P, c + 1, Len(P))[i] = P[c+1+i-1]
    BY <2>1, <1>3, SubSeqProperties
  <2>3. /\ Len(SubSeq(P, c + 1, Len(P))) = Len(P) - c
        /\ \A i \in 1..Len(P) - c : SubSeq(P, c + 1, Len(P))[i] = P[c + i]
    BY <2>2, <1>3
  <2>4. QED BY <2>2, <2>3, Zenon
<1>6. PICK C \in Seq(Step) : /\ C = A \o s /\ Len(C) = c + Len(s)
                             /\ \A i \in 1..c + Len(s) : C[i] = IF i <= c THEN A[i] ELSE s[i - c]
  <2>1. /\ A \o s \in Seq(Step)
        /\ Len(A \o s) = Len(A) + Len(s)
        /\ \A i \in 1..Len(A) + Len(s) : (A \o s)[i] = IF i <= Len(A) THEN A[i] ELSE s[i - Len(A)]
    BY <1>4, ConcatProperties
  <2>2. /\ Len(A \o s) = c + Len(s)
        /\ \A i \in 1..c + Len(s) : (A \o s)[i] = IF i <= c THEN A[i] ELSE s[i - c]
    BY <2>1, <1>4
  <2>3. QED BY <2>1, <2>2, Zenon
<1>7. PICK Q \in Seq(Step) : /\ Q = C \o B /\ Len(Q) = c + Len(s) + Len(B)
                             /\ \A i \in 1..c + Len(s) + Len(B) :
                                  Q[i] = IF i <= c + Len(s) THEN C[i] ELSE B[i - (c + Len(s))]
  <2>1. /\ C \o B \in Seq(Step)
        /\ Len(C \o B) = Len(C) + Len(B)
        /\ \A i \in 1..Len(C) + Len(B) : (C \o B)[i] = IF i <= Len(C) THEN C[i] ELSE B[i - Len(C)]
    <3>1. C \in Seq(Step) /\ B \in Seq(Step)
      BY <1>5, <1>6
    <3>2. QED BY <3>1, ConcatProperties
  <2>2. /\ Len(C \o B) = c + Len(s) + Len(B)
        /\ \A i \in 1..c + Len(s) + Len(B) :
             (C \o B)[i] = IF i <= c + Len(s) THEN C[i] ELSE B[i - (c + Len(s))]
    BY <2>1, <1>6
  <2>3. QED BY <2>1, <2>2, Zenon
<1>7a. /\ c \in Nat /\ 1 <= c /\ c <= Len(P) /\ Len(P) \in Nat /\ Len(s) \in Nat
      /\ Len(B) = Len(P) - c
  <2>1. Len(B) = Len(P) - c
    BY <1>5
  <2>2. QED BY <1>2, <1>3, <2>1
<1>8. SpliceIn(s) = Q
  <2>1. run.step + 2 = c + 1
    BY <1>2 DEF BaseInv, RunRows
  <2>2. SpliceIn(s) = SubSeq(P, 1, c) \o s \o SubSeq(P, c + 1, Len(P))
    BY <1>1, <1>2, <2>1, Zenon DEF SpliceIn
  <2>3. QED BY <2>2, <1>4, <1>5, <1>6, <1>7, Zenon
<1>9. Len(Q) = Len(P) + Len(s)
  BY <1>3, <1>5, <1>7
<1>10. \A i \in 1..c : Q[i] = P[i]
  <2>1. \A i \in 1..c : /\ i \in 1..c + Len(s) /\ i \in 1..c + Len(s) + Len(B)
                         /\ i <= c /\ i <= c + Len(s)
    BY <1>7a
  <2>2. QED BY <2>1, <1>4, <1>6, <1>7
<1>11. ASSUME NEW i \in 1..Len(s) PROVE Q[c + i] = s[i]
  <2>1. c + i \in 1..c + Len(s) /\ ~(c + i <= c) /\ (c + i) - c = i /\ c + i \in 1..c + Len(s) + Len(B)
    BY <1>7a
  <2>2. Q[c + i] = C[c + i] /\ C[c + i] = s[(c + i) - c]
    BY <1>6, <1>7, <2>1
  <2>3. QED BY <2>1, <2>2
<1>12. ASSUME NEW i \in c+1..Len(P) PROVE Q[i + Len(s)] = P[i]
  <2>1. /\ i + Len(s) \in 1..c + Len(s) + Len(B) /\ ~(i + Len(s) <= c + Len(s))
        /\ (i + Len(s)) - (c + Len(s)) = i - c /\ i - c \in 1..Len(P) - c /\ c + (i - c) = i
    BY <1>7a
  <2>2. Q[i + Len(s)] = B[i - c] /\ B[i - c] = P[c + (i - c)]
    BY <1>5, <1>7, <2>1
  <2>3. QED BY <2>1, <2>2
<1>13. Spliced(P, c, s, Q)
  BY <1>9, <1>10, <1>11, <1>12, Zenon DEF Spliced
<1>14. QED BY <1>1, <1>2, <1>8, <1>13, Zenon

\* Where a step of the new plan comes from.
LEMMA Splits ==
  ASSUME NEW P \in Seq(Step), NEW c \in 1..Len(P), NEW s \in Seq(Step), NEW Q, Spliced(P, c, s, Q),
         NEW i \in DOMAIN Q
  PROVE  \/ i \in 1..c /\ Q[i] = P[i]
         \/ i \in c+1..c+Len(s) /\ Q[i] = s[i - c]
         \/ i \in c+Len(s)+1..Len(P)+Len(s) /\ Q[i] = P[i - Len(s)] /\ i - Len(s) \in c+1..Len(P)
<1>1. DOMAIN Q = 1..Len(P)+Len(s) /\ Len(P) \in Nat /\ Len(s) \in Nat
  BY LenProperties DEF Spliced
<1>2. CASE i \in 1..c
  BY <1>2 DEF Spliced
<1>3. CASE i \in c+1..c+Len(s)
  <2>1. i - c \in 1..Len(s) /\ c + (i - c) = i
    BY <1>1, <1>3
  <2>2. Q[c + (i - c)] = s[i - c]
    BY <2>1 DEF Spliced
  <2>3. QED BY <1>3, <2>1, <2>2
<1>4. CASE i \in c+Len(s)+1..Len(P)+Len(s)
  <2>1. i - Len(s) \in c+1..Len(P) /\ (i - Len(s)) + Len(s) = i
    BY <1>1, <1>4
  <2>2. Q[(i - Len(s)) + Len(s)] = P[i - Len(s)]
    BY <2>1 DEF Spliced
  <2>3. QED BY <1>4, <2>1, <2>2
<1>5. QED BY <1>1, <1>2, <1>3, <1>4

\* Steps that can be added behind step c of plan P.
Fresh(P, c, s) ==
  /\ P[c].from # "runtime"
  /\ \A i \in 1..Len(s) : s[i].from # "plan"
  /\ \A i \in 1..Len(s) : \A j \in DOMAIN P : ~(s[i].from = P[j].from /\ s[i].n = P[j].n)
  /\ \A i, j \in 1..Len(s) : s[i].from = s[j].from /\ s[i].n = s[j].n => i = j
  /\ \A i \in 1..Len(s) : s[i].from = "runtime" =>
       i < Len(s) /\ s[i + 1].from = "retry" /\ s[i + 1].n = s[i].n
  /\ \A i \in 1..Len(s) : s[i].from = "retry" =>
       \E j \in 1..Len(s) : s[j].from = "runtime" /\ s[j].n = s[i].n

\* A plan that fits does so after an insertion of fresh steps.
LEMMA SplicingKeeps ==
  ASSUME NEW P \in Seq(Step), NEW c \in 1..Len(P), NEW s \in Seq(Step), NEW Q, Spliced(P, c, s, Q),
         PlanFits(P), Fresh(P, c, s),
         NEW kr \in 0..MaxRuntime, Numbered(Q, "runtime", kr),
         NEW kh \in 0..MaxHeavy, Numbered(Q, "heavy", kh)
  PROVE  PlanFits(Q)
<1> DEFINE m == Len(s)
           new(i) == i \in c+1..c+m
           at(i) == IF i <= c THEN i ELSE i - m
<1>1. /\ c \in Nat /\ 1 <= c /\ c <= Len(P) /\ Len(P) \in Nat /\ m \in Nat
      /\ DOMAIN P = 1..Len(P) /\ DOMAIN Q = 1..Len(P)+m /\ Len(Q) = Len(P)+m
  BY LenProperties DEF Spliced
<1>2. ASSUME NEW i \in DOMAIN Q, new(i)
      PROVE  Q[i] = s[i - c] /\ i - c \in 1..m
  <2>1. i \in c+1..c+m /\ Q[i] = s[i - c]
    <3>1. \/ i \in 1..c
          \/ i \in c+1..c+m /\ Q[i] = s[i - c]
          \/ i \in c+m+1..Len(P)+m
      BY Splits
    <3>2. QED BY <3>1, <1>1, <1>2
  <2>2. QED BY <2>1, <1>1
<1>3. ASSUME NEW i \in DOMAIN Q, ~new(i)
      PROVE  Q[i] = P[at(i)] /\ at(i) \in DOMAIN P
  <2>1. \/ i \in 1..c /\ Q[i] = P[i]
        \/ i \in c+m+1..Len(P)+m /\ Q[i] = P[i - m] /\ i - m \in c+1..Len(P)
    BY <1>3, Splits
  <2>2. QED BY <2>1, <1>1
<1>4. \A i, j \in DOMAIN Q : ~new(i) /\ ~new(j) /\ i < j => at(i) < at(j)
  BY <1>1
<1>5. \A j \in DOMAIN P : \E i \in DOMAIN Q : Q[i] = P[j]
  <2> SUFFICES ASSUME NEW j \in DOMAIN P PROVE \E i \in DOMAIN Q : Q[i] = P[j]
    OBVIOUS
  <2>1. CASE j <= c
    BY <2>1, <1>1 DEF Spliced
  <2>2. CASE j > c
    <3>1. j \in c+1..Len(P) /\ j + m \in DOMAIN Q
      BY <2>2, <1>1
    <3>2. Q[j + m] = P[j]
      BY <3>1 DEF Spliced
    <3>3. QED BY <3>1, <3>2
  <2>3. QED BY <2>1, <2>2, <1>1
<1>6. \A j \in 1..m : c + j \in DOMAIN Q /\ Q[c + j] = s[j]
  BY <1>1 DEF Spliced
<1>6a. \A i \in 1..m : \A j \in DOMAIN P : ~(s[i].from = P[j].from /\ s[i].n = P[j].n)
  BY Zenon DEF Fresh
<1>7. ASSUME NEW i \in DOMAIN Q, NEW j \in DOMAIN Q, Q[i].from = Q[j].from, Q[i].n = Q[j].n
      PROVE  i = j
  <2>1. CASE new(i) /\ new(j)
    <3>1. PICK a \in 1..m : a = i - c /\ Q[i] = s[a]
      BY <1>2, <2>1
    <3>2. PICK b \in 1..m : b = j - c /\ Q[j] = s[b]
      BY <1>2, <2>1
    <3>3. a = b
      BY <3>1, <3>2, <1>7 DEF Fresh
    <3>4. QED BY <3>1, <3>2, <3>3, <1>1
  <2>2. CASE ~new(i) /\ ~new(j)
    <3>1. PICK a \in DOMAIN P : a = at(i) /\ Q[i] = P[a]
      BY <1>3, <2>2
    <3>2. PICK b \in DOMAIN P : b = at(j) /\ Q[j] = P[b]
      BY <1>3, <2>2
    <3>3. a = b
      BY <3>1, <3>2, <1>7 DEF PlanFits
    <3>4. QED BY <3>1, <3>2, <3>3, <2>2, <1>1
  <2>3. CASE new(i) /\ ~new(j)
    <3>1. Q[i] = s[i - c] /\ i - c \in 1..m
      BY <1>2, <2>3
    <3>2. Q[j] = P[at(j)] /\ at(j) \in DOMAIN P
      BY <1>3, <2>3
    <3>3. QED BY <3>1, <3>2, <1>6a, <1>7
  <2>4. CASE ~new(i) /\ new(j)
    <3>1. Q[j] = s[j - c] /\ j - c \in 1..m
      BY <1>2, <2>4
    <3>2. Q[i] = P[at(i)] /\ at(i) \in DOMAIN P
      BY <1>3, <2>4
    <3>3. QED BY <3>1, <3>2, <1>6a, <1>7
  <2>5. QED BY <2>1, <2>2, <2>3, <2>4, Zenon
<1>8. ASSUME NEW i \in DOMAIN Q, Q[i].from = "runtime"
      PROVE  i < Len(Q) /\ Q[i + 1].from = "retry" /\ Q[i + 1].n = Q[i].n
  <2>1. CASE new(i)
    <3>1. i - c \in 1..m /\ s[i - c].from = "runtime" /\ Q[i] = s[i - c]
      BY <2>1, <1>2, <1>8
    <3>2. i - c < m /\ s[(i - c) + 1].from = "retry" /\ s[(i - c) + 1].n = s[i - c].n
      BY <3>1 DEF Fresh
    <3>3. PICK j \in 1..m : j = i - c
      BY <3>1
    <3>4. i = c + j /\ j < m /\ j + 1 \in 1..m /\ c + (j + 1) = i + 1 /\ i < Len(Q)
      <4>1. i - c < m /\ j = i - c
        BY <3>2, <3>3
      <4>2. i \in 1..Len(P) + m
        BY <1>1
      <4>3. j \in 1..m
        BY <3>3
      <4>4. i = c + j /\ j < m
        BY <4>1, <4>2, <4>3, <1>1
      <4>5. QED BY <4>2, <4>3, <4>4, <1>1
    <3>5. Q[c + (j + 1)] = s[j + 1]
      BY <3>4, <1>6
    <3>6. QED BY <3>1, <3>2, <3>3, <3>4, <3>5
  <2>2. CASE ~new(i)
    <3>1. P[at(i)].from = "runtime" /\ at(i) \in DOMAIN P /\ Q[i] = P[at(i)]
      BY <2>2, <1>3, <1>8
    <3>2. at(i) < Len(P) /\ P[at(i) + 1].from = "retry" /\ P[at(i) + 1].n = P[at(i)].n
      BY <3>1 DEF PlanFits
    <3>3. at(i) # c
      BY <3>1 DEF Fresh
    <3>4. PICK a \in DOMAIN P : a = at(i)
      BY <3>1
    <3>5. i + 1 \in DOMAIN Q /\ ~new(i + 1) /\ at(i + 1) = a + 1 /\ i < Len(Q)
      <4>1. a < Len(P) /\ a # c
        BY <3>2, <3>3, <3>4
      <4>2. i \in 1..Len(P) + m /\ ~(i \in c+1..c+m)
        BY <2>2, <1>1
      <4>3. CASE i <= c
        BY <3>4, <4>1, <4>2, <4>3, <1>1
      <4>4. CASE i > c + m
        BY <3>4, <4>1, <4>2, <4>4, <1>1
      <4>5. QED BY <4>2, <4>3, <4>4, <1>1
    <3>6. Q[i + 1] = P[a + 1]
      BY <3>5, <1>3
    <3>7. QED BY <3>1, <3>2, <3>4, <3>5, <3>6
  <2>3. QED BY <2>1, <2>2
<1>9. ASSUME NEW i \in DOMAIN Q, Q[i].from = "retry"
      PROVE  \E j \in DOMAIN Q : Q[j].from = "runtime" /\ Q[j].n = Q[i].n
  <2>1. CASE new(i)
    <3>1. i - c \in 1..m /\ s[i - c].from = "retry" /\ Q[i] = s[i - c]
      BY <2>1, <1>2, <1>9
    <3>2. PICK j \in 1..m : s[j].from = "runtime" /\ s[j].n = Q[i].n
      BY <3>1 DEF Fresh
    <3>3. QED BY <3>2, <1>6
  <2>2. CASE ~new(i)
    <3>1. PICK j \in DOMAIN P : P[j].from = "runtime" /\ P[j].n = Q[i].n
      BY <2>2, <1>3, <1>9 DEF PlanFits
    <3>2. QED BY <3>1, <1>5
  <2>3. QED BY <2>1, <2>2
<1>10. ASSUME NEW i \in DOMAIN Q, Q[i].from = "plan"
       PROVE  ~new(i) /\ Q[i].n \in DOMAIN PlanTools
  <2>1. ~new(i)
    BY <1>2, <1>10 DEF Fresh
  <2>2. QED BY <2>1, <1>3, <1>10 DEF PlanFits
<1>11. ASSUME NEW i \in DOMAIN Q, NEW j \in DOMAIN Q, Q[i].from = "plan", Q[j].from = "plan", i < j
       PROVE  Q[i].n < Q[j].n
  <2>1. ~new(i) /\ ~new(j)
    BY <1>10, <1>11
  <2>2. PICK a \in DOMAIN P : a = at(i) /\ Q[i] = P[a]
    BY <2>1, <1>3
  <2>3. PICK b \in DOMAIN P : b = at(j) /\ Q[j] = P[b]
    BY <2>1, <1>3
  <2>4. a < b
    BY <2>1, <2>2, <2>3, <1>4, <1>11
  <2>5. \A x, y \in DOMAIN P : P[x].from = "plan" /\ P[y].from = "plan" /\ x < y => P[x].n < P[y].n
    BY Zenon DEF PlanFits
  <2>6. QED BY <2>2, <2>3, <2>4, <2>5, <1>11
<1>12. ASSUME NEW n \in DOMAIN PlanTools
       PROVE  \E i \in DOMAIN Q : Q[i].from = "plan" /\ Q[i].n = n
  <2>1. PICK j \in DOMAIN P : P[j].from = "plan" /\ P[j].n = n
    BY DEF PlanFits
  <2>2. QED BY <2>1, <1>5
<1>13. QED BY <1>7, <1>8, <1>9, <1>10, <1>11, <1>12, Zenon DEF PlanFits

\* The steps s go on from k to l.
GoOn(s, from, k, l) ==
  \A n \in Nat : n \in 1..l <=> n \in 1..k \/ \E i \in 1..Len(s) : s[i].from = from /\ s[i].n = n

\* How the corrections are numbered after it.
LEMMA NumbersAfter ==
  ASSUME NEW P \in Seq(Step), NEW c \in 1..Len(P), NEW s \in Seq(Step), NEW Q, Spliced(P, c, s, Q),
         NEW from, NEW k \in Nat, Numbered(P, from, k), NEW l \in Nat,
         GoOn(s, from, k, l)
  PROVE  Numbered(Q, from, l)
<1>1. DOMAIN P = 1..Len(P) /\ DOMAIN Q = 1..Len(P)+Len(s) /\ c \in Nat /\ Len(P) \in Nat /\ Len(s) \in Nat
      /\ c <= Len(P)
  BY LenProperties DEF Spliced
<1>2. \A i \in DOMAIN Q : \/ \E j \in DOMAIN P : Q[i] = P[j]
                          \/ \E j \in 1..Len(s) : Q[i] = s[j]
  <2> TAKE i \in DOMAIN Q
  <2>1. \/ i \in 1..c /\ Q[i] = P[i]
        \/ i \in c+1..c+Len(s) /\ Q[i] = s[i - c]
        \/ i \in c+Len(s)+1..Len(P)+Len(s) /\ Q[i] = P[i - Len(s)] /\ i - Len(s) \in c+1..Len(P)
    BY Splits
  <2>2. QED BY <2>1, <1>1
<1>3. \A j \in DOMAIN P : \E i \in DOMAIN Q : Q[i] = P[j]
  <2> SUFFICES ASSUME NEW j \in DOMAIN P PROVE \E i \in DOMAIN Q : Q[i] = P[j]
    OBVIOUS
  <2>1. CASE j <= c
    BY <2>1, <1>1 DEF Spliced
  <2>2. CASE j > c
    <3>1. j \in c+1..Len(P) /\ j + Len(s) \in DOMAIN Q
      BY <2>2, <1>1
    <3>2. Q[j + Len(s)] = P[j]
      BY <3>1 DEF Spliced
    <3>3. QED BY <3>1, <3>2
  <2>3. QED BY <2>1, <2>2, <1>1
<1>4. \A j \in 1..Len(s) : c + j \in DOMAIN Q /\ Q[c + j] = s[j]
  BY <1>1 DEF Spliced
<1>5. ASSUME NEW n \in Nat
      PROVE  n \in 1..l <=> \E i \in DOMAIN Q : Q[i].from = from /\ Q[i].n = n
  <2>1. n \in 1..k <=> \E i \in DOMAIN P : P[i].from = from /\ P[i].n = n
    BY DEF Numbered
  <2>2. (\E i \in DOMAIN Q : Q[i].from = from /\ Q[i].n = n) <=>
          \/ \E i \in DOMAIN P : P[i].from = from /\ P[i].n = n
          \/ \E i \in 1..Len(s) : s[i].from = from /\ s[i].n = n
    BY <1>2, <1>3, <1>4
  <2>3. QED BY <2>1, <2>2 DEF GoOn
<1>6. QED BY <1>5 DEF Numbered

(***************************************************************************)
(* The inductive invariant, action by action.                              *)
(***************************************************************************)

\* The attempts of each step are numbered from 1 without a gap.
Gapless(R) ==
  \A i \in Nat : \E k \in Nat :
    \A n \in Nat : n \in 1..k <=> \E r \in R : r.index = i /\ r.attempt = n

\* Each record is of the step it names, at or before the cursor; attempts are told
\* apart by their number; and the step that was just recorded has its record.
RecordsFit ==
  /\ \A r \in records :
       r.index <= run.step /\ r.index < Len(run.plan) /\ r.id = run.plan[r.index + 1]
  /\ \A r, q \in records : r.index = q.index /\ r.attempt = q.attempt => r = q
  /\ Gapless(records)
  /\ exec.pc = "next" => \E r \in records : r.index = run.step /\ r.status = exec.status

\* Heavy validation comes after the last step, and asks for a correction only when
\* one is left: nothing moves the plan between the check and the insertion.
CorrectionsFit ==
  /\ exec.pc = "validating" => LastStep
  /\ exec.heavyFix /\ exec.pc \in {"record", "next"} =>
       LastStep /\ Corrections("heavy") < MaxHeavy

\* All that a step of the loop relies on.
HistoryInv ==
  BaseInv /\ RecordsFit /\ ProgressIsRecorded /\ PlanFits(run.plan) /\ CorrectionsFit

\* A quiet step keeps it.
LEMMA QuietKeepsHistory ==
  ASSUME HistoryInv, Quiet
  PROVE  HistoryInv'
<1>1. run'.plan = run.plan /\ run'.step = run.step /\ records' = records
  BY DEF Quiet
<1>2. BaseInv'
  <2>1. exec'.pc \in InStep => exec.pc \in InStep \/ (exec.pc = "step" /\ run.step < Len(run.plan))
    BY DEF Quiet, InStep
  <2>2. exec'.heavyFix => exec'.pc \in {"record", "next", "release"}
    BY DEF Quiet, HistoryInv, BaseInv
  <2>3. QED BY <2>1, <2>2 DEF Quiet, HistoryInv, BaseInv, StepRecords
<1>3. RecordsFit'
  <2>1. exec'.pc = "next" => exec' = exec
    BY DEF Quiet
  <2>2. (exec.pc = "next" => \E r \in records : r.index = run.step /\ r.status = exec.status)'
    BY <1>1, <2>1 DEF HistoryInv, RecordsFit
  <2>3. (\A r \in records :
           r.index <= run.step /\ r.index < Len(run.plan) /\ r.id = run.plan[r.index + 1])'
    BY <1>1, Zenon DEF HistoryInv, RecordsFit
  <2>4. QED BY <1>1, <2>2, <2>3, Zenon DEF HistoryInv, RecordsFit
<1>4. ProgressIsRecorded'
  BY <1>1 DEF HistoryInv, ProgressIsRecorded
<1>5. PlanFits(run.plan)'
  BY <1>1 DEF HistoryInv
<1>6. CorrectionsFit'
  <2>1. LastStep' = LastStep
    BY <1>1 DEF LastStep
  <2>2. Corrections("heavy")' = Corrections("heavy")
    BY <1>1, Zenon DEF Corrections
  <2>3. exec.pc = "validating" => LastStep
    BY DEF HistoryInv, CorrectionsFit
  <2>4. (exec.pc = "validating")' => LastStep
    BY <2>3 DEF Quiet
  <2>5. Corrections("heavy") \in Nat
    <3>1. PICK k \in 0..MaxHeavy : Numbered(run.plan, "heavy", k)
      BY DEF HistoryInv, PlanFits
    <3>2. Corrections("heavy") = k
      BY <3>1, Counting, KernelLoopAssumption DEF HistoryInv, BaseInv, RunRows, CountOf, Corrections, KernelLoopAssumption
    <3>3. QED BY <3>1, <3>2
  <2>6. ASSUME exec'.heavyFix, exec'.pc \in {"record", "next"}
        PROVE  LastStep /\ Corrections("heavy") < MaxHeavy
    <3>1. CASE exec' = exec
      BY <2>6, <3>1 DEF HistoryInv, CorrectionsFit
    <3>2. CASE exec.heavyFix /\ exec'.pc = "record"
      <4>1. exec.pc \in {"record", "next", "release"}
        BY <3>2 DEF HistoryInv, BaseInv
      <4>2. exec.pc # "release"
        BY <3>2 DEF Quiet, InStep
      <4>3. QED BY <4>1, <4>2, <3>2 DEF HistoryInv, CorrectionsFit
    <3>3. CASE exec.pc = "validating" /\ ~(Corrections("heavy") >= MaxHeavy)
      BY <3>3, <2>3, <2>5, KernelLoopAssumption DEF KernelLoopAssumption
    <3>4. QED BY <2>6, <3>1, <3>2, <3>3 DEF Quiet
  <2>7. QED BY <2>1, <2>2, <2>4, <2>6 DEF CorrectionsFit
<1>7. QED BY <1>2, <1>3, <1>4, <1>5, <1>6 DEF HistoryInv

\* The attempt that createStep records follows the last one.
LEMMA NextAttemptIs ==
  ASSUME NEW i \in Nat, NEW k \in Nat, records \subseteq StepRecords,
         \A n \in Nat : n \in 1..k <=> \E r \in records : r.index = i /\ r.attempt = n
  PROVE  NextAttempt(i) = k + 1
<1> DEFINE S == {r.attempt : r \in {x \in records : x.index = i}} \union {0}
<1>1. S = 0..k
  <2>1. \A r \in records : r.index = i => r.attempt \in 1..k
    BY DEF StepRecords
  <2>2. \A n \in 1..k : \E r \in records : r.index = i /\ r.attempt = n
    OBVIOUS
  <2>3. S \subseteq 0..k
    BY <2>1
  <2>4. 0..k \subseteq S
    BY <2>2
  <2>5. QED BY <2>3, <2>4
<1>2. \E x \in S : \A y \in S : x >= y
  BY <1>1
<1>3. Max(S) \in S /\ \A y \in S : Max(S) >= y
  BY <1>2, Zenon DEF Max
<1>4. Max(S) = k
  BY <1>1, <1>3
<1>5. QED BY <1>4, Zenon DEF NextAttempt

\* A step is recorded, with the next attempt.
LEMMA RecordKeepsHistory ==
  ASSUME HistoryInv, RecordStep
  PROVE  HistoryInv'
<1>1. /\ run \in RunRows /\ exec \in Executions /\ records \subseteq StepRecords
      /\ exec.pc = "record" /\ run.step < Len(run.plan)
      /\ UNCHANGED <<run, tree, crashes, resumes>>
  BY DEF HistoryInv, BaseInv, RecordStep, InStep
<1> DEFINE Record(status) == [index |-> run.step, attempt |-> NextAttempt(run.step),
                              id |-> CurrentStep, status |-> status, commit |-> exec.commit]
<1>2a. PICK status \in {"completed", "failed"}, rollback \in BOOLEAN :
        /\ exec' = [exec EXCEPT !.pc = "next", !.status = status, !.rollback = rollback]
        /\ records' = records \union {Record(status)}
  <2>1. PICK violated \in BOOLEAN :
          /\ exec' = [exec EXCEPT !.pc = "next", !.status = IF violated THEN "failed" ELSE exec.status,
                                  !.rollback = exec.rollback \/ violated]
          /\ records' = records \union
               {[index |-> run.step, attempt |-> NextAttempt(run.step), id |-> CurrentStep,
                 status |-> IF violated THEN "failed" ELSE exec.status, commit |-> exec.commit]}
    BY Zenon DEF RecordStep
  <2>2. (IF violated THEN "failed" ELSE exec.status) \in {"completed", "failed"}
    BY <1>1 DEF Executions
  <2>3. (exec.rollback \/ violated) \in BOOLEAN
    BY Zenon
  <2>4. QED BY <2>1, <2>2, <2>3, Zenon
<1>2. PICK s : s = Record(status) /\ records' = records \union {s}
  BY <1>2a
<1>3. exec' \in Executions /\ exec'.pc = "next" /\ exec'.status = status /\ exec'.heavyFix = exec.heavyFix
  BY <1>1, <1>2a DEF Executions, LoopPC
<1>4. PICK k \in Nat : \A n \in Nat : n \in 1..k <=> \E r \in records : r.index = run.step /\ r.attempt = n
  BY <1>1 DEF HistoryInv, RecordsFit, Gapless, RunRows
<1>5. NextAttempt(run.step) = k + 1
  BY <1>1, <1>4, NextAttemptIs DEF RunRows
<1>6. /\ s \in StepRecords /\ s.index = run.step /\ s.attempt = k + 1 /\ s.id = CurrentStep /\ s.status = status
  BY <1>1, <1>2, <1>4, <1>5, StepIn DEF HistoryInv, StepRecords, RunRows, Executions
<1>7. BaseInv'
  BY <1>1, <1>2, <1>3, <1>6 DEF HistoryInv, BaseInv, InStep
<1>8. RecordsFit'
  <2>1. \A r \in records' : r.index <= run.step /\ r.index < Len(run.plan) /\ r.id = run.plan[r.index + 1]
    <3>1. s.index <= run.step /\ s.index < Len(run.plan) /\ s.id = run.plan[s.index + 1]
      BY <1>1, <1>6 DEF RunRows, CurrentStep
    <3>2. QED BY <1>2, <3>1, Zenon DEF HistoryInv, RecordsFit
  <2>2. \A r, q \in records' : r.index = q.index /\ r.attempt = q.attempt => r = q
    <3>1. \A r \in records : r.index = run.step => r.attempt # k + 1
      BY <1>4
    <3>2. QED BY <1>2, <1>6, <3>1 DEF HistoryInv, RecordsFit
  <2>3. ASSUME NEW i \in Nat
        PROVE  \E l \in Nat : \A n \in Nat : n \in 1..l <=> \E r \in records' : r.index = i /\ r.attempt = n
    <3>1. CASE i = run.step
      <4>1. \A n \in Nat : n \in 1..(k + 1) <=> \E r \in records' : r.index = i /\ r.attempt = n
        BY <1>2, <1>4, <1>6, <3>1
      <4>2. QED BY <4>1
    <3>2. CASE i # run.step
      <4>1. PICK l \in Nat : \A n \in Nat : n \in 1..l <=> \E r \in records : r.index = i /\ r.attempt = n
        BY DEF HistoryInv, RecordsFit, Gapless
      <4>2. QED BY <1>2, <1>6, <3>2, <4>1
    <3>3. QED BY <3>1, <3>2
  <2>4. \E r \in records' : r.index = run.step /\ r.status = exec'.status
    BY <1>2, <1>3, <1>6
  <2>5. QED BY <1>1, <2>1, <2>2, <2>3, <2>4, Zenon DEF RecordsFit, Gapless
<1>9. ProgressIsRecorded'
  <2>1. \A i \in 1..run.step : \E r \in records' :
          /\ r.index = i - 1 /\ r.id = run.plan[i]
          /\ r.status = "completed" \/ (i < Len(run.plan) /\ IsCorrection(run.plan[i + 1]))
    BY <1>2 DEF HistoryInv, ProgressIsRecorded
  <2>2. QED BY <1>1, <2>1 DEF ProgressIsRecorded
<1>10. CorrectionsFit'
  <2>1. exec'.heavyFix => LastStep /\ Corrections("heavy") < MaxHeavy
    BY <1>1, <1>3 DEF HistoryInv, CorrectionsFit
  <2>2. LastStep' = LastStep /\ Corrections("heavy")' = Corrections("heavy")
    BY <1>1 DEF LastStep, Corrections
  <2>3. QED BY <1>3, <2>1, <2>2 DEF CorrectionsFit
<1>11. PlanFits(run.plan)'
  BY <1>1 DEF HistoryInv
<1>12. QED BY <1>7, <1>8, <1>9, <1>10, <1>11 DEF HistoryInv

\* The cursor moves one step, over a plan that is the same up to there.
LEMMA MovingKeepsHistory ==
  ASSUME HistoryInv, exec.pc = "next", run' \in RunRows, exec' \in Executions, exec'.pc = "step",
         ~exec'.heavyFix, UNCHANGED <<tree, records, crashes, resumes>>,
         run'.step = run.step + 1, run.step + 1 <= Len(run'.plan),
         Len(run.plan) <= Len(run'.plan),
         \A i \in 1..run.step + 1 : run'.plan[i] = run.plan[i],
         PlanFits(run'.plan),
         \/ exec.status = "completed"
         \/ run.step + 1 < Len(run'.plan) /\ IsCorrection(run'.plan[run.step + 2])
  PROVE  HistoryInv'
<1>1. /\ run \in RunRows /\ records \subseteq StepRecords /\ run.step \in Nat /\ run.step < Len(run.plan)
      /\ Len(run.plan) \in Nat /\ Len(run'.plan) \in Nat
  BY LenProperties DEF HistoryInv, BaseInv, RunRows, InStep
<1>2. BaseInv'
  BY <1>1 DEF HistoryInv, BaseInv, InStep
<1>3. RecordsFit'
  <2>1. ASSUME NEW r \in records
        PROVE  r.index <= run'.step /\ r.index < Len(run'.plan) /\ r.id = run'.plan[r.index + 1]
    <3>1. r.index \in Nat /\ r.index <= run.step /\ r.id = run.plan[r.index + 1]
      BY <1>1 DEF HistoryInv, RecordsFit, StepRecords
    <3>2. r.index + 1 \in 1..run.step + 1
      BY <1>1, <3>1
    <3>3. run'.plan[r.index + 1] = run.plan[r.index + 1]
      BY <3>2
    <3>4. r.index < Len(run.plan)
      BY DEF HistoryInv, RecordsFit
    <3>5. r.index <= run'.step /\ r.index < Len(run'.plan)
      BY <1>1, <3>1, <3>4
    <3>6. QED BY <3>1, <3>3, <3>5
  <2>2. (\A r \in records :
           r.index <= run.step /\ r.index < Len(run.plan) /\ r.id = run.plan[r.index + 1])'
    BY <2>1, Zenon
  <2>3. exec'.pc # "next"
    OBVIOUS
  <2>4. (\A r, q \in records : r.index = q.index /\ r.attempt = q.attempt => r = q)'
    BY Zenon DEF HistoryInv, RecordsFit
  <2>7. records' = records
    OBVIOUS
  <2>5. Gapless(records)'
    BY <2>7, Zenon DEF HistoryInv, RecordsFit
  <2>6. QED BY <2>2, <2>3, <2>4, <2>5, Zenon DEF RecordsFit
<1>4. ProgressIsRecorded'
  <2>1. ASSUME NEW i \in 1..run.step + 1
        PROVE  \E r \in records : /\ r.index = i - 1 /\ r.id = run'.plan[i]
                                  /\ \/ r.status = "completed"
                                     \/ i < Len(run'.plan) /\ IsCorrection(run'.plan[i + 1])
    <3>1. CASE i <= run.step
      <4>1. i \in 1..run.step /\ i + 1 \in 1..run.step + 1 /\ i \in Nat
        BY <1>1, <3>1
      <4>2. PICK r \in records : /\ r.index = i - 1 /\ r.id = run.plan[i]
                                 /\ r.status = "completed" \/ (i < Len(run.plan) /\ IsCorrection(run.plan[i + 1]))
        BY <4>1 DEF HistoryInv, ProgressIsRecorded
      <4>3. r.id = run'.plan[i] /\ run'.plan[i + 1] = run.plan[i + 1] /\ i < Len(run'.plan)
        BY <1>1, <4>1, <4>2
      <4>4. QED BY <4>2, <4>3, Zenon
    <3>2. CASE i = run.step + 1
      <4>1. PICK r \in records : r.index = run.step /\ r.status = exec.status /\ r.id = run.plan[r.index + 1]
        BY DEF HistoryInv, RecordsFit
      <4>2. r.index = i - 1 /\ r.id = run'.plan[i] /\ i + 1 = run.step + 2
        <5>1. r.index + 1 = i /\ r.index = i - 1 /\ i + 1 = run.step + 2 /\ i \in 1..run.step + 1
          BY <1>1, <3>2, <4>1
        <5>2. run'.plan[i] = run.plan[i]
          BY <5>1
        <5>3. QED BY <4>1, <5>1, <5>2
      <4>3. QED BY <3>2, <4>1, <4>2
    <3>3. QED BY <1>1, <3>1, <3>2
  <2>2. QED BY <2>1, Zenon DEF ProgressIsRecorded
<1>5. CorrectionsFit'
  BY DEF CorrectionsFit
<1>6. QED BY <1>2, <1>3, <1>4, <1>5, Zenon DEF HistoryInv

\* An iteration begins with nothing committed and no correction asked for.
LEMMA IterationIs ==
  ASSUME exec \in Executions, NextIteration
  PROVE  exec' \in Executions /\ exec'.pc = "step" /\ ~exec'.heavyFix /\ exec'.commit = NoCommit
         /\ exec'.session = exec.session
BY DEF NextIteration, Executions, LoopPC

\* The next correction of a kind is a step.
LEMMA StepIs ==
  ASSUME NEW n \in Nat
  PROVE  \A from \in {"plan", "runtime", "retry", "heavy"} : [from |-> from, n |-> n + 1] \in Step
BY DEF Step

\* The one step of a heavy correction ...
LEMMA OneIs ==
  ASSUME NEW r \in Step
  PROVE  <<r>> \in Seq(Step) /\ Len(<<r>>) = 1 /\ <<r>>[1] = r
OBVIOUS

\* ... and the two of a runtime correction, with its retry.
LEMMA TwoAre ==
  ASSUME NEW r \in Step, NEW t \in Step
  PROVE  <<r, t>> \in Seq(Step) /\ Len(<<r, t>>) = 2 /\ <<r, t>>[1] = r /\ <<r, t>>[2] = t
OBVIOUS

\* A completed step: the cursor moves on.
LEMMA AdvanceKeepsHistory ==
  ASSUME HistoryInv, AdvanceRun
  PROVE  HistoryInv'
<1>1. /\ run \in RunRows /\ exec \in Executions /\ exec.pc = "next" /\ exec.status = "completed"
      /\ run.step < Len(run.plan) /\ run.step \in Nat /\ Len(run.plan) \in Nat
      /\ UNCHANGED <<tree, records, crashes, resumes>> /\ NextIteration
  BY LenProperties DEF HistoryInv, BaseInv, AdvanceRun, InStep, RunRows
<1>2. PICK status \in RunStatus : run' = [run EXCEPT !.status = status, !.step = run.step + 1]
  <2>1. run' = [run EXCEPT !.status = IF LastStep THEN "complete" ELSE "running", !.step = run.step + 1]
    BY Zenon DEF AdvanceRun
  <2>2. (IF LastStep THEN "complete" ELSE "running") \in RunStatus
    BY DEF RunStatus
  <2>3. QED BY <2>1, <2>2, Zenon
<1>3. run' \in RunRows /\ run'.step = run.step + 1 /\ run'.plan = run.plan
  <2>1. run.step + 1 \in Nat
    BY <1>1
  <2>2. QED BY <1>1, <1>2, <2>1 DEF RunRows
<1>4. PlanFits(run'.plan)
  BY <1>3 DEF HistoryInv
<1>5. QED BY <1>1, <1>3, <1>4, IterationIs, MovingKeepsHistory

\* The counter of corrections is the number of the last one in the plan.
LEMMA CountIs ==
  ASSUME HistoryInv, NEW from, NEW k \in Nat, Numbered(run.plan, from, k)
  PROVE  Corrections(from) = k
<1>1. run.plan \in Seq(Step) /\ PlanFits(run.plan)
  BY DEF HistoryInv, BaseInv, RunRows
<1>2. CountOf(run.plan, from) = k
  BY <1>1, Counting
<1>3. QED BY <1>2 DEF CountOf, Corrections

\* A heavy correction goes behind the last step.
LEMMA HeavyKeepsHistory ==
  ASSUME HistoryInv, QueueHeavyCorrection
  PROVE  /\ HistoryInv'
         /\ run'.step = run.step + 1 /\ run.step + 1 = Len(run.plan)
         /\ Len(run'.plan) = Len(run.plan) + 1
         /\ run'.plan[run.step + 2].from = "heavy"
<1>1. /\ run \in RunRows /\ exec \in Executions /\ exec.pc = "next" /\ exec.heavyFix
      /\ run.step < Len(run.plan) /\ run.step \in Nat /\ Len(run.plan) \in Nat
      /\ UNCHANGED <<tree, records, crashes, resumes>> /\ NextIteration
  BY LenProperties DEF HistoryInv, BaseInv, QueueHeavyCorrection, NeedsHeavyCorrection, InStep, RunRows
<1>2. PICK P \in Seq(Step) : P = run.plan /\ PlanFits(P)
  BY <1>1 DEF HistoryInv, RunRows
<1>3. PICK kr \in 0..MaxRuntime : Numbered(P, "runtime", kr)
  BY <1>2 DEF PlanFits
<1>4. PICK kh \in 0..MaxHeavy : Numbered(P, "heavy", kh)
  BY <1>2 DEF PlanFits
<1>5. kr \in Nat /\ kh \in Nat /\ Corrections("heavy") = kh /\ kh < MaxHeavy /\ MaxHeavy \in Nat
  <2>1. kr \in Nat /\ kh \in Nat /\ MaxHeavy \in Nat
    BY <1>3, <1>4, KernelLoopAssumption DEF KernelLoopAssumption
  <2>2. Corrections("heavy") = kh
    BY <1>2, <1>4, <2>1, CountIs
  <2>3. QED BY <1>1, <2>1, <2>2 DEF HistoryInv, CorrectionsFit
<1>6. PICK c \in 1..Len(P) : c = run.step + 1 /\ c = Len(P)
  BY <1>1, <1>2 DEF HistoryInv, CorrectionsFit, LastStep
<1>7. PICK s \in Seq(Step) : /\ s = <<[from |-> "heavy", n |-> kh + 1]>> /\ Len(s) = 1
                             /\ s[1].from = "heavy" /\ s[1].n = kh + 1
  <2>1. PICK r \in Step : r = [from |-> "heavy", n |-> kh + 1]
    BY <1>5, StepIs
  <2>2. r.from = "heavy" /\ r.n = kh + 1
    BY <2>1
  <2>3. QED BY <2>1, <2>2, OneIs, Zenon
<1>8. PICK Q : /\ Q = SpliceIn(s)
               /\ run' = [run EXCEPT !.status = "optimizing", !.step = run.step + 1, !.plan = Q]
  BY <1>5, <1>7, Zenon DEF QueueHeavyCorrection
<1>9. Spliced(P, c, s, Q)
  BY <1>1, <1>2, <1>6, <1>8, Splicing DEF HistoryInv
<1>10. /\ Q \in Seq(Step) /\ Len(Q) = Len(P) + 1
       /\ (\A i \in 1..c : Q[i] = P[i]) /\ Q[c + 1].from = "heavy"
  BY <1>7, <1>9 DEF Spliced
<1>11. run' \in RunRows /\ run'.step = run.step + 1 /\ run'.plan = Q
  <2>1. "optimizing" \in RunStatus
    BY DEF RunStatus
  <2>2. PICK r \in RunRows : r = run
    BY <1>1
  <2>3. PICK row : row = run'
    OBVIOUS
  <2>3a. row = [r EXCEPT !.status = "optimizing", !.step = r.step + 1, !.plan = Q]
    BY <1>8, <2>2, <2>3, Zenon
  <2>7. r.step + 1 \in Nat /\ Q \in Seq(Step)
    BY <1>10, <2>2 DEF RunRows
  <2>4. row \in RunRows /\ row.step = r.step + 1 /\ row.plan = Q
    BY <2>1, <2>2, <2>3a, <2>7 DEF RunRows
  <2>5. QED BY <2>2, <2>3, <2>4
<1>12. Fresh(P, c, s)
  <2>1. P[c].from # "runtime"
    <3>1. c \in DOMAIN P /\ ~(c < Len(P))
      BY <1>1, <1>2, <1>6, LenProperties
    <3>2. QED BY <1>2, <3>1, Zenon DEF PlanFits
  <2>2. \A j \in DOMAIN P : ~(P[j].from = "heavy" /\ P[j].n = kh + 1)
    BY <1>4, <1>5 DEF Numbered
  <2>3. QED BY <1>7, <2>1, <2>2 DEF Fresh
<1>13. Numbered(Q, "runtime", kr)
  <2>1. GoOn(s, "runtime", kr, kr)
    BY <1>7 DEF GoOn
  <2>2. QED BY <1>3, <1>5, <1>9, <2>1, NumbersAfter
<1>14. Numbered(Q, "heavy", kh + 1)
  <2>1. GoOn(s, "heavy", kh, kh + 1)
    BY <1>5, <1>7 DEF GoOn
  <2>2. kh + 1 \in Nat
    BY <1>5
  <2>3. QED BY <1>4, <1>5, <1>9, <2>1, <2>2, NumbersAfter
<1>15. PlanFits(Q)
  <2>1. kh + 1 \in 0..MaxHeavy
    BY <1>5
  <2>2. QED BY <1>2, <1>3, <1>9, <1>12, <1>13, <1>14, <2>1, SplicingKeeps
<1>16. run.step + 1 <= Len(Q) /\ Len(run.plan) <= Len(Q) /\ run.step + 1 < Len(Q)
  <2>1. Len(Q) = Len(run.plan) + 1
    BY <1>2, <1>10
  <2>2. run.step \in Nat /\ Len(run.plan) \in Nat /\ run.step < Len(run.plan)
    BY <1>1, Zenon
  <2>3. QED BY <2>1, <2>2, SMTT(40)
<1>17. \A i \in 1..run.step + 1 : Q[i] = run.plan[i]
  BY <1>2, <1>6, <1>10
<1>18. run.step + 1 < Len(Q) /\ IsCorrection(Q[run.step + 2])
  <2>1. run.step + 2 = c + 1
    BY <1>1, <1>6
  <2>2. IsCorrection(Q[c + 1])
    BY <1>10 DEF IsCorrection
  <2>3. QED BY <1>16, <2>1, <2>2
<1>19. HistoryInv'
  BY <1>1, <1>11, <1>15, <1>16, <1>17, <1>18, IterationIs, MovingKeepsHistory
<1>20. /\ run.step + 1 = Len(run.plan) /\ Len(run'.plan) = Len(run.plan) + 1
       /\ run'.plan[run.step + 2].from = "heavy"
  <2>1. run.step + 2 = c + 1
    BY <1>1, <1>6
  <2>2. QED BY <1>2, <1>6, <1>10, <1>11, <2>1
<1>21. QED BY <1>11, <1>19, <1>20

\* A runtime correction and its retry go behind the step that failed, and the
\* rest of the plan behind them.
LEMMA RuntimeKeepsHistory ==
  ASSUME HistoryInv, QueueRuntimeCorrection
  PROVE  /\ HistoryInv'
         /\ run'.step = run.step + 1 /\ Len(run'.plan) = Len(run.plan) + 2
         /\ run'.plan[run.step + 2].from = "runtime"
         /\ \A i \in run.step + 2..Len(run.plan) : run'.plan[i + 2] = run.plan[i]
<1>1. /\ run \in RunRows /\ exec \in Executions /\ exec.pc = "next"
      /\ Kind(CurrentStep) = "verify" /\ Corrections("runtime") < MaxRuntime
      /\ run.step < Len(run.plan) /\ run.step \in Nat /\ Len(run.plan) \in Nat
      /\ UNCHANGED <<tree, records, crashes, resumes>> /\ NextIteration
  BY LenProperties DEF HistoryInv, BaseInv, QueueRuntimeCorrection, NeedsRuntimeCorrection, InStep, RunRows
<1>2. PICK P \in Seq(Step) : P = run.plan /\ PlanFits(P)
  BY <1>1 DEF HistoryInv, RunRows
<1>3. PICK kr \in 0..MaxRuntime : Numbered(P, "runtime", kr)
  BY <1>2 DEF PlanFits
<1>4. PICK kh \in 0..MaxHeavy : Numbered(P, "heavy", kh)
  BY <1>2 DEF PlanFits
<1>5. kr \in Nat /\ kh \in Nat /\ Corrections("runtime") = kr /\ kr < MaxRuntime /\ MaxRuntime \in Nat
  <2>1. kr \in Nat /\ kh \in Nat /\ MaxRuntime \in Nat
    BY <1>3, <1>4, KernelLoopAssumption DEF KernelLoopAssumption
  <2>2. Corrections("runtime") = kr
    BY <1>2, <1>3, <2>1, CountIs
  <2>3. QED BY <1>1, <2>1, <2>2
<1>6. PICK c \in 1..Len(P) : c = run.step + 1
  BY <1>1, <1>2
<1>7. PICK s \in Seq(Step) : /\ s = <<[from |-> "runtime", n |-> kr + 1], [from |-> "retry", n |-> kr + 1]>>
                             /\ Len(s) = 2
                             /\ s[1].from = "runtime" /\ s[1].n = kr + 1
                             /\ s[2].from = "retry" /\ s[2].n = kr + 1
  <2>1. PICK r \in Step : r = [from |-> "runtime", n |-> kr + 1]
    BY <1>5, StepIs
  <2>2. PICK t \in Step : t = [from |-> "retry", n |-> kr + 1]
    BY <1>5, StepIs
  <2>3. r.from = "runtime" /\ r.n = kr + 1 /\ t.from = "retry" /\ t.n = kr + 1
    BY <2>1, <2>2
  <2>4. /\ <<r, t>> \in Seq(Step) /\ Len(<<r, t>>) = 2 /\ <<r, t>>[1] = r /\ <<r, t>>[2] = t
    BY TwoAre
  <2>5. QED BY <2>1, <2>2, <2>3, <2>4
<1>8. PICK Q : /\ Q = SpliceIn(s)
               /\ run' = [run EXCEPT !.status = "correcting", !.step = run.step + 1, !.plan = Q]
  BY <1>5, <1>7, Zenon DEF QueueRuntimeCorrection
<1>9. Spliced(P, c, s, Q)
  BY <1>1, <1>2, <1>6, <1>8, Splicing DEF HistoryInv
<1>10. /\ Q \in Seq(Step) /\ Len(Q) = Len(P) + 2
       /\ (\A i \in 1..c : Q[i] = P[i]) /\ Q[c + 1].from = "runtime"
  BY <1>7, <1>9 DEF Spliced
<1>11. run' \in RunRows /\ run'.step = run.step + 1 /\ run'.plan = Q
  <2>1. "correcting" \in RunStatus
    BY DEF RunStatus
  <2>2. PICK r \in RunRows : r = run
    BY <1>1
  <2>3. PICK row : row = run'
    OBVIOUS
  <2>3a. row = [r EXCEPT !.status = "correcting", !.step = r.step + 1, !.plan = Q]
    BY <1>8, <2>2, <2>3, Zenon
  <2>7. r.step + 1 \in Nat /\ Q \in Seq(Step)
    BY <1>10, <2>2 DEF RunRows
  <2>4. row \in RunRows /\ row.step = r.step + 1 /\ row.plan = Q
    BY <2>1, <2>2, <2>3a, <2>7 DEF RunRows
  <2>5. QED BY <2>2, <2>3, <2>4
<1>12. Fresh(P, c, s)
  <2>1. P[c].from # "runtime"
    BY <1>1, <1>2, <1>6 DEF CurrentStep, Kind
  <2>2. \A j \in DOMAIN P : ~(P[j].from = "runtime" /\ P[j].n = kr + 1)
    BY <1>3, <1>5 DEF Numbered
  <2>3. \A j \in DOMAIN P : ~(P[j].from = "retry" /\ P[j].n = kr + 1)
    BY <1>2, <2>2 DEF PlanFits
  <2>4. \A i \in 1..Len(s) : i = 1 \/ i = 2
    BY <1>7
  <2>5. QED BY <1>7, <2>1, <2>2, <2>3, <2>4 DEF Fresh
<1>13. Numbered(Q, "heavy", kh)
  <2>1. GoOn(s, "heavy", kh, kh)
    BY <1>7 DEF GoOn
  <2>2. QED BY <1>4, <1>5, <1>9, <2>1, NumbersAfter
<1>14. Numbered(Q, "runtime", kr + 1)
  <2>1. GoOn(s, "runtime", kr, kr + 1)
    BY <1>5, <1>7 DEF GoOn
  <2>2. kr + 1 \in Nat
    BY <1>5
  <2>3. QED BY <1>3, <1>5, <1>9, <2>1, <2>2, NumbersAfter
<1>15. PlanFits(Q)
  <2>1. kr + 1 \in 0..MaxRuntime
    BY <1>5
  <2>2. QED BY <1>2, <1>4, <1>9, <1>12, <1>13, <1>14, <2>1, SplicingKeeps
<1>16. run.step + 1 <= Len(Q) /\ Len(run.plan) <= Len(Q) /\ run.step + 1 < Len(Q)
  <2>1. Len(Q) = Len(run.plan) + 2
    BY <1>2, <1>10
  <2>2. run.step \in Nat /\ Len(run.plan) \in Nat /\ run.step < Len(run.plan)
    BY <1>1, Zenon
  <2>3. QED BY <2>1, <2>2, SMTT(40)
<1>17. \A i \in 1..run.step + 1 : Q[i] = run.plan[i]
  BY <1>2, <1>6, <1>10
<1>18. run.step + 1 < Len(Q) /\ IsCorrection(Q[run.step + 2])
  <2>1. run.step + 2 = c + 1
    BY <1>1, <1>6
  <2>2. IsCorrection(Q[c + 1])
    BY <1>10 DEF IsCorrection
  <2>3. QED BY <1>16, <2>1, <2>2
<1>19. HistoryInv'
  BY <1>1, <1>11, <1>15, <1>16, <1>17, <1>18, IterationIs, MovingKeepsHistory
<1>20. Len(run'.plan) = Len(run.plan) + 2 /\ run'.plan[run.step + 2].from = "runtime"
  <2>1. run.step + 2 = c + 1
    BY <1>1, <1>6
  <2>2. QED BY <1>2, <1>10, <1>11, <2>1
<1>21. \A i \in run.step + 2..Len(run.plan) : run'.plan[i + 2] = run.plan[i]
  <2>1. run.step + 2 = c + 1
    BY <1>1, <1>6
  <2>2. \A i \in c+1..Len(P) : Q[i + 2] = P[i]
    BY <1>7, <1>9 DEF Spliced
  <2>3. QED BY <1>2, <1>11, <2>1, <2>2
<1>22. QED BY <1>11, <1>19, <1>20, <1>21

(***************************************************************************)
(* The history of a run is recorded.                                       *)
(***************************************************************************)

\* The plan a run is created with.
LEMMA FirstPlan ==
  /\ InitialPlan \in Seq(Step) /\ Len(InitialPlan) = Len(PlanTools) /\ Len(PlanTools) \in Nat \ {0}
  /\ \A i \in 1..Len(PlanTools) : InitialPlan[i].from = "plan" /\ InitialPlan[i].n = i
  /\ DOMAIN InitialPlan = DOMAIN PlanTools /\ DOMAIN PlanTools = 1..Len(PlanTools)
<1>1. /\ Len(PlanTools) \in Nat \ {0} /\ DOMAIN PlanTools = 1..Len(PlanTools)
  BY KernelLoopAssumption, LenProperties, EmptySeq DEF KernelLoopAssumption
<1>2. \A i \in 1..Len(PlanTools) : [from |-> "plan", n |-> i] \in Step
  BY <1>1 DEF Step
<1>3. InitialPlan \in [1..Len(PlanTools) -> Step]
  BY <1>1, <1>2 DEF InitialPlan
<1>4. InitialPlan \in Seq(Step) /\ DOMAIN InitialPlan = 1..Len(PlanTools)
  BY <1>1, <1>3, SeqDef
<1>5. Len(InitialPlan) = Len(PlanTools)
  BY <1>1, <1>4, LenProperties
<1>6. \A i \in 1..Len(PlanTools) : InitialPlan[i].from = "plan" /\ InitialPlan[i].n = i
  BY <1>1 DEF InitialPlan
<1>7. QED BY <1>1, <1>4, <1>5, <1>6

\* A queued run has its first plan and no records.
LEMMA HistoryStart == LoopInit => HistoryInv
<1> SUFFICES ASSUME LoopInit PROVE HistoryInv
  OBVIOUS
<1>1. /\ run = [status |-> "queued", step |-> 0, plan |-> InitialPlan,
                current |-> NoCommit, lastValid |-> NoCommit, job |-> TRUE]
      /\ tree = [head |-> <<>>, dirty |-> FALSE]
      /\ records = {} /\ exec = NoExec /\ crashes = 0 /\ resumes = 0
  BY DEF LoopInit
<1>2. run.step = 0 /\ run.plan = InitialPlan
  BY <1>1
<1>3. BaseInv
  <2>1. run \in RunRows
    BY <1>1, FirstPlan DEF RunRows, RunStatus
  <2>2. tree \in Trees
    BY <1>1, EmptySeq DEF Trees, Commit
  <2>3. crashes \in 0..MaxCrashes /\ resumes \in 0..MaxResumes
    BY <1>1, KernelLoopAssumption DEF KernelLoopAssumption
  <2>4. exec \in Executions /\ exec.pc = "idle" /\ ~exec.heavyFix
    BY <1>1, NoExecIn
  <2>5. QED BY <1>1, <1>2, <2>1, <2>2, <2>3, <2>4, FirstPlan DEF BaseInv, InStep
<1>4. exec.pc = "idle" /\ ~exec.heavyFix
  BY <1>1, NoExecIn
<1>5. RecordsFit
  <2>1. Gapless({})
    <3> SUFFICES ASSUME NEW i \in Nat
                 PROVE  \E k \in Nat : \A n \in Nat : n \in 1..k <=> \E r \in {} : r.index = i /\ r.attempt = n
      BY DEF Gapless
    <3>1. \A n \in Nat : n \in 1..0 <=> \E r \in {} : r.index = i /\ r.attempt = n
      OBVIOUS
    <3>2. QED BY <3>1
  <2>2. QED BY <1>1, <1>4, <2>1 DEF RecordsFit
<1>6. ProgressIsRecorded
  BY <1>2 DEF ProgressIsRecorded
<1>7. PlanFits(run.plan)
  <2>1. \E k \in 0..MaxRuntime : Numbered(InitialPlan, "runtime", k)
    <3>1. Numbered(InitialPlan, "runtime", 0)
      BY FirstPlan DEF Numbered
    <3>2. QED BY <3>1, KernelLoopAssumption DEF KernelLoopAssumption
  <2>2. \E k \in 0..MaxHeavy : Numbered(InitialPlan, "heavy", k)
    <3>1. Numbered(InitialPlan, "heavy", 0)
      BY FirstPlan DEF Numbered
    <3>2. QED BY <3>1, KernelLoopAssumption DEF KernelLoopAssumption
  <2>3. QED BY <1>2, <2>1, <2>2, FirstPlan DEF PlanFits
<1>8. CorrectionsFit
  BY <1>4 DEF CorrectionsFit
<1>9. QED BY <1>3, <1>5, <1>6, <1>7, <1>8 DEF HistoryInv

\* Every step of the loop, every crash and every resume keeps the invariant.
LEMMA HistoryStep ==
  ASSUME HistoryInv, [LoopNext]_loopVars
  PROVE  HistoryInv'
<1>1. CASE QuietStep
  BY <1>1, QuietIsQuiet, QuietKeepsHistory DEF HistoryInv
<1>2. CASE RecordStep
  BY <1>2, RecordKeepsHistory
<1>3. CASE AdvanceRun
  BY <1>3, AdvanceKeepsHistory
<1>4. CASE QueueHeavyCorrection
  BY <1>4, HeavyKeepsHistory
<1>5. CASE QueueRuntimeCorrection
  BY <1>5, RuntimeKeepsHistory
<1>6. CASE UNCHANGED loopVars
  <2>1. Quiet
    BY <1>6 DEF HistoryInv, BaseInv, Quiet, loopVars, InStep
  <2>2. QED BY <2>1, QuietKeepsHistory
<1>7. QED
  BY <1>1, <1>2, <1>3, <1>4, <1>5, <1>6, Zenon DEF LoopNext, LoopStep, QuietStep

\* The invariant gives the history.
LEMMA HistoryHolds ==
  ASSUME HistoryInv
  PROVE  HistoryIsRecorded
<1>1. BaseInv /\ RecordsFit /\ ProgressIsRecorded /\ PlanFits(run.plan)
  BY DEF HistoryInv
<1>2. LoopTypeOK
  <2>1. \A r \in records :
          r \in [index : Nat, attempt : Nat \ {0}, id : Step,
                 status : {"completed", "failed"}, commit : Commit \union {NoCommit}]
    BY <1>1 DEF BaseInv, StepRecords
  <2>2. QED BY <1>1, <2>1, Zenon DEF BaseInv, LoopTypeOK, RunRows, Trees, Executions
<1>3. RecordsMatchPlan
  <2>1. ASSUME NEW r \in records, NEW n \in 1..(r.attempt - 1)
        PROVE  \E q \in records : q.index = r.index /\ q.attempt = n
    <3>1. r.index \in Nat /\ r.attempt \in Nat \ {0}
      BY <1>1 DEF BaseInv, StepRecords
    <3>2. PICK k \in Nat : \A m \in Nat : m \in 1..k <=> \E q \in records : q.index = r.index /\ q.attempt = m
      BY <1>1, <3>1 DEF RecordsFit, Gapless
    <3>3. r.attempt \in 1..k
      BY <3>1, <3>2
    <3>4. n \in Nat /\ n \in 1..k
      BY <3>1, <3>3
    <3>5. QED BY <3>2, <3>4
  <2>2. \A r \in records : r.index < Len(run.plan) /\ r.id = run.plan[r.index + 1]
    BY <1>1 DEF RecordsFit
  <2>3. \A r, q \in records : r.index = q.index /\ r.attempt = q.attempt => r = q
    BY <1>1 DEF RecordsFit
  <2>4. QED BY <2>1, <2>2, <2>3, Zenon DEF RecordsMatchPlan
<1>4. PlanWellFormed
  <2>1. PICK P \in Seq(Step) : P = run.plan
    BY <1>1 DEF BaseInv, RunRows
  <2>2. PlanFits(P) /\ DOMAIN P = 1..Len(P) /\ Len(P) \in Nat /\ (\A i \in DOMAIN P : P[i] \in Step)
    BY <1>1, <2>1, LenProperties, ElementOfSeq
  <2>3. Corrections("runtime") <= MaxRuntime
    <3>1. PICK k \in 0..MaxRuntime : Numbered(run.plan, "runtime", k)
      BY <2>1, <2>2 DEF PlanFits
    <3>2. k \in Nat /\ k <= MaxRuntime
      BY <3>1, KernelLoopAssumption DEF KernelLoopAssumption
    <3>3. QED BY <3>1, <3>2, CountIs
  <2>4. Corrections("heavy") <= MaxHeavy
    <3>1. PICK k \in 0..MaxHeavy : Numbered(run.plan, "heavy", k)
      BY <2>1, <2>2 DEF PlanFits
    <3>2. k \in Nat /\ k <= MaxHeavy
      BY <3>1, KernelLoopAssumption DEF KernelLoopAssumption
    <3>3. QED BY <3>1, <3>2, CountIs
  <2>5. IsInjective(P)
    BY <2>2 DEF IsInjective, PlanFits
  <2>6. ASSUME NEW i \in DOMAIN P, P[i].from = "runtime"
        PROVE  i < Len(P) /\ P[i + 1] = [P[i] EXCEPT !.from = "retry"]
    <3>1. i < Len(P) /\ P[i + 1].from = "retry" /\ P[i + 1].n = P[i].n
      BY <2>2, <2>6 DEF PlanFits
    <3>2. P[i] \in Step /\ P[i + 1] \in Step
      BY <2>2, <3>1
    <3>3. QED BY <3>1, <3>2 DEF Step
  <2>7. {P[i] : i \in {j \in DOMAIN P : P[j].from = "plan"}} = Range(InitialPlan)
    <3>1. ASSUME NEW i \in DOMAIN P, P[i].from = "plan" PROVE P[i] \in Range(InitialPlan)
      <4>1. P[i].n \in DOMAIN PlanTools /\ P[i] \in Step
        BY <2>2, <3>1 DEF PlanFits
      <4>2. P[i] = [from |-> "plan", n |-> P[i].n]
        BY <3>1, <4>1 DEF Step
      <4>3. InitialPlan[P[i].n] = [from |-> "plan", n |-> P[i].n]
        BY <4>1 DEF InitialPlan
      <4>4. QED BY <4>1, <4>2, <4>3, FirstPlan DEF Range
    <3>2. ASSUME NEW m \in DOMAIN InitialPlan
          PROVE  \E i \in DOMAIN P : P[i].from = "plan" /\ P[i] = InitialPlan[m]
      <4>1. m \in DOMAIN PlanTools
        BY FirstPlan
      <4>2. PICK i \in DOMAIN P : P[i].from = "plan" /\ P[i].n = m
        BY <2>2, <4>1 DEF PlanFits
      <4>3. P[i] \in Step
        BY <2>2
      <4>4. P[i] = [from |-> "plan", n |-> m]
        BY <4>2, <4>3 DEF Step
      <4>5. InitialPlan[m] = [from |-> "plan", n |-> m]
        BY <4>1 DEF InitialPlan
      <4>6. QED BY <4>2, <4>4, <4>5
    <3>3. QED BY <3>1, <3>2 DEF Range
  <2>8. \A i, j \in DOMAIN P : P[i].from = "plan" /\ P[j].from = "plan" /\ i < j => P[i].n < P[j].n
    BY <2>2 DEF PlanFits
  <2>9. IsInjective(run.plan)
    BY <2>1, <2>5
  <2>10. \A i \in DOMAIN run.plan : run.plan[i].from = "runtime" =>
           i < Len(run.plan) /\ run.plan[i + 1] = [run.plan[i] EXCEPT !.from = "retry"]
    BY <2>1, <2>6
  <2>11. {run.plan[i] : i \in {j \in DOMAIN run.plan : run.plan[j].from = "plan"}} = Range(InitialPlan)
    BY <2>1, <2>7
  <2>12. \A i, j \in DOMAIN run.plan :
           run.plan[i].from = "plan" /\ run.plan[j].from = "plan" /\ i < j => run.plan[i].n < run.plan[j].n
    BY <2>1, <2>8
  <2>13. QED BY <2>3, <2>4, <2>9, <2>10, <2>11, <2>12, Zenon DEF PlanWellFormed
<1>5. QED BY <1>1, <1>2, <1>3, <1>4 DEF HistoryIsRecorded

\* The invariant of the loop holds for every plan and budget, whatever fails and
\* however often the process crashes or the run is resumed.
THEOREM LoopIsInductive == LoopSpec => []HistoryInv
BY HistoryStart, HistoryStep, PTL DEF LoopSpec

\* What is behind the cursor was done and recorded, records agree with the plan,
\* attempts have no gap, and the plan only grew by the corrections its budget
\* allows (agent/kernel.ts, executeLoop and its correction branches).
THEOREM HistoryIsAlwaysRecorded == LoopSpec => []HistoryIsRecorded
BY LoopIsInductive, HistoryHolds, PTL

(***************************************************************************)
(* Steps start in a clean worktree.                                        *)
(***************************************************************************)

\* What the heavy validation after the last step leaves alone.
LEMMA HeavyIs ==
  ASSUME BaseInv, HeavyValidation
  PROVE  /\ exec.pc = "validating" /\ exec'.pc = "record"
         /\ exec'.commit = exec.commit /\ exec'.session = exec.session
         /\ exec'.status = "completed" => exec.status = "completed"
         /\ UNCHANGED <<run, tree, records, crashes, resumes>>
<1>1. exec.pc = "validating" /\ UNCHANGED <<run, tree, records, crashes, resumes>> /\ exec \in Executions
  BY DEF HeavyValidation, BaseInv
<1>2. PICK failed : failed = [exec EXCEPT !.pc = "record", !.status = "failed", !.rollback = TRUE]
  OBVIOUS
<1>3. /\ failed \in Executions /\ failed.pc = "record" /\ failed.status = "failed"
      /\ failed.commit = exec.commit /\ failed.session = exec.session
  BY <1>1, <1>2 DEF Executions, LoopPC
<1>4. \/ exec' = [exec EXCEPT !.pc = "record", !.blockedBefore = FALSE]
      \/ exec' = failed
      \/ exec' = [failed EXCEPT !.blockedBefore = TRUE]
      \/ exec' = [exec EXCEPT !.pc = "record", !.heavyFix = TRUE, !.blockedBefore = TRUE]
  BY <1>2, Zenon DEF HeavyValidation
<1>5. QED BY <1>1, <1>3, <1>4 DEF Executions

\* What recording a step changes: only its record, with the step's commit.
LEMMA RecordIs ==
  ASSUME BaseInv, RecordStep
  PROVE  /\ exec.pc = "record" /\ exec'.pc = "next" /\ exec'.session = exec.session
         /\ exec'.heavyFix = exec.heavyFix
         /\ UNCHANGED <<run, tree, crashes, resumes>>
         /\ exec'.status = "completed" => exec.status = "completed"
         /\ \E s : s.status = exec'.status /\ s.commit = exec.commit /\ records' = records \union {s}
<1>1. exec.pc = "record" /\ UNCHANGED <<run, tree, crashes, resumes>> /\ exec \in Executions
  BY DEF RecordStep, BaseInv
<1>2. PICK violated \in BOOLEAN :
        /\ exec' = [exec EXCEPT !.pc = "next", !.status = IF violated THEN "failed" ELSE exec.status,
                                !.rollback = exec.rollback \/ violated]
        /\ records' = records \union
             {[index |-> run.step, attempt |-> NextAttempt(run.step), id |-> CurrentStep,
               status |-> IF violated THEN "failed" ELSE exec.status, commit |-> exec.commit]}
  BY Zenon DEF RecordStep
<1>3. PICK status : status = IF violated THEN "failed" ELSE exec.status
  OBVIOUS
<1>4. PICK s : s = [index |-> run.step, attempt |-> NextAttempt(run.step), id |-> CurrentStep,
                    status |-> status, commit |-> exec.commit]
  OBVIOUS
<1>5. s.status = status /\ s.commit = exec.commit /\ records' = records \union {s}
  BY <1>2, <1>3, <1>4
<1>6. PICK back : back = (exec.rollback \/ violated)
  OBVIOUS
<1>7. exec' = [exec EXCEPT !.pc = "next", !.status = status, !.rollback = back]
  BY <1>2, <1>3, <1>6, Zenon
<1>8. exec'.pc = "next" /\ exec'.session = exec.session /\ exec'.heavyFix = exec.heavyFix /\ exec'.status = status
  BY <1>1, <1>7 DEF Executions
<1>9. status = "completed" => exec.status = "completed"
  BY <1>3
<1>10. QED BY <1>1, <1>5, <1>8, <1>9

\* The steps that move the cursor.
PlanMoves == AdvanceRun \/ QueueHeavyCorrection \/ QueueRuntimeCorrection

\* They begin an iteration and leave the commits of the run row alone.
LEMMA MoveIs ==
  ASSUME BaseInv, PlanMoves
  PROVE  /\ exec.pc = "next" /\ exec'.pc = "step" /\ exec'.commit = NoCommit
         /\ exec'.session = exec.session /\ ~exec'.heavyFix
         /\ run'.current = run.current /\ run'.lastValid = run.lastValid /\ run'.job = run.job
         /\ UNCHANGED <<tree, records, crashes, resumes>>
<1>1. exec.pc = "next" /\ NextIteration /\ UNCHANGED <<tree, records, crashes, resumes>>
  BY DEF PlanMoves, AdvanceRun, QueueHeavyCorrection, QueueRuntimeCorrection
<1>2. run \in RunRows /\ exec \in Executions
  BY DEF BaseInv
<1>3. \E status, Q : \/ run' = [run EXCEPT !.status = status, !.step = run.step + 1, !.plan = Q]
                     \/ run' = [run EXCEPT !.status = status, !.step = run.step + 1]
  BY Zenon DEF PlanMoves, AdvanceRun, QueueHeavyCorrection, QueueRuntimeCorrection
<1>4. run'.current = run.current /\ run'.lastValid = run.lastValid /\ run'.job = run.job
  BY <1>2, <1>3 DEF RunRows
<1>5. QED BY <1>1, <1>2, <1>4, IterationIs

\* The worktree is dirty only before its recovery, while a step is staged, or after
\* the loop has thrown.
CleanInv ==
  tree.dirty => exec.pc \in {"idle", "context", "recover", "staged", "release"}

\* As long as git answers, every step keeps that.
LEMMA CleanStep ==
  ASSUME BaseInv, CleanInv, "git_error" \notin Faults, [LoopNext]_loopVars
  PROVE  CleanInv'
<1>0. /\ run \in RunRows /\ tree \in Trees /\ exec \in Executions
  BY DEF BaseInv
<1> USE <1>0 DEF Goto, StepEnds, CleanInv, Executions, Trees, BeginStep
<1>1. CASE EnterLoop BY <1>1 DEF EnterLoop
<1>2. CASE EnsureContext BY <1>2 DEF EnsureContext
<1>3. CASE RecoverWorkspace BY <1>3 DEF RecoverWorkspace
<1>4. CASE PointAtLastValid BY <1>4 DEF PointAtLastValid
<1>5. CASE StartLoop BY <1>5 DEF StartLoop
<1>6. CASE EndLoop BY <1>6 DEF EndLoop
<1>7. CASE Analyze BY <1>7 DEF Analyze
<1>8. CASE VerifyRuntime BY <1>8 DEF VerifyRuntime
<1>9. CASE ModifyNothing BY <1>9 DEF ModifyNothing
<1>10. CASE ApplyChanges BY <1>10 DEF ApplyChanges
<1>11. CASE RejectChanges BY <1>11 DEF RejectChanges
<1>12. CASE CommitFails BY <1>12 DEF CommitFails
<1>13. CASE CommitStep BY <1>13 DEF CommitStep
<1>14. CASE CommitNothing BY <1>14, NothingIs
<1>15. CASE PersistPointers BY <1>15, PointersAre
<1>16. CASE BeginHeavyValidation BY <1>16 DEF BeginHeavyValidation
<1>17. CASE HeavyValidation BY <1>17, HeavyIs
<1>18. CASE PlanningFails BY <1>18 DEF PlanningFails
<1>19. CASE RollBack BY <1>19 DEF RollBack
<1>20. CASE FailRun BY <1>20 DEF FailRun
<1>21. CASE Throw BY <1>21 DEF Throw
<1>22. CASE SettleJob BY <1>22 DEF SettleJob, NoExec
<1>23. CASE Crash BY <1>23 DEF Crash, NoExec
<1>24. CASE ResumeRun BY <1>24 DEF ResumeRun
<1>25. CASE RecordStep BY <1>25, RecordIs
<1>26. CASE PlanMoves BY <1>26, MoveIs
<1>27. CASE UNCHANGED loopVars BY <1>27 DEF loopVars
<1>28. QED
  BY <1>1, <1>2, <1>3, <1>4, <1>5, <1>6, <1>7, <1>8, <1>9, <1>10, <1>11, <1>12, <1>13,
     <1>14, <1>15, <1>16, <1>17, <1>18, <1>19, <1>20, <1>21, <1>22, <1>23, <1>24, <1>25,
     <1>26, <1>27, Zenon DEF LoopNext, LoopStep, PlanMoves

\* No step starts on what an interrupted or refused step left in the worktree,
\* whatever the store does and however often the process crashes, as long as git
\* answers (agent/kernel.ts, recoverRunWorkspaceIfNeeded and the aborts of a step).
THEOREM StepsStartClean ==
  ASSUME "git_error" \notin Faults
  PROVE  LoopSpec => []CleanAtStepStart
<1>1. LoopInit => CleanInv
  BY DEF LoopInit, CleanInv
<1>2. HistoryInv /\ CleanInv /\ [LoopNext]_loopVars => CleanInv'
  BY CleanStep DEF HistoryInv
<1>3. CleanInv => CleanAtStepStart
  BY DEF CleanInv, CleanAtStepStart
<1>4. QED BY <1>1, <1>2, <1>3, LoopIsInductive, PTL DEF LoopSpec

(***************************************************************************)
(* Completed commits stay.                                                 *)
(***************************************************************************)

\* Commit c has every step in it that was recorded as completed.
Covers(R, c) ==
  \A r \in R : r.status = "completed" /\ r.commit # NoCommit => IsPrefix(r.commit, c)

\* All that `git reset --hard' may go back to covers the records: HEAD, the last
\* valid and the current commit of the run row, and the commit the session of the
\* process began at; and the commit of a step that is to be recorded as completed
\* is HEAD and already in the run row.
CommitsInv ==
  /\ Covers(records, tree.head)
  /\ run.lastValid # NoCommit => Covers(records, run.lastValid)
  /\ run.current # NoCommit => Covers(records, run.current)
  /\ exec.pc \in InStep \cup {"step"} => Covers(records, exec.session)
  /\ exec.pc \in {"step", "staged"} => exec.commit = NoCommit
  /\ exec.pc = "committed" /\ exec.commit # NoCommit =>
       exec.commit = exec.session /\ exec.session = tree.head
  /\ exec.pc \in {"executed", "validating", "record"} /\ exec.commit # NoCommit
       /\ exec.status = "completed" =>
         /\ exec.commit = exec.session /\ exec.session = tree.head
         /\ run.current = exec.commit /\ run.lastValid = exec.commit

\* A commit on top of a commit goes on from whatever that went on from.
LEMMA PrefixOfAppend ==
  ASSUME NEW s \in Seq(Step), NEW t \in Seq(Step), NEW e \in Step, IsPrefix(s, t)
  PROVE  IsPrefix(s, Append(t, e))
<1>1. Len(s) \in Nat /\ Len(t) \in Nat /\ Len(s) <= Len(t) /\ SubSeq(s, 1, Len(s)) = SubSeq(t, 1, Len(s))
  BY LenProperties DEF IsPrefix
<1>2. /\ Append(t, e) \in Seq(Step) /\ Len(Append(t, e)) = Len(t) + 1
      /\ \A i \in 1..Len(t) : Append(t, e)[i] = t[i]
  BY AppendProperties
<1>3. \A i \in 1..Len(s) : t[i] \in Step /\ Append(t, e)[i] \in Step /\ Append(t, e)[i] = t[i]
  BY <1>1, <1>2, ElementOfSeq
<1>4. /\ SubSeq(t, 1, Len(s)) \in Seq(Step)
      /\ Len(SubSeq(t, 1, Len(s))) = (IF 1 <= Len(s) THEN Len(s) - 1 + 1 ELSE 0)
      /\ \A i \in 1..Len(s) - 1 + 1 : SubSeq(t, 1, Len(s))[i] = t[1 + i - 1]
  BY <1>1, <1>3, SubSeqProperties
<1>5. /\ SubSeq(Append(t, e), 1, Len(s)) \in Seq(Step)
      /\ Len(SubSeq(Append(t, e), 1, Len(s))) = (IF 1 <= Len(s) THEN Len(s) - 1 + 1 ELSE 0)
      /\ \A i \in 1..Len(s) - 1 + 1 : SubSeq(Append(t, e), 1, Len(s))[i] = Append(t, e)[1 + i - 1]
  BY <1>1, <1>3, SubSeqProperties
<1>6. SubSeq(Append(t, e), 1, Len(s)) = SubSeq(t, 1, Len(s))
  <2>1. PICK a \in Seq(Step) : a = SubSeq(t, 1, Len(s)) /\ Len(a) = Len(s) /\ \A i \in 1..Len(s) : a[i] = t[i]
    <3>1. Len(SubSeq(t, 1, Len(s))) = Len(s) /\ \A i \in 1..Len(s) : SubSeq(t, 1, Len(s))[i] = t[i]
      BY <1>1, <1>4
    <3>2. QED BY <1>4, <3>1, Zenon
  <2>2. PICK b \in Seq(Step) : /\ b = SubSeq(Append(t, e), 1, Len(s)) /\ Len(b) = Len(s)
                               /\ \A i \in 1..Len(s) : b[i] = Append(t, e)[i]
    <3>1. /\ Len(SubSeq(Append(t, e), 1, Len(s))) = Len(s)
          /\ \A i \in 1..Len(s) : SubSeq(Append(t, e), 1, Len(s))[i] = Append(t, e)[i]
      BY <1>1, <1>5
    <3>2. QED BY <1>5, <3>1, Zenon
  <2>3. \A i \in 1..Len(a) : a[i] = b[i]
    BY <1>3, <2>1, <2>2
  <2>4. Len(a) = Len(b)
    BY <2>1, <2>2
  <2>5. a = b
    BY <2>3, <2>4, SeqEqual
  <2>6. QED BY <2>1, <2>2, <2>5
<1>7. QED BY <1>1, <1>2, <1>6 DEF IsPrefix

\* So HEAD covers the records after one more commit.
LEMMA CoversMore ==
  ASSUME BaseInv, run.step < Len(run.plan), Covers(records, tree.head)
  PROVE  Covers(records, Append(tree.head, CurrentStep))
<1>1. CurrentStep \in Step /\ tree.head \in Seq(Step)
  BY StepIn DEF BaseInv, Trees, Commit
<1>2. ASSUME NEW r \in records, r.status = "completed", r.commit # NoCommit
      PROVE  IsPrefix(r.commit, Append(tree.head, CurrentStep))
  <2>1. r.commit \in Seq(Step)
    BY <1>2 DEF BaseInv, StepRecords, Commit
  <2>2. IsPrefix(r.commit, tree.head)
    BY <1>2 DEF Covers
  <2>3. QED BY <1>1, <2>1, <2>2, PrefixOfAppend
<1>3. QED BY <1>2 DEF Covers

\* Every step of the loop keeps the commits.
LEMMA CommitsStep ==
  ASSUME BaseInv, CommitsInv, [LoopNext]_loopVars
  PROVE  CommitsInv'
<1>0. /\ run \in RunRows /\ tree \in Trees /\ exec \in Executions
      /\ exec.pc \in InStep => run.step < Len(run.plan)
  BY DEF BaseInv
<1> USE <1>0 DEF Goto, StepEnds, CommitsInv, Executions, Trees, RunRows, BeginStep, InStep
<1>1. CASE EnterLoop BY <1>1 DEF EnterLoop
<1>2. CASE EnsureContext BY <1>2 DEF EnsureContext
<1>3. CASE RecoverWorkspace BY <1>3 DEF RecoverWorkspace
<1>4. CASE PointAtLastValid BY <1>4 DEF PointAtLastValid
<1>5. CASE StartLoop BY <1>5 DEF StartLoop, NoExec
<1>6. CASE EndLoop BY <1>6 DEF EndLoop
<1>7. CASE Analyze BY <1>7 DEF Analyze
<1>8. CASE VerifyRuntime BY <1>8 DEF VerifyRuntime
<1>9. CASE ModifyNothing BY <1>9 DEF ModifyNothing
<1>10. CASE ApplyChanges BY <1>10 DEF ApplyChanges
<1>11. CASE RejectChanges BY <1>11 DEF RejectChanges
<1>12. CASE CommitFails BY <1>12, CoversMore DEF CommitFails
<1>13. CASE CommitStep BY <1>13, CoversMore DEF CommitStep
<1>14. CASE CommitNothing BY <1>14, NothingIs
<1>15. CASE PersistPointers BY <1>15, PointersAre
<1>16. CASE BeginHeavyValidation BY <1>16 DEF BeginHeavyValidation
<1>17. CASE HeavyValidation BY <1>17, HeavyIs
<1>18. CASE PlanningFails BY <1>18 DEF PlanningFails
<1>19. CASE RollBack BY <1>19 DEF RollBack
<1>20. CASE FailRun BY <1>20 DEF FailRun
<1>21. CASE Throw BY <1>21 DEF Throw
<1>22. CASE SettleJob BY <1>22 DEF SettleJob, NoExec
<1>23. CASE Crash BY <1>23 DEF Crash, NoExec
<1>24. CASE ResumeRun BY <1>24 DEF ResumeRun
<1>25. CASE RecordStep
  <2>1. PICK s : s.status = exec'.status /\ s.commit = exec.commit /\ records' = records \union {s}
    BY <1>25, RecordIs
  <2>2. /\ exec.pc = "record" /\ exec'.pc = "next" /\ exec'.session = exec.session
        /\ UNCHANGED <<run, tree, crashes, resumes>>
        /\ exec'.status = "completed" => exec.status = "completed"
    BY <1>25, RecordIs
  <2>3. \A c \in Commit : IsPrefix(c, c)
    BY LenProperties DEF Commit, IsPrefix
  <2>4. /\ Covers(records', tree.head)
        /\ run.lastValid # NoCommit => Covers(records', run.lastValid)
        /\ run.current # NoCommit => Covers(records', run.current)
        /\ Covers(records', exec.session)
    BY <2>1, <2>2, <2>3 DEF Covers
  <2>5. QED BY <2>2, <2>4
<1>26. CASE PlanMoves BY <1>26, MoveIs
<1>27. CASE UNCHANGED loopVars BY <1>27 DEF loopVars
<1>28. QED
  BY <1>1, <1>2, <1>3, <1>4, <1>5, <1>6, <1>7, <1>8, <1>9, <1>10, <1>11, <1>12, <1>13,
     <1>14, <1>15, <1>16, <1>17, <1>18, <1>19, <1>20, <1>21, <1>22, <1>23, <1>24, <1>25,
     <1>26, <1>27, Zenon DEF LoopNext, LoopStep, PlanMoves

\* The commit of a step recorded as completed is never lost: no recovery and no
\* rollback goes behind it, whatever fails and whenever the process crashes
\* (agent/kernel.ts, recoverRunWorkspaceIfNeeded and rollbackRunToLastValid).
THEOREM CommitsAlwaysStay == LoopSpec => []CompletedCommitsStay
<1>1. LoopInit => CommitsInv
  <2> SUFFICES ASSUME LoopInit PROVE CommitsInv
    OBVIOUS
  <2>1. records = {} /\ exec.pc = "idle"
    BY DEF LoopInit, NoExec
  <2>2. QED BY <2>1 DEF CommitsInv, Covers, InStep
<1>2. HistoryInv /\ CommitsInv /\ [LoopNext]_loopVars => CommitsInv'
  BY CommitsStep DEF HistoryInv
<1>3. CommitsInv => CompletedCommitsStay
  BY DEF CommitsInv, Covers, CompletedCommitsStay
<1>4. QED BY <1>1, <1>2, <1>3, LoopIsInductive, PTL DEF LoopSpec

(***************************************************************************)
(* A complete run is at the head of its branch.                            *)
(***************************************************************************)

\* Nothing fails and no process crashes.
Calm == Faults = {} /\ MaxCrashes = 0

\* The current commit of the run row is HEAD, but for a step that has just been
\* committed or rolled back, and a run that was never started.
CalmInv ==
  /\ tree.dirty => exec.pc = "staged"
  /\ \/ exec.pc \in {"committed", "rolledback"}
     \/ run.current = tree.head
     \/ run.step = 0 /\ run.status = "queued" /\ exec.pc \in {"idle", "context"}
  /\ exec.pc \in InStep \cup {"step"} => exec.session = tree.head
  /\ exec.pc = "rolledback" => run.lastValid = tree.head
  /\ exec.pc \in InStep \cup {"fail", "rolledback"} => run.status # "complete"
  /\ exec.pc # "recovered"
  /\ run.status = "complete" => ~(run.step < Len(run.plan))

\* What a completed iteration leaves of the status.
LEMMA StatusMoves ==
  ASSUME BaseInv
  PROVE  /\ AdvanceRun => run'.status = IF LastStep THEN "complete" ELSE "running"
         /\ QueueHeavyCorrection => run'.status = "optimizing"
         /\ QueueRuntimeCorrection => run'.status = "correcting"
         /\ PlanMoves => run'.step = run.step + 1
<1>1. run \in RunRows
  BY DEF BaseInv
<1>2. ASSUME AdvanceRun
      PROVE  run'.status = (IF LastStep THEN "complete" ELSE "running") /\ run'.step = run.step + 1
  <2>1. PICK status : status = IF LastStep THEN "complete" ELSE "running"
    OBVIOUS
  <2>2. run' = [run EXCEPT !.status = status, !.step = run.step + 1]
    BY <1>2, <2>1, Zenon DEF AdvanceRun
  <2>3. run'.status = status /\ run'.step = run.step + 1
    BY <1>1, <2>2 DEF RunRows
  <2>4. QED BY <2>1, <2>3
<1>3. ASSUME QueueHeavyCorrection
      PROVE  run'.status = "optimizing" /\ run'.step = run.step + 1
  <2>1. \E Q : run' = [run EXCEPT !.status = "optimizing", !.step = run.step + 1, !.plan = Q]
    BY <1>3, Zenon DEF QueueHeavyCorrection
  <2>2. QED BY <1>1, <2>1 DEF RunRows
<1>4. ASSUME QueueRuntimeCorrection
      PROVE  run'.status = "correcting" /\ run'.step = run.step + 1
  <2>1. \E Q : run' = [run EXCEPT !.status = "correcting", !.step = run.step + 1, !.plan = Q]
    BY <1>4, Zenon DEF QueueRuntimeCorrection
  <2>2. QED BY <1>1, <2>1 DEF RunRows
<1>5. QED BY <1>2, <1>3, <1>4, Zenon DEF PlanMoves

\* Every step of the loop keeps that.
LEMMA CalmStep ==
  ASSUME BaseInv, CalmInv, Calm, [LoopNext]_loopVars
  PROVE  CalmInv'
<1>0. /\ run \in RunRows /\ tree \in Trees /\ exec \in Executions /\ crashes \in 0..MaxCrashes
      /\ exec.pc \in InStep => run.step < Len(run.plan)
  BY DEF BaseInv
<1> USE <1>0 DEF Goto, StepEnds, CalmInv, Calm, Executions, Trees, RunRows, BeginStep, InStep
<1>1. CASE EnterLoop BY <1>1 DEF EnterLoop
<1>2. CASE EnsureContext BY <1>2 DEF EnsureContext
<1>3. CASE RecoverWorkspace BY <1>3 DEF RecoverWorkspace
<1>4. CASE PointAtLastValid BY <1>4 DEF PointAtLastValid
<1>5. CASE StartLoop BY <1>5 DEF StartLoop, NoExec
<1>6. CASE EndLoop BY <1>6 DEF EndLoop
<1>7. CASE Analyze BY <1>7 DEF Analyze
<1>8. CASE VerifyRuntime BY <1>8 DEF VerifyRuntime
<1>9. CASE ModifyNothing BY <1>9 DEF ModifyNothing
<1>10. CASE ApplyChanges BY <1>10 DEF ApplyChanges
<1>11. CASE RejectChanges BY <1>11 DEF RejectChanges
<1>12. CASE CommitFails BY <1>12 DEF CommitFails
<1>13. CASE CommitStep BY <1>13 DEF CommitStep
<1>14. CASE CommitNothing BY <1>14, NothingIs
<1>15. CASE PersistPointers
  <2>1. /\ exec.pc = "committed" /\ exec'.pc = "executed" /\ exec'.session = exec.session
        /\ UNCHANGED <<tree, records, crashes, resumes>>
        /\ run'.plan = run.plan /\ run'.step = run.step /\ run'.status = run.status
    BY <1>15, PointersAre
  <2>2. exec.session = tree.head /\ ~tree.dirty /\ run'.current = exec.session
    BY <1>15, <2>1, PointersAre DEF PersistPointers
  <2>3. QED BY <2>1, <2>2
<1>16. CASE BeginHeavyValidation BY <1>16 DEF BeginHeavyValidation
<1>17. CASE HeavyValidation BY <1>17, HeavyIs
<1>18. CASE PlanningFails BY <1>18 DEF PlanningFails
<1>19. CASE RollBack BY <1>19 DEF RollBack
<1>20. CASE FailRun BY <1>20 DEF FailRun
<1>21. CASE Throw BY <1>21 DEF Throw
<1>22. CASE SettleJob BY <1>22 DEF SettleJob, NoExec
<1>23. CASE Crash BY <1>23 DEF Crash, NoExec
<1>24. CASE ResumeRun BY <1>24 DEF ResumeRun
<1>25. CASE RecordStep BY <1>25, RecordIs
<1>26. CASE PlanMoves
  <2>1. run'.status = "complete" => ~(run'.step < Len(run'.plan))
    <3>1. CASE AdvanceRun
      <4>1. run'.plan = run.plan
        BY <3>1 DEF AdvanceRun
      <4>2. Len(run.plan) \in Nat
        BY LenProperties
      <4>3. QED BY <1>26, <3>1, <4>1, <4>2, StatusMoves DEF LastStep
    <3>2. CASE QueueHeavyCorrection \/ QueueRuntimeCorrection
      BY <3>2, StatusMoves
    <3>3. QED BY <1>26, <3>1, <3>2 DEF PlanMoves
  <2>2. exec.pc = "next" /\ exec'.pc = "step" /\ exec'.session = exec.session
        /\ run'.current = run.current /\ tree' = tree
    BY <1>26, MoveIs
  <2>3. QED BY <2>1, <2>2
<1>27. CASE UNCHANGED loopVars BY <1>27 DEF loopVars
<1>28. QED
  BY <1>1, <1>2, <1>3, <1>4, <1>5, <1>6, <1>7, <1>8, <1>9, <1>10, <1>11, <1>12, <1>13,
     <1>14, <1>15, <1>16, <1>17, <1>18, <1>19, <1>20, <1>21, <1>22, <1>23, <1>24, <1>25,
     <1>26, <1>27, Zenon DEF LoopNext, LoopStep, PlanMoves

\* A complete run is at the head of its branch in a clean worktree.  With a store
\* that fails or a process that dies between a commit and the update of the run
\* row it need not be (agent/kernel.ts, executeLoop).
THEOREM CompleteRunsAreAtHead ==
  ASSUME Faults = {}, MaxCrashes = 0
  PROVE  LoopSpec => []CompleteRunIsAtHead
<1>1. LoopInit => CalmInv
  <2> SUFFICES ASSUME LoopInit PROVE CalmInv
    OBVIOUS
  <2>1. ~tree.dirty /\ exec.pc = "idle" /\ run.step = 0 /\ run.status = "queued"
    BY DEF LoopInit, NoExec
  <2>2. QED BY <2>1 DEF CalmInv, InStep
<1>2. HistoryInv /\ CalmInv /\ [LoopNext]_loopVars => CalmInv'
  BY CalmStep DEF HistoryInv, Calm
<1>3. CalmInv => CompleteRunIsAtHead
  BY DEF CalmInv, CompleteRunIsAtHead, InStep
<1>4. QED BY <1>1, <1>2, <1>3, LoopIsInductive, PTL DEF LoopSpec

(***************************************************************************)
(* The status follows the graph.                                           *)
(***************************************************************************)

\* The statuses of a run that is under way and not validated.
Undecided == {"running", "correcting", "optimizing"}

\* A step of the plan is up or under way.
AtStep == (exec.pc = "step" /\ run.step < Len(run.plan)) \/ exec.pc \in InStep

\* What the status says of where the loop stands: a correction is up when it is
\* correcting or optimizing, and validation runs when it is validating.
StatusInv ==
  /\ run.job /\ exec.pc = "idle" => run.status = "queued"
  /\ exec.pc \in {"context", "recover", "start"} => run.status = "queued"
  /\ exec.pc = "release" \/ ~run.job => run.status \in {"failed", "complete"}
  /\ exec.pc # "idle" => run.job
  /\ run.status = "complete" <=> ~(run.step < Len(run.plan))
  /\ Kind(run.plan[Len(run.plan)]) # "verify"
  /\ AtStep \/ exec.pc \in {"fail", "rolledback"} => run.status \in Undecided \cup {"validating"}
  /\ AtStep /\ exec.pc \notin {"validating", "record", "next"} => run.status # "validating"
  /\ exec.pc = "validating" => run.status = "validating"
  /\ AtStep /\ run.status = "validating" => LastStep
  /\ exec.pc \in {"record", "next"} /\ exec.heavyFix => run.status = "validating"
  /\ AtStep /\ run.status = "correcting" => CurrentStep.from = "runtime"
  /\ AtStep /\ run.status = "optimizing" => CurrentStep.from = "heavy"

\* The edges of the graph, and staying.
Edge(from, to) == to = from \/ to \in RunGraph[from]

\* The edges of the graph, one by one.
LEMMA Edges ==
  /\ Edge("queued", "running") /\ Edge("failed", "queued")
  /\ \A from \in Undecided \cup {"validating"} : Edge(from, "failed") /\ Edge(from, "running")
  /\ \A from \in Undecided : Edge(from, "validating")
  /\ Edge("running", "correcting") /\ Edge("validating", "optimizing")
  /\ \A from \in {"running", "optimizing", "validating"} : Edge(from, "complete")
  /\ \A from \in RunStatus : Edge(from, from)
BY DEF Edge, RunGraph, Undecided, RunStatus

\* A runtime correction is never the last step.
LEMMA CorrectingIsNotLast ==
  ASSUME HistoryInv, StatusInv, AtStep, run.status = "correcting"
  PROVE  ~LastStep
<1>1. /\ run.step < Len(run.plan) /\ run.step \in Nat /\ Len(run.plan) \in Nat
      /\ DOMAIN run.plan = 1..Len(run.plan)
  BY LenProperties DEF AtStep, HistoryInv, BaseInv, RunRows
<1>2. run.plan[run.step + 1].from = "runtime" /\ run.step + 1 \in DOMAIN run.plan
  BY <1>1 DEF StatusInv, CurrentStep
<1>3. run.step + 1 < Len(run.plan)
  BY <1>2 DEF HistoryInv, PlanFits
<1>4. QED BY <1>1, <1>3 DEF LastStep

\* Every step of the loop keeps that, and goes along an edge.
LEMMA StatusStep ==
  ASSUME HistoryInv, CalmInv, StatusInv, Calm, [LoopNext]_loopVars
  PROVE  StatusInv' /\ Edge(run.status, run'.status)
<1>0. /\ run \in RunRows /\ tree \in Trees /\ exec \in Executions /\ crashes \in 0..MaxCrashes
      /\ exec.pc \in InStep => run.step < Len(run.plan)
      /\ exec.pc = "validating" => LastStep
      /\ exec.heavyFix => exec.pc \in {"record", "next", "release"}
      /\ exec.pc # "recovered" /\ (tree.dirty => exec.pc = "staged")
  BY DEF HistoryInv, BaseInv, CorrectionsFit, CalmInv
<1>a. run'.plan = run.plan /\ run'.step = run.step =>
        /\ LastStep' = LastStep /\ CurrentStep' = CurrentStep
        /\ Kind(run.plan[Len(run.plan)])' = Kind(run.plan[Len(run.plan)])
  BY DEF LastStep, CurrentStep, Kind
<1>b. \A s : s.from \in {"runtime", "heavy"} => Kind(s) = "modify"
  BY DEF Kind
<1> USE <1>0, <1>a, Edges DEF Goto, StepEnds, StatusInv, Calm, Executions, Trees, RunRows, BeginStep, InStep, AtStep, Undecided, RunStatus
<1>1. CASE EnterLoop BY <1>1 DEF EnterLoop
<1>2. CASE EnsureContext BY <1>2 DEF EnsureContext
<1>3. CASE RecoverWorkspace BY <1>3 DEF RecoverWorkspace
<1>4. CASE PointAtLastValid BY <1>4 DEF PointAtLastValid
<1>5. CASE StartLoop BY <1>5 DEF StartLoop, NoExec
<1>6. CASE EndLoop BY <1>6 DEF EndLoop
<1>7. CASE Analyze BY <1>7 DEF Analyze
<1>8. CASE VerifyRuntime BY <1>8 DEF VerifyRuntime
<1>9. CASE ModifyNothing
  <2>1. PICK status : exec' = [exec EXCEPT !.pc = "executed", !.status = status]
    BY <1>9, Zenon DEF ModifyNothing
  <2>2. exec'.pc = "executed" /\ exec'.heavyFix = exec.heavyFix
    BY <2>1
  <2>3. exec.pc = "step" /\ run.step < Len(run.plan) /\ UNCHANGED <<run, tree, records, crashes, resumes>>
    BY <1>9 DEF ModifyNothing
  <2>4. QED BY <2>2, <2>3
<1>10. CASE ApplyChanges BY <1>10 DEF ApplyChanges
<1>11. CASE RejectChanges BY <1>11 DEF RejectChanges
<1>12. CASE CommitFails BY <1>12 DEF CommitFails
<1>13. CASE CommitStep BY <1>13 DEF CommitStep
<1>14. CASE CommitNothing BY <1>14, NothingIs DEF HistoryInv
<1>15. CASE PersistPointers BY <1>15, PointersAre DEF HistoryInv
<1>16. CASE BeginHeavyValidation BY <1>16 DEF BeginHeavyValidation, NeedsHeavyValidation
<1>17. CASE HeavyValidation BY <1>17, HeavyIs, QuietIsQuiet DEF HistoryInv, QuietStep, Quiet
<1>18. CASE PlanningFails BY <1>18 DEF PlanningFails
<1>19. CASE RollBack BY <1>19 DEF RollBack, NeedsRollback, NeedsHeavyCorrection
<1>20. CASE FailRun BY <1>20 DEF FailRun, NeedsHeavyCorrection
<1>21. CASE Throw BY <1>21 DEF Throw
<1>22. CASE SettleJob BY <1>22 DEF SettleJob, NoExec
<1>23. CASE Crash BY <1>23 DEF Crash, NoExec
<1>24. CASE ResumeRun BY <1>24 DEF ResumeRun
<1>25. CASE RecordStep BY <1>25, RecordIs DEF HistoryInv
<1>26. CASE AdvanceRun
  <2>1. /\ run'.plan = run.plan /\ run'.step = run.step + 1 /\ Len(run.plan) \in Nat
        /\ run'.status = IF LastStep THEN "complete" ELSE "running"
    BY <1>26, StatusMoves, LenProperties DEF AdvanceRun, PlanMoves, HistoryInv
  <2>2. exec.pc = "next" /\ exec'.pc = "step" /\ run'.job = run.job
    BY <1>26, MoveIs DEF PlanMoves, HistoryInv
  <2>3. LastStep <=> ~(run'.step < Len(run'.plan))
    BY <2>1 DEF LastStep
  <2>4. Edge(run.status, run'.status)
    BY <2>1, <2>2, CorrectingIsNotLast
  <2>5. Kind(run.plan[Len(run.plan)])' = Kind(run.plan[Len(run.plan)])
    BY <2>1 DEF Kind
  <2>6. QED BY <2>1, <2>2, <2>3, <2>4, <2>5
<1>27. CASE QueueHeavyCorrection
  <2>1. exec.pc = "next" /\ exec'.pc = "step" /\ run'.job = run.job /\ run'.status = "optimizing" /\ exec.heavyFix
    BY <1>27, MoveIs, StatusMoves DEF PlanMoves, HistoryInv, QueueHeavyCorrection, NeedsHeavyCorrection
  <2>2. /\ run'.step = run.step + 1 /\ run.step + 1 = Len(run.plan) /\ Len(run'.plan) = Len(run.plan) + 1
        /\ run'.plan[run.step + 2].from = "heavy"
    BY <1>27, HeavyKeepsHistory
  <2>3. run'.step + 1 = run.step + 2 /\ Len(run'.plan) = run.step + 2 /\ run'.step < Len(run'.plan)
    BY <2>2
  <2>4. CurrentStep'.from = "heavy" /\ Kind(run'.plan[Len(run'.plan)]) # "verify"
    BY <2>2, <2>3, <1>b DEF CurrentStep
  <2>5. QED BY <2>1, <2>3, <2>4
<1>28. CASE QueueRuntimeCorrection
  <2>1. /\ exec.pc = "next" /\ exec'.pc = "step" /\ run'.job = run.job /\ run'.status = "correcting"
        /\ Kind(CurrentStep) = "verify"
    BY <1>28, MoveIs, StatusMoves DEF PlanMoves, HistoryInv, QueueRuntimeCorrection, NeedsRuntimeCorrection
  <2>2. /\ run'.step = run.step + 1 /\ Len(run'.plan) = Len(run.plan) + 2
        /\ run'.plan[run.step + 2].from = "runtime"
        /\ \A i \in run.step + 2..Len(run.plan) : run'.plan[i + 2] = run.plan[i]
    BY <1>28, RuntimeKeepsHistory
  <2>3. Len(run.plan) \in Nat /\ run.step < Len(run.plan)
    BY <2>1, LenProperties
  <2>4. ~LastStep
    BY <2>1, <2>3 DEF LastStep, CurrentStep
  <2>5. Len(run.plan) \in run.step + 2..Len(run.plan) /\ run'.step + 1 = run.step + 2 /\ run'.step < Len(run'.plan)
    BY <2>2, <2>3, <2>4 DEF LastStep
  <2>6. CurrentStep'.from = "runtime" /\ run'.plan[Len(run'.plan)] = run.plan[Len(run.plan)]
    BY <2>2, <2>5 DEF CurrentStep
  <2>7. run.status = "running"
    BY <2>1, <2>4, <1>b
  <2>8. QED BY <2>1, <2>5, <2>6, <2>7
<1>29. CASE UNCHANGED loopVars BY <1>29 DEF loopVars
<1>30. QED
  BY <1>1, <1>2, <1>3, <1>4, <1>5, <1>6, <1>7, <1>8, <1>9, <1>10, <1>11, <1>12, <1>13,
     <1>14, <1>15, <1>16, <1>17, <1>18, <1>19, <1>20, <1>21, <1>22, <1>23, <1>24, <1>25,
     <1>26, <1>27, <1>28, <1>29, Zenon DEF LoopNext, LoopStep

\* The status of a run changes along lifecycleRunGraph only, whatever is corrected,
\* for a plan that does not end with a runtime verification (one that does goes
\* from correcting to complete: agent/kernel.ts, the retry as last step).
THEOREM StatusAlwaysFollowsGraph ==
  ASSUME Faults = {}, MaxCrashes = 0, PlanTools[Len(PlanTools)] # "verify"
  PROVE  LoopSpec => StatusFollowsGraph
<1>1. LoopInit => CalmInv /\ StatusInv
  <2> SUFFICES ASSUME LoopInit PROVE CalmInv /\ StatusInv
    OBVIOUS
  <2>1. /\ ~tree.dirty /\ exec.pc = "idle" /\ run.step = 0 /\ run.status = "queued"
        /\ run.plan = InitialPlan /\ run.job /\ ~exec.heavyFix
    BY DEF LoopInit, NoExec
  <2>2. Len(InitialPlan) \in Nat \ {0} /\ Kind(InitialPlan[Len(InitialPlan)]) # "verify"
    BY FirstPlan DEF Kind
  <2>3. QED BY <2>1, <2>2 DEF CalmInv, StatusInv, InStep, AtStep
<1>2. HistoryInv /\ CalmInv /\ StatusInv /\ [LoopNext]_loopVars => CalmInv' /\ StatusInv'
  BY CalmStep, StatusStep DEF HistoryInv, Calm
<1>3. HistoryInv /\ CalmInv /\ StatusInv /\ [LoopNext]_loopVars =>
        [run'.status # run.status => run'.status \in RunGraph[run.status]]_loopVars
  BY StatusStep DEF Calm, Edge
<1>4. QED BY <1>1, <1>2, <1>3, LoopIsInductive, PTL DEF LoopSpec, StatusFollowsGraph

=============================================================================
