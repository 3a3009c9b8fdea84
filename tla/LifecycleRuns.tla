---------------------------- MODULE LifecycleRuns ----------------------------
(***************************************************************************)
(* The lifecycle runs of agent/run-service.ts and the in-memory scheduler  *)
(* of agent/run-worker.ts, driven by the state-run routes of server.ts.    *)
(*                                                                         *)
(* A run goes through a goal phase and an optimization phase, one step per *)
(* transaction.  Two kinds of executors run transactions: the drain loop   *)
(* of each server process, which works off its queue of run keys, and tick *)
(* requests, which execute one step of a run and may name the step they    *)
(* expect.  A transaction locks the run's row (SELECT ... FOR UPDATE),     *)
(* works on what it read, and commits; requests that cancel or resume a    *)
(* run wait for that lock.                                                 *)
(*                                                                         *)
(* The queue dies with its process.  An error of the store inside a drain  *)
(* is an unhandled rejection, which ends the process: both are ServerStops.*)
(***************************************************************************)
EXTENDS Naturals, Sequences

CONSTANTS
  Run,            \* ids of lifecycle runs
  Server,         \* API processes, each with an AgentRunWorker
  Tick,           \* tick requests that may be under way at once
  NoRun,          \* no run in hand
  NotGiven,       \* an optional request field that is absent
  Ask,            \* the limits requests may ask for
  ExpectedStep,   \* the steps ticks may name
  GoalSteps       \* AGENT_FAKE_GOAL_STEPS

Limits == [steps : 1..1000, corrections : 0..100, optimizations : 0..100]

\* createAgentStateRunSchema
Asked == [steps         : 1..1000 \union {NotGiven},
          corrections   : 0..100 \union {NotGiven},
          optimizations : 0..100 \union {NotGiven}]

ASSUME LifecycleAssumption ==
  /\ NoRun \notin Run
  /\ Server \intersect Tick = {}
  /\ NotGiven \notin Nat
  /\ Ask \subseteq Asked
  /\ ExpectedStep \subseteq Nat
  /\ GoalSteps \in Nat \ {0}

Executor == Server \union Tick

VARIABLES
  runs,           \* agent_runs with provider_id 'state-machine'
  steps,          \* agent_steps of each run, in the order of insertion
  queue,          \* AgentRunWorker.queued of each server, in insertion order
  promised,       \* runs a request has committed and is about to enqueue
  txn,            \* what each executor is doing
  driven          \* history: runs that were promised, less those a stop dropped

lifecycleVars == <<runs, steps, queue, promised, txn, driven>>

Active  == {"queued", "running", "optimizing"}      \* isActiveAgentRunStatus
Ended   == {"complete", "failed", "cancelled"}
Phase   == {"goal", "optimization"}

RunRow == [status : Active \union Ended, phase : Phase, index : Nat,
           optimized : Nat, limits : Limits]
NoRow  == [status |-> "absent"]
StepRow == [index : Nat, type : Phase]

NoTxn == [pc |-> "idle", run |-> NoRun]

\* pc: "chosen" before the row is locked, "locked" with what was read, "done"
\* with the answer shouldReenqueue.
Txn ==
  {NoTxn}
  \union [pc : {"chosen"}, run : Run, expected : Nat \union {NotGiven}]
  \union [pc : {"locked"}, run : Run, expected : Nat \union {NotGiven}, row : RunRow]
  \union [pc : {"done"}, run : Run, again : BOOLEAN]

Keys(s) == {queue[s][i] : i \in DOMAIN queue[s]}

\* Types; the queue is a Set, so no key is in it twice.
LifecycleTypeOK ==
  /\ runs \in [Run -> RunRow \union {NoRow}]
  /\ steps \in [Run -> Seq(StepRow)]
  /\ queue \in [Server -> Seq(Run)]
  /\ \A s \in Server : \A i, j \in DOMAIN queue[s] : queue[s][i] = queue[s][j] => i = j
  /\ promised \in [Server -> SUBSET Run]
  /\ txn \in [Executor -> Txn]
  /\ driven \subseteq Run

LifecycleInit ==
  /\ runs = [r \in Run |-> NoRow]
  /\ steps = [r \in Run |-> <<>>]
  /\ queue = [s \in Server |-> <<>>]
  /\ promised = [s \in Server |-> {}]
  /\ txn = [e \in Executor |-> NoTxn]
  /\ driven = {}

-----------------------------------------------------------------------------
(* One step of a run: what executeNextStep makes of the row it locked *)

Least(a, b) == IF a <= b THEN a ELSE b

\* normalizeLimit, of an integer or an absent field.
NormalizeLimit(value, fallback, low, high) ==
  IF value = NotGiven THEN fallback
  ELSE IF value < low THEN low ELSE Least(value, high)

NormalizeGoalStepsTarget(limits) == Least(limits.steps, GoalSteps)

Started(row) ==
  [row EXCEPT !.status = IF @ = "queued" THEN "running" ELSE @]

\* No caller ever counts a correction: a run has used none of its budget, and
\* one with an empty budget has used all of it.
OutOfBudget(row) ==
  row.index >= row.limits.steps \/ row.limits.corrections = 0

\* Mutant of Optimized: complete as soon as the run optimizes.
OptimizedAtOnce(row) == row.phase = "optimization"

Optimized(row) ==
  row.phase = "optimization" /\ row.optimized >= row.limits.optimizations

StepTaken(row) ==
  [row EXCEPT !.index = @ + 1,
              !.optimized = IF row.phase = "optimization" THEN @ + 1 ELSE @]

PhaseSwitched(row) ==
  IF row.phase = "goal" /\ row.index >= NormalizeGoalStepsTarget(row.limits)
  THEN [row EXCEPT !.phase = "optimization", !.status = "optimizing"]
  ELSE row

Completed(row) ==
  IF Optimized(row) THEN [row EXCEPT !.status = "complete"] ELSE row

\* Mutant of Stopped: the limit is noticed and not written.
StoppedUnwritten(row) == row

\* validateRunInvariants has found the run at a limit.
Stopped(row) ==
  [row EXCEPT !.status = IF OutOfBudget(row) THEN "failed" ELSE "complete"]

Stale(expected, row) == expected # NotGiven /\ row.index # expected

\* The started run neither ended nor moved on from what the tick expects.
Runnable(expected, row) ==
  Started(row).status \in {"running", "optimizing"} /\ ~Stale(expected, row)

AtLimit(row) == OutOfBudget(row) \/ Optimized(row)

TakesStep(expected, row) == Runnable(expected, row) /\ ~AtLimit(row)

Executed(expected, row) ==
  IF ~Runnable(expected, row) THEN Started(row)
  ELSE IF AtLimit(row) THEN Stopped(Started(row))
  ELSE Completed(PhaseSwitched(StepTaken(Started(row))))

-----------------------------------------------------------------------------
(* Requests *)

\* Mutant of Locked: the row is read without FOR UPDATE.
LockedByNobody(r) == FALSE

\* Somebody's transaction holds the lock of the run's row.
Locked(r) == \E e \in Executor : txn[e].pc = "locked" /\ txn[e].run = r

Promise(s, r) ==
  /\ promised' = [promised EXCEPT ![s] = @ \union {r}]
  /\ driven' = driven \union {r}

\* createRun; the route enqueues the run afterwards if autoStart says so.
CreateRun(s, r, ask, autoStart) ==
  /\ runs[r] = NoRow
  /\ runs' = [runs EXCEPT ![r] =
       [status |-> "queued", phase |-> "goal", index |-> 0, optimized |-> 0,
        limits |-> [steps         |-> NormalizeLimit(ask.steps, 20, 1, 1000),
                    corrections   |-> NormalizeLimit(ask.corrections, 2, 0, 100),
                    optimizations |-> NormalizeLimit(ask.optimizations, 2, 0, 100)]]]
  /\ IF autoStart THEN Promise(s, r) ELSE UNCHANGED <<promised, driven>>
  /\ UNCHANGED <<steps, queue, txn>>

\* From failed and complete the graph has no edge to cancelled: the request fails.
MarkRunCancelled(r) ==
  /\ runs[r].status \in Active
  /\ ~Locked(r)
  /\ runs' = [runs EXCEPT ![r].status = "cancelled"]
  /\ UNCHANGED <<steps, queue, promised, txn, driven>>

\* resumeRun; nothing but the status starts over.
ResumeRun(s, r) ==
  /\ runs[r].status \in {"cancelled", "failed"}
  /\ ~Locked(r)
  /\ runs' = [runs EXCEPT ![r].status = "queued"]
  /\ Promise(s, r)
  /\ UNCHANGED <<steps, queue, txn>>

\* Set.add keeps a key that is there in its place.
AddKey(s, r) == IF r \in Keys(s) THEN queue[s] ELSE Append(queue[s], r)

\* Mutant of Enqueue: a run that is being executed need not be queued.
EnqueueUnlessInHand(s, r) ==
  /\ r \in promised[s]
  /\ promised' = [promised EXCEPT ![s] = @ \ {r}]
  /\ queue' = [queue EXCEPT ![s] = IF txn[s].run = r THEN @ ELSE AddKey(s, r)]
  /\ UNCHANGED <<runs, steps, txn, driven>>

\* AgentRunWorker.enqueue.  Requests for the same run that have committed and
\* not enqueued yet count as one: the second key would find the first one's work.
Enqueue(s, r) ==
  /\ r \in promised[s]
  /\ promised' = [promised EXCEPT ![s] = @ \ {r}]
  /\ queue' = [queue EXCEPT ![s] = AddKey(s, r)]
  /\ UNCHANGED <<runs, steps, txn, driven>>

-----------------------------------------------------------------------------
(* Executors *)

\* drain: the oldest key is deleted before its step is awaited.
TakeKey(s) ==
  /\ txn[s] = NoTxn
  /\ queue[s] # <<>>
  /\ txn' = [txn EXCEPT ![s] = [pc |-> "chosen", run |-> Head(queue[s]),
                                expected |-> NotGiven]]
  /\ queue' = [queue EXCEPT ![s] = Tail(@)]
  /\ UNCHANGED <<runs, steps, promised, driven>>

\* The tick route: processOnce.
PostTick(t, r, expected) ==
  /\ txn[t] = NoTxn
  /\ runs[r] # NoRow
  /\ txn' = [txn EXCEPT ![t] = [pc |-> "chosen", run |-> r, expected |-> expected]]
  /\ UNCHANGED <<runs, steps, queue, promised, driven>>

LockRun(e) ==
  /\ txn[e].pc = "chosen"
  /\ ~Locked(txn[e].run)
  /\ txn' = [txn EXCEPT ![e] = [pc |-> "locked", run |-> txn[e].run,
                                expected |-> txn[e].expected,
                                row |-> runs[txn[e].run]]]
  /\ UNCHANGED <<runs, steps, queue, promised, driven>>

\* executeNextStep, to its COMMIT: the step's row is inserted and completed in
\* the same transaction as the run's.  A drain goes on to look at the answer, a
\* tick hands it to its client.
ExecuteNextStep(e) ==
  LET t == txn[e]
      after == Executed(t.expected, t.row)
  IN
  /\ t.pc = "locked"
  /\ runs' = [runs EXCEPT ![t.run] = after]
  /\ steps' = IF TakesStep(t.expected, t.row)
              THEN [steps EXCEPT ![t.run] =
                      Append(@, [index |-> t.row.index, type |-> t.row.phase])]
              ELSE steps
  /\ txn' = [txn EXCEPT ![e] =
       IF e \in Tick THEN NoTxn
       ELSE [pc |-> "done", run |-> t.run, again |-> after.status \in Active]]
  /\ UNCHANGED <<queue, promised, driven>>

\* drain: the key is added again, behind whatever was enqueued meanwhile.
FinishKey(s) ==
  /\ txn[s].pc = "done"
  /\ queue' = IF txn[s].again THEN [queue EXCEPT ![s] = AddKey(s, txn[s].run)]
              ELSE queue
  /\ txn' = [txn EXCEPT ![s] = NoTxn]
  /\ UNCHANGED <<runs, steps, promised, driven>>

\* A tick whose transaction fails rolls back and answers with an error.
TickFails(t) ==
  /\ txn[t].pc \in {"chosen", "locked"}
  /\ txn' = [txn EXCEPT ![t] = NoTxn]
  /\ UNCHANGED <<runs, steps, queue, promised, driven>>

\* Some server has the run in its queue, in hand, or about to be enqueued.  The
\* answer of a drain counts when it brings the key back.
ScheduledAt(s, r) ==
  \/ r \in Keys(s) \union promised[s]
  \/ txn[s].run = r /\ (txn[s].pc = "done" => txn[s].again)

Scheduled(r) == \E s \in Server : ScheduledAt(s, r)

\* The process ends, is started again, and finds its queue empty; an open
\* transaction is rolled back with its connection.
ServerStops(s) ==
  /\ queue' = [queue EXCEPT ![s] = <<>>]
  /\ promised' = [promised EXCEPT ![s] = {}]
  /\ txn' = [txn EXCEPT ![s] = NoTxn]
  /\ driven' = {r \in driven : \E o \in Server \ {s} : ScheduledAt(o, r)}
  /\ UNCHANGED <<runs, steps>>

-----------------------------------------------------------------------------
DrainStep(s) == TakeKey(s) \/ ExecuteNextStep(s) \/ FinishKey(s)

LifecycleNext ==
  \/ \E s \in Server, r \in Run :
       \/ \E ask \in Ask, autoStart \in BOOLEAN : CreateRun(s, r, ask, autoStart)
       \/ ResumeRun(s, r)
       \/ Enqueue(s, r)
  \/ \E r \in Run : MarkRunCancelled(r)
  \/ \E s \in Server : TakeKey(s) \/ FinishKey(s) \/ ServerStops(s)
  \/ \E e \in Executor : LockRun(e) \/ ExecuteNextStep(e)
  \/ \E t \in Tick :
       \/ \E r \in Run, expected \in ExpectedStep \union {NotGiven} :
            PostTick(t, r, expected)
       \/ TickFails(t)

LifecycleSpec == LifecycleInit /\ [][LifecycleNext]_lifecycleVars

\* A process that runs goes on, an open transaction commits, and whoever waits
\* for a row's lock gets it in the end, as PostgreSQL queues the waiters.
FairLifecycleSpec ==
  /\ LifecycleSpec
  /\ \A s \in Server :
       /\ WF_lifecycleVars(DrainStep(s))
       /\ SF_lifecycleVars(LockRun(s))
       /\ \A r \in Run : WF_lifecycleVars(Enqueue(s, r))
  /\ \A t \in Tick : WF_lifecycleVars(ExecuteNextStep(t))

-----------------------------------------------------------------------------
(* What must hold *)

\* What the two phases make of the number of steps a run has taken.
CountsOf(row) ==
  LET target == NormalizeGoalStepsTarget(row.limits) IN
  /\ row.index <= row.limits.steps
  /\ row.phase = IF row.index >= target THEN "optimization" ELSE "goal"
  /\ row.optimized = IF row.index >= target THEN row.index - target ELSE 0
  /\ row.optimized <= row.limits.optimizations

(* The run row and the step rows tell the same story, whoever drives the run   *)
(* and however often it is cancelled and resumed: one step per index, goal     *)
(* steps up to the target and optimization steps after it, and the counters    *)
(* that executeNextStep increments in memory count exactly these.              *)
RecordsMatchRun ==
  \A r \in Run : runs[r] # NoRow =>
    /\ CountsOf(runs[r])
    /\ Len(steps[r]) = runs[r].index
    /\ \A i \in DOMAIN steps[r] :
         steps[r][i] = [index |-> i - 1,
                        type |-> IF i <= NormalizeGoalStepsTarget(runs[r].limits)
                                 THEN "goal" ELSE "optimization"]

(* A run ends for its reason: it is complete with the goal reached and the     *)
(* optimization budget spent, and failed with the step budget spent or no      *)
(* correction budget at all (validateRunInvariants).                           *)
OutcomeIsEarned ==
  \A r \in Run :
    /\ runs[r].status = "complete" =>
         /\ runs[r].phase = "optimization"
         /\ runs[r].optimized = runs[r].limits.optimizations
    /\ runs[r].status = "failed" =>
         runs[r].index = runs[r].limits.steps \/ runs[r].limits.corrections = 0

(* All of it: rows keep their types, rows and records of a run agree, and its  *)
(* outcome is earned.                                                          *)
RunsAreAccounted == LifecycleTypeOK /\ RecordsMatchRun /\ OutcomeIsEarned

(* A run that has ended takes no step and changes nothing, until a resume      *)
(* queues it again, which a complete run never is: a cancellation is not       *)
(* undone by a step that was under way ("only failed and cancelled runs may    *)
(* transition back to queued", agent/lifecycle-graph.ts:31).                   *)
EndedRunRests ==
  [][\A r \in Run : runs[r].status \in Ended =>
       /\ steps'[r] = steps[r]
       /\ \/ runs'[r] = runs[r]
          \/ /\ runs[r].status # "complete"
             /\ runs'[r] = [runs[r] EXCEPT !.status = "queued"]]_lifecycleVars

(* No wakeup is lost: an active run that was started or resumed, and that no   *)
(* stop of a process dropped, is always queued, in hand or about to be queued, *)
(* although its key is deleted before every step and cancel and resume may     *)
(* come while the step is under way.                                           *)
DrivenRunIsScheduled ==
  \A r \in driven : runs[r].status \in Active => Scheduled(r)

(* And so it ends, whatever ticks do beside the drain loop.                    *)
DrivenRunEnds ==
  \A r \in Run : r \in driven ~> (r \notin driven \/ runs[r].status \in Ended)
=============================================================================
