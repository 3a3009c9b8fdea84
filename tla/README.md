# Verification of DeepRun's run execution

DeepRun takes a prompt, has a model plan changes to a generated backend, and
executes the plan step by step on a git branch, validating and correcting as it
goes; what passes is deployed. These TLA+ modules model the parts of the
repository in which a mistake would lose, repeat or misjudge work: the durable
job queue, the workers that share it, the lock that separates them, the loop
that turns a plan into commits and the file transaction below it, corrections
and their limits, validations, deployments, and the stores, sessions, accounts
and the page around them.

Everything is translated from the code under `src/src` and `src/public`;
`PROJECT.json` maps every definition to its lines.

## The system

| part | code | state | operations | interacts by |
| --- | --- | --- | --- | --- |
| run-job queue | `lib/project-store.ts` | `run_jobs`, `worker_nodes` | enqueue, claim, mark running, renew, complete, fail, register, go offline | SQL statements of any process |
| worker | `scripts/agent-job-worker.ts` | the job in hand, timers | claim, execute, settle, shut down | queue, kernel |
| waiting CLI | `agent/queue/run-wait.ts` | the same, for one run | look, claim, execute, settle, leave | queue, kernel |
| kernel | `agent/kernel.ts` | `agent_runs`, `agent_steps`, the run worktree | create, queue, resume, fork, execute, correct, roll back, validate | called by API, workers, CLI |
| file session | `agent/fs/file-session.ts` | staged changes, backups, current commit | begin, stage, validate, apply, commit, abort | kernel, worktree |
| worktrees | `lib/git-versioning.ts` | branch `run/<id>`, HEAD, working files | add, commit, reset, clean | kernel, file session |
| API | `server.ts` | none of its own | create, resume, fork, validate runs; deploy; sessions | calls kernel, service, store |
| lifecycle runs | `agent/run-service.ts`, `agent/run-worker.ts` | lifecycle runs, keys of scheduled runs | create, tick, resume, cancel | store, kernel parts |
| deployments | `server.ts`, `lib/project-store.ts` | `deployments`, in-memory set | create, build, activate, fail, recover | docker, store |
| sessions | `server.ts`, `lib/tokens.ts`, store | `auth_sessions`, cookies | login, refresh, revoke | store, web client |
| accounts | `server.ts`, store | users, organizations, memberships, workspaces | register, log in, create, add, change roles | store |
| execution contracts | `agent/execution-contract.ts`, kernel | `agent_runs.metadata` | resolve, sign, check, override | kernel, API, workers |
| store migration | `lib/project-store.ts` | the schema | initialize | every process that starts |
| web client | `public/app.js` | what the page holds | handlers, poll timer | API |
| stores of graphs, revisions, traces | `lib/graph-*.ts` | content-addressed rows | insert, read | store |
| policies, validators, planner | `agent/correction`, `agent/validation`, `agent/planner.ts` | none | pure functions, child processes, model calls | called by kernel |

What is hard: every call of the store is an await, so any other process acts
between two of them; processes are killed at any point and started again; leases
and locks run out under a slow owner; the database, the git branch and the
working files change one at a time; and the loop inserts steps into the list it
iterates over. `PROJECT.json` lists the hazards at their lines.

What makes each part correct, in short: a run has one active job and a job one
holder at a time; a run is executed by one process at a time and its progress
never goes back; every run ends; the plan, the step records, the commit pointers
and the branch tell the same story after any crash; a step leaves all of its
files or none; corrections are bounded, stay in scope, and a verdict is about the
commit it names; a project that is served stays served; and what overlapping
requests may do to each other is known and no more than that.

## Modules

| module | models | composed of |
| --- | --- | --- |
| `RunJobGraph` | the abstract job: `runJobGraph` of `agent/lifecycle-graph.ts` as a specification | |
| `RunJobs` | the queue: one action per SQL statement, issued by any node at any time | implements `RunJobGraph` (`INSTANCE ... WITH`) |
| `SerialRun` | the abstract execution: a run is executed by one process after another, each recording the next step | |
| `RunExecution` | workers, waiting CLIs and API requests that use the queue, the run row and the run lock | extends `RunJobs`, implements `SerialRun` |
| `KernelLoop` | `executeLoop` in isolated mode: one step of `RunExecution` opened up | |
| `FileSession` | the file transaction of one step: what `KernelLoop` takes by its outcome | |
| `CorrectionPlanning` | from a failing report to phases of correction: classifier and planner as operators | |
| `BuilderRun` | `executeWithValidationAutoCorrection`: execute, validate, correct, and the governance decision | extends `CorrectionPlanning` |
| `CorrectionScope` | constraint, gates and policy of one correction over resumes | |
| `LifecycleRuns` | lifecycle runs: their transactions, the drain loops and the tick, cancel and resume routes | |
| `ProjectEdits` | the routes that change one project: inline and queued runs, forks, resumes, saves, commits | |
| `ExecutionContract` | contracts of runs over releases of the API and the workers | |
| `Reachability` | which members of a set the edges of a graph lead to | |
| `ProjectGraph` | rules for an import, and the search for import cycles | extends `Reachability` |
| `ProjectValidation` | heavy validation, V1 readiness and preview: commands, ports, containers | |
| `ApiServer` | the API process: start, requests, draining shutdown, end | |
| `Deployments` | deployments of one project | extends `ApiServer` |
| `Sessions` | session rows, cookies and the calls of several tabs | |
| `Accounts` | users, organizations, memberships, workspaces | |
| `ExecutionGraphs` | stores of graphs, revisions and traces | extends `Reachability` |
| `StoreMigration` | `AppStore.initialize` in several processes | |
| `WebClient` | what the page of the web client holds of which project | |
| `RunJobs_proofs`, `RunExecution_proofs`, `CorrectionScope_proofs`, `KernelLoop_proofs` | theorems and proofs about the module of the name | |
| `LifecycleRuns_proofs` | ... about `LifecycleRuns` and `ProjectValidation` | |
| `Pipelines_proofs` | ... about `Deployments`, `BuilderRun`, `ExecutionGraphs`, `ProjectGraph` | |
| `Requests_proofs` | ... about `ProjectEdits`, `Sessions`, `FileSession` | |
| `Services_proofs` | ... about `Accounts`, `ExecutionContract`, `StoreMigration`, `WebClient` | |
| `MC...` | instances for TLC: symmetry sets, plans, requests, unions of components | |

### RunJobs

`jobs` is the table `run_jobs` with row ids in `created_at` order, `nodes` the
table `worker_nodes`. A lease is what its readers can tell: none, live, expired;
`LeaseExpires` is time. The `WHERE` of a statement is a guard (`HeldBy`,
`Claimable`, `MayClaim`, `MayRegister`); a statement that matches no row changes
nothing and is left out here, but is a visible outcome in `RunExecution`. The
selection of `claimNextRunJob` (oldest first, `FOR UPDATE SKIP LOCKED`) is one
atomic step. `MaxJobs` and `MaxClaims` bound the rows and the claims of a row.

### RunExecution

A process is a program counter over its awaits. `pc` values, in the order of the
code: `poll`, `claimed`, `load`, `lock`, `prepare`, `loop`, `work`, `advance` or
`fail`, `release`, `settle`; `unwind` is the `finally` on an exception,
`failread`, `failwrite`, `failjob` the catch of the worker (`markRunFailedIfNeeded`
and `failRunJob`), `look` and `leave` belong to waiting CLIs. The lease timer
(`RenewLease`) runs beside all of them. `KillProcess` stops a process anywhere;
`ShutdownWorker` and `ExitWorker` are the two halves of SIGTERM, between which
the job goes on. The run lock is an owner and whether it is stale; `LockAges` is
time. `Faults` says what may go wrong besides stops: `late_renewal` (a lease
expires under its holder), `slow_step` (a step outlasts
`AGENT_RUN_LOCK_STALE_SECONDS`), `store_error` (a swallowed store call fails),
`api_stop` (an API process dies between its writes). A step is indivisible
and its outcome arbitrary; status is `running` for all of `running`,
`correcting`, `optimizing` and `validating`.

### KernelLoop

One process at a time executes the run (what `RunExecution` shows); it may crash
between any two durable writes, and its job is claimed again. A commit is the
sequence of the steps committed up to it, so a hard reset is an assignment.
`run` is the run row with plan, index, status and the commit pointers; `tree` is
HEAD and dirtiness of the worktree; `records` is `agent_steps`; `exec` holds the
local variables of the loop that outlive an await. Outcomes of tools,
validations and policies are arbitrary, what the code does with them is not:
runtime and heavy corrections with their budgets, convergence, policy, rollback,
failed planning, failed pointer updates. `Faults` adds failing store and git
calls (git that cannot commit, reset or look at the worktree).

### LifecycleRuns

`runs` and `steps` are the rows of `agent_runs` and `agent_steps` that belong to
lifecycle runs. An executor is a server's drain loop or a tick request; its
transaction is `LockRun` (`SELECT ... FOR UPDATE`, which waits for whoever holds
the row) followed by `ExecuteNextStep` with its `COMMIT`, and between the two
anything may happen that does not need the row. `Executed` is what
`executeNextStep` makes of a row, composed of the code's pieces in their order:
`Started`, the early returns (`Runnable`), the limits (`Stopped`), the counters
(`StepTaken`), the switch of phase and the completion. `queue` is the `Set` of
keys in insertion order; `TakeKey`, the step and `FinishKey` are the three parts
of an iteration of `drain` between which requests enqueue. A request commits
first and enqueues later (`promised`), and may die in between. An error inside a
drain step is an unhandled rejection and ends the Node process, so it is
`ServerStops`; the queue is lost with it and nothing rebuilds it. `driven` is a
history variable: the runs whose scheduling no stop has dropped. Corrections are
a budget nobody draws on: `incrementCorrectionCount` and the transitions to
`correcting` and `validating` are called by tests only.

A run whose `maxSteps` does not exceed the goal target (5 by default) and that
asks for optimizations always ends failed, after reaching its goal: the step
limit is looked at first. The tests expect it (`run-service.test.ts:144`), so the
model states it as the outcome (`OutcomeIsEarned`, a part of `RunsAreAccounted`) and not as a fault.

### FileSession

`disk`, `head` and the step's staged changes and backups; a content stands for
its hash. `propose`, `stageChange`, `validateStagedChanges`, `applyStepChanges`
(file by file, in path order), `commitStep` and `abortStep` are rows of awaits,
between which another program may write (`EditFile`), a write may fail and leave
a torn file, and its undo may fail too. `git add` takes the whole worktree, and
`ensureGitRepo` writes a `.gitignore` where there is none. History variables
(`late`, `foreign`) name the files others touched, so that the
properties can say exactly where atomicity ends. `StepIsAtomic` has two
exceptions, both of the code: an undo that fails, and a correction that git has
nothing to commit for, which fails after its session has closed.

### CorrectionPlanning and BuilderRun

A report is a set of findings. `ClassifyValidation` and `ClassifyInvariant` are
the two classifiers, `PlanCorrection` the planner's choice of phases, `Escalate`
and `AttemptOutcome` what the kernel makes of stalled attempts. `BuilderRun` has
the run row with its validation and readiness verdict, the rest of its plan, the
findings of its head (so that a step can repair, break or leave them), and where
the request stands: the first execution with its retries of refused steps, then
rounds of validation, learning, debt, recipe or planned correction. Failing
steps, failed queries of learning events (`blind`), stops, resumes and
validations by hand interfere. `GovernanceReasons` is `buildGovernanceDecision`.
`AnswersAreHonest` says that what is returned, recorded as debt and decided is
about the commit there is. Its exceptions are the window in which an attempt has
run and its validation has not, and resumes, which keep the old verdict.

### CorrectionScope

One correction: how its failure is classified (`ChooseIntent`), what constraint it
gets (`BuildConstraint`: places, files, kilobytes, capped by the config; the
import recipe writes its own and does not cap it), the gates before the commit
(`PassesGates`, `FitsConfig`) and the policy after it (`ViolatesPolicy`,
`PolicyRefuses`). A resume may bring other caps and another policy in between.
`RecordCorrection` is what follows the commit, in the order of the code: heavy
validation first, which may ask for another correction (`GoOnToCorrection`), then
the policy, which fails the run at this step (`FailAfterCommit`) or accepts it
(`Accept`). A correction that the policy refuses when another one was asked for is
recorded failed, its commit stays, and the run goes on past it; `overruled` counts
that. `RefusalIsFinal` says that there is no other way: a refused correction never
counts as done, no run completes with it, and there is one correction of heavy
validation for each that was passed over.

### ProjectEdits

A request is its kind, where it stands, and the run it targets. Most kinds pass
the guard `assertNoActiveAgentRunMutation` (`ActiveRuns` is what it counts), then
await, then insert a run; resumes have no guard. Saves and generations execute in
the live workspace inside the request, by the points `execute` (about to enter
`executeLoop`), `running`, and `complete` or `failed`, where the row has its end and
the request goes on with it: `executeWithValidationAutoCorrection` validates, sets
the run active again (`CorrectRun`) or passes over a refused correction
(`PassOver`), and executes again, without asking for other runs. A save takes part
in what follows a refusal only, and is allowed a little more than the code does.
`finished` names the runs without a step left: executed once more, such a run is
set running and stays so.

A job has a worker that executes it, reads and marks its run after an exception
(`ReadFailing`, `MarkFailed`, which may be lost), and settles the job in a statement
of its own (`SettleJob`). A resume is three awaits (`Resume`, `Requeue`, `Enqueue`),
and `Enqueue` is given the job of the run where there is one, settled in the next
moment or not. The end of a loop and the release of its lock are one step, and the
lock is not lost in between: no step outlasts its staleness limit.

`missed`, `joined` and `opened` record which interleavings happened (a run inserted
behind a guard; an ended run set active again when another request was past its
guard; a row that a worker settled while the request executed it), and `cause` what last
left a run without anybody to execute it: the fork of a step, which has no job; a
request that threw, or was cut short by a stop; a requeue that was given a job about
to be settled (`crossed`); an execution that found no step (`exhausted`); a mark that
the store lost (`unmarked`). The properties say that requests overlap, and runs block
a project, in none but these ways. Several of them are faults of the code, which the
findings list. The project row and its history, which many routes read, change in
memory and write back, are left out.

### ExecutionContract

A configuration has three fields that stand for all (profile, policy mode, a
limit); a contract is a configuration and the release that signed it. Requests
start, resume and fork with overrides, workers claim and execute, and every
process may be replaced by a later release. Reads and writes of the row are
separate. `unsigned` and `stale` name the rows that were ever without a contract
and the agents behind whose back one was written.

### ProjectGraph

Files are places (`Layer`, test or production, module) below `src` or outside it
(`Outside`). An import has a specifier, a target, and a text around it (`Texts`). It is
judged by `ContractViolations`, the validation of the project when the run has ended,
and by `GuardViolations`, the guard over a step's staged files when the step is about to
be committed: a target that a later step creates is there for the first and not
for the second. `GuardIsNoStricter` says that the guard refuses what the validation
would pass in four cases only: a misquoted specifier, a file outside `src`, a test, and
such a later target. The guard's rules for specifiers that end in a quote are left
out: what collects specifiers stops at a quote, so they never apply.

`detectCycles` is a machine with a stack
and colours (`StartAt`, `Enter`, `Descend`, `CloseCycle`, `Leave`), started on
every graph of the instance. What it should have found is said without it, by
`Reached`: the members of every set that the edges do not leave.

### ProjectValidation

A check is a row of commands over a project that has or lacks configuration,
package, scripts, Prisma and Dockerfile. A command succeeds, fails, outlasts its
timeout or ignores SIGTERM; a process of a check may stop; other programs take
ports, since `acquireFreePort` reserves nothing. `answered` records who answered
at the port. The worktree of a check may not be added, leaving its directory or not
(`AddFails`), and may not be removed (`RemovalFails`): a directory that stays busy is
passed over in silence, another error is thrown from the `finally` block in place of
the verdict. `unremoved` names those checks. Git commands are taken to return.

### ApiServer and Deployments

`main`, the lifecycle state, the shutdown with its grace timer, and the pool. A
deployment is a row, a container and a pipeline that outlives its request;
`previous` is the list the pipeline read when it began. Statements, docker and a
start of a job worker may go wrong (`Mishaps`). Every start of a process marks
the incomplete deployments failed (`MarkIncompleteFailed`), also those a living
API process is working on.

### Sessions, Accounts, ExecutionGraphs

`Sessions`: refresh tokens are numbered; calls share the cookies of the browser,
and the calls of a tab share one refresh. An answer may be lost after the server
rotated the token. `Accounts`: routes as rows of statements that fail or are cut
short one by one, the unique indexes, the retry of a taken slug, the login limit.
`ExecutionGraphs`: graphs with their identity and `validateGraphAcyclic`, rows
inserted one by one, revisions and events whose number is read first and
inserted later, kept apart by unique indexes and a retry.

### StoreMigration

The stages of `initialize` in order; `schema` is what exists of tables, indexes
and checks. The advisory lock keeps migrations apart, not migrations from serving
processes, which write step attempts all the time. A process may die at any
stage; the lock is then free. A database is fresh, of the version before
attempts, or of the version with other graphs.

### WebClient

`view` holds, for each part of the page, the project it came from. A handler is a
set of calls under way and the steps that follow; the path of a call is fixed
when it is sent, and its answer is written into the page as it is when it comes.
Sign-out, switching, failing calls and the deployment poll interleave. `blind`
names the parts that a late answer wrote or a failed load left, and the diff of a
commit, which nothing clears when another project is opened. The text of deployment
logs is a part of its own: `loadDeployments` keeps it where the deployment it belongs to is
still listed.

## Runs

Twelve runs. Components that share no state are checked in one run: its MC module
extends them all, and a variable `part`, chosen at the start, says which one
moves, so the state space is the sum of theirs and each property speaks of its
own part.

| run | question | bounds |
| --- | --- | --- |
| `jobs` | do the statements alone keep the queue in order? | 2 runs, 2 nodes, 3 rows, 2 claims a row: one run twice, a reclaim, a contender |
| | contracts: does a run keep its contract? | 2 runs, 2 requests, 1 worker with another limit, 2 releases |
| `exclusive` | is a run executed as one process after another would, never twice at once, never set back (`SerialRun`)? | 1 run, 2 workers, 2 jobs, 2 claims, 2 steps, 1 stop, a resume of a running or failed run, late renewals |
| `slow_steps` | what is left of the lock when steps are too slow? | 2 workers, no stops; slow steps, late renewals, failing store calls, dying requests |
| `timely` | does every run settle, with a job until then? | 2 runs, a worker and a waiting CLI, 1 stop, deadlines kept |
| `history` | do plan, records and branch agree? | plan modify-verify-modify, one correction of each kind, 1 crash, 1 resume, store and git errors |
| `calm` | without failures, are status and pointers right? | plan analyze-modify-verify-modify, two corrections of each kind, 2 resumes |
| `loop_ends` | is every claimed job settled, and does no step start on another's leftovers? | plan modify-verify, 1 crash, 1 resume, store errors, convergence not enforced |
| `lifecycle` | lifecycle runs: do they keep their books, rest and get their turns? | 1 run, 2 servers, 1 tick, goal target 2, four requests; stops, cancels, resumes without bound |
| | checks: are verdicts true, is everything cleaned up, do they end? | 1 check of any kind, 3 projects (sound; without most scripts; without package), 2 ports, other programs, 2 mishaps |
| `requests` | steps: are they atomic beside other writers? | `.gitignore` and 2 files, one ignored, 2 changes a step, 2 steps, 2 faults, 1 foreign edit |
| | routes: what do overlapping requests do to a project? | 3 requests of any kind with their workers, 1 stop of the server |
| | sessions: is a session lost for nothing? | 3 calls in 2 tabs, logins and logouts, 2 sessions, 3 tokens, 1 lost answer |
| `pipelines` | builder: are answers honest, and does the request end? | findings layer and import, 2 attempts, 1 retry of a refused step (the code has 3), 1 stop, 1 resume |
| | graph: is the search right? | every graph of 4 files without self-imports; every specifier, target, text and pair of places for an import |
| | deployments: is the project served, does every one end? | 2 requests, 2 ends of the server, each mishap once |
| | stores: is what is stored what it says? | 3 callers, 3 run ids of which 2 exist and 2 share a hash, 2 edges, 3 rows, 1 fault |
| `services` | schema: does a start or a writer fail? | 2 processes, 1 slot with 2 attempts, 2 deaths, 3 kinds of database |
| | accounts: is nobody left without an organization, and no organization without manager? | 2 users, 3 calls, 2 slugs, 1 login a window, 1 error |
| | corrections: are they contained? | 3 configs (default, low caps, warnings only), 5 places, 2 counts, 2 sizes, 2 corrections, 2 resumes or stops |
| | page: does it show one project? | 2 projects in one workspace, an empty workspace, 2 handlers and the timer, 2 events, 1 failure |
| `doc_reclaim` | violated: does a reclaimed job execute? | 2 workers, 1 stop |

Two nodes and one lost claim are what every race of the queue and of the lock
needs: an owner and a contender. A crash followed by a resume puts every durable
prefix of the loop in front of a second execution. Two requests are what every
race of the routes, the pipelines and the stores needs, and a third one meets
what the two have left; one foreign edit, one fault and one retry reach every
`catch`, and a second fault its cleanup. Four files hold two cycles that share a
file, the case in which colours and rotations matter. The counters of a lifecycle
run are bounded by its limits; two servers and a tick give three executors for
one row, the owner of its lock, a waiter, and one that comes later with an old
expectation. Symmetry is used only where no liveness is checked.

The properties of a run with many parts are conjunctions of named formulas:
`JobInv`, `ExecInv`, `HistoryIsRecorded`, `RunsAreAccounted`, `ChecksAreSound`,
`StepKeepsToItsFiles`, `GraphIsJudgedRightly`, `AnswersAreHonest`,
`GraphStoresHold`, `CorrectionsAreContained`, `PageHoldsTogether`. Every property of a
passing run has a mutant in the module it is about (`Mutant of ...`): the
definition changed by a plausible mistake, with which TLC finds the property
violated.

## Where code and documents disagree

`doc_reclaim` is a run: the worker that reclaims a dead worker's job is refused
the dead worker's run lock and fails the run, where
adversarial-reliability-matrix.md:27-28 has it execute the run. The others were
met while modelling and are stated in `PROJECT.json` ("findings"); the
definitions named here exist in the modules but no run checks them.

| code | document | what happens |
| --- | --- | --- |
| `kernel.ts:4210` | state-machine.md:44 | with a plan that ends in a verify step, validating is followed by correcting (`StatusFollowsGraph`, which `calm` checks for the other plans) |
| `kernel.ts:3848` | adversarial-reliability-matrix.md:32 | a crash after a commit commits the step again (`CommittedOnce`) |
| `kernel.ts:3761` | the same | a rollback then removes the commit of a step the run has passed (`PassedCommitStays`) |
| `kernel.ts:5488` | state-machine.md:46 | a run marked failed before its worker stopped executes again without a resume |
| `kernel.ts:5207` | state-machine.md:50 | runs that execute or have completed since the route looked are requeued |
| `kernel.ts:5207` | app.js:135 | a resumed run keeps its verdict: complete and passed, not validated as it is (`PassedMeansValidated`) |
| `kernel.ts:564` | upgrade-semantics.md:37-40 | a worker of another release reports `CONTRACT_MISMATCH` instead of `UNSUPPORTED_CONTRACT` (`RefusedAsUnsupported`) |
| `kernel.ts:3165` | configuration.md:72 | the default of the correction policy is enforce, not warn |
| `server.ts:878` | v1-scope.md:41 | two requests pass the guard together and both get a run |
| `server.ts:2952` | agent-state-routes.test.ts:354 | the graph node of a state run is written before the run it refers to (`StateRunsAreCreated`) |
| `project-store.ts:2109` | critical-blockers-resolved.md:20 | runs that point at graphs of the earlier version make every start fail (`UpgradeSucceeds`) |

And eight mistakes no document speaks of: SIGKILL is never sent to a command that
ignores SIGTERM (`heavy-validator.ts:132`); the migration drops the check of
`validation_status` for good (`project-store.ts:1840`); a late answer of
`loadFile` puts a file of one project into the editor of another, where Save
writes it (`app.js:1563`); a graph that names an edge twice is refused as cyclic
(`graph-identity.ts:126`); opening a project does not clear the diff of a commit of
the one before (`app.js:1521`); a correction that the policy refused is passed over
when heavy validation asked for another (`kernel.ts:4157`); a resume that crosses the
end of the run's job leaves the run queued without one (`kernel.ts:5207`); a run
that is executed with no step left stays running (`kernel.ts:3732`). The properties
name each of them as an exception and say that there is no other.

## Fairness

`ExecFairness` assumes that a stopped worker is started again (a supervisor does
that in production; `docker-compose.yml` covers the API and the database, so an
installation has to arrange it for workers), that a running process and an
accepted request go on, and that an unattended lease runs out. Waiting CLIs are
not restarted, resumes are not assumed, and locks need not age: a reclaim that
meets a lock fails the run, which settles it too. `FairLoopSpec` assumes that the
loop's process takes its next step and that a job of a crashed process is claimed
again, which `timely` shows of the queue. `FairLifecycleSpec` assumes that a drain goes
on, that an open transaction commits, and (strong fairness) that a drain that
waits for a row gets it among any number of ticks, since PostgreSQL serves the
waiters of a row lock in turn.

`FairBuilderSpec` assumes that planner, validation and store answer the request.
`FairDepSpec` assumes that a stopped API process is started again, that its grace
timer ends a shutdown, and that statements and docker commands of a pipeline end,
well or not (`docker build` and `docker push` have no timeout in the code, so this
is an assumption about docker). `FairValidationSpec` assumes that a check takes
its next step and that an application that was told to end does. `CheckEnds` speaks of
heavy validation and readiness from their worktree and of previews from their port, and
excepts a command of npm or docker that ignores SIGTERM; git commands have no timeout
in the code, so that they return is part of the assumption. The MC modules restate these
conditions for the part they belong to.

## Proofs

All theorems hold for every value of the constants that satisfies the assumption
its module names (`RunJobsAssumption`, `RunExecutionAssumption`,
`KernelLoopAssumption`, `FileSessionAssumption`, ...): any number of runs, nodes,
clients, process ids, servers, ticks, rows, plans, files and tabs, and any bound on
crashes and mishaps. Most assumptions only give a constant its type. Those that say
more are facts of the code: a plan has a step, a request has an id no worker uses, a
start makes one attempt to migrate at least, and there is something it may migrate. A theorem that
needs more says so in its own `ASSUME`, and the text below says what breaks without it.

`RunJobs_proofs`: `JobInv` (types, one active job a run, leases held exactly by
held rows, holders registered for the role) is inductive; `TypeCorrect`,
`OneActiveJob` and `ChangesOfHands` follow. The lease discipline is what carries
the proof of `ChangesOfHands`: a held row has a lease, so a claim of a held row
meets an expired one. `QueueImplementsGraph` maps every statement to an edge of
`RunJobGraph` or a stutter.

`RunExecution_proofs`: `ExecUsesQueue` shows that every step of the composition
is a statement of the queue or leaves it alone, so `JobInv` carries over.
Exclusion is proved from `HolderOwnsLock`: whoever is inside `executeLoop` owns
a fresh lock. It is inductive because owners of different processes differ in
node, job or pid, a fresh lock is taken only by its owner, and it ages only when
no process holds it, which is the assumption `"slow_step" \notin Faults` of
`HolderAlwaysOwnsLock`. `RunsExecuteExclusively` follows at once; `StepInSync`
needs both, since only an owner writes the index; `ProgressIsKept` follows from
it, the index of the row being the one the executor counts from.
`ExecutionIsSerial` says what all of it is for: under the refinement mapping that
takes `executors` of a run for the set of processes inside `executeLoop` with it, and
`done` for the index of its row, `RunExecution` implements `SerialRun`. A process
enters only a run that nobody executes, because every executor owns a fresh lock and
the lock it takes is free, its own or stale; it records the step after the last one
recorded, because its local index is the row's; and everything else, leases, claims,
resumes and stops, changes who executes or nothing. The specification has no
fairness: that the run ends is `EveryRunSettles`, which TLC checks.
`ExecutionInvariant` puts the parts together as the run checks them.
`FreshLocksAreKept` needs no assumption on time.

Its second part is about runs whose leases are renewed in time
(`"late_renewal" \notin Faults`). `BusyHolds` says that the job a process works on is
its own, with a live lease; with one active job a run it follows that a run has one
busy process at most, whatever its lock says (`BusyAlone`), and so that nobody fails
the run of another (`FailuresAreOwn`, for slow steps, resumes and lost store calls
too). `NoRunIsOrphaned` needs to know that a run has ended before its job does.
`RunStands` says it place by place: on the way to the end of a job the run is
terminal, and before the last step is recorded it is not complete, which `RowsFit`
carries to the next executor, whose loop starts from the index of the row. That only
the busy process writes its status keeps it true over the awaits. The three other
hypotheses cannot be spared: a lost store call leaves the run active while its job
ends, a request that dies does not enqueue, and a resume between `markRunFailedIfNeeded`
and `failRunJob` finds the old job still active, enqueues nothing, and the run stays
queued without a job when that one ends.

`LifecycleRuns_proofs`: `LifecycleInv` says that a transaction alone holds the row
it locked and that what it read is what the row still says (`LocksHold`), that
whatever is scheduled exists, and that every row is `CountsOf` its steps. A step
does one of five things to a run (`RunStep`), and `ExecutedRow` shows that a
transaction moves a sound row to a sound row; `RecordsAlwaysMatch`,
`OutcomesAreEarned`, `RunsAlwaysAccounted` (the three together) and
`EndedRunsRest` follow. `DrivenRunsStayScheduled` needs
`LocksHold` as well: the answer a drain brings back is that of the row it wrote,
so when it drops the key the run has ended, and only a resume, which enqueues,
makes it active again.

`CorrectionScope_proofs`: `ScopeInv` says that a planned correction carries the
constraint its failure built under the caps of that moment, a recipe its own, and
that nothing has landed without passing the gates. `CorrectionsStayContained`
follows for all configs, changes and numbers of resumes: what landed lies in the
scope of its failure; the policy repeats what the gates asked, so it refuses a
planned correction only if caps were lowered; and a refused one has landed and
waits to be executed again, where the gates find nothing to commit, which keeps
it from being completed. (It is also why such a run cannot be completed by a
resume at all.) The run goes past a refused correction in the one step that also plans
another of heavy validation, so the number of the first is never above that of the
second.

`KernelLoop_proofs`: the sequences of this module grow by insertion, so the
invariant has to say where. `HistoryInv` has five parts besides types. `RecordsFit`:
a record names a step at or before the cursor, the attempts of an index have no gap
and none twice, and a step just recorded has its record. `ProgressIsRecorded`: a step
behind the cursor has a completed one. `PlanFits`: the steps of the first plan keep
their order, no step is there twice, and the corrections of one kind carry the numbers
1 to k, so that there are k of them (by a bijection, without induction).
`CorrectionsFit` bounds that k by the budget, and what a correction
brings is spliced in right behind the cursor, so no record shifts. `HistoryIsAlwaysRecorded` follows, whatever
fails and whenever the process stops. `CommitsAlwaysStay` rests on `CommitsInv`:
everything a `git reset --hard` may go back to (HEAD, the two pointers of the run
row, the commit the session remembers) contains every completed commit; it has no
hypothesis either. `StepsStartClean` (`CleanInv`: the worktree is dirty at five
points of the loop only) needs `"git_error" \notin Faults`: a reset that fails
leaves the dirt. `CompleteRunsAreAtHead` and `StatusAlwaysFollowsGraph` need
`Faults = {}` and `MaxCrashes = 0`: between a commit and the update of its pointer a
stop or a lost statement separates the two for good, which the run `history` reaches.
The second also needs a plan that does not end with a runtime verification, the
divergence listed in the findings (`kernel.ts:4210`).

`Pipelines_proofs`: `DeploymentsInv` says that an active deployment is ready, has
its container and is past its activation, and that what a pipeline cleans up is not
active; `ActiveDeploymentAlwaysRuns` and `ServiceNeverStops` (an action property)
follow. `BuilderInv` says where a request can stand with which findings:
`CallFollowsRun` (attempts and budgets), `JudgedByNow` (what was concluded is about
the files as they are), `StubsAreFollowed` (a stub that is imported is a debt on
record) and `MicroHasStalled`; `AnswersAreAlwaysHonest` and `NoSecondMicroRepairEver`
follow.

Its third part is about the stores of graphs. `NumbersInv` says that the tables have
no gap and that nobody's last number read is ahead of them; the unique index makes a
late one fail (`StoresNumberWithoutGaps`). `GraphsInv` adds, for every creator, that
its graph has passed the checks before its first row, that it alone writes its rows,
and that it writes edges after all nodes. What the check is worth is a matter of
`validateGraphAcyclic` alone: a node is passed in a round after those of all its
sources, so a cycle would have a first node that is passed before itself
(`PassedGraphHasNoCycle`); and when the rounds come to rest with nodes left over,
each of them has a source among them, so that a walk against the edges repeats
itself (`RefusedGraphHasCycle`), unless an edge is there twice and the degree of its
target never falls to zero. `GraphStoresAlwaysHold` follows.

Its fourth part is about imports. `SearchInv` is the invariant of the depth-first
search. `StackInv`: the stack is a path of imports without repetitions, none of its
files has been left, and each import of a file on it is still to come, or leads to the
next file of the stack, to a file that was left, or to one with which it is in a
reported cycle. `ReportInv`: what is reported are cycles told from their least file,
and no two are equal, so no two are rotations of each other. `KnotsInv`: a file that
was left and leads back to itself has a cycle of its strongly connected part in the
report. It is inductive without a word on the order in which files are left: when a
file is left, its first import on the way back to itself was left before, and the two
lead to each other, so that its cycle is this one's too; or the two are in a reported
cycle (`FirstStepBack`, `LeaveKeeps`). `ImportsAreJudgedRightly` follows from it and
from `GuardRefusesWhatTheContractDoes`, which goes through the rules of the guard one
by one: each has one of the contract at its side, or applies to one of the four cases
the property excepts.

`Requests_proofs`: `EditsInv` says where a request of each kind can stand
(`PointsFitKinds`), that a run which a request executes is active, so that every guard
sees it, unless a worker settled its row (`ExecutedIsActive`), and from this that two
past their guards missed or joined each other (`GuardedOrMissed`); and that a run which
keeps edits out is served, or something was noted of it (`ServedOrLeft`) that fits it
(`CausesFit`). It gives `RequestsOverlapInABlindSpot` and `BlockingRunsAreServed`.
Each step does something to one request, one run and one job, which lemmas say of
groups of actions (`RequestMoves`, `RequestExecutes`, `WorkersServe`). `SessInv` follows the newest token of a session: the cookie jar
has it, or the answer that carries it is on its way, or it was lost, or two tabs
refreshed; `ReuseAlwaysHasAReason` says that a revocation means one of the last two.
`FileInv` says for every file what disk, index, HEAD and the remembered content
are, given where the handler stands (`StepFits`, `FileFits`). `StepsAreAlwaysAtomic`
follows, and with it the action property `StepsKeepToTheirFiles`; both hold for every
set of files, so for every order in which they are written, staged and put back.

`Services_proofs`: `AccountsInv` says how complete an organization is at each
statement of the route that makes it, `ContractInv` that what an agent read of a run
is what the row has unless the row was written behind its back (`stale`), and
`MigrationInv` what the statements before a stage of the schema migration made, what
of it lasts, and what is gone only while one process stands right before its
return. `AccountsAlwaysHoldTogether`, `ContractAlwaysGoverns` and
`SchemaAlwaysServes` follow.

`PageInv` is about the page, which no lock protects: any answer may be the next.
`HandlersFit` says what a handler still has to do by what it waits for; `PageLoads`
that a part of another project than the open one was left by a late answer or a
failure (`blind`), or an answer is under way that will load it, or a handler is
about to ask for one; `SignOutDue` that a page which looks signed in without a
session has a call under way that will be refused, or is about to make one. The last
two have to look ahead: a part is out of date from the moment another project is
opened, and what excuses it is in the future of a handler. `PageAlwaysHoldsTogether` follows, its part
on sign-outs being `SignOutDue` where nothing is under way.

`LifecycleRuns_proofs`, second part: `ChecksInv` says of each check of a project that
it stands where its kind may stand, that its count of blocking findings is what it
lists, that a command runs only where the project has one, and what it will have left
when it ends, a worktree only if it is `unremoved`; `ChecksAreAlwaysSound` follows.

### What the proofs changed

Looking for an inductive invariant showed places where a model said more or less
than the code. `FileSession.CheckFile` had two cases that overlap, where the code tests
one after the other. In `ProjectEdits.Guard` the second answer did not say that the
first test had passed. `ExecutionContractAssumption` did not say that
a request to the API is no worker, and left two constants without a type;
`StoreMigrationAssumption` allowed a start without an attempt and writers without
anything to write; `ValidationAssumption` a machine without projects. `ProjectValidation` now
has the order of its commands as a record, and its type invariant within
`ChecksAreSound`; `KernelLoop.PlanWellFormed` states without recursion what it said
with it. `ExecutionGraphs` and `ProjectGraph` used the transitive closure of a library
module, which is defined by a function of two arguments that no backend takes;
`Reachability` says what it is for without one. `ProjectGraphAssumption` did not say
that the files of a project, nor `ExecutionGraphsAssumption` that the ids of runs,
are finite in number.

Induction over numbers is had from the order of the natural numbers: a set of them
that has 0 and the successors of its members has them all (`Counting`), and a
sequence of sets, each made from the one before, exists and comes to rest if it grows
within a finite one (`Recursion`, `ComesToRest`).

### What is model-checked only

- Liveness (`EveryRunSettles`, `EveryExecutionEnds`, `DrivenRunEnds`, `CheckEnds`,
  `RequestEnds`, `EveryDeploymentEnds`): out of the prover's reach.

Every other property that a passing run checks is a theorem.

## Not modelled, and what could follow

| part | left out | why |
| --- | --- | --- |
| prompts, providers, model output | all | nondeterministic input: plans and changes are arbitrary choices |
| templates, reliability harness, CLI | all | static content, and clients whose requests the modules of the routes allow in any order |
| parsers of the validators, middleware rules | their results | arbitrary findings |
| store migration | metadata, learning tables, processes of older versions, lost acknowledgements of a commit | statements that add columns and tables, idempotent one by one; the others are not written for in the code |
| validation | `V1_DOCKER_RUN_MIGRATION`, how docker reaches a port | one more command of the same kind |
| graphs | `graph-governance.ts`, reads | they write nothing |
| API | the project row with its history, which routes read, change and write back | two requests lose an entry of a list that is shown; runs and files do not depend on it |
| sessions | expiry by time, rate limits of refreshes | an expired session is one that is not there |
| kernel | telemetry, memory, the details of recipes | they do not steer the run |
| execution contract | all fields but three, the effective config of the kernel's own defaults | fields are resolved alike |

What could follow: a refinement of `RunExecution`'s indivisible step by
`KernelLoop`, and of `KernelLoop`'s step by `FileSession`.
