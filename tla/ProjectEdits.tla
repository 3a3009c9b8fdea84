---------------------------- MODULE ProjectEdits ----------------------------
(***************************************************************************)
(* The routes that change one project: saving a file, generate and chat    *)
(* execute a run inside the request, in the live workspace; a commit takes *)
(* the workspace as it is; others queue, fork or resume runs for the       *)
(* workers, which execute in worktrees of their own.  Most of them ask     *)
(* first whether a run is active.  A request is identified with the run it *)
(* inserts.  No step outlasts the staleness limit of the run lock, so the  *)
(* lock is held from the first step of a loop to its last.                 *)
(***************************************************************************)
EXTENDS Naturals, FiniteSets

CONSTANTS
    Requests,
    MaxServerStops \* bound

ASSUME ProjectEditsAssumption == MaxServerStops \in Nat

VARIABLES
    run,      \* agent_runs: the status of each request's run
    finished, \* runs without a step left in their plan
    jobs,     \* runs with an active job
    worker,   \* what the worker of a run's job is doing
    request,  \* what a request is and where it stands
    cause,    \* history variable: what last left a run without anybody to execute it
    missed,   \* history variable: runs inserted behind the back of a request's guard
    joined,   \* history variable: requests past their guard when a request set its ended run active
    opened,   \* history variable: runs a worker settled although a request executes them
    serverStops

observed == <<missed, joined, opened>>
editVars == <<run, finished, jobs, worker, request, cause, observed, serverStops>>

\* Saving a file, generate and chat are edits, until they correct what they did.
Inline == {"edit", "correct"}
Guarded == {"edit", "queue", "fork", "commit"}  \* assertNoActiveAgentRunMutation
Kinds == Guarded \cup {"correct", "resume", "resume_fork"}
Points == {"new", "guard", "insert", "commit", "look", "requeue", "enqueue",
           "execute", "running", "complete", "failed", "done"}
Past == {"insert", "commit", "execute", "running", "complete", "failed"}
RunStatus == {"none", "queued", "running", "complete", "failed"}
Work == {"none", "executing", "failing", "marking", "settling"}
Causes == {"none", "fork", "thrown", "stopped", "crossed", "exhausted", "unmarked"}

EditsTypeOK ==
    /\ run \in [Requests -> RunStatus] /\ finished \subseteq Requests
    /\ jobs \subseteq Requests /\ worker \in [Requests -> Work]
    /\ request \in [Requests -> [kind : Kinds, at : Points, target : Requests]]
    /\ missed \in [Requests -> SUBSET Requests] /\ joined \in [Requests -> SUBSET Requests]
    /\ opened \subseteq Requests /\ cause \in [Requests -> Causes]
    /\ serverStops \in 0..MaxServerStops

EditsInit ==
    /\ run = [r \in Requests |-> "none"] /\ finished = {}
    /\ jobs = {} /\ worker = [r \in Requests |-> "none"]
    /\ request = [r \in Requests |-> [kind |-> "edit", at |-> "new", target |-> r]]
    /\ missed = [r \in Requests |-> {}] /\ joined = [r \in Requests |-> {}]
    /\ opened = {} /\ cause = [r \in Requests |-> "none"] /\ serverStops = 0

\* Mutant of ActiveRuns: a queued run is not counted.
RunningRuns == {r \in Requests : run[r] = "running"}

\* "correcting" and the like are written "running".
ActiveRuns == {r \in Requests : run[r] \in {"queued", "running"}}
Executing == {r \in Requests : request[r].at = "running"}
UnderWay == {r \in Requests : request[r].at \notin {"new", "done"}}
\* Jobs whose run will still be executed, or marked failed.
Coming == {t \in jobs : worker[t] # "settling"}
\* Requests of the live workspace that have passed their guard.
Passed == {r \in Requests : request[r].at \in Past}

GoTo(r, point) == request' = [request EXCEPT ![r].at = point]

Arrive(r) ==
    /\ request[r].at = "new"
    /\ \E kind \in Kinds \ {"correct"}, t \in Requests :
         /\ IF kind \in Guarded THEN t = r ELSE t # r /\ run[t] # "none"
         /\ request' = [request EXCEPT ![r] =
              [kind |-> kind, target |-> t, at |-> IF kind \in Guarded THEN "guard" ELSE "look"]]
    /\ UNCHANGED <<run, finished, jobs, worker, cause, serverStops>>

\* assertNoActiveAgentRunMutation, and the rate limit and planner call after it.
Guard(r) ==
    /\ request[r].at = "guard"
    /\ GoTo(r, CASE ActiveRuns # {} -> "done"
                 [] ActiveRuns = {} /\ request[r].kind = "commit" -> "commit"
                 [] OTHER -> "insert")
    /\ UNCHANGED <<run, finished, jobs, worker, cause, serverStops>>

\* createAgentRun, in createAndExecuteRun, createQueuedRun and forkRun: the
\* fork of a step gets no job, and is complete where no step follows.
InsertRun(r) ==
    /\ request[r].at = "insert"
    /\ \E status \in IF request[r].kind = "fork" THEN {"queued", "complete"} ELSE {"queued"} :
         /\ run' = [run EXCEPT ![r] = status]
         /\ finished' = IF status = "complete" THEN finished \cup {r} ELSE finished
    /\ GoTo(r, CASE request[r].kind \in Inline -> "execute"
                 [] request[r].kind = "fork" -> "done"
                 [] OTHER -> "enqueue")
    /\ cause' = [cause EXCEPT ![r] = IF request[r].kind = "fork" THEN "fork" ELSE "none"]
    /\ UNCHANGED <<jobs, worker, serverStops>>

\* createAutoCommit of the workspace.
CommitWorkspace(r) ==
    /\ request[r].at = "commit" /\ GoTo(r, "done")
    /\ UNCHANGED <<run, finished, jobs, worker, cause, serverStops>>

\* queueResumeRun, as it reads the run: nobody asks for active runs.
Resume(r) ==
    /\ request[r].at = "look" /\ request[r].kind = "resume"
    /\ GoTo(r, IF run[request[r].target] = "complete" THEN "done" ELSE "requeue")
    /\ UNCHANGED <<run, finished, jobs, worker, cause, serverStops>>

\* Mutant of Requeue: no job is asked for.
RequeueWithoutJob(r) ==
    /\ request[r].at = "requeue" /\ GoTo(r, "done")
    /\ run' = [run EXCEPT ![request[r].target] = "queued"]
    /\ UNCHANGED <<finished, jobs, worker, cause, serverStops>>

\* The write of queueResumeRun, whatever became of the run meanwhile.
Requeue(r) ==
    /\ request[r].at = "requeue" /\ GoTo(r, "enqueue")
    /\ run' = [run EXCEPT ![request[r].target] = "queued"]
    /\ UNCHANGED <<finished, jobs, worker, cause, serverStops>>

\* forkRunForResume: a new run that goes on where the target stands.
ResumeFork(r) ==
    /\ request[r].at = "look" /\ request[r].kind = "resume_fork"
    /\ IF request[r].target \in finished
       THEN /\ run' = [run EXCEPT ![r] = "complete"] /\ finished' = finished \cup {r}
            /\ request' = [request EXCEPT ![r].at = "done"]
       ELSE /\ run' = [run EXCEPT ![r] = "queued"] /\ UNCHANGED finished
            /\ request' = [request EXCEPT ![r] = [kind |-> "resume_fork", at |-> "enqueue", target |-> r]]
    /\ UNCHANGED <<jobs, worker, cause, serverStops>>

\* enqueueRunJob returns the active job of the run where there is one, even if
\* its worker is done with the run.
Enqueue(r) ==
    LET t == request[r].target
    IN
    /\ request[r].at = "enqueue" /\ GoTo(r, "done")
    /\ jobs' = jobs \cup {t}
    /\ cause' = [cause EXCEPT ![t] = IF t \notin jobs \/ t \in Coming THEN "none" ELSE "crossed"]
    /\ UNCHANGED <<run, finished, worker, serverStops>>

\* executeLoop takes the lock and sets the run running; where a resume had the
\* run executed meanwhile, it finds no step to do and leaves it so.
BeginExecution(r) ==
    /\ request[r].at = "execute" /\ worker[r] # "executing"
    /\ run' = [run EXCEPT ![r] = "running"]
    /\ GoTo(r, IF r \in finished THEN "done" ELSE "running")
    /\ cause' = [cause EXCEPT ![r] = IF r \in finished THEN "exhausted" ELSE "none"]
    /\ UNCHANGED <<finished, jobs, worker, serverStops>>

\* The write of a step that is not the last, by the request or by a worker.
StepDone(t) ==
    /\ t \in Executing \/ worker[t] = "executing"
    /\ t \notin finished /\ run' = [run EXCEPT ![t] = "running"]
    /\ UNCHANGED <<finished, jobs, worker, request, cause, serverStops>>

\* The last write of the loop.  From here on the request goes by this outcome,
\* not by what others write; the run is not active while it is validated.
EndExecution(r) ==
    /\ r \in Executing
    /\ \E outcome \in {"complete", "failed"} :
         /\ run' = [run EXCEPT ![r] = outcome] /\ GoTo(r, outcome)
         /\ finished' = IF outcome = "complete" THEN finished \cup {r} ELSE finished
    /\ cause' = [cause EXCEPT ![r] = "none"]
    /\ UNCHANGED <<jobs, worker, serverStops>>

\* executeWithValidationAutoCorrection: the validation of a complete run, or the
\* guard's refusal of a step, asks for a correction (never for a saved file).
\* The run is set active without asking for other runs, and executed again.
CorrectRun(r) ==
    /\ request[r].at = "complete" \/ (request[r].at = "failed" /\ request[r].kind = "edit")
    /\ request' = [request EXCEPT ![r] = [kind |-> IF request[r].at = "complete" THEN "correct" ELSE "edit",
                                          at |-> "execute", target |-> r]]
    /\ run' = [run EXCEPT ![r] = "running"] /\ finished' = finished \ {r}
    /\ cause' = [cause EXCEPT ![r] = "none"]
    /\ UNCHANGED <<jobs, worker, serverStops>>

\* A correction the guard refused is passed over: the run counts as complete
\* again and is validated once more.
PassOver(r) ==
    /\ request[r].at = "failed" /\ request[r].kind = "correct" /\ GoTo(r, "complete")
    /\ run' = [run EXCEPT ![r] = "complete"]
    /\ finished' \in {finished, finished \cup {r}} /\ cause' = [cause EXCEPT ![r] = "none"]
    /\ UNCHANGED <<jobs, worker, serverStops>>

\* The outcome is returned to the route.
Return(r) ==
    /\ request[r].at \in {"complete", "failed"} /\ GoTo(r, "done")
    /\ UNCHANGED <<run, finished, jobs, worker, cause, serverStops>>

\* The lock is held by a worker, the validation finds the run executing, or the
\* store fails: the request ends, and nobody marks the run failed.
ExecutionThrows(r) ==
    /\ request[r].at \in {"execute", "running", "complete", "failed"} /\ GoTo(r, "done")
    /\ cause' = IF r \in ActiveRuns \ Coming THEN [cause EXCEPT ![r] = "thrown"] ELSE cause
    /\ UNCHANGED <<run, finished, jobs, worker, serverStops>>

\* executeRunJob: the run is complete, or locked by a request, or the worker
\* takes the lock and sets the run running.
WorkerBegins(t) ==
    /\ t \in jobs /\ worker[t] = "none"
    /\ worker' = [worker EXCEPT ![t] = CASE run[t] = "complete" -> "settling"
                                         [] run[t] # "complete" /\ t \in Executing -> "failing"
                                         [] OTHER -> "executing"]
    /\ run' = IF worker'[t] = "executing" THEN [run EXCEPT ![t] = "running"] ELSE run
    /\ UNCHANGED <<finished, jobs, request, cause, serverStops>>

\* The loop ends, finds no step left and leaves the run as it is, or throws.
WorkerEnds(t) ==
    /\ worker[t] = "executing"
    /\ \E outcome \in {"complete", "failed", "thrown"} :
         LET nothing == outcome = "complete" /\ t \in finished
             ends == ~nothing /\ outcome # "thrown"
         IN
         /\ outcome = "failed" => t \notin finished
         /\ worker' = [worker EXCEPT ![t] = IF outcome = "thrown" THEN "failing" ELSE "settling"]
         /\ run' = IF ends THEN [run EXCEPT ![t] = outcome] ELSE run
         /\ finished' = IF outcome = "complete" THEN finished \cup {t} ELSE finished
         /\ cause' = IF nothing THEN [cause EXCEPT ![t] = "exhausted"]
                    ELSE [cause EXCEPT ![t] = "none"]
    /\ UNCHANGED <<jobs, request, serverStops>>

\* markRunFailedIfNeeded reads the run, and marks it unless it has ended.
ReadFailing(t) ==
    /\ worker[t] = "failing"
    /\ worker' = [worker EXCEPT ![t] = IF t \in ActiveRuns THEN "marking" ELSE "settling"]
    /\ UNCHANGED <<run, finished, jobs, request, cause, serverStops>>

\* The write, which may fail: the worker goes on all the same.
MarkFailed(t) ==
    /\ worker[t] = "marking" /\ worker' = [worker EXCEPT ![t] = "settling"]
    /\ \/ run' = [run EXCEPT ![t] = "failed"] /\ UNCHANGED cause
       \/ cause' = [cause EXCEPT ![t] = "unmarked"] /\ UNCHANGED run
    /\ UNCHANGED <<finished, jobs, request, serverStops>>

\* completeRunJob or failRunJob.
SettleJob(t) ==
    /\ worker[t] = "settling" /\ worker' = [worker EXCEPT ![t] = "none"]
    /\ jobs' = jobs \ {t}
    /\ UNCHANGED <<run, finished, request, cause, serverStops>>

\* The API process stops and another one starts: requests are gone, rows stay.
ServerStops ==
    /\ serverStops < MaxServerStops /\ serverStops' = serverStops + 1
    /\ request' = [r \in Requests |->
                     IF r \in UnderWay THEN [request[r] EXCEPT !.at = "done"] ELSE request[r]]
    /\ cause' = [t \in Requests |->
                  IF t \in ActiveRuns \ Coming /\ \E q \in UnderWay : request[q].target = t
                  THEN "stopped" ELSE cause[t]]
    /\ UNCHANGED <<run, finished, jobs, worker>>

RequestNext(r) ==
    \/ Arrive(r) \/ Guard(r) \/ InsertRun(r) \/ CommitWorkspace(r)
    \/ Resume(r) \/ Requeue(r) \/ ResumeFork(r) \/ Enqueue(r)
    \/ BeginExecution(r) \/ StepDone(r) \/ EndExecution(r) \/ CorrectRun(r) \/ PassOver(r)
    \/ Return(r) \/ ExecutionThrows(r)

WorkerNext(t) ==
    WorkerBegins(t) \/ WorkerEnds(t) \/ ReadFailing(t) \/ MarkFailed(t) \/ SettleJob(t)

\* What the history variables note of a step, for as long as a request is past
\* its guard.
Observe ==
    /\ missed' = [q \in Requests |->
         IF request'[q].at \notin Past THEN {}
         ELSE missed[q] \cup {r \in Requests : /\ request[q].at \in {"insert", "commit"}
                                              /\ request[r].at = "insert" /\ request'[r].at = "execute"}]
    /\ joined' = [q \in Requests |->
         IF request'[q].at \notin Past THEN {}
         ELSE joined[q] \cup {r \in Passed \ {q} : /\ request[q].at \in {"complete", "failed"}
                                                 /\ request'[q].at = "execute"}]
    /\ opened' = {t \in Requests : request'[t].at \in {"execute", "running"} /\
         \/ t \in opened
         \/ worker[t] \in {"executing", "marking"} /\ worker'[t] = "settling" /\ run'[t] \in {"complete", "failed"}}

EditsNext == (ServerStops \/ \E r \in Requests : RequestNext(r) \/ WorkerNext(r)) /\ Observe

EditsSpec == EditsInit /\ [][EditsNext]_editVars

(***************************************************************************)
(* Properties.                                                             *)
(***************************************************************************)

\* Whoever executes a run in the live workspace shares it with another run or a
\* commit only if one run was inserted between the guard of the other and its
\* insertion, if a request set its ended run active again for a correction when
\* the other had passed the guard, or if a resume, which no guard stops, made a
\* worker settle the row of a run that a request was executing.
OverlapNeedsABlindSpot ==
    \A a \in Executing, b \in Executing \cup {r \in Requests : request[r].at = "commit"} : a # b =>
        a \in missed[b] \/ b \in missed[a] \/ a \in joined[b] \/ b \in joined[a] \/ {a, b} \cap opened # {}

\* A run that blocks the project has a job that will execute it or mark it, or a
\* request that executes it or will give it a job.  Otherwise it is the fork of
\* a step nobody resumed, it is active with no step left to do, the request that
\* executed it threw, the server stopped, its requeue took a job that a worker
\* was about to settle, or the store failed as a worker marked it failed.
BlockingRunIsServed ==
    \A t \in ActiveRuns :
        \/ t \in Coming
        \/ \E r \in UnderWay : request[r].target = t /\ request[r].at \in {"execute", "running", "enqueue"}
        \/ cause[t] = "fork" /\ request[t].kind = "fork"
        \/ cause[t] = "exhausted" /\ t \in finished
        \/ cause[t] = "thrown" /\ request[t].kind \in Inline
        \/ cause[t] \in {"stopped", "crossed", "unmarked"}
=============================================================================
