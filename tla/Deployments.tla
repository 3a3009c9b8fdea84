---------------------------- MODULE Deployments ----------------------------
(***************************************************************************)
(* Deployments of one project: POST /deployments, the pipeline it leaves   *)
(* running in the background, the table and the containers.  The process   *)
(* is that of ApiServer; a shutdown waits for requests, not for pipelines, *)
(* and every process that initialises the store, a job worker included,    *)
(* fails the deployments that are under way.                               *)
(***************************************************************************)
EXTENDS ApiServer

CONSTANTS
    StopPrevious,  \* DEPLOY_STOP_PREVIOUS
    Mishaps        \* what may go wrong, the first and the last once

ASSUME DeploymentsAssumption ==
    StopPrevious \in BOOLEAN /\ Mishaps \subseteq {"store", "docker", "worker_starts"}

VARIABLES
    row,        \* deployments: status and is_active of each one
    container,  \* its container runs
    pipe,       \* where its request or its pipeline stands
    previous,   \* previousActive of its pipeline
    busy,       \* deploymentJobsByProject has the project
    mishaps     \* what went wrong already

depVars == <<row, container, pipe, previous, busy, mishaps>>
deploymentVars == <<serverVars, depVars>>

PendingStatus == {"queued", "building", "pushing", "launching"}
DepStatus == {"none", "ready", "failed"} \cup PendingStatus
InTry == {"list", "building", "build", "pushing", "push", "launching", "run", "ready", "activate"}
Background == InTry \cup {"start", "clean", "failing", "finish"}
PipePoint == {"none", "ask", "check", "insert", "log", "gone", "done"} \cup Background

DepTypeOK ==
    /\ ServerTypeOK
    /\ row \in [Requests -> [status : DepStatus, active : BOOLEAN]]
    /\ container \in [Requests -> BOOLEAN] /\ pipe \in [Requests -> PipePoint]
    /\ previous \in [Requests -> SUBSET Requests] /\ busy \in BOOLEAN
    /\ mishaps \subseteq Mishaps

DepInit ==
    /\ ServerInit
    /\ row = [d \in Requests |-> [status |-> "none", active |-> FALSE]]
    /\ container = [d \in Requests |-> FALSE] /\ pipe = [d \in Requests |-> "none"]
    /\ previous = [d \in Requests |-> {}] /\ busy = FALSE /\ mishaps = {}

\* hasInProgressDeployment, listActiveDeploymentsByProject.
InProgress == \E d \in Requests : row[d].status \in PendingStatus
ActiveDeployments == {d \in Requests : row[d].active}

Go(d, point) == pipe' = [pipe EXCEPT ![d] = point]

\* A statement fails: the pool is closed, or something else is wrong.
StoreFails ==
    \/ ~pool /\ UNCHANGED mishaps
    \/ "store" \in Mishaps \ mishaps /\ mishaps' = mishaps \cup {"store"}

(***************************************************************************)
(* The request.                                                            *)
(***************************************************************************)

\* The run is complete, validated and at the workspace's HEAD.
Post(d) ==
    /\ pipe[d] = "none" /\ AcceptRequest(d) /\ Go(d, "ask")
    /\ UNCHANGED <<row, container, previous, busy, mishaps>>

\* deploymentJobsByProject is looked at, then the table.
AskMemory(d) ==
    /\ pipe[d] = "ask" /\ ~busy /\ Go(d, "check")
    /\ UNCHANGED <<serverVars, row, container, previous, busy, mishaps>>

AskTable(d) ==
    /\ pipe[d] = "check" /\ pool /\ ~InProgress /\ Go(d, "insert")
    /\ UNCHANGED <<serverVars, row, container, previous, busy, mishaps>>

\* 409: a deployment is already running for this project.
Refuse(d) ==
    /\ \/ pipe[d] = "ask" /\ busy
       \/ pipe[d] = "check" /\ pool /\ InProgress
    /\ AnswerRequest(d) /\ Go(d, "none")
    /\ UNCHANGED <<row, container, previous, busy, mishaps>>

CreateDeployment(d) ==
    /\ pipe[d] = "insert" /\ pool /\ Go(d, "log")
    /\ row' = [row EXCEPT ![d].status = "queued"]
    /\ UNCHANGED <<serverVars, container, previous, busy, mishaps>>

\* A statement of the request fails: it is answered with an error, and a row
\* that was inserted stays queued.
RequestFails(d) ==
    /\ pipe[d] \in {"check", "insert", "log"} /\ StoreFails
    /\ AnswerRequest(d) /\ Go(d, "gone")
    /\ UNCHANGED <<row, container, previous, busy>>

\* The log line is written, the project is marked, the pipeline starts.
StartPipeline(d) ==
    /\ pipe[d] = "log" /\ pool /\ AnswerRequest(d)
    /\ busy' = TRUE /\ Go(d, "start")
    /\ UNCHANGED <<row, container, previous, mishaps>>

(***************************************************************************)
(* runDeploymentPipeline.                                                  *)
(***************************************************************************)

LoadDeployment(d) ==
    /\ pipe[d] = "start" /\ pool /\ Go(d, "list")
    /\ UNCHANGED <<serverVars, row, container, previous, busy, mishaps>>

\* Mutant of ListPrevious: the previous deployments step back before the new one is up.
ListAndRetire(d) ==
    /\ pipe[d] = "list" /\ pool /\ Go(d, "building")
    /\ previous' = [previous EXCEPT ![d] = ActiveDeployments]
    /\ row' = [e \in Requests |-> [row[e] EXCEPT !.active = FALSE]]
    /\ UNCHANGED <<serverVars, container, busy, mishaps>>

ListPrevious(d) ==
    /\ pipe[d] = "list" /\ pool /\ Go(d, "building")
    /\ previous' = [previous EXCEPT ![d] = ActiveDeployments]
    /\ UNCHANGED <<serverVars, row, container, busy, mishaps>>

PointAfter(point) ==
    CASE point = "building" -> "build"     [] point = "build" -> "pushing"
      [] point = "pushing" -> "push"       [] point = "push" -> "launching"
      [] point = "launching" -> "run"      [] point = "run" -> "ready"
      [] point = "ready" -> "activate"

\* updateDeployment writes the status, whatever it was.
WriteStatus(d) ==
    /\ pipe[d] \in {"building", "pushing", "launching", "ready"} /\ pool
    /\ row' = [row EXCEPT ![d].status = pipe[d]]
    /\ Go(d, PointAfter(pipe[d]))
    /\ UNCHANGED <<serverVars, container, previous, busy, mishaps>>

RunDocker(d) ==
    /\ pipe[d] \in {"build", "push", "run"} /\ main # "down"
    /\ container' = [container EXCEPT ![d] = @ \/ pipe[d] = "run"]
    /\ Go(d, PointAfter(pipe[d]))
    /\ UNCHANGED <<serverVars, row, previous, busy, mishaps>>

\* Mutant of Activate: the project's other deployments stay active.
ActivateBeside(d) ==
    /\ pipe[d] = "activate" /\ pool
    /\ row' = [row EXCEPT ![d].active = TRUE]
    /\ Go(d, IF StopPrevious THEN "clean" ELSE "finish")
    /\ UNCHANGED <<serverVars, container, previous, busy, mishaps>>

\* setActiveDeployment: one transaction.
Activate(d) ==
    /\ pipe[d] = "activate" /\ pool
    /\ row' = [e \in Requests |-> [row[e] EXCEPT !.active = (e = d)]]
    /\ Go(d, IF StopPrevious THEN "clean" ELSE "finish")
    /\ UNCHANGED <<serverVars, container, previous, busy, mishaps>>

\* docker rm -f of a previous container and the update of its row; what fails
\* is skipped.
StopOld(d) ==
    /\ pipe[d] = "clean" /\ main # "down"
    /\ \E e \in previous[d] :
         /\ previous' = [previous EXCEPT ![d] = @ \ {e}]
         /\ \/ /\ container' = [container EXCEPT ![e] = FALSE]
               /\ row' = IF pool THEN [row EXCEPT ![e].active = FALSE] ELSE row
            \/ "docker" \in Mishaps /\ UNCHANGED <<container, row>>
    /\ UNCHANGED <<serverVars, pipe, busy, mishaps>>

OldStopped(d) ==
    /\ pipe[d] = "clean" /\ previous[d] = {} /\ Go(d, "finish")
    /\ UNCHANGED <<serverVars, row, container, previous, busy, mishaps>>

\* Something in the try block throws.
StageFails(d) ==
    /\ \/ pipe[d] \in {"build", "push", "run"} /\ "docker" \in Mishaps /\ UNCHANGED mishaps
       \/ pipe[d] \in InTry \ {"build", "push", "run"} /\ StoreFails
    /\ Go(d, "failing")
    /\ UNCHANGED <<serverVars, row, container, previous, busy>>

\* The catch block; an update that fails is logged and forgotten.
MarkFailed(d) ==
    /\ pipe[d] = "failing" /\ Go(d, "finish")
    /\ \/ /\ pool /\ row' = [row EXCEPT ![d] = [status |-> "failed", active |-> FALSE]]
          /\ UNCHANGED mishaps
       \/ StoreFails /\ UNCHANGED row
    /\ UNCHANGED <<serverVars, container, previous, busy>>

\* The finally block frees the project, whoever else works on it.
FinishPipeline(d) ==
    /\ pipe[d] = "finish" /\ busy' = FALSE /\ Go(d, "done")
    /\ UNCHANGED <<serverVars, row, container, previous, mishaps>>

(***************************************************************************)
(* The process.                                                            *)
(***************************************************************************)

\* Mutant of MarkIncompleteFailed: a queued deployment is left to its pipeline.
MarkStartedFailed ==
    row' = [d \in Requests |-> IF row[d].status \in PendingStatus \ {"queued"}
                               THEN [status |-> "failed", active |-> FALSE] ELSE row[d]]

\* markIncompleteDeploymentsFailed, the last statement of store.initialize.
MarkIncompleteFailed ==
    row' = [d \in Requests |-> IF row[d].status \in PendingStatus
                               THEN [status |-> "failed", active |-> FALSE] ELSE row[d]]

StartServer ==
    /\ InitializeStore /\ MarkIncompleteFailed
    /\ UNCHANGED <<container, pipe, previous, busy, mishaps>>

\* A job worker starts and initialises the same store.
WorkerStarts ==
    /\ "worker_starts" \in Mishaps \ mishaps /\ mishaps' = mishaps \cup {"worker_starts"}
    /\ MarkIncompleteFailed
    /\ UNCHANGED <<serverVars, container, pipe, previous, busy>>

\* A process that ends takes its requests and pipelines with it; a docker run
\* that was under way may still succeed.
DropPipelines ==
    /\ pipe' = [d \in Requests |-> IF pipe[d] \in {"none", "done"} THEN pipe[d] ELSE "gone"]
    /\ previous' = [d \in Requests |-> {}] /\ busy' = FALSE
    /\ \E S \in SUBSET {d \in Requests : pipe[d] = "run"} :
         container' = [d \in Requests |-> container[d] \/ d \in S]
    /\ UNCHANGED row

EndServer == (ShutdownEnds \/ Killed) /\ DropPipelines /\ UNCHANGED mishaps

\* The row of a pipeline cannot be read: getDeployment is outside of the try,
\* the rejection is unhandled and ends the process.
PipelineCrashes(d) ==
    /\ pipe[d] = "start" /\ StoreFails
    /\ ProcessEnds /\ DropPipelines /\ UNCHANGED serverStops

Lifecycle ==
    /\ Boot \/ Listen \/ Shutdown \/ CloseHttpServer \/ CloseStore
    /\ UNCHANGED depVars

Requesting(d) ==
    Post(d) \/ AskMemory(d) \/ AskTable(d) \/ Refuse(d) \/ CreateDeployment(d)
    \/ RequestFails(d) \/ StartPipeline(d)

Pipeline(d) ==
    LoadDeployment(d) \/ ListPrevious(d) \/ WriteStatus(d) \/ RunDocker(d) \/ Activate(d)
    \/ StopOld(d) \/ OldStopped(d) \/ StageFails(d) \/ MarkFailed(d) \/ FinishPipeline(d)

DepNext ==
    \/ Lifecycle \/ StartServer \/ EndServer \/ WorkerStarts
    \/ \E d \in Requests : Requesting(d) \/ Pipeline(d) \/ PipelineCrashes(d)

DepSpec == DepInit /\ [][DepNext]_deploymentVars

(***************************************************************************)
(* Fairness: a process is started again, main() and shutdown() go on,      *)
(* accepted requests and pipelines make progress.  Neither requests nor    *)
(* shutdowns have to come.                                                 *)
(***************************************************************************)
DepProgress(d) ==
    AskMemory(d) \/ AskTable(d) \/ Refuse(d) \/ CreateDeployment(d) \/ RequestFails(d)
    \/ StartPipeline(d) \/ Pipeline(d)

FairDepSpec ==
    /\ DepSpec
    /\ WF_deploymentVars(Boot /\ UNCHANGED depVars) /\ WF_deploymentVars(StartServer)
    /\ WF_deploymentVars(ShutdownEnds /\ DropPipelines /\ UNCHANGED mishaps)
    /\ \A d \in Requests : WF_deploymentVars(DepProgress(d))

(***************************************************************************)
(* Properties.                                                             *)
(***************************************************************************)

\* The deployment the project points at is finished and its container runs,
\* and there is one of it at most, although two requests may pass the check
\* for a running deployment together and each pipeline removes the containers
\* it found active when it started.
ActiveDeploymentRuns ==
    /\ \A d \in ActiveDeployments : container[d] /\ row[d].status = "ready"
    /\ Cardinality(ActiveDeployments) <= 1

\* Once a deployment serves the project, one does for ever: a pipeline that
\* fails, races with another or dies, and a restart, take none away.
ServiceContinues == [][ActiveDeployments # {} => ActiveDeployments' # {}]_deploymentVars

\* Every deployment ends: by its pipeline or, when its process stopped, by the
\* start of the next one.  Where a statement fails the row may stay in progress
\* until then, and the project refuses deployments.
EveryDeploymentEnds ==
    \A d \in Requests :
        row[d].status \in PendingStatus ~> row[d].status \notin PendingStatus \/ "store" \in mishaps
=============================================================================
