-------------------------- MODULE Pipelines_proofs --------------------------
(***************************************************************************)
(* Four procedures, for any constants: the pipeline that puts a deployment *)
(* into service, the builder run that corrects until its validation        *)
(* passes, the stores of graphs, revisions and trace events, which check   *)
(* and number what they insert after a read, and the judgement of a        *)
(* project's imports.  What is proved holds for every number of requests,  *)
(* attempts, findings, writers, graphs, files, imports and crashes.        *)
(***************************************************************************)
EXTENDS Deployments, BuilderRun, ExecutionGraphs, ProjectGraph, TLAPS, SequenceTheorems,
        FiniteSetTheorems


(***************************************************************************)
(* Deployments.                                                            *)
(***************************************************************************)

\* The points of a pipeline that has activated its deployment, or gave it up.
PastActivation == {"clean", "finish", "done", "gone"}

\* An active deployment is ready, has its container and is past its activation;
\* there is one at most; what a pipeline cleans up is past its own activation
\* and is not active any more.
DeploymentsInv ==
    /\ DepTypeOK
    /\ \A d \in Requests :
         /\ row[d].active => container[d] /\ row[d].status = "ready" /\ pipe[d] \in PastActivation
         /\ pipe[d] = "ready" => container[d]
         /\ pipe[d] = "activate" => container[d] /\ row[d].status = "ready"
    /\ \A d, e \in Requests :
         /\ row[d].active /\ row[e].active => d = e
         /\ e \in previous[d] => pipe[e] \in PastActivation
         /\ pipe[d] = "clean" /\ e \in previous[d] => ~row[e].active

\* A fresh server has deployed nothing.
LEMMA DeploymentsStart == DepInit => DeploymentsInv
<1> SUFFICES ASSUME DepInit PROVE DeploymentsInv
  OBVIOUS
<1>0. 0 \in 0..MaxServerStops
  BY ApiServerAssumption DEF ApiServerAssumption
<1>1. ServerTypeOK
  BY <1>0 DEF DepInit, ServerInit, ServerTypeOK
<1>2. DepTypeOK
  BY <1>1 DEF DepInit, DepTypeOK, DepStatus, PipePoint
<1>3. QED
  BY <1>2 DEF DeploymentsInv, DepInit

\* The API process keeps its own types, whatever it does.
LEMMA ServerKeepsTypes ==
    ASSUME ServerTypeOK,
           \/ Boot \/ Listen \/ Shutdown \/ CloseHttpServer \/ CloseStore \/ InitializeStore
           \/ \E r \in Requests : AcceptRequest(r) \/ AnswerRequest(r)
           \/ ShutdownEnds \/ Killed \/ UNCHANGED serverVars \/ (ProcessEnds /\ UNCHANGED serverStops)
    PROVE  ServerTypeOK'
<1> USE DEF ServerTypeOK
<1>0. MaxServerStops \in Nat BY ApiServerAssumption DEF ApiServerAssumption
<1>1. CASE Boot BY <1>1 DEF Boot
<1>2. CASE Listen BY <1>2 DEF Listen
<1>3. CASE Shutdown BY <1>0, <1>3 DEF Shutdown
<1>4. CASE CloseHttpServer \/ CloseStore \/ InitializeStore
  BY <1>4 DEF CloseHttpServer, CloseStore, InitializeStore
<1>5. CASE \E r \in Requests : AcceptRequest(r) \/ AnswerRequest(r)
  BY <1>5 DEF AcceptRequest, AnswerRequest
<1>6. CASE ProcessEnds /\ UNCHANGED serverStops
  BY <1>6 DEF ProcessEnds
<1>7. CASE ShutdownEnds
  BY <1>6, <1>7 DEF ShutdownEnds
<1>8. CASE Killed
  <2>1. serverStops' \in 0..MaxServerStops BY <1>0, <1>8 DEF Killed
  <2>2. QED BY <1>8, <2>1 DEF Killed, ProcessEnds
<1>9. CASE UNCHANGED serverVars
  BY <1>9 DEF serverVars
<1>10. QED BY <1>1, <1>2, <1>3, <1>4, <1>5, <1>6, <1>7, <1>8, <1>9

\* A step of the API process that leaves the deployments alone.
LEMMA ServerStepKeeps ==
    ASSUME DeploymentsInv, UNCHANGED depVars, ServerTypeOK'
    PROVE DeploymentsInv'
BY DEF DeploymentsInv, depVars, DepTypeOK

\* The request that starts a deployment: a row it creates is not active, and its
\* pipeline starts with nothing to clean up.
LEMMA RequestKeeps ==
    ASSUME DeploymentsInv, NEW d \in Requests, Requesting(d)
    PROVE DeploymentsInv'
<1> USE DEF DeploymentsInv, DepTypeOK, DepStatus, PendingStatus, PipePoint, PastActivation, Go, Background, InTry
<1>1. CASE Post(d)
  <2>1. ServerTypeOK' BY <1>1, ServerKeepsTypes DEF Post
  <2>2. QED BY <1>1, <2>1 DEF Post
<1>2. CASE AskMemory(d)
  <2>1. ServerTypeOK' BY <1>2, ServerKeepsTypes DEF AskMemory
  <2>2. QED BY <1>2, <2>1 DEF AskMemory
<1>3. CASE AskTable(d)
  <2>1. ServerTypeOK' BY <1>3, ServerKeepsTypes DEF AskTable
  <2>2. QED BY <1>3, <2>1 DEF AskTable
<1>4. CASE Refuse(d)
  <2>1. ServerTypeOK' BY <1>4, ServerKeepsTypes DEF Refuse
  <2>2. QED BY <1>4, <2>1 DEF Refuse
<1>5. CASE CreateDeployment(d)
  <2>1. ServerTypeOK' BY <1>5, ServerKeepsTypes DEF CreateDeployment
  <2>2. QED BY <1>5, <2>1 DEF CreateDeployment
<1>6. CASE RequestFails(d)
  <2>1. ServerTypeOK' BY <1>6, ServerKeepsTypes DEF RequestFails
  <2>2. mishaps' \subseteq Mishaps BY <1>6 DEF RequestFails, StoreFails
  <2>3. QED BY <1>6, <2>1, <2>2 DEF RequestFails
<1>7. CASE StartPipeline(d)
  <2>1. ServerTypeOK' BY <1>7, ServerKeepsTypes DEF StartPipeline
  <2>2. QED BY <1>7, <2>1 DEF StartPipeline
<1>8. QED BY <1>1, <1>2, <1>3, <1>4, <1>5, <1>6, <1>7 DEF Requesting

\* The pipeline of a deployment: a row becomes active only when its container
\* runs, and the rows it cleans up after have lost their activity by then.
LEMMA PipelineKeeps ==
    ASSUME DeploymentsInv, NEW d \in Requests, Pipeline(d)
    PROVE DeploymentsInv'
<1> USE DEF DeploymentsInv, DepTypeOK, DepStatus, PendingStatus, PipePoint, PastActivation, Go, Background, InTry
<1>0. UNCHANGED serverVars => ServerTypeOK'
  BY ServerKeepsTypes
<1>1. CASE LoadDeployment(d)
  BY <1>0, <1>1 DEF LoadDeployment
<1>2. CASE ListPrevious(d)
  BY <1>0, <1>2 DEF ListPrevious, ActiveDeployments
<1>3. CASE WriteStatus(d)
  BY <1>0, <1>3 DEF WriteStatus, PointAfter
<1>4. CASE RunDocker(d)
  BY <1>0, <1>4, ZenonT(40) DEF RunDocker, PointAfter
<1>5. CASE Activate(d)
  BY <1>0, <1>5 DEF Activate
<1>6. CASE StopOld(d)
  <2>1. PICK e \in previous[d] :
            /\ previous' = [previous EXCEPT ![d] = @ \ {e}]
            /\ \/ /\ container' = [container EXCEPT ![e] = FALSE]
                  /\ row' = IF pool THEN [row EXCEPT ![e].active = FALSE] ELSE row
               \/ UNCHANGED <<container, row>>
    BY <1>6 DEF StopOld
  <2>2. e \in Requests /\ pipe[e] \in PastActivation /\ ~row[e].active /\ pipe[d] = "clean"
    BY <1>6, <2>1 DEF StopOld
  <2>3. previous' \in [Requests -> SUBSET Requests] /\ \A f \in Requests : previous'[f] \subseteq previous[f]
    BY <2>1
  <2>4. CASE UNCHANGED <<container, row>>
    BY <1>0, <1>6, <2>3, <2>4 DEF StopOld
  <2>5. CASE container' = [container EXCEPT ![e] = FALSE] /\ row' = row
    BY <1>0, <1>6, <2>2, <2>3, <2>5 DEF StopOld
  <2>6. CASE container' = [container EXCEPT ![e] = FALSE] /\ row' = [row EXCEPT ![e].active = FALSE]
    <3>1. /\ row' \in [Requests -> [status : DepStatus, active : BOOLEAN]]
          /\ \A f \in Requests : row'[f].active => row[f].active /\ f # e
          /\ \A f \in Requests : row'[f].status = row[f].status
      <4> DEFINE Retired == [row[e] EXCEPT !.active = FALSE]
      <4>1. /\ Retired \in [status : DepStatus, active : BOOLEAN]
            /\ ~Retired.active /\ Retired.status = row[e].status
        BY <2>2, ZenonT(40)
      <4>2. row' = [row EXCEPT ![e] = Retired]
        BY <2>6
      <4> HIDE DEF Retired
      <4>3. QED BY <2>2, <4>1, <4>2
    <3>2. DepTypeOK'
      BY <1>0, <1>6, <2>3, <2>6, <3>1 DEF StopOld
    <3>3. \A f \in Requests : (container[f] => container'[f] \/ f = e) /\ pipe'[f] = pipe[f]
      BY <1>6, <2>6 DEF StopOld
    <3>4. QED BY <2>2, <2>3, <3>1, <3>2, <3>3
  <2>7. QED BY <2>1, <2>4, <2>5, <2>6
<1>7. CASE OldStopped(d)
  BY <1>0, <1>7 DEF OldStopped
<1>8. CASE StageFails(d)
  <2>1. mishaps' \subseteq Mishaps BY <1>8 DEF StageFails, StoreFails
  <2>2. QED BY <1>0, <1>8, <2>1 DEF StageFails
<1>9. CASE MarkFailed(d)
  <2>1. mishaps' \subseteq Mishaps BY <1>9 DEF MarkFailed, StoreFails
  <2>2. CASE UNCHANGED row
    BY <1>0, <1>9, <2>1, <2>2 DEF MarkFailed
  <2>3. CASE row' = [row EXCEPT ![d] = [status |-> "failed", active |-> FALSE]]
    BY <1>0, <1>9, <2>1, <2>3 DEF MarkFailed
  <2>4. QED BY <1>9, <2>2, <2>3 DEF MarkFailed
<1>10. CASE FinishPipeline(d)
  BY <1>0, <1>10, ZenonT(40) DEF FinishPipeline
<1>11. QED BY <1>1, <1>2, <1>3, <1>4, <1>5, <1>6, <1>7, <1>8, <1>9, <1>10 DEF Pipeline

\* Starts and ends of the API process and of a worker, which fail what was
\* pending and leave active rows alone.
LEMMA ProcessKeeps ==
    ASSUME DeploymentsInv, Lifecycle \/ StartServer \/ EndServer \/ WorkerStarts
                   \/ \E d \in Requests : PipelineCrashes(d)
    PROVE DeploymentsInv'
<1> USE DEF DeploymentsInv, DepTypeOK, DepStatus, PendingStatus, PipePoint, PastActivation, Background, InTry
<1>1. CASE Lifecycle
  BY <1>1, ServerKeepsTypes, ServerStepKeeps DEF Lifecycle
<1>2. CASE StartServer
  <2>1. ServerTypeOK' BY <1>2, ServerKeepsTypes DEF StartServer
  <2>2. QED BY <1>2, <2>1 DEF StartServer, MarkIncompleteFailed
<1>3. CASE WorkerStarts
  <2>1. ServerTypeOK' BY <1>3, ServerKeepsTypes DEF WorkerStarts
  <2>2. mishaps' \subseteq Mishaps BY <1>3 DEF WorkerStarts
  <2>3. QED BY <1>3, <2>1, <2>2 DEF WorkerStarts, MarkIncompleteFailed
<1>4. ASSUME DropPipelines, ServerTypeOK', mishaps' \subseteq Mishaps PROVE DeploymentsInv'
  <2>1. PICK S \in SUBSET {d \in Requests : pipe[d] = "run"} :
            container' = [d \in Requests |-> container[d] \/ d \in S]
    BY <1>4 DEF DropPipelines
  <2>2. DepTypeOK'
    BY <1>4, <2>1 DEF DropPipelines
  <2>3. QED
    BY <1>4, <2>1, <2>2 DEF DropPipelines
<1>5. CASE EndServer
  <2>1. ServerTypeOK' BY <1>5, ServerKeepsTypes DEF EndServer
  <2>2. QED BY <1>4, <1>5, <2>1 DEF EndServer
<1>6. CASE \E d \in Requests : PipelineCrashes(d)
  <2>1. ServerTypeOK' BY <1>6, ServerKeepsTypes DEF PipelineCrashes
  <2>2. mishaps' \subseteq Mishaps BY <1>6 DEF PipelineCrashes, StoreFails
  <2>3. QED BY <1>4, <1>6, <2>1, <2>2 DEF PipelineCrashes
<1>7. QED BY <1>1, <1>2, <1>3, <1>5, <1>6

\* The invariant of deployments holds for every set of requests and mishaps.
THEOREM DeploymentsAreInductive == DepSpec => []DeploymentsInv
<1>1. ASSUME DeploymentsInv, [DepNext]_deploymentVars PROVE DeploymentsInv'
  <2>1. CASE UNCHANGED deploymentVars
    BY <1>1, <2>1, ServerKeepsTypes, ServerStepKeeps DEF deploymentVars, DeploymentsInv, DepTypeOK
  <2>2. QED
    BY <1>1, <2>1, RequestKeeps, PipelineKeeps, ProcessKeeps DEF DepNext
<1>2. QED
  BY <1>1, DeploymentsStart, PTL DEF DepSpec

\* The deployment a project points at is ready and its container runs, and there
\* is one at most, however the requests that pass the check for a running
\* deployment interleave (server.ts, runDeploymentPipeline).
THEOREM ActiveDeploymentAlwaysRuns == DepSpec => []ActiveDeploymentRuns
<1>1. ASSUME DeploymentsInv PROVE ActiveDeploymentRuns
  <2>1. \A d \in ActiveDeployments : container[d] /\ row[d].status = "ready"
    BY <1>1 DEF DeploymentsInv, ActiveDeployments
  <2>2. CASE ActiveDeployments = {}
    BY <2>1, <2>2, FS_EmptySet DEF ActiveDeploymentRuns
  <2>3. CASE ActiveDeployments # {}
    <3>1. PICK d \in Requests : ActiveDeployments = {d}
      BY <1>1, <2>3 DEF DeploymentsInv, ActiveDeployments
    <3>2. Cardinality(ActiveDeployments) = 1
      BY <3>1, FS_Singleton
    <3>3. QED BY <2>1, <3>2 DEF ActiveDeploymentRuns
  <2>4. QED BY <2>2, <2>3
<1>2. QED BY <1>1, DeploymentsAreInductive, PTL

\* Once a deployment serves the project one does for ever: no failure, restart or
\* other deployment takes it away (project-store.ts, setActiveDeployment and
\* markIncompleteDeploymentsFailed).
THEOREM ServiceNeverStops == DepSpec => ServiceContinues
<1>1. ASSUME DeploymentsInv, [DepNext]_deploymentVars, ActiveDeployments # {}
      PROVE  ActiveDeployments' # {}
  <2> USE DEF DeploymentsInv, DepTypeOK, ActiveDeployments, PastActivation
  <2>0. PICK a \in Requests : row[a].active
    BY <1>1
  <2>1. CASE UNCHANGED row
    BY <1>1, <2>1
  <2>2. CASE StartServer \/ WorkerStarts
    BY <1>1, <2>0, <2>2 DEF StartServer, WorkerStarts, MarkIncompleteFailed, PendingStatus
  <2>3. ASSUME NEW d \in Requests, CreateDeployment(d) \/ WriteStatus(d) PROVE row'[a].active
    BY <1>1, <2>0, <2>3 DEF CreateDeployment, WriteStatus
  <2>4. ASSUME NEW d \in Requests, Activate(d) PROVE row'[d].active
    BY <1>1, <2>4 DEF Activate
  <2>5. ASSUME NEW d \in Requests, StopOld(d) PROVE row'[a].active
    BY <1>1, <2>0, <2>5 DEF StopOld
  <2>6. ASSUME NEW d \in Requests, MarkFailed(d) PROVE row'[a].active
    BY <1>1, <2>0, <2>6 DEF MarkFailed
  <2>7. QED
    BY <1>1, <2>0, <2>1, <2>2, <2>3, <2>4, <2>5, <2>6
    DEF DepNext, Requesting, Pipeline, Lifecycle, EndServer, DropPipelines, PipelineCrashes, depVars, deploymentVars,
        Post, AskMemory, AskTable, Refuse, RequestFails, StartPipeline, LoadDeployment, ListPrevious,
        RunDocker, OldStopped, StageFails, FinishPipeline
<1>2. QED
  BY <1>1, DeploymentsAreInductive, PTL DEF DepSpec, ServiceContinues

(***************************************************************************)
(* Builder runs.                                                           *)
(***************************************************************************)

ClusterNames == {"layer", "gap", "cycle", "middleware", "typecheck", "build", "tests", "import", "contract"}

AttemptType ==
    [at : {"pending"}, first : {"none"} \cup Steps, phases : SUBSET Steps,
     before : SUBSET Findings, clusters : SUBSET ClusterNames]

CallType ==
    [at : {"idle", "loop", "completed", "failed", "validate", "learn", "decide", "returned", "stopped"},
     auto : BOOLEAN, second : BOOLEAN, invariant : BOOLEAN, retries : 0..MaxInvariantRetries + 1,
     pending : {NoAttempt} \cup AttemptType, phases : SUBSET Steps, provisional : BOOLEAN,
     blind : BOOLEAN, leftover : BOOLEAN]

RunType ==
    [status : {"none", "running", "complete", "failed"}, attempts : 0..MaxAttempts,
     validation : {"none", "passed", "failed"}, ready : {"off", "none", "ok", "failed"}]

HeadType ==
    [findings : SUBSET Possible, stub : {"none", "used", "unused"}, recipe : {"miss", "stub", "rewrite"}]

BuilderTypes ==
    /\ run \in RunType /\ call \in CallType /\ head \in HeadType /\ todo \in Seq(Steps) /\ judged \in BOOLEAN
    /\ stalls \in 0..5 /\ debt \in {"none", "open", "closed"}
    /\ stops \in 0..MaxStops /\ resumes \in 0..MaxResumes

\* Where the request stands says what the run's row holds, and a correction is
\* under way only while an attempt is left for it.
CallFollowsRun ==
    /\ call.at = "idle" <=> run.status = "none"
    /\ call.at = "idle" => run.validation = "none" /\ head.stub = "none"
    /\ call.at = "loop" => run.status = "running" /\ todo # <<>>
    /\ call.at = "failed" => run.status = "failed" /\ todo # <<>>
    /\ call.second => call.auto
    /\ call.at \in {"validate", "learn", "decide"} => call.second
    /\ call.second /\ call.at \in {"loop", "completed", "failed"} => run.attempts < MaxAttempts
    /\ call.at = "stopped" => stops > 0

\* A validation is of the commit it was made at, and a request that corrects
\* has one when it decides and when it returns a complete run.
JudgedByNow ==
    /\ judged => run.validation = IF head.findings = {} THEN "passed" ELSE "failed"
    /\ call.at \in {"learn", "decide"} => judged
    /\ call.at = "returned" /\ call.auto /\ run.status = "complete" => judged
    /\ stops = 0 /\ resumes = 0 /\ ~call.auto => run.validation = "none" \/ judged
    /\ stops = 0 /\ resumes = 0 /\ ~call.auto /\ call.at # "returned" => run.validation = "none"

NoStub(steps) == \A i \in 1..Len(steps) : steps[i] # "stub"

\* The first loop writes no stubs; a stub is a plan of its own, and once it is
\* written its attempt puts it on record.
StubsAreFollowed ==
    call.auto /\ ~call.blind /\ ~call.leftover =>
        /\ call.at \in {"loop", "completed", "failed"} /\ ~call.second =>
             head.stub # "used" /\ call.pending = NoAttempt /\ NoStub(todo)
        /\ call.at = "loop" /\ call.second =>
             /\ call.pending # NoAttempt
             /\ NoStub(todo) \/ (todo = <<"stub">> /\ call.pending.first = "none")
        /\ call.at \in {"completed", "validate", "learn", "decide"} => todo = <<>>
        /\ head.stub = "used" =>
             \/ debt = "open"
             \/ /\ call.at \in {"completed", "validate", "learn"}
                /\ call.pending # NoAttempt /\ call.pending.first = "stub"

\* A micro repair that left findings is among the stalled ones.
MicroHasStalled ==
    /\ call.at = "learn" => call.pending # NoAttempt
    /\ call.at = "decide" /\ call.phases = {"micro"} /\ ~call.blind /\ head.findings # {} => stalls >= 1

\* All that a step of the correction loop relies on.
BuilderInv ==
    BuilderTypes /\ CallFollowsRun /\ JudgedByNow /\ StubsAreFollowed /\ MicroHasStalled

\* Plans of corrections are never empty, and the planner writes no stubs.
LEMMA PlansAreSteps ==
    ASSUME NEW profile, NEW scoped
    PROVE  /\ PlanCorrection(profile, scoped) \in Seq(Steps) /\ PlanCorrection(profile, scoped) # <<>>
           /\ NoStub(PlanCorrection(profile, scoped))
<1>1. \A step \in Phases : <<step>> \in Seq(Steps) /\ <<step>> # <<>> /\ NoStub(<<step>>)
  BY DEF Phases, Steps, NoStub
<1>2. LET steps == <<"structural_reset", "feature_reintegration">>
      IN  steps \in Seq(Steps) /\ steps # <<>> /\ NoStub(steps)
  BY DEF Phases, Steps, NoStub
<1>3. \/ PlanCorrection(profile, scoped) = <<"structural_reset", "feature_reintegration">>
      \/ \E step \in Phases : PlanCorrection(profile, scoped) = <<step>>
  BY DEF PlanCorrection, Phases
<1>4. QED BY <1>1, <1>2, <1>3

\* Classification names clusters of the planner's vocabulary only.
LEMMA ClustersAreNamed ==
    ASSUME NEW report
    PROVE  ClassifyValidation(report).clusters \subseteq ClusterNames
BY DEF ClassifyValidation, Clusters, ClusterNames

\* A request that has not begun.
LEMMA NoCallIsACall == NoCall \in CallType
BY BuilderAssumption DEF NoCall, CallType, BuilderAssumption

\* A recorded attempt is told from the lack of one.
LEMMA NoAttemptIsNone == \A p \in AttemptType : p # NoAttempt
BY DEF AttemptType, NoAttempt

\* A project begins without a run.
LEMMA BuilderStarts == BuilderInit => BuilderInv
<1> SUFFICES ASSUME BuilderInit PROVE BuilderInv
  OBVIOUS
<1>1. 0 \in 0..MaxAttempts /\ 0 \in 0..MaxStops /\ 0 \in 0..MaxResumes /\ <<>> \in Seq(Steps)
  BY BuilderAssumption DEF BuilderAssumption
<1>2. BuilderTypes
  <2>1. run \in RunType
    BY <1>1 DEF BuilderInit, RunType
  <2>2. head \in HeadType
    BY DEF BuilderInit, HeadType
  <2>3. todo \in Seq(Steps) /\ stops \in 0..MaxStops /\ resumes \in 0..MaxResumes /\ call \in CallType
    BY <1>1, NoCallIsACall, Zenon DEF BuilderInit
  <2>a. judged = FALSE /\ stalls = 0 /\ debt = "none"
    BY Zenon DEF BuilderInit
  <2>4. stalls \in 0..5 /\ debt \in {"none", "open", "closed"}
    BY <2>a
  <2>b. judged \in BOOLEAN
    BY <2>a, Zenon
  <2>5. QED
    BY <2>1, <2>2, <2>3, <2>4, <2>b, Zenon DEF BuilderTypes
<1>3. QED
  BY <1>2 DEF BuilderInit, BuilderInv, CallFollowsRun, JudgedByNow, StubsAreFollowed, MicroHasStalled, NoCall

\* A new run goes through the plan it is created with, which writes no stubs.
LEMMA CreateRunKeeps == BuilderInv /\ CreateRun => BuilderInv'
<1> SUFFICES ASSUME BuilderInv, CreateRun PROVE BuilderInv'
  OBVIOUS
<1>0. PICK plan \in {<<"save">>, <<"generate">>, <<"generate", "generate">>} :
      todo' = plan /\ call' = [NoCall EXCEPT !.at = "loop", !.auto = "generate" \in ToSet(plan)]
  BY Zenon DEF CreateRun
<1> DEFINE auto == "generate" \in ToSet(plan)
<1>1. todo' = plan /\ call' = [NoCall EXCEPT !.at = "loop", !.auto = auto]
  BY <1>0, Zenon
<1>a. auto \in BOOLEAN
  OBVIOUS
<1> HIDE DEF auto
<1>2. plan \in Seq(Steps) /\ plan # <<>> /\ NoStub(plan)
  <2>1. CASE plan = <<"save">>
    BY <2>1 DEF Steps, NoStub
  <2>2. CASE plan = <<"generate">>
    BY <2>2 DEF Steps, NoStub
  <2>3. CASE plan = <<"generate", "generate">>
    BY <2>3 DEF Steps, NoStub
  <2>4. QED BY <2>1, <2>2, <2>3, Zenon
<1>3. call' \in CallType
  BY <1>1, <1>a, NoCallIsACall DEF CallType
<1>4. call'.at = "loop" /\ ~call'.second /\ call'.pending = NoAttempt
  BY <1>1, NoCallIsACall DEF CallType, NoCall
<1>5. run' \in RunType /\ run'.status = "running" /\ run'.validation = run.validation /\ run.status = "none"
  BY DEF CreateRun, BuilderInv, BuilderTypes, RunType
<1>6. BuilderTypes'
  BY <1>1, <1>2, <1>3, <1>5 DEF BuilderInv, BuilderTypes, CreateRun
<1>7. CallFollowsRun' /\ JudgedByNow'
  BY <1>1, <1>2, <1>4, <1>5 DEF BuilderInv, BuilderTypes, CreateRun, CallFollowsRun, JudgedByNow
<1>8. StubsAreFollowed' /\ MicroHasStalled'
  BY <1>1, <1>2, <1>4, <1>5 DEF BuilderInv, CreateRun, CallFollowsRun, StubsAreFollowed, MicroHasStalled
<1>9. QED BY <1>6, <1>7, <1>8 DEF BuilderInv

\* What is left of a plan after its first step.
LEMMA TailKeepsSteps ==
    ASSUME NEW steps \in Seq(Steps), steps # <<>>
    PROVE  /\ Tail(steps) \in Seq(Steps) /\ Head(steps) \in Steps /\ Len(steps) >= 1
           /\ Len(steps) = 1 => Tail(steps) = <<>>
           /\ Len(steps) # 1 => Tail(steps) # <<>>
           /\ NoStub(steps) => NoStub(Tail(steps)) /\ Head(steps) # "stub"
<1>1. /\ Tail(steps) \in Seq(Steps) /\ Head(steps) = steps[1] /\ Len(steps) >= 1 /\ Len(steps) \in Nat
      /\ Len(Tail(steps)) = Len(steps) - 1
      /\ \A i \in 1..Len(Tail(steps)) : Tail(steps)[i] = steps[i + 1]
  BY HeadTailProperties, EmptySeq
<1>2. Head(steps) \in Steps
  BY <1>1
<1>3. Len(steps) = 1 <=> Tail(steps) = <<>>
  BY <1>1, EmptySeq
<1>4. NoStub(steps) => NoStub(Tail(steps)) /\ Head(steps) # "stub"
  BY <1>1 DEF NoStub
<1>5. QED BY <1>1, <1>2, <1>3, <1>4

\* The first step an attempt runs is the one it is known by.
LEMMA RanIsAnAttempt ==
    ASSUME BuilderTypes, NEW step \in Steps
    PROVE  /\ Ran(step) \in {NoAttempt} \cup AttemptType
           /\ Ran(step) = NoAttempt <=> call.pending = NoAttempt
           /\ call.pending # NoAttempt /\ call.pending.first = "none" => Ran(step).first = step
<1>1. CASE call.pending = NoAttempt
  BY <1>1 DEF Ran
<1>2. CASE call.pending \in AttemptType
  BY <1>2, NoAttemptIsNone DEF Ran, AttemptType, Titled
<1>3. QED BY <1>1, <1>2 DEF BuilderTypes, CallType

\* A step that succeeds: the last one completes the run.
LEMMA ExecuteStepKeeps == BuilderInv /\ ExecuteStep => BuilderInv'
<1> SUFFICES ASSUME BuilderInv, ExecuteStep PROVE BuilderInv'
  OBVIOUS
<1>1. /\ Tail(todo) \in Seq(Steps) /\ Head(todo) \in Steps
      /\ Len(todo) = 1 => Tail(todo) = <<>>
      /\ Len(todo) # 1 => Tail(todo) # <<>>
      /\ NoStub(todo) => NoStub(Tail(todo)) /\ Head(todo) # "stub"
  BY TailKeepsSteps DEF BuilderInv, BuilderTypes, CallFollowsRun, ExecuteStep
<1>2. /\ Ran(Head(todo)) \in {NoAttempt} \cup AttemptType
      /\ Ran(Head(todo)) = NoAttempt <=> call.pending = NoAttempt
      /\ call.pending # NoAttempt /\ call.pending.first = "none" => Ran(Head(todo)).first = Head(todo)
  BY <1>1, RanIsAnAttempt DEF BuilderInv
<1>3. /\ call' = [call EXCEPT !.pending = Ran(Head(todo)), !.at = IF Len(todo) = 1 THEN "completed" ELSE "loop"]
      /\ run' = [run EXCEPT !.status = IF Len(todo) = 1 THEN "complete" ELSE "running"]
      /\ todo' = Tail(todo) /\ UNCHANGED <<stalls, debt, stops, resumes>> /\ call.at = "loop"
  BY DEF ExecuteStep
<1>4. /\ head' \in HeadType /\ judged' \in BOOLEAN
      /\ (head' = head /\ judged' = judged) \/ judged' = FALSE
      /\ head'.stub = "used" => head.stub = "used" \/ Head(todo) = "stub"
  BY DEF ExecuteStep, Remade, HeadType, BuilderInv, BuilderTypes
<1>5. BuilderTypes'
  BY <1>1, <1>2, <1>3, <1>4 DEF BuilderInv, BuilderTypes, RunType, CallType
<1>6. CallFollowsRun'
  BY <1>1, <1>3 DEF BuilderInv, BuilderTypes, RunType, CallType, CallFollowsRun
<1>7. JudgedByNow'
  BY <1>3, <1>4 DEF BuilderInv, BuilderTypes, RunType, CallType, JudgedByNow
<1>8. StubsAreFollowed' /\ MicroHasStalled'
  BY <1>1, <1>2, <1>3, <1>4 DEF BuilderInv, BuilderTypes, RunType, CallType, StubsAreFollowed, MicroHasStalled
<1>9. QED BY <1>5, <1>6, <1>7, <1>8 DEF BuilderInv

\* A step that fails fails the run, and its request has to decide.
LEMMA FailStepKeeps == BuilderInv /\ FailStep => BuilderInv'
<1> SUFFICES ASSUME BuilderInv, FailStep PROVE BuilderInv'
  OBVIOUS
<1>1. Head(todo) \in Steps
  BY TailKeepsSteps DEF BuilderInv, BuilderTypes, CallFollowsRun, FailStep
<1>2. /\ Ran(Head(todo)) \in {NoAttempt} \cup AttemptType
      /\ Ran(Head(todo)) = NoAttempt <=> call.pending = NoAttempt
  BY <1>1, RanIsAnAttempt DEF BuilderInv
<1>3. PICK invariant \in BOOLEAN :
            call' = [call EXCEPT !.at = "failed", !.pending = Ran(Head(todo)), !.invariant = invariant]
  BY DEF FailStep
<1>4. BuilderTypes'
  BY <1>2, <1>3 DEF BuilderInv, BuilderTypes, RunType, CallType, FailStep
<1>5. QED
  BY <1>2, <1>3, <1>4
  DEF FailStep, BuilderInv, BuilderTypes, RunType, CallType, CallFollowsRun, JudgedByNow, StubsAreFollowed, MicroHasStalled

\* An answer leaves the run as it is: a corrected one is judged by then.
LEMMA ReturnKeeps ==
    ASSUME BuilderInv, Return, UNCHANGED <<head, judged, stalls, debt, stops, resumes>>,
           call.at \in {"failed", "decide"} \/ (call.at = "completed" /\ ~call.auto)
    PROVE  BuilderInv'
<1>1. call' \in CallType /\ call'.at = "returned" /\ ~call'.second /\ call'.pending = NoAttempt
  BY NoCallIsACall, ZenonT(40) DEF Return, BuilderInv, BuilderTypes, CallType, NoCall
<1>2. call'.auto = call.auto /\ call'.blind = call.blind /\ call'.leftover = call.leftover
  BY NoCallIsACall DEF Return, BuilderInv, BuilderTypes, CallType, NoCall
<1>3. UNCHANGED <<run, todo>>
  BY DEF Return
<1>4. BuilderTypes'
  BY <1>1, <1>3 DEF BuilderInv, BuilderTypes
<1>5. CallFollowsRun' /\ JudgedByNow'
  BY <1>1, <1>2, <1>3 DEF BuilderInv, BuilderTypes, CallType, RunType, CallFollowsRun, JudgedByNow
<1>6. StubsAreFollowed' /\ MicroHasStalled'
  BY <1>1, <1>2, <1>3 DEF BuilderInv, BuilderTypes, CallFollowsRun, StubsAreFollowed, MicroHasStalled
<1>7. QED BY <1>4, <1>5, <1>6 DEF BuilderInv

\* A plan put before or after the steps that are left.
LEMMA PlanGoesOn ==
    ASSUME NEW steps \in Seq(Steps), NEW plan \in Seq(Steps), plan # <<>>
    PROVE  /\ plan \o steps \in Seq(Steps) /\ plan \o steps # <<>>
           /\ steps \o plan \in Seq(Steps) /\ steps \o plan # <<>>
           /\ steps = <<>> => steps \o plan = plan
           /\ NoStub(plan) /\ NoStub(steps) => NoStub(plan \o steps)
<1>1. Len(plan) \in Nat \ {0} /\ Len(steps) \in Nat
  BY EmptySeq
<1>2. /\ plan \o steps \in Seq(Steps) /\ Len(plan \o steps) = Len(plan) + Len(steps)
      /\ \A i \in 1..Len(plan) + Len(steps) :
            (plan \o steps)[i] = IF i <= Len(plan) THEN plan[i] ELSE steps[i - Len(plan)]
  BY ConcatProperties
<1>3. steps \o plan \in Seq(Steps) /\ Len(steps \o plan) = Len(steps) + Len(plan)
  BY ConcatProperties
<1>4. steps = <<>> => steps \o plan = plan
  BY ConcatEmptySeq
<1>5. plan \o steps # <<>> /\ steps \o plan # <<>>
  BY <1>1, <1>2, <1>3, EmptySeq
<1>6. ASSUME NoStub(plan), NoStub(steps) PROVE NoStub(plan \o steps)
  BY <1>1, <1>2, <1>6 DEF NoStub
<1>7. QED BY <1>2, <1>3, <1>4, <1>5, <1>6

\* A queued correction sets the run going again, with an attempt on record and
\* the plan's steps after those that are left.
LEMMA QueueKeeps ==
    ASSUME BuilderInv, NEW plan \in Seq(Steps), plan # <<>>, NoStub(plan) \/ plan = <<"stub">>,
           NEW clusters \in SUBSET ClusterNames, NEW blind \in BOOLEAN,
           Queue(plan, clusters, blind), call.at = "decide", run.attempts < MaxAttempts,
           UNCHANGED <<head, judged, stalls, debt, stops, resumes>>
    PROVE  BuilderInv'
<1> DEFINE attempt == [at |-> "pending", first |-> "none", phases |-> {},
                       before |-> head.findings, clusters |-> clusters]
<1>1. attempt \in AttemptType
  BY BuilderAssumption DEF AttemptType, BuilderInv, BuilderTypes, HeadType, BuilderAssumption
<1>2. attempt.first = "none"
  OBVIOUS
<1>3. call' = [call EXCEPT !.at = "loop", !.blind = @ \/ blind, !.pending = attempt]
  BY DEF Queue
<1> HIDE DEF attempt
<1>4. /\ call' \in CallType /\ call'.at = "loop" /\ call'.pending = attempt
      /\ call'.second = call.second /\ call'.auto = call.auto /\ call'.leftover = call.leftover
      /\ ~call'.blind => ~call.blind
  BY <1>1, <1>3 DEF BuilderInv, BuilderTypes, CallType
<1>5. /\ run' \in RunType /\ run'.status = "running" /\ run'.validation = run.validation
      /\ run'.attempts = run.attempts
  BY DEF Queue, BuilderInv, BuilderTypes, RunType
<1>6. todo' \in Seq(Steps) /\ todo' # <<>> /\ (todo = <<>> => todo' = plan)
  BY PlanGoesOn DEF Queue, BuilderInv, BuilderTypes
<1>7. BuilderTypes'
  BY <1>4, <1>5, <1>6 DEF BuilderInv, BuilderTypes
<1>8. CallFollowsRun' /\ JudgedByNow'
  BY <1>4, <1>5, <1>6 DEF BuilderInv, BuilderTypes, CallFollowsRun, JudgedByNow
<1>9. StubsAreFollowed' /\ MicroHasStalled'
  BY <1>1, <1>2, <1>4, <1>6, NoAttemptIsNone DEF BuilderInv, CallFollowsRun, StubsAreFollowed, MicroHasStalled
<1>10. QED BY <1>7, <1>8, <1>9 DEF BuilderInv

\* A refused commit of the first loop is corrected by steps put before those
\* that are left, as often as the retries allow.
LEMMA FirstLoopKeeps == BuilderInv /\ FirstLoop => BuilderInv'
<1> SUFFICES ASSUME BuilderInv, FirstLoop PROVE BuilderInv'
  OBVIOUS
<1>1. CASE Return
  BY <1>1, ReturnKeeps DEF FirstLoop
<1>2. ASSUME NEW violations, NEW scoped, QueueInvariantCorrection(violations, scoped) PROVE BuilderInv'
  <2> DEFINE plan == PlanCorrection(ClassifyInvariant(violations), scoped)
  <2>1. plan \in Seq(Steps) /\ plan # <<>> /\ NoStub(plan)
    BY PlansAreSteps
  <2>2. todo' = plan \o Tail(todo)
    BY <1>2 DEF QueueInvariantCorrection
  <2> HIDE DEF plan
  <2>3. todo \in Seq(Steps) /\ todo # <<>> /\ call.at = "failed" /\ ~call.second
    BY DEF FirstLoop, BuilderInv, BuilderTypes, CallFollowsRun
  <2>4. todo' \in Seq(Steps) /\ todo' # <<>> /\ (NoStub(todo) => NoStub(todo'))
    BY <2>1, <2>2, <2>3, TailKeepsSteps, PlanGoesOn
  <2>5. call' = [call EXCEPT !.at = "loop", !.invariant = FALSE, !.retries = call.retries + 1]
    BY <1>2 DEF QueueInvariantCorrection
  <2>6. call.retries + 1 \in 0..MaxInvariantRetries + 1
    BY <1>2, BuilderAssumption DEF QueueInvariantCorrection, BuilderInv, BuilderTypes, CallType, BuilderAssumption
  <2>7. /\ call' \in CallType /\ call'.at = "loop" /\ call'.pending = call.pending
        /\ call'.second = call.second /\ call'.auto = call.auto /\ call'.leftover = call.leftover
        /\ call'.blind = call.blind
    BY <2>5, <2>6 DEF BuilderInv, BuilderTypes, CallType
  <2>8. /\ run' \in RunType /\ run'.status = "running" /\ run'.validation = run.validation
        /\ run'.attempts = run.attempts
    BY <1>2 DEF QueueInvariantCorrection, BuilderInv, BuilderTypes, RunType
  <2>9. UNCHANGED <<head, judged, stalls, debt, stops, resumes>>
    BY DEF FirstLoop
  <2>10. BuilderTypes'
    BY <2>4, <2>7, <2>8, <2>9 DEF BuilderInv, BuilderTypes
  <2>11. CallFollowsRun' /\ JudgedByNow'
    BY <2>3, <2>4, <2>7, <2>8, <2>9 DEF BuilderInv, BuilderTypes, CallFollowsRun, JudgedByNow
  <2>12. StubsAreFollowed' /\ MicroHasStalled'
    BY <2>3, <2>4, <2>7, <2>9 DEF BuilderInv, CallFollowsRun, StubsAreFollowed, MicroHasStalled
  <2>13. QED BY <2>10, <2>11, <2>12 DEF BuilderInv
<1>3. QED BY <1>1, <1>2 DEF FirstLoop

\* A completed loop is validated when corrections are on; one that was a
\* correction counts as an attempt, and there was one left to count.
LEMMA CompletedKeeps == BuilderInv /\ Completed => BuilderInv'
<1> SUFFICES ASSUME BuilderInv, Completed PROVE BuilderInv'
  OBVIOUS
<1>1. CASE ~call.auto
  BY <1>1, ReturnKeeps DEF Completed
<1>2. CASE call.auto
  <2>1. call.at = "completed" /\ UNCHANGED <<todo, head, judged, stalls, debt, stops, resumes>>
    BY <1>2 DEF Completed
  <2>2. PICK n \in 0..MaxInvariantRetries + 1 :
              call' = [call EXCEPT !.at = "validate", !.second = TRUE, !.retries = n]
    <3>1. call' = [call EXCEPT !.at = "validate", !.second = TRUE,
                     !.retries = IF call.second THEN 0 ELSE call.retries]
      BY <1>2 DEF Completed
    <3>2. (IF call.second THEN 0 ELSE call.retries) \in 0..MaxInvariantRetries + 1
      BY BuilderAssumption DEF BuilderInv, BuilderTypes, CallType, BuilderAssumption
    <3>3. QED BY <3>1, <3>2
  <2>3. /\ call' \in CallType /\ call'.at = "validate" /\ call'.pending = call.pending
        /\ call'.second /\ call'.auto /\ call'.leftover = call.leftover /\ call'.blind = call.blind
    BY <1>2, <2>2 DEF BuilderInv, BuilderTypes, CallType
  <2>4. run' \in RunType /\ run'.status = run.status /\ run'.validation = run.validation
    <3>1. CASE call.second
      <4>1. run.attempts + 1 \in 0..MaxAttempts
        BY <2>1, <3>1, BuilderAssumption
        DEF BuilderInv, BuilderTypes, RunType, CallFollowsRun, BuilderAssumption
      <4>2. run' = [run EXCEPT !.attempts = run.attempts + 1]
        BY <1>2, <3>1 DEF Completed
      <4>3. QED BY <4>1, <4>2 DEF BuilderInv, BuilderTypes, RunType
    <3>2. CASE ~call.second
      BY <1>2, <3>2 DEF Completed, BuilderInv, BuilderTypes
    <3>3. QED BY <3>1, <3>2
  <2>5. BuilderTypes'
    BY <2>1, <2>3, <2>4 DEF BuilderInv, BuilderTypes
  <2>6. CallFollowsRun' /\ JudgedByNow'
    BY <1>2, <2>1, <2>3, <2>4 DEF BuilderInv, BuilderTypes, CallFollowsRun, JudgedByNow
  <2>7. StubsAreFollowed' /\ MicroHasStalled'
    BY <1>2, <2>1, <2>3 DEF BuilderInv, StubsAreFollowed, MicroHasStalled
  <2>8. QED BY <2>5, <2>6, <2>7 DEF BuilderInv
<1>3. QED BY <1>1, <1>2 DEF BuilderInv, BuilderTypes, CallType

\* A correction that failed is passed over: what is left of its plan stays.
LEMMA PassOverKeeps == BuilderInv /\ PassOver => BuilderInv'
<1> SUFFICES ASSUME BuilderInv, PassOver PROVE BuilderInv'
  OBVIOUS
<1>1. CASE ~call.invariant \/ call.retries >= MaxInvariantRetries
  BY <1>1, ReturnKeeps DEF PassOver
<1>2. CASE ~(~call.invariant \/ call.retries >= MaxInvariantRetries)
  <2>1. /\ call.at = "failed" /\ call.second /\ todo' = Tail(todo)
        /\ UNCHANGED <<head, judged, stalls, debt, stops, resumes>>
        /\ run' = [run EXCEPT !.status = "complete"]
        /\ call' = [call EXCEPT !.at = "validate", !.invariant = FALSE, !.retries = call.retries + 1,
                      !.leftover = call.leftover \/ Len(todo) > 1]
    BY <1>2 DEF PassOver
  <2>2. call.retries + 1 \in 0..MaxInvariantRetries + 1
    BY <1>2, BuilderAssumption DEF BuilderInv, BuilderTypes, CallType, BuilderAssumption
  <2>3. Tail(todo) \in Seq(Steps) /\ Len(todo) \in Nat /\ Len(todo) >= 1 /\ (Len(todo) = 1 => Tail(todo) = <<>>)
    BY <2>1, TailKeepsSteps DEF BuilderInv, BuilderTypes, CallFollowsRun
  <2> DEFINE left == call.leftover \/ Len(todo) > 1
  <2>a. left \in BOOLEAN /\ (~left => ~call.leftover /\ Tail(todo) = <<>>)
    BY <2>3
  <2>b. call' = [call EXCEPT !.at = "validate", !.invariant = FALSE, !.retries = call.retries + 1,
                   !.leftover = left]
    BY <2>1
  <2> HIDE DEF left
  <2>4. /\ call' \in CallType /\ call'.at = "validate" /\ call'.pending = call.pending
        /\ call'.second /\ call'.auto = call.auto /\ call'.blind = call.blind
        /\ ~call'.leftover => ~call.leftover /\ Tail(todo) = <<>>
    BY <2>1, <2>2, <2>a, <2>b DEF BuilderInv, BuilderTypes, CallType
  <2>5. run' \in RunType /\ run'.status = "complete" /\ run'.validation = run.validation
    BY <2>1 DEF BuilderInv, BuilderTypes, RunType
  <2>6. BuilderTypes'
    BY <2>1, <2>3, <2>4, <2>5 DEF BuilderInv, BuilderTypes
  <2>7. CallFollowsRun' /\ JudgedByNow'
    BY <2>1, <2>4, <2>5 DEF BuilderInv, BuilderTypes, CallFollowsRun, JudgedByNow
  <2>8. StubsAreFollowed' /\ MicroHasStalled'
    BY <2>1, <2>4 DEF BuilderInv, StubsAreFollowed, MicroHasStalled
  <2>9. QED BY <2>6, <2>7, <2>8 DEF BuilderInv
<1>3. QED BY <1>1, <1>2

\* The validation judges the commit the request is at.
LEMMA ValidateKeeps == BuilderInv /\ Validate => BuilderInv'
<1> SUFFICES ASSUME BuilderInv, Validate PROVE BuilderInv'
  OBVIOUS
<1>1. /\ call.at = "validate" /\ UNCHANGED <<todo, head, stalls, debt, stops, resumes>> /\ judged' = TRUE
      /\ call' = [call EXCEPT !.at = IF call.pending = NoAttempt THEN "decide" ELSE "learn",
                              !.phases = {}, !.provisional = FALSE]
      /\ run' = [run EXCEPT !.validation = IF head.findings = {} THEN "passed" ELSE "failed", !.ready = "off"]
  BY DEF Validate, Judge
<1>2. /\ call' \in CallType /\ call'.at \in {"decide", "learn"} /\ call'.pending = call.pending
      /\ call'.at = "decide" <=> call.pending = NoAttempt /\ call'.phases = {}
      /\ call'.second = call.second /\ call'.auto = call.auto /\ call'.leftover = call.leftover
      /\ call'.blind = call.blind
  BY <1>1 DEF BuilderInv, BuilderTypes, CallType
<1>3. /\ run' \in RunType /\ run'.status = run.status /\ run'.attempts = run.attempts
      /\ run'.validation = IF head.findings = {} THEN "passed" ELSE "failed"
  BY <1>1 DEF BuilderInv, BuilderTypes, RunType
<1>4. BuilderTypes'
  BY <1>1, <1>2, <1>3 DEF BuilderInv, BuilderTypes
<1>5. CallFollowsRun' /\ JudgedByNow'
  BY <1>1, <1>2, <1>3 DEF BuilderInv, BuilderTypes, CallFollowsRun, JudgedByNow
<1>6. StubsAreFollowed' /\ MicroHasStalled'
  BY <1>1, <1>2 DEF BuilderInv, StubsAreFollowed, MicroHasStalled
<1>7. QED BY <1>4, <1>5, <1>6 DEF BuilderInv

\* What is learned of an attempt: a stub opens the debt, and a micro repair that
\* left findings counts as stalled.
LEMMA LearnKeeps == BuilderInv /\ Learn => BuilderInv'
<1> SUFFICES ASSUME BuilderInv, Learn PROVE BuilderInv'
  OBVIOUS
<1> DEFINE p == call.pending
           paid == head.stub # "used"
           outcome == AttemptOutcome(p.before, p.clusters, head.findings, p.phases, paid)
           provisional == p.first = "stub" /\ outcome = "success" /\ p.phases # {"debt_resolution"}
<1>1. call.at = "learn" /\ p \in AttemptType /\ UNCHANGED <<run, todo, head, judged, stops, resumes>>
  BY DEF Learn, BuilderInv, BuilderTypes, CallType, MicroHasStalled
<1>2. PICK recorded \in BOOLEAN, written \in BOOLEAN :
            /\ stalls' = IF ~recorded THEN stalls
                         ELSE IF p.phases # {"micro"} \/ outcome # "stalled" THEN 0
                         ELSE IF stalls < 5 THEN stalls + 1 ELSE 5
            /\ debt' = IF written THEN DebtRecord(p, paid) ELSE debt
            /\ call' = [call EXCEPT !.at = "decide", !.pending = NoAttempt, !.phases = p.phases,
                          !.provisional = provisional, !.blind = call.blind \/ ~recorded \/ ~written]
  BY DEF Learn
<1>3. head.findings # {} /\ p.phases = {"micro"} => outcome = "stalled"
  BY DEF AttemptOutcome
<1>4. /\ DebtRecord(p, paid) \in {"none", "open", "closed"}
      /\ p.first = "stub" => DebtRecord(p, paid) = "open"
      /\ head.stub = "used" /\ debt = "open" => DebtRecord(p, paid) = "open"
  BY DEF DebtRecord, BuilderInv, BuilderTypes
<1>5. provisional \in BOOLEAN /\ p.phases \in SUBSET Steps
  BY <1>1 DEF AttemptType
<1>6. stalls' \in 0..5 /\ (recorded /\ p.phases = {"micro"} /\ head.findings # {} => stalls' >= 1)
  BY <1>2, <1>3 DEF BuilderInv, BuilderTypes
<1> HIDE DEF provisional, outcome, paid, p
<1>7. /\ call' \in CallType /\ call'.at = "decide" /\ call'.pending = NoAttempt /\ call'.phases = p.phases
      /\ call'.second = call.second /\ call'.auto = call.auto /\ call'.leftover = call.leftover
      /\ ~call'.blind => ~call.blind /\ recorded /\ written
  BY <1>2, <1>5 DEF BuilderInv, BuilderTypes, CallType
<1>8. BuilderTypes'
  BY <1>1, <1>2, <1>4, <1>6, <1>7 DEF BuilderInv, BuilderTypes
<1>9. CallFollowsRun' /\ JudgedByNow'
  BY <1>1, <1>7 DEF BuilderInv, CallFollowsRun, JudgedByNow
<1>10. StubsAreFollowed'
  BY <1>1, <1>2, <1>4, <1>7 DEF BuilderInv, StubsAreFollowed, p
<1>11. MicroHasStalled'
  BY <1>1, <1>6, <1>7 DEF MicroHasStalled
<1>12. QED BY <1>8, <1>9, <1>10, <1>11 DEF BuilderInv

\* The profile a planned correction is asked for: with the collapse of imports
\* that the learned patterns call for, and the escalation of stalled repairs.
Profile == ClassifyValidation(head.findings)
Pressed(unstable, blindImports) ==
    IF unstable /\ ~blindImports /\ "import" \in Profile.clusters
    THEN [Profile EXCEPT !.collapse = TRUE] ELSE Profile
Asked(unstable, session, several, blindImports, blindStalls) ==
    IF blindStalls THEN Pressed(unstable, blindImports)
    ELSE Escalate(Pressed(unstable, blindImports), stalls, session, several)

\* A planned correction ends the request, or queues the plan for the profile it
\* was asked for.
LEMMA PlannedQueue ==
    ASSUME PlannedCorrection
    PROVE  \/ Return
           \/ \E blindImports \in BOOLEAN, unstable, session, several, scoped, blindStalls \in BOOLEAN :
                 LET asked == Asked(unstable, session, several, blindImports, blindStalls)
                 IN  Queue(PlanCorrection(asked, scoped), asked.clusters, blindImports \/ blindStalls)
<1> SUFFICES ASSUME ~Return
       PROVE  \E blindImports \in BOOLEAN, unstable, session, several, scoped, blindStalls \in BOOLEAN :
                 LET asked == Asked(unstable, session, several, blindImports, blindStalls)
                 IN  Queue(PlanCorrection(asked, scoped), asked.clusters, blindImports \/ blindStalls)
  OBVIOUS
<1>1. PICK blindImports \in IF "import" \in Profile.clusters THEN BOOLEAN ELSE {FALSE} :
         /\ head.recipe = "miss" \/ blindImports
         /\ \/ Return
            \/ \E unstable, session, several, scoped, blindStalls \in BOOLEAN :
                 LET pressed == IF unstable /\ ~blindImports /\ "import" \in Profile.clusters
                                THEN [Profile EXCEPT !.collapse = TRUE] ELSE Profile
                     asked == IF blindStalls THEN pressed
                              ELSE Escalate(pressed, stalls, session, several)
                 IN  Queue(PlanCorrection(asked, scoped), asked.clusters, blindImports \/ blindStalls)
  BY Zenon DEF PlannedCorrection, Profile
<1>2. blindImports \in BOOLEAN
  OBVIOUS
<1>3. PICK unstable \in BOOLEAN, session \in BOOLEAN, several \in BOOLEAN, scoped \in BOOLEAN, blindStalls \in BOOLEAN :
                 LET pressed == IF unstable /\ ~blindImports /\ "import" \in Profile.clusters
                                THEN [Profile EXCEPT !.collapse = TRUE] ELSE Profile
                     asked == IF blindStalls THEN pressed
                              ELSE Escalate(pressed, stalls, session, several)
                 IN  Queue(PlanCorrection(asked, scoped), asked.clusters, blindImports \/ blindStalls)
  BY <1>1, Zenon
<1>4. LET asked == Asked(unstable, session, several, blindImports, blindStalls)
      IN  Queue(PlanCorrection(asked, scoped), asked.clusters, blindImports \/ blindStalls)
  BY <1>3, Zenon DEF Asked, Pressed
<1>5. QED
  BY <1>2, <1>4, Zenon

\* The decision after a validation: accept, give up, or correct once more.
LEMMA DecideKeeps == BuilderInv /\ (Accept \/ GiveUp \/ ImportRecipe \/ PlannedCorrection) => BuilderInv'
<1> SUFFICES ASSUME BuilderInv, Accept \/ GiveUp \/ ImportRecipe \/ PlannedCorrection PROVE BuilderInv'
  OBVIOUS
<1>1. call.at = "decide" /\ UNCHANGED <<head, judged, stalls, debt, stops, resumes>>
  BY DEF Accept, GiveUp, ImportRecipe, PlannedCorrection
<1>2. CASE Return
  BY <1>1, <1>2, ReturnKeeps
<1>3. \A step \in {"debt_resolution", "stub", "rewrite"} :
         <<step>> \in Seq(Steps) /\ <<step>> # <<>> /\ (NoStub(<<step>>) \/ <<step>> = <<"stub">>)
  BY DEF NoStub, Steps, Phases
<1>4. CASE Accept
  <2>1. CASE call.provisional /\ run.attempts < MaxAttempts
    <3>1. Queue(<<"debt_resolution">>, {"import"}, FALSE)
      BY <1>4, <2>1 DEF Accept
    <3>2. {"import"} \in SUBSET ClusterNames
      BY DEF ClusterNames
    <3>3. QED BY <1>1, <1>3, <2>1, <3>1, <3>2, QueueKeeps
  <2>2. QED BY <1>2, <1>4, <2>1 DEF Accept
<1> DEFINE profile == ClassifyValidation(head.findings)
<1>5. profile.clusters \in SUBSET ClusterNames
  BY ClustersAreNamed
<1>6. CASE ImportRecipe
  <2>1. head.recipe \in {"stub", "rewrite"}
    BY <1>6 DEF ImportRecipe, BuilderInv, BuilderTypes, HeadType
  <2>2. Queue(<<head.recipe>>, profile.clusters, FALSE) /\ run.attempts < MaxAttempts
    BY <1>6 DEF ImportRecipe, Correctable
  <2> HIDE DEF profile
  <2>3. QED BY <1>1, <1>3, <1>5, <2>1, <2>2, QueueKeeps
<1>7. CASE PlannedCorrection /\ ~Return
  <2>1. PICK blindImports \in BOOLEAN, unstable \in BOOLEAN, session \in BOOLEAN, several \in BOOLEAN,
             scoped \in BOOLEAN, blindStalls \in BOOLEAN :
            LET asked == Asked(unstable, session, several, blindImports, blindStalls)
            IN  Queue(PlanCorrection(asked, scoped), asked.clusters, blindImports \/ blindStalls)
    BY <1>7, PlannedQueue
  <2> DEFINE asked == Asked(unstable, session, several, blindImports, blindStalls)
  <2>2. asked.clusters = profile.clusters
    BY DEF Asked, Pressed, Profile, Escalate, ClassifyValidation
  <2>3. run.attempts < MaxAttempts
    BY <1>7 DEF PlannedCorrection, Correctable
  <2> HIDE DEF asked, profile
  <2>4. QED
    BY <1>1, <1>5, <2>1, <2>2, <2>3, PlansAreSteps, QueueKeeps DEF asked
<1>8. QED
  BY <1>2, <1>4, <1>6, <1>7 DEF GiveUp

\* What befalls a run between requests: the process stops, a worker resumes it,
\* somebody validates it.
LEMMA BetweenRequestsKeeps == BuilderInv /\ (Stop \/ ResumeByWorker \/ ValidateByHand) => BuilderInv'
<1> SUFFICES ASSUME BuilderInv, Stop \/ ResumeByWorker \/ ValidateByHand PROVE BuilderInv'
  OBVIOUS
<1>1. MaxStops \in Nat /\ MaxResumes \in Nat
  BY BuilderAssumption DEF BuilderAssumption
<1>2. ASSUME NEW at \in {"loop", "stopped"}, call' = [NoCall EXCEPT !.at = at]
      PROVE  /\ call' \in CallType /\ call'.at = at /\ ~call'.auto /\ ~call'.second
             /\ call'.phases = {} /\ call'.pending = NoAttempt
  BY <1>2, NoCallIsACall DEF CallType, NoCall
<1>3. CASE Stop
  <2>1. stops' \in 0..MaxStops /\ stops' > 0 /\ UNCHANGED <<run, todo, head, judged, stalls, debt, resumes>>
    BY <1>1, <1>3 DEF Stop, BuilderInv, BuilderTypes
  <2>2. /\ call' \in CallType /\ call'.at = "stopped" /\ ~call'.auto /\ ~call'.second
        /\ call'.phases = {} /\ call'.pending = NoAttempt /\ call.at # "idle"
    BY <1>2, <1>3 DEF Stop
  <2>3. BuilderTypes'
    BY <2>1, <2>2 DEF BuilderInv, BuilderTypes
  <2>4. QED
    BY <2>1, <2>2, <2>3
    DEF BuilderInv, CallFollowsRun, JudgedByNow, StubsAreFollowed, MicroHasStalled
<1>4. CASE ResumeByWorker
  <2>1. resumes' \in 0..MaxResumes /\ resumes' > 0 /\ UNCHANGED <<todo, head, judged, stalls, debt, stops>>
    BY <1>1, <1>4 DEF ResumeByWorker, BuilderInv, BuilderTypes
  <2>2. /\ call' \in CallType /\ call'.at = "loop" /\ ~call'.auto /\ ~call'.second
        /\ call'.phases = {} /\ call'.pending = NoAttempt
        /\ call.at \in {"returned", "stopped"} /\ todo # <<>>
    BY <1>2, <1>4 DEF ResumeByWorker, AtRest
  <2>3. run' \in RunType /\ run'.status = "running" /\ run'.validation = run.validation
    BY <1>4 DEF ResumeByWorker, BuilderInv, BuilderTypes, RunType
  <2>4. BuilderTypes'
    BY <2>1, <2>2, <2>3 DEF BuilderInv, BuilderTypes
  <2>5. QED
    BY <2>1, <2>2, <2>3, <2>4
    DEF BuilderInv, CallFollowsRun, JudgedByNow, StubsAreFollowed, MicroHasStalled
<1>5. CASE ValidateByHand
  <2>1. PICK ready \in {"off", "none", "ok", "failed"} : Judge(ready)
    BY <1>5 DEF ValidateByHand
  <2>2. /\ call.at \in {"returned", "stopped"} /\ judged' = TRUE
        /\ UNCHANGED <<todo, head, call, stalls, debt, stops, resumes>>
    BY <1>5, <2>1 DEF ValidateByHand, AtRest, Judge
  <2>3. /\ run' \in RunType /\ run'.status = run.status /\ run'.attempts = run.attempts
        /\ run'.validation = IF head.findings = {} THEN "passed" ELSE "failed"
    BY <2>1 DEF Judge, BuilderInv, BuilderTypes, RunType
  <2>4. BuilderTypes'
    BY <2>2, <2>3 DEF BuilderInv, BuilderTypes
  <2>5. CallFollowsRun' /\ JudgedByNow'
    BY <2>2, <2>3 DEF BuilderInv, CallFollowsRun, JudgedByNow
  <2>6. StubsAreFollowed' /\ MicroHasStalled'
    BY <2>2 DEF BuilderInv, StubsAreFollowed, MicroHasStalled
  <2>7. QED BY <2>4, <2>5, <2>6 DEF BuilderInv
<1>6. QED BY <1>3, <1>4, <1>5

\* The invariant of builder runs holds for every budget of attempts and retries.
THEOREM BuilderIsInductive == BuilderSpec => []BuilderInv
<1>1. ASSUME BuilderInv, [BuilderNext]_builderVars PROVE BuilderInv'
  <2>1. CASE UNCHANGED builderVars
    BY <1>1, <2>1 DEF builderVars, BuilderInv, BuilderTypes, CallFollowsRun, JudgedByNow, StubsAreFollowed, MicroHasStalled
  <2>2. CASE BuilderNext
    BY <1>1, <2>2, CreateRunKeeps, ExecuteStepKeeps, FailStepKeeps, FirstLoopKeeps, CompletedKeeps,
       PassOverKeeps, ValidateKeeps, LearnKeeps, DecideKeeps, BetweenRequestsKeeps DEF BuilderNext
  <2>3. QED BY <1>1, <2>1, <2>2
<1>2. QED
  BY <1>1, BuilderStarts, PTL DEF BuilderSpec

\* The type invariant of builder runs (kernel.ts,
\* executeWithValidationAutoCorrection).
THEOREM BuilderTypesHold == BuilderSpec => []BuilderTypeOK
<1>1. BuilderInv => BuilderTypeOK
  BY DEF BuilderInv, BuilderTypes, BuilderTypeOK, RunType, CallType, HeadType
<1>2. QED BY <1>1, BuilderIsInductive, PTL

\* What a builder run reports complete was validated as it is, a stub it still
\* imports is on record as debt, and governance passes what was validated.
THEOREM AnswersAreAlwaysHonest == BuilderSpec => []AnswersAreHonest
<1>1. ASSUME BuilderInv PROVE AnswersAreHonest
  <2>1. ReturnedIsJudged
    BY <1>1 DEF BuilderInv, JudgedByNow, ReturnedIsJudged
  <2>2. StubsAreOnRecord
    BY <1>1 DEF BuilderInv, StubsAreFollowed, StubsAreOnRecord
  <2>3. GovernanceReasons = {} => run.status = "complete" /\ run.validation = "passed"
    BY <1>1 DEF GovernanceReasons, BuilderInv, BuilderTypes, RunType
  <2>4. DecisionIsOfTheJudged
    BY <1>1, <2>3 DEF BuilderInv, BuilderTypes, CallType, CallFollowsRun, JudgedByNow, DecisionIsOfTheJudged
  <2>5. QED BY <2>1, <2>2, <2>4 DEF AnswersAreHonest
<1>2. QED BY <1>1, BuilderIsInductive, PTL

\* Only a profile for micro repairs is planned as one.
LEMMA MicroPlans ==
    ASSUME NEW profile, NEW scoped, Last(PlanCorrection(profile, scoped)) = "micro"
    PROVE  IsMicroTargeted(profile) /\ profile.override \notin {"debt_resolution", "feature_reintegration"}
<1>1. /\ PlanCorrection(profile, scoped) = <<"micro">>
      /\ profile.override \notin {"debt_resolution", "feature_reintegration"}
  BY DEF PlanCorrection, Last
<1>2. StructuredMode(profile) = "micro"
  BY <1>1 DEF PlanCorrection
<1>3. QED
  BY <1>1, <1>2 DEF StructuredMode, IsMicroTargeted

\* With a stalled micro repair on record no plan ends in another one.
LEMMA StallsEscalate ==
    ASSUME stalls \in Nat, stalls >= 1,
           NEW unstable, NEW blindImports, NEW session, NEW several, NEW scoped
    PROVE  Last(PlanCorrection(Escalate(Pressed(unstable, blindImports), stalls, session, several), scoped))
             # "micro"
<1> DEFINE profile == Pressed(unstable, blindImports)
<1>0. profile \in {ClassifyValidation(head.findings),
                   [ClassifyValidation(head.findings) EXCEPT !.collapse = TRUE]}
  BY DEF Pressed, Profile
<1> HIDE DEF profile
<1> DEFINE asked == Escalate(profile, stalls, session, several)
<1>1. IsMicroTargeted(profile) =>
        asked.override \in {"architecture_reconstruction", "feature_reintegration"}
  <2>1. profile = [clusters |-> profile.clusters, reason |-> profile.reason, override |-> profile.override,
                   collapse |-> profile.collapse, correct |-> profile.correct]
    BY <1>0 DEF ClassifyValidation
  <2>2. ~(stalls < 1)
    OBVIOUS
  <2> SUFFICES ASSUME IsMicroTargeted(profile)
               PROVE  asked.override \in {"architecture_reconstruction", "feature_reintegration"}
    OBVIOUS
  <2>3. asked \in {[profile EXCEPT !.override = "architecture_reconstruction", !.collapse = TRUE],
                    [profile EXCEPT !.override = "feature_reintegration"]}
    BY <2>2 DEF Escalate
  <2> HIDE DEF asked
  <2>4. QED BY <2>1, <2>3
<1>2. ~IsMicroTargeted(profile) => asked = profile
  BY DEF Escalate
<1> HIDE DEF asked
<1>3. SUFFICES ASSUME Last(PlanCorrection(asked, scoped)) = "micro" PROVE FALSE
  BY DEF asked, profile
<1>4. IsMicroTargeted(asked) /\ asked.override \notin {"debt_resolution", "feature_reintegration"}
  BY <1>3, MicroPlans
<1>5. QED BY <1>1, <1>2, <1>4 DEF IsMicroTargeted

\* The last step of a queue is the last one of the plan put at its end.
LEMMA LastOfQueue ==
    ASSUME NEW steps \in Seq(Steps), NEW plan \in Seq(Steps), plan # <<>>
    PROVE  Last(steps \o plan) = Last(plan)
<1>1. Len(plan) \in Nat \ {0} /\ Len(steps) \in Nat
  BY EmptySeq
<1>2. /\ Len(steps \o plan) = Len(steps) + Len(plan)
      /\ \A i \in 1..Len(steps) + Len(plan) :
            (steps \o plan)[i] = IF i <= Len(steps) THEN steps[i] ELSE plan[i - Len(steps)]
  BY ConcatProperties
<1>3. (steps \o plan)[Len(steps) + Len(plan)] = plan[Len(plan)]
  BY <1>1, <1>2
<1>4. QED BY <1>2, <1>3 DEF Last

\* A micro repair that did not make the run valid is not followed by another,
\* unless its event or the query for it was lost.
THEOREM NoSecondMicroRepairEver == BuilderSpec => NoSecondMicroRepair
<1>1. ASSUME BuilderInv, [BuilderNext]_builderVars
      PROVE  call.at = "decide" /\ call'.at = "loop" /\ Last(todo') = "micro" =>
                 call.phases # {"micro"} \/ call'.blind
  <2> SUFFICES ASSUME call.at = "decide", call'.at = "loop", Last(todo') = "micro",
                      call.phases = {"micro"}, ~call'.blind
               PROVE  FALSE
    OBVIOUS
  <2> DEFINE profile == ClassifyValidation(head.findings)
  <2>1. Accept \/ ImportRecipe \/ PlannedCorrection
    BY <1>1 DEF BuilderNext, builderVars, CreateRun, ExecuteStep, FailStep, FirstLoop, Completed, PassOver,
       Validate, Learn, GiveUp, Return, NoCall, Stop, ResumeByWorker, AtRest, ValidateByHand, BuilderInv, CallFollowsRun
  <2>2. ~Return
    BY NoCallIsACall DEF Return, NoCall
  <2>3. todo \in Seq(Steps) /\ stalls \in Nat /\ (~call.blind /\ head.findings # {} => stalls >= 1)
    BY <1>1 DEF BuilderInv, BuilderTypes, MicroHasStalled
  <2>4. ASSUME NEW step \in {"debt_resolution", "stub", "rewrite"}, NEW clusters, Queue(<<step>>, clusters, FALSE)
        PROVE  FALSE
    <3>1. <<step>> \in Seq(Steps) /\ <<step>> # <<>> /\ Last(<<step>>) # "micro"
      BY DEF Steps, Phases, Last
    <3>2. Last(todo') = Last(<<step>>)
      BY <2>3, <2>4, <3>1, LastOfQueue DEF Queue
    <3>3. QED BY <3>1, <3>2
  <2>5. CASE Accept
    BY <2>2, <2>4, <2>5 DEF Accept
  <2>6. CASE ImportRecipe
    <3>1. head.recipe \in {"stub", "rewrite"}
      BY <1>1, <2>6 DEF ImportRecipe, BuilderInv, BuilderTypes, HeadType
    <3>2. QED BY <2>4, <2>6, <3>1 DEF ImportRecipe
  <2>7. CASE PlannedCorrection
    <3>1. PICK blindImports \in BOOLEAN, unstable \in BOOLEAN, session \in BOOLEAN, several \in BOOLEAN,
               scoped \in BOOLEAN, blindStalls \in BOOLEAN :
            LET asked == Asked(unstable, session, several, blindImports, blindStalls)
            IN  Queue(PlanCorrection(asked, scoped), asked.clusters, blindImports \/ blindStalls)
      BY <2>2, <2>7, PlannedQueue
    <3> DEFINE pressed == Pressed(unstable, blindImports)
               asked == Asked(unstable, session, several, blindImports, blindStalls)
    <3>2. Queue(PlanCorrection(asked, scoped), asked.clusters, blindImports \/ blindStalls)
      BY <3>1
    <3>3. ~call.blind /\ ~blindStalls
      BY <1>1, <3>2 DEF Queue, BuilderInv, BuilderTypes, CallType
    <3>4. stalls >= 1
      BY <2>3, <2>7, <3>3 DEF PlannedCorrection
    <3>5. asked = Escalate(pressed, stalls, session, several)
      BY <3>3 DEF Asked
    <3> HIDE DEF pressed, asked
    <3>8. Last(PlanCorrection(asked, scoped)) # "micro"
      <4>1. Last(PlanCorrection(Escalate(pressed, stalls, session, several), scoped)) # "micro"
        BY <2>3, <3>4, StallsEscalate DEF pressed
      <4>2. QED BY <3>5, <4>1, Zenon
    <3>9. Last(todo') = Last(PlanCorrection(asked, scoped))
      BY <2>3, <3>2, PlansAreSteps, LastOfQueue DEF Queue
    <3>10. QED BY <3>8, <3>9
  <2>8. QED BY <2>1, <2>5, <2>6, <2>7
<1>2. QED
  BY <1>1, BuilderIsInductive, PTL DEF BuilderSpec, NoSecondMicroRepair

(***************************************************************************)
(* The stores of revisions and trace events.                               *)
(***************************************************************************)

GraphOf(rows, g) == {r \in rows : r.graph = g}

\* The numbers of rows are those up to their count.
Gapless(rows) ==
    /\ IsFiniteSet(rows)
    /\ \A g \in Writers : Numbers(rows, g) = 1..Cardinality(GraphOf(rows, g))
    /\ \A r \in rows : r.graph \in Writers /\ r.number \in Nat /\ r.parent < r.number

\* What a caller holds is a number that was the next one when it was read.
WriterInv(w) ==
    LET c == writer[w]
        rows == IF c.kind = "revision" THEN revisions ELSE events
    IN  /\ c.at = "append" =>
             /\ c.of \in Writers /\ c.parent \in Nat /\ c.next \in Nat /\ c.parent < c.next
             /\ c.next <= Cardinality(GraphOf(rows, c.of)) + 1
        /\ c.at = "latest" =>
             /\ c.kind = "revision" /\ c.of \in Writers
             /\ c.parent = 0 \/ c.parent \in Numbers(revisions, c.of)

Callers ==
    [kind : {"none", "graph", "state_run", "revision", "event"},
     at : {"idle", "cyclic", "unknown", "insert", "rows", "latest", "append", "done", "failed"},
     graph : Graph, of : {"none"} \cup Writers, parent : Nat, next : Nat]

\* The tables have no gaps and no caller is ahead of them.
NumbersInv ==
    /\ DOMAIN graphs \subseteq Writers
    /\ writer \in [Writers -> Callers]
    /\ Gapless(revisions) /\ Gapless(events)
    /\ \A w \in Writers : WriterInv(w)

\* The next number of a trace without gaps.
LEMMA NextOfGapless ==
    ASSUME NEW rows, Gapless(rows), NEW g \in Writers
    PROVE  /\ Cardinality(GraphOf(rows, g)) \in Nat
           /\ NextNumber(rows, g) = Cardinality(GraphOf(rows, g)) + 1
<1> DEFINE n == Cardinality(GraphOf(rows, g))
<1>1. n \in Nat
  BY FS_Subset, FS_CardinalityType DEF GraphOf, Gapless
<1>2. {0} \cup Numbers(rows, g) = 0..n
  BY <1>1 DEF Gapless
<1> HIDE DEF n
<1>3. Max(0..n) = n
  <2>1. n \in 0..n /\ \A y \in 0..n : n >= y
    BY <1>1
  <2>2. \A x \in 0..n : (\A y \in 0..n : x >= y) => x = n
    BY <1>1
  <2>3. QED BY <2>1, <2>2 DEF Max
<1>4. QED BY <1>1, <1>2, <1>3 DEF NextNumber, n

\* A entry whose number is free, and was the next one at some time, is the next one.
LEMMA AppendKeepsGapless ==
    ASSUME NEW rows, Gapless(rows), NEW entry, entry.graph \in Writers, entry.number \in Nat,
           entry.parent < entry.number, 0 < entry.number,
           entry.number \notin Numbers(rows, entry.graph),
           entry.number <= Cardinality(GraphOf(rows, entry.graph)) + 1
    PROVE  /\ Gapless(rows \cup {entry})
           /\ \A g \in Writers : Cardinality(GraphOf(rows \cup {entry}, g)) >= Cardinality(GraphOf(rows, g))
<1> DEFINE after == rows \cup {entry}
<1>1. IsFiniteSet(after)
  BY FS_AddElement DEF Gapless
<1>2. \A r \in after : r.graph \in Writers /\ r.number \in Nat /\ r.parent < r.number
  BY DEF Gapless
<1>3. ASSUME NEW g \in Writers, g # entry.graph
      PROVE  GraphOf(after, g) = GraphOf(rows, g) /\ Numbers(after, g) = Numbers(rows, g)
  BY <1>3 DEF GraphOf, Numbers
<1> DEFINE n == Cardinality(GraphOf(rows, entry.graph))
<1>4. n \in Nat
  BY NextOfGapless
<1>5. entry.number = n + 1
  BY <1>4 DEF Gapless
<1>6. GraphOf(after, entry.graph) = GraphOf(rows, entry.graph) \cup {entry} /\ entry \notin GraphOf(rows, entry.graph)
  BY DEF GraphOf, Numbers
<1>7. Cardinality(GraphOf(after, entry.graph)) = n + 1
  <2>1. IsFiniteSet(GraphOf(rows, entry.graph))
    BY FS_Subset DEF GraphOf, Gapless
  <2>2. QED BY <1>6, <2>1, FS_AddElement
<1>8. Numbers(after, entry.graph) = 1..(n + 1)
  <2>1. Numbers(after, entry.graph) = Numbers(rows, entry.graph) \cup {entry.number}
    BY DEF Numbers
  <2>2. Numbers(rows, entry.graph) = 1..n
    BY DEF Gapless
  <2> HIDE DEF n
  <2>3. 1..(n + 1) = 1..n \cup {n + 1}
    BY <1>4
  <2>4. QED BY <1>5, <2>1, <2>2, <2>3
<1>9. \A g \in Writers : Numbers(after, g) = 1..Cardinality(GraphOf(after, g))
  BY <1>3, <1>7, <1>8 DEF Gapless
<1>10. \A g \in Writers : Cardinality(GraphOf(rows, g)) \in Nat
  BY NextOfGapless
<1>11. \A g \in Writers : Cardinality(GraphOf(after, g)) >= Cardinality(GraphOf(rows, g))
  <2> HIDE DEF after, n
  <2>1. Cardinality(GraphOf(rows, entry.graph)) = n
    BY DEF n
  <2>2. QED BY <1>3, <1>4, <1>7, <1>10, <2>1
<1>12. QED BY <1>1, <1>2, <1>9, <1>11 DEF Gapless

\* A caller that does nothing.
LEMMA IdleIsACaller == Idle \in Callers
<1>1. <<>> \in [1..0 -> Edges]
  OBVIOUS
<1>2. 0 \in 0..MaxEdges
  BY ExecutionGraphsAssumption DEF ExecutionGraphsAssumption
<1>3. NoGraph \in Graph
  BY <1>1, <1>2 DEF NoGraph, Graph
<1>4. QED BY <1>3 DEF Idle, Callers

\* Empty tables have no gaps.
LEMMA NumbersStart == StoreInit => NumbersInv
<1> SUFFICES ASSUME StoreInit PROVE NumbersInv
  OBVIOUS
<1>1. Gapless({})
  <2>1. \A g \in Writers : Numbers({}, g) = {} /\ GraphOf({}, g) = {}
    BY DEF Numbers, GraphOf
  <2>2. 1..0 = {}
    OBVIOUS
  <2>3. QED BY <2>1, <2>2, FS_EmptySet DEF Gapless
<1>2. DOMAIN graphs = {}
  BY DEF StoreInit
<1>3. writer \in [Writers -> Callers]
  BY IdleIsACaller, Zenon DEF StoreInit
<1>4. \A w \in Writers : WriterInv(w)
  BY DEF StoreInit, WriterInv, Idle
<1>5. revisions = {} /\ events = {}
  BY Zenon DEF StoreInit
<1>6. QED BY <1>1, <1>2, <1>3, <1>4, <1>5, Zenon DEF NumbersInv

\* A step that leaves the rows alone and moves one caller.
LEMMA OneCallerMoves ==
    ASSUME NumbersInv, NEW w \in Writers, UNCHANGED <<revisions, events>>,
           DOMAIN graphs' \subseteq Writers,
           NEW c \in Callers, writer' = [writer EXCEPT ![w] = c], WriterInv(w)'
    PROVE  NumbersInv'
BY DEF NumbersInv, WriterInv

\* A caller that stops or fails holds no number any more.
LEMMA CallerStops ==
    ASSUME NumbersInv, NEW w \in Writers, NEW at \in {"rows", "done", "failed"}, To(w, at),
           UNCHANGED <<revisions, events>>, DOMAIN graphs' \subseteq Writers
    PROVE  NumbersInv'
<1> DEFINE c == [writer[w] EXCEPT !.at = at]
<1>1. c \in Callers /\ c.at = at
  BY DEF NumbersInv, Callers
<1>2. writer' = [writer EXCEPT ![w] = c]
  BY DEF To
<1> HIDE DEF c
<1>3. WriterInv(w)'
  BY <1>1, <1>2 DEF WriterInv, NumbersInv
<1>4. QED BY <1>1, <1>2, <1>3, OneCallerMoves

\* Every call keeps the numbers gapless: one that was overtaken meets the unique
\* index and fails.
LEMMA NumbersStep == NumbersInv /\ [StoreNext]_storeVars => NumbersInv'
<1> SUFFICES ASSUME NumbersInv, [StoreNext]_storeVars PROVE NumbersInv'
  OBVIOUS
<1>0. CASE UNCHANGED storeVars
  BY <1>0 DEF storeVars, NumbersInv, WriterInv
<1>1. ASSUME NEW w \in Writers, CheckGraph(w) PROVE NumbersInv'
  <2>1. PICK graph \in Graph, at \in {"cyclic", "unknown", "insert"} :
            writer' = [writer EXCEPT ![w] = [Idle EXCEPT !.kind = "graph", !.graph = graph, !.at = at]]
    BY <1>1 DEF CheckGraph
  <2> DEFINE c == [Idle EXCEPT !.kind = "graph", !.graph = graph, !.at = at]
  <2>2. c \in Callers /\ c.at = at
    BY IdleIsACaller DEF Callers
  <2> HIDE DEF c
  <2>3. writer' = [writer EXCEPT ![w] = c] /\ UNCHANGED <<revisions, events, graphs>>
    BY <1>1, <2>1 DEF CheckGraph, c
  <2>4. WriterInv(w)'
    BY <2>2, <2>3 DEF WriterInv, NumbersInv
  <2>5. DOMAIN graphs' \subseteq Writers
    BY <2>3 DEF NumbersInv
  <2>6. QED BY <2>2, <2>3, <2>4, <2>5, OneCallerMoves
<1>2. ASSUME NEW w \in Writers, StateRun(w) PROVE NumbersInv'
  <2>1. PICK id \in Ids :
            writer' = [writer EXCEPT ![w] =
                         [Idle EXCEPT !.kind = "state_run", !.at = "insert", !.graph.nodes = {id}]]
    BY <1>2 DEF StateRun
  <2> DEFINE graph == [Idle.graph EXCEPT !.nodes = {id}]
             c == [Idle EXCEPT !.kind = "state_run", !.at = "insert", !.graph = graph]
  <2>2. graph \in Graph
    BY IdleIsACaller DEF Callers, Graph
  <2>3. c = [Idle EXCEPT !.kind = "state_run", !.at = "insert", !.graph.nodes = {id}]
    BY IdleIsACaller DEF Callers
  <2> HIDE DEF graph
  <2>4. c \in Callers /\ c.at = "insert"
    BY <2>2, IdleIsACaller DEF Callers
  <2> HIDE DEF c
  <2>5. writer' = [writer EXCEPT ![w] = c] /\ UNCHANGED <<revisions, events, graphs>>
    BY <1>2, <2>1, <2>3 DEF StateRun
  <2>6. WriterInv(w)'
    BY <2>4, <2>5 DEF WriterInv, NumbersInv
  <2>7. DOMAIN graphs' \subseteq Writers
    BY <2>5 DEF NumbersInv
  <2>8. QED BY <2>4, <2>5, <2>6, <2>7, OneCallerMoves
<1>3. ASSUME NEW w \in Writers, InsertGraph(w) PROVE NumbersInv'
  <2>1. DOMAIN graphs' \subseteq Writers
    BY <1>3 DEF InsertGraph, NumbersInv
  <2>2. QED BY <1>3, <2>1, CallerStops DEF InsertGraph
<1>4. ASSUME NEW w \in Writers, UNCHANGED writer, UNCHANGED <<graphs, revisions, events>> PROVE NumbersInv'
  BY <1>4 DEF NumbersInv, WriterInv
<1>5. ASSUME NEW w \in Writers, To(w, "failed") \/ To(w, "done"), UNCHANGED <<graphs, revisions, events>>
      PROVE  NumbersInv'
  BY <1>5, CallerStops DEF NumbersInv
<1>6. ASSUME NEW w \in Writers, ReadParent(w) PROVE NumbersInv'
  <2>1. PICK g \in DOMAIN graphs, parent \in {0} \cup {r.number : r \in revisions}, at \in {"latest", "failed"} :
            /\ writer' = [writer EXCEPT ![w] =
                            [Idle EXCEPT !.kind = "revision", !.of = g, !.parent = parent, !.at = at]]
            /\ at = "latest" => parent = 0 \/ \E r \in revisions : r.graph = g /\ r.number = parent
    BY <1>6 DEF ReadParent
  <2> DEFINE c == [Idle EXCEPT !.kind = "revision", !.of = g, !.parent = parent, !.at = at]
  <2>2. \A r \in revisions : r.number \in Nat
    BY DEF NumbersInv, Gapless
  <2>a. parent \in Nat /\ g \in Writers
    BY <2>2 DEF NumbersInv
  <2>3. c \in Callers /\ c.at = at /\ c.kind = "revision" /\ c.of = g /\ c.parent = parent
    BY <2>a, IdleIsACaller DEF Callers
  <2> HIDE DEF c
  <2>4. writer' = [writer EXCEPT ![w] = c] /\ UNCHANGED <<revisions, events, graphs>>
    BY <1>6, <2>1 DEF ReadParent, c
  <2>5. WriterInv(w)'
    BY <2>1, <2>a, <2>3, <2>4 DEF WriterInv, NumbersInv, Numbers
  <2>6. DOMAIN graphs' \subseteq Writers
    BY <2>4 DEF NumbersInv
  <2>7. QED BY <2>3, <2>4, <2>5, <2>6, OneCallerMoves
<1>7. ASSUME NEW w \in Writers, ReadLatest(w) PROVE NumbersInv'
  <2> DEFINE next == NextNumber(revisions, writer[w].of)
             c == [writer[w] EXCEPT !.at = "append", !.next = next]
             n == Cardinality(GraphOf(revisions, writer[w].of))
  <2>1. /\ writer[w].at = "latest" /\ writer[w].kind = "revision" /\ writer[w].of \in Writers
        /\ writer[w].parent = 0 \/ writer[w].parent \in Numbers(revisions, writer[w].of)
    BY <1>7 DEF ReadLatest, NumbersInv, WriterInv
  <2>2. n \in Nat /\ next = n + 1
    BY <2>1, NextOfGapless DEF NumbersInv
  <2>3. Numbers(revisions, writer[w].of) = 1..n
    BY <2>1 DEF NumbersInv, Gapless
  <2>4. writer' = [writer EXCEPT ![w] = c]
    BY <1>7 DEF ReadLatest, NumbersInv
  <2>a. next \in Nat
    BY <2>2
  <2> HIDE DEF next
  <2>5. /\ c \in Callers /\ c.at = "append" /\ c.kind = "revision" /\ c.of = writer[w].of
        /\ c.parent = writer[w].parent /\ c.next = next
    BY <2>1, <2>a DEF NumbersInv, Callers
  <2> HIDE DEF c, n
  <2>6. c.parent \in Nat /\ c.parent < c.next
    BY <2>1, <2>2, <2>3, <2>5
  <2>7. UNCHANGED <<revisions, events, graphs>>
    BY <1>7 DEF ReadLatest
  <2>8. WriterInv(w)'
    BY <2>1, <2>2, <2>4, <2>5, <2>6, <2>7 DEF WriterInv, NumbersInv, n
  <2>9. DOMAIN graphs' \subseteq Writers
    BY <2>7 DEF NumbersInv
  <2>10. QED BY <2>4, <2>5, <2>7, <2>8, <2>9, OneCallerMoves
<1>8. ASSUME NEW w \in Writers, ReadSequence(w) PROVE NumbersInv'
  <2>1. PICK g \in {r.graph : r \in revisions} :
            writer' = [writer EXCEPT ![w] = [Idle EXCEPT !.kind = "event", !.at = "append", !.of = g,
                                               !.next = NextNumber(events, g)]]
    BY <1>8 DEF ReadSequence
  <2> DEFINE n == Cardinality(GraphOf(events, g))
             next == NextNumber(events, g)
             c == [Idle EXCEPT !.kind = "event", !.at = "append", !.of = g, !.next = next]
  <2>2. g \in Writers
    BY DEF NumbersInv, Gapless
  <2>3. n \in Nat /\ next = n + 1
    BY <2>2, NextOfGapless DEF NumbersInv
  <2>5. writer' = [writer EXCEPT ![w] = c] /\ UNCHANGED <<revisions, events, graphs>>
    BY <1>8, <2>1 DEF ReadSequence
  <2>a. next \in Nat
    BY <2>3
  <2> HIDE DEF next
  <2>b. Idle.parent = 0
    BY DEF Idle
  <2>4. /\ c \in Callers /\ c.at = "append" /\ c.kind = "event" /\ c.of = g /\ c.parent = 0 /\ c.next = next
    BY <2>2, <2>a, <2>b, IdleIsACaller DEF Callers
  <2> HIDE DEF c, n
  <2>6. WriterInv(w)'
    BY <2>2, <2>3, <2>4, <2>5 DEF WriterInv, NumbersInv, n
  <2>7. DOMAIN graphs' \subseteq Writers
    BY <2>5 DEF NumbersInv
  <2>8. QED BY <2>4, <2>5, <2>6, <2>7, OneCallerMoves
<1>9. ASSUME NEW w \in Writers, AppendRow(w) PROVE NumbersInv'
  <2> DEFINE entry == [graph |-> writer[w].of, number |-> writer[w].next, parent |-> writer[w].parent, by |-> w]
             rows == IF writer[w].kind = "revision" THEN revisions ELSE events
  <2>1. CASE entry.number \in Numbers(rows, entry.graph)
    <3>1. To(w, "failed") /\ UNCHANGED <<graphs, revisions, events>>
      BY <1>9, <2>1 DEF AppendRow
    <3>2. QED BY <1>5, <3>1
  <2>2. CASE entry.number \notin Numbers(rows, entry.graph)
    <3>1. /\ writer[w].at = "append" /\ To(w, "done") /\ UNCHANGED graphs
          /\ IF writer[w].kind = "revision" THEN revisions' = revisions \cup {entry} /\ UNCHANGED events
             ELSE events' = events \cup {entry} /\ UNCHANGED revisions
      BY <1>9, <2>2 DEF AppendRow
    <3>2. /\ entry.graph \in Writers /\ entry.number \in Nat /\ entry.parent < entry.number /\ 0 < entry.number
          /\ entry.number <= Cardinality(GraphOf(rows, entry.graph)) + 1
      BY <3>1 DEF NumbersInv, WriterInv
    <3>3. Gapless(rows)
      BY DEF NumbersInv
    <3> HIDE DEF entry, rows
    <3>4. /\ Gapless(rows \cup {entry})
          /\ \A g \in Writers : Cardinality(GraphOf(rows \cup {entry}, g)) >= Cardinality(GraphOf(rows, g))
      BY <2>2, <3>2, <3>3, AppendKeepsGapless
    <3>5. /\ Gapless(revisions') /\ Gapless(events')
          /\ \A g \in Writers :
               /\ Cardinality(GraphOf(revisions', g)) \in Nat /\ Cardinality(GraphOf(revisions, g)) \in Nat
               /\ Cardinality(GraphOf(revisions', g)) >= Cardinality(GraphOf(revisions, g))
               /\ Cardinality(GraphOf(events', g)) \in Nat /\ Cardinality(GraphOf(events, g)) \in Nat
               /\ Cardinality(GraphOf(events', g)) >= Cardinality(GraphOf(events, g))
      <4>1. Gapless(revisions') /\ Gapless(events')
        BY <3>1, <3>4 DEF rows, NumbersInv
      <4>2. ASSUME NEW g \in Writers
            PROVE  /\ Cardinality(GraphOf(revisions', g)) \in Nat /\ Cardinality(GraphOf(revisions, g)) \in Nat
                   /\ Cardinality(GraphOf(events', g)) \in Nat /\ Cardinality(GraphOf(events, g)) \in Nat
        BY <4>1, NextOfGapless DEF NumbersInv
      <4>3. CASE writer[w].kind = "revision"
        BY <3>1, <3>4, <4>1, <4>2, <4>3 DEF rows
      <4>4. CASE writer[w].kind # "revision"
        <5>1. rows = events /\ events' = events \cup {entry} /\ revisions' = revisions
          BY <3>1, <4>4 DEF rows
        <5>2. \A g \in Writers : Cardinality(GraphOf(events', g)) >= Cardinality(GraphOf(events, g))
          BY <3>4, <5>1
        <5>3. \A g \in Writers : Cardinality(GraphOf(revisions', g)) >= Cardinality(GraphOf(revisions, g))
          BY <4>2, <5>1
        <5>4. QED BY <4>1, <4>2, <5>2, <5>3
      <4>5. QED BY <4>3, <4>4
    <3>6. revisions \subseteq revisions'
      BY <3>1
    <3> DEFINE c == [writer[w] EXCEPT !.at = "done"]
    <3>7. c \in Callers /\ c.at = "done"
      BY DEF NumbersInv, Callers
    <3>8. writer' = [writer EXCEPT ![w] = c]
      BY <3>1 DEF To
    <3> HIDE DEF c
    <3>9. ASSUME NEW v \in Writers PROVE WriterInv(v)'
      <4>1. CASE v = w
        BY <3>7, <3>8, <4>1 DEF WriterInv, NumbersInv
      <4>2. CASE v # w
        <5>1. writer'[v] = writer[v] /\ WriterInv(v) /\ writer[v] \in Callers
          BY <3>8, <4>2 DEF NumbersInv
        <5>2. \A g : Numbers(revisions, g) \subseteq Numbers(revisions', g)
          BY <3>6 DEF Numbers
        <5>3. QED BY <3>5, <5>1, <5>2 DEF WriterInv, Callers
      <4>3. QED BY <4>1, <4>2
    <3>10. QED BY <3>1, <3>5, <3>7, <3>8, <3>9 DEF NumbersInv
  <2>3. QED BY <2>1, <2>2
<1>10. ASSUME NEW w \in Writers, Again(w) PROVE NumbersInv'
  <2>1. writer' = [writer EXCEPT ![w] = Idle] /\ UNCHANGED <<graphs, revisions, events>>
    BY <1>10 DEF Again
  <2>2. WriterInv(w)' /\ DOMAIN graphs' \subseteq Writers
    BY <2>1 DEF WriterInv, NumbersInv, Idle
  <2>3. QED BY <2>1, <2>2, IdleIsACaller, OneCallerMoves
<1>11. ASSUME NEW w \in Writers, InsertNode(w) \/ InsertEdge(w) \/ GraphDone(w) \/ BreakOff(w) PROVE NumbersInv'
  BY <1>4, <1>5, <1>11 DEF InsertNode, InsertEdge, GraphDone, BreakOff
<1>12. QED
  BY <1>0, <1>1, <1>2, <1>3, <1>6, <1>7, <1>8, <1>9, <1>10, <1>11 DEF StoreNext

\* The revisions of a graph and the events of its trace are numbered 1, 2, ...
\* without gaps or repetitions, however many callers read the last number at
\* once (graph-revision-store.ts, graph-execution-trace-store.ts).
THEOREM StoresNumberWithoutGaps == StoreSpec => []NumbersHaveNoGaps
<1>1. NumbersInv => NumbersHaveNoGaps
  BY DEF NumbersInv, Gapless, NumbersHaveNoGaps, GraphOf
<1>2. QED BY <1>1, NumbersStart, NumbersStep, PTL DEF StoreSpec

(***************************************************************************)
(* Numbers, recursion and what is reached.                                 *)
(***************************************************************************)

\* A set of numbers that is not empty has a least one.
LEMMA LeastNumber ==
    ASSUME NEW T \in SUBSET Nat, T # {}
    PROVE  \E x \in T : \A y \in T : x <= y
<1> DEFINE Below == {ss \in Nat \X Nat : ss[1] < ss[2]}
<1>1. IsWellFoundedOn(Below, Nat)
    BY NatLessThanWellFounded, Zenon DEF OpToRel
<1>2. \A x, y \in Nat : x < y => <<x, y>> \in Below
    OBVIOUS
<1> HIDE DEF Below
<1>3. PICK x \in T : \A y \in T : <<y, x>> \notin Below
    BY <1>1, WFMin
<1>4. ASSUME NEW y \in T PROVE x <= y
    <2>1. x \in Nat /\ y \in Nat /\ ~(y < x)
        BY <1>2, <1>3
    <2> QED  BY <2>1
<1> QED  BY <1>4

\* Induction, for a property that is given as a set.
LEMMA Counting ==
    ASSUME NEW T \in SUBSET Nat, 0 \in T, \A n \in T : n + 1 \in T
    PROVE  \A n \in Nat : n \in T
<1> SUFFICES ASSUME NEW n \in Nat, n \notin T PROVE FALSE
    OBVIOUS
<1> DEFINE Out == Nat \ T
<1>1. PICK x \in Out : \A y \in Out : x <= y
    <2>1. Out \in SUBSET Nat /\ Out # {}
        OBVIOUS
    <2> HIDE DEF Out
    <2> QED  BY <2>1, LeastNumber
<1>2. x \in Nat /\ x \notin T /\ x # 0
    OBVIOUS
<1>3. x - 1 \in Nat /\ (x - 1) + 1 = x /\ ~(x <= x - 1)
    BY <1>2
<1>4. x - 1 \in T
    BY <1>1, <1>3
<1> QED  BY <1>2, <1>3, <1>4

\* A function on the numbers is defined by its first value and its step.
LEMMA Recursion ==
    ASSUME NEW V, NEW base \in V, NEW step \in [V -> V]
    PROVE  \E f \in [Nat -> V] : f[0] = base /\ \A n \in Nat : f[n + 1] = step[f[n]]
<1> DEFINE Starts(n) == {g \in [0..n -> V] : g[0] = base /\ \A k \in 0..n : k # 0 => g[k] = step[g[k - 1]]}
<1>1. \A n \in Nat : Starts(n) # {}
    <2> DEFINE T == {n \in Nat : Starts(n) # {}}
    <2>1. Starts(0) # {}
        <3>1. [k \in 0..0 |-> base] \in Starts(0)
            OBVIOUS
        <3> QED  BY <3>1
    <2>2. ASSUME NEW n \in Nat, Starts(n) # {} PROVE Starts(n + 1) # {}
        <3>1. PICK g : g \in Starts(n)
            BY <2>2
        <3> DEFINE h == [k \in 0..(n + 1) |-> IF k = n + 1 THEN step[g[n]] ELSE g[k]]
        <3>2. h \in [0..(n + 1) -> V] /\ h[0] = base
            BY <2>2, <3>1
        <3>3. ASSUME NEW k \in 0..(n + 1), k # 0 PROVE h[k] = step[h[k - 1]]
            <4>1. CASE k = n + 1
                <5>1. k - 1 = n /\ n \in 0..(n + 1) /\ n # n + 1
                    BY <2>2, <4>1
                <5>2. h[k - 1] = g[n] /\ h[k] = step[g[n]]
                    BY <2>2, <4>1, <5>1
                <5> QED  BY <5>2
            <4>2. CASE k # n + 1
                <5>1. k \in 0..n /\ k - 1 \in 0..n /\ k - 1 \in 0..(n + 1) /\ k - 1 # n + 1
                    BY <2>2, <3>3, <4>2
                <5>2. h[k] = g[k] /\ h[k - 1] = g[k - 1]
                    BY <4>2, <5>1
                <5> QED  BY <3>1, <3>3, <5>1, <5>2
            <4> QED  BY <4>1, <4>2
        <3> HIDE DEF h
        <3>4. h \in Starts(n + 1)
            BY <3>2, <3>3
        <3> QED  BY <3>4
    <2> HIDE DEF Starts
    <2>3. T \in SUBSET Nat /\ 0 \in T /\ \A n \in T : n + 1 \in T
        BY <2>1, <2>2
    <2>4. \A n \in Nat : n \in T
        <3> HIDE DEF T
        <3> QED  BY <2>3, Counting
    <2> QED  BY <2>4
<1>2. ASSUME NEW n \in Nat, NEW m \in Nat, NEW g \in Starts(n), NEW h \in Starts(m)
      PROVE  \A k \in Nat : k <= n /\ k <= m => g[k] = h[k]
    <2> DEFINE T == {k \in Nat : k <= n /\ k <= m => g[k] = h[k]}
    <2>1. 0 \in T
        OBVIOUS
    <2>2. ASSUME NEW k \in T PROVE k + 1 \in T
        <3>1. k + 1 \in Nat /\ (k <= n /\ k <= m => g[k] = h[k])
            OBVIOUS
        <3>2. ASSUME k + 1 <= n, k + 1 <= m PROVE g[k + 1] = h[k + 1]
            <4>1. g[k] = h[k]
                BY <3>1, <3>2
            <4>2. k + 1 \in 0..n /\ k + 1 \in 0..m /\ k + 1 # 0 /\ (k + 1) - 1 = k
                BY <3>2
            <4>3. g[k + 1] = step[g[(k + 1) - 1]] /\ h[k + 1] = step[h[(k + 1) - 1]]
                BY <4>2
            <4> QED  BY <4>1, <4>2, <4>3
        <3> QED  BY <3>1, <3>2
    <2>4. \A k \in Nat : k \in T
        <3>1. T \in SUBSET Nat
            OBVIOUS
        <3> HIDE DEF T
        <3> QED  BY <2>1, <2>2, <3>1, Counting
    <2> QED  BY <2>4
<1> DEFINE start(n) == CHOOSE g : g \in Starts(n)
           f == [n \in Nat |-> start(n)[n]]
<1>3. \A n \in Nat : start(n) \in Starts(n)
    <2> HIDE DEF Starts
    <2> QED  BY <1>1
<1>4. ASSUME NEW n \in Nat PROVE start(n)[n] \in V
    <2> HIDE DEF start, Starts
    <2>1. start(n) \in Starts(n) /\ n \in 0..n
        BY <1>3
    <2> USE DEF Starts
    <2> QED  BY <2>1
<1>5. f \in [Nat -> V] /\ \A n \in Nat : f[n] = start(n)[n]
    <2> HIDE DEF start
    <2> QED  BY <1>4
<1>6. f[0] = base
    <2> HIDE DEF start, f, Starts
    <2>1. start(0) \in Starts(0) /\ 0 \in 0..0 /\ f[0] = start(0)[0]
        BY <1>3, <1>5
    <2> USE DEF Starts
    <2> QED  BY <2>1
<1>7. ASSUME NEW n \in Nat PROVE f[n + 1] = step[f[n]]
    <2>1. n + 1 \in Nat /\ n + 1 \in 0..(n + 1) /\ n + 1 # 0 /\ (n + 1) - 1 = n /\ n <= n /\ n <= n + 1
        BY <1>7
    <2>2. start(n + 1) \in Starts(n + 1) /\ start(n) \in Starts(n)
        BY <1>3, <2>1
    <2> HIDE DEF start, f
    <2>3. start(n + 1)[n + 1] = step[start(n + 1)[(n + 1) - 1]]
        BY <2>1, <2>2
    <2> HIDE DEF Starts
    <2>4. start(n + 1)[n] = start(n)[n]
        BY <1>2, <2>1, <2>2
    <2> QED  BY <1>5, <2>1, <2>3, <2>4
<1> HIDE DEF f
<1> QED  BY <1>5, <1>6, <1>7

\* A step from subsets of S to subsets of S that keeps their inclusion; and how it
\* is repeated from the empty set.
Grows(F, S) == F \in [SUBSET S -> SUBSET S] /\ \A A, B \in SUBSET S : A \subseteq B => F[A] \subseteq F[B]
Repeats(a, F) == a[0] = {} /\ \A k \in Nat : a[k + 1] = F[a[k]]

\* A step that keeps the inclusion of subsets of a finite set, repeated from the
\* empty set as often as the set has members, comes to rest.
LEMMA ComesToRest ==
    ASSUME NEW S, IsFiniteSet(S), NEW F, Grows(F, S), NEW a, Repeats(a, F),
           NEW N \in Nat, N = Cardinality(S)
    PROVE  /\ \A k \in Nat : a[k] \in SUBSET S /\ a[k] \subseteq a[k + 1]
           /\ F[a[N]] = a[N]
<1>0. /\ F \in [SUBSET S -> SUBSET S] /\ \A A, B \in SUBSET S : A \subseteq B => F[A] \subseteq F[B]
      /\ a[0] = {} /\ \A k \in Nat : a[k + 1] = F[a[k]]
    BY DEF Grows, Repeats
<1>1. \A k \in Nat : a[k] \in SUBSET S /\ a[k] \subseteq a[k + 1]
    <2> DEFINE T == {k \in Nat : a[k] \in SUBSET S /\ a[k] \subseteq a[k + 1]}
    <2>1. 0 \in T
        BY <1>0
    <2>2. ASSUME NEW k \in T PROVE k + 1 \in T
        <3>1. k \in Nat /\ k + 1 \in Nat /\ a[k] \in SUBSET S /\ a[k] \subseteq a[k + 1]
            OBVIOUS
        <3>2. a[k + 1] = F[a[k]] /\ a[(k + 1) + 1] = F[a[k + 1]]
            BY <1>0, <3>1
        <3>3. a[k + 1] \in SUBSET S
            BY <1>0, <3>1, <3>2
        <3>4. a[k + 1] \subseteq a[(k + 1) + 1]
            BY <1>0, <3>1, <3>2, <3>3
        <3> QED  BY <3>1, <3>3, <3>4
    <2>3. \A k \in Nat : k \in T
        <3>1. T \in SUBSET Nat
            OBVIOUS
        <3> HIDE DEF T
        <3> QED  BY <2>1, <2>2, <3>1, Counting
    <2> QED  BY <2>3
<1>2. ASSUME NEW r \in Nat, r <= N, F[a[r]] = a[r]
      PROVE  F[a[N]] = a[N]
    <2> DEFINE T == {k \in Nat : a[r + k] = a[r]}
    <2>1. 0 \in T
        BY <1>0
    <2>2. ASSUME NEW k \in T PROVE k + 1 \in T
        <3>1. k \in Nat /\ r + k \in Nat /\ r + (k + 1) = (r + k) + 1 /\ a[r + k] = a[r]
            OBVIOUS
        <3>2. a[(r + k) + 1] = F[a[r + k]]
            BY <1>0, <3>1
        <3> QED  BY <1>2, <3>1, <3>2
    <2>3. \A k \in Nat : k \in T
        <3>1. T \in SUBSET Nat
            OBVIOUS
        <3> HIDE DEF T
        <3> QED  BY <2>1, <2>2, <3>1, Counting
    <2>4. N - r \in Nat /\ r + (N - r) = N
        BY <1>2
    <2>5. a[N] = a[r]
        BY <2>3, <2>4
    <2> QED  BY <1>2, <2>5
<1>3. ASSUME \A r \in Nat : r <= N => F[a[r]] # a[r]
      PROVE  FALSE
    <2> DEFINE T == {k \in Nat : k <= N => k <= Cardinality(a[k])}
    <2>0. \A k \in Nat : IsFiniteSet(a[k]) /\ Cardinality(a[k]) \in Nat
        BY <1>1, FS_Subset, FS_CardinalityType
    <2>1. 0 \in T
        BY <1>0, <2>0
    <2>2. ASSUME NEW k \in T PROVE k + 1 \in T
        <3>1. k \in Nat /\ k + 1 \in Nat /\ (k <= N => k <= Cardinality(a[k]))
            OBVIOUS
        <3>2. ASSUME k + 1 <= N PROVE k + 1 <= Cardinality(a[k + 1])
            <4>1. k <= N
                BY <1>0, <3>1, <3>2
            <4>2. a[k] \in SUBSET a[k + 1] /\ a[k] # a[k + 1]
                BY <1>0, <1>1, <1>3, <3>1, <4>1
            <4> DEFINE s == Cardinality(a[k])
                       t == Cardinality(a[k + 1])
            <4>3. IsFiniteSet(a[k + 1]) /\ s \in Nat /\ t \in Nat
                BY <2>0, <3>1
            <4>4. s <= t /\ s # t
                BY <4>2, <4>3, FS_Subset
            <4>5. k <= s
                BY <3>1, <4>1
            <4> HIDE DEF s, t
            <4>6. k + 1 <= t
                BY <3>1, <4>3, <4>4, <4>5
            <4> QED  BY <4>6 DEF t
        <3> QED  BY <1>0, <3>1, <3>2
    <2>4. \A k \in Nat : k \in T
        <3>1. T \in SUBSET Nat
            OBVIOUS
        <3> HIDE DEF T
        <3> QED  BY <2>1, <2>2, <3>1, Counting
    <2>5. a[N] \in SUBSET S /\ N <= Cardinality(a[N]) /\ Cardinality(a[N]) \in Nat
        <3> QED  BY <1>1, <2>0, <2>4 DEF T
    <2>6. Cardinality(a[N]) <= N /\ (Cardinality(a[N]) = N => a[N] = S)
        <3>1. a[N] \in SUBSET S
            BY <2>5
        <3> DEFINE part == a[N]
        <3> HIDE DEF part
        <3>2. part \in SUBSET S
            BY <3>1 DEF part
        <3>3. Cardinality(part) <= Cardinality(S) /\ (Cardinality(S) = Cardinality(part) => S = part)
            BY <3>2, FS_Subset
        <3> QED  BY <3>3 DEF part
    <2>7. a[N] = S
        <3> DEFINE s == Cardinality(a[N])
        <3>1. s \in Nat /\ N <= s /\ s <= N
            BY <2>5, <2>6
        <3> HIDE DEF s
        <3>2. s = N
            BY <1>0, <3>1
        <3> QED  BY <2>6, <3>2, Zenon DEF s
    <2>8. a[N] \subseteq a[N + 1] /\ a[N + 1] \in SUBSET S /\ N <= N /\ a[N + 1] = F[a[N]]
        BY <1>0, <1>1
    <2>9. F[a[N]] \subseteq S /\ S \subseteq F[a[N]]
        BY <2>7, <2>8
    <2>10. F[a[N]] = S
        BY <2>9
    <2>11. F[a[N]] # a[N]
        BY <1>3, <2>8
    <2> QED  BY <2>7, <2>10, <2>11, Zenon
<1> QED  BY <1>1, <1>2, <1>3

\* The edges of a graph lead to what they reach, and on from there.
LEMMA ReachedSteps ==
    ASSUME NEW S, NEW E \in SUBSET (S \X S)
    PROVE  /\ \A x, y \in S : <<x, y>> \in E => y \in Reached(E, S, x)
           /\ \A x, y, z \in S : y \in Reached(E, S, x) /\ z \in Reached(E, S, y) => z \in Reached(E, S, x)
           /\ \A x, y, z \in S : y \in Reached(E, S, x) /\ <<y, z>> \in E => z \in Reached(E, S, x)
           /\ \A x, y \in S, part \in SUBSET S :
                  Absorbs(part, E, x) /\ y \in Reached(E, S, x) => y \in part
<1>0. \A x, y : y \in Reached(E, S, x) <=>
          y \in S /\ \A part \in SUBSET S : Absorbs(part, E, x) => y \in part
    BY DEF Reached
<1>1. ASSUME NEW x \in S, NEW y \in S, <<x, y>> \in E PROVE y \in Reached(E, S, x)
    <2>1. \A part \in SUBSET S : Absorbs(part, E, x) => y \in part
        BY <1>1 DEF Absorbs
    <2> QED  BY <1>0, <2>1
<1>2. ASSUME NEW x \in S, NEW y \in S, NEW z \in S, y \in Reached(E, S, x), z \in Reached(E, S, y)
      PROVE  z \in Reached(E, S, x)
    <2>1. ASSUME NEW part \in SUBSET S, Absorbs(part, E, x) PROVE z \in part
        <3>1. y \in part
            BY <1>0, <1>2, <2>1
        <3>2. Absorbs(part, E, y)
            BY <2>1, <3>1 DEF Absorbs
        <3> QED  BY <1>0, <1>2, <3>2
    <2> QED  BY <1>0, <2>1
<1>3. \A x, y, z \in S : y \in Reached(E, S, x) /\ <<y, z>> \in E => z \in Reached(E, S, x)
    BY <1>1, <1>2
<1> QED  BY <1>0, <1>1, <1>2, <1>3

\* Where every member of a part of the graph has an edge from the part, one of them
\* is on a cycle.
LEMMA KnotHasCycle ==
    ASSUME NEW S, NEW E \in SUBSET (S \X S), NEW X \in SUBSET S, IsFiniteSet(X), X # {},
           \A x \in X : \E p \in X : <<p, x>> \in E
    PROVE  \E x \in X : x \in Reached(E, S, x)
<1> SUFFICES ASSUME \A x \in X : x \notin Reached(E, S, x) PROVE FALSE
    OBVIOUS
<1> DEFINE Before(x) == {y \in X : x \in Reached(E, S, y)}
           sizes == {Cardinality(Before(x)) : x \in X}
<1>1. \A x \in X : IsFiniteSet(Before(x)) /\ Cardinality(Before(x)) \in Nat
    BY FS_Subset, FS_CardinalityType
<1>2. sizes \in SUBSET Nat /\ sizes # {}
    BY <1>1
<1>3. PICK n \in sizes : \A m \in sizes : n <= m
    <2> HIDE DEF sizes
    <2> QED  BY <1>2, LeastNumber
<1>4. PICK x \in X : n = Cardinality(Before(x))
    OBVIOUS
<1>5. PICK p \in X : <<p, x>> \in E
    OBVIOUS
<1>6. p \in Before(x)
    BY <1>5, ReachedSteps
<1>7. Before(p) \subseteq Before(x) /\ p \notin Before(p)
    <2>1. x \in Reached(E, S, p)
        BY <1>5, ReachedSteps
    <2> QED  BY <2>1, ReachedSteps
<1>8. n <= Cardinality(Before(p))
    BY <1>3
<1> HIDE DEF Before
<1>9. Before(p) \in SUBSET Before(x) /\ Before(p) # Before(x)
    BY <1>6, <1>7
<1>10. Cardinality(Before(p)) <= Cardinality(Before(x)) /\ Cardinality(Before(p)) # Cardinality(Before(x))
    BY <1>1, <1>9, FS_Subset
<1> QED  BY <1>1, <1>4, <1>8, <1>10

(***************************************************************************)
(* What validateGraphAcyclic computes.                                     *)
(***************************************************************************)

\* The nodes with an edge to a node: their edges are as many, or more where one of
\* them is there twice.
Sources(graph, id) == {m \in graph.nodes : Adjacent(graph, m, id)}
EdgesTo(graph, id) == {i \in DOMAIN graph.edges : graph.edges[i][2] = id}

\* The edges of a graph are finitely many pairs of ids.
LEMMA EdgesOfGraph ==
    ASSUME NEW graph \in Graph
    PROVE  /\ graph.nodes \subseteq Ids /\ IsFiniteSet(DOMAIN graph.edges)
           /\ \A i \in DOMAIN graph.edges :
                  /\ graph.edges[i] \in Ids \X Ids
                  /\ graph.edges[i] = <<graph.edges[i][1], graph.edges[i][2]>>
           /\ ToSet(graph.edges) \in SUBSET (Ids \X Ids)
<1>1. PICK n \in 0..MaxEdges : graph.edges \in [1..n -> Edges]
    BY DEF Graph
<1>2. IsFiniteSet(1..n) /\ DOMAIN graph.edges = 1..n
    <2>1. n \in Int /\ 1 \in Int
        BY ExecutionGraphsAssumption
    <2> QED  BY <1>1, <2>1, FS_Interval
<1>3. graph.nodes \subseteq Ids
    BY DEF Graph
<1>4. \A i \in DOMAIN graph.edges : graph.edges[i] \in Ids \X Ids
    BY <1>1, <1>2 DEF Edges
<1>5. ToSet(graph.edges) \in SUBSET (Ids \X Ids)
    BY <1>4 DEF ToSet
<1> QED  BY <1>2, <1>3, <1>4, <1>5

\* Where every edge has nodes, a sequence of edges leads to nodes only, and only
\* from nodes.
LEMMA EdgesBetweenNodes ==
    ASSUME NEW graph \in Graph, Known(graph)
    PROVE  \A i \in DOMAIN graph.edges : graph.edges[i][1] \in graph.nodes /\ graph.edges[i][2] \in graph.nodes
<1> SUFFICES ASSUME NEW i \in DOMAIN graph.edges
             PROVE  graph.edges[i][1] \in graph.nodes /\ graph.edges[i][2] \in graph.nodes
    OBVIOUS
<1> DEFINE e == graph.edges[i]
<1>1. e \in Ids \X Ids
    BY EdgesOfGraph
<1>2. ToSet(e) \subseteq graph.nodes
    BY DEF Known
<1> HIDE DEF e
<1>3. DOMAIN e = 1..2
    BY <1>1
<1>4. e[1] \in ToSet(e) /\ e[2] \in ToSet(e)
    BY <1>3 DEF ToSet
<1> QED  BY <1>2, <1>4 DEF e

\* A node has as many edges to it as nodes they come from, or more; as many just
\* when none is there twice.
LEMMA DegreeCountsSources ==
    ASSUME NEW graph \in Graph, Known(graph), NEW id
    PROVE  /\ IsFiniteSet(Sources(graph, id)) /\ Cardinality(Sources(graph, id)) \in Nat
           /\ Degree(graph, id) \in Nat
           /\ Cardinality(Sources(graph, id)) <= Degree(graph, id)
           /\ Cardinality(Sources(graph, id)) = Degree(graph, id) <=>
                \A i, j \in EdgesTo(graph, id) : graph.edges[i][1] = graph.edges[j][1] => i = j
<1> DEFINE D == EdgesTo(graph, id)
           T == Sources(graph, id)
           f == [i \in D |-> graph.edges[i][1]]
<1>1. D \in SUBSET DOMAIN graph.edges
    BY DEF EdgesTo
<1>2. IsFiniteSet(D)
    BY <1>1, EdgesOfGraph, FS_Subset
<1>3. \A i \in D : f[i] \in T
    <2>1. ASSUME NEW i \in D PROVE graph.edges[i][1] \in T
        <3>1. i \in DOMAIN graph.edges /\ graph.edges[i][2] = id
            BY DEF EdgesTo
        <3>2. graph.edges[i][1] \in graph.nodes
            BY <3>1, EdgesBetweenNodes
        <3>3. <<graph.edges[i][1], id>> = graph.edges[i]
            BY <3>1, EdgesOfGraph
        <3>4. graph.edges[i] \in ToSet(graph.edges)
            BY <3>1 DEF ToSet
        <3> QED  BY <3>2, <3>3, <3>4 DEF Sources, Adjacent
    <2> QED  BY <2>1
<1>4. \A m \in T : \E i \in D : f[i] = m
    <2>1. ASSUME NEW m \in T PROVE \E i \in D : graph.edges[i][1] = m
        <3>1. PICK i \in DOMAIN graph.edges : graph.edges[i] = <<m, id>>
            BY DEF Sources, Adjacent, ToSet
        <3>2. graph.edges[i][1] = m /\ graph.edges[i][2] = id
            BY <3>1
        <3> QED  BY <3>2 DEF EdgesTo
    <2> QED  BY <2>1
<1>5. f \in Surjection(D, T)
    BY <1>3, <1>4 DEF Surjection
<1>6. f \in Injection(D, T) <=> \A i, j \in D : graph.edges[i][1] = graph.edges[j][1] => i = j
    BY <1>3 DEF Injection, IsInjective
<1>7. Degree(graph, id) = Cardinality(D)
    BY DEF Degree, EdgesTo
<1> HIDE DEF D, T, f
<1>8. /\ IsFiniteSet(T) /\ Cardinality(T) <= Cardinality(D)
      /\ Cardinality(T) = Cardinality(D) <=> f \in Injection(D, T)
    BY <1>2, <1>5, FS_Surjection
<1>9. Cardinality(T) \in Nat /\ Cardinality(D) \in Nat
    BY <1>2, <1>8, FS_CardinalityType
<1> QED  BY <1>6, <1>7, <1>8, <1>9 DEF T, D

\* The nodes that are found to have no edge but from nodes of A.
Freed(graph, A) == {id \in graph.nodes : Degree(graph, id) = Cardinality({m \in A : Adjacent(graph, m, id)})}

\* They are those whose sources A has, and whose edges are not there twice.
LEMMA FreedBySources ==
    ASSUME NEW graph \in Graph, Known(graph), NEW A \in SUBSET graph.nodes, NEW id \in graph.nodes
    PROVE  id \in Freed(graph, A) <=>
             Sources(graph, id) \subseteq A /\ Cardinality(Sources(graph, id)) = Degree(graph, id)
<1> DEFINE T == Sources(graph, id)
           part == {m \in A : Adjacent(graph, m, id)}
<1>1. part \in SUBSET T /\ (part = T <=> T \subseteq A)
    BY DEF Sources
<1>2. /\ IsFiniteSet(T) /\ Cardinality(T) \in Nat /\ Degree(graph, id) \in Nat
      /\ Cardinality(T) <= Degree(graph, id)
    BY DegreeCountsSources
<1>3. id \in Freed(graph, A) <=> Degree(graph, id) = Cardinality(part)
    BY DEF Freed
<1> HIDE DEF T, part
<1>4. IsFiniteSet(part) /\ Cardinality(part) <= Cardinality(T) /\ (Cardinality(T) = Cardinality(part) => T = part)
    BY <1>1, <1>2, FS_Subset
<1>5. Cardinality(part) \in Nat
    BY <1>4, FS_CardinalityType
<1> DEFINE c == Cardinality(part)
           d == Cardinality(T)
           e == Degree(graph, id)
<1>6. c \in Nat /\ d \in Nat /\ e \in Nat /\ c <= d /\ d <= e
    BY <1>2, <1>4, <1>5
<1> HIDE DEF c, d, e
<1>7. e = c <=> c = d /\ d = e
    BY <1>6
<1>8. c = d <=> T \subseteq A
    BY <1>1, <1>4 DEF c, d
<1> QED  BY <1>3, <1>7, <1>8 DEF c, d, e, T

\* The sets of nodes that the loop has passed after so many rounds.
LEMMA RoundsOfLoop ==
    ASSUME NEW graph \in Graph, Known(graph), IsFiniteSet(graph.nodes)
    PROVE  \E a \in [Nat -> SUBSET graph.nodes] :
             /\ a[0] = {} /\ \A k \in Nat : a[k] \subseteq a[k + 1] /\ a[k + 1] = Freed(graph, a[k])
             /\ Freed(graph, Processed(graph)) = Processed(graph)
             /\ Processed(graph) = a[Cardinality(graph.nodes)]
<1> DEFINE V == SUBSET graph.nodes
           F == [A \in V |-> Freed(graph, A)]
           N == Cardinality(graph.nodes)
           none == {}
<1>1. F \in [V -> V] /\ none \in V
    BY DEF Freed
<1>2. PICK a \in [Nat -> V] : a[0] = none /\ \A k \in Nat : a[k + 1] = F[a[k]]
    <2> HIDE DEF V, F, none
    <2> QED  BY <1>1, Recursion
<1>3. N \in Nat
    BY FS_CardinalityType
<1>4. \A A, B \in V : A \subseteq B => F[A] \subseteq F[B]
    <2>1. ASSUME NEW A \in V, NEW B \in V, A \subseteq B, NEW id \in Freed(graph, A)
          PROVE  id \in Freed(graph, B)
        <3>1. id \in graph.nodes
            BY DEF Freed
        <3> QED  BY <2>1, <3>1, FreedBySources
    <2> QED  BY <2>1
<1>5. (\A k \in Nat : a[k] \in V /\ a[k] \subseteq a[k + 1]) /\ F[a[N]] = a[N]
    <2> DEFINE S == graph.nodes
    <2>1. Grows(F, S) /\ Repeats(a, F) /\ IsFiniteSet(S) /\ N = Cardinality(S)
        BY <1>1, <1>2, <1>4 DEF Grows, Repeats
    <2> HIDE DEF S, F, N
    <2>2. (\A k \in Nat : a[k] \in SUBSET S /\ a[k] \subseteq a[k + 1]) /\ F[a[N]] = a[N]
        BY <1>3, <2>1, ComesToRest
    <2> QED  BY <2>2 DEF S
<1>6. \A k \in Nat : a[k + 1] = Freed(graph, a[k])
    BY <1>2
<1>7. Processed(graph) = a[N]
    <2> DEFINE after[k \in 0..N] ==
                 IF k = 0 THEN {}
                 ELSE {id \in graph.nodes :
                         Degree(graph, id) = Cardinality({m \in after[k - 1] : Adjacent(graph, m, id)})}
    <2>1. graph.nodes \cup {graph.edges[i][2] : i \in DOMAIN graph.edges} = graph.nodes
        BY EdgesBetweenNodes
    <2>2. Processed(graph) = after[N]
        BY <2>1 DEF Processed
    <2> DEFINE Round(g) == [k \in 0..N |-> IF k = 0 THEN {} ELSE Freed(graph, g[k - 1])]
               h == [k \in 0..N |-> a[k]]
    <2>3. after = CHOOSE g : g = Round(g)
        BY DEF Freed
    <2>4. h = Round(h)
        <3>1. ASSUME NEW k \in 0..N PROVE a[k] = IF k = 0 THEN {} ELSE Freed(graph, h[k - 1])
            <4>1. CASE k = 0
                BY <1>2, <4>1
            <4>2. CASE k # 0
                <5>1. k - 1 \in Nat /\ k - 1 \in 0..N /\ (k - 1) + 1 = k
                    BY <1>3, <4>2
                <5>2. a[(k - 1) + 1] = Freed(graph, a[k - 1]) /\ h[k - 1] = a[k - 1]
                    BY <1>6, <5>1
                <5> QED  BY <4>2, <5>1, <5>2
            <4> QED  BY <4>1, <4>2
        <3> QED  BY <3>1
    <2> HIDE DEF after, h
    <2>5. after = Round(after)
        <3> HIDE DEF Round
        <3> QED  BY <2>3, <2>4
    <2>6. \A k \in 0..N : after[k] = IF k = 0 THEN {} ELSE Freed(graph, after[k - 1])
        <3> DEFINE r == Round(after)
        <3>1. \A k \in 0..N : r[k] = IF k = 0 THEN {} ELSE Freed(graph, after[k - 1])
            OBVIOUS
        <3> HIDE DEF r
        <3>2. r = after
            BY <2>5 DEF r
        <3> QED  BY <3>1, <3>2
    <2> DEFINE T == {k \in Nat : k <= N => after[k] = a[k]}
    <2>7. 0 \in T
        <3> HIDE DEF N
        <3>1. 0 \in 0..N
            BY <1>3
        <3>2. after[0] = {} /\ a[0] = {}
            BY <1>2, <2>6, <3>1
        <3> QED  BY <3>2
    <2>8. ASSUME NEW k \in T PROVE k + 1 \in T
        <3>1. k \in Nat /\ k + 1 \in Nat /\ (k <= N => after[k] = a[k]) /\ (k + 1) - 1 = k /\ k + 1 # 0
            OBVIOUS
        <3> HIDE DEF N
        <3>2. ASSUME k + 1 <= N PROVE after[k + 1] = a[k + 1]
            <4>1. k + 1 \in 0..N /\ k <= N
                BY <1>3, <3>1, <3>2
            <4>2. after[k + 1] = Freed(graph, after[(k + 1) - 1])
                BY <2>6, <3>1, <4>1
            <4> QED  BY <1>6, <3>1, <4>1, <4>2
        <3> QED  BY <3>1, <3>2
    <2>9. N \in T
        <3>1. T \in SUBSET Nat
            OBVIOUS
        <3> HIDE DEF T
        <3> QED  BY <1>3, <2>7, <2>8, <3>1, Counting
    <2>10. after[N] = a[N]
        BY <1>3, <2>9
    <2> QED  BY <2>2, <2>10
<1>8. Freed(graph, Processed(graph)) = Processed(graph)
    <2>1. a[N] \in V /\ F[a[N]] = Freed(graph, a[N])
        BY <1>3, <1>5
    <2> QED  BY <1>5, <1>7, <2>1
<1> QED  BY <1>2, <1>5, <1>6, <1>7, <1>8

\* A graph that passes has no edge twice and no cycle: the round in which a node is
\* passed comes after the rounds of all its sources.
LEMMA PassedGraphHasNoCycle ==
    ASSUME NEW graph \in Graph, Known(graph), IsFiniteSet(graph.nodes), Acyclic(graph)
    PROVE  IsInjective(graph.edges) /\ ~Cyclic(graph)
<1> DEFINE E == ToSet(graph.edges)
<1>1. PICK a \in [Nat -> SUBSET graph.nodes] :
          /\ a[0] = {} /\ \A k \in Nat : a[k] \subseteq a[k + 1] /\ a[k + 1] = Freed(graph, a[k])
          /\ Freed(graph, Processed(graph)) = Processed(graph)
          /\ Processed(graph) = a[Cardinality(graph.nodes)]
    BY RoundsOfLoop
<1>2. Cardinality(graph.nodes) \in Nat
    BY FS_CardinalityType
<1>3. Processed(graph) \in SUBSET graph.nodes
    BY <1>1, <1>2
<1>4. Processed(graph) = graph.nodes
    <2>1. Cardinality(Processed(graph)) = Cardinality(graph.nodes)
        BY DEF Acyclic
    <2> QED  BY <1>3, <2>1, FS_Subset
<1>5. \A id \in graph.nodes : id \in Freed(graph, graph.nodes)
    BY <1>1, <1>4
<1>6. IsInjective(graph.edges)
    <2>1. ASSUME NEW i \in DOMAIN graph.edges, NEW j \in DOMAIN graph.edges, graph.edges[i] = graph.edges[j]
          PROVE  i = j
        <3> DEFINE id == graph.edges[i][2]
        <3>1. id \in graph.nodes
            BY EdgesBetweenNodes
        <3>2. i \in EdgesTo(graph, id) /\ j \in EdgesTo(graph, id) /\ graph.edges[i][1] = graph.edges[j][1]
            BY <2>1 DEF EdgesTo
        <3> HIDE DEF id
        <3>3. id \in Freed(graph, graph.nodes)
            BY <1>5, <3>1
        <3>4. Cardinality(Sources(graph, id)) = Degree(graph, id)
            BY <3>1, <3>3, FreedBySources
        <3> QED  BY <3>2, <3>4, DegreeCountsSources
    <2> QED  BY <2>1 DEF IsInjective
<1>7. ASSUME NEW x \in Ids, x \in Reached(E, Ids, x) PROVE FALSE
    <2>1. E \in SUBSET (Ids \X Ids) /\ graph.nodes \subseteq Ids
        BY EdgesOfGraph
    <2>2. \A e \in E : e[1] \in graph.nodes /\ e[2] \in graph.nodes /\ <<e[1], e[2]>> \in E
        BY EdgesBetweenNodes, EdgesOfGraph DEF ToSet
    <2> HIDE DEF E
    <2>3. x \in graph.nodes
        <3>1. SUFFICES ASSUME x \notin graph.nodes PROVE FALSE
            OBVIOUS
        <3> DEFINE part == {y \in Ids : FALSE}
        <3>2. part \in SUBSET Ids /\ Absorbs(part, E, x)
            BY <2>2, <3>1 DEF Absorbs
        <3> HIDE DEF part
        <3>3. x \in part
            BY <1>7, <2>1, <3>2, ReachedSteps
        <3> QED  BY <3>3 DEF part
    <2> DEFINE rounds == {k \in Nat : x \in a[k]}
    <2>4. PICK k \in rounds : \A l \in rounds : k <= l
        <3>1. rounds \in SUBSET Nat /\ rounds # {}
            BY <1>1, <1>2, <1>4, <2>3
        <3> HIDE DEF rounds
        <3> QED  BY <3>1, LeastNumber
    <2>5. k \in Nat /\ x \in a[k] /\ k # 0
        BY <1>1
    <2>6. k - 1 \in Nat /\ (k - 1) + 1 = k /\ ~(k <= k - 1)
        BY <2>5
    <2>7. x \notin a[k - 1]
        BY <2>4, <2>6
    <2>8. a[k - 1] \subseteq a[k] /\ a[k] = Freed(graph, a[k - 1]) /\ a[k - 1] \in SUBSET graph.nodes
        BY <1>1, <2>6
    <2> DEFINE before == a[k - 1]
               upto == a[k]
               part == Ids \ upto
    <2> HIDE DEF before, upto
    <2>9. x \in upto /\ x \notin before /\ before \subseteq upto /\ upto = Freed(graph, before) /\ before \in SUBSET graph.nodes
        BY <2>5, <2>7, <2>8 DEF before, upto
    <2>10. part \in SUBSET Ids /\ x \notin part
        BY <2>9
    <2>11. Absorbs(part, E, x)
        <3>1. ASSUME NEW e \in E, e[1] \in part \cup {x}, e[2] \in upto PROVE FALSE
            <4>1. e[1] \in graph.nodes /\ e[2] \in graph.nodes /\ <<e[1], e[2]>> \in E
                BY <2>2
            <4>2. e[1] \in Sources(graph, e[2])
                BY <4>1 DEF Sources, Adjacent, E
            <4>3. Sources(graph, e[2]) \subseteq before
                BY <2>9, <3>1, <4>1, FreedBySources
            <4> QED  BY <2>9, <3>1, <4>2, <4>3
        <3>2. \A e \in E : e[2] \in Ids
            BY <2>1
        <3> QED  BY <3>1, <3>2 DEF Absorbs
    <2> HIDE DEF part
    <2> QED  BY <1>7, <2>1, <2>10, <2>11, ReachedSteps
<1> QED  BY <1>6, <1>7 DEF Cyclic

\* A graph that does not pass has a cycle, or an edge twice.
LEMMA RefusedGraphHasCycle ==
    ASSUME NEW graph \in Graph, Known(graph), IsFiniteSet(graph.nodes), IsInjective(graph.edges), ~Acyclic(graph)
    PROVE  Cyclic(graph)
<1> DEFINE E == ToSet(graph.edges)
           X == graph.nodes \ Processed(graph)
<1>1. PICK a \in [Nat -> SUBSET graph.nodes] :
          /\ Freed(graph, Processed(graph)) = Processed(graph)
          /\ Processed(graph) = a[Cardinality(graph.nodes)]
    BY RoundsOfLoop
<1>2. Processed(graph) \in SUBSET graph.nodes
    BY <1>1, FS_CardinalityType
<1>3. X \in SUBSET graph.nodes /\ X # {}
    <2>1. Processed(graph) # graph.nodes
        BY DEF Acyclic
    <2> QED  BY <1>2, <2>1
<1>4. E \in SUBSET (Ids \X Ids) /\ graph.nodes \subseteq Ids
    BY EdgesOfGraph
<1>5. ASSUME NEW x \in X PROVE \E p \in X : <<p, x>> \in E
    <2>1. x \in graph.nodes /\ x \notin Freed(graph, Processed(graph))
        BY <1>1
    <2>2. ASSUME NEW i \in EdgesTo(graph, x), NEW j \in EdgesTo(graph, x), graph.edges[i][1] = graph.edges[j][1]
          PROVE  i = j
        <3>1. i \in DOMAIN graph.edges /\ j \in DOMAIN graph.edges /\ graph.edges[i][2] = graph.edges[j][2]
            BY DEF EdgesTo
        <3>2. graph.edges[i] = graph.edges[j]
            BY <2>2, <3>1, EdgesOfGraph
        <3> QED  BY <3>1, <3>2 DEF IsInjective
    <2>3. Cardinality(Sources(graph, x)) = Degree(graph, x)
        BY <2>2, DegreeCountsSources
    <2>4. ~(Sources(graph, x) \subseteq Processed(graph))
        BY <1>2, <2>1, <2>3, FreedBySources
    <2> QED  BY <2>4 DEF Sources, Adjacent
<1> HIDE DEF E, X
<1>6. X \in SUBSET Ids /\ IsFiniteSet(X)
    BY <1>3, <1>4, FS_Subset
<1>7. \E x \in X : x \in Reached(E, Ids, x)
    BY <1>3, <1>4, <1>5, <1>6, KnotHasCycle
<1> QED  BY <1>6, <1>7 DEF Cyclic, E

(***************************************************************************)
(* The stores of graphs.                                                   *)
(***************************************************************************)

\* A graph that has passed the checks.
Passed(graph) == graph \in Graph /\ Known(graph) /\ Acyclic(graph)

\* Where a creator of a graph may stand, and what its rows are then: none before the
\* graph has its own, and edges only where all nodes are.
CreatorInv(w) ==
    LET c == writer[w]
        graph == c.graph
        creates == c.kind \in {"graph", "state_run"}
    IN  /\ c.at \in {"insert", "rows", "cyclic", "unknown"} => creates
        /\ c.at \in {"latest", "append"} => ~creates
        /\ creates => c.at # "idle"
        /\ creates /\ c.at \in {"insert", "rows", "done", "failed"} => Passed(graph)
        /\ c.at = "cyclic" => ~Acyclic(graph)
        /\ w \in DOMAIN graphs => creates /\ c.at \in {"rows", "done", "failed"}
        /\ w \notin DOMAIN graphs => nodeRows[w] = {} /\ edgeRows[w] = {}
        /\ w \in DOMAIN graphs =>
             /\ graphs[w] = Identity(graph)
             /\ nodeRows[w] \subseteq graph.nodes /\ edgeRows[w] \subseteq ToSet(graph.edges)
             /\ edgeRows[w] # {} => graph.nodes \subseteq nodeRows[w]
        /\ c.at = "rows" => w \in DOMAIN graphs
        /\ creates /\ c.at = "done" =>
             w \in DOMAIN graphs /\ graph.nodes \subseteq nodeRows[w] /\ ToSet(graph.edges) \subseteq edgeRows[w]

\* The graphs of the store are what their identities were computed from.
GraphsInv ==
    /\ DOMAIN nodeRows = Writers /\ DOMAIN edgeRows = Writers
    /\ \A w \in Writers : CreatorInv(w)

\* A step of one caller leaves the others' graphs alone.
LEMMA OthersKeepGraphs ==
    ASSUME NumbersInv, GraphsInv, NEW w \in Writers, CreatorInv(w)',
           DOMAIN nodeRows' = Writers, DOMAIN edgeRows' = Writers,
           \A v \in Writers : v # w =>
               /\ writer'[v] = writer[v] /\ nodeRows'[v] = nodeRows[v] /\ edgeRows'[v] = edgeRows[v]
               /\ v \in DOMAIN graphs' <=> v \in DOMAIN graphs
               /\ v \in DOMAIN graphs => graphs'[v] = graphs[v]
    PROVE  GraphsInv'
<1>1. ASSUME NEW v \in Writers, v # w PROVE CreatorInv(v)'
    <2>1. CreatorInv(v)
        BY DEF GraphsInv
    <2>2. /\ writer'[v] = writer[v] /\ nodeRows'[v] = nodeRows[v] /\ edgeRows'[v] = edgeRows[v]
          /\ v \in DOMAIN graphs' <=> v \in DOMAIN graphs
          /\ v \in DOMAIN graphs => graphs'[v] = graphs[v]
        BY <1>1
    <2> QED  BY <2>1, <2>2 DEF CreatorInv
<1> QED  BY <1>1 DEF GraphsInv

\* A caller that moves without touching graphs.
LEMMA MoveKeepsGraphs ==
    ASSUME NumbersInv, GraphsInv, NEW w \in Writers, NEW c \in Callers, writer' = [writer EXCEPT ![w] = c],
           UNCHANGED <<graphs, nodeRows, edgeRows>>, CreatorInv(w)'
    PROVE  GraphsInv'
<1>1. \A v \in Writers : v # w => writer'[v] = writer[v]
    BY DEF NumbersInv
<1>2. DOMAIN nodeRows' = Writers /\ DOMAIN edgeRows' = Writers
    BY DEF GraphsInv
<1> QED  BY <1>1, <1>2, OthersKeepGraphs

\* The caller of To.
LEMMA ToMoves ==
    ASSUME NumbersInv, NEW w \in Writers, NEW at, To(w, at)
    PROVE  /\ writer'[w].kind = writer[w].kind /\ writer'[w].graph = writer[w].graph /\ writer'[w].at = at
           /\ \A v \in Writers : v # w => writer'[v] = writer[v]
<1>1. writer[w] \in Callers /\ DOMAIN writer = Writers
    BY DEF NumbersInv
<1> DEFINE c == [writer[w] EXCEPT !.at = at]
<1>2. c.kind = writer[w].kind /\ c.graph = writer[w].graph /\ c.at = at
    BY <1>1 DEF Callers
<1>3. writer' = [writer EXCEPT ![w] = c]
    BY DEF To
<1> HIDE DEF c
<1> QED  BY <1>1, <1>2, <1>3

\* A caller that breaks off, or is done with something else than a graph.
LEMMA StopKeepsGraphs ==
    ASSUME NumbersInv, GraphsInv, NEW w \in Writers, NEW at \in {"done", "failed"}, To(w, at),
           at = "done" => writer[w].kind \notin {"graph", "state_run"},
           writer[w].at \in {"insert", "rows", "latest", "append"},
           UNCHANGED <<graphs, nodeRows, edgeRows>>
    PROVE  GraphsInv'
<1>1. /\ writer'[w].kind = writer[w].kind /\ writer'[w].graph = writer[w].graph /\ writer'[w].at = at
      /\ \A v \in Writers : v # w => writer'[v] = writer[v]
    BY ToMoves
<1>2. DOMAIN nodeRows' = Writers /\ DOMAIN edgeRows' = Writers
    BY DEF GraphsInv
<1>3. CreatorInv(w)
    BY DEF GraphsInv
<1>4. CreatorInv(w)'
    BY <1>1, <1>3 DEF CreatorInv
<1> QED  BY <1>1, <1>2, <1>4, OthersKeepGraphs

\* There are no graphs at first.
LEMMA GraphsStart == StoreInit => GraphsInv
<1> SUFFICES ASSUME StoreInit PROVE GraphsInv
    OBVIOUS
<1>1. DOMAIN graphs = {} /\ nodeRows = [w \in Writers |-> {}] /\ edgeRows = [w \in Writers |-> {}]
    BY DEF StoreInit
<1>2. \A w \in Writers : writer[w].kind = "none" /\ writer[w].at = "idle"
    BY DEF StoreInit, Idle
<1>3. ASSUME NEW w \in Writers PROVE CreatorInv(w)
    <2>1. w \notin DOMAIN graphs /\ nodeRows[w] = {} /\ edgeRows[w] = {}
        BY <1>1
    <2> QED  BY <1>2, <2>1 DEF CreatorInv
<1> QED  BY <1>1, <1>3 DEF GraphsInv

\* A graph of one node that has no edges passes the checks.
LEMMA OneRunPasses ==
    ASSUME NEW graph \in Graph, NEW id, graph.nodes = {id}, graph.edges = <<>>
    PROVE  Passed(graph)
<1>1. DOMAIN graph.edges = {}
    OBVIOUS
<1>2. Known(graph)
    BY <1>1 DEF Known
<1>3. IsFiniteSet(graph.nodes) /\ Cardinality(graph.nodes) = 1
    BY FS_Singleton
<1>4. PICK a \in [Nat -> SUBSET graph.nodes] :
          /\ a[0] = {} /\ \A k \in Nat : a[k] \subseteq a[k + 1] /\ a[k + 1] = Freed(graph, a[k])
          /\ Processed(graph) = a[Cardinality(graph.nodes)]
    BY <1>2, <1>3, RoundsOfLoop
<1>5. Processed(graph) = Freed(graph, a[0]) /\ a[0] \in SUBSET graph.nodes
    <2>1. a[0 + 1] = Freed(graph, a[0]) /\ a[0] \in SUBSET graph.nodes
        BY <1>4
    <2>2. Processed(graph) = a[0 + 1]
        BY <1>3, <1>4
    <2> QED  BY <2>1, <2>2
<1>6. Sources(graph, id) = {} /\ EdgesTo(graph, id) = {}
    BY <1>1 DEF Sources, EdgesTo, Adjacent, ToSet
<1>7. Cardinality(Sources(graph, id)) = Degree(graph, id)
    BY <1>6 DEF Degree, EdgesTo
<1>8. id \in Processed(graph)
    BY <1>2, <1>5, <1>6, <1>7, FreedBySources
<1>9. Processed(graph) = graph.nodes
    BY <1>5, <1>8 DEF Freed
<1> QED  BY <1>2, <1>9 DEF Passed, Acyclic

\* Every call leaves the stored graphs as they were checked.
LEMMA GraphsStep == NumbersInv /\ GraphsInv /\ [StoreNext]_storeVars => GraphsInv'
<1> SUFFICES ASSUME NumbersInv, GraphsInv, [StoreNext]_storeVars PROVE GraphsInv'
    OBVIOUS
<1>0. CASE UNCHANGED storeVars
    BY <1>0 DEF storeVars, GraphsInv, CreatorInv
<1>1. ASSUME NEW w \in Writers, CheckGraph(w) PROVE GraphsInv'
    <2>1. PICK graph \in Graph :
              writer' = [writer EXCEPT ![w] =
                [Idle EXCEPT !.kind = "graph", !.graph = graph,
                   !.at = CASE ~Acyclic(graph) -> "cyclic"
                            [] Acyclic(graph) /\ ~Known(graph) -> "unknown"
                            [] OTHER -> "insert"]]
        BY <1>1 DEF CheckGraph
    <2> DEFINE at == CASE ~Acyclic(graph) -> "cyclic"
                       [] Acyclic(graph) /\ ~Known(graph) -> "unknown"
                       [] OTHER -> "insert"
               c == [Idle EXCEPT !.kind = "graph", !.graph = graph, !.at = at]
    <2>2. /\ at \in {"cyclic", "unknown", "insert"} /\ (at = "cyclic" => ~Acyclic(graph))
          /\ at = "insert" => Acyclic(graph) /\ Known(graph)
        OBVIOUS
    <2> HIDE DEF at
    <2>3. c \in Callers /\ c.at = at /\ c.kind = "graph" /\ c.graph = graph
        BY <2>2, IdleIsACaller DEF Callers
    <2>4. writer' = [writer EXCEPT ![w] = c]
        BY <2>1 DEF at
    <2> HIDE DEF c
    <2>5. writer'[w] = c
        BY <2>4 DEF NumbersInv
    <2>6. UNCHANGED <<graphs, nodeRows, edgeRows>> /\ writer[w].at = "idle"
        BY <1>1 DEF CheckGraph
    <2>7. w \notin DOMAIN graphs /\ nodeRows[w] = {} /\ edgeRows[w] = {}
        BY <2>6 DEF GraphsInv, CreatorInv
    <2>8. CreatorInv(w)'
        BY <2>2, <2>3, <2>5, <2>6, <2>7 DEF CreatorInv, Passed
    <2> QED  BY <2>3, <2>4, <2>6, <2>8, MoveKeepsGraphs
<1>2. ASSUME NEW w \in Writers, StateRun(w) PROVE GraphsInv'
    <2>1. PICK id \in Ids :
              writer' = [writer EXCEPT ![w] =
                           [Idle EXCEPT !.kind = "state_run", !.at = "insert", !.graph.nodes = {id}]]
        BY <1>2 DEF StateRun
    <2> DEFINE graph == [Idle.graph EXCEPT !.nodes = {id}]
               c == [Idle EXCEPT !.kind = "state_run", !.at = "insert", !.graph = graph]
    <2>2. graph \in Graph /\ graph.nodes = {id} /\ graph.edges = <<>>
        BY IdleIsACaller DEF Callers, Graph, Idle, NoGraph
    <2>3. c = [Idle EXCEPT !.kind = "state_run", !.at = "insert", !.graph.nodes = {id}]
        BY IdleIsACaller DEF Callers
    <2> HIDE DEF graph
    <2>4. c \in Callers /\ c.at = "insert" /\ c.kind = "state_run" /\ c.graph = graph
        BY <2>2, IdleIsACaller DEF Callers
    <2> HIDE DEF c
    <2>5. writer' = [writer EXCEPT ![w] = c] /\ UNCHANGED <<graphs, nodeRows, edgeRows>> /\ writer[w].at = "idle"
        BY <1>2, <2>1, <2>3 DEF StateRun
    <2>6. writer'[w] = c
        BY <2>5 DEF NumbersInv
    <2>7. w \notin DOMAIN graphs /\ nodeRows[w] = {} /\ edgeRows[w] = {}
        BY <2>5 DEF GraphsInv, CreatorInv
    <2>8. Passed(graph)
        BY <2>2, OneRunPasses
    <2>9. CreatorInv(w)'
        BY <2>4, <2>5, <2>6, <2>7, <2>8 DEF CreatorInv
    <2> QED  BY <2>4, <2>5, <2>9, MoveKeepsGraphs
<1>3. ASSUME NEW w \in Writers, InsertGraph(w) PROVE GraphsInv'
    <2>1. writer[w].at = "insert" /\ To(w, "rows") /\ UNCHANGED <<nodeRows, edgeRows>>
        BY <1>3 DEF InsertGraph
    <2>2. /\ writer'[w].kind = writer[w].kind /\ writer'[w].graph = writer[w].graph /\ writer'[w].at = "rows"
          /\ \A v \in Writers : v # w => writer'[v] = writer[v]
        BY <2>1, ToMoves
    <2>3. CreatorInv(w)
        BY DEF GraphsInv
    <2>4. graphs' = [g \in DOMAIN graphs \cup {w} |-> IF g = w THEN Identity(writer[w].graph) ELSE graphs[g]]
        BY <1>3 DEF InsertGraph
    <2>5. /\ w \in DOMAIN graphs' /\ graphs'[w] = Identity(writer[w].graph)
          /\ \A v : v # w => (v \in DOMAIN graphs' <=> v \in DOMAIN graphs) /\ (v \in DOMAIN graphs => graphs'[v] = graphs[v])
        BY <2>4
    <2>6. nodeRows[w] = {} /\ edgeRows[w] = {} /\ Passed(writer[w].graph) /\ writer[w].kind \in {"graph", "state_run"}
        BY <2>1, <2>3 DEF CreatorInv
    <2>7. CreatorInv(w)'
        BY <2>1, <2>2, <2>5, <2>6 DEF CreatorInv
    <2> QED  BY <2>1, <2>2, <2>5, <2>7, OthersKeepGraphs DEF GraphsInv
<1>4. ASSUME NEW w \in Writers, InsertNode(w) PROVE GraphsInv'
    <2>1. PICK id \in writer[w].graph.nodes \ nodeRows[w] :
              IF id \in AgentRuns
              THEN nodeRows' = [nodeRows EXCEPT ![w] = @ \cup {id}] /\ UNCHANGED writer
              ELSE To(w, "failed") /\ UNCHANGED nodeRows
        BY <1>4 DEF InsertNode
    <2>2. writer[w].at = "rows" /\ UNCHANGED <<graphs, edgeRows>>
        BY <1>4 DEF InsertNode
    <2>3. CASE id \in AgentRuns
        <3>1. UNCHANGED writer /\ nodeRows'[w] = nodeRows[w] \cup {id} /\ DOMAIN nodeRows' = Writers
              /\ \A v \in Writers : v # w => nodeRows'[v] = nodeRows[v]
            BY <2>1, <2>3 DEF GraphsInv
        <3>2. CreatorInv(w)
            BY DEF GraphsInv
        <3>3. w \in DOMAIN graphs
            BY <2>2, <3>2 DEF CreatorInv
        <3>4. CreatorInv(w)'
            BY <2>1, <2>2, <3>1, <3>2, <3>3 DEF CreatorInv
        <3> QED  BY <2>2, <3>1, <3>4, OthersKeepGraphs DEF GraphsInv
    <2>4. CASE id \notin AgentRuns
        BY <2>1, <2>2, <2>4, StopKeepsGraphs
    <2> QED  BY <2>3, <2>4
<1>5. ASSUME NEW w \in Writers, InsertEdge(w) PROVE GraphsInv'
    <2>1. PICK e \in ToSet(writer[w].graph.edges) : edgeRows' = [edgeRows EXCEPT ![w] = @ \cup {e}]
        BY <1>5 DEF InsertEdge
    <2>2. writer[w].at = "rows" /\ UNCHANGED <<graphs, nodeRows, writer>> /\ writer[w].graph.nodes \subseteq nodeRows[w]
        BY <1>5 DEF InsertEdge
    <2>3. /\ edgeRows'[w] = edgeRows[w] \cup {e} /\ DOMAIN edgeRows' = Writers
          /\ \A v \in Writers : v # w => edgeRows'[v] = edgeRows[v]
        BY <2>1 DEF GraphsInv
    <2>4. CreatorInv(w)
        BY DEF GraphsInv
    <2>5. w \in DOMAIN graphs
        BY <2>2, <2>4 DEF CreatorInv
    <2>6. CreatorInv(w)'
        BY <2>1, <2>2, <2>3, <2>4, <2>5 DEF CreatorInv
    <2> QED  BY <2>2, <2>3, <2>6, OthersKeepGraphs DEF GraphsInv
<1>6. ASSUME NEW w \in Writers, GraphDone(w) PROVE GraphsInv'
    <2>1. /\ writer[w].at = "rows" /\ To(w, "done") /\ UNCHANGED <<graphs, nodeRows, edgeRows>>
          /\ writer[w].graph.nodes \subseteq nodeRows[w] /\ ToSet(writer[w].graph.edges) \subseteq edgeRows[w]
        BY <1>6 DEF GraphDone
    <2>2. /\ writer'[w].kind = writer[w].kind /\ writer'[w].graph = writer[w].graph /\ writer'[w].at = "done"
          /\ \A v \in Writers : v # w => writer'[v] = writer[v]
        BY <2>1, ToMoves
    <2>3. CreatorInv(w)
        BY DEF GraphsInv
    <2>4. CreatorInv(w)'
        BY <2>1, <2>2, <2>3 DEF CreatorInv
    <2> QED  BY <2>1, <2>2, <2>4, OthersKeepGraphs DEF GraphsInv
<1>7. ASSUME NEW w \in Writers, NEW c \in Callers, writer[w].at \in {"idle", "latest", "append", "done", "failed"},
             writer[w].kind \notin {"graph", "state_run"}, c.kind \notin {"graph", "state_run"},
             c.at \in {"idle", "latest", "append", "done", "failed"},
             writer' = [writer EXCEPT ![w] = c], UNCHANGED <<graphs, nodeRows, edgeRows>>
      PROVE  GraphsInv'
    <2>1. CreatorInv(w)
        BY DEF GraphsInv
    <2>2. writer'[w] = c
        BY <1>7 DEF NumbersInv
    <2>3. CreatorInv(w)'
        BY <1>7, <2>1, <2>2 DEF CreatorInv
    <2> QED  BY <1>7, <2>3, MoveKeepsGraphs
<1>8. ASSUME NEW w \in Writers, ReadParent(w) \/ ReadSequence(w) PROVE GraphsInv'
    <2>1. CreatorInv(w) /\ writer[w].at = "idle" /\ UNCHANGED <<graphs, nodeRows, edgeRows>>
        BY <1>8 DEF GraphsInv, ReadParent, ReadSequence
    <2>2. writer[w].kind \notin {"graph", "state_run"}
        BY <2>1 DEF CreatorInv
    <2>3. PICK c : writer' = [writer EXCEPT ![w] = c] /\ c.kind \in {"revision", "event"} /\ c.at \in {"latest", "append", "failed"}
        <3>1. CASE ReadParent(w)
            <4>1. PICK g, parent :
                      writer' = [writer EXCEPT ![w] =
                        [Idle EXCEPT !.kind = "revision", !.of = g, !.parent = parent,
                           !.at = IF parent = 0 \/ \E r \in revisions : r.graph = g /\ r.number = parent
                                  THEN "latest" ELSE "failed"]]
                BY <3>1, Zenon DEF ReadParent
            <4> DEFINE at == IF parent = 0 \/ \E r \in revisions : r.graph = g /\ r.number = parent
                             THEN "latest" ELSE "failed"
                       c == [Idle EXCEPT !.kind = "revision", !.of = g, !.parent = parent, !.at = at]
            <4>a. at \in {"latest", "failed"}
                OBVIOUS
            <4> HIDE DEF at
            <4>2. writer' = [writer EXCEPT ![w] = c] /\ c.kind = "revision" /\ c.at = at
                BY <4>1 DEF Idle, at
            <4> HIDE DEF c
            <4> QED  BY <4>a, <4>2
        <3>2. CASE ReadSequence(w)
            <4>1. PICK g : writer' = [writer EXCEPT ![w] = [Idle EXCEPT !.kind = "event", !.at = "append", !.of = g,
                                                             !.next = NextNumber(events, g)]]
                BY <3>2 DEF ReadSequence
            <4> DEFINE next == NextNumber(events, g)
                       c == [Idle EXCEPT !.kind = "event", !.at = "append", !.of = g, !.next = next]
            <4> HIDE DEF next
            <4>2. writer' = [writer EXCEPT ![w] = c] /\ c.kind = "event" /\ c.at = "append"
                BY <4>1 DEF Idle, next
            <4> HIDE DEF c
            <4> QED  BY <4>2
        <3> QED  BY <1>8, <3>1, <3>2
    <2>4. c \in Callers
        <3>1. NumbersInv'
            BY NumbersStep
        <3>2. writer'[w] = c
            BY <2>3 DEF NumbersInv
        <3> QED  BY <3>1, <3>2 DEF NumbersInv
    <2> QED  BY <1>7, <2>1, <2>2, <2>3, <2>4
<1>9. ASSUME NEW w \in Writers, ReadLatest(w) PROVE GraphsInv'
    <2>1. CreatorInv(w) /\ writer[w].at = "latest" /\ UNCHANGED <<graphs, nodeRows, edgeRows>> /\ writer[w] \in Callers
        BY <1>9 DEF GraphsInv, ReadLatest, NumbersInv
    <2>2. writer[w].kind \notin {"graph", "state_run"}
        BY <2>1 DEF CreatorInv
    <2> DEFINE next == NextNumber(revisions, writer[w].of)
               c == [writer[w] EXCEPT !.at = "append", !.next = next]
    <2>3. writer' = [writer EXCEPT ![w] = c]
        BY <1>9 DEF ReadLatest, NumbersInv
    <2> HIDE DEF next
    <2>4. c.kind = writer[w].kind /\ c.at = "append"
        BY <2>1 DEF Callers
    <2> HIDE DEF c
    <2>5. c \in Callers
        <3>1. NumbersInv'
            BY NumbersStep
        <3>2. writer'[w] = c
            BY <2>3 DEF NumbersInv
        <3> QED  BY <3>1, <3>2 DEF NumbersInv
    <2> QED  BY <1>7, <2>1, <2>2, <2>3, <2>4, <2>5
<1>10. ASSUME NEW w \in Writers, AppendRow(w) PROVE GraphsInv'
    <2>1. CreatorInv(w) /\ writer[w].at = "append" /\ UNCHANGED <<graphs, nodeRows, edgeRows>>
        BY <1>10 DEF GraphsInv, AppendRow
    <2>2. writer[w].kind \notin {"graph", "state_run"}
        BY <2>1 DEF CreatorInv
    <2>3. To(w, "done") \/ To(w, "failed")
        BY <1>10 DEF AppendRow
    <2> QED  BY <2>1, <2>2, <2>3, StopKeepsGraphs
<1>11. ASSUME NEW w \in Writers, BreakOff(w) PROVE GraphsInv'
    BY <1>11, StopKeepsGraphs DEF BreakOff
<1>12. ASSUME NEW w \in Writers, Again(w) PROVE GraphsInv'
    <2>1. /\ writer' = [writer EXCEPT ![w] = Idle] /\ UNCHANGED <<graphs, nodeRows, edgeRows>>
          /\ writer[w].at \in {"done", "failed"} /\ writer[w].kind \in {"revision", "event"}
        BY <1>12 DEF Again
    <2> QED  BY <1>7, <2>1, IdleIsACaller DEF Idle
<1> QED
    BY <1>0, <1>1, <1>2, <1>3, <1>4, <1>5, <1>6, <1>8, <1>9, <1>10, <1>11, <1>12 DEF StoreNext

\* A graph and its edges, as a record.
LEMMA GraphIsItsParts ==
    ASSUME NEW graph \in Graph
    PROVE  graph = [nodes |-> graph.nodes, edges |-> graph.edges]
BY DEF Graph

\* Edges that are not there twice are as many as their set has.
LEMMA EdgesCounted ==
    ASSUME NEW graph \in Graph, IsInjective(graph.edges)
    PROVE  graph.edges \in [1..Cardinality(ToSet(graph.edges)) -> ToSet(graph.edges)]
<1>1. PICK n \in 0..MaxEdges : graph.edges \in [1..n -> Edges]
    BY DEF Graph
<1>2. n \in Nat
    BY ExecutionGraphsAssumption
<1> DEFINE s == graph.edges
           T == ToSet(s)
<1>3. s \in [1..n -> T]
    BY <1>1 DEF ToSet
<1>4. s \in Bijection(1..n, T)
    BY <1>1, <1>3 DEF Bijection, Injection, Surjection, ToSet
<1> HIDE DEF s, T
<1>5. ExistsBijection(1..n, T)
    BY <1>4 DEF ExistsBijection
<1>6. Cardinality(T) = n
    BY <1>2, <1>5, FS_CountingElements
<1> QED  BY <1>3, <1>6 DEF s, T

\* What the stores of graphs, revisions and traces hold is what it says, for every
\* set of runs that is finite: a stored graph has no cycle and no edge twice, its rows
\* are those its identity was computed from, and a graph refused for its cycles has one
\* or was no graph (graph-identity.ts, graph-store.ts).
THEOREM GraphStoresAlwaysHold == StoreSpec => []GraphStoresHold
<1>1. ASSUME NumbersInv, GraphsInv PROVE GraphsAreWhatTheyAre
    <2> SUFFICES ASSUME NEW w \in Writers
                 PROVE  LET graph == writer[w].graph
                        IN  /\ w \in DOMAIN graphs =>
                                  /\ ~Cyclic(graph) /\ nodeRows[w] \subseteq graph.nodes
                                  /\ edgeRows[w] \subseteq nodeRows[w] \X nodeRows[w]
                            /\ writer[w].kind = "graph" /\ writer[w].at = "done" =>
                                  \E order \in [1..Cardinality(edgeRows[w]) -> edgeRows[w]] :
                                      ToSet(order) = edgeRows[w] /\ Identity([nodes |-> nodeRows[w], edges |-> order]) = graphs[w]
                            /\ writer[w].at = "cyclic" =>
                                  \/ Cyclic(graph) \/ ~IsInjective(graph.edges) \/ ~Known(graph)
        BY DEF GraphsAreWhatTheyAre
    <2> DEFINE graph == writer[w].graph
    <2>1. graph \in Graph
        BY <1>1 DEF NumbersInv, Callers
    <2>2. IsFiniteSet(graph.nodes)
        BY <2>1, FS_Subset, ExecutionGraphsAssumption DEF Graph
    <2>3. CreatorInv(w)
        BY <1>1 DEF GraphsInv
    <2>4. Passed(graph) => IsInjective(graph.edges) /\ ~Cyclic(graph)
        <3> HIDE DEF graph
        <3> QED  BY <2>1, <2>2, PassedGraphHasNoCycle DEF Passed
    <2>5. ASSUME w \in DOMAIN graphs
          PROVE  /\ ~Cyclic(graph) /\ nodeRows[w] \subseteq graph.nodes
                 /\ edgeRows[w] \subseteq nodeRows[w] \X nodeRows[w]
        <3>1. /\ Passed(graph) /\ nodeRows[w] \subseteq graph.nodes /\ edgeRows[w] \subseteq ToSet(graph.edges)
              /\ edgeRows[w] # {} => graph.nodes \subseteq nodeRows[w]
            BY <2>3, <2>5 DEF CreatorInv
        <3> HIDE DEF graph
        <3>2. ToSet(graph.edges) \subseteq graph.nodes \X graph.nodes
            <4>1. \A i \in DOMAIN graph.edges :
                     /\ graph.edges[i] = <<graph.edges[i][1], graph.edges[i][2]>>
                     /\ graph.edges[i][1] \in graph.nodes /\ graph.edges[i][2] \in graph.nodes
                BY <2>1, <3>1, EdgesOfGraph, EdgesBetweenNodes DEF Passed
            <4> QED  BY <4>1 DEF ToSet
        <3> QED  BY <2>4, <3>1, <3>2
    <2>6. ASSUME writer[w].kind = "graph", writer[w].at = "done"
          PROVE  \E order \in [1..Cardinality(edgeRows[w]) -> edgeRows[w]] :
                     ToSet(order) = edgeRows[w] /\ Identity([nodes |-> nodeRows[w], edges |-> order]) = graphs[w]
        <3>1. /\ Passed(graph) /\ graphs[w] = Identity(graph)
              /\ nodeRows[w] = graph.nodes /\ edgeRows[w] = ToSet(graph.edges)
            BY <2>3, <2>6 DEF CreatorInv
        <3> HIDE DEF graph
        <3>2. graph.edges \in [1..Cardinality(edgeRows[w]) -> edgeRows[w]]
            BY <2>1, <2>4, <3>1, EdgesCounted
        <3>3. graph = [nodes |-> nodeRows[w], edges |-> graph.edges]
            BY <2>1, <3>1, GraphIsItsParts
        <3> QED  BY <3>1, <3>2, <3>3
    <2>7. ASSUME writer[w].at = "cyclic", Known(graph), IsInjective(graph.edges) PROVE Cyclic(graph)
        <3>1. ~Acyclic(graph)
            BY <2>3, <2>7 DEF CreatorInv
        <3> HIDE DEF graph
        <3> QED  BY <2>1, <2>2, <2>7, <3>1, RefusedGraphHasCycle
    <2> QED  BY <2>5, <2>6, <2>7
<1>2. NumbersInv => NumbersHaveNoGaps
    BY DEF NumbersInv, Gapless, NumbersHaveNoGaps, GraphOf
<1>3. NumbersInv /\ GraphsInv => GraphStoresHold
    BY <1>1, <1>2 DEF GraphStoresHold
<1> QED  BY <1>3, NumbersStart, NumbersStep, GraphsStart, GraphsStep, PTL DEF StoreSpec

(***************************************************************************)
(* The search for cycles.                                                  *)
(***************************************************************************)

Frames == [file : Files, left : Seq(Files)]

\* A reported cycle has both files.
Told(report, f, t) == \E i \in DOMAIN report : f \in ToSet(report[i]) /\ t \in ToSet(report[i])

\* The stack is a path of imports without repetitions; an import of a file on it is
\* still to come, or was followed: to a file that was left, to the next on the stack,
\* or to one before it, and then a cycle has both.
StackInv ==
    /\ stack \in Seq(Frames) /\ visited \subseteq Files
    /\ \A i, j \in 1..Len(stack) : i # j => stack[i].file # stack[j].file
    /\ \A i \in 1..Len(stack) :
         LET f == stack[i].file
         IN  /\ f \notin visited
             /\ \A t \in ToSet(stack[i].left) : <<f, t>> \in edges
             /\ i < Len(stack) => <<f, stack[i + 1].file>> \in edges
             /\ \A t \in Files : <<f, t>> \in edges =>
                  \/ t \in ToSet(stack[i].left) \/ t \in visited \/ Told(cycles, f, t)
                  \/ i < Len(stack) /\ t = stack[i + 1].file

\* Files that import each other in turn, none of them twice; and such a cycle told
\* from its least file.
Around(c) ==
    /\ c \in Seq(Files) /\ c # <<>>
    /\ \A k \in 1..Len(c) : <<c[k], Successor(c, k)>> \in edges
    /\ \A k, l \in 1..Len(c) : k # l => c[k] # c[l]
IsCycle(c) == Around(c) /\ \A k \in 1..Len(c) : c[1] <= c[k]

ReportInv ==
    /\ cycles \in Seq(Seq(Files))
    /\ \A i \in 1..Len(cycles) : IsCycle(cycles[i])
    /\ \A i, j \in 1..Len(cycles) : i # j => cycles[i] # cycles[j]

\* f and g lead to each other.
Mutual(f, g) == g \in Reached(edges, Files, f) /\ f \in Reached(edges, Files, g)

\* A file that was left and leads back to itself has its cycle in the report.
KnotsInv ==
    \A f \in visited : f \in Reached(edges, Files, f) =>
        \E i \in 1..Len(cycles) : \A g \in ToSet(cycles[i]) : Mutual(f, g)

SearchInv ==
    /\ edges \subseteq Files \X Files /\ import \in {NoImport} \cup AllImports
    /\ StackInv /\ ReportInv /\ KnotsInv

\* The remainder of what is less than twice the divisor.
LEMMA Wrap ==
    ASSUME NEW n \in Nat, n # 0, NEW m \in Nat, m < n + n
    PROVE  m % n = IF m < n THEN m ELSE m - n
OBVIOUS

\* The next place of a sequence, and the one that a rotation takes a place from.
LEMMA PlacesAround ==
    ASSUME NEW n \in Nat, n # 0
    PROVE  /\ \A k \in 1..n : (k % n) + 1 = IF k = n THEN 1 ELSE k + 1
           /\ \A i, k \in 1..n : ((i + k - 2) % n) + 1 = IF i + k - 1 <= n THEN i + k - 1 ELSE i + k - 1 - n
<1>1. ASSUME NEW k \in 1..n PROVE (k % n) + 1 = IF k = n THEN 1 ELSE k + 1
    <2>1. k \in Nat /\ k < n + n
        OBVIOUS
    <2>2. k % n = IF k < n THEN k ELSE k - n
        BY <2>1, Wrap
    <2> QED  BY <2>1, <2>2
<1>2. ASSUME NEW i \in 1..n, NEW k \in 1..n
      PROVE  ((i + k - 2) % n) + 1 = IF i + k - 1 <= n THEN i + k - 1 ELSE i + k - 1 - n
    <2> DEFINE m == i + k - 2
    <2>1. m \in Nat /\ m < n + n /\ i + k - 1 = m + 1
        OBVIOUS
    <2> HIDE DEF m
    <2>2. m % n = IF m < n THEN m ELSE m - n
        BY <2>1, Wrap
    <2>3. (m % n) + 1 = IF m + 1 <= n THEN m + 1 ELSE m + 1 - n
        BY <2>1, <2>2
    <2> QED  BY <2>1, <2>3 DEF m
<1> QED  BY <1>1, <1>2

\* A cycle has a place, and each place the next one, the first after the last.
LEMMA NextAround ==
    ASSUME NEW c, Around(c)
    PROVE  /\ Len(c) \in Nat /\ Len(c) # 0 /\ DOMAIN c = 1..Len(c)
           /\ \A k \in 1..Len(c) : c[k] \in Files
           /\ \A k \in 1..Len(c) : Successor(c, k) = IF k = Len(c) THEN c[1] ELSE c[k + 1]
<1>1. c \in Seq(Files) /\ c # <<>>
    BY DEF Around
<1>2. Len(c) \in Nat /\ Len(c) # 0 /\ DOMAIN c = 1..Len(c) /\ \A k \in 1..Len(c) : c[k] \in Files
    BY <1>1, LenProperties, EmptySeq
<1> DEFINE n == Len(c)
<1>3. n \in Nat /\ n # 0
    BY <1>2
<1>4. ASSUME NEW k \in 1..n PROVE Successor(c, k) = IF k = n THEN c[1] ELSE c[k + 1]
    <2>1. Successor(c, k) = c[(k % n) + 1]
        BY DEF Successor
    <2> HIDE DEF n
    <2>2. (k % n) + 1 = IF k = n THEN 1 ELSE k + 1
        BY <1>3, PlacesAround
    <2> QED  BY <2>1, <2>2
<1> QED  BY <1>2, <1>4

\* Turning a cycle gives a cycle of the same files, from another one of them.
LEMMA TurnedAround ==
    ASSUME NEW s, Around(s), NEW k \in 1..Len(s)
    PROVE  /\ Around(Rotate(s, k)) /\ Rotate(s, k)[1] = s[k]
           /\ Len(Rotate(s, k)) = Len(s) /\ ToSet(Rotate(s, k)) = ToSet(s)
<1> DEFINE n == Len(s)
           r == Rotate(s, k)
           from(i) == IF i + k - 1 <= n THEN i + k - 1 ELSE i + k - 1 - n
<1>1. /\ n \in Nat /\ n # 0 /\ DOMAIN s = 1..n /\ \A i \in 1..n : s[i] \in Files
      /\ \A i \in 1..n : Successor(s, i) = IF i = n THEN s[1] ELSE s[i + 1]
    BY NextAround
<1>2. r = [i \in 1..n |-> s[((i + k - 2) % n) + 1]]
    BY <1>1 DEF Rotate
<1>3. k \in 1..n
    OBVIOUS
<1> HIDE DEF n, r
<1>4. \A i \in 1..n : ((i + k - 2) % n) + 1 = from(i)
    BY <1>1, <1>3, PlacesAround
<1>5. r = [i \in 1..n |-> s[from(i)]]
    BY <1>2, <1>4, Zenon
<1>6. /\ \A i \in 1..n : from(i) \in 1..n
      /\ \A i, j \in 1..n : i # j => from(i) # from(j)
      /\ from(1) = k
      /\ \A i \in 1..n : from(IF i = n THEN 1 ELSE i + 1) = IF from(i) = n THEN 1 ELSE from(i) + 1
      /\ \A j \in 1..n : \E i \in 1..n : from(i) = j
    <2>1. \A i \in 1..n : from(i) \in 1..n
        BY <1>1, <1>3
    <2>2. \A i, j \in 1..n : i # j => from(i) # from(j)
        BY <1>1, <1>3
    <2>3. from(1) = k
        BY <1>1, <1>3
    <2>4. \A i \in 1..n : from(IF i = n THEN 1 ELSE i + 1) = IF from(i) = n THEN 1 ELSE from(i) + 1
        BY <1>1, <1>3
    <2>5. ASSUME NEW j \in 1..n PROVE \E i \in 1..n : from(i) = j
        <3> DEFINE i == IF j >= k THEN j - k + 1 ELSE j - k + 1 + n
        <3>1. i \in 1..n /\ from(i) = j
            BY <1>1, <1>3
        <3> QED  BY <3>1
    <2> QED  BY <2>1, <2>2, <2>3, <2>4, <2>5
<1> HIDE DEF from
<1>7. \A i \in 1..n : r[i] = s[from(i)] /\ r[i] \in Files
    BY <1>1, <1>5, <1>6
<1>8. r \in Seq(Files) /\ Len(r) = n /\ DOMAIN r = 1..n /\ r # <<>>
    <2>1. r \in [1..n -> Files]
        BY <1>5, <1>7
    <2>2. r \in Seq(Files) /\ Len(r) = n /\ DOMAIN r = 1..n
        BY <1>1, <2>1
    <2> QED  BY <1>1, <2>2, EmptySeq
<1>9. 1 \in 1..n
    BY <1>1
<1>10. ASSUME NEW i \in 1..n PROVE <<r[i], Successor(r, i)>> \in edges
    <2> DEFINE next == IF i = n THEN 1 ELSE i + 1
    <2>1. next \in 1..n
        BY <1>1
    <2>2. (i % n) + 1 = next
        BY <1>1, PlacesAround
    <2>3. Successor(r, i) = r[next]
        BY <1>8, <2>2 DEF Successor
    <2>4. r[next] = s[from(next)]
        BY <1>7, <2>1
    <2>5. from(next) = IF from(i) = n THEN 1 ELSE from(i) + 1
        BY <1>6
    <2> HIDE DEF next
    <2>6. s[from(next)] = Successor(s, from(i)) /\ from(i) \in 1..n
        BY <1>1, <1>6, <2>5
    <2>7. <<s[from(i)], Successor(s, from(i))>> \in edges
        BY <2>6 DEF Around, n
    <2> QED  BY <1>7, <2>3, <2>4, <2>6, <2>7
<1>11. ASSUME NEW i \in 1..n, NEW j \in 1..n, i # j PROVE r[i] # r[j]
    <2>1. from(i) \in 1..n /\ from(j) \in 1..n /\ from(i) # from(j)
        BY <1>6, <1>11
    <2>2. s[from(i)] # s[from(j)]
        BY <2>1 DEF Around, n
    <2> QED  BY <1>7, <2>2
<1>12. Around(r)
    BY <1>8, <1>10, <1>11 DEF Around
<1>13. ToSet(r) = ToSet(s)
    <2>1. ASSUME NEW x \in ToSet(r) PROVE x \in ToSet(s)
        <3>1. PICK i \in 1..n : x = r[i]
            BY <1>8 DEF ToSet
        <3> QED  BY <1>1, <1>6, <1>7, <3>1 DEF ToSet
    <2>2. ASSUME NEW x \in ToSet(s) PROVE x \in ToSet(r)
        <3>1. PICK j \in 1..n : x = s[j]
            BY <1>1 DEF ToSet
        <3>2. PICK i \in 1..n : from(i) = j
            BY <1>6
        <3> QED  BY <1>7, <1>8, <3>1, <3>2 DEF ToSet
    <2> QED  BY <2>1, <2>2
<1>14. r[1] = s[k]
    BY <1>6, <1>7, <1>9
<1> QED  BY <1>8, <1>12, <1>13, <1>14 DEF r, n

\* canonicalizeCycle tells the cycle from its least file.
LEMMA CanonicalIsACycle ==
    ASSUME NEW s, Around(s)
    PROVE  IsCycle(Canonical(s)) /\ ToSet(Canonical(s)) = ToSet(s)
<1> DEFINE P(k) == \A j \in DOMAIN s : s[k] <= s[j]
           least == CHOOSE k \in DOMAIN s : P(k)
<1>1. DOMAIN s = 1..Len(s) /\ Len(s) \in Nat /\ Len(s) # 0 /\ \A k \in 1..Len(s) : s[k] \in Files
    BY NextAround
<1>2. Files \subseteq Nat
    BY ProjectGraphAssumption
<1>3. \E k \in DOMAIN s : P(k)
    <2> DEFINE T == {s[k] : k \in DOMAIN s}
    <2>a. 1 \in DOMAIN s
        <3>1. 1 \in 1..Len(s)
            BY <1>1
        <3> QED  BY <1>1, <3>1, Zenon
    <2>b. ASSUME NEW k \in DOMAIN s PROVE s[k] \in Nat
        <3>1. k \in 1..Len(s)
            BY <1>1, Zenon
        <3> QED  BY <1>1, <1>2, <3>1, Zenon
    <2>1. T \in SUBSET Nat /\ T # {}
        BY <2>a, <2>b
    <2> HIDE DEF T
    <2>2. PICK x \in T : \A y \in T : x <= y
        BY <2>1, LeastNumber
    <2> QED  BY <2>2 DEF T
<1>4. least \in DOMAIN s /\ P(least)
    <2> HIDE DEF P
    <2> QED  BY <1>3
<1>5. Canonical(s) = Rotate(s, least)
    BY DEF Canonical
<1> HIDE DEF least
<1> DEFINE r == Rotate(s, least)
<1>6. Around(r) /\ r[1] = s[least] /\ Len(r) = Len(s) /\ ToSet(r) = ToSet(s)
    BY <1>1, <1>4, TurnedAround
<1> HIDE DEF r
<1>7. ASSUME NEW k \in 1..Len(r) PROVE r[1] <= r[k]
    <2>1. r[k] \in ToSet(s)
        BY <1>6, NextAround DEF ToSet
    <2> QED  BY <1>4, <1>6, <2>1 DEF ToSet
<1> QED  BY <1>5, <1>6, <1>7 DEF IsCycle, r

\* The files of a cycle lead to each other.
LEMMA AroundIsMutual ==
    ASSUME edges \subseteq Files \X Files, NEW c, Around(c), NEW f \in ToSet(c), NEW g \in ToSet(c)
    PROVE  g \in Reached(edges, Files, f)
<1> DEFINE n == Len(c)
<1>1. /\ n \in Nat /\ n # 0 /\ DOMAIN c = 1..n /\ \A k \in 1..n : c[k] \in Files
      /\ \A k \in 1..n : Successor(c, k) = IF k = n THEN c[1] ELSE c[k + 1]
    BY NextAround
<1>2. \A k \in 1..n : <<c[k], IF k = n THEN c[1] ELSE c[k + 1]>> \in edges
    BY <1>1 DEF Around
<1> HIDE DEF n
<1>3. PICK k \in 1..n : c[k] = f
    BY <1>1 DEF ToSet
<1>4. PICK l \in 1..n : c[l] = g
    BY <1>1 DEF ToSet
<1>5. ASSUME NEW part \in SUBSET Files, Absorbs(part, edges, f) PROVE g \in part
    <2>1. \A i \in 1..n : i < n /\ (c[i] \in part \/ i = k) => c[i + 1] \in part
        <3>1. ASSUME NEW i \in 1..n, i < n, c[i] \in part \/ i = k PROVE c[i + 1] \in part
            <4>1. <<c[i], c[i + 1]>> \in edges
                BY <1>1, <1>2, <3>1
            <4>2. c[i] \in part \cup {f}
                BY <1>3, <3>1
            <4> QED  BY <1>5, <4>1, <4>2 DEF Absorbs
        <3> QED  BY <3>1
    <2>2. c[n] \in part \/ n = k => c[1] \in part
        <3>1. n \in 1..n
            BY <1>1
        <3>2. <<c[n], c[1]>> \in edges
            BY <1>2, <3>1
        <3> QED  BY <1>3, <1>5, <3>2 DEF Absorbs
    <2>3. c[1] \in part
        <3> DEFINE T == {m \in Nat : k + m <= n => c[k + m] \in part \/ m = 0}
        <3>1. T \in SUBSET Nat /\ 0 \in T
            OBVIOUS
        <3>2. ASSUME NEW m \in T PROVE m + 1 \in T
            <4>1. m \in Nat /\ m + 1 \in Nat /\ (k + m <= n => c[k + m] \in part \/ m = 0)
                OBVIOUS
            <4>2. ASSUME k + (m + 1) <= n PROVE c[k + (m + 1)] \in part
                <5>1. k + m \in 1..n /\ k + m < n /\ (k + m) + 1 = k + (m + 1) /\ k + m <= n /\ (m = 0 => k + m = k)
                    BY <1>1, <4>1, <4>2
                <5>2. c[(k + m) + 1] \in part
                    BY <2>1, <4>1, <5>1
                <5> QED  BY <5>1, <5>2
            <4> QED  BY <4>1, <4>2
        <3>3. \A m \in Nat : m \in T
            <4> HIDE DEF T
            <4> QED  BY <3>1, <3>2, Counting
        <3>4. n - k \in Nat /\ k + (n - k) = n /\ n <= n /\ (n - k = 0 => n = k)
            BY <1>1
        <3>5. n - k \in T
            BY <3>3, <3>4
        <3>6. c[n] \in part \/ n = k
            BY <3>4, <3>5
        <3> QED  BY <2>2, <3>6
    <2>4. c[l] \in part
        <3> DEFINE T == {m \in Nat : m + 1 <= n => c[m + 1] \in part}
        <3>1. T \in SUBSET Nat /\ 0 \in T
            BY <2>3
        <3>2. ASSUME NEW m \in T PROVE m + 1 \in T
            <4>1. m \in Nat /\ m + 1 \in Nat /\ (m + 1 <= n => c[m + 1] \in part)
                OBVIOUS
            <4>2. ASSUME (m + 1) + 1 <= n PROVE c[(m + 1) + 1] \in part
                <5>1. m + 1 \in 1..n /\ m + 1 < n /\ m + 1 <= n
                    BY <1>1, <4>1, <4>2
                <5> QED  BY <2>1, <4>1, <5>1
            <4> QED  BY <4>1, <4>2
        <3>3. \A m \in Nat : m \in T
            <4> HIDE DEF T
            <4> QED  BY <3>1, <3>2, Counting
        <3>4. l - 1 \in Nat /\ (l - 1) + 1 = l /\ l <= n
            BY <1>1
        <3>5. l - 1 \in T
            BY <3>3, <3>4
        <3> QED  BY <3>4, <3>5
    <2> QED  BY <1>4, <2>4
<1>6. g \in Files
    BY <1>1, <1>4
<1> QED  BY <1>5, <1>6 DEF Reached

\* A file that leads back to itself imports one that it and that lead to each other.
LEMMA FirstStepBack ==
    ASSUME edges \subseteq Files \X Files, NEW f \in Files, f \in Reached(edges, Files, f)
    PROVE  \E t \in Files : <<f, t>> \in edges /\ Mutual(f, t)
<1> DEFINE E == edges
           part == {g \in Files : \E t \in Files : <<f, t>> \in E /\ (g = t \/ g \in Reached(E, Files, t))}
<1>1. E \in SUBSET (Files \X Files)
    OBVIOUS
<1>a. f \in Reached(E, Files, f)
    OBVIOUS
<1> HIDE DEF E
<1>2. Absorbs(part, E, f)
    <2>1. ASSUME NEW e \in E, e[1] \in part \cup {f} PROVE e[2] \in part
        <3>1. e[1] \in Files /\ e[2] \in Files /\ <<e[1], e[2]>> \in E
            BY <1>1
        <3>2. CASE e[1] = f
            BY <3>1, <3>2
        <3>3. CASE e[1] \in part
            <4>1. PICK t \in Files : <<f, t>> \in E /\ (e[1] = t \/ e[1] \in Reached(E, Files, t))
                BY <3>3
            <4> DEFINE x == e[1]
                       y == e[2]
            <4>a. x \in Files /\ y \in Files /\ <<x, y>> \in E /\ (x = t \/ x \in Reached(E, Files, t))
                BY <3>1, <4>1
            <4> HIDE DEF x, y
            <4>b. y \in Reached(E, Files, t)
                BY <1>1, <4>a, ReachedSteps
            <4>2. e[2] \in Reached(E, Files, t)
                BY <4>b DEF y
            <4> QED  BY <3>1, <4>1, <4>2
        <3> QED  BY <2>1, <3>2, <3>3
    <2> QED  BY <2>1 DEF Absorbs
<1>3. f \in part
    BY <1>2, <1>a DEF Reached
<1>4. PICK t \in Files : <<f, t>> \in E /\ (f = t \/ f \in Reached(E, Files, t))
    BY <1>3
<1> HIDE DEF part
<1>5. t \in Reached(E, Files, f)
    BY <1>1, <1>4, ReachedSteps
<1>6. f \in Reached(E, Files, t)
    BY <1>4, <1>a
<1> QED  BY <1>4, <1>5, <1>6 DEF Mutual, E

\* The imports of a file are those of its edges, one after the other.
LEMMA ImportsAreTheTargets ==
    ASSUME NEW file \in Files
    PROVE  Imports(file) \in Seq(Files) /\ ToSet(Imports(file)) = {t \in Files : <<file, t>> \in edges}
<1> DEFINE T == {t \in Files : <<file, t>> \in edges}
           n == Cardinality(T)
           Below(t) == {u \in T : u < t}
           rank == [t \in T |-> Cardinality(Below(t))]
<1>1. Files \subseteq Nat /\ IsFiniteSet(Files)
    <2> DEFINE N == Cardinality(Files)
    <2>1. N \in Nat /\ Files = 1..N
        BY ProjectGraphAssumption
    <2> HIDE DEF N
    <2>2. IsFiniteSet(1..N) /\ 1..N \subseteq Nat
        BY <2>1, FS_Interval
    <2> QED  BY <2>1, <2>2
<1>2. T \in SUBSET Files /\ T \subseteq Nat
    BY <1>1
<1>3. Imports(file) = [i \in 1..n |-> CHOOSE t \in T : Cardinality(Below(t)) = i - 1]
    BY DEF Imports
<1> HIDE DEF T
<1>4. IsFiniteSet(T) /\ n \in Nat
    BY <1>1, <1>2, FS_Subset, FS_CardinalityType
<1>5. \A t \in T : IsFiniteSet(Below(t)) /\ Cardinality(Below(t)) \in Nat /\ Cardinality(Below(t)) < n
    <2>1. ASSUME NEW t \in T
          PROVE  IsFiniteSet(Below(t)) /\ Cardinality(Below(t)) \in Nat /\ Cardinality(Below(t)) < n
        <3> DEFINE part == Below(t)
        <3>1. part \in SUBSET T /\ t \notin part
            BY <1>2
        <3> HIDE DEF part
        <3>2. IsFiniteSet(part) /\ Cardinality(part) <= n /\ (n = Cardinality(part) => T = part)
            BY <1>4, <3>1, FS_Subset
        <3>3. Cardinality(part) \in Nat
            BY <3>2, FS_CardinalityType
        <3>4. T # part
            BY <3>1
        <3> HIDE DEF n
        <3>5. Cardinality(part) < n
            BY <1>4, <3>2, <3>3, <3>4
        <3> QED  BY <3>2, <3>3, <3>5 DEF part
    <2> QED  BY <2>1
<1>6. \A t, u \in T : t < u => Cardinality(Below(t)) # Cardinality(Below(u))
    <2>1. ASSUME NEW t \in T, NEW u \in T, t < u PROVE Cardinality(Below(t)) # Cardinality(Below(u))
        <3> DEFINE part == Below(t)
                   whole == Below(u)
        <3>0. t \in Nat /\ u \in Nat /\ \A v \in T : v \in Nat /\ (v < t => v < u)
            BY <1>2, <2>1
        <3>a. ~(t < t)
            BY <3>0
        <3>b. \A v \in T : v < t => v < u
            BY <3>0
        <3>1. part \in SUBSET whole /\ t \in whole /\ t \notin part
            BY <2>1, <3>a, <3>b, Zenon
        <3>2. IsFiniteSet(whole)
            BY <1>5
        <3> HIDE DEF part, whole
        <3>3. Cardinality(whole) = Cardinality(part) => whole = part
            BY <3>1, <3>2, FS_Subset
        <3>4. Cardinality(part) # Cardinality(whole)
            BY <3>1, <3>3
        <3> QED  BY <3>4 DEF part, whole
    <2> QED  BY <2>1
<1> HIDE DEF Below
<1> DEFINE Ranks == 0..(n - 1)
<1>7. rank \in [T -> Ranks] /\ \A t, u \in T : rank[t] = rank[u] => t = u
    <2>1. \A t \in T : Cardinality(Below(t)) \in Ranks
        <3> HIDE DEF n
        <3> QED  BY <1>4, <1>5
    <2>2. \A t, u \in T : Cardinality(Below(t)) = Cardinality(Below(u)) => t = u
        <3>1. \A t, u \in T : t < u \/ u < t \/ t = u
            BY <1>2
        <3> QED  BY <1>6, <3>1
    <2> HIDE DEF Ranks
    <2> QED  BY <2>1, <2>2
<1>8. rank \in Injection(T, Ranks)
    <2> HIDE DEF rank, Ranks
    <2> QED  BY <1>7 DEF Injection, IsInjective
<1>9. IsFiniteSet(Ranks) /\ Cardinality(Ranks) = n
    <2> HIDE DEF n
    <2>1. n - 1 \in Int /\ 0 \in Int
        BY <1>4
    <2>2. IsFiniteSet(Ranks) /\ Cardinality(Ranks) = IF 0 > n - 1 THEN 0 ELSE (n - 1) - 0 + 1
        BY <2>1, FS_Interval
    <2> QED  BY <1>4, <2>2
<1>10. rank \in Surjection(T, Ranks)
    <2> HIDE DEF rank, Ranks
    <2>1. Cardinality(T) = Cardinality(Ranks)
        BY <1>9
    <2> QED  BY <1>8, <1>9, <2>1, FS_Injection
<1>11. \A m \in Ranks : \E t \in T : Cardinality(Below(t)) = m
    <2>1. \A m \in Ranks : \E t \in T : rank[t] = m
        <3> HIDE DEF rank, Ranks
        <3> QED  BY <1>10 DEF Surjection
    <2> QED  BY <2>1
<1> DEFINE pick(i) == CHOOSE t \in T : Cardinality(Below(t)) = i - 1
<1>12. \A i \in 1..n : pick(i) \in T /\ Cardinality(Below(pick(i))) = i - 1
    <2>1. ASSUME NEW i \in 1..n PROVE pick(i) \in T /\ Cardinality(Below(pick(i))) = i - 1
        <3> HIDE DEF n
        <3>1. i - 1 \in Ranks
            BY <1>4
        <3> QED  BY <1>11, <3>1
    <2> QED  BY <2>1
<1>13. \A t \in T : \E i \in 1..n : pick(i) = t
    <2>1. ASSUME NEW t \in T PROVE \E i \in 1..n : pick(i) = t
        <3> DEFINE i == Cardinality(Below(t)) + 1
        <3>1. i \in 1..n /\ i - 1 = Cardinality(Below(t))
            <4> HIDE DEF n
            <4> QED  BY <1>4, <1>5
        <3> HIDE DEF i
        <3>2. pick(i) \in T /\ Cardinality(Below(pick(i))) = Cardinality(Below(t))
            BY <1>12, <3>1
        <3> HIDE DEF pick
        <3>3. rank[pick(i)] = rank[t]
            BY <3>2
        <3> QED  BY <1>7, <3>1, <3>2, <3>3
    <2> QED  BY <2>1
<1>14. Imports(file) = [i \in 1..n |-> pick(i)]
    BY <1>3
<1> HIDE DEF pick, n
<1>15. Imports(file) \in [1..n -> Files]
    BY <1>2, <1>12, <1>14
<1>16. Imports(file) \in Seq(Files)
    BY <1>4, <1>15
<1>17. ToSet(Imports(file)) = T
    BY <1>12, <1>13, <1>14 DEF ToSet
<1> QED  BY <1>16, <1>17 DEF T

\* The file in hand and its next import.
LEMMA NextImport ==
    ASSUME SearchInv, stack # <<>>, Top.left # <<>>
    PROVE  /\ Len(stack) \in Nat /\ Len(stack) # 0 /\ Top \in Frames
           /\ Head(Top.left) \in Files /\ <<Top.file, Head(Top.left)>> \in edges
           /\ ToSet(Top.left) = {Head(Top.left)} \cup ToSet(Tail(Top.left))
           /\ Rest \in Seq(Frames) /\ Len(Rest) = Len(stack)
           /\ \A i \in 1..Len(stack) : Rest[i].file = stack[i].file /\ (i < Len(stack) => Rest[i] = stack[i])
           /\ Rest[Len(stack)].left = Tail(Top.left)
<1> DEFINE n == Len(stack)
           s == Top.left
           frame == [stack[n] EXCEPT !.left = Tail(@)]
<1>1. stack \in Seq(Frames)
    BY DEF SearchInv, StackInv
<1>2. n \in Nat /\ n # 0 /\ DOMAIN stack = 1..n /\ stack \in [1..n -> Frames]
    BY <1>1, LenProperties, EmptySeq
<1>3. n \in 1..n
    BY <1>2
<1>4. stack[n] \in Frames
    BY <1>2, <1>3
<1>5. s \in Seq(Files) /\ s # <<>> /\ s = stack[n].left
    BY <1>4 DEF Top, Frames
<1>6. /\ Head(s) \in Files /\ Tail(s) \in Seq(Files) /\ Len(Tail(s)) = Len(s) - 1
      /\ \A i \in 1..Len(Tail(s)) : Tail(s)[i] = s[i + 1]
    <2> HIDE DEF s
    <2> QED  BY <1>5, HeadTailProperties
<1>7. ToSet(s) = {Head(s)} \cup ToSet(Tail(s))
    <2> HIDE DEF s
    <2>1. Len(s) \in Nat /\ Len(s) # 0 /\ DOMAIN s = 1..Len(s) /\ Head(s) = s[1]
        BY <1>5, LenProperties, EmptySeq
    <2>2. DOMAIN Tail(s) = 1..(Len(s) - 1)
        BY <1>6, LenProperties
    <2>3. ASSUME NEW x \in ToSet(s), x # Head(s) PROVE x \in ToSet(Tail(s))
        <3>1. PICK i \in 1..Len(s) : x = s[i]
            BY <2>1 DEF ToSet
        <3>2. i - 1 \in 1..(Len(s) - 1) /\ (i - 1) + 1 = i
            BY <2>1, <2>3, <3>1
        <3>3. Tail(s)[i - 1] = x
            BY <1>6, <3>1, <3>2
        <3> QED  BY <2>2, <3>2, <3>3 DEF ToSet
    <2>4. ASSUME NEW x \in ToSet(Tail(s)) PROVE x \in ToSet(s)
        <3>1. PICK i \in 1..(Len(s) - 1) : x = Tail(s)[i]
            BY <2>2 DEF ToSet
        <3>2. i + 1 \in 1..Len(s) /\ x = s[i + 1]
            BY <1>6, <2>1, <3>1
        <3> QED  BY <2>1, <3>2 DEF ToSet
    <2>5. Head(s) \in ToSet(s)
        <3>1. 1 \in 1..Len(s)
            BY <2>1
        <3> QED  BY <2>1, <3>1 DEF ToSet
    <2> QED  BY <2>3, <2>4, <2>5
<1>8. \A t \in ToSet(s) : <<Top.file, t>> \in edges
    BY <1>3, <1>5 DEF SearchInv, StackInv, Top
<1>9. frame \in Frames /\ frame.file = stack[n].file /\ frame.left = Tail(s)
    BY <1>4, <1>5, <1>6 DEF Frames
<1>10. Rest = [stack EXCEPT ![n] = frame]
    BY DEF Rest
<1> HIDE DEF frame
<1>11. /\ Rest \in Seq(Frames) /\ Len(Rest) = n
       /\ \A i \in 1..n : Rest[i] = IF i = n THEN frame ELSE stack[i]
    <2> HIDE DEF n
    <2>1. Len(stack) = n
        BY DEF n
    <2> QED  BY <1>1, <1>3, <1>9, <1>10, <2>1, ExceptSeq
<1> HIDE DEF n, s
<1>12. \A i \in 1..n : Rest[i].file = stack[i].file /\ (i < n => Rest[i] = stack[i])
    BY <1>2, <1>9, <1>11
<1> QED  BY <1>2, <1>3, <1>4, <1>6, <1>7, <1>8, <1>9, <1>11, <1>12 DEF n, s, Top

\* An import that was followed to a file that was left, or to one on the stack, is done.
LEMMA ImportIsDone ==
    ASSUME SearchInv, stack # <<>>, Top.left # <<>>, stack' = Rest, UNCHANGED <<edges, visited>>,
           \A f, t : Told(cycles, f, t) => Told(cycles', f, t),
           Head(Top.left) \in visited \/ Told(cycles', Top.file, Head(Top.left))
    PROVE  StackInv'
<1> DEFINE n == Len(stack)
<1>1. /\ n \in Nat /\ n # 0 /\ Rest \in Seq(Frames) /\ Len(Rest) = n
      /\ ToSet(Top.left) = {Head(Top.left)} \cup ToSet(Tail(Top.left))
      /\ \A i \in 1..n : Rest[i].file = stack[i].file /\ (i < n => Rest[i] = stack[i])
      /\ Rest[n].left = Tail(Top.left)
    BY NextImport
<1>2. /\ stack' \in Seq(Frames) /\ Len(stack') = n /\ visited' = visited /\ edges' = edges
      /\ \A i \in 1..n : stack'[i].file = stack[i].file /\ (i < n => stack'[i] = stack[i])
      /\ stack'[n].left = Tail(Top.left)
    BY <1>1
<1>3. Top = stack[n] /\ n \in 1..n
    BY <1>1 DEF Top
<1>4. /\ visited \subseteq Files
      /\ \A i, j \in 1..n : i # j => stack[i].file # stack[j].file
      /\ \A i \in 1..n :
           /\ stack[i].file \notin visited
           /\ \A t \in ToSet(stack[i].left) : <<stack[i].file, t>> \in edges
           /\ i < n => <<stack[i].file, stack[i + 1].file>> \in edges
           /\ \A t \in Files : <<stack[i].file, t>> \in edges =>
                \/ t \in ToSet(stack[i].left) \/ t \in visited \/ Told(cycles, stack[i].file, t)
                \/ i < n /\ t = stack[i + 1].file
    BY DEF SearchInv, StackInv
<1> HIDE DEF n, Told
<1>5. \A i, j \in 1..n : i # j => stack'[i].file # stack'[j].file
    BY <1>2, <1>4
<1>6. ASSUME NEW i \in 1..n
      PROVE  /\ stack'[i].file \notin visited
             /\ \A t \in ToSet(stack'[i].left) : <<stack'[i].file, t>> \in edges
             /\ i < n => <<stack'[i].file, stack'[i + 1].file>> \in edges
             /\ \A t \in Files : <<stack'[i].file, t>> \in edges =>
                  \/ t \in ToSet(stack'[i].left) \/ t \in visited \/ Told(cycles', stack'[i].file, t)
                  \/ i < n /\ t = stack'[i + 1].file
    <2>1. i < n => i + 1 \in 1..n
        BY <1>1
    <2>2. stack'[i].file = stack[i].file /\ (i < n => stack'[i + 1].file = stack[i + 1].file)
        BY <1>2, <2>1
    <2>3. \A t \in ToSet(stack'[i].left) : t \in ToSet(stack[i].left)
        <3>1. CASE i = n
            BY <1>1, <1>2, <1>3, <3>1
        <3>2. CASE i # n
            <4>1. i < n
                BY <1>1, <3>2
            <4> QED  BY <1>2, <4>1
        <3> QED  BY <3>1, <3>2
    <2>4. ASSUME NEW t \in ToSet(stack[i].left)
          PROVE  t \in ToSet(stack'[i].left) \/ t \in visited \/ Told(cycles', stack[i].file, t)
        <3>1. CASE i = n
            <4>1. ToSet(stack[i].left) = {Head(Top.left)} \cup ToSet(stack'[i].left) /\ stack[i].file = Top.file
                BY <1>1, <1>2, <1>3, <3>1
            <4> QED  BY <2>4, <4>1
        <3>2. CASE i # n
            <4>1. i < n
                BY <1>1, <3>2
            <4> QED  BY <1>2, <2>4, <4>1
        <3> QED  BY <3>1, <3>2
    <2>5. ASSUME NEW t \in Files, <<stack[i].file, t>> \in edges
          PROVE  \/ t \in ToSet(stack'[i].left) \/ t \in visited \/ Told(cycles', stack[i].file, t)
                 \/ i < n /\ t = stack'[i + 1].file
        BY <1>4, <2>2, <2>4, <2>5
    <2> QED  BY <1>4, <2>2, <2>3, <2>5
<1> QED  BY <1>2, <1>4, <1>5, <1>6 DEF StackInv

\* Told is about the report alone.
LEMMA ToldStays == UNCHANGED cycles => \A f, t : Told(cycles, f, t) => Told(cycles', f, t)
BY DEF Told

\* So are the cycles, and what they say of the files that were left.
LEMMA ReportStays ==
    ASSUME SearchInv, UNCHANGED <<edges, cycles>>
    PROVE  ReportInv' /\ (UNCHANGED visited => KnotsInv')
<1>1. ReportInv'
    <2>1. \A c : IsCycle(c) => IsCycle(c)'
        BY ZenonT(40) DEF IsCycle, Around, Successor
    <2> QED  BY <2>1 DEF SearchInv, ReportInv
<1>2. ASSUME UNCHANGED visited PROVE KnotsInv'
    BY <1>2 DEF SearchInv, KnotsInv, Mutual
<1> QED  BY <1>1, <1>2

\* A file that is entered has all its imports to come.
LEMMA EnteredFile ==
    ASSUME NEW f \in Files
    PROVE  /\ [file |-> f, left |-> Imports(f)] \in Frames
           /\ \A t \in Files : t \in ToSet(Imports(f)) <=> <<f, t>> \in edges
           /\ ToSet(Imports(f)) \subseteq Files
BY ImportsAreTheTargets DEF Frames

\* The loop over nodes starts with a file.
LEMMA StartKeeps == SearchInv /\ StartAt => SearchInv'
<1> SUFFICES ASSUME SearchInv, StartAt PROVE SearchInv'
    OBVIOUS
<1>1. stack = <<>> /\ visited # Files /\ UNCHANGED <<edges, import, visited, cycles>>
    BY DEF StartAt
<1>7. ReportInv' /\ KnotsInv'
    BY <1>1, ReportStays
<1> DEFINE Out == Files \ visited
           f == CHOOSE g \in Out : \A h \in Out : g <= h
<1>2. f \in Out
    <2>0. Files \subseteq Nat
        BY ProjectGraphAssumption
    <2>1. Out \in SUBSET Nat /\ Out # {}
        BY <1>1, <2>0 DEF SearchInv, StackInv
    <2> HIDE DEF Out
    <2>2. \E g \in Out : \A h \in Out : g <= h
        BY <2>1, LeastNumber
    <2> QED  BY <2>2
<1>3. stack' = Append(<<>>, [file |-> f, left |-> Imports(f)])
    BY <1>1 DEF StartAt, Enter
<1> HIDE DEF f
<1> DEFINE frame == [file |-> f, left |-> Imports(f)]
<1>4. /\ frame \in Frames /\ frame.file = f /\ frame.left = Imports(f) /\ ToSet(Imports(f)) \subseteq Files
      /\ \A t \in Files : t \in ToSet(Imports(f)) <=> <<f, t>> \in edges
    BY <1>2, EnteredFile
<1> HIDE DEF frame
<1>5. stack' \in Seq(Frames) /\ Len(stack') = 1 /\ stack'[1] = frame
    <2>1. stack' = <<frame>>
        BY <1>3 DEF frame
    <2> QED  BY <1>4, <2>1
<1>6. StackInv'
    <2>1. \A i \in 1..1 : i = 1 /\ ~(i < 1)
        OBVIOUS
    <2>2. visited \subseteq Files
        BY DEF SearchInv, StackInv
    <2> QED  BY <1>1, <1>2, <1>4, <1>5, <2>1, <2>2 DEF StackInv
<1> QED  BY <1>1, <1>6, <1>7 DEF SearchInv

\* An import of a file that is not on the stack is passed over or followed.
LEMMA DescendKeeps == SearchInv /\ Descend => SearchInv'
<1> SUFFICES ASSUME SearchInv, Descend PROVE SearchInv'
    OBVIOUS
<1> DEFINE g == Head(Top.left)
           n == Len(stack)
<1>1. stack # <<>> /\ Top.left # <<>> /\ g \notin Visiting /\ UNCHANGED <<edges, visited, cycles, import>>
    BY DEF Descend
<1>2. ReportInv' /\ KnotsInv'
    BY <1>1, ReportStays
<1>3. \A f, t : Told(cycles, f, t) => Told(cycles', f, t)
    BY <1>1, ToldStays
<1>4. CASE g \in visited
    <2>1. stack' = Rest
        BY <1>4 DEF Descend
    <2>2. StackInv'
        BY <1>1, <1>3, <1>4, <2>1, ImportIsDone
    <2> QED  BY <1>1, <1>2, <2>2 DEF SearchInv
<1>5. CASE g \notin visited
    <2> DEFINE frame == [file |-> g, left |-> Imports(g)]
    <2>1. stack' = Append(Rest, frame)
        BY <1>5 DEF Descend
    <2>2. /\ n \in Nat /\ n # 0 /\ g \in Files /\ <<Top.file, g>> \in edges
          /\ Rest \in Seq(Frames) /\ Len(Rest) = n
          /\ ToSet(Top.left) = {g} \cup ToSet(Tail(Top.left))
          /\ \A i \in 1..n : Rest[i].file = stack[i].file /\ (i < n => Rest[i] = stack[i])
          /\ Rest[n].left = Tail(Top.left)
        BY <1>1, NextImport
    <2>3. /\ frame \in Frames /\ frame.file = g /\ frame.left = Imports(g) /\ ToSet(Imports(g)) \subseteq Files
          /\ \A t \in Files : t \in ToSet(Imports(g)) <=> <<g, t>> \in edges
        BY <2>2, EnteredFile
    <2>4. /\ visited \subseteq Files /\ Top = stack[n] /\ n \in 1..n
          /\ \A i, j \in 1..n : i # j => stack[i].file # stack[j].file
          /\ \A i \in 1..n :
               /\ stack[i].file \notin visited /\ stack[i].file # g
               /\ \A t \in ToSet(stack[i].left) : <<stack[i].file, t>> \in edges
               /\ i < n => <<stack[i].file, stack[i + 1].file>> \in edges
               /\ \A t \in Files : <<stack[i].file, t>> \in edges =>
                    \/ t \in ToSet(stack[i].left) \/ t \in visited \/ Told(cycles, stack[i].file, t)
                    \/ i < n /\ t = stack[i + 1].file
        <3>1. DOMAIN stack = 1..n
            BY LenProperties DEF SearchInv, StackInv
        <3>2. \A i \in 1..n : stack[i].file # g
            BY <1>1, <3>1 DEF Visiting
        <3>3. Top = stack[n] /\ n \in 1..n
            BY <2>2 DEF Top
        <3> HIDE DEF g
        <3> QED  BY <3>2, <3>3 DEF SearchInv, StackInv
    <2> HIDE DEF frame, g, n, Told
    <2>5. /\ stack' \in Seq(Frames) /\ Len(stack') = n + 1 /\ stack'[n + 1] = frame
          /\ \A i \in 1..n : stack'[i] = Rest[i]
        BY <2>1, <2>2, <2>3, AppendProperties
    <2>6. \A i \in 1..(n + 1) : i \in 1..n \/ i = n + 1
        BY <2>2
    <2>7. \A i \in 1..n : stack'[i].file = stack[i].file
        BY <2>2, <2>5
    <2>8. stack'[n + 1].file = g /\ stack'[n + 1].left = Imports(g)
        BY <2>3, <2>5
    <2>9. \A i, j \in 1..(n + 1) : i # j => stack'[i].file # stack'[j].file
        <3>1. ASSUME NEW i \in 1..(n + 1), NEW j \in 1..(n + 1), i # j PROVE stack'[i].file # stack'[j].file
            <4>1. CASE i \in 1..n /\ j \in 1..n
                BY <2>4, <2>7, <3>1, <4>1
            <4>2. CASE i \in 1..n /\ j = n + 1
                <5>1. stack'[j].file = g /\ stack'[i].file = stack[i].file /\ stack[i].file # g
                    BY <2>4, <2>7, <2>8, <4>2
                <5> QED  BY <5>1
            <4>3. CASE i = n + 1 /\ j \in 1..n
                <5>1. stack'[i].file = g /\ stack'[j].file = stack[j].file /\ stack[j].file # g
                    BY <2>4, <2>7, <2>8, <4>3
                <5> QED  BY <5>1
            <4> QED  BY <2>6, <3>1, <4>1, <4>2, <4>3
        <3> QED  BY <3>1
    <2>10. ASSUME NEW i \in 1..n
           PROVE  /\ stack'[i].file \notin visited
                  /\ \A t \in ToSet(stack'[i].left) : <<stack'[i].file, t>> \in edges
                  /\ <<stack'[i].file, stack'[i + 1].file>> \in edges
                  /\ \A t \in Files : <<stack'[i].file, t>> \in edges =>
                       \/ t \in ToSet(stack'[i].left) \/ t \in visited \/ Told(cycles', stack'[i].file, t)
                       \/ t = stack'[i + 1].file
        <3>1. CASE i = n
            <4>1. /\ stack'[i].left = Tail(Top.left) /\ stack'[i + 1].file = g /\ stack'[i].file = Top.file
                  /\ stack[i].left = Top.left /\ stack[i].file = Top.file
                BY <2>2, <2>4, <2>5, <2>7, <2>8, <3>1
            <4>2. ToSet(stack[i].left) = {g} \cup ToSet(stack'[i].left)
                BY <2>2, <4>1
            <4>3. ~(i < n)
                BY <2>2, <3>1
            <4> QED  BY <1>3, <2>2, <2>4, <4>1, <4>2, <4>3
        <3>2. CASE i # n
            <4>1. i < n /\ i + 1 \in 1..n
                BY <2>2, <3>2
            <4>2. stack'[i] = stack[i] /\ stack'[i + 1].file = stack[i + 1].file
                BY <2>2, <2>5, <2>7, <4>1
            <4> QED  BY <1>3, <2>4, <4>1, <4>2
        <3> QED  BY <3>1, <3>2
    <2>11. /\ stack'[n + 1].file \notin visited
           /\ \A t \in ToSet(stack'[n + 1].left) : <<stack'[n + 1].file, t>> \in edges
           /\ \A t \in Files : <<stack'[n + 1].file, t>> \in edges => t \in ToSet(stack'[n + 1].left)
        BY <1>5, <2>3, <2>8
    <2>12. ~(n + 1 < n + 1) /\ \A i \in 1..n : i < n + 1
        BY <2>2
    <2>13. StackInv'
        <3>1. ASSUME NEW i \in 1..(n + 1)
              PROVE  /\ stack'[i].file \notin visited'
                     /\ \A t \in ToSet(stack'[i].left) : <<stack'[i].file, t>> \in edges'
                     /\ i < n + 1 => <<stack'[i].file, stack'[i + 1].file>> \in edges'
                     /\ \A t \in Files : <<stack'[i].file, t>> \in edges' =>
                          \/ t \in ToSet(stack'[i].left) \/ t \in visited' \/ Told(cycles', stack'[i].file, t)
                          \/ i < n + 1 /\ t = stack'[i + 1].file
            <4>1. CASE i \in 1..n
                BY <1>1, <2>10, <2>12, <4>1
            <4>2. CASE i = n + 1
                BY <1>1, <2>11, <2>12, <4>2
            <4> QED  BY <2>6, <4>1, <4>2
        <3> QED  BY <1>1, <2>4, <2>5, <2>9, <3>1 DEF StackInv
    <2> QED  BY <1>1, <1>2, <2>13 DEF SearchInv
<1> QED  BY <1>4, <1>5

\* A file whose imports have all been followed is left; if it leads back to itself,
\* its cycle has been reported.
LEMMA LeaveKeeps == SearchInv /\ Leave => SearchInv'
<1> SUFFICES ASSUME SearchInv, Leave PROVE SearchInv'
    OBVIOUS
<1> DEFINE n == Len(stack)
           m == n - 1
           f == Top.file
<1>1. /\ stack # <<>> /\ Top.left = <<>> /\ stack' = SubSeq(stack, 1, m) /\ visited' = visited \cup {f}
      /\ UNCHANGED <<edges, import, cycles>>
    BY DEF Leave, Front
<1>2. stack \in Seq(Frames) /\ n \in Nat /\ n # 0 /\ m \in Nat /\ n = m + 1
    <2>1. stack \in Seq(Frames)
        BY DEF SearchInv, StackInv
    <2>2. n \in Nat /\ n # 0
        BY <1>1, <2>1, LenProperties, EmptySeq
    <2> HIDE DEF n
    <2> QED  BY <2>1, <2>2
<1>3. stack' \in Seq(Frames) /\ Len(stack') = m /\ \A i \in 1..m : stack'[i] = stack[i]
    <2> HIDE DEF n, m
    <2>1. Len(stack) = n
        BY DEF n
    <2> QED  BY <1>1, <1>2, <2>1
<1>4. /\ visited \subseteq Files /\ Top = stack[n] /\ n \in 1..n
      /\ \A i, j \in 1..n : i # j => stack[i].file # stack[j].file
      /\ \A i \in 1..n :
           /\ stack[i].file \notin visited
           /\ \A t \in ToSet(stack[i].left) : <<stack[i].file, t>> \in edges
           /\ i < n => <<stack[i].file, stack[i + 1].file>> \in edges
           /\ \A t \in Files : <<stack[i].file, t>> \in edges =>
                \/ t \in ToSet(stack[i].left) \/ t \in visited \/ Told(cycles, stack[i].file, t)
                \/ i < n /\ t = stack[i + 1].file
    BY <1>2 DEF SearchInv, StackInv, Top
<1>5. f \in Files
    <2>1. stack[n] \in Frames
        BY <1>2, <1>4, ElementOfSeq
    <2> QED  BY <1>4, <2>1 DEF Frames
<1> HIDE DEF n, m, f
<1>6. stack[n].file = f /\ stack[n].left = <<>> /\ ~(n < n)
    BY <1>1, <1>2, <1>4 DEF f
<1>7. \A t \in Files : <<f, t>> \in edges => t \in visited \/ Told(cycles, f, t)
    <2>1. ToSet(stack[n].left) = {}
        BY <1>6 DEF ToSet
    <2> QED  BY <1>4, <1>6, <2>1
<1>8. StackInv'
    <2>1. \A i \in 1..m : i \in 1..n /\ i < n /\ i # n /\ i + 1 \in 1..n
        BY <1>2
    <2>2. \A i, j \in 1..m : i # j => stack'[i].file # stack'[j].file
        BY <1>3, <1>4, <2>1
    <2>3. ASSUME NEW i \in 1..m
          PROVE  /\ stack'[i].file \notin visited'
                 /\ \A t \in ToSet(stack'[i].left) : <<stack'[i].file, t>> \in edges'
                 /\ i < m => <<stack'[i].file, stack'[i + 1].file>> \in edges'
                 /\ \A t \in Files : <<stack'[i].file, t>> \in edges' =>
                      \/ t \in ToSet(stack'[i].left) \/ t \in visited' \/ Told(cycles', stack'[i].file, t)
                      \/ i < m /\ t = stack'[i + 1].file
        <3>1. i \in 1..n /\ i < n /\ i # n /\ stack'[i] = stack[i]
            BY <1>3, <2>1
        <3>2. stack[i].file # f
            BY <1>4, <1>6, <3>1
        <3>3. i < m => stack'[i + 1] = stack[i + 1]
            <4>1. i < m => i + 1 \in 1..m
                BY <1>2
            <4> QED  BY <1>3, <4>1
        <3>4. ~(i < m) => stack[i + 1].file = f
            <4>1. ~(i < m) => i + 1 = n
                BY <1>2
            <4> QED  BY <1>6, <4>1
        <3> HIDE DEF Told
        <3> QED  BY <1>1, <1>4, <3>1, <3>2, <3>3, <3>4
    <2>4. visited' \subseteq Files
        BY <1>1, <1>4, <1>5
    <2> HIDE DEF Told
    <2> QED  BY <1>3, <2>2, <2>3, <2>4 DEF StackInv
<1>9. KnotsInv'
    <2>0. edges \subseteq Files \X Files /\ ReportInv /\ KnotsInv /\ cycles' = cycles /\ edges' = edges
        BY <1>1 DEF SearchInv
    <2>1. ASSUME f \in Reached(edges, Files, f)
          PROVE  \E i \in 1..Len(cycles) : \A g \in ToSet(cycles[i]) : Mutual(f, g)
        <3>1. PICK t \in Files : <<f, t>> \in edges /\ Mutual(f, t)
            BY <1>5, <2>0, <2>1, FirstStepBack
        <3>2. CASE t \in visited
            <4> DEFINE E == edges
            <4>1. E \in SUBSET (Files \X Files) /\ t \in Reached(E, Files, f) /\ f \in Reached(E, Files, t)
                BY <2>0, <3>1 DEF Mutual
            <4>2. KnotsInv /\ \A x, y : Mutual(x, y) <=> y \in Reached(E, Files, x) /\ x \in Reached(E, Files, y)
                BY <2>0 DEF Mutual
            <4> HIDE DEF E
            <4>3. t \in Reached(E, Files, t)
                BY <1>5, <4>1, ReachedSteps
            <4>4. PICK i \in 1..Len(cycles) : \A g \in ToSet(cycles[i]) : Mutual(t, g)
                BY <3>2, <4>2, <4>3 DEF KnotsInv, E
            <4>5. ASSUME NEW g \in ToSet(cycles[i]) PROVE Mutual(f, g)
                <5>1. g \in Reached(E, Files, t) /\ t \in Reached(E, Files, g)
                    BY <4>2, <4>4
                <5>2. g \in Files
                    BY <5>1 DEF Reached
                <5>3. g \in Reached(E, Files, f) /\ f \in Reached(E, Files, g)
                    BY <1>5, <4>1, <5>1, <5>2, ReachedSteps
                <5> QED  BY <4>2, <5>3
            <4> QED  BY <4>5
        <3>3. CASE Told(cycles, f, t)
            <4>1. PICK i \in DOMAIN cycles : f \in ToSet(cycles[i])
                BY <3>3 DEF Told
            <4>2. i \in 1..Len(cycles) /\ Around(cycles[i])
                BY <2>0, <4>1, LenProperties DEF ReportInv, IsCycle
            <4> DEFINE c == cycles[i]
            <4> HIDE DEF c
            <4>3. ASSUME NEW g \in ToSet(c) PROVE Mutual(f, g)
                <5>1. Around(c) /\ f \in ToSet(c)
                    BY <4>1, <4>2 DEF c
                <5>2. g \in Reached(edges, Files, f)
                    BY <2>0, <5>1, AroundIsMutual
                <5>3. f \in Reached(edges, Files, g)
                    BY <2>0, <5>1, AroundIsMutual
                <5> QED  BY <5>2, <5>3 DEF Mutual
            <4> QED  BY <4>2, <4>3 DEF c
        <3> QED  BY <1>7, <3>1, <3>2, <3>3
    <2>2. \A g, h : Mutual(g, h) => Mutual(g, h)'
        BY <2>0 DEF Mutual
    <2>3. ASSUME NEW g \in visited', g \in Reached(edges, Files, g)
          PROVE  \E i \in 1..Len(cycles) : \A h \in ToSet(cycles[i]) : Mutual(g, h)
        <3>1. CASE g \in visited
            BY <2>0, <2>3, <3>1 DEF KnotsInv
        <3>2. CASE g = f
            BY <2>1, <2>3, <3>2
        <3> QED  BY <1>1, <3>1, <3>2
    <2> QED  BY <2>0, <2>2, <2>3 DEF KnotsInv
<1>10. ReportInv'
    BY <1>1, ReportStays
<1> QED  BY <1>1, <1>8, <1>9, <1>10 DEF SearchInv

\* An import of a file on the stack adds the cycle that it closes, unless the report
\* has it.
LEMMA CloseCycleKeeps == SearchInv /\ CloseCycle => SearchInv'
<1> SUFFICES ASSUME SearchInv, CloseCycle PROVE SearchInv'
    OBVIOUS
<1> DEFINE n == Len(stack)
           g == Head(Top.left)
           start == CHOOSE i \in DOMAIN stack : stack[i].file = g
           raw == [i \in 1..(n - start + 1) |-> stack[start + i - 1].file]
           cycle == Canonical(raw)
<1>1. /\ stack # <<>> /\ Top.left # <<>> /\ g \in Visiting /\ stack' = Rest
      /\ UNCHANGED <<edges, import, visited>>
      /\ cycles' = IF cycle \in ToSet(cycles) THEN cycles ELSE Append(cycles, cycle)
    BY DEF CloseCycle
<1>2. n \in Nat /\ n # 0 /\ stack \in Seq(Frames) /\ DOMAIN stack = 1..n /\ g \in Files /\ <<Top.file, g>> \in edges
    <2>1. stack \in Seq(Frames)
        BY DEF SearchInv, StackInv
    <2> QED  BY <1>1, <2>1, NextImport, LenProperties
<1>3. start \in 1..n /\ stack[start].file = g
    <2>1. \E i \in DOMAIN stack : stack[i].file = g
        BY <1>1 DEF Visiting
    <2> HIDE DEF g, n
    <2> QED  BY <1>2, <2>1
<1>4. /\ \A i \in 1..n : stack[i].file \in Files
      /\ \A i, j \in 1..n : i # j => stack[i].file # stack[j].file
      /\ \A i \in 1..n : i < n => <<stack[i].file, stack[i + 1].file>> \in edges
      /\ Top.file = stack[n].file
    <2>1. \A i \in 1..n : stack[i] \in Frames
        BY <1>2, ElementOfSeq
    <2> QED  BY <2>1 DEF SearchInv, StackInv, Top, Frames
<1> HIDE DEF n, start, g
<1> DEFINE k == n - start + 1
<1>5. k \in Nat /\ k # 0 /\ 1 \in 1..k /\ k \in 1..k
    BY <1>2, <1>3
<1>6. \A i \in 1..k : start + i - 1 \in 1..n /\ raw[i] = stack[start + i - 1].file
    BY <1>2, <1>3
<1>7. raw[1] = g /\ raw[k] = Top.file
    <2>1. start + 1 - 1 = start /\ start + k - 1 = n
        BY <1>2, <1>3
    <2> QED  BY <1>3, <1>4, <1>5, <1>6, <2>1
<1>8. raw \in Seq(Files) /\ Len(raw) = k /\ DOMAIN raw = 1..k /\ raw # <<>>
    <2>1. raw \in [1..k -> Files]
        BY <1>4, <1>6
    <2> HIDE DEF k, raw
    <2>2. raw \in Seq(Files) /\ Len(raw) = k /\ DOMAIN raw = 1..k
        BY <1>5, <2>1
    <2> QED  BY <1>5, <2>2, EmptySeq
<1>9. Around(raw)
    <2>1. ASSUME NEW i \in 1..k PROVE <<raw[i], Successor(raw, i)>> \in edges
        <3>1. (i % k) + 1 = IF i = k THEN 1 ELSE i + 1
            <4> HIDE DEF k
            <4> QED  BY <1>5, PlacesAround
        <3>2. Successor(raw, i) = raw[(i % k) + 1]
            BY <1>8 DEF Successor
        <3>3. CASE i = k
            <4>1. Successor(raw, i) = raw[1] /\ raw[i] = raw[k]
                BY <3>1, <3>2, <3>3
            <4> HIDE DEF raw, k
            <4> QED  BY <1>2, <1>7, <4>1
        <3>4. CASE i # k
            <4>1. i + 1 \in 1..k /\ start + i - 1 < n /\ start + (i + 1) - 1 = (start + i - 1) + 1
                BY <1>2, <1>3, <3>4
            <4>2. raw[i + 1] = stack[(start + i - 1) + 1].file /\ raw[i] = stack[start + i - 1].file /\ start + i - 1 \in 1..n
                BY <1>6, <4>1
            <4>3. Successor(raw, i) = raw[i + 1]
                BY <3>1, <3>2, <3>4
            <4> HIDE DEF raw, k
            <4> QED  BY <1>4, <4>1, <4>2, <4>3
        <3> QED  BY <3>3, <3>4
    <2>2. ASSUME NEW i \in 1..k, NEW j \in 1..k, i # j PROVE raw[i] # raw[j]
        <3>1. start + i - 1 # start + j - 1
            BY <1>2, <1>3, <2>2
        <3> QED  BY <1>4, <1>6, <3>1
    <2> HIDE DEF raw, k
    <2> QED  BY <1>8, <2>1, <2>2 DEF Around
<1>10. g \in ToSet(raw) /\ Top.file \in ToSet(raw)
    <2> HIDE DEF raw, k
    <2> QED  BY <1>5, <1>7, <1>8 DEF ToSet
<1> HIDE DEF raw
<1>11. IsCycle(cycle) /\ ToSet(cycle) = ToSet(raw)
    BY <1>9, CanonicalIsACycle
<1> HIDE DEF cycle
<1> DEFINE N == Len(cycles)
<1>12. /\ cycles \in Seq(Seq(Files)) /\ N \in Nat /\ DOMAIN cycles = 1..N
       /\ \A i \in 1..N : IsCycle(cycles[i])
       /\ \A i, j \in 1..N : i # j => cycles[i] # cycles[j]
    BY LenProperties DEF SearchInv, ReportInv
<1>13. cycle \in Seq(Files)
    BY <1>11 DEF IsCycle, Around
<1>14. \A c : IsCycle(c) => IsCycle(c)'
    BY <1>1 DEF IsCycle, Around, Successor
<1>15. CASE cycle \in ToSet(cycles)
    <2>1. UNCHANGED cycles
        BY <1>1, <1>15
    <2>2. ReportInv' /\ KnotsInv'
        BY <1>1, <2>1, ReportStays
    <2>3. Told(cycles', Top.file, g)
        BY <1>10, <1>11, <1>15, <2>1 DEF Told, ToSet
    <2>4. StackInv'
        BY <1>1, <2>1, <2>3, ToldStays, ImportIsDone DEF g
    <2> QED  BY <1>1, <2>2, <2>4 DEF SearchInv
<1>16. CASE cycle \notin ToSet(cycles)
    <2>1. cycles' = Append(cycles, cycle)
        BY <1>1, <1>16
    <2>2. /\ cycles' \in Seq(Seq(Files)) /\ Len(cycles') = N + 1
          /\ \A i \in 1..N : cycles'[i] = cycles[i]
          /\ cycles'[N + 1] = cycle
        BY <1>12, <1>13, <2>1, AppendProperties
    <2>3. DOMAIN cycles' = 1..(N + 1)
        BY <2>2, LenProperties
    <2> HIDE DEF N
    <2>4. (\A i \in 1..(N + 1) : i \in 1..N \/ i = N + 1) /\ N + 1 \in 1..(N + 1) /\ \A i \in 1..N : i \in 1..(N + 1)
        BY <1>12
    <2>5. \A i \in 1..N : cycles[i] # cycle
        BY <1>12, <1>16 DEF ToSet
    <2>6. ReportInv'
        <3>1. ASSUME NEW i \in 1..(N + 1) PROVE IsCycle(cycles'[i])
            BY <1>11, <1>12, <2>2, <2>4
        <3>2. ASSUME NEW i \in 1..(N + 1), NEW j \in 1..(N + 1), i # j PROVE cycles'[i] # cycles'[j]
            <4>1. CASE i \in 1..N /\ j \in 1..N
                BY <1>12, <2>2, <3>2, <4>1
            <4>2. CASE i \in 1..N /\ j = N + 1
                BY <2>2, <2>5, <4>2
            <4>3. CASE i = N + 1 /\ j \in 1..N
                BY <2>2, <2>5, <4>3
            <4> QED  BY <2>4, <3>2, <4>1, <4>2, <4>3
        <3> QED  BY <1>1, <2>2, <3>1, <3>2 DEF ReportInv, IsCycle, Around, Successor
    <2>7. \A f, t : Told(cycles, f, t) => Told(cycles', f, t)
        BY <1>12, <2>2, <2>3, <2>4 DEF Told
    <2>8. Told(cycles', Top.file, g)
        BY <1>10, <1>11, <2>2, <2>3, <2>4 DEF Told
    <2>9. StackInv'
        BY <1>1, <2>7, <2>8, ImportIsDone DEF g
    <2>10. KnotsInv'
        <3>1. \A f, h : Mutual(f, h) => Mutual(f, h)'
            BY <1>1 DEF Mutual
        <3>2. ASSUME NEW f \in visited, f \in Reached(edges, Files, f)
              PROVE  \E i \in 1..(N + 1) : \A h \in ToSet(cycles'[i]) : Mutual(f, h)
            <4>1. PICK i \in 1..N : \A h \in ToSet(cycles[i]) : Mutual(f, h)
                BY <3>2 DEF SearchInv, KnotsInv, N
            <4> QED  BY <2>2, <2>4, <4>1
        <3> QED  BY <1>1, <2>2, <3>1, <3>2 DEF KnotsInv
    <2> QED  BY <1>1, <2>6, <2>9, <2>10 DEF SearchInv
<1> QED  BY <1>15, <1>16

\* The search begins with nothing on the stack, left or reported.
LEMMA SearchStarts == GraphInit => SearchInv
<1> SUFFICES ASSUME GraphInit PROVE SearchInv
    OBVIOUS
<1>1. stack = <<>> /\ visited = {} /\ cycles = <<>>
    BY DEF GraphInit
<1>2. edges \subseteq Files \X Files /\ import \in {NoImport} \cup AllImports
    BY DEF GraphInit
<1>3. Len(stack) = 0 /\ Len(cycles) = 0 /\ stack \in Seq(Frames) /\ cycles \in Seq(Seq(Files))
    BY <1>1
<1>4. \A i \in 1..0 : FALSE
    OBVIOUS
<1>5. StackInv
    BY <1>1, <1>3, <1>4 DEF StackInv
<1>6. ReportInv
    BY <1>3, <1>4 DEF ReportInv
<1>7. KnotsInv
    BY <1>1 DEF KnotsInv
<1> QED  BY <1>2, <1>5, <1>6, <1>7 DEF SearchInv

\* The search for cycles, at every step: the stack is a path of imports, what is
\* reported are cycles, and a file that was left and leads back to itself is in one.
THEOREM SearchIsInductive == GraphSpec => []SearchInv
<1>1. SearchInv /\ [GraphNext]_graphVars => SearchInv'
    <2>1. SearchInv /\ UNCHANGED graphVars => SearchInv'
        <3> SUFFICES ASSUME SearchInv, UNCHANGED graphVars PROVE SearchInv'
            OBVIOUS
        <3>1. UNCHANGED <<edges, import, stack, visited, cycles>>
            BY DEF graphVars
        <3>2. ReportInv' /\ KnotsInv'
            BY <3>1, ReportStays
        <3>3. StackInv'
            BY <3>1 DEF SearchInv, StackInv, Told
        <3> QED  BY <3>1, <3>2, <3>3 DEF SearchInv
    <2> QED  BY <2>1, StartKeeps, CloseCycleKeeps, DescendKeeps, LeaveKeeps DEF GraphNext
<1> QED  BY <1>1, SearchStarts, PTL DEF GraphSpec

\* What is reported are cycles, and no two of them are rotations of each other.
LEMMA ReportedCyclesAreReal == SearchInv => CyclesAreReal
<1> SUFFICES ASSUME SearchInv PROVE CyclesAreReal
    OBVIOUS
<1> DEFINE N == Len(cycles)
<1>1. /\ N \in Nat /\ DOMAIN cycles = 1..N
      /\ \A i \in 1..N : IsCycle(cycles[i])
      /\ \A i, j \in 1..N : i # j => cycles[i] # cycles[j]
    BY LenProperties DEF SearchInv, ReportInv
<1> HIDE DEF N
<1>2. ASSUME NEW i \in 1..N, NEW j \in 1..N, i # j,
             ToSet(cycles[j]) = ToSet(cycles[i]), NEW k \in 0..(Len(cycles[i]) - 1),
             cycles[j] = Rotate(cycles[i], k + 1)
      PROVE  FALSE
    <2> DEFINE c == cycles[i]
               d == cycles[j]
               m == k + 1
    <2>1. IsCycle(c) /\ IsCycle(d) /\ Around(c) /\ Around(d) /\ c # d /\ ToSet(d) = ToSet(c) /\ d = Rotate(c, m)
        BY <1>1, <1>2 DEF IsCycle
    <2>2. k \in 0..(Len(c) - 1)
        OBVIOUS
    <2> HIDE DEF c, d
    <2>3. /\ Len(c) \in Nat /\ Len(c) # 0 /\ DOMAIN c = 1..Len(c) /\ \A l \in 1..Len(c) : c[l] \in Files
        BY <2>1, NextAround
    <2>4. /\ Len(d) \in Nat /\ Len(d) # 0 /\ DOMAIN d = 1..Len(d) /\ \A l \in 1..Len(d) : d[l] \in Files
        BY <2>1, NextAround
    <2>5. m \in 1..Len(c)
        BY <2>2, <2>3
    <2> HIDE DEF m
    <2>6. Len(d) = Len(c) /\ d[1] = c[m]
        BY <2>1, <2>5, TurnedAround
    <2>7. c[1] \in ToSet(d) /\ d[1] \in ToSet(c)
        <3>1. 1 \in 1..Len(c) /\ 1 \in 1..Len(d)
            BY <2>3, <2>4
        <3> QED  BY <2>1, <2>3, <2>4, <3>1 DEF ToSet
    <2>8. c[1] <= d[1] /\ d[1] <= c[1]
        BY <2>1, <2>3, <2>4, <2>7 DEF IsCycle, ToSet
    <2>9. c[1] \in Nat /\ d[1] \in Nat
        <3>1. 1 \in 1..Len(c) /\ 1 \in 1..Len(d)
            BY <2>3, <2>4
        <3> QED  BY <2>3, <2>4, <3>1, ProjectGraphAssumption
    <2>10. c[m] = c[1] /\ 1 \in 1..Len(c)
        BY <2>3, <2>6, <2>8, <2>9
    <2>11. m = 1
        BY <2>1, <2>5, <2>10 DEF Around
    <2>12. \A l \in 1..Len(c) : ((l + 1 - 2) % Len(c)) + 1 = l
        <3> DEFINE n == Len(c)
        <3>1. n \in Nat /\ n # 0
            BY <2>3
        <3> HIDE DEF n
        <3>2. 1 \in 1..n
            BY <3>1
        <3>3. \A l, h \in 1..n : ((l + h - 2) % n) + 1 = IF l + h - 1 <= n THEN l + h - 1 ELSE l + h - 1 - n
            BY <3>1, PlacesAround
        <3>4. \A l \in 1..n : l + 1 - 1 <= n /\ l + 1 - 1 = l
            BY <3>1
        <3>5. \A l \in 1..n : ((l + 1 - 2) % n) + 1 = l
            BY <3>2, <3>3, <3>4
        <3> QED  BY <3>5 DEF n
    <2>13. d = [l \in DOMAIN c |-> c[((l + 1 - 2) % Len(c)) + 1]]
        BY <2>1, <2>11 DEF Rotate
    <2>14. d = [l \in 1..Len(c) |-> c[l]]
        BY <2>3, <2>12, <2>13, Zenon
    <2>15. c \in Seq(Files)
        BY <2>1 DEF Around
    <2>16. c = [l \in 1..Len(c) |-> c[l]]
        BY <2>15
    <2> QED  BY <2>1, <2>14, <2>16
<1>3. ASSUME NEW i \in 1..N
      PROVE  /\ cycles[i] # <<>> /\ DOMAIN cycles[i] = 1..Len(cycles[i])
             /\ \A k \in 1..Len(cycles[i]) : <<cycles[i][k], Successor(cycles[i], k)>> \in edges
             /\ \A k, l \in 1..Len(cycles[i]) : k # l => cycles[i][k] # cycles[i][l]
    <2>1. Around(cycles[i])
        BY <1>1 DEF IsCycle
    <2> DEFINE c == cycles[i]
    <2>2. Around(c)
        BY <2>1
    <2> HIDE DEF c
    <2>3. DOMAIN c = 1..Len(c)
        BY <2>2, NextAround
    <2>4. /\ c # <<>>
          /\ \A k \in 1..Len(c) : <<c[k], Successor(c, k)>> \in edges
          /\ \A k, l \in 1..Len(c) : k # l => c[k] # c[l]
        BY <2>2 DEF Around
    <2> QED  BY <2>3, <2>4 DEF c
<1>4. ASSUME NEW i \in 1..N, NEW j \in 1..N, ToSet(cycles[j]) = ToSet(cycles[i]), i # j,
             NEW k \in 0..(Len(cycles[i]) - 1)
      PROVE  cycles[j] # Rotate(cycles[i], k + 1)
    BY <1>2, <1>4
<1>5. \A i, j \in 1..N : ToSet(cycles[j]) = ToSet(cycles[i]) /\ i # j =>
         \A k \in 0..(Len(cycles[i]) - 1) : cycles[j] # Rotate(cycles[i], k + 1)
    BY <1>4
<1> HIDE DEF IsCycle
<1> QED  BY <1>1, <1>3, <1>5, Zenon DEF CyclesAreReal

\* At the end of the search, each file that leads back to itself has been left.
LEMMA KnotsAreReported == SearchInv => EveryKnotIsReported
<1> SUFFICES ASSUME SearchInv, Searched PROVE EveryKnotIsReported
    BY DEF EveryKnotIsReported
<1> DEFINE reached == [f \in Files |-> Reached(edges, Files, f)]
<1>1. DOMAIN cycles = 1..Len(cycles) /\ KnotsInv /\ visited = Files
    BY LenProperties DEF SearchInv, ReportInv, Searched
<1>2. \A f \in Files : reached[f] = Reached(edges, Files, f)
    OBVIOUS
<1> HIDE DEF reached
<1>3. ASSUME NEW f \in Files, f \in reached[f]
      PROVE  \E i \in DOMAIN cycles : \A g \in ToSet(cycles[i]) : g \in reached[f] /\ f \in reached[g]
    <2>1. PICK i \in 1..Len(cycles) : \A g \in ToSet(cycles[i]) : Mutual(f, g)
        BY <1>1, <1>2, <1>3 DEF KnotsInv
    <2>2. ASSUME NEW g \in ToSet(cycles[i]) PROVE g \in reached[f] /\ f \in reached[g]
        <3>1. g \in Reached(edges, Files, f) /\ f \in Reached(edges, Files, g)
            BY <2>1 DEF Mutual
        <3>2. g \in Files
            BY <3>1 DEF Reached
        <3> QED  BY <1>2, <3>1, <3>2
    <2> QED  BY <1>1, <2>1, <2>2
<1> QED  BY <1>3 DEF EveryKnotIsReported, reached

(***************************************************************************)
(* The guard of one import and the contract of the project.                *)
(***************************************************************************)

\* Specifiers of the project's own files.
Local(specifier) == specifier \in {"relative", "absolute", "beyond", "src"}

\* What an import of a source file must be for the guard to refuse it.
LEMMA GuardRefuses ==
    ASSUME NEW i \in AllImports, i.from \notin Outside, ~IsTest(i.from), i.text # "misquoted",
           i.target # "later", GuardViolations(i) # {}
    PROVE  /\ Local(i.specifier)
           /\ i.specifier # "beyond" /\ i.target # "nothing" =>
                LET source == GuardLayer(i.from)
                    layer == GuardLayer(i.to)
                IN  /\ source # "none" /\ layer # "none"
                    /\ \/ source = "db" /\ layer = "service"
                       \/ source = "repository" /\ layer = "service"
                       \/ source = "controller" /\ layer = "db"
                       \/ source = "db" /\ GuardModule(i.to) # "none" /\ layer # "tests"
                       \/ /\ GuardModule(i.from) # "none" /\ GuardModule(i.to) # "none"
                          /\ GuardModule(i.from) # GuardModule(i.to)
<1> DEFINE local == i.specifier \in {"relative", "absolute", "src"}
           resolved == local /\ i.target \notin {"nothing", "later"}
           source == GuardLayer(i.from)
           layer == GuardLayer(i.to)
           layered == resolved /\ source # "none" /\ layer # "none"
           foreign == /\ layered /\ layer = "service" /\ GuardModule(i.from) # "none"
                      /\ GuardModule(i.to) # "none" /\ GuardModule(i.from) # GuardModule(i.to)
           suffix == i.text = "misquoted"
           vitest == i.text = "no_vitest" /\ i.from.dir \in {"tests", "outside_tests"}
           beyond == i.specifier = "beyond"
           rules == [ MalformedJsSuffix |-> suffix,
                      MissingVitest |-> vitest,
                      AbsoluteOutsideSrc |-> beyond,
                      MissingTarget |-> local /\ ~resolved,
                      DbToService |-> layered /\ source = "db" /\ layer = "service",
                      RepositoryToService |-> layered /\ source = "repository" /\ layer = "service",
                      ControllerToDb |-> layered /\ source = "controller" /\ layer = "db",
                      DbToModule |-> /\ layered /\ source = "db" /\ GuardModule(i.to) # "none"
                                     /\ layer # "tests",
                      ServiceToService |-> foreign /\ source = "service",
                      CrossModuleService |-> foreign /\ source # "service" ]
<1>1. GuardViolations(i) = {r \in DOMAIN rules : rules[r]}
    BY DEF GuardViolations
<1>2. PICK r \in DOMAIN rules : rules[r]
    BY <1>1
<1>3. ~suffix
    OBVIOUS
<1>4. i.from \in Places
    BY DEF AllImports
<1>5. ~vitest
    BY <1>4 DEF IsTest, Places, Layers
<1> HIDE DEF local, resolved, source, layer, layered, foreign, suffix, vitest, beyond
<1>6. \/ local /\ ~resolved
      \/ beyond
      \/ layered /\ source = "db" /\ layer = "service"
      \/ layered /\ source = "repository" /\ layer = "service"
      \/ layered /\ source = "controller" /\ layer = "db"
      \/ layered /\ source = "db" /\ GuardModule(i.to) # "none" /\ layer # "tests"
      \/ foreign
    <2>1. r \in {"MalformedJsSuffix", "MissingVitest", "AbsoluteOutsideSrc",
                "MissingTarget", "DbToService", "RepositoryToService", "ControllerToDb",
                "DbToModule", "ServiceToService", "CrossModuleService"}
        BY <1>2
    <2>2. CASE r = "MissingTarget"
        BY <1>2, <2>2
    <2>3. CASE r = "DbToService"
        BY <1>2, <2>3
    <2>4. CASE r = "RepositoryToService"
        BY <1>2, <2>4
    <2>5. CASE r = "ControllerToDb"
        BY <1>2, <2>5
    <2>6. CASE r = "DbToModule"
        BY <1>2, <2>6
    <2>7. CASE r = "ServiceToService"
        BY <1>2, <2>7
    <2>8. CASE r = "CrossModuleService"
        BY <1>2, <2>8
    <2>9. CASE r = "AbsoluteOutsideSrc"
        BY <1>2, <2>9
    <2>10. CASE r = "MalformedJsSuffix"
        BY <1>2, <1>3, <2>10
    <2>11. CASE r = "MissingVitest"
        BY <1>2, <1>5, <2>11
    <2> QED  BY <2>1, <2>2, <2>3, <2>4, <2>5, <2>6, <2>7, <2>8, <2>9, <2>10, <2>11
<1> QED  BY <1>6 DEF local, resolved, source, layer, layered, foreign, beyond, Local

\* A layer that the guard knows, other than tests, is the contract's.
LEMMA GuardLayerIsALayer ==
    ASSUME NEW place \in Places, GuardLayer(place) # "none"
    PROVE  /\ GuardLayer(place) = place.dir
           /\ ~IsTest(place) => Layer(place) = place.dir /\ Layer(place) # "none"
           /\ GuardModule(place) # "none" => InModule(place) /\ GuardModule(place) = place.module
<1>1. GuardLayer(place) = place.dir
    BY DEF GuardLayer
<1>2. place.dir \in Layers \cup {"tests"}
    BY DEF GuardLayer, Layers
<1>3. ~IsTest(place) => Layer(place) = place.dir /\ Layer(place) # "none"
    BY <1>2 DEF IsTest, Layer, Layers
<1>4. GuardModule(place) # "none" => InModule(place) /\ GuardModule(place) = place.module
    BY DEF GuardModule, InModule
<1> QED  BY <1>1, <1>3, <1>4

\* What layers may not import.
LEMMA LayersKeptApart ==
    /\ "service" \notin LayerMatrix("db") /\ "service" \notin LayerMatrix("repository")
    /\ "db" \notin LayerMatrix("controller")
    /\ LayerMatrix("db") = {"db", "config", "errors"}
BY DEF LayerMatrix

\* The contract refuses an import of a production file that breaks one of its rules.
LEMMA ContractRefuses ==
    ASSUME NEW i \in AllImports, i.from \notin Outside, ~IsTest(i.from), Local(i.specifier),
           \/ i.specifier # "relative" \/ i.target \notin {"later", "code"} \/ IsTest(i.to)
           \/ /\ Layer(i.from) # "none" /\ Layer(i.to) # "none"
              /\ Layer(i.to) \notin LayerMatrix(Layer(i.from))
           \/ InModule(i.from) /\ InModule(i.to) /\ i.from.module # i.to.module
    PROVE  ContractViolations(i) # {}
<1> DEFINE resolved == i.specifier = "relative" /\ i.target \in {"later", "code"} /\ ~IsTest(i.to)
           layered == Layer(i.from) # "none" /\ Layer(i.to) # "none"
           matrix == resolved /\ layered /\ Layer(i.to) \notin LayerMatrix(Layer(i.from))
           isolation == /\ resolved /\ InModule(i.from) /\ InModule(i.to)
                        /\ i.from.module # i.to.module
           rules == [ NonRelative |-> i.specifier \in {"absolute", "beyond", "src", "alias"},
                      MissingTarget |-> i.specifier = "relative" /\ ~resolved,
                      LayerMatrix |-> matrix, ModuleIsolation |-> isolation ]
<1>1. ContractViolations(i) = {r \in DOMAIN rules : rules[r]}
    BY DEF ContractViolations
<1>2. \/ i.specifier \in {"absolute", "beyond", "src", "alias"}
      \/ i.specifier = "relative" /\ ~resolved
      \/ matrix \/ isolation
    BY DEF Local
<1> HIDE DEF resolved, matrix, isolation
<1>3. \E r \in DOMAIN rules : rules[r]
    <2>1. CASE i.specifier \in {"absolute", "beyond", "src", "alias"}
        <3>1. "NonRelative" \in DOMAIN rules /\ rules["NonRelative"]
            BY <2>1
        <3> QED  BY <3>1
    <2>2. CASE i.specifier = "relative" /\ ~resolved
        <3>1. "MissingTarget" \in DOMAIN rules /\ rules["MissingTarget"]
            BY <2>2
        <3> QED  BY <3>1
    <2>3. CASE matrix
        <3>1. "LayerMatrix" \in DOMAIN rules /\ rules["LayerMatrix"]
            BY <2>3
        <3> QED  BY <3>1
    <2>4. CASE isolation
        <3>1. "ModuleIsolation" \in DOMAIN rules /\ rules["ModuleIsolation"]
            BY <2>4
        <3> QED  BY <3>1
    <2> QED  BY <1>2, <2>1, <2>2, <2>3, <2>4
<1> QED  BY <1>1, <1>3

\* What the guard refuses in a source file the contract refuses, but for a misquoted
\* specifier and for a target that is not there yet.
LEMMA GuardRefusesWhatTheContractDoes ==
    ASSUME NEW i \in AllImports, i.from \notin Outside, ~IsTest(i.from), i.text # "misquoted",
           i.target # "later", GuardViolations(i) # {}
    PROVE  ContractViolations(i) # {}
<1> DEFINE source == GuardLayer(i.from)
           layer == GuardLayer(i.to)
<1>1. /\ Local(i.specifier)
      /\ i.specifier # "beyond" /\ i.target # "nothing" =>
           /\ source # "none" /\ layer # "none"
           /\ \/ source = "db" /\ layer = "service"
              \/ source = "repository" /\ layer = "service"
              \/ source = "controller" /\ layer = "db"
              \/ source = "db" /\ GuardModule(i.to) # "none" /\ layer # "tests"
              \/ /\ GuardModule(i.from) # "none" /\ GuardModule(i.to) # "none"
                 /\ GuardModule(i.from) # GuardModule(i.to)
    BY GuardRefuses
<1>4. /\ i.from \in Places /\ i.to \in Places
      /\ i.specifier \in Specifiers /\ i.target \in Targets
    BY DEF AllImports
<1> HIDE DEF source, layer
<1>2. CASE i.specifier # "relative" \/ i.target # "code" \/ IsTest(i.to)
    BY <1>1, <1>2, ContractRefuses
<1>3. CASE i.specifier = "relative" /\ i.target = "code" /\ ~IsTest(i.to)
    <2>1. source # "none" /\ layer # "none"
        BY <1>1, <1>3
    <2>2. /\ Layer(i.from) = source /\ Layer(i.to) = layer
          /\ GuardModule(i.from) # "none" => InModule(i.from) /\ GuardModule(i.from) = i.from.module
          /\ GuardModule(i.to) # "none" => InModule(i.to) /\ GuardModule(i.to) = i.to.module
        BY <1>3, <1>4, <2>1, GuardLayerIsALayer DEF source, layer
    <2>3. CASE \/ source = "db" /\ layer = "service"
               \/ source = "repository" /\ layer = "service"
               \/ source = "controller" /\ layer = "db"
        <3>1. Layer(i.to) \notin LayerMatrix(Layer(i.from))
            BY <2>2, <2>3, LayersKeptApart
        <3> QED  BY <1>1, <2>1, <2>2, <3>1, ContractRefuses
    <2>4. CASE source = "db" /\ GuardModule(i.to) # "none" /\ layer # "tests"
        <3>1. layer \notin {"db", "config", "errors"}
            BY <2>2, <2>4 DEF layer, GuardLayer
        <3>2. Layer(i.to) \notin LayerMatrix(Layer(i.from))
            BY <2>2, <2>4, <3>1, LayersKeptApart
        <3> QED  BY <1>1, <2>1, <2>2, <3>2, ContractRefuses
    <2>5. CASE /\ GuardModule(i.from) # "none" /\ GuardModule(i.to) # "none"
               /\ GuardModule(i.from) # GuardModule(i.to)
        <3>1. InModule(i.from) /\ InModule(i.to) /\ i.from.module # i.to.module
            BY <2>2, <2>5
        <3> QED  BY <1>1, <3>1, ContractRefuses
    <2> QED  BY <1>1, <1>3, <2>3, <2>4, <2>5
<1> QED  BY <1>2, <1>3

\* The import in hand is one that the guard and the contract are made for.
LEMMA GuardIsNeverStricter == SearchInv => GuardIsNoStricter
<1> SUFFICES ASSUME SearchInv, import # NoImport, import.text # "misquoted",
                    import.from \notin Outside, ~IsTest(import.from), import.target # "later",
                    GuardViolations(import) # {}
             PROVE  ContractViolations(import) # {}
    BY DEF GuardIsNoStricter
<1>1. import \in AllImports
    BY DEF SearchInv
<1> QED  BY <1>1, GuardRefusesWhatTheContractDoes

\* The verdict on a project's imports can be relied on, whatever its files, modules
\* and imports: what is reported are cycles, each once; every knot of imports has one
\* in the report; and what the precommit guard refuses the validation of the finished
\* project refuses too, but for misquoted specifiers, files outside src, tests and
\* targets that a later step creates.
THEOREM ImportsAreJudgedRightly == GraphSpec => []GraphIsJudgedRightly
<1>1. SearchInv => GraphIsJudgedRightly
    BY ReportedCyclesAreReal, KnotsAreReported, GuardIsNeverStricter DEF GraphIsJudgedRightly
<1> QED  BY <1>1, SearchIsInductive, PTL

=============================================================================
