----------------------------- MODULE MCPipelines -----------------------------
(***************************************************************************)
(* Four components that share no state, checked in one run: a builder run  *)
(* with its corrections, the search for import cycles that a validation    *)
(* makes, deployments, and the graph store.  part says which one moves.    *)
(***************************************************************************)
EXTENDS BuilderRun, ProjectGraph, Deployments, ExecutionGraphs

CONSTANTS w1, w2, w3

VARIABLE part

mcVars == <<builderVars, graphVars, deploymentVars, storeVars, part>>

MCFiles == 1..4
MCKindsOf ==
    w1 :> {"graph"} @@ w2 :> {"revision", "event"} @@ w3 :> {"revision", "event", "state_run"}
MCHashOf == <<1, 2, 1>>

\* Only the search for cycles starts from more than one state.
MCInit ==
    /\ BuilderInit /\ GraphInit /\ DepInit /\ StoreInit
    /\ part \in IF edges = {} /\ import = NoImport
                THEN {"builder", "graph", "deployments", "store"} ELSE {"graph"}

MCNext ==
    \/ part = "builder" /\ BuilderNext /\ UNCHANGED <<graphVars, deploymentVars, storeVars, part>>
    \/ part = "graph" /\ GraphNext /\ UNCHANGED <<builderVars, deploymentVars, storeVars, part>>
    \/ part = "deployments" /\ DepNext /\ UNCHANGED <<builderVars, graphVars, storeVars, part>>
    \/ part = "store" /\ StoreNext /\ UNCHANGED <<builderVars, graphVars, deploymentVars, part>>

InBuilder(A) == part = "builder" /\ A /\ UNCHANGED <<graphVars, deploymentVars, storeVars, part>>
InDeployments(A) == part = "deployments" /\ A /\ UNCHANGED <<builderVars, graphVars, storeVars, part>>

\* The fairness of FairBuilderSpec and of FairDepSpec.
MCSpec ==
    /\ MCInit /\ [][MCNext]_mcVars
    /\ WF_mcVars(InBuilder(CallSteps))
    /\ WF_mcVars(InDeployments(Boot /\ UNCHANGED depVars)) /\ WF_mcVars(InDeployments(StartServer))
    /\ WF_mcVars(InDeployments(ShutdownEnds /\ DropPipelines /\ UNCHANGED mishaps))
    /\ \A d \in Requests : WF_mcVars(InDeployments(DepProgress(d)))

=============================================================================
