--------------------------- MODULE MCLifecycleRuns ---------------------------
(***************************************************************************)
(* Two components that share no state, checked in one run: the lifecycle   *)
(* runs and the checks of generated projects.  part says which one moves.  *)
(***************************************************************************)
EXTENDS LifecycleRuns, ProjectValidation, TLC

CONSTANT v1

VARIABLE part

mcVars == <<lifecycleVars, validationVars, part>>

AskOf(s, c, o) == [steps |-> s, corrections |-> c, optimizations |-> o]

Asks == {AskOf(NotGiven, NotGiven, 1), AskOf(2, 1, 1), AskOf(3, 1, 0), AskOf(4, 0, 2)}
Steps == 0..2

MCKindsOf == v1 :> {"heavy", "readiness", "preview"}
Sound == [light |-> 0, config |-> TRUE, package |-> TRUE, prisma |-> TRUE, scripts |-> Scripts,
          dockerfile |-> TRUE, stubs |-> FALSE]
MCProjects ==
    {Sound, [Sound EXCEPT !.scripts = {"migration", "start"}, !.stubs = TRUE],
     [Sound EXCEPT !.package = FALSE, !.light = 2, !.dockerfile = FALSE]}

MCInit == LifecycleInit /\ ValidationInit /\ part \in {"lifecycle", "validation"}

InLifecycle(A) == part = "lifecycle" /\ A /\ UNCHANGED <<validationVars, part>>
InValidation(A) == part = "validation" /\ A /\ UNCHANGED <<lifecycleVars, part>>

MCNext ==
    \/ part = "lifecycle" /\ LifecycleNext /\ UNCHANGED <<validationVars, part>>
    \/ part = "validation" /\ ValidationNext /\ UNCHANGED <<lifecycleVars, part>>

\* The fairness of FairLifecycleSpec and of FairValidationSpec.
MCSpec ==
    /\ MCInit /\ [][MCNext]_mcVars
    /\ \A s \in Server :
         /\ WF_mcVars(InLifecycle(DrainStep(s)))
         /\ SF_mcVars(InLifecycle(LockRun(s)))
         /\ \A r \in Run : WF_mcVars(InLifecycle(Enqueue(s, r)))
    /\ \A t \in Tick : WF_mcVars(InLifecycle(ExecuteNextStep(t)))
    /\ \A c \in Checks :
         WF_mcVars(InValidation(CheckStep(c))) /\ WF_mcVars(InValidation(ApplicationEnds(c)))
=============================================================================
