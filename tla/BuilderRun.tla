----------------------------- MODULE BuilderRun -----------------------------
(***************************************************************************)
(* executeWithValidationAutoCorrection: a builder request executes its     *)
(* run, validates what it produced, and goes on appending correction steps *)
(* to the plan while validation fails and attempts are left.  Stubs it     *)
(* wrote to make imports resolve are debt, which one more attempt is to    *)
(* pay.  Between requests the run can be validated and resumed by hand.    *)
(***************************************************************************)
EXTENDS CorrectionPlanning, SequencesExt

CONSTANTS
    Possible,         \* the findings validations of this instance can report
    MaxAttempts,      \* MAX_VALIDATION_AUTO_CORRECTION_ATTEMPTS
    MaxInvariantRetries, \* MAX_PRECOMMIT_INVARIANT_RETRIES_PER_ATTEMPT
    MaxStops, MaxResumes \* bounds

ASSUME BuilderAssumption ==
    Possible \subseteq Findings /\ {MaxAttempts, MaxInvariantRetries, MaxStops, MaxResumes} \subseteq Nat

VARIABLES
    run,     \* agent_runs: status, correctionAttempts, validationStatus, and the
             \* readiness check: not asked for, not made, or its verdict
    todo,    \* the steps of the plan from currentStepIndex on
    head,    \* the current commit: its findings, what the import recipe makes of them,
             \* and whether it holds a stub the recipe wrote
    judged,  \* history: validationStatus is about the current commit
    call,    \* the request: where it stands and what it keeps in memory
    stalls,  \* learning_events: stalled micro repairs among the newest five, in a row
    debt,    \* the stub debt artifact
    stops, resumes

builderVars == <<run, todo, head, judged, call, stalls, debt, stops, resumes>>

Steps == Phases \cup {"save", "generate", "stub", "rewrite"}
Guarded == Steps \ {"save", "stub", "rewrite", "debt_resolution"}  \* ai_mutation
Titled == Steps \ {"generate", "single"}
NoAttempt == [at |-> "none"]
NoCall == [at |-> "idle", auto |-> FALSE, second |-> FALSE, invariant |-> FALSE, retries |-> 0,
           pending |-> NoAttempt, phases |-> {}, provisional |-> FALSE,
           blind |-> FALSE,     \* history: an event, artifact or query was lost
           leftover |-> FALSE]  \* history: steps of a given up correction stayed in the plan

BuilderTypeOK ==
    /\ run.status \in {"none", "running", "complete", "failed"}
    /\ run.attempts \in 0..MaxAttempts /\ run.validation \in {"none", "passed", "failed"}
    /\ run.ready \in {"off", "none", "ok", "failed"}
    /\ todo \in Seq(Steps) /\ judged \in BOOLEAN
    /\ head \in [findings : SUBSET Possible, stub : {"none", "used", "unused"},
                 recipe : {"miss", "stub", "rewrite"}]
    /\ call.at \in {"idle", "loop", "completed", "failed", "validate", "learn", "decide",
                    "returned", "stopped"}
    /\ call.retries \in 0..MaxInvariantRetries + 1
    /\ stalls \in 0..5 /\ debt \in {"none", "open", "closed"}
    /\ stops \in 0..MaxStops /\ resumes \in 0..MaxResumes

BuilderInit ==
    /\ run = [status |-> "none", attempts |-> 0, validation |-> "none", ready |-> "off"]
    /\ todo = <<>> /\ head = [findings |-> {}, stub |-> "none", recipe |-> "miss"] /\ judged = FALSE
    /\ call = NoCall /\ stalls = 0 /\ debt = "none" /\ stops = 0 /\ resumes = 0

\* createAndExecuteRun; only a plan with an ai_mutation is corrected.
CreateRun ==
    /\ run.status = "none"
    /\ \E plan \in {<<"save">>, <<"generate">>, <<"generate", "generate">>} :
         /\ todo' = plan
         /\ call' = [NoCall EXCEPT !.at = "loop", !.auto = "generate" \in ToSet(plan)]
    /\ run' = [run EXCEPT !.status = "running"]
    /\ UNCHANGED <<head, judged, stalls, debt, stops, resumes>>

(***************************************************************************)
(* executeLoop.  The builder profile switches the validation of single     *)
(* steps off; the precommit guard looks at generated files only.           *)
(***************************************************************************)

\* The steps an attempt has run, for its learning event.
Ran(step) ==
    IF call.pending = NoAttempt THEN NoAttempt
    ELSE [call.pending EXCEPT !.first = IF @ = "none" THEN step ELSE @,
                              !.phases = IF step \in Titled THEN @ \cup {step} ELSE @]

Remade(step) ==
    LET stubs == IF step = "stub" THEN {"used"}
                 ELSE IF head.stub = "used" THEN {"used", "unused", "none"} ELSE {head.stub, "none"}
    IN  {made \in [findings : SUBSET Possible, stub : stubs, recipe : {"miss", "stub", "rewrite"}] :
            made.recipe # "miss" => "import" \in Clusters(made.findings)}

ExecuteStep ==
    LET last == Len(todo) = 1
        next == [call EXCEPT !.pending = Ran(Head(todo)), !.at = IF last THEN "completed" ELSE "loop"]
    IN
    /\ call.at = "loop"
    /\ \/ \E made \in Remade(Head(todo)) : head' = made /\ judged' = FALSE
       \/ Head(todo) # "stub" /\ UNCHANGED <<head, judged>>
    /\ todo' = Tail(todo) /\ call' = next
    /\ run' = [run EXCEPT !.status = IF last THEN "complete" ELSE "running"]
    /\ UNCHANGED <<stalls, debt, stops, resumes>>

\* The step is undone, by the precommit guard or for another reason.
FailStep ==
    /\ call.at = "loop"
    /\ \E invariant \in IF Head(todo) \in Guarded THEN BOOLEAN ELSE {FALSE} :
         call' = [call EXCEPT !.at = "failed", !.pending = Ran(Head(todo)), !.invariant = invariant]
    /\ run' = [run EXCEPT !.status = "failed"]
    /\ UNCHANGED <<todo, head, judged, stalls, debt, stops, resumes>>

Return ==
    call' = [NoCall EXCEPT !.at = "returned", !.auto = call.auto, !.blind = call.blind,
                        !.leftover = call.leftover] /\ UNCHANGED <<run, todo>>

(***************************************************************************)
(* Before the first validation: a step the guard refused is followed by    *)
(* corrections, three times at most; the step itself is given up.          *)
(***************************************************************************)

\* queuePrecommitInvariantCorrection; nothing to classify, or no plan: the end.
QueueInvariantCorrection(violations, scoped) ==
    LET profile == ClassifyInvariant(violations)
        retry == call.retries + 1
    IN
    /\ profile.correct /\ profile.reason # "none" /\ retry <= MaxInvariantRetries
    /\ todo' = PlanCorrection(profile, scoped) \o Tail(todo)
    /\ run' = [run EXCEPT !.status = "running"]
    /\ call' = [call EXCEPT !.at = "loop", !.invariant = FALSE, !.retries = retry]

FirstLoop ==
    /\ call.at = "failed" /\ ~call.second
    /\ \/ Return
       \/ /\ call.auto /\ call.invariant
          /\ \E violations \in SUBSET {"contract", "layer", "import"}, scoped \in BOOLEAN :
               QueueInvariantCorrection(violations, scoped)
    /\ UNCHANGED <<head, judged, stalls, debt, stops, resumes>>

(***************************************************************************)
(* Validation and correction.                                              *)
(***************************************************************************)

\* Mutant: the attempt is not counted.
CompletedUncounted ==
    /\ call.at = "completed"
    /\ IF ~call.auto THEN Return
       ELSE /\ call' = [call EXCEPT !.at = "validate", !.second = TRUE,
                          !.retries = IF call.second THEN 0 ELSE @]
            /\ UNCHANGED <<run, todo>>
    /\ UNCHANGED <<head, judged, stalls, debt, stops, resumes>>

\* The attempt is counted when all of its steps are done.
Completed ==
    /\ call.at = "completed"
    /\ IF ~call.auto THEN Return
       ELSE /\ run' = IF call.second THEN [run EXCEPT !.attempts = @ + 1] ELSE run
            /\ call' = [call EXCEPT !.at = "validate", !.second = TRUE,
                          !.retries = IF call.second THEN 0 ELSE @]
            /\ UNCHANGED todo
    /\ UNCHANGED <<head, judged, stalls, debt, stops, resumes>>

\* Mutant: what a given up correction left behind is not validated again.
PassOverUnjudged ==
    /\ call.at = "failed" /\ call.second
    /\ IF ~call.invariant \/ call.retries >= MaxInvariantRetries THEN Return
       ELSE /\ run' = [run EXCEPT !.status = "complete"] /\ todo' = Tail(todo)
            /\ call' = [NoCall EXCEPT !.at = "returned", !.auto = call.auto]
    /\ UNCHANGED <<head, judged, stalls, debt, stops, resumes>>

\* A correction the guard refused is passed over: the run counts as complete
\* again, what the correction had left to do included, and is validated.
PassOver ==
    /\ call.at = "failed" /\ call.second
    /\ IF ~call.invariant \/ call.retries >= MaxInvariantRetries THEN Return
       ELSE /\ run' = [run EXCEPT !.status = "complete"] /\ todo' = Tail(todo)
            /\ call' = [call EXCEPT !.at = "validate", !.invariant = FALSE, !.retries = @ + 1,
                          !.leftover = @ \/ Len(todo) > 1]
    /\ UNCHANGED <<head, judged, stalls, debt, stops, resumes>>

\* validateRunOutput at currentCommitHash.
Judge(ready) ==
    /\ judged' = TRUE
    /\ run' = [run EXCEPT !.validation = IF head.findings = {} THEN "passed" ELSE "failed",
                          !.ready = ready]

\* persistRunValidationSnapshot keeps nothing of a readiness check.
Validate ==
    /\ call.at = "validate" /\ Judge("off")
    /\ call' = [call EXCEPT !.at = IF call.pending = NoAttempt THEN "decide" ELSE "learn",
                            !.phases = {}, !.provisional = FALSE]
    /\ UNCHANGED <<todo, head, stalls, debt, stops, resumes>>

\* The stub debt artifacts of an attempt.
DebtRecord(attempt, paid) ==
    IF attempt.first = "stub" THEN "open"
    ELSE IF attempt.phases # {"debt_resolution"} THEN debt ELSE IF paid THEN "closed" ELSE "open"

\* persistLearningTelemetry: the event and the artifacts are best effort.
Learn ==
    LET p == call.pending
        paid == head.stub # "used"
        outcome == AttemptOutcome(p.before, p.clusters, head.findings, p.phases, paid)
    IN
    /\ call.at = "learn"
    /\ \E recorded, written \in BOOLEAN :
         /\ stalls' = IF ~recorded THEN stalls
                      ELSE IF p.phases # {"micro"} \/ outcome # "stalled" THEN 0
                      ELSE IF stalls < 5 THEN stalls + 1 ELSE 5
         /\ debt' = IF written THEN DebtRecord(p, paid) ELSE debt
         /\ call' = [call EXCEPT !.at = "decide", !.pending = NoAttempt, !.phases = p.phases,
                       !.provisional = p.first = "stub" /\ outcome = "success"
                                       /\ p.phases # {"debt_resolution"},
                       !.blind = @ \/ ~recorded \/ ~written]
    /\ UNCHANGED <<run, todo, head, judged, stops, resumes>>

\* Correction steps go to the end of the plan.
Queue(plan, clusters, blind) ==
    /\ todo' = todo \o plan
    /\ run' = [run EXCEPT !.status = "running"]
    /\ call' = [call EXCEPT !.at = "loop", !.blind = @ \/ blind,
                  !.pending = [at |-> "pending", first |-> "none", phases |-> {},
                               before |-> head.findings, clusters |-> clusters]]

\* Valid: a stub that made it so is replaced, if an attempt is left.
Accept ==
    /\ call.at = "decide" /\ head.findings = {}
    /\ IF call.provisional /\ run.attempts < MaxAttempts
       THEN Queue(<<"debt_resolution">>, {"import"}, FALSE) ELSE Return
    /\ UNCHANGED <<head, judged, stalls, debt, stops, resumes>>

Correctable(profile) ==
    profile.correct /\ profile.reason # "none" /\ run.attempts < MaxAttempts

GiveUp ==
    /\ call.at = "decide" /\ head.findings # {}
    /\ ~Correctable(ClassifyValidation(head.findings)) /\ Return
    /\ UNCHANGED <<head, judged, stalls, debt, stops, resumes>>

\* buildDeterministicImportResolutionPlan: stubs win over rewritten imports.
ImportRecipe ==
    LET profile == ClassifyValidation(head.findings)
    IN
    /\ call.at = "decide" /\ head.findings # {} /\ Correctable(profile)
    /\ head.recipe # "miss" /\ Queue(<<head.recipe>>, profile.clusters, FALSE)
    /\ UNCHANGED <<head, judged, stalls, debt, stops, resumes>>

\* The guardrails may ask for a larger repair.  A query that fails is logged:
\* one for imports skips the recipe too, one for stalls leaves the profile.
PlannedCorrection ==
    LET profile == ClassifyValidation(head.findings)
    IN
    /\ call.at = "decide" /\ head.findings # {} /\ Correctable(profile)
    /\ \E blindImports \in IF "import" \in profile.clusters THEN BOOLEAN ELSE {FALSE} :
         /\ head.recipe = "miss" \/ blindImports
         /\ \/ Return                                                  \* no plan
            \/ \E unstable, session, several, scoped, blindStalls \in BOOLEAN :
                 LET pressed == IF unstable /\ ~blindImports /\ "import" \in profile.clusters
                                THEN [profile EXCEPT !.collapse = TRUE] ELSE profile
                     asked == IF blindStalls THEN pressed
                              ELSE Escalate(pressed, stalls, session, several)
                 IN  Queue(PlanCorrection(asked, scoped), asked.clusters, blindImports \/ blindStalls)
    /\ UNCHANGED <<head, judged, stalls, debt, stops, resumes>>

(***************************************************************************)
(* Between requests.                                                       *)
(***************************************************************************)

AtRest == call.at \in {"returned", "stopped"}

\* The process stops, or an error leaves the call: the run stays as it is.
Stop ==
    /\ call.at \notin {"idle", "returned", "stopped"} /\ stops < MaxStops /\ stops' = stops + 1
    /\ call' = [NoCall EXCEPT !.at = "stopped"]
    /\ UNCHANGED <<run, todo, head, judged, stalls, debt, resumes>>

\* queueResumeRun and a worker: the default profile, which does not validate.
ResumeByWorker ==
    /\ AtRest /\ run.status # "complete" /\ todo # <<>>
    /\ resumes < MaxResumes /\ resumes' = resumes + 1
    /\ run' = [run EXCEPT !.status = "running"]
    /\ call' = [NoCall EXCEPT !.at = "loop"]
    /\ UNCHANGED <<todo, head, judged, stalls, debt, stops>>

\* POST validate, with the readiness check or without; once it was asked for,
\* every decision asks for it.  An executing run is refused.
ValidateByHand ==
    /\ AtRest /\ run.status \in {"complete", "failed"}
    /\ \E ready \in {"ok", "failed", IF run.ready = "off" THEN "off" ELSE "none"} : Judge(ready)
    /\ UNCHANGED <<todo, head, call, stalls, debt, stops, resumes>>

\* buildGovernanceDecision, which may be asked at any time: PASS without any
\* reason.  The runs here have a commit and a contract their release supports.
GovernanceReasons ==
    (IF run.status = "complete" THEN {} ELSE {"RUN_NOT_COMPLETE"})
    \cup (CASE run.validation = "none" -> {"RUN_NOT_VALIDATED"}
            [] run.validation = "failed" -> {"RUN_VALIDATION_FAILED"}
            [] OTHER -> {})
    \cup (CASE run.ready = "none" -> {"RUN_V1_READY_NOT_RUN"}
            [] run.ready = "failed" -> {"RUN_V1_READY_FAILED"}
            [] OTHER -> {})

BuilderNext ==
    \/ CreateRun \/ ExecuteStep \/ FailStep \/ FirstLoop \/ Completed \/ PassOver
    \/ Validate \/ Learn \/ Accept \/ GiveUp \/ ImportRecipe \/ PlannedCorrection
    \/ Stop \/ ResumeByWorker \/ ValidateByHand

BuilderSpec == BuilderInit /\ [][BuilderNext]_builderVars

\* Planner, validation and store answer.
CallSteps == ExecuteStep \/ FailStep \/ FirstLoop \/ Completed \/ PassOver \/ Validate \/ Learn
             \/ Accept \/ GiveUp \/ ImportRecipe \/ PlannedCorrection
FairBuilderSpec == BuilderSpec /\ WF_builderVars(CallSteps)

(***************************************************************************)
(* Properties.                                                             *)
(***************************************************************************)

\* What a request reports complete was validated as it is, whatever corrections
\* were tried, refused or passed over: the deployment gate reads that status.
ReturnedIsJudged ==
    call.at = "returned" /\ call.auto /\ run.status = "complete" =>
        judged /\ (run.validation = "passed" <=> head.findings = {})

\* A stub that is still imported is on record as open debt when its request is
\* over, unless a write was lost, or steps of a correction that was given up ran
\* first: only the first step of an attempt is asked for the stubs it wrote.
StubsAreOnRecord ==
    call.at = "returned" /\ call.auto /\ head.stub = "used" /\ ~call.blind /\ ~call.leftover =>
        debt = "open"

\* A run passes governance for what was validated.  Until its validation is
\* there, an attempt that has run passes with the validation before it; and a
\* run that was stopped or resumed keeps the one it had.
DecisionIsOfTheJudged ==
    GovernanceReasons = {} =>
        \/ judged /\ head.findings = {}
        \/ call.at \in {"completed", "validate"}
        \/ stops > 0 \/ resumes > 0

\* All three: what is told of a run, and left on record, is so.
AnswersAreHonest == ReturnedIsJudged /\ StubsAreOnRecord /\ DecisionIsOfTheJudged

\* Micro repairs do not follow each other: one that did not make the run valid
\* counts as stalled and the next correction is a larger one, unless its event
\* or the query for it was lost.
NoSecondMicroRepair ==
    [][call.at = "decide" /\ call'.at = "loop" /\ Last(todo') = "micro" =>
         call.phases # {"micro"} \/ call'.blind]_builderVars

\* Attempts and retries are bounded, so a request comes to its end.
RequestEnds == call.at = "loop" ~> AtRest

\* A run that is complete and "passed" is complete as it was validated.
PassedMeansValidated ==
    AtRest /\ run.status = "complete" /\ run.validation = "passed" => judged
=============================================================================
