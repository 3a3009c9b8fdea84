-------------------------- MODULE CorrectionScope ---------------------------
(***************************************************************************)
(* The scope of corrections.  When the runtime or the heavy validation     *)
(* fails, the failure is classified and the planner is asked for one step  *)
(* that stays within a constraint; the deterministic recipes write their   *)
(* own constraint.  Before it is committed the step passes the gates of    *)
(* executeLoop, which ask the constraint in the plan; once it is, the      *)
(* correction policy asks again, and asks the execution config as well,    *)
(* which a resume may have replaced in between.                            *)
(*                                                                         *)
(* Files are counted, diffs are in kilobytes, a path is the place it       *)
(* belongs to, the most specific one an allowed prefix names.              *)
(***************************************************************************)
EXTENDS Integers

CONSTANTS
    RunConfigs,      \* execution configs a run is started or resumed with
    ChangedPlaces,   \* the places the changes of this instance are made in
    Counts, Sizes,   \* files and kilobytes a correction changes
    MaxCorrections,  \* maxRuntimeCorrectionAttempts, maxHeavyCorrectionAttempts
    MaxTrouble       \* bound on resumes and on stops of the process

VARIABLES
    config,      \* the execution config of the current execution
    status,      \* of the run
    correction,  \* the correction step the run has come to
    planned,     \* the correction steps in the plan, by their prefix
    overruled,   \* history: how many corrections the policy refused the run has gone past
    trouble

scopeVars == <<config, status, correction, planned, overruled, trouble>>

Source == {"entry", "config", "errors", "middleware", "modules", "db", "other_source"}
Tests == {"integration_tests", "other_tests"}
\* "named": the very files a recipe names; "elsewhere": no prefix reaches it.
ScopePlaces == Source \cup Tests \cup
    {"prisma", "package.json", "tsconfig.json", ".env.example", "Dockerfile", ".dockerignore",
     "named", "elsewhere"}

Scope == [
    runtime_boot |-> Source \cup {"prisma", "package.json", ".env.example", "Dockerfile"},
    runtime_health |-> Source \cup {"integration_tests", "package.json"},
    typescript_compile |-> Source \cup Tests \cup {"prisma", "package.json", "tsconfig.json"},
    test_failure |-> Source \cup Tests \cup {"package.json"},
    migration_failure |-> {"prisma", "db", "config", "package.json", ".env.example"},
    architecture_violation |-> (Source \ {"other_source"}) \cup Tests,
    security_baseline |-> (Source \ {"db", "other_source"}) \cup Tests
                          \cup {".env.example", "Dockerfile", ".dockerignore"},
    unknown |-> Source \cup Tests \cup {"prisma", "package.json"}]

FileCap == [runtime_boot |-> 6, runtime_health |-> 6, typescript_compile |-> 8,
            test_failure |-> 8, migration_failure |-> 6, architecture_violation |-> 12,
            security_baseline |-> 10, unknown |-> 5]
SizeCap == [runtime_boot |-> 120, runtime_health |-> 120, typescript_compile |-> 160,
            test_failure |-> 160, migration_failure |-> 140, architecture_violation |-> 220,
            security_baseline |-> 180, unknown |-> 100]

PolicyModes == {"off", "warn", "enforce"}
CorrectionChanges == [files : Counts, size : Sizes, places : {{p} : p \in ChangedPlaces}]

ASSUME ScopeAssumption ==
    /\ RunConfigs \subseteq [files : Nat \ {0}, size : Nat \ {0}, policy : PolicyModes]
    /\ Counts \subseteq 1..15          \* write_file takes no more
    /\ Sizes \subseteq Nat /\ ChangedPlaces \subseteq ScopePlaces
    /\ {MaxCorrections, MaxTrouble} \subseteq Nat

(***************************************************************************)
(* classifyFailureForCorrection.                                           *)
(***************************************************************************)

FailureKinds == {"migration", "typescript", "test", "boot"}
\* What the logs look like; every sign of bad health is one of a bad boot too.
Signals == {"health", "boot", "none"}

ByLogs(signal) ==
    IF signal = "health" THEN "runtime_health"
    ELSE IF signal = "boot" THEN "runtime_boot" ELSE "unknown"

\* chooseIntent: failed checks count in the optimization phase only; then the
\* first kind of failure in the order of the code.
ChooseIntent(phase, checks, kinds, signal) ==
    IF phase = "optimization" /\ "architecture" \in checks THEN "architecture_violation"
    ELSE IF phase = "optimization" /\ checks \cap {"production_config", "security"} # {}
    THEN "security_baseline"
    ELSE IF "migration" \in kinds THEN "migration_failure"
    ELSE IF "typescript" \in kinds THEN "typescript_compile"
    ELSE IF "test" \in kinds THEN "test_failure"
    ELSE IF "boot" \in kinds /\ signal # "health" THEN "runtime_boot"
    ELSE ByLogs(signal)

Least(a, b) == IF a <= b THEN a ELSE b

\* buildConstraint: the caps of the intent, below those of the config.
BuildConstraint(intent) ==
    [intent |-> intent, places |-> Scope[intent],
     files |-> Least(config.files, FileCap[intent]),
     size |-> Least(config.size, SizeCap[intent])]

\* The constraint of the import recipe and of debt resolution for n paths.
RecipeConstraint(n) ==
    [intent |-> "typescript_compile", places |-> {"named"}, files |-> Least(n, 8), size |-> 160]

NoConstraint == [intent |-> "unknown", places |-> {}, files |-> 0, size |-> 0]

(***************************************************************************)
(* Planning.                                                               *)
(***************************************************************************)

NoCorrection ==
    [from |-> "none", constraint |-> NoConstraint, change |-> NoConstraint, at |-> "completed",
     under |-> NoConstraint, landed |-> FALSE, refused |-> FALSE]

NewCorrection(from, constraint, change) ==
    [from |-> from, constraint |-> constraint, change |-> change, at |-> "queued",
     under |-> config,   \* history: the config it was made under
     landed |-> FALSE,   \* its commit is at the head of the branch
     refused |-> FALSE]  \* history: the policy has refused it

PrefixOf(from) == IF from = "runtime" THEN "runtime_correction" ELSE "validation_correction"

Insert(from, constraint, change) ==
    /\ correction' = NewCorrection(from, constraint, change)
    /\ planned' = [planned EXCEPT ![PrefixOf(from)] = @ + 1]

\* The plan may hold a step that is only called like a correction.
ScopeInit ==
    /\ config \in RunConfigs /\ status = "running" /\ overruled = 0 /\ trouble = 0
    /\ \/ /\ correction = NoCorrection
          /\ planned = [runtime_correction |-> 0, validation_correction |-> 0]
       \/ /\ \E change \in CorrectionChanges :
               correction = NewCorrection("plan", NoConstraint, change)
          /\ planned = [runtime_correction |-> 1, validation_correction |-> 0]

BetweenSteps == status = "running" /\ correction.at = "completed"

\* The planner answers with one write_file or apply_patch step, or throws.
PlanRuntimeCorrection(from, intent) ==
    /\ \E change \in CorrectionChanges : Insert(from, BuildConstraint(intent), change)
    /\ status' = IF from = "runtime" THEN "correcting" ELSE "optimizing"

PlanningFails == status' = "failed" /\ UNCHANGED <<correction, planned>>

\* queueRuntimeCorrection: no failure report is passed, only the logs.
QueueRuntime ==
    /\ BetweenSteps /\ planned.runtime_correction < MaxCorrections
    /\ \/ \E intent \in {ChooseIntent("goal", {}, {}, signal) : signal \in Signals} :
             PlanRuntimeCorrection("runtime", intent)
       \/ PlanningFails
    /\ UNCHANGED <<config, overruled, trouble>>

HeavyIntents ==
    {ChooseIntent("optimization", checks, kinds, signal) :
         checks \in SUBSET {"architecture", "security"}, kinds \in SUBSET FailureKinds,
         signal \in Signals}

AskHeavy ==
    /\ planned.validation_correction < MaxCorrections
    /\ \E intent \in HeavyIntents : PlanRuntimeCorrection("heavy", intent)

\* queueHeavyValidationCorrection, after a step that is no correction.
QueueHeavy ==
    /\ BetweenSteps
    /\ AskHeavy \/ PlanningFails
    /\ UNCHANGED <<config, overruled, trouble>>

\* A builder request appends a deterministic plan for n paths; stubs are written
\* for some of them.
QueueRecipe ==
    /\ BetweenSteps /\ planned.validation_correction < MaxCorrections
    /\ \E n \in Counts, change \in CorrectionChanges :
         /\ change.places \subseteq {"named"} /\ change.files <= n
         /\ Insert("recipe", RecipeConstraint(n), change)
    /\ status' = "running" /\ UNCHANGED <<config, overruled, trouble>>

(***************************************************************************)
(* Execution.                                                              *)
(***************************************************************************)

Executing == status \in {"running", "correcting", "optimizing"}

\* isPathAllowedByConstraint: no prefixes, no restriction.
Allowed(constraint, change) == constraint.places = {} \/ change.places \subseteq constraint.places

\* Mutant: what was staged is not measured.
PassesGatesUnmeasured(c) ==
    \/ c.constraint = NoConstraint
    \/ c.change.files <= c.constraint.files /\ Allowed(c.constraint, c.change)

\* assertCorrectionChangeScope and assertCorrectionStagedBounds; a step without
\* a constraint passes.
PassesGates(c) ==
    \/ c.constraint = NoConstraint
    \/ /\ c.change.files <= c.constraint.files /\ Allowed(c.constraint, c.change)
       /\ c.change.size <= c.constraint.size

\* validateStep of the file session.
FitsConfig(c) == c.change.files <= config.files /\ c.change.size <= config.size

\* The step fails before its commit, and the run with it; a correction whose
\* change is already there proposes nothing, which counts as a failure.
FailCorrection ==
    /\ Executing /\ correction.at = "queued"
    /\ status' = "failed" /\ UNCHANGED <<config, correction, planned, overruled, trouble>>

CommitCorrection ==
    /\ Executing /\ correction.at = "queued"
    /\ ~correction.landed /\ PassesGates(correction) /\ FitsConfig(correction)
    /\ correction' = [correction EXCEPT !.at = "committed", !.landed = TRUE]
    /\ UNCHANGED <<config, status, planned, overruled, trouble>>

\* evaluateCorrectionPolicy of a step that was committed.  What the kernel
\* itself writes into a step agrees: its number, its phase, its intents.
ViolatesPolicy(c) ==
    \/ c.constraint = NoConstraint
    \/ c.constraint.files > config.files \/ c.constraint.size > config.size
    \/ c.change.files > c.constraint.files \/ c.change.size > c.constraint.size
    \/ ~(c.change.places \subseteq c.constraint.places)

PolicyRefuses == config.policy = "enforce" /\ ViolatesPolicy(correction)

\* After the last step heavy validation comes before the policy.  When it has asked
\* for a correction, the step is recorded as failed if the policy refuses it, but
\* the run goes on to the one that was asked for, and the commit stays.
GoOnToCorrection ==
    /\ AskHeavy
    /\ overruled' = IF PolicyRefuses THEN overruled + 1 ELSE overruled

\* Otherwise a refusal fails the run at this step, and so does a heavy validation
\* that fails for good or whose correction cannot be planned.  The rollback goes to
\* the last valid commit, which is the correction's own.
FailAfterCommit ==
    /\ correction' = [correction EXCEPT !.at = "queued", !.refused = PolicyRefuses]
    /\ status' = "failed" /\ UNCHANGED <<planned, overruled>>

Accept ==
    /\ ~PolicyRefuses /\ correction' = [correction EXCEPT !.at = "completed"]
    /\ status' \in {"running", "complete"} /\ UNCHANGED <<planned, overruled>>

\* The step is recorded.
RecordCorrection ==
    /\ Executing /\ correction.at = "committed"
    /\ GoOnToCorrection \/ FailAfterCommit \/ Accept
    /\ UNCHANGED <<config, trouble>>

\* The process ends after the commit and before the record.
StopAfterCommit ==
    /\ correction.at = "committed" /\ trouble < MaxTrouble
    /\ correction' = [correction EXCEPT !.at = "queued"]
    /\ trouble' = trouble + 1 /\ UNCHANGED <<config, status, planned, overruled>>

\* queueResumeRun, with or without an override of the config.
ResumeUnder ==
    /\ status = "failed" /\ trouble < MaxTrouble /\ trouble' = trouble + 1
    /\ config' \in RunConfigs /\ status' = "running"
    /\ UNCHANGED <<correction, planned, overruled>>

ScopeNext ==
    \/ QueueRuntime \/ QueueHeavy \/ QueueRecipe
    \/ CommitCorrection \/ FailCorrection \/ RecordCorrection
    \/ StopAfterCommit \/ ResumeUnder

ScopeSpec == ScopeInit /\ [][ScopeNext]_scopeVars

(***************************************************************************)
(* Properties.                                                             *)
(***************************************************************************)

ScopeTypeOK ==
    /\ config \in RunConfigs /\ trouble \in 0..MaxTrouble
    /\ status \in {"running", "correcting", "optimizing", "failed", "complete"}
    /\ planned.runtime_correction \in 0..MaxCorrections + 1
    /\ planned.validation_correction \in 0..MaxCorrections /\ overruled \in Nat
    /\ correction # NoCorrection =>
         /\ correction.from \in {"plan", "runtime", "heavy", "recipe"}
         /\ correction.change \in CorrectionChanges
         /\ correction.at \in {"queued", "committed", "completed"}

\* What a correction has committed lies within what its failure allows, however
\* its config was changed between planning and commit.
CommitsStayInScope ==
    correction.landed /\ correction.from # "plan" =>
        LET intent == correction.constraint.intent IN
        /\ correction.change.places \subseteq Scope[intent] \cup {"named"}
        /\ correction.change.files <= FileCap[intent]
        /\ correction.change.size <= SizeCap[intent]

\* The gates before the commit are as strict as the policy after it: it refuses
\* a correction the kernel has planned only if the caps were lowered meanwhile.
OwnCorrectionsPass ==
    correction.at = "committed" /\ correction.from \in {"runtime", "heavy"} /\ PolicyRefuses =>
        \/ config.files < correction.under.files
        \/ config.size < correction.under.size

\* A correction the policy has refused never counts as done, however often the run
\* is resumed and whatever the policy is then, and no run completes with it.  The
\* run goes past it in one way: heavy validation has asked for another correction,
\* one for each refused correction that the run went past.
RefusalIsFinal ==
    /\ correction.refused => correction.at # "completed"
    /\ status = "complete" => correction.at = "completed"
    /\ overruled <= planned.validation_correction

\* All three: what corrections commit stays in scope, the gates are as strict as
\* the policy, and its refusal is final but for another correction.
CorrectionsAreContained == CommitsStayInScope /\ OwnCorrectionsPass /\ RefusalIsFinal
=============================================================================
