------------------------- MODULE CorrectionPlanning -------------------------
(***************************************************************************)
(* From a failing validation to the steps that should repair it: the       *)
(* classifier turns the findings of a report into clusters, a reason and a *)
(* verdict of collapse; the planner turns such a profile into phases.      *)
(* The same report of a precommit guard is classified differently.         *)
(***************************************************************************)
EXTENDS Naturals, Sequences, FiniteSets

\* What a report can hold: rule ids of the architecture check (several files
\* without a layer, missing layers and many findings count towards collapse),
\* patterns in the output of failed checks, and failed checks.
Findings == {"structure", "missing_layers", "unknown_layers", "many", "layer", "gap",
             "import", "cycle", "middleware", "unresolved", "typecheck", "build", "tests"}

Phases == {"single", "micro", "structural_reset", "feature_reintegration", "typecheck_recipe",
           "build_recipe", "test_recipe", "debt_resolution"}

NoProfile == [clusters |-> {}, collapse |-> FALSE, reason |-> "none", correct |-> FALSE,
              override |-> "none"]

Clusters(report) ==
    (report \cap {"layer", "gap", "cycle", "middleware", "typecheck", "build", "tests"})
    \cup (IF report \cap {"import", "unresolved"} # {} THEN {"import"} ELSE {})
    \cup (IF report \cap {"structure", "missing_layers", "unknown_layers", "layer", "gap"} # {}
          THEN {"contract"} ELSE {})

\* computeArchitectureCollapseScore.
CollapseScore(report) ==
    2 * Cardinality(report \cap {"missing_layers", "unknown_layers", "many"})
    + (IF "cycle" \in report THEN 3 ELSE 0)

\* deriveLegacyReason: tests, cycles, imports and the runtime have none.
Reason(clusters) ==
    IF "contract" \in clusters THEN "architecture"
    ELSE IF "typecheck" \in clusters THEN "typecheck"
    ELSE IF "build" \in clusters THEN "build" ELSE "none"

ClassifyValidation(report) ==
    LET clusters == Clusters(report)
    IN  [clusters |-> clusters, reason |-> Reason(clusters), override |-> "none",
         collapse |-> "contract" \in clusters /\ CollapseScore(report) >= 3,
         correct |-> Reason(clusters) # "none" \/ "middleware" \in clusters]

\* classifyPrecommitInvariantFailure: whatever the guard named, it is about the
\* architecture; modules are named wherever a file of a module is.
ClassifyInvariant(violations) ==
    LET clusters == violations \cap {"contract", "layer", "import", "gap"}
        found == clusters # {}
    IN  [clusters |-> clusters, reason |-> IF found THEN "architecture" ELSE "none",
         override |-> "none", collapse |-> FALSE, correct |-> found]

IsMicroTargeted(profile) ==
    /\ ~profile.collapse /\ profile.override # "architecture_reconstruction"
    /\ profile.clusters \cap {"layer", "import", "gap", "typecheck", "build", "tests"} # {}

\* structuredCorrectionMode.
StructuredMode(profile) ==
    IF profile.override = "architecture_reconstruction" \/ profile.collapse THEN "reconstruct"
    ELSE IF profile.clusters \cap {"layer", "import", "gap"} # {} THEN "micro" ELSE "single"

\* planCorrection; scoped: files and a scope could be collected for the clusters.
PlanCorrection(profile, scoped) ==
    LET pressure == profile.collapse \/ profile.clusters \cap {"contract", "layer", "import", "gap"} # {}
        recipe(cluster) == ~pressure /\ cluster \in profile.clusters
        mode == StructuredMode(profile)
    IN  IF profile.override \in {"debt_resolution", "feature_reintegration"}
        THEN <<profile.override>>
        ELSE IF recipe("typecheck") THEN <<"typecheck_recipe">>
        ELSE IF recipe("build") THEN <<"build_recipe">>
        ELSE IF recipe("tests") THEN <<"test_recipe">>
        ELSE IF mode = "reconstruct" THEN <<"structural_reset", "feature_reintegration">>
        ELSE IF mode = "micro" /\ scoped THEN <<"micro">> ELSE <<"single">>

(***************************************************************************)
(* What an attempt was worth.                                              *)
(***************************************************************************)

\* classifyLearningOutcome.
LearningOutcome(before, after) ==
    IF after = {} THEN "success"
    ELSE IF Cardinality(after) < Cardinality(before) THEN "improved"
    ELSE IF Cardinality(after) > Cardinality(before) THEN "regressed" ELSE "noop"

\* Mutant: a micro repair that changed something counts as what it changed.
AttemptOutcomeByCount(before, clusters, after, phases, paid) ==
    IF \/ after = {} /\ phases = {"debt_resolution"} /\ ~paid
       \/ after # {} /\ ClassifyValidation(after).clusters = clusters
    THEN "stalled" ELSE LearningOutcome(before, after)

\* classifyAttemptOutcome of an attempt that ran correction steps of these phases.
AttemptOutcome(before, clusters, after, phases, paid) ==
    LET unpaid == phases = {"debt_resolution"} /\ ~paid
        unchanged == \/ ClassifyValidation(after).clusters = clusters
                     \/ Cardinality(after) = Cardinality(before)
    IN  IF \/ after = {} /\ unpaid
           \/ after # {} /\ (unchanged \/ phases = {"micro"})
        THEN "stalled" ELSE LearningOutcome(before, after)

\* shouldUseMicroTargetedStallGuardrail and resolveMicroTargetedEscalation.
\* session: the runs of its stress session stall; several: more than one module.
Escalate(profile, stalls, session, several) ==
    LET reconstruct == stalls >= 2 \/ several \/ profile.clusters \cap {"layer", "contract"} # {}
    IN  IF ~IsMicroTargeted(profile) \/ (stalls < 1 /\ ~session) THEN profile
        ELSE IF reconstruct
        THEN [profile EXCEPT !.override = "architecture_reconstruction", !.collapse = TRUE]
        ELSE [profile EXCEPT !.override = "feature_reintegration"]
=============================================================================
