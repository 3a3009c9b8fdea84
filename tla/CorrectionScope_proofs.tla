----------------------- MODULE CorrectionScope_proofs -----------------------
(***************************************************************************)
(* Corrections stay contained, whatever the configs, the caps, the changes *)
(* and the number of resumes are.  The invariant says where the constraint *)
(* in the plan comes from and that nothing lands without its gates; that a *)
(* refused correction has landed is what keeps it from being committed     *)
(* again, and each one that the run goes past adds one to the plan.        *)
(***************************************************************************)
EXTENDS CorrectionScope, TLAPS

Intents == {"runtime_boot", "runtime_health", "typescript_compile", "test_failure",
            "migration_failure", "architecture_violation", "security_baseline", "unknown"}

Constraints == [intent : Intents, places : SUBSET ScopePlaces, files : Nat, size : Nat]

CorrectionType == [
    from : {"none", "plan", "runtime", "heavy", "recipe"},
    constraint : Constraints,
    change : CorrectionChanges \cup {NoConstraint},
    at : {"queued", "committed", "completed"},
    under : RunConfigs \cup {NoConstraint},
    landed : BOOLEAN, refused : BOOLEAN]

\* A constraint the kernel has built under the caps of c.
BuiltUnder(constraint, c) ==
    /\ c \in RunConfigs
    /\ constraint.places = Scope[constraint.intent]
    /\ constraint.files = Least(c.files, FileCap[constraint.intent])
    /\ constraint.size = Least(c.size, SizeCap[constraint.intent])

ScopeInv ==
    /\ config \in RunConfigs
    /\ correction \in CorrectionType
    /\ correction.from = "none" => ~correction.landed /\ correction.at = "completed"
    /\ correction.from # "none" => correction.change \in CorrectionChanges
    /\ correction.from \in {"runtime", "heavy"} => BuiltUnder(correction.constraint, correction.under)
    /\ correction.from = "recipe" => \E n \in Counts : correction.constraint = RecipeConstraint(n)
    /\ correction.landed => PassesGates(correction)
    /\ correction.at = "committed" => correction.landed
    /\ correction.refused => correction.landed /\ correction.at = "queued"
    /\ status = "complete" => correction.at = "completed"
    /\ planned.runtime_correction \in Nat /\ planned.validation_correction \in Nat
    /\ DOMAIN planned = {"runtime_correction", "validation_correction"}
    /\ overruled \in Nat /\ overruled <= planned.validation_correction

(***************************************************************************)
(* The tables.                                                             *)
(***************************************************************************)

\* Every intent has its prefixes and its caps.
LEMMA TablesAreTotal ==
    ASSUME NEW intent \in Intents
    PROVE  /\ Scope[intent] \subseteq ScopePlaces /\ Scope[intent] # {}
           /\ FileCap[intent] \in Nat \ {0} /\ SizeCap[intent] \in Nat \ {0}
<1>1. Scope[intent] \subseteq ScopePlaces /\ Scope[intent] # {}
  BY DEF Intents, Scope, ScopePlaces, Source, Tests
<1>2. FileCap[intent] \in Nat \ {0} /\ SizeCap[intent] \in Nat \ {0}
  BY DEF Intents, FileCap, SizeCap
<1>3. QED BY <1>1, <1>2

\* Whatever the failure looks like, it is classified.
LEMMA EveryFailureHasAnIntent ==
    ASSUME NEW phase, NEW checks, NEW kinds, NEW signal
    PROVE  ChooseIntent(phase, checks, kinds, signal) \in Intents
BY DEF ChooseIntent, ByLogs, Intents

LEMMA CapsAreCaps ==
    ASSUME NEW a \in Nat, NEW b \in Nat
    PROVE  Least(a, b) \in Nat /\ Least(a, b) <= a /\ Least(a, b) <= b
BY DEF Least

LEMMA ConfigsHaveCaps ==
    ASSUME NEW c \in RunConfigs
    PROVE  c.files \in Nat /\ c.size \in Nat
<1>1. c \in [files : Nat \ {0}, size : Nat \ {0}, policy : PolicyModes]
  BY ScopeAssumption DEF ScopeAssumption
<1>2. QED BY <1>1

LEMMA ChangesAreMeasured ==
    ASSUME NEW change \in CorrectionChanges
    PROVE  change.files \in Int /\ change.size \in Int
<1>1. change.files \in Counts /\ change.size \in Sizes
  BY DEF CorrectionChanges
<1>2. \A n \in Counts : n \in Int
  BY ScopeAssumption DEF ScopeAssumption
<1>3. \A n \in Sizes : n \in Int
  BY ScopeAssumption DEF ScopeAssumption
<1>4. QED
  BY <1>1, <1>2, <1>3

LEMMA BuiltConstraint ==
    ASSUME config \in RunConfigs, NEW intent \in Intents
    PROVE  /\ BuildConstraint(intent) \in Constraints
           /\ BuiltUnder(BuildConstraint(intent), config)
<1>1. config.files \in Nat /\ config.size \in Nat
  BY ConfigsHaveCaps
<1>2. Least(config.files, FileCap[intent]) \in Nat /\ Least(config.size, SizeCap[intent]) \in Nat
  BY <1>1, TablesAreTotal, CapsAreCaps
<1>3. QED
  BY <1>2, TablesAreTotal DEF BuildConstraint, BuiltUnder, Constraints

LEMMA RecipeIsAConstraint ==
    ASSUME NEW n \in Counts
    PROVE  RecipeConstraint(n) \in Constraints
<1>1. n \in Nat BY ScopeAssumption DEF ScopeAssumption
<1>2. Least(n, 8) \in Nat BY <1>1, CapsAreCaps
<1>3. QED BY <1>2 DEF RecipeConstraint, Constraints, Intents, ScopePlaces

LEMMA NothingIsAConstraint == NoConstraint \in Constraints
BY DEF NoConstraint, Constraints, Intents

(***************************************************************************)
(* The invariant.                                                          *)
(***************************************************************************)

LEMMA ScopeInvInit == ScopeInit => ScopeInv
<1> SUFFICES ASSUME ScopeInit PROVE ScopeInv
  OBVIOUS
<1>1. config \in RunConfigs /\ status = "running" /\ overruled = 0
  BY DEF ScopeInit
<1>2. /\ DOMAIN planned = {"runtime_correction", "validation_correction"}
      /\ planned.runtime_correction \in Nat /\ planned.validation_correction = 0
  BY DEF ScopeInit
<1>3. CASE correction = NoCorrection
  BY <1>1, <1>2, <1>3, NothingIsAConstraint DEF ScopeInv, NoCorrection, CorrectionType
<1>4. CASE \E change \in CorrectionChanges :
               correction = NewCorrection("plan", NoConstraint, change)
  BY <1>1, <1>2, <1>4, NothingIsAConstraint DEF ScopeInv, NewCorrection, CorrectionType
<1>5. QED
  BY <1>3, <1>4 DEF ScopeInit

\* A correction of heavy validation is one more of its prefix.
LEMMA InsertCounts ==
    ASSUME ScopeInv, NEW from \in {"runtime", "heavy", "recipe"}, NEW constraint, NEW change,
           Insert(from, constraint, change)
    PROVE  /\ DOMAIN planned' = {"runtime_correction", "validation_correction"}
           /\ planned'.runtime_correction \in Nat /\ planned'.validation_correction \in Nat
           /\ planned'.validation_correction >= planned.validation_correction
           /\ from = "heavy" => planned'.validation_correction = planned.validation_correction + 1
<1>1. planned' = [planned EXCEPT ![PrefixOf(from)] = @ + 1]
  BY DEF Insert
<1>2. /\ DOMAIN planned = {"runtime_correction", "validation_correction"}
      /\ planned.runtime_correction \in Nat /\ planned.validation_correction \in Nat
  BY DEF ScopeInv
<1>3. CASE from = "runtime"
  BY <1>1, <1>2, <1>3 DEF PrefixOf
<1>4. CASE from # "runtime"
  BY <1>1, <1>2, <1>4 DEF PrefixOf
<1>5. QED
  BY <1>3, <1>4

\* A correction that is inserted with a constraint of its kind is a good one, and
\* a refused one may be passed over for one of heavy validation.
LEMMA InsertKeepsInv ==
    ASSUME ScopeInv, config' = config,
           NEW from \in {"runtime", "heavy", "recipe"}, NEW constraint \in Constraints,
           NEW change \in CorrectionChanges,
           from # "recipe" => BuiltUnder(constraint, config),
           from = "recipe" => \E n \in Counts : constraint = RecipeConstraint(n),
           Insert(from, constraint, change), status' # "complete",
           overruled' = overruled \/ (from = "heavy" /\ overruled' = overruled + 1)
    PROVE  ScopeInv'
<1>1. correction' = NewCorrection(from, constraint, change) /\ config \in RunConfigs
  BY DEF Insert, ScopeInv
<1>2. correction' \in CorrectionType
  BY <1>1 DEF NewCorrection, CorrectionType
<1>3. correction'.from = from /\ correction'.constraint = constraint
      /\ correction'.under = config /\ correction'.change = change
  BY <1>1 DEF NewCorrection
<1>4. ~correction'.landed /\ ~correction'.refused /\ correction'.at = "queued"
  BY <1>1 DEF NewCorrection
<1>5. correction'.from \in {"runtime", "heavy"} => BuiltUnder(correction'.constraint, correction'.under)
  BY <1>3
<1>6. correction'.from = "recipe" => \E n \in Counts : correction'.constraint = RecipeConstraint(n)
  BY <1>3
<1>7. /\ DOMAIN planned' = {"runtime_correction", "validation_correction"}
      /\ planned'.runtime_correction \in Nat /\ planned'.validation_correction \in Nat
      /\ planned'.validation_correction >= planned.validation_correction
      /\ from = "heavy" => planned'.validation_correction = planned.validation_correction + 1
  BY InsertCounts
<1>8. /\ overruled \in Nat /\ planned.validation_correction \in Nat
      /\ overruled <= planned.validation_correction
  BY DEF ScopeInv
<1>9. overruled' \in Nat /\ overruled' <= planned'.validation_correction
  BY <1>7, <1>8
<1>10. QED
  BY <1>1, <1>2, <1>3, <1>4, <1>5, <1>6, <1>7, <1>9 DEF ScopeInv

LEMMA PlanKeepsInv ==
    ASSUME ScopeInv, config' = config, NEW from \in {"runtime", "heavy"}, NEW intent \in Intents,
           PlanRuntimeCorrection(from, intent),
           overruled' = overruled \/ (from = "heavy" /\ overruled' = overruled + 1)
    PROVE  ScopeInv'
<1>1. PICK change \in CorrectionChanges : Insert(from, BuildConstraint(intent), change)
  BY DEF PlanRuntimeCorrection
<1>2. config \in RunConfigs
  BY DEF ScopeInv
<1>3. BuildConstraint(intent) \in Constraints /\ BuiltUnder(BuildConstraint(intent), config)
  BY <1>2, BuiltConstraint
<1>4. status' # "complete"
  BY DEF PlanRuntimeCorrection
<1>5. QED
  BY <1>1, <1>3, <1>4, InsertKeepsInv

LEMMA AskKeepsInv ==
    ASSUME ScopeInv, config' = config, AskHeavy,
           overruled' = overruled \/ overruled' = overruled + 1
    PROVE  ScopeInv'
<1>1. PICK checks \in SUBSET {"architecture", "security"}, kinds \in SUBSET FailureKinds,
           signal \in Signals :
             PlanRuntimeCorrection("heavy", ChooseIntent("optimization", checks, kinds, signal))
  BY DEF AskHeavy, HeavyIntents
<1>2. ChooseIntent("optimization", checks, kinds, signal) \in Intents
  BY EveryFailureHasAnIntent
<1>3. QED
  BY <1>1, <1>2, PlanKeepsInv

\* A failure of the planner changes nothing but the status.
LEMMA FailKeepsInv ==
    ASSUME ScopeInv, config' \in RunConfigs, UNCHANGED <<correction, planned, overruled>>,
           status' # "complete" \/ status' = status
    PROVE  ScopeInv'
BY DEF ScopeInv, PassesGates, Allowed

LEMMA QueueKeepsInv ==
    ASSUME ScopeInv, QueueRuntime \/ QueueHeavy \/ QueueRecipe
    PROVE  ScopeInv'
<1>1. config \in RunConfigs /\ config' = config /\ overruled' = overruled
  BY DEF ScopeInv, QueueRuntime, QueueHeavy, QueueRecipe
<1>2. CASE PlanningFails
  BY <1>1, <1>2, FailKeepsInv DEF PlanningFails
<1>3. CASE QueueRuntime /\ ~PlanningFails
  <2>1. PICK signal \in Signals :
          PlanRuntimeCorrection("runtime", ChooseIntent("goal", {}, {}, signal))
    BY <1>3 DEF QueueRuntime
  <2>2. ChooseIntent("goal", {}, {}, signal) \in Intents
    BY EveryFailureHasAnIntent
  <2>3. QED
    BY <1>1, <2>1, <2>2, PlanKeepsInv
<1>4. CASE QueueHeavy /\ ~PlanningFails
  BY <1>1, <1>4, AskKeepsInv DEF QueueHeavy
<1>5. CASE QueueRecipe
  <2>1. PICK n \in Counts, change \in CorrectionChanges :
          Insert("recipe", RecipeConstraint(n), change)
    BY <1>5 DEF QueueRecipe
  <2>2. status' # "complete"
    BY <1>5 DEF QueueRecipe
  <2>3. RecipeConstraint(n) \in Constraints
    BY RecipeIsAConstraint
  <2>4. \E m \in Counts : RecipeConstraint(n) = RecipeConstraint(m)
    OBVIOUS
  <2>5. QED
    BY <1>1, <2>1, <2>2, <2>3, <2>4, InsertKeepsInv
<1>6. QED
  BY <1>2, <1>3, <1>4, <1>5

\* Nothing but the point and the marks of a correction changes once it is planned.
LEMMA MarkKeepsInv ==
    ASSUME ScopeInv, config' \in RunConfigs, UNCHANGED <<planned, overruled>>,
           NEW at \in {"queued", "committed", "completed"},
           NEW landed \in BOOLEAN, NEW refused \in BOOLEAN,
           correction' = [correction EXCEPT !.at = at, !.landed = landed, !.refused = refused],
           correction.from # "none", landed => PassesGates(correction),
           at = "committed" => landed,
           refused => landed /\ at = "queued",
           status' = "complete" => at = "completed"
    PROVE  ScopeInv'
<1>1. correction \in CorrectionType
  BY DEF ScopeInv
<1>2. correction' \in CorrectionType
  BY <1>1 DEF CorrectionType
<1>3. /\ correction'.from = correction.from /\ correction'.constraint = correction.constraint
      /\ correction'.change = correction.change /\ correction'.under = correction.under
      /\ correction'.at = at /\ correction'.landed = landed /\ correction'.refused = refused
  BY <1>1 DEF CorrectionType
<1>4. landed => PassesGates(correction')
  BY <1>3 DEF PassesGates, Allowed
<1>5. correction'.from \in {"runtime", "heavy"} => BuiltUnder(correction'.constraint, correction'.under)
  BY <1>3 DEF ScopeInv
<1>6. correction'.from = "recipe" => \E n \in Counts : correction'.constraint = RecipeConstraint(n)
  BY <1>3 DEF ScopeInv
<1>7. /\ planned'.runtime_correction \in Nat /\ planned'.validation_correction \in Nat
      /\ DOMAIN planned' = {"runtime_correction", "validation_correction"}
      /\ overruled' \in Nat /\ overruled' <= planned'.validation_correction
  BY DEF ScopeInv
<1>8. QED
  BY <1>2, <1>3, <1>4, <1>5, <1>6, <1>7 DEF ScopeInv

LEMMA ExecutionKeepsInv ==
    ASSUME ScopeInv, CommitCorrection \/ FailCorrection \/ RecordCorrection
    PROVE  ScopeInv'
<1>1. correction \in CorrectionType /\ config \in RunConfigs /\ config' = config
  BY DEF ScopeInv, CommitCorrection, FailCorrection, RecordCorrection
<1>2. CASE CommitCorrection
  <2>1. /\ correction.at = "queued" /\ ~correction.landed /\ PassesGates(correction)
        /\ UNCHANGED <<status, planned, overruled>>
    BY <1>2 DEF CommitCorrection
  <2>2. correction.from # "none" /\ ~correction.refused /\ status' # "complete"
    BY <2>1 DEF ScopeInv
  <2>3. correction' = [correction EXCEPT !.at = "committed", !.landed = TRUE, !.refused = FALSE]
    BY <1>1, <1>2, <2>2 DEF CommitCorrection, CorrectionType
  <2>4. QED
    BY <1>1, <2>1, <2>2, <2>3, MarkKeepsInv
<1>3. CASE FailCorrection
  BY <1>1, <1>3, FailKeepsInv DEF FailCorrection
<1>4. CASE RecordCorrection
  <2>1. correction.at = "committed"
    BY <1>4 DEF RecordCorrection
  <2>2. correction.landed /\ ~correction.refused /\ correction.from # "none" /\ PassesGates(correction)
    BY <2>1 DEF ScopeInv
  <2>3. CASE GoOnToCorrection
    <3>1. overruled' = overruled \/ overruled' = overruled + 1
      BY <2>3 DEF GoOnToCorrection
    <3>2. QED
      BY <1>1, <2>3, <3>1, AskKeepsInv DEF GoOnToCorrection
  <2>4. CASE FailAfterCommit
    <3>1. PolicyRefuses \in BOOLEAN
      BY DEF PolicyRefuses
    <3>2. correction' = [correction EXCEPT !.at = "queued", !.landed = TRUE, !.refused = PolicyRefuses]
      BY <1>1, <2>2, <2>4 DEF FailAfterCommit, CorrectionType
    <3>3. status' # "complete" /\ UNCHANGED <<planned, overruled>>
      BY <2>4 DEF FailAfterCommit
    <3>4. QED
      BY <1>1, <2>2, <3>1, <3>2, <3>3, MarkKeepsInv
  <2>5. CASE Accept
    <3>1. correction' = [correction EXCEPT !.at = "completed", !.landed = TRUE, !.refused = FALSE]
      BY <1>1, <2>2, <2>5 DEF Accept, CorrectionType
    <3>2. UNCHANGED <<planned, overruled>>
      BY <2>5 DEF Accept
    <3>3. QED
      BY <1>1, <2>2, <3>1, <3>2, MarkKeepsInv
  <2>6. QED
    BY <1>4, <2>3, <2>4, <2>5 DEF RecordCorrection
<1>5. QED
  BY <1>2, <1>3, <1>4

LEMMA TroubleKeepsInv ==
    ASSUME ScopeInv, StopAfterCommit \/ ResumeUnder
    PROVE  ScopeInv'
<1>1. CASE StopAfterCommit
  <2>1. /\ correction \in CorrectionType /\ config \in RunConfigs /\ config' = config
        /\ UNCHANGED <<status, planned, overruled>>
    BY <1>1 DEF ScopeInv, StopAfterCommit
  <2>2. correction.at = "committed"
    BY <1>1 DEF StopAfterCommit
  <2>3. /\ correction.landed /\ ~correction.refused /\ correction.from # "none"
        /\ PassesGates(correction) /\ status # "complete"
    BY <2>2 DEF ScopeInv
  <2>4. correction' = [correction EXCEPT !.at = "queued", !.landed = TRUE, !.refused = FALSE]
    BY <1>1, <2>1, <2>3 DEF StopAfterCommit, CorrectionType
  <2>5. QED
    BY <2>1, <2>3, <2>4, MarkKeepsInv
<1>2. CASE ResumeUnder
  BY <1>2, FailKeepsInv DEF ResumeUnder
<1>3. QED
  BY <1>1, <1>2

\* The caps are read when the constraint is built, never again: a resume under
\* other caps (ResumeUnder) leaves the invariant as it was.
THEOREM ScopeInvariant == ScopeSpec => []ScopeInv
<1>1. ScopeInv /\ [ScopeNext]_scopeVars => ScopeInv'
  <2> SUFFICES ASSUME ScopeInv, [ScopeNext]_scopeVars PROVE ScopeInv'
    OBVIOUS
  <2>1. CASE ScopeNext
    BY <2>1, QueueKeepsInv, ExecutionKeepsInv, TroubleKeepsInv DEF ScopeNext
  <2>2. CASE UNCHANGED scopeVars
    <3>1. config' \in RunConfigs /\ UNCHANGED <<correction, planned, overruled, status>>
      BY <2>2 DEF scopeVars, ScopeInv
    <3>2. QED
      BY <3>1, FailKeepsInv
  <2>3. QED
    BY <2>1, <2>2
<1>2. QED
  BY <1>1, ScopeInvInit, PTL DEF ScopeSpec

(***************************************************************************)
(* The properties.                                                         *)
(***************************************************************************)

\* Passing its own gates is being within the caps of the failure: of those the
\* kernel built, and of the recipes, whose size is that of a compile error.
LEMMA InvMeansScope == ScopeInv => CommitsStayInScope
<1> SUFFICES ASSUME ScopeInv, correction.landed, correction.from # "plan"
             PROVE  LET intent == correction.constraint.intent IN
                    /\ correction.change.places \subseteq Scope[intent] \cup {"named"}
                    /\ correction.change.files <= FileCap[intent]
                    /\ correction.change.size <= SizeCap[intent]
  BY DEF CommitsStayInScope
<1> DEFINE c == correction.constraint
<1>1. correction.from \in {"runtime", "heavy", "recipe"} /\ PassesGates(correction)
  BY DEF ScopeInv, CorrectionType
<1>2. c.intent \in Intents /\ correction.change.files \in Int /\ correction.change.size \in Int
  <2>1. correction.change \in CorrectionChanges /\ c \in Constraints
    BY <1>1 DEF ScopeInv, CorrectionType
  <2>2. QED
    BY <2>1, ChangesAreMeasured DEF Constraints
<1>3. CASE correction.from \in {"runtime", "heavy"}
  <2>1. BuiltUnder(c, correction.under)
    BY <1>3 DEF ScopeInv
  <2>2. correction.under.files \in Nat /\ correction.under.size \in Nat
    BY <2>1, ConfigsHaveCaps DEF BuiltUnder
  <2>3. Scope[c.intent] # {} /\ FileCap[c.intent] \in Nat /\ SizeCap[c.intent] \in Nat
    BY <1>2, TablesAreTotal
  <2>4. c # NoConstraint /\ c.places # {}
    BY <2>1, <2>3 DEF BuiltUnder, NoConstraint
  <2>5. /\ c.files \in Nat /\ c.files <= FileCap[c.intent]
        /\ c.size \in Nat /\ c.size <= SizeCap[c.intent]
    BY <2>1, <2>2, <2>3, CapsAreCaps DEF BuiltUnder
  <2>6. /\ correction.change.files <= c.files /\ correction.change.size <= c.size
        /\ correction.change.places \subseteq c.places
    BY <1>1, <2>4 DEF PassesGates, Allowed
  <2>7. QED
    BY <1>2, <2>1, <2>3, <2>5, <2>6 DEF BuiltUnder
<1>4. CASE correction.from = "recipe"
  <2>1. PICK n \in Counts : c = RecipeConstraint(n)
    BY <1>4 DEF ScopeInv
  <2>2. n \in Nat
    BY ScopeAssumption DEF ScopeAssumption
  <2>3. Least(n, 8) \in Nat /\ Least(n, 8) <= 8
    BY <2>2, CapsAreCaps
  <2>4. /\ c.intent = "typescript_compile" /\ c.places = {"named"}
        /\ c.files = Least(n, 8) /\ c.size = 160
    BY <2>1 DEF RecipeConstraint
  <2>5. c # NoConstraint
    BY <2>4 DEF NoConstraint
  <2>6. /\ correction.change.files <= c.files /\ correction.change.size <= c.size
        /\ correction.change.places \subseteq c.places
    BY <1>1, <2>4, <2>5 DEF PassesGates, Allowed
  <2>7. QED
    BY <1>2, <2>3, <2>4, <2>6 DEF FileCap, SizeCap
<1>5. QED
  BY <1>1, <1>3, <1>4

LEMMA InvMeansOwnPass == ScopeInv => OwnCorrectionsPass
<1> SUFFICES ASSUME ScopeInv, correction.at = "committed",
                    correction.from \in {"runtime", "heavy"}, PolicyRefuses
             PROVE  config.files < correction.under.files \/ config.size < correction.under.size
  BY DEF OwnCorrectionsPass
<1> DEFINE c == correction.constraint
<1>1. PassesGates(correction) /\ BuiltUnder(c, correction.under) /\ c.intent \in Intents
  BY DEF ScopeInv, CorrectionType, Constraints
<1>2. /\ correction.under.files \in Nat /\ correction.under.size \in Nat
      /\ config.files \in Nat /\ config.size \in Nat
  BY <1>1, ConfigsHaveCaps DEF BuiltUnder, ScopeInv
<1>3. Scope[c.intent] # {} /\ FileCap[c.intent] \in Nat /\ SizeCap[c.intent] \in Nat
  BY <1>1, TablesAreTotal
<1>4. c # NoConstraint /\ c.places # {}
  BY <1>1, <1>3 DEF BuiltUnder, NoConstraint
<1>5. /\ c.files \in Nat /\ c.files <= correction.under.files
      /\ c.size \in Nat /\ c.size <= correction.under.size
  BY <1>1, <1>2, <1>3, CapsAreCaps DEF BuiltUnder
<1>6. /\ correction.change.files <= c.files /\ correction.change.size <= c.size
      /\ correction.change.places \subseteq c.places
  BY <1>1, <1>4 DEF PassesGates, Allowed
<1>7. correction.change.files \in Int /\ correction.change.size \in Int
  <2>1. correction.change \in CorrectionChanges
    BY DEF ScopeInv
  <2>2. QED
    BY <2>1, ChangesAreMeasured
<1>8. c.files > config.files \/ c.size > config.size
  BY <1>4, <1>5, <1>6, <1>7 DEF PolicyRefuses, ViolatesPolicy
<1>9. QED
  BY <1>2, <1>5, <1>8

\* However a run is crashed, failed and resumed under other caps and policies:
\* commits of corrections stay within what the failure allows, the gates are as
\* strict as the policy, and what the policy refused never counts as done: the run
\* goes past it only for another correction of heavy validation, and completes with
\* one that was not refused (executeLoop's gates, evaluateCorrectionPolicy,
\* queueHeavyValidationCorrection, queueResumeRun).
THEOREM CorrectionsStayContained == ScopeSpec => []CorrectionsAreContained
<1>1. ScopeInv => RefusalIsFinal
  BY DEF ScopeInv, RefusalIsFinal
<1>2. ScopeInv => CorrectionsAreContained
  BY <1>1, InvMeansScope, InvMeansOwnPass DEF CorrectionsAreContained
<1>3. QED
  BY <1>2, ScopeInvariant, PTL
=============================================================================
