--------------------------- MODULE StoreMigration ---------------------------
(***************************************************************************)
(* AppStore.initialize: every process, API server or job worker, brings    *)
(* the schema of the shared database up to date before it serves.  Each    *)
(* statement commits by itself; a session lock keeps two processes from    *)
(* migrating at a time, and lets go when its process dies.  The processes  *)
(* that serve already keep writing steps while another one migrates.       *)
(***************************************************************************)
EXTENDS Integers, FiniteSets

CONSTANTS
    Processes,
    Slots,           \* the (run_id, step_index) pairs that are written
    MaxAttempts,     \* bound: attempts of a step
    MaxDeaths,       \* bound: processes that die
    Databases        \* what the first process finds, among "fresh", "legacy", "graphed"

ASSUME StoreMigrationAssumption ==
    /\ MaxAttempts \in Nat \ {0} /\ MaxDeaths \in Nat /\ Slots # {}
    /\ Databases \subseteq {"fresh", "legacy", "graphed"}

VARIABLES
    stage,      \* where each process stands
    steps,      \* agent_steps: attempts recorded for each slot
    writing,    \* the attempt a process's INSERT in flight computed, or 0
    schema,     \* the objects of the schema, a record
    graphIds,   \* "none", "kept" or "dangling": what agent_runs.graph_id holds
    refused,    \* slots whose INSERT was refused although its attempt is new
    cut,        \* migrations a death cut short: the stages it struck at
    deaths

storeSchemaVars == <<stage, steps, writing, schema, graphIds, refused, cut, deaths>>

\* The stages of initialize, in order; "wants" waits for pg_advisory_lock.
Order == <<"schema", "queue", "rename", "drop_checks", "add_checks", "attempts",
           "step_checks", "drop_index", "attempt_index", "step_index",
           "validation", "drop_graphs", "graphs", "drop_key", "add_key", "settle">>
Migrating == {Order[i] : i \in DOMAIN Order}
Stages == Migrating \cup {"down", "wants", "serving", "failed"}

\* The checks and the keys that statements drop and add again.
Rules == {"run_status", "validation_status", "step_status", "attempts", "job_caps", "graph_key"}

SchemaType ==
    [tables : BOOLEAN, attempt : BOOLEAN, stepIndex : {"none", "unique", "plain"},
     attemptIndex : BOOLEAN, rules : SUBSET Rules, validation : BOOLEAN,
     statuses : {"old", "new"}, graphs : {"none", "legacy", "current"}]

MigrationTypeOK ==
    /\ stage \in [Processes -> Stages] /\ steps \in [Slots -> 0..MaxAttempts]
    /\ writing \in [Processes -> [slot : Slots, attempt : 0..MaxAttempts]]
    /\ schema \in SchemaType /\ graphIds \in {"none", "kept", "dangling"}
    /\ refused \subseteq Slots /\ cut \subseteq Migrating /\ deaths \in 0..MaxDeaths

\* No table at all; or those of an earlier version, whose runs may point at
\* graphs of the shape that version had.
SchemaOf(database) ==
    IF database = "fresh"
    THEN [tables |-> FALSE, attempt |-> FALSE, stepIndex |-> "none", attemptIndex |-> FALSE,
          rules |-> {}, validation |-> FALSE, statuses |-> "new", graphs |-> "none"]
    ELSE [tables |-> TRUE, attempt |-> FALSE, stepIndex |-> "unique", attemptIndex |-> FALSE,
          rules |-> IF database = "graphed" THEN {"graph_key"} ELSE {},
          validation |-> FALSE, statuses |-> "old",
          graphs |-> IF database = "graphed" THEN "legacy" ELSE "none"]

MigrationInit ==
    \E database \in Databases :
        /\ schema = SchemaOf(database)
        /\ graphIds = IF database = "graphed" THEN "kept" ELSE "none"
        /\ steps \in [Slots -> IF database = "fresh" THEN {0} ELSE {0, 1}]
        /\ stage = [p \in Processes |-> "down"]
        /\ writing = [p \in Processes |-> [slot |-> CHOOSE s \in Slots : TRUE, attempt |-> 0]]
        /\ refused = {} /\ cut = {} /\ deaths = 0

Locked == \E p \in Processes : stage[p] \in Migrating
Idle == \A p \in Processes : writing[p].attempt = 0
TwiceTried == \E s \in Slots : steps[s] > 1

Go(p, point) == stage' = [stage EXCEPT ![p] = point]
Following(point) ==
    LET i == CHOOSE i \in DOMAIN Order : Order[i] = point
    IN  IF i < 16 THEN Order[i + 1] ELSE "serving"

\* Statement number point of p succeeds and leaves the schema new; it fails
\* when Violated holds, and then initialize unlocks and the process exits.
Statement(p, point, Violated, new) ==
    /\ stage[p] = point
    /\ IF Violated THEN Go(p, "failed") /\ UNCHANGED schema
       ELSE Go(p, Following(point)) /\ schema' = new
    /\ UNCHANGED <<steps, writing, graphIds, refused, cut, deaths>>

With(rules) == [schema EXCEPT !.rules = @ \cup rules]
Without(rules) == [schema EXCEPT !.rules = @ \ rules]

-----------------------------------------------------------------------------
Connect(p) ==
    /\ stage[p] = "down" /\ Go(p, "wants")
    /\ UNCHANGED <<steps, writing, schema, graphIds, refused, cut, deaths>>

AcquireAdvisoryLock(p) ==
    /\ stage[p] = "wants" /\ ~Locked /\ Go(p, "schema")
    /\ UNCHANGED <<steps, writing, schema, graphIds, refused, cut, deaths>>

\* CREATE ... IF NOT EXISTS looks at names only: the unique index of
\* (run_id, step_index) is created again whenever the name is free.
CreateSchema(p) ==
    /\ schema.stepIndex = "none" => Idle
    /\ Statement(p, "schema", schema.stepIndex = "none" /\ TwiceTried,
           [schema EXCEPT
               !.tables = TRUE,
               !.stepIndex = IF @ = "none" THEN "unique" ELSE @,
               !.attempt = @ \/ ~schema.tables, !.validation = @ \/ ~schema.tables,
               !.rules = IF schema.tables THEN @
                         ELSE {"run_status", "validation_status", "step_status"}])

MigrateRunQueueCapabilitySchema(p) ==
    \/ /\ "job_caps" \in schema.rules /\ stage[p] = "queue"
       /\ schema' = Without({"job_caps"})
       /\ UNCHANGED <<stage, steps, writing, graphIds, refused, cut, deaths>>
    \/ /\ "job_caps" \notin schema.rules
       /\ Statement(p, "queue", FALSE, With({"job_caps"}))

RenameStatuses(p) == Statement(p, "rename", FALSE, [schema EXCEPT !.statuses = "new"])

\* The pattern '%status%' also finds the check of validation_status.
DropRunChecks(p) ==
    Statement(p, "drop_checks", FALSE, Without({"run_status", "validation_status"}))

\* Rows with a status of the old set violate the new check.
AddRunChecks(p) ==
    Statement(p, "add_checks", schema.statuses = "old", With({"run_status"}))

AddAttempts(p) == Statement(p, "attempts", FALSE, [schema EXCEPT !.attempt = TRUE])

ReplaceStepChecks(p) ==
    \/ /\ "step_status" \in schema.rules /\ stage[p] = "step_checks" /\ Idle
       /\ schema' = Without({"step_status"})
       /\ UNCHANGED <<stage, steps, writing, graphIds, refused, cut, deaths>>
    \/ /\ "step_status" \notin schema.rules /\ Idle
       /\ Statement(p, "step_checks", FALSE, With({"step_status", "attempts"}))

\* Mutant: the old index is dropped under a name it does not have.
DropOtherIndex(p) == Idle /\ Statement(p, "drop_index", FALSE, schema)

\* The index that allows one row per step gives way to the index that
\* allows one row per attempt.
DropStepIndex(p) ==
    Idle /\ Statement(p, "drop_index", FALSE, [schema EXCEPT !.stepIndex = "none"])
CreateAttemptIndex(p) ==
    Idle /\ Statement(p, "attempt_index", FALSE, [schema EXCEPT !.attemptIndex = TRUE])
CreateStepIndex(p) ==
    /\ Idle
    /\ Statement(p, "step_index", FALSE,
           [schema EXCEPT !.stepIndex = IF @ = "none" THEN "plain" ELSE @])

\* ADD COLUMN IF NOT EXISTS leaves an existing column as it is, without check.
MigrateAgentRunValidationSchema(p) ==
    Statement(p, "validation", FALSE,
        IF schema.validation THEN schema
        ELSE [With({"validation_status"}) EXCEPT !.validation = TRUE])

\* DROP TABLE ... CASCADE takes the foreign key and leaves the column.
DropLegacyGraphs(p) ==
    /\ stage[p] = "drop_graphs" /\ Go(p, "graphs")
    /\ IF schema.graphs = "legacy"
       THEN /\ schema' = [Without({"graph_key"}) EXCEPT !.graphs = "none"]
            /\ graphIds' = IF graphIds = "kept" THEN "dangling" ELSE graphIds
       ELSE UNCHANGED <<schema, graphIds>>
    /\ UNCHANGED <<steps, writing, refused, cut, deaths>>

CreateGraphs(p) == Statement(p, "graphs", FALSE, [schema EXCEPT !.graphs = "current"])
DropGraphKey(p) == Statement(p, "drop_key", FALSE, Without({"graph_key"}))

\* Only duplicate_object is caught, not a value that points at no graph.
AddGraphKey(p) == Statement(p, "add_key", graphIds = "dangling", With({"graph_key"}))

\* pruneExpiredSessions, markIncompleteDeploymentsFailed and the unlock; a
\* server then enforces that tables and columns are there.
Settle(p) ==
    Statement(p, "settle", ~(schema.tables /\ schema.graphs = "current" /\ schema.attempt), schema)

-----------------------------------------------------------------------------
\* createAgentStep: the attempt is computed from what the INSERT sees when it
\* begins; DDL on agent_steps waits until it has ended.
BeginStep(p, s) ==
    /\ stage[p] = "serving" /\ writing[p].attempt = 0 /\ steps[s] < MaxAttempts
    /\ writing' = [writing EXCEPT ![p] = [slot |-> s, attempt |-> steps[s] + 1]]
    /\ UNCHANGED <<stage, steps, schema, graphIds, refused, cut, deaths>>

\* The row goes in, or an index finds another one in its way.
EndStep(p) ==
    LET s == writing[p].slot
        attempt == writing[p].attempt
        taken == schema.attemptIndex /\ attempt <= steps[s]
        barred == schema.stepIndex = "unique" /\ steps[s] > 0
    IN  /\ stage[p] = "serving" /\ attempt > 0
        /\ writing' = [writing EXCEPT ![p].attempt = 0]
        /\ steps' = IF taken \/ barred THEN steps ELSE [steps EXCEPT ![s] = attempt]
        /\ refused' = IF ~taken /\ barred THEN refused \cup {s} ELSE refused
        /\ UNCHANGED <<stage, schema, graphIds, cut, deaths>>

\* A process dies, or one that could not start is started again.  Its session
\* ends: the lock is free and what its statement did not commit is undone.
Die(p) ==
    /\ stage[p] # "down" /\ deaths < MaxDeaths
    /\ Go(p, "down") /\ deaths' = deaths + 1
    /\ writing' = [writing EXCEPT ![p].attempt = 0]
    /\ cut' = IF stage[p] \in Migrating THEN cut \cup {stage[p]} ELSE cut
    /\ UNCHANGED <<steps, schema, graphIds, refused>>

Migrate(p) ==
    \/ CreateSchema(p) \/ MigrateRunQueueCapabilitySchema(p)
    \/ RenameStatuses(p) \/ DropRunChecks(p) \/ AddRunChecks(p)
    \/ AddAttempts(p) \/ ReplaceStepChecks(p)
    \/ DropStepIndex(p) \/ CreateAttemptIndex(p) \/ CreateStepIndex(p)
    \/ MigrateAgentRunValidationSchema(p)
    \/ DropLegacyGraphs(p) \/ CreateGraphs(p) \/ DropGraphKey(p) \/ AddGraphKey(p)
    \/ Settle(p)

MigrationNext ==
    \E p \in Processes :
        \/ Connect(p) \/ AcquireAdvisoryLock(p) \/ Migrate(p)
        \/ \E s \in Slots : BeginStep(p, s)
        \/ EndStep(p) \/ Die(p)

MigrationSpec == MigrationInit /\ [][MigrationNext]_storeSchemaVars

-----------------------------------------------------------------------------
\* A death between the DROP of the old index and the CREATE of the new one.
SwapWasCut == cut \cap {"attempt_index", "step_index"} # {}

\* A process that serves may record another attempt of a step at any time,
\* another process's migration included, and a start fails only for one of
\* two causes: an index swap that a death cut short, after which the unique
\* index stands again or cannot be built, and runs that point at graphs of
\* the earlier version.  Whoever serves while nobody migrates, and nobody
\* died migrating, serves a schema with every index, check and key the code
\* asks for, but the check of validation_status.
SchemaServes ==
    /\ refused # {} => SwapWasCut
    /\ (\E p \in Processes : stage[p] = "failed") => SwapWasCut \/ graphIds = "dangling"
    /\ (\E p \in Processes : stage[p] = "serving") /\ ~Locked /\ cut = {}
        /\ (\A p \in Processes : stage[p] # "failed") =>
           /\ schema.stepIndex = "plain" /\ schema.attemptIndex /\ schema.attempt
           /\ Rules \ {"validation_status"} \subseteq schema.rules /\ graphIds # "dangling"

\* "Implemented idempotent migration that handles fresh installs and upgrades":
\* no process fails to start (docs/critical-blockers-resolved.md).
UpgradeSucceeds == \A p \in Processes : stage[p] # "failed"
=============================================================================
