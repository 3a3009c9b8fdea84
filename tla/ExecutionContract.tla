-------------------------- MODULE ExecutionContract --------------------------
(***************************************************************************)
(* The execution contract of runs: the configuration a run was created     *)
(* with, hashed together with the policy versions of the release that      *)
(* resolved it, in agent_runs.metadata.  Requests start, resume and fork   *)
(* runs while workers execute them; each process has its own environment   *)
(* and its own release, and reads the row before it rewrites it.           *)
(***************************************************************************)
EXTENDS Naturals, FiniteSets

CONSTANTS
    Runs, First,  \* the run that is there from the start, and those created later
    ApiCalls,     \* requests to the API process, numbers in the order of their arrival
    RunWorkers,   \* job workers
    EnvOf,        \* environment of "api" and of each worker: its mode and its limit
    Wants,        \* executionConfig of requests: some fields, or none
    MaxReleases   \* bound: releases of the policies

ASSUME ExecutionContractAssumption ==
    /\ First \in Runs /\ ApiCalls \subseteq Nat /\ MaxReleases \in Nat \ {0}
    /\ RunWorkers \cap ApiCalls = {} /\ "api" \notin RunWorkers
    /\ EnvOf \in [RunWorkers \cup {"api"} -> [mode : {"warn", "off"}, limit : {"low", "high"}]]
    /\ Wants \subseteq [profile : {"full", "ci", "-"}, mode : {"warn", "off", "-"},
                       limit : {"low", "high", "-"}]

VARIABLES
    contract,  \* metadata.executionConfig and its contract, per run
    runStatus,
    runJob,    \* runs with a queued or claimed job: "none", "queued" or "claimed"
    agent,     \* what each request and each worker does
    release,   \* release of each process
    promised,  \* history variable: configuration an explicit request last set
    unsigned,  \* history variable: runs whose row was ever without a contract
    stale      \* history variable: agents behind whose back the contract was written

contractVars == <<contract, runStatus, runJob, agent, release, promised, unsigned, stale>>

Agents == ApiCalls \cup RunWorkers
Proc(a) == IF a \in ApiCalls THEN "api" ELSE a

\* A field is "-" where the record of a request or of a row lacks it.
Fields == {"profile", "mode", "limit"}
Nothing == [f \in Fields |-> "-"]
Configs == [profile : {"full", "ci"}, mode : {"warn", "off"}, limit : {"low", "high"}]
Bare == [config |-> Nothing, release |-> 0]

\* executionConfigPreset.
Preset(profile) == IF profile = "ci" THEN [Nothing EXCEPT !.mode = "off"] ELSE Nothing

Or(x, y) == IF x # "-" THEN x ELSE y

\* normalizeExecutionConfig from the environment of p, and from a base.
FromEnv(raw, p) ==
    LET profile == Or(raw.profile, "full")
    IN  [profile |-> profile,
         mode |-> Or(raw.mode, Or(Preset(profile).mode, EnvOf[p].mode)),
         limit |-> Or(raw.limit, Or(Preset(profile).limit, EnvOf[p].limit))]
FromBase(raw, base) == [f \in Fields |-> Or(raw[f], base[f])]
Builder(config) == [config EXCEPT !.mode = "off"]

\* resolveExecutionConfig: what the row says, and what is asked for.
Persisted(row, p) == FromEnv(row.config, p)
Requested(row, want, p) ==
    IF want = Nothing THEN Persisted(row, p)
    ELSE IF want.profile # "-" THEN FromEnv(want, p)
    ELSE FromBase(want, Persisted(row, p))

\* withResolvedExecutionContractMetadata: the hash takes the policy versions in.
Signed(config, p) == [config |-> config, release |-> release[p]]

\* assertStoredExecutionContract and assertSupportedExecutionContract.  The
\* verdict on support is the one its own release stored with the contract.
HasContract(row) == row # Bare
\* Mutant: the configuration is compared, and not the hash of the contract.
MatchesConfig(row, p) == ~HasContract(row) \/ Persisted(row, p) = row.config
Matches(row, p) == ~HasContract(row) \/ Signed(Persisted(row, p), p) = row
StoredSupport(row) == TRUE
RefusalOf(row, p) ==
    IF ~StoredSupport(row) THEN {"UNSUPPORTED_CONTRACT"}
    ELSE IF ~Matches(row, p) THEN {"CONTRACT_MISMATCH"} ELSE {}
NeedsNormalization(row) == ~HasContract(row)

-----------------------------------------------------------------------------
Idling == [at |-> "idle", run |-> First, row |-> Bare, want |-> Nothing, mode |-> "plain",
           config |-> Nothing, status |-> "none"]
AgentPoints == {"idle", "prepare", "decide", "queue", "execute", "done"}
Modes == {"plain", "override", "fork"}

ContractTypeOK ==
    /\ contract \in [Runs -> [config : Configs \cup {Nothing}, release : 0..MaxReleases]]
    /\ runStatus \in [Runs -> {"none", "queued", "failed", "complete"}]
    /\ runJob \in [Runs -> {"none", "queued", "claimed"}]
    /\ \A a \in Agents :
           /\ agent[a].at \in AgentPoints /\ agent[a].run \in Runs /\ agent[a].mode \in Modes
           /\ agent[a].config \in Configs \cup {Nothing}
    /\ release \in [RunWorkers \cup {"api"} -> 1..MaxReleases]
    /\ promised \in [Runs -> Configs \cup {Nothing}]
    /\ unsigned \subseteq Runs /\ stale \subseteq Agents

\* The first run is queued, or failed and may be resumed; its row has the
\* contract of the first release, or none.
ContractInit ==
    /\ release = [p \in RunWorkers \cup {"api"} |-> 1]
    /\ \E row \in {Bare, [config |-> FromEnv(Nothing, "api"), release |-> 1]}, queued \in BOOLEAN :
           /\ contract = [r \in Runs |-> IF r = First THEN row ELSE Bare]
           /\ unsigned = IF row = Bare THEN {First} ELSE {}
           /\ runStatus = [r \in Runs |-> IF r # First THEN "none"
                                          ELSE IF queued THEN "queued" ELSE "failed"]
           /\ runJob = [r \in Runs |-> IF r = First /\ queued THEN "queued" ELSE "none"]
    /\ agent = [a \in Agents |-> Idling] /\ promised = [r \in Runs |-> Nothing]
    /\ stale = {}

At(a, point) == agent[a].at = point

\* Agents that execute r, or are about to, with the row as they have read it.
Readers(r) ==
    {a \in Agents : agent[a].run = r /\ (At(a, "execute") \/ (a \in RunWorkers /\ At(a, "prepare")))}

Step(a, changes) == agent' = [agent EXCEPT ![a] = changes]
Arrives(a) == a \in ApiCalls /\ At(a, "idle") /\ \A b \in ApiCalls : b < a => ~At(b, "idle")
Rewrite(a, r, row) ==
    contract' = [contract EXCEPT ![r] = row] /\ stale' = stale \cup (Readers(r) \ {a})

\* Nobody waits for a step of this agent any more.
Leave(a) == Step(a, [Idling EXCEPT !.at = IF a \in ApiCalls THEN "done" ELSE "idle"])

\* createAndExecuteRun and createQueuedRun; what their routes ask before is
\* in ProjectEdits.
Start(a, r, want, profile) ==
    LET config == IF profile = "builder" THEN Builder(Requested(Bare, want, "api"))
                  ELSE Requested(Bare, want, "api")
    IN  /\ Arrives(a) /\ runStatus[r] = "none"
        /\ contract' = [contract EXCEPT ![r] = Signed(config, "api")]
        /\ runStatus' = [runStatus EXCEPT ![r] = "queued"]
        /\ promised' = [promised EXCEPT ![r] = config]
        /\ IF profile = "queued"
           THEN Leave(a) /\ runJob' = [runJob EXCEPT ![r] = "queued"]
           ELSE /\ Step(a, [Idling EXCEPT !.at = "execute", !.run = r, !.config = config])
                /\ UNCHANGED runJob
        /\ UNCHANGED <<release, unsigned, stale>>

\* queueResumeRun reads the row.
ReadForResume(a, r, want, mode) ==
    /\ Arrives(a) /\ runStatus[r] # "none"
    /\ Step(a, [Idling EXCEPT !.at = "prepare", !.run = r, !.row = contract[r], !.want = want,
                              !.mode = mode, !.status = runStatus[r]])
    /\ UNCHANGED <<contract, runStatus, runJob, release, promised, unsigned, stale>>

\* prepareResumeExecutionConfig: a row without a contract gets one.
PrepareResume(a) ==
    LET row == agent[a].row
        signed == Signed(Persisted(row, "api"), "api")
    IN  /\ a \in ApiCalls /\ At(a, "prepare")
        /\ IF ~Matches(row, "api")
           THEN Leave(a) /\ UNCHANGED <<contract, stale>>
           ELSE /\ IF NeedsNormalization(row) THEN Rewrite(a, agent[a].run, signed)
                   ELSE UNCHANGED <<contract, stale>>
                /\ Step(a, [agent[a] EXCEPT !.at = "decide",
                            !.row = IF NeedsNormalization(row) THEN signed ELSE row])
        /\ UNCHANGED <<runStatus, runJob, release, promised, unsigned>>

\* ... and a request for another configuration says what is to be done.
DecideResume(a) ==
    LET row == agent[a].row
        wanted == Requested(row, agent[a].want, "api")
        differs == wanted # Persisted(row, "api")
    IN  /\ a \in ApiCalls /\ At(a, "decide")
        /\ IF differs /\ agent[a].mode = "plain"
           THEN Leave(a) /\ UNCHANGED <<contract, promised, stale>>
           ELSE /\ IF differs /\ agent[a].mode = "override"
                   THEN /\ Rewrite(a, agent[a].run, Signed(wanted, "api"))
                        /\ promised' = [promised EXCEPT ![agent[a].run] = wanted]
                   ELSE UNCHANGED <<contract, promised, stale>>
                /\ Step(a, [agent[a] EXCEPT !.at = "queue", !.config = wanted,
                            !.row = Bare, !.want = Nothing])
        /\ UNCHANGED <<runStatus, runJob, release, unsigned>>

\* A job is enqueued unless the run has one already; a complete run rests.
QueueResume(a) ==
    LET r == agent[a].run
    IN  /\ a \in ApiCalls /\ At(a, "queue") /\ agent[a].mode # "fork"
        /\ IF agent[a].status = "complete" THEN UNCHANGED <<runStatus, runJob>>
           ELSE /\ runStatus' = [runStatus EXCEPT ![r] = "queued"]
                /\ runJob' = [runJob EXCEPT ![r] = IF @ = "none" THEN "queued" ELSE @]
        /\ Leave(a)
        /\ UNCHANGED <<contract, release, promised, unsigned, stale>>

\* forkRunForResume: the new run gets a contract of its own.
ForkForResume(a, r) ==
    /\ a \in ApiCalls /\ At(a, "queue") /\ agent[a].mode = "fork" /\ runStatus[r] = "none"
    /\ contract' = [contract EXCEPT ![r] = Signed(agent[a].config, "api")]
    /\ promised' = [promised EXCEPT ![r] = agent[a].config]
    /\ runStatus' = [runStatus EXCEPT ![r] = "queued"]
    /\ runJob' = [runJob EXCEPT ![r] = "queued"]
    /\ Leave(a)
    /\ UNCHANGED <<release, unsigned, stale>>

\* forkRun copies the metadata of the source as it is, and queues no job.
Fork(a, source, r) ==
    /\ Arrives(a) /\ runStatus[source] # "none" /\ runStatus[r] = "none"
    /\ contract' = [contract EXCEPT ![r] = contract[source]]
    /\ unsigned' = IF contract[source] = Bare THEN unsigned \cup {r} ELSE unsigned
    /\ runStatus' = [runStatus EXCEPT ![r] = "queued"]
    /\ Leave(a)
    /\ UNCHANGED <<runJob, release, promised, stale>>

\* A worker claims the job and reads the row.
ClaimRun(w, r) ==
    /\ w \in RunWorkers /\ At(w, "idle") /\ runJob[r] = "queued"
    /\ runJob' = [runJob EXCEPT ![r] = "claimed"]
    /\ Step(w, [Idling EXCEPT !.at = "prepare", !.run = r, !.row = contract[r],
                              !.status = runStatus[r]])
    /\ stale' = stale \ {w}
    /\ UNCHANGED <<contract, runStatus, release, promised, unsigned>>

\* executeRunJob up to the execution: the worker's catch fails the run.
EnterRun(w) ==
    LET r == agent[w].run
        row == agent[w].row
        config == Persisted(row, w)
        error == RefusalOf(row, w)
    IN  /\ w \in RunWorkers /\ At(w, "prepare")
        /\ IF error # {} \/ agent[w].status = "complete"
           THEN /\ runStatus' = [runStatus EXCEPT ![r] = IF error # {} THEN "failed" ELSE @]
                /\ runJob' = [runJob EXCEPT ![r] = "none"]
                /\ Leave(w)
           ELSE /\ Step(w, [Idling EXCEPT !.at = "execute", !.run = r, !.config = config])
                /\ UNCHANGED <<runStatus, runJob>>
        /\ IF error = {} /\ NeedsNormalization(row) THEN Rewrite(w, r, Signed(config, w))
           ELSE UNCHANGED <<contract, stale>>
        /\ UNCHANGED <<release, promised, unsigned>>

\* The execution ends, in a request or in a worker.
EndRun(a, status) ==
    LET r == agent[a].run
    IN  /\ At(a, "execute") /\ Leave(a)
        /\ runStatus' = [runStatus EXCEPT ![r] = status]
        /\ runJob' = [runJob EXCEPT ![r] = IF a \in RunWorkers THEN "none" ELSE @]
        /\ stale' = stale \ {a}
        /\ UNCHANGED <<contract, release, promised, unsigned>>

\* A worker is replaced by one of the next release; its job is reclaimed.
Upgrade(w) ==
    /\ w \in RunWorkers /\ release[w] < MaxReleases
    /\ release' = [release EXCEPT ![w] = @ + 1]
    /\ runJob' = [runJob EXCEPT ![agent[w].run] = IF At(w, "idle") THEN @ ELSE "queued"]
    /\ Step(w, Idling)
    /\ stale' = stale \ {w}
    /\ UNCHANGED <<contract, runStatus, promised, unsigned>>

\* The API process is replaced; the runs it executes itself stay as they are.
UpgradeApi ==
    /\ release["api"] < MaxReleases
    /\ release' = [release EXCEPT !["api"] = @ + 1]
    /\ agent' = [a \in Agents |-> IF a \in ApiCalls /\ ~At(a, "idle")
                                  THEN [Idling EXCEPT !.at = "done"] ELSE agent[a]]
    /\ stale' = stale \ ApiCalls
    /\ UNCHANGED <<contract, runStatus, runJob, promised, unsigned>>

ContractNext ==
    \/ UpgradeApi
    \/ \E a \in ApiCalls :
           \/ \E r \in Runs, want \in Wants :
                  \/ \E profile \in {"default", "builder", "queued"} : Start(a, r, want, profile)
                  \/ \E mode \in Modes : ReadForResume(a, r, want, mode)
           \/ PrepareResume(a) \/ DecideResume(a) \/ QueueResume(a)
           \/ \E r \in Runs : ForkForResume(a, r) \/ \E source \in Runs : Fork(a, source, r)
    \/ \E a \in Agents, status \in {"failed", "complete"} : EndRun(a, status)
    \/ \E w \in RunWorkers : EnterRun(w) \/ Upgrade(w) \/ \E r \in Runs : ClaimRun(w, r)

ContractSpec == ContractInit /\ [][ContractNext]_contractVars

-----------------------------------------------------------------------------
\* Whoever executes a run does so under the configuration and the release its
\* row records, unless the row was written while they had it; and what an
\* explicit request made the contract of a run stays its contract until the
\* next such request, unless the run once had no contract, when whoever read
\* it then may still write theirs over it.
ContractGoverns ==
    /\ \A a \in Agents :
           At(a, "execute") =>
               contract[agent[a].run] = Signed(agent[a].config, Proc(a)) \/ a \in stale
    /\ \A r \in Runs :
           promised[r] = Nothing \/ contract[r].config = promised[r] \/ r \in unsigned

\* "If a worker cannot support a run's contract [...] it must emit
\* UNSUPPORTED_CONTRACT" (docs/contracts/upgrade-semantics.md): a worker that
\* is about to refuse a run gives that reason and no other.
RefusedAsUnsupported ==
    \A w \in RunWorkers :
        At(w, "prepare") /\ RefusalOf(agent[w].row, w) # {} =>
            RefusalOf(agent[w].row, w) = {"UNSUPPORTED_CONTRACT"}
=============================================================================
