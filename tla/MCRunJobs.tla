----------------------------- MODULE MCRunJobs -----------------------------
(***************************************************************************)
(* RunJobs.tla for TLC (two runs, two nodes, three rows, two claims a row) *)
(* and, in the same run, ExecutionContract.tla, with which it shares no    *)
(* state: what the store keeps of a run for the processes that serve it.   *)
(* part says which one moves.                                              *)
(***************************************************************************)
EXTENDS RunJobs, ExecutionContract, TLC

CONSTANTS rw1

VARIABLE part

mcVars == <<jobVars, contractVars, part>>

Symmetry == Permutations(Run) \union Permutations(Node)

\* The worker's own limit is another one than the API's.
MCEnvOf ==
    "api" :> [mode |-> "warn", limit |-> "low"] @@ rw1 :> [mode |-> "warn", limit |-> "high"]
MCWants == {Nothing, [Nothing EXCEPT !.profile = "ci"], [Nothing EXCEPT !.limit = "high"]}

MCInit ==
    /\ JobInit /\ ContractInit /\ part \in {"jobs", "contract"}
    /\ part = "jobs" => contract[First] = Bare /\ runStatus[First] = "queued"

MCNext ==
    \/ part = "jobs" /\ JobNext /\ UNCHANGED <<contractVars, part>>
    \/ part = "contract" /\ ContractNext /\ UNCHANGED <<jobVars, part>>

MCSpec == MCInit /\ [][MCNext]_mcVars
=============================================================================
