----------------------------- MODULE MCServices -----------------------------
(***************************************************************************)
(* Four components that share no state, checked in one run: the schema     *)
(* migration of the store, the accounts, the scope of corrections, and the *)
(* page of the web client.  part says which one moves.                     *)
(***************************************************************************)
EXTENDS StoreMigration, Accounts, CorrectionScope, WebClient, TLC

CONSTANTS pa, pb, ws1, ws2

VARIABLE part

mcVars == <<storeSchemaVars, accountVars, scopeVars, clientVars, part>>

\* The kernel's own caps, caps below those of every failure, and warnings only.
MCScopeConfigs ==
    {[files |-> 15, size |-> 400, policy |-> "enforce"],
     [files |-> 4, size |-> 100, policy |-> "enforce"],
     [files |-> 15, size |-> 400, policy |-> "warn"]}
\* Both projects are in one workspace; the other one is empty.
MCHome == [p \in {pa, pb} |-> ws1]
MCSymmetry == Permutations({pa, pb}) \cup Permutations(Tasks)

\* Each part starts from its own states; those that stand still, from one.
MCInit ==
    /\ MigrationInit /\ AccountsInit /\ ScopeInit /\ ClientInit
    /\ part \in {"migration", "accounts", "corrections", "client"}
    /\ part # "migration" => schema = SchemaOf("fresh")
    /\ part # "accounts" => users = {} /\ call[1].by = CHOOSE u \in Users : TRUE
    /\ part # "corrections" =>
          correction = NoCorrection /\ config = CHOOSE c \in RunConfigs : TRUE
    /\ part # "client" => session

Still(others) == UNCHANGED <<others, part>>

MCNext ==
    \/ /\ part = "migration" /\ MigrationNext
       /\ Still(<<accountVars, scopeVars, clientVars>>)
    \/ /\ part = "accounts" /\ AccountsNext
       /\ Still(<<storeSchemaVars, scopeVars, clientVars>>)
    \/ /\ part = "corrections" /\ ScopeNext
       /\ Still(<<storeSchemaVars, accountVars, clientVars>>)
    \/ /\ part = "client" /\ ClientNext
       /\ Still(<<storeSchemaVars, accountVars, scopeVars>>)

MCSpec == MCInit /\ [][MCNext]_mcVars
=============================================================================
