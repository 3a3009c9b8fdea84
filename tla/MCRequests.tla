----------------------------- MODULE MCRequests -----------------------------
(***************************************************************************)
(* What one request, one tab or one step goes through: three components    *)
(* that share no state, checked in one run.  part says which one moves.    *)
(***************************************************************************)
EXTENDS FileSession, ProjectEdits, Sessions, TLC

CONSTANTS c1, c2, c3

VARIABLE part

mcVars == <<fileVars, editVars, sessVars, part>>

MCPaths == 0..2
MCIgnored == {2}
MCTabOf == c1 :> 1 @@ c2 :> 1 @@ c3 :> 2
MCKindsOf == c1 :> {"api"} @@ c2 :> {"api"} @@ c3 :> {"api", "login", "logout"}
MCSymmetry == Permutations(Requests) \cup Permutations({c1, c2})

MCInit ==
    /\ FileInit /\ EditsInit /\ SessInit
    /\ part \in IF disk[1] \in Oversized THEN {"file"} ELSE {"file", "edits", "sessions"}

MCNext ==
    \/ part = "file" /\ FileNext /\ UNCHANGED <<editVars, sessVars, part>>
    \/ part = "edits" /\ EditsNext /\ UNCHANGED <<fileVars, sessVars, part>>
    \/ part = "sessions" /\ SessNext /\ UNCHANGED <<fileVars, editVars, part>>

MCSpec == MCInit /\ [][MCNext]_mcVars

=============================================================================
