---------------------------- MODULE RunJobGraph ----------------------------
(***************************************************************************)
(* The abstract specification of a durable run job: `runJobGraph' of       *)
(* agent/lifecycle-graph.ts, read as a specification.  A job id that has   *)
(* not been inserted yet is "absent"; a job enters in the graph's initial  *)
(* state and afterwards only moves along the graph's edges.                *)
(***************************************************************************)
CONSTANT Job                 \* the identifiers a job row may get

VARIABLE status              \* the status column of every job

States == {"queued", "claimed", "running", "complete", "failed"}

InitialState == "queued"

Transitions ==
  [queued   |-> {"claimed"},
   claimed  |-> {"running", "complete", "failed"},
   running  |-> {"claimed", "complete", "failed"},
   complete |-> {},
   failed   |-> {}]

TypeOK == status \in [Job -> States \union {"absent"}]

Init == status = [j \in Job |-> "absent"]

Insert(j) ==
  /\ status[j] = "absent"
  /\ status' = [status EXCEPT ![j] = InitialState]

Move(j) ==
  /\ status[j] \in States
  /\ \E next \in Transitions[status[j]] :
       status' = [status EXCEPT ![j] = next]

Next == \E j \in Job : Insert(j) \/ Move(j)

Spec == Init /\ [][Next]_status
=============================================================================
