----------------------------- MODULE SerialRun ------------------------------
(***************************************************************************)
(* What the run lock and current_step_index promise of kernel runs, as if  *)
(* there were no jobs, leases and awaits: a run is executed by one process *)
(* after another, and every step that is recorded is the next one of the   *)
(* plan, recorded by the process that executes it.                         *)
(***************************************************************************)
EXTENDS Naturals

CONSTANTS
  Run, Node,
  StepCount     \* the length of a run's plan

VARIABLES
  executors,    \* who is inside executeLoop with a run
  done          \* how many steps of a run are recorded

serialVars == <<executors, done>>

Init ==
  /\ executors = [r \in Run |-> {}]
  /\ done = [r \in Run |-> 0]

\* Nobody executes the run, and the process no other run.
Take(r, n) ==
  /\ executors[r] = {}
  /\ \A q \in Run : n \notin executors[q]
  /\ executors' = [executors EXCEPT ![r] = {n}]
  /\ UNCHANGED done

Record(r) ==
  /\ executors[r] # {}
  /\ done[r] < StepCount
  /\ done' = [done EXCEPT ![r] = @ + 1]
  /\ UNCHANGED executors

\* At the end of the plan, at a failed step, or because the process stops.
Leave(r) ==
  /\ executors[r] # {}
  /\ executors' = [executors EXCEPT ![r] = {}]
  /\ UNCHANGED done

Next == \E r \in Run : (\E n \in Node : Take(r, n)) \/ Record(r) \/ Leave(r)

Spec == Init /\ [][Next]_serialVars
=============================================================================
