------------------------------ MODULE RunJobs ------------------------------
(***************************************************************************)
(* The durable job queue of lib/project-store.ts: the tables `run_jobs'    *)
(* and `worker_nodes' and the statements AppStore runs on them.            *)
(*                                                                         *)
(* Every statement is one action, because every one is a single SQL        *)
(* statement.  The module fixes neither who calls them nor in which order: *)
(* Next lets any node issue any statement at any time, which is what the   *)
(* store has to survive.  RunExecution.tla adds the programs that call it. *)
(*                                                                         *)
(* A lease is abstracted to what its readers can tell apart: NULL, a time  *)
(* still ahead of NOW(), or a time already past.  LeaseExpires is the      *)
(* passing of that time.  Job ids are numbered in created_at order.        *)
(***************************************************************************)
EXTENDS Naturals

CONSTANTS
  Run,          \* agent run ids
  Node,         \* worker node ids (NODE_ID of a worker, or cli-compute:<pid>)
  NoRun,        \* the run of a row that does not exist
  NoNode,       \* assigned_node IS NULL
  MaxJobs,      \* bound: how many job rows are ever inserted
  MaxClaims     \* bound: how often one row is claimed (attempt_count)

ASSUME RunJobsAssumption ==
  /\ NoRun \notin Run
  /\ NoNode \notin Node
  /\ MaxJobs \in Nat
  /\ MaxClaims \in Nat

Job == 1..MaxJobs

Role == {"compute", "eval"}                        \* WorkerNodeRole

ActiveStatus == {"queued", "claimed", "running"}   \* idx_run_jobs_active_run_id
HeldStatus   == {"claimed", "running"}
EndStatus    == {"complete", "failed"}

VARIABLES
  jobs,         \* table run_jobs
  nodes         \* table worker_nodes: the role and the status of a node

jobVars == <<jobs, nodes>>

NoJobRow == [run |-> NoRun, status |-> "absent", node |-> NoNode,
             lease |-> "none", attempts |-> 0]

NoNodeRow == [role |-> "none", status |-> "absent"]

JobRow == [run      : Run,
           status   : ActiveStatus \union EndStatus,
           node     : Node \union {NoNode},
           lease    : {"none", "live", "expired"},
           attempts : 0..MaxClaims]

NodeRow == [role : Role, status : {"online", "offline"}]

TypeOK ==
  /\ jobs \in [Job -> JobRow \union {NoJobRow}]
  /\ nodes \in [Node -> NodeRow \union {NoNodeRow}]

-----------------------------------------------------------------------------
(* Queries *)

Active(j) == jobs[j].status \in ActiveStatus

ActiveJobs(r) == {j \in Job : jobs[j].run = r /\ Active(j)}

\* Mutant of HeldBy: the status filter is forgotten.
HeldByNode(j, n) == jobs[j].node = n

\* assigned_node = $2 AND status IN ('claimed', 'running')
HeldBy(j, n) == jobs[j].status \in HeldStatus /\ jobs[j].node = n

\* Mutant of Claimable: the lease of a held job does not count.
ClaimableByStatus(j) == jobs[j].status \in ActiveStatus

\* Mutant of Claimable: held jobs are never reclaimed.
ClaimableOnce(j) == jobs[j].status = "queued"

\* The row filter of claimNextRunJob: never claimed, or held on a past lease.
Claimable(j) ==
  \/ jobs[j].status = "queued"
  \/ jobs[j].status \in HeldStatus /\ jobs[j].lease = "expired"

\* The node filter of claimNextRunJob; every job is enqueued for "compute".
MayClaim(n) == nodes[n] = [role |-> "compute", status |-> "online"]

-----------------------------------------------------------------------------
(* Statements on run_jobs *)

JobInit ==
  /\ jobs = [j \in Job |-> NoJobRow]
  /\ nodes = [n \in Node |-> NoNodeRow]

\* The next free row: rows are inserted in created_at order.
NextRow(j) ==
  /\ jobs[j].status = "absent"
  /\ \A i \in Job : i < j => jobs[i].status # "absent"

\* Mutant of InsertRunJob: a table without the unique index.
InsertWithoutIndex(j, r) ==
  /\ NextRow(j)
  /\ jobs' = [jobs EXCEPT ![j] = [run |-> r, status |-> "queued",
                                  node |-> NoNode, lease |-> "none",
                                  attempts |-> 0]]
  /\ UNCHANGED nodes

\* enqueueRunJob, the INSERT: the partial unique index on the run's active job
\* lets it through only when the run has none.
InsertRunJob(j, r) ==
  /\ NextRow(j)
  /\ ActiveJobs(r) = {}
  /\ jobs' = [jobs EXCEPT ![j] = [run |-> r, status |-> "queued",
                                  node |-> NoNode, lease |-> "none",
                                  attempts |-> 0]]
  /\ UNCHANGED nodes

\* claimNextRunJob: the oldest claimable row among those of the runs in `among'
\* (a worker takes any run's job, a waiting CLI only the job of its own run).
ClaimNextRunJob(n, j, among) ==
  /\ MayClaim(n)
  /\ jobs[j].run \in among
  /\ Claimable(j)
  /\ \A i \in Job : i < j /\ jobs[i].run \in among => ~Claimable(i)
  /\ jobs[j].attempts < MaxClaims
  /\ jobs' = [jobs EXCEPT ![j] = [@ EXCEPT !.status = "claimed", !.node = n,
                                           !.lease = "live",
                                           !.attempts = jobs[j].attempts + 1]]
  /\ UNCHANGED nodes

MarkRunJobRunning(j, n) ==
  /\ HeldBy(j, n)
  /\ jobs' = [jobs EXCEPT ![j] = [@ EXCEPT !.status = "running",
                                           !.lease = "live"]]
  /\ UNCHANGED nodes

\* The renewal does not look at the lease it extends: a lease that has already
\* passed comes back to life as long as nobody reclaimed the job.
RenewRunJobLease(j, n) ==
  /\ HeldBy(j, n)
  /\ jobs' = [jobs EXCEPT ![j].lease = "live"]
  /\ UNCHANGED nodes

\* completeRunJob and failRunJob differ in the status they leave.
EndRunJob(j, n, end) ==
  /\ HeldBy(j, n)
  /\ jobs' = [jobs EXCEPT ![j] = [@ EXCEPT !.status = end, !.lease = "none"]]
  /\ UNCHANGED nodes

LeaseExpires(j) ==
  /\ jobs[j].lease = "live"
  /\ jobs' = [jobs EXCEPT ![j].lease = "expired"]
  /\ UNCHANGED nodes

-----------------------------------------------------------------------------
(* Statements on worker_nodes *)

\* The upsert's WHERE: a node id keeps the role it was first registered with.
MayRegister(n, role) == nodes[n].role \in {"none", role}

UpsertWorkerNodeHeartbeat(n, role) ==
  /\ MayRegister(n, role)
  /\ nodes' = [nodes EXCEPT ![n] = [role |-> role, status |-> "online"]]
  /\ UNCHANGED jobs

MarkWorkerNodeOffline(n) ==
  /\ nodes[n].status # "absent"
  /\ nodes' = [nodes EXCEPT ![n].status = "offline"]
  /\ UNCHANGED jobs

-----------------------------------------------------------------------------
JobNext ==
  \/ \E j \in Job, r \in Run : InsertRunJob(j, r)
  \/ \E n \in Node, j \in Job :
       \/ \E among \in {Run} \union {{r} : r \in Run} :
            ClaimNextRunJob(n, j, among)
       \/ MarkRunJobRunning(j, n)
       \/ RenewRunJobLease(j, n)
       \/ \E end \in EndStatus : EndRunJob(j, n, end)
  \/ \E j \in Job : LeaseExpires(j)
  \/ \E n \in Node, role \in Role : UpsertWorkerNodeHeartbeat(n, role)
  \/ \E n \in Node : MarkWorkerNodeOffline(n)

JobSpec == JobInit /\ [][JobNext]_jobVars

-----------------------------------------------------------------------------
(* Properties *)

\* However enqueues, claims, reclaims and endings interleave, a run never has
\* two jobs that a worker could execute (the index idx_run_jobs_active_run_id
\* and the statements that keep inside it).
OneActiveJobPerRun ==
  \A i, j \in Job :
    /\ jobs[i].run = jobs[j].run
    /\ Active(i)
    /\ Active(j)
    => i = j

\* What the nullable columns mean: a job has a lease exactly while some node
\* holds it, a queued one has never been claimed, and one that was claimed
\* names its last claimer for good.
RowDiscipline(row) ==
  /\ row.status \in HeldStatus <=> row.lease # "none"
  /\ row.status \in {"absent", "queued"} <=> row.attempts = 0
  /\ row.attempts = 0 <=> row.node = NoNode

LeaseDiscipline == \A j \in Job : RowDiscipline(jobs[j])

\* A node that holds a job is registered for the job's role, whatever role
\* later processes with the same node id try to register under
\* (upsertWorkerNodeHeartbeat refuses them).
HolderHasJobRole ==
  \A j \in Job :
    jobs[j].status \in HeldStatus => nodes[jobs[j].node].role = "compute"

\* What every statement of the queue keeps: types, one active job a run, the
\* discipline of leases, and holders of the right role.
JobInv == TypeOK /\ OneActiveJobPerRun /\ LeaseDiscipline /\ HolderHasJobRole

\* A job only changes hands from a holder whose lease has passed, every change
\* of hands is counted in attempt_count, and the count never goes back: the
\* number tells an executor whether the job was taken from it.
TakeoverAfterExpiry ==
  \A j \in Job :
    /\ jobs'[j].attempts \in {jobs[j].attempts, jobs[j].attempts + 1}
    /\ jobs'[j].node # jobs[j].node => jobs'[j].attempts = jobs[j].attempts + 1
    /\ jobs'[j].attempts # jobs[j].attempts => jobs[j].lease \in {"none", "expired"}

\* claimNextRunJob and the statements around it change hands only so.
JobsChangeHandsSafely == [][TakeoverAfterExpiry]_jobVars

\* The statements implement the canonical job state machine of
\* agent/lifecycle-graph.ts.
Graph == INSTANCE RunJobGraph WITH status <- [j \in Job |-> jobs[j].status]

\* Every job moves along the edges of runJobGraph, whoever issues statements.
ImplementsJobGraph == Graph!Spec
=============================================================================
