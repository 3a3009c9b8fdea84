--------------------------- MODULE RunJobs_proofs ---------------------------
(***************************************************************************)
(* Proofs about the durable job queue, for any set of runs and nodes and   *)
(* any bounds: its inductive invariant, the transfer of jobs between       *)
(* holders, and that it implements the canonical job state machine.        *)
(***************************************************************************)
EXTENDS RunJobs, TLAPS

-----------------------------------------------------------------------------
(* Rows *)

\* A row that some node holds, or that is queued, is a stored row.
LEMMA ActiveRowIsStored ==
  ASSUME TypeOK, NEW j \in Job, Active(j) PROVE jobs[j] \in JobRow
BY DEF TypeOK, Active, ActiveStatus, NoJobRow

LEMMA HeldRowIsStored ==
  ASSUME TypeOK, NEW j \in Job, jobs[j].status \in HeldStatus
  PROVE  jobs[j] \in JobRow
BY DEF TypeOK, HeldStatus, NoJobRow

\* Replacing one row by a stored row keeps the tables well formed.
LEMMA RowUpdate ==
  ASSUME TypeOK, NEW j \in Job, NEW row \in JobRow,
         jobs' = [jobs EXCEPT ![j] = row], UNCHANGED nodes
  PROVE  TypeOK'
BY DEF TypeOK

LEMMA ClaimedRow ==
  ASSUME NEW row \in JobRow, NEW n \in Node, row.attempts < MaxClaims
  PROVE  [row EXCEPT !.status = "claimed", !.node = n, !.lease = "live",
                     !.attempts = row.attempts + 1] \in JobRow
<1>1. row.attempts + 1 \in 0..MaxClaims
  BY RunJobsAssumption DEF JobRow
<1> QED
  BY <1>1 DEF JobRow, ActiveStatus, EndStatus

LEMMA RunningRow ==
  ASSUME NEW row \in JobRow
  PROVE  [row EXCEPT !.status = "running", !.lease = "live"] \in JobRow
BY DEF JobRow, ActiveStatus, EndStatus

LEMMA EndedRow ==
  ASSUME NEW row \in JobRow, NEW end \in EndStatus
  PROVE  [row EXCEPT !.status = end, !.lease = "none"] \in JobRow
BY DEF JobRow, ActiveStatus, EndStatus

LEMMA LeaseRow ==
  ASSUME NEW row \in JobRow, NEW l \in {"none", "live", "expired"}
  PROVE  [row EXCEPT !.lease = l] \in JobRow
BY DEF JobRow

-----------------------------------------------------------------------------
(* Type correctness *)

\* Every statement of the queue keeps the rows of both tables well formed.
LEMMA TypeStep == TypeOK /\ [JobNext]_jobVars => TypeOK'
<1> SUFFICES ASSUME TypeOK, [JobNext]_jobVars PROVE TypeOK'
  OBVIOUS
<1>1. ASSUME NEW j \in Job, NEW r \in Run, InsertRunJob(j, r) PROVE TypeOK'
  <2>1. [run |-> r, status |-> "queued", node |-> NoNode, lease |-> "none",
         attempts |-> 0] \in JobRow
    BY RunJobsAssumption DEF JobRow, ActiveStatus, EndStatus
  <2> QED
    BY <1>1, <2>1, RowUpdate DEF InsertRunJob
<1>2. ASSUME NEW j \in Job, NEW n \in Node, NEW among, ClaimNextRunJob(n, j, among)
      PROVE  TypeOK'
  <2>1. jobs[j] \in JobRow
    BY <1>2, ActiveRowIsStored, HeldRowIsStored
    DEF ClaimNextRunJob, Claimable, Active, ActiveStatus
  <2>2. [jobs[j] EXCEPT !.status = "claimed", !.node = n, !.lease = "live",
                        !.attempts = jobs[j].attempts + 1] \in JobRow
    BY <1>2, <2>1, ClaimedRow DEF ClaimNextRunJob
  <2> QED
    BY <1>2, <2>2, RowUpdate DEF ClaimNextRunJob
<1>3. ASSUME NEW j \in Job, NEW n \in Node, MarkRunJobRunning(j, n) PROVE TypeOK'
  BY <1>3, HeldRowIsStored, RunningRow, RowUpdate DEF MarkRunJobRunning, HeldBy
<1>4. ASSUME NEW j \in Job, NEW n \in Node, RenewRunJobLease(j, n) PROVE TypeOK'
  <2>1. jobs' = [jobs EXCEPT ![j] = [jobs[j] EXCEPT !.lease = "live"]]
    BY <1>4 DEF RenewRunJobLease
  <2> QED
    BY <1>4, <2>1, HeldRowIsStored, LeaseRow, RowUpdate
    DEF RenewRunJobLease, HeldBy
<1>5. ASSUME NEW j \in Job, NEW n \in Node, NEW end \in EndStatus, EndRunJob(j, n, end)
      PROVE  TypeOK'
  BY <1>5, HeldRowIsStored, EndedRow, RowUpdate DEF EndRunJob, HeldBy
<1>6. ASSUME NEW j \in Job, LeaseExpires(j) PROVE TypeOK'
  <2>1. jobs[j] \in JobRow
    BY <1>6 DEF LeaseExpires, TypeOK, NoJobRow
  <2>2. jobs' = [jobs EXCEPT ![j] = [jobs[j] EXCEPT !.lease = "expired"]]
    BY <1>6 DEF LeaseExpires
  <2> QED
    BY <1>6, <2>1, <2>2, LeaseRow, RowUpdate DEF LeaseExpires
<1>7. ASSUME NEW n \in Node, NEW role \in Role, UpsertWorkerNodeHeartbeat(n, role)
      PROVE  TypeOK'
  BY <1>7 DEF UpsertWorkerNodeHeartbeat, TypeOK, NodeRow
<1>8. ASSUME NEW n \in Node, MarkWorkerNodeOffline(n) PROVE TypeOK'
  <2>1. nodes[n] \in NodeRow
    BY <1>8 DEF MarkWorkerNodeOffline, TypeOK, NoNodeRow
  <2> QED
    BY <1>8, <2>1 DEF MarkWorkerNodeOffline, TypeOK, NodeRow
<1>9. CASE UNCHANGED jobVars
  BY <1>9 DEF jobVars, TypeOK
<1> QED
  BY <1>1, <1>2, <1>3, <1>4, <1>5, <1>6, <1>7, <1>8, <1>9 DEF JobNext

THEOREM TypeCorrect == JobSpec => []TypeOK
<1>1. JobInit => TypeOK
  BY DEF JobInit, TypeOK
<1> QED
  BY <1>1, TypeStep, PTL DEF JobSpec

-----------------------------------------------------------------------------
(* One active job per run *)

\* A step that makes no job active and keeps the runs of the active ones cannot
\* give a run a second active job.
LEMMA NoNewActiveJob ==
  ASSUME OneActiveJobPerRun,
         \A i \in Job : Active(i)' => Active(i) /\ jobs'[i].run = jobs[i].run
  PROVE  OneActiveJobPerRun'
BY DEF OneActiveJobPerRun

LEMMA OneActiveStep ==
  TypeOK /\ OneActiveJobPerRun /\ [JobNext]_jobVars => OneActiveJobPerRun'
<1> SUFFICES ASSUME TypeOK, OneActiveJobPerRun, [JobNext]_jobVars
             PROVE  OneActiveJobPerRun'
  OBVIOUS
<1>1. ASSUME NEW j \in Job, NEW r \in Run, InsertRunJob(j, r)
      PROVE  OneActiveJobPerRun'
  <2>1. \A i \in Job : i # j => jobs'[i] = jobs[i]
    BY <1>1 DEF InsertRunJob, TypeOK
  <2>2. jobs'[j].run = r
    BY <1>1 DEF InsertRunJob, TypeOK
  <2>3. \A i \in Job : i # j /\ Active(i)' => jobs'[i].run # r
    BY <1>1, <2>1 DEF InsertRunJob, ActiveJobs, Active
  <2> QED
    BY <2>1, <2>2, <2>3 DEF OneActiveJobPerRun, Active
<1>2. ASSUME NEW j \in Job, NEW row \in JobRow, jobs[j] \in JobRow, Active(j),
             row.run = jobs[j].run, jobs' = [jobs EXCEPT ![j] = row]
      PROVE  OneActiveJobPerRun'
  BY <1>2, NoNewActiveJob DEF TypeOK, Active
<1>3. ASSUME NEW j \in Job, NEW n \in Node, NEW among, ClaimNextRunJob(n, j, among)
      PROVE  OneActiveJobPerRun'
  <2>1. Active(j) /\ jobs[j] \in JobRow
    BY <1>3, ActiveRowIsStored
    DEF ClaimNextRunJob, Claimable, Active, ActiveStatus, HeldStatus
  <2> DEFINE row == [jobs[j] EXCEPT !.status = "claimed", !.node = n,
                       !.lease = "live", !.attempts = jobs[j].attempts + 1]
  <2>2. row \in JobRow /\ row.run = jobs[j].run
    BY <1>3, <2>1, ClaimedRow DEF ClaimNextRunJob, JobRow
  <2>3. jobs' = [jobs EXCEPT ![j] = row]
    BY <1>3 DEF ClaimNextRunJob
  <2> HIDE DEF row
  <2> QED
    BY <1>2, <2>1, <2>2, <2>3
<1>4. ASSUME NEW j \in Job, NEW n \in Node, MarkRunJobRunning(j, n)
      PROVE  OneActiveJobPerRun'
  <2>1. Active(j) /\ jobs[j] \in JobRow
    BY <1>4, ActiveRowIsStored
    DEF MarkRunJobRunning, HeldBy, Active, ActiveStatus, HeldStatus
  <2> DEFINE row == [jobs[j] EXCEPT !.status = "running", !.lease = "live"]
  <2>2. row \in JobRow /\ row.run = jobs[j].run
    BY <2>1, RunningRow DEF JobRow
  <2>3. jobs' = [jobs EXCEPT ![j] = row]
    BY <1>4 DEF MarkRunJobRunning
  <2> HIDE DEF row
  <2> QED
    BY <1>2, <2>1, <2>2, <2>3
<1>5. ASSUME NEW j \in Job, NEW l, jobs' = [jobs EXCEPT ![j].lease = l]
      PROVE  OneActiveJobPerRun'
  <2>1. \A i \in Job : /\ jobs'[i].run = jobs[i].run
                       /\ jobs'[i].status = jobs[i].status
    BY <1>5 DEF TypeOK, JobRow, NoJobRow
  <2> QED
    BY <2>1, NoNewActiveJob DEF Active
<1>6. ASSUME NEW j \in Job, NEW n \in Node, NEW end \in EndStatus, EndRunJob(j, n, end)
      PROVE  OneActiveJobPerRun'
  <2>1. Active(j) /\ jobs[j] \in JobRow
    BY <1>6, ActiveRowIsStored
    DEF EndRunJob, HeldBy, Active, ActiveStatus, HeldStatus
  <2> DEFINE row == [jobs[j] EXCEPT !.status = end, !.lease = "none"]
  <2>2. row \in JobRow /\ row.run = jobs[j].run
    BY <2>1, EndedRow DEF JobRow
  <2>3. jobs' = [jobs EXCEPT ![j] = row]
    BY <1>6 DEF EndRunJob
  <2> HIDE DEF row
  <2> QED
    BY <1>2, <2>1, <2>2, <2>3
<1>7. CASE UNCHANGED jobs
  BY <1>7 DEF OneActiveJobPerRun, Active
<1> QED
  BY <1>1, <1>3, <1>4, <1>5, <1>6, <1>7
  DEF JobNext, jobVars, RenewRunJobLease, LeaseExpires,
      UpsertWorkerNodeHeartbeat, MarkWorkerNodeOffline

-----------------------------------------------------------------------------
(* Leases, holders and their roles *)

LEMMA DisciplineStep ==
  TypeOK /\ LeaseDiscipline /\ [JobNext]_jobVars => LeaseDiscipline'
<1> SUFFICES ASSUME TypeOK, LeaseDiscipline, [JobNext]_jobVars
             PROVE  LeaseDiscipline'
  OBVIOUS
<1>1. ASSUME NEW j \in Job, NEW row, jobs' = [jobs EXCEPT ![j] = row],
             RowDiscipline(row)
      PROVE  LeaseDiscipline'
  BY <1>1 DEF LeaseDiscipline, TypeOK
<1> USE DEF RowDiscipline, HeldStatus
<1>2. ASSUME NEW j \in Job, NEW r \in Run, InsertRunJob(j, r)
      PROVE  LeaseDiscipline'
  BY <1>1, <1>2 DEF InsertRunJob
<1>3. ASSUME NEW j \in Job, NEW n \in Node, NEW among, ClaimNextRunJob(n, j, among)
      PROVE  LeaseDiscipline'
  <2>1. jobs[j] \in JobRow
    BY <1>3, ActiveRowIsStored
    DEF ClaimNextRunJob, Claimable, Active, ActiveStatus
  <2> DEFINE row == [jobs[j] EXCEPT !.status = "claimed", !.node = n,
                       !.lease = "live", !.attempts = jobs[j].attempts + 1]
  <2>2. /\ row.status = "claimed"
        /\ row.node = n
        /\ row.lease = "live"
        /\ row.attempts # 0
    BY <2>1 DEF JobRow
  <2>3. jobs' = [jobs EXCEPT ![j] = row]
    BY <1>3 DEF ClaimNextRunJob
  <2> HIDE DEF row
  <2> QED
    BY <1>1, <2>2, <2>3, RunJobsAssumption
<1>4. ASSUME NEW j \in Job, NEW n \in Node, MarkRunJobRunning(j, n)
      PROVE  LeaseDiscipline'
  <2>1. jobs[j] \in JobRow
    BY <1>4, HeldRowIsStored DEF MarkRunJobRunning, HeldBy
  <2>2. RowDiscipline([jobs[j] EXCEPT !.status = "running", !.lease = "live"])
    BY <1>4, <2>1 DEF MarkRunJobRunning, HeldBy, LeaseDiscipline, JobRow
  <2> QED
    BY <1>1, <1>4, <2>2 DEF MarkRunJobRunning
<1>5. ASSUME NEW j \in Job, NEW l \in {"live", "expired"}, jobs[j].lease # "none",
             jobs' = [jobs EXCEPT ![j].lease = l]
      PROVE  LeaseDiscipline'
  <2>1. jobs[j] \in JobRow
    BY <1>5 DEF TypeOK, NoJobRow
  <2>2. RowDiscipline([jobs[j] EXCEPT !.lease = l])
    BY <1>5, <2>1 DEF LeaseDiscipline, JobRow
  <2> QED
    BY <1>1, <1>5, <2>2
<1>6. ASSUME NEW j \in Job, NEW n \in Node, RenewRunJobLease(j, n)
      PROVE  LeaseDiscipline'
  BY <1>5, <1>6 DEF RenewRunJobLease, HeldBy, LeaseDiscipline
<1>7. ASSUME NEW j \in Job, NEW n \in Node, NEW end \in EndStatus, EndRunJob(j, n, end)
      PROVE  LeaseDiscipline'
  <2>1. jobs[j] \in JobRow
    BY <1>7, HeldRowIsStored DEF EndRunJob, HeldBy
  <2>2. RowDiscipline([jobs[j] EXCEPT !.status = end, !.lease = "none"])
    BY <1>7, <2>1 DEF EndRunJob, HeldBy, LeaseDiscipline, JobRow, EndStatus
  <2> QED
    BY <1>1, <1>7, <2>2 DEF EndRunJob
<1>8. ASSUME NEW j \in Job, LeaseExpires(j) PROVE LeaseDiscipline'
  BY <1>5, <1>8 DEF LeaseExpires
<1>9. CASE UNCHANGED jobs
  BY <1>9 DEF LeaseDiscipline
<1> QED
  BY <1>2, <1>3, <1>4, <1>6, <1>7, <1>8, <1>9
  DEF JobNext, jobVars, UpsertWorkerNodeHeartbeat, MarkWorkerNodeOffline

-----------------------------------------------------------------------------
(* What one step does to one row *)

\* A step leaves a row alone, inserts it, has it claimed by a node that may
\* claim it, lets its holder go on with it or end it, or lets its lease pass.
LEMMA RowStep ==
  ASSUME TypeOK, [JobNext]_jobVars, NEW j \in Job
  PROVE  \/ jobs'[j] = jobs[j]
         \/ /\ jobs[j].status = "absent"
            /\ jobs'[j].status = "queued"
            /\ jobs'[j].attempts = 0
            /\ jobs'[j].node = NoNode
         \/ /\ \/ jobs[j].status = "queued"
               \/ jobs[j].status \in HeldStatus /\ jobs[j].lease = "expired"
            /\ MayClaim(jobs'[j].node)
            /\ jobs'[j].node \in Node
            /\ jobs'[j].status = "claimed"
            /\ jobs'[j].attempts = jobs[j].attempts + 1
            /\ jobs'[j].run = jobs[j].run
         \/ /\ jobs[j].status \in HeldStatus
            /\ jobs'[j].status \in {jobs[j].status, "running"} \union EndStatus
            /\ jobs'[j].attempts = jobs[j].attempts
            /\ jobs'[j].node = jobs[j].node
            /\ jobs'[j].run = jobs[j].run
         \/ /\ jobs[j].lease = "live"
            /\ jobs'[j].status = jobs[j].status
            /\ jobs'[j].attempts = jobs[j].attempts
            /\ jobs'[j].node = jobs[j].node
            /\ jobs'[j].run = jobs[j].run
<1> USE DEF TypeOK
<1>1. ASSUME NEW i \in Job, NEW row, jobs' = [jobs EXCEPT ![i] = row]
      PROVE  jobs'[j] = IF i = j THEN row ELSE jobs[j]
  BY <1>1
<1>2. CASE \E i \in Job, r \in Run : InsertRunJob(i, r)
  <2> PICK i \in Job, r \in Run : InsertRunJob(i, r)
    BY <1>2
  <2> QED
    BY <1>1 DEF InsertRunJob, NextRow
<1>3. ASSUME NEW i \in Job, NEW n \in Node, NEW among, ClaimNextRunJob(n, i, among),
             i = j
      PROVE  /\ \/ jobs[j].status = "queued"
                \/ jobs[j].status \in HeldStatus /\ jobs[j].lease = "expired"
             /\ MayClaim(jobs'[j].node)
             /\ jobs'[j].node \in Node
             /\ jobs'[j].status = "claimed"
             /\ jobs'[j].attempts = jobs[j].attempts + 1
             /\ jobs'[j].run = jobs[j].run
  <2>1. Claimable(j) /\ MayClaim(n)
    BY <1>3 DEF ClaimNextRunJob
  <2>2. jobs[j] \in JobRow
    BY <2>1, ActiveRowIsStored DEF Claimable, Active, ActiveStatus, HeldStatus
  <2> DEFINE row == [jobs[j] EXCEPT !.status = "claimed", !.node = n,
                       !.lease = "live", !.attempts = jobs[j].attempts + 1]
  <2>3. /\ row.status = "claimed"
        /\ row.node = n
        /\ row.attempts = jobs[j].attempts + 1
        /\ row.run = jobs[j].run
    BY <2>2 DEF JobRow
  <2>4. jobs'[j] = row
    BY <1>1, <1>3 DEF ClaimNextRunJob
  <2> HIDE DEF row
  <2> QED
    BY <2>1, <2>3, <2>4 DEF Claimable
<1>4. ASSUME NEW i \in Job, NEW n \in Node, i = j,
             \/ MarkRunJobRunning(i, n)
             \/ RenewRunJobLease(i, n)
             \/ \E end \in EndStatus : EndRunJob(i, n, end)
      PROVE  /\ jobs[j].status \in HeldStatus
             /\ jobs'[j].status \in {jobs[j].status, "running"} \union EndStatus
             /\ jobs'[j].attempts = jobs[j].attempts
             /\ jobs'[j].node = jobs[j].node
             /\ jobs'[j].run = jobs[j].run
  <2>1. jobs[j].status \in HeldStatus /\ jobs[j] \in JobRow
    BY <1>4, HeldRowIsStored
    DEF MarkRunJobRunning, RenewRunJobLease, EndRunJob, HeldBy
  <2>2. CASE MarkRunJobRunning(i, n)
    <3> DEFINE row == [jobs[j] EXCEPT !.status = "running", !.lease = "live"]
    <3>1. /\ row.status = "running"
          /\ row.attempts = jobs[j].attempts
          /\ row.node = jobs[j].node
          /\ row.run = jobs[j].run
      BY <2>1 DEF JobRow
    <3>2. jobs'[j] = row
      BY <1>1, <1>4, <2>2 DEF MarkRunJobRunning
    <3> HIDE DEF row
    <3> QED
      BY <2>1, <3>1, <3>2
  <2>3. CASE RenewRunJobLease(i, n)
    <3>1. jobs' = [jobs EXCEPT ![j] = [jobs[j] EXCEPT !.lease = "live"]]
      BY <1>4, <2>3 DEF RenewRunJobLease
    <3> QED
      BY <1>1, <2>1, <3>1 DEF JobRow
  <2>4. CASE \E end \in EndStatus : EndRunJob(i, n, end)
    <3> PICK end \in EndStatus : EndRunJob(i, n, end)
      BY <2>4
    <3> DEFINE row == [jobs[j] EXCEPT !.status = end, !.lease = "none"]
    <3>1. /\ row.status = end
          /\ row.attempts = jobs[j].attempts
          /\ row.node = jobs[j].node
          /\ row.run = jobs[j].run
      BY <2>1 DEF JobRow
    <3>2. jobs'[j] = row
      BY <1>1, <1>4 DEF EndRunJob
    <3> HIDE DEF row
    <3> QED
      BY <2>1, <3>1, <3>2
  <2> QED
    BY <1>4, <2>2, <2>3, <2>4
<1>5. CASE \E i \in Job : LeaseExpires(i)
  <2> PICK i \in Job : LeaseExpires(i)
    BY <1>5
  <2>1. jobs[i] \in JobRow
    BY DEF LeaseExpires, NoJobRow
  <2> QED
    BY <2>1 DEF LeaseExpires, JobRow
<1>6. ASSUME NEW i \in Job, NEW n \in Node, i # j,
             \/ MarkRunJobRunning(i, n)
             \/ RenewRunJobLease(i, n)
             \/ \E end \in EndStatus : EndRunJob(i, n, end)
             \/ \E among : ClaimNextRunJob(n, i, among)
      PROVE  jobs'[j] = jobs[j]
  BY <1>6 DEF MarkRunJobRunning, RenewRunJobLease, EndRunJob, ClaimNextRunJob
<1>7. CASE UNCHANGED jobs
  BY <1>7
<1> QED
  BY <1>2, <1>3, <1>4, <1>5, <1>6, <1>7
  DEF JobNext, jobVars, UpsertWorkerNodeHeartbeat, MarkWorkerNodeOffline

\* A stored row stays stored, and stays its run's.
LEMMA StoredRowStays ==
  ASSUME TypeOK, [JobNext]_jobVars, NEW j \in Job, jobs[j].status # "absent"
  PROVE  jobs'[j].status # "absent" /\ jobs'[j].run = jobs[j].run
BY RowStep DEF HeldStatus, EndStatus

\* A step touches at most one row of run_jobs.
LEMMA OneRowStep ==
  ASSUME TypeOK, [JobNext]_jobVars
  PROVE  \/ jobs' = jobs
         \/ \E i \in Job : \A k \in Job : k # i => jobs'[k] = jobs[k]
<1> USE DEF TypeOK
<1>1. ASSUME NEW i \in Job, NEW row, jobs' = [jobs EXCEPT ![i] = row]
      PROVE  \A k \in Job : k # i => jobs'[k] = jobs[k]
  BY <1>1
<1>2. ASSUME NEW i \in Job, NEW r \in Run, InsertRunJob(i, r)
      PROVE  \A k \in Job : k # i => jobs'[k] = jobs[k]
  BY <1>1, <1>2 DEF InsertRunJob
<1>3. ASSUME NEW i \in Job, NEW n \in Node,
             \/ MarkRunJobRunning(i, n)
             \/ RenewRunJobLease(i, n)
             \/ \E end \in EndStatus : EndRunJob(i, n, end)
             \/ \E among : ClaimNextRunJob(n, i, among)
      PROVE  \A k \in Job : k # i => jobs'[k] = jobs[k]
  BY <1>1, <1>3 DEF MarkRunJobRunning, RenewRunJobLease, EndRunJob, ClaimNextRunJob
<1>4. ASSUME NEW i \in Job, LeaseExpires(i)
      PROVE  \A k \in Job : k # i => jobs'[k] = jobs[k]
  BY <1>1, <1>4 DEF LeaseExpires
<1> QED
  BY <1>2, <1>3, <1>4
  DEF JobNext, jobVars, UpsertWorkerNodeHeartbeat, MarkWorkerNodeOffline

-----------------------------------------------------------------------------
(* The inductive invariant *)

\* The node of a held row is a node.
LEMMA HolderIsNode ==
  ASSUME TypeOK, LeaseDiscipline, NEW j \in Job, jobs[j].status \in HeldStatus
  PROVE  jobs[j].node \in Node
<1>1. jobs[j] \in JobRow
  BY HeldRowIsStored
<1>2. RowDiscipline(jobs[j])
  BY DEF LeaseDiscipline
<1> QED
  BY <1>1, <1>2 DEF JobRow, RowDiscipline, HeldStatus

\* A node that is registered for compute jobs stays registered for them.
LEMMA RoleStep ==
  ASSUME TypeOK, [JobNext]_jobVars, NEW n \in Node, nodes[n].role = "compute"
  PROVE  nodes'[n].role = "compute"
<1> USE DEF TypeOK
<1>1. ASSUME NEW m \in Node, NEW role \in Role, UpsertWorkerNodeHeartbeat(m, role)
      PROVE  nodes'[n].role = "compute"
  BY <1>1 DEF UpsertWorkerNodeHeartbeat, MayRegister
<1>2. ASSUME NEW m \in Node, MarkWorkerNodeOffline(m)
      PROVE  nodes'[n].role = "compute"
  <2>1. nodes[m] \in NodeRow
    BY <1>2 DEF MarkWorkerNodeOffline, NoNodeRow
  <2> QED
    BY <1>2, <2>1 DEF MarkWorkerNodeOffline, NodeRow
<1>3. CASE UNCHANGED nodes
  BY <1>3
<1> QED
  BY <1>1, <1>2, <1>3
  DEF JobNext, jobVars, InsertRunJob, ClaimNextRunJob, MarkRunJobRunning,
      RenewRunJobLease, EndRunJob, LeaseExpires

LEMMA HolderRoleStep ==
  JobInv /\ [JobNext]_jobVars => HolderHasJobRole'
<1> SUFFICES ASSUME TypeOK, LeaseDiscipline, HolderHasJobRole, [JobNext]_jobVars,
                    NEW j \in Job, jobs'[j].status \in HeldStatus
             PROVE  nodes'[jobs'[j].node].role = "compute"
  BY DEF JobInv, HolderHasJobRole
<1>1. CASE jobs[j].status \in HeldStatus /\ jobs'[j].node = jobs[j].node
  BY <1>1, HolderIsNode, RoleStep DEF HolderHasJobRole
<1>2. CASE jobs'[j].node \in Node /\ MayClaim(jobs'[j].node)
  BY <1>2, RoleStep DEF MayClaim
<1> QED
  BY <1>1, <1>2, RowStep DEF HeldStatus

LEMMA JobInvStep == JobInv /\ [JobNext]_jobVars => JobInv'
BY TypeStep, OneActiveStep, DisciplineStep, HolderRoleStep DEF JobInv

LEMMA JobInvInit == JobInit => JobInv
BY DEF JobInit, JobInv, TypeOK, OneActiveJobPerRun, Active, ActiveStatus,
       LeaseDiscipline, RowDiscipline, HolderHasJobRole, HeldStatus, NoJobRow

\* The tables are well formed, no run ever has two jobs a worker could execute,
\* a job has a lease exactly while it is held, and its holder has the role the
\* job was queued for: whatever nodes issue the statements, in any order.
THEOREM JobInvariant == JobSpec => []JobInv
BY JobInvInit, JobInvStep, PTL DEF JobSpec

\* The unique active job of a run, as a property of its own.
THEOREM OneActiveJob == JobSpec => []OneActiveJobPerRun
<1>1. JobInv => OneActiveJobPerRun
  BY DEF JobInv
<1> QED
  BY <1>1, JobInvariant, PTL

-----------------------------------------------------------------------------
(* Changes of hands *)

\* A job is only ever taken from a holder whose lease has passed, and every
\* taking is counted in attempt_count.
THEOREM ChangesOfHands == JobSpec => JobsChangeHandsSafely
<1>1. JobInv /\ [JobNext]_jobVars => [TakeoverAfterExpiry]_jobVars
  <2> SUFFICES ASSUME TypeOK, LeaseDiscipline, [JobNext]_jobVars, NEW j \in Job
               PROVE
                 /\ jobs'[j].attempts \in {jobs[j].attempts, jobs[j].attempts + 1}
                 /\ jobs'[j].node # jobs[j].node =>
                      jobs'[j].attempts = jobs[j].attempts + 1
                 /\ jobs'[j].attempts # jobs[j].attempts =>
                      jobs[j].lease \in {"none", "expired"}
    BY DEF JobInv, TakeoverAfterExpiry
  <2>1. RowDiscipline(jobs[j])
    BY DEF LeaseDiscipline
  <2>2. jobs[j].lease \in {"none", "live", "expired"}
    BY DEF TypeOK, JobRow, NoJobRow
  <2>3. CASE jobs[j].status = "queued"
    BY <2>1, <2>3, RowStep DEF RowDiscipline, HeldStatus
  <2>4. CASE jobs[j].status = "absent"
    BY <2>1, <2>4, RowStep DEF RowDiscipline, HeldStatus
  <2>5. CASE jobs[j].status \notin {"absent", "queued"}
    BY <2>5, RowStep DEF HeldStatus
  <2> QED
    BY <2>3, <2>4, <2>5
<1> QED
  BY <1>1, JobInvariant, PTL DEF JobSpec, JobsChangeHandsSafely

-----------------------------------------------------------------------------
(* Refinement *)

\* The SQL statements of the store implement runJobGraph, the canonical state
\* machine of a job: each one moves one job along an edge, or none at all.
THEOREM QueueImplementsGraph == JobSpec => ImplementsJobGraph
<1> DEFINE status == [j \in Job |-> jobs[j].status]
<1>1. JobInit => Graph!Init
  BY DEF JobInit, Graph!Init, NoJobRow
<1>2. JobInv /\ [JobNext]_jobVars => [Graph!Next]_status
  <2> SUFFICES ASSUME TypeOK, [JobNext]_jobVars, status' # status
               PROVE  Graph!Next
    BY DEF JobInv
  <2>1. PICK i \in Job : \A k \in Job : k # i => jobs'[k] = jobs[k]
    BY OneRowStep
  <2>2. status' = [status EXCEPT ![i] = jobs'[i].status]
    BY <2>1
  <2>3. jobs'[i].status # jobs[i].status
    BY <2>2
  <2>4. \/ jobs[i].status = "absent" /\ jobs'[i].status = "queued"
        \/ jobs[i].status = "queued" /\ jobs'[i].status = "claimed"
        \/ /\ jobs[i].status \in HeldStatus
           /\ jobs'[i].status \in HeldStatus \union EndStatus
    BY <2>3, RowStep DEF HeldStatus
  <2>5. CASE jobs[i].status = "absent" /\ jobs'[i].status = "queued"
    <3>1. Graph!Insert(i)
      BY <2>2, <2>5 DEF Graph!Insert, Graph!InitialState
    <3> QED
      BY <3>1 DEF Graph!Next
  <2>6. CASE \/ jobs[i].status = "queued" /\ jobs'[i].status = "claimed"
             \/ /\ jobs[i].status \in HeldStatus
                /\ jobs'[i].status \in HeldStatus \union EndStatus
    <3>1. /\ status[i] = jobs[i].status
          /\ status[i] \in Graph!States
          /\ jobs'[i].status \in Graph!Transitions[status[i]]
      BY <2>3, <2>6
      DEF HeldStatus, EndStatus, Graph!States, Graph!Transitions
    <3>2. Graph!Move(i)
      BY <2>2, <3>1 DEF Graph!Move
    <3> QED
      BY <3>2 DEF Graph!Next
  <2> QED
    BY <2>4, <2>5, <2>6
<1> QED
  BY <1>1, <1>2, JobInvariant, PTL DEF JobSpec, ImplementsJobGraph, Graph!Spec
=============================================================================
