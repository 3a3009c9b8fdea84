-------------------------- MODULE Requests_proofs --------------------------
(***************************************************************************)
(* What requests, browser tabs and steps promise however they interleave:  *)
(* the guard that keeps two executions of a project apart, the rotation of *)
(* refresh tokens, and the file transaction of a step.  What is proved     *)
(* holds for every number of requests, tabs, files, faults and edits of    *)
(* others.                                                                 *)
(***************************************************************************)
EXTENDS ProjectEdits, Sessions, FileSession, TLAPS, SequenceTheorems, FiniteSetTheorems,
        WellFoundedInduction

(***************************************************************************)
(* Requests of one project.                                                *)
(***************************************************************************)

\* What a request can be at each point, and whose run it is about.
PointsFitKinds ==
    \A r \in Requests :
        /\ request[r].at \in {"guard", "insert"} => request[r].kind \in {"edit", "queue", "fork", "commit"}
        /\ request[r].at \in {"guard", "insert", "execute", "running", "complete", "failed"} => request[r].target = r
        /\ request[r].at \in {"execute", "running", "complete", "failed"} => request[r].kind \in Inline
        /\ request[r].kind \in Inline => request[r].target = r
        /\ request[r].at = "look" => request[r].kind \in {"resume", "resume_fork"}

\* Nobody knows of a request that has not come, and a worker works on a job.
NewIsUnknown ==
    \A t \in Requests :
        /\ request[t].at = "new" =>
             run[t] = "none" /\ cause[t] = "none" /\ t \notin jobs /\ \A q \in Requests : request[q].target = t => q = t
        /\ worker[t] # "none" => t \in jobs

\* A run that a request executes is active, so a guard sees it, until a worker
\* settles its row.
ExecutedIsActive ==
    \A r \in Requests :
        request[r].at \in {"execute", "running"} /\ r \notin opened => r \in ActiveRuns

\* A request past its guard knows of no other execution but those it missed,
\* and those that were set active again.
GuardedOrMissed ==
    \A a, b \in Requests :
        a # b /\ request[a].at \in {"execute", "running"} =>
            /\ request[b].at \in {"insert", "commit"} => a \in missed[b] \/ b \in joined[a] \/ a \in opened
            /\ request[b].at \in {"execute", "running"} =>
                 a \in missed[b] \/ b \in missed[a] \/ a \in joined[b] \/ b \in joined[a] \/ {a, b} \cap opened # {}

\* What is noted of a run fits it.
CausesFit ==
    \A t \in Requests :
        /\ cause[t] = "fork" => request[t].kind = "fork"
        /\ cause[t] = "exhausted" => t \in finished
        /\ cause[t] = "thrown" => request[t].kind \in Inline

\* A run that blocks the project is served, or something was noted of it.
ServedOrLeft ==
    \A t \in ActiveRuns :
        \/ t \in Coming \/ cause[t] # "none"
        \/ \E r \in UnderWay : request[r].target = t /\ request[r].at \in {"execute", "running", "enqueue"}

\* All that a step of a request relies on.
EditsInv ==
    /\ EditsTypeOK /\ PointsFitKinds /\ NewIsUnknown /\ ExecutedIsActive /\ GuardedOrMissed
    /\ CausesFit /\ ServedOrLeft

\* No request has done anything yet.
LEMMA EditsStart == EditsInit => EditsInv
<1> SUFFICES ASSUME EditsInit PROVE EditsInv
  OBVIOUS
<1>1. EditsTypeOK
  BY ProjectEditsAssumption DEF EditsInit, EditsTypeOK, RunStatus, Kinds, Guarded, Points, Work, Causes, ProjectEditsAssumption
<1>2. QED
  BY <1>1 DEF EditsInit, EditsInv, PointsFitKinds, NewIsUnknown, ExecutedIsActive, GuardedOrMissed, CausesFit,
     ServedOrLeft, ActiveRuns, Inline

\* What the history variables keep of a step.
LEMMA ObservedIsKept ==
    ASSUME EditsTypeOK, Observe
    PROVE  /\ missed' \in [Requests -> SUBSET Requests] /\ joined' \in [Requests -> SUBSET Requests]
           /\ opened' \subseteq Requests
           /\ \A q \in Requests : request'[q].at \in Past => missed[q] \subseteq missed'[q] /\ joined[q] \subseteq joined'[q]
           /\ \A t \in opened : request'[t].at \in {"execute", "running"} => t \in opened'
<1>1. missed' \in [Requests -> SUBSET Requests] /\ joined' \in [Requests -> SUBSET Requests] /\ opened' \subseteq Requests
  BY DEF EditsTypeOK, Observe, Passed
<1>2. \A q \in Requests : request'[q].at \in Past => missed[q] \subseteq missed'[q] /\ joined[q] \subseteq joined'[q]
  BY DEF EditsTypeOK, Observe
<1>3. \A t \in opened : request'[t].at \in {"execute", "running"} => t \in opened'
  BY DEF EditsTypeOK, Observe
<1>4. QED BY <1>1, <1>2, <1>3

\* A request that comes past its guard sees the executions, one that inserts its
\* run is missed, and one that corrects its run joins those past their guard.
LEMMA OverlapsAreSeen ==
    ASSUME EditsInv, Observe, NEW r \in Requests,
           \A q \in Requests : q # r => request'[q].at = request[q].at,
           request'[r].at \in {"execute", "running"} =>
              request[r].at \in {"execute", "running"}
              \/ (request'[r].at = "execute" /\ request[r].at \in {"insert", "complete", "failed"}),
           request'[r].at \in {"insert", "commit"} => request'[r].at = request[r].at \/ ActiveRuns = {}
    PROVE  GuardedOrMissed'
<1> SUFFICES ASSUME NEW a \in Requests, NEW b \in Requests, a # b, request'[a].at \in {"execute", "running"}
             PROVE  /\ request'[b].at \in {"insert", "commit"} => a \in missed'[b] \/ b \in joined'[a] \/ a \in opened'
                    /\ request'[b].at \in {"execute", "running"} =>
                         \/ a \in missed'[b] \/ b \in missed'[a] \/ a \in joined'[b] \/ b \in joined'[a]
                         \/ {a, b} \cap opened' # {}
  BY DEF GuardedOrMissed
<1>1. /\ \A q \in Requests : request'[q].at \in Past => missed[q] \subseteq missed'[q] /\ joined[q] \subseteq joined'[q]
      /\ \A t \in opened : request'[t].at \in {"execute", "running"} => t \in opened'
  BY ObservedIsKept DEF EditsInv
<1>2. \A p, q \in Requests :
        request[q].at \in {"insert", "commit"} /\ request'[q].at \in Past
        /\ request[p].at = "insert" /\ request'[p].at = "execute" => p \in missed'[q]
  <2> SUFFICES ASSUME NEW p \in Requests, NEW q \in Requests, request[q].at \in {"insert", "commit"}, request'[q].at \in Past,
                      request[p].at = "insert", request'[p].at = "execute"
               PROVE  p \in missed'[q]
    OBVIOUS
  <2>1. missed'[q] = missed[q] \cup {x \in Requests : /\ request[q].at \in {"insert", "commit"}
                                                     /\ request[x].at = "insert" /\ request'[x].at = "execute"}
    BY DEF Observe
  <2>2. QED BY <2>1
<1>3. \A p, q \in Requests :
        p # q /\ request[q].at \in {"complete", "failed"} /\ request'[q].at = "execute"
        /\ request[p].at \in Past => p \in joined'[q]
  <2> SUFFICES ASSUME NEW p \in Requests, NEW q \in Requests, p # q, request[q].at \in {"complete", "failed"},
                      request'[q].at = "execute", request[p].at \in Past
               PROVE  p \in joined'[q]
    OBVIOUS
  <2>1. joined'[q] = joined[q] \cup {x \in Passed \ {q} : /\ request[q].at \in {"complete", "failed"}
                                                        /\ request'[q].at = "execute"}
    BY DEF Observe, Past
  <2>2. QED BY <2>1 DEF Passed
<1>4. ActiveRuns = {} => \A q \in Requests : request[q].at \in {"execute", "running"} => q \in opened
  BY DEF EditsInv, ExecutedIsActive
<1>5. CASE request[a].at \in {"execute", "running"}
  <2>1. CASE request[b].at \in {"execute", "running"}
    <3>1. request'[b].at \notin {"insert", "commit"} \/ ActiveRuns = {}
      BY <2>1
    <3>2. request'[b].at \in {"execute", "running"} =>
             \/ a \in missed'[b] \/ b \in missed'[a] \/ a \in joined'[b] \/ b \in joined'[a]
             \/ {a, b} \cap opened' # {}
      BY <1>1, <1>5, <2>1 DEF EditsInv, GuardedOrMissed, Past
    <3>3. QED BY <1>1, <1>4, <1>5, <3>1, <3>2
  <2>6. CASE request[b].at \notin {"execute", "running"} /\ request'[b].at = request[b].at
    BY <1>1, <1>5, <2>6 DEF EditsInv, GuardedOrMissed, Past
  <2>2. CASE b = r /\ request'[b].at = "execute" /\ request[b].at = "insert"
    BY <1>1, <1>5, <2>2 DEF EditsInv, GuardedOrMissed, Past
  <2>3. CASE b = r /\ request'[b].at = "execute" /\ request[b].at \in {"complete", "failed"}
    BY <1>3, <1>5, <2>3 DEF Past
  <2>4. CASE request'[b].at \in {"insert", "commit"} /\ ActiveRuns = {}
    BY <1>1, <1>4, <1>5, <2>4
  <2>5. QED BY <1>5, <2>1, <2>2, <2>3, <2>4, <2>6
<1>6. CASE a = r /\ request'[a].at = "execute" /\ request[a].at = "insert"
  BY <1>1, <1>2, <1>6 DEF EditsInv, GuardedOrMissed, Past
<1>7. CASE a = r /\ request'[a].at = "execute" /\ request[a].at \in {"complete", "failed"}
  BY <1>3, <1>7 DEF Past
<1>8. QED BY <1>5, <1>6, <1>7

\* What a request's move changes.
LEMMA GoesTo ==
    ASSUME EditsTypeOK, NEW r \in Requests, NEW point \in Points, request' = [request EXCEPT ![r].at = point]
    PROVE  /\ request' \in [Requests -> [kind : Kinds, at : Points, target : Requests]]
           /\ \A q \in Requests : q # r => request'[q] = request[q]
           /\ request'[r].at = point /\ request'[r].kind = request[r].kind /\ request'[r].target = request[r].target
<1>1. request[r] \in [kind : Kinds, at : Points, target : Requests]
  BY DEF EditsTypeOK
<1>2. request' \in [Requests -> [kind : Kinds, at : Points, target : Requests]]
  BY DEF EditsTypeOK
<1>3. \A q \in Requests : q # r => request'[q] = request[q]
  BY DEF EditsTypeOK
<1>4. request'[r].at = point /\ request'[r].kind = request[r].kind /\ request'[r].target = request[r].target
  BY <1>1 DEF EditsTypeOK
<1>5. QED BY <1>2, <1>3, <1>4

\* Steps that leave the rows alone and end what a request did, if anything.
LEMMA RequestMoves ==
    ASSUME EditsInv, Observe, NEW r \in Requests, NEW point \in {"done", "requeue"},
           GoTo(r, point), request[r].at \notin {"new", "execute", "running", "enqueue"},
           request[r].at = "look" \/ point = "done",
           UNCHANGED <<run, finished, jobs, worker, cause, serverStops>>
    PROVE  EditsInv'
<1>1. /\ request' \in [Requests -> [kind : Kinds, at : Points, target : Requests]]
      /\ \A q \in Requests : q # r => request'[q] = request[q]
      /\ request'[r].at = point /\ request'[r].kind = request[r].kind /\ request'[r].target = request[r].target
  <2>1. request' = [request EXCEPT ![r].at = point] /\ point \in Points /\ EditsTypeOK
    BY DEF GoTo, Points, EditsInv
  <2>2. QED BY <2>1, GoesTo
<1>2. EditsTypeOK'
  BY <1>1, ObservedIsKept DEF EditsInv, EditsTypeOK
<1>3. GuardedOrMissed'
  BY <1>1, OverlapsAreSeen
<1>4. PointsFitKinds'
  BY <1>1 DEF EditsInv, PointsFitKinds
<1>8. NewIsUnknown'
  BY <1>1 DEF EditsInv, NewIsUnknown
<1>5. ExecutedIsActive'
  BY <1>1, ObservedIsKept DEF EditsInv, EditsTypeOK, ExecutedIsActive, ActiveRuns
<1>6. CausesFit'
  BY <1>1 DEF EditsInv, CausesFit
<1>9. ServedOrLeft'
  BY <1>1 DEF EditsInv, ServedOrLeft, ActiveRuns, Coming, UnderWay
<1>7. QED BY <1>2, <1>3, <1>4, <1>5, <1>6, <1>8, <1>9 DEF EditsInv

\* Arrival, guard and insertion: a guard that sees an execution refuses.
LEMMA RequestComes ==
    ASSUME EditsInv, Observe, NEW r \in Requests, Arrive(r) \/ Guard(r) \/ InsertRun(r)
    PROVE  EditsInv'
<1> USE DEF EditsInv
<1>1. CASE Arrive(r)
  <2>1. PICK kind \in Kinds \ {"correct"}, t \in Requests :
            /\ IF kind \in Guarded THEN t = r ELSE t # r /\ run[t] # "none"
            /\ request' = [request EXCEPT ![r] =
                 [kind |-> kind, target |-> t, at |-> IF kind \in Guarded THEN "guard" ELSE "look"]]
    BY <1>1 DEF Arrive
  <2>2. /\ request[r].at = "new" /\ UNCHANGED <<run, finished, jobs, worker, cause, serverStops>>
        /\ request'[r].at \in {"guard", "look"} /\ request'[r].kind = kind /\ request'[r].target = t
        /\ \A q \in Requests : q # r => request'[q] = request[q]
    BY <1>1, <2>1 DEF Arrive, EditsTypeOK
  <2>3. EditsTypeOK'
    BY <2>1, <2>2, ObservedIsKept DEF EditsTypeOK, Points
  <2>4. GuardedOrMissed'
    BY <2>2, OverlapsAreSeen
  <2>5. PointsFitKinds'
    BY <2>1, <2>2 DEF PointsFitKinds, EditsTypeOK, Guarded, Kinds, Inline
  <2>6. NewIsUnknown'
    BY <2>1, <2>2 DEF NewIsUnknown
  <2>7. ExecutedIsActive'
    BY <2>2, ObservedIsKept DEF ExecutedIsActive, ActiveRuns
  <2>8. CausesFit' /\ ServedOrLeft'
    BY <2>2 DEF NewIsUnknown, CausesFit, ServedOrLeft, ActiveRuns, Coming, UnderWay
  <2>9. QED BY <2>3, <2>4, <2>5, <2>6, <2>7, <2>8
<1>2. CASE Guard(r)
  <2>1. CASE ActiveRuns # {}
    BY <1>2, <2>1, RequestMoves DEF Guard
  <2>2. CASE ActiveRuns = {}
    <3>1. PICK point \in {"insert", "commit"} :
              /\ request' \in [Requests -> [kind : Kinds, at : Points, target : Requests]]
              /\ \A q \in Requests : q # r => request'[q] = request[q]
              /\ request'[r].at = point /\ request'[r].kind = request[r].kind /\ request'[r].target = request[r].target
      <4>1. PICK point \in {"insert", "commit"} : request' = [request EXCEPT ![r].at = point]
        BY <1>2, <2>2 DEF Guard, GoTo
      <4>2. QED BY <4>1, GoesTo DEF Points
    <3>2. request[r].at = "guard" /\ UNCHANGED <<run, finished, jobs, worker, cause, serverStops>>
      BY <1>2 DEF Guard
    <3>3. EditsTypeOK'
      BY <3>1, <3>2, ObservedIsKept DEF EditsTypeOK
    <3>4. GuardedOrMissed'
      BY <2>2, <3>1, <3>2, OverlapsAreSeen
    <3>5. PointsFitKinds'
      BY <3>1, <3>2 DEF PointsFitKinds, Inline
    <3>9. NewIsUnknown'
      BY <3>1, <3>2 DEF NewIsUnknown
    <3>6. ExecutedIsActive'
      BY <3>1, <3>2, ObservedIsKept DEF ExecutedIsActive, ActiveRuns, EditsTypeOK
    <3>7. CausesFit'
      BY <3>1, <3>2 DEF CausesFit
    <3>10. ServedOrLeft'
      BY <3>1, <3>2 DEF ServedOrLeft, ActiveRuns, Coming, UnderWay
    <3>8. QED BY <3>3, <3>4, <3>5, <3>6, <3>7, <3>9, <3>10
  <2>3. QED BY <2>1, <2>2
<1>3. CASE InsertRun(r)
  <2> DEFINE point == CASE request[r].kind \in Inline -> "execute"
                        [] request[r].kind = "fork" -> "done"
                        [] OTHER -> "enqueue"
  <2>1. PICK status \in IF request[r].kind = "fork" THEN {"queued", "complete"} ELSE {"queued"} :
            run' = [run EXCEPT ![r] = status]
    BY <1>3 DEF InsertRun
  <2>2. /\ finished' \in {finished, finished \cup {r}} /\ UNCHANGED <<jobs, worker, serverStops>>
        /\ cause' = [cause EXCEPT ![r] = IF request[r].kind = "fork" THEN "fork" ELSE "none"]
        /\ request' = [request EXCEPT ![r].at = point] /\ request[r].at = "insert" /\ request[r].target = r
    BY <1>3 DEF InsertRun, GoTo, PointsFitKinds
  <2>3. /\ point \in {"execute", "done", "enqueue"}
        /\ point = "done" <=> request[r].kind = "fork"
        /\ point = "execute" => request[r].kind \in Inline
        /\ status \in {"queued", "complete"}
        /\ request[r].kind # "fork" => status = "queued"
    BY <2>1 DEF Inline
  <2> HIDE DEF point
  <2>11. /\ request' \in [Requests -> [kind : Kinds, at : Points, target : Requests]]
         /\ \A q \in Requests : q # r => request'[q] = request[q]
         /\ request'[r].at = point /\ request'[r].kind = request[r].kind /\ request'[r].target = request[r].target
    BY <2>2, <2>3, GoesTo DEF Points
  <2>12. /\ run' \in [Requests -> RunStatus] /\ run'[r] = status
         /\ \A q \in Requests : q # r => run'[q] = run[q] /\ cause'[q] = cause[q]
         /\ cause' \in [Requests -> Causes] /\ cause'[r] = IF request[r].kind = "fork" THEN "fork" ELSE "none"
    BY <2>1, <2>2, <2>3 DEF EditsTypeOK, RunStatus, Causes
  <2>13. /\ finished' \in {finished, finished \cup {r}} /\ UNCHANGED <<jobs, worker, serverStops>>
         /\ request[r].at = "insert" /\ request[r].target = r
    BY <2>2
  <2>4. EditsTypeOK'
    BY <2>11, <2>12, <2>13, ObservedIsKept DEF EditsTypeOK
  <2>5. GuardedOrMissed'
    BY <2>3, <2>11, <2>13, OverlapsAreSeen
  <2>6. PointsFitKinds' /\ NewIsUnknown'
    BY <2>3, <2>11, <2>12, <2>13 DEF PointsFitKinds, NewIsUnknown
  <2>7. ExecutedIsActive'
    BY <2>3, <2>11, <2>12, <2>13, ObservedIsKept DEF ExecutedIsActive, ActiveRuns, Inline
  <2>8. CausesFit'
    BY <2>11, <2>12, <2>13 DEF CausesFit
  <2>9. ServedOrLeft'
    BY <2>3, <2>11, <2>12, <2>13 DEF ServedOrLeft, ActiveRuns, Coming, UnderWay
  <2>10. QED BY <2>4, <2>5, <2>6, <2>7, <2>8, <2>9
<1>4. QED BY <1>1, <1>2, <1>3

\* Resumes: a requeued run has a request that will ask for a job, and the job
\* that is found is one to come or is noted.
LEMMA RequestResumes ==
    ASSUME EditsInv, Observe, NEW r \in Requests, Requeue(r) \/ ResumeFork(r) \/ Enqueue(r)
    PROVE  EditsInv'
<1> USE DEF EditsInv
<1>1. CASE Requeue(r)
  <2>1. /\ request' = [request EXCEPT ![r].at = "enqueue"] /\ request[r].at = "requeue"
        /\ run' = [run EXCEPT ![request[r].target] = "queued"]
        /\ UNCHANGED <<finished, jobs, worker, cause, serverStops>>
    BY <1>1 DEF Requeue, GoTo
  <2>2. EditsTypeOK'
    BY <2>1, ObservedIsKept DEF EditsTypeOK, Points, RunStatus
  <2>3. GuardedOrMissed'
    BY <2>1, OverlapsAreSeen DEF EditsTypeOK
  <2>4. PointsFitKinds' /\ NewIsUnknown'
    BY <2>1 DEF PointsFitKinds, NewIsUnknown, EditsTypeOK
  <2>5. ExecutedIsActive'
    BY <2>1, ObservedIsKept DEF ExecutedIsActive, ActiveRuns, EditsTypeOK
  <2>6. CausesFit' /\ ServedOrLeft'
    BY <2>1 DEF CausesFit, ServedOrLeft, ActiveRuns, Coming, UnderWay, EditsTypeOK
  <2>7. QED BY <2>2, <2>3, <2>4, <2>5, <2>6
<1>2. CASE ResumeFork(r)
  <2>1. PICK status \in {"complete", "queued"} :
            /\ run' = [run EXCEPT ![r] = status] /\ UNCHANGED <<jobs, worker, cause, serverStops>>
            /\ finished' \in {finished, finished \cup {r}} /\ request[r].at = "look" /\ request[r].kind = "resume_fork"
            /\ request'[r].at = IF status = "complete" THEN "done" ELSE "enqueue"
            /\ request'[r].target = IF status = "complete" THEN request[r].target ELSE r
            /\ request'[r].kind = request[r].kind
            /\ \A q \in Requests : q # r => request'[q] = request[q]
            /\ request' \in [Requests -> [kind : Kinds, at : Points, target : Requests]]
    <3>1. CASE request[r].target \in finished
      <4>1. /\ run' = [run EXCEPT ![r] = "complete"] /\ finished' = finished \cup {r}
            /\ request' = [request EXCEPT ![r].at = "done"] /\ request[r].at = "look" /\ request[r].kind = "resume_fork"
            /\ UNCHANGED <<jobs, worker, cause, serverStops>>
        BY <1>2, <3>1 DEF ResumeFork
      <4>2. QED BY <4>1 DEF EditsTypeOK, Points
    <3>2. CASE request[r].target \notin finished
      <4>1. /\ run' = [run EXCEPT ![r] = "queued"] /\ finished' = finished
            /\ request[r].at = "look" /\ request[r].kind = "resume_fork"
            /\ UNCHANGED <<jobs, worker, cause, serverStops>>
        BY <1>2, <3>2 DEF ResumeFork
      <4>2. request' = [request EXCEPT ![r] = [kind |-> "resume_fork", at |-> "enqueue", target |-> r]]
        BY <1>2, <3>2, <4>1 DEF ResumeFork, EditsTypeOK
      <4>3. QED BY <4>1, <4>2 DEF EditsTypeOK, Points
    <3>3. QED BY <3>1, <3>2
  <2>2. EditsTypeOK'
    BY <2>1, ObservedIsKept DEF EditsTypeOK, RunStatus
  <2>3. GuardedOrMissed'
    BY <2>1, OverlapsAreSeen
  <2>8. PointsFitKinds'
    BY <2>1 DEF PointsFitKinds, Inline
  <2>9. /\ \A q \in Requests : q # r => run'[q] = run[q]
        /\ run'[r] \in {"complete", "queued"}
    BY <2>1 DEF EditsTypeOK
  <2>4. NewIsUnknown'
    BY <2>1, <2>9 DEF NewIsUnknown
  <2>5. ExecutedIsActive'
    BY <2>1, ObservedIsKept DEF ExecutedIsActive, ActiveRuns, EditsTypeOK
  <2>6. CausesFit'
    BY <2>1 DEF CausesFit
  <2>10. run'[r] = "queued" => request'[r].at = "enqueue" /\ request'[r].target = r
    BY <2>1 DEF EditsTypeOK
  <2>11. ServedOrLeft'
    BY <2>1, <2>9, <2>10 DEF ServedOrLeft, ActiveRuns, Coming, UnderWay
  <2>7. QED BY <2>2, <2>3, <2>4, <2>5, <2>6, <2>8, <2>11
<1>3. CASE Enqueue(r)
  <2> DEFINE t == request[r].target
  <2>1. /\ request' = [request EXCEPT ![r].at = "done"] /\ request[r].at = "enqueue" /\ t \in Requests
        /\ jobs' = jobs \cup {t} /\ UNCHANGED <<run, finished, worker, serverStops>>
        /\ cause' = [cause EXCEPT ![t] = IF t \notin jobs \/ t \in Coming THEN "none" ELSE "crossed"]
    BY <1>3 DEF Enqueue, GoTo, EditsTypeOK
  <2> HIDE DEF t
  <2>2. EditsTypeOK'
    BY <2>1, ObservedIsKept DEF EditsTypeOK, Points, Causes
  <2>3. GuardedOrMissed'
    BY <2>1, OverlapsAreSeen DEF EditsTypeOK
  <2>4. PointsFitKinds'
    BY <2>1 DEF PointsFitKinds, EditsTypeOK
  <2>5. NewIsUnknown'
    BY <2>1 DEF NewIsUnknown, EditsTypeOK, t
  <2>6. ExecutedIsActive'
    BY <2>1, ObservedIsKept DEF ExecutedIsActive, ActiveRuns, EditsTypeOK
  <2>7. CausesFit'
    BY <2>1 DEF CausesFit, EditsTypeOK
  <2>8. t \in Coming' \/ cause'[t] = "crossed"
    BY <2>1 DEF Coming, EditsTypeOK, NewIsUnknown
  <2>9. ServedOrLeft'
    BY <2>1, <2>8 DEF ServedOrLeft, ActiveRuns, Coming, UnderWay, EditsTypeOK, t
  <2>10. QED BY <2>2, <2>3, <2>4, <2>5, <2>6, <2>7, <2>9
<1>4. QED BY <1>1, <1>2, <1>3

\* Executions in the live workspace: they are active while they last, and what
\* leaves the run active without them is noted.
LEMMA RequestExecutes ==
    ASSUME EditsInv, Observe, NEW r \in Requests,
           BeginExecution(r) \/ EndExecution(r) \/ CorrectRun(r) \/ PassOver(r) \/ ExecutionThrows(r)
    PROVE  EditsInv'
<1> USE DEF EditsInv
<1>1. CASE BeginExecution(r)
  <2>1. PICK point \in {"done", "running"} :
            /\ request' = [request EXCEPT ![r].at = point] /\ run' = [run EXCEPT ![r] = "running"]
            /\ (point = "done" <=> r \in finished)
            /\ cause' = [cause EXCEPT ![r] = IF r \in finished THEN "exhausted" ELSE "none"]
            /\ request[r].at = "execute" /\ UNCHANGED <<finished, jobs, worker, serverStops>>
    BY <1>1 DEF BeginExecution, GoTo
  <2>9. request' \in [Requests -> [kind : Kinds, at : Points, target : Requests]]
    BY <2>1, GoesTo DEF Points
  <2>10. run' \in [Requests -> RunStatus] /\ cause' \in [Requests -> Causes]
    BY <2>1 DEF EditsTypeOK, RunStatus, Causes
  <2>2. EditsTypeOK'
    BY <2>1, <2>9, <2>10, ObservedIsKept DEF EditsTypeOK
  <2>3. GuardedOrMissed'
    BY <2>1, OverlapsAreSeen DEF EditsTypeOK
  <2>4. PointsFitKinds' /\ NewIsUnknown'
    BY <2>1 DEF PointsFitKinds, NewIsUnknown, EditsTypeOK
  <2>5. ExecutedIsActive'
    BY <2>1, ObservedIsKept DEF ExecutedIsActive, ActiveRuns, EditsTypeOK
  <2>6. CausesFit'
    BY <2>1 DEF CausesFit, EditsTypeOK
  <2>7. ServedOrLeft'
    BY <2>1 DEF ServedOrLeft, ActiveRuns, Coming, UnderWay, EditsTypeOK, PointsFitKinds
  <2>8. QED BY <2>2, <2>3, <2>4, <2>5, <2>6, <2>7
<1>2. CASE EndExecution(r) \/ PassOver(r)
  <2>1. PICK outcome \in {"complete", "failed"} :
            /\ request' = [request EXCEPT ![r].at = outcome] /\ run' = [run EXCEPT ![r] = outcome]
            /\ finished' \in {finished, finished \cup {r}} /\ cause' = [cause EXCEPT ![r] = "none"]
            /\ request[r].at \in {"running", "failed"} /\ UNCHANGED <<jobs, worker, serverStops>>
    BY <1>2 DEF EndExecution, PassOver, GoTo, Executing
  <2>2. EditsTypeOK'
    BY <2>1, ObservedIsKept DEF EditsTypeOK, Points, RunStatus, Causes
  <2>3. GuardedOrMissed'
    BY <2>1, OverlapsAreSeen DEF EditsTypeOK
  <2>4. PointsFitKinds' /\ NewIsUnknown'
    BY <2>1 DEF PointsFitKinds, NewIsUnknown, EditsTypeOK
  <2>5. ExecutedIsActive'
    BY <2>1, ObservedIsKept DEF ExecutedIsActive, ActiveRuns, EditsTypeOK
  <2>6. CausesFit'
    BY <2>1 DEF CausesFit, EditsTypeOK
  <2>7. ServedOrLeft'
    BY <2>1 DEF ServedOrLeft, ActiveRuns, Coming, UnderWay, EditsTypeOK, PointsFitKinds
  <2>8. QED BY <2>2, <2>3, <2>4, <2>5, <2>6, <2>7
<1>3. CASE CorrectRun(r)
  <2>1. /\ request[r].at \in {"complete", "failed"} /\ UNCHANGED <<jobs, worker, serverStops>>
        /\ run' = [run EXCEPT ![r] = "running"] /\ finished' = finished \ {r} /\ cause' = [cause EXCEPT ![r] = "none"]
        /\ request' = [request EXCEPT ![r] = [kind |-> IF request[r].at = "complete" THEN "correct" ELSE "edit",
                                              at |-> "execute", target |-> r]]
    BY <1>3 DEF CorrectRun
  <2>2. /\ request'[r].at = "execute" /\ request'[r].kind \in Inline /\ request'[r].target = request[r].target
        /\ \A q \in Requests : q # r => request'[q] = request[q]
        /\ request' \in [Requests -> [kind : Kinds, at : Points, target : Requests]]
    <3> DEFINE kind == IF request[r].at = "complete" THEN "correct" ELSE "edit"
    <3>1. /\ request' = [request EXCEPT ![r] = [kind |-> kind, at |-> "execute", target |-> r]]
          /\ kind \in {"correct", "edit"}
      BY <2>1
    <3> HIDE DEF kind
    <3>3. request[r].target = r
      BY <2>1 DEF PointsFitKinds
    <3>2. QED BY <3>1, <3>3 DEF EditsTypeOK, Inline, Kinds, Guarded, Points
  <2> HIDE <2>1
  <2>3. /\ request[r].at \in {"complete", "failed"} /\ UNCHANGED <<jobs, worker, serverStops>>
        /\ run' = [run EXCEPT ![r] = "running"] /\ finished' = finished \ {r} /\ cause' = [cause EXCEPT ![r] = "none"]
    BY <2>1
  <2>4. EditsTypeOK'
    BY <2>2, <2>3, ObservedIsKept DEF EditsTypeOK, RunStatus, Causes
  <2>5. GuardedOrMissed'
    BY <2>2, <2>3, OverlapsAreSeen
  <2>11. request[r].target = r
    BY <2>3 DEF PointsFitKinds
  <2>12. /\ \A q \in Requests : q # r => run'[q] = run[q] /\ cause'[q] = cause[q]
         /\ run'[r] = "running" /\ cause'[r] = "none"
    BY <2>3 DEF EditsTypeOK
  <2>6. PointsFitKinds' /\ NewIsUnknown'
    BY <2>2, <2>3, <2>11, <2>12 DEF PointsFitKinds, NewIsUnknown
  <2>7. ExecutedIsActive'
    BY <2>2, <2>3, ObservedIsKept DEF ExecutedIsActive, ActiveRuns, EditsTypeOK
  <2>8. CausesFit'
    BY <2>2, <2>3 DEF CausesFit, EditsTypeOK
  <2>9. ServedOrLeft'
    BY <2>2, <2>3, <2>11, <2>12 DEF ServedOrLeft, ActiveRuns, Coming, UnderWay
  <2>10. QED BY <2>4, <2>5, <2>6, <2>7, <2>8, <2>9
<1>4. CASE ExecutionThrows(r)
  <2>1. /\ request' = [request EXCEPT ![r].at = "done"] /\ request[r].at \in {"execute", "running", "complete", "failed"}
        /\ cause' = IF r \in ActiveRuns \ Coming THEN [cause EXCEPT ![r] = "thrown"] ELSE cause
        /\ UNCHANGED <<run, finished, jobs, worker, serverStops>>
    BY <1>4 DEF ExecutionThrows, GoTo
  <2>2. EditsTypeOK'
    BY <2>1, ObservedIsKept DEF EditsTypeOK, Points, Causes
  <2>3. GuardedOrMissed'
    BY <2>1, OverlapsAreSeen DEF EditsTypeOK
  <2>4. PointsFitKinds' /\ NewIsUnknown'
    BY <2>1 DEF PointsFitKinds, NewIsUnknown, EditsTypeOK
  <2>5. ExecutedIsActive'
    BY <2>1, ObservedIsKept DEF ExecutedIsActive, ActiveRuns, EditsTypeOK
  <2>6. CausesFit'
    BY <2>1 DEF CausesFit, EditsTypeOK, PointsFitKinds
  <2>7. ServedOrLeft'
    BY <2>1 DEF ServedOrLeft, ActiveRuns, Coming, UnderWay, EditsTypeOK, PointsFitKinds
  <2>8. QED BY <2>2, <2>3, <2>4, <2>5, <2>6, <2>7
<1>5. QED BY <1>1, <1>2, <1>3, <1>4

\* Workers: a job that is still to come makes its run end, or the reason why it
\* did not is noted.
LEMMA WorkersServe ==
    ASSUME EditsInv, Observe, NEW t \in Requests, StepDone(t) \/ WorkerNext(t)
    PROVE  EditsInv'
<1> USE DEF EditsInv
<1>1. request' = request /\ serverStops' = serverStops
  BY DEF StepDone, WorkerNext, WorkerBegins, WorkerEnds, ReadFailing, MarkFailed, SettleJob
<1>2. GuardedOrMissed'
  BY <1>1, OverlapsAreSeen
<1>3. PointsFitKinds'
  BY <1>1 DEF PointsFitKinds
<1>4. /\ missed' \in [Requests -> SUBSET Requests] /\ joined' \in [Requests -> SUBSET Requests] /\ opened' \subseteq Requests
      /\ \A q \in opened : request[q].at \in {"execute", "running"} => q \in opened'
  BY <1>1, ObservedIsKept
<1>5. \A q \in Requests : /\ request[q].at \in {"execute", "running"} /\ worker[q] \in {"executing", "marking"}
                          /\ worker'[q] = "settling" /\ run'[q] \in {"complete", "failed"}
                          => q \in opened'
  BY <1>1 DEF Observe
<1>6. CASE StepDone(t)
  <2>1. /\ t \in Executing \/ worker[t] = "executing"
        /\ run' = [run EXCEPT ![t] = "running"]
        /\ UNCHANGED <<finished, jobs, worker, cause>>
    BY <1>6 DEF StepDone
  <2>2. EditsTypeOK'
    BY <1>1, <1>4, <2>1 DEF EditsTypeOK, RunStatus
  <2>3. NewIsUnknown' /\ ExecutedIsActive' /\ CausesFit'
    BY <1>1, <1>4, <2>1 DEF EditsTypeOK, NewIsUnknown, ExecutedIsActive, CausesFit, ActiveRuns, Executing
  <2>4. ServedOrLeft'
    BY <1>1, <2>1 DEF EditsTypeOK, ServedOrLeft, ActiveRuns, Coming, UnderWay, Executing, PointsFitKinds, NewIsUnknown
  <2>5. QED BY <1>2, <1>3, <2>2, <2>3, <2>4
<1>7. CASE WorkerBegins(t)
  <2>1. PICK work \in {"settling", "failing", "executing"} :
            /\ worker' = [worker EXCEPT ![t] = work] /\ t \in jobs /\ UNCHANGED <<finished, jobs, cause>>
            /\ work = "settling" => run[t] = "complete"
            /\ run' = IF work = "executing" THEN [run EXCEPT ![t] = "running"] ELSE run
    BY <1>7 DEF WorkerBegins, EditsTypeOK
  <2>2. EditsTypeOK'
    BY <1>1, <1>4, <2>1 DEF EditsTypeOK, RunStatus, Work
  <2>3. NewIsUnknown' /\ ExecutedIsActive' /\ CausesFit'
    BY <1>1, <1>4, <2>1 DEF EditsTypeOK, NewIsUnknown, ExecutedIsActive, CausesFit, ActiveRuns
  <2>4. ServedOrLeft'
    BY <1>1, <2>1 DEF EditsTypeOK, ServedOrLeft, ActiveRuns, Coming, UnderWay
  <2>5. QED BY <1>2, <1>3, <2>2, <2>3, <2>4
<1>8. CASE WorkerEnds(t)
  <2>1. PICK outcome \in {"complete", "failed", "thrown"} :
            LET nothing == outcome = "complete" /\ t \in finished
                ends == ~nothing /\ outcome # "thrown"
            IN
            /\ worker' = [worker EXCEPT ![t] = IF outcome = "thrown" THEN "failing" ELSE "settling"]
            /\ run' = IF ends THEN [run EXCEPT ![t] = outcome] ELSE run
            /\ finished' = IF outcome = "complete" THEN finished \cup {t} ELSE finished
            /\ cause' = IF nothing THEN [cause EXCEPT ![t] = "exhausted"] ELSE [cause EXCEPT ![t] = "none"]
    BY <1>8 DEF WorkerEnds
  <2>2. worker[t] = "executing" /\ jobs' = jobs /\ t \in jobs
    BY <1>8 DEF WorkerEnds, NewIsUnknown
  <2>3. EditsTypeOK'
    BY <1>1, <1>4, <2>1, <2>2 DEF EditsTypeOK, RunStatus, Work, Causes
  <2>4. NewIsUnknown' /\ CausesFit'
    BY <1>1, <2>1, <2>2 DEF EditsTypeOK, NewIsUnknown, CausesFit
  <2>5. ExecutedIsActive'
    BY <1>1, <1>4, <1>5, <2>1, <2>2 DEF EditsTypeOK, ExecutedIsActive, ActiveRuns
  <2>6. ServedOrLeft'
    BY <1>1, <2>1, <2>2 DEF EditsTypeOK, ServedOrLeft, ActiveRuns, Coming, UnderWay
  <2>7. QED BY <1>2, <1>3, <2>3, <2>4, <2>5, <2>6
<1>9. CASE ReadFailing(t)
  <2>1. /\ worker' = [worker EXCEPT ![t] = IF t \in ActiveRuns THEN "marking" ELSE "settling"] /\ worker[t] = "failing"
        /\ UNCHANGED <<run, finished, jobs, cause>>
    BY <1>9 DEF ReadFailing
  <2>2. EditsTypeOK'
    BY <1>1, <1>4, <2>1 DEF EditsTypeOK, Work
  <2>3. NewIsUnknown' /\ ExecutedIsActive' /\ CausesFit'
    BY <1>1, <1>4, <2>1 DEF EditsTypeOK, NewIsUnknown, ExecutedIsActive, CausesFit, ActiveRuns
  <2>4. ServedOrLeft'
    BY <1>1, <2>1 DEF EditsTypeOK, ServedOrLeft, ActiveRuns, Coming, UnderWay
  <2>5. QED BY <1>2, <1>3, <2>2, <2>3, <2>4
<1>10. CASE MarkFailed(t)
  <2>1. /\ worker' = [worker EXCEPT ![t] = "settling"] /\ worker[t] = "marking" /\ UNCHANGED <<finished, jobs>>
        /\ \/ run' = [run EXCEPT ![t] = "failed"] /\ cause' = cause
           \/ cause' = [cause EXCEPT ![t] = "unmarked"] /\ run' = run
    BY <1>10 DEF MarkFailed
  <2>2. EditsTypeOK'
    BY <1>1, <1>4, <2>1 DEF EditsTypeOK, Work, RunStatus, Causes
  <2>3. NewIsUnknown' /\ CausesFit'
    BY <1>1, <2>1 DEF EditsTypeOK, NewIsUnknown, CausesFit
  <2>4. ExecutedIsActive'
    BY <1>1, <1>4, <1>5, <2>1 DEF EditsTypeOK, ExecutedIsActive, ActiveRuns
  <2>5. ServedOrLeft'
    BY <1>1, <2>1 DEF EditsTypeOK, ServedOrLeft, ActiveRuns, Coming, UnderWay
  <2>6. QED BY <1>2, <1>3, <2>2, <2>3, <2>4, <2>5
<1>11. CASE SettleJob(t)
  <2>1. /\ worker' = [worker EXCEPT ![t] = "none"] /\ worker[t] = "settling" /\ jobs' = jobs \ {t}
        /\ UNCHANGED <<run, finished, cause>>
    BY <1>11 DEF SettleJob
  <2>2. EditsTypeOK'
    BY <1>1, <1>4, <2>1 DEF EditsTypeOK, Work
  <2>3. NewIsUnknown' /\ ExecutedIsActive' /\ CausesFit'
    BY <1>1, <1>4, <2>1 DEF EditsTypeOK, NewIsUnknown, ExecutedIsActive, CausesFit, ActiveRuns
  <2>4. ServedOrLeft'
    BY <1>1, <2>1 DEF EditsTypeOK, ServedOrLeft, ActiveRuns, Coming, UnderWay
  <2>5. QED BY <1>2, <1>3, <2>2, <2>3, <2>4
<1>12. QED BY <1>6, <1>7, <1>8, <1>9, <1>10, <1>11 DEF WorkerNext

\* A stop of the server ends every request, and is noted where it served a run.
LEMMA StopIsNoted == EditsInv /\ ServerStops /\ Observe => EditsInv'
<1> SUFFICES ASSUME EditsInv, ServerStops, Observe PROVE EditsInv'
  OBVIOUS
<1> USE DEF EditsInv
<1>1. /\ request' \in [Requests -> [kind : Kinds, at : Points, target : Requests]]
      /\ \A r \in Requests : /\ request'[r].at \in {"new", "done"}
                             /\ request'[r].at = "new" => request[r].at = "new"
                             /\ request'[r].kind = request[r].kind /\ request'[r].target = request[r].target
  <2>1. \A r \in Requests : /\ request[r] \in [kind : Kinds, at : Points, target : Requests]
                            /\ request'[r] = IF r \in UnderWay THEN [request[r] EXCEPT !.at = "done"] ELSE request[r]
    BY DEF ServerStops, EditsTypeOK
  <2>2. \A r \in Requests : /\ request'[r] \in [kind : Kinds, at : Points, target : Requests]
                            /\ request'[r].at \in {"new", "done"}
                            /\ request'[r].at = "new" => request[r].at = "new"
                            /\ request'[r].kind = request[r].kind /\ request'[r].target = request[r].target
    <3> SUFFICES ASSUME NEW r \in Requests
                 PROVE  /\ request'[r] \in [kind : Kinds, at : Points, target : Requests]
                        /\ request'[r].at \in {"new", "done"}
                        /\ request'[r].at = "new" => request[r].at = "new"
                        /\ request'[r].kind = request[r].kind /\ request'[r].target = request[r].target
      OBVIOUS
    <3>1. CASE r \in UnderWay
      <4>1. request'[r] = [request[r] EXCEPT !.at = "done"] /\ request[r] \in [kind : Kinds, at : Points, target : Requests]
        BY <2>1, <3>1
      <4>2. QED BY <4>1 DEF Points
    <3>2. CASE r \notin UnderWay
      <4>1. request'[r] = request[r] /\ request[r].at \in {"new", "done"}
            /\ request[r] \in [kind : Kinds, at : Points, target : Requests]
        BY <2>1, <3>2 DEF UnderWay
      <4>2. QED BY <4>1
    <3>3. QED BY <3>1, <3>2
  <2>3. request' = [r \in Requests |-> request'[r]]
    BY DEF ServerStops
  <2>4. QED BY <2>2, <2>3
<1>2. UNCHANGED <<run, finished, jobs, worker>>
  BY DEF ServerStops
<1>3. /\ cause' \in [Requests -> Causes]
      /\ \A t \in Requests : cause'[t] = "stopped" \/ cause'[t] = cause[t]
      /\ \A t \in ActiveRuns \ Coming : (\E q \in UnderWay : request[q].target = t) => cause'[t] = "stopped"
      /\ \A t \in Requests \ ActiveRuns : cause'[t] = cause[t]
  BY DEF ServerStops, EditsTypeOK, Causes, ActiveRuns
<1>4. serverStops' \in 0..MaxServerStops
  BY ProjectEditsAssumption DEF ServerStops, EditsTypeOK, ProjectEditsAssumption
<1>5. EditsTypeOK'
  BY <1>1, <1>2, <1>3, <1>4, ObservedIsKept DEF EditsTypeOK
<1>6. PointsFitKinds' /\ ExecutedIsActive' /\ GuardedOrMissed'
  BY <1>1 DEF PointsFitKinds, ExecutedIsActive, GuardedOrMissed
<1>7. NewIsUnknown'
  BY <1>1, <1>2, <1>3 DEF NewIsUnknown, ActiveRuns
<1>8. CausesFit'
  BY <1>1, <1>2, <1>3 DEF CausesFit
<1>9. ServedOrLeft'
  BY <1>2, <1>3 DEF ServedOrLeft, ActiveRuns, Coming
<1>10. QED BY <1>5, <1>6, <1>7, <1>8, <1>9

\* One step of a request, a worker or the server at a time.
LEMMA EditsStep == EditsInv /\ [EditsNext]_editVars => EditsInv'
<1> SUFFICES ASSUME EditsInv, [EditsNext]_editVars PROVE EditsInv'
  OBVIOUS
<1>1. CASE UNCHANGED editVars
  BY <1>1 DEF editVars, observed, EditsInv, EditsTypeOK, PointsFitKinds, NewIsUnknown, ExecutedIsActive, GuardedOrMissed,
     CausesFit, ServedOrLeft, ActiveRuns, Coming, UnderWay
<1>2. CASE ServerStops /\ Observe
  BY <1>2, StopIsNoted
<1>3. ASSUME NEW r \in Requests, RequestNext(r), Observe PROVE EditsInv'
  <2>1. CASE CommitWorkspace(r) \/ Resume(r) \/ Return(r)
    BY <1>3, <2>1, RequestMoves DEF CommitWorkspace, Resume, Return
  <2>2. QED BY <1>3, <2>1, RequestComes, RequestResumes, RequestExecutes, WorkersServe DEF RequestNext
<1>4. ASSUME NEW t \in Requests, WorkerNext(t), Observe PROVE EditsInv'
  BY <1>4, WorkersServe
<1>5. QED BY <1>1, <1>2, <1>3, <1>4 DEF EditsNext

\* The invariant of requests holds for every number of requests and server stops.
THEOREM EditsAreInductive == EditsSpec => []EditsInv
BY EditsStart, EditsStep, PTL DEF EditsSpec

\* A request shares the live workspace with an execution only if one run was
\* inserted behind the guard of the other (server.ts, assertNoActiveAgentRunMutation),
\* if a correction set an ended run active again after that guard (kernel.ts,
\* executeWithValidationAutoCorrection), or if a worker settled the row.
THEOREM RequestsOverlapInABlindSpot == EditsSpec => []OverlapNeedsABlindSpot
<1>1. EditsInv => OverlapNeedsABlindSpot
  BY DEF EditsInv, GuardedOrMissed, OverlapNeedsABlindSpot, Executing
<1>2. QED BY <1>1, EditsAreInductive, PTL

\* A run that keeps all edits of its project out has a job that will end it or a
\* request that executes it or will queue it, unless what left it is one of six
\* things: a fork, a plan without steps, an error, a stop, a requeue that took
\* the job of a worker that was done, or a mark that was not written.
THEOREM BlockingRunsAreServed == EditsSpec => []BlockingRunIsServed
<1>1. EditsInv => BlockingRunIsServed
  BY DEF EditsInv, EditsTypeOK, CausesFit, ServedOrLeft, BlockingRunIsServed, ActiveRuns, Causes
<1>2. QED BY <1>1, EditsAreInductive, PTL

(***************************************************************************)
(* Sessions and refresh tokens.                                            *)
(***************************************************************************)

\* The rows of auth_sessions, and the calls of the tabs.
Rows == [hash : Tokens, revoked : BOOLEAN]
CallType == [kind : {"api", "logout", "login"}, at : CallPoints, sent : Cookies,
             again : BOOLEAN, reply : {"ok", "denied", "cleared", "set"}, set : Cookies]

\* The types, with sessions as a sequence of their rows.
SessTypes ==
    /\ session \in Seq(Rows) /\ Len(session) <= MaxSessions
    /\ jar \in Cookies /\ jar.sid <= Len(session)
    /\ call \in [Calls -> CallType]
    /\ tokens \in Tokens /\ losses \in 0..MaxLosses
    /\ reused \subseteq Sids /\ excused \subseteq Sids

\* A call that refreshes the session s.
Refreshes(c, s) == call[c].at \in Refreshing /\ call[c].sent.sid = s
\* A refresh, or a login, whose answer with new cookies is on its way.
Rotated(c) == call[c].at = "refreshed" /\ call[c].reply = "set"
LoggedIn(c) == call[c].at = "answered" /\ call[c].reply = "set"

\* A refresh is sent with the newest token of its session.
NewestIsSent ==
    \A c \in Calls : LET s == call[c].sent.sid IN
        call[c].at \in Refreshing /\ s # 0 /\ s \notin excused =>
            /\ s <= Len(session) /\ call[c].at # "revoke_reused"
            /\ call[c].at \in {"refresh", "rotate"} => call[c].sent.token = session[s].hash
            /\ call[c].reply = "set" /\ call[c].at = "refreshed" =>
                 call[c].set.sid = s /\ call[c].set.token = session[s].hash
            /\ \A d \in Calls : Refreshes(d, s) => d = c

\* The jar holds the newest token of its session, or an answer brings it.
NewestIsKept ==
    LET s == jar.sid
    IN  s # 0 /\ s \notin excused =>
            jar.token = session[s].hash \/ \E c \in Calls : Refreshes(c, s) /\ Rotated(c)

\* The session of a login that is not received is known to nobody else.
LoginsAreNew ==
    \A c \in Calls : LoggedIn(c) =>
        LET s == call[c].set.sid
        IN  /\ s # 0 /\ s <= Len(session) /\ call[c].set.token = session[s].hash /\ jar.sid # s
            /\ \A d \in Calls : ~Refreshes(d, s)
            /\ \A d \in Calls : LoggedIn(d) /\ call[d].set.sid = s => d = c

\* Calls point at sessions that exist.
Pointers ==
    \A c \in Calls :
        /\ call[c].at \in Refreshing => call[c].sent.sid <= Len(session)
        /\ Rotated(c) => call[c].set.sid = call[c].sent.sid
        /\ call[c].at \in {"rotate", "revoke_reused"} => call[c].sent.sid # 0

\* All that a step of a call relies on.
SessInv == SessTypes /\ Pointers /\ NewestIsSent /\ NewestIsKept /\ LoginsAreNew /\ ReuseHasAReason

\* A call that asks for nothing, and the lack of cookies, are of their types.
LEMMA IdleIsACall == Idle \in CallType /\ NoCookies \in Cookies
<1>1. 0 \in Sids /\ 0 \in Tokens
  BY SessionsAssumption DEF SessionsAssumption, Sids, Tokens
<1>2. NoCookies \in Cookies
  BY <1>1 DEF NoCookies, Cookies
<1>3. QED BY <1>2 DEF Idle, CallType, CallPoints

\* Nobody is logged in.
LEMMA SessionsStart == SessInit => SessInv
<1> SUFFICES ASSUME SessInit PROVE SessInv
  OBVIOUS
<1>1. /\ session = <<>> /\ jar = NoCookies /\ tokens = 0 /\ losses = 0 /\ reused = {} /\ excused = {}
      /\ call = [c \in Calls |-> Idle]
  BY Zenon DEF SessInit
<1>2. 0 \in Tokens /\ 0 \in 0..MaxLosses /\ 0 <= MaxSessions
  BY SessionsAssumption DEF SessionsAssumption, Tokens
<1>3. jar.sid = 0 /\ jar \in Cookies
  BY <1>1, IdleIsACall DEF NoCookies
<1>4. session \in Seq(Rows) /\ Len(session) = 0
  BY <1>1, EmptySeq
<1>5. call \in [Calls -> CallType]
  BY <1>1, IdleIsACall, Zenon
<1>6. \A c \in Calls : call[c].at = "idle"
  BY <1>1 DEF Idle
<1>7. SessTypes
  BY <1>1, <1>2, <1>3, <1>4, <1>5 DEF SessTypes
<1>8. QED
  BY <1>1, <1>3, <1>6, <1>7
  DEF SessInv, Pointers, NewestIsSent, NewestIsKept, LoginsAreNew, ReuseHasAReason, Refreshing, Rotated, LoggedIn

\* Sessions whose tokens stay.
TokensStay ==
    /\ session' \in Seq(Rows) /\ Len(session') = Len(session)
    /\ \A i \in 1..Len(session) : session'[i].hash = session[i].hash

\* A call that neither refreshes nor brings a session, before and afterwards.
LEMMA QuietCallKeeps ==
    ASSUME SessInv, NEW c \in Calls, NEW r \in CallType, call' = [call EXCEPT ![c] = r],
           r.at \notin Refreshing, r.at # "answered" \/ r.reply # "set", call[c].at \notin Refreshing,
           TokensStay, UNCHANGED <<jar, tokens, reused, excused>>, losses' \in 0..MaxLosses
    PROVE  SessInv'
<1> USE DEF TokensStay
<1>1. SessTypes'
  BY DEF SessInv, SessTypes
<1>2. call'[c] = r /\ \A d \in Calls \ {c} : call'[d] = call[d]
  BY DEF SessInv, SessTypes
<1>3. jar.sid \in Nat /\ Len(session) \in Nat /\ \A d \in Calls : call[d].sent.sid \in Nat /\ call[d].set.sid \in Nat
  BY SMTT(40) DEF SessInv, SessTypes, Cookies, Sids, CallType
<1>4. ~Rotated(c) /\ ~Rotated(c)' /\ ~LoggedIn(c)' /\ {"rotate", "revoke_reused"} \subseteq Refreshing
  BY <1>2 DEF Refreshing, Rotated, LoggedIn
<1>5. Pointers' /\ ReuseHasAReason'
  BY <1>2, <1>4 DEF SessInv, Pointers, ReuseHasAReason, Rotated
<1>6. NewestIsSent'
  BY <1>2, <1>3, <1>4 DEF SessInv, NewestIsSent, Refreshes
<1>7. NewestIsKept'
  BY <1>2, <1>3, <1>4 DEF SessInv, SessTypes, NewestIsKept, Refreshes, Rotated
<1>8. LoginsAreNew'
  <2>1. ASSUME NEW d \in Calls, LoggedIn(d)'
        PROVE  /\ d # c /\ LoggedIn(d) /\ call'[d] = call[d]
    BY <1>2, <1>4, <2>1 DEF LoggedIn
  <2>2. \A d \in Calls : \A t : Refreshes(d, t)' => Refreshes(d, t)
    BY <1>2 DEF Refreshes
  <2>3. QED
    BY <1>3, <2>1, <2>2 DEF SessInv, LoginsAreNew
<1>9. QED BY <1>1, <1>5, <1>6, <1>7, <1>8 DEF SessInv

\* A call that is answered is a call.
LEMMA ReplyIsACall ==
    ASSUME SessInv, NEW c \in Calls, NEW point \in CallPoints,
           NEW reply \in {"ok", "denied", "cleared", "set"}, Reply(c, point, reply)
    PROVE  \E r \in CallType : /\ call' = [call EXCEPT ![c] = r] /\ r.at = point /\ r.reply = reply
                               /\ r.set = call[c].set
                               /\ point # "answered" => r.sent = call[c].sent
<1> DEFINE sent == IF point = "answered" THEN NoCookies ELSE call[c].sent
           r == [call[c] EXCEPT !.at = point, !.reply = reply, !.sent = sent]
<1>1. call[c] \in CallType
  BY DEF SessInv, SessTypes
<1>2. sent \in Cookies
  BY <1>1, IdleIsACall DEF CallType
<1>3. call' = [call EXCEPT ![c] = r]
  BY DEF Reply, SessInv, SessTypes
<1>4. point # "answered" => sent = call[c].sent
  OBVIOUS
<1> HIDE DEF sent
<1>5. r \in CallType /\ r.at = point /\ r.reply = reply /\ r.set = call[c].set /\ r.sent = sent
  BY <1>1, <1>2 DEF CallType
<1>6. QED BY <1>3, <1>4, <1>5

\* A call is sent with the cookies in the jar.
LEMMA SendKeeps == \A c \in Calls : SessInv /\ Send(c) => SessInv'
<1> SUFFICES ASSUME NEW c \in Calls, SessInv, Send(c) PROVE SessInv'
  OBVIOUS
<1>1. PICK kind \in KindsOf[c] :
        call' = [call EXCEPT ![c] = [Idle EXCEPT !.kind = kind, !.at = "sent",
                                  !.sent = IF kind = "login" THEN @ ELSE AccessOf(jar)]]
  BY DEF Send
<1> DEFINE sent == IF kind = "login" THEN Idle.sent ELSE AccessOf(jar)
           r == [Idle EXCEPT !.kind = kind, !.at = "sent", !.sent = sent]
<1>2. kind \in {"api", "logout", "login"}
  BY SessionsAssumption DEF SessionsAssumption
<1>3. sent \in Cookies
  BY IdleIsACall DEF SessInv, SessTypes, AccessOf, Idle, Cookies
<1>4. call' = [call EXCEPT ![c] = r]
  BY <1>1
<1> HIDE DEF sent
<1>5. r \in CallType /\ r.at = "sent"
  BY <1>2, <1>3, IdleIsACall DEF CallType, CallPoints
<1> HIDE DEF r
<1>6. QED
  BY <1>4, <1>5, QuietCallKeeps DEF Send, TokensStay, Refreshing, SessInv, SessTypes

\* The server judges a call by its cookies and revokes nothing.
LEMMA AuthenticateKeeps == \A c \in Calls : SessInv /\ Authenticate(c) => SessInv'
<1> SUFFICES ASSUME NEW c \in Calls, SessInv, Authenticate(c) PROVE SessInv'
  OBVIOUS
<1>1. PICK point \in {"answered", "revoke"}, reply \in {"ok", "denied", "cleared"} : Reply(c, point, reply)
  BY Zenon DEF Authenticate
<1>2. PICK r \in CallType : call' = [call EXCEPT ![c] = r] /\ r.at = point /\ r.reply = reply
  BY <1>1, ReplyIsACall DEF CallPoints
<1>3. call[c].at = "sent" /\ UNCHANGED <<session, jar, tokens, losses, reused, excused>>
  BY DEF Authenticate
<1>4. QED
  BY <1>1, <1>2, <1>3, QuietCallKeeps DEF TokensStay, Refreshing, SessInv, SessTypes

\* A session that is revoked keeps its token.
LEMMA RevokedKeepsRows ==
    ASSUME SessTypes, NEW s
    PROVE  /\ Revoked(s) \in Seq(Rows) /\ Len(Revoked(s)) = Len(session)
           /\ \A i \in 1..Len(session) : Revoked(s)[i].hash = session[i].hash
<1>1. CASE s \in 1..Len(session)
  <2> DEFINE r == [session[s] EXCEPT !.revoked = TRUE]
  <2>a. session[s] \in Rows
    BY <1>1 DEF SessTypes
  <2>1. r \in Rows /\ r.hash = session[s].hash
    BY <2>a DEF Rows
  <2>2. Revoked(s) = [session EXCEPT ![s] = r]
    BY DEF Revoked
  <2> HIDE DEF r
  <2>3. session \in [1..Len(session) -> Rows] /\ Len(session) \in Nat
    BY DEF SessTypes
  <2>4. Revoked(s) \in [1..Len(session) -> Rows]
    BY <1>1, <2>1, <2>2, <2>3
  <2>5. Revoked(s) \in Seq(Rows) /\ Len(Revoked(s)) = Len(session)
    BY <2>3, <2>4
  <2>6. \A i \in 1..Len(session) : Revoked(s)[i].hash = session[i].hash
    BY <1>1, <2>1, <2>2, <2>3
  <2>7. QED BY <2>5, <2>6
<1>2. CASE s \notin 1..Len(session)
  <2>1. Revoked(s) = session
    BY <1>2 DEF Revoked, SessTypes
  <2>2. QED BY <2>1 DEF SessTypes
<1>3. QED BY <1>1, <1>2

\* A logout revokes its session and keeps its token.
LEMMA LogoutKeeps == \A c \in Calls : SessInv /\ Logout(c) => SessInv'
<1> SUFFICES ASSUME NEW c \in Calls, SessInv, Logout(c) PROVE SessInv'
  OBVIOUS
<1>1. PICK r \in CallType : call' = [call EXCEPT ![c] = r] /\ r.at = "answered" /\ r.reply = "cleared"
  BY ReplyIsACall DEF Logout, CallPoints
<1>2. call[c].at = "revoke" /\ UNCHANGED <<jar, tokens, losses, reused, excused>>
  BY DEF Logout
<1>3. /\ session' \in Seq(Rows) /\ Len(session') = Len(session)
      /\ \A i \in 1..Len(session) : session'[i].hash = session[i].hash
  BY RevokedKeepsRows DEF Logout, SessInv
<1>4. QED
  BY <1>1, <1>2, <1>3, QuietCallKeeps DEF TokensStay, Refreshing, SessInv, SessTypes

\* What a call carries.
LEMMA CallsAreTyped ==
    ASSUME SessTypes
    PROVE  /\ \A c \in Calls : call[c] \in CallType /\ call[c].sent.sid \in Nat /\ call[c].set.sid \in Nat
           /\ jar.sid \in Nat /\ Len(session) \in Nat /\ MaxSessions \in Nat /\ MaxTokens \in Nat
BY SessionsAssumption DEF SessTypes, Cookies, Sids, CallType, SessionsAssumption

\* A login adds a session with a token nobody has.
LEMMA LoginKeeps == \A c \in Calls : SessInv /\ Login(c) => SessInv'
<1> SUFFICES ASSUME NEW c \in Calls, SessInv, Login(c) PROVE SessInv'
  OBVIOUS
<1> DEFINE sid == Len(session) + 1
           token == tokens + 1
           new == [hash |-> token, revoked |-> FALSE]
           set == [access |-> sid, sid |-> sid, token |-> token]
           r == [call[c] EXCEPT !.at = "answered", !.reply = "set", !.sent = NoCookies, !.set = set]
<1>1. /\ session' = Append(session, new) /\ tokens' = token /\ sid <= MaxSessions /\ token <= MaxTokens
      /\ UNCHANGED <<jar, losses, reused, excused>> /\ call[c].at = "sent"
  BY DEF Login
<1>2. call' = [call EXCEPT ![c] = r]
  BY DEF Login, SessInv, SessTypes
<1>3. token \in Tokens /\ sid \in Sids /\ sid \in Nat /\ sid # 0 /\ sid > Len(session)
  BY <1>1, CallsAreTyped DEF SessInv, SessTypes, Tokens, Sids
<1>4. new \in Rows /\ new.hash = token /\ set \in Cookies /\ set.sid = sid /\ set.token = token
  BY <1>3, Zenon DEF Rows, Cookies
<1> HIDE DEF new, set
<1>5. /\ session' \in Seq(Rows) /\ Len(session') = Len(session) + 1
      /\ session'[Len(session) + 1] = new /\ \A i \in 1..Len(session) : session'[i] = session[i]
  BY <1>1, <1>4, AppendProperties DEF SessInv, SessTypes
<1> HIDE DEF token
<1>6. r \in CallType /\ r.at = "answered" /\ r.reply = "set" /\ r.set = set
  BY <1>4, IdleIsACall, CallsAreTyped DEF SessInv, CallType, CallPoints
<1> HIDE DEF r
<1>7. call'[c] = r /\ \A d \in Calls \ {c} : call'[d] = call[d]
  BY <1>2 DEF SessInv, SessTypes
<1>a. /\ Len(session) \in Nat /\ jar.sid \in Nat /\ jar.sid <= Len(session)
      /\ \A d \in Calls : call[d] \in CallType /\ call[d].sent.sid \in Nat /\ call[d].set.sid \in Nat
  BY CallsAreTyped DEF SessInv, SessTypes
<1>b. \A i \in Nat : i # 0 /\ i <= Len(session) => i <= Len(session') /\ session'[i] = session[i]
  BY <1>5, <1>a
<1>8. SessTypes'
  <2>1. call' \in [Calls -> CallType]
    BY <1>2, <1>6 DEF SessInv, SessTypes
  <2>2. Len(session') <= MaxSessions /\ jar.sid <= Len(session')
    BY <1>1, <1>5, <1>a
  <2>3. QED BY <1>1, <1>3, <1>5, <2>1, <2>2 DEF SessInv, SessTypes
<1>9. /\ call[c].at \notin Refreshing /\ call'[c].at \notin Refreshing /\ ~LoggedIn(c)
      /\ ~Rotated(c) /\ ~Rotated(c)' /\ LoggedIn(c)' /\ {"rotate", "revoke_reused"} \subseteq Refreshing
  BY <1>1, <1>6, <1>7 DEF Refreshing, Rotated, LoggedIn
<1>10. Pointers' /\ ReuseHasAReason'
  BY <1>1, <1>5, <1>7, <1>9, CallsAreTyped DEF SessInv, Pointers, ReuseHasAReason, Rotated
<1>15. \A d \in Calls : \A t : Refreshes(d, t)' => Refreshes(d, t) /\ d # c /\ call'[d] = call[d]
  BY <1>7, <1>9 DEF Refreshes
<1>11. NewestIsSent'
  <2> SUFFICES ASSUME NEW d \in Calls, NEW s, s = call'[d].sent.sid,
                      call'[d].at \in Refreshing, s # 0, s \notin excused
               PROVE  /\ s <= Len(session') /\ call'[d].at # "revoke_reused"
                      /\ call'[d].at \in {"refresh", "rotate"} => call'[d].sent.token = session'[s].hash
                      /\ call'[d].reply = "set" /\ call'[d].at = "refreshed" =>
                           call'[d].set.sid = s /\ call'[d].set.token = session'[s].hash
                      /\ \A e \in Calls : Refreshes(e, s)' => e = d
    BY <1>1, Zenon DEF NewestIsSent
  <2>1. d # c /\ call'[d] = call[d]
    BY <1>7, <1>9
  <2>2. /\ s <= Len(session) /\ call[d].at # "revoke_reused"
        /\ call[d].at \in {"refresh", "rotate"} => call[d].sent.token = session[s].hash
        /\ call[d].reply = "set" /\ call[d].at = "refreshed" =>
             call[d].set.sid = s /\ call[d].set.token = session[s].hash
        /\ \A e \in Calls : Refreshes(e, s) => e = d
    BY <2>1 DEF SessInv, NewestIsSent
  <2>3. s \in Nat
    BY <1>a, <2>1
  <2>4. s <= Len(session') /\ session'[s] = session[s]
    BY <1>b, <2>2, <2>3
  <2>5. QED BY <1>15, <2>1, <2>2, <2>4
<1>12. NewestIsKept'
  BY <1>1, <1>5, <1>7, <1>9, CallsAreTyped, SMTT(40) DEF SessInv, SessTypes, NewestIsKept, Refreshes, Rotated
<1>13. \A d \in Calls : \A t : t = sid => ~Refreshes(d, t)'
  <2>1. \A d \in Calls : ~Refreshes(d, sid)
    <3>1. \A d \in Calls : call[d].at \in Refreshing => call[d].sent.sid <= Len(session)
      BY DEF SessInv, Pointers
    <3>2. \A d \in Calls : call[d].at \in Refreshing => call[d].sent.sid # sid
      BY <1>3, <1>a, <3>1
    <3>3. QED BY <3>2 DEF Refreshes
  <2> HIDE DEF sid
  <2>2. QED BY <1>15, <2>1
<1>14. ASSUME NEW d \in Calls, LoggedIn(d)', d # c
       PROVE  LoggedIn(d) /\ call'[d] = call[d] /\ call[d].set.sid <= Len(session)
  BY <1>7, <1>14 DEF LoggedIn, SessInv, LoginsAreNew
<1>16. LoginsAreNew'
  <2>1. call'[c].set = set
    BY <1>6, <1>7
  <2>2. jar' = jar /\ jar.sid # sid /\ Len(session') = sid /\ session'[sid].hash = call'[c].set.token
    BY <1>1, <1>3, <1>4, <1>5, <1>a, <2>1
  <2>3. ASSUME NEW d \in Calls, LoggedIn(d)', call'[d].set.sid = sid PROVE d = c
    BY <1>3, <1>14, <1>a, <2>3
  <2> SUFFICES ASSUME NEW d \in Calls, LoggedIn(d)', NEW s, s = call'[d].set.sid
               PROVE  /\ s # 0 /\ s <= Len(session') /\ call'[d].set.token = session'[s].hash /\ jar'.sid # s
                      /\ \A e \in Calls : ~Refreshes(e, s)'
                      /\ \A e \in Calls : LoggedIn(e)' /\ call'[e].set.sid = s => e = d
    BY Zenon DEF LoginsAreNew
  <2>4. CASE d = c
    <3>1. s = sid
      BY <1>4, <2>1, <2>4
    <3> HIDE DEF sid
    <3>2. s # 0 /\ s <= Len(session') /\ call'[d].set.token = session'[s].hash /\ jar'.sid # s
      BY <1>3, <2>2, <2>4, <3>1
    <3>3. QED BY <1>13, <2>3, <2>4, <3>1, <3>2
  <2>5. CASE d # c
    <3>1. LoggedIn(d) /\ call'[d] = call[d]
      BY <1>14, <2>5
    <3>2. /\ s # 0 /\ s <= Len(session) /\ call[d].set.token = session[s].hash /\ jar.sid # s /\ s \in Nat
          /\ \A e \in Calls : ~Refreshes(e, s)
          /\ \A e \in Calls : LoggedIn(e) /\ call[e].set.sid = s => e = d
      BY <1>a, <3>1 DEF SessInv, LoginsAreNew
    <3>3. s <= Len(session') /\ session'[s] = session[s]
      BY <1>b, <3>2
    <3>4. s # sid
      BY <1>3, <1>a, <3>2
    <3>5. \A e \in Calls : LoggedIn(e)' /\ call'[e].set.sid = s => e = d
      BY <1>4, <1>14, <2>1, <3>2, <3>4
    <3>6. QED BY <1>1, <1>15, <3>1, <3>2, <3>3, <3>5
  <2>6. QED BY <2>4, <2>5
<1>17. QED BY <1>8, <1>10, <1>11, <1>12, <1>16 DEF SessInv

\* An answer replaces the cookies: those of a login are the newest of their
\* session, and no refresh is under way for it.
LEMMA ReceiveKeeps == \A c \in Calls : SessInv /\ Receive(c) => SessInv'
<1> SUFFICES ASSUME NEW c \in Calls, SessInv, Receive(c) PROVE SessInv'
  OBVIOUS
<1>1. /\ call[c].at = "answered" /\ jar' = Received(c)
      /\ UNCHANGED <<session, tokens, losses, reused, excused>>
  BY DEF Receive
<1>2. PICK r \in CallType : call' = [call EXCEPT ![c] = r] /\ r.at \in {"idle", "waiting"}
  <2>1. CASE call[c].kind = "api" /\ ~call[c].again /\ call[c].reply # "ok"
    <3> DEFINE r == [call[c] EXCEPT !.at = "waiting", !.reply = "ok"]
    <3>1. r \in CallType /\ r.at = "waiting"
      BY CallsAreTyped DEF SessInv, CallType, CallPoints
    <3>2. call' = [call EXCEPT ![c] = r]
      BY <2>1 DEF Receive, SessInv, SessTypes
    <3>3. QED BY <3>1, <3>2
  <2>2. CASE ~(call[c].kind = "api" /\ ~call[c].again /\ call[c].reply # "ok")
    <3>1. Idle \in CallType /\ Idle.at = "idle" /\ call' = [call EXCEPT ![c] = Idle]
      BY <2>2, IdleIsACall DEF Receive, Idle
    <3>2. QED BY <3>1
  <2>3. QED BY <2>1, <2>2
<1>3. call'[c] = r /\ \A d \in Calls \ {c} : call'[d] = call[d]
  BY <1>2 DEF SessInv, SessTypes
<1>4. /\ call[c].at \notin Refreshing /\ call'[c].at \notin Refreshing /\ ~Rotated(c) /\ ~Rotated(c)' /\ ~LoggedIn(c)'
      /\ {"rotate", "revoke_reused"} \subseteq Refreshing
  BY <1>1, <1>2, <1>3 DEF Refreshing, Rotated, LoggedIn
<1>5. \/ jar' = jar
      \/ jar' = NoCookies
      \/ LoggedIn(c) /\ jar' = call[c].set
  BY <1>1 DEF Received, LoggedIn
<1>6. jar' \in Cookies /\ jar'.sid <= Len(session) /\ jar'.sid \in Nat
  <2>1. CASE jar' = NoCookies
    BY <2>1, IdleIsACall, CallsAreTyped DEF SessInv, NoCookies
  <2>2. CASE LoggedIn(c) /\ jar' = call[c].set
    BY <2>2, CallsAreTyped DEF SessInv, LoginsAreNew, CallType
  <2>3. QED BY <1>5, <2>1, <2>2, CallsAreTyped DEF SessInv, SessTypes
<1>7. SessTypes'
  BY <1>1, <1>2, <1>6 DEF SessInv, SessTypes
<1>8. Pointers' /\ ReuseHasAReason'
  BY <1>1, <1>3, <1>4 DEF SessInv, Pointers, ReuseHasAReason, Rotated
<1>9. NewestIsSent'
  BY <1>1, <1>3, <1>4 DEF SessInv, NewestIsSent, Refreshes
<1>10. NewestIsKept'
  <2>1. CASE jar' = jar
    BY <1>1, <1>3, <1>4, <2>1 DEF SessInv, NewestIsKept, Refreshes, Rotated
  <2>2. CASE jar' = NoCookies
    BY <2>2 DEF NewestIsKept, NoCookies
  <2>3. CASE LoggedIn(c) /\ jar' = call[c].set
    BY <1>1, <2>3 DEF SessInv, NewestIsKept, LoginsAreNew
  <2>4. QED BY <1>5, <2>1, <2>2, <2>3
<1>11. LoginsAreNew'
  <2>1. ASSUME NEW d \in Calls, LoggedIn(d)'
        PROVE  d # c /\ LoggedIn(d) /\ call'[d] = call[d]
    BY <1>3, <1>4, <2>1 DEF LoggedIn
  <2>2. \A d \in Calls : \A t : Refreshes(d, t)' => Refreshes(d, t)
    BY <1>3, <1>4 DEF Refreshes
  <2>3. \A d \in Calls : LoggedIn(d)' => jar'.sid # call[d].set.sid
    <3> SUFFICES ASSUME NEW d \in Calls, LoggedIn(d)' PROVE jar'.sid # call[d].set.sid
      OBVIOUS
    <3>1. call[d].set.sid # 0 /\ jar.sid # call[d].set.sid /\ (LoggedIn(c) => call[c].set.sid # call[d].set.sid)
      BY <2>1 DEF SessInv, LoginsAreNew
    <3>2. QED BY <1>5, <3>1 DEF NoCookies
  <2>4. QED
    BY <1>1, <2>1, <2>2, <2>3 DEF SessInv, LoginsAreNew
<1>12. QED BY <1>7, <1>8, <1>9, <1>10, <1>11 DEF SessInv

\* An answer is lost.
LEMMA LoseAnswerKeeps == \A c \in Calls : SessInv /\ LoseAnswer(c) => SessInv'
<1> SUFFICES ASSUME NEW c \in Calls, SessInv, LoseAnswer(c) PROVE SessInv'
  OBVIOUS
<1>1. /\ call[c].at = "answered" /\ call' = [call EXCEPT ![c] = Idle]
      /\ UNCHANGED <<session, jar, tokens, reused, excused>>
  BY DEF LoseAnswer
<1>2. losses' \in 0..MaxLosses
  BY SessionsAssumption DEF LoseAnswer, SessInv, SessTypes, SessionsAssumption
<1>3. Idle \in CallType /\ Idle.at = "idle"
  BY IdleIsACall DEF Idle
<1>4. QED
  BY <1>1, <1>2, <1>3, QuietCallKeeps DEF TokensStay, Refreshing, SessInv, SessTypes

\* Time passes; cookies keep their refresh token.
LEMMA AccessExpiresKeeps == SessInv /\ AccessExpires => SessInv'
<1> SUFFICES ASSUME SessInv, AccessExpires PROVE SessInv'
  OBVIOUS
<1>1. jar' = [jar EXCEPT !.access = 0] /\ UNCHANGED <<session, call, tokens, losses, reused, excused>>
  BY DEF AccessExpires
<1>2. jar' \in Cookies /\ jar'.sid = jar.sid /\ jar'.token = jar.token
  BY <1>1, IdleIsACall DEF SessInv, SessTypes, Cookies, NoCookies
<1>3. SessTypes'
  BY <1>1, <1>2 DEF SessInv, SessTypes
<1>4. QED
  BY <1>1, <1>2, <1>3
  DEF SessInv, Pointers, NewestIsSent, NewestIsKept, LoginsAreNew, ReuseHasAReason, Refreshes, Rotated, LoggedIn

\* A refresh takes the cookies of the jar, unless one is under way in its tab;
\* a second one, of another tab, excuses the session.
LEMMA StartRefreshKeeps == \A c \in Calls : SessInv /\ StartRefresh(c) => SessInv'
<1> SUFFICES ASSUME NEW c \in Calls, SessInv, StartRefresh(c) PROVE SessInv'
  OBVIOUS
<1> DEFINE r == [call[c] EXCEPT !.at = "refresh", !.sent = RefreshOf(jar)]
           s == jar.sid
<1>1. /\ call[c].at = "waiting" /\ MayRefresh(c) /\ call' = [call EXCEPT ![c] = r]
      /\ UNCHANGED <<session, jar, tokens, losses, reused>>
  BY DEF StartRefresh, SessInv, SessTypes
<1>2. RefreshOf(jar) \in Cookies /\ RefreshOf(jar).sid = s /\ RefreshOf(jar).token = jar.token
  BY IdleIsACall DEF RefreshOf, SessInv, SessTypes, Cookies, NoCookies
<1>3. r \in CallType /\ r.at = "refresh" /\ r.sent.sid = s /\ r.sent.token = jar.token
  BY <1>2, CallsAreTyped DEF SessInv, CallType, CallPoints, Refreshing
<1> HIDE DEF r
<1>4. call'[c] = r /\ \A d \in Calls \ {c} : call'[d] = call[d]
  BY <1>1 DEF SessInv, SessTypes
<1>5. /\ excused \subseteq excused' /\ excused' \subseteq excused \cup {s}
      /\ \A d \in Calls : Refreshes(d, s) => s \in excused'
  BY <1>1 DEF StartRefresh, MayRefresh, Refreshes
<1>6. s \in Sids /\ s <= Len(session)
  BY DEF SessInv, SessTypes, Cookies
<1>7. SessTypes'
  BY <1>1, <1>3, <1>5, <1>6 DEF SessInv, SessTypes
<1>8. /\ call[c].at \notin Refreshing /\ call'[c].at = "refresh" /\ call'[c].sent.sid = s
      /\ call'[c].sent.token = jar.token /\ ~Rotated(c) /\ ~Rotated(c)' /\ ~LoggedIn(c)'
  BY <1>1, <1>3, <1>4 DEF Refreshing, Rotated, LoggedIn
<1>9. Pointers' /\ ReuseHasAReason'
  BY <1>1, <1>4, <1>5, <1>6, <1>8 DEF SessInv, Pointers, ReuseHasAReason, Rotated
<1>10. ASSUME NEW d \in Calls, NEW t, Refreshes(d, t)', d # c
       PROVE  Refreshes(d, t) /\ call'[d] = call[d]
  BY <1>4, <1>10 DEF Refreshes
<1>11. NewestIsSent'
  <2> SUFFICES ASSUME NEW d \in Calls, NEW t, t = call'[d].sent.sid,
                      call'[d].at \in Refreshing, t # 0, t \notin excused'
               PROVE  /\ t <= Len(session') /\ call'[d].at # "revoke_reused"
                      /\ call'[d].at \in {"refresh", "rotate"} => call'[d].sent.token = session'[t].hash
                      /\ call'[d].reply = "set" /\ call'[d].at = "refreshed" =>
                           call'[d].set.sid = t /\ call'[d].set.token = session'[t].hash
                      /\ \A e \in Calls : Refreshes(e, t)' => e = d
    BY Zenon DEF NewestIsSent
  <2>1. CASE d = c
    <3>1. t = s /\ \A e \in Calls : ~Refreshes(e, s)
      BY <1>5, <1>8, <2>1
    <3>2. jar.token = session[s].hash
      BY <1>5, <3>1 DEF SessInv, NewestIsKept
    <3>3. QED BY <1>1, <1>6, <1>8, <1>10, <2>1, <3>1, <3>2
  <2>2. CASE d # c
    <3>1. call'[d] = call[d] /\ t \notin excused
      BY <1>4, <1>5, <2>2
    <3>2. Refreshes(d, t) /\ t # s
      <4>1. Refreshes(d, t)
        BY <3>1 DEF Refreshes
      <4>2. QED BY <1>5, <4>1
    <3>3. /\ t <= Len(session) /\ call[d].at # "revoke_reused"
          /\ call[d].at \in {"refresh", "rotate"} => call[d].sent.token = session[t].hash
          /\ call[d].reply = "set" /\ call[d].at = "refreshed" =>
               call[d].set.sid = t /\ call[d].set.token = session[t].hash
          /\ \A e \in Calls : Refreshes(e, t) => e = d
      BY <3>1 DEF SessInv, NewestIsSent
    <3>4. ~Refreshes(c, t)'
      BY <1>8, <3>2 DEF Refreshes
    <3>5. QED BY <1>1, <1>10, <3>1, <3>3, <3>4
  <2>3. QED BY <2>1, <2>2
<1>12. NewestIsKept'
  <2>1. \A d \in Calls : Rotated(d) => d # c /\ call'[d] = call[d]
    BY <1>4, <1>8
  <2>2. \A d \in Calls : Refreshes(d, s) /\ Rotated(d) => (Refreshes(d, s) /\ Rotated(d))'
    BY <1>1, <2>1 DEF Refreshes, Rotated
  <2>3. QED
    BY <1>1, <1>5, <2>2 DEF SessInv, NewestIsKept
<1>13. LoginsAreNew'
  <2>1. ASSUME NEW d \in Calls, LoggedIn(d)'
        PROVE  d # c /\ LoggedIn(d) /\ call'[d] = call[d]
    BY <1>4, <1>8, <2>1 DEF LoggedIn
  <2>2. \A d \in Calls : \A t : t # s /\ Refreshes(d, t)' => Refreshes(d, t)
    BY <1>4, <1>8 DEF Refreshes
  <2>3. QED
    BY <1>1, <2>1, <2>2 DEF SessInv, LoginsAreNew
<1>14. QED BY <1>7, <1>9, <1>11, <1>12, <1>13 DEF SessInv

\* A refresh that goes on without a new token.
LEMMA RefreshGoesOn ==
    ASSUME SessInv, NEW c \in Calls, NEW r \in CallType, call' = [call EXCEPT ![c] = r],
           call[c].at \in {"refresh", "revoke_reused"}, r.at \in {"rotate", "revoke_reused", "refreshed"},
           r.sent = call[c].sent,
           r.at # "refreshed" => r.sent.sid # 0,
           r.at = "revoke_reused" => r.sent.sid \in excused,
           r.at = "rotate" => call[c].at = "refresh",
           r.at = "refreshed" => r.reply # "set",
           TokensStay, UNCHANGED <<jar, tokens, losses, excused>>, reused' \subseteq excused
    PROVE  SessInv'
<1> USE DEF TokensStay
<1>1. SessTypes'
  BY DEF SessInv, SessTypes
<1>2. call'[c] = r /\ \A d \in Calls \ {c} : call'[d] = call[d]
  BY DEF SessInv, SessTypes
<1>3. jar.sid \in Nat /\ Len(session) \in Nat /\ \A d \in Calls : call[d].sent.sid \in Nat /\ call[d].set.sid \in Nat
  BY CallsAreTyped DEF SessInv
<1>4. /\ call[c].at \in Refreshing /\ call'[c].at \in Refreshing /\ call'[c].sent = call[c].sent
      /\ ~Rotated(c) /\ ~Rotated(c)' /\ ~LoggedIn(c)'
  BY <1>2 DEF Refreshing, Rotated, LoggedIn
<1>5. Pointers' /\ ReuseHasAReason'
  BY <1>2, <1>4 DEF SessInv, Pointers, ReuseHasAReason, Rotated
<1>6. \A d \in Calls : \A t : Refreshes(d, t)' <=> Refreshes(d, t)
  BY <1>2, <1>4 DEF Refreshes
<1>7. NewestIsSent'
  <2> SUFFICES ASSUME NEW d \in Calls, NEW t, t = call'[d].sent.sid,
                      call'[d].at \in Refreshing, t # 0, t \notin excused
               PROVE  /\ t <= Len(session') /\ call'[d].at # "revoke_reused"
                      /\ call'[d].at \in {"refresh", "rotate"} => call'[d].sent.token = session'[t].hash
                      /\ call'[d].reply = "set" /\ call'[d].at = "refreshed" =>
                           call'[d].set.sid = t /\ call'[d].set.token = session'[t].hash
                      /\ \A e \in Calls : Refreshes(e, t)' => e = d
    BY ZenonT(40) DEF NewestIsSent
  <2>1. call[d].at \in Refreshing /\ call[d].sent = call'[d].sent /\ t \in Nat
    BY <1>2, <1>3, <1>4
  <2>2. /\ t <= Len(session) /\ call[d].at # "revoke_reused"
        /\ call[d].at \in {"refresh", "rotate"} => call[d].sent.token = session[t].hash
        /\ call[d].reply = "set" /\ call[d].at = "refreshed" =>
             call[d].set.sid = t /\ call[d].set.token = session[t].hash
        /\ \A e \in Calls : Refreshes(e, t) => e = d
    BY <2>1 DEF SessInv, NewestIsSent
  <2>3. t <= Len(session') /\ session'[t].hash = session[t].hash
    BY <1>3, <2>1, <2>2
  <2>4. CASE d = c
    BY <1>2, <1>6, <2>1, <2>2, <2>3, <2>4
  <2>5. CASE d # c
    BY <1>2, <1>6, <2>2, <2>3, <2>5
  <2>6. QED BY <2>4, <2>5
<1>8. NewestIsKept'
  <2>1. \A d \in Calls : Rotated(d) => Rotated(d)'
    BY <1>2, <1>4 DEF Rotated
  <2>2. QED
    BY <1>3, <1>6, <2>1 DEF SessInv, SessTypes, NewestIsKept
<1>9. LoginsAreNew'
  <2>1. ASSUME NEW d \in Calls, LoggedIn(d)'
        PROVE  d # c /\ LoggedIn(d) /\ call'[d] = call[d]
    BY <1>2, <1>4, <2>1 DEF LoggedIn
  <2>2. QED
    BY <1>3, <1>6, <2>1 DEF SessInv, LoginsAreNew
<1>10. QED BY <1>1, <1>5, <1>7, <1>8, <1>9 DEF SessInv

\* The refresh reads its session: an old token means reuse.
LEMMA ReadSessionKeeps == \A c \in Calls : SessInv /\ ReadSession(c) => SessInv'
<1> SUFFICES ASSUME NEW c \in Calls, SessInv, ReadSession(c) PROVE SessInv'
  OBVIOUS
<1>1. /\ call[c].at = "refresh" /\ UNCHANGED <<session, jar, tokens, losses, reused, excused>>
  BY DEF ReadSession
<1>2. \E point \in {"rotate", "revoke_reused", "refreshed"}, reply \in {"denied", "cleared", "set"} :
         /\ Reply(c, point, reply)
         /\ point # "refreshed" => call[c].sent.sid # 0
         /\ point = "revoke_reused" => session[call[c].sent.sid].hash # call[c].sent.token
         /\ point = "refreshed" => reply # "set"
  BY Zenon DEF ReadSession
<1>3. PICK point \in {"rotate", "revoke_reused", "refreshed"}, reply \in {"denied", "cleared", "set"} :
         /\ Reply(c, point, reply)
         /\ point # "refreshed" => call[c].sent.sid # 0
         /\ point = "revoke_reused" => session[call[c].sent.sid].hash # call[c].sent.token
         /\ point = "refreshed" => reply # "set"
  BY <1>2, Zenon
<1>4. PICK r \in CallType : /\ call' = [call EXCEPT ![c] = r] /\ r.at = point /\ r.reply = reply
                            /\ r.sent = call[c].sent
  BY <1>3, ReplyIsACall DEF CallPoints, Refreshing
<1>5. point = "revoke_reused" => call[c].sent.sid \in excused
  BY <1>1, <1>3 DEF SessInv, NewestIsSent, Refreshing
<1>6. TokensStay /\ reused' \subseteq excused
  BY <1>1 DEF TokensStay, SessInv, SessTypes, ReuseHasAReason
<1>7. QED
  BY <1>1, <1>3, <1>4, <1>5, <1>6, RefreshGoesOn

\* A reused token revokes the session.
LEMMA RevokeReusedKeeps == \A c \in Calls : SessInv /\ RevokeReused(c) => SessInv'
<1> SUFFICES ASSUME NEW c \in Calls, SessInv, RevokeReused(c) PROVE SessInv'
  OBVIOUS
<1>1. /\ call[c].at = "revoke_reused" /\ Reply(c, "refreshed", "cleared")
      /\ session' = Revoked(call[c].sent.sid) /\ reused' = reused \cup {call[c].sent.sid}
      /\ UNCHANGED <<jar, tokens, losses, excused>>
  BY DEF RevokeReused
<1>2. PICK r \in CallType : /\ call' = [call EXCEPT ![c] = r] /\ r.at = "refreshed" /\ r.reply = "cleared"
                            /\ r.sent = call[c].sent
  BY <1>1, ReplyIsACall DEF CallPoints, Refreshing
<1>3. call[c].sent.sid \in excused
  BY <1>1 DEF SessInv, Pointers, NewestIsSent, Refreshing
<1>4. TokensStay
  BY <1>1, RevokedKeepsRows DEF TokensStay, SessInv
<1>5. reused' \subseteq excused
  BY <1>1, <1>3 DEF SessInv, ReuseHasAReason
<1>6. QED
  BY <1>1, <1>2, <1>3, <1>4, <1>5, RefreshGoesOn

\* A rotation gives the session a new token, which its answer carries.
LEMMA RotateSessionKeeps == \A c \in Calls : SessInv /\ RotateSession(c) => SessInv'
<1> SUFFICES ASSUME NEW c \in Calls, SessInv, RotateSession(c) PROVE SessInv'
  OBVIOUS
<1> DEFINE token == tokens + 1
<1>0. PICK s : s = call[c].sent.sid
  OBVIOUS
<1> DEFINE new == [hash |-> token, revoked |-> FALSE]
           set == [access |-> s, sid |-> s, token |-> token]
           r == [call[c] EXCEPT !.at = "refreshed", !.reply = "set", !.set = set]
<1>1. /\ call[c].at = "rotate" /\ token <= MaxTokens
      /\ session' = [session EXCEPT ![s] = new] /\ tokens' = token
      /\ UNCHANGED <<jar, losses, reused, excused>>
  BY <1>0 DEF RotateSession
<1>2. call' = [call EXCEPT ![c] = r]
  BY <1>0 DEF RotateSession, SessInv, SessTypes
<1>3. token \in Tokens /\ s \in Sids /\ s \in Nat /\ s # 0 /\ s <= Len(session)
  BY <1>0, <1>1, CallsAreTyped, SMTT(40) DEF SessInv, SessTypes, CallType, Cookies, Tokens, Sids, Pointers, Refreshing
<1>4. new \in Rows /\ new.hash = token /\ set \in Cookies /\ set.sid = s /\ set.token = token
  BY <1>3, Zenon DEF Rows, Cookies
<1> HIDE DEF new, set
<1>5. /\ session' \in Seq(Rows) /\ Len(session') = Len(session) /\ session'[s] = new
      /\ \A i : i # s => session'[i] = session[i]
  <2>1. session \in [1..Len(session) -> Rows] /\ Len(session) \in Nat
    BY DEF SessInv, SessTypes
  <2>2. s \in 1..Len(session)
    BY <1>3, <2>1
  <2>3. session' \in [1..Len(session) -> Rows] /\ session'[s] = new /\ \A i \in 1..Len(session) \ {s} : session'[i] = session[i]
    BY <1>1, <1>4, <2>1, <2>2
  <2>4. \A i : i # s => session'[i] = session[i]
    BY <1>1
  <2>5. session' \in Seq(Rows) /\ Len(session') = Len(session)
    BY <2>1, <2>3
  <2>6. QED BY <2>3, <2>4, <2>5
<1> HIDE DEF token
<1>6. r \in CallType /\ r.at = "refreshed" /\ r.reply = "set" /\ r.set = set /\ r.sent = call[c].sent
  BY <1>4, CallsAreTyped DEF SessInv, CallType, CallPoints, Refreshing
<1> HIDE DEF r
<1>7. call'[c] = r /\ \A d \in Calls \ {c} : call'[d] = call[d]
  BY <1>2 DEF SessInv, SessTypes
<1>8. SessTypes'
  BY <1>1, <1>2, <1>3, <1>5, <1>6 DEF SessInv, SessTypes
<1>9. /\ Refreshes(c, s) /\ Refreshes(c, s)' /\ call'[c].sent = call[c].sent /\ call'[c].set = set
      /\ ~Rotated(c) /\ Rotated(c)' /\ ~LoggedIn(c)'
  BY <1>0, <1>1, <1>6, <1>7 DEF Refreshes, Refreshing, Rotated, LoggedIn
<1>10. \A d \in Calls : \A t : Refreshes(d, t)' <=> Refreshes(d, t)
  BY <1>0, <1>7, <1>9 DEF Refreshes
<1>11. Pointers' /\ ReuseHasAReason'
  <2>1. ReuseHasAReason'
    BY <1>1 DEF SessInv, ReuseHasAReason
  <2> SUFFICES ASSUME NEW d \in Calls
               PROVE  /\ call'[d].at \in Refreshing => call'[d].sent.sid <= Len(session')
                      /\ Rotated(d)' => call'[d].set.sid = call'[d].sent.sid
                      /\ call'[d].at \in {"rotate", "revoke_reused"} => call'[d].sent.sid # 0
    BY <2>1 DEF Pointers
  <2>2. CASE d = c
    BY <1>0, <1>3, <1>4, <1>5, <1>9, <2>2
  <2>3. CASE d # c
    BY <1>5, <1>7, <2>3 DEF SessInv, Pointers, Rotated
  <2>4. QED BY <2>2, <2>3
<1>12. NewestIsSent'
  <2> SUFFICES ASSUME NEW d \in Calls, NEW t, t = call'[d].sent.sid,
                      call'[d].at \in Refreshing, t # 0, t \notin excused
               PROVE  /\ t <= Len(session') /\ call'[d].at # "revoke_reused"
                      /\ call'[d].at \in {"refresh", "rotate"} => call'[d].sent.token = session'[t].hash
                      /\ call'[d].reply = "set" /\ call'[d].at = "refreshed" =>
                           call'[d].set.sid = t /\ call'[d].set.token = session'[t].hash
                      /\ \A e \in Calls : Refreshes(e, t)' => e = d
    BY <1>1, Zenon DEF NewestIsSent
  <2>1. Refreshes(d, t) /\ call[d].sent.sid = t /\ call[d].at \in Refreshing
    <3>1. Refreshes(d, t)'
      BY DEF Refreshes
    <3>2. QED BY <1>10, <3>1 DEF Refreshes
  <2>2. /\ t <= Len(session) /\ call[d].at # "revoke_reused"
        /\ call[d].at \in {"refresh", "rotate"} => call[d].sent.token = session[t].hash
        /\ call[d].reply = "set" /\ call[d].at = "refreshed" =>
             call[d].set.sid = t /\ call[d].set.token = session[t].hash
        /\ \A e \in Calls : Refreshes(e, t) => e = d
    BY <2>1 DEF SessInv, NewestIsSent
  <2>3. CASE d = c
    BY <1>0, <1>4, <1>5, <1>6, <1>7, <1>10, <2>1, <2>2, <2>3
  <2>4. CASE d # c
    <3>1. t # s
      BY <1>9, <2>2, <2>4
    <3>2. QED BY <1>5, <1>7, <1>10, <2>2, <2>4, <3>1
  <2>5. QED BY <2>3, <2>4
<1>13. NewestIsKept'
  <2>1. \A d \in Calls : Rotated(d) => Rotated(d)'
    BY <1>7, <1>9 DEF Rotated
  <2>2. CASE jar.sid = s
    BY <1>1, <1>9, <2>2 DEF NewestIsKept
  <2>3. CASE jar.sid # s
    BY <1>1, <1>5, <1>10, <2>1, <2>3 DEF SessInv, NewestIsKept
  <2>4. QED BY <2>2, <2>3
<1>14. LoginsAreNew'
  <2>1. ASSUME NEW d \in Calls, LoggedIn(d)'
        PROVE  d # c /\ LoggedIn(d) /\ call'[d] = call[d]
    BY <1>7, <1>9, <2>1 DEF LoggedIn
  <2>2. \A d \in Calls : LoggedIn(d)' => call[d].set.sid # s
    BY <1>9, <2>1 DEF SessInv, LoginsAreNew
  <2>3. QED
    BY <1>1, <1>5, <1>10, <2>1, <2>2 DEF SessInv, LoginsAreNew
<1>15. QED BY <1>8, <1>11, <1>12, <1>13, <1>14 DEF SessInv

\* The end of a refresh: the cookies are those it brought, or the ones there
\* were, and then a rotation that brought none is excused.
LEMMA RefreshEnds ==
    ASSUME SessInv, NEW c \in Calls, call[c].at = "refreshed",
           NEW ok \in BOOLEAN, NEW cookies \in Cookies, call' = AfterRefresh(c, ok, cookies),
           \/ jar' = jar /\ (Rotated(c) => call[c].sent.sid \in excused')
           \/ jar' = NoCookies
           \/ Rotated(c) /\ jar' = call[c].set,
           excused \subseteq excused', excused' \subseteq Sids,
           UNCHANGED <<session, tokens, reused>>, losses' \in 0..MaxLosses
    PROVE  SessInv'
<1>1. \A d \in Calls : /\ call'[d] \in CallType
                       /\ \/ call'[d].at \in {"sent", "idle"} /\ (d = c \/ call[d].at = "waiting")
                          \/ d # c /\ call'[d] = call[d]
  <2> SUFFICES ASSUME NEW d \in Calls
               PROVE  /\ call'[d] \in CallType
                      /\ \/ call'[d].at \in {"sent", "idle"} /\ (d = c \/ call[d].at = "waiting")
                         \/ d # c /\ call'[d] = call[d]
    OBVIOUS
  <2> DEFINE again == [call[d] EXCEPT !.at = "sent", !.sent = AccessOf(cookies), !.again = TRUE,
                         !.reply = "ok", !.set = NoCookies]
  <2>1. AccessOf(cookies) \in Cookies
    BY IdleIsACall DEF AccessOf, Cookies
  <2>2. again \in CallType /\ again.at = "sent"
    BY <2>1, IdleIsACall, CallsAreTyped DEF SessInv, CallType, CallPoints
  <2>3. Idle \in CallType /\ Idle.at = "idle" /\ call[d] \in CallType
    BY IdleIsACall, CallsAreTyped DEF SessInv, Idle
  <2>4. call'[d] = IF d = c \/ (TabOf[d] = TabOf[c] /\ call[d].at = "waiting")
                   THEN IF ok THEN again ELSE Idle ELSE call[d]
    BY DEF AfterRefresh
  <2> HIDE DEF again
  <2>5. QED BY <2>2, <2>3, <2>4
<1>2. call' \in [Calls -> CallType]
  BY <1>1 DEF AfterRefresh
<1>3. \A d \in Calls : \/ call'[d].at \notin Refreshing /\ ~LoggedIn(d)' /\ ~Rotated(d)' /\ (d = c \/ ~Rotated(d))
                       \/ d # c /\ call'[d] = call[d]
  <2> SUFFICES ASSUME NEW d \in Calls, ~(d # c /\ call'[d] = call[d])
               PROVE  call'[d].at \notin Refreshing /\ ~LoggedIn(d)' /\ ~Rotated(d)' /\ (d = c \/ ~Rotated(d))
    OBVIOUS
  <2>1. call'[d].at \in {"sent", "idle"} /\ (d = c \/ call[d].at = "waiting")
    BY <1>1
  <2>2. QED BY <2>1 DEF Refreshing, LoggedIn, Rotated
<1>4. \A d \in Calls : \A t : Refreshes(d, t)' => Refreshes(d, t) /\ d # c /\ call'[d] = call[d]
  BY <1>3 DEF Refreshes
<1>5. Rotated(c) => Refreshes(c, call[c].sent.sid) /\ call[c].set.sid = call[c].sent.sid
                    /\ call[c].sent.sid <= Len(session)
  BY DEF SessInv, Pointers, Rotated, Refreshes, Refreshing
<1>6. SessTypes'
  <2>1. jar' \in Cookies /\ jar'.sid <= Len(session)
    <3>1. CASE jar' = jar
      BY <3>1 DEF SessInv, SessTypes
    <3>2. CASE jar' = NoCookies
      BY <3>2, IdleIsACall, CallsAreTyped DEF SessInv, NoCookies
    <3>3. CASE Rotated(c) /\ jar' = call[c].set
      BY <1>5, <3>3, CallsAreTyped DEF SessInv, CallType
    <3>4. QED BY <3>1, <3>2, <3>3
  <2>2. QED BY <1>2, <2>1 DEF SessInv, SessTypes
<1>7. Pointers' /\ ReuseHasAReason'
  <2>1. \A d \in Calls : call'[d].at \in {"rotate", "revoke_reused"} => call'[d].at \in Refreshing
    BY DEF Refreshing
  <2>2. \A d \in Calls : Rotated(d)' => d # c /\ call'[d] = call[d] /\ Rotated(d)
    BY <1>3 DEF Rotated
  <2>3. QED BY <1>3, <2>1, <2>2 DEF SessInv, Pointers, ReuseHasAReason
<1>8. NewestIsSent'
  BY <1>3, <1>4 DEF SessInv, NewestIsSent
<1>9. NewestIsKept'
  <2>1. CASE jar' = NoCookies
    BY <2>1 DEF NewestIsKept, NoCookies
  <2>2. CASE Rotated(c) /\ jar' = call[c].set
    BY <1>5, <2>2 DEF SessInv, NewestIsSent, NewestIsKept, Rotated, Refreshing
  <2>3. CASE jar' = jar /\ (Rotated(c) => call[c].sent.sid \in excused')
    <3> SUFFICES ASSUME jar.sid # 0, jar.sid \notin excused'
                 PROVE  jar.token = session[jar.sid].hash
                        \/ \E d \in Calls : Refreshes(d, jar.sid)' /\ Rotated(d)'
      BY <2>3 DEF NewestIsKept
    <3>1. \A d \in Calls : Refreshes(d, jar.sid) /\ Rotated(d) => d # c /\ call'[d] = call[d]
      BY <1>3, <2>3 DEF Refreshes
    <3>2. \A d \in Calls : Refreshes(d, jar.sid) /\ Rotated(d) => Refreshes(d, jar.sid)' /\ Rotated(d)'
      BY <2>3, <3>1 DEF Refreshes, Rotated
    <3>3. QED BY <3>2 DEF SessInv, NewestIsKept
  <2>4. QED BY <2>1, <2>2, <2>3
<1>10. LoginsAreNew'
  <2>1. ASSUME NEW d \in Calls, LoggedIn(d)'
        PROVE  d # c /\ LoggedIn(d) /\ call'[d] = call[d]
    BY <1>3, <2>1 DEF LoggedIn
  <2>2. \A d \in Calls : LoggedIn(d)' => jar'.sid # call[d].set.sid
    <3> SUFFICES ASSUME NEW d \in Calls, LoggedIn(d)' PROVE jar'.sid # call[d].set.sid
      OBVIOUS
    <3>1. call[d].set.sid # 0 /\ jar.sid # call[d].set.sid /\ ~Refreshes(c, call[d].set.sid)
      BY <2>1 DEF SessInv, LoginsAreNew
    <3>2. Rotated(c) => call[c].set.sid # call[d].set.sid
      BY <1>5, <3>1
    <3>3. QED BY <3>1, <3>2 DEF NoCookies
  <2>3. QED
    BY <1>4, <2>1, <2>2 DEF SessInv, LoginsAreNew
<1>11. QED BY <1>6, <1>7, <1>8, <1>9, <1>10 DEF SessInv

\* The answer of a refresh arrives.
LEMMA ReceiveRefreshKeeps == \A c \in Calls : SessInv /\ ReceiveRefresh(c) => SessInv'
<1> SUFFICES ASSUME NEW c \in Calls, SessInv, ReceiveRefresh(c) PROVE SessInv'
  OBVIOUS
<1>1. /\ call[c].at = "refreshed" /\ jar' = Received(c)
      /\ call' = AfterRefresh(c, call[c].reply = "set", Received(c))
      /\ UNCHANGED <<session, tokens, losses, reused, excused>>
  BY DEF ReceiveRefresh
<1>2. \/ jar' = jar /\ ~Rotated(c)
      \/ jar' = NoCookies
      \/ Rotated(c) /\ jar' = call[c].set
  BY <1>1 DEF Received, Rotated
<1>3. Received(c) \in Cookies
  BY <1>1, <1>2, IdleIsACall, CallsAreTyped DEF SessInv, SessTypes, CallType
<1>4. (call[c].reply = "set") \in BOOLEAN
  OBVIOUS
<1>5. losses' \in 0..MaxLosses /\ excused' \subseteq Sids
  BY <1>1 DEF SessInv, SessTypes
<1>6. QED
  BY <1>1, <1>2, <1>3, <1>4, <1>5, RefreshEnds

\* The answer of a refresh is lost, which excuses the session it rotated.
LEMMA LoseRefreshKeeps == \A c \in Calls : SessInv /\ LoseRefresh(c) => SessInv'
<1> SUFFICES ASSUME NEW c \in Calls, SessInv, LoseRefresh(c) PROVE SessInv'
  OBVIOUS
<1>1. /\ call[c].at = "refreshed" /\ call' = AfterRefresh(c, FALSE, NoCookies)
      /\ excused' = IF call[c].reply = "set" THEN excused \cup {call[c].sent.sid} ELSE excused
      /\ UNCHANGED <<session, jar, tokens, reused>>
  BY DEF LoseRefresh
<1>2. losses' \in 0..MaxLosses
  BY SessionsAssumption DEF LoseRefresh, SessInv, SessTypes, SessionsAssumption
<1>3. excused \subseteq excused' /\ excused' \subseteq Sids /\ (Rotated(c) => call[c].sent.sid \in excused')
  BY <1>1, CallsAreTyped DEF SessInv, SessTypes, CallType, Cookies, Rotated
<1>4. QED
  BY <1>1, <1>2, <1>3, IdleIsACall, RefreshEnds

\* The invariant of sessions holds for all calls, tabs and losses.
THEOREM SessionsAreInductive == SessSpec => []SessInv
<1>1. ASSUME SessInv, [SessNext]_sessVars PROVE SessInv'
  <2>1. CASE UNCHANGED sessVars
    BY <1>1, <2>1
    DEF sessVars, SessInv, SessTypes, Pointers, NewestIsSent, NewestIsKept, LoginsAreNew, ReuseHasAReason,
        Refreshes, Rotated, LoggedIn
  <2>2. CASE SessNext
    BY <1>1, <2>2, SendKeeps, AuthenticateKeeps, LogoutKeeps, LoginKeeps, ReceiveKeeps, LoseAnswerKeeps,
       AccessExpiresKeeps, StartRefreshKeeps, ReadSessionKeeps, RevokeReusedKeeps, RotateSessionKeeps,
       ReceiveRefreshKeeps, LoseRefreshKeeps DEF SessNext
  <2>3. QED BY <1>1, <2>1, <2>2
<1>2. QED BY <1>1, SessionsStart, PTL DEF SessSpec

\* The type invariant of sessions (auth.ts, server.ts).
THEOREM SessionTypesHold == SessSpec => []SessTypeOK
<1>1. ASSUME SessInv PROVE SessTypeOK
  <2>1. \A s \in DOMAIN session : session[s] \in Rows
    BY <1>1 DEF SessInv, SessTypes
  <2>2. QED BY <1>1, <2>1, Zenon DEF SessInv, SessTypes, SessTypeOK, Rows, CallType
<1>2. QED BY <1>1, SessionsAreInductive, PTL

\* A session is revoked for the reuse of a refresh token only if an answer that
\* carried a newer one was lost, or two tabs refreshed at once (server.ts,
\* /api/auth/refresh, and app.js).
THEOREM ReuseAlwaysHasAReason == SessSpec => []ReuseHasAReason
<1>1. SessInv => ReuseHasAReason
  BY DEF SessInv
<1>2. QED BY <1>1, SessionsAreInductive, PTL

(***************************************************************************)
(* The file transaction.                                                   *)
(***************************************************************************)

\* The types, with what is staged as a function of its files.
StagedFiles == UNION {[D -> Staged] : D \in SUBSET Files}
StepType == [at : At, changes : Seq(Change), staged : StagedFiles, todo : SUBSET Files,
             applied : BOOLEAN, correction : BOOLEAN,
             outcome : {"none", "committed", "silent", "rejected", "leaked", "stuck"}]

\* Where the handler is between steps, has written nothing or not all of its
\* files, and has written them all.
Between == {"idle", "tool"}
Applying == {"check", "write", "undo"}
Written == {"validate", "status", "add", "commit"}

\* The types the proof needs.
FileTypes ==
    /\ {disk, index, head, before} \subseteq [Paths -> OnDisk]
    /\ step \in StepType /\ late \subseteq Files /\ foreign \subseteq Files
    /\ steps \in Nat /\ faults \in 0..MaxFaults /\ edits \in 0..MaxEdits

\* A step that has begun and is not over.
Open == step.at \notin Between \cup {"ended"} \/ step.outcome = "stuck"

\* Where the handler stands says what is left to do and what has been done.
StepFits ==
    LET D == DOMAIN step.staged
    IN  /\ step.todo \subseteq D
        /\ step.at \in Applying \cup {"uncommit"} => step.todo # {}
        /\ step.at \in Between \cup Written \cup {"stage", "ended"} => step.todo = {}
        /\ step.at \in Between => D = {}
        /\ step.at \in Written \cup {"check", "write", "undo", "uncommit"} => D # {}
        /\ step.at \in Between \cup Applying \cup {"stage"} => ~step.applied
        /\ step.at \in Written \cup {"uncommit"} => step.applied
        /\ step.at = "abort" /\ ~step.applied => step.todo = {}
        /\ step.at \notin {"abort", "ended"} => step.outcome = "none"
        /\ step.at = "abort" => step.outcome \in {"none", "leaked"}
        /\ step.at = "ended" => step.outcome # "none"
        /\ step.outcome = "leaked" => D \subseteq foreign /\ ~step.applied
        /\ step.outcome = "stuck" => step.applied
        /\ Open => late \subseteq foreign

\* A file of the step: what was staged for it, and how far its writing,
\* committing or restoring has come.
StagedFileFits(p) ==
    LET old == step.staged[p].prev
        new == step.staged[p].new
    IN  /\ step.at \in Applying \cup Written \cup {"stage", "uncommit"} \/ (Open /\ step.applied) =>
             old = before[p]
        /\ step.at = "write" => disk[p] = IF p \in step.todo THEN old ELSE new
        /\ step.at = "undo" => IF p \in step.todo THEN disk[p] \in {old, new, Torn} ELSE disk[p] = old
        /\ step.at \in Written => disk[p] = new
        /\ step.at \in {"uncommit", "abort"} /\ step.applied =>
             IF p \in step.todo THEN disk[p] \in {old, new} ELSE disk[p] = old
        /\ step.outcome = "stuck" => disk[p] \in {old, new}

\* A file and what HEAD, the index and the step have of it.
FileFits(p) ==
    /\ p \in Ignored => head[p] = Absent /\ index[p] = Absent
    /\ p \notin foreign \cup Ignored => head[p] = IF Open THEN before[p] ELSE disk[p]
    /\ step.at \in {"stage", "check"} => disk[p] = before[p]
    /\ step.at = "abort" /\ ~step.applied /\ step.outcome # "leaked" /\ p \notin late => disk[p] = before[p]
    /\ step.at \notin Between /\ p \notin late \cup DOMAIN step.staged => disk[p] = before[p]
    /\ p \in DOMAIN step.staged \ late => StagedFileFits(p)
    /\ step.at = "commit" /\ p \notin foreign =>
         index[p] = IF p \in Ignored THEN Absent
                    ELSE IF p \in DOMAIN step.staged THEN step.staged[p].new ELSE head[p]

\* All that a step of the transaction relies on.
FileInv == FileTypes /\ StepFits /\ (\A p \in Files : FileFits(p)) /\ StepIsAtomic

\* The first one is a member, if there is one.
LEMMA FirstIsChosen == ASSUME NEW S, \E p \in S : \A q \in S : p <= q PROVE First(S) \in S
BY SMT DEF First

\* A set of numbers that is not empty has a first one.
LEMMA FirstIsThere ==
    ASSUME NEW S \in SUBSET Nat, S # {}
    PROVE  First(S) \in S
<1> DEFINE Below == {ss \in Nat \X Nat : ss[1] < ss[2]}
<1>1. IsWellFoundedOn(Below, Nat)
  BY NatLessThanWellFounded, Zenon DEF OpToRel
<1>2. \A x, y \in Nat : x < y => <<x, y>> \in Below
  OBVIOUS
<1> HIDE DEF Below
<1>3. PICK x \in S : \A y \in S : <<y, x>> \notin Below
  BY <1>1, WFMin
<1>4. \E p \in S : \A q \in S : p <= q
  <2>1. ASSUME NEW y \in S PROVE x <= y
    <3>1. x \in Nat /\ y \in Nat /\ ~(y < x)
      BY <1>2, <1>3
    <3>2. QED BY <3>1
  <2>2. QED BY <2>1
<1>5. QED BY <1>4, FirstIsChosen

\* Files are numbers, so any set of them that is not empty has a first one.
LEMMA FilesAreNumbers ==
    /\ Files \subseteq Nat /\ Ignored \subseteq Files /\ Files \subseteq Paths /\ IgnoreFile \in Paths \ Files
    /\ \A S \in SUBSET Files : S # {} => First(S) \in S
BY FileSessionAssumption, FirstIsThere DEF FileSessionAssumption, Files

\* What a step may hold as staged.
LEMMA StagedIsAFunction ==
    ASSUME FileTypes
    PROVE  /\ DOMAIN step.staged \subseteq Files /\ step.staged \in [DOMAIN step.staged -> Staged]
           /\ \A p \in DOMAIN step.staged :
                 step.staged[p].prev \in OnDisk /\ step.staged[p].new \in OnDisk
<1>1. PICK D \in SUBSET Files : step.staged \in [D -> Staged]
  BY DEF FileTypes, StepType, StagedFiles
<1>2. QED BY <1>1 DEF Staged, OnDisk

\* The lack of a step is of the type of steps and holds nothing.
LEMMA NoStepIsAStep ==
    /\ NoStep \in StepType /\ NoStep.at = "idle" /\ NoStep.todo = {} /\ DOMAIN NoStep.staged = {}
    /\ ~NoStep.applied /\ NoStep.outcome = "none"
<1>1. <<>> \in Seq(Change) /\ <<>> \in [{} -> Staged] /\ DOMAIN <<>> = {}
  <2>1. <<>> \in [1..0 -> Staged] /\ 1..0 = {} /\ DOMAIN <<>> = 1..0
    OBVIOUS
  <2>2. QED BY <2>1
<1>2. <<>> \in StagedFiles
  BY <1>1 DEF StagedFiles
<1>3. NoStep.staged = <<>> /\ NoStep.at = "idle" /\ NoStep.todo = {} /\ ~NoStep.applied /\ NoStep.outcome = "none"
  BY DEF NoStep
<1>4. NoStep \in StepType
  BY <1>1, <1>2 DEF NoStep, StepType, At
<1>5. QED BY <1>1, <1>3, <1>4

\* The first state: HEAD has what is on disk, and no step has begun.
LEMMA FilesStart == FileInit => FileInv
<1> SUFFICES ASSUME FileInit PROVE FileInv
  OBVIOUS
<1>1. PICK c \in Contents : disk = [p \in Paths |-> IF p = 1 THEN c ELSE IF p = IgnoreFile THEN Generated ELSE Absent]
  BY DEF FileInit
<1>2. disk \in [Paths -> OnDisk]
  BY <1>1 DEF OnDisk
<1>3. /\ index = [p \in Paths |-> IF p \in Ignored THEN Absent ELSE disk[p]] /\ head = index
      /\ step = NoStep /\ before = disk /\ late = {} /\ foreign = {}
      /\ steps = 0 /\ faults = 0 /\ edits = 0
  BY Zenon DEF FileInit
<1>4. index \in [Paths -> OnDisk]
  BY <1>2, <1>3 DEF OnDisk
<1>5. FileTypes
  BY <1>2, <1>3, <1>4, NoStepIsAStep, FileSessionAssumption DEF FileTypes, FileSessionAssumption
<1>6. StepFits
  BY <1>3, NoStepIsAStep DEF StepFits, Between, Applying, Written, Open
<1>7. \A p \in Files : FileFits(p)
  BY <1>3, NoStepIsAStep, FilesAreNumbers DEF FileFits, Between, Applying, Written, Open
<1>8. StepIsAtomic
  BY <1>3, NoStepIsAStep DEF StepIsAtomic
<1>9. QED BY <1>5, <1>6, <1>7, <1>8 DEF FileInv

\* Tools propose changes of files only.
LEMMA ProposalsAreChanges ==
    ASSUME FileTypes, NEW p \in Files, NEW n \in 1..2, NEW actions \in [1..n -> Contents \cup {Absent}]
    PROVE  ProposeActions(p, actions) \in Seq(Change)
<1> DEFINE target == actions[Len(actions)]
<1>1. target \in Contents \cup {Absent}
  OBVIOUS
<1>2. disk[p] \in OnDisk
  BY FilesAreNumbers DEF FileTypes
<1> HIDE DEF target
<1>3. \A change \in Change : <<change>> \in Seq(Change)
  OBVIOUS
<1>4. <<>> \in Seq(Change)
  OBVIOUS
<1>5. /\ [path |-> p, type |-> "delete", new |-> Absent, old |-> disk[p]] \in Change
      /\ target # Absent => /\ [path |-> p, type |-> "create", new |-> target, old |-> NoHash] \in Change
                            /\ [path |-> p, type |-> "update", new |-> target, old |-> disk[p]] \in Change
  BY <1>1, <1>2 DEF Change, NoHash, OnDisk
<1>6. target # Absent => ProposeWrite(p, target) \in Seq(Change)
  BY <1>3, <1>4, <1>5, Zenon DEF ProposeWrite
<1>7. ProposeActions(p, actions) =
        IF target # Absent THEN ProposeWrite(p, target)
        ELSE IF disk[p] = Absent THEN <<>>
        ELSE <<[path |-> p, type |-> "delete", new |-> Absent, old |-> disk[p]]>>
  BY Zenon DEF ProposeActions, target
<1>8. QED BY <1>3, <1>4, <1>5, <1>6, <1>7, Zenon

\* A tool proposes changes and touches nothing.
LEMMA RunToolKeeps == FileInv /\ RunTool => FileInv'
<1> SUFFICES ASSUME FileInv, RunTool PROVE FileInv'
  OBVIOUS
<1>1. PICK changes \in Seq(Change) : step' = [step EXCEPT !.at = "tool", !.changes = step.changes \o changes]
  BY ProposalsAreChanges DEF RunTool, FileInv
<1>2. step.changes \o changes \in Seq(Change)
  BY ConcatProperties DEF FileInv, FileTypes, StepType
<1>3. /\ step' \in StepType /\ step'.at = "tool" /\ step.at \in Between
      /\ step'.staged = step.staged /\ step'.todo = step.todo /\ step'.applied = step.applied
      /\ step'.outcome = step.outcome /\ UNCHANGED <<disk, index, head, before, late, foreign, steps, faults, edits>>
  BY <1>1, <1>2 DEF RunTool, FileInv, FileTypes, StepType, At, Between
<1>4. FileTypes' /\ StepFits' /\ StepIsAtomic'
  BY <1>3 DEF FileInv, FileTypes, StepFits, StepIsAtomic, Open, Between, Applying, Written
<1>5. \A p \in Files : FileFits(p)'
  BY <1>3 DEF FileInv, StepFits, FileFits, StagedFileFits, Open, Between, Applying, Written
<1>6. QED BY <1>4, <1>5 DEF FileInv

\* A step begins with the files as they are.
LEMMA BeginStepKeeps == FileInv /\ BeginStep => FileInv'
<1> SUFFICES ASSUME FileInv, BeginStep PROVE FileInv'
  OBVIOUS
<1>1. PICK correction \in BOOLEAN :
        step' = [step EXCEPT !.at = "stage", !.correction = correction, !.outcome = "none"]
  BY DEF BeginStep
<1>2. /\ step' \in StepType /\ step'.at = "stage" /\ step.at = "tool" /\ step'.outcome = "none"
      /\ step'.staged = step.staged /\ step'.todo = step.todo /\ step'.applied = step.applied
      /\ before' = disk /\ late' = {} /\ UNCHANGED <<disk, index, head, foreign, steps, faults, edits>>
  BY <1>1 DEF BeginStep, FileInv, FileTypes, StepType, At
<1>3. FileTypes' /\ StepFits' /\ StepIsAtomic'
  BY <1>2 DEF FileInv, FileTypes, StepFits, StepIsAtomic, Open, Between, Applying, Written
<1>4. \A p \in Files : FileFits(p)'
  BY <1>2 DEF FileInv, StepFits, FileFits, StagedFileFits, Open, Between, Applying, Written
<1>5. QED BY <1>3, <1>4 DEF FileInv

\* A step that is given up between its begin and its end, or is over.
LEMMA StepIsDropped ==
    ASSUME FileInv, step' = NoStep, steps' \in Nat, ~Open,
           UNCHANGED <<disk, index, head, before, late, foreign, faults, edits>>
    PROVE  FileInv'
<1>1. FileTypes' /\ StepFits' /\ StepIsAtomic'
  BY NoStepIsAStep DEF FileInv, FileTypes, StepFits, StepIsAtomic, Open, Between, Applying, Written
<1>2. \A p \in Files : FileFits(p)'
  BY NoStepIsAStep DEF FileInv, StepFits, FileFits, StagedFileFits, Open, Between, Applying, Written
<1>3. QED BY <1>1, <1>2 DEF FileInv

\* A change is staged against what the first change of its file found; one that
\* does not fit aborts the step.
LEMMA StageChangeKeeps == FileInv /\ StageChange => FileInv'
<1> SUFFICES ASSUME FileInv, StageChange PROVE FileInv'
  OBVIOUS
<1> DEFINE change == Head(step.changes)
           entry == [type |-> change.type, new |-> change.new, prev |-> Existing(change.path)]
           D == DOMAIN step.staged
           staged == [p \in D \cup {change.path} |-> IF p = change.path THEN entry ELSE step.staged[p]]
<1>1. /\ step.at = "stage" /\ step.changes # <<>>
      /\ step' = IF Stageable(change) THEN [step EXCEPT !.changes = Tail(step.changes), !.staged = staged]
                 ELSE [step EXCEPT !.changes = <<>>, !.at = "abort"]
      /\ UNCHANGED <<disk, index, head, before, late, foreign, steps, faults, edits>>
  BY DEF StageChange
<1>2. change \in Change /\ Tail(step.changes) \in Seq(Change) /\ <<>> \in Seq(Change)
  BY <1>1, HeadTailProperties, EmptySeq DEF FileInv, FileTypes, StepType
<1> HIDE DEF change
<1>3. change.path \in Files /\ change.new \in Contents \cup {Absent} /\ change.type \in {"create", "update", "delete"}
  BY <1>2 DEF Change
<1>4. /\ D \subseteq Files /\ step.staged \in [D -> Staged]
      /\ \A p \in D : step.staged[p].prev \in OnDisk
  BY StagedIsAFunction DEF FileInv
<1>5. Existing(change.path) \in OnDisk
  BY <1>3, <1>4, FilesAreNumbers DEF Existing, FileInv, FileTypes
<1>6. entry \in Staged /\ entry.prev = Existing(change.path)
  BY <1>3, <1>5 DEF Staged
<1> HIDE DEF entry
<1>7. staged \in [D \cup {change.path} -> Staged] /\ D \cup {change.path} \in SUBSET Files
  BY <1>3, <1>4, <1>6
<1>8. staged \in StagedFiles /\ DOMAIN staged = D \cup {change.path}
      /\ \A p \in D \cup {change.path} : staged[p] = IF p = change.path THEN entry ELSE step.staged[p]
  BY <1>7 DEF StagedFiles
<1> HIDE DEF staged, D
<1>9. CASE Stageable(change)
  <2>1. step' = [step EXCEPT !.changes = Tail(step.changes), !.staged = staged]
    BY <1>1, <1>9
  <2>2. /\ step' \in StepType /\ step'.at = "stage" /\ step'.staged = staged /\ step'.todo = step.todo
        /\ step'.applied = step.applied /\ step'.outcome = step.outcome
    BY <1>1, <1>2, <1>8, <2>1 DEF FileInv, FileTypes, StepType
  <2>3. FileTypes' /\ StepFits' /\ StepIsAtomic'
    BY <1>1, <1>8, <2>2 DEF D, FileInv, FileTypes, StepFits, StepIsAtomic, Open, Between, Applying, Written
  <2>4. ASSUME NEW p \in Files PROVE FileFits(p)'
    <3>1. disk[p] = before[p] /\ FileFits(p)
      BY <1>1 DEF FileInv, FileFits
    <3>2. p \in DOMAIN staged \ late => staged[p].prev = before[p]
      BY <1>1, <1>6, <1>8, <3>1 DEF FileFits, StagedFileFits, Existing, D
    <3>3. QED
      BY <1>1, <1>8, <2>2, <3>1, <3>2 DEF FileFits, StagedFileFits, Open, Between, Applying, Written, FileInv, StepFits, D
  <2>5. QED BY <2>3, <2>4 DEF FileInv
<1>10. CASE ~Stageable(change)
  <2>1. step' = [step EXCEPT !.changes = <<>>, !.at = "abort"]
    BY <1>1, <1>10
  <2>2. /\ step' \in StepType /\ step'.at = "abort" /\ step'.staged = step.staged /\ step'.todo = step.todo
        /\ step'.applied = step.applied /\ step'.outcome = step.outcome
    BY <1>2, <2>1 DEF FileInv, FileTypes, StepType, At
  <2>3. FileTypes' /\ StepFits' /\ StepIsAtomic'
    BY <1>1, <2>2 DEF FileInv, FileTypes, StepFits, StepIsAtomic, Open, Between, Applying, Written
  <2>4. \A p \in Files : FileFits(p)'
    BY <1>1, <2>2 DEF FileInv, StepFits, FileFits, StagedFileFits, Open, Between, Applying, Written
  <2>5. QED BY <2>3, <2>4 DEF FileInv
<1>11. QED BY <1>9, <1>10

\* The staged changes are judged before the disk is looked at.
LEMMA ValidateStepKeeps == FileInv /\ ValidateStep => FileInv'
<1> SUFFICES ASSUME FileInv, ValidateStep PROVE FileInv'
  OBVIOUS
<1> DEFINE D == DOMAIN step.staged
<1>1. /\ step.at = "stage" /\ step' = IF Valid THEN [step EXCEPT !.at = "check", !.todo = D]
                                     ELSE [step EXCEPT !.at = "abort"]
      /\ UNCHANGED <<disk, index, head, before, late, foreign, steps, faults, edits>>
  BY DEF ValidateStep
<1>2. D \in SUBSET Files
  BY StagedIsAFunction DEF FileInv
<1>3. Valid => D # {}
  BY FS_EmptySet DEF Valid
<1>4. /\ step' \in StepType /\ step'.staged = step.staged /\ step'.applied = step.applied
      /\ step'.outcome = step.outcome
      /\ \/ step'.at = "check" /\ step'.todo = D /\ D # {}
         \/ step'.at = "abort" /\ step'.todo = step.todo
  BY <1>1, <1>2, <1>3 DEF FileInv, FileTypes, StepType, At
<1>5. FileTypes' /\ StepFits' /\ StepIsAtomic'
  BY <1>1, <1>4 DEF FileInv, FileTypes, StepFits, StepIsAtomic, Open, Between, Applying, Written
<1>6. \A p \in Files : FileFits(p)'
  BY <1>1, <1>4 DEF FileInv, StepFits, FileFits, StagedFileFits, Open, Between, Applying, Written
<1>7. QED BY <1>5, <1>6 DEF FileInv

\* A step without changes is no transaction.
LEMMA SkipStepKeeps == FileInv /\ SkipStep => FileInv'
BY StepIsDropped DEF SkipStep, FileInv, FileTypes, StepFits, Open, Between

\* A step that is over and not stuck makes room for the next one.
LEMMA EndStepKeeps == FileInv /\ EndStep => FileInv'
BY StepIsDropped DEF EndStep, FileInv, FileTypes, StepFits, Open, Between

\* A file that changed since it was staged aborts the step before any write.
LEMMA CheckFileKeeps == FileInv /\ CheckFile => FileInv'
<1> SUFFICES ASSUME FileInv, CheckFile PROVE FileInv'
  OBVIOUS
<1> DEFINE D == DOMAIN step.staged
           p == First(step.todo)
           rest == step.todo \ {p}
<1>1. /\ step.at = "check"
      /\ step' = IF disk[p] # step.staged[p].prev THEN [step EXCEPT !.at = "abort", !.todo = {}]
                 ELSE IF rest # {} THEN [step EXCEPT !.todo = rest]
                 ELSE [step EXCEPT !.at = "write", !.todo = D]
      /\ late' = late \ {p}
      /\ UNCHANGED <<disk, index, head, before, foreign, steps, faults, edits>>
  BY DEF CheckFile
<1>2. /\ D \in SUBSET Files /\ step.todo \subseteq D /\ step.todo # {} /\ p \in step.todo
  BY <1>1, StagedIsAFunction, FilesAreNumbers DEF FileInv, StepFits, Applying
<1> HIDE DEF p, D
<1>3. disk[p] = before[p]
  BY <1>1, <1>2 DEF FileInv, FileFits
<1>4. /\ step' \in StepType /\ step'.staged = step.staged /\ step'.applied = step.applied
      /\ step'.outcome = step.outcome
      /\ \/ step'.at = "abort" /\ step'.todo = {}
         \/ /\ step'.at = "check" /\ step'.todo = rest /\ rest # {} /\ disk[p] = step.staged[p].prev
         \/ /\ step'.at = "write" /\ step'.todo = D /\ rest = {} /\ disk[p] = step.staged[p].prev
  <2>1. rest \in SUBSET Files /\ {} \in SUBSET Files
    BY <1>2
  <2> HIDE DEF rest
  <2>2. CASE disk[p] # step.staged[p].prev
    <3>1. step' = [step EXCEPT !.at = "abort", !.todo = {}]
      BY <1>1, <2>2
    <3>2. QED BY <2>1, <3>1 DEF FileInv, FileTypes, StepType, At
  <2>3. CASE disk[p] = step.staged[p].prev /\ rest # {}
    <3>1. step' = [step EXCEPT !.todo = rest]
      BY <1>1, <2>3
    <3>2. QED BY <1>1, <2>1, <2>3, <3>1 DEF FileInv, FileTypes, StepType
  <2>4. CASE disk[p] = step.staged[p].prev /\ rest = {}
    <3>1. step' = [step EXCEPT !.at = "write", !.todo = D]
      BY <1>1, <2>4
    <3>2. QED BY <1>2, <2>4, <3>1 DEF FileInv, FileTypes, StepType, At
  <2>5. QED BY <2>2, <2>3, <2>4
<1>5. FileTypes' /\ StepFits' /\ StepIsAtomic'
  BY <1>1, <1>2, <1>4 DEF FileInv, FileTypes, StepFits, StepIsAtomic, Open, Between, Applying, Written, D
<1>6. ASSUME NEW q \in Files PROVE FileFits(q)'
  <2>1. FileFits(q)
    BY DEF FileInv
  <2>2. CASE q = p
    BY <1>1, <1>2, <1>3, <1>4, <2>1, <2>2 DEF FileInv, StepFits, FileFits, StagedFileFits, Open, Between, Applying, Written, D
  <2>3. CASE q # p
    BY <1>1, <1>2, <1>4, <2>1, <2>3 DEF FileInv, StepFits, FileFits, StagedFileFits, Open, Between, Applying, Written, D
  <2>4. QED BY <2>2, <2>3
<1>7. QED BY <1>5, <1>6 DEF FileInv

\* One more file has what was staged for it.
LEMMA WriteFileKeeps == FileInv /\ WriteFile => FileInv'
<1> SUFFICES ASSUME FileInv, WriteFile PROVE FileInv'
  OBVIOUS
<1> DEFINE D == DOMAIN step.staged
           p == First(step.todo)
           rest == step.todo \ {p}
<1>1. /\ step.at = "write" /\ disk' = [disk EXCEPT ![p] = step.staged[p].new]
      /\ step' = IF rest # {} THEN [step EXCEPT !.todo = rest]
                 ELSE [step EXCEPT !.todo = {}, !.at = "validate", !.applied = TRUE]
      /\ UNCHANGED <<index, head, before, late, foreign, steps, faults, edits>>
  BY DEF WriteFile
<1>2. /\ D \in SUBSET Files /\ step.todo \subseteq D /\ step.todo # {} /\ p \in step.todo
  BY <1>1, StagedIsAFunction, FilesAreNumbers DEF FileInv, StepFits, Applying
<1> HIDE DEF p
<1>3. /\ step' \in StepType /\ step'.staged = step.staged /\ step'.outcome = step.outcome
      /\ \/ step'.at = "write" /\ step'.todo = rest /\ rest # {} /\ step'.applied = step.applied
         \/ step'.at = "validate" /\ step'.todo = {} /\ rest = {} /\ step'.applied
  BY <1>1, <1>2 DEF FileInv, FileTypes, StepType, At
<1>4. step.staged[p].new \in OnDisk /\ p \in Paths
  BY <1>2, StagedIsAFunction, FilesAreNumbers DEF FileInv
<1>5. disk' \in [Paths -> OnDisk] /\ \A q \in Paths : disk'[q] = IF q = p THEN step.staged[p].new ELSE disk[q]
  BY <1>1, <1>4 DEF FileInv, FileTypes
<1>6. FileTypes' /\ StepFits' /\ StepIsAtomic'
  BY <1>1, <1>2, <1>3, <1>5 DEF FileInv, FileTypes, StepFits, StepIsAtomic, Open, Between, Applying, Written
<1>7. ASSUME NEW q \in Files PROVE FileFits(q)'
  <2>1. FileFits(q) /\ q \in Paths
    BY FilesAreNumbers DEF FileInv
  <2>2. CASE q = p
    BY <1>1, <1>2, <1>3, <1>5, <2>1, <2>2 DEF FileInv, StepFits, FileFits, StagedFileFits, Open, Between, Applying, Written
  <2>3. CASE q # p
    BY <1>1, <1>2, <1>3, <1>5, <2>1, <2>3 DEF FileInv, StepFits, FileFits, StagedFileFits, Open, Between, Applying, Written
  <2>4. QED BY <2>2, <2>3
<1>8. QED BY <1>6, <1>7 DEF FileInv

\* A failing write may leave a torn file; all files of the step are to be undone.
LEMMA WriteFailsKeeps == FileInv /\ WriteFails => FileInv'
<1> SUFFICES ASSUME FileInv, WriteFails PROVE FileInv'
  OBVIOUS
<1> DEFINE D == DOMAIN step.staged
           p == First(step.todo)
<1>1. PICK left \in {disk[p], Torn} : disk' = [disk EXCEPT ![p] = left]
  BY DEF WriteFails
<1>2. /\ step.at = "write" /\ faults < MaxFaults /\ faults' = faults + 1
      /\ step' = [step EXCEPT !.at = "undo", !.todo = D]
      /\ UNCHANGED <<index, head, before, late, foreign, steps, edits>>
  BY DEF WriteFails
<1>3. /\ D \in SUBSET Files /\ step.todo \subseteq D /\ step.todo # {} /\ p \in step.todo
  BY <1>2, StagedIsAFunction, FilesAreNumbers DEF FileInv, StepFits, Applying
<1> HIDE DEF p
<1>4. /\ step' \in StepType /\ step'.staged = step.staged /\ step'.outcome = step.outcome
      /\ step'.at = "undo" /\ step'.todo = D /\ step'.applied = step.applied
  BY <1>2, <1>3 DEF FileInv, FileTypes, StepType, At
<1>5. faults' \in 0..MaxFaults
  BY <1>2, FileSessionAssumption DEF FileInv, FileTypes, FileSessionAssumption
<1>6. p \in Paths /\ left \in OnDisk
  BY <1>3, FilesAreNumbers, ZenonT(40) DEF FileInv, FileTypes, OnDisk
<1>7. disk' \in [Paths -> OnDisk] /\ \A q \in Paths : disk'[q] = IF q = p THEN left ELSE disk[q]
  BY <1>1, <1>6 DEF FileInv, FileTypes
<1>8. FileTypes' /\ StepFits' /\ StepIsAtomic'
  BY <1>2, <1>3, <1>4, <1>5, <1>7 DEF FileInv, FileTypes, StepFits, StepIsAtomic, Open, Between, Applying, Written
<1>9. ASSUME NEW q \in Files PROVE FileFits(q)'
  <2>1. FileFits(q) /\ q \in Paths
    BY FilesAreNumbers DEF FileInv
  <2>2. CASE q = p
    BY <1>1, <1>2, <1>3, <1>4, <1>7, <2>1, <2>2 DEF FileInv, StepFits, FileFits, StagedFileFits, Open, Between, Applying, Written
  <2>3. CASE q # p
    BY <1>2, <1>3, <1>4, <1>7, <2>1, <2>3 DEF FileInv, StepFits, FileFits, StagedFileFits, Open, Between, Applying, Written
  <2>4. QED BY <2>2, <2>3
<1>10. QED BY <1>8, <1>9 DEF FileInv

\* The written files are accepted, or all of them are to be restored.
LEMMA ValidateFilesKeeps == FileInv /\ ValidateFiles => FileInv'
<1> SUFFICES ASSUME FileInv, ValidateFiles PROVE FileInv'
  OBVIOUS
<1> DEFINE D == DOMAIN step.staged
<1>1. /\ step.at = "validate"
      /\ \/ step' = [step EXCEPT !.at = "status"]
         \/ step' = [step EXCEPT !.at = "abort", !.todo = D]
      /\ UNCHANGED <<disk, index, head, before, late, foreign, steps, faults, edits>>
  BY DEF ValidateFiles
<1>2. D \in SUBSET Files
  BY StagedIsAFunction DEF FileInv
<1>3. /\ step' \in StepType /\ step'.staged = step.staged /\ step'.applied = step.applied
      /\ step'.outcome = step.outcome
      /\ \/ step'.at = "status" /\ step'.todo = step.todo
         \/ step'.at = "abort" /\ step'.todo = D
  BY <1>1, <1>2 DEF FileInv, FileTypes, StepType, At
<1>4. FileTypes' /\ StepFits' /\ StepIsAtomic'
  BY <1>1, <1>3 DEF FileInv, FileTypes, StepFits, StepIsAtomic, Open, Between, Applying, Written
<1>5. \A p \in Files : FileFits(p)'
  BY <1>1, <1>3 DEF FileInv, StepFits, FileFits, StagedFileFits, Open, Between, Applying, Written
<1>6. QED BY <1>4, <1>5 DEF FileInv

\* The index takes the tracked files of the disk: those the step staged and, but
\* for what others wrote, those HEAD has.
LEMMA GitAddKeeps == FileInv /\ GitAdd => FileInv'
<1> SUFFICES ASSUME FileInv, GitAdd PROVE FileInv'
  OBVIOUS
<1>1. /\ step.at = "add" /\ index' = Tracked(disk) /\ step' = [step EXCEPT !.at = "commit"]
      /\ UNCHANGED <<disk, head, before, late, foreign, steps, faults, edits>>
  BY DEF GitAdd
<1>2. /\ step' \in StepType /\ step'.staged = step.staged /\ step'.applied = step.applied
      /\ step'.outcome = step.outcome /\ step'.at = "commit" /\ step'.todo = step.todo
  BY <1>1 DEF FileInv, FileTypes, StepType, At
<1>3. index' \in [Paths -> OnDisk] /\ \A q \in Paths : index'[q] = IF q \in Ignored THEN Absent ELSE disk[q]
  BY <1>1 DEF FileInv, FileTypes, Tracked, OnDisk
<1>4. FileTypes' /\ StepFits' /\ StepIsAtomic'
  BY <1>1, <1>2, <1>3 DEF FileInv, FileTypes, StepFits, StepIsAtomic, Open, Between, Applying, Written
<1>5. ASSUME NEW p \in Files PROVE FileFits(p)'
  <2>1. FileFits(p) /\ p \in Paths /\ late \subseteq foreign
    BY <1>1, FilesAreNumbers DEF FileInv, StepFits, Open, Between
  <2>2. p \notin foreign /\ p \notin Ignored => disk[p] = IF p \in DOMAIN step.staged THEN step.staged[p].new ELSE head[p]
    BY <1>1, <2>1 DEF FileFits, StagedFileFits, Open, Between, Written
  <2>3. QED
    BY <1>1, <1>2, <1>3, <2>1, <2>2 DEF FileInv, StepFits, FileFits, StagedFileFits, Open, Between, Applying, Written
<1>6. QED BY <1>4, <1>5 DEF FileInv

\* A failure of git has commitStep restore all files.
LEMMA GitFailsKeeps == FileInv /\ GitFails => FileInv'
<1> SUFFICES ASSUME FileInv, GitFails PROVE FileInv'
  OBVIOUS
<1> DEFINE D == DOMAIN step.staged
<1>1. /\ step.at \in {"status", "add", "commit"} /\ step' = [step EXCEPT !.at = "uncommit", !.todo = D]
      /\ UNCHANGED <<disk, index, head, before, late, foreign, steps, edits>>
      /\ (faults < MaxFaults /\ faults' = faults + 1) \/ faults' = faults
  BY DEF GitFails
<1>2. D \in SUBSET Files /\ D # {} /\ faults' \in 0..MaxFaults
  BY <1>1, StagedIsAFunction, FileSessionAssumption DEF FileInv, StepFits, Written, FileTypes, FileSessionAssumption
<1>3. /\ step' \in StepType /\ step'.staged = step.staged /\ step'.applied = step.applied
      /\ step'.outcome = step.outcome /\ step'.at = "uncommit" /\ step'.todo = D
  BY <1>1, <1>2 DEF FileInv, FileTypes, StepType, At
<1>4. FileTypes' /\ StepFits' /\ StepIsAtomic'
  BY <1>1, <1>2, <1>3 DEF FileInv, FileTypes, StepFits, StepIsAtomic, Open, Between, Applying, Written
<1>5. \A p \in Files : FileFits(p)'
  BY <1>1, <1>3 DEF FileInv, StepFits, FileFits, StagedFileFits, Open, Between, Applying, Written
<1>6. QED BY <1>4, <1>5 DEF FileInv

\* abortStep has nothing to restore.
LEMMA DropStepKeeps == FileInv /\ DropStep => FileInv'
<1> SUFFICES ASSUME FileInv, DropStep PROVE FileInv'
  OBVIOUS
<1>1. /\ step.at = "abort" /\ step.todo = {}
      /\ step' = [step EXCEPT !.at = "ended", !.todo = {},
                    !.outcome = IF step.outcome = "leaked" THEN step.outcome ELSE "rejected"]
      /\ UNCHANGED <<disk, index, head, before, late, foreign, steps, faults, edits>>
  BY DEF DropStep, AfterRestore
<1>2. /\ step' \in StepType /\ step'.staged = step.staged /\ step'.applied = step.applied
      /\ step'.outcome = (IF step.outcome = "leaked" THEN step.outcome ELSE "rejected")
      /\ step'.at = "ended" /\ step'.todo = {}
  BY <1>1 DEF FileInv, FileTypes, StepType, At
<1>3. FileTypes' /\ StepFits'
  BY <1>1, <1>2 DEF FileInv, FileTypes, StepFits, Open, Between, Applying, Written
<1>4. \A p \in Files : FileFits(p)'
  BY <1>1, <1>2 DEF FileInv, StepFits, FileFits, StagedFileFits, Open, Between, Applying, Written
<1>5. StepIsAtomic'
  BY <1>1, <1>2 DEF FileInv, StepFits, FileFits, StagedFileFits, StepIsAtomic, Open, Between, Applying, Written
<1>6. QED BY <1>3, <1>4, <1>5 DEF FileInv

\* The next step finds a stuck one and aborts it again.
LEMMA AbortAgainKeeps == FileInv /\ AbortAgain => FileInv'
<1> SUFFICES ASSUME FileInv, AbortAgain PROVE FileInv'
  OBVIOUS
<1> DEFINE D == DOMAIN step.staged
<1>1. step.outcome = "stuck" /\ step.applied /\ step.at = "ended"
  BY DEF AbortAgain, FileInv, StepFits, FileTypes, StepType, At
<1>2. /\ step' = [step EXCEPT !.at = "abort", !.outcome = "none", !.changes = <<>>, !.todo = D]
      /\ UNCHANGED <<disk, index, head, before, late, foreign, steps, faults, edits>>
  BY <1>1 DEF AbortAgain
<1>3. D \in SUBSET Files /\ <<>> \in Seq(Change)
  BY StagedIsAFunction, EmptySeq DEF FileInv
<1>4. /\ step' \in StepType /\ step'.staged = step.staged /\ step'.applied = step.applied
      /\ step'.outcome = "none" /\ step'.at = "abort" /\ step'.todo = D
  BY <1>2, <1>3 DEF FileInv, FileTypes, StepType, At
<1>5. FileTypes' /\ StepFits' /\ StepIsAtomic'
  BY <1>1, <1>2, <1>4 DEF FileInv, FileTypes, StepFits, StepIsAtomic, Open, Between, Applying, Written
<1>6. \A p \in Files : FileFits(p)'
  BY <1>1, <1>2, <1>4 DEF FileInv, StepFits, FileFits, StagedFileFits, Open, Between, Applying, Written
<1>7. QED BY <1>5, <1>6 DEF FileInv

\* Another program writes a file: it is late, and foreign, from then on.
LEMMA EditFileKeeps == FileInv /\ EditFile => FileInv'
<1> SUFFICES ASSUME FileInv, EditFile PROVE FileInv'
  OBVIOUS
<1>1. PICK p \in Files, c \in Contents \cup {Absent} :
        /\ disk' = [disk EXCEPT ![p] = c]
        /\ late' = late \cup {p} /\ foreign' = foreign \cup {p}
        /\ before' = [before EXCEPT ![p] = c]
  BY DEF EditFile
<1>2. /\ step.at \notin {"idle", "ended"} /\ edits' \in 0..MaxEdits
      /\ UNCHANGED <<index, head, step, steps, faults>>
  BY FileSessionAssumption DEF EditFile, FileInv, FileTypes, FileSessionAssumption
<1>3. /\ disk' \in [Paths -> OnDisk] /\ \A q \in Paths : disk'[q] = IF q = p THEN c ELSE disk[q]
      /\ before' \in [Paths -> OnDisk] /\ \A q \in Paths : before'[q] = IF q = p THEN c ELSE before[q]
  BY <1>1, FilesAreNumbers DEF FileInv, FileTypes, OnDisk
<1>4. FileTypes' /\ StepIsAtomic'
  BY <1>1, <1>2, <1>3 DEF FileInv, FileTypes, StepIsAtomic
<1>5. StepFits'
  BY <1>1, <1>2, <1>3 DEF FileInv, StepFits, Open, Between
<1>6. ASSUME NEW q \in Files PROVE FileFits(q)'
  <2>1. FileFits(q) /\ q \in Paths
    BY FilesAreNumbers DEF FileInv
  <2>2. CASE q = p
    BY <1>1, <1>2, <1>3, <2>1, <2>2 DEF FileInv, StepFits, FileFits, StagedFileFits, Open, Between, Applying, Written
  <2>3. CASE q # p
    BY <1>1, <1>2, <1>3, <2>1, <2>3 DEF FileInv, StepFits, FileFits, StagedFileFits, Open, Between, Applying, Written
  <2>4. QED BY <2>2, <2>3
<1>7. QED BY <1>4, <1>5, <1>6 DEF FileInv

\* A process that stops leaves its files behind; a worktree is reset.
LEMMA RestartKeeps == FileInv /\ Restart => FileInv'
<1> SUFFICES ASSUME FileInv, Restart PROVE FileInv'
  OBVIOUS
<1>1. /\ faults' \in 0..MaxFaults /\ step' = NoStep /\ UNCHANGED <<steps, head, before, late, edits>>
  BY FileSessionAssumption DEF Restart, FileInv, FileTypes, FileSessionAssumption
<1>2. StepFits' /\ StepIsAtomic'
  BY <1>1, NoStepIsAStep DEF StepFits, StepIsAtomic, Open, Between, Applying, Written
<1>3. CASE Isolated
  <2>1. /\ disk' = [p \in Paths |-> IF p \in Ignored THEN disk[p] ELSE head[p]]
        /\ index' = head /\ foreign' = {}
    BY <1>3 DEF Restart
  <2>2. disk' \in [Paths -> OnDisk] /\ \A p \in Paths : disk'[p] = IF p \in Ignored THEN disk[p] ELSE head[p]
    BY <2>1 DEF FileInv, FileTypes
  <2>3. FileTypes'
    BY <1>1, <2>1, <2>2, NoStepIsAStep DEF FileInv, FileTypes
  <2>4. \A p \in Files : FileFits(p)'
    BY <1>1, <2>1, <2>2, NoStepIsAStep, FilesAreNumbers DEF FileInv, FileFits, Open, Between
  <2>5. QED BY <1>2, <2>3, <2>4 DEF FileInv
<1>4. CASE ~Isolated
  <2>1. foreign' = foreign \cup DOMAIN step.staged /\ UNCHANGED <<disk, index>>
    BY <1>4 DEF Restart
  <2>2. FileTypes'
    BY <1>1, <2>1, NoStepIsAStep, StagedIsAFunction DEF FileInv, FileTypes
  <2>3. \A p \in Files : FileFits(p)'
    BY <1>1, <2>1, NoStepIsAStep DEF FileInv, StepFits, FileFits, Open, Between
  <2>4. QED BY <1>2, <2>2, <2>3 DEF FileInv
<1>5. QED BY <1>3, <1>4

\* With nothing pending the step is over, and the disk is what HEAD has.
LEMMA GitStatusKeeps == FileInv /\ GitStatus => FileInv'
<1> SUFFICES ASSUME FileInv, GitStatus PROVE FileInv'
  OBVIOUS
<1> DEFINE pending == Tracked(disk) # index \/ index # head
<1>1. /\ step.at = "status"
      /\ step' = IF pending THEN [step EXCEPT !.at = "add"] ELSE Committed(FALSE)
      /\ disk' = IF pending /\ disk[IgnoreFile] = Absent
                 THEN [disk EXCEPT ![IgnoreFile] = Generated] ELSE disk
      /\ UNCHANGED <<index, head, before, late, foreign, steps, faults, edits>>
  BY DEF GitStatus
<1>2. disk' \in [Paths -> OnDisk] /\ \A q \in Files : disk'[q] = disk[q]
  BY <1>1, FilesAreNumbers DEF FileInv, FileTypes, OnDisk
<1>3. ~pending => \A p \in Files \ Ignored : disk[p] = head[p]
  BY FilesAreNumbers DEF Tracked, FileInv, FileTypes
<1> HIDE DEF pending
<1>4. CASE pending
  <2>1. step' = [step EXCEPT !.at = "add"]
    BY <1>1, <1>4
  <2>2. /\ step' \in StepType /\ step'.staged = step.staged /\ step'.applied = step.applied
        /\ step'.outcome = step.outcome /\ step'.at = "add" /\ step'.todo = step.todo
    BY <2>1 DEF FileInv, FileTypes, StepType, At
  <2>3. FileTypes' /\ StepFits' /\ StepIsAtomic'
    BY <1>1, <1>2, <2>2 DEF FileInv, FileTypes, StepFits, StepIsAtomic, Open, Between, Applying, Written
  <2>4. ASSUME NEW p \in Files PROVE FileFits(p)'
    <3>1. FileFits(p) /\ StepFits /\ disk'[p] = disk[p]
      BY <1>2 DEF FileInv
    <3>2. p \in DOMAIN step.staged \ late => StagedFileFits(p)'
      BY <1>1, <2>2, <3>1 DEF StepFits, FileFits, StagedFileFits, Open, Between, Applying, Written
    <3>3. QED BY <1>1, <2>2, <3>1, <3>2 DEF StepFits, FileFits, Open, Between
  <2>5. QED BY <2>3, <2>4 DEF FileInv
<1>5. CASE ~pending
  <2>1. step' = [step EXCEPT !.at = "ended", !.outcome = IF step.correction THEN "silent" ELSE "committed"]
    BY <1>1, <1>5 DEF Committed
  <2>2. /\ step' \in StepType /\ step'.staged = step.staged /\ step'.applied = step.applied
        /\ step'.outcome \in {"silent", "committed"} /\ step'.at = "ended" /\ step'.todo = step.todo
    BY <2>1 DEF FileInv, FileTypes, StepType, At
  <2>3. FileTypes' /\ StepFits'
    BY <1>1, <1>2, <2>2 DEF FileInv, FileTypes, StepFits, Open, Between, Applying, Written
  \* Nothing is pending: what is on disk is what HEAD has.
  <2>4. \A p \in Files \ Ignored : disk[p] = head[p]
    BY <1>3, <1>5
  <2>5. ASSUME NEW p \in Files PROVE FileFits(p)'
    <3>1. FileFits(p) /\ StepFits /\ disk'[p] = disk[p]
      BY <1>2 DEF FileInv
    <3>2. p \in DOMAIN step.staged \ late => StagedFileFits(p)'
      BY <1>1, <2>2, <3>1 DEF StepFits, FileFits, StagedFileFits, Open, Between, Applying, Written
    <3>3. QED BY <1>1, <2>2, <2>4, <3>1, <3>2 DEF StepFits, FileFits, Open, Between
  <2>6. ASSUME NEW p \in Files \ late
        PROVE  LET kept == \/ step'.outcome = "committed"
                           \/ step'.outcome = "silent" /\ p \in Ignored \cup foreign
               IN  disk'[p] = IF kept /\ p \in DOMAIN step.staged THEN step.staged[p].new ELSE before[p]
    <3>1. FileFits(p) /\ StepFits
      BY DEF FileInv
    <3>2. p \in DOMAIN step.staged => step.staged[p].new = disk[p] /\ step.staged[p].prev = before[p]
      BY <1>1, <3>1 DEF FileFits, StagedFileFits, Written
    <3>3. p \notin DOMAIN step.staged => disk[p] = before[p]
      BY <1>1, <3>1 DEF FileFits, Between
    <3>4. p \notin foreign \cup Ignored => disk[p] = before[p]
      BY <1>1, <2>4, <3>1 DEF FileFits, Open, Between
    <3>5. QED BY <1>2, <2>2, <3>2, <3>3, <3>4
  <2>7. StepIsAtomic'
    BY <1>1, <2>2, <2>6, ZenonT(40) DEF StepIsAtomic
  <2>8. QED BY <2>3, <2>5, <2>7 DEF FileInv
<1>6. QED BY <1>4, <1>5

\* HEAD takes the index.
LEMMA GitCommitKeeps == FileInv /\ GitCommit => FileInv'
<1> SUFFICES ASSUME FileInv, GitCommit PROVE FileInv'
  OBVIOUS
<1>1. /\ step.at = "commit" /\ head' = index
      /\ step' = [step EXCEPT !.at = "ended", !.outcome = "committed"]
      /\ foreign' = {p \in foreign : Tracked(disk)[p] # index[p]}
      /\ UNCHANGED <<disk, index, before, late, steps, faults, edits>>
  BY DEF GitCommit, Committed
<1>2. /\ step' \in StepType /\ step'.staged = step.staged /\ step'.applied = step.applied
      /\ step'.outcome = "committed" /\ step'.at = "ended" /\ step'.todo = step.todo
  BY <1>1 DEF FileInv, FileTypes, StepType, At
<1>3. FileTypes' /\ StepFits'
  BY <1>1, <1>2 DEF FileInv, FileTypes, StepFits, Open, Between, Applying, Written
<1>4. ASSUME NEW p \in Files PROVE FileFits(p)'
  <2>1. FileFits(p) /\ p \in Paths /\ late \subseteq foreign
    BY <1>1, FilesAreNumbers DEF FileInv, StepFits, Open, Between
  <2>2. p \in foreign /\ p \notin foreign' => Tracked(disk)[p] = index[p]
    BY <1>1
  <2>3. p \notin foreign' \cup Ignored => index[p] = disk[p]
    <3>1. CASE p \in foreign
      BY <2>1, <2>2, <3>1 DEF Tracked
    <3>2. CASE p \notin foreign
      BY <1>1, <2>1, <3>2 DEF FileFits, StagedFileFits, Open, Between, Written
    <3>3. QED BY <3>1, <3>2
  <2>4. QED
    BY <1>1, <1>2, <2>1, <2>3 DEF FileInv, StepFits, FileFits, StagedFileFits, Open, Between, Applying, Written
<1>5. StepIsAtomic'
  BY <1>1, <1>2 DEF FileInv, StepFits, FileFits, StagedFileFits, StepIsAtomic, Open, Between, Applying, Written
<1>6. QED BY <1>3, <1>4, <1>5 DEF FileInv

\* What every restoring step starts from.
LEMMA RestoringStarts ==
    ASSUME FileInv, step.at \in {"undo", "uncommit", "abort"}, step.todo # {}
    PROVE  /\ First(step.todo) \in step.todo /\ step.todo \subseteq DOMAIN step.staged
           /\ DOMAIN step.staged \in SUBSET Files /\ step.staged[First(step.todo)].prev \in OnDisk
           /\ step.at # "undo" <=> step.applied
           /\ step.at # "abort" => step.outcome = "none"
           /\ step.outcome \in {"none", "leaked"} /\ (step.applied => step.outcome = "none")
           /\ late \subseteq foreign
<1>1. step.todo \subseteq DOMAIN step.staged /\ DOMAIN step.staged \in SUBSET Files
  BY StagedIsAFunction DEF FileInv, StepFits
<1>2. First(step.todo) \in step.todo
  BY <1>1, FilesAreNumbers
<1>3. step.staged[First(step.todo)].prev \in OnDisk
  BY <1>1, <1>2, StagedIsAFunction DEF FileInv
<1>4. QED BY <1>1, <1>2, <1>3 DEF FileInv, StepFits, FileTypes, StepType, Open, Between, Applying, Written

\* One more file is back, and others are left.
LEMMA RestoreGoesOn ==
    ASSUME FileInv, step.at \in {"undo", "uncommit", "abort"}, step.todo # {},
           NEW p, p = First(step.todo), step.todo \ {p} # {},
           disk' = [disk EXCEPT ![p] = step.staged[p].prev],
           step' = [step EXCEPT !.todo = step.todo \ {p}],
           UNCHANGED <<index, head, before, late, foreign, steps, faults, edits>>
    PROVE  FileInv'
<1>1. /\ p \in step.todo /\ step.todo \subseteq DOMAIN step.staged /\ DOMAIN step.staged \in SUBSET Files
      /\ step.staged[p].prev \in OnDisk
  BY RestoringStarts
<1>2. disk' \in [Paths -> OnDisk] /\ \A q \in Paths : disk'[q] = IF q = p THEN step.staged[p].prev ELSE disk[q]
  BY <1>1, FilesAreNumbers DEF FileInv, FileTypes
<1>3. /\ step' \in StepType /\ step'.at = step.at /\ step'.staged = step.staged /\ step'.applied = step.applied
      /\ step'.outcome = step.outcome /\ step'.todo = step.todo \ {p}
  BY <1>1 DEF FileInv, FileTypes, StepType
<1>4. FileTypes' /\ StepFits' /\ StepIsAtomic'
  BY <1>1, <1>2, <1>3 DEF FileInv, FileTypes, StepFits, StepIsAtomic, Open, Between, Applying, Written
<1>5. ASSUME NEW q \in Files PROVE FileFits(q)'
  <2>1. FileFits(q) /\ StepFits /\ disk'[q] = IF q = p THEN step.staged[p].prev ELSE disk[q]
    BY <1>2, FilesAreNumbers DEF FileInv
  <2>2. q \in DOMAIN step.staged \ late => StagedFileFits(q)'
    BY <1>1, <1>3, <2>1 DEF StepFits, FileFits, StagedFileFits, Open, Between, Applying, Written
  <2>3. QED BY <1>1, <1>3, <2>1, <2>2 DEF StepFits, FileFits, Open, Between
<1>6. QED BY <1>4, <1>5 DEF FileInv

\* All files are back: applyStepChanges fails, commitStep fails, or the step is over.
LEMMA RestoreIsDone ==
    ASSUME FileInv, step.at \in {"undo", "uncommit", "abort"}, step.todo # {},
           NEW p, p = First(step.todo), step.todo \ {p} = {},
           disk' = [disk EXCEPT ![p] = step.staged[p].prev], step' = AfterRestore(TRUE),
           UNCHANGED <<index, head, before, late, foreign, steps, faults, edits>>
    PROVE  FileInv'
<1> DEFINE D == DOMAIN step.staged
<1>1. /\ p \in step.todo /\ step.todo \subseteq D /\ D \in SUBSET Files
      /\ step.staged[p].prev \in OnDisk /\ (step.at # "undo" <=> step.applied)
      /\ step.outcome \in {"none", "leaked"} /\ (step.applied => step.outcome = "none") /\ late \subseteq foreign
      /\ step.at # "abort" => step.outcome = "none"
  BY RestoringStarts
<1>2. disk' \in [Paths -> OnDisk] /\ \A q \in Paths : disk'[q] = IF q = p THEN step.staged[p].prev ELSE disk[q]
  BY <1>1, FilesAreNumbers DEF FileInv, FileTypes
<1>3. /\ {disk', index', head', before'} \subseteq [Paths -> OnDisk] /\ late' \subseteq Files
      /\ foreign' \subseteq Files /\ steps' \in Nat /\ faults' \in 0..MaxFaults /\ edits' \in 0..MaxEdits
  BY <1>2 DEF FileInv, FileTypes
<1>4. ASSUME NEW q \in Files
      PROVE  /\ FileFits(q) /\ StepFits /\ disk'[q] = (IF q = p THEN step.staged[p].prev ELSE disk[q])
             /\ q \notin late => disk'[q] = before[q]
  <2>1. FileFits(q) /\ StepFits /\ disk'[q] = IF q = p THEN step.staged[p].prev ELSE disk[q]
    BY <1>2, FilesAreNumbers DEF FileInv
  <2>2. q \notin late => disk'[q] = before[q]
    BY <1>1, <2>1 DEF StepFits, FileFits, StagedFileFits, Open, Between, Applying, Written
  <2>3. QED BY <2>1, <2>2
<1>5. CASE step.at = "undo"
  <2>1. step' = [step EXCEPT !.at = "abort", !.todo = {}, !.outcome = step.outcome]
    BY <1>5 DEF AfterRestore
  <2>2. /\ step' \in StepType /\ step'.at = "abort" /\ step'.staged = step.staged /\ step'.applied = step.applied
        /\ step'.outcome = step.outcome /\ step'.todo = {}
    BY <2>1 DEF FileInv, FileTypes, StepType, At
  <2>3. FileTypes' /\ StepFits' /\ StepIsAtomic'
    <3>1. FileTypes'
      BY <1>3, <2>2 DEF FileTypes
    <3>2. StepFits' /\ StepIsAtomic'
      BY <1>1, <1>5, <2>2 DEF StepFits, StepIsAtomic, Open, Between, Applying, Written
    <3>3. QED BY <3>1, <3>2
  <2>4. ASSUME NEW q \in Files PROVE FileFits(q)'
    <3>1. q \in D \ late => StagedFileFits(q)'
      BY <1>1, <1>4, <1>5, <2>2 DEF StagedFileFits, Open, Between, Applying, Written
    <3>2. QED BY <1>1, <1>4, <1>5, <2>2, <3>1, ZenonT(40) DEF FileFits, Open, Between
  <2>5. QED BY <2>3, <2>4 DEF FileInv
<1>6. CASE step.at = "uncommit"
  <2>1. step' = [step EXCEPT !.at = "abort", !.todo = D]
    BY <1>6 DEF AfterRestore
  <2>2. /\ step' \in StepType /\ step'.at = "abort" /\ step'.staged = step.staged /\ step'.applied = step.applied
        /\ step'.outcome = step.outcome /\ step'.todo = D
    BY <1>1, <2>1 DEF FileInv, FileTypes, StepType, At
  <2>3. FileTypes' /\ StepFits' /\ StepIsAtomic'
    <3>1. FileTypes'
      BY <1>3, <2>2 DEF FileTypes
    <3>2. StepFits' /\ StepIsAtomic'
      BY <1>1, <1>6, <2>2 DEF StepFits, StepIsAtomic, Open, Between, Applying, Written
    <3>3. QED BY <3>1, <3>2
  <2>4. ASSUME NEW q \in Files PROVE FileFits(q)'
    <3>1. q \in D \ late => StagedFileFits(q)'
      BY <1>1, <1>4, <1>6, <2>2, ZenonT(40) DEF FileFits, StagedFileFits, Open, Between, Applying, Written
    <3>2. QED BY <1>1, <1>4, <1>6, <2>2, <3>1, ZenonT(40) DEF FileFits, Open, Between
  <2>5. QED BY <2>3, <2>4 DEF FileInv
<1>7. CASE step.at = "abort"
  <2>1. step' = [step EXCEPT !.at = "ended", !.todo = {}, !.outcome = "rejected"]
    BY <1>1, <1>7 DEF AfterRestore
  <2>2. /\ step' \in StepType /\ step'.at = "ended" /\ step'.staged = step.staged /\ step'.applied = step.applied
        /\ step'.outcome = "rejected" /\ step'.todo = {}
    BY <2>1 DEF FileInv, FileTypes, StepType, At
  <2>3. FileTypes' /\ StepFits'
    <3>1. FileTypes'
      BY <1>3, <2>2 DEF FileTypes
    <3>2. StepFits'
      BY <1>1, <2>2 DEF StepFits, Open, Between, Applying, Written
    <3>3. QED BY <3>1, <3>2
  <2>4. StepIsAtomic'
    BY <1>1, <1>4, <2>2, ZenonT(40) DEF StepIsAtomic
  <2>5. ASSUME NEW q \in Files PROVE FileFits(q)'
    <3>1. q \in D \ late => StagedFileFits(q)'
      BY <2>2 DEF StagedFileFits, Open, Between, Applying, Written
    <3>2. QED BY <1>1, <1>4, <1>7, <2>2, <3>1, ZenonT(40) DEF FileFits, Open, Between
  <2>6. QED BY <2>3, <2>4, <2>5 DEF FileInv
<1>8. QED BY <1>5, <1>6, <1>7

\* A file cannot be restored: the rest of them is not tried.
LEMMA RestoreStops ==
    ASSUME FileInv, step.at \in {"undo", "uncommit", "abort"}, step.todo # {},
           step' = AfterRestore(FALSE), faults' \in 0..MaxFaults,
           foreign' = IF step.at = "undo" THEN foreign \cup DOMAIN step.staged ELSE foreign,
           UNCHANGED <<disk, index, head, before, late, steps, edits>>
    PROVE  FileInv'
<1> DEFINE D == DOMAIN step.staged
<1>1. /\ step.todo \subseteq D /\ D \in SUBSET Files /\ D # {} /\ (step.at # "undo" <=> step.applied)
      /\ (step.applied => step.outcome = "none") /\ late \subseteq foreign
  BY RestoringStarts
<1>2. CASE step.at = "undo"
  <2>1. step' = [step EXCEPT !.at = "abort", !.todo = {}, !.outcome = "leaked"]
    BY <1>2 DEF AfterRestore
  <2>2. /\ step' \in StepType /\ step'.at = "abort" /\ step'.staged = step.staged /\ step'.applied = step.applied
        /\ step'.outcome = "leaked" /\ step'.todo = {} /\ foreign' = foreign \cup D
    BY <1>2, <2>1 DEF FileInv, FileTypes, StepType, At
  <2>3. FileTypes' /\ StepFits' /\ StepIsAtomic'
    BY <1>1, <1>2, <2>2 DEF FileInv, FileTypes, StepFits, StepIsAtomic, Open, Between, Applying, Written
  <2>4. ASSUME NEW q \in Files PROVE FileFits(q)'
    <3>1. FileFits(q)
      BY DEF FileInv
    <3>2. StagedFileFits(q)'
      BY <1>1, <1>2, <2>2 DEF StagedFileFits, Open, Between, Applying, Written
    <3>3. QED BY <1>2, <2>2, <3>1, <3>2 DEF FileFits, Open, Between
  <2>5. QED BY <2>3, <2>4 DEF FileInv
<1>3. CASE step.at = "uncommit"
  <2>1. step' = [step EXCEPT !.at = "abort", !.todo = D]
    BY <1>3 DEF AfterRestore
  <2>2. /\ step' \in StepType /\ step'.at = "abort" /\ step'.staged = step.staged /\ step'.applied = step.applied
        /\ step'.outcome = step.outcome /\ step'.todo = D /\ foreign' = foreign
    BY <1>1, <1>3, <2>1 DEF FileInv, FileTypes, StepType, At
  <2>3. FileTypes' /\ StepFits' /\ StepIsAtomic'
    BY <1>1, <1>3, <2>2 DEF FileInv, FileTypes, StepFits, StepIsAtomic, Open, Between, Applying, Written
  <2>4. ASSUME NEW q \in Files PROVE FileFits(q)'
    <3>1. FileFits(q)
      BY DEF FileInv
    <3>2. q \in D \ late => StagedFileFits(q)'
      BY <1>1, <1>3, <2>2, <3>1 DEF FileFits, StagedFileFits, Open, Between, Applying, Written
    <3>3. QED BY <1>1, <1>3, <2>2, <3>1, <3>2 DEF FileFits, Open, Between
  <2>5. QED BY <2>3, <2>4 DEF FileInv
<1>4. CASE step.at = "abort"
  <2>1. step' = [step EXCEPT !.at = "ended", !.todo = {}, !.outcome = "stuck"]
    BY <1>4 DEF AfterRestore
  <2>2. /\ step' \in StepType /\ step'.at = "ended" /\ step'.staged = step.staged /\ step'.applied = step.applied
        /\ step'.outcome = "stuck" /\ step'.todo = {} /\ foreign' = foreign
    BY <1>4, <2>1 DEF FileInv, FileTypes, StepType, At
  <2>3. FileTypes' /\ StepFits' /\ StepIsAtomic'
    BY <1>1, <1>4, <2>2 DEF FileInv, FileTypes, StepFits, StepIsAtomic, Open, Between, Applying, Written
  <2>4. ASSUME NEW q \in Files PROVE FileFits(q)'
    <3>1. FileFits(q)
      BY DEF FileInv
    <3>2. q \in D \ late => StagedFileFits(q)'
      BY <1>1, <1>4, <2>2, <3>1 DEF FileFits, StagedFileFits, Open, Between, Applying, Written
    <3>3. QED BY <1>1, <1>4, <2>2, <3>1, <3>2 DEF FileFits, Open, Between
  <2>5. QED BY <2>3, <2>4 DEF FileInv
<1>5. QED BY <1>2, <1>3, <1>4

\* restoreBackups, one file at a time, for its three callers.
LEMMA RestoreFileKeeps == FileInv /\ RestoreFile => FileInv'
<1> SUFFICES ASSUME FileInv, RestoreFile PROVE FileInv'
  OBVIOUS
<1>1. PICK p : p = First(step.todo)
  OBVIOUS
<1>2. /\ step.at \in {"undo", "uncommit", "abort"} /\ step.todo # {}
      /\ UNCHANGED <<index, head, before, late, steps, edits>>
  BY DEF RestoreFile
<1>3. \/ /\ disk' = [disk EXCEPT ![p] = step.staged[p].prev]
         /\ step' = IF step.todo \ {p} # {} THEN [step EXCEPT !.todo = step.todo \ {p}] ELSE AfterRestore(TRUE)
         /\ UNCHANGED <<faults, foreign>>
      \/ /\ faults < MaxFaults /\ faults' = faults + 1
         /\ step' = AfterRestore(FALSE)
         /\ foreign' = IF step.at = "undo" THEN foreign \cup DOMAIN step.staged ELSE foreign
         /\ UNCHANGED disk
  BY <1>1 DEF RestoreFile
<1>4. faults < MaxFaults => faults + 1 \in 0..MaxFaults
  BY FileSessionAssumption DEF FileInv, FileTypes, FileSessionAssumption
<1>5. QED BY <1>1, <1>2, <1>3, <1>4, RestoreGoesOn, RestoreIsDone, RestoreStops

\* Every step of the file transaction keeps the invariant.
LEMMA FilesStep == FileInv /\ [FileNext]_fileVars => FileInv'
<1> SUFFICES ASSUME FileInv, [FileNext]_fileVars PROVE FileInv'
  OBVIOUS
<1>1. CASE UNCHANGED fileVars
  BY <1>1 DEF fileVars, FileInv, FileTypes, StepFits, FileFits, StagedFileFits, StepIsAtomic, Open
<1>2. CASE FileNext
  BY <1>2, RunToolKeeps, BeginStepKeeps, SkipStepKeeps, StageChangeKeeps, ValidateStepKeeps,
     CheckFileKeeps, WriteFileKeeps, WriteFailsKeeps, ValidateFilesKeeps, RestoreFileKeeps, DropStepKeeps,
     GitStatusKeeps, GitAddKeeps, GitCommitKeeps, GitFailsKeeps, EndStepKeeps, AbortAgainKeeps,
     RestartKeeps, EditFileKeeps DEF FileNext
<1>3. QED BY <1>1, <1>2

\* The invariant of the file transaction holds for every set of files and every
\* number of steps, faults and foreign edits, in a worktree or the project's
\* directory.
THEOREM FilesAreInductive == FileSpec => []FileInv
BY FilesStart, FilesStep, PTL DEF FileSpec

\* A step leaves all of its files as it wanted them, or all as it found them
\* (file-session.ts, applyStepChanges, commitStep and abortStep).
THEOREM StepsAreAlwaysAtomic == FileSpec => []StepIsAtomic
<1>1. FileInv => StepIsAtomic
  BY DEF FileInv
<1>2. QED BY <1>1, FilesAreInductive, PTL

\* Only GitCommit moves HEAD, to an index that holds what the step staged.
LEMMA OnlyItsCommits ==
    ASSUME FileInv, FileNext, NEW p \in Files
    PROVE  CommitsOnly(p)
<1>1. FileFits(p) /\ StepFits
  BY DEF FileInv
<1>2. CASE GitCommit
  BY <1>1, <1>2 DEF GitCommit, FileFits, CommitsOnly, Open
<1>3. CASE UNCHANGED head
  BY <1>3 DEF CommitsOnly
<1>4. QED
  BY <1>2, <1>3 DEF FileNext, RunTool, BeginStep, SkipStep, StageChange, ValidateStep, CheckFile, WriteFile,
     WriteFails, ValidateFiles, RestoreFile, DropStep, GitStatus, GitAdd, GitFails, EndStep, AbortAgain, Restart, EditFile

\* Disk is written by WriteFile, WriteFails and RestoreFile, and by others.
LEMMA SparesOtherEdits ==
    ASSUME FileInv, FileNext, NEW p \in Files
    PROVE  SparesEdits(p)
<1>1. FileFits(p) /\ StepFits /\ FileTypes /\ p \in Paths
  BY FilesAreNumbers DEF FileInv
<1>2. CASE WriteFile
  <2>1. First(step.todo) \in step.todo /\ step.todo \subseteq DOMAIN step.staged
    BY <1>1, <1>2, StagedIsAFunction, FilesAreNumbers DEF WriteFile, StepFits, Applying
  <2>2. disk' = [disk EXCEPT ![First(step.todo)] = step.staged[First(step.todo)].new] /\ step.at = "write"
    BY <1>2 DEF WriteFile
  <2>3. disk'[p] # disk[p] => p = First(step.todo)
    BY <1>1, <2>2 DEF FileTypes
  <2>4. QED BY <1>1, <2>1, <2>2, <2>3 DEF FileFits, StagedFileFits, SparesEdits
<1>3. CASE WriteFails
  <2>1. First(step.todo) \in step.todo /\ step.todo \subseteq DOMAIN step.staged
    BY <1>1, <1>3, StagedIsAFunction, FilesAreNumbers DEF WriteFails, StepFits, Applying
  <2>2. PICK left : disk' = [disk EXCEPT ![First(step.todo)] = left] /\ step.at = "write"
    BY <1>3 DEF WriteFails
  <2>3. disk'[p] # disk[p] => p = First(step.todo)
    BY <1>1, <2>2 DEF FileTypes
  <2>4. QED BY <1>1, <2>1, <2>2, <2>3 DEF FileFits, StagedFileFits, SparesEdits
<1>4. CASE RestoreFile
  <2>1. step.at \in {"undo", "uncommit", "abort"} /\ step.todo # {}
    BY <1>4 DEF RestoreFile
  <2>2. First(step.todo) \in step.todo /\ step.todo \subseteq DOMAIN step.staged /\ (step.at # "undo" <=> step.applied)
    BY <2>1, RestoringStarts
  <2>3. disk' = disk \/ disk' = [disk EXCEPT ![First(step.todo)] = step.staged[First(step.todo)].prev]
    BY <1>4 DEF RestoreFile
  <2>4. disk'[p] # disk[p] => p = First(step.todo)
    BY <1>1, <2>3 DEF FileTypes
  <2>5. QED BY <1>1, <2>1, <2>2, <2>4 DEF FileFits, StagedFileFits, SparesEdits
<1>5. CASE GitStatus
  <2>1. disk'[p] = disk[p]
    BY <1>1, <1>5, FilesAreNumbers DEF GitStatus, FileTypes
  <2>2. QED BY <2>1 DEF SparesEdits
<1>6. CASE EditFile
  <2>1. edits' = edits + 1 /\ edits \in Nat
    BY <1>1, <1>6, FileSessionAssumption DEF EditFile, FileTypes, FileSessionAssumption
  <2>2. QED BY <2>1 DEF SparesEdits
<1>7. CASE Restart
  BY <1>7, NoStepIsAStep DEF Restart, SparesEdits
<1>8. CASE UNCHANGED disk
  BY <1>8 DEF SparesEdits
<1>9. QED
  BY <1>2, <1>3, <1>4, <1>5, <1>6, <1>7, <1>8 DEF FileNext, RunTool, BeginStep, SkipStep, StageChange,
     ValidateStep, CheckFile, ValidateFiles, DropStep, GitAdd, GitCommit, GitFails, EndStep, AbortAgain

\* A commit holds what its step staged, and what others wrote before the lock
\* check is neither overwritten nor restored away (file-session.ts,
\* git-versioning.ts, createAutoCommit).
THEOREM StepsKeepToTheirFiles == FileSpec => StepKeepsToItsFiles
<1>1. ASSUME FileInv, [FileNext]_fileVars
      PROVE  [\A p \in Files : CommitsOnly(p) /\ SparesEdits(p)]_fileVars
  BY <1>1, OnlyItsCommits, SparesOtherEdits
<1>2. QED BY <1>1, FilesAreInductive, PTL DEF FileSpec, StepKeepsToItsFiles

=============================================================================
