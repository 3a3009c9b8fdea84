------------------------- MODULE LifecycleRuns_proofs -------------------------
(***************************************************************************)
(* Proofs about lifecycle runs, for any set of runs, servers and ticks and *)
(* any limits: the row lock makes the counters and the step records agree  *)
(* and cancellations final, and the scheduler loses no run; and about the  *)
(* checks of their projects, for any checks, projects and ports: their     *)
(* verdicts match what they found, and they leave nothing behind.          *)
(***************************************************************************)
EXTENDS LifecycleRuns, ProjectValidation, TLAPS

-----------------------------------------------------------------------------
(* Sequences without repetition *)

Distinct(q) == \A i, j \in DOMAIN q : q[i] = q[j] => i = j
Elements(q) == {q[i] : i \in DOMAIN q}

\* Append adds one element, at the end.
LEMMA AppendElements ==
  ASSUME NEW S, NEW q \in Seq(S), NEW x \in S
  PROVE  /\ Append(q, x) \in Seq(S)
         /\ Elements(Append(q, x)) = Elements(q) \union {x}
         /\ Distinct(q) /\ x \notin Elements(q) => Distinct(Append(q, x))
<1>1. /\ Append(q, x) \in Seq(S)
      /\ DOMAIN Append(q, x) = 1..(Len(q) + 1)
      /\ DOMAIN q = 1..Len(q)
      /\ Len(q) \in Nat
      /\ \A i \in 1..Len(q) : Append(q, x)[i] = q[i]
      /\ Append(q, x)[Len(q) + 1] = x
  OBVIOUS
<1>2. Elements(Append(q, x)) = Elements(q) \union {x}
  BY <1>1 DEF Elements
<1>3. ASSUME Distinct(q), x \notin Elements(q),
             NEW i \in 1..(Len(q) + 1), NEW j \in 1..(Len(q) + 1),
             Append(q, x)[i] = Append(q, x)[j]
      PROVE  i = j
  BY <1>1, <1>3 DEF Distinct, Elements
<1> QED
  BY <1>1, <1>2, <1>3 DEF Distinct

\* Tail removes the head and nothing else.
LEMMA TailElements ==
  ASSUME NEW S, NEW q \in Seq(S), q # <<>>
  PROVE  /\ Head(q) \in S /\ Head(q) \in Elements(q)
         /\ Tail(q) \in Seq(S)
         /\ Elements(q) = Elements(Tail(q)) \union {Head(q)}
         /\ Distinct(q) => Distinct(Tail(q))
<1>1. /\ Tail(q) \in Seq(S)
      /\ Len(q) \in Nat \ {0}
      /\ DOMAIN q = 1..Len(q)
      /\ DOMAIN Tail(q) = 1..(Len(q) - 1)
      /\ \A i \in 1..(Len(q) - 1) : Tail(q)[i] = q[i + 1]
      /\ Head(q) = q[1] /\ q[1] \in S
  OBVIOUS
<1>2. \A i \in 1..Len(q) : i = 1 \/ (i - 1 \in 1..(Len(q) - 1) /\ q[i] = Tail(q)[i - 1])
  BY <1>1
<1>3. \A i \in 1..(Len(q) - 1) : i + 1 \in 1..Len(q)
  BY <1>1
<1>4. Elements(q) = Elements(Tail(q)) \union {Head(q)}
  <2>1. ASSUME NEW i \in 1..Len(q) PROVE q[i] \in Elements(Tail(q)) \union {Head(q)}
    BY <1>1, <1>2 DEF Elements
  <2>2. ASSUME NEW i \in 1..(Len(q) - 1) PROVE Tail(q)[i] \in Elements(q)
    BY <1>1, <1>3 DEF Elements
  <2>3. Head(q) \in Elements(q)
    BY <1>1 DEF Elements
  <2> QED
    BY <1>1, <2>1, <2>2, <2>3 DEF Elements
<1>5. ASSUME Distinct(q), NEW i \in 1..(Len(q) - 1), NEW j \in 1..(Len(q) - 1),
             Tail(q)[i] = Tail(q)[j]
      PROVE  i = j
  <2>1. i + 1 = j + 1
    BY <1>1, <1>3, <1>5 DEF Distinct
  <2> QED
    BY <2>1
<1> QED
  BY <1>1, <1>4, <1>5 DEF Distinct, Elements

-----------------------------------------------------------------------------
(* One row *)

LEMMA TargetType ==
  ASSUME NEW row \in RunRow
  PROVE  /\ NormalizeGoalStepsTarget(row.limits) \in Nat \ {0}
         /\ NormalizeGoalStepsTarget(row.limits) <= row.limits.steps
BY LifecycleAssumption, SMTT(40) DEF RunRow, Limits, NormalizeGoalStepsTarget, Least

\* OutcomeIsEarned, of one row.
Earned(row) ==
  /\ row.status = "complete" =>
       /\ row.phase = "optimization"
       /\ row.optimized = row.limits.optimizations
  /\ row.status = "failed" =>
       row.index = row.limits.steps \/ row.limits.corrections = 0

\* A transaction moves a sound row to a sound row.
LEMMA ExecutedRow ==
  ASSUME NEW row \in RunRow, NEW expected, CountsOf(row), Earned(row)
  PROVE  LET after == Executed(expected, row) IN
         /\ after \in RunRow
         /\ after.limits = row.limits
         /\ CountsOf(after)
         /\ Earned(after)
<1> DEFINE target == NormalizeGoalStepsTarget(row.limits)
<1>t. target \in Nat \ {0} /\ target <= row.limits.steps
  BY TargetType
<1>r. row = [status |-> row.status, phase |-> row.phase, index |-> row.index,
             optimized |-> row.optimized, limits |-> row.limits]
  BY DEF RunRow
<1> DEFINE started == Started(row)
<1>s. /\ started \in RunRow
      /\ started.phase = row.phase /\ started.index = row.index
      /\ started.optimized = row.optimized /\ started.limits = row.limits
      /\ started.status \in {"complete", "failed"} => started.status = row.status
  BY DEF Started, RunRow, Active
<1>1. CASE ~Runnable(expected, row)
  <2>1. Executed(expected, row) = started
    BY <1>1 DEF Executed
  <2> QED
    BY <2>1, <1>s DEF CountsOf, Earned
<1>2. CASE Runnable(expected, row) /\ AtLimit(row)
  <2>1. Executed(expected, row) = Stopped(started)
    BY <1>2 DEF Executed
  <2>2. /\ Stopped(started) \in RunRow
        /\ Stopped(started).phase = row.phase /\ Stopped(started).index = row.index
        /\ Stopped(started).optimized = row.optimized
        /\ Stopped(started).limits = row.limits
        /\ Stopped(started).status = IF OutOfBudget(row) THEN "failed" ELSE "complete"
    BY <1>s DEF Stopped, OutOfBudget, RunRow, Ended
  <2>3. CountsOf(Stopped(started))
    BY <2>2 DEF CountsOf
  <2>4. Earned(Stopped(started))
    BY <1>2, <2>2 DEF Earned, CountsOf, AtLimit, OutOfBudget, Optimized, RunRow, Limits
  <2> QED
    BY <2>1, <2>2, <2>3, <2>4
<1>3. CASE TakesStep(expected, row)
  <2> DEFINE taken == StepTaken(started)
             switched == PhaseSwitched(taken)
             completed == Completed(switched)
  <2>1. Executed(expected, row) = completed
    BY <1>3 DEF Executed, TakesStep
  <2>2. /\ taken \in RunRow
        /\ taken.status = started.status
        /\ taken.phase = row.phase /\ taken.limits = row.limits
        /\ taken.index = row.index + 1
        /\ taken.optimized = IF row.phase = "optimization" THEN row.optimized + 1
                             ELSE row.optimized
    <3>1. /\ started.index + 1 \in Nat
          /\ (IF started.phase = "optimization" THEN started.optimized + 1
              ELSE started.optimized) \in Nat
      BY <1>s DEF RunRow
    <3>2. /\ taken \in RunRow
          /\ taken.status = started.status /\ taken.phase = started.phase
          /\ taken.limits = started.limits /\ taken.index = started.index + 1
          /\ taken.optimized = IF started.phase = "optimization"
                               THEN started.optimized + 1 ELSE started.optimized
      BY <1>s, <3>1 DEF StepTaken, RunRow
    <3> QED
      BY <1>s, <3>2
  <2>3. /\ switched \in RunRow
        /\ switched.limits = row.limits /\ switched.index = row.index + 1
        /\ switched.optimized = taken.optimized
        /\ switched.phase = IF row.index + 1 >= target THEN "optimization" ELSE row.phase
        /\ switched.status \in {started.status, "optimizing"}
    <3>1. CASE row.phase = "goal" /\ row.index + 1 >= target
      BY <2>2, <3>1 DEF PhaseSwitched, RunRow, Phase, Active
    <3>2. CASE ~(row.phase = "goal" /\ row.index + 1 >= target)
      BY <2>2, <3>2 DEF PhaseSwitched, RunRow, Phase
    <3> QED
      BY <3>1, <3>2
  <2>4. CountsOf(switched)
    BY <1>3, <1>t, <2>2, <2>3
    DEF CountsOf, TakesStep, AtLimit, OutOfBudget, Optimized, RunRow, Limits, Phase
  <2>5. started.status \in {"running", "optimizing"}
    BY <1>3 DEF TakesStep, Runnable
  <2>6. /\ completed \in RunRow
        /\ completed.limits = row.limits
        /\ CountsOf(completed) /\ Earned(completed)
    <3>1. CASE Optimized(switched)
      BY <3>1, <2>3, <2>4
      DEF Completed, Optimized, CountsOf, Earned, RunRow, Limits, Ended
    <3>2. CASE ~Optimized(switched)
      BY <3>2, <2>3, <2>4, <2>5 DEF Completed, Earned
    <3> QED
      BY <3>1, <3>2
  <2> QED
    BY <2>1, <2>6
<1> QED
  BY <1>1, <1>2, <1>3 DEF TakesStep

\* What a transaction adds to the step records.
LEMMA ExecutedIndex ==
  ASSUME NEW row \in RunRow, NEW expected, CountsOf(row)
  PROVE  /\ TakesStep(expected, row) =>
              /\ Executed(expected, row).index = row.index + 1
              /\ row.phase = IF row.index + 1 <= NormalizeGoalStepsTarget(row.limits)
                             THEN "goal" ELSE "optimization"
         /\ ~TakesStep(expected, row) => Executed(expected, row).index = row.index
<1>1. CASE TakesStep(expected, row)
  <2>1. Executed(expected, row) = Completed(PhaseSwitched(StepTaken(Started(row))))
    BY <1>1 DEF Executed, TakesStep
  <2>2. Executed(expected, row).index = row.index + 1
    BY <2>1 DEF Completed, PhaseSwitched, StepTaken, Started, RunRow
  <2> QED
    BY <1>1, <2>2, TargetType DEF CountsOf, RunRow
<1>2. CASE ~TakesStep(expected, row)
  BY <1>2 DEF TakesStep, Executed, Stopped, Started, RunRow
<1> QED
  BY <1>1, <1>2

\* A run that has ended is not touched by a transaction.
LEMMA ExecutedEnded ==
  ASSUME NEW row \in RunRow, NEW expected, row.status \in Ended
  PROVE  Executed(expected, row) = row /\ ~TakesStep(expected, row)
<1>1. Started(row) = row
  BY DEF Started, RunRow, Ended
<1> QED
  BY <1>1 DEF Executed, TakesStep, Runnable, Ended

-----------------------------------------------------------------------------
(* Types *)

\* What the program counter says of a transaction.
LEMMA TxnFields ==
  ASSUME LifecycleTypeOK, NEW e \in Executor
  PROVE  /\ txn[e].pc \in {"idle", "chosen", "locked", "done"}
         /\ txn[e].pc = "idle" <=> txn[e] = NoTxn
         /\ txn[e].pc # "idle" => txn[e].run \in Run
         /\ txn[e].pc \in {"chosen", "locked"} => txn[e].expected \in Nat \union {NotGiven}
         /\ txn[e].pc = "locked" => txn[e].row \in RunRow
         /\ txn[e].pc = "done" => txn[e].again \in BOOLEAN
<1>1. txn[e] \in Txn
  BY DEF LifecycleTypeOK
<1> QED
  BY <1>1 DEF Txn, NoTxn

LEMMA NoRowIsNoRun == NoRow \notin RunRow
BY DEF NoRow, RunRow

LEMMA StoredRun ==
  ASSUME LifecycleTypeOK, NEW r \in Run
  PROVE  /\ runs[r] # NoRow <=> runs[r] \in RunRow
         /\ runs[r].status \in Active \union Ended => runs[r] \in RunRow
BY DEF LifecycleTypeOK, NoRow, RunRow, Active, Ended

\* Set.add: the queue stays without repetition and gains exactly the key.
LEMMA AddedKey ==
  ASSUME LifecycleTypeOK, NEW s \in Server, NEW r \in Run
  PROVE  /\ AddKey(s, r) \in Seq(Run)
         /\ Distinct(AddKey(s, r))
         /\ Elements(AddKey(s, r)) = Keys(s) \union {r}
<1>1. queue[s] \in Seq(Run) /\ Distinct(queue[s]) /\ Keys(s) = Elements(queue[s])
  BY DEF LifecycleTypeOK, Distinct, Keys, Elements
<1>2. CASE r \in Keys(s)
  BY <1>1, <1>2 DEF AddKey
<1>3. CASE r \notin Keys(s)
  BY <1>1, <1>3, AppendElements DEF AddKey
<1> QED
  BY <1>2, <1>3

QueueType == /\ queue \in [Server -> Seq(Run)]
             /\ \A s \in Server : Distinct(queue[s])

\* A queue that is replaced by a sound one is sound.
LEMMA QueueUpdate ==
  ASSUME LifecycleTypeOK, NEW s \in Server, NEW q \in Seq(Run), Distinct(q),
         queue' = [queue EXCEPT ![s] = q]
  PROVE  /\ QueueType'
         /\ \A o \in Server : Keys(o)' = IF o = s THEN Elements(q) ELSE Keys(o)
<1>1. \A o \in Server : queue'[o] = IF o = s THEN q ELSE queue[o]
  BY DEF LifecycleTypeOK
<1>2. \A o \in Server : Keys(o)' = IF o = s THEN Elements(q) ELSE Keys(o)
  BY <1>1 DEF Keys, Elements
<1>3. QueueType'
  BY <1>1 DEF LifecycleTypeOK, QueueType, Distinct
<1> QED
  BY <1>2, <1>3

LEMMA CreatedRow ==
  ASSUME NEW ask \in Ask
  PROVE  [status |-> "queued", phase |-> "goal", index |-> 0, optimized |-> 0,
          limits |-> [steps         |-> NormalizeLimit(ask.steps, 20, 1, 1000),
                      corrections   |-> NormalizeLimit(ask.corrections, 2, 0, 100),
                      optimizations |-> NormalizeLimit(ask.optimizations, 2, 0, 100)]]
         \in RunRow
<1>1. /\ ask.steps \in 1..1000 \union {NotGiven}
      /\ ask.corrections \in 0..100 \union {NotGiven}
      /\ ask.optimizations \in 0..100 \union {NotGiven}
  BY LifecycleAssumption DEF Asked
<1>2. NormalizeLimit(ask.steps, 20, 1, 1000) \in 1..1000
  BY <1>1 DEF NormalizeLimit, Least
<1>3. NormalizeLimit(ask.corrections, 2, 0, 100) \in 0..100
  BY <1>1 DEF NormalizeLimit, Least
<1>4. NormalizeLimit(ask.optimizations, 2, 0, 100) \in 0..100
  BY <1>1 DEF NormalizeLimit, Least
<1> QED
  BY <1>2, <1>3, <1>4 DEF RunRow, Limits, Active, Phase

-----------------------------------------------------------------------------
(* The inductive invariant *)

\* Whatever refers to a run refers to one that was created.
KnownRuns ==
  /\ \A s \in Server : \A r \in Keys(s) \union promised[s] : runs[r] \in RunRow
  /\ \A e \in Executor : txn[e].pc # "idle" => runs[txn[e].run] \in RunRow
  /\ \A r \in driven : runs[r] \in RunRow

\* A transaction holds its row alone, and works on what the row says.
LocksHold ==
  /\ \A e \in Executor : txn[e].pc = "locked" => txn[e].row = runs[txn[e].run]
  /\ \A e, f \in Executor :
       /\ txn[e].pc = "locked" /\ txn[f].pc = "locked"
       /\ txn[e].run = txn[f].run
       => e = f

RowsSound == \A r \in Run : runs[r] \in RunRow => CountsOf(runs[r]) /\ Earned(runs[r])

LifecycleInv ==
  /\ LifecycleTypeOK
  /\ KnownRuns
  /\ LocksHold
  /\ RowsSound

LEMMA InitInv == LifecycleInit => LifecycleInv
BY DEF LifecycleInit, LifecycleInv, LifecycleTypeOK, KnownRuns, LocksHold, RowsSound,
       Keys, Txn, NoTxn, NoRow, RunRow

\* A request writes a run's row only while nobody holds the row's lock.
LEMMA RowWritten ==
  ASSUME LifecycleInv, NEW r \in Run, NEW row \in RunRow, CountsOf(row), Earned(row),
         ~Locked(r), runs' = [runs EXCEPT ![r] = row], UNCHANGED txn
  PROVE  /\ runs' \in [Run -> RunRow \union {NoRow}]
         /\ \A o \in Run : runs[o] \in RunRow => runs'[o] \in RunRow
         /\ LocksHold' /\ RowsSound'
<1>1. /\ runs' \in [Run -> RunRow \union {NoRow}]
      /\ \A o \in Run : runs'[o] = IF o = r THEN row ELSE runs[o]
  BY DEF LifecycleInv, LifecycleTypeOK
<1>2. RowsSound'
  BY <1>1 DEF LifecycleInv, RowsSound
<1>3. LocksHold'
  <2>1. ASSUME NEW e \in Executor, txn[e].pc = "locked" PROVE txn[e].row = runs'[txn[e].run]
    <3>1. txn[e].run \in Run /\ txn[e].run # r
      BY <2>1, TxnFields DEF LifecycleInv, Locked
    <3> QED
      BY <2>1, <3>1, <1>1 DEF LifecycleInv, LocksHold
  <2> QED
    BY <2>1 DEF LifecycleInv, LocksHold
<1> QED
  BY <1>1, <1>2, <1>3

LEMMA CreateStep ==
  ASSUME LifecycleInv, NEW s \in Server, NEW r \in Run, NEW ask \in Ask,
         NEW autoStart \in BOOLEAN, CreateRun(s, r, ask, autoStart)
  PROVE  LifecycleInv'
<1> DEFINE row == [status |-> "queued", phase |-> "goal", index |-> 0, optimized |-> 0,
        limits |-> [steps         |-> NormalizeLimit(ask.steps, 20, 1, 1000),
                    corrections   |-> NormalizeLimit(ask.corrections, 2, 0, 100),
                    optimizations |-> NormalizeLimit(ask.optimizations, 2, 0, 100)]]
<1>1. row \in RunRow
  BY CreatedRow
<1>2. CountsOf(row) /\ Earned(row)
  <2>1. /\ row.index = 0 /\ row.phase = "goal" /\ row.optimized = 0
        /\ row.limits \in Limits /\ row.status = "queued"
    BY <1>1 DEF RunRow
  <2> HIDE DEF row
  <2> QED
    BY <1>1, <2>1, TargetType, SMTT(40) DEF CountsOf, Earned, Limits
<1>3. runs[r] = NoRow /\ runs' = [runs EXCEPT ![r] = row] /\ UNCHANGED <<steps, queue, txn>>
  BY DEF CreateRun
<1> HIDE DEF row
<1>4. ~Locked(r)
  BY <1>3, StoredRun DEF Locked, LifecycleInv, KnownRuns
<1>5. /\ runs' \in [Run -> RunRow \union {NoRow}]
      /\ \A o \in Run : runs[o] \in RunRow => runs'[o] \in RunRow
      /\ LocksHold' /\ RowsSound'
  BY <1>1, <1>2, <1>3, <1>4, RowWritten
<1>6. /\ promised' \in [Server -> SUBSET Run] /\ driven' \subseteq Run
      /\ \A o \in Server : promised'[o] \subseteq promised[o] \union {r}
      /\ driven' \subseteq driven \union {r}
  <2>1. \/ promised' = [promised EXCEPT ![s] = @ \union {r}] /\ driven' = driven \union {r}
        \/ UNCHANGED <<promised, driven>>
    BY Zenon DEF CreateRun, Promise
  <2>2. promised \in [Server -> SUBSET Run] /\ driven \subseteq Run
    BY DEF LifecycleInv, LifecycleTypeOK
  <2> QED
    BY <2>1, <2>2
<1>7. LifecycleTypeOK'
  BY <1>3, <1>5, <1>6 DEF LifecycleInv, LifecycleTypeOK
<1>8. KnownRuns'
  <2>1. runs'[r] \in RunRow
    BY <1>1, <1>3 DEF LifecycleInv, LifecycleTypeOK
  <2>2. ASSUME NEW o \in Server, NEW x \in Keys(o)' \union promised'[o]
        PROVE  runs'[x] \in RunRow
    BY <1>3, <1>5, <1>6, <2>1 DEF LifecycleInv, LifecycleTypeOK, KnownRuns, Keys
  <2>3. ASSUME NEW e \in Executor, txn'[e].pc # "idle" PROVE runs'[txn'[e].run] \in RunRow
    BY <1>3, <1>5, <2>3, TxnFields DEF LifecycleInv, KnownRuns
  <2>4. ASSUME NEW x \in driven' PROVE runs'[x] \in RunRow
    BY <1>5, <1>6, <2>1 DEF LifecycleInv, KnownRuns
  <2> QED
    BY <2>2, <2>3, <2>4 DEF KnownRuns
<1> QED
  BY <1>5, <1>7, <1>8 DEF LifecycleInv

LEMMA CancelStep ==
  ASSUME LifecycleInv, NEW r \in Run, MarkRunCancelled(r)
  PROVE  LifecycleInv'
<1> DEFINE row == [runs[r] EXCEPT !.status = "cancelled"]
<1>1. runs[r] \in RunRow
  BY StoredRun DEF LifecycleInv, MarkRunCancelled
<1>2. /\ row \in RunRow /\ row.status = "cancelled"
      /\ row.phase = runs[r].phase /\ row.index = runs[r].index
      /\ row.optimized = runs[r].optimized /\ row.limits = runs[r].limits
  BY <1>1 DEF RunRow, Ended
<1>3. ~Locked(r) /\ runs' = [runs EXCEPT ![r] = row]
      /\ UNCHANGED <<steps, queue, promised, txn, driven>>
  BY DEF MarkRunCancelled
<1> HIDE DEF row
<1>4. CountsOf(row) /\ Earned(row)
  BY <1>1, <1>2 DEF CountsOf, Earned, LifecycleInv, RowsSound
<1>5. /\ runs' \in [Run -> RunRow \union {NoRow}]
      /\ \A o \in Run : runs[o] \in RunRow => runs'[o] \in RunRow
      /\ LocksHold' /\ RowsSound'
  BY <1>2, <1>3, <1>4, RowWritten
<1>6. LifecycleTypeOK'
  BY <1>3, <1>5 DEF LifecycleInv, LifecycleTypeOK
<1>7. KnownRuns'
  BY <1>3, <1>5, TxnFields DEF LifecycleInv, LifecycleTypeOK, KnownRuns, Keys
<1> QED
  BY <1>5, <1>6, <1>7 DEF LifecycleInv

LEMMA ResumeStep ==
  ASSUME LifecycleInv, NEW s \in Server, NEW r \in Run, ResumeRun(s, r)
  PROVE  LifecycleInv'
<1> DEFINE row == [runs[r] EXCEPT !.status = "queued"]
<1>1. runs[r] \in RunRow
  BY StoredRun DEF LifecycleInv, ResumeRun, Ended
<1>2. /\ row \in RunRow /\ row.status = "queued"
      /\ row.phase = runs[r].phase /\ row.index = runs[r].index
      /\ row.optimized = runs[r].optimized /\ row.limits = runs[r].limits
  BY <1>1 DEF RunRow, Active
<1>3. /\ ~Locked(r) /\ runs' = [runs EXCEPT ![r] = row]
      /\ UNCHANGED <<steps, queue, txn>>
      /\ promised' = [promised EXCEPT ![s] = @ \union {r}]
      /\ driven' = driven \union {r}
  BY DEF ResumeRun, Promise
<1> HIDE DEF row
<1>4. CountsOf(row) /\ Earned(row)
  BY <1>1, <1>2 DEF CountsOf, Earned, LifecycleInv, RowsSound
<1>5. /\ runs' \in [Run -> RunRow \union {NoRow}]
      /\ \A o \in Run : runs[o] \in RunRow => runs'[o] \in RunRow
      /\ LocksHold' /\ RowsSound'
  BY <1>2, <1>3, <1>4, RowWritten
<1>6. LifecycleTypeOK'
  BY <1>3, <1>5 DEF LifecycleInv, LifecycleTypeOK
<1>7. KnownRuns'
  <2>1. ASSUME NEW o \in Server, NEW x \in Keys(o)' \union promised'[o]
        PROVE  runs'[x] \in RunRow
    BY <1>1, <1>3, <1>5 DEF LifecycleInv, LifecycleTypeOK, KnownRuns, Keys
  <2>2. ASSUME NEW e \in Executor, txn'[e].pc # "idle" PROVE runs'[txn'[e].run] \in RunRow
    BY <1>3, <1>5, <2>2, TxnFields DEF LifecycleInv, KnownRuns
  <2>3. ASSUME NEW x \in driven' PROVE runs'[x] \in RunRow
    BY <1>1, <1>3, <1>5 DEF LifecycleInv, LifecycleTypeOK, KnownRuns
  <2> QED
    BY <2>1, <2>2, <2>3 DEF KnownRuns
<1> QED
  BY <1>5, <1>6, <1>7 DEF LifecycleInv

LEMMA EnqueueStep ==
  ASSUME LifecycleInv, NEW s \in Server, NEW r \in Run, Enqueue(s, r)
  PROVE  LifecycleInv'
<1>1. /\ r \in promised[s]
      /\ promised' = [promised EXCEPT ![s] = @ \ {r}]
      /\ queue' = [queue EXCEPT ![s] = AddKey(s, r)]
      /\ UNCHANGED <<runs, steps, txn, driven>>
  BY DEF Enqueue
<1>2. /\ QueueType'
      /\ \A o \in Server : Keys(o)' \subseteq IF o = s THEN Keys(s) \union {r} ELSE Keys(o)
  <2>1. r \in Run
    BY <1>1 DEF LifecycleInv, LifecycleTypeOK
  <2>2. /\ AddKey(s, r) \in Seq(Run) /\ Distinct(AddKey(s, r))
        /\ Elements(AddKey(s, r)) = Keys(s) \union {r}
    BY <2>1, AddedKey DEF LifecycleInv
  <2> QED
    BY <1>1, <2>2, QueueUpdate DEF LifecycleInv
<1>3. LifecycleTypeOK'
  BY <1>1, <1>2 DEF LifecycleInv, LifecycleTypeOK, QueueType, Distinct
<1>4. KnownRuns'
  BY <1>1, <1>2 DEF LifecycleInv, LifecycleTypeOK, KnownRuns
<1> QED
  BY <1>1, <1>3, <1>4 DEF LifecycleInv, LocksHold, RowsSound

LEMMA TakeStep ==
  ASSUME LifecycleInv, NEW s \in Server, TakeKey(s)
  PROVE  LifecycleInv'
<1> DEFINE r == Head(queue[s])
<1>1. /\ r \in Run /\ r \in Keys(s)
      /\ Tail(queue[s]) \in Seq(Run) /\ Distinct(Tail(queue[s]))
      /\ Elements(Tail(queue[s])) \subseteq Keys(s)
  <2>1. queue[s] \in Seq(Run) /\ queue[s] # <<>> /\ Distinct(queue[s])
    BY DEF TakeKey, LifecycleInv, LifecycleTypeOK, Distinct
  <2> QED
    BY <2>1, TailElements DEF Keys, Elements
<1>2. /\ txn' = [txn EXCEPT ![s] = [pc |-> "chosen", run |-> r, expected |-> NotGiven]]
      /\ queue' = [queue EXCEPT ![s] = Tail(queue[s])]
      /\ UNCHANGED <<runs, steps, promised, driven>>
  BY DEF TakeKey
<1> HIDE DEF r
<1>3. QueueType' /\ \A o \in Server : Keys(o)' \subseteq Keys(o)
  BY <1>1, <1>2, QueueUpdate DEF LifecycleInv
<1>4. [pc |-> "chosen", run |-> r, expected |-> NotGiven] \in Txn
  BY <1>1 DEF Txn
<1>5. LifecycleTypeOK'
  BY <1>2, <1>3, <1>4 DEF LifecycleInv, LifecycleTypeOK, QueueType, Distinct
<1>6. KnownRuns'
  BY <1>1, <1>2, <1>3 DEF LifecycleInv, LifecycleTypeOK, KnownRuns, Executor
<1>7. LocksHold'
  BY <1>2 DEF LifecycleInv, LifecycleTypeOK, LocksHold, Executor
<1> QED
  BY <1>2, <1>5, <1>6, <1>7 DEF LifecycleInv, RowsSound

LEMMA PostStep ==
  ASSUME LifecycleInv, NEW t \in Tick, NEW r \in Run,
         NEW expected \in ExpectedStep \union {NotGiven}, PostTick(t, r, expected)
  PROVE  LifecycleInv'
<1>1. /\ runs[r] \in RunRow
      /\ txn' = [txn EXCEPT ![t] = [pc |-> "chosen", run |-> r, expected |-> expected]]
      /\ UNCHANGED <<runs, steps, queue, promised, driven>>
  BY StoredRun DEF PostTick, LifecycleInv
<1>2. [pc |-> "chosen", run |-> r, expected |-> expected] \in Txn
  BY LifecycleAssumption DEF Txn
<1>3. LifecycleTypeOK'
  BY <1>1, <1>2 DEF LifecycleInv, LifecycleTypeOK
<1>4. KnownRuns'
  BY <1>1 DEF LifecycleInv, LifecycleTypeOK, KnownRuns, Keys, Executor
<1>5. LocksHold'
  BY <1>1 DEF LifecycleInv, LifecycleTypeOK, LocksHold, Executor
<1> QED
  BY <1>1, <1>3, <1>4, <1>5 DEF LifecycleInv, RowsSound

LEMMA LockStep ==
  ASSUME LifecycleInv, NEW e \in Executor, LockRun(e)
  PROVE  LifecycleInv'
<1> DEFINE r == txn[e].run
           locked == [pc |-> "locked", run |-> r, expected |-> txn[e].expected,
                      row |-> runs[r]]
<1>1. /\ r \in Run /\ runs[r] \in RunRow /\ ~Locked(r)
      /\ txn[e].expected \in Nat \union {NotGiven}
      /\ txn' = [txn EXCEPT ![e] = locked]
      /\ UNCHANGED <<runs, steps, queue, promised, driven>>
  BY TxnFields DEF LockRun, LifecycleInv, KnownRuns
<1>2. locked \in Txn /\ locked.pc = "locked" /\ locked.run = r /\ locked.row = runs[r]
  BY <1>1 DEF Txn
<1> HIDE DEF locked
<1>3. LifecycleTypeOK'
  BY <1>1, <1>2 DEF LifecycleInv, LifecycleTypeOK
<1>4. KnownRuns'
  BY <1>1, <1>2 DEF LifecycleInv, LifecycleTypeOK, KnownRuns, Keys
<1>5. LocksHold'
  BY <1>1, <1>2 DEF LifecycleInv, LifecycleTypeOK, LocksHold, Locked
<1> QED
  BY <1>1, <1>3, <1>4, <1>5 DEF LifecycleInv, RowsSound

\* The row a transaction holds is the run's row, and sound.
LEMMA HeldRow ==
  ASSUME LifecycleInv, NEW e \in Executor, txn[e].pc = "locked"
  PROVE  /\ txn[e].run \in Run
         /\ txn[e].row = runs[txn[e].run]
         /\ txn[e].row \in RunRow
         /\ CountsOf(txn[e].row) /\ Earned(txn[e].row)
BY TxnFields DEF LifecycleInv, LocksHold, RowsSound

LEMMA ExecuteStep ==
  ASSUME LifecycleInv, NEW e \in Executor, ExecuteNextStep(e)
  PROVE  LifecycleInv'
<1> DEFINE r == txn[e].run
           row == txn[e].row
           after == Executed(txn[e].expected, row)
           next == IF e \in Tick THEN NoTxn
                   ELSE [pc |-> "done", run |-> r, again |-> after.status \in Active]
<1>1. /\ txn[e].pc = "locked" /\ r \in Run
      /\ row = runs[r] /\ row \in RunRow /\ CountsOf(row) /\ Earned(row)
  BY HeldRow DEF ExecuteNextStep
<1>2. after \in RunRow /\ CountsOf(after) /\ Earned(after)
  BY <1>1, ExecutedRow
<1>3. /\ runs' = [runs EXCEPT ![r] = after]
      /\ txn' = [txn EXCEPT ![e] = next]
      /\ UNCHANGED <<queue, promised, driven>>
  BY DEF ExecuteNextStep
<1>4. next \in Txn /\ next.pc # "locked" /\ (next.pc # "idle" => next.run = r)
  BY <1>1 DEF Txn, NoTxn
<1>5. steps' \in [Run -> Seq(StepRow)]
  <2>1. [index |-> row.index, type |-> row.phase] \in StepRow
    BY <1>1 DEF StepRow, RunRow
  <2>2. \/ steps' = steps
        \/ steps' = [steps EXCEPT ![r] = Append(@, [index |-> row.index, type |-> row.phase])]
    BY DEF ExecuteNextStep
  <2> HIDE DEF row
  <2>3. Append(steps[r], [index |-> row.index, type |-> row.phase]) \in Seq(StepRow)
    BY <1>1, <2>1, AppendElements DEF LifecycleInv, LifecycleTypeOK
  <2> QED
    BY <1>1, <2>2, <2>3 DEF LifecycleInv, LifecycleTypeOK
<1> HIDE DEF after, next
<1>6. /\ runs' \in [Run -> RunRow \union {NoRow}]
      /\ \A o \in Run : runs'[o] = IF o = r THEN after ELSE runs[o]
      /\ \A o \in Run : runs[o] \in RunRow => runs'[o] \in RunRow
  BY <1>1, <1>2, <1>3 DEF LifecycleInv, LifecycleTypeOK
<1>7. LifecycleTypeOK'
  BY <1>3, <1>4, <1>5, <1>6 DEF LifecycleInv, LifecycleTypeOK
<1>8. KnownRuns'
  <2>1. ASSUME NEW o \in Server, NEW x \in Keys(o)' \union promised'[o]
        PROVE  runs'[x] \in RunRow
    BY <1>3, <1>6 DEF LifecycleInv, LifecycleTypeOK, KnownRuns, Keys
  <2>2. ASSUME NEW f \in Executor, txn'[f].pc # "idle" PROVE runs'[txn'[f].run] \in RunRow
    BY <1>1, <1>2, <1>3, <1>4, <1>6, <2>2, TxnFields
    DEF LifecycleInv, LifecycleTypeOK, KnownRuns
  <2>3. ASSUME NEW x \in driven' PROVE runs'[x] \in RunRow
    BY <1>3, <1>6 DEF LifecycleInv, LifecycleTypeOK, KnownRuns
  <2> QED
    BY <2>1, <2>2, <2>3 DEF KnownRuns
<1>9. LocksHold'
  <2>1. ASSUME NEW f \in Executor, txn'[f].pc = "locked"
        PROVE  f # e /\ txn'[f] = txn[f] /\ txn[f].run \in Run /\ txn[f].run # r
    BY <1>1, <1>3, <1>4, <2>1, TxnFields DEF LifecycleInv, LifecycleTypeOK, LocksHold
  <2> QED
    BY <1>6, <2>1 DEF LifecycleInv, LocksHold
<1>10. RowsSound'
  BY <1>2, <1>6 DEF LifecycleInv, RowsSound
<1> QED
  BY <1>7, <1>8, <1>9, <1>10 DEF LifecycleInv

LEMMA FinishStep ==
  ASSUME LifecycleInv, NEW s \in Server, FinishKey(s)
  PROVE  LifecycleInv'
<1> DEFINE r == txn[s].run
<1>1. /\ r \in Run /\ runs[r] \in RunRow
      /\ txn' = [txn EXCEPT ![s] = NoTxn]
      /\ UNCHANGED <<runs, steps, promised, driven>>
  BY TxnFields DEF FinishKey, LifecycleInv, KnownRuns, Executor
<1>2. queue' = queue \/ queue' = [queue EXCEPT ![s] = AddKey(s, r)]
  BY DEF FinishKey
<1>3. /\ QueueType'
      /\ \A o \in Server : Keys(o)' \subseteq IF o = s THEN Keys(s) \union {r} ELSE Keys(o)
  <2>1. CASE queue' = queue
    BY <2>1 DEF LifecycleInv, LifecycleTypeOK, QueueType, Distinct, Keys
  <2>2. CASE queue' = [queue EXCEPT ![s] = AddKey(s, r)]
    BY <1>1, <2>2, AddedKey, QueueUpdate, ZenonT(40) DEF LifecycleInv
  <2> QED
    BY <1>2, <2>1, <2>2
<1>4. LifecycleTypeOK'
  BY <1>1, <1>3 DEF LifecycleInv, LifecycleTypeOK, QueueType, Distinct, Txn
<1>5. KnownRuns'
  BY <1>1, <1>3 DEF LifecycleInv, LifecycleTypeOK, KnownRuns, Executor, NoTxn
<1>6. LocksHold'
  BY <1>1 DEF LifecycleInv, LifecycleTypeOK, LocksHold, Executor, NoTxn
<1> QED
  BY <1>1, <1>4, <1>5, <1>6 DEF LifecycleInv, RowsSound

LEMMA FailStep ==
  ASSUME LifecycleInv, NEW t \in Tick, TickFails(t)
  PROVE  LifecycleInv'
<1>1. /\ txn' = [txn EXCEPT ![t] = NoTxn]
      /\ UNCHANGED <<runs, steps, queue, promised, driven>>
  BY DEF TickFails
<1>2. LifecycleTypeOK'
  BY <1>1 DEF LifecycleInv, LifecycleTypeOK, Txn
<1>3. KnownRuns'
  BY <1>1 DEF LifecycleInv, LifecycleTypeOK, KnownRuns, Keys, NoTxn
<1>4. LocksHold'
  BY <1>1 DEF LifecycleInv, LifecycleTypeOK, LocksHold, NoTxn
<1> QED
  BY <1>1, <1>2, <1>3, <1>4 DEF LifecycleInv, RowsSound

LEMMA StopStep ==
  ASSUME LifecycleInv, NEW s \in Server, ServerStops(s)
  PROVE  LifecycleInv'
<1>1. /\ queue' = [queue EXCEPT ![s] = <<>>]
      /\ promised' = [promised EXCEPT ![s] = {}]
      /\ txn' = [txn EXCEPT ![s] = NoTxn]
      /\ driven' \subseteq driven
      /\ UNCHANGED <<runs, steps>>
  BY DEF ServerStops
<1>2. /\ QueueType'
      /\ \A o \in Server : Keys(o)' \subseteq Keys(o)
  <2>1. <<>> \in Seq(Run) /\ Distinct(<<>>)
    BY DEF Distinct
  <2>2. QueueType'
    BY <1>1, <2>1, QueueUpdate DEF LifecycleInv
  <2> QED
    BY <1>1, <2>2 DEF LifecycleInv, LifecycleTypeOK, Keys
<1>3. LifecycleTypeOK'
  BY <1>1, <1>2 DEF LifecycleInv, LifecycleTypeOK, QueueType, Distinct, Txn
<1>4. KnownRuns'
  BY <1>1, <1>2 DEF LifecycleInv, LifecycleTypeOK, KnownRuns, NoTxn
<1>5. LocksHold'
  BY <1>1 DEF LifecycleInv, LifecycleTypeOK, LocksHold, NoTxn
<1> QED
  BY <1>1, <1>3, <1>4, <1>5 DEF LifecycleInv, RowsSound

LEMMA InvStep == LifecycleInv /\ [LifecycleNext]_lifecycleVars => LifecycleInv'
<1> SUFFICES ASSUME LifecycleInv, [LifecycleNext]_lifecycleVars PROVE LifecycleInv'
  OBVIOUS
<1>1. CASE UNCHANGED lifecycleVars
  BY <1>1 DEF lifecycleVars, LifecycleInv, LifecycleTypeOK, KnownRuns, LocksHold,
              RowsSound, Keys
<1> QED
  BY <1>1, CreateStep, CancelStep, ResumeStep, EnqueueStep, TakeStep, PostStep,
     LockStep, ExecuteStep, FinishStep, FailStep, StopStep
  DEF LifecycleNext

\* The inductive invariant holds of every behavior.
THEOREM LifecycleInvariant == LifecycleSpec => []LifecycleInv
BY InitInv, InvStep, PTL DEF LifecycleSpec

\* Every variable keeps its type, and no key is twice in a queue.
THEOREM LifecycleTypeCorrect == LifecycleSpec => []LifecycleTypeOK
<1>1. LifecycleInv => LifecycleTypeOK
  BY DEF LifecycleInv
<1> QED
  BY <1>1, LifecycleInvariant, PTL

-----------------------------------------------------------------------------
(* What a step does to one run *)

Keeps(r) == runs'[r] = runs[r] /\ steps'[r] = steps[r]

Creates(r) == /\ runs[r] = NoRow
              /\ runs'[r] \in RunRow /\ runs'[r].index = 0
              /\ steps'[r] = steps[r]

Cancels(r) == /\ runs[r] \in RunRow /\ runs[r].status \in Active
              /\ runs'[r] = [runs[r] EXCEPT !.status = "cancelled"]
              /\ steps'[r] = steps[r]

Resumes(r) == /\ runs[r] \in RunRow /\ runs[r].status \in {"cancelled", "failed"}
              /\ runs'[r] = [runs[r] EXCEPT !.status = "queued"]
              /\ steps'[r] = steps[r]

Executes(r, expected) ==
  /\ runs[r] \in RunRow
  /\ runs'[r] = Executed(expected, runs[r])
  /\ steps'[r] = IF TakesStep(expected, runs[r])
                 THEN Append(steps[r], [index |-> runs[r].index, type |-> runs[r].phase])
                 ELSE steps[r]

\* The row and the records of a run change together, in one of five ways.
LEMMA RunStep ==
  ASSUME LifecycleInv, [LifecycleNext]_lifecycleVars, NEW r \in Run
  PROVE  \/ Keeps(r) \/ Creates(r) \/ Cancels(r) \/ Resumes(r)
         \/ \E expected : Executes(r, expected)
<1> USE DEF LifecycleInv
<1>f. /\ runs \in [Run -> RunRow \union {NoRow}]
      /\ steps \in [Run -> Seq(StepRow)]
  BY DEF LifecycleTypeOK
<1>1. ASSUME NEW s \in Server, NEW o \in Run, NEW ask \in Ask, NEW autoStart \in BOOLEAN,
             CreateRun(s, o, ask, autoStart)
      PROVE  Keeps(r) \/ Creates(r)
  <2> DEFINE row == [status |-> "queued", phase |-> "goal", index |-> 0, optimized |-> 0,
        limits |-> [steps         |-> NormalizeLimit(ask.steps, 20, 1, 1000),
                    corrections   |-> NormalizeLimit(ask.corrections, 2, 0, 100),
                    optimizations |-> NormalizeLimit(ask.optimizations, 2, 0, 100)]]
  <2>1. row \in RunRow /\ row.index = 0
    BY CreatedRow
  <2>2. runs[o] = NoRow /\ runs' = [runs EXCEPT ![o] = row] /\ steps' = steps
    BY <1>1 DEF CreateRun
  <2> HIDE DEF row
  <2> QED
    BY <1>f, <2>1, <2>2 DEF Keeps, Creates
<1>2. ASSUME NEW o \in Run, MarkRunCancelled(o) PROVE Keeps(r) \/ Cancels(r)
  BY <1>2, <1>f, StoredRun DEF MarkRunCancelled, Keeps, Cancels
<1>3. ASSUME NEW s \in Server, NEW o \in Run, ResumeRun(s, o) PROVE Keeps(r) \/ Resumes(r)
  BY <1>3, <1>f, StoredRun DEF ResumeRun, Keeps, Resumes, Ended
<1>4. ASSUME NEW e \in Executor, ExecuteNextStep(e)
      PROVE  Keeps(r) \/ \E expected : Executes(r, expected)
  <2> DEFINE o == txn[e].run
             row == txn[e].row
             expected == txn[e].expected
  <2>1. o \in Run /\ row = runs[o] /\ row \in RunRow
    BY <1>4, HeldRow DEF ExecuteNextStep
  <2>2. /\ runs' = [runs EXCEPT ![o] = Executed(expected, row)]
        /\ steps' = IF TakesStep(expected, row)
                    THEN [steps EXCEPT ![o] = Append(@, [index |-> row.index,
                                                        type |-> row.phase])]
                    ELSE steps
    BY <1>4 DEF ExecuteNextStep
  <2> HIDE DEF o, row, expected
  <2>3. CASE r = o
    <3>1. Executes(r, expected)
      BY <1>f, <2>1, <2>2, <2>3 DEF Executes
    <3> QED
      BY <3>1
  <2>4. CASE r # o
    BY <1>f, <2>1, <2>2, <2>4 DEF Keeps
  <2> QED
    BY <2>3, <2>4
<1>5. ASSUME UNCHANGED <<runs, steps>> PROVE Keeps(r)
  BY <1>5 DEF Keeps
<1> QED
  BY <1>1, <1>2, <1>3, <1>4, <1>5
  DEF LifecycleNext, lifecycleVars, Enqueue, TakeKey, FinishKey, ServerStops,
      LockRun, PostTick, TickFails

-----------------------------------------------------------------------------
(* The records, the outcomes and the ends of runs *)

\* RecordsMatchRun, of one run, without the counts of the row.
RecordsOf(r) ==
  /\ Len(steps[r]) = runs[r].index
  /\ \A i \in DOMAIN steps[r] :
       steps[r][i] = [index |-> i - 1,
                      type |-> IF i <= NormalizeGoalStepsTarget(runs[r].limits)
                               THEN "goal" ELSE "optimization"]

RecordsInv ==
  \A r \in Run : /\ runs[r] = NoRow => steps[r] = <<>>
                 /\ runs[r] \in RunRow => RecordsOf(r)

LEMMA RecordsStep ==
  LifecycleInv /\ RecordsInv /\ [LifecycleNext]_lifecycleVars => RecordsInv'
<1> SUFFICES ASSUME LifecycleInv, RecordsInv, [LifecycleNext]_lifecycleVars, NEW r \in Run
             PROVE  /\ runs'[r] = NoRow => steps'[r] = <<>>
                    /\ runs'[r] \in RunRow => RecordsOf(r)'
  BY DEF RecordsInv
<1>r. runs[r] \in RunRow \union {NoRow} /\ steps[r] \in Seq(StepRow)
  BY DEF LifecycleInv, LifecycleTypeOK
<1>n. \A row \in RunRow : row # NoRow
  BY NoRowIsNoRun
<1>1. CASE Keeps(r)
  BY <1>1 DEF Keeps, RecordsInv, RecordsOf
<1>2. CASE Creates(r)
  BY <1>2, <1>n DEF Creates, RecordsInv, RecordsOf
<1>3. CASE Cancels(r) \/ Resumes(r)
  <2>1. /\ runs[r] \in RunRow /\ steps'[r] = steps[r]
        /\ runs'[r] \in RunRow
        /\ runs'[r].index = runs[r].index /\ runs'[r].limits = runs[r].limits
    BY <1>3 DEF Cancels, Resumes, RunRow, Active, Ended
  <2> QED
    BY <2>1, <1>n DEF RecordsInv, RecordsOf
<1>4. ASSUME NEW expected, Executes(r, expected)
      PROVE  runs'[r] # NoRow /\ RecordsOf(r)'
  <2> DEFINE row == runs[r]
             target == NormalizeGoalStepsTarget(row.limits)
  <2>1. /\ row \in RunRow /\ CountsOf(row) /\ Earned(row) /\ RecordsOf(r)
        /\ runs'[r] = Executed(expected, row)
    BY <1>4 DEF Executes, LifecycleInv, RowsSound, RecordsInv
  <2>2. runs'[r] \in RunRow /\ runs'[r].limits = row.limits
    BY <2>1, ExecutedRow
  <2>3. CASE TakesStep(expected, row)
    <3>1. /\ runs'[r].index = row.index + 1
          /\ row.phase = IF row.index + 1 <= target THEN "goal" ELSE "optimization"
      BY <2>1, <2>3, ExecutedIndex
    <3>2. /\ steps'[r] = Append(steps[r], [index |-> row.index, type |-> row.phase])
          /\ Len(steps[r]) = row.index
      BY <1>4, <2>1, <2>3 DEF Executes, RecordsOf
    <3>3. row.index \in Nat
      BY <2>1 DEF RunRow
    <3>4. /\ Len(steps'[r]) = row.index + 1 /\ DOMAIN steps'[r] = 1..(row.index + 1)
          /\ DOMAIN steps[r] = 1..row.index
          /\ \A i \in 1..row.index : steps'[r][i] = steps[r][i]
          /\ steps'[r][row.index + 1] = [index |-> row.index, type |-> row.phase]
      BY <1>r, <3>2, <3>3
    <3> HIDE DEF row, target
    <3>5. ASSUME NEW i \in 1..(row.index + 1)
          PROVE  steps'[r][i] = [index |-> i - 1,
                                 type |-> IF i <= target THEN "goal" ELSE "optimization"]
      <4>1. CASE i \in 1..row.index
        BY <2>1, <3>4, <4>1 DEF RecordsOf, row, target
      <4>2. CASE i = row.index + 1
        <5>1. i - 1 = row.index
          BY <3>3, <4>2
        <5> QED
          BY <3>1, <3>4, <4>2, <5>1
      <4> QED
        BY <3>3, <4>1, <4>2
    <3> QED
      BY <2>2, <3>1, <3>4, <3>5, <1>n DEF RecordsOf, row, target
  <2>4. CASE ~TakesStep(expected, row)
    <3>1. runs'[r].index = row.index /\ steps'[r] = steps[r]
      BY <1>4, <2>1, <2>4, ExecutedIndex DEF Executes
    <3> QED
      BY <2>1, <2>2, <3>1, <1>n DEF RecordsOf
  <2> QED
    BY <2>3, <2>4
<1> QED
  BY <1>1, <1>2, <1>3, <1>4, RunStep

\* Run rows and step rows tell the same story, for any number of concurrent
\* ticks, drains, cancellations, resumes and stops.
THEOREM RecordsAlwaysMatch == LifecycleSpec => []RecordsMatchRun
<1>1. LifecycleInit => RecordsInv
  BY NoRowIsNoRun DEF LifecycleInit, RecordsInv
<1>2. LifecycleInv /\ RecordsInv => RecordsMatchRun
  BY StoredRun DEF RecordsInv, RecordsOf, RecordsMatchRun, LifecycleInv, RowsSound
<1> QED
  BY <1>1, <1>2, RecordsStep, LifecycleInvariant, PTL DEF LifecycleSpec

\* A run is complete or failed only for the reason the code gives.
THEOREM OutcomesAreEarned == LifecycleSpec => []OutcomeIsEarned
<1>1. LifecycleInv => OutcomeIsEarned
  BY StoredRun DEF LifecycleInv, RowsSound, Earned, OutcomeIsEarned, Ended
<1> QED
  BY <1>1, LifecycleInvariant, PTL

\* Types, records and outcomes together, as the run checks them.
THEOREM RunsAlwaysAccounted == LifecycleSpec => []RunsAreAccounted
BY LifecycleTypeCorrect, RecordsAlwaysMatch, OutcomesAreEarned, PTL DEF RunsAreAccounted

\* A run that ended rests until it is resumed, and a complete run for good.
THEOREM EndedRunsRest == LifecycleSpec => EndedRunRests
<1> DEFINE Rests ==
      \A r \in Run : runs[r].status \in Ended =>
        /\ steps'[r] = steps[r]
        /\ \/ runs'[r] = runs[r]
           \/ /\ runs[r].status # "complete"
              /\ runs'[r] = [runs[r] EXCEPT !.status = "queued"]
<1>1. LifecycleInv /\ [LifecycleNext]_lifecycleVars => Rests
  <2> SUFFICES ASSUME LifecycleInv, [LifecycleNext]_lifecycleVars, NEW r \in Run,
                      runs[r].status \in Ended
               PROVE  /\ steps'[r] = steps[r]
                      /\ \/ runs'[r] = runs[r]
                         \/ /\ runs[r].status # "complete"
                            /\ runs'[r] = [runs[r] EXCEPT !.status = "queued"]
    OBVIOUS
  <2>1. runs[r] \in RunRow
    BY StoredRun DEF LifecycleInv
  <2>2. ~Creates(r) /\ ~Cancels(r)
    BY <2>1 DEF Creates, Cancels, NoRow, RunRow, Active, Ended
  <2>3. ASSUME NEW expected, Executes(r, expected) PROVE Keeps(r)
    BY <2>1, <2>3, ExecutedEnded DEF Executes, Keeps
  <2> QED
    BY <2>2, <2>3, RunStep DEF Keeps, Resumes
<1> QED
  BY <1>1, LifecycleInvariant, PTL DEF LifecycleSpec, EndedRunRests

-----------------------------------------------------------------------------
(* No wakeup is lost *)

ScheduleInv == LifecycleInv /\ DrivenRunIsScheduled

\* What a server has scheduled stays, if its queue, its promises and its hand do.
LEMMA StaysScheduled ==
  ASSUME NEW s \in Server, NEW r \in Run, ScheduledAt(s, r),
         Keys(s) \subseteq Keys(s)', promised[s] \subseteq promised'[s], txn'[s] = txn[s]
  PROVE  ScheduledAt(s, r)'
BY DEF ScheduledAt

LEMMA ScheduleStep == ScheduleInv /\ [LifecycleNext]_lifecycleVars => DrivenRunIsScheduled'
<1> SUFFICES ASSUME ScheduleInv, [LifecycleNext]_lifecycleVars,
                    NEW r \in driven', runs'[r].status \in Active
             PROVE  Scheduled(r)'
  BY DEF DrivenRunIsScheduled
<1>i. LifecycleInv /\ LifecycleInv'
  BY InvStep DEF ScheduleInv
<1>r. r \in Run
  BY <1>i DEF LifecycleInv, LifecycleTypeOK
<1>t. /\ promised \in [Server -> SUBSET Run]
      /\ DOMAIN txn = Executor /\ Server \subseteq Executor /\ Server \intersect Tick = {}
  BY <1>i, LifecycleAssumption DEF LifecycleInv, LifecycleTypeOK, Executor
<1> DEFINE Same(s) == /\ Keys(s) \subseteq Keys(s)'
                      /\ promised[s] \subseteq promised'[s]
                      /\ txn'[s] = txn[s]
\* A run that was scheduled before, at a server the step leaves alone.
<1>s. ASSUME NEW s \in Server, ScheduledAt(s, r), Same(s) PROVE Scheduled(r)'
  BY <1>r, <1>s, StaysScheduled DEF Scheduled
\* A run that was driven and active before the step was scheduled.
<1>d. r \in driven /\ runs[r].status \in Active => \E s \in Server : ScheduledAt(s, r)
  BY DEF ScheduleInv, DrivenRunIsScheduled, Scheduled
<1>1. ASSUME NEW s \in Server, NEW o \in Run, NEW ask \in Ask, NEW autoStart \in BOOLEAN,
             CreateRun(s, o, ask, autoStart)
      PROVE  Scheduled(r)'
  <2>1. /\ UNCHANGED <<queue, txn>>
        /\ \/ promised' = [promised EXCEPT ![s] = @ \union {o}] /\ driven' = driven \union {o}
           \/ UNCHANGED <<promised, driven>>
        /\ runs[o] = NoRow
    BY <1>1, Zenon DEF CreateRun, Promise
  <2>2. \A x \in Server : Same(x)
    BY <1>t, <2>1 DEF Keys
  <2>3. CASE r \in driven
    <3>1. r # o
      BY <1>i, <2>1, <2>3, NoRowIsNoRun DEF LifecycleInv, KnownRuns
    <3>2. runs'[r] = runs[r]
      BY <1>1, <1>i, <1>r, <3>1 DEF CreateRun, LifecycleInv, LifecycleTypeOK
    <3> QED
      BY <1>d, <1>s, <2>2, <2>3, <3>2
  <2>4. CASE r \notin driven
    BY <1>t, <2>1, <2>4 DEF Scheduled, ScheduledAt
  <2> QED
    BY <2>3, <2>4
<1>2. ASSUME NEW s \in Server, NEW o \in Run, ResumeRun(s, o) PROVE Scheduled(r)'
  <2>1. /\ UNCHANGED <<queue, txn>>
        /\ promised' = [promised EXCEPT ![s] = @ \union {o}]
        /\ driven' = driven \union {o}
        /\ runs' = [runs EXCEPT ![o].status = "queued"]
    BY <1>2 DEF ResumeRun, Promise
  <2>2. \A x \in Server : Same(x)
    BY <1>t, <2>1 DEF Keys
  <2>3. CASE r = o
    BY <1>t, <2>1, <2>3 DEF Scheduled, ScheduledAt
  <2>4. CASE r # o
    <3>1. r \in driven /\ runs'[r] = runs[r]
      BY <1>i, <1>r, <2>1, <2>4 DEF LifecycleInv, LifecycleTypeOK
    <3> QED
      BY <1>d, <1>s, <2>2, <3>1
  <2> QED
    BY <2>3, <2>4
\* In the other steps nothing is created or resumed.
<1>3. ASSUME UNCHANGED runs \/ (\E o \in Run : MarkRunCancelled(o))
                \/ (\E e \in Executor : ExecuteNextStep(e)),
             driven' \subseteq driven
      PROVE  \E s \in Server : ScheduledAt(s, r)
  <2>1. runs[r].status \in Active
    <3>1. CASE UNCHANGED runs
      BY <3>1
    <3>2. ASSUME NEW o \in Run, MarkRunCancelled(o) PROVE runs[r].status \in Active
      BY <1>i, <1>r, <3>2 DEF MarkRunCancelled, LifecycleInv, LifecycleTypeOK
    <3>3. ASSUME NEW e \in Executor, ExecuteNextStep(e) PROVE runs[r].status \in Active
      <4>1. /\ txn[e].run \in Run /\ txn[e].row = runs[txn[e].run]
            /\ runs[txn[e].run] \in RunRow
            /\ runs' = [runs EXCEPT ![txn[e].run] = Executed(txn[e].expected, txn[e].row)]
        BY <1>i, <3>3, HeldRow DEF ExecuteNextStep
      <4>2. CASE r # txn[e].run
        BY <1>i, <1>r, <4>1, <4>2 DEF LifecycleInv, LifecycleTypeOK
      <4>3. CASE r = txn[e].run
        <5>1. runs'[r] = Executed(txn[e].expected, runs[r]) /\ runs[r] \in RunRow
          BY <1>i, <4>1, <4>3 DEF LifecycleInv, LifecycleTypeOK
        <5>2. runs[r].status \notin Ended
          BY <5>1, ExecutedEnded DEF Active, Ended
        <5> QED
          BY <5>1, <5>2 DEF RunRow
      <4> QED
        BY <4>2, <4>3
    <3> QED
      BY <1>3, <3>1, <3>2, <3>3
  <2> QED
    BY <1>d, <1>3, <2>1
<1>4. ASSUME NEW o \in Run, MarkRunCancelled(o) PROVE Scheduled(r)'
  <2>1. \A x \in Server : Same(x)
    BY <1>4 DEF MarkRunCancelled, Keys
  <2> QED
    BY <1>3, <1>4, <1>s, <2>1 DEF MarkRunCancelled
<1>5. ASSUME NEW s \in Server, NEW o \in Run, Enqueue(s, o) PROVE Scheduled(r)'
  <2>1. /\ queue' = [queue EXCEPT ![s] = AddKey(s, o)]
        /\ promised' = [promised EXCEPT ![s] = @ \ {o}]
        /\ UNCHANGED <<runs, txn, driven>> /\ o \in promised[s]
    BY <1>5 DEF Enqueue
  <2>2. /\ AddKey(s, o) \in Seq(Run) /\ Distinct(AddKey(s, o))
        /\ Elements(AddKey(s, o)) = Keys(s) \union {o}
    BY <1>i, AddedKey DEF LifecycleInv
  <2>3. \A x \in Server : Keys(x)' = IF x = s THEN Keys(s) \union {o} ELSE Keys(x)
    BY <1>i, <2>1, <2>2, QueueUpdate DEF LifecycleInv
  <2>4. PICK x \in Server : ScheduledAt(x, r)
    BY <1>3, <2>1
  <2>5. ScheduledAt(x, r)'
    BY <1>t, <2>1, <2>3, <2>4 DEF ScheduledAt
  <2> QED
    BY <2>5 DEF Scheduled
<1>6. ASSUME NEW s \in Server, TakeKey(s) PROVE Scheduled(r)'
  <2>1. /\ queue' = [queue EXCEPT ![s] = Tail(queue[s])]
        /\ txn' = [txn EXCEPT ![s] = [pc |-> "chosen", run |-> Head(queue[s]),
                                      expected |-> NotGiven]]
        /\ queue[s] # <<>> /\ txn[s] = NoTxn
        /\ UNCHANGED <<runs, promised, driven>>
    BY <1>6 DEF TakeKey
  <2>2. queue[s] \in Seq(Run) /\ Distinct(queue[s]) /\ Elements(queue[s]) = Keys(s)
    BY <1>i DEF LifecycleInv, LifecycleTypeOK, Distinct, Keys, Elements
  <2>3. /\ Keys(s) = Elements(Tail(queue[s])) \union {Head(queue[s])}
        /\ Tail(queue[s]) \in Seq(Run) /\ Distinct(Tail(queue[s]))
    BY <2>1, <2>2, TailElements
  <2>4. \A x \in Server : Keys(x)' = IF x = s THEN Elements(Tail(queue[s])) ELSE Keys(x)
    BY <1>i, <2>1, <2>3, QueueUpdate DEF LifecycleInv
  <2>5. PICK x \in Server : ScheduledAt(x, r)
    BY <1>3, <2>1
  <2>6. ScheduledAt(x, r)'
    BY <1>r, <1>t, <2>1, <2>3, <2>4, <2>5, LifecycleAssumption DEF ScheduledAt, NoTxn
  <2> QED
    BY <2>6 DEF Scheduled
<1>7. ASSUME NEW t \in Tick, TickFails(t) \/ \E o \in Run, x \in ExpectedStep \union {NotGiven} :
                                              PostTick(t, o, x)
      PROVE  Scheduled(r)'
  <2>1. UNCHANGED <<runs, queue, promised, driven>> /\ \A x \in Server : txn'[x] = txn[x]
    BY <1>t, <1>7 DEF TickFails, PostTick
  <2>2. \A x \in Server : Same(x)
    BY <2>1 DEF Keys
  <2> QED
    BY <1>3, <1>s, <2>1, <2>2
<1>8. ASSUME NEW e \in Executor, LockRun(e) PROVE Scheduled(r)'
  <2>1. /\ UNCHANGED <<runs, queue, promised, driven>>
        /\ txn[e].pc = "chosen" /\ txn'[e].pc = "locked" /\ txn'[e].run = txn[e].run
        /\ \A x \in Server : x # e => txn'[x] = txn[x]
    BY <1>t, <1>8 DEF LockRun
  <2>2. PICK x \in Server : ScheduledAt(x, r)
    BY <1>3, <2>1
  <2>3. ScheduledAt(x, r)'
    BY <2>1, <2>2 DEF ScheduledAt, Keys
  <2> QED
    BY <2>3 DEF Scheduled
<1>9. ASSUME NEW e \in Executor, ExecuteNextStep(e) PROVE Scheduled(r)'
  <2>1. /\ UNCHANGED <<queue, promised, driven>>
        /\ \A x \in Server : x # e => txn'[x] = txn[x]
    BY <1>t, <1>9 DEF ExecuteNextStep
  <2>2. PICK x \in Server : ScheduledAt(x, r)
    BY <1>3, <1>9, <2>1
  <2>3. CASE x # e
    BY <1>s, <2>1, <2>2, <2>3 DEF Keys
  <2>4. CASE x = e /\ r \in Keys(x) \union promised[x]
    <3>1. r \in Keys(x)' \union promised'[x]
      BY <2>1, <2>4 DEF Keys
    <3> QED
      BY <3>1 DEF Scheduled, ScheduledAt
  <2>5. CASE x = e /\ txn[x].run = r
    <3> DEFINE after == Executed(txn[e].expected, txn[e].row)
    <3>1. /\ runs' = [runs EXCEPT ![r] = after]
          /\ txn' = [txn EXCEPT ![e] = IF e \in Tick THEN NoTxn
               ELSE [pc |-> "done", run |-> r, again |-> after.status \in Active]]
      BY <1>9, <2>5 DEF ExecuteNextStep
    <3> HIDE DEF after
    <3>2. e \notin Tick /\ runs'[r] = after
      BY <1>i, <1>r, <1>t, <2>5, <3>1 DEF LifecycleInv, LifecycleTypeOK
    <3>3. txn'[x].run = r /\ txn'[x].again
      BY <1>t, <2>5, <3>1, <3>2
    <3> QED
      BY <3>3 DEF Scheduled, ScheduledAt
  <2> QED
    BY <2>2, <2>3, <2>4, <2>5 DEF ScheduledAt
<1>10. ASSUME NEW s \in Server, FinishKey(s) PROVE Scheduled(r)'
  <2>1. /\ txn[s].pc = "done" /\ txn' = [txn EXCEPT ![s] = NoTxn]
        /\ queue' = IF txn[s].again THEN [queue EXCEPT ![s] = AddKey(s, txn[s].run)]
                    ELSE queue
        /\ UNCHANGED <<runs, promised, driven>>
    BY <1>10 DEF FinishKey
  <2>2. txn[s].run \in Run
    BY <1>i, <1>t, <2>1, TxnFields DEF LifecycleInv
  <2>3. /\ \A x \in Server : Keys(x) \subseteq Keys(x)'
        /\ txn[s].again => txn[s].run \in Keys(s)'
    <3>1. CASE txn[s].again
      <4>1. /\ AddKey(s, txn[s].run) \in Seq(Run) /\ Distinct(AddKey(s, txn[s].run))
            /\ Elements(AddKey(s, txn[s].run)) = Keys(s) \union {txn[s].run}
        BY <1>i, <2>2, AddedKey DEF LifecycleInv
      <4>2. queue' = [queue EXCEPT ![s] = AddKey(s, txn[s].run)]
        BY <2>1, <3>1, Zenon
      <4> QED
        BY <1>i, <4>1, <4>2, QueueUpdate DEF LifecycleInv
    <3>2. CASE ~txn[s].again
      <4>1. queue' = queue
        BY <2>1, <3>2, Zenon
      <4> QED
        BY <3>2, <4>1 DEF Keys
    <3> QED
      BY <3>1, <3>2
  <2>4. PICK x \in Server : ScheduledAt(x, r)
    BY <1>3, <2>1
  <2>5. r \in Keys(x)' \union promised'[x] \/ (x # s /\ txn'[x] = txn[x])
    BY <1>t, <2>1, <2>3, <2>4 DEF ScheduledAt
  <2>6. ScheduledAt(x, r)'
    BY <2>4, <2>5, <2>3, <2>1 DEF ScheduledAt
  <2> QED
    BY <2>6 DEF Scheduled
<1>11. ASSUME NEW s \in Server, ServerStops(s) PROVE Scheduled(r)'
  <2>1. PICK x \in Server \ {s} : ScheduledAt(x, r)
    BY <1>11 DEF ServerStops
  <2>2. Same(x)
    BY <1>i, <1>11, <2>1 DEF ServerStops, LifecycleInv, LifecycleTypeOK, Keys
  <2> QED
    BY <1>s, <2>1, <2>2
<1>12. CASE UNCHANGED lifecycleVars
  BY <1>3, <1>12, <1>s DEF lifecycleVars, Keys
<1> QED
  BY <1>1, <1>2, <1>4, <1>5, <1>6, <1>7, <1>8, <1>9, <1>10, <1>11, <1>12 DEF LifecycleNext

\* No interleaving of requests, ticks and drains loses a run that somebody
\* started or resumed.
THEOREM DrivenRunsStayScheduled == LifecycleSpec => []DrivenRunIsScheduled
<1>1. LifecycleInit => DrivenRunIsScheduled
  BY DEF LifecycleInit, DrivenRunIsScheduled
<1>2. LifecycleInv /\ DrivenRunIsScheduled => ScheduleInv
  BY DEF ScheduleInv
<1> QED
  BY <1>1, <1>2, ScheduleStep, LifecycleInvariant, PTL DEF LifecycleSpec

-----------------------------------------------------------------------------
(* The checks of projects *)

\* Where a check may stand: the npm commands of a heavy validation, and all of it,
NpmPoints == {"install", "generate", "migration", "seed", "typecheck", "build", "tests", "rebuild"}
HeavyPoints == {"add", "light", "config", "package", "free port", "boot", "remove"} \cup NpmPoints
\* the Docker part of the readiness check up to the probe of its container, and all of
\* it with the search for stubs that comes before,
Unprobed == {"scan", "docker version", "docker add", "dockerfile", "docker build", "docker port",
             "docker run", "docker probe"}
ReadinessPoints == Unprobed \cup {"docker logs", "docker stop", "docker rmi", "docker remove", "verdict"}
\* and the preview up to the probe, and all of it.
Unseen == {"preview port", "preview file", "preview build", "preview run", "preview probe"}
PreviewPoints == Unseen \cup {"docker logs", "preview rm", "preview rmi", "verdict"}
\* Where it may have its worktree, a container, an image.
TreePoints == {"light", "config", "package", "free port", "boot", "remove"} \cup NpmPoints
              \cup {"dockerfile", "docker build", "docker port", "docker run", "docker probe",
                    "docker logs", "docker stop", "docker rmi", "docker remove"}
ContainerPoints == {"docker probe", "docker logs", "docker stop", "preview probe", "preview rm"}
ImagePoints == ContainerPoints \cup {"docker port", "docker run", "docker rmi", "preview run", "preview rmi"}
\* The heavy validation up to the migration, up to the seed, up to the boot.
ToMigration == {"add", "light", "config", "package", "install", "generate", "migration"}
ToSeed == ToMigration \cup {"seed"}
ToBoot == HeavyPoints \ {"remove"}

\* Every place: Points, without the operators it is put together with.
AllPoints == HeavyPoints \cup ReadinessPoints \cup PreviewPoints \cup {"idle", "ended"}

\* What ValidationTypeOK says, row by row.
CheckRows ==
    [kind : {"none", "heavy", "readiness", "preview"}, project : Projects, at : AllPoints,
     blocking : Nat, failed : SUBSET (AllPoints \cup {"stubs", "docker"}), thrown : BOOLEAN,
     verdict : {"none", "ok", "bad", "thrown", "lost"}]

CheckTypes ==
    /\ check \in [Checks -> CheckRows]
    /\ command \in [Checks -> {"none", "ok", "fail", "slow", "deaf"}]
    /\ worktree \in [Checks -> BOOLEAN] /\ port \in [Checks -> Ports \cup {0}]
    /\ app \in [Checks -> {"none", "starting", "up", "exited", "dying"}]
    /\ box \in [Checks -> {"none", "up", "exited"}] /\ image \subseteq Checks
    /\ mishaps \in 0..MaxMishaps /\ excused \subseteq Checks /\ unremoved \subseteq Checks
    /\ others \subseteq Ports
    /\ answered \in [Checks -> {"nobody", "own", "other"}]

\* Something was found or thrown, or the process is gone: the verdict is not ok.
Cut(q) == q.failed # {} \/ q.thrown \/ q.verdict \in {"thrown", "lost"}

\* What the row of a check says by itself: it stands where its kind may stand, it
\* counts what it lists, its verdict is there when it has ended and follows the list,
\* and a script that Prisma needs has been missed once its turn is over.
RowFits(q) ==
    /\ q.at = "idle" <=> q.kind = "none"
    /\ q.kind = "heavy" => q.at \in HeavyPoints \cup {"ended"}
    /\ q.kind = "readiness" => q.at \in HeavyPoints \cup ReadinessPoints \cup {"ended"}
    /\ q.kind = "preview" => q.at \in PreviewPoints \cup {"ended"}
    /\ q.kind # "none" => q.project.light \in Nat
    /\ q.blocking = 0 <=> q.failed = {}
    /\ q.verdict = "none" <=> q.at # "ended"
    /\ q.verdict = "ok" => q.failed = {}
    /\ q.verdict = "bad" => q.failed # {}
    /\ q.thrown => \/ q.at = "remove"
                   \/ q.kind = "heavy" /\ q.verdict = "thrown"
                   \/ q.kind = "readiness" /\ q.failed # {}
                   \/ q.verdict = "lost"
    /\ q.kind \in {"heavy", "readiness"} /\ q.project.package /\ PrismaRequired(q.project) =>
         /\ "migration" \notin q.project.scripts /\ q.at \notin ToMigration => Cut(q)
         /\ "seed" \notin q.project.scripts /\ q.at \notin ToSeed => Cut(q)

\* Somebody has answered, or the probe is still to come, or the verdict is not ok.
AnswerFits(q, answer) ==
    answer # "nobody" \/ Cut(q) \/
      /\ q.kind = "heavy" => q.at \in ToBoot \/ "start" \notin q.project.scripts \/ ~q.project.package
      /\ q.kind = "readiness" => q.at \in HeavyPoints \cup Unprobed
      /\ q.kind = "preview" => q.at \in Unseen

\* A worktree is there, and not because it could not be removed.
Tree(c) == worktree[c] /\ c \notin unremoved
USE DEF Tree

\* A worktree or an application is there only while its part of the check goes on.
LeavesFit(q, w, a) ==
    /\ w => (q.at \in TreePoints /\ q.kind # "preview") \/ q.verdict = "lost"
    /\ a \in {"starting", "up"} => q.at = "boot" \/ q.verdict = "lost"

\* A command runs only where there is one to run: an npm script that is there.
CommandFits(q, fate) ==
    fate # "none" => q.at \in Docker \/ (q.at \in NpmPoints /\ Runs(q.project, q.at))

\* So with the container and the image, unless docker has failed.
BoxFits(c) ==
    c \in excused \/
      /\ box[c] # "none" => check[c].at \in ContainerPoints
      /\ c \in image => check[c].at \in ImagePoints

\* The inductive invariant: every check fits its row, its answer and what it has left.
CheckFits(c) ==
    /\ RowFits(check[c]) /\ AnswerFits(check[c], answered[c])
    /\ LeavesFit(check[c], Tree(c), app[c])
    /\ CommandFits(check[c], command[c]) /\ BoxFits(c)

ChecksInv == CheckTypes /\ \A c \in Checks : CheckFits(c)

\* The places of the model, spelt out.
LEMMA PointsAre == Points = AllPoints /\ Npm = NpmPoints
BY DEF Points, AllPoints, Docker, ReadinessPoints, PreviewPoints, Unprobed, Unseen, Npm, After, HeavyPoints, NpmPoints

\* The row q becomes r: at a point, with n findings more.
Moved(q, r, point, n, ids) ==
  /\ r \in CheckRows /\ r.at = point /\ r.kind = q.kind /\ r.project = q.project
  /\ r.blocking = q.blocking + n /\ r.failed = q.failed \cup ids
  /\ r.thrown = q.thrown /\ r.verdict = q.verdict

\* No other row changes.
Alone(c) == \A d \in Checks : d # c => check'[d] = check[d]

\* Go moves the check and finds nothing.
LEMMA GoIs ==
  ASSUME CheckTypes, NEW c \in Checks, NEW point \in AllPoints, Go(c, point)
  PROVE  /\ check' \in [Checks -> CheckRows] /\ Alone(c)
         /\ Moved(check[c], check'[c], point, 0, {})
<1>1. PICK q \in CheckRows : q = check[c]
  BY DEF CheckTypes
<1>2. PICK r : r = [q EXCEPT !.at = point]
  OBVIOUS
<1>3. r \in CheckRows /\ Moved(q, r, point, 0, {})
  BY <1>1, <1>2 DEF CheckRows, Moved
<1>4. check' = [check EXCEPT ![c] = r]
  BY <1>1, <1>2 DEF Go
<1>5. QED BY <1>1, <1>3, <1>4 DEF CheckTypes, Alone

\* Record moves it with its findings.
LEMMA RecordIs ==
  ASSUME CheckTypes, NEW c \in Checks, NEW point \in AllPoints, NEW n \in Nat,
         NEW id \in AllPoints \cup {"stubs", "docker"}, Record(c, id, n, point)
  PROVE  /\ check' \in [Checks -> CheckRows] /\ Alone(c)
         /\ Moved(check[c], check'[c], point, n, IF n > 0 THEN {id} ELSE {})
<1>1. PICK q \in CheckRows : q = check[c]
  BY DEF CheckTypes
<1>2. PICK ids : ids = IF n > 0 THEN {id} ELSE {}
  OBVIOUS
<1>3. PICK r : r = [q EXCEPT !.at = point, !.blocking = @ + n, !.failed = @ \cup ids]
  OBVIOUS
<1>4. r \in CheckRows /\ Moved(q, r, point, n, ids)
  <2>1. ids \subseteq AllPoints \cup {"stubs", "docker"}
    BY <1>2
  <2>2. PICK failed \in SUBSET (AllPoints \cup {"stubs", "docker"}) : failed = q.failed \cup ids
    BY <2>1 DEF CheckRows
  <2>3. PICK blocking \in Nat : blocking = q.blocking + n
    BY DEF CheckRows
  <2>4. r = [q EXCEPT !.at = point, !.blocking = blocking, !.failed = failed]
    BY <1>3, <2>2, <2>3
  <2>5. QED BY <2>2, <2>3, <2>4 DEF CheckRows, Moved
<1>5. check' = [check EXCEPT ![c] = r]
  BY <1>1, <1>2, <1>3 DEF Record
<1>6. QED BY <1>1, <1>2, <1>4, <1>5 DEF CheckTypes, Alone

\* The row q becomes r, which has ended.
HasEnded(q, r, verdict) ==
  /\ r \in CheckRows /\ r.at = "ended" /\ r.kind = q.kind /\ r.project = q.project
  /\ r.blocking = q.blocking /\ r.failed = q.failed
  /\ r.thrown = q.thrown /\ r.verdict = verdict

\* End gives the verdict.
LEMMA EndIs ==
  ASSUME CheckTypes, NEW c \in Checks, NEW verdict \in {"ok", "bad", "thrown", "lost"}, End(c, verdict)
  PROVE  /\ check' \in [Checks -> CheckRows] /\ Alone(c)
         /\ HasEnded(check[c], check'[c], verdict)
<1>1. PICK q \in CheckRows : q = check[c]
  BY DEF CheckTypes
<1>2. PICK r : r = [q EXCEPT !.at = "ended", !.verdict = verdict]
  OBVIOUS
<1>3. r \in CheckRows /\ HasEnded(q, r, verdict)
  BY <1>1, <1>2 DEF CheckRows, HasEnded, AllPoints
<1>4. check' = [check EXCEPT ![c] = r]
  BY <1>1, <1>2 DEF End
<1>5. QED BY <1>1, <1>3, <1>4 DEF CheckTypes, Alone

\* The other checks have nothing new.
Elsewhere(c) ==
  \A d \in Checks : d # c =>
    /\ check'[d] = check[d] /\ (Tree(d)' => Tree(d)) /\ app'[d] = app[d]
    /\ box'[d] = box[d] /\ answered'[d] = answered[d] /\ command'[d] = command[d]
    /\ d \in excused => d \in excused'
    /\ d \in image' => d \in image

\* A step that touches one check only has to be looked at there.
LEMMA Apart ==
  ASSUME ChecksInv, NEW c \in Checks, CheckTypes', CheckFits(c)', Elsewhere(c)
  PROVE  ChecksInv'
<1>1. ASSUME NEW d \in Checks, d # c PROVE CheckFits(d)'
  <2>1. CheckFits(d)
    BY DEF ChecksInv
  <2>2. /\ check'[d] = check[d] /\ (Tree(d)' => Tree(d)) /\ app'[d] = app[d]
        /\ box'[d] = box[d] /\ answered'[d] = answered[d] /\ command'[d] = command[d]
        /\ d \in excused => d \in excused'
        /\ d \in image' => d \in image
    BY <1>1 DEF Elsewhere
  <2>3. RowFits(check'[d]) /\ AnswerFits(check'[d], answered'[d]) /\ LeavesFit(check'[d], Tree(d)', app'[d])
        /\ CommandFits(check'[d], command'[d])
    BY <2>1, <2>2 DEF CheckFits, LeavesFit
  <2>4. BoxFits(d)'
    BY <2>1, <2>2 DEF CheckFits, BoxFits
  <2>5. QED BY <2>3, <2>4 DEF CheckFits
<1>2. \A d \in Checks : CheckFits(d)'
  BY <1>1
<1>3. QED BY <1>2 DEF ChecksInv

\* A move that stays in the parts of the kind and skips no script Prisma needs.
Leads(q, point, n) ==
  /\ point \notin {"idle", "ended"} /\ q.at \notin {"idle", "ended", "remove"}
  /\ q.kind = "heavy" => point \in HeavyPoints
  /\ q.kind = "readiness" => point \in HeavyPoints \cup ReadinessPoints
  /\ q.kind = "preview" => point \in PreviewPoints
  /\ \/ n > 0 \/ ~q.project.package \/ ~PrismaRequired(q.project)
     \/ /\ q.at \in ToMigration => point \in ToMigration \/ "migration" \in q.project.scripts
        /\ q.at \in ToSeed => point \in ToSeed \/ "seed" \in q.project.scripts

\* Such a move keeps the row.
LEMMA RowMoves ==
  ASSUME NEW q \in CheckRows, NEW r, NEW point, NEW n \in Nat, NEW ids, RowFits(q),
         Moved(q, r, point, n, ids), Leads(q, point, n), n > 0 <=> ids # {}
  PROVE  RowFits(r)
<1>1. q.verdict = "none" /\ q.kind # "none" /\ r.verdict = "none" /\ (q.thrown => q.failed # {})
  BY DEF RowFits, Leads, Moved, CheckRows
<1>2. r.blocking = 0 <=> r.failed = {}
  BY DEF RowFits, Moved, CheckRows
<1>3. r.at = point /\ r.kind = q.kind /\ r.project = q.project /\ r.thrown = q.thrown /\ r.verdict = q.verdict
      /\ r.failed = q.failed \cup ids /\ (n > 0 => r.failed # {})
  BY DEF Moved
<1>4. Cut(q) => Cut(r)
  BY <1>3 DEF Cut
<1>5. n > 0 => Cut(r)
  BY <1>3 DEF Cut
<1>6. q.kind \in {"heavy", "readiness"} /\ q.project.package /\ PrismaRequired(q.project) =>
         /\ "migration" \notin q.project.scripts /\ point \notin ToMigration => Cut(r)
         /\ "seed" \notin q.project.scripts /\ point \notin ToSeed => Cut(r)
  BY <1>4, <1>5 DEF RowFits, Leads
<1>7. r.thrown => r.kind = "readiness" /\ r.failed # {}
  BY <1>1, <1>3 DEF RowFits, Leads
<1>8. QED BY <1>1, <1>2, <1>3, <1>6, <1>7 DEF RowFits, Leads

\* A move that does not pass a probe without a finding.
Remains(q, point, n) ==
  n > 0 \/
    /\ q.kind = "heavy" /\ q.at \in ToBoot =>
         point \in ToBoot \/ "start" \notin q.project.scripts \/ ~q.project.package
    /\ q.kind = "readiness" /\ q.at \in HeavyPoints \cup Unprobed => point \in HeavyPoints \cup Unprobed
    /\ q.kind = "preview" /\ q.at \in Unseen => point \in Unseen

\* Such a move needs no answer.
LEMMA AnswerMoves ==
  ASSUME NEW q \in CheckRows, NEW r, NEW point, NEW n \in Nat, NEW ids, NEW answer,
         Moved(q, r, point, n, ids), AnswerFits(q, answer), Remains(q, point, n), n > 0 <=> ids # {}
  PROVE  AnswerFits(r, answer)
<1>1. r.at = point /\ r.kind = q.kind /\ r.project = q.project /\ r.thrown = q.thrown /\ r.verdict = q.verdict
      /\ r.failed = q.failed \cup ids /\ (n > 0 => r.failed # {})
  BY DEF Moved
<1>2. Cut(q) \/ n > 0 => Cut(r)
  BY <1>1 DEF Cut
<1>3. QED BY <1>1, <1>2 DEF AnswerFits, Remains

\* A move keeps the invariant when what it leaves fits where it goes.
LEMMA MovingKeeps ==
  ASSUME ChecksInv, NEW c \in Checks, NEW point, NEW n \in Nat, NEW ids, CheckTypes', Elsewhere(c),
         Moved(check[c], check'[c], point, n, ids), n > 0 <=> ids # {}, Leads(check[c], point, n),
         \/ answered'[c] # "nobody"
         \/ answered'[c] = answered[c] /\ Remains(check[c], point, n),
         LeavesFit(check'[c], Tree(c)', app'[c]), CommandFits(check'[c], command'[c]), BoxFits(c)'
  PROVE  ChecksInv'
<1>1. check[c] \in CheckRows /\ RowFits(check[c]) /\ AnswerFits(check[c], answered[c])
  BY DEF ChecksInv, CheckTypes, CheckFits
<1>2. RowFits(check'[c])
  BY <1>1, RowMoves
<1>3. AnswerFits(check'[c], answered'[c])
  <2>1. CASE answered'[c] # "nobody"
    BY <2>1 DEF AnswerFits
  <2>2. CASE answered'[c] = answered[c] /\ Remains(check[c], point, n)
    BY <1>1, <2>2, AnswerMoves
  <2>3. QED BY <2>1, <2>2
<1>4. CheckFits(c)'
  BY <1>2, <1>3 DEF CheckFits
<1>5. QED BY <1>4, Apart

\* No worktree is added.
TreesStay ==
  /\ worktree' \in [Checks -> BOOLEAN] /\ unremoved' \subseteq Checks
  /\ \A d \in Checks : Tree(d)' => Tree(d)

\* The check waits for no command after the step.
Idles(c) == command'[c] = "none" /\ \A d \in Checks : d # c => command'[d] = command[d]

\* What c has left where it stands, it may have where it goes.
Carries(q, point) ==
  /\ q.at \in TreePoints => point \in TreePoints
  /\ q.at # "boot"
  /\ q.at \in ContainerPoints => point \in ContainerPoints
  /\ q.at \in ImagePoints => point \in ImagePoints

\* A move that changes nothing but the row keeps it.
LEMMA GoingKeeps ==
  ASSUME ChecksInv, NEW c \in Checks, NEW point, NEW n \in Nat, NEW ids, CheckTypes', Alone(c), Idles(c),
         Moved(check[c], check'[c], point, n, ids), n > 0 <=> ids # {}, Leads(check[c], point, n),
         Remains(check[c], point, n), Carries(check[c], point),
         TreesStay, UNCHANGED <<app, box, image, answered, excused>>
  PROVE  ChecksInv'
<1>1. Elsewhere(c)
  BY DEF Elsewhere, Alone, Idles, TreesStay
<1>2. /\ check'[c].at = point /\ check'[c].verdict = check[c].verdict /\ check'[c].kind = check[c].kind
      /\ check[c].verdict = "none"
  BY DEF Moved, ChecksInv, CheckFits, RowFits, Leads
<1>3. LeavesFit(check'[c], Tree(c)', app'[c])
  BY <1>2 DEF LeavesFit, ChecksInv, CheckFits, Carries, TreesStay
<1>4. BoxFits(c)'
  BY <1>2 DEF BoxFits, ChecksInv, CheckFits, Carries
<1>5. CommandFits(check'[c], command'[c])
  BY DEF CommandFits, Idles
<1>6. QED BY <1>1, <1>3, <1>4, <1>5, MovingKeeps

\* An end keeps it, when what is gone is gone.
LEMMA EndingKeeps ==
  ASSUME ChecksInv, NEW c \in Checks, NEW verdict \in {"ok", "bad", "thrown", "lost"}, CheckTypes',
         Alone(c), Idles(c), HasEnded(check[c], check'[c], verdict), check[c].at \notin {"idle", "ended"},
         verdict = "ok" => check[c].blocking = 0, verdict = "bad" => check[c].blocking # 0,
         verdict \in {"ok", "bad"} /\ check[c].kind = "heavy" => ~check[c].thrown,
         verdict = "thrown" => check[c].kind # "readiness",
         verdict \in {"ok", "bad"} =>
           \/ check[c].at = "verdict"
           \/ check[c].at = "remove" /\ check[c].kind = "heavy",
         UNCHANGED <<app, box, image, answered>>, excused \subseteq excused',
         TreesStay,
         verdict # "lost" => check[c].at # "boot" /\ ~Tree(c)',
         c \in excused' \/ check[c].at \notin ContainerPoints \cup ImagePoints
  PROVE  ChecksInv'
<1>1. check[c] \in CheckRows /\ RowFits(check[c]) /\ AnswerFits(check[c], answered[c])
      /\ LeavesFit(check[c], Tree(c), app[c]) /\ BoxFits(c)
  BY DEF ChecksInv, CheckTypes, CheckFits
<1>2. Elsewhere(c)
  BY DEF Elsewhere, Alone, Idles, TreesStay
<1>3. PICK q \in CheckRows : q = check[c]
  BY <1>1
<1>4. PICK r : r = check'[c]
  OBVIOUS
<1>5. /\ r.at = "ended" /\ r.kind = q.kind /\ r.project = q.project /\ r.blocking = q.blocking
      /\ r.failed = q.failed /\ r.thrown = q.thrown /\ r.verdict = verdict /\ q.verdict = "none"
      /\ q.kind # "none"
  BY <1>1, <1>3, <1>4 DEF HasEnded, RowFits
<1>6. q.thrown => \/ q.kind = "heavy" /\ verdict = "thrown"
                  \/ q.kind = "readiness" /\ q.failed # {}
                  \/ verdict = "lost"
  BY <1>1, <1>3, <1>5 DEF RowFits, CheckRows, HeavyPoints, PreviewPoints, Unseen
<1>7. q.kind \in {"heavy", "readiness"} /\ q.project.package /\ PrismaRequired(q.project) =>
         /\ "migration" \notin q.project.scripts => Cut(r)
         /\ "seed" \notin q.project.scripts => Cut(r)
  <2>1. verdict \in {"thrown", "lost"} => Cut(r)
    BY <1>5 DEF Cut
  <2>2. q.at \in {"verdict", "remove"} => q.at \notin ToMigration /\ q.at \notin ToSeed
    BY DEF ToMigration, ToSeed
  <2>3. Cut(q) => Cut(r)
    BY <1>5 DEF Cut
  <2>4. QED BY <1>1, <1>3, <2>1, <2>2, <2>3 DEF RowFits
<1>8. RowFits(r)
  BY <1>1, <1>3, <1>5, <1>6, <1>7 DEF RowFits
<1>9. AnswerFits(r, answered[c])
  <2>1. verdict \in {"thrown", "lost"} => Cut(r)
    BY <1>5 DEF Cut
  <2>2. /\ q.at = "verdict" => q.at \notin HeavyPoints \cup Unprobed /\ q.at \notin Unseen /\ q.at \notin ToBoot
        /\ q.at = "remove" => q.at \notin ToBoot
    BY DEF HeavyPoints, NpmPoints, Unprobed, Unseen, ToBoot
  <2>3. Cut(q) => Cut(r)
    BY <1>5 DEF Cut
  <2>4. QED BY <1>1, <1>3, <1>5, <2>1, <2>2, <2>3 DEF AnswerFits
<1>10. LeavesFit(r, Tree(c)', app[c])
  BY <1>1, <1>3, <1>5 DEF LeavesFit
<1>11. BoxFits(c)'
  BY <1>1 DEF BoxFits
<1>12. CheckFits(c)'
  BY <1>4, <1>8, <1>9, <1>10, <1>11 DEF CheckFits, CommandFits, Idles
<1>13. QED BY <1>2, <1>12, Apart

\* Only a row, the command and the mishaps change.
Quietly(c) ==
  /\ command' \in [Checks -> {"none", "ok", "fail", "slow", "deaf"}] /\ mishaps' \in 0..MaxMishaps
  /\ Idles(c) /\ TreesStay
  /\ UNCHANGED <<others, port, app, box, image, answered, excused>>

\* The quiet steps that record something.
LEMMA RecordingKeeps ==
  ASSUME ChecksInv, NEW c \in Checks, NEW point \in AllPoints, NEW n \in Nat,
         NEW id \in AllPoints \cup {"stubs", "docker"}, Record(c, id, n, point), Quietly(c),
         Leads(check[c], point, n), Remains(check[c], point, n), Carries(check[c], point)
  PROVE  ChecksInv'
<1>1. CheckTypes
  BY DEF ChecksInv
<1>2. /\ check' \in [Checks -> CheckRows] /\ Alone(c)
      /\ Moved(check[c], check'[c], point, n, IF n > 0 THEN {id} ELSE {})
  BY <1>1, RecordIs
<1>3. CheckTypes'
  BY <1>1, <1>2 DEF CheckTypes, Quietly, TreesStay
<1>4. PICK ids : ids = IF n > 0 THEN {id} ELSE {}
  OBVIOUS
<1>5. n > 0 <=> ids # {}
  BY <1>4
<1>6. TreesStay /\ UNCHANGED <<app, box, image, answered, excused>>
  BY DEF Quietly
<1>7. Idles(c)
  BY DEF Quietly
<1>8. QED BY <1>2, <1>3, <1>4, <1>5, <1>6, <1>7, GoingKeeps

\* The quiet steps that record nothing.
LEMMA StridingKeeps ==
  ASSUME ChecksInv, NEW c \in Checks, NEW point \in AllPoints, Go(c, point), Quietly(c),
         Leads(check[c], point, 0), Remains(check[c], point, 0), Carries(check[c], point)
  PROVE  ChecksInv'
<1>1. CheckTypes
  BY DEF ChecksInv
<1>2. /\ check' \in [Checks -> CheckRows] /\ Alone(c)
      /\ Moved(check[c], check'[c], point, 0, {})
  BY <1>1, GoIs
<1>3. CheckTypes'
  BY <1>1, <1>2 DEF CheckTypes, Quietly, TreesStay
<1>4. TreesStay /\ UNCHANGED <<app, box, image, answered, excused>>
  BY DEF Quietly
<1>5. Idles(c)
  BY DEF Quietly
<1>6. 0 \in Nat /\ (0 > 0 <=> {} # {})
  OBVIOUS
<1>7. QED BY <1>2, <1>3, <1>4, <1>5, <1>6, GoingKeeps

\* Where no command can run, none does.
LEMMA QuietIsQuiet ==
  ASSUME ChecksInv, NEW c \in Checks, check[c].at \notin Docker,
         check[c].at \notin NpmPoints \/ ~Runs(Project(c), check[c].at),
         UNCHANGED <<others, command, worktree, port, app, box, image, mishaps, answered, excused, unremoved>>
  PROVE  Quietly(c)
<1>1. command[c] = "none"
  BY DEF ChecksInv, CheckFits, CommandFits, Project
<1>2. QED BY <1>1 DEF ChecksInv, CheckTypes, Quietly, Idles, TreesStay

\* The kind of a check follows from where it stands.
LEMMA WhereItIs ==
  ASSUME ChecksInv, NEW c \in Checks
  PROVE  /\ check[c] \in CheckRows /\ RowFits(check[c]) /\ check[c].blocking \in Nat
         /\ check[c].at \in HeavyPoints => check[c].kind \in {"heavy", "readiness"}
         /\ check[c].at \in ReadinessPoints \ {"docker logs", "verdict"} => check[c].kind = "readiness"
         /\ check[c].at \in {"docker logs", "verdict"} => check[c].kind \in {"readiness", "preview"}
         /\ check[c].at \in PreviewPoints \ {"docker logs", "verdict"} => check[c].kind = "preview"
         /\ check[c].at # "idle" => check[c].project.light \in Nat
         /\ check[c].kind \in {"none", "heavy", "readiness", "preview"}
<1>1. PICK q \in CheckRows : q = check[c] /\ RowFits(q)
  BY DEF ChecksInv, CheckTypes, CheckFits
<1>2. q.kind \in {"none", "heavy", "readiness", "preview"} /\ q.blocking \in Nat
  BY DEF CheckRows
<1>3. q.at \in HeavyPoints => q.at \notin PreviewPoints \cup {"ended", "idle"} \cup ReadinessPoints
  BY DEF HeavyPoints, PreviewPoints, NpmPoints, Unseen, ReadinessPoints, Unprobed
<1>4. q.at \in ReadinessPoints => q.at \notin HeavyPoints \cup {"idle", "ended"}
  BY DEF HeavyPoints, NpmPoints, ReadinessPoints, Unprobed
<1>5. q.at \in ReadinessPoints \ {"docker logs", "verdict"} => q.at \notin PreviewPoints
  BY DEF PreviewPoints, Unseen, ReadinessPoints, Unprobed
<1>6. q.at \in PreviewPoints \ {"docker logs", "verdict"} => q.at \notin HeavyPoints \cup ReadinessPoints \cup {"idle", "ended"}
  BY DEF PreviewPoints, Unseen, ReadinessPoints, Unprobed, HeavyPoints, NpmPoints
<1>7. q.at \in PreviewPoints => q.at \notin HeavyPoints \cup {"idle", "ended"}
  BY DEF PreviewPoints, Unseen, HeavyPoints, NpmPoints
<1>8. q.at \in {"docker logs", "verdict"} => q.at \in ReadinessPoints
  BY DEF ReadinessPoints
<1>9. QED BY <1>1, <1>2, <1>3, <1>4, <1>5, <1>6, <1>7, <1>8 DEF RowFits

\* Reading the project: without package.json no script is looked for.
LEMMA ReadProjectKeeps == ASSUME ChecksInv, NEW c \in Checks, ReadProject(c) PROVE ChecksInv'
<1>1. Quietly(c)
  <2>1. check[c].at \notin Docker /\ check[c].at \notin NpmPoints
    BY DEF ReadProject, At, Docker, NpmPoints
  <2>2. QED BY <2>1, QuietIsQuiet DEF ReadProject
<1>2. {"light", "config", "package"} \subseteq HeavyPoints
  BY DEF HeavyPoints
<1>3. CASE At(c, "light") /\ Record(c, "light", Project(c).light, "config")
  <2>1. check[c].at = "light" /\ check[c].kind \in {"heavy", "readiness"} /\ Project(c).light \in Nat
    BY <1>2, <1>3, WhereItIs DEF At, Project
  <2>2. Leads(check[c], "config", Project(c).light) /\ Remains(check[c], "config", Project(c).light)
        /\ Carries(check[c], "config")
    BY <2>1 DEF Leads, Remains, Carries, HeavyPoints, NpmPoints, ToMigration, ToSeed, ToBoot,
       TreePoints, ContainerPoints, ImagePoints
  <2>3. {"light", "config"} \subseteq AllPoints
    BY DEF AllPoints, HeavyPoints
  <2>4. QED BY <1>1, <1>3, <2>1, <2>2, <2>3, RecordingKeeps
<1>4. CASE At(c, "config") /\ Record(c, "config", IF Project(c).config THEN 0 ELSE 1, "package")
  <2>1. check[c].at = "config" /\ check[c].kind \in {"heavy", "readiness"}
    BY <1>2, <1>4, WhereItIs DEF At
  <2>2. PICK n \in Nat : n = IF Project(c).config THEN 0 ELSE 1
    OBVIOUS
  <2>3. Leads(check[c], "package", n) /\ Remains(check[c], "package", n)
        /\ Carries(check[c], "package")
    BY <2>1 DEF Leads, Remains, Carries, HeavyPoints, NpmPoints, ToMigration, ToSeed, ToBoot,
       TreePoints, ContainerPoints, ImagePoints
  <2>4. {"package", "config"} \subseteq AllPoints
    BY DEF AllPoints, HeavyPoints
  <2>5. Record(c, "config", n, "package")
    BY <1>4, <2>2
  <2>6. QED BY <1>1, <2>3, <2>4, <2>5, RecordingKeeps
<1>5. CASE At(c, "package") /\ Go(c, IF Project(c).package THEN "install" ELSE "remove")
  <2>1. check[c].at = "package" /\ check[c].kind \in {"heavy", "readiness"}
    BY <1>2, <1>5, WhereItIs DEF At
  <2>2. PICK point : point = IF Project(c).package THEN "install" ELSE "remove"
    OBVIOUS
  <2>3. point \in {"install", "remove"} /\ (check[c].project.package \/ point = "remove")
        /\ (check[c].project.package => point = "install")
    BY <2>2 DEF Project
  <2>4. Leads(check[c], point, 0) /\ Remains(check[c], point, 0) /\ Carries(check[c], point)
    BY <2>1, <2>3 DEF Leads, Remains, Carries, HeavyPoints, NpmPoints, ToMigration, ToSeed, ToBoot,
       TreePoints, ContainerPoints, ImagePoints
  <2>5. point \in AllPoints
    BY <2>3 DEF AllPoints, HeavyPoints, NpmPoints
  <2>6. Go(c, point)
    BY <1>5, <2>2
  <2>7. QED BY <1>1, <2>4, <2>5, <2>6, StridingKeeps
<1>6. QED BY <1>3, <1>4, <1>5 DEF ReadProject

\* One command after another: only Prisma's own are needed for the verdict.
LEMMA NextCommand ==
  ASSUME ChecksInv, NEW c \in Checks, NEW s \in Npm, NEW n \in Nat, check[c].at = s,
         s \in {"migration", "seed"} =>
            n > 0 \/ s \in Project(c).scripts \/ ~PrismaRequired(Project(c))
  PROVE  /\ s \in AllPoints /\ After[s] \in AllPoints
         /\ Leads(check[c], After[s], n) /\ Remains(check[c], After[s], n) /\ Carries(check[c], After[s])
<1>1. s \in NpmPoints /\ check[c].kind \in {"heavy", "readiness"}
  BY PointsAre, WhereItIs DEF HeavyPoints
<1>2. PICK point : point = After[s]
  OBVIOUS
<1>3. \/ s = "install" /\ point = "generate"
      \/ s = "generate" /\ point = "migration"
      \/ s = "migration" /\ point = "seed"
      \/ s = "seed" /\ point = "typecheck"
      \/ s = "typecheck" /\ point = "build"
      \/ s = "build" /\ point = "tests"
      \/ s = "tests" /\ point = "rebuild"
      \/ s = "rebuild" /\ point = "free port"
  <2>1. /\ After["install"] = "generate" /\ After["generate"] = "migration"
        /\ After["migration"] = "seed" /\ After["seed"] = "typecheck" /\ After["typecheck"] = "build"
        /\ After["build"] = "tests" /\ After["tests"] = "rebuild" /\ After["rebuild"] = "free port"
    BY DEF After
  <2>2. s = "install" \/ s = "generate" \/ s = "migration" \/ s = "seed" \/ s = "typecheck"
        \/ s = "build" \/ s = "tests" \/ s = "rebuild"
    BY <1>1 DEF NpmPoints
  <2>3. QED BY <1>2, <2>1, <2>2, ZenonT(40)
<1>4. s \in HeavyPoints /\ point \in HeavyPoints
  BY <1>3 DEF HeavyPoints, NpmPoints
<1>5. s \in TreePoints /\ point \in TreePoints /\ s \notin ContainerPoints /\ s \notin ImagePoints
  BY <1>3 DEF TreePoints, HeavyPoints, NpmPoints, ContainerPoints, ImagePoints
<1>6. point \in ToBoot /\ point \in HeavyPoints
  BY <1>3 DEF ToBoot, HeavyPoints, NpmPoints
<1>7. /\ s \in ToMigration => point \in ToMigration \/ s = "migration"
      /\ s \in ToSeed => point \in ToSeed \/ s = "seed"
  BY <1>3 DEF ToMigration, ToSeed
<1>8. point \notin {"idle", "ended"} /\ s \notin {"idle", "ended", "remove"}
  BY <1>3
<1>9. Leads(check[c], point, n)
  BY <1>1, <1>4, <1>7, <1>8 DEF Leads, Project
<1>10. Remains(check[c], point, n)
  BY <1>1, <1>6 DEF Remains
<1>11. Carries(check[c], point)
  BY <1>3, <1>5 DEF Carries
<1>12. QED BY <1>2, <1>4, <1>9, <1>10, <1>11 DEF AllPoints

\* A command that ran was there to be run.
LEMMA NpmReturnsKeeps == ASSUME ChecksInv, NEW c \in Checks, NpmReturns(c) PROVE ChecksInv'
<1> DEFINE s == check[c].at
<1>1. s \in Npm
  BY DEF NpmReturns
<1>2. command[c] # "none"
  BY DEF NpmReturns, Returns
<1>3. PICK n \in Nat : n = IF s \in {"generate", "rebuild"} THEN 0 ELSE Fails(c)
  BY DEF Fails
<1>4. Record(c, s, n, After[s])
  BY <1>3 DEF NpmReturns
<1>5. Quietly(c)
  BY DEF NpmReturns, Returns, Quietly, Idles, ChecksInv, CheckTypes, TreesStay
<1>6. Runs(Project(c), s)
  <2>1. s \in NpmPoints /\ s \notin Docker
    BY <1>1, PointsAre DEF NpmPoints, Docker
  <2>2. QED BY <1>2, <2>1 DEF ChecksInv, CheckFits, CommandFits, Project
<1>7. s \in {"migration", "seed"} => s \in Project(c).scripts
  BY <1>6 DEF Runs
<1>8. /\ s \in AllPoints /\ After[s] \in AllPoints
      /\ Leads(check[c], After[s], n) /\ Remains(check[c], After[s], n) /\ Carries(check[c], After[s])
  BY <1>1, <1>7, NextCommand
<1>9. QED BY <1>4, <1>5, <1>8, RecordingKeeps

\* A script Prisma needs is counted when it is missing.
LEMMA SkipScriptKeeps == ASSUME ChecksInv, NEW c \in Checks, SkipScript(c) PROVE ChecksInv'
<1> DEFINE s == check[c].at
<1>1. s \in Npm /\ ~Runs(Project(c), s)
  BY DEF SkipScript
<1>2. PICK n \in Nat : n = IF s \in {"migration", "seed"} /\ PrismaRequired(Project(c)) THEN 1 ELSE 0
  OBVIOUS
<1>3. Record(c, s, n, After[s])
  BY <1>2 DEF SkipScript
<1>4. Quietly(c)
  <2>1. s \in NpmPoints /\ s \notin Docker
    BY <1>1, PointsAre DEF NpmPoints, Docker
  <2>2. QED BY <1>1, <2>1, QuietIsQuiet DEF SkipScript
<1>5. /\ s \in AllPoints /\ After[s] \in AllPoints
      /\ Leads(check[c], After[s], n) /\ Remains(check[c], After[s], n) /\ Carries(check[c], After[s])
  BY <1>1, <1>2, NextCommand
<1>6. QED BY <1>3, <1>4, <1>5, RecordingKeeps

\* The search for stubs.
LEMMA ScanStubsKeeps == ASSUME ChecksInv, NEW c \in Checks, ScanStubs(c) PROVE ChecksInv'
<1>1. check[c].at = "scan" /\ check[c].kind = "readiness"
  BY WhereItIs DEF ScanStubs, At, ReadinessPoints, Unprobed
<1>2. PICK n \in Nat : n = IF Project(c).stubs THEN 1 ELSE 0
  OBVIOUS
<1>3. Record(c, "stubs", n, "docker version")
  BY <1>2 DEF ScanStubs
<1>4. Quietly(c)
  <2>1. "scan" \notin Docker /\ "scan" \notin NpmPoints
    BY DEF Docker, NpmPoints
  <2>2. QED BY <1>1, <2>1, QuietIsQuiet DEF ScanStubs
<1>5. Leads(check[c], "docker version", n) /\ Remains(check[c], "docker version", n)
      /\ Carries(check[c], "docker version")
  BY <1>1 DEF Leads, Remains, Carries, HeavyPoints, ReadinessPoints, Unprobed, NpmPoints, ToMigration, ToSeed,
     TreePoints, ContainerPoints, ImagePoints
<1>6. "docker version" \in AllPoints
  BY DEF AllPoints, ReadinessPoints, Unprobed
<1>7. QED BY <1>3, <1>4, <1>5, <1>6, RecordingKeeps

\* The Dockerfile of the readiness check,
LEMMA FindDockerfileKeeps == ASSUME ChecksInv, NEW c \in Checks, FindDockerfile(c) PROVE ChecksInv'
<1>1. check[c].at = "dockerfile" /\ check[c].kind = "readiness"
  BY WhereItIs DEF FindDockerfile, At, ReadinessPoints, Unprobed
<1>2. Quietly(c)
  <2>1. "dockerfile" \notin Docker /\ "dockerfile" \notin NpmPoints
    BY DEF Docker, NpmPoints
  <2>2. QED BY <1>1, <2>1, QuietIsQuiet DEF FindDockerfile
<1>3. CASE Go(c, "docker build")
  <2>1. Leads(check[c], "docker build", 0) /\ Remains(check[c], "docker build", 0)
        /\ Carries(check[c], "docker build")
    BY <1>1 DEF Leads, Remains, Carries, HeavyPoints, ReadinessPoints, Unprobed, NpmPoints, ToMigration,
       ToSeed, TreePoints, ContainerPoints, ImagePoints
  <2>2. "docker build" \in AllPoints
    BY DEF AllPoints, ReadinessPoints, Unprobed
  <2>3. QED BY <1>2, <1>3, <2>1, <2>2, StridingKeeps
<1>4. CASE Record(c, "docker", 1, "docker remove")
  <2>1. Leads(check[c], "docker remove", 1) /\ Remains(check[c], "docker remove", 1)
        /\ Carries(check[c], "docker remove")
    BY <1>1 DEF Leads, Remains, Carries, HeavyPoints, ReadinessPoints, Unprobed, NpmPoints, ToMigration,
       ToSeed, TreePoints, ContainerPoints, ImagePoints
  <2>2. "docker remove" \in AllPoints
    BY DEF AllPoints, ReadinessPoints
  <2>3. QED BY <1>2, <1>4, <2>1, <2>2, RecordingKeeps
<1>5. QED BY <1>3, <1>4 DEF FindDockerfile

\* and that of the preview.
LEMMA FindPreviewFileKeeps == ASSUME ChecksInv, NEW c \in Checks, FindPreviewFile(c) PROVE ChecksInv'
<1>1. check[c].at = "preview file" /\ check[c].kind = "preview"
  BY WhereItIs DEF FindPreviewFile, At, PreviewPoints, Unseen
<1>2. Quietly(c)
  <2>1. "preview file" \notin Docker /\ "preview file" \notin NpmPoints
    BY DEF Docker, NpmPoints
  <2>2. QED BY <1>1, <2>1, QuietIsQuiet DEF FindPreviewFile
<1>3. CASE Go(c, "preview build")
  <2>1. Leads(check[c], "preview build", 0) /\ Remains(check[c], "preview build", 0)
        /\ Carries(check[c], "preview build")
    BY <1>1 DEF Leads, Remains, Carries, PreviewPoints, Unseen, HeavyPoints, ReadinessPoints, Unprobed,
       NpmPoints, ToMigration, ToSeed, TreePoints, ContainerPoints, ImagePoints
  <2>2. "preview build" \in AllPoints
    BY DEF AllPoints, PreviewPoints, Unseen
  <2>3. QED BY <1>2, <1>3, <2>1, <2>2, StridingKeeps
<1>4. CASE Record(c, "docker", 1, "preview rm")
  <2>1. Leads(check[c], "preview rm", 1) /\ Remains(check[c], "preview rm", 1)
        /\ Carries(check[c], "preview rm")
    <3>1. Leads(check[c], "preview rm", 1)
      <4>1. 1 > 0 /\ "preview rm" \in PreviewPoints
        BY DEF PreviewPoints
      <4>2. QED BY <1>1, <4>1 DEF Leads
    <3>2. Remains(check[c], "preview rm", 1)
      BY DEF Remains
    <3>3. "preview file" \notin TreePoints /\ "preview rm" \in ContainerPoints /\ "preview rm" \in ImagePoints
      BY DEF TreePoints, HeavyPoints, NpmPoints, ReadinessPoints, Unprobed, ContainerPoints, ImagePoints
    <3>4. QED BY <1>1, <3>1, <3>2, <3>3 DEF Carries
  <2>2. "preview rm" \in AllPoints
    BY DEF AllPoints, PreviewPoints
  <2>3. QED BY <1>2, <1>4, <2>1, <2>2, RecordingKeeps
<1>5. QED BY <1>3, <1>4 DEF FindPreviewFile

\* A probe that nobody answers.
LEMMA ContainerFailsKeeps == ASSUME ChecksInv, NEW c \in Checks, ContainerFails(c) PROVE ChecksInv'
<1>1. \/ check[c].at = "docker probe" /\ check[c].kind = "readiness"
      \/ check[c].at = "preview probe" /\ check[c].kind = "preview"
  BY WhereItIs DEF ContainerFails, At, PreviewPoints, Unseen, ReadinessPoints, Unprobed
<1>2. Quietly(c)
  <2>1. check[c].at \notin Docker /\ check[c].at \notin NpmPoints
    BY <1>1 DEF Docker, NpmPoints
  <2>2. QED BY <2>1, QuietIsQuiet DEF ContainerFails
<1>3. Leads(check[c], "docker logs", 1) /\ Remains(check[c], "docker logs", 1)
      /\ Carries(check[c], "docker logs")
  <2>1. Leads(check[c], "docker logs", 1)
    <3>1. 1 > 0 /\ "docker logs" \in PreviewPoints /\ "docker logs" \in ReadinessPoints
      BY DEF PreviewPoints, ReadinessPoints
    <3>2. QED BY <1>1, <3>1 DEF Leads
  <2>2. Remains(check[c], "docker logs", 1)
    BY DEF Remains
  <2>3. /\ "preview probe" \notin TreePoints /\ "docker logs" \in TreePoints
        /\ "docker logs" \in ContainerPoints /\ "docker logs" \in ImagePoints
    BY DEF TreePoints, HeavyPoints, NpmPoints, ReadinessPoints, Unprobed, ContainerPoints, ImagePoints
  <2>4. QED BY <1>1, <2>1, <2>2, <2>3 DEF Carries
<1>4. "docker logs" \in AllPoints
  BY DEF AllPoints, PreviewPoints
<1>5. Record(c, "docker", 1, "docker logs")
  BY DEF ContainerFails
<1>6. QED BY <1>2, <1>3, <1>4, <1>5, RecordingKeeps

\* What a check that goes on may have.
LEMMA Stands ==
  ASSUME ChecksInv, NEW c \in Checks, check[c].at \notin {"idle", "ended"}
  PROVE  /\ check[c].verdict = "none" /\ check[c].kind # "none"
         /\ app[c] \in {"starting", "up"} => check[c].at = "boot"
         /\ Tree(c) => check[c].at \in TreePoints /\ check[c].kind # "preview"
         /\ check[c].at \notin Docker /\ check[c].at \notin NpmPoints => command[c] = "none"
         /\ c \notin excused /\ box[c] # "none" => check[c].at \in ContainerPoints
         /\ c \notin excused /\ c \in image => check[c].at \in ImagePoints
<1>1. RowFits(check[c]) /\ LeavesFit(check[c], Tree(c), app[c]) /\ CommandFits(check[c], command[c])
      /\ BoxFits(c)
  BY DEF ChecksInv, CheckFits
<1>2. check[c].verdict = "none" /\ check[c].kind # "none"
  BY <1>1 DEF RowFits
<1>3. QED BY <1>1, <1>2 DEF LeavesFit, CommandFits, BoxFits

\* Record, with its findings as a set of identifiers;
LEMMA RecordMoves ==
  ASSUME CheckTypes, NEW c \in Checks, NEW point \in AllPoints, NEW n \in Nat,
         NEW id \in AllPoints \cup {"stubs", "docker"}, Record(c, id, n, point)
  PROVE  /\ check' \in [Checks -> CheckRows] /\ Alone(c)
         /\ check'[c].at = point /\ check'[c].verdict = check[c].verdict
         /\ check'[c].kind = check[c].kind /\ check'[c].project = check[c].project
         /\ \E ids : Moved(check[c], check'[c], point, n, ids) /\ (n > 0 <=> ids # {})
<1>1. PICK ids : ids = IF n > 0 THEN {id} ELSE {}
  OBVIOUS
<1>2. /\ check' \in [Checks -> CheckRows] /\ Alone(c)
      /\ Moved(check[c], check'[c], point, n, ids)
  BY <1>1, RecordIs
<1>3. n > 0 <=> ids # {}
  BY <1>1
<1>4. QED BY <1>2, <1>3 DEF Moved

\* and Go, with none.
LEMMA GoMoves ==
  ASSUME CheckTypes, NEW c \in Checks, NEW point \in AllPoints, Go(c, point)
  PROVE  /\ check' \in [Checks -> CheckRows] /\ Alone(c)
         /\ check'[c].at = point /\ check'[c].verdict = check[c].verdict
         /\ check'[c].kind = check[c].kind /\ check'[c].project = check[c].project
         /\ \E ids : Moved(check[c], check'[c], point, 0, ids) /\ (0 > 0 <=> ids # {})
<1>1. /\ check' \in [Checks -> CheckRows] /\ Alone(c)
      /\ Moved(check[c], check'[c], point, 0, {})
  BY GoIs
<1>2. 0 > 0 <=> {} # {}
  OBVIOUS
<1>3. QED BY <1>1, <1>2 DEF Moved

\* The worktree of a heavy validation or of the Docker part.
LEMMA AddWorktreeKeeps == ASSUME ChecksInv, NEW c \in Checks, AddWorktree(c) PROVE ChecksInv'
<1>1. PICK point : /\ Go(c, point)
                   /\ \/ check[c].at = "add" /\ point = "light"
                      \/ check[c].at = "docker add" /\ point = "dockerfile"
  BY DEF AddWorktree, At
<1>2. /\ worktree' = [worktree EXCEPT ![c] = TRUE]
      /\ UNCHANGED <<others, command, port, app, box, image, mishaps, answered, excused, unremoved>>
  BY DEF AddWorktree
<1>3. point \in AllPoints /\ point \in TreePoints /\ CheckTypes
  BY <1>1 DEF AllPoints, HeavyPoints, ReadinessPoints, Unprobed, TreePoints, ChecksInv
<1>4. /\ check' \in [Checks -> CheckRows] /\ Alone(c)
      /\ check'[c].at = point /\ check'[c].verdict = check[c].verdict /\ check'[c].kind = check[c].kind
      /\ \E ids : Moved(check[c], check'[c], point, 0, ids) /\ (0 > 0 <=> ids # {})
  BY <1>1, <1>3, GoMoves
<1>5. PICK ids : Moved(check[c], check'[c], point, 0, ids) /\ (0 > 0 <=> ids # {})
  BY <1>4
<1>6. CheckTypes'
  BY <1>2, <1>3, <1>4 DEF CheckTypes
<1>7. Elsewhere(c)
  BY <1>2, <1>3, <1>4 DEF Elsewhere, Alone, CheckTypes
<1>8. check[c].at \notin Docker /\ check[c].at \notin NpmPoints /\ check[c].at \notin {"idle", "ended"}
      /\ check[c].at \notin ContainerPoints /\ check[c].at \notin ImagePoints /\ check[c].at # "boot"
  BY <1>1 DEF Docker, NpmPoints, ContainerPoints, ImagePoints
<1>9. LeavesFit(check'[c], Tree(c)', app'[c]) /\ CommandFits(check'[c], command'[c]) /\ BoxFits(c)'
  <2>1. {"add", "docker add"} \subseteq HeavyPoints \cup (ReadinessPoints \ {"docker logs", "verdict"})
    BY DEF HeavyPoints, ReadinessPoints, Unprobed
  <2>2. check[c].kind # "preview"
    BY <1>1, <2>1, WhereItIs
  <2>3. check'[c].at \in TreePoints /\ check'[c].kind # "preview"
    BY <1>2, <1>3, <1>4, <2>2 DEF CheckTypes
  <2>4. QED BY <1>2, <1>4, <1>8, <2>3, Stands DEF LeavesFit, CommandFits, BoxFits
<1>10. Leads(check[c], point, 0) /\ Remains(check[c], point, 0)
  <2>1. CASE check[c].at = "add" /\ point = "light"
    <3>1. check[c].kind \in {"heavy", "readiness"}
      BY <2>1, WhereItIs DEF HeavyPoints
    <3>2. QED BY <2>1, <3>1 DEF Leads, Remains, HeavyPoints, NpmPoints, ToMigration, ToSeed, ToBoot
  <2>2. CASE check[c].at = "docker add" /\ point = "dockerfile"
    <3>1. check[c].kind = "readiness"
      BY <2>2, WhereItIs DEF ReadinessPoints, Unprobed
    <3>2. QED BY <2>2, <3>1 DEF Leads, Remains, HeavyPoints, NpmPoints, ReadinessPoints, Unprobed, ToMigration, ToSeed
  <2>3. QED BY <1>1, <2>1, <2>2
<1>11. 0 \in Nat /\ answered'[c] = answered[c]
  BY <1>2
<1>12. QED BY <1>5, <1>6, <1>7, <1>9, <1>10, <1>11, MovingKeeps

\* Whoever answers, somebody does.
LEMMA AnsweredIs ==
  ASSUME CheckTypes, NEW c \in Checks, Answered(c)
  PROVE  /\ answered' \in [Checks -> {"nobody", "own", "other"}]
         /\ \A d \in Checks : d # c => answered'[d] = answered[d]
         /\ answered'[c] # "nobody"
<1>1. PICK who : who = IF c \in Listening(port[c]) THEN "own" ELSE "other"
  OBVIOUS
<1>2. who \in {"nobody", "own", "other"} /\ who # "nobody"
  BY <1>1
<1>3. answered' = [answered EXCEPT ![c] = who] /\ answered \in [Checks -> {"nobody", "own", "other"}]
  BY <1>1 DEF Answered, CheckTypes
<1>4. answered'[c] = who /\ \A d \in Checks : d # c => answered'[d] = answered[d]
  BY <1>3
<1>5. answered' \in [Checks -> {"nobody", "own", "other"}]
  BY <1>2, <1>3
<1>6. QED BY <1>2, <1>4, <1>5

\* The boot check ends and kills its application, whether anybody has answered or not.
LEMMA BootEndsKeeps == ASSUME ChecksInv, NEW c \in Checks, BootAnswers(c) \/ BootFails(c) PROVE ChecksInv'
<1>1. PICK n \in {0, 1} : /\ Record(c, "boot", n, "remove")
                          /\ n = 0 => Answered(c)
                          /\ n = 1 => UNCHANGED answered
  BY DEF BootAnswers, BootFails
<1>2. /\ check[c].at = "boot" /\ Terminated(c)
      /\ UNCHANGED <<others, command, worktree, port, box, image, mishaps, excused, unremoved>>
  BY DEF BootAnswers, BootFails, At
<1>3. /\ "boot" \in AllPoints /\ "remove" \in AllPoints /\ CheckTypes /\ n \in Nat
      /\ "boot" \in HeavyPoints /\ "remove" \in TreePoints
  BY DEF AllPoints, HeavyPoints, TreePoints, ChecksInv
<1>4. /\ check' \in [Checks -> CheckRows] /\ Alone(c)
      /\ check'[c].at = "remove" /\ check'[c].verdict = check[c].verdict /\ check'[c].kind = check[c].kind
      /\ \E ids : Moved(check[c], check'[c], "remove", n, ids) /\ (n > 0 <=> ids # {})
  BY <1>1, <1>3, RecordMoves
<1>5. PICK ids : Moved(check[c], check'[c], "remove", n, ids) /\ (n > 0 <=> ids # {})
  BY <1>4
<1>6. PICK left \in {"none", "dying"} : app' = [app EXCEPT ![c] = left]
  <2>1. PICK left : left = IF app[c] \in {"starting", "up"} THEN "dying" ELSE "none"
    OBVIOUS
  <2>2. app' = [app EXCEPT ![c] = left]
    BY <1>2, <2>1 DEF Terminated
  <2>3. QED BY <2>1, <2>2
<1>7. /\ answered' \in [Checks -> {"nobody", "own", "other"}]
      /\ \A d \in Checks : d # c => answered'[d] = answered[d]
      /\ answered'[c] # "nobody" \/ (n = 1 /\ answered'[c] = answered[c])
  <2>1. CASE n = 1
    BY <1>1, <1>3, <2>1 DEF CheckTypes
  <2>2. CASE n = 0
    BY <1>1, <1>3, <2>2, AnsweredIs
  <2>3. QED BY <2>1, <2>2
<1>8. CheckTypes'
  BY <1>2, <1>3, <1>4, <1>6, <1>7 DEF CheckTypes
<1>9. Elsewhere(c)
  BY <1>2, <1>3, <1>4, <1>6, <1>7 DEF Elsewhere, Alone, CheckTypes
<1>10. "boot" \notin Docker /\ "boot" \notin NpmPoints
      /\ "boot" \notin ContainerPoints /\ "boot" \notin ImagePoints
  BY DEF Docker, NpmPoints, ContainerPoints, ImagePoints
<1>11. app'[c] \notin {"starting", "up"}
  BY <1>3, <1>6 DEF CheckTypes
<1>12. LeavesFit(check'[c], Tree(c)', app'[c]) /\ CommandFits(check'[c], command'[c]) /\ BoxFits(c)'
  BY <1>2, <1>3, <1>4, <1>10, <1>11, Stands DEF LeavesFit, CommandFits, BoxFits
<1>13. Leads(check[c], "remove", n) /\ (n = 1 => Remains(check[c], "remove", n))
  <2>1. check[c].kind \in {"heavy", "readiness"}
    BY <1>2, <1>3, WhereItIs
  <2>2. QED BY <1>2, <2>1 DEF Leads, Remains, HeavyPoints, ToMigration, ToSeed
<1>14. QED BY <1>3, <1>5, <1>7, <1>8, <1>9, <1>12, <1>13, MovingKeeps

\* Without a start script there is no boot, and no answer is asked for.
LEMMA StartApplicationKeeps == ASSUME ChecksInv, NEW c \in Checks, StartApplication(c) PROVE ChecksInv'
<1>1. /\ check[c].at = "free port"
      /\ UNCHANGED <<others, command, worktree, box, image, mishaps, answered, excused, unremoved>>
  BY DEF StartApplication, At
<1>2. /\ "free port" \notin Docker /\ "free port" \notin NpmPoints
      /\ "free port" \notin ContainerPoints /\ "free port" \notin ImagePoints
      /\ "free port" \in TreePoints /\ "boot" \in TreePoints /\ "remove" \in TreePoints
      /\ "free port" \in HeavyPoints /\ "boot" \in HeavyPoints /\ "remove" \in HeavyPoints
      /\ "free port" \in ToBoot /\ "boot" \in ToBoot
      /\ "free port" \notin ToMigration /\ "free port" \notin ToSeed
  BY DEF Docker, NpmPoints, ContainerPoints, ImagePoints, TreePoints, HeavyPoints, ToBoot, ToMigration, ToSeed
<1>3. check[c].kind \in {"heavy", "readiness"} /\ CheckTypes /\ "boot" \in AllPoints /\ "remove" \in AllPoints
  BY <1>1, <1>2, WhereItIs DEF ChecksInv, AllPoints
<1>4. CASE "start" \in Project(c).scripts
  <2>1. Go(c, "boot") /\ app' = [app EXCEPT ![c] = "starting"] /\ Acquire(c)
    BY <1>4 DEF StartApplication
  <2>2. PICK q \in Ports : port' = [port EXCEPT ![c] = q]
    BY <2>1 DEF Acquire
  <2>3. /\ check' \in [Checks -> CheckRows] /\ Alone(c)
        /\ check'[c].at = "boot" /\ check'[c].verdict = check[c].verdict /\ check'[c].kind = check[c].kind
        /\ \E ids : Moved(check[c], check'[c], "boot", 0, ids) /\ (0 > 0 <=> ids # {})
    BY <1>3, <2>1, GoMoves
  <2>4. PICK ids : Moved(check[c], check'[c], "boot", 0, ids) /\ (0 > 0 <=> ids # {})
    BY <2>3
  <2>5. port' \in [Checks -> Ports \cup {0}]
    BY <1>3, <2>2 DEF CheckTypes
  <2>6. app' \in [Checks -> {"none", "starting", "up", "exited", "dying"}]
    BY <1>3, <2>1 DEF CheckTypes
  <2>7. CheckTypes'
    BY <1>1, <1>3, <2>3, <2>5, <2>6 DEF CheckTypes
  <2>8. Elsewhere(c)
    BY <1>1, <1>3, <2>1, <2>3 DEF Elsewhere, Alone, CheckTypes
  <2>9. LeavesFit(check'[c], Tree(c)', app'[c]) /\ CommandFits(check'[c], command'[c]) /\ BoxFits(c)'
    BY <1>1, <1>2, <2>3, Stands DEF LeavesFit, CommandFits, BoxFits
  <2>10. Leads(check[c], "boot", 0) /\ Remains(check[c], "boot", 0)
    BY <1>1, <1>2, <1>3 DEF Leads, Remains
  <2>11. 0 \in Nat /\ answered'[c] = answered[c]
    BY <1>1
  <2>12. QED BY <2>4, <2>7, <2>8, <2>9, <2>10, <2>11, MovingKeeps
<1>5. CASE "start" \notin Project(c).scripts
  <2>1. Go(c, "remove") /\ UNCHANGED <<port, app>>
    BY <1>5 DEF StartApplication
  <2>2. Quietly(c)
    BY <1>1, <1>2, <2>1, QuietIsQuiet
  <2>3. Leads(check[c], "remove", 0) /\ Remains(check[c], "remove", 0) /\ Carries(check[c], "remove")
    BY <1>1, <1>2, <1>3, <1>5 DEF Leads, Remains, Carries, Project
  <2>4. QED BY <1>3, <2>1, <2>2, <2>3, StridingKeeps
<1>6. QED BY <1>4, <1>5

\* What follows a failure in the Docker parts, and what follows a success.
GivesUp(q, point) ==
  \/ q.kind = "readiness" /\ q.at \in {"docker port", "docker build"} /\ point = "docker remove"
  \/ q.kind = "readiness" /\ q.at = "docker run" /\ point = "docker rmi"
  \/ q.kind = "readiness" /\ q.at \in {"docker version", "docker remove"} /\ point = "verdict"
  \/ q.kind = "preview" /\ q.at \in {"preview build", "preview run"} /\ point = "preview rm"

GoesOn(q, point) ==
  \/ q.kind = "readiness" /\ q.at = "docker version" /\ point = "docker add"
  \/ q.kind = "readiness" /\ q.at = "docker build" /\ point = "docker port"
  \/ q.kind = "readiness" /\ q.at = "docker port" /\ point = "docker run"
  \/ q.kind = "readiness" /\ q.at = "docker run" /\ point = "docker probe"
  \/ q.kind = "readiness" /\ q.at = "docker logs" /\ point = "docker stop"
  \/ q.kind = "readiness" /\ q.at = "docker stop" /\ point = "docker rmi"
  \/ q.kind = "readiness" /\ q.at = "docker rmi" /\ point = "docker remove"
  \/ q.kind = "readiness" /\ q.at = "docker remove" /\ point = "verdict"
  \/ q.kind = "preview" /\ q.at = "preview port" /\ point = "preview file"
  \/ q.kind = "preview" /\ q.at = "preview build" /\ point = "preview run"
  \/ q.kind = "preview" /\ q.at = "preview run" /\ point = "preview probe"
  \/ q.kind = "preview" /\ q.at = "docker logs" /\ point = "preview rm"
  \/ q.kind = "preview" /\ q.at = "preview rm" /\ point = "preview rmi"
  \/ q.kind = "preview" /\ q.at = "preview rmi" /\ point = "verdict"

\* Either, with its findings.
Follows(q, point, n) == (n = 1 /\ GivesUp(q, point)) \/ (n = 0 /\ GoesOn(q, point))

\* Both stay in their part and pass no probe.
LEMMA FollowingLeads ==
  ASSUME NEW q, NEW point, NEW n, Follows(q, point, n)
  PROVE  /\ n \in Nat /\ (n > 0 <=> n = 1)
         /\ point \in AllPoints /\ point # "boot" /\ q.at # "boot"
         /\ Leads(q, point, n) /\ Remains(q, point, n)
<1>1. n \in Nat /\ (n > 0 <=> n = 1)
  BY DEF Follows
<1>2. \/ q.kind = "readiness" /\ point \in ReadinessPoints /\ q.at \in ReadinessPoints
      \/ q.kind = "preview" /\ point \in PreviewPoints /\ q.at \in PreviewPoints
  <2>1. CASE GivesUp(q, point)
    BY <2>1 DEF GivesUp, ReadinessPoints, PreviewPoints, Unprobed, Unseen
  <2>2. CASE GoesOn(q, point)
    BY <2>2 DEF GoesOn, ReadinessPoints, PreviewPoints, Unprobed, Unseen
  <2>3. QED BY <2>1, <2>2 DEF Follows
<1>3. \A p \in ReadinessPoints \cup PreviewPoints :
        p \notin ToMigration /\ p \notin ToSeed /\ p \notin {"idle", "ended", "remove", "boot"}
  BY DEF ReadinessPoints, PreviewPoints, Unprobed, Unseen, ToMigration, ToSeed
<1>4. point \in AllPoints /\ point # "boot" /\ q.at # "boot"
  BY <1>2, <1>3 DEF AllPoints
<1>5. Leads(q, point, n)
  BY <1>2, <1>3 DEF Leads
<1>6. Remains(q, point, n)
  <2>1. CASE n = 1
    BY <1>1, <2>1 DEF Remains
  <2>2. CASE GoesOn(q, point) /\ q.kind = "readiness"
    <3>1. q.at \notin HeavyPoints
      BY <1>2, <2>2 DEF ReadinessPoints, Unprobed, HeavyPoints, NpmPoints
    <3>2. q.at \in Unprobed => point \in Unprobed
      BY <2>2 DEF GoesOn, Unprobed
    <3>3. QED BY <2>2, <3>1, <3>2 DEF Remains
  <2>3. CASE GoesOn(q, point) /\ q.kind = "preview"
    <3>1. q.at \in Unseen => point \in Unseen
      BY <2>3 DEF GoesOn, Unseen
    <3>2. QED BY <2>3, <3>1 DEF Remains
  <2>4. QED BY <1>1, <1>2, <2>1, <2>2, <2>3 DEF Follows
<1>7. QED BY <1>1, <1>4, <1>5, <1>6

\* The container and the image fit the point the check goes to.
BoxGoes(c, point) ==
  c \in excused' \/
    /\ box'[c] # "none" => point \in ContainerPoints
    /\ c \in image' => point \in ImagePoints

\* The steps of the Docker parts keep the invariant.
LEMMA FollowingKeeps ==
  ASSUME ChecksInv, NEW c \in Checks, NEW point, NEW n, Follows(check[c], point, n),
         Record(c, "docker", n, point) \/ (n = 0 /\ Go(c, point)),
         command' \in [Checks -> {"none", "ok", "fail", "slow", "deaf"}], Idles(c),
         TreesStay,
         Tree(c)' => Tree(c) /\ (check[c].kind # "preview" => point \in TreePoints),
         port' \in [Checks -> Ports \cup {0}], mishaps' \in 0..MaxMishaps, UNCHANGED <<others, app, answered>>,
         box' \in [Checks -> {"none", "up", "exited"}], \A d \in Checks : d # c => box'[d] = box[d],
         image' \subseteq Checks, \A d \in Checks : d # c /\ d \in image' => d \in image,
         excused' \subseteq Checks, excused \subseteq excused', BoxGoes(c, point)
  PROVE  ChecksInv'
<1>1. /\ n \in Nat /\ point \in AllPoints /\ point # "boot" /\ check[c].at # "boot"
      /\ Leads(check[c], point, n) /\ Remains(check[c], point, n)
  BY FollowingLeads
<1>2. CheckTypes /\ "docker" \in AllPoints \cup {"stubs", "docker"}
  BY DEF ChecksInv
<1>3. /\ check' \in [Checks -> CheckRows] /\ Alone(c)
      /\ check'[c].at = point /\ check'[c].verdict = check[c].verdict /\ check'[c].kind = check[c].kind
      /\ \E ids : Moved(check[c], check'[c], point, n, ids) /\ (n > 0 <=> ids # {})
  <2>1. CASE Record(c, "docker", n, point)
    BY <1>1, <1>2, <2>1, RecordMoves
  <2>2. CASE n = 0 /\ Go(c, point)
    BY <1>1, <1>2, <2>2, GoMoves
  <2>3. QED BY <2>1, <2>2
<1>4. PICK ids : Moved(check[c], check'[c], point, n, ids) /\ (n > 0 <=> ids # {})
  BY <1>3
<1>5. CheckTypes'
  BY <1>2, <1>3 DEF CheckTypes, TreesStay
<1>6. Elsewhere(c)
  BY <1>3 DEF Elsewhere, Alone, Idles, TreesStay
<1>7. check[c].at \notin {"idle", "ended"}
  BY <1>1 DEF Leads
<1>8. LeavesFit(check'[c], Tree(c)', app'[c])
  BY <1>1, <1>3, <1>7, Stands DEF LeavesFit
<1>9. CommandFits(check'[c], command'[c]) /\ BoxFits(c)'
  BY <1>3 DEF CommandFits, Idles, BoxFits, BoxGoes
<1>10. answered'[c] = answered[c]
  OBVIOUS
<1>11. QED BY <1>1, <1>4, <1>5, <1>6, <1>8, <1>9, <1>10, MovingKeeps

\* A check that stands somewhere and goes on from there has no container or image
\* that it may not have there.
LEMMA BoxStays ==
  ASSUME ChecksInv, NEW c \in Checks, NEW point, check[c].at \notin {"idle", "ended"},
         UNCHANGED <<box, image>>, excused \subseteq excused',
         check[c].at \in ContainerPoints => point \in ContainerPoints,
         check[c].at \in ImagePoints => point \in ImagePoints
  PROVE  BoxGoes(c, point)
BY Stands DEF BoxGoes

\* Only the removal leaves the part in which a readiness check has its worktree.
LEMMA TreeStays ==
  ASSUME ChecksInv, NEW c \in Checks, NEW point, NEW n, Follows(check[c], point, n),
         check[c].at # "docker remove", check[c].kind # "preview", Tree(c)
  PROVE  point \in TreePoints
<1>1. check[c].at \notin {"idle", "ended"} 
  BY FollowingLeads DEF Leads
<1>2. check[c].at \in TreePoints /\ "docker version" \notin TreePoints
  BY <1>1, Stands DEF TreePoints, NpmPoints
<1>3. CASE GivesUp(check[c], point)
  BY <1>2, <1>3 DEF GivesUp, TreePoints
<1>4. CASE GoesOn(check[c], point)
  BY <1>2, <1>4 DEF GoesOn, TreePoints
<1>5. QED BY <1>3, <1>4 DEF Follows

\* A port for a container.
LEMMA FindPortKeeps == ASSUME ChecksInv, NEW c \in Checks, FindPort(c) PROVE ChecksInv'
<1>1. PICK point : /\ Go(c, point)
                   /\ \/ check[c].at = "docker port" /\ point = "docker run"
                      \/ check[c].at = "preview port" /\ point = "preview file"
  BY DEF FindPort, At
<1>2. /\ UNCHANGED <<others, command, worktree, app, box, image, mishaps, answered, excused, unremoved>> /\ Acquire(c)
  BY DEF FindPort
<1>3. PICK q \in Ports : port' = [port EXCEPT ![c] = q]
  BY <1>2 DEF Acquire
<1>4. /\ check[c].at = "docker port" => check[c].kind = "readiness"
      /\ check[c].at = "preview port" => check[c].kind = "preview"
  BY WhereItIs DEF ReadinessPoints, Unprobed, PreviewPoints, Unseen
<1>5. Follows(check[c], point, 0)
  BY <1>1, <1>4 DEF Follows, GoesOn
<1>6. check[c].at \notin {"idle", "ended", "docker remove"} /\ check[c].at \notin Docker /\ check[c].at \notin NpmPoints
      /\ check[c].at \notin ContainerPoints /\ (check[c].at \in ImagePoints => point \in ImagePoints)
  BY <1>1 DEF Docker, NpmPoints, ContainerPoints, ImagePoints
<1>7. Idles(c)
  BY <1>2, <1>6, Stands DEF Idles
<1>8. CheckTypes
  BY DEF ChecksInv
<1>9. port' \in [Checks -> Ports \cup {0}]
  BY <1>3, <1>8 DEF CheckTypes
<1>10. BoxGoes(c, point)
  BY <1>2, <1>6, BoxStays
<1>11. Tree(c)' => Tree(c) /\ (check[c].kind # "preview" => point \in TreePoints)
  BY <1>2, <1>5, <1>6, TreeStays
<1>12. QED BY <1>1, <1>2, <1>5, <1>7, <1>8, <1>9, <1>10, <1>11, FollowingKeeps DEF CheckTypes, TreesStay

\* Mishaps are counted.
LEMMA MishapIsCounted == ASSUME CheckTypes, Mishap \/ UNCHANGED mishaps PROVE mishaps' \in 0..MaxMishaps
<1>1. mishaps \in 0..MaxMishaps /\ MaxMishaps \in Nat
  BY ValidationAssumption DEF CheckTypes
<1>2. \/ mishaps < MaxMishaps /\ mishaps' = mishaps + 1
      \/ mishaps' = mishaps
  BY DEF Mishap
<1>3. QED BY <1>1, <1>2

\* Without a port the image stays, which a docker failure excuses.
LEMMA DockerPortFailsKeeps ==
  ASSUME ChecksInv, NEW c \in Checks, At(c, "docker port"), PortFails(c)
  PROVE  ChecksInv'
<1>1. /\ check[c].at = "docker port" /\ Record(c, "docker", 1, "docker remove")
      /\ (Mishap \/ UNCHANGED mishaps) /\ excused' = excused \cup {c}
      /\ UNCHANGED <<others, command, worktree, port, app, box, image, answered, unremoved>>
  BY DEF PortFails, At, Throw
<1>2. check[c].kind = "readiness"
  BY <1>1, WhereItIs DEF ReadinessPoints, Unprobed
<1>3. Follows(check[c], "docker remove", 1)
  BY <1>1, <1>2 DEF Follows, GivesUp
<1>4. check[c].at \notin {"idle", "ended", "docker remove"} /\ check[c].at \notin Docker /\ check[c].at \notin NpmPoints
  BY <1>1 DEF Docker, NpmPoints
<1>5. Idles(c)
  BY <1>1, <1>4, Stands DEF Idles
<1>6. CheckTypes
  BY DEF ChecksInv
<1>7. BoxGoes(c, "docker remove")
  BY <1>1 DEF BoxGoes
<1>8. Tree(c)' => Tree(c) /\ (check[c].kind # "preview" => "docker remove" \in TreePoints)
  BY <1>1 DEF TreePoints
<1>9. mishaps' \in 0..MaxMishaps
  BY <1>1, <1>6, MishapIsCounted
<1>10. QED BY <1>1, <1>3, <1>5, <1>6, <1>7, <1>8, <1>9, FollowingKeeps DEF CheckTypes, TreesStay

\* The finally block of the Docker part, and it is no matter whether it throws.
LEMMA DockerTreeGoesKeeps ==
  ASSUME ChecksInv, NEW c \in Checks, check[c].at = "docker remove",
         Go(c, "verdict") \/ Record(c, "docker", 1, "verdict"), TreesStay, ~Tree(c)',
         Mishap \/ UNCHANGED mishaps, UNCHANGED <<others, command, port, app, box, image, answered, excused>>
  PROVE  ChecksInv'
<1>1. check[c].kind = "readiness"
  BY WhereItIs DEF ReadinessPoints
<1>2. PICK n : /\ n \in {0, 1} /\ (Record(c, "docker", n, "verdict") \/ (n = 0 /\ Go(c, "verdict")))
  OBVIOUS
<1>3. Follows(check[c], "verdict", n)
  BY <1>1, <1>2 DEF Follows, GoesOn, GivesUp
<1>4. check[c].at \notin {"idle", "ended"} /\ check[c].at \notin Docker /\ check[c].at \notin NpmPoints
      /\ check[c].at \notin ContainerPoints /\ check[c].at \notin ImagePoints
  BY DEF Docker, NpmPoints, ContainerPoints, ImagePoints
<1>5. Idles(c)
  BY <1>4, Stands DEF Idles
<1>6. CheckTypes
  BY DEF ChecksInv
<1>7. BoxGoes(c, "verdict")
  BY <1>4, BoxStays
<1>8. mishaps' \in 0..MaxMishaps
  BY <1>6, MishapIsCounted
<1>9. QED BY <1>2, <1>3, <1>5, <1>6, <1>7, <1>8, FollowingKeeps DEF CheckTypes

\* A probe that somebody answers.
LEMMA ContainerAnswersKeeps == ASSUME ChecksInv, NEW c \in Checks, ContainerAnswers(c) PROVE ChecksInv'
<1>1. PICK point : /\ Record(c, "docker", 0, point)
                   /\ \/ check[c].at = "docker probe" /\ point = "docker stop"
                      \/ check[c].at = "preview probe" /\ point = "docker logs"
  BY DEF ContainerAnswers, At
<1>2. /\ Answered(c)
      /\ UNCHANGED <<others, command, worktree, port, app, box, image, mishaps, excused, unremoved>>
  BY DEF ContainerAnswers
<1>3. point \in AllPoints /\ CheckTypes /\ "docker" \in AllPoints \cup {"stubs", "docker"} /\ 0 \in Nat
  BY <1>1 DEF AllPoints, ReadinessPoints, ChecksInv
<1>4. /\ check' \in [Checks -> CheckRows] /\ Alone(c)
      /\ check'[c].at = point /\ check'[c].verdict = check[c].verdict /\ check'[c].kind = check[c].kind
      /\ \E ids : Moved(check[c], check'[c], point, 0, ids) /\ (0 > 0 <=> ids # {})
  BY <1>1, <1>3, RecordMoves
<1>5. PICK ids : Moved(check[c], check'[c], point, 0, ids) /\ (0 > 0 <=> ids # {})
  BY <1>4
<1>6. /\ answered' \in [Checks -> {"nobody", "own", "other"}]
      /\ \A d \in Checks : d # c => answered'[d] = answered[d]
      /\ answered'[c] # "nobody"
  BY <1>2, <1>3, AnsweredIs
<1>7. CheckTypes'
  BY <1>2, <1>3, <1>4, <1>6 DEF CheckTypes
<1>8. Elsewhere(c)
  BY <1>2, <1>4, <1>6 DEF Elsewhere, Alone
<1>9. check[c].at \notin Docker /\ check[c].at \notin NpmPoints /\ check[c].at \notin {"idle", "ended", "boot"}
      /\ point \in ContainerPoints /\ point \in ImagePoints
  BY <1>1 DEF Docker, NpmPoints, ContainerPoints, ImagePoints
<1>10. /\ check[c].at = "docker probe" => check[c].kind = "readiness"
       /\ check[c].at = "preview probe" => check[c].kind = "preview"
  BY WhereItIs DEF ReadinessPoints, Unprobed, PreviewPoints, Unseen
<1>11. Tree(c) => point \in TreePoints
  <2>1. "preview probe" \notin TreePoints /\ "docker stop" \in TreePoints
    BY DEF TreePoints, NpmPoints
  <2>2. QED BY <1>1, <1>9, <2>1, Stands
<1>12. LeavesFit(check'[c], Tree(c)', app'[c])
  BY <1>2, <1>4, <1>9, <1>11, Stands DEF LeavesFit
<1>13. CommandFits(check'[c], command'[c]) /\ BoxFits(c)'
  BY <1>2, <1>4, <1>9, Stands DEF CommandFits, BoxFits
<1>14. Leads(check[c], point, 0)
  <2>1. point \in ReadinessPoints \cup PreviewPoints /\ (check[c].kind = "readiness" => point \in ReadinessPoints)
        /\ (check[c].kind = "preview" => point \in PreviewPoints)
    BY <1>1, <1>10 DEF ReadinessPoints, PreviewPoints
  <2>2. check[c].at \notin ToMigration /\ check[c].at \notin ToSeed
        /\ check[c].at \notin {"idle", "ended", "remove"} /\ point \notin {"idle", "ended"}
    BY <1>1 DEF ToMigration, ToSeed
  <2>3. QED BY <1>1, <1>10, <2>1, <2>2 DEF Leads
<1>15. QED BY <1>3, <1>5, <1>6, <1>7, <1>8, <1>12, <1>13, <1>14, MovingKeeps

\* What a docker command that returns has done to the container and the image.
LEMMA DockerDoesIs ==
  ASSUME CheckTypes, NEW c \in Checks, DockerDoes(c), check[c].at \in Docker, Returns(c)
  PROVE  /\ box' \in [Checks -> {"none", "up", "exited"}] /\ \A d \in Checks : d # c => box'[d] = box[d]
         /\ image' \subseteq Checks /\ \A d \in Checks : d # c /\ d \in image' => d \in image
         /\ check[c].at \notin {"docker build", "preview build"} => (c \in image' => c \in image)
         /\ check[c].at = "docker build" /\ command[c] = "fail" => (c \in image' => c \in image)
         /\ check[c].at \notin {"docker run", "preview run"} => box'[c] = "none" \/ box'[c] = box[c]
         /\ check[c].at = "docker run" /\ command[c] = "fail" => box'[c] = "none"
         /\ check[c].at \in {"docker stop", "preview rm"} /\ command[c] = "ok" => box'[c] = "none"
         /\ check[c].at = "docker rmi" /\ command[c] = "ok" => c \notin image'
         /\ check[c].at = "preview rmi" /\ command[c] = "ok" /\ box[c] = "none" => c \notin image'
<1>1. box \in [Checks -> {"none", "up", "exited"}] /\ image \subseteq Checks
  BY DEF CheckTypes
<1> DEFINE s == check[c].at
<1>2. CASE s \in {"docker build", "preview build"}
  <2>1. UNCHANGED box /\ \E done \in Done(c) : image' = IF done THEN image \cup {c} ELSE image
    BY <1>2 DEF DockerDoes
  <2>2. PICK done \in Done(c) : image' = IF done THEN image \cup {c} ELSE image
    BY <2>1
  <2>3. command[c] = "fail" => done = FALSE
    BY <2>2 DEF Done
  <2>4. image' = image \cup {c} \/ (image' = image)
    BY <2>2
  <2>5. command[c] = "fail" => image' = image
    BY <2>2, <2>3
  <2>6. QED BY <1>1, <1>2, <2>1, <2>4, <2>5
<1>3. CASE s \in {"docker run", "preview run"}
  <2>1. s \notin {"docker build", "preview build"}
    BY <1>3
  <2>2. UNCHANGED image /\ \E done \in Done(c) : box' = [box EXCEPT ![c] =
                IF done THEN "up" ELSE IF s = "preview run" THEN "exited" ELSE "none"]
    BY <1>3, <2>1 DEF DockerDoes
  <2>3. PICK done \in Done(c) : box' = [box EXCEPT ![c] =
                IF done THEN "up" ELSE IF s = "preview run" THEN "exited" ELSE "none"]
    BY <2>2
  <2>4. PICK left : left = IF done THEN "up" ELSE IF s = "preview run" THEN "exited" ELSE "none"
    OBVIOUS
  <2>5. box' = [box EXCEPT ![c] = left] /\ left \in {"none", "up", "exited"}
    BY <2>3, <2>4
  <2>6. command[c] = "fail" => done = FALSE
    BY <2>3 DEF Done
  <2>7. s = "docker run" /\ command[c] = "fail" => left = "none"
    BY <2>4, <2>6
  <2>8. QED BY <1>1, <1>3, <2>2, <2>5, <2>7
<1>4. CASE s \in {"docker stop", "preview rm"}
  <2>1. s \notin {"docker build", "preview build"} /\ s \notin {"docker run", "preview run"}
    BY <1>4
  <2>2. UNCHANGED image /\ box' = (IF command[c] = "ok" THEN [box EXCEPT ![c] = "none"] ELSE box)
    BY <1>4, <2>1 DEF DockerDoes
  <2>3. (command[c] = "ok" /\ box' = [box EXCEPT ![c] = "none"]) \/ (command[c] # "ok" /\ box' = box)
    BY <2>2
  <2>4. QED BY <1>1, <1>4, <2>2, <2>3
<1>5. CASE s \in {"docker rmi", "preview rmi"}
  <2>1. s \notin {"docker build", "preview build"} /\ s \notin {"docker run", "preview run"}
        /\ s \notin {"docker stop", "preview rm"}
    BY <1>5
  <2>2. UNCHANGED box /\ image' = IF command[c] = "ok" /\ (s = "docker rmi" \/ box[c] = "none")
                       THEN image \ {c} ELSE image
    BY <1>5, <2>1 DEF DockerDoes
  <2>3. QED BY <1>1, <1>5, <2>2
<1>6. CASE s \notin {"docker build", "preview build"} \cup {"docker run", "preview run"}
           \cup {"docker stop", "preview rm"} \cup {"docker rmi", "preview rmi"}
  <2>1. UNCHANGED <<box, image>>
    BY <1>6 DEF DockerDoes
  <2>2. QED BY <1>1, <1>6, <2>1
<1>7. QED BY <1>2, <1>3, <1>4, <1>5, <1>6

\* After every docker command, what it has left is removed later or was its failure.
LEMMA DockerReturnsKeeps == ASSUME ChecksInv, NEW c \in Checks, DockerReturns(c) PROVE ChecksInv'
<1>1. PICK s : s = check[c].at
  OBVIOUS
<1>2. PICK failed \in BOOLEAN : failed = (s \in Decisive /\ command[c] # "ok")
  OBVIOUS
<1>3. PICK n : n = IF failed THEN 1 ELSE 0
  OBVIOUS
<1>4. PICK point : point = IF failed THEN Afterwards(s) ELSE Onward(c)
  OBVIOUS
<1>5. /\ s \in Docker /\ Returns(c) /\ DockerDoes(c) /\ Record(c, "docker", n, point)
      /\ UNCHANGED <<others, worktree, port, app, mishaps, answered, unremoved>>
  BY <1>1, <1>2, <1>3, <1>4 DEF DockerReturns
<1>6. /\ excused' \subseteq Checks /\ excused \subseteq excused'
      /\ command[c] = "slow" /\ s \in {"docker build", "docker run"} => c \in excused'
      /\ command[c] # "ok" /\ s \in Docker \ Decisive => c \in excused'
  BY <1>1 DEF DockerReturns, ChecksInv, CheckTypes
<1>7. CheckTypes
  BY DEF ChecksInv
<1>8. command' \in [Checks -> {"none", "ok", "fail", "slow", "deaf"}] /\ Idles(c)
      /\ command[c] \in {"ok", "fail", "slow"}
  BY <1>5, <1>7 DEF Returns, CheckTypes, Idles
<1>9. s \notin {"idle", "ended", "docker remove"}
  BY <1>5 DEF Docker
<1>10. /\ s \in {"docker version", "docker build", "docker run", "docker stop", "docker rmi"} =>
            check[c].kind = "readiness"
       /\ s \in {"preview build", "preview run", "preview rm", "preview rmi"} => check[c].kind = "preview"
       /\ s = "docker logs" => check[c].kind \in {"readiness", "preview"}
  <2>1. /\ {"docker version", "docker build", "docker run", "docker stop", "docker rmi"} \subseteq
            ReadinessPoints \ {"docker logs", "verdict"}
        /\ {"preview build", "preview run", "preview rm", "preview rmi"} \subseteq
            PreviewPoints \ {"docker logs", "verdict"}
    BY DEF ReadinessPoints, Unprobed, PreviewPoints, Unseen
  <2>2. QED BY <1>1, <2>1, WhereItIs
<1>11. Follows(check[c], point, n)
  <2>1. CASE failed
    <3>1. /\ s \in Decisive /\ point = Afterwards(s) /\ n = 1
      BY <1>2, <1>3, <1>4, <2>1
    <3>2. GivesUp(check[c], point)
      BY <1>1, <1>10, <3>1 DEF GivesUp, Afterwards, Decisive
    <3>3. QED BY <3>1, <3>2 DEF Follows
  <2>2. CASE ~failed
    <3>1. point = Onward(c) /\ n = 0
      BY <1>2, <1>3, <1>4, <2>2
    <3>2. GoesOn(check[c], point)
      <4>1. CASE s = "docker logs"
        BY <1>1, <1>10, <3>1, <4>1 DEF GoesOn, Onward
      <4>2. CASE s \in {"docker version", "docker build", "docker run", "docker stop", "docker rmi"}
        BY <1>1, <1>10, <3>1, <4>2 DEF GoesOn, Onward
      <4>3. CASE s \in {"preview build", "preview run", "preview rm", "preview rmi"}
        BY <1>1, <1>10, <3>1, <4>3 DEF GoesOn, Onward
      <4>4. QED BY <1>5, <4>1, <4>2, <4>3 DEF Docker
    <3>3. QED BY <3>1, <3>2 DEF Follows
  <2>3. QED BY <2>1, <2>2
<1>12. /\ box' \in [Checks -> {"none", "up", "exited"}] /\ \A d \in Checks : d # c => box'[d] = box[d]
       /\ image' \subseteq Checks /\ \A d \in Checks : d # c /\ d \in image' => d \in image
       /\ s \notin {"docker build", "preview build"} => (c \in image' => c \in image)
       /\ s = "docker build" /\ command[c] = "fail" => (c \in image' => c \in image)
       /\ s \notin {"docker run", "preview run"} => box'[c] = "none" \/ box'[c] = box[c]
       /\ s = "docker run" /\ command[c] = "fail" => box'[c] = "none"
       /\ s \in {"docker stop", "preview rm"} /\ command[c] = "ok" => box'[c] = "none"
       /\ s = "docker rmi" /\ command[c] = "ok" => c \notin image'
       /\ s = "preview rmi" /\ command[c] = "ok" /\ box[c] = "none" => c \notin image'
  BY <1>1, <1>5, <1>7, DockerDoesIs
<1>13. /\ c \notin excused' /\ box[c] # "none" => s \in ContainerPoints
       /\ c \notin excused' /\ c \in image => s \in ImagePoints
  BY <1>1, <1>6, <1>9, Stands
<1>14. BoxGoes(c, point)
  <2> SUFFICES ASSUME c \notin excused'
               PROVE  /\ box'[c] # "none" => point \in ContainerPoints
                      /\ c \in image' => point \in ImagePoints
    BY DEF BoxGoes
  <2>1. CASE s = "docker version"
    <3>1. s \notin ContainerPoints /\ s \notin ImagePoints
      BY <2>1 DEF ContainerPoints, ImagePoints
    <3>2. box'[c] = "none" /\ c \notin image'
      BY <1>12, <1>13, <2>1, <3>1
    <3>3. QED BY <3>2
  <2>2. CASE s = "docker build"
    <3>1. s \notin ContainerPoints /\ s \notin ImagePoints
      BY <2>2 DEF ContainerPoints, ImagePoints
    <3>2. box'[c] = "none" /\ (command[c] = "fail" => c \notin image') /\ command[c] # "slow"
      BY <1>6, <1>12, <1>13, <2>2, <3>1
    <3>3. command[c] # "fail" => point = "docker port"
      BY <1>1, <1>2, <1>4, <1>8, <2>2, <3>2 DEF Onward
    <3>4. QED BY <3>2, <3>3 DEF ImagePoints
  <2>3. CASE s = "docker run"
    <3>1. command[c] # "slow" /\ (command[c] = "fail" => box'[c] = "none")
      BY <1>6, <1>12, <2>3
    <3>2. command[c] # "fail" => point = "docker probe"
      BY <1>1, <1>2, <1>4, <1>8, <2>3, <3>1 DEF Onward
    <3>3. command[c] = "fail" => point = "docker rmi"
      BY <1>2, <1>4, <2>3 DEF Afterwards, Decisive
    <3>4. QED BY <3>1, <3>2, <3>3 DEF ImagePoints, ContainerPoints
  <2>4. CASE s = "docker logs"
    <3>1. point \in {"preview rm", "docker stop"}
      BY <1>1, <1>2, <1>4, <2>4 DEF Onward, Decisive
    <3>2. QED BY <3>1 DEF ImagePoints, ContainerPoints
  <2>5. CASE s = "docker stop"
    <3>1. point = "docker rmi" /\ command[c] = "ok"
      BY <1>1, <1>2, <1>4, <1>6, <2>5 DEF Onward, Decisive, Docker
    <3>2. QED BY <1>12, <2>5, <3>1 DEF ImagePoints
  <2>6. CASE s = "docker rmi"
    <3>1. s \notin ContainerPoints /\ command[c] = "ok"
      BY <1>6, <2>6 DEF ContainerPoints, Decisive, Docker
    <3>2. box'[c] = "none" /\ c \notin image'
      BY <1>12, <1>13, <2>6, <3>1
    <3>3. QED BY <3>2
  <2>7. CASE s = "preview build"
    <3>1. s \notin ContainerPoints
      BY <2>7 DEF ContainerPoints
    <3>2. box'[c] = "none"
      BY <1>12, <1>13, <2>7, <3>1
    <3>3. point \in {"preview run", "preview rm"}
      BY <1>1, <1>2, <1>4, <2>7 DEF Onward, Afterwards
    <3>4. QED BY <3>2, <3>3 DEF ImagePoints, ContainerPoints
  <2>8. CASE s = "preview run"
    <3>1. point \in {"preview probe", "preview rm"}
      BY <1>1, <1>2, <1>4, <2>8 DEF Onward, Afterwards
    <3>2. QED BY <3>1 DEF ImagePoints, ContainerPoints
  <2>9. CASE s = "preview rm"
    <3>1. point = "preview rmi" /\ command[c] = "ok"
      BY <1>1, <1>2, <1>4, <1>6, <2>9 DEF Onward, Decisive, Docker
    <3>2. QED BY <1>12, <2>9, <3>1 DEF ImagePoints
  <2>10. CASE s = "preview rmi"
    <3>1. s \notin ContainerPoints /\ command[c] = "ok"
      BY <1>6, <2>10 DEF ContainerPoints, Decisive, Docker
    <3>2. box[c] = "none"
      BY <1>6, <1>13, <3>1
    <3>3. box'[c] = "none" /\ c \notin image'
      BY <1>12, <2>10, <3>1, <3>2
    <3>4. QED BY <3>3
  <2>11. QED BY <1>5, <2>1, <2>2, <2>3, <2>4, <2>5, <2>6, <2>7, <2>8, <2>9, <2>10 DEF Docker
<1>15. Tree(c)' => Tree(c) /\ (check[c].kind # "preview" => point \in TreePoints)
  BY <1>1, <1>5, <1>9, <1>11, TreeStays
<1>16. QED BY <1>5, <1>6, <1>7, <1>8, <1>11, <1>12, <1>14, <1>15, FollowingKeeps DEF CheckTypes, TreesStay

\* Nothing but the command, the mishaps or the other programs changes.
LEMMA LaunchKeeps == ASSUME ChecksInv, NEW c \in Checks, Launch(c) PROVE ChecksInv'
<1>1. CheckTypes
  BY DEF ChecksInv
<1>2. PICK fate \in {"ok", "fail", "slow", "deaf"} : command' = [command EXCEPT ![c] = fate]
  BY DEF Launch
<1>3. mishaps' \in 0..MaxMishaps
  BY <1>1, MishapIsCounted DEF Launch, CheckTypes
<1>4. UNCHANGED <<others, check, worktree, port, app, box, image, answered, excused, unremoved>>
  BY DEF Launch
<1>5. command' \in [Checks -> {"none", "ok", "fail", "slow", "deaf"}]
      /\ \A d \in Checks : d # c => command'[d] = command[d]
  BY <1>1, <1>2 DEF CheckTypes
<1>6. CheckTypes'
  BY <1>1, <1>3, <1>4, <1>5 DEF CheckTypes
<1>7. Elsewhere(c)
  BY <1>4, <1>5 DEF Elsewhere
<1>8. CheckFits(c)
  BY DEF ChecksInv
<1>9. CommandFits(check'[c], command'[c])
  <2>1. \/ check[c].at \in Docker
        \/ check[c].at \in Npm /\ Runs(Project(c), check[c].at)
    BY DEF Launch
  <2>2. QED BY <1>4, <2>1, PointsAre DEF CommandFits, Project
<1>10. RowFits(check'[c]) /\ AnswerFits(check'[c], answered'[c])
      /\ LeavesFit(check'[c], Tree(c)', app'[c]) /\ BoxFits(c)'
  BY <1>4, <1>8 DEF CheckFits, BoxFits
<1>11. QED BY <1>6, <1>7, <1>9, <1>10, Apart DEF CheckFits

\* Other programs only touch the ports.
LEMMA OthersKeep == ASSUME ChecksInv, Others PROVE ChecksInv'
<1>1. others' \subseteq Ports
      /\ UNCHANGED <<check, command, worktree, port, app, box, image, mishaps, answered, excused, unremoved>>
  BY DEF Others, ChecksInv, CheckTypes
<1>2. CheckTypes'
  BY <1>1 DEF ChecksInv, CheckTypes
<1>3. \A c \in Checks : CheckFits(c)'
  BY <1>1 DEF ChecksInv, CheckFits, BoxFits
<1>4. QED BY <1>2, <1>3 DEF ChecksInv

\* An application or a container changes by itself: it is never started that way.
LEMMA ApplicationKeeps ==
  ASSUME ChecksInv, NEW c \in Checks, NEW left \in {"none", "up", "exited"},
         app' = [app EXCEPT ![c] = left], left = "up" => app[c] = "starting",
         UNCHANGED <<others, check, command, worktree, port, box, image, mishaps, answered, excused, unremoved>>
  PROVE  ChecksInv'
<1>1. CheckTypes
  BY DEF ChecksInv
<1>2. app' \in [Checks -> {"none", "starting", "up", "exited", "dying"}] /\ app'[c] = left
      /\ \A d \in Checks : d # c => app'[d] = app[d]
  BY <1>1 DEF CheckTypes
<1>3. CheckTypes'
  BY <1>1, <1>2 DEF CheckTypes
<1>4. Elsewhere(c)
  BY <1>2 DEF Elsewhere
<1>5. CheckFits(c)
  BY DEF ChecksInv
<1>6. LeavesFit(check'[c], Tree(c)', app'[c])
  BY <1>2, <1>5 DEF CheckFits, LeavesFit
<1>7. RowFits(check'[c]) /\ AnswerFits(check'[c], answered'[c]) /\ CommandFits(check'[c], command'[c]) /\ BoxFits(c)'
  BY <1>5 DEF CheckFits, BoxFits
<1>8. QED BY <1>3, <1>4, <1>6, <1>7, Apart DEF CheckFits

\* Every step of an application is such a change.
LEMMA ApplicationsKeep ==
  ASSUME ChecksInv, NEW c \in Checks, ApplicationRuns(c) \/ ApplicationEnds(c)
  PROVE  ChecksInv'
<1>1. PICK left \in {"none", "up", "exited"} :
        app' = [app EXCEPT ![c] = left] /\ (left = "up" => app[c] = "starting")
  BY DEF ApplicationRuns, ApplicationEnds
<1>2. UNCHANGED <<others, check, command, worktree, port, box, image, mishaps, answered, excused, unremoved>>
  BY DEF ApplicationRuns, ApplicationEnds
<1>3. QED BY <1>1, <1>2, ApplicationKeeps

\* A container that exits was there.
LEMMA ContainerExitsKeeps == ASSUME ChecksInv, NEW c \in Checks, ContainerExits(c) PROVE ChecksInv'
<1>1. CheckTypes
  BY DEF ChecksInv
<1>2. PICK left : left = IF check[c].kind = "preview" THEN "exited" ELSE "none"
  OBVIOUS
<1>3. /\ box[c] = "up" /\ box' = [box EXCEPT ![c] = left] /\ left \in {"exited", "none"}
      /\ UNCHANGED <<others, check, command, worktree, port, app, image, mishaps, answered, excused, unremoved>>
  BY <1>2 DEF ContainerExits
<1>4. box' \in [Checks -> {"none", "up", "exited"}] /\ \A d \in Checks : d # c => box'[d] = box[d]
  BY <1>1, <1>3 DEF CheckTypes
<1>5. CheckTypes'
  BY <1>1, <1>3, <1>4 DEF CheckTypes
<1>6. Elsewhere(c)
  BY <1>3, <1>4 DEF Elsewhere
<1>7. CheckFits(c)
  BY DEF ChecksInv
<1>8. BoxFits(c)'
  <2>1. BoxFits(c) /\ box[c] # "none"
    BY <1>3, <1>7 DEF CheckFits
  <2>2. QED BY <1>3, <2>1 DEF BoxFits
<1>9. RowFits(check'[c]) /\ AnswerFits(check'[c], answered'[c]) /\ CommandFits(check'[c], command'[c])
      /\ LeavesFit(check'[c], Tree(c)', app'[c])
  BY <1>3, <1>7 DEF CheckFits
<1>10. QED BY <1>5, <1>6, <1>8, <1>9, Apart DEF CheckFits

\* A check that has not begun.
LEMMA NoCheckIs ==
  NoCheck \in CheckRows /\ NoCheck.at = "idle" /\ NoCheck.kind = "none" /\ NoCheck.blocking = 0
  /\ NoCheck.failed = {} /\ NoCheck.thrown = FALSE /\ NoCheck.verdict = "none"
<1>1. PICK p : p = CHOOSE x \in Projects : TRUE
  OBVIOUS
<1>2. p \in Projects
  BY <1>1, ValidationAssumption
<1>3. NoCheck = [kind |-> "none", project |-> p, at |-> "idle", blocking |-> 0, failed |-> {},
                 thrown |-> FALSE, verdict |-> "none"]
  BY <1>1 DEF NoCheck
<1>4. "idle" \in AllPoints /\ 0 \in Nat
  BY DEF AllPoints
<1>5. QED BY <1>2, <1>3, <1>4 DEF CheckRows

\* A check begins with nothing.
LEMMA BeginKeeps == ASSUME ChecksInv, NEW c \in Checks, Begin(c) PROVE ChecksInv'
<1>1. CheckTypes /\ CheckFits(c) /\ check[c].at = "idle"
  BY DEF ChecksInv, Begin, At
<1>2. PICK kind \in KindsOf[c], p \in Projects :
         check' = [check EXCEPT ![c] = [NoCheck EXCEPT !.kind = kind, !.project = p,
                     !.at = IF kind = "preview" THEN "preview port" ELSE "add"]]
  BY DEF Begin
<1>3. UNCHANGED <<others, command, worktree, port, app, box, image, mishaps, answered, excused, unremoved>>
  BY DEF Begin
<1>4. PICK point : point = IF kind = "preview" THEN "preview port" ELSE "add"
  OBVIOUS
<1>5. kind \in {"heavy", "readiness", "preview"} /\ p.light \in Nat
  BY ValidationAssumption
<1>6. \/ kind = "preview" /\ point = "preview port"
      \/ kind \in {"heavy", "readiness"} /\ point = "add"
  BY <1>4, <1>5
<1>7. PICK r : r = [NoCheck EXCEPT !.kind = kind, !.project = p, !.at = point]
  OBVIOUS
<1>8. check' = [check EXCEPT ![c] = r]
  BY <1>2, <1>4, <1>7
<1>9. /\ point \in AllPoints /\ point \notin {"idle", "ended"}
      /\ point = "add" => point \in HeavyPoints /\ point \in ToMigration /\ point \in ToSeed /\ point \in ToBoot
      /\ point = "preview port" => point \in PreviewPoints /\ point \in Unseen
  BY <1>6 DEF AllPoints, HeavyPoints, PreviewPoints, Unseen, ToMigration, ToSeed, ToBoot
<1>10. /\ r \in CheckRows /\ r.kind = kind /\ r.project = p /\ r.at = point /\ r.blocking = 0 /\ r.failed = {}
       /\ r.thrown = FALSE /\ r.verdict = "none"
  BY <1>5, <1>7, <1>9, NoCheckIs DEF CheckRows
<1>11. check' \in [Checks -> CheckRows] /\ check'[c] = r /\ \A d \in Checks : d # c => check'[d] = check[d]
  BY <1>1, <1>8, <1>10 DEF CheckTypes
<1>12. CheckTypes'
  BY <1>1, <1>3, <1>11 DEF CheckTypes
<1>13. Elsewhere(c)
  BY <1>3, <1>11 DEF Elsewhere
<1>14. RowFits(r)
  BY <1>5, <1>6, <1>9, <1>10 DEF RowFits
<1>15. AnswerFits(r, answered'[c])
  BY <1>6, <1>9, <1>10 DEF AnswerFits
<1>16. /\ "idle" \notin TreePoints /\ "idle" \notin ContainerPoints /\ "idle" \notin ImagePoints
       /\ "idle" \notin Docker /\ "idle" \notin NpmPoints
  BY DEF TreePoints, ContainerPoints, ImagePoints, Docker, NpmPoints
<1>17. check[c].verdict = "none"
  BY <1>1 DEF CheckFits, RowFits
<1>18. LeavesFit(r, Tree(c)', app'[c]) /\ CommandFits(r, command'[c])
  BY <1>1, <1>3, <1>16, <1>17 DEF CheckFits, LeavesFit, CommandFits
<1>19. BoxFits(c)'
  BY <1>1, <1>3, <1>16 DEF CheckFits, BoxFits
<1>20. QED BY <1>11, <1>12, <1>13, <1>14, <1>15, <1>18, <1>19, Apart DEF CheckFits

\* A heavy validation that throws goes to the removal of its worktree.
LEMMA HeavyThrowsKeeps ==
  ASSUME ChecksInv, NEW c \in Checks, Throw(c, "heavy"), check[c].at \in NpmPoints \cup {"free port"},
         command[c] = "none", Mishap \/ UNCHANGED mishaps, excused' \subseteq Checks, excused \subseteq excused',
         UNCHANGED <<others, command, worktree, port, app, box, image, answered, unremoved>>
  PROVE  ChecksInv'
<1>1. CheckTypes /\ CheckFits(c)
  BY DEF ChecksInv
<1>2. PICK q \in CheckRows : q = check[c]
  BY <1>1 DEF CheckTypes
<1>3. PICK r : r = [q EXCEPT !.at = "remove", !.thrown = TRUE]
  OBVIOUS
<1>4. check' = [check EXCEPT ![c] = r]
  BY <1>2, <1>3 DEF Throw
<1>5. "remove" \in AllPoints /\ "remove" \in HeavyPoints /\ "remove" \in TreePoints
  BY DEF AllPoints, HeavyPoints, TreePoints
<1>6. /\ r \in CheckRows /\ r.kind = q.kind /\ r.project = q.project /\ r.at = "remove" /\ r.thrown = TRUE
      /\ r.blocking = q.blocking /\ r.failed = q.failed /\ r.verdict = q.verdict
  BY <1>3, <1>5 DEF CheckRows
<1>7. check' \in [Checks -> CheckRows] /\ check'[c] = r /\ \A d \in Checks : d # c => check'[d] = check[d]
  BY <1>1, <1>4, <1>6 DEF CheckTypes
<1>8. mishaps' \in 0..MaxMishaps
  BY <1>1, MishapIsCounted
<1>9. CheckTypes'
  BY <1>1, <1>7, <1>8 DEF CheckTypes
<1>10. Elsewhere(c)
  BY <1>7 DEF Elsewhere
<1>11. /\ q.at \in HeavyPoints /\ q.at \notin {"idle", "ended", "boot"}
       /\ q.at \notin ContainerPoints /\ q.at \notin ImagePoints
  BY <1>2 DEF HeavyPoints, NpmPoints, ContainerPoints, ImagePoints
<1>12. /\ q.kind \in {"heavy", "readiness"} /\ q.verdict = "none" /\ q.project.light \in Nat
       /\ app[c] \notin {"starting", "up"} /\ RowFits(q)
       /\ c \notin excused => box[c] = "none" /\ c \notin image
  BY <1>2, <1>11, WhereItIs, Stands
<1>13. Cut(r)
  BY <1>6 DEF Cut
<1>14. RowFits(r)
  BY <1>5, <1>6, <1>12, <1>13 DEF RowFits
<1>15. AnswerFits(r, answered'[c])
  BY <1>13 DEF AnswerFits
<1>16. LeavesFit(r, Tree(c)', app'[c]) /\ CommandFits(r, command'[c])
  BY <1>5, <1>6, <1>12 DEF LeavesFit, CommandFits
<1>17. BoxFits(c)'
  BY <1>12 DEF BoxFits
<1>18. QED BY <1>7, <1>9, <1>10, <1>14, <1>15, <1>16, <1>17, Apart DEF CheckFits

\* A readiness check goes on with the verdict of its heavy validation.
LEMMA ReadinessGoesOnKeeps ==
  ASSUME ChecksInv, NEW c \in Checks, check[c].at = "remove", check[c].kind # "heavy",
         NEW thrown \in BOOLEAN, check[c].thrown => thrown, HeavyEnds(c, thrown), TreesStay, ~Tree(c)',
         Mishap \/ UNCHANGED mishaps, UNCHANGED <<others, command, port, app, box, image, answered, excused>>
  PROVE  ChecksInv'
<1>1. CheckTypes /\ CheckFits(c)
  BY DEF ChecksInv
<1>2. PICK q \in CheckRows : q = check[c]
  BY <1>1 DEF CheckTypes
<1>3. PICK n : n = IF q.blocking = 0 /\ ~thrown THEN 0 ELSE 1
  OBVIOUS
<1>4. PICK ids : ids = IF thrown THEN {"add"} ELSE {}
  OBVIOUS
<1>5. PICK failed : failed = q.failed \cup ids
  OBVIOUS
<1>6. PICK r : r = [q EXCEPT !.at = "scan", !.blocking = n, !.failed = failed]
  OBVIOUS
<1>7. check' = [check EXCEPT ![c].at = "scan", ![c].blocking = IF check[c].blocking = 0 /\ ~thrown THEN 0 ELSE 1,
                         ![c].failed = @ \cup IF thrown THEN {"add"} ELSE {}]
  BY <1>1 DEF HeavyEnds
<1>8. check' = [check EXCEPT ![c] = r]
  BY <1>2, <1>3, <1>4, <1>5, <1>6, <1>7
<1>9. /\ "scan" \in AllPoints /\ "scan" \in ReadinessPoints /\ "scan" \in Unprobed /\ "add" \in AllPoints
      /\ "scan" \notin {"idle", "ended"} /\ "remove" \in HeavyPoints
      /\ "remove" \notin ToMigration /\ "remove" \notin ToSeed
      /\ "remove" \notin ContainerPoints /\ "remove" \notin ImagePoints
      /\ "remove" \notin Docker /\ "remove" \notin NpmPoints
  BY DEF AllPoints, ReadinessPoints, Unprobed, HeavyPoints, ToMigration, ToSeed, ContainerPoints, ImagePoints,
     Docker, NpmPoints
<1>10. n \in Nat /\ failed \in SUBSET (AllPoints \cup {"stubs", "docker"})
  BY <1>3, <1>4, <1>5, <1>9 DEF CheckRows
<1>11. /\ r \in CheckRows /\ r.kind = q.kind /\ r.project = q.project /\ r.at = "scan" /\ r.thrown = q.thrown
       /\ r.blocking = n /\ r.failed = failed /\ r.verdict = q.verdict
  BY <1>6, <1>9, <1>10 DEF CheckRows
<1>12. check' \in [Checks -> CheckRows] /\ check'[c] = r /\ \A d \in Checks : d # c => check'[d] = check[d]
  BY <1>1, <1>8, <1>11 DEF CheckTypes
<1>13. mishaps' \in 0..MaxMishaps
  BY <1>1, MishapIsCounted
<1>14. CheckTypes'
  BY <1>1, <1>12, <1>13 DEF CheckTypes, TreesStay
<1>15. Elsewhere(c)
  BY <1>1, <1>12 DEF Elsewhere, TreesStay
<1>16. /\ q.kind = "readiness" /\ q.verdict = "none" /\ q.project.light \in Nat
       /\ app[c] \notin {"starting", "up"} /\ RowFits(q) /\ command[c] = "none"
       /\ c \notin excused => box[c] = "none" /\ c \notin image
  <2>1. q.kind \in {"heavy", "readiness"} /\ RowFits(q) /\ q.project.light \in Nat
    BY <1>1, <1>2, <1>9, WhereItIs
  <2>2. q.at \notin {"idle", "ended"} /\ q.at # "boot"
    BY <1>1, <1>2
  <2>3. QED BY <1>1, <1>2, <1>9, <2>1, <2>2, Stands
<1>17. /\ q.blocking = 0 <=> q.failed = {}
       /\ q.thrown \in BOOLEAN
  BY <1>16 DEF RowFits, CheckRows
<1>18. /\ n = 0 <=> failed = {}
       /\ q.thrown => failed # {}
       /\ q.failed # {} => failed # {}
  BY <1>2, <1>3, <1>4, <1>5, <1>17
<1>19. Cut(q) => Cut(r)
  BY <1>11, <1>16, <1>18 DEF Cut
<1>20. RowFits(r)
  <2>1. r.project.package /\ PrismaRequired(r.project) =>
         /\ "migration" \notin r.project.scripts => Cut(r)
         /\ "seed" \notin r.project.scripts => Cut(r)
    BY <1>1, <1>2, <1>9, <1>11, <1>16, <1>19 DEF RowFits
  <2>2. r.blocking = 0 <=> r.failed = {}
    BY <1>11, <1>18
  <2>3. r.thrown => r.failed # {}
    BY <1>11, <1>18
  <2>4. QED BY <1>9, <1>11, <1>16, <2>1, <2>2, <2>3 DEF RowFits
<1>21. AnswerFits(r, answered'[c])
  BY <1>9, <1>11, <1>16 DEF AnswerFits
<1>22. LeavesFit(r, Tree(c)', app'[c]) /\ CommandFits(r, command'[c])
  BY <1>1, <1>13, <1>16 DEF LeavesFit, CommandFits
<1>23. BoxFits(c)'
  BY <1>1, <1>16 DEF BoxFits
<1>24. QED BY <1>12, <1>14, <1>15, <1>20, <1>21, <1>22, <1>23, Apart DEF CheckFits

\* A check that ends where it has no worktree, container or image left.
LEMMA DoneKeeps ==
  ASSUME ChecksInv, NEW c \in Checks, NEW verdict \in {"ok", "bad", "thrown", "lost"}, End(c, verdict),
         command' \in [Checks -> {"none", "ok", "fail", "slow", "deaf"}], Idles(c),
         TreesStay,
         mishaps' \in 0..MaxMishaps, UNCHANGED <<others, port, app, box, image, answered>>,
         excused' \subseteq Checks, excused \subseteq excused', check[c].at \notin {"idle", "ended"},
         verdict = "ok" => check[c].blocking = 0, verdict = "bad" => check[c].blocking # 0,
         verdict \in {"ok", "bad"} /\ check[c].kind = "heavy" => ~check[c].thrown,
         verdict = "thrown" => check[c].kind # "readiness",
         verdict \in {"ok", "bad"} =>
           \/ check[c].at = "verdict"
           \/ check[c].at = "remove" /\ check[c].kind = "heavy",
         verdict # "lost" => check[c].at # "boot" /\ ~Tree(c)',
         c \in excused' \/ check[c].at \notin ContainerPoints \cup ImagePoints
  PROVE  ChecksInv'
<1>1. CheckTypes
  BY DEF ChecksInv
<1>2. /\ check' \in [Checks -> CheckRows] /\ Alone(c)
      /\ HasEnded(check[c], check'[c], verdict)
  BY <1>1, EndIs
<1>3. CheckTypes'
  BY <1>1, <1>2 DEF CheckTypes, TreesStay
<1>4. QED BY <1>2, <1>3, EndingKeeps

\* The verdict of the Docker parts.
LEMMA VerdictKeeps == ASSUME ChecksInv, NEW c \in Checks, Verdict(c) PROVE ChecksInv'
<1>1. PICK verdict : verdict = IF check[c].blocking = 0 THEN "ok" ELSE "bad"
  OBVIOUS
<1>2. /\ check[c].at = "verdict" /\ End(c, verdict)
      /\ UNCHANGED <<others, command, worktree, port, app, box, image, mishaps, answered, excused, unremoved>>
  BY <1>1 DEF Verdict, At
<1>3. /\ verdict \in {"ok", "bad", "thrown", "lost"} /\ verdict \in {"ok", "bad"}
      /\ verdict = "ok" => check[c].blocking = 0
      /\ verdict = "bad" => check[c].blocking # 0
  BY <1>1
<1>4. /\ "verdict" \notin Docker /\ "verdict" \notin NpmPoints /\ "verdict" \notin TreePoints
      /\ "verdict" \notin ContainerPoints \cup ImagePoints
  BY DEF Docker, NpmPoints, TreePoints, ContainerPoints, ImagePoints
<1>5. check[c].kind \in {"readiness", "preview"}
  BY <1>2, WhereItIs
<1>6. CheckTypes
  BY DEF ChecksInv
<1>7. ~Tree(c) /\ Idles(c)
  BY <1>2, <1>4, Stands DEF Idles
<1>8. QED BY <1>2, <1>3, <1>4, <1>5, <1>6, <1>7, DoneKeeps DEF CheckTypes, TreesStay

\* The verdict of a heavy validation, once its worktree is gone or has stayed.
LEMMA HeavyIsDoneKeeps ==
  ASSUME ChecksInv, NEW c \in Checks, check[c].at = "remove", check[c].kind = "heavy",
         NEW thrown \in BOOLEAN, check[c].thrown => thrown, HeavyEnds(c, thrown), TreesStay, ~Tree(c)',
         Mishap \/ UNCHANGED mishaps, UNCHANGED <<others, command, port, app, box, image, answered, excused>>
  PROVE  ChecksInv'
<1>1. PICK verdict : verdict = IF thrown THEN "thrown"
                               ELSE IF check[c].blocking = 0 /\ ~thrown THEN "ok" ELSE "bad"
  OBVIOUS
<1>2. End(c, verdict)
  BY <1>1 DEF HeavyEnds
<1>3. /\ verdict \in {"ok", "bad", "thrown", "lost"} /\ verdict # "lost"
      /\ verdict = "ok" => check[c].blocking = 0
      /\ verdict = "bad" => check[c].blocking # 0
      /\ verdict \in {"ok", "bad"} => ~check[c].thrown
  BY <1>1
<1>4. /\ "remove" \notin Docker /\ "remove" \notin NpmPoints
      /\ "remove" \notin ContainerPoints \cup ImagePoints
  BY DEF Docker, NpmPoints, ContainerPoints, ImagePoints
<1>5. CheckTypes
  BY DEF ChecksInv
<1>6. Idles(c)
  BY <1>4, Stands DEF Idles
<1>7. mishaps' \in 0..MaxMishaps
  BY <1>5, MishapIsCounted
<1>8. QED BY <1>2, <1>3, <1>4, <1>5, <1>6, <1>7, DoneKeeps DEF CheckTypes

\* A process that stops leaves everything: the verdict is lost.
LEMMA ProcessStopsKeeps == ASSUME ChecksInv, NEW c \in Checks, ProcessStops(c) PROVE ChecksInv'
<1>1. /\ check[c].at \notin {"idle", "ended"} /\ Mishap /\ End(c, "lost")
      /\ command' = [command EXCEPT ![c] = "none"] /\ excused' = excused \cup {c}
      /\ UNCHANGED <<others, worktree, port, app, box, image, answered, unremoved>>
  BY DEF ProcessStops
<1>2. CheckTypes /\ "lost" \in {"ok", "bad", "thrown", "lost"} /\ "lost" \notin {"ok", "bad", "thrown"}
  BY DEF ChecksInv
<1>3. command' \in [Checks -> {"none", "ok", "fail", "slow", "deaf"}] /\ Idles(c)
  BY <1>1, <1>2 DEF CheckTypes, Idles
<1>4. mishaps' \in 0..MaxMishaps
  BY <1>1, <1>2, MishapIsCounted
<1>5. excused' \subseteq Checks /\ excused \subseteq excused' /\ c \in excused'
  BY <1>1, <1>2 DEF CheckTypes
<1>6. QED BY <1>1, <1>2, <1>3, <1>4, <1>5, DoneKeeps DEF CheckTypes, TreesStay

\* git refuses a worktree, or the preview finds no port: what the check is, is over.
LEMMA ThrownKeeps ==
  ASSUME ChecksInv, NEW c \in Checks, End(c, "thrown"), Mishap \/ UNCHANGED mishaps,
         \/ check[c].at = "add" /\ check[c].kind = "heavy"
         \/ check[c].at = "preview port",
         excused' \subseteq Checks, excused \subseteq excused', TreesStay,
         UNCHANGED <<others, command, port, app, box, image, answered>>
  PROVE  ChecksInv'
<1>1. CheckTypes /\ "thrown" \in {"ok", "bad", "thrown", "lost"} /\ "thrown" \notin {"ok", "bad", "lost"}
  BY DEF ChecksInv
<1>2. /\ check[c].at \notin Docker /\ check[c].at \notin NpmPoints /\ check[c].at \notin TreePoints
      /\ check[c].at \notin ContainerPoints \cup ImagePoints /\ check[c].at \notin {"idle", "ended", "boot"}
  BY DEF Docker, NpmPoints, TreePoints, ContainerPoints, ImagePoints
<1>3. ~Tree(c)' /\ Idles(c)
  BY <1>2, Stands DEF Idles, TreesStay
<1>4. check[c].kind # "readiness"
  BY WhereItIs DEF PreviewPoints, Unseen
<1>5. mishaps' \in 0..MaxMishaps
  BY <1>1, MishapIsCounted
<1>6. QED BY <1>1, <1>2, <1>3, <1>4, <1>5, DoneKeeps DEF CheckTypes, TreesStay

\* One finding is a finding.
LEMMA OneCounts == 1 \in Nat /\ 1 > 0
OBVIOUS

\* git refuses the worktree of a readiness check.
LEMMA RefusedKeeps ==
  ASSUME ChecksInv, NEW c \in Checks, Mishap,
         \/ At(c, "add") /\ check[c].kind = "readiness" /\ Record(c, "add", 1, "scan")
         \/ At(c, "docker add") /\ Record(c, "docker", 1, "verdict"),
         TreesStay, UNCHANGED <<others, command, port, app, box, image, answered, excused>>
  PROVE  ChecksInv'
<1>1. CheckTypes /\ 1 \in Nat /\ 1 > 0
  <2>1. CheckTypes
    BY DEF ChecksInv
  <2>2. 1 \in Nat /\ 1 > 0
    BY OneCounts
  <2>3. QED BY <2>1, <2>2
<1>2. PICK id, point :
        /\ Record(c, id, 1, point)
        /\ \/ check[c].at = "add" /\ check[c].kind = "readiness" /\ point = "scan" /\ id = "add"
           \/ check[c].at = "docker add" /\ point = "verdict" /\ id = "docker"
  BY DEF At
<1>3. check[c].kind = "readiness"
  BY <1>2, WhereItIs DEF ReadinessPoints, Unprobed
<1>4. /\ point \in AllPoints /\ id \in AllPoints \cup {"stubs", "docker"} /\ point \in ReadinessPoints
      /\ point \notin {"idle", "ended"} /\ check[c].at \notin {"idle", "ended", "remove"}
  BY <1>2 DEF AllPoints, HeavyPoints, ReadinessPoints, Unprobed
<1>5. /\ check[c].at \notin Docker /\ check[c].at \notin NpmPoints /\ check[c].at \notin TreePoints
      /\ check[c].at \notin ContainerPoints /\ check[c].at \notin ImagePoints /\ check[c].at # "boot"
  BY <1>2 DEF Docker, NpmPoints, TreePoints, ContainerPoints, ImagePoints
<1>6. Leads(check[c], point, 1) /\ Remains(check[c], point, 1) /\ Carries(check[c], point)
  BY <1>1, <1>3, <1>4, <1>5 DEF Leads, Remains, Carries
<1>7. mishaps' \in 0..MaxMishaps
  BY <1>1, MishapIsCounted
<1>8. Quietly(c)
  BY <1>1, <1>4, <1>5, <1>7, Stands DEF Quietly, Idles, CheckTypes
<1>9. QED BY <1>1, <1>2, <1>4, <1>6, <1>8, RecordingKeeps

\* git refuses a worktree, of whatever check.
LEMMA AddFailsKeeps == ASSUME ChecksInv, NEW c \in Checks, AddFails(c) PROVE ChecksInv'
<1>1. Mishap /\ UNCHANGED <<others, command, port, app, box, image, answered, excused>>
  BY DEF AddFails
<1>t. TreesStay
  BY DEF AddFails, ChecksInv, CheckTypes, TreesStay
<1>2. excused' \subseteq Checks /\ excused \subseteq excused'
  BY <1>1 DEF ChecksInv, CheckTypes
<1>3. CASE At(c, "add") /\ check[c].kind = "heavy" /\ End(c, "thrown")
  BY <1>1, <1>2, <1>t, <1>3, ThrownKeeps DEF At
<1>4. CASE \/ At(c, "add") /\ check[c].kind = "readiness" /\ Record(c, "add", 1, "scan")
           \/ At(c, "docker add") /\ Record(c, "docker", 1, "verdict")
  BY <1>1, <1>t, <1>4, RefusedKeeps
<1>5. QED BY <1>3, <1>4 DEF AddFails

\* The finally block, of whatever check, whether the worktree goes or stays.
LEMMA RemoveWorktreeKeeps ==
  ASSUME ChecksInv, NEW c \in Checks, RemoveWorktree(c) \/ RemovalFails(c)
  PROVE  ChecksInv'
<1>1. /\ Mishap \/ UNCHANGED mishaps
      /\ UNCHANGED <<others, command, port, app, box, image, answered, excused>>
  BY DEF RemoveWorktree, RemovalFails
<1>2. TreesStay /\ ~Tree(c)' /\ check[c].thrown \in BOOLEAN
  BY DEF RemoveWorktree, RemovalFails, ChecksInv, CheckTypes, CheckRows, TreesStay
<1>3. \/ check[c].at = "docker remove" /\ (Go(c, "verdict") \/ Record(c, "docker", 1, "verdict"))
      \/ check[c].at = "remove" /\ \E thrown \in {check[c].thrown, TRUE} : HeavyEnds(c, thrown)
  BY DEF RemoveWorktree, RemovalFails, At
<1>4. CASE check[c].at = "docker remove" /\ (Go(c, "verdict") \/ Record(c, "docker", 1, "verdict"))
  BY <1>1, <1>2, <1>4, DockerTreeGoesKeeps
<1>5. ASSUME NEW thrown \in {check[c].thrown, TRUE}, check[c].at = "remove", HeavyEnds(c, thrown)
      PROVE  ChecksInv'
  <2>1. thrown \in BOOLEAN /\ (check[c].thrown => thrown)
    BY <1>2
  <2>2. CASE check[c].kind = "heavy"
    BY <1>1, <1>2, <1>5, <2>1, <2>2, HeavyIsDoneKeeps
  <2>3. CASE check[c].kind # "heavy"
    BY <1>1, <1>2, <1>5, <2>1, <2>3, ReadinessGoesOnKeeps
  <2>4. QED BY <2>2, <2>3
<1>6. QED BY <1>3, <1>4, <1>5

\* npm cannot be started.
LEMMA NpmIsMissingKeeps == ASSUME ChecksInv, NEW c \in Checks, NpmIsMissing(c) PROVE ChecksInv'
<1>1. /\ check[c].at \in NpmPoints /\ command[c] = "none" /\ Mishap /\ Throw(c, "heavy")
      /\ UNCHANGED <<others, command, worktree, port, app, box, image, answered, excused, unremoved>>
  BY PointsAre DEF NpmIsMissing
<1>2. excused' \subseteq Checks /\ excused \subseteq excused'
  BY <1>1 DEF ChecksInv, CheckTypes
<1>3. QED BY <1>1, <1>2, HeavyThrowsKeeps

\* No port is found, for whatever part.
LEMMA PortFailsKeeps == ASSUME ChecksInv, NEW c \in Checks, PortFails(c) PROVE ChecksInv'
<1>1. (Mishap \/ UNCHANGED mishaps) /\ excused' = excused \cup {c}
      /\ UNCHANGED <<others, command, worktree, port, app, box, image, answered, unremoved>>
  BY DEF PortFails
<1>2. excused' \subseteq Checks /\ excused \subseteq excused'
  BY <1>1 DEF ChecksInv, CheckTypes
<1>3. CASE At(c, "free port")
  <2>1. check[c].at = "free port" /\ Throw(c, "heavy")
    BY <1>3 DEF PortFails, At
  <2>2. "free port" \notin Docker /\ "free port" \notin NpmPoints /\ "free port" \notin {"idle", "ended"}
    BY DEF Docker, NpmPoints
  <2>3. command[c] = "none"
    BY <2>1, <2>2, Stands
  <2>4. QED BY <1>1, <1>2, <2>1, <2>3, HeavyThrowsKeeps
<1>4. CASE At(c, "docker port")
  BY <1>4, DockerPortFailsKeeps
<1>5. CASE At(c, "preview port") /\ Throw(c, "preview")
  <2>1. End(c, "thrown") /\ check[c].at = "preview port"
    BY <1>5 DEF Throw, At
  <2>2. TreesStay
    BY <1>1 DEF ChecksInv, CheckTypes, TreesStay
  <2>3. QED BY <1>1, <1>2, <2>1, <2>2, ThrownKeeps
<1>6. QED BY <1>3, <1>4, <1>5 DEF PortFails

\* Every step of a check keeps the invariant.
LEMMA CheckStepKeeps == ASSUME ChecksInv, NEW c \in Checks, CheckStep(c) PROVE ChecksInv'
BY BeginKeeps, AddWorktreeKeeps, AddFailsKeeps, RemoveWorktreeKeeps, LaunchKeeps, ReadProjectKeeps,
   NpmReturnsKeeps, SkipScriptKeeps, NpmIsMissingKeeps, StartApplicationKeeps, BootEndsKeeps, ScanStubsKeeps,
   FindDockerfileKeeps, FindPortKeeps, PortFailsKeeps, DockerReturnsKeeps, ContainerAnswersKeeps,
   ContainerFailsKeeps, FindPreviewFileKeeps, VerdictKeeps DEF CheckStep

\* It holds at the start.
LEMMA ChecksStart == ASSUME ValidationInit PROVE ChecksInv
<1>1. CheckTypes
  BY NoCheckIs, ValidationAssumption DEF ValidationInit, CheckTypes
<1>2. ASSUME NEW c \in Checks PROVE CheckFits(c)
  <2>1. check[c] = NoCheck /\ command[c] = "none" /\ Tree(c) = FALSE /\ app[c] = "none" /\ box[c] = "none"
        /\ image = {}
    BY DEF ValidationInit
  <2>2. RowFits(check[c])
    BY <2>1, NoCheckIs DEF RowFits
  <2>3. AnswerFits(check[c], answered[c])
    BY <2>1, NoCheckIs DEF AnswerFits
  <2>4. LeavesFit(check[c], Tree(c), app[c]) /\ CommandFits(check[c], command[c]) /\ BoxFits(c)
    BY <2>1 DEF LeavesFit, CommandFits, BoxFits
  <2>5. QED BY <2>2, <2>3, <2>4 DEF CheckFits
<1>3. QED BY <1>1, <1>2 DEF ChecksInv

\* Every step keeps it.
LEMMA ChecksGoOn == ChecksInv /\ [ValidationNext]_validationVars => ChecksInv'
<1> SUFFICES ASSUME ChecksInv, [ValidationNext]_validationVars PROVE ChecksInv'
  OBVIOUS
<1>1. CASE \E c \in Checks : CheckStep(c)
  BY <1>1, CheckStepKeeps
<1>2. CASE \E c \in Checks : ApplicationRuns(c) \/ ApplicationEnds(c)
  BY <1>2, ApplicationsKeep
<1>3. CASE \E c \in Checks : ContainerExits(c)
  BY <1>3, ContainerExitsKeeps
<1>4. CASE \E c \in Checks : ProcessStops(c)
  BY <1>4, ProcessStopsKeeps
<1>5. CASE Others
  BY <1>5, OthersKeep
<1>6. CASE UNCHANGED validationVars
  <2>1. CheckTypes'
    BY <1>6 DEF validationVars, ChecksInv, CheckTypes
  <2>2. \A c \in Checks : CheckFits(c)'
    BY <1>6 DEF validationVars, ChecksInv, CheckFits, BoxFits
  <2>3. QED BY <2>1, <2>2 DEF ChecksInv
<1>7. QED BY <1>1, <1>2, <1>3, <1>4, <1>5, <1>6 DEF ValidationNext

\* It implies that the checks are sound.
LEMMA ChecksInvIsEnough == ChecksInv => ChecksAreSound
<1> SUFFICES ASSUME ChecksInv PROVE ChecksAreSound
  OBVIOUS
<1>1. ValidationTypeOK
  <2>1. CheckTypes /\ Points = AllPoints
    BY PointsAre DEF ChecksInv
  <2>2. QED BY <2>1 DEF CheckTypes, CheckRows, ValidationTypeOK
<1>2. VerdictMatchesFindings
  <2> SUFFICES ASSUME NEW c \in Checks, check[c].verdict \in {"ok", "bad"}
               PROVE  /\ check[c].verdict = "ok" <=> check[c].failed = {}
                      /\ check[c].verdict = "ok" /\ check[c].kind # "preview" /\ PrismaRequired(Project(c))
                           /\ Project(c).package => {"migration", "seed"} \subseteq Project(c).scripts
                      /\ check[c].verdict = "ok" /\ ("start" \in Project(c).scripts \/ check[c].kind # "heavy")
                           /\ Project(c).package => answered[c] # "nobody"
    BY DEF VerdictMatchesFindings
  <2>1. PICK q \in CheckRows : q = check[c] /\ RowFits(q) /\ AnswerFits(q, answered[c])
    BY DEF ChecksInv, CheckTypes, CheckFits
  <2>2. /\ q.at = "ended" /\ (q.verdict = "ok" <=> q.failed = {}) /\ q.kind \in {"heavy", "readiness", "preview"}
    BY <2>1 DEF RowFits, CheckRows
  <2>3. /\ "ended" \notin ToMigration /\ "ended" \notin ToSeed /\ "ended" \notin ToBoot
        /\ "ended" \notin HeavyPoints \cup Unprobed /\ "ended" \notin Unseen
    BY DEF ToMigration, ToSeed, ToBoot, HeavyPoints, NpmPoints, Unprobed, Unseen
  <2>4. q.verdict = "ok" => ~Cut(q)
    BY <2>1, <2>2 DEF Cut, RowFits
  <2>5. q.verdict = "ok" /\ q.kind # "preview" /\ PrismaRequired(q.project) /\ q.project.package =>
           "migration" \in q.project.scripts /\ "seed" \in q.project.scripts
    BY <2>1, <2>2, <2>3, <2>4 DEF RowFits
  <2>6. q.verdict = "ok" /\ ("start" \in q.project.scripts \/ q.kind # "heavy") /\ q.project.package =>
           answered[c] # "nobody"
    BY <2>1, <2>2, <2>3, <2>4 DEF AnswerFits
  <2>7. QED BY <2>1, <2>2, <2>5, <2>6 DEF Project
<1>3. NothingIsLeftBehind
  <2> SUFFICES ASSUME NEW c \in Checks, check[c].at = "ended"
               PROVE  /\ worktree[c] => check[c].verdict = "lost" \/ c \in unremoved
                      /\ app[c] \in {"starting", "up"} => check[c].verdict = "lost"
                      /\ c \notin excused => box[c] = "none" /\ c \notin image
    BY DEF NothingIsLeftBehind
  <2>1. LeavesFit(check[c], Tree(c), app[c]) /\ BoxFits(c)
    BY DEF ChecksInv, CheckFits
  <2>2. "ended" \notin TreePoints /\ "ended" \notin ContainerPoints /\ "ended" \notin ImagePoints
    BY DEF TreePoints, NpmPoints, ContainerPoints, ImagePoints
  <2>3. QED BY <2>1, <2>2 DEF LeavesFit, BoxFits
<1>4. QED BY <1>1, <1>2, <1>3 DEF ChecksAreSound

\* However many checks run side by side, commands fail, outlast their timeout or hang,
\* worktrees cannot be removed and processes stop, every check fits its row and has no more than its part may have.
THEOREM ChecksAreInductive == ValidationSpec => []ChecksInv
<1>1. ValidationInit => ChecksInv
  BY ChecksStart
<1>2. ChecksInv /\ [ValidationNext]_validationVars => ChecksInv'
  BY ChecksGoOn
<1>3. QED BY <1>1, <1>2, PTL DEF ValidationSpec

\* A check says ok exactly when nothing it looked at has failed, with every script Prisma
\* needs and an answer at its port, and one that has ended has left no running
\* application, no container and no image, but for a stopped process or a docker failure,
\* and no directory of a worktree, but for a stopped process or one that could not be
\* added or removed (git-versioning.ts, heavy-validator.ts, check-v1-ready.ts, run-preview-container.ts).
THEOREM ChecksAreAlwaysSound == ValidationSpec => []ChecksAreSound
<1>1. ChecksInv => ChecksAreSound
  BY ChecksInvIsEnough
<1>2. QED BY <1>1, ChecksAreInductive, PTL
=============================================================================
