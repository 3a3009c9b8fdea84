---------------------------- MODULE FileSession ----------------------------
(***************************************************************************)
(* The file transaction of one mutating step: tools propose changes, a     *)
(* FileSession stages them against the content they were computed from,    *)
(* checks the disk once more, writes file by file, and git commits the     *)
(* worktree; a failure anywhere has to put every file back.                *)
(*                                                                         *)
(* A content stands for its hash.  Every await is a step of its own, so    *)
(* another program (an editor, a build, a second request in the same       *)
(* workspace) may write between any two of them.                           *)
(***************************************************************************)
EXTENDS Integers, Sequences, FiniteSets

CONSTANTS
    Paths,       \* numbers: staged files are handled in the order of their paths
    IgnoreFile,  \* .gitignore, which git-versioning.ts writes if it is missing
    Ignored,     \* paths .gitignore excludes from commits
    Restricted,  \* paths the validator refuses
    Contents,    \* what a tool may write
    Oversized,   \* contents the validator refuses
    Absent, Torn, Generated,  \* no file, a file a failed write left, GENERATED_GITIGNORE
    MaxFiles,    \* maxFilesPerStep
    Isolated,    \* the session works in a run's worktree, which is reset before use
    MaxChanges, MaxSteps, MaxFaults, MaxEdits  \* bounds

ASSUME FileSessionAssumption ==
    /\ Paths \subseteq Nat /\ IsFiniteSet(Paths)
    /\ IgnoreFile \in Paths /\ Ignored \cup Restricted \subseteq Paths \ {IgnoreFile}
    /\ Oversized \subseteq Contents
    /\ {Absent, Torn, Generated} \cap Contents = {}
    /\ Absent # Torn /\ Absent # Generated /\ Torn # Generated
    /\ {MaxFiles, MaxChanges, MaxSteps, MaxFaults, MaxEdits} \subseteq Nat

Files == Paths \ {IgnoreFile}
OnDisk == Contents \cup {Absent, Torn, Generated}
NoHash == Torn       \* a change without oldContentHash

\* ProposedFileChange and what stageChange makes of it.
Change == [path: Files, type: {"create", "update", "delete"},
           new: Contents \cup {Absent}, old: OnDisk]
Staged == [type: {"create", "update", "delete"}, new: Contents \cup {Absent},
           prev: OnDisk]

VARIABLES
    disk,    \* the working files
    index,   \* what git add has recorded
    head,    \* the files of HEAD
    step,    \* currentStep, the proposed changes and where the handler stands
    before,  \* history: the working files when the step began
    late,    \* history: files others wrote after the lock check of the step
    foreign, \* history: files with changes that no step has in its keeping
    steps, faults, edits

fileVars == <<disk, index, head, step, before, late, foreign, steps, faults, edits>>

NoStep == [at |-> "idle", changes |-> <<>>, staged |-> <<>>, todo |-> {},
           applied |-> FALSE, correction |-> FALSE, outcome |-> "none"]

At == {"idle", "tool", "stage", "check", "write", "undo", "validate", "status",
       "add", "commit", "uncommit", "abort", "ended"}

FileTypeOK ==
    /\ disk \in [Paths -> OnDisk] /\ index \in [Paths -> OnDisk] /\ head \in [Paths -> OnDisk]
    /\ step.at \in At /\ step.applied \in BOOLEAN /\ step.correction \in BOOLEAN
    /\ step.outcome \in {"none", "committed", "silent", "rejected", "leaked", "stuck"}
    /\ Len(step.changes) <= MaxChanges /\ \A i \in DOMAIN step.changes : step.changes[i] \in Change
    /\ DOMAIN step.staged \subseteq Files /\ step.todo \subseteq DOMAIN step.staged
    /\ \A p \in DOMAIN step.staged : step.staged[p] \in Staged
    /\ before \in [Paths -> OnDisk] /\ late \subseteq Files /\ foreign \subseteq Files
    /\ steps \in 0..MaxSteps /\ faults \in 0..MaxFaults /\ edits \in 0..MaxEdits

FileInit ==
    /\ \E c \in Contents :
         disk = [p \in Paths |-> IF p = 1 THEN c ELSE IF p = IgnoreFile THEN Generated ELSE Absent]
    /\ index = [p \in Paths |-> IF p \in Ignored THEN Absent ELSE disk[p]] /\ head = index
    /\ step = NoStep /\ before = disk /\ late = {} /\ foreign = {}
    /\ steps = 0 /\ faults = 0 /\ edits = 0

Tracked(files) == [p \in Paths |-> IF p \in Ignored THEN Absent ELSE files[p]]
First(S) == CHOOSE p \in S : \A q \in S : p <= q

(***************************************************************************)
(* Tools.  They read the workspace, and propose nothing for a file that    *)
(* already is what it should be.                                           *)
(***************************************************************************)

\* write_file, manual_file_write and the scaffold: one entry.
ProposeWrite(p, target) ==
    CASE disk[p] = target -> <<>>
      [] disk[p] = Absent -> <<[path |-> p, type |-> "create", new |-> target, old |-> NoHash]>>
      [] OTHER -> <<[path |-> p, type |-> "update", new |-> target, old |-> disk[p]]>>

\* ai_mutation: the actions of the model for one path, the last of which counts.
ProposeActions(p, actions) ==
    LET target == actions[Len(actions)]
    IN  IF target # Absent THEN ProposeWrite(p, target)
        ELSE IF disk[p] = Absent THEN <<>>
        ELSE <<[path |-> p, type |-> "delete", new |-> Absent, old |-> disk[p]]>>

\* Execution of a tool: a number of files, read one after the other.
RunTool ==
    /\ step.at \in {"idle", "tool"} /\ steps < MaxSteps
    /\ Len(step.changes) < MaxChanges
    /\ \E p \in Files, actions \in UNION {[1..n -> Contents \cup {Absent}] : n \in 1..2} :
         step' = [step EXCEPT !.at = "tool", !.changes = @ \o ProposeActions(p, actions)]
    /\ UNCHANGED <<disk, index, head, before, late, foreign, steps, faults, edits>>

(***************************************************************************)
(* The step.                                                               *)
(***************************************************************************)

\* beginStep: a step that could not be aborted is still the active one.
BeginStep ==
    /\ step.at = "tool" /\ step.changes # <<>>
    /\ \E correction \in BOOLEAN :
         step' = [step EXCEPT !.at = "stage", !.correction = correction, !.outcome = "none"]
    /\ before' = disk /\ late' = {}
    /\ UNCHANGED <<disk, index, head, foreign, steps, faults, edits>>

\* No changes are no transaction; a correction that proposes none fails.
SkipStep ==
    /\ step.at = "tool" /\ step.changes = <<>>
    /\ step' = NoStep /\ steps' = steps + 1
    /\ UNCHANGED <<disk, index, head, before, late, foreign, faults, edits>>

\* What a change is compared with: the content the first change of its path found.
Existing(p) == IF p \in DOMAIN step.staged THEN step.staged[p].prev ELSE disk[p]

Stageable(change) ==
    LET existing == Existing(change.path)
    IN  CASE change.type = "create" -> existing = Absent
          [] change.type = "update" -> existing # Absent /\ change.old = existing
          [] change.type = "delete" -> existing # Absent /\ change.old \in {NoHash, existing}

StageChange ==
    LET change == Head(step.changes)
        staged == [type |-> change.type, new |-> change.new, prev |-> Existing(change.path)]
    IN
    /\ step.at = "stage" /\ step.changes # <<>>
    /\ step' = IF Stageable(change)
               THEN [step EXCEPT !.changes = Tail(@),
                       !.staged = [p \in DOMAIN @ \cup {change.path} |->
                                     IF p = change.path THEN staged ELSE @[p]]]
               ELSE [step EXCEPT !.changes = <<>>, !.at = "abort"]
    /\ UNCHANGED <<disk, index, head, before, late, foreign, steps, faults, edits>>

\* validateStagedChanges.
Valid ==
    /\ Cardinality(DOMAIN step.staged) \in 1..MaxFiles
    /\ \A p \in DOMAIN step.staged : p \notin Restricted /\ step.staged[p].new \notin Oversized

ValidateStep ==
    /\ step.at = "stage" /\ step.changes = <<>>
    /\ step' = IF Valid THEN [step EXCEPT !.at = "check", !.todo = DOMAIN step.staged]
               ELSE [step EXCEPT !.at = "abort"]
    /\ UNCHANGED <<disk, index, head, before, late, foreign, steps, faults, edits>>

\* applyStepChanges: all files are looked at before the first one is written.
CheckFile ==
    LET p == First(step.todo)
        rest == step.todo \ {p}
    IN
    /\ step.at = "check"
    /\ step' = IF disk[p] # step.staged[p].prev THEN [step EXCEPT !.at = "abort", !.todo = {}]
               ELSE IF rest # {} THEN [step EXCEPT !.todo = rest]
               ELSE [step EXCEPT !.at = "write", !.todo = DOMAIN step.staged]
    /\ late' = late \ {p}
    /\ UNCHANGED <<disk, index, head, before, foreign, steps, faults, edits>>

WriteFile ==
    LET p == First(step.todo)
        rest == step.todo \ {p}
    IN
    /\ step.at = "write"
    /\ disk' = [disk EXCEPT ![p] = step.staged[p].new]
    /\ step' = IF rest # {} THEN [step EXCEPT !.todo = rest]
               ELSE [step EXCEPT !.todo = {}, !.at = "validate", !.applied = TRUE]
    /\ UNCHANGED <<index, head, before, late, foreign, steps, faults, edits>>

\* Mutant of WriteFails: the files written already are put back, the one in hand is not.
WriteFailsUndoWritten ==
    /\ step.at = "write" /\ faults < MaxFaults
    /\ \E left \in {disk[First(step.todo)], Torn} :
         disk' = [disk EXCEPT ![First(step.todo)] = left]
    /\ LET written == DOMAIN step.staged \ step.todo
       IN  step' = IF written = {} THEN [step EXCEPT !.at = "abort", !.todo = {}]
                   ELSE [step EXCEPT !.at = "undo", !.todo = written]
    /\ faults' = faults + 1
    /\ UNCHANGED <<index, head, before, late, foreign, steps, edits>>

\* A write fails, perhaps after it truncated the file.
WriteFails ==
    /\ step.at = "write" /\ faults < MaxFaults
    /\ \E left \in {disk[First(step.todo)], Torn} :
         disk' = [disk EXCEPT ![First(step.todo)] = left]
    /\ step' = [step EXCEPT !.at = "undo", !.todo = DOMAIN step.staged]
    /\ faults' = faults + 1
    /\ UNCHANGED <<index, head, before, late, foreign, steps, edits>>

\* Mutant of ValidateFiles: the verdict is given on a step that is not marked applied.
ValidateUnapplied ==
    /\ step.at = "validate"
    /\ \/ step' = [step EXCEPT !.at = "status"]
       \/ step' = [step EXCEPT !.at = "abort"]
    /\ UNCHANGED <<disk, index, head, before, late, foreign, steps, faults, edits>>

\* The precommit guard and the light validation look at the written files.
ValidateFiles ==
    /\ step.at = "validate"
    /\ \/ step' = [step EXCEPT !.at = "status"]
       \/ step' = [step EXCEPT !.at = "abort", !.todo = DOMAIN step.staged]
    /\ UNCHANGED <<disk, index, head, before, late, foreign, steps, faults, edits>>

(***************************************************************************)
(* restoreBackups, for three callers: the catch of applyStepChanges, the   *)
(* catch of commitStep, and abortStep.  Only abortStep closes the step.    *)
(***************************************************************************)

\* What follows when the caller in step.at has restored all it could.
AfterRestore(ok) ==
    CASE step.at = "undo" -> [step EXCEPT !.at = "abort", !.todo = {},
                                 !.outcome = IF ok THEN @ ELSE "leaked"]
      [] step.at = "uncommit" -> [step EXCEPT !.at = "abort", !.todo = DOMAIN step.staged]
      [] step.at = "abort" /\ ok -> [step EXCEPT !.at = "ended", !.todo = {},
                                 !.outcome = IF @ = "leaked" THEN @ ELSE "rejected"]
      [] OTHER -> [step EXCEPT !.at = "ended", !.todo = {}, !.outcome = "stuck"]

RestoreFile ==
    LET p == First(step.todo)
        rest == step.todo \ {p}
    IN
    /\ step.at \in {"undo", "uncommit", "abort"} /\ step.todo # {}
    /\ \/ /\ disk' = [disk EXCEPT ![p] = step.staged[p].prev]
          /\ step' = IF rest # {} THEN [step EXCEPT !.todo = rest] ELSE AfterRestore(TRUE)
          /\ UNCHANGED <<faults, foreign>>
       \/ /\ faults < MaxFaults /\ faults' = faults + 1
          /\ step' = AfterRestore(FALSE)
          /\ foreign' = IF step.at = "undo" THEN foreign \cup DOMAIN step.staged ELSE foreign
          /\ UNCHANGED disk
    /\ UNCHANGED <<index, head, before, late, steps, edits>>

\* abortStep of a step that was not applied.
DropStep ==
    /\ step.at = "abort" /\ step.todo = {}
    /\ step' = AfterRestore(TRUE)
    /\ UNCHANGED <<disk, index, head, before, late, foreign, steps, faults, edits>>

(***************************************************************************)
(* commitStep and createAutoCommit.                                        *)
(***************************************************************************)

Committed(hash) ==
    [step EXCEPT !.at = "ended",
        !.outcome = IF step.correction /\ ~hash THEN "silent" ELSE "committed"]

\* git status, and .gitignore when there is something to commit.
GitStatus ==
    LET pending == Tracked(disk) # index \/ index # head
    IN
    /\ step.at = "status"
    /\ step' = IF pending THEN [step EXCEPT !.at = "add"] ELSE Committed(FALSE)
    /\ disk' = IF pending /\ disk[IgnoreFile] = Absent
               THEN [disk EXCEPT ![IgnoreFile] = Generated] ELSE disk
    /\ UNCHANGED <<index, head, before, late, foreign, steps, faults, edits>>

GitAdd ==
    /\ step.at = "add"
    /\ index' = Tracked(disk) /\ step' = [step EXCEPT !.at = "commit"]
    /\ UNCHANGED <<disk, head, before, late, foreign, steps, faults, edits>>

\* A commit of an index that equals HEAD is an error of git.
GitCommit ==
    /\ step.at = "commit" /\ index # head
    /\ head' = index /\ step' = Committed(TRUE)
    /\ foreign' = {p \in foreign : Tracked(disk)[p] # index[p]}
    /\ UNCHANGED <<disk, index, before, late, steps, faults, edits>>

GitFails ==
    /\ step.at \in {"status", "add", "commit"}
    /\ \/ faults < MaxFaults /\ faults' = faults + 1
       \/ step.at = "commit" /\ index = head /\ UNCHANGED faults
    /\ step' = [step EXCEPT !.at = "uncommit", !.todo = DOMAIN step.staged]
    /\ UNCHANGED <<disk, index, head, before, late, foreign, steps, edits>>

(***************************************************************************)
(* Between steps.                                                          *)
(***************************************************************************)

EndStep ==
    /\ step.at = "ended" /\ step.outcome # "stuck"
    /\ step' = NoStep /\ steps' = steps + 1
    /\ UNCHANGED <<disk, index, head, before, late, foreign, faults, edits>>

\* A step that could not be aborted stays active: beginStep of the next one
\* throws, and the catch aborts the old one again.
AbortAgain ==
    /\ step.outcome = "stuck"
    /\ step' = [step EXCEPT !.at = "abort", !.outcome = "none", !.changes = <<>>,
                  !.todo = IF step.applied THEN DOMAIN step.staged ELSE {}]
    /\ UNCHANGED <<disk, index, head, before, late, foreign, steps, faults, edits>>

\* The process stops, and the next one resets a worktree that is dirty: reset
\* --hard brings back what HEAD has, clean -fd removes what no one ignores.
Restart ==
    /\ faults < MaxFaults /\ faults' = faults + 1
    /\ step' = NoStep /\ steps' = steps
    /\ IF Isolated
       THEN /\ disk' = [p \in Paths |-> IF p \in Ignored THEN disk[p] ELSE head[p]]
            /\ index' = head /\ foreign' = {}
       ELSE /\ foreign' = foreign \cup DOMAIN step.staged
            /\ UNCHANGED <<disk, index>>
    /\ UNCHANGED <<head, before, late, edits>>

\* Somebody else writes a file while a step is staged.
EditFile ==
    /\ edits < MaxEdits /\ edits' = edits + 1
    /\ step.at \notin {"idle", "ended"}
    /\ \E p \in Files, c \in Contents \cup {Absent} :
         /\ c # disk[p] /\ disk' = [disk EXCEPT ![p] = c]
         /\ late' = late \cup {p} /\ foreign' = foreign \cup {p}
         /\ before' = [before EXCEPT ![p] = c]
    /\ UNCHANGED <<index, head, step, steps, faults>>

FileNext ==
    \/ RunTool \/ BeginStep \/ SkipStep \/ StageChange \/ ValidateStep
    \/ CheckFile \/ WriteFile \/ WriteFails \/ ValidateFiles
    \/ RestoreFile \/ DropStep
    \/ GitStatus \/ GitAdd \/ GitCommit \/ GitFails
    \/ EndStep \/ AbortAgain \/ Restart \/ EditFile

FileSpec == FileInit /\ [][FileNext]_fileVars

(***************************************************************************)
(* Properties.                                                             *)
(***************************************************************************)

\* A step leaves all of its files as it wanted them or all of them as it found
\* them, whatever failed in between: applyStepChanges and commitStep restore
\* their backups, abortStep restores them once more.  Two exceptions: a write
\* that fails and whose undo fails as well ("leaked"), and a correction git has
\* nothing to commit for ("silent": it fails after its session closed), which
\* may keep its changes to ignored files, and undo what others had not committed.
StepIsAtomic ==
    step.at = "ended" /\ step.outcome \in {"committed", "silent", "rejected"} =>
        \A p \in Files \ late :
            LET kept == \/ step.outcome = "committed"
                        \/ step.outcome = "silent" /\ p \in Ignored \cup foreign
            IN  disk[p] = IF kept /\ p \in DOMAIN step.staged THEN step.staged[p].new
                          ELSE before[p]

\* A commit holds the files its step staged and nothing else, although git add
\* takes the whole worktree; only what others wrote, or a leaked step or a
\* process that stopped left there, comes along.
CommitsOnly(p) ==
    head'[p] # head[p] =>
        p \in foreign \/ (p \in DOMAIN step.staged /\ head'[p] = step.staged[p].new)

\* The optimistic lock: what somebody else wrote before the step's lock check
\* is neither overwritten nor restored away.
SparesEdits(p) ==
    disk'[p] # disk[p] /\ edits' = edits /\ step'.at # "idle" =>
        p \in late \/ disk[p] \in {step.staged[p].prev, step.staged[p].new, Torn}

\* A step keeps to the files it staged, on the branch and on disk.
StepKeepsToItsFiles == [][\A p \in Files : CommitsOnly(p) /\ SparesEdits(p)]_fileVars
=============================================================================
