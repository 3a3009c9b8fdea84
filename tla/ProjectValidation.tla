-------------------------- MODULE ProjectValidation --------------------------
(***************************************************************************)
(* Checks of generated projects that run side by side on one machine: the  *)
(* heavy validation of a run (heavy-validator.ts), the V1 readiness check, *)
(* which goes on with a Docker build and boot (check-v1-ready.ts), and the *)
(* preview container that a runtime verification starts                    *)
(* (run-preview-container.ts).  They share the machine's ports.  A         *)
(* repository takes any number of worktrees, npm and docker commands may   *)
(* fail, outlast their timeout or never react to SIGTERM, and the process  *)
(* of a check may stop.                                                    *)
(***************************************************************************)
EXTENDS Naturals

CONSTANTS
    Checks, KindsOf,    \* the checks, and what each may be
    Projects,           \* what the checks may find in a commit
    Ports,
    MaxMishaps          \* bound of the things that go wrong with commands and processes

Scripts == {"migration", "seed", "typecheck", "build", "tests", "start"}

ASSUME ValidationAssumption ==
    /\ KindsOf \in [Checks -> SUBSET {"heavy", "readiness", "preview"}]
    /\ Projects # {}
    /\ Projects \subseteq [light : Nat, config : BOOLEAN, package : BOOLEAN, prisma : BOOLEAN,
                           scripts : SUBSET Scripts, dockerfile : BOOLEAN, stubs : BOOLEAN]
    /\ 0 \notin Ports /\ MaxMishaps \in Nat

VARIABLES
    check,     \* what it is, what it looks at, where it stands, its counters and verdict
    command,   \* what becomes of the command it waits for
    worktree,  \* the directory of its isolated worktree is there
    port,      \* the port it was given, or 0
    app,       \* the application of its boot check
    box,       \* its container
    image,     \* checks whose image is there
    others,    \* ports on which other programs listen
    mishaps,
    answered,  \* history: its boot was answered by its own application, another one, nobody
    excused,   \* history: checks that met a docker failure or the end of their process
    unremoved  \* history: checks whose worktree could not be added or removed

validationVars == <<check, command, worktree, port, app, box, image, others, mishaps,
                    answered, excused, unremoved>>

NoCheck == [kind |-> "none", project |-> CHOOSE p \in Projects : TRUE, at |-> "idle",
            blocking |-> 0, failed |-> {}, thrown |-> FALSE, verdict |-> "none"]

\* The commands of a heavy validation, each with what comes after it, and those
\* of the Docker parts.
After == [install |-> "generate", generate |-> "migration", migration |-> "seed",
          seed |-> "typecheck", typecheck |-> "build", build |-> "tests", tests |-> "rebuild",
          rebuild |-> "free port"]
Npm == DOMAIN After
Docker == {"docker version", "docker build", "docker run", "docker logs", "docker stop",
           "docker rmi", "preview build", "preview run", "preview rm", "preview rmi"}
Points == Npm \cup Docker \cup
          {"idle", "add", "light", "config", "package", "free port", "boot", "remove", "scan",
           "docker add", "dockerfile", "docker port", "docker probe", "docker remove", "verdict",
           "preview port", "preview file", "preview probe", "ended"}

ValidationTypeOK ==
    /\ check \in [Checks -> [kind : {"none", "heavy", "readiness", "preview"}, project : Projects,
                             at : Points, blocking : Nat, failed : SUBSET (Points \cup {"stubs", "docker"}),
                             thrown : BOOLEAN, verdict : {"none", "ok", "bad", "thrown", "lost"}]]
    /\ command \in [Checks -> {"none", "ok", "fail", "slow", "deaf"}]
    /\ worktree \in [Checks -> BOOLEAN] /\ port \in [Checks -> Ports \cup {0}]
    /\ app \in [Checks -> {"none", "starting", "up", "exited", "dying"}]
    /\ box \in [Checks -> {"none", "up", "exited"}] /\ image \subseteq Checks
    /\ mishaps \in 0..MaxMishaps /\ excused \subseteq Checks /\ unremoved \subseteq Checks
    /\ others \subseteq Ports
    /\ answered \in [Checks -> {"nobody", "own", "other"}]

ValidationInit ==
    /\ check = [c \in Checks |-> NoCheck] /\ command = [c \in Checks |-> "none"]
    /\ worktree = [c \in Checks |-> FALSE] /\ port = [c \in Checks |-> 0]
    /\ app = [c \in Checks |-> "none"] /\ box = [c \in Checks |-> "none"] /\ image = {}
    /\ others = {} /\ mishaps = 0 /\ answered = [c \in Checks |-> "nobody"]
    /\ excused = {} /\ unremoved = {}

At(c, point) == check[c].at = point
Project(c) == check[c].project
Mishap == mishaps < MaxMishaps /\ mishaps' = mishaps + 1

Go(c, point) == check' = [check EXCEPT ![c].at = point]
End(c, verdict) == check' = [check EXCEPT ![c].at = "ended", ![c].verdict = verdict]

\* Mutant of Record: a failed seed is listed and not counted.
RecordUncounted(c, id, n, point) ==
    check' = [check EXCEPT ![c].at = point, ![c].blocking = @ + IF id = "seed" THEN 0 ELSE n,
                           ![c].failed = @ \cup IF n > 0 THEN {id} ELSE {}]

\* The part id of the check has n blocking findings; c goes to a point.
Record(c, id, n, point) ==
    check' = [check EXCEPT ![c].at = point, ![c].blocking = @ + n,
                           ![c].failed = @ \cup IF n > 0 THEN {id} ELSE {}]

\* Something is thrown: by a heavy validation within its worktree, by the
\* Docker part of the readiness check, by the preview tool.
Throw(c, part) ==
    CASE part = "heavy" -> check' = [check EXCEPT ![c].at = "remove", ![c].thrown = TRUE]
      [] part = "docker" -> Record(c, "docker", 1, "docker remove")
      [] part = "preview" -> End(c, "thrown")

(***************************************************************************)
(* withIsolatedWorktree.                                                   *)
(***************************************************************************)

Begin(c) ==
    /\ At(c, "idle")
    /\ \E kind \in KindsOf[c], p \in Projects :
         check' = [check EXCEPT ![c] = [NoCheck EXCEPT !.kind = kind, !.project = p,
                     !.at = IF kind = "preview" THEN "preview port" ELSE "add"]]
    /\ UNCHANGED <<others, command, worktree, port, app, box, image, mishaps, answered,
                    excused, unremoved>>

AddWorktree(c) ==
    /\ \/ At(c, "add") /\ Go(c, "light")
       \/ At(c, "docker add") /\ Go(c, "dockerfile")
    /\ worktree' = [worktree EXCEPT ![c] = TRUE]
    /\ UNCHANGED <<others, command, port, app, box, image, mishaps, answered,
                    excused, unremoved>>

\* The verdict of a heavy validation, or how the readiness check goes on with it.
HeavyEnds(c, thrown) ==
    LET ok == check[c].blocking = 0 /\ ~thrown
    IN  IF check[c].kind = "heavy"
        THEN End(c, IF thrown THEN "thrown" ELSE IF ok THEN "ok" ELSE "bad")
        ELSE check' = [check EXCEPT ![c].at = "scan", ![c].blocking = IF ok THEN 0 ELSE 1,
                         ![c].failed = @ \cup IF thrown THEN {"add"} ELSE {}]

\* The directory cannot be made, or it is there and git refuses: before the try
\* block, so nothing removes it.  The readiness check catches what is thrown.
AddFails(c) ==
    /\ Mishap
    /\ \E left \in BOOLEAN : worktree' = [worktree EXCEPT ![c] = left]
    /\ unremoved' = unremoved \cup {c}
    /\ \/ At(c, "add") /\ check[c].kind = "heavy" /\ End(c, "thrown")
       \/ At(c, "add") /\ check[c].kind = "readiness" /\ Record(c, "add", 1, "scan")
       \/ At(c, "docker add") /\ Record(c, "docker", 1, "verdict")
    /\ UNCHANGED <<others, command, port, app, box, image, answered, excused>>

\* The finally block, whatever the runner did: if git does not remove the
\* worktree, its directory is deleted.
RemoveWorktree(c) ==
    /\ worktree' = [worktree EXCEPT ![c] = FALSE]
    /\ \/ At(c, "remove") /\ HeavyEnds(c, check[c].thrown)
       \/ At(c, "docker remove") /\ Go(c, "verdict")
    /\ UNCHANGED <<others, command, port, app, box, image, mishaps, answered,
                    excused, unremoved>>

\* Neither removes it.  A directory that stays busy is passed over in silence;
\* any other error is thrown in place of what the runner returned or threw.
RemovalFails(c) ==
    /\ Mishap
    /\ \/ At(c, "remove") /\ \E thrown \in {check[c].thrown, TRUE} : HeavyEnds(c, thrown)
       \/ At(c, "docker remove") /\ (Go(c, "verdict") \/ Record(c, "docker", 1, "verdict"))
    /\ unremoved' = unremoved \cup {c}
    /\ UNCHANGED <<others, command, worktree, port, app, box, image, answered, excused>>

(***************************************************************************)
(* Commands.  A timeout sends SIGTERM and looks at child.killed before it  *)
(* sends SIGKILL: kill() has set it, so a command that does not react to   *)
(* SIGTERM is waited for without end.                                      *)
(***************************************************************************)

PrismaRequired(p) == p.prisma \/ {"migration", "seed"} \cap p.scripts # {}

Runs(p, s) ==
    CASE s = "install" -> TRUE
      [] s = "generate" -> p.prisma
      [] s = "rebuild" -> {"build", "start"} \subseteq p.scripts
      [] OTHER -> s \in p.scripts

Launch(c) ==
    /\ command[c] = "none"
    /\ \/ check[c].at \in Docker
       \/ check[c].at \in Npm /\ Runs(Project(c), check[c].at)
    /\ \/ command' = [command EXCEPT ![c] = "ok"] /\ UNCHANGED mishaps
       \/ Mishap /\ \E fate \in {"fail", "slow", "deaf"} : command' = [command EXCEPT ![c] = fate]
    /\ UNCHANGED <<others, check, worktree, port, app, box, image, answered, excused, unremoved>>

\* Mutant of Returns: commands have no timeout.
ReturnsItself(c) == command[c] \in {"ok", "fail"} /\ command' = [command EXCEPT ![c] = "none"]

\* The command ends, by itself or after SIGTERM.
Returns(c) == command[c] \in {"ok", "fail", "slow"} /\ command' = [command EXCEPT ![c] = "none"]
Fails(c) == IF command[c] = "ok" THEN 0 ELSE 1

(***************************************************************************)
(* runHeavyProjectValidation.                                              *)
(***************************************************************************)

\* The light validation, the production configuration, then package.json,
\* without which the validation is over.
ReadProject(c) ==
    LET p == Project(c) IN
    /\ \/ At(c, "light") /\ Record(c, "light", p.light, "config")
       \/ At(c, "config") /\ Record(c, "config", IF p.config THEN 0 ELSE 1, "package")
       \/ At(c, "package") /\ Go(c, IF p.package THEN "install" ELSE "remove")
    /\ UNCHANGED <<others, command, worktree, port, app, box, image, mishaps, answered,
                    excused, unremoved>>

\* The outcomes of generate and of the second build are not looked at.
NpmReturns(c) ==
    LET s == check[c].at IN
    /\ s \in Npm /\ Returns(c)
    /\ Record(c, s, IF s \in {"generate", "rebuild"} THEN 0 ELSE Fails(c), After[s])
    /\ UNCHANGED <<others, worktree, port, app, box, image, mishaps, answered,
                    excused, unremoved>>

\* A script that is not there is skipped, unless Prisma requires it.
SkipScript(c) ==
    LET s == check[c].at IN
    /\ s \in Npm /\ ~Runs(Project(c), s)
    /\ Record(c, s, IF s \in {"migration", "seed"} /\ PrismaRequired(Project(c)) THEN 1 ELSE 0,
              After[s])
    /\ UNCHANGED <<others, command, worktree, port, app, box, image, mishaps, answered,
                    excused, unremoved>>

\* npm cannot be started.
NpmIsMissing(c) ==
    /\ check[c].at \in Npm /\ Runs(Project(c), check[c].at) /\ command[c] = "none"
    /\ Mishap /\ Throw(c, "heavy")
    /\ UNCHANGED <<others, command, worktree, port, app, box, image, answered,
                    excused, unremoved>>

\* Who listens on a port; an application that was told to end may still do so.
Listening(q) == {d \in Checks : port[d] = q /\ (app[d] = "up" \/ box[d] = "up")}
Answering(q) == Listening(q) \cup {d \in Checks : port[d] = q /\ app[d] = "dying"}

\* acquireFreePort closes the port it has found: nothing reserves it.
Taken(q) == q \in others \/ Listening(q) # {}
Acquire(c) == \E q \in Ports : ~Taken(q) /\ port' = [port EXCEPT ![c] = q]

\* Another program takes a port, never the last one, or gives it back.
Others ==
    /\ \E q \in Ports : \/ \E r \in Ports \ {q} : ~Taken(q) /\ ~Taken(r) /\ others' = others \cup {q}
                        \/ q \in others /\ others' = others \ {q}
    /\ UNCHANGED <<check, command, worktree, port, app, box, image, mishaps, answered,
                    excused, unremoved>>

StartApplication(c) ==
    /\ At(c, "free port")
    /\ IF "start" \in Project(c).scripts
       THEN Acquire(c) /\ app' = [app EXCEPT ![c] = "starting"] /\ Go(c, "boot")
       ELSE Go(c, "remove") /\ UNCHANGED <<port, app>>
    /\ UNCHANGED <<others, command, worktree, box, image, mishaps, answered, excused, unremoved>>

\* An application that finds its port taken exits; any other one may, too.
ApplicationRuns(c) ==
    /\ \/ app[c] = "starting" /\ ~Taken(port[c]) /\ app' = [app EXCEPT ![c] = "up"]
       \/ app[c] \in {"starting", "up"} /\ app' = [app EXCEPT ![c] = "exited"]
    /\ UNCHANGED <<others, check, command, worktree, port, box, image, mishaps, answered,
                    excused, unremoved>>

ApplicationEnds(c) ==
    /\ app[c] = "dying" /\ app' = [app EXCEPT ![c] = "none"]
    /\ UNCHANGED <<others, check, command, worktree, port, box, image, mishaps, answered,
                    excused, unremoved>>

\* terminateBootProcess; the validation does not wait for the end.
Terminated(c) ==
    app' = [app EXCEPT ![c] = IF @ \in {"starting", "up"} THEN "dying" ELSE "none"]

\* HTTP 200 from whoever listens on the port.
Answered(c) ==
    /\ Answering(port[c]) # {} \/ port[c] \in others
    /\ answered' = [answered EXCEPT ![c] = IF c \in Listening(port[c]) THEN "own" ELSE "other"]

BootAnswers(c) ==
    /\ At(c, "boot") /\ Answered(c) /\ Terminated(c) /\ Record(c, "boot", 0, "remove")
    /\ UNCHANGED <<others, command, worktree, port, box, image, mishaps, excused, unremoved>>

\* The application has exited, or the time is over.
BootFails(c) ==
    /\ At(c, "boot") /\ UNCHANGED answered
    /\ Terminated(c) /\ Record(c, "boot", 1, "remove")
    /\ UNCHANGED <<others, command, worktree, port, box, image, mishaps, excused, unremoved>>

(***************************************************************************)
(* The rest of runV1ReadinessCheck.                                        *)
(***************************************************************************)

\* Markers and open debts in the working tree; files that cannot be read fail both.
ScanStubs(c) ==
    /\ At(c, "scan") /\ Record(c, "stubs", IF Project(c).stubs THEN 1 ELSE 0, "docker version")
    /\ UNCHANGED <<others, command, worktree, port, app, box, image, mishaps, answered,
                    excused, unremoved>>

FindDockerfile(c) ==
    /\ At(c, "dockerfile")
    /\ IF Project(c).dockerfile THEN Go(c, "docker build") ELSE Record(c, "docker", 1, "docker remove")
    /\ UNCHANGED <<others, command, worktree, port, app, box, image, mishaps, answered,
                    excused, unremoved>>

\* The application of the boot check has long been killed when an image is built.
FindPort(c) ==
    /\ \/ At(c, "docker port") /\ Go(c, "docker run")
       \/ At(c, "preview port") /\ Go(c, "preview file")
    /\ Acquire(c)
    /\ UNCHANGED <<others, command, worktree, app, box, image, mishaps, answered,
                    excused, unremoved>>

\* A port that cannot be found, were it that none is free, is thrown: past the
\* removal of an image.
PortFails(c) ==
    /\ \/ Mishap
       \/ (\A q \in Ports : Taken(q)) /\ UNCHANGED mishaps
    /\ \/ At(c, "free port") /\ "start" \in Project(c).scripts /\ Throw(c, "heavy")
       \/ At(c, "docker port") /\ Throw(c, "docker")
       \/ At(c, "preview port") /\ Throw(c, "preview")
    /\ excused' = excused \cup {c}
    /\ UNCHANGED <<others, command, worktree, port, app, box, image, answered, unremoved>>

\* What a docker command has done: one that was stopped may have done its work.
Done(c) == CASE command[c] = "ok" -> {TRUE} [] command[c] = "fail" -> {FALSE} [] OTHER -> BOOLEAN

\* An image that a container uses is removed by force only, and a container
\* that did not start is there unless it was run with --rm.
DockerDoes(c) ==
    LET s == check[c].at IN
    CASE s \in {"docker build", "preview build"} ->
           /\ \E done \in Done(c) : image' = IF done THEN image \cup {c} ELSE image
           /\ UNCHANGED box
      [] s \in {"docker run", "preview run"} ->
           /\ \E done \in Done(c) : box' = [box EXCEPT ![c] =
                IF done THEN "up" ELSE IF s = "preview run" THEN "exited" ELSE "none"]
           /\ UNCHANGED image
      [] s \in {"docker stop", "preview rm"} ->
           box' = (IF command[c] = "ok" THEN [box EXCEPT ![c] = "none"] ELSE box) /\ UNCHANGED image
      [] s \in {"docker rmi", "preview rmi"} ->
           /\ image' = IF command[c] = "ok" /\ (s = "docker rmi" \/ box[c] = "none")
                       THEN image \ {c} ELSE image
           /\ UNCHANGED box
      [] OTHER -> UNCHANGED <<box, image>>

\* Where a check goes after a docker command: on if the command succeeded or
\* does not matter, or to what is left to do after a failure.
Onward(c) ==
    LET s == check[c].at IN
    CASE s = "docker version" -> "docker add"     [] s = "docker build" -> "docker port"
      [] s = "docker run" -> "docker probe"       [] s = "docker stop" -> "docker rmi"
      [] s = "docker rmi" -> "docker remove"
      [] s = "docker logs" -> IF check[c].kind = "preview" THEN "preview rm" ELSE "docker stop"
      [] s = "preview build" -> "preview run"     [] s = "preview run" -> "preview probe"
      [] s = "preview rm" -> "preview rmi"        [] s = "preview rmi" -> "verdict"
Afterwards(s) ==
    CASE s = "docker version" -> "verdict" [] s = "docker build" -> "docker remove"
      [] s = "docker run" -> "docker rmi"  [] s \in {"preview build", "preview run"} -> "preview rm"
Decisive == {"docker version", "docker build", "docker run", "preview build", "preview run"}

DockerReturns(c) ==
    LET s == check[c].at  failed == s \in Decisive /\ command[c] # "ok" IN
    /\ s \in Docker /\ Returns(c) /\ DockerDoes(c)
    /\ Record(c, "docker", IF failed THEN 1 ELSE 0, IF failed THEN Afterwards(s) ELSE Onward(c))
    /\ excused' = IF \/ command[c] = "slow" /\ s \in {"docker build", "docker run"}
                     \/ command[c] # "ok" /\ s \in Docker \ Decisive
                  THEN excused \cup {c} ELSE excused
    /\ UNCHANGED <<others, worktree, port, app, mishaps, answered, unremoved>>

\* HTTP 200 for the readiness check, a connection for the preview, which also
\* looks whether its container is still there.
ContainerAnswers(c) ==
    /\ \/ At(c, "docker probe") /\ Record(c, "docker", 0, "docker stop")
       \/ At(c, "preview probe") /\ Record(c, "docker", 0, "docker logs")
    /\ Answered(c)
    /\ UNCHANGED <<others, command, worktree, port, app, box, image, mishaps,
                    excused, unremoved>>

ContainerFails(c) ==
    /\ check[c].at \in {"docker probe", "preview probe"} /\ Record(c, "docker", 1, "docker logs")
    /\ UNCHANGED <<others, command, worktree, port, app, box, image, mishaps, answered,
                    excused, unremoved>>

ContainerExits(c) ==
    /\ box[c] = "up" /\ box' = [box EXCEPT ![c] = IF check[c].kind = "preview" THEN "exited" ELSE "none"]
    /\ UNCHANGED <<others, check, command, worktree, port, app, image, mishaps, answered,
                    excused, unremoved>>

FindPreviewFile(c) ==
    /\ At(c, "preview file")
    /\ IF Project(c).dockerfile \/ Project(c).package
       THEN Go(c, "preview build") ELSE Record(c, "docker", 1, "preview rm")
    /\ UNCHANGED <<others, command, worktree, port, app, box, image, mishaps, answered,
                    excused, unremoved>>

Verdict(c) ==
    /\ At(c, "verdict") /\ End(c, IF check[c].blocking = 0 THEN "ok" ELSE "bad")
    /\ UNCHANGED <<others, command, worktree, port, app, box, image, mishaps, answered,
                    excused, unremoved>>

\* The process of a check stops.  What it started goes on: the application is
\* in a process group of its own, the container with the Docker daemon.
ProcessStops(c) ==
    /\ check[c].at \notin {"idle", "ended"} /\ Mishap /\ End(c, "lost")
    /\ command' = [command EXCEPT ![c] = "none"] /\ excused' = excused \cup {c}
    /\ UNCHANGED <<others, worktree, port, app, box, image, answered, unremoved>>

CheckStep(c) ==
    \/ Begin(c) \/ AddWorktree(c) \/ AddFails(c) \/ RemoveWorktree(c) \/ RemovalFails(c)
    \/ Launch(c) \/ ReadProject(c) \/ NpmReturns(c) \/ SkipScript(c) \/ NpmIsMissing(c)
    \/ StartApplication(c) \/ BootAnswers(c) \/ BootFails(c) \/ ScanStubs(c)
    \/ FindDockerfile(c) \/ FindPort(c) \/ PortFails(c) \/ DockerReturns(c)
    \/ ContainerAnswers(c) \/ ContainerFails(c) \/ FindPreviewFile(c) \/ Verdict(c)

ValidationNext ==
    \/ \E c \in Checks : \/ CheckStep(c) \/ ApplicationRuns(c) \/ ApplicationEnds(c)
                      \/ ContainerExits(c) \/ ProcessStops(c)
    \/ Others

ValidationSpec == ValidationInit /\ [][ValidationNext]_validationVars

\* Checks go on, and an application is killed a second after it was told to end.
FairValidationSpec ==
    /\ ValidationSpec
    /\ \A c \in Checks : WF_validationVars(CheckStep(c)) /\ WF_validationVars(ApplicationEnds(c))

(***************************************************************************)
(* Properties.                                                             *)
(***************************************************************************)

\* A check says ok exactly when nothing it looked at has failed; every script
\* Prisma needs was there, and somebody answered at its port: its own
\* application or container, or that of another check that was given the same
\* port, since acquireFreePort reserves nothing.
VerdictMatchesFindings ==
    \A c \in Checks : check[c].verdict \in {"ok", "bad"} =>
        /\ check[c].verdict = "ok" <=> check[c].failed = {}
        /\ check[c].verdict = "ok" /\ check[c].kind # "preview" /\ PrismaRequired(Project(c))
             /\ Project(c).package => {"migration", "seed"} \subseteq Project(c).scripts
        /\ check[c].verdict = "ok" /\ ("start" \in Project(c).scripts \/ check[c].kind # "heavy")
             /\ Project(c).package => answered[c] # "nobody"

\* A check that has ended, even by an exception, has left no running
\* application unless its process was stopped, no container and no image unless
\* that or a docker command failed, and no directory of a worktree unless the
\* process was stopped or the directory could not be added or removed: a
\* verdict of ok says nothing of that.
NothingIsLeftBehind ==
    \A c \in Checks : check[c].at = "ended" =>
        /\ worktree[c] => check[c].verdict = "lost" \/ c \in unremoved
        /\ app[c] \in {"starting", "up"} => check[c].verdict = "lost"
        /\ c \notin excused => box[c] = "none" /\ c \notin image

\* All of it: the verdict of a check is true of the project, and the check is gone
\* when it has given it.
ChecksAreSound == ValidationTypeOK /\ VerdictMatchesFindings /\ NothingIsLeftBehind

\* A check that has begun, in a worktree or as a preview, ends, unless it waits
\* for a command of npm or docker that does not react to SIGTERM.
CheckEnds ==
    \A c \in Checks :
        check[c].at \in {"add", "preview port"} ~> check[c].at = "ended" \/ command[c] = "deaf"
=============================================================================
