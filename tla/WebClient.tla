------------------------------ MODULE WebClient ------------------------------
(***************************************************************************)
(* The page of the web client: what it holds of the project that is open,  *)
(* and the calls its handlers have under way.  The path of a call is fixed *)
(* when it is sent; its answer is written into whatever the page holds     *)
(* when it comes.  A handler is a task: calls under way together, then the *)
(* steps that follow them.  Every project has one file and one run, which  *)
(* go by its name; of a text it only says whose it is, and verdicts and    *)
(* statuses are left out.                                                  *)
(***************************************************************************)
EXTENDS Naturals, Sequences, FiniteSets

CONSTANTS
    Projects, Workspaces, Home,  \* Home: the workspace of each project
    None,
    Tasks, Poller,               \* handlers under way together; the timer's own
    MaxEvents, MaxFailures       \* bounds

ASSUME ClientAssumption ==
    /\ Home \in [Projects -> Workspaces] /\ None \notin Projects \cup Workspaces
    /\ Poller \notin Tasks /\ MaxEvents \in Nat /\ MaxFailures \in Nat

VARIABLES
    view,      \* state of the page, each part by the project it came from; the poll timer
    tasks,     \* the handlers under way
    session,   \* whether the browser has a session
    deployed,  \* the server: the deployment of each project
    blind,     \* history: parts written by a late answer, left by a load that failed, or kept
    failures, events

clientVars == <<view, tasks, session, deployed, blind, failures, events>>

Parts == {"list", "project", "file", "commits", "diff", "deployments", "logs", "runs", "run",
          "detail", "polling"}
Steps == {"projects", "first", "enter", "refresh", "loads", "reopen", "file_if_none",
          "git", "deployments", "runs", "detail"}
Shown == [of : Projects, building : BOOLEAN]

SignedOut == [user |-> FALSE, workspace |-> None, list |-> None, project |-> None,
              file |-> None, commits |-> None, diff |-> None, deployments |-> {},
              deployment |-> None, logs |-> None, runs |-> None, run |-> None, detail |-> None,
              timer |-> FALSE]
NoTask == [calls |-> {}, rest |-> <<>>, boot |-> FALSE]

\* A call: what it asks, the project or workspace in its path, the run or
\* deployment in its path, whether it went out under a session.
Call(op, of, arg) == [op |-> op, of |-> of, arg |-> arg, auth |-> session]
Task(calls, rest) == [calls |-> calls, rest |-> rest, boot |-> FALSE]

ClientInit ==
    /\ view = SignedOut /\ session \in BOOLEAN
    /\ \E boot \in Tasks :
           tasks = [t \in Tasks \cup {Poller} |->
                       IF t # boot THEN NoTask
                       ELSE [calls |-> {Call("account", None, None)}, rest |-> <<"projects", "first">>,
                             boot |-> TRUE]]
    /\ deployed = [p \in Projects |-> "none"] /\ blind = {} /\ failures = 0 /\ events = 0

(***************************************************************************)
(* What is written into the page.                                          *)
(***************************************************************************)

\* The branch of loadProjects without a workspace.
WithoutWorkspace(v) ==
    [v EXCEPT !.list = None, !.project = None, !.deployments = {}, !.deployment = None,
              !.logs = None, !.runs = None, !.run = None, !.detail = None, !.timer = FALSE]

\* loadProjects, when the open project is not in the list.
WithoutProject(v) ==
    [WithoutWorkspace(v) EXCEPT !.list = v.list, !.file = None, !.commits = None,
                                  !.diff = None]

Listed(v, w) ==
    LET l == [v EXCEPT !.list = w] IN
    IF v.project # None /\ Home[v.project] # w THEN WithoutProject(l) ELSE l

\* Mutant: the open file outlives the project it was read from.
SelectedKeepingFile(v, p) == [v EXCEPT !.project = p, !.run = None, !.detail = None]

\* selectProject: the diff of a commit stays, whatever project it is of.
Selected(v, p) == [v EXCEPT !.project = p, !.file = None, !.run = None, !.detail = None]

\* syncDeploymentPolling
Synced(v) ==
    [v EXCEPT !.timer = v.project # None /\ \E d \in v.deployments : d.building]

Served(p) ==
    IF deployed[p] = "none" THEN {} ELSE {[of |-> p, building |-> deployed[p] = "building"]}

\* loadDeployments, before it asks for the logs and looks at the polling.
WithDeployments(v, p) ==
    LET shown == Served(p)
        kept == \E d \in shown : d.of = v.deployment
    IN  [v EXCEPT !.deployments = shown,
                  !.deployment = IF kept THEN @ ELSE IF shown = {} THEN None ELSE p,
                  !.logs = IF kept THEN @ ELSE None]

\* loadDeploymentLogs: the deployment that comes with the logs is put in the list.
WithLogs(v, p) ==
    Synced([v EXCEPT !.deployment = p, !.logs = p,
                     !.deployments = {d \in @ : d.of # p} \cup Served(p)])

\* loadAgentRuns
WithRuns(v, p) ==
    IF v.run = p THEN [v EXCEPT !.runs = p]
    ELSE [v EXCEPT !.runs = p, !.run = p, !.detail = None]

\* refreshAccount and applyAuthPayload
SignedIn(v, w) == [v EXCEPT !.user = TRUE, !.workspace = IF @ = None THEN w ELSE @]

(***************************************************************************)
(* Which part belongs to another project.                                  *)
(***************************************************************************)

Foreign(v, part) ==
    CASE part = "list" -> v.list \notin {None, v.workspace}
      [] part = "project" -> v.project # None /\ Home[v.project] # v.workspace
      [] part = "polling" ->
           v.project # None /\ ~v.timer /\ \E d \in v.deployments : d.building
      [] part = "deployments" ->
           /\ v.project # None
           /\ v.deployment \notin {None, v.project} \/ \E d \in v.deployments : d.of # v.project
      [] part \in {"file", "commits", "diff", "logs", "runs", "run", "detail"} ->
           v.project # None /\ v[part] \notin {None, v.project}

Written(op) ==
    CASE op = "projects" -> {"list", "project"}
      [] op = "select" -> {"project"}
      [] op \in {"file", "reopen"} -> {"file"}
      [] op = "git" -> {"commits"}
      [] op = "diff" -> {"diff"}
      [] op \in {"deployments", "logs"} -> {"deployments", "polling", "logs"}
      [] op \in {"deployments_only", "deploy"} -> {"deployments", "polling"}
      [] op = "runs" -> {"runs", "run", "detail"}
      [] op \in {"detail", "resume"} -> {"run", "detail"}
      [] OTHER -> {}

\* The answer comes after the page has moved on.
Late(c) ==
    IF c.op = "projects" THEN c.of # view.workspace
    ELSE IF c.op = "select" THEN Home[c.of] # view.workspace
    ELSE c.of # view.project

\* What an answer may leave of another project: what it writes when it is late,
\* and the diff that is there when a project is opened.
Suspects(c) ==
    (IF Late(c) THEN Written(c.op) ELSE {}) \cup (IF c.op = "select" THEN {"diff"} ELSE {})

Show(v, suspects) ==
    /\ view' = v /\ blind' = {part \in blind \cup suspects : Foreign(v, part)}

(***************************************************************************)
(* Answers.  A handler's next step follows its last answer before anything *)
(* else runs.                                                              *)
(***************************************************************************)

Handlers == Tasks \cup {Poller}
Due == {t \in Handlers : tasks[t].calls = {} /\ tasks[t].rest # <<>>}
AtRest(t) == tasks[t] = NoTask

Advance(t, calls, rest) ==
    tasks' = [tasks EXCEPT ![t] = IF calls = {} /\ rest = <<>> THEN NoTask
                                  ELSE [@ EXCEPT !.calls = calls, !.rest = rest]]

Answers(t, ops) ==
    {c \in tasks[t].calls : Due = {} /\ c.op \in ops /\ c.arg \in {None, c.of} /\ (c.auth \/ session)}

Answered(t, c, v, follow, steps) ==
    /\ Advance(t, (tasks[t].calls \ {c}) \cup follow, steps \o tasks[t].rest)
    /\ Show(v, Suspects(c))
    /\ UNCHANGED <<failures, events>>

\* api: a refused call refreshes the session; when that is refused too, the
\* page is cleared.
AccountAnswered(t) ==
    \E c \in Answers(t, {"account"}), w \in Workspaces :
        Answered(t, c, SignedIn(view, w), {}, <<>>) /\ UNCHANGED <<session, deployed>>

LoginAnswered(t) ==
    \E c \in tasks[t].calls, w \in Workspaces :
        /\ Due = {} /\ c.op = "login" /\ session' = TRUE
        /\ Answered(t, c, [view EXCEPT !.user = TRUE, !.workspace = w], {}, <<>>)
        /\ UNCHANGED deployed

LogoutAnswered(t) ==
    \E c \in tasks[t].calls :
        /\ Due = {} /\ c.op = "logout" /\ session' = FALSE
        /\ Answered(t, c, SignedOut, {}, <<>>) /\ UNCHANGED deployed

ProjectsAnswered(t) ==
    \E c \in Answers(t, {"projects"}) :
        LET v == Listed(view, c.of) IN
        /\ Answered(t, c, v,
               IF v.project = None THEN {} ELSE {Call("deployments_only", v.project, None)}, <<>>)
        /\ UNCHANGED <<session, deployed>>

SelectAnswered(t) ==
    \E c \in Answers(t, {"select"}) :
        Answered(t, c, Selected(view, c.of), {}, <<"loads">>) /\ UNCHANGED <<session, deployed>>

FileAnswered(t) ==
    \E c \in Answers(t, {"file", "reopen"}) :
        Answered(t, c, [view EXCEPT !.file = c.of], {}, <<>>) /\ UNCHANGED <<session, deployed>>

GitAnswered(t) ==
    \E c \in Answers(t, {"git"}) :
        Answered(t, c, [view EXCEPT !.commits = c.of], {}, <<>>) /\ UNCHANGED <<session, deployed>>

\* readDiff answers with what git prints, were it that it knows no such commit.
DiffAnswered(t) ==
    \E c \in Answers(t, {"diff"}) :
        Answered(t, c, [view EXCEPT !.diff = c.of], {}, <<>>) /\ UNCHANGED <<session, deployed>>

DeploymentsAnswered(t) ==
    \E c \in Answers(t, {"deployments", "deployments_only"}) :
        LET v == WithDeployments(view, c.of)
            logs == c.op = "deployments" /\ v.project # None /\ v.deployment # None
        IN
        /\ IF logs
           THEN Answered(t, c, v, {Call("logs", v.project, v.deployment)}, <<>>)
           ELSE Answered(t, c, Synced(v), {}, <<>>)
        /\ UNCHANGED <<session, deployed>>

LogsAnswered(t) ==
    \E c \in Answers(t, {"logs"}) :
        Answered(t, c, WithLogs(view, c.of), {}, <<>>) /\ UNCHANGED <<session, deployed>>

RunsAnswered(t) ==
    \E c \in Answers(t, {"runs"}) :
        LET v == WithRuns(view, c.of) IN
        /\ Answered(t, c, v,
               IF v.project = None THEN {} ELSE {Call("detail", v.project, v.run)}, <<>>)
        /\ UNCHANGED <<session, deployed>>

DetailAnswered(t) ==
    \E c \in Answers(t, {"detail"}) :
        /\ Answered(t, c, [view EXCEPT !.run = c.arg, !.detail = c.arg], {}, <<>>)
        /\ UNCHANGED <<session, deployed>>

ResumeAnswered(t) ==
    \E c \in Answers(t, {"resume"}) :
        Answered(t, c, [view EXCEPT !.detail = c.arg], {}, <<>>) /\ UNCHANGED <<session, deployed>>

DeployAnswered(t) ==
    \E c \in Answers(t, {"deploy"}) :
        /\ deployed[c.of] # "building" /\ deployed' = [deployed EXCEPT ![c.of] = "building"]
        /\ Answered(t, c, [view EXCEPT !.deployment = c.of], {}, <<>>) /\ UNCHANGED session

\* Saving, generating, committing, creating and validating only go on.
OtherAnswered(t) ==
    \E c \in Answers(t, {"act"}) :
        Answered(t, c, view, {}, <<>>) /\ UNCHANGED <<session, deployed>>

\* The server refuses what is not the project's, and a second deployment.
Denied(c) ==
    c.arg \notin {None, c.of} \/ (c.op = "deploy" /\ deployed[c.of] = "building")

\* A call throws, and what follows it in its handler is not done; the calls
\* under way beside it go on.  refreshActiveProject catches for its file,
\* handleLogout and bootstrap clear the page.
Thrown(t, c, v) ==
    /\ IF c.op = "reopen"
       THEN /\ Advance(t, tasks[t].calls \ {c}, tasks[t].rest)
            /\ Show([v EXCEPT !.file = None], Written(c.op))
       ELSE /\ Advance(t, tasks[t].calls \ {c}, <<>>)
            /\ Show(IF c.op = "logout" \/ tasks[t].boot THEN SignedOut ELSE v, Written(c.op))
    /\ UNCHANGED <<session, deployed, events>>

CallRefused(t) ==
    \E c \in tasks[t].calls :
        Due = {} /\ Denied(c) /\ (c.auth \/ session) /\ Thrown(t, c, view) /\ UNCHANGED failures

CallFails(t) ==
    \E c \in tasks[t].calls :
        /\ Due = {} /\ failures < MaxFailures
        /\ Thrown(t, c, view) /\ failures' = failures + 1

\* api and clearSession: neither the call nor the refresh of the session passes.
Unauthorized(t) ==
    \E c \in tasks[t].calls :
        /\ Due = {} /\ ~session /\ c.op \notin {"login", "logout"}
        /\ Thrown(t, c, SignedOut) /\ UNCHANGED failures

(***************************************************************************)
(* The next step of a handler.                                             *)
(***************************************************************************)

\* A step sends a call, or finds nothing to ask for; v is then the page.
Sends(t, calls, steps) ==
    Advance(t, calls, steps \o Tail(tasks[t].rest)) /\ UNCHANGED <<view, blind>>
Skips(t, v) ==
    Advance(t, {}, Tail(tasks[t].rest)) /\ Show(v, {})

WithoutDeployments(v) == [v EXCEPT !.deployments = {}, !.deployment = None, !.logs = None,
                                    !.timer = FALSE]
WithoutRuns(v) == [v EXCEPT !.runs = None, !.run = None, !.detail = None]

AccountStep(t, step) ==
    \/ step = "account" /\ Sends(t, {Call("account", None, None)}, <<>>)
    \/ step = "enter" /\ \E w \in Workspaces : Skips(t, [view EXCEPT !.workspace = w])
    \/ step = "projects" /\ view.workspace = None /\ Skips(t, WithoutWorkspace(view))
    \/ /\ step = "projects" /\ view.workspace # None
       /\ Sends(t, {Call("projects", view.workspace, None)}, <<>>)
    \/ /\ step = "first" /\ \E p \in Projects : Home[p] = view.list
       /\ \E p \in Projects : Home[p] = view.list /\ Sends(t, {Call("select", p, None)}, <<>>)
    \/ step = "first" /\ ~(\E p \in Projects : Home[p] = view.list) /\ Skips(t, view)

ProjectStep(t, step) ==
    LET p == view.project IN
    /\ p # None
    /\ \/ /\ step = "refresh"
          /\ Sends(t, {Call("select", p, None)}, IF view.file = None THEN <<>> ELSE <<"reopen">>)
       \/ /\ step = "loads"
          /\ Sends(t, {Call(op, p, None) : op \in {"git", "deployments", "runs"}}, <<>>)
       \/ step \in {"git", "deployments", "runs", "reopen"} /\ Sends(t, {Call(step, p, None)}, <<>>)
       \/ step = "file_if_none" /\ view.file = None /\ Sends(t, {Call("file", p, None)}, <<>>)
       \/ step = "file_if_none" /\ view.file # None /\ Skips(t, view)
       \/ step = "detail" /\ view.run # None /\ Sends(t, {Call("detail", p, view.run)}, <<>>)
       \/ step = "detail" /\ view.run = None /\ Skips(t, view)

\* Without a project the loads clear their part of the page.
EmptyStep(t, step) ==
    /\ view.project = None
    /\ \/ step \in {"refresh", "reopen", "file_if_none", "detail"} /\ Skips(t, view)
       \/ step = "git" /\ Skips(t, [view EXCEPT !.commits = None, !.diff = None])
       \/ step = "deployments" /\ Skips(t, WithoutDeployments(view))
       \/ step = "runs" /\ Skips(t, WithoutRuns(view))

Continue(t) ==
    /\ t \in Due
    /\ LET step == Head(tasks[t].rest) IN
       AccountStep(t, step) \/ ProjectStep(t, step) \/ EmptyStep(t, step)
    /\ UNCHANGED <<session, deployed, failures, events>>

(***************************************************************************)
(* What the user does, and the timer.                                      *)
(***************************************************************************)

AuthHandlers ==
    IF view.user THEN {Task({Call("logout", None, None)}, <<>>)}
    ELSE {Task({Call("login", None, None)}, <<"projects", "first">>)}

\* Creating a workspace or an organization, creating a project, refreshing.
AccountHandlers ==
    {Task({Call("act", None, None)}, <<"account", "enter", "projects">>), Task({}, <<"projects">>)}
    \cup (IF view.workspace = None THEN {}
          ELSE {Task({Call("act", None, None)}, <<"projects", "first">>)})

ListHandlers == {Task({Call("select", p, None)}, <<>>) : p \in {q \in Projects : Home[q] = view.list}}

\* Opening and saving a file, generating, committing, refreshing, the diff of a
\* commit of the list.
FileHandlers ==
    LET p == view.project IN
    {Task({Call("file", p, None)}, <<>>), Task({}, <<"refresh">>), Task({}, <<"git">>),
     Task({Call("act", p, None)}, <<"projects", "refresh", "file_if_none">>),
     Task({Call("act", p, None)}, <<"refresh", "git">>)}
    \cup (IF view.file = None THEN {} ELSE {Task({Call("act", p, None)}, <<"projects", "refresh">>)})
    \cup (IF view.commits = None THEN {} ELSE {Task({Call("diff", p, None)}, <<>>)})

\* Inspecting a run of the list, validating and resuming the open one.
RunHandlers ==
    LET p == view.project IN
    {Task({}, <<"runs">>)}
    \cup (IF view.runs = None THEN {} ELSE {Task({Call("detail", p, view.runs)}, <<>>)})
    \cup (IF view.run = None THEN {}
          ELSE {Task({Call(op, p, view.run)}, <<"runs", "detail">>) : op \in {"act", "resume"}})

\* getDeployEligibility asks for the open run.
DeployHandlers ==
    LET p == view.project IN
    {Task({}, <<"deployments">>)}
    \cup {Task({Call("logs", p, d.of)}, <<>>) : d \in view.deployments}
    \cup (IF view.run = None THEN {} ELSE {Task({Call("deploy", p, view.run)}, <<"deployments">>)})

Begin(t, handler) ==
    /\ t \in Tasks /\ AtRest(t) /\ Due = {} /\ events < MaxEvents /\ events' = events + 1
    /\ tasks' = [tasks EXCEPT ![t] = handler]
    /\ UNCHANGED <<session, deployed, failures>>

Click(t) ==
    /\ \E handler \in AuthHandlers
                      \cup (IF view.user THEN AccountHandlers \cup ListHandlers ELSE {})
                      \cup (IF view.user /\ view.project # None
                            THEN FileHandlers \cup RunHandlers \cup DeployHandlers ELSE {}) :
           Begin(t, handler)
    /\ UNCHANGED <<view, blind>>

ChooseWorkspace(t) ==
    \E w \in Workspaces \ {view.workspace} :
        /\ view.user /\ Begin(t, Task({}, <<"projects">>))
        /\ Show([view EXCEPT !.workspace = w], {})

\* pollDeploymentUpdates
Poll ==
    /\ view.timer /\ view.project # None /\ AtRest(Poller) /\ Due = {}
    /\ tasks' = [tasks EXCEPT ![Poller] = Task({}, <<"deployments">>)]
    /\ UNCHANGED <<view, session, deployed, blind, failures, events>>

\* A deployment ends on the server.
DeploymentEnds ==
    \E p \in Projects :
        /\ deployed[p] = "building" /\ Due = {} /\ deployed' = [deployed EXCEPT ![p] = "ended"]
        /\ UNCHANGED <<view, tasks, session, blind, failures, events>>

ClientNext ==
    \/ \E t \in Handlers :
         \/ AccountAnswered(t) \/ LoginAnswered(t) \/ LogoutAnswered(t)
         \/ ProjectsAnswered(t) \/ SelectAnswered(t) \/ FileAnswered(t) \/ GitAnswered(t)
         \/ DiffAnswered(t)
         \/ DeploymentsAnswered(t) \/ LogsAnswered(t) \/ DeployAnswered(t)
         \/ RunsAnswered(t) \/ DetailAnswered(t) \/ ResumeAnswered(t) \/ OtherAnswered(t)
         \/ CallRefused(t) \/ CallFails(t) \/ Unauthorized(t)
         \/ Continue(t) \/ Click(t) \/ ChooseWorkspace(t)
    \/ Poll \/ DeploymentEnds

ClientSpec == ClientInit /\ [][ClientNext]_clientVars

(***************************************************************************)
(* Properties.                                                             *)
(***************************************************************************)

\* Between two callbacks, a part of the page that is not of the open project
\* (nor the list or the project of the chosen workspace) was written by a late
\* answer, or left by a load that failed, or is being loaded; or it is the diff of
\* a commit, which goes on showing another project's when a project is opened.
\* The open file and run never wait for a load: what is saved into a project was
\* read from it, and the run offered for deployment is its own.  Deployments in
\* progress are polled.
BeingLoaded(part) ==
    /\ part \notin {"file", "run", "detail", "diff"}
    /\ \E t \in Handlers : \E c \in tasks[t].calls : part \in Written(c.op) /\ ~Late(c)

PageIsOfOneProject ==
    Due = {} => \A part \in Parts : Foreign(view, part) => part \in blind \/ BeingLoaded(part)

\* Once everything is answered after a sign-out, the page is signed out, however
\* late the answers were: the calls that follow them are refused.
SignOutWins ==
    (\A t \in Handlers : AtRest(t)) /\ ~session /\ failures = 0 =>
        ~view.user /\ view.project = None /\ ~view.timer

\* Both: the page shows one project, but for the diff, and nothing after a sign-out.
PageHoldsTogether == PageIsOfOneProject /\ SignOutWins
=============================================================================
