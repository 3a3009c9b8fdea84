---------------------------- MODULE ProjectGraph ----------------------------
(***************************************************************************)
(* The import graph of a project.  First what an import may be refused     *)
(* for: the architecture contract, which the validation of a whole project *)
(* applies, and the precommit guard, which looks at the staged files of    *)
(* one step.  Then detectCycles, the depth-first search over the files in  *)
(* the order of their paths, as the machine its recursion is.              *)
(***************************************************************************)
EXTENDS Naturals, SequencesExt, Reachability

CONSTANTS
    Files,    \* the project's files: 1..n in the order of their paths
    Modules,  \* names of modules
    Loops     \* whether files of this instance import themselves

ASSUME ProjectGraphAssumption ==
    Cardinality(Files) \in Nat /\ Files = 1..Cardinality(Files) /\ Loops \in BOOLEAN

(***************************************************************************)
(* Places of files, and imports between them.                              *)
(***************************************************************************)

Layers == {"controller", "service", "repository", "schema", "dto", "entity",
           "middleware", "errors", "config", "db"}

\* The directory of a file: in a module, directly below src (module "none"), or outside
\* src.  (A *.test.ts in another directory is a test of the contract's too; the guard
\* judges it by its directory, as an importer that is excepted below anyway.)
Outside == [module : {"none"}, dir : {"outside", "outside_tests"}]
Places == [module : Modules \cup {"none"}, dir : Layers \cup {"tests", "other", "root"}]

InModule(place) == place.module # "none"
IsTest(place) == place.dir = "tests"

\* detectLayer of the validators.
Layer(place) == IF place.dir \in Layers THEN place.dir ELSE "none"

LayerMatrix(layer) ==
    LET data == {"schema", "dto", "entity", "errors", "config"}
    IN  CASE layer = "controller" -> data \cup {"service", "middleware"}
          [] layer = "service"    -> data \cup {"service", "repository"}
          [] layer = "repository" -> data \cup {"repository", "db"}
          [] layer = "middleware" -> data \cup {"middleware", "service"}
          [] layer \in {"schema", "dto"} -> data
          [] layer = "entity" -> {"entity", "errors", "config"}
          [] layer = "errors" -> {"errors", "config"}
          [] layer = "config" -> {"config"}
          [] layer = "db"     -> {"db", "config", "errors"}

\* Specifiers: relative, absolute within src/ or beyond it, src/..., of an alias or a
\* package.  What they are resolved to: nothing, a file that a later step creates,
\* another file, a source file.  What else a file says: a specifier misquoted as
\* "...js'", a test that does not import vitest.
Specifiers == {"relative", "absolute", "beyond", "src", "alias", "package"}
Targets == {"nothing", "later", "asset", "code"}
Texts == {"plain", "misquoted", "no_vitest"}

AllImports == [from : Places \cup Outside, text : Texts, specifier : Specifiers,
               target : Targets, to : Places]

\* GraphBuilder.build for one import, when the run has ended: production files are
\* those below src that are no tests, and no others are targets.
ContractViolations(i) ==
    LET resolved == i.specifier = "relative" /\ i.target \in {"later", "code"} /\ ~IsTest(i.to)
        layered == Layer(i.from) # "none" /\ Layer(i.to) # "none"
        rules == [ NonRelative |-> i.specifier \in {"absolute", "beyond", "src", "alias"},
                   MissingTarget |-> i.specifier = "relative" /\ ~resolved,
                   LayerMatrix |-> resolved /\ layered /\ Layer(i.to) \notin LayerMatrix(Layer(i.from)),
                   ModuleIsolation |-> /\ resolved /\ InModule(i.from) /\ InModule(i.to)
                                       /\ i.from.module # i.to.module ]
    IN  IF IsTest(i.from) \/ i.from \in Outside THEN {} ELSE {r \in DOMAIN rules : rules[r]}

\* detectLayer of the guard: the layers of modules it knows, and src/db.
GuardLayer(place) ==
    IF InModule(place)
    THEN IF place.dir \in {"controller", "service", "repository", "schema", "dto", "tests"}
         THEN place.dir ELSE "none"
    ELSE IF place.dir = "db" THEN "db" ELSE "none"

GuardModule(place) == IF GuardLayer(place) = "none" THEN "none" ELSE place.module

\* runPrecommitInvariantGuard for one import of a staged file, wherever the file is,
\* when its step is about to be committed.  (Its rules on specifiers that end in a
\* quote never apply: what collects the specifiers stops at quotes.)
GuardViolations(i) ==
    LET local == i.specifier \in {"relative", "absolute", "src"}
        resolved == local /\ i.target \notin {"nothing", "later"}
        source == GuardLayer(i.from)
        layer == GuardLayer(i.to)
        layered == resolved /\ source # "none" /\ layer # "none"
        foreign == /\ layered /\ layer = "service" /\ GuardModule(i.from) # "none"
                   /\ GuardModule(i.to) # "none" /\ GuardModule(i.from) # GuardModule(i.to)
        rules == [ MalformedJsSuffix |-> i.text = "misquoted",
                   MissingVitest |-> i.text = "no_vitest" /\ i.from.dir \in {"tests", "outside_tests"},
                   AbsoluteOutsideSrc |-> i.specifier = "beyond",
                   MissingTarget |-> local /\ ~resolved,
                   DbToService |-> layered /\ source = "db" /\ layer = "service",
                   RepositoryToService |-> layered /\ source = "repository" /\ layer = "service",
                   ControllerToDb |-> layered /\ source = "controller" /\ layer = "db",
                   DbToModule |-> /\ layered /\ source = "db" /\ GuardModule(i.to) # "none"
                                  /\ layer # "tests",
                   ServiceToService |-> foreign /\ source = "service",
                   CrossModuleService |-> foreign /\ source # "service" ]
    IN  {r \in DOMAIN rules : rules[r]}

(***************************************************************************)
(* detectCycles.                                                           *)
(***************************************************************************)

VARIABLES
    edges,    \* resolved imports
    import,   \* an import to be judged, or none: then the files' imports are searched
    stack,    \* the files on the way to the one in hand, each with its imports left
    visited,
    cycles    \* in the order they are found

graphVars == <<edges, import, stack, visited, cycles>>

Visiting == {stack[i].file : i \in DOMAIN stack}

\* Targets in the order of their paths: the i-th has i - 1 before it.
Imports(file) ==
    LET targets == {t \in Files : <<file, t>> \in edges}
    IN  [i \in 1..Cardinality(targets) |->
            CHOOSE t \in targets : Cardinality({u \in targets : u < t}) = i - 1]

NoImport == [specifier |-> "none"]

GraphTypeOK ==
    /\ edges \subseteq Files \X Files /\ visited \subseteq Files
    /\ import \in {NoImport} \cup AllImports
    /\ Len(stack) <= Cardinality(Files)
    /\ \A i \in DOMAIN stack : stack[i].file \in Files /\ stack[i].left \in Seq(Files)
    /\ cycles \in Seq(Seq(Files))

GraphInit ==
    /\ edges \in SUBSET {e \in Files \X Files : Loops \/ e[1] # e[2]}
    /\ import \in {NoImport} \cup (IF edges = {} THEN AllImports ELSE {})
    /\ stack = <<>> /\ visited = {} /\ cycles = <<>>

\* canonicalizeCycle: the rotation that begins with the least path.
Rotate(s, k) == [i \in DOMAIN s |-> s[((i + k - 2) % Len(s)) + 1]]
Canonical(s) ==
    LET least == CHOOSE k \in DOMAIN s : \A j \in DOMAIN s : s[k] <= s[j]
    IN  Rotate(s, least)

Enter(file) == Append(stack, [file |-> file, left |-> Imports(file)])

\* The loop over nodes.
StartAt ==
    /\ stack = <<>> /\ visited # Files /\ import = NoImport
    /\ stack' = Enter(CHOOSE f \in Files \ visited : \A g \in Files \ visited : f <= g)
    /\ UNCHANGED <<edges, import, visited, cycles>>

Top == stack[Len(stack)]
Rest == [stack EXCEPT ![Len(stack)].left = Tail(@)]

\* An import of a file on the stack closes a cycle.
CloseCycle ==
    /\ stack # <<>> /\ Top.left # <<>> /\ Head(Top.left) \in Visiting
    /\ LET start == CHOOSE i \in DOMAIN stack : stack[i].file = Head(Top.left)
           cycle == Canonical([i \in 1..(Len(stack) - start + 1) |-> stack[start + i - 1].file])
       IN  cycles' = IF cycle \in ToSet(cycles) THEN cycles ELSE Append(cycles, cycle)
    /\ stack' = Rest
    /\ UNCHANGED <<edges, import, visited>>

\* Mutant of Descend: a file that was left already ends the loop over the imports.
DescendOrBreak ==
    LET file == Head(Top.left)
    IN
    /\ stack # <<>> /\ Top.left # <<>> /\ file \notin Visiting
    /\ stack' = IF file \in visited THEN [stack EXCEPT ![Len(stack)].left = <<>>]
                ELSE Append(Rest, [file |-> file, left |-> Imports(file)])
    /\ UNCHANGED <<edges, import, visited, cycles>>

Descend ==
    LET file == Head(Top.left)
    IN
    /\ stack # <<>> /\ Top.left # <<>> /\ file \notin Visiting
    /\ stack' = IF file \in visited THEN Rest
                ELSE Append(Rest, [file |-> file, left |-> Imports(file)])
    /\ UNCHANGED <<edges, import, visited, cycles>>

Leave ==
    /\ stack # <<>> /\ Top.left = <<>>
    /\ stack' = Front(stack) /\ visited' = visited \cup {Top.file}
    /\ UNCHANGED <<edges, import, cycles>>

GraphNext == StartAt \/ CloseCycle \/ Descend \/ Leave

GraphSpec == GraphInit /\ [][GraphNext]_graphVars

(***************************************************************************)
(* Properties.                                                             *)
(***************************************************************************)

Searched == stack = <<>> /\ visited = Files
Successor(s, i) == s[(i % Len(s)) + 1]

\* Every reported cycle is one: its files import each other in turn, none of
\* them twice, and it is reported once, in one rotation.
CyclesAreReal ==
    \A i \in DOMAIN cycles :
        LET c == cycles[i]
        IN  /\ c # <<>> /\ \A k \in DOMAIN c : <<c[k], Successor(c, k)>> \in edges
            /\ \A k, l \in DOMAIN c : k # l => c[k] # c[l]
            /\ \A j \in DOMAIN cycles : ToSet(cycles[j]) = ToSet(c) /\ i # j =>
                   \A k \in 0..Len(c) - 1 : cycles[j] # Rotate(c, k + 1)

\* Files that reach themselves are not overlooked: each strongly connected part
\* of the graph has a cycle in the report, although not all of its cycles are.
EveryKnotIsReported ==
    Searched =>
        LET reached == [f \in Files |-> Reached(edges, Files, f)]
        IN  \A f \in Files : f \in reached[f] =>
              \E i \in DOMAIN cycles : \A g \in ToSet(cycles[i]) : g \in reached[f] /\ f \in reached[g]

\* The guard stops a step for an import that the validation of the finished project
\* would pass in four cases only: a specifier misquoted in a way that the validation
\* does not see, a file outside src, a test, a target that a later step creates.
GuardIsNoStricter ==
    /\ import # NoImport
    /\ GuardViolations(import) # {} /\ ContractViolations(import) = {}
    =>  \/ import.text = "misquoted" \/ import.from \in Outside
        \/ IsTest(import.from) \/ import.target = "later"

\* The verdict on a project's imports can be relied on: the three above.
GraphIsJudgedRightly == CyclesAreReal /\ EveryKnotIsReported /\ GuardIsNoStricter
=============================================================================
