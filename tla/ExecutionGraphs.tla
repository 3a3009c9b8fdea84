--------------------------- MODULE ExecutionGraphs ---------------------------
(***************************************************************************)
(* Execution graphs, their revisions and their traces, as GraphStore,      *)
(* GraphRevisionStore and GraphExecutionTraceStore write them.  A caller   *)
(* issues one statement after the other and no transaction holds them      *)
(* together; constraints of the tables are what remains between callers.   *)
(* A graph is named after the caller that creates it.                      *)
(***************************************************************************)
EXTENDS Naturals, Sequences, FiniteSets, SequencesExt, Reachability

CONSTANTS
    Writers, KindsOf,  \* callers, and what each may do
    Ids,               \* ids of runs
    AgentRuns,         \* the rows of agent_runs
    HashOf,            \* execution identity hashes, which runs may share
    MaxEdges, MaxRows, MaxGraphFaults  \* bounds

ASSUME ExecutionGraphsAssumption ==
    /\ IsFiniteSet(Ids) /\ AgentRuns \subseteq Ids /\ DOMAIN HashOf = Ids
    /\ KindsOf \in [Writers -> SUBSET {"graph", "state_run", "revision", "event"}]
    /\ {MaxEdges, MaxRows, MaxGraphFaults} \subseteq Nat

VARIABLES
    graphs,     \* execution_graphs: the identity of each row
    nodeRows, edgeRows,  \* execution_graph_nodes, execution_graph_edges
    revisions,  \* execution_graph_revisions
    events,     \* graph_execution_events
    writer,     \* the callers: what they do, where they stand, what they have read
    graphFaults

storeVars == <<graphs, nodeRows, edgeRows, revisions, events, writer, graphFaults>>

Edges == Ids \X Ids
Graph == [nodes : SUBSET Ids, edges : UNION {[1..n -> Edges] : n \in 0..MaxEdges}]
NoGraph == [nodes |-> {}, edges |-> <<>>]
Idle == [kind |-> "none", at |-> "idle", graph |-> NoGraph, of |-> "none", parent |-> 0, next |-> 0]

StoreInit ==
    /\ graphs = <<>> /\ nodeRows = [w \in Writers |-> {}] /\ edgeRows = [w \in Writers |-> {}]
    /\ revisions = {} /\ events = {} /\ writer = [w \in Writers |-> Idle] /\ graphFaults = 0

(***************************************************************************)
(* graph-identity.ts.                                                      *)
(***************************************************************************)

\* validateGraphAcyclic: adjacency is a set, a degree counts every edge, and a
\* target that is no node has a degree too.
Adjacent(graph, from, to) == from \in graph.nodes /\ <<from, to>> \in ToSet(graph.edges)
Degree(graph, id) == Cardinality({i \in DOMAIN graph.edges : graph.edges[i][2] = id})

Processed(graph) ==
    LET known == graph.nodes \cup {graph.edges[i][2] : i \in DOMAIN graph.edges}
        after[k \in 0..Cardinality(known)] ==
            IF k = 0 THEN {}
            ELSE {id \in known :
                    Degree(graph, id) = Cardinality({m \in after[k - 1] : Adjacent(graph, m, id)})}
    IN  after[Cardinality(known)]

Acyclic(graph) == Cardinality(Processed(graph)) = Cardinality(graph.nodes)

\* Mutant of Known: edges to unknown nodes are left out of the identity.
KnownFrom(graph) == \A i \in DOMAIN graph.edges : graph.edges[i][1] \in graph.nodes

\* canonicalizeEdges throws where an edge has no node.
Known(graph) == \A i \in DOMAIN graph.edges : ToSet(graph.edges[i]) \subseteq graph.nodes

\* buildGraphIdentityMaterial: how often each hash and each pair of hashes occurs.
Identity(graph) ==
    LET hashes == {HashOf[id] : id \in graph.nodes}
        pair(i) == <<HashOf[graph.edges[i][1]], HashOf[graph.edges[i][2]]>>
    IN  [nodes |-> [h \in hashes |-> Cardinality({id \in graph.nodes : HashOf[id] = h})],
         edges |-> [p \in {pair(i) : i \in DOMAIN graph.edges} |->
                      Cardinality({i \in DOMAIN graph.edges : pair(i) = p})]]

(***************************************************************************)
(* Callers.                                                                *)
(***************************************************************************)

To(w, point) == writer' = [writer EXCEPT ![w].at = point]

\* createExecutionGraph up to its first statement: checks, and the identity.
CheckGraph(w) ==
    /\ writer[w].at = "idle" /\ "graph" \in KindsOf[w]
    /\ \E graph \in Graph :
         writer' = [writer EXCEPT ![w] =
           [Idle EXCEPT !.kind = "graph", !.graph = graph,
              !.at = CASE ~Acyclic(graph) -> "cyclic"
                       [] Acyclic(graph) /\ ~Known(graph) -> "unknown"
                       [] OTHER -> "insert"]]
    /\ UNCHANGED <<graphs, nodeRows, edgeRows, revisions, events, graphFaults>>

\* POST state-runs: the graph is made for a run id that has no row yet.
StateRun(w) ==
    /\ writer[w].at = "idle" /\ "state_run" \in KindsOf[w]
    /\ \E id \in Ids \ AgentRuns :
         writer' = [writer EXCEPT ![w] = [Idle EXCEPT !.kind = "state_run", !.at = "insert",
                                            !.graph.nodes = {id}]]
    /\ UNCHANGED <<graphs, nodeRows, edgeRows, revisions, events, graphFaults>>

InsertGraph(w) ==
    /\ writer[w].at = "insert" /\ To(w, "rows")
    /\ graphs' = [g \in DOMAIN graphs \cup {w} |->
                    IF g = w THEN Identity(writer[w].graph) ELSE graphs[g]]
    /\ UNCHANGED <<nodeRows, edgeRows, revisions, events, graphFaults>>

\* Nodes first, in any order of the caller's; run_id references agent_runs.
InsertNode(w) ==
    /\ writer[w].at = "rows"
    /\ \E id \in writer[w].graph.nodes \ nodeRows[w] :
         IF id \in AgentRuns
         THEN nodeRows' = [nodeRows EXCEPT ![w] = @ \cup {id}] /\ UNCHANGED writer
         ELSE To(w, "failed") /\ UNCHANGED nodeRows
    /\ UNCHANGED <<graphs, edgeRows, revisions, events, graphFaults>>

InsertEdge(w) ==
    LET graph == writer[w].graph
    IN
    /\ writer[w].at = "rows" /\ graph.nodes \subseteq nodeRows[w]
    /\ \E e \in ToSet(graph.edges) \ edgeRows[w] : edgeRows' = [edgeRows EXCEPT ![w] = @ \cup {e}]
    /\ UNCHANGED <<graphs, nodeRows, revisions, events, writer, graphFaults>>

GraphDone(w) ==
    /\ writer[w].at = "rows" /\ To(w, "done")
    /\ writer[w].graph.nodes \subseteq nodeRows[w] /\ ToSet(writer[w].graph.edges) \subseteq edgeRows[w]
    /\ UNCHANGED <<graphs, nodeRows, edgeRows, revisions, events, graphFaults>>

\* createRevision, for a graph its caller knows of: the parent is looked at,
\* then the latest revision.
ReadParent(w) ==
    /\ writer[w].at = "idle" /\ "revision" \in KindsOf[w]
    /\ \E g \in {v \in DOMAIN graphs : writer[v].at = "done"},
          parent \in {0} \cup {r.number : r \in revisions} :
         writer' = [writer EXCEPT ![w] =
           [Idle EXCEPT !.kind = "revision", !.of = g, !.parent = parent,
              !.at = IF parent = 0 \/ \E r \in revisions : r.graph = g /\ r.number = parent
                     THEN "latest" ELSE "failed"]]
    /\ UNCHANGED <<graphs, nodeRows, edgeRows, revisions, events, graphFaults>>

Numbers(rows, g) == {r.number : r \in {s \in rows : s.graph = g}}
NextNumber(rows, g) == Max({0} \cup Numbers(rows, g)) + 1

ReadLatest(w) ==
    /\ writer[w].at = "latest"
    /\ writer' = [writer EXCEPT ![w].at = "append", ![w].next = NextNumber(revisions, writer[w].of)]
    /\ UNCHANGED <<graphs, nodeRows, edgeRows, revisions, events, graphFaults>>

\* getNextSequenceNumber; the trace is that of the graph's first revision.
ReadSequence(w) ==
    /\ writer[w].at = "idle" /\ "event" \in KindsOf[w]
    /\ \E g \in {r.graph : r \in revisions} :
         writer' = [writer EXCEPT ![w] = [Idle EXCEPT !.kind = "event", !.at = "append", !.of = g,
                                            !.next = NextNumber(events, g)]]
    /\ UNCHANGED <<graphs, nodeRows, edgeRows, revisions, events, graphFaults>>

\* The insertions of both, with their unique constraints.
AppendRow(w) ==
    LET row == [graph |-> writer[w].of, number |-> writer[w].next, parent |-> writer[w].parent, by |-> w]
        rows == IF writer[w].kind = "revision" THEN revisions ELSE events
    IN
    /\ writer[w].at = "append"
    /\ IF row.number \in Numbers(rows, row.graph)
       THEN To(w, "failed") /\ UNCHANGED <<revisions, events>>
       ELSE /\ To(w, "done")
            /\ IF writer[w].kind = "revision"
               THEN revisions' = revisions \cup {row} /\ UNCHANGED events
               ELSE events' = events \cup {row} /\ UNCHANGED revisions
    /\ UNCHANGED <<graphs, nodeRows, edgeRows, graphFaults>>

\* A statement fails, or the process stops before it.
BreakOff(w) ==
    /\ writer[w].at \in {"insert", "rows", "latest", "append"}
    /\ graphFaults < MaxGraphFaults /\ graphFaults' = graphFaults + 1 /\ To(w, "failed")
    /\ UNCHANGED <<graphs, nodeRows, edgeRows, revisions, events>>

\* The caller comes back with something new; a graph keeps its name.
Again(w) ==
    /\ writer[w].at \in {"done", "failed"} /\ writer[w].kind \in {"revision", "event"}
    /\ Cardinality(revisions) + Cardinality(events) < MaxRows
    /\ writer' = [writer EXCEPT ![w] = Idle]
    /\ UNCHANGED <<graphs, nodeRows, edgeRows, revisions, events, graphFaults>>

StoreNext ==
    \E w \in Writers :
        \/ CheckGraph(w) \/ StateRun(w) \/ InsertGraph(w) \/ InsertNode(w) \/ InsertEdge(w)
        \/ GraphDone(w) \/ ReadParent(w) \/ ReadLatest(w) \/ ReadSequence(w) \/ AppendRow(w)
        \/ BreakOff(w) \/ Again(w)

StoreSpec == StoreInit /\ [][StoreNext]_storeVars

(***************************************************************************)
(* Properties.                                                             *)
(***************************************************************************)

StoreTypeOK ==
    /\ DOMAIN graphs \subseteq Writers
    /\ nodeRows \in [Writers -> SUBSET AgentRuns] /\ edgeRows \in [Writers -> SUBSET Edges]
    /\ \A r \in revisions \cup events : r.graph \in DOMAIN graphs /\ r.number \in Nat /\ r.by \in Writers
    /\ \A w \in Writers : writer[w].graph \in Graph /\ writer[w].of \in {"none"} \cup Writers
    /\ graphFaults \in 0..MaxGraphFaults

\* A path of the edges leads from a run back to it.
Cyclic(graph) == \E id \in Ids : id \in Reached(ToSet(graph.edges), Ids, id)

\* A stored graph has no cycles, its rows are part of what its identity was
\* computed from and, when its caller was told so, all of it; and a graph that
\* is refused for its cycles has one, or an edge twice, or an edge without a node.
GraphsAreWhatTheyAre ==
    \A w \in Writers :
        LET graph == writer[w].graph
        IN  /\ w \in DOMAIN graphs =>
                  /\ ~Cyclic(graph) /\ nodeRows[w] \subseteq graph.nodes
                  /\ edgeRows[w] \subseteq nodeRows[w] \X nodeRows[w]
            /\ writer[w].kind = "graph" /\ writer[w].at = "done" =>
                  \E order \in [1..Cardinality(edgeRows[w]) -> edgeRows[w]] :
                      ToSet(order) = edgeRows[w] /\ Identity([nodes |-> nodeRows[w], edges |-> order]) = graphs[w]
            /\ writer[w].at = "cyclic" =>
                  \/ Cyclic(graph) \/ ~IsInjective(graph.edges) \/ ~Known(graph)

\* However callers race, break off and come back: revisions of a graph and
\* events of a trace are numbered without gaps ("Sequence numbers must be
\* strictly increasing with no gaps", docs/trace-primitive.md:59), and a
\* revision comes after its parent.
NumbersHaveNoGaps ==
    \A g \in Writers, rows \in {revisions, events} :
        LET mine == {r \in rows : r.graph = g}
        IN  /\ Numbers(rows, g) = 1..Cardinality(mine)
            /\ \A r \in mine : r.parent < r.number

\* Both: what the stores of graphs, revisions and traces hold is what it says.
GraphStoresHold == GraphsAreWhatTheyAre /\ NumbersHaveNoGaps

\* The test of the route expects 201 (__tests__/agent-state-routes.test.ts:354).
StateRunsAreCreated ==
    \A w \in Writers : writer[w].kind = "state_run" => writer[w].at # "failed"
=============================================================================
