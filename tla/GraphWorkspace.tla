--------------------------- MODULE GraphWorkspace ---------------------------
(***************************************************************************)
(* The relationship graph tab of a case in the web client (apps/web/src):  *)
(* the requests and the selection of stores/graphStore.ts, the page        *)
(* (features/cases/case-graph-page.tsx), the canvas that keeps a           *)
(* GraphEngine in step with the store (components/graph/GraphCanvas.tsx,   *)
(* engine/GraphEngine.ts), the list view and the two drawers.              *)
(*                                                                         *)
(* JavaScript runs one event at a time, so an action is an event with      *)
(* everything it does before it awaits, and the effects React runs with    *)
(* the render that follows.  Answers of the server come back in any order, *)
(* also after the tab was left: the store outlives the page.  Filters are  *)
(* the subject of GraphFilters; all elements are clickable here.           *)
(*                                                                         *)
(* Its names differ from those of CaseTabs, the other tabs of a case, so   *)
(* that CasePagesProofs can speak of both.                                 *)
(***************************************************************************)
EXTENDS Integers, FiniteSets, Functions

CONSTANTS
    CaseIds,            \* the cases whose graph tab is opened
    Nodes,              \* entity ids; an entity may occur in several cases
    Edges,              \* edge ids: source, target, type and index in the answer
    Source, Target,     \* Edges -> Nodes
    Snapshots,          \* CaseIds -> the graphs the server may answer, as they change
    Linked,             \* entities that "Show in graph" links lead to
    MaxGraphLoads,      \* bound on loads in flight
    MaxDetails,         \* detail requests in flight beyond which no new one is asked for
    MaxTimers           \* "Organize" timers beyond which no new one is asked for

NoCase == "no case"
NoNode == "no node"
NoEdge == "no edge"
NoRel == [edge |-> NoEdge, claims |-> NoEdge]
EmptyGraph == [nodes |-> {}, edges |-> {}]

Graph == [nodes : SUBSET Nodes, edges : SUBSET Edges]
Engine == [nodes : SUBSET Nodes, edges : SUBSET Edges, prev : Nat]
NoEngine == [nodes |-> {}, edges |-> {}, prev |-> -1]

ASSUME WorkspaceConstants ==
    /\ Source \in [Edges -> Nodes] /\ Target \in [Edges -> Nodes]
    /\ Snapshots \in [CaseIds -> SUBSET Graph]
    /\ NoCase \notin CaseIds /\ NoNode \notin Nodes
    /\ NoEdge \notin Edges /\ "loading" \notin Edges /\ "failed" \notin Edges
    /\ IsFiniteSet(Nodes) /\ Linked \subseteq Nodes
    /\ MaxGraphLoads \in Nat /\ MaxDetails \in Nat /\ MaxTimers \in Nat

VARIABLES
    routed,             \* the case whose graph tab is open, NoCase: another page
    focus,              \* ?entity= of the tab's address
    view,               \* "graph" or "list"
    caseId, isLoading, error, graph,                    \* the store
    selectedNodeId, selectedEdgeId,
    selectedEntityDetail,                               \* whose details it holds
    selectedRelationshipDetail,                         \* of which edge, and its claims
    isLayoutRunning,
    loads,              \* getCaseGraph requests in flight, per case
    nodeReqs, edgeReqs, \* getEntityDetails and getEdgeDetails requests in flight
    engine,             \* the elements the mounted canvas draws
    timers,             \* "Organize" callbacks that still have to run
    stray,              \* history: the edge selected last was not in the store
    overlapped          \* history: the last load was asked for while another was in flight

page == <<routed, focus, view>>
selection == <<selectedNodeId, selectedEdgeId, selectedEntityDetail, selectedRelationshipDetail, stray>>
content == <<caseId, isLoading, error, graph>>
requests == <<loads, nodeReqs, edgeReqs, overlapped>>
organizing == <<isLayoutRunning, timers>>
workspaceVars == <<page, content, selection, requests, engine, organizing>>

-----------------------------------------------------------------------------
WorkspaceInit ==
    /\ routed = NoCase /\ focus = NoNode /\ view = "graph"
    /\ caseId = NoCase /\ isLoading = FALSE /\ error = FALSE /\ graph = EmptyGraph
    /\ selectedNodeId = NoNode /\ selectedEdgeId = NoEdge
    /\ selectedEntityDetail = NoNode /\ selectedRelationshipDetail = NoRel
    /\ isLayoutRunning = FALSE
    /\ loads = [c \in CaseIds |-> 0]
    /\ nodeReqs = [n \in Nodes |-> 0]
    /\ edgeReqs = [e \in Edges |-> 0]
    /\ engine = NoEngine
    /\ timers = 0
    /\ stray = FALSE /\ overlapped = FALSE

-----------------------------------------------------------------------------
(* GraphEngine: an edge is added only when both of its ends are there.     *)

Connected(N, E) == {e \in E : Source[e] \in N /\ Target[e] \in N}

\* loadGraphData: clear, add everything, lay out.
Loaded(g) == [nodes |-> g.nodes, edges |-> Connected(g.nodes, g.edges), prev |-> Cardinality(g.nodes)]

\* Faulty variant: the edges are added before the nodes they need.
applyDelta_EdgesFirst(eng, g) ==
    [nodes |-> eng.nodes \cup g.nodes, edges |-> eng.edges \cup Connected(eng.nodes, g.edges),
     prev  |-> Cardinality(g.nodes)]

\* applyDelta: add what is missing, remove nothing.
applyDelta(eng, g) ==
    LET all == eng.nodes \cup g.nodes IN
    [nodes |-> all, edges |-> eng.edges \cup Connected(all, g.edges), prev |-> Cardinality(g.nodes)]

\* The data effect of GraphCanvas: for new arrays of the store, if not empty.
Synced(eng, g) ==
    IF g.nodes = {} THEN eng
    ELSE IF eng.nodes = {} \/ Cardinality(g.nodes) < eng.prev THEN Loaded(g)
    ELSE applyDelta(eng, g)

\* A canvas that mounts has an engine of its own.
Mounted(g) == Synced([nodes |-> {}, edges |-> {}, prev |-> 0], g)

\* The page shows the canvas, not the list, nor "Loading".
CanvasShown == routed # NoCase /\ view = "graph" /\ ~isLoading

\* The layout effect of a canvas that mounts while the store says a layout is
\* running: organizeMap() with the callback, at once if there is nothing to lay out.
MountsLayout(g) ==
    IF ~isLayoutRunning THEN UNCHANGED organizing
    ELSE IF g.nodes = {} THEN isLayoutRunning' = FALSE /\ UNCHANGED timers
    ELSE timers' = timers + 1 /\ UNCHANGED isLayoutRunning

-----------------------------------------------------------------------------
(* The selection of the store.                                             *)

MoreDetails == FoldFunction(+, 0, nodeReqs) + FoldFunction(+, 0, edgeReqs) < MaxDetails

\* selectNode(n) up to its await.  The page always has a caseId in the store by then.
SelectedNode(n) ==
    /\ selectedNodeId' = n
    /\ selectedEdgeId' = NoEdge
    /\ selectedRelationshipDetail' = NoRel
    /\ selectedEntityDetail' = NoNode
    /\ stray' = FALSE
    /\ nodeReqs' = [nodeReqs EXCEPT ![n] = @ + 1]

\* What loadGraph clears; the detail of a relationship is not among it.
Unselected ==
    /\ selectedNodeId' = NoNode
    /\ selectedEdgeId' = NoEdge
    /\ selectedEntityDetail' = NoNode
    /\ UNCHANGED <<selectedRelationshipDetail, stray, nodeReqs>>

\* What the user can click: the canvas offers what its engine draws, the list
\* and the search box of the toolbar what the store holds.
Clickable(inEngine, inStore) ==
    /\ routed # NoCase /\ ~isLoading
    /\ inStore \/ (view = "graph" /\ inEngine)

SelectNode(n) ==
    /\ Clickable(n \in engine.nodes, n \in graph.nodes)
    /\ MoreDetails
    /\ SelectedNode(n)
    /\ UNCHANGED <<page, content, loads, edgeReqs, overlapped, engine, organizing>>

\* Faulty variant: the entity stays selected, and its drawer on top.
SelectEdge_KeepNode(e) ==
    /\ Clickable(e \in engine.edges, e \in graph.edges)
    /\ MoreDetails
    /\ selectedEdgeId' = e
    /\ IF e \in graph.edges
       THEN /\ selectedRelationshipDetail' = [edge |-> e, claims |-> "loading"]
            /\ edgeReqs' = [edgeReqs EXCEPT ![e] = @ + 1]
       ELSE UNCHANGED <<selectedRelationshipDetail, edgeReqs>>
    /\ stray' = (e \notin graph.edges)
    /\ UNCHANGED <<page, content, selectedNodeId, selectedEntityDetail,
                   loads, nodeReqs, overlapped, engine, organizing>>

\* selectEdge(e): the detail is built from the store's edge, the claims are
\* fetched; for an edge only the engine still has, neither happens.
SelectEdge(e) ==
    /\ Clickable(e \in engine.edges, e \in graph.edges)
    /\ MoreDetails
    /\ selectedEdgeId' = e
    /\ selectedNodeId' = NoNode
    /\ selectedEntityDetail' = NoNode
    /\ IF e \in graph.edges
       THEN /\ selectedRelationshipDetail' = [edge |-> e, claims |-> "loading"]
            /\ edgeReqs' = [edgeReqs EXCEPT ![e] = @ + 1]
       ELSE UNCHANGED <<selectedRelationshipDetail, edgeReqs>>
    /\ stray' = (e \notin graph.edges)
    /\ UNCHANGED <<page, content, loads, nodeReqs, overlapped, engine, organizing>>

\* A row of "Links" in the entity drawer: an edge of the entity whose details are shown.
SelectConnectedEdge(e) ==
    /\ routed # NoCase
    /\ selectedNodeId # NoNode /\ selectedEntityDetail \in {Source[e], Target[e]}
    /\ e \in graph.edges
    /\ SelectEdge(e)

\* The stage of the canvas, or the cross of the drawer.
ClearSelection ==
    /\ routed # NoCase
    /\ \/ CanvasShown
       \/ selectedNodeId # NoNode /\ selectedEntityDetail # NoNode
       \/ selectedEdgeId # NoEdge /\ selectedRelationshipDetail # NoRel
    /\ selectedNodeId' = NoNode /\ selectedEdgeId' = NoEdge
    /\ selectedEntityDetail' = NoNode /\ selectedRelationshipDetail' = NoRel
    /\ stray' = FALSE
    /\ UNCHANGED <<page, content, requests, engine, organizing>>

\* getEntityDetails answers: whoever is selected by now.
EntityArrives(n) ==
    /\ nodeReqs[n] > 0
    /\ nodeReqs' = [nodeReqs EXCEPT ![n] = @ - 1]
    /\ selectedEntityDetail' \in {n, selectedEntityDetail}      \* the second: it failed
    /\ UNCHANGED <<page, content, selectedNodeId, selectedEdgeId, selectedRelationshipDetail, stray,
                   loads, edgeReqs, overlapped, engine, organizing>>

\* getEdgeDetails answers or fails; dropped when another edge is selected by now.
ClaimsArrive(e) ==
    /\ edgeReqs[e] > 0
    /\ edgeReqs' = [edgeReqs EXCEPT ![e] = @ - 1]
    /\ IF selectedEdgeId # e \/ selectedRelationshipDetail = NoRel
       THEN UNCHANGED selectedRelationshipDetail
       ELSE \E answer \in {e, "failed"} :
              selectedRelationshipDetail' = [selectedRelationshipDetail EXCEPT !.claims = answer]
    /\ UNCHANGED <<page, content, selectedNodeId, selectedEdgeId, selectedEntityDetail, stray,
                   loads, nodeReqs, overlapped, engine, organizing>>

-----------------------------------------------------------------------------
(* Loads.                                                                  *)

\* Faulty variant: the graph before stays in the store until the answer.
Load_KeepGraph(c) ==
    /\ FoldFunction(+, 0, loads) < MaxGraphLoads /\ timers <= MaxTimers /\ MoreDetails
    /\ loads' = [loads EXCEPT ![c] = @ + 1]
    /\ overlapped' = \E d \in CaseIds : loads[d] > 0
    /\ caseId' = c
    /\ isLoading' = TRUE
    /\ error' = FALSE
    /\ engine' = NoEngine
    /\ UNCHANGED graph

\* loadGraph(c) up to its await; the canvas gives way to "Loading".
Load(c) ==
    /\ FoldFunction(+, 0, loads) < MaxGraphLoads /\ timers <= MaxTimers /\ MoreDetails
    /\ loads' = [loads EXCEPT ![c] = @ + 1]
    /\ overlapped' = \E d \in CaseIds : loads[d] > 0
    /\ caseId' = c
    /\ isLoading' = TRUE
    /\ error' = FALSE
    /\ graph' = EmptyGraph
    /\ engine' = NoEngine

\* The tab is opened, with or without ?entity=.  The focus effect of the first
\* render still sees the nodes the store held before.
OpenGraph(c, f) ==
    /\ routed = NoCase
    /\ routed' = c /\ focus' = f /\ view' = "graph"
    /\ Load(c)
    /\ IF ~isLoading /\ f \in graph.nodes
       THEN SelectedNode(f)
       ELSE Unselected
    /\ UNCHANGED <<edgeReqs, organizing>>

\* The error message's "Try again".
Retry ==
    /\ routed # NoCase /\ error
    /\ Load(routed)
    /\ Unselected
    /\ UNCHANGED <<page, edgeReqs, organizing>>

\* Faulty variant: the callbacks of "Organize" die with the engine.
LeaveGraph_StopTimers ==
    /\ routed # NoCase
    /\ routed' = NoCase /\ focus' = NoNode /\ view' = "graph"
    /\ engine' = NoEngine
    /\ timers' = 0
    /\ UNCHANGED <<content, selection, requests, isLayoutRunning>>

\* Faulty variant: no destroy() when the canvas unmounts.
LeaveGraph_KeepEngine ==
    /\ routed # NoCase
    /\ routed' = NoCase /\ focus' = NoNode /\ view' = "graph"
    /\ UNCHANGED <<content, selection, requests, engine, organizing>>

\* Another tab, another case: the page unmounts, the store and the requests stay,
\* and so do the timers (destroy() does not clear them).
LeaveGraph ==
    /\ routed # NoCase
    /\ routed' = NoCase /\ focus' = NoNode /\ view' = "graph"
    /\ engine' = NoEngine
    /\ UNCHANGED <<content, selection, requests, organizing>>

\* What the render does with a graph that came in: a canvas that mounts, the
\* data effect of one that is there, or neither.
Rendered(g) ==
    IF routed = NoCase \/ view = "list" THEN UNCHANGED <<engine, organizing>>
    ELSE IF isLoading THEN engine' = Mounted(g) /\ MountsLayout(g)
    ELSE engine' = Synced(engine, g) /\ UNCHANGED organizing

\* The answer of getCaseGraph, whichever case the store asks for by now.  The
\* focus effect selects the entity of the address with every graph that has it.
GraphArrives(c, g) ==
    /\ loads[c] > 0
    /\ loads' = [loads EXCEPT ![c] = @ - 1]
    /\ caseId' = c
    /\ graph' = g
    /\ isLoading' = FALSE
    /\ Rendered(g)
    /\ IF routed # NoCase /\ focus \in g.nodes
       THEN SelectedNode(focus)
       ELSE UNCHANGED <<selection, nodeReqs>>
    /\ UNCHANGED <<page, error, edgeReqs, overlapped>>

GraphFails(c) ==
    /\ loads[c] > 0
    /\ loads' = [loads EXCEPT ![c] = @ - 1]
    /\ isLoading' = FALSE
    /\ error' = TRUE
    /\ IF CanvasShown THEN UNCHANGED <<engine, organizing>> ELSE Rendered(graph)
    /\ UNCHANGED <<page, caseId, graph, selection, nodeReqs, edgeReqs, overlapped>>

-----------------------------------------------------------------------------
(* The view and the layout.                                                *)

SetView(v) ==
    /\ routed # NoCase /\ v # view
    /\ timers <= MaxTimers
    /\ view' = v
    /\ IF v = "graph" /\ ~isLoading
       THEN engine' = Mounted(graph) /\ MountsLayout(graph)
       ELSE engine' = NoEngine /\ UNCHANGED organizing
    /\ UNCHANGED <<routed, focus, content, selection, requests>>

\* handleToggleLayout: the handler organizes, and so does the layout effect
\* when the store was not running a layout yet.  Without nodes onComplete runs
\* at once and nothing is left of it.
ToggleLayout ==
    /\ CanvasShown /\ engine.nodes # {}
    /\ timers + 2 <= MaxTimers
    /\ isLayoutRunning' = TRUE
    /\ timers' = IF isLayoutRunning THEN timers + 1 ELSE timers + 2
    /\ UNCHANGED <<page, content, selection, requests, engine>>

\* setTimeout(onComplete, 350) of an engine, mounted or not.
TimerFires ==
    /\ timers > 0
    /\ timers' = timers - 1
    /\ isLayoutRunning' = FALSE
    /\ UNCHANGED <<page, content, selection, requests, engine>>

WorkspaceNext ==
    \/ \E c \in CaseIds, f \in Linked \cup {NoNode} : OpenGraph(c, f)
    \/ Retry
    \/ LeaveGraph
    \/ \E c \in CaseIds : \E g \in Snapshots[c] : GraphArrives(c, g)
    \/ \E c \in CaseIds : GraphFails(c)
    \/ \E n \in Nodes : SelectNode(n)
    \/ \E e \in Edges : SelectEdge(e)
    \/ \E e \in Edges : SelectConnectedEdge(e)
    \/ ClearSelection
    \/ \E n \in Nodes : EntityArrives(n)
    \/ \E e \in Edges : ClaimsArrive(e)
    \/ \E v \in {"graph", "list"} : SetView(v)
    \/ ToggleLayout
    \/ TimerFires

WorkspaceSpec == WorkspaceInit /\ [][WorkspaceNext]_workspaceVars

\* The browser runs every timer, and every request ends with an answer or an
\* error.  Nothing is assumed of the user.
WorkspaceFairSpec ==
    /\ WorkspaceSpec
    /\ WF_workspaceVars(TimerFires)
    /\ \A c \in CaseIds : WF_workspaceVars(GraphFails(c) \/ \E g \in Snapshots[c] : GraphArrives(c, g))

-----------------------------------------------------------------------------
(* Type invariant.                                                         *)
WorkspaceTypeOK ==
    /\ routed \in CaseIds \cup {NoCase}
    /\ focus \in Linked \cup {NoNode}
    /\ view \in {"graph", "list"}
    /\ caseId \in CaseIds \cup {NoCase}
    /\ isLoading \in BOOLEAN /\ error \in BOOLEAN
    /\ graph \in Graph
    /\ selectedNodeId \in Nodes \cup {NoNode}
    /\ selectedEdgeId \in Edges \cup {NoEdge}
    /\ selectedEntityDetail \in Nodes \cup {NoNode}
    /\ selectedRelationshipDetail \in
         {NoRel} \cup [edge : Edges, claims : Edges \cup {"loading", "failed"}]
    /\ isLayoutRunning \in BOOLEAN
    /\ loads \in [CaseIds -> Nat]
    /\ nodeReqs \in [Nodes -> Nat]
    /\ edgeReqs \in [Edges -> Nat]
    /\ engine \in Engine \cup {NoEngine}
    /\ engine # NoEngine <=> CanvasShown
    /\ timers \in Nat
    /\ stray \in BOOLEAN /\ overlapped \in BOOLEAN

\* The canvas lacks nothing the page counts in its heading: every entity of
\* the store, and every relationship between two of them (FE-015, FE-016).
EngineHoldsTheStore ==
    engine # NoEngine =>
        /\ graph.nodes \subseteq engine.nodes
        /\ Connected(graph.nodes, graph.edges) \subseteq engine.edges

\* The edge drawer shows the edge that is selected, alone on the panel, and
\* under it only claims fetched for that edge ("selection changed while
\* loading", graphStore.ts:229); while it says "Loading" its request is on the
\* way.  Excepted is an edge the store no longer has when it is clicked.
EdgeDrawerIsTruthful ==
    selectedEdgeId # NoEdge =>
        /\ selectedNodeId = NoNode
        /\ ~stray =>
             /\ selectedRelationshipDetail.edge = selectedEdgeId
             /\ selectedRelationshipDetail.claims \in {"loading", "failed", selectedEdgeId}
             /\ selectedRelationshipDetail.claims = "loading" => edgeReqs[selectedEdgeId] > 0

\* Neither "Loading" nor the running layout stays for ever, even when the tab
\* is left and opened again meanwhile (graphStore.ts:162, GraphEngine.ts:1019).
SpinnersStop ==
    /\ isLoading ~> ~isLoading
    /\ isLayoutRunning ~> ~isLayoutRunning

\* The canvas of a case draws the graph of that case, nothing of the one open
\* before: "clear the previous case's graph before loading" (DEF-061,
\* graphStore.ts:129), "a new engine per case" (FE-016, case-graph-page.tsx:89).
\* Excepted are loads asked for while another one is in flight.
CanvasIsOfTheRoutedCase ==
    engine # NoEngine /\ ~overlapped =>
        /\ graph \in Snapshots[routed] \cup {EmptyGraph}
        /\ engine.nodes = graph.nodes
        /\ engine.edges = Connected(graph.nodes, graph.edges)
=============================================================================
