---------------------------- MODULE GraphFilters ----------------------------
(***************************************************************************)
(* The filters and the time slider of the relationship graph in the web    *)
(* client (apps/web/src): the filter half of stores/graphStore.ts, the     *)
(* predicates of lib/graphFilters.ts that GraphEngine asks for every node  *)
(* and edge it draws, the mapping of the server's graph in                 *)
(* services/api/graphApi.ts, and the controls that drive them              *)
(* (components/graph/filters/*, GraphToolbar.tsx, TemporalSlider.tsx).     *)
(*                                                                         *)
(* One load is in flight at a time here; GraphWorkspace has the loads that *)
(* overlap.  The effects of GraphCanvas.tsx that hand the filters to the   *)
(* engine run with the render that follows a change, before the next       *)
(* event, so the engine draws with the filters of the store.               *)
(***************************************************************************)
EXTENDS Integers, FiniteSets

CONSTANTS
    Cases,              \* the cases the user opens
    CaseGraph,          \* Cases -> the graph the server answers: [nodes, edges]
    EntityTypes,        \* ALL_ENTITY_TYPES, the known entity types
    RelationshipTypes,  \* ALL_RELATIONSHIP_TYPES, the known relationship types
    Terms,              \* what the user may type into the search box
    Confidences,        \* thresholds of the confidence slider (0 is "All")
    LastTime,           \* bound on the recorded times
    Day,                \* units of time in a day (the date inputs pick days)
    PlaySteps,          \* ticks of one playback (80 in the code)
    StepParts           \* steps of the step buttons (20 in the code)

NoDate == -1            \* NaN: an edge without first_seen and last_seen
NoConfidence == -1      \* the server sent no min_confidence
NoTerm == "none"        \* the empty search box
NoCase == "none"

Time == 0 .. LastTime

\* What the server sends: a label is the set of terms it contains, type and
\* rel may lie outside the known vocabulary.
BackendNode == [id : STRING, type : STRING, words : SUBSET Terms]
BackendEdge == [id : STRING, source : STRING, target : STRING, rel : STRING,
                first : Time \cup {NoDate}, last : Time \cup {NoDate},
                confidence : Confidences \cup {NoConfidence}]

ASSUME FilterConstants ==
    /\ LastTime \in Nat
    /\ Day \in Nat \ {0}
    /\ PlaySteps \in Nat \ {0}
    /\ StepParts \in Nat \ {0}
    /\ Confidences \subseteq Nat /\ 0 \in Confidences
    /\ IsFiniteSet(EntityTypes) /\ IsFiniteSet(RelationshipTypes)
    /\ NoTerm \notin Terms /\ NoCase \notin Cases
    /\ CaseGraph \in [Cases -> [nodes : SUBSET BackendNode, edges : SUBSET BackendEdge]]

VARIABLES
    caseId,             \* the case the store says it holds
    isLoading,          \* a load is in flight; the canvas is unmounted meanwhile
    graph,              \* the nodes and edges of the store
    bounds,             \* graphBounds: "none", or does a loaded edge carry a date
    minTimestamp,
    maxTimestamp,
    filters,            \* what the engine filters with, see Filters
    isPlaying,
    isFilterPanelOpen,
    freshCase           \* history: the user touched no filter, slider or play button
                        \* since another case was asked for (before it came does not count)

store == <<caseId, isLoading, graph, bounds, minTimestamp, maxTimestamp>>
vars == <<store, filters, isPlaying, isFilterPanelOpen, freshCase>>

Filters == [entityTypes : SUBSET EntityTypes, relationshipTypes : SUBSET RelationshipTypes,
            minConfidence : Confidences, searchTerm : Terms \cup {NoTerm},
            from : Int, to : Int, current : Int]

EmptyGraph == [nodes |-> {}, edges |-> {}]

-----------------------------------------------------------------------------
(* The mapping of the answer (getCaseGraph) and the recorded time.         *)

\* A missing confidence becomes 0, so that it is never shown as 100 %.
MappedEdge(e) == [e EXCEPT !.confidence = IF @ = NoConfidence THEN 0 ELSE @]
MappedGraph(g) == [nodes |-> g.nodes, edges |-> {MappedEdge(e) : e \in g.edges}]

\* recordedTimeMs(e.firstSeen || e.lastSeen)
RecordedTime(e) == IF e.first # NoDate THEN e.first ELSE e.last

EdgeTimes(g) == {RecordedTime(e) : e \in g.edges} \ {NoDate}

-----------------------------------------------------------------------------
(* What the engine draws: isNodeVisibleForFilters, isEdgeVisibleForFilters.*)

NodeVisible(n, f) ==
    /\ n.type \in EntityTypes => n.type \in f.entityTypes
    /\ f.searchTerm # NoTerm => f.searchTerm \in n.words

EdgeVisible(e, g, f) ==
    LET t == RecordedTime(e) IN
    \* isEdgeVisible asks for both endpoints; loadGraphData adds no edge without them
    /\ \E s \in g.nodes : s.id = e.source /\ NodeVisible(s, f)
    /\ \E d \in g.nodes : d.id = e.target /\ NodeVisible(d, f)
    /\ e.rel \in RelationshipTypes => e.rel \in f.relationshipTypes
    /\ t # NoDate => f.from <= t /\ t <= f.to /\ t <= f.current
    /\ f.minConfidence > 0 /\ e.confidence # NoConfidence => e.confidence >= f.minConfidence

VisibleNodes(g, f) == {n \in g.nodes : NodeVisible(n, f)}
VisibleEdges(g, f) == {e \in g.edges : EdgeVisible(e, g, f)}

\* The edges that can be drawn at all: both endpoints are nodes of the graph.
Connected(g) == {e \in g.edges : {e.source, e.target} \subseteq {n.id : n \in g.nodes}}

\* Faulty variant: a type filter of which only one type is missing is not counted (FE-045).
countActiveFilters_ButOne(f) ==
    (IF Cardinality(f.entityTypes) < Cardinality(EntityTypes) - 1 THEN 1 ELSE 0)
  + (IF Cardinality(f.relationshipTypes) < Cardinality(RelationshipTypes) - 1 THEN 1 ELSE 0)
  + (IF f.minConfidence > 0 THEN 1 ELSE 0)

\* How many filters the toolbar and the panel say are active.
countActiveFilters(f) ==
    (IF Cardinality(f.entityTypes) < Cardinality(EntityTypes) THEN 1 ELSE 0)
  + (IF Cardinality(f.relationshipTypes) < Cardinality(RelationshipTypes) THEN 1 ELSE 0)
  + (IF f.minConfidence > 0 THEN 1 ELSE 0)

-----------------------------------------------------------------------------
Init ==
    /\ caseId = NoCase
    /\ isLoading = FALSE
    /\ graph = EmptyGraph
    /\ bounds = "none"
    /\ minTimestamp = 0 /\ maxTimestamp = LastTime     \* INITIAL_MIN_TIME, INITIAL_MAX_TIME
    /\ filters = [entityTypes |-> EntityTypes, relationshipTypes |-> RelationshipTypes,
                  minConfidence |-> 0, searchTerm |-> NoTerm,
                  from |-> 0, to |-> LastTime, current |-> LastTime]
    /\ isPlaying = FALSE
    /\ isFilterPanelOpen = FALSE
    /\ freshCase = FALSE

\* Faulty variant: the text of the search box survives, and with it "Reset" and the next case.
WithoutFilters_KeepTerm(f) ==
    [f EXCEPT !.entityTypes = EntityTypes, !.relationshipTypes = RelationshipTypes,
              !.minConfidence = 0]

\* The filters another case must not inherit (FE-048); the time is left to the answer.
WithoutFilters(f) ==
    [f EXCEPT !.entityTypes = EntityTypes, !.relationshipTypes = RelationshipTypes,
              !.minConfidence = 0, !.searchTerm = NoTerm]

\* loadGraph(c) up to its await: on mount, when the routed case changes, and on "Try again".
LoadGraph(c) ==
    /\ ~isLoading
    /\ filters' = IF c # caseId THEN WithoutFilters(filters) ELSE filters
    /\ freshCase' = (c # caseId)
    /\ caseId' = c
    /\ isLoading' = TRUE
    /\ graph' = EmptyGraph
    /\ UNCHANGED <<bounds, minTimestamp, maxTimestamp, isPlaying, isFilterPanelOpen>>

\* The answer: the range is that of the dated edges, or 0..0 when there is none (FE-058).
GraphArrives ==
    /\ isLoading
    /\ isLoading' = FALSE
    /\ graph' = MappedGraph(CaseGraph[caseId])
    /\ LET times == EdgeTimes(CaseGraph[caseId]) IN
       /\ bounds' = IF times = {} THEN "undated" ELSE "dated"
       /\ \E lo, hi \in IF times = {} THEN {0} ELSE times :
            /\ \A t \in times : lo <= t /\ t <= hi
            /\ minTimestamp' = lo
            /\ maxTimestamp' = hi
            /\ filters' = [filters EXCEPT !.from = lo, !.to = hi, !.current = hi]
    /\ UNCHANGED <<caseId, isPlaying, isFilterPanelOpen, freshCase>>

GraphFails ==
    /\ isLoading
    /\ isLoading' = FALSE
    /\ UNCHANGED <<caseId, graph, bounds, minTimestamp, maxTimestamp, filters, isPlaying,
                   isFilterPanelOpen, freshCase>>

-----------------------------------------------------------------------------
(* The filter panel and the search box sit on the canvas: no load in flight.*)

ChangeFilters(f) ==
    /\ filters' = f
    /\ freshCase' = FALSE
    /\ UNCHANGED <<store, isPlaying, isFilterPanelOpen>>

ToggleFilterPanel ==
    /\ ~isLoading
    /\ isFilterPanelOpen' = ~isFilterPanelOpen
    /\ UNCHANGED <<store, filters, isPlaying, freshCase>>

PanelShown == ~isLoading /\ isFilterPanelOpen

Toggled(S, x) == IF x \in S THEN S \ {x} ELSE S \cup {x}

ToggleEntityType(type) ==
    /\ PanelShown
    /\ ChangeFilters([filters EXCEPT !.entityTypes = Toggled(@, type)])

ToggleRelationshipType(type) ==
    /\ PanelShown
    /\ ChangeFilters([filters EXCEPT !.relationshipTypes = Toggled(@, type)])

\* The links "All" and "None" over the two lists.
SelectEntityTypes ==
    /\ PanelShown
    /\ \E S \in {{}, EntityTypes} : ChangeFilters([filters EXCEPT !.entityTypes = S])

SelectRelationshipTypes ==
    /\ PanelShown
    /\ \E S \in {{}, RelationshipTypes} :
         ChangeFilters([filters EXCEPT !.relationshipTypes = S])

SetMinConfidence ==
    /\ PanelShown
    /\ \E c \in Confidences : ChangeFilters([filters EXCEPT !.minConfidence = c])

SetSearchTerm ==
    /\ ~isLoading
    /\ \E t \in Terms \cup {NoTerm} : ChangeFilters([filters EXCEPT !.searchTerm = t])

\* The days the user may type into a date input.
Days == 0 .. LastTime \div Day
StartOfDay(d) == d * Day
EndOfDay(d) == d * Day + Day - 1
Later(s, t) == IF s < t THEN t ELSE s
Earlier(s, t) == IF s < t THEN s ELSE t

HandleFromChange ==
    /\ PanelShown
    /\ \E d \in Days :
         ChangeFilters([filters EXCEPT !.from = StartOfDay(d), !.to = Later(StartOfDay(d), @)])

HandleToChange ==
    /\ PanelShown
    /\ \E d \in Days :
         ChangeFilters([filters EXCEPT !.from = Earlier(@, EndOfDay(d)), !.to = EndOfDay(d)])

\* The presets Full, 1st Half and 2nd Half.
HandlePreset ==
    LET midpoint == (minTimestamp + maxTimestamp) \div 2 IN
    /\ PanelShown
    /\ \E r \in {<<minTimestamp, maxTimestamp>>, <<minTimestamp, midpoint>>, <<midpoint, maxTimestamp>>} :
         ChangeFilters([filters EXCEPT !.from = r[1], !.to = r[2]])

\* Faulty variant: "Reset" leaves the slider where the playback had moved it.
ResetFilters_KeepTime ==
    /\ PanelShown
    /\ ChangeFilters([WithoutFilters(filters) EXCEPT !.from = minTimestamp, !.to = maxTimestamp])

ResetFilters ==
    /\ PanelShown
    /\ ChangeFilters([WithoutFilters(filters) EXCEPT
                        !.from = minTimestamp, !.to = maxTimestamp, !.current = maxTimestamp])

-----------------------------------------------------------------------------
(* The time slider stays mounted during a load; it gives way to a sentence *)
(* when the last graph had no dated edge, but its interval keeps running.  *)

SliderShown == bounds # "undated"

SetCurrent(t) ==
    /\ filters' = [filters EXCEPT !.current = t]
    /\ UNCHANGED <<store, isPlaying, isFilterPanelOpen>>

\* The scrubber, and "Reset to start", which sets minTimestamp.
Scrub ==
    /\ SliderShown
    /\ \E t \in minTimestamp .. maxTimestamp : SetCurrent(t)
    /\ freshCase' = (freshCase /\ isLoading)

StepTemporal ==
    LET size == (maxTimestamp - minTimestamp) \div StepParts IN
    /\ SliderShown
    /\ \E delta \in {-1, 1} :
         SetCurrent(Earlier(maxTimestamp, Later(minTimestamp, filters.current + delta * size)))
    /\ freshCase' = (freshCase /\ isLoading)

TogglePlay ==
    /\ SliderShown
    /\ isPlaying' = ~isPlaying
    /\ freshCase' = (freshCase /\ isLoading)
    /\ UNCHANGED <<store, filters, isFilterPanelOpen>>

\* The interval of 150 ms; it reads the range and the time from the store when it fires.
Tick ==
    LET next == filters.current + (maxTimestamp - minTimestamp) \div PlaySteps IN
    /\ isPlaying
    /\ SetCurrent(IF next >= maxTimestamp THEN minTimestamp ELSE next)
    /\ UNCHANGED freshCase

Next ==
    \/ \E c \in Cases : LoadGraph(c)
    \/ GraphArrives
    \/ GraphFails
    \/ ToggleFilterPanel
    \/ \E type \in EntityTypes : ToggleEntityType(type)
    \/ \E type \in RelationshipTypes : ToggleRelationshipType(type)
    \/ SelectEntityTypes
    \/ SelectRelationshipTypes
    \/ SetMinConfidence
    \/ SetSearchTerm
    \/ HandleFromChange
    \/ HandleToChange
    \/ HandlePreset
    \/ ResetFilters
    \/ Scrub
    \/ StepTemporal
    \/ TogglePlay
    \/ Tick

Spec == Init /\ [][Next]_vars

-----------------------------------------------------------------------------
(* Type invariant.                                                         *)
TypeOK ==
    /\ caseId \in Cases \cup {NoCase}
    /\ isLoading \in BOOLEAN
    /\ graph \in {EmptyGraph} \cup {MappedGraph(CaseGraph[c]) : c \in Cases}
    /\ bounds \in {"none", "dated", "undated"}
    /\ minTimestamp \in Time /\ maxTimestamp \in Time
    /\ filters \in Filters
    /\ isPlaying \in BOOLEAN
    /\ isFilterPanelOpen \in BOOLEAN
    /\ freshCase \in BOOLEAN

\* The time of the slider stays within the range of the graph and the date
\* range stays in order, whatever ticks, steps, scrubs, date picks and loads
\* interleave: a playback that goes on over a load (nothing stops it) would
\* otherwise leave the range, and an inverted range hides every dated edge.
PlaybackWithinRange ==
    /\ minTimestamp <= filters.current /\ filters.current <= maxTimestamp
    /\ filters.from <= filters.to

\* What a control shows as narrowed: the badge of the filter button, the
\* search box, the date preset "Full" that is not lit, the slider that is
\* not at its end.
ControlsAreNeutral ==
    /\ countActiveFilters(filters) = 0
    /\ filters.searchTerm = NoTerm
    /\ filters.from <= minTimestamp /\ filters.to >= maxTimestamp
    /\ filters.current = maxTimestamp

EverythingDrawn(g, f) == VisibleNodes(g, f) = g.nodes /\ VisibleEdges(g, f) = Connected(g)

\* Nothing is hidden silently (FE-045, graphStore.ts:333): when no control
\* says that it narrows the graph, every entity and every relationship
\* between two of them is drawn.
NothingHiddenSilently == ControlsAreNeutral => EverythingDrawn(graph, filters)

\* The graph as it is drawn once the slider is back at its end.
AtTheEnd(f) == [f EXCEPT !.current = maxTimestamp]

\* Filters set on one case do not hide the graph of the next (FE-048,
\* graphStore.ts:132): until the user touches a filter, the slider or the play
\* button, a case that was opened after another one is drawn completely.  A playback
\* that was on in the other case goes on in this one (nothing stops it) and hides
\* edges later than its time, but those alone and for no longer than it runs.
FreshCaseIsComplete ==
    freshCase /\ ~isLoading /\ graph # EmptyGraph =>
        /\ EverythingDrawn(graph, AtTheEnd(filters))
        /\ ~isPlaying => EverythingDrawn(graph, filters)

\* "Reset all filters" shows everything again, whatever was set before, also
\* when the playback had moved the time.
ResetShowsEverything == [][ResetFilters => EverythingDrawn(graph', filters')]_vars
=============================================================================
