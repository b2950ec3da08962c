-------------------------- MODULE GraphFiltersProofs --------------------------
(***************************************************************************)
(* Proofs about GraphFilters, for all graphs, vocabularies and ranges of   *)
(* time: what the controls promise, what a fresh case and a reset show,    *)
(* and that the time of the slider stays within its range.                 *)
(***************************************************************************)
EXTENDS GraphFilters, FiniteSetTheorems, TLAPS

\* No filter but the time narrows the graph.
Neutral(f) ==
    /\ f.entityTypes = EntityTypes /\ f.relationshipTypes = RelationshipTypes
    /\ ~ f.minConfidence > 0 /\ f.searchTerm = NoTerm

\* All dated edges of g lie between lo and hi.
Spans(lo, hi, g) ==
    \A e \in g.edges : RecordedTime(e) # NoDate => lo <= RecordedTime(e) /\ RecordedTime(e) <= hi

\* The time filters hide no edge of g.
Shows(f, g) ==
    \A e \in g.edges : RecordedTime(e) # NoDate =>
        f.from <= RecordedTime(e) /\ RecordedTime(e) <= f.to /\ RecordedTime(e) <= f.current

RangeIsOfTheGraph == minTimestamp <= maxTimestamp /\ Spans(minTimestamp, maxTimestamp, graph)

LoadingIsEmpty == isLoading => graph = EmptyGraph /\ caseId \in Cases

FreshIsNeutral ==
    /\ freshCase => Neutral(filters)
    /\ freshCase /\ ~isLoading /\ graph # EmptyGraph =>
          /\ filters.from = minTimestamp /\ filters.to = maxTimestamp
          /\ ~isPlaying => filters.current = maxTimestamp

Consistent ==
    /\ TypeOK
    /\ RangeIsOfTheGraph
    /\ PlaybackWithinRange
    /\ LoadingIsEmpty
    /\ FreshIsNeutral

-----------------------------------------------------------------------------
(* Operators of the model.                                                 *)

LEMMA NeutralDraws ==
  ASSUME NEW g, NEW f, Neutral(f), Shows(f, g)
  PROVE  EverythingDrawn(g, f)
  <1>1. \A n \in g.nodes : NodeVisible(n, f)
    BY DEF NodeVisible, Neutral
  <1>2. VisibleNodes(g, f) = g.nodes
    BY <1>1 DEF VisibleNodes
  <1>3. ASSUME NEW e \in g.edges PROVE EdgeVisible(e, g, f) <=> e \in Connected(g)
    <2>1. e \in Connected(g) <=> /\ \E s \in g.nodes : s.id = e.source
                                /\ \E d \in g.nodes : d.id = e.target
      BY DEF Connected
    <2>2. EdgeVisible(e, g, f) <=> /\ \E s \in g.nodes : s.id = e.source
                                  /\ \E d \in g.nodes : d.id = e.target
      BY <1>1 DEF EdgeVisible, Neutral, Shows
    <2> QED
      BY <2>1, <2>2
  <1>4. VisibleEdges(g, f) = Connected(g)
    BY <1>3 DEF VisibleEdges, Connected
  <1> QED
    BY <1>2, <1>4 DEF EverythingDrawn

\* An edge is drawn at the time the server recorded.
LEMMA MappingKeepsTimes ==
  ASSUME NEW e \in BackendEdge
  PROVE  RecordedTime(MappedEdge(e)) = RecordedTime(e) /\ RecordedTime(e) \in Time \cup {NoDate}
  BY DEF MappedEdge, RecordedTime, BackendEdge

LEMMA GraphsOfCases ==
  ASSUME NEW c \in Cases
  PROVE  /\ EdgeTimes(CaseGraph[c]) \subseteq Time
         /\ \A e \in MappedGraph(CaseGraph[c]).edges :
                RecordedTime(e) # NoDate => RecordedTime(e) \in EdgeTimes(CaseGraph[c])
  <1>1. CaseGraph[c].edges \subseteq BackendEdge
    BY FilterConstants
  <1>2. EdgeTimes(CaseGraph[c]) \subseteq Time
    BY <1>1, MappingKeepsTimes DEF EdgeTimes
  <1>3. ASSUME NEW e \in MappedGraph(CaseGraph[c]).edges, RecordedTime(e) # NoDate
        PROVE  RecordedTime(e) \in EdgeTimes(CaseGraph[c])
    <2>1. PICK b \in CaseGraph[c].edges : e = MappedEdge(b)
      BY DEF MappedGraph
    <2>2. RecordedTime(e) = RecordedTime(b)
      BY <1>1, <2>1, MappingKeepsTimes
    <2> QED
      BY <1>3, <2>2 DEF EdgeTimes
  <1> QED
    BY <1>2, <1>3

LEMMA Quotient == ASSUME NEW a \in Nat, NEW b \in Nat \ {0} PROVE a \div b \in Nat
  OBVIOUS

\* Badges that count no filter: every type is selected.
LEMMA CountsTell ==
  ASSUME NEW f \in Filters, countActiveFilters(f) = 0
  PROVE  /\ f.entityTypes = EntityTypes /\ f.relationshipTypes = RelationshipTypes
         /\ ~ f.minConfidence > 0
  <1>1. f.entityTypes \subseteq EntityTypes /\ f.relationshipTypes \subseteq RelationshipTypes
    BY DEF Filters
  <1>2. /\ Cardinality(f.entityTypes) \in Nat /\ Cardinality(EntityTypes) \in Nat
        /\ Cardinality(f.relationshipTypes) \in Nat /\ Cardinality(RelationshipTypes) \in Nat
    BY <1>1, FilterConstants, FS_Subset, FS_CardinalityType
  <1>3. /\ ~ Cardinality(f.entityTypes) < Cardinality(EntityTypes)
        /\ ~ Cardinality(f.relationshipTypes) < Cardinality(RelationshipTypes)
        /\ ~ f.minConfidence > 0
    <2>1. f.minConfidence \in Nat
      BY FilterConstants DEF Filters
    <2> QED
      BY <1>2, <2>1 DEF countActiveFilters
  <1>4. f.entityTypes # EntityTypes => Cardinality(f.entityTypes) < Cardinality(EntityTypes)
    BY <1>1, <1>2, FilterConstants, FS_Subset
  <1>5. f.relationshipTypes # RelationshipTypes =>
            Cardinality(f.relationshipTypes) < Cardinality(RelationshipTypes)
    BY <1>1, <1>2, FilterConstants, FS_Subset
  <1> QED
    BY <1>3, <1>4, <1>5

-----------------------------------------------------------------------------
LEMMA InitConsistent == Init => Consistent
  <1> SUFFICES ASSUME Init PROVE Consistent
    OBVIOUS
  <1>1. LastTime \in Nat /\ 0 \in Confidences
    BY FilterConstants
  <1>2. filters \in Filters
    <2>1. filters = [entityTypes |-> EntityTypes, relationshipTypes |-> RelationshipTypes,
                     minConfidence |-> 0, searchTerm |-> NoTerm,
                     from |-> 0, to |-> LastTime, current |-> LastTime]
      BY DEF Init
    <2>2. EntityTypes \in SUBSET EntityTypes /\ RelationshipTypes \in SUBSET RelationshipTypes
      OBVIOUS
    <2> QED
      BY <1>1, <2>1, <2>2 DEF Filters
  <1>3. TypeOK
    <2>1. /\ caseId = NoCase /\ graph = EmptyGraph /\ bounds = "none"
          /\ isLoading = FALSE /\ isPlaying = FALSE /\ isFilterPanelOpen = FALSE /\ freshCase = FALSE
      BY DEF Init
    <2>2. minTimestamp \in Time /\ maxTimestamp \in Time
      BY <1>1 DEF Init, Time
    <2> QED
      BY <1>2, <2>1, <2>2 DEF TypeOK
  <1>4. RangeIsOfTheGraph /\ PlaybackWithinRange /\ LoadingIsEmpty /\ FreshIsNeutral
    BY <1>1 DEF Init, RangeIsOfTheGraph, Spans, EmptyGraph, PlaybackWithinRange, LoadingIsEmpty,
                FreshIsNeutral
  <1> QED
    BY <1>3, <1>4 DEF Consistent

LEMMA WithoutFiltersIsNeutral ==
  ASSUME NEW f \in Filters
  PROVE  /\ WithoutFilters(f) \in Filters /\ Neutral(WithoutFilters(f))
         /\ WithoutFilters(f).from = f.from /\ WithoutFilters(f).to = f.to
         /\ WithoutFilters(f).current = f.current
  <1>1. EntityTypes \in SUBSET EntityTypes /\ RelationshipTypes \in SUBSET RelationshipTypes
        /\ 0 \in Confidences /\ NoTerm \in Terms \cup {NoTerm}
    BY FilterConstants
  <1>2. WithoutFilters(f) \in Filters
    BY <1>1 DEF WithoutFilters, Filters
  <1>3. Neutral(WithoutFilters(f))
    BY DEF WithoutFilters, Filters, Neutral
  <1>4. /\ WithoutFilters(f).from = f.from /\ WithoutFilters(f).to = f.to
        /\ WithoutFilters(f).current = f.current
    BY DEF WithoutFilters, Filters
  <1> QED
    BY <1>2, <1>3, <1>4

LEMMA LoadStep ==
  ASSUME Consistent, NEW c \in Cases, LoadGraph(c)
  PROVE  Consistent'
  <1>1. filters \in Filters /\ 0 \in Confidences
    BY FilterConstants DEF Consistent, TypeOK
  <1>2. /\ WithoutFilters(filters) \in Filters /\ Neutral(WithoutFilters(filters))
        /\ WithoutFilters(filters).from = filters.from /\ WithoutFilters(filters).to = filters.to
        /\ WithoutFilters(filters).current = filters.current
    BY <1>1, WithoutFiltersIsNeutral
  <1>3. TypeOK'
    BY <1>1, <1>2 DEF LoadGraph, Consistent, TypeOK
  <1>4. RangeIsOfTheGraph' /\ LoadingIsEmpty' /\ FreshIsNeutral'
    BY <1>2 DEF LoadGraph, Consistent, RangeIsOfTheGraph, Spans, EmptyGraph, LoadingIsEmpty, FreshIsNeutral
  <1>5. PlaybackWithinRange'
    BY <1>2 DEF LoadGraph, Consistent, PlaybackWithinRange
  <1> QED
    BY <1>3, <1>4, <1>5 DEF Consistent

\* Whatever changes the filters alone: Typed, in order, and the case no longer fresh.
LEMMA FilterStep ==
  ASSUME Consistent, NEW f \in Filters, ChangeFilters(f), ~isLoading,
         minTimestamp <= f.current /\ f.current <= maxTimestamp /\ f.from <= f.to
  PROVE  Consistent'
  <1> USE DEF store
  <1>1. TypeOK'
    BY DEF ChangeFilters, Consistent, TypeOK
  <1>2. RangeIsOfTheGraph' /\ LoadingIsEmpty'
    BY DEF ChangeFilters, Consistent, RangeIsOfTheGraph, LoadingIsEmpty
  <1>3. PlaybackWithinRange' /\ FreshIsNeutral'
    BY DEF ChangeFilters, PlaybackWithinRange, FreshIsNeutral
  <1> QED
    BY <1>1, <1>2, <1>3 DEF Consistent

LEMMA PanelSteps ==
  ASSUME Consistent,
         \/ \E type \in EntityTypes : ToggleEntityType(type)
         \/ \E type \in RelationshipTypes : ToggleRelationshipType(type)
         \/ SelectEntityTypes \/ SelectRelationshipTypes \/ SetMinConfidence \/ SetSearchTerm
         \/ HandleFromChange \/ HandleToChange \/ HandlePreset \/ ResetFilters
  PROVE  Consistent'
  <1>1. ~isLoading
    BY DEF ToggleEntityType, ToggleRelationshipType, SelectEntityTypes, SelectRelationshipTypes,
           SetMinConfidence, SetSearchTerm, HandleFromChange, HandleToChange, HandlePreset,
           ResetFilters, PanelShown
  <1>2. /\ filters \in Filters /\ minTimestamp \in Int /\ maxTimestamp \in Int
        /\ minTimestamp <= maxTimestamp
        /\ minTimestamp <= filters.current /\ filters.current <= maxTimestamp
        /\ filters.from <= filters.to
    BY FilterConstants DEF Consistent, TypeOK, Time, RangeIsOfTheGraph, PlaybackWithinRange
  <1>3. \A S \in SUBSET EntityTypes : LET f == [filters EXCEPT !.entityTypes = S] IN
            f \in Filters /\ f.current = filters.current /\ f.from = filters.from /\ f.to = filters.to
    BY <1>2 DEF Filters
  <1>4. \A S \in SUBSET RelationshipTypes : LET f == [filters EXCEPT !.relationshipTypes = S] IN
            f \in Filters /\ f.current = filters.current /\ f.from = filters.from /\ f.to = filters.to
    BY <1>2 DEF Filters
  <1>5. ASSUME NEW a \in Int, NEW b \in Int, a <= b,
               ChangeFilters([filters EXCEPT !.from = a, !.to = b])
        PROVE  Consistent'
    <2>1. LET f == [filters EXCEPT !.from = a, !.to = b] IN
            f \in Filters /\ f.current = filters.current /\ f.from = a /\ f.to = b
      BY <1>2 DEF Filters
    <2> QED
      BY <1>1, <1>2, <1>5, <2>1, FilterStep
  <1>6. ASSUME NEW type \in EntityTypes, ToggleEntityType(type) PROVE Consistent'
    <2>1. Toggled(filters.entityTypes, type) \in SUBSET EntityTypes
      BY <1>2 DEF Toggled, Filters
    <2>2. ChangeFilters([filters EXCEPT !.entityTypes = Toggled(filters.entityTypes, type)])
      BY <1>2, <1>6 DEF ToggleEntityType, Filters
    <2> QED
      BY <1>1, <1>2, <1>3, <2>1, <2>2, FilterStep
  <1>7. ASSUME NEW type \in RelationshipTypes, ToggleRelationshipType(type) PROVE Consistent'
    <2>1. Toggled(filters.relationshipTypes, type) \in SUBSET RelationshipTypes
      BY <1>2 DEF Toggled, Filters
    <2>2. ChangeFilters([filters EXCEPT !.relationshipTypes = Toggled(filters.relationshipTypes, type)])
      BY <1>2, <1>7 DEF ToggleRelationshipType, Filters
    <2> QED
      BY <1>1, <1>2, <1>4, <2>1, <2>2, FilterStep
  <1>8. CASE SelectEntityTypes
    <2>1. PICK S \in SUBSET EntityTypes : ChangeFilters([filters EXCEPT !.entityTypes = S])
      BY <1>8 DEF SelectEntityTypes
    <2> QED
      BY <1>1, <1>2, <1>3, <2>1, FilterStep
  <1>9. CASE SelectRelationshipTypes
    <2>1. PICK S \in SUBSET RelationshipTypes : ChangeFilters([filters EXCEPT !.relationshipTypes = S])
      BY <1>9 DEF SelectRelationshipTypes
    <2> QED
      BY <1>1, <1>2, <1>4, <2>1, FilterStep
  <1>10. CASE SetMinConfidence
    <2>1. PICK c \in Confidences : ChangeFilters([filters EXCEPT !.minConfidence = c])
      BY <1>10 DEF SetMinConfidence
    <2>2. LET f == [filters EXCEPT !.minConfidence = c] IN
            f \in Filters /\ f.current = filters.current /\ f.from = filters.from /\ f.to = filters.to
      BY <1>2 DEF Filters
    <2> QED
      BY <1>1, <1>2, <2>1, <2>2, FilterStep
  <1>11. CASE SetSearchTerm
    <2>1. PICK t \in Terms \cup {NoTerm} : ChangeFilters([filters EXCEPT !.searchTerm = t])
      BY <1>11 DEF SetSearchTerm
    <2>2. LET f == [filters EXCEPT !.searchTerm = t] IN
            f \in Filters /\ f.current = filters.current /\ f.from = filters.from /\ f.to = filters.to
      BY <1>2 DEF Filters
    <2> QED
      BY <1>1, <1>2, <2>1, <2>2, FilterStep
  <1>12. ASSUME NEW d \in Days PROVE StartOfDay(d) \in Int /\ EndOfDay(d) \in Int
    <2>1. d \in Int /\ Day \in Int
      BY FilterConstants DEF Days
    <2>2. d * Day \in Int
      BY <2>1
    <2> QED
      BY <2>1, <2>2 DEF StartOfDay, EndOfDay
  <1>13. filters.from \in Int /\ filters.to \in Int
    BY <1>2 DEF Filters
  <1>14. CASE HandleFromChange
    <2>1. PICK d \in Days :
            ChangeFilters([filters EXCEPT !.from = StartOfDay(d), !.to = Later(StartOfDay(d), @)])
      BY <1>14 DEF HandleFromChange
    <2>2. Later(StartOfDay(d), filters.to) \in Int /\ StartOfDay(d) <= Later(StartOfDay(d), filters.to)
      BY <1>12, <1>13 DEF Later
    <2>3. ChangeFilters([filters EXCEPT !.from = StartOfDay(d), !.to = Later(StartOfDay(d), filters.to)])
      BY <1>2, <2>1 DEF Filters
    <2> QED
      BY <1>5, <1>12, <2>2, <2>3
  <1>15. CASE HandleToChange
    <2>1. PICK d \in Days :
            ChangeFilters([filters EXCEPT !.from = Earlier(@, EndOfDay(d)), !.to = EndOfDay(d)])
      BY <1>15 DEF HandleToChange
    <2>2. Earlier(filters.from, EndOfDay(d)) \in Int /\ Earlier(filters.from, EndOfDay(d)) <= EndOfDay(d)
      BY <1>12, <1>13 DEF Earlier
    <2>3. ChangeFilters([filters EXCEPT !.from = Earlier(filters.from, EndOfDay(d)), !.to = EndOfDay(d)])
      BY <1>2, <2>1 DEF Filters
    <2> QED
      BY <1>5, <1>12, <2>2, <2>3
  <1>16. CASE HandlePreset
    <2> DEFINE midpoint == (minTimestamp + maxTimestamp) \div 2
    <2>1. midpoint \in Int /\ minTimestamp <= midpoint /\ midpoint <= maxTimestamp
      BY <1>2
    <2>2. PICK r \in {<<minTimestamp, maxTimestamp>>, <<minTimestamp, midpoint>>, <<midpoint, maxTimestamp>>} :
            ChangeFilters([filters EXCEPT !.from = r[1], !.to = r[2]])
      BY <1>16 DEF HandlePreset
    <2> HIDE DEF midpoint
    <2>3. r[1] \in Int /\ r[2] \in Int /\ r[1] <= r[2]
      BY <1>2, <2>1
    <2> QED
      BY <1>5, <2>2, <2>3
  <1>17. CASE ResetFilters
    <2> DEFINE f == [WithoutFilters(filters) EXCEPT
                       !.from = minTimestamp, !.to = maxTimestamp, !.current = maxTimestamp]
    <2>1. f \in Filters /\ f.from = minTimestamp /\ f.to = maxTimestamp /\ f.current = maxTimestamp
      BY <1>2, WithoutFiltersIsNeutral DEF Filters
    <2>2. ChangeFilters(f)
      BY <1>17 DEF ResetFilters
    <2> HIDE DEF f
    <2> QED
      BY <1>1, <1>2, <2>1, <2>2, FilterStep
  <1> QED
    BY <1>6, <1>7, <1>8, <1>9, <1>10, <1>11, <1>14, <1>15, <1>16, <1>17

LEMMA ArriveStep ==
  ASSUME Consistent, GraphArrives
  PROVE  Consistent'
  <1> DEFINE times == EdgeTimes(CaseGraph[caseId])
  <1>1. caseId \in Cases /\ filters \in Filters
    BY DEF GraphArrives, Consistent, LoadingIsEmpty, TypeOK
  <1>2. times \subseteq Time /\ 0 \in Time
    BY <1>1, GraphsOfCases, FilterConstants DEF Time
  <1>3. PICK lo \in IF times = {} THEN {0} ELSE times, hi \in IF times = {} THEN {0} ELSE times :
            /\ \A t \in times : lo <= t /\ t <= hi
            /\ minTimestamp' = lo /\ maxTimestamp' = hi
            /\ filters' = [filters EXCEPT !.from = lo, !.to = hi, !.current = hi]
    BY DEF GraphArrives
  <1>4. lo \in Time /\ hi \in Time /\ lo <= hi /\ lo \in Int /\ hi \in Int
    BY <1>2, <1>3 DEF Time
  <1>5. /\ filters' \in Filters /\ filters'.from = lo /\ filters'.to = hi /\ filters'.current = hi
        /\ Neutral(filters) => Neutral(filters')
    BY <1>1, <1>3, <1>4 DEF Filters, Neutral
  <1>6. /\ isLoading' = FALSE /\ graph' = MappedGraph(CaseGraph[caseId])
        /\ bounds' \in {"dated", "undated"}
        /\ UNCHANGED <<caseId, isPlaying, isFilterPanelOpen, freshCase>>
    BY DEF GraphArrives
  <1>7. \A e \in graph'.edges : RecordedTime(e) # NoDate => lo <= RecordedTime(e) /\ RecordedTime(e) <= hi
    BY <1>1, <1>3, <1>6, GraphsOfCases
  <1>8. TypeOK'
    BY <1>1, <1>3, <1>4, <1>5, <1>6 DEF Consistent, TypeOK
  <1>9. RangeIsOfTheGraph' /\ PlaybackWithinRange' /\ LoadingIsEmpty'
    BY <1>3, <1>4, <1>5, <1>6, <1>7 DEF RangeIsOfTheGraph, Spans, PlaybackWithinRange, LoadingIsEmpty
  <1>10. FreshIsNeutral'
    BY <1>3, <1>5, <1>6 DEF Consistent, FreshIsNeutral
  <1> QED
    BY <1>8, <1>9, <1>10 DEF Consistent

LEMMA QuietSteps ==
  ASSUME Consistent, GraphFails \/ ToggleFilterPanel \/ TogglePlay
  PROVE  Consistent'
  <1> USE DEF store
  <1>1. /\ UNCHANGED <<caseId, graph, bounds, minTimestamp, maxTimestamp, filters>>
        /\ freshCase' \in BOOLEAN
        /\ freshCase' => freshCase /\ (isPlaying' = isPlaying \/ isLoading')
        /\ isLoading' \in BOOLEAN /\ isPlaying' \in BOOLEAN /\ isFilterPanelOpen' \in BOOLEAN
        /\ isLoading' => isLoading
        /\ isLoading /\ ~isLoading' => graph = EmptyGraph
    <2>1. /\ isLoading \in BOOLEAN /\ isPlaying \in BOOLEAN /\ isFilterPanelOpen \in BOOLEAN
          /\ freshCase \in BOOLEAN
          /\ isLoading => graph = EmptyGraph
      BY DEF Consistent, TypeOK, LoadingIsEmpty
    <2>2. CASE GraphFails
      BY <2>1, <2>2 DEF GraphFails
    <2>3. CASE ToggleFilterPanel
      BY <2>1, <2>3 DEF ToggleFilterPanel
    <2>4. CASE TogglePlay
      BY <2>1, <2>4 DEF TogglePlay
    <2> QED
      BY <2>2, <2>3, <2>4
  <1>2. TypeOK'
    BY <1>1 DEF Consistent, TypeOK
  <1>3. RangeIsOfTheGraph' /\ PlaybackWithinRange' /\ LoadingIsEmpty'
    BY <1>1 DEF Consistent, RangeIsOfTheGraph, PlaybackWithinRange, LoadingIsEmpty
  <1>4. FreshIsNeutral'
    BY <1>1 DEF Consistent, FreshIsNeutral
  <1> QED
    BY <1>2, <1>3, <1>4 DEF Consistent

LEMMA SliderSteps ==
  ASSUME Consistent, Scrub \/ StepTemporal \/ Tick
  PROVE  Consistent'
  <1> USE DEF store
  <1>1. /\ filters \in Filters /\ minTimestamp \in Int /\ maxTimestamp \in Int
        /\ minTimestamp <= maxTimestamp
        /\ minTimestamp <= filters.current /\ filters.current <= maxTimestamp
        /\ filters.current \in Int
    BY FilterConstants DEF Consistent, TypeOK, Time, RangeIsOfTheGraph, PlaybackWithinRange, Filters
  <1>2. /\ (maxTimestamp - minTimestamp) \div StepParts \in Nat
        /\ (maxTimestamp - minTimestamp) \div PlaySteps \in Nat
    <2>1. maxTimestamp - minTimestamp \in Nat
      BY <1>1
    <2> QED
      BY <2>1, Quotient, FilterConstants
  <1>3. \E t \in Int : /\ minTimestamp <= t /\ t <= maxTimestamp
                       /\ SetCurrent(t)
                       /\ freshCase' \in BOOLEAN /\ (freshCase' => freshCase /\ (isLoading \/ isPlaying))
    <2>0. ASSUME freshCase' = (freshCase /\ isLoading) \/ (freshCase' = freshCase /\ isPlaying)
          PROVE  freshCase' \in BOOLEAN /\ (freshCase' => freshCase /\ (isLoading \/ isPlaying))
      <3>1. freshCase \in BOOLEAN /\ isLoading \in BOOLEAN
        BY DEF Consistent, TypeOK
      <3>2. CASE freshCase' = (freshCase /\ isLoading)
        BY <3>1, <3>2
      <3>3. CASE freshCase' = freshCase /\ isPlaying
        BY <3>1, <3>3
      <3> QED
        BY <2>0, <3>2, <3>3
    <2>1. CASE Scrub
      <3>1. freshCase' = (freshCase /\ isLoading)
        BY <2>1 DEF Scrub
      <3> QED
        BY <1>1, <2>0, <2>1, <3>1 DEF Scrub
    <2>2. CASE StepTemporal
      <3> DEFINE size == (maxTimestamp - minTimestamp) \div StepParts
      <3>1. PICK delta \in {-1, 1} :
              SetCurrent(Earlier(maxTimestamp, Later(minTimestamp, filters.current + delta * size)))
        BY <2>2 DEF StepTemporal
      <3>2. size \in Int
        BY <1>2
      <3> HIDE DEF size
      <3>3. delta * size \in Int
        BY <3>2
      <3>4. LET t == Earlier(maxTimestamp, Later(minTimestamp, filters.current + delta * size)) IN
              t \in Int /\ minTimestamp <= t /\ t <= maxTimestamp
        BY <1>1, <3>3 DEF Earlier, Later
      <3>5. freshCase' = (freshCase /\ isLoading)
        BY <2>2 DEF StepTemporal
      <3> QED
        BY <2>0, <3>1, <3>4, <3>5
    <2>3. CASE Tick
      <3> DEFINE next == filters.current + (maxTimestamp - minTimestamp) \div PlaySteps
      <3>1. next \in Int /\ minTimestamp <= next
        BY <1>1, <1>2
      <3>2. SetCurrent(IF next >= maxTimestamp THEN minTimestamp ELSE next)
        BY <2>3 DEF Tick
      <3>3. freshCase' = freshCase /\ isPlaying
        BY <2>3 DEF Tick
      <3> HIDE DEF next
      <3> QED
        BY <1>1, <2>0, <3>1, <3>2, <3>3
    <2> QED
      BY <2>1, <2>2, <2>3
  <1>4. PICK t \in Int : /\ minTimestamp <= t /\ t <= maxTimestamp
                        /\ filters' = [filters EXCEPT !.current = t]
                        /\ UNCHANGED <<store, isPlaying, isFilterPanelOpen>>
                        /\ freshCase' \in BOOLEAN /\ (freshCase' => freshCase /\ (isLoading \/ isPlaying))
    BY <1>3 DEF SetCurrent
  <1>5. /\ filters' \in Filters /\ filters'.current = t
        /\ filters'.from = filters.from /\ filters'.to = filters.to
        /\ Neutral(filters) => Neutral(filters')
    BY <1>1, <1>4 DEF Filters, Neutral
  <1>6. freshCase' \in BOOLEAN /\ (freshCase' => freshCase /\ (isLoading \/ isPlaying))
    BY <1>4
  <1>7. TypeOK'
    BY <1>4, <1>5, <1>6 DEF Consistent, TypeOK
  <1>8. RangeIsOfTheGraph' /\ LoadingIsEmpty' /\ PlaybackWithinRange'
    BY <1>4, <1>5 DEF Consistent, RangeIsOfTheGraph, LoadingIsEmpty, PlaybackWithinRange
  <1>9. FreshIsNeutral'
    BY <1>4, <1>5, <1>6 DEF Consistent, FreshIsNeutral
  <1> QED
    BY <1>7, <1>8, <1>9 DEF Consistent

LEMMA StepConsistent == Consistent /\ [Next]_vars => Consistent'
  <1> SUFFICES ASSUME Consistent, [Next]_vars PROVE Consistent'
    OBVIOUS
  <1>1. CASE UNCHANGED vars
    BY <1>1 DEF vars, store, Consistent, TypeOK, RangeIsOfTheGraph, PlaybackWithinRange,
                LoadingIsEmpty, FreshIsNeutral
  <1>2. CASE \E c \in Cases : LoadGraph(c)
    BY <1>2, LoadStep
  <1>3. CASE GraphArrives
    BY <1>3, ArriveStep
  <1>4. CASE GraphFails \/ ToggleFilterPanel \/ TogglePlay
    BY <1>4, QuietSteps
  <1>5. CASE \/ \E type \in EntityTypes : ToggleEntityType(type)
             \/ \E type \in RelationshipTypes : ToggleRelationshipType(type)
             \/ SelectEntityTypes \/ SelectRelationshipTypes \/ SetMinConfidence \/ SetSearchTerm
             \/ HandleFromChange \/ HandleToChange \/ HandlePreset \/ ResetFilters
    BY <1>5, PanelSteps
  <1>6. CASE Scrub \/ StepTemporal \/ Tick
    BY <1>6, SliderSteps
  <1> QED
    BY <1>1, <1>2, <1>3, <1>4, <1>5, <1>6 DEF Next

\* Types, ranges and the neutrality of a fresh case hold together in every
\* reachable state of the filters and the slider: the inductive invariant.
THEOREM AlwaysConsistent == Spec => []Consistent
  BY InitConsistent, StepConsistent, PTL DEF Spec

\* Types of the store and the filters, for all constants.
THEOREM FiltersTypeCorrect == Spec => []TypeOK
  <1>1. Consistent => TypeOK
    BY DEF Consistent
  <1> QED
    BY <1>1, AlwaysConsistent, PTL

\* The slider never leaves the range of the graph (TemporalSlider.tsx:28-43).
THEOREM SliderStaysInRange == Spec => []PlaybackWithinRange
  <1>1. Consistent => PlaybackWithinRange
    BY DEF Consistent
  <1> QED
    BY <1>1, AlwaysConsistent, PTL

\* When no control says that it narrows the graph, everything is drawn (FE-045).
THEOREM ControlsTellTheTruth == Spec => []NothingHiddenSilently
  <1>1. Consistent => NothingHiddenSilently
    <2> SUFFICES ASSUME Consistent, ControlsAreNeutral PROVE EverythingDrawn(graph, filters)
      BY DEF NothingHiddenSilently
    <2>1. Neutral(filters)
      BY CountsTell DEF ControlsAreNeutral, Neutral, Consistent, TypeOK
    <2>2. Shows(filters, graph)
      <3> SUFFICES ASSUME NEW e \in graph.edges, RecordedTime(e) # NoDate
                   PROVE  /\ filters.from <= RecordedTime(e) /\ RecordedTime(e) <= filters.to
                          /\ RecordedTime(e) <= filters.current
        BY DEF Shows
      <3>1. minTimestamp <= RecordedTime(e) /\ RecordedTime(e) <= maxTimestamp
        BY DEF Consistent, RangeIsOfTheGraph, Spans
      <3>2. RecordedTime(e) \in Int
        <4>1. PICK c \in Cases : graph = MappedGraph(CaseGraph[c])
          BY DEF Consistent, TypeOK, EmptyGraph
        <4> QED
          BY <4>1, GraphsOfCases DEF Time
      <3>3. /\ minTimestamp \in Int /\ maxTimestamp \in Int
            /\ filters.from \in Int /\ filters.to \in Int
        BY DEF Consistent, TypeOK, Time, Filters
      <3> QED
        BY <3>1, <3>2, <3>3 DEF ControlsAreNeutral
    <2> QED
      BY <2>1, <2>2, NeutralDraws
  <1> QED
    BY <1>1, AlwaysConsistent, PTL

\* Filters set on one case hide nothing of the next (FE-048), and a playback that
\* goes on there hides only what is later than its time, while it runs.
THEOREM FreshCasesAreComplete == Spec => []FreshCaseIsComplete
  <1>1. Consistent => FreshCaseIsComplete
    <2> SUFFICES ASSUME Consistent, freshCase, ~isLoading, graph # EmptyGraph
                 PROVE  /\ EverythingDrawn(graph, AtTheEnd(filters))
                        /\ ~isPlaying => EverythingDrawn(graph, filters)
      BY DEF FreshCaseIsComplete
    <2>1. /\ Neutral(filters) /\ filters.from = minTimestamp /\ filters.to = maxTimestamp
          /\ ~isPlaying => filters.current = maxTimestamp
          /\ Spans(minTimestamp, maxTimestamp, graph)
          /\ filters \in Filters
      BY DEF Consistent, FreshIsNeutral, RangeIsOfTheGraph, TypeOK
    <2>2. /\ Neutral(AtTheEnd(filters))
          /\ AtTheEnd(filters).from = minTimestamp /\ AtTheEnd(filters).to = maxTimestamp
          /\ AtTheEnd(filters).current = maxTimestamp
      BY <2>1 DEF AtTheEnd, Filters, Neutral
    <2>3. Shows(AtTheEnd(filters), graph)
      BY <2>1, <2>2 DEF Shows, Spans
    <2>4. ~isPlaying => Shows(filters, graph)
      BY <2>1 DEF Shows, Spans
    <2> QED
      BY <2>1, <2>2, <2>3, <2>4, NeutralDraws
  <1> QED
    BY <1>1, AlwaysConsistent, PTL

\* "Reset all filters" shows everything again.
THEOREM ResetsShowEverything == Spec => ResetShowsEverything
  <1>1. Consistent /\ [Next]_vars => [ResetFilters => EverythingDrawn(graph', filters')]_vars
    <2> SUFFICES ASSUME Consistent, ResetFilters PROVE EverythingDrawn(graph', filters')
      OBVIOUS
    <2> DEFINE f == [WithoutFilters(filters) EXCEPT
                       !.from = minTimestamp, !.to = maxTimestamp, !.current = maxTimestamp]
    <2>1. filters' = f /\ graph' = graph
      BY DEF ResetFilters, ChangeFilters, store
    <2>2. filters \in Filters
      BY DEF Consistent, TypeOK
    <2>3. f.from = minTimestamp /\ f.to = maxTimestamp /\ f.current = maxTimestamp /\ Neutral(f)
      BY <2>2, WithoutFiltersIsNeutral DEF Filters, Neutral
    <2> HIDE DEF f
    <2>4. Shows(f, graph)
      BY <2>3 DEF Consistent, RangeIsOfTheGraph, Spans, Shows
    <2> QED
      BY <2>1, <2>3, <2>4, NeutralDraws
  <1> QED
    BY <1>1, AlwaysConsistent, PTL DEF Spec, ResetShowsEverything

=============================================================================
