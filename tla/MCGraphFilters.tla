--------------------------- MODULE MCGraphFilters ---------------------------
(* Three small cases for GraphFilters: one with a range of dates, an        *)
(* unknown entity type, an unknown relationship type, an undated edge, an   *)
(* edge without confidence and one whose target is missing; one whose edges *)
(* share a single time; one without dates.                                  *)
EXTENDS GraphFilters

Node(id, type, words) == [id |-> id, type |-> type, words |-> words]

Edge(id, source, target, rel, first, last, confidence) ==
    [id |-> id, source |-> source, target |-> target, rel |-> rel,
     first |-> first, last |-> last, confidence |-> confidence]

Dated == [
    nodes |-> {Node("p", "PERSON", {"x"}), Node("c", "CYBER", {}), Node("v", "VEHICLE", {"x"})},
    edges |-> {Edge("e1", "p", "c", "CALLED", 1, 3, NoConfidence),
               Edge("e2", "c", "v", "SEEN_NEAR", NoDate, NoDate, 1),
               Edge("e3", "p", "v", "OWNS", NoDate, 5, 0),
               Edge("e4", "p", "z", "CALLED", 3, 3, 1)}]

OneTime == [
    nodes |-> {Node("p", "PERSON", {}), Node("q", "PERSON", {"x"})},
    edges |-> {Edge("e5", "p", "q", "CALLED", 6, 6, 0)}]

Undated == [
    nodes |-> {Node("c", "CYBER", {}), Node("v", "VEHICLE", {})},
    edges |-> {Edge("e6", "c", "v", "OWNS", NoDate, NoDate, NoConfidence)}]

MCCaseGraph == [c \in Cases |->
    CASE c = "A" -> Dated [] c = "B" -> OneTime [] c = "C" -> Undated]
=============================================================================
