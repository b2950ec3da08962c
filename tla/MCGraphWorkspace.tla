-------------------------- MODULE MCGraphWorkspace --------------------------
(* Case A, whose graph grows between two answers to two entities with two    *)
(* relationships, and case B, which has as many entities (the engine decides *)
(* by their number what to do) and shares one of them with A.                *)
EXTENDS GraphWorkspace

MCSource == [e \in Edges |-> "a"]
MCTarget == [e \in Edges |-> "p"]

MCSnapshots == [c \in CaseIds |->
    IF c = "A" THEN {[nodes |-> {"a"}, edges |-> {}], [nodes |-> {"a", "p"}, edges |-> Edges]}
    ELSE {[nodes |-> {"b", "p"}, edges |-> {}]}]
=============================================================================
