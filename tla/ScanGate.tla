------------------------------ MODULE ScanGate ------------------------------
(***************************************************************************)
(* What the evidence pipeline promises about each uploaded item, however   *)
(* its requests interleave, crash and retry: it is held until a scan       *)
(* settled it, a scan settles it once and for all, only an item that was   *)
(* cleared and is not infected is ever used, and it is used once.          *)
(***************************************************************************)
EXTENDS Naturals

CONSTANTS Evidence, Infected

VARIABLES
    gate,   \* what the scan gate has decided on each item
    uses    \* how often the item's claims entered the case

vars == <<gate, uses>>

Init ==
    /\ gate = [e \in Evidence |-> "absent"]
    /\ uses = [e \in Evidence |-> 0]

Hold(e) ==
    /\ gate[e] = "absent"
    /\ gate' = [gate EXCEPT ![e] = "held"]
    /\ UNCHANGED uses

Settle(e) ==
    /\ gate[e] = "held"
    /\ \E verdict \in {"cleared", "condemned"} : gate' = [gate EXCEPT ![e] = verdict]
    /\ UNCHANGED uses

Use(e) ==
    /\ gate[e] = "cleared"
    /\ e \notin Infected
    /\ uses[e] = 0
    /\ uses' = [uses EXCEPT ![e] = 1]
    /\ UNCHANGED gate

Next == \E e \in Evidence : Hold(e) \/ Settle(e) \/ Use(e)

Spec == Init /\ [][Next]_vars
=============================================================================
