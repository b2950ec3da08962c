--------------------------- MODULE MCRevealDialog ---------------------------
(* Two entities the case has claims about, a reviewer who may reveal them,   *)
(* and an analyst of the case who may not.  Entities are alike, and so are   *)
(* the slots.                                                                *)
EXTENDS RevealDialog, TLC

CONSTANTS p, q, first, second

MCClaimedIn == {p, q} \X {"A"}
MCAuthorized == {"reviewer", "analyst"} \X {"A"}
Alike == Permutations({p, q}) \cup Permutations({first, second})
=============================================================================
