-------------------------- MODULE MCReviewDecisions --------------------------
(* Small instances of ReviewDecisions for TLC. *)
EXTENDS ReviewDecisions, TLC

CONSTANTS e1, e2, c1, c2, p1

\* Two items with a claim each: one entity and attribute, two values.
TwoItems    == (c1 :> e1) @@ (c2 :> e2)
Structured  == (c1 :> "ALLOWED") @@ (c2 :> "ALLOWED")
TwoValues   == {<<c1, c2>>, <<c2, c1>>}
OnBothClaims == p1 :> {c1, c2}

\* Reviewers, and rows of match_candidates, are interchangeable.
RowSymmetry == Permutations(Reviewer) \cup Permutations(Row)
=============================================================================
