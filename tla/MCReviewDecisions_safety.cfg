SPECIFICATION Spec
CONSTANTS
    e1 = e1
    e2 = e2
    c1 = c1
    c2 = c2
    p1 = p1
    None = None
    Item = {e1, e2}
    Claim = {c1, c2}
    ItemOf <- TwoItems
    Initial <- Structured
    Contradicts <- TwoValues
    Pair = {p1}
    Basis <- OnBothClaims
    Row = {w1, w2}
    Reviewer = {r1, r2}
    Decision = {"APPROVE", "REJECT", "REVERSE"}
    MaxReviews = 2
SYMMETRY RowSymmetry
CHECK_DEADLOCK FALSE
INVARIANTS StateFollowsReviews OnlyOverlapForks ContradictionsSurface EvidenceReachesCandidates
PROPERTY OnlyTheOvertakenDuplicate
