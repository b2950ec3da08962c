\* Two candidates of one case; a decision can be reversed and taken again.
SPECIFICATION Spec
CONSTANTS
    c1 = c1
    c2 = c2
    Candidates = {c1, c2}
    Decisions = {"APPROVE", "REVERSE"}
    Slots = {1}
    MaxOthers = 1
SYMMETRY MCSymmetry
INVARIANTS ScreenIsOfItsAddress ReasonIsForTheDecision RecordedNoticeIsTrue
