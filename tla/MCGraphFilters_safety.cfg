\* Filters and slider over three cases, one load at a time.
SPECIFICATION Spec
CONSTANTS
    Cases = {"A", "B", "C"}
    CaseGraph <- MCCaseGraph
    EntityTypes = {"PERSON", "CYBER"}
    RelationshipTypes = {"CALLED", "OWNS"}
    Terms = {"x"}
    Confidences = {0, 1}
    LastTime = 7
    Day = 4
    PlaySteps = 2
    StepParts = 4
INVARIANTS NothingHiddenSilently FreshCaseIsComplete
PROPERTIES ResetShowsEverything
