\* Two cases, overlapping loads of both, late details, layouts that outlive the canvas.
SPECIFICATION WorkspaceFairSpec
CONSTANTS
    CaseIds = {"A", "B"}
    Nodes = {"a", "p", "b"}
    Linked = {"p"}
    Edges = {"a-p-0", "a-p-1"}
    Source <- MCSource
    Target <- MCTarget
    Snapshots <- MCSnapshots
    MaxGraphLoads = 2
    MaxDetails = 2
    MaxTimers = 2
INVARIANTS WorkspaceTypeOK EngineHoldsTheStore EdgeDrawerIsTruthful CanvasIsOfTheRoutedCase
PROPERTIES SpinnersStop
