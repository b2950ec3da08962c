SPECIFICATION Spec
CONSTANTS
    Evidence = {e1, e2}
    Infected = {e2}
    Candidate = {c1}
    Session = {s1, s2}
    ScanFailure = {"SCAN_FAILED"}
    LeaseSound = TRUE
    StorageFaults = TRUE
    MaxCrashes = 1
SYMMETRY SessionSymmetry
INVARIANTS ExtractedOnce GateIsTruthful NoDeadEnd InfectedIsContained
PROPERTIES ImplementsScanGate
