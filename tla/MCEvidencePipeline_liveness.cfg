SPECIFICATION FairSpec
CONSTANTS
    Evidence = {e1}
    Infected = {}
    Candidate = {c1}
    Session = {s1, s2}
    ScanFailure = {"SCAN_FAILED", "SCANNER_UNAVAILABLE"}
    LeaseSound = TRUE
    StorageFaults = TRUE
    MaxCrashes = 1
PROPERTIES EventuallySettled
