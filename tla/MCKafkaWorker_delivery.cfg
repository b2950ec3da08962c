SPECIFICATION FairSpec
CONSTANTS
    e1 = e1
    e2 = e2
    p1 = p1
    p2 = p2
    None = None
    Item = {e1, e2}
    Partition = {p1, p2}
    KeyPartition <- TwoKeys
    Worker = {w1, w2}
    MaxLog <- TwoAndOne
    MaxFaults = 1
CHECK_DEADLOCK FALSE
INVARIANTS OnlyWaitingIsPassed
PROPERTIES CommitsBackOnlyOverPassed AnsweredIsWorked
