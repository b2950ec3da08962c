SPECIFICATION Spec
CONSTANTS
    e1 = e1
    e2 = e2
    p1 = p1
    p2 = p2
    None = None
    Item = {e1, e2}
    Partition = {p1, p2}
    KeyPartition <- TwoKeys
    Worker = {w1}
    MaxLog <- TwoAndOne
    MaxFaults = 0
INVARIANTS CommittedWasHandled
CHECK_DEADLOCK FALSE
