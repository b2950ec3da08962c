\* Two cases, two items of evidence, one entity; two requests of a store at a time.
SPECIFICATION Spec
CONSTANTS
    A = A
    B = B
    i1 = i1
    i2 = i2
    Cases = {A, B}
    Items = {i1, i2}
    Statuses = {"ALL", "BLOCKED"}
    Entities = {"p"}
    MaxLoads = 2
    MaxTabs = 1
SYMMETRY MCSymmetry
INVARIANTS TypeOK CaseShownIsRouted ListIsOfItsQuery DrawerIsOfItsItem TabsShowTheirAddress
