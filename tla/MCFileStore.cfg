SPECIFICATION Spec
CONSTANTS
    Keys = {k1, k2}
    Values = {v1, v2}
    None = None
    KeepsOrder = TRUE
    IoFaults = TRUE
    MaxUnsynced = 2
INVARIANTS
    AllOrNothing
    JournalHolds
PROPERTIES
    ImplementsAtomic
SYMMETRY MCSymmetry
