SPECIFICATION ExportSpec
CONSTANTS
    Keys = {k1, k2}
    Values = {v1, v2}
    None = None
    Lock = lock
    Journal = journal
    KeepsOrder = TRUE
    IoFaults = TRUE
    MaxUnsynced = 2
INVARIANTS
    ExportsOneState
