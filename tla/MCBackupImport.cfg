SPECIFICATION Spec
CONSTANTS
    b1 = b1
    b2 = b2
    b3 = b3
    b4 = b4
    n1 = n1
    n2 = n2
    lock = lock
    Bundles = {b1, b2, b3, b4}
    StoreNames = {n1, n2}
    Entries <- MCEntries
    Openable = {b1, b2, b3}
    None = None
    Own = Own
    Overlaps = FALSE
    MaxImports = 3
    MaxWipes = 1
INVARIANTS
    CompleteOrAbsent
    ImportedStays
