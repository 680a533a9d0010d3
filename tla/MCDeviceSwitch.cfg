\* A mobile and a desktop; everything may be closed, so runs may end.
SPECIFICATION FairSpec
CONSTANTS
    Mobiles = {m1}
    Desktops = {l1}
    None = None
    MaxLogins = 3
    MaxEdits = 1
    MaxOpens = 1
INVARIANTS Recoverable DesktopFilesReadable
PROPERTIES MobilesLearn
CHECK_DEADLOCK FALSE
