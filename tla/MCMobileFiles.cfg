SPECIFICATION Spec
CONSTANTS
    Mobiles = {m1}
    Desktops = {l1}
    None = None
    MaxLogins = 2
    MaxEdits = 1
    MaxOpens = 1
INVARIANTS MobileFilesReadable
CHECK_DEADLOCK FALSE
