SPECIFICATION FairSpec
CONSTANTS
    Mobiles = {m1}
    Desktops = {l1}
    None = None
    MaxLogins = 2
    MaxEdits = 1
    MaxOpens = 1
PROPERTIES DesktopsLearn
CHECK_DEADLOCK FALSE
