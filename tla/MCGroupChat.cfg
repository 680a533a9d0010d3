\* Three texts or new members; or one, and a new device or a fault; or a departure.
SPECIFICATION Spec
CONSTANTS
    ann = ann
    bob = bob
    cat = cat
    Persons = {ann, bob, cat}
    Founders = {ann}
    Friends <- MCFriends
    None = None
    MaxSkip = 1
    Cost <- MCCost
    MaxCost = 3
INVARIANTS PositionsOnce KeyBeforeText FormerCannotRead MembersAgree
CHECK_DEADLOCK FALSE
SYMMETRY Symmetric
