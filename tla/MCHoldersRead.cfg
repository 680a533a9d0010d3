\* A text is overtaken by an invitation that its sender repeats.
SPECIFICATION Spec
CONSTANTS
    ann = ann
    bob = bob
    cat = cat
    Persons = {ann, bob, cat}
    Founders = {ann}
    Friends <- MCFriends
    None = None
    MaxSkip = 2
    Cost <- MCCost
    MaxCost = 2
INVARIANT HoldersCanRead
CHECK_DEADLOCK FALSE
SYMMETRY Symmetric
