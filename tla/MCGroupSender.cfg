\* Somebody else uses the sender's own handle.
SPECIFICATION Spec
CONSTANTS
    ann = ann
    bob = bob
    cat = cat
    h1 = h1
    h2 = h2
    Owners = {ann, bob}
    Persons = {ann, bob, cat}
    Handles = {h1, h2}
    Nicknames = {h1}
    Records <- MCRecords
    Cards <- MCCards
    None = None
    Forever = Forever
    AnnChanges = 2
    MaxChanges <- MCChanges
    Segment = 1
    MaxMessages = 2
    MaxReseals = 1
    MaxTime = 1
CHECK_DEADLOCK FALSE
INVARIANT GroupSenderFound
