\* Two messages to one device, whose replies may be taken for each other,
\* while the sender is replaced and activated again, and forgets the
\* recipient and learns it again.
SPECIFICATION Spec
CONSTANTS
    d1 = d1
    d2 = d2
    m1 = m1
    m2 = m2
    t1 = t1
    t2 = t2
    Messages = {m1, m2}
    Resealable = {m1, m2}
    Devices = {d1}
    MaxVersion = 1
    ActiveDevice <- MCStays
    Threads = {t1, t2}
    None = None
    Cancels = FALSE
    MaxForgets = 1
    SenderMoves = TRUE
    Crashes = TRUE
SYMMETRY MCThreadSymmetry
INVARIANTS DeliveredAccepted NeverLost
