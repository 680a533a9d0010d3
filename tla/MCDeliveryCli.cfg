\* A command line client: one thread, an entry that cannot be resealed,
\* cancelling, a sender that moves and forgets the recipient.
SPECIFICATION Spec
CONSTANTS
    d1 = d1
    d2 = d2
    m1 = m1
    m2 = m2
    t1 = t1
    t2 = t2
    Messages = {m1}
    Resealable = {}
    Devices = {d1, d2}
    MaxVersion = 2
    ActiveDevice <- MCThere
    Threads = {t1}
    None = None
    Cancels = TRUE
    MaxForgets = 1
    SenderMoves = TRUE
    Crashes = TRUE
PROPERTY ImplementsDelivery
