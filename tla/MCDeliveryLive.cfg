\* One flushing thread, a recipient that moves, no more crashes.
SPECIFICATION FairSpec
CONSTANTS
    d1 = d1
    d2 = d2
    m1 = m1
    m2 = m2
    t1 = t1
    t2 = t2
    Messages = {m1}
    Resealable = {m1}
    Devices = {d1, d2}
    MaxVersion = 2
    ActiveDevice <- MCThere
    Threads = {t1}
    None = None
    Cancels = FALSE
    MaxForgets = 0
    SenderMoves = FALSE
    Crashes = FALSE
PROPERTY PendingDelivered
