\* Two flushes of an entry that cannot be resealed.
SPECIFICATION Spec
CONSTANTS
    d1 = d1
    d2 = d2
    m1 = m1
    m2 = m2
    t1 = t1
    t2 = t2
    Messages = {m1}
    Resealable = {}
    Devices = {d1, d2}
    MaxVersion = 2
    ActiveDevice <- MCThere
    Threads = {t1, t2}
    None = None
    Cancels = FALSE
    MaxForgets = 0
    SenderMoves = FALSE
    Crashes = TRUE
PROPERTY OldFinalIsFinal
