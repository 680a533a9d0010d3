\* Two flushing threads, one message, a recipient that moves there and back.
SPECIFICATION Spec
CONSTANTS
    d1 = d1
    d2 = d2
    m1 = m1
    m2 = m2
    t1 = t1
    t2 = t2
    Messages = {m1}
    Resealable = {m1}
    Devices = {d1, d2}
    MaxVersion = 3
    ActiveDevice <- MCThereAndBack
    Threads = {t1, t2}
    None = None
    Cancels = FALSE
    MaxForgets = 0
    SenderMoves = FALSE
    Crashes = TRUE
SYMMETRY MCThreadSymmetry
INVARIANTS NeverLost NoDuplicates DeliveredAccepted
PROPERTIES FinalIsFinal ImplementsDelivery
