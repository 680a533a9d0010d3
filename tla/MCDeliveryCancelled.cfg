\* A cancelled delivery keeps its ciphertext and plaintext.
SPECIFICATION Spec
CONSTANTS
    d1 = d1
    d2 = d2
    m1 = m1
    m2 = m2
    t1 = t1
    t2 = t2
    Messages = {m1}
    Resealable = {m1}
    Devices = {d1, d2}
    MaxVersion = 1
    ActiveDevice <- MCStays
    Threads = {t1}
    None = None
    Cancels = TRUE
    MaxForgets = 0
    SenderMoves = FALSE
    Crashes = TRUE
INVARIANT CancelledErased
