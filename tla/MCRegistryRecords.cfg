SPECIFICATION FairSpec
CONSTANTS
    Accounts = {a1}
    Requests = {p1, p2}
    Wallets = {w1, w2}
    w1 = w1
    w2 = w2
    r1 = r1
    r2 = r2
    r3 = r3
    Records <- MCRecords
    WalletOf <- MCWalletOf
    Freshness <- MCFreshness
    Backups = {}
    SealedBlobs = {s1, s2}
    None = None
    Operations = {"put_recovery", "put_record", "get_record"}
    RecoveryFirst = TRUE
    IoFaults = FALSE
INVARIANTS
    RecordPresent
    NeverMissing
    AckedHolds
PROPERTIES
    ImplementsSlots
    RequestsFinish
