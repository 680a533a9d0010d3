SPECIFICATION Spec
CONSTANTS
    Accounts = {a1}
    Requests = {p1, p2}
    Wallets = {w1, w2}
    w1 = w1
    w2 = w2
    r1 = r1
    r2 = r2
    r3 = r3
    Records <- MCRecords
    WalletOf <- MCWalletOf
    Freshness <- MCFreshness
    Backups = {b1, b2}
    SealedBlobs = {}
    None = None
    Operations = {"put_backup", "get_backup"}
    RecoveryFirst = TRUE
    IoFaults = FALSE
INVARIANTS
    BackupPresent
SYMMETRY MCSymmetry
