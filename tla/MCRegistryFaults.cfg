\* Two accounts with the same wallet, and store calls that fail.
SPECIFICATION Spec
CONSTANTS
    Accounts = {a1, a2}
    Requests = {p1, p2}
    Wallets = {w1}
    w1 = w1
    w2 = w2
    r1 = r1
    r2 = r2
    r3 = r3
    Records <- MCRecordsOneWallet
    WalletOf <- MCWalletOfOne
    Freshness <- MCFreshnessOne
    Backups = {b1}
    SealedBlobs = {s1, s2}
    None = None
    Operations = {"put_backup", "put_recovery", "put_record"}
    RecoveryFirst = FALSE
    IoFaults = TRUE
INVARIANTS
    RecoveryPresent
    UserIndexAgrees
PROPERTIES
    PointersAdvance
SYMMETRY MCSymmetry
