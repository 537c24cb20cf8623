SPECIFICATION Spec
CONSTANTS
    Lists = {l1}
    Attempts = {a1, a2}
    Publishers = {p1, p2}
    Boots = {b1, b2}
    Threads = {t1}
    RegistryDeps = {"profile"}
    FabricDeps = {}
    PinnedDeps = {}
    DeclaredDeps = {}
    Builtins = {"profile"}
    Bodies <- PlainBodies
    MaxAttemptRecords = 2
    MaxLists = 1
    MaxTotalSegments = 2
    MaxHistory = 1
    MaxPublishers = 2
    MaxGeneration = 2
    MaxEpoch = 4
    MaxDepGeneration = 2
    MaxEvidence = 0
    Calls = {"mutate", "register", "persist", "WithdrawBegin", "WithdrawCommit", "Revoke", "Retire"}
    EpochAdvances = FALSE
    SavesFail = TRUE
    None = None
SYMMETRY Symmetry
INVARIANTS TypeOK AckedIsDurable RecoveryIsConservative BoundRegistryIsDurable WritersFencedOnRecovery
PROPERTIES EpochNeverReused LineagesStayClosed
CHECK_DEADLOCK FALSE
