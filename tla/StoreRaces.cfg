SPECIFICATION Spec
CONSTANTS
    Lists = {l1}
    Attempts = {a1, a2, a3}
    Publishers = {p1}
    Boots = {b1}
    Threads = {t1, t2}
    RegistryDeps = {"profile"}
    FabricDeps = {"topology"}
    PinnedDeps = {}
    DeclaredDeps = {}
    Builtins = {"profile"}
    Bodies <- FabricBodies
    MaxAttemptRecords = 2
    MaxLists = 1
    MaxTotalSegments = 2
    MaxHistory = 2
    MaxPublishers = 1
    MaxGeneration = 3
    MaxEpoch = 3
    MaxDepGeneration = 2
    MaxEvidence = 1
    Calls = {"mutate", "refresh", "revalidate"}
    EpochAdvances = TRUE
    SavesFail = TRUE
    None = None
SYMMETRY Symmetry
INVARIANTS VisibleIsDurable ReplayTableIsBounded HistoryIsSuffix
PROPERTIES ReplacedIsRecorded RevisionsAreImmutable AttemptAppliedOnce ImplementsGovernedLists
CHECK_DEADLOCK FALSE
