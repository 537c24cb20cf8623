SPECIFICATION Spec
CONSTANTS
    Lists = {l1}
    Attempts = {a1, a2}
    Publishers = {p1}
    Boots = {b1}
    Threads = {t1, t2}
    RegistryDeps = {"profile"}
    FabricDeps = {"topology"}
    PinnedDeps = {}
    DeclaredDeps = {}
    Builtins = {"profile"}
    Bodies <- FabricBodies
    MaxAttemptRecords = 2
    MaxLists = 1
    MaxTotalSegments = 2
    MaxHistory = 2
    MaxPublishers = 1
    MaxGeneration = 3
    MaxEpoch = 3
    MaxDepGeneration = 1
    MaxEvidence = 0
    Calls = {"mutate"}
    EpochAdvances = FALSE
    SavesFail = TRUE
    None = None
SYMMETRY Symmetry
PROPERTY FencedNeverCommits
CHECK_DEADLOCK FALSE
