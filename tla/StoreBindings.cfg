SPECIFICATION BatchSpec
CONSTANTS
    Lists = {l1, l2}
    Attempts = {a1, a2}
    Publishers = {p1}
    Boots = {b1}
    Threads = {t1}
    RegistryDeps = {"profile"}
    FabricDeps = {"topology"}
    PinnedDeps = {"adjacency"}
    DeclaredDeps = {"path"}
    Builtins = {"profile"}
    Bodies <- MixedBodies
    MaxAttemptRecords = 2
    MaxLists = 2
    MaxTotalSegments = 3
    MaxHistory = 2
    MaxPublishers = 1
    MaxGeneration = 3
    MaxEpoch = 3
    MaxDepGeneration = 2
    MaxEvidence = 1
    Calls = {"mutate", "revalidate"}
    EpochAdvances = TRUE
    SavesFail = TRUE
    MaxBatch = 2
    BatchBodies <- DemandingBodies
    None = None
SYMMETRY Symmetry
INVARIANT BatchIsAtomic
PROPERTY CommittedIsFresh
CHECK_DEADLOCK FALSE
