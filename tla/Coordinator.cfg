SPECIFICATION FairCoordinatorSpec
CONSTANTS
    Lists = {l1}
    Attempts = {a1}
    Publishers = {p1}
    Boots = {b1}
    Threads = {c1, c2, mon}
    RegistryDeps = {"profile"}
    FabricDeps = {}
    PinnedDeps = {}
    DeclaredDeps = {}
    Builtins = {"profile"}
    Bodies <- PlainBodies
    MaxAttemptRecords = 1
    MaxLists = 1
    MaxTotalSegments = 2
    MaxHistory = 1
    MaxPublishers = 1
    MaxGeneration = 2
    MaxEpoch = 3
    MaxDepGeneration = 1
    MaxEvidence = 0
    Calls = {"mutate", "revalidate", "Revoke", "Retire", "refresh"}
    EpochAdvances = FALSE
    SavesFail = FALSE
    None = None
    Conns = {c1, c2}
    Monitor = mon
INVARIANTS CoordinatorTypeOK LiveSessionsAreLeased
PROPERTY FencedWritersDegrade
CHECK_DEADLOCK FALSE
