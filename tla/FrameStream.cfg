SPECIFICATION FairSpec
CONSTANTS
    Connections = {c1, c2}
    RequestSizes = {0, 1, 3, 4}
    ResponseSizes = {1, 4}
    WorkerMax = 3
    ServerMax = 1
    Chunk = 2
    Window = 4
    MaxRequests = 3
    None = None
INVARIANTS AnswersMatch DispatchedOnce AssemblyIsBounded
PROPERTY ExchangeReturns
