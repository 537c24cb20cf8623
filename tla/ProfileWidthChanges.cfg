SPECIFICATION Spec
CONSTANTS
    Profiles = {p1}
    Policies = {q1}
    Lists = {l1}
    Attempts = {a1, a2}
    Boots = {b1}
    Widths = {1, 2}
    Refs = {1, 4}
    MaxPayload = 2
    MaxRefs = 2
    MaxRecordRefs = 3
    MaxLists = 2
    MaxAttemptRecords = 2
    MaxHistory = 1
    MaxPublishers = 1
    MaxRevision = 3
    Damage = {}
    NoFile = NoFile
INVARIANT SavedFileLoads
