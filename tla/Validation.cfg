SPECIFICATION MessageSpec
CONSTANTS
    Batches <- MCBatches
    Profiles <- BuiltinProfiles
    Questions <- MCMessageQuestions
    Policies <- MCPolicies
    Recorded <- MCRecorded
    Entities = {1, 2}
    MaxReasons = 6
    MaxSegments = 3
    MaxPayload = 2
    MaxGeneration = 3
    MaxSummaries = 2
    None = None
INVARIANTS AcceptsExactlyTheGoverned ReasonsAreComplete RequestPrimaryDominates
    DiffIsPatch DiffSeesWhatIsDigested ExplanationsAgree OracleAgrees MessagesSurvive
CHECK_DEADLOCK FALSE
