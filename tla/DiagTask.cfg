SPECIFICATION Spec
CONSTANTS
    Names <- MCTwoNames
    Reasons <- MCReasons
    Marks <- MCUploadMarks
    Automatic = "automatic"
    Paths = {data, card}
    MaxSeverity = 1
    AutoDeleteClean = TRUE
    UploadsConfigured = TRUE
    MaxPruned = 1
SYMMETRY PathSymmetry
INVARIANT UserStopHolds
INVARIANT DisplayIsRight
INVARIANT FinishedAnnounced
INVARIANT RecorderInv
INVARIANT PruneSparesFindings
CHECK_DEADLOCK FALSE
