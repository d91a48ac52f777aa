SPECIFICATION Spec
CONSTANTS
    Names <- MCNames
    Reasons <- MCNothing
    Marks <- MCMarks
    Kinds <- MCKinds
    Capture = "qmdl"
    MaxBytes = 1
    MaxFaults = 2
CHECK_DEADLOCK FALSE
INVARIANT UploadInv
PROPERTY DeletedIsOnServer
PROPERTY WorkerProgress
