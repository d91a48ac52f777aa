SPECIFICATION Spec
CONSTANTS
    DiagCapacity = 1
    AnalysisCapacity = 5
    MaxMessages = 2
PROPERTY ShutdownCorrect
CHECK_DEADLOCK FALSE
