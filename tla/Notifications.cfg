SPECIFICATION WorkerSpec
CONSTANTS
    Kinds <- MCKinds
    TypeOf <- MCTypeOf
    Debounce <- MCDebounce
    Enabled <- MCEnabled
    Detection = "detected"
    Capacity = 2
    MaxFailures = 1
PROPERTY AlertsAreSpaced
PROPERTY DetectionIsReported
PROPERTY WorkerKeepsUp
