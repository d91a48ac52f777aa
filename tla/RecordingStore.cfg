SPECIFICATION Spec
CONSTANTS
    Names <- MCTwoNames
    Reasons <- MCNothing
    Marks <- MCMarks
    MaxBytes = 1
    MaxEntries = 2
    ClockRepeats = TRUE
INVARIANT TypeOK
INVARIANT DataVisible
INVARIANT WriterIsCurrent
INVARIANT SizeWithinCapture
PROPERTY CaptureNeverTruncated
PROPERTY ImplementsPromise
