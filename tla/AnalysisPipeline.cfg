SPECIFICATION Spec
CONSTANTS
    Names <- MCTwoNames
    Old <- MCOne
    Clients <- MCTwoClients
    Capacity = 2
    MaxRequests = 3
INVARIANT QueueInv
INVARIANT WaitingIsCounted
INVARIANT SettledReportIsTrue
PROPERTY QueuedIsAnalysed
CHECK_DEADLOCK FALSE
