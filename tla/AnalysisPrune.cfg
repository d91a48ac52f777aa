SPECIFICATION Spec
CONSTANTS
    Names <- MCTwoNames
    Old <- MCTwoNames
    Clients <- MCOneClient
    Capacity = 2
    MaxRequests = 3
INVARIANT PruneSparesFindings
CHECK_DEADLOCK FALSE
