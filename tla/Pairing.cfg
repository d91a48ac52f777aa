SPECIFICATION Spec
CONSTANTS
    Clients = {c1, c2}
    Passphrases = {p1}
    Account = acct
    None = none
    MAX_CODE_ATTEMPTS = 2
    MAX_DEVICES = 2
    MaxCodes = 1
    MaxMinted = 2
    MaxFaults = 1
    MaxLate = 2
    Starts <- MCStarts
INVARIANTS
    ToldIsKept
    RevokedIsGone
    OwnerKept
    PairingInv
SYMMETRY Symmetry
VIEW View
