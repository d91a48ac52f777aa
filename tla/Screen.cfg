SPECIFICATION Spec
CONSTANTS
    Browsers = {b1, b2}
    None = none
    MAX_SETUP_ATTEMPTS = 2
    MAX_WRONG = 2
    WINDOW = 2
    HARD_CAP = 3
    MaxTokens = 2
INVARIANTS
    ScreenInv
    BannerTellsWindows
SYMMETRY Symmetry
