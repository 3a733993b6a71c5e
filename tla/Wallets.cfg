SPECIFICATION SpecAny
CONSTANTS
    Apps = {a1, a2}
    Passphrases = {p1, p2}
    MaxSeeds = 3
    MaxCrashes = 2
    Names = {alice}
    NoName = none
    Calls = {c1, c2, c3}
    MaxRunning = 2
    Amounts = {1, 5, 7}
    CoinValue = 5
SYMMETRY Symmetry
INVARIANT WalletIsStored
PROPERTY TornStaysTorn
INVARIANT OneKeyPerName
PROPERTY ReadableOnceShown
CHECK_DEADLOCK FALSE
