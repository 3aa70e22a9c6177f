\* Three generator threads, and processes that are killed at any time.
SPECIFICATION PrologSpec
CONSTANTS
    Starters = {a, b, c}
    NoThread = NoThread
    StartMayFail = TRUE
INVARIANTS
    ReadyToSearch
    YesMeansProlog
    DeathNeedsOverlap
PROPERTY ResultSettled
