\* Three searches, one after the other, and two engines.
SPECIFICATION SearchSpec
CONSTANTS
    Threads = {first, t1, t2, aborter}
    Aborters = {aborter}
    FirstThread = first
    NoThread = NoThread
    MaxEngines = 2
    CreateMayFail = FALSE
    Queries = {q1, q2, q3}
    BadGoals = {}
    NoQuery = NoQuery
PROPERTY WaitsForAWhile
\* The user stops, and so does the process.
CHECK_DEADLOCK FALSE
