\* Three generator threads, four searches and two engines: the pool runs out.
SPECIFICATION SearchSpec
CONSTANTS
    Threads = {first, t1, t2, aborter1, aborter2}
    Aborters = {aborter1, aborter2}
    FirstThread = first
    NoThread = NoThread
    MaxEngines = 2
    CreateMayFail = TRUE
    Queries = {q1, q2, q3, q4}
    BadGoals = {}
    NoQuery = NoQuery
INVARIANTS
    WaitsForTheDead
    LeaksOnlyOpenQueries
PROPERTIES
    GeneratorEnds
    HandOverKills
\* The user stops, and so does the process.
CHECK_DEADLOCK FALSE
