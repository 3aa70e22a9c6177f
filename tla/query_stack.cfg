\* Three threads for two engines, the thread of an abort(), and three queries, one
\* of which has a goal that open() throws on.
SPECIFICATION JplSpec
CONSTANTS
    q1 = q1  q2 = q2  q3 = q3
    Threads = {first, t1, t2, aborter}
    Aborters = {aborter}
    FirstThread = first
    NoThread = NoThread
    MaxEngines = 2
    CreateMayFail = TRUE
    Queries = {q1, q2, q3}
    BadGoals = {q3}
    NoQuery = NoQuery
SYMMETRY QuerySymmetry
INVARIANTS
    ExclusiveEngine
    FirstEngineKept
    StacksAgree
    FreeEngineIsClean
    EngineGivenBack
    AbortComesTooLate
PROPERTIES
    EngineStaysWithQueries
    PoolIsResourcePool
\* All threads may end, and the process may be killed.
CHECK_DEADLOCK FALSE
