\* Two threads that compete for one engine.
SPECIFICATION Spec
CONSTANTS
    first = first  t1 = t1  t2 = t2  aborter = aborter
    Threads <- PoolThreads
    Aborters = {aborter}
    FirstThread = first
    NoThread = NoThread
    MaxEngines = 2
    CreateMayFail = FALSE
INVARIANT NoWaiterForgotten
\* All threads may end.
CHECK_DEADLOCK FALSE
