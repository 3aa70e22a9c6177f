\* Two screens, searches with repeated answers, a cache of two patterns, under the
\* fairness of the looper and of the threads.
SPECIFICATION FairSpec
CONSTANTS
    s1 = s1  s2 = s2  s3 = s3
    A = A  B = B  p = p  q = q
    Screens <- TwoScreens
    Params = {A, B}
    Patterns = {p, q}
    Answers <- RepeatedAnswers
    Limit = 2
    NoGen = NoGen
INVARIANTS
    CacheCorrect
    CacheOvershootBounded
    ExactDelivery
PROPERTIES
    ComesToRest
    HandOverServed
    SearchDelivered
\* The users stop opening screens.
CHECK_DEADLOCK FALSE
