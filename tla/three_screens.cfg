\* Three screens, so that a request meets a hand-over that is under way.
SPECIFICATION Spec
CONSTANTS
    s1 = s1  s2 = s2  s3 = s3
    A = A  B = B  p = p  q = q
    Screens <- ThreeScreens
    Params = {A, B}
    Patterns = {p, q}
    Answers <- SameAnswers
    Limit = 2
    NoGen = NoGen
SYMMETRY ScreenSymmetry
INVARIANTS
    CurrentHasWorker
    CrashNeedsInterference
    LateScreenComplete
    RebroadcastsOwnAnswers
\* The users stop opening screens.
CHECK_DEADLOCK FALSE
