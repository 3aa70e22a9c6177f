\* Two screens: what becomes of a callback set at the end of a search.
SPECIFICATION Spec
CONSTANTS
    s1 = s1  s2 = s2  s3 = s3
    A = A  B = B  p = p  q = q
    Screens <- TwoScreens
    Params = {A, B}
    Patterns = {p, q}
    Answers <- ShortAnswers
    Limit = 2
    NoGen = NoGen
INVARIANT NoHandOverDropped
CHECK_DEADLOCK FALSE
