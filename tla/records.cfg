\* Five searches: two that overlap leave two records, for others to meet at.
SPECIFICATION Spec
CONSTANTS
    Searches = {s1, s2, s3, s4, s5}
SYMMETRY SearchSymmetry
CHECK_DEADLOCK FALSE
INVARIANTS
    ChoicePointsHold
    ErasedReclaimed
    CheckForgetsAll
    FailureNeedsRival
