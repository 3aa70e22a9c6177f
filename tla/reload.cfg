\* Two calls of a predicate with four clauses, and one reload of its file.
SPECIFICATION Spec
CONSTANTS
    Calls = {c1, c2}
    N = 4
    Loads = 2
SYMMETRY CallSymmetry
\* The searches end, and so may the process.
CHECK_DEADLOCK FALSE
INVARIANTS
    FreedNeverRead
    CallsSeeOneProgram
