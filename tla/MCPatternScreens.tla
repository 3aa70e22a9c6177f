-------------------------- MODULE MCPatternScreens --------------------------
(***************************************************************************)
(* Instances of PatternScreens for TLC.                                    *)
(***************************************************************************)
EXTENDS PatternScreens

\* The defaults of PatternParameters, and three jugglers.
TwoJugglers == [jugglers |-> 2, objects |-> 4, maxHeight |-> 4]
ThreeJugglers == [jugglers |-> 3, objects |-> 5, maxHeight |-> 3]
OthersUsed == {TwoJugglers, ThreeJugglers}
=============================================================================
