------------------------ MODULE MCPrechacGenerator ------------------------
(***************************************************************************)
(* Instances of PrechacGenerator for TLC.                                  *)
(***************************************************************************)
EXTENDS PrechacGenerator, TLC

CONSTANTS s1, s2, s3, A, B, p, q

TwoScreens   == {s1, s2}
ThreeScreens == {s1, s2, s3}
ScreenSymmetry == Permutations(Screens)

\* Answers that repeat and that do not, that reach the limit of the run, in more
\* than one order, and a search without answers.
RepeatedAnswers == A :> {<<p, q>>, <<q, q>>} @@ B :> {<<>>}

\* A search that can be replaced after its first pattern, and one without answers.
SameAnswers == A :> {<<p, p>>} @@ B :> {<<>>}

\* One answer for each of the two searches.
ShortAnswers == A :> {<<p>>} @@ B :> {<<q>>}
=============================================================================
