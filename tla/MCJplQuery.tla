----------------------------- MODULE MCJplQuery -----------------------------
(***************************************************************************)
(* Instances of JplQuery for TLC.                                          *)
(***************************************************************************)
EXTENDS JplQuery, TLC

CONSTANTS q1, q2, q3

\* q3 is the query whose open() throws, so only q1 and q2 are alike.
QuerySymmetry == Permutations({q1, q2})
=============================================================================
