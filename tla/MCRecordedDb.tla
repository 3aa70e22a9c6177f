---------------------------- MODULE MCRecordedDb ----------------------------
(***************************************************************************)
(* Instances of RecordedDb for TLC.                                        *)
(***************************************************************************)
EXTENDS RecordedDb, TLC

\* Searches are alike.
SearchSymmetry == Permutations(Searches)
=============================================================================
