-------------------------- MODULE MCProgramReload --------------------------
(***************************************************************************)
(* Instances of ProgramReload for TLC.                                     *)
(***************************************************************************)
EXTENDS ProgramReload, TLC

\* Calls are alike.
CallSymmetry == Permutations(Calls)
=============================================================================
