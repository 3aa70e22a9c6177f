---------------------------- MODULE MCEnginePool ----------------------------
(***************************************************************************)
(* Instances of EnginePool for TLC.                                        *)
(***************************************************************************)
EXTENDS EnginePool

CONSTANTS first, t1, t2, aborter

PoolThreads == {first, t1, t2, aborter}
=============================================================================
