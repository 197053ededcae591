-------------------------- MODULE MCParametersCache --------------------------
(***************************************************************************)
(* ParametersCache for two processes.                                      *)
(***************************************************************************)
EXTENDS ParametersCache, TLC

CONSTANTS p1, p2
ProcSymmetry == Permutations(Procs)
=============================================================================
