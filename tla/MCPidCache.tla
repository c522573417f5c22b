----------------------------- MODULE MCPidCache -----------------------------
(* PidCache.tla for TLC.                                                     *)
EXTENDS PidCache, TLC

Symmetry == Permutations(Pid)
=============================================================================
