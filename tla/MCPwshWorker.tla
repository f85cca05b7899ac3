---------------------------- MODULE MCPwshWorker ----------------------------
(* PwshWorker for TLC: a handful of calls, a queue they can fill and a     *)
(* restart limit they can pass.  The symmetry is for safety runs only.     *)
EXTENDS PwshWorker, TLC

CallSymmetry == Permutations(Call)
=============================================================================
