----------------------- MODULE MCExecutionLifecycle -----------------------
(* Small instances of ExecutionLifecycle for TLC.                          *)
EXTENDS ExecutionLifecycle, TLC

\* Workers and requests differ only in their names.
Symmetry == Permutations(Workers) \cup Permutations(Clients)
===========================================================================
