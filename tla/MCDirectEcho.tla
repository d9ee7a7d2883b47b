---------------------------- MODULE MCDirectEcho ----------------------------
(* Symmetry for checking DirectEcho with TLC.                               *)
EXTENDS DirectEcho, TLC

Interchangeable == Permutations(Workers) \cup Permutations(Messages \ Full)
=============================================================================
