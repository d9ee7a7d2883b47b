---------------------------- MODULE MCSessionPool ----------------------------
(* Symmetry for checking SessionPool with TLC.                               *)
EXTENDS SessionPool, TLC

Interchangeable == Permutations(Slots) \cup Permutations(Workers) \cup Permutations(Handles)
==============================================================================
