---------------------------- MODULE MCBroadcast ----------------------------
(* Symmetry for checking Broadcast with TLC.                                *)
EXTENDS Broadcast, TLC

Interchangeable == Permutations(Clients) \cup Permutations(Workers)
=============================================================================
