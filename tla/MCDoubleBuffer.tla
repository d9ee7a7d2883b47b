--------------------------- MODULE MCDoubleBuffer ---------------------------
EXTENDS DoubleBuffer, TLC

CONSTANTS m1, m2, m3

MCMessages == {m1, m2, m3}
(* With room for three bytes m1 and m2 fit together, m3 only beside m2. *)
MCSize == m1 :> 2 @@ m2 :> 1 @@ m3 :> 2
Interchangeable == Permutations(Workers)
=============================================================================
