----------------------------- MODULE MCFatCrash -----------------------------
(* Instance of FatCrash for TLC: two clusters, of one sector of two bytes. *)
EXTENDS FatCrash

CONSTANTS A, B

Symmetry == Permutations({A, B})
PayloadCrash == {<<>>, <<1>>, <<2, 2>>}

=============================================================================
