-------------------------------- MODULE MCFat --------------------------------
(* Instances of Fat for TLC: disks of a few small clusters. *)
EXTENDS Fat

CONSTANTS A, B

Symmetry == Permutations({A, B})

\* The bytes of one cluster; written at an odd offset they need two.
SomePayload == {<<1, 2>>}

=============================================================================
