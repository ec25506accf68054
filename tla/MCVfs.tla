-------------------------------- MODULE MCVfs --------------------------------
(* Instance of Vfs for TLC: one file, two processes. *)
EXTENDS Vfs, TLC

CONSTANTS p1, p2

Symmetry == Permutations({p1, p2})

OneFile == {<<"A">>}
SomeBytes == {<<1>>, <<2>>}

Opening(mode, create, trunc, append) ==
    [mode |-> mode, create |-> create, trunc |-> trunc, append |-> append]
SomeFlags == {Opening("RDWR", TRUE, FALSE, FALSE),
              Opening("WRONLY", TRUE, TRUE, FALSE), Opening("WRONLY", FALSE, FALSE, TRUE)}

=============================================================================
