--------------------------- MODULE MCRunRegistry ---------------------------
(* RunRegistry on small instances; the values are in the .cfg files.       *)
EXTENDS RunRegistryInv, TLC

Symmetry == Permutations(Sockets)
=============================================================================
