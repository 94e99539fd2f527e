----------------------------- MODULE MCFrameLog -----------------------------
(* The frame log, for TLC. *)
EXTENDS FrameLogInv, TLC
Symmetry == Permutations(Runs)
=============================================================================
