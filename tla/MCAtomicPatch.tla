--------------------------- MODULE MCAtomicPatch ---------------------------
(* Instances of AtomicPatch for TLC.                                       *)
EXTENDS AtomicPatch, TLC

PatcherSymmetry == Permutations(Patchers)
=============================================================================
