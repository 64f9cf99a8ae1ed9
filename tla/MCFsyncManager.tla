-------------------------- MODULE MCFsyncManager ---------------------------
(* Instances of FsyncManager for TLC. *)
EXTENDS FsyncManager, TLC

CONSTANTS c1, c2, c3

MCThree == {c1, c2, c3}
Symmetry3 == Permutations(MCThree)
=============================================================================
