---------------------------- MODULE MCLoomBranch ----------------------------
(* Instances of LoomBranch for TLC. *)
EXTENDS LoomBranch, TLC

CONSTANTS t1, t2

MCProcs    == {t1, t2}
MCSymmetry == Permutations(MCProcs)
=============================================================================
