--------------------------- MODULE MCMergeHistory ---------------------------
(* Instances of MergeHistory for TLC. *)
EXTENDS MergeHistory, TLC

CONSTANTS main, x, y

MCMin == -100000

\* Powers of 8: a write counted up to seven times does not carry.
MCWeight(c) == 8 ^ (c - 1)

\* Every branch but main is alike.
MCSymmetry == Permutations({x, y})
=============================================================================
