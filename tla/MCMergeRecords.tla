--------------------------- MODULE MCMergeRecords ---------------------------
(* An instance of MergeRecords for TLC: one key of each kind. *)
EXTENDS MergeRecords

MCMin == -2

MCKeys == {"count", "tags", "claim", "note"}

\* The claims meet, touch, are disjoint, and have open ends; ranks tie and differ.
MCKind ==
  [count |-> {Counter(n) : n \in MinInt .. MaxInt},
   tags  |-> {SetOf({"x"}), SetOf({"y"}), SetOf({"x", "y"})},
   claim |-> {Claim("a", 1, 3, 2), Claim("b", 2, 4, 1), Claim("c", 3, NoBound, 1),
              Claim("d", NoBound, 2, 1), Claim("e", NoBound, 1, 2)},
   note  |-> {Opaque("p"), Opaque("q")}]

MCResolutions == {TakeSource, TakeTarget, Unresolved, Replace(Opaque("r"))}
=============================================================================
