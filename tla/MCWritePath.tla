---------------------------- MODULE MCWritePath ----------------------------
(* Instances of WritePath for TLC. *)
EXTENDS WritePath

CONSTANTS main, x, s1, s2, scrape

MCScope == [s \in Sessions |-> IF s = s1 THEN Branches ELSE {x}]
MCDoes ==
  [s \in Sessions |-> IF s = s1 THEN {"read", "write", "merge", "stale", "forget"}
                     ELSE {"write", "rewind"}]
MCWrites == [s \in Sessions |-> IF s = s1 THEN Keys ELSE {2}]
MCTrust == [src \in Sources |-> IF src = scrape THEN 1 ELSE 0]
MCAnswers == {R!Unresolved}
=============================================================================
