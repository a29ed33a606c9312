--------------------------- MODULE MCSearchIndex ---------------------------
(* Four keys, one of them reaching a second layer, directions whose angles  *)
(* all differ, and one vector of another dimension.                         *)
EXTENDS SearchIndex, TLC

CONSTANTS v1, v2, v3, v4, v5, w

MCVectors == {v1, v2, v3, v4, v5, w}
MCAngle   == v1 :> 0 @@ v2 :> 10 @@ v3 :> 35 @@ v4 :> 80 @@ v5 :> 170 @@ w :> 0
MCDim     == [v \in MCVectors |-> IF v = w THEN 2 ELSE 1]
MCLevel   == [id \in Ids |-> IF id = 2 THEN 1 ELSE 0]
MCHints   == 1 :> {v5} @@ 2 :> {v3, Plain} @@ 3 :> {v1, w} @@ 4 :> {v4, v2}
=============================================================================
