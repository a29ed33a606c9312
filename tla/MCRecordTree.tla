---------------------------- MODULE MCRecordTree ----------------------------
(* Strings of up to two bytes where 1 is the top byte; two leaf entries of   *)
(* small records fill a leaf, three children an internal node, and whether   *)
(* the last of them still fits depends on the lengths of the keys.           *)
EXTENDS RecordTree, TLC

CONSTANTS a, b, large

MCKeys      == {<<0>>, <<0, 0>>, <<0, 1>>, <<1>>, <<1, 0>>, <<1, 1>>}
MCSeeds     == {<<>>, <<<<0>>, <<0, 0>>, <<0, 1>>, <<1>>, <<1, 0>>>>,
                <<<<1, 1>>, <<1, 0>>, <<1>>, <<0, 0>>>>}
MCRecords   == {a, b, large}
MCEntrySize == a :> 3 @@ b :> 3 @@ large :> 12
=============================================================================
