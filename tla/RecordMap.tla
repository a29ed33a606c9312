----------------------------- MODULE RecordMap -----------------------------
(***************************************************************************)
(* What the record store promises its callers: a map from keys to records  *)
(* that one transaction at a time works on, with all of its edits becoming *)
(* the stored map at once or none of them.  The caller of `Tree` sees no    *)
(* pages, splits or sizes.  `RecordTree` runs it in step with the tree.      *)
(***************************************************************************)
CONSTANTS
  Keys,      \* what a record can be stored under
  Records,   \* the records
  Null       \* no record; no transaction

VARIABLES
  stored,    \* the committed map
  working    \* the open transaction's map, or Null

Init == stored = [k \in Keys |-> Null] /\ working = Null

Begin == working = Null /\ working' = stored /\ UNCHANGED stored

Edit(k, r) ==
  /\ working # Null
  /\ working' = [working EXCEPT ![k] = r]
  /\ UNCHANGED stored

Commit == working # Null /\ stored' = working /\ working' = Null
Abort  == working # Null /\ working' = Null /\ UNCHANGED stored

Next ==
  \/ Begin
  \/ \E k \in Keys, r \in Records \cup {Null} : Edit(k, r)
  \/ Commit
  \/ Abort

Spec == Init /\ [][Next]_<<stored, working>>
=============================================================================
