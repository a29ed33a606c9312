---------------------------- MODULE MergeRecords ----------------------------
(***************************************************************************)
(* Two branches that edit the same records and merge each other, one merge *)
(* at a time: plan_merge over every key, applied as one commit or not at   *)
(* all.  After a merge the absorbed head is the merge base of the next one *)
(* (the recorded second parent; module MergeHistory is about finding it).  *)
(***************************************************************************)
EXTENDS MergeRules, FiniteSets

CONSTANTS
  Keys,          \* the caller's keys
  Kind,          \* Kind[k]: the records clients write at k
  Resolutions,   \* what the merge policy may answer, for every key it is asked about
  MaxEdits       \* bound: edits in a behaviour

Replacements == {r.rec : r \in {x \in Resolutions : x.choice = "replace"}}

\* What clients write and callbacks answer: records, counters in their range.
IsRecord(r) ==
  \/ r.kind \in {"set", "opaque"}
  \/ r.kind = "counter" /\ r.n \in MinInt .. MaxInt
  \/ r.kind = "claim" /\ {r.start, r.end} \subseteq Int \cup {NoBound} /\ r.rank \in Int

ASSUME RecordsAssumption ==
  /\ \A k \in Keys : \A r \in Kind[k] : IsRecord(r)
  /\ \A r \in Replacements : IsRecord(r)
  /\ \A x \in Resolutions : x.choice \in {"source", "target", "unresolved", "replace"}
  /\ MaxEdits \in Nat

VARIABLES
  base,     \* the records at the merge base
  left, right,   \* the two branches' records
  edits,    \* edits so far
  merged    \* the direction of the last merge, if nothing changed since

vars == <<base, left, right, edits, merged>>

Tree == [Keys -> UNION {Kind[k] : k \in Keys} \cup Replacements \cup {Absent}]

Init ==
  /\ base = [k \in Keys |-> Absent]
  /\ left = base /\ right = base
  /\ edits = 0
  /\ merged = "none"

\* A client writes one record on a branch.
EditLeft(k, r) ==
  /\ edits < MaxEdits /\ edits' = edits + 1
  /\ left' = [left EXCEPT ![k] = r]
  /\ merged' = "none"
  /\ UNCHANGED <<base, right>>

EditRight(k, r) ==
  /\ edits < MaxEdits /\ edits' = edits + 1
  /\ right' = [right EXCEPT ![k] = r]
  /\ merged' = "none"
  /\ UNCHANGED <<base, left>>

\* plan_merge: one decision per key; one conflict and nothing is written.
Plan(source, target, answer) ==
  [k \in Keys |-> Decide(base[k], source[k], target[k], answer)]
Clean(plan) == \A k \in Keys : plan[k] # Conflict
Apply(target, plan) == [k \in Keys |-> Outcome(target[k], plan[k])]

\* merge(left -> right).
MergeRight(answer) ==
  LET plan == Plan(left, right, answer) IN
  /\ Clean(plan)
  /\ right' = Apply(right, plan)
  /\ base' = left
  /\ merged' = IF merged = "left" THEN "both" ELSE "right"
  /\ UNCHANGED <<left, edits>>

\* merge(right -> left).
MergeLeft(answer) ==
  LET plan == Plan(right, left, answer) IN
  /\ Clean(plan)
  /\ left' = Apply(left, plan)
  /\ base' = right
  /\ merged' = IF merged = "right" THEN "both" ELSE "left"
  /\ UNCHANGED <<right, edits>>

Next ==
  \/ \E k \in Keys : \E r \in Kind[k] : EditLeft(k, r) \/ EditRight(k, r)
  \/ \E answer \in Resolutions : MergeRight(answer) \/ MergeLeft(answer)

Spec == Init /\ [][Next]_vars

-----------------------------------------------------------------------------
(* Properties. *)

\* The values the variables take.
TypeOK ==
  /\ base \in Tree /\ left \in Tree /\ right \in Tree
  /\ edits \in 0 .. MaxEdits
  /\ merged \in {"none", "left", "right", "both"}

\* When two branches have merged each other, with no edit in between, they hold
\* the same records, whatever the policy answered on the way.
Converged == merged = "both" => left = right

\* The typed rules do not care which branch is merged into which: whatever the
\* engine decides on its own, it decides the same way in both directions.
Undirected ==
  \A k \in Keys :
    LET there == Decide(base[k], left[k], right[k], Unresolved)
        back  == Decide(base[k], right[k], left[k], Unresolved)
    IN  /\ there = Conflict <=> back = Conflict
        /\ there # Conflict => Outcome(right[k], there) = Outcome(left[k], back)

\* The counter a merge of left into right would leave at k.
MergedCount(k) == Outcome(right[k], Decide(base[k], left[k], right[k], Unresolved)).n

BaseCount(k) == IF base[k].kind = "counter" THEN base[k].n ELSE 0

AreCounters(k) == left[k].kind = "counter" /\ right[k].kind = "counter"

\* Neither branch's increment is itself out of range.
DeltasInRange(k) ==
  \A side \in {left, right} : side[k].n - BaseCount(k) \in MinInt .. MaxInt

\* A merged counter has both branches' increments, when the two differ: nothing
\* is dropped, and the sum stops at the range's end rather than wrapping.
DeltasAdd ==
  \A k \in Keys :
    AreCounters(k) /\ DeltasInRange(k) /\ left[k] # right[k]
      => MergedCount(k) = Saturate(left[k].n + right[k].n - BaseCount(k))
=============================================================================
