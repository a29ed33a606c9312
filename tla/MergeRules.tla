----------------------------- MODULE MergeRules -----------------------------
(***************************************************************************)
(* The record-level three-way merge of crates/loom-branch/src/merge.rs:    *)
(* what decide() answers for one key, given the record at the merge base,  *)
(* on the source and on the target, and what the caller's policy says when *)
(* the typed rules cannot tell.                                            *)
(***************************************************************************)
EXTENDS Integers

CONSTANTS
  MinInt, MaxInt,   \* the range of a counter (i64 in the code)
  NoBound           \* an open end of a validity interval

ASSUME MergeAssumption ==
  /\ MinInt \in Int /\ MaxInt \in Int
  /\ MinInt <= 0 /\ 0 <= MaxInt
  /\ NoBound \notin Int

\* Records, abstracted to what the rules look at.  A claim has a validity
\* interval, a provenance rank (method, then confidence) and an identity.
Absent               == [kind |-> "absent"]
Counter(n)           == [kind |-> "counter", n |-> n]
SetOf(elems)         == [kind |-> "set", elems |-> elems]
Opaque(v)            == [kind |-> "opaque", v |-> v]
Claim(id, s, e, rk)  == [kind |-> "claim", id |-> id, start |-> s, end |-> e, rank |-> rk]

Saturate(n) == IF n > MaxInt THEN MaxInt ELSE IF n < MinInt THEN MinInt ELSE n

\* i64::saturating_add and saturating_sub.
SatAdd(a, b) == Saturate(a + b)
SatSub(a, b) == Saturate(a - b)

\* Interval::overlaps.
Before(start, end) == start = NoBound \/ end = NoBound \/ start < end
Overlaps(x, y)     == Before(x.start, y.end) /\ Before(y.start, x.end)

\* Mutant: a tie goes to the source.
MergeClaimsTie(s, t) ==
  IF ~Overlaps(s, t)
  THEN IF NoBound \in {s.start, t.start} THEN Absent
       ELSE IF s.start >= t.start THEN s ELSE t
  ELSE IF s.rank >= t.rank THEN s ELSE t

\* merge_claims: claims valid at different times are a history, of which the
\* later stands; otherwise provenance rank decides, and a tie is undecided.
MergeClaims(s, t) ==
  IF ~Overlaps(s, t)
  THEN IF NoBound \in {s.start, t.start} THEN Absent
       ELSE IF s.start >= t.start THEN s ELSE t
  ELSE IF s.rank = t.rank THEN Absent
       ELSE IF s.rank > t.rank THEN s ELSE t

\* Mutant: the base is counted twice.
MergeTypedTotals(base, s, t) ==
  CASE s.kind = "counter" /\ t.kind = "counter" -> Counter(SatAdd(s.n, t.n))
    [] s.kind = "set" /\ t.kind = "set" -> SetOf(s.elems \cup t.elems)
    [] s.kind = "claim" /\ t.kind = "claim" -> MergeClaims(s, t)
    [] OTHER -> Absent

\* merge_typed: Absent when no typed rule applies.
MergeTyped(base, s, t) ==
  CASE s.kind = "counter" /\ t.kind = "counter" ->
         LET b == IF base.kind = "counter" THEN base.n ELSE 0
         IN  Counter(SatAdd(SatAdd(b, SatSub(s.n, b)), SatSub(t.n, b)))
    [] s.kind = "set" /\ t.kind = "set" -> SetOf(s.elems \cup t.elems)
    [] s.kind = "claim" /\ t.kind = "claim" -> MergeClaims(s, t)
    [] OTHER -> Absent

\* enum Decision.
Nothing     == [act |-> "nothing"]
Write(r)    == [act |-> "write", rec |-> r]
Resolved(r) == [act |-> "resolved", rec |-> r]
Conflict    == [act |-> "conflict"]

\* enum Resolution: what a MergePolicy answers.  TakeSource, TakeTarget and
\* Conflict always answer the first three; a custom callback answers anything.
TakeSource == [choice |-> "source"]
TakeTarget == [choice |-> "target"]
Unresolved == [choice |-> "unresolved"]
Replace(r) == [choice |-> "replace", rec |-> r]

\* Only when both sides moved, apart, and no typed rule applies.
AskPolicy(source, resolution) ==
  CASE resolution.choice = "source" ->
         IF source = Absent THEN Conflict ELSE Resolved(source)
    [] resolution.choice = "target"     -> Nothing
    [] resolution.choice = "replace"    -> Resolved(resolution.rec)
    [] resolution.choice = "unresolved" -> Conflict

\* Mutant: an untouched target is not fast-forwarded.
DecideNoFastForward(base, source, target, resolution) ==
  IF source = target \/ source = base THEN Nothing
  ELSE IF source # Absent /\ target # Absent /\ MergeTyped(base, source, target) # Absent
       THEN Write(MergeTyped(base, source, target))
  ELSE AskPolicy(source, resolution)

\* decide.
Decide(base, source, target, resolution) ==
  IF source = target \/ source = base THEN Nothing
  ELSE IF target = base
       THEN IF source = Absent THEN Nothing ELSE Write(source)
  ELSE IF source # Absent /\ target # Absent /\ MergeTyped(base, source, target) # Absent
       THEN Write(MergeTyped(base, source, target))
  ELSE AskPolicy(source, resolution)

\* What the target holds once the decision is carried out.
Outcome(target, decision) ==
  IF decision.act \in {"write", "resolved"} THEN decision.rec ELSE target
=============================================================================
