----------------------------- MODULE MergeProofs -----------------------------
(***************************************************************************)
(* What the rules of merge.rs promise two branches, for records of any     *)
(* kind under any keys, whatever a callback answers: who has merged the    *)
(* other holds the same, the typed rules know no direction, and no         *)
(* increment is dropped.                                                   *)
(***************************************************************************)
EXTENDS MergeRecords, TLAPS

\* A claim that was true at some time.  Nothing in the code makes it so:
\* Interval::between takes the ends as they come.
Proper(r) == r.kind = "claim" => Before(r.start, r.end)

\* Clients and callbacks give claims that were true at some time.
ClaimsProper ==
  /\ \A k \in Keys : \A r \in Kind[k] : Proper(r)
  /\ \A r \in Replacements : Proper(r)

-----------------------------------------------------------------------------
(* The rules. *)

\* What saturating does to a sum.
LEMMA SaturateRange ==
  \A n \in Int : /\ Saturate(n) \in MinInt .. MaxInt
                 /\ n \in MinInt .. MaxInt => Saturate(n) = n
  BY MergeAssumption DEF Saturate

\* The first addition of merge_typed never leaves the range, so that the second
\* is the only one that may saturate.
LEMMA FirstSumFits ==
  ASSUME NEW b \in MinInt .. MaxInt, NEW n \in MinInt .. MaxInt
  PROVE  /\ SatAdd(b, SatSub(n, b)) = b + SatSub(n, b)
         /\ SatSub(n, b) \in Int
         /\ n - b \in MinInt .. MaxInt => SatSub(n, b) = n - b
  BY MergeAssumption DEF SatAdd, SatSub, Saturate

\* The count of a record that is taken for the base of a counter.
CountOf(r) == IF r.kind = "counter" THEN r.n ELSE 0

\* Two counters merge to the base and both increments.
LEMMA CountersMerge ==
  ASSUME NEW b, b = Absent \/ IsRecord(b), NEW s, NEW t, IsRecord(s), IsRecord(t),
         s.kind = "counter", t.kind = "counter"
  PROVE  /\ MergeTyped(b, s, t) =
              Counter(Saturate(CountOf(b) + SatSub(s.n, CountOf(b)) + SatSub(t.n, CountOf(b))))
         /\ CountOf(b) \in Int /\ SatSub(s.n, CountOf(b)) \in Int
         /\ SatSub(t.n, CountOf(b)) \in Int
<1>1. s.n \in MinInt .. MaxInt /\ t.n \in MinInt .. MaxInt
  BY DEF IsRecord
<1>2. CountOf(b) \in MinInt .. MaxInt
  BY MergeAssumption DEF CountOf, IsRecord, Absent
<1>3. MergeTyped(b, s, t) =
        Counter(SatAdd(SatAdd(CountOf(b), SatSub(s.n, CountOf(b))), SatSub(t.n, CountOf(b))))
  BY DEF MergeTyped, CountOf
<1>4. SatAdd(CountOf(b), SatSub(s.n, CountOf(b))) = CountOf(b) + SatSub(s.n, CountOf(b))
  BY <1>1, <1>2, FirstSumFits
<1>5. SatSub(s.n, CountOf(b)) \in Int /\ SatSub(t.n, CountOf(b)) \in Int
  BY <1>1, <1>2, FirstSumFits
<1> QED BY <1>2, <1>3, <1>4, <1>5, MergeAssumption DEF SatAdd

\* merge_claims knows no direction between claims that were true at some time.
LEMMA ClaimsUndirected ==
  ASSUME NEW s, NEW t, IsRecord(s), IsRecord(t), s.kind = "claim", t.kind = "claim",
         Proper(s), Proper(t)
  PROVE  MergeClaims(s, t) = MergeClaims(t, s)
<1>1. /\ {s.start, s.end, t.start, t.end} \subseteq Int \cup {NoBound}
      /\ s.rank \in Int /\ t.rank \in Int
  BY DEF IsRecord
<1>2. Overlaps(s, t) <=> Overlaps(t, s)
  BY DEF Overlaps
<1>3. CASE Overlaps(s, t)
  BY <1>1, <1>2, <1>3 DEF MergeClaims
<1>4. CASE ~Overlaps(s, t)
  <2>1. CASE NoBound \in {s.start, t.start}
    BY <1>2, <1>4, <2>1 DEF MergeClaims
  <2>2. CASE NoBound \notin {s.start, t.start}
    <3>1. s.start \in Int /\ t.start \in Int
      BY <1>1, <2>2
    <3>2. s.start # t.start
      BY <1>1, <1>4, <3>1 DEF Overlaps, Before, Proper
    <3> QED BY <1>2, <1>4, <2>2, <3>1, <3>2 DEF MergeClaims
  <2> QED BY <2>1, <2>2
<1> QED BY <1>3, <1>4

\* Nor do the typed rules.
LEMMA TypedUndirected ==
  ASSUME NEW b, b = Absent \/ IsRecord(b), NEW s, NEW t, IsRecord(s), IsRecord(t),
         Proper(s), Proper(t)
  PROVE  MergeTyped(b, s, t) = MergeTyped(b, t, s)
<1>1. CASE s.kind = "counter" /\ t.kind = "counter"
  <2> DEFINE c == CountOf(b)
  <2>1. /\ MergeTyped(b, s, t) = Counter(Saturate(c + SatSub(s.n, c) + SatSub(t.n, c)))
        /\ MergeTyped(b, t, s) = Counter(Saturate(c + SatSub(t.n, c) + SatSub(s.n, c)))
    BY <1>1, CountersMerge
  <2>2. c \in Int /\ SatSub(s.n, c) \in Int /\ SatSub(t.n, c) \in Int
    BY <1>1, CountersMerge
  <2> HIDE DEF c
  <2> QED BY <2>1, <2>2
<1>2. CASE s.kind = "set" /\ t.kind = "set"
  BY <1>2 DEF MergeTyped, SetOf
<1>3. CASE s.kind = "claim" /\ t.kind = "claim"
  BY <1>3, ClaimsUndirected DEF MergeTyped
<1>4. CASE /\ ~(s.kind = "counter" /\ t.kind = "counter") /\ ~(s.kind = "set" /\ t.kind = "set")
           /\ ~(s.kind = "claim" /\ t.kind = "claim")
  BY <1>4 DEF MergeTyped
<1> QED BY <1>1, <1>2, <1>3, <1>4

\* What a typed rule makes: one of the two records, or a new counter or set.
LEMMA TypedMakes ==
  ASSUME NEW b, b = Absent \/ IsRecord(b), NEW s, NEW t, IsRecord(s), IsRecord(t)
  PROVE  LET r == MergeTyped(b, s, t)
         IN  \/ r \in {Absent, s, t} \/ r.kind = "set"
             \/ r.kind = "counter" /\ r.n \in MinInt .. MaxInt
<1>1. CASE s.kind = "counter" /\ t.kind = "counter"
  <2> DEFINE c == CountOf(b)
             n == c + SatSub(s.n, c) + SatSub(t.n, c)
  <2>1. MergeTyped(b, s, t) = Counter(Saturate(n))
    BY <1>1, CountersMerge
  <2>2. n \in Int
    BY <1>1, CountersMerge
  <2> HIDE DEF n
  <2> QED BY <2>1, <2>2, SaturateRange DEF Counter
<1>2. CASE s.kind = "set" /\ t.kind = "set"
  BY <1>2 DEF MergeTyped, SetOf
<1>3. CASE s.kind = "claim" /\ t.kind = "claim"
  BY <1>3 DEF MergeTyped, MergeClaims
<1>4. CASE /\ ~(s.kind = "counter" /\ t.kind = "counter") /\ ~(s.kind = "set" /\ t.kind = "set")
           /\ ~(s.kind = "claim" /\ t.kind = "claim")
  BY <1>4 DEF MergeTyped
<1> QED BY <1>1, <1>2, <1>3, <1>4

-----------------------------------------------------------------------------
(* Decisions. *)

\* What a decision leaves: what was on one of the sides, an answer, or a total.
LEMMA OutcomeIs ==
  ASSUME NEW b, NEW s, NEW t, \A r \in {b, s, t} : r = Absent \/ IsRecord(r),
         NEW answer \in Resolutions
  PROVE  LET o == Outcome(t, Decide(b, s, t, answer))
         IN  \/ o \in {s, t} \/ o \in Replacements \/ o.kind = "set"
             \/ o.kind = "counter" /\ o.n \in MinInt .. MaxInt
<1>1. CASE Decide(b, s, t, answer) \in {Nothing, Conflict, Write(s), Resolved(s)}
  BY <1>1 DEF Outcome, Nothing, Conflict, Write, Resolved
<1>2. CASE /\ s # Absent /\ t # Absent /\ MergeTyped(b, s, t) # Absent
           /\ Decide(b, s, t, answer) = Write(MergeTyped(b, s, t))
  <2>1. Outcome(t, Decide(b, s, t, answer)) = MergeTyped(b, s, t)
    BY <1>2 DEF Outcome, Write
  <2> QED BY <1>2, <2>1, TypedMakes
<1>3. CASE answer.choice = "replace" /\ Decide(b, s, t, answer) = Resolved(answer.rec)
  BY <1>3 DEF Outcome, Resolved, Replacements
<1>4. \/ Decide(b, s, t, answer) \in {Nothing, Conflict, Write(s), Resolved(s)}
      \/ /\ s # Absent /\ t # Absent /\ MergeTyped(b, s, t) # Absent
         /\ Decide(b, s, t, answer) = Write(MergeTyped(b, s, t))
      \/ answer.choice = "replace" /\ Decide(b, s, t, answer) = Resolved(answer.rec)
  BY RecordsAssumption DEF Decide, AskPolicy
<1> QED BY <1>1, <1>2, <1>3, <1>4

\* Nothing is deleted: what the base has, the target keeps.
LEMMA OutcomePresent ==
  ASSUME NEW b, NEW s, NEW t, b # Absent => s # Absent /\ t # Absent,
         NEW answer \in Resolutions, Decide(b, s, t, answer) # Conflict,
         s # Absent \/ t # Absent
  PROVE  Outcome(t, Decide(b, s, t, answer)) # Absent
<1> DEFINE m == MergeTyped(b, s, t)
<1> HIDE DEF m
<1>1. answer.choice = "replace" => answer.rec # Absent
  BY RecordsAssumption DEF Replacements, IsRecord, Absent
<1>2. answer.choice \in {"source", "target", "unresolved", "replace"}
  BY RecordsAssumption
<1>3. CASE s = t \/ s = b \/ t = b
  BY <1>3 DEF Decide, Outcome, Nothing, Write
<1>4. CASE s # t /\ s # b /\ t # b
  <2>1. s # Absent \/ b = Absent
    OBVIOUS
  <2>2. s # Absent /\ t # Absent
    BY <1>4
  <2>3. CASE m # Absent
    BY <1>4, <2>2, <2>3 DEF m, Decide, Outcome, Write
  <2>4. CASE m = Absent
    <3>1. Decide(b, s, t, answer) = AskPolicy(s, answer)
      BY <1>4, <2>4 DEF m, Decide
    <3> QED BY <1>1, <1>2, <2>2, <3>1 DEF AskPolicy, Outcome, Nothing, Resolved, Conflict
  <2> QED BY <2>3, <2>4
<1> QED BY <1>3, <1>4

-----------------------------------------------------------------------------
(* Two branches. *)

\* The three trees are trees of records, or of nothing where there is none.
TreesHold ==
  /\ \A tree \in {base, left, right} : tree = [k \in Keys |-> tree[k]]
  /\ \A k \in Keys : \A r \in {base[k], left[k], right[k]} : r = Absent \/ IsRecord(r)

\* No branch loses a record that the base has: there is no deleting.
NothingDeleted ==
  \A k \in Keys : base[k] # Absent => left[k] # Absent /\ right[k] # Absent

\* After a merge the absorbed side is the base of the next one.
BaseFollows ==
  /\ merged \in {"none", "left", "right", "both"}
  /\ merged = "right" => base = left
  /\ merged = "left" => base = right
  /\ merged = "both" => left = right

MergeInv == TreesHold /\ NothingDeleted /\ BaseFollows

\* A merge of one side into the other, in either direction.
LEMMA MergeTrees ==
  ASSUME NEW b, NEW s, NEW t, NEW answer \in Resolutions,
         \A tree \in {b, s, t} : tree = [k \in Keys |-> tree[k]],
         \A k \in Keys : \A r \in {b[k], s[k], t[k]} : r = Absent \/ IsRecord(r),
         \A k \in Keys : b[k] # Absent => s[k] # Absent /\ t[k] # Absent,
         \A k \in Keys : Decide(b[k], s[k], t[k], answer) # Conflict,
         NEW u, u = [k \in Keys |-> Outcome(t[k], Decide(b[k], s[k], t[k], answer))]
  PROVE  /\ \A k \in Keys : u[k] = Absent \/ IsRecord(u[k])
         /\ \A k \in Keys : s[k] # Absent => u[k] # Absent
         /\ b = t => u = s
<1>1. ASSUME NEW k \in Keys PROVE u[k] = Absent \/ IsRecord(u[k])
  <2> DEFINE o == Outcome(t[k], Decide(b[k], s[k], t[k], answer))
  <2>1. \A r \in {b[k], s[k], t[k]} : r = Absent \/ IsRecord(r)
    BY <1>1
  <2>2. \/ o \in {s[k], t[k]} \/ o \in Replacements \/ o.kind = "set"
        \/ o.kind = "counter" /\ o.n \in MinInt .. MaxInt
    BY <2>1, OutcomeIs
  <2>3. u[k] = o
    BY <1>1
  <2> HIDE DEF o
  <2>4. o \in Replacements => IsRecord(o)
    BY RecordsAssumption
  <2>5. o.kind = "set" \/ (o.kind = "counter" /\ o.n \in MinInt .. MaxInt) => IsRecord(o)
    BY DEF IsRecord
  <2> QED BY <2>1, <2>2, <2>3, <2>4, <2>5
<1>2. ASSUME NEW k \in Keys, s[k] # Absent PROVE u[k] # Absent
  BY <1>2, OutcomePresent
<1>3. ASSUME b = t PROVE u = s
  <2>1. ASSUME NEW k \in Keys PROVE Outcome(t[k], Decide(b[k], s[k], t[k], answer)) = s[k]
    BY <1>3, <2>1 DEF Decide, Outcome, Nothing, Write
  <2> QED BY <2>1
<1> QED BY <1>1, <1>2, <1>3

LEMMA MergeInitial == Init => MergeInv
  BY DEF Init, MergeInv, TreesHold, NothingDeleted, BaseFollows

\* An edit puts a record where there was one, or none.
LEMMA MergeNext == MergeInv /\ [Next]_vars => MergeInv'
<1> SUFFICES ASSUME MergeInv, [Next]_vars PROVE MergeInv'
  OBVIOUS
<1>a. TreesHold /\ NothingDeleted /\ BaseFollows
  BY DEF MergeInv
<1>1. ASSUME NEW k \in Keys, NEW r \in Kind[k], EditLeft(k, r) PROVE MergeInv'
  <2>1. IsRecord(r) /\ r # Absent
    BY RecordsAssumption DEF IsRecord, Absent
  <2>2. left' = [j \in Keys |-> IF j = k THEN r ELSE left[j]] /\ UNCHANGED <<base, right>>
    BY <1>1, <1>a DEF EditLeft, TreesHold
  <2>3. TreesHold'
    BY <1>a, <2>1, <2>2 DEF TreesHold
  <2>4. NothingDeleted' /\ merged' = "none"
    BY <1>1, <1>a, <2>1, <2>2 DEF EditLeft, NothingDeleted
  <2> QED BY <2>3, <2>4 DEF MergeInv, BaseFollows
<1>2. ASSUME NEW k \in Keys, NEW r \in Kind[k], EditRight(k, r) PROVE MergeInv'
  <2>1. IsRecord(r) /\ r # Absent
    BY RecordsAssumption DEF IsRecord, Absent
  <2>2. right' = [j \in Keys |-> IF j = k THEN r ELSE right[j]] /\ UNCHANGED <<base, left>>
    BY <1>2, <1>a DEF EditRight, TreesHold
  <2>3. TreesHold'
    BY <1>a, <2>1, <2>2 DEF TreesHold
  <2>4. NothingDeleted' /\ merged' = "none"
    BY <1>2, <1>a, <2>1, <2>2 DEF EditRight, NothingDeleted
  <2> QED BY <2>3, <2>4 DEF MergeInv, BaseFollows
<1>3. ASSUME NEW answer \in Resolutions, MergeRight(answer) PROVE MergeInv'
  <2>1. /\ right' = [k \in Keys |-> Outcome(right[k], Decide(base[k], left[k], right[k], answer))]
        /\ \A k \in Keys : Decide(base[k], left[k], right[k], answer) # Conflict
        /\ base' = left /\ left' = left
        /\ merged' = IF merged = "left" THEN "both" ELSE "right"
    BY <1>3 DEF MergeRight, Plan, Clean, Apply
  <2>2. /\ \A k \in Keys : right'[k] = Absent \/ IsRecord(right'[k])
        /\ \A k \in Keys : left[k] # Absent => right'[k] # Absent
        /\ base = right => right' = left
    BY <1>a, <2>1, MergeTrees DEF TreesHold, NothingDeleted
  <2>3. TreesHold'
    BY <1>a, <2>1, <2>2 DEF TreesHold
  <2>4. NothingDeleted' /\ BaseFollows'
    BY <1>a, <2>1, <2>2 DEF NothingDeleted, BaseFollows
  <2> QED BY <2>3, <2>4 DEF MergeInv
<1>4. ASSUME NEW answer \in Resolutions, MergeLeft(answer) PROVE MergeInv'
  <2>1. /\ left' = [k \in Keys |-> Outcome(left[k], Decide(base[k], right[k], left[k], answer))]
        /\ \A k \in Keys : Decide(base[k], right[k], left[k], answer) # Conflict
        /\ base' = right /\ right' = right
        /\ merged' = IF merged = "right" THEN "both" ELSE "left"
    BY <1>4 DEF MergeLeft, Plan, Clean, Apply
  <2>2. /\ \A k \in Keys : left'[k] = Absent \/ IsRecord(left'[k])
        /\ \A k \in Keys : right[k] # Absent => left'[k] # Absent
        /\ base = left => left' = right
    BY <1>a, <2>1, MergeTrees DEF TreesHold, NothingDeleted
  <2>3. TreesHold'
    BY <1>a, <2>1, <2>2 DEF TreesHold
  <2>4. NothingDeleted' /\ BaseFollows'
    BY <1>a, <2>1, <2>2 DEF NothingDeleted, BaseFollows
  <2> QED BY <2>3, <2>4 DEF MergeInv
<1>5. CASE UNCHANGED vars
  BY <1>5 DEF vars, MergeInv, TreesHold, NothingDeleted, BaseFollows
<1> QED BY <1>1, <1>2, <1>3, <1>4, <1>5 DEF Next

\* Two branches that have merged each other hold the same records: whatever
\* callbacks answered, the second merge only fast-forwards (decide).
THEOREM MergesConverge == Spec => []Converged
<1>1. MergeInv => Converged
  BY DEF MergeInv, BaseFollows, Converged
<1> QED BY <1>1, MergeInitial, MergeNext, PTL DEF Spec

-----------------------------------------------------------------------------
(* The engine's own decisions. *)

\* A merged counter has both increments where they differ, of any size in range, up
\* to the end of the range (merge_typed with saturating_add and saturating_sub).
\* Equal ones the code counts once: decide finds two equal sides first.
THEOREM IncrementsKept == Spec => []DeltasAdd
<1>1. MergeInv => DeltasAdd
  <2> SUFFICES ASSUME MergeInv, NEW k \in Keys, AreCounters(k), DeltasInRange(k),
                      NEW b, b = base[k], NEW s, s = left[k], NEW t, t = right[k], s # t,
                      NEW c, c = CountOf(b)
               PROVE  Outcome(t, Decide(b, s, t, Unresolved)).n = Saturate(s.n + t.n - c)
    BY DEF DeltasAdd, MergedCount, CountOf, BaseCount
  <2>1. /\ \A r \in {b, s, t} : r = Absent \/ IsRecord(r)
        /\ s.kind = "counter" /\ t.kind = "counter" /\ s # t
        /\ s.n - c \in MinInt .. MaxInt /\ t.n - c \in MinInt .. MaxInt
    BY DEF MergeInv, TreesHold, AreCounters, DeltasInRange, CountOf, BaseCount
  <2>3. s # Absent /\ t # Absent
    BY <2>1 DEF Absent
  <2>4. s.n \in MinInt .. MaxInt /\ t.n \in MinInt .. MaxInt
    BY <2>1, <2>3 DEF IsRecord
  <2>5. c \in MinInt .. MaxInt
    BY <2>1, MergeAssumption DEF CountOf, IsRecord, Absent
  <2>6. CASE s = b
    <3>1. Outcome(t, Decide(b, s, t, Unresolved)) = t /\ c = s.n
      BY <2>1, <2>6 DEF Decide, Outcome, Nothing, CountOf
    <3> QED BY <2>1, <2>4, <3>1, SaturateRange, MergeAssumption
  <2>7. CASE s # b /\ t = b
    <3>1. Outcome(t, Decide(b, s, t, Unresolved)) = s /\ c = t.n
      BY <2>1, <2>3, <2>7 DEF Decide, Outcome, Write, CountOf
    <3> QED BY <2>1, <2>4, <3>1, SaturateRange, MergeAssumption
  <2>8. CASE s # b /\ t # b
    <3>1. /\ MergeTyped(b, s, t) = Counter(Saturate(c + SatSub(s.n, c) + SatSub(t.n, c)))
          /\ SatSub(s.n, c) = s.n - c /\ SatSub(t.n, c) = t.n - c
      BY <2>1, <2>3, <2>4, <2>5, CountersMerge, FirstSumFits
    <3>2. c + SatSub(s.n, c) + SatSub(t.n, c) = s.n + t.n - c
      BY <2>4, <2>5, <3>1, MergeAssumption
    <3>3. MergeTyped(b, s, t) = Counter(Saturate(s.n + t.n - c))
      BY <3>1, <3>2
    <3>4. MergeTyped(b, s, t) # Absent
      BY <3>3 DEF Counter, Absent
    <3>5. Outcome(t, Decide(b, s, t, Unresolved)) = MergeTyped(b, s, t)
      BY <2>1, <2>3, <2>8, <3>4 DEF Decide, Outcome, Write
    <3> QED BY <3>3, <3>5 DEF Counter
  <2> QED BY <2>6, <2>7, <2>8
<1> QED BY <1>1, MergeInitial, MergeNext, PTL DEF Spec

\* Every claim on the branches was true at some time.
ProperInv ==
  /\ ClaimsProper
  /\ \A k \in Keys : \A r \in {base[k], left[k], right[k]} : Proper(r)

\* Merging makes no claim that is not one of the two.
LEMMA OutcomeProper ==
  ASSUME ClaimsProper, NEW b, NEW s, NEW t, \A r \in {b, s, t} : r = Absent \/ IsRecord(r),
         Proper(s), Proper(t), NEW answer \in Resolutions
  PROVE  Proper(Outcome(t, Decide(b, s, t, answer)))
<1> DEFINE o == Outcome(t, Decide(b, s, t, answer))
<1>1. \/ o \in {s, t} \/ o \in Replacements \/ o.kind = "set"
      \/ o.kind = "counter" /\ o.n \in MinInt .. MaxInt
  BY OutcomeIs
<1> HIDE DEF o
<1>2. Proper(o)
  BY <1>1 DEF ClaimsProper, Proper
<1> QED BY <1>2 DEF o

LEMMA ProperNext == MergeInv /\ ProperInv /\ [Next]_vars => ProperInv'
<1> SUFFICES ASSUME MergeInv, ProperInv, [Next]_vars PROVE ProperInv'
  OBVIOUS
<1>a. TreesHold /\ ClaimsProper
  BY DEF MergeInv, ProperInv
<1>1. ASSUME NEW k \in Keys, NEW r \in Kind[k], EditLeft(k, r) \/ EditRight(k, r) PROVE ProperInv'
  <2>1. Proper(r)
    BY <1>a DEF ClaimsProper
  <2>2. CASE EditLeft(k, r)
    <3>1. left' = [j \in Keys |-> IF j = k THEN r ELSE left[j]] /\ UNCHANGED <<base, right>>
      BY <2>2, <1>a DEF EditLeft, TreesHold
    <3> QED BY <1>a, <2>1, <3>1 DEF ProperInv
  <2>3. CASE EditRight(k, r)
    <3>1. right' = [j \in Keys |-> IF j = k THEN r ELSE right[j]] /\ UNCHANGED <<base, left>>
      BY <2>3, <1>a DEF EditRight, TreesHold
    <3> QED BY <1>a, <2>1, <3>1 DEF ProperInv
  <2> QED BY <1>1, <2>2, <2>3
<1>2. ASSUME NEW answer \in Resolutions, MergeRight(answer) PROVE ProperInv'
  <2>1. /\ right' = [k \in Keys |-> Outcome(right[k], Decide(base[k], left[k], right[k], answer))]
        /\ base' = left /\ left' = left
    BY <1>2 DEF MergeRight, Plan, Apply
  <2>2. ASSUME NEW k \in Keys PROVE Proper(right'[k])
    BY <1>a, <2>1, <2>2, OutcomeProper DEF TreesHold, ProperInv
  <2> QED BY <1>a, <2>1, <2>2 DEF ProperInv
<1>3. ASSUME NEW answer \in Resolutions, MergeLeft(answer) PROVE ProperInv'
  <2>1. /\ left' = [k \in Keys |-> Outcome(left[k], Decide(base[k], right[k], left[k], answer))]
        /\ base' = right /\ right' = right
    BY <1>3 DEF MergeLeft, Plan, Apply
  <2>2. ASSUME NEW k \in Keys PROVE Proper(left'[k])
    BY <1>a, <2>1, <2>2, OutcomeProper DEF TreesHold, ProperInv
  <2> QED BY <1>a, <2>1, <2>2 DEF ProperInv
<1>4. CASE UNCHANGED vars
  BY <1>4 DEF vars, ProperInv
<1> QED BY <1>1, <1>2, <1>3, <1>4 DEF Next

\* Whatever the engine decides on its own does not depend on the direction of
\* the merge, as long as no claim ends before it begins (decide, merge_claims).
THEOREM RulesUndirected == ClaimsProper /\ Spec => []Undirected
<1>1. ClaimsProper /\ Init => ProperInv
  BY DEF Init, ProperInv, Proper, Absent
<1>2. MergeInv /\ ProperInv => Undirected
  <2> SUFFICES ASSUME MergeInv, ProperInv, NEW k \in Keys,
                      NEW b, b = base[k], NEW s, s = left[k], NEW t, t = right[k]
               PROVE  /\ Decide(b, s, t, Unresolved) = Conflict <=>
                            Decide(b, t, s, Unresolved) = Conflict
                      /\ Decide(b, s, t, Unresolved) # Conflict =>
                            Outcome(t, Decide(b, s, t, Unresolved)) =
                              Outcome(s, Decide(b, t, s, Unresolved))
    BY DEF Undirected
  <2>1. /\ \A r \in {b, s, t} : r = Absent \/ IsRecord(r)
        /\ Proper(s) /\ Proper(t) /\ (b # Absent => s # Absent /\ t # Absent)
    BY DEF MergeInv, TreesHold, NothingDeleted, ProperInv
  <2>2. CASE s = t \/ s = b \/ t = b
    BY <2>1, <2>2 DEF Decide, Outcome, Nothing, Write, Conflict
  <2>3. CASE s # t /\ s # b /\ t # b
    <3>1. s # Absent /\ t # Absent
      BY <2>1, <2>3
    <3>2. MergeTyped(b, s, t) = MergeTyped(b, t, s)
      BY <2>1, <3>1, TypedUndirected
    <3> QED BY <2>3, <3>1, <3>2
            DEF Decide, Outcome, AskPolicy, Unresolved, Write, Conflict
  <2> QED BY <2>2, <2>3
<1> QED BY <1>1, <1>2, MergeInitial, MergeNext, ProperNext, PTL DEF Spec
=============================================================================
