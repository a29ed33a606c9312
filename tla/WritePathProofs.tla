--------------------------- MODULE WritePathProofs ---------------------------
(***************************************************************************)
(* What a commit's tree says of its records, for any number of sessions,   *)
(* branches, keys and sources: the label of an index entry covers the      *)
(* sources of its record, a claim and its history are one belief, and what *)
(* was believed at an earlier time stays; and taint reaches every record a *)
(* source went into, but for the named ways past the read-set, and no key  *)
(* it never went into.                                                     *)
(***************************************************************************)
EXTENDS WritePath, FiniteSetTheorems, SequenceTheorems, WellFoundedInduction, TLAPS

\* The sources LabelsInherited excepts.
Excused == Leaked(Ways) \cup unlabelled

Version == [start : Nat, end : Nat \cup {Null}, status : Statuses \cup {"superseded"}]

\* A record as it may stand at a key.
Standing(k, r) ==
  IF k \in Claims THEN r.kind = "claim" /\ r.start \in Nat /\ r.status \in Statuses
                  ELSE r.kind = "observation" /\ r.source \in Sources

\* A tree has its nine parts, and only finitely many records and nodes.
WholeTree(t) ==
  /\ t = [rec |-> t.rec, merged |-> t.merged, prov |-> t.prov, cites |-> t.cites,
          latest |-> t.latest, seq |-> t.seq, idx |-> t.idx, hist |-> t.hist, from |-> t.from]
  /\ DOMAIN t.rec \subseteq Keys /\ IsFiniteSet(DOMAIN t.rec) /\ IsFiniteSet(DOMAIN t.prov)
  /\ \A k \in DOMAIN t.rec : Standing(k, t.rec[k])
  /\ DOMAIN t.latest \cap Keys \subseteq DOMAIN t.rec
  /\ t.hist \in [Claims -> Seq(Version)]

\* A record's index entry is as restricted as each source that is not excused,
\* and it has one when there is such a source.
Labelled(t, excused) ==
  /\ DOMAIN t.from = DOMAIN t.rec
  /\ \A k \in DOMAIN t.rec :
       /\ k \in DOMAIN t.from /\ t.from[k] \subseteq Sources
       /\ \A src \in t.from[k] \ excused : k \in DOMAIN t.idx /\ t.idx[k] >= Trust[src]
  /\ DOMAIN t.idx \subseteq DOMAIN t.rec
  /\ \A k \in DOMAIN t.idx : t.idx[k] \in Nat

\* What stands at a claim's key and the last version are one belief.
Believed(t) ==
  \A k \in DOMAIN t.rec \cap Claims :
    LET h == t.hist[k]
        v == h[Len(h)]
    IN  /\ Len(h) > 0 /\ v.start = t.rec[k].start /\ v.end = Null
        /\ t.rec[k].status # "invalidated" => v.status = t.rec[k].status

\* The node that wrote a record last is of a commit that was made, and two trees
\* that name the same one have the record from the same sources.
Named ==
  /\ \A c \in Made : \A k \in DOMAIN tree[c].rec :
       /\ k \in DOMAIN tree[c].latest
       /\ \E d \in Made : tree[c].latest[k] = <<d, k>>
  /\ \A c, d \in Made : \A k \in DOMAIN tree[c].rec \cap DOMAIN tree[d].rec :
       tree[c].latest[k] = tree[d].latest[k] => tree[c].from[k] = tree[d].from[k]

\* What a session has seen is covered by the label of its read-set, or by the
\* record it is about to capture.
Covered(s) ==
  call[s].at # "writing" =>
    \A src \in truth[s] \ Excused :
      \/ readset[s].label >= Trust[src]
      \/ call[s].at \in {"reading", "capturing"} /\ src \in call[s].from

\* The record a session is reading is, or was, at its key.
Reading(s) ==
  call[s].at \in {"reading", "capturing"} =>
    /\ call[s] = [at |-> call[s].at, branch |-> call[s].branch, key |-> call[s].key,
                  rec |-> call[s].rec, node |-> call[s].node, from |-> call[s].from]
    /\ Standing(call[s].key, call[s].rec)
    /\ \E d \in Made : /\ call[s].key \in DOMAIN tree[d].rec
                       /\ call[s].node = tree[d].latest[call[s].key]
                       /\ call[s].from = tree[d].from[call[s].key]

\* What a session is about to write; and an index entry it writes will do.
Writing(w, excused) ==
  /\ DOMAIN w.recs \subseteq Keys /\ IsFiniteSet(DOMAIN w.recs) /\ IsFiniteSet(DOMAIN w.merge.prov)
  /\ \A k \in DOMAIN w.recs : Standing(k, w.recs[k]) /\ w.times[k] \in Nat \ {0}
  /\ DOMAIN w.from = DOMAIN w.recs /\ \A k \in DOMAIN w.from : w.from[k] \subseteq Sources
  /\ w.captured.label \in Nat
  /\ w.hinted \subseteq DOMAIN w.recs
  /\ \A k \in w.hinted : \A src \in w.from[k] \ excused :
       MostRestrictive(w.captured.label, OwnTrust(w.recs[k])) >= Trust[src]

\* What a merge has planned to write.
Planned(w) ==
  /\ w.source \in Branches /\ IsFiniteSet(DOMAIN w.merge.prov)
  /\ w.merge = [extra |-> w.merge.extra, prov |-> w.merge.prov, cites |-> w.merge.cites,
                merged |-> w.merge.merged]
  /\ DOMAIN w.recs \subseteq Keys /\ IsFiniteSet(DOMAIN w.recs)
  /\ \A k \in DOMAIN w.recs : Standing(k, w.recs[k])
  /\ DOMAIN w.from = DOMAIN w.recs /\ \A k \in DOMAIN w.from : w.from[k] \subseteq Sources

CallInv(s) ==
  /\ call[s].at \in {"nothing", "reading", "capturing", "planned", "writing", "forgetting"}
  /\ call[s].at # "nothing" => call[s].branch \in Branches /\ heads[call[s].branch] # Null
  /\ truth[s] \subseteq Sources /\ readset[s].label \in Nat
  /\ Covered(s) /\ Reading(s)
  /\ call[s].at = "planned" => Planned(call[s]) /\ heads[call[s].source] # Null
  /\ call[s].at = "writing" => Writing(call[s], Excused)

\* The variables are functions where they should be.
Shaped ==
  /\ heads \in [Branches -> Made \cup {Null}]
  /\ tree = [c \in Commits |-> tree[c]] /\ parents = [c \in Commits |-> parents[c]]
  /\ readset = [s \in Sessions |-> readset[s]] /\ call = [s \in Sessions |-> call[s]]
  /\ truth = [s \in Sessions |-> truth[s]]
  /\ IsFiniteSet(Made)

Trees == \A c \in Made : WholeTree(tree[c]) /\ Labelled(tree[c], Excused) /\ Believed(tree[c])

PathInv ==
  /\ Shaped /\ Named /\ Trees
  /\ \A s \in Sessions : CallInv(s)

-----------------------------------------------------------------------------
(* Numbers and finite sets. *)

\* A set of numbers that is not empty has a least one.
LEMMA LeastNat ==
  ASSUME NEW T, T \subseteq Nat, T # {}
  PROVE  \E x \in T : \A y \in T : x <= y
<1> DEFINE less == OpToRel(<, Nat)
<1>1. IsWellFoundedOn(less, Nat)
  BY NatLessThanWellFounded
<1>2. \E x \in T : \A y \in T : ~ (<<y, x>> \in less)
  <2> HIDE DEF less
  <2> QED BY <1>1, WFMin
<1>3. \A x, y \in Nat : <<y, x>> \in less <=> y < x
  BY DEF OpToRel
<1>4. PICK x \in T : \A y \in T : ~ (<<y, x>> \in less)
  BY <1>2
<1> HIDE DEF less
<1>5. \A y \in T : ~(y < x)
  BY <1>3, <1>4
<1>6. \A y \in T : x <= y
  BY <1>5
<1> QED BY <1>4, <1>6

\* Induction, over the numbers a set contains.
LEMMA NatInd ==
  ASSUME NEW T, 0 \in T, \A n \in Nat : n \in T => n + 1 \in T
  PROVE  Nat \subseteq T
<1> SUFFICES ASSUME Nat \ T # {} PROVE FALSE
  OBVIOUS
<1>1. PICK x \in Nat \ T : \A y \in Nat \ T : x <= y
  BY LeastNat
<1>2. x # 0 /\ x - 1 \in Nat /\ ~(x <= x - 1) /\ x - 1 + 1 = x
  BY <1>1
<1> QED BY <1>1, <1>2

\* Max of a set of numbers up to n is in it.
LEMMA MaxIn ==
  ASSUME NEW n \in Nat, NEW S, S \subseteq 1 .. n, S # {}
  PROVE  Max(S) \in S
<1> DEFINE T == {m \in 0 .. n : n - m \in S}
<1>1. T \subseteq Nat /\ T # {}
  <2>1. PICK x \in S : TRUE
    OBVIOUS
  <2>2. x \in 1 .. n /\ n - x \in 0 .. n /\ n - (n - x) = x
    BY <2>1
  <2>3. n - x \in T
    BY <2>1, <2>2
  <2>4. T \subseteq 0 .. n
    OBVIOUS
  <2> HIDE DEF T
  <2> QED BY <2>3, <2>4
<1>2. PICK m \in T : \A y \in T : m <= y
  BY <1>1, LeastNat
<1>3. \A y \in S : n - m >= y
  <2> TAKE y \in S
  <2>1. y \in 1 .. n /\ n - y \in 0 .. n /\ n - (n - y) = y
    OBVIOUS
  <2>2. m <= n - y
    BY <1>2, <2>1
  <2> QED BY <1>2, <2>1, <2>2
<1>4. n - m \in S
  BY <1>2
<1> QED BY <1>3, <1>4 DEF Max

\* What a function makes of a finite set is finite.
LEMMA FiniteImage ==
  ASSUME NEW S, IsFiniteSet(S), NEW f, DOMAIN f = S
  PROVE  IsFiniteSet({f[x] : x \in S})
<1> DEFINE g == [x \in S |-> f[x]]
           T == {f[x] : x \in S}
<1>1. g \in Surjection(S, T)
  BY DEF Surjection
<1> QED BY <1>1, FS_Surjection

\* A new commit was not made before.
LEMMA FreshCommit ==
  ASSUME Made # Commits
  PROVE  NewCommit \in Commits \ Made
<1>1. Commits \ Made \subseteq Nat /\ Commits \ Made # {}
  BY WritePathAssumption DEF Made
<1>2. \E x \in Commits \ Made : \A y \in Commits \ Made : x <= y
  BY <1>1, LeastNat
<1> QED BY <1>2 DEF NewCommit, Min

-----------------------------------------------------------------------------
(* Versions of a claim. *)

\* The version a write of a claim appends.
LastOf(claim) == [start |-> claim.start, end |-> Null, status |-> claim.status]

\* A version, closed when another begins.
Closed(v, claim) ==
  IF v.end = Null THEN [v EXCEPT !.end = claim.start, !.status = "superseded"] ELSE v

\* What append_claim_version does to the versions.
LEMMA AppendVersionIs ==
  ASSUME NEW h \in Seq(Version), NEW claim, claim.start \in Nat, claim.status \in Statuses
  PROVE  /\ AppendVersion(h, claim) \in Seq(Version)
         /\ Len(AppendVersion(h, claim)) = Len(h) + 1
         /\ AppendVersion(h, claim)[Len(h) + 1] = LastOf(claim)
         /\ \A i \in 1 .. Len(h) : AppendVersion(h, claim)[i] = Closed(h[i], claim)
<1> DEFINE g == [i \in DOMAIN h |-> Closed(h[i], claim)]
<1>1. AppendVersion(h, claim) = Append(g, LastOf(claim))
  BY DEF AppendVersion, Closed, LastOf
<1>2. DOMAIN h = 1 .. Len(h) /\ Len(h) \in Nat
  OBVIOUS
<1>3. LastOf(claim) \in Version
  BY DEF LastOf, Version
<1>4. g \in Seq(Version)
  <2>1. \A v \in Version : Closed(v, claim) \in Version
    BY DEF Version, Closed
  <2>2. g \in [1 .. Len(h) -> Version]
    BY <1>2, <2>1
  <2> HIDE DEF g
  <2> QED BY <1>2, <2>2
<1>5. Len(g) = Len(h)
  BY <1>2, <1>4
<1>6. \A i \in 1 .. Len(h) : g[i] = Closed(h[i], claim)
  BY <1>2
<1> HIDE DEF g
<1> QED BY <1>1, <1>3, <1>4, <1>5, <1>6

\* after[i] has been appended to i times.
Appends(after, h, claim, n) ==
  /\ after = [i \in 0 .. n |-> after[i]]
  /\ after[0] = h
  /\ \A i \in 1 .. n : after[i] = AppendVersion(after[i - 1], claim)

LEMMA VersionsDef ==
  ASSUME NEW h, NEW claim, NEW n \in Nat
  PROVE  \E after : Appends(after, h, claim, n) /\ Versions(h, claim, n) = after[n]
<1> DEFINE T == {m \in Nat : \E f : Appends(f, h, claim, m)}
<1>1. 0 \in T
  <2>1. Appends([i \in 0 .. 0 |-> h], h, claim, 0)
    BY DEF Appends
  <2> QED BY <2>1
<1>2. ASSUME NEW m \in Nat, m \in T PROVE m + 1 \in T
  <2>1. PICK f : Appends(f, h, claim, m)
    BY <1>2
  <2> DEFINE g == [i \in 0 .. m + 1 |-> IF i = m + 1 THEN AppendVersion(f[m], claim) ELSE f[i]]
  <2>2. g[0] = h
    BY <2>1 DEF Appends
  <2>3. \A i \in 1 .. m + 1 : g[i] = AppendVersion(g[i - 1], claim)
    <3> TAKE i \in 1 .. m + 1
    <3>1. i - 1 \in 0 .. m + 1 /\ i - 1 # m + 1 /\ i \in 0 .. m + 1
      OBVIOUS
    <3>2. g[i - 1] = f[i - 1]
      BY <3>1
    <3>3. CASE i = m + 1
      <4>1. i - 1 = m /\ g[i] = AppendVersion(f[m], claim)
        BY <3>1, <3>3
      <4> QED BY <3>2, <4>1
    <3>4. CASE i # m + 1
      <4>1. i \in 1 .. m /\ g[i] = f[i]
        BY <3>1, <3>4
      <4> QED BY <2>1, <3>2, <4>1 DEF Appends
    <3> QED BY <3>3, <3>4
  <2>4. Appends(g, h, claim, m + 1)
    <3>1. g = [i \in 0 .. m + 1 |-> g[i]]
      OBVIOUS
    <3> HIDE DEF g
    <3> QED BY <2>2, <2>3, <3>1 DEF Appends
  <2> QED BY <2>4
<1>3. n \in T
  <2> HIDE DEF T
  <2> QED BY <1>1, <1>2, NatInd
<1> DEFINE Eq(f) == f = [i \in 0 .. n |-> IF i = 0 THEN h ELSE AppendVersion(f[i - 1], claim)]
           it == CHOOSE f : Eq(f)
<1>4. PICK f : Appends(f, h, claim, n)
  BY <1>3
<1>5. Eq(f)
  <2>1. \A i \in 0 .. n : f[i] = IF i = 0 THEN h ELSE AppendVersion(f[i - 1], claim)
    <3> TAKE i \in 0 .. n
    <3>1. CASE i = 0
      BY <1>4, <3>1 DEF Appends
    <3>2. CASE i # 0
      <4>1. i \in 1 .. n
        BY <3>2
      <4> QED BY <1>4, <3>2, <4>1 DEF Appends
    <3> QED BY <3>1, <3>2
  <2>2. f = [i \in 0 .. n |-> f[i]]
    BY <1>4 DEF Appends
  <2> QED BY <2>1, <2>2
<1>6. Eq(it)
  <2> HIDE DEF Eq
  <2> QED BY <1>5
<1>7. Versions(h, claim, n) = it[n]
  BY DEF Versions
<1>8. Appends(it, h, claim, n)
  <2> HIDE DEF it
  <2> QED BY <1>6 DEF Appends
<1> QED BY <1>7, <1>8

\* What appending a claim to its versions, so many times, comes to.
Lengthened(is, h, claim, n) ==
  /\ is \in Seq(Version) /\ Len(is) = Len(h) + n
  /\ is[Len(is)] = LastOf(claim)
  /\ \A i \in 1 .. Len(h) : is[i] = Closed(h[i], claim)
  /\ \A i \in Len(h) + 1 .. Len(is) : is[i].start = claim.start

LEMMA VersionsIs ==
  ASSUME NEW h \in Seq(Version), NEW claim, claim.start \in Nat, claim.status \in Statuses,
         NEW n \in Nat \ {0}
  PROVE  Lengthened(Versions(h, claim, n), h, claim, n)
<1>1. PICK after : Appends(after, h, claim, n) /\ Versions(h, claim, n) = after[n]
  BY VersionsDef
<1>a. Len(h) \in Nat /\ Null \notin Nat
  BY WritePathAssumption
<1> DEFINE T == {m \in Nat : m + 1 <= n => Lengthened(after[m + 1], h, claim, m + 1)}
<1>2. 0 \in T
  <2>1. 1 \in 1 .. n /\ 1 - 1 = 0
    OBVIOUS
  <2>2. after[1] = AppendVersion(h, claim)
    BY <1>1, <2>1 DEF Appends
  <2>3. Lengthened(after[1], h, claim, 1)
    <3> DEFINE is == AppendVersion(h, claim)
    <3>1. /\ is \in Seq(Version) /\ Len(is) = Len(h) + 1 /\ is[Len(h) + 1] = LastOf(claim)
          /\ \A i \in 1 .. Len(h) : is[i] = Closed(h[i], claim)
      BY AppendVersionIs
    <3> HIDE DEF is
    <3>2. \A i \in Len(h) + 1 .. Len(is) : is[i].start = claim.start
      BY <1>a, <3>1 DEF LastOf
    <3>3. Lengthened(is, h, claim, 1)
      BY <3>1, <3>2 DEF Lengthened
    <3> QED BY <2>2, <3>3 DEF is
  <2> QED BY <2>3
<1>3. ASSUME NEW m \in Nat, m \in T PROVE m + 1 \in T
  <2> SUFFICES ASSUME (m + 1) + 1 <= n PROVE Lengthened(after[(m + 1) + 1], h, claim, (m + 1) + 1)
    OBVIOUS
  <2>1. (m + 1) + 1 \in 1 .. n /\ ((m + 1) + 1) - 1 = m + 1 /\ m + 1 <= n /\ m + 1 \in Nat \ {0}
    OBVIOUS
  <2> DEFINE was == after[m + 1]
             is  == after[(m + 1) + 1]
             k   == m + 1
  <2>2. is = AppendVersion(was, claim)
    BY <1>1, <2>1 DEF Appends
  <2>3. Lengthened(was, h, claim, k) /\ k \in Nat \ {0}
    BY <1>3, <2>1
  <2> HIDE DEF is, was, k
  <2>4. was \in Seq(Version) /\ Len(was) = Len(h) + k
    BY <2>3 DEF Lengthened
  <2>5. /\ is \in Seq(Version) /\ Len(is) = Len(was) + 1 /\ is[Len(was) + 1] = LastOf(claim)
        /\ \A i \in 1 .. Len(was) : is[i] = Closed(was[i], claim)
    BY <2>2, <2>4, AppendVersionIs
  <2>6. Len(is) = Len(h) + (k + 1) /\ is[Len(is)] = LastOf(claim)
    BY <1>a, <2>3, <2>4, <2>5
  <2>7. ASSUME NEW i \in 1 .. Len(h) PROVE is[i] = Closed(h[i], claim)
    <3>1. i \in 1 .. Len(was) /\ h[i] \in Version
      BY <1>a, <2>3, <2>4
    <3>2. is[i] = Closed(Closed(h[i], claim), claim)
      BY <2>3, <2>5, <3>1 DEF Lengthened
    <3>3. Closed(Closed(h[i], claim), claim) = Closed(h[i], claim)
      BY <1>a, <3>1 DEF Closed, Version
    <3> QED BY <3>2, <3>3
  <2>8. ASSUME NEW i \in Len(h) + 1 .. Len(is) PROVE is[i].start = claim.start
    <3>1. CASE i = Len(was) + 1
      BY <2>5, <3>1 DEF LastOf
    <3>2. CASE i # Len(was) + 1
      <4>1. i \in Len(h) + 1 .. Len(was) /\ i \in 1 .. Len(was)
        <5>1. Len(h) \in Nat /\ Len(was) \in Nat /\ Len(is) = Len(was) + 1
          BY <1>a, <2>3, <2>4, <2>5
        <5> QED BY <3>2, <5>1
      <4>2. was[i].start = claim.start /\ was[i] \in Version
        BY <2>3, <2>4, <4>1 DEF Lengthened
      <4> QED BY <2>5, <4>1, <4>2 DEF Closed, Version
    <3> QED BY <3>1, <3>2
  <2>9. Lengthened(is, h, claim, k + 1)
    BY <2>5, <2>6, <2>7, <2>8 DEF Lengthened
  <2> QED BY <2>9 DEF is, k
<1>4. n - 1 \in T
  <2>1. n - 1 \in Nat
    OBVIOUS
  <2> HIDE DEF T
  <2> QED BY <1>2, <1>3, <2>1, NatInd
<1>5. (n - 1) + 1 = n
  OBVIOUS
<1> QED BY <1>1, <1>4, <1>5

\* Before the start of what is appended, the same versions are known.
LEMMA PastStays ==
  ASSUME NEW h \in Seq(Version), NEW claim, claim.start \in Nat, NEW n \in Nat,
         NEW is, Lengthened(is, h, claim, n), NEW at \in 0 .. claim.start - 1
  PROVE  AsOf(is, at) = AsOf(h, at)
<1> DEFINE Known(v) == v.start <= at /\ (v.end # Null => at < v.end)
<1>1. /\ Len(h) \in Nat /\ DOMAIN h = 1 .. Len(h) /\ Len(is) = Len(h) + n
      /\ DOMAIN is = 1 .. Len(is) /\ is \in Seq(Version)
  BY DEF Lengthened
<1>2. ASSUME NEW i \in DOMAIN h
      PROVE  /\ i \in DOMAIN is /\ is[i].start = h[i].start
             /\ Known(is[i]) <=> Known(h[i])
  <2>1. i \in DOMAIN is /\ is[i] = Closed(h[i], claim) /\ h[i] \in Version
    BY <1>1, <1>2 DEF Lengthened
  <2> QED BY <2>1, WritePathAssumption DEF Closed, Version
<1>3. ASSUME NEW i \in DOMAIN is, i \notin DOMAIN h PROVE ~Known(is[i])
  <2>1. i \in Len(h) + 1 .. Len(is)
    BY <1>1, <1>3
  <2>2. is[i].start = claim.start
    BY <2>1 DEF Lengthened
  <2> QED BY <2>2
<1> DEFINE known == {i \in DOMAIN h : Known(h[i])}
<1>4. known = {i \in DOMAIN is : Known(is[i])}
  <2> HIDE DEF Known
  <2> QED BY <1>2, <1>3
<1>5. /\ AsOf(h, at) = IF known = {} THEN Null ELSE h[Max(known)].start
      /\ AsOf(is, at) = IF known = {} THEN Null ELSE is[Max(known)].start
  BY <1>4 DEF AsOf
<1>6. known # {} => Max(known) \in known
  <2>1. known \subseteq 1 .. Len(h)
    BY <1>1
  <2> HIDE DEF known
  <2> QED BY <1>1, <2>1, MaxIn
<1>7. known # {} => Max(known) \in DOMAIN h
  BY <1>6
<1> HIDE DEF known, Known
<1> QED BY <1>2, <1>5, <1>7

-----------------------------------------------------------------------------
(* What every step leaves standing. *)

\* A source once excused stays so.
LEMMA ExcusedGrows ==
  ASSUME leaks \subseteq leaks', unlabelled \subseteq unlabelled'
  PROVE  Excused \subseteq Excused'
  BY DEF Excused, Leaked

\* And one that gets past the read-set is.
LEMMA LeakExcused ==
  ASSUME NEW way \in Ways, NEW src, <<way, src>> \in leaks'
  PROVE  src \in Excused'
  BY DEF Excused, Leaked

\* No commit is undone, no branch goes away, no excuse is taken back.
Grows ==
  /\ Made \subseteq Made' /\ \A c \in Made : tree'[c] = tree[c]
  /\ \A b \in Branches : heads[b] # Null => heads'[b] # Null
  /\ Excused \subseteq Excused'

\* The trees are as good as they were when none is added.
LEMMA TreesKeep ==
  ASSUME PathInv, UNCHANGED <<tree, parents>>, Excused \subseteq Excused'
  PROVE  Made' = Made /\ Named' /\ Trees'
<1>1. Made' = Made
  BY DEF Made
<1>2. Named'
  BY <1>1 DEF PathInv, Named
<1>3. Trees'
  BY <1>1 DEF PathInv, Trees, Labelled
<1> QED BY <1>1, <1>2, <1>3

\* So is a session that takes no part in the step.
LEMMA CallKeeps ==
  ASSUME NEW q \in Sessions, CallInv(q), Grows,
         call'[q] = call[q], readset'[q] = readset[q], truth'[q] = truth[q]
  PROVE  CallInv(q)'
<1>1. Covered(q)'
  BY DEF CallInv, Covered, Grows
<1>2. Reading(q)'
  <2> SUFFICES ASSUME call[q].at \in {"reading", "capturing"} PROVE Reading(q)'
    BY DEF Reading
  <2>1. /\ call[q] = [at |-> call[q].at, branch |-> call[q].branch, key |-> call[q].key,
                      rec |-> call[q].rec, node |-> call[q].node, from |-> call[q].from]
        /\ Standing(call[q].key, call[q].rec)
        /\ \E d \in Made : /\ call[q].key \in DOMAIN tree[d].rec
                           /\ call[q].node = tree[d].latest[call[q].key]
                           /\ call[q].from = tree[d].from[call[q].key]
    BY DEF CallInv, Reading
  <2>2. \E d \in Made' : /\ call[q].key \in DOMAIN tree'[d].rec
                         /\ call[q].node = tree'[d].latest[call[q].key]
                         /\ call[q].from = tree'[d].from[call[q].key]
    BY <2>1 DEF Grows
  <2> QED BY <2>1, <2>2 DEF Reading
<1>3. call[q].at = "writing" => Writing(call[q], Excused')
  BY DEF CallInv, Writing, Grows
<1>4. call[q].at = "planned" => Planned(call[q]) /\ heads'[call[q].source] # Null
  BY DEF CallInv, Planned, Grows
<1> QED BY <1>1, <1>2, <1>3, <1>4 DEF CallInv, Grows

\* The step of one session.
LEMMA OneSession ==
  ASSUME PathInv, Grows, Shaped', Named', Trees', NEW s \in Sessions, CallInv(s)',
         \A q \in Sessions \ {s} :
           call'[q] = call[q] /\ readset'[q] = readset[q] /\ truth'[q] = truth[q]
  PROVE  PathInv'
<1>1. ASSUME NEW q \in Sessions, q # s PROVE CallInv(q)'
  BY <1>1, CallKeeps DEF PathInv
<1> QED BY <1>1 DEF PathInv

\* The step of one session that changes no tree and moves no head.
LEMMA SessionOnly ==
  ASSUME PathInv, UNCHANGED <<heads, tree, parents>>, NEW s \in Sessions, NEW c, NEW r, NEW v,
         call' = [call EXCEPT ![s] = c], readset' = [readset EXCEPT ![s] = r],
         truth' = [truth EXCEPT ![s] = v],
         leaks \subseteq leaks', unlabelled \subseteq unlabelled', CallInv(s)'
  PROVE  PathInv'
<1>1. Excused \subseteq Excused'
  BY ExcusedGrows
<1>2. Made' = Made /\ Named' /\ Trees'
  BY <1>1, TreesKeep
<1>3. Grows
  BY <1>1, <1>2 DEF Grows
<1>4. Shaped'
  BY <1>2 DEF PathInv, Shaped
<1>5. \A q \in Sessions \ {s} :
        call'[q] = call[q] /\ readset'[q] = readset[q] /\ truth'[q] = truth[q]
  OBVIOUS
<1> QED BY <1>2, <1>3, <1>4, <1>5, OneSession

\* A step that moves a head only, to a commit that was made.
LEMMA HeadsOnly ==
  ASSUME PathInv, UNCHANGED <<tree, parents, readset, call, truth, leaks, unlabelled>>,
         NEW b \in Branches, NEW c \in Made, heads' = [heads EXCEPT ![b] = c]
  PROVE  PathInv'
<1>1. Excused \subseteq Excused'
  BY ExcusedGrows
<1>2. Made' = Made /\ Named' /\ Trees'
  BY <1>1, TreesKeep
<1>3. c # Null
  BY WritePathAssumption DEF Made
<1>4. Grows
  BY <1>1, <1>2, <1>3 DEF Grows, PathInv, Shaped
<1>5. Shaped'
  BY <1>2 DEF PathInv, Shaped
<1>6. \A q \in Sessions : CallInv(q)'
  BY <1>4, CallKeeps DEF PathInv
<1> QED BY <1>2, <1>5, <1>6 DEF PathInv

\* What a session in the middle of nothing finds at a branch.
LEMMA Finds ==
  ASSUME PathInv, NEW b \in Branches, heads[b] # Null
  PROVE  /\ heads[b] \in Made /\ Tree(b) = tree[heads[b]]
         /\ WholeTree(Tree(b)) /\ Labelled(Tree(b), Excused) /\ Believed(Tree(b))
<1>1. heads[b] \in Made
  BY DEF PathInv, Shaped
<1> QED BY <1>1 DEF PathInv, Trees, Tree

-----------------------------------------------------------------------------
(* Reading. *)

LEMMA ReadKeeps ==
  ASSUME PathInv, NEW s \in Sessions, NEW b \in Branches, NEW k \in Keys, Read(s, b, k)
  PROVE  PathInv'
<1> DEFINE t == Tree(b)
           c == [at |-> "reading", branch |-> b, key |-> k, rec |-> t.rec[k],
                 node |-> At(t.latest, k), from |-> t.from[k]]
<1>1. /\ call[s] = Free /\ heads[b] # Null /\ k \in DOMAIN t.rec
      /\ call' = [call EXCEPT ![s] = c] /\ truth' = [truth EXCEPT ![s] = @ \cup t.from[k]]
      /\ UNCHANGED <<heads, tree, parents, readset, leaks, unlabelled>>
  BY DEF Read, May
<1>2. /\ heads[b] \in Made /\ t = tree[heads[b]]
      /\ WholeTree(t) /\ Labelled(t, Excused)
  BY <1>1, Finds
<1>3. Made' = Made
  BY <1>1 DEF Made
<1>4. call'[s] = c /\ truth'[s] = truth[s] \cup t.from[k] /\ readset'[s] = readset[s]
  BY <1>1 DEF PathInv, Shaped
<1>5. Excused' = Excused
  BY <1>1 DEF Excused, Leaked
<1>6. At(t.latest, k) = t.latest[k]
  BY <1>1, <1>2 DEF At, PathInv, Named
<1>7. CallInv(s) /\ call[s].at = "nothing"
  BY <1>1 DEF PathInv, Free
<1>8. Reading(s)'
  <2>1. Standing(k, t.rec[k])
    BY <1>1, <1>2 DEF WholeTree
  <2>2. /\ c = [at |-> c.at, branch |-> c.branch, key |-> c.key, rec |-> c.rec, node |-> c.node,
                from |-> c.from]
        /\ c.key = k /\ c.rec = t.rec[k] /\ c.node = At(t.latest, k) /\ c.from = t.from[k]
    OBVIOUS
  <2> HIDE DEF c
  <2> QED BY <1>1, <1>2, <1>3, <1>4, <1>6, <2>1, <2>2 DEF Reading
<1>9. t.from[k] \subseteq Sources
  BY <1>1, <1>2 DEF Labelled
<1> HIDE DEF t
<1>10. Covered(s)'
  BY <1>4, <1>5, <1>7 DEF Covered, CallInv
<1>11. CallInv(s)'
  BY <1>1, <1>4, <1>7, <1>8, <1>9, <1>10 DEF CallInv
<1>12. readset' = [readset EXCEPT ![s] = readset[s]]
  BY <1>1 DEF PathInv, Shaped
<1> QED BY <1>1, <1>11, <1>12, SessionOnly

\* OwnTrust is the trust of the record's own source, if it has one.
LEMMA OwnTrustIs ==
  ASSUME NEW k \in Keys, NEW r, Standing(k, r)
  PROVE  OwnTrust(r) \in Nat /\ (~IsClaim(r) => OwnTrust(r) = Trust[r.source])
  BY ContentsAssumption DEF Standing, OwnTrust, IsClaim

\* What the capture of the node adds to a read-set takes nothing from its label,
\* and the label is still to be looked up.
LEMMA CaptureNodeKeeps ==
  ASSUME PathInv, NEW s \in Sessions, CaptureNode(s)
  PROVE  PathInv'
<1> DEFINE w == call[s]
           c == [w EXCEPT !.at = "capturing"]
           label == MostRestrictive(readset[s].label, OwnTrust(w.rec))
           node == At(Tree(w.branch).latest, w.key)
           r == [nodes   |-> readset[s].nodes \cup ({node} \ {Null}),
                 sources |-> readset[s].sources \cup IF IsClaim(w.rec) THEN {} ELSE {w.rec.source},
                 label   |-> label]
<1>1. /\ w.at = "reading"
      /\ readset' = [readset EXCEPT ![s] = r] /\ call' = [call EXCEPT ![s] = c]
      /\ leaks \subseteq leaks'
      /\ UNCHANGED <<heads, tree, parents, truth, unlabelled>>
  BY DEF CaptureNode
<1>2. CallInv(s) /\ w.branch \in Branches /\ heads[w.branch] # Null
  BY <1>1 DEF PathInv, CallInv
<1>3. readset'[s].label = label /\ call'[s] = c /\ truth'[s] = truth[s]
  BY <1>1 DEF PathInv, Shaped
<1>4. Excused \subseteq Excused'
  BY <1>1, ExcusedGrows
<1>5. PICK d \in Made : /\ w.key \in DOMAIN tree[d].rec /\ w.node = tree[d].latest[w.key]
                        /\ w.from = tree[d].from[w.key]
  BY <1>1, <1>2 DEF CallInv, Reading
<1>6. w.key \in Keys /\ Standing(w.key, w.rec)
  BY <1>1, <1>2, <1>5 DEF CallInv, Reading, PathInv, Trees, WholeTree
<1>7. label \in Nat /\ label >= readset[s].label /\ readset[s].label \in Nat
  BY <1>2, <1>6, OwnTrustIs DEF CallInv, MostRestrictive
<1>8. /\ c.at = "capturing" /\ c.branch = w.branch /\ c.key = w.key /\ c.rec = w.rec
      /\ c.node = w.node /\ c.from = w.from
      /\ c = [at |-> c.at, branch |-> c.branch, key |-> c.key, rec |-> c.rec,
              node |-> c.node, from |-> c.from]
  <2>1. w = [at |-> w.at, branch |-> w.branch, key |-> w.key, rec |-> w.rec, node |-> w.node,
             from |-> w.from]
    BY <1>1, <1>2 DEF CallInv, Reading
  <2> HIDE DEF w
  <2> QED BY <2>1
<1> HIDE DEF w, c, r, label, node
<1>9. ASSUME NEW src \in truth[s] \ Excused'
      PROVE  label >= Trust[src] \/ src \in c.from
  <2>1. src \in Sources /\ src \notin Excused /\ Trust[src] \in Nat
    BY <1>2, <1>4, <1>9, ContentsAssumption DEF CallInv
  <2>2. readset[s].label >= Trust[src] \/ src \in w.from
    BY <1>1, <1>2, <1>9, <2>1 DEF CallInv, Covered, w
  <2> QED BY <1>7, <1>8, <2>1, <2>2
<1>10. Made' = Made
  BY <1>1 DEF Made
<1>11. Reading(s)'
  <2>1. d \in Made' /\ tree'[d] = tree[d]
    BY <1>1, <1>10
  <2>2. /\ Standing(c.key, c.rec) /\ c.key \in DOMAIN tree'[d].rec
        /\ c.node = tree'[d].latest[c.key] /\ c.from = tree'[d].from[c.key]
    BY <1>5, <1>6, <1>8, <2>1
  <2> QED BY <1>3, <1>8, <2>1, <2>2 DEF Reading, Standing
<1>12. CallInv(s)'
  BY <1>1, <1>2, <1>3, <1>7, <1>8, <1>9, <1>11 DEF CallInv, Covered
<1>13. truth' = [truth EXCEPT ![s] = truth[s]]
  BY <1>1 DEF PathInv, Shaped
<1> QED BY <1>1, <1>12, <1>13, SessionOnly

\* The label covers what was read, or whatever went into it is excused: where the
\* branch has still the node that was read, it has its sources and its label.
LEMMA CaptureLabelKeeps ==
  ASSUME PathInv, NEW s \in Sessions, CaptureLabel(s)
  PROVE  PathInv'
<1> DEFINE w == call[s]
           t == Tree(w.branch)
           node == At(t.latest, w.key)
           entry == At(t.idx, w.key)
           label == MostRestrictive(readset[s].label, IF entry = Null THEN 0 ELSE entry)
           r == [nodes |-> readset[s].nodes, sources |-> readset[s].sources, label |-> label]
<1>1. /\ w.at = "capturing"
      /\ readset' = [readset EXCEPT ![s] = r] /\ call' = [call EXCEPT ![s] = Free]
      /\ UNCHANGED <<heads, tree, parents, truth, leaks>>
  BY DEF CaptureLabel
<1>2. /\ unlabelled \subseteq unlabelled'
      /\ node # w.node => w.from \subseteq unlabelled'
  BY DEF CaptureLabel
<1>3. CallInv(s) /\ w.branch \in Branches /\ heads[w.branch] # Null
  BY <1>1 DEF PathInv, CallInv
<1>4. /\ heads[w.branch] \in Made /\ t = tree[heads[w.branch]]
      /\ WholeTree(t) /\ Labelled(t, Excused)
  BY <1>3, Finds
<1>5. readset'[s].label = label /\ call'[s] = Free /\ truth'[s] = truth[s]
  BY <1>1 DEF PathInv, Shaped
<1>6. Excused \subseteq Excused'
  BY <1>1, <1>2, ExcusedGrows
<1>7. PICK d \in Made : /\ w.key \in DOMAIN tree[d].rec /\ w.node = tree[d].latest[w.key]
                        /\ w.from = tree[d].from[w.key]
  BY <1>1, <1>3 DEF CallInv, Reading
<1>8. w.key \in Keys /\ Standing(w.key, w.rec)
  BY <1>1, <1>3, <1>7 DEF CallInv, Reading, PathInv, Trees, WholeTree
<1>9. w.node # Null
  <2>1. PICK e \in Made : w.node = <<e, w.key>>
    BY <1>7 DEF PathInv, Named
  <2>2. w.node \in NodeIds
    BY <1>8, <2>1, WritePathAssumption DEF Made, NodeIds
  <2> QED BY <2>2, WritePathAssumption
<1>10. node = w.node => w.key \in DOMAIN t.rec /\ t.from[w.key] = w.from
  <2> SUFFICES ASSUME node = w.node PROVE w.key \in DOMAIN t.rec /\ t.from[w.key] = w.from
    OBVIOUS
  <2>1. w.key \in DOMAIN t.latest /\ t.latest[w.key] = w.node
    BY <1>9 DEF At
  <2>2. w.key \in DOMAIN t.rec
    BY <1>4, <1>8, <2>1 DEF WholeTree
  <2> QED BY <1>4, <1>7, <2>1, <2>2 DEF PathInv, Named
<1>11. entry = Null \/ entry \in Nat
  BY <1>4 DEF At, Labelled
<1>12. readset[s].label \in Nat
  BY <1>3 DEF CallInv
<1>13. /\ label \in Nat /\ label >= readset[s].label
       /\ entry # Null => label >= entry
  BY <1>11, <1>12 DEF MostRestrictive
<1>14. ASSUME NEW src \in truth[s] \ Excused' PROVE label >= Trust[src]
  <2>1. src \in Sources /\ src \notin Excused /\ Trust[src] \in Nat
    BY <1>3, <1>6, <1>14, ContentsAssumption DEF CallInv
  <2>2. readset[s].label >= Trust[src] \/ src \in w.from
    BY <1>1, <1>3, <1>14, <2>1 DEF CallInv, Covered
  <2>3. CASE readset[s].label >= Trust[src]
    <3> HIDE DEF label
    <3> QED BY <1>12, <1>13, <2>1, <2>3
  <2>4. CASE src \in w.from
    <3>1. node = w.node
      <4>1. node # w.node => src \in unlabelled'
        BY <1>2, <2>4
      <4> QED BY <1>14, <4>1 DEF Excused
    <3>2. src \in t.from[w.key] /\ w.key \in DOMAIN t.rec
      BY <1>10, <2>4, <3>1
    <3>3. w.key \in DOMAIN t.idx /\ t.idx[w.key] >= Trust[src] /\ t.idx[w.key] \in Nat
      BY <1>4, <2>1, <3>2 DEF Labelled
    <3>4. entry = t.idx[w.key] /\ entry # Null
      BY <3>3, WritePathAssumption DEF At
    <3> HIDE DEF label, entry
    <3> QED BY <1>13, <2>1, <3>3, <3>4
  <2> QED BY <2>2, <2>3, <2>4
<1> HIDE DEF w, t, r, label
<1>16. CallInv(s)'
  BY <1>3, <1>5, <1>13, <1>14 DEF CallInv, Covered, Reading, Free
<1>17. truth' = [truth EXCEPT ![s] = truth[s]]
  BY <1>1 DEF PathInv, Shaped
<1> QED BY <1>1, <1>2, <1>16, <1>17, SessionOnly

-----------------------------------------------------------------------------
(* Preparing a write. *)

\* A session that is in the middle of nothing, or of a merge it has planned,
\* prepares a write that will do.
LEMMA PrepareKeeps ==
  ASSUME PathInv, NEW s \in Sessions, NEW b \in Branches, heads[b] # Null,
         call[s] = Free \/ call[s].at = "planned",
         NEW recs, NEW times, NEW hinted, NEW merge, NEW from, NEW leak,
         Prepare(s, b, recs, times, hinted, merge, from, leak),
         UNCHANGED <<heads, tree, parents, truth, leaks, unlabelled>>,
         DOMAIN recs \subseteq Keys, IsFiniteSet(DOMAIN recs), IsFiniteSet(DOMAIN merge.prov),
         \A k \in DOMAIN recs : Standing(k, recs[k]) /\ times[k] \in Nat \ {0},
         DOMAIN from = DOMAIN recs, \A k \in DOMAIN from : from[k] \subseteq Sources,
         hinted \subseteq DOMAIN recs,
         \A k \in hinted : from[k] \subseteq truth[s] \cup
                             IF IsClaim(recs[k]) THEN {} ELSE {recs[k].source}
  PROVE  PathInv'
<1> DEFINE c == [at |-> "writing", branch |-> b, recs |-> recs, times |-> times,
                 hinted |-> hinted, merge |-> merge, captured |-> readset[s],
                 from |-> from, leak |-> leak]
<1>1. call' = [call EXCEPT ![s] = c] /\ readset' = [readset EXCEPT ![s] = NoReads]
  BY DEF Prepare
<1>2. call'[s] = c /\ readset'[s] = NoReads /\ truth'[s] = truth[s]
  BY <1>1 DEF PathInv, Shaped
<1>3. CallInv(s) /\ call[s].at \in {"nothing", "planned"}
  BY DEF PathInv, Free
<1>4. \A src \in truth[s] \ Excused : readset[s].label >= Trust[src]
  BY <1>3 DEF CallInv, Covered
<1>5. ASSUME NEW k \in hinted, NEW src \in from[k] \ Excused
      PROVE  MostRestrictive(readset[s].label, OwnTrust(recs[k])) >= Trust[src]
  <2>1. /\ readset[s].label \in Nat /\ OwnTrust(recs[k]) \in Nat
        /\ src \in Sources /\ Trust[src] \in Nat
        /\ ~IsClaim(recs[k]) => OwnTrust(recs[k]) = Trust[recs[k].source]
    BY <1>3, OwnTrustIs, ContentsAssumption DEF CallInv
  <2>2. readset[s].label >= Trust[src] \/ OwnTrust(recs[k]) = Trust[src]
    BY <1>4, <1>5, <2>1
  <2> QED BY <2>1, <2>2 DEF MostRestrictive
<1>6. Writing(c, Excused)
  BY <1>3, <1>5 DEF Writing, CallInv
<1>7. Excused' = Excused
  BY DEF Excused, Leaked
<1>8. c.at = "writing" /\ c.branch = b
  OBVIOUS
<1> HIDE DEF c
<1>9. Writing(call'[s], Excused')
  BY <1>2, <1>6, <1>7
<1>10. CallInv(s)'
  BY <1>2, <1>3, <1>8, <1>9 DEF CallInv, Covered, Reading, NoReads
<1>11. truth' = [truth EXCEPT ![s] = truth[s]]
  BY DEF PathInv, Shaped
<1> QED BY <1>1, <1>10, <1>11, SessionOnly

LEMMA WriteKeeps ==
  ASSUME PathInv, NEW s \in Sessions, NEW b \in Branches, NEW k \in Keys, NEW r,
         NEW hint \in BOOLEAN, StartWrite(s, b, k, r, hint), Standing(k, r)
  PROVE  PathInv'
<1> DEFINE recs == Each({k}, r)
           times == Each({k}, 1)
           hinted == IF hint THEN {k} ELSE {}
           own == IF IsClaim(r) THEN {} ELSE {r.source}
           from == Each({k}, truth[s] \cup own)
<1>1. /\ call[s] = Free /\ heads[b] # Null
      /\ Prepare(s, b, recs, times, hinted, NoMerge, from, {})
      /\ UNCHANGED <<heads, tree, parents, truth, leaks, unlabelled>>
  BY DEF StartWrite, May
<1>2. /\ DOMAIN recs = {k} /\ DOMAIN from = {k} /\ recs[k] = r /\ times[k] = 1
      /\ from[k] = truth[s] \cup own
  BY DEF Each
<1>3. IsFiniteSet({k}) /\ IsFiniteSet(DOMAIN NoMerge.prov)
  <2>1. DOMAIN NoMerge.prov = {}
    BY DEF NoMerge, Nothing
  <2> QED BY <2>1, FS_Singleton, FS_EmptySet
<1>4. truth[s] \subseteq Sources /\ own \subseteq Sources
  BY DEF PathInv, CallInv, Standing, IsClaim
<1>5. hinted \subseteq {k}
  OBVIOUS
<1>6. \A j \in hinted : from[j] \subseteq truth[s] \cup
                          IF IsClaim(recs[j]) THEN {} ELSE {recs[j].source}
  BY <1>2, <1>5
<1> HIDE DEF recs, times, hinted, from, own
<1> QED BY <1>1, <1>2, <1>3, <1>4, <1>5, <1>6, PrepareKeeps

\* mark_stale writes a claim once for each contaminated node, of which there is
\* one at least, and finitely many.
LEMMA MarkStaleKeeps ==
  ASSUME PathInv, NEW s \in Sessions, NEW b \in Branches, NEW src \in Sources,
         StartMarkStale(s, b, src)
  PROVE  PathInv'
<1> DEFINE t == Tree(b)
           stale == {k \in Contaminated(t, src) \cap DOMAIN t.rec :
                       IsClaim(t.rec[k]) /\ t.rec[k].status = "asserted"}
           recs == [k \in stale |-> Claim(t.rec[k].start, "stale")]
           times == [k \in stale |-> Cardinality(NodesOf(t, src, k))]
           from == [k \in stale |-> truth[s] \cup t.from[k]]
           leak == {"stale"} \X UNION {t.from[k] : k \in stale}
<1>1. /\ call[s] = Free /\ heads[b] # Null
      /\ Prepare(s, b, recs, times, {}, NoMerge, from, leak)
      /\ UNCHANGED <<heads, tree, parents, truth, leaks, unlabelled>>
  BY DEF StartMarkStale, May
<1>2. WholeTree(t) /\ Labelled(t, Excused)
  BY <1>1, Finds
<1>3. stale \subseteq DOMAIN t.rec
  OBVIOUS
<1>4. IsFiniteSet(stale) /\ stale \subseteq Keys
  BY <1>2, <1>3, FS_Subset DEF WholeTree
<1>5. IsFiniteSet(DOMAIN NoMerge.prov)
  <2>1. DOMAIN NoMerge.prov = {}
    BY DEF NoMerge, Nothing
  <2> QED BY <2>1, FS_EmptySet
<1>6. ASSUME NEW k \in stale PROVE Standing(k, recs[k])
  <2>1. Standing(k, t.rec[k]) /\ IsClaim(t.rec[k])
    BY <1>2, <1>3, <1>6 DEF WholeTree
  <2>2. k \in Claims /\ t.rec[k].start \in Nat
    BY <2>1 DEF Standing, IsClaim
  <2> HIDE DEF t
  <2> QED BY <1>6, <2>2 DEF Standing, Claim, Statuses
<1>7. ASSUME NEW k \in stale PROVE times[k] \in Nat \ {0}
  <2> DEFINE nodes == NodesOf(t, src, k)
  <2>1. IsFiniteSet(Nodes(t))
    BY <1>2, FiniteImage DEF Nodes, WholeTree
  <2>2. nodes \subseteq Nodes(t)
    BY DEF NodesOf
  <2>3. nodes # {}
    <3>1. k \in Contaminated(t, src)
      BY <1>7
    <3> HIDE DEF t
    <3> QED BY <3>1 DEF NodesOf, Contaminated
  <2>4. times[k] = Cardinality(nodes)
    BY <1>7
  <2> HIDE DEF nodes, times
  <2>5. IsFiniteSet(nodes)
    BY <2>1, <2>2, FS_Subset
  <2>6. Cardinality(nodes) \in Nat /\ Cardinality(nodes) # 0
    BY <2>3, <2>5, FS_CardinalityType, FS_EmptySet
  <2> QED BY <2>4, <2>6
<1>8. ASSUME NEW k \in stale PROVE from[k] \subseteq Sources
  BY <1>2, <1>3, <1>8 DEF Labelled, PathInv, CallInv
<1>9. DOMAIN recs = stale /\ DOMAIN from = stale
  OBVIOUS
<1> HIDE DEF recs, times, from, leak, stale
<1> QED BY <1>1, <1>4, <1>5, <1>6, <1>7, <1>8, <1>9, PrepareKeeps

\* A plan of what is opaque writes what the source has.
LEMMA PlanIs ==
  ASSUME NEW base, NEW source, NEW target, NEW answer \in Answers
  PROVE  LET p == PlanWrites(base, source, target, answer)
         IN  DOMAIN p \subseteq DOMAIN source /\ \A x \in DOMAIN p : p[x] = source[x]
<1> DEFINE d(x) == DecideAt(base, source, target, x, answer)
           p == PlanWrites(base, source, target, answer)
<1>1. p = [x \in {y \in DOMAIN source : d(y).act \in {"write", "resolved"}} |-> d(x).rec.v]
  BY DEF PlanWrites
<1>2. ASSUME NEW x \in DOMAIN source, d(x).act \in {"write", "resolved"}
      PROVE  d(x).rec.v = source[x]
  <2> DEFINE rec(g) == IF x \in DOMAIN g THEN R!Opaque(g[x]) ELSE R!Absent
  <2>1. d(x) = R!Decide(rec(base), rec(source), rec(target), answer)
    BY DEF DecideAt
  <2>2. rec(source) = R!Opaque(source[x])
    BY <1>2
  <2>3. rec(target).kind \in {"opaque", "absent"} /\ rec(source).kind = "opaque"
    BY <2>2 DEF R!Opaque, R!Absent
  <2> HIDE DEF rec
  <2>4. R!MergeTyped(rec(base), rec(source), rec(target)) = R!Absent
    BY <2>3 DEF R!MergeTyped
  <2>5. answer.choice \in {"source", "target", "unresolved"}
    BY WritePathAssumption
  <2>6. \/ d(x) = R!Nothing \/ d(x) = R!Conflict
        \/ d(x) = R!Write(rec(source)) \/ d(x) = R!Resolved(rec(source))
    BY <2>1, <2>4, <2>5 DEF R!Decide, R!AskPolicy
  <2> HIDE DEF d
  <2>7. d(x).rec = rec(source)
    BY <1>2, <2>6 DEF R!Nothing, R!Conflict, R!Write, R!Resolved
  <2> QED BY <2>2, <2>7 DEF R!Opaque
<1> HIDE DEF d, p
<1>3. DOMAIN p \subseteq DOMAIN source
  BY <1>1
<1>4. ASSUME NEW x \in DOMAIN p PROVE p[x] = source[x]
  BY <1>1, <1>2, <1>4
<1> QED BY <1>3, <1>4 DEF p

\* A merge is planned: the session's read-set is as it was.
LEMMA MergeKeeps ==
  ASSUME PathInv, NEW s \in Sessions, NEW b \in Branches, NEW to \in Branches,
         NEW answer \in Answers, StartMerge(s, b, to, answer)
  PROVE  PathInv'
<1> DEFINE base == tree[CHOOSE c \in MergeBases(heads[b], heads[to]) : TRUE]
           source == Tree(b)
           target == Tree(to)
           recs == PlanWrites(base.rec, source.rec, target.rec, answer)
           prov == PlanWrites(base.prov, source.prov, target.prov, answer)
           merge == [extra  |-> [k \in DOMAIN recs |-> BothSides(source, target, k)],
                     prov   |-> prov,
                     cites  |-> PlanWrites(base.cites, source.cites, target.cites, answer),
                     merged |-> Each({b}, heads[b])]
           from == [k \in DOMAIN recs |-> truth[s] \cup source.from[k] \cup
                      IF k \in DOMAIN target.from THEN target.from[k] ELSE {}]
           leak == {"overwritten"} \X UNION {Behind(source.prov[x], source) :
                                            x \in Contested(base, source, target)}
           c == [at |-> "planned", source |-> b, branch |-> to, recs |-> recs, merge |-> merge,
                 from |-> from, leak |-> leak]
<1>1. /\ call[s] = Free /\ heads[b] # Null /\ heads[to] # Null
      /\ call' = [call EXCEPT ![s] = c]
      /\ UNCHANGED <<heads, tree, parents, readset, truth, leaks, unlabelled>>
  BY DEF StartMerge, May
<1>2. WholeTree(source) /\ Labelled(source, Excused) /\ Labelled(target, Excused)
  BY <1>1, Finds
<1>3. DOMAIN recs \subseteq DOMAIN source.rec /\ \A k \in DOMAIN recs : recs[k] = source.rec[k]
  BY PlanIs
<1>4. DOMAIN prov \subseteq DOMAIN source.prov
  BY PlanIs
<1>5. /\ DOMAIN from = DOMAIN recs /\ merge.prov = prov
      /\ merge = [extra |-> merge.extra, prov |-> merge.prov, cites |-> merge.cites,
                  merged |-> merge.merged]
  OBVIOUS
<1>6. \A k \in DOMAIN recs :
        from[k] = truth[s] \cup source.from[k] \cup
                    IF k \in DOMAIN target.from THEN target.from[k] ELSE {}
  OBVIOUS
<1>a. \A k \in DOMAIN target.from : target.from[k] \subseteq Sources
  BY <1>2 DEF Labelled
<1> HIDE DEF recs, prov, merge, from, leak, source, target
<1>7. IsFiniteSet(DOMAIN recs) /\ DOMAIN recs \subseteq Keys /\ IsFiniteSet(DOMAIN merge.prov)
  BY <1>2, <1>3, <1>4, <1>5, FS_Subset DEF WholeTree
<1>8. \A k \in DOMAIN recs : Standing(k, recs[k])
  BY <1>2, <1>3 DEF WholeTree
<1>9. \A k \in DOMAIN from : from[k] \subseteq Sources
  BY <1>2, <1>3, <1>5, <1>6, <1>a DEF Labelled, PathInv, CallInv
<1>10. Planned(c)
  BY <1>5, <1>7, <1>8, <1>9 DEF Planned
<1>11. c.at = "planned" /\ c.branch = to /\ c.source = b
  OBVIOUS
<1> HIDE DEF c
<1>12. call'[s] = c /\ CallInv(s) /\ call[s].at = "nothing"
  BY <1>1 DEF PathInv, Shaped, Free
<1>13. Excused' = Excused
  BY <1>1 DEF Excused, Leaked
<1>14. CallInv(s)'
  BY <1>1, <1>10, <1>11, <1>12, <1>13 DEF CallInv, Covered, Reading
<1>15. /\ readset' = [readset EXCEPT ![s] = readset[s]]
       /\ truth' = [truth EXCEPT ![s] = truth[s]]
  BY <1>1 DEF PathInv, Shaped
<1> QED BY <1>1, <1>14, <1>15, SessionOnly

\* What was planned is prepared, with whatever nodes the branches have by now.
LEMMA LookUpKeeps ==
  ASSUME PathInv, NEW s \in Sessions, LookUpSides(s)
  PROVE  PathInv'
<1> DEFINE w == call[s]
           times == Each(DOMAIN w.recs, 1)
<1>1. PICK looked, leak :
        /\ w.at = "planned"
        /\ Prepare(s, w.branch, w.recs, times, {}, [w.merge EXCEPT !.extra = looked], w.from, leak)
        /\ UNCHANGED <<heads, tree, parents, truth, leaks, unlabelled>>
  BY DEF LookUpSides
<1>2. CallInv(s) /\ Planned(w) /\ w.branch \in Branches /\ heads[w.branch] # Null
  BY <1>1 DEF PathInv, CallInv
<1> DEFINE merge == [w.merge EXCEPT !.extra = looked]
<1>3. merge.prov = w.merge.prov
  <2>1. w.merge = [extra |-> w.merge.extra, prov |-> w.merge.prov, cites |-> w.merge.cites,
                   merged |-> w.merge.merged]
    BY <1>2 DEF Planned
  <2> HIDE DEF w
  <2> QED BY <2>1
<1>4. \A k \in DOMAIN w.recs : times[k] = 1
  BY DEF Each
<1>5. Prepare(s, w.branch, w.recs, times, {}, merge, w.from, leak)
  BY <1>1
<1> HIDE DEF w, times, merge
<1>6. /\ DOMAIN w.recs \subseteq Keys /\ IsFiniteSet(DOMAIN w.recs) /\ IsFiniteSet(DOMAIN merge.prov)
      /\ \A k \in DOMAIN w.recs : Standing(k, w.recs[k]) /\ times[k] \in Nat \ {0}
      /\ DOMAIN w.from = DOMAIN w.recs /\ \A k \in DOMAIN w.from : w.from[k] \subseteq Sources
  BY <1>2, <1>3, <1>4 DEF Planned
<1>7. call[s] = Free \/ call[s].at = "planned"
  BY <1>1 DEF w
<1> QED BY <1>1, <1>2, <1>5, <1>6, <1>7, PrepareKeeps

-----------------------------------------------------------------------------
(* The end of a call. *)

\* What the session knew when its write failed is excused.
LEMMA ErrKeeps ==
  ASSUME PathInv, NEW s \in Sessions, WriteErr(s)
  PROVE  PathInv'
<1>1. /\ call' = [call EXCEPT ![s] = Free] /\ leaks' = leaks \cup ({"failed"} \X truth[s])
      /\ UNCHANGED <<heads, tree, parents, readset, truth, unlabelled>>
  BY DEF WriteErr
<1>2. call'[s] = Free /\ CallInv(s)
  BY <1>1 DEF PathInv, Shaped
<1>3. \A src \in truth[s] : src \in Excused'
  BY <1>1, LeakExcused DEF Ways
<1>4. CallInv(s)'
  BY <1>1, <1>2, <1>3 DEF CallInv, Covered, Reading, Free
<1>5. /\ readset' = [readset EXCEPT ![s] = readset[s]]
      /\ truth' = [truth EXCEPT ![s] = truth[s]]
  BY <1>1 DEF PathInv, Shaped
<1> QED BY <1>1, <1>4, <1>5, SessionOnly

LEMMA ForgetKeeps ==
  ASSUME PathInv, NEW s \in Sessions, NEW b \in Branches, NEW src \in Sources,
         StartForget(s, b, src)
  PROVE  PathInv'
<1> DEFINE c == [at |-> "forgetting", branch |-> b, keys |-> Contaminated(Tree(b), src)]
<1>1. /\ call[s] = Free /\ heads[b] # Null /\ call' = [call EXCEPT ![s] = c]
      /\ UNCHANGED <<heads, tree, parents, readset, truth, leaks, unlabelled>>
  BY DEF StartForget, May
<1>2. call'[s] = c /\ CallInv(s) /\ c.at = "forgetting" /\ c.branch = b
  BY <1>1 DEF PathInv, Shaped
<1> HIDE DEF c
<1>3. Excused' = Excused
  BY <1>1 DEF Excused, Leaked
<1>4. CallInv(s)'
  BY <1>1, <1>2, <1>3 DEF CallInv, Covered, Reading, Free
<1>5. /\ readset' = [readset EXCEPT ![s] = readset[s]]
      /\ truth' = [truth EXCEPT ![s] = truth[s]]
  BY <1>1 DEF PathInv, Shaped
<1> QED BY <1>1, <1>4, <1>5, SessionOnly

-----------------------------------------------------------------------------
(* A new commit. *)

\* Each record of the new tree has a node of the new commit, or is as it was in
\* the tree the commit was made on.
NamedOn(u, t) ==
  \A k \in DOMAIN u.rec :
    /\ k \in DOMAIN u.latest
    /\ \/ u.latest[k] = <<NewCommit, k>>
       \/ k \in DOMAIN t.rec /\ u.latest[k] = t.latest[k] /\ u.from[k] = t.from[k]

\* A commit of a good tree, at the end of a session's call.
LEMMA CommitKeeps ==
  ASSUME PathInv, NEW b \in Branches, heads[b] # Null, Made # Commits,
         NEW u, NEW more, Commit(b, u, more),
         leaks \subseteq leaks', unlabelled \subseteq unlabelled',
         WholeTree(u), Labelled(u, Excused'), Believed(u), NamedOn(u, Tree(b)),
         NEW s \in Sessions, NEW v,
         call' = [call EXCEPT ![s] = Free], truth' = [truth EXCEPT ![s] = v],
         UNCHANGED readset, CallInv(s)'
  PROVE  PathInv'
<1>1. NewCommit \in Commits \ Made
  BY FreshCommit
<1>2. heads[b] \in Made /\ Tree(b) = tree[heads[b]]
  BY Finds
<1> DEFINE n == NewCommit
<1>3. /\ tree' = [tree EXCEPT ![n] = u] /\ heads' = [heads EXCEPT ![b] = n]
      /\ parents' = [parents EXCEPT ![n] = {heads[b]} \cup more]
  BY DEF Commit
<1>4. n \in Commits \ Made /\ n # Null
  BY <1>1, WritePathAssumption
<1> HIDE DEF n
<1>5. /\ \A c \in Commits \ {n} : tree'[c] = tree[c] /\ parents'[c] = parents[c]
      /\ tree'[n] = u /\ parents'[n] = {heads[b]} \cup more
  BY <1>3, <1>4 DEF PathInv, Shaped
<1>6. Made' = Made \cup {n}
  BY <1>4, <1>5 DEF Made
<1>7. Excused \subseteq Excused'
  BY ExcusedGrows
<1>8. Grows
  <2>1. \A c \in Made : tree'[c] = tree[c]
    BY <1>4, <1>5, WritePathAssumption DEF Made
  <2>2. \A a \in Branches : heads[a] # Null => heads'[a] # Null
    BY <1>3, <1>4 DEF PathInv, Shaped
  <2> QED BY <1>6, <1>7, <2>1, <2>2 DEF Grows
<1>9. IsFiniteSet(Made')
  BY <1>6, FS_AddElement DEF PathInv, Shaped
<1>10. Shaped'
  <2>1. heads' \in [Branches -> Made' \cup {Null}]
    BY <1>3, <1>6 DEF PathInv, Shaped
  <2>2. /\ tree' = [c \in Commits |-> tree'[c]] /\ parents' = [c \in Commits |-> parents'[c]]
        /\ readset' = [q \in Sessions |-> readset'[q]] /\ call' = [q \in Sessions |-> call'[q]]
        /\ truth' = [q \in Sessions |-> truth'[q]]
    BY <1>3 DEF PathInv, Shaped
  <2> QED BY <1>9, <2>1, <2>2 DEF Shaped
<1>11. Trees'
  <2>1. ASSUME NEW c \in Made PROVE Labelled(tree'[c], Excused')
    <3>1. tree'[c] = tree[c] /\ Labelled(tree[c], Excused)
      BY <1>8 DEF Grows, PathInv, Trees
    <3>2. Labelled(tree[c], Excused')
      BY <1>7, <3>1 DEF Labelled
    <3> QED BY <3>1, <3>2
  <2>2. ASSUME NEW c \in Made PROVE WholeTree(tree'[c]) /\ Believed(tree'[c])
    BY <1>8 DEF Grows, PathInv, Trees
  <2> QED BY <1>5, <1>6, <2>1, <2>2 DEF Trees
<1>12. Named'
  <2> DEFINE h == heads[b]
  <2>0. h \in Made /\ h # n
    BY <1>2, <1>4
  <2>a. NamedOn(u, tree[h])
    BY <1>2
  <2>b. \A c \in Made : tree'[c] = tree[c]
    BY <1>8 DEF Grows
  <2> HIDE DEF h
  <2>1. ASSUME NEW k \in DOMAIN u.rec
        PROVE  /\ k \in DOMAIN u.latest
               /\ \/ u.latest[k] = <<n, k>>
                  \/ k \in DOMAIN tree[h].rec /\ u.latest[k] = tree[h].latest[k]
                     /\ u.from[k] = tree[h].from[k]
    BY <2>1, <2>a DEF NamedOn, n
  <2>2. ASSUME NEW c \in Made, NEW k \in DOMAIN tree[c].rec
        PROVE  /\ k \in DOMAIN tree[c].latest /\ tree[c].latest[k] # <<n, k>>
               /\ \E d \in Made : tree[c].latest[k] = <<d, k>>
    BY <1>4, <2>2 DEF PathInv, Named
  <2>3. ASSUME NEW c \in Made', NEW k \in DOMAIN tree'[c].rec
        PROVE  /\ k \in DOMAIN tree'[c].latest
               /\ \E d \in Made' : tree'[c].latest[k] = <<d, k>>
    <3>1. CASE c \in Made
      BY <1>6, <2>2, <2>3, <2>b, <3>1
    <3>2. CASE c = n
      BY <1>5, <1>6, <2>0, <2>1, <2>2, <2>3, <3>2
    <3> QED BY <1>6, <3>1, <3>2
  <2>4. ASSUME NEW c \in Made, NEW k \in DOMAIN tree[c].rec \cap DOMAIN u.rec,
               tree[c].latest[k] = u.latest[k]
        PROVE  tree[c].from[k] = u.from[k]
    <3>1. /\ k \in DOMAIN tree[h].rec /\ u.latest[k] = tree[h].latest[k]
          /\ u.from[k] = tree[h].from[k]
      BY <2>1, <2>2, <2>4
    <3> QED BY <2>0, <2>4, <3>1 DEF PathInv, Named
  <2>5. ASSUME NEW c \in Made', NEW d \in Made',
               NEW k \in DOMAIN tree'[c].rec \cap DOMAIN tree'[d].rec,
               tree'[c].latest[k] = tree'[d].latest[k]
        PROVE  tree'[c].from[k] = tree'[d].from[k]
    <3>1. CASE c \in Made /\ d \in Made
      BY <2>5, <2>b, <3>1 DEF PathInv, Named
    <3>2. CASE c \in Made /\ d = n
      BY <1>5, <2>4, <2>5, <2>b, <3>2
    <3>3. CASE c = n /\ d \in Made
      BY <1>5, <2>4, <2>5, <2>b, <3>3
    <3> QED BY <1>6, <3>1, <3>2, <3>3
  <2> QED BY <2>3, <2>5 DEF Named
<1>13. \A q \in Sessions \ {s} :
         call'[q] = call[q] /\ readset'[q] = readset[q] /\ truth'[q] = truth[q]
  BY DEF PathInv, Shaped
<1> QED BY <1>8, <1>10, <1>11, <1>12, <1>13, OneSession

-----------------------------------------------------------------------------
(* write_all. *)

\* The nodes that wrote the records last, the labels of the index entries, the
\* histories, and the slots taken.
NewIds(w) == [k \in NodeKeys(w) |-> NewNodes(w)[k].id]

Labels(w) == [k \in w.hinted |-> MostRestrictive(w.captured.label, OwnTrust(w.recs[k]))]

Histories(t, w) ==
  [k \in Claims |-> IF k \in DOMAIN w.recs THEN Versions(t.hist[k], w.recs[k], w.times[k])
                    ELSE t.hist[k]]

Taken(t, w) == UNION {SlotsOf(w, t.seq[w.branch], k) : k \in NodeKeys(w)}

\* The parts of the tree that the invariant is about.
LEMMA WrittenParts ==
  ASSUME NEW t, NEW w
  PROVE  /\ Written(t, w).rec = Overlay(t.rec, w.recs)
         /\ Written(t, w).from = Overlay(t.from, w.from)
         /\ Written(t, w).latest = Overlay(t.latest, NewIds(w))
         /\ Written(t, w).idx = Overlay(t.idx, Labels(w))
         /\ Written(t, w).hist = Histories(t, w)
  BY DEF Written, NewIds, Labels, Histories

\* It has its nine parts, and nodes in the slots it had, the carried and the new.
LEMMA WrittenWhole ==
  ASSUME NEW t, NEW w, NEW u, u = Written(t, w)
  PROVE  /\ u = [rec |-> u.rec, merged |-> u.merged, prov |-> u.prov, cites |-> u.cites,
                 latest |-> u.latest, seq |-> u.seq, idx |-> u.idx, hist |-> u.hist,
                 from |-> u.from]
         /\ DOMAIN u.prov = (DOMAIN t.prov \cup DOMAIN w.merge.prov) \cup Taken(t, w)
<1>1. PICK rec, merged, prov, cites, latest, seq, idx, hist, from :
        u = [rec |-> rec, merged |-> merged, prov |-> prov, cites |-> cites,
             latest |-> latest, seq |-> seq, idx |-> idx, hist |-> hist, from |-> from]
  BY DEF Written
<1>2. PICK new :
        /\ DOMAIN new = Taken(t, w) /\ u.prov = Overlay(Overlay(t.prov, w.merge.prov), new)
  BY DEF Written, Taken
<1>3. DOMAIN u.prov = (DOMAIN t.prov \cup DOMAIN w.merge.prov) \cup DOMAIN new
  BY <1>2 DEF Overlay
<1> QED BY <1>1, <1>2, <1>3

\* A write's nodes take finitely many slots.
LEMMA SlotsFinite ==
  ASSUME NEW w, NEW excused, Writing(w, excused), NEW t
  PROVE  IsFiniteSet(Taken(t, w))
<1> DEFINE seq == t.seq[w.branch]
<1>0. Taken(t, w) = UNION {SlotsOf(w, seq, k) : k \in NodeKeys(w)}
  BY DEF Taken
<1> HIDE DEF seq
<1>1. IsFiniteSet(NodeKeys(w))
  BY FS_EmptySet, FS_Singleton, FS_Union DEF Writing, NodeKeys
<1>2. ASSUME NEW k \in NodeKeys(w) PROVE IsFiniteSet(SlotsOf(w, seq, k))
  <2>1. Times(w)[k] \in Nat
    BY <1>2 DEF Writing, NodeKeys, Times
  <2> DEFINE last == Times(w)[k] - 1
  <2>2. IsFiniteSet(0 .. last)
    <3>1. last \in Int
      BY <2>1
    <3> HIDE DEF last
    <3> QED BY <3>1, FS_Interval
  <2> HIDE DEF last
  <2>3. \E first : SlotsOf(w, seq, k) = {<<w.branch, first + i>> : i \in 0 .. last}
    BY DEF SlotsOf, last
  <2>4. PICK first : SlotsOf(w, seq, k) = {<<w.branch, first + i>> : i \in 0 .. last}
    BY <2>3
  <2> DEFINE f == [i \in 0 .. last |-> <<w.branch, first + i>>]
  <2>5. IsFiniteSet({f[i] : i \in 0 .. last})
    <3>1. DOMAIN f = 0 .. last
      OBVIOUS
    <3> HIDE DEF f
    <3> QED BY <2>2, <3>1, FiniteImage
  <2>6. {f[i] : i \in 0 .. last} = SlotsOf(w, seq, k)
    BY <2>4
  <2> QED BY <2>5, <2>6
<1> DEFINE g == [k \in NodeKeys(w) |-> SlotsOf(w, seq, k)]
<1>3. IsFiniteSet({g[k] : k \in NodeKeys(w)})
  <2>1. DOMAIN g = NodeKeys(w)
    OBVIOUS
  <2> HIDE DEF g
  <2> QED BY <1>1, <2>1, FiniteImage
<1>4. {g[k] : k \in NodeKeys(w)} = {SlotsOf(w, seq, k) : k \in NodeKeys(w)}
  OBVIOUS
<1>5. \A slots \in {SlotsOf(w, seq, k) : k \in NodeKeys(w)} : IsFiniteSet(slots)
  BY <1>2
<1> QED BY <1>0, <1>3, <1>4, <1>5, FS_UNION

\* The histories of the claims written are longer by the versions written.
LEMMA WrittenHistory ==
  ASSUME NEW t, WholeTree(t), NEW w, NEW excused, Writing(w, excused),
         NEW k \in DOMAIN w.recs \cap Claims
  PROVE  Lengthened(Written(t, w).hist[k], t.hist[k], w.recs[k], w.times[k])
<1>1. Written(t, w).hist[k] = Versions(t.hist[k], w.recs[k], w.times[k])
  <2>1. Written(t, w).hist = Histories(t, w)
    BY WrittenParts
  <2> QED BY <2>1 DEF Histories
<1>2. /\ t.hist[k] \in Seq(Version) /\ w.times[k] \in Nat \ {0}
      /\ w.recs[k].start \in Nat /\ w.recs[k].status \in Statuses
  BY DEF WholeTree, Writing, Standing
<1> QED BY <1>1, <1>2, VersionsIs

\* A good tree stays one when a good write is put on it.
LEMMA WrittenGood ==
  ASSUME NEW t, WholeTree(t), Labelled(t, Excused), Believed(t),
         \A k \in DOMAIN t.rec : k \in DOMAIN t.latest,
         NEW w, Writing(w, Excused), Excused \subseteq Excused',
         \A k \in DOMAIN w.recs \ w.hinted : w.from[k] \subseteq Excused'
  PROVE  LET u == Written(t, w)
         IN  WholeTree(u) /\ Labelled(u, Excused') /\ Believed(u) /\ NamedOn(u, t)
<1> DEFINE u == Written(t, w)
           new == NewIds(w)
           labels == Labels(w)
<1>0. Excused \subseteq Excused'
  OBVIOUS
<1>a. u.rec = Overlay(t.rec, w.recs) /\ u.from = Overlay(t.from, w.from)
  BY WrittenParts
<1>b. u.latest = Overlay(t.latest, new)
  BY WrittenParts
<1>c. u.idx = Overlay(t.idx, labels)
  BY WrittenParts
<1>d. /\ \A k \in Claims \ DOMAIN w.recs : u.hist[k] = t.hist[k]
      /\ u.hist = [k \in Claims |-> u.hist[k]]
  <2>1. u.hist = Histories(t, w)
    BY WrittenParts
  <2> HIDE DEF u
  <2> QED BY <2>1 DEF Histories
<1>e. \A k \in DOMAIN w.recs \cap Claims :
        Lengthened(u.hist[k], t.hist[k], w.recs[k], w.times[k])
  BY WrittenHistory
<1>f. /\ u = [rec |-> u.rec, merged |-> u.merged, prov |-> u.prov, cites |-> u.cites,
              latest |-> u.latest, seq |-> u.seq, idx |-> u.idx, hist |-> u.hist,
              from |-> u.from]
      /\ DOMAIN u.prov = (DOMAIN t.prov \cup DOMAIN w.merge.prov) \cup Taken(t, w)
  <2> DEFINE it == Written(t, w)
  <2>1. it = Written(t, w)
    OBVIOUS
  <2> HIDE DEF it
  <2>2. /\ it = [rec |-> it.rec, merged |-> it.merged, prov |-> it.prov, cites |-> it.cites,
                 latest |-> it.latest, seq |-> it.seq, idx |-> it.idx, hist |-> it.hist,
                 from |-> it.from]
        /\ DOMAIN it.prov = (DOMAIN t.prov \cup DOMAIN w.merge.prov) \cup Taken(t, w)
    BY <2>1, WrittenWhole
  <2> QED BY <2>1, <2>2
<1>2. DOMAIN w.recs \subseteq Keys /\ w.hinted \subseteq DOMAIN w.recs /\ DOMAIN w.from = DOMAIN w.recs
  BY DEF Writing
<1>3. DOMAIN w.recs \subseteq NodeKeys(w) /\ NodeKeys(w) \cap Keys \subseteq DOMAIN w.recs
  BY ContentsAssumption DEF NodeKeys, Nothing
<1>4. \A k \in DOMAIN w.recs : new[k] = <<NewCommit, k>>
  BY <1>3 DEF NewIds, NewNodes, NewNode
<1>5. DOMAIN new = NodeKeys(w) /\ DOMAIN labels = w.hinted
  BY DEF NewIds, Labels
<1>6. \A k \in w.hinted : labels[k] = MostRestrictive(w.captured.label, OwnTrust(w.recs[k]))
  BY DEF Labels
<1> HIDE DEF new, labels
<1> HIDE DEF u
<1>7. /\ DOMAIN u.rec = DOMAIN t.rec \cup DOMAIN w.recs
      /\ \A k \in DOMAIN w.recs : u.rec[k] = w.recs[k] /\ u.from[k] = w.from[k]
      /\ \A k \in DOMAIN t.rec \ DOMAIN w.recs : u.rec[k] = t.rec[k]
      /\ DOMAIN u.from = DOMAIN t.from \cup DOMAIN w.recs
      /\ \A k \in DOMAIN t.from \ DOMAIN w.recs : u.from[k] = t.from[k]
  BY <1>2, <1>a DEF Overlay
<1>8. /\ DOMAIN u.latest = DOMAIN t.latest \cup NodeKeys(w)
      /\ \A k \in DOMAIN w.recs : u.latest[k] = <<NewCommit, k>>
      /\ \A k \in DOMAIN t.latest \ NodeKeys(w) : u.latest[k] = t.latest[k]
  BY <1>3, <1>4, <1>5, <1>b DEF Overlay
<1>9. /\ DOMAIN u.idx = DOMAIN t.idx \cup w.hinted
      /\ \A k \in w.hinted : u.idx[k] = labels[k]
      /\ \A k \in DOMAIN t.idx \ w.hinted : u.idx[k] = t.idx[k]
  BY <1>5, <1>c DEF Overlay
<1>11. IsFiniteSet(DOMAIN u.prov)
  <2>1. IsFiniteSet(Taken(t, w))
    BY SlotsFinite
  <2>2. IsFiniteSet(DOMAIN t.prov) /\ IsFiniteSet(DOMAIN w.merge.prov)
    BY DEF WholeTree, Writing
  <2>3. IsFiniteSet(DOMAIN t.prov \cup DOMAIN w.merge.prov)
    BY <2>2, FS_Union
  <2> QED BY <1>f, <2>1, <2>3, FS_Union
<1>13. WholeTree(u)
  <2>1. IsFiniteSet(DOMAIN u.rec) /\ DOMAIN u.rec \subseteq Keys
    <3>1. /\ IsFiniteSet(DOMAIN t.rec) /\ IsFiniteSet(DOMAIN w.recs)
          /\ DOMAIN t.rec \subseteq Keys
      BY DEF WholeTree, Writing
    <3>2. IsFiniteSet(DOMAIN t.rec \cup DOMAIN w.recs)
      BY <3>1, FS_Union
    <3> QED BY <1>2, <1>7, <3>1, <3>2
  <2>2. \A k \in DOMAIN u.rec : Standing(k, u.rec[k])
    BY <1>7 DEF WholeTree, Writing
  <2>3. DOMAIN u.latest \cap Keys \subseteq DOMAIN u.rec
    BY <1>3, <1>7, <1>8 DEF WholeTree
  <2>4. \A k \in Claims : u.hist[k] \in Seq(Version)
    BY <1>d, <1>e DEF WholeTree, Lengthened
  <2>5. u.hist \in [Claims -> Seq(Version)]
    BY <1>d, <2>4
  <2> QED BY <1>f, <1>11, <2>1, <2>2, <2>3, <2>5 DEF WholeTree
<1>14. NamedOn(u, t)
  <2> SUFFICES ASSUME NEW k \in DOMAIN u.rec
               PROVE  /\ k \in DOMAIN u.latest
                      /\ \/ u.latest[k] = <<NewCommit, k>>
                         \/ /\ k \in DOMAIN t.rec /\ u.latest[k] = t.latest[k]
                            /\ u.from[k] = t.from[k]
    BY DEF NamedOn
  <2>1. CASE k \in DOMAIN w.recs
    BY <1>3, <1>8, <2>1
  <2>2. CASE k \notin DOMAIN w.recs
    <3>1. k \in DOMAIN t.rec /\ k \in DOMAIN t.latest /\ k \in DOMAIN t.from /\ k \in Keys
      BY <1>7, <2>2 DEF Labelled, WholeTree
    <3>2. k \notin NodeKeys(w)
      BY <1>3, <2>2, <3>1
    <3> QED BY <1>7, <1>8, <2>2, <3>1, <3>2
  <2> QED BY <2>1, <2>2
<1>15. Labelled(u, Excused')
  <2>1. ASSUME NEW k \in DOMAIN u.rec
        PROVE  /\ k \in DOMAIN u.from /\ u.from[k] \subseteq Sources
               /\ \A src \in u.from[k] \ Excused' : k \in DOMAIN u.idx /\ u.idx[k] >= Trust[src]
    <3>1. CASE k \in w.hinted
      <4>1. u.from[k] = w.from[k] /\ u.idx[k] = labels[k] /\ k \in DOMAIN u.idx /\ k \in DOMAIN u.from
        BY <1>2, <1>7, <1>9, <3>1
      <4>2. w.from[k] \subseteq Sources
        BY <1>2, <3>1 DEF Writing
      <4>3. \A src \in w.from[k] \ Excused : labels[k] >= Trust[src]
        BY <1>6, <3>1 DEF Writing
      <4> QED BY <1>0, <4>1, <4>2, <4>3
    <3>2. CASE k \in DOMAIN w.recs \ w.hinted
      BY <1>2, <1>7, <3>2 DEF Writing
    <3>3. CASE k \notin DOMAIN w.recs
      <4>1. k \in DOMAIN t.rec /\ k \in DOMAIN t.from /\ k \notin w.hinted
        BY <1>2, <1>7, <2>1, <3>3 DEF Labelled
      <4>2. u.from[k] = t.from[k] /\ k \in DOMAIN u.from
        BY <1>7, <3>3, <4>1
      <4>3. \A src \in t.from[k] \ Excused : k \in DOMAIN t.idx /\ t.idx[k] >= Trust[src]
        BY <4>1 DEF Labelled
      <4>4. k \in DOMAIN t.idx => k \in DOMAIN u.idx /\ u.idx[k] = t.idx[k]
        BY <1>9, <4>1
      <4>5. t.from[k] \subseteq Sources
        BY <4>1 DEF Labelled
      <4> QED BY <1>0, <4>2, <4>3, <4>4, <4>5
    <3> QED BY <3>1, <3>2, <3>3
  <2>2. DOMAIN u.idx \subseteq DOMAIN u.rec
    BY <1>2, <1>7, <1>9 DEF Labelled
  <2>3. ASSUME NEW k \in DOMAIN u.idx PROVE u.idx[k] \in Nat
    <3>1. CASE k \in w.hinted
      <4>1. w.captured.label \in Nat /\ OwnTrust(w.recs[k]) \in Nat
        BY <1>2, <3>1, OwnTrustIs DEF Writing
      <4> QED BY <1>6, <1>9, <3>1, <4>1 DEF MostRestrictive
    <3>2. CASE k \notin w.hinted
      BY <1>9, <2>3, <3>2 DEF Labelled
    <3> QED BY <3>1, <3>2
  <2>4. DOMAIN u.from = DOMAIN u.rec
    BY <1>7 DEF Labelled
  <2> QED BY <2>1, <2>2, <2>3, <2>4 DEF Labelled
<1>16. Believed(u)
  <2> SUFFICES ASSUME NEW k \in DOMAIN u.rec \cap Claims,
                      NEW h, h = u.hist[k], NEW v, v = h[Len(h)]
               PROVE  /\ Len(h) > 0 /\ v.start = u.rec[k].start /\ v.end = Null
                      /\ u.rec[k].status # "invalidated" => v.status = u.rec[k].status
    BY DEF Believed
  <2>1. CASE k \in DOMAIN w.recs
    <3>1. /\ Lengthened(h, t.hist[k], w.recs[k], w.times[k]) /\ u.rec[k] = w.recs[k]
          /\ w.times[k] \in Nat \ {0} /\ t.hist[k] \in Seq(Version)
      BY <1>7, <1>e, <2>1 DEF WholeTree, Writing
    <3>2. Len(h) = Len(t.hist[k]) + w.times[k] /\ Len(t.hist[k]) \in Nat /\ v = LastOf(w.recs[k])
      BY <3>1 DEF Lengthened
    <3> QED BY <3>1, <3>2 DEF LastOf
  <2>2. CASE k \notin DOMAIN w.recs
    BY <1>7, <1>d, <2>2 DEF Believed
  <2> QED BY <2>1, <2>2
<1> QED BY <1>13, <1>14, <1>15, <1>16 DEF u

\* The end of a write: what it knew is in the tree, and what it puts in without
\* an index entry is excused.
LEMMA WriteAllKeeps ==
  ASSUME PathInv, NEW s \in Sessions, WriteAll(s)
  PROVE  PathInv'
<1> DEFINE w == call[s]
           b == w.branch
           t == Tree(b)
           u == Written(t, w)
           more == {w.merge.merged[a] : a \in DOMAIN w.merge.merged}
<1>1. /\ w.at = "writing" /\ Made # Commits
      /\ IF u = t THEN UNCHANGED <<heads, tree, parents>> ELSE Commit(b, u, more)
      /\ truth' = [truth EXCEPT ![s] = {}] /\ call' = [call EXCEPT ![s] = Free]
      /\ UNCHANGED readset
  BY DEF WriteAll
<1>2. /\ leaks \subseteq leaks'
      /\ unlabelled' = unlabelled \cup UNION {w.from[k] : k \in DOMAIN w.recs \ w.hinted}
  BY DEF WriteAll
<1>3. CallInv(s) /\ b \in Branches /\ heads[b] # Null /\ Writing(w, Excused)
  BY <1>1 DEF PathInv, CallInv
<1>4. /\ heads[b] \in Made /\ t = tree[heads[b]]
      /\ WholeTree(t) /\ Labelled(t, Excused) /\ Believed(t)
  BY <1>3, Finds
<1>5. \A k \in DOMAIN t.rec : k \in DOMAIN t.latest
  BY <1>4 DEF PathInv, Named
<1>6. unlabelled \subseteq unlabelled' /\ Excused \subseteq Excused'
  BY <1>2, ExcusedGrows
<1>7. \A k \in DOMAIN w.recs \ w.hinted : w.from[k] \subseteq Excused'
  BY <1>2 DEF Excused
<1>8. truth'[s] = {} /\ call'[s] = Free /\ readset'[s] = readset[s]
  BY <1>1 DEF PathInv, Shaped
<1>9. CallInv(s)'
  BY <1>3, <1>8 DEF CallInv, Covered, Reading, Free
<1> HIDE DEF w, t, b, more
<1>10. CASE u = t
  <2>1. UNCHANGED <<heads, tree, parents>>
    BY <1>1, <1>10
  <2>2. readset' = [readset EXCEPT ![s] = readset[s]]
    BY <1>1 DEF PathInv, Shaped
  <2> QED BY <1>1, <1>2, <1>6, <1>9, <2>1, <2>2, SessionOnly
<1>11. CASE u # t
  <2>1. Commit(b, u, more)
    BY <1>1, <1>11
  <2>2. WholeTree(u) /\ Labelled(u, Excused') /\ Believed(u) /\ NamedOn(u, t)
    BY <1>3, <1>4, <1>5, <1>6, <1>7, WrittenGood
  <2>3. NamedOn(u, Tree(b))
    BY <2>2 DEF t
  <2> HIDE DEF u
  <2> QED BY <1>1, <1>2, <1>3, <1>6, <1>9, <2>1, <2>2, <2>3, CommitKeeps
<1> QED BY <1>10, <1>11

-----------------------------------------------------------------------------
(* invalidate_and_deindex. *)

\* The claims that are withdrawn of the keys, and the tree that is left.
Withdrawn(t, keys) ==
  {k \in keys \cap DOMAIN t.rec :
     IsClaim(t.rec[k]) /\ t.rec[k].status \in {"asserted", "stale"}}

Deindexed(t, keys) ==
  [t EXCEPT !.idx = [k \in DOMAIN t.idx \ keys |-> t.idx[k]],
            !.rec = Overlay(t.rec, [k \in Withdrawn(t, keys) |->
                                      Claim(t.rec[k].start, "invalidated")])]

\* A good tree stays one: what loses its index entry is excused, and a withdrawn
\* claim has the start it had.
LEMMA DeindexedGood ==
  ASSUME NEW t, WholeTree(t), Labelled(t, Excused), Believed(t),
         \A k \in DOMAIN t.rec : k \in DOMAIN t.latest,
         NEW keys, Excused \subseteq Excused',
         \A k \in keys \cap DOMAIN t.idx : t.from[k] \subseteq Excused'
  PROVE  LET u == Deindexed(t, keys)
         IN  WholeTree(u) /\ Labelled(u, Excused') /\ Believed(u) /\ NamedOn(u, t)
<1> DEFINE u == Deindexed(t, keys)
           out == Withdrawn(t, keys)
           gone == [k \in out |-> Claim(t.rec[k].start, "invalidated")]
           idx == [k \in DOMAIN t.idx \ keys |-> t.idx[k]]
           rec == Overlay(t.rec, gone)
<1>0. Excused \subseteq Excused'
  OBVIOUS
<1>1. u = [t EXCEPT !.idx = idx, !.rec = rec]
  BY DEF Deindexed
<1>2. /\ out \subseteq DOMAIN t.rec
      /\ \A k \in out : IsClaim(t.rec[k])
  BY DEF Withdrawn
<1>3. DOMAIN idx = DOMAIN t.idx \ keys /\ \A k \in DOMAIN idx : idx[k] = t.idx[k]
  OBVIOUS
<1>4. /\ DOMAIN rec = DOMAIN t.rec
      /\ \A k \in out : rec[k] = Claim(t.rec[k].start, "invalidated")
      /\ \A k \in DOMAIN t.rec \ out : rec[k] = t.rec[k]
  BY <1>2 DEF Overlay
<1> HIDE DEF u, out, gone, idx, rec
<1>5. u = [rec |-> rec, merged |-> t.merged, prov |-> t.prov, cites |-> t.cites,
           latest |-> t.latest, seq |-> t.seq, idx |-> idx, hist |-> t.hist, from |-> t.from]
  BY <1>1 DEF WholeTree
<1>6. /\ u.rec = rec /\ u.idx = idx /\ u.latest = t.latest /\ u.hist = t.hist /\ u.from = t.from
      /\ u.prov = t.prov
      /\ u = [rec |-> u.rec, merged |-> u.merged, prov |-> u.prov, cites |-> u.cites,
              latest |-> u.latest, seq |-> u.seq, idx |-> u.idx, hist |-> u.hist, from |-> u.from]
  BY <1>5
<1>7. ASSUME NEW k \in out
      PROVE  k \in Claims /\ t.rec[k].start \in Nat /\ Standing(k, t.rec[k])
  <2>1. Standing(k, t.rec[k]) /\ IsClaim(t.rec[k])
    BY <1>2, <1>7 DEF WholeTree
  <2> QED BY <2>1 DEF Standing, IsClaim
<1>8. WholeTree(u)
  <2>1. \A k \in DOMAIN rec : Standing(k, rec[k])
    <3> TAKE k \in DOMAIN rec
    <3>1. CASE k \in out
      <4>1. k \in Claims /\ t.rec[k].start \in Nat /\ rec[k] = Claim(t.rec[k].start, "invalidated")
        BY <1>4, <1>7, <3>1
      <4> QED BY <4>1 DEF Standing, Claim, Statuses
    <3>2. CASE k \notin out
      BY <1>4, <3>2 DEF WholeTree
    <3> QED BY <3>1, <3>2
  <2>2. /\ DOMAIN t.rec \subseteq Keys /\ IsFiniteSet(DOMAIN t.rec) /\ IsFiniteSet(DOMAIN t.prov)
        /\ DOMAIN t.latest \cap Keys \subseteq DOMAIN t.rec
        /\ t.hist \in [Claims -> Seq(Version)]
    BY DEF WholeTree
  <2> QED BY <1>4, <1>6, <2>1, <2>2 DEF WholeTree
<1>9. Labelled(u, Excused')
  <2>1. ASSUME NEW k \in DOMAIN t.rec
        PROVE  /\ k \in DOMAIN t.from /\ t.from[k] \subseteq Sources
               /\ \A src \in t.from[k] \ Excused' : k \in DOMAIN idx /\ idx[k] >= Trust[src]
    <3>1. /\ k \in DOMAIN t.from /\ t.from[k] \subseteq Sources
          /\ \A src \in t.from[k] \ Excused : k \in DOMAIN t.idx /\ t.idx[k] >= Trust[src]
      BY <2>1 DEF Labelled
    <3> QED BY <1>0, <1>3, <3>1
  <2>2. DOMAIN idx \subseteq DOMAIN t.rec /\ \A k \in DOMAIN idx : idx[k] \in Nat
    BY <1>3 DEF Labelled
  <2>3. DOMAIN t.from = DOMAIN rec
    BY <1>4 DEF Labelled
  <2> QED BY <1>4, <1>6, <2>1, <2>2, <2>3 DEF Labelled
<1>10. Believed(u)
  <2> SUFFICES ASSUME NEW k \in DOMAIN t.rec \cap Claims,
                      NEW h, h = t.hist[k], NEW v, v = h[Len(h)]
               PROVE  /\ Len(h) > 0 /\ v.start = rec[k].start /\ v.end = Null
                      /\ rec[k].status # "invalidated" => v.status = rec[k].status
    BY <1>4, <1>6 DEF Believed
  <2>1. /\ Len(h) > 0 /\ v.start = t.rec[k].start /\ v.end = Null
        /\ t.rec[k].status # "invalidated" => v.status = t.rec[k].status
    BY DEF Believed
  <2>2. CASE k \in out
    <3>1. rec[k] = Claim(t.rec[k].start, "invalidated")
      BY <1>4, <2>2
    <3> QED BY <2>1, <3>1 DEF Claim
  <2>3. CASE k \notin out
    BY <1>4, <2>1, <2>3
  <2> QED BY <2>2, <2>3
<1>11. NamedOn(u, t)
  BY <1>4, <1>6 DEF NamedOn
<1> QED BY <1>8, <1>9, <1>10, <1>11 DEF u

LEMMA DeindexKeeps ==
  ASSUME PathInv, NEW s \in Sessions, InvalidateAndDeindex(s)
  PROVE  PathInv'
<1> DEFINE b == call[s].branch
           t == Tree(b)
           keys == call[s].keys
           u == Deindexed(t, keys)
<1>1. /\ call[s].at = "forgetting" /\ Made # Commits
      /\ IF u = t THEN UNCHANGED <<heads, tree, parents>> ELSE Commit(b, u, {})
      /\ unlabelled' = unlabelled \cup UNION {t.from[k] : k \in keys \cap DOMAIN t.idx}
      /\ call' = [call EXCEPT ![s] = Free]
      /\ UNCHANGED <<readset, truth, leaks>>
  BY DEF InvalidateAndDeindex, Deindexed, Withdrawn
<1>2. CallInv(s) /\ b \in Branches /\ heads[b] # Null
  BY <1>1 DEF PathInv, CallInv
<1>3. /\ heads[b] \in Made /\ t = tree[heads[b]]
      /\ WholeTree(t) /\ Labelled(t, Excused) /\ Believed(t)
  BY <1>2, Finds
<1>4. \A k \in DOMAIN t.rec : k \in DOMAIN t.latest
  BY <1>3 DEF PathInv, Named
<1>5. /\ leaks \subseteq leaks' /\ unlabelled \subseteq unlabelled' /\ Excused \subseteq Excused'
  BY <1>1, ExcusedGrows
<1>6. \A k \in keys \cap DOMAIN t.idx : t.from[k] \subseteq Excused'
  BY <1>1 DEF Excused
<1>7. call'[s] = Free /\ readset'[s] = readset[s] /\ truth'[s] = truth[s]
  BY <1>1 DEF PathInv, Shaped
<1>8. CallInv(s)'
  BY <1>1, <1>2, <1>5, <1>7 DEF CallInv, Covered, Reading, Free
<1>9. truth' = [truth EXCEPT ![s] = truth[s]] /\ readset' = [readset EXCEPT ![s] = readset[s]]
  BY <1>1 DEF PathInv, Shaped
<1> HIDE DEF b, t, keys
<1>10. CASE u = t
  <2>1. UNCHANGED <<heads, tree, parents>>
    BY <1>1, <1>10
  <2> QED BY <1>1, <1>5, <1>8, <1>9, <2>1, SessionOnly
<1>11. CASE u # t
  <2>1. Commit(b, u, {})
    BY <1>1, <1>11
  <2>2. WholeTree(u) /\ Labelled(u, Excused') /\ Believed(u) /\ NamedOn(u, t)
    BY <1>3, <1>4, <1>5, <1>6, DeindexedGood
  <2>3. NamedOn(u, Tree(b))
    BY <2>2 DEF t
  <2> HIDE DEF u
  <2> QED BY <1>1, <1>2, <1>5, <1>8, <1>9, <2>1, <2>2, <2>3, CommitKeeps
<1> QED BY <1>10, <1>11

-----------------------------------------------------------------------------
(* The invariant. *)

LEMMA PathInit == Init => PathInv
<1> SUFFICES ASSUME Init PROVE PathInv
  OBVIOUS
<1>1. Made = {RootCommit}
  BY WritePathAssumption DEF Init, Made
<1>2. \A c \in Made : tree[c] = EmptyTree
  BY <1>1, WritePathAssumption DEF Init
<1>3. Shaped
  <2>1. heads \in [Branches -> Made \cup {Null}]
    BY <1>1 DEF Init
  <2>2. IsFiniteSet(Made)
    BY <1>1, FS_Singleton
  <2> QED BY <2>1, <2>2 DEF Init, Shaped
<1>4. DOMAIN EmptyTree.rec = {} /\ DOMAIN EmptyTree.idx = {} /\ DOMAIN EmptyTree.from = {}
  BY DEF EmptyTree, Nothing
<1>5. Named
  BY <1>2, <1>4 DEF Named
<1>6. WholeTree(EmptyTree)
  <2>1. /\ DOMAIN EmptyTree.prov = {} /\ DOMAIN EmptyTree.latest = {}
        /\ EmptyTree.hist = [k \in Claims |-> <<>>]
    BY DEF EmptyTree, Nothing
  <2>2. EmptyTree.hist \in [Claims -> Seq(Version)]
    BY <2>1
  <2>3. EmptyTree = [rec |-> EmptyTree.rec, merged |-> EmptyTree.merged,
                     prov |-> EmptyTree.prov, cites |-> EmptyTree.cites,
                     latest |-> EmptyTree.latest, seq |-> EmptyTree.seq,
                     idx |-> EmptyTree.idx, hist |-> EmptyTree.hist, from |-> EmptyTree.from]
    BY DEF EmptyTree
  <2> QED BY <1>4, <2>1, <2>2, <2>3, FS_EmptySet DEF WholeTree
<1>7. Trees
  BY <1>2, <1>4, <1>6 DEF Trees, Labelled, Believed
<1>8. \A s \in Sessions : CallInv(s)
  BY DEF Init, CallInv, Covered, Reading, Free, NoReads
<1> QED BY <1>3, <1>5, <1>7, <1>8 DEF PathInv

LEMMA PathNext == PathInv /\ [Next]_vars => PathInv'
<1> SUFFICES ASSUME PathInv, [Next]_vars PROVE PathInv'
  OBVIOUS
<1>1. ASSUME NEW b \in Branches, NEW from \in Branches, Fork(b, from) PROVE PathInv'
  <2>1. /\ heads[from] \in Made /\ heads' = [heads EXCEPT ![b] = heads[from]]
        /\ UNCHANGED <<tree, parents, readset, call, truth, leaks, unlabelled>>
    BY <1>1 DEF Fork, PathInv, Shaped
  <2> QED BY <2>1, HeadsOnly
<1>2. ASSUME NEW s \in Sessions, NEW b \in Branches, NEW k \in Keys, Read(s, b, k) PROVE PathInv'
  BY <1>2, ReadKeeps
<1>3. ASSUME NEW s \in Sessions, NEW b \in Branches, NEW hint \in Hints,
             NEW k \in Observations \cap Writes[s], NEW src \in Sources,
             StartWrite(s, b, k, Observation(src), hint)
      PROVE  PathInv'
  <2>1. k \in Keys /\ k \notin Claims /\ hint \in BOOLEAN
    BY ContentsAssumption, WritePathAssumption DEF Keys
  <2>2. Standing(k, Observation(src))
    BY <2>1 DEF Standing, Observation
  <2> QED BY <1>3, <2>1, <2>2, WriteKeeps
<1>4. ASSUME NEW s \in Sessions, NEW b \in Branches, NEW hint \in Hints,
             NEW k \in Claims \cap Writes[s], StartWrite(s, b, k, Claim(Now, "asserted"), hint)
      PROVE  PathInv'
  <2>1. Now \in Nat
    BY FS_CardinalityType DEF Now, PathInv, Shaped
  <2>2. Standing(k, Claim(Now, "asserted")) /\ k \in Keys /\ hint \in BOOLEAN
    BY <2>1, WritePathAssumption DEF Standing, Claim, Statuses, Keys
  <2> QED BY <1>4, <2>2, WriteKeeps
<1>5. ASSUME NEW s \in Sessions, NEW b \in Branches, NEW src \in Sources,
             StartMarkStale(s, b, src) \/ StartForget(s, b, src)
      PROVE  PathInv'
  BY <1>5, MarkStaleKeeps, ForgetKeeps
<1>6. ASSUME NEW s \in Sessions, NEW b \in Branches, NEW to \in Branches, NEW answer \in Answers,
             StartMerge(s, b, to, answer)
      PROVE  PathInv'
  BY <1>6, MergeKeeps
<1>7. ASSUME NEW s \in Sessions, NEW b \in Branches, NEW c \in Made, Rewind(s, b, c)
      PROVE  PathInv'
  <2>1. /\ heads' = [heads EXCEPT ![b] = c]
        /\ UNCHANGED <<tree, parents, readset, call, truth, leaks, unlabelled>>
    BY <1>7 DEF Rewind
  <2> QED BY <2>1, HeadsOnly
<1>8. ASSUME NEW s \in Sessions,
             \/ CaptureNode(s) \/ CaptureLabel(s) \/ LookUpSides(s)
             \/ WriteAll(s) \/ WriteErr(s) \/ InvalidateAndDeindex(s)
      PROVE  PathInv'
  BY <1>8, CaptureNodeKeeps, CaptureLabelKeeps, LookUpKeeps, WriteAllKeeps, ErrKeeps, DeindexKeeps
<1>9. CASE UNCHANGED vars
  <2>1. /\ UNCHANGED <<heads, tree, parents, readset, call, truth>>
        /\ leaks' = leaks /\ unlabelled' = unlabelled
    BY <1>9 DEF vars
  <2>2. Made' = Made /\ Named' /\ Trees'
    BY <2>1, TreesKeep, ExcusedGrows
  <2>3. Grows /\ Shaped'
    BY <2>1, <2>2, ExcusedGrows DEF Grows, Shaped, PathInv
  <2>4. \A q \in Sessions : CallInv(q)'
    BY <2>1, <2>3, CallKeeps DEF PathInv
  <2> QED BY <2>2, <2>3, <2>4 DEF PathInv
<1>10. CASE Next
  <2>1. CASE \E b, from \in Branches : Fork(b, from)
    BY <1>1, <2>1
  <2>2. ASSUME NEW s \in Sessions, NEW b \in Branches,
               \/ \E k \in Keys : Read(s, b, k)
               \/ \E hint \in Hints :
                    \/ \E k \in Observations \cap Writes[s], src \in Sources :
                         StartWrite(s, b, k, Observation(src), hint)
                    \/ \E k \in Claims \cap Writes[s] :
                         StartWrite(s, b, k, Claim(Now, "asserted"), hint)
               \/ \E src \in Sources : StartMarkStale(s, b, src) \/ StartForget(s, b, src)
               \/ \E to \in Branches, answer \in Answers : StartMerge(s, b, to, answer)
               \/ \E c \in Made : Rewind(s, b, c)
        PROVE  PathInv'
    BY <1>2, <1>3, <1>4, <1>5, <1>6, <1>7, <2>2
  <2> QED BY <1>8, <1>10, <2>1, <2>2 DEF Next
<1> QED BY <1>9, <1>10

\* In every reachable state the trees are whole, labelled and believed, and what
\* a session is doing fits them.
LEMMA PathAlways == Spec => []PathInv
<1> QED BY PathInit, PathNext, PTL DEF Spec

-----------------------------------------------------------------------------
(* Versions across a step. *)

\* A head that comes to a commit not made before does so by a commit.
LEMMA HeadFrom ==
  ASSUME PathInv, [Next]_vars, NEW b \in Branches, heads[b] # Null, heads'[b] \notin Made
  PROVE  \E s \in Sessions :
           (WriteAll(s) \/ InvalidateAndDeindex(s))
<1>1. heads[b] \in Made /\ heads' # heads
  BY DEF PathInv, Shaped
<1>2. ASSUME NEW a \in Branches, NEW from \in Branches, Fork(a, from) PROVE FALSE
  BY <1>2 DEF Fork, PathInv, Shaped
<1>3. ASSUME NEW s \in Sessions, NEW a \in Branches, NEW c \in Made, Rewind(s, a, c) PROVE FALSE
  BY <1>3 DEF Rewind, PathInv, Shaped
<1>4. ASSUME NEW s \in Sessions, NEW a \in Branches, NEW k, Read(s, a, k) PROVE FALSE
  BY <1>1, <1>4 DEF Read
<1>5. ASSUME NEW s \in Sessions, NEW a \in Branches, NEW k, NEW r, NEW hint, StartWrite(s, a, k, r, hint)
      PROVE  FALSE
  BY <1>1, <1>5 DEF StartWrite
<1>6. ASSUME NEW s \in Sessions, NEW a \in Branches, NEW src,
             StartMarkStale(s, a, src) \/ StartForget(s, a, src)
      PROVE  FALSE
  BY <1>1, <1>6 DEF StartMarkStale, StartForget
<1>7. ASSUME NEW s \in Sessions, NEW a \in Branches, NEW to, NEW answer, StartMerge(s, a, to, answer)
      PROVE  FALSE
  BY <1>1, <1>7 DEF StartMerge
<1>8. ASSUME NEW s \in Sessions,
             CaptureNode(s) \/ CaptureLabel(s) \/ LookUpSides(s) \/ WriteErr(s)
      PROVE  FALSE
  BY <1>1, <1>8 DEF CaptureNode, CaptureLabel, LookUpSides, WriteErr
<1>9. ~ UNCHANGED vars
  BY <1>1 DEF vars
<1> QED BY <1>1, <1>2, <1>3, <1>4, <1>5, <1>6, <1>7, <1>8, <1>9 DEF Next

\* And its tree is the one the commit was made with.
LEMMA HeadTree ==
  ASSUME PathInv, NEW a \in Branches, Made # Commits, NEW u, NEW more, Commit(a, u, more),
         NEW b \in Branches, heads[b] # Null, heads'[b] \notin Made
  PROVE  b = a /\ tree'[heads'[b]] = u
<1>1. NewCommit \in Commits
  BY FreshCommit
<1>2. heads[b] \in Made /\ heads' = [heads EXCEPT ![a] = NewCommit]
      /\ tree' = [tree EXCEPT ![NewCommit] = u]
  BY DEF PathInv, Shaped, Commit
<1>3. b = a /\ heads'[b] = NewCommit
  BY <1>2 DEF PathInv, Shaped
<1> QED BY <1>1, <1>2, <1>3 DEF PathInv, Shaped

\* What a write does to the history of a claim.
LEMMA WritesPast ==
  ASSUME PathInv, NEW s \in Sessions, WriteAll(s), NEW b \in Branches, heads[b] # Null,
         heads'[b] \notin Made, NEW k \in Claims,
         NEW was, was = Tree(b).hist[k], NEW is, is = tree'[heads'[b]].hist[k], is # was,
         NEW at \in 0 .. is[Len(is)].start - 1
  PROVE  AsOf(is, at) = AsOf(was, at)
<1> DEFINE w == call[s]
           t == Tree(w.branch)
           u == Written(t, w)
           more == {w.merge.merged[a] : a \in DOMAIN w.merge.merged}
<1>1. /\ w.at = "writing" /\ Made # Commits
      /\ IF u = t THEN UNCHANGED <<heads, tree, parents>> ELSE Commit(w.branch, u, more)
  BY DEF WriteAll
<1>2. heads[b] \in Made
  BY DEF PathInv, Shaped
<1>3. w.branch \in Branches /\ heads[w.branch] # Null /\ Writing(w, Excused)
  BY <1>1 DEF PathInv, CallInv
<1>4. WholeTree(t)
  BY <1>3, Finds
<1> HIDE DEF more
<1>5. Commit(w.branch, u, more)
  BY <1>1, <1>2
<1> HIDE DEF u
<1>6. b = w.branch /\ tree'[heads'[b]] = u
  BY <1>1, <1>3, <1>5, HeadTree
<1>7. was = t.hist[k] /\ is = u.hist[k]
  BY <1>6
<1> HIDE DEF w, t
<1>8. k \in DOMAIN w.recs
  <2> SUFFICES ASSUME k \notin DOMAIN w.recs PROVE FALSE
    OBVIOUS
  <2>1. u.hist = Histories(t, w)
    BY WrittenParts DEF u
  <2>2. u.hist[k] = t.hist[k]
    BY <2>1 DEF Histories
  <2> QED BY <1>7, <2>2
<1>9. Lengthened(is, was, w.recs[k], w.times[k])
  BY <1>3, <1>4, <1>7, <1>8, WrittenHistory DEF u
<1>10. /\ was \in Seq(Version) /\ w.recs[k].start \in Nat /\ w.times[k] \in Nat
  BY <1>3, <1>4, <1>7, <1>8 DEF WholeTree, Writing, Standing
<1>11. is[Len(is)].start = w.recs[k].start
  BY <1>9 DEF Lengthened, LastOf
<1> QED BY <1>9, <1>10, <1>11, PastStays

\* Forgetting leaves the histories as they are.
LEMMA ForgetsNoPast ==
  ASSUME PathInv, NEW s \in Sessions, InvalidateAndDeindex(s), NEW b \in Branches,
         heads[b] # Null, heads'[b] \notin Made
  PROVE  tree'[heads'[b]].hist = Tree(b).hist
<1> DEFINE a == call[s].branch
           t == Tree(a)
           u == Deindexed(t, call[s].keys)
<1>1. /\ call[s].at = "forgetting" /\ Made # Commits
      /\ IF u = t THEN UNCHANGED <<heads, tree, parents>> ELSE Commit(a, u, {})
  BY DEF InvalidateAndDeindex, Deindexed, Withdrawn
<1>2. heads[b] \in Made
  BY DEF PathInv, Shaped
<1>3. a \in Branches /\ heads[a] # Null
  BY <1>1 DEF PathInv, CallInv
<1>4. WholeTree(t)
  BY <1>3, Finds
<1>5. Commit(a, u, {})
  BY <1>1, <1>2
<1>6. u.hist = t.hist
  <2> HIDE DEF t
  <2> QED BY <1>4 DEF WholeTree, Deindexed
<1> HIDE DEF u
<1>7. b = a /\ tree'[heads'[b]] = u
  BY <1>1, <1>3, <1>5, HeadTree
<1> QED BY <1>6, <1>7

LEMMA PastStep ==
  ASSUME PathInv, [Next]_vars, NEW b \in Branches, NEW k \in Claims,
         heads[b] # Null, heads'[b] \notin Made,
         NEW was, was = Tree(b).hist[k], NEW is, is = tree'[heads'[b]].hist[k], is # was,
         NEW at \in 0 .. is[Len(is)].start - 1
  PROVE  AsOf(is, at) = AsOf(was, at)
<1>1. PICK s \in Sessions : WriteAll(s) \/ InvalidateAndDeindex(s)
  BY HeadFrom
<1>2. CASE WriteAll(s)
  BY <1>2, WritesPast
<1>3. CASE InvalidateAndDeindex(s)
  BY <1>3, ForgetsNoPast
<1> QED BY <1>1, <1>2, <1>3

-----------------------------------------------------------------------------

\* AT-035: the label a commit's index entry has is as restricted as every source
\* that went into the record, whatever sessions write between a read, the two
\* lookups of capture_read (node_for_key, index_entry_for) and write_all.  Excepted
\* by name: the sources that got past a read-set, those written without an index
\* hint or whose entry was forgotten, and those read at a key whose node had changed
\* when its label was looked up.
THEOREM LabelsSurvive == Spec => []LabelsInherited
<1>1. PathInv => LabelsInherited
  <2> SUFFICES ASSUME PathInv, NEW b \in Branches, heads[b] # Null,
                      NEW k \in DOMAIN Tree(b).idx,
                      NEW src \in Tree(b).from[k] \ (Leaked(Ways) \cup unlabelled)
               PROVE  Tree(b).idx[k] >= Trust[src]
    BY DEF LabelsInherited
  <2>1. Labelled(Tree(b), Excused)
    BY Finds
  <2> QED BY <2>1 DEF Labelled, Excused
<1> QED BY <1>1, PathAlways, PTL

\* A claim and the open version of its history (append_claim_version) are one
\* belief in every commit write_all, mark_stale, merge and forget make.
THEOREM BeliefsAgree == Spec => []BeliefAgrees
<1>1. PathInv => BeliefAgrees
  BY DEF PathInv, Trees, Believed, BeliefAgrees
<1> QED BY <1>1, PathAlways, PTL

\* AT-005: a commit leaves what was believed before the start of the claim it
\* appends as it was: append_claim_version closes versions and never rewrites
\* when they began.
THEOREM PastStaysFixed == Spec => PastFixed
<1>1. PathInv /\ [Next]_vars =>
        [\A b \in Branches, k \in Claims :
           LET was == Tree(b).hist[k]
               is  == tree'[heads'[b]].hist[k]
           IN  heads[b] # Null /\ heads'[b] \notin Made /\ is # was =>
                 \A at \in 0 .. is[Len(is)].start - 1 : AsOf(is, at) = AsOf(was, at)]_vars
  BY PastStep
<1> QED BY <1>1, PathAlways, PTL DEF Spec, PastFixed

-----------------------------------------------------------------------------
(* Taint: what the derivation nodes of a commit say of its records. *)

\* The sources that got past a read-set.
Slipped == Leaked(Ways)

\* For the id of each node that may have written a record, the sources that went
\* into the record.
Origins ==
  [p \in {q \in Made \X Keys : q[2] \in DOMAIN tree[q[1]].from} |-> tree[p[1]].from[p[2]]]

AllNodes == UNION {Nodes(tree[c]) : c \in Made}

\* A node of a record has a parent, or a source of its own, for each source that
\* went into the record; and none for what did not.
SoundNode(n, origins, slipped) ==
  /\ n.id \in NodeIds /\ n.key = n.id[2] /\ n.sources \subseteq Sources
  /\ \A p \in n.parents : p \in DOMAIN origins /\ p[1] < n.id[1]
  /\ n.key \in Keys =>
       /\ n.id \in DOMAIN origins /\ n.sources \subseteq origins[n.id]
       /\ \A p \in n.parents : origins[p] \ slipped \subseteq origins[n.id]
       /\ \A src \in origins[n.id] \ slipped :
            src \in n.sources \/ \E p \in n.parents : src \in origins[p]

Indexes(prov, cites) ==
  /\ DOMAIN prov \subseteq Slots /\ DOMAIN cites \subseteq Sources \X Slots
  /\ \A y \in DOMAIN cites : cites[y] \in NodeIds

\* What is at the slots is what the source index says.
Matched(prov, cites, but) ==
  /\ \A x \in DOMAIN prov : \A src \in prov[x].sources \ but :
       <<src, x>> \in DOMAIN cites /\ cites[<<src, x>>] = prov[x].id
  /\ \A y \in DOMAIN cites : y[1] \notin but =>
       y[2] \in DOMAIN prov /\ y[1] \in prov[y[2]].sources

Held(t, p) == \E n \in Nodes(t) : n.id = p

\* The parent a source came by is in the same tree.
Linked(t, origins, slipped) ==
  \A n \in Nodes(t) : n.key \in Keys =>
    \A p \in n.parents : \A src \in (origins[p] \cap origins[n.id]) \ slipped : Held(t, p)

\* So is the node that wrote a record last.
Headed(t, origins, slipped) ==
  \A k \in DOMAIN t.rec :
    /\ t.latest[k] \in DOMAIN origins /\ t.latest[k][2] = k /\ origins[t.latest[k]] = t.from[k]
    /\ \A src \in t.from[k] \ slipped : Held(t, t.latest[k])
    /\ k \in Observations => t.rec[k].source \in t.from[k]

\* A branch's slots are filled up to its counter.
Filled(t) ==
  /\ t.seq \in [Branches -> Nat]
  /\ \A b \in Branches : \A n \in 0 .. t.seq[b] - 1 : <<b, n>> \in DOMAIN t.prov

SoundTree(t, origins, slipped) ==
  /\ \A n \in Nodes(t) : SoundNode(n, origins, slipped)
  /\ Indexes(t.prov, t.cites) /\ Matched(t.prov, t.cites, slipped)
  /\ Linked(t, origins, slipped) /\ Headed(t, origins, slipped)
  /\ Filled(t) /\ DOMAIN t.merged \subseteq Branches

\* An id is one node's, and of a commit made.
OneNode ==
  /\ \A n, m \in AllNodes : n.id = m.id => n = m
  /\ \A n \in AllNodes : n.id[1] \in Made

\* Commits are made in order, upon commits made.
Ordered ==
  /\ \A c \in Made, d \in Commits \ Made : c < d
  /\ \A c \in Made : \A d \in parents[c] : d \in Made /\ d < c

\* What a read-set holds is what its session has seen, but for the record whose
\* node the session is about to look up.
SoundReads(reads, seen, c, origins, slipped) ==
  /\ reads.sources \subseteq seen
  /\ \A p \in reads.nodes : p \in DOMAIN origins /\ origins[p] \ slipped \subseteq seen
  /\ \A src \in seen \ slipped :
       \/ src \in reads.sources
       \/ \E p \in reads.nodes : src \in origins[p]
       \/ c.at = "reading" /\ src \in c.from
  /\ c.at \in {"reading", "capturing"} =>
       /\ c.from \subseteq seen
       /\ c.key \in Observations => c.rec.source \in c.from

\* The parents a write gives the node of a key.
ParentsOf(w, k) ==
  w.captured.nodes \cup IF k \in DOMAIN w.merge.extra THEN w.merge.extra[k] ELSE {}

\* The nodes of the keys a write gives a record have what went into them, what the
\* write owns up to excepted.
SoundRecs(w, origins, but) ==
  /\ w.captured.sources \subseteq Sources /\ DOMAIN w.merge.extra \subseteq DOMAIN w.recs
  /\ \A p \in w.captured.nodes : p \in DOMAIN origins
  /\ \A k \in DOMAIN w.recs :
       /\ w.captured.sources \subseteq w.from[k]
       /\ k \in Observations => w.recs[k].source \in w.from[k]
       /\ \A p \in ParentsOf(w, k) :
            p \in DOMAIN origins /\ origins[p] \ but \subseteq w.from[k]
       /\ \A src \in w.from[k] \ but :
            \/ src \in w.captured.sources
            \/ k \in Observations /\ src = w.recs[k].source
            \/ \E p \in ParentsOf(w, k) : src \in origins[p]

\* So have the slots a merge carries.
SoundCarried(m, nodes, made, but) ==
  /\ \A x \in DOMAIN m.prov : m.prov[x] \in nodes
  /\ Indexes(m.prov, m.cites) /\ Matched(m.prov, m.cites, but)
  /\ \A b \in DOMAIN m.merged : b \in Branches /\ m.merged[b] \in made

OwnedUp(w) == {l[2] : l \in w.leak}

SoundWrite(w, origins, slipped, nodes, made) ==
  /\ w.leak \subseteq Ways \X Sources
  /\ SoundRecs(w, origins, slipped \cup OwnedUp(w))
  /\ SoundCarried(w.merge, nodes, made, slipped \cup OwnedUp(w))

\* What a merge has planned: beside what the session has seen, the sources of the
\* nodes that wrote the two sides' records then.
SoundPlan(w, seen, origins, slipped, nodes, made) ==
  /\ w.leak \subseteq Ways \X Sources /\ DOMAIN w.merge.extra = DOMAIN w.recs
  /\ SoundCarried(w.merge, nodes, made, slipped \cup OwnedUp(w))
  /\ \A k \in DOMAIN w.recs :
       /\ seen \subseteq w.from[k] /\ (k \in Observations => w.recs[k].source \in w.from[k])
       /\ \A p \in w.merge.extra[k] : p \in DOMAIN origins /\ origins[p] \subseteq w.from[k]
       /\ \A src \in w.from[k] \ seen : \E p \in w.merge.extra[k] : src \in origins[p]

SoundSession(s) ==
  IF call[s].at = "writing"
  THEN readset[s] = NoReads /\ SoundWrite(call[s], Origins, Slipped, AllNodes, Made)
  ELSE /\ SoundReads(readset[s], truth[s], call[s], Origins, Slipped)
       /\ call[s].at = "planned" =>
            SoundPlan(call[s], truth[s], Origins, Slipped, AllNodes, Made)

TaintInv ==
  /\ Ordered /\ OneNode
  /\ \A c \in Made : SoundTree(tree[c], Origins, Slipped)
  /\ \A s \in Sessions : SoundSession(s)
  /\ leaks \subseteq Ways \X Sources /\ unlabelled \subseteq Sources

-----------------------------------------------------------------------------
(* Sums over finite sets. *)

\* Of some subsets of a finite set, one has the fewest elements.
LEMMA SmallestSet ==
  ASSUME NEW D, IsFiniteSet(D), NEW T, T \subseteq SUBSET D, T # {}
  PROVE  \E S \in T : \A Z \in T : Cardinality(S) <= Cardinality(Z)
<1> DEFINE N == {Cardinality(S) : S \in T}
<1>1. \A S \in T : Cardinality(S) \in Nat
  BY FS_Subset, FS_CardinalityType
<1>2. N \subseteq Nat /\ N # {}
  BY <1>1
<1>3. \E n \in N : \A m \in N : n <= m
  <2> HIDE DEF N
  <2> QED BY <1>2, LeastNat
<1> QED BY <1>3

\* it gives the sum of each subset, taken element by element.
Summed(f, D, it) ==
  it = [s \in D |-> IF s = {} THEN 0
                    ELSE f[CHOOSE x \in s : TRUE] + it[s \ {CHOOSE x \in s : TRUE}]]

\* A set less the element it is summed by is smaller.
LEMMA LessOne ==
  ASSUME NEW S, IsFiniteSet(S), NEW x \in S
  PROVE  /\ IsFiniteSet(S \ {x}) /\ Cardinality(S) \in Nat /\ Cardinality(S \ {x}) \in Nat
         /\ Cardinality(S) = Cardinality(S \ {x}) + 1
  BY FS_RemoveElement, FS_CardinalityType

LEMMA SumExists ==
  ASSUME NEW f, NEW D, IsFiniteSet(D)
  PROVE  \E it : Summed(f, SUBSET D, it)
<1> DEFINE Small(n) == {s \in SUBSET D : Cardinality(s) <= n}
           c(s) == CHOOSE x \in s : TRUE
           T == {n \in Nat : \E it : Summed(f, Small(n), it)}
<1>1. ASSUME NEW s \in SUBSET D, s # {}
      PROVE  /\ c(s) \in s /\ s \ {c(s)} \in SUBSET D
             /\ Cardinality(s) \in Nat /\ Cardinality(s \ {c(s)}) \in Nat
             /\ Cardinality(s) = Cardinality(s \ {c(s)}) + 1
  <2>1. IsFiniteSet(s) /\ c(s) \in s
    BY <1>1, FS_Subset
  <2> HIDE DEF c
  <2> QED BY <2>1, LessOne
<1>2. 0 \in T
  <2> DEFINE it == [s \in Small(0) |-> 0]
  <2>1. ASSUME NEW s \in Small(0), s # {} PROVE FALSE
    <3>1. s \in SUBSET D /\ Cardinality(s) <= 0
      OBVIOUS
    <3>2. Cardinality(s \ {c(s)}) \in Nat /\ Cardinality(s) = Cardinality(s \ {c(s)}) + 1
      BY <1>1, <2>1, <3>1
    <3> HIDE DEF c
    <3> QED BY <3>1, <3>2
  <2>2. Summed(f, Small(0), it)
    BY <2>1 DEF Summed
  <2> QED BY <2>2
<1>3. ASSUME NEW n \in Nat, n \in T PROVE n + 1 \in T
  <2>1. PICK was : Summed(f, Small(n), was)
    BY <1>3
  <2> DEFINE it == [s \in Small(n + 1) |->
                      IF s = {} THEN 0 ELSE f[c(s)] + was[s \ {c(s)}]]
  <2>2. ASSUME NEW s \in Small(n + 1), s # {}
        PROVE  s \ {c(s)} \in Small(n) /\ s \ {c(s)} \in Small(n + 1)
    <3> DEFINE r == s \ {c(s)}
    <3>1. r \in SUBSET D /\ Cardinality(s) = Cardinality(r) + 1 /\ Cardinality(r) \in Nat
      BY <1>1, <2>2
    <3>2. Cardinality(s) <= n + 1
      OBVIOUS
    <3> HIDE DEF r
    <3>3. Cardinality(r) <= n
      BY <3>1, <3>2
    <3> QED BY <3>1, <3>3 DEF r
  <2>3. ASSUME NEW r \in Small(n) PROVE was[r] = it[r]
    <3>1. r \in Small(n + 1)
      <4>1. Cardinality(r) \in Nat
        BY FS_Subset, FS_CardinalityType
      <4> QED BY <4>1
    <3>2. was[r] = IF r = {} THEN 0 ELSE f[c(r)] + was[r \ {c(r)}]
      <4> HIDE DEF Small
      <4> QED BY <2>1 DEF Summed
    <3> HIDE DEF Small, c
    <3> QED BY <3>1, <3>2
  <2>4. ASSUME NEW s \in Small(n + 1), s # {} PROVE it[s] = f[c(s)] + it[s \ {c(s)}]
    <3>1. it[s] = f[c(s)] + was[s \ {c(s)}]
      BY <2>4
    <3> HIDE DEF it
    <3> QED BY <2>2, <2>3, <2>4, <3>1
  <2>5. ASSUME NEW s \in Small(n + 1)
        PROVE  it[s] = IF s = {} THEN 0 ELSE f[c(s)] + it[s \ {c(s)}]
    <3>1. s = {} => it[s] = 0
      OBVIOUS
    <3> HIDE DEF it
    <3> QED BY <2>4, <3>1
  <2>6. it = [s \in Small(n + 1) |-> it[s]]
    OBVIOUS
  <2> HIDE DEF it, Small
  <2>7. Summed(f, Small(n + 1), it)
    BY <2>5, <2>6 DEF Summed
  <2> QED BY <2>7
<1>4. Cardinality(D) \in T
  <2>1. Cardinality(D) \in Nat
    BY FS_CardinalityType
  <2> HIDE DEF T
  <2> QED BY <1>2, <1>3, <2>1, NatInd
<1>5. Small(Cardinality(D)) = SUBSET D
  BY FS_Subset
<1> QED BY <1>4, <1>5

\* Two that sum the subsets of a set and of one around it agree on them.
LEMMA SumAgrees ==
  ASSUME NEW f, NEW D, IsFiniteSet(D), NEW S, S \subseteq D, NEW it, NEW is,
         Summed(f, SUBSET D, it), Summed(f, SUBSET S, is)
  PROVE  is[S] = it[S]
<1> DEFINE T == {s \in SUBSET S : is[s] # it[s]}
           c(s) == CHOOSE x \in s : TRUE
<1> SUFFICES ASSUME T # {} PROVE FALSE
  OBVIOUS
<1>1. IsFiniteSet(S)
  BY FS_Subset
<1>2. PICK s \in T : \A r \in T : Cardinality(s) <= Cardinality(r)
  BY <1>1, SmallestSet
<1>3. s \in SUBSET S /\ s \in SUBSET D
  OBVIOUS
<1>4. CASE s = {}
  BY <1>3, <1>4 DEF Summed
<1>5. CASE s # {}
  <2> DEFINE r == s \ {c(s)}
  <2>1. c(s) \in s /\ IsFiniteSet(s)
    BY <1>1, <1>3, <1>5, FS_Subset
  <2>2. Cardinality(s) = Cardinality(r) + 1 /\ Cardinality(r) \in Nat
    <3> HIDE DEF c
    <3> QED BY <2>1, LessOne
  <2>3. r \notin T /\ r \in SUBSET S
    <3> HIDE DEF r, T
    <3>1. r \notin T
      BY <1>2, <2>2
    <3> QED BY <1>3, <3>1 DEF r
  <2>4. is[s] = f[c(s)] + is[r] /\ it[s] = f[c(s)] + it[r]
    BY <1>3, <1>5 DEF Summed
  <2> HIDE DEF r, c
  <2> QED BY <2>3, <2>4
<1> QED BY <1>4, <1>5

SumMap(f, D) == CHOOSE it : Summed(f, SUBSET D, it)

LEMMA SumStep ==
  ASSUME NEW f, NEW S, IsFiniteSet(S)
  PROVE  /\ S = {} => SumFunctionOnSet(f, S) = 0
         /\ S # {} => LET c == CHOOSE x \in S : TRUE
                      IN  SumFunctionOnSet(f, S) = f[c] + SumFunctionOnSet(f, S \ {c})
<1>1. ASSUME NEW D, IsFiniteSet(D) PROVE Summed(f, SUBSET D, SumMap(f, D))
  BY <1>1, SumExists DEF SumMap
<1>2. \A D : SumFunctionOnSet(f, D) = SumMap(f, D)[D]
  BY DEF SumFunctionOnSet, FoldFunctionOnSet, MapThenFoldSet, Summed, SumMap
<1>3. S = {} => SumMap(f, S)[S] = 0
  BY <1>1 DEF Summed
<1>4. ASSUME S # {}, NEW c, c = CHOOSE x \in S : TRUE
      PROVE  SumMap(f, S)[S] = f[c] + SumMap(f, S \ {c})[S \ {c}]
  <2>1. SumMap(f, S)[S] = f[c] + SumMap(f, S)[S \ {c}]
    <3> DEFINE it == SumMap(f, S)
    <3>1. Summed(f, SUBSET S, it) /\ S \in SUBSET S
      BY <1>1
    <3> HIDE DEF it
    <3>2. it[S] = f[c] + it[S \ {c}]
      BY <1>4, <3>1 DEF Summed
    <3> QED BY <3>2 DEF it
  <2>2. S \ {c} \in SUBSET S /\ IsFiniteSet(S \ {c})
    BY FS_Subset
  <2>3. Summed(f, SUBSET S, SumMap(f, S)) /\ Summed(f, SUBSET (S \ {c}), SumMap(f, S \ {c}))
    BY <1>1, <2>2
  <2>4. ASSUME NEW Z, Z \subseteq S, NEW is, Summed(f, SUBSET Z, is)
        PROVE  is[Z] = SumMap(f, S)[Z]
    BY <2>3, <2>4, SumAgrees
  <2>5. SumMap(f, S \ {c})[S \ {c}] = SumMap(f, S)[S \ {c}]
    BY <2>2, <2>3, <2>4
  <2> QED BY <2>1, <2>5
<1> QED BY <1>2, <1>3, <1>4

\* A sum of numbers is one, and may be taken in any order.
Sum(f, S) == SumFunctionOnSet(f, S)

LEMMA SumSplits ==
  ASSUME NEW D, IsFiniteSet(D), NEW f \in [D -> Nat]
  PROVE  /\ Sum(f, {}) = 0
         /\ \A S \in SUBSET D : Sum(f, S) \in Nat
         /\ \A S \in SUBSET D : \A x \in S : Sum(f, S) = f[x] + Sum(f, S \ {x})
<1> DEFINE c(s) == CHOOSE x \in s : TRUE
           T == {S \in SUBSET D : Sum(f, S) \notin Nat}
           U == {S \in SUBSET D : \E x \in S : Sum(f, S) # f[x] + Sum(f, S \ {x})}
<1>1. ASSUME NEW S \in SUBSET D, S # {}
      PROVE  /\ c(S) \in S /\ S \ {c(S)} \in SUBSET D /\ f[c(S)] \in Nat
             /\ Sum(f, S) = f[c(S)] + Sum(f, S \ {c(S)})
  <2>1. IsFiniteSet(S) /\ c(S) \in S
    BY <1>1, FS_Subset
  <2>2. Sum(f, S) = f[c(S)] + Sum(f, S \ {c(S)})
    BY <1>1, <2>1, SumStep DEF Sum
  <2> HIDE DEF c
  <2> QED BY <2>1, <2>2
<1>2. Sum(f, {}) = 0
  BY SumStep, FS_EmptySet DEF Sum
<1>3. ASSUME NEW S \in SUBSET D, NEW x \in S
      PROVE  /\ S \ {x} \in SUBSET D /\ Cardinality(S) = Cardinality(S \ {x}) + 1
             /\ Cardinality(S \ {x}) \in Nat
  <2>1. IsFiniteSet(S)
    BY FS_Subset
  <2> QED BY <2>1, LessOne
<1>4. T = {}
  <2> SUFFICES ASSUME T # {} PROVE FALSE
    OBVIOUS
  <2>1. PICK S \in T : \A Z \in T : Cardinality(S) <= Cardinality(Z)
    BY SmallestSet
  <2>2. S \in SUBSET D /\ S # {} /\ Sum(f, S) \notin Nat
    BY <1>2
  <2> DEFINE Z == S \ {c(S)}
  <2>3. /\ Z \in SUBSET D /\ Sum(f, S) = f[c(S)] + Sum(f, Z) /\ f[c(S)] \in Nat
        /\ Cardinality(S) = Cardinality(Z) + 1 /\ Cardinality(Z) \in Nat
    <3> HIDE DEF c
    <3> QED BY <1>1, <1>3, <2>2
  <2> HIDE DEF Z, c
  <2>4. Z \notin T
    <3> HIDE DEF T
    <3> QED BY <2>1, <2>3
  <2> QED BY <2>2, <2>3, <2>4
<1>5. \A S \in SUBSET D : Sum(f, S) \in Nat
  BY <1>4
<1>6. U = {}
  <2> SUFFICES ASSUME U # {} PROVE FALSE
    OBVIOUS
  <2>1. PICK S \in U : \A Z \in U : Cardinality(S) <= Cardinality(Z)
    BY SmallestSet
  <2>2. PICK x \in S : Sum(f, S) # f[x] + Sum(f, S \ {x})
    OBVIOUS
  <2>3. \A Z \in SUBSET D : Cardinality(Z) < Cardinality(S) /\ Cardinality(S) \in Nat
                              /\ Cardinality(Z) \in Nat =>
          \A y \in Z : Sum(f, Z) = f[y] + Sum(f, Z \ {y})
    <3> TAKE Z \in SUBSET D
    <3> HAVE Cardinality(Z) < Cardinality(S) /\ Cardinality(S) \in Nat /\ Cardinality(Z) \in Nat
    <3>1. Z \notin U
      <4> HIDE DEF U
      <4> QED BY <2>1
    <3> QED BY <3>1
  <2>4. S \in SUBSET D
    OBVIOUS
  <2> HIDE DEF U
  <2> DEFINE y == c(S)
  <2>5. y \in S /\ S \ {y} \in SUBSET D /\ Sum(f, S) = f[y] + Sum(f, S \ {y})
    BY <1>1, <2>2, <2>4
  <2> HIDE DEF y
  <2>6. x # y
    BY <2>2, <2>5
  <2>7. /\ S \ {x} \in SUBSET D /\ x \in S \ {y} /\ y \in S \ {x}
        /\ (S \ {x}) \ {y} = (S \ {y}) \ {x}
        /\ Cardinality(S \ {x}) < Cardinality(S) /\ Cardinality(S \ {y}) < Cardinality(S)
        /\ Cardinality(S) \in Nat /\ Cardinality(S \ {x}) \in Nat /\ Cardinality(S \ {y}) \in Nat
    <3>1. /\ Cardinality(S) = Cardinality(S \ {x}) + 1 /\ Cardinality(S \ {x}) \in Nat
          /\ Cardinality(S) = Cardinality(S \ {y}) + 1 /\ Cardinality(S \ {y}) \in Nat
      BY <1>3, <2>4, <2>5
    <3>2. /\ S \ {x} \in SUBSET D /\ x \in S \ {y} /\ y \in S \ {x}
          /\ (S \ {x}) \ {y} = (S \ {y}) \ {x}
      BY <2>4, <2>5, <2>6
    <3> QED BY <3>1, <3>2
  <2> DEFINE Z == (S \ {y}) \ {x}
  <2>8. Sum(f, S \ {y}) = f[x] + Sum(f, Z)
    BY <2>3, <2>5, <2>7
  <2>9. Sum(f, S \ {x}) = f[y] + Sum(f, Z)
    BY <2>3, <2>7
  <2>10. f[x] \in Nat /\ f[y] \in Nat /\ Sum(f, Z) \in Nat
    BY <1>5, <2>4, <2>5
  <2> HIDE DEF Z
  <2> QED BY <2>2, <2>5, <2>8, <2>9, <2>10
<1> QED BY <1>2, <1>5, <1>6

LEMMA SumTake ==
  ASSUME NEW D, IsFiniteSet(D), NEW f, f \in [D -> Nat], NEW S, S \subseteq D, NEW x \in S
  PROVE  Sum(f, S) = f[x] + Sum(f, S \ {x})
<1>1. S \in SUBSET D
  OBVIOUS
<1> QED BY <1>1, SumSplits

\* A sum over more is no less.
LEMMA SumGrows ==
  ASSUME NEW D, IsFiniteSet(D), NEW f \in [D -> Nat], NEW Z \in SUBSET D, NEW S \in SUBSET Z
  PROVE  Sum(f, S) <= Sum(f, Z)
<1> DEFINE T == {Q \in SUBSET D : S \subseteq Q /\ ~(Sum(f, S) <= Sum(f, Q))}
<1> SUFFICES ASSUME T # {} PROVE FALSE
  OBVIOUS
<1>1. PICK Q \in T : \A P \in T : Cardinality(Q) <= Cardinality(P)
  BY SmallestSet
<1>2. Q \in SUBSET D /\ S \subseteq Q /\ ~(Sum(f, S) <= Sum(f, Q))
  OBVIOUS
<1>3. Sum(f, S) \in Nat /\ Sum(f, Q) \in Nat
  BY <1>2, SumSplits
<1>4. PICK x \in Q : x \notin S
  BY <1>2, <1>3
<1> DEFINE P == Q \ {x}
<1>5. P \in SUBSET D /\ S \subseteq P /\ f[x] \in Nat /\ Sum(f, P) \in Nat
      /\ Sum(f, Q) = f[x] + Sum(f, P)
  BY <1>2, <1>4, SumSplits
<1>6. Cardinality(Q) = Cardinality(P) + 1 /\ Cardinality(P) \in Nat
  <2>1. IsFiniteSet(Q)
    BY <1>2, FS_Subset
  <2> QED BY <2>1, LessOne
<1> HIDE DEF P
<1>7. P \notin T
  <2> HIDE DEF T
  <2> QED BY <1>1, <1>6
<1> QED BY <1>2, <1>3, <1>5, <1>7

\* A finite set of numbers stops somewhere.
LEMMA FiniteBound ==
  ASSUME NEW D, D \subseteq Nat, IsFiniteSet(D)
  PROVE  \E m \in Nat : \A j \in D : j < m
<1> DEFINE T == {S \in SUBSET D : ~ \E m \in Nat : \A j \in S : j < m}
<1> SUFFICES ASSUME T # {} PROVE FALSE
  OBVIOUS
<1>1. PICK S \in T : \A Z \in T : Cardinality(S) <= Cardinality(Z)
  BY SmallestSet
<1>2. S \in SUBSET D /\ S # {}
  <2>1. \A j \in {} : j < 0
    OBVIOUS
  <2> QED BY <2>1
<1>3. PICK x \in S : TRUE
  BY <1>2
<1>4. Cardinality(S) = Cardinality(S \ {x}) + 1 /\ Cardinality(S \ {x}) \in Nat
  <2>1. IsFiniteSet(S)
    BY <1>2, FS_Subset
  <2> QED BY <2>1, LessOne
<1>5. S \ {x} \notin T
  <2> HIDE DEF T
  <2> QED BY <1>1, <1>4
<1>6. PICK m \in Nat : \A j \in S \ {x} : j < m
  BY <1>2, <1>5
<1> DEFINE top == IF x < m THEN m ELSE x + 1
<1>7. top \in Nat /\ \A j \in S : j < top
  BY <1>2, <1>6
<1> QED BY <1>7

-----------------------------------------------------------------------------
(* The slots of a write's nodes. *)

\* The keys whose nodes come first, and the slot a key's nodes then begin at.
Before(w, k) ==
  IF k = MergeNote THEN NodeKeys(w) \ {k} ELSE {j \in NodeKeys(w) \ {MergeNote} : j < k}

First(w, seq, k) == seq + Sum(Times(w), Before(w, k))

LEMMA SlotsAre ==
  ASSUME NEW w, NEW seq, NEW k
  PROVE  SlotsOf(w, seq, k) = {<<w.branch, First(w, seq, k) + i>> : i \in 0 .. Times(w)[k] - 1}
  BY DEF SlotsOf, First, Before, Sum

\* Finitely many keys, each with a node at least.
LEMMA TimesAre ==
  ASSUME NEW w, NEW excused, Writing(w, excused)
  PROVE  /\ IsFiniteSet(NodeKeys(w)) /\ NodeKeys(w) \subseteq Nat
         /\ Times(w) \in [NodeKeys(w) -> Nat]
         /\ \A k \in NodeKeys(w) : Times(w)[k] \in Nat \ {0}
<1>1. IsFiniteSet(NodeKeys(w))
  BY FS_EmptySet, FS_Singleton, FS_Union DEF Writing, NodeKeys
<1>2. NodeKeys(w) \subseteq Nat
  BY ContentsAssumption DEF Writing, NodeKeys
<1>3. \A k \in NodeKeys(w) : Times(w)[k] \in Nat \ {0}
  BY DEF Writing, NodeKeys, Times
<1>4. Times(w) = [k \in NodeKeys(w) |-> Times(w)[k]]
  BY DEF Times
<1> QED BY <1>1, <1>2, <1>3, <1>4

\* Of two keys one comes first, and its nodes end before the other's begin.
LEMMA FirstAfter ==
  ASSUME NEW w, NEW excused, Writing(w, excused), NEW seq \in Nat,
         NEW j \in NodeKeys(w), NEW k \in NodeKeys(w), j \in Before(w, k)
  PROVE  First(w, seq, j) + Times(w)[j] <= First(w, seq, k)
<1> DEFINE keys == NodeKeys(w)
           f == Times(w)
           b == Before(w, j) \cup {j}
<1>1. IsFiniteSet(keys) /\ f \in [keys -> Nat] /\ f[j] \in Nat
  BY TimesAre
<1>a. keys \subseteq Nat
  BY TimesAre
<1>2. /\ b \subseteq Before(w, k) /\ Before(w, k) \subseteq keys /\ j \notin Before(w, j)
      /\ Before(w, j) \subseteq keys
  <2>1. j # MergeNote
    BY DEF Before
  <2> QED BY <1>1, <1>a, <2>1 DEF Before
<1> HIDE DEF keys, f, b
<1>3. Sum(f, b) <= Sum(f, Before(w, k))
  BY <1>1, <1>2, SumGrows
<1>4. b \ {j} = Before(w, j) /\ j \in b
  BY <1>2 DEF b
<1>5. Sum(f, b) = f[j] + Sum(f, Before(w, j))
  <2>1. b \subseteq keys
    BY <1>2
  <2>2. Sum(f, b) = f[j] + Sum(f, b \ {j})
    BY <1>1, <1>4, <2>1, SumTake
  <2> QED BY <1>4, <2>2
<1>6. Sum(f, Before(w, j)) \in Nat /\ Sum(f, Before(w, k)) \in Nat
  BY <1>1, <1>2, SumSplits
<1> QED BY <1>1, <1>3, <1>5, <1>6 DEF First, f

\* Each key has a slot, and none is another's.
LEMMA SlotsApart ==
  ASSUME NEW w, NEW excused, Writing(w, excused), NEW seq \in Nat
  PROVE  /\ \A k \in NodeKeys(w) :
              SlotsOf(w, seq, k) # {} /\ SlotsOf(w, seq, k) \subseteq {w.branch} \X Nat
         /\ \A j, k \in NodeKeys(w) : j # k => SlotsOf(w, seq, j) \cap SlotsOf(w, seq, k) = {}
<1>1. ASSUME NEW k \in NodeKeys(w)
      PROVE  First(w, seq, k) \in Nat /\ Times(w)[k] \in Nat \ {0}
  <2>1. Before(w, k) \subseteq NodeKeys(w)
    BY DEF Before
  <2>2. IsFiniteSet(NodeKeys(w)) /\ Times(w) \in [NodeKeys(w) -> Nat]
    BY TimesAre
  <2>3. Sum(Times(w), Before(w, k)) \in Nat
    BY <2>1, <2>2, SumSplits
  <2> QED BY <2>3, TimesAre DEF First
<1>2. ASSUME NEW k \in NodeKeys(w)
      PROVE  SlotsOf(w, seq, k) # {} /\ SlotsOf(w, seq, k) \subseteq {w.branch} \X Nat
  <2>1. 0 \in 0 .. Times(w)[k] - 1
    BY <1>1
  <2>2. <<w.branch, First(w, seq, k) + 0>> \in SlotsOf(w, seq, k)
    BY <2>1, SlotsAre
  <2>3. SlotsOf(w, seq, k) \subseteq {w.branch} \X Nat
    BY <1>1, SlotsAre
  <2> QED BY <2>2, <2>3
<1>3. ASSUME NEW j \in NodeKeys(w), NEW k \in NodeKeys(w), j \in Before(w, k),
             NEW x \in SlotsOf(w, seq, j), x \in SlotsOf(w, seq, k)
      PROVE  FALSE
  <2>1. PICK i \in 0 .. Times(w)[j] - 1 : x = <<w.branch, First(w, seq, j) + i>>
    BY SlotsAre
  <2>2. PICK h \in 0 .. Times(w)[k] - 1 : x = <<w.branch, First(w, seq, k) + h>>
    BY <1>3, SlotsAre
  <2>3. First(w, seq, j) + Times(w)[j] <= First(w, seq, k)
    BY <1>3, FirstAfter
  <2>4. First(w, seq, j) + i = First(w, seq, k) + h
    BY <2>1, <2>2
  <2> QED BY <1>1, <2>3, <2>4
<1>4. ASSUME NEW j \in NodeKeys(w), NEW k \in NodeKeys(w), j # k
      PROVE  j \in Before(w, k) \/ k \in Before(w, j)
  <2>1. NodeKeys(w) \subseteq Nat
    BY TimesAre
  <2> QED BY <1>4, <2>1 DEF Before
<1> QED BY <1>2, <1>3, <1>4

\* And together they are what the counter passes.
LEMMA SlotsFill ==
  ASSUME NEW w, NEW excused, Writing(w, excused), NEW seq \in Nat
  PROVE  /\ SeqAfter(w, seq) \in Nat
         /\ \A n \in seq .. SeqAfter(w, seq) - 1 :
              \E k \in NodeKeys(w) : <<w.branch, n>> \in SlotsOf(w, seq, k)
<1> DEFINE keys == NodeKeys(w)
           f == Times(w)
           some == keys \ {MergeNote}
           P(m) == {j \in some : j < m}
<1>1. IsFiniteSet(keys) /\ f \in [keys -> Nat] /\ SeqAfter(w, seq) = seq + Sum(f, keys)
  BY TimesAre DEF SeqAfter, Sum
<1>b. keys \subseteq Nat
  BY TimesAre
<1>2. \A S \in SUBSET keys : Sum(f, S) \in Nat
  BY <1>1, SumSplits
<1>a. ASSUME NEW S, S \subseteq keys, NEW x \in S PROVE Sum(f, S) = f[x] + Sum(f, S \ {x})
  <2> HIDE DEF keys, f
  <2> QED BY <1>1, <1>a, SumTake
<1>3. \A k \in some : P(k) = Before(w, k)
  BY DEF Before
<1>4. MergeNote \in keys => some = Before(w, MergeNote)
  BY DEF Before
<1>5. SeqAfter(w, seq) \in Nat
  <2> HIDE DEF keys, f
  <2> QED BY <1>1, <1>2
<1>6. ASSUME NEW k \in keys, NEW n \in Nat, Sum(f, Before(w, k)) <= n, n < Sum(f, Before(w, k)) + f[k]
      PROVE  <<w.branch, seq + n>> \in SlotsOf(w, seq, k)
  <2> DEFINE i == n - Sum(f, Before(w, k))
  <2>1. Sum(f, Before(w, k)) \in Nat /\ f[k] \in Nat
    BY <1>1, <1>2 DEF Before
  <2>2. i \in 0 .. f[k] - 1 /\ seq + n = First(w, seq, k) + i
    BY <1>6, <2>1 DEF First
  <2> HIDE DEF i
  <2>3. <<w.branch, First(w, seq, k) + i>> \in SlotsOf(w, seq, k)
    BY <2>2, SlotsAre
  <2> QED BY <2>2, <2>3
<1>7. ASSUME NEW n \in Nat, n < Sum(f, some)
      PROVE  \E k \in keys : Sum(f, Before(w, k)) <= n /\ n < Sum(f, Before(w, k)) + f[k]
  <2> DEFINE T == {m \in Nat : n < Sum(f, P(m))}
  <2>1. some \subseteq keys /\ some \subseteq Nat /\ IsFiniteSet(some)
    BY <1>1, <1>b, FS_Subset
  <2>2. PICK top \in Nat : \A j \in some : j < top
    <3> HIDE DEF some
    <3> QED BY <2>1, FiniteBound
  <2>3. P(top) = some
    BY <2>2
  <2>4. T # {}
    <3> HIDE DEF some
    <3> QED BY <1>7, <2>3
  <2>5. PICK m \in T : \A q \in T : m <= q
    BY <2>4, LeastNat
  <2>6. m \in Nat /\ n < Sum(f, P(m))
    OBVIOUS
  <2>7. m # 0
    <3>1. P(0) = {}
      BY <2>1
    <3>2. Sum(f, {}) = 0
      BY <1>1, SumSplits
    <3> HIDE DEF P, f
    <3> QED BY <2>6, <3>1, <3>2
  <2> DEFINE k == m - 1
  <2>8. k \in Nat /\ k + 1 = m /\ ~(m <= k)
    BY <2>6, <2>7
  <2>9. ~(n < Sum(f, P(k)))
    <3>1. k \notin T
      <4> HIDE DEF T, k
      <4> QED BY <2>5, <2>8
    <3> QED BY <2>8, <3>1
  <2> HIDE DEF k
  <2>10. P(m) = IF k \in some THEN P(k) \cup {k} ELSE P(k)
    <3>1. \A j \in some : j \in Nat /\ (j < m <=> (j < k \/ j = k))
      BY <2>1, <2>8
    <3> HIDE DEF some
    <3> QED BY <3>1
  <2>11. k \in some /\ P(m) = P(k) \cup {k} /\ k \notin P(k) /\ P(k) \subseteq keys /\ k \in keys
    <3>1. k \in some
      <4> HIDE DEF P, some
      <4> QED BY <2>6, <2>9, <2>10
    <3> QED BY <2>8, <2>10, <3>1
  <2> HIDE DEF some
  <2>12. Sum(f, P(k) \cup {k}) = f[k] + Sum(f, P(k)) /\ Sum(f, P(k)) \in Nat /\ f[k] \in Nat
    <3> DEFINE S == P(k) \cup {k}
    <3>1. S \in SUBSET keys /\ k \in S /\ S \ {k} = P(k) /\ P(k) \in SUBSET keys
      BY <2>11
    <3> HIDE DEF S, P, keys, f
    <3>2. Sum(f, S) = f[k] + Sum(f, S \ {k})
      BY <1>a, <3>1
    <3>3. Sum(f, P(k)) \in Nat /\ f[k] \in Nat
      BY <1>1, <1>2, <2>11, <3>1
    <3> QED BY <3>1, <3>2, <3>3 DEF S
  <2>13. P(k) = Before(w, k)
    BY <1>3, <2>11
  <2> HIDE DEF P, f
  <2> QED BY <2>6, <2>9, <2>11, <2>12, <2>13
<1>8. ASSUME NEW n \in Nat, n < Sum(f, keys), ~(n < Sum(f, some))
      PROVE  \E k \in keys : Sum(f, Before(w, k)) <= n /\ n < Sum(f, Before(w, k)) + f[k]
  <2>1. MergeNote \in keys
    <3> SUFFICES ASSUME MergeNote \notin keys PROVE FALSE
      OBVIOUS
    <3>1. some = keys
      OBVIOUS
    <3> HIDE DEF some, keys, f
    <3> QED BY <1>8, <3>1
  <2>2. Sum(f, keys) = f[MergeNote] + Sum(f, some)
    <3>1. keys \in SUBSET keys
      OBVIOUS
    <3> HIDE DEF keys, f
    <3> QED BY <1>a, <2>1, <3>1
  <2>3. some = Before(w, MergeNote) /\ Sum(f, some) \in Nat /\ f[MergeNote] \in Nat
    BY <1>1, <1>2, <1>4, <2>1
  <2> HIDE DEF keys, f, some
  <2>4. Sum(f, some) <= n /\ n < Sum(f, some) + f[MergeNote]
    BY <1>8, <2>2, <2>3
  <2> QED BY <2>1, <2>3, <2>4
<1>9. ASSUME NEW n \in seq .. SeqAfter(w, seq) - 1
      PROVE  \E k \in keys : <<w.branch, n>> \in SlotsOf(w, seq, k)
  <2> DEFINE m == n - seq
  <2>1. m \in Nat /\ m < Sum(f, keys) /\ seq + m = n
    <3>1. Sum(f, keys) \in Nat
      BY <1>2
    <3> HIDE DEF keys, f
    <3> QED BY <1>1, <1>9, <3>1
  <2> HIDE DEF m, f
  <2>2. \E k \in keys : Sum(f, Before(w, k)) <= m /\ m < Sum(f, Before(w, k)) + f[k]
    BY <1>7, <1>8, <2>1
  <2> QED BY <1>6, <2>1, <2>2
<1> QED BY <1>5, <1>9

-----------------------------------------------------------------------------
(* Ancestors. *)

LEMMA MadeCommits == Made \subseteq Commits /\ Made \subseteq Nat
  BY WritePathAssumption DEF Made

\* f gives a commit and the ancestors of its parents, for the commits of D.
Ancestry(f, D) == f = [d \in D |-> {d} \cup UNION {f[q] : q \in parents[d]}]

LEMMA AncestryExists ==
  ASSUME Ordered, IsFiniteSet(Made)
  PROVE  \E f : Ancestry(f, Made)
<1> DEFINE Small(n) == {d \in Made : d < n}
           T == {n \in Nat : \E f : Ancestry(f, Small(n))}
<1>1. 0 \in T
  <2> DEFINE f == [d \in Small(0) |-> {}]
  <2>1. ASSUME NEW d \in Small(0) PROVE FALSE
    <3>1. d \in Made /\ d < 0
      OBVIOUS
    <3>2. d \in Nat
      BY <3>1, MadeCommits
    <3> QED BY <3>1, <3>2
  <2>2. Ancestry(f, Small(0))
    BY <2>1 DEF Ancestry
  <2> QED BY <2>2
<1>2. ASSUME NEW n \in Nat, n \in T PROVE n + 1 \in T
  <2>1. PICK f : Ancestry(f, Small(n))
    BY <1>2
  <2> DEFINE g == [d \in Small(n + 1) |-> {d} \cup UNION {f[q] : q \in parents[d]}]
  <2>2. ASSUME NEW d \in Small(n + 1), NEW q \in parents[d] PROVE q \in Small(n) /\ q \in Small(n + 1)
    <3>1. q \in Made /\ q < d /\ d \in Nat /\ q \in Nat /\ d < n + 1
      BY MadeCommits DEF Ordered
    <3> QED BY <3>1
  <2>3. ASSUME NEW d \in Small(n) PROVE f[d] = g[d]
    <3>1. d \in Small(n + 1)
      BY MadeCommits
    <3>2. f[d] = {d} \cup UNION {f[q] : q \in parents[d]}
      <4> HIDE DEF Small
      <4> QED BY <2>1 DEF Ancestry
    <3> HIDE DEF Small
    <3> QED BY <3>1, <3>2
  <2> HIDE DEF Small
  <2>4. ASSUME NEW d \in Small(n + 1)
        PROVE  g[d] = {d} \cup UNION {g[q] : q \in parents[d]}
    <3>1. g[d] = {d} \cup UNION {f[q] : q \in parents[d]}
      OBVIOUS
    <3>2. \A q \in parents[d] : f[q] = g[q]
      BY <2>2, <2>3
    <3> HIDE DEF g
    <3> QED BY <3>1, <3>2
  <2>5. g = [d \in Small(n + 1) |-> g[d]]
    OBVIOUS
  <2> HIDE DEF g
  <2>6. Ancestry(g, Small(n + 1))
    BY <2>4, <2>5 DEF Ancestry
  <2> QED BY <2>6
<1>3. PICK n \in Nat : \A d \in Made : d < n
  BY FiniteBound, MadeCommits
<1>4. n \in T
  <2> HIDE DEF T
  <2> QED BY <1>1, <1>2, NatInd
<1>5. Small(n) = Made
  BY <1>3
<1> QED BY <1>4, <1>5

\* The ancestors of a commit that was made were made.
LEMMA AncestorsMade ==
  ASSUME Ordered, IsFiniteSet(Made), NEW c \in Made
  PROVE  Ancestors(c) \subseteq Made
<1> DEFINE f == CHOOSE g : Ancestry(g, Made)
           T == {d \in Made : ~(f[d] \subseteq Made)}
<1>1. Ancestry(f, Made)
  BY AncestryExists
<1>2. Ancestors(c) = f[c]
  BY DEF Ancestors, Ancestry
<1> HIDE DEF f
<1> SUFFICES ASSUME T # {} PROVE FALSE
  BY <1>2
<1>3. T \subseteq Nat
  BY MadeCommits
<1>4. PICK d \in T : \A q \in T : d <= q
  BY <1>3, LeastNat
<1>5. d \in Made /\ f[d] = {d} \cup UNION {f[q] : q \in parents[d]}
  BY <1>1 DEF Ancestry
<1>6. ASSUME NEW q \in parents[d] PROVE f[q] \subseteq Made
  <2>1. q \in Made /\ q < d /\ q \in Nat /\ d \in Nat
    BY <1>5, MadeCommits DEF Ordered
  <2>2. q \notin T
    <3> HIDE DEF T
    <3> QED BY <1>4, <2>1
  <2> QED BY <2>1, <2>2
<1>7. f[d] \subseteq Made
  BY <1>5, <1>6
<1> QED BY <1>4, <1>7

-----------------------------------------------------------------------------
(* What was said of nodes and trees stays so when commits are made and     *)
(* sources leak.                                                           *)

\* Where a function is defined, another is as well and agrees.
Wider(f, g) == \A p \in DOMAIN f : p \in DOMAIN g /\ g[p] = f[p]

LEMMA NodeStays ==
  ASSUME NEW n, NEW origins, NEW more, NEW slipped, NEW out, SoundNode(n, origins, slipped),
         Wider(origins, more), slipped \subseteq out
  PROVE  SoundNode(n, more, out)
<1>1. /\ n.id \in NodeIds /\ n.key = n.id[2] /\ n.sources \subseteq Sources
      /\ \A p \in n.parents : p \in DOMAIN more /\ p[1] < n.id[1] /\ more[p] = origins[p]
  BY DEF SoundNode, Wider
<1>2. ASSUME n.key \in Keys
      PROVE  /\ n.id \in DOMAIN more /\ n.sources \subseteq more[n.id]
             /\ \A p \in n.parents : more[p] \ out \subseteq more[n.id]
             /\ \A src \in more[n.id] \ out :
                  src \in n.sources \/ \E p \in n.parents : src \in more[p]
  <2>1. /\ n.id \in DOMAIN more /\ more[n.id] = origins[n.id] /\ n.sources \subseteq origins[n.id]
        /\ \A p \in n.parents : origins[p] \ slipped \subseteq origins[n.id]
        /\ \A src \in origins[n.id] \ slipped :
             src \in n.sources \/ \E p \in n.parents : src \in origins[p]
    BY <1>2 DEF SoundNode, Wider
  <2>2. ASSUME NEW p \in n.parents PROVE more[p] \ out \subseteq more[n.id]
    BY <1>1, <2>1
  <2>3. ASSUME NEW src \in more[n.id] \ out
        PROVE  src \in n.sources \/ \E p \in n.parents : src \in more[p]
    BY <1>1, <2>1
  <2> QED BY <2>1, <2>2, <2>3
<1> QED BY <1>1, <1>2 DEF SoundNode

LEMMA MatchedStays ==
  ASSUME NEW prov, NEW cites, NEW but, NEW more, Matched(prov, cites, but), but \subseteq more
  PROVE  Matched(prov, cites, more)
  BY DEF Matched

LEMMA TreeStays ==
  ASSUME NEW t, NEW origins, NEW more, NEW slipped, NEW out, SoundTree(t, origins, slipped),
         Wider(origins, more), slipped \subseteq out
  PROVE  SoundTree(t, more, out)
<1>1. \A n \in Nodes(t) : SoundNode(n, origins, slipped)
  BY DEF SoundTree
<1>2. ASSUME NEW n \in Nodes(t) PROVE SoundNode(n, more, out)
  BY <1>1, NodeStays
<1>3. Matched(t.prov, t.cites, out)
  BY MatchedStays DEF SoundTree
<1>4. Linked(t, more, out)
  <2> SUFFICES ASSUME NEW n \in Nodes(t), n.key \in Keys, NEW p \in n.parents,
                      NEW src \in (more[p] \cap more[n.id]) \ out
               PROVE  Held(t, p)
    BY DEF Linked
  <2>1. p \in DOMAIN origins /\ n.id \in DOMAIN origins
    BY <1>1 DEF SoundNode
  <2>2. src \in (origins[p] \cap origins[n.id]) \ slipped
    BY <2>1 DEF Wider
  <2>3. Linked(t, origins, slipped)
    BY DEF SoundTree
  <2> QED BY <2>2, <2>3 DEF Linked
<1>5. Headed(t, more, out)
  <2>1. Headed(t, origins, slipped)
    BY DEF SoundTree
  <2> SUFFICES ASSUME NEW k \in DOMAIN t.rec
               PROVE  /\ t.latest[k] \in DOMAIN more /\ t.latest[k][2] = k
                      /\ more[t.latest[k]] = t.from[k]
                      /\ \A src \in t.from[k] \ out : Held(t, t.latest[k])
                      /\ k \in Observations => t.rec[k].source \in t.from[k]
    BY DEF Headed
  <2>2. /\ t.latest[k] \in DOMAIN origins /\ t.latest[k][2] = k /\ origins[t.latest[k]] = t.from[k]
        /\ \A src \in t.from[k] \ slipped : Held(t, t.latest[k])
        /\ k \in Observations => t.rec[k].source \in t.from[k]
    BY <2>1 DEF Headed
  <2> QED BY <2>2 DEF Wider
<1> QED BY <1>2, <1>3, <1>4, <1>5 DEF SoundTree

LEMMA ReadsStay ==
  ASSUME NEW reads, NEW seen, NEW c, NEW origins, NEW more, NEW slipped, NEW out,
         SoundReads(reads, seen, c, origins, slipped), Wider(origins, more), slipped \subseteq out
  PROVE  SoundReads(reads, seen, c, more, out)
<1>1. \A p \in reads.nodes : p \in DOMAIN origins /\ p \in DOMAIN more /\ more[p] = origins[p]
  BY DEF SoundReads, Wider
<1>2. ASSUME NEW p \in reads.nodes PROVE more[p] \ out \subseteq seen
  BY <1>1 DEF SoundReads
<1>3. ASSUME NEW src \in seen \ out
      PROVE  \/ src \in reads.sources
             \/ \E p \in reads.nodes : src \in more[p]
             \/ c.at = "reading" /\ src \in c.from
  <2>1. \/ src \in reads.sources
        \/ \E p \in reads.nodes : src \in origins[p]
        \/ c.at = "reading" /\ src \in c.from
    BY DEF SoundReads
  <2> QED BY <1>1, <2>1
<1> QED BY <1>1, <1>2, <1>3 DEF SoundReads

LEMMA RecsStay ==
  ASSUME NEW w, NEW origins, NEW more, NEW but, NEW large,
         SoundRecs(w, origins, but), Wider(origins, more), but \subseteq large
  PROVE  SoundRecs(w, more, large)
<1>1. \A p \in w.captured.nodes : p \in DOMAIN more
  BY DEF SoundRecs, Wider
<1>2. ASSUME NEW k \in DOMAIN w.recs
      PROVE  /\ \A p \in ParentsOf(w, k) :
                  p \in DOMAIN more /\ more[p] \ large \subseteq w.from[k]
             /\ \A src \in w.from[k] \ large :
                  \/ src \in w.captured.sources
                  \/ k \in Observations /\ src = w.recs[k].source
                  \/ \E p \in ParentsOf(w, k) : src \in more[p]
  <2>1. \A p \in ParentsOf(w, k) : p \in DOMAIN origins /\ origins[p] \ but \subseteq w.from[k]
    BY DEF SoundRecs
  <2>2. \A p \in ParentsOf(w, k) : p \in DOMAIN more /\ more[p] = origins[p]
    BY <2>1 DEF Wider
  <2>3. ASSUME NEW src \in w.from[k] \ large
        PROVE  \/ src \in w.captured.sources
               \/ k \in Observations /\ src = w.recs[k].source
               \/ \E p \in ParentsOf(w, k) : src \in more[p]
    <3>1. \/ src \in w.captured.sources
          \/ k \in Observations /\ src = w.recs[k].source
          \/ \E p \in ParentsOf(w, k) : src \in origins[p]
      BY DEF SoundRecs
    <3> QED BY <2>2, <3>1
  <2>4. ASSUME NEW p \in ParentsOf(w, k) PROVE more[p] \ large \subseteq w.from[k]
    BY <2>1, <2>2
  <2> QED BY <2>2, <2>3, <2>4
<1> QED BY <1>1, <1>2 DEF SoundRecs

LEMMA WriteStays ==
  ASSUME NEW w, NEW origins, NEW more, NEW slipped, NEW out, NEW nodes, NEW others,
         NEW made, NEW later, SoundWrite(w, origins, slipped, nodes, made),
         Wider(origins, more), slipped \subseteq out, nodes \subseteq others, made \subseteq later
  PROVE  SoundWrite(w, more, out, others, later)
<1>1. slipped \cup OwnedUp(w) \subseteq out \cup OwnedUp(w)
  OBVIOUS
<1>2. SoundRecs(w, more, out \cup OwnedUp(w))
  BY <1>1, RecsStay DEF SoundWrite
<1>3. SoundCarried(w.merge, others, later, out \cup OwnedUp(w))
  <2>1. SoundCarried(w.merge, nodes, made, slipped \cup OwnedUp(w))
    BY DEF SoundWrite
  <2>2. Matched(w.merge.prov, w.merge.cites, out \cup OwnedUp(w))
    BY <1>1, <2>1, MatchedStays DEF SoundCarried
  <2> QED BY <2>1, <2>2 DEF SoundCarried
<1> QED BY <1>2, <1>3 DEF SoundWrite

LEMMA PlanStays ==
  ASSUME NEW w, NEW seen, NEW origins, NEW more, NEW slipped, NEW out, NEW nodes, NEW others,
         NEW made, NEW later, SoundPlan(w, seen, origins, slipped, nodes, made),
         Wider(origins, more), slipped \subseteq out, nodes \subseteq others, made \subseteq later
  PROVE  SoundPlan(w, seen, more, out, others, later)
<1>1. SoundCarried(w.merge, others, later, out \cup OwnedUp(w))
  <2>1. SoundCarried(w.merge, nodes, made, slipped \cup OwnedUp(w))
    BY DEF SoundPlan
  <2>2. slipped \cup OwnedUp(w) \subseteq out \cup OwnedUp(w)
    OBVIOUS
  <2>3. Matched(w.merge.prov, w.merge.cites, out \cup OwnedUp(w))
    BY <2>1, <2>2, MatchedStays DEF SoundCarried
  <2> QED BY <2>1, <2>3 DEF SoundCarried
<1>2. ASSUME NEW k \in DOMAIN w.recs
      PROVE  /\ \A p \in w.merge.extra[k] : p \in DOMAIN more /\ more[p] \subseteq w.from[k]
             /\ \A src \in w.from[k] \ seen : \E p \in w.merge.extra[k] : src \in more[p]
  <2>1. /\ \A p \in w.merge.extra[k] : p \in DOMAIN origins /\ origins[p] \subseteq w.from[k]
        /\ \A src \in w.from[k] \ seen : \E p \in w.merge.extra[k] : src \in origins[p]
    BY DEF SoundPlan
  <2>2. \A p \in w.merge.extra[k] : p \in DOMAIN more /\ more[p] = origins[p]
    BY <2>1 DEF Wider
  <2> QED BY <2>1, <2>2
<1> QED BY <1>1, <1>2 DEF SoundPlan

-----------------------------------------------------------------------------
(* The steps that make no commit. *)

\* What only grows.
Forward ==
  /\ Wider(Origins, Origins') /\ Slipped \subseteq Slipped'
  /\ AllNodes \subseteq AllNodes' /\ Made \subseteq Made'

LEMMA SessionStays ==
  ASSUME NEW q \in Sessions, SoundSession(q), Forward,
         call'[q] = call[q], readset'[q] = readset[q], truth'[q] = truth[q]
  PROVE  SoundSession(q)'
<1>1. CASE call[q].at = "writing"
  <2>1. SoundWrite(call[q], Origins, Slipped, AllNodes, Made) /\ readset[q] = NoReads
    BY <1>1 DEF SoundSession
  <2>2. SoundWrite(call[q], Origins', Slipped', AllNodes', Made')
    BY <2>1, WriteStays DEF Forward
  <2>3. SoundWrite(call'[q], Origins', Slipped', AllNodes', Made')
    BY <2>2
  <2> QED BY <1>1, <2>1, <2>3 DEF SoundSession
<1>2. CASE call[q].at # "writing"
  <2>1. SoundReads(readset[q], truth[q], call[q], Origins, Slipped)
    BY <1>2 DEF SoundSession
  <2>2. SoundReads(readset[q], truth[q], call[q], Origins', Slipped')
    BY <2>1, ReadsStay DEF Forward
  <2>3. SoundReads(readset'[q], truth'[q], call'[q], Origins', Slipped')
    BY <2>2
  <2>4. ASSUME call[q].at = "planned"
        PROVE  SoundPlan(call'[q], truth'[q], Origins', Slipped', AllNodes', Made')
    <3>1. SoundPlan(call[q], truth[q], Origins, Slipped, AllNodes, Made)
      BY <1>2, <2>4 DEF SoundSession
    <3>2. SoundPlan(call[q], truth[q], Origins', Slipped', AllNodes', Made')
      BY <3>1, PlanStays DEF Forward
    <3> QED BY <3>2
  <2> QED BY <1>2, <2>3, <2>4 DEF SoundSession
<1> QED BY <1>1, <1>2

LEMMA LeaksSlip == leaks \subseteq leaks' => Slipped \subseteq Slipped'
  BY DEF Slipped, Leaked, Ways

\* Nothing of the trees changes.
LEMMA SameTrees ==
  ASSUME UNCHANGED <<tree, parents>>
  PROVE  Made' = Made /\ AllNodes' = AllNodes /\ Origins' = Origins
<1>1. Made' = Made
  BY DEF Made
<1> QED BY <1>1 DEF AllNodes, Origins

LEMMA StillSound ==
  ASSUME TaintInv, UNCHANGED <<tree, parents>>, leaks \subseteq leaks',
         leaks' \subseteq Ways \X Sources, unlabelled' \subseteq Sources,
         NEW s \in Sessions, SoundSession(s)',
         \A q \in Sessions \ {s} :
           call'[q] = call[q] /\ readset'[q] = readset[q] /\ truth'[q] = truth[q]
  PROVE  TaintInv'
<1>1. Made' = Made /\ AllNodes' = AllNodes /\ Origins' = Origins
  BY SameTrees
<1>2. Slipped \subseteq Slipped'
  BY LeaksSlip
<1>3. Wider(Origins, Origins')
  BY <1>1 DEF Wider
<1>4. Forward
  BY <1>1, <1>2, <1>3 DEF Forward
<1>5. ASSUME NEW q \in Sessions, q # s PROVE SoundSession(q)'
  <2>1. SoundSession(q)
    BY DEF TaintInv
  <2> QED BY <1>4, <1>5, <2>1, SessionStays
<1>6. ASSUME NEW c \in Made PROVE SoundTree(tree[c], Origins', Slipped')
  <2>1. SoundTree(tree[c], Origins, Slipped)
    BY DEF TaintInv
  <2> QED BY <1>2, <1>3, <2>1, TreeStays
<1>7. \A c \in Made' : SoundTree(tree'[c], Origins', Slipped')
  BY <1>1, <1>6
<1>8. Ordered' /\ OneNode'
  BY <1>1 DEF TaintInv, Ordered, OneNode
<1>9. \A q \in Sessions : SoundSession(q)'
  BY <1>5
<1> QED BY <1>7, <1>8, <1>9 DEF TaintInv

\* A branch's tree is sound, and its records' latest nodes are known.
LEMMA Sees ==
  ASSUME PathInv, TaintInv, NEW b \in Branches, heads[b] # Null
  PROVE  /\ heads[b] \in Made /\ SoundTree(Tree(b), Origins, Slipped) /\ WholeTree(Tree(b))
         /\ DOMAIN Tree(b).from = DOMAIN Tree(b).rec
         /\ DOMAIN Tree(b).latest \cap Keys = DOMAIN Tree(b).rec
         /\ \A k \in DOMAIN Tree(b).rec :
              /\ Tree(b).latest[k] \in DOMAIN Origins /\ Tree(b).from[k] \subseteq Sources
              /\ Origins[Tree(b).latest[k]] = Tree(b).from[k]
              /\ k \in Observations => Tree(b).rec[k].source \in Tree(b).from[k]
<1>1. heads[b] \in Made /\ WholeTree(Tree(b)) /\ Labelled(Tree(b), Excused)
  BY Finds
<1>2. SoundTree(Tree(b), Origins, Slipped)
  BY <1>1 DEF TaintInv, Tree
<1>3. Headed(Tree(b), Origins, Slipped)
  BY <1>2 DEF SoundTree
<1>4. \A k \in DOMAIN Tree(b).rec : k \in DOMAIN Tree(b).latest
  BY <1>1 DEF PathInv, Named, Tree
<1>5. DOMAIN Tree(b).latest \cap Keys = DOMAIN Tree(b).rec
  BY <1>1, <1>4 DEF WholeTree
<1> HIDE DEF PathInv, TaintInv
<1> QED BY <1>1, <1>2, <1>3, <1>5 DEF Headed, Labelled

\* The id of a node that may have written a record.
LEMMA OriginIds ==
  ASSUME NEW p \in DOMAIN Origins
  PROVE  /\ p \in NodeIds /\ p # Null /\ p[1] \in Made /\ p[2] \in Keys /\ p = <<p[1], p[2]>>
         /\ p[2] \in DOMAIN tree[p[1]].from /\ Origins[p] = tree[p[1]].from[p[2]]
<1>1. p \in Made \X Keys /\ p[2] \in DOMAIN tree[p[1]].from /\ Origins[p] = tree[p[1]].from[p[2]]
  BY DEF Origins
<1>2. p \in NodeIds
  BY <1>1, MadeCommits DEF NodeIds
<1> QED BY <1>1, <1>2, WritePathAssumption

LEMMA ReadSound ==
  ASSUME PathInv, TaintInv, NEW s \in Sessions, NEW b \in Branches, NEW k \in Keys, Read(s, b, k)
  PROVE  TaintInv'
<1> DEFINE t == Tree(b)
           c == [at |-> "reading", branch |-> b, key |-> k, rec |-> t.rec[k],
                 node |-> At(t.latest, k), from |-> t.from[k]]
<1>1. /\ call[s] = Free /\ heads[b] # Null /\ k \in DOMAIN t.rec
      /\ call' = [call EXCEPT ![s] = c] /\ truth' = [truth EXCEPT ![s] = @ \cup t.from[k]]
      /\ UNCHANGED <<heads, tree, parents, readset, leaks, unlabelled>>
  BY DEF Read, May
<1>2. k \in Observations => t.rec[k].source \in t.from[k]
  BY <1>1, Sees
<1> HIDE DEF t
<1>3. SoundReads(readset[s], truth[s], call[s], Origins, Slipped)
  BY <1>1 DEF TaintInv, SoundSession, Free
<1>4. SoundReads(readset[s], truth[s] \cup t.from[k], c, Origins, Slipped)
  BY <1>1, <1>2, <1>3 DEF SoundReads, Free
<1>5. /\ call'[s] = c /\ truth'[s] = truth[s] \cup t.from[k] /\ readset'[s] = readset[s]
      /\ \A q \in Sessions \ {s} :
           call'[q] = call[q] /\ readset'[q] = readset[q] /\ truth'[q] = truth[q]
  BY <1>1 DEF PathInv, Shaped
<1>6. Origins' = Origins /\ Slipped' = Slipped
  BY <1>1, SameTrees DEF Slipped, Leaked
<1>7. SoundReads(readset'[s], truth'[s], call'[s], Origins', Slipped')
  BY <1>4, <1>5, <1>6
<1>8. call'[s].at \notin {"writing", "planned"}
  BY <1>5
<1>9. SoundSession(s)'
  BY <1>7, <1>8 DEF SoundSession
<1> QED BY <1>1, <1>5, <1>9, StillSound DEF TaintInv

\* What is captured is what was read, or both slip past.
LEMMA CaptureNodeSound ==
  ASSUME PathInv, TaintInv, NEW s \in Sessions, CaptureNode(s)
  PROVE  TaintInv'
<1> DEFINE w == call[s]
           k == w.key
           t == Tree(w.branch)
           node == At(t.latest, k)
           own == IF IsClaim(w.rec) THEN {} ELSE {w.rec.source}
           r == readset[s]
           slip == w.from \cup IF node = Null THEN {} ELSE t.from[k]
           c == [w EXCEPT !.at = "capturing"]
<1>1. /\ w.at = "reading" /\ call' = [call EXCEPT ![s] = c]
      /\ \E label : readset' = [readset EXCEPT ![s] =
                      [nodes |-> r.nodes \cup ({node} \ {Null}), sources |-> r.sources \cup own,
                       label |-> label]]
      /\ leaks' = IF node = w.node THEN leaks ELSE leaks \cup ({"raced"} \X slip)
      /\ UNCHANGED <<heads, tree, parents, truth, unlabelled>>
  <2>1. readset' = [readset EXCEPT ![s] =
                      [nodes |-> r.nodes \cup ({node} \ {Null}), sources |-> r.sources \cup own,
                       label |-> readset'[s].label]]
    BY DEF CaptureNode, PathInv, Shaped
  <2>2. call' = [call EXCEPT ![s] = c]
    BY DEF CaptureNode
  <2> QED BY <2>1, <2>2 DEF CaptureNode
<1>15. c.at = "capturing" /\ c.from = w.from /\ c.key = w.key /\ c.rec = w.rec
  <2>1. w = [at |-> w.at, branch |-> w.branch, key |-> w.key,
             rec |-> w.rec, node |-> w.node, from |-> w.from]
    BY <1>1 DEF PathInv, CallInv, Reading
  <2> HIDE DEF w
  <2> QED BY <2>1
<1> HIDE DEF c
<1>2. /\ w.branch \in Branches /\ heads[w.branch] # Null /\ truth[s] \subseteq Sources
      /\ Standing(k, w.rec)
      /\ \E d \in Made : k \in DOMAIN tree[d].rec /\ w.node = tree[d].latest[k]
                         /\ w.from = tree[d].from[k]
  BY <1>1 DEF PathInv, CallInv, Reading
<1>3. /\ k \in Keys /\ w.node \in DOMAIN Origins /\ Origins[w.node] = w.from
  <2>1. PICK d \in Made : k \in DOMAIN tree[d].rec /\ w.node = tree[d].latest[k]
                          /\ w.from = tree[d].from[k]
    BY <1>2
  <2>2. Headed(tree[d], Origins, Slipped)
    BY DEF TaintInv, SoundTree
  <2>3. DOMAIN tree[d].rec \subseteq Keys
    BY DEF PathInv, Trees, WholeTree
  <2> QED BY <2>1, <2>2, <2>3 DEF Headed
<1>4. node # Null => /\ node \in DOMAIN Origins /\ Origins[node] = t.from[k]
                     /\ t.from[k] \subseteq Sources
  <2> SUFFICES ASSUME node # Null
               PROVE  node \in DOMAIN Origins /\ Origins[node] = t.from[k]
                      /\ t.from[k] \subseteq Sources
    OBVIOUS
  <2>1. k \in DOMAIN t.latest /\ node = t.latest[k]
    BY DEF At
  <2>2. k \in DOMAIN t.rec
    BY <1>2, <1>3, <2>1, Sees
  <2> QED BY <1>2, <2>1, <2>2, Sees
<1>5. SoundReads(r, truth[s], w, Origins, Slipped)
  BY <1>1 DEF TaintInv, SoundSession
<1>6. slip \subseteq Sources
  <2>1. w.from \subseteq Sources
    BY <1>1, <1>2, <1>5 DEF SoundReads
  <2> QED BY <1>4, <2>1
<1>7. own \subseteq truth[s]
  <2>1. ~IsClaim(w.rec) => k \in Observations
    BY <1>2, <1>3 DEF Standing, IsClaim, Keys
  <2> QED BY <1>1, <1>5, <2>1 DEF SoundReads
<1> HIDE DEF t, own, r, slip
<1>8. /\ leaks \subseteq leaks' /\ leaks' \subseteq Ways \X Sources
      /\ node # w.node => slip \subseteq Slipped'
  <2>1. leaks \subseteq Ways \X Sources
    BY DEF TaintInv
  <2>2. CASE node = w.node
    BY <1>1, <2>1, <2>2
  <2>3. CASE node # w.node
    <3>1. leaks' = leaks \cup ({"raced"} \X slip)
      BY <1>1, <2>3
    <3>2. {"raced"} \X slip \subseteq Ways \X Sources
      BY <1>6 DEF Ways
    <3>3. slip \subseteq Slipped'
      <4> SUFFICES ASSUME NEW src \in slip PROVE src \in Slipped'
        OBVIOUS
      <4>1. <<"raced", src>> \in leaks' /\ "raced" \in Ways
        BY <3>1 DEF Ways
      <4> QED BY <4>1 DEF Slipped, Leaked
    <3> QED BY <2>1, <3>1, <3>2, <3>3
  <2> QED BY <2>2, <2>3
<1>9. Slipped \subseteq Slipped'
  BY <1>8, LeaksSlip
<1>10. PICK label : readset' = [readset EXCEPT ![s] =
                      [nodes |-> r.nodes \cup ({node} \ {Null}), sources |-> r.sources \cup own,
                       label |-> label]]
  BY <1>1
<1>11. /\ call'[s] = c /\ truth'[s] = truth[s]
       /\ readset'[s].nodes = r.nodes \cup ({node} \ {Null})
       /\ readset'[s].sources = r.sources \cup own
       /\ \A q \in Sessions \ {s} :
            call'[q] = call[q] /\ readset'[q] = readset[q] /\ truth'[q] = truth[q]
  BY <1>1, <1>10 DEF PathInv, Shaped
<1>12. SoundReads(readset'[s], truth[s], c, Origins, Slipped')
  <2>1. readset'[s].sources \subseteq truth[s]
    BY <1>5, <1>7, <1>11 DEF SoundReads
  <2>2. ASSUME NEW p \in readset'[s].nodes
        PROVE  p \in DOMAIN Origins /\ Origins[p] \ Slipped' \subseteq truth[s]
    <3>1. CASE p \in r.nodes
      BY <1>5, <1>9, <3>1 DEF SoundReads
    <3>2. CASE p = node /\ node # Null /\ node = w.node
      BY <1>1, <1>3, <1>5, <3>2 DEF SoundReads
    <3>3. CASE p = node /\ node # Null /\ node # w.node
      BY <1>4, <1>8, <3>3 DEF slip
    <3> QED BY <1>11, <3>1, <3>2, <3>3
  <2>3. ASSUME NEW src \in truth[s] \ Slipped'
        PROVE  src \in readset'[s].sources \/ \E p \in readset'[s].nodes : src \in Origins[p]
    <3>1. \/ src \in r.sources
          \/ \E p \in r.nodes : src \in Origins[p]
          \/ src \in w.from
      BY <1>5, <1>9 DEF SoundReads
    <3>2. CASE src \in w.from
      <4>1. node = w.node
        BY <1>8, <3>2 DEF slip
      <4>2. node # Null
        BY <1>3, <4>1, OriginIds
      <4> QED BY <1>3, <1>11, <3>2, <4>1, <4>2
    <3> QED BY <1>11, <3>1, <3>2
  <2>4. c.from \subseteq truth[s] /\ (c.key \in Observations => c.rec.source \in c.from)
    BY <1>1, <1>5, <1>15 DEF SoundReads
  <2> QED BY <1>15, <2>1, <2>2, <2>3, <2>4 DEF SoundReads
<1>13. Origins' = Origins
  BY <1>1, SameTrees
<1>14. SoundReads(readset'[s], truth'[s], call'[s], Origins', Slipped')
  BY <1>11, <1>12, <1>13
<1>16. SoundSession(s)'
  BY <1>11, <1>14, <1>15 DEF SoundSession
<1> QED BY <1>1, <1>8, <1>11, <1>16, StillSound DEF TaintInv

\* The label leaves the nodes and sources as they are.
LEMMA CaptureLabelSound ==
  ASSUME PathInv, TaintInv, NEW s \in Sessions, CaptureLabel(s)
  PROVE  TaintInv'
<1> DEFINE w == call[s]
           r == readset[s]
<1>1. /\ w.at = "capturing" /\ call' = [call EXCEPT ![s] = Free]
      /\ \E label : readset' = [readset EXCEPT ![s] =
                      [nodes |-> r.nodes, sources |-> r.sources, label |-> label]]
      /\ unlabelled' \in {unlabelled, unlabelled \cup w.from}
      /\ UNCHANGED <<heads, tree, parents, truth, leaks>>
  <2>1. readset' = [readset EXCEPT ![s] =
                      [nodes |-> r.nodes, sources |-> r.sources, label |-> readset'[s].label]]
    BY DEF CaptureLabel, PathInv, Shaped
  <2>2. unlabelled' \in {unlabelled, unlabelled \cup w.from}
    BY DEF CaptureLabel
  <2> QED BY <2>1, <2>2 DEF CaptureLabel
<1>2. SoundReads(r, truth[s], w, Origins, Slipped)
  BY <1>1 DEF TaintInv, SoundSession
<1>3. truth[s] \subseteq Sources
  BY DEF PathInv, CallInv
<1>4. unlabelled' \subseteq Sources
  <2>1. w.from \subseteq Sources
    BY <1>1, <1>2, <1>3 DEF SoundReads
  <2> QED BY <1>1, <2>1 DEF TaintInv
<1>5. SoundReads(r, truth[s], Free, Origins, Slipped)
  BY <1>1, <1>2 DEF SoundReads, Free
<1> HIDE DEF w, r
<1>6. PICK label : readset' = [readset EXCEPT ![s] =
                      [nodes |-> r.nodes, sources |-> r.sources, label |-> label]]
  BY <1>1
<1>7. /\ call'[s] = Free /\ truth'[s] = truth[s]
      /\ readset'[s].nodes = r.nodes /\ readset'[s].sources = r.sources
      /\ \A q \in Sessions \ {s} :
           call'[q] = call[q] /\ readset'[q] = readset[q] /\ truth'[q] = truth[q]
  BY <1>1, <1>6 DEF PathInv, Shaped
<1>8. Origins' = Origins /\ Slipped' = Slipped
  BY <1>1, SameTrees DEF Slipped, Leaked
<1>9. SoundReads(readset'[s], truth[s], Free, Origins, Slipped)
  BY <1>5, <1>7 DEF SoundReads
<1>10. SoundReads(readset'[s], truth'[s], call'[s], Origins', Slipped')
  BY <1>7, <1>8, <1>9
<1>11. SoundSession(s)'
  BY <1>7, <1>10 DEF SoundSession, Free
<1> QED BY <1>1, <1>4, <1>7, <1>11, StillSound DEF TaintInv

\* Beside what the session has seen, a write gives a key what it owns up to, the
\* record's own source, or what went into a parent that a merge adds.
WellGiven(w, seen, others, origins) ==
  /\ DOMAIN w.merge.extra \subseteq DOMAIN w.recs
  /\ \A k \in DOMAIN w.recs : w.from[k] = seen \cup others[k]
  /\ \A k \in DOMAIN w.recs : k \in Observations => w.recs[k].source \in w.from[k]
  /\ \A k \in DOMAIN w.merge.extra : \A p \in w.merge.extra[k] :
       p \in DOMAIN origins /\ origins[p] \ OwnedUp(w) \subseteq w.from[k]
  /\ \A k \in DOMAIN w.recs : \A src \in others[k] :
       \/ src \in OwnedUp(w)
       \/ k \in Observations /\ src = w.recs[k].source
       \/ k \in DOMAIN w.merge.extra /\ \E p \in w.merge.extra[k] : src \in origins[p]

LEMMA PrepareSound ==
  ASSUME PathInv, TaintInv, NEW s \in Sessions, NEW w, call[s] = Free \/ call[s].at = "planned",
         call' = [call EXCEPT ![s] = w], readset' = [readset EXCEPT ![s] = NoReads],
         UNCHANGED <<tree, parents, truth, leaks, unlabelled>>,
         w.at = "writing", w.captured = readset[s], w.leak \subseteq Ways \X Sources,
         SoundCarried(w.merge, AllNodes, Made, Slipped \cup OwnedUp(w)),
         NEW others, WellGiven(w, truth[s], others, Origins)
  PROVE  TaintInv'
<1> DEFINE r == readset[s]
           but == Slipped \cup OwnedUp(w)
<1>2. /\ call'[s] = w /\ readset'[s] = NoReads
      /\ \A q \in Sessions \ {s} :
           call'[q] = call[q] /\ readset'[q] = readset[q] /\ truth'[q] = truth[q]
  BY DEF PathInv, Shaped
<1>3. SoundReads(r, truth[s], Free, Origins, Slipped)
  <2>1. call[s].at \in {"nothing", "planned"}
    BY DEF Free
  <2>2. SoundReads(r, truth[s], call[s], Origins, Slipped)
    BY <2>1 DEF TaintInv, SoundSession
  <2> QED BY <2>1, <2>2 DEF SoundReads, Free
<1>4. truth[s] \subseteq Sources
  BY DEF PathInv, CallInv
<1>5. /\ r.sources \subseteq truth[s]
      /\ \A p \in r.nodes : p \in DOMAIN Origins /\ Origins[p] \ Slipped \subseteq truth[s]
      /\ \A src \in truth[s] \ Slipped : src \in r.sources \/ \E p \in r.nodes : src \in Origins[p]
  BY <1>3 DEF SoundReads, Free
<1> HIDE DEF r
<1>1. /\ DOMAIN w.merge.extra \subseteq DOMAIN w.recs
      /\ \A k \in DOMAIN w.recs : w.from[k] = truth[s] \cup others[k]
      /\ \A k \in DOMAIN w.recs : k \in Observations => w.recs[k].source \in w.from[k]
      /\ \A k \in DOMAIN w.merge.extra : \A p \in w.merge.extra[k] :
           p \in DOMAIN Origins /\ Origins[p] \ OwnedUp(w) \subseteq w.from[k]
      /\ \A k \in DOMAIN w.recs : \A src \in others[k] :
           \/ src \in OwnedUp(w)
           \/ k \in Observations /\ src = w.recs[k].source
           \/ k \in DOMAIN w.merge.extra /\ \E p \in w.merge.extra[k] : src \in Origins[p]
  BY DEF WellGiven
<1>6. w.captured = r
  BY DEF r
<1>7. ASSUME NEW k \in DOMAIN w.recs
      PROVE  /\ r.sources \subseteq w.from[k]
             /\ \A p \in ParentsOf(w, k) : p \in DOMAIN Origins /\ Origins[p] \ but \subseteq w.from[k]
             /\ \A src \in w.from[k] \ but :
                  \/ src \in r.sources
                  \/ k \in Observations /\ src = w.recs[k].source
                  \/ \E p \in ParentsOf(w, k) : src \in Origins[p]
  <2>1. ParentsOf(w, k) = r.nodes \cup IF k \in DOMAIN w.merge.extra THEN w.merge.extra[k] ELSE {}
    BY <1>6 DEF ParentsOf
  <2>2. ASSUME NEW p \in ParentsOf(w, k)
        PROVE  p \in DOMAIN Origins /\ Origins[p] \ but \subseteq w.from[k]
    <3>1. CASE p \in r.nodes
      BY <1>1, <1>5, <3>1
    <3>2. CASE k \in DOMAIN w.merge.extra /\ p \in w.merge.extra[k]
      BY <1>1, <3>2
    <3> QED BY <2>1, <3>1, <3>2
  <2>3. ASSUME NEW src \in w.from[k] \ but
        PROVE  \/ src \in r.sources
               \/ k \in Observations /\ src = w.recs[k].source
               \/ \E p \in ParentsOf(w, k) : src \in Origins[p]
    <3>1. src \notin Slipped /\ src \notin OwnedUp(w)
      OBVIOUS
    <3>2. CASE src \in truth[s]
      BY <1>5, <2>1, <3>1, <3>2
    <3>3. CASE src \in others[k]
      BY <1>1, <2>1, <3>1, <3>3
    <3> QED BY <1>1, <3>2, <3>3
  <2> QED BY <1>1, <1>5, <2>2, <2>3
<1>8. SoundRecs(w, Origins, but)
  <2>1. r.sources \subseteq Sources /\ \A p \in r.nodes : p \in DOMAIN Origins
    BY <1>4, <1>5
  <2> QED BY <1>1, <1>6, <1>7, <2>1 DEF SoundRecs
<1>9. SoundWrite(w, Origins, Slipped, AllNodes, Made)
  BY <1>8 DEF SoundWrite
<1>10. Made' = Made /\ AllNodes' = AllNodes /\ Origins' = Origins /\ Slipped' = Slipped
  BY SameTrees DEF Slipped, Leaked
<1>11. SoundWrite(call'[s], Origins', Slipped', AllNodes', Made')
  BY <1>2, <1>9, <1>10
<1>12. SoundSession(s)'
  BY <1>2, <1>11 DEF SoundSession
<1> QED BY <1>2, <1>12, StillSound DEF TaintInv

\* A write that is no merge carries nothing.
LEMMA NothingCarried ==
  ASSUME NEW nodes, NEW made, NEW but
  PROVE  SoundCarried(NoMerge, nodes, made, but) /\ DOMAIN NoMerge.extra = {}
<1>1. DOMAIN Nothing = {}
  BY DEF Nothing
<1> QED BY <1>1 DEF SoundCarried, NoMerge, Indexes, Matched

LEMMA WriteSound ==
  ASSUME PathInv, TaintInv, NEW s \in Sessions, NEW b \in Branches, NEW k \in Keys, NEW r,
         NEW hint \in BOOLEAN, StartWrite(s, b, k, r, hint), Standing(k, r)
  PROVE  TaintInv'
<1> DEFINE own == IF IsClaim(r) THEN {} ELSE {r.source}
           recs == Each({k}, r)
           from == Each({k}, truth[s] \cup own)
           w == [at |-> "writing", branch |-> b, recs |-> recs, times |-> Each({k}, 1),
                 hinted |-> IF hint THEN {k} ELSE {}, merge |-> NoMerge,
                 captured |-> readset[s], from |-> from, leak |-> {}]
           others == Each({k}, own)
<1>1. /\ call[s] = Free /\ UNCHANGED <<tree, parents, truth, leaks, unlabelled>>
      /\ call' = [call EXCEPT ![s] = w] /\ readset' = [readset EXCEPT ![s] = NoReads]
  BY DEF StartWrite, May, Prepare
<1>2. /\ DOMAIN recs = {k} /\ recs[k] = r /\ from[k] = truth[s] \cup own /\ others[k] = own
  BY DEF Each
<1>3. IF k \in Observations THEN own = {r.source} ELSE own = {}
  BY ContentsAssumption DEF Standing, IsClaim, Keys
<1>4. /\ w.at = "writing" /\ w.captured = readset[s] /\ w.leak = {} /\ w.recs = recs
      /\ w.from = from /\ w.merge = NoMerge
  OBVIOUS
<1> HIDE DEF own, recs, from, others, w
<1>5. /\ \A j \in DOMAIN w.recs : w.from[j] = truth[s] \cup others[j]
      /\ \A j \in DOMAIN w.recs : j \in Observations => w.recs[j].source \in w.from[j]
  BY <1>2, <1>3, <1>4
<1>9. ASSUME NEW j \in DOMAIN w.recs, NEW src \in others[j]
      PROVE  j \in Observations /\ src = w.recs[j].source
  BY <1>2, <1>3, <1>4
<1>6. /\ DOMAIN w.merge.extra = {}
      /\ SoundCarried(w.merge, AllNodes, Made, Slipped \cup OwnedUp(w))
  BY <1>4, NothingCarried
<1>7. WellGiven(w, truth[s], others, Origins) /\ w.leak \subseteq Ways \X Sources
  BY <1>4, <1>5, <1>6, <1>9 DEF WellGiven
<1>8. w.at = "writing" /\ w.captured = readset[s]
  BY <1>4
<1> QED BY <1>1, <1>6, <1>7, <1>8, PrepareSound

LEMMA MarkStaleSound ==
  ASSUME PathInv, TaintInv, NEW s \in Sessions, NEW b \in Branches, NEW src \in Sources,
         StartMarkStale(s, b, src)
  PROVE  TaintInv'
<1> DEFINE t == Tree(b)
           stale == {k \in Contaminated(t, src) \cap DOMAIN t.rec :
                       IsClaim(t.rec[k]) /\ t.rec[k].status = "asserted"}
           recs == [k \in stale |-> Claim(t.rec[k].start, "stale")]
           from == [k \in stale |-> truth[s] \cup t.from[k]]
           others == [k \in stale |-> t.from[k]]
           leak == {"stale"} \X UNION {t.from[k] : k \in stale}
           w == [at |-> "writing", branch |-> b, recs |-> recs,
                 times |-> [k \in stale |-> Cardinality(NodesOf(t, src, k))],
                 hinted |-> {}, merge |-> NoMerge,
                 captured |-> readset[s], from |-> from, leak |-> leak]
<1>1. /\ call[s] = Free /\ heads[b] # Null
      /\ UNCHANGED <<tree, parents, truth, leaks, unlabelled>>
      /\ call' = [call EXCEPT ![s] = w] /\ readset' = [readset EXCEPT ![s] = NoReads]
  BY DEF StartMarkStale, May, Prepare
<1>2. /\ WholeTree(t) /\ \A k \in DOMAIN t.rec : t.from[k] \subseteq Sources
  BY <1>1, Sees
<1>3. /\ w.at = "writing" /\ w.captured = readset[s] /\ w.leak = leak /\ w.recs = recs
      /\ w.from = from /\ w.merge = NoMerge
  OBVIOUS
<1> HIDE DEF t, w
<1>4. ASSUME NEW k \in stale PROVE k \notin Observations /\ k \in DOMAIN t.rec
  BY <1>2, ContentsAssumption DEF WholeTree, Standing, IsClaim
<1>5. leak \subseteq Ways \X Sources
  <2>1. UNION {t.from[k] : k \in stale} \subseteq Sources
    BY <1>2, <1>4
  <2> QED BY <2>1 DEF Ways
<1>6. DOMAIN recs = stale /\ \A k \in stale : from[k] = truth[s] \cup others[k] /\ others[k] = t.from[k]
  OBVIOUS
<1> HIDE DEF stale, recs, from, others
<1>7. ASSUME NEW k \in stale, NEW one \in others[k] PROVE one \in OwnedUp(w)
  <2>1. <<"stale", one>> \in leak
    BY <1>6, <1>7
  <2> HIDE DEF leak
  <2> QED BY <1>3, <2>1 DEF OwnedUp
<1> HIDE DEF leak
<1>8. /\ DOMAIN w.merge.extra = {}
      /\ SoundCarried(w.merge, AllNodes, Made, Slipped \cup OwnedUp(w))
  BY <1>3, NothingCarried
<1>10. /\ \A j \in DOMAIN w.recs : w.from[j] = truth[s] \cup others[j]
       /\ \A j \in DOMAIN w.recs : j \in Observations => w.recs[j].source \in w.from[j]
       /\ \A j \in DOMAIN w.recs : \A one \in others[j] : one \in OwnedUp(w)
  BY <1>3, <1>4, <1>6, <1>7
<1>11. WellGiven(w, truth[s], others, Origins) /\ w.leak \subseteq Ways \X Sources
  BY <1>3, <1>5, <1>8, <1>10 DEF WellGiven
<1>12. w.at = "writing" /\ w.captured = readset[s]
  BY <1>3
<1> QED BY <1>1, <1>8, <1>11, <1>12, PrepareSound

LEMMA ErrSound ==
  ASSUME PathInv, TaintInv, NEW s \in Sessions, WriteErr(s)
  PROVE  TaintInv'
<1>1. /\ call[s].at = "writing" /\ call' = [call EXCEPT ![s] = Free]
      /\ leaks' = leaks \cup ({"failed"} \X truth[s])
      /\ UNCHANGED <<heads, tree, parents, readset, truth, unlabelled>>
  BY DEF WriteErr
<1>2. /\ call'[s] = Free /\ truth'[s] = truth[s] /\ readset'[s] = readset[s]
      /\ \A q \in Sessions \ {s} :
           call'[q] = call[q] /\ readset'[q] = readset[q] /\ truth'[q] = truth[q]
  BY <1>1 DEF PathInv, Shaped
<1>3. truth[s] \subseteq Sources /\ leaks \subseteq Ways \X Sources /\ readset[s] = NoReads
  BY <1>1 DEF PathInv, CallInv, TaintInv, SoundSession
<1>4. leaks \subseteq leaks' /\ leaks' \subseteq Ways \X Sources
  BY <1>1, <1>3 DEF Ways
<1>5. truth[s] \subseteq Slipped'
  <2> SUFFICES ASSUME NEW src \in truth[s] PROVE src \in Slipped'
    OBVIOUS
  <2>1. <<"failed", src>> \in leaks' /\ "failed" \in Ways
    BY <1>1 DEF Ways
  <2> QED BY <2>1 DEF Slipped, Leaked
<1>6. SoundReads(NoReads, truth[s], Free, Origins', Slipped')
  BY <1>5 DEF SoundReads, NoReads, Free
<1>7. SoundReads(readset'[s], truth'[s], call'[s], Origins', Slipped')
  BY <1>2, <1>3, <1>6
<1>8. call'[s].at \notin {"writing", "planned"}
  BY <1>2 DEF Free
<1>9. SoundSession(s)'
  BY <1>7, <1>8 DEF SoundSession
<1> QED BY <1>1, <1>2, <1>4, <1>9, StillSound DEF TaintInv

LEMMA ForgetSound ==
  ASSUME PathInv, TaintInv, NEW s \in Sessions, NEW b \in Branches, NEW src \in Sources,
         StartForget(s, b, src)
  PROVE  TaintInv'
<1> DEFINE c == [at |-> "forgetting", branch |-> b, keys |-> Contaminated(Tree(b), src)]
<1>1. /\ call[s] = Free /\ call' = [call EXCEPT ![s] = c]
      /\ UNCHANGED <<heads, tree, parents, readset, truth, leaks, unlabelled>>
  BY DEF StartForget, May
<1>2. c.at = "forgetting"
  OBVIOUS
<1> HIDE DEF c
<1>3. /\ call'[s] = c /\ truth'[s] = truth[s] /\ readset'[s] = readset[s]
      /\ \A q \in Sessions \ {s} :
           call'[q] = call[q] /\ readset'[q] = readset[q] /\ truth'[q] = truth[q]
  BY <1>1 DEF PathInv, Shaped
<1>4. SoundReads(readset[s], truth[s], Free, Origins, Slipped)
  BY <1>1 DEF TaintInv, SoundSession, Free
<1>5. SoundReads(readset[s], truth[s], c, Origins, Slipped)
  BY <1>2, <1>4 DEF SoundReads, Free
<1>6. Origins' = Origins /\ Slipped' = Slipped
  BY <1>1, SameTrees DEF Slipped, Leaked
<1>7. SoundReads(readset'[s], truth'[s], call'[s], Origins', Slipped')
  BY <1>3, <1>5, <1>6
<1>8. SoundSession(s)'
  BY <1>2, <1>3, <1>7 DEF SoundSession
<1> QED BY <1>1, <1>3, <1>8, StillSound DEF TaintInv

\* Heads may move: what the trees and the sessions hold does not depend on them.
LEMMA SoundAnyway ==
  ASSUME TaintInv, UNCHANGED <<tree, parents, readset, call, truth, leaks, unlabelled>>
  PROVE  TaintInv'
<1>1. Made' = Made /\ AllNodes' = AllNodes /\ Origins' = Origins /\ Slipped' = Slipped
  BY SameTrees DEF Slipped, Leaked
<1>2. Forward
  BY <1>1 DEF Forward, Wider
<1>3. \A q \in Sessions : SoundSession(q)'
  BY <1>2, SessionStays DEF TaintInv
<1>4. \A c \in Made' : SoundTree(tree'[c], Origins', Slipped')
  BY <1>1 DEF TaintInv
<1>5. Ordered' /\ OneNode'
  BY <1>1 DEF TaintInv, Ordered, OneNode
<1> QED BY <1>3, <1>4, <1>5 DEF TaintInv

-----------------------------------------------------------------------------
(* A merge carries slots and source entries that match. *)

\* Two parts of trees have the same at x, or both nothing.
Same(f, g, x) == (x \in DOMAIN f <=> x \in DOMAIN g) /\ (x \in DOMAIN f => f[x] = g[x])

\* What decides if a plan writes at x: whether the sides differ there, and which
\* of them moved.
Moves(base, source, target, x) == ~Same(source, target, x) /\ ~Same(source, base, x)

LEMMA PlanTells ==
  ASSUME NEW base, NEW source, NEW target, NEW answer \in Answers, NEW x \in DOMAIN source
  PROVE  /\ x \in DOMAIN PlanWrites(base, source, target, answer) <=>
              /\ Moves(base, source, target, x)
              /\ Same(target, base, x) \/ answer.choice = "source"
         /\ Moves(base, source, target, x) /\ ~Same(target, base, x) =>
              x \in PlanConflicts(base, source, target, R!Unresolved)
<1> DEFINE rec(g) == IF x \in DOMAIN g THEN R!Opaque(g[x]) ELSE R!Absent
<1>1. ASSUME NEW a PROVE DecideAt(base, source, target, x, a) =
                           R!Decide(rec(base), rec(source), rec(target), a)
  BY DEF DecideAt
<1>2. ASSUME NEW f, NEW g PROVE rec(f) = rec(g) <=> Same(f, g, x)
  <2>1. \A v : R!Opaque(v) # R!Absent
    BY DEF R!Opaque, R!Absent
  <2>2. \A v, u : R!Opaque(v) = R!Opaque(u) <=> v = u
    BY DEF R!Opaque
  <2> QED BY <2>1, <2>2 DEF Same
<1>3. ASSUME NEW f PROVE rec(f).kind \in {"opaque", "absent"}
  BY DEF R!Opaque, R!Absent
<1>4. rec(source) # R!Absent
  BY DEF R!Opaque, R!Absent
<1>5. /\ rec(source) = rec(target) <=> Same(source, target, x)
      /\ rec(source) = rec(base) <=> Same(source, base, x)
      /\ rec(target) = rec(base) <=> Same(target, base, x)
  BY <1>2
<1> DEFINE sb == rec(base)
           ss == rec(source)
           st == rec(target)
<1>6. R!MergeTyped(sb, ss, st) = R!Absent
  <2>1. ss.kind \in {"opaque", "absent"}
    BY <1>3
  <2> HIDE DEF rec
  <2> QED BY <2>1 DEF R!MergeTyped
<1> HIDE DEF rec
<1>7. answer.choice \in {"source", "target", "unresolved"}
  BY WritePathAssumption
<1>8. ASSUME NEW a, a.choice \in {"source", "target", "unresolved"}
      PROVE  R!Decide(sb, ss, st, a) =
               IF ss = st \/ ss = sb THEN R!Nothing
               ELSE IF st = sb THEN R!Write(ss)
               ELSE IF a.choice = "source" THEN R!Resolved(ss)
               ELSE IF a.choice = "target" THEN R!Nothing ELSE R!Conflict
  <2>1. R!AskPolicy(ss, a) = IF a.choice = "source" THEN R!Resolved(ss)
                             ELSE IF a.choice = "target" THEN R!Nothing ELSE R!Conflict
    <3>1. CASE a.choice = "source"
      BY <1>4, <3>1 DEF R!AskPolicy
    <3>2. CASE a.choice = "target"
      BY <3>2 DEF R!AskPolicy
    <3>3. CASE a.choice = "unresolved"
      BY <3>3 DEF R!AskPolicy
    <3> QED BY <1>8, <3>1, <3>2, <3>3
  <2> HIDE DEF sb, ss, st
  <2> QED BY <1>4, <1>6, <2>1 DEF R!Decide, ss
<1>9. /\ R!Nothing.act = "nothing" /\ R!Write(ss).act = "write"
      /\ R!Resolved(ss).act = "resolved" /\ R!Conflict.act = "conflict"
  BY DEF R!Nothing, R!Write, R!Resolved, R!Conflict
<1>10. R!Decide(sb, ss, st, answer).act \in {"write", "resolved"} <=>
         /\ ss # st /\ ss # sb
         /\ st = sb \/ answer.choice = "source"
  <2> HIDE DEF sb, ss, st
  <2> QED BY <1>7, <1>8, <1>9
<1>11. ss # st /\ ss # sb /\ st # sb => R!Decide(sb, ss, st, R!Unresolved).act = "conflict"
  <2>1. R!Unresolved.choice = "unresolved"
    BY DEF R!Unresolved
  <2> HIDE DEF sb, ss, st
  <2> QED BY <1>8, <1>9, <2>1
<1>12. x \in DOMAIN PlanWrites(base, source, target, answer) <=>
         DecideAt(base, source, target, x, answer).act \in {"write", "resolved"}
  BY DEF PlanWrites
<1>13. x \in PlanConflicts(base, source, target, R!Unresolved) <=>
         DecideAt(base, source, target, x, R!Unresolved).act = "conflict"
  BY DEF PlanConflicts
<1> QED BY <1>1, <1>5, <1>10, <1>11, <1>12, <1>13 DEF Moves

\* Where slots and entries match, an entry says that its slot has a node with the
\* source.
LEMMA EntrySays ==
  ASSUME NEW prov, NEW cites, NEW but, Matched(prov, cites, but), NEW src, src \notin but, NEW x
  PROVE  /\ <<src, x>> \in DOMAIN cites <=> x \in DOMAIN prov /\ src \in prov[x].sources
         /\ <<src, x>> \in DOMAIN cites => cites[<<src, x>>] = prov[x].id
<1> DEFINE y == <<src, x>>
<1>1. y[1] = src /\ y[2] = x
  OBVIOUS
<1>2. y \in DOMAIN cites => x \in DOMAIN prov /\ src \in prov[x].sources
  BY <1>1 DEF Matched
<1>3. x \in DOMAIN prov /\ src \in prov[x].sources => y \in DOMAIN cites /\ cites[y] = prov[x].id
  BY DEF Matched
<1> QED BY <1>2, <1>3

\* Two sides have the same entry where they have the same slot, and the other way
\* round if there is a node with the source.
LEMMA SameEntry ==
  ASSUME NEW f, NEW g, NEW but, Matched(f.prov, f.cites, but), Matched(g.prov, g.cites, but),
         \A z \in DOMAIN f.prov \cap DOMAIN g.prov :
           f.prov[z].id = g.prov[z].id => f.prov[z] = g.prov[z],
         NEW src, src \notin but, NEW x
  PROVE  /\ Same(f.prov, g.prov, x) => Same(f.cites, g.cites, <<src, x>>)
         /\ <<src, x>> \in DOMAIN f.cites /\ Same(f.cites, g.cites, <<src, x>>) =>
              Same(f.prov, g.prov, x)
<1> DEFINE y == <<src, x>>
<1>1. /\ y \in DOMAIN f.cites <=> x \in DOMAIN f.prov /\ src \in f.prov[x].sources
      /\ y \in DOMAIN f.cites => f.cites[y] = f.prov[x].id
  BY EntrySays
<1>2. /\ y \in DOMAIN g.cites <=> x \in DOMAIN g.prov /\ src \in g.prov[x].sources
      /\ y \in DOMAIN g.cites => g.cites[y] = g.prov[x].id
  BY EntrySays
<1> HIDE DEF y
<1>3. Same(f.prov, g.prov, x) => Same(f.cites, g.cites, y)
  BY <1>1, <1>2 DEF Same
<1>4. y \in DOMAIN f.cites /\ Same(f.cites, g.cites, y) => Same(f.prov, g.prov, x)
  BY <1>1, <1>2 DEF Same
<1> QED BY <1>3, <1>4 DEF y

LEMMA PlanMatched ==
  ASSUME NEW base, NEW source, NEW target, NEW answer \in Answers, NEW slipped, NEW but,
         slipped \subseteq but, DOMAIN source.cites \subseteq Sources \X Slots,
         Matched(base.prov, base.cites, slipped), Matched(source.prov, source.cites, slipped),
         Matched(target.prov, target.cites, slipped),
         NEW nodes, \A n, m \in nodes : n.id = m.id => n = m,
         Nodes(base) \subseteq nodes, Nodes(source) \subseteq nodes, Nodes(target) \subseteq nodes,
         \A x \in Contested(base, source, target) : source.prov[x].sources \subseteq but
  PROVE  Matched(PlanWrites(base.prov, source.prov, target.prov, answer),
                 PlanWrites(base.cites, source.cites, target.cites, answer), but)
<1> DEFINE P == PlanWrites(base.prov, source.prov, target.prov, answer)
           C == PlanWrites(base.cites, source.cites, target.cites, answer)
<1>1. DOMAIN P \subseteq DOMAIN source.prov /\ \A x \in DOMAIN P : P[x] = source.prov[x]
  BY PlanIs
<1>2. DOMAIN C \subseteq DOMAIN source.cites /\ \A y \in DOMAIN C : C[y] = source.cites[y]
  BY PlanIs
<1>3. /\ \A z \in DOMAIN source.prov \cap DOMAIN target.prov :
           source.prov[z].id = target.prov[z].id => source.prov[z] = target.prov[z]
      /\ \A z \in DOMAIN source.prov \cap DOMAIN base.prov :
           source.prov[z].id = base.prov[z].id => source.prov[z] = base.prov[z]
      /\ \A z \in DOMAIN target.prov \cap DOMAIN base.prov :
           target.prov[z].id = base.prov[z].id => target.prov[z] = base.prov[z]
  BY DEF Nodes
<1>4. \A x \in DOMAIN source.prov :
        /\ x \in DOMAIN P <=> /\ Moves(base.prov, source.prov, target.prov, x)
                              /\ Same(target.prov, base.prov, x) \/ answer.choice = "source"
        /\ Moves(base.prov, source.prov, target.prov, x) /\ ~Same(target.prov, base.prov, x) =>
             x \in Contested(base, source, target)
  BY PlanTells DEF Contested
<1>5. \A y \in DOMAIN source.cites :
        y \in DOMAIN C <=> /\ Moves(base.cites, source.cites, target.cites, y)
                           /\ Same(target.cites, base.cites, y) \/ answer.choice = "source"
  BY PlanTells
<1> HIDE DEF P, C
<1>6. ASSUME NEW src, src \notin but, NEW x, <<src, x>> \in DOMAIN source.cites
      PROVE  /\ x \in DOMAIN source.prov /\ src \in source.prov[x].sources
             /\ source.cites[<<src, x>>] = source.prov[x].id
             /\ x \in DOMAIN P <=> <<src, x>> \in DOMAIN C
  <2> DEFINE y == <<src, x>>
  <2>1. src \notin slipped
    BY <1>6
  <2>2. /\ x \in DOMAIN source.prov /\ src \in source.prov[x].sources
        /\ source.cites[y] = source.prov[x].id
    BY <1>6, <2>1, EntrySays
  <2>3. Same(source.prov, target.prov, x) <=> Same(source.cites, target.cites, y)
    BY <1>3, <1>6, <2>1, SameEntry
  <2>4. Same(source.prov, base.prov, x) <=> Same(source.cites, base.cites, y)
    BY <1>3, <1>6, <2>1, SameEntry
  <2>5. Same(target.prov, base.prov, x) => Same(target.cites, base.cites, y)
    BY <1>3, <2>1, SameEntry
  <2>6. Moves(base.prov, source.prov, target.prov, x) <=>
          Moves(base.cites, source.cites, target.cites, y)
    BY <2>3, <2>4 DEF Moves
  <2>7. Moves(base.prov, source.prov, target.prov, x) => Same(target.prov, base.prov, x)
    BY <1>4, <1>6, <2>2
  <2>8. y \in DOMAIN source.cites
    BY <1>6
  <2> HIDE DEF y
  <2>9. x \in DOMAIN P <=> y \in DOMAIN C
    BY <1>4, <1>5, <2>2, <2>5, <2>6, <2>7, <2>8
  <2> QED BY <2>2, <2>9 DEF y
<1>7. ASSUME NEW x \in DOMAIN P, NEW src \in P[x].sources \ but
      PROVE  <<src, x>> \in DOMAIN C /\ C[<<src, x>>] = P[x].id
  <2>1. <<src, x>> \in DOMAIN source.cites
    BY <1>1, EntrySays
  <2> QED BY <1>1, <1>2, <1>6, <2>1
<1>8. ASSUME NEW y \in DOMAIN C, y[1] \notin but, y = <<y[1], y[2]>>
      PROVE  y[2] \in DOMAIN P /\ y[1] \in P[y[2]].sources
  <2>1. <<y[1], y[2]>> \in DOMAIN source.cites /\ <<y[1], y[2]>> \in DOMAIN C
    BY <1>2, <1>8
  <2> QED BY <1>1, <1>6, <1>8, <2>1
<1>9. \A y \in DOMAIN C : y = <<y[1], y[2]>>
  BY <1>2
<1>10. \A y \in DOMAIN C : y[1] \notin but => y[2] \in DOMAIN P /\ y[1] \in P[y[2]].sources
  BY <1>8, <1>9
<1> QED BY <1>7, <1>10 DEF Matched, P, C

\* A node of a commit is known with its sources, and so is what is behind it.
LEMMA NodeKnown ==
  ASSUME PathInv, TaintInv, NEW n \in AllNodes, NEW u
  PROVE  /\ SoundNode(n, Origins, Slipped) /\ n.id[1] \in Made
         /\ n.sources \subseteq Behind(n, u) /\ Behind(n, u) \subseteq Sources
         /\ n.id \in DOMAIN Origins => Origins[n.id] \subseteq Behind(n, u)
<1>1. PICK c \in Made : n \in Nodes(tree[c])
  BY DEF AllNodes
<1>2. SoundNode(n, Origins, Slipped) /\ n.id[1] \in Made
  BY <1>1 DEF TaintInv, SoundTree, OneNode
<1> DEFINE t == tree[n.id[1]]
<1>3. Behind(n, u) = n.sources \cup IF n.key \in DOMAIN t.from THEN t.from[n.key] ELSE {}
  BY <1>2 DEF Behind
<1>4. \A k \in DOMAIN t.from : t.from[k] \subseteq Sources
  BY <1>2 DEF PathInv, Trees, Labelled
<1>5. n.sources \subseteq Sources /\ n.key = n.id[2]
  BY <1>2 DEF SoundNode
<1>6. n.id \in DOMAIN Origins => n.key \in DOMAIN t.from /\ Origins[n.id] = t.from[n.key]
  BY <1>5, OriginIds
<1> HIDE DEF t
<1> QED BY <1>2, <1>3, <1>4, <1>5, <1>6

LEMMA BaseMade ==
  ASSUME PathInv, TaintInv, NEW b \in Branches, heads[b] # Null, NEW c,
         Cardinality(MergeBases(heads[b], c)) = 1
  PROVE  (CHOOSE d \in MergeBases(heads[b], c) : TRUE) \in Made
<1> DEFINE bases == MergeBases(heads[b], c)
<1>1. heads[b] \in Made
  BY Finds
<1>2. Ancestors(heads[b]) \subseteq Made
  BY <1>1, AncestorsMade DEF PathInv, Shaped, TaintInv
<1>3. bases \subseteq Made
  BY <1>2 DEF MergeBases
<1> DEFINE it == CHOOSE d \in bases : TRUE
<1>4. bases # {}
  BY FS_EmptySet
<1>5. it \in bases
  <2> HIDE DEF bases
  <2> QED BY <1>4
<1> QED BY <1>3, <1>5

\* The sources of a key's record on both sides of a merge.
FromBoth(source, target, k) ==
  source.from[k] \cup IF k \in DOMAIN target.from THEN target.from[k] ELSE {}

\* The parents a merge adds are the nodes that wrote the two sides' records.
LEMMA BothGive ==
  ASSUME PathInv, TaintInv, NEW b \in Branches, heads[b] # Null,
         NEW to \in Branches, heads[to] # Null, NEW k \in DOMAIN Tree(b).rec
  PROVE  /\ \A p \in BothSides(Tree(b), Tree(to), k) :
              p \in DOMAIN Origins /\ Origins[p] \subseteq FromBoth(Tree(b), Tree(to), k)
         /\ \A src \in FromBoth(Tree(b), Tree(to), k) :
              \E p \in BothSides(Tree(b), Tree(to), k) : src \in Origins[p]
<1> DEFINE source == Tree(b)
           target == Tree(to)
           both == BothSides(source, target, k)
           more == FromBoth(source, target, k)
<1>1. /\ source.latest[k] \in DOMAIN Origins /\ Origins[source.latest[k]] = source.from[k]
      /\ k \in DOMAIN source.latest
  BY Sees
<1>2. k \in Keys
  BY Sees DEF WholeTree
<1>3. /\ k \in DOMAIN target.from <=> k \in DOMAIN target.latest
      /\ k \in DOMAIN target.from => /\ target.latest[k] \in DOMAIN Origins
                                     /\ Origins[target.latest[k]] = target.from[k]
  BY <1>2, Sees
<1> HIDE DEF source, target
<1>4. both = {source.latest[k]} \cup
               IF k \in DOMAIN target.latest THEN {target.latest[k]} ELSE {}
  <2>1. source.latest[k] # Null
    BY <1>1, OriginIds
  <2>2. k \in DOMAIN target.latest => target.latest[k] # Null
    BY <1>3, OriginIds
  <2> QED BY <1>1, <2>1, <2>2 DEF BothSides, At
<1>5. more = source.from[k] \cup IF k \in DOMAIN target.from THEN target.from[k] ELSE {}
  BY DEF FromBoth
<1> HIDE DEF both, more
<1>6. \A p \in both : p \in DOMAIN Origins /\ Origins[p] \subseteq more
  BY <1>1, <1>3, <1>4, <1>5
<1>7. \A src \in more : \E p \in both : src \in Origins[p]
  BY <1>1, <1>3, <1>4, <1>5
<1> QED BY <1>6, <1>7 DEF both, more, source, target

\* The nodes and entries a merge carries are of commits made, and match but for the
\* slots that two branches both filled.
LEMMA CarriedSound ==
  ASSUME PathInv, TaintInv, NEW b \in Branches, heads[b] # Null,
         NEW to \in Branches, heads[to] # Null, NEW base, \E c \in Made : base = tree[c],
         NEW answer \in Answers, NEW merge, NEW but, Slipped \subseteq but,
         merge.prov = PlanWrites(base.prov, Tree(b).prov, Tree(to).prov, answer),
         merge.cites = PlanWrites(base.cites, Tree(b).cites, Tree(to).cites, answer),
         merge.merged = Each({b}, heads[b]),
         \A x \in Contested(base, Tree(b), Tree(to)) : Behind(Tree(b).prov[x], Tree(b)) \subseteq but
  PROVE  SoundCarried(merge, AllNodes, Made, but)
<1> DEFINE source == Tree(b)
           target == Tree(to)
<1>1. /\ SoundTree(source, Origins, Slipped) /\ SoundTree(target, Origins, Slipped)
      /\ heads[b] \in Made /\ heads[to] \in Made /\ SoundTree(base, Origins, Slipped)
  BY Sees DEF TaintInv
<1>2. Nodes(base) \subseteq AllNodes /\ Nodes(source) \subseteq AllNodes /\ Nodes(target) \subseteq AllNodes
  BY <1>1 DEF AllNodes, Tree
<1>3. /\ Matched(base.prov, base.cites, Slipped) /\ Matched(source.prov, source.cites, Slipped)
      /\ Matched(target.prov, target.cites, Slipped) /\ Indexes(source.prov, source.cites)
  BY <1>1 DEF SoundTree
<1>4. \A n, m \in AllNodes : n.id = m.id => n = m
  BY DEF TaintInv, OneNode
<1> HIDE DEF source, target
<1>5. ASSUME NEW x \in Contested(base, source, target) PROVE source.prov[x].sources \subseteq but
  <2>1. x \in DOMAIN source.prov
    BY DEF Contested, PlanConflicts
  <2>2. source.prov[x] \in AllNodes
    BY <1>2, <2>1 DEF Nodes
  <2>3. source.prov[x].sources \subseteq Behind(source.prov[x], source)
    BY <2>2, NodeKnown
  <2>4. Behind(source.prov[x], source) \subseteq but
    BY DEF source, target
  <2> QED BY <2>3, <2>4
<1>6. DOMAIN source.cites \subseteq Sources \X Slots
  BY <1>3 DEF Indexes
<1> DEFINE P == PlanWrites(base.prov, source.prov, target.prov, answer)
           C == PlanWrites(base.cites, source.cites, target.cites, answer)
<1>7. Matched(P, C, but)
  BY <1>2, <1>3, <1>4, <1>5, <1>6, PlanMatched
<1>8. /\ DOMAIN P \subseteq DOMAIN source.prov /\ \A x \in DOMAIN P : P[x] = source.prov[x]
      /\ DOMAIN C \subseteq DOMAIN source.cites /\ \A y \in DOMAIN C : C[y] = source.cites[y]
  BY PlanIs
<1>9. merge.prov = P /\ merge.cites = C
  BY DEF source, target
<1> HIDE DEF P, C
<1>10. Indexes(P, C)
  BY <1>3, <1>8 DEF Indexes
<1>11. \A x \in DOMAIN P : P[x] \in AllNodes
  BY <1>2, <1>8 DEF Nodes
<1>12. \A a \in DOMAIN merge.merged : a \in Branches /\ merge.merged[a] \in Made
  BY <1>1 DEF Each
<1> QED BY <1>7, <1>9, <1>10, <1>11, <1>12 DEF SoundCarried

LEMMA MergeSound ==
  ASSUME PathInv, TaintInv, NEW s \in Sessions, NEW b \in Branches, NEW to \in Branches,
         NEW answer \in Answers, StartMerge(s, b, to, answer)
  PROVE  TaintInv'
<1> DEFINE base == tree[CHOOSE c \in MergeBases(heads[b], heads[to]) : TRUE]
           source == Tree(b)
           target == Tree(to)
           recs == PlanWrites(base.rec, source.rec, target.rec, answer)
           merge == [extra  |-> [k \in DOMAIN recs |-> BothSides(source, target, k)],
                     prov   |-> PlanWrites(base.prov, source.prov, target.prov, answer),
                     cites  |-> PlanWrites(base.cites, source.cites, target.cites, answer),
                     merged |-> Each({b}, heads[b])]
           from == [k \in DOMAIN recs |-> truth[s] \cup source.from[k] \cup
                      IF k \in DOMAIN target.from THEN target.from[k] ELSE {}]
           others == [k \in DOMAIN recs |-> FromBoth(source, target, k)]
           contested == Contested(base, source, target)
           leak == {"overwritten"} \X UNION {Behind(source.prov[x], source) : x \in contested}
           w == [at |-> "planned", source |-> b, branch |-> to, recs |-> recs,
                 merge |-> merge, from |-> from, leak |-> leak]
<1>1. /\ call[s] = Free /\ heads[b] # Null /\ heads[to] # Null
      /\ Cardinality(MergeBases(heads[b], heads[to])) = 1
      /\ UNCHANGED <<heads, tree, parents, readset, truth, leaks, unlabelled>>
      /\ call' = [call EXCEPT ![s] = w]
  BY DEF StartMerge, May
<1>2. \E c \in Made : base = tree[c]
  BY <1>1, BaseMade
<1>3. DOMAIN recs \subseteq DOMAIN source.rec /\ \A k \in DOMAIN recs : recs[k] = source.rec[k]
  BY PlanIs
<1>4. /\ w.at = "planned" /\ w.leak = leak /\ w.recs = recs
      /\ w.from = from /\ w.merge = merge
      /\ merge.extra = [k \in DOMAIN recs |-> BothSides(source, target, k)]
      /\ merge.prov = PlanWrites(base.prov, source.prov, target.prov, answer)
      /\ merge.cites = PlanWrites(base.cites, source.cites, target.cites, answer)
      /\ merge.merged = Each({b}, heads[b])
  OBVIOUS
<1> HIDE DEF w, merge
<1>5. ASSUME NEW k \in DOMAIN recs
      PROVE  /\ from[k] = truth[s] \cup others[k]
             /\ \A p \in BothSides(source, target, k) :
                  p \in DOMAIN Origins /\ Origins[p] \subseteq others[k]
             /\ \A src \in others[k] : \E p \in BothSides(source, target, k) : src \in Origins[p]
             /\ k \in Observations => recs[k].source \in others[k]
  <2>1. others[k] = FromBoth(source, target, k)
    OBVIOUS
  <2>2. from[k] = truth[s] \cup others[k]
    BY <2>1 DEF FromBoth
  <2>3. k \in DOMAIN source.rec /\ recs[k] = source.rec[k]
    BY <1>3
  <2> HIDE DEF recs, others, from
  <2>4. /\ \A p \in BothSides(source, target, k) :
             p \in DOMAIN Origins /\ Origins[p] \subseteq others[k]
        /\ \A src \in others[k] : \E p \in BothSides(source, target, k) : src \in Origins[p]
    BY <1>1, <2>1, <2>3, BothGive
  <2>5. k \in Observations => source.rec[k].source \in source.from[k]
    BY <1>1, <2>3, Sees
  <2>6. source.from[k] \subseteq others[k]
    BY <2>1 DEF FromBoth
  <2> QED BY <2>2, <2>3, <2>4, <2>5, <2>6
<1> HIDE DEF recs, others, from
<1>6. ASSUME NEW k \in DOMAIN w.recs
      PROVE  /\ truth[s] \subseteq w.from[k]
             /\ k \in Observations => w.recs[k].source \in w.from[k]
             /\ \A p \in w.merge.extra[k] : p \in DOMAIN Origins /\ Origins[p] \subseteq w.from[k]
             /\ \A src \in w.from[k] \ truth[s] : \E p \in w.merge.extra[k] : src \in Origins[p]
  <2>1. w.merge.extra[k] = BothSides(source, target, k)
    BY <1>4
  <2> HIDE DEF source, target
  <2> QED BY <1>4, <1>5, <2>1
<1>7. ASSUME NEW x \in contested
      PROVE  Behind(source.prov[x], source) \subseteq Sources
  <2>1. x \in DOMAIN source.prov
    BY DEF Contested, PlanConflicts
  <2>2. heads[b] \in Made
    BY <1>1, Finds
  <2>3. source.prov[x] \in AllNodes
    BY <2>1, <2>2 DEF AllNodes, Nodes, Tree
  <2> QED BY <2>3, NodeKnown
<1> HIDE DEF source, target, base, contested
<1>8. leak \subseteq Ways \X Sources
  <2>1. UNION {Behind(source.prov[x], source) : x \in contested} \subseteq Sources
    BY <1>7
  <2> QED BY <2>1 DEF Ways
<1>9. ASSUME NEW x \in contested PROVE Behind(source.prov[x], source) \subseteq OwnedUp(w)
  <2> SUFFICES ASSUME NEW src \in Behind(source.prov[x], source) PROVE src \in OwnedUp(w)
    OBVIOUS
  <2>1. <<"overwritten", src>> \in leak
    OBVIOUS
  <2> HIDE DEF leak
  <2> QED BY <1>4, <2>1 DEF OwnedUp
<1>10. w.leak \subseteq Ways \X Sources
  BY <1>4, <1>8
<1> HIDE DEF leak
<1> DEFINE but == Slipped \cup OwnedUp(w)
<1>11. Slipped \subseteq but /\ \A x \in contested : Behind(source.prov[x], source) \subseteq but
  BY <1>9
<1> HIDE DEF but
<1>12. SoundCarried(merge, AllNodes, Made, but)
  <2> USE DEF source, target, contested
  <2> QED BY <1>1, <1>2, <1>4, <1>11, CarriedSound
<1>13. SoundCarried(w.merge, AllNodes, Made, Slipped \cup OwnedUp(w))
  BY <1>4, <1>12 DEF but
<1>14. SoundPlan(w, truth[s], Origins, Slipped, AllNodes, Made)
  BY <1>4, <1>6, <1>10, <1>13 DEF SoundPlan
<1>15. SoundReads(readset[s], truth[s], w, Origins, Slipped)
  <2>1. SoundReads(readset[s], truth[s], Free, Origins, Slipped)
    BY <1>1 DEF TaintInv, SoundSession, Free
  <2> QED BY <1>4, <2>1 DEF SoundReads, Free
<1>16. /\ call'[s] = w /\ truth'[s] = truth[s] /\ readset'[s] = readset[s]
       /\ \A q \in Sessions \ {s} :
            call'[q] = call[q] /\ readset'[q] = readset[q] /\ truth'[q] = truth[q]
  BY <1>1 DEF PathInv, Shaped
<1>17. Made' = Made /\ AllNodes' = AllNodes /\ Origins' = Origins /\ Slipped' = Slipped
  BY <1>1, SameTrees DEF Slipped, Leaked
<1>18. /\ SoundReads(readset'[s], truth'[s], call'[s], Origins', Slipped')
       /\ SoundPlan(call'[s], truth'[s], Origins', Slipped', AllNodes', Made')
  BY <1>14, <1>15, <1>16, <1>17
<1>19. SoundSession(s)'
  BY <1>4, <1>16, <1>18 DEF SoundSession
<1> QED BY <1>1, <1>16, <1>19, StillSound DEF TaintInv

\* The sources behind a key's record in a tree.
SourcesAt(t, k) == IF k \in DOMAIN t.from THEN t.from[k] ELSE {}

\* The latest nodes of a key on two branches are those that wrote its records there.
LEMMA SidesGive ==
  ASSUME PathInv, TaintInv, NEW b \in Branches, heads[b] # Null,
         NEW to \in Branches, heads[to] # Null, NEW k \in Keys
  PROVE  /\ SourcesAt(Tree(b), k) \cup SourcesAt(Tree(to), k) \subseteq Sources
         /\ \A p \in BothSides(Tree(b), Tree(to), k) :
              /\ p \in DOMAIN Origins
              /\ Origins[p] \subseteq SourcesAt(Tree(b), k) \cup SourcesAt(Tree(to), k)
<1>1. ASSUME NEW a \in Branches, heads[a] # Null
      PROVE  /\ SourcesAt(Tree(a), k) \subseteq Sources
             /\ At(Tree(a).latest, k) # Null =>
                  /\ At(Tree(a).latest, k) \in DOMAIN Origins
                  /\ Origins[At(Tree(a).latest, k)] = SourcesAt(Tree(a), k)
  <2> DEFINE t == Tree(a)
  <2>1. /\ DOMAIN t.from = DOMAIN t.rec /\ (k \in DOMAIN t.latest <=> k \in DOMAIN t.rec)
        /\ k \in DOMAIN t.rec => /\ t.latest[k] \in DOMAIN Origins /\ t.from[k] \subseteq Sources
                                /\ Origins[t.latest[k]] = t.from[k]
    BY <1>1, Sees
  <2> HIDE DEF t
  <2>2. SourcesAt(t, k) \subseteq Sources
    BY <2>1 DEF SourcesAt
  <2>3. ASSUME At(t.latest, k) # Null
        PROVE  At(t.latest, k) \in DOMAIN Origins /\ Origins[At(t.latest, k)] = SourcesAt(t, k)
    <3>1. k \in DOMAIN t.latest
      BY <2>3 DEF At
    <3> QED BY <2>1, <3>1 DEF At, SourcesAt
  <2> QED BY <2>2, <2>3 DEF t
<1>2. \A p \in BothSides(Tree(b), Tree(to), k) :
        p # Null /\ (p = At(Tree(b).latest, k) \/ p = At(Tree(to).latest, k))
  BY DEF BothSides
<1>3. /\ SourcesAt(Tree(b), k) \subseteq Sources
      /\ At(Tree(b).latest, k) # Null =>
           /\ At(Tree(b).latest, k) \in DOMAIN Origins
           /\ Origins[At(Tree(b).latest, k)] = SourcesAt(Tree(b), k)
  BY <1>1
<1>4. /\ SourcesAt(Tree(to), k) \subseteq Sources
      /\ At(Tree(to).latest, k) # Null =>
           /\ At(Tree(to).latest, k) \in DOMAIN Origins
           /\ Origins[At(Tree(to).latest, k)] = SourcesAt(Tree(to), k)
  BY <1>1
<1> QED BY <1>2, <1>3, <1>4

\* The parents looked up are the plan's, or the write owns up to the sources of both.
LEMMA LookUpSound ==
  ASSUME PathInv, TaintInv, NEW s \in Sessions, LookUpSides(s)
  PROVE  TaintInv'
<1> DEFINE c == call[s]
           source == Tree(c.source)
           target == Tree(c.branch)
           looked == [k \in DOMAIN c.recs |-> BothSides(source, target, k)]
           moved == {k \in DOMAIN c.recs : looked[k] # c.merge.extra[k]}
           slips(k) == c.from[k] \cup SourcesAt(source, k) \cup SourcesAt(target, k)
           raced == {"raced"} \X UNION {slips(k) : k \in moved}
           leak == c.leak \cup raced
           merge == [c.merge EXCEPT !.extra = looked]
           times == Each(DOMAIN c.recs, 1)
           w == [at |-> "writing", branch |-> c.branch, recs |-> c.recs, times |-> times,
                 hinted |-> {}, merge |-> merge, captured |-> readset[s],
                 from |-> c.from, leak |-> leak]
           others == [k \in DOMAIN c.recs |-> c.from[k] \ truth[s]]
<1>1. /\ c.at = "planned"
      /\ call' = [call EXCEPT ![s] = w] /\ readset' = [readset EXCEPT ![s] = NoReads]
      /\ UNCHANGED <<heads, tree, parents, truth, leaks, unlabelled>>
  BY DEF LookUpSides, Prepare, SourcesAt
<1>2. /\ Planned(c) /\ heads[c.source] # Null /\ c.branch \in Branches /\ heads[c.branch] # Null
      /\ SoundPlan(c, truth[s], Origins, Slipped, AllNodes, Made)
  BY <1>1 DEF PathInv, CallInv, TaintInv, SoundSession
<1>3. /\ merge.extra = looked /\ merge.prov = c.merge.prov /\ merge.cites = c.merge.cites
      /\ merge.merged = c.merge.merged
  <2>1. c.merge = [extra |-> c.merge.extra, prov |-> c.merge.prov, cites |-> c.merge.cites,
                   merged |-> c.merge.merged]
    BY <1>2 DEF Planned
  <2> HIDE DEF c, looked
  <2> QED BY <2>1
<1>4. /\ w.at = "writing" /\ w.captured = readset[s] /\ w.leak = leak /\ w.recs = c.recs
      /\ w.from = c.from /\ w.merge = merge
  OBVIOUS
<1> HIDE DEF w, merge, times
<1>5. /\ DOMAIN looked = DOMAIN c.recs
      /\ \A k \in DOMAIN c.recs : looked[k] = BothSides(source, target, k)
      /\ DOMAIN others = DOMAIN c.recs
      /\ \A k \in DOMAIN c.recs : others[k] = c.from[k] \ truth[s]
  OBVIOUS
<1>6. ASSUME NEW k \in DOMAIN c.recs
      PROVE  /\ SourcesAt(source, k) \cup SourcesAt(target, k) \subseteq Sources
             /\ c.from[k] \subseteq Sources
             /\ \A p \in BothSides(source, target, k) :
                  /\ p \in DOMAIN Origins
                  /\ Origins[p] \subseteq SourcesAt(source, k) \cup SourcesAt(target, k)
  BY <1>2, SidesGive DEF Planned
<1> HIDE DEF source, target
<1>7. /\ c.leak \subseteq Ways \X Sources /\ DOMAIN c.merge.extra = DOMAIN c.recs
      /\ SoundCarried(c.merge, AllNodes, Made, Slipped \cup OwnedUp(c))
      /\ \A k \in DOMAIN c.recs :
           /\ truth[s] \subseteq c.from[k] /\ (k \in Observations => c.recs[k].source \in c.from[k])
           /\ \A p \in c.merge.extra[k] : p \in DOMAIN Origins /\ Origins[p] \subseteq c.from[k]
           /\ \A src \in c.from[k] \ truth[s] : \E p \in c.merge.extra[k] : src \in Origins[p]
  BY <1>2 DEF SoundPlan
<1> HIDE DEF c, looked, others
<1>8. w.leak \subseteq Ways \X Sources
  <2>1. \A k \in moved : slips(k) \subseteq Sources
    BY <1>6
  <2> HIDE DEF slips, moved
  <2>2. UNION {slips(k) : k \in moved} \subseteq Sources
    BY <2>1
  <2> QED BY <1>4, <1>7, <2>2 DEF Ways
<1>9. ASSUME NEW k \in moved PROVE slips(k) \subseteq OwnedUp(w)
  <2> SUFFICES ASSUME NEW src \in slips(k) PROVE src \in OwnedUp(w)
    OBVIOUS
  <2>1. <<"raced", src>> \in raced
    <3> HIDE DEF slips, moved
    <3> QED OBVIOUS
  <2> HIDE DEF raced
  <2>2. <<"raced", src>> \in w.leak
    BY <1>4, <2>1
  <2> QED BY <2>2 DEF OwnedUp
<1>10. OwnedUp(c) \subseteq OwnedUp(w)
  <2> HIDE DEF raced
  <2> QED BY <1>4 DEF OwnedUp
<1>11. SoundCarried(w.merge, AllNodes, Made, Slipped \cup OwnedUp(w))
  <2>1. Slipped \cup OwnedUp(c) \subseteq Slipped \cup OwnedUp(w)
    BY <1>10
  <2>2. Matched(c.merge.prov, c.merge.cites, Slipped \cup OwnedUp(w))
    BY <1>7, <2>1, MatchedStays DEF SoundCarried
  <2> QED BY <1>3, <1>4, <1>7, <2>2 DEF SoundCarried
<1>12. ASSUME NEW k \in DOMAIN w.recs
       PROVE  /\ w.from[k] = truth[s] \cup others[k]
              /\ k \in Observations => w.recs[k].source \in w.from[k]
              /\ \A p \in w.merge.extra[k] :
                   p \in DOMAIN Origins /\ Origins[p] \ OwnedUp(w) \subseteq w.from[k]
              /\ \A src \in others[k] :
                   src \in OwnedUp(w) \/ \E p \in w.merge.extra[k] : src \in Origins[p]
  <2>1. k \in DOMAIN c.recs /\ w.merge.extra[k] = looked[k] /\ w.from[k] = c.from[k]
        /\ w.recs[k] = c.recs[k] /\ others[k] = c.from[k] \ truth[s]
    BY <1>3, <1>4, <1>5
  <2>2. w.from[k] = truth[s] \cup others[k] /\ (k \in Observations => w.recs[k].source \in w.from[k])
    <3> HIDE DEF moved, slips, leak, raced
    <3>1. truth[s] \subseteq c.from[k] /\ (k \in Observations => c.recs[k].source \in c.from[k])
      BY <1>7, <2>1
    <3>2. truth[s] \cup (c.from[k] \ truth[s]) = c.from[k]
      BY <3>1
    <3> QED BY <2>1, <3>1, <3>2
  <2>3. CASE k \in moved
    <3>1. c.from[k] \subseteq OwnedUp(w)
      BY <1>9, <2>3
    <3>2. \A p \in looked[k] : p \in DOMAIN Origins /\ Origins[p] \subseteq OwnedUp(w)
      BY <1>5, <1>6, <1>9, <2>1, <2>3
    <3> HIDE DEF moved, slips, leak, raced
    <3> QED BY <2>1, <2>2, <3>1, <3>2
  <2>4. CASE k \notin moved
    <3>1. looked[k] = c.merge.extra[k]
      BY <2>1, <2>4
    <3> HIDE DEF moved, slips, leak, raced
    <3> QED BY <1>7, <2>1, <2>2, <3>1
  <2> QED BY <2>3, <2>4
<1> HIDE DEF moved, slips, leak, raced
<1>13. DOMAIN w.merge.extra = DOMAIN w.recs
  BY <1>3, <1>4, <1>5
<1>14. WellGiven(w, truth[s], others, Origins)
  BY <1>12, <1>13 DEF WellGiven
<1>15. call[s].at = "planned" /\ w.at = "writing" /\ w.captured = readset[s]
  BY <1>1, <1>4 DEF c
<1> QED BY <1>1, <1>8, <1>11, <1>14, <1>15, PrepareSound

-----------------------------------------------------------------------------
(* Commits. *)

\* A new commit comes after all that were made, and before the rest.
LEMMA NewestCommit ==
  ASSUME Ordered, Made # Commits
  PROVE  /\ NewCommit \in Commits \ Made /\ NewCommit \in Nat
         /\ \A c \in Commits \ Made : NewCommit <= c
         /\ \A c \in Made : c < NewCommit
<1>1. Commits \ Made \subseteq Nat /\ Commits \ Made # {}
  BY WritePathAssumption DEF Made
<1> DEFINE free == Commits \ Made
<1>2. \E x \in free : \A y \in free : x <= y
  <2> HIDE DEF free
  <2> QED BY <1>1, LeastNat DEF free
<1>3. NewCommit = CHOOSE x \in free : \A y \in free : x <= y
  BY DEF NewCommit, Min
<1>4. NewCommit \in free /\ \A y \in free : NewCommit <= y
  <2> HIDE DEF free
  <2> QED BY <1>2, <1>3
<1>5. NewCommit \in Nat
  BY <1>1, <1>4
<1> QED BY <1>4, <1>5 DEF Ordered

\* What a commit adds to what is made and known.
LEMMA CommitMakes ==
  ASSUME PathInv, TaintInv, NEW b \in Branches, heads[b] # Null, Made # Commits,
         NEW u, NEW more, Commit(b, u, more), NEW n, n = NewCommit
  PROVE  /\ Made' = Made \cup {n} /\ AllNodes' = AllNodes \cup Nodes(u)
         /\ \A c \in Made : tree'[c] = tree[c] /\ parents'[c] = parents[c]
         /\ tree'[n] = u /\ parents'[n] = {heads[b]} \cup more
         /\ Wider(Origins, Origins')
         /\ \A k \in DOMAIN u.from \cap Keys :
              <<n, k>> \in DOMAIN Origins' /\ Origins'[<<n, k>>] = u.from[k]
<1>1. n \in Commits \ Made
  BY FreshCommit
<1>2. /\ tree' = [tree EXCEPT ![n] = u]
      /\ parents' = [parents EXCEPT ![n] = {heads[b]} \cup more]
  BY DEF Commit
<1>3. /\ \A c \in Commits \ {n} : tree'[c] = tree[c] /\ parents'[c] = parents[c]
      /\ tree'[n] = u /\ parents'[n] = {heads[b]} \cup more
  BY <1>1, <1>2 DEF PathInv, Shaped
<1>4. Made' = Made \cup {n}
  BY <1>1, <1>3 DEF Made
<1>5. \A c \in Made : c \in Commits \ {n}
  BY <1>1, MadeCommits
<1>6. \A c \in Made : tree'[c] = tree[c] /\ parents'[c] = parents[c]
  BY <1>3, <1>5
<1>7. AllNodes' = AllNodes \cup Nodes(u)
  <2>1. AllNodes' = UNION {Nodes(tree'[c]) : c \in Made'}
    BY DEF AllNodes
  <2>2. \A c \in Made : Nodes(tree'[c]) = Nodes(tree[c])
    BY <1>6
  <2>3. Nodes(tree'[n]) = Nodes(u)
    BY <1>3
  <2> QED BY <1>4, <2>1, <2>2, <2>3 DEF AllNodes
<1>8. Origins' = [p \in {q \in Made' \X Keys : q[2] \in DOMAIN tree'[q[1]].from} |->
                    tree'[p[1]].from[p[2]]]
  BY DEF Origins
<1>9. Wider(Origins, Origins')
  <2> SUFFICES ASSUME NEW p \in DOMAIN Origins
               PROVE  p \in DOMAIN Origins' /\ Origins'[p] = Origins[p]
    BY DEF Wider
  <2>1. /\ p[1] \in Made /\ p[2] \in Keys /\ p = <<p[1], p[2]>>
        /\ p[2] \in DOMAIN tree[p[1]].from /\ Origins[p] = tree[p[1]].from[p[2]]
    BY OriginIds
  <2>2. tree'[p[1]] = tree[p[1]] /\ p \in Made' \X Keys
    BY <1>4, <1>6, <2>1
  <2> QED BY <1>8, <2>1, <2>2
<1>10. ASSUME NEW k \in DOMAIN u.from \cap Keys
       PROVE  <<n, k>> \in DOMAIN Origins' /\ Origins'[<<n, k>>] = u.from[k]
  <2>1. <<n, k>> \in Made' \X Keys /\ <<n, k>>[1] = n /\ <<n, k>>[2] = k
    BY <1>4
  <2> QED BY <1>3, <1>8, <2>1
<1> QED BY <1>3, <1>4, <1>6, <1>7, <1>9, <1>10

\* A commit of a sound tree.
LEMMA CommitSound ==
  ASSUME PathInv, TaintInv, NEW b \in Branches, heads[b] # Null, Made # Commits,
         NEW u, NEW more, Commit(b, u, more), more \subseteq Made,
         leaks \subseteq leaks', leaks' \subseteq Ways \X Sources, unlabelled' \subseteq Sources,
         SoundTree(u, Origins', Slipped'),
         \A n \in Nodes(u) : n \in AllNodes \/ n.id[1] = NewCommit,
         \A n, m \in Nodes(u) \ AllNodes : n.id = m.id => n = m,
         NEW s \in Sessions, SoundSession(s)',
         \A q \in Sessions \ {s} :
           call'[q] = call[q] /\ readset'[q] = readset[q] /\ truth'[q] = truth[q]
  PROVE  TaintInv'
<1> DEFINE n == NewCommit
<1>1. /\ Made' = Made \cup {n} /\ AllNodes' = AllNodes \cup Nodes(u)
      /\ \A c \in Made : tree'[c] = tree[c] /\ parents'[c] = parents[c]
      /\ tree'[n] = u /\ parents'[n] = {heads[b]} \cup more
      /\ Wider(Origins, Origins')
  BY CommitMakes
<1>2. /\ n \in Commits \ Made /\ n \in Nat /\ \A c \in Commits \ Made : n <= c
      /\ \A c \in Made : c < n
  BY NewestCommit DEF TaintInv
<1>3. heads[b] \in Made
  BY Finds
<1>a. \A m \in Nodes(u) : m \in AllNodes \/ m.id[1] = n
  OBVIOUS
<1> HIDE DEF n
<1>4. Slipped \subseteq Slipped'
  BY LeaksSlip
<1>5. Forward
  BY <1>1, <1>4 DEF Forward
<1>6. ASSUME NEW q \in Sessions, q # s PROVE SoundSession(q)'
  <2>1. SoundSession(q)
    BY DEF TaintInv
  <2> QED BY <1>5, <1>6, <2>1, SessionStays
<1>7. ASSUME NEW c \in Made' PROVE SoundTree(tree'[c], Origins', Slipped')
  <2>1. CASE c \in Made
    <3>1. SoundTree(tree[c], Origins, Slipped)
      BY <2>1 DEF TaintInv
    <3>2. SoundTree(tree[c], Origins', Slipped')
      BY <1>1, <1>4, <3>1, TreeStays
    <3> QED BY <1>1, <2>1, <3>2
  <2>2. CASE c = n
    BY <1>1, <2>2
  <2> QED BY <1>1, <2>1, <2>2
<1>8. Ordered'
  <2>1. ASSUME NEW c \in Made', NEW d \in Commits \ Made' PROVE c < d
    <3>1. d \in Commits \ Made /\ d # n /\ d \in Nat
      BY <1>1, WritePathAssumption
    <3>2. CASE c \in Made
      BY <3>1, <3>2 DEF TaintInv, Ordered
    <3>3. CASE c = n
      BY <1>2, <3>1, <3>3
    <3> QED BY <1>1, <3>2, <3>3
  <2>2. ASSUME NEW c \in Made', NEW d \in parents'[c] PROVE d \in Made' /\ d < c
    <3>1. CASE c \in Made
      BY <1>1, <3>1 DEF TaintInv, Ordered
    <3>2. CASE c = n
      BY <1>1, <1>2, <1>3, <3>2
    <3> QED BY <1>1, <3>1, <3>2
  <2> QED BY <2>1, <2>2 DEF Ordered
<1>9. OneNode'
  <2>1. /\ \A x, y \in AllNodes : x.id = y.id => x = y
        /\ \A x \in AllNodes : x.id[1] \in Made
    BY DEF TaintInv, OneNode
  <2>2. ASSUME NEW x \in AllNodes', NEW y \in AllNodes', x.id = y.id PROVE x = y
    <3>1. CASE x \in AllNodes /\ y \in AllNodes
      BY <2>1, <2>2, <3>1
    <3>2. CASE x \notin AllNodes /\ y \notin AllNodes
      BY <1>1, <2>2, <3>2
    <3>3. CASE x \in AllNodes /\ y \notin AllNodes
      BY <1>1, <1>2, <1>a, <2>1, <2>2, <3>3
    <3>4. CASE x \notin AllNodes /\ y \in AllNodes
      BY <1>1, <1>2, <1>a, <2>1, <2>2, <3>4
    <3> QED BY <3>1, <3>2, <3>3, <3>4
  <2>3. ASSUME NEW x \in AllNodes' PROVE x.id[1] \in Made'
    BY <1>1, <1>a, <2>1
  <2> QED BY <2>2, <2>3 DEF OneNode
<1>10. \A q \in Sessions : SoundSession(q)'
  BY <1>6
<1> QED BY <1>7, <1>8, <1>9, <1>10 DEF TaintInv

\* Forgetting leaves the nodes and what is known of them as they are.
LEMMA DeindexSound ==
  ASSUME PathInv, TaintInv, NEW s \in Sessions, InvalidateAndDeindex(s)
  PROVE  TaintInv'
<1> DEFINE b == call[s].branch
           keys == call[s].keys
           t == Tree(b)
           u == Deindexed(t, keys)
<1>1. /\ call[s].at = "forgetting" /\ Made # Commits
      /\ IF u = t THEN UNCHANGED <<heads, tree, parents>> ELSE Commit(b, u, {})
      /\ unlabelled' = unlabelled \cup UNION {t.from[k] : k \in keys \cap DOMAIN t.idx}
      /\ call' = [call EXCEPT ![s] = Free] /\ UNCHANGED <<readset, truth, leaks>>
  BY DEF InvalidateAndDeindex, Deindexed, Withdrawn
<1>2. b \in Branches /\ heads[b] # Null
  BY <1>1 DEF PathInv, CallInv
<1>3. /\ heads[b] \in Made /\ SoundTree(t, Origins, Slipped) /\ WholeTree(t)
      /\ Labelled(t, Excused) /\ t = tree[heads[b]]
  BY <1>2, Sees, Finds
<1>4. leaks' = leaks /\ leaks \subseteq Ways \X Sources /\ Slipped' = Slipped
  BY <1>1 DEF TaintInv, Slipped, Leaked
<1> HIDE DEF t
<1>5. unlabelled' \subseteq Sources
  <2>1. \A k \in DOMAIN t.idx : t.from[k] \subseteq Sources
    BY <1>3 DEF Labelled
  <2> HIDE DEF keys
  <2> QED BY <1>1, <2>1 DEF TaintInv
<1>6. /\ call'[s] = Free /\ readset'[s] = readset[s] /\ truth'[s] = truth[s]
      /\ \A q \in Sessions \ {s} :
           call'[q] = call[q] /\ readset'[q] = readset[q] /\ truth'[q] = truth[q]
  BY <1>1 DEF PathInv, Shaped
<1>7. SoundReads(readset[s], truth[s], Free, Origins, Slipped)
  <2>1. SoundReads(readset[s], truth[s], call[s], Origins, Slipped)
    BY <1>1 DEF TaintInv, SoundSession
  <2> QED BY <1>1, <2>1 DEF SoundReads, Free
<1>8. ASSUME Wider(Origins, Origins') PROVE SoundSession(s)'
  <2>1. SoundReads(readset[s], truth[s], Free, Origins', Slipped')
    BY <1>4, <1>7, <1>8, ReadsStay
  <2>2. SoundReads(readset'[s], truth'[s], call'[s], Origins', Slipped')
    BY <1>6, <2>1
  <2>3. call'[s].at \notin {"writing", "planned"}
    BY <1>6 DEF Free
  <2> QED BY <2>2, <2>3 DEF SoundSession
<1>9. CASE UNCHANGED <<heads, tree, parents>>
  <2>1. Wider(Origins, Origins')
    BY <1>9, SameTrees DEF Wider
  <2> QED BY <1>4, <1>5, <1>6, <1>8, <1>9, <2>1, StillSound
<1>10. CASE Commit(b, u, {})
  <2> DEFINE gone == [k \in Withdrawn(t, keys) |-> Claim(t.rec[k].start, "invalidated")]
  <2>1. /\ u.prov = t.prov /\ u.cites = t.cites /\ u.latest = t.latest /\ u.seq = t.seq
        /\ u.merged = t.merged /\ u.from = t.from /\ u.rec = Overlay(t.rec, gone)
    BY <1>3 DEF WholeTree, Deindexed
  <2>2. ASSUME NEW k \in DOMAIN t.rec, k \in Observations PROVE u.rec[k] = t.rec[k]
    <3>1. k \notin DOMAIN gone
      BY <1>3, <2>2, ContentsAssumption DEF Withdrawn, WholeTree, Standing, IsClaim
    <3> HIDE DEF gone, u
    <3> QED BY <2>1, <3>1 DEF Overlay
  <2>3. DOMAIN u.rec = DOMAIN t.rec
    <3>1. DOMAIN gone \subseteq DOMAIN t.rec
      BY DEF Withdrawn
    <3> HIDE DEF gone, u
    <3> QED BY <2>1, <3>1 DEF Overlay
  <2> HIDE DEF u
  <2>4. Nodes(u) = Nodes(t)
    BY <2>1 DEF Nodes
  <2>5. SoundTree(u, Origins, Slipped)
    <3>1. Linked(u, Origins, Slipped)
      BY <1>3, <2>4 DEF SoundTree, Linked, Held
    <3>2. Headed(u, Origins, Slipped)
      <4>1. Headed(t, Origins, Slipped)
        BY <1>3 DEF SoundTree
      <4>2. \A p : Held(t, p) => Held(u, p)
        BY <2>4 DEF Held
      <4>3. ASSUME NEW k \in DOMAIN u.rec
            PROVE  /\ u.latest[k] \in DOMAIN Origins /\ u.latest[k][2] = k
                   /\ Origins[u.latest[k]] = u.from[k]
                   /\ \A src \in u.from[k] \ Slipped : Held(u, u.latest[k])
                   /\ k \in Observations => u.rec[k].source \in u.from[k]
        BY <2>1, <2>2, <2>3, <4>1, <4>2 DEF Headed
      <4> QED BY <4>3 DEF Headed
    <3>3. Filled(u)
      BY <1>3, <2>1 DEF SoundTree, Filled
    <3> QED BY <1>3, <2>1, <2>4, <3>1, <3>2, <3>3 DEF SoundTree
  <2>6. Wider(Origins, Origins')
    BY <1>1, <1>2, <1>10, CommitMakes
  <2>7. SoundTree(u, Origins', Slipped')
    BY <1>4, <2>5, <2>6, TreeStays
  <2>8. \A n \in Nodes(u) : n \in AllNodes
    BY <1>3, <2>4 DEF AllNodes
  <2>9. SoundSession(s)'
    BY <1>8, <2>6
  <2>10. leaks \subseteq leaks' /\ leaks' \subseteq Ways \X Sources /\ {} \subseteq Made
    BY <1>4
  <2> HIDE DEF b
  <2> QED BY <1>1, <1>2, <1>5, <1>6, <1>10, <2>7, <2>8, <2>9, <2>10, CommitSound
<1> QED BY <1>1, <1>9, <1>10

-----------------------------------------------------------------------------
(* The tree write_all leaves. *)

\* The key whose node is put in a slot.
Owner(t, w) ==
  [x \in Taken(t, w) |-> CHOOSE k \in NodeKeys(w) : x \in SlotsOf(w, t.seq[w.branch], k)]

NewAt(t, w) == [x \in Taken(t, w) |-> NewNodes(w)[Owner(t, w)[x]]]

NewEntries(t, w) ==
  [y \in {z \in Sources \X Taken(t, w) : z[1] \in NewAt(t, w)[z[2]].sources} |->
     NewAt(t, w)[y[2]].id]

LEMMA WrittenNodes ==
  ASSUME NEW t, NEW w
  PROVE  /\ Written(t, w).prov = Overlay(Overlay(t.prov, w.merge.prov), NewAt(t, w))
         /\ Written(t, w).cites = Overlay(Overlay(t.cites, w.merge.cites), NewEntries(t, w))
         /\ Written(t, w).merged = Overlay(t.merged, w.merge.merged)
         /\ Written(t, w).seq = [t.seq EXCEPT ![w.branch] = SeqAfter(w, @)]
<1> DEFINE new == NewNodes(w)
           slots(k) == SlotsOf(w, t.seq[w.branch], k)
           owner == [x \in UNION {slots(k) : k \in NodeKeys(w)} |->
                       CHOOSE k \in NodeKeys(w) : x \in slots(k)]
           cited == {y \in Sources \X DOMAIN owner : y[1] \in new[owner[y[2]]].sources}
<1>1. /\ Written(t, w).prov =
           Overlay(Overlay(t.prov, w.merge.prov), [x \in DOMAIN owner |-> new[owner[x]]])
      /\ Written(t, w).cites =
           Overlay(Overlay(t.cites, w.merge.cites), [y \in cited |-> new[owner[y[2]]].id])
      /\ Written(t, w).merged = Overlay(t.merged, w.merge.merged)
      /\ Written(t, w).seq = [t.seq EXCEPT ![w.branch] = SeqAfter(w, @)]
  BY DEF Written
<1>2. owner = Owner(t, w) /\ DOMAIN owner = Taken(t, w)
  BY DEF Owner, Taken
<1> HIDE DEF owner
<1>3. [x \in DOMAIN owner |-> new[owner[x]]] = NewAt(t, w)
  BY <1>2 DEF NewAt
<1>4. cited = {z \in Sources \X Taken(t, w) : z[1] \in NewAt(t, w)[z[2]].sources}
  BY <1>2 DEF NewAt
<1>5. \A y \in cited : new[owner[y[2]]].id = NewAt(t, w)[y[2]].id
  BY <1>2 DEF NewAt
<1>6. [y \in cited |-> new[owner[y[2]]].id] = NewEntries(t, w)
  <2> HIDE DEF cited, new
  <2> QED BY <1>4, <1>5 DEF NewEntries
<1> QED BY <1>1, <1>3, <1>6

\* The nodes of a write are in its slots, and there is nothing else in them.
LEMMA NewNodesAre ==
  ASSUME NEW t, NEW w, NEW excused, Writing(w, excused), t.seq[w.branch] \in Nat
  PROVE  /\ Taken(t, w) \subseteq {w.branch} \X Nat
         /\ \A x \in Taken(t, w) : \E k \in NodeKeys(w) : NewAt(t, w)[x] = NewNodes(w)[k]
         /\ \A k \in NodeKeys(w) : \E x \in Taken(t, w) : NewAt(t, w)[x] = NewNodes(w)[k]
<1> DEFINE seq == t.seq[w.branch]
<1>1. /\ \A k \in NodeKeys(w) :
           SlotsOf(w, seq, k) # {} /\ SlotsOf(w, seq, k) \subseteq {w.branch} \X Nat
      /\ \A j, k \in NodeKeys(w) : j # k => SlotsOf(w, seq, j) \cap SlotsOf(w, seq, k) = {}
  BY SlotsApart
<1>2. Taken(t, w) = UNION {SlotsOf(w, seq, k) : k \in NodeKeys(w)}
  BY DEF Taken
<1>3. ASSUME NEW x \in Taken(t, w)
      PROVE  /\ Owner(t, w)[x] \in NodeKeys(w) /\ x \in SlotsOf(w, seq, Owner(t, w)[x])
             /\ NewAt(t, w)[x] = NewNodes(w)[Owner(t, w)[x]]
  <2>1. \E k \in NodeKeys(w) : x \in SlotsOf(w, seq, k)
    BY <1>2
  <2>2. Owner(t, w)[x] = CHOOSE k \in NodeKeys(w) : x \in SlotsOf(w, seq, k)
    BY DEF Owner
  <2>3. NewAt(t, w)[x] = NewNodes(w)[Owner(t, w)[x]]
    BY DEF NewAt
  <2> HIDE DEF seq
  <2> QED BY <2>1, <2>2, <2>3
<1> HIDE DEF seq
<1>4. Taken(t, w) \subseteq {w.branch} \X Nat
  BY <1>1, <1>2
<1>5. ASSUME NEW k \in NodeKeys(w) PROVE \E x \in Taken(t, w) : NewAt(t, w)[x] = NewNodes(w)[k]
  <2>1. PICK x : x \in SlotsOf(w, seq, k)
    BY <1>1
  <2>2. x \in Taken(t, w)
    BY <1>2, <2>1
  <2>3. Owner(t, w)[x] = k
    BY <1>1, <1>3, <2>1, <2>2
  <2> QED BY <1>3, <2>2, <2>3
<1> QED BY <1>3, <1>4, <1>5

\* What is put over two parts of trees.
LEMMA OverlayIs ==
  ASSUME NEW f, NEW g
  PROVE  /\ DOMAIN Overlay(f, g) = DOMAIN f \cup DOMAIN g
         /\ \A x \in DOMAIN g : Overlay(f, g)[x] = g[x]
         /\ \A x \in DOMAIN f \ DOMAIN g : Overlay(f, g)[x] = f[x]
  BY DEF Overlay

\* Slots and entries still match when matching ones are put over them, but for the
\* sources of the nodes whose slot is gone.
LEMMA OverlaysMatch ==
  ASSUME NEW prov, NEW cites, NEW more, NEW entries, NEW but,
         Matched(prov, cites, but), Matched(more, entries, but),
         \A y \in DOMAIN cites \cup DOMAIN entries : y = <<y[1], y[2]>>,
         \A x \in DOMAIN prov \cap DOMAIN more : prov[x] # more[x] => prov[x].sources \subseteq but
  PROVE  Matched(Overlay(prov, more), Overlay(cites, entries), but)
<1> DEFINE p == Overlay(prov, more)
           c == Overlay(cites, entries)
<1>1. /\ DOMAIN p = DOMAIN prov \cup DOMAIN more
      /\ \A x \in DOMAIN more : p[x] = more[x]
      /\ \A x \in DOMAIN prov \ DOMAIN more : p[x] = prov[x]
  BY OverlayIs
<1>2. /\ DOMAIN c = DOMAIN cites \cup DOMAIN entries
      /\ \A y \in DOMAIN entries : c[y] = entries[y]
      /\ \A y \in DOMAIN cites \ DOMAIN entries : c[y] = cites[y]
  BY OverlayIs
<1> HIDE DEF p, c
<1>3. ASSUME NEW src, src \notin but, NEW x
      PROVE  /\ <<src, x>> \in DOMAIN c <=> x \in DOMAIN p /\ src \in p[x].sources
             /\ <<src, x>> \in DOMAIN c => c[<<src, x>>] = p[x].id
  <2> DEFINE y == <<src, x>>
  <2>1. /\ y \in DOMAIN cites <=> x \in DOMAIN prov /\ src \in prov[x].sources
        /\ y \in DOMAIN cites => cites[y] = prov[x].id
    BY <1>3, EntrySays
  <2>2. /\ y \in DOMAIN entries <=> x \in DOMAIN more /\ src \in more[x].sources
        /\ y \in DOMAIN entries => entries[y] = more[x].id
    BY <1>3, EntrySays
  <2> HIDE DEF y
  <2>3. x \in DOMAIN prov /\ x \in DOMAIN more /\ src \in prov[x].sources => prov[x] = more[x]
    BY <1>3
  <2>4. /\ y \in DOMAIN c <=> x \in DOMAIN p /\ src \in p[x].sources
        /\ y \in DOMAIN c => c[y] = p[x].id
    BY <1>1, <1>2, <2>1, <2>2, <2>3
  <2> QED BY <2>4 DEF y
<1>4. \A y \in DOMAIN c : y = <<y[1], y[2]>>
  BY <1>2
<1>5. ASSUME NEW x \in DOMAIN p, NEW src \in p[x].sources \ but
      PROVE  <<src, x>> \in DOMAIN c /\ c[<<src, x>>] = p[x].id
  BY <1>3
<1>6. ASSUME NEW y \in DOMAIN c, y[1] \notin but
      PROVE  y[2] \in DOMAIN p /\ y[1] \in p[y[2]].sources
  <2>1. <<y[1], y[2]>> \in DOMAIN c
    BY <1>4
  <2> QED BY <1>3, <1>6, <2>1
<1>7. Matched(p, c, but)
  BY <1>5, <1>6 DEF Matched
<1> QED BY <1>7 DEF p, c

\* The new nodes and their entries match.
LEMMA NewMatched ==
  ASSUME NEW t, NEW w, NEW but, \A x \in Taken(t, w) : NewAt(t, w)[x].sources \subseteq Sources
  PROVE  Matched(NewAt(t, w), NewEntries(t, w), but)
<1>1. DOMAIN NewAt(t, w) = Taken(t, w)
  BY DEF NewAt
<1> DEFINE cited == {z \in Sources \X Taken(t, w) : z[1] \in NewAt(t, w)[z[2]].sources}
<1>2. /\ DOMAIN NewEntries(t, w) = cited
      /\ \A y \in cited : NewEntries(t, w)[y] = NewAt(t, w)[y[2]].id
  BY DEF NewEntries
<1>3. ASSUME NEW x \in Taken(t, w), NEW src \in NewAt(t, w)[x].sources
      PROVE  <<src, x>> \in cited /\ <<src, x>>[2] = x
  OBVIOUS
<1>4. \A y \in cited : y[2] \in Taken(t, w) /\ y[1] \in NewAt(t, w)[y[2]].sources
  OBVIOUS
<1> HIDE DEF cited
<1> QED BY <1>1, <1>2, <1>3, <1>4 DEF Matched

\* A write of what w prepared, over tree t, that leaves tree u; with it the sources
\* in out have slipped, and known are the origins.
Landed(w, t, u, out, known) ==
  /\ w.branch \in Branches /\ heads[w.branch] # Null /\ Made # Commits
  /\ t = Tree(w.branch) /\ u = Written(t, w)
  /\ Writing(w, Excused) /\ SoundWrite(w, Origins, Slipped, AllNodes, Made)
  /\ Slipped \subseteq out /\ OwnedUp(w) \subseteq out
  /\ \A n \in Lost(t, w, u) \cup Dangling(t, u) : Behind(n, u) \subseteq out
  /\ Wider(Origins, known)
  /\ \A k \in DOMAIN u.from \cap Keys :
       <<NewCommit, k>> \in DOMAIN known /\ known[<<NewCommit, k>>] = u.from[k]

\* The parts of the new nodes.
LEMMA NewNodeIs ==
  ASSUME NEW w, NEW excused, Writing(w, excused), NEW k \in NodeKeys(w),
         DOMAIN w.merge.extra \subseteq DOMAIN w.recs
  PROVE  LET n == NewNodes(w)[k]
         IN  /\ n.id = <<NewCommit, k>> /\ n.key = k /\ n.parents = ParentsOf(w, k)
             /\ n.sources = w.captured.sources \cup
                              IF k \in Observations THEN {w.recs[k].source} ELSE {}
             /\ k \in Keys => k \in DOMAIN w.recs
             /\ k \notin Keys => k = MergeNote /\ ParentsOf(w, k) = w.captured.nodes
<1>1. NewNodes(w)[k] = NewNode(w, k, IF k \in DOMAIN w.merge.extra THEN w.merge.extra[k] ELSE {})
  BY DEF NewNodes
<1>2. k \in DOMAIN w.recs \/ k = MergeNote
  BY DEF NodeKeys
<1>3. DOMAIN w.recs \subseteq Keys /\ MergeNote \notin Keys
  BY ContentsAssumption DEF Writing
<1>4. k \notin Keys => ParentsOf(w, k) = w.captured.nodes
  BY <1>3 DEF ParentsOf
<1> QED BY <1>1, <1>2, <1>3, <1>4 DEF NewNode, ParentsOf

\* Where the nodes of the new tree come from.
LEMMA LandNodes ==
  ASSUME PathInv, TaintInv, NEW w, NEW t, NEW u, NEW out, NEW known,
         Landed(w, t, u, out, known)
  PROVE  /\ SoundTree(t, Origins, Slipped) /\ Nodes(t) \subseteq AllNodes
         /\ \A n \in Nodes(u) : n \in AllNodes \/ \E k \in NodeKeys(w) : n = NewNodes(w)[k]
         /\ \A k \in NodeKeys(w) : NewNodes(w)[k] \in Nodes(u) /\ NewNodes(w)[k] \notin AllNodes
         /\ DOMAIN u.prov = (DOMAIN t.prov \cup DOMAIN w.merge.prov) \cup Taken(t, w)
         /\ \A x \in Taken(t, w) :
              u.prov[x] = NewAt(t, w)[x] /\ \E k \in NodeKeys(w) : u.prov[x] = NewNodes(w)[k]
         /\ \A x \in DOMAIN w.merge.prov \ Taken(t, w) : u.prov[x] = w.merge.prov[x]
         /\ \A x \in DOMAIN t.prov \ (DOMAIN w.merge.prov \cup Taken(t, w)) :
              u.prov[x] = t.prov[x]
<1>1. /\ w.branch \in Branches /\ heads[w.branch] # Null /\ t = Tree(w.branch)
      /\ u = Written(t, w) /\ Writing(w, Excused) /\ Made # Commits
      /\ SoundWrite(w, Origins, Slipped, AllNodes, Made)
  BY DEF Landed
<1>2. SoundTree(t, Origins, Slipped) /\ heads[w.branch] \in Made /\ t = tree[heads[w.branch]]
  BY <1>1, Sees DEF Tree
<1>3. Nodes(t) \subseteq AllNodes
  BY <1>2 DEF AllNodes
<1>4. t.seq[w.branch] \in Nat
  BY <1>1, <1>2 DEF SoundTree, Filled
<1>5. /\ \A x \in Taken(t, w) : \E k \in NodeKeys(w) : NewAt(t, w)[x] = NewNodes(w)[k]
      /\ \A k \in NodeKeys(w) : \E x \in Taken(t, w) : NewAt(t, w)[x] = NewNodes(w)[k]
  BY <1>1, <1>4, NewNodesAre
<1>6. u.prov = Overlay(Overlay(t.prov, w.merge.prov), NewAt(t, w))
  BY <1>1, WrittenNodes
<1>7. DOMAIN NewAt(t, w) = Taken(t, w)
  BY DEF NewAt
<1>8. /\ DOMAIN u.prov = (DOMAIN t.prov \cup DOMAIN w.merge.prov) \cup Taken(t, w)
      /\ \A x \in Taken(t, w) : u.prov[x] = NewAt(t, w)[x]
      /\ \A x \in DOMAIN w.merge.prov \ Taken(t, w) : u.prov[x] = w.merge.prov[x]
      /\ \A x \in DOMAIN t.prov \ (DOMAIN w.merge.prov \cup Taken(t, w)) : u.prov[x] = t.prov[x]
  BY <1>6, <1>7 DEF Overlay
<1>9. \A x \in DOMAIN w.merge.prov : w.merge.prov[x] \in AllNodes
  BY <1>1 DEF SoundWrite, SoundCarried
<1>10. ASSUME NEW n \in Nodes(u)
       PROVE  n \in AllNodes \/ \E k \in NodeKeys(w) : n = NewNodes(w)[k]
  <2>1. PICK x \in DOMAIN u.prov : n = u.prov[x]
    BY DEF Nodes
  <2>2. \A y \in DOMAIN t.prov : t.prov[y] \in AllNodes
    BY <1>3 DEF Nodes
  <2> QED BY <1>5, <1>8, <1>9, <2>1, <2>2
<1>11. ASSUME NEW k \in NodeKeys(w) PROVE NewNodes(w)[k] \in Nodes(u) /\ NewNodes(w)[k] \notin AllNodes
  <2>1. PICK x \in Taken(t, w) : NewAt(t, w)[x] = NewNodes(w)[k]
    BY <1>5
  <2>2. x \in DOMAIN u.prov /\ u.prov[x] = NewNodes(w)[k]
    BY <1>8, <2>1
  <2>3. NewNodes(w)[k].id = <<NewCommit, k>>
    BY DEF NewNodes, NewNode
  <2>4. NewCommit \notin Made
    BY <1>1, FreshCommit
  <2>5. NewNodes(w)[k] \notin AllNodes
    BY <2>3, <2>4 DEF TaintInv, OneNode
  <2> QED BY <2>2, <2>5 DEF Nodes
<1> QED BY <1>2, <1>3, <1>5, <1>8, <1>10, <1>11

\* A node that the write takes out of the tree, or did not get into it, has slipped
\* past with what is behind it.
LEMMA LandLost ==
  ASSUME PathInv, TaintInv, NEW w, NEW t, NEW u, NEW out, NEW known,
         Landed(w, t, u, out, known)
  PROVE  /\ \A x \in DOMAIN t.prov : u.prov[x] # t.prov[x] => Behind(t.prov[x], u) \subseteq out
         /\ \A x \in DOMAIN w.merge.prov :
              u.prov[x] # w.merge.prov[x] => Behind(w.merge.prov[x], u) \subseteq out
         /\ \A p \in DOMAIN Origins : Held(t, p) /\ ~Held(u, p) => Origins[p] \subseteq out
<1>1. \A n \in Lost(t, w, u) : Behind(n, u) \subseteq out
  BY DEF Landed
<1>2. \A x \in DOMAIN t.prov : u.prov[x] # t.prov[x] => t.prov[x] \in Lost(t, w, u)
  BY DEF Lost
<1>3. \A x \in DOMAIN w.merge.prov : u.prov[x] # w.merge.prov[x] => w.merge.prov[x] \in Lost(t, w, u)
  BY DEF Lost
<1>4. ASSUME NEW p \in DOMAIN Origins, Held(t, p), ~Held(u, p) PROVE Origins[p] \subseteq out
  <2>1. PICK m \in Nodes(t) : m.id = p
    BY <1>4 DEF Held
  <2>2. PICK x \in DOMAIN t.prov : m = t.prov[x]
    BY DEF Nodes
  <2>3. x \in DOMAIN u.prov /\ m \in AllNodes
    BY LandNodes, <2>2
  <2>4. u.prov[x] # m
    BY <1>4, <2>1, <2>3 DEF Held, Nodes
  <2>5. Behind(m, u) \subseteq out
    BY <1>1, <1>2, <2>2, <2>4
  <2>6. Origins[p] \subseteq Behind(m, u)
    BY <2>1, <2>3, NodeKnown
  <2> QED BY <2>5, <2>6
<1> QED BY <1>1, <1>2, <1>3, <1>4

\* The new nodes are sound.
LEMMA LandNew ==
  ASSUME PathInv, TaintInv, NEW w, NEW t, NEW u, NEW out, NEW known,
         Landed(w, t, u, out, known), NEW k \in NodeKeys(w)
  PROVE  SoundNode(NewNodes(w)[k], known, out) /\ NewNodes(w)[k].sources \subseteq Sources
<1> DEFINE n == NewNodes(w)[k]
           but == Slipped \cup OwnedUp(w)
<1>1. /\ Writing(w, Excused) /\ SoundRecs(w, Origins, but) /\ Made # Commits
      /\ Slipped \subseteq out /\ but \subseteq out /\ Wider(Origins, known)
      /\ \A j \in DOMAIN u.from \cap Keys :
           <<NewCommit, j>> \in DOMAIN known /\ known[<<NewCommit, j>>] = u.from[j]
      /\ u = Written(t, w)
  BY DEF Landed, SoundWrite
<1>2. SoundRecs(w, known, out)
  BY <1>1, RecsStay
<1>3. /\ n.id = <<NewCommit, k>> /\ n.key = k /\ n.parents = ParentsOf(w, k)
      /\ n.sources = w.captured.sources \cup IF k \in Observations THEN {w.recs[k].source} ELSE {}
      /\ k \in Keys => k \in DOMAIN w.recs
      /\ k \notin Keys => k = MergeNote /\ ParentsOf(w, k) = w.captured.nodes
  BY <1>1, NewNodeIs DEF SoundRecs
<1>4. NewCommit \in Commits \ Made /\ NewCommit \in Nat /\ \A c \in Made : c < NewCommit
  BY <1>1, NewestCommit DEF TaintInv
<1> HIDE DEF n
<1>5. n.id \in NodeIds /\ n.key = n.id[2] /\ n.id[1] = NewCommit
  BY <1>3, <1>4 DEF NodeIds
<1>6. \A p \in ParentsOf(w, k) : p \in DOMAIN Origins
  BY <1>1, <1>3 DEF SoundRecs
<1>7. ASSUME NEW p \in n.parents PROVE p \in DOMAIN known /\ p[1] < n.id[1]
  <2>1. p \in DOMAIN Origins
    BY <1>3, <1>6
  <2>2. p[1] \in Made
    BY <2>1, OriginIds
  <2> QED BY <1>1, <1>4, <1>5, <2>1, <2>2 DEF Wider
<1>8. ASSUME k \in Keys
      PROVE  /\ n.id \in DOMAIN known /\ known[n.id] = w.from[k] /\ n.sources \subseteq w.from[k]
             /\ n.sources \subseteq Sources
             /\ \A p \in n.parents : known[p] \ out \subseteq w.from[k]
             /\ \A src \in w.from[k] \ out :
                  src \in n.sources \/ \E p \in n.parents : src \in known[p]
  <2>1. k \in DOMAIN w.recs /\ k \in DOMAIN w.from
    BY <1>1, <1>3, <1>8 DEF Writing
  <2>2. u.from = Overlay(t.from, w.from)
    BY <1>1, WrittenParts
  <2>3. k \in DOMAIN u.from /\ u.from[k] = w.from[k]
    BY <2>1, <2>2 DEF Overlay
  <2>4. n.id \in DOMAIN known /\ known[n.id] = w.from[k]
    BY <1>1, <1>3, <1>8, <2>3
  <2>5. n.sources \subseteq w.from[k]
    BY <1>2, <1>3, <2>1 DEF SoundRecs
  <2>6. \A p \in n.parents : known[p] \ out \subseteq w.from[k]
    BY <1>2, <1>3, <2>1 DEF SoundRecs
  <2>7. ASSUME NEW src \in w.from[k] \ out
        PROVE  src \in n.sources \/ \E p \in n.parents : src \in known[p]
    <3>1. \/ src \in w.captured.sources
          \/ k \in Observations /\ src = w.recs[k].source
          \/ \E p \in ParentsOf(w, k) : src \in known[p]
      BY <1>2, <2>1 DEF SoundRecs
    <3> QED BY <1>3, <3>1
  <2>8. w.from[k] \subseteq Sources
    BY <1>1, <2>1 DEF Writing
  <2> QED BY <2>4, <2>5, <2>6, <2>7, <2>8
<1>9. n.sources \subseteq Sources
  <2>1. CASE k \in Keys
    BY <1>8, <2>1
  <2>2. CASE k \notin Keys
    <3>1. n.sources = w.captured.sources
      BY <1>3, <2>2 DEF Keys
    <3> QED BY <1>2, <3>1 DEF SoundRecs
  <2> QED BY <2>1, <2>2
<1>10. SoundNode(n, known, out)
  BY <1>3, <1>5, <1>7, <1>8, <1>9 DEF SoundNode
<1> QED BY <1>9, <1>10 DEF n

\* The slots and entries match.
LEMMA LandMatched ==
  ASSUME PathInv, TaintInv, NEW w, NEW t, NEW u, NEW out, NEW known,
         Landed(w, t, u, out, known)
  PROVE  Matched(u.prov, u.cites, out) /\ Indexes(u.prov, u.cites)
<1> DEFINE m == w.merge
           prov == Overlay(t.prov, m.prov)
           cites == Overlay(t.cites, m.cites)
<1>1. /\ u = Written(t, w) /\ Writing(w, Excused) /\ w.branch \in Branches /\ Made # Commits
      /\ SoundCarried(m, AllNodes, Made, Slipped \cup OwnedUp(w))
      /\ Slipped \subseteq out /\ Slipped \cup OwnedUp(w) \subseteq out
  BY DEF Landed, SoundWrite
<1>2. /\ SoundTree(t, Origins, Slipped) /\ Nodes(t) \subseteq AllNodes
      /\ \A k \in NodeKeys(w) : NewNodes(w)[k] \notin AllNodes
      /\ \A x \in Taken(t, w) :
           u.prov[x] = NewAt(t, w)[x] /\ \E k \in NodeKeys(w) : u.prov[x] = NewNodes(w)[k]
      /\ \A x \in DOMAIN m.prov \ Taken(t, w) : u.prov[x] = m.prov[x]
      /\ \A x \in DOMAIN t.prov \ (DOMAIN m.prov \cup Taken(t, w)) : u.prov[x] = t.prov[x]
  BY LandNodes
<1>3. /\ u.prov = Overlay(prov, NewAt(t, w)) /\ u.cites = Overlay(cites, NewEntries(t, w))
  BY <1>1, WrittenNodes
<1>4. /\ Matched(t.prov, t.cites, out) /\ Indexes(t.prov, t.cites)
      /\ Matched(m.prov, m.cites, out) /\ Indexes(m.prov, m.cites)
  BY <1>1, <1>2, MatchedStays DEF SoundTree, SoundCarried
<1>5. /\ \A x \in DOMAIN t.prov : u.prov[x] # t.prov[x] => Behind(t.prov[x], u) \subseteq out
      /\ \A x \in DOMAIN m.prov : u.prov[x] # m.prov[x] => Behind(m.prov[x], u) \subseteq out
  BY LandLost
<1>6. /\ \A x \in DOMAIN t.prov : t.prov[x] \in AllNodes
      /\ \A x \in DOMAIN m.prov : m.prov[x] \in AllNodes
  BY <1>1, <1>2 DEF Nodes, SoundCarried
<1>7. \A n \in AllNodes : n.sources \subseteq Behind(n, u)
  BY NodeKnown
<1>8. ASSUME NEW x \in DOMAIN t.prov \cap DOMAIN m.prov, t.prov[x] # m.prov[x]
      PROVE  t.prov[x].sources \subseteq out
  <2>1. u.prov[x] # t.prov[x]
    BY <1>2, <1>6, <1>8
  <2> QED BY <1>5, <1>6, <1>7, <2>1
<1>9. \A y \in DOMAIN t.cites \cup DOMAIN m.cites : y = <<y[1], y[2]>>
  BY <1>4 DEF Indexes
<1>10. Matched(prov, cites, out)
  <2> HIDE DEF m
  <2> QED BY <1>4, <1>8, <1>9, OverlaysMatch
<1>11. /\ DOMAIN prov = DOMAIN t.prov \cup DOMAIN m.prov
       /\ \A x \in DOMAIN m.prov : prov[x] = m.prov[x]
       /\ \A x \in DOMAIN t.prov \ DOMAIN m.prov : prov[x] = t.prov[x]
       /\ DOMAIN cites = DOMAIN t.cites \cup DOMAIN m.cites
       /\ \A y \in DOMAIN m.cites : cites[y] = m.cites[y]
       /\ \A y \in DOMAIN t.cites \ DOMAIN m.cites : cites[y] = t.cites[y]
  <2>1. /\ DOMAIN prov = DOMAIN t.prov \cup DOMAIN m.prov
        /\ \A x \in DOMAIN m.prov : prov[x] = m.prov[x]
        /\ \A x \in DOMAIN t.prov \ DOMAIN m.prov : prov[x] = t.prov[x]
    BY OverlayIs
  <2>2. /\ DOMAIN cites = DOMAIN t.cites \cup DOMAIN m.cites
        /\ \A y \in DOMAIN m.cites : cites[y] = m.cites[y]
        /\ \A y \in DOMAIN t.cites \ DOMAIN m.cites : cites[y] = t.cites[y]
    BY OverlayIs
  <2> QED BY <2>1, <2>2
<1> HIDE DEF prov, cites, m
<1> DEFINE new == NewAt(t, w)
           entries == NewEntries(t, w)
<1>12. DOMAIN new = Taken(t, w)
  BY DEF NewAt
<1>13. ASSUME NEW x \in Taken(t, w) PROVE new[x].sources \subseteq Sources /\ new[x].id \in NodeIds
  <2>1. PICK k \in NodeKeys(w) : new[x] = NewNodes(w)[k]
    BY <1>2
  <2> HIDE DEF new
  <2> QED BY <2>1, LandNew DEF SoundNode
<1>14. Matched(new, entries, out)
  BY <1>13, NewMatched
<1>15. /\ DOMAIN entries \subseteq Sources \X Taken(t, w)
       /\ \A y \in DOMAIN entries : entries[y] \in NodeIds
  <2>1. DOMAIN entries = {z \in Sources \X Taken(t, w) : z[1] \in NewAt(t, w)[z[2]].sources}
    BY DEF NewEntries
  <2>2. \A y \in DOMAIN entries : entries[y] = new[y[2]].id
    BY DEF NewEntries
  <2>3. DOMAIN entries \subseteq Sources \X Taken(t, w)
    BY <2>1
  <2> HIDE DEF entries, new
  <2>4. \A y \in DOMAIN entries : y[2] \in Taken(t, w)
    BY <2>3
  <2> QED BY <1>13, <2>2, <2>3, <2>4
<1> HIDE DEF new, entries
<1>16. ASSUME NEW x \in DOMAIN prov \cap DOMAIN new, prov[x] # new[x]
       PROVE  prov[x].sources \subseteq out
  <2>1. u.prov[x] = new[x]
    BY <1>2, <1>12 DEF new
  <2>2. CASE x \in DOMAIN m.prov
    BY <1>5, <1>6, <1>7, <1>11, <1>16, <2>1, <2>2
  <2>3. CASE x \in DOMAIN t.prov \ DOMAIN m.prov
    BY <1>5, <1>6, <1>7, <1>11, <1>16, <2>1, <2>3
  <2> QED BY <1>11, <2>2, <2>3
<1>17. \A y \in DOMAIN cites \cup DOMAIN entries : y = <<y[1], y[2]>>
  BY <1>9, <1>11, <1>15
<1>18. Matched(Overlay(prov, new), Overlay(cites, entries), out)
  BY <1>10, <1>14, <1>16, <1>17, OverlaysMatch
<1>19. u.prov = Overlay(prov, new) /\ u.cites = Overlay(cites, entries)
  BY <1>3 DEF new, entries
<1>20. Taken(t, w) \subseteq Slots
  <2>1. t.seq[w.branch] \in Nat
    BY <1>1, <1>2 DEF SoundTree, Filled
  <2>2. Taken(t, w) \subseteq {w.branch} \X Nat
    BY <1>1, <2>1, NewNodesAre
  <2> QED BY <1>1, <2>2 DEF Slots
<1>21. DOMAIN prov \subseteq Slots /\ DOMAIN cites \subseteq Sources \X Slots
  BY <1>4, <1>11 DEF Indexes
<1>22. \A y \in DOMAIN cites : cites[y] \in NodeIds
  BY <1>4, <1>11 DEF Indexes
<1>23. /\ DOMAIN Overlay(prov, new) = DOMAIN prov \cup DOMAIN new
       /\ DOMAIN Overlay(cites, entries) = DOMAIN cites \cup DOMAIN entries
       /\ \A y \in DOMAIN cites \cup DOMAIN entries : Overlay(cites, entries)[y] \in NodeIds
  <2> DEFINE over == Overlay(cites, entries)
  <2>1. DOMAIN Overlay(prov, new) = DOMAIN prov \cup DOMAIN new
    BY OverlayIs
  <2>2. /\ DOMAIN over = DOMAIN cites \cup DOMAIN entries
        /\ \A y \in DOMAIN entries : over[y] = entries[y]
        /\ \A y \in DOMAIN cites \ DOMAIN entries : over[y] = cites[y]
    BY OverlayIs
  <2> HIDE DEF over
  <2>3. \A y \in DOMAIN cites \cup DOMAIN entries : over[y] \in NodeIds
    BY <1>15, <1>22, <2>2
  <2> QED BY <2>1, <2>2, <2>3 DEF over
<1>24. DOMAIN entries \subseteq Sources \X Slots
  BY <1>15, <1>20
<1>25. Indexes(Overlay(prov, new), Overlay(cites, entries))
  BY <1>12, <1>20, <1>21, <1>23, <1>24 DEF Indexes
<1> QED BY <1>18, <1>19, <1>25

\* Every node of the new tree is sound.
LEMMA LandAll ==
  ASSUME PathInv, TaintInv, NEW w, NEW t, NEW u, NEW out, NEW known,
         Landed(w, t, u, out, known), NEW n \in Nodes(u)
  PROVE  SoundNode(n, known, out)
<1>1. n \in AllNodes \/ \E k \in NodeKeys(w) : n = NewNodes(w)[k]
  BY LandNodes
<1>2. CASE n \in AllNodes
  <2>1. SoundNode(n, Origins, Slipped)
    BY <1>2, NodeKnown
  <2> QED BY <2>1, NodeStays DEF Landed
<1>3. CASE \E k \in NodeKeys(w) : n = NewNodes(w)[k]
  BY <1>3, LandNew
<1> QED BY <1>1, <1>2, <1>3

\* The parents sources came by are in the tree.
LEMMA LandLinked ==
  ASSUME PathInv, TaintInv, NEW w, NEW t, NEW u, NEW out, NEW known,
         Landed(w, t, u, out, known)
  PROVE  Linked(u, known, out)
<1> SUFFICES ASSUME NEW n \in Nodes(u), n.key \in Keys, NEW p \in n.parents,
                    NEW src \in (known[p] \cap known[n.id]) \ out
             PROVE  Held(u, p)
  BY DEF Linked
<1>1. /\ Slipped \subseteq out /\ Wider(Origins, known) /\ u = Written(t, w)
      /\ \A m \in Lost(t, w, u) \cup Dangling(t, u) : Behind(m, u) \subseteq out
      /\ \A k \in DOMAIN u.from \cap Keys :
           <<NewCommit, k>> \in DOMAIN known /\ known[<<NewCommit, k>>] = u.from[k]
  BY DEF Landed
<1>2. CASE n \in Nodes(t)
  <2>1. SoundTree(t, Origins, Slipped) /\ n \in AllNodes
    BY <1>2, LandNodes
  <2>2. SoundNode(n, Origins, Slipped)
    BY <2>1, NodeKnown
  <2>3. p \in DOMAIN Origins /\ n.id \in DOMAIN Origins
    BY <2>2 DEF SoundNode
  <2>4. known[p] = Origins[p] /\ known[n.id] = Origins[n.id]
    BY <1>1, <2>3 DEF Wider
  <2>5. src \in (Origins[p] \cap Origins[n.id]) \ Slipped
    BY <1>1, <2>4
  <2>6. Held(t, p)
    BY <1>2, <2>1, <2>5 DEF SoundTree, Linked
  <2>7. Held(t, p) /\ ~Held(u, p) => Origins[p] \subseteq out
    BY <2>3, LandLost
  <2> QED BY <2>4, <2>6, <2>7
<1>3. CASE n \notin Nodes(t)
  <2> SUFFICES ASSUME ~Held(u, p) PROVE FALSE
    OBVIOUS
  <2>1. n \in Dangling(t, u)
    BY <1>3 DEF Dangling, Held
  <2>2. Behind(n, u) \subseteq out
    BY <1>1, <2>1
  <2>3. src \in Behind(n, u)
    <3>1. CASE n \in AllNodes
      <4>1. SoundNode(n, Origins, Slipped) /\ Origins[n.id] \subseteq Behind(n, u)
        <5>1. SoundNode(n, Origins, Slipped)
          BY <3>1, NodeKnown
        <5>2. n.id \in DOMAIN Origins
          BY <5>1 DEF SoundNode
        <5> QED BY <3>1, <5>1, <5>2, NodeKnown
      <4>2. known[n.id] = Origins[n.id]
        BY <1>1, <4>1 DEF Wider, SoundNode
      <4> QED BY <4>1, <4>2
    <3>2. CASE n \notin AllNodes
      <4>1. PICK k \in NodeKeys(w) : n = NewNodes(w)[k]
        BY <3>2, LandNodes
      <4>2. /\ Writing(w, Excused) /\ Made # Commits
            /\ DOMAIN w.merge.extra \subseteq DOMAIN w.recs
        BY DEF Landed, SoundWrite, SoundRecs
      <4>3. n.id = <<NewCommit, k>> /\ n.key = k /\ (k \in Keys => k \in DOMAIN w.recs)
        BY <4>1, <4>2, NewNodeIs
      <4>4. k \in DOMAIN w.from /\ k \in Keys
        BY <4>2, <4>3 DEF Writing
      <4>5. k \in DOMAIN u.from
        <5>1. u.from = Overlay(t.from, w.from)
          BY <1>1, WrittenParts
        <5> QED BY <4>4, <5>1 DEF Overlay
      <4>6. known[n.id] = u.from[k]
        BY <1>1, <4>3, <4>4, <4>5
      <4>7. n.id[1] \notin Made
        BY <4>2, <4>3, FreshCommit
      <4>8. u.from[k] \subseteq Behind(n, u)
        BY <4>3, <4>5, <4>7 DEF Behind
      <4> QED BY <4>6, <4>8
    <3> QED BY <3>1, <3>2
  <2> QED BY <2>2, <2>3
<1> QED BY <1>2, <1>3

\* So are the nodes that wrote the records last.
LEMMA LandHeaded ==
  ASSUME PathInv, TaintInv, NEW w, NEW t, NEW u, NEW out, NEW known,
         Landed(w, t, u, out, known)
  PROVE  Headed(u, known, out)
<1>1. /\ Slipped \subseteq out /\ Wider(Origins, known) /\ u = Written(t, w) /\ Made # Commits
      /\ \A k \in DOMAIN u.from \cap Keys :
           <<NewCommit, k>> \in DOMAIN known /\ known[<<NewCommit, k>>] = u.from[k]
      /\ Writing(w, Excused) /\ SoundRecs(w, Origins, Slipped \cup OwnedUp(w))
      /\ w.branch \in Branches /\ heads[w.branch] # Null /\ t = Tree(w.branch)
  BY DEF Landed, SoundWrite
<1>2. /\ u.rec = Overlay(t.rec, w.recs) /\ u.from = Overlay(t.from, w.from)
      /\ u.latest = Overlay(t.latest, NewIds(w))
  BY <1>1, WrittenParts
<1>3. DOMAIN NewIds(w) = NodeKeys(w) /\ \A k \in NodeKeys(w) : NewIds(w)[k] = <<NewCommit, k>>
  BY DEF NewIds, NewNodes, NewNode
<1>4. DOMAIN w.from = DOMAIN w.recs /\ DOMAIN w.recs \subseteq Keys
  BY <1>1 DEF Writing
<1>5. NodeKeys(w) \cap Keys = DOMAIN w.recs
  <2>1. w.recs = Nothing => DOMAIN w.recs = {}
    BY DEF Nothing
  <2> QED BY <1>4, <2>1, ContentsAssumption DEF NodeKeys
<1>6. DOMAIN t.from = DOMAIN t.rec /\ DOMAIN t.rec \subseteq Keys
  BY <1>1, Sees DEF WholeTree
<1>7. Headed(t, Origins, Slipped)
  <2>1. SoundTree(t, Origins, Slipped)
    BY LandNodes
  <2> QED BY <2>1 DEF SoundTree
<1> SUFFICES ASSUME NEW k \in DOMAIN u.rec
             PROVE  /\ u.latest[k] \in DOMAIN known /\ u.latest[k][2] = k
                    /\ known[u.latest[k]] = u.from[k]
                    /\ \A src \in u.from[k] \ out : Held(u, u.latest[k])
                    /\ k \in Observations => u.rec[k].source \in u.from[k]
  BY DEF Headed
<1>8. CASE k \in DOMAIN w.recs
  <2>1. u.rec[k] = w.recs[k] /\ u.from[k] = w.from[k] /\ k \in DOMAIN u.from /\ k \in Keys
    BY <1>2, <1>4, <1>8 DEF Overlay
  <2>2. k \in NodeKeys(w)
    BY <1>4, <1>5, <1>8
  <2>3. u.latest[k] = <<NewCommit, k>>
    BY <1>2, <1>3, <2>2 DEF Overlay
  <2>4. Held(u, u.latest[k])
    <3>1. NewNodes(w)[k] \in Nodes(u)
      BY <2>2, LandNodes
    <3>2. NewNodes(w)[k].id = <<NewCommit, k>>
      BY <2>2 DEF NewNodes, NewNode
    <3> QED BY <2>3, <3>1, <3>2 DEF Held
  <2>5. k \in Observations => w.recs[k].source \in w.from[k]
    BY <1>1, <1>8 DEF SoundRecs
  <2>6. <<NewCommit, k>> \in DOMAIN known /\ known[<<NewCommit, k>>] = u.from[k]
    BY <1>1, <2>1
  <2>7. u.latest[k] \in DOMAIN known /\ known[u.latest[k]] = u.from[k]
    BY <2>3, <2>6
  <2>8. u.latest[k][2] = k
    BY <2>3
  <2>9. k \in Observations => u.rec[k].source \in u.from[k]
    BY <2>1, <2>5
  <2> QED BY <2>4, <2>7, <2>8, <2>9
<1>9. CASE k \notin DOMAIN w.recs
  <2>1. k \in DOMAIN t.rec /\ u.rec[k] = t.rec[k]
    BY <1>2, <1>9 DEF Overlay
  <2>2. k \in DOMAIN t.from /\ u.from[k] = t.from[k]
    BY <1>2, <1>4, <1>6, <1>9, <2>1 DEF Overlay
  <2>3. k \notin NodeKeys(w) /\ k \in DOMAIN t.latest
    <3>1. k \in Keys
      BY <1>6, <2>1
    <3>2. DOMAIN t.latest \cap Keys = DOMAIN t.rec
      BY <1>1, Sees
    <3> QED BY <1>5, <1>9, <2>1, <3>1, <3>2
  <2>4. u.latest[k] = t.latest[k]
    BY <1>2, <1>3, <2>3 DEF Overlay
  <2>5. /\ t.latest[k] \in DOMAIN Origins /\ t.latest[k][2] = k
        /\ Origins[t.latest[k]] = t.from[k]
        /\ \A src \in t.from[k] \ Slipped : Held(t, t.latest[k])
        /\ k \in Observations => t.rec[k].source \in t.from[k]
    BY <1>7, <2>1 DEF Headed
  <2>6. ASSUME NEW src \in t.from[k] \ out PROVE Held(u, t.latest[k])
    <3>1. Held(t, t.latest[k])
      BY <1>1, <2>5
    <3>2. Held(t, t.latest[k]) /\ ~Held(u, t.latest[k]) => Origins[t.latest[k]] \subseteq out
      BY <2>5, LandLost
    <3> QED BY <2>5, <3>1, <3>2
  <2>7. t.latest[k] \in DOMAIN known /\ known[t.latest[k]] = Origins[t.latest[k]]
    BY <1>1, <2>5 DEF Wider
  <2> QED BY <2>1, <2>2, <2>4, <2>5, <2>6, <2>7
<1> QED BY <1>8, <1>9

\* The slots are filled up to the counter.
LEMMA LandFilled ==
  ASSUME PathInv, TaintInv, NEW w, NEW t, NEW u, NEW out, NEW known,
         Landed(w, t, u, out, known)
  PROVE  Filled(u) /\ DOMAIN u.merged \subseteq Branches
<1> DEFINE b == w.branch
           seq == t.seq[b]
<1>1. /\ u = Written(t, w) /\ Writing(w, Excused) /\ b \in Branches
      /\ SoundCarried(w.merge, AllNodes, Made, Slipped \cup OwnedUp(w))
  BY DEF Landed, SoundWrite
<1>2. /\ u.seq = [t.seq EXCEPT ![b] = SeqAfter(w, @)] /\ u.merged = Overlay(t.merged, w.merge.merged)
  BY <1>1, WrittenNodes
<1>3. /\ SoundTree(t, Origins, Slipped)
      /\ DOMAIN u.prov = (DOMAIN t.prov \cup DOMAIN w.merge.prov) \cup Taken(t, w)
  BY LandNodes
<1>4. /\ t.seq \in [Branches -> Nat] /\ DOMAIN t.merged \subseteq Branches
      /\ \A a \in Branches : \A n \in 0 .. t.seq[a] - 1 : <<a, n>> \in DOMAIN t.prov
  BY <1>3 DEF SoundTree, Filled
<1>5. seq \in Nat
  BY <1>1, <1>4
<1>6. /\ SeqAfter(w, seq) \in Nat
      /\ \A n \in seq .. SeqAfter(w, seq) - 1 :
           \E k \in NodeKeys(w) : <<b, n>> \in SlotsOf(w, seq, k)
  <2> HIDE DEF seq
  <2> QED BY <1>1, <1>5, SlotsFill
<1>7. u.seq \in [Branches -> Nat]
  BY <1>1, <1>2, <1>4, <1>6
<1>8. ASSUME NEW a \in Branches, NEW n \in 0 .. u.seq[a] - 1 PROVE <<a, n>> \in DOMAIN u.prov
  <2>1. CASE a = b
    <3>1. u.seq[a] = SeqAfter(w, seq)
      BY <1>1, <1>2, <1>4, <2>1
    <3> HIDE DEF seq, b
    <3>2. CASE n < seq
      <4>1. n \in 0 .. seq - 1
        BY <1>5, <3>2
      <4>2. <<b, n>> \in DOMAIN t.prov
        BY <1>1, <1>4, <4>1 DEF seq
      <4> QED BY <1>3, <2>1, <4>2
    <3>3. CASE ~(n < seq)
      <4>1. n \in seq .. SeqAfter(w, seq) - 1
        BY <1>5, <1>6, <3>1, <3>3
      <4>2. PICK k \in NodeKeys(w) : <<b, n>> \in SlotsOf(w, seq, k)
        BY <1>6, <4>1
      <4>3. <<b, n>> \in Taken(t, w)
        BY <4>2 DEF Taken, seq, b
      <4> QED BY <1>3, <2>1, <4>3
    <3> QED BY <3>2, <3>3
  <2>2. CASE a # b
    <3>1. u.seq[a] = t.seq[a]
      BY <1>2, <1>4, <2>2
    <3> QED BY <1>3, <1>4, <3>1
  <2> QED BY <2>1, <2>2
<1>9. DOMAIN u.merged \subseteq Branches
  BY <1>1, <1>2, <1>4 DEF Overlay, SoundCarried
<1> QED BY <1>7, <1>8, <1>9 DEF Filled

\* In all.
LEMMA LandSound ==
  ASSUME PathInv, TaintInv, NEW w, NEW t, NEW u, NEW out, NEW known,
         Landed(w, t, u, out, known)
  PROVE  /\ SoundTree(u, known, out)
         /\ \A n \in Nodes(u) : n \in AllNodes \/ n.id[1] = NewCommit
         /\ \A n, m \in Nodes(u) \ AllNodes : n.id = m.id => n = m
         /\ \A n \in Nodes(u) : Behind(n, u) \subseteq Sources
<1>1. SoundTree(u, known, out)
  BY LandAll, LandMatched, LandLinked, LandHeaded, LandFilled DEF SoundTree
<1>2. \A n \in Nodes(u) : n \in AllNodes \/ \E k \in NodeKeys(w) : n = NewNodes(w)[k]
  BY LandNodes
<1>3. \A k \in NodeKeys(w) : NewNodes(w)[k].id = <<NewCommit, k>>
  BY DEF NewNodes, NewNode
<1>4. \A n \in Nodes(u) : n \in AllNodes \/ n.id[1] = NewCommit
  BY <1>2, <1>3
<1>5. ASSUME NEW n \in Nodes(u) \ AllNodes, NEW m \in Nodes(u) \ AllNodes, n.id = m.id
      PROVE  n = m
  <2>1. PICK j \in NodeKeys(w) : n = NewNodes(w)[j]
    BY <1>2
  <2>2. PICK k \in NodeKeys(w) : m = NewNodes(w)[k]
    BY <1>2
  <2>3. <<NewCommit, j>> = <<NewCommit, k>>
    BY <1>3, <1>5, <2>1, <2>2
  <2>4. j = k
    BY <2>3
  <2> QED BY <2>1, <2>2, <2>4
<1>6. ASSUME NEW n \in Nodes(u) PROVE Behind(n, u) \subseteq Sources
  <2>1. CASE n \in AllNodes
    BY <2>1, NodeKnown
  <2>2. CASE n \notin AllNodes
    <3>1. n.id[1] \notin Made
      BY <1>4, <2>2, FreshCommit DEF Landed
    <3>2. n.sources \subseteq Sources
      BY LandAll DEF SoundNode
    <3>3. \A k \in DOMAIN u.from : u.from[k] \subseteq Sources
      <4>1. /\ u = Written(t, w) /\ Writing(w, Excused) /\ w.branch \in Branches
            /\ heads[w.branch] # Null /\ t = Tree(w.branch)
        BY DEF Landed
      <4>2. u.from = Overlay(t.from, w.from)
        BY <4>1, WrittenParts
      <4>3. \A k \in DOMAIN w.from : w.from[k] \subseteq Sources
        BY <4>1 DEF Writing
      <4>4. \A k \in DOMAIN t.from : t.from[k] \subseteq Sources
        BY <4>1, Finds DEF Labelled
      <4> QED BY <4>2, <4>3, <4>4 DEF Overlay
    <3> QED BY <3>1, <3>2, <3>3 DEF Behind
  <2> QED BY <2>1, <2>2
<1> QED BY <1>1, <1>4, <1>5, <1>6

\* write_all.
LEMMA WriteAllSound ==
  ASSUME PathInv, TaintInv, NEW s \in Sessions, WriteAll(s)
  PROVE  TaintInv'
<1> DEFINE w == call[s]
           t == Tree(w.branch)
           u == Written(t, w)
           more == {w.merge.merged[a] : a \in DOMAIN w.merge.merged}
           lost == {"overwritten"} \X UNION {Behind(n, u) : n \in Lost(t, w, u)}
           far == {"elsewhere"} \X UNION {Behind(n, u) : n \in Dangling(t, u)}
<1>1. /\ w.at = "writing" /\ Made # Commits
      /\ IF u = t THEN UNCHANGED <<heads, tree, parents>> ELSE Commit(w.branch, u, more)
      /\ leaks' = UNION {leaks, w.leak, lost, far}
      /\ unlabelled' = unlabelled \cup UNION {w.from[k] : k \in DOMAIN w.recs \ w.hinted}
      /\ truth' = [truth EXCEPT ![s] = {}] /\ call' = [call EXCEPT ![s] = Free]
      /\ UNCHANGED readset
  BY DEF WriteAll
<1>2. w.branch \in Branches /\ heads[w.branch] # Null /\ Writing(w, Excused)
  BY <1>1 DEF PathInv, CallInv
<1>3. readset[s] = NoReads /\ SoundWrite(w, Origins, Slipped, AllNodes, Made)
  BY <1>1 DEF TaintInv, SoundSession
<1>4. /\ heads[w.branch] \in Made /\ t = tree[heads[w.branch]]
      /\ Nodes(t) \subseteq AllNodes
  BY <1>2, Finds DEF AllNodes
<1>5. /\ truth'[s] = {} /\ call'[s] = Free /\ readset'[s] = NoReads
      /\ \A q \in Sessions \ {s} :
           call'[q] = call[q] /\ readset'[q] = readset[q] /\ truth'[q] = truth[q]
  BY <1>1, <1>3 DEF PathInv, Shaped
<1>6. SoundSession(s)'
  <2>1. SoundReads(NoReads, {}, Free, Origins', Slipped')
    BY DEF SoundReads, NoReads, Free
  <2> QED BY <1>5, <2>1 DEF SoundSession, Free
<1>7. leaks \subseteq leaks' /\ w.leak \subseteq leaks' /\ lost \subseteq leaks' /\ far \subseteq leaks'
  <2> HIDE DEF w, lost, far
  <2> QED BY <1>1
<1>8. unlabelled' \subseteq Sources
  <2>1. \A k \in DOMAIN w.recs : w.from[k] \subseteq Sources
    BY <1>2 DEF Writing
  <2> HIDE DEF w
  <2> QED BY <1>1, <2>1 DEF TaintInv
<1>9. \A n \in Lost(t, w, u) : n \in AllNodes
  <2>1. \A x \in DOMAIN t.prov : t.prov[x] \in AllNodes
    BY <1>4 DEF Nodes
  <2>2. \A x \in DOMAIN w.merge.prov : w.merge.prov[x] \in AllNodes
    BY <1>3 DEF SoundWrite, SoundCarried
  <2> HIDE DEF t, w, u
  <2> QED BY <2>1, <2>2 DEF Lost
<1>10. Dangling(t, u) \subseteq Nodes(u)
  BY DEF Dangling
<1>11. ASSUME \A n \in Nodes(u) : Behind(n, u) \subseteq Sources PROVE leaks' \subseteq Ways \X Sources
  <2>1. \A n \in Lost(t, w, u) : Behind(n, u) \subseteq Sources
    BY <1>9, NodeKnown
  <2>2. lost \subseteq Ways \X Sources
    <3> HIDE DEF t, w, u
    <3> QED BY <2>1 DEF Ways
  <2>3. far \subseteq Ways \X Sources
    <3> HIDE DEF t, w, u
    <3> QED BY <1>10, <1>11 DEF Ways
  <2>4. leaks \subseteq Ways \X Sources /\ w.leak \subseteq Ways \X Sources
    BY <1>3 DEF TaintInv, SoundWrite
  <2> HIDE DEF t, w, u, lost, far
  <2> QED BY <1>1, <2>2, <2>3, <2>4
<1>12. CASE u = t
  <2>1. UNCHANGED <<heads, tree, parents>>
    BY <1>1, <1>12
  <2>2. \A n \in Nodes(u) : Behind(n, u) \subseteq Sources
    BY <1>4, <1>12, NodeKnown
  <2>3. leaks' \subseteq Ways \X Sources
    BY <1>11, <2>2
  <2> HIDE DEF w, t, u, more, lost, far
  <2> QED BY <1>5, <1>6, <1>7, <1>8, <2>1, <2>3, StillSound
<1>13. CASE u # t
  <2>1. Commit(w.branch, u, more)
    BY <1>1, <1>13
  <2>2. /\ Wider(Origins, Origins')
        /\ \A k \in DOMAIN u.from \cap Keys :
             <<NewCommit, k>> \in DOMAIN Origins' /\ Origins'[<<NewCommit, k>>] = u.from[k]
    <3> DEFINE n == NewCommit
    <3>1. n = NewCommit
      OBVIOUS
    <3> HIDE DEF n, w, t, u, more
    <3>2. /\ Wider(Origins, Origins')
          /\ \A k \in DOMAIN u.from \cap Keys :
               <<n, k>> \in DOMAIN Origins' /\ Origins'[<<n, k>>] = u.from[k]
      BY <1>1, <1>2, <2>1, <3>1, CommitMakes
    <3> QED BY <3>1, <3>2
  <2>3. Slipped \subseteq Slipped'
    BY <1>7, LeaksSlip
  <2>4. Slipped' = {l[2] : l \in {m \in leaks' : m[1] \in Ways}}
    BY DEF Slipped, Leaked
  <2>5. OwnedUp(w) \subseteq Slipped'
    <3>1. \A l \in w.leak : l[1] \in Ways
      BY <1>3 DEF SoundWrite
    <3> HIDE DEF w
    <3> QED BY <1>7, <2>4, <3>1 DEF OwnedUp
  <2>6. ASSUME NEW n \in Lost(t, w, u) \cup Dangling(t, u), NEW src \in Behind(n, u)
        PROVE  src \in Slipped'
    <3>1. <<"overwritten", src>> \in leaks' \/ <<"elsewhere", src>> \in leaks'
      <4>1. n \in Lost(t, w, u) => <<"overwritten", src>> \in lost
        OBVIOUS
      <4>2. n \in Dangling(t, u) => <<"elsewhere", src>> \in far
        OBVIOUS
      <4> HIDE DEF lost, far, w, t, u
      <4> QED BY <1>7, <2>6, <4>1, <4>2
    <3>2. <<"overwritten", src>>[2] = src /\ <<"elsewhere", src>>[2] = src
      OBVIOUS
    <3>3. <<"overwritten", src>>[1] \in Ways /\ <<"elsewhere", src>>[1] \in Ways
      BY DEF Ways
    <3> HIDE DEF w, t, u
    <3> QED BY <2>4, <3>1, <3>2, <3>3
  <2>7. Landed(w, t, u, Slipped', Origins')
    <3>1. t = Tree(w.branch) /\ u = Written(t, w)
      OBVIOUS
    <3> HIDE DEF w, t, u
    <3> QED BY <1>1, <1>2, <1>3, <2>2, <2>3, <2>5, <2>6, <3>1 DEF Landed
  <2>8. more \subseteq Made
    BY <1>3 DEF SoundWrite, SoundCarried
  <2> HIDE DEF w, t, u, more, lost, far
  <2>9. /\ SoundTree(u, Origins', Slipped')
        /\ \A n \in Nodes(u) : n \in AllNodes \/ n.id[1] = NewCommit
        /\ \A n, m \in Nodes(u) \ AllNodes : n.id = m.id => n = m
        /\ \A n \in Nodes(u) : Behind(n, u) \subseteq Sources
    BY <2>7, LandSound
  <2>10. leaks' \subseteq Ways \X Sources
    BY <1>11, <2>9
  <2> QED BY <1>1, <1>2, <1>5, <1>6, <1>7, <1>8, <2>1, <2>8, <2>9, <2>10, CommitSound
<1> QED BY <1>12, <1>13

-----------------------------------------------------------------------------
(* The invariant. *)

LEMMA TaintInit == Init => TaintInv
<1> SUFFICES ASSUME Init PROVE TaintInv
  OBVIOUS
<1>1. Made = {RootCommit}
  BY WritePathAssumption DEF Init, Made
<1>2. tree[RootCommit] = EmptyTree /\ parents[RootCommit] = {}
  BY WritePathAssumption DEF Init
<1>3. DOMAIN Nothing = {}
  BY DEF Nothing
<1>4. /\ EmptyTree.rec = Nothing /\ EmptyTree.prov = Nothing /\ EmptyTree.cites = Nothing
      /\ EmptyTree.merged = Nothing /\ EmptyTree.seq = [b \in Branches |-> 0]
  BY DEF EmptyTree
<1>5. Nodes(EmptyTree) = {}
  BY <1>3, <1>4 DEF Nodes
<1>6. AllNodes = {}
  BY <1>1, <1>2, <1>5 DEF AllNodes
<1>7. Ordered
  <2>1. RootCommit \in Nat /\ Commits \subseteq Nat /\ \A d \in Commits : RootCommit <= d
    BY WritePathAssumption
  <2>2. ASSUME NEW c \in Made, NEW d \in Commits \ Made PROVE c < d
    <3>1. c = RootCommit /\ d # RootCommit /\ d \in Nat /\ RootCommit <= d
      BY <1>1, <2>1
    <3> QED BY <2>1, <3>1
  <2> QED BY <1>1, <1>2, <2>2 DEF Ordered
<1>8. OneNode
  BY <1>6 DEF OneNode
<1>9. SoundTree(EmptyTree, Origins, Slipped)
  <2>1. Indexes(EmptyTree.prov, EmptyTree.cites) /\ Matched(EmptyTree.prov, EmptyTree.cites, Slipped)
    BY <1>3, <1>4 DEF Indexes, Matched
  <2>2. Linked(EmptyTree, Origins, Slipped) /\ Headed(EmptyTree, Origins, Slipped)
    BY <1>3, <1>4, <1>5 DEF Linked, Headed
  <2>3. Filled(EmptyTree)
    <3>1. EmptyTree.seq \in [Branches -> Nat]
      BY <1>4
    <3>2. ASSUME NEW b \in Branches, NEW n \in 0 .. EmptyTree.seq[b] - 1 PROVE FALSE
      BY <1>4
    <3> QED BY <3>1, <3>2 DEF Filled
  <2> QED BY <1>3, <1>4, <1>5, <2>1, <2>2, <2>3 DEF SoundTree
<1>10. ASSUME NEW s \in Sessions PROVE SoundSession(s)
  <2>1. readset[s] = NoReads /\ truth[s] = {} /\ call[s] = Free
    BY DEF Init
  <2>2. SoundReads(NoReads, {}, Free, Origins, Slipped)
    BY DEF SoundReads, NoReads, Free
  <2> QED BY <2>1, <2>2 DEF SoundSession, Free
<1>11. leaks = {} /\ unlabelled = {}
  BY DEF Init
<1> QED BY <1>1, <1>2, <1>7, <1>8, <1>9, <1>10, <1>11 DEF TaintInv

LEMMA TaintNext == PathInv /\ TaintInv /\ [Next]_vars => TaintInv'
<1> SUFFICES ASSUME PathInv, TaintInv, [Next]_vars PROVE TaintInv'
  OBVIOUS
<1>1. ASSUME NEW b \in Branches, NEW from \in Branches, Fork(b, from) PROVE TaintInv'
  BY <1>1, SoundAnyway DEF Fork
<1>2. ASSUME NEW s \in Sessions, NEW b \in Branches, NEW k \in Keys, Read(s, b, k) PROVE TaintInv'
  BY <1>2, ReadSound
<1>3. ASSUME NEW s \in Sessions, NEW b \in Branches, NEW hint \in Hints,
             NEW k \in Observations \cap Writes[s], NEW src \in Sources,
             StartWrite(s, b, k, Observation(src), hint)
      PROVE  TaintInv'
  <2>1. k \in Keys /\ k \notin Claims /\ hint \in BOOLEAN
    BY ContentsAssumption, WritePathAssumption DEF Keys
  <2>2. Standing(k, Observation(src))
    BY <2>1 DEF Standing, Observation
  <2> QED BY <1>3, <2>1, <2>2, WriteSound
<1>4. ASSUME NEW s \in Sessions, NEW b \in Branches, NEW hint \in Hints,
             NEW k \in Claims \cap Writes[s], StartWrite(s, b, k, Claim(Now, "asserted"), hint)
      PROVE  TaintInv'
  <2>1. Now \in Nat
    BY FS_CardinalityType DEF Now, PathInv, Shaped
  <2>2. Standing(k, Claim(Now, "asserted")) /\ k \in Keys /\ hint \in BOOLEAN
    BY <2>1, WritePathAssumption DEF Standing, Claim, Statuses, Keys
  <2> QED BY <1>4, <2>2, WriteSound
<1>5. ASSUME NEW s \in Sessions, NEW b \in Branches, NEW src \in Sources,
             StartMarkStale(s, b, src) \/ StartForget(s, b, src)
      PROVE  TaintInv'
  BY <1>5, MarkStaleSound, ForgetSound
<1>6. ASSUME NEW s \in Sessions, NEW b \in Branches, NEW to \in Branches, NEW answer \in Answers,
             StartMerge(s, b, to, answer)
      PROVE  TaintInv'
  BY <1>6, MergeSound
<1>7. ASSUME NEW s \in Sessions, NEW b \in Branches, NEW c \in Made, Rewind(s, b, c)
      PROVE  TaintInv'
  BY <1>7, SoundAnyway DEF Rewind
<1>8. ASSUME NEW s \in Sessions,
             \/ CaptureNode(s) \/ CaptureLabel(s) \/ LookUpSides(s)
             \/ WriteAll(s) \/ WriteErr(s) \/ InvalidateAndDeindex(s)
      PROVE  TaintInv'
  BY <1>8, CaptureNodeSound, CaptureLabelSound, LookUpSound, WriteAllSound, ErrSound, DeindexSound
<1>9. CASE UNCHANGED vars
  BY <1>9, SoundAnyway DEF vars
<1>10. CASE Next
  <2>1. CASE \E b, from \in Branches : Fork(b, from)
    BY <1>1, <2>1
  <2>2. ASSUME NEW s \in Sessions, NEW b \in Branches,
               \/ \E k \in Keys : Read(s, b, k)
               \/ \E hint \in Hints :
                    \/ \E k \in Observations \cap Writes[s], src \in Sources :
                         StartWrite(s, b, k, Observation(src), hint)
                    \/ \E k \in Claims \cap Writes[s] :
                         StartWrite(s, b, k, Claim(Now, "asserted"), hint)
               \/ \E src \in Sources : StartMarkStale(s, b, src) \/ StartForget(s, b, src)
               \/ \E to \in Branches, answer \in Answers : StartMerge(s, b, to, answer)
               \/ \E c \in Made : Rewind(s, b, c)
        PROVE  TaintInv'
    BY <1>2, <1>3, <1>4, <1>5, <1>6, <1>7, <2>2
  <2> QED BY <1>8, <1>10, <2>1, <2>2 DEF Next
<1> QED BY <1>9, <1>10

\* In every reachable state the nodes and indexes of the commits made, and what
\* the sessions are about to write, are sound.
LEMMA TaintAlways == Spec => [](PathInv /\ TaintInv)
<1>1. Init => PathInv /\ TaintInv
  BY PathInit, TaintInit
<1>2. (PathInv /\ TaintInv) /\ [Next]_vars => (PathInv /\ TaintInv)'
  BY PathNext, TaintNext
<1> QED BY <1>1, <1>2, PTL DEF Spec

-----------------------------------------------------------------------------
(* The flood. *)

Seeds(t, src) == {t.cites[x] : x \in {y \in DOMAIN t.cites : y[1] = src}}

\* One level further downstream.
Downstream(t, reached) ==
  reached \cup {n.id : n \in {m \in Nodes(t) : m.parents \cap reached # {}}}

\* f gives the levels up to the n-th.
Levels(f, t, src, n) ==
  f = [d \in 0 .. n |-> IF d = 0 THEN Seeds(t, src) ELSE Downstream(t, f[d - 1])]

LEMMA LevelsExist ==
  ASSUME NEW t, NEW src, NEW n \in Nat
  PROVE  \E f : Levels(f, t, src, n)
<1> DEFINE T == {m \in Nat : \E f : Levels(f, t, src, m)}
<1>1. 0 \in T
  <2>1. Levels([d \in 0 .. 0 |-> Seeds(t, src)], t, src, 0)
    BY DEF Levels
  <2> QED BY <2>1
<1>2. ASSUME NEW m \in Nat, m \in T PROVE m + 1 \in T
  <2>1. PICK f : Levels(f, t, src, m)
    BY <1>2
  <2> DEFINE g == [d \in 0 .. m + 1 |-> IF d = m + 1 THEN Downstream(t, f[m]) ELSE f[d]]
  <2>2. g = [d \in 0 .. m + 1 |-> IF d = 0 THEN Seeds(t, src) ELSE Downstream(t, g[d - 1])]
    <3> SUFFICES ASSUME NEW d \in 0 .. m + 1
                 PROVE  g[d] = IF d = 0 THEN Seeds(t, src) ELSE Downstream(t, g[d - 1])
      OBVIOUS
    <3>1. CASE d = 0
      <4>1. 0 \in 0 .. m /\ 0 # m + 1
        OBVIOUS
      <4>2. g[0] = f[0]
        BY <4>1
      <4> QED BY <2>1, <3>1, <4>1, <4>2 DEF Levels
    <3>2. CASE d = m + 1
      <4>1. d - 1 = m /\ m \in 0 .. m + 1 /\ m # m + 1 /\ d # 0
        BY <3>2
      <4>2. g[m] = f[m] /\ g[d] = Downstream(t, f[m])
        BY <3>2, <4>1
      <4> QED BY <4>1, <4>2
    <3>3. CASE d # 0 /\ d # m + 1
      <4>1. d \in 0 .. m /\ d - 1 \in 0 .. m + 1 /\ d - 1 # m + 1
        BY <3>3
      <4>2. g[d] = f[d] /\ g[d - 1] = f[d - 1]
        BY <3>3, <4>1
      <4>3. f[d] = Downstream(t, f[d - 1])
        BY <2>1, <3>3, <4>1 DEF Levels
      <4> QED BY <3>3, <4>2, <4>3
    <3> QED BY <3>1, <3>2, <3>3
  <2>3. Levels(g, t, src, m + 1)
    BY <2>2 DEF Levels
  <2> QED BY <2>3
<1>3. Nat \subseteq T
  <2> HIDE DEF T
  <2> QED BY <1>1, <1>2, NatInd
<1> QED BY <1>3

\* What the levels of Flood are.
LEMMA FloodIs ==
  ASSUME NEW t, NEW src
  PROVE  /\ Flood(t, src)[0] = Seeds(t, src)
         /\ \A d \in 1 .. MaxDepth + 1 :
              Flood(t, src)[d] = Downstream(t, Flood(t, src)[d - 1])
<1>1. MaxDepth + 1 \in Nat /\ MaxDepth \in Nat
  BY ContentsAssumption
<1>2. \E f : Levels(f, t, src, MaxDepth + 1)
  BY <1>1, LevelsExist
<1>3. Flood(t, src) = CHOOSE f : Levels(f, t, src, MaxDepth + 1)
  BY DEF Flood, Levels, Seeds, Downstream
<1>4. Levels(Flood(t, src), t, src, MaxDepth + 1)
  BY <1>2, <1>3
<1> DEFINE f == Flood(t, src)
<1>5. f = [d \in 0 .. MaxDepth + 1 |-> IF d = 0 THEN Seeds(t, src) ELSE Downstream(t, f[d - 1])]
  BY <1>4 DEF Levels
<1> HIDE DEF f
<1>6. 0 \in 0 .. MaxDepth + 1 /\ \A d \in 1 .. MaxDepth + 1 : d \in 0 .. MaxDepth + 1 /\ d # 0
  BY <1>1
<1>7. f[0] = Seeds(t, src) /\ \A d \in 1 .. MaxDepth + 1 : f[d] = Downstream(t, f[d - 1])
  BY <1>5, <1>6
<1> QED BY <1>7 DEF f

\* A flood that is not refused has the nodes that cite the source, and those
\* downstream of a node it has.
LEMMA FloodCloses ==
  ASSUME NEW t, NEW src, ~Refused(t, src)
  PROVE  LET reached == Flood(t, src)[MaxDepth]
         IN  /\ Seeds(t, src) \subseteq reached
             /\ \A n \in Nodes(t) : n.parents \cap reached # {} => n.id \in reached
<1> DEFINE f == Flood(t, src)
           T == {d \in Nat : d <= MaxDepth => Seeds(t, src) \subseteq f[d]}
<1>1. MaxDepth \in Nat
  BY ContentsAssumption
<1>2. f[0] = Seeds(t, src) /\ \A d \in 1 .. MaxDepth + 1 : f[d] = Downstream(t, f[d - 1])
  BY FloodIs
<1> HIDE DEF f
<1>3. 0 \in T
  BY <1>2
<1>4. ASSUME NEW d \in Nat, d \in T PROVE d + 1 \in T
  <2> SUFFICES ASSUME d + 1 <= MaxDepth PROVE Seeds(t, src) \subseteq f[d + 1]
    OBVIOUS
  <2>1. d <= MaxDepth /\ d + 1 \in 1 .. MaxDepth + 1 /\ d + 1 - 1 = d
    BY <1>1
  <2>2. f[d + 1] = Downstream(t, f[d])
    BY <1>2, <2>1
  <2>3. Seeds(t, src) \subseteq f[d]
    BY <1>4, <2>1
  <2> QED BY <2>2, <2>3 DEF Downstream
<1>5. Nat \subseteq T
  <2> HIDE DEF T
  <2> QED BY <1>3, <1>4, NatInd
<1>6. Seeds(t, src) \subseteq f[MaxDepth]
  BY <1>1, <1>5
<1>7. f[MaxDepth + 1] = Downstream(t, f[MaxDepth])
  <2>1. PICK m \in Nat : m = MaxDepth
    BY <1>1
  <2>2. m + 1 \in 1 .. MaxDepth + 1 /\ (m + 1) - 1 = m
    BY <2>1
  <2>3. f[m + 1] = Downstream(t, f[(m + 1) - 1])
    BY <1>2, <2>2
  <2>4. f[m + 1] = Downstream(t, f[m])
    BY <2>2, <2>3
  <2> QED BY <2>1, <2>4
<1>8. f[MaxDepth + 1] = f[MaxDepth]
  BY DEF Refused, f
<1> QED BY <1>6, <1>7, <1>8 DEF Downstream, f

-----------------------------------------------------------------------------

\* Every node of the record a source went into is reached, unless the flood is
\* refused: the commit a node was made with is later than its parents'.
LEMMA FloodFinds ==
  ASSUME TaintInv, NEW t, SoundTree(t, Origins, Slipped), NEW src, src \notin Slipped,
         ~Refused(t, src), NEW n \in Nodes(t), n.id \in DOMAIN Origins, src \in Origins[n.id]
  PROVE  n.id \in Flood(t, src)[MaxDepth]
<1> DEFINE reached == Flood(t, src)[MaxDepth]
           Missed(m) == m \in Nodes(t) /\ m.id \in DOMAIN Origins /\ src \in Origins[m.id] /\ m.id \notin reached
           T == {c \in Made : \E m \in Nodes(t) : Missed(m) /\ m.id[1] = c}
<1>1. /\ Seeds(t, src) \subseteq reached
      /\ \A m \in Nodes(t) : m.parents \cap reached # {} => m.id \in reached
  BY FloodCloses
<1> HIDE DEF reached
<1>2. /\ \A m \in Nodes(t) : SoundNode(m, Origins, Slipped)
      /\ Matched(t.prov, t.cites, Slipped) /\ Linked(t, Origins, Slipped)
  BY DEF SoundTree
<1> SUFFICES ASSUME Missed(n) PROVE FALSE
  BY DEF reached
<1>3. n.id[1] \in T
  BY OriginIds
<1>4. PICK c \in T : \A d \in T : c <= d
  <2>1. T \subseteq Nat /\ T # {}
    BY <1>3, MadeCommits
  <2> HIDE DEF T
  <2> QED BY <2>1, LeastNat
<1>5. PICK m \in Nodes(t) : Missed(m) /\ m.id[1] = c
  BY <1>4
<1>6. m.id[1] \in Nat /\ m.id[2] \in Keys
  BY <1>4, <1>5, OriginIds, MadeCommits
<1>7. SoundNode(m, Origins, Slipped) /\ m.key \in Keys
  BY <1>2, <1>5, <1>6 DEF SoundNode
<1>8. src \in m.sources \/ \E p \in m.parents : src \in Origins[p]
  BY <1>5, <1>7 DEF SoundNode
<1>9. CASE src \in m.sources
  <2>1. PICK x \in DOMAIN t.prov : m = t.prov[x]
    BY <1>5 DEF Nodes
  <2>2. <<src, x>> \in DOMAIN t.cites /\ t.cites[<<src, x>>] = m.id
    BY <1>2, <1>9, <2>1 DEF Matched
  <2>3. m.id \in Seeds(t, src)
    <3>1. <<src, x>>[1] = src
      OBVIOUS
    <3> QED BY <2>2, <3>1 DEF Seeds
  <2> QED BY <1>1, <1>5, <2>3
<1>10. ASSUME NEW p \in m.parents, src \in Origins[p] PROVE FALSE
  <2>1. p \in DOMAIN Origins /\ p[1] < m.id[1]
    BY <1>7 DEF SoundNode
  <2>2. Held(t, p)
    BY <1>2, <1>5, <1>7, <1>10 DEF Linked
  <2>3. PICK q \in Nodes(t) : q.id = p
    BY <2>2 DEF Held
  <2>4. p \notin reached
    BY <1>1, <1>5
  <2>5. p[1] \in T
    BY <1>10, <2>1, <2>3, <2>4, OriginIds
  <2>6. p[1] \in Nat
    BY <2>1, OriginIds, MadeCommits
  <2>7. m.id[1] <= p[1]
    BY <1>4, <1>5, <2>5
  <2> HIDE DEF T
  <2> QED BY <1>6, <2>1, <2>6, <2>7
<1> QED BY <1>8, <1>9, <1>10

\* taint (AT-020, AT-021): on every branch, however sessions read, write, merge,
\* fork and rewind, taint(source) names the write that left each record the source
\* went into, or refuses; a source is excepted only once it got past a read-set in
\* one of the five named ways.
THEOREM TaintComplete == Spec => []Complete
<1>1. PathInv /\ TaintInv => Complete
  <2> SUFFICES ASSUME PathInv, TaintInv, NEW b \in Branches, NEW src \in Sources \ Leaked(Ways),
                      heads[b] # Null, ~Refused(Tree(b), src),
                      NEW k \in DOMAIN Tree(b).rec, src \in Tree(b).from[k]
               PROVE  Tree(b).latest[k] \in Flood(Tree(b), src)[MaxDepth]
    BY DEF Complete, CompleteBut
  <2>1. SoundTree(Tree(b), Origins, Slipped) /\ src \notin Slipped
    BY Sees DEF Slipped
  <2>2. /\ Tree(b).latest[k] \in DOMAIN Origins
        /\ Origins[Tree(b).latest[k]] = Tree(b).from[k] /\ Held(Tree(b), Tree(b).latest[k])
    BY <2>1 DEF SoundTree, Headed
  <2>3. PICK n \in Nodes(Tree(b)) : n.id = Tree(b).latest[k]
    BY <2>2 DEF Held
  <2> QED BY <2>1, <2>2, <2>3, FloodFinds
<1> QED BY <1>1, TaintAlways, PTL

\* What the flood reaches the source went into.
LEMMA FloodKeeps ==
  ASSUME TaintInv, NEW t, SoundTree(t, Origins, Slipped), Nodes(t) \subseteq AllNodes,
         NEW src, src \notin Slipped, NEW p \in Flood(t, src)[MaxDepth], p \in DOMAIN Origins
  PROVE  src \in Origins[p]
<1> DEFINE f == Flood(t, src)
           T == {d \in Nat : d <= MaxDepth =>
                   \A q \in f[d] : /\ \E n \in Nodes(t) : n.id = q
                                   /\ q \in DOMAIN Origins => src \in Origins[q]}
<1>1. MaxDepth \in Nat
  BY ContentsAssumption
<1>2. f[0] = Seeds(t, src) /\ \A d \in 1 .. MaxDepth + 1 : f[d] = Downstream(t, f[d - 1])
  BY FloodIs
<1> HIDE DEF f
<1>3. /\ \A n \in Nodes(t) : SoundNode(n, Origins, Slipped)
      /\ Matched(t.prov, t.cites, Slipped) /\ Indexes(t.prov, t.cites)
  BY DEF SoundTree
<1>4. \A n \in Nodes(t) : n.id \in DOMAIN Origins => n.key \in Keys
  BY <1>3, OriginIds DEF SoundNode
<1>5. 0 \in T
  <2> SUFFICES ASSUME NEW q \in Seeds(t, src)
               PROVE  /\ \E n \in Nodes(t) : n.id = q
                      /\ q \in DOMAIN Origins => src \in Origins[q]
    BY <1>2
  <2>1. PICK y \in DOMAIN t.cites : y[1] = src /\ q = t.cites[y]
    BY DEF Seeds
  <2>2. y = <<src, y[2]>>
    BY <1>3, <2>1 DEF Indexes
  <2>3. y[2] \in DOMAIN t.prov /\ src \in t.prov[y[2]].sources
    BY <1>3, <2>1 DEF Matched
  <2>4. t.cites[<<src, y[2]>>] = t.prov[y[2]].id
    BY <1>3, <2>3 DEF Matched
  <2>5. q = t.prov[y[2]].id /\ t.prov[y[2]] \in Nodes(t)
    BY <2>1, <2>2, <2>3, <2>4 DEF Nodes
  <2>6. q \in DOMAIN Origins => t.prov[y[2]].sources \subseteq Origins[q]
    BY <1>3, <1>4, <2>5 DEF SoundNode
  <2> QED BY <2>3, <2>5, <2>6
<1>6. ASSUME NEW d \in Nat, d \in T PROVE d + 1 \in T
  <2> SUFFICES ASSUME d + 1 <= MaxDepth, NEW q \in f[d + 1]
               PROVE  /\ \E n \in Nodes(t) : n.id = q
                      /\ q \in DOMAIN Origins => src \in Origins[q]
    OBVIOUS
  <2>1. d <= MaxDepth /\ d + 1 \in 1 .. MaxDepth + 1 /\ d + 1 - 1 = d
    BY <1>1
  <2>2. f[d + 1] = Downstream(t, f[d])
    BY <1>2, <2>1
  <2>3. \A r \in f[d] : /\ \E n \in Nodes(t) : n.id = r
                        /\ r \in DOMAIN Origins => src \in Origins[r]
    BY <1>6, <2>1
  <2>4. CASE q \in f[d]
    BY <2>3, <2>4
  <2>5. CASE q \notin f[d]
    <3>1. PICK m \in Nodes(t) : q = m.id /\ m.parents \cap f[d] # {}
      BY <2>2, <2>5 DEF Downstream
    <3>2. PICK r \in m.parents : r \in f[d]
      BY <3>1
    <3>3. r \in DOMAIN Origins
      BY <1>3, <3>2 DEF SoundNode
    <3>4. src \in Origins[r]
      BY <2>3, <3>2, <3>3
    <3>5. m.id \in DOMAIN Origins => Origins[r] \ Slipped \subseteq Origins[m.id]
      BY <1>3, <1>4, <3>2 DEF SoundNode
    <3> QED BY <3>1, <3>4, <3>5
  <2> QED BY <2>4, <2>5
<1>7. Nat \subseteq T
  <2> HIDE DEF T
  <2> QED BY <1>5, <1>6, NatInd
<1>8. MaxDepth \in T
  BY <1>1, <1>7
<1> QED BY <1>1, <1>8 DEF f

\* contaminated_keys_on, exact (AT-021): what taint(source) names, and forget then takes
\* out of the index, are keys of which the source went into a version, with the
\* same exceptions.
THEOREM TaintPrecise == Spec => []Precise
<1>1. PathInv /\ TaintInv => Precise
  <2> SUFFICES ASSUME PathInv, TaintInv, NEW b \in Branches, NEW src \in Sources \ Leaked(Ways),
                      heads[b] # Null, NEW k \in Contaminated(Tree(b), src) \cap Keys
               PROVE  \E c \in Made : k \in DOMAIN tree[c].from /\ src \in tree[c].from[k]
    BY DEF Precise
  <2>1. /\ heads[b] \in Made /\ SoundTree(Tree(b), Origins, Slipped) /\ src \notin Slipped
        /\ Tree(b) = tree[heads[b]]
    BY Sees DEF Slipped, Tree
  <2>2. Nodes(Tree(b)) \subseteq AllNodes
    BY <2>1 DEF AllNodes
  <2>3. PICK n \in Nodes(Tree(b)) : n.key = k /\ n.id \in Flood(Tree(b), src)[MaxDepth]
    BY DEF Contaminated
  <2>4. SoundNode(n, Origins, Slipped)
    BY <2>1 DEF SoundTree
  <2>5. n.id \in DOMAIN Origins /\ n.id[2] = k
    BY <2>3, <2>4 DEF SoundNode
  <2>6. src \in Origins[n.id]
    BY <2>1, <2>2, <2>3, <2>5, FloodKeeps
  <2>7. /\ n.id[1] \in Made /\ k \in DOMAIN tree[n.id[1]].from
        /\ Origins[n.id] = tree[n.id[1]].from[k]
    BY <2>5, OriginIds
  <2> QED BY <2>6, <2>7
<1> QED BY <1>1, TaintAlways, PTL

\* Node slots are filled in order (write_all numbers its nodes on from prov_seq_key
\* and leaves no gap, whatever a merge carries into other slots), recorded parents are commits made, and every
\* part of a tree, a read-set and the histories has its type.
THEOREM WritePathTypes == Spec => []TypeOK
<1>1. ASSUME PathInv, TaintInv, NEW c \in Made PROVE TreeOK(tree[c])
  <2> DEFINE t == tree[c]
  <2>1. SoundTree(t, Origins, Slipped) /\ WholeTree(t)
    BY <1>1 DEF TaintInv, PathInv, Trees
  <2> HIDE DEF t
  <2>2. DOMAIN t.rec \subseteq Keys /\ DOMAIN t.merged \subseteq Branches
    BY <2>1 DEF SoundTree, WholeTree
  <2>3. \A k \in DOMAIN t.rec : Standing(k, t.rec[k])
    BY <2>1 DEF WholeTree
  <2>4. \A k \in DOMAIN t.rec \cap Observations : t.rec[k].source \in Sources
    BY <2>3, ContentsAssumption DEF Standing
  <2>5. \A k \in DOMAIN t.rec \cap Claims : t.rec[k].start \in Nat /\ t.rec[k].status \in Statuses
    BY <2>3 DEF Standing
  <2>6. /\ DOMAIN t.prov \subseteq Slots
        /\ \A y \in DOMAIN t.cites : y[1] \in Sources /\ y[2] \in Slots /\ t.cites[y] \in NodeIds
    BY <2>1 DEF SoundTree, Indexes
  <2>7. ASSUME NEW x \in DOMAIN t.prov
        PROVE  t.prov[x].id \in NodeIds /\ t.prov[x].parents \subseteq NodeIds
    <3>1. SoundNode(t.prov[x], Origins, Slipped)
      BY <2>1 DEF SoundTree, Nodes
    <3>2. \A p \in t.prov[x].parents : p \in NodeIds
      BY <3>1, OriginIds DEF SoundNode
    <3> QED BY <3>1, <3>2 DEF SoundNode
  <2>8. \A b \in Branches : \A n \in 0 .. t.seq[b] - 1 : <<b, n>> \in DOMAIN t.prov
    BY <2>1 DEF SoundTree, Filled
  <2>9. TreeOK(t)
    BY <2>2, <2>4, <2>5, <2>6, <2>7, <2>8 DEF TreeOK
  <2> QED BY <2>9 DEF t
<1>2. ASSUME PathInv, TaintInv, NEW s \in Sessions
      PROVE  readset[s].nodes \subseteq NodeIds /\ readset[s].sources \subseteq Sources
  <2>1. SoundSession(s) /\ truth[s] \subseteq Sources
    BY <1>2 DEF TaintInv, PathInv, CallInv
  <2>2. CASE call[s].at = "writing"
    BY <2>1, <2>2 DEF SoundSession, NoReads
  <2>3. CASE call[s].at # "writing"
    <3>1. SoundReads(readset[s], truth[s], call[s], Origins, Slipped)
      BY <2>1, <2>3 DEF SoundSession
    <3>2. readset[s].sources \subseteq truth[s] /\ \A p \in readset[s].nodes : p \in DOMAIN Origins
      BY <3>1 DEF SoundReads
    <3>3. \A p \in readset[s].nodes : p \in NodeIds
      BY <3>2, OriginIds
    <3> QED BY <2>1, <3>2, <3>3
  <2> QED BY <2>2, <2>3
<1>3. PathInv /\ TaintInv => TypeOK
  <2> SUFFICES ASSUME PathInv, TaintInv PROVE TypeOK
    OBVIOUS
  <2>1. heads \in [Branches -> Made \cup {Null}]
    BY DEF PathInv, Shaped
  <2>2. \A c \in Made : parents[c] \subseteq Made
    BY DEF TaintInv, Ordered
  <2>3. leaks \subseteq Ways \X Sources /\ unlabelled \subseteq Sources
    BY DEF TaintInv
  <2> QED BY <1>1, <1>2, <2>1, <2>2, <2>3 DEF TypeOK
<1> QED BY <1>3, TaintAlways, PTL
=============================================================================
