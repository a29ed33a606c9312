---------------------------- MODULE RefLogProofs ----------------------------
(***************************************************************************)
(* Proofs about RefLog, for any branches, tags, commits, batches of edits  *)
(* and compaction floor, and for any number of calls and faults: no        *)
(* acknowledged edit is lost, the log implements the abstract store, and   *)
(* recovery is bounded.                                                    *)
(*                                                                         *)
(* Replay is a fold, and what a fold computes is reached by induction on   *)
(* the number of positions it has gone through.  The induction is over the *)
(* elements of a set (NatInd, from the well-foundedness of < on the        *)
(* naturals), and what it is for is ReplayConcat, replay in pieces, and    *)
(* ReplayTwice, replay of what was replayed already.                       *)
(***************************************************************************)
EXTENDS RefLog, SequenceTheorems, WellFoundedInduction, FiniteSetTheorems, TLAPS

-----------------------------------------------------------------------------
(* Replay.                                                                   *)

\* A set of numbers that is not empty has a least one: induction over the
\* lengths of logs rests on it.
LEMMA LeastNat ==
  ASSUME NEW T, T \subseteq Nat, T # {}
  PROVE  \E x \in T : \A y \in T : ~(y < x)
<1> DEFINE R == OpToRel(<, Nat)
<1>1. IsWellFoundedOn(R, Nat)
  BY NatLessThanWellFounded
<1>2. \E x \in T : \A y \in T : ~ (<<y, x>> \in R)
  <2> HIDE DEF R
  <2> QED BY <1>1, WFMin
<1>3. \A x, y \in Nat : <<y, x>> \in R <=> y < x
  BY DEF OpToRel
<1> QED BY <1>2, <1>3

\* Induction, over the numbers a set contains.
LEMMA NatInd ==
  ASSUME NEW T, 0 \in T, \A n \in Nat : n \in T => n + 1 \in T
  PROVE  Nat \subseteq T
<1> SUFFICES ASSUME Nat \ T # {} PROVE FALSE
  OBVIOUS
<1>1. PICK x \in Nat \ T : \A y \in Nat \ T : ~(y < x)
  BY LeastNat
<1>2. x # 0 /\ x - 1 \in Nat /\ x - 1 < x /\ x - 1 + 1 = x
  BY <1>1
<1> QED BY <1>1, <1>2

\* The last position is the one a fold takes first.
LEMMA MaxOfRange ==
  ASSUME NEW n \in Nat, NEW s \in SUBSET (1 .. n + 1), n + 1 \in s
  PROVE  Max(s) = n + 1
<1>1. \A y \in s : n + 1 >= y
  OBVIOUS
<1>2. \A x \in s : (\A y \in s : x >= y) => x = n + 1
  OBVIOUS
<1> QED  BY <1>1, <1>2, Zenon DEF Max

\* f is the replay of the edits at each set of the first n positions, as the fold
\* goes about it.
Folds(f, r, edits, n) ==
  f = [s \in SUBSET (1 .. n) |->
         IF s = {} THEN r ELSE ApplyEdit(f[s \ {Max(s)}], edits[Max(s)])]

\* Every number of positions has one: what the fold chooses exists.
LEMMA FoldExists ==
  ASSUME NEW r, NEW edits
  PROVE  \A n \in Nat : \E f : Folds(f, r, edits, n)
<1> USE DEF Folds
<1> DEFINE Eq(n, f) == Folds(f, r, edits, n)
           T == {n \in Nat : \E f : Eq(n, f)}
<1>1. 0 \in T
  <2> DEFINE f0 == [s \in SUBSET (1 .. 0) |-> r]
  <2>1. \A s \in SUBSET (1 .. 0) : s = {}
    OBVIOUS
  <2>2. Eq(0, f0)
    BY <2>1
  <2> QED BY <2>2
<1>2. ASSUME NEW n \in Nat, n \in T
      PROVE  n + 1 \in T
  <2>1. PICK f : Eq(n, f)
    BY <1>2
  <2> DEFINE g == [s \in SUBSET (1 .. n + 1) |->
               IF n + 1 \in s THEN ApplyEdit(f[s \ {n + 1}], edits[n + 1]) ELSE f[s]]
             H(s) == IF s = {} THEN r ELSE ApplyEdit(g[s \ {Max(s)}], edits[Max(s)])
  <2>2. ASSUME NEW s \in SUBSET (1 .. n + 1)
        PROVE  g[s] = H(s)
    <3>1. CASE n + 1 \in s
      <4>1. Max(s) = n + 1
        BY <3>1, MaxOfRange
      <4>2. s \ {n + 1} \in SUBSET (1 .. n + 1) /\ n + 1 \notin s \ {n + 1}
        OBVIOUS
      <4>3. g[s \ {n + 1}] = f[s \ {n + 1}]
        BY <4>2
      <4> QED BY <3>1, <4>1, <4>3
    <3>2. CASE n + 1 \notin s
      <4>1. s \in SUBSET (1 .. n)
        BY <3>2
      <4>2. g[s] = f[s]
        BY <3>2
      <4>3. f[s] = IF s = {} THEN r ELSE ApplyEdit(f[s \ {Max(s)}], edits[Max(s)])
        BY <2>1, <4>1
      <4>4. s \ {Max(s)} \in SUBSET (1 .. n + 1) /\ n + 1 \notin s \ {Max(s)}
        BY <3>2
      <4>5. g[s \ {Max(s)}] = f[s \ {Max(s)}]
        BY <4>4
      <4> QED BY <4>2, <4>3, <4>5
    <3> QED BY <3>1, <3>2
  <2>3. Eq(n + 1, g)
    BY <2>2
  <2> HIDE DEF g, Eq
  <2> QED BY <2>3
<1>3. Nat \subseteq T
  <2> HIDE DEF T
  <2> QED BY <1>1, <1>2, NatInd
<1> QED BY <1>3

\* g[n] is what the first n edits make of r.
Replays(g, r, edits) ==
  /\ g[0] = r
  /\ \A n \in 1 .. Len(edits) : g[n] = ApplyEdit(g[n - 1], edits[n])

\* Replay applies one edit after the other.
LEMMA ReplayDef ==
  ASSUME NEW r, NEW edits \in Seq(RefEdit)
  PROVE  \E g : Replays(g, r, edits) /\ ApplyEdits(r, edits) = g[Len(edits)]
<1> DEFINE Eq(f) == f = [s \in SUBSET (DOMAIN edits) |->
               IF s = {} THEN r ELSE ApplyEdit(f[s \ {Max(s)}], edits[Max(s)])]
           it == CHOOSE f : Eq(f)
           g == [n \in 0 .. Len(edits) |-> it[1 .. n]]
<1>1. DOMAIN edits = 1 .. Len(edits) /\ Len(edits) \in Nat
  OBVIOUS
<1>2. Eq(it)
  <2>1. \E f : Eq(f)
    <3>1. \E f : Folds(f, r, edits, Len(edits))
      BY <1>1, FoldExists
    <3> QED  BY <1>1, <3>1, Zenon DEF Folds
  <2> HIDE DEF Eq
  <2> QED  BY <2>1
<1>3. ApplyEdits(r, edits) = it[DOMAIN edits]
  BY Zenon DEF ApplyEdits, FoldLeft, MapThenFoldSet
<1> HIDE DEF it
<1>4. ASSUME NEW n \in 1 .. Len(edits)
      PROVE  it[1 .. n] = ApplyEdit(it[1 .. n - 1], edits[n])
  <2>1. Max(1 .. n) = n
    <3>1. n - 1 \in Nat /\ n - 1 + 1 = n
      BY <1>1
    <3>2. n \in 1 .. n
      BY <1>1
    <3> QED  BY <3>1, <3>2, MaxOfRange
  <2>2. (1 .. n) \ {n} = 1 .. n - 1
    BY <1>1
  <2>3. n \in 1 .. n /\ 1 .. n \in SUBSET (DOMAIN edits)
    BY <1>1
  <2>4. it[1 .. n] = IF 1 .. n = {} THEN r ELSE ApplyEdit(it[(1 .. n) \ {Max(1 .. n)}], edits[Max(1 .. n)])
    BY <1>2, <2>3
  <2> QED  BY <2>1, <2>2, <2>3, <2>4, Zenon
<1>5. it[1 .. 0] = r
  BY <1>2
<1> QED
  <2>1. g[0] = r /\ g[Len(edits)] = it[DOMAIN edits]
    BY <1>1, <1>5
  <2>2. \A n \in 1 .. Len(edits) : g[n] = it[1 .. n] /\ g[n - 1] = it[1 .. n - 1]
    BY <1>1
  <2> QED  BY <1>3, <1>4, <2>1, <2>2 DEF Replays

\* Replaying no edits changes nothing.
LEMMA ReplayNone == \A r : ApplyEdits(r, << >>) = r
<1> TAKE r
<1>1. << >> \in Seq(RefEdit)
  OBVIOUS
<1>2. PICK g : Replays(g, r, << >>) /\ ApplyEdits(r, << >>) = g[Len(<< >>)]
  BY <1>1, ReplayDef
<1> QED  BY <1>2 DEF Replays

\* A log is replayed in pieces: first what was there, then what was appended.
LEMMA ReplayConcat ==
  ASSUME NEW s \in Seq(RefEdit), NEW t \in Seq(RefEdit), NEW r
  PROVE  ApplyEdits(r, s \o t) = ApplyEdits(ApplyEdits(r, s), t)
<1> DEFINE st == s \o t
<1>1. st \in Seq(RefEdit) /\ Len(st) = Len(s) + Len(t) /\ Len(s) \in Nat /\ Len(t) \in Nat
  OBVIOUS
<1>2. PICK g : Replays(g, r, st) /\ ApplyEdits(r, st) = g[Len(st)]
  <2> HIDE DEF st
  <2> QED  BY <1>1, ReplayDef
<1>3. PICK f : Replays(f, r, s) /\ ApplyEdits(r, s) = f[Len(s)]
  BY ReplayDef
<1>4. PICK h : Replays(h, f[Len(s)], t) /\ ApplyEdits(f[Len(s)], t) = h[Len(t)]
  BY ReplayDef
<1>5. \A n \in 1 .. Len(s) : st[n] = s[n]
  OBVIOUS
<1>6. \A n \in 1 .. Len(t) : st[Len(s) + n] = t[n]
  BY <1>1
<1> HIDE DEF st
<1>7. \A n \in Nat : n <= Len(s) => g[n] = f[n]
  <2> DEFINE T == {n \in Nat : n <= Len(s) => g[n] = f[n]}
  <2>1. 0 \in T
    BY <1>2, <1>3 DEF Replays
  <2>2. ASSUME NEW n \in Nat, n \in T
        PROVE  n + 1 \in T
    <3> SUFFICES ASSUME n + 1 <= Len(s) PROVE g[n + 1] = f[n + 1]
      OBVIOUS
    <3>1. n + 1 \in 1 .. Len(s) /\ n + 1 \in 1 .. Len(st) /\ (n + 1) - 1 = n
      BY <1>1
    <3>2. g[n] = f[n]
      BY <2>2, <1>1
    <3>3. g[n + 1] = ApplyEdit(g[n], st[n + 1]) /\ f[n + 1] = ApplyEdit(f[n], s[n + 1])
      BY <1>2, <1>3, <3>1 DEF Replays
    <3> QED  BY <1>5, <3>1, <3>2, <3>3
  <2>3. Nat \subseteq T
    <3> HIDE DEF T
    <3> QED  BY <2>1, <2>2, NatInd
  <2> QED  BY <2>3
<1>8. \A n \in Nat : n <= Len(t) => g[Len(s) + n] = h[n]
  <2> DEFINE T == {n \in Nat : n <= Len(t) => g[Len(s) + n] = h[n]}
  <2>1. 0 \in T
    BY <1>1, <1>4, <1>7 DEF Replays
  <2>2. ASSUME NEW n \in Nat, n \in T
        PROVE  n + 1 \in T
    <3> SUFFICES ASSUME n + 1 <= Len(t) PROVE g[Len(s) + (n + 1)] = h[n + 1]
      OBVIOUS
    <3>1. /\ n + 1 \in 1 .. Len(t) /\ Len(s) + (n + 1) \in 1 .. Len(st)
          /\ (n + 1) - 1 = n /\ (Len(s) + (n + 1)) - 1 = Len(s) + n
      BY <1>1
    <3>2. g[Len(s) + n] = h[n]
      BY <2>2, <1>1
    <3>3. /\ g[Len(s) + (n + 1)] = ApplyEdit(g[Len(s) + n], st[Len(s) + (n + 1)])
          /\ h[n + 1] = ApplyEdit(h[n], t[n + 1])
      BY <1>2, <1>4, <3>1 DEF Replays
    <3> QED  BY <1>6, <3>1, <3>2, <3>3
  <2>3. Nat \subseteq T
    <3> HIDE DEF T
    <3> QED  BY <2>1, <2>2, NatInd
  <2> QED  BY <2>3
<1> QED
  <2>1. g[Len(st)] = h[Len(t)]
    BY <1>1, <1>8
  <2> QED  BY <1>2, <1>3, <1>4, <2>1 DEF st

\* The last edit of a log is applied last.
LEMMA ReplayOne ==
  ASSUME NEW s \in Seq(RefEdit), NEW e \in RefEdit, NEW r
  PROVE  ApplyEdits(r, Append(s, e)) = ApplyEdit(ApplyEdits(r, s), e)
<1>1. Append(s, e) = s \o <<e>> /\ <<e>> \in Seq(RefEdit) /\ Len(<<e>>) = 1 /\ <<e>>[1] = e
  OBVIOUS
<1>2. PICK g : Replays(g, ApplyEdits(r, s), <<e>>) /\ ApplyEdits(ApplyEdits(r, s), <<e>>) = g[Len(<<e>>)]
  BY <1>1, ReplayDef
<1>3. ApplyEdits(ApplyEdits(r, s), <<e>>) = ApplyEdit(ApplyEdits(r, s), e)
  BY <1>1, <1>2 DEF Replays
<1>4. ApplyEdits(r, s \o <<e>>) = ApplyEdits(ApplyEdits(r, s), <<e>>)
  BY <1>1, ReplayConcat
<1> QED  BY <1>1, <1>3, <1>4

\* apply_edit makes refs of refs.
LEMMA EditTypes ==
  ASSUME NEW r \in RefsType, NEW e \in RefEdit
  PROVE  ApplyEdit(r, e) \in RefsType
  BY DEF RefsType, RefEdit, ApplyEdit, SetHead, CreateBranch, RemoveBranch, SetTag, RemoveTag,
         RecordCommit, AddParent

\* Induction over logs: a set that holds the empty one, and with a log every
\* longer one by an edit, holds them all.
LEMMA ReplayInd ==
  ASSUME NEW T, << >> \in T,
         \A s \in Seq(RefEdit), e \in RefEdit : s \in T => Append(s, e) \in T
  PROVE  Seq(RefEdit) \subseteq T
<1> DEFINE N == {n \in Nat : \A s \in Seq(RefEdit) : Len(s) = n => s \in T}
<1>1. 0 \in N
  OBVIOUS
<1>2. ASSUME NEW n \in Nat, n \in N
      PROVE  n + 1 \in N
  <2> SUFFICES ASSUME NEW s \in Seq(RefEdit), Len(s) = n + 1
               PROVE  s \in T
    OBVIOUS
  <2> DEFINE t == SubSeq(s, 1, n)
  <2>1. t \in Seq(RefEdit) /\ Len(t) = n /\ s[n + 1] \in RefEdit /\ s = Append(t, s[n + 1])
    OBVIOUS
  <2>2. t \in T
    BY <1>2, <2>1
  <2> QED  BY <2>1, <2>2
<1>3. Nat \subseteq N
  <2> HIDE DEF N
  <2> QED  BY <1>1, <1>2, NatInd
<1> QED  BY <1>3

\* Replay makes refs of refs.
LEMMA ReplayTypes ==
  ASSUME NEW r \in RefsType
  PROVE  \A s \in Seq(RefEdit) : ApplyEdits(r, s) \in RefsType
<1> DEFINE T == {s \in Seq(RefEdit) : ApplyEdits(r, s) \in RefsType}
<1>1. << >> \in T
  BY ReplayNone
<1>2. ASSUME NEW s \in Seq(RefEdit), NEW e \in RefEdit, s \in T
      PROVE  Append(s, e) \in T
  BY <1>2, ReplayOne, EditTypes
<1>3. Seq(RefEdit) \subseteq T
  <2> HIDE DEF T
  <2> QED  BY <1>1, <1>2, ReplayInd
<1> QED  BY <1>3

\* What a sequence of edits does, whatever it is replayed on: the names it sets
\* and to what, the parent lists it replaces, and the parents it adds.
Effects ==
  [heads    : SUBSET Branches, branches : [Branches -> Commits \cup {Null}],
   labels   : SUBSET Tags,     tags     : [Tags -> Commits \cup {Null}],
   replaced : SUBSET Commits,  commits  : [Commits -> SUBSET Commits]]

\* The refs an effect makes of r.
Effect(r, o) ==
  [branches |-> [b \in Branches |-> IF b \in o.heads THEN o.branches[b] ELSE r.branches[b]],
   tags     |-> [t \in Tags |-> IF t \in o.labels THEN o.tags[t] ELSE r.tags[t]],
   commits  |-> [c \in Commits |->
                   IF c \in o.replaced THEN o.commits[c] ELSE r.commits[c] \cup o.commits[c]]]

\* One more edit is one more effect.
LEMMA EffectStep ==
  ASSUME NEW o \in Effects, NEW e \in RefEdit
  PROVE  \E n \in Effects : \A r \in RefsType : ApplyEdit(Effect(r, o), e) = Effect(r, n)
<1> USE DEF Effects, Effect, RefsType, ApplyEdit
<1>1. ASSUME NEW b \in Branches, NEW c \in Commits \cup {Null},
             e \in {SetHead(b, c), CreateBranch(b, c)} \/ (e = RemoveBranch(b) /\ c = Null)
      PROVE  \E n \in Effects : \A r \in RefsType : ApplyEdit(Effect(r, o), e) = Effect(r, n)
  <2> DEFINE n == [o EXCEPT !.heads = @ \cup {b}, !.branches[b] = c]
  <2>1. n \in Effects
    OBVIOUS
  <2>2. ASSUME NEW r \in RefsType
        PROVE  ApplyEdit(Effect(r, o), e) = Effect(r, n)
    <3> DEFINE x == Effect(r, o)
    <3>1. ApplyEdit(x, e) = [branches |-> [x.branches EXCEPT ![b] = c],
                             tags |-> x.tags, commits |-> x.commits]
      <4> HIDE DEF x
      <4> QED  BY <1>1 DEF SetHead, CreateBranch, RemoveBranch
    <3>2. [x.branches EXCEPT ![b] = c] = Effect(r, n).branches
      OBVIOUS
    <3>3. x.tags = Effect(r, n).tags /\ x.commits = Effect(r, n).commits
      OBVIOUS
    <3> QED  BY <3>1, <3>2, <3>3
  <2> QED  BY <2>1, <2>2
<1>2. ASSUME NEW t \in Tags, NEW c \in Commits \cup {Null},
             e = SetTag(t, c) \/ (e = RemoveTag(t) /\ c = Null)
      PROVE  \E n \in Effects : \A r \in RefsType : ApplyEdit(Effect(r, o), e) = Effect(r, n)
  <2> DEFINE n == [o EXCEPT !.labels = @ \cup {t}, !.tags[t] = c]
  <2>1. n \in Effects
    OBVIOUS
  <2>2. ASSUME NEW r \in RefsType
        PROVE  ApplyEdit(Effect(r, o), e) = Effect(r, n)
    <3> DEFINE x == Effect(r, o)
    <3>1. ApplyEdit(x, e) = [branches |-> x.branches,
                             tags |-> [x.tags EXCEPT ![t] = c], commits |-> x.commits]
      <4> HIDE DEF x
      <4> QED  BY <1>2 DEF SetTag, RemoveTag
    <3>2. [x.tags EXCEPT ![t] = c] = Effect(r, n).tags
      OBVIOUS
    <3>3. x.branches = Effect(r, n).branches /\ x.commits = Effect(r, n).commits
      OBVIOUS
    <3> QED  BY <3>1, <3>2, <3>3
  <2> QED  BY <2>1, <2>2
<1>3. ASSUME NEW c \in Commits, NEW ps \in SUBSET Commits, e = RecordCommit(c, ps)
      PROVE  \E n \in Effects : \A r \in RefsType : ApplyEdit(Effect(r, o), e) = Effect(r, n)
  <2> DEFINE n == [o EXCEPT !.replaced = @ \cup {c}, !.commits[c] = ps]
  <2>1. n \in Effects
    OBVIOUS
  <2>2. ASSUME NEW r \in RefsType
        PROVE  ApplyEdit(Effect(r, o), e) = Effect(r, n)
    BY <1>3 DEF RecordCommit
  <2> QED  BY <2>1, <2>2
<1>4. ASSUME NEW c \in Commits, NEW p \in Commits, e = AddParent(c, p)
      PROVE  \E n \in Effects : \A r \in RefsType : ApplyEdit(Effect(r, o), e) = Effect(r, n)
  <2> DEFINE n == [o EXCEPT !.commits[c] = @ \cup {p}]
  <2>1. n \in Effects
    OBVIOUS
  <2>2. ASSUME NEW r \in RefsType
        PROVE  ApplyEdit(Effect(r, o), e) = Effect(r, n)
    BY <1>4 DEF AddParent
  <2> QED  BY <2>1, <2>2
<1> HIDE DEF Effects, Effect, RefsType, ApplyEdit
<1>5. \/ \E b \in Branches, c \in Commits \cup {Null} :
              e \in {SetHead(b, c), CreateBranch(b, c)} \/ (e = RemoveBranch(b) /\ c = Null)
      \/ \E t \in Tags, c \in Commits \cup {Null} :
              e = SetTag(t, c) \/ (e = RemoveTag(t) /\ c = Null)
      \/ \E c \in Commits, ps \in SUBSET Commits : e = RecordCommit(c, ps)
      \/ \E c \in Commits, p \in Commits : e = AddParent(c, p)
  BY DEF RefEdit
<1> QED  BY <1>1, <1>2, <1>3, <1>4, <1>5

\* Every sequence of edits has one.
LEMMA EffectExists ==
  \A s \in Seq(RefEdit) : \E o \in Effects : \A r \in RefsType : ApplyEdits(r, s) = Effect(r, o)
<1> DEFINE T == {s \in Seq(RefEdit) :
                   \E o \in Effects : \A r \in RefsType : ApplyEdits(r, s) = Effect(r, o)}
<1>1. << >> \in T
  <2> DEFINE o == [heads |-> {}, branches |-> [b \in Branches |-> Null],
                   labels |-> {}, tags |-> [t \in Tags |-> Null],
                   replaced |-> {}, commits |-> [c \in Commits |-> {}]]
  <2>1. o \in Effects
    BY DEF Effects
  <2>2. \A r \in RefsType : r = Effect(r, o)
    BY DEF Effect, RefsType
  <2>3. \A r \in RefsType : ApplyEdits(r, << >>) = Effect(r, o)
    BY <2>2, ReplayNone
  <2>4. << >> \in Seq(RefEdit)
    OBVIOUS
  <2> HIDE DEF o
  <2> QED  BY <2>1, <2>3, <2>4
<1>2. ASSUME NEW s \in Seq(RefEdit), NEW e \in RefEdit, s \in T
      PROVE  Append(s, e) \in T
  <2>1. PICK o \in Effects : \A r \in RefsType : ApplyEdits(r, s) = Effect(r, o)
    BY <1>2
  <2>2. PICK n \in Effects : \A r \in RefsType : ApplyEdit(Effect(r, o), e) = Effect(r, n)
    BY EffectStep
  <2>3. \A r \in RefsType : ApplyEdits(r, Append(s, e)) = Effect(r, n)
    BY <2>1, <2>2, ReplayOne
  <2> QED  BY <2>3
<1>3. Seq(RefEdit) \subseteq T
  <2> HIDE DEF T
  <2> QED  BY <1>1, <1>2, ReplayInd
<1> QED  BY <1>3

\* Replay is idempotent: a log that has been folded into the snapshot may be
\* replayed on it, which is what a crash between the two halves of a compaction
\* leaves to the next open (refs.rs: write_snapshot_and_reset_log).
THEOREM ReplayTwice ==
  ASSUME NEW r \in RefsType, NEW s \in Seq(RefEdit)
  PROVE  ApplyEdits(ApplyEdits(r, s), s) = ApplyEdits(r, s)
<1>1. PICK o \in Effects : \A q \in RefsType : ApplyEdits(q, s) = Effect(q, o)
  BY EffectExists
<1>2. Effect(Effect(r, o), o) = Effect(r, o)
  BY DEF Effect, Effects, RefsType
<1>3. ApplyEdits(r, s) \in RefsType
  BY ReplayTypes
<1> QED  BY <1>1, <1>2, <1>3

-----------------------------------------------------------------------------
(* Frames.                                                                   *)

\* A torn frame is not an edit.
LEMMA TornIsNoEdit == Torn \notin RefEdit
<1>1. \A e \in RefEdit : e.op \in {"SetHead", "CreateBranch", "RemoveBranch", "SetTag", "RemoveTag",
                                   "RecordCommit", "AddParent"}
  BY DEF RefEdit, SetHead, CreateBranch, RemoveBranch, SetTag, RemoveTag, RecordCommit, AddParent
<1>2. Torn.op = "Torn"
  BY DEF Torn
<1> QED  BY <1>1, <1>2

\* No file is not an empty file.
LEMMA NoFileIsNoRefs == NoFile \notin RefsType
<1>1. \A r \in RefsType : DOMAIN r = {"branches", "tags", "commits"}
  BY DEF RefsType
<1>2. DOMAIN NoFile = {"op"}
  BY DEF NoFile
<1> QED  BY <1>1, <1>2

\* frames_decode keeps every frame of a log with no tear.
LEMMA DecodeWhole ==
  ASSUME NEW frames \in Seq(RefEdit)
  PROVE  FramesDecode(frames) = frames
<1>1. {i \in DOMAIN frames : frames[i] = Torn} = {}
  BY TornIsNoEdit
<1>2. SubSeq(frames, 1, Len(frames)) = frames
  OBVIOUS
<1> QED  BY <1>1, <1>2 DEF FramesDecode

\* What Min returns.
LEMMA LeastIs ==
  ASSUME NEW S \in SUBSET Nat, NEW x \in S, \A y \in S : x <= y
  PROVE  Min(S) = x
<1>1. \A z \in S : (\A y \in S : z <= y) => z = x
  OBVIOUS
<1> QED  BY <1>1, Zenon DEF Min

\* frames_decode drops a torn tail and nothing else.
LEMMA DecodeTorn ==
  ASSUME NEW frames \in Seq(RefEdit)
  PROVE  FramesDecode(frames \o <<Torn>>) = frames
<1> DEFINE n == Len(frames)
           all == frames \o <<Torn>>
           torn == {i \in DOMAIN all : all[i] = Torn}
<1>1. Len(all) = n + 1 /\ all[n + 1] = Torn /\ \A i \in 1 .. n : all[i] = frames[i]
  OBVIOUS
<1>2. torn = {n + 1}
  BY <1>1, TornIsNoEdit
<1>3. Min({n + 1}) = n + 1
  <2>1. {n + 1} \in SUBSET Nat /\ n + 1 \in {n + 1} /\ \A y \in {n + 1} : n + 1 <= y
    OBVIOUS
  <2> QED  BY <2>1, LeastIs
<1>4. SubSeq(all, 1, (n + 1) - 1) = frames
  OBVIOUS
<1> QED  BY <1>2, <1>3, <1>4 DEF FramesDecode

\* frames_decode returns edits, wherever the tears are.
LEMMA DecodeTypes ==
  ASSUME NEW frames \in Seq(RefEdit \cup {Torn})
  PROVE  FramesDecode(frames) \in Seq(RefEdit)
<1> DEFINE torn == {i \in DOMAIN frames : frames[i] = Torn}
<1>1. CASE torn = {}
  <2>1. \A i \in 1 .. Len(frames) : frames[i] \in RefEdit
    BY <1>1
  <2>2. frames \in Seq(RefEdit)
    BY <2>1
  <2> QED  BY <2>2, DecodeWhole
<1>2. CASE torn # {}
  <2>1. torn \in SUBSET Nat
    OBVIOUS
  <2>2. PICK m \in torn : \A i \in torn : m <= i
    <3>1. \E m \in torn : \A i \in torn : ~(i < m)
      <4> HIDE DEF torn
      <4> QED  BY <1>2, <2>1, LeastNat
    <3> QED  BY <2>1, <3>1
  <2>3. Min(torn) = m
    BY <2>1, <2>2, LeastIs
  <2>4. m \in 1 .. Len(frames)
    OBVIOUS
  <2>5. \A i \in 1 .. m - 1 : frames[i] \in RefEdit
    BY <2>2, <2>4
  <2>6. SubSeq(frames, 1, m - 1) \in Seq(RefEdit)
    BY <2>4, <2>5
  <2> QED  BY <1>2, <2>3, <2>6 DEF FramesDecode
<1> QED  BY <1>1, <1>2

-----------------------------------------------------------------------------
(* What is loaded.                                                           *)

\* What replay starts from.
Base == IF ReadSnapshot = NoFile THEN EmptyRefs ELSE ReadSnapshot

\* Replay starts from refs, and so does a new database.
LEMMA EmptyTypes == EmptyRefs \in RefsType /\ Rooted(Main, RootCommit) \in RefsType
  BY RefLogAssumption DEF EmptyRefs, Rooted, RefsType

\* What load() returns is the snapshot with the whole frames replayed on it or,
\* when there is neither, the refs of a new database.
LEMMA LoadedTypes ==
  ASSUME TypeOK, NEW frames \in Seq(RefEdit \cup {Torn})
  PROVE  /\ Base \in RefsType
         /\ FramesDecode(frames) \in Seq(RefEdit)
         /\ Reconstruct(frames) # NoFile => Reconstruct(frames) = ApplyEdits(Base, FramesDecode(frames))
         /\ Reconstruct(frames) # NoFile => Loaded(frames) = ApplyEdits(Base, FramesDecode(frames))
         /\ Reconstruct(frames) = NoFile =>
              FramesDecode(frames) = << >> /\ Loaded(frames) = Rooted(Main, RootCommit)
         /\ Loaded(frames) \in RefsType
<1>1. ReadSnapshot \in RefsType \cup {NoFile}
  BY RefLogAssumption DEF TypeOK, ReadSnapshot
<1>2. Base \in RefsType
  BY <1>1, EmptyTypes DEF Base
<1>3. FramesDecode(frames) \in Seq(RefEdit)
  BY DecodeTypes
<1>4. ApplyEdits(Base, FramesDecode(frames)) \in RefsType
  BY <1>2, <1>3, ReplayTypes
<1>5. ApplyEdits(Base, FramesDecode(frames)) # NoFile
  BY <1>4, NoFileIsNoRefs
<1> QED  BY <1>2, <1>3, <1>4, <1>5, EmptyTypes DEF Reconstruct, Loaded, Base

\* A log that has no tear and something to load grows by what is appended.
LEMMA LoadedGrows ==
  ASSUME TypeOK, ~HasTear, Reconstruct(log) # NoFile,
         NEW more \in Seq(RefEdit), NEW tail \in {<< >>, <<Torn>>}
  PROVE  /\ log \o more \o tail \in Seq(RefEdit \cup {Torn})
         /\ Reconstruct(log \o more \o tail) # NoFile
         /\ Loaded(log \o more \o tail) = ApplyEdits(Loaded(log), more)
<1> DEFINE new == log \o more \o tail
<1>1. log \in Seq(RefEdit)
  BY DEF TypeOK, HasTear
<1>2. log \o more \in Seq(RefEdit) /\ log \in Seq(RefEdit \cup {Torn}) /\ new \in Seq(RefEdit \cup {Torn})
  <2>1. log \o more \in Seq(RefEdit)
    BY <1>1
  <2>2. log \o more \in Seq(RefEdit \cup {Torn}) /\ log \in Seq(RefEdit \cup {Torn})
    BY <1>1, <2>1
  <2>3. tail \in Seq(RefEdit \cup {Torn})
    <3>1. << >> \in Seq(RefEdit \cup {Torn}) /\ <<Torn>> \in Seq(RefEdit \cup {Torn})
      OBVIOUS
    <3> QED  BY <3>1
  <2>4. new \in Seq(RefEdit \cup {Torn})
    BY <2>2, <2>3
  <2> QED  BY <2>1, <2>2, <2>4
<1>3. FramesDecode(log) = log
  BY <1>1, DecodeWhole
<1>4. FramesDecode(new) = log \o more
  <2>1. (log \o more) \o << >> = log \o more
    BY <1>2
  <2> QED  BY <1>2, <2>1, DecodeWhole, DecodeTorn
<1>5. Reconstruct(new) # NoFile
  <2>1. ReadSnapshot # NoFile \/ log # << >>
    BY <1>3 DEF Reconstruct
  <2>2. log # << >> => log \o more # << >>
    BY <1>1
  <2>3. Reconstruct(new) = ApplyEdits(Base, log \o more)
    BY <1>4, <2>1, <2>2 DEF Reconstruct, Base
  <2>4. ApplyEdits(Base, log \o more) \in RefsType
    BY <1>2, LoadedTypes, ReplayTypes
  <2> QED  BY <2>3, <2>4, NoFileIsNoRefs
<1>6. Loaded(new) = ApplyEdits(Base, log \o more) /\ Loaded(log) = ApplyEdits(Base, log)
  BY <1>2, <1>3, <1>4, <1>5, LoadedTypes
<1>7. ApplyEdits(Base, log \o more) = ApplyEdits(ApplyEdits(Base, log), more)
  BY <1>1, ReplayConcat
<1> QED  BY <1>2, <1>5, <1>6, <1>7

\* Folding the log into the snapshot changes nothing that is loaded, whether the
\* log is cut or not.
LEMMA LoadedFolded ==
  ASSUME TypeOK, snapshot' = Loaded(log), log' = log \/ log' = << >>
  PROVE  Loaded(log)' = Loaded(log) /\ Reconstruct(log)' # NoFile
<1>1. log \in Seq(RefEdit \cup {Torn})
  BY DEF TypeOK
<1>2. Loaded(log) \in RefsType /\ Base \in RefsType /\ FramesDecode(log) \in Seq(RefEdit)
  BY <1>1, LoadedTypes
<1>3. snapshot' # NoFile
  BY <1>2, NoFileIsNoRefs
<1>4. ReadSnapshot' = Loaded(log)
  BY <1>3 DEF ReadSnapshot
<1>5. Reconstruct(log)' = ApplyEdits(Loaded(log), FramesDecode(log'))
  BY <1>3, <1>4 DEF Reconstruct
<1>6. ApplyEdits(Loaded(log), FramesDecode(log')) = Loaded(log)
  <2>1. CASE log' = << >>
    <3>1. << >> \in Seq(RefEdit)
      OBVIOUS
    <3>2. FramesDecode(<< >>) = << >>
      BY <3>1, DecodeWhole
    <3> QED  BY <2>1, <3>2, ReplayNone
  <2>2. CASE log' = log /\ Reconstruct(log) = NoFile
    BY <1>1, <2>2, LoadedTypes, ReplayNone
  <2>3. CASE log' = log /\ Reconstruct(log) # NoFile
    BY <1>1, <1>2, <2>3, LoadedTypes, ReplayTwice
  <2> QED  BY <2>1, <2>2, <2>3
<1> QED  BY <1>2, <1>5, <1>6, NoFileIsNoRefs DEF Loaded

-----------------------------------------------------------------------------
(* No acknowledged edit is lost.                                             *)

\* The log is not appended to behind a tear, and the truncate that ends a
\* compaction is atomic.
AppendsClean == ~WriteAfterTear /\ ~PartialTruncate

\* Between calls there is something to load; an append finds no tear; what a
\* compaction writes is what would be loaded without it.
Steady ==
  /\ pc \in {"idle", "append"} => ~seeding
  /\ pc \in {"idle", "append"} \/ (pc # "down" /\ ~seeding) => Reconstruct(log) # NoFile
  /\ pc = "append" => ~HasTear
  /\ pc # "append" => batch = << >>
  /\ pc \in {"snapshot", "truncate"} => image = Loaded(log)
  /\ pc = "truncate" => snapshot = image

\* What is promised is what would be loaded, inside an append too.
Durable == Loaded(log) = acked

\* The inductive invariant.
IInv == TypeOK /\ Steady /\ Durable

\* An encoded snapshot has a size: the sets it lists are finite.
LEMMA SizeTypes == \A r : SnapshotSize(r) \in Nat
<1> TAKE r
<1>1. \A S : \A T \in SUBSET S : IsFiniteSet(S) => Cardinality(T) \in Nat
  BY FS_Subset, FS_CardinalityType
<1>2. /\ Cardinality({b \in Branches : r.branches[b] # Null}) \in Nat
      /\ Cardinality({t \in Tags : r.tags[t] # Null}) \in Nat
      /\ Cardinality({c \in Commits : r.commits[c] # {}}) \in Nat
  <2>1. /\ {b \in Branches : r.branches[b] # Null} \in SUBSET Branches
        /\ {t \in Tags : r.tags[t] # Null} \in SUBSET Tags
        /\ {c \in Commits : r.commits[c] # {}} \in SUBSET Commits
    OBVIOUS
  <2> QED  BY <1>1, <2>1, RefLogAssumption
<1> QED  BY <1>2 DEF SnapshotSize

\* The invariant holds of the files an opening process may find.
LEMMA LogInit == Init => IInv
<1> SUFFICES ASSUME Init PROVE IInv
  OBVIOUS
<1>1. log \in Seq(RefEdit \cup {Torn}) /\ batch \in Seq(RefEdit)
  BY DEF Init
<1>2. ReadSnapshot \in RefsType \cup {NoFile}
  BY RefLogAssumption DEF Init, ReadSnapshot
<1>3. Loaded(log) \in RefsType
  <2>1. FramesDecode(log) \in Seq(RefEdit)
    BY <1>1, DecodeTypes
  <2>2. ApplyEdits(IF ReadSnapshot = NoFile THEN EmptyRefs ELSE ReadSnapshot, FramesDecode(log)) \in RefsType
    BY <1>2, <2>1, EmptyTypes, ReplayTypes
  <2> QED  BY <2>2, EmptyTypes DEF Loaded, Reconstruct
<1>4. TypeOK
  BY <1>1, <1>3, EmptyTypes DEF Init, TypeOK
<1> QED  BY <1>4 DEF Init, IInv, Steady, Durable

\* The refs a session would load change only where an append reaches the log.
LEMMA LoadedSame ==
  ASSUME UNCHANGED <<snapshot, legacy, log>>
  PROVE  /\ Loaded(log)' = Loaded(log)
         /\ Reconstruct(log)' = Reconstruct(log)
         /\ HasTear' = HasTear
  BY DEF Loaded, Reconstruct, ReadSnapshot, HasTear

\* Opening loads what the files hold.
LEMMA OpenKeeps ==
  ASSUME IInv, Open
  PROVE  IInv'
<1> USE DEF IInv, Steady, Durable
<1>1. Loaded(log)' = Loaded(log) /\ Reconstruct(log)' = Reconstruct(log)
  BY LoadedSame DEF Open
<1>2. log \in Seq(RefEdit \cup {Torn}) /\ log' = log
  BY DEF TypeOK, Open
<1>3. Len(log) \in Nat
  BY <1>2
<1>4. TypeOK'
  BY <1>3, SizeTypes, EmptyTypes DEF Open, TypeOK
<1>5. Reconstruct(log) = NoFile => Loaded(log) = Rooted(Main, RootCommit)
  BY DEF Loaded
<1>6. Steady'
  BY <1>1, <1>5 DEF Open
<1> QED  BY <1>1, <1>4, <1>6 DEF Open

\* An append begins behind whole frames.
LEMMA BeginKeeps ==
  ASSUME IInv, AppendsClean, NEW edits \in Batches, BeginApply(edits)
  PROVE  IInv'
<1> USE DEF IInv, Steady, Durable
<1>1. Loaded(log)' = Loaded(log) /\ Reconstruct(log)' = Reconstruct(log) /\ HasTear' = HasTear
  BY LoadedSame DEF BeginApply
<1>2. TypeOK'
  BY RefLogAssumption DEF BeginApply, TypeOK
<1>3. Steady'
  BY <1>1 DEF BeginApply, AppendsClean
<1> QED  BY <1>1, <1>2, <1>3 DEF BeginApply

\* What an append of the edits in `more`, whole or torn, leaves behind.
LEMMA Appended ==
  ASSUME IInv, pc = "append", NEW more \in Seq(RefEdit), NEW tail \in {<< >>, <<Torn>>},
         log' = log \o more \o tail, UNCHANGED <<snapshot, legacy>>
  PROVE  /\ log' \in Seq(RefEdit \cup {Torn})
         /\ Reconstruct(log)' # NoFile
         /\ Loaded(log)' = ApplyEdits(Loaded(log), more)
         /\ Loaded(log)' \in RefsType
<1>1. TypeOK /\ ~HasTear /\ Reconstruct(log) # NoFile
  BY DEF IInv, Steady
<1>2. /\ log' \in Seq(RefEdit \cup {Torn})
      /\ Reconstruct(log') # NoFile
      /\ Loaded(log') = ApplyEdits(Loaded(log), more)
  BY <1>1, LoadedGrows
<1>3. Loaded(log') \in RefsType
  BY <1>1, <1>2, LoadedTypes
<1>4. Loaded(log)' = Loaded(log') /\ Reconstruct(log)' = Reconstruct(log')
  BY DEF Loaded, Reconstruct, ReadSnapshot
<1> QED  BY <1>2, <1>3, <1>4

\* A durable append adds its edits to what is loaded, and what it hands to a
\* compaction is what is loaded then.
LEMMA AppendOkKeeps ==
  ASSUME IInv, AppendOk
  PROVE  IInv' /\ Loaded(log)' = ApplyEdits(Loaded(log), batch)
<1>1. batch \in Seq(RefEdit) /\ << >> \in {<< >>, <<Torn>>}
  BY DEF IInv, TypeOK
<1>2. log' = log \o batch \o << >>
  <2>1. log \in Seq(RefEdit \cup {Torn}) /\ batch \in Seq(RefEdit \cup {Torn})
    BY <1>1 DEF IInv, TypeOK
  <2>2. log \o batch \in Seq(RefEdit \cup {Torn})
    BY <2>1
  <2>3. (log \o batch) \o << >> = log \o batch
    BY <2>2
  <2> QED  BY <2>3 DEF AppendOk
<1>3. /\ log' \in Seq(RefEdit \cup {Torn})
      /\ Reconstruct(log)' # NoFile
      /\ Loaded(log)' = ApplyEdits(Loaded(log), batch)
      /\ Loaded(log)' \in RefsType
  BY <1>1, <1>2, Appended DEF AppendOk
<1>4. Reconstruct(log') = Loaded(log)'
  <2>1. Reconstruct(log') = Reconstruct(log)'
    BY DEF AppendOk, Reconstruct, ReadSnapshot
  <2> QED  BY <1>3, <2>1 DEF Loaded
<1>5. Durable'
  BY <1>3 DEF IInv, Durable, AppendOk
<1>6. TypeOK'
  <2>1. Len(batch) \in Nat
    BY <1>1
  <2>2. acked' \in RefsType /\ image' \in RefsType
    BY <1>3, <1>4, <1>5 DEF AppendOk, IInv, TypeOK, Durable
  <2>3. batch' \in Seq(RefEdit)
    BY DEF AppendOk
  <2>4. logBytes' \in Nat
    BY <2>1 DEF AppendOk, IInv, TypeOK
  <2>5. answer' \in {"none", "ok", "err"} /\ stray' \in Nat
    BY DEF AppendOk, IInv, TypeOK
  <2> QED  BY <1>3, <2>2, <2>3, <2>4, <2>5 DEF AppendOk, IInv, TypeOK
<1>7. Steady'
  BY <1>3, <1>4 DEF AppendOk, IInv, Steady
<1> QED  BY <1>3, <1>5, <1>6, <1>7 DEF IInv

\* An append cut short adds the prefix of its edits that landed whole.
LEMMA AppendCutKeeps ==
  ASSUME IInv, NEW k \in 0 .. Len(batch), NEW torn \in BOOLEAN,
         AppendErr(k, torn) \/ AppendCrash(k, torn)
  PROVE  IInv' /\ Loaded(log)' = ApplyEdits(Loaded(log), SubSeq(batch, 1, k))
<1> DEFINE more == SubSeq(batch, 1, k)
           tail == IF torn THEN <<Torn>> ELSE << >>
<1>1. batch \in Seq(RefEdit) /\ more \in Seq(RefEdit) /\ tail \in {<< >>, <<Torn>>}
  BY DEF IInv, TypeOK
<1>2. pc = "append" /\ log' = log \o more \o tail /\ UNCHANGED <<snapshot, legacy>>
  BY DEF AppendErr, AppendCrash, Landed
<1>3. /\ log' \in Seq(RefEdit \cup {Torn})
      /\ Reconstruct(log)' # NoFile
      /\ Loaded(log)' = ApplyEdits(Loaded(log), more)
      /\ Loaded(log)' \in RefsType
  <2> HIDE DEF more, tail
  <2> QED  BY <1>1, <1>2, Appended
<1>4. Loaded(log') = Loaded(log)'
  BY <1>2 DEF Loaded, Reconstruct, ReadSnapshot
<1>5. Durable'
  BY <1>4 DEF Durable, AppendErr, AppendCrash
<1>6. TypeOK'
  <2>1. acked' \in RefsType
    BY <1>3, <1>4 DEF AppendErr, AppendCrash
  <2>2. batch' \in Seq(RefEdit)
    <3>1. << >> \in Seq(RefEdit)
      OBVIOUS
    <3>2. batch' = << >>
      BY DEF AppendErr, AppendCrash
    <3> QED  BY <3>1, <3>2
  <2>3. answer' \in {"none", "ok", "err"} /\ stray' \in Nat
    BY <1>1 DEF AppendErr, AppendCrash, IInv, TypeOK
  <2> QED  BY <1>3, <2>1, <2>2, <2>3 DEF AppendErr, AppendCrash, IInv, TypeOK
<1>7. Steady'
  BY <1>3 DEF AppendErr, AppendCrash, IInv, Steady
<1> QED  BY <1>3, <1>5, <1>6, <1>7 DEF IInv

\* A compaction, whole, half done or refused, changes nothing that is loaded.
LEMMA CompactionKeeps ==
  ASSUME IInv, WriteSnapshot \/ TruncateLog \/ CompactErr
  PROVE  IInv' /\ Loaded(log)' = Loaded(log)
<1> USE DEF IInv
<1>1. CASE WriteSnapshot
  <2>1. snapshot' = Loaded(log) /\ log' = log
    BY <1>1 DEF WriteSnapshot, Steady
  <2>2. Loaded(log)' = Loaded(log) /\ Reconstruct(log)' # NoFile
    BY <2>1, LoadedFolded
  <2>3. TypeOK'
    BY <1>1 DEF WriteSnapshot, TypeOK
  <2>4. Steady'
    BY <1>1, <2>2 DEF WriteSnapshot, Steady
  <2> QED  BY <1>1, <2>2, <2>3, <2>4 DEF WriteSnapshot, Durable
<1>2. CASE TruncateLog
  <2>1. snapshot' = Loaded(log) /\ log' = << >>
    BY <1>2 DEF TruncateLog, Steady
  <2>2. Loaded(log)' = Loaded(log) /\ Reconstruct(log)' # NoFile
    BY <2>1, LoadedFolded
  <2>3. TypeOK'
    <3>1. log' \in Seq(RefEdit \cup {Torn})
      <4>1. << >> \in Seq(RefEdit \cup {Torn})
        OBVIOUS
      <4> QED  BY <2>1, <4>1
    <3> QED  BY <1>2, <3>1, SizeTypes DEF TruncateLog, TypeOK
  <2>4. Steady'
    BY <1>2, <2>2 DEF TruncateLog, Steady
  <2> QED  BY <1>2, <2>2, <2>3, <2>4 DEF TruncateLog, Durable
<1>3. CASE CompactErr
  <2>1. Loaded(log)' = Loaded(log) /\ Reconstruct(log)' = Reconstruct(log)
    BY <1>3, LoadedSame DEF CompactErr
  <2>2. TypeOK'
    BY <1>3 DEF CompactErr, TypeOK
  <2>3. Steady'
    BY <1>3, <2>1 DEF CompactErr, Steady, TypeOK
  <2> QED  BY <1>3, <2>1, <2>2, <2>3 DEF CompactErr, Durable
<1> QED  BY <1>1, <1>2, <1>3

\* Neither does the end of the process.
LEMMA CrashKeeps ==
  ASSUME IInv, AppendsClean, Crash
  PROVE  IInv' /\ Loaded(log)' = Loaded(log)
<1> USE DEF IInv
<1>1. UNCHANGED <<snapshot, legacy, log>>
  BY DEF Crash, AppendsClean
<1>2. Loaded(log)' = Loaded(log) /\ Reconstruct(log)' = Reconstruct(log)
  BY <1>1, LoadedSame
<1>3. TypeOK'
  BY <1>1 DEF Crash, TypeOK
<1>4. Steady'
  BY DEF Crash, Steady
<1> QED  BY <1>2, <1>3, <1>4 DEF Crash, Durable

\* Every step keeps the invariant.
LEMMA LogNext ==
  ASSUME IInv, AppendsClean, [Next]_vars
  PROVE  IInv'
<1>1. CASE Open
  BY <1>1, OpenKeeps
<1>2. ASSUME NEW edits \in Batches, BeginApply(edits)
      PROVE  IInv'
  BY <1>2, BeginKeeps
<1>3. CASE AppendOk
  BY <1>3, AppendOkKeeps
<1>4. ASSUME NEW k \in 0 .. Len(batch), NEW torn \in BOOLEAN,
             AppendErr(k, torn) \/ AppendCrash(k, torn)
      PROVE  IInv'
  BY <1>4, AppendCutKeeps
<1>5. CASE WriteSnapshot \/ TruncateLog \/ CompactErr
  BY <1>5, CompactionKeeps
<1>6. CASE Crash
  BY <1>6, CrashKeeps
<1>7. CASE UNCHANGED vars
  <2>1. Loaded(log)' = Loaded(log) /\ Reconstruct(log)' = Reconstruct(log) /\ HasTear' = HasTear
    BY <1>7, LoadedSame DEF vars, logVars
  <2>2. TypeOK' /\ Steady' /\ Durable'
    BY <1>7, <2>1 DEF vars, logVars, IInv, TypeOK, Steady, Durable
  <2> QED  BY <2>2 DEF IInv
<1> QED  BY <1>1, <1>2, <1>3, <1>4, <1>5, <1>6, <1>7 DEF Next

\* No crash, torn append, I/O error or half-done compaction of FileRefStore
\* loses an edit that apply() answered Ok for, or brings back what a later edit
\* overwrote: outside an append, load() returns exactly what was promised
\* (refs.rs: apply, write_snapshot_and_reset_log, reconstruct).
THEOREM LogDurable == AppendsClean /\ Spec => []AckedSurvive
<1>1. Init => IInv
  BY LogInit
<1>2. AppendsClean /\ IInv /\ [Next]_vars => IInv'
  BY LogNext
<1>3. IInv => AckedSurvive
  BY DEF IInv, Durable, AckedSurvive
<1>4. AppendsClean <=> AppendsClean'
  BY DEF AppendsClean
<1> QED  BY <1>1, <1>2, <1>3, <1>4, PTL DEF Spec

-----------------------------------------------------------------------------
(* The log implements the store.                                             *)

\* The abstract store replays edits as the log does.
LEMMA StoreSame ==
  /\ Store!RefsType = RefsType
  /\ \A r, edits : Store!ApplyEdits(r, edits) = ApplyEdits(r, edits)
<1>1. Store!RefsType = RefsType
  BY DEF Store!RefsType, RefsType
<1>2. ASSUME NEW r, NEW edits
      PROVE  Store!ApplyEdits(r, edits) = ApplyEdits(r, edits)
  BY Zenon DEF Store!ApplyEdits, Store!FoldLeft, Store!MapThenFoldSet, Store!Max, Store!ApplyEdit,
               ApplyEdits, FoldLeft, MapThenFoldSet, Max, ApplyEdit
<1> QED  BY <1>1, <1>2

\* Every step of the log is a step of the abstract store, or changes neither the
\* refs load() returns nor the call under way.
LEMMA StoreStep ==
  ASSUME IInv, AppendsClean, [Next]_vars
  PROVE  [Store!StoreNext]_Store!storeVars
<1> USE DEF Store!storeVars
<1>1. ASSUME UNCHANGED <<Loaded(log), batch>>
      PROVE  [Store!StoreNext]_Store!storeVars
  BY <1>1
<1>2. CASE Open
  BY <1>1, <1>2, LoadedSame DEF Open
<1>3. ASSUME NEW edits \in Batches, BeginApply(edits)
      PROVE  [Store!StoreNext]_Store!storeVars
  <2>1. batch = << >> /\ batch' = edits /\ Loaded(log)' = Loaded(log)
    BY <1>3, LoadedSame DEF BeginApply, IInv, Steady
  <2> QED  BY <2>1 DEF Store!StoreNext, Store!Call
<1>4. CASE AppendOk
  <2>1. Loaded(log)' = ApplyEdits(Loaded(log), batch) /\ batch' = << >>
    BY <1>4, AppendOkKeeps DEF AppendOk
  <2>2. CASE batch = << >>
    BY <1>1, <2>1, <2>2, ReplayNone
  <2>3. CASE batch # << >>
    BY <2>1, <2>3, StoreSame DEF Store!StoreNext, Store!Return
  <2> QED  BY <2>2, <2>3
<1>5. ASSUME NEW k \in 0 .. Len(batch), NEW torn \in BOOLEAN,
             AppendErr(k, torn) \/ AppendCrash(k, torn)
      PROVE  [Store!StoreNext]_Store!storeVars
  <2>1. Loaded(log)' = ApplyEdits(Loaded(log), SubSeq(batch, 1, k)) /\ batch' = << >>
    BY <1>5, AppendCutKeeps DEF AppendErr, AppendCrash
  <2>2. CASE batch = << >>
    <3>1. SubSeq(batch, 1, k) = << >>
      BY <2>2
    <3> QED  BY <1>1, <2>1, <2>2, <3>1, ReplayNone
  <2>3. CASE batch # << >>
    BY <2>1, <2>3, StoreSame DEF Store!StoreNext, Store!CutShort
  <2> QED  BY <2>2, <2>3
<1>6. CASE WriteSnapshot \/ TruncateLog \/ CompactErr
  BY <1>1, <1>6, CompactionKeeps DEF WriteSnapshot, TruncateLog, CompactErr
<1>7. CASE Crash
  BY <1>1, <1>7, CrashKeeps DEF Crash
<1>8. CASE UNCHANGED vars
  BY <1>1, <1>8, LoadedSame DEF vars, logVars
<1> QED  BY <1>2, <1>3, <1>4, <1>5, <1>6, <1>7, <1>8 DEF Next

\* FileRefStore implements the promise of trait RefStore: refs change by the
\* edits of one apply() call, in order; all of them when it returns Ok, a prefix
\* when a crash or an error cut it short; and opening, compacting and crashing
\* show nothing.
THEOREM LogImplementsStore == AppendsClean /\ Spec => ImplementsRefStore
<1>1. Init => IInv
  BY LogInit
<1>2. AppendsClean /\ IInv /\ [Next]_vars => IInv'
  BY LogNext
<1>3. Init => Store!StoreInit
  <2>1. IInv => Loaded(log) \in RefsType
    BY DEF IInv, Durable, TypeOK
  <2> QED  BY <1>1, <2>1, StoreSame DEF Store!StoreInit, Init
<1>4. AppendsClean /\ IInv /\ [Next]_vars => [Store!StoreNext]_Store!storeVars
  BY StoreStep
<1>5. AppendsClean <=> AppendsClean'
  BY DEF AppendsClean
<1> QED  BY <1>1, <1>2, <1>3, <1>4, <1>5, PTL DEF Spec, ImplementsRefStore, Store!StoreSpec

-----------------------------------------------------------------------------
(* Recovery is bounded.                                                      *)

\* What the cached sizes are while a process is up.  log_bytes is behind the log
\* by what failed appends left there.  snapshot_bytes is out of date only after a
\* compaction that failed in its truncate, and then the log is past the old
\* threshold still, so that the next append compacts again.
Sized ==
  /\ pc # "down" => Len(log) = logBytes + stray
  /\ pc \in {"idle", "append"} =>
       \/ snapBytes = SnapshotSize(snapshot)
       \/ NeedsCompaction(logBytes, snapBytes)
  /\ pc \in {"snapshot", "truncate"} => seeding \/ NeedsCompaction(logBytes, snapBytes)
  /\ pc \in {"idle", "append"} => ~seeding
  /\ pc = "truncate" => snapshot = image
  /\ pc = "idle" /\ answer = "ok" => ~NeedsCompaction(logBytes, snapBytes)

\* What the files and the call under way are made of.
LogShape ==
  /\ log \in Seq(RefEdit \cup {Torn})
  /\ batch \in Seq(RefEdit)
  /\ {logBytes, snapBytes, stray} \subseteq Nat
  /\ seeding \in BOOLEAN

\* The inductive invariant of the bound.
BInv == LogShape /\ Sized

\* The floor or the snapshot, whichever is larger.
LEMMA LargerOfTwo ==
  ASSUME NEW x \in Nat, NEW y \in Nat
  PROVE  Max({x, y}) \in Nat /\ (Max({x, y}) = x \/ Max({x, y}) = y) /\ Max({x, y}) >= x /\ Max({x, y}) >= y
<1> DEFINE P(m) == m \in {x, y} /\ \A z \in {x, y} : m >= z
<1>1. \E m : P(m)
  BY DEF P
<1>2. P(Max({x, y}))
  <2>1. Max({x, y}) = CHOOSE m : P(m)
    BY Zenon DEF Max
  <2> QED  BY <1>1, <2>1
<1> QED  BY <1>2

\* The log is a sequence of frames, whatever is appended behind a tear and
\* wherever a truncate stops.
LEMMA ShapeKept ==
  ASSUME LogShape, [Next]_vars
  PROVE  LogShape'
<1> DEFINE Frames == Seq(RefEdit \cup {Torn})
<1>1. << >> \in Frames /\ << >> \in Seq(RefEdit) /\ <<Torn>> \in Frames
  OBVIOUS
<1>2. /\ log \in Frames /\ batch \in Seq(RefEdit) /\ batch \in Frames
      /\ logBytes \in Nat /\ snapBytes \in Nat /\ stray \in Nat /\ seeding \in BOOLEAN
      /\ Len(log) \in Nat /\ Len(batch) \in Nat
  BY DEF LogShape
<1>3. \A f, g \in Frames : f \o g \in Frames
  OBVIOUS
<1>4. \A k \in 0 .. Len(batch) : SubSeq(batch, 1, k) \in Frames
  BY <1>2
<1>5. CASE Open \/ WriteSnapshot \/ CompactErr
  <2>1. log' = log /\ batch' = batch /\ seeding' \in BOOLEAN
    BY <1>2, <1>5 DEF Open, WriteSnapshot, CompactErr
  <2>2. logBytes' \in Nat /\ snapBytes' \in Nat /\ stray' \in Nat
    BY <1>2, <1>5, SizeTypes DEF Open, WriteSnapshot, CompactErr
  <2> QED  BY <1>2, <2>1, <2>2 DEF LogShape
<1>6. ASSUME NEW edits \in Batches, BeginApply(edits)
      PROVE  LogShape'
  BY <1>2, <1>6, RefLogAssumption DEF BeginApply, LogShape
<1>7. CASE AppendOk
  <2>1. log' \in Frames
    BY <1>2, <1>3, <1>7 DEF AppendOk
  <2>2. batch' \in Seq(RefEdit)
    BY <1>1, <1>7 DEF AppendOk
  <2>3. logBytes' \in Nat /\ UNCHANGED <<snapBytes, stray, seeding>>
    BY <1>2, <1>7 DEF AppendOk
  <2> QED  BY <1>2, <2>1, <2>2, <2>3 DEF LogShape
<1>8. ASSUME NEW k \in 0 .. Len(batch), NEW torn \in BOOLEAN,
             AppendErr(k, torn) \/ AppendCrash(k, torn)
      PROVE  LogShape'
  <2>1. log' = log \o SubSeq(batch, 1, k) \o (IF torn THEN <<Torn>> ELSE << >>)
    BY <1>8 DEF AppendErr, AppendCrash, Landed
  <2>2. log \o SubSeq(batch, 1, k) \in Frames
    BY <1>2, <1>3, <1>4
  <2>3. log' \in Frames
    <3> HIDE DEF Frames
    <3>1. CASE torn
      BY <1>1, <1>3, <2>1, <2>2, <3>1
    <3>2. CASE ~torn
      BY <1>1, <1>3, <2>1, <2>2, <3>2
    <3> QED  BY <3>1, <3>2
  <2>4. batch' \in Seq(RefEdit)
    <3>1. batch' = << >>
      BY <1>8 DEF AppendErr, AppendCrash
    <3> QED  BY <1>1, <3>1
  <2>5. stray' \in Nat /\ UNCHANGED <<logBytes, snapBytes, seeding>>
    BY <1>2, <1>8 DEF AppendErr, AppendCrash
  <2> QED  BY <1>2, <2>3, <2>4, <2>5 DEF LogShape
<1>9. CASE TruncateLog
  <2>1. log' = << >> /\ batch' = batch
    BY <1>9 DEF TruncateLog
  <2>2. logBytes' \in Nat /\ snapBytes' \in Nat /\ stray' \in Nat /\ seeding' \in BOOLEAN
    BY <1>9, SizeTypes DEF TruncateLog
  <2> QED  BY <1>1, <1>2, <2>1, <2>2 DEF LogShape
<1>10. CASE Crash
  <2>1. \A k \in 0 .. Len(log) - 1 : SubSeq(log, 1, k) \in Frames
    BY <1>2
  <2> QED  BY <1>2, <1>10, <2>1 DEF Crash, LogShape
<1>11. CASE UNCHANGED vars
  BY <1>2, <1>11 DEF vars, logVars, LogShape
<1> QED  BY <1>5, <1>6, <1>7, <1>8, <1>9, <1>10, <1>11 DEF Next

\* A log past its threshold stays past it while it grows.
LEMMA ThresholdGrows ==
  ASSUME NEW lb \in Nat, NEW sb \in Nat, NEW more \in Nat
  PROVE  /\ NeedsCompaction(lb, sb) => NeedsCompaction(lb + more, sb)
         /\ ~NeedsCompaction(0, sb)
         /\ ~NeedsCompaction(lb, sb) => lb <= Max({sb, CompactFloor})
<1>1. Max({sb, CompactFloor}) \in Nat
  BY LargerOfTwo, RefLogAssumption
<1> QED  BY <1>1 DEF NeedsCompaction

\* The log is longer than log_bytes says by the stray frames alone, and a call
\* that answers Ok never leaves a log past the threshold behind.
LEMMA SizedKept ==
  ASSUME BInv, [Next]_vars
  PROVE  Sized'
<1>1. /\ log \in Seq(RefEdit \cup {Torn}) /\ batch \in Seq(RefEdit)
      /\ logBytes \in Nat /\ snapBytes \in Nat /\ stray \in Nat /\ seeding \in BOOLEAN
  BY DEF BInv, LogShape
<1>2. Len(log) \in Nat /\ Len(batch) \in Nat /\ Len(<< >>) = 0
  BY <1>1
<1>3. Sized
  BY DEF BInv
<1>4. CASE Open
  BY <1>2, <1>4 DEF Open, Sized
<1>5. ASSUME NEW edits \in Batches, BeginApply(edits)
      PROVE  Sized'
  BY <1>3, <1>5 DEF BeginApply, Sized
<1>6. CASE AppendOk
  <2>1. Len(log \o batch) = Len(log) + Len(batch)
    <3>1. batch \in Seq(RefEdit \cup {Torn})
      BY <1>1
    <3> QED  BY <1>1, <3>1
  <2>2. NeedsCompaction(logBytes, snapBytes) => NeedsCompaction(logBytes + Len(batch), snapBytes)
    BY <1>1, <1>2, ThresholdGrows
  <2>3. Len(log') = logBytes' + stray'
    <3>1. Len(log) = logBytes + stray
      BY <1>3, <1>6 DEF AppendOk, Sized
    <3>2. log' = log \o batch /\ logBytes' = logBytes + Len(batch) /\ stray' = stray
      BY <1>6 DEF AppendOk
    <3> QED  BY <1>1, <1>2, <2>1, <3>1, <3>2
  <2>4. pc = "append" /\ logBytes' = logBytes + Len(batch) /\ UNCHANGED <<snapshot, snapBytes, seeding>>
    BY <1>6 DEF AppendOk
  <2>5. CASE NeedsCompaction(logBytes', snapBytes)
    <3>1. pc' = "snapshot"
      BY <1>6, <2>5 DEF AppendOk
    <3> QED  BY <2>3, <2>4, <2>5, <3>1 DEF Sized, NeedsCompaction
  <2>6. CASE ~NeedsCompaction(logBytes', snapBytes)
    <3>1. pc' = "idle"
      BY <1>6, <2>6 DEF AppendOk
    <3>2. snapBytes = SnapshotSize(snapshot) /\ ~seeding
      BY <1>3, <2>2, <2>4, <2>6 DEF Sized
    <3>3. snapBytes' = SnapshotSize(snapshot)' /\ ~seeding' /\ ~NeedsCompaction(logBytes, snapBytes)'
      BY <2>4, <2>6, <3>2 DEF SnapshotSize, NeedsCompaction
    <3> QED  BY <2>3, <3>1, <3>3 DEF Sized
  <2> QED  BY <2>5, <2>6
<1>7. ASSUME NEW k \in 0 .. Len(batch), NEW torn \in BOOLEAN,
             AppendErr(k, torn)
      PROVE  Sized'
  <2> DEFINE more == SubSeq(batch, 1, k)
             tail == IF torn THEN <<Torn>> ELSE << >>
  <2>1. /\ more \in Seq(RefEdit \cup {Torn}) /\ Len(more) = k
        /\ tail \in Seq(RefEdit \cup {Torn}) /\ Len(tail) = IF torn THEN 1 ELSE 0
    <3>1. batch \in Seq(RefEdit \cup {Torn})
      BY <1>1
    <3>2. more \in Seq(RefEdit \cup {Torn}) /\ Len(more) = k
      BY <1>2, <3>1, SubSeqProperties
    <3>3. << >> \in Seq(RefEdit \cup {Torn}) /\ <<Torn>> \in Seq(RefEdit \cup {Torn})
      OBVIOUS
    <3>4. Len(<< >>) = 0 /\ Len(<<Torn>>) = 1
      <4>1. \A x : Len(<<x>>) = 1
        OBVIOUS
      <4>2. Len(<< >>) = 0
        OBVIOUS
      <4> QED  BY <4>1, <4>2, Zenon
    <3>5. tail \in Seq(RefEdit \cup {Torn}) /\ Len(tail) = IF torn THEN 1 ELSE 0
      <4>1. CASE torn
        <5>1. tail = <<Torn>> /\ (IF torn THEN 1 ELSE 0) = 1
          BY <4>1
        <5> HIDE DEF tail
        <5> QED  BY <3>3, <3>4, <5>1, Zenon
      <4>2. CASE ~torn
        <5>1. tail = << >> /\ (IF torn THEN 1 ELSE 0) = 0
          BY <4>2
        <5> HIDE DEF tail
        <5> QED  BY <3>3, <3>4, <5>1, Zenon
      <4> QED  BY <4>1, <4>2
    <3> HIDE DEF more, tail
    <3> QED  BY <3>2, <3>5
  <2>2. Len(log \o more \o tail) = Len(log) + k + IF torn THEN 1 ELSE 0
    <3> HIDE DEF more, tail
    <3>1. Len(log \o more) = Len(log) + k /\ log \o more \in Seq(RefEdit \cup {Torn})
      BY <1>1, <2>1, ConcatProperties
    <3>2. Len((log \o more) \o tail) = Len(log \o more) + Len(tail)
      BY <2>1, <3>1, ConcatProperties
    <3>3. Len((log \o more) \o tail) = Len(log) + k + Len(tail)
      BY <3>1, <3>2
    <3> QED  BY <2>1, <3>3
  <2>3. /\ pc = "append" /\ pc' = "idle" /\ answer' = "err"
        /\ log' = log \o more \o tail
        /\ stray' = stray + k + IF torn THEN 1 ELSE 0
        /\ UNCHANGED <<snapshot, logBytes, snapBytes, seeding>>
    BY <1>7 DEF AppendErr, Landed
  <2>4. Len(log') = logBytes' + stray'
    <3>1. Len(log) = logBytes + stray
      BY <1>3, <2>3 DEF Sized
    <3> HIDE DEF more, tail
    <3> QED  BY <1>1, <1>2, <2>2, <2>3, <3>1
  <2> QED  BY <1>3, <2>3, <2>4 DEF Sized, NeedsCompaction, SnapshotSize
<1>8. CASE WriteSnapshot
  BY <1>3, <1>8 DEF WriteSnapshot, Sized
<1>9. CASE TruncateLog
  <2>1. SnapshotSize(image) \in Nat /\ ~NeedsCompaction(0, SnapshotSize(image))
    BY SizeTypes, ThresholdGrows
  <2>2. /\ pc' = "idle" /\ log' = << >> /\ logBytes' = 0 /\ stray' = 0 /\ ~seeding'
        /\ snapBytes' = SnapshotSize(image) /\ snapshot' = image
    BY <1>3, <1>9 DEF TruncateLog, Sized
  <2>3. snapBytes' = SnapshotSize(snapshot)' /\ ~NeedsCompaction(logBytes, snapBytes)'
    BY <2>1, <2>2 DEF SnapshotSize, NeedsCompaction
  <2> QED  BY <1>2, <2>2, <2>3 DEF Sized
<1>10. CASE CompactErr
  BY <1>1, <1>3, <1>10 DEF CompactErr, Sized
<1>11. CASE Crash \/ \E k \in 0 .. Len(batch), torn \in BOOLEAN : AppendCrash(k, torn)
  <2>1. pc' = "down"
    BY <1>11 DEF Crash, AppendCrash
  <2> QED  BY <2>1 DEF Sized
<1>12. CASE UNCHANGED vars
  BY <1>3, <1>12 DEF vars, logVars, Sized
<1> QED  BY <1>4, <1>5, <1>6, <1>7, <1>8, <1>9, <1>10, <1>11, <1>12 DEF Next

\* Recovery after an apply() that answered Ok replays no more frames than the
\* snapshot has entries, or the floor, and the frames that failed appends left,
\* whatever crashes, failed appends and failed compactions came before it
\* (refs.rs: needs_compaction and the cached sizes it reads).  Torn tails and
\* partial truncates need no exclusion here.
THEOREM LogReplayBounded == Spec => []ReplayBounded
<1>1. Init => BInv
  <2> SUFFICES ASSUME Init PROVE BInv
    OBVIOUS
  <2>1. << >> \in Seq(RefEdit \cup {Torn}) /\ << >> \in Seq(RefEdit)
    OBVIOUS
  <2>2. LogShape
    <3>1. log = << >> /\ batch = << >> /\ logBytes = 0 /\ snapBytes = 0 /\ stray = 0 /\ seeding = FALSE
      BY DEF Init
    <3>2. {0} \subseteq Nat
      OBVIOUS
    <3> QED  BY <2>1, <3>1, <3>2 DEF LogShape
  <2>3. Sized
    BY DEF Init, Sized
  <2> QED  BY <2>2, <2>3 DEF BInv
<1>2. BInv /\ [Next]_vars => BInv'
  BY ShapeKept, SizedKept DEF BInv
<1>3. BInv => ReplayBounded
  <2> SUFFICES ASSUME BInv, pc = "idle", answer = "ok"
               PROVE  Len(log) <= Max({SnapshotSize(snapshot), CompactFloor}) + stray
    BY DEF ReplayBounded
  <2>1. SnapshotSize(snapshot) \in Nat /\ logBytes \in Nat /\ snapBytes \in Nat /\ stray \in Nat
    BY SizeTypes DEF BInv, LogShape
  <2>2. /\ Len(log) = logBytes + stray /\ snapBytes = SnapshotSize(snapshot)
        /\ ~NeedsCompaction(logBytes, snapBytes)
    BY DEF BInv, Sized
  <2>3. logBytes <= Max({snapBytes, CompactFloor}) /\ Max({snapBytes, CompactFloor}) \in Nat
    BY <2>1, <2>2, ThresholdGrows, LargerOfTwo, RefLogAssumption
  <2> QED  BY <2>1, <2>2, <2>3
<1> QED  BY <1>1, <1>2, <1>3, PTL DEF Spec

=============================================================================
