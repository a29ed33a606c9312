-------------------------- MODULE MergeHistoryProofs --------------------------
(***************************************************************************)
(* Merging over a history of any size: where one thread merges, and each   *)
(* branch is moved by one thread at a time, the base merge_bases finds is  *)
(* what the two sides have in common, and every write is counted once.     *)
(***************************************************************************)
EXTENDS MergeHistory, FiniteSetTheorems, NaturalsInduction, TLAPS

\* One thread merges, no other moves the branch it merges into, and no crash
\* falls between the merge's two commits to disk.
MergesApart ==
  /\ SingleWriter /\ ~CrashMidMerge
  /\ \A p, q \in Procs : p = q

Writable == Commits \ {RootCommit}

\* What some writes add up to.
Tally(writes) == SumSet({Weight(c) : c \in writes})

\* The counter does not saturate, and its value says which writes it counts.
WeightsTell ==
  /\ \A c \in Writable : Weight(c) \in Nat
  /\ \A L \in SUBSET Writable : IsFiniteSet(L) => Tally(L) <= MaxInt
  /\ \A L, M \in SUBSET Writable :
       IsFiniteSet(L) /\ IsFiniteSet(M) /\ Tally(L) = Tally(M) => L = M

-----------------------------------------------------------------------------
(* The invariant. *)

\* The second parent a commit has yet to be given.
Pending(c) ==
  {plan[p].source : p \in {q \in Procs : plan[q] # NoPlan /\ plan[q].step = "written"
                                         /\ plan[q].commit = c}}

\* Commits are made in order, and everything that names one names one made.
Shaped ==
  /\ RootCommit \in made /\ made \subseteq Commits /\ IsFiniteSet(made)
  /\ \A c \in made, d \in Commits \ made : c < d
  /\ heads \in [Branches -> made \cup {Null}]
  /\ parent \in [Commits -> made \cup {Null}]
  /\ recorded \in [Commits -> SUBSET made]
  /\ absorbed \in [Commits -> [Branches -> made \cup {Null}]]
  /\ lineage \in [Commits -> SUBSET (made \ {RootCommit})]
  /\ value = [c \in Commits |-> value[c]] /\ plan = [p \in Procs |-> plan[p]]

\* Every commit but the root has a recorded parent, and what a parent contains.
Ancestral ==
  /\ \A c \in Commits \ (made \ {RootCommit}) : recorded[c] = {} /\ parent[c] = Null
  /\ \A c \in made \ {RootCommit} : recorded[c] # {}
  /\ \A c \in made : \A q \in recorded[c] : q < c /\ lineage[q] \subseteq lineage[c]

\* A write a commit contains is its own, or came by a parent.
Descent ==
  \A c \in made : \A w \in lineage[c] :
    /\ w \in lineage[w]
    /\ w = c \/ \E q \in recorded[c] \cup Pending(c) : w \in lineage[q]

Counted == \A c \in made : value[c] = Counter(Tally(lineage[c]))

\* A commit contains what the head it notes contains.
Noted ==
  \A c \in made : \A b \in Branches : absorbed[c][b] # Null =>
    absorbed[c][b] < c /\ lineage[absorbed[c][b]] \subseteq lineage[c]

IsPlan(m) ==
  m = [step |-> m.step, from |-> m.from, source |-> m.source, target |-> m.target,
       commit |-> m.commit, write |-> m.write]

\* Carried out, the plan gives its target the writes of both sides; then the commit
\* contains its second parent.
Planned(p) ==
  plan[p] # NoPlan =>
    /\ IsPlan(plan[p])
    /\ plan[p].source \in made /\ plan[p].from \in Branches /\ plan[p].target \in Branches
    /\ plan[p].step \in {"planned", "written"}
    /\ plan[p].step = "planned" =>
         /\ heads[plan[p].target] # Null
         /\ Outcome(value[heads[plan[p].target]], plan[p].write) =
              Counter(Tally(lineage[heads[plan[p].target]] \cup lineage[plan[p].source]))
    /\ plan[p].step = "written" =>
         /\ plan[p].commit \in made /\ plan[p].source < plan[p].commit
         /\ lineage[plan[p].source] \subseteq lineage[plan[p].commit]

HistoryInv ==
  /\ Shaped /\ Ancestral /\ Descent /\ Counted /\ Noted
  /\ \A p \in Procs : Planned(p)

-----------------------------------------------------------------------------
(* Numbers. *)

\* Some numbers have a least.
LEMMA LeastNat ==
  ASSUME NEW T, T \subseteq Nat, T # {}
  PROVE  \E x \in T : \A y \in T : x <= y
<1> DEFINE less == OpToRel(<, Nat)
<1>1. IsWellFoundedOn(less, Nat)
  BY NatLessThanWellFounded
<1>2. \E x \in T : \A y \in T : ~ (<<y, x>> \in less)
  <2> HIDE DEF less
  <2> QED BY <1>1, WFMin
<1>3. \A x, y \in Nat : <<y, x>> \in less <=> y < x
  BY DEF OpToRel
<1>4. PICK x \in T : \A y \in T : ~ (<<y, x>> \in less)
  BY <1>2
<1> HIDE DEF less
<1>5. \A y \in T : ~(y < x)
  BY <1>3, <1>4
<1>6. \A y \in T : x <= y
  BY <1>5
<1> QED BY <1>4, <1>6

\* Induction, over the numbers a set contains.
LEMMA NatInd ==
  ASSUME NEW T, 0 \in T, \A n \in Nat : n \in T => n + 1 \in T
  PROVE  Nat \subseteq T
<1> SUFFICES ASSUME Nat \ T # {} PROVE FALSE
  OBVIOUS
<1>1. PICK x \in Nat \ T : \A y \in Nat \ T : x <= y
  BY LeastNat
<1>2. x # 0 /\ x - 1 \in Nat /\ ~(x <= x - 1) /\ x - 1 + 1 = x
  BY <1>1
<1> QED BY <1>1, <1>2


\* Of some subsets of a finite set, one has the fewest elements.
LEMMA SmallestSet ==
  ASSUME NEW D, IsFiniteSet(D), NEW T, T \subseteq SUBSET D, T # {}
  PROVE  \E S \in T : \A Z \in T : Cardinality(S) <= Cardinality(Z)
<1> DEFINE N == {Cardinality(S) : S \in T}
<1>1. \A S \in T : Cardinality(S) \in Nat
  BY FS_Subset, FS_CardinalityType
<1>2. N \subseteq Nat /\ N # {}
  BY <1>1
<1>3. \E n \in N : \A m \in N : n <= m
  <2> HIDE DEF N
  <2> QED BY <1>2, LeastNat
<1> QED BY <1>3

\* it gives the sum of each subset, taken element by element.
Summed(D, it) ==
  it = [s \in D |-> IF s = {} THEN 0
                    ELSE (CHOOSE x \in s : TRUE) + it[s \ {CHOOSE x \in s : TRUE}]]

\* A set less the element it is summed by is smaller.
LEMMA LessOne ==
  ASSUME NEW S, IsFiniteSet(S), NEW x \in S
  PROVE  /\ IsFiniteSet(S \ {x}) /\ Cardinality(S) \in Nat /\ Cardinality(S \ {x}) \in Nat
         /\ Cardinality(S) = Cardinality(S \ {x}) + 1
  BY FS_RemoveElement, FS_CardinalityType

LEMMA SumExists ==
  ASSUME NEW D, IsFiniteSet(D)
  PROVE  \E it : Summed(SUBSET D, it)
<1> DEFINE Small(n) == {s \in SUBSET D : Cardinality(s) <= n}
           c(s) == CHOOSE x \in s : TRUE
           T == {n \in Nat : \E it : Summed(Small(n), it)}
<1>1. ASSUME NEW s \in SUBSET D, s # {}
      PROVE  /\ c(s) \in s /\ s \ {c(s)} \in SUBSET D
             /\ Cardinality(s) \in Nat /\ Cardinality(s \ {c(s)}) \in Nat
             /\ Cardinality(s) = Cardinality(s \ {c(s)}) + 1
  <2>1. IsFiniteSet(s) /\ c(s) \in s
    BY <1>1, FS_Subset
  <2> HIDE DEF c
  <2> QED BY <2>1, LessOne
<1>2. 0 \in T
  <2> DEFINE it == [s \in Small(0) |-> 0]
  <2>1. ASSUME NEW s \in Small(0), s # {} PROVE FALSE
    <3>1. s \in SUBSET D /\ Cardinality(s) <= 0
      OBVIOUS
    <3>2. Cardinality(s \ {c(s)}) \in Nat /\ Cardinality(s) = Cardinality(s \ {c(s)}) + 1
      BY <1>1, <2>1, <3>1
    <3> HIDE DEF c
    <3> QED BY <3>1, <3>2
  <2>2. Summed(Small(0), it)
    BY <2>1 DEF Summed
  <2> QED BY <2>2
<1>3. ASSUME NEW n \in Nat, n \in T PROVE n + 1 \in T
  <2>1. PICK was : Summed(Small(n), was)
    BY <1>3
  <2> DEFINE it == [s \in Small(n + 1) |->
                      IF s = {} THEN 0 ELSE c(s) + was[s \ {c(s)}]]
  <2>2. ASSUME NEW s \in Small(n + 1), s # {}
        PROVE  s \ {c(s)} \in Small(n) /\ s \ {c(s)} \in Small(n + 1)
    <3> DEFINE r == s \ {c(s)}
    <3>1. r \in SUBSET D /\ Cardinality(s) = Cardinality(r) + 1 /\ Cardinality(r) \in Nat
      BY <1>1, <2>2
    <3>2. Cardinality(s) <= n + 1
      OBVIOUS
    <3> HIDE DEF r
    <3>3. Cardinality(r) <= n
      BY <3>1, <3>2
    <3> QED BY <3>1, <3>3 DEF r
  <2>3. ASSUME NEW r \in Small(n) PROVE was[r] = it[r]
    <3>1. r \in Small(n + 1)
      <4>1. Cardinality(r) \in Nat
        BY FS_Subset, FS_CardinalityType
      <4> QED BY <4>1
    <3>2. was[r] = IF r = {} THEN 0 ELSE c(r) + was[r \ {c(r)}]
      <4> HIDE DEF Small
      <4> QED BY <2>1 DEF Summed
    <3> HIDE DEF Small, c
    <3> QED BY <3>1, <3>2
  <2>4. ASSUME NEW s \in Small(n + 1), s # {} PROVE it[s] = c(s) + it[s \ {c(s)}]
    <3>1. it[s] = c(s) + was[s \ {c(s)}]
      BY <2>4
    <3> HIDE DEF it
    <3> QED BY <2>2, <2>3, <2>4, <3>1
  <2>5. ASSUME NEW s \in Small(n + 1)
        PROVE  it[s] = IF s = {} THEN 0 ELSE c(s) + it[s \ {c(s)}]
    <3>1. s = {} => it[s] = 0
      OBVIOUS
    <3> HIDE DEF it
    <3> QED BY <2>4, <3>1
  <2>6. it = [s \in Small(n + 1) |-> it[s]]
    OBVIOUS
  <2> HIDE DEF it, Small
  <2>7. Summed(Small(n + 1), it)
    BY <2>5, <2>6 DEF Summed
  <2> QED BY <2>7
<1>4. Cardinality(D) \in T
  <2>1. Cardinality(D) \in Nat
    BY FS_CardinalityType
  <2> HIDE DEF T
  <2> QED BY <1>2, <1>3, <2>1, NatInd
<1>5. Small(Cardinality(D)) = SUBSET D
  BY FS_Subset
<1> QED BY <1>4, <1>5

\* Two that sum the subsets of a set and of one around it agree on them.
LEMMA SumAgrees ==
  ASSUME NEW D, IsFiniteSet(D), NEW S, S \subseteq D, NEW it, NEW is,
         Summed(SUBSET D, it), Summed(SUBSET S, is)
  PROVE  is[S] = it[S]
<1> DEFINE T == {s \in SUBSET S : is[s] # it[s]}
           c(s) == CHOOSE x \in s : TRUE
<1> SUFFICES ASSUME T # {} PROVE FALSE
  OBVIOUS
<1>1. IsFiniteSet(S)
  BY FS_Subset
<1>2. PICK s \in T : \A r \in T : Cardinality(s) <= Cardinality(r)
  BY <1>1, SmallestSet
<1>3. s \in SUBSET S /\ s \in SUBSET D
  OBVIOUS
<1>4. CASE s = {}
  BY <1>3, <1>4 DEF Summed
<1>5. CASE s # {}
  <2> DEFINE r == s \ {c(s)}
  <2>1. c(s) \in s /\ IsFiniteSet(s)
    BY <1>1, <1>3, <1>5, FS_Subset
  <2>2. Cardinality(s) = Cardinality(r) + 1 /\ Cardinality(r) \in Nat
    <3> HIDE DEF c
    <3> QED BY <2>1, LessOne
  <2>3. r \notin T /\ r \in SUBSET S
    <3> HIDE DEF r, T
    <3>1. r \notin T
      BY <1>2, <2>2
    <3> QED BY <1>3, <3>1 DEF r
  <2>4. is[s] = c(s) + is[r] /\ it[s] = c(s) + it[r]
    BY <1>3, <1>5 DEF Summed
  <2> HIDE DEF r, c
  <2> QED BY <2>3, <2>4
<1> QED BY <1>4, <1>5

SumMap(D) == CHOOSE it : Summed(SUBSET D, it)

LEMMA SumStep ==
  ASSUME NEW S, IsFiniteSet(S)
  PROVE  /\ S = {} => SumSet(S) = 0
         /\ S # {} => LET c == CHOOSE x \in S : TRUE
                      IN  SumSet(S) = c + SumSet(S \ {c})
<1>1. ASSUME NEW D, IsFiniteSet(D) PROVE Summed(SUBSET D, SumMap(D))
  BY <1>1, SumExists DEF SumMap
<1>2. \A D : SumSet(D) = SumMap(D)[D]
  BY DEF SumSet, FoldSet, MapThenFoldSet, Summed, SumMap
<1>3. S = {} => SumMap(S)[S] = 0
  BY <1>1 DEF Summed
<1>4. ASSUME S # {}, NEW c, c = CHOOSE x \in S : TRUE
      PROVE  SumMap(S)[S] = c + SumMap(S \ {c})[S \ {c}]
  <2>1. SumMap(S)[S] = c + SumMap(S)[S \ {c}]
    <3> DEFINE it == SumMap(S)
    <3>1. Summed(SUBSET S, it) /\ S \in SUBSET S
      BY <1>1
    <3> HIDE DEF it
    <3>2. it[S] = c + it[S \ {c}]
      BY <1>4, <3>1 DEF Summed
    <3> QED BY <3>2 DEF it
  <2>2. S \ {c} \in SUBSET S /\ IsFiniteSet(S \ {c})
    BY FS_Subset
  <2>3. Summed(SUBSET S, SumMap(S)) /\ Summed(SUBSET (S \ {c}), SumMap(S \ {c}))
    BY <1>1, <2>2
  <2>4. ASSUME NEW Z, Z \subseteq S, NEW is, Summed(SUBSET Z, is)
        PROVE  is[Z] = SumMap(S)[Z]
    BY <2>3, <2>4, SumAgrees
  <2>5. SumMap(S \ {c})[S \ {c}] = SumMap(S)[S \ {c}]
    BY <2>2, <2>3, <2>4
  <2> QED BY <2>1, <2>5
<1> QED BY <1>2, <1>3, <1>4

\* A sum of numbers is one, and may be taken in any order.

LEMMA SumSplits ==
  ASSUME NEW D, IsFiniteSet(D), D \subseteq Nat
  PROVE  /\ SumSet({}) = 0
         /\ \A S \in SUBSET D : SumSet(S) \in Nat
         /\ \A S \in SUBSET D : \A x \in S : SumSet(S) = x + SumSet(S \ {x})
<1> DEFINE c(s) == CHOOSE x \in s : TRUE
           T == {S \in SUBSET D : SumSet(S) \notin Nat}
           U == {S \in SUBSET D : \E x \in S : SumSet(S) # x + SumSet(S \ {x})}
<1>1. ASSUME NEW S \in SUBSET D, S # {}
      PROVE  /\ c(S) \in S /\ S \ {c(S)} \in SUBSET D /\ c(S) \in Nat
             /\ SumSet(S) = c(S) + SumSet(S \ {c(S)})
  <2>1. IsFiniteSet(S) /\ c(S) \in S
    BY <1>1, FS_Subset
  <2>2. SumSet(S) = c(S) + SumSet(S \ {c(S)})
    BY <1>1, <2>1, SumStep
  <2> HIDE DEF c
  <2> QED BY <2>1, <2>2
<1>2. SumSet({}) = 0
  BY SumStep, FS_EmptySet
<1>3. ASSUME NEW S \in SUBSET D, NEW x \in S
      PROVE  /\ S \ {x} \in SUBSET D /\ Cardinality(S) = Cardinality(S \ {x}) + 1
             /\ Cardinality(S \ {x}) \in Nat
  <2>1. IsFiniteSet(S)
    BY FS_Subset
  <2> QED BY <2>1, LessOne
<1>4. T = {}
  <2> SUFFICES ASSUME T # {} PROVE FALSE
    OBVIOUS
  <2>1. PICK S \in T : \A Z \in T : Cardinality(S) <= Cardinality(Z)
    BY SmallestSet
  <2>2. S \in SUBSET D /\ S # {} /\ SumSet(S) \notin Nat
    BY <1>2
  <2> DEFINE Z == S \ {c(S)}
  <2>3. /\ Z \in SUBSET D /\ SumSet(S) = c(S) + SumSet(Z) /\ c(S) \in Nat
        /\ Cardinality(S) = Cardinality(Z) + 1 /\ Cardinality(Z) \in Nat
    <3> HIDE DEF c
    <3> QED BY <1>1, <1>3, <2>2
  <2> HIDE DEF Z, c
  <2>4. Z \notin T
    <3> HIDE DEF T
    <3> QED BY <2>1, <2>3
  <2> QED BY <2>2, <2>3, <2>4
<1>5. \A S \in SUBSET D : SumSet(S) \in Nat
  BY <1>4
<1>6. U = {}
  <2> SUFFICES ASSUME U # {} PROVE FALSE
    OBVIOUS
  <2>1. PICK S \in U : \A Z \in U : Cardinality(S) <= Cardinality(Z)
    BY SmallestSet
  <2>2. PICK x \in S : SumSet(S) # x + SumSet(S \ {x})
    OBVIOUS
  <2>3. \A Z \in SUBSET D : Cardinality(Z) < Cardinality(S) /\ Cardinality(S) \in Nat
                              /\ Cardinality(Z) \in Nat =>
          \A y \in Z : SumSet(Z) = y + SumSet(Z \ {y})
    <3> TAKE Z \in SUBSET D
    <3> HAVE Cardinality(Z) < Cardinality(S) /\ Cardinality(S) \in Nat /\ Cardinality(Z) \in Nat
    <3>1. Z \notin U
      <4> HIDE DEF U
      <4> QED BY <2>1
    <3> QED BY <3>1
  <2>4. S \in SUBSET D
    OBVIOUS
  <2> HIDE DEF U
  <2> DEFINE y == c(S)
  <2>5. y \in S /\ S \ {y} \in SUBSET D /\ SumSet(S) = y + SumSet(S \ {y})
    BY <1>1, <2>2, <2>4
  <2> HIDE DEF y
  <2>6. x # y
    BY <2>2, <2>5
  <2>7. /\ S \ {x} \in SUBSET D /\ x \in S \ {y} /\ y \in S \ {x}
        /\ (S \ {x}) \ {y} = (S \ {y}) \ {x}
        /\ Cardinality(S \ {x}) < Cardinality(S) /\ Cardinality(S \ {y}) < Cardinality(S)
        /\ Cardinality(S) \in Nat /\ Cardinality(S \ {x}) \in Nat /\ Cardinality(S \ {y}) \in Nat
    <3>1. /\ Cardinality(S) = Cardinality(S \ {x}) + 1 /\ Cardinality(S \ {x}) \in Nat
          /\ Cardinality(S) = Cardinality(S \ {y}) + 1 /\ Cardinality(S \ {y}) \in Nat
      BY <1>3, <2>4, <2>5
    <3>2. /\ S \ {x} \in SUBSET D /\ x \in S \ {y} /\ y \in S \ {x}
          /\ (S \ {x}) \ {y} = (S \ {y}) \ {x}
      BY <2>4, <2>5, <2>6
    <3> QED BY <3>1, <3>2
  <2> DEFINE Z == (S \ {y}) \ {x}
  <2>8. SumSet(S \ {y}) = x + SumSet(Z)
    BY <2>3, <2>5, <2>7
  <2>9. SumSet(S \ {x}) = y + SumSet(Z)
    BY <2>3, <2>7
  <2>10. x \in Nat /\ y \in Nat /\ SumSet(Z) \in Nat
    BY <1>5, <2>4, <2>5
  <2> HIDE DEF Z
  <2> QED BY <2>2, <2>5, <2>8, <2>9, <2>10
<1> QED BY <1>2, <1>5, <1>6

LEMMA SumTake ==
  ASSUME NEW D, IsFiniteSet(D), D \subseteq Nat, NEW S, S \subseteq D, NEW x \in S
  PROVE  SumSet(S) = x + SumSet(S \ {x})
<1>1. S \in SUBSET D
  OBVIOUS
<1> QED BY <1>1, SumSplits


\* What two sets have in common is counted twice in their sums.
LEMMA SumMeet ==
  ASSUME NEW D, IsFiniteSet(D), D \subseteq Nat, NEW S \in SUBSET D, NEW Z \in SUBSET D
  PROVE  SumSet(S \cup Z) + SumSet(S \cap Z) = SumSet(S) + SumSet(Z)
<1> DEFINE Q(z) == SumSet(S \cup z) + SumSet(S \cap z) = SumSet(S) + SumSet(z)
           T == {z \in SUBSET D : ~Q(z)}
<1> SUFFICES ASSUME T # {} PROVE FALSE
  OBVIOUS
<1>1. PICK z \in T : \A r \in T : Cardinality(z) <= Cardinality(r)
  BY SmallestSet
<1>2. z \in SUBSET D /\ ~Q(z)
  OBVIOUS
<1>3. \A s \in SUBSET D : SumSet(s) \in Nat
  BY SumSplits
<1>4. CASE z = {}
  <2>1. S \cup z = S /\ S \cap z = {}
    BY <1>4
  <2>2. SumSet({}) = 0
    BY SumSplits
  <2>3. SumSet(S) \in Nat
    BY <1>3
  <2> QED BY <1>2, <1>4, <2>1, <2>2, <2>3
<1>5. CASE z # {}
  <2>1. PICK x \in z : TRUE
    BY <1>5
  <2> DEFINE r == z \ {x}
  <2>2. Cardinality(z) = Cardinality(r) + 1 /\ Cardinality(r) \in Nat
    <3>1. IsFiniteSet(z)
      BY <1>2, FS_Subset
    <3> QED BY <3>1, LessOne
  <2>3. r \in SUBSET D /\ x \in Nat /\ S \cup z \in SUBSET D /\ S \cap z \in SUBSET D
        /\ S \cup r \in SUBSET D /\ S \cap r \in SUBSET D
    BY <1>2
  <2>4. Q(r)
    <3>1. r \notin T
      <4> HIDE DEF T, r
      <4> QED BY <1>1, <2>2
    <3> HIDE DEF Q, r
    <3> QED BY <2>3, <3>1
  <2>5. SumSet(z) = x + SumSet(r)
    BY <1>2, SumSplits
  <2>6. \A s \in SUBSET D : s \ {x} \in SUBSET D
    OBVIOUS
  <2>7. /\ SumSet(S) \in Nat /\ SumSet(z) \in Nat /\ SumSet(r) \in Nat
        /\ SumSet(S \cup z) \in Nat /\ SumSet(S \cap z) \in Nat
        /\ SumSet(S \cup r) \in Nat /\ SumSet(S \cap r) \in Nat
    <3> HIDE DEF r
    <3> QED BY <1>2, <1>3, <2>3
  <2>8. CASE x \in S
    <3>1. S \cup z = S \cup r /\ x \in S \cap z /\ (S \cap z) \ {x} = S \cap r
      BY <2>8
    <3>2. SumSet(S \cap z) = x + SumSet((S \cap z) \ {x})
      BY <2>3, <3>1, SumSplits
    <3> HIDE DEF r
    <3> QED BY <1>2, <2>3, <2>4, <2>5, <2>7, <3>1, <3>2
  <2>9. CASE x \notin S
    <3>1. S \cap z = S \cap r /\ x \in S \cup z /\ (S \cup z) \ {x} = S \cup r
      BY <2>9
    <3>2. SumSet(S \cup z) = x + SumSet((S \cup z) \ {x})
      BY <2>3, <3>1, SumSplits
    <3>3. SumSet(S \cap z) = SumSet(S \cap r) /\ SumSet(S \cup z) = x + SumSet(S \cup r)
      BY <3>1, <3>2
    <3> HIDE DEF r
    <3>4. x \in Nat /\ Q(r) /\ ~Q(z)
      BY <1>2, <2>3, <2>4
    <3> QED BY <2>5, <2>7, <3>3, <3>4
  <2> QED BY <2>8, <2>9
<1> QED BY <1>4, <1>5

\* A finite set of numbers has a greatest, if it has any.
LEMMA GreatestNat ==
  ASSUME NEW D, IsFiniteSet(D), D \subseteq Nat, D # {}
  PROVE  \E m \in D : \A j \in D : j <= m
<1> DEFINE T == {S \in SUBSET D : S # {} /\ ~ \E m \in S : \A j \in S : j <= m}
<1> SUFFICES ASSUME T # {} PROVE FALSE
  OBVIOUS
<1>1. PICK S \in T : \A Z \in T : Cardinality(S) <= Cardinality(Z)
  BY SmallestSet
<1>2. S \in SUBSET D /\ S # {} /\ ~ \E m \in S : \A j \in S : j <= m
  OBVIOUS
<1>3. PICK x \in S : TRUE
  BY <1>2
<1>4. Cardinality(S) = Cardinality(S \ {x}) + 1 /\ Cardinality(S \ {x}) \in Nat
  <2>1. IsFiniteSet(S)
    BY <1>2, FS_Subset
  <2> QED BY <2>1, LessOne
<1>5. S \ {x} \notin T
  <2> HIDE DEF T
  <2> QED BY <1>1, <1>4
<1>6. x \in Nat /\ \A j \in S : j \in Nat
  BY <1>2
<1>7. S \ {x} # {}
  BY <1>2, <1>6
<1>8. PICK m \in S \ {x} : \A j \in S \ {x} : j <= m
  BY <1>2, <1>5, <1>7
<1>9. CASE m <= x
  <2>1. \A j \in S : j <= x
    BY <1>6, <1>8, <1>9
  <2> QED BY <1>2, <1>3, <2>1
<1>10. CASE ~(m <= x)
  <2>1. \A j \in S : j <= m
    BY <1>6, <1>8, <1>10
  <2> QED BY <1>2, <1>8, <2>1
<1> QED BY <1>9, <1>10

-----------------------------------------------------------------------------
(* Tallies. *)

\* Different writes add different numbers.
LEMMA WeightsDiffer ==
  ASSUME WeightsTell
  PROVE  \A c, d \in Writable : Weight(c) = Weight(d) => c = d
<1> SUFFICES ASSUME NEW c \in Writable, NEW d \in Writable, Weight(c) = Weight(d)
             PROVE  c = d
  OBVIOUS
<1>1. {Weight(e) : e \in {c}} = {Weight(e) : e \in {d}}
  OBVIOUS
<1>2. Tally({c}) = Tally({d})
  BY <1>1 DEF Tally
<1>3. IsFiniteSet({c}) /\ IsFiniteSet({d})
  BY FS_Singleton
<1> QED BY <1>2, <1>3 DEF WeightsTell

\* What some writes weigh.
Weights(writes) == {Weight(c) : c \in writes}

LEMMA WeightSets ==
  ASSUME WeightsTell, NEW L \in SUBSET Writable, IsFiniteSet(L)
  PROVE  IsFiniteSet(Weights(L)) /\ Weights(L) \subseteq Nat
<1>1. Weights(L) \subseteq Nat
  BY DEF WeightsTell, Weights
<1> DEFINE f == [c \in L |-> Weight(c)]
<1>2. f \in Surjection(L, Weights(L))
  BY DEF Surjection, Weights
<1> HIDE DEF f
<1>3. IsFiniteSet(Weights(L))
  BY <1>2, FS_Surjection
<1> QED BY <1>1, <1>3

\* The writes two sides have in common are counted twice in their tallies.
LEMMA TallyMeet ==
  ASSUME WeightsTell, NEW L \in SUBSET Writable, NEW M \in SUBSET Writable,
         IsFiniteSet(L), IsFiniteSet(M)
  PROVE  /\ Tally(L) \in 0 .. MaxInt /\ Tally(M) \in 0 .. MaxInt
         /\ Tally(L \cup M) \in 0 .. MaxInt /\ Tally(L \cap M) \in 0 .. MaxInt
         /\ Tally(L \cup M) + Tally(L \cap M) = Tally(L) + Tally(M)
<1> DEFINE D == Weights(L \cup M)
<1>1. /\ L \cup M \in SUBSET Writable /\ L \cap M \in SUBSET Writable
      /\ IsFiniteSet(L \cup M) /\ IsFiniteSet(L \cap M)
  BY FS_Union, FS_Subset
<1>2. IsFiniteSet(D) /\ D \subseteq Nat
  BY <1>1, WeightSets
<1>3. /\ Weights(L) \in SUBSET D /\ Weights(M) \in SUBSET D
      /\ Weights(L \cup M) = Weights(L) \cup Weights(M)
  BY DEF Weights
<1>4. Weights(L \cap M) = Weights(L) \cap Weights(M)
  BY <1>1, WeightsDiffer DEF Weights
<1>5. \A S : Tally(S) = SumSet(Weights(S))
  BY DEF Tally, Weights
<1> HIDE DEF D
<1>6. Weights(L \cap M) \in SUBSET D /\ Weights(L \cup M) \in SUBSET D
  BY <1>3, <1>4
<1>7. \A S \in SUBSET D : SumSet(S) \in Nat
  BY <1>2, SumSplits
<1>8. /\ Tally(L) \in Nat /\ Tally(M) \in Nat /\ Tally(L \cup M) \in Nat
      /\ Tally(L \cap M) \in Nat
  BY <1>3, <1>5, <1>6, <1>7
<1>9. Tally(L) <= MaxInt /\ Tally(M) <= MaxInt /\ Tally(L \cup M) <= MaxInt
      /\ Tally(L \cap M) <= MaxInt
  BY <1>1 DEF WeightsTell
<1>10. \A S, Z \in SUBSET D : SumSet(S \cup Z) + SumSet(S \cap Z) = SumSet(S) + SumSet(Z)
  BY <1>2, SumMeet
<1>11. Tally(L \cup M) + Tally(L \cap M) = Tally(L) + Tally(M)
  BY <1>3, <1>4, <1>5, <1>10
<1>12. MaxInt \in Int
  BY MergeAssumption
<1> QED BY <1>8, <1>9, <1>11, <1>12

\* No writes add up to nothing.
LEMMA TallyNone == Tally({}) = 0
<1>1. {Weight(e) : e \in {}} = {}
  OBVIOUS
<1>2. IsFiniteSet({}) /\ {} \subseteq Nat
  BY FS_EmptySet
<1>3. SumSet({}) = 0
  BY <1>2, SumSplits
<1> QED BY <1>1, <1>3 DEF Tally

\* One more write adds its weight.
LEMMA TallyOne ==
  ASSUME WeightsTell, NEW L \in SUBSET Writable, IsFiniteSet(L), NEW c \in Writable, c \notin L
  PROVE  /\ Tally(L) \in Nat /\ Weight(c) \in Nat
         /\ Tally(L \cup {c}) = Tally(L) + Weight(c) /\ Tally(L \cup {c}) <= MaxInt
<1>1. {c} \in SUBSET Writable /\ IsFiniteSet({c}) /\ L \cap {c} = {}
  BY FS_Singleton
<1>2. /\ Tally(L) \in Nat /\ Tally({c}) \in Nat /\ Tally(L \cup {c}) \in Nat
      /\ Tally(L \cup {c}) <= MaxInt
      /\ Tally(L \cup {c}) + Tally({}) = Tally(L) + Tally({c})
  <2>1. /\ Tally(L) \in 0 .. MaxInt /\ Tally({c}) \in 0 .. MaxInt
        /\ Tally(L \cup {c}) \in 0 .. MaxInt
        /\ Tally(L \cup {c}) + Tally(L \cap {c}) = Tally(L) + Tally({c})
    BY <1>1, TallyMeet
  <2>2. MaxInt \in Int
    BY MergeAssumption
  <2>3. Tally(L \cap {c}) = Tally({})
    BY <1>1
  <2> QED BY <2>1, <2>2, <2>3
<1>3. Weight(c) \in Nat
  BY DEF WeightsTell
<1>4. {Weight(e) : e \in {c}} = {Weight(c)}
  OBVIOUS
<1>5. IsFiniteSet({Weight(c)}) /\ {Weight(c)} \subseteq Nat
      /\ {Weight(c)} \ {Weight(c)} = {} /\ {Weight(c)} \in SUBSET {Weight(c)}
  BY <1>3, FS_Singleton
<1>6. SumSet({}) = 0 /\ SumSet({Weight(c)}) = Weight(c) + SumSet({Weight(c)} \ {Weight(c)})
  BY <1>5, SumSplits
<1>7. Tally({}) = 0 /\ Tally({c}) = Weight(c)
  <2>1. Tally({c}) = SumSet({Weight(c)})
    BY <1>4 DEF Tally
  <2>2. SumSet({Weight(c)} \ {Weight(c)}) = 0
    BY <1>5, <1>6
  <2>3. SumSet({Weight(c)}) = Weight(c)
    BY <1>3, <1>6, <2>2
  <2> QED BY <2>1, <2>3, TallyNone
<1> QED BY <1>2, <1>3, <1>7

\* Fewer writes add up to less.
LEMMA TallyPart ==
  ASSUME WeightsTell, NEW L \in SUBSET Writable, NEW M \in SUBSET Writable,
         IsFiniteSet(L), IsFiniteSet(M)
  PROVE  Tally(L \cap M) <= Tally(L) /\ Tally(L \cap M) <= Tally(M)
<1>1. ASSUME NEW S \in SUBSET Writable, NEW Z \in SUBSET S, IsFiniteSet(S)
      PROVE  Tally(Z) <= Tally(S)
  <2>1. /\ Z \in SUBSET Writable /\ S \ Z \in SUBSET Writable
        /\ IsFiniteSet(Z) /\ IsFiniteSet(S \ Z)
        /\ Z \cup (S \ Z) = S /\ Z \cap (S \ Z) = {}
    BY <1>1, FS_Subset
  <2>2. /\ Tally(Z) \in 0 .. MaxInt /\ Tally(S \ Z) \in 0 .. MaxInt
        /\ Tally(S) \in 0 .. MaxInt
        /\ Tally(S) + Tally({}) = Tally(Z) + Tally(S \ Z)
    <3>1. /\ Tally(Z) \in 0 .. MaxInt /\ Tally(S \ Z) \in 0 .. MaxInt
          /\ Tally(Z \cup (S \ Z)) \in 0 .. MaxInt
          /\ Tally(Z \cup (S \ Z)) + Tally(Z \cap (S \ Z)) = Tally(Z) + Tally(S \ Z)
      BY <2>1, TallyMeet
    <3> QED BY <2>1, <3>1
  <2>3. Tally({}) = 0
    BY TallyNone
  <2>4. MaxInt \in Int
    BY MergeAssumption
  <2> QED BY <2>2, <2>3, <2>4
<1>2. L \cap M \in SUBSET L /\ L \cap M \in SUBSET M
  OBVIOUS
<1> QED BY <1>1, <1>2

\* Merging two sides from what they have in common gives what either has.
LEMMA DecideTally ==
  ASSUME WeightsTell, NEW S \in SUBSET Writable, NEW T \in SUBSET Writable,
         IsFiniteSet(S), IsFiniteSet(T)
  PROVE  Outcome(Counter(Tally(T)),
                 Decide(Counter(Tally(S \cap T)), Counter(Tally(S)), Counter(Tally(T)),
                        Unresolved))
           = Counter(Tally(T \cup S))
<1> DEFINE b == Tally(S \cap T)
           s == Tally(S)
           t == Tally(T)
           u == Tally(S \cup T)
           d == Decide(Counter(b), Counter(s), Counter(t), Unresolved)
<1>1. /\ b \in 0 .. MaxInt /\ s \in 0 .. MaxInt /\ t \in 0 .. MaxInt /\ u \in 0 .. MaxInt
      /\ u + b = s + t
  BY TallyMeet
<1>2. b <= s /\ b <= t
  BY TallyPart
<1>3. \A m, n : Counter(m) = Counter(n) <=> m = n
  <2> SUFFICES ASSUME NEW m, NEW n, Counter(m) = Counter(n) PROVE m = n
    OBVIOUS
  <2>1. Counter(m).n = m /\ Counter(n).n = n
    BY DEF Counter
  <2> QED BY <2>1
<1>4. /\ s = t => S = T
      /\ s = b => S = S \cap T
      /\ t = b => T = S \cap T
  <2>1. S \cap T \in SUBSET Writable /\ IsFiniteSet(S \cap T)
    BY FS_Subset
  <2> QED BY <2>1 DEF WeightsTell
<1>5. T \cup S = S \cup T
  OBVIOUS
<1> SUFFICES Outcome(Counter(t), d) = Counter(u)
  BY <1>5
<1>6. CASE s = t \/ s = b
  <2>1. S \cup T = T
    BY <1>4, <1>6
  <2>2. u = t
    BY <2>1
  <2>3. d = Nothing
    BY <1>6 DEF Decide
  <2> QED BY <2>2, <2>3 DEF Outcome, Nothing
<1>7. CASE s # t /\ s # b /\ t = b
  <2>1. S \cup T = S
    BY <1>4, <1>7
  <2>2. u = s
    BY <2>1
  <2>3. Counter(s) # Counter(t) /\ Counter(s) # Counter(b) /\ Counter(t) = Counter(b)
    BY <1>3, <1>7
  <2>4. Counter(s) # Absent
    BY DEF Counter, Absent
  <2>5. d = Write(Counter(s))
    BY <2>3, <2>4 DEF Decide
  <2> QED BY <2>2, <2>5 DEF Outcome, Write
<1>8. CASE s # t /\ s # b /\ t # b
  <2>1. Counter(s) # Counter(t) /\ Counter(s) # Counter(b) /\ Counter(t) # Counter(b)
    BY <1>3, <1>8
  <2>2. \A n : /\ Counter(n) # Absent /\ Counter(n).kind = "counter" /\ Counter(n).n = n
    BY DEF Counter, Absent
  <2>3. MergeTyped(Counter(b), Counter(s), Counter(t)) =
          Counter(SatAdd(SatAdd(b, SatSub(s, b)), SatSub(t, b)))
    BY <2>2 DEF MergeTyped
  <2>4. SatAdd(SatAdd(b, SatSub(s, b)), SatSub(t, b)) = u
    <3>1. MinInt \in Int /\ MaxInt \in Int /\ MinInt <= 0
      BY MergeAssumption
    <3> HIDE DEF b, s, t, u
    <3>2. \A n \in 0 .. MaxInt : Saturate(n) = n
      BY <3>1 DEF Saturate
    <3>3. /\ s - b \in 0 .. MaxInt /\ b + (s - b) = s
          /\ t - b \in 0 .. MaxInt /\ s + (t - b) = u
      BY <1>1, <1>2, <3>1
    <3>4. SatSub(s, b) = s - b /\ SatSub(t, b) = t - b
      BY <3>2, <3>3 DEF SatSub
    <3>5. SatAdd(b, s - b) = s /\ SatAdd(s, t - b) = u
      BY <1>1, <3>2, <3>3 DEF SatAdd
    <3> QED BY <3>4, <3>5
  <2>5. d = Write(Counter(u))
    <3> HIDE DEF b, s, t, u
    <3> QED BY <2>1, <2>2, <2>3, <2>4 DEF Decide
  <2> QED BY <2>5 DEF Outcome, Write
<1> QED BY <1>6, <1>7, <1>8

-----------------------------------------------------------------------------
(* Ancestors. *)

Ancestry(anc) == anc = [d \in Commits |-> {d} \cup UNION {anc[q] : q \in Parents(d)}]

LEMMA AncestryExists ==
  ASSUME \A c \in Commits : Parents(c) \subseteq Commits
  PROVE  \E anc : Ancestry(anc)
<1> DEFINE Closed(Z) == \A c \in Z : Parents(c) \subseteq Z
           R(d) == {x \in Commits : \A Z \in SUBSET Commits : d \in Z /\ Closed(Z) => x \in Z}
           anc == [d \in Commits |-> R(d)]
<1>1. ASSUME NEW d \in Commits
      PROVE  R(d) = {d} \cup UNION {R(q) : q \in Parents(d)}
  <2> DEFINE U == {d} \cup UNION {R(q) : q \in Parents(d)}
  <2>1. \A c \in Commits : c \in R(c)
    OBVIOUS
  <2>2. \A c \in Commits : \A x \in R(c) : Parents(x) \subseteq R(c)
    OBVIOUS
  <2>3. U \subseteq R(d)
    <3>1. ASSUME NEW q \in Parents(d), NEW x \in R(q) PROVE x \in R(d)
      OBVIOUS
    <3> HIDE DEF R
    <3> QED BY <2>1, <3>1
  <2>4. U \in SUBSET Commits
    OBVIOUS
  <2>5. Closed(U)
    <3> SUFFICES ASSUME NEW c \in U, NEW p \in Parents(c) PROVE p \in U
      OBVIOUS
    <3> HIDE DEF R
    <3>1. CASE c = d
      BY <2>1, <3>1
    <3>2. CASE c # d
      <4>1. PICK q \in Parents(d) : c \in R(q)
        BY <3>2
      <4>2. p \in R(q)
        BY <2>2, <4>1
      <4> QED BY <4>2
    <3> QED BY <3>1, <3>2
  <2>6. R(d) \subseteq U
    <3>1. d \in U
      OBVIOUS
    <3> HIDE DEF U, Closed
    <3> QED BY <2>4, <2>5, <3>1
  <2> HIDE DEF R
  <2> QED BY <2>3, <2>6
<1>2. \A d \in Commits : {anc[q] : q \in Parents(d)} = {R(q) : q \in Parents(d)}
  <2> HIDE DEF R
  <2> QED OBVIOUS
<1>3. Ancestry(anc)
  <2>1. \A d \in Commits : R(d) = {d} \cup UNION {anc[q] : q \in Parents(d)}
    <3> HIDE DEF R, anc
    <3> QED BY <1>1, <1>2
  <2> HIDE DEF R
  <2> QED BY <2>1 DEF Ancestry
<1> QED BY <1>3

\* full_ancestors: a commit and what its parents have for theirs.
LEMMA FullAncestorsOf ==
  ASSUME \A c \in Commits : Parents(c) \subseteq Commits
  PROVE  \A c \in Commits :
           FullAncestors(c) = {c} \cup UNION {FullAncestors(q) : q \in Parents(c)}
<1> DEFINE it == CHOOSE anc : Ancestry(anc)
<1>1. Ancestry(it)
  BY AncestryExists
<1>2. \A c : FullAncestors(c) = it[c]
  BY DEF FullAncestors, Ancestry
<1> HIDE DEF it
<1>3. \A c \in Commits : it[c] = {c} \cup UNION {it[q] : q \in Parents(c)}
  BY <1>1 DEF Ancestry
<1> QED BY <1>2, <1>3

\* No commit waits for its second parent.
Settled == \A c \in made : Pending(c) = {}

\* Of a commit's history, everything was made before it, and what it contains the
\* commit contains; and the commit descends from every write it contains.
Inherits(c) ==
  /\ c \in FullAncestors(c) /\ RootCommit \in FullAncestors(c)
  /\ \A d \in FullAncestors(c) :
       /\ d \in made /\ d <= c
       /\ FullAncestors(d) \subseteq FullAncestors(c) /\ lineage[d] \subseteq lineage[c]
  /\ lineage[c] \subseteq FullAncestors(c)

LEMMA ParentsMade ==
  ASSUME HistoryInv
  PROVE  /\ \A c \in Commits : Parents(c) \subseteq made
         /\ \A c \in made : Parents(c) = recorded[c]
         /\ \A c \in made : c # RootCommit => Parents(c) # {}
  BY DEF HistoryInv, Shaped, Ancestral, Parents

LEMMA AllInherit ==
  ASSUME HistoryInv, Settled
  PROVE  \A c \in made : Inherits(c)
<1> DEFINE T == {c \in made : ~Inherits(c)}
<1> SUFFICES ASSUME T # {} PROVE FALSE
  OBVIOUS
<1>1. made \subseteq Nat /\ made \subseteq Commits
  BY HistoryAssumption DEF HistoryInv, Shaped
<1>2. PICK c \in T : \A d \in T : c <= d
  <2>1. T \subseteq Nat
    BY <1>1
  <2> HIDE DEF T
  <2> QED BY <2>1, LeastNat
<1>3. c \in made /\ ~Inherits(c) /\ c \in Nat
  BY <1>1
<1>4. FullAncestors(c) = {c} \cup UNION {FullAncestors(q) : q \in recorded[c]}
  BY <1>1, <1>3, ParentsMade, FullAncestorsOf
<1>5. ASSUME NEW q \in recorded[c]
      PROVE  /\ q \in made /\ q \in Nat /\ q < c /\ lineage[q] \subseteq lineage[c]
             /\ Inherits(q) /\ FullAncestors(q) \subseteq FullAncestors(c)
  <2>1. q \in made /\ q < c /\ lineage[q] \subseteq lineage[c]
    <3>1. q \in made
      BY <1>1, <1>3 DEF HistoryInv, Shaped
    <3> QED BY <1>3, <3>1 DEF HistoryInv, Ancestral
  <2>2. q \in Nat
    BY <1>1, <2>1
  <2>3. q \notin T
    <3> HIDE DEF T
    <3> QED BY <1>2, <1>3, <2>1, <2>2
  <2>4. Inherits(q)
    BY <2>1, <2>3
  <2> QED BY <1>4, <2>1, <2>2, <2>4
<1> HIDE DEF T
<1>6. c \in FullAncestors(c)
  BY <1>4
<1>7. RootCommit \in FullAncestors(c)
  <2>1. CASE c = RootCommit
    BY <1>6, <2>1
  <2>2. CASE c # RootCommit
    <3>1. PICK q \in recorded[c] : TRUE
      BY <1>3, <2>2, ParentsMade
    <3> QED BY <1>5, <3>1 DEF Inherits
  <2> QED BY <2>1, <2>2
<1>8. ASSUME NEW d \in FullAncestors(c)
      PROVE  /\ d \in made /\ d <= c
             /\ FullAncestors(d) \subseteq FullAncestors(c) /\ lineage[d] \subseteq lineage[c]
  <2>1. CASE d = c
    BY <1>3, <2>1
  <2>2. CASE d # c
    <3>1. PICK q \in recorded[c] : d \in FullAncestors(q)
      BY <1>4, <2>2
    <3>2. /\ d \in made /\ d <= q
          /\ FullAncestors(d) \subseteq FullAncestors(q) /\ lineage[d] \subseteq lineage[q]
      BY <1>5, <3>1 DEF Inherits
    <3>3. q \in Nat /\ q < c /\ d \in Nat
      BY <1>1, <1>5, <3>2
    <3>4. d <= c
      BY <1>3, <3>2, <3>3
    <3> QED BY <1>5, <3>2, <3>4
  <2> QED BY <2>1, <2>2
<1>9. lineage[c] \subseteq FullAncestors(c)
  <2> SUFFICES ASSUME NEW w \in lineage[c] PROVE w \in FullAncestors(c)
    OBVIOUS
  <2>1. w = c \/ \E q \in recorded[c] : w \in lineage[q]
    BY <1>3 DEF HistoryInv, Descent, Settled
  <2> QED BY <1>5, <1>6, <2>1 DEF Inherits
<1> QED BY <1>3, <1>6, <1>7, <1>8, <1>9 DEF Inherits

\* merge_bases: an only base contains what the two sides have in common.
LEMMA BaseOf ==
  ASSUME HistoryInv, Settled, NEW s \in made, NEW t \in made,
         Cardinality(MergeBases(s, t)) <= 1
  PROVE  /\ MergeBases(s, t) # {}
         /\ \A b \in MergeBases(s, t) : b \in made /\ lineage[b] = lineage[s] \cap lineage[t]
<1> DEFINE common == FullAncestors(s) \cap FullAncestors(t)
           bases == MergeBases(s, t)
<1>1. bases = {c \in common : \A d \in common \ {c} : c \notin FullAncestors(d)}
  BY DEF MergeBases
<1>2. /\ Inherits(s) /\ Inherits(t) /\ common \subseteq made
      /\ \A c \in common : Inherits(c)
  BY AllInherit DEF Inherits
<1>3. made \subseteq Nat /\ IsFiniteSet(made)
  BY HistoryAssumption DEF HistoryInv, Shaped
<1>4. ASSUME NEW Z \in SUBSET common, Z # {}
      PROVE  \E m \in Z : \A d \in Z : d <= m
  <2>1. IsFiniteSet(Z) /\ Z \subseteq Nat
    BY <1>2, <1>3, FS_Subset
  <2> HIDE DEF common
  <2> QED BY <1>4, <2>1, GreatestNat
<1>5. ASSUME NEW w \in common PROVE \E m \in bases : w \in FullAncestors(m)
  <2> DEFINE Z == {d \in common : w \in FullAncestors(d)}
  <2>1. w \in Z
    BY <1>2 DEF Inherits
  <2>2. PICK m \in Z : \A d \in Z : d <= m
    BY <1>4, <2>1
  <2>3. ASSUME NEW d \in common \ {m}, m \in FullAncestors(d) PROVE FALSE
    <3>1. d \in common /\ m \in common /\ Inherits(d)
      BY <1>2
    <3>2. w \in FullAncestors(m) /\ FullAncestors(m) \subseteq FullAncestors(d) /\ m <= d
      BY <2>3, <3>1 DEF Inherits
    <3>3. d \in Z
      BY <3>1, <3>2
    <3>4. d \in Nat /\ m \in Nat
      BY <1>2, <1>3, <3>1
    <3>5. d <= m
      BY <2>2, <3>3
    <3>6. d = m
      BY <3>2, <3>4, <3>5
    <3> QED BY <3>6
  <2> QED BY <1>1, <2>3
<1>6. ASSUME NEW b \in bases, NEW d \in bases PROVE b = d
  <2>1. IsFiniteSet(bases)
    <3>1. bases \subseteq made
      BY <1>1, <1>2
    <3> HIDE DEF bases
    <3> QED BY <1>3, <3>1, FS_Subset
  <2> HIDE DEF bases
  <2>2. /\ IsFiniteSet(bases \ {b}) /\ Cardinality(bases) \in Nat
        /\ Cardinality(bases \ {b}) \in Nat
        /\ Cardinality(bases) = Cardinality(bases \ {b}) + 1
    BY <2>1, LessOne
  <2>3. Cardinality(bases) <= 1
    BY DEF bases
  <2>4. Cardinality(bases \ {b}) = 0
    BY <2>2, <2>3
  <2>5. bases \ {b} = {}
    BY <2>2, <2>4, FS_EmptySet
  <2> QED BY <2>5
<1>7. RootCommit \in common
  BY <1>2 DEF Inherits
<1>8. ASSUME NEW b \in bases
      PROVE  b \in made /\ lineage[b] = lineage[s] \cap lineage[t]
  <2>1. b \in common /\ b \in made /\ Inherits(b)
    BY <1>1, <1>2
  <2>2. lineage[b] \subseteq lineage[s] \cap lineage[t]
    BY <1>2, <2>1 DEF Inherits
  <2>3. ASSUME NEW w \in lineage[s], w \in lineage[t] PROVE w \in lineage[b]
    <3>1. w \in common
      BY <1>2, <2>3 DEF Inherits
    <3>2. w \in FullAncestors(b)
      BY <1>5, <1>6, <3>1
    <3>3. w \in lineage[w]
      BY DEF HistoryInv, Descent
    <3> QED BY <2>1, <3>2, <3>3 DEF Inherits
  <2> QED BY <2>1, <2>2, <2>3
<1> HIDE DEF common
<1> QED BY <1>5, <1>7, <1>8

-----------------------------------------------------------------------------
(* The invariant holds initially. *)

LEMMA HistoryInitial ==
  ASSUME Init
  PROVE  HistoryInv
<1>1. made = {RootCommit} /\ RootCommit \in Commits /\ IsFiniteSet(made)
  BY HistoryAssumption, FS_Singleton DEF Init
<1>2. Shaped
  <2>1. \A c \in made, d \in Commits \ made : c < d
    <3> SUFFICES ASSUME NEW c \in made, NEW d \in Commits \ made PROVE c < d
      OBVIOUS
    <3>1. c = RootCommit /\ d # RootCommit /\ c \in Nat /\ d \in Nat /\ RootCommit <= d
      BY <1>1, HistoryAssumption
    <3> QED BY <3>1
  <2>2. heads \in [Branches -> made \cup {Null}]
    BY <1>1 DEF Init
  <2>3. /\ parent \in [Commits -> made \cup {Null}]
        /\ recorded \in [Commits -> SUBSET made]
        /\ absorbed \in [Commits -> [Branches -> made \cup {Null}]]
        /\ lineage \in [Commits -> SUBSET (made \ {RootCommit})]
        /\ value = [c \in Commits |-> value[c]] /\ plan = [p \in Procs |-> plan[p]]
    BY DEF Init
  <2>4. RootCommit \in made /\ made \subseteq Commits
    BY <1>1
  <2> QED BY <1>1, <2>1, <2>2, <2>3, <2>4 DEF Shaped
<1>3. Ancestral
  BY <1>1 DEF Init, Ancestral
<1>4. Descent
  BY <1>1 DEF Init, Descent
<1>5. Counted
  BY <1>1, TallyNone DEF Init, Counted
<1>6. Noted
  BY <1>1 DEF Init, Noted
<1>7. \A p \in Procs : Planned(p)
  BY DEF Init, Planned
<1> QED BY <1>2, <1>3, <1>4, <1>5, <1>6, <1>7 DEF HistoryInv

-----------------------------------------------------------------------------
(* Each step keeps it. *)

\* What a commit writes is true to its parent.
Truly(b, val, from, writes) ==
  /\ heads[b] # Null
  /\ val = Counter(Tally(writes))
  /\ lineage[heads[b]] \subseteq writes
  /\ from \in [Branches -> made \cup {Null}]
  /\ \A a \in Branches : from[a] # Null => lineage[from[a]] \subseteq writes

\* A commit is one not made yet, and leaves those made as they were.
LEMMA CommitMakes ==
  ASSUME HistoryInv, NEW b \in Branches, heads[b] # Null, NEW val, NEW from, NEW writes,
         CommitOn(b, val, from, writes)
  PROVE  /\ NewCommit \in Writable /\ NewCommit \notin made /\ made' = made \cup {NewCommit}
         /\ \A c \in made : c < NewCommit
         /\ \A d \in Commits \ made' : NewCommit < d
         /\ \A c \in Commits \ {NewCommit} :
              /\ parent'[c] = parent[c] /\ recorded'[c] = recorded[c] /\ value'[c] = value[c]
              /\ absorbed'[c] = absorbed[c] /\ lineage'[c] = lineage[c]
         /\ recorded'[NewCommit] = {heads[b]} /\ value'[NewCommit] = val
         /\ absorbed'[NewCommit] = from /\ lineage'[NewCommit] = writes
         /\ heads[b] \in made
<1>1. made \subseteq Commits /\ Commits \subseteq Nat /\ made # Commits /\ RootCommit \in made
  BY HistoryAssumption DEF HistoryInv, Shaped, CommitOn
<1>2. NewCommit \in Commits \ made /\ \A d \in Commits \ made : NewCommit <= d
  <2>1. Commits \ made \subseteq Nat /\ Commits \ made # {}
    BY <1>1
  <2>2. \E x \in Commits \ made : \A d \in Commits \ made : x <= d
    BY <2>1, LeastNat
  <2> QED BY <2>2 DEF NewCommit, Min
<1> DEFINE n == NewCommit
<1> HIDE DEF n
<1>3. n \in Commits /\ n \notin made /\ n # RootCommit /\ n \in Nat
  BY <1>1, <1>2 DEF n
<1>4. made' = made \cup {n}
  BY DEF CommitOn, n
<1>5. \A c \in made : c < n
  BY <1>3 DEF HistoryInv, Shaped
<1>6. ASSUME NEW d \in Commits \ made' PROVE n < d
  <2>1. d \in Commits \ made /\ d # n /\ d \in Nat
    BY <1>1, <1>4
  <2>2. n <= d
    BY <1>2, <2>1 DEF n
  <2> QED BY <1>3, <2>1, <2>2
<1>7. /\ parent \in [Commits -> made \cup {Null}]
      /\ recorded \in [Commits -> SUBSET made]
      /\ absorbed \in [Commits -> [Branches -> made \cup {Null}]]
      /\ lineage \in [Commits -> SUBSET (made \ {RootCommit})]
      /\ value = [c \in Commits |-> value[c]]
  BY DEF HistoryInv, Shaped
<1>8. /\ parent' = [parent EXCEPT ![n] = heads[b]]
      /\ recorded' = [recorded EXCEPT ![n] = {heads[b]}]
      /\ value' = [value EXCEPT ![n] = val]
      /\ absorbed' = [absorbed EXCEPT ![n] = from]
      /\ lineage' = [lineage EXCEPT ![n] = writes]
  BY DEF CommitOn, n
<1>9. \A c \in Commits \ {n} :
        /\ parent'[c] = parent[c] /\ recorded'[c] = recorded[c] /\ value'[c] = value[c]
        /\ absorbed'[c] = absorbed[c] /\ lineage'[c] = lineage[c]
  BY <1>7, <1>8
<1>10. /\ recorded'[n] = {heads[b]} /\ value'[n] = val
       /\ absorbed'[n] = from /\ lineage'[n] = writes
  BY <1>3, <1>7, <1>8
<1>11. heads[b] \in made
  BY DEF HistoryInv, Shaped
<1> QED BY <1>3, <1>4, <1>5, <1>6, <1>9, <1>10, <1>11 DEF n, Writable

LEMMA CommitShapes ==
  ASSUME HistoryInv, NEW b \in Branches, NEW val, NEW from, NEW writes,
         Truly(b, val, from, writes), CommitOn(b, val, from, writes),
         writes \subseteq made' \ {RootCommit}, plan' = [p \in Procs |-> plan'[p]]
  PROVE  Shaped' /\ Ancestral' /\ Counted' /\ Noted'
<1> DEFINE n == NewCommit
<1>1. /\ n \in Writable /\ n \notin made /\ made' = made \cup {n}
      /\ \A c \in made : c < n
      /\ \A d \in Commits \ made' : n < d
      /\ heads[b] \in made
  BY CommitMakes DEF Truly
<1>2. /\ \A c \in Commits \ {n} :
           /\ parent'[c] = parent[c] /\ recorded'[c] = recorded[c] /\ value'[c] = value[c]
           /\ absorbed'[c] = absorbed[c] /\ lineage'[c] = lineage[c]
      /\ recorded'[n] = {heads[b]} /\ value'[n] = val
      /\ absorbed'[n] = from /\ lineage'[n] = writes
  BY CommitMakes DEF Truly
<1>3. /\ parent' = [parent EXCEPT ![n] = heads[b]]
      /\ recorded' = [recorded EXCEPT ![n] = {heads[b]}]
      /\ value' = [value EXCEPT ![n] = val]
      /\ absorbed' = [absorbed EXCEPT ![n] = from]
      /\ lineage' = [lineage EXCEPT ![n] = writes]
      /\ heads' = [heads EXCEPT ![b] = n]
  BY DEF CommitOn
<1>4. /\ RootCommit \in made /\ made \subseteq Commits /\ IsFiniteSet(made)
      /\ \A c \in made, d \in Commits \ made : c < d
      /\ heads \in [Branches -> made \cup {Null}]
      /\ parent \in [Commits -> made \cup {Null}]
      /\ recorded \in [Commits -> SUBSET made]
      /\ absorbed \in [Commits -> [Branches -> made \cup {Null}]]
      /\ lineage \in [Commits -> SUBSET (made \ {RootCommit})]
      /\ value = [c \in Commits |-> value[c]]
  BY DEF HistoryInv, Shaped
<1> HIDE DEF n
<1>5. n \in Commits /\ n # RootCommit
  BY <1>1 DEF Writable
<1>6. Shaped'
  <2>1. RootCommit \in made' /\ made' \subseteq Commits /\ IsFiniteSet(made')
    BY <1>1, <1>4, <1>5, FS_AddElement
  <2>2. \A c \in made', d \in Commits \ made' : c < d
    BY <1>1, <1>4
  <2>3. heads' \in [Branches -> made' \cup {Null}]
    BY <1>1, <1>3, <1>4
  <2>4. parent' \in [Commits -> made' \cup {Null}]
    BY <1>1, <1>3, <1>4
  <2>5. recorded' \in [Commits -> SUBSET made']
    BY <1>1, <1>3, <1>4
  <2>6. absorbed' \in [Commits -> [Branches -> made' \cup {Null}]]
    <3>1. from \in [Branches -> made' \cup {Null}]
      BY <1>1 DEF Truly
    <3>2. \A f \in [Branches -> made \cup {Null}] : f \in [Branches -> made' \cup {Null}]
      BY <1>1
    <3> QED BY <1>3, <1>4, <3>1, <3>2
  <2>7. lineage' \in [Commits -> SUBSET (made' \ {RootCommit})]
    BY <1>1, <1>3, <1>4
  <2>8. value' = [c \in Commits |-> value'[c]]
    BY <1>3, <1>4
  <2> QED BY <2>1, <2>2, <2>3, <2>4, <2>5, <2>6, <2>7, <2>8 DEF Shaped
<1>7. Ancestral'
  <2>1. ASSUME NEW c \in Commits \ (made' \ {RootCommit})
        PROVE  recorded'[c] = {} /\ parent'[c] = Null
    <3>1. c \in Commits \ (made \ {RootCommit}) /\ c # n
      BY <1>1, <1>5
    <3> QED BY <1>2, <3>1 DEF HistoryInv, Ancestral
  <2>2. ASSUME NEW c \in made' \ {RootCommit} PROVE recorded'[c] # {}
    <3>1. c = n \/ (c \in made \ {RootCommit} /\ c \in Commits \ {n})
      BY <1>1, <1>4
    <3> QED BY <1>2, <3>1 DEF HistoryInv, Ancestral
  <2>3. ASSUME NEW c \in made', NEW q \in recorded'[c]
        PROVE  q < c /\ lineage'[q] \subseteq lineage'[c]
    <3>1. CASE c = n
      <4>1. q = heads[b] /\ q \in made /\ q \in Commits \ {n}
        BY <1>1, <1>2, <1>4, <3>1
      <4> QED BY <1>1, <1>2, <3>1, <4>1 DEF Truly
    <3>2. CASE c # n
      <4>1. c \in made /\ c \in Commits \ {n} /\ q \in recorded[c]
        BY <1>1, <1>2, <1>4, <3>2
      <4>2. q \in made /\ q \in Commits \ {n}
        BY <1>1, <1>4, <4>1
      <4>3. q < c /\ lineage[q] \subseteq lineage[c]
        BY <4>1 DEF HistoryInv, Ancestral
      <4> QED BY <1>2, <4>1, <4>2, <4>3
    <3> QED BY <3>1, <3>2
  <2> QED BY <2>1, <2>2, <2>3 DEF Ancestral
<1>8. Counted'
  <2> SUFFICES ASSUME NEW c \in made' PROVE value'[c] = Counter(Tally(lineage'[c]))
    BY DEF Counted, Tally
  <2>1. CASE c = n
    BY <1>2, <2>1 DEF Truly
  <2>2. CASE c # n
    <3>1. c \in made /\ c \in Commits \ {n}
      BY <1>1, <1>4, <2>2
    <3> QED BY <1>2, <3>1 DEF HistoryInv, Counted
  <2> QED BY <2>1, <2>2
<1>9. Noted'
  <2> SUFFICES ASSUME NEW c \in made', NEW a \in Branches, absorbed'[c][a] # Null
               PROVE  /\ absorbed'[c][a] < c
                      /\ lineage'[absorbed'[c][a]] \subseteq lineage'[c]
    BY DEF Noted
  <2> DEFINE q == absorbed'[c][a]
  <2>1. CASE c = n
    <3>1. q = from[a] /\ q \in made /\ lineage[q] \subseteq writes
      BY <1>2, <2>1 DEF Truly
    <3>2. q \in Commits \ {n}
      BY <1>1, <1>4, <3>1
    <3> HIDE DEF q
    <3>3. q < c /\ lineage'[q] \subseteq lineage'[c]
      BY <1>1, <1>2, <2>1, <3>1, <3>2
    <3> QED BY <3>3 DEF q
  <2>2. CASE c # n
    <3>1. c \in made /\ c \in Commits \ {n} /\ q = absorbed[c][a]
      BY <1>1, <1>2, <1>4, <2>2
    <3>2. q \in made
      BY <1>4, <3>1
    <3>3. q < c /\ lineage[q] \subseteq lineage[c]
      BY <3>1 DEF HistoryInv, Noted
    <3>4. q \in Commits \ {n}
      BY <1>1, <1>4, <3>2
    <3> HIDE DEF q
    <3>5. q < c /\ lineage'[q] \subseteq lineage'[c]
      BY <1>2, <3>1, <3>3, <3>4
    <3> QED BY <3>5 DEF q
  <2> QED BY <2>1, <2>2
<1> QED BY <1>6, <1>7, <1>8, <1>9

\* What was to be a commit's parent still is, or is recorded.
LEMMA DescentKept ==
  ASSUME HistoryInv, made' = made, lineage' = lineage,
         \A c \in made : recorded[c] \cup Pending(c) \subseteq recorded'[c] \cup Pending(c)'
  PROVE  Descent'
<1> SUFFICES ASSUME NEW c \in made', NEW w \in lineage'[c]
             PROVE  /\ w \in lineage'[w]
                    /\ w = c \/ \E q \in recorded'[c] \cup Pending(c)' : w \in lineage'[q]
  BY DEF Descent
<1>1. c \in made /\ w \in lineage[c]
  OBVIOUS
<1>2. w \in lineage[w] /\ (w = c \/ \E q \in recorded[c] \cup Pending(c) : w \in lineage[q])
  BY <1>1 DEF HistoryInv, Descent
<1> QED BY <1>1, <1>2

\* A new commit's writes are its own, its parent's, or those of the second parent it
\* is to be given.
LEMMA DescentAdded ==
  ASSUME HistoryInv, NEW b \in Branches, heads[b] # Null, NEW val, NEW from, NEW writes,
         CommitOn(b, val, from, writes),
         \A c \in made : Pending(c) \subseteq Pending(c)',
         NEW n, n = NewCommit, NEW more, more \subseteq Pending(n)', more \subseteq made,
         \A w \in writes :
           w = n \/ w \in lineage[heads[b]] \/ \E q \in more : w \in lineage[q]
  PROVE  Descent'
<1>1. n \notin made /\ made' = made \cup {n} /\ heads[b] \in made
  BY CommitMakes
<1>2. /\ \A c \in Commits \ {n} : recorded'[c] = recorded[c] /\ lineage'[c] = lineage[c]
      /\ recorded'[n] = {heads[b]} /\ lineage'[n] = writes
  BY CommitMakes
<1>3. /\ made \subseteq Commits
      /\ recorded \in [Commits -> SUBSET made]
      /\ lineage \in [Commits -> SUBSET (made \ {RootCommit})]
      /\ \A c \in made : Pending(c) \subseteq made
  <2>1. \A p \in Procs : plan[p] # NoPlan => plan[p].source \in made
    BY DEF HistoryInv, Planned
  <2>2. \A c \in made : Pending(c) \subseteq made
    BY <2>1 DEF Pending
  <2> QED BY <2>2 DEF HistoryInv, Shaped
<1>4. \A c \in made : c \in Commits \ {n}
  BY <1>1, <1>3
<1> SUFFICES ASSUME NEW c \in made', NEW w \in lineage'[c]
             PROVE  /\ w \in lineage'[w]
                    /\ w = c \/ \E q \in recorded'[c] \cup Pending(c)' : w \in lineage'[q]
  BY DEF Descent
<1>5. ASSUME NEW a \in made, NEW v \in lineage[a] PROVE v \in lineage'[v]
  <2>1. v \in made /\ v \in lineage[v]
    BY <1>3 DEF HistoryInv, Descent
  <2> QED BY <1>2, <1>4, <2>1
<1>6. CASE c = n
  <2>1. w \in writes
    BY <1>2, <1>6
  <2>2. CASE w = n
    BY <1>6, <2>2
  <2>3. CASE w \in lineage[heads[b]]
    <3>1. heads[b] \in recorded'[c] /\ w \in lineage'[heads[b]]
      BY <1>1, <1>2, <1>4, <1>6, <2>3
    <3>2. w \in lineage'[w]
      BY <1>1, <1>5, <2>3
    <3> QED BY <3>1, <3>2
  <2>4. ASSUME NEW q \in more, w \in lineage[q]
        PROVE  /\ w \in lineage'[w]
               /\ \E r \in recorded'[c] \cup Pending(c)' : w \in lineage'[r]
    <3>1. q \in Pending(c)' /\ q \in made
      BY <1>6, <2>4
    <3>2. w \in lineage'[q]
      BY <1>2, <1>4, <2>4, <3>1
    <3>3. w \in lineage'[w]
      BY <1>5, <2>4, <3>1
    <3> QED BY <3>1, <3>2, <3>3
  <2> QED BY <2>1, <2>2, <2>3, <2>4
<1>7. CASE c # n
  <2>1. c \in made /\ w \in lineage[c] /\ recorded'[c] = recorded[c]
    BY <1>1, <1>2, <1>4, <1>7
  <2>2. w \in lineage'[w]
    BY <1>5, <2>1
  <2>3. w = c \/ \E q \in recorded[c] \cup Pending(c) : w \in lineage[q]
    BY <2>1 DEF HistoryInv, Descent
  <2>4. ASSUME NEW q \in recorded[c] \cup Pending(c), w \in lineage[q]
        PROVE  q \in recorded'[c] \cup Pending(c)' /\ w \in lineage'[q]
    <3>1. q \in made
      BY <1>3, <1>4, <2>1
    <3>2. q \in recorded'[c] \cup Pending(c)'
      BY <2>1
    <3> QED BY <1>2, <1>4, <2>4, <3>1, <3>2
  <2> QED BY <2>2, <2>3, <2>4
<1> QED BY <1>6, <1>7

\* A plan stays as good as it was where its target does not move.
LEMMA PlannedKept ==
  ASSUME HistoryInv, NEW p \in Procs, plan'[p] = plan[p], made \subseteq made',
         \A c \in made : value'[c] = value[c] /\ lineage'[c] = lineage[c],
         plan[p] # NoPlan /\ plan[p].step = "planned" =>
           heads'[plan[p].target] = heads[plan[p].target]
  PROVE  Planned(p)'
<1> SUFFICES ASSUME plan[p] # NoPlan PROVE Planned(p)'
  BY DEF Planned
<1>1. Planned(p)
  BY DEF HistoryInv
<1>2. plan[p].step = "planned" => heads[plan[p].target] \in made
  BY <1>1 DEF Planned, HistoryInv, Shaped
<1>3. plan[p].source \in made
  BY <1>1 DEF Planned
<1>4. CASE plan[p].step = "planned"
  <2> DEFINE h == heads[plan[p].target]
             s == plan[p].source
  <2>1. h \in made /\ s \in made /\ heads'[plan[p].target] = h /\ h # Null
        /\ Outcome(value[h], plan[p].write) = Counter(Tally(lineage[h] \cup lineage[s]))
    BY <1>1, <1>2, <1>3, <1>4 DEF Planned
  <2>2. value'[h] = value[h] /\ lineage'[h] = lineage[h] /\ lineage'[s] = lineage[s]
    BY <2>1
  <2>3. Outcome(value'[h], plan'[p].write) = Counter(Tally(lineage'[h] \cup lineage'[s]))
    BY <2>1, <2>2
  <2>4. plan'[p].step # "written" /\ IsPlan(plan'[p]) /\ plan'[p].from \in Branches /\ plan'[p].target \in Branches
        /\ plan'[p].source \in made' /\ plan'[p].step = "planned"
    BY <1>1, <1>4 DEF Planned
  <2>5. plan'[p].source = s /\ heads'[plan'[p].target] = h
    BY <2>1
  <2> HIDE DEF h, s
  <2>6. Outcome(value'[heads'[plan'[p].target]], plan'[p].write) =
          Counter(Tally(lineage'[heads'[plan'[p].target]] \cup lineage'[plan'[p].source]))
    BY <2>3, <2>5
  <2> QED BY <2>1, <2>4, <2>5, <2>6 DEF Planned, Tally
<1>5. CASE plan[p].step = "written"
  <2>1. /\ plan[p].commit \in made /\ plan[p].source < plan[p].commit
        /\ lineage[plan[p].source] \subseteq lineage[plan[p].commit]
        /\ plan[p].from \in Branches /\ plan[p].target \in Branches
    BY <1>1, <1>5 DEF Planned
  <2>2. lineage'[plan[p].source] \subseteq lineage'[plan[p].commit]
    BY <1>3, <2>1
  <2>3. plan'[p].step = "written" /\ plan'[p].step # "planned" /\ IsPlan(plan'[p])
    BY <1>1, <1>5 DEF Planned
  <2> QED BY <1>3, <2>1, <2>2, <2>3 DEF Planned
<1> QED BY <1>1, <1>4, <1>5 DEF Planned

\* A branch that may move is no plan's target.
LEMMA TargetStays ==
  ASSUME MergesApart, NEW b \in Branches, MayMove(b), NEW p \in Procs, plan[p] # NoPlan
  PROVE  plan[p].target # b
  BY DEF MergesApart, MayMove

LEMMA StepIncrement ==
  ASSUME HistoryInv, MergesApart, WeightsTell, NEW b \in Branches, Increment(b)
  PROVE  HistoryInv'
<1> DEFINE L == lineage[heads[b]]
           from == absorbed[heads[b]]
<1>1. PICK n : n = NewCommit
  OBVIOUS
<1> DEFINE writes == L \cup {n}
           val == Counter(SatAdd(value[heads[b]].n, Weight(n)))
<1>2. CommitOn(b, val, from, writes) /\ heads[b] # Null /\ MayMove(b) /\ plan' = plan
  BY <1>1 DEF Increment
<1> HIDE DEF val, from, writes, L
<1>3. /\ n \in Writable /\ n \notin made /\ made' = made \cup {n} /\ heads[b] \in made
      /\ \A c \in Commits \ {n} : value'[c] = value[c] /\ lineage'[c] = lineage[c]
  BY <1>1, <1>2, CommitMakes
<1>4. /\ made \subseteq Commits /\ IsFiniteSet(made) /\ RootCommit \in made
      /\ absorbed \in [Commits -> [Branches -> made \cup {Null}]]
      /\ lineage \in [Commits -> SUBSET (made \ {RootCommit})]
      /\ heads \in [Branches -> made \cup {Null}]
      /\ plan = [p \in Procs |-> plan[p]]
  BY DEF HistoryInv, Shaped
<1>5. L \in SUBSET (made \ {RootCommit}) /\ from \in [Branches -> made \cup {Null}]
  BY <1>3, <1>4 DEF L, from
<1>6. val = Counter(Tally(writes))
  <2>1. L \in SUBSET Writable /\ IsFiniteSet(L) /\ n \notin L
    BY <1>3, <1>4, <1>5, FS_Subset DEF Writable
  <2>2. /\ Tally(L) \in Nat /\ Weight(n) \in Nat
        /\ Tally(L \cup {n}) = Tally(L) + Weight(n) /\ Tally(L \cup {n}) <= MaxInt
    BY <1>3, <2>1, TallyOne
  <2>3. value[heads[b]].n = Tally(L)
    <3>1. value[heads[b]] = Counter(Tally(L))
      BY <1>3 DEF HistoryInv, Counted, L
    <3> QED BY <3>1 DEF Counter
  <2>4. SatAdd(Tally(L), Weight(n)) = Tally(L \cup {n})
    BY <2>2, MergeAssumption DEF SatAdd, Saturate
  <2> QED BY <2>3, <2>4 DEF val, writes
<1>7. Truly(b, val, from, writes)
  <2>1. \A a \in Branches : from[a] # Null => lineage[from[a]] \subseteq writes
    BY <1>3 DEF HistoryInv, Noted, from, L, writes
  <2>2. lineage[heads[b]] \subseteq writes
    BY DEF L, writes
  <2> QED BY <1>2, <1>5, <1>6, <2>1, <2>2 DEF Truly
<1>8. Shaped' /\ Ancestral' /\ Counted' /\ Noted'
  <2>1. writes \subseteq made' \ {RootCommit}
    BY <1>3, <1>5 DEF writes, Writable
  <2>2. plan' = [p \in Procs |-> plan'[p]]
    BY <1>2, <1>4
  <2> QED BY <1>2, <1>7, <2>1, <2>2, CommitShapes
<1>9. Descent'
  <2>1. \A c \in made : Pending(c) \subseteq Pending(c)'
    BY <1>2 DEF Pending
  <2> DEFINE more == {}
  <2>2. more \subseteq Pending(n)' /\ more \subseteq made
    OBVIOUS
  <2>3. \A w \in writes :
          w = n \/ w \in lineage[heads[b]] \/ \E q \in more : w \in lineage[q]
    BY DEF writes, L
  <2> HIDE DEF more
  <2> QED BY <1>1, <1>2, <2>1, <2>2, <2>3, DescentAdded
<1>10. ASSUME NEW p \in Procs PROVE Planned(p)'
  <2>1. plan'[p] = plan[p]
    BY <1>2
  <2>2. \A c \in made : value'[c] = value[c] /\ lineage'[c] = lineage[c]
    BY <1>3, <1>4
  <2>3. plan[p] # NoPlan => heads'[plan[p].target] = heads[plan[p].target]
    <3> SUFFICES ASSUME plan[p] # NoPlan
                 PROVE  heads'[plan[p].target] = heads[plan[p].target]
      OBVIOUS
    <3>1. plan[p].target # b /\ plan[p].target \in Branches
      BY <1>2, TargetStays DEF HistoryInv, Planned
    <3> QED BY <1>2, <1>4, <3>1 DEF CommitOn
  <2> QED BY <1>3, <2>1, <2>2, <2>3, PlannedKept
<1> QED BY <1>8, <1>9, <1>10 DEF HistoryInv

\* A step that makes no commit and touches none.
LEMMA NothingMade ==
  ASSUME HistoryInv, UNCHANGED <<made, parent, recorded, value, absorbed, lineage>>,
         heads' \in [Branches -> made \cup {Null}], plan' = [p \in Procs |-> plan'[p]]
  PROVE  Shaped' /\ Ancestral' /\ Counted' /\ Noted'
<1>1. Shaped'
  BY DEF HistoryInv, Shaped
<1>2. Ancestral'
  BY DEF HistoryInv, Ancestral
<1>3. Counted'
  BY DEF HistoryInv, Counted, Tally
<1>4. Noted'
  BY DEF HistoryInv, Noted
<1> QED BY <1>1, <1>2, <1>3, <1>4

\* A branch is put somewhere, and no plan was to move it.
LEMMA StepMove ==
  ASSUME HistoryInv, NEW b \in Branches, NEW c \in made, heads' = [heads EXCEPT ![b] = c],
         UNCHANGED <<made, parent, recorded, value, absorbed, plan, lineage>>,
         \A p \in Procs : plan[p] # NoPlan /\ plan[p].step = "planned" => plan[p].target # b
  PROVE  HistoryInv'
<1>1. heads \in [Branches -> made \cup {Null}] /\ plan = [p \in Procs |-> plan[p]]
  BY DEF HistoryInv, Shaped
<1>2. heads' \in [Branches -> made \cup {Null}] /\ plan' = [p \in Procs |-> plan'[p]]
  BY <1>1
<1>3. Shaped' /\ Ancestral' /\ Counted' /\ Noted'
  BY <1>2, NothingMade
<1>4. Descent'
  <2>1. \A d \in made : recorded[d] \cup Pending(d) \subseteq recorded'[d] \cup Pending(d)'
    BY DEF Pending
  <2> QED BY <2>1, DescentKept
<1>5. ASSUME NEW p \in Procs PROVE Planned(p)'
  <2>1. plan[p] # NoPlan /\ plan[p].step = "planned" =>
          heads'[plan[p].target] = heads[plan[p].target]
    <3> SUFFICES ASSUME plan[p] # NoPlan, plan[p].step = "planned"
                 PROVE  heads'[plan[p].target] = heads[plan[p].target]
      OBVIOUS
    <3>1. plan[p].target # b /\ plan[p].target \in Branches
      BY DEF HistoryInv, Planned
    <3> QED BY <1>1, <3>1
  <2> QED BY <2>1, PlannedKept
<1> QED BY <1>3, <1>4, <1>5 DEF HistoryInv

LEMMA StepBranch ==
  ASSUME HistoryInv, NEW b \in Branches, NEW from \in Branches, Branch(b, from)
  PROVE  HistoryInv'
<1>1. heads[from] \in made
  BY DEF HistoryInv, Shaped, Branch
<1>2. \A p \in Procs : plan[p] # NoPlan /\ plan[p].step = "planned" => plan[p].target # b
  BY DEF HistoryInv, Planned, Branch
<1> QED BY <1>1, <1>2, StepMove DEF Branch

LEMMA StepRewind ==
  ASSUME HistoryInv, MergesApart, NEW b \in Branches, NEW to \in made, Rewind(b, to)
  PROVE  HistoryInv'
<1>1. MayMove(b)
  BY DEF Rewind
<1>2. \A p \in Procs : plan[p] # NoPlan /\ plan[p].step = "planned" => plan[p].target # b
  BY <1>1, TargetStays
<1> QED BY <1>2, StepMove DEF Rewind

\* Plans change where no commit waits for its second parent.
LEMMA StepPlans ==
  ASSUME HistoryInv, Settled,
         UNCHANGED <<heads, made, parent, recorded, value, absorbed, lineage>>,
         plan' = [p \in Procs |-> plan'[p]], \A p \in Procs : Planned(p)'
  PROVE  HistoryInv'
<1>1. heads' \in [Branches -> made \cup {Null}]
  BY DEF HistoryInv, Shaped
<1>2. Shaped' /\ Ancestral' /\ Counted' /\ Noted'
  BY <1>1, NothingMade
<1>3. Descent'
  <2>1. \A c \in made : recorded[c] \cup Pending(c) \subseteq recorded'[c] \cup Pending(c)'
    BY DEF Settled
  <2> QED BY <2>1, DescentKept
<1> QED BY <1>2, <1>3 DEF HistoryInv

\* The only thread that merges is not between its two commits to disk.
LEMMA AllSettled ==
  ASSUME MergesApart, NEW p \in Procs, plan[p] # NoPlan => plan[p].step # "written"
  PROVE  Settled
  BY DEF MergesApart, Settled, Pending

LEMMA StepCrash ==
  ASSUME HistoryInv, MergesApart, Crash
  PROVE  HistoryInv'
<1>1. Settled
  BY DEF MergesApart, Crash, Settled, Pending
<1>2. plan' = [p \in Procs |-> plan'[p]] /\ \A p \in Procs : plan'[p] = NoPlan
  BY DEF Crash
<1>3. \A p \in Procs : Planned(p)'
  BY <1>2 DEF Planned
<1> QED BY <1>1, <1>2, <1>3, StepPlans DEF Crash

LEMMA StepPlanMerge ==
  ASSUME HistoryInv, MergesApart, WeightsTell,
         NEW p \in Procs, NEW t \in Branches, NEW s \in Branches, PlanMerge(p, s, t)
  PROVE  HistoryInv'
<1>1. Settled
  BY AllSettled DEF PlanMerge
<1> DEFINE source == heads[s]
           target == heads[t]
           bases == MergeBases(source, target)
           base == IF bases = {} THEN source ELSE CHOOSE c \in bases : TRUE
           write == Decide(value[base], value[source], value[target], Unresolved)
<1>2. /\ plan' = [plan EXCEPT ![p] = [step |-> "planned", from |-> s, source |-> source,
                                      target |-> t, commit |-> Null, write |-> write]]
      /\ Cardinality(bases) <= 1 /\ source # Null /\ target # Null /\ plan[p] = NoPlan
      /\ UNCHANGED <<heads, made, parent, recorded, value, absorbed, lineage>>
  BY DEF PlanMerge
<1>3. source \in made /\ target \in made
  BY <1>2 DEF HistoryInv, Shaped
<1>4. base \in made /\ lineage[base] = lineage[source] \cap lineage[target]
  <2>1. bases # {} /\ \A b \in bases :
          b \in made /\ lineage[b] = lineage[source] \cap lineage[target]
    <3> HIDE DEF source, target
    <3> QED BY <1>1, <1>2, <1>3, BaseOf
  <2> HIDE DEF bases, source, target
  <2> QED BY <2>1
<1>5. plan = [q \in Procs |-> plan[q]]
  BY DEF HistoryInv, Shaped
<1> HIDE DEF source, target, bases, base
<1>6. Outcome(value[target], write) = Counter(Tally(lineage[target] \cup lineage[source]))
  <2>1. \A c \in made : value[c] = Counter(Tally(lineage[c]))
    BY DEF HistoryInv, Counted
  <2>2. \A c \in made : lineage[c] \in SUBSET Writable /\ IsFiniteSet(lineage[c])
    <3>1. /\ made \subseteq Commits /\ IsFiniteSet(made)
          /\ lineage \in [Commits -> SUBSET (made \ {RootCommit})]
      BY DEF HistoryInv, Shaped
    <3> QED BY <3>1, FS_Subset DEF Writable
  <2>3. write = Decide(Counter(Tally(lineage[source] \cap lineage[target])),
                       Counter(Tally(lineage[source])), Counter(Tally(lineage[target])),
                       Unresolved)
    BY <1>3, <1>4, <2>1
  <2>4. value[target] = Counter(Tally(lineage[target]))
    BY <1>3, <2>1
  <2> HIDE DEF write
  <2> QED BY <1>3, <2>2, <2>3, <2>4, DecideTally
<1> HIDE DEF write
<1>7. ASSUME NEW q \in Procs PROVE Planned(q)'
  <2>1. q = p
    BY DEF MergesApart
  <2> DEFINE m == [step |-> "planned", from |-> s, source |-> source,
                   target |-> t, commit |-> Null, write |-> write]
  <2>2. plan'[p] = m
    BY <1>2, <1>5
  <2>3. m.step = "planned" /\ m.from = s /\ m.source = source /\ m.target = t
        /\ m.write = write /\ IsPlan(m)
    BY DEF IsPlan
  <2> HIDE DEF m
  <2>4. heads'[t] = target /\ target # Null /\ source \in made'
    BY <1>2, <1>3 DEF target
  <2>5. Outcome(value'[heads'[t]], write) =
          Counter(Tally(lineage'[heads'[t]] \cup lineage'[source]))
    BY <1>2, <1>6, <2>4
  <2> QED BY <2>1, <2>2, <2>3, <2>4, <2>5 DEF Planned, Tally
<1>8. plan' = [q \in Procs |-> plan'[q]]
  BY <1>2, <1>5
<1> QED BY <1>1, <1>2, <1>7, <1>8, StepPlans

LEMMA StepWriteNothing ==
  ASSUME HistoryInv, MergesApart, NEW p \in Procs, WriteNothing(p)
  PROVE  HistoryInv'
<1> DEFINE m == plan[p]
           head == heads[m.target]
<1>1. /\ m # NoPlan /\ m.step = "planned" /\ absorbed[head][m.from] = m.source
      /\ plan' = [plan EXCEPT ![p].step = "written", ![p].commit = head]
      /\ UNCHANGED <<heads, made, parent, recorded, value, absorbed, lineage>>
  BY DEF WriteNothing, ChangesNothing
<1>2. Settled
  BY <1>1, AllSettled
<1>3. /\ m.source \in made /\ m.from \in Branches /\ m.target \in Branches /\ head # Null
  BY <1>1 DEF HistoryInv, Planned
<1>4. IsPlan(m)
  BY <1>1 DEF HistoryInv, Planned
<1>5. head \in made /\ m.source # Null /\ plan = [q \in Procs |-> plan[q]]
  BY <1>3, HistoryAssumption DEF HistoryInv, Shaped
<1>6. m.source < head /\ lineage[m.source] \subseteq lineage[head]
  BY <1>1, <1>3, <1>5 DEF HistoryInv, Noted
<1>7. ASSUME NEW q \in Procs PROVE Planned(q)'
  <2>1. q = p
    BY DEF MergesApart
  <2>2. /\ plan'[p].step = "written" /\ plan'[p].commit = head
        /\ plan'[p].source = m.source /\ plan'[p].from = m.from
        /\ plan'[p].target = m.target /\ IsPlan(plan'[p])
    <3>1. plan'[p] = [m EXCEPT !.step = "written", !.commit = head]
      <4> HIDE DEF head
      <4> QED BY <1>1, <1>5
    <3> HIDE DEF head, m
    <3> QED BY <1>4, <3>1 DEF IsPlan
  <2> QED BY <1>1, <1>3, <1>5, <1>6, <2>1, <2>2 DEF Planned
<1>8. plan' = [q \in Procs |-> plan'[q]]
  BY <1>1, <1>5
<1> QED BY <1>1, <1>2, <1>7, <1>8, StepPlans

LEMMA StepWritePlan ==
  ASSUME HistoryInv, MergesApart, NEW p \in Procs, WritePlan(p)
  PROVE  HistoryInv'
<1> DEFINE m == plan[p]
           t == m.target
           head == heads[t]
           source == m.source
           L == lineage[head]
           S == lineage[source]
           from == [absorbed[head] EXCEPT ![m.from] = source]
           val == Outcome(value[head], m.write)
<1>1. PICK n : n = NewCommit
  OBVIOUS
<1>2. /\ m # NoPlan /\ m.step = "planned" /\ CommitOn(t, val, from, L \cup S)
      /\ plan' = [plan EXCEPT ![p].step = "written", ![p].commit = n]
  BY <1>1 DEF WritePlan
<1>3. Settled
  BY <1>2, AllSettled
<1>4. /\ source \in made /\ m.from \in Branches /\ t \in Branches /\ head # Null
      /\ IsPlan(m) /\ val = Counter(Tally(L \cup S))
  BY <1>2 DEF HistoryInv, Planned
<1>5. /\ made \subseteq Commits /\ RootCommit \in made
      /\ absorbed \in [Commits -> [Branches -> made \cup {Null}]]
      /\ lineage \in [Commits -> SUBSET (made \ {RootCommit})]
      /\ heads \in [Branches -> made \cup {Null}]
      /\ plan = [q \in Procs |-> plan[q]]
  BY DEF HistoryInv, Shaped
<1>6. plan' = [q \in Procs |-> plan'[q]]
  BY <1>2, <1>5
<1>7. /\ plan'[p].step = "written" /\ plan'[p].commit = n
      /\ plan'[p].source = source /\ plan'[p].from = m.from
      /\ plan'[p].target = t /\ IsPlan(plan'[p]) /\ plan'[p] = [m EXCEPT !.step = "written", !.commit = n]
  <2>1. plan'[p] = [m EXCEPT !.step = "written", !.commit = n]
    BY <1>2, <1>5
  <2>2. source = m.source /\ t = m.target
    OBVIOUS
  <2> HIDE DEF m, t, source
  <2> QED BY <1>4, <2>1, <2>2 DEF IsPlan
<1>8. L \in SUBSET (made \ {RootCommit}) /\ S \in SUBSET (made \ {RootCommit})
  BY <1>4, <1>5
<1>9. from \in [Branches -> made \cup {Null}]
      /\ \A a \in Branches : from[a] = source \/ from[a] = absorbed[head][a]
  BY <1>4, <1>5
<1>10. head \in made
  BY <1>4, <1>5
<1> HIDE DEF val, from
<1>11. /\ n \in Writable /\ n \notin made /\ made' = made \cup {n}
       /\ \A c \in made : c < n
       /\ \A c \in Commits \ {n} : value'[c] = value[c] /\ lineage'[c] = lineage[c]
       /\ lineage'[n] = L \cup S
  <2> HIDE DEF L, S, t
  <2> QED BY <1>1, <1>2, <1>4, CommitMakes DEF head
<1>12. Truly(t, val, from, L \cup S)
  <2>1. \A a \in Branches : from[a] # Null => lineage[from[a]] \subseteq L \cup S
    <3> SUFFICES ASSUME NEW a \in Branches, from[a] # Null
                 PROVE  lineage[from[a]] \subseteq L \cup S
      OBVIOUS
    <3>1. CASE from[a] = source
      BY <3>1
    <3>2. CASE from[a] = absorbed[head][a]
      BY <1>10, <3>2 DEF HistoryInv, Noted
    <3> QED BY <1>9, <3>1, <3>2
  <2> QED BY <1>4, <1>9, <2>1 DEF Truly
<1>13. Shaped' /\ Ancestral' /\ Counted' /\ Noted'
  <2>1. L \cup S \subseteq made' \ {RootCommit}
    BY <1>8, <1>11
  <2> HIDE DEF L, S, t
  <2> QED BY <1>2, <1>4, <1>6, <1>12, <2>1, CommitShapes
<1>14. Descent'
  <2>1. \A c \in made : Pending(c) \subseteq Pending(c)'
    BY <1>3 DEF Settled
  <2> DEFINE more == {source}
  <2>2. plan'[p] # NoPlan
    <3>1. plan'[p].step = "written"
      BY <1>7
    <3>2. NoPlan.step = "none"
      BY DEF NoPlan
    <3> QED BY <3>1, <3>2
  <2>3. more \subseteq Pending(n)' /\ more \subseteq made
    BY <1>4, <1>7, <2>2 DEF Pending
  <2>4. \A w \in L \cup S : w = n \/ w \in L \/ \E q \in more : w \in lineage[q]
    OBVIOUS
  <2> HIDE DEF L, S, t, source, more
  <2>5. \A w \in L \cup S :
          w = n \/ w \in lineage[heads[t]] \/ \E q \in more : w \in lineage[q]
    BY <2>4 DEF L
  <2> QED BY <1>1, <1>2, <1>4, <2>1, <2>3, <2>5, DescentAdded
<1>15. ASSUME NEW q \in Procs PROVE Planned(q)'
  <2>1. q = p
    BY DEF MergesApart
  <2>2. /\ source \in Commits \ {n} /\ source < n
        /\ lineage'[source] \subseteq lineage'[n] /\ source \in made' /\ n \in made'
    BY <1>4, <1>5, <1>11
  <2> HIDE DEF m, source, t, L, S, head
  <2> QED BY <1>4, <1>7, <2>1, <2>2 DEF Planned
<1> QED BY <1>13, <1>14, <1>15 DEF HistoryInv

LEMMA StepRecord ==
  ASSUME HistoryInv, MergesApart, NEW p \in Procs, RecordSecondParent(p)
  PROVE  HistoryInv'
<1> DEFINE c == plan[p].commit
           source == plan[p].source
<1>1. /\ plan[p] # NoPlan /\ plan[p].step = "written"
      /\ recorded' = [recorded EXCEPT ![c] = @ \cup {source}]
      /\ plan' = [plan EXCEPT ![p] = NoPlan]
      /\ UNCHANGED <<heads, made, parent, value, absorbed, lineage>>
  BY DEF RecordSecondParent
<1>2. c \in made /\ source \in made /\ source < c /\ lineage[source] \subseteq lineage[c]
  BY <1>1 DEF HistoryInv, Planned
<1>3. /\ made \subseteq Commits /\ RootCommit \in made
      /\ recorded \in [Commits -> SUBSET made] /\ plan = [q \in Procs |-> plan[q]]
  BY DEF HistoryInv, Shaped
<1> HIDE DEF c, source
<1>4. c # RootCommit /\ c \in Commits
  <2>1. c \in Commits /\ source \in Commits /\ RootCommit \in Nat /\ source \in Nat
    BY <1>2, <1>3, HistoryAssumption
  <2>2. RootCommit <= source
    BY <2>1, HistoryAssumption
  <2> QED BY <1>2, <2>1, <2>2
<1>5. /\ \A d \in Commits \ {c} : recorded'[d] = recorded[d]
      /\ recorded'[c] = recorded[c] \cup {source}
      /\ recorded' \in [Commits -> SUBSET made]
  BY <1>1, <1>2, <1>3, <1>4
<1>6. plan' = [q \in Procs |-> plan'[q]] /\ plan'[p] = NoPlan
  BY <1>1, <1>3
<1>7. Shaped'
  BY <1>1, <1>5, <1>6 DEF HistoryInv, Shaped
<1>8. Ancestral'
  <2>1. ASSUME NEW d \in Commits \ (made' \ {RootCommit})
        PROVE  recorded'[d] = {} /\ parent'[d] = Null
    BY <1>1, <1>2, <1>4, <1>5 DEF HistoryInv, Ancestral
  <2>2. ASSUME NEW d \in made' \ {RootCommit} PROVE recorded'[d] # {}
    <3>1. d = c \/ d \in Commits \ {c}
      BY <1>1, <1>3
    <3> QED BY <1>1, <1>5, <3>1 DEF HistoryInv, Ancestral
  <2>3. ASSUME NEW d \in made', NEW q \in recorded'[d]
        PROVE  q < d /\ lineage'[q] \subseteq lineage'[d]
    <3>1. q \in recorded[d] \/ (d = c /\ q = source)
      BY <1>1, <1>3, <1>5
    <3> QED BY <1>1, <1>2, <3>1 DEF HistoryInv, Ancestral
  <2> QED BY <2>1, <2>2, <2>3 DEF Ancestral
<1>9. Descent'
  <2>1. ASSUME NEW d \in made
        PROVE  recorded[d] \cup Pending(d) \subseteq recorded'[d] \cup Pending(d)'
    <3>1. \A q \in Pending(d) : d = c /\ q = source
      BY DEF MergesApart, Pending, c, source
    <3> QED BY <1>3, <1>5, <3>1
  <2> QED BY <1>1, <2>1, DescentKept
<1>10. Counted' /\ Noted'
  BY <1>1 DEF HistoryInv, Counted, Noted, Tally
<1>11. \A q \in Procs : Planned(q)'
  <2>1. \A q \in Procs : q = p
    BY DEF MergesApart
  <2> QED BY <1>6, <2>1 DEF Planned
<1> QED BY <1>7, <1>8, <1>9, <1>10, <1>11 DEF HistoryInv

LEMMA HistoryNext ==
  ASSUME HistoryInv, MergesApart, WeightsTell, [Next]_vars
  PROVE  HistoryInv'
<1>1. CASE UNCHANGED vars
  <2>1. heads' \in [Branches -> made \cup {Null}] /\ plan' = [p \in Procs |-> plan'[p]]
    BY <1>1 DEF HistoryInv, Shaped, vars
  <2>2. Shaped' /\ Ancestral' /\ Counted' /\ Noted'
    BY <1>1, <2>1, NothingMade DEF vars
  <2>3. Descent'
    <3>1. \A c \in made : recorded[c] \cup Pending(c) \subseteq recorded'[c] \cup Pending(c)'
      BY <1>1 DEF vars, Pending
    <3> QED BY <1>1, <3>1, DescentKept DEF vars
  <2>4. \A p \in Procs : Planned(p)'
    BY <1>1, PlannedKept DEF vars
  <2> QED BY <2>2, <2>3, <2>4 DEF HistoryInv
<1>2. ASSUME NEW b \in Branches, Increment(b) PROVE HistoryInv'
  BY <1>2, StepIncrement
<1>3. ASSUME NEW b \in Branches, NEW from \in Branches, Branch(b, from) PROVE HistoryInv'
  BY <1>3, StepBranch
<1>4. ASSUME NEW b \in Branches, NEW to \in made, Rewind(b, to) PROVE HistoryInv'
  BY <1>4, StepRewind
<1>5. ASSUME NEW p \in Procs, NEW t \in Branches, NEW s \in Branches, PlanMerge(p, s, t)
      PROVE  HistoryInv'
  BY <1>5, StepPlanMerge
<1>6. ASSUME NEW p \in Procs, WritePlan(p) PROVE HistoryInv'
  BY <1>6, StepWritePlan
<1>7. ASSUME NEW p \in Procs, WriteNothing(p) PROVE HistoryInv'
  BY <1>7, StepWriteNothing
<1>8. ASSUME NEW p \in Procs, RecordSecondParent(p) PROVE HistoryInv'
  BY <1>8, StepRecord
<1>9. CASE Crash
  BY <1>9, StepCrash
<1> QED BY <1>1, <1>2, <1>3, <1>4, <1>5, <1>6, <1>7, <1>8, <1>9 DEF Next

-----------------------------------------------------------------------------
(* The theorems. *)

\* merge_checked, merge_bases, write_merge: where one thread merges and nobody else
\* moves its target, every write a branch or a branch merged into it made is counted
\* once, in a history of any shape and size, with rewinds and crashes between merges.
THEOREM CountedOnce == MergesApart /\ WeightsTell /\ Spec => []TallyExact
<1> SUFFICES ASSUME MergesApart, WeightsTell PROVE Spec => []TallyExact
  OBVIOUS
<1>1. Init => HistoryInv
  BY HistoryInitial
<1>2. HistoryInv /\ [Next]_vars => HistoryInv'
  BY HistoryNext
<1>3. HistoryInv => TallyExact
  <2> SUFFICES ASSUME HistoryInv, NEW b \in Branches, heads[b] # Null
               PROVE  value[heads[b]].n = SumSet({Weight(c) : c \in lineage[heads[b]]})
    BY DEF TallyExact
  <2>1. heads[b] \in made
    BY DEF HistoryInv, Shaped
  <2>2. value[heads[b]] = Counter(Tally(lineage[heads[b]]))
    BY <2>1 DEF HistoryInv, Counted
  <2> QED BY <2>2 DEF Counter, Tally
<1> QED BY <1>1, <1>2, <1>3, PTL DEF Spec
=============================================================================
