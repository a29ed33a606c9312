---------------------------- MODULE MergeHistory ----------------------------
(***************************************************************************)
(* Merging over a commit history (session.rs: merge_checked, merge_bases,  *)
(* full_ancestors, write_merge, rewind).  One counter lives on every       *)
(* branch.  Write commit c adds Weight(c) to it, and weights are so far    *)
(* apart that the counter's value says how often each write was counted.   *)
(*                                                                         *)
(* merge_checked plans with no lock held, writes the plan under the head   *)
(* lock of write_all onto whatever the head then is, and records the       *)
(* second parent after that; the three are separate steps here.  A guarded *)
(* write and its publication are one step (module LoomBranch has theirs).  *)
(***************************************************************************)
EXTENDS MergeRules, FiniteSets, FiniteSetsExt

CONSTANTS
  Branches, Main,
  Commits, RootCommit,   \* commit ids; the root is the least
  Null,
  Procs,                 \* threads that merge
  Weight(_),             \* what write commit c adds to the counter
  SingleWriter,          \* is each branch moved by one thread at a time?
  CrashMidMerge,         \* may a crash fall between a merge's two commits to disk?
  MaxWrites,             \* bound: increments in a behaviour
  MaxUpsets              \* bound: rewinds and crashes in a behaviour

ASSUME HistoryAssumption ==
  /\ Main \in Branches
  /\ Commits \subseteq Nat /\ RootCommit \in Commits
  /\ \A c \in Commits : RootCommit <= c
  /\ Null \notin Commits
  /\ {SingleWriter, CrashMidMerge} \subseteq BOOLEAN
  /\ MaxWrites \in Nat /\ MaxUpsets \in Nat

VARIABLES
  heads,     \* heads[b]: the branch's head, or Null
  made,      \* the commits made so far
  parent,    \* substrate's single parent of a manifest
  recorded,  \* Refs::commits: every recorded parent, in memory and on disk
  value,     \* value[c]: the counter at commit c
  absorbed,  \* absorbed[c][s]: the head last merged from s, kept in c's tree (merged_from_key)
  plan,      \* plan[p]: the merge p has planned, or NoPlan
  lineage,   \* history: the writes a commit should contain
  upsets

vars == <<heads, made, parent, recorded, value, absorbed, plan, lineage, upsets>>

-----------------------------------------------------------------------------

\* Mutant: only substrate's single parent edge.
ParentsSingle(c) == IF parent[c] # Null THEN {parent[c]} ELSE {}

\* full_ancestors: over the recorded parents where there are any, else over
\* substrate's single parent edge.
Parents(c) ==
  IF recorded[c] # {} THEN recorded[c]
  ELSE IF parent[c] # Null THEN {parent[c]} ELSE {}

FullAncestors(c) ==
  LET anc[d \in Commits] == {d} \cup UNION {anc[q] : q \in Parents(d)}
  IN  anc[c]

\* merge_bases: the common ancestors no other common ancestor descends from.
MergeBases(s, t) ==
  LET common == FullAncestors(s) \cap FullAncestors(t)
  IN  {c \in common : \A d \in common \ {c} : c \notin FullAncestors(d)}

NoPlan == [step |-> "none"]

\* May a thread other than the one merging into b move b?
MayMove(b) == SingleWriter => \A p \in Procs : plan[p] # NoPlan => plan[p].target # b

NewCommit == Min(Commits \ made)

\* A commit on b's head, recorded and published.
CommitOn(b, val, from, writes) ==
  /\ made # Commits
  /\ made' = made \cup {NewCommit}
  /\ parent' = [parent EXCEPT ![NewCommit] = heads[b]]
  /\ recorded' = [recorded EXCEPT ![NewCommit] = {heads[b]}]
  /\ value' = [value EXCEPT ![NewCommit] = val]
  /\ absorbed' = [absorbed EXCEPT ![NewCommit] = from]
  /\ lineage' = [lineage EXCEPT ![NewCommit] = writes]
  /\ heads' = [heads EXCEPT ![b] = NewCommit]

Init ==
  /\ heads = [b \in Branches |-> IF b = Main THEN RootCommit ELSE Null]
  /\ made = {RootCommit}
  /\ parent = [c \in Commits |-> Null]
  /\ recorded = [c \in Commits |-> {}]
  /\ value = [c \in Commits |-> Counter(0)]
  /\ absorbed = [c \in Commits |-> [b \in Branches |-> Null]]
  /\ plan = [p \in Procs |-> NoPlan]
  /\ lineage = [c \in Commits |-> {}]
  /\ upsets = 0

\* The increments made so far.
Writes == {c \in made : c \in lineage[c]}

\* A client reads the counter and writes it back, incremented.
Increment(b) ==
  /\ Cardinality(Writes) < MaxWrites
  /\ heads[b] # Null /\ MayMove(b)
  /\ CommitOn(b, Counter(SatAdd(value[heads[b]].n, Weight(NewCommit))),
              absorbed[heads[b]], lineage[heads[b]] \cup {NewCommit})
  /\ UNCHANGED <<plan, upsets>>

\* branch() and open_session_named.
Branch(b, from) ==
  /\ heads[b] = Null /\ heads[from] # Null
  /\ heads' = [heads EXCEPT ![b] = heads[from]]
  /\ UNCHANGED <<made, parent, recorded, value, absorbed, plan, lineage, upsets>>

\* merge_checked up to the plan.  No base: the source itself is taken for it.
\* More than one base: AmbiguousHistory, and nothing is done.
PlanMerge(p, s, t) ==
  /\ plan[p] = NoPlan
  /\ heads[s] # Null /\ heads[t] # Null /\ MayMove(t)
  /\ LET bases == MergeBases(heads[s], heads[t])
         base  == IF bases = {} THEN heads[s] ELSE CHOOSE c \in bases : TRUE
     IN  /\ Cardinality(bases) <= 1
         /\ plan' = [plan EXCEPT ![p] =
                       [step   |-> "planned",
                        from   |-> s,
                        source |-> heads[s],
                        target |-> t,
                        commit |-> Null,
                        write  |-> Decide(value[base], value[heads[s]],
                                          value[heads[t]], Unresolved)]]
  /\ UNCHANGED <<heads, made, parent, recorded, value, absorbed, lineage, upsets>>

\* The tree is as it was: nothing to write, and the same note as before.
ChangesNothing(m) ==
  m.write = Nothing /\ absorbed[heads[m.target]][m.from] = m.source

\* write_merge's write: the planned records, and a note of the source head, land
\* on the head of this moment.
WritePlan(p) ==
  /\ plan[p] # NoPlan /\ plan[p].step = "planned" /\ ~ChangesNothing(plan[p])
  /\ LET head == heads[plan[p].target]
     IN  CommitOn(plan[p].target, Outcome(value[head], plan[p].write),
                  [absorbed[head] EXCEPT ![plan[p].from] = plan[p].source],
                  lineage[head] \cup lineage[plan[p].source])
  /\ plan' = [plan EXCEPT ![p].step = "written", ![p].commit = NewCommit]
  /\ UNCHANGED upsets

\* Then the commit is its own base, and the second parent will be added to a
\* commit that other branches may share.
WriteNothing(p) ==
  /\ plan[p] # NoPlan /\ plan[p].step = "planned" /\ ChangesNothing(plan[p])
  /\ plan' = [plan EXCEPT ![p].step = "written", ![p].commit = heads[plan[p].target]]
  /\ UNCHANGED <<heads, made, parent, recorded, value, absorbed, lineage, upsets>>

\* write_merge's end: the second parent, in memory and on disk.
RecordSecondParent(p) ==
  /\ plan[p] # NoPlan /\ plan[p].step = "written"
  /\ recorded' = [recorded EXCEPT ![plan[p].commit] = @ \cup {plan[p].source}]
  /\ plan' = [plan EXCEPT ![p] = NoPlan]
  /\ UNCHANGED <<heads, made, parent, value, absorbed, lineage, upsets>>

\* rewind: the branch goes to any commit, whether in its history or not.
Rewind(b, to) ==
  /\ upsets < MaxUpsets /\ upsets' = upsets + 1
  /\ heads[b] # Null /\ MayMove(b)
  /\ heads' = [heads EXCEPT ![b] = to]
  /\ UNCHANGED <<made, parent, recorded, value, absorbed, plan, lineage>>

\* The process dies, and its merges with it.
Crash ==
  /\ upsets < MaxUpsets /\ upsets' = upsets + 1
  /\ CrashMidMerge \/ \A p \in Procs : plan[p] # NoPlan => plan[p].step # "written"
  /\ plan' = [p \in Procs |-> NoPlan]
  /\ UNCHANGED <<heads, made, parent, recorded, value, absorbed, lineage>>

Next ==
  \/ \E b \in Branches :
       \/ Increment(b)
       \/ \E from \in Branches : Branch(b, from)
       \/ \E to \in made : Rewind(b, to)
  \/ \E p \in Procs :
       \/ \E t \in Branches : \E s \in Branches \ {t} : PlanMerge(p, s, t)
       \/ WritePlan(p)
       \/ WriteNothing(p)
       \/ RecordSecondParent(p)
  \/ Crash

Spec == Init /\ [][Next]_vars

-----------------------------------------------------------------------------
(* Properties. *)

\* The values the variables take.
TypeOK ==
  /\ heads \in [Branches -> Commits \cup {Null}]
  /\ made \subseteq Commits
  /\ parent \in [Commits -> Commits \cup {Null}]
  /\ recorded \in [Commits -> SUBSET Commits]
  /\ \A c \in Commits : value[c].n \in MinInt .. MaxInt
  /\ absorbed \in [Commits -> [Branches -> Commits \cup {Null}]]
  /\ lineage \in [Commits -> SUBSET Commits]
  /\ \A p \in Procs : plan[p] # NoPlan =>
       /\ plan[p].source \in made
       /\ plan[p].step = "written" => plan[p].commit \in made

\* On every branch, every write the branch or a branch merged into it made is
\* counted exactly once, however often and in whatever order they merged.
TallyExact ==
  \A b \in Branches :
    heads[b] # Null => value[heads[b]].n = SumSet({Weight(c) : c \in lineage[heads[b]]})

=============================================================================
