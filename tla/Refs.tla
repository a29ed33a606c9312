-------------------------------- MODULE Refs --------------------------------
(***************************************************************************)
(* The refs of a LoomDB tenant and the edits that change them              *)
(* (crates/loom-branch/src/refs.rs): branch heads, tags, and the recorded  *)
(* commit DAG.  Every other module of the branch layer is built on the one *)
(* operator here that changes refs, ApplyEdit.                             *)
(*                                                                         *)
(* A parent list is a set: the code never looks at its order and drops     *)
(* duplicates.  The empty set stands for "no entry in `commits`", because  *)
(* record_commit refuses to record an empty parent list.                   *)
(***************************************************************************)
EXTENDS Naturals, SequencesExt

CONSTANTS
  Branches,   \* branch names
  Tags,       \* tag names
  Commits,    \* commit (manifest) ids
  Null        \* "no such name": an absent entry of `branches` or `tags`

ASSUME NullAssumption == Null \notin Commits

-----------------------------------------------------------------------------

\* A full set of refs, struct Refs.
RefsType ==
  [branches : [Branches -> Commits \cup {Null}],
   tags     : [Tags -> Commits \cup {Null}],
   commits  : [Commits -> SUBSET Commits]]

\* Refs::default(), what replay starts from when there is no snapshot.
EmptyRefs ==
  [branches |-> [b \in Branches |-> Null],
   tags     |-> [t \in Tags |-> Null],
   commits  |-> [c \in Commits |-> {}]]

\* Refs::rooted(), the refs of a brand-new database.
Rooted(name, at) == [EmptyRefs EXCEPT !.branches[name] = at]

\* Refs::roots(): every commit a branch or a tag points at.
Roots(r) ==
  ({r.branches[b] : b \in Branches} \cup {r.tags[t] : t \in Tags}) \ {Null}

-----------------------------------------------------------------------------
\* enum RefEdit: one constructor per variant.

SetHead(b, c)       == [op |-> "SetHead", name |-> b, at |-> c]
CreateBranch(b, c)  == [op |-> "CreateBranch", name |-> b, at |-> c]
RemoveBranch(b)     == [op |-> "RemoveBranch", name |-> b]
SetTag(t, c)        == [op |-> "SetTag", name |-> t, at |-> c]
RemoveTag(t)        == [op |-> "RemoveTag", name |-> t]
RecordCommit(c, ps) == [op |-> "RecordCommit", at |-> c, parents |-> ps]
AddParent(c, p)     == [op |-> "AddParent", at |-> c, parent |-> p]

RefEdit ==
  {SetHead(b, c) : b \in Branches, c \in Commits}
    \cup {CreateBranch(b, c) : b \in Branches, c \in Commits}
    \cup {RemoveBranch(b) : b \in Branches}
    \cup {SetTag(t, c) : t \in Tags, c \in Commits}
    \cup {RemoveTag(t) : t \in Tags}
    \cup {RecordCommit(c, ps) : c \in Commits, ps \in SUBSET Commits}
    \cup {AddParent(c, p) : c \in Commits, p \in Commits}

\* Refs::apply_edit: replay of one edit.  RecordCommit replaces a parent list,
\* AddParent only ever extends one.
ApplyEdit(r, e) ==
  [branches |->
     IF e.op \in {"SetHead", "CreateBranch"} THEN [r.branches EXCEPT ![e.name] = e.at]
     ELSE IF e.op = "RemoveBranch" THEN [r.branches EXCEPT ![e.name] = Null]
     ELSE r.branches,
   tags |->
     IF e.op = "SetTag" THEN [r.tags EXCEPT ![e.name] = e.at]
     ELSE IF e.op = "RemoveTag" THEN [r.tags EXCEPT ![e.name] = Null]
     ELSE r.tags,
   commits |->
     IF e.op = "RecordCommit" THEN [r.commits EXCEPT ![e.at] = e.parents]
     ELSE IF e.op = "AddParent" THEN [r.commits EXCEPT ![e.at] = @ \cup {e.parent}]
     ELSE r.commits]

\* Replay of edits in append order.
ApplyEdits(r, edits) == FoldLeft(ApplyEdit, r, edits)
=============================================================================
