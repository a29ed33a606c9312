-------------------------- MODULE LoomBranchProofs --------------------------
(***************************************************************************)
(* Theorems about LoomBranch, for any number of threads, branches and      *)
(* commits.                                                                *)
(***************************************************************************)
EXTENDS LoomBranch, TLAPS

\* Replaying one edit of the edit language on a set of refs yields a set of refs.
LEMMA ApplyEditType ==
  ASSUME NEW r \in RefsType, NEW e \in RefEdit
  PROVE  ApplyEdit(r, e) \in RefsType
<1>1. CASE \E b \in Branches, c \in Commits : e = SetHead(b, c)
  BY <1>1 DEF ApplyEdit, RefsType, SetHead
<1>2. CASE \E b \in Branches, c \in Commits : e = CreateBranch(b, c)
  BY <1>2 DEF ApplyEdit, RefsType, CreateBranch
<1>3. CASE \E b \in Branches : e = RemoveBranch(b)
  BY <1>3 DEF ApplyEdit, RefsType, RemoveBranch
<1>4. CASE \E t \in Tags, c \in Commits : e = SetTag(t, c)
  BY <1>4 DEF ApplyEdit, RefsType, SetTag
<1>5. CASE \E t \in Tags : e = RemoveTag(t)
  BY <1>5 DEF ApplyEdit, RefsType, RemoveTag
<1>6. CASE \E c \in Commits, ps \in SUBSET Commits : e = RecordCommit(c, ps)
  BY <1>6 DEF ApplyEdit, RefsType, RecordCommit
<1>7. CASE \E c, p \in Commits : e = AddParent(c, p)
  BY <1>7 DEF ApplyEdit, RefsType, AddParent
<1> QED
  BY <1>1, <1>2, <1>3, <1>4, <1>5, <1>6, <1>7 DEF RefEdit

-----------------------------------------------------------------------------

\* Where a merge records its second parent.
Edging == {"edge", "queueBoth", "queueSecond"}

\* TypeOK alone is not inductive: at the places where an id is used, it is there.
Placed(p) ==
  /\ pc[p] \in {"commit", "cas", "record", "queue"} => loc[p].head \in Commits
  /\ pc[p] \in {"cas"} \cup Publishing \cup Edging => loc[p].commit \in Commits
  /\ loc[p].op = "merge" =>
       /\ loc[p].second \in Commits
       /\ pc[p] # "before" => loc[p].before \in Commits
  /\ pc[p] \in Edging => loc[p].op = "merge"
  /\ pc[p] = "append" => loc[p].batch # << >>

TypeInv == TypeOK /\ \A p \in Procs : Placed(p)

LEMMA NoLocalsType == NoLocals \in Locals
  BY BranchAssumption DEF NoLocals, Locals, AllKinds

LEMMA EditTypes ==
  /\ \A b \in Branches, c \in Commits : SetHead(b, c) \in RefEdit /\ CreateBranch(b, c) \in RefEdit
  /\ \A c, q \in Commits : RecordCommit(c, {q}) \in RefEdit /\ AddParent(c, q) \in RefEdit
  /\ \A c \in Commits, ps \in SUBSET Commits : RecordCommit(c, ps) \in RefEdit
  BY DEF RefEdit

\* Ending an operation keeps the thread state and the locks well-typed.
LEMMA LeaveType ==
  ASSUME TypeInv, NEW p \in Procs, Leave(p)
  PROVE  /\ pc' \in [Procs -> Places] /\ loc' \in [Procs -> Locals]
         /\ {wlock', maint', slock'} \subseteq Procs \cup {Free} /\ readers' \subseteq Procs
         /\ \A q \in Procs : Placed(q)'
<1>1. loc' = [loc EXCEPT ![p] = NoLocals] /\ pc' = [pc EXCEPT ![p] = "idle"]
  BY DEF Leave
<1>2. pc' \in [Procs -> Places] /\ loc' \in [Procs -> Locals]
  BY <1>1, NoLocalsType DEF TypeInv, TypeOK, Places
<1>3. {wlock', maint', slock'} \subseteq Procs \cup {Free} /\ readers' \subseteq Procs
  BY DEF Leave, Release, TypeInv, TypeOK
<1>4. \A q \in Procs : Placed(q)'
  BY <1>1, NoLocalsType DEF NoLocals, TypeInv, TypeOK, Placed, Publishing, Edging
<1> QED BY <1>2, <1>3, <1>4

\* Every step of an operation preserves the types.
LEMMA TypeStep ==
  ASSUME TypeInv, NEW p \in Procs, Step(p)
  PROVE  TypeInv'
<1> USE BranchAssumption
<1>a. TypeOK /\ (\A q \in Procs : Placed(q)) /\ loc[p] \in Locals
  BY DEF TypeInv, TypeOK
<1>b. \A b \in Branches : mem.branches[b] \in Commits \cup {Null}
  BY DEF TypeInv, TypeOK, RefsType
<1>c. /\ loc[p].br \in Branches /\ loc[p].from \in Branches
      /\ loc[p].batch \in Seq(RefEdit) /\ loc[p].tries \in Nat
  BY <1>a DEF Locals
<1>1. CASE LockAndRead(p)
  <2>1. CASE Leave(p)
    BY <1>1, <2>1, LeaveType DEF LockAndRead, store, history, TypeInv, TypeOK
  <2>2. CASE ~Leave(p)
    <3>1. loc' = [loc EXCEPT ![p].head = mem.branches[loc[p].br]] /\ wlock' = p
      BY <1>1, <2>2 DEF LockAndRead
    <3>2. loc' \in [Procs -> Locals]
      BY <1>a, <1>b, <1>c, <3>1 DEF TypeOK, Locals
    <3>3. TypeOK'
      BY <1>1, <2>2, <3>2 DEF LockAndRead, Goto, store, history, TypeInv, TypeOK, Places
    <3>4. \A q \in Procs : Placed(q)'
      <4>1. /\ pc' = [pc EXCEPT ![p] = "commit"] /\ mem.branches[loc[p].br] # Null
            /\ pc[p] = "lock"
        BY <1>1, <2>2 DEF LockAndRead, Goto
      <4>2. mem.branches[loc[p].br] \in Commits
        BY <1>b, <1>c, <4>1
      <4> QED BY <1>a, <3>1, <4>1, <4>2 DEF TypeOK, Placed, Publishing, Edging, Locals
    <3> QED BY <3>3, <3>4 DEF TypeInv
  <2> QED BY <2>1, <2>2
<1>2. CASE LockAndCreate(p)
  <2>1. CASE Leave(p) /\ UNCHANGED mem
    BY <1>2, <2>1, LeaveType DEF LockAndCreate, store, history, TypeInv, TypeOK
  <2>2. CASE ~(Leave(p) /\ UNCHANGED mem)
    <3>1. /\ loc' = [loc EXCEPT ![p].commit = mem.branches[loc[p].from]]
          /\ mem' = [mem EXCEPT !.branches[loc[p].br] = mem.branches[loc[p].from]]
          /\ mem.branches[loc[p].from] \in Commits
      BY <1>2, <1>b, <1>c, <2>2 DEF LockAndCreate
    <3>2. loc' \in [Procs -> Locals]
      BY <1>a, <3>1 DEF TypeOK, Locals
    <3>3. mem' \in RefsType
      BY <1>a, <1>c, <3>1 DEF TypeOK, RefsType
    <3>4. TypeOK'
      BY <1>2, <2>2, <3>2, <3>3 DEF LockAndCreate, Goto, store, history, TypeInv, TypeOK, Places
    <3>5. \A q \in Procs : Placed(q)'
      <4>1. pc' = [pc EXCEPT ![p] = "push"] /\ pc[p] = "lock"
        BY <1>2, <2>2 DEF LockAndCreate, Goto
      <4> QED BY <1>a, <3>1, <4>1 DEF TypeOK, Placed, Publishing, Edging, Locals
    <3> QED BY <3>4, <3>5 DEF TypeInv
  <2> QED BY <2>1, <2>2
<1>3. CASE LockMaintenance(p)
  BY <1>3 DEF LockMaintenance, Goto, store, history, TypeInv, TypeOK, Placed, Publishing, Edging, Places
<1>4. CASE ReadHead(p)
  <2>1. CASE Leave(p)
    BY <1>4, <2>1, LeaveType DEF ReadHead, store, history, TypeInv, TypeOK
  <2>2. CASE ~Leave(p)
    <3>1. /\ loc' = [loc EXCEPT ![p].head = mem.branches[loc[p].br]]
          /\ pc' = [pc EXCEPT ![p] = "commit"] /\ pc[p] = "read"
          /\ mem.branches[loc[p].br] \in Commits
      BY <1>4, <1>b, <1>c, <2>2 DEF ReadHead, Goto
    <3>2. loc' \in [Procs -> Locals]
      BY <1>a, <1>b, <1>c, <3>1 DEF TypeOK, Locals
    <3>3. TypeOK'
      BY <1>4, <2>2, <3>2 DEF ReadHead, Goto, store, history, locks, TypeInv, TypeOK, Places
    <3>4. \A q \in Procs : Placed(q)'
      BY <1>a, <3>1 DEF TypeOK, Placed, Publishing, Edging, Locals
    <3> QED BY <3>3, <3>4 DEF TypeInv
  <2> QED BY <2>1, <2>2
<1>5. CASE Commit(p)
  <2>1. NewCommit \in Commits
    BY <1>5 DEF Commit, NewCommit
  <2>2. loc' = [loc EXCEPT ![p].commit = NewCommit] /\ loc[p].head \in Commits
    BY <1>5, <1>a DEF Commit, Placed
  <2>3. loc' \in [Procs -> Locals]
    BY <1>a, <2>1, <2>2 DEF TypeOK, Locals
  <2>4. TypeOK'
    BY <1>5, <1>a, <2>1, <2>2, <2>3
    DEF Commit, Goto, AfterCommit, history, locks, TypeOK, Places
  <2>5. \A q \in Procs : Placed(q)'
    <3>1. pc[p] = "commit" /\ \E place \in {"cas", "record"} : pc' = [pc EXCEPT ![p] = place]
      BY <1>5 DEF Commit, Goto, AfterCommit
    <3> QED BY <1>a, <2>1, <2>2, <3>1 DEF TypeOK, Placed, Publishing, Edging, Locals
  <2> QED BY <2>4, <2>5 DEF TypeInv
<1>6. CASE CommitNothing(p)
  <2>1. loc' = [loc EXCEPT ![p].commit = loc[p].head] /\ loc[p].head \in Commits
    BY <1>6, <1>a DEF CommitNothing, Placed
  <2>2. loc' \in [Procs -> Locals]
    BY <1>a, <2>1 DEF TypeOK, Locals
  <2>3. TypeOK'
    BY <1>6, <1>a, <2>2 DEF CommitNothing, Goto, AfterCommit, store, history, locks, TypeOK, Places
  <2>4. \A q \in Procs : Placed(q)'
    <3>1. pc[p] = "commit" /\ \E place \in {"cas", "record"} : pc' = [pc EXCEPT ![p] = place]
      BY <1>6 DEF CommitNothing, Goto, AfterCommit
    <3> QED BY <1>a, <2>1, <3>1 DEF TypeOK, Placed, Publishing, Edging, Locals
  <2> QED BY <2>3, <2>4 DEF TypeInv
<1>7. CASE CommitErr(p)
  BY <1>7, LeaveType DEF CommitErr, store, TypeInv, TypeOK
<1>8. CASE CompareAndSet(p)
  <2>1. CASE Leave(p)
    BY <1>8, <2>1, LeaveType DEF CompareAndSet, store, history, TypeInv, TypeOK
  <2>2. CASE ~Leave(p) /\ UNCHANGED loc
    BY <1>8, <2>2
    DEF CompareAndSet, Goto, store, history, locks, TypeInv, TypeOK, Placed, Publishing, Edging, Places
  <2>3. CASE ~Leave(p) /\ ~UNCHANGED loc
    <3>1. /\ loc' = [loc EXCEPT ![p].tries = @ + 1]
          /\ pc' = [pc EXCEPT ![p] = "read"] /\ pc[p] = "cas"
      BY <1>8, <2>3 DEF CompareAndSet, Goto
    <3>2. loc' \in [Procs -> Locals]
      <4>1. loc[p].tries + 1 \in Nat
        BY <1>c
      <4>2. [loc[p] EXCEPT !.tries = loc[p].tries + 1] \in Locals
        BY <1>a, <4>1 DEF Locals
      <4> QED BY <1>a, <3>1, <4>2 DEF TypeOK
    <3>3. TypeOK'
      BY <1>8, <1>a, <2>3, <3>1, <3>2 DEF CompareAndSet, store, history, locks, TypeOK, Places
    <3>4. \A q \in Procs : Placed(q)'
      BY <1>a, <3>1 DEF TypeOK, Placed, Publishing, Edging, Locals
    <3> QED BY <3>3, <3>4 DEF TypeInv
  <2> QED BY <2>1, <2>2, <2>3
<1>9. CASE RecordParents(p)
  <2>1. loc[p].head \in Commits /\ loc[p].commit \in Commits
    BY <1>9, <1>a DEF RecordParents, Placed, Publishing, Edging
  <2>2. mem' \in RefsType
    <3>1. CASE UNCHANGED mem
      BY <1>a, <3>1 DEF TypeOK
    <3>2. CASE ~UNCHANGED mem
      <4>1. mem' = [mem EXCEPT !.commits[loc[p].commit] = {loc[p].head}]
        BY <1>9, <3>2 DEF RecordParents
      <4> QED BY <1>a, <2>1, <4>1 DEF TypeOK, RefsType
    <3> QED BY <3>1, <3>2
  <2> QED
    BY <1>9, <2>2
    DEF RecordParents, Goto, store, history, locks, TypeInv, TypeOK, Placed, Publishing, Edging, Places
<1>22. CASE QueueParents(p)
  <2>1. loc[p].head \in Commits /\ loc[p].commit \in Commits
    BY <1>22, <1>a DEF QueueParents, Placed, Publishing, Edging
  <2>2. RecordCommit(loc[p].commit, {loc[p].head}) \in RefEdit
    BY <2>1, EditTypes
  <2>3. edits' \in Seq(RefEdit)
    BY <1>22, <1>a, <2>2 DEF QueueParents, TypeOK
  <2> QED
    BY <1>22, <2>3
    DEF QueueParents, Goto, store, history, locks, TypeInv, TypeOK, Placed, Publishing, Edging, Places
<1>23. CASE ReadBefore(p)
  <2>1. CASE Leave(p)
    BY <1>23, <2>1, LeaveType DEF ReadBefore, store, history, TypeInv, TypeOK
  <2>2. CASE ~Leave(p)
    <3>1. /\ loc' = [loc EXCEPT ![p].before = mem.branches[loc[p].br]]
          /\ pc' = [pc EXCEPT ![p] = "lock"]
          /\ mem.branches[loc[p].br] \in Commits
      BY <1>23, <1>b, <1>c, <2>2 DEF ReadBefore, Goto
    <3>2. loc' \in [Procs -> Locals]
      BY <1>a, <1>b, <1>c, <3>1 DEF TypeOK, Locals
    <3>3. TypeOK'
      BY <1>23, <2>2, <3>2 DEF ReadBefore, Goto, store, history, locks, TypeInv, TypeOK, Places
    <3>4. \A q \in Procs : Placed(q)'
      BY <1>a, <3>1 DEF TypeOK, Placed, Publishing, Edging, Locals
    <3> QED BY <3>3, <3>4 DEF TypeInv
  <2> QED BY <2>1, <2>2
<1>10. CASE MoveHead(p)
  <2>1. mem' \in RefsType
    BY <1>10, <1>a, <1>c DEF MoveHead, Placed, Publishing, Edging, TypeOK, RefsType
  <2> QED
    BY <1>10, <2>1
    DEF MoveHead, Goto, store, history, locks, TypeInv, TypeOK, Placed, Publishing, Edging, Places
<1>11. CASE PushEdit(p)
  <2>1. edits' \in Seq(RefEdit)
    BY <1>11, <1>a, <1>c, EditTypes DEF PushEdit, Placed, Publishing, Edging, TypeOK
  <2> QED
    BY <1>11, <2>1
    DEF PushEdit, Goto, store, history, locks, TypeInv, TypeOK, Placed, Publishing, Edging, Places
<1>12. CASE TakeEdits(p)
  <2>1. loc' = [loc EXCEPT ![p].batch = edits]
    BY <1>12 DEF TakeEdits
  <2>2. loc' \in [Procs -> Locals]
    BY <1>a, <2>1 DEF TypeOK, Locals
  <2>3. TypeOK'
    BY <1>12, <1>a, <2>2 DEF TakeEdits, Goto, store, history, locks, TypeOK, Places
  <2>4. \A q \in Procs : Placed(q)'
    BY <1>12, <1>a, <2>1 DEF TakeEdits, Goto, TypeOK, Placed, Publishing, Edging, Locals
  <2> QED BY <2>3, <2>4 DEF TypeInv
<1>13. CASE AppendFrame(p)
  <2>1. /\ loc' = [loc EXCEPT ![p].batch = Tail(@)]
        /\ loc[p].batch # << >>
        /\ Head(loc[p].batch) \in RefEdit /\ Tail(loc[p].batch) \in Seq(RefEdit)
    BY <1>13, <1>a, <1>c DEF AppendFrame, Placed
  <2>2. loc' \in [Procs -> Locals]
    BY <1>a, <2>1 DEF TypeOK, Locals
  <2>3. disk' \in RefsType
    BY <1>13, <1>a, <2>1, ApplyEditType DEF AppendFrame, TypeOK
  <2>4. TypeOK'
    BY <1>13, <1>a, <2>2, <2>3 DEF AppendFrame, Goto, store, history, TypeOK, Places
  <2>5. \A q \in Procs : Placed(q)'
    <3>1. loc'[p] = [loc[p] EXCEPT !.batch = Tail(loc[p].batch)]
      BY <1>a, <2>1 DEF TypeOK
    <3>2. /\ loc'[p].head = loc[p].head /\ loc'[p].commit = loc[p].commit
          /\ loc'[p].second = loc[p].second /\ loc'[p].op = loc[p].op
          /\ loc'[p].before = loc[p].before
          /\ loc'[p].batch = Tail(loc[p].batch)
      BY <1>a, <3>1 DEF Locals
    <3>3. \/ pc'[p] = "done"
          \/ pc'[p] = "append" /\ Tail(loc[p].batch) # << >>
      BY <1>13, <1>a DEF AppendFrame, Goto, TypeOK
    <3>4. Placed(p)'
      BY <1>13, <1>a, <3>2, <3>3 DEF AppendFrame, Placed, Publishing, Edging
    <3>5. \A q \in Procs : q # p => pc'[q] = pc[q] /\ loc'[q] = loc[q]
      BY <1>13, <1>a DEF AppendFrame, Goto, TypeOK
    <3> QED BY <1>a, <3>4, <3>5 DEF Placed
  <2> QED BY <2>4, <2>5 DEF TypeInv
<1>14. CASE AppendErr(p)
  BY <1>14, LeaveType DEF AppendErr, store, TypeInv, TypeOK
<1>21. CASE CompactErr(p)
  <2>1. loc[p].batch # << >>
    BY <1>21, <1>a DEF CompactErr, Placed
  <2>2. Head(loc[p].batch) \in RefEdit
    BY <1>c, <2>1
  <2>3. disk' \in RefsType
    BY <1>21, <1>a, <2>2, ApplyEditType DEF CompactErr, TypeOK
  <2> QED
    BY <1>21, <2>3, LeaveType DEF CompactErr, store, TypeInv, TypeOK
<1>15. CASE Return(p)
  <2>1. loc[p].commit \in Commits
    BY <1>15, <1>a DEF Return, Placed, Publishing, Edging
  <2>2. CASE loc[p].op = "merge" /\ ~loc[p].edged
    BY <1>15, <2>2
    DEF Return, Release, Goto, store, TypeInv, TypeOK, Placed, Publishing, Edging, Places
  <2>3. CASE ~(loc[p].op = "merge" /\ ~loc[p].edged)
    <3>1. Leave(p) /\ acked' \in [Branches -> SUBSET Commits]
      BY <1>15, <1>a, <1>c, <2>1, <2>3 DEF Return, TypeOK
    <3> QED
      BY <1>15, <3>1, LeaveType DEF Return, store, TypeInv, TypeOK
  <2> QED BY <2>2, <2>3
<1>16. CASE AddSecondParent(p)
  <2>1. /\ loc[p].commit \in Commits /\ loc[p].second \in Commits
        /\ BothParents(p) \subseteq Commits /\ loc[p].op = "merge" /\ loc[p].before \in Commits
    BY <1>16, <1>a DEF AddSecondParent, Placed, Edging, BothParents
  <2>2. CASE loc' = [loc EXCEPT ![p].edged = TRUE] /\ pc' = [pc EXCEPT ![p] = "take"] /\ UNCHANGED mem
    <3>1. loc' \in [Procs -> Locals]
      BY <1>a, <2>2 DEF TypeOK, Locals
    <3>2. TypeOK'
      BY <1>16, <1>a, <2>2, <3>1 DEF AddSecondParent, store, history, locks, TypeOK, Places
    <3>3. \A q \in Procs : Placed(q)'
      BY <1>a, <2>1, <2>2 DEF TypeOK, Placed, Publishing, Edging, Locals
    <3> QED BY <3>2, <3>3 DEF TypeInv
  <2>3. CASE UNCHANGED loc
    <3>1. PICK ps \in SUBSET Commits :
            mem' = [mem EXCEPT !.commits[loc[p].commit] = ps]
      <4>1. CASE mem.commits[loc[p].commit] = {}
        BY <1>16, <2>1, <4>1 DEF AddSecondParent
      <4>2. CASE mem.commits[loc[p].commit] # {}
        <5>1. mem.commits[loc[p].commit] \subseteq Commits /\ mem = [mem EXCEPT !.commits[loc[p].commit] = @]
          BY <1>a, <2>1 DEF TypeOK, RefsType
        <5> QED BY <1>16, <2>1, <4>2, <5>1 DEF AddSecondParent
      <4> QED BY <4>1, <4>2
    <3>2. mem' \in RefsType
      BY <1>a, <2>1, <3>1 DEF TypeOK, RefsType
    <3>3. \E place \in {"queueBoth", "queueSecond", "take"} : pc' = [pc EXCEPT ![p] = place]
      BY <1>16 DEF AddSecondParent, Goto
    <3>4. TypeOK'
      BY <1>16, <1>a, <2>3, <3>2, <3>3 DEF AddSecondParent, store, history, locks, TypeOK, Places
    <3>5. \A q \in Procs : Placed(q)'
      BY <1>a, <2>1, <2>3, <3>3 DEF TypeOK, Placed, Publishing, Edging
    <3> QED BY <3>4, <3>5 DEF TypeInv
  <2> QED BY <1>16, <2>2, <2>3 DEF AddSecondParent, Goto
<1>24. CASE QueueSecondParent(p)
  <2>1. /\ loc[p].commit \in Commits /\ loc[p].second \in Commits
        /\ BothParents(p) \subseteq Commits /\ loc[p].op = "merge" /\ loc[p].before \in Commits
    BY <1>24, <1>a DEF QueueSecondParent, Placed, Edging, BothParents
  <2>2. /\ loc' = [loc EXCEPT ![p].edged = TRUE] /\ pc' = [pc EXCEPT ![p] = "take"]
        /\ UNCHANGED <<store, mem, disk, locks, history>>
    BY <1>24 DEF QueueSecondParent, Goto
  <2>3. edits' \in Seq(RefEdit)
    <3>1. /\ AddParent(loc[p].commit, loc[p].second) \in RefEdit
          /\ RecordCommit(loc[p].commit, BothParents(p)) \in RefEdit
      BY <2>1, EditTypes
    <3> QED BY <1>24, <1>a, <3>1 DEF QueueSecondParent, TypeOK
  <2>4. loc' \in [Procs -> Locals]
    BY <1>a, <2>2 DEF TypeOK, Locals
  <2>5. TypeOK'
    BY <1>a, <2>2, <2>3, <2>4 DEF store, history, locks, TypeOK, Places
  <2>6. \A q \in Procs : Placed(q)'
    BY <1>a, <2>1, <2>2 DEF TypeOK, Placed, Publishing, Edging, Locals
  <2> QED BY <2>5, <2>6 DEF TypeInv
<1>17. CASE GcLockMaintenance(p)
  BY <1>17 DEF GcLockMaintenance, Goto, store, history, TypeInv, TypeOK, Placed, Publishing, Edging, Places
<1>18. CASE GcLockHeads(p)
  BY <1>18 DEF GcLockHeads, Goto, store, history, TypeInv, TypeOK, Placed, Publishing, Edging, Places
<1>19. CASE GcReadRoots(p)
  <2>1. /\ loc' = [loc EXCEPT ![p].roots = Roots(mem)]
        /\ pc' = [pc EXCEPT ![p] = "gcSweep"] /\ pc[p] = "gcRoots"
        /\ Roots(mem) \subseteq Commits
    BY <1>19, <1>a DEF GcReadRoots, Goto, Roots, TypeOK, RefsType
  <2>2. loc' \in [Procs -> Locals]
    BY <1>a, <2>1 DEF TypeOK, Locals
  <2>3. TypeOK'
    BY <1>19, <1>a, <2>1, <2>2 DEF GcReadRoots, store, history, locks, TypeOK, Places
  <2>4. \A q \in Procs : Placed(q)'
    BY <1>a, <2>1 DEF TypeOK, Placed, Publishing, Edging, Locals
  <2> QED BY <2>3, <2>4 DEF TypeInv
<1>20. CASE GcSweep(p)
  BY <1>20, LeaveType DEF GcSweep, history, TypeInv, TypeOK
<1> QED
  BY <1>1, <1>2, <1>3, <1>4, <1>5, <1>6, <1>7, <1>8, <1>9, <1>10, <1>11, <1>12,
     <1>13, <1>14, <1>15, <1>16, <1>17, <1>18, <1>19, <1>20, <1>21, <1>22, <1>23, <1>24 DEF Step

\* A client's call only places its own thread, with well-typed locals.
LEMMA TypeClient ==
  ASSUME TypeInv, NEW p \in Procs, Client(p)
  PROVE  TypeInv'
<1> USE BranchAssumption
<1>a. TypeOK /\ \A q \in Procs : Placed(q)
  BY DEF TypeInv
<1>1. ASSUME NEW kind, NEW place \in {"before", "lock", "maint", "read", "sethead", "gcMaint"},
             NEW l \in Locals,
             l.op = "merge" => place = "before" /\ l.second \in Commits,
             place = "sethead" => l.commit \in Commits,
             Start(p, kind, place, l)
      PROVE  TypeInv'
  <2>1. loc' = [loc EXCEPT ![p] = l] /\ pc' = [pc EXCEPT ![p] = place]
    BY <1>1 DEF Start, Goto
  <2>2. TypeOK'
    BY <1>1, <1>a, <2>1 DEF Start, store, locks, TypeOK, Places
  <2>3. \A q \in Procs : Placed(q)'
    BY <1>1, <1>a, <2>1 DEF TypeOK, Placed, Publishing, Edging
  <2> QED BY <2>2, <2>3 DEF TypeInv
<1>2. CASE \E b \in Branches : StartWrite(p, b)
  <2> PICK b \in Branches : StartWrite(p, b)
    BY <1>2
  <2> DEFINE l == [NoLocals EXCEPT !.op = "write", !.br = b]
  <2>1. l \in Locals /\ l.op = "write"
    BY NoLocalsType DEF NoLocals, Locals, AllKinds
  <2>2. Start(p, "write", "lock", l)
    BY DEF StartWrite
  <2> HIDE DEF l
  <2> QED BY <1>1, <2>1, <2>2
<1>3. CASE \E b \in Branches : StartFold(p, b)
  <2> PICK b \in Branches : StartFold(p, b)
    BY <1>3
  <2> DEFINE l == [NoLocals EXCEPT !.op = "fold", !.br = b]
  <2>1. l \in Locals /\ l.op = "fold"
    BY NoLocalsType DEF NoLocals, Locals, AllKinds
  <2>2. Start(p, "fold", "maint", l)
    BY DEF StartFold
  <2> HIDE DEF l
  <2> QED BY <1>1, <2>1, <2>2
<1>4. CASE \E b \in Branches : StartInvalidate(p, b)
  <2> PICK b \in Branches : StartInvalidate(p, b)
    BY <1>4
  <2> DEFINE l == [NoLocals EXCEPT !.op = "invalidate", !.br = b]
  <2>1. l \in Locals /\ l.op = "invalidate"
    BY NoLocalsType DEF NoLocals, Locals, AllKinds
  <2>2. Start(p, "invalidate", "read", l)
    BY DEF StartInvalidate
  <2> HIDE DEF l
  <2> QED BY <1>1, <2>1, <2>2
<1>5. CASE \E b, from \in Branches : StartCreate(p, b, from)
  <2> PICK b \in Branches, from \in Branches : StartCreate(p, b, from)
    BY <1>5
  <2> DEFINE l == [NoLocals EXCEPT !.op = "create", !.br = b, !.from = from]
  <2>1. l \in Locals /\ l.op = "create"
    BY NoLocalsType DEF NoLocals, Locals, AllKinds
  <2>2. Start(p, "create", "lock", l)
    BY DEF StartCreate
  <2> HIDE DEF l
  <2> QED BY <1>1, <2>1, <2>2
<1>6. CASE \E b, from \in Branches : StartMerge(p, b, from)
  <2> PICK b \in Branches, from \in Branches : StartMerge(p, b, from)
    BY <1>6
  <2> DEFINE l == [NoLocals EXCEPT !.op = "merge", !.br = b, !.from = from,
                                   !.second = mem.branches[from]]
  <2>0. mem.branches[from] \in Commits
    BY <1>a DEF StartMerge, TypeOK, RefsType
  <2>1. l \in Locals /\ l.second \in Commits
    BY <2>0, NoLocalsType DEF NoLocals, Locals, AllKinds
  <2>2. Start(p, "merge", "before", l)
    BY DEF StartMerge
  <2> HIDE DEF l
  <2> QED BY <1>1, <2>1, <2>2
<1>7. CASE \E b \in Branches : \E to \in KnownCommits : StartRewind(p, b, to)
  <2> PICK b \in Branches, to \in KnownCommits : StartRewind(p, b, to)
    BY <1>7
  <2> DEFINE l == [NoLocals EXCEPT !.op = "rewind", !.br = b, !.commit = to]
  <2>0. to \in Commits
    BY <1>a DEF KnownCommits, TypeOK
  <2>1. l \in Locals /\ l.op = "rewind" /\ l.commit \in Commits
    BY <2>0, NoLocalsType DEF NoLocals, Locals, AllKinds
  <2>2. Start(p, "rewind", "sethead", l)
    BY DEF StartRewind
  <2> HIDE DEF l
  <2> QED BY <1>1, <2>1, <2>2
<1>8. CASE StartGc(p)
  <2> DEFINE l == [NoLocals EXCEPT !.op = "gc"]
  <2>1. l \in Locals /\ l.op = "gc"
    BY NoLocalsType DEF NoLocals, Locals, AllKinds
  <2>2. Start(p, "gc", "gcMaint", l)
    BY <1>8 DEF StartGc
  <2> HIDE DEF l
  <2> QED BY <1>1, <2>1, <2>2
<1> QED
  BY <1>2, <1>3, <1>4, <1>5, <1>6, <1>7, <1>8 DEF Client

LEMMA TypeInit == Init => TypeInv
<1> SUFFICES ASSUME Init PROVE TypeInv
  OBVIOUS
<1>1. mem \in RefsType
  BY BranchAssumption DEF Init, Rooted, EmptyRefs, RefsType
<1>2. loc \in [Procs -> Locals]
  BY NoLocalsType DEF Init
<1>3. TypeOK
  BY <1>1, <1>2, BranchAssumption DEF Init, TypeOK, Places
<1>4. \A p \in Procs : Placed(p)
  BY DEF Init, NoLocals, Placed, Publishing, Edging
<1> QED BY <1>3, <1>4 DEF TypeInv

\* A restart comes back with what the disk holds, and with idle threads.
LEMMA TypeCrash == ASSUME TypeInv, Crash PROVE TypeInv'
<1>1. TypeOK'
  BY NoLocalsType DEF Crash, store, TypeInv, TypeOK, Places
<1>2. \A p \in Procs : Placed(p)'
  BY DEF Crash, NoLocals, Placed, Publishing, Edging
<1> QED BY <1>1, <1>2 DEF TypeInv

LEMMA TypeNext == TypeInv /\ [Next]_vars => TypeInv'
<1> SUFFICES ASSUME TypeInv, [Next]_vars PROVE TypeInv'
  OBVIOUS
<1>1. CASE Next
  BY <1>1, TypeClient, TypeStep, TypeCrash DEF Next
<1>2. CASE UNCHANGED vars
  BY <1>2 DEF vars, TypeInv, TypeOK, Placed
<1> QED BY <1>1, <1>2

\* Every step of every operation, an error, a crash and a restart included,
\* leaves the Loom's state well-formed: no head is read or published where the
\* code has none, whatever the number of threads, branches and commits.
THEOREM TypeCorrect == Spec => []TypeOK
<1>1. TypeInv => TypeOK
  BY DEF TypeInv
<1> QED BY <1>1, TypeInit, TypeNext, PTL DEF Spec

-----------------------------------------------------------------------------
(* The safety of the publication protocol when every client operation      *)
(* takes the locks (GuardedKinds): GuardedInv is inductive, through        *)
(* crashes and failed calls; and memory agrees with the disk until a call  *)
(* of the store fails.                                                     *)

\* The clients of this instance call only operations that take the locks.
KindsGuarded == Kinds \subseteq GuardedKinds

-----------------------------------------------------------------------------

\* A step of thread p leaves every other thread where it is.
LEMMA OthersKeep ==
  ASSUME TypeOK, NEW p \in Procs, Client(p) \/ Step(p), NEW q \in Procs, q # p
  PROVE  pc'[q] = pc[q] /\ loc'[q] = loc[q]
<1>1. CASE Client(p)
  BY <1>1
  DEF Client, StartWrite, StartFold, StartInvalidate, StartCreate, StartMerge,
      StartRewind, StartGc, Start, Goto, TypeOK
<1>2. CASE Step(p)
  <2>1. CASE \/ ReadBefore(p) \/ LockAndRead(p) \/ LockAndCreate(p) \/ LockMaintenance(p)
             \/ ReadHead(p)
    BY <2>1 DEF ReadBefore, LockAndRead, LockAndCreate, LockMaintenance, ReadHead, Leave, Goto, TypeOK
  <2>2. CASE Commit(p) \/ CommitNothing(p) \/ CommitErr(p) \/ CompareAndSet(p)
    BY <2>2 DEF Commit, CommitNothing, CommitErr, CompareAndSet, Leave, Goto, TypeOK
  <2>3. CASE RecordParents(p) \/ QueueParents(p) \/ MoveHead(p) \/ PushEdit(p) \/ TakeEdits(p)
    BY <2>3 DEF RecordParents, QueueParents, MoveHead, PushEdit, TakeEdits, Leave, Goto, TypeOK
  <2>4. CASE \/ AppendFrame(p) \/ AppendErr(p) \/ CompactErr(p) \/ Return(p)
             \/ AddSecondParent(p) \/ QueueSecondParent(p)
    BY <2>4 DEF AppendFrame, AppendErr, CompactErr, Return, AddSecondParent, QueueSecondParent, Leave, Goto, TypeOK
  <2>5. CASE GcLockMaintenance(p) \/ GcLockHeads(p) \/ GcReadRoots(p) \/ GcSweep(p)
    BY <2>5 DEF GcLockMaintenance, GcLockHeads, GcReadRoots, GcSweep, Leave, Goto, TypeOK
  <2> QED BY <1>2, <2>1, <2>2, <2>3, <2>4, <2>5 DEF Step
<1> QED BY <1>1, <1>2

-----------------------------------------------------------------------------
(* The locks. *)

\* An operation that ends gives up what it held, and disturbs no other thread.
LEMMA LockLeave ==
  ASSUME TypeInv, LockInv, NEW p \in Procs, Leave(p)
  PROVE  LockInv'
<1>1. pc'[p] = "idle" /\ loc'[p] = NoLocals
  BY DEF Leave, TypeInv, TypeOK
<1>2. \A q \in Procs : q # p => pc'[q] = pc[q] /\ loc'[q] = loc[q]
  BY DEF Leave, TypeInv, TypeOK
<1>3. \A q \in Procs : OpAt(q)'
  BY <1>1, <1>2 DEF LockInv, OpAt, Publishing
<1>4. \A q \in Procs : Holds(q)'
  BY <1>1, <1>2 DEF Leave, Release, LockInv, Holds, Publishing
<1>5. maint' # Free => readers' = {}
  BY DEF Leave, Release, LockInv
<1> QED BY <1>3, <1>4, <1>5 DEF LockInv

\* What a step of p has to show: the others keep their locks, and p holds what
\* its new place calls for.
LEMMA LockFrame ==
  ASSUME LockInv, NEW p \in Procs,
         \A q \in Procs : q # p => pc'[q] = pc[q] /\ loc'[q] = loc[q],
         \A q \in Procs : q # p => /\ wlock = q => wlock' = q
                                   /\ maint = q => maint' = q
                                   /\ q \in readers => q \in readers',
         OpAt(p)', Holds(p)', maint' # Free => readers' = {}
  PROVE  LockInv'
  BY DEF LockInv, OpAt, Holds, Publishing

\* No step, of any guarded operation, is taken at a place without its locks.
LEMMA LockStep ==
  ASSUME TypeInv, LockInv, NEW p \in Procs, Step(p)
  PROVE  LockInv'
<1> USE BranchAssumption
<1>a. TypeOK /\ OpAt(p) /\ Holds(p) /\ (maint # Free => readers = {}) /\ loc[p] \in Locals
  BY DEF TypeInv, TypeOK, LockInv
<1>b. \A q \in Procs : q # p => pc'[q] = pc[q] /\ loc'[q] = loc[q]
  BY <1>a, OthersKeep
<1>1. CASE LockAndRead(p)
  <2>1. CASE Leave(p)
    BY <2>1, LockLeave
  <2>2. CASE ~Leave(p)
    <3>1. /\ loc' = [loc EXCEPT ![p].head = mem.branches[loc[p].br]]
          /\ pc' = [pc EXCEPT ![p] = "commit"] /\ wlock = Free /\ wlock' = p
          /\ UNCHANGED <<maint, readers>> /\ loc[p].op = "write"
      BY <1>1, <1>a, <2>2 DEF LockAndRead, Goto, OpAt
    <3>2. OpAt(p)' /\ Holds(p)'
      BY <1>a, <3>1 DEF TypeOK, OpAt, Holds, Publishing, Locals
    <3> QED BY <1>a, <1>b, <3>1, <3>2, LockFrame
  <2> QED BY <2>1, <2>2
<1>2. CASE LockAndCreate(p)
  <2>1. CASE Leave(p)
    BY <2>1, LockLeave
  <2>2. CASE ~Leave(p)
    <3>1. /\ loc' = [loc EXCEPT ![p].commit = mem.branches[loc[p].from]]
          /\ pc' = [pc EXCEPT ![p] = "push"] /\ wlock = Free /\ wlock' = p
          /\ UNCHANGED <<maint, readers>> /\ loc[p].op = "create"
      BY <1>2, <1>a, <2>2 DEF LockAndCreate, Goto, OpAt
    <3>2. OpAt(p)' /\ Holds(p)'
      BY <1>a, <3>1 DEF TypeOK, OpAt, Holds, Publishing, Locals
    <3> QED BY <1>a, <1>b, <3>1, <3>2, LockFrame
  <2> QED BY <2>1, <2>2
<1>3. CASE LockMaintenance(p)
  <2>1. OpAt(p)' /\ Holds(p)'
    BY <1>3, <1>a DEF LockMaintenance, Goto, TypeOK, OpAt, Holds, Publishing
  <2> QED BY <1>3, <1>a, <1>b, <2>1, LockFrame DEF LockMaintenance
<1>4. CASE ReadHead(p)
  <2>1. CASE Leave(p)
    BY <2>1, LockLeave
  <2>2. CASE ~Leave(p)
    <3>1. /\ loc' = [loc EXCEPT ![p].head = mem.branches[loc[p].br]]
          /\ pc' = [pc EXCEPT ![p] = "commit"]
          /\ UNCHANGED <<wlock, maint, readers>> /\ loc[p].op = "fold" /\ pc[p] = "read"
      BY <1>4, <1>a, <2>2 DEF ReadHead, Goto, OpAt, locks
    <3>2. OpAt(p)' /\ Holds(p)'
      BY <1>a, <3>1 DEF TypeOK, OpAt, Holds, Publishing, Locals
    <3> QED BY <1>a, <1>b, <3>1, <3>2, LockFrame
  <2> QED BY <2>1, <2>2
<1>5. CASE Commit(p) \/ CommitNothing(p)
  <2>1. PICK c : loc' = [loc EXCEPT ![p].commit = c]
    BY <1>5 DEF Commit, CommitNothing
  <2>2. /\ pc[p] = "commit" /\ pc' = [pc EXCEPT ![p] = AfterCommit(p)]
        /\ UNCHANGED <<wlock, maint, readers>>
    BY <1>5 DEF Commit, CommitNothing, Goto, locks
  <2>3. loc'[p].op = loc[p].op
    BY <1>a, <2>1 DEF TypeOK, Locals
  <2>4. OpAt(p)' /\ Holds(p)'
    BY <1>a, <2>2, <2>3 DEF AfterCommit, TypeOK, OpAt, Holds, Publishing
  <2> QED BY <1>a, <1>b, <2>2, <2>4, LockFrame
<1>6. CASE CommitErr(p) \/ AppendErr(p) \/ CompactErr(p) \/ GcSweep(p)
  BY <1>6, LockLeave DEF CommitErr, AppendErr, CompactErr, GcSweep
<1>7. CASE CompareAndSet(p)
  <2>1. CASE Leave(p)
    BY <2>1, LockLeave
  <2>2. CASE ~Leave(p) /\ UNCHANGED loc
    <3>1. OpAt(p)' /\ Holds(p)'
      BY <1>7, <1>a, <2>2 DEF CompareAndSet, Goto, TypeOK, locks, OpAt, Holds, Publishing
    <3> QED BY <1>7, <1>a, <1>b, <2>2, <3>1, LockFrame DEF CompareAndSet, locks
  <2>3. CASE ~Leave(p) /\ ~UNCHANGED loc
    <3>1. /\ loc' = [loc EXCEPT ![p].tries = @ + 1] /\ pc' = [pc EXCEPT ![p] = "read"]
          /\ UNCHANGED <<wlock, maint, readers>> /\ loc[p].op = "fold" /\ pc[p] = "cas"
      BY <1>7, <1>a, <2>3 DEF CompareAndSet, Goto, OpAt, locks
    <3>2. loc'[p].op = loc[p].op
      BY <1>a, <3>1 DEF TypeOK, Locals
    <3>3. OpAt(p)' /\ Holds(p)'
      BY <1>a, <3>1, <3>2 DEF TypeOK, OpAt, Holds, Publishing
    <3> QED BY <1>a, <1>b, <3>1, <3>3, LockFrame
  <2> QED BY <2>1, <2>2, <2>3
<1>8. CASE RecordParents(p) \/ QueueParents(p) \/ MoveHead(p) \/ PushEdit(p)
  <2>1. /\ pc[p] \in Publishing /\ pc'[p] \in Publishing
        /\ UNCHANGED <<loc, wlock, maint, readers>>
    BY <1>8, <1>a DEF RecordParents, QueueParents, MoveHead, PushEdit, Goto, TypeOK, locks, Publishing
  <2>2. OpAt(p)' /\ Holds(p)'
    BY <1>a, <2>1 DEF OpAt, Holds, Publishing
  <2> QED BY <1>a, <1>b, <2>1, <2>2, LockFrame
<1>9. CASE TakeEdits(p) \/ AppendFrame(p)
  <2>1. PICK es : loc' = [loc EXCEPT ![p].batch = es]
    BY <1>9 DEF TakeEdits, AppendFrame
  <2>2. loc'[p].op = loc[p].op
    BY <1>a, <2>1 DEF TypeOK, Locals
  <2>3. /\ pc[p] \in Publishing /\ pc'[p] \in Publishing
        /\ UNCHANGED <<wlock, maint, readers>>
    BY <1>9, <1>a DEF TakeEdits, AppendFrame, Goto, TypeOK, locks, Publishing
  <2>4. OpAt(p)' /\ Holds(p)'
    BY <1>a, <2>2, <2>3 DEF OpAt, Holds, Publishing
  <2> QED BY <1>a, <1>b, <2>3, <2>4, LockFrame
<1>10. CASE Return(p)
  BY <1>10, <1>a, LockLeave DEF Return, OpAt, Publishing
<1>11. CASE ReadBefore(p) \/ AddSecondParent(p) \/ QueueSecondParent(p)
  BY <1>11, <1>a DEF ReadBefore, AddSecondParent, QueueSecondParent, OpAt
<1>12. CASE GcLockMaintenance(p)
  <2>1. OpAt(p)' /\ Holds(p)'
    BY <1>12, <1>a DEF GcLockMaintenance, Goto, TypeOK, OpAt, Holds, Publishing
  <2> QED BY <1>12, <1>a, <1>b, <2>1, LockFrame DEF GcLockMaintenance
<1>13. CASE GcLockHeads(p)
  <2>1. OpAt(p)' /\ Holds(p)'
    BY <1>13, <1>a DEF GcLockHeads, Goto, TypeOK, OpAt, Holds, Publishing
  <2> QED BY <1>13, <1>a, <1>b, <2>1, LockFrame DEF GcLockHeads
<1>14. CASE GcReadRoots(p)
  <2>1. OpAt(p)' /\ Holds(p)'
    BY <1>14, <1>a DEF GcReadRoots, Goto, TypeOK, OpAt, Holds, Publishing, locks
  <2> QED BY <1>14, <1>a, <1>b, <2>1, LockFrame DEF GcReadRoots, locks
<1> QED
  BY <1>1, <1>2, <1>3, <1>4, <1>5, <1>6, <1>7, <1>8, <1>9, <1>10, <1>11, <1>12,
     <1>13, <1>14 DEF Step

\* A guarded client call starts outside every lock and touches only its thread.
LEMMA GuardedCall ==
  ASSUME TypeOK, KindsGuarded, NEW p \in Procs, Client(p)
  PROVE  /\ pc[p] = "idle"
         /\ \/ pc'[p] = "lock" /\ loc'[p].op \in {"write", "create"}
            \/ pc'[p] = "maint" /\ loc'[p].op = "fold"
            \/ pc'[p] = "gcMaint"
         /\ UNCHANGED <<manifests, made, chain, mem, disk, edits, wlock, readers,
                        maint, slock, acked>>
<1>1. CASE \E b \in Branches : StartWrite(p, b)
  BY <1>1 DEF StartWrite, Start, Goto, NoLocals, TypeOK, store, locks
<1>2. CASE \E b \in Branches : StartFold(p, b)
  BY <1>2 DEF StartFold, Start, Goto, NoLocals, TypeOK, store, locks
<1>3. CASE \E b, from \in Branches : StartCreate(p, b, from)
  BY <1>3 DEF StartCreate, Start, Goto, NoLocals, TypeOK, store, locks
<1>4. CASE StartGc(p)
  BY <1>4 DEF StartGc, Start, Goto, NoLocals, TypeOK, store, locks
<1>5. ASSUME NEW b, NEW x, StartInvalidate(p, b) \/ StartMerge(p, b, x) \/ StartRewind(p, b, x)
      PROVE  FALSE
  BY <1>5 DEF StartInvalidate, StartMerge, StartRewind, Start, KindsGuarded, GuardedKinds
<1> QED BY <1>1, <1>2, <1>3, <1>4, <1>5 DEF Client

LEMMA LockClient ==
  ASSUME TypeInv, LockInv, KindsGuarded, NEW p \in Procs, Client(p)
  PROVE  LockInv'
<1>1. TypeOK /\ (maint # Free => readers = {})
  BY DEF TypeInv, LockInv
<1>2. \A q \in Procs : q # p => pc'[q] = pc[q] /\ loc'[q] = loc[q]
  BY <1>1, OthersKeep
<1>3. OpAt(p)' /\ Holds(p)'
  BY <1>1, GuardedCall DEF OpAt, Holds, Publishing
<1> QED BY <1>1, <1>2, <1>3, GuardedCall, LockFrame

-----------------------------------------------------------------------------
(* The commit graph. *)

\* A new commit extends the chain of the head it was forked from; every other
\* commit's history is what it was.
LEMMA CommitChain ==
  ASSUME TypeInv, ChainInv, NEW p \in Procs, Commit(p)
  PROVE  /\ ChainInv'
         /\ NewCommit \in Commits \ made
         /\ \A c \in made : chain'[c] = chain[c]
         /\ manifests' = manifests \cup {NewCommit}
         /\ chain'[NewCommit] = chain[loc[p].head] \cup {NewCommit}
         /\ loc[p].head \in chain'[NewCommit]
<1>1. NewCommit \in Commits \ made
  BY DEF Commit, NewCommit
<1>2. /\ loc[p].head \in made /\ made' = made \cup {NewCommit}
      /\ manifests' = manifests \cup {NewCommit} /\ made \subseteq Commits
      /\ chain \in [Commits -> SUBSET Commits]
      /\ chain' = [chain EXCEPT ![NewCommit] = chain[loc[p].head] \cup {NewCommit}]
  BY DEF Commit, TypeInv, TypeOK
<1> HIDE DEF NewCommit
<1>3. /\ \A c \in Commits : c # NewCommit => chain'[c] = chain[c]
      /\ chain'[NewCommit] = chain[loc[p].head] \cup {NewCommit}
  BY <1>1, <1>2
<1>4. loc[p].head \in chain[loc[p].head]
  BY <1>2 DEF ChainInv
<1>5. ChainInv'
  <2>1. \A c \in Commits : chain'[c] \subseteq made'
    BY <1>1, <1>2, <1>3 DEF ChainInv
  <2>2. \A c \in made' : c \in chain'[c]
    BY <1>1, <1>2, <1>3 DEF ChainInv
  <2>3. ASSUME NEW c \in Commits, NEW d \in chain'[c] PROVE chain'[d] \subseteq chain'[c]
    <3>1. CASE c # NewCommit
      BY <1>1, <1>2, <1>3, <2>3, <3>1 DEF ChainInv
    <3>2. CASE c = NewCommit /\ d # NewCommit
      BY <1>1, <1>2, <1>3, <2>3, <3>2 DEF ChainInv
    <3>3. CASE d = NewCommit
      BY <1>1, <1>2, <1>3, <2>3, <3>3 DEF ChainInv
    <3> QED BY <3>1, <3>2, <3>3
  <2> QED BY <2>1, <2>2, <2>3 DEF ChainInv
<1> QED BY <1>1, <1>2, <1>3, <1>4, <1>5

-----------------------------------------------------------------------------
(* Heads, queue and commits in flight. *)

Core == ChainInv /\ HeadInv /\ QueueInv /\ (\A p \in Procs : Flight(p)) /\ AckedDurable
GInv == TypeInv /\ KindsGuarded /\ LockInv /\ Core

\* A thread that does not hold the head-mutation lock depends only on what the
\* pager keeps for a fold that has committed and not yet compared.
LEMMA FlightAside ==
  ASSUME GInv, NEW q \in Procs, wlock # q, pc'[q] = pc[q], loc'[q] = loc[q],
         pc[q] = "cas" => /\ loc[q].commit \in manifests'
                          /\ loc[q].head \in chain'[loc[q].commit]
  PROVE  Flight(q)'
<1>1. Flight(q) /\ Holds(q) /\ OpAt(q)
  BY DEF GInv, Core, LockInv
<1> QED BY <1>1 DEF Flight, Holds, OpAt, Publishing

\* A step of p that leaves refs, queue and pager alone needs only its own Flight.
LEMMA QuietFrame ==
  ASSUME GInv, NEW p \in Procs,
         \A q \in Procs : q # p => pc'[q] = pc[q] /\ loc'[q] = loc[q],
         UNCHANGED <<manifests, made, chain, mem, disk, edits, acked>>,
         wlock' = wlock \/ wlock \in {Free, p},
         pc[p] \notin {"sethead", "push", "take"},
         Flight(p)'
  PROVE  Core'
<1>1. \A q \in Procs : q # p => Flight(q)'
  BY DEF GInv, Core, Flight
<1>2. QueueInv'
  <2>1. wlock \in Procs \cup {Free}
    BY DEF GInv, TypeInv, TypeOK
  <2> QED BY <2>1 DEF GInv, Core, QueueInv
<1>3. ChainInv' /\ HeadInv' /\ AckedDurable'
  BY DEF GInv, Core, ChainInv, HeadInv, AckedDurable
<1> QED BY <1>1, <1>2, <1>3 DEF Core

\* An operation that ends leaves nothing in flight.
LEMMA LeaveQuiet ==
  ASSUME GInv, NEW p \in Procs, Leave(p), pc[p] \notin {"sethead", "push", "take"},
         UNCHANGED <<manifests, made, chain, mem, disk, edits, acked>>
  PROVE  Core'
<1>1. \A q \in Procs : q # p => pc'[q] = pc[q] /\ loc'[q] = loc[q]
  BY DEF Leave, GInv, TypeInv, TypeOK
<1>2. pc'[p] = "idle"
  BY DEF Leave, GInv, TypeInv, TypeOK
<1>3. Flight(p)'
  BY <1>2 DEF Flight, Publishing
<1>4. wlock' = wlock \/ wlock \in {Free, p}
  BY DEF Leave, Release
<1> QED BY <1>1, <1>3, <1>4, QuietFrame

\* The steps that only take locks, read, give up or fail.
LEMMA CoreQuiet ==
  ASSUME GInv, NEW p \in Procs,
         \/ LockAndRead(p) \/ LockMaintenance(p) \/ ReadHead(p) \/ CommitNothing(p)
         \/ CommitErr(p) \/ CompareAndSet(p) \/ AppendErr(p)
         \/ GcLockMaintenance(p) \/ GcLockHeads(p) \/ GcReadRoots(p)
  PROVE  Core'
<1>a. /\ TypeOK /\ OpAt(p) /\ Holds(p) /\ Flight(p) /\ loc[p] \in Locals
      /\ loc[p].br \in Branches /\ ChainInv /\ manifests \subseteq made
  BY DEF GInv, Core, LockInv, TypeInv, TypeOK, Locals
<1>b. \A q \in Procs : q # p => pc'[q] = pc[q] /\ loc'[q] = loc[q]
  BY <1>a, OthersKeep DEF Step
<1>c. /\ UNCHANGED <<manifests, made, chain, mem, disk, edits, acked>>
      /\ wlock' = wlock \/ wlock \in {Free, p}
      /\ pc[p] \notin {"sethead", "push", "take"}
  BY DEF LockAndRead, LockMaintenance, ReadHead, CommitNothing, CommitErr, CompareAndSet,
         AppendErr, GcLockMaintenance, GcLockHeads, GcReadRoots, Leave, Release,
         store, locks, history
<1>1. CASE Leave(p)
  BY <1>1, <1>c, LeaveQuiet
<1>2. CASE ~Leave(p)
  <2>1. SUFFICES Flight(p)'
    BY <1>b, <1>c, QuietFrame
  <2>2. CASE LockAndRead(p) \/ ReadHead(p)
    <3>1. /\ loc' = [loc EXCEPT ![p].head = mem.branches[loc[p].br]]
          /\ pc' = [pc EXCEPT ![p] = "commit"]
          /\ mem.branches[loc[p].br] # Null
      BY <1>2, <2>2 DEF LockAndRead, ReadHead, Goto
    <3>2. /\ loc'[p].head = mem.branches[loc[p].br] /\ loc'[p].br = loc[p].br
          /\ pc'[p] = "commit"
      BY <1>a, <3>1 DEF TypeOK, Locals
    <3> QED BY <1>c, <3>1, <3>2 DEF Flight, Publishing
  <2>3. CASE CommitNothing(p)
    <3>1. /\ loc' = [loc EXCEPT ![p].commit = loc[p].head] /\ pc'[p] \in {"cas", "record"}
          /\ loc[p].head \in manifests /\ loc[p].head # Null
          /\ pc'[p] = "record" => mem.branches[loc[p].br] = loc[p].head
      BY <1>a, <2>3 DEF CommitNothing, Goto, AfterCommit, TypeOK, OpAt, Flight
    <3>2. /\ loc'[p].head = loc[p].head /\ loc'[p].commit = loc[p].head
          /\ loc'[p].br = loc[p].br
      BY <1>a, <3>1 DEF TypeOK, Locals
    <3>3. loc[p].head \in chain[loc[p].head]
      BY <1>a, <3>1 DEF ChainInv
    <3> QED BY <1>c, <3>1, <3>2, <3>3 DEF Flight, Publishing
  <2>4. CASE CompareAndSet(p)
    <3>1. CASE UNCHANGED loc
      <4>1. wlock = Free /\ pc[p] = "cas"
        BY <2>4 DEF CompareAndSet
      <4>2. pc'[p] \in {"record", "read"}
        BY <1>a, <1>2, <2>4 DEF CompareAndSet, Goto, TypeOK
      <4>3. pc'[p] = "record" => mem.branches[loc[p].br] = loc[p].head
        BY <1>a, <1>2, <2>4 DEF CompareAndSet, Goto, TypeOK
      <4> QED BY <1>a, <1>c, <3>1, <4>1, <4>2, <4>3 DEF Flight, Publishing
    <3>2. CASE ~UNCHANGED loc
      <4>1. pc'[p] = "read"
        BY <1>a, <1>2, <2>4, <3>2 DEF CompareAndSet, Goto, TypeOK
      <4> QED BY <4>1 DEF Flight, Publishing
    <3> QED BY <3>1, <3>2
  <2>5. CASE LockMaintenance(p) \/ GcLockMaintenance(p) \/ GcLockHeads(p)
    <3>1. pc'[p] \in {"read", "gcLock", "gcRoots"}
      BY <1>a, <2>5 DEF LockMaintenance, GcLockMaintenance, GcLockHeads, Goto, TypeOK
    <3> QED BY <3>1 DEF Flight, Publishing
  <2>6. CASE GcReadRoots(p)
    <3>1. loc'[p].roots = Roots(mem) /\ pc'[p] = "gcSweep"
      BY <1>a, <2>6 DEF GcReadRoots, Goto, TypeOK, Locals
    <3>2. \A b \in Branches : mem.branches[b] # Null => mem.branches[b] \in Roots(mem)
      BY DEF Roots
    <3> QED BY <1>c, <3>1, <3>2 DEF Flight, Publishing
  <2> QED BY <1>2, <2>2, <2>3, <2>4, <2>5, <2>6 DEF CommitErr, AppendErr
<1> QED BY <1>1, <1>2

\* While p holds the head-mutation lock and the pager is left alone, p's own
\* Flight is the only one to re-establish.
LEMMA HolderFrame ==
  ASSUME GInv, NEW p \in Procs, wlock \in {Free, p},
         \A q \in Procs : q # p => pc'[q] = pc[q] /\ loc'[q] = loc[q],
         UNCHANGED <<manifests, chain>>, Flight(p)'
  PROVE  \A q \in Procs : Flight(q)'
<1> SUFFICES ASSUME NEW q \in Procs, q # p PROVE Flight(q)'
  OBVIOUS
<1>1. wlock # q
  BY BranchAssumption
<1>2. pc[q] = "cas" => loc[q].commit \in manifests /\ loc[q].head \in chain[loc[q].commit]
  BY DEF GInv, Core, Flight
<1> QED BY <1>1, <1>2, FlightAside

\* A branch is created at the head of another, under the lock.
LEMMA CoreCreate ==
  ASSUME GInv, NEW p \in Procs, LockAndCreate(p)
  PROVE  Core'
<1>a. /\ TypeOK /\ OpAt(p) /\ Flight(p) /\ loc[p] \in Locals
      /\ loc[p].br \in Branches /\ loc[p].from \in Branches /\ ChainInv /\ HeadInv
      /\ mem.branches \in [Branches -> Commits \cup {Null}]
  BY DEF GInv, Core, LockInv, TypeInv, TypeOK, Locals, RefsType
<1>b. \A q \in Procs : q # p => pc'[q] = pc[q] /\ loc'[q] = loc[q]
  BY <1>a, OthersKeep DEF Step
<1>1. CASE Leave(p) /\ UNCHANGED mem
  BY <1>1, LeaveQuiet DEF LockAndCreate, store, history
<1>2. CASE ~(Leave(p) /\ UNCHANGED mem)
  <2>1. /\ wlock = Free /\ wlock' = p
        /\ mem.branches[loc[p].from] # Null /\ mem.branches[loc[p].br] = Null
        /\ mem' = [mem EXCEPT !.branches[loc[p].br] = mem.branches[loc[p].from]]
        /\ loc' = [loc EXCEPT ![p].commit = mem.branches[loc[p].from]]
        /\ pc' = [pc EXCEPT ![p] = "push"]
        /\ UNCHANGED <<manifests, made, chain, disk, edits, acked>>
    BY <1>2 DEF LockAndCreate, Goto, store, history
  <2>2. /\ loc'[p].commit = mem.branches[loc[p].from] /\ loc'[p].br = loc[p].br
        /\ pc'[p] = "push"
    BY <1>a, <2>1 DEF TypeOK, Locals
  <2>3. /\ mem'.branches[loc[p].br] = mem.branches[loc[p].from]
        /\ \A b \in Branches : b # loc[p].br => mem'.branches[b] = mem.branches[b]
    BY <1>a, <2>1 DEF TypeOK, RefsType
  <2>4. edits = << >>
    BY <2>1 DEF GInv, Core, QueueInv
  <2>5. Flight(p)'
    BY <1>a, <2>1, <2>2, <2>3, <2>4 DEF Flight, Publishing, HeadInv, OwnEdits
  <2>6. \A q \in Procs : Flight(q)'
    BY <1>b, <2>1, <2>5, HolderFrame
  <2>7. HeadInv'
    BY <1>a, <2>1, <2>3 DEF HeadInv
  <2>8. QueueInv'
    BY <2>1, <2>4 DEF QueueInv
  <2>9. ChainInv' /\ AckedDurable'
    BY <2>1 DEF GInv, Core, ChainInv, AckedDurable
  <2> QED BY <2>6, <2>7, <2>8, <2>9 DEF Core
<1> QED BY <1>1, <1>2

\* A commit is new to the pager and to nobody's refs.
LEMMA CoreCommit ==
  ASSUME GInv, NEW p \in Procs, Commit(p)
  PROVE  Core'
<1>a. /\ TypeOK /\ OpAt(p) /\ Holds(p) /\ Flight(p) /\ loc[p] \in Locals
      /\ ChainInv /\ HeadInv /\ AckedDurable /\ QueueInv
      /\ manifests \subseteq made /\ TypeInv
  BY DEF GInv, Core, LockInv, TypeInv, TypeOK
<1>b. \A q \in Procs : q # p => pc'[q] = pc[q] /\ loc'[q] = loc[q]
  BY <1>a, OthersKeep DEF Step
<1>1. /\ ChainInv' /\ NewCommit \in Commits \ made
      /\ \A c \in made : chain'[c] = chain[c]
      /\ manifests' = manifests \cup {NewCommit}
      /\ loc[p].head \in chain'[NewCommit]
  BY <1>a, CommitChain
<1>2. /\ pc[p] = "commit" /\ pc'[p] \in {"cas", "record"}
      /\ loc' = [loc EXCEPT ![p].commit = NewCommit]
      /\ UNCHANGED <<mem, disk, edits, wlock, acked>>
      /\ pc'[p] = "record" => loc[p].op = "write"
  BY <1>a DEF Commit, Goto, AfterCommit, TypeOK, OpAt, locks, history
<1> HIDE DEF NewCommit
<1>3. /\ loc'[p].commit = NewCommit /\ loc'[p].head = loc[p].head
      /\ loc'[p].br = loc[p].br /\ loc'[p].op = loc[p].op
  BY <1>a, <1>2 DEF TypeOK, Locals
<1>4. Flight(p)'
  BY <1>a, <1>1, <1>2, <1>3 DEF Flight, Publishing
<1>5. ASSUME NEW q \in Procs, q # p PROVE Flight(q)'
  <2>1. Flight(q)
    BY DEF GInv, Core
  <2> QED BY <1>a, <1>b, <1>1, <1>2, <1>5, <2>1 DEF Flight, Publishing
<1>6. HeadInv'
  BY <1>a, <1>1, <1>2 DEF HeadInv
<1>7. AckedDurable'
  BY <1>a, <1>1, <1>2 DEF HeadInv, AckedDurable
<1>8. QueueInv'
  <2>1. wlock \in Procs \cup {Free}
    BY <1>a DEF TypeOK
  <2> QED BY <1>a, <1>b, <1>2, <2>1 DEF QueueInv
<1> QED BY <1>1, <1>4, <1>5, <1>6, <1>7, <1>8 DEF Core

\* Recording parents moves no head, and finds the queue empty.
LEMMA CoreRecord ==
  ASSUME GInv, NEW p \in Procs, RecordParents(p)
  PROVE  Core'
<1>a. /\ TypeOK /\ Holds(p) /\ Flight(p) /\ wlock \in Procs \cup {Free} /\ pc[p] = "record"
      /\ wlock = p /\ edits = << >>
  BY DEF GInv, Core, LockInv, TypeInv, TypeOK, RecordParents, QueueInv, Holds, Publishing
<1>b. \A q \in Procs : q # p => pc'[q] = pc[q] /\ loc'[q] = loc[q]
  BY <1>a, OthersKeep DEF Step
<1>1. /\ pc'[p] \in {"queue", "sethead"} /\ mem'.branches = mem.branches
      /\ UNCHANGED <<manifests, made, chain, disk, edits, loc, wlock, acked>>
  BY <1>a DEF RecordParents, Goto, TypeOK, RefsType, store, locks, history
<1>2. OwnEdits(edits', loc[p].br, loc[p].commit)
  BY <1>a, <1>1 DEF OwnEdits
<1>3. Flight(p)'
  BY <1>a, <1>1, <1>2 DEF Flight, Publishing
<1>4. \A q \in Procs : Flight(q)'
  BY <1>a, <1>b, <1>1, <1>3, HolderFrame
<1>5. ChainInv' /\ HeadInv' /\ AckedDurable'
  BY <1>1 DEF GInv, Core, ChainInv, HeadInv, AckedDurable
<1>6. QueueInv'
  BY <1>a, <1>1 DEF QueueInv
<1> QED BY <1>4, <1>5, <1>6 DEF Core

\* The edit that records the parents is the commit's own, and alone in the queue.
LEMMA CoreQueueParents ==
  ASSUME GInv, NEW p \in Procs, QueueParents(p)
  PROVE  Core'
<1>a. /\ TypeOK /\ Holds(p) /\ Flight(p) /\ pc[p] = "queue" /\ wlock = p /\ edits = << >>
  BY DEF GInv, Core, LockInv, TypeInv, TypeOK, QueueParents, QueueInv, Holds, Publishing
<1>b. \A q \in Procs : q # p => pc'[q] = pc[q] /\ loc'[q] = loc[q]
  BY <1>a, OthersKeep DEF Step
<1>1. /\ pc'[p] = "sethead" /\ edits' = <<RecordCommit(loc[p].commit, {loc[p].head})>>
      /\ UNCHANGED <<manifests, made, chain, mem, disk, loc, wlock, acked>>
  BY <1>a DEF QueueParents, Goto, TypeOK, store, locks, history
<1>2. OwnEdits(edits', loc[p].br, loc[p].commit)
  BY <1>1 DEF OwnEdits, RecordCommit
<1>3. Flight(p)'
  BY <1>a, <1>1, <1>2 DEF Flight, Publishing
<1>4. \A q \in Procs : Flight(q)'
  BY <1>a, <1>b, <1>1, <1>3, HolderFrame
<1>5. ChainInv' /\ HeadInv' /\ AckedDurable'
  BY <1>1 DEF GInv, Core, ChainInv, HeadInv, AckedDurable
<1>6. QueueInv'
  BY <1>a, <1>1, BranchAssumption DEF QueueInv
<1> QED BY <1>4, <1>5, <1>6 DEF Core

\* The head moves to a commit built on it.
LEMMA CoreMove ==
  ASSUME GInv, NEW p \in Procs, MoveHead(p)
  PROVE  Core'
<1>a. /\ TypeOK /\ Holds(p) /\ Flight(p) /\ pc[p] = "sethead" /\ wlock = p
      /\ loc[p].br \in Branches /\ ChainInv /\ HeadInv /\ manifests \subseteq made
      /\ made \subseteq Commits /\ loc[p].commit \in manifests
  BY DEF GInv, Core, LockInv, TypeInv, TypeOK, Locals, MoveHead, Holds, Flight, Publishing
<1>b. \A q \in Procs : q # p => pc'[q] = pc[q] /\ loc'[q] = loc[q]
  BY <1>a, OthersKeep DEF Step
<1>1. /\ pc'[p] = "push" /\ mem'.branches[loc[p].br] = loc[p].commit
      /\ \A b \in Branches : b # loc[p].br => mem'.branches[b] = mem.branches[b]
      /\ UNCHANGED <<manifests, made, chain, disk, edits, loc, wlock, acked>>
  BY <1>a DEF MoveHead, Goto, TypeOK, RefsType, store, locks, history
<1>2. /\ mem.branches[loc[p].br] = loc[p].head
      /\ chain[mem.branches[loc[p].br]] \subseteq chain[loc[p].commit]
      /\ loc[p].commit # Null /\ loc[p].head \in chain[loc[p].commit]
  BY <1>a, NullAssumption DEF Flight, ChainInv
<1>3. HeadInv'
  BY <1>a, <1>1, <1>2 DEF HeadInv
<1>4. Flight(p)'
  BY <1>a, <1>1 DEF Flight, Publishing
<1>5. \A q \in Procs : Flight(q)'
  BY <1>a, <1>b, <1>1, <1>4, HolderFrame
<1>6. QueueInv'
  BY <1>a, <1>1, BranchAssumption DEF QueueInv
<1>7. ChainInv' /\ AckedDurable'
  BY <1>1 DEF GInv, Core, ChainInv, AckedDurable
<1> QED BY <1>3, <1>5, <1>6, <1>7 DEF Core

\* The edit that moves the head goes to the end of the queue.
LEMMA CorePush ==
  ASSUME GInv, NEW p \in Procs, PushEdit(p)
  PROVE  Core'
<1>a. /\ TypeOK /\ Holds(p) /\ Flight(p) /\ pc[p] = "push" /\ wlock = p
      /\ edits \in Seq(RefEdit)
  BY DEF GInv, Core, LockInv, TypeInv, TypeOK, PushEdit, Holds, Publishing
<1>b. \A q \in Procs : q # p => pc'[q] = pc[q] /\ loc'[q] = loc[q]
  BY <1>a, OthersKeep DEF Step
<1> DEFINE e == IF loc[p].op = "create" THEN CreateBranch(loc[p].br, loc[p].commit)
                ELSE SetHead(loc[p].br, loc[p].commit)
<1>1. /\ pc'[p] = "take" /\ edits' = Append(edits, e)
      /\ UNCHANGED <<manifests, made, chain, mem, disk, loc, wlock, acked>>
  BY <1>a DEF PushEdit, Goto, TypeOK, store, locks, history
<1>2. MovesTo(e, loc[p].br, loc[p].commit)
  BY DEF MovesTo, SetHead, CreateBranch
<1> HIDE DEF e
<1>3. /\ OwnEdits(edits', loc[p].br, loc[p].commit)
      /\ EndsWithMove(edits', loc[p].br, loc[p].commit)
  <2>1. OwnEdits(edits, loc[p].br, loc[p].commit)
    BY <1>a DEF Flight
  <2>2. /\ Len(edits') = Len(edits) + 1 /\ edits'[Len(edits) + 1] = e
        /\ \A k \in 1 .. Len(edits) : edits'[k] = edits[k]
        /\ Len(edits) \in Nat
    BY <1>a, <1>1
  <2> QED BY <1>2, <2>1, <2>2 DEF OwnEdits, EndsWithMove
<1>4. Flight(p)'
  BY <1>a, <1>1, <1>3 DEF Flight, Publishing
<1>5. \A q \in Procs : Flight(q)'
  BY <1>a, <1>b, <1>1, <1>4, HolderFrame
<1>6. QueueInv'
  BY <1>a, <1>1, BranchAssumption DEF QueueInv
<1>7. ChainInv' /\ HeadInv' /\ AckedDurable'
  BY <1>1 DEF GInv, Core, ChainInv, HeadInv, AckedDurable
<1> QED BY <1>5, <1>6, <1>7 DEF Core

\* The owner takes its edits, and there is at least the head's.
LEMMA CoreTake ==
  ASSUME GInv, NEW p \in Procs, TakeEdits(p)
  PROVE  Core'
<1>a. /\ TypeOK /\ Holds(p) /\ Flight(p) /\ pc[p] = "take" /\ wlock = p
      /\ loc[p] \in Locals /\ edits # << >>
  BY DEF GInv, Core, LockInv, TypeInv, TypeOK, TakeEdits, Holds, Publishing, Flight, EndsWithMove
<1>b. \A q \in Procs : q # p => pc'[q] = pc[q] /\ loc'[q] = loc[q]
  BY <1>a, OthersKeep DEF Step
<1>1. /\ pc'[p] = "append" /\ edits' = << >> /\ loc' = [loc EXCEPT ![p].batch = edits]
      /\ UNCHANGED <<manifests, made, chain, mem, disk, wlock, acked>>
  BY <1>a DEF TakeEdits, Goto, TypeOK, store, locks, history
<1>2. /\ loc'[p].batch = edits /\ loc'[p].br = loc[p].br /\ loc'[p].commit = loc[p].commit
  BY <1>a, <1>1 DEF TypeOK, Locals
<1>3. Flight(p)'
  BY <1>a, <1>1, <1>2 DEF Flight, Publishing
<1>4. \A q \in Procs : Flight(q)'
  BY <1>a, <1>b, <1>1, <1>3, HolderFrame
<1>5. ChainInv' /\ HeadInv' /\ AckedDurable' /\ QueueInv'
  BY <1>1 DEF GInv, Core, ChainInv, HeadInv, AckedDurable, QueueInv
<1> QED BY <1>4, <1>5 DEF Core

\* When the head of p's operation lands, the disk catches up with memory on p's
\* branch, and everything it had acknowledged there is behind the new head.
LEMMA HeadLands ==
  ASSUME GInv, NEW p \in Procs, pc[p] = "append",
         disk' = ApplyEdit(disk, Head(loc[p].batch)),
         MovesTo(Head(loc[p].batch), loc[p].br, loc[p].commit),
         UNCHANGED <<manifests, made, chain, mem, acked>>
  PROVE  /\ disk'.branches[loc[p].br] = loc[p].commit
         /\ ChainInv' /\ HeadInv' /\ AckedDurable'
<1> DEFINE b == loc[p].br
           c == loc[p].commit
<1>a. /\ TypeOK /\ Flight(p) /\ b \in Branches /\ ChainInv /\ HeadInv /\ AckedDurable
      /\ manifests \subseteq made /\ disk.branches \in [Branches -> Commits \cup {Null}]
  BY DEF GInv, Core, TypeInv, TypeOK, Locals, RefsType
<1>1. c \in manifests /\ mem.branches[b] = c /\ MovesTo(Head(loc[p].batch), b, c)
  BY <1>a DEF Flight, Publishing
<1> HIDE DEF b, c
<1>2. /\ disk'.branches[b] = c
      /\ \A x \in Branches : x # b => disk'.branches[x] = disk.branches[x]
  BY <1>a, <1>1 DEF ApplyEdit, MovesTo
<1>3. c \in chain[c] /\ c # Null
  BY <1>a, <1>1, NullAssumption DEF ChainInv, TypeOK
<1>4. HeadInv'
  BY <1>a, <1>1, <1>2, <1>3 DEF HeadInv
<1>5. AckedDurable'
  <2>1. disk.branches[b] # Null => chain[disk.branches[b]] \subseteq chain[c]
    BY <1>a, <1>1 DEF HeadInv, ChainInv, TypeOK
  <2> QED BY <1>a, <1>2, <1>3, <2>1 DEF AckedDurable
<1>6. ChainInv'
  BY <1>a DEF ChainInv
<1> QED BY <1>2, <1>4, <1>5, <1>6 DEF b, c

\* One frame lands: a parent list, which moves no head, or the head itself,
\* which the disk takes from a commit on the way to it.
LEMMA CoreAppend ==
  ASSUME GInv, NEW p \in Procs, AppendFrame(p)
  PROVE  Core'
<1> DEFINE b == loc[p].br
           c == loc[p].commit
           es == loc[p].batch
<1>a. /\ TypeOK /\ Holds(p) /\ Flight(p) /\ pc[p] = "append" /\ wlock = p /\ edits = << >>
      /\ loc[p] \in Locals /\ b \in Branches /\ es \in Seq(RefEdit)
      /\ ChainInv /\ HeadInv /\ AckedDurable /\ manifests \subseteq made
      /\ disk.branches \in [Branches -> Commits \cup {Null}]
  BY DEF GInv, Core, LockInv, TypeInv, TypeOK, Locals, RefsType, AppendFrame, Holds,
         Publishing, QueueInv
<1>b. \A q \in Procs : q # p => pc'[q] = pc[q] /\ loc'[q] = loc[q]
  BY <1>a, OthersKeep DEF Step
<1>1. /\ OwnEdits(es, b, c) /\ EndsWithMove(es, b, c)
      /\ c \in manifests /\ mem.branches[b] = c
  BY <1>a DEF Flight, Publishing
<1>2. /\ UNCHANGED <<manifests, made, chain, mem, edits, wlock, acked>>
      /\ loc' = [loc EXCEPT ![p].batch = Tail(es)]
      /\ disk' = ApplyEdit(disk, Head(es))
      /\ IF Tail(es) = << >> THEN pc'[p] = "done" ELSE pc'[p] = "append"
  BY <1>a DEF AppendFrame, Goto, TypeOK, store, history
<1>3. /\ loc'[p].batch = Tail(es) /\ loc'[p].br = b /\ loc'[p].commit = c
  BY <1>a, <1>2 DEF TypeOK, Locals
<1> HIDE DEF b, c, es
<1>4. /\ Len(es) \in Nat /\ Len(es) > 0 /\ Head(es) = es[1] /\ Tail(es) \in Seq(RefEdit)
      /\ Len(Tail(es)) = Len(es) - 1
      /\ \A k \in 1 .. Len(es) - 1 : Tail(es)[k] = es[k + 1]
  BY <1>a, <1>1 DEF EndsWithMove
<1>5. CASE Head(es).op = "RecordCommit"
  <2>1. disk'.branches = disk.branches
    BY <1>2, <1>5 DEF ApplyEdit
  <2>2. Len(es) > 1
    BY <1>1, <1>4, <1>5 DEF EndsWithMove, MovesTo
  <2>3. Tail(es) # << >> /\ OwnEdits(Tail(es), b, c) /\ EndsWithMove(Tail(es), b, c)
    BY <1>1, <1>4, <2>2 DEF OwnEdits, EndsWithMove
  <2>4. Flight(p)'
    <3>1. pc'[p] = "append"
      BY <1>2, <2>3
    <3>2. /\ OwnEdits(loc'[p].batch, loc'[p].br, loc'[p].commit)
          /\ EndsWithMove(loc'[p].batch, loc'[p].br, loc'[p].commit)
      BY <1>3, <2>3
    <3>3. loc'[p].commit \in manifests' /\ mem'.branches[loc'[p].br] = loc'[p].commit
      BY <1>1, <1>2, <1>3
    <3> QED BY <3>1, <3>2, <3>3 DEF Flight, Publishing
  <2>5. \A q \in Procs : Flight(q)'
    BY <1>a, <1>b, <1>2, <2>4, HolderFrame
  <2>6. ChainInv' /\ HeadInv' /\ AckedDurable' /\ QueueInv'
    BY <1>a, <1>2, <2>1 DEF ChainInv, HeadInv, AckedDurable, QueueInv
  <2> QED BY <2>5, <2>6 DEF Core
<1>6. CASE Head(es).op # "RecordCommit"
  <2>1. MovesTo(Head(es), b, c)
    BY <1>1, <1>4, <1>6 DEF OwnEdits
  <2>2. disk'.branches[b] = c /\ ChainInv' /\ HeadInv' /\ AckedDurable'
    BY <1>a, <1>2, <2>1, HeadLands DEF b, c, es
  <2>3. Tail(es) # << >> => OwnEdits(Tail(es), b, c) /\ EndsWithMove(Tail(es), b, c)
    <3> SUFFICES ASSUME Tail(es) # << >> PROVE OwnEdits(Tail(es), b, c) /\ EndsWithMove(Tail(es), b, c)
      OBVIOUS
    <3>1. Len(es) > 1
      BY <1>4
    <3> QED BY <1>1, <1>4, <3>1 DEF OwnEdits, EndsWithMove
  <2>4. Flight(p)'
    <3>1. CASE Tail(es) = << >>
      <4>1. pc'[p] = "done"
        BY <1>2, <3>1
      <4> QED BY <1>1, <1>2, <1>3, <2>2, <4>1 DEF Flight, Publishing
    <3>2. CASE Tail(es) # << >>
      <4>1. pc'[p] = "append"
        BY <1>2, <3>2
      <4>2. /\ OwnEdits(loc'[p].batch, loc'[p].br, loc'[p].commit)
            /\ EndsWithMove(loc'[p].batch, loc'[p].br, loc'[p].commit)
        BY <1>3, <2>3, <3>2
      <4>3. loc'[p].commit \in manifests' /\ mem'.branches[loc'[p].br] = loc'[p].commit
        BY <1>1, <1>2, <1>3
      <4> QED BY <4>1, <4>2, <4>3 DEF Flight, Publishing
    <3> QED BY <3>1, <3>2
  <2>5. \A q \in Procs : Flight(q)'
    BY <1>a, <1>b, <1>2, <2>4, HolderFrame
  <2>6. QueueInv'
    BY <1>a, <1>2 DEF QueueInv
  <2> QED BY <2>2, <2>5, <2>6 DEF Core
<1> QED BY <1>5, <1>6

\* A sequence with an empty tail is its one element.
LEMMA OnlyOne ==
  ASSUME NEW S, NEW s \in Seq(S), s # << >>, Tail(s) = << >>
  PROVE  Head(s) = s[Len(s)]
<1> DEFINE n == Len(s)
<1>1. n \in Nat /\ n > 0 /\ Len(Tail(s)) = n - 1
  OBVIOUS
<1>2. Len(<< >>) = 0
  OBVIOUS
<1>3. n - 1 = 0
  BY ONLY <1>1, <1>2, Tail(s) = << >>
<1>4. n = 1
  <2> HIDE DEF n
  <2> QED BY <1>1, <1>3
<1> QED BY <1>4

\* An error for a batch that landed all the same loses nothing.
LEMMA CoreCompactErr ==
  ASSUME GInv, NEW p \in Procs, CompactErr(p)
  PROVE  Core'
<1>a. /\ TypeOK /\ Holds(p) /\ Flight(p) /\ pc[p] = "append" /\ wlock = p /\ edits = << >>
      /\ loc[p].batch \in Seq(RefEdit)
  BY DEF GInv, Core, LockInv, TypeInv, TypeOK, Locals, CompactErr, Holds, Publishing, QueueInv
<1>b. \A q \in Procs : q # p => pc'[q] = pc[q] /\ loc'[q] = loc[q]
  BY <1>a, OthersKeep DEF Step
<1>1. /\ UNCHANGED <<manifests, made, chain, mem, edits, acked>> /\ Leave(p)
      /\ disk' = ApplyEdit(disk, Head(loc[p].batch)) /\ Tail(loc[p].batch) = << >>
  BY DEF CompactErr, store
<1>2. MovesTo(Head(loc[p].batch), loc[p].br, loc[p].commit)
  <2> DEFINE es == loc[p].batch
  <2>1. EndsWithMove(es, loc[p].br, loc[p].commit)
    BY <1>a DEF Flight
  <2>2. es \in Seq(RefEdit) /\ es # << >> /\ Tail(es) = << >>
    BY <1>a, <1>1, <2>1 DEF EndsWithMove
  <2>3. Head(es) = es[Len(es)]
    BY <2>2, OnlyOne
  <2> QED BY <2>1, <2>3 DEF EndsWithMove
<1>3. ChainInv' /\ HeadInv' /\ AckedDurable'
  BY <1>a, <1>1, <1>2, HeadLands
<1>4. pc'[p] = "idle"
  BY <1>a, <1>1 DEF Leave, TypeOK
<1>5. Flight(p)'
  BY <1>4 DEF Flight, Publishing
<1>6. \A q \in Procs : Flight(q)'
  BY <1>a, <1>b, <1>1, <1>5, HolderFrame
<1>7. QueueInv'
  BY <1>a, <1>1 DEF QueueInv
<1> QED BY <1>3, <1>6, <1>7 DEF Core

\* Ok is returned for a commit the disk already names.
LEMMA CoreReturn ==
  ASSUME GInv, NEW p \in Procs, Return(p)
  PROVE  Core'
<1>a. /\ TypeOK /\ OpAt(p) /\ Holds(p) /\ Flight(p) /\ pc[p] = "done" /\ wlock = p
      /\ edits = << >> /\ loc[p].br \in Branches /\ ChainInv /\ AckedDurable
      /\ manifests \subseteq made /\ made \subseteq Commits
      /\ acked \in [Branches -> SUBSET Commits]
  BY DEF GInv, Core, LockInv, TypeInv, TypeOK, Locals, Return, Holds, Publishing, QueueInv
<1>b. \A q \in Procs : q # p => pc'[q] = pc[q] /\ loc'[q] = loc[q]
  BY <1>a, OthersKeep DEF Step
<1>1. /\ Leave(p) /\ UNCHANGED <<manifests, made, chain, mem, disk, edits>>
      /\ acked' = [acked EXCEPT ![loc[p].br] = @ \cup {loc[p].commit}]
  BY <1>a DEF Return, OpAt, Publishing, store
<1>2. pc'[p] = "idle"
  BY <1>a, <1>1 DEF Leave, TypeOK
<1>3. Flight(p)'
  BY <1>2 DEF Flight, Publishing
<1>4. \A q \in Procs : Flight(q)'
  BY <1>a, <1>b, <1>1, <1>3, HolderFrame
<1>5. AckedDurable'
  <2>1. /\ disk.branches[loc[p].br] = loc[p].commit /\ loc[p].commit \in manifests
        /\ loc[p].commit \in chain[loc[p].commit] /\ loc[p].commit # Null
    BY <1>a, NullAssumption DEF Flight, Publishing, ChainInv
  <2> QED BY <1>a, <1>1, <2>1 DEF AckedDurable
<1>6. ChainInv' /\ HeadInv' /\ QueueInv'
  BY <1>a, <1>1 DEF GInv, Core, ChainInv, HeadInv, QueueInv
<1> QED BY <1>4, <1>5, <1>6 DEF Core

\* The collector keeps every head, and runs while nothing is in flight.
LEMMA CoreSweep ==
  ASSUME GInv, NEW p \in Procs, GcSweep(p)
  PROVE  Core'
<1>a. /\ TypeOK /\ Holds(p) /\ Flight(p) /\ pc[p] = "gcSweep" /\ wlock = p /\ maint = p
      /\ edits = << >> /\ readers = {} /\ ChainInv /\ HeadInv /\ AckedDurable
      /\ manifests \subseteq made
  BY BranchAssumption
  DEF GInv, Core, LockInv, TypeInv, TypeOK, GcSweep, Holds, Publishing, QueueInv
<1>b. \A q \in Procs : q # p => pc'[q] = pc[q] /\ loc'[q] = loc[q]
  BY <1>a, OthersKeep DEF Step
<1>1. /\ manifests' = {c \in manifests : \E r \in loc[p].roots : c \in chain[r]}
      /\ Leave(p) /\ UNCHANGED <<made, chain, mem, disk, edits, acked>>
  BY DEF GcSweep, history
<1>2. pc'[p] = "idle"
  BY <1>a, <1>1 DEF Leave, TypeOK
<1>3. Flight(p)'
  BY <1>2 DEF Flight, Publishing
<1>4. ASSUME NEW q \in Procs, q # p PROVE Flight(q)'
  <2>1. pc[q] # "cas"
    BY <1>a DEF GInv, LockInv, OpAt, Holds
  <2> QED BY <1>a, <1>b, <1>4, <2>1, FlightAside
<1>5. HeadInv'
  <2> SUFFICES ASSUME NEW b \in Branches
               PROVE  /\ mem.branches[b] # Null => mem.branches[b] \in manifests'
                      /\ disk.branches[b] # Null => disk.branches[b] \in manifests'
    BY <1>a, <1>1 DEF HeadInv
  <2>1. mem.branches[b] # Null => mem.branches[b] \in loc[p].roots
    BY <1>a DEF Flight
  <2>2. mem.branches[b] # Null => mem.branches[b] \in chain[mem.branches[b]]
    BY <1>a DEF HeadInv, ChainInv
  <2> QED BY <1>a, <1>1, <2>1, <2>2 DEF HeadInv
<1>6. ChainInv' /\ AckedDurable' /\ QueueInv'
  BY <1>a, <1>1 DEF ChainInv, AckedDurable, QueueInv
<1> QED BY <1>3, <1>4, <1>5, <1>6 DEF Core

\* A restart takes memory back to the disk's heads, which the pager still holds.
LEMMA CoreCrash == ASSUME GInv, Crash PROVE Core' /\ LockInv'
<1>1. /\ mem' = disk /\ edits' = << >> /\ pc' = [p \in Procs |-> "idle"]
      /\ maint' = Free /\ readers' = {}
      /\ UNCHANGED <<manifests, made, chain, disk, acked>>
  BY DEF Crash, store
<1>2. LockInv'
  BY <1>1 DEF LockInv, OpAt, Holds, Publishing
<1>3. \A p \in Procs : Flight(p)'
  BY <1>1 DEF Flight, Publishing
<1>4. HeadInv'
  BY <1>1 DEF GInv, TypeInv, TypeOK, Core, HeadInv, ChainInv
<1>5. ChainInv' /\ QueueInv' /\ AckedDurable'
  BY <1>1 DEF GInv, Core, ChainInv, QueueInv, AckedDurable
<1> QED BY <1>2, <1>3, <1>4, <1>5 DEF Core

-----------------------------------------------------------------------------
(* The theorems. *)

LEMMA GuardedInit == KindsGuarded /\ Init => GInv
<1> SUFFICES ASSUME KindsGuarded, Init PROVE GInv
  OBVIOUS
<1>1. TypeInv
  BY TypeInit
<1>2. LockInv /\ QueueInv /\ \A p \in Procs : Flight(p)
  BY DEF Init, LockInv, OpAt, Holds, Publishing, QueueInv, Flight
<1>3. ChainInv
  BY BranchAssumption DEF Init, ChainInv
<1>4. mem = disk /\ \A b \in Branches : mem.branches[b] = IF b = Main THEN RootCommit ELSE Null
  BY BranchAssumption DEF Init, Rooted, EmptyRefs
<1>5. HeadInv /\ AckedDurable
  BY <1>4, BranchAssumption DEF Init, HeadInv, AckedDurable
<1> QED BY <1>1, <1>2, <1>3, <1>5 DEF GInv, Core

LEMMA GuardedNext == GInv /\ [Next]_vars => GInv'
<1> SUFFICES ASSUME GInv, [Next]_vars PROVE GInv'
  OBVIOUS
<1>1. TypeInv' /\ KindsGuarded'
  BY TypeNext DEF GInv, KindsGuarded
<1>2. CASE \E p \in Procs : Client(p)
  <2> PICK p \in Procs : Client(p)
    BY <1>2
  <2>1. LockInv'
    BY LockClient DEF GInv
  <2>2. TypeOK /\ KindsGuarded
    BY DEF GInv, TypeInv
  <2>3. \A q \in Procs : q # p => pc'[q] = pc[q] /\ loc'[q] = loc[q]
    BY <2>2, OthersKeep
  <2>4. Flight(p)' /\ pc[p] = "idle"
        /\ UNCHANGED <<manifests, made, chain, mem, disk, edits, acked, wlock>>
    BY <2>2, GuardedCall DEF Flight, Publishing
  <2>5. Core'
    BY <2>3, <2>4, QuietFrame
  <2> QED BY <1>1, <2>1, <2>5 DEF GInv
<1>3. CASE \E p \in Procs : Step(p)
  <2> PICK p \in Procs : Step(p)
    BY <1>3
  <2>1. LockInv'
    BY LockStep DEF GInv
  <2>2. ~(ReadBefore(p) \/ AddSecondParent(p) \/ QueueSecondParent(p))
    BY DEF GInv, LockInv, OpAt, ReadBefore, AddSecondParent, QueueSecondParent
  <2>3. Core'
    BY <2>2, CoreQuiet, CoreCreate, CoreCommit, CoreRecord, CoreQueueParents, CoreMove, CorePush, CoreTake,
       CoreAppend, CoreCompactErr, CoreReturn, CoreSweep DEF Step
  <2> QED BY <1>1, <2>1, <2>3 DEF GInv
<1>4. CASE Crash
  BY <1>1, <1>4, CoreCrash DEF GInv
<1>5. CASE UNCHANGED vars
  BY <1>1, <1>5
  DEF GInv, Core, vars, LockInv, OpAt, Holds, ChainInv, HeadInv, QueueInv, Flight, AckedDurable
<1> QED BY <1>2, <1>3, <1>4, <1>5 DEF Next

\* With clients that only write, fold, create branches and collect garbage, a
\* commit whose operation returned Ok is in the history of the head on disk at
\* every instant: no interleaving, failed append or crash loses it.
THEOREM GuardedDurable == KindsGuarded /\ Spec => []AckedDurable
<1>1. GInv => AckedDurable
  BY DEF GInv, Core
<1> QED BY <1>1, GuardedInit, GuardedNext, PTL DEF Spec

-----------------------------------------------------------------------------
(* Memory and disk. *)

\* What a store holds once the edits of one guarded operation have landed on it:
\* there are at most two.
Landed(r, es) ==
  IF Len(es) = 0 THEN r
  ELSE IF Len(es) = 1 THEN ApplyEdit(r, es[1])
  ELSE ApplyEdit(ApplyEdit(r, es[1]), es[2])

\* The places between a change of memory and the end of its way to the disk.
Landing == {"queue", "sethead", "push", "take", "append"}

\* What the thread that publishes has queued, or taken, is all that the disk lacks.
Owes(p) ==
  /\ pc[p] = "queue" => mem = ApplyEdit(disk, RecordCommit(loc[p].commit, {loc[p].head}))
  /\ pc[p] = "sethead" => Len(edits) <= 1 /\ mem = Landed(disk, edits)
  /\ pc[p] = "push" =>
       /\ Len(edits) <= 1
       /\ mem = ApplyEdit(Landed(disk, edits), SetHead(loc[p].br, loc[p].commit))
  /\ pc[p] = "take" => Len(edits) <= 2 /\ mem = Landed(disk, edits)
  /\ pc[p] = "append" => Len(loc[p].batch) <= 2 /\ mem = Landed(disk, loc[p].batch)

\* Until a call of the store fails, memory is the disk and what is owed to it.
AgreeInv ==
  errs = 0 =>
    /\ \A p \in Procs : Owes(p)
    /\ (\A p \in Procs : pc[p] \notin Landing) => mem = disk

\* Whoever is at such a place holds the head-mutation lock.
LEMMA LandingHolds ==
  ASSUME GInv, NEW q \in Procs, pc[q] \in Landing
  PROVE  wlock = q
  BY DEF GInv, LockInv, Holds, Publishing, Landing

\* With nobody there, and nobody coming there, memory and disk stay as they agree.
LEMMA AgreeAside ==
  ASSUME GInv, AgreeInv, NEW p \in Procs,
         \A q \in Procs : q # p => pc'[q] = pc[q] /\ loc'[q] = loc[q],
         UNCHANGED <<mem, disk, edits>>, errs' = 0 => errs = 0,
         pc[p] \notin Landing, pc'[p] \notin Landing
  PROVE  AgreeInv'
<1> SUFFICES ASSUME errs' = 0
             PROVE  /\ \A q \in Procs : Owes(q)'
                    /\ (\A q \in Procs : pc'[q] \notin Landing) => mem' = disk'
  BY DEF AgreeInv
<1>1. /\ \A q \in Procs : Owes(q)
      /\ (\A q \in Procs : pc[q] \notin Landing) => mem = disk
  BY DEF AgreeInv
<1>2. Owes(p)'
  BY DEF Owes, Landing
<1>3. ASSUME NEW q \in Procs, q # p PROVE Owes(q)'
  BY <1>1, <1>3 DEF Owes
<1>4. ASSUME \A q \in Procs : pc'[q] \notin Landing PROVE mem' = disk'
  BY <1>1, <1>4
<1> QED BY <1>2, <1>3, <1>4

\* The thread that has the lock is the only one that can owe anything.
LEMMA AgreeHolder ==
  ASSUME GInv, NEW p \in Procs, wlock \in {Free, p},
         \A q \in Procs : q # p => pc'[q] = pc[q] /\ loc'[q] = loc[q],
         errs' = 0 => Owes(p)' /\ (pc'[p] \notin Landing => mem' = disk')
  PROVE  AgreeInv'
<1>1. ASSUME NEW q \in Procs, q # p PROVE pc'[q] \notin Landing
  BY <1>1, LandingHolds, BranchAssumption
<1>2. \A q \in Procs : q # p => Owes(q)'
  BY <1>1 DEF Owes, Landing
<1> QED BY <1>2 DEF AgreeInv

\* The edits of an operation land one after the other.
LEMMA LandedNext ==
  ASSUME NEW r, NEW es \in Seq(RefEdit), es # << >>, Len(es) <= 2
  PROVE  /\ Landed(r, es) = Landed(ApplyEdit(r, Head(es)), Tail(es))
         /\ Len(Tail(es)) <= 1 /\ Tail(es) \in Seq(RefEdit)
<1>1. /\ Len(es) \in Nat /\ Len(es) > 0 /\ Head(es) = es[1]
      /\ Tail(es) \in Seq(RefEdit) /\ Len(Tail(es)) = Len(es) - 1
  OBVIOUS
<1>2. \A k \in 1 .. Len(es) - 1 : Tail(es)[k] = es[k + 1]
  OBVIOUS
<1> DEFINE h == Head(es)
           t == Tail(es)
           n == Len(es)
<1>3. /\ n \in Nat /\ n > 0 /\ n <= 2 /\ h = es[1] /\ t \in Seq(RefEdit) /\ Len(t) = n - 1
      /\ n = 2 => t[1] = es[2]
  BY <1>1, <1>2
<1> HIDE DEF h, t
<1>4. Landed(r, es) = Landed(ApplyEdit(r, h), t)
  BY <1>3 DEF Landed
<1> QED BY <1>3, <1>4 DEF h, t

\* The last to be queued is the last to land.
LEMMA LandedAppend ==
  ASSUME NEW r, NEW es \in Seq(RefEdit), Len(es) <= 1, NEW e \in RefEdit
  PROVE  /\ Landed(r, Append(es, e)) = ApplyEdit(Landed(r, es), e)
         /\ Len(Append(es, e)) <= 2
<1>1. /\ Len(es) \in Nat /\ Len(Append(es, e)) = Len(es) + 1
      /\ Append(es, e)[Len(es) + 1] = e
  OBVIOUS
<1>2. \A k \in 1 .. Len(es) : Append(es, e)[k] = es[k]
  OBVIOUS
<1> DEFINE a == Append(es, e)
           n == Len(es)
<1>3. /\ n \in Nat /\ n <= 1 /\ Len(a) = n + 1 /\ a[n + 1] = e
      /\ n = 1 => a[1] = es[1]
  BY <1>1, <1>2
<1> HIDE DEF a
<1>4. ASSUME n = 0 PROVE Landed(r, a) = ApplyEdit(Landed(r, es), e)
  <2>1. Len(a) = 1 /\ a[1] = e
    BY <1>3, <1>4
  <2> QED BY <1>4, <2>1 DEF Landed
<1>5. ASSUME n = 1 PROVE Landed(r, a) = ApplyEdit(Landed(r, es), e)
  <2>1. Len(a) = 2 /\ a[1] = es[1] /\ a[2] = e
    BY <1>3, <1>5
  <2> QED BY <1>5, <2>1 DEF Landed
<1>6. n = 0 \/ n = 1
  BY <1>3
<1> QED BY <1>3, <1>4, <1>5, <1>6 DEF a

\* The steps that change neither memory nor disk, nor queue anything.
LEMMA AgreeQuiet ==
  ASSUME GInv, AgreeInv, NEW p \in Procs,
         \/ LockAndRead(p) \/ LockMaintenance(p) \/ ReadHead(p) \/ Commit(p) \/ CommitNothing(p)
         \/ CommitErr(p) \/ CompareAndSet(p) \/ Return(p)
         \/ GcLockMaintenance(p) \/ GcLockHeads(p) \/ GcReadRoots(p) \/ GcSweep(p)
  PROVE  AgreeInv'
<1>1. TypeOK
  BY DEF GInv, TypeInv
<1>2. \A q \in Procs : q # p => pc'[q] = pc[q] /\ loc'[q] = loc[q]
  BY <1>1, OthersKeep DEF Step
<1>3. UNCHANGED <<mem, disk, edits>> /\ pc[p] \notin Landing
  BY DEF LockAndRead, LockMaintenance, ReadHead, Commit, CommitNothing, CommitErr, CompareAndSet,
         Return, GcLockMaintenance, GcLockHeads, GcReadRoots, GcSweep, Landing
<1>4. errs' = errs \/ errs' = errs + 1
  BY DEF LockAndRead, LockMaintenance, ReadHead, Commit, CommitNothing, CommitErr, CompareAndSet,
         Return, GcLockMaintenance, GcLockHeads, GcReadRoots, GcSweep, history
<1>5. errs' = 0 => errs = 0
  BY <1>1, <1>4 DEF TypeOK
<1>6. pc'[p] \notin Landing
  BY <1>1
  DEF LockAndRead, LockMaintenance, ReadHead, Commit, CommitNothing, CommitErr, CompareAndSet,
      Return, GcLockMaintenance, GcLockHeads, GcReadRoots, GcSweep, Leave, Goto, AfterCommit,
      TypeOK, Landing
<1> QED BY <1>2, <1>3, <1>5, <1>6, AgreeAside

\* The steps that carry a change of memory to the disk.
LEMMA AgreeLanding ==
  ASSUME GInv, AgreeInv, NEW p \in Procs,
         \/ LockAndCreate(p) \/ RecordParents(p) \/ QueueParents(p) \/ MoveHead(p)
         \/ PushEdit(p) \/ TakeEdits(p) \/ AppendFrame(p) \/ AppendErr(p) \/ CompactErr(p)
  PROVE  AgreeInv'
<1>a. /\ TypeOK /\ loc[p] \in Locals /\ loc[p].br \in Branches /\ loc[p].from \in Branches
      /\ mem \in RefsType /\ disk \in RefsType /\ edits \in Seq(RefEdit)
      /\ loc[p].batch \in Seq(RefEdit) /\ mem.branches \in [Branches -> Commits \cup {Null}]
      /\ OpAt(p) /\ Holds(p) /\ Flight(p) /\ Placed(p) /\ QueueInv
  BY DEF GInv, Core, LockInv, TypeInv, TypeOK, Locals, RefsType
<1>b. \A q \in Procs : q # p => pc'[q] = pc[q] /\ loc'[q] = loc[q]
  BY <1>a, OthersKeep DEF Step
<1>c. wlock \in {Free, p}
  BY <1>a DEF LockAndCreate, RecordParents, QueueParents, MoveHead, PushEdit, TakeEdits, AppendFrame, AppendErr,
              CompactErr, Holds, Publishing
<1>d. pc[p] \notin Landing /\ errs = 0 => mem = disk
  BY <1>c, LandingHolds, BranchAssumption DEF AgreeInv
<1>e. Landed(disk, << >>) = disk /\ Len(<< >>) = 0
  BY DEF Landed
<1>f. errs = 0 => Owes(p)
  BY DEF AgreeInv
<1>1. CASE LockAndCreate(p)
  <2>1. CASE UNCHANGED mem /\ Leave(p)
    <3>1. UNCHANGED <<mem, disk, edits, errs>> /\ pc[p] \notin Landing /\ pc'[p] \notin Landing
      BY <1>1, <1>a, <2>1 DEF LockAndCreate, Leave, TypeOK, Landing, history
    <3> QED BY <1>b, <3>1, AgreeAside
  <2>2. CASE ~(UNCHANGED mem /\ Leave(p))
    <3> DEFINE c == mem.branches[loc[p].from]
    <3>1. /\ mem' = [mem EXCEPT !.branches[loc[p].br] = c] /\ c \in Commits
          /\ loc' = [loc EXCEPT ![p].commit = c] /\ pc'[p] = "push" /\ wlock = Free
          /\ UNCHANGED <<disk, edits, errs>> /\ pc[p] = "lock"
      BY <1>1, <1>a, <2>2 DEF LockAndCreate, Goto, TypeOK, history
    <3>2. edits = << >>
      BY <1>a, <3>1 DEF QueueInv
    <3> HIDE DEF c
    <3>3. loc'[p].commit = c /\ loc'[p].br = loc[p].br
      BY <1>a, <3>1 DEF TypeOK, Locals
    <3>4. errs' = 0 => mem' = ApplyEdit(disk, SetHead(loc[p].br, c))
      <4>1. mem' = ApplyEdit(mem, SetHead(loc[p].br, c))
        BY <1>a, <3>1 DEF RefsType, ApplyEdit, SetHead
      <4> QED BY <1>d, <3>1, <4>1 DEF Landing
    <3>5. errs' = 0 => Owes(p)'
      BY <1>e, <3>1, <3>2, <3>3, <3>4 DEF Owes
    <3> QED BY <1>b, <1>c, <3>1, <3>5, AgreeHolder DEF Landing
  <2> QED BY <2>1, <2>2
<1>2. CASE RecordParents(p)
  <2>1. /\ pc[p] = "record" /\ UNCHANGED <<disk, edits, loc, errs>> /\ edits = << >>
        /\ loc[p].commit \in Commits /\ loc[p].head \in Commits
    BY <1>2, <1>a, <1>c, BranchAssumption
    DEF RecordParents, TypeOK, history, QueueInv, Placed, Publishing
  <2>2. errs = 0 => mem = disk
    BY <1>d, <2>1 DEF Landing
  <2>3. CASE UNCHANGED mem /\ pc'[p] = "sethead"
    <3>1. errs' = 0 => Owes(p)'
      BY <1>e, <2>1, <2>2, <2>3 DEF Owes
    <3> QED BY <1>b, <1>c, <2>3, <3>1, AgreeHolder DEF Landing
  <2>4. CASE ~(UNCHANGED mem /\ pc'[p] = "sethead")
    <3>1. /\ mem' = [mem EXCEPT !.commits[loc[p].commit] = {loc[p].head}]
          /\ pc'[p] = "queue"
      BY <1>2, <1>a, <2>4 DEF RecordParents, Goto, TypeOK
    <3>2. {loc[p].head} \in SUBSET Commits
      BY <2>1
    <3>3. mem' = ApplyEdit(mem, RecordCommit(loc[p].commit, {loc[p].head}))
      BY <1>a, <2>1, <3>1, <3>2 DEF RefsType, ApplyEdit, RecordCommit
    <3>4. errs' = 0 => Owes(p)'
      BY <2>1, <2>2, <3>1, <3>3 DEF Owes
    <3> QED BY <1>b, <1>c, <3>1, <3>4, AgreeHolder DEF Landing
  <2> QED BY <2>3, <2>4
<1>8. CASE QueueParents(p)
  <2> DEFINE e == RecordCommit(loc[p].commit, {loc[p].head})
  <2>1. /\ pc[p] = "queue" /\ pc'[p] = "sethead" /\ UNCHANGED <<mem, disk, loc, errs>>
        /\ edits = << >> /\ edits' = Append(edits, e)
    BY <1>8, <1>a, <1>c, BranchAssumption
    DEF QueueParents, Goto, TypeOK, history, QueueInv
  <2>2. errs = 0 => mem = ApplyEdit(disk, e)
    BY <1>f, <2>1 DEF Owes
  <2> HIDE DEF e
  <2>3. Len(edits') = 1 /\ edits'[1] = e
    BY <2>1
  <2>4. Landed(disk, edits') = ApplyEdit(disk, e)
    BY <2>3 DEF Landed
  <2>5. errs' = 0 => Owes(p)'
    BY <2>1, <2>2, <2>3, <2>4 DEF Owes
  <2> QED BY <1>b, <1>c, <2>1, <2>5, AgreeHolder DEF Landing
<1>3. CASE MoveHead(p)
  <2>1. /\ pc[p] = "sethead" /\ pc'[p] = "push" /\ UNCHANGED <<disk, edits, loc, errs>>
        /\ mem' = [mem EXCEPT !.branches[loc[p].br] = loc[p].commit] /\ loc[p].commit \in Commits
    BY <1>3, <1>a DEF MoveHead, Goto, TypeOK, history, Placed, Publishing
  <2>2. mem' = ApplyEdit(mem, SetHead(loc[p].br, loc[p].commit))
    BY <1>a, <2>1 DEF RefsType, ApplyEdit, SetHead
  <2>3. errs' = 0 => Owes(p)'
    BY <1>f, <2>1, <2>2 DEF Owes
  <2> QED BY <1>b, <1>c, <2>1, <2>3, AgreeHolder DEF Landing
<1>4. CASE PushEdit(p)
  <2> DEFINE b == loc[p].br
             c == loc[p].commit
             e == IF loc[p].op = "create" THEN CreateBranch(b, c) ELSE SetHead(b, c)
  <2>1. /\ pc[p] = "push" /\ pc'[p] = "take" /\ UNCHANGED <<mem, disk, loc, errs>>
        /\ edits' = Append(edits, e) /\ c \in Commits
    BY <1>4, <1>a DEF PushEdit, Goto, TypeOK, history, Placed, Publishing
  <2>2. e \in RefEdit /\ \A r : ApplyEdit(r, e) = ApplyEdit(r, SetHead(b, c))
    BY <1>a, <2>1, EditTypes DEF ApplyEdit, CreateBranch, SetHead
  <2> HIDE DEF e
  <2>3. errs' = 0 => Owes(p)'
    <3> SUFFICES ASSUME errs' = 0 PROVE Owes(p)'
      OBVIOUS
    <3>1. Len(edits) <= 1 /\ mem = ApplyEdit(Landed(disk, edits), SetHead(b, c))
      BY <1>f, <2>1 DEF Owes
    <3>2. Len(edits') <= 2 /\ Landed(disk, edits') = ApplyEdit(Landed(disk, edits), e)
      BY <1>a, <2>1, <2>2, <3>1, LandedAppend
    <3> QED BY <2>1, <2>2, <3>1, <3>2 DEF Owes
  <2> QED BY <1>b, <1>c, <2>1, <2>3, AgreeHolder DEF Landing
<1>5. CASE TakeEdits(p)
  <2>1. pc[p] = "take" /\ edits # << >>
    BY <1>5, <1>a DEF TakeEdits, Flight, EndsWithMove
  <2>2. /\ pc'[p] = "append" /\ UNCHANGED <<mem, disk, errs>> /\ loc'[p].batch = edits
    BY <1>5, <1>a, <2>1 DEF TakeEdits, Goto, TypeOK, Locals, history
  <2>3. errs' = 0 => Owes(p)'
    BY <1>f, <2>1, <2>2 DEF Owes
  <2> QED BY <1>b, <1>c, <2>2, <2>3, AgreeHolder DEF Landing
<1>6. CASE AppendFrame(p)
  <2> DEFINE es == loc[p].batch
  <2>1. /\ pc[p] = "append" /\ es # << >> /\ UNCHANGED <<mem, errs>>
        /\ disk' = ApplyEdit(disk, Head(es)) /\ loc'[p].batch = Tail(es)
        /\ pc'[p] = IF Tail(es) = << >> THEN "done" ELSE "append"
    BY <1>6, <1>a DEF AppendFrame, Goto, TypeOK, Locals, history, Placed
  <2> HIDE DEF es
  <2>2. ASSUME errs' = 0
        PROVE  /\ mem = Landed(disk', Tail(es)) /\ Len(Tail(es)) <= 2
               /\ Tail(es) = << >> => mem = disk'
    <3>1. Len(es) <= 2 /\ mem = Landed(disk, es)
      BY <1>f, <2>1, <2>2 DEF Owes, es
    <3>2. /\ Landed(disk, es) = Landed(ApplyEdit(disk, Head(es)), Tail(es))
          /\ Len(Tail(es)) <= 1 /\ Tail(es) \in Seq(RefEdit)
      BY <1>a, <2>1, <3>1, LandedNext DEF es
    <3>3. Landed(disk', << >>) = disk'
      BY DEF Landed
    <3>4. Len(Tail(es)) <= 2
      BY <3>2
    <3> QED BY <2>1, <3>1, <3>2, <3>3, <3>4
  <2>3. errs' = 0 => Owes(p)' /\ (pc'[p] \notin Landing => mem' = disk')
    BY <2>1, <2>2 DEF Owes, Landing
  <2> QED BY <1>b, <1>c, <2>3, AgreeHolder
<1>7. CASE AppendErr(p) \/ CompactErr(p)
  <2>1. errs' = errs + 1
    BY <1>7 DEF AppendErr, CompactErr
  <2> QED BY <1>a, <2>1 DEF AgreeInv, TypeOK
<1> QED BY <1>1, <1>2, <1>3, <1>4, <1>5, <1>6, <1>7, <1>8

\* With the same clients, and until a call of the store fails, memory and disk
\* hold the same refs whenever no operation is running: whatever was changed in
\* memory has reached the disk, in the order in which it was changed (set_head,
\* create_branch and record_commit queue; persist drains under the guard).
THEOREM GuardedAgreement == KindsGuarded /\ Spec => []QuietAgreement
<1>1. Init => AgreeInv
  BY DEF Init, AgreeInv, Owes, Landing
<1>2. GInv /\ AgreeInv /\ [Next]_vars => AgreeInv'
  <2> SUFFICES ASSUME GInv, AgreeInv, [Next]_vars PROVE AgreeInv'
    OBVIOUS
  <2>1. TypeOK /\ KindsGuarded
    BY DEF GInv, TypeInv
  <2>2. ASSUME NEW p \in Procs, Client(p) PROVE AgreeInv'
    <3>1. \A q \in Procs : q # p => pc'[q] = pc[q] /\ loc'[q] = loc[q]
      BY <2>1, <2>2, OthersKeep
    <3>2. UNCHANGED <<mem, disk, edits>> /\ pc[p] \notin Landing /\ pc'[p] \notin Landing
      BY <2>1, <2>2, GuardedCall DEF Landing
    <3>3. errs' = errs
      BY <2>2 DEF Client, StartWrite, StartFold, StartInvalidate, StartCreate, StartMerge,
                  StartRewind, StartGc, Start
    <3> QED BY <3>1, <3>2, <3>3, AgreeAside
  <2>3. ASSUME NEW p \in Procs, Step(p) PROVE AgreeInv'
    <3>1. ~(ReadBefore(p) \/ AddSecondParent(p) \/ QueueSecondParent(p))
      BY DEF GInv, LockInv, OpAt, ReadBefore, AddSecondParent, QueueSecondParent
    <3> QED BY <2>3, <3>1, AgreeQuiet, AgreeLanding DEF Step
  <2>4. CASE Crash
    BY <2>4 DEF Crash, AgreeInv, Owes, Landing
  <2>5. CASE UNCHANGED vars
    BY <2>5 DEF vars, AgreeInv, Owes
  <2> QED BY <2>2, <2>3, <2>4, <2>5 DEF Next
<1>3. AgreeInv => QuietAgreement
  BY DEF AgreeInv, QuietAgreement, Landing
<1> QED BY <1>1, <1>2, <1>3, GuardedInit, GuardedNext, PTL DEF Spec

\* The invariant the runs check is the one the proofs above go by.
THEOREM GuardedInvariant == KindsGuarded /\ Spec => []GuardedInv
<1>1. GInv => GuardedInv
  BY DEF GInv, TypeInv, Core, GuardedInv
<1> QED BY <1>1, GuardedInit, GuardedNext, PTL DEF Spec

-----------------------------------------------------------------------------
(* With merges.  A merge persists a second time with no lock held, and may   *)
(* take with it edits another thread has queued: a later frame can then      *)
(* carry an older head, and an answer can come before its edit is durable.   *)
(* The heads still advance, and still name what the pager holds.             *)

\* The clients of this instance call only operations that move a head under the lock.
KindsMerging == Kinds \subseteq MergingKinds

\* Who holds what, in an instance with merges.
MLocks ==
  /\ \A p \in Procs : MergingLocks(p)
  /\ maint # Free => readers = {}

MInv ==
  /\ TypeInv /\ KindsMerging /\ MLocks /\ ChainInv /\ HeadInv /\ TrailInv
  /\ \A p \in Procs : MergingFlight(p)

\* A client's call starts outside every lock and touches only its thread.
LEMMA MergingCall ==
  ASSUME TypeOK, KindsMerging, NEW p \in Procs, Client(p)
  PROVE  /\ pc[p] = "idle" /\ ~loc'[p].edged
         /\ \/ pc'[p] = "before" /\ loc'[p].op = "merge"
            \/ pc'[p] = "lock" /\ loc'[p].op \in {"write", "create"}
            \/ pc'[p] = "maint" /\ loc'[p].op = "fold"
            \/ pc'[p] = "gcMaint"
         /\ UNCHANGED <<manifests, made, chain, mem, disk, edits, wlock, readers,
                        maint, slock, acked>>
<1>1. CASE \E b \in Branches : StartWrite(p, b)
  BY <1>1 DEF StartWrite, Start, Goto, NoLocals, TypeOK, store, locks
<1>2. CASE \E b \in Branches : StartFold(p, b)
  BY <1>2 DEF StartFold, Start, Goto, NoLocals, TypeOK, store, locks
<1>3. CASE \E b, from \in Branches : StartCreate(p, b, from)
  BY <1>3 DEF StartCreate, Start, Goto, NoLocals, TypeOK, store, locks
<1>4. CASE \E b, from \in Branches : StartMerge(p, b, from)
  BY <1>4 DEF StartMerge, Start, Goto, NoLocals, TypeOK, store, locks
<1>5. CASE StartGc(p)
  BY <1>5 DEF StartGc, Start, Goto, NoLocals, TypeOK, store, locks
<1>6. ASSUME NEW b, NEW x, StartInvalidate(p, b) \/ StartRewind(p, b, x)
      PROVE  FALSE
  BY <1>6 DEF StartInvalidate, StartRewind, Start, KindsMerging, MergingKinds, GuardedKinds
<1> QED BY <1>1, <1>2, <1>3, <1>4, <1>5, <1>6 DEF Client

\* An operation that ends gives up what it held, and disturbs no other thread.
LEMMA MergingLeave ==
  ASSUME TypeInv, MLocks, NEW p \in Procs, Leave(p)
  PROVE  MLocks'
<1>1. pc'[p] = "idle" /\ loc'[p] = NoLocals
  BY DEF Leave, TypeInv, TypeOK
<1>2. \A q \in Procs : q # p => pc'[q] = pc[q] /\ loc'[q] = loc[q]
  BY DEF Leave, TypeInv, TypeOK
<1>3. MergingLocks(p)'
  BY <1>1 DEF MergingLocks, Owning, NoLocals
<1>4. ASSUME NEW q \in Procs, q # p PROVE MergingLocks(q)'
  <2>1. MergingLocks(q)
    BY DEF MLocks
  <2> QED BY <1>2, <1>4, <2>1 DEF Leave, Release, MergingLocks, Owning
<1>5. maint' # Free => readers' = {}
  BY DEF Leave, Release, MLocks
<1> QED BY <1>3, <1>4, <1>5 DEF MLocks

\* What a step of p has to show: the others keep their locks, and p holds what
\* its new place calls for.
LEMMA MergingFrame ==
  ASSUME MLocks, NEW p \in Procs,
         \A q \in Procs : q # p => pc'[q] = pc[q] /\ loc'[q] = loc[q],
         \A q \in Procs : q # p => /\ wlock = q => wlock' = q
                                   /\ maint = q => maint' = q
                                   /\ q \in readers => q \in readers',
         MergingLocks(p)', maint' # Free => readers' = {}
  PROVE  MLocks'
<1>1. ASSUME NEW q \in Procs, q # p PROVE MergingLocks(q)'
  <2>1. MergingLocks(q)
    BY DEF MLocks
  <2> QED BY <1>1, <2>1 DEF MergingLocks, Owning
<1> QED BY <1>1 DEF MLocks

\* No step, of any operation that moves a head under the lock, is taken at a
\* place without its locks; only a merge persists without them.
LEMMA MergingLockStep ==
  ASSUME TypeInv, MLocks, NEW p \in Procs, Step(p)
  PROVE  MLocks'
<1> USE BranchAssumption
<1>a. TypeOK /\ MergingLocks(p) /\ (maint # Free => readers = {}) /\ loc[p] \in Locals /\ Placed(p)
  BY DEF TypeInv, TypeOK, MLocks
<1>b. \A q \in Procs : q # p => pc'[q] = pc[q] /\ loc'[q] = loc[q]
  BY <1>a, OthersKeep
<1>1. CASE Leave(p)
  BY <1>1, MergingLeave
<1>2. CASE ~Leave(p) /\ LockAndRead(p)
  <2>1. /\ loc' = [loc EXCEPT ![p].head = mem.branches[loc[p].br]]
        /\ pc'[p] = "commit" /\ wlock = Free /\ wlock' = p
        /\ UNCHANGED <<maint, readers>> /\ pc[p] = "lock" /\ loc[p].op \in {"write", "merge"}
    BY <1>2, <1>a DEF LockAndRead, Goto, TypeOK
  <2>2. loc'[p].op = loc[p].op /\ loc'[p].edged = loc[p].edged
    BY <1>a, <2>1 DEF TypeOK, Locals
  <2>3. MergingLocks(p)'
    BY <1>a, <2>1, <2>2 DEF MergingLocks, Owning
  <2> QED BY <1>a, <1>b, <2>1, <2>3, MergingFrame
<1>3. CASE ~Leave(p) /\ LockAndCreate(p)
  <2>1. /\ loc' = [loc EXCEPT ![p].commit = mem.branches[loc[p].from]]
        /\ pc'[p] = "push" /\ wlock = Free /\ wlock' = p
        /\ UNCHANGED <<maint, readers>> /\ pc[p] = "lock"
    BY <1>3, <1>a DEF LockAndCreate, Goto, TypeOK
  <2>2. loc'[p].op = loc[p].op /\ loc'[p].edged = loc[p].edged
    BY <1>a, <2>1 DEF TypeOK, Locals
  <2>3. MergingLocks(p)'
    BY <1>a, <2>1, <2>2 DEF MergingLocks, Owning
  <2> QED BY <1>a, <1>b, <2>1, <2>3, MergingFrame
<1>4. CASE LockMaintenance(p)
  <2>1. MergingLocks(p)'
    BY <1>4, <1>a DEF LockMaintenance, Goto, TypeOK, MergingLocks, Owning
  <2> QED BY <1>4, <1>a, <1>b, <2>1, MergingFrame DEF LockMaintenance
<1>5. CASE ~Leave(p) /\ ReadHead(p)
  <2>1. /\ loc' = [loc EXCEPT ![p].head = mem.branches[loc[p].br]]
        /\ pc'[p] = "commit" /\ pc[p] = "read"
        /\ UNCHANGED <<wlock, maint, readers>>
    BY <1>5, <1>a DEF ReadHead, Goto, TypeOK, locks
  <2>2. loc'[p].op = loc[p].op /\ loc'[p].edged = loc[p].edged
    BY <1>a, <2>1 DEF TypeOK, Locals
  <2>3. MergingLocks(p)'
    BY <1>a, <2>1, <2>2 DEF MergingLocks, Owning
  <2> QED BY <1>a, <1>b, <2>1, <2>3, MergingFrame
<1>6. CASE Commit(p) \/ CommitNothing(p)
  <2>1. PICK c : loc' = [loc EXCEPT ![p].commit = c]
    BY <1>6 DEF Commit, CommitNothing
  <2>2. /\ pc[p] = "commit" /\ pc'[p] = AfterCommit(p) /\ UNCHANGED <<wlock, maint, readers>>
    BY <1>6, <1>a DEF Commit, CommitNothing, Goto, locks, TypeOK
  <2>3. loc'[p].op = loc[p].op /\ loc'[p].edged = loc[p].edged
    BY <1>a, <2>1 DEF TypeOK, Locals
  <2>4. MergingLocks(p)'
    BY <1>a, <2>2, <2>3 DEF AfterCommit, MergingLocks, Owning
  <2> QED BY <1>a, <1>b, <2>2, <2>4, MergingFrame
<1>7. CASE ~Leave(p) /\ CompareAndSet(p)
  <2>1. CASE UNCHANGED loc
    <3>1. MergingLocks(p)'
      BY <1>7, <1>a, <2>1 DEF CompareAndSet, Goto, TypeOK, locks, MergingLocks, Owning
    <3> QED BY <1>7, <1>a, <1>b, <2>1, <3>1, MergingFrame DEF CompareAndSet, locks
  <2>2. CASE ~UNCHANGED loc
    <3>1. /\ loc' = [loc EXCEPT ![p].tries = @ + 1] /\ pc'[p] = "read" /\ pc[p] = "cas"
          /\ UNCHANGED <<wlock, maint, readers>>
      BY <1>7, <1>a, <2>2 DEF CompareAndSet, Goto, TypeOK, locks
    <3>2. loc'[p].op = loc[p].op /\ loc'[p].edged = loc[p].edged
      BY <1>a, <3>1 DEF TypeOK, Locals
    <3>3. MergingLocks(p)'
      BY <1>a, <3>1, <3>2 DEF MergingLocks, Owning
    <3> QED BY <1>a, <1>b, <3>1, <3>3, MergingFrame
  <2> QED BY <1>7, <2>1, <2>2
<1>8. CASE RecordParents(p) \/ QueueParents(p) \/ MoveHead(p) \/ PushEdit(p)
  <2>1. /\ pc[p] \in {"record", "queue", "sethead", "push"}
        /\ pc'[p] \in {"queue", "sethead", "push", "take"}
        /\ UNCHANGED <<loc, wlock, maint, readers>>
    BY <1>8, <1>a DEF RecordParents, QueueParents, MoveHead, PushEdit, Goto, TypeOK, locks
  <2>2. MergingLocks(p)'
    BY <1>a, <2>1 DEF MergingLocks, Owning
  <2> QED BY <1>a, <1>b, <2>1, <2>2, MergingFrame
<1>9. CASE TakeEdits(p) \/ AppendFrame(p)
  <2>1. PICK es : loc' = [loc EXCEPT ![p].batch = es]
    BY <1>9 DEF TakeEdits, AppendFrame
  <2>2. loc'[p].op = loc[p].op /\ loc'[p].edged = loc[p].edged
    BY <1>a, <2>1 DEF TypeOK, Locals
  <2>3. /\ pc[p] \in {"take", "append"} /\ pc'[p] \in {"append", "done"}
        /\ UNCHANGED <<wlock, maint, readers>>
    BY <1>9, <1>a DEF TakeEdits, AppendFrame, Goto, TypeOK, locks
  <2>4. MergingLocks(p)'
    BY <1>a, <2>2, <2>3 DEF MergingLocks, Owning
  <2> QED BY <1>a, <1>b, <2>3, <2>4, MergingFrame
<1>10. CASE ~Leave(p) /\ Return(p)
  <2>1. Release(p) /\ pc'[p] = "edge" /\ loc'[p] = loc[p] /\ ~loc[p].edged
    BY <1>10, <1>a DEF Return, Goto, TypeOK
  <2>2. MergingLocks(p)'
    BY <1>a, <2>1 DEF MergingLocks, Owning
  <2> QED BY <1>a, <1>b, <2>1, <2>2, MergingFrame DEF Release
<1>11. CASE AddSecondParent(p) /\ UNCHANGED loc
  <2>1. /\ pc[p] = "edge" /\ pc'[p] \in {"queueBoth", "queueSecond"}
        /\ UNCHANGED <<wlock, maint, readers>>
    <3>1. loc[p] # [loc[p] EXCEPT !.edged = TRUE]
      BY <1>11, <1>a DEF AddSecondParent, MergingLocks, Locals
    <3> QED BY <1>11, <1>a, <3>1 DEF AddSecondParent, Goto, TypeOK, locks
  <2>2. MergingLocks(p)'
    BY <1>11, <1>a, <2>1 DEF MergingLocks, Owning
  <2> QED BY <1>a, <1>b, <2>1, <2>2, MergingFrame
<1>13. CASE \/ AddSecondParent(p) /\ ~UNCHANGED loc
            \/ QueueSecondParent(p)
  <2>1. /\ loc' = [loc EXCEPT ![p].edged = TRUE] /\ pc'[p] = "take" /\ loc[p].op = "merge"
        /\ UNCHANGED <<wlock, maint, readers>>
    BY <1>13, <1>a DEF AddSecondParent, QueueSecondParent, Goto, TypeOK, locks, Placed, Edging
  <2>2. loc'[p].op = "merge" /\ loc'[p].edged
    BY <1>a, <2>1 DEF TypeOK, Locals
  <2>3. MergingLocks(p)'
    BY <1>a, <2>1, <2>2 DEF MergingLocks, Owning
  <2> QED BY <1>a, <1>b, <2>1, <2>3, MergingFrame
<1>14. CASE ~Leave(p) /\ ReadBefore(p)
  <2>1. /\ loc' = [loc EXCEPT ![p].before = mem.branches[loc[p].br]]
        /\ pc'[p] = "lock" /\ pc[p] = "before"
        /\ UNCHANGED <<wlock, maint, readers>>
    BY <1>14, <1>a DEF ReadBefore, Goto, TypeOK, locks
  <2>2. loc'[p].op = loc[p].op /\ loc'[p].edged = loc[p].edged
    BY <1>a, <2>1 DEF TypeOK, Locals
  <2>3. MergingLocks(p)'
    BY <1>a, <2>1, <2>2 DEF MergingLocks, Owning
  <2> QED BY <1>a, <1>b, <2>1, <2>3, MergingFrame
<1>12. CASE GcLockMaintenance(p) \/ GcLockHeads(p) \/ GcReadRoots(p)
  <2>1. loc'[p].op = loc[p].op /\ loc'[p].edged = loc[p].edged
    BY <1>12, <1>a DEF GcLockMaintenance, GcLockHeads, GcReadRoots, TypeOK, Locals
  <2>2. MergingLocks(p)'
    BY <1>12, <1>a, <2>1
    DEF GcLockMaintenance, GcLockHeads, GcReadRoots, Goto, TypeOK, locks, MergingLocks, Owning
  <2> QED
    BY <1>12, <1>a, <1>b, <2>2, MergingFrame DEF GcLockMaintenance, GcLockHeads, GcReadRoots, locks
<1> QED
  BY <1>1, <1>2, <1>3, <1>4, <1>5, <1>6, <1>7, <1>8, <1>9, <1>10, <1>11, <1>12, <1>13, <1>14
  DEF Step, CommitErr, AppendErr, CompactErr, GcSweep

-----------------------------------------------------------------------------

\* The steps that move a head in memory.
LEMMA MemMoves ==
  ASSUME MInv, NEW p \in Procs, Client(p) \/ Step(p)
  PROVE  \/ mem'.branches = mem.branches
         \/ LockAndCreate(p) /\ ~(Leave(p) /\ UNCHANGED mem)
         \/ MoveHead(p)
<1>a. TypeOK /\ KindsMerging
  BY DEF MInv, TypeInv
<1>1. CASE Client(p)
  BY <1>a, <1>1, MergingCall
<1>2. CASE RecordParents(p) \/ AddSecondParent(p)
  BY <1>a, <1>2 DEF RecordParents, AddSecondParent, TypeOK, RefsType
<1>3. CASE \/ ReadBefore(p) \/ LockAndRead(p) \/ LockMaintenance(p) \/ ReadHead(p)
           \/ Commit(p) \/ CommitNothing(p) \/ CommitErr(p) \/ CompareAndSet(p)
           \/ QueueParents(p) \/ QueueSecondParent(p) \/ PushEdit(p) \/ TakeEdits(p) \/ AppendFrame(p) \/ AppendErr(p) \/ CompactErr(p) \/ Return(p)
           \/ GcLockMaintenance(p) \/ GcLockHeads(p) \/ GcReadRoots(p) \/ GcSweep(p)
  BY <1>3
  DEF ReadBefore, LockAndRead, LockMaintenance, ReadHead, Commit, CommitNothing, CommitErr,
      CompareAndSet, QueueParents, QueueSecondParent, PushEdit, TakeEdits, AppendFrame, AppendErr, CompactErr, Return,
      GcLockMaintenance, GcLockHeads, GcReadRoots, GcSweep
<1> QED BY <1>1, <1>2, <1>3 DEF Step

\* The steps that change what the pager holds.
LEMMA PagerMoves ==
  ASSUME MInv, NEW p \in Procs, Client(p) \/ Step(p)
  PROVE  UNCHANGED <<manifests, made, chain>> \/ Commit(p) \/ GcSweep(p)
<1>a. TypeOK /\ KindsMerging
  BY DEF MInv, TypeInv
<1>1. CASE Client(p)
  BY <1>a, <1>1, MergingCall
<1>2. CASE \/ ReadBefore(p) \/ QueueParents(p) \/ QueueSecondParent(p)
           \/ LockAndRead(p) \/ LockAndCreate(p) \/ LockMaintenance(p) \/ ReadHead(p)
           \/ CommitNothing(p) \/ CommitErr(p) \/ CompareAndSet(p) \/ RecordParents(p)
           \/ MoveHead(p) \/ PushEdit(p) \/ TakeEdits(p) \/ AppendFrame(p) \/ AppendErr(p)
           \/ CompactErr(p) \/ Return(p) \/ AddSecondParent(p)
           \/ GcLockMaintenance(p) \/ GcLockHeads(p) \/ GcReadRoots(p)
  BY <1>2
  DEF ReadBefore, QueueParents, QueueSecondParent,
      LockAndRead, LockAndCreate, LockMaintenance, ReadHead, CommitNothing, CommitErr,
      CompareAndSet, RecordParents, MoveHead, PushEdit, TakeEdits, AppendFrame, AppendErr,
      CompactErr, Return, AddSecondParent, GcLockMaintenance, GcLockHeads, GcReadRoots, store
<1> QED BY <1>1, <1>2 DEF Step

\* What a step does to a head: the history behind it stays behind it, and what
\* the pager held of that history it still holds.
Onward ==
  \A b \in Branches : mem.branches[b] # Null =>
    /\ mem'.branches[b] # Null
    /\ chain[mem.branches[b]] \subseteq chain'[mem'.branches[b]]
    /\ chain[mem.branches[b]] \cap manifests \subseteq manifests'

\* Every step of every operation takes the heads onward: only a restart does not.
LEMMA MergingOnward ==
  ASSUME MInv, NEW p \in Procs, Client(p) \/ Step(p)
  PROVE  Onward
<1>a. /\ TypeInv /\ TypeOK /\ loc[p].br \in Branches /\ loc[p].from \in Branches
      /\ mem.branches \in [Branches -> Commits \cup {Null}]
      /\ ChainInv /\ HeadInv /\ MergingFlight(p) /\ MergingLocks(p) /\ Placed(p)
      /\ manifests \subseteq made /\ made \subseteq Commits
  BY DEF MInv, MLocks, TypeInv, TypeOK, Locals, RefsType
<1>1. CASE mem'.branches = mem.branches /\ UNCHANGED <<manifests, made, chain>>
  BY <1>1 DEF Onward
<1>2. CASE mem'.branches = mem.branches /\ Commit(p)
  <2>1. \A b \in Branches : mem.branches[b] # Null => mem.branches[b] \in made
    BY <1>a DEF HeadInv
  <2>2. (\A c \in made : chain'[c] = chain[c]) /\ manifests \subseteq manifests'
    BY <1>2, <1>a, CommitChain
  <2> QED BY <1>2, <2>1, <2>2 DEF Onward
<1>3. CASE mem'.branches = mem.branches /\ GcSweep(p)
  <2>1. /\ manifests' = {c \in manifests : \E r \in loc[p].roots : c \in chain[r]}
        /\ UNCHANGED chain /\ pc[p] = "gcSweep"
    BY <1>3 DEF GcSweep
  <2>2. \A b \in Branches : mem.branches[b] # Null => mem.branches[b] \in loc[p].roots
    BY <1>a, <2>1 DEF MergingFlight
  <2> QED BY <1>3, <2>1, <2>2 DEF Onward
<1>4. CASE LockAndCreate(p) /\ ~(Leave(p) /\ UNCHANGED mem)
  <2>1. /\ mem.branches[loc[p].from] # Null /\ mem.branches[loc[p].br] = Null
        /\ mem' = [mem EXCEPT !.branches[loc[p].br] = mem.branches[loc[p].from]]
        /\ UNCHANGED <<manifests, chain>>
    BY <1>4 DEF LockAndCreate, store
  <2>2. \A b \in Branches : b # loc[p].br => mem'.branches[b] = mem.branches[b]
    BY <1>a, <2>1 DEF TypeOK, RefsType
  <2> QED BY <1>a, <2>1, <2>2 DEF Onward
<1>5. CASE MoveHead(p)
  <2>1. /\ mem'.branches[loc[p].br] = loc[p].commit /\ pc[p] = "sethead"
        /\ \A b \in Branches : b # loc[p].br => mem'.branches[b] = mem.branches[b]
        /\ UNCHANGED <<manifests, chain>>
    BY <1>5, <1>a DEF MoveHead, TypeOK, RefsType, store
  <2>2. /\ mem.branches[loc[p].br] = loc[p].head /\ loc[p].head \in chain[loc[p].commit]
        /\ loc[p].commit \in Commits /\ loc[p].commit # Null
    BY <1>a, <2>1, NullAssumption DEF MergingFlight
  <2>3. chain[loc[p].head] \subseteq chain[loc[p].commit]
    BY <1>a, <2>2 DEF ChainInv
  <2> QED BY <1>a, <2>1, <2>2, <2>3 DEF Onward
<1>6. mem'.branches = mem.branches \/ UNCHANGED <<manifests, made, chain>>
  <2>1. \/ UNCHANGED mem
        \/ UNCHANGED <<manifests, made, chain>>
    BY PagerMoves DEF Commit, GcSweep
  <2> QED BY <2>1
<1> QED BY <1>1, <1>2, <1>3, <1>4, <1>5, <1>6, MemMoves, PagerMoves

\* An edit that trails its head goes on trailing it.
LEMMA TrailingOn ==
  ASSUME MInv, Onward
  PROVE  Trailing \subseteq Trailing'
<1> SUFFICES ASSUME NEW e \in Trailing PROVE e \in Trailing'
  OBVIOUS
<1>1. /\ e \in RefEdit /\ e.op # "RemoveBranch"
      /\ e.op \in {"SetHead", "CreateBranch"} =>
           /\ mem.branches[e.name] # Null
           /\ e.at \in chain[mem.branches[e.name]]
           /\ e.at \in manifests
  BY DEF Trailing
<1>2. e.op \in {"SetHead", "CreateBranch"} => e.name \in Branches
  BY <1>1
  DEF RefEdit, SetHead, CreateBranch, RemoveBranch, SetTag, RemoveTag, RecordCommit, AddParent
<1>3. e.op \in {"SetHead", "CreateBranch"} =>
           /\ mem'.branches[e.name] # Null
           /\ e.at \in chain'[mem'.branches[e.name]]
           /\ e.at \in manifests'
  BY <1>1, <1>2 DEF Onward
<1> QED BY <1>1, <1>3 DEF Trailing

\* What a sequence of edits holds when one is added, or the first is taken.
LEMMA ToSetSteps ==
  ASSUME NEW es \in Seq(RefEdit)
  PROVE  /\ \A e \in RefEdit : ToSet(Append(es, e)) \subseteq ToSet(es) \cup {e}
         /\ es # << >> => /\ Head(es) \in ToSet(es) /\ Head(es) \in RefEdit
                          /\ ToSet(Tail(es)) \subseteq ToSet(es)
         /\ ToSet(<< >>) = {}
<1>1. ASSUME NEW e \in RefEdit PROVE ToSet(Append(es, e)) \subseteq ToSet(es) \cup {e}
  <2>1. /\ Len(Append(es, e)) = Len(es) + 1 /\ Append(es, e)[Len(es) + 1] = e
        /\ \A k \in 1 .. Len(es) : Append(es, e)[k] = es[k]
        /\ Len(es) \in Nat /\ DOMAIN es = 1 .. Len(es)
        /\ DOMAIN Append(es, e) = 1 .. Len(es) + 1
    OBVIOUS
  <2> QED BY <2>1 DEF ToSet
<1>2. ASSUME es # << >>
      PROVE  /\ Head(es) \in ToSet(es) /\ Head(es) \in RefEdit
             /\ ToSet(Tail(es)) \subseteq ToSet(es)
  <2>1. /\ Len(es) \in Nat /\ Len(Tail(es)) = Len(es) - 1 /\ Len(es) > 0 /\ Head(es) = es[1]
        /\ \A k \in 1 .. Len(es) - 1 : Tail(es)[k] = es[k + 1]
        /\ DOMAIN es = 1 .. Len(es) /\ DOMAIN Tail(es) = 1 .. Len(es) - 1
    BY <1>2
  <2>2. \A k \in 1 .. Len(es) - 1 : k + 1 \in 1 .. Len(es)
    BY <2>1
  <2>3. es[1] \in RefEdit /\ 1 \in 1 .. Len(es)
    BY <2>1
  <2> QED BY <2>1, <2>2, <2>3 DEF ToSet
<1>3. ToSet(<< >>) = {}
  BY DEF ToSet
<1> QED BY <1>1, <1>2, <1>3

\* What is queued, and what a thread takes and hands to the store, trails the
\* heads: an edit is queued once its head has moved, and heads only go onward.
LEMMA MergingTrails ==
  ASSUME MInv, NEW p \in Procs, Client(p) \/ Step(p)
  PROVE  TrailInv'
<1>a. /\ TypeOK /\ KindsMerging /\ loc[p] \in Locals /\ loc[p].br \in Branches
      /\ edits \in Seq(RefEdit) /\ loc[p].batch \in Seq(RefEdit)
      /\ Placed(p) /\ MergingFlight(p) /\ ChainInv /\ manifests \subseteq made
  BY DEF MInv, TypeInv, TypeOK, Locals
<1>b. \A q \in Procs : q # p => pc'[q] = pc[q] /\ loc'[q] = loc[q]
  BY <1>a, OthersKeep
<1>c. Trailing \subseteq Trailing'
  BY MergingOnward, TrailingOn
<1>d. /\ ToSet(edits) \subseteq Trailing'
      /\ \A q \in Procs : pc[q] = "append" => ToSet(loc[q].batch) \subseteq Trailing'
  BY <1>c DEF MInv, TrailInv
<1>e. ASSUME ToSet(edits') \subseteq Trailing',
             pc'[p] = "append" => ToSet(loc'[p].batch) \subseteq Trailing'
      PROVE  TrailInv'
  BY <1>b, <1>d, <1>e DEF TrailInv
<1>1. CASE UNCHANGED edits /\ pc'[p] # "append"
  BY <1>1, <1>d, <1>e
<1>2. CASE QueueParents(p) \/ QueueSecondParent(p)
  <2>1. pc'[p] # "append"
    BY <1>2, <1>a DEF QueueParents, QueueSecondParent, Goto, TypeOK
  <2>2. CASE UNCHANGED edits
    BY <1>1, <2>1, <2>2
  <2>3. CASE ~UNCHANGED edits
    <3>1. PICK e \in RefEdit : edits' = Append(edits, e) /\ e.op \in {"RecordCommit", "AddParent"}
      <4> DEFINE r(ps) == RecordCommit(loc[p].commit, ps)
                 a(x) == AddParent(loc[p].commit, x)
      <4>1. /\ loc[p].commit \in Commits
            /\ QueueParents(p) => {loc[p].head} \in SUBSET Commits
            /\ QueueSecondParent(p) => BothParents(p) \in SUBSET Commits /\ loc[p].second \in Commits
        BY <1>2, <1>a
        DEF Placed, Publishing, Edging, QueueParents, QueueSecondParent, BothParents
      <4>2. /\ \A ps \in SUBSET Commits : r(ps) \in RefEdit
            /\ \A x \in Commits : a(x) \in RefEdit
            /\ \A x : r(x).op = "RecordCommit" /\ a(x).op = "AddParent"
        BY <4>1, EditTypes DEF RecordCommit, AddParent
      <4>3. \/ \E ps \in SUBSET Commits : edits' = Append(edits, r(ps))
            \/ \E x \in Commits : edits' = Append(edits, a(x))
        BY <1>2, <4>1 DEF QueueParents, QueueSecondParent
      <4> HIDE DEF r, a
      <4> QED BY <4>2, <4>3
    <3>2. e \in Trailing'
      BY <3>1 DEF Trailing
    <3> QED BY <1>a, <1>d, <1>e, <2>1, <3>1, <3>2, ToSetSteps
  <2> QED BY <2>2, <2>3
<1>3. CASE PushEdit(p)
  <2> DEFINE b == loc[p].br
             c == loc[p].commit
             e == IF loc[p].op = "create" THEN CreateBranch(b, c) ELSE SetHead(b, c)
  <2>1. /\ pc[p] = "push" /\ pc'[p] = "take" /\ edits' = Append(edits, e) /\ c \in Commits
    BY <1>3, <1>a DEF PushEdit, Goto, TypeOK, Placed, Publishing
  <2>2. mem.branches[b] = c /\ c \in manifests /\ c # Null /\ c \in chain[c]
    BY <1>a, <2>1, NullAssumption DEF MergingFlight, ChainInv
  <2>3. /\ e \in RefEdit /\ e.op \in {"SetHead", "CreateBranch"} /\ e.name = b /\ e.at = c
    BY <1>a, <2>1, EditTypes DEF SetHead, CreateBranch
  <2> HIDE DEF e
  <2>4. e \in Trailing
    BY <2>2, <2>3 DEF Trailing
  <2> QED BY <1>a, <1>c, <1>d, <1>e, <2>1, <2>3, <2>4, ToSetSteps
<1>4. CASE TakeEdits(p)
  <2>1. edits' = << >> /\ loc'[p].batch = edits
    BY <1>4, <1>a DEF TakeEdits, TypeOK, Locals
  <2> QED BY <1>a, <1>d, <1>e, <2>1, ToSetSteps
<1>5. CASE AppendFrame(p)
  <2>1. /\ UNCHANGED edits /\ loc'[p].batch = Tail(loc[p].batch)
        /\ pc[p] = "append" /\ loc[p].batch # << >>
    BY <1>5, <1>a DEF AppendFrame, TypeOK, Locals, Placed
  <2> QED BY <1>a, <1>d, <1>e, <2>1, ToSetSteps
<1>6. CASE Client(p)
  BY <1>1, <1>6, <1>a, MergingCall
<1>7. CASE \/ ReadBefore(p) \/ LockAndRead(p) \/ LockAndCreate(p) \/ LockMaintenance(p)
           \/ ReadHead(p) \/ Commit(p) \/ CommitNothing(p) \/ CommitErr(p) \/ CompareAndSet(p)
           \/ RecordParents(p) \/ AddSecondParent(p) \/ MoveHead(p) \/ AppendErr(p) \/ CompactErr(p) \/ Return(p)
           \/ GcLockMaintenance(p) \/ GcLockHeads(p) \/ GcReadRoots(p) \/ GcSweep(p)
  <2>1. UNCHANGED edits /\ pc'[p] # "append"
    BY <1>7, <1>a
    DEF ReadBefore, LockAndRead, LockAndCreate, LockMaintenance, ReadHead, Commit, CommitNothing,
        CommitErr, CompareAndSet, RecordParents, AddSecondParent, MoveHead, AppendErr, CompactErr, Return, GcLockMaintenance, GcLockHeads,
        GcReadRoots, GcSweep, AfterCommit, Leave, Goto, TypeOK
  <2> QED BY <1>1, <2>1
<1> QED BY <1>2, <1>3, <1>4, <1>5, <1>6, <1>7 DEF Step

\* The pager holds every head, in memory and on disk, and the disk's trails memory's.
LEMMA MergingHeads ==
  ASSUME MInv, NEW p \in Procs, Client(p) \/ Step(p)
  PROVE  ChainInv' /\ HeadInv'
<1>a. /\ TypeInv /\ TypeOK /\ KindsMerging /\ loc[p].br \in Branches /\ loc[p].from \in Branches
      /\ mem.branches \in [Branches -> Commits \cup {Null}]
      /\ disk.branches \in [Branches -> Commits \cup {Null}]
      /\ ChainInv /\ HeadInv /\ MergingFlight(p) /\ Placed(p) /\ TrailInv
      /\ loc[p].batch \in Seq(RefEdit) /\ manifests \subseteq made /\ made \subseteq Commits
  BY DEF MInv, TypeInv, TypeOK, Locals, RefsType
<1>b. Onward
  BY MergingOnward
<1>1. ChainInv'
  <2>1. CASE UNCHANGED <<manifests, made, chain>>
    BY <1>a, <2>1 DEF ChainInv
  <2>2. CASE Commit(p)
    BY <1>a, <2>2, CommitChain
  <2>3. CASE GcSweep(p)
    BY <1>a, <2>3 DEF GcSweep, ChainInv
  <2> QED BY <2>1, <2>2, <2>3, PagerMoves
<1>2. ASSUME NEW b \in Branches, mem'.branches[b] # Null PROVE mem'.branches[b] \in manifests'
  <2>1. CASE mem'.branches[b] = mem.branches[b]
    <3>1. mem.branches[b] \in chain[mem.branches[b]] \cap manifests
      BY <1>2, <1>a, <2>1 DEF HeadInv, ChainInv
    <3> QED BY <1>2, <1>b, <2>1, <3>1 DEF Onward
  <2>2. CASE LockAndCreate(p) /\ ~(Leave(p) /\ UNCHANGED mem)
    <3>1. /\ mem' = [mem EXCEPT !.branches[loc[p].br] = mem.branches[loc[p].from]]
          /\ UNCHANGED manifests
      BY <2>2 DEF LockAndCreate, store
    <3>2. mem'.branches[b] \in {mem.branches[b], mem.branches[loc[p].from]}
      BY <1>a, <3>1 DEF TypeOK, RefsType
    <3> QED BY <1>2, <1>a, <3>1, <3>2 DEF HeadInv
  <2>3. CASE MoveHead(p)
    <3>1. /\ mem' = [mem EXCEPT !.branches[loc[p].br] = loc[p].commit]
          /\ UNCHANGED manifests /\ pc[p] = "sethead"
      BY <2>3 DEF MoveHead, store
    <3>2. mem'.branches[b] \in {mem.branches[b], loc[p].commit}
      BY <1>a, <3>1 DEF TypeOK, RefsType
    <3>3. loc[p].commit \in manifests
      BY <1>a, <3>1 DEF MergingFlight
    <3> QED BY <1>2, <1>a, <3>1, <3>2, <3>3 DEF HeadInv
  <2> QED BY <2>1, <2>2, <2>3, MemMoves
<1>3. ASSUME NEW b \in Branches, disk.branches[b] # Null
      PROVE  /\ disk.branches[b] \in manifests' /\ mem'.branches[b] # Null
             /\ disk.branches[b] \in chain'[mem'.branches[b]]
  BY <1>3, <1>a, <1>b DEF HeadInv, Onward
<1>4. CASE UNCHANGED disk
  BY <1>1, <1>2, <1>3, <1>4 DEF HeadInv
<1>5. CASE AppendFrame(p) \/ CompactErr(p)
  <2> DEFINE es == loc[p].batch
             e  == Head(es)
  <2>1. pc[p] = "append" /\ es # << >> /\ disk' = ApplyEdit(disk, e)
    BY <1>5, <1>a DEF AppendFrame, CompactErr, Placed
  <2>2. e \in ToSet(es) /\ ToSet(es) \subseteq Trailing
    BY <1>a, <2>1, ToSetSteps DEF TrailInv
  <2> HIDE DEF e, es
  <2>3. e \in Trailing'
    BY <1>b, <2>2, TrailingOn
  <2>4. ASSUME NEW b \in Branches, disk'.branches[b] # Null
        PROVE  /\ disk'.branches[b] \in manifests' /\ mem'.branches[b] # Null
               /\ disk'.branches[b] \in chain'[mem'.branches[b]]
    <3>1. \/ disk'.branches[b] = disk.branches[b]
          \/ e.op \in {"SetHead", "CreateBranch"} /\ e.name = b /\ disk'.branches[b] = e.at
      BY <1>a, <2>1, <2>3 DEF ApplyEdit, Trailing
    <3> QED BY <1>3, <2>3, <2>4, <3>1 DEF Trailing
  <2> QED BY <1>1, <1>2, <2>4 DEF HeadInv
<1>6. UNCHANGED disk \/ AppendFrame(p) \/ CompactErr(p)
  <2>1. CASE Client(p)
    BY <1>a, <2>1, MergingCall
  <2>2. CASE \/ ReadBefore(p) \/ QueueParents(p) \/ QueueSecondParent(p)
             \/ LockAndRead(p) \/ LockAndCreate(p) \/ LockMaintenance(p) \/ ReadHead(p)
             \/ Commit(p) \/ CommitNothing(p) \/ CommitErr(p) \/ CompareAndSet(p)
             \/ RecordParents(p) \/ MoveHead(p) \/ PushEdit(p) \/ TakeEdits(p)
             \/ AppendErr(p) \/ Return(p) \/ AddSecondParent(p)
             \/ GcLockMaintenance(p) \/ GcLockHeads(p) \/ GcReadRoots(p) \/ GcSweep(p)
    BY <2>2
    DEF ReadBefore, QueueParents, QueueSecondParent,
        LockAndRead, LockAndCreate, LockMaintenance, ReadHead, Commit, CommitNothing, CommitErr,
        CompareAndSet, RecordParents, MoveHead, PushEdit, TakeEdits, AppendErr, Return,
        AddSecondParent, GcLockMaintenance, GcLockHeads, GcReadRoots, GcSweep
  <2> QED BY <2>1, <2>2 DEF Step
<1> QED BY <1>4, <1>5, <1>6

\* The commits of the other threads get no further and lose nothing: whoever
\* moves a head or sweeps does it under a lock they would have to hold.
LEMMA MergingOthers ==
  ASSUME MInv, NEW p \in Procs, Client(p) \/ Step(p), NEW q \in Procs, q # p
  PROVE  MergingFlight(q)'
<1>a. /\ TypeInv /\ TypeOK /\ ChainInv /\ MLocks /\ manifests \subseteq made
      /\ MergingFlight(q) /\ MergingLocks(q) /\ MergingLocks(p)
  BY DEF MInv, MLocks, TypeInv, TypeOK
<1>b. pc'[q] = pc[q] /\ loc'[q] = loc[q]
  BY <1>a, OthersKeep
<1>1. wlock = q => mem'.branches = mem.branches
  <2>1. CASE MoveHead(p)
    BY <1>a, <2>1 DEF MoveHead, MergingLocks, Owning
  <2>2. CASE LockAndCreate(p)
    BY <2>2, BranchAssumption DEF LockAndCreate
  <2> QED BY <2>1, <2>2, MemMoves
<1>2. ASSUME pc[q] \in {"cas", "record", "queue", "sethead", "push"}
      PROVE  /\ loc[q].commit \in manifests'
             /\ pc[q] # "push" => loc[q].head \in chain'[loc[q].commit]
  <2>0. /\ loc[q].commit \in manifests
        /\ pc[q] # "push" => loc[q].head \in chain[loc[q].commit]
    BY <1>2, <1>a DEF MergingFlight
  <2>1. CASE UNCHANGED <<manifests, made, chain>>
    BY <2>0, <2>1
  <2>2. CASE Commit(p)
    BY <1>a, <2>0, <2>2, CommitChain
  <2>3. CASE GcSweep(p)
    <3>1. wlock = p /\ maint = p
      BY <1>a, <2>3 DEF GcSweep, MergingLocks
    <3>2. readers = {}
      BY <1>a, <3>1, BranchAssumption DEF MLocks
    <3>3. pc[q] = "cas" => q \in readers
      BY <1>a DEF MergingLocks
    <3>4. pc[q] \in {"record", "queue", "sethead", "push"} => wlock = q
      BY <1>a DEF MergingLocks, Owning
    <3> QED BY <1>2, <3>1, <3>2, <3>3, <3>4
  <2> QED BY <2>1, <2>2, <2>3, PagerMoves
<1>3. /\ pc[q] \in {"record", "queue", "sethead", "push", "gcSweep"} => wlock = q
      /\ pc[q] = "commit" /\ loc[q].op # "fold" => wlock = q
  BY <1>a DEF MergingLocks, Owning
<1> QED BY <1>a, <1>b, <1>1, <1>2, <1>3 DEF MergingFlight

\* The thread that takes a step gets its own commit further.
LEMMA MergingOwn ==
  ASSUME MInv, NEW p \in Procs, Client(p) \/ Step(p)
  PROVE  MergingFlight(p)'
<1>a. /\ TypeInv /\ TypeOK /\ KindsMerging /\ ChainInv /\ HeadInv /\ manifests \subseteq made
      /\ MergingFlight(p) /\ MergingLocks(p) /\ Placed(p)
      /\ loc[p] \in Locals /\ loc[p].br \in Branches /\ loc[p].from \in Branches
      /\ mem.branches \in [Branches -> Commits \cup {Null}]
  BY DEF MInv, MLocks, TypeInv, TypeOK, Locals, RefsType
<1>1. CASE pc'[p] \notin {"commit", "cas", "record", "queue", "sethead", "push", "gcSweep"}
  BY <1>1 DEF MergingFlight
<1>2. CASE Client(p)
  <2>1. pc'[p] \in {"before", "lock", "maint", "gcMaint"}
    BY <1>2, <1>a, MergingCall
  <2> QED BY <1>1, <2>1
<1>3. CASE ~Leave(p) /\ (LockAndRead(p) \/ ReadHead(p))
  <2>1. /\ loc' = [loc EXCEPT ![p].head = mem.branches[loc[p].br]] /\ UNCHANGED mem
        /\ pc'[p] = "commit" /\ mem.branches[loc[p].br] # Null
    BY <1>3, <1>a DEF LockAndRead, ReadHead, Goto, TypeOK
  <2>2. loc'[p].head = mem.branches[loc[p].br] /\ loc'[p].br = loc[p].br
    BY <1>a, <2>1 DEF TypeOK, Locals
  <2> QED BY <2>1, <2>2 DEF MergingFlight
<1>4. CASE LockAndCreate(p) /\ ~(Leave(p) /\ UNCHANGED mem)
  <2>1. /\ mem.branches[loc[p].from] # Null
        /\ mem' = [mem EXCEPT !.branches[loc[p].br] = mem.branches[loc[p].from]]
        /\ loc' = [loc EXCEPT ![p].commit = mem.branches[loc[p].from]]
        /\ pc'[p] = "push" /\ UNCHANGED manifests
    BY <1>4, <1>a DEF LockAndCreate, Goto, TypeOK, store
  <2>2. /\ loc'[p].commit = mem.branches[loc[p].from] /\ loc'[p].br = loc[p].br
        /\ mem'.branches[loc[p].br] = mem.branches[loc[p].from]
    BY <1>a, <2>1 DEF TypeOK, Locals, RefsType
  <2> QED BY <1>a, <2>1, <2>2 DEF MergingFlight, HeadInv
<1>5. CASE Commit(p)
  <2>1. /\ NewCommit \in manifests' /\ loc[p].head \in chain'[NewCommit]
    BY <1>5, <1>a, CommitChain
  <2>2. /\ pc[p] = "commit" /\ pc'[p] = AfterCommit(p) /\ UNCHANGED mem
        /\ loc' = [loc EXCEPT ![p].commit = NewCommit]
    BY <1>5, <1>a DEF Commit, Goto, TypeOK
  <2> HIDE DEF NewCommit
  <2>3. /\ loc'[p].commit = NewCommit /\ loc'[p].head = loc[p].head
        /\ loc'[p].br = loc[p].br /\ loc'[p].op = loc[p].op
    BY <1>a, <2>2 DEF TypeOK, Locals
  <2> QED BY <1>a, <2>1, <2>2, <2>3 DEF AfterCommit, MergingFlight
<1>6. CASE CommitNothing(p)
  <2>1. /\ pc[p] = "commit" /\ pc'[p] = AfterCommit(p) /\ UNCHANGED <<mem, manifests, chain>>
        /\ loc' = [loc EXCEPT ![p].commit = loc[p].head] /\ loc[p].head \in manifests
    BY <1>6, <1>a DEF CommitNothing, Goto, TypeOK, store
  <2>2. /\ loc'[p].commit = loc[p].head /\ loc'[p].head = loc[p].head
        /\ loc'[p].br = loc[p].br /\ loc'[p].op = loc[p].op
    BY <1>a, <2>1 DEF TypeOK, Locals
  <2>3. loc[p].head \in chain[loc[p].head]
    BY <1>a, <2>1 DEF ChainInv
  <2> QED BY <1>a, <2>1, <2>2, <2>3 DEF AfterCommit, MergingFlight
<1>7. CASE CompareAndSet(p) /\ pc'[p] = "record"
  <2>1. /\ pc[p] = "cas" /\ mem.branches[loc[p].br] = loc[p].head
        /\ UNCHANGED <<mem, manifests, chain, loc>>
    BY <1>7, <1>a DEF CompareAndSet, Leave, Goto, TypeOK, store
  <2> QED BY <1>7, <1>a, <2>1 DEF MergingFlight
<1>8. CASE RecordParents(p) \/ QueueParents(p)
  <2>1. /\ pc[p] \in {"record", "queue"} /\ pc'[p] \in {"queue", "sethead"}
        /\ mem'.branches = mem.branches /\ UNCHANGED <<manifests, chain, loc>>
    BY <1>8, <1>a DEF RecordParents, QueueParents, Goto, TypeOK, RefsType, store
  <2> QED BY <1>a, <2>1 DEF MergingFlight
<1>9. CASE MoveHead(p)
  <2>1. /\ pc[p] = "sethead" /\ pc'[p] = "push" /\ mem'.branches[loc[p].br] = loc[p].commit
        /\ UNCHANGED <<manifests, loc>>
    BY <1>9, <1>a DEF MoveHead, Goto, TypeOK, RefsType, store
  <2> QED BY <1>a, <2>1 DEF MergingFlight
<1>10. CASE GcReadRoots(p)
  <2>1. loc'[p].roots = Roots(mem) /\ pc'[p] = "gcSweep" /\ UNCHANGED mem
    BY <1>10, <1>a DEF GcReadRoots, Goto, TypeOK, Locals
  <2>2. \A b \in Branches : mem.branches[b] # Null => mem.branches[b] \in Roots(mem)
    BY DEF Roots
  <2> QED BY <2>1, <2>2 DEF MergingFlight
<1>11. CASE \/ Leave(p) \/ LockMaintenance(p) \/ PushEdit(p) \/ TakeEdits(p) \/ AppendFrame(p)
            \/ Return(p) \/ AddSecondParent(p) \/ QueueSecondParent(p) \/ ReadBefore(p)
            \/ GcLockMaintenance(p) \/ GcLockHeads(p)
  <2>1. pc'[p] \in {"idle", "lock", "queueBoth", "queueSecond", "read", "take", "append", "done", "edge", "gcLock", "gcRoots"}
    BY <1>11, <1>a
    DEF LockMaintenance, PushEdit, TakeEdits, AppendFrame, Return, AddSecondParent,
        QueueSecondParent, ReadBefore,
        GcLockMaintenance, GcLockHeads, Leave, Goto, TypeOK
  <2> QED BY <1>1, <2>1
<1>12. CASE CompareAndSet(p) /\ pc'[p] # "record"
  <2>1. pc'[p] \in {"idle", "read"}
    BY <1>12, <1>a DEF CompareAndSet, Leave, Goto, TypeOK
  <2> QED BY <1>1, <2>1
<1> QED
  BY <1>2, <1>3, <1>4, <1>5, <1>6, <1>7, <1>8, <1>9, <1>10, <1>11, <1>12
  DEF Step, CommitErr, AppendErr, CompactErr, GcSweep

LEMMA MergingInit == KindsMerging /\ Init => MInv
<1> SUFFICES ASSUME KindsMerging, Init PROVE MInv
  OBVIOUS
<1>1. TypeInv
  BY TypeInit
<1>2. MLocks /\ \A p \in Procs : MergingFlight(p)
  BY DEF Init, MLocks, MergingLocks, Owning, MergingFlight, NoLocals
<1>3. ChainInv
  BY BranchAssumption DEF Init, ChainInv
<1>4. mem = disk /\ \A b \in Branches : mem.branches[b] = IF b = Main THEN RootCommit ELSE Null
  BY BranchAssumption DEF Init, Rooted, EmptyRefs
<1>5. HeadInv
  BY <1>4, BranchAssumption DEF Init, HeadInv
<1>6. TrailInv
  BY DEF Init, TrailInv, ToSet
<1> QED BY <1>1, <1>2, <1>3, <1>5, <1>6 DEF MInv

\* A restart drops the queue and every batch, and takes memory back to the disk.
LEMMA MergingCrash ==
  ASSUME MInv, Crash
  PROVE  MInv'
<1>1. /\ mem' = disk /\ edits' = << >> /\ pc' = [p \in Procs |-> "idle"]
      /\ loc' = [p \in Procs |-> NoLocals] /\ maint' = Free /\ readers' = {}
      /\ UNCHANGED <<manifests, made, chain, disk>>
  BY DEF Crash, store
<1>2. TypeInv' /\ KindsMerging'
  BY TypeCrash DEF MInv, KindsMerging
<1>3. MLocks'
  BY <1>1 DEF MLocks, MergingLocks, Owning, NoLocals
<1>4. \A p \in Procs : MergingFlight(p)'
  BY <1>1 DEF MergingFlight
<1>5. ChainInv' /\ HeadInv'
  BY <1>1 DEF MInv, TypeInv, TypeOK, HeadInv, ChainInv
<1>6. TrailInv'
  BY <1>1 DEF TrailInv, ToSet
<1> QED BY <1>2, <1>3, <1>4, <1>5, <1>6 DEF MInv

LEMMA MergingNext == MInv /\ [Next]_vars => MInv'
<1> SUFFICES ASSUME MInv, [Next]_vars PROVE MInv'
  OBVIOUS
<1>1. TypeInv' /\ KindsMerging'
  BY TypeNext DEF MInv, KindsMerging
<1>2. ASSUME NEW p \in Procs, Client(p) \/ Step(p) PROVE MInv'
  <2>1. MLocks'
    <3>1. CASE Step(p)
      BY <3>1, MergingLockStep DEF MInv
    <3>2. CASE Client(p)
      <4>1. TypeOK /\ KindsMerging /\ MLocks
        BY DEF MInv, TypeInv
      <4>2. \A q \in Procs : q # p => pc'[q] = pc[q] /\ loc'[q] = loc[q]
        BY <3>2, <4>1, OthersKeep
      <4>3. MergingLocks(p)'
        BY <3>2, <4>1, MergingCall DEF MergingLocks, Owning
      <4>4. UNCHANGED <<wlock, maint, readers>> /\ (maint # Free => readers = {})
        BY <3>2, <4>1, MergingCall DEF MLocks
      <4> QED BY <4>1, <4>2, <4>3, <4>4, MergingFrame
    <3> QED BY <1>2, <3>1, <3>2
  <2>2. \A q \in Procs : MergingFlight(q)'
    BY <1>2, MergingOwn, MergingOthers
  <2> QED BY <1>1, <1>2, <2>1, <2>2, MergingTrails, MergingHeads DEF MInv
<1>3. CASE UNCHANGED vars
  <2>1. MLocks' /\ ChainInv' /\ HeadInv'
    BY <1>3 DEF MInv, vars, MLocks, MergingLocks, Owning, ChainInv, HeadInv
  <2>2. TrailInv' /\ \A q \in Procs : MergingFlight(q)'
    BY <1>3 DEF MInv, vars, TrailInv, Trailing, MergingFlight
  <2> QED BY <1>1, <2>1, <2>2 DEF MInv
<1> QED BY <1>2, <1>3, MergingCrash DEF Next

\* When clients write, fold, create branches, collect garbage and merge, the
\* collector never deletes a manifest that a branch head in memory or on disk
\* names: neither one it finds, nor one that an edit still on its way will name.
THEOREM MergingNoDangling == KindsMerging /\ Spec => []NoDanglingRefs
<1>1. MInv => NoDanglingRefs
  BY DEF MInv, HeadInv, NoDanglingRefs
<1> QED BY <1>1, MergingInit, MergingNext, PTL DEF Spec

\* With the same clients a branch head in memory only ever moves to a commit
\* built on it, a restart aside: no fold, write, merge or create drops another's.
THEOREM MergingAdvance == KindsMerging /\ Spec => HeadsOnlyAdvance
<1> DEFINE A == crashes' = crashes =>
                  \A b \in Branches :
                    mem.branches[b] # Null =>
                      /\ mem'.branches[b] # Null
                      /\ mem.branches[b] \in chain'[mem'.branches[b]]
<1>1. MInv /\ [Next]_vars => [A]_vars
  <2> SUFFICES ASSUME MInv, Next, crashes' = crashes, NEW b \in Branches,
                      mem.branches[b] # Null
               PROVE  /\ mem'.branches[b] # Null
                      /\ mem.branches[b] \in chain'[mem'.branches[b]]
    OBVIOUS
  <2>1. PICK p \in Procs : Client(p) \/ Step(p)
    <3>1. ~Crash
      BY DEF Crash, MInv, TypeInv, TypeOK
    <3> QED BY <3>1 DEF Next
  <2>2. mem.branches[b] \in chain[mem.branches[b]]
    BY DEF MInv, TypeInv, TypeOK, HeadInv, ChainInv
  <2> QED BY <2>1, <2>2, MergingOnward DEF Onward
<1> HIDE DEF A
<1>2. KindsMerging /\ Spec => [][A]_vars
  BY <1>1, MergingInit, MergingNext, PTL DEF Spec
<1> QED BY <1>2 DEF A, HeadsOnlyAdvance

\* The invariant that the module states for clients that merge as well holds: it
\* is the one the two theorems above go by.
THEOREM MergingInvariant == KindsMerging /\ Spec => []MergingInv
<1>1. MInv => MergingInv
  BY DEF MInv, TypeInv, MLocks, MergingInv
<1> QED BY <1>1, MergingInit, MergingNext, PTL DEF Spec
=============================================================================
