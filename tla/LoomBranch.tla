----------------------------- MODULE LoomBranch -----------------------------
(***************************************************************************)
(* The publication protocol of crates/loom-branch/src/session.rs: how      *)
(* threads that share one Loom move branch heads, make the moves durable,  *)
(* and reclaim commits nothing points at.                                  *)
(*                                                                         *)
(* Each operation is split where another thread can get in: at the head-   *)
(* mutation lock (write_guard), the maintenance lock, the in-memory refs   *)
(* mutex, the queue of pending edits, and every frame the store appends.   *)
(* The store itself is the contract of module RefStore: the frames of one  *)
(* apply() land in order, and a crash or an I/O error may cut them short.  *)
(*                                                                         *)
(* Records are abstracted away; a commit is an id with its history.  The   *)
(* pager is external: commit() makes the manifest durable before it        *)
(* returns, fork() needs the manifest, gc() keeps the history of its roots.*)
(***************************************************************************)
EXTENDS Refs

CONSTANTS
  Main,         \* the branch every session forks
  RootCommit,   \* the pager's root manifest
  Procs,        \* threads sharing the Loom
  Free,         \* "nobody holds this lock"
  Kinds,        \* the operations clients of this instance call
  MaxRetries,   \* ann_fold's MAX_RETRIES (8 in the code)
  MaxOps,       \* bound: operations started in a behaviour
  MaxCrashes,   \* bound: crashes
  MaxErrs       \* bound: operations failed by the pager or the store

AllKinds == {"write", "fold", "create", "gc", "merge", "invalidate", "rewind"}

ASSUME BranchAssumption ==
  /\ Main \in Branches
  /\ RootCommit \in Commits
  /\ Free \notin Procs
  /\ Kinds \subseteq AllKinds
  /\ MaxRetries \in Nat \ {0}
  /\ MaxOps \in Nat /\ MaxCrashes \in Nat /\ MaxErrs \in Nat

VARIABLES
  manifests,  \* commits whose manifest the pager holds
  made,       \* every commit ever made
  chain,      \* chain[c]: c and its ancestors along Manifest::parent
  mem,        \* Loom::refs
  disk,       \* what RefStore::load would return
  edits,      \* Loom::ref_edits, changes not yet handed to the store
  wlock,      \* Loom::write_lock
  readers,    \* Loom::maintenance_lock, shared holders
  maint,      \* Loom::maintenance_lock, exclusive holder
  slock,      \* the store's own mutex, held for the whole of one apply()
  pc, loc,    \* each thread's place and locals
  acked,      \* history: commits whose operation returned Ok, by branch
  ops, crashes, errs

vars == <<manifests, made, chain, mem, disk, edits, wlock, readers, maint,
          slock, pc, loc, acked, ops, crashes, errs>>

store   == <<manifests, made, chain>>
locks   == <<wlock, readers, maint, slock>>
history == <<acked, ops, crashes, errs>>

\* A thread's locals.
Locals ==
  [op     : AllKinds \cup {"none"},
   br     : Branches,                \* the branch the operation moves
   from   : Branches,                \* create: the branch forked; merge: the source
   head   : Commits \cup {Null},     \* the head it read
   commit : Commits \cup {Null},     \* the commit it publishes
   second : Commits \cup {Null},     \* merge: the source head it read
   before : Commits \cup {Null},     \* merge: the target head it read before the write
   batch  : Seq(RefEdit),            \* the edits it took from the queue
   tries  : Nat,
   edged  : BOOLEAN,                 \* merge: the second parent has been added
   roots  : SUBSET Commits]          \* gc: the roots it read

NoLocals ==
  [op |-> "none", br |-> Main, from |-> Main, head |-> Null, commit |-> Null,
   second |-> Null, before |-> Null, batch |-> << >>, tries |-> 0, edged |-> FALSE, roots |-> {}]

Places == {"idle", "before", "lock", "maint", "read", "commit", "cas", "record",
           "queue", "sethead", "push", "take", "append", "done",
           "edge", "queueBoth", "queueSecond",
           "gcMaint", "gcLock", "gcRoots", "gcSweep"}

-----------------------------------------------------------------------------

\* A fresh manifest id.
NewCommit == CHOOSE c \in Commits : c \notin made

\* Mutant: the exclusive maintenance guard outlives its operation.
ReleaseButMaintenance(p) ==
  /\ wlock' = IF wlock = p THEN Free ELSE wlock
  /\ maint' = maint
  /\ slock' = IF slock = p THEN Free ELSE slock
  /\ readers' = readers \ {p}

\* Drop every guard p holds: the end of the function that took them.
Release(p) ==
  /\ wlock' = IF wlock = p THEN Free ELSE wlock
  /\ maint' = IF maint = p THEN Free ELSE maint
  /\ slock' = IF slock = p THEN Free ELSE slock
  /\ readers' = readers \ {p}

\* p's operation is over.
Leave(p) ==
  /\ Release(p)
  /\ pc' = [pc EXCEPT ![p] = "idle"]
  /\ loc' = [loc EXCEPT ![p] = NoLocals]

Goto(p, place) == pc' = [pc EXCEPT ![p] = place]

Init ==
  /\ manifests = {RootCommit}
  /\ made = {RootCommit}
  /\ chain = [c \in Commits |-> IF c = RootCommit THEN {c} ELSE {}]
  /\ mem = Rooted(Main, RootCommit)
  /\ disk = mem
  /\ edits = << >>
  /\ wlock = Free /\ readers = {} /\ maint = Free /\ slock = Free
  /\ pc = [p \in Procs |-> "idle"]
  /\ loc = [p \in Procs |-> NoLocals]
  /\ acked = [b \in Branches |-> {}]
  /\ ops = 0 /\ crashes = 0 /\ errs = 0

-----------------------------------------------------------------------------
(* A client calls an operation. *)

Start(p, kind, place, locals) ==
  /\ pc[p] = "idle"
  /\ kind \in Kinds
  /\ ops < MaxOps /\ ops' = ops + 1
  /\ Goto(p, place)
  /\ loc' = [loc EXCEPT ![p] = locals]
  /\ UNCHANGED <<store, mem, disk, edits, locks, acked, crashes, errs>>

\* write_all and its callers, ann_insert, build_ann_index.
StartWrite(p, b) ==
  Start(p, "write", "lock", [NoLocals EXCEPT !.op = "write", !.br = b])

\* open_session_named and branch().
StartCreate(p, b, from) ==
  Start(p, "create", "lock", [NoLocals EXCEPT !.op = "create", !.br = b, !.from = from])

\* merge_checked reads the source head with no lock held.
StartMerge(p, b, from) ==
  /\ mem.branches[from] # Null
  /\ Start(p, "merge", "before",
           [NoLocals EXCEPT !.op = "merge", !.br = b, !.from = from,
                            !.second = mem.branches[from]])

\* ann_fold.
StartFold(p, b) ==
  Start(p, "fold", "maint", [NoLocals EXCEPT !.op = "fold", !.br = b])

\* invalidate_and_deindex takes neither lock.
StartInvalidate(p, b) ==
  Start(p, "invalidate", "read", [NoLocals EXCEPT !.op = "invalidate", !.br = b])

\* rewind takes neither lock and does not look at the commit it is given.
StartRewind(p, b, to) ==
  /\ mem.branches[b] # Null
  /\ Start(p, "rewind", "sethead",
           [NoLocals EXCEPT !.op = "rewind", !.br = b, !.commit = to])

\* gc.
StartGc(p) == Start(p, "gc", "gcMaint", [NoLocals EXCEPT !.op = "gc"])

-----------------------------------------------------------------------------
(* Reading a head, committing, publishing. *)

\* write_merge reads the target head before the write, with no lock held.
ReadBefore(p) ==
  /\ pc[p] = "before"
  /\ IF mem.branches[loc[p].br] = Null
     THEN Leave(p)
     ELSE /\ loc' = [loc EXCEPT ![p].before = mem.branches[loc[p].br]]
          /\ Goto(p, "lock")
          /\ UNCHANGED locks
  /\ UNCHANGED <<store, mem, disk, edits, history>>

\* write_guard(), then head(): the head is read under the lock.  A missing
\* branch is an error, and the guard is dropped.
LockAndRead(p) ==
  /\ pc[p] = "lock" /\ loc[p].op \in {"write", "merge"}
  /\ wlock = Free
  /\ IF mem.branches[loc[p].br] = Null
     THEN Leave(p)
     ELSE /\ wlock' = p
          /\ loc' = [loc EXCEPT ![p].head = mem.branches[loc[p].br]]
          /\ Goto(p, "commit")
          /\ UNCHANGED <<readers, maint, slock>>
  /\ UNCHANGED <<store, mem, disk, edits, history>>

\* Mutant: a fork of a branch that does not exist is not refused.
LockAndCreateUnchecked(p) ==
  /\ pc[p] = "lock" /\ loc[p].op = "create"
  /\ wlock = Free
  /\ IF mem.branches[loc[p].br] # Null
     THEN /\ Leave(p)
          /\ UNCHANGED mem
     ELSE /\ wlock' = p
          /\ mem' = [mem EXCEPT !.branches[loc[p].br] = mem.branches[loc[p].from]]
          /\ loc' = [loc EXCEPT ![p].commit = mem.branches[loc[p].from]]
          /\ Goto(p, "push")
          /\ UNCHANGED <<readers, maint, slock>>
  /\ UNCHANGED <<store, disk, edits, history>>

\* write_guard(), head(from), create_branch(): refuse a name that is taken.
LockAndCreate(p) ==
  /\ pc[p] = "lock" /\ loc[p].op = "create"
  /\ wlock = Free
  /\ IF mem.branches[loc[p].from] = Null \/ mem.branches[loc[p].br] # Null
     THEN /\ Leave(p)
          /\ UNCHANGED mem
     ELSE /\ wlock' = p
          /\ mem' = [mem EXCEPT !.branches[loc[p].br] = mem.branches[loc[p].from]]
          /\ loc' = [loc EXCEPT ![p].commit = mem.branches[loc[p].from]]
          /\ Goto(p, "push")
          /\ UNCHANGED <<readers, maint, slock>>
  /\ UNCHANGED <<store, disk, edits, history>>

\* ann_fold takes the maintenance lock, shared, for as long as it runs.
LockMaintenance(p) ==
  /\ pc[p] = "maint" /\ maint = Free
  /\ readers' = readers \cup {p}
  /\ Goto(p, "read")
  /\ UNCHANGED <<store, mem, disk, edits, wlock, maint, slock, loc, history>>

\* head() outside the head-mutation lock: ann_fold, invalidate_and_deindex.
ReadHead(p) ==
  /\ pc[p] = "read"
  /\ IF mem.branches[loc[p].br] = Null
     THEN Leave(p)
     ELSE /\ loc' = [loc EXCEPT ![p].head = mem.branches[loc[p].br]]
          /\ Goto(p, "commit")
          /\ UNCHANGED locks
  /\ UNCHANGED <<store, mem, disk, edits, history>>

AfterCommit(p) == IF loc[p].op = "fold" THEN "cas" ELSE "record"

\* fork(head) ... store.commit(txn): a durable manifest, parented on the head.
Commit(p) ==
  /\ pc[p] = "commit"
  /\ loc[p].head \in manifests
  /\ \E c \in Commits : c \notin made
  /\ manifests' = manifests \cup {NewCommit}
  /\ made' = made \cup {NewCommit}
  /\ chain' = [chain EXCEPT ![NewCommit] = chain[loc[p].head] \cup {NewCommit}]
  /\ loc' = [loc EXCEPT ![p].commit = NewCommit]
  /\ Goto(p, AfterCommit(p))
  /\ UNCHANGED <<mem, disk, edits, locks, history>>

\* A commit that changes nothing returns its own base.  A merge does so only on
\* a head that already remembers, in its tree, having absorbed the source head.
CommitNothing(p) ==
  /\ pc[p] = "commit"
  /\ loc[p].head \in manifests
  /\ loc[p].op = "merge" => loc[p].head \notin {RootCommit, loc[p].second}
  /\ loc' = [loc EXCEPT ![p].commit = loc[p].head]
  /\ Goto(p, AfterCommit(p))
  /\ UNCHANGED <<store, mem, disk, edits, locks, history>>

\* Anything before the commit fails: fork, a tree operation, the commit itself.
CommitErr(p) ==
  /\ pc[p] = "commit"
  /\ \/ errs < MaxErrs /\ errs' = errs + 1
     \/ loc[p].head \notin manifests /\ errs' = errs
  /\ Leave(p)
  /\ UNCHANGED <<store, mem, disk, edits, acked, ops, crashes>>

\* Mutant: the fold publishes without comparing.
CompareAndSetBlind(p) ==
  /\ pc[p] = "cas" /\ wlock = Free
  /\ wlock' = p
  /\ Goto(p, "record")
  /\ UNCHANGED <<store, mem, disk, edits, readers, maint, slock, loc, history>>

\* ann_fold's compare-and-set: under the lock, publish only if the head has
\* not moved; otherwise the commit is an orphan and the fold starts again.
CompareAndSet(p) ==
  /\ pc[p] = "cas" /\ wlock = Free
  /\ IF mem.branches[loc[p].br] = loc[p].head
     THEN /\ wlock' = p
          /\ Goto(p, "record")
          /\ UNCHANGED <<readers, maint, slock, loc>>
     ELSE IF loc[p].tries + 1 < MaxRetries
          THEN /\ loc' = [loc EXCEPT ![p].tries = @ + 1]
               /\ Goto(p, "read")
               /\ UNCHANGED locks
          ELSE Leave(p)
  /\ UNCHANGED <<store, mem, disk, edits, history>>

\* Mutant: the parents are recorded in memory only.
RecordParentsUnqueued(p) ==
  /\ pc[p] = "record"
  /\ IF loc[p].commit # loc[p].head /\ mem.commits[loc[p].commit] = {}
     THEN mem' = [mem EXCEPT !.commits[loc[p].commit] = {loc[p].head}]
     ELSE UNCHANGED mem
  /\ Goto(p, "sethead")
  /\ UNCHANGED <<store, disk, edits, locks, loc, history>>

\* record_commit, under the refs mutex: the first recording of a commit's parents
\* takes, and only then is an edit to be queued; a commit is never recorded as
\* its own parent.
RecordParents(p) ==
  /\ pc[p] = "record"
  /\ IF loc[p].commit # loc[p].head /\ mem.commits[loc[p].commit] = {}
     THEN /\ mem' = [mem EXCEPT !.commits[loc[p].commit] = {loc[p].head}]
          /\ Goto(p, "queue")
     ELSE /\ UNCHANGED mem
          /\ Goto(p, "sethead")
  /\ UNCHANGED <<store, disk, edits, locks, loc, history>>

\* record_commit, the mutex given up: its edit is queued.
QueueParents(p) ==
  /\ pc[p] = "queue"
  /\ edits' = Append(edits, RecordCommit(loc[p].commit, {loc[p].head}))
  /\ Goto(p, "sethead")
  /\ UNCHANGED <<store, mem, disk, locks, loc, history>>

\* set_head, first half: the head moves in memory.
MoveHead(p) ==
  /\ pc[p] = "sethead"
  /\ mem' = [mem EXCEPT !.branches[loc[p].br] = loc[p].commit]
  /\ Goto(p, "push")
  /\ UNCHANGED <<store, disk, edits, locks, loc, history>>

\* set_head and create_branch, second half: the matching edit is queued.
PushEdit(p) ==
  /\ pc[p] = "push"
  /\ edits' = Append(edits, IF loc[p].op = "create"
                            THEN CreateBranch(loc[p].br, loc[p].commit)
                            ELSE SetHead(loc[p].br, loc[p].commit))
  /\ Goto(p, "take")
  /\ UNCHANGED <<store, mem, disk, locks, loc, history>>

-----------------------------------------------------------------------------
(* Persisting. *)

\* Mutant: the queue is copied, not drained.
TakeEditsCopied(p) ==
  /\ pc[p] = "take"
  /\ loc' = [loc EXCEPT ![p].batch = edits]
  /\ Goto(p, IF edits = << >> THEN "done" ELSE "append")
  /\ UNCHANGED <<store, mem, disk, edits, locks, history>>

\* persist(): drain the whole queue, other threads' edits included.  An empty
\* batch is Ok at once.
TakeEdits(p) ==
  /\ pc[p] = "take"
  /\ loc' = [loc EXCEPT ![p].batch = edits]
  /\ edits' = << >>
  /\ Goto(p, IF edits = << >> THEN "done" ELSE "append")
  /\ UNCHANGED <<store, mem, disk, locks, history>>

\* store.apply(): one frame of the batch reaches the disk.
AppendFrame(p) ==
  /\ pc[p] = "append" /\ slock \in {Free, p}
  /\ disk' = ApplyEdit(disk, Head(loc[p].batch))
  /\ loc' = [loc EXCEPT ![p].batch = Tail(@)]
  /\ IF Tail(loc[p].batch) = << >>
     THEN slock' = Free /\ Goto(p, "done")
     ELSE slock' = p /\ UNCHANGED pc
  /\ UNCHANGED <<store, mem, edits, wlock, readers, maint, history>>

\* The append fails: the caller sees the error, the rest of the batch is gone.
AppendErr(p) ==
  /\ pc[p] = "append" /\ slock \in {Free, p}
  /\ errs < MaxErrs /\ errs' = errs + 1
  /\ Leave(p)
  /\ UNCHANGED <<store, mem, disk, edits, acked, ops, crashes>>

\* The whole batch landed, and the compaction that followed it failed: the
\* caller sees an error for edits that are durable.
CompactErr(p) ==
  /\ pc[p] = "append" /\ slock \in {Free, p}
  /\ Tail(loc[p].batch) = << >>
  /\ errs < MaxErrs /\ errs' = errs + 1
  /\ disk' = ApplyEdit(disk, Head(loc[p].batch))
  /\ Leave(p)
  /\ UNCHANGED <<store, mem, edits, acked, ops, crashes>>

\* persist() returned Ok.  A merge has its second parent still to record, after
\* write_many_derived has dropped the lock; every other operation returns Ok.
Return(p) ==
  /\ pc[p] = "done"
  /\ IF loc[p].op = "merge" /\ ~loc[p].edged
     THEN /\ Release(p)
          /\ Goto(p, "edge")
          /\ UNCHANGED <<loc, acked>>
     ELSE /\ Leave(p)
          /\ acked' = IF loc[p].op = "rewind" THEN acked
                      ELSE [acked EXCEPT ![loc[p].br] = @ \cup {loc[p].commit}]
  /\ UNCHANGED <<store, mem, disk, edits, ops, crashes, errs>>

\* What record_commit enters for a merge when the commit has no entry: a commit
\* that changed nothing, whose entry a crash has taken.
BothParents(p) == {loc[p].before, loc[p].second} \ {loc[p].commit}

\* write_merge, after the write and with no lock held: the second parent is
\* added under the refs mutex.
AddSecondParent(p) ==
  /\ pc[p] = "edge"
  /\ IF mem.commits[loc[p].commit] = {}
     THEN /\ mem' = [mem EXCEPT !.commits[loc[p].commit] = BothParents(p)]
          /\ Goto(p, "queueBoth")
          /\ UNCHANGED loc
     ELSE IF loc[p].second \notin mem.commits[loc[p].commit]
          THEN /\ mem' = [mem EXCEPT !.commits[loc[p].commit] = @ \cup {loc[p].second}]
               /\ Goto(p, "queueSecond")
               /\ UNCHANGED loc
          ELSE /\ loc' = [loc EXCEPT ![p].edged = TRUE]
               /\ Goto(p, "take")
               /\ UNCHANGED mem
  /\ UNCHANGED <<store, disk, edits, locks, history>>

\* The edit is queued, and persist() called again.
QueueSecondParent(p) ==
  /\ pc[p] \in {"queueBoth", "queueSecond"}
  /\ edits' = Append(edits, IF pc[p] = "queueBoth"
                            THEN RecordCommit(loc[p].commit, BothParents(p))
                            ELSE AddParent(loc[p].commit, loc[p].second))
  /\ loc' = [loc EXCEPT ![p].edged = TRUE]
  /\ Goto(p, "take")
  /\ UNCHANGED <<store, mem, disk, locks, history>>

-----------------------------------------------------------------------------
(* Reclaiming, and stopping. *)

\* Mutant: the collector does not wait for the folds that are building.
GcLockMaintenanceShared(p) ==
  /\ pc[p] = "gcMaint" /\ maint = Free
  /\ maint' = p
  /\ Goto(p, "gcLock")
  /\ UNCHANGED <<store, mem, disk, edits, wlock, readers, slock, loc, history>>

\* gc: the maintenance lock, exclusively, and then the head-mutation lock.
GcLockMaintenance(p) ==
  /\ pc[p] = "gcMaint" /\ maint = Free /\ readers = {}
  /\ maint' = p
  /\ Goto(p, "gcLock")
  /\ UNCHANGED <<store, mem, disk, edits, wlock, readers, slock, loc, history>>

\* The head-mutation lock, second.
GcLockHeads(p) ==
  /\ pc[p] = "gcLock" /\ wlock = Free
  /\ wlock' = p
  /\ Goto(p, "gcRoots")
  /\ UNCHANGED <<store, mem, disk, edits, readers, maint, slock, loc, history>>

\* refs().roots().
GcReadRoots(p) ==
  /\ pc[p] = "gcRoots"
  /\ loc' = [loc EXCEPT ![p].roots = Roots(mem)]
  /\ Goto(p, "gcSweep")
  /\ UNCHANGED <<store, mem, disk, edits, locks, history>>

\* pager.gc(&roots): every manifest outside the roots' history is deleted.
GcSweep(p) ==
  /\ pc[p] = "gcSweep"
  /\ manifests' = {c \in manifests : \E r \in loc[p].roots : c \in chain[r]}
  /\ Leave(p)
  /\ UNCHANGED <<made, chain, mem, disk, edits, history>>

\* The process dies and the database is opened again: assemble loads the refs;
\* locks, queue and threads are gone.
Crash ==
  /\ crashes < MaxCrashes /\ crashes' = crashes + 1
  /\ mem' = disk
  /\ edits' = << >>
  /\ wlock' = Free /\ readers' = {} /\ maint' = Free /\ slock' = Free
  /\ pc' = [p \in Procs |-> "idle"]
  /\ loc' = [p \in Procs |-> NoLocals]
  /\ UNCHANGED <<store, disk, acked, ops, errs>>

-----------------------------------------------------------------------------

\* One step of an operation that has started.
Step(p) ==
  \/ ReadBefore(p) \/ LockAndRead(p) \/ LockAndCreate(p) \/ LockMaintenance(p) \/ ReadHead(p)
  \/ Commit(p) \/ CommitNothing(p) \/ CommitErr(p)
  \/ CompareAndSet(p) \/ RecordParents(p) \/ QueueParents(p) \/ MoveHead(p) \/ PushEdit(p)
  \/ TakeEdits(p) \/ AppendFrame(p) \/ AppendErr(p) \/ CompactErr(p) \/ Return(p)
  \/ AddSecondParent(p) \/ QueueSecondParent(p)
  \/ GcLockMaintenance(p) \/ GcLockHeads(p) \/ GcReadRoots(p) \/ GcSweep(p)

\* The commit ids a client can hold: the root, and what Ok answers returned.
KnownCommits == {RootCommit} \cup UNION {acked[b] : b \in Branches}

\* A client calls.
Client(p) ==
  \/ \E b \in Branches :
       \/ StartWrite(p, b) \/ StartFold(p, b) \/ StartInvalidate(p, b)
       \/ \E from \in Branches : StartCreate(p, b, from) \/ StartMerge(p, b, from)
       \/ \E to \in KnownCommits : StartRewind(p, b, to)
  \/ StartGc(p)

Next == (\E p \in Procs : Client(p) \/ Step(p)) \/ Crash

Spec == Init /\ [][Next]_vars

\* Threads are scheduled and mutexes are granted: an operation that can take a
\* step does, eventually.  Clients need not call and the machine need not fail.
Fairness == \A p \in Procs : WF_vars(Step(p))
FairSpec == Spec /\ Fairness

-----------------------------------------------------------------------------
(* Properties. *)

TypeOK ==
  /\ manifests \subseteq made /\ made \subseteq Commits
  /\ chain \in [Commits -> SUBSET Commits]
  /\ mem \in RefsType /\ disk \in RefsType
  /\ edits \in Seq(RefEdit)
  /\ wlock \in Procs \cup {Free} /\ maint \in Procs \cup {Free}
  /\ slock \in Procs \cup {Free} /\ readers \subseteq Procs
  /\ pc \in [Procs -> Places] /\ loc \in [Procs -> Locals]
  /\ acked \in [Branches -> SUBSET Commits]
  /\ ops \in Nat /\ crashes \in Nat /\ errs \in Nat

\* Every commit whose operation returned Ok is in the history of the branch head
\* that a restart would load, at every moment a crash could strike.
AckedDurable ==
  \A b \in Branches : \A c \in acked[b] :
    disk.branches[b] # Null /\ c \in chain[disk.branches[b]]

\* No branch head, in memory or on disk, names a manifest the pager has lost.
NoDanglingRefs ==
  \A b \in Branches :
    /\ mem.branches[b] # Null => mem.branches[b] \in manifests
    /\ disk.branches[b] # Null => disk.branches[b] \in manifests

\* While no append has failed and no operation is running, memory and disk hold
\* the same refs: nothing is applied in memory and lost on the way to disk, and
\* no two edits reach the disk in the opposite order.
QuietAgreement ==
  errs = 0 /\ (\A p \in Procs : pc[p] = "idle") => mem = disk

\* Outside a restart, a branch only ever moves to a descendant of where it was:
\* no published commit is dropped by one built on an older head.
HeadsOnlyAdvance ==
  [][crashes' = crashes =>
       \A b \in Branches :
         mem.branches[b] # Null =>
           /\ mem'.branches[b] # Null
           /\ mem.branches[b] \in chain'[mem'.branches[b]]]_vars

\* Every operation that starts returns: the locks are taken in an order that
\* cannot deadlock, a fold gives up after its retries, and every path out of an
\* operation releases what it holds.
EveryCallReturns == \A p \in Procs : pc[p] # "idle" ~> pc[p] = "idle"

-----------------------------------------------------------------------------
(* The inductive invariant behind AckedDurable and QuietAgreement when every *)
(* client operation takes the locks.                                         *)

GuardedKinds == {"write", "fold", "create", "gc"}

\* The places where a thread owns the head it is moving.
Publishing == {"record", "queue", "sethead", "push", "take", "append", "done"}

\* Which operation can be where.
OpAt(p) ==
  /\ pc[p] = "lock" => loc[p].op \in {"write", "create"}
  /\ pc[p] = "commit" => loc[p].op \in {"write", "fold"}
  /\ pc[p] \in {"maint", "read", "cas"} => loc[p].op = "fold"
  /\ pc[p] \in Publishing => loc[p].op \in {"write", "fold", "create"}
  /\ pc[p] \notin {"before", "edge", "queueBoth", "queueSecond"}

\* What a thread holds at each place.
Holds(p) ==
  /\ pc[p] \in Publishing \cup {"gcRoots", "gcSweep"} => wlock = p
  /\ pc[p] = "commit" /\ loc[p].op = "write" => wlock = p
  /\ pc[p] \in {"gcLock", "gcRoots", "gcSweep"} => maint = p
  /\ pc[p] \in {"read", "commit", "cas"} /\ loc[p].op = "fold" => p \in readers

LockInv ==
  /\ \A p \in Procs : OpAt(p) /\ Holds(p)
  /\ maint # Free => readers = {}

\* chain is reflexive and transitive, and speaks of commits that were made.
ChainInv ==
  /\ \A c \in Commits : chain[c] \subseteq made
  /\ \A c \in made : c \in chain[c]
  /\ \A c \in Commits : \A d \in chain[c] : chain[d] \subseteq chain[c]

\* Heads are held by the pager, and the disk trails memory along the chain.
HeadInv ==
  \A b \in Branches :
    /\ mem.branches[b] # Null => mem.branches[b] \in manifests
    /\ disk.branches[b] # Null =>
         /\ disk.branches[b] \in manifests
         /\ mem.branches[b] # Null
         /\ disk.branches[b] \in chain[mem.branches[b]]

\* An edit that moves branch b to commit c.
MovesTo(e, b, c) == e.op \in {"SetHead", "CreateBranch"} /\ e.name = b /\ e.at = c

\* The edits of one guarded operation: its commit's parents, then its head.
OwnEdits(es, b, c) ==
  \A i \in 1 .. Len(es) : es[i].op = "RecordCommit" \/ MovesTo(es[i], b, c)
EndsWithMove(es, b, c) == Len(es) > 0 /\ MovesTo(es[Len(es)], b, c)

\* How far a thread's commit has got.
Flight(p) ==
  /\ pc[p] \in {"commit", "cas", "record", "queue", "sethead"} => loc[p].head # Null
  /\ pc[p] = "commit" /\ loc[p].op = "write" => mem.branches[loc[p].br] = loc[p].head
  /\ pc[p] \in {"record", "queue", "sethead"} => mem.branches[loc[p].br] = loc[p].head
  /\ pc[p] \in {"cas"} \cup Publishing => loc[p].commit \in manifests
  /\ pc[p] \in {"cas", "record", "queue", "sethead"} => loc[p].head \in chain[loc[p].commit]
  /\ pc[p] \in {"push", "take", "append", "done"} => mem.branches[loc[p].br] = loc[p].commit
  /\ pc[p] \in {"sethead", "push", "take"} => OwnEdits(edits, loc[p].br, loc[p].commit)
  /\ pc[p] = "take" => EndsWithMove(edits, loc[p].br, loc[p].commit)
  /\ pc[p] = "append" => /\ OwnEdits(loc[p].batch, loc[p].br, loc[p].commit)
                        /\ EndsWithMove(loc[p].batch, loc[p].br, loc[p].commit)
  /\ pc[p] = "done" => disk.branches[loc[p].br] = loc[p].commit
  /\ pc[p] = "gcSweep" =>
       \A b \in Branches : mem.branches[b] # Null => mem.branches[b] \in loc[p].roots

\* The queue holds edits only while their owner is about to take them.
QueueInv == edits # << >> => wlock # Free /\ pc[wlock] \in {"sethead", "push", "take"}

GuardedInv ==
  /\ TypeOK /\ LockInv /\ ChainInv /\ HeadInv /\ QueueInv
  /\ \A p \in Procs : Flight(p)
  /\ AckedDurable
-----------------------------------------------------------------------------
(* The inductive invariant behind NoDanglingRefs and HeadsOnlyAdvance when   *)
(* clients merge as well: a merge hands edits to the store with no lock      *)
(* held, and may carry another thread's, later than that thread's answer.    *)

MergingKinds == GuardedKinds \cup {"merge"}

\* The places where a thread owns the head it is moving: not those of the
\* second persist() of a merge.
Owning(p) ==
  \/ pc[p] \in {"record", "queue", "sethead", "push"}
  \/ pc[p] \in {"take", "append", "done"} /\ ~loc[p].edged

\* Which operation can be where, and what its thread holds there.
MergingLocks(p) ==
  /\ pc[p] = "before" => loc[p].op = "merge"
  /\ pc[p] = "lock" => loc[p].op \in {"write", "create", "merge"}
  /\ pc[p] = "commit" => loc[p].op \in {"write", "fold", "merge"}
  /\ pc[p] \in {"maint", "read", "cas"} => loc[p].op = "fold"
  /\ loc[p].edged => pc[p] \in {"take", "append", "done"} /\ loc[p].op = "merge"
  /\ Owning(p) \/ pc[p] \in {"gcRoots", "gcSweep"} => wlock = p
  /\ pc[p] = "commit" /\ loc[p].op # "fold" => wlock = p
  /\ pc[p] \in {"gcLock", "gcRoots", "gcSweep"} => maint = p
  /\ pc[p] \in {"read", "commit", "cas"} /\ loc[p].op = "fold" => p \in readers

\* The edits that send a branch only to where its head in memory is, or has
\* been, and to a commit that the pager holds.
Trailing ==
  {e \in RefEdit :
     /\ e.op # "RemoveBranch"
     /\ e.op \in {"SetHead", "CreateBranch"} =>
          /\ mem.branches[e.name] # Null
          /\ e.at \in chain[mem.branches[e.name]]
          /\ e.at \in manifests}

\* So do all that are still on their way to the disk, in whatever order.
TrailInv ==
  /\ ToSet(edits) \subseteq Trailing
  /\ \A p \in Procs : pc[p] = "append" => ToSet(loc[p].batch) \subseteq Trailing

\* How far a thread's commit has got.
MergingFlight(p) ==
  /\ pc[p] \in {"commit", "cas", "record", "queue", "sethead"} => loc[p].head # Null
  /\ pc[p] = "commit" /\ loc[p].op # "fold" => mem.branches[loc[p].br] = loc[p].head
  /\ pc[p] \in {"record", "queue", "sethead"} => mem.branches[loc[p].br] = loc[p].head
  /\ pc[p] \in {"cas", "record", "queue", "sethead", "push"} => loc[p].commit \in manifests
  /\ pc[p] \in {"cas", "record", "queue", "sethead"} => loc[p].head \in chain[loc[p].commit]
  /\ pc[p] = "push" => mem.branches[loc[p].br] = loc[p].commit
  /\ pc[p] = "gcSweep" =>
       \A b \in Branches : mem.branches[b] # Null => mem.branches[b] \in loc[p].roots

MergingInv ==
  /\ TypeOK /\ ChainInv /\ HeadInv /\ TrailInv
  /\ maint # Free => readers = {}
  /\ \A p \in Procs : MergingLocks(p) /\ MergingFlight(p)
=============================================================================
