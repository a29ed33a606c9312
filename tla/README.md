# LoomDB in TLA+

LoomDB is an embedded, branching record store for agents: sessions fork
branches, write records under signed envelopes, merge, rewind, and recall. This
directory holds TLA+ models of its core, the TLC configurations that check them
on small instances, and TLAPS proofs of what matters most.

Every definition is translated from the Rust source under `crates/`; PROJECT.json
`map` gives the lines of each. The pager (`substrate_pager`) and the filesystem
(`Vfs`) are external and are modelled by what LoomDB relies on.

## The system

| Component (source) | State | Operations | What is hard | What makes it correct |
|---|---|---|---|---|
| Refs (`loom-branch/refs.rs`) | branch heads, tags, the commit DAG with second parents | seven edits, roots | replay on a newer snapshot | edits replay to the refs the session had |
| Ref store (`refs.rs`) | `refs.snapshot`, `refs.log`, cached sizes | open, load, save, apply with compaction | torn appends, crash between snapshot and truncate, errors that leave caches stale | nothing acknowledged is lost or undone; recovery is bounded |
| Session (`session.rs`) | refs in memory, queue of edits, `write_lock`, `maintenance_lock`, read-sets | write, fold, branch, merge, rewind, forget, gc, backup, verify | two writers on one branch, the off-lock fold, gc beside both, drain and append as two critical sections | acknowledged commits stay; heads advance; no ref dangles; no deadlock |
| Record tree (`tree.rs`) | nodes on logical pages, dirty cache, size estimates, metadata | get, insert, remove, scans, changed keys, flush | splits that move records and separators, estimates that come late, keys a changed page no longer holds | it is a map, however it is read; no merge misses a change |
| Record merge (`merge.rs`) | none (pure) | decide, typed rules, policies | counters at their limits, open intervals, ties | both directions agree; increments add up |
| Merge bases (`session.rs`) | the recorded multi-parent DAG | merge_checked, merge_bases, full_ancestors | repeated and criss-cross merges, crash or race between the commit and its second parent | every write is counted once |
| Read-sets and derivation (`session.rs`, `loom-core/provenance.rs`) | reads captured per session, nodes in the tree | read, write | read-set consumed before the commit | no write loses its derivation |
| Claim history (`session.rs`, `loom-query`) | versions with known and valid intervals | append version, as-of | closing the right open version | one open version; the past does not change |
| Vector index (`ann.rs`, `session.rs`, `loom-core/hnsw*.rs`) | entries, write buffer, graph pages, all in the branch's tree | write with a hint, inline insert, fold, build, two searches | a fold off the lock that loses its race, a vector in both places, links that are pruned | a written vector is always found; after a fold both searches agree |
| Backup, restore, retention (`backup.rs`, `loomctl`) | partial and published directories, manifests, receipts, the refs and pages copied | backup, sign, verify, restore, prune | copying beside writers and other commands, half a copy, a copy that vanishes | a copy names nothing it lacks; a restore is what a verified backup was; retention keeps enough |
| Sleep, wake, tenancy (`sleep.rs`, `tenancy.rs`) | wake token | sleep, wake | refs travel apart from pages | wake gives what slept |
| Tokens and actor keys (`token.rs`, `session.rs`) | scope, expiry, key registry | issue, extend, authorize, rotate, revoke | revocation beside a write | no write outside scope or by a revoked key |
| Taint and recall (`loom-provenance`) | none of its own: nodes, source index and claims in the tree | taint, flood, mark stale | forks, merges, rewinds, deep chains, derivations that cross branches | everything downstream is named, and nothing else |
| Action gateway (`loom-action`, `loom-policy`) | kill switch, records by key (in memory) | propose, execute, disable, enable | concurrent retries, switch thrown mid-way, a connector that panics or does not know, restart | one effect per key, none unauthorized, none after the switch but the one under way |
| Memory (`loom-memory`) | index entries | retrieve, forget | budget edges | what is forgotten is not retrieved |
| Key custody (`loom-keys`, `loomctl keys`) | the register file and its `.partial`, loaded registers | stage, activate, retire, revoke, load, sign, verify | rotations left half done, operators who overlap, verifiers that hold an old register | some key verifies; a revoked one never again; what was signed goes on verifying |
| MCP server (`loom-mcp`) | admission quotas, requests | admit, handle | concurrency | limits hold |
| Drill, bundle, loomctl, bench, soak, scripts | reports | | mostly I/O | see PROJECT.json |

A client call enters a `Loom`. The session reads a head from the refs in memory,
forks it in the pager, commits a manifest (durable), records its parents and
moves the head in memory, queues the matching edits, and `persist()` hands the
queue to the ref store. `gc` reads the roots of the refs and tells the pager what
to keep. A restart loads the refs from the store: anything not yet there is gone.

Beside the caller's records, a commit's tree holds what the session derived them
from (nodes, source index), index entries with labels, and claim versions. Taint,
staleness and forgetting walk these. An agent turns claims into a proposal; the
gateway checks its copies of them, the policy and the switch, calls a connector,
and remembers the outcome; a recall plan joins those records with taint.

## Modules

| Module | Models | State and actions |
|---|---|---|
| `Refs` | `struct Refs`, `enum RefEdit` | operators: `ApplyEdit` is `Refs::apply_edit` |
| `RefStore` | the trait's promise | abstract: a call applies all of its edits, or a prefix if cut short |
| `RefLog` | `FileRefStore` | files `snapshot`, `legacy`, `log`, caches `logBytes`, `snapBytes`; one action per write to a file and per way it can fail; `answer` and `stray` remember how the last call ended and what failed appends left |
| `RefLogProofs` | | theorems about `RefLog` |
| `LoomBranch` | publication in `session.rs` | `mem` is `Loom::refs`, `disk` what `load()` returns, `edits` the queue, `wlock`, `readers`/`maint` and `slock` the locks; one action per critical section of each operation |
| `LoomBranchProofs` | | theorems about `LoomBranch` |
| `MergeRules` | `decide`, `merge_typed`, `merge_claims` | operators |
| `MergeRecords` | two branches merging each other | `MergeRules` on a tree of records, all or nothing |
| `MergeProofs` | | theorems about `MergeRecords` |
| `MergeHistory` | finding the base | heads, recorded parents, planned merges of several threads |
| `MergeHistoryProofs` | | theorems about `MergeHistory` |
| `TreeContents` | what a tree holds beside records; `flood_downstream`, `append_claim_version`, `as_of` | operators |
| `WritePath` | read, capture, `write_all`, merge's provenance, `mark_stale`, `forget`, rewind | trees by commit, heads, read-sets, calls under way; a call is one step up to where the code lets go of what it read, and one that commits or fails |
| `WritePathProofs` | | theorems about `WritePath`: labels and claims; taint |
| `Policy` | `loom-policy/engine.rs` | operators: compiled index, decision, and the rules' meaning as reference |
| `Gateway` | `loom-action` | switch, lock, records, calls under way; one action per critical section of `execute`, connectors external |
| `GatewayProofs` | | theorems about `Gateway` |
| `RecordMap` | the promise of `Tree` | abstract: a map, and a transaction's copy of it |
| `RecordTree` | `tree.rs`, the prefilter of `plan_merge` | `disk` is the head's pages and metadata, `tree` the open `Tree`, `base` the manifest a branch was forked at; actions are `open`, `insert`, `remove`, `flush` and giving up |
| `Hnsw` | `hnsw.rs`, `hnsw_store.rs` | operators: the graph, search, insert in memory and in the tree |
| `SearchIndex` | entries, buffer, graph and folds of one branch | `tree` is the head, `fold[f]` what a fold read; one action per call under the guard, and the halves of a fold |
| `Copies` | `backup.rs`, receipts, retention | `shelf[d]` a directory, `backup`, `reader`, `prune` the commands under way; one action per step that touches files |
| `CopiesProofs` | | theorems about `Copies` |
| `TrustRoots` | `loom-keys` register, rotation and directory | operators |
| `Custody` | `loomctl keys` and those who load the register | `file`, `partial`, `command[o]`, `view[v]`; a command loads, opens the partial file, fills it, renames it |
| `CustodyProofs` | | theorems about `Custody` |
| `MC*` | | instances for TLC |

`RefLog` implements `RefStore` (`ImplementsRefStore`: refinement mapping
`refs <- Loaded(log)`, `call <- batch`). `LoomBranch` uses the store as
`RefStore` describes it, with the frames of one call landing one at a time, so
that other threads and a crash can come between them. `MergeHistory` takes the
publication of a guarded write as one step, which `LoomBranch` justifies, and
uses `MergeRules!Decide` for the record. `WritePath` takes both as one step, uses
the same `Decide`, and models the contents of the trees they move between.
`Gateway` uses `Policy` and sees the database as claims that may go stale.
`RecordTree` runs `RecordMap` in step with the tree, each action with its
counterpart; it is what lets the other modules treat a tree as a function from
keys to records, and `MergeRecords` decide about every key that changed.
`SearchIndex` extends `Hnsw`, `Custody` extends `TrustRoots`.

### LoomBranch and the code

An operation is a record in `loc[p]` and a place in `pc[p]`. `lock` waits for
`write_guard()`; `commit` is `fork .. store.commit`; `record`, `queue`, `sethead`,
`push` are the separate critical sections of `record_commit` and `set_head` on
`Loom::refs` and `Loom::ref_edits`; `take` and `append` are the two halves of
`persist()`. `write` stands for every caller of `write_all`, `ann_insert` and
`build_ann_index`, which publish alike. A `merge` first reads the head (`before`,
the `before` of `write_merge`), runs as a write, releases the lock, and comes back at
`edge`: with no lock held it adds the second parent to what is recorded, queues that
(`queueSecond`), or both parents where none are recorded yet (`queueBoth`),
and persists. `invalidate` and `rewind` start past the locks because the code takes none.
A `CommitNothing` step is substrate's refusal to append a manifest equal to its
base.

### WritePath and the code

Three history variables make completeness checkable: `tree[c].from` says which
sources really went into each record, `truth` what a session has seen since its
last write, and `leaks` records each way in which the code lets a source past the
read-set. There are five, all met while modelling:

- `raced`: `read` returns a record and `capture_read` looks up its node at the head
  of a later moment, which another writer may have moved; so does a merge, which
  looks up the nodes of both sides after its plan (`session.rs:1920`);
- `failed`: `write_all` takes the read-set before it can fail, so the retry of a
  failed write is derived from nothing;
- `stale`: `mark_stale` writes claims back with the auditor's reads as parents,
  not the claim's node, so what is concluded from the stale claim is cut off;
- `overwritten`: a rewind sets a branch's slot counter back, and a merge can then
  bring one node over another in the same slot (`Lost`), or leave the source's node
  behind where a policy must choose (`Contested`);
- `elsewhere`: a node comes to a branch that does not hold one of its parents
  (`Dangling`).

The fifth has two causes. A session may read on one branch and write on another; and
a branch may be rewound between the plan of a merge into it and the write
(`merge_checked` plans without a lock), so that the nodes the plan brings have
parents the branch had when it was made and has no longer. The proof of `Complete`
found the second: the model had excepted only the first, and one step of it could
not be shown. It also asked what a merged record is derived from when a policy takes
one side: the node cites both sides, so `from` has the sources of both.

`Complete` holds for every source that took none of the five;
`CompleteAcrossBranches`, which does not except the last, fails in the instance of
`WritePath` (what is read on one branch and concluded on another is in no recall
plan, against `taint.rs:215`, "across every branch of the tenant"), and excepting one fewer gives a counterexample for each of
`raced`, `failed` and `stale` too (`overwritten` takes more commits than the run
has).

A capture is two steps, for `index_entry_for` reads the head again (`session.rs:655`):
`CaptureNode` and `CaptureLabel`. Between them the key may be rewritten or the branch
rewound, and the label that comes along is another record's, or none, while the node
is right: taint is complete and the label too mild. `unlabelled` holds the sources
concerned, which `LabelsInherited` excepts beside the five ways. The lock on the
read-sets, which is held through both, is `ReadSetsFree`. A merge is planned at one
pair of heads (`StartMerge`), looks its nodes up at another (`LookUpSides`; all its
keys in one step, where the code asks for one after the other), and is written at a
third.

Abstracted: a node's id is its commit and key where the code hashes its contents; a
claim's history is kept by its key, where the code keeps it by subject and predicate
(one key for each pair, then); claim intervals that come closed on the known axis;
keys are numbers, in tree order; `mark_stale`'s and taint's reads of one branch
(nodes, seeds, records) are one step; claims always cite evidence; the valid axis
of `as_of`. `known.start` is the caller's clock and may repeat or, between
two sessions, run backwards; `PastFixed` holds of every such write.

### Gateway and the code

`execute` holds one mutex throughout, so its steps are split only where others can
act in between: after the switch's own mutex is released, and at the connector.
A panic inside a connector poisons the mutex, and `unwrap_or_else(into_inner)`
enters it anyway: nothing recorded, lock free. A restart loses records and switch.
Records are made after the effect and live in memory, so that either lets a retry
act again: `AtMostOnceEver`, which does not except them, fails. What was done to the
world under a key before its record was last lost so is `forgotten`; of every change
since, `RecallNames` asks that the plan names it, also after panics and restarts.
Evidence is the copy taken when the agent proposed. An action type without a
connector is refused; the instance has none such, the proofs allow it.

### RecordTree and the code

A leaf is a function from keys to records, its vector's order a matter of
`Listing`. Keys are real byte strings, for `prefix_upper` and the order of
separators depend on them. Sizes stand for encodings: an entry's is that of its
record and its key, an internal node's that of its separators and a link for each
child, so that a longer key leaves room for less. `sizes` holds estimates of dirty leaves only: for
any other page `node()` has just put the true length there. A store starts from
one of `Seeds`, trees built by the same `Insert`, so that a few edits meet an
internal node about to split. `base` is where the other branch of a merge still
is; with changes on both sides `diff3` names more pages, and the candidates only
grow.

Two things the model shows that no property of the run states:

- A record between 70% and 100% of a page is over the limit alone: each rewrite of
  it splits its leaf in an empty half and itself, with a new page and a separator
  that repeats. For the same reason the error "a single record does not fit"
  (`tree.rs:362`) can never be given: of one entry the right half is that entry.
- A leaf is halved by number of entries, not by size: a half may exceed the page
  and the commit is refused, although each record fits. With `tree # Null =>
  Fits(tree)` as an invariant TLC shows it after one insert. `NeverLate` says
  when it can happen: never with records below 30% of a page, and keys short beside
  one: an internal node is split as a leaf is, by number, and a few separators of
  a page's length would outgrow it just so.

### SearchIndex, Hnsw and the code

A vector is a direction of some dimension, its distance from another the angle
between them; a node's level, a hash in the code, is a function of its key. The
graph in memory and the one in the tree select neighbours differently
(`select_heuristic`, closest) and prune to different numbers, as the code does.
What runs under the write guard is one step. `crowded` records that an inline
insert made a node drop a link, which `AlwaysFound` excepts. Beyond it:

- With `Again = TRUE`, `AlwaysFound` fails after five steps: `ann_insert` of the
  entry node's key clears its links and then searches from it, so that it finds
  nobody and the rest of the graph is cut off (`hnsw_store.rs:92` says of the
  links "they are recomputed below").
- A forgotten key leaves its vector in buffer and graph until the next fold, and
  `search_ann` still returns the key (`session.rs:1245` says "the embedding" goes
  with the entry). A record rewritten with a hint without a vector stays
  searchable by the old one.
- A fold builds the graph in the dimension of the first vector and drops those of
  another, whose buffer it clears as well.
- Merges write without hints: a merged record is searchable on the target only
  once something indexes it there.

### Copies and the code

Commits stand for the pages they write. The refs are in two files, `snapshot` and
`log`, as `RefLog` has them; here only what commits they name counts. A server
compacts (`WriteSnapshot`, `TruncateLog`) and collects (`Gc`) beside everything else.
A backup holds the write guard, so that neither a write nor gc comes between its
steps; compaction does, since a merge's second parent and a new branch are appended
without the guard (`session.rs:1024`, `1648`). `BackupBegin` lists the files, `CopyLog`
copies `refs.log`, `CopyFiles` the pages and then `refs.snapshot`: it is this order of
names that makes a compaction in between harmless, as what left the log is in
the snapshot by then. A store that has no `refs.snapshot` yet (`Compacted = FALSE`)
does not have it listed; if its first compaction comes before the log is copied,
the copy lacks the refs. `CopiesWhole` promises such a store only that no ref dangles
(`from` is empty). A new store is seeded with a snapshot; this is one from before the
format, which has a `refs.bin` until it first compacts.

`asked` is the key a backup was asked to sign with: `CopiesWhole` says that what is
found under its name is signed with it, until its removal has begun.

A name is used once (`Reuse` turns that off): with it, copy and receipt may both
be replaced between the verification of the one and the look at the other, and a
recovery point is reported that the verified copy is behind (TLC finds it with a
third backup). `started` numbers the partial
directories, whose names are fresh in the code. `headAt` and `vouched` let
`RecoveryPointTrue` and `RestoredTrue` compare what a reader says with what was.
`muddied` records a retention plan made over something that is not a whole backup
of its own: a partial directory that has a manifest counts as a candidate, against
`retention.rs:18`, and may be the "newest copy" that is spared while the last
whole one goes. `RetentionKeeps` without `~muddied` fails for that. With `Kinds
= {"write", "forget"}`, `CopiesWhole` fails: `invalidate_and_deindex` takes no
write guard, publishes a ref after the files were listed, and the copy names a
page it lacks, against `session.rs:2088`; `rewind` takes none either.

### Custody and the code

A command is four steps, load to rename, as nothing locks the register and every
command writes the same `.partial`. `raced` records that one published over a
register it was not made from; all properties but `SomeoneVerifies` except what
comes after it. Without the exception each fails: a revocation reported done is
lost when another command, loaded before it, is renamed over it. Further, a
verifier goes by the register it loaded, so between a rename and the last reload
the fleet is split; a key staged before the one in service may still be activated
once that one is retired, so the generation goes back (`rotation.rs:33`); and the same public
half may be registered under two ids, of which revoking one leaves the other (the
model gives every id a half of its own).

Left out of `load` are the checks of the file as a file: regular, not to be
written by a group or the world, at most 256 KiB (`register.rs:156`). The write has no limit, so a
register that has grown past it is published and then nobody can load it. Left out of
`SoftwareSigner` is the check of the algorithm (`directory.rs:120`); `from_key`,
which does not look at the root's status, is for drills and tests.

### Switches of the environment

`RefLog` has `WriteAfterTear` (is the log appended to while it ends in a torn
frame) and `PartialTruncate` (may a crash inside `truncate` leave a prefix);
`MergeHistory` has `SingleWriter` (one thread moves a branch at a time, the
documented usage) and `CrashMidMerge` (may a crash fall between a merge's commit
and its second parent). All of these happen. They are off in the passing runs,
which show that everything else is right; the run `RefLogTear` turns the first on.
The others can be turned on in the same configurations:

- `PartialTruncate`, with `WriteAfterTear` off: `AckedSurvive` fails. The prefix
  of the log that survives moves heads back on the newer snapshot; the comment at
  `refs.rs:511` takes it for a no-op, which it is only when no ref is written
  twice between two compactions.
- `CrashMidMerge`: `TallyExact` fails. The second parent is recorded after the
  merge commit, and a crash in between lets the source be counted twice, which the
  comment in `merge_checked` rules out ("If this were a separate commit, a crash
  between the two" would).
- `SingleWriter` off with two threads: `TallyExact` fails, for a write between a
  merge's plan and its write.
- A second thread that merges: `TallyExact` fails with `SingleWriter` on, each thread
  merging into its own branch. One has merged x into main and not yet recorded the
  second parent; the other, merging main into x, finds the old base and counts x's
  writes again.

`LoomBranch`'s operations are chosen by `Kinds` in the same way: `invalidate` with
`write` breaks `HeadsOnlyAdvance` (it takes no lock and drops the concurrent
write, against the comment on `write_guard`); `invalidate` or `rewind` with `gc` breaks `NoDanglingRefs`
(the commit is swept before, or is already gone when, its ref is published), and
`merge` with `write` breaks `AckedDurable` (its unlocked `persist()` takes another
thread's edits, which that thread then acknowledges) and `QuietAgreement` (two
`persist()` calls reach the log in the opposite order). `NoDanglingRefs`,
`HeadsOnlyAdvance` and the invariant `MergingInv` hold with `merge` too, checked by
TLC on the instance of `BranchGuarded` with `merge` added to its `Kinds` and three
calls (248 000 states) and proved for any. A failed append drops the
edits it took while memory keeps their change; `QuietAgreement` excepts it.

## Runs

Passing runs:

| Run | Question | Bounds |
|---|---|---|
| `RefLogCrash` | Is anything acknowledged lost or undone by tears, errors, compaction, restarts? Does the log implement the store? Is replay bounded after any call that answers Ok, whatever failed before? | 2 branches, 1 tag, 3 commits, 7 kinds of batch, 3 calls, 2 faults, floor 1: compaction happens after two frames |
| `BranchGuarded` | Do the operations that take the locks keep `AckedDurable`, `NoDanglingRefs`, `QuietAgreement`, `HeadsOnlyAdvance`? Is `GuardedInv` an invariant? | 2 threads, 2 branches, 6 commits, 4 calls, 1 crash, 1 error, 2 retries |
| `BranchAll` | Do all calls return, with every operation in play? | 2 calls, 4 commits, 1 crash, 1 error, 1 retry: a fold that loses twice gives up |
| `MergeRecords` | Do two branches converge? Are the rules undirected? Do increments add up? | one key of each kind, counters in -2..2, 3 edits, 4 policy answers |
| `MergeHistory` | Is each write counted once, in every order of merging three branches? | 5 commits, 2 writes, 1 merging thread, a rewind or a crash |
| `WritePath` | Is taint complete and precise? Are labels inherited? Do claims and their history agree, and does the past stay? | 2 branches, 2 sessions, 1 observation and 2 claims, 1 source, 4 commits, depth bound 2 |
| `RecordTree` | Is the tree a map, do gets, scans, prefix scans and the counter agree, do estimates never come late, does the prefilter drop no change? | 6 keys of up to two bytes, 3 records of two sizes, a record's entry with the length of its key, 3 starting trees, 3 edits in any number of transactions |
| `SearchIndex` | Is an indexed vector found in every state? Does a fold change no entry, and do both searches agree after it? | 4 keys, 5 directions and a vector of another dimension, 2 layers, 2 links, 4 mutations, 2 tries per fold |
| `Copies` | Is every copy whole, every restore what was verified, every reported recovery point true? Does retention keep enough? | 2 names, 2 backups, 1 commit beside the first, 2 units of time, 1 copy to keep |
| `Custody` | Does some key always verify? Does a revocation hold, what was signed go on verifying, nothing verify before it was staged? | 2 operators, 4 commands, 2 keys, 2 generations, 1 verifier, 1 artifact |
| `Gateway` | One effect per key, none unauthorized, at most one after the switch? Does recall name what happened? Is the lock let go? | 2 callers, 2 keys, 5 proposals, 3 rules, 1 claim, 1 panic or restart |

Two threads are enough for the races of `LoomBranch`: each of its critical
sections is left by one thread and entered by one other, and the third parties
that matter (collector, merge partner) are kinds of call, not more threads. Four
calls let a thread be followed by itself and by two others. Six commits hold three
writes, a fold that loses its compare-and-set and one more. Two branches are a
branch and the one it forked. In `MergeHistory` weights are powers of 8, so a
write counted twice, or not at all, is visible in the sum. In `WritePath` three
commits after the root hold an observation, a claim derived from it and a
conclusion or merge or stale mark on top; the depth bound is the length of that
chain; a longer one, which would be refused, needs more commits than the instance has
(what refusal means is in the proof of `TaintComplete`, for any bound). In `Gateway` a call is retried without bound;
the five proposals cover a trusted and an untrusted label, a simulation of either
kind of connector, and one key used for two actions. In `RecordTree` a leaf takes
two small records and an internal node three children: the largest starting tree
has three levels, and three edits split, empty and refill any of its leaves; a
large record fits a page only alone. In `SearchIndex` four keys and two links make
lists overflow and one node reach the second layer; a fold that lost twice has
been overtaken by every kind of mutation. In `Copies` the store has a snapshot from the start, and does nothing more once the
last backup is over (`StoreRests`): no property reads it then, only what was noted of
its past; a second backup is what
retention, a reader that looks for the newest, and a crashed attempt need; one
commit beside the first is the one a copy could miss. In `Custody` two operators
suffice to overlap, and four commands stage, activate, retire and revoke.

The run `RefLogTear` finds a disagreement between the program and what it says of
itself (quote and line are in PROJECT.json `findings`): `open` keeps a torn tail,
and edits acknowledged after it are invisible to the next load. The sections on
the modules above name the other disagreements, and the switch, operation or
property that reproduces each.

Smaller ones, without a run: two branches that both add 3 to 10 merge to 13, since
`decide` compares the sides before it looks at the type (README.md:191 says 16,
and `DeltasAdd` is stated for increments that differ); forgetting a claim leaves
its open version in the history asserted (`BeliefAgrees` excepts it); a refusal by
the kill switch stays the answer for its key although its message says to
re-enable actions; merges carry no index entries, so a label is not inherited
through one (`LabelsInherited` excepts it); a simulated success is listed among
the irreversible effects (`RecallNames` excepts it).

The type invariants of `RefLog`, `MergeRecords`, `MergeHistory` and `Custody` say
what their variables hold; they are no question of a run.

Deadlock checking is off except in `Gateway` and `Custody`: elsewhere clients may stop calling,
and the bounds stop them.

### Fairness

`EveryCallReturns` and `Released` need it. For the first, `FairSpec` asks weak fairness of `Step(p)` for
each thread: the operating system schedules runnable threads, and a mutex that
is free is granted. Nothing is asked of clients, crashes or errors. Weak
fairness of a disjunction suffices because at every place of an operation one of
its steps stays enabled or the lock it waits for is held by a thread whose own
steps are fair. A mutex that starves one waiter for ever is excluded by the
bound on calls, not by the fairness.

For `Released`, `Gateway`'s `Spec` asks weak fairness of each caller's steps inside
`execute`, the connector's answer among them. The code sets no timeout on a
connector; that it answers or panics is an assumption on connectors, and one that
hangs stops every action of the tenant. Callers that wait are owed nothing.

## Proofs

Every theorem is of a specification as the runs check it, for any sets
of threads, sessions, branches, keys, commits, operators and so on,
and any bounds on calls, faults and edits. What is assumed of the constants is in
the modules' named `ASSUME`s: that numbers are numbers and names are of the right
type, that `Null` and other markers are not among the values, and

- in `RefLog`, that branches, tags and commits are finite sets (a snapshot lists
  them and its size is counted) and that batches are sequences of edits;
- in `Copies`, that there are finitely many names for backups;
- in `Custody`, that the registers a deployment starts with validate, and a role in
  them with a key past staging has one that verifies;
- in `MergeRecords`, that clients and callbacks give records, counters in range;
- in `WritePath`, that commits are numbers, none of them `Null`, and policies answer
  a side or nothing.

A theorem with a further condition states it in front (`KindsGuarded /\ Spec => ..`).
Each condition names what the sections above say must be excluded, the code does
not exclude it, and the property fails without it:

| Condition | Excludes | Because |
|---|---|---|
| `AppendsClean` | appending behind a torn frame, a truncate cut short | `RefLogTear`; the switch `PartialTruncate` |
| `KindsGuarded` | `merge`, `invalidate`, `rewind` | operations that publish, or persist, without the lock |
| `KindsMerging` | `invalidate`, `rewind` | operations that move a head without the lock |
| `WritesOnly` | `forget` | it takes no write guard (nor does `rewind`) |
| `~Reuse` | a second backup under a name | copy and receipt may be exchanged under a reader |
| `MergesApart` | a second thread that merges, writers beside a merge's target, a crash inside a merge | the switches `SingleWriter` and `CrashMidMerge`, and the case after them |
| `WeightsTell` | increments that add up alike, sums past the counter's range | `decide` compares values first: two branches that add the same have added once; additions saturate |
| `ClaimsProper` | claims that end before they begin | `Interval::between` takes the ends as they come (`time.rs:63`), and two such claims with one start are merged by direction |

An invariant that the runs check is seldom inductive. Each section names the
strengthening it takes; TLC checked every one of them on the instance of the
module's run (the largest, of `Copies`, on 3.4 million states) before it was proved.

### Ref store (`RefLogProofs`)

`LogDurable`: under `AppendsClean`, `Spec` implies `[]AckedSurvive`;
`LogImplementsStore`: it implies `RefStore`; `LogReplayBounded`: `Spec` alone implies
`[]ReplayBounded`. Replay is a fold over the log, so these rest on an induction over
the length of a log, which is done by hand from the least number principle
(`WFMin` and the well-foundedness of `<`). From it, replaying a log appended to is
replaying the rest on what it made. `ReplayTwice` says that
replaying a log again on what it produced changes nothing. A crash between
the two halves of a compaction leaves exactly that, and with a prefix of the log
it is false. It is proved through `Effects`: a sequence of edits sets some
names and adds some parents, whatever it is replayed on, and effects compose.
`IInv` is the type invariant, `Steady` (what the program counter says of tears, the
image and the snapshot) and `Durable` (what would be loaded is what was promised).

`ReplayBounded` is about the cached sizes that trigger compaction (`refs.rs:424`):
what an `Ok` promises of the length of the log, after any appends and compactions
that failed in either half. A failed append leaves frames that the cached size does
not count (`stray`, until the next truncate or restart); nothing else makes a cache
fall behind its file. `BInv` says so (`Sized`: the cached log size and `stray` together
are the file's; the cached snapshot size is the file's too, or a compaction is due
that sets it right; `LogShape`: the types), and needs no condition.

### Publication (`LoomBranchProofs`)

- `TypeCorrect`: `Spec => []TypeOK`, for all seven operations.
  `TypeOK` alone is not inductive: `MoveHead` puts `loc[p].commit`, whose type
  allows `Null`, into a head. `Placed` adds what each place guarantees about the
  locals.
- Under `KindsGuarded` (clients call `write`, `fold`, `create` and `gc` only),
  `Spec` implies `[]AckedDurable`, `[]QuietAgreement` and `[]GuardedInv`.
- Under `KindsMerging` (those and `merge`), `Spec` implies `[]NoDanglingRefs`,
  `HeadsOnlyAdvance` and `[]MergingInv`.

The first need `GInv`, of which `GuardedInv` (checked by `BranchGuarded`) is the
statement for TLC. Its parts:

- `LockInv`: at which places a thread holds which lock. From it, at most one
  thread is between reading a head to publish and the return, and a sweep
  excludes both that thread and every fold.
- `ChainInv`: ancestry is reflexive and transitive over commits made.
- `HeadInv`: heads are held by the pager, and the disk's head is an ancestor of
  memory's.
- `Flight`: how far one commit has got. It holds the thread that queues edits
  to its own two kinds of edit, the last of which moves its branch to its commit.
- `QueueInv`: the queue is empty unless the lock's holder is about to take it.

`AckedDurable` follows because when a thread is `done` the disk names its commit, and
disk heads only advance along `chain`. `QuietAgreement` adds `AgreeInv`: until a call
of the store fails, memory is the disk with the edits landed on it that one thread
has queued or taken (`Owes`), and that thread holds the lock.

None of this survives a merge. Its second `persist()` drains the queue with no lock
held, so a frame can carry another thread's edit, reach the log after a newer one,
and move the disk's head back; `AckedDurable` and `QuietAgreement` really fail. What
remains is `MergingInv`: in place of `Flight`'s and
`QueueInv`'s account of whose edits are where, `TrailInv` says of all of them, queued
or taken and in any order, that each names a commit the pager holds behind its
branch's head in memory (`Trailing`). It is kept because every step takes the heads
`Onward`: the history behind a head stays behind it, and what the pager held of that
history it goes on holding, through a sweep too, whose roots include every head.
`HeadsOnlyAdvance` is `Onward`; `NoDanglingRefs` is the part of `HeadInv` that says
the disk's heads, wherever late frames put them, are ancestors of memory's.

Each operation a condition excludes breaks one of the properties proved under it, as
the section on switches lists.

### Merging records (`MergeProofs`)

`MergesConverge` and `IncrementsKept`: `Spec` implies `[]Converged` and
`[]DeltasAdd` (which excludes equal increments in its statement), for any range of
counters and any policy answers, records of a
callback's own among them. `MergeInv` says that trees hold records, that nothing
disappears that the base has, and `BaseFollows`: the base is the side merged last, so
that the merge back only fast-forwards. `RulesUndirected` is under `ClaimsProper`.

### Merging over a history (`MergeHistoryProofs`)

`CountedOnce`: under `MergesApart` and `WeightsTell`, `Spec` implies `[]TallyExact`, for
any branches and commits and any order of writes, forks, merges, rewinds and crashes
between merges. The heart is `BaseOf`: where `merge_bases` finds one base, it contains
exactly the writes that both sides do, so that the three-way merge of their sums is
the sum of all (`DecideTally`, from `SumMeet`: what two sets share is counted twice in
their sums). It holds because every write is itself a commit that each commit
containing it descends from, unless a second parent is still missing. `HistoryInv` says
that commits are made in order and what a parent contains its children do
(`Ancestral`), that a write came by a recorded parent or by one that a merge is about to
record (`Descent`, `Pending`), that a value is the sum of the commit's writes
(`Counted`), that the head a commit notes as merged is contained in it (`Noted`), so
that a merge which changes nothing may still record it, and that a plan carried out
on its target's head of now gives the sum of both sides (`Planned`).

`FullAncestors` is a recursive function. That there is one of its equation is shown by
giving it, as the sets of commits closed under parents (`AncestryExists`); what it
contains then follows from the first commit it would be wrong for (`AllInherit`).

### Trees and read-sets (`WritePathProofs`)

`LabelsSurvive`, `BeliefsAgree` and `PastStaysFixed`: `Spec` implies
`[]LabelsInherited`, `[]BeliefAgrees` and `PastFixed`, for any sessions that read,
write, merge, mark stale, forget and rewind on any branches. `PathInv` says, of every
commit made, that its tree is whole, that an index entry covers the sources of its record
(`Labelled`), and that a record and its history agree (`Believed`); of any two
commits, that a node names one record (`Named`), so that a lookup that finds the node
that was read finds the record's sources, or its label, too, at whichever head it
looks; and of every session, that
what it has seen is covered by its read-set, or by the record it is about to capture
(`Covered`), and that what it is about to write will do (`Writing`). `mark_stale`
writes a claim once per contaminated node; what so many appended versions come to
is an induction (`VersionsIs`), again by hand.

### Taint (`WritePathProofs`, second part)

`TaintComplete`, `TaintPrecise` and `WritePathTypes`: `Spec` implies `[]Complete`,
`[]Precise` and `[]TypeOK`, without further condition. They speak of what a flood
reaches through the nodes of one tree, and need to know what a node means. `Origins`
gives, for the id of each node that may have written a record, the sources that
went into it; `Slipped` is the sources excepted. `TaintInv` says that

- commits are made in increasing order upon commits made (`Ordered`), and an id is one
  node's (`OneNode`);
- a record's node has a parent, or a source of its own, for each source of its record,
  none for what did not go in, and its parents are older (`SoundNode`);
- the slots and the source index of a tree agree (`Matched`), and a branch's slots
  are filled up to its counter (`Filled`);
- the parent a source came by is in the same tree (`Linked`), and so is the node that
  wrote each record last (`Headed`);
- a read-set holds what its session has seen, but for the record about to be captured
  (`SoundReads`); a write under way gives its nodes what went into its records, but
  for what it owns up to (`SoundRecs`), and what a merge carries agrees as the parts
  of a tree do (`SoundCarried`).

For the last, a three-way merge decides about slots and source entries apart: they
come out agreeing (`PlanMatched`) because equal ids are equal nodes, and where both
sides changed a slot (`Contested`) the sources are excepted. For `Filled`, the slots of
a write's nodes are apart and leave no gap, however often `mark_stale` repeats a key
(`SlotsApart`, `SlotsFill`); this rests on sums over sets of keys, folds whose recursion
is unrolled by an induction on the number of elements (`SumSplits`). A write then
lands (`LandSound`): its new nodes are sound, and what stops being so of the others is
in `Lost` or `Dangling`.

From the invariant, completeness is by contradiction: of the nodes that the source
went into and the flood missed, the one of the earliest commit either cites the source,
and is where a flood starts, or has a parent in the tree that the source went into,
which is of an earlier commit (`FloodFinds`). That a flood which is not refused is
closed downstream, and that what it reaches the source went into, are inductions over
its levels (`FloodCloses`, `FloodKeeps`).

### Copies of a database (`CopiesProofs`)

`CopiesTypes`; `CopiesAreWhole` and `RestoresAreTrue` under `WritesOnly`;
`RecoveryPointsAreTrue` under `~Reuse`; `RetentionLeavesEnough` in front without
condition, its second half excepting surveys that met what was no whole backup
(`muddied`).
For the first two: the store's files are in hand (`Owned`: a command has it open;
`Guarded`: the lock is whose it says); what a backup listed stays on disk and goes on
containing what the refs name, since nothing is committed or swept while the guard is
held (`Listed`); what it has copied, with the snapshot it has still to copy, names
what the refs named at the beginning (`CopyComplete`), whatever was compacted; so what
has a manifest is a committed prefix (`ShelfWhole`), signed as asked (`ShelfSigned`); what a trusted key
signed is not copied into again (`ShelfVouched`); and a restore under way holds what
was verified (`RestoringTrue`), whatever happens to its directory. For recovery points:
a receipt, and what a reader has of it, speaks of a copy as new as the refs were
(`ReceiptsTrue`, `ReaderNamed`), because loomctl has the store to itself
(`CopyIsCurrent`). For retention: there are copies it was told to leave, as new as
all it has still to take, and nobody else takes them away (`PruneSpares`).

### Gateway (`GatewayProofs`)

`Spec` implies `[]TypeOK`, `[]AtMostOnce`, `[]DisableHolds`, `[]Authorized` and
`[]RecallNames`. None but the first and the fourth is inductive. The invariant `IInv`
adds:

- `LockInv`: whoever is inside `execute` holds the lock, and the key it decides
  has no record, so two callers are never inside together;
- `CountInv`: an effect is accounted for by a record, by the call that is past
  its connector, or by a loss (a panic or restart), and each loss by at most one;
- `SwitchInv`: while actions are disabled, effects since then and calls that had
  already passed the switch are together at most one. A later call has to read
  the switch first;
- `WorldInv`: what changed in the world under a key since its record was last lost
  (`Since`) is recorded as done or unknown, or about to be, and what is recorded as done
  was done since or simulated.

`Authorized` also rests on `EngineFaithful`: for every rule set, what the indexed
engine allows the rules as written permit.

### Key custody (`CustodyProofs`)

`Spec` implies `[]TypeOK` and `[]SomeoneVerifies`. The two together are inductive.
`SomeoneVerifies` speaks of every register there is: published, in the partial
file, being written, loaded by a verifier. A write, a rename, a crash or a load
only moves one of them (`WritingCopies`), so what is left is what a command makes
of the register it loaded: a staged key does not count (`ExpandedUnsealed`), a
promotion leaves both the promoted key and the ones it retires able to verify
(`StatusUnsealed`), and a revocation that would leave none is refused or adds the
role to `sealing` (`RotationSealsNothing`). It does not matter that another command
has published since: a lost update loses a change, never a role.

`CustodyRevocationHolds`, `CustodyKeepsVerifying` and `CustodyStagedFirst` do depend
on that, and speak of `~raced`. `InTurn` says what holds until then: a command that is
not outdated made its register from the published one by one step of a rotation
(`MadeFromFile`), reported revocations are in the file, and what was loaded or signed
is still honoured by it. `Follows` says what one step may do to a root: it may be
added as staged, or lose or gain standing only as the step is for (`RotationFollows`).

### Left to TLC

`EveryCallReturns` and `Released` are liveness under fairness. The record tree's
implementation of a map (`ImplementsMap`, `ReadsAgree`, `NeverLate`,
`PrefilterComplete`) and the vector index (`AlwaysFound`, `FoldExact`) descend by
RECURSIVE operators, which the prover does not take. These are checked on their runs'
instances only.

## Not modelled, and the plan

Component notes are in PROJECT.json. Bytes, checksums and encodings are
abstracted to whole and torn frames, intact and damaged files, sizes; pages are
the pager's. In order:

1. Sessions and tokens: actor keys, scope and expiry, rotation and revocation
   beside writes.
2. Sleep and wake (refs that travel apart from pages); `verify_integrity` beside gc;
   the recovery drill, which puts backup, restore and verification in sequence.
3. MCP admission and the request lifecycle.
4. Retrieval and packing with `may_pack`; the valid axis of `as_of`; the bundle's
   hash chain.
