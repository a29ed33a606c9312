----------------------------- MODULE WritePath -----------------------------
(***************************************************************************)
(* What a session reads and what its writes put in a commit (session.rs:   *)
(* read, capture_read, write_all, derivation_nodes, append_claim_version,  *)
(* merge_checked's provenance; taint.rs: mark_stale; forget.rs).           *)
(*                                                                         *)
(* A read returns its record and captures it afterwards, at whatever head  *)
(* the branch then has.  A write takes the read-set first and commits      *)
(* later, or fails.  How a commit is published is module LoomBranch's      *)
(* subject, and how a merge base is found MergeHistory's; here both are    *)
(* one step.                                                               *)
(***************************************************************************)
EXTENDS TreeContents

CONSTANTS
  Main, Sessions,
  Scope,       \* Scope[s]: the branches the session's token covers
  Does,        \* Does[s]: the calls it makes, of "read", "write", "merge", "stale",
               \* "forget", "rewind"
  Writes,      \* Writes[s]: the keys it writes
  Commits, RootCommit,
  Answers,     \* what merge policies answer: a side, or nothing (a callback's own
               \* records are MergeRecords' subject)
  Hints        \* may a write come with an index hint, or without (subset of BOOLEAN)

NodeIds == Commits \X (Keys \cup {MergeNote})

ASSUME WritePathAssumption ==
  /\ Main \in Branches
  /\ Scope \in [Sessions -> SUBSET Branches] /\ Writes \in [Sessions -> SUBSET Keys]
  /\ Commits \subseteq Nat /\ RootCommit \in Commits /\ \A c \in Commits : RootCommit <= c
  /\ Hints \subseteq BOOLEAN
  /\ Null \notin Commits \cup Nat \cup NodeIds
  /\ \A answer \in Answers : answer.choice \in {"source", "target", "unresolved"}

R == INSTANCE MergeRules WITH MinInt <- 0, MaxInt <- 0, NoBound <- Null

VARIABLES
  heads,     \* heads[b]: the branch's head, or Null
  tree,      \* tree[c]: the contents of commit c
  parents,   \* parents[c]: its recorded parents; none until it is made
  readset,   \* readset[s]: the session's ReadSet
  call,      \* call[s]: what the session is in the middle of, or Free
  truth,     \* history: the sources the session has really seen since its last write
  leaks,     \* history: <<way, source>>, how a source got past the read-set
  unlabelled \* history: sources whose label an index entry need not carry

vars == <<heads, tree, parents, readset, call, truth, leaks, unlabelled>>

-----------------------------------------------------------------------------

\* A session that is in the middle of nothing.
Free == [at |-> "nothing"]

NoReads == [nodes |-> {}, sources |-> {}, label |-> 0]

Tree(b) == tree[heads[b]]

Made      == {RootCommit} \cup {c \in Commits : parents[c] # {}}
NewCommit == Min(Commits \ Made)

\* The clock, as coarse as the model allows: two calls may get the same time.
Now == Cardinality(Made)

Ancestors(c) ==
  LET anc[d \in Made] == {d} \cup UNION {anc[q] : q \in parents[d]}
  IN  anc[c]

MergeBases(s, t) ==
  LET common == Ancestors(s) \cap Ancestors(t)
  IN  {c \in common : \A d \in common \ {c} : c \notin Ancestors(d)}

\* History: the sources behind a node of tree u, found in the commit it was written
\* with; u itself while that one is being made.
Behind(n, u) ==
  LET t == IF n.id[1] \in Made THEN tree[n.id[1]] ELSE u
  IN  n.sources \cup IF n.key \in DOMAIN t.from THEN t.from[n.key] ELSE {}

\* The session is free and its token covers the branch.  Bound: no call is begun
\* once the commits are used up.
May(s, what, b) ==
  /\ call[s] = Free /\ what \in Does[s]
  /\ b \in Scope[s] /\ heads[b] # Null
  /\ Made # Commits

Init ==
  /\ heads = [b \in Branches |-> IF b = Main THEN RootCommit ELSE Null]
  /\ tree = [c \in Commits |-> EmptyTree]
  /\ parents = [c \in Commits |-> {}]
  /\ readset = [s \in Sessions |-> NoReads]
  /\ call = [s \in Sessions |-> Free]
  /\ truth = [s \in Sessions |-> {}]
  /\ leaks = {} /\ unlabelled = {}

\* open_session_named, branch.
Fork(b, from) ==
  /\ heads[b] = Null /\ heads[from] # Null
  /\ heads' = [heads EXCEPT ![b] = heads[from]]
  /\ UNCHANGED <<tree, parents, readset, call, truth, leaks, unlabelled>>

\* read: the caller has the record from here on.
Read(s, b, k) ==
  /\ May(s, "read", b) /\ k \in DOMAIN Tree(b).rec
  /\ call' = [call EXCEPT ![s] = [at     |-> "reading",
                                  branch |-> b,
                                  key    |-> k,
                                  rec    |-> Tree(b).rec[k],
                                  node   |-> At(Tree(b).latest, k),
                                  from   |-> Tree(b).from[k]]]
  /\ truth' = [truth EXCEPT ![s] = @ \cup Tree(b).from[k]]
  /\ UNCHANGED <<heads, tree, parents, readset, leaks, unlabelled>>

\* capture_read holds the read_sets lock from here to its end.
ReadSetsFree == \A s \in Sessions : call[s].at # "capturing"

\* capture_read, first half: node_for_key looks the node up at the head of this
\* moment.  When the branch has moved, it may be another write's.
CaptureNode(s) ==
  /\ call[s].at = "reading" /\ ReadSetsFree
  /\ LET t    == Tree(call[s].branch)
         node == At(t.latest, call[s].key)
         own  == IF IsClaim(call[s].rec) THEN {} ELSE {call[s].rec.source}
     IN  /\ readset' = [readset EXCEPT ![s] =
               [nodes   |-> @.nodes \cup ({node} \ {Null}),
                sources |-> @.sources \cup own,
                label   |-> MostRestrictive(@.label, OwnTrust(call[s].rec))]]
         /\ leaks' = IF node = call[s].node THEN leaks
                     ELSE leaks \cup ({"raced"} \X
                            (call[s].from \cup IF node = Null THEN {} ELSE t.from[call[s].key]))
  /\ call' = [call EXCEPT ![s].at = "capturing"]
  /\ UNCHANGED <<heads, tree, parents, truth, unlabelled>>

\* Mutant: a derived record's label is not carried forward.
CaptureLabelNone(s) ==
  /\ call[s].at = "capturing"
  /\ call' = [call EXCEPT ![s] = Free]
  /\ UNCHANGED <<heads, tree, parents, readset, truth, leaks, unlabelled>>

\* Second half: index_entry_for reads the head again, for the label.
CaptureLabel(s) ==
  /\ call[s].at = "capturing"
  /\ LET t     == Tree(call[s].branch)
         entry == At(t.idx, call[s].key)
     IN  /\ readset' = [readset EXCEPT ![s] =
               [nodes   |-> @.nodes,
                sources |-> @.sources,
                label   |-> MostRestrictive(@.label, IF entry = Null THEN 0 ELSE entry)]]
         /\ unlabelled' = IF At(t.latest, call[s].key) = call[s].node THEN unlabelled
                          ELSE unlabelled \cup call[s].from
  /\ call' = [call EXCEPT ![s] = Free]
  /\ UNCHANGED <<heads, tree, parents, truth, leaks>>

-----------------------------------------------------------------------------
(* Writing: a call prepares what write_all is given, and takes the         *)
(* session's read-set on the way in.                                       *)

\* recs: key -> record; times: how often a key is in the list; hinted: the keys
\* with an index hint; from, leak: history.  What only a merge has: the parents
\* it adds, the node slots and source entries it carries, and the absorbed head.
Prepare(s, b, recs, times, hinted, merge, from, leak) ==
  /\ ReadSetsFree
  /\ call' = [call EXCEPT ![s] =
       [at |-> "writing", branch |-> b, recs |-> recs, times |-> times,
        hinted |-> hinted, merge |-> merge, captured |-> readset[s],
        from |-> from, leak |-> leak]]
  /\ readset' = [readset EXCEPT ![s] = NoReads]

NoMerge == [extra |-> Nothing, prov |-> Nothing, cites |-> Nothing, merged |-> Nothing]

Each(keys, v) == [k \in keys |-> v]

\* write, write_indexed: one record.
StartWrite(s, b, k, r, hint) ==
  /\ May(s, "write", b)
  /\ Prepare(s, b, Each({k}, r), Each({k}, 1), IF hint THEN {k} ELSE {}, NoMerge,
             Each({k}, truth[s] \cup IF IsClaim(r) THEN {} ELSE {r.source}), {})
  /\ UNCHANGED <<heads, tree, parents, truth, leaks, unlabelled>>

\* mark_stale: every asserted claim downstream of the source, written back, once
\* for each node of its key.  The new node has only this session's reads for
\* parents.
StartMarkStale(s, b, src) ==
  /\ May(s, "stale", b) /\ ~Refused(Tree(b), src)
  /\ LET t     == Tree(b)
         stale == {k \in Contaminated(t, src) \cap DOMAIN t.rec :
                     IsClaim(t.rec[k]) /\ t.rec[k].status = "asserted"}
     IN  /\ stale # {}
         /\ Prepare(s, b, [k \in stale |-> Claim(t.rec[k].start, "stale")],
                    [k \in stale |-> Cardinality(NodesOf(t, src, k))], {}, NoMerge,
                    [k \in stale |-> truth[s] \cup t.from[k]],
                    {"stale"} \X UNION {t.from[k] : k \in stale})
  /\ UNCHANGED <<heads, tree, parents, truth, leaks, unlabelled>>

\* Mutant: no parents from the two sides.
BothSidesNeither(source, target, k) == {}

\* The latest nodes of a key on both sides of a merge.
BothSides(source, target, k) == {At(source.latest, k), At(target.latest, k)} \ {Null}

\* decide for one key or slot.  Claims of one rank are as opaque as the rest.
DecideAt(base, source, target, x, answer) ==
  LET rec(f) == IF x \in DOMAIN f THEN R!Opaque(f[x]) ELSE R!Absent
  IN  R!Decide(rec(base), rec(source), rec(target), answer)

\* plan_merge over one part of the tree: what it writes, and where it cannot.
PlanWrites(base, source, target, answer) ==
  LET d(x) == DecideAt(base, source, target, x, answer)
  IN  [x \in {y \in DOMAIN source : d(y).act \in {"write", "resolved"}} |-> d(x).rec.v]
PlanConflicts(base, source, target, answer) ==
  {x \in DOMAIN source : DecideAt(base, source, target, x, answer).act = "conflict"}

\* Slots that two branches put different nodes in, where a policy must answer.
Contested(base, source, target) ==
  PlanConflicts(base.prov, source.prov, target.prov, R!Unresolved)

\* merge_checked up to the plan, at the heads of this moment.
StartMerge(s, from, to, answer) ==
  /\ May(s, "merge", from) /\ May(s, "merge", to) /\ from # to
  /\ Cardinality(MergeBases(heads[from], heads[to])) = 1
  /\ LET base   == tree[CHOOSE c \in MergeBases(heads[from], heads[to]) : TRUE]
         source == Tree(from)
         target == Tree(to)
         recs   == PlanWrites(base.rec, source.rec, target.rec, answer)
     IN  /\ \A part \in {"rec", "prov", "cites"} :
              PlanConflicts(base[part], source[part], target[part], answer) = {}
         /\ call' = [call EXCEPT ![s] =
              [at |-> "planned", source |-> from, branch |-> to, recs |-> recs,
               merge |-> [extra  |-> [k \in DOMAIN recs |-> BothSides(source, target, k)],
                          prov   |-> PlanWrites(base.prov, source.prov, target.prov, answer),
                          cites  |-> PlanWrites(base.cites, source.cites, target.cites, answer),
                          merged |-> Each({from}, heads[from])],
               from  |-> [k \in DOMAIN recs |-> truth[s] \cup source.from[k] \cup
                            IF k \in DOMAIN target.from THEN target.from[k] ELSE {}],
               leak  |-> {"overwritten"} \X UNION {Behind(source.prov[x], source) :
                                                  x \in Contested(base, source, target)}]]
  /\ UNCHANGED <<heads, tree, parents, readset, truth, leaks, unlabelled>>

\* A merged record is derived from the nodes of both sides.  They are looked up
\* after the plan (node_for_key), at the heads of this moment: where a branch has
\* moved since, the sources of either moment may get past the write.
LookUpSides(s) ==
  /\ call[s].at = "planned"
  /\ LET w       == call[s]
         source  == Tree(w.source)
         target  == Tree(w.branch)
         looked  == [k \in DOMAIN w.recs |-> BothSides(source, target, k)]
         moved   == {k \in DOMAIN w.recs : looked[k] # w.merge.extra[k]}
         behind(t, k) == IF k \in DOMAIN t.from THEN t.from[k] ELSE {}
     IN  Prepare(s, w.branch, w.recs, Each(DOMAIN w.recs, 1), {},
                 [w.merge EXCEPT !.extra = looked], w.from,
                 w.leak \cup ({"raced"} \X
                   UNION {w.from[k] \cup behind(source, k) \cup behind(target, k) : k \in moved}))
  /\ UNCHANGED <<heads, tree, parents, truth, leaks, unlabelled>>

-----------------------------------------------------------------------------
(* write_all under the head lock.                                          *)

\* derivation_nodes: one per key and the merge note, unless only bookkeeping is
\* written.
NodeKeys(w) ==
  IF w.recs = Nothing THEN {}
  ELSE DOMAIN w.recs \cup IF w.merge.merged = Nothing THEN {} ELSE {MergeNote}

\* How many nodes a key gets.
Times(w) == [k \in NodeKeys(w) |-> IF k = MergeNote THEN 1 ELSE w.times[k]]

\* A node's id is the hash of its contents; the commit that carries it stands for
\* that here.  derived_from of the envelope, which can only add sources, is empty.
NewNode(w, k, extra) ==
  [id      |-> <<NewCommit, k>>,
   key     |-> k,
   parents |-> w.captured.nodes \cup extra,
   sources |-> w.captured.sources \cup
                 IF k \in Observations THEN {w.recs[k].source} ELSE {}]

\* Mutant: every record gets the parents of all.
NewNodesShared(w) ==
  [k \in NodeKeys(w) |->
     NewNode(w, k, UNION {w.merge.extra[j] : j \in DOMAIN w.merge.extra})]

NewNodes(w) ==
  [k \in NodeKeys(w) |->
     NewNode(w, k, IF k \in DOMAIN w.merge.extra THEN w.merge.extra[k] ELSE {})]

\* Mutant: one slot too many is counted.
SeqAfterSkips(w, seq) == seq + 1 + SumFunctionOnSet(Times(w), NodeKeys(w))

\* The branch's counter once the nodes are appended.
SeqAfter(w, seq) == seq + SumFunctionOnSet(Times(w), NodeKeys(w))

\* The slots of a key's nodes: appended in key order, a merge's note last.
SlotsOf(w, seq, k) ==
  LET before == IF k = MergeNote THEN NodeKeys(w) \ {k}
                ELSE {j \in NodeKeys(w) \ {MergeNote} : j < k}
      first  == seq + SumFunctionOnSet(Times(w), before)
  IN  {<<w.branch, first + i>> : i \in 0 .. Times(w)[k] - 1}

\* Mutant: only a new assertion becomes a version.
VersionsAsserted(versions, claim, n) ==
  IF claim.status = "asserted" THEN AppendVersion(versions, claim) ELSE versions

\* The claim versions after n entries of the list.
Versions(versions, claim, n) ==
  LET after[i \in 0 .. n] == IF i = 0 THEN versions ELSE AppendVersion(after[i - 1], claim)
  IN  after[n]

\* The tree write_all leaves: records and what a merge carries first, then the
\* nodes, the index entries and the claim versions.
Written(t, w) ==
  LET new    == NewNodes(w)
      slots(k) == SlotsOf(w, t.seq[w.branch], k)
      owner  == [x \in UNION {slots(k) : k \in NodeKeys(w)} |->
                   CHOOSE k \in NodeKeys(w) : x \in slots(k)]
      cited  == {y \in Sources \X DOMAIN owner : y[1] \in new[owner[y[2]]].sources}
  IN  [rec    |-> Overlay(t.rec, w.recs),
       merged |-> Overlay(t.merged, w.merge.merged),
       prov   |-> Overlay(Overlay(t.prov, w.merge.prov), [x \in DOMAIN owner |-> new[owner[x]]]),
       cites  |-> Overlay(Overlay(t.cites, w.merge.cites), [y \in cited |-> new[owner[y[2]]].id]),
       latest |-> Overlay(t.latest, [k \in NodeKeys(w) |-> new[k].id]),
       seq    |-> [t.seq EXCEPT ![w.branch] = SeqAfter(w, @)],
       idx    |-> Overlay(t.idx, [k \in w.hinted |->
                    MostRestrictive(w.captured.label, OwnTrust(w.recs[k]))]),
       hist   |-> [k \in Claims |->
                    IF k \in DOMAIN w.recs THEN Versions(t.hist[k], w.recs[k], w.times[k])
                    ELSE t.hist[k]],
       from   |-> Overlay(t.from, w.from)]

\* History: the nodes whose slot the write gave to another, of those that were there
\* or that it carries.
Lost(t, w, u) ==
  {t.prov[x] : x \in {y \in DOMAIN t.prov : u.prov[y] # t.prov[y]}} \cup
  {w.merge.prov[x] : x \in {y \in DOMAIN w.merge.prov : u.prov[y] # w.merge.prov[y]}}

\* History: the nodes it brought in with a parent that this tree does not hold.
\* The reading was done on another branch, or this one was rewound since.
Dangling(t, u) ==
  {n \in Nodes(u) \ Nodes(t) : ~(n.parents \subseteq {m.id : m \in Nodes(u)})}

\* What store.commit, record_commit and set_head leave.
Commit(b, contents, more) ==
  /\ tree' = [tree EXCEPT ![NewCommit] = contents]
  /\ parents' = [parents EXCEPT ![NewCommit] = {heads[b]} \cup more]
  /\ heads' = [heads EXCEPT ![b] = NewCommit]

\* A tree that comes out as it was is no new commit; a merge may then give the
\* head a second parent that is an ancestor already.
WriteAll(s) ==
  /\ call[s].at = "writing" /\ Made # Commits
  /\ LET w == call[s]
         t == Tree(w.branch)
         u == Written(t, w)
     IN  /\ IF u = t THEN UNCHANGED <<heads, tree, parents>>
                    ELSE Commit(w.branch, u,
                                  {w.merge.merged[b] : b \in DOMAIN w.merge.merged})
         /\ leaks' = UNION {leaks, w.leak,
                            {"overwritten"} \X UNION {Behind(n, u) : n \in Lost(t, w, u)},
                            {"elsewhere"} \X UNION {Behind(n, u) : n \in Dangling(t, u)}}
         /\ unlabelled' = unlabelled \cup
              UNION {w.from[k] : k \in DOMAIN w.recs \ w.hinted}
  /\ truth' = [truth EXCEPT ![s] = {}]
  /\ call' = [call EXCEPT ![s] = Free]
  /\ UNCHANGED readset

\* An I/O error before the commit: the read-set is gone, the caller's knowledge
\* is not.
WriteErr(s) ==
  /\ call[s].at = "writing"
  /\ call' = [call EXCEPT ![s] = Free]
  /\ leaks' = leaks \cup ({"failed"} \X truth[s])
  /\ UNCHANGED <<heads, tree, parents, readset, truth, unlabelled>>

\* forget: contaminated_keys_on ...
StartForget(s, b, src) ==
  /\ May(s, "forget", b) /\ ~Refused(Tree(b), src) /\ Contaminated(Tree(b), src) # {}
  /\ call' = [call EXCEPT ![s] = [at |-> "forgetting", branch |-> b,
                                  keys |-> Contaminated(Tree(b), src)]]
  /\ UNCHANGED <<heads, tree, parents, readset, truth, leaks, unlabelled>>

\* ... then invalidate_and_deindex of those keys, in one commit.
InvalidateAndDeindex(s) ==
  /\ call[s].at = "forgetting" /\ Made # Commits
  /\ LET b     == call[s].branch
         t     == Tree(b)
         keys  == call[s].keys
         stand == {k \in keys \cap DOMAIN t.rec :
                     IsClaim(t.rec[k]) /\ t.rec[k].status \in {"asserted", "stale"}}
         u     == [t EXCEPT
                     !.idx = [k \in DOMAIN t.idx \ keys |-> t.idx[k]],
                     !.rec = Overlay(t.rec, [k \in stand |->
                                               Claim(t.rec[k].start, "invalidated")])]
     IN  /\ IF u = t THEN UNCHANGED <<heads, tree, parents>> ELSE Commit(b, u, {})
         /\ unlabelled' = unlabelled \cup UNION {t.from[k] : k \in keys \cap DOMAIN t.idx}
  /\ call' = [call EXCEPT ![s] = Free]
  /\ UNCHANGED <<readset, truth, leaks>>

\* rewind.
Rewind(s, b, c) ==
  /\ May(s, "rewind", b) /\ c \in Ancestors(heads[b]) \ {heads[b]}
  /\ heads' = [heads EXCEPT ![b] = c]
  /\ UNCHANGED <<tree, parents, readset, call, truth, leaks, unlabelled>>

Next ==
  \/ \E b, from \in Branches : Fork(b, from)
  \/ \E s \in Sessions :
       \/ \E b \in Branches :
            \/ \E k \in Keys : Read(s, b, k)
            \/ \E hint \in Hints :
                 \/ \E k \in Observations \cap Writes[s], src \in Sources :
                      StartWrite(s, b, k, Observation(src), hint)
                 \/ \E k \in Claims \cap Writes[s] : StartWrite(s, b, k, Claim(Now, "asserted"), hint)
            \/ \E src \in Sources : StartMarkStale(s, b, src) \/ StartForget(s, b, src)
            \/ \E to \in Branches, answer \in Answers : StartMerge(s, b, to, answer)
            \/ \E c \in Made : Rewind(s, b, c)
       \/ CaptureNode(s) \/ CaptureLabel(s) \/ LookUpSides(s)
       \/ WriteAll(s) \/ WriteErr(s) \/ InvalidateAndDeindex(s)

Spec == Init /\ [][Next]_vars

-----------------------------------------------------------------------------
(* Properties. *)

Ways == {"raced", "failed", "stale", "overwritten", "elsewhere"}

Leaked(ways) == {l[2] : l \in {m \in leaks : m[1] \in ways}}

Slots   == Branches \X Nat
Statuses == {"asserted", "stale", "invalidated"}

TreeOK(t) ==
  /\ DOMAIN t.rec \subseteq Keys /\ DOMAIN t.merged \subseteq Branches
  /\ \A k \in DOMAIN t.rec \cap Observations : t.rec[k].source \in Sources
  /\ \A k \in DOMAIN t.rec \cap Claims : t.rec[k].start \in Nat /\ t.rec[k].status \in Statuses
  /\ DOMAIN t.prov \subseteq Slots
  /\ \A x \in DOMAIN t.prov : t.prov[x].id \in NodeIds /\ t.prov[x].parents \subseteq NodeIds
  /\ \A y \in DOMAIN t.cites : y[1] \in Sources /\ y[2] \in Slots /\ t.cites[y] \in NodeIds
  /\ \A b \in Branches : \A n \in 0 .. t.seq[b] - 1 : <<b, n>> \in DOMAIN t.prov

\* Every tree is well formed, and a branch's slots are filled up to its counter.
TypeOK ==
  /\ heads \in [Branches -> Made \cup {Null}]
  /\ \A c \in Made : parents[c] \subseteq Made /\ TreeOK(tree[c])
  /\ \A s \in Sessions : readset[s].nodes \subseteq NodeIds /\ readset[s].sources \subseteq Sources
  /\ leaks \subseteq Ways \X Sources /\ unlabelled \subseteq Sources

\* On every branch, taint names the write that left each record a source went
\* into (its latest node, which whoever reads the record builds on), or refuses,
\* sources that got past the read-set in one of the given ways excepted.
CompleteBut(ways) ==
  \A b \in Branches, src \in Sources \ Leaked(ways) :
    heads[b] # Null /\ ~Refused(Tree(b), src) =>
      LET reached == Flood(Tree(b), src)[MaxDepth]
      IN  \A k \in DOMAIN Tree(b).rec :
            src \in Tree(b).from[k] => Tree(b).latest[k] \in reached

\* taint is complete (AT-020, AT-021) across forks, merges and rewinds, but for
\* five ways past the read-set: a read, or a merge, that looked a key's node up
\* after another write of the key, a failed write, mark_stale writing a claim back,
\* a node put over another's slot, and a parent that is not on the branch written to.
Complete == CompleteBut(Ways)

\* The same for what a session reads on one branch and writes on another.
CompleteAcrossBranches == CompleteBut(Ways \ {"elsewhere"})

\* And precise: it names no key no version of which the source ever went into.
Precise ==
  \A b \in Branches, src \in Sources \ Leaked(Ways) :
    heads[b] # Null => \A k \in Contaminated(Tree(b), src) \cap Keys :
      \E c \in Made : k \in DOMAIN tree[c].from /\ src \in tree[c].from[k]

\* AT-035: an index entry is at least as restricted as every source its record
\* came from, through any number of derivations that were themselves indexed
\* and did not pass through a merge (which carries no index entries).  Excepted
\* beside the ways past the read-set: what was read at a key that another write
\* or a rewind had changed when capture_read looked its label up.
LabelsInherited ==
  \A b \in Branches : heads[b] # Null =>
    \A k \in DOMAIN Tree(b).idx : \A src \in Tree(b).from[k] \ (Leaked(Ways) \cup unlabelled) :
      Tree(b).idx[k] >= Trust[src]

\* What stands at a key and the open version of its history are one belief, in
\* every commit; only forgetting withdraws a claim and leaves its history open.
BeliefAgrees ==
  \A c \in Made : \A k \in DOMAIN tree[c].rec \cap Claims :
    LET r == tree[c].rec[k]
        v == tree[c].hist[k][Len(tree[c].hist[k])]
    IN  v.start = r.start /\ v.end = Null /\ (r.status # "invalidated" => v.status = r.status)

\* A new version of a claim leaves what was believed before its start as it was
\* (AT-005).
PastFixed ==
  [][\A b \in Branches, k \in Claims :
       LET was == Tree(b).hist[k]
           is  == tree'[heads'[b]].hist[k]
       IN  heads[b] # Null /\ heads'[b] \notin Made /\ is # was =>
             \A at \in 0 .. is[Len(is)].start - 1 : AsOf(is, at) = AsOf(was, at)]_vars
=============================================================================
