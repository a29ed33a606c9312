----------------------------- MODULE SearchIndex -----------------------------
(***************************************************************************)
(* The search index of one branch: an entry for every record written with  *)
(* a hint, the buffer of vectors written since the last fold, and the      *)
(* graph, all three in the branch's own tree (a sibling has another tree   *)
(* and cannot address them).  Writes, folds, explicit builds, inline       *)
(* inserts and forgetting are interleaved; search_ann, which asks buffer   *)
(* and graph, is compared with search_scan, which scores every entry.      *)
(*                                                                         *)
(* What runs under the write guard is one step.  A fold builds off it and  *)
(* publishes with a compare-and-set of the head.  (That forgetting takes   *)
(* no guard is the subject of LoomBranch; here it is one step too.)        *)
(***************************************************************************)
EXTENDS Hnsw

CONSTANTS
  Folders,       \* threads that may be folding
  Retries,       \* MAX_RETRIES
  Hints,         \* Hints[id]: the vectors a record may be indexed with; Plain is none
  Inline,        \* the keys ann_insert is called for
  Again,         \* and whether again for one the graph has had
  MaxMutations,  \* bound: writes, inserts and forgets
  Plain, Null

ASSUME SearchIndexAssumption ==
  /\ Retries \in Nat \ {0} /\ MaxMutations \in Nat /\ Inline \subseteq Ids /\ Again \in BOOLEAN
  /\ Hints \in [Ids -> SUBSET (Vectors \cup {Plain})]
  /\ Plain \notin Vectors /\ Null \notin Vectors \cup {Plain}

VARIABLES
  tree,       \* the head of the branch: entry[id], buffer[id] and graph
  fold,       \* fold[f]: Idle, or the tree it read, whether the head is another
              \* by now, and how many attempts are left
  mutations,
  crowded     \* history: an inline insert made a node of the graph drop a link

vars == <<tree, fold, mutations, crowded>>

Idle == [at |-> "idle"]

-----------------------------------------------------------------------------
(* What the tree holds, and what the two searches answer.                   *)

\* The keys whose entry has a vector.
Embedded(t) == {id \in Ids : t.entry[id] \in Vectors}

Buffered(t) == {id \in Ids : t.buffer[id] # Null}

\* The k closest to v of some keys, whose vectors are given.
Nearest(v, of, keys, k) ==
  Closest([vector |-> of], v, {id \in keys : Dim[of[id]] = Dim[v]}, k)

\* search_scan: every entry is scored.
SearchScan(t, v, k) == Nearest(v, t.entry, Embedded(t), k)

\* search_ann: what the buffer has is scored, the graph is asked for as many more,
\* and of a key that is in both the buffer's vector counts.
SearchAnn(t, v, k) ==
  LET fresh == {id \in Buffered(t) : Dim[t.buffer[id]] = Dim[v]}
      hits  == Search(t.graph, v, k + Cardinality(fresh)) \ fresh
  IN  Nearest(v, [id \in fresh \cup hits |->
                    IF id \in fresh THEN t.buffer[id] ELSE t.graph.vector[id]],
              fresh \cup hits, k)

\* Mutant: entries whose vector is still in the buffer are left for the next fold.
RebuiltWithoutBuffer(t) ==
  [t EXCEPT !.graph  = ExportOver(Built([id \in Embedded(t) \ Buffered(t) |-> t.entry[id]]), @),
            !.buffer = [id \in Ids |-> Null]]

\* rebuild_graph: from the entries, in one commit with the clearing of the buffer.
Rebuilt(t) ==
  [t EXCEPT !.graph  = ExportOver(Built([id \in Embedded(t) |-> t.entry[id]]), @),
            !.buffer = [id \in Ids |-> Null]]

-----------------------------------------------------------------------------

Init ==
  /\ tree = [entry |-> [id \in Ids |-> Null], buffer |-> [id \in Ids |-> Null],
             graph |-> EmptyGraph]
  /\ fold = [f \in Folders |-> Idle]
  /\ mutations = 0 /\ crowded = FALSE

\* The head is a new commit: a fold that read the old one has lost its race.
Advance(new) ==
  /\ tree' = new
  /\ fold' = [f \in Folders |-> IF fold[f] = Idle THEN Idle ELSE [fold[f] EXCEPT !.moved = TRUE]]

Mutate(new) ==
  /\ mutations < MaxMutations
  /\ mutations' = mutations + 1
  /\ Advance(new)

\* A record is written with a hint: its entry, and its vector to the buffer.  The
\* entry of a hint without a vector replaces the old one and leaves the buffer.
WriteIndexed(id, hint) ==
  /\ Mutate([tree EXCEPT !.entry[id] = hint,
                         !.buffer[id] = IF hint = Plain THEN @ ELSE hint])
  /\ UNCHANGED crowded

\* Without a hint, or with nothing to cite, it is a commit and no more.
WriteUnindexed == Mutate(tree) /\ UNCHANGED crowded

\* invalidate_and_deindex: the entry goes.
Forget(id) == Mutate([tree EXCEPT !.entry[id] = Null]) /\ UNCHANGED crowded

\* Links of other nodes than id that are gone.
Dropped(old, new, id) ==
  \E n \in Nodes(old) \ {id} : \E layer \in DOMAIN old.links[n] :
    ~(old.links[n][layer] \subseteq new.links[n][layer])

\* ann_insert: one vector, into the graph only.
AnnInsert(id, v) ==
  LET graph == InsertStored(tree.graph, id, v)
  IN  /\ Again \/ id \notin Nodes(tree.graph)
      /\ Mutate([tree EXCEPT !.graph = graph])
      /\ crowded' = (crowded \/ Dropped(tree.graph, graph, id))

\* build_ann_index, all of it under the guard.
BuildAnnIndex ==
  /\ Advance(Rebuilt(tree))
  /\ crowded' = FALSE
  /\ UNCHANGED mutations

FoldBegin(f) ==
  /\ fold[f] = Idle
  /\ fold' = [fold EXCEPT ![f] = [at |-> "build", base |-> tree, moved |-> FALSE, left |-> Retries]]
  /\ UNCHANGED <<tree, mutations, crowded>>

\* Mutant: the head is not looked at again.
UnmovedTrusted(f) == fold[f].at = "build"

\* The head is the one the fold read.
Unmoved(f) == fold[f].at = "build" /\ ~fold[f].moved

\* The compare-and-set: the graph that was built becomes part of the head.
FoldPublish(f) ==
  /\ fold[f] # Idle /\ Unmoved(f)
  /\ tree' = Rebuilt(fold[f].base)
  /\ fold' = [e \in Folders |-> IF e = f \/ fold[e] = Idle THEN Idle
                                ELSE [fold[e] EXCEPT !.moved = TRUE]]
  /\ crowded' = FALSE
  /\ UNCHANGED mutations

\* It lost its race: what it built is an orphan.  It starts over from the new
\* head, or has tried often enough and leaves the buffer as it is.
FoldLost(f) ==
  /\ fold[f] # Idle /\ ~Unmoved(f)
  /\ fold' = [fold EXCEPT ![f] =
       IF fold[f].left = 1 THEN Idle
       ELSE [fold[f] EXCEPT !.base = tree, !.moved = FALSE, !.left = @ - 1]]
  /\ UNCHANGED <<tree, mutations, crowded>>

\* An error ends a fold, or a crash; the head is as it was.
FoldStops(f) ==
  /\ fold[f] # Idle
  /\ fold' = [fold EXCEPT ![f] = Idle]
  /\ UNCHANGED <<tree, mutations, crowded>>

Next ==
  \/ \E id \in Ids : \E hint \in Hints[id] : WriteIndexed(id, hint)
  \/ (\E f \in Folders : fold[f] # Idle) /\ WriteUnindexed
  \/ \E id \in Ids : tree.entry[id] # Null /\ Forget(id)
  \/ \E id \in Inline : \E v \in Hints[id] \ {Plain} : AnnInsert(id, v)
  \/ BuildAnnIndex
  \/ \E f \in Folders : FoldBegin(f) \/ FoldPublish(f) \/ FoldLost(f) \/ FoldStops(f)

Spec == Init /\ [][Next]_vars

-----------------------------------------------------------------------------

All == Cardinality(Ids)

\* Nothing is lost or briefly unsearchable (session.rs:703): whatever writes, folds
\* that lose or win their races, builds, inserts, failures and crashes come after
\* it, a record that was indexed with a vector is found by that vector in every
\* state of the head, in the buffer or along the links of the graph.  (The graph
\* refuses vectors of another dimension than its own, and an inline insert that
\* overflows a node's links may cut off what only that node led to.)
AlwaysFound ==
  \A id \in Embedded(tree) :
    ~crowded /\ tree.graph.dim \in {0, Dim[tree.entry[id]]} => id \in SearchAnn(tree, tree.entry[id], All)

\* A fold that is published changes no entry, not even of a write that raced it,
\* and from then on search_ann answers what the exact scan does: the graph leads
\* to every vector, and to none that was forgotten or replaced.
FoldExact ==
  [][\A f \in Folders :
       fold[f] # Idle /\ fold'[f] = Idle /\ tree' # tree =>
         /\ tree'.entry = tree.entry
         /\ \A v \in Vectors, k \in 1..All :
              Dim[v] = tree'.graph.dim
                => SearchAnn(tree', v, k) = SearchScan(tree', v, k)]_vars
=============================================================================
