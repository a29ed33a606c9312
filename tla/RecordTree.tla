----------------------------- MODULE RecordTree -----------------------------
(***************************************************************************)
(* The record store (loom-branch/tree.rs): a B+tree whose nodes are logical *)
(* pages, the cache of dirty nodes a transaction works in, the running      *)
(* estimate of how large each leaf encodes, and the merge prefilter that    *)
(* turns changed pages into candidate keys (loom-branch/merge.rs).          *)
(*                                                                          *)
(* A leaf is a function from keys to records (the code keeps a sorted       *)
(* vector); an internal node is sequences of separators and children.  A key *)
(* is a byte string; sizes are encoded lengths.  The pager is external: it   *)
(* reads pages of one manifest and refuses a page larger than PageSize.      *)
(***************************************************************************)
EXTENDS Integers, Sequences, SequencesExt, FiniteSetsExt, Functions

CONSTANTS
  Keys,       \* the keys records are stored under: sequences of bytes
  TopByte,    \* the largest byte
  Records,    \* the records
  EntrySize,  \* the encoded size of an entry that holds a record, without the key's bytes
  Slack,      \* by how much the estimate of an entry over-counts
  Header,     \* the encoded size of a node without its entries
  Link,       \* the encoded size of a child and its separator, without the bytes
  PageSize,   \* what the pager accepts
  Seeds,      \* what the store held before: sequences of keys, inserted in order
  SeedRecord, \* the record they were inserted with
  MaxOps,     \* bound: inserts and removes
  Null        \* no record, transaction or snapshot

ASSUME TreeAssumption ==
  /\ Null \notin Records
  /\ Keys \subseteq Seq(0 .. TopByte)
  /\ SeedRecord \in Records
  /\ EntrySize \in [Records -> Nat]
  /\ {Slack, Header, Link, PageSize, MaxOps} \subseteq Nat

VARIABLES
  disk,   \* the pages and metadata of the branch's head
  tree,   \* the open transaction's `Tree`, or Null
  base,   \* the manifest another branch was forked at, and still is
  ops,    \* inserts and removes so far
  stored, working   \* the map the callers were promised, of `RecordMap`

vars == <<disk, tree, base, ops, stored, working>>

Map == INSTANCE RecordMap

----------------------------------------------------------------------------
(* Byte strings.                                                            *)

Prefixed(k, prefix) == IsPrefix(prefix, k)

\* The order of byte strings, as a set of pairs.
Strings == UNION {{SubSeq(k, 1, n) : n \in 0 .. Len(k)} : k \in Keys}
Order ==
  {<<a, b>> \in Strings \X Strings :
    \/ IsStrictPrefix(a, b)
    \/ \E i \in 1 .. Min({Len(a), Len(b)}) :
         SubSeq(a, 1, i - 1) = SubSeq(b, 1, i - 1) /\ a[i] < b[i]}
Before(a, b) == <<a, b>> \in Order

InOrder == SetToSortSeq(Keys, Before)

\* The entries of a map from keys to records, in key order.
Listing(f) ==
  LET ks == SelectSeq(InOrder, LAMBDA k : k \in DOMAIN f)
  IN  [i \in DOMAIN ks |-> <<ks[i], f[ks[i]]>>]

\* Mutant: no carry, a prefix that ends in the top byte has no upper bound.
PrefixUpperNoCarry(prefix) ==
  IF prefix = <<>> \/ Last(prefix) = TopByte THEN Null
  ELSE [prefix EXCEPT ![Len(prefix)] = @ + 1]

\* The smallest string that does not begin with the prefix, or Null: the last
\* byte below the top one goes up by one, and what follows it is dropped.
PrefixUpper(prefix) ==
  LET below == {i \in DOMAIN prefix : prefix[i] < TopByte}
  IN  IF below = {} THEN Null
      ELSE LET i == Max(below) IN [SubSeq(prefix, 1, i) EXCEPT ![i] = @ + 1]

----------------------------------------------------------------------------
(* Nodes and their sizes.                                                    *)

Leaf(entries)            == [entries |-> entries]
Internal(keys, children) == [keys |-> keys, children |-> children]
IsLeaf(node)             == "entries" \in DOMAIN node
EmptyLeaf                == Leaf(<<>>)

\* The length of an entry's encoding, and of a node's: separators count with
\* their bytes, so that long ones fill an internal node earlier.
EntryBytes(k, r) == EntrySize[r] + Len(k)

Encoded(node) ==
  IF IsLeaf(node)
  THEN Header + MapThenSumSet(LAMBDA k : EntryBytes(k, node.entries[k]), DOMAIN node.entries)
  ELSE Header + Link * Len(node.children) + FoldLeft(LAMBDA n, k : n + Len(k), 0, node.keys)

\* Mutant: the estimate counts an entry without its framing.
EntryCostBare(k, r) == EntryBytes(k, r) - Slack

\* What an entry adds to the estimate: over-counted on purpose.
EntryCost(k, r) == EntryBytes(k, r) + Slack

Limit == (7 * PageSize) \div 10

\* A full check that trusts the estimate while it is low, and pays for one real
\* encoding (returned as the new estimate) when it is not.
Overflowed(node, est) ==
  IF est <= Limit THEN [full |-> FALSE, est |-> est]
  ELSE [full |-> Encoded(node) > Limit, est |-> Encoded(node)]

----------------------------------------------------------------------------
(* A `Tree`: the pages it was opened on, its dirty nodes, estimates, meta.   *)

Open(d) == [pages |-> d.pages, dirty |-> <<>>, sizes |-> <<>>,
            root |-> d.root, next |-> d.next, count |-> d.count]

\* This transaction's node, else the stored one, else an empty leaf.
NodeAt(t, page) ==
  IF page \in DOMAIN t.dirty THEN t.dirty[page]
  ELSE IF page \in DOMAIN t.pages THEN t.pages[page]
  ELSE EmptyLeaf

\* The estimate kept with a dirty node; for any other it is the encoded length.
SizeOf(t, page) ==
  IF page \in DOMAIN t.sizes THEN t.sizes[page] ELSE Encoded(NodeAt(t, page))

Set(t, page, node) ==
  [t EXCEPT !.dirty = (page :> node) @@ @,
            !.sizes = Restrict(@, DOMAIN @ \ {page})]
SetSized(t, page, node, size) ==
  [t EXCEPT !.dirty = (page :> node) @@ @, !.sizes = (page :> size) @@ @]
Alloc(t) == [t EXCEPT !.next = @ + 1]

\* Mutant: a key equal to a separator is looked for to the left of it.
ChildIndexLeft(keys, key) ==
  1 + Cardinality({i \in DOMAIN keys : Before(keys[i], key)})

\* The position of the child that owns the key: after every separator up to it.
ChildIndex(keys, key) ==
  1 + Cardinality({i \in DOMAIN keys : ~Before(key, keys[i])})

RECURSIVE LeafOf(_, _, _)
LeafOf(t, page, key) ==
  LET node == NodeAt(t, page)
  IN  IF IsLeaf(node) THEN page
      ELSE LeafOf(t, node.children[ChildIndex(node.keys, key)], key)

Get(t, key) ==
  LET entries == NodeAt(t, LeafOf(t, t.root, key)).entries
  IN  IF key \in DOMAIN entries THEN entries[key] ELSE Null

\* The upper half of a leaf's entries, by number.
UpperHalf(entries) ==
  LET ks == Listing(entries)
  IN  {ks[i][1] : i \in (Len(ks) \div 2) + 1 .. Len(ks)}

\* An insert below a page: the tree after it, and the separator and page of a
\* new right sibling, if the node there split.
Done(t)            == [tree |-> t, split |-> Null]
Split(t, sep, new) == [tree |-> t, split |-> <<sep, new>>]

InsertInLeaf(t, page, key, r) ==
  LET old    == NodeAt(t, page).entries
      new    == (key :> r) @@ old
      fresh  == key \notin DOMAIN old
      gone   == IF fresh THEN 0 ELSE EntryCost(key, old[key])
      check  == Overflowed(Leaf(new),
                  Max({0, SizeOf(t, page) - gone}) + EntryCost(key, r))
      t1     == IF fresh THEN [t EXCEPT !.count = @ + 1] ELSE t
      upper  == UpperHalf(new)
      left   == Leaf(Restrict(new, DOMAIN new \ upper))
      right  == Leaf(Restrict(new, upper))
  IN  IF ~check.full THEN Done(SetSized(t1, page, Leaf(new), check.est))
      ELSE Split(SetSized(SetSized(Alloc(t1), page, left, Encoded(left)),
                          t1.next, right, Encoded(right)),
                 Listing(right.entries)[1][1], t1.next)

\* The middle separator moves up and stays in neither half.
SplitInternal(t, page, keys, children) ==
  LET mid == Len(keys) \div 2 + 1
  IN  Split(Set(Set(Alloc(t), page, Internal(SubSeq(keys, 1, mid - 1),
                                             SubSeq(children, 1, mid))),
                t.next, Internal(SubSeq(keys, mid + 1, Len(keys)),
                                 SubSeq(children, mid + 1, Len(children)))),
            keys[mid], t.next)

RECURSIVE InsertInto(_, _, _, _)
InsertInto(t, page, key, r) ==
  LET node == NodeAt(t, page) IN
  IF IsLeaf(node) THEN InsertInLeaf(t, page, key, r)
  ELSE
    LET idx      == ChildIndex(node.keys, key)
        below    == InsertInto(t, node.children[idx], key, r)
        keys     == InsertAt(node.keys, idx, below.split[1])
        children == InsertAt(node.children, idx + 1, below.split[2])
        grown    == Internal(keys, children)
    IN  IF below.split = Null
        THEN Done([below.tree EXCEPT !.dirty = (page :> node) @@ @])
        ELSE IF Encoded(grown) <= Limit
        THEN Done(SetSized(below.tree, page, grown, Encoded(grown)))
        ELSE SplitInternal(below.tree, page, keys, children)

\* `insert`: a split root gets a new root above it.
Insert(t, key, r) ==
  LET res == InsertInto(t, t.root, key, r)
      up  == Internal(<<res.split[1]>>, <<t.root, res.split[2]>>)
      new == res.tree.next
  IN  IF res.split = Null THEN res.tree
      ELSE [Set(Alloc(res.tree), new, up) EXCEPT !.root = new]

\* `remove`: from the leaf; the page and the separators above stay.
RemoveKey(t, key) ==
  LET page    == LeafOf(t, t.root, key)
      entries == NodeAt(t, page).entries
  IN  IF key \notin DOMAIN entries THEN t
      ELSE [Set(t, page, Leaf(Restrict(entries, DOMAIN entries \ {key})))
              EXCEPT !.count = @ - 1]

RECURSIVE Collect(_, _)
Collect(t, page) ==
  LET node == NodeAt(t, page)
  IN  IF IsLeaf(node) THEN Listing(node.entries)
      ELSE FlattenSeq([i \in DOMAIN node.children |-> Collect(t, node.children[i])])
Scan(t) == Collect(t, t.root)

\* The children whose range of keys overlaps [lo, hi).
Overlapping(node, lo, hi) ==
  {i \in DOMAIN node.children :
    /\ i > 1 /\ hi # Null => Before(node.keys[i - 1], hi)
    /\ i <= Len(node.keys) => Before(lo, node.keys[i])}

RECURSIVE CollectRange(_, _, _, _)
CollectRange(t, page, lo, hi) ==
  LET node == NodeAt(t, page)
  IN  IF IsLeaf(node)
      THEN SelectSeq(Listing(node.entries),
             LAMBDA e : ~Before(e[1], lo) /\ (hi # Null => Before(e[1], hi)))
      ELSE FlattenSeq([i \in DOMAIN node.children |->
             IF i \in Overlapping(node, lo, hi)
             THEN CollectRange(t, node.children[i], lo, hi) ELSE <<>>])
ScanPrefix(t, prefix) == CollectRange(t, t.root, prefix, PrefixUpper(prefix))

\* Every key in the leaves at these pages.
KeysInPages(t, pages) ==
  UNION {DOMAIN NodeAt(t, p).entries : p \in {q \in pages : IsLeaf(NodeAt(t, q))}}

----------------------------------------------------------------------------
(* The merge prefilter.                                                      *)

\* The pages that differ between two manifests (external: `diff3`).
ChangedPages(a, b) ==
  {p \in DOMAIN a.pages \cup DOMAIN b.pages :
    \/ p \notin DOMAIN a.pages \cap DOMAIN b.pages
    \/ a.pages[p] # b.pages[p]}

\* Mutant: only what the source holds in the changed pages.
CandidatesOfSource(b, s) == KeysInPages(Open(s), ChangedPages(b, s))

\* The keys `plan_merge` decides about when this branch merges into one still at
\* the base.
Candidates(b, s) ==
  KeysInPages(Open(s), ChangedPages(b, s)) \cup KeysInPages(Open(b), ChangedPages(b, s))

----------------------------------------------------------------------------
(* Transactions, in step with those of the map.                             *)

\* A new store: no page written, the root an empty leaf by default.
Empty == [pages |-> <<>>, root |-> 1, next |-> 2, count |-> 0]

\* `flush` and the pager's commit: all dirty nodes and the metadata.
Flushed(t) == [pages |-> t.dirty @@ t.pages, root |-> t.root, next |-> t.next, count |-> t.count]

Seeded(seed) == Flushed(FoldLeft(LAMBDA t, k : Insert(t, k, SeedRecord), Open(Empty), seed))

Init ==
  /\ \E seed \in Seeds :
       /\ disk = Seeded(seed)
       /\ stored = [k \in Keys |-> IF k \in Range(seed) THEN SeedRecord ELSE Null]
  /\ base = disk
  /\ tree = Null /\ working = Null
  /\ ops = 0

Begin ==
  /\ tree = Null
  /\ tree' = Open(disk)
  /\ Map!Begin
  /\ UNCHANGED <<disk, base, ops>>

Put(k, r) ==
  /\ tree # Null /\ ops < MaxOps
  /\ tree' = Insert(tree, k, r)
  /\ ops' = ops + 1
  /\ Map!Edit(k, r)
  /\ UNCHANGED <<disk, base>>

Delete(k) ==
  /\ tree # Null /\ ops < MaxOps
  /\ tree' = RemoveKey(tree, k)
  /\ ops' = ops + 1
  /\ Map!Edit(k, Null)
  /\ UNCHANGED <<disk, base>>

Fits(t) == \A p \in DOMAIN t.dirty : Encoded(t.dirty[p]) <= PageSize

Commit ==
  /\ tree # Null /\ Fits(tree)
  /\ disk' = Flushed(tree)
  /\ tree' = Null
  /\ Map!Commit
  /\ UNCHANGED <<base, ops>>

\* The caller gives up before the flush, or the pager refuses a page: nothing is
\* stored.
Abort ==
  /\ tree # Null
  /\ tree' = Null
  /\ Map!Abort
  /\ UNCHANGED <<disk, base, ops>>

Next ==
  \/ Begin
  \/ \E k \in Keys, r \in Records : Put(k, r)
  \/ \E k \in Keys : Delete(k)
  \/ Commit
  \/ Abort

Spec == Init /\ [][Next]_vars

----------------------------------------------------------------------------
(* Properties.                                                               *)

Now == IF tree = Null THEN Open(disk) ELSE tree

Contents(t) == [k \in Keys |-> Get(t, k)]

\* Through every order of inserts, replaces, removes, splits and commits the tree
\* is the map: an edit changes what is read at its key and nowhere else, in the
\* transaction at once and outside it when it commits, and an abandoned
\* transaction changes nothing.
ImplementsMap ==
  /\ Contents(Open(disk)) = stored
  /\ tree # Null => Contents(tree) = working

\* The other ways of reading give what the lookups give: a scan every record once
\* and in key order, a scan of a prefix exactly the records under it (it skips
\* subtrees), and the counter their number.
ReadsAgree ==
  LET held == {k \in Keys : Get(Now, k) # Null}
      f    == [k \in held |-> Get(Now, k)]
  IN  /\ Scan(Now) = Listing(f)
      /\ Now.count = Cardinality(held)
      /\ \A p \in Strings :
           ScanPrefix(Now, p) = Listing(Restrict(f, {k \in held : Prefixed(k, p)}))

\* No estimate is below the truth, and so no node outgrows its page unseen: one
\* that does is a leaf with an entry larger than what a full node leaves free.
\* (Keys are short beside a page: a separator of that size would do it as well.)
NeverLate ==
  tree # Null =>
    /\ \A p \in DOMAIN tree.sizes : tree.sizes[p] >= Encoded(tree.dirty[p])
    /\ \A p \in DOMAIN tree.dirty :
         Encoded(tree.dirty[p]) > PageSize =>
           /\ IsLeaf(tree.dirty[p])
           /\ \E k \in DOMAIN tree.dirty[p].entries :
                EntryBytes(k, tree.dirty[p].entries[k]) > PageSize - Limit

\* The prefilter drops no change: a key whose record differs between the base and
\* the branch is among those the merge decides about, wherever splits moved it.
PrefilterComplete ==
  \A k \in Keys : Get(Open(base), k) # Get(Open(disk), k) => k \in Candidates(base, disk)
=============================================================================
