---------------------------- MODULE TreeContents ----------------------------
(***************************************************************************)
(* What one commit's tree holds beside the caller's records, as operators: *)
(* derivation nodes in append-ordered slots, the source index, the latest  *)
(* node of each key, index entries with their trust label, and the version *)
(* history of claims (loom-core provenance.rs, history.rs, index.rs), and  *)
(* the walks over them (loom-provenance taint.rs, loom-query lib.rs).      *)
(***************************************************************************)
EXTENDS Integers, Sequences, FiniteSets, FiniteSetsExt

CONSTANTS
  Branches,
  Observations, Claims,  \* the keys of observations and of claims, numbers in tree order
  MergeNote,             \* the reserved keys merges note absorbed heads under, as one
  Sources, Trust,        \* Trust[src]: its TrustClass, 0 the least restrictive
  MaxDepth,              \* MAX_DERIVATION_DEPTH
  Null

Keys == Observations \cup Claims

ASSUME ContentsAssumption ==
  /\ Observations \cap Claims = {}
  /\ Keys \cup {MergeNote} \subseteq Nat /\ MergeNote \notin Keys
  /\ Trust \in [Sources -> Nat]
  /\ MaxDepth \in Nat

\* Records.  A claim is told from another by known.start, which its writer gives.
Observation(src)     == [kind |-> "observation", source |-> src]
Claim(start, status) == [kind |-> "claim", start |-> start, status |-> status]
IsClaim(r)           == r.kind = "claim"

\* A tree is read through At: partial functions, Null where there is nothing.
At(f, x) == IF x \in DOMAIN f THEN f[x] ELSE Null

Overlay(f, g) == [x \in DOMAIN f \cup DOMAIN g |-> IF x \in DOMAIN g THEN g[x] ELSE f[x]]

Nothing == [x \in {} |-> Null]

EmptyTree ==
  [rec    |-> Nothing,   \* the caller's records
   merged |-> Nothing,   \* merged_from_key: source branch -> the head absorbed
   prov   |-> Nothing,   \* node_storage_key: <<branch, seq>> -> node
   cites  |-> Nothing,   \* source_index_key: <<source, slot>> -> node id
   latest |-> Nothing,   \* latest_node_key: key -> id of the node that last wrote it
   seq    |-> [b \in Branches |-> 0],
   idx    |-> Nothing,   \* IndexEntry: key -> label
   hist   |-> [k \in Claims |-> <<>>],
   from   |-> Nothing]   \* history: key -> the sources that really went into its record

Nodes(t) == {t.prov[slot] : slot \in DOMAIN t.prov}

\* flood_downstream, level by level, up to one level past the bound.
Flood(t, src) ==
  LET seeds == {t.cites[x] : x \in {y \in DOMAIN t.cites : y[1] = src}}
      level[d \in 0 .. MaxDepth + 1] ==
        IF d = 0 THEN seeds
        ELSE LET reached == level[d - 1]
             IN  reached \cup {n.id : n \in {m \in Nodes(t) : m.parents \cap reached # {}}}
  IN  level

\* A chain past the bound is an error.  (Depth first, the code may also refuse
\* where a node has a second, longer way to it.)
Refused(t, src) == LET level == Flood(t, src) IN level[MaxDepth + 1] # level[MaxDepth]

\* The contaminated nodes of one key.
NodesOf(t, src, k) == {n \in Nodes(t) : n.key = k /\ n.id \in Flood(t, src)[MaxDepth]}

\* contaminated_keys_on.
Contaminated(t, src) ==
  LET reached == Flood(t, src)[MaxDepth]
  IN  {n.key : n \in {m \in Nodes(t) : m.id \in reached}}

\* Mutant: the open version is overwritten.
AppendVersionOver(versions, claim) ==
  Append(SelectSeq(versions, LAMBDA v : v.end # Null),
         [start |-> claim.start, end |-> Null, status |-> claim.status])

\* append_claim_version: closes what is open, then appends.  The code keeps one
\* history per (subject, predicate); here a claim's key stands for its own pair, and
\* two keys never share one.
AppendVersion(versions, claim) ==
  Append([i \in DOMAIN versions |->
            IF versions[i].end = Null
            THEN [versions[i] EXCEPT !.end = claim.start, !.status = "superseded"]
            ELSE versions[i]],
         [start |-> claim.start, end |-> Null, status |-> claim.status])

\* as_of: the last version whose known interval contains the instant.
AsOf(versions, at) ==
  LET known == {i \in DOMAIN versions :
                  /\ versions[i].start <= at
                  /\ versions[i].end # Null => at < versions[i].end}
  IN  IF known = {} THEN Null ELSE versions[Max(known)].start

MostRestrictive(a, b) == IF a > b THEN a ELSE b

\* own_trust.
OwnTrust(r) == IF IsClaim(r) THEN 0 ELSE Trust[r.source]
=============================================================================
