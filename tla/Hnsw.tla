-------------------------------- MODULE Hnsw --------------------------------
(***************************************************************************)
(* The navigable graph behind nearest-neighbour search, in both its forms: *)
(* the one a fold builds in memory and exports (hnsw.rs), and the one      *)
(* ann_insert extends in place, node by node, in a branch's tree           *)
(* (hnsw_store.rs).  A search follows links from the entry node down the   *)
(* layers, and in the lowest keeps a beam of the Ef closest.               *)
(*                                                                         *)
(* A vector is a direction in a plane, Angle, of some dimension; those of  *)
(* different dimensions cannot be compared and are TooFar apart.  A vector *)
(* without a direction is in no graph and in no answer, and is left out.   *)
(***************************************************************************)
EXTENDS Integers, FiniteSets, FiniteSetsExt, Folds

CONSTANTS
  Ids,             \* record keys, numbered in key order
  Level,           \* Level[id]: the highest layer of a node, a hash of its key
  Vectors, Dim, Angle,
  M, MMax0,        \* links a node forms per layer; what it may have in layer 0
  EfConstruction, Ef,
  NoNode

ASSUME HnswAssumption ==
  /\ Ids \subseteq Nat /\ NoNode \notin Ids
  /\ Level \in [Ids -> Nat]
  /\ Dim \in [Vectors -> Nat \ {0}] /\ Angle \in [Vectors -> 0..180]
  /\ M \in Nat \ {0} /\ MMax0 >= M
  /\ EfConstruction \in Nat \ {0} /\ Ef \in Nat \ {0}

TooFar == 361

Distance(v, w) ==
  IF Dim[v] # Dim[w] THEN TooFar
  ELSE IF Angle[v] > Angle[w] THEN Angle[v] - Angle[w] ELSE Angle[w] - Angle[v]

\* vector and links have the nodes as their domain; links[n][l] are the
\* neighbours of n in layer l; dim is 0 until there is a first node.
EmptyGraph ==
  [vector |-> <<>>, links |-> <<>>, entry |-> NoNode, top |-> 0, dim |-> 0]

Nodes(g) == DOMAIN g.links

\* Neighbours in a layer: none where the node does not reach.
Around(g, n, layer) == IF layer \in DOMAIN g.links[n] THEN g.links[n][layer] ELSE {}

-----------------------------------------------------------------------------
(* Closeness to a vector v.  Of several equally close the first key is taken. *)

Closer(g, v, a, b) ==
  \/ Distance(g.vector[a], v) < Distance(g.vector[b], v)
  \/ Distance(g.vector[a], v) = Distance(g.vector[b], v) /\ a < b

ClosestOf(g, v, set)  == CHOOSE n \in set : \A o \in set \ {n} : Closer(g, v, n, o)
FarthestOf(g, v, set) == CHOOSE n \in set : \A o \in set \ {n} : Closer(g, v, o, n)

\* The m closest of a set.
Closest(g, v, set, m) ==
  {n \in set : Cardinality({o \in set \ {n} : Closer(g, v, o, n)}) < m}

-----------------------------------------------------------------------------
(* Finding one's way.                                                       *)

RECURSIVE GreedyClosest(_, _, _, _)
GreedyClosest(g, v, start, layer) ==
  LET next == ClosestOf(g, v, Around(g, start, layer) \cup {start})
  IN  IF Distance(g.vector[next], v) < Distance(g.vector[start], v)
      THEN GreedyClosest(g, v, next, layer) ELSE start

\* Step is taken for each of some layers, the highest first.
Downwards(Step(_, _), start, layers) == MapThenFoldSet(Step, start, LAMBDA l : l, Min, layers)

\* From the entry, through the layers above the given one.
Descend(g, v, level) ==
  Downwards(LAMBDA layer, n : GreedyClosest(g, v, n, layer), g.entry, level + 1..g.top)

\* The beam: open nodes are looked at, closest first, until the closest is
\* farther than everything kept and as many are kept as may be.
RECURSIVE Beam(_, _, _, _, _)
Beam(g, v, ef, layer, s) ==
  IF s.open = {} THEN s.kept
  ELSE
    LET n    == ClosestOf(g, v, s.open)
        new  == Around(g, n, layer) \ s.seen
        kept == Closest(g, v, s.kept \cup new, ef)
    IN  IF /\ Cardinality(s.kept) >= ef
           /\ \A o \in s.kept : Distance(g.vector[n], v) > Distance(g.vector[o], v)
        THEN s.kept
        ELSE Beam(g, v, ef, layer,
                  [open |-> (s.open \ {n}) \cup (new \cap kept), kept |-> kept,
                   seen |-> s.seen \cup new])

SearchLayer(g, v, start, ef, layer) ==
  Beam(g, v, ef, layer, [open |-> {start}, kept |-> {start}, seen |-> {start}])

\* The k closest that the graph leads to.
Search(g, v, k) ==
  IF g.entry = NoNode \/ g.dim # Dim[v] \/ k = 0 THEN {}
  ELSE Closest(g, v,
         SearchLayer(g, v, Descend(g, v, 0), IF k > Ef THEN k ELSE Ef, 0), k)

-----------------------------------------------------------------------------
(* Linking.                                                                 *)

\* Of the candidates, closest first, those not closer to one already kept.
SelectHeuristic(g, v, set, m) ==
  MapThenFoldSet(
    LAMBDA e, kept :
      IF Cardinality(kept) < m
         /\ \A r \in kept : Distance(g.vector[e], g.vector[r]) >= Distance(g.vector[e], v)
      THEN kept \cup {e} ELSE kept,
    {}, LAMBDA e : e, LAMBDA rest : FarthestOf(g, v, rest), set)

\* id is linked to the chosen nodes in a layer, and they to it; one that then has
\* more than cap neighbours keeps those that Select picks.
Linked(g, id, layer, chosen, cap, Select(_, _, _, _)) ==
  LET Back(n) == LET all == g.links[n][layer] \cup {id}
                 IN  IF id \in g.links[n][layer] \/ Cardinality(all) <= cap THEN all
                     ELSE Select(g, g.vector[n], all, cap)
  IN  [g EXCEPT !.links = [n \in Nodes(g) |->
         IF n = id THEN [@[n] EXCEPT ![layer] = chosen]
         ELSE IF n \in chosen THEN [@[n] EXCEPT ![layer] = Back(n)] ELSE @[n]]]

\* The layers a node is linked in.
LayersOf(g, id) == 0..Min({Level[id], g.top})

\* relink of the graph in memory: a wide beam, links in different directions, and
\* the next layer entered at the closest other node.
Relink(g, id) ==
  LET v == g.vector[id]
      Step(layer, s) ==
        LET found == SearchLayer(s.g, v, s.at, EfConstruction, layer) \ {id}
            cap   == IF layer = 0 THEN MMax0 ELSE M
        IN  [g  |-> Linked(s.g, id, layer, SelectHeuristic(s.g, v, found, M), cap, SelectHeuristic),
             at |-> IF found = {} THEN s.at ELSE ClosestOf(s.g, v, found)]
  IN  Downwards(Step, [g |-> g, at |-> Descend(g, v, Level[id])], LayersOf(g, id)).g

\* The same in the tree: the search beam, the closest, and the next layer entered
\* at the closest node found, which may be id itself.
RelinkStored(g, id) ==
  LET v == g.vector[id]
      Step(layer, s) ==
        LET found == SearchLayer(s.g, v, s.at, Ef, layer)
        IN  [g  |-> Linked(s.g, id, layer, Closest(s.g, v, found \ {id}, M), M, Closest),
             at |-> ClosestOf(s.g, v, found)]
  IN  Downwards(Step, [g |-> g, at |-> Descend(g, v, Level[id])], LayersOf(g, id)).g

\* A node with its vector and no links, over what there was under its key.
Placed(g, id, v) ==
  [g EXCEPT !.dim = Dim[v],
     !.vector = [n \in Nodes(g) \cup {id} |-> IF n = id THEN v ELSE @[n]],
     !.links = [n \in Nodes(g) \cup {id} |->
                  IF n = id THEN [layer \in 0..Level[id] |-> {}] ELSE @[n]]]

\* A first node is the entry, and one that reaches higher becomes it.
Entered(g, id) == [g EXCEPT !.entry = id, !.top = Level[id]]

\* Hnsw::insert, and insert of hnsw_store: a vector of another dimension is refused.
Inserted(g, id, v, Link(_, _)) ==
  IF g.dim \notin {0, Dim[v]} THEN g
  ELSE IF g.entry = NoNode THEN Entered(Placed(g, id, v), id)
  ELSE LET linked == Link(Placed(g, id, v), id)
       IN  IF Level[id] > linked.top THEN Entered(linked, id) ELSE linked

Insert(g, id, v)       == Inserted(g, id, v, Relink)
InsertStored(g, id, v) == Inserted(g, id, v, RelinkStored)

\* The graph of the vectors some keys have, inserted in the order of the keys.
Built(vectors) ==
  MapThenFoldSet(LAMBDA id, g : Insert(g, id, vectors[id]), EmptyGraph,
                 LAMBDA id : id, Max, DOMAIN vectors)

\* What is in the tree once an exported graph has been written over an older one:
\* nodes of the older one that the new one has not are still there.
ExportOver(g, old) ==
  [g EXCEPT !.vector = [n \in Nodes(g) \cup Nodes(old) |->
                          IF n \in Nodes(g) THEN @[n] ELSE old.vector[n]],
            !.links = [n \in Nodes(g) \cup Nodes(old) |->
                          IF n \in Nodes(g) THEN @[n] ELSE old.links[n]]]
=============================================================================
