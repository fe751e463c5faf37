---------------------------- MODULE VectorIndex ----------------------------
(***************************************************************************)
(* Vector search over the versions of the canonical log, and the artifacts *)
(* built from them (vyrm-vector: exact.rs, segment.rs, compact.rs,         *)
(* hnsw.rs).                                                               *)
(*                                                                         *)
(* A candidate is one version of a vector: its identity (ref), the log     *)
(* cursor that wrote it, its scope and field, its window of validity, its  *)
(* model, its property and its value.  A value is one whole number and the *)
(* score the negated distance, which gives the algorithms what they use of *)
(* a metric: an order with ties.  Identities are numbers, so that hits can *)
(* be ordered by them.  A filter is the set of admitted property values,   *)
(* and whether it refers to the property at all.  Encodings, digests and   *)
(* size limits are left out: an artifact is what it decodes to.            *)
(***************************************************************************)
EXTENDS Naturals, Integers, Sequences, FiniteSets, SequencesExt, FiniteSetsExt

CONSTANTS Levels,     \* deterministic_level: the level of a version, a hash
          M,          \* HNSW m
          EfBuild     \* HNSW ef_construction

Distance(a, b) == IF a < b THEN b - a ELSE a - b
Score(query, value) == 0 - Distance(query, value)

MatchesModel(c, model) == model = "any" \/ c.model = model
Admits(filter, c) == ~filter.refers \/ c.property \in filter.values

(* The versions a request can see: of its scope, up to its stamp's cursor, *)
(* of its model, begun by its instant; the newest of an identity decides,  *)
(* and is shown if it is of the field, not ended and admitted.             *)
InReach(req, c) ==
  c.scope = req.scope /\ c.cursor <= req.cursor /\ MatchesModel(c, req.model)
                      /\ c.from <= req.at
Shown(req, c) == c.field = req.field /\ req.at < c.to /\ Admits(req.filter, c)
Newest(reach) ==
  {c \in reach : \A d \in reach : d.ref = c.ref => d.cursor <= c.cursor}
Visible(req, cands) ==
  {c \in Newest({c \in cands : InReach(req, c)}) : Shown(req, c)}

(* A set in the order before gives it (SetToSortSeq, without its search    *)
(* among all sequences of the set).                                        *)
Ranked(set, before(_, _)) ==
  [i \in 1..Cardinality(set) |-> CHOOSE e \in set : Cardinality({f \in set : before(f, e)}) = i - 1]

(* Hits, best first; ties by identity (one version of each is left).       *)
Hit(req, c) == [ref |-> c.ref, cursor |-> c.cursor, score |-> Score(req.query, c.val)]
BestFirst(h, g) == h.score > g.score \/ (h.score = g.score /\ h.ref < g.ref)
Truncate(s, n) == SubSeq(s, 1, IF Len(s) < n THEN Len(s) ELSE n)

SearchExact(req, cands) ==
  Truncate(Ranked({Hit(req, c) : c \in Visible(req, cands)}, BestFirst), req.topk)

-----------------------------------------------------------------------------
(* Immutable segments.  Every kind of build refuses a candidate of another *)
(* scope, field or model, or one written past the cursor it claims to      *)
(* cover, so a builder gives it these:                                     *)
Covered(config, cursor, cands) ==
  {c \in cands : c.scope = config.scope /\ c.field = config.field
                 /\ MatchesModel(c, config.model) /\ c.cursor <= cursor}

Descriptor(kind, config, generation, cursor, size) ==
  [kind |-> kind, id |-> config.id, generation |-> generation, cursor |-> cursor,
   state |-> "Ready", scope |-> config.scope, field |-> config.field,
   model |-> config.model, props |-> config.props, compact |-> config.compact, size |-> size]

SegmentBuild(config, generation, cursor, cands) ==
  LET covered == Covered(config, cursor, cands) IN
  [descriptor |-> Descriptor("segment", config, generation, cursor, Cardinality(covered)),
   candidates |-> covered]

(* What the search of any artifact requires of its own descriptor.         *)
Serves(d, req) ==
  /\ d.state = "Ready" /\ d.scope = req.scope /\ d.field = req.field
  /\ d.model = req.model /\ d.cursor >= req.cursor

(* ImmutableVectorSegment::search runs the exact oracle on its versions.   *)
SegmentSearch(segment, req) ==
  IF Serves(segment.descriptor, req)
    THEN {SearchExact(req, segment.candidates)} ELSE {}

(* CompactDenseSegment::search walks its rows in order, keeping the newest *)
(* row of each identity, and never looks at the model again.               *)
CompactSearch(segment, req) ==
  LET rows == {c \in segment.candidates :
                 c.scope = req.scope /\ c.cursor <= req.cursor /\ c.from <= req.at}
      hits == {Hit(req, c) : c \in {c \in Newest(rows) : Shown(req, c)}} IN
  IF Serves(segment.descriptor, req)
    THEN {Truncate(Ranked(hits, BestFirst), req.topk)} ELSE {}

-----------------------------------------------------------------------------
(* HNSW.  Nodes are numbered in canonical order (identity, cursor); links  *)
(* are per layer, and searches go by (score, smaller number).              *)
Better(s, t) == s.score > t.score \/ (s.score = t.score /\ s.id < t.id)
Scored(nodes, query, id) == [id |-> id, score |-> Score(query, nodes[id].candidate.val)]
Sorted(set) == Ranked(set, Better)
Best(set) == CHOOSE s \in set : \A t \in set : t = s \/ Better(s, t)
Worst(set) == CHOOSE s \in set : \A t \in set : t = s \/ Better(t, s)

LayerLimit(layer) == IF layer = 0 THEN 2 * M ELSE M
LinksOf(nodes, id, layer) ==
  IF layer <= nodes[id].level THEN nodes[id].links[layer] ELSE <<>>

(* greedy_layer: scans the links of one node, moving on at every           *)
(* improvement, until a whole scan improves nothing.                       *)
RECURSIVE GreedyLayer(_, _, _, _)
GreedyLayer(nodes, query, start, layer) ==
  LET end == FoldLeft(LAMBDA at, n : IF Better(Scored(nodes, query, n), Scored(nodes, query, at))
                                       THEN n ELSE at,
                      start, LinksOf(nodes, start, layer))
  IN  IF end = start THEN start ELSE GreedyLayer(nodes, query, end, layer)

(* search_layer: the frontier is expanded best first; a node enters the    *)
(* frontier while fewer than ef are kept or it beats the worst kept, and   *)
(* is kept if it is eligible.  Links not eligible still lead on.           *)
VisitEligible(nodes, query, ef, eligible, s, n) ==          \* a mutant
  LET found == Scored(nodes, query, n)
      kept == s.best \cup {found} IN
  IF n \in s.visited THEN s
  ELSE IF n \in eligible /\ (Cardinality(s.best) < ef \/ found.score > Worst(s.best).score)
  THEN [visited |-> s.visited \cup {n}, frontier |-> s.frontier \cup {found},
        best |-> IF Cardinality(kept) > ef THEN kept \ {Worst(kept)} ELSE kept]
  ELSE [s EXCEPT !.visited = @ \cup {n}]
Visit(nodes, query, ef, eligible, s, n) ==
  LET found == Scored(nodes, query, n)
      kept == s.best \cup {found} IN
  IF n \in s.visited THEN s
  ELSE IF Cardinality(s.best) < ef \/ found.score > Worst(s.best).score
  THEN [visited |-> s.visited \cup {n}, frontier |-> s.frontier \cup {found},
        best |-> IF n \notin eligible THEN s.best
                 ELSE IF Cardinality(kept) > ef THEN kept \ {Worst(kept)} ELSE kept]
  ELSE [s EXCEPT !.visited = @ \cup {n}]

RECURSIVE Expand(_, _, _, _, _, _)
Expand(nodes, query, ef, layer, eligible, s) ==
  IF s.frontier = {} THEN s.best
  ELSE LET current == Best(s.frontier) IN
       IF Cardinality(s.best) >= ef /\ current.score < Worst(s.best).score THEN s.best
       ELSE Expand(nodes, query, ef, layer, eligible,
              FoldLeft(LAMBDA t, n : Visit(nodes, query, ef, eligible, t, n),
                       [s EXCEPT !.frontier = @ \ {current}],
                       LinksOf(nodes, current.id, layer)))

SearchLayer(nodes, query, entry, ef, layer, eligible) ==
  LET first == {Scored(nodes, query, entry)} IN
  Sorted(Expand(nodes, query, ef, layer, eligible,
           [visited |-> {entry}, frontier |-> first,
            best |-> IF entry \in eligible THEN first ELSE {}]))

(* Descends from the entry point through the layers above.                 *)
RECURSIVE Descend(_, _, _, _, _)
Descend(nodes, query, current, top, bottom) ==
  IF top < bottom THEN current
  ELSE Descend(nodes, query, GreedyLayer(nodes, query, current, top), top - 1, bottom)

Ids(scored) == [i \in DOMAIN scored |-> scored[i].id]

(* prune_neighbors: the closest of a node's links in a layer are kept.     *)
Prune(nodes, id, layer) ==
  LET scored == {Scored(nodes, nodes[id].candidate.val, n) : n \in ToSet(nodes[id].links[layer])}
  IN  [nodes EXCEPT ![id].links[layer] = Truncate(Ids(Sorted(scored)), LayerLimit(layer))]

(* insert_node: per layer, from the top, the closest found become links,   *)
(* the best of them the next start; each gets a link back and is pruned.   *)
RECURSIVE SelectLayers(_, _, _, _)
SelectLayers(nodes, query, current, layer) ==
  IF layer < 0 THEN <<>>
  ELSE LET chosen == Truncate(SearchLayer(nodes, query, current, EfBuild, layer, DOMAIN nodes),
                              LayerLimit(layer))
       IN  Append(SelectLayers(nodes, query, chosen[1].id, layer - 1), Ids(chosen))

LinkBack(new, layer, nodes, id) ==
  Prune([nodes EXCEPT ![id].links[layer] = Append(@, new)], id, layer)

InsertNode(graph, c) ==
  LET level == Levels[c.ref][c.cursor]
      new == Len(graph.nodes) + 1
      entry == graph.entry
      top == IF graph.entry = 0 THEN 0 ELSE graph.nodes[entry].level
      shared == IF level < top THEN level ELSE top
      start == Descend(graph.nodes, c.val, entry, top, level + 1)
      chosen == SelectLayers(graph.nodes, c.val, start, shared)     \* layer l at l + 1
      node == [candidate |-> c, level |-> level,
               links |-> [l \in 0..level |-> IF l <= shared THEN chosen[l + 1] ELSE <<>>]]
      linked == FoldLeft(LAMBDA ns, l :
                  FoldLeft(LAMBDA ms, id : LinkBack(new, l, ms, id), ns, chosen[l + 1]),
                  Append(graph.nodes, node), [i \in 1..(shared + 1) |-> shared + 1 - i])
  IN  IF entry = 0
        THEN [entry |-> 1, nodes |-> <<[candidate |-> c, level |-> level,
                                        links |-> [l \in 0..level |-> <<>>]]>>]
        ELSE [entry |-> IF level > top THEN new ELSE entry, nodes |-> linked]

(* validate_graph: what every decoded index must be, a fresh one included. *)
Reached(graph) ==
  LET step(ids) == ids \cup UNION {ToSet(graph.nodes[i].links[0]) : i \in ids}
      n == Len(graph.nodes)
      reach[k \in 0..n] == IF k = 0 THEN {graph.entry} ELSE LET ids == reach[k - 1] IN step(ids)
  IN  reach[n]
ValidGraph(graph) ==
  /\ (graph.entry = 0) = (graph.nodes = <<>>)
  /\ graph.entry # 0 =>
       /\ \A i \in DOMAIN graph.nodes :
            /\ graph.nodes[i].level <= graph.nodes[graph.entry].level
            /\ \A l \in 0..graph.nodes[i].level :
                 LET links == graph.nodes[i].links[l] IN
                 /\ Len(links) <= LayerLimit(l) /\ IsInjective(links)
                 /\ \A n \in ToSet(links) : n # i /\ graph.nodes[n].level >= l
       /\ Reached(graph) = DOMAIN graph.nodes

CanonicalOrder(c, d) == c.ref < d.ref \/ (c.ref = d.ref /\ c.cursor < d.cursor)

(* HnswIndex::build: a set with the index, empty when the graph it grew is *)
(* refused by the validation every decoded index undergoes.                *)
HnswBuild(config, generation, cursor, cands) ==
  LET covered == Covered(config, cursor, cands)
      graph == FoldLeft(InsertNode, [entry |-> 0, nodes |-> <<>>],
                        Ranked(covered, CanonicalOrder)) IN
  IF ValidGraph(graph)
    THEN {[descriptor |-> Descriptor("hnsw", config, generation, cursor, Cardinality(covered)),
           graph |-> graph]}
    ELSE {}

(* is_visible: by the versions the index holds.                            *)
Held(index) == {index.graph.nodes[i].candidate : i \in DOMAIN index.graph.nodes}
EligibleNodes(index, req) ==
  {i \in DOMAIN index.graph.nodes : index.graph.nodes[i].candidate \in Visible(req, Held(index))}

(* HnswIndex::search: candidates from the graph, the answer from the       *)
(* oracle over them.                                                       *)
HnswSearch(index, req, ef) ==
  LET nodes == index.graph.nodes
      entry == index.graph.entry
      start == Descend(nodes, req.query, entry, nodes[entry].level, 1)
      found == SearchLayer(nodes, req.query, start, ef, 0, EligibleNodes(index, req)) IN
  IF req.mode = "Exact" \/ ef < req.rerank \/ ~Serves(index.descriptor, req)
       \/ (req.filter.refers /\ ~index.descriptor.props) THEN {}
  ELSE IF entry = 0 THEN {<<>>}
  ELSE {SearchExact(req, {nodes[s.id].candidate : s \in ToSet(Truncate(found, req.rerank))})}
=============================================================================
