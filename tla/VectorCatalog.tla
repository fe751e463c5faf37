--------------------------- MODULE VectorCatalog ---------------------------
(***************************************************************************)
(* VectorRuntime: builders publish generations of vector projections into  *)
(* a catalog guarded by a revision, generations are quarantined, retired   *)
(* and reclaimed, and every search is planned over what the catalog holds  *)
(* (vyrm-vector: runtime.rs, catalog.rs, plan.rs, accelerator.rs).         *)
(*                                                                         *)
(* A builder reads the revision, builds from the canonical versions up to  *)
(* a cursor, and publishes later against the revision it read: any number  *)
(* of other publications may lie in between.                               *)
(***************************************************************************)
EXTENDS VectorIndex

CONSTANTS Canonical,      \* the canonical candidates, every version
          Configs,        \* configurations of projections: kind, id, ...
          ScanId,         \* where the id of the exact scan sorts among theirs
          Cursors,        \* cursors a builder may cover
          MaxRevision,    \* bound on publications and quarantines
          Builders,
          Requests,       \* the requests searches are asked
          Efs             \* and the widths of a graph search

VARIABLES catalog,     \* [revision, entries, retired]
          artifacts,   \* installed artifacts, by identity and generation
          pending      \* what each builder has built and not yet published

vars == <<catalog, artifacts, pending>>

Nothing == [kind |-> "nothing"]
Key(d) == <<d.id, d.generation>>
Entry(id) == {d \in catalog.entries : d.id = id}

Init ==
  /\ catalog = [revision |-> 0, entries |-> {}, retired |-> {}]
  /\ artifacts = <<>>
  /\ pending = [b \in Builders |-> Nothing]

(* What a builder makes.  build_dense_artifact has the CPU build first and *)
(* admits from an accelerator the same bytes only, so its policies decide  *)
(* between this and an error, which is no step.                            *)
Built(config, generation, cursor) ==
  CASE config.kind = "segment" -> {SegmentBuild(config, generation, cursor, Canonical)}
    [] config.kind = "hnsw" -> HnswBuild(config, generation, cursor, Canonical)

Build(b) ==
  /\ pending[b] = Nothing /\ catalog.revision < MaxRevision
  /\ \E config \in Configs, cursor \in Cursors :
       LET next == IF Entry(config.id) = {} THEN 1
                   ELSE (CHOOSE d \in Entry(config.id) : TRUE).generation + 1 IN
       \E artifact \in Built(config, next, cursor) :
         pending' = [pending EXCEPT ![b] = [kind |-> config.kind, expected |-> catalog.revision,
                                            artifact |-> artifact]]
  /\ UNCHANGED <<catalog, artifacts>>

(* VectorCatalog::publish: compare and swap on the revision; generations   *)
(* advance by one and coverage never moves back.                           *)
Publishable(expected, d) ==
  /\ catalog.revision = expected /\ d.state = "Ready" /\ d.id # ScanId
  /\ IF Entry(d.id) = {} THEN d.generation = 1
     ELSE \A old \in Entry(d.id) : /\ old.kind = d.kind
                                   /\ d.generation = old.generation + 1
                                   /\ d.cursor >= old.cursor

Published(d) ==
  [revision |-> catalog.revision + 1,
   entries |-> (catalog.entries \ Entry(d.id)) \cup {d},
   retired |-> catalog.retired \cup {[old EXCEPT !.state = "Retiring"] : old \in Entry(d.id)}]

(* VectorRuntime::publish.  A refused publication drops what was built.    *)
Publish(b) ==
  /\ pending[b] # Nothing
  /\ pending' = [pending EXCEPT ![b] = Nothing]
  /\ LET artifact == pending[b].artifact
         new == artifact.descriptor IN
     IF Key(new) \notin DOMAIN artifacts /\ Publishable(pending[b].expected, new)
       THEN /\ catalog' = Published(new)
            /\ artifacts' = [k \in DOMAIN artifacts \cup {Key(new)} |->
                               IF k = Key(new) THEN artifact ELSE artifacts[k]]
       ELSE UNCHANGED <<catalog, artifacts>>

(* quarantine: only the active ready generation.                           *)
Quarantine ==
  /\ catalog.revision < MaxRevision
  /\ \E d \in catalog.entries :
       /\ d.state = "Ready"
       /\ catalog' = [catalog EXCEPT !.revision = @ + 1,
                        !.entries = (@ \ {d}) \cup {[d EXCEPT !.state = "Quarantined"]}]
  /\ UNCHANGED <<artifacts, pending>>

(* reclaim_retired: the caller names the generations some lease protects.  *)
Reclaim ==
  /\ catalog.retired # {}
  /\ \E protected \in SUBSET {Key(d) : d \in catalog.retired} :
       /\ catalog' = [catalog EXCEPT !.retired = {d \in @ : Key(d) \in protected}]
       /\ artifacts' = [k \in {k \in DOMAIN artifacts :
                                 \A d \in catalog.retired : Key(d) = k => k \in protected} |->
                          artifacts[k]]
  /\ UNCHANGED pending

Next == \/ \E b \in Builders : Build(b) \/ Publish(b)
        \/ Quarantine
        \/ Reclaim

Spec == Init /\ [][Next]_vars

-----------------------------------------------------------------------------
(* The planner.  Costs are counted in candidates; the navigation of a      *)
(* graph counts four times.                                                *)
Max1(n) == IF n < 1 THEN 1 ELSE n
Min2(m, n) == IF m < n THEN m ELSE n
DivCeil(m, n) == (m + n - 1) \div n

HnswCost(index, req, ef) ==
  LET nodes == Len(index.graph.nodes)
      eligible == Cardinality(EligibleNodes(index, req))
      versions == Cardinality({c.ref : c \in Held(index)}) IN
  4 * Max1(IF ~req.filter.refers /\ req.cursor = index.descriptor.cursor THEN Min2(ef, nodes)
           ELSE IF eligible = 0 THEN nodes
           ELSE Min2(DivCeil(ef * versions, eligible), nodes))

Cost(d, req, ef) ==
  CASE d.kind = "scan" -> Max1(Cardinality(Canonical))
    [] d.kind = "segment" -> Max1(d.size)
    [] d.kind = "hnsw" -> IF Key(d) \in DOMAIN artifacts THEN HnswCost(artifacts[Key(d)], req, ef)
                          ELSE Max1(d.size)

(* The scan of the canonical candidates fits every request.  It has an id  *)
(* like any projection: "vector:exact-scan", which sorts among theirs.     *)
ExactScan(req) ==
  [kind |-> "scan", id |-> ScanId, generation |-> 1, cursor |-> req.cursor, state |-> "Ready",
   scope |-> req.scope, field |-> req.field, model |-> req.model, props |-> TRUE, size |-> 0]

(* reject_reasons: none of them is the scope.                              *)
Accepted(d, req) ==
  /\ d.state = "Ready" /\ d.cursor >= req.cursor
  /\ d.field = req.field /\ d.model = req.model
  /\ req.filter.refers => d.props
  /\ d.kind = "hnsw" => req.mode # "Exact"
  /\ req.mode = "RequireApproximate" => d.kind = "hnsw"

Plan(req, ef) ==
  LET paths == {d \in catalog.entries \cup {ExactScan(req)} : Accepted(d, req)} IN
  {d \in paths : \A e \in paths :
     \/ Cost(d, req, ef) < Cost(e, req, ef)
     \/ Cost(d, req, ef) = Cost(e, req, ef) /\ d.id <= e.id}

(* VectorRuntime::search: {} for an error, else the hits.  The selected    *)
(* artifact must be the one published.                                     *)
Search(req, ef) ==
  UNION {IF d.kind = "scan" THEN {SearchExact(req, Canonical)}
         ELSE IF Key(d) \notin DOMAIN artifacts \/ artifacts[Key(d)].descriptor # d THEN {}
         ELSE IF d.kind = "hnsw" THEN HnswSearch(artifacts[Key(d)], req, ef)
         ELSE IF d.compact THEN CompactSearch(artifacts[Key(d)], req)
         ELSE SegmentSearch(artifacts[Key(d)], req)
         : d \in Plan(req, ef)}

-----------------------------------------------------------------------------
(* The versions a plan's answer is drawn from: the scan's are all of them, *)
(* a projection's the ones of its field.                                   *)
Source(d, req) == IF d.kind = "scan" THEN Canonical ELSE {c \in Canonical : c.field = req.field}

Narrow(d, ef) == d.kind = "hnsw" /\ ef < d.size

AtRest == \A b \in Builders : pending[b] = Nothing

(* Whatever was published, replaced, quarantined and reclaimed in between: *)
(* a request that does not insist on an approximate answer is answered,    *)
(* unless a projection of another scope was planned for it, which refuses; *)
(* every answer holds versions visible among those it is drawn from, with  *)
(* their own scores, best first; and it is the exact oracle's over them,   *)
(* unless it came from a graph searched less widely than it has nodes.     *)
(* (Searches read nothing of the builders; stated where none is at work.)  *)
AnswersAreFaithful ==
  AtRest => \A req \in Requests, ef \in Efs :
    /\ req.mode # "RequireApproximate" /\ ef >= req.rerank
         => Search(req, ef) # {} \/ \E d \in Plan(req, ef) : d.scope # req.scope
    /\ \A d \in Plan(req, ef), hits \in Search(req, ef) :
         /\ ToSet(hits) \subseteq {Hit(req, c) : c \in Visible(req, Source(d, req))}
         /\ \A i \in 2..Len(hits) : BestFirst(hits[i - 1], hits[i])
         /\ Narrow(d, ef) \/ hits = SearchExact(req, Source(d, req))

(* What docs/vyrm-vector-search.md says of every index: it cannot invent   *)
(* freshness or visibility, and the latest version visible to the          *)
(* transaction wins for each identity.  So an answer that is not narrowed  *)
(* by a graph is the oracle's over all canonical versions.  It does not    *)
(* hold for an identity that moved to another field: an index of the first *)
(* does not know of the move, while the exact path does.                   *)
IndexAddsNothing ==
  AtRest => \A req \in Requests, ef \in Efs :
    \A d \in Plan(req, ef), hits \in Search(req, ef) :
      Narrow(d, ef) \/ hits = SearchExact(req, Canonical)
=============================================================================
