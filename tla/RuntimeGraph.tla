---------------------------- MODULE RuntimeGraph -----------------------------
(***************************************************************************)
(* The pure part of the runtime log: what a commit may contain, what the   *)
(* schema registry of its scope asks of it, and the graph a sequence of    *)
(* changes denotes at an instant.                                          *)
(*                                                                         *)
(* Identifiers, property values and event contents are model values or     *)
(* strings, an optional reference is a set of at most one, and vectors,    *)
(* series samples, geo values and object references, which the log treats  *)
(* alike, are mutations of kind "data" with their projection family.       *)
(* Formats, digests and texts are left out.                                *)
(***************************************************************************)
EXTENDS Naturals, Sequences, FiniteSets

CONSTANT NoEnd      \* valid_to or a cardinality limit is None

\* RuntimeMutation
SchemaOf(registry) == [kind |-> "schema", registry |-> registry]
RecordOf(record) == [kind |-> "record", record |-> record]
RelationOf(relation) == [kind |-> "relation", relation |-> relation]
EventOf(event) == [kind |-> "event", event |-> event]
DataOf(family, reference, subject) ==
    [kind |-> "data", family |-> family, reference |-> reference, subject |-> subject]
ClaimOf(claim) == [kind |-> "claim", claim |-> claim]

\* projection_family; {} when no projection follows the mutation.
ProjectionFamily(m) ==
    CASE m.kind = "record" -> {"scalar"}
      [] m.kind \in {"relation", "event"} -> {"graph"}
      [] m.kind = "data" -> {m.family}
      [] OTHER -> {}

-----------------------------------------------------------------------------
(* Windows *)

\* validate_window, valid_at_window and windows_overlap on [valid_from, valid_to).
WindowValid(w) == w.valid_to = NoEnd \/ w.valid_from < w.valid_to
ValidAt(w, t) == w.valid_from <= t /\ (w.valid_to = NoEnd \/ t < w.valid_to)
WindowsOverlap(v, w) ==
    /\ w.valid_to = NoEnd \/ v.valid_from < w.valid_to
    /\ v.valid_to = NoEnd \/ w.valid_from < v.valid_to

\* max_overlap is at most n: the sweep over starts and ends, ends first, finds its
\* maximum at a start.
MaxOverlapWithin(relations, n) ==
    \A r \in relations : Cardinality({s \in relations : ValidAt(s, r.valid_from)}) <= n

-----------------------------------------------------------------------------
(* RuntimeCommit::validate *)

Positions(mutations, kind) == {i \in DOMAIN mutations : mutations[i].kind = kind}

IdentityOf(m) ==
    CASE m.kind = "record" -> <<"record", m.record.reference>>
      [] m.kind = "relation" -> <<"relation", m.relation.reference>>
      [] m.kind = "data" -> <<m.family, m.reference>>

\* A commit is not empty, has at most one schema, valid windows, and no identity twice.
\* The claims and registries that are enumerated pass their own validate.
CommitValid(mutations) ==
    /\ mutations # <<>>
    /\ Cardinality(Positions(mutations, "schema")) <= 1
    /\ \A i \in Positions(mutations, "record") : WindowValid(mutations[i].record)
    /\ \A i \in Positions(mutations, "relation") : WindowValid(mutations[i].relation)
    /\ LET named == {i \in DOMAIN mutations : mutations[i].kind \in {"record", "relation", "data"}}
       IN  \A i, j \in named : IdentityOf(mutations[i]) = IdentityOf(mutations[j]) => i = j

-----------------------------------------------------------------------------
(* RuntimeSchemaRegistry *)

\* RuntimeRecordSchema, RuntimeRelationSchema, RuntimeEventSchema.  A property is
\* declared with the values its type matches.  Relations and events have properties of
\* the same kind, which are left out.
Property(required, values) == [required |-> required, values |-> values]
RecordSchema(properties, additional, unique) ==
    [properties |-> properties, allow_additional_properties |-> additional,
     unique_properties |-> unique]
RelationSchema(from, to, pair, out, in) ==
    [from |-> from, to |-> to, unique_pair |-> pair, max_outgoing |-> out, max_incoming |-> in]
EventSchema(required, types) == [subject_required |-> required, subject_types |-> types]

Registry(revision, records, relations, events) ==
    [revision |-> revision, records |-> records, relations |-> relations, events |-> events]

\* runtime_schema returned None: the empty registry, at the revision no registry has.
NoSchema == Registry(0, <<>>, <<>>, <<>>)

\* RuntimeSchemaRegistry::validate
RegistryValid(r) ==
    /\ r.revision > 0
    /\ DOMAIN r.records # {} \/ DOMAIN r.relations # {} \/ DOMAIN r.events # {}
    /\ \A k \in DOMAIN r.records : r.records[k].unique_properties \subseteq DOMAIN r.records[k].properties
    /\ \A k \in DOMAIN r.relations :
          /\ r.relations[k].from # {} /\ r.relations[k].to # {}
          /\ r.relations[k].max_outgoing # 0 /\ r.relations[k].max_incoming # 0

\* validate_properties
PropertiesValid(actual, declared, additional) ==
    /\ \A p \in DOMAIN declared :
          IF p \in DOMAIN actual THEN actual[p] \in declared[p].values
                                 ELSE ~declared[p].required
    /\ additional \/ DOMAIN actual \subseteq DOMAIN declared

\* validate_record, validate_relation, validate_event
RecordValid(r, record) ==
    /\ record.reference.kind \in DOMAIN r.records
    /\ LET schema == r.records[record.reference.kind]
       IN  PropertiesValid(record.properties, schema.properties,
                           schema.allow_additional_properties)

RelationValid(r, relation) ==
    LET k == relation.reference.kind
    IN  /\ k \in DOMAIN r.relations
        /\ relation.from.kind \in r.relations[k].from
        /\ relation.to.kind \in r.relations[k].to

EventValid(r, event) ==
    /\ event.kind \in DOMAIN r.events
    /\ LET schema == r.events[event.kind]
       IN  /\ schema.subject_required => event.subject # {}
           /\ \A s \in event.subject :
                 schema.subject_types = {} \/ s.kind \in schema.subject_types

\* validate_record_uniqueness
RecordsUnique(r, records) ==
    \A v, w \in records :
        /\ v.reference # w.reference
        /\ v.reference.kind = w.reference.kind
        /\ v.reference.kind \in DOMAIN r.records
        => \A p \in r.records[v.reference.kind].unique_properties :
              /\ p \in DOMAIN v.properties /\ p \in DOMAIN w.properties
              /\ v.properties[p] = w.properties[p]
              => ~WindowsOverlap(v, w)

\* validate_relation_cardinality
RelationsWithinLimits(r, relations) ==
    \A k \in DOMAIN r.relations :
        LET schema == r.relations[k]
            typed == {s \in relations : s.reference.kind = k}
            within(group, n) == n = NoEnd \/ MaxOverlapWithin(group, n)
        IN  \A s \in typed :
              /\ schema.unique_pair =>
                    MaxOverlapWithin({u \in typed : u.from = s.from /\ u.to = s.to}, 1)
              /\ within({u \in typed : u.from = s.from}, schema.max_outgoing)
              /\ within({u \in typed : u.to = s.to}, schema.max_incoming)

\* An object map after mutations: each identity has its last version.
LastIn(mutations, kind, ref) ==
    CHOOSE i \in Positions(mutations, kind) :
        /\ mutations[i][kind].reference = ref
        /\ \A j \in Positions(mutations, kind) : mutations[j][kind].reference = ref => j <= i

Overlaid(objects, mutations, kind) ==
    LET written == {mutations[i][kind].reference : i \in Positions(mutations, kind)}
    IN  [ref \in DOMAIN objects \cup written |->
           IF ref \in written THEN mutations[LastIn(mutations, kind, ref)][kind] ELSE objects[ref]]

Values(objects) == {objects[ref] : ref \in DOMAIN objects}

\* validate_objects: each mutation against its type, then the latest versions together.
ObjectsValid(r, mutations, records, relations) ==
    /\ RegistryValid(r)
    /\ \A i \in Positions(mutations, "record") : RecordValid(r, mutations[i].record)
    /\ \A i \in Positions(mutations, "relation") : RelationValid(r, mutations[i].relation)
    /\ \A i \in Positions(mutations, "event") : EventValid(r, mutations[i].event)
    /\ RecordsUnique(r, Values(Overlaid(records, mutations, "record")))
    /\ RelationsWithinLimits(r, Values(Overlaid(relations, mutations, "relation")))

\* The records a mutation refers to.
Mentions(m) ==
    CASE m.kind = "relation" -> {m.relation.from, m.relation.to}
      [] m.kind = "event" -> m.event.subject
      [] m.kind = "data" -> m.subject
      [] OTHER -> {}

-----------------------------------------------------------------------------
(* RuntimeGraphSnapshot and DataTransaction::preview *)

\* The node and the edge an event at a cursor stands for.
EventNode(kind, cursor) == [kind |-> kind, id |-> cursor]
EventRecord(event, at, cursor) ==
    [reference |-> EventNode(event.kind, cursor), valid_from |-> at, valid_to |-> NoEnd,
     properties |-> event.content]
EventEdges(event, at, cursor) ==
    {[reference |-> EventNode("emitted", cursor), from |-> s, to |-> EventNode(event.kind, cursor),
      valid_from |-> at, valid_to |-> NoEnd] : s \in event.subject}

With(objects, o) ==
    [ref \in DOMAIN objects \cup {o.reference} |-> IF ref = o.reference THEN o ELSE objects[ref]]

\* One change on a graph at instant t: a version that has not begun is ignored.
Resolve(g, m, at, cursor, t) ==
    CASE m.kind = "record" /\ m.record.valid_from <= t ->
             [records |-> With(g.records, m.record), relations |-> g.relations]
      [] m.kind = "relation" /\ m.relation.valid_from <= t ->
             [records |-> g.records, relations |-> With(g.relations, m.relation)]
      [] m.kind = "event" ->
             [records |-> With(g.records, EventRecord(m.event, at, cursor)),
              relations |-> IF m.event.subject = {} THEN g.relations
                            ELSE With(g.relations,
                                      CHOOSE e \in EventEdges(m.event, at, cursor) : TRUE)]
      [] OTHER -> g

ValidObjects(objects, t) == {o \in Values(objects) : ValidAt(o, t)}
Visible(g, t) ==
    [records |-> ValidObjects(g.records, t), relations |-> ValidObjects(g.relations, t)]

EmptyGraph == [records |-> <<>>, relations |-> <<>>]

\* RuntimeGraphSnapshot::from_changes for one scope, at instant t and known cursor k: the
\* changes of the scope one after the other,
Resolved(g, change, cursor, scope, t) ==
    IF change.scope = scope THEN Resolve(g, change.mutation, change.at, cursor, t) ELSE g
GraphAfter(changes, scope, t, k) ==
    LET after[n \in 0..k] ==
          IF n = 0 THEN EmptyGraph ELSE Resolved(after[n - 1], changes[n], n, scope, t)
    IN  after[k]

\* and of the result what is valid at the instant.
FromChanges(changes, scope, t, k) ==
    Visible(GraphAfter(changes, scope, t, IF k <= Len(changes) THEN k ELSE Len(changes)), t)

\* The objects of a snapshot as a map: preview starts from what is visible.
Identified(objects) ==
    [ref \in {o.reference : o \in objects} |-> CHOOSE o \in objects : o.reference = ref]

\* Mutant: a pending event is named by the ordinal of its mutation from zero.
PreviewFromZero(base, mutations, at, t, k) ==
    LET after[n \in 0..Len(mutations)] ==
          IF n = 0 THEN [records |-> Identified(base.records),
                         relations |-> Identified(base.relations)]
          ELSE Resolve(after[n - 1], mutations[n], at, k + n - 1, t)
    IN  Visible(after[Len(mutations)], t)

\* DataTransaction::preview of mutations on a base graph at cursor k.
Preview(base, mutations, at, t, k) ==
    LET after[n \in 0..Len(mutations)] ==
          IF n = 0 THEN [records |-> Identified(base.records),
                         relations |-> Identified(base.relations)]
          ELSE Resolve(after[n - 1], mutations[n], at, k + n, t)
    IN  Visible(after[Len(mutations)], t)
=============================================================================
