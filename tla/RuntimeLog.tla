------------------------------ MODULE RuntimeLog -----------------------------
(***************************************************************************)
(* The runtime log of an engine and the clients that commit to it.         *)
(*                                                                         *)
(* commit_runtime validates and writes under the engine's mutex and is one *)
(* step.  Its clients are not: they read a stamp, a cursor, a schema or a  *)
(* ledger in calls of their own and commit later, so that other commits    *)
(* fall in between.  The cursor they expect is all that ties the commit to *)
(* what they read.                                                         *)
(*                                                                         *)
(* A commit digest is the commit itself, the digest of a change the log up *)
(* to it.  The engine is up throughout: a commit is one batch, which is    *)
(* there or not after a crash (module KvDatabase).                         *)
(***************************************************************************)
EXTENDS RuntimeGraph, ReasoningRun, TLC, SequencesExt

CONSTANTS
    Scopes,        \* scopes
    Home,          \* the scope of the node's own clients (REASONING_SCOPE)
    Authors,       \* clients of DataTransaction
    Tracers,       \* callers of record_runtime_trace
    Reasoners,     \* callers of record_reasoning
    Hooks,         \* callers of the post-tool hook
    Bodies,        \* what authors commit: sequences of mutations
    RunOrder,      \* reasoning runs, in the order of their identifiers
    LegacyLedger,  \* the ledger of the former format: the events of each run
    Times,         \* times of authors' commits
    Instants,      \* instants at which graphs are compared
    Retries,       \* TRACE_COMMIT_RETRIES
    MaxCommits,    \* bound: commits in the log
    MaxCalls       \* bound: clients in the middle of a call

ASSUME RuntimeAssumption ==
    /\ Home \in Scopes
    /\ Instants \subseteq Nat
    /\ Retries \in Nat /\ MaxCommits \in Nat /\ MaxCalls \in Nat

\* A client makes calls of one sort.
ASSUME ClientsAssumption ==
    /\ Authors \cap (Tracers \cup Reasoners \cup Hooks) = {}
    /\ Tracers \cap (Reasoners \cup Hooks) = {}
    /\ Reasoners \cap Hooks = {}

\* The identifiers of runs are a sequence without repetition.
ASSUME RunOrderAssumption ==
    /\ RunOrder \in Seq(Range(RunOrder))
    /\ \A i, j \in DOMAIN RunOrder : RunOrder[i] = RunOrder[j] => i = j

\* What authors commit are sequences, and the schemas in them registries.
ASSUME BodiesAssumption ==
    \A body \in Bodies :
        /\ body \in Seq(Range(body))
        /\ \A i \in Positions(body, "schema") :
              LET r == body[i].registry
              IN  r = Registry(r.revision, r.records, r.relations, r.events)

VARIABLES
    changes,     \* RUNTIME_CHANGES; RUNTIME_CURSOR is its length
    schemas,     \* RUNTIME_SCHEMAS
    records,     \* RUNTIME_RECORDS: the latest version by scope and reference
    relations,   \* RUNTIME_RELATIONS
    data,        \* RUNTIME_VECTORS, _SERIES, _GEO and _OBJECTS
    outbox,      \* RUNTIME_OUTBOX: projection work by cursor
    outcomes,    \* RUNTIME_COMMITS
    audit,       \* RUNTIME_AUDIT in its chain's order
    clients      \* what each client holds between two calls

log == <<changes, schemas, records, relations, data, outbox, outcomes, audit>>
vars == <<changes, schemas, records, relations, data, outbox, outcomes, audit, clients>>

Runs == Range(RunOrder)
EmptyLedger == [run \in Runs |-> <<>>]
Clients == Authors \cup Tracers \cup Reasoners \cup Hooks
Cursor == Len(changes)

Init ==
    /\ changes = <<>>
    /\ schemas = [s \in Scopes |-> NoSchema]
    /\ records = [s \in Scopes |-> <<>>]
    /\ relations = [s \in Scopes |-> <<>>]
    /\ data = [s \in Scopes |-> {}]
    /\ outbox = {}
    /\ outcomes = <<>>
    /\ audit = <<>>
    /\ clients = [c \in Clients |-> [pc |-> "idle"]]

-----------------------------------------------------------------------------
(* commit_runtime *)

Commit(scope, at, actor, cursor, mutations) ==
    [scope |-> scope, at |-> at, actor |-> actor, expected_cursor |-> cursor,
     mutations |-> mutations]

Proposed(mutations) == {mutations[i].registry : i \in Positions(mutations, "schema")}

\* The revision a proposed registry must have.
NextRevision(previous) == previous.revision + 1

\* The registry the commit is validated against: the proposed one, or else the present.
Effective(c) ==
    IF Proposed(c.mutations) # {} THEN CHOOSE r \in Proposed(c.mutations) : TRUE
                                  ELSE schemas[c.scope]

NewRecords(mutations) ==
    {mutations[i].record.reference : i \in Positions(mutations, "record")}

\* Mutant: a reference may be to a record of any scope.
DanglesEverywhere(c) ==
    \E i \in DOMAIN c.mutations : \E ref \in Mentions(c.mutations[i]) :
        ref \notin NewRecords(c.mutations) /\ \A s \in Scopes : ref \notin DOMAIN records[s]

\* A mutation refers to a record that neither the scope nor the commit has.
Dangles(c) ==
    \E i \in DOMAIN c.mutations : \E ref \in Mentions(c.mutations[i]) :
        ref \notin NewRecords(c.mutations) /\ ref \notin DOMAIN records[c.scope]

\* The error of commit_runtime, in the order of its checks.
Refusal(c) ==
    IF ~CommitValid(c.mutations) THEN "invalid"
    ELSE IF c.expected_cursor # Cursor THEN "conflict"
    ELSE IF \E r \in Proposed(c.mutations) : r.revision # NextRevision(schemas[c.scope])
      THEN "schema conflict"
    ELSE IF Effective(c) = NoSchema THEN "schema missing"
    ELSE IF ~ObjectsValid(Effective(c), c.mutations, records[c.scope], relations[c.scope])
      THEN "invalid"
    ELSE IF Dangles(c) THEN "dangling"
    ELSE "none"

Change(c, i) ==
    [scope |-> c.scope, at |-> c.at, commit |-> c, ordinal |-> i - 1,
     mutation |-> c.mutations[i]]

Work(c, i) ==
    {[source_cursor |-> c.expected_cursor + i, family |-> f] : f \in ProjectionFamily(c.mutations[i])}

Outcome(c) ==
    [first_cursor |-> c.expected_cursor + 1,
     last_cursor |-> c.expected_cursor + Len(c.mutations),
     outbox_count |-> Cardinality(UNION {Work(c, i) : i \in DOMAIN c.mutations})]

\* The batch of an accepted commit.
Accept(c) ==
    LET n == Len(c.mutations)
    IN  /\ Refusal(c) = "none"
        /\ Len(audit) < MaxCommits
        /\ changes' = changes \o [i \in 1..n |-> Change(c, i)]
        /\ schemas' = [schemas EXCEPT ![c.scope] = Effective(c)]
        /\ records' = [records EXCEPT ![c.scope] = Overlaid(@, c.mutations, "record")]
        /\ relations' = [relations EXCEPT ![c.scope] = Overlaid(@, c.mutations, "relation")]
        /\ data' = [data EXCEPT ![c.scope] =
                      @ \cup {IdentityOf(c.mutations[i]) : i \in Positions(c.mutations, "data")}]
        /\ outbox' = outbox \cup UNION {Work(c, i) : i \in 1..n}
        /\ outcomes' = [k \in DOMAIN outcomes \cup {c} |-> IF k = c THEN Outcome(c) ELSE outcomes[k]]
        /\ audit' = Append(audit, [request_id |-> c, outcome_cursor |-> Cursor + n])

-----------------------------------------------------------------------------
(* Reads *)

Revision(schema) == schema.revision

\* native_read_stamp
ReadStamp(scope) ==
    [scope |-> scope, schema_revision |-> Revision(schemas[scope]),
     commit_cursor |-> Cursor, head_digest |-> changes]

\* Mutant: the limit counts the changes that match.
PageEndByMatches(head, after, limit, scope) ==
    LET matches(e) == Cardinality({i \in (after + 1)..e : changes[i].scope = scope})
        ends == {e \in after..head : matches(e) <= limit /\ (e > after => changes[e].scope = scope)}
    IN  IF ends = {} THEN after ELSE CHOOSE e \in ends : \A f \in ends : f <= e

\* Where a page ends: the limit bounds the changes examined.
PageEnd(head, after, limit, scope) ==
    IF after >= head THEN after ELSE IF after + limit <= head THEN after + limit ELSE head

\* native_change_page: positions of the changes of a scope up to head.
ChangePage(head, after, limit, scope) ==
    LET through == PageEnd(head, after, limit, scope)
    IN  [through_cursor |-> through,
         changes |-> {i \in (after + 1)..through : changes[i].scope = scope}]

\* What a consumer has read after one more page: it resumes at through_cursor,
ReadOn(read, head, limit, scope) ==
    LET page == ChangePage(head, read.through_cursor, limit, scope)
    IN  [through_cursor |-> page.through_cursor, changes |-> read.changes \cup page.changes]

\* and once it is through.
Paged(head, limit, scope) ==
    LET after[n \in 0..head] ==
          IF n = 0 THEN [through_cursor |-> 0, changes |-> {}]
          ELSE ReadOn(after[n - 1], head, limit, scope)
    IN  after[head]

\* The last schema revision among the first k changes of a scope; 0 when there is none.
RevisionAt(scope, k) ==
    LET at == {i \in 1..k : changes[i].scope = scope /\ changes[i].mutation.kind = "schema"}
    IN  IF at = {} THEN 0
        ELSE changes[CHOOSE i \in at : \A j \in at : j <= i].mutation.registry.revision

\* validate_native_read_stamp
StampAccepted(read) ==
    /\ read.commit_cursor <= Cursor
    /\ read.head_digest = SubSeq(changes, 1, read.commit_cursor)
    /\ read.schema_revision = RevisionAt(read.scope, read.commit_cursor)

-----------------------------------------------------------------------------
(* DataTransaction *)

At(c, pc) == clients[c].pc = pc
Become(c, state) == clients' = [clients EXCEPT ![c] = state]
Returned == {"idle", "done", "gave up", "refused"}
Begins(c) == At(c, "idle") /\ Cardinality({e \in Clients : clients[e].pc \notin Returned}) < MaxCalls

\* An author reads a stamp,
AuthorStamp(a, scope) ==
    /\ Begins(a)
    /\ Become(a, [pc |-> "stamped", read |-> ReadStamp(scope)])
    /\ UNCHANGED log

AuthorCommitOf(a, at, body) ==
    Commit(clients[a].read.scope, at, a, clients[a].read.commit_cursor, body)

\* and commits mutations bound to it (commit_data_transaction).
AuthorCommit(a, at, body) ==
    /\ At(a, "stamped")
    /\ \/ Accept(AuthorCommitOf(a, at, body))
       \/ Refusal(AuthorCommitOf(a, at, body)) # "none" /\ UNCHANGED log
    /\ Become(a, [pc |-> "idle"])

\* preview_data_transaction: the stamped graph with the pending mutations on it.
PreviewOf(a, at, body, t) ==
    LET read == clients[a].read
    IN  Preview(FromChanges(changes, read.scope, t, read.commit_cursor), body, at, t,
                read.commit_cursor)

-----------------------------------------------------------------------------
(* record_runtime_trace *)

TraceKind == "trace"
TraceEvent(c) == EventOf([kind |-> TraceKind, subject |-> {}, content |-> c])

\* register_schema, on the registry read or on an empty one.
Declared(types, kind, contract) ==
    [k \in DOMAIN types \cup {kind} |-> IF k = kind THEN contract ELSE types[k]]
WithEvents(schema, kind, contract) ==
    Registry(schema.revision + 1, schema.records, schema.relations,
             Declared(schema.events, kind, contract))

HasEvents(schema, kind, contract) ==
    kind \in DOMAIN schema.events /\ schema.events[kind] = contract

TraceContract == EventSchema(FALSE, {})

TraceStart(c) ==
    /\ Begins(c)
    /\ Become(c, [pc |-> "stamp", tries |-> 0])
    /\ UNCHANGED log

\* Each attempt reads a stamp,
TraceStamp(c) ==
    /\ At(c, "stamp")
    /\ IF clients[c].tries = Retries
         THEN Become(c, [pc |-> "gave up"])
         ELSE Become(c, [pc |-> "schema", tries |-> clients[c].tries + 1, read |-> ReadStamp(Home)])
    /\ UNCHANGED log

\* then the schema, and starts again if its revision is not the stamp's,
TraceSchema(c) ==
    /\ At(c, "schema")
    /\ IF Revision(schemas[Home]) = clients[c].read.schema_revision
         THEN Become(c, [pc |-> "commit", tries |-> clients[c].tries,
                         cursor |-> clients[c].read.commit_cursor, schema |-> schemas[Home]])
         ELSE Become(c, [pc |-> "stamp", tries |-> clients[c].tries])
    /\ UNCHANGED log

\* Mutant: the cursor is read anew for the commit.
TraceCommitAtHead(c) ==
    Commit(Home, 0, c, Cursor,
           IF HasEvents(clients[c].schema, TraceKind, TraceContract) THEN <<TraceEvent(c)>>
           ELSE <<SchemaOf(WithEvents(clients[c].schema, TraceKind, TraceContract)), TraceEvent(c)>>)

\* The schema is extended in the commit of the event, if it does not have the contract.
TraceCommitOf(c) ==
    Commit(Home, 0, c, clients[c].cursor,
           IF HasEvents(clients[c].schema, TraceKind, TraceContract) THEN <<TraceEvent(c)>>
           ELSE <<SchemaOf(WithEvents(clients[c].schema, TraceKind, TraceContract)), TraceEvent(c)>>)

\* and commits; only a conflict is tried again.
TraceCommit(c) ==
    /\ At(c, "commit")
    /\ \/ Accept(TraceCommitOf(c)) /\ Become(c, [pc |-> "done"])
       \/ /\ Refusal(TraceCommitOf(c)) # "none"
          /\ Become(c, IF Refusal(TraceCommitOf(c)) = "conflict"
                         THEN [pc |-> "stamp", tries |-> clients[c].tries]
                         ELSE [pc |-> "refused"])
          /\ UNCHANGED log

-----------------------------------------------------------------------------
(* record_reasoning *)

RunRef(run) == [kind |-> "run", id |-> run]
LedgerKind == "reasoning"
LedgerContract == EventSchema(TRUE, {"run"})
RunSchema == RecordSchema([complete |-> Property(TRUE, BOOLEAN)], FALSE, {})

\* Authors leave the node's own records and events alone.
ASSUME OwnKindsAssumption ==
    \A body \in Bodies : \A i \in DOMAIN body :
        /\ body[i].kind = "record" => body[i].record.reference.kind # "run"
        /\ body[i].kind = "event" => body[i].event.kind \notin {TraceKind, LedgerKind}

IsLedgerEvent(c) ==
    c.scope = Home /\ c.mutation.kind = "event" /\ c.mutation.event.kind = LedgerKind

\* load_runtime: the reasoning events up to the observed head, pushed to their runs.  The
\* pages it reads are cut at that head and the log only grows: reading them is one step
\* with it.
Pushed(ledger, c) ==
    IF IsLedgerEvent(c)
      THEN [ledger EXCEPT ![c.mutation.event.content.run] =
              Append(@, c.mutation.event.content.event)]
      ELSE ledger
TypedLedger(k) ==
    LET after[n \in 0..k] == IF n = 0 THEN EmptyLedger ELSE Pushed(after[n - 1], changes[n])
    IN  after[k]

\* load: a log without reasoning events leaves the ledger of the former format.
Migrates(k) == (\A run \in Runs : TypedLedger(k)[run] = <<>>) /\ LegacyLedger # EmptyLedger
Ledger(k) == IF Migrates(k) THEN LegacyLedger ELSE TypedLedger(k)

Active(ledger) == {run \in Runs : ledger[run] # <<>> /\ ~IsComplete(ledger[run])}

\* validate_ledger, which load_legacy ends with: every run replays, one at most is active.
LedgerValid(ledger) ==
    /\ \A run \in Runs : Replay(ledger[run]).state # "Invalid"
    /\ Cardinality(Active(ledger)) <= 1

ASSUME LegacyAssumption ==
    /\ LegacyLedger = [run \in Runs |-> LegacyLedger[run]]
    /\ \A run \in Runs : LegacyLedger[run] \in Seq(Range(LegacyLedger[run]))
    /\ LedgerValid(LegacyLedger)

\* What record_reasoning lets through: a goal opens a run when none is active, the other
\* payloads belong to the active one, and the run allows the payload.
Admits(ledger, run, payload) ==
    /\ IF payload = "goal" THEN ledger[run] = <<>> /\ Active(ledger) = {}
                           ELSE Active(ledger) = {run}
    /\ Allowed(Replay(ledger[run]), payload)

\* The ledger is read and the event appended to a copy,
ReasonLoad(c, run, payload) ==
    /\ Begins(c)
    /\ Admits(Ledger(Cursor), run, payload)
    /\ LET old == Ledger(Cursor)[run]
       IN  Become(c, [pc |-> "loaded", cursor |-> Cursor, run |-> run,
                      ledger |-> [Ledger(Cursor) EXCEPT ![run] =
                         Append(old, [ordinal |-> Len(old) + 1, payload |-> payload])]])
    /\ UNCHANGED log

\* reasoning_schema_update reads the schema after the ledger,
ReasonSchema(c) ==
    /\ At(c, "loaded")
    /\ LET r == clients[c]
       IN  Become(c, [pc |-> "ready", cursor |-> r.cursor, run |-> r.run, ledger |-> r.ledger,
                      schema |-> schemas[Home]])
    /\ UNCHANGED log

HasRunSchema(schema) ==
    /\ HasEvents(schema, LedgerKind, LedgerContract)
    /\ "run" \in DOMAIN schema.records /\ schema.records["run"] = RunSchema

WithRunSchema(schema) ==
    Registry(schema.revision + 1, Declared(schema.records, "run", RunSchema), schema.relations,
             Declared(schema.events, LedgerKind, LedgerContract))

\* run_record and event_mutation
RunRecord(run, events) ==
    RecordOf([reference |-> RunRef(run), valid_from |-> 0, valid_to |-> NoEnd,
              properties |-> [complete |-> IsComplete(events)]])
EventMutation(run, event) ==
    EventOf([kind |-> LedgerKind, subject |-> {RunRef(run)},
             content |-> [run |-> run, event |-> event]])

\* A run's record and its history,
WholeRun(ledger, run) ==
    IF ledger[run] = <<>> THEN <<>>
    ELSE <<RunRecord(run, ledger[run])>>
           \o [i \in DOMAIN ledger[run] |-> EventMutation(run, ledger[run][i])]

\* and those of every run.
WholeLedger(ledger) ==
    LET after[n \in 0..Len(RunOrder)] ==
          IF n = 0 THEN <<>> ELSE after[n - 1] \o WholeRun(ledger, RunOrder[n])
    IN  after[Len(RunOrder)]

\* The new event with its run's record, or, on the first write after the former format,
\* the whole ledger.
ReasonMutations(c) ==
    LET r == clients[c]
        events == r.ledger[r.run]
    IN  (IF HasRunSchema(r.schema) THEN <<>> ELSE <<SchemaOf(WithRunSchema(r.schema))>>)
          \o (IF Migrates(r.cursor) THEN WholeLedger(r.ledger)
              ELSE <<RunRecord(r.run, events), EventMutation(r.run, events[Len(events)])>>)

\* Mutant: the commit expects the cursor of the moment.
ReasonCommitAtHead(c) == Commit(Home, 0, c, Cursor, ReasonMutations(c))

\* The transition is one commit at the cursor the ledger was read at,
ReasonCommitOf(c) == Commit(Home, 0, c, clients[c].cursor, ReasonMutations(c))

\* and the call returns any error.
ReasonCommit(c) ==
    /\ At(c, "ready")
    /\ \/ Accept(ReasonCommitOf(c))
       \/ Refusal(ReasonCommitOf(c)) # "none" /\ UNCHANGED log
    /\ Become(c, [pc |-> "idle"])

-----------------------------------------------------------------------------
(* The post-tool hook of a package command *)

\* It looks whether the scope has a schema,
HookSchema(c) ==
    /\ Begins(c)
    /\ Become(c, [pc |-> "looked", install |-> schemas[Home] = NoSchema])
    /\ UNCHANGED log

\* then reads the cursor,
HookCursor(c) ==
    /\ At(c, "looked")
    /\ Become(c, [pc |-> "ready", install |-> clients[c].install, cursor |-> Cursor])
    /\ UNCHANGED log

\* The previous claim about the subject, which superseding_claim_mutations reads to
\* close it in the same commit, is left out: a claim here is its author.
HookCommitOf(c) ==
    LET schema == Registry(1, <<>>, <<>>, [observation |-> EventSchema(FALSE, {})])
    IN  Commit(Home, 0, c, clients[c].cursor,
               IF clients[c].install THEN <<SchemaOf(schema), ClaimOf(c)>> ELSE <<ClaimOf(c)>>)

\* and commits the claim, with a first schema if it saw none.
HookCommit(c) ==
    /\ At(c, "ready")
    /\ \/ Accept(HookCommitOf(c))
       \/ Refusal(HookCommitOf(c)) # "none" /\ UNCHANGED log
    /\ Become(c, [pc |-> "idle"])

Next ==
    \/ \E a \in Authors :
          \/ \E scope \in Scopes : AuthorStamp(a, scope)
          \/ \E at \in Times, body \in Bodies : AuthorCommit(a, at, body)
    \/ \E c \in Tracers : TraceStart(c) \/ TraceStamp(c) \/ TraceSchema(c) \/ TraceCommit(c)
    \/ \E c \in Reasoners :
          \/ \E run \in Runs, payload \in Payloads : ReasonLoad(c, run, payload)
          \/ ReasonSchema(c) \/ ReasonCommit(c)
    \/ \E c \in Hooks : HookSchema(c) \/ HookCursor(c) \/ HookCommit(c)

Spec == Init /\ [][Next]_vars

-----------------------------------------------------------------------------
(* Properties *)

\* The changes of a scope that write an object of a kind, the last one that writes a
\* certain object, and the objects as their last writes left them.
Writes(history, scope, kind) ==
    {i \in 1..Len(history) : history[i].scope = scope /\ history[i].mutation.kind = kind}
LastWrite(history, scope, kind, ref) ==
    CHOOSE i \in Writes(history, scope, kind) :
        /\ history[i].mutation[kind].reference = ref
        /\ \A j \in Writes(history, scope, kind) :
              history[j].mutation[kind].reference = ref => j <= i
Replayed(history, scope, kind) ==
    [ref \in {history[i].mutation[kind].reference : i \in Writes(history, scope, kind)} |->
       history[LastWrite(history, scope, kind, ref)].mutation[kind]]

\* The keyspaces are what replaying the log gives.
KeyspacesAreReplay ==
    /\ \A s \in Scopes :
          /\ Revision(schemas[s]) = RevisionAt(s, Cursor)
          /\ records[s] = Replayed(changes, s, "record")
          /\ relations[s] = Replayed(changes, s, "relation")
    /\ outbox = UNION {{[source_cursor |-> i, family |-> f] :
                          f \in ProjectionFamily(changes[i].mutation)} : i \in 1..Cursor}
    /\ \A i \in 1..Cursor :
          LET c == changes[i].commit
          IN  /\ c \in DOMAIN outcomes
              /\ i = outcomes[c].first_cursor + changes[i].ordinal
              /\ i <= outcomes[c].last_cursor

\* The latest versions keep what the registry of their scope asks for.
LatestGraphSound ==
    \A s \in Scopes :
        /\ schemas[s] # NoSchema =>
              /\ RecordsUnique(schemas[s], Values(records[s]))
              /\ RelationsWithinLimits(schemas[s], Values(relations[s]))
        /\ \A i \in 1..Cursor :
              changes[i].scope = s => Mentions(changes[i].mutation) \subseteq DOMAIN records[s]

\* Whatever commits raced, the keyspaces a commit is validated against are the replay
\* of the log, no reference in it dangles, and the latest versions keep uniqueness and
\* cardinality (prepare_native_runtime_commit, validate_objects).
RuntimeSound == KeyspacesAreReplay /\ LatestGraphSound

\* A stamp stays good while others commit and migrate: it is accepted, and a consumer
\* that pages with any limit reads each change of its scope up to the stamp once and
\* nothing later (validate_native_read_stamp, native_change_page).
StampReadsExactly ==
    \A c \in Clients :
        "read" \in DOMAIN clients[c] =>
          LET read == clients[c].read
              k == read.commit_cursor
          IN  /\ StampAccepted(read)
              /\ \A limit \in 1..(k + 1) :
                    Paged(k, limit, read.scope) =
                      [through_cursor |-> k,
                       changes |-> {i \in 1..k : changes[i].scope = read.scope}]

\* An accepted transaction makes exactly the graph its preview showed, at every
\* instant (DataTransaction::preview, RuntimeGraphSnapshot::from_changes).
PreviewHeld ==
    Len(changes') > Len(changes) =>
      LET c == changes'[Len(changes')].commit
      IN  c.actor \in Authors =>
            \A t \in Instants :
                FromChanges(changes', c.scope, t, Len(changes'))
                  = PreviewOf(c.actor, c.at, c.mutations, t)
PreviewIsCommit == [][PreviewHeld]_vars

TracedBy(c) == {i \in 1..Cursor : changes[i].mutation = TraceEvent(c)}

\* A trace event is committed once if the call succeeds and never otherwise, however
\* often it is retried, and concurrent schema migrations never refuse it (commit_trace).
TraceOnce ==
    \A c \in Tracers :
        /\ Cardinality(TracedBy(c)) = IF At(c, "done") THEN 1 ELSE 0
        /\ ~At(c, "refused")

\* "Concurrent writers conflict instead of replacing each other's ledger snapshots", and
\* "the migration and the new transition are all-or-nothing": whatever the races, the
\* log has each run of the former ledger extended or as it was, every run replays, one
\* run at most is active, and a run's latest record says whether it is complete
\* (record_reasoning, validate_ledger).
LedgerLinear ==
    LET ledger == Ledger(Cursor)
    IN  /\ Cardinality(Active(ledger)) <= 1
        /\ \A run \in Runs :
              /\ IsPrefix(LegacyLedger[run], ledger[run])
              /\ Replay(ledger[run]).state # "Invalid"
              /\ TypedLedger(Cursor)[run] # <<>> =>
                    records[Home][RunRef(run)].properties.complete = IsComplete(ledger[run])

\* "temporally overlapping record uniqueness": at every instant the records a reader
\* sees have distinct values of a unique property (validate_record_uniqueness).
VisibleRecordsUnique ==
    \A s \in Scopes, t \in Instants :
        schemas[s] # NoSchema => RecordsUnique(schemas[s], FromChanges(changes, s, t, Cursor).records)
=============================================================================
