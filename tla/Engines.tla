------------------------------ MODULE Engines -------------------------------
(***************************************************************************)
(* The three engines behind one contract: the in-memory reference, the     *)
(* Fjall store and the native store (vyrm-store: engine.rs, store.rs,      *)
(* native.rs; vyrm-core: reference.rs, temporal.rs).  Every call is made   *)
(* to all three, each is one transaction or runs under one mutex, and they *)
(* must not be told apart.  The native store may at any time be the one a  *)
(* migration makes of the Fjall store, with its rows as they are.          *)
(*                                                                         *)
(* Fjall and native keep the same keyspaces and differ in the rows of the  *)
(* sequence index; the reference keeps what the contract means: the claims *)
(* and the changes in order.  Keys are tuples that compare as their        *)
(* encodings do: times inverted, so that the newest comes first.           *)
(* A digest of a change is the change, which holds its cursor and commit.  *)
(***************************************************************************)
EXTENDS RuntimeGraph, SequencesExt, FiniteSetsExt

CONSTANTS Scopes,
          Batches,     \* what append_batch is given: sequences of claims
          Bodies,      \* what commit_runtime is given: sequences of mutations
          Readers,
          Instants,    \* times calls give, and reads are made at
          Outcomes,    \* what an operator may judge of a recall
          MaxCalls     \* bound on calls

VARIABLES memory, fjall, native,
          answers,     \* what the last call returned, by engine
          calls

vars == <<memory, fjall, native, answers, calls>>

Put(f, k, v) == [x \in DOMAIN f \cup {k} |-> IF x = k THEN v ELSE f[x]]

(* claim_key, and the order of its encoding.                               *)
ClaimKey(c) == <<c.subject, c.predicate, c.from, c.tx>>
Precedes(k, l) ==
  \E i \in 1..4 : /\ \A j \in 1..(i - 1) : k[j] = l[j]
                  /\ IF i <= 2 THEN k[i] < l[i] ELSE k[i] > l[i]
Least(keys) == CHOOSE k \in keys : \A l \in keys : l # k => Precedes(k, l)
(* A walk through keys takes the least of those that are left.             *)
InKeyOrder(claims, keys) ==
  LET left[n \in 0..Cardinality(keys)] ==
        IF n = 0 THEN keys ELSE left[n - 1] \ {Least(left[n - 1])}
  IN  [i \in 1..Cardinality(keys) |-> claims[Least(left[i - 1])]]
Refused(error) == [error |-> error]
ClaimValid(c) == c.to = NoEnd \/ c.from < c.to

Runtime0 == [changes |-> <<>>, schemas |-> [s \in Scopes |-> NoSchema],
             records |-> [s \in Scopes |-> <<>>], relations |-> [s \in Scopes |-> <<>>],
             data |-> {}, outbox |-> {}, outcomes |-> <<>>, audit |-> <<>>, snapshots |-> {}]
Memory0 == [claims |-> <<>>, order |-> <<>>, runtime |-> Runtime0]
Store0 == [claims |-> <<>>, index |-> <<>>, sequence |-> 0, cursor |-> 0, digest |-> <<>>,
           access |-> {}, invocations |-> <<>>, ordinal |-> 0, runtime |-> Runtime0]

Init == /\ memory = Memory0 /\ fjall = Store0 /\ native = Store0
        /\ answers = <<>> /\ calls = 0

-----------------------------------------------------------------------------
(* append_batch.  A row of the index names the claim's key in Fjall, and   *)
(* holds the claim in the native store, whose commits write keys as well.  *)
KeyRow(c) == [claim |-> {}, key |-> ClaimKey(c)]
ClaimRow(c) == [claim |-> {c}, key |-> ClaimKey(c)]

(* The claims by key after a batch: each key has the last claim put there. *)
WithClaims(claims, batch) ==
  LET at(k) == {i \in DOMAIN batch : ClaimKey(batch[i]) = k} IN
  [k \in DOMAIN claims \cup {ClaimKey(batch[i]) : i \in DOMAIN batch} |->
     IF at(k) = {} THEN claims[k] ELSE batch[Max(at(k))]]
Appended(first, last) == [first |-> first, last |-> last]

StoreAppend(db, rows, batch) ==
  LET last == db.sequence + Len(batch) IN
  IF \E i \in DOMAIN batch : ~ClaimValid(batch[i]) THEN [db |-> db, answer |-> Refused("invalid")]
  ELSE IF batch = <<>> THEN [db |-> db, answer |-> Appended(db.sequence, db.sequence)]
  ELSE [db |-> [db EXCEPT !.claims = WithClaims(@, batch), !.sequence = last,
                          !.index = @ \o rows],
        answer |-> Appended(db.sequence + 1, last)]

MemoryAppend(db, batch) ==
  IF \E i \in DOMAIN batch : ~ClaimValid(batch[i]) THEN [db |-> db, answer |-> Refused("invalid")]
  ELSE [db |-> [db EXCEPT !.claims = WithClaims(@, batch), !.order = @ \o batch],
        answer |-> Appended(Len(db.order) + 1, Len(db.order) + Len(batch))]

(* claims_in_range over (from, to].                                        *)
RowClaim(db, row) == IF row.claim # {} THEN CHOOSE c \in row.claim : TRUE ELSE db.claims[row.key]
StoreInRange(db, from, to) ==
  LET last == IF to < db.sequence THEN to ELSE db.sequence IN
  [i \in 1..(IF from >= last THEN 0 ELSE last - from) |-> RowClaim(db, db.index[from + i])]
MemoryInRange(db, from, to) ==
  SubSeq(db.order, from + 1, IF to < Len(db.order) THEN to ELSE Len(db.order))

(* versions_at_or_before seeks in the claims' keys; subjects walks them.   *)
VersionsAtOrBefore(claims, s, p, t) ==
  InKeyOrder(claims, {k \in DOMAIN claims : k[1] = s /\ k[2] = p /\ k[3] <= t})
WithSubject(out, c) ==
  IF out # <<>> /\ out[Len(out)] = c.subject THEN out ELSE Append(out, c.subject)
Subjects(claims) ==
  LET all == InKeyOrder(claims, DOMAIN claims)
      walked[n \in 0..Len(all)] == IF n = 0 THEN <<>> ELSE WithSubject(walked[n - 1], all[n])
  IN  walked[Len(all)]

(* resolve_as_of: of the versions that begin at one time only the newest   *)
(* counts; the first of these that is valid, newest first, is in force.    *)
ClaimValidAt(c, t) == c.from <= t /\ (c.to = NoEnd \/ t < c.to)
ResolveAnyValid(versions, t) ==                                     \* a mutant
  LET found == {i \in DOMAIN versions : ClaimValidAt(versions[i], t)} IN
  IF found = {} THEN {} ELSE {versions[Min(found)]}
ResolveAsOf(versions, t) ==
  LET heads == {i \in DOMAIN versions : i = 1 \/ versions[i - 1].from # versions[i].from}
      found == {i \in heads : ClaimValidAt(versions[i], t)} IN
  IF found = {} THEN {} ELSE {versions[Min(found)]}

-----------------------------------------------------------------------------
(* commit_runtime.                                                         *)
Commit(scope, cursor, mutations) == [scope |-> scope, expected_cursor |-> cursor, mutations |-> mutations]
Registries(c) == {c.mutations[i].registry : i \in Positions(c.mutations, "schema")}
NextRevision(previous) == previous.revision + 1
Effective(runtime, c) ==
  IF Registries(c) # {} THEN CHOOSE r \in Registries(c) : TRUE ELSE runtime.schemas[c.scope]

(* Fjall and native read the objects of the scope only when some schema    *)
(* has a constraint between objects; the reference always does.            *)
ReadsRecords(schema) == \E k \in DOMAIN schema.records : schema.records[k].unique_properties # {}
ReadsRelationsForPairs(schema) ==                                   \* a mutant
  \E k \in DOMAIN schema.relations : schema.relations[k].unique_pair
ReadsRelations(schema) ==
  \E k \in DOMAIN schema.relations :
    LET s == schema.relations[k] IN s.unique_pair \/ s.max_outgoing # NoEnd \/ s.max_incoming # NoEnd

DanglesIn(runtime, c) ==
  \E i \in DOMAIN c.mutations : \E ref \in Mentions(c.mutations[i]) :
    /\ ref \notin {c.mutations[j].record.reference : j \in Positions(c.mutations, "record")}
    /\ ref \notin DOMAIN runtime.records[c.scope]

(* The error, in the order of the checks; cursor is the engine's own.      *)
Refusal(runtime, c, cursor, records, relations) ==
  IF ~CommitValid(c.mutations) THEN "invalid"
  ELSE IF c.expected_cursor # cursor THEN "conflict"
  ELSE IF \E r \in Registries(c) : r.revision # NextRevision(runtime.schemas[c.scope])
    THEN "schema conflict"
  ELSE IF Effective(runtime, c) = NoSchema THEN "schema missing"
  ELSE IF ~ObjectsValid(Effective(runtime, c), c.mutations, records, relations) THEN "invalid"
  ELSE IF DanglesIn(runtime, c) THEN "dangling"
  ELSE "none"

Change(c, cursor, i) == [cursor |-> cursor + i, scope |-> c.scope, commit |-> c, mutation |-> c.mutations[i]]
(* The claims among the mutations, in their order.                         *)
WithClaimOf(claims, m) == IF m.kind = "claim" THEN Append(claims, m.claim) ELSE claims
Claims(mutations) ==
  LET taken[n \in 0..Len(mutations)] ==
        IF n = 0 THEN <<>> ELSE WithClaimOf(taken[n - 1], mutations[n])
  IN  taken[Len(mutations)]
Work(c, cursor) == UNION {{[cursor |-> cursor + i, family |-> f] : f \in ProjectionFamily(c.mutations[i])}
                          : i \in DOMAIN c.mutations}
Committed(c, cursor, sequence) ==
  LET n == Len(Claims(c.mutations)) IN
  [first |-> cursor + 1, last |-> cursor + Len(c.mutations), outbox |-> Cardinality(Work(c, cursor)),
   claims |-> IF n = 0 THEN {} ELSE {Appended(sequence + 1, sequence + n)}]

(* The runtime's part of an accepted commit.                               *)
Applied(runtime, c, cursor, sequence) ==
  [runtime EXCEPT
     !.changes = @ \o [i \in DOMAIN c.mutations |-> Change(c, cursor, i)],
     !.schemas[c.scope] = Effective(runtime, c),
     !.records[c.scope] = Overlaid(@, c.mutations, "record"),
     !.relations[c.scope] = Overlaid(@, c.mutations, "relation"),
     !.data = @ \cup {<<c.scope, IdentityOf(c.mutations[i])>> : i \in Positions(c.mutations, "data")},
     !.outbox = @ \cup Work(c, cursor),
     !.outcomes = Put(@, c, Committed(c, cursor, sequence)),
     !.audit = Append(@, [commit |-> c, cursor |-> cursor + Len(c.mutations)])]

(* Cursor, watermark and the digest of the head are rows of their own in   *)
(* the stores, written with the rest; the reference counts what it keeps.  *)
StoreApplied(db, c) ==
  LET claims == Claims(c.mutations)
      n == Len(c.mutations) IN
  [db EXCEPT !.runtime = Applied(@, c, db.cursor, db.sequence),
             !.claims = WithClaims(@, claims),
             !.index = @ \o [i \in DOMAIN claims |-> KeyRow(claims[i])],
             !.sequence = @ + Len(claims), !.cursor = @ + n,
             !.digest = <<Change(c, db.cursor, n)>>]
StoreCommit(db, c) ==
  LET schema == Effective(db.runtime, c)
      known == schema # NoSchema
      records == IF known /\ ReadsRecords(schema) THEN db.runtime.records[c.scope] ELSE <<>>
      relations == IF known /\ ReadsRelations(schema) THEN db.runtime.relations[c.scope] ELSE <<>>
      refusal == Refusal(db.runtime, c, db.cursor, records, relations) IN
  IF refusal # "none" THEN [db |-> db, answer |-> Refused(refusal)]
  ELSE [db |-> StoreApplied(db, c), answer |-> Committed(c, db.cursor, db.sequence)]

MemoryApplied(db, c) ==
  LET claims == Claims(c.mutations) IN
  [db EXCEPT !.runtime = Applied(@, c, Len(db.runtime.changes), Len(db.order)),
             !.claims = WithClaims(@, claims), !.order = @ \o claims]
MemoryCommit(db, c) ==
  LET runtime == db.runtime
      start == Len(runtime.changes)
      refusal == Refusal(runtime, c, start, runtime.records[c.scope], runtime.relations[c.scope]) IN
  IF refusal # "none" THEN [db |-> db, answer |-> Refused(refusal)]
  ELSE [db |-> MemoryApplied(db, c), answer |-> Committed(c, start, Len(db.order))]

-----------------------------------------------------------------------------
(* Read stamps, pages of changes and snapshots.                            *)
RevisionOf(schema) == IF schema = NoSchema THEN {} ELSE {schema.revision}
StoreStamp(db, scope) ==
  [scope |-> scope, revision |-> RevisionOf(db.runtime.schemas[scope]),
   cursor |-> db.cursor, digest |-> db.digest]
MemoryStamp(db, scope) ==
  LET changes == db.runtime.changes IN
  [scope |-> scope, revision |-> RevisionOf(db.runtime.schemas[scope]), cursor |-> Len(changes),
   digest |-> IF changes = <<>> THEN <<>> ELSE <<Last(changes)>>]

(* runtime_change_page follows the log row by row; memory_change_page cuts *)
(* a slice.  The scope only selects.  A page lists changes by cursor.      *)
OfScope(changes, after, through, scope) ==
  [i \in {i \in (after + 1)..through : changes[i].scope = scope} |-> changes[i]]
StorePage(db, head, after, limit, scope) ==
  LET rows == {i \in DOMAIN db.runtime.changes : after < i /\ i <= head /\ i <= after + limit}
      through == IF rows = {} THEN after ELSE Max(rows) IN
  [through |-> through, head |-> head,
   changes |-> OfScope(db.runtime.changes, after, through, scope)]
MemoryPage(db, head, after, limit, scope) ==
  LET end == Min({after + limit, head, Len(db.runtime.changes)}) IN
  IF after >= head THEN [through |-> after, head |-> head, changes |-> <<>>]
  ELSE [through |-> end, head |-> head, changes |-> OfScope(db.runtime.changes, after, end, scope)]

(* The schema a stamp claims is found by reading the log up to its cursor. *)
LastRevision(page) ==
  LET schemas == {i \in DOMAIN page : page[i].mutation.kind = "schema"} IN
  IF schemas = {} THEN {} ELSE {page[Max(schemas)].mutation.registry.revision}
StoreStampValid(db, read) ==
  /\ read.cursor <= db.cursor
  /\ read.digest = (IF read.cursor = 0 THEN <<>> ELSE <<db.runtime.changes[read.cursor]>>)
  /\ read.revision = LastRevision(StorePage(db, read.cursor, 0, read.cursor, read.scope).changes)
MemoryStampValid(db, read) ==
  LET changes == db.runtime.changes IN
  /\ read.cursor <= Len(changes)
  /\ read.digest = (IF read.cursor = 0 THEN <<>> ELSE <<changes[read.cursor]>>)
  /\ read.revision = LastRevision(OfScope(changes, 0, read.cursor, read.scope))

SnapshotAt(read, now) == [read |-> read, created |-> now, expires |-> now + 1]
LiveSnapshots(runtime, now) == {h \in runtime.snapshots : now < h.expires}
StoreSnapshotPage(db, h, after, limit, now) ==
  IF h \notin LiveSnapshots(db.runtime, now) THEN Refused("snapshot")
  ELSE StorePage(db, h.read.cursor, after, limit, h.read.scope)
MemorySnapshotPage(db, h, after, limit, now) ==
  IF h \notin LiveSnapshots(db.runtime, now) THEN Refused("snapshot")
  ELSE MemoryPage(db, h.read.cursor, after, limit, h.read.scope)

-----------------------------------------------------------------------------
(* Telemetry and invocations, of the two stores.                           *)
Observed(db, reader, subject, predicate, at) ==
  [db EXCEPT !.access = @ \cup {<<at, reader, subject, predicate>>}]

(* removal_report: the claims' keys give the pairs, the access rows of the *)
(* interval their evidence, and build_report the verdicts.                 *)
RemovalReport(claims, access, since, evaluated) ==
  LET pairs == {<<k[1], k[2]>> : k \in DOMAIN claims}
      seen(p) == {a \in access : since <= a[1] /\ a[1] <= evaluated /\ <<a[3], a[4]>> = p} IN
  [p \in pairs |->
     [versions |-> Cardinality({k \in DOMAIN claims : <<k[1], k[2]>> = p}),
      accesses |-> Cardinality(seen(p)),
      last |-> IF seen(p) = {} THEN {} ELSE {Max({a[1] : a \in seen(p)})},
      verdict |-> IF seen(p) = {} THEN "Candidate" ELSE "Retained"]]

Recorded(db, at, recall) ==
  [db EXCEPT !.ordinal = @ + 1,
     !.invocations = Put(@, <<at, db.ordinal + 1>>,
                         [ordinal |-> db.ordinal + 1, recall |-> recall, outcome |-> "unknown"])]

(* set_recall_outcome rewrites the record where it lies.                   *)
Judge(db, ordinal, outcome) ==
  LET keys == {k \in DOMAIN db.invocations : db.invocations[k].ordinal = ordinal} IN
  IF \E k \in keys : db.invocations[k].recall
    THEN [db |-> [db EXCEPT !.invocations[CHOOSE k \in keys : TRUE].outcome = outcome],
          answer |-> outcome]
    ELSE [db |-> db, answer |-> "refused"]

InvocationsSince(invocations, since) ==
  LET keys == SetToSortSeq({k \in DOMAIN invocations : k[1] >= since},
                           LAMBDA k, l : k[1] < l[1] \/ (k[1] = l[1] /\ k[2] < l[2])) IN
  [i \in DOMAIN keys |-> invocations[keys[i]]]

-----------------------------------------------------------------------------
Call == calls < MaxCalls /\ calls' = calls + 1
Take(m, f, n) == /\ memory' = m.db /\ fjall' = f.db /\ native' = n.db
                 /\ answers' = <<m.answer, f.answer, n.answer>>
OfStores(f, n) == fjall' = f /\ native' = n /\ answers' = <<>> /\ UNCHANGED memory

AppendBatch ==
  /\ Call
  /\ \E batch \in Batches :
       Take(MemoryAppend(memory, batch),
            StoreAppend(fjall, [i \in DOMAIN batch |-> KeyRow(batch[i])], batch),
            StoreAppend(native, [i \in DOMAIN batch |-> ClaimRow(batch[i])], batch))

(* The caller's cursor is the head's, or one change behind.                *)
CommitRuntime ==
  /\ Call
  /\ \E scope \in Scopes, body \in Bodies, behind \in {0, 1} :
       /\ behind <= Len(memory.runtime.changes)
       /\ LET c == Commit(scope, Len(memory.runtime.changes) - behind, body) IN
          Take(MemoryCommit(memory, c), StoreCommit(fjall, c), StoreCommit(native, c))

WithSnapshot(db, h) == [db |-> [db EXCEPT !.runtime.snapshots = @ \cup {h}], answer |-> h]
OpenSnapshot ==
  /\ Call
  /\ \E scope \in Scopes, now \in Instants :
       Take(WithSnapshot(memory, SnapshotAt(MemoryStamp(memory, scope), now)),
            WithSnapshot(fjall, SnapshotAt(StoreStamp(fjall, scope), now)),
            WithSnapshot(native, SnapshotAt(StoreStamp(native, scope), now)))

Without(db, h) == [db |-> [db EXCEPT !.runtime.snapshots = @ \ {h}], answer |-> h \in db.runtime.snapshots]
ReleaseSnapshot ==
  /\ Call
  /\ \E h \in memory.runtime.snapshots : Take(Without(memory, h), Without(fjall, h), Without(native, h))

Observe ==
  /\ Call
  /\ \E reader \in Readers, k \in DOMAIN fjall.claims, at \in Instants :
       OfStores(Observed(fjall, reader, k[1], k[2], at), Observed(native, reader, k[1], k[2], at))

RecordInvocation ==
  /\ Call
  /\ \E at \in Instants, recall \in BOOLEAN :
       OfStores(Recorded(fjall, at, recall), Recorded(native, at, recall))

SetRecallOutcome ==
  /\ Call
  /\ \E ordinal \in 1..(fjall.ordinal + 1), outcome \in Outcomes :
       LET f == Judge(fjall, ordinal, outcome)
           n == Judge(native, ordinal, outcome) IN
       /\ fjall' = f.db /\ native' = n.db /\ answers' = <<f.answer, n.answer>>
       /\ UNCHANGED memory

(* The native store is replaced by one made of the Fjall store's rows.     *)
Migrate ==
  /\ Call
  /\ native' = fjall /\ answers' = <<>>
  /\ UNCHANGED <<memory, fjall>>

Next == \/ AppendBatch \/ CommitRuntime \/ OpenSnapshot \/ ReleaseSnapshot \/ Observe
        \/ RecordInvocation \/ SetRecallOutcome \/ Migrate

Spec == Init /\ [][Next]_vars

-----------------------------------------------------------------------------
SameReads(m, s) ==
  LET head == Len(m.runtime.changes)
      top == Len(m.order) + 1 IN
  /\ m.runtime = s.runtime /\ m.claims = s.claims
  /\ \A from \in 0..top, to \in 0..top : MemoryInRange(m, from, to) = StoreInRange(s, from, to)
  /\ \A scope \in Scopes :
       /\ MemoryStamp(m, scope) = StoreStamp(s, scope)
       /\ \A after \in 0..(head + 1), limit \in 1..(head + 1) :
            MemoryPage(m, head, after, limit, scope) = StorePage(s, s.cursor, after, limit, scope)
  /\ \A h \in m.runtime.snapshots :
       /\ MemoryStampValid(m, h.read) /\ StoreStampValid(s, h.read)
       /\ \A now \in Instants :
            MemorySnapshotPage(m, h, 0, 1, now) = StoreSnapshotPage(s, h, 0, 1, now)

(* No sequence of calls tells the engines apart: they give every call the  *)
(* same answer and afterwards show the same claims by key and in the order *)
(* of their appending, the same stamps, pages, snapshots and projections'  *)
(* work, and the two stores the same reports and invocations.              *)
EnginesAgree ==
  /\ \A i \in DOMAIN answers : answers[i] = answers[1]
  /\ SameReads(memory, fjall) /\ SameReads(memory, native)
  /\ \A since \in Instants :
       /\ InvocationsSince(fjall.invocations, since) = InvocationsSince(native.invocations, since)
       /\ \A evaluated \in Instants :
            RemovalReport(fjall.claims, fjall.access, since, evaluated)
              = RemovalReport(native.claims, native.access, since, evaluated)

(* A recall finds what holds: the subjects are listed in order, each once, *)
(* and what a store resolves of one at an instant is what was last         *)
(* asserted, in the order of transaction times, of the latest beginning    *)
(* that still holds: a correction, however early the window it corrects,   *)
(* is never outlived by what it corrected.                                 *)
InForce(s, p, t) ==
  LET asserted == {memory.claims[k] : k \in {k \in DOMAIN memory.claims : k[1] = s /\ k[2] = p}}
      standing == {c \in asserted : \A d \in asserted : d.from = c.from => d.tx <= c.tx} IN
  {c \in standing : ClaimValidAt(c, t) /\ \A d \in standing : ClaimValidAt(d, t) => d.from <= c.from}
ResolvesWhatHolds ==
  LET listed == Subjects(native.claims) IN
  /\ {listed[i] : i \in DOMAIN listed} = {k[1] : k \in DOMAIN native.claims}
  /\ \A i, j \in DOMAIN listed : i < j => listed[i] < listed[j]
  /\ \A k \in DOMAIN native.claims, t \in Instants :
       ResolveAsOf(VersionsAtOrBefore(native.claims, k[1], k[2], t), t) = InForce(k[1], k[2], t)
=============================================================================
