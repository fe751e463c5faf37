# Vyrm: TLA+ models, model checking and proofs

Vyrm is a Rust workspace: a native storage engine (`vyrm-kv`), the stores and
runtime log built on it (`vyrm-store`, `vyrm-core`), replication
(`vyrm-cluster`), vector, graph and query layers, and the node and daemon that
use them. This directory holds TLA+ modules translated from that source, TLC
configurations that check them on small instances, and TLAPS proofs of the
properties that matter most for every value of the constants.

Paths below are relative to `crates/`.

## 1. Inventory

| Component | State | Operations | What is hard | What makes it correct |
|---|---|---|---|---|
| WAL (`vyrm-kv/src/wal.rs`) | frames, torn tail, `next_sequence`, `poisoned` | append, sync, create, recover, repair | partial writes, failed fsync, crash during creation | recovery returns the longest synced prefix or refuses; sequences are contiguous |
| Memtable, MVCC reads (`memtable.rs`, `segment.rs`) | versions keyed by (key, sequence) | apply, get, scan | memtable shadowing segments; compaction | a read at a sequence returns the newest version at or below it |
| Manifests (`manifest.rs`) | manifest files, `CURRENT`, checkpoints | publish (compare and swap), checkpoint, release | the pointer moves in two steps; failed directory sync | `CURRENT` names a complete closure; a stale writer cannot publish |
| Database (`database.rs`, `snapshot_bundle.rs`) | all of the above | write, sync, flush, compact, install, collect, open | multi-step operations interrupted by crash or error; orphan files; retries | acknowledged data survives; memory agrees with files; checkpoints stay whole |
| Group-commit writer (`vyrm-store/src/writer.rs`) | queue, counters, three condition variables | submit, flush, stop, commit_loop | lost and spurious wake-ups, back-pressure, failure while others sleep | flush means durable; nothing lost or reordered; nobody waits for ever |
| Cluster simulator (`vyrm-cluster/src/sim.rs`) | logs, commit indexes, messages, acknowledgements | propose, deliver, faults | reordering, duplication, partitions, disk loss | acknowledged entries survive tolerated failures; logs agree |
| Raft storage adapter (`vyrm-cluster/src/openraft_adapter.rs`) | vote, log, applied state, request history, snapshots in two databases | save_vote, append, truncate, purge, apply, build and install snapshot | crash between two databases; request deduplication with pruning | what was voted, appended or applied is not undone; a request is applied once |
| Native engine (`vyrm-store/src/native.rs`, `engine.rs`, `persistent.rs`) | runtime log, leases, checkpoints | append, commit_runtime, open/release snapshot, compact | lease records and manifest checkpoints in step; idempotent commits | a live lease can be read; a commit happens once |
| Fjall store (`vyrm-store/src/store.rs`) | same contract over an external library | same | same | same answers |
| Migration (`vyrm-store/src/migration.rs`) | five paths, the marker | export, import, verify, cut over, roll back, resume | dying between a rename and its marker | no acknowledged write is lost and what may be opened shows them; every interruption comes to rest |
| Transport and node process (`vyrm-cluster/src/transport.rs`, `node_runtime.rs`) | TLS configuration and its generation, permits, gate, connections | call, serve, rotate, revoke, enable, stop | credentials replaced while a handshake is awaited; timeouts; a misconfigured peer | Raft is given what comes from whom it says; a rotation that was acknowledged holds |
| Block cache, segment format (`vyrm-kv/src/segment.rs`) | decoded blocks, order, clock | get, scan, load, evict | two readers of one cold block; rot under an open handle; versions across blocks | a read is exact or an error; the cache stays in its capacity |
| Object store (`object.rs`, `s3.rs`, `ds.rs`) | content-addressed objects, references in the log | stage, publish, verify, commit, reclaim, quarantine | two writers of one digest; reclamation between verification and commit; rot | a committed reference resolves to the bytes it names |
| Projections, invocations, retention (`projection.rs`, `invocation.rs`, `gc.rs`) | cursors behind the log | apply, expire | falling behind, double application | a projection is a function of a log prefix |
| Runtime data model (`vyrm-core`) | records, schemas, claims, traces | validation, encoding, temporal resolution | ordering of encoded keys, overlapping intervals | order preservation; deterministic resolution |
| Node (`vyrm-node`) | workflow and policy state | hooks, gates, routing | order of phases, retries | a gate is never skipped |
| Vector, embed, graph, query (`vyrm-vector`, `vyrm-embed`, `vyrm-graph`, `vyrm-ql`, `vyrm-mx`) | indexes, catalogs, plans | build, search, plan, execute | stale indexes, bounds | answers agree with exact search |
| Front ends (`vyrmd`, `vyrm-cli`, `vyrm-edge`, `vyrm-eval`, `connectome-ui`) | – | argument parsing, HTTP, rendering | – | – |

How they interact: the writer calls `Store::append_batch` from its own thread;
the native engine and the Raft adapter each own `Database` values and call
them under a mutex (`&mut self`: one operation at a time); runtime leases are
records in the database *and* checkpoints in its manifest store; the Raft
adapter keeps a state database, which snapshots replace, and a node-local one
for votes and log. `PROJECT.json` lists each component with its status, and
under `hazards` what is hard to test, line by line.

## 2. Modules

| Module | Models | Notes |
|---|---|---|
| `KvTypes` | `batch.rs`, versions and MVCC reads | a segment is its set of versions, a manifest the record of its fields: content addressing gives them the same identity in the code |
| `KvDatabase` | `wal.rs`, `manifest.rs`, `database.rs` | one action per durable boundary, so that `Crash` and `Abort` can fall between any two |
| `DurableStore` | – | abstract: a sequence of states, a suffix of which a crash may lose |
| `GroupWriter` | `writer.rs` | one action per critical section; condition variables with lost and spurious wake-ups |
| `SimCluster` | `sim.rs`, quorum arithmetic of `contract.rs` | messages in flight are a bag; every delivery order |
| `RaftApply` | the state machine of `openraft_adapter.rs` | one log entry as a pure function of the state record |
| `RaftStore` | the log store, the snapshots and the two databases of `openraft_adapter.rs` | OpenRaft's calls in every order the adapter relies on, with crashes |
| `ClaimProjection` | `projection.rs` and its operations in `engine.rs`; the claim log of `native.rs` | one action per acquisition of the store's mutex |
| `RuntimeGraph` | `schema.rs` and the graph of `runtime.rs` in `vyrm-core` | pure: what a commit may contain, the graph a log denotes at an instant, previews |
| `ReasoningRun` | `vyrm-core/src/reasoning.rs` | pure: the order of a run's payloads, replay |
| `RuntimeLog` | `commit_runtime`, stamps and paging of `native.rs`; their clients in `engine.rs`, `vyrm-node/src/trace.rs`, `reasoning.rs` and `hook.rs` | composes the two; one action per acquisition of the store's mutex |
| `Engines`, `EngineCases` | `engine.rs`, `store.rs`, `native.rs`, `reference.rs`, `temporal.rs` | the memory, Fjall and native engine given the same calls; the cases are their inputs |
| `SnapshotLease` | leases and their checkpoints in `native.rs` | one action per write of the database or of the manifest store |
| `Migration` | `migration.rs`, `persistent.rs` | one action per rename, publication of the archive and of the marker |
| `ObjectTier` | `object.rs`, `s3.rs`, `ds.rs` | one action per file operation or conditional put |
| `SegmentFormat` | `segment.rs`: encoding, validation, searches in a block | pure; has local recursive operators, so only TLC uses it |
| `BlockCache` | `segment.rs`: readers and the shared cache | one action per acquisition of the cache's lock, and the decoding between two |
| `SnapshotBundle` | `snapshot_bundle.rs`, installation in `segment.rs` | one action per file operation, transfer or fault |
| `RaftTransport` | `transport.rs`, `node_runtime.rs` | one action per await point of a call at either end, and per control line |
| `VectorIndex` | `exact.rs`, `segment.rs`, `compact.rs`, `hnsw.rs` of `vyrm-vector` | pure: exact and approximate search, construction of the graph |
| `VectorCatalog` | `runtime.rs`, `catalog.rs`, `plan.rs`, `accelerator.rs` of `vyrm-vector` | builders publish against a revision; every search is planned over the catalog |
| `EmbeddingJobs` | `vyrm-embed` | coordinators sample, infer, sample again and commit |
| `MCKvDatabase`, `MCGroupWriter`, `MCSimCluster`, `MCRaftStore`, `MCClaimProjection`, `MCRuntimeLog` | – | one module each with constants for TLC |
| `MCStores`, `MCWriter`, `MCCluster`, `MCRuntime` | – | one of those together with the components beside it, see section 3 |
| `KvDatabaseProofs` | – | theorems about `KvDatabase`: types, files, reads, recovery and the refinement of `DurableStore` |
| `GroupWriterProofs`, `SimClusterProofs`, `RaftStoreProofs`, `MigrationProofs`, `RaftTransportProofs`, `RuntimeLogProofs` | – | theorems about the module of that name |
| `StoreProofs` | – | theorems about `ClaimProjection`, `SnapshotLease`, `ObjectTier`, `EmbeddingJobs` and `Engines` |

Definitions whose comment says that they are a mutant are deliberately wrong variants
of the definition that follows them. No specification uses them; substituting
one for its original shows that the property named in `PROJECT.json` fails when
the code is wrong in that way.

### KvDatabase

*State.* The files (`current`, `manifests`, `segfiles`, `wals`, `checkpoints`),
the `Database` value of the running process (`manifest`, `wal`, `next`,
`poisoned`, `memtable`, `head`, and `op`, the operation in progress), and two
things clients know: the snapshots they hold with what they read there
(`pins`), and the highest sequence they were told is durable (`acked`).

*WAL files* carry the number of frames on stable storage (`synced`), what
follows the last complete frame (`tail`), the first frame a failed sync lost
(`hole`) and whether the name would survive a crash (`named`). The code's
byte-level recovery is the operator `Recovery`: clean, torn or corrupt.

*Operations.* `Write`/`WriteFails` are `Database::write`; `Sync`/`SyncFails`
`Database::sync`; a flush is `FlushSyncWal`, `FlushWriteSegment`,
`FlushSuccessorWal`, `PersistManifest`, `PublishPointer`; a compaction is a
flush followed by `CompactMerge` and the same publication; an installation is
`InstallSegments`, `InstallSuccessorWal` and the same publication. `Abort` is
an error returned at a boundary, after which the process goes on with what
it has. `Crash` keeps the synced frames of the WAL in use, any number of the
others, and any tail.

*Left out.* Key ranges, levels, checksums, timestamps, parent digests and the
block cache: no modelled decision reads them. A bundle's segments are written
in one step (files that are unreachable until publication). The publication
lock is implied by `&mut self`.

### GroupWriter

A thread's program counter tells where it is between two critical sections;
`worker` that of the commit thread. Claims are numbers in submission order.
`AppendBatch` is all or nothing, as the store's transaction is. `Stop` needs
every client idle because `shutdown` takes the `Writer` by value and `drop` has
it exclusively. *Fairness:* every runnable thread is scheduled (weak fairness
of each thread's steps); `WaitTimesOut` is strongly fair because each pass of
the loop starts a new `wait_timeout`, so that an unbounded series of spurious
wake-ups would postpone it for ever. Calls are never assumed to happen, nor are
spurious wake-ups.

### SimCluster

The leader is fixed, as in `sim.rs`. Delivery ticks, delays and clock offsets
are left out because the order of delivery is already arbitrary.

### RaftApply and RaftStore

A node keeps vote, log, commit and purge cursors and the reference to its
cached snapshot in a node-local database, and the applied state with the
canonical runtime in another, which snapshots replace. Every handler writes one
authoritative batch of one database, which `KvDatabase` shows to be atomic and
durable; building and installing a snapshot touch both and are two actions
each, so that a crash, and for a build also an application or an installation,
falls between them.

OpenRaft is external and is restricted only by what the adapter relies on:
entries follow the last one, what was committed is what the cluster agreed on
and is not truncated, a purge goes up to the cached snapshot or happens because
the log ends before the state, and one worker applies and installs while the
snapshot builder runs beside it. The agreed log is chosen beforehand
(`history`); entries of deposed leaders differ from it and are truncated. A
snapshot another replica sends is its replay, `Agreed(k)`.

A digest is what it authenticates; index 0 and epoch 0 stand for "none". Not
modelled: the first creation of the two databases and the spool files.

### ClaimProjection

`blobs` is the stored projection: what is on stable storage, followed by each
write that was only buffered; a restart keeps some prefix. Each primitive of
`Engine` takes the mutex once, so that `rebuild_current`, `reset_current` and
`ground_current` are sequences of actions between which claims are appended and
committed. One such operation runs at a time, as the CLI's commands do; with two
at once a rebuild could overwrite a quarantine and `QuarantineSticks` would not
hold. `Drift` is external: the stored entries change under the engine, which is
what grounding is there to notice.

What a position of the sequence index holds differs between engines and
operations, hence `AppendForm` and `CommitForm`: the native engine stores the
claim on append and its key on commit, Fjall the key, memory the claim.
`CommitKeysReused` says whether a key that a commit wrote is written again.

### RuntimeGraph, ReasoningRun and RuntimeLog

`changes` is the log, the other variables the keyspaces that commits are
validated against; `Refusal` gives the errors of `commit_runtime` in the order
of its checks, `Accept` the batch it writes. A client's `pc` tells which of its
calls comes next and the rest of its record what it read: an author (a
`DataTransaction`) holds a stamp; a tracer a stamp, then the schema; a reasoner
the ledger with its new event, then the schema; the hook whether there was a
schema, then the cursor. All that ties their commits to their reads is the
cursor they expect. `record_reasoning` reads the log page by page, but cuts the
pages at the head it read first and the log only grows, so that it is one step.
When the log has no reasoning events the ledger is the one of the former format
(`LegacyLedger`), and the first transition commits it whole.

A digest is what it authenticates: the digest of a commit is the commit, that of
a change the log up to it. Vectors, series samples, geo values and object
references are treated alike by the log and are mutations of kind "data". Left
out: properties of relations and events, the contents of claims (module
`ClaimProjection`) and with them the previous claim the hook closes, what a claim or
a registry checks of itself, times of reasoning events, and `install_runtime_trace_contract`
(a trace call without an event). The clients of the node all use one scope
(`Home`), which is the case that makes them interfere; authors use any.

### Engines

Every call is made to the memory engine (`MemoryEngine`, `reference.rs`), the
Fjall store and the native store; each is one transaction or one critical
section, so it is one action. Fjall and native keep the same keyspaces and
differ in what `append_batch` puts in the sequence index (`KeyRow`,
`ClaimRow`); the memory engine keeps claims and changes in order. The stores
read only what a schema makes them read (`ReadsRecords`, `ReadsRelations`)
before they validate a commit, the memory engine everything: that these agree is
part of `EnginesAgree`. At any time the native store may be the one a migration
makes of the Fjall store. Claims that are appended twice under one key with
different contents are left to `projection_lag`, where the engines do differ,
and so are empty batches, whose answer differs (`engine.rs:481`).

### SnapshotLease

A lease is a record of the database; the checkpoint that protects its history is
a file of the manifest store. `OpenLease`, `FlushForLease`, `CheckpointLease`,
`Grant` are the writes of `open_runtime_snapshot`, `PinFails` its undoing,
`Release` and `Unpin` those of a release, `StartReconcile` to `Reconciled` the
reconciliation at opening and before compaction. A crash falls between any two;
`Collect` removes what neither the current manifest nor a checkpoint retains.

### Migration

A command works on the marker it read (`proc.report`) and may die between any
two steps; running it again is `Resume`. `Reconcile` is the code's inspection of
which directories exist. *Fairness:* a command that runs goes on (weak); an
operator runs an interrupted migration again (weak `Resume`), and an interrupted
rollback, whose precondition other commands may take away for a while, again and
again (strong). An application may open the path whenever no command runs and
the marker allows it, also when there is nothing at the path: `AppOpen` then
makes a new native store, as `persistent.rs:59` does. That is the window of a
rollback: the native directory is retired (`migration.rs:321`) before the marker
leaves `Complete` (`:324`), and a process that dies between the two leaves a
marker under which open creates an empty database. `EveryWriteKept` says what
holds all the same: the retired store and the backup keep every write from before,
and outside that window (`OpenedInWindow`) what is opened shows every write.
`OpenShowsEveryWrite` is what the documentation says, and does not hold (section 3).

### ObjectTier

An object is absent, whole or rotten. A writer stages, publishes (`Rename` or
`PutIfAbsent`), verifies, verifies again when the transaction commits, and
commits against its cursor; `Retry` is a commit whose answer was lost. Whoever
calls `reclaim_orphans` must prove unreachability (the code leaves it to the
caller): the model's caller spares what a verified transaction is about to name.
`publish_stage` quarantines by digest after a verification that failed, so it
moves whatever lies there by then (`Quarantine`), also a whole copy that another
writer has put there and committed. Four variables only observe: `rotted`, `lost`
(rotten while something refers to it), `kept` (whole bytes in `quarantine/`) and
`stranded` (its writer died between quarantine and rename). With them
`ReferencesResolve` admits two exceptions and no others: the medium lost the
object while it was referred to and nobody has published it again, or a second
writer has displaced it and `quarantine/` holds the bytes. That a whole object
stays, as the comment on `quarantine` suggests (`ReferencesStay`), does not hold.

### SegmentFormat, BlockCache and SnapshotBundle

`SegmentFormat` cuts a memtable into blocks as `encode_v3` does and has the
checks of `open` and the searches within a block, for the present and the former
formats. `BlockCache` runs readers over opened segments: the lookup, the reading
and decoding without the lock, and the insertion with its evictions are separate
actions; the clock that orders blocks wraps at `ClockLimit`. `SnapshotBundle`
has the export into a spool file, its opening, the encoding in memory, the
transfer and the installation, with damage on either side. A digest is whether
the bytes are still those it was computed over; lengths are numbers; compression
and the statistics are left out.

### RaftTransport

`node` is a process (credentials with their generation, gate, permits, what its
operator was told and the reply not yet written), `conn` a call seen from both
ends. TLS is what the code asks of it: a handshake succeeds when each side's
roots and revocation lists admit the other's leaf. Raft is external and is
represented by `delivered`, what it was given and over which connection. A
timeout may strike at any step of either end. A restart forgets revocation
lists, which the documentation leaves to the supervisor; `RepliesTakeHold`
counts from what the running process was told. `RaftCommand` may never end, as a
Raft write without a quorum may, and holds up the control loop meanwhile: no
liveness of that loop is claimed.

### VectorIndex and VectorCatalog

Vectors are points on a line, which gives the algorithms what they use of a
metric: an order with ties. The HNSW graph is built and searched as in `hnsw.rs`
(levels are a constant, the hash of a version). A builder reads the catalog's
revision, builds and publishes later; generations are quarantined, retired and
reclaimed meanwhile, and in every state every request of a set is planned and
answered (`Search`). The scan has an id among those of the projections
(`ScanId`; in the code `vector:exact-scan`), which breaks ties of cost. There are
two scopes and two fields, and one vector moves from one field to the other. The
planner does not compare scopes, so a projection of another scope may be chosen,
which refuses the request: the only refusal `AnswersAreFaithful` allows where an
approximate answer is not insisted on. An index holds the versions of its field, so
what it answers is exact over those; that it is exact over all versions
(`IndexAddsNothing`) does not hold for the vector that moved. Building is what the
CPU builds: an accelerator's artifact is admitted only when its bytes
are the same, so that its policies only decide between that and an error.

### EmbeddingJobs

The scope is its log, edits of the source and committed vectors. A coordinator
samples the source, hands it to a backend its policy permits, samples it again
after inference and commits with the stamp of the job.

## 3. Runs

| Run | Expected | Question |
|---|---|---|
| `kv_recovery` | pass | does every interruption leave files that recover to what was acknowledged, and do the files implement `DurableStore`? |
| `kv_faults` | pass | with failing syncs and interrupted creation, do readers keep their snapshots whether they `get` or `scan`, and does a stale Database publish nothing? |
| `kv_sync_failure` | violation | is a failed sync followed by a successful one safe? |
| `kv_pointer_unsynced` | violation | is collection safe after a publication that failed after its rename? |
| `kv_torn_rotated` | violation | can a torn tail always be repaired? |
| `group_writer` | pass | safety and liveness of the writer; and of the engine migration with its rollback |
| `sim_cluster` | pass | the contract `verify_safety` states, and more, under all faults; and is what the transport delivers genuine, also while credentials are rotated and revoked? |
| `raft_store` | pass | is the applied state always the replay of the agreed log, can every crash be recovered from, does a request take effect once, and do placements fence work? |
| `stores` | pass | does incremental maintenance of the projection equal recomputation and does only drift quarantine; do the three engines agree; do references to objects resolve; do leases protect their history; are reads through the block cache exact; do bundles say what the source held? |
| `projection_lag` | violation | is a projection that merely lags never quarantined, also when a commit's key is written again? |
| `runtime_log` | pass | whatever commits race, do the keyspaces stay the replay of the log, stamps readable, previews true, traces single and the reasoning ledger linear; are vector searches faithful and embeddings grounded in what the log held? |
| `runtime_unique` | violation | do the records a reader sees at an instant have distinct values of a unique property? |

Four runs check several components. `MCStores`, `MCWriter`, `MCCluster` and
`MCRuntime` put components side by side that share no variable: a behaviour
follows the one that the variable `part` names and the others keep their initial
state, so that the state space is the sum of theirs, not the product. A property
about one component is `part = "…" => …`, and the fairness of an action in
`MCWriter` counts where its part runs. What couples these components in the code
is a call whose outcomes the caller's module has itself (a commit that expects a
cursor, a manifest that a checkpoint retains).

| Run | Distinct states | Parts |
|---|---|---|
| `stores` | 0.8 million | projection, engines, objects, leases, cache, bundles |
| `group_writer` | 70 thousand | writer, migration |
| `sim_cluster` | 1.8 million | simulator, transport |
| `runtime_log` | 0.35 million | log, vectors, embeddings |

Properties that belong together are one conjunction: `VerifySafety` is what
`verify_safety` checks of the simulator (commit within the log, logs agree,
acknowledged entries survive); `StateIsReplay` includes the snapshots of a Raft
node, `RequestTakesEffectOnce` what the request history remembers;
`ProjectionIsNewest` includes the grounding stamp; `NoLostWakeup` that a flush
is not kept waiting by the batching delay, `CallsReturn` that `stop` completes;
`SnapshotsStable` that `get` agrees with `scan`.

*Bounds.* One key and one value are enough for the file protocol: a key is
written, overwritten and deleted. `MaxSeq = 2` allows two batches or one batch
of two; `MaxGeneration` 3 or 4 allows two or three publications, enough for a
flush, a compaction over two segments, a retry over orphans and an
installation. `QueueCapacity = 3` and `MaxPerBatch = 2` make partial batches,
full batches and a queue longer than a batch all occur. Three voters and two
entries allow acknowledgement out of order, a lost disk and a stale replica.
`raft_store` starts from 72 histories of five entries over two terms: each has a
membership, a placement and three further entries, so that a request returns
within and beyond `Retention = 2`, voters change and change back, and commits
expect the right and the wrong cursor. The projection in `stores` has one pair with two
ranks and two contents and three claims: a claim is superseded, arrives late
and repeats a key. `MaxInFlight` only bounds the making of copies. `runtime_log` has five clients
of which two at a time are in a call (`MaxCalls`), which makes every pair of
clients race, and three commits; two scopes, two records with a unique name and
windows that meet, overlap or stay open, a relation with limits, an event and a
vector; a former ledger with one run that waits for its outcome, so that a
migration, the end of a run and the start of the next all happen.

The engines are given three calls of four batches and four commits under a
schema with a cardinality, which makes a retirement, a refused claim, a dangling
link and a violated cardinality happen, each at the head or behind it.
Two writers race for two objects with two faults; a lease lives one instant of
three and one operation fails or dies. The cache has room for few of the blocks
of a segment in which the versions of one key span several, beside a legacy
file, with two readers and a clock that wraps within the run. A bundle has one or
two segments, is exported twice and suffers two faults, so that damage on both
sides occurs. The migration moves two writes, a third comes later, and it dies
twice. The transport has two nodes that know each other and a third that claims
the first's Raft id; two control lines and one fault, so that a rotation and a
revocation, or a restart, fall into one call. There are eight vectors in twelve
versions, eight of them in the field that is indexed; two levels give a graph whose
pruning and filters matter. A scan costs 12, a segment up to 8 and a graph 8, 12 or
32 for the three widths, so that each kind of path is chosen by some request, at the
older and at the latest cursor, and a graph also wins a tie with the scan. Two
builders and three revisions let a publication overtake another. Two coordinators
embed while the source is edited.

Deadlock is
not checked for the database (a corrupt WAL really stops it: `open` refuses),
for the writer (a stopped writer is terminal), nor for the stores and the runtime
log (their numbers of calls and commits are bounded). It is checked for the
simulator and for the Raft node; `AtRest` lets the transport, whose control lines
are bounded, stop.

### What the violations show

Each is described under `findings` in `PROJECT.json` with the line of
documentation it contradicts: `WalWriter::sync` does not poison the writer;
garbage collection trusts `self.manifest` after a publication that failed late;
`repair_torn_tail` starts at sequence 1; a runtime commit stores only a claim's
key in the sequence index, so that a later claim of that key changes what the
log is read to have held before, and a projection that only lags is quarantined
(the CLI's `ground` rebuilds first, so that this shows where grounding is called
without a rebuild); uniqueness is checked against the latest version of each
record only, so that a reader at an earlier instant may see two records with the
same unique value.

Three claims of the repository are definitions of their modules that TLC refutes
in these models. The passing runs check, in the same models, what holds instead,
with the exception spelled out:

* `OpenShowsEveryWrite` of `Migration` (docs/vyrmkv-migration.md:62-64, "a missing
  path cannot become a new empty database during the cutover window"): a rollback
  retires the native directory, dies before its marker leaves `Complete`, and an
  application opens the path. Checked instead: `EveryWriteKept`.
* `ReferencesStay` of `ObjectTier` (object.rs:282, quarantine "moves corrupt objects
  out of the addressable namespace"): two writers find one orphan corrupt; the first
  quarantines it, publishes and commits; the second quarantines the copy that was
  committed. The reference does not resolve until its rename, and not at all if it
  dies before that. Checked instead: `ReferencesResolve`.
* `IndexAddsNothing` of `VectorCatalog` (docs/vyrm-vector-search.md:6-8 and 17, "the
  latest transaction-visible version wins for each vector identity"): a segment of
  the field `text` is built at cursor 7, at which vector 3 moves to the field
  `image`; it answers with vector 3, which the scan does not show. Checked instead:
  `AnswersAreFaithful`.

Three further hazards are in the model but have no run of their own. With
`FileSyncPersistsName = FALSE` (a file sync that does not persist the directory
entry) `Recoverable` fails: `create_at` never syncs the directory. With
`"create"` in `Faults`, `RetryNeverRefused` fails: a successor WAL without a
complete header makes every retry of the flush fail. And `commit_index` of the
simulator's leader falls when an earlier entry gets its quorum after a later one:
`sim.rs` sets it instead of taking the maximum. What else is assumed away is said
under `hazards` in `PROJECT.json`, at its line: two operators who rebuild and
ground one projection at once; revocation lists that a restart forgets; and an
export whose final check fails and leaves a file that the next export to that name
refuses.

## 4. Proofs

Every theorem holds for every value of the constants that satisfies the
`ASSUME`s of its module; a hypothesis beyond those is written in the theorem and
named below. Each inductive invariant was checked by TLC on the component's run
before it was proved.

**The storage engine** (`KvDatabaseProofs`).

* `TypeCorrect`: `Spec => []TypeOK`, for any faults. `TypeOK` alone is not
  inductive: `TypeInv` adds that an open Database has its WAL file (`WalHeld`),
  that a recorded hole is inside the log (`HolesInside`), and that an operation
  carries the target and the successor WAL its stage promises (`Prepared`).
* `CheckpointsSafe`: `Spec => []CheckpointsIntact`, for any faults, when a file
  sync persists the name. `FilesInv` says in addition that every WAL is named,
  that the manifest held in memory is closed, and that what an operation will
  publish is on disk before it is (`OpFiles`).
* `AlwaysRecoverable`: `Spec => []Recoverable` when in addition no directory sync
  fails after a rename. `CurrentInv` adds that an open Database holds the
  manifest `CURRENT` names.
* `SnapshotIsolation`: `Spec => []SnapshotsStable`, for any faults.
  `PublishesInTurn`: the action property `StaleManifestNeverPublishes`, for any
  faults. Both rest on `ReadInv`: every manifest's log starts where its segments
  end, every version in a memtable is newer than every version in its segments
  and no newer than `head`, what an operation is about to publish holds the
  memtable, a bundle or what the compaction retains, and every snapshot reads
  what it read. The lemmas underneath are about MVCC reads: `NewestExists` (a
  newest version exists, by the least-element principle), `MemtableWins` (stopping
  at the memtable is the same as merging), `LaterUnseen`, `ReadBeyond`, and
  `RetainedReads` (what compaction drops changes no read at a protected sequence).
* `RetryWorks`: `Spec => []RetryNeverRefused` when no file creation is interrupted
  (`"create" \notin Faults`; with that fault a half-made successor stays in the
  way, which the code answers with an error). `EmptyBeyond` says that every WAL
  beyond the one in use is empty and clean.
* `RestartChangesNothing` and `AcknowledgedIsDurable`: `Spec =>
  []MemoryMatchesFiles` and `Spec => []AckedSurvives`, when a file sync persists
  the name, no directory sync fails after a rename and a failed WAL sync is never
  followed by a successful one on the same file. `RecInv` says that no file has
  lost a synced frame, that sequences never fall along the log in use nor below
  the manifest's durable sequence, that memory is a function of the log, that
  `acked` is within the synced part, and that a flush or an installation is about
  to publish an empty log. The two excluded faults are exactly those of the runs
  `kv_sync_failure` and `kv_pointer_unsynced`.
* `Implements`: `Spec => ImplementsDurableStore` under the same hypotheses: every
  behaviour of the files is one of `DurableStore`. `StoreInv` joins the invariants
  above with `KnownInv` (a poisoned writer knows all frames of the log but the one
  whose write failed), which fixes the number `seenBar` counts. `Shape` then
  reduces the refinement mapping to three numbers, the frames in the log, those
  synced and those known, and `StepKinds` sorts the steps by what they do to the
  log: a write appends `Apply(state, batch)` (`FrameApplies`, from `BatchRead`: the
  last mutation of a key wins), a sync, a flush publication or a repair collapses
  the trail, a crash cuts a suffix, an installation replaces it, a compaction
  publication is a stutter because every read at or above the durable sequence is
  the same, and every other step leaves the log alone.

**The group-commit writer** (`GroupWriterProofs`): `FlushDurable`, `InOrder` and
`NoWakeupLost`, for any number of clients, any batch size and queue capacity. In
`WriterInv`, claim *n* is at place *n* of the store, the batch in hand and the
queue laid end to end (`Sequenced`), the counters follow the lengths (`Counted`),
shutdown comes only when no client is inside a call (`Phased`), and a flush that
still waits has its claims in the commit thread's hand or its request standing
(`Requested`).

**The simulated cluster** (`SimClusterProofs`): `ClusterSafe`, that is
`VerifySafety`, for any odd number of voters from three on, any commands and any
schedule of faults the model allows. The leader's log may be lost with its disk,
so `SafetyInv` speaks of the history it once was: every replica holds a prefix of
it, every message is about an entry of it, whoever acknowledged an entry holds it
unless its disk is lost, and what the client was told rests on a quorum.

**The Raft storage adapter** (`RaftStoreProofs`): `StateReplays`, `ReapplyWorks`,
`EffectOnce` and `WorkFenced`, for any agreed log, bounds and retention window.
`HistoriesAssumption` says that an agreed log is a sequence of at most `MaxIndex`
entries with terms in `1..MaxTerm`, whose commands passed
`VyrmRaftCommand::validate` (none has placement epoch 0). `NodeInv` relates the two
databases: the state is a replay of the agreed log, and the log reaches
from the state to the commit cursor. `ReplayOK` is a fact about the replay itself,
shown at the least index at which it could fail, since induction over data with an
operator as parameter is out of the provers' reach.

**Migration** (`MigrationProofs`): `NoWriteIsLost`, that is `Spec =>
[]EveryWriteKept`, for any writes and any number of crashes. `MigrationInv` lists
the layouts of the directories and says that a marker fits the layout of its phase
or the next one. The layout `Beside` is that of a database made in the window of a
rollback: neither command touches it, so the directories beside it keep what they
hold.

**The transport** (`RaftTransportProofs`): `Authentic` (what Raft is given comes
from whom it says) and `TakesHold` (a rotation or revocation that was acknowledged
holds for every later connection), for any nodes, inventories and certificates,
when no two processes listen at one address (`AddressesDistinct`, which the
operating system enforces on a host). `TransportInv` follows a connection from end
to end: a process that ends takes its connections with it, so none meets the
restarted one.

**The runtime log** (`RuntimeLogProofs`): for any scopes, clients, bodies, runs, former
ledger and bounds. The assumptions: a client makes calls of one sort
(`ClientsAssumption`); run identifiers do not repeat (`RunOrderAssumption`); what an
author commits is a sequence and its schemas are registries (`BodiesAssumption`);
authors write neither run records nor the events of the node's own two kinds
(`OwnKindsAssumption`); the ledger of the former format is one that `load_legacy`
accepts (`LegacyAssumption`).

* `CommitsKeepTheLogSound`: `Spec => []RuntimeSound`. In `RuntimeInv`, the keyspaces
  are the replay of the log (`LogInv`), and what a client holds between two of its
  calls, a stamp, a schema or a ledger, is true of the beginning of the log at the
  cursor it expects (`ClientInv`). Every commit appends its own mutations and
  nothing else (`Extends`), so the invariant is shown once, of any accepted
  commit, and each client's commit is then shown to be one. The lemmas whose names
  hold `Run` and `Exists` give the values of the recursive functions behind paging,
  schemas, graphs and ledgers, by induction along the log.
* `StampsStayGood`: `Spec => []StampReadsExactly`. Pages of any limit laid end to
  end are the changes of the scope up to the stamp, whatever was committed since.
* `TracesAreCommittedOnce`: `Spec => []TraceOnce`. `TraceInv` counts the events of a
  tracer in the log against where its call stands; no other client writes one,
  and a retry starts from a stamp at which the event was not there.
* `LedgersAreLinear`: `Spec => []LedgerLinear`. `LedgerInv` says that the ledger
  read from the log is valid, or is the former one while the log has no reasoning
  event (`LedgerOK`), that the run records agree with it, and that the ledger a
  reasoner is about to commit extends the one at its cursor by one event that the
  run allows (`Holds`).
* `CommitsMakeTheirPreview`: the action property `PreviewIsCommit`. The preview
  starts from what is visible at an instant, the commit from the whole history; the
  two graphs are alike in what the instant shows (`GraphsAlike`) and stay so along
  the mutations.

**Around the log** (`StoreProofs`; the leases, the object tier, the embedding
jobs and the engines are instances in it, as in the MC modules).

* Claim projection: `IncrementalIsBatch` (`ProjectionIsNewest`), `LagIsNotDrift`
  (`OnlyDriftDiverges`) and `QuarantineHolds` (the action property
  `QuarantineSticks`), for any claims, bounds and alterations, when every position
  of the sequence index keeps leading to the claim appended there
  (`PositionsHold`: the index holds claims, or keys that are not written again; the
  run `projection_lag` shows what happens otherwise). `FoldNewest` says, by
  induction along the claims, that folding a part of the log takes the newest
  claims at its start to those at its end. `ProjectionInv` says that the index is
  the log (`Recorded`), that every stored projection is such a fold and only what
  is on stable storage may be quarantined (`Stored`), and that what a task has read
  is a part of the log, with nothing quarantined under it (`Tasked`).
* Leases: `LeasesHold`, for any owners, lifetimes and bounds. `LeaseInv` keeps
  every granted, unexpired lease recorded and pinned in all states, not only
  between operations, and says what the operation under way may still take away:
  an unpin only what is not granted, a reconciliation only what it does not desire,
  a failed pin only a record that was new.
* Object tier: `ReferencesHold` (`ReferencesResolve`), for any digests, writers and
  bounds, on both backends. `ObjectInv` says that every digest that is referred to,
  or that a verified transaction is about to refer to, is whole or accounted for by
  one of the two exceptions (`Accounted`), that whoever quarantines or renames works
  on a digest that has rotted, and that a transaction stands in the log at the cursor
  it was built on, hence once.
* Embedding jobs: `VectorsGrounded`, for any contents, models and backends. In
  `EmbeddingInv` a prepared vector is true of the source as long as the cursor of
  its job is the head of the log, which is the only place the log accepts it.
* Engines: `EnginesNeverDiffer` (`EnginesAgree`), for any scopes, batches, bodies,
  readers, instants and number of calls. Its hypothesis `CallsOK` says that the calls
  are given sequences, that no batch is empty and that no key is written with two
  contents. Those are the two places where the engines do differ: an empty batch is
  answered with other positions (`engine.rs:481`), and a key written again shows
  where an index holds keys (run `projection_lag`). In `EnginesInv` the keyspaces of
  the stores are those of the reference and their counters, digests and index are
  what the reference computes from its history (`Agrees`): each claim is held under
  its key (`Held`) and each index position leads to the claim appended there
  (`Leads`), so a range read through keys is the range of the history
  (`RangesEqual`). A stamp is true of the log it was taken from (`StampOK`). A store
  reads records and relations only when the schema constrains them, and without
  constraints nothing it could have read would refuse the commit (`Unconstrained`),
  so all three refuse the same commits.
* Recall: `RecallFindsWhatHolds` (`ResolvesWhatHolds`), for any calls as above, when
  names and times are numbers (`KeysOK`; names compare as numbers do). A walk takes
  the least key that is left, so it meets each key once and in order
  (`WalkInOrder`, by induction along the walk; `LeastExists` by induction on the
  number of keys). The versions of a pair therefore come newest first, the first
  version of each beginning is its newest correction (`HeadsStand`), and the first
  of these that is valid begins last (`ResolvesLatest`).

Only model-checked:

* liveness and fairness, which the provers do not handle: `TornTailRepairs`, and the
  leads-to properties of `GroupWriter` and `Migration`;
* what rests on `RECURSIVE` operators, which cost tlapm its SMT backend:
  `SegmentFormat` and the modules that extend it (`ReadsExact`, `CacheStaysBounded`,
  `BundlesTruthful`), `VectorIndex` and `VectorCatalog` (`AnswersAreFaithful`).

## 5. Plan

The order is that of importance: what loses or corrupts data first.

1. *(done)* The storage engine, its abstract store, and the type, file and
   recovery theorems.
2. *(done)* The group-commit writer and the cluster simulator.
3. *(done)* The Raft storage adapter, and the claim log with its current-state
   projection.
4. *(done)* The runtime log with schema registry, stamps, paging and previews, and
   the node's clients that commit to it.
5. *(done)* Snapshot leases against checkpoints; the three engines against each
   other; migration; the object tier; segments, block cache and bundles.
6. *(done)* The transport and node process; vector indexes, catalog and planner
   against exact search; embedding jobs.
7. *(done)* The refinement of `DurableStore`, snapshot isolation, and theorems about
   the group-commit writer, the cluster simulator, the Raft storage adapter, the
   migration, the transport, the claim projection, snapshot leases, the object
   tier, embedding jobs, the runtime log, the agreement of the engines and recall.
8. Placement validation and transition plans of `contract.rs`, the first creation
   of the Raft node's databases, and the remaining workflow state of the node.

### Not modelled

* Graph routing (`vyrm-graph`), query languages (`vyrm-ql`, `vyrm-mx`) and edge
  export: each answers one request as a pure function of the store; there is no
  state of their own.
* The daemon, the command line, evaluation and the connectome UI: argument
  parsing, start-up, output and rendering around the components above.
* Recall ranking, distances, sparse and multi-vectors and quantisation:
  arithmetic on floating-point numbers.
* Byte formats, checksums and compression, beyond what is said above.
* The S3 client, OpenRaft, the TLS library, Fjall and the model runtimes: external
  libraries, of which the modules keep what this code relies on.
