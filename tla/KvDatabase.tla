------------------------------ MODULE KvDatabase ------------------------------
(***************************************************************************)
(* The single-writer native database of vyrm-kv (database.rs, wal.rs,      *)
(* memtable.rs, manifest.rs): write-ahead log, memtable, immutable         *)
(* segments, and manifests published through the CURRENT pointer.          *)
(*                                                                         *)
(* Every multi-step operation (flush, compaction, snapshot installation)   *)
(* is a chain of actions, one per durable boundary the code names, so that *)
(* a crash (Crash) or an I/O error returned to a caller that keeps using   *)
(* the database (Abort) can fall between any two of them.  The database is *)
(* &mut self throughout: no other call runs inside such a chain.           *)
(*                                                                         *)
(* Timestamps, key ranges, checksums, levels and the block cache are left  *)
(* out: no decision below depends on them.                                 *)
(***************************************************************************)
EXTENDS KvTypes

CONSTANTS
    Name,                  \* checkpoint names
    NoFile,                \* "no such file"
    Bundle,                \* snapshot bundles other databases can send: [sequence, segments]
    Faults,                \* storage faults that may happen, a subset of FaultKind
    FileSyncPersistsName,  \* syncing a new file also makes its directory entry durable
    MaxSeq,                \* bound: sequence numbers
    MaxGeneration,         \* bound: manifest generations
    MaxPins                \* bound: snapshots held by readers

\* "sync":    sync_data of WalWriter::sync fails and the kernel drops the dirty pages
\* "dirsync": the directory sync after CURRENT was renamed fails
\* "create":  a new WAL is interrupted before its header is complete
FaultKind == {"sync", "dirsync", "create"}

ASSUME FaultsAssumption == Faults \subseteq FaultKind
ASSUME FileSyncAssumption == FileSyncPersistsName \in BOOLEAN
ASSUME BoundsAssumption == MaxSeq \in Nat /\ MaxGeneration \in Nat \ {0} /\ MaxPins \in Nat
ASSUME BundleAssumption ==
    \A b \in Bundle :
        /\ b.sequence \in 1..MaxSeq
        /\ b.segments \in SUBSET SUBSET Version
        /\ \A v \in UNION b.segments : v.seq \in 1..b.sequence

VARIABLES
    \* files
    current,      \* the manifest CURRENT points at
    manifests,    \* manifest files
    segfiles,     \* segment files
    wals,         \* WAL file named after each starting sequence, or NoFile
    checkpoints,  \* the manifest each checkpoint name pins, or NoFile
    \* the Database value of the running process
    up,           \* the process holds an open Database
    manifest,     \* self.manifest (self.segments are its segments, opened)
    wal,          \* the WAL file self.wal writes to
    next,         \* self.wal.next_sequence
    poisoned,     \* self.wal.poisoned
    memtable,     \* versions in self.memtable
    head,         \* self.memtable.maximum_sequence
    op,           \* the operation in progress
    \* what clients hold
    pins,         \* snapshots of live readers: [seq, view read when taken]
    acked         \* highest sequence a client was told is durable

files == <<current, manifests, segfiles, wals, checkpoints>>
memory == <<up, manifest, wal, next, poisoned, memtable, head, op>>
vars == <<current, manifests, segfiles, wals, checkpoints,
          up, manifest, wal, next, poisoned, memtable, head, op, pins, acked>>

Start == 1..(MaxSeq + 1)

\* One atomic batch in the WAL: its sequence range and its versions.
Frame == [first : Start, last : 1..MaxSeq, versions : SUBSET Version]

\* What follows the last complete frame: nothing, part of a frame header, a
\* header with part of its payload, bytes that fail their checksum; or, when
\* there is not even a complete file header, "headerless".
TailState == {"clean", "short", "cut", "corrupt", "headerless"}

WalFile == [frames : Seq(Frame),
            synced : Nat,          \* frames on stable storage
            hole   : Nat,          \* first frame whose pages a failed sync dropped, 0 if none
            tail   : TailState,
            named  : BOOLEAN]      \* its directory entry is on stable storage

Manifest == [generation : Nat, durable : Nat, wal_start : Start,
             segments : SUBSET SUBSET Version]

ASSUME NoFileAssumption == NoFile \notin WalFile /\ NoFile \notin Manifest

Idle == [kind |-> "idle", stage |-> "idle", compact |-> FALSE, protected |-> {},
         target |-> NoFile]

EmptyWal == [frames |-> <<>>, synced |-> 0, hole |-> 0, tail |-> "clean",
             named |-> FileSyncPersistsName]

Contents(m) == UNION m.segments
FrameVersions(w, n) == UNION {w.frames[i].versions : i \in 1..n}
\* Mutant: an empty log reports the sequence before its base.
LastSequenceBelowBase(w, base) == IF w.frames = <<>> THEN base - 1 ELSE w.frames[Len(w.frames)].last

LastSequence(w, base) == IF w.frames = <<>> THEN base ELSE w.frames[Len(w.frames)].last

(***************************************************************************)
(* Reads.                                                                  *)
(***************************************************************************)

\* Database::get: a version in the memtable is authoritative; otherwise the
\* newest version over all segments.
Get(k, s) ==
    IF HasVersion(memtable, k, s)
      THEN ReadAt(memtable, k, s)
      ELSE ReadAt(Contents(manifest), k, s)

\* Database::scan: memtable and segments merged by sequence.
Scan(s) == ViewAt(memtable \cup Contents(manifest), s)

(***************************************************************************)
(* Write path.                                                             *)
(***************************************************************************)

Ready == up /\ op = Idle

NewFrame(batch) ==
    [first |-> next, last |-> next + Len(batch) - 1, versions |-> BatchVersions(batch, next)]

\* Database::write: append one frame, sync it when Authoritative, then apply it
\* to the memtable, whose own contiguity check must accept the range.
Write(batch, authoritative) ==
    LET frame == NewFrame(batch)
        w == wals[wal]
    IN  /\ Ready /\ ~poisoned
        /\ frame.last <= MaxSeq
        /\ next = head + 1
        /\ wals' = [wals EXCEPT ![wal] =
                      [w EXCEPT !.frames = Append(w.frames, frame),
                                !.synced = IF authoritative THEN Len(w.frames) + 1 ELSE w.synced]]
        /\ next' = frame.last + 1
        /\ memtable' = memtable \cup frame.versions
        /\ head' = frame.last
        /\ acked' = IF authoritative THEN frame.last ELSE acked
        /\ UNCHANGED <<current, manifests, segfiles, checkpoints,
                       up, manifest, wal, poisoned, op, pins>>

\* WalWriter::append fails: the frame may be complete, partial or absent, and
\* the writer is poisoned.
WriteFails(batch) ==
    LET frame == NewFrame(batch)
        w == wals[wal]
    IN  /\ Ready /\ ~poisoned
        /\ frame.last <= MaxSeq
        /\ \/ wals' = [wals EXCEPT ![wal].frames = Append(w.frames, frame)]
           \/ \E t \in {"clean", "short", "cut"} : wals' = [wals EXCEPT ![wal].tail = t]
        /\ poisoned' = TRUE
        /\ UNCHANGED <<current, manifests, segfiles, checkpoints,
                       up, manifest, wal, next, memtable, head, op, pins, acked>>

\* Mutant: the data is handed to the kernel and never synced.
SyncedNowhere(w) == w

Synced(w) == [w EXCEPT !.synced = Len(w.frames)]

\* Database::sync
Sync ==
    /\ Ready /\ ~poisoned
    /\ wals' = [wals EXCEPT ![wal] = Synced(@)]
    /\ acked' = next - 1
    /\ UNCHANGED <<current, manifests, segfiles, checkpoints, memory, pins>>

\* WalWriter::sync fails: the error is returned, the writer is not poisoned.
\* The kernel has dropped the pages it could not write.
SyncFails ==
    LET w == wals[wal]
    IN  /\ "sync" \in Faults
        /\ Ready /\ ~poisoned
        /\ w.synced < Len(w.frames)
        /\ w.hole = 0
        /\ wals' = [wals EXCEPT ![wal].hole = w.synced + 1]
        /\ UNCHANGED <<current, manifests, segfiles, checkpoints, memory, pins, acked>>

(***************************************************************************)
(* Publication, shared by flush, compaction and snapshot installation.     *)
(***************************************************************************)

NextManifest(durable, start, segments) ==
    [generation |-> manifest.generation + 1, durable |-> durable, wal_start |-> start,
     segments |-> segments]

\* Mutant: publish does not compare CURRENT with the caller's manifest.
PersistManifestUnchecked ==
    /\ up /\ op.stage = "ready"
    /\ manifests' = manifests \cup {op.target}
    /\ op' = [op EXCEPT !.stage = "persisted"]
    /\ UNCHANGED <<current, segfiles, wals, checkpoints,
                   up, manifest, wal, next, poisoned, memtable, head, pins, acked>>

\* ManifestStore::publish up to persist_manifest: the caller's manifest must
\* still be CURRENT, then the new manifest file is written, synced and renamed.
PersistManifest ==
    /\ up /\ op.stage = "ready"
    /\ current = manifest
    /\ manifests' = manifests \cup {op.target}
    /\ op' = [op EXCEPT !.stage = "persisted"]
    /\ UNCHANGED <<current, segfiles, wals, checkpoints,
                   up, manifest, wal, next, poisoned, memtable, head, pins, acked>>

\* Mutant: the memtable is not cleared when its segment is published.
AdoptTargetKeepingMemtable ==
    /\ manifest' = op.target
    /\ IF op.kind = "compact"
         THEN UNCHANGED <<wal, next, poisoned, memtable, head>>
         ELSE /\ wal' = op.target.wal_start
              /\ next' = op.target.durable + 1
              /\ poisoned' = FALSE
              /\ head' = op.target.durable
              /\ UNCHANGED memtable

\* What the Database holds once its target is published: flush and install
\* continue in the successor WAL with an empty memtable, compaction only swaps
\* its segments.
AdoptTarget ==
    /\ manifest' = op.target
    /\ IF op.kind = "compact"
         THEN UNCHANGED <<wal, next, poisoned, memtable, head>>
         ELSE /\ wal' = op.target.wal_start
              /\ next' = op.target.durable + 1
              /\ poisoned' = FALSE
              /\ memtable' = {}
              /\ head' = op.target.durable

\* The snapshots whose reads the caller may go on trusting.
KeptPins ==
    CASE op.kind = "flush"   -> pins
      [] op.kind = "compact" -> {p \in pins : p.seq \in op.protected \cup {manifest.durable}}
      [] OTHER               -> {}

\* publish_pointer succeeds and the operation goes on in memory; a flush that
\* was the first half of a compaction continues with the merge.
PublishPointer ==
    /\ up /\ op.stage = "persisted"
    /\ current' = op.target
    /\ AdoptTarget
    /\ pins' = KeptPins
    /\ acked' = op.target.durable
    /\ op' = IF op.kind = "flush" /\ op.compact
               THEN [op EXCEPT !.kind = "compact", !.stage = "merge", !.target = NoFile]
               ELSE Idle
    /\ UNCHANGED <<manifests, segfiles, wals, checkpoints, up>>

\* persist_rename renames CURRENT and then fails to sync the directory: the
\* pointer has moved, but publish returns an error and the Database keeps its
\* old manifest, WAL and memtable.
PublishPointerUnsynced ==
    /\ "dirsync" \in Faults
    /\ up /\ op.stage = "persisted"
    /\ current' = op.target
    /\ op' = Idle
    /\ UNCHANGED <<manifests, segfiles, wals, checkpoints,
                   up, manifest, wal, next, poisoned, memtable, head, pins, acked>>

\* An error (storage full, a failed open, a refused precondition) is returned at
\* any boundary; what has reached the disk stays there.
Abort ==
    /\ up /\ op # Idle
    /\ op' = Idle
    /\ UNCHANGED <<files, up, manifest, wal, next, poisoned, memtable, head, pins, acked>>

\* Mutant: the successor WAL must not exist yet.
SuccessorAbsent(start) == wals[start] = NoFile

\* The successor WAL: an existing file is reused only if it recovers to no
\* frames and no torn tail, otherwise the file is created.
SuccessorUsable(start) ==
    wals[start] # NoFile => wals[start].frames = <<>> /\ wals[start].tail = "clean"

SuccessorWal(start) ==
    /\ SuccessorUsable(start)
    /\ wals' = IF wals[start] = NoFile THEN [wals EXCEPT ![start] = EmptyWal] ELSE wals

\* WalWriter::create_at stops between creating the file and completing its header.
SuccessorInterrupted(start) ==
    /\ "create" \in Faults
    /\ up /\ op.stage = "segment"
    /\ wals[start] = NoFile
    /\ wals' = [wals EXCEPT ![start] = [EmptyWal EXCEPT !.tail = "headerless"]]
    /\ op' = Idle
    /\ UNCHANGED <<current, manifests, segfiles, checkpoints,
                   up, manifest, wal, next, poisoned, memtable, head, pins, acked>>

(***************************************************************************)
(* Flush.                                                                  *)
(***************************************************************************)

\* flush_memtable_inner up to WalSynced; with an empty memtable the sync is all
\* there is to do.  compact is set when compact_inner made the call.
FlushSyncWal(compact, protected) ==
    /\ Ready /\ ~poisoned
    /\ manifest.generation < MaxGeneration
    /\ wals' = [wals EXCEPT ![wal] = Synced(@)]
    /\ acked' = IF memtable = {} THEN head ELSE acked
    /\ op' = CASE memtable # {} ->
                    [kind |-> "flush", stage |-> "synced", compact |-> compact,
                     protected |-> protected, target |-> NoFile]
               [] memtable = {} /\ compact ->
                    [kind |-> "compact", stage |-> "merge", compact |-> TRUE,
                     protected |-> protected, target |-> NoFile]
               [] OTHER -> Idle
    /\ UNCHANGED <<current, manifests, segfiles, checkpoints,
                   up, manifest, wal, next, poisoned, memtable, head, pins>>

\* Segment::write_from_memtable: the whole memtable becomes one durable file.
FlushWriteSegment ==
    /\ up /\ op.kind = "flush" /\ op.stage = "synced"
    /\ segfiles' = segfiles \cup {memtable}
    /\ op' = [op EXCEPT !.stage = "segment"]
    /\ UNCHANGED <<current, manifests, wals, checkpoints,
                   up, manifest, wal, next, poisoned, memtable, head, pins, acked>>

FlushSuccessorWal ==
    /\ up /\ op.kind = "flush" /\ op.stage = "segment"
    /\ SuccessorWal(next)
    /\ op' = [op EXCEPT !.stage = "ready",
                        !.target = NextManifest(next - 1, next, manifest.segments \cup {memtable})]
    /\ UNCHANGED <<current, manifests, segfiles, checkpoints,
                   up, manifest, wal, next, poisoned, memtable, head, pins, acked>>

(***************************************************************************)
(* Compaction.                                                             *)
(***************************************************************************)

\* Mutant: compaction keeps the newest version of a key only.
RetainedNewest(vs, protected) ==
    {v \in vs : v.value # None /\ \A w \in vs : w.key = v.key => w.seq <= v.seq}

\* Mutant: compaction keeps the oldest version of a key.
RetainedOldest(vs, protected) ==
    {v \in vs : \A w \in vs : w.key = v.key => v.seq <= w.seq}

\* The versions compact_inner keeps of vs: for every protected sequence the
\* newest version at or below it, except for keys left with tombstones only.
Retained(vs, protected) ==
    LET selected == {v \in vs : \E s \in protected : Visible(vs, v, s)}
    IN  {v \in selected : \E w \in selected : w.key = v.key /\ w.value # None}

\* compact_inner after its flush: with no segments there is nothing to do;
\* otherwise all segments are merged into at most one new file.
CompactMerge ==
    /\ up /\ op.kind = "compact" /\ op.stage = "merge"
    /\ IF manifest.segments = {}
         THEN /\ op' = Idle
              /\ UNCHANGED segfiles
         ELSE LET protected == {s \in op.protected : s <= manifest.durable}
                                 \cup {manifest.durable}
                  kept == Retained(Contents(manifest), protected)
                  output == IF kept = {} THEN {} ELSE {kept}
              IN  /\ segfiles' = segfiles \cup output
                  /\ op' = [op EXCEPT !.stage = "ready",
                                      !.target = NextManifest(manifest.durable,
                                                              manifest.wal_start, output)]
    /\ UNCHANGED <<current, manifests, wals, checkpoints,
                   up, manifest, wal, next, poisoned, memtable, head, pins, acked>>

(***************************************************************************)
(* Snapshot installation.                                                  *)
(***************************************************************************)

\* install_snapshot_*_inner up to SegmentsSynced: only a bundle that advances
\* the local sequence is installed.  The WAL is not synced first, so even a
\* poisoned database may be replaced.
InstallSegments(bundle) ==
    /\ Ready
    /\ manifest.generation < MaxGeneration
    /\ bundle.sequence > head
    /\ segfiles' = segfiles \cup bundle.segments
    /\ op' = [Idle EXCEPT !.kind = "install", !.stage = "segment",
                          !.target = NextManifest(bundle.sequence, bundle.sequence + 1,
                                                  bundle.segments)]
    /\ UNCHANGED <<current, manifests, wals, checkpoints,
                   up, manifest, wal, next, poisoned, memtable, head, pins, acked>>

InstallSuccessorWal ==
    /\ up /\ op.kind = "install" /\ op.stage = "segment"
    /\ SuccessorWal(op.target.wal_start)
    /\ op' = [op EXCEPT !.stage = "ready"]
    /\ UNCHANGED <<current, manifests, segfiles, checkpoints,
                   up, manifest, wal, next, poisoned, memtable, head, pins, acked>>

(***************************************************************************)
(* Snapshots, checkpoints and garbage collection.                          *)
(***************************************************************************)

\* A reader takes Database::snapshot() and remembers what it read there.
TakeSnapshot ==
    /\ Ready
    /\ Cardinality(pins) < MaxPins
    /\ pins' = pins \cup {[seq |-> head, view |-> [k \in Key |-> Get(k, head)]]}
    /\ UNCHANGED <<files, memory, acked>>

DropSnapshot(p) ==
    /\ up
    /\ pins' = pins \ {p}
    /\ UNCHANGED <<files, memory, acked>>

\* ManifestStore::checkpoint: a free name is bound to the manifest in use; a
\* bound name is never rebound.
Checkpoint(name) ==
    /\ Ready
    /\ manifest \in manifests
    /\ checkpoints[name] = NoFile
    /\ checkpoints' = [checkpoints EXCEPT ![name] = manifest]
    /\ UNCHANGED <<current, manifests, segfiles, wals, memory, pins, acked>>

ReleaseCheckpoint(name) ==
    /\ Ready
    /\ checkpoints[name] # NoFile
    /\ checkpoints' = [checkpoints EXCEPT ![name] = NoFile]
    /\ UNCHANGED <<current, manifests, segfiles, wals, memory, pins, acked>>

Pinned == {checkpoints[n] : n \in Name} \ {NoFile}

\* Mutant: checkpoints do not pin their manifests.
RetainedManifestsOfCurrent == {manifest}

\* Mutant: only checkpoints keep their WAL.
RetainedWalsOfCheckpoints == {m.wal_start : m \in Pinned}

\* Database::garbage_collect: the closure of self.manifest and of every
\* checkpoint is retained.
RetainedManifests == {manifest} \cup Pinned
RetainedSegments == UNION {m.segments : m \in RetainedManifests}
RetainedWals == {m.wal_start : m \in RetainedManifests}

DeadManifests == manifests \ RetainedManifests
DeadSegments == segfiles \ RetainedSegments
DeadWals == {s \in Start : wals[s] # NoFile} \ RetainedWals

\* Unreachable manifests go first, then segments, then WALs; the deletion may
\* stop after any file.  A directory that lost a file is synced.
GarbageCollect(M, S, W) ==
    /\ Ready
    /\ Pinned \subseteq manifests
    /\ S # {} => M = DeadManifests
    /\ W # {} => M = DeadManifests /\ S = DeadSegments
    /\ manifests' = manifests \ M
    /\ segfiles' = segfiles \ S
    /\ wals' = [s \in Start |->
                  IF s \in W THEN NoFile
                  ELSE IF W # {} /\ W = DeadWals /\ wals[s] # NoFile
                    THEN [wals[s] EXCEPT !.named = TRUE]
                    ELSE wals[s]]
    /\ UNCHANGED <<current, checkpoints, memory, pins, acked>>

(***************************************************************************)
(* Crash and recovery.                                                     *)
(***************************************************************************)

\* What a crash can leave of the WAL being written: at least the frames that
\* were synced, unless a failed sync had lost the pages of one of them.  What
\* follows the frames that are left is part of the next one, or the old tail.
Cut(w, n, t) == [w EXCEPT !.frames = SubSeq(w.frames, 1, n), !.hole = 0, !.tail = t]
TailsAfter(w, n) ==
    IF n = Len(w.frames) THEN {"clean", w.tail} ELSE {"clean", "short", "cut", "corrupt"}
Torn(w) == [Cut(w, w.hole - 1, "corrupt") EXCEPT !.synced = w.hole - 1]
Survivor(w) ==
    (UNION {{Cut(w, n, t) : t \in TailsAfter(w, n)} : n \in w.synced..Len(w.frames)})
      \cup {x \in {Torn(w)} : w.hole # 0}

\* The process dies: nothing, or everything not on stable storage, is lost.
Crash ==
    /\ up
    /\ \E x \in Survivor(wals[wal]),
         gone \in SUBSET {s \in Start : wals[s] # NoFile /\ ~wals[s].named} :
            wals' = [s \in Start |-> IF s \in gone THEN NoFile
                                     ELSE IF s = wal THEN x ELSE wals[s]]
    /\ up' = FALSE
    /\ op' = Idle
    /\ poisoned' = FALSE
    /\ memtable' = {}
    /\ head' = 0
    /\ next' = 1
    /\ wal' = 1
    /\ manifest' = current
    /\ pins' = {}
    /\ UNCHANGED <<current, manifests, segfiles, checkpoints, acked>>

\* wal.rs recover_from: every complete frame must continue the sequence.  The
\* header of a partial frame is checked too, once it is complete.
Contiguous(frames, start) ==
    \A i \in 1..Len(frames) :
        frames[i].first = IF i = 1 THEN start ELSE frames[i - 1].last + 1

Recovery(name, start) ==
    LET w == wals[name]
    IN  CASE \/ w.tail \in {"corrupt", "headerless"}
             \/ ~Contiguous(w.frames, start)
             \/ w.tail = "cut" /\ w.frames = <<>> /\ name # start -> "corrupt"
          [] w.tail \in {"short", "cut"} /\ Contiguous(w.frames, start)
                                         /\ (w.tail = "cut" /\ w.frames = <<>> => name = start)
             -> "torn"
          [] OTHER -> "clean"

\* The manifest CURRENT names, its segments and its WAL can all be read.
Closure(m) == m \in manifests /\ m.segments \subseteq segfiles /\ wals[m.wal_start] # NoFile

\* Database::open: replay the WAL of CURRENT on top of its segments.
Open ==
    LET w == wals[current.wal_start]
    IN  /\ ~up
        /\ Closure(current)
        /\ Recovery(current.wal_start, current.wal_start) = "clean"
        /\ w.frames # <<>> => current.wal_start = current.durable + 1
        /\ up' = TRUE
        /\ manifest' = current
        /\ wal' = current.wal_start
        /\ next' = LastSequence(w, current.wal_start - 1) + 1
        /\ memtable' = FrameVersions(w, Len(w.frames))
        /\ head' = LastSequence(w, current.durable)
        /\ UNCHANGED <<files, poisoned, op, pins, acked>>

\* repair_torn_tail, run on the WAL of CURRENT by an operator.  Its recovery
\* always starts from sequence 1.
RepairTornTail ==
    /\ ~up
    /\ wals[current.wal_start] # NoFile
    /\ Recovery(current.wal_start, 1) = "torn"
    /\ wals' = [wals EXCEPT ![current.wal_start] = [Synced(@) EXCEPT !.tail = "clean"]]
    /\ UNCHANGED <<current, manifests, segfiles, checkpoints, memory, pins, acked>>

(***************************************************************************)
(* The specification.  A behaviour starts right after Database::create.    *)
(***************************************************************************)

FirstManifest == [generation |-> 1, durable |-> 0, wal_start |-> 1, segments |-> {}]

Init ==
    /\ current = FirstManifest
    /\ manifests = {FirstManifest}
    /\ segfiles = {}
    /\ wals = [s \in Start |-> IF s = 1 THEN EmptyWal ELSE NoFile]
    /\ checkpoints = [n \in Name |-> NoFile]
    /\ up = TRUE
    /\ manifest = FirstManifest
    /\ wal = 1
    /\ next = 1
    /\ poisoned = FALSE
    /\ memtable = {}
    /\ head = 0
    /\ op = Idle
    /\ pins = {}
    /\ acked = 0

Next ==
    \/ \E batch \in WriteBatch :
          \/ \E authoritative \in BOOLEAN : Write(batch, authoritative)
          \/ WriteFails(batch)
    \/ Sync
    \/ SyncFails
    \/ FlushSyncWal(FALSE, {})
    \/ \E P \in SUBSET pins : FlushSyncWal(TRUE, {p.seq : p \in P})
    \/ FlushWriteSegment
    \/ FlushSuccessorWal
    \/ CompactMerge
    \/ \E bundle \in Bundle : InstallSegments(bundle)
    \/ InstallSuccessorWal
    \/ \E start \in Start :
          /\ start = IF op.kind = "install" THEN op.target.wal_start ELSE next
          /\ SuccessorInterrupted(start)
    \/ PersistManifest
    \/ PublishPointer
    \/ PublishPointerUnsynced
    \/ Abort
    \/ TakeSnapshot
    \/ \E p \in pins : DropSnapshot(p)
    \/ \E name \in Name : Checkpoint(name) \/ ReleaseCheckpoint(name)
    \/ \E M \in SUBSET DeadManifests, S \in SUBSET DeadSegments, W \in SUBSET DeadWals :
          GarbageCollect(M, S, W)
    \/ Crash
    \/ Open
    \/ RepairTornTail

Spec == Init /\ [][Next]_vars

(***************************************************************************)
(* Properties.                                                             *)
(***************************************************************************)

Stage == {"idle", "synced", "segment", "merge", "ready", "persisted"}

\* Every variable has the type the code declares for it.
TypeOK ==
    /\ current \in Manifest /\ manifest \in Manifest
    /\ manifests \subseteq Manifest
    /\ segfiles \subseteq SUBSET Version
    /\ wals \in [Start -> WalFile \cup {NoFile}]
    /\ checkpoints \in [Name -> Manifest \cup {NoFile}]
    /\ up \in BOOLEAN /\ poisoned \in BOOLEAN
    /\ wal \in Start /\ next \in Start
    /\ memtable \subseteq Version
    /\ head \in Nat /\ acked \in Nat
    /\ op \in [kind : {"idle", "flush", "compact", "install"}, stage : Stage,
               compact : BOOLEAN, protected : SUBSET Nat,
               target : Manifest \cup {NoFile}]
    /\ pins \subseteq [seq : Nat, view : [Key -> Value \cup {None}]]

\* "Publication order makes either the old or new manifest fully recoverable at
\* every crash boundary": whatever CURRENT names, its manifest file, all its
\* segments and its WAL are on disk, in the middle of every flush, compaction,
\* installation and collection, and after every crash.
Recoverable == Closure(current)

\* Garbage collection removes only what neither CURRENT nor a checkpoint
\* reaches: the closure of every named checkpoint stays on disk.
CheckpointsIntact == \A m \in Pinned : Closure(m)

\* A restart changes nothing: while the writer is sound, the Database in memory
\* is the one Database::open would rebuild from the files at this very moment.
MemoryMatchesFiles ==
    up /\ ~poisoned =>
        LET w == wals[current.wal_start]
        IN  /\ manifest = current
            /\ wal = current.wal_start
            /\ w # NoFile
            /\ memtable = FrameVersions(w, Len(w.frames))
            /\ head = LastSequence(w, current.durable)
            /\ next = head + 1

\* An acknowledged Authoritative write, sync or flush is never lost: after any
\* crash, the state that CURRENT and its WAL recover to includes it.
AckedSurvives ==
    ~up => /\ wals[current.wal_start] # NoFile
           /\ acked <= LastSequence(wals[current.wal_start], current.durable)

\* Snapshot isolation: a reader sees at its snapshot what it saw when it took
\* it, across later writes, flushes, and compactions that protect it; and point
\* reads, which stop at the memtable, agree at every sequence number with scans,
\* which merge memtable and segments by sequence.
SnapshotsStable ==
    up => /\ \A p \in pins : \A k \in Key : Get(k, p.seq) = p.view[k]
          /\ \A s \in 0..head : \A k \in Key : Get(k, s) = Scan(s)[k]

\* An unpublished successor WAL never holds data, so flush and installation can
\* be retried over the files an earlier failure left behind.
RetryNeverRefused ==
    up /\ op.stage = "segment" =>
        SuccessorUsable(IF op.kind = "install" THEN op.target.wal_start ELSE next)

\* CURRENT only ever moves one generation on from the manifest the Database
\* itself holds: a Database that missed a publication can publish nothing more.
StaleManifestNeverPublishes ==
    [][current' # current => /\ current = manifest
                             /\ current'.generation = current.generation + 1]_vars

\* A torn tail is the one kind of damage the documented repair handles: once the
\* operator has run it the database opens again.
TornTailRepairs ==
    (~up /\ wals[current.wal_start] # NoFile /\ wals[current.wal_start].tail \in {"short", "cut"})
        ~> up

\* The operator eventually repairs and reopens a database that is down.
RecoverySpec == Spec /\ WF_vars(RepairTornTail) /\ WF_vars(Open)

(***************************************************************************)
(* The files implement the abstract store: its trail is what each possible *)
(* loss of unsynced frames would recover to.                               *)
(***************************************************************************)

RecoveredState(n) ==
    LET w == wals[current.wal_start]
        s == IF n = 0 THEN current.durable ELSE w.frames[n].last
    IN  [seq |-> s, view |-> ViewAt(Contents(current) \cup FrameVersions(w, n), s)]

KnownFrames ==
    LET w == wals[current.wal_start]
    IN  IF up THEN Cardinality({i \in 1..Len(w.frames) : w.frames[i].last <= head})
              ELSE Len(w.frames)

trailBar ==
    LET w == wals[current.wal_start]
    IN  [i \in 1..(Len(w.frames) - w.synced + 1) |-> RecoveredState(w.synced + i - 1)]
seenBar == KnownFrames - wals[current.wal_start].synced + 1

Abstract == INSTANCE DurableStore WITH trail <- trailBar, seen <- seenBar, up <- up

\* Every behaviour of the files is one of the abstract durable store: batches
\* are atomic, a crash loses a suffix of the batches that were not synced and
\* nothing else, and flush, compaction and collection are invisible.
ImplementsDurableStore == Abstract!Spec

=============================================================================
