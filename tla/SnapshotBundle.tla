---------------------------- MODULE SnapshotBundle ----------------------------
(***************************************************************************)
(* Snapshot bundles of vyrm-kv (snapshot_bundle.rs): a flushed manifest and *)
(* the bytes of its segments, streamed into one file, authenticated by an  *)
(* outer digest and opened by validating every segment again; or encoded   *)
(* in memory, decoded and installed by another database segment by segment *)
(* (segment.rs install_snapshot_bytes).  Around it: I/O errors, a crash in *)
(* the middle of an export, media damage on either side, a damaged         *)
(* transfer, a source that moves on and a spool path that is used again.   *)
(*                                                                         *)
(* Lengths and offsets are abstracted: a bundle is its manifest and its    *)
(* parts in order.  The manifest pointer and the continuation log of an    *)
(* installation are KvDatabase's.                                          *)
(***************************************************************************)
EXTENDS SegmentFormat

CONSTANTS
    Sources,   \* the manifests the source publishes: [durable, tables]
    Keys,      \* keys that snapshot consumers read
    MaxExports, MaxFaults

VARIABLES
    at,       \* the source's current manifest
    dir,      \* the source's segment files, by table
    export,   \* [pc, at, next]: an export in progress
    spool,    \* the destination file, or NoFile
    opened,   \* a SnapshotBundleFile value, or NoBundle
    wire,     \* encoded bytes on their way to the target, or NoFile
    accepted, \* the bundle the target decoded, or NoBundle
    target,   \* the target database: [dir, durable, tables]
    exports, faults

vars == <<at, dir, export, spool, opened, wire, accepted, target, exports, faults>>

NoFile == [complete |-> FALSE, parts |-> <<>>, durable |-> 0]
NoBundle == [durable |-> 0]
NoExport == [pc |-> "idle"]
Empty == <<>>

TablesOf(m) == {Sources[m].tables[i] : i \in DOMAIN Sources[m].tables}

\* The manifest as flush_memtable published it: an empty successor log.
ManifestOf(m) ==
    [durable |-> Sources[m].durable, walStart |-> Sources[m].durable + 1,
     segments |-> [i \in DOMAIN Sources[m].tables |-> Descriptor(EncodeV3(Sources[m].tables[i]))]]

Init ==
    /\ at = 1
    /\ dir = [t \in TablesOf(1) |-> EncodeV3(t)]
    /\ export = NoExport
    /\ spool = NoFile
    /\ opened = NoBundle
    /\ wire = NoFile
    /\ accepted = NoBundle
    /\ target = [dir |-> Empty, durable |-> 0, tables |-> <<>>]
    /\ exports = 0
    /\ faults = 0

(***************************************************************************)
(* Reading a bundle.                                                       *)
(***************************************************************************)
\* validate_manifest_contract.
ManifestContract(manifest) == manifest.walStart = manifest.durable + 1

\* Mutant: the outer digest is taken for proof of the segments.
ValidatedByDigest(descriptor, image) == TRUE

\* validated_segment.
ValidatedSegment(descriptor, image) == ValidateSnapshot(descriptor, image)

\* SnapshotBundleFile::open and SnapshotBundle::decode: the outer digest, the
\* manifest, the inventory, then each segment on its own.
Acceptable(file) ==
    /\ file.complete
    /\ file.sealed
    /\ ManifestContract(file.manifest)
    /\ Len(file.parts) = Len(file.manifest.segments)
    /\ \A i \in DOMAIN file.parts :
          /\ file.parts[i].descriptor = file.manifest.segments[i]
          /\ ValidatedSegment(file.parts[i].descriptor, file.parts[i].image)

\* get_many through a handle: the file is read again for every segment, and
\* each is validated against the handle's descriptor before it is searched.
Readable(handle, file) ==
    \A i \in DOMAIN handle.segments :
       /\ i \in DOMAIN file.parts
       /\ ValidatedSegment(handle.segments[i], file.parts[i].image)

\* The newest version over the segments, by sequence.
GetMany(handle, file, key) ==
    LET found == {GetVersion(file.parts[i].image, key, handle.durable) : i \in DOMAIN handle.segments}
        newest == {v \in found : \A other \in found : other.sequence <= v.sequence}
    IN  IF found = {} THEN NoVersion ELSE CHOOSE v \in newest : TRUE

(***************************************************************************)
(* The source.                                                             *)
(***************************************************************************)
\* Writes and flushes between exports; export takes the database exclusively.
Advance ==
    /\ at < Len(Sources)
    /\ export = NoExport
    /\ at' = at + 1
    /\ dir' = [t \in DOMAIN dir \cup TablesOf(at + 1) |->
                 IF t \in DOMAIN dir THEN dir[t] ELSE EncodeV3(t)]
    /\ UNCHANGED <<export, spool, opened, wire, accepted, target, exports, faults>>

\* The segment files of a manifest as they are on disk.
PartsOf(m) ==
    [i \in DOMAIN Sources[m].tables |->
       [descriptor |-> ManifestOf(m).segments[i], image |-> dir[Sources[m].tables[i]]]]

\* content_bytes: header, manifest, then descriptor and bytes of each segment;
\* the digest over them is the footer.
ContentBytes(m, parts, complete) ==
    [manifest |-> ManifestOf(m), durable |-> Sources[m].durable, parts |-> parts,
     complete |-> complete, sealed |-> TRUE]

\* create_with_hook up to HeaderWritten: create_new refuses an existing path.
BeginExport ==
    /\ export = NoExport
    /\ exports < MaxExports
    /\ ManifestContract(ManifestOf(at))
    /\ spool = NoFile
    /\ spool' = ContentBytes(at, <<>>, FALSE)
    /\ export' = [pc |-> "segments", next |-> 1]
    /\ exports' = exports + 1
    /\ UNCHANGED <<at, dir, opened, wire, accepted, target, faults>>

\* One turn of the copy loop: the bytes of the file as they are; only their
\* length is compared with the manifest.
CopySegment ==
    /\ export.pc = "segments"
    /\ export.next <= Len(Sources[at].tables)
    /\ spool' = [spool EXCEPT !.parts = Append(@, PartsOf(at)[export.next])]
    /\ export' = [export EXCEPT !.next = @ + 1]
    /\ UNCHANGED <<at, dir, opened, wire, accepted, target, exports, faults>>

\* The footer and the syncs, then open on what was written.  A bundle that
\* open refuses stays on disk.
FinishExport ==
    /\ export.pc = "segments"
    /\ export.next > Len(Sources[at].tables)
    /\ spool' = [spool EXCEPT !.complete = TRUE]
    /\ opened' = IF Acceptable(spool')
                 THEN [durable |-> Sources[at].durable, of |-> at, segments |-> spool'.manifest.segments]
                 ELSE opened
    /\ export' = NoExport
    /\ UNCHANGED <<at, dir, wire, accepted, target, exports, faults>>

\* An I/O error, or a failure injected at a boundary: the file is removed.
FailExport ==
    /\ export.pc = "segments"
    /\ faults < MaxFaults
    /\ spool' = NoFile
    /\ export' = NoExport
    /\ faults' = faults + 1
    /\ UNCHANGED <<at, dir, opened, wire, accepted, target, exports>>

\* The process dies during an export: any prefix of the file is left, or all of
\* it when the footer was written and only the handle was not yet returned.
Crash ==
    /\ export.pc = "segments"
    /\ faults < MaxFaults
    /\ \/ \E n \in 0 .. Len(spool.parts) : spool' = [spool EXCEPT !.parts = SubSeq(@, 1, n)]
       \/ /\ export.next > Len(Sources[at].tables)
          /\ spool' = [spool EXCEPT !.complete = TRUE]
    /\ export' = NoExport
    /\ opened' = NoBundle
    /\ faults' = faults + 1
    /\ UNCHANGED <<at, dir, wire, accepted, target, exports>>

\* open of a file found on disk.
OpenFile ==
    /\ export = NoExport
    /\ opened = NoBundle
    /\ spool # NoFile
    /\ Acceptable(spool)
    /\ \E m \in DOMAIN Sources :
          /\ ManifestOf(m) = spool.manifest
          /\ opened' = [durable |-> spool.durable, of |-> m, segments |-> spool.manifest.segments]
    /\ UNCHANGED <<at, dir, export, spool, wire, accepted, target, exports, faults>>

\* The caller discards the spool file; a handle may outlive it.
RemoveSpool ==
    /\ export = NoExport
    /\ spool # NoFile
    /\ spool' = NoFile
    /\ UNCHANGED <<at, dir, export, opened, wire, accepted, target, exports, faults>>

\* export_snapshot_bundle and encode: the same closure in memory, validated
\* before it is encoded.
ExportMemory ==
    /\ export = NoExport
    /\ exports < MaxExports
    /\ Acceptable(ContentBytes(at, PartsOf(at), TRUE))
    /\ wire' = ContentBytes(at, PartsOf(at), TRUE)
    /\ exports' = exports + 1
    /\ UNCHANGED <<at, dir, export, spool, opened, accepted, target, faults>>

\* The spool file is sent as it is.
SendFile ==
    /\ opened # NoBundle
    /\ spool # NoFile
    /\ wire' = spool
    /\ UNCHANGED <<at, dir, export, spool, opened, accepted, target, exports, faults>>

(***************************************************************************)
(* Damage: of a segment of the source, of the spool file, of the transfer. *)
(***************************************************************************)
RotSource ==
    /\ faults < MaxFaults
    /\ \E t \in DOMAIN dir : dir[t].sealed /\ dir' = [dir EXCEPT ![t] = GarbledImage(@, 1)]
    /\ faults' = faults + 1
    /\ UNCHANGED <<at, export, spool, opened, wire, accepted, target, exports>>

GarbledBundle(file, i) ==
    [file EXCEPT !.sealed = FALSE, !.parts[i].image = GarbledImage(file.parts[i].image, 1)]

RotSpool ==
    /\ faults < MaxFaults
    /\ export = NoExport
    /\ \E i \in DOMAIN spool.parts :
          spool.parts[i].image.sealed /\ spool' = GarbledBundle(spool, i)
    /\ faults' = faults + 1
    /\ UNCHANGED <<at, dir, export, opened, wire, accepted, target, exports>>

\* The transfer is cut short or altered.
DamageWire ==
    /\ faults < MaxFaults
    /\ wire.complete
    /\ \E i \in DOMAIN wire.parts :
          wire' \in {[wire EXCEPT !.complete = FALSE, !.parts = SubSeq(@, 1, i)], GarbledBundle(wire, i)}
    /\ faults' = faults + 1
    /\ UNCHANGED <<at, dir, export, spool, opened, accepted, target, exports>>

RotTarget ==
    /\ faults < MaxFaults
    /\ \E t \in DOMAIN target.dir :
          target.dir[t].sealed /\ target' = [target EXCEPT !.dir[t] = GarbledImage(@, 1)]
    /\ faults' = faults + 1
    /\ UNCHANGED <<at, dir, export, spool, opened, wire, accepted, exports>>

(***************************************************************************)
(* The target.                                                             *)
(***************************************************************************)
\* decode of the bytes received.
Receive ==
    /\ wire # NoFile
    /\ accepted = NoBundle
    /\ Acceptable(wire)
    /\ \E m \in DOMAIN Sources :
          /\ ManifestOf(m) = wire.manifest
          /\ accepted' = [durable |-> wire.durable, of |-> m, file |-> wire, next |-> 1,
                          segments |-> wire.manifest.segments]
    /\ UNCHANGED <<at, dir, export, spool, opened, wire, target, exports, faults>>

\* install_snapshot_bytes, one segment: a file already there must open, be
\* the one described and hold the same bytes; otherwise the bytes are
\* renamed into place and opened.
InstallSegment ==
    /\ accepted # NoBundle
    /\ accepted.durable > target.durable
    /\ accepted.next <= Len(accepted.segments)
    /\ LET table == Sources[accepted.of].tables[accepted.next]
           bytes == accepted.file.parts[accepted.next].image
       IN  /\ ValidateSnapshot(accepted.segments[accepted.next], bytes)
           /\ table \in DOMAIN target.dir =>
                 OpenChecks(target.dir[table]) /\ target.dir[table] = bytes
           /\ target' = [target EXCEPT !.dir = [t \in DOMAIN target.dir \cup {table} |->
                           IF t = table THEN bytes ELSE target.dir[t]]]
    /\ accepted' = [accepted EXCEPT !.next = @ + 1]
    /\ UNCHANGED <<at, dir, export, spool, opened, wire, exports, faults>>

\* The manifest publication that makes the imported segments the database.
PublishInstalled ==
    /\ accepted # NoBundle
    /\ accepted.durable > target.durable
    /\ accepted.next > Len(accepted.segments)
    /\ target' = [target EXCEPT !.durable = accepted.durable, !.tables = Sources[accepted.of].tables]
    /\ accepted' = NoBundle
    /\ UNCHANGED <<at, dir, export, spool, opened, wire, exports, faults>>

\* A refused or failed installation is dropped, leaving the files it placed.
Abandon ==
    /\ accepted # NoBundle
    /\ accepted' = NoBundle
    /\ UNCHANGED <<at, dir, export, spool, opened, wire, target, exports, faults>>

Next ==
    \/ Advance \/ BeginExport \/ CopySegment \/ FinishExport \/ FailExport \/ Crash
    \/ OpenFile \/ RemoveSpool \/ ExportMemory \/ SendFile
    \/ RotSource \/ RotSpool \/ DamageWire \/ RotTarget
    \/ Receive \/ InstallSegment \/ PublishInstalled \/ Abandon

Spec == Init /\ [][Next]_vars

(***************************************************************************)
(* Properties.                                                             *)
(***************************************************************************)
Exact(handle, file) ==
    Readable(handle, file) =>
       \A key \in Keys :
          GetMany(handle, file, key) = Newest(UNION TablesOf(handle.of), key, handle.durable)

\* A bundle that was opened or accepted answers every key with the value the
\* source held at the manifest's durable sequence, or with an error: also when
\* the exported segments were already rotten, when the export crashed, when
\* the file was damaged or replaced under the handle, and when the transfer
\* was.  A target that published has every segment of that manifest, each one
\* exactly the source's or refused by its digest (snapshot_bundle.rs open,
\* get_many; segment.rs install_snapshot_bytes).
BundlesTruthful ==
    /\ opened # NoBundle => Exact(opened, spool)
    /\ accepted # NoBundle => Readable(accepted, accepted.file) /\ Exact(accepted, accepted.file)
    /\ \A i \in DOMAIN target.tables :
          LET table == target.tables[i] IN
          /\ table \in DOMAIN target.dir
          /\ target.dir[table].sealed => target.dir[table] = EncodeV3(table)
=============================================================================
