---------------------------- MODULE SegmentFormat ----------------------------
(***************************************************************************)
(* The segment file of vyrm-kv (segment.rs) as data: how encode_v3 cuts a  *)
(* memtable into blocks, what open checks before it trusts a file, and the *)
(* searches that a read runs inside one block or one legacy record region. *)
(* The state machines over these files are BlockCache (readers sharing the *)
(* decoded-block cache) and SnapshotBundle (segments carried to another    *)
(* node).                                                                  *)
(*                                                                         *)
(* A record is [key, sequence, kind, length]: keys are numbers in byte     *)
(* order (0 is the empty key), a value is told by its length and by the    *)
(* sequence that wrote it, kind 2 is a tombstone.  A digest is modelled by *)
(* "sealed": it still authenticates the bytes it was computed over.        *)
(***************************************************************************)
EXTENDS Naturals, Sequences, FiniteSets, SequencesExt, FiniteSetsExt

CONSTANTS
    Target,        \* SEGMENT_BLOCK_TARGET_BYTES
    HeaderBytes,   \* RECORD_HEADER_BYTES
    OffsetBytes,   \* size_of::<u32>(), one record offset of a decoded block
    MaxValueBytes, \* MAX_VALUE_BYTES
    Stride         \* SPARSE_INDEX_STRIDE of the legacy formats

\* VersionedValue.value is Some (1) or None (2): the record kind on disk.
Put == 1
Delete == 2

\* No version: sequences start at 1.
NoVersion == [key |-> 0, sequence |-> 0, kind |-> Delete, length |-> 0]

RecordBytes(record) == HeaderBytes + record.length

\* Canonical order: by key, the versions of one key by sequence.
Before(one, two) ==
    \/ one.key < two.key
    \/ one.key = two.key /\ one.sequence < two.sequence

\* encode_record refuses what the format cannot carry.
EncodeRecord(record) == record.key # 0 /\ record.length <= MaxValueBytes

\* parse_record: the frame of one record against the sequences the header
\* declares.
ParseRecord(record, minimum, maximum) ==
    /\ record.key # 0
    /\ record.length <= MaxValueBytes
    /\ record.sequence \in minimum .. maximum
    /\ record.kind \in {Put, Delete}
    /\ record.kind = Delete => record.length = 0

SequencesOf(table) == {record.sequence : record \in table}

TotalBytes(records) == FoldLeft(LAMBDA sum, record : sum + RecordBytes(record), 0, records)

\* A block and the entry the index holds for it.
BlockOf(records) ==
    [records |-> records, entries |-> Len(records), lastKey |-> Last(records).key,
     bytes |-> TotalBytes(records), sealed |-> TRUE]

\* The loop of encode_v3: a record that would overflow a block that is not
\* empty starts the next one, so the versions of one key may span blocks.
AppendRecord(cut, record) ==
    IF cut.current # <<>> /\ TotalBytes(cut.current) + RecordBytes(record) > Target
    THEN [blocks |-> Append(cut.blocks, BlockOf(cut.current)), current |-> <<record>>]
    ELSE [cut EXCEPT !.current = Append(@, record)]

\* The sorted records of a memtable, as all_versions yields them.
Rows(table) == SetToSortSeq(table, Before)

EncodeV3(table) ==
    LET cut == FoldLeft(AppendRecord, [blocks |-> <<>>, current |-> <<>>], Rows(table))
    IN  [format |-> 3, entries |-> Cardinality(table),
         minimum |-> Min(SequencesOf(table)), maximum |-> Max(SequencesOf(table)),
         bytes |-> TotalBytes(Rows(table)), target |-> Target,
         blocks |-> Append(cut.blocks, BlockOf(cut.current)), sealed |-> TRUE]

\* Formats 1 and 2 keep the records in one region; only earlier releases
\* wrote them.
EncodeLegacy(table, format) ==
    [format |-> format, entries |-> Cardinality(table),
     minimum |-> Min(SequencesOf(table)), maximum |-> Max(SequencesOf(table)),
     records |-> Rows(table), sealed |-> TRUE]

\* A block whose bytes changed on the medium: its digest no longer
\* authenticates it and a record reads as something else.
Garbled(block) == [block EXCEPT !.sealed = FALSE, !.records[1].sequence = 0]

\* The same damage inside the file: its footer digest fails too.
GarbledImage(image, b) ==
    [image EXCEPT !.sealed = FALSE, !.blocks[b] = Garbled(image.blocks[b])]

(***************************************************************************)
(* Opening.                                                                *)
(***************************************************************************)
\* validate_order over all the records of a file.
ValidateOrder(records) ==
    \A i \in 2 .. Len(records) : Before(records[i - 1], records[i])

\* read_v3_metadata: the header and the block table.
ReadV3Metadata(image) ==
    /\ image.sealed
    /\ image.entries # 0
    /\ image.minimum \in 1 .. image.maximum
    /\ image.blocks # <<>>
    /\ image.target = Target
    /\ \A i \in DOMAIN image.blocks :
          /\ image.blocks[i].entries # 0
          /\ image.blocks[i].bytes # 0
          /\ image.blocks[i].lastKey # 0
          /\ i > 1 => image.blocks[i - 1].lastKey <= image.blocks[i].lastKey

\* decode_compressed_block: the block digest and the declared length.
DecodeBlock(block) == block.sealed /\ TotalBytes(block.records) = block.bytes

AllRecords(image) ==
    IF image.format = 3 THEN FlattenSeq([i \in DOMAIN image.blocks |-> image.blocks[i].records])
    ELSE image.records

\* validate_v3_blocks: every block agrees with its index entry, every record
\* with the header.
ValidateV3Blocks(image) ==
    LET records == AllRecords(image) IN
    /\ \A i \in DOMAIN image.blocks :
          LET block == image.blocks[i] IN
          /\ DecodeBlock(block)
          /\ block.entries = Len(block.records)
          /\ block.lastKey = Last(block.records).key
    /\ \A i \in DOMAIN records : ParseRecord(records[i], image.minimum, image.maximum)
    /\ ValidateOrder(records)
    /\ Len(records) = image.entries
    /\ TotalBytes(records) = image.bytes

\* validate_legacy_records.
ValidateLegacy(image) ==
    /\ image.sealed
    /\ image.entries # 0
    /\ image.minimum \in 1 .. image.maximum
    /\ \A i \in DOMAIN image.records :
          ParseRecord(image.records[i], image.minimum, image.maximum)
    /\ ValidateOrder(image.records)
    /\ Len(image.records) = image.entries

\* Segment::open: dispatch on the format, then deep validation.
OpenChecks(image) ==
    IF image.format = 3 THEN ReadV3Metadata(image) /\ ValidateV3Blocks(image)
    ELSE image.format \in {1, 2} /\ ValidateLegacy(image)

\* What a successful open learns from the validated records.  The id is the
\* content digest, so two images have one id only when they are equal.
Descriptor(image) ==
    [id |-> [image EXCEPT !.sealed = TRUE], entries |-> image.entries,
     minimum |-> image.minimum, maximum |-> image.maximum,
     firstKey |-> Head(AllRecords(image)).key, lastKey |-> Last(AllRecords(image)).key]

\* validate_snapshot_owned and validate_snapshot_descriptor: a transferred
\* segment must decode and be the one its manifest describes.
ValidateSnapshot(descriptor, image) == OpenChecks(image) /\ Descriptor(image) = descriptor

(***************************************************************************)
(* Searching.                                                              *)
(***************************************************************************)
\* DecodedBlock::lower_bound: the binary search over record offsets, from 1.
LowerBound(records, key) ==
    LET RECURSIVE search(_, _)
        search(left, right) ==
            IF left >= right THEN left
            ELSE LET middle == left + (right - left) \div 2
                 IN  IF records[middle].key < key THEN search(middle + 1, right)
                     ELSE search(left, middle)
    IN  search(1, Len(records) + 1)

\* The newest admissible record of the run of equal keys that starts at
\* "from"; the loop breaks at the first other key.
SelectRun(records, from, key, sequence) ==
    LET run == {i \in from .. Len(records) : \A j \in from .. i : records[j].key = key}
        hits == {i \in run : records[i].sequence <= sequence}
    IN  IF hits = {} THEN NoVersion ELSE records[Max(hits)]

SelectVersionBlock(records, key, sequence) ==
    SelectRun(records, LowerBound(records, key), key, sequence)

\* The first block that can hold the key: partition_point over last keys.
FirstBlock(blocks, key) == Cardinality({i \in DOMAIN blocks : blocks[i].lastKey < key}) + 1

\* The sparse index of a legacy segment: every Stride-th distinct key.
SparseIndex(records) ==
    LET starts == {i \in DOMAIN records : i = 1 \/ records[i - 1].key # records[i].key}
        rank(i) == Cardinality({j \in starts : j < i})
    IN  {i \in starts : rank(i) % Stride = 0}

\* legacy_seek: the last sparse entry at or before the key, else the start.
LegacySeek(records, key) ==
    LET candidates == {i \in SparseIndex(records) : records[i].key <= key}
    IN  IF candidates = {} THEN 1 ELSE Max(candidates)

\* select_version of a legacy region: skip smaller keys, stop at a larger one.
SelectVersion(records, cursor, key, sequence) ==
    LET skipped == {i \in cursor .. Len(records) : \A j \in cursor .. i : records[j].key < key}
        from == IF skipped = {} THEN cursor ELSE Max(skipped) + 1
    IN  SelectRun(records, from, key, sequence)

\* The early return of get_version and get_versions.
OutOfRange(descriptor, key, sequence) ==
    \/ key < descriptor.firstKey
    \/ key > descriptor.lastKey
    \/ sequence < descriptor.minimum

\* get_version of a whole segment whose blocks all decode (a bundle validated
\* just before the read has no other outcome).
GetVersion(image, key, sequence) ==
    LET loop[i \in 1 .. Len(image.blocks) + 1, best \in {NoVersion} \cup ToSet(AllRecords(image))] ==
            IF i > Len(image.blocks) THEN best
            ELSE LET found == SelectVersionBlock(image.blocks[i].records, key, sequence)
                     next == IF found.sequence > best.sequence THEN found ELSE best
                 IN  IF image.blocks[i].lastKey > key THEN next ELSE loop[i + 1, next]
    IN  IF OutOfRange(Descriptor(image), key, sequence) THEN NoVersion
        ELSE IF image.format = 3 THEN loop[FirstBlock(image.blocks, key), NoVersion]
        ELSE SelectVersion(image.records, LegacySeek(image.records, key), key, sequence)

(***************************************************************************)
(* The reference: what any read must answer, from the versions alone.      *)
(***************************************************************************)
Newest(table, key, sequence) ==
    LET versions == {r \in table : r.key = key /\ r.sequence <= sequence}
    IN  IF versions = {} THEN NoVersion
        ELSE CHOOSE r \in versions : \A other \in versions : other.sequence <= r.sequence
=============================================================================
