------------------------------ MODULE BlockCache ------------------------------
(***************************************************************************)
(* Readers of vyrm-kv segments and the cache of decoded blocks they share  *)
(* (segment.rs, Segment and BlockCache).  load_block looks the block up    *)
(* under the cache lock, drops the lock to read and decode the file, and   *)
(* takes it again to insert, so two readers of one cold block both decode  *)
(* it.  A file may rot under an open handle: the digest of each block is   *)
(* what a later load relies on.                                            *)
(*                                                                         *)
(* The statistics counters are left out; nothing reads them back.          *)
(***************************************************************************)
EXTENDS SegmentFormat, Bags

CONSTANTS
    Tables,     \* name -> the versions of the memtable behind the file
    Formats,    \* name -> 3, or the legacy format of a file already on disk
    Readers,    \* threads holding the database's read lock
    Requests,   \* [op, keys, from, to, at]: what a reader may be asked
    Capacity,   \* capacity_bytes of the shared cache
    OrderFloor, \* the 32 of maybe_rebuild_order
    ClockLimit, \* 2^64, where the cache clock wraps
    MaxHandles, \* bound on opened segments
    MaxReads,   \* bound on requests
    MaxFaults   \* bound on blocks that rot

VARIABLES
    files,   \* name -> image on disk, or NoFile
    handles, \* opened segments; a handle's place is its cache_id
    cache,   \* [values, resident, order, clock]
    reader,  \* what each reader is doing
    reads, faults

vars == <<files, handles, cache, reader, reads, faults>>

NoFile == [format |-> 0]
Names == DOMAIN Tables
Idle == [pc |-> "idle"]

\* The images of earlier releases are there from the start.
Init ==
    /\ files = [n \in Names |-> IF Formats[n] = 3 THEN NoFile
                                ELSE EncodeLegacy(Tables[n], Formats[n])]
    /\ handles = <<>>
    /\ cache = [values |-> <<>>, resident |-> 0, order |-> EmptyBag, clock |-> 0]
    /\ reader = [r \in Readers |-> Idle]
    /\ reads = 0
    /\ faults = 0

(***************************************************************************)
(* The cache.                                                              *)
(***************************************************************************)
\* DecodedBlock::resident_bytes.
ResidentBytes(records) == TotalBytes(records) + Len(records) * OffsetBytes

\* Order of the heap's pairs (stamp, (cache_id, block)).
Older(one, two) ==
    \/ one[1] < two[1]
    \/ one[1] = two[1] /\ one[2][1] < two[2][1]
    \/ one[1] = two[1] /\ one[2][1] = two[2][1] /\ one[2][2] < two[2][2]

Stamps(c) == {<<c.values[k].lastUsed, k>> : k \in DOMAIN c.values}

RebuildOrder(c) == [c EXCEPT !.order = SetToBag(Stamps(c))]

\* renumber: ranks replace the stamps when the clock wraps.
Renumber(c) ==
    LET rank(k) == Cardinality({s \in Stamps(c) : ~ Older(<<c.values[k].lastUsed, k>>, s)})
    IN  RebuildOrder([c EXCEPT
            !.values = [k \in DOMAIN c.values |-> [c.values[k] EXCEPT !.lastUsed = rank(k)]],
            !.clock = Cardinality(DOMAIN c.values)])

NextStamp(c) ==
    LET ticked == [c EXCEPT !.clock = (@ + 1) % ClockLimit]
    IN  IF ticked.clock = 0 THEN Renumber(ticked) ELSE ticked

\* Mutant: the use is stamped on the entry but not pushed on the heap.
TouchUnordered(c, key) ==
    LET stamped == NextStamp(c)
    IN  [stamped EXCEPT !.values[key].lastUsed = stamped.clock]

Touch(c, key) ==
    LET stamped == NextStamp(c)
    IN  [stamped EXCEPT !.values[key].lastUsed = stamped.clock,
                        !.order = @ (+) SetToBag({<<stamped.clock, key>>})]

MaybeRebuildOrder(c) ==
    IF BagCardinality(c.order) > Max({2 * Cardinality(DOMAIN c.values), OrderFloor})
    THEN RebuildOrder(c) ELSE c

\* The eviction loop: pop the oldest pair; a pair whose stamp is not the
\* entry's is a stale use, one whose entry is gone removes nothing.
RECURSIVE Evict(_, _)
Evict(c, need) ==
    IF c.resident + need <= Capacity \/ c.order = EmptyBag THEN c
    ELSE LET pairs == BagToSet(c.order)
             oldest == CHOOSE p \in pairs : \A q \in pairs : p = q \/ Older(p, q)
             key == oldest[2]
             popped == [c EXCEPT !.order = @ (-) SetToBag({oldest})]
         IN  IF key \in DOMAIN c.values /\ c.values[key].lastUsed = oldest[1]
             THEN Evict([popped EXCEPT
                      !.values = [k \in DOMAIN c.values \ {key} |-> c.values[k]],
                      !.resident = @ - ResidentBytes(c.values[key].records)], need)
             ELSE Evict(popped, need)

\* The insertion; a block larger than the whole cache is not kept.
Insert(c, key, records) ==
    LET bytes == ResidentBytes(records)
        room == NextStamp([Evict(c, bytes) EXCEPT !.resident = @ + bytes])
        entry == [records |-> records, lastUsed |-> room.clock]
    IN  IF bytes > Capacity THEN c
        ELSE MaybeRebuildOrder([room EXCEPT
                 !.values = [k \in DOMAIN room.values \cup {key} |->
                                IF k = key THEN entry ELSE room.values[k]],
                 !.order = @ (+) SetToBag({<<room.clock, key>>})])

(***************************************************************************)
(* What a read does with the blocks it is handed.                          *)
(***************************************************************************)
\* The index entries of a handle: as validated when it was opened.
BlocksOf(h) == handles[h].blocks

\* The keys a request still has to look up: the others were answered None by
\* the range check.
InRange(h, keys, at) ==
    SelectSeq(keys, LAMBDA key : ~ OutOfRange(handles[h].descriptor, key, at))

\* Where a point read goes next: its first block, or to the end.
NextKey(state) ==
    IF state.keys = <<>> THEN [state EXCEPT !.pc = "done"]
    ELSE [state EXCEPT !.pc = "lookup", !.best = NoVersion,
                       !.block = FirstBlock(BlocksOf(state.handle), Head(state.keys))]

\* Mutant: a block that ends with the key is taken for its last.
StopsAtKey(lastKey, key) == lastKey >= key

\* The break of the block loop: a later block may hold more versions of the
\* key unless this one already ends past it.
StopsAt(lastKey, key) == lastKey > key

\* get_version and get_versions, one loaded block: versions of one key may
\* continue in the next block; the next key reuses the block in hand.
RECURSIVE GetVersions(_, _)
GetVersions(state, records) ==
    LET blocks == BlocksOf(state.handle)
        key == Head(state.keys)
        found == SelectVersionBlock(records, key, state.at)
        best == IF found.sequence > state.best.sequence THEN found ELSE state.best
        last == StopsAt(blocks[state.block].lastKey, key) \/ state.block = Len(blocks)
        moved == NextKey([state EXCEPT !.keys = Tail(@), !.answer = @ \cup {<<key, best>>}])
    IN  IF ~ last THEN [state EXCEPT !.pc = "lookup", !.block = @ + 1, !.best = best]
        ELSE IF moved.pc = "lookup" /\ moved.block = state.block
             THEN GetVersions(moved, records)
             ELSE moved

Outside(state, record) ==
    record.key < state.from \/ (state.to # 0 /\ record.key >= state.to)

\* The collect closure of scan: a change of key emits the version selected
\* for the previous one, unless it is a tombstone.
Emit(state) ==
    IF state.best.sequence # 0 /\ state.best.kind = Put
    THEN [state EXCEPT !.answer = Append(@, state.best), !.best = NoVersion]
    ELSE [state EXCEPT !.best = NoVersion]

CollectScan(state, record) ==
    LET turned == IF state.current # record.key
                  THEN [Emit(state) EXCEPT !.current = record.key] ELSE state
    IN  IF Outside(state, record) THEN state
        ELSE IF record.sequence <= state.at /\ record.sequence > turned.best.sequence
             THEN [turned EXCEPT !.best = record]
             ELSE turned

\* The collect closure of visible_from: the newest version of each key, a
\* tombstone included.
CollectVisible(state, record) ==
    LET prior == {r \in state.answer : r.key = record.key}
    IN  IF Outside(state, record) \/ record.sequence > state.at
           \/ \E r \in prior : r.sequence >= record.sequence
        THEN state
        ELSE [state EXCEPT !.answer = (@ \ prior) \cup {record}]

\* all_versions: the records grouped by key.
CollectAll(state, record) ==
    IF state.answer = <<>> \/ Head(Last(state.answer)).key # record.key
    THEN [state EXCEPT !.answer = Append(@, <<record>>)]
    ELSE [state EXCEPT !.answer[Len(state.answer)] = Append(@, record)]

Collect(state, record) ==
    CASE state.op = "scan" -> CollectScan(state, record)
      [] state.op = "visible" -> CollectVisible(state, record)
      [] state.op = "all" -> CollectAll(state, record)

\* scan, visible_from and for_each_record, one loaded block: the first one
\* from its lower bound, until a block reaches the end of the range.
Visit(state, records) ==
    LET blocks == BlocksOf(state.handle)
        first == IF state.op # "all" /\ state.block = FirstBlock(blocks, state.from)
                 THEN LowerBound(records, state.from) ELSE 1
        seen == FoldLeft(Collect, state, SubSeq(records, first, Len(records)))
        last == state.block = Len(blocks)
                \/ (state.to # 0 /\ blocks[state.block].lastKey >= state.to)
    IN  IF last THEN [(IF seen.op = "scan" THEN Emit(seen) ELSE seen) EXCEPT !.pc = "done"]
        ELSE [seen EXCEPT !.pc = "lookup", !.block = @ + 1]

Consume(state, records) ==
    IF state.op = "get" THEN GetVersions(state, records) ELSE Visit(state, records)

(***************************************************************************)
(* Opening, writing and damage.                                            *)
(***************************************************************************)
Opened(name, image) ==
    /\ Len(handles) < MaxHandles
    /\ OpenChecks(image)
    /\ handles' = Append(handles,
         [name |-> name, descriptor |-> Descriptor(image), format |-> image.format,
          blocks |-> IF image.format = 3 THEN image.blocks ELSE <<>>])

\* write_from_memtable: an existing file of that digest is opened in its
\* place, otherwise the image is renamed into place and opened.
WriteSegment(name) ==
    /\ Formats[name] = 3
    /\ \A record \in Tables[name] : EncodeRecord(record)
    /\ LET image == IF files[name] = NoFile THEN EncodeV3(Tables[name]) ELSE files[name]
       IN  /\ Opened(name, image)
           /\ files' = [files EXCEPT ![name] = image]
    /\ UNCHANGED <<cache, reader, reads, faults>>

\* open_with_cache: recovery, or a second database on the same directory.
OpenSegment(name) ==
    /\ files[name] # NoFile
    /\ Opened(name, files[name])
    /\ UNCHANGED <<files, cache, reader, reads, faults>>

\* The medium loses a block: neither the file's digest nor the block's
\* authenticates the bytes any more.
Rot(name, b) ==
    /\ faults < MaxFaults
    /\ files[name].format = 3
    /\ b \in DOMAIN files[name].blocks
    /\ files' = [files EXCEPT ![name] = GarbledImage(files[name], b)]
    /\ faults' = faults + 1
    /\ UNCHANGED <<handles, cache, reader, reads>>

(***************************************************************************)
(* Readers.                                                                *)
(***************************************************************************)
\* A legacy segment answers from memory, in one call.
LegacyAnswer(state, records) ==
    IF state.op = "get"
    THEN [state EXCEPT !.pc = "done", !.answer =
            {<<key, SelectVersion(records, LegacySeek(records, key), key, state.at)>> :
                key \in ToSet(state.keys)}]
    ELSE LET grouped == FoldLeft(CollectVisible, [state EXCEPT !.answer = {}], records).answer
         IN  [state EXCEPT !.pc = "done", !.answer =
                CASE state.op = "visible" -> grouped
                  [] state.op = "scan" -> SetToSortSeq({r \in grouped : r.kind = Put}, Before)
                  [] state.op = "all" -> FoldLeft(CollectAll, state, records).answer]

\* Entry of get_versions, scan, visible_from or all_versions.
Start(r, h, request) ==
    LET keys == InRange(h, request.keys, request.at)
        state == [pc |-> "lookup", handle |-> h, op |-> request.op, keys |-> keys,
                  asked |-> request.keys, from |-> request.from, to |-> request.to,
                  at |-> request.at, block |-> 1, best |-> NoVersion, current |-> 0, decoded |-> <<>>,
                  answer |-> IF request.op \in {"get", "visible"} THEN {} ELSE <<>>]
        first == FirstBlock(BlocksOf(h), request.from)
    IN
    /\ reader[r] = Idle
    /\ reads < MaxReads
    /\ reader' = [reader EXCEPT ![r] =
         CASE handles[h].format # 3 -> LegacyAnswer(state, AllRecords(handles[h].descriptor.id))
           [] handles[h].format = 3 /\ request.op = "get" -> NextKey(state)
           [] handles[h].format = 3 /\ request.op = "all" -> state
           [] OTHER -> [state EXCEPT !.block = first,
                        !.pc = IF first > Len(BlocksOf(h)) THEN "done" ELSE "lookup"]]
    /\ reads' = reads + 1
    /\ UNCHANGED <<files, handles, cache, faults>>

CacheKey(state) == <<state.handle, state.block>>

\* load_block under the first lock: a hit is touched and used.
Hit(r) ==
    LET key == CacheKey(reader[r]) IN
    /\ reader[r].pc = "lookup"
    /\ key \in DOMAIN cache.values
    /\ cache' = MaybeRebuildOrder(Touch(cache, key))
    /\ reader' = [reader EXCEPT ![r] = Consume(@, cache.values[key].records)]
    /\ UNCHANGED <<files, handles, reads, faults>>

Miss(r) ==
    /\ reader[r].pc = "lookup"
    /\ CacheKey(reader[r]) \notin DOMAIN cache.values
    /\ reader' = [reader EXCEPT ![r].pc = "decode"]
    /\ UNCHANGED <<files, handles, cache, reads, faults>>

\* read_and_decode_block, outside the cache lock: the block as the file holds
\* it now, or an error of the whole read.
Decode(r) ==
    /\ reader[r].pc = "decode"
    /\ LET block == files[handles[reader[r].handle].name].blocks[reader[r].block]
       IN  reader' = [reader EXCEPT ![r].pc = IF DecodeBlock(block) THEN "admit" ELSE "failed",
                                    ![r].decoded = block.records]
    /\ UNCHANGED <<files, handles, cache, reads, faults>>

\* load_block under the second lock: another reader may have inserted the
\* block meanwhile, otherwise this one's copy goes in.
Admit(r) ==
    LET key == CacheKey(reader[r])
        records == reader[r].decoded
    IN
    /\ reader[r].pc = "admit"
    /\ cache' = IF key \in DOMAIN cache.values THEN MaybeRebuildOrder(Touch(cache, key))
                ELSE Insert(cache, key, records)
    /\ reader' = [reader EXCEPT ![r] = Consume([@ EXCEPT !.decoded = <<>>], records)]
    /\ UNCHANGED <<files, handles, reads, faults>>

Return(r) ==
    /\ reader[r].pc \in {"done", "failed"}
    /\ reader' = [reader EXCEPT ![r] = Idle]
    /\ UNCHANGED <<files, handles, cache, reads, faults>>

Next ==
    \/ \E n \in Names :
          \/ WriteSegment(n)
          \/ OpenSegment(n)
          \/ \E b \in 1 .. Cardinality(Tables[n]) : Rot(n, b)
    \/ \E r \in Readers :
          \/ \E h \in DOMAIN handles, q \in Requests : Start(r, h, q)
          \/ Hit(r)
          \/ Miss(r)
          \/ Decode(r)
          \/ Admit(r)
          \/ Return(r)

Spec == Init /\ [][Next]_vars

(***************************************************************************)
(* Properties.                                                             *)
(***************************************************************************)
Wanted(table, state) ==
    LET asked == {k \in {record.key : record \in table} :
                    ~ Outside(state, [NoVersion EXCEPT !.key = k])}
        newest == {Newest(table, k, state.at) : k \in asked} \ {NoVersion}
    IN
    CASE state.op = "get" ->
           \A k \in ToSet(state.asked) :
              LET version == Newest(table, k, state.at) IN
              IF version = NoVersion
              THEN \A pair \in state.answer : pair[1] = k => pair[2] = NoVersion
              ELSE <<k, version>> \in state.answer /\ Cardinality({p \in state.answer : p[1] = k}) = 1
      [] state.op = "visible" -> state.answer = newest
      [] state.op = "scan" -> state.answer = SetToSortSeq({v \in newest : v.kind = Put}, Before)
      [] state.op = "all" ->
           /\ FlattenSeq(state.answer) = Rows(table)
           /\ \A i \in DOMAIN state.answer :
                 \A j \in DOMAIN state.answer : state.answer[i][1].key = state.answer[j][1].key => i = j

\* A read that returns without an error answers exactly from the versions the
\* segment was written with, whatever blocks they were cut into, whoever
\* decoded or evicted the blocks meanwhile, and even if the file rotted under
\* the handle: get_version, get_versions, scan, visible_from, all_versions,
\* over block and legacy files.  And a memtable that encodes is a segment
\* that opens (segment.rs get_version, scan, visible_from, load_block).
ReadsExact ==
    /\ \A r \in Readers :
          reader[r].pc = "done" => Wanted(Tables[handles[reader[r].handle].name], reader[r])
    /\ \A n \in Names : files[n] # NoFile /\ files[n].sealed => OpenChecks(files[n])

\* The bytes the cache accounts for are the bytes it holds and stay within
\* its capacity, and every entry can still be reached by eviction: its last
\* use is on the heap, whose length stays proportional to the entries, also
\* across a wrap of the clock (segment.rs load_block, BlockCache).
CacheStaysBounded ==
    /\ cache.resident = MapThenSumSet(LAMBDA k : ResidentBytes(cache.values[k].records),
                                      DOMAIN cache.values)
    /\ cache.resident <= Capacity
    /\ Stamps(cache) \subseteq BagToSet(cache.order)
    /\ BagCardinality(cache.order) <= Max({2 * Cardinality(DOMAIN cache.values), OrderFloor})
=============================================================================
