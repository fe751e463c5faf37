------------------------------- MODULE MCStores -------------------------------
(***************************************************************************)
(* The storage side for TLC.  Its parts share no state that either writes, *)
(* so a behaviour follows one of them, the one "part" names: the claim log *)
(* and its projection; the three engines; the object tier; snapshot        *)
(* leases; segment reads through the block cache; and snapshot bundles.    *)
(***************************************************************************)
EXTENDS MCClaimProjection

CONSTANTS NoEnd,             \* as in Engines
          w1, w2,            \* writers of the object tier
          r1, r2             \* readers of the block cache

VARIABLES part,
          memory, fjall, native, answers, calls,
          backend, objects, olog, writer, rotted, lost, kept, stranded, ofaults,
          head, manifest, lfiles, lrecords, pins, op, granted, clock, lfaults,
          files, handles, cache, reader, reads, bfaults,
          at, dir, export, spool, opened, wire, accepted, target, exports, sfaults

engineVars == <<memory, fjall, native, answers, calls>>
objectVars == <<backend, objects, olog, writer, rotted, lost, kept, stranded, ofaults>>
leaseVars == <<head, manifest, lfiles, lrecords, pins, op, granted, clock, lfaults>>
cacheVars == <<files, handles, cache, reader, reads, bfaults>>
bundleVars == <<at, dir, export, spool, opened, wire, accepted, target, exports, sfaults>>
allVars == <<part, vars, engineVars, objectVars, leaseVars, cacheVars, bundleVars>>

Case == INSTANCE EngineCases

Engine == INSTANCE Engines
            WITH Scopes <- {"home", "away"}, Batches <- Case!MCBatches, Bodies <- Case!MCBodies,
                 Readers <- {"r"}, Instants <- 0..3, Outcomes <- {"accepted"}, MaxCalls <- 3

Object == INSTANCE ObjectTier
            WITH Digests <- {"d1", "d2"}, Writers <- {w1, w2}, MaxCommits <- 2, MaxFaults <- 2,
                 log <- olog, faults <- ofaults

Lease == INSTANCE SnapshotLease
           WITH Owners <- {"o1"}, Ttls <- {1}, MaxHead <- 2, MaxClock <- 2, MaxFaults <- 1,
                files <- lfiles, records <- lrecords, faults <- lfaults

\* A version with a value of a length, and a deletion.
Put(key, sequence, length) == [key |-> key, sequence |-> sequence, kind |-> 1, length |-> length]
Delete(key, sequence) == [key |-> key, sequence |-> sequence, kind |-> 2, length |-> 0]

\* A version 3 file in which the versions of key 2 span blocks, and a legacy one.
CacheTables ==
    [current |-> {Put(1, 1, 1), Put(2, 2, 3), Put(2, 3, 1), Put(2, 5, 2), Put(3, 4, 0), Delete(3, 6)},
     legacy |-> {Put(1, 1, 1), Put(2, 2, 1), Put(3, 3, 0), Delete(3, 4), Put(4, 5, 1), Put(5, 2, 1),
                 Put(5, 6, 0)}]
CacheRequests ==
    {[op |-> "get", keys |-> <<2, 3>>, from |-> 0, to |-> 0, at |-> 5],
     [op |-> "scan", keys |-> <<>>, from |-> 2, to |-> 3, at |-> 5],
     [op |-> "visible", keys |-> <<>>, from |-> 2, to |-> 0, at |-> 6],
     [op |-> "all", keys |-> <<>>, from |-> 0, to |-> 0, at |-> 6]}

Cache == INSTANCE BlockCache
           WITH Target <- 5, HeaderBytes <- 1, OffsetBytes <- 1, MaxValueBytes <- 4, Stride <- 2,
                Tables <- CacheTables, Formats <- [current |-> 3, legacy |-> 2],
                Readers <- {r1, r2}, Requests <- CacheRequests, Capacity <- 12, OrderFloor <- 3,
                ClockLimit <- 4, MaxHandles <- 2, MaxReads <- 2, MaxFaults <- 1, faults <- bfaults

BundleTable == {Put(1, 1, 1), Put(2, 2, 3), Put(2, 3, 2)}

Bundle == INSTANCE SnapshotBundle
            WITH Target <- 5, HeaderBytes <- 1, OffsetBytes <- 1, MaxValueBytes <- 4, Stride <- 2,
                 Sources <- <<[durable |-> 3, tables |-> <<BundleTable>>],
                              [durable |-> 4, tables |-> <<BundleTable, {Delete(1, 4)}>>]>>,
                 Keys <- 1..3, MaxExports <- 2, MaxFaults <- 2, faults <- sfaults

StoresInit ==
    /\ part \in {"projection", "engines", "objects", "leases", "cache", "bundles"}
    /\ Init /\ Engine!Init /\ Object!Init /\ Lease!Init /\ Cache!Init /\ Bundle!Init
    /\ part # "objects" => backend = "local"

StoresNext ==
    /\ \/ /\ part = "projection" /\ Next
          /\ UNCHANGED <<engineVars, objectVars, leaseVars, cacheVars, bundleVars>>
       \/ /\ part = "engines" /\ Engine!Next
          /\ UNCHANGED <<vars, objectVars, leaseVars, cacheVars, bundleVars>>
       \/ /\ part = "objects" /\ Object!Next
          /\ UNCHANGED <<vars, engineVars, leaseVars, cacheVars, bundleVars>>
       \/ /\ part = "leases" /\ Lease!Next
          /\ UNCHANGED <<vars, engineVars, objectVars, cacheVars, bundleVars>>
       \/ /\ part = "cache" /\ Cache!Next
          /\ UNCHANGED <<vars, engineVars, objectVars, leaseVars, bundleVars>>
       \/ /\ part = "bundles" /\ Bundle!Next
          /\ UNCHANGED <<vars, engineVars, objectVars, leaseVars, cacheVars>>
    /\ UNCHANGED part

StoresSpec == StoresInit /\ [][StoresNext]_allVars

\* No sequence of the calls modelled (no empty batch, one content to a key) tells the
\* memory, the Fjall and the native engine apart, by their answers or by what they
\* then show (MemoryEngine, Store, NativeEngine).
EnginesAgree == part = "engines" => Engine!EnginesAgree

\* What is resolved at an instant is what was last asserted of the latest beginning
\* that still holds (vyrm-core resolve_as_of).
ResolvesWhatHolds == part = "engines" => Engine!ResolvesWhatHolds

\* What committed transactions refer to is there and whole, whatever was reclaimed
\* and whoever died where, unless the medium lost it while it was referred to or a
\* writer of the same digest has moved it into quarantine, whole
\* (DataRuntime::commit_with_hook, publish_stage, reclaim_orphans).
ReferencesResolve == part = "objects" => Object!ReferencesResolve

\* A granted lease keeps a checkpoint that covers its cursor through failures,
\* restarts and collections (open_runtime_snapshot, reconcile_runtime_checkpoints).
LeaseProtectsHistory == part = "leases" => Lease!LeaseProtectsHistory

\* A read returns the newest visible versions of the memtable its segment was
\* written from, or an error, whatever the cache holds (Segment::get_version, scan).
ReadsExact == part = "cache" => Cache!ReadsExact

\* The shared cache holds no more than its capacity, counts what it holds and does
\* not let its order grow without bound (Segment::load_block, BlockCache).
CacheStaysBounded == part = "cache" => Cache!CacheStaysBounded

\* A bundle that was opened or accepted answers every key with what the source held
\* at its durable sequence, or with an error (SnapshotBundleFile, SnapshotBundle).
BundlesTruthful == part = "bundles" => Bundle!BundlesTruthful
=============================================================================
