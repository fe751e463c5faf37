--------------------------- MODULE KvDatabaseProofs ---------------------------
(***************************************************************************)
(* What holds of KvDatabase for every set of keys, values and names, every *)
(* bound and, where it says so, every set of storage faults.               *)
(***************************************************************************)
EXTENDS KvDatabase, WellFoundedInduction, FiniteSetTheorems, TLAPS

(***************************************************************************)
(* Facts about the operators.                                              *)
(***************************************************************************)

\* The types of the data, for the provers to expand together.
OpType ==
    [kind : {"idle", "flush", "compact", "install"}, stage : Stage,
     compact : BOOLEAN, protected : SUBSET Nat, target : Manifest \cup {NoFile}]

\* A read answers with a value or with None.
LEMMA ReadAtType ==
    ASSUME NEW vs \in SUBSET Version, NEW k \in Key, NEW s \in Nat
    PROVE  ReadAt(vs, k, s) \in Value \cup {None}
<1>1. CASE \E v \in vs : v.key = k /\ Visible(vs, v, s)
  <2> DEFINE v0 == CHOOSE v \in vs : v.key = k /\ Visible(vs, v, s)
  <2>1. v0 \in vs
    BY <1>1
  <2>2. v0.value \in Value \cup {None}
    BY <2>1 DEF Version
  <2> QED BY <1>1, <2>2 DEF ReadAt
<1>2. CASE ~ \E v \in vs : v.key = k /\ Visible(vs, v, s)
  BY <1>2 DEF ReadAt
<1> QED BY <1>1, <1>2

\* A batch is a non-empty sequence of mutations.
LEMMA BatchIsSeq ==
    ASSUME NEW batch \in WriteBatch
    PROVE  /\ batch \in Seq(Mutation)
           /\ Len(batch) \in Nat \ {0}
           /\ DOMAIN batch = 1..Len(batch)
<1>1. PICK n \in 1..MaxBatch : batch \in [1..n -> Mutation]
  BY DEF WriteBatch
<1>2. n \in Nat \ {0}
  BY MaxBatchAssumption
<1>3. batch \in Seq(Mutation)
  BY <1>1, <1>2
<1> QED BY <1>1, <1>2, <1>3

\* The versions of a batch are versions.
LEMMA BatchVersionsType ==
    ASSUME NEW batch \in WriteBatch, NEW first \in Nat
    PROVE  BatchVersions(batch, first) \in SUBSET Version
<1> SUFFICES ASSUME NEW i \in DOMAIN batch
             PROVE  [key |-> batch[i].key, seq |-> first + i - 1, value |-> batch[i].value]
                        \in Version
  BY DEF BatchVersions
<1>1. i \in 1..Len(batch) /\ batch[i] \in Mutation
  BY BatchIsSeq
<1>2. batch[i].key \in Key /\ batch[i].value \in Value \cup {None}
  BY <1>1 DEF Mutation
<1>3. first + i - 1 \in Nat
  BY <1>1, BatchIsSeq
<1> QED BY <1>2, <1>3 DEF Version

\* The frame of an accepted batch fits the log.
LEMMA NewFrameType ==
    ASSUME NEW batch \in WriteBatch, next \in Start, NewFrame(batch).last <= MaxSeq
    PROVE  /\ NewFrame(batch) \in Frame
           /\ NewFrame(batch).last + 1 \in Start
           /\ NewFrame(batch).versions \in SUBSET Version
           /\ NewFrame(batch).last >= next
<1>1. next \in Nat \ {0} /\ MaxSeq \in Nat
  BY BoundsAssumption DEF Start
<1>2. BatchVersions(batch, next) \in SUBSET Version
  BY <1>1, BatchVersionsType
<1>3. Len(batch) \in Nat \ {0}
  BY BatchIsSeq
<1>4. next + Len(batch) - 1 \in 1..MaxSeq
  BY <1>1, <1>3 DEF NewFrame
<1> QED BY <1>1, <1>2, <1>3, <1>4 DEF NewFrame, Frame, Start

\* The frames of a log have sequence numbers in range and hold versions.
LEMMA FramesType ==
    ASSUME NEW fs \in Seq(Frame), NEW i \in 1..Len(fs)
    PROVE  /\ fs[i] \in Frame
           /\ fs[i].first \in Start /\ fs[i].last \in 1..MaxSeq
           /\ fs[i].versions \in SUBSET Version
<1>1. fs[i] \in Frame
  OBVIOUS
<1> QED BY <1>1 DEF Frame

\* A fresh WAL is a WAL file.
LEMMA EmptyWalType == EmptyWal \in WalFile
<1>1. <<>> \in Seq(Frame)
  OBVIOUS
<1> QED BY <1>1, FileSyncAssumption DEF EmptyWal, WalFile, TailState

\* Appending a frame to a WAL, syncing it or changing its tail gives a WAL.
LEMMA WalUpdateType ==
    ASSUME NEW w \in WalFile
    PROVE  /\ Synced(w) \in WalFile
           /\ \A f \in Frame, n \in Nat :
                  [w EXCEPT !.frames = Append(w.frames, f), !.synced = n] \in WalFile
           /\ \A f \in Frame : [w EXCEPT !.frames = Append(w.frames, f)] \in WalFile
           /\ \A t \in TailState : [w EXCEPT !.tail = t] \in WalFile
           /\ \A n \in Nat : [w EXCEPT !.hole = n] \in WalFile
           /\ [w EXCEPT !.named = TRUE] \in WalFile
<1>1. w.frames \in Seq(Frame) /\ w.synced \in Nat /\ w.hole \in Nat
        /\ w.tail \in TailState /\ w.named \in BOOLEAN
  BY DEF WalFile
<1>2. Len(w.frames) \in Nat
  BY <1>1
<1>3. \A f \in Frame : Append(w.frames, f) \in Seq(Frame)
  BY <1>1
<1> QED BY <1>1, <1>2, <1>3 DEF WalFile, Synced

\* A WAL cut after some of its frames is a WAL.
LEMMA CutType ==
    ASSUME NEW w \in WalFile, NEW n \in 0..Len(w.frames), NEW t \in TailState
    PROVE  Cut(w, n, t) \in WalFile /\ Cut(w, n, t).hole = 0
<1>1. w.frames \in Seq(Frame)
  BY DEF WalFile
<1>2. SubSeq(w.frames, 1, n) \in Seq(Frame)
  BY <1>1
<1> QED BY <1>2 DEF WalFile, Cut

\* What a crash leaves of a WAL: some of its frames, at least the synced ones,
\* or what a failed sync had left of them.
LEMMA SurvivorCases ==
    ASSUME NEW w \in WalFile, NEW x \in Survivor(w)
    PROVE  \/ \E n \in w.synced..Len(w.frames) : \E t \in TailsAfter(w, n) : x = Cut(w, n, t)
           \/ w.hole # 0 /\ x = Torn(w)
<1>1. x \in UNION {{Cut(w, n, t) : t \in TailsAfter(w, n)} : n \in w.synced..Len(w.frames)}
        \/ (w.hole # 0 /\ x = Torn(w))
  BY DEF Survivor
<1>2. x \in UNION {{Cut(w, n, t) : t \in TailsAfter(w, n)} : n \in w.synced..Len(w.frames)}
        => \E n \in w.synced..Len(w.frames) : \E t \in TailsAfter(w, n) : x = Cut(w, n, t)
  OBVIOUS
<1> QED BY <1>1, <1>2

\* What a crash leaves of a WAL is a WAL, and it has no hole any more.
LEMMA SurvivorType ==
    ASSUME NEW w \in WalFile, w.hole <= Len(w.frames), NEW x \in Survivor(w)
    PROVE  x \in WalFile /\ x.hole = 0
<1>1. w.frames \in Seq(Frame) /\ w.synced \in Nat /\ w.hole \in Nat /\ w.tail \in TailState
  BY DEF WalFile
<1>2. CASE \E n \in w.synced..Len(w.frames) : \E t \in TailsAfter(w, n) : x = Cut(w, n, t)
  <2>1. PICK n \in w.synced..Len(w.frames) : \E t \in TailsAfter(w, n) : x = Cut(w, n, t)
    BY <1>2
  <2>2. PICK t \in TailsAfter(w, n) : x = Cut(w, n, t)
    BY <2>1
  <2>3. t \in TailState
    BY <1>1 DEF TailsAfter, TailState
  <2>4. n \in 0..Len(w.frames)
    BY <1>1
  <2> QED BY <2>2, <2>3, <2>4, CutType
<1>3. CASE w.hole # 0 /\ x = Torn(w)
  <2>1. w.hole - 1 \in 0..Len(w.frames) /\ w.hole - 1 \in Nat
    BY <1>1, <1>3
  <2>2. Cut(w, w.hole - 1, "corrupt") \in WalFile /\ Cut(w, w.hole - 1, "corrupt").hole = 0
    BY <2>1, CutType DEF TailState
  <2> QED BY <1>3, <2>1, <2>2 DEF WalFile, Torn
<1> QED BY <1>2, <1>3, SurvivorCases

(***************************************************************************)
(* Type correctness.  TypeOK is not inductive: the open Database must hold *)
(* a WAL that exists, and an operation about to publish must have prepared *)
(* a manifest whose WAL exists.                                            *)
(***************************************************************************)

\* The open Database writes to the WAL its manifest names.
WalHeld == up => wal = manifest.wal_start /\ wals[wal] # NoFile

\* A failed sync loses frames that are in the file.
HolesInside == \A s \in Start : wals[s] # NoFile => wals[s].hole <= Len(wals[s].frames)

\* What an operation has prepared when it reaches publication.
Prepared ==
    /\ ~up => op = Idle
    /\ op.kind = "install" /\ op.stage = "segment" =>
          op.target \in Manifest /\ op.target.wal_start = op.target.durable + 1
    /\ op.stage \in {"ready", "persisted"} =>
          /\ op.target \in Manifest
          /\ wals[op.target.wal_start] # NoFile
          /\ op.kind = "compact" => op.target.wal_start = manifest.wal_start
          /\ op.kind # "compact" => op.target.wal_start = op.target.durable + 1

TypeInv == TypeOK /\ WalHeld /\ HolesInside /\ Prepared

\* An idle operation has the type of an operation.
LEMMA IdleType == Idle \in OpType
  BY DEF Idle, OpType, Stage

\* The first state is well typed.
LEMMA InitType == Init => TypeInv
<1> SUFFICES ASSUME Init PROVE TypeInv
  OBVIOUS
<1> USE DEF Init
<1>1. 1 \in Start
  BY BoundsAssumption DEF Start
<1>2. FirstManifest \in Manifest
  BY <1>1 DEF FirstManifest, Manifest
<1>3. wals \in [Start -> WalFile \cup {NoFile}]
  BY EmptyWalType
<1>4. TypeOK
  BY <1>1, <1>2, <1>3, IdleType DEF TypeOK, OpType
<1>5. EmptyWal # NoFile
  BY EmptyWalType, NoFileAssumption
<1>6. WalHeld
  BY <1>1, <1>5 DEF WalHeld, FirstManifest
<1>7. HolesInside
  BY <1>1, <1>5 DEF HolesInside, EmptyWal
<1>8. Prepared
  BY DEF Prepared, Idle
<1> QED BY <1>4, <1>6, <1>7, <1>8 DEF TypeInv

\* Changing the WAL in use into another WAL whose hole is inside it.
LEMMA WalStepType ==
    ASSUME TypeInv, up, NEW x \in WalFile, x.hole <= Len(x.frames),
           wals' = [wals EXCEPT ![wal] = x]
    PROVE  /\ wals' \in [Start -> WalFile \cup {NoFile}]
           /\ \A s \in Start : wals[s] # NoFile => wals'[s] # NoFile
           /\ wals'[wal] = x /\ x # NoFile
           /\ HolesInside'
<1>1. wal \in Start /\ wals \in [Start -> WalFile \cup {NoFile}]
  BY DEF TypeInv, TypeOK
<1>2. x # NoFile
  BY NoFileAssumption
<1> QED BY <1>1, <1>2 DEF TypeInv, HolesInside

\* The WAL in use is a file.
LEMMA WalInUse ==
    ASSUME TypeInv, up
    PROVE  /\ wals[wal] \in WalFile
           /\ wals[wal].frames \in Seq(Frame)
           /\ wals[wal].synced \in Nat
           /\ wals[wal].hole \in Nat
           /\ wals[wal].hole <= Len(wals[wal].frames)
           /\ wal \in Start
<1>1. wal \in Start /\ wals[wal] \in WalFile
  BY DEF TypeInv, TypeOK, WalHeld
<1> QED BY <1>1 DEF TypeInv, HolesInside, WalFile, WalHeld

\* A write keeps the types.
LEMMA WriteType ==
    ASSUME TypeInv, NEW batch \in WriteBatch, NEW authoritative \in BOOLEAN,
           Write(batch, authoritative)
    PROVE  TypeInv'
<1> DEFINE w == wals[wal]
           x == [w EXCEPT !.frames = Append(w.frames, NewFrame(batch)),
                          !.synced = IF authoritative THEN Len(w.frames) + 1 ELSE w.synced]
<1>1. up /\ op = Idle /\ next \in Start /\ NewFrame(batch).last <= MaxSeq
  BY DEF Write, Ready, TypeInv, TypeOK
<1>2. /\ NewFrame(batch) \in Frame
      /\ NewFrame(batch).last + 1 \in Start
      /\ NewFrame(batch).last \in Nat
      /\ NewFrame(batch).versions \in SUBSET Version
  BY <1>1, NewFrameType DEF Frame
<1>3. w \in WalFile /\ w.frames \in Seq(Frame) /\ w.synced \in Nat /\ w.hole \in Nat
        /\ w.hole <= Len(w.frames)
  BY <1>1, WalInUse
<1>4. (IF authoritative THEN Len(w.frames) + 1 ELSE w.synced) \in Nat
  BY <1>3
<1>5. x \in WalFile
  BY <1>2, <1>3, <1>4, WalUpdateType
<1>6. x.hole <= Len(x.frames)
  BY <1>2, <1>3 DEF WalFile
<1>7. wals' = [wals EXCEPT ![wal] = x]
  BY DEF Write
<1>8. /\ wals' \in [Start -> WalFile \cup {NoFile}]
      /\ \A s \in Start : wals[s] # NoFile => wals'[s] # NoFile
      /\ HolesInside'
  BY <1>1, <1>5, <1>6, <1>7, WalStepType
<1>9. TypeOK'
  BY <1>2, <1>8 DEF Write, TypeInv, TypeOK
<1>10. WalHeld'
  BY <1>1, <1>8 DEF Write, TypeInv, TypeOK, WalHeld
<1>11. Prepared'
  BY <1>1 DEF Write, Prepared, Idle
<1> QED BY <1>8, <1>9, <1>10, <1>11 DEF TypeInv

\* A failed write keeps the types.
LEMMA WriteFailsType ==
    ASSUME TypeInv, NEW batch \in WriteBatch, WriteFails(batch)
    PROVE  TypeInv'
<1> DEFINE w == wals[wal]
<1>1. up /\ op = Idle /\ next \in Start /\ NewFrame(batch).last <= MaxSeq
  BY DEF WriteFails, Ready, TypeInv, TypeOK
<1>2. NewFrame(batch) \in Frame
  BY <1>1, NewFrameType
<1>3. w \in WalFile /\ w.frames \in Seq(Frame) /\ w.hole \in Nat /\ w.hole <= Len(w.frames)
        /\ wal \in Start /\ wals \in [Start -> WalFile \cup {NoFile}]
  BY <1>1, WalInUse DEF TypeInv, TypeOK
<1>4. \E x \in WalFile : x.hole <= Len(x.frames) /\ wals' = [wals EXCEPT ![wal] = x]
  <2>1. CASE wals' = [wals EXCEPT ![wal].frames = Append(w.frames, NewFrame(batch))]
    <3> DEFINE x == [w EXCEPT !.frames = Append(w.frames, NewFrame(batch))]
    <3>1. x \in WalFile
      BY <1>2, <1>3, WalUpdateType
    <3>2. x.hole <= Len(x.frames)
      BY <1>2, <1>3 DEF WalFile
    <3> QED BY <2>1, <3>1, <3>2
  <2>2. CASE \E t \in {"clean", "short", "cut"} : wals' = [wals EXCEPT ![wal].tail = t]
    <3>1. PICK t \in {"clean", "short", "cut"} : wals' = [wals EXCEPT ![wal].tail = t]
      BY <2>2
    <3> DEFINE x == [w EXCEPT !.tail = t]
    <3>2. x \in WalFile
      BY <1>3, WalUpdateType DEF TailState
    <3>3. x.hole <= Len(x.frames)
      BY <1>3 DEF WalFile
    <3> QED BY <3>1, <3>2, <3>3
  <2> QED BY <2>1, <2>2 DEF WriteFails
<1>5. /\ wals' \in [Start -> WalFile \cup {NoFile}]
      /\ \A s \in Start : wals[s] # NoFile => wals'[s] # NoFile
      /\ HolesInside'
  BY <1>1, <1>4, WalStepType
<1>6. TypeOK'
  BY <1>5 DEF WriteFails, TypeInv, TypeOK
<1>7. WalHeld'
  BY <1>1, <1>5 DEF WriteFails, TypeInv, TypeOK, WalHeld
<1>8. Prepared'
  BY <1>1 DEF WriteFails, Prepared, Idle
<1> QED BY <1>5, <1>6, <1>7, <1>8 DEF TypeInv

\* Syncing the WAL in use, or failing to.
LEMMA SyncedType ==
    ASSUME TypeInv, up
    PROVE  Synced(wals[wal]) \in WalFile
           /\ Synced(wals[wal]).hole <= Len(Synced(wals[wal]).frames)
<1>1. wals[wal] \in WalFile /\ wals[wal].hole <= Len(wals[wal].frames)
  BY WalInUse
<1> QED BY <1>1, WalUpdateType DEF Synced, WalFile

\* Database::sync keeps the types.
LEMMA SyncType == ASSUME TypeInv, Sync PROVE TypeInv'
<1>1. up /\ op = Idle /\ wals' = [wals EXCEPT ![wal] = Synced(wals[wal])]
  BY DEF Sync, Ready
<1>2. /\ wals' \in [Start -> WalFile \cup {NoFile}]
      /\ \A s \in Start : wals[s] # NoFile => wals'[s] # NoFile
      /\ HolesInside'
  BY <1>1, SyncedType, WalStepType
<1>3. next - 1 \in Nat
  BY DEF TypeInv, TypeOK, Start
<1>4. TypeOK'
  BY <1>2, <1>3 DEF Sync, memory, TypeInv, TypeOK
<1>5. WalHeld'
  BY <1>1, <1>2 DEF Sync, memory, TypeInv, TypeOK, WalHeld
<1>6. Prepared'
  BY <1>1 DEF Sync, memory, Prepared, Idle
<1> QED BY <1>2, <1>4, <1>5, <1>6 DEF TypeInv

\* A failed sync keeps the types.
LEMMA SyncFailsType == ASSUME TypeInv, SyncFails PROVE TypeInv'
<1> DEFINE w == wals[wal]
           x == [w EXCEPT !.hole = w.synced + 1]
<1>1. up /\ op = Idle /\ w.synced < Len(w.frames)
  BY DEF SyncFails, Ready
<1>2. w \in WalFile /\ w.synced \in Nat /\ w.frames \in Seq(Frame)
        /\ wal \in Start /\ wals \in [Start -> WalFile \cup {NoFile}]
  BY <1>1, WalInUse DEF TypeInv, TypeOK
<1>3. x \in WalFile /\ x.hole <= Len(x.frames)
  <2>1. w.synced + 1 \in Nat /\ w.synced + 1 <= Len(w.frames)
    BY <1>1, <1>2
  <2> QED BY <1>2, <2>1, WalUpdateType DEF WalFile
<1>4. wals' = [wals EXCEPT ![wal] = x]
  BY <1>2 DEF SyncFails
<1>5. /\ wals' \in [Start -> WalFile \cup {NoFile}]
      /\ \A s \in Start : wals[s] # NoFile => wals'[s] # NoFile
      /\ HolesInside'
  BY <1>1, <1>3, <1>4, WalStepType
<1>6. TypeOK'
  BY <1>5 DEF SyncFails, memory, TypeInv, TypeOK
<1>7. WalHeld'
  BY <1>1, <1>5 DEF SyncFails, memory, TypeInv, TypeOK, WalHeld
<1>8. Prepared'
  BY <1>1 DEF SyncFails, memory, Prepared, Idle
<1> QED BY <1>5, <1>6, <1>7, <1>8 DEF TypeInv

\* The first step of flush and compaction keeps the types.
LEMMA FlushSyncWalType ==
    ASSUME TypeInv, NEW compact \in BOOLEAN, NEW protected \in SUBSET Nat,
           FlushSyncWal(compact, protected)
    PROVE  TypeInv'
<1>1. up /\ wals' = [wals EXCEPT ![wal] = Synced(wals[wal])]
  BY DEF FlushSyncWal, Ready
<1>2. /\ wals' \in [Start -> WalFile \cup {NoFile}]
      /\ \A s \in Start : wals[s] # NoFile => wals'[s] # NoFile
      /\ HolesInside'
  BY <1>1, SyncedType, WalStepType
<1>3. op' \in OpType /\ op'.kind # "install" /\ op'.stage \notin {"ready", "persisted"}
  <2>1. CASE memtable # {}
    BY <2>1 DEF FlushSyncWal, OpType, Stage
  <2>2. CASE memtable = {} /\ compact
    BY <2>2 DEF FlushSyncWal, OpType, Stage
  <2>3. CASE memtable = {} /\ ~compact
    BY <2>3, IdleType DEF FlushSyncWal, Idle
  <2> QED BY <2>1, <2>2, <2>3
<1>4. acked' \in Nat
  BY DEF FlushSyncWal, TypeInv, TypeOK
<1>5. TypeOK'
  BY <1>2, <1>3, <1>4 DEF FlushSyncWal, TypeInv, TypeOK, OpType
<1>6. WalHeld'
  BY <1>1, <1>2 DEF FlushSyncWal, TypeInv, TypeOK, WalHeld
<1>7. Prepared'
  BY <1>1, <1>3 DEF FlushSyncWal, Prepared
<1> QED BY <1>2, <1>5, <1>6, <1>7 DEF TypeInv

\* Writing the segment of a flush keeps the types.
LEMMA FlushWriteSegmentType == ASSUME TypeInv, FlushWriteSegment PROVE TypeInv'
<1>1. up /\ op \in OpType /\ op.kind = "flush"
        /\ op' = [op EXCEPT !.stage = "segment"]
  BY DEF FlushWriteSegment, TypeInv, TypeOK, OpType
<1>2. op' \in OpType /\ op'.kind = "flush" /\ op'.stage = "segment"
  BY <1>1 DEF OpType, Stage
<1>3. TypeOK'
  BY <1>2 DEF FlushWriteSegment, TypeInv, TypeOK, OpType
<1>4. WalHeld' /\ HolesInside'
  BY DEF FlushWriteSegment, TypeInv, WalHeld, HolesInside
<1>5. Prepared'
  BY <1>1, <1>2 DEF FlushWriteSegment, Prepared
<1> QED BY <1>3, <1>4, <1>5 DEF TypeInv

\* Creating or reusing a successor WAL.
LEMMA SuccessorWalType ==
    ASSUME TypeInv, NEW start \in Start, SuccessorWal(start)
    PROVE  /\ wals' \in [Start -> WalFile \cup {NoFile}]
           /\ \A s \in Start : wals[s] # NoFile => wals'[s] = wals[s]
           /\ wals'[start] # NoFile
           /\ HolesInside'
<1>1. wals \in [Start -> WalFile \cup {NoFile}]
  BY DEF TypeInv, TypeOK
<1>2. EmptyWal \in WalFile /\ EmptyWal # NoFile /\ EmptyWal.hole <= Len(EmptyWal.frames)
  BY EmptyWalType, NoFileAssumption DEF EmptyWal
<1>3. CASE wals[start] = NoFile
  BY <1>1, <1>2, <1>3 DEF SuccessorWal, TypeInv, HolesInside
<1>4. CASE wals[start] # NoFile
  BY <1>1, <1>4 DEF SuccessorWal, TypeInv, HolesInside
<1> QED BY <1>3, <1>4

\* A manifest prepared from well-typed parts is well typed.
LEMMA NextManifestType ==
    ASSUME TypeInv, NEW durable \in Nat, NEW start \in Start,
           NEW segments \in SUBSET SUBSET Version
    PROVE  /\ NextManifest(durable, start, segments) \in Manifest
           /\ NextManifest(durable, start, segments).durable = durable
           /\ NextManifest(durable, start, segments).wal_start = start
           /\ NextManifest(durable, start, segments).segments = segments
<1>1. manifest.generation + 1 \in Nat
  BY DEF TypeInv, TypeOK, Manifest
<1> QED BY <1>1 DEF NextManifest, Manifest

\* Preparing the manifest of a flush keeps the types.
LEMMA FlushSuccessorWalType == ASSUME TypeInv, FlushSuccessorWal PROVE TypeInv'
<1> DEFINE t == NextManifest(next - 1, next, manifest.segments \cup {memtable})
<1>1. up /\ op \in OpType /\ op.kind = "flush" /\ next \in Start
        /\ op' = [op EXCEPT !.stage = "ready", !.target = t]
  BY DEF FlushSuccessorWal, TypeInv, TypeOK, OpType
<1>2. next - 1 \in Nat /\ next = (next - 1) + 1
  BY <1>1 DEF Start
<1>3. manifest.segments \cup {memtable} \in SUBSET SUBSET Version
  BY DEF TypeInv, TypeOK, Manifest
<1>4. t \in Manifest /\ t.durable = next - 1 /\ t.wal_start = next
  <2>1. ASSUME NEW segments \in SUBSET SUBSET Version
        PROVE  /\ NextManifest(next - 1, next, segments) \in Manifest
               /\ NextManifest(next - 1, next, segments).durable = next - 1
               /\ NextManifest(next - 1, next, segments).wal_start = next
    BY <1>1, <1>2, NextManifestType
  <2> QED BY <1>3, <2>1
<1>5. op' \in OpType /\ op'.kind = "flush" /\ op'.stage = "ready" /\ op'.target = t
  BY <1>1, <1>4 DEF OpType, Stage
<1>6. /\ wals' \in [Start -> WalFile \cup {NoFile}]
      /\ \A s \in Start : wals[s] # NoFile => wals'[s] = wals[s]
      /\ wals'[next] # NoFile
      /\ HolesInside'
  BY <1>1, SuccessorWalType DEF FlushSuccessorWal
<1>7. TypeOK'
  BY <1>5, <1>6 DEF FlushSuccessorWal, TypeInv, TypeOK, OpType
<1>8. WalHeld'
  BY <1>1, <1>6 DEF FlushSuccessorWal, TypeInv, TypeOK, WalHeld
<1>9. Prepared'
  BY <1>1, <1>2, <1>4, <1>5, <1>6 DEF FlushSuccessorWal, Prepared
<1> QED BY <1>6, <1>7, <1>8, <1>9 DEF TypeInv

\* Compaction keeps versions only.
LEMMA RetainedType ==
    ASSUME NEW vs \in SUBSET Version, NEW protected
    PROVE  Retained(vs, protected) \in SUBSET Version
  BY DEF Retained

\* The merge of a compaction keeps the types.
LEMMA CompactMergeType == ASSUME TypeInv, CompactMerge PROVE TypeInv'
<1> DEFINE protected == {s \in op.protected : s <= manifest.durable} \cup {manifest.durable}
           kept == Retained(Contents(manifest), protected)
           output == IF kept = {} THEN {} ELSE {kept}
           t == NextManifest(manifest.durable, manifest.wal_start, output)
<1>1. up /\ op \in OpType /\ op.kind = "compact" /\ manifest \in Manifest
  BY DEF CompactMerge, TypeInv, TypeOK, OpType
<1>2. CASE manifest.segments = {}
  <2>1. op' = Idle /\ segfiles' = segfiles
    BY <1>2 DEF CompactMerge
  <2>2. TypeOK'
    BY <2>1, IdleType DEF CompactMerge, TypeInv, TypeOK, OpType
  <2>3. WalHeld' /\ HolesInside'
    BY DEF CompactMerge, TypeInv, WalHeld, HolesInside
  <2>4. Prepared'
    BY <2>1 DEF Prepared, Idle
  <2> QED BY <2>2, <2>3, <2>4 DEF TypeInv
<1>3. CASE manifest.segments # {}
  <2>1. /\ segfiles' = segfiles \cup output
        /\ op' = [op EXCEPT !.stage = "ready", !.target = t]
    BY <1>3 DEF CompactMerge
  <2>2. Contents(manifest) \in SUBSET Version
    BY <1>1 DEF Contents, Manifest
  <2>3. output \in SUBSET SUBSET Version
    BY <2>2, RetainedType
  <2>4. manifest.durable \in Nat /\ manifest.wal_start \in Start
    BY <1>1 DEF Manifest
  <2>5. t \in Manifest /\ t.wal_start = manifest.wal_start
    BY <2>3, <2>4, NextManifestType
  <2>6. op' \in OpType /\ op'.kind = "compact" /\ op'.stage = "ready" /\ op'.target = t
    BY <1>1, <2>1, <2>5 DEF OpType, Stage
  <2>7. TypeOK'
    BY <2>1, <2>3, <2>6 DEF CompactMerge, TypeInv, TypeOK, OpType
  <2>8. WalHeld' /\ HolesInside'
    BY DEF CompactMerge, TypeInv, WalHeld, HolesInside
  <2>9. wals'[t.wal_start] # NoFile /\ up' /\ manifest' = manifest
    BY <1>1, <2>5 DEF CompactMerge, TypeInv, WalHeld
  <2>10. Prepared'
    BY <2>5, <2>6, <2>9 DEF Prepared
  <2> QED BY <2>7, <2>8, <2>10 DEF TypeInv
<1> QED BY <1>2, <1>3

\* The segments of a bundle keep the types.
LEMMA InstallSegmentsType ==
    ASSUME TypeInv, NEW bundle \in Bundle, InstallSegments(bundle)
    PROVE  TypeInv'
<1> DEFINE t == NextManifest(bundle.sequence, bundle.sequence + 1, bundle.segments)
<1>1. /\ up
      /\ op' = [Idle EXCEPT !.kind = "install", !.stage = "segment", !.target = t]
  BY DEF InstallSegments, Ready
<1>2. bundle.sequence \in 1..MaxSeq /\ bundle.segments \in SUBSET SUBSET Version
  BY BundleAssumption
<1>3. bundle.sequence \in Nat /\ bundle.sequence + 1 \in Start
  BY <1>2, BoundsAssumption DEF Start
<1>4. t \in Manifest /\ t.durable = bundle.sequence /\ t.wal_start = bundle.sequence + 1
  BY <1>2, <1>3, NextManifestType
<1>5. op' \in OpType /\ op'.kind = "install" /\ op'.stage = "segment" /\ op'.target = t
  BY <1>1, <1>4 DEF OpType, Stage, Idle
<1>6. TypeOK'
  BY <1>2, <1>5 DEF InstallSegments, TypeInv, TypeOK, OpType
<1>7. WalHeld' /\ HolesInside'
  BY DEF InstallSegments, TypeInv, WalHeld, HolesInside
<1>8. Prepared'
  BY <1>1, <1>4, <1>5 DEF InstallSegments, Prepared
<1> QED BY <1>6, <1>7, <1>8 DEF TypeInv

\* The continuation WAL of an installation keeps the types.
LEMMA InstallSuccessorWalType == ASSUME TypeInv, InstallSuccessorWal PROVE TypeInv'
<1> DEFINE t == op.target
<1>1. up /\ op \in OpType /\ op.kind = "install" /\ op.stage = "segment"
        /\ op' = [op EXCEPT !.stage = "ready"]
  BY DEF InstallSuccessorWal, TypeInv, TypeOK, OpType
<1>2. t \in Manifest /\ t.wal_start = t.durable + 1
  BY <1>1 DEF TypeInv, Prepared
<1>3. t.wal_start \in Start
  BY <1>2 DEF Manifest
<1>4. op' \in OpType /\ op'.kind = "install" /\ op'.stage = "ready" /\ op'.target = t
  BY <1>1 DEF OpType, Stage
<1>5. /\ wals' \in [Start -> WalFile \cup {NoFile}]
      /\ \A s \in Start : wals[s] # NoFile => wals'[s] = wals[s]
      /\ wals'[t.wal_start] # NoFile
      /\ HolesInside'
  BY <1>3, SuccessorWalType DEF InstallSuccessorWal
<1>6. TypeOK'
  BY <1>4, <1>5 DEF InstallSuccessorWal, TypeInv, TypeOK, OpType
<1>7. WalHeld'
  BY <1>1, <1>5 DEF InstallSuccessorWal, TypeInv, TypeOK, WalHeld
<1>8. Prepared'
  BY <1>1, <1>2, <1>4, <1>5 DEF InstallSuccessorWal, Prepared
<1> QED BY <1>5, <1>6, <1>7, <1>8 DEF TypeInv

\* An interrupted creation of a WAL keeps the types.
LEMMA SuccessorInterruptedType ==
    ASSUME TypeInv, NEW start \in Start, SuccessorInterrupted(start)
    PROVE  TypeInv'
<1> DEFINE x == [EmptyWal EXCEPT !.tail = "headerless"]
<1>1. up /\ op' = Idle /\ wals[start] = NoFile /\ wals' = [wals EXCEPT ![start] = x]
  BY DEF SuccessorInterrupted
<1>2. x \in WalFile
  BY EmptyWalType, WalUpdateType DEF TailState
<1>3. x # NoFile /\ x.hole <= Len(x.frames)
  BY <1>2, NoFileAssumption DEF EmptyWal
<1>4. wals \in [Start -> WalFile \cup {NoFile}]
  BY DEF TypeInv, TypeOK
<1>5. /\ wals' \in [Start -> WalFile \cup {NoFile}]
      /\ \A s \in Start : wals[s] # NoFile => wals'[s] = wals[s]
      /\ HolesInside'
  BY <1>1, <1>2, <1>3, <1>4 DEF TypeInv, HolesInside
<1>6. TypeOK'
  BY <1>1, <1>5, IdleType DEF SuccessorInterrupted, TypeInv, TypeOK, OpType
<1>7. WalHeld'
  BY <1>1, <1>5 DEF SuccessorInterrupted, TypeInv, TypeOK, WalHeld
<1>8. Prepared'
  BY <1>1 DEF Prepared, Idle
<1> QED BY <1>5, <1>6, <1>7, <1>8 DEF TypeInv

\* Writing the manifest file keeps the types.
LEMMA PersistManifestType == ASSUME TypeInv, PersistManifest PROVE TypeInv'
<1>1. up /\ op \in OpType /\ op.stage = "ready" /\ op' = [op EXCEPT !.stage = "persisted"]
  BY DEF PersistManifest, TypeInv, TypeOK, OpType
<1>2. op.target \in Manifest
  BY <1>1 DEF TypeInv, Prepared
<1>3. op' \in OpType /\ op'.kind = op.kind /\ op'.stage = "persisted" /\ op'.target = op.target
  BY <1>1 DEF OpType, Stage
<1>4. TypeOK'
  BY <1>2, <1>3 DEF PersistManifest, TypeInv, TypeOK, OpType
<1>5. WalHeld' /\ HolesInside'
  BY DEF PersistManifest, TypeInv, WalHeld, HolesInside
<1>6. Prepared'
  BY <1>1, <1>3 DEF PersistManifest, TypeInv, Prepared
<1> QED BY <1>4, <1>5, <1>6 DEF TypeInv

\* What the Database adopts at publication.
LEMMA AdoptTargetType ==
    ASSUME TypeInv, up, op.stage = "persisted", AdoptTarget, wals' = wals
    PROVE  /\ manifest' \in Manifest /\ wal' \in Start /\ next' \in Start
           /\ poisoned' \in BOOLEAN /\ memtable' \in SUBSET Version /\ head' \in Nat
           /\ wal' = manifest'.wal_start /\ wals'[wal'] # NoFile
           /\ op.target \in Manifest
<1>1. /\ op.target \in Manifest
      /\ wals[op.target.wal_start] # NoFile
      /\ op.kind = "compact" => op.target.wal_start = manifest.wal_start
      /\ op.kind # "compact" => op.target.wal_start = op.target.durable + 1
  BY DEF TypeInv, Prepared
<1>2. op.target.wal_start \in Start /\ op.target.durable \in Nat
  BY <1>1 DEF Manifest
<1>3. manifest' = op.target
  BY DEF AdoptTarget
<1>4. CASE op.kind = "compact"
  <2>1. UNCHANGED <<wal, next, poisoned, memtable, head>>
    BY <1>4 DEF AdoptTarget
  <2>2. wal = manifest.wal_start
    BY DEF TypeInv, WalHeld
  <2>3. /\ wal \in Start /\ next \in Start /\ poisoned \in BOOLEAN
        /\ memtable \in SUBSET Version /\ head \in Nat
    BY DEF TypeInv, TypeOK
  <2> QED BY <1>1, <1>3, <1>4, <2>1, <2>2, <2>3
<1>5. CASE op.kind # "compact"
  <2>1. /\ wal' = op.target.wal_start /\ next' = op.target.durable + 1
        /\ poisoned' = FALSE /\ memtable' = {} /\ head' = op.target.durable
    BY <1>5 DEF AdoptTarget
  <2> QED BY <1>1, <1>2, <1>3, <1>5, <2>1
<1> QED BY <1>4, <1>5

\* Advancing CURRENT keeps the types.
LEMMA PublishPointerType == ASSUME TypeInv, PublishPointer PROVE TypeInv'
<1>1. up /\ op.stage = "persisted" /\ AdoptTarget /\ wals' = wals /\ op \in OpType
  BY DEF PublishPointer, TypeInv, TypeOK, OpType
<1>2. /\ manifest' \in Manifest /\ wal' \in Start /\ next' \in Start
      /\ poisoned' \in BOOLEAN /\ memtable' \in SUBSET Version /\ head' \in Nat
      /\ wal' = manifest'.wal_start /\ wals'[wal'] # NoFile
      /\ op.target \in Manifest
  BY <1>1, AdoptTargetType
<1>3. op' \in OpType /\ op'.kind # "install" /\ op'.stage \notin {"ready", "persisted"}
  <2>1. CASE op.kind = "flush" /\ op.compact
    <3>1. op' = [op EXCEPT !.kind = "compact", !.stage = "merge", !.target = NoFile]
      BY <2>1 DEF PublishPointer
    <3> QED BY <1>1, <3>1 DEF OpType, Stage
  <2>2. CASE ~(op.kind = "flush" /\ op.compact)
    <3>1. op' = Idle
      BY <2>2 DEF PublishPointer
    <3> QED BY <3>1, IdleType DEF Idle
  <2> QED BY <2>1, <2>2
<1>4. pins' \subseteq pins
  BY DEF PublishPointer, KeptPins
<1>5. acked' \in Nat
  BY <1>2 DEF PublishPointer, Manifest
<1>6. TypeOK'
  BY <1>2, <1>3, <1>4, <1>5 DEF PublishPointer, TypeInv, TypeOK, OpType
<1>7. WalHeld'
  BY <1>2 DEF WalHeld
<1>8. HolesInside'
  BY <1>1 DEF TypeInv, HolesInside
<1>9. Prepared'
  BY <1>1, <1>3 DEF PublishPointer, Prepared
<1> QED BY <1>6, <1>7, <1>8, <1>9 DEF TypeInv

\* A publication whose directory sync failed keeps the types.
LEMMA PublishPointerUnsyncedType == ASSUME TypeInv, PublishPointerUnsynced PROVE TypeInv'
<1>1. up /\ op.stage = "persisted" /\ op' = Idle /\ current' = op.target
  BY DEF PublishPointerUnsynced
<1>2. op.target \in Manifest
  BY <1>1 DEF TypeInv, Prepared
<1>3. TypeOK'
  BY <1>1, <1>2, IdleType DEF PublishPointerUnsynced, TypeInv, TypeOK, OpType
<1>4. WalHeld' /\ HolesInside'
  BY DEF PublishPointerUnsynced, TypeInv, WalHeld, HolesInside
<1>5. Prepared'
  BY <1>1 DEF Prepared, Idle
<1> QED BY <1>3, <1>4, <1>5 DEF TypeInv

\* Giving an operation up keeps the types.
LEMMA AbortType == ASSUME TypeInv, Abort PROVE TypeInv'
<1>1. op' = Idle
  BY DEF Abort
<1>2. TypeOK'
  BY <1>1, IdleType DEF Abort, files, TypeInv, TypeOK, OpType
<1>3. WalHeld' /\ HolesInside'
  BY DEF Abort, files, TypeInv, WalHeld, HolesInside
<1>4. Prepared'
  BY <1>1 DEF Prepared, Idle
<1> QED BY <1>2, <1>3, <1>4 DEF TypeInv

\* A point read has the type of a value.
LEMMA GetType ==
    ASSUME TypeInv, NEW k \in Key, NEW s \in Nat
    PROVE  Get(k, s) \in Value \cup {None}
<1>1. memtable \in SUBSET Version /\ Contents(manifest) \in SUBSET Version
  BY DEF TypeInv, TypeOK, Contents, Manifest
<1> QED BY <1>1, ReadAtType DEF Get

\* Taking and dropping snapshots keeps the types.
LEMMA TakeSnapshotType == ASSUME TypeInv, TakeSnapshot PROVE TypeInv'
<1> DEFINE p == [seq |-> head, view |-> [k \in Key |-> Get(k, head)]]
<1>1. head \in Nat
  BY DEF TypeInv, TypeOK
<1>2. p \in [seq : Nat, view : [Key -> Value \cup {None}]]
  BY <1>1, GetType
<1>3. pins' = pins \cup {p}
  BY DEF TakeSnapshot
<1>4. TypeOK'
  BY <1>2, <1>3 DEF TakeSnapshot, files, memory, TypeInv, TypeOK
<1>5. WalHeld' /\ HolesInside' /\ Prepared'
  BY DEF TakeSnapshot, files, memory, TypeInv, WalHeld, HolesInside, Prepared
<1> QED BY <1>4, <1>5 DEF TypeInv

\* Dropping a snapshot keeps the types.
LEMMA DropSnapshotType == ASSUME TypeInv, NEW p \in pins, DropSnapshot(p) PROVE TypeInv'
<1>1. TypeOK'
  BY DEF DropSnapshot, files, memory, TypeInv, TypeOK
<1>2. WalHeld' /\ HolesInside' /\ Prepared'
  BY DEF DropSnapshot, files, memory, TypeInv, WalHeld, HolesInside, Prepared
<1> QED BY <1>1, <1>2 DEF TypeInv

\* Binding and releasing checkpoint names keeps the types.
LEMMA CheckpointType ==
    ASSUME TypeInv, NEW name \in Name, Checkpoint(name) \/ ReleaseCheckpoint(name)
    PROVE  TypeInv'
<1>1. checkpoints' \in [Name -> Manifest \cup {NoFile}]
  BY DEF Checkpoint, ReleaseCheckpoint, TypeInv, TypeOK
<1>2. UNCHANGED <<current, manifests, segfiles, wals, memory, pins, acked>>
  BY DEF Checkpoint, ReleaseCheckpoint
<1>3. TypeOK'
  BY <1>1, <1>2 DEF memory, TypeInv, TypeOK
<1>4. WalHeld' /\ HolesInside' /\ Prepared'
  BY <1>2 DEF memory, TypeInv, WalHeld, HolesInside, Prepared
<1> QED BY <1>3, <1>4 DEF TypeInv

\* What garbage collection leaves of the WALs.
LEMMA CollectedWals ==
    ASSUME TypeInv, NEW M, NEW S, NEW W \in SUBSET DeadWals, GarbageCollect(M, S, W)
    PROVE  /\ wals' \in [Start -> WalFile \cup {NoFile}]
           /\ \A s \in Start :
                 /\ wals'[s] = wals[s] \/ s \in W
                       \/ (wals[s] # NoFile /\ wals'[s] = [wals[s] EXCEPT !.named = TRUE])
                 /\ s \notin W /\ wals[s] # NoFile => wals'[s] # NoFile
           /\ HolesInside'
<1>1. wals \in [Start -> WalFile \cup {NoFile}]
  BY DEF TypeInv, TypeOK
<1>2. \A s \in Start :
         \/ s \in W /\ wals'[s] = NoFile
         \/ s \notin W /\ wals'[s] = wals[s]
         \/ s \notin W /\ wals[s] # NoFile /\ wals'[s] = [wals[s] EXCEPT !.named = TRUE]
  BY DEF GarbageCollect
<1>3. DOMAIN wals' = Start
        /\ wals' = [s \in Start |-> wals'[s]]
  BY DEF GarbageCollect
<1>4. \A s \in Start : wals[s] # NoFile => [wals[s] EXCEPT !.named = TRUE] \in WalFile
  BY <1>1, WalUpdateType
<1>5. \A s \in Start : wals'[s] \in WalFile \cup {NoFile}
  BY <1>1, <1>2, <1>4
<1>6. \A s \in Start : s \notin W /\ wals[s] # NoFile => wals'[s] # NoFile
  BY <1>1, <1>2, <1>4, NoFileAssumption
<1>7. \A s \in Start : wals'[s] # NoFile =>
         wals'[s].hole = wals[s].hole /\ wals'[s].frames = wals[s].frames /\ wals[s] # NoFile
  BY <1>1, <1>2 DEF WalFile
<1>8. HolesInside'
  BY <1>7 DEF TypeInv, HolesInside
<1> QED BY <1>2, <1>3, <1>5, <1>6, <1>8

\* Garbage collection keeps the types, and the WAL in use.
LEMMA GarbageCollectType ==
    ASSUME TypeInv, NEW M \in SUBSET DeadManifests, NEW S \in SUBSET DeadSegments,
           NEW W \in SUBSET DeadWals, GarbageCollect(M, S, W)
    PROVE  TypeInv'
<1>1. /\ wals' \in [Start -> WalFile \cup {NoFile}]
      /\ \A s \in Start : s \notin W /\ wals[s] # NoFile => wals'[s] # NoFile
      /\ HolesInside'
  BY CollectedWals
<1>2. up /\ op = Idle /\ UNCHANGED <<current, checkpoints, memory, pins, acked>>
  BY DEF GarbageCollect, Ready
<1>3. manifests' \subseteq manifests /\ segfiles' \subseteq segfiles
  BY DEF GarbageCollect
<1>4. TypeOK'
  BY <1>1, <1>2, <1>3 DEF memory, TypeInv, TypeOK
<1>5. wal \in Start /\ wal = manifest.wal_start /\ wals[wal] # NoFile
  BY <1>2 DEF TypeInv, TypeOK, WalHeld
<1>6. wal \notin W
  BY <1>5 DEF DeadWals, RetainedWals, RetainedManifests
<1>7. WalHeld'
  BY <1>1, <1>2, <1>5, <1>6 DEF memory, WalHeld
<1>8. Prepared'
  BY <1>2 DEF memory, Prepared, Idle
<1> QED BY <1>1, <1>4, <1>7, <1>8 DEF TypeInv

\* A crash keeps the types.
LEMMA CrashType == ASSUME TypeInv, Crash PROVE TypeInv'
<1>1. up /\ ~up' /\ op' = Idle /\ manifest' = current
  BY DEF Crash
<1>2. wals[wal] \in WalFile /\ wals[wal].hole <= Len(wals[wal].frames) /\ wal \in Start
        /\ wals[wal].frames \in Seq(Frame) /\ wals[wal].hole \in Nat /\ wals[wal].synced \in Nat
        /\ wals \in [Start -> WalFile \cup {NoFile}]
  BY <1>1, WalInUse DEF TypeInv, TypeOK
<1>3. PICK x \in Survivor(wals[wal]),
         gone \in SUBSET {s \in Start : wals[s] # NoFile /\ ~wals[s].named} :
            wals' = [s \in Start |-> IF s \in gone THEN NoFile
                                     ELSE IF s = wal THEN x ELSE wals[s]]
  BY DEF Crash
<1>4. x \in WalFile /\ x.hole = 0
  BY <1>2, SurvivorType
<1>5. x.frames \in Seq(Frame)
  BY <1>4 DEF WalFile
<1>6. wals' \in [Start -> WalFile \cup {NoFile}]
  BY <1>2, <1>3, <1>4
<1>7. HolesInside'
  BY <1>2, <1>3, <1>4, <1>5 DEF TypeInv, HolesInside
<1>8. 1 \in Start
  BY BoundsAssumption DEF Start
<1>9. TypeOK'
  BY <1>1, <1>6, <1>8, IdleType DEF Crash, TypeInv, TypeOK, OpType
<1>10. WalHeld' /\ Prepared'
  BY <1>1 DEF WalHeld, Prepared, Idle
<1> QED BY <1>7, <1>9, <1>10 DEF TypeInv

\* Opening keeps the types.
LEMMA OpenType == ASSUME TypeInv, Open PROVE TypeInv'
<1> DEFINE w == wals[current.wal_start]
<1>1. ~up /\ up' /\ manifest' = current /\ wal' = current.wal_start
        /\ current.wal_start \in Start /\ current.durable \in Nat /\ w # NoFile
        /\ UNCHANGED <<files, poisoned, op, pins, acked>>
  BY DEF Open, Closure, TypeInv, TypeOK, Manifest
<1>2. w \in WalFile /\ w.frames \in Seq(Frame)
  BY <1>1 DEF TypeInv, TypeOK, WalFile
<1>3. \A i \in 1..Len(w.frames) :
         w.frames[i].last \in 1..MaxSeq /\ w.frames[i].versions \in SUBSET Version
  BY <1>2, FramesType
<1>4. LastSequence(w, current.wal_start - 1) + 1 \in Start
  <2>1. CASE w.frames = <<>>
    BY <1>1, <2>1, BoundsAssumption DEF LastSequence, Start
  <2>2. CASE w.frames # <<>>
    <3>1. Len(w.frames) \in 1..Len(w.frames)
      BY <1>2, <2>2
    <3> QED BY <1>3, <2>2, <3>1, BoundsAssumption DEF LastSequence, Start
  <2> QED BY <2>1, <2>2
<1>5. LastSequence(w, current.durable) \in Nat
  <2>1. CASE w.frames = <<>>
    BY <1>1, <2>1 DEF LastSequence
  <2>2. CASE w.frames # <<>>
    <3>1. Len(w.frames) \in 1..Len(w.frames)
      BY <1>2, <2>2
    <3> QED BY <1>3, <2>2, <3>1, BoundsAssumption DEF LastSequence
  <2> QED BY <2>1, <2>2
<1>6. \A i \in 1..Len(w.frames) : w.frames[i].versions \in SUBSET Version
  BY <1>3
<1>7. FrameVersions(w, Len(w.frames)) \in SUBSET Version
  BY <1>6 DEF FrameVersions
<1>8. TypeOK'
  BY <1>1, <1>4, <1>5, <1>7 DEF Open, files, TypeInv, TypeOK
<1>9. WalHeld' /\ HolesInside'
  BY <1>1 DEF files, TypeInv, WalHeld, HolesInside
<1>10. Prepared'
  BY <1>1 DEF files, TypeInv, Prepared, Idle
<1> QED BY <1>8, <1>9, <1>10 DEF TypeInv

\* Repairing a torn tail keeps the types.
LEMMA RepairTornTailType == ASSUME TypeInv, RepairTornTail PROVE TypeInv'
<1> DEFINE s == current.wal_start
           x == [Synced(wals[s]) EXCEPT !.tail = "clean"]
<1>1. ~up /\ wals[s] # NoFile /\ wals' = [wals EXCEPT ![s] = x]
        /\ UNCHANGED <<current, manifests, segfiles, checkpoints, memory, pins, acked>>
  BY DEF RepairTornTail
<1>2. s \in Start /\ wals[s] \in WalFile /\ wals \in [Start -> WalFile \cup {NoFile}]
  BY <1>1 DEF TypeInv, TypeOK, Manifest
<1>3. x \in WalFile
  BY <1>2, WalUpdateType DEF TailState
<1>4. x.hole = wals[s].hole /\ x.frames = wals[s].frames
  BY <1>2 DEF Synced, WalFile
<1>5. wals' \in [Start -> WalFile \cup {NoFile}] /\ HolesInside'
  BY <1>1, <1>2, <1>3, <1>4 DEF TypeInv, HolesInside
<1>6. TypeOK'
  BY <1>1, <1>5 DEF memory, TypeInv, TypeOK
<1>7. WalHeld'
  BY <1>1 DEF memory, WalHeld
<1>8. Prepared'
  BY <1>1 DEF memory, TypeInv, Prepared, Idle
<1> QED BY <1>5, <1>6, <1>7, <1>8 DEF TypeInv

\* Every step keeps the types.
LEMMA NextType == ASSUME TypeInv, [Next]_vars PROVE TypeInv'
<1>1. CASE Next
  <2>1. ASSUME NEW batch \in WriteBatch, NEW authoritative \in BOOLEAN,
               Write(batch, authoritative)
        PROVE  TypeInv'
    BY <2>1, WriteType
  <2>2. ASSUME NEW batch \in WriteBatch, WriteFails(batch) PROVE TypeInv'
    BY <2>2, WriteFailsType
  <2>3. CASE FlushSyncWal(FALSE, {})
    BY <2>3, FlushSyncWalType
  <2>4. ASSUME NEW P \in SUBSET pins, FlushSyncWal(TRUE, {p.seq : p \in P}) PROVE TypeInv'
    <3>1. {p.seq : p \in P} \in SUBSET Nat
      BY DEF TypeInv, TypeOK
    <3> QED BY <2>4, <3>1, FlushSyncWalType
  <2>5. ASSUME NEW bundle \in Bundle, InstallSegments(bundle) PROVE TypeInv'
    BY <2>5, InstallSegmentsType
  <2>6. ASSUME NEW start \in Start, SuccessorInterrupted(start) PROVE TypeInv'
    BY <2>6, SuccessorInterruptedType
  <2>7. ASSUME NEW p \in pins, DropSnapshot(p) PROVE TypeInv'
    BY <2>7, DropSnapshotType
  <2>8. ASSUME NEW name \in Name, Checkpoint(name) \/ ReleaseCheckpoint(name) PROVE TypeInv'
    BY <2>8, CheckpointType
  <2>9. ASSUME NEW M \in SUBSET DeadManifests, NEW S \in SUBSET DeadSegments,
               NEW W \in SUBSET DeadWals, GarbageCollect(M, S, W)
        PROVE  TypeInv'
    BY <2>9, GarbageCollectType
  <2> QED
    BY <1>1, <2>1, <2>2, <2>3, <2>4, <2>5, <2>6, <2>7, <2>8, <2>9,
       SyncType, SyncFailsType, FlushWriteSegmentType, FlushSuccessorWalType,
       CompactMergeType, InstallSuccessorWalType, PersistManifestType, PublishPointerType,
       PublishPointerUnsyncedType, AbortType, TakeSnapshotType, CrashType, OpenType,
       RepairTornTailType
    DEF Next
<1>2. CASE UNCHANGED vars
  BY <1>2 DEF vars, TypeInv, TypeOK, WalHeld, HolesInside, Prepared
<1> QED BY <1>1, <1>2

\* Whatever the bounds and whatever storage faults happen, every variable keeps
\* the type the code declares for it; in particular no operation reaches
\* publication without a manifest, and sequence numbers stay in range.
THEOREM TypeCorrect == Spec => []TypeOK
<1>1. Spec => []TypeInv
  BY InitType, NextType, PTL DEF Spec
<1>2. TypeInv => TypeOK
  BY DEF TypeInv
<1> QED BY <1>1, <1>2, PTL

(***************************************************************************)
(* Nothing that CURRENT or a checkpoint reaches is ever missing from disk. *)
(*                                                                         *)
(* The proofs assume that syncing a new file makes its directory entry     *)
(* durable (FileSyncPersistsName); without it both statements are false.   *)
(***************************************************************************)

(***************************************************************************)
(* The inductive invariant.                                                *)
(***************************************************************************)

\* Every WAL file would be found again after a crash.
AllNamed == \A s \in Start : wals[s] # NoFile => wals[s].named

\* The open Database could reopen the manifest it holds.
HeldClosed == up => Closure(manifest)

\* What an operation is going to publish is on disk before it is published.
OpFiles ==
    /\ op.kind = "flush" /\ op.stage = "segment" => memtable \in segfiles
    /\ op.kind = "install" /\ op.stage = "segment" => op.target.segments \subseteq segfiles
    /\ op.stage \in {"ready", "persisted"} => op.target.segments \subseteq segfiles
    /\ op.stage = "persisted" => op.target \in manifests

FilesInv == AllNamed /\ HeldClosed /\ CheckpointsIntact /\ OpFiles

\* A step that removes no file.
KeepsFiles ==
    /\ manifests \subseteq manifests'
    /\ segfiles \subseteq segfiles'
    /\ \A s \in Start : wals[s] # NoFile => wals'[s] # NoFile

\* A closure survives a step that removes no file.
LEMMA ClosureKept ==
    ASSUME NEW m, m.wal_start \in Start, Closure(m), KeepsFiles
    PROVE  Closure(m)'
  BY DEF Closure, KeepsFiles

\* Pinned manifests are manifests.
LEMMA PinnedType == ASSUME TypeInv PROVE Pinned \subseteq Manifest
  BY DEF TypeInv, TypeOK, Pinned

\* The closures of all checkpoints survive a step that removes no file and binds
\* no name.
LEMMA PinnedKept ==
    ASSUME TypeInv, CheckpointsIntact, KeepsFiles, checkpoints' = checkpoints
    PROVE  CheckpointsIntact'
<1>1. Pinned' = Pinned
  BY DEF Pinned
<1>2. \A m \in Pinned : m.wal_start \in Start /\ Closure(m)
  BY PinnedType DEF CheckpointsIntact, Manifest
<1>3. \A m \in Pinned : Closure(m)'
  BY <1>2, ClosureKept
<1> QED BY <1>1, <1>3 DEF CheckpointsIntact

\* So does the closure of the manifest the Database holds.
LEMMA HeldKept ==
    ASSUME TypeInv, HeldClosed, KeepsFiles, up, manifest' = manifest
    PROVE  HeldClosed'
<1>1. manifest.wal_start \in Start /\ Closure(manifest)
  BY DEF HeldClosed, TypeInv, TypeOK, Manifest
<1>2. Closure(manifest)'
  BY <1>1 DEF Closure, KeepsFiles
<1> QED BY <1>2 DEF HeldClosed

\* Rewriting or creating one named WAL.
LEMMA WalRewritten ==
    ASSUME TypeInv, AllNamed, NEW s \in Start, NEW x \in WalFile, x.named,
           wals' = [wals EXCEPT ![s] = x]
    PROVE  AllNamed' /\ \A r \in Start : wals[r] # NoFile => wals'[r] # NoFile
<1>1. x # NoFile
  BY NoFileAssumption
<1>2. wals \in [Start -> WalFile \cup {NoFile}]
  BY DEF TypeInv, TypeOK
<1> QED BY <1>1, <1>2 DEF AllNamed

\* In the first state everything is there.
LEMMA InitFiles == ASSUME FileSyncPersistsName = TRUE PROVE Init => FilesInv
<1> SUFFICES ASSUME Init PROVE FilesInv
  OBVIOUS
<1>1. EmptyWal # NoFile /\ EmptyWal.named /\ 1 \in Start
  <2>1. EmptyWal # NoFile
    BY EmptyWalType, NoFileAssumption
  <2>2. EmptyWal.named
    BY DEF EmptyWal
  <2>3. 1 \in Start
    BY BoundsAssumption DEF Start
  <2> QED BY <2>1, <2>2, <2>3
<1>2. Pinned = {}
  BY DEF Init, Pinned
<1>3. AllNamed /\ HeldClosed
  BY <1>1 DEF Init, AllNamed, HeldClosed, Closure, FirstManifest
<1>4. CheckpointsIntact /\ OpFiles
  BY <1>2 DEF Init, CheckpointsIntact, OpFiles, Idle
<1> QED BY <1>3, <1>4 DEF FilesInv

\* Steps of an idle Database that only rewrite the WAL in use.
LEMMA IdleWalStep ==
    ASSUME TypeInv, FilesInv, Ready, NEW x \in WalFile, x.named,
           wals' = [wals EXCEPT ![wal] = x],
           UNCHANGED <<manifests, segfiles, checkpoints, up, manifest>>,
           op'.stage \notin {"segment", "ready", "persisted"}
    PROVE  FilesInv'
<1>1. up /\ wal \in Start
  BY DEF Ready, TypeInv, TypeOK
<1>2. AllNamed' /\ KeepsFiles
  BY <1>1, WalRewritten DEF FilesInv, KeepsFiles
<1>3. HeldClosed' /\ CheckpointsIntact'
  BY <1>1, <1>2, HeldKept, PinnedKept DEF FilesInv
<1>4. OpFiles'
  BY DEF OpFiles
<1> QED BY <1>2, <1>3, <1>4 DEF FilesInv

\* A write leaves the files in order.
LEMMA WriteFiles ==
    ASSUME TypeInv, FilesInv, NEW batch \in WriteBatch, NEW authoritative \in BOOLEAN,
           Write(batch, authoritative)
    PROVE  FilesInv'
<1> DEFINE w == wals[wal]
           n == IF authoritative THEN Len(w.frames) + 1 ELSE w.synced
           x == [w EXCEPT !.frames = Append(w.frames, NewFrame(batch)), !.synced = n]
<1>1. Ready /\ up /\ next \in Start /\ NewFrame(batch).last <= MaxSeq
  BY DEF Write, Ready, TypeInv, TypeOK
<1>2. NewFrame(batch) \in Frame
  BY <1>1, NewFrameType
<1>3. w \in WalFile /\ w.frames \in Seq(Frame) /\ w.synced \in Nat /\ w.named
  BY <1>1, WalInUse DEF FilesInv, AllNamed, TypeInv, WalHeld
<1>4. n \in Nat
  BY <1>3
<1>5. x \in WalFile
  BY <1>2, <1>3, <1>4, WalUpdateType
<1>6. x.named
  BY <1>3 DEF WalFile
<1>7. /\ wals' = [wals EXCEPT ![wal] = x]
      /\ UNCHANGED <<manifests, segfiles, checkpoints, up, manifest>>
      /\ op'.stage = "idle"
  BY <1>1 DEF Write, Ready, Idle
<1> QED BY <1>1, <1>5, <1>6, <1>7, IdleWalStep

\* A failed write leaves the files in order.
LEMMA WriteFailsFiles ==
    ASSUME TypeInv, FilesInv, NEW batch \in WriteBatch, WriteFails(batch)
    PROVE  FilesInv'
<1> DEFINE w == wals[wal]
<1>1. Ready /\ up /\ next \in Start /\ NewFrame(batch).last <= MaxSeq
  BY DEF WriteFails, Ready, TypeInv, TypeOK
<1>2. NewFrame(batch) \in Frame
  BY <1>1, NewFrameType
<1>3. w \in WalFile /\ w.frames \in Seq(Frame) /\ w.named /\ wal \in Start
        /\ wals \in [Start -> WalFile \cup {NoFile}]
  BY <1>1, WalInUse DEF FilesInv, AllNamed, TypeInv, TypeOK, WalHeld
<1>4. \E x \in WalFile : x.named /\ wals' = [wals EXCEPT ![wal] = x]
  <2>1. CASE wals' = [wals EXCEPT ![wal].frames = Append(w.frames, NewFrame(batch))]
    <3> DEFINE x == [w EXCEPT !.frames = Append(w.frames, NewFrame(batch))]
    <3>1. x \in WalFile /\ x.named
      BY <1>2, <1>3, WalUpdateType DEF WalFile
    <3> QED BY <2>1, <3>1
  <2>2. CASE \E t \in {"clean", "short", "cut"} : wals' = [wals EXCEPT ![wal].tail = t]
    <3>1. PICK t \in {"clean", "short", "cut"} : wals' = [wals EXCEPT ![wal].tail = t]
      BY <2>2
    <3> DEFINE x == [w EXCEPT !.tail = t]
    <3>2. x \in WalFile /\ x.named
      BY <1>3, WalUpdateType DEF TailState, WalFile
    <3> QED BY <3>1, <3>2
  <2> QED BY <2>1, <2>2 DEF WriteFails
<1>5. /\ UNCHANGED <<manifests, segfiles, checkpoints, up, manifest>>
      /\ op'.stage = "idle"
  BY <1>1 DEF WriteFails, Ready, Idle
<1> QED BY <1>1, <1>4, <1>5, IdleWalStep

\* The three operations that sync the WAL.
LEMMA SyncFiles ==
    ASSUME TypeInv, FilesInv, Ready, wals' = [wals EXCEPT ![wal] = Synced(wals[wal])],
           UNCHANGED <<manifests, segfiles, checkpoints, up, manifest>>,
           op'.stage \notin {"segment", "ready", "persisted"}
    PROVE  FilesInv'
<1>1. up
  BY DEF Ready
<1>2. wals[wal] \in WalFile /\ wals[wal].named
  BY <1>1, WalInUse DEF FilesInv, AllNamed, TypeInv, WalHeld
<1>3. Synced(wals[wal]) \in WalFile /\ Synced(wals[wal]).named
  BY <1>2, WalUpdateType DEF Synced, WalFile
<1> QED BY <1>3, IdleWalStep

\* A failed sync leaves the files in order.
LEMMA SyncFailsFiles == ASSUME TypeInv, FilesInv, SyncFails PROVE FilesInv'
<1> DEFINE w == wals[wal]
           x == [w EXCEPT !.hole = w.synced + 1]
<1>1. Ready /\ up
  BY DEF SyncFails, Ready
<1>2. w \in WalFile /\ w.synced \in Nat /\ w.named
        /\ wal \in Start /\ wals \in [Start -> WalFile \cup {NoFile}]
  BY <1>1, WalInUse DEF FilesInv, AllNamed, TypeInv, TypeOK, WalHeld
<1>3. x \in WalFile /\ x.named
  <2>1. w.synced + 1 \in Nat
    BY <1>2
  <2>2. x \in WalFile
    BY <1>2, <2>1, WalUpdateType
  <2>3. x.named
    BY <1>2 DEF WalFile
  <2> QED BY <2>2, <2>3
<1>4. /\ wals' = [wals EXCEPT ![wal] = x]
      /\ UNCHANGED <<manifests, segfiles, checkpoints, up, manifest>>
      /\ op'.stage = "idle"
  BY <1>1, <1>2 DEF SyncFails, memory, Ready, Idle
<1> QED BY <1>1, <1>3, <1>4, IdleWalStep

\* The segment of a flush is on disk before the flush goes on.
LEMMA FlushWriteSegmentFiles ==
    ASSUME TypeInv, FilesInv, FlushWriteSegment PROVE FilesInv'
<1>1. up /\ op \in OpType /\ op.kind = "flush"
        /\ op' = [op EXCEPT !.stage = "segment"]
        /\ segfiles' = segfiles \cup {memtable} /\ memtable' = memtable
        /\ UNCHANGED <<manifests, wals, checkpoints, up, manifest>>
  BY DEF FlushWriteSegment, TypeInv, TypeOK, OpType
<1>2. op'.kind = "flush" /\ op'.stage = "segment"
  BY <1>1 DEF OpType
<1>3. KeepsFiles
  BY <1>1 DEF KeepsFiles
<1>4. AllNamed'
  BY <1>1 DEF FilesInv, AllNamed
<1>5. HeldClosed' /\ CheckpointsIntact'
  BY <1>1, <1>3, HeldKept, PinnedKept DEF FilesInv
<1>6. OpFiles'
  BY <1>1, <1>2 DEF OpFiles
<1> QED BY <1>4, <1>5, <1>6 DEF FilesInv

\* Creating or reusing a successor WAL removes nothing.
LEMMA SuccessorWalFiles ==
    ASSUME FileSyncPersistsName = TRUE, TypeInv, AllNamed, NEW start \in Start,
           SuccessorWal(start)
    PROVE  AllNamed' /\ \A s \in Start : wals[s] # NoFile => wals'[s] # NoFile
<1>1. EmptyWal \in WalFile
  BY EmptyWalType
<1>2. EmptyWal.named
  BY DEF EmptyWal
<1>3. CASE wals[start] = NoFile
  <2>1. wals' = [wals EXCEPT ![start] = EmptyWal]
    BY <1>3 DEF SuccessorWal
  <2> QED BY <1>1, <1>2, <2>1, WalRewritten
<1>4. CASE wals[start] # NoFile
  <2>1. wals' = wals
    BY <1>4 DEF SuccessorWal
  <2> QED BY <2>1 DEF AllNamed
<1> QED BY <1>3, <1>4

\* What a flush publishes is complete.
LEMMA FlushSuccessorWalFiles ==
    ASSUME FileSyncPersistsName = TRUE, TypeInv, FilesInv, FlushSuccessorWal
    PROVE  FilesInv'
<1> DEFINE t == NextManifest(next - 1, next, manifest.segments \cup {memtable})
<1>1. up /\ op \in OpType /\ op.kind = "flush" /\ op.stage = "segment" /\ next \in Start
        /\ op' = [op EXCEPT !.stage = "ready", !.target = t]
        /\ UNCHANGED <<manifests, segfiles, checkpoints, up, manifest>>
        /\ SuccessorWal(next)
  BY DEF FlushSuccessorWal, TypeInv, TypeOK, OpType
<1>2. AllNamed' /\ KeepsFiles
  BY <1>1, SuccessorWalFiles DEF FilesInv, KeepsFiles
<1>3. HeldClosed' /\ CheckpointsIntact'
  BY <1>1, <1>2, HeldKept, PinnedKept DEF FilesInv
<1>4. op'.kind = "flush" /\ op'.stage = "ready" /\ op'.target = t
  BY <1>1 DEF OpType
<1>5. t.segments = manifest.segments \cup {memtable}
  BY DEF NextManifest
<1>6. manifest.segments \subseteq segfiles /\ memtable \in segfiles
  BY <1>1 DEF FilesInv, HeldClosed, Closure, OpFiles
<1>7. OpFiles'
  BY <1>1, <1>4, <1>5, <1>6 DEF OpFiles
<1> QED BY <1>2, <1>3, <1>7 DEF FilesInv

\* What a compaction publishes is complete.
LEMMA CompactMergeFiles == ASSUME TypeInv, FilesInv, CompactMerge PROVE FilesInv'
<1> DEFINE protected == {s \in op.protected : s <= manifest.durable} \cup {manifest.durable}
           kept == Retained(Contents(manifest), protected)
           output == IF kept = {} THEN {} ELSE {kept}
           t == NextManifest(manifest.durable, manifest.wal_start, output)
<1>1. up /\ op \in OpType /\ UNCHANGED <<manifests, wals, checkpoints, up, manifest>>
        /\ op.kind = "compact"
  BY DEF CompactMerge, TypeInv, TypeOK, OpType
<1>2. segfiles \subseteq segfiles' /\ OpFiles'
  <2>1. CASE manifest.segments = {}
    <3>1. op' = Idle /\ segfiles' = segfiles
      BY <2>1 DEF CompactMerge
    <3> QED BY <3>1 DEF OpFiles, Idle
  <2>2. CASE manifest.segments # {}
    <3>1. segfiles' = segfiles \cup output /\ op' = [op EXCEPT !.stage = "ready", !.target = t]
      BY <2>2 DEF CompactMerge
    <3>2. op'.kind = "compact" /\ op'.stage = "ready" /\ op'.target = t
      BY <1>1, <3>1 DEF OpType
    <3>3. t.segments = output
      BY DEF NextManifest
    <3> QED BY <3>1, <3>2, <3>3 DEF OpFiles
  <2> QED BY <2>1, <2>2
<1>3. KeepsFiles /\ AllNamed'
  BY <1>1, <1>2 DEF KeepsFiles, FilesInv, AllNamed
<1>4. HeldClosed' /\ CheckpointsIntact'
  BY <1>1, <1>3, HeldKept, PinnedKept DEF FilesInv
<1> QED BY <1>2, <1>3, <1>4 DEF FilesInv

\* The segments of a bundle are on disk before the installation goes on.
LEMMA InstallSegmentsFiles ==
    ASSUME TypeInv, FilesInv, NEW bundle \in Bundle, InstallSegments(bundle)
    PROVE  FilesInv'
<1> DEFINE t == NextManifest(bundle.sequence, bundle.sequence + 1, bundle.segments)
<1>1. up /\ op' = [Idle EXCEPT !.kind = "install", !.stage = "segment", !.target = t]
        /\ segfiles' = segfiles \cup bundle.segments
        /\ UNCHANGED <<manifests, wals, checkpoints, up, manifest>>
  BY DEF InstallSegments, Ready
<1>2. op'.kind = "install" /\ op'.stage = "segment" /\ op'.target = t
  BY <1>1 DEF Idle
<1>3. t.segments = bundle.segments
  BY DEF NextManifest
<1>4. OpFiles'
  BY <1>1, <1>2, <1>3 DEF OpFiles
<1>5. KeepsFiles /\ AllNamed'
  BY <1>1 DEF KeepsFiles, FilesInv, AllNamed
<1>6. HeldClosed' /\ CheckpointsIntact'
  BY <1>1, <1>5, HeldKept, PinnedKept DEF FilesInv
<1> QED BY <1>4, <1>5, <1>6 DEF FilesInv

\* What an installation publishes is complete.
LEMMA InstallSuccessorWalFiles ==
    ASSUME FileSyncPersistsName = TRUE, TypeInv, FilesInv, InstallSuccessorWal
    PROVE  FilesInv'
<1>1. up /\ op \in OpType /\ op.kind = "install" /\ op.stage = "segment"
        /\ op' = [op EXCEPT !.stage = "ready"] /\ SuccessorWal(op.target.wal_start)
        /\ UNCHANGED <<manifests, segfiles, checkpoints, up, manifest>>
  BY DEF InstallSuccessorWal, TypeInv, TypeOK, OpType
<1>2. op.target.wal_start \in Start
  BY <1>1 DEF TypeInv, Prepared, Manifest
<1>3. AllNamed' /\ KeepsFiles
  BY <1>1, <1>2, SuccessorWalFiles DEF FilesInv, KeepsFiles
<1>4. HeldClosed' /\ CheckpointsIntact'
  BY <1>1, <1>3, HeldKept, PinnedKept DEF FilesInv
<1>5. op'.kind = "install" /\ op'.stage = "ready" /\ op'.target = op.target
  BY <1>1 DEF OpType
<1>6. OpFiles'
  BY <1>1, <1>5 DEF FilesInv, OpFiles
<1> QED BY <1>3, <1>4, <1>6 DEF FilesInv

\* A WAL whose creation is interrupted hides no other file.
LEMMA SuccessorInterruptedFiles ==
    ASSUME FileSyncPersistsName = TRUE, TypeInv, FilesInv, NEW start \in Start,
           SuccessorInterrupted(start)
    PROVE  FilesInv'
<1> DEFINE x == [EmptyWal EXCEPT !.tail = "headerless"]
<1>1. up /\ op' = Idle /\ wals' = [wals EXCEPT ![start] = x]
        /\ UNCHANGED <<manifests, segfiles, checkpoints, up, manifest>>
  BY DEF SuccessorInterrupted
<1>2. x \in WalFile
  BY EmptyWalType, WalUpdateType DEF TailState
<1>3. x.named
  BY DEF EmptyWal
<1>4. AllNamed' /\ KeepsFiles
  BY <1>1, <1>2, <1>3, WalRewritten DEF FilesInv, KeepsFiles
<1>5. HeldClosed' /\ CheckpointsIntact'
  BY <1>1, <1>4, HeldKept, PinnedKept DEF FilesInv
<1>6. OpFiles'
  BY <1>1 DEF OpFiles, Idle
<1> QED BY <1>4, <1>5, <1>6 DEF FilesInv

\* A manifest file is written only for what is on disk.
LEMMA PersistManifestFiles == ASSUME TypeInv, FilesInv, PersistManifest PROVE FilesInv'
<1>1. up /\ op \in OpType /\ op.stage = "ready" /\ op' = [op EXCEPT !.stage = "persisted"]
        /\ manifests' = manifests \cup {op.target}
        /\ UNCHANGED <<segfiles, wals, checkpoints, up, manifest>>
  BY DEF PersistManifest, TypeInv, TypeOK, OpType
<1>2. op'.stage = "persisted" /\ op'.target = op.target
  BY <1>1 DEF OpType
<1>3. KeepsFiles /\ AllNamed'
  BY <1>1 DEF KeepsFiles, FilesInv, AllNamed
<1>4. HeldClosed' /\ CheckpointsIntact'
  BY <1>1, <1>3, HeldKept, PinnedKept DEF FilesInv
<1>5. OpFiles'
  BY <1>1, <1>2 DEF FilesInv, OpFiles
<1> QED BY <1>3, <1>4, <1>5 DEF FilesInv

\* What is published has its whole closure on disk.
LEMMA TargetClosed == ASSUME TypeInv, FilesInv, op.stage = "persisted" PROVE Closure(op.target)
  BY DEF TypeInv, Prepared, FilesInv, OpFiles, Closure

\* The Database only moves to a manifest it could reopen.
LEMMA PublishPointerFiles == ASSUME TypeInv, FilesInv, PublishPointer PROVE FilesInv'
<1>1. up /\ op \in OpType /\ op.stage = "persisted" /\ manifest' = op.target
        /\ UNCHANGED <<manifests, segfiles, wals, checkpoints, up>>
  BY DEF PublishPointer, AdoptTarget, TypeInv, TypeOK, OpType
<1>2. KeepsFiles /\ AllNamed'
  BY <1>1 DEF KeepsFiles, FilesInv, AllNamed
<1>3. HeldClosed'
  BY <1>1, TargetClosed DEF HeldClosed, Closure
<1>4. CheckpointsIntact'
  BY <1>1, <1>2, PinnedKept DEF FilesInv
<1>5. op'.stage \notin {"segment", "ready", "persisted"}
  <2>1. CASE op.kind = "flush" /\ op.compact
    <3>1. op' = [op EXCEPT !.kind = "compact", !.stage = "merge", !.target = NoFile]
      BY <2>1 DEF PublishPointer
    <3> QED BY <1>1, <3>1 DEF OpType
  <2>2. CASE ~(op.kind = "flush" /\ op.compact)
    BY <2>2 DEF PublishPointer, Idle
  <2> QED BY <2>1, <2>2
<1>6. OpFiles'
  BY <1>5 DEF OpFiles
<1> QED BY <1>2, <1>3, <1>4, <1>6 DEF FilesInv

\* Steps that change no file and leave the Database idle where it was.
LEMMA QuietFiles ==
    ASSUME TypeInv, FilesInv, up, UNCHANGED <<manifests, segfiles, wals, checkpoints, up, manifest>>,
           op' = Idle
    PROVE  FilesInv'
<1>1. KeepsFiles /\ AllNamed'
  BY DEF KeepsFiles, FilesInv, AllNamed
<1>2. HeldClosed' /\ CheckpointsIntact'
  BY <1>1, HeldKept, PinnedKept DEF FilesInv
<1>3. OpFiles'
  BY DEF OpFiles, Idle
<1> QED BY <1>1, <1>2, <1>3 DEF FilesInv

\* A name is bound only to a manifest that could be reopened.
LEMMA CheckpointFiles ==
    ASSUME TypeInv, FilesInv, NEW name \in Name, Checkpoint(name) \/ ReleaseCheckpoint(name)
    PROVE  FilesInv'
<1>1. up /\ op = Idle /\ UNCHANGED <<manifests, segfiles, wals, memory>>
  BY DEF Checkpoint, ReleaseCheckpoint, Ready
<1>2. checkpoints \in [Name -> Manifest \cup {NoFile}]
  BY DEF TypeInv, TypeOK
<1>3. \A n \in Name : checkpoints'[n] \in {checkpoints[n], manifest, NoFile}
  BY <1>2 DEF Checkpoint, ReleaseCheckpoint
<1>4. Pinned' \subseteq Pinned \cup {manifest}
  BY <1>3 DEF Pinned
<1>5. \A m \in Pinned \cup {manifest} : Closure(m)
  BY <1>1 DEF FilesInv, HeldClosed, CheckpointsIntact
<1>6. CheckpointsIntact'
  BY <1>1, <1>4, <1>5 DEF CheckpointsIntact, Closure
<1>7. AllNamed' /\ HeldClosed' /\ OpFiles'
  BY <1>1 DEF memory, FilesInv, AllNamed, HeldClosed, Closure, OpFiles, Idle
<1> QED BY <1>6, <1>7 DEF FilesInv

\* Garbage collection removes nothing from the closure of a retained manifest.
LEMMA GarbageCollectKeeps ==
    ASSUME TypeInv, NEW M \in SUBSET DeadManifests, NEW S \in SUBSET DeadSegments,
           NEW W \in SUBSET DeadWals, GarbageCollect(M, S, W),
           NEW m \in RetainedManifests, m.wal_start \in Start, Closure(m)
    PROVE  Closure(m)'
<1>1. m \in manifests'
  BY DEF GarbageCollect, Closure, DeadManifests
<1>2. m.segments \subseteq segfiles'
  BY DEF GarbageCollect, Closure, DeadSegments, RetainedSegments
<1>3. m.wal_start \notin W
  BY DEF DeadWals, RetainedWals
<1>4. wals'[m.wal_start] # NoFile
  BY <1>3, CollectedWals DEF Closure
<1> QED BY <1>1, <1>2, <1>4 DEF Closure

\* Garbage collection keeps every closure that counts.
LEMMA GarbageCollectFiles ==
    ASSUME TypeInv, FilesInv, NEW M \in SUBSET DeadManifests, NEW S \in SUBSET DeadSegments,
           NEW W \in SUBSET DeadWals, GarbageCollect(M, S, W)
    PROVE  FilesInv'
<1>1. up /\ op = Idle /\ UNCHANGED <<checkpoints, memory>>
  BY DEF GarbageCollect, Ready
<1>2. \A m \in RetainedManifests : m.wal_start \in Start /\ Closure(m)
  <2>1. manifest.wal_start \in Start /\ Closure(manifest)
    BY <1>1 DEF FilesInv, HeldClosed, TypeInv, TypeOK, Manifest
  <2>2. \A m \in Pinned : m.wal_start \in Start /\ Closure(m)
    BY PinnedType DEF FilesInv, CheckpointsIntact, Manifest
  <2> QED BY <2>1, <2>2 DEF RetainedManifests
<1>3. \A m \in RetainedManifests : Closure(m)'
  BY <1>2, GarbageCollectKeeps
<1>4. Pinned' = Pinned /\ manifest' = manifest /\ op' = op
  BY <1>1 DEF Pinned, memory
<1>5. CheckpointsIntact'
  BY <1>3, <1>4 DEF CheckpointsIntact, RetainedManifests
<1>6. HeldClosed'
  <2>1. manifest \in RetainedManifests
    BY DEF RetainedManifests
  <2>2. manifest \in manifests' /\ manifest.segments \subseteq segfiles'
          /\ wals'[manifest.wal_start] # NoFile
    BY <1>3, <2>1 DEF Closure
  <2> QED BY <1>4, <2>2 DEF HeldClosed, Closure
<1>7. AllNamed'
  <2>1. \A s \in Start : wals'[s] = wals[s] \/ wals'[s] = NoFile
                            \/ (wals[s] \in WalFile /\ wals'[s] = [wals[s] EXCEPT !.named = TRUE])
    BY DEF GarbageCollect, TypeInv, TypeOK
  <2>2. \A s \in Start : wals[s] \in WalFile => [wals[s] EXCEPT !.named = TRUE].named
    BY DEF WalFile
  <2> QED BY <2>1, <2>2 DEF FilesInv, AllNamed
<1>8. OpFiles'
  BY <1>1, <1>4 DEF OpFiles, Idle
<1> QED BY <1>5, <1>6, <1>7, <1>8 DEF FilesInv

\* A crash takes away no file.
LEMMA CrashKeeps ==
    ASSUME TypeInv, AllNamed, Crash
    PROVE  KeepsFiles /\ AllNamed'
<1>1. up /\ UNCHANGED <<manifests, segfiles>>
  BY DEF Crash
<1>2. wals[wal] \in WalFile /\ wals[wal].hole <= Len(wals[wal].frames) /\ wal \in Start
        /\ wals[wal].named /\ wals \in [Start -> WalFile \cup {NoFile}]
  BY <1>1, WalInUse DEF TypeInv, TypeOK, WalHeld, AllNamed
<1>3. PICK x \in Survivor(wals[wal]),
         gone \in SUBSET {s \in Start : wals[s] # NoFile /\ ~wals[s].named} :
            wals' = [s \in Start |-> IF s \in gone THEN NoFile
                                     ELSE IF s = wal THEN x ELSE wals[s]]
  BY DEF Crash
<1>4. gone = {}
  BY DEF AllNamed
<1>5. x \in WalFile /\ x # NoFile
  BY <1>2, SurvivorType, NoFileAssumption
<1>6. x.named
  <2>1. CASE \E n \in wals[wal].synced..Len(wals[wal].frames) :
                \E t \in TailsAfter(wals[wal], n) : x = Cut(wals[wal], n, t)
    BY <1>2, <2>1 DEF Cut, WalFile
  <2>2. CASE x = Torn(wals[wal])
    BY <1>2, <2>2 DEF Torn, Cut, WalFile
  <2> QED BY <1>2, <2>1, <2>2, SurvivorCases
<1>7. \A s \in Start : wals'[s] = IF s = wal THEN x ELSE wals[s]
  BY <1>3, <1>4
<1>8. AllNamed'
  BY <1>6, <1>7 DEF AllNamed
<1>9. KeepsFiles
  BY <1>1, <1>5, <1>7 DEF KeepsFiles
<1> QED BY <1>8, <1>9

\* A crash leaves the files in order.
LEMMA CrashFiles == ASSUME TypeInv, FilesInv, Crash PROVE FilesInv'
<1>1. ~up' /\ op' = Idle /\ checkpoints' = checkpoints
  BY DEF Crash
<1>2. KeepsFiles /\ AllNamed'
  BY CrashKeeps DEF FilesInv
<1>3. CheckpointsIntact'
  BY <1>1, <1>2, PinnedKept DEF FilesInv
<1>4. HeldClosed' /\ OpFiles'
  BY <1>1 DEF HeldClosed, OpFiles, Idle
<1> QED BY <1>2, <1>3, <1>4 DEF FilesInv

\* Database::open only opens a manifest whose closure it has read.
LEMMA OpenFiles == ASSUME TypeInv, FilesInv, Open PROVE FilesInv'
<1>1. ~up /\ Closure(current) /\ manifest' = current /\ UNCHANGED <<files, op>>
  BY DEF Open
<1>2. op = Idle
  BY <1>1 DEF TypeInv, Prepared
<1>3. KeepsFiles /\ AllNamed'
  BY <1>1 DEF files, KeepsFiles, FilesInv, AllNamed
<1>4. CheckpointsIntact'
  BY <1>1, <1>3, PinnedKept DEF files, FilesInv
<1>5. HeldClosed'
  BY <1>1 DEF files, HeldClosed, Closure
<1>6. OpFiles'
  BY <1>1, <1>2 DEF OpFiles, Idle
<1> QED BY <1>3, <1>4, <1>5, <1>6 DEF FilesInv

\* A repair takes away no file.
LEMMA RepairKeeps ==
    ASSUME TypeInv, AllNamed, RepairTornTail
    PROVE  KeepsFiles /\ AllNamed'
<1> DEFINE s == current.wal_start
           x == [Synced(wals[s]) EXCEPT !.tail = "clean"]
<1>1. wals[s] # NoFile /\ wals' = [wals EXCEPT ![s] = x] /\ UNCHANGED <<manifests, segfiles>>
  BY DEF RepairTornTail
<1>2. s \in Start /\ wals[s] \in WalFile /\ wals[s].named
  BY <1>1 DEF TypeInv, TypeOK, Manifest, AllNamed
<1>3. x \in WalFile
  BY <1>2, WalUpdateType DEF TailState
<1>4. x.named
  BY <1>2 DEF Synced, WalFile
<1>5. AllNamed' /\ \A r \in Start : wals[r] # NoFile => wals'[r] # NoFile
  BY <1>1, <1>2, <1>3, <1>4, WalRewritten
<1> QED BY <1>1, <1>5 DEF KeepsFiles

\* A repair leaves the files in order.
LEMMA RepairTornTailFiles == ASSUME TypeInv, FilesInv, RepairTornTail PROVE FilesInv'
<1>1. ~up /\ op = Idle /\ UNCHANGED <<checkpoints, memory>>
  BY DEF RepairTornTail, TypeInv, Prepared
<1>2. KeepsFiles /\ AllNamed'
  BY RepairKeeps DEF FilesInv
<1>3. CheckpointsIntact'
  BY <1>1, <1>2, PinnedKept DEF FilesInv
<1>4. HeldClosed' /\ OpFiles'
  BY <1>1 DEF memory, HeldClosed, OpFiles, Idle
<1> QED BY <1>2, <1>3, <1>4 DEF FilesInv

\* Every step leaves the files in order.
LEMMA NextFiles ==
    ASSUME FileSyncPersistsName = TRUE, TypeInv, FilesInv, [Next]_vars
    PROVE  FilesInv'
<1>1. CASE Next
  <2>1. ASSUME NEW batch \in WriteBatch, NEW authoritative \in BOOLEAN,
               Write(batch, authoritative)
        PROVE  FilesInv'
    BY <2>1, WriteFiles
  <2>2. ASSUME NEW batch \in WriteBatch, WriteFails(batch) PROVE FilesInv'
    BY <2>2, WriteFailsFiles
  <2>3. CASE Sync
    <3>1. Ready /\ op' = Idle /\ wals' = [wals EXCEPT ![wal] = Synced(wals[wal])]
            /\ UNCHANGED <<manifests, segfiles, checkpoints, up, manifest>>
      BY <2>3 DEF Sync, memory, Ready
    <3>2. op'.stage = "idle"
      BY <3>1 DEF Idle
    <3> QED BY <3>1, <3>2, SyncFiles
  <2>4. ASSUME NEW compact \in BOOLEAN, NEW protected, FlushSyncWal(compact, protected)
        PROVE  FilesInv'
    <3>1. Ready /\ wals' = [wals EXCEPT ![wal] = Synced(wals[wal])]
            /\ UNCHANGED <<manifests, segfiles, checkpoints, up, manifest>>
      BY <2>4 DEF FlushSyncWal
    <3>2. op'.stage \in {"synced", "merge", "idle"}
      <4>1. CASE memtable # {}
        BY <2>4, <4>1 DEF FlushSyncWal
      <4>2. CASE memtable = {} /\ compact
        BY <2>4, <4>2 DEF FlushSyncWal
      <4>3. CASE memtable = {} /\ ~compact
        BY <2>4, <4>3 DEF FlushSyncWal, Idle
      <4> QED BY <4>1, <4>2, <4>3
    <3> QED BY <3>1, <3>2, SyncFiles
  <2>5. ASSUME NEW bundle \in Bundle, InstallSegments(bundle) PROVE FilesInv'
    BY <2>5, InstallSegmentsFiles
  <2>6. ASSUME NEW start \in Start, SuccessorInterrupted(start) PROVE FilesInv'
    BY <2>6, SuccessorInterruptedFiles
  <2>7. ASSUME NEW name \in Name, Checkpoint(name) \/ ReleaseCheckpoint(name) PROVE FilesInv'
    BY <2>7, CheckpointFiles
  <2>8. ASSUME NEW M \in SUBSET DeadManifests, NEW S \in SUBSET DeadSegments,
               NEW W \in SUBSET DeadWals, GarbageCollect(M, S, W)
        PROVE  FilesInv'
    BY <2>8, GarbageCollectFiles
  <2>9. CASE PublishPointerUnsynced \/ Abort
    <3>1. up /\ op' = Idle /\ UNCHANGED <<manifests, segfiles, wals, checkpoints, up, manifest>>
      BY <2>9 DEF PublishPointerUnsynced, Abort, files
    <3> QED BY <3>1, QuietFiles
  <2>10. ASSUME TakeSnapshot \/ \E p \in pins : DropSnapshot(p) PROVE FilesInv'
    <3>1. UNCHANGED <<files, memory>>
      BY <2>10 DEF TakeSnapshot, DropSnapshot
    <3> QED BY <3>1 DEF files, memory, FilesInv, AllNamed, HeldClosed, CheckpointsIntact,
                        Pinned, Closure, OpFiles
  <2> QED
    BY <1>1, <2>1, <2>2, <2>3, <2>4, <2>5, <2>6, <2>7, <2>8, <2>9, <2>10,
       SyncFailsFiles, FlushWriteSegmentFiles, FlushSuccessorWalFiles, CompactMergeFiles,
       InstallSuccessorWalFiles, PersistManifestFiles, PublishPointerFiles, CrashFiles,
       OpenFiles, RepairTornTailFiles
    DEF Next
<1>2. CASE UNCHANGED vars
  BY <1>2 DEF vars, FilesInv, AllNamed, HeldClosed, CheckpointsIntact, Pinned, Closure, OpFiles
<1> QED BY <1>1, <1>2

\* Garbage collection, crashes and failed operations of any kind never take away
\* a manifest, a segment or a WAL that a named checkpoint reaches.
THEOREM CheckpointsSafe ==
    ASSUME FileSyncPersistsName = TRUE
    PROVE  Spec => []CheckpointsIntact
<1>1. Spec => [](TypeInv /\ FilesInv)
  BY InitType, NextType, InitFiles, NextFiles, PTL DEF Spec
<1>2. FilesInv => CheckpointsIntact
  BY DEF FilesInv
<1> QED BY <1>1, <1>2, PTL

(***************************************************************************)
(* CURRENT.  When the directory sync after its rename cannot fail, the     *)
(* Database always holds the manifest CURRENT names.                       *)
(***************************************************************************)

CurrentInv == manifest = current /\ Closure(current)

\* In the first state CURRENT can be opened.
LEMMA InitCurrent == ASSUME FileSyncPersistsName = TRUE PROVE Init => CurrentInv
<1> SUFFICES ASSUME Init PROVE CurrentInv
  OBVIOUS
<1>1. FilesInv
  BY InitFiles
<1> QED BY <1>1 DEF Init, FilesInv, HeldClosed, CurrentInv

\* Every step leaves CURRENT at a manifest that can be opened.
LEMMA NextCurrent ==
    ASSUME FileSyncPersistsName = TRUE, "dirsync" \notin Faults,
           TypeInv, FilesInv, FilesInv', CurrentInv, [Next]_vars
    PROVE  CurrentInv'
<1>1. CASE PublishPointer
  <2>1. current' = op.target /\ manifest' = op.target /\ up'
    BY <1>1 DEF PublishPointer, AdoptTarget
  <2> QED BY <2>1 DEF FilesInv, HeldClosed, CurrentInv
<1>2. CASE PublishPointerUnsynced
  BY <1>2 DEF PublishPointerUnsynced
<1>3. CASE Crash
  <2>1. KeepsFiles
    BY <1>3, CrashKeeps DEF FilesInv
  <2>2. current' = current /\ manifest' = current /\ current.wal_start \in Start
    BY <1>3 DEF Crash, TypeInv, TypeOK, Manifest
  <2> QED BY <2>1, <2>2 DEF CurrentInv, Closure, KeepsFiles
<1>4. CASE Open
  BY <1>4 DEF Open, files, CurrentInv, Closure
<1>5. CASE RepairTornTail
  <2>1. KeepsFiles
    BY <1>5, RepairKeeps DEF FilesInv
  <2>2. current' = current /\ manifest' = manifest /\ current.wal_start \in Start
    BY <1>5 DEF RepairTornTail, memory, TypeInv, TypeOK, Manifest
  <2> QED BY <2>1, <2>2 DEF CurrentInv, Closure, KeepsFiles
<1>6. CASE UNCHANGED vars
  BY <1>6 DEF vars, CurrentInv, Closure
<1>7. ASSUME Next, ~PublishPointer, ~PublishPointerUnsynced, ~Crash, ~Open, ~RepairTornTail
      PROVE  CurrentInv'
  <2> DEFINE Stays == up' /\ UNCHANGED <<current, manifest>>
  <2>2. ASSUME NEW batch \in WriteBatch, NEW authoritative \in BOOLEAN,
               Write(batch, authoritative) \/ WriteFails(batch)
        PROVE  Stays
    <3>1. up /\ UNCHANGED <<current, up, manifest>>
      BY <2>2 DEF Write, WriteFails, Ready
    <3> QED BY <3>1
  <2>3. Sync \/ SyncFails => Stays
    BY DEF Sync, SyncFails, Ready, memory
  <2>4. \A compact, protected : FlushSyncWal(compact, protected) => Stays
    BY DEF FlushSyncWal, Ready
  <2>5. FlushWriteSegment \/ FlushSuccessorWal \/ CompactMerge => Stays
    BY DEF FlushWriteSegment, FlushSuccessorWal, CompactMerge
  <2>6. \A bundle \in Bundle : InstallSegments(bundle) => Stays
    BY DEF InstallSegments, Ready
  <2>11. InstallSuccessorWal => Stays
    BY DEF InstallSuccessorWal
  <2>12. \A start \in Start : SuccessorInterrupted(start) => Stays
    BY DEF SuccessorInterrupted
  <2>7. PersistManifest \/ Abort => Stays
    BY DEF PersistManifest, Abort, files
  <2>8. TakeSnapshot \/ (\E p \in pins : DropSnapshot(p)) => Stays
    BY DEF TakeSnapshot, DropSnapshot, Ready, files, memory
  <2>9. \A name \in Name : Checkpoint(name) \/ ReleaseCheckpoint(name) => Stays
    BY DEF Checkpoint, ReleaseCheckpoint, Ready, memory
  <2>10. \A M, S, W : GarbageCollect(M, S, W) => Stays
    BY DEF GarbageCollect, Ready, memory
  <2>1. up' /\ UNCHANGED <<current, manifest>>
    BY <1>7, <2>2, <2>3, <2>4, <2>5, <2>6, <2>7, <2>8, <2>9, <2>10, <2>11, <2>12
    DEF Next
  <2> QED BY <2>1 DEF FilesInv, HeldClosed, CurrentInv
<1> QED BY <1>1, <1>2, <1>3, <1>4, <1>5, <1>6, <1>7

\* "Publication order makes either the old or new manifest fully recoverable at
\* every crash boundary": at every moment, inside every flush, compaction,
\* installation and collection, the closure of CURRENT is on disk.
THEOREM AlwaysRecoverable ==
    ASSUME FileSyncPersistsName = TRUE, "dirsync" \notin Faults
    PROVE  Spec => []Recoverable
<1>1. Spec => [](TypeInv /\ FilesInv)
  BY InitType, NextType, InitFiles, NextFiles, PTL DEF Spec
<1>2. Spec => []CurrentInv
  BY <1>1, InitCurrent, NextCurrent, PTL DEF Spec
<1>3. CurrentInv => Recoverable
  BY DEF CurrentInv, Recoverable
<1> QED BY <1>2, <1>3, PTL

-----------------------------------------------------------------------------
(***************************************************************************)
(* What the database answers, for any storage faults.  Snapshots stay      *)
(* stable and point reads agree with scans, because the memtable holds     *)
(* only what is newer than every segment and a compaction keeps the newest *)
(* version at every protected sequence.  A Database that missed a          *)
(* publication publishes nothing more.  As long as no file creation is     *)
(* interrupted, a flush is never refused over what an earlier one left.    *)
(***************************************************************************)

(***************************************************************************)
(* Logs.                                                                   *)
(***************************************************************************)

\* The last sequence of the log that no crash takes away.
DurableThrough(w, base) == IF w.synced = 0 THEN base ELSE w.frames[w.synced].last

\* Sequence numbers never fall along a log, nor below its base.
OrderedLog(fs, base) ==
    \A i \in 1..Len(fs) :
        /\ base <= fs[i].last
        /\ \A j \in i..Len(fs) : fs[i].last <= fs[j].last

\* The last sequence of a log is at least its base and every sequence in it.
LEMMA LastIsLargest ==
    ASSUME NEW w \in WalFile, NEW base \in Nat, OrderedLog(w.frames, base)
    PROVE  /\ LastSequence(w, base) \in Nat
           /\ base <= LastSequence(w, base)
           /\ \A i \in 1..Len(w.frames) : w.frames[i].last <= LastSequence(w, base)
<1>1. w.frames \in Seq(Frame)
  BY DEF WalFile
<1>2. CASE w.frames = <<>>
  <2>1. Len(w.frames) = 0
    BY <1>2
  <2> QED BY <1>2, <2>1 DEF LastSequence
<1>3. CASE w.frames # <<>>
  <2>1. Len(w.frames) \in 1..Len(w.frames) /\ Len(w.frames) \in Nat
    BY <1>1, <1>3
  <2>2. \A i \in 1..Len(w.frames) : Len(w.frames) \in i..Len(w.frames)
    BY <2>1
  <2>3. LastSequence(w, base) = w.frames[Len(w.frames)].last
    BY <1>3 DEF LastSequence
  <2>4. w.frames[Len(w.frames)].last \in Nat
    BY <1>1, <2>1, FramesType, BoundsAssumption
  <2> QED BY <2>1, <2>2, <2>3, <2>4 DEF OrderedLog
<1> QED BY <1>2, <1>3

\* What is durable is in the log.
LEMMA DurableInLog ==
    ASSUME NEW w \in WalFile, NEW base \in Nat, OrderedLog(w.frames, base),
           w.synced <= Len(w.frames)
    PROVE  /\ DurableThrough(w, base) \in Nat
           /\ base <= DurableThrough(w, base)
           /\ DurableThrough(w, base) <= LastSequence(w, base)
<1>1. w.frames \in Seq(Frame) /\ w.synced \in Nat
  BY DEF WalFile
<1>2. CASE w.synced = 0
  BY <1>2, LastIsLargest DEF DurableThrough
<1>3. CASE w.synced # 0
  <2>1. w.synced \in 1..Len(w.frames)
    BY <1>1, <1>3
  <2>2. w.frames[w.synced].last \in Nat
    BY <1>1, <2>1, FramesType, BoundsAssumption
  <2> QED BY <1>3, <2>1, <2>2, LastIsLargest DEF DurableThrough, OrderedLog
<1> QED BY <1>2, <1>3

\* A log stays ordered when a frame with a later sequence is appended.
LEMMA OrderedAppend ==
    ASSUME NEW w \in WalFile, NEW base \in Nat, OrderedLog(w.frames, base),
           NEW f \in Frame, LastSequence(w, base) <= f.last
    PROVE  OrderedLog(Append(w.frames, f), base)
<1> DEFINE fs == w.frames
           gs == Append(fs, f)
<1>1. fs \in Seq(Frame) /\ Len(fs) \in Nat /\ f.last \in Nat
  BY BoundsAssumption DEF WalFile, Frame
<1>2. /\ gs \in Seq(Frame)
      /\ Len(gs) = Len(fs) + 1
      /\ gs[Len(fs) + 1] = f
      /\ \A i \in 1..Len(fs) : gs[i] = fs[i]
  BY <1>1
<1>3. \A i \in 1..Len(fs) : fs[i].last <= f.last /\ fs[i].last \in Nat
  <2>1. \A i \in 1..Len(fs) : fs[i].last \in Nat
    BY <1>1, FramesType, BoundsAssumption
  <2> QED BY <1>1, <2>1, LastIsLargest
<1>4. base <= f.last
  BY <1>1, LastIsLargest
<1>5. ASSUME NEW i \in 1..Len(gs)
      PROVE  base <= gs[i].last /\ \A j \in i..Len(gs) : gs[i].last <= gs[j].last
  <2>1. CASE i = Len(fs) + 1
    BY <1>1, <1>2, <1>4, <2>1
  <2>2. CASE i # Len(fs) + 1
    <3>1. i \in 1..Len(fs)
      BY <1>1, <1>2, <2>2
    <3>2. ASSUME NEW j \in i..Len(gs) PROVE gs[i].last <= gs[j].last
      <4>1. CASE j = Len(fs) + 1
        BY <1>2, <1>3, <3>1, <4>1
      <4>2. CASE j # Len(fs) + 1
        <5>1. j \in i..Len(fs) /\ j \in 1..Len(fs)
          BY <1>1, <1>2, <3>1, <4>2
        <5> QED BY <1>2, <3>1, <5>1 DEF OrderedLog
      <4> QED BY <4>1, <4>2
    <3> QED BY <1>2, <3>1, <3>2 DEF OrderedLog
  <2> QED BY <2>1, <2>2
<1> QED BY <1>5 DEF OrderedLog

\* A prefix of an ordered log is ordered.
LEMMA OrderedPrefix ==
    ASSUME NEW fs \in Seq(Frame), NEW base, OrderedLog(fs, base), NEW n \in 0..Len(fs)
    PROVE  OrderedLog(SubSeq(fs, 1, n), base)
<1>1. /\ Len(SubSeq(fs, 1, n)) = n
      /\ \A i \in 1..n : SubSeq(fs, 1, n)[i] = fs[i]
  OBVIOUS
<1>2. \A i \in 1..n : i \in 1..Len(fs) /\ \A j \in i..n : j \in i..Len(fs) /\ j \in 1..n
  OBVIOUS
<1> QED BY <1>1, <1>2 DEF OrderedLog

\* Replaying one more frame adds its versions.
LEMMA FrameVersionsAppend ==
    ASSUME NEW w \in WalFile, NEW f \in Frame, NEW x \in WalFile, x.frames = Append(w.frames, f)
    PROVE  FrameVersions(x, Len(x.frames)) = FrameVersions(w, Len(w.frames)) \cup f.versions
<1>1. w.frames \in Seq(Frame) /\ Len(w.frames) \in Nat
  BY DEF WalFile
<1>2. /\ Len(x.frames) = Len(w.frames) + 1
      /\ x.frames[Len(w.frames) + 1] = f
      /\ \A i \in 1..Len(w.frames) : x.frames[i] = w.frames[i]
  BY <1>1
<1>3. 1..(Len(w.frames) + 1) = (1..Len(w.frames)) \cup {Len(w.frames) + 1}
  BY <1>1
<1>4. ASSUME NEW v PROVE v \in FrameVersions(x, Len(x.frames))
                           <=> v \in FrameVersions(w, Len(w.frames)) \cup f.versions
  BY <1>1, <1>2, <1>3 DEF FrameVersions
<1> QED BY <1>4

(***************************************************************************)
(* Reads.                                                                  *)
(***************************************************************************)

\* A set of natural numbers has a least element.
LEMMA Least ==
    ASSUME NEW T \in SUBSET Nat, T # {}
    PROVE  \E x \in T : \A y \in T : x <= y
<1> DEFINE R == {ss \in Nat \X Nat : ss[1] < ss[2]}
<1>1. IsWellFoundedOn(R, Nat)
  BY NatLessThanWellFounded DEF OpToRel
<1> HIDE DEF R
<1>2. PICK x \in T : \A y \in T : ~(<<y, x>> \in R)
  BY <1>1, WFMin
<1>3. ASSUME NEW y \in T
      PROVE  x <= y
  <2>1. <<y, x>> \notin R
    BY <1>2
  <2>2. y \in Nat /\ x \in Nat
    OBVIOUS
  <2> QED BY <2>1, <2>2 DEF R
<1> QED BY <1>3

\* A read depends on nothing but the newest versions of its key.
LEMMA ReadSame ==
    ASSUME NEW vs, NEW us, NEW k, NEW s, NEW r,
           \A v : (v \in vs /\ v.key = k /\ Visible(vs, v, s))
                     <=> (v \in us /\ v.key = k /\ Visible(us, v, r))
    PROVE  ReadAt(vs, k, s) = ReadAt(us, k, r)
<1>1. (CHOOSE v \in vs : v.key = k /\ Visible(vs, v, s))
        = (CHOOSE v \in us : v.key = k /\ Visible(us, v, r))
  OBVIOUS
<1>2. (\E v \in vs : v.key = k /\ Visible(vs, v, s))
        <=> (\E v \in us : v.key = k /\ Visible(us, v, r))
  OBVIOUS
<1> QED BY <1>1, <1>2 DEF ReadAt

\* Above any version that a read may see there is a newest one.
LEMMA NewestExists ==
    ASSUME NEW vs \in SUBSET Version, NEW s \in Nat, NEW u \in vs, u.seq <= s
    PROVE  \E v \in vs : v.key = u.key /\ u.seq <= v.seq /\ Visible(vs, v, s)
<1> DEFINE C == {v \in vs : v.key = u.key /\ v.seq <= s}
           T == {s - v.seq : v \in C}
<1>1. \A v \in vs : v.seq \in Nat
  BY DEF Version
<1>2. T \in SUBSET Nat /\ T # {}
  <2>1. \A v \in C : s - v.seq \in Nat
    BY <1>1
  <2>2. u \in C
    OBVIOUS
  <2> QED BY <2>1, <2>2
<1> HIDE DEF T
<1>3. PICK x \in T : \A y \in T : x <= y
  BY <1>2, Least
<1>4. PICK v \in C : x = s - v.seq
  BY DEF T
<1>5. ASSUME NEW w \in C
      PROVE  w.seq <= v.seq
  <2>1. s - w.seq \in T
    BY DEF T
  <2>2. s - v.seq <= s - w.seq
    BY <1>3, <1>4, <2>1
  <2> QED BY <1>1, <2>2
<1>6. Visible(vs, v, s)
  BY <1>5 DEF Visible
<1> QED BY <1>5, <1>6

\* A version in the memtable hides every version in the segments, which are older.
LEMMA MemtableWins ==
    ASSUME NEW ms \in SUBSET Version, NEW vs \in SUBSET Version, NEW d \in Nat,
           \A v \in vs : v.seq <= d, \A v \in ms : d < v.seq, NEW k, NEW s \in Nat
    PROVE  ReadAt(ms \cup vs, k, s)
             = IF HasVersion(ms, k, s) THEN ReadAt(ms, k, s) ELSE ReadAt(vs, k, s)
<1> DEFINE all == ms \cup vs
<1>1. \A v \in all : v.seq \in Nat
  BY DEF Version
<1>0. \A v : v \in all <=> v \in ms \/ v \in vs
  OBVIOUS
<1> HIDE DEF all
<1>2. CASE HasVersion(ms, k, s)
  <2>1. PICK w \in ms : w.key = k /\ w.seq <= s
    BY <1>2 DEF HasVersion
  <2>2. \A v \in vs : v.seq < w.seq
    BY <1>0, <1>1
  <2>3. ASSUME NEW v, v \in all, v.key = k, Visible(all, v, s)
        PROVE  v \in ms /\ Visible(ms, v, s)
    <3>1. w.seq <= v.seq
      BY <1>0, <2>1, <2>3 DEF Visible
    <3>2. v \in ms
      BY <1>0, <1>1, <2>2, <2>3, <3>1
    <3> QED BY <1>0, <2>3, <3>2 DEF Visible
  <2>4. ASSUME NEW v, v \in ms, v.key = k, Visible(ms, v, s)
        PROVE  Visible(all, v, s)
    <3>1. w.seq <= v.seq
      BY <2>1, <2>4 DEF Visible
    <3>2. \A u \in vs : u.seq <= v.seq
      BY <1>0, <1>1, <2>2, <2>4, <3>1
    <3> QED BY <1>0, <2>4, <3>2 DEF Visible
  <2>5. ReadAt(all, k, s) = ReadAt(ms, k, s)
    BY <1>0, <2>3, <2>4, ReadSame
  <2> QED BY <1>2, <2>5 DEF all
<1>3. CASE ~HasVersion(ms, k, s)
  <2>1. \A v \in ms : v.key = k => ~(v.seq <= s)
    BY <1>3 DEF HasVersion
  <2>2. ASSUME NEW v, v.key = k
        PROVE  (v \in all /\ Visible(all, v, s)) <=> (v \in vs /\ Visible(vs, v, s))
    BY <1>0, <2>1, <2>2 DEF Visible
  <2>3. ReadAt(all, k, s) = ReadAt(vs, k, s)
    BY <2>2, ReadSame
  <2> QED BY <1>3, <2>3 DEF all
<1> QED BY <1>2, <1>3

\* A read does not see what is written after its sequence.
LEMMA LaterUnseen ==
    ASSUME NEW vs \in SUBSET Version, NEW us \in SUBSET Version, NEW s \in Nat,
           \A v \in us : s < v.seq, NEW k
    PROVE  /\ ReadAt(vs \cup us, k, s) = ReadAt(vs, k, s)
           /\ HasVersion(vs \cup us, k, s) <=> HasVersion(vs, k, s)
<1> DEFINE all == vs \cup us
<1>1. \A v \in us : ~(v.seq <= s)
  BY DEF Version
<1>2. \A v : (v \in all /\ v.key = k /\ Visible(all, v, s))
                <=> (v \in vs /\ v.key = k /\ Visible(vs, v, s))
  BY <1>1 DEF Visible
<1> HIDE DEF all
<1>3. ReadAt(all, k, s) = ReadAt(vs, k, s)
  BY <1>2, ReadSame
<1> QED BY <1>1, <1>3 DEF HasVersion, all

\* Above the newest version all reads are alike.
LEMMA ReadBeyond ==
    ASSUME NEW vs \in SUBSET Version, NEW d \in Nat, \A v \in vs : v.seq <= d,
           NEW s \in Nat, d <= s, NEW k
    PROVE  ReadAt(vs, k, s) = ReadAt(vs, k, d)
<1>1. \A v \in vs : v.seq <= s /\ v.seq <= d
  BY DEF Version
<1>2. \A v : (v \in vs /\ v.key = k /\ Visible(vs, v, s))
                <=> (v \in vs /\ v.key = k /\ Visible(vs, v, d))
  BY <1>1 DEF Visible
<1> QED BY <1>2, ReadSame

\* A compaction changes no read at a sequence it protects: the newest version stays,
\* and only keys that are tombstones at every protected sequence go.
LEMMA RetainedReads ==
    ASSUME NEW vs \in SUBSET Version, NEW P \in SUBSET Nat, NEW s \in P, NEW k
    PROVE  ReadAt(Retained(vs, P), k, s) = ReadAt(vs, k, s)
<1> DEFINE selected == {v \in vs : \E r \in P : Visible(vs, v, r)}
           rs == Retained(vs, P)
<1>1. rs = {v \in selected : \E w \in selected : w.key = v.key /\ w.value # None}
  BY DEF Retained
<1>2. \A v \in vs : Visible(vs, v, s) => v \in selected
  OBVIOUS
<1>3. rs \subseteq selected /\ selected \subseteq vs /\ \A v \in vs : v.seq \in Nat
  BY <1>1 DEF Version
<1> HIDE DEF selected, rs
<1>4. CASE \E w \in selected : w.key = k /\ w.value # None
  <2>1. \A v \in selected : v.key = k => v \in rs
    BY <1>1, <1>4
  <2>2. ASSUME NEW v, v \in vs, v.key = k, Visible(vs, v, s)
        PROVE  v \in rs /\ Visible(rs, v, s)
    BY <1>2, <1>3, <2>1, <2>2 DEF Visible
  <2>3. ASSUME NEW v, v \in rs, v.key = k, Visible(rs, v, s)
        PROVE  v \in vs /\ Visible(vs, v, s)
    <3>1. v \in vs /\ v.seq <= s
      BY <1>3, <2>3 DEF Visible
    <3>2. ASSUME NEW u \in vs, u.key = k, u.seq <= s
          PROVE  u.seq <= v.seq
      <4>1. PICK m \in vs : m.key = k /\ u.seq <= m.seq /\ Visible(vs, m, s)
        BY <3>2, NewestExists
      <4>2. m \in rs /\ m.seq <= s
        BY <1>2, <2>1, <4>1 DEF Visible
      <4>3. m.seq <= v.seq
        BY <2>3, <4>1, <4>2 DEF Visible
      <4> QED BY <1>3, <3>1, <4>1, <4>3
    <3> QED BY <2>3, <3>1, <3>2 DEF Visible
  <2> QED BY <2>2, <2>3, ReadSame DEF rs
<1>5. CASE \A w \in selected : w.key = k => w.value = None
  <2>1. ReadAt(rs, k, s) = None
    <3>1. \A v \in rs : v.key # k
      BY <1>1, <1>5
    <3> QED BY <3>1 DEF ReadAt
  <2>2. ReadAt(vs, k, s) = None
    <3>1. CASE \E v \in vs : v.key = k /\ Visible(vs, v, s)
      <4> DEFINE c == CHOOSE v \in vs : v.key = k /\ Visible(vs, v, s)
      <4>1. c \in vs /\ c.key = k /\ Visible(vs, c, s)
        BY <3>1
      <4>2. c.value = None
        BY <1>2, <1>5, <4>1
      <4> QED BY <3>1, <4>2 DEF ReadAt
    <3>2. CASE ~ \E v \in vs : v.key = k /\ Visible(vs, v, s)
      BY <3>2 DEF ReadAt
    <3> QED BY <3>1, <3>2
  <2> QED BY <2>1, <2>2 DEF rs
<1> QED BY <1>4, <1>5

(***************************************************************************)
(* The invariant about what is read, for any faults.                       *)
(***************************************************************************)

\* A manifest's log starts where its segments end.
Made(m) == m.wal_start = m.durable + 1 /\ \A v \in Contents(m) : v.seq <= m.durable

\* Every frame holds versions, between the log's base and the frame's last sequence.
LogOK(fs, base) ==
    /\ OrderedLog(fs, base)
    /\ \A i \in 1..Len(fs) :
          /\ fs[i].versions # {}
          /\ \A v \in fs[i].versions : base < v.seq /\ v.seq <= fs[i].last

LogsOK == \A s \in Start : wals[s] # NoFile => LogOK(wals[s].frames, s - 1)

\* The memtable is newer than the segments; a snapshot is never ahead of the writer.
DatabaseOK ==
    up => /\ next = head + 1 /\ manifest.durable <= head
          /\ \A v \in memtable : manifest.durable < v.seq /\ v.seq <= head
          /\ \A p \in pins : p.seq <= head
          /\ ~poisoned => \A i \in 1..Len(wals[wal].frames) : wals[wal].frames[i].last <= head

\* The sequences a compaction protects.
Protected == {s \in op.protected : s <= manifest.durable} \cup {manifest.durable}

\* What an operation is about to publish: its first log is empty, and its segments hold
\* the memtable, a bundle, or what the compaction retains.
Follows(t) == Made(t) /\ t.generation = manifest.generation + 1
FlushOK ==
    op.kind = "flush" =>
        /\ memtable # {} /\ ~poisoned
        /\ op.stage \in {"ready", "persisted"} =>
              op.target.durable = head /\ op.target.segments = manifest.segments \cup {memtable}
CompactOK ==
    op.kind = "compact" =>
        /\ memtable = {} /\ op.stage # "segment"
        /\ op.stage \in {"ready", "persisted"} =>
              /\ op.target.durable = manifest.durable
              /\ Contents(op.target) = Retained(Contents(manifest), Protected)
InstallOK ==
    op.kind = "install" =>
        /\ Follows(op.target) /\ head < op.target.durable
        /\ \E b \in Bundle : op.target.durable = b.sequence /\ op.target.segments = b.segments
TargetOK ==
    /\ FlushOK /\ CompactOK /\ InstallOK
    /\ op.kind = "idle" => op.stage = "idle"
    /\ op.stage \in {"ready", "persisted"} =>
          /\ Follows(op.target)
          /\ op.kind # "compact" => wals[op.target.wal_start].frames = <<>>
    /\ op.stage = "persisted" => current = manifest

PinsOK ==
    /\ ~up => pins = {}
    /\ \A p \in pins : \A k \in Key : Get(k, p.seq) = p.view[k]

ReadInv == Made(current) /\ Made(manifest) /\ LogsOK /\ DatabaseOK /\ TargetOK /\ PinsOK

\* Unless a creation is interrupted, the logs beyond the one in use are empty.
EmptyBeyond ==
    /\ manifest.wal_start <= current.wal_start
    /\ \A s \in Start : s > manifest.wal_start /\ wals[s] # NoFile =>
          wals[s].frames = <<>> /\ wals[s].tail = "clean"

\* The types the arithmetic below needs.
LEMMA ReadTypes ==
    ASSUME TypeInv
    PROVE  /\ head \in Nat /\ next \in Start /\ wal \in Start /\ Start \subseteq Nat
           /\ memtable \in SUBSET Version /\ \A v \in memtable : v.seq \in Nat
           /\ manifest \in Manifest /\ manifest.durable \in Nat /\ manifest.wal_start \in Start
           /\ manifest.generation \in Nat
           /\ Contents(manifest) \in SUBSET Version /\ \A v \in Contents(manifest) : v.seq \in Nat
           /\ current \in Manifest /\ current.durable \in Nat /\ current.wal_start \in Start
           /\ Contents(current) \in SUBSET Version
           /\ \A p \in pins : p.seq \in Nat
           /\ wals \in [Start -> WalFile \cup {NoFile}]
           /\ up => wal = manifest.wal_start /\ wals[wal] \in WalFile
           /\ op \in OpType
<1>1. \A m \in Manifest : Contents(m) \in SUBSET Version /\ m.durable \in Nat
                          /\ m.wal_start \in Start /\ m.generation \in Nat
  BY DEF Manifest, Contents
<1>2. \A v \in Version : v.seq \in Nat
  BY DEF Version
<1>3. Start \subseteq Nat
  BY BoundsAssumption DEF Start
<1>4. \A p \in pins : p.seq \in Nat
  BY DEF TypeInv, TypeOK
<1> QED BY <1>1, <1>2, <1>3, <1>4 DEF TypeInv, TypeOK, WalHeld, OpType

\* An empty log is in order.
LEMMA EmptyLogOK == ASSUME NEW base PROVE LogOK(<<>>, base)
  BY DEF LogOK, OrderedLog

\* A prefix of a log in order is in order.
LEMMA LogPrefix ==
    ASSUME NEW fs \in Seq(Frame), NEW base, LogOK(fs, base), NEW n \in 0..Len(fs)
    PROVE  LogOK(SubSeq(fs, 1, n), base)
<1>1. OrderedLog(SubSeq(fs, 1, n), base)
  BY OrderedPrefix DEF LogOK
<1>2. /\ Len(SubSeq(fs, 1, n)) = n
      /\ \A i \in 1..n : i \in 1..Len(fs) /\ SubSeq(fs, 1, n)[i] = fs[i]
  OBVIOUS
<1> QED BY <1>1, <1>2 DEF LogOK

\* The frame of a batch is newer than the log, the memtable and the segments.
LEMMA NewFrameOK ==
    ASSUME TypeInv, ReadInv, up, ~poisoned, NEW batch \in WriteBatch,
           NewFrame(batch).last <= MaxSeq
    PROVE  LET f == NewFrame(batch)
           IN  /\ f \in Frame /\ f.last \in Nat /\ f.versions \in SUBSET Version
               /\ f.last + 1 \in Start /\ head < f.last
               /\ \A v \in f.versions : head < v.seq /\ v.seq <= f.last
               /\ LogOK(Append(wals[wal].frames, f), wal - 1)
<1> DEFINE f == NewFrame(batch)
           w == wals[wal]
           fs == w.frames
           gs == Append(fs, f)
<1>1. /\ head \in Nat /\ next \in Start /\ next = head + 1 /\ w \in WalFile /\ fs \in Seq(Frame)
      /\ wal = manifest.durable + 1 /\ manifest.durable \in Nat /\ manifest.durable <= head
      /\ \A i \in 1..Len(fs) : fs[i].last <= head
      /\ LogOK(fs, wal - 1) /\ Len(fs) \in Nat /\ wal - 1 \in Nat
  BY ReadTypes, NoFileAssumption DEF ReadInv, DatabaseOK, LogsOK, Made, WalFile
<1>2. f \in Frame /\ f.last + 1 \in Start /\ f.versions \in SUBSET Version /\ f.last >= next
  BY <1>1, NewFrameType
<1>3. f.last \in Nat /\ head < f.last
  BY <1>1, <1>2, BoundsAssumption DEF Frame
<1>4. /\ f.versions # {}
      /\ \A v \in f.versions : head < v.seq /\ v.seq <= f.last
  <2>1. f.versions = BatchVersions(batch, next) /\ f.last = next + Len(batch) - 1
    BY DEF NewFrame
  <2>2. Len(batch) \in Nat \ {0} /\ DOMAIN batch = 1..Len(batch)
    BY BatchIsSeq
  <2>3. ASSUME NEW i \in DOMAIN batch
        PROVE  head < next + i - 1 /\ next + i - 1 <= f.last
    BY <1>1, <2>1, <2>2
  <2>4. \A v \in BatchVersions(batch, next) : head < v.seq /\ v.seq <= f.last
    BY <2>3 DEF BatchVersions
  <2>5. 1 \in DOMAIN batch
    BY <2>2
  <2>6. BatchVersions(batch, next) # {}
    BY <2>5 DEF BatchVersions
  <2> QED BY <2>1, <2>4, <2>6
<1>5. LastSequence(w, wal - 1) <= f.last
  <2>1. CASE fs = <<>>
    BY <1>1, <1>3, <2>1 DEF LastSequence
  <2>2. CASE fs # <<>>
    <3>1. Len(fs) \in 1..Len(fs)
      BY <1>1, <2>2
    <3>2. fs[Len(fs)].last \in 1..MaxSeq
      BY <1>1, <3>1, FramesType
    <3>3. LastSequence(w, wal - 1) = fs[Len(fs)].last /\ fs[Len(fs)].last <= head
      BY <1>1, <2>2, <3>1 DEF LastSequence
    <3> QED BY <1>1, <1>3, <3>2, <3>3, BoundsAssumption
  <2> QED BY <2>1, <2>2
<1>6. OrderedLog(gs, wal - 1)
  BY <1>1, <1>2, <1>5, OrderedAppend DEF LogOK
<1>7. /\ Len(gs) = Len(fs) + 1 /\ gs[Len(fs) + 1] = f
      /\ \A i \in 1..Len(fs) : gs[i] = fs[i]
  BY <1>1, <1>2
<1> HIDE DEF f, w, fs, gs
<1>8. ASSUME NEW i \in 1..Len(gs)
      PROVE  /\ gs[i].versions # {}
             /\ \A v \in gs[i].versions : wal - 1 < v.seq /\ v.seq <= gs[i].last
  <2>1. CASE i = Len(fs) + 1
    <3>1. \A v \in f.versions : v.seq \in Nat
      BY <1>2 DEF Version
    <3>2. gs[i] = f /\ wal - 1 <= head
      BY <1>1, <1>7, <2>1
    <3>3. \A v \in f.versions : wal - 1 < v.seq
      BY <1>1, <1>4, <3>1, <3>2
    <3> QED BY <1>4, <3>2, <3>3
  <2>2. CASE i # Len(fs) + 1
    <3>1. i \in 1..Len(fs)
      BY <1>1, <1>7, <2>2
    <3>2. gs[i] = fs[i]
      BY <1>7, <3>1
    <3> QED BY <1>1, <3>1, <3>2 DEF LogOK
  <2> QED BY <2>1, <2>2
<1>9. LogOK(gs, wal - 1)
  BY <1>6, <1>8 DEF LogOK
<1> QED BY <1>2, <1>3, <1>4, <1>9 DEF f, w, fs, gs

\* Rewriting one log.
LEMMA LogsRewrite ==
    ASSUME TypeInv, LogsOK, NEW s \in Start, NEW x, LogOK(x.frames, s - 1),
           wals' = [wals EXCEPT ![s] = x]
    PROVE  LogsOK'
<1>1. \A r \in Start : wals'[r] = IF r = s THEN x ELSE wals[r]
  BY ReadTypes
<1> QED BY <1>1 DEF LogsOK

\* Steps that keep the frames of every log, create empty ones and remove some.
LEMMA LogsKept ==
    ASSUME LogsOK,
           \A s \in Start : \/ wals'[s] = NoFile
                            \/ wals'[s].frames = <<>>
                            \/ wals[s] # NoFile /\ wals'[s].frames = wals[s].frames
    PROVE  LogsOK'
  BY EmptyLogOK DEF LogsOK

\* Steps that leave the Database and the frames of its log alone.
LEMMA DatabaseKept ==
    ASSUME ReadInv, up => wals'[wal].frames = wals[wal].frames,
           UNCHANGED <<up, manifest, wal, next, poisoned, memtable, head, pins>>
    PROVE  Made(manifest)' /\ DatabaseOK' /\ PinsOK'
<1>1. Made(manifest)'
  BY DEF ReadInv, Made, Contents
<1>2. DatabaseOK'
  BY DEF ReadInv, DatabaseOK
<1>3. \A k, s : Get(k, s)' = Get(k, s)
  BY DEF Get
<1>4. PinsOK'
  BY <1>3 DEF ReadInv, PinsOK
<1> QED BY <1>1, <1>2, <1>4

\* When no operation is in progress nothing is about to be published.
LEMMA IdleTarget == ASSUME op' = Idle PROVE TargetOK'
  BY DEF TargetOK, FlushOK, CompactOK, InstallOK, Idle

\* Steps that leave an operation, and what it works on, alone.
LEMMA TargetKept ==
    ASSUME ReadInv, UNCHANGED <<op, current, manifest, memtable, head, poisoned>>,
           op.stage \in {"ready", "persisted"} => wals'[op.target.wal_start] = wals[op.target.wal_start]
    PROVE  TargetOK'
  BY DEF ReadInv, TargetOK, FlushOK, CompactOK, InstallOK, Follows, Made, Contents, Protected

\* The first state is in order.
LEMMA InitRead == ASSUME Init PROVE ReadInv
<1>1. FirstManifest.durable = 0 /\ FirstManifest.wal_start = 1 /\ Contents(FirstManifest) = {}
  BY DEF FirstManifest, Contents
<1>2. Made(current) /\ Made(manifest)
  BY <1>1 DEF Init, Made
<1>3. EmptyWal.frames = <<>>
  BY DEF EmptyWal
<1>4. LogsOK
  <2>1. \A s \in Start : wals[s] # NoFile => wals[s].frames = <<>>
    BY <1>3 DEF Init
  <2> QED BY <2>1, EmptyLogOK DEF LogsOK
<1>5. DatabaseOK
  <2>1. wals[wal].frames = <<>>
    BY <1>3, BoundsAssumption DEF Init, Start
  <2> QED BY <1>1, <2>1 DEF Init, DatabaseOK
<1>6. TargetOK
  BY DEF Init, TargetOK, FlushOK, CompactOK, InstallOK, Idle
<1>7. PinsOK
  BY DEF Init, PinsOK
<1> QED BY <1>2, <1>4, <1>5, <1>6, <1>7 DEF ReadInv

\* A write is newer than every snapshot, so none of them sees it.
LEMMA WriteRead ==
    ASSUME TypeInv, ReadInv, NEW batch \in WriteBatch, NEW authoritative \in BOOLEAN,
           Write(batch, authoritative)
    PROVE  ReadInv'
<1> DEFINE f == NewFrame(batch)
           w == wals[wal]
           x == [w EXCEPT !.frames = Append(w.frames, f),
                          !.synced = IF authoritative THEN Len(w.frames) + 1 ELSE w.synced]
<1>1. /\ up /\ ~poisoned /\ op = Idle /\ f.last <= MaxSeq
      /\ wals' = [wals EXCEPT ![wal] = x]
      /\ next' = f.last + 1 /\ memtable' = memtable \cup f.versions /\ head' = f.last
      /\ UNCHANGED <<current, manifest, up, poisoned, op, wal, pins>>
  BY DEF Write, Ready
<1>2. /\ f \in Frame /\ f.last \in Nat /\ f.versions \in SUBSET Version /\ head < f.last
      /\ \A v \in f.versions : head < v.seq /\ v.seq <= f.last /\ v.seq \in Nat
      /\ LogOK(Append(w.frames, f), wal - 1)
  <2>1. \A v \in Version : v.seq \in Nat
    BY DEF Version
  <2> QED BY <1>1, <2>1, NewFrameOK
<1>3. /\ head \in Nat /\ wal \in Start /\ w \in WalFile /\ w.frames \in Seq(Frame)
      /\ x.frames = Append(w.frames, f) /\ wals'[wal] = x
  BY <1>1, ReadTypes DEF WalFile
<1>4. LogsOK'
  <2>1. LogOK(x.frames, wal - 1)
    BY <1>2, <1>3
  <2> QED BY <1>1, <1>3, <2>1, LogsRewrite DEF ReadInv
<1>5. Made(current)' /\ Made(manifest)'
  BY <1>1 DEF ReadInv, Made, Contents
<1>6. /\ manifest.durable <= head /\ manifest.durable \in Nat
      /\ \A v \in memtable : manifest.durable < v.seq /\ v.seq <= head /\ v.seq \in Nat
      /\ \A p \in pins : p.seq <= head /\ p.seq \in Nat
      /\ \A i \in 1..Len(w.frames) : w.frames[i].last <= head
  BY <1>1, ReadTypes DEF ReadInv, DatabaseOK
<1>7. DatabaseOK'
  <2>1. next' = head' + 1 /\ manifest'.durable <= head'
    BY <1>1, <1>2, <1>3, <1>6
  <2>2. \A v \in memtable' : manifest'.durable < v.seq /\ v.seq <= head'
    BY <1>1, <1>2, <1>3, <1>6
  <2>3. \A p \in pins' : p.seq <= head'
    BY <1>1, <1>2, <1>3, <1>6
  <2>4. ASSUME NEW i \in 1..Len(wals'[wal'].frames)
        PROVE  wals'[wal'].frames[i].last <= head'
    <3>1. wals'[wal'].frames = Append(w.frames, f)
      BY <1>1, <1>3
    <3>2. CASE i = Len(w.frames) + 1
      BY <1>1, <1>2, <1>3, <3>1, <3>2
    <3>3. CASE i # Len(w.frames) + 1
      <4>1. i \in 1..Len(w.frames) /\ wals'[wal'].frames[i] = w.frames[i]
        BY <1>2, <1>3, <3>1, <3>3
      <4>2. w.frames[i].last \in 1..MaxSeq
        BY <1>3, <4>1, FramesType
      <4> QED BY <1>1, <1>2, <1>3, <1>6, <4>1, <4>2, BoundsAssumption
    <3> QED BY <3>2, <3>3
  <2> QED BY <2>1, <2>2, <2>3, <2>4 DEF DatabaseOK
<1>8. PinsOK'
  <2>1. ASSUME NEW p \in pins, NEW k \in Key PROVE Get(k, p.seq)' = Get(k, p.seq)
    <3>1. p.seq \in Nat /\ \A v \in f.versions : p.seq < v.seq
      BY <1>2, <1>3, <1>6
    <3>2. /\ ReadAt(memtable \cup f.versions, k, p.seq) = ReadAt(memtable, k, p.seq)
          /\ HasVersion(memtable \cup f.versions, k, p.seq) <=> HasVersion(memtable, k, p.seq)
      BY <1>2, <3>1, LaterUnseen, ReadTypes
    <3> QED BY <1>1, <3>2 DEF Get
  <2> QED BY <1>1, <2>1 DEF ReadInv, PinsOK
<1>9. TargetOK'
  BY <1>1, IdleTarget
<1> QED BY <1>4, <1>5, <1>7, <1>8, <1>9 DEF ReadInv

\* A failed write poisons the writer: memory stays behind the log until a restart.
LEMMA WriteFailsRead ==
    ASSUME TypeInv, ReadInv, NEW batch \in WriteBatch, WriteFails(batch)
    PROVE  ReadInv'
<1> DEFINE f == NewFrame(batch)
           w == wals[wal]
<1>1. /\ up /\ ~poisoned /\ op = Idle /\ f.last <= MaxSeq /\ poisoned'
      /\ UNCHANGED <<current, manifest, up, next, memtable, head, op, wal, pins>>
  BY DEF WriteFails, Ready
<1>2. LogOK(Append(w.frames, f), wal - 1)
  BY <1>1, NewFrameOK
<1>3. w \in WalFile /\ w # NoFile /\ wal \in Start
  BY <1>1, ReadTypes, NoFileAssumption
<1>4. LogsOK'
  <2>1. CASE wals' = [wals EXCEPT ![wal].frames = Append(w.frames, f)]
    <3> DEFINE x == [w EXCEPT !.frames = Append(w.frames, f)]
    <3>1. x.frames = Append(w.frames, f)
      BY <1>3 DEF WalFile
    <3>2. LogOK(x.frames, wal - 1) /\ wals' = [wals EXCEPT ![wal] = x]
      BY <1>2, <2>1, <3>1
    <3> QED BY <1>3, <3>2, LogsRewrite DEF ReadInv
  <2>2. CASE \E t \in {"clean", "short", "cut"} : wals' = [wals EXCEPT ![wal].tail = t]
    <3>1. PICK t \in {"clean", "short", "cut"} : wals' = [wals EXCEPT ![wal].tail = t]
      BY <2>2
    <3> DEFINE x == [w EXCEPT !.tail = t]
    <3>2. x.frames = w.frames /\ wals' = [wals EXCEPT ![wal] = x]
      BY <1>3, <3>1 DEF WalFile
    <3>3. LogOK(x.frames, wal - 1)
      BY <1>3, <3>2 DEF ReadInv, LogsOK
    <3> QED BY <1>3, <3>2, <3>3, LogsRewrite DEF ReadInv
  <2> QED BY <2>1, <2>2 DEF WriteFails
<1>5. Made(current)' /\ Made(manifest)'
  BY <1>1 DEF ReadInv, Made, Contents
<1>6. DatabaseOK'
  BY <1>1 DEF ReadInv, DatabaseOK
<1>7. PinsOK'
  <2>1. \A k, s : Get(k, s)' = Get(k, s)
    BY <1>1 DEF Get
  <2> QED BY <1>1, <2>1 DEF ReadInv, PinsOK
<1>8. TargetOK'
  BY <1>1, IdleTarget
<1> QED BY <1>4, <1>5, <1>6, <1>7, <1>8 DEF ReadInv

\* Steps that leave the Database alone, keep the frames of its log and lose or create
\* no frame elsewhere.
LEMMA MemoryKept ==
    ASSUME ReadInv,
           \A s \in Start : \/ wals'[s] = NoFile
                            \/ wals'[s].frames = <<>>
                            \/ wals[s] # NoFile /\ wals'[s].frames = wals[s].frames,
           up => wals'[wal].frames = wals[wal].frames,
           UNCHANGED <<current, up, manifest, wal, next, poisoned, memtable, head, pins>>,
           TargetOK'
    PROVE  ReadInv'
<1>1. LogsOK'
  BY LogsKept DEF ReadInv
<1>2. Made(current)'
  BY DEF ReadInv, Made, Contents
<1> QED BY <1>1, <1>2, DatabaseKept DEF ReadInv

\* The steps that rewrite one log and keep its frames.
LEMMA SameFrames ==
    ASSUME TypeInv, ReadInv, NEW s \in Start, wals[s] # NoFile, NEW x,
           x.frames = wals[s].frames, wals' = [wals EXCEPT ![s] = x],
           UNCHANGED <<current, up, manifest, wal, next, poisoned, memtable, head, pins>>,
           TargetOK'
    PROVE  ReadInv'
<1>1. \A r \in Start : wals'[r] = IF r = s THEN x ELSE wals[r]
  BY ReadTypes
<1>2. \A r \in Start : \/ wals'[r] = NoFile
                       \/ wals[r] # NoFile /\ wals'[r].frames = wals[r].frames
  BY <1>1
<1>3. wals'[wal].frames = wals[wal].frames
  BY <1>1, ReadTypes
<1> QED BY <1>2, <1>3, MemoryKept

\* Neither a sync nor a failed one changes a frame.
LEMMA SyncRead == ASSUME TypeInv, ReadInv, Sync \/ SyncFails PROVE ReadInv'
<1>1. /\ up /\ op = Idle
      /\ UNCHANGED <<current, up, manifest, wal, next, poisoned, memtable, head, pins, op>>
  BY DEF Sync, SyncFails, Ready, memory
<1>2. wals[wal] \in WalFile /\ wals[wal] # NoFile /\ wal \in Start
  BY <1>1, ReadTypes, NoFileAssumption
<1>3. \E x : x.frames = wals[wal].frames /\ wals' = [wals EXCEPT ![wal] = x]
  <2>1. CASE Sync
    <3>1. Synced(wals[wal]).frames = wals[wal].frames
      BY <1>2 DEF Synced, WalFile
    <3> QED BY <2>1, <3>1 DEF Sync
  <2>2. CASE SyncFails
    <3> DEFINE x == [wals[wal] EXCEPT !.hole = wals[wal].synced + 1]
    <3>1. x.frames = wals[wal].frames
      BY <1>2 DEF WalFile
    <3>2. wals' = [wals EXCEPT ![wal] = x]
      BY <2>2 DEF SyncFails
    <3> QED BY <3>1, <3>2
  <2> QED BY <2>1, <2>2
<1>4. TargetOK'
  BY <1>1, IdleTarget
<1> QED BY <1>1, <1>2, <1>3, <1>4, SameFrames

\* A flush begins with what is in the memtable, a compaction with an empty one.
LEMMA FlushSyncWalRead ==
    ASSUME TypeInv, ReadInv, NEW compact \in BOOLEAN, NEW protected,
           FlushSyncWal(compact, protected)
    PROVE  ReadInv'
<1>1. /\ up /\ ~poisoned /\ wals' = [wals EXCEPT ![wal] = Synced(wals[wal])]
      /\ UNCHANGED <<current, up, manifest, wal, next, poisoned, memtable, head, pins>>
  BY DEF FlushSyncWal, Ready
<1>2. wals[wal] \in WalFile /\ wals[wal] # NoFile /\ wal \in Start
  BY <1>1, ReadTypes, NoFileAssumption
<1>3. Synced(wals[wal]).frames = wals[wal].frames
  BY <1>2 DEF Synced, WalFile
<1>4. TargetOK'
  <2>1. CASE memtable # {}
    <3>1. op'.kind = "flush" /\ op'.stage = "synced"
      BY <2>1 DEF FlushSyncWal
    <3> QED BY <1>1, <2>1, <3>1 DEF TargetOK, FlushOK, CompactOK, InstallOK
  <2>2. CASE memtable = {} /\ compact
    <3>1. op'.kind = "compact" /\ op'.stage = "merge"
      BY <2>2 DEF FlushSyncWal
    <3> QED BY <1>1, <2>2, <3>1 DEF TargetOK, FlushOK, CompactOK, InstallOK
  <2>3. CASE memtable = {} /\ ~compact
    <3>1. op' = Idle
      BY <2>3 DEF FlushSyncWal
    <3> QED BY <3>1, IdleTarget
  <2> QED BY <2>1, <2>2, <2>3
<1> QED BY <1>1, <1>2, <1>3, <1>4, SameFrames

\* Steps that change an operation only.
LEMMA LogsUntouched ==
    ASSUME ReadInv, UNCHANGED <<wals, current, up, manifest, wal, next, poisoned, memtable, head, pins>>,
           TargetOK'
    PROVE  ReadInv'
<1>1. \A s \in Start : wals'[s] = NoFile \/ (wals[s] # NoFile /\ wals'[s].frames = wals[s].frames)
  OBVIOUS
<1>2. wals'[wal].frames = wals[wal].frames
  OBVIOUS
<1> QED BY <1>1, <1>2, MemoryKept

\* The segment of a flush is not read before it is published.
LEMMA FlushWriteSegmentRead == ASSUME TypeInv, ReadInv, FlushWriteSegment PROVE ReadInv'
<1>1. /\ UNCHANGED <<wals, current, up, manifest, wal, next, poisoned, memtable, head, pins>>
      /\ op \in OpType /\ op.kind = "flush" /\ op' = [op EXCEPT !.stage = "segment"]
  BY ReadTypes DEF FlushWriteSegment
<1>2. op'.kind = "flush" /\ op'.stage = "segment"
  BY <1>1 DEF OpType
<1>3. TargetOK'
  BY <1>1, <1>2 DEF ReadInv, TargetOK, FlushOK, CompactOK, InstallOK
<1> QED BY <1>1, <1>3, LogsUntouched

\* A successor is empty and not the log in use.
LEMMA SuccessorRead ==
    ASSUME TypeInv, up, NEW start \in Start, SuccessorWal(start)
    PROVE  /\ \A s \in Start : \/ wals'[s] = NoFile
                               \/ wals'[s].frames = <<>>
                               \/ wals[s] # NoFile /\ wals'[s].frames = wals[s].frames
           /\ wals'[wal].frames = wals[wal].frames
           /\ wals'[start].frames = <<>>
<1>1. wals \in [Start -> WalFile \cup {NoFile}] /\ wal \in Start /\ wals[wal] # NoFile
  BY ReadTypes, NoFileAssumption
<1>2. EmptyWal.frames = <<>>
  BY DEF EmptyWal
<1>3. CASE wals[start] = NoFile
  <2>1. wals' = [wals EXCEPT ![start] = EmptyWal]
    BY <1>3 DEF SuccessorWal
  <2> QED BY <1>1, <1>2, <1>3, <2>1
<1>4. CASE wals[start] # NoFile
  <2>1. wals' = wals /\ wals[start].frames = <<>>
    BY <1>4 DEF SuccessorWal, SuccessorUsable
  <2> QED BY <2>1
<1> QED BY <1>3, <1>4

\* The manifest of a flush holds the memtable as one more segment.
LEMMA FlushSuccessorWalRead == ASSUME TypeInv, ReadInv, FlushSuccessorWal PROVE ReadInv'
<1> DEFINE t == NextManifest(next - 1, next, manifest.segments \cup {memtable})
<1>1. /\ up /\ op \in OpType /\ op.kind = "flush" /\ SuccessorWal(next) /\ next \in Start
      /\ op' = [op EXCEPT !.stage = "ready", !.target = t]
      /\ UNCHANGED <<current, up, manifest, wal, next, poisoned, memtable, head, pins>>
  BY ReadTypes DEF FlushSuccessorWal
<1>2. op'.kind = "flush" /\ op'.stage = "ready" /\ op'.target = t
  BY <1>1 DEF OpType
<1>3. /\ t.wal_start = next /\ t.durable = next - 1 /\ t.generation = manifest.generation + 1
      /\ t.segments = manifest.segments \cup {memtable}
  BY DEF NextManifest
<1>4. /\ next = head + 1 /\ head \in Nat /\ manifest.durable \in Nat /\ manifest.durable <= head
      /\ \A v \in memtable : v.seq <= head /\ v.seq \in Nat
      /\ \A v \in Contents(manifest) : v.seq <= manifest.durable /\ v.seq \in Nat
      /\ memtable # {} /\ ~poisoned
  BY <1>1, ReadTypes DEF ReadInv, DatabaseOK, Made, TargetOK, FlushOK
<1>5. Contents(t) = Contents(manifest) \cup memtable
  BY <1>3 DEF Contents
<1>6. Made(t)
  <2>1. \A v \in Contents(t) : v.seq <= head
    BY <1>4, <1>5
  <2>2. t.durable = head /\ t.wal_start = head + 1
    BY <1>3, <1>4
  <2> QED BY <2>1, <2>2 DEF Made
<1>7. wals'[next].frames = <<>>
  BY <1>1, SuccessorRead
<1>8. Follows(op.target)'
  BY <1>1, <1>2, <1>3, <1>6 DEF Follows, Made, Contents
<1>9. TargetOK'
  <2>1. FlushOK'
    BY <1>1, <1>2, <1>3, <1>4 DEF FlushOK
  <2>2. CompactOK' /\ InstallOK' /\ (op.kind = "idle" => op.stage = "idle")'
    BY <1>2 DEF CompactOK, InstallOK
  <2> QED BY <1>2, <1>3, <1>7, <1>8, <2>1, <2>2 DEF TargetOK
<1> QED BY <1>1, <1>9, SuccessorRead, MemoryKept

\* The manifest of a compaction holds what is retained.
LEMMA CompactMergeRead == ASSUME TypeInv, ReadInv, CompactMerge PROVE ReadInv'
<1> DEFINE kept == Retained(Contents(manifest), Protected)
           output == IF kept = {} THEN {} ELSE {kept}
           t == NextManifest(manifest.durable, manifest.wal_start, output)
<1>1. /\ UNCHANGED <<wals, current, up, manifest, wal, next, poisoned, memtable, head, pins>>
      /\ op \in OpType /\ op.kind = "compact" /\ memtable = {}
  BY ReadTypes DEF CompactMerge, ReadInv, TargetOK, CompactOK
<1>2. CASE manifest.segments = {}
  <2>1. op' = Idle
    BY <1>2 DEF CompactMerge
  <2> QED BY <1>1, <2>1, IdleTarget, LogsUntouched
<1>3. CASE manifest.segments # {}
  <2>1. op' = [op EXCEPT !.stage = "ready", !.target = t]
    BY <1>3 DEF CompactMerge, Protected
  <2>2. /\ op'.kind = "compact" /\ op'.stage = "ready" /\ op'.target = t
        /\ op'.protected = op.protected
    BY <1>1, <2>1 DEF OpType
  <2>3. /\ t.wal_start = manifest.wal_start /\ t.durable = manifest.durable
        /\ t.generation = manifest.generation + 1 /\ t.segments = output
    BY DEF NextManifest
  <2>4. Contents(t) = kept
    BY <2>3 DEF Contents
  <2>5. kept \subseteq Contents(manifest)
    BY DEF Retained
  <2>6. Made(t)
    BY <2>3, <2>4, <2>5 DEF ReadInv, Made
  <2>7. Follows(op.target)'
    BY <1>1, <2>2, <2>3, <2>6 DEF Follows, Made, Contents
  <2>8. Contents(op.target)' = Retained(Contents(manifest), Protected)'
    BY <1>1, <2>2, <2>4 DEF Protected, Contents
  <2>9. TargetOK'
    BY <1>1, <2>2, <2>3, <2>7, <2>8 DEF TargetOK, FlushOK, CompactOK, InstallOK
  <2> QED BY <1>1, <2>9, LogsUntouched
<1> QED BY <1>2, <1>3

\* The manifest of an installation holds the bundle, which is ahead of the writer.
LEMMA InstallSegmentsRead ==
    ASSUME TypeInv, ReadInv, NEW bundle \in Bundle, InstallSegments(bundle)
    PROVE  ReadInv'
<1> DEFINE t == NextManifest(bundle.sequence, bundle.sequence + 1, bundle.segments)
<1>1. /\ UNCHANGED <<wals, current, up, manifest, wal, next, poisoned, memtable, head, pins>>
      /\ bundle.sequence > head
      /\ op' = [Idle EXCEPT !.kind = "install", !.stage = "segment", !.target = t]
  BY DEF InstallSegments
<1>2. op'.kind = "install" /\ op'.stage = "segment" /\ op'.target = t
  BY <1>1 DEF Idle
<1>3. /\ t.wal_start = t.durable + 1 /\ t.durable = bundle.sequence
      /\ t.generation = manifest.generation + 1 /\ t.segments = bundle.segments
  BY DEF NextManifest
<1>4. \A v \in Contents(t) : v.seq <= t.durable
  BY <1>3, BundleAssumption DEF Contents
<1>5. Follows(op.target)'
  BY <1>1, <1>2, <1>3, <1>4 DEF Follows, Made, Contents
<1>6. head < t.durable
  BY <1>1, <1>3, ReadTypes, BundleAssumption
<1>7. TargetOK'
  BY <1>1, <1>2, <1>3, <1>5, <1>6 DEF TargetOK, FlushOK, CompactOK, InstallOK
<1> QED BY <1>1, <1>7, LogsUntouched

\* An installation gets an empty log to start.
LEMMA InstallSuccessorWalRead == ASSUME TypeInv, ReadInv, InstallSuccessorWal PROVE ReadInv'
<1>1. /\ up /\ op \in OpType /\ op.kind = "install" /\ op.stage = "segment"
      /\ SuccessorWal(op.target.wal_start) /\ op' = [op EXCEPT !.stage = "ready"]
      /\ UNCHANGED <<current, up, manifest, wal, next, poisoned, memtable, head, pins>>
  BY ReadTypes DEF InstallSuccessorWal
<1>2. op'.kind = "install" /\ op'.stage = "ready" /\ op'.target = op.target
  BY <1>1 DEF OpType
<1>3. op.target.wal_start \in Start
  BY <1>1 DEF TypeInv, Prepared, Manifest
<1>4. wals'[op.target.wal_start].frames = <<>>
  BY <1>1, <1>3, SuccessorRead
<1>5. /\ Follows(op.target) /\ head < op.target.durable
      /\ \E b \in Bundle : op.target.durable = b.sequence /\ op.target.segments = b.segments
  BY <1>1 DEF ReadInv, TargetOK, InstallOK
<1>6. Follows(op.target)'
  BY <1>1, <1>2, <1>5 DEF Follows, Made, Contents
<1>7. TargetOK'
  BY <1>1, <1>2, <1>4, <1>5, <1>6 DEF TargetOK, FlushOK, CompactOK, InstallOK
<1> QED BY <1>1, <1>3, <1>7, SuccessorRead, MemoryKept

\* A log without a header is not the one in use.
LEMMA SuccessorInterruptedRead ==
    ASSUME TypeInv, ReadInv, NEW start \in Start, SuccessorInterrupted(start)
    PROVE  ReadInv'
<1> DEFINE x == [EmptyWal EXCEPT !.tail = "headerless"]
<1>1. /\ up /\ wals[start] = NoFile /\ wals' = [wals EXCEPT ![start] = x] /\ op' = Idle
      /\ UNCHANGED <<current, up, manifest, wal, next, poisoned, memtable, head, pins>>
  BY DEF SuccessorInterrupted
<1>2. x.frames = <<>>
  BY DEF EmptyWal
<1>3. wals \in [Start -> WalFile \cup {NoFile}] /\ wal \in Start /\ wals[wal] # NoFile
  BY <1>1, ReadTypes, NoFileAssumption
<1>4. \A s \in Start : \/ wals'[s] = NoFile
                       \/ wals'[s].frames = <<>>
                       \/ wals[s] # NoFile /\ wals'[s].frames = wals[s].frames
  BY <1>1, <1>2, <1>3
<1>5. wals'[wal].frames = wals[wal].frames
  BY <1>1, <1>3
<1> QED BY <1>1, <1>4, <1>5, IdleTarget, MemoryKept

\* Only a Database whose manifest is CURRENT gets as far as publication.
LEMMA PersistManifestRead == ASSUME TypeInv, ReadInv, PersistManifest PROVE ReadInv'
<1>1. /\ UNCHANGED <<wals, current, up, manifest, wal, next, poisoned, memtable, head, pins>>
      /\ op \in OpType /\ op.stage = "ready" /\ current = manifest
      /\ op' = [op EXCEPT !.stage = "persisted"]
  BY ReadTypes DEF PersistManifest
<1>2. /\ op'.kind = op.kind /\ op'.target = op.target /\ op'.stage = "persisted"
      /\ op'.protected = op.protected
  BY <1>1 DEF OpType
<1>3. Follows(op.target)' <=> Follows(op.target)
  BY <1>1, <1>2 DEF Follows, Made, Contents
<1>4. Protected' = Protected /\ Contents(op.target)' = Contents(op.target)
      /\ Contents(manifest)' = Contents(manifest)
  BY <1>1, <1>2 DEF Protected, Contents
<1>5. TargetOK'
  BY <1>1, <1>2, <1>3, <1>4 DEF ReadInv, TargetOK, FlushOK, CompactOK, InstallOK
<1> QED BY <1>1, <1>5, LogsUntouched

\* What a point read answers after the memtable has become a segment.
LEMMA GetIsRead ==
    ASSUME TypeInv, ReadInv, up, NEW k, NEW s \in Nat
    PROVE  Get(k, s) = ReadAt(memtable \cup Contents(manifest), k, s)
<1>1. /\ \A v \in memtable : manifest.durable < v.seq
      /\ \A v \in Contents(manifest) : v.seq <= manifest.durable
  BY DEF ReadInv, DatabaseOK, Made
<1>2. ReadAt(memtable \cup Contents(manifest), k, s)
        = IF HasVersion(memtable, k, s) THEN ReadAt(memtable, k, s)
                                        ELSE ReadAt(Contents(manifest), k, s)
  BY <1>1, ReadTypes, MemtableWins
<1> QED BY <1>2 DEF Get

\* Publication: a flush moves the memtable under the segments, a compaction keeps what the
\* protected snapshots read, and an installation ends every snapshot.
LEMMA PublishPointerRead == ASSUME TypeInv, ReadInv, PublishPointer PROVE ReadInv'
<1> DEFINE t == op.target
<1>1. /\ up /\ up' /\ op.stage = "persisted" /\ op \in OpType /\ AdoptTarget
      /\ current' = t /\ manifest' = t /\ wals' = wals /\ pins' = KeptPins
      /\ op' = IF op.kind = "flush" /\ op.compact
                 THEN [op EXCEPT !.kind = "compact", !.stage = "merge", !.target = NoFile]
                 ELSE Idle
  BY ReadTypes DEF PublishPointer, AdoptTarget
<1>2. /\ Made(t) /\ t \in Manifest /\ t.durable \in Nat
      /\ t.wal_start \in Start /\ wals[t.wal_start] # NoFile
      /\ op.kind # "compact" => wals[t.wal_start].frames = <<>>
  BY <1>1 DEF TypeInv, Prepared, Manifest, ReadInv, TargetOK, Follows
<1>3. Contents(t) \in SUBSET Version
  BY <1>2 DEF Manifest, Contents
<1>4. Made(current)' /\ Made(manifest)'
  BY <1>1, <1>2 DEF Made, Contents
<1>5. LogsOK'
  BY <1>1 DEF ReadInv, LogsOK
<1>6. CASE op.kind = "compact"
  <2>1. /\ UNCHANGED <<wal, next, poisoned, memtable, head>> /\ memtable = {} /\ op' = Idle
        /\ t.durable = manifest.durable
        /\ Contents(t) = Retained(Contents(manifest), Protected)
    BY <1>1, <1>6 DEF AdoptTarget, ReadInv, TargetOK, CompactOK
  <2>2. pins' \subseteq pins /\ \A p \in pins' : p.seq \in op.protected \cup {manifest.durable}
    BY <1>1, <1>6 DEF KeptPins
  <2>3. DatabaseOK'
    BY <1>1, <2>1, <2>2 DEF ReadInv, DatabaseOK
  <2>4. ASSUME NEW p \in pins', NEW k \in Key
        PROVE  Get(k, p.seq)' = p.view[k]
    <3>1. /\ p \in pins /\ p.seq \in Nat /\ manifest.durable \in Nat
          /\ Contents(manifest) \in SUBSET Version
          /\ \A v \in Contents(manifest) : v.seq <= manifest.durable
          /\ \A v \in Contents(t) : v.seq <= manifest.durable
      BY <1>2, <2>1, <2>2, ReadTypes DEF ReadInv, Made
    <3>2. ~HasVersion({}, k, p.seq)
      BY DEF HasVersion
    <3>3. Get(k, p.seq) = ReadAt(Contents(manifest), k, p.seq)
      BY <2>1, <3>2 DEF Get
    <3>4. Get(k, p.seq)' = ReadAt(Contents(t), k, p.seq)
      BY <1>1, <2>1, <3>2 DEF Get
    <3>5. Protected \in SUBSET Nat /\ manifest.durable \in Protected
      BY <1>1, <3>1 DEF Protected, OpType
    <3>6. CASE p.seq <= manifest.durable
      <4>1. p.seq \in Protected
        BY <2>2, <3>6 DEF Protected
      <4>2. ReadAt(Contents(t), k, p.seq) = ReadAt(Contents(manifest), k, p.seq)
        BY <2>1, <3>1, <3>5, <4>1, RetainedReads
      <4> QED BY <3>1, <3>3, <3>4, <4>2 DEF ReadInv, PinsOK
    <3>7. CASE manifest.durable <= p.seq
      <4>1. ReadAt(Contents(t), k, p.seq) = ReadAt(Contents(t), k, manifest.durable)
        BY <1>3, <3>1, <3>7, ReadBeyond
      <4>2. ReadAt(Contents(manifest), k, p.seq) = ReadAt(Contents(manifest), k, manifest.durable)
        BY <3>1, <3>7, ReadBeyond
      <4>3. ReadAt(Contents(t), k, manifest.durable) = ReadAt(Contents(manifest), k, manifest.durable)
        BY <2>1, <3>1, <3>5, RetainedReads
      <4> QED BY <3>1, <3>3, <3>4, <4>1, <4>2, <4>3 DEF ReadInv, PinsOK
    <3> QED BY <3>1, <3>6, <3>7
  <2>5. PinsOK'
    BY <1>1, <2>4 DEF PinsOK
  <2> QED BY <1>4, <1>5, <2>1, <2>3, <2>5, IdleTarget DEF ReadInv
<1>7. CASE op.kind # "compact"
  <2>1. /\ wal' = t.wal_start /\ next' = t.durable + 1 /\ memtable' = {} /\ head' = t.durable
        /\ wals'[wal'].frames = <<>>
    BY <1>1, <1>2, <1>7 DEF AdoptTarget
  <2>2. op.kind \in {"flush", "install"}
    BY <1>1, <1>7 DEF ReadInv, TargetOK, OpType
  <2>3. op.kind = "flush" => t.durable = head /\ t.segments = manifest.segments \cup {memtable}
    BY <1>1 DEF ReadInv, TargetOK, FlushOK
  <2>4. pins' = IF op.kind = "flush" THEN pins ELSE {}
    BY <1>1, <2>2 DEF KeptPins
  <2>5. \A p \in pins' : p.seq <= head'
    BY <1>1, <2>1, <2>3, <2>4 DEF ReadInv, DatabaseOK
  <2>6. DatabaseOK'
    BY <1>1, <1>2, <2>1, <2>5 DEF DatabaseOK
  <2>7. TargetOK'
    <3>1. CASE op.kind = "flush" /\ op.compact
      <4>1. op' = [op EXCEPT !.kind = "compact", !.stage = "merge", !.target = NoFile]
        BY <1>1, <3>1
      <4>2. op'.kind = "compact" /\ op'.stage = "merge"
        BY <1>1, <4>1 DEF OpType
      <4> QED BY <2>1, <4>2 DEF TargetOK, FlushOK, CompactOK, InstallOK
    <3>2. CASE ~(op.kind = "flush" /\ op.compact)
      BY <1>1, <3>2, IdleTarget
    <3> QED BY <3>1, <3>2
  <2>8. ASSUME NEW p \in pins', NEW k \in Key
        PROVE  Get(k, p.seq)' = p.view[k]
    <3>1. op.kind = "flush" /\ p \in pins /\ p.seq \in Nat
      BY <2>4, ReadTypes
    <3>2. Contents(t) = memtable \cup Contents(manifest)
      BY <2>3, <3>1 DEF Contents
    <3>3. ~HasVersion({}, k, p.seq)
      BY DEF HasVersion
    <3>4. Get(k, p.seq)' = ReadAt(memtable \cup Contents(manifest), k, p.seq)
      BY <1>1, <2>1, <3>2, <3>3 DEF Get
    <3> QED BY <1>1, <3>1, <3>4, GetIsRead DEF ReadInv, PinsOK
  <2>9. PinsOK'
    BY <1>1, <2>8 DEF PinsOK
  <2> QED BY <1>4, <1>5, <2>6, <2>7, <2>9 DEF ReadInv
<1> QED BY <1>6, <1>7

\* The pointer moved although the Database was told that it did not.
LEMMA PublishPointerUnsyncedRead ==
    ASSUME TypeInv, ReadInv, PublishPointerUnsynced PROVE ReadInv'
<1>1. /\ op.stage = "persisted" /\ current' = op.target /\ op' = Idle
      /\ UNCHANGED <<wals, up, manifest, wal, next, poisoned, memtable, head, pins>>
  BY DEF PublishPointerUnsynced
<1>2. Made(op.target)
  BY <1>1 DEF ReadInv, TargetOK, Follows
<1>3. Made(current)'
  BY <1>1, <1>2 DEF Made, Contents
<1>4. LogsOK'
  BY <1>1 DEF ReadInv, LogsOK
<1>5. wals'[wal].frames = wals[wal].frames
  BY <1>1
<1> QED BY <1>1, <1>3, <1>4, <1>5, IdleTarget, DatabaseKept DEF ReadInv

\* A snapshot remembers what it reads.
LEMMA TakeSnapshotRead == ASSUME TypeInv, ReadInv, TakeSnapshot PROVE ReadInv'
<1> DEFINE q == [seq |-> head, view |-> [k \in Key |-> Get(k, head)]]
<1>1. /\ up /\ op = Idle /\ op' = Idle /\ pins' = pins \cup {q}
      /\ UNCHANGED <<wals, current, up, manifest, wal, next, poisoned, memtable, head>>
  BY DEF TakeSnapshot, Ready, files, memory
<1>2. \A k, s : Get(k, s)' = Get(k, s)
  BY <1>1 DEF Get
<1>3. PinsOK'
  <2>1. ASSUME NEW p \in pins', NEW k \in Key
        PROVE  Get(k, p.seq)' = p.view[k]
    <3>1. CASE p \in pins
      BY <1>2, <3>1 DEF ReadInv, PinsOK
    <3>2. CASE p = q
      BY <1>2, <3>2
    <3> QED BY <1>1, <3>1, <3>2
  <2> QED BY <1>1, <2>1 DEF PinsOK
<1>4. DatabaseOK'
  <2>1. \A p \in pins' : p.seq <= head'
    BY <1>1, ReadTypes DEF ReadInv, DatabaseOK
  <2> QED BY <1>1, <2>1 DEF ReadInv, DatabaseOK
<1>5. Made(current)' /\ Made(manifest)' /\ LogsOK'
  BY <1>1 DEF ReadInv, Made, Contents, LogsOK
<1> QED BY <1>1, <1>3, <1>4, <1>5, IdleTarget DEF ReadInv

\* Fewer snapshots are stable too.
LEMMA DropSnapshotRead ==
    ASSUME TypeInv, ReadInv, NEW q \in pins, DropSnapshot(q) PROVE ReadInv'
<1>1. /\ up /\ pins' \subseteq pins
      /\ UNCHANGED <<op, wals, current, up, manifest, wal, next, poisoned, memtable, head>>
  BY DEF DropSnapshot, files, memory
<1>2. \A k, s : Get(k, s)' = Get(k, s)
  BY <1>1 DEF Get
<1>3. PinsOK'
  BY <1>1, <1>2 DEF ReadInv, PinsOK
<1>4. DatabaseOK'
  BY <1>1 DEF ReadInv, DatabaseOK
<1>5. Made(current)' /\ Made(manifest)' /\ LogsOK'
  BY <1>1 DEF ReadInv, Made, Contents, LogsOK
<1>6. TargetOK'
  BY <1>1, TargetKept
<1> QED BY <1>3, <1>4, <1>5, <1>6 DEF ReadInv

\* Garbage collection keeps the frames of the logs it leaves.
LEMMA GarbageCollectRead ==
    ASSUME TypeInv, ReadInv, NEW M \in SUBSET DeadManifests,
           NEW S \in SUBSET DeadSegments, NEW W \in SUBSET DeadWals, GarbageCollect(M, S, W)
    PROVE  ReadInv'
<1>1. /\ up /\ op = Idle /\ op' = Idle
      /\ UNCHANGED <<current, up, manifest, wal, next, poisoned, memtable, head, pins>>
  BY DEF GarbageCollect, Ready, memory
<1>2. \A s \in Start : wals'[s] = IF s \in W THEN NoFile
                                  ELSE IF W # {} /\ W = DeadWals /\ wals[s] # NoFile
                                    THEN [wals[s] EXCEPT !.named = TRUE]
                                    ELSE wals[s]
  BY DEF GarbageCollect
<1>3. wals \in [Start -> WalFile \cup {NoFile}] /\ wal \in Start /\ wal = manifest.wal_start
  BY <1>1, ReadTypes
<1>4. \A s \in Start : wals[s] # NoFile => [wals[s] EXCEPT !.named = TRUE].frames = wals[s].frames
  BY <1>3 DEF WalFile
<1>5. \A s \in Start : wals'[s] = NoFile \/ (wals[s] # NoFile /\ wals'[s].frames = wals[s].frames)
  BY <1>2, <1>4
<1>6. wals'[wal].frames = wals[wal].frames
  <2>1. wal \notin W
    BY <1>3 DEF DeadWals, RetainedWals, RetainedManifests
  <2> QED BY <1>2, <1>3, <1>4, <2>1
<1> QED BY <1>1, <1>5, <1>6, IdleTarget, MemoryKept

\* A crash leaves prefixes of logs.
LEMMA CrashRead == ASSUME TypeInv, ReadInv, Crash PROVE ReadInv'
<1> DEFINE w == wals[wal]
<1>1. up /\ ~up' /\ op' = Idle /\ manifest' = current /\ current' = current /\ pins' = {}
  BY DEF Crash
<1>2. /\ w \in WalFile /\ w # NoFile /\ w.frames \in Seq(Frame) /\ wal \in Start /\ w.synced \in Nat
      /\ w.hole \in Nat /\ w.hole <= Len(w.frames) /\ Len(w.frames) \in Nat
      /\ wals \in [Start -> WalFile \cup {NoFile}]
  BY <1>1, ReadTypes, NoFileAssumption DEF WalFile, TypeInv, HolesInside
<1>3. PICK x \in Survivor(w),
         gone \in SUBSET {s \in Start : wals[s] # NoFile /\ ~wals[s].named} :
            wals' = [s \in Start |-> IF s \in gone THEN NoFile
                                     ELSE IF s = wal THEN x ELSE wals[s]]
  BY DEF Crash
<1>4. \E n \in 0..Len(w.frames) : x.frames = SubSeq(w.frames, 1, n)
  <2>1. CASE \E n \in w.synced..Len(w.frames) : \E t \in TailsAfter(w, n) : x = Cut(w, n, t)
    <3>1. PICK n \in w.synced..Len(w.frames) : \E t \in TailsAfter(w, n) : x = Cut(w, n, t)
      BY <2>1
    <3>2. n \in 0..Len(w.frames) /\ x.frames = SubSeq(w.frames, 1, n)
      BY <1>2, <3>1 DEF Cut, WalFile
    <3> QED BY <3>2
  <2>2. CASE w.hole # 0 /\ x = Torn(w)
    <3>1. w.hole - 1 \in 0..Len(w.frames)
      BY <1>2, <2>2
    <3>2. x.frames = SubSeq(w.frames, 1, w.hole - 1)
      BY <1>2, <2>2 DEF Torn, Cut, WalFile
    <3> QED BY <3>1, <3>2
  <2> QED BY <1>2, <2>1, <2>2, SurvivorCases
<1>5. LogOK(w.frames, wal - 1)
  BY <1>2 DEF ReadInv, LogsOK
<1>6. LogOK(x.frames, wal - 1)
  BY <1>2, <1>4, <1>5, LogPrefix
<1>7. LogsOK'
  BY <1>3, <1>6 DEF ReadInv, LogsOK
<1>8. Made(current)' /\ Made(manifest)'
  BY <1>1 DEF ReadInv, Made, Contents
<1>9. DatabaseOK' /\ PinsOK'
  BY <1>1 DEF DatabaseOK, PinsOK
<1> QED BY <1>1, <1>7, <1>8, <1>9, IdleTarget DEF ReadInv

\* Database::open puts the log's versions into the memtable.
LEMMA OpenRead == ASSUME TypeInv, ReadInv, Open PROVE ReadInv'
<1> DEFINE w == wals[current.wal_start]
<1>1. /\ ~up /\ up' /\ manifest' = current /\ wal' = current.wal_start /\ w # NoFile
      /\ next' = LastSequence(w, current.wal_start - 1) + 1
      /\ memtable' = FrameVersions(w, Len(w.frames))
      /\ head' = LastSequence(w, current.durable)
      /\ UNCHANGED <<current, wals, op, pins, poisoned>>
  BY DEF Open, Closure, files
<1>2. /\ current.durable \in Nat /\ current.wal_start \in Start /\ w \in WalFile
      /\ current.wal_start = current.durable + 1
  BY <1>1, ReadTypes DEF ReadInv, Made
<1>3. current.wal_start - 1 = current.durable
  BY <1>2
<1>4. LogOK(w.frames, current.durable)
  BY <1>1, <1>2, <1>3 DEF ReadInv, LogsOK
<1>5. /\ head' \in Nat /\ current.durable <= head'
      /\ \A i \in 1..Len(w.frames) : w.frames[i].last <= head'
  BY <1>1, <1>2, <1>4, LastIsLargest DEF LogOK
<1>6. \A v \in memtable' : current.durable < v.seq /\ v.seq <= head'
  <2> SUFFICES ASSUME NEW i \in 1..Len(w.frames), NEW v \in w.frames[i].versions
               PROVE  current.durable < v.seq /\ v.seq <= head'
    BY <1>1 DEF FrameVersions
  <2>1. current.durable < v.seq /\ v.seq <= w.frames[i].last /\ w.frames[i].last <= head'
    BY <1>4, <1>5 DEF LogOK
  <2>2. w.frames[i].last \in 1..MaxSeq /\ w.frames[i].versions \in SUBSET Version
    BY <1>2, FramesType DEF WalFile
  <2>3. v.seq \in Nat /\ w.frames[i].last \in Nat
    BY <2>2, BoundsAssumption DEF Version
  <2> QED BY <1>5, <2>1, <2>3
<1>7. pins = {} /\ op = Idle
  BY <1>1 DEF ReadInv, PinsOK, TypeInv, Prepared
<1>8. DatabaseOK'
  BY <1>1, <1>3, <1>5, <1>6, <1>7 DEF DatabaseOK
<1>9. Made(current)' /\ Made(manifest)' /\ LogsOK' /\ PinsOK'
  BY <1>1, <1>7 DEF ReadInv, Made, Contents, LogsOK, PinsOK
<1> QED BY <1>1, <1>7, <1>8, <1>9, IdleTarget DEF ReadInv

\* The repair keeps every frame.
LEMMA RepairTornTailRead == ASSUME TypeInv, ReadInv, RepairTornTail PROVE ReadInv'
<1> DEFINE s == current.wal_start
           x == [Synced(wals[s]) EXCEPT !.tail = "clean"]
<1>1. /\ ~up /\ wals[s] # NoFile /\ wals' = [wals EXCEPT ![s] = x]
      /\ UNCHANGED <<current, up, manifest, wal, next, poisoned, memtable, head, pins, op>>
  BY DEF RepairTornTail, memory
<1>2. s \in Start /\ wals[s] \in WalFile /\ op = Idle
  BY <1>1, ReadTypes DEF TypeInv, Prepared
<1>3. x.frames = wals[s].frames
  BY <1>2 DEF Synced, WalFile
<1> QED BY <1>1, <1>2, <1>3, IdleTarget, SameFrames

\* Every step keeps the invariant, whatever faults happen.
LEMMA NextRead == ASSUME TypeInv, ReadInv, [Next]_vars PROVE ReadInv'
<1>1. CASE Next
  <2>1. ASSUME NEW batch \in WriteBatch, NEW authoritative \in BOOLEAN,
               Write(batch, authoritative)
        PROVE  ReadInv'
    BY <2>1, WriteRead
  <2>2. ASSUME NEW batch \in WriteBatch, WriteFails(batch) PROVE ReadInv'
    BY <2>2, WriteFailsRead
  <2>3. ASSUME NEW compact \in BOOLEAN, NEW protected, FlushSyncWal(compact, protected)
        PROVE  ReadInv'
    BY <2>3, FlushSyncWalRead
  <2>4. ASSUME NEW bundle \in Bundle, InstallSegments(bundle) PROVE ReadInv'
    BY <2>4, InstallSegmentsRead
  <2>5. ASSUME NEW start \in Start, SuccessorInterrupted(start) PROVE ReadInv'
    BY <2>5, SuccessorInterruptedRead
  <2>6. CASE Abort
    <3>1. op' = Idle
          /\ UNCHANGED <<wals, current, up, manifest, wal, next, poisoned, memtable, head, pins>>
      BY <2>6 DEF Abort, files
    <3> QED BY <3>1, IdleTarget, LogsUntouched
  <2>7. ASSUME NEW p \in pins, DropSnapshot(p) PROVE ReadInv'
    BY <2>7, DropSnapshotRead
  <2>8. ASSUME NEW name \in Name, Checkpoint(name) \/ ReleaseCheckpoint(name) PROVE ReadInv'
    <3>1. op = Idle /\ op' = Idle
          /\ UNCHANGED <<wals, current, up, manifest, wal, next, poisoned, memtable, head, pins>>
      BY <2>8 DEF Checkpoint, ReleaseCheckpoint, Ready, memory
    <3> QED BY <3>1, IdleTarget, LogsUntouched
  <2>9. ASSUME NEW M \in SUBSET DeadManifests, NEW S \in SUBSET DeadSegments,
               NEW W \in SUBSET DeadWals, GarbageCollect(M, S, W)
        PROVE  ReadInv'
    BY <2>9, GarbageCollectRead
  <2> QED
    BY <1>1, <2>1, <2>2, <2>3, <2>4, <2>5, <2>6, <2>7, <2>8, <2>9, SyncRead,
       FlushWriteSegmentRead, FlushSuccessorWalRead, CompactMergeRead, InstallSuccessorWalRead,
       PersistManifestRead, PublishPointerRead, PublishPointerUnsyncedRead, TakeSnapshotRead,
       CrashRead, OpenRead, RepairTornTailRead
    DEF Next
<1>2. CASE UNCHANGED vars
  <2>1. UNCHANGED <<wals, current, up, manifest, wal, next, poisoned, memtable, head, pins, op>>
    BY <1>2 DEF vars
  <2>2. TargetOK'
    BY <2>1, TargetKept
  <2> QED BY <2>1, <2>2, LogsUntouched
<1> QED BY <1>1, <1>2

\* Both invariants hold in every reachable state.
LEMMA ReadInvariant == Spec => [](TypeInv /\ ReadInv)
<1>1. Spec => []TypeInv
  BY InitType, NextType, PTL DEF Spec
<1> QED BY <1>1, InitRead, NextRead, PTL DEF Spec

\* Snapshot isolation, for any faults: a reader goes on seeing what it saw when it took its
\* snapshot, across writes, flushes, aborted operations and compactions that protect it,
\* and Database::get, which stops at the memtable, agrees with Database::scan.
THEOREM SnapshotIsolation == Spec => []SnapshotsStable
<1>1. TypeInv /\ ReadInv => SnapshotsStable
  <2> SUFFICES ASSUME TypeInv, ReadInv, up
               PROVE  /\ \A p \in pins : \A k \in Key : Get(k, p.seq) = p.view[k]
                      /\ \A s \in 0..head : \A k \in Key : Get(k, s) = Scan(s)[k]
    BY DEF SnapshotsStable
  <2>1. ASSUME NEW s \in 0..head, NEW k \in Key
        PROVE  Get(k, s) = Scan(s)[k]
    <3>1. s \in Nat
      BY ReadTypes
    <3>2. Scan(s)[k] = ReadAt(memtable \cup Contents(manifest), k, s)
      BY DEF Scan, ViewAt
    <3> QED BY <3>1, <3>2, GetIsRead
  <2> QED BY <2>1 DEF ReadInv, PinsOK
<1> QED BY <1>1, ReadInvariant, PTL

\* CURRENT moves only one generation on from the manifest the Database holds, for any
\* faults: publish compares the two, and an operation prepares the next generation only.
THEOREM PublishesInTurn == Spec => StaleManifestNeverPublishes
<1>1. TypeInv /\ ReadInv /\ [Next]_vars
        => [current' # current => /\ current = manifest
                                  /\ current'.generation = current.generation + 1]_vars
  <2> SUFFICES ASSUME TypeInv, ReadInv, Next, current' # current
               PROVE  current = manifest /\ current'.generation = current.generation + 1
    OBVIOUS
  <2>1. op.stage = "persisted" /\ current' = op.target
    BY DEF Next, Write, WriteFails, Sync, SyncFails, FlushSyncWal, FlushWriteSegment,
           FlushSuccessorWal, CompactMerge, InstallSegments, InstallSuccessorWal,
           SuccessorInterrupted, PersistManifest, PublishPointer, PublishPointerUnsynced,
           Abort, TakeSnapshot, DropSnapshot, Checkpoint, ReleaseCheckpoint, GarbageCollect,
           Crash, Open, RepairTornTail, files
  <2> QED BY <2>1 DEF ReadInv, TargetOK, Follows
<1> QED BY <1>1, ReadInvariant, PTL DEF Spec, StaleManifestNeverPublishes

(***************************************************************************)
(* Logs that nobody has published.                                         *)
(***************************************************************************)

\* Steps that rewrite no log beyond the one in use, or leave it empty there.
LEMMA BeyondKept ==
    ASSUME TypeInv, EmptyBeyond,
           manifest'.wal_start \in Start, manifest.wal_start <= manifest'.wal_start,
           manifest'.wal_start <= current'.wal_start,
           \A s \in Start : s > manifest'.wal_start =>
               \/ wals'[s] = NoFile
               \/ wals'[s].frames = <<>> /\ wals'[s].tail = "clean"
               \/ wals'[s] = wals[s]
    PROVE  EmptyBeyond'
<1>1. \A s \in Start : s > manifest'.wal_start => s > manifest.wal_start
  BY ReadTypes
<1> QED BY <1>1 DEF EmptyBeyond

\* Steps that rewrite the log in use only.
LEMMA BeyondInUse ==
    ASSUME TypeInv, EmptyBeyond, up, NEW x, wals' = [wals EXCEPT ![wal] = x],
           UNCHANGED <<manifest, current>>
    PROVE  EmptyBeyond'
<1>1. /\ wal = manifest.wal_start /\ \A s \in Start : wals'[s] = IF s = wal THEN x ELSE wals[s]
  BY ReadTypes
<1> QED BY <1>1, ReadTypes DEF EmptyBeyond

\* Steps that touch no log.
LEMMA BeyondUntouched ==
    ASSUME EmptyBeyond, UNCHANGED <<manifest, current, wals>> PROVE EmptyBeyond'
  BY DEF EmptyBeyond

\* A successor is created empty.
LEMMA BeyondSuccessor ==
    ASSUME TypeInv, EmptyBeyond, NEW start \in Start, SuccessorWal(start),
           UNCHANGED <<manifest, current>>
    PROVE  EmptyBeyond'
<1>1. EmptyWal.frames = <<>> /\ EmptyWal.tail = "clean"
  BY DEF EmptyWal
<1>2. wals' = wals \/ wals' = [wals EXCEPT ![start] = EmptyWal]
  BY DEF SuccessorWal
<1>3. \A s \in Start : wals'[s] = wals[s] \/ (wals'[s].frames = <<>> /\ wals'[s].tail = "clean")
  BY <1>1, <1>2, ReadTypes
<1> QED BY <1>3 DEF EmptyBeyond

\* What is published starts no earlier than what it follows.
LEMMA TargetAhead ==
    ASSUME TypeInv, ReadInv, up, op.stage \in {"ready", "persisted"}
    PROVE  op.target.wal_start \in Start /\ manifest.wal_start <= op.target.wal_start
<1>1. /\ op.target \in Manifest /\ op.target.durable \in Nat /\ op.target.wal_start \in Start
      /\ op.target.wal_start = op.target.durable + 1
      /\ manifest.wal_start = manifest.durable + 1 /\ manifest.durable <= head
  BY DEF TypeInv, Prepared, Manifest, ReadInv, TargetOK, Follows, Made, DatabaseOK
<1>2. manifest.durable <= op.target.durable
  <2>1. CASE op.kind = "compact"
    BY <2>1, ReadTypes DEF ReadInv, TargetOK, CompactOK
  <2>2. CASE op.kind = "flush"
    BY <1>1, <2>2, ReadTypes DEF ReadInv, TargetOK, FlushOK
  <2>3. CASE op.kind = "install"
    BY <1>1, <2>3, ReadTypes DEF ReadInv, TargetOK, InstallOK
  <2>4. op.kind # "idle"
    BY DEF ReadInv, TargetOK
  <2> QED BY <2>1, <2>2, <2>3, <2>4, ReadTypes DEF OpType
<1> QED BY <1>1, <1>2, ReadTypes

\* Every step keeps the logs beyond the one in use empty.
LEMMA NextBeyond ==
    ASSUME "create" \notin Faults, TypeInv, ReadInv, EmptyBeyond, [Next]_vars
    PROVE  EmptyBeyond'
<1>1. CASE Next
  <2>1. ASSUME NEW batch \in WriteBatch, NEW authoritative \in BOOLEAN,
               Write(batch, authoritative)
        PROVE  EmptyBeyond'
    BY <2>1, BeyondInUse DEF Write, Ready
  <2>2. ASSUME NEW batch \in WriteBatch, WriteFails(batch) PROVE EmptyBeyond'
    <3>1. up /\ UNCHANGED <<manifest, current>>
      BY <2>2 DEF WriteFails, Ready
    <3>2. \E x : wals' = [wals EXCEPT ![wal] = x]
      <4> DEFINE w == wals[wal]
      <4>1. CASE wals' = [wals EXCEPT ![wal].frames = Append(w.frames, NewFrame(batch))]
        <5>1. wals' = [wals EXCEPT ![wal] = [w EXCEPT !.frames = Append(w.frames, NewFrame(batch))]]
          BY <4>1
        <5> QED BY <5>1
      <4>2. ASSUME NEW t, wals' = [wals EXCEPT ![wal].tail = t]
            PROVE  \E x : wals' = [wals EXCEPT ![wal] = x]
        <5>1. wals' = [wals EXCEPT ![wal] = [w EXCEPT !.tail = t]]
          BY <4>2
        <5> QED BY <5>1
      <4> QED BY <2>2, <4>1, <4>2 DEF WriteFails
    <3> QED BY <3>1, <3>2, BeyondInUse
  <2>3. CASE Sync
    BY <2>3, BeyondInUse DEF Sync, Ready, memory
  <2>4. CASE SyncFails
    <3>1. /\ up /\ UNCHANGED <<manifest, current>>
          /\ wals' = [wals EXCEPT ![wal] = [wals[wal] EXCEPT !.hole = wals[wal].synced + 1]]
      BY <2>4 DEF SyncFails, Ready, memory
    <3> QED BY <3>1, BeyondInUse
  <2>5. ASSUME NEW compact \in BOOLEAN, NEW protected, FlushSyncWal(compact, protected)
        PROVE  EmptyBeyond'
    BY <2>5, BeyondInUse DEF FlushSyncWal, Ready
  <2>6. CASE FlushSuccessorWal
    BY <2>6, BeyondSuccessor, ReadTypes DEF FlushSuccessorWal
  <2>7. CASE InstallSuccessorWal
    <3>1. op.target.wal_start \in Start
      BY <2>7 DEF InstallSuccessorWal, TypeInv, Prepared, Manifest
    <3> QED BY <2>7, <3>1, BeyondSuccessor DEF InstallSuccessorWal
  <2>8. CASE PublishPointer
    <3>1. /\ manifest' = op.target /\ current' = op.target /\ wals' = wals
          /\ op.target.wal_start \in Start /\ manifest.wal_start <= op.target.wal_start
      BY <2>8, TargetAhead DEF PublishPointer, AdoptTarget
    <3> QED BY <3>1, BeyondKept, ReadTypes
  <2>9. CASE PublishPointerUnsynced
    <3>1. /\ manifest' = manifest /\ current' = op.target /\ wals' = wals
          /\ op.target.wal_start \in Start /\ manifest.wal_start <= op.target.wal_start
      BY <2>9, TargetAhead DEF PublishPointerUnsynced
    <3> QED BY <3>1 DEF EmptyBeyond
  <2>10. ASSUME NEW M \in SUBSET DeadManifests, NEW S \in SUBSET DeadSegments,
                NEW W \in SUBSET DeadWals, GarbageCollect(M, S, W)
         PROVE  EmptyBeyond'
    <3>1. UNCHANGED <<manifest, current>> /\ wals \in [Start -> WalFile \cup {NoFile}]
      BY <2>10, ReadTypes DEF GarbageCollect, memory
    <3>2. \A s \in Start : wals'[s] = NoFile \/ wals'[s] = wals[s]
                            \/ (wals[s] # NoFile /\ wals'[s] = [wals[s] EXCEPT !.named = TRUE])
      BY <2>10 DEF GarbageCollect
    <3>3. \A y \in WalFile : LET z == [y EXCEPT !.named = TRUE]
                             IN  z.frames = y.frames /\ z.tail = y.tail
      BY DEF WalFile
    <3>4. \A s \in Start : wals'[s] # NoFile =>
              wals[s] # NoFile /\ wals'[s].frames = wals[s].frames /\ wals'[s].tail = wals[s].tail
      BY <3>1, <3>2, <3>3
    <3> QED BY <3>1, <3>4 DEF EmptyBeyond
  <2>11. CASE Crash
    <3>1. up /\ manifest' = current /\ current' = current
      BY <2>11 DEF Crash
    <3>2. \A s \in Start : s # wal => wals'[s] = NoFile \/ wals'[s] = wals[s]
      BY <2>11 DEF Crash
    <3>3. wal = manifest.wal_start /\ manifest.wal_start <= current.wal_start
      BY <3>1, ReadTypes DEF EmptyBeyond
    <3>4. \A s \in Start : s > current.wal_start => s # wal
      BY <3>3, ReadTypes
    <3> QED BY <3>1, <3>2, <3>3, <3>4, BeyondKept, ReadTypes
  <2>12. CASE Open
    <3>1. manifest' = current /\ current' = current /\ wals' = wals
      BY <2>12 DEF Open, files
    <3> QED BY <3>1, BeyondKept, ReadTypes DEF EmptyBeyond
  <2>13. CASE RepairTornTail
    <3> DEFINE s == current.wal_start
               x == [Synced(wals[s]) EXCEPT !.tail = "clean"]
    <3>1. wals[s] # NoFile /\ wals' = [wals EXCEPT ![s] = x] /\ UNCHANGED <<manifest, current>>
      BY <2>13 DEF RepairTornTail, memory
    <3>2. wals[s] \in WalFile /\ s \in Start
      BY <3>1, ReadTypes
    <3>3. x.frames = wals[s].frames /\ x.tail = "clean"
      BY <3>2 DEF Synced, WalFile
    <3>4. \A r \in Start : wals'[r] = IF r = s THEN x ELSE wals[r]
      BY <3>1, ReadTypes
    <3> QED BY <3>1, <3>2, <3>3, <3>4 DEF EmptyBeyond
  <2>14. ~ \E start \in Start : SuccessorInterrupted(start)
    BY DEF SuccessorInterrupted
  <2>15. ASSUME \/ FlushWriteSegment \/ CompactMerge \/ PersistManifest \/ Abort \/ TakeSnapshot
                \/ \E bundle \in Bundle : InstallSegments(bundle)
                \/ \E p \in pins : DropSnapshot(p)
                \/ \E name \in Name : Checkpoint(name) \/ ReleaseCheckpoint(name)
         PROVE  EmptyBeyond'
    <3>1. UNCHANGED <<manifest, current, wals>>
      BY <2>15 DEF FlushWriteSegment, CompactMerge, PersistManifest, Abort, TakeSnapshot,
                   InstallSegments, DropSnapshot, Checkpoint, ReleaseCheckpoint, files, memory
    <3> QED BY <3>1, BeyondUntouched
  <2> QED
    BY <1>1, <2>1, <2>2, <2>3, <2>4, <2>5, <2>6, <2>7, <2>8, <2>9, <2>10, <2>11, <2>12, <2>13,
       <2>14, <2>15
    DEF Next
<1>2. CASE UNCHANGED vars
  BY <1>2, BeyondUntouched DEF vars
<1> QED BY <1>1, <1>2

\* Unless the creation of a WAL is interrupted, flush and installation find a successor
\* they can use, over whatever earlier failures and crashes left behind.
THEOREM RetryWorks ==
    ASSUME "create" \notin Faults
    PROVE  Spec => []RetryNeverRefused
<1>1. Init => EmptyBeyond
  <2> SUFFICES ASSUME Init PROVE EmptyBeyond
    OBVIOUS
  <2>1. \A s \in Start : s > 1 => wals[s] = NoFile
    BY DEF Init
  <2> QED BY <2>1 DEF Init, FirstManifest, EmptyBeyond
<1>2. Spec => []EmptyBeyond
  BY <1>1, ReadInvariant, NextBeyond, PTL DEF Spec
<1>3. TypeInv /\ ReadInv /\ EmptyBeyond => RetryNeverRefused
  <2> SUFFICES ASSUME TypeInv, ReadInv, EmptyBeyond, up, op.stage = "segment"
               PROVE  SuccessorUsable(IF op.kind = "install" THEN op.target.wal_start ELSE next)
    BY DEF RetryNeverRefused
  <2>1. /\ manifest.wal_start = manifest.durable + 1 /\ manifest.durable <= head
        /\ next = head + 1 /\ next \in Start
        /\ \A v \in memtable : manifest.durable < v.seq /\ v.seq <= head
    BY ReadTypes DEF ReadInv, Made, DatabaseOK
  <2>2. CASE op.kind = "install"
    <3>1. /\ op.target.wal_start = op.target.durable + 1 /\ head < op.target.durable
          /\ op.target.wal_start \in Start /\ op.target.durable \in Nat
      BY <2>2 DEF ReadInv, TargetOK, InstallOK, Follows, Made, TypeInv, Prepared, Manifest
    <3>2. op.target.wal_start > manifest.wal_start
      BY <2>1, <3>1, ReadTypes
    <3> QED BY <2>2, <3>1, <3>2 DEF EmptyBeyond, SuccessorUsable
  <2>3. CASE op.kind = "flush"
    <3>1. PICK v \in memtable : TRUE
      BY <2>3 DEF ReadInv, TargetOK, FlushOK
    <3>2. next > manifest.wal_start
      BY <2>1, <3>1, ReadTypes
    <3> QED BY <2>1, <2>3, <3>2 DEF EmptyBeyond, SuccessorUsable
  <2>4. op.kind \in {"flush", "install"}
    BY ReadTypes DEF OpType, ReadInv, TargetOK, CompactOK
  <2> QED BY <2>2, <2>3, <2>4
<1> QED BY <1>2, <1>3, ReadInvariant, PTL

-----------------------------------------------------------------------------
(***************************************************************************)
(* What a restart recovers.  While the writer is sound, the Database in    *)
(* memory is what its files say; what was acknowledged as durable is in    *)
(* the state that CURRENT and its WAL recover to; and every behaviour of   *)
(* the files is one of the abstract store DurableStore.                    *)
(*                                                                         *)
(* All three need a failed sync never to be followed by a successful one   *)
(* on the same file ("sync" \notin Faults) and a publication never to be   *)
(* reported as failed after it took effect ("dirsync" \notin Faults): the  *)
(* code has no defence against either.                                     *)
(***************************************************************************)

(***************************************************************************)
(* The inductive invariant.                                                *)
(***************************************************************************)

\* The WAL that CURRENT names.
Log == wals[current.wal_start]

\* No file has lost a frame that was synced.
SyncedInside ==
    \A s \in Start : wals[s] # NoFile =>
        wals[s].hole = 0 /\ wals[s].synced <= Len(wals[s].frames)

\* The log continues where the segments of CURRENT end.
LogInOrder == current.wal_start = current.durable + 1 /\ OrderedLog(Log.frames, current.durable)

\* The Database in memory is the one its files describe.
MemoryCurrent ==
    up => /\ next = head + 1
          /\ ~poisoned => /\ memtable = FrameVersions(Log, Len(Log.frames))
                          /\ head = LastSequence(Log, current.durable)

\* What was acknowledged is in the segments or in the synced part of the log.
AckedDurable == acked <= DurableThrough(Log, current.durable)

\* A flush or an installation publishes an empty log, a compaction keeps the one
\* in use.
TargetFresh ==
    op.stage \in {"ready", "persisted"} =>
        /\ op.kind # "compact" => wals[op.target.wal_start].frames = <<>>
        /\ op.kind = "compact" => op.target.durable = manifest.durable

LogInv == LogInOrder /\ MemoryCurrent /\ AckedDurable
RecInv == SyncedInside /\ LogInv /\ TargetFresh

\* The log in use is a WAL file, and the one the open Database writes to.
LEMMA LogType ==
    ASSUME TypeInv, CurrentInv
    PROVE  /\ Log \in WalFile /\ Log # NoFile
           /\ Log.frames \in Seq(Frame) /\ Log.synced \in Nat
           /\ current.durable \in Nat /\ current.wal_start \in Start
           /\ up => wal = current.wal_start
<1>1. current \in Manifest /\ wals \in [Start -> WalFile \cup {NoFile}]
  BY DEF TypeInv, TypeOK
<1>2. current.wal_start \in Start /\ current.durable \in Nat
  BY <1>1 DEF Manifest
<1>3. Log # NoFile /\ Log \in WalFile
  BY <1>1, <1>2 DEF CurrentInv, Closure, Log
<1>4. up => wal = current.wal_start
  BY DEF TypeInv, WalHeld, CurrentInv
<1> QED BY <1>2, <1>3, <1>4 DEF WalFile

\* Steps that leave the log, the Database and the acknowledgements alone.
LEMMA LogKept ==
    ASSUME LogInv, Log'.frames = Log.frames, Log'.synced = Log.synced,
           UNCHANGED <<current, up, next, poisoned, memtable, head, acked>>
    PROVE  LogInv'
<1>1. LogInOrder'
  BY DEF LogInv, LogInOrder, OrderedLog
<1>2. MemoryCurrent'
  <2>1. FrameVersions(Log, Len(Log.frames))' = FrameVersions(Log, Len(Log.frames))
    BY DEF FrameVersions
  <2>2. LastSequence(Log, current.durable)' = LastSequence(Log, current.durable)
    BY DEF LastSequence
  <2> QED BY <2>1, <2>2 DEF LogInv, MemoryCurrent
<1>3. AckedDurable'
  BY DEF LogInv, AckedDurable, DurableThrough
<1> QED BY <1>1, <1>2, <1>3 DEF LogInv

\* Rewriting or creating one file that has not lost a synced frame.
LEMMA SoundRewrite ==
    ASSUME TypeInv, SyncedInside, NEW s \in Start, NEW x, x.hole = 0, x.synced <= Len(x.frames),
           wals' = [wals EXCEPT ![s] = x]
    PROVE  SyncedInside'
<1>1. wals \in [Start -> WalFile \cup {NoFile}]
  BY DEF TypeInv, TypeOK
<1> QED BY <1>1 DEF SyncedInside

\* In the first state everything is in order.
LEMMA InitRec == Init => RecInv
<1> SUFFICES ASSUME Init PROVE RecInv
  OBVIOUS
<1>1. 1 \in Start /\ EmptyWal # NoFile
  BY EmptyWalType, NoFileAssumption, BoundsAssumption DEF Start
<1>2. /\ current.wal_start = 1 /\ current.durable = 0
      /\ \A s \in Start : wals[s] # NoFile => wals[s] = EmptyWal
      /\ Log = EmptyWal
  BY <1>1 DEF Init, FirstManifest, Log
<1>3. EmptyWal.frames = <<>> /\ EmptyWal.synced = 0 /\ EmptyWal.hole = 0
  BY DEF EmptyWal
<1>4. SyncedInside
  BY <1>2, <1>3 DEF SyncedInside
<1>5. LogInOrder
  BY <1>2, <1>3 DEF LogInOrder, OrderedLog
<1>6. MemoryCurrent
  <2>1. FrameVersions(Log, Len(Log.frames)) = {}
    BY <1>2, <1>3 DEF FrameVersions
  <2>2. LastSequence(Log, current.durable) = 0
    BY <1>2, <1>3 DEF LastSequence
  <2> QED BY <2>1, <2>2 DEF Init, MemoryCurrent
<1>7. AckedDurable
  BY <1>2, <1>3 DEF Init, AckedDurable, DurableThrough
<1>8. TargetFresh
  BY DEF Init, TargetFresh, Idle
<1> QED BY <1>4, <1>5, <1>6, <1>7, <1>8 DEF RecInv, LogInv

\* A write goes to the log, to the memtable and, when authoritative, to disk.
LEMMA WriteRec ==
    ASSUME TypeInv, CurrentInv, RecInv, NEW batch \in WriteBatch, NEW authoritative \in BOOLEAN,
           Write(batch, authoritative)
    PROVE  RecInv'
<1> DEFINE f == NewFrame(batch)
           w == wals[wal]
           n == IF authoritative THEN Len(w.frames) + 1 ELSE w.synced
           x == [w EXCEPT !.frames = Append(w.frames, f), !.synced = n]
           base == current.durable
<1>1. /\ up /\ ~poisoned /\ op = Idle /\ next = head + 1 /\ f.last <= MaxSeq
      /\ wals' = [wals EXCEPT ![wal] = x]
      /\ UNCHANGED <<current, up, poisoned, op>>
      /\ next' = f.last + 1 /\ memtable' = memtable \cup f.versions /\ head' = f.last
      /\ acked' = IF authoritative THEN f.last ELSE acked
  BY DEF Write, Ready
<1>2. /\ w \in WalFile /\ w.frames \in Seq(Frame) /\ w.synced \in Nat
      /\ wal \in Start /\ w = Log /\ wal = current.wal_start /\ base \in Nat
      /\ wals \in [Start -> WalFile \cup {NoFile}]
  BY <1>1, LogType DEF Log, TypeInv, TypeOK
<1>3. f \in Frame /\ f.last \in Nat /\ next \in Nat /\ f.last >= next
  <2>1. next \in Start
    BY DEF TypeInv, TypeOK
  <2>2. f \in Frame /\ f.last >= next
    BY <1>1, <2>1, NewFrameType
  <2> QED BY <2>1, <2>2, BoundsAssumption DEF Frame, Start
<1>4. w.hole = 0 /\ w.synced <= Len(w.frames)
  BY <1>2, LogType DEF RecInv, SyncedInside
<1>5. /\ x.frames = Append(w.frames, f) /\ x.synced = n /\ x.hole = 0
      /\ n \in Nat /\ x \in WalFile
  <2>1. n \in Nat
    BY <1>2
  <2>2. x \in WalFile
    BY <1>2, <1>3, <2>1, WalUpdateType
  <2> QED BY <1>2, <1>4, <2>1, <2>2 DEF WalFile
<1>6. Len(x.frames) = Len(w.frames) + 1 /\ x.frames[Len(w.frames) + 1] = f
        /\ \A i \in 1..Len(w.frames) : x.frames[i] = w.frames[i]
  BY <1>2, <1>3, <1>5
<1>7. Log' = x
  BY <1>1, <1>2 DEF Log
<1>8. SyncedInside'
  <2>1. n <= Len(x.frames)
    BY <1>2, <1>4, <1>6
  <2> QED BY <1>1, <1>2, <1>5, <2>1, SoundRewrite DEF RecInv
<1>9. LogInOrder'
  <2>1. LastSequence(w, base) <= f.last
    <3>1. head = LastSequence(w, base)
      BY <1>1, <1>2 DEF RecInv, LogInv, MemoryCurrent
    <3>2. head \in Nat
      BY DEF TypeInv, TypeOK
    <3> QED BY <1>1, <1>3, <3>1, <3>2
  <2>2. OrderedLog(w.frames, base)
    BY <1>2 DEF RecInv, LogInv, LogInOrder
  <2>3. OrderedLog(x.frames, base)
    BY <1>2, <1>3, <1>5, <2>1, <2>2, OrderedAppend
  <2> QED BY <1>1, <1>7, <2>3 DEF RecInv, LogInv, LogInOrder
<1>10. MemoryCurrent'
  <2>1. FrameVersions(x, Len(x.frames)) = FrameVersions(w, Len(w.frames)) \cup f.versions
    BY <1>2, <1>3, <1>5, FrameVersionsAppend
  <2>2. memtable = FrameVersions(w, Len(w.frames))
    BY <1>1, <1>2 DEF RecInv, LogInv, MemoryCurrent
  <2>3. LastSequence(x, base) = f.last
    <3>1. x.frames # <<>> /\ x.frames[Len(x.frames)] = f
      BY <1>2, <1>5, <1>6
    <3> QED BY <3>1 DEF LastSequence
  <2>4. memtable' = FrameVersions(Log, Len(Log.frames))'
    BY <1>1, <1>7, <2>1, <2>2
  <2>5. head' = LastSequence(Log, current.durable)'
    BY <1>1, <1>7, <2>3
  <2>6. next' = head' + 1
    BY <1>1
  <2> QED BY <2>4, <2>5, <2>6 DEF MemoryCurrent
<1>11. AckedDurable'
  <2>1. CASE authoritative
    <3>1. DurableThrough(x, base) = f.last
      BY <1>2, <1>5, <1>6, <2>1 DEF DurableThrough
    <3> QED BY <1>1, <1>3, <1>7, <2>1, <3>1 DEF AckedDurable
  <2>2. CASE ~authoritative
    <3>1. w.synced = 0 \/ w.synced \in 1..Len(w.frames)
      BY <1>2, <1>4
    <3>2. x.synced = w.synced
      BY <1>5, <2>2
    <3>3. DurableThrough(x, base) = DurableThrough(w, base)
      BY <1>6, <3>1, <3>2 DEF DurableThrough
    <3> QED BY <1>1, <1>2, <1>7, <2>2, <3>3 DEF AckedDurable, RecInv, LogInv
  <2> QED BY <2>1, <2>2
<1>12. TargetFresh'
  BY <1>1 DEF TargetFresh, Idle
<1> QED BY <1>8, <1>9, <1>10, <1>11, <1>12 DEF RecInv, LogInv

\* A failed write leaves a log that may hold a frame more, and a poisoned writer.
LEMMA WriteFailsRec ==
    ASSUME TypeInv, CurrentInv, RecInv, NEW batch \in WriteBatch, WriteFails(batch)
    PROVE  RecInv'
<1> DEFINE f == NewFrame(batch)
           w == wals[wal]
           base == current.durable
<1>1. /\ up /\ ~poisoned /\ op = Idle /\ f.last <= MaxSeq /\ poisoned'
      /\ UNCHANGED <<current, up, next, memtable, head, op, acked>>
  BY DEF WriteFails, Ready
<1>2. /\ w \in WalFile /\ w.frames \in Seq(Frame) /\ w.synced \in Nat
      /\ wal \in Start /\ w = Log /\ wal = current.wal_start /\ base \in Nat
      /\ wals \in [Start -> WalFile \cup {NoFile}]
  BY <1>1, LogType DEF Log, TypeInv, TypeOK
<1>3. f \in Frame /\ f.last \in Nat /\ next \in Nat /\ f.last >= next
  <2>1. next \in Start
    BY DEF TypeInv, TypeOK
  <2>2. f \in Frame /\ f.last >= next
    BY <1>1, <2>1, NewFrameType
  <2> QED BY <2>1, <2>2, BoundsAssumption DEF Frame, Start
<1>4. w.hole = 0 /\ w.synced <= Len(w.frames)
  BY <1>2, LogType DEF RecInv, SyncedInside
<1>5. OrderedLog(w.frames, base) /\ LastSequence(w, base) <= f.last
  <2>1. OrderedLog(w.frames, base) /\ head = LastSequence(w, base) /\ next = head + 1
    BY <1>1, <1>2 DEF RecInv, LogInv, LogInOrder, MemoryCurrent
  <2>2. head \in Nat
    BY DEF TypeInv, TypeOK
  <2> QED BY <1>3, <2>1, <2>2
<1>6. \E x : /\ wals' = [wals EXCEPT ![wal] = x]
             /\ x.hole = 0 /\ x.synced = w.synced
             /\ w.synced <= Len(x.frames)
             /\ OrderedLog(x.frames, base)
             /\ \A i \in 1..Len(w.frames) : x.frames[i] = w.frames[i]
  <2>1. CASE wals' = [wals EXCEPT ![wal].frames = Append(w.frames, f)]
    <3> DEFINE x == [w EXCEPT !.frames = Append(w.frames, f)]
    <3>1. x.frames = Append(w.frames, f) /\ x.hole = 0 /\ x.synced = w.synced
      BY <1>2, <1>4 DEF WalFile
    <3>2. OrderedLog(x.frames, base)
      BY <1>2, <1>3, <1>5, <3>1, OrderedAppend
    <3>3. w.synced <= Len(x.frames) /\ \A i \in 1..Len(w.frames) : x.frames[i] = w.frames[i]
      BY <1>2, <1>3, <1>4, <3>1
    <3>4. wals' = [wals EXCEPT ![wal] = x]
      BY <2>1
    <3> QED BY <3>1, <3>2, <3>3, <3>4
  <2>2. CASE \E t \in {"clean", "short", "cut"} : wals' = [wals EXCEPT ![wal].tail = t]
    <3>1. PICK t \in {"clean", "short", "cut"} : wals' = [wals EXCEPT ![wal].tail = t]
      BY <2>2
    <3> DEFINE x == [w EXCEPT !.tail = t]
    <3>2. x.frames = w.frames /\ x.hole = 0 /\ x.synced = w.synced
      BY <1>2, <1>4 DEF WalFile
    <3>3. wals' = [wals EXCEPT ![wal] = x]
      BY <3>1
    <3> QED BY <1>4, <1>5, <3>2, <3>3
  <2> QED BY <2>1, <2>2 DEF WriteFails
<1>7. PICK x : /\ wals' = [wals EXCEPT ![wal] = x]
               /\ x.hole = 0 /\ x.synced = w.synced
               /\ w.synced <= Len(x.frames)
               /\ OrderedLog(x.frames, base)
               /\ \A i \in 1..Len(w.frames) : x.frames[i] = w.frames[i]
  BY <1>6
<1>8. Log' = x
  BY <1>1, <1>2, <1>7 DEF Log
<1>9. SyncedInside'
  BY <1>2, <1>7, SoundRewrite DEF RecInv
<1>10. LogInOrder'
  BY <1>1, <1>7, <1>8 DEF RecInv, LogInv, LogInOrder
<1>11. MemoryCurrent'
  BY <1>1 DEF RecInv, LogInv, MemoryCurrent
<1>12. AckedDurable'
  <2>1. w.synced = 0 \/ w.synced \in 1..Len(w.frames)
    BY <1>2, <1>4
  <2>2. DurableThrough(x, base) = DurableThrough(w, base)
    BY <1>7, <2>1 DEF DurableThrough
  <2> QED BY <1>1, <1>2, <1>8, <2>2 DEF AckedDurable, RecInv, LogInv
<1>13. TargetFresh'
  BY <1>1 DEF TargetFresh, Idle
<1> QED BY <1>9, <1>10, <1>11, <1>12, <1>13 DEF RecInv, LogInv

\* Syncing a log makes all of it durable.
LEMMA SyncedLog ==
    ASSUME NEW w \in WalFile, NEW base \in Nat, OrderedLog(w.frames, base),
           NEW x, x.frames = w.frames, x.synced = Len(w.frames)
    PROVE  DurableThrough(x, base) = LastSequence(w, base)
<1>1. w.frames \in Seq(Frame) /\ Len(w.frames) \in Nat
  BY DEF WalFile
<1>2. Len(w.frames) = 0 <=> w.frames = <<>>
  BY <1>1
<1> QED BY <1>1, <1>2 DEF DurableThrough, LastSequence

\* The steps that sync the log: what they acknowledge, if anything, is in it.
LEMMA SyncRec ==
    ASSUME TypeInv, CurrentInv, RecInv, NEW x, x.hole = 0, x.frames = Log.frames,
           x.synced = Len(Log.frames), wals' = [wals EXCEPT ![current.wal_start] = x],
           acked' \in Nat, acked' <= acked \/ acked' <= LastSequence(Log, current.durable),
           UNCHANGED <<current, up, next, poisoned, memtable, head>>
    PROVE  SyncedInside' /\ LogInv'
<1> DEFINE base == current.durable
<1>1. /\ Log \in WalFile /\ Log # NoFile /\ Log.frames \in Seq(Frame) /\ Log.synced \in Nat
      /\ base \in Nat /\ current.wal_start \in Start
      /\ wals \in [Start -> WalFile \cup {NoFile}]
  BY LogType DEF TypeInv, TypeOK
<1>2. Log.synced <= Len(Log.frames) /\ OrderedLog(Log.frames, base) /\ Len(Log.frames) \in Nat
  BY <1>1 DEF RecInv, SyncedInside, LogInv, LogInOrder, Log
<1>3. Log' = x
  BY <1>1 DEF Log
<1>4. SyncedInside'
  <2>1. x.synced <= Len(x.frames)
    BY <1>2
  <2> QED BY <1>1, <2>1, SoundRewrite DEF RecInv
<1>5. LogInOrder'
  BY <1>3 DEF RecInv, LogInv, LogInOrder, OrderedLog
<1>6. MemoryCurrent'
  <2>1. FrameVersions(Log, Len(Log.frames))' = FrameVersions(Log, Len(Log.frames))
    BY <1>3 DEF FrameVersions
  <2>2. LastSequence(Log, current.durable)' = LastSequence(Log, current.durable)
    BY <1>3 DEF LastSequence
  <2> QED BY <2>1, <2>2 DEF RecInv, LogInv, MemoryCurrent
<1>7. AckedDurable'
  <2>1. DurableThrough(x, base) = LastSequence(Log, base)
    BY <1>1, <1>2, SyncedLog
  <2>2. /\ DurableThrough(Log, base) \in Nat /\ LastSequence(Log, base) \in Nat
        /\ DurableThrough(Log, base) <= LastSequence(Log, base)
    BY <1>1, <1>2, DurableInLog, LastIsLargest
  <2>3. acked \in Nat /\ acked <= DurableThrough(Log, base)
    BY DEF TypeInv, TypeOK, RecInv, LogInv, AckedDurable
  <2>4. acked' <= LastSequence(Log, base)
    BY <2>2, <2>3
  <2> QED BY <1>3, <2>1, <2>4 DEF AckedDurable
<1> QED BY <1>4, <1>5, <1>6, <1>7 DEF LogInv

\* Database::sync acknowledges what is in the log.
LEMMA DatabaseSyncRec == ASSUME TypeInv, CurrentInv, RecInv, Sync PROVE RecInv'
<1>1. /\ up /\ ~poisoned /\ op = Idle /\ op' = Idle /\ acked' = next - 1
      /\ wals' = [wals EXCEPT ![wal] = Synced(wals[wal])]
      /\ UNCHANGED <<current, up, next, poisoned, memtable, head>>
  BY DEF Sync, Ready, memory
<1>2. wal = current.wal_start /\ Log \in WalFile /\ wals[wal] = Log /\ Log.hole = 0
  BY <1>1, LogType DEF Log, RecInv, SyncedInside
<1>3. /\ Synced(Log).hole = 0 /\ Synced(Log).frames = Log.frames
      /\ Synced(Log).synced = Len(Log.frames)
  BY <1>2 DEF Synced, WalFile
<1>4. head \in Nat /\ next = head + 1 /\ head = LastSequence(Log, current.durable)
  BY <1>1 DEF TypeInv, TypeOK, RecInv, LogInv, MemoryCurrent
<1>5. acked' \in Nat /\ acked' <= LastSequence(Log, current.durable)
  BY <1>1, <1>4
<1>6. SyncedInside' /\ LogInv'
  BY <1>1, <1>2, <1>3, <1>5, SyncRec
<1>7. TargetFresh'
  BY <1>1 DEF TargetFresh, Idle
<1> QED BY <1>6, <1>7 DEF RecInv

\* So does a flush when it has synced the log.
LEMMA FlushSyncWalRec ==
    ASSUME TypeInv, CurrentInv, RecInv, NEW compact \in BOOLEAN, NEW protected,
           FlushSyncWal(compact, protected)
    PROVE  RecInv'
<1>1. /\ up /\ ~poisoned /\ acked' = IF memtable = {} THEN head ELSE acked
      /\ wals' = [wals EXCEPT ![wal] = Synced(wals[wal])]
      /\ UNCHANGED <<current, up, next, poisoned, memtable, head>>
  BY DEF FlushSyncWal, Ready
<1>2. wal = current.wal_start /\ Log \in WalFile /\ wals[wal] = Log /\ Log.hole = 0
  BY <1>1, LogType DEF Log, RecInv, SyncedInside
<1>3. /\ Synced(Log).hole = 0 /\ Synced(Log).frames = Log.frames
      /\ Synced(Log).synced = Len(Log.frames)
  BY <1>2 DEF Synced, WalFile
<1>4. head \in Nat /\ acked \in Nat /\ head = LastSequence(Log, current.durable)
  BY <1>1 DEF TypeInv, TypeOK, RecInv, LogInv, MemoryCurrent
<1>5. acked' \in Nat /\ (acked' <= acked \/ acked' <= LastSequence(Log, current.durable))
  BY <1>1, <1>4
<1>6. SyncedInside' /\ LogInv'
  BY <1>1, <1>2, <1>3, <1>5, SyncRec
<1>7. op'.stage \in {"synced", "merge", "idle"}
  <2>1. CASE memtable # {}
    BY <2>1 DEF FlushSyncWal
  <2>2. CASE memtable = {} /\ compact
    BY <2>2 DEF FlushSyncWal
  <2>3. CASE memtable = {} /\ ~compact
    BY <2>3 DEF FlushSyncWal, Idle
  <2> QED BY <2>1, <2>2, <2>3
<1>8. TargetFresh'
  BY <1>7 DEF TargetFresh
<1> QED BY <1>6, <1>8 DEF RecInv

\* A successor WAL is empty, and never the log in use.
LEMMA SuccessorRec ==
    ASSUME TypeInv, CurrentInv, RecInv, NEW start \in Start, SuccessorWal(start),
           current' = current
    PROVE  /\ SyncedInside' /\ Log' = Log
           /\ wals'[start].frames = <<>>
<1>1. Log # NoFile /\ current.wal_start \in Start /\ wals \in [Start -> WalFile \cup {NoFile}]
  BY LogType DEF TypeInv, TypeOK
<1>2. EmptyWal.frames = <<>> /\ EmptyWal.synced = 0 /\ EmptyWal.hole = 0
  BY DEF EmptyWal
<1>3. CASE wals[start] = NoFile
  <2>1. wals' = [wals EXCEPT ![start] = EmptyWal]
    BY <1>3 DEF SuccessorWal
  <2>2. SyncedInside'
    <3>1. EmptyWal.synced <= Len(EmptyWal.frames)
      BY <1>2
    <3> QED BY <1>2, <2>1, <3>1, SoundRewrite DEF RecInv
  <2>3. Log' = Log
    BY <1>1, <1>3, <2>1 DEF Log
  <2> QED BY <1>1, <1>2, <2>1, <2>2, <2>3
<1>4. CASE wals[start] # NoFile
  <2>1. wals' = wals /\ wals[start].frames = <<>>
    BY <1>4 DEF SuccessorWal, SuccessorUsable
  <2> QED BY <2>1 DEF RecInv, SyncedInside, Log
<1> QED BY <1>3, <1>4

\* The flush has a log to publish.
LEMMA FlushSuccessorWalRec ==
    ASSUME TypeInv, CurrentInv, RecInv, FlushSuccessorWal PROVE RecInv'
<1> DEFINE t == NextManifest(next - 1, next, manifest.segments \cup {memtable})
<1>1. /\ op \in OpType /\ op.kind = "flush" /\ SuccessorWal(next) /\ next \in Start
      /\ op' = [op EXCEPT !.stage = "ready", !.target = t]
      /\ UNCHANGED <<current, up, next, poisoned, memtable, head, acked>>
  BY DEF FlushSuccessorWal, TypeInv, TypeOK, OpType
<1>2. SyncedInside' /\ Log' = Log /\ wals'[next].frames = <<>>
  BY <1>1, SuccessorRec
<1>3. LogInv'
  BY <1>1, <1>2, LogKept DEF RecInv
<1>4. op'.kind = "flush" /\ op'.target = t /\ t.wal_start = next
  BY <1>1 DEF OpType, NextManifest
<1>5. TargetFresh'
  BY <1>2, <1>4 DEF TargetFresh
<1> QED BY <1>2, <1>3, <1>5 DEF RecInv

\* The installation has a log to publish.
LEMMA InstallSuccessorWalRec ==
    ASSUME TypeInv, CurrentInv, RecInv, InstallSuccessorWal PROVE RecInv'
<1>1. /\ op \in OpType /\ op.kind = "install" /\ op.stage = "segment"
      /\ SuccessorWal(op.target.wal_start) /\ op' = [op EXCEPT !.stage = "ready"]
      /\ UNCHANGED <<current, up, next, poisoned, memtable, head, acked>>
  BY DEF InstallSuccessorWal, TypeInv, TypeOK, OpType
<1>2. op.target.wal_start \in Start
  BY <1>1 DEF TypeInv, Prepared, Manifest
<1>3. SyncedInside' /\ Log' = Log /\ wals'[op.target.wal_start].frames = <<>>
  BY <1>1, <1>2, SuccessorRec
<1>4. LogInv'
  BY <1>1, <1>3, LogKept DEF RecInv
<1>5. op'.kind = "install" /\ op'.target = op.target
  BY <1>1 DEF OpType
<1>6. TargetFresh'
  BY <1>3, <1>5 DEF TargetFresh
<1> QED BY <1>3, <1>4, <1>6 DEF RecInv

\* A WAL whose creation is interrupted is not the log in use.
LEMMA SuccessorInterruptedRec ==
    ASSUME TypeInv, CurrentInv, RecInv, NEW start \in Start, SuccessorInterrupted(start)
    PROVE  RecInv'
<1> DEFINE x == [EmptyWal EXCEPT !.tail = "headerless"]
<1>1. /\ wals[start] = NoFile /\ wals' = [wals EXCEPT ![start] = x] /\ op' = Idle
      /\ UNCHANGED <<current, up, next, poisoned, memtable, head, acked>>
  BY DEF SuccessorInterrupted
<1>2. x.frames = <<>> /\ x.synced = 0 /\ x.hole = 0
  BY DEF EmptyWal
<1>3. SyncedInside'
  <2>1. x.synced <= Len(x.frames)
    BY <1>2
  <2> QED BY <1>1, <1>2, <2>1, SoundRewrite DEF RecInv
<1>4. Log' = Log
  BY <1>1, LogType DEF Log, TypeInv, TypeOK
<1>5. LogInv'
  BY <1>1, <1>4, LogKept DEF RecInv
<1>6. TargetFresh'
  BY <1>1 DEF TargetFresh, Idle
<1> QED BY <1>3, <1>5, <1>6 DEF RecInv

\* A compaction prepares a manifest that ends where the current one does.
LEMMA CompactMergeRec ==
    ASSUME TypeInv, RecInv, CompactMerge PROVE RecInv'
<1> DEFINE protected == {s \in op.protected : s <= manifest.durable} \cup {manifest.durable}
           kept == Retained(Contents(manifest), protected)
           output == IF kept = {} THEN {} ELSE {kept}
           t == NextManifest(manifest.durable, manifest.wal_start, output)
<1>1. /\ op \in OpType /\ op.kind = "compact"
      /\ UNCHANGED <<current, wals, manifest, up, next, poisoned, memtable, head, acked>>
  BY DEF CompactMerge, TypeInv, TypeOK, OpType
<1>2. SyncedInside' /\ LogInv'
  BY <1>1, LogKept DEF RecInv, SyncedInside, Log
<1>3. TargetFresh'
  <2>1. CASE manifest.segments = {}
    BY <2>1 DEF CompactMerge, TargetFresh, Idle
  <2>2. CASE manifest.segments # {}
    <3>1. op' = [op EXCEPT !.stage = "ready", !.target = t]
      BY <2>2 DEF CompactMerge
    <3>2. op'.kind = "compact" /\ op'.target = t /\ t.durable = manifest.durable
      BY <1>1, <3>1 DEF OpType, NextManifest
    <3> QED BY <1>1, <3>2 DEF TargetFresh
  <2> QED BY <2>1, <2>2
<1> QED BY <1>2, <1>3 DEF RecInv

\* Publication: the new manifest starts an empty log, or keeps the one in use.
LEMMA PublishPointerRec ==
    ASSUME TypeInv, CurrentInv, RecInv, PublishPointer PROVE RecInv'
<1> DEFINE t == op.target
<1>1. /\ up /\ op.stage = "persisted" /\ op \in OpType /\ current' = t /\ acked' = t.durable
      /\ UNCHANGED <<wals, up>> /\ AdoptTarget
  BY DEF PublishPointer, TypeInv, TypeOK, OpType
<1>2. /\ t \in Manifest /\ wals[t.wal_start] # NoFile /\ t.wal_start \in Start
      /\ t.durable \in Nat
  BY <1>1 DEF TypeInv, Prepared, Manifest
<1>3. SyncedInside'
  BY <1>1 DEF RecInv, SyncedInside
<1>4. Log' = wals[t.wal_start]
  BY <1>1 DEF Log
<1>5. TargetFresh'
  <2>1. op'.stage \notin {"ready", "persisted"}
    <3>1. CASE op.kind = "flush" /\ op.compact
      <4>1. op' = [op EXCEPT !.kind = "compact", !.stage = "merge", !.target = NoFile]
        BY <3>1 DEF PublishPointer
      <4> QED BY <1>1, <4>1 DEF OpType
    <3>2. CASE ~(op.kind = "flush" /\ op.compact)
      BY <3>2 DEF PublishPointer, Idle
    <3> QED BY <3>1, <3>2
  <2> QED BY <2>1 DEF TargetFresh
<1>6. CASE op.kind = "compact"
  <2>1. t.wal_start = current.wal_start /\ t.durable = current.durable
    BY <1>1, <1>6 DEF TypeInv, Prepared, CurrentInv, RecInv, TargetFresh
  <2>2. UNCHANGED <<next, poisoned, memtable, head>>
    BY <1>1, <1>6 DEF AdoptTarget
  <2>3. Log' = Log
    BY <1>4, <2>1 DEF Log
  <2>4. LogInOrder'
    BY <1>1, <2>1, <2>3 DEF RecInv, LogInv, LogInOrder
  <2>5. MemoryCurrent'
    BY <1>1, <2>1, <2>2, <2>3 DEF RecInv, LogInv, MemoryCurrent
  <2>6. AckedDurable'
    <3>1. Log.synced <= Len(Log.frames) /\ OrderedLog(Log.frames, current.durable)
      BY LogType DEF RecInv, SyncedInside, LogInv, LogInOrder, Log
    <3>2. current.durable <= DurableThrough(Log, current.durable)
      BY <3>1, LogType, DurableInLog
    <3> QED BY <1>1, <2>1, <2>3, <3>2 DEF AckedDurable
  <2> QED BY <1>3, <1>5, <2>4, <2>5, <2>6 DEF RecInv, LogInv
<1>7. CASE op.kind # "compact"
  <2>1. /\ next' = t.durable + 1 /\ poisoned' = FALSE /\ memtable' = {} /\ head' = t.durable
    BY <1>1, <1>7 DEF AdoptTarget
  <2>2. Log'.frames = <<>> /\ Len(Log'.frames) = 0
    BY <1>1, <1>4, <1>7 DEF RecInv, TargetFresh
  <2>3. Log'.synced = 0
    <3>1. wals[t.wal_start] \in WalFile
      BY <1>2 DEF TypeInv, TypeOK
    <3>2. wals[t.wal_start].synced \in Nat /\ wals[t.wal_start].synced <= 0
      BY <1>2, <1>4, <2>2, <3>1 DEF RecInv, SyncedInside, WalFile
    <3> QED BY <1>4, <3>2
  <2>4. t.wal_start = t.durable + 1
    BY <1>1, <1>7 DEF TypeInv, Prepared
  <2>5. LogInOrder'
    BY <1>1, <2>2, <2>4 DEF LogInOrder, OrderedLog
  <2>6. MemoryCurrent'
    <3>1. FrameVersions(Log, Len(Log.frames))' = {}
      BY <2>2 DEF FrameVersions
    <3>2. LastSequence(Log, current.durable)' = t.durable
      BY <1>1, <2>2 DEF LastSequence
    <3> QED BY <2>1, <3>1, <3>2 DEF MemoryCurrent
  <2>7. AckedDurable'
    BY <1>1, <1>2, <2>3 DEF AckedDurable, DurableThrough
  <2> QED BY <1>3, <1>5, <2>5, <2>6, <2>7 DEF RecInv, LogInv
<1> QED BY <1>6, <1>7

\* A crash leaves a prefix of the log that holds everything that was synced.
LEMMA CrashRec ==
    ASSUME TypeInv, FilesInv, CurrentInv, RecInv, Crash
    PROVE  RecInv'
<1> DEFINE w == wals[wal]
           base == current.durable
<1>1. up /\ ~up' /\ op' = Idle /\ UNCHANGED <<current, acked>>
  BY DEF Crash
<1>2. /\ w \in WalFile /\ w.frames \in Seq(Frame) /\ w.synced \in Nat /\ Len(w.frames) \in Nat
      /\ wal \in Start /\ w = Log /\ wal = current.wal_start /\ base \in Nat
      /\ wals \in [Start -> WalFile \cup {NoFile}]
  BY <1>1, LogType DEF Log, TypeInv, TypeOK
<1>3. w.hole = 0 /\ w.synced <= Len(w.frames) /\ OrderedLog(w.frames, base)
  BY <1>2, LogType DEF RecInv, SyncedInside, LogInv, LogInOrder
<1>4. PICK x \in Survivor(w),
         gone \in SUBSET {s \in Start : wals[s] # NoFile /\ ~wals[s].named} :
            wals' = [s \in Start |-> IF s \in gone THEN NoFile
                                     ELSE IF s = wal THEN x ELSE wals[s]]
  BY DEF Crash
<1>5. gone = {}
  BY DEF FilesInv, AllNamed
<1>6. PICK n \in w.synced..Len(w.frames) : \E t \in TailsAfter(w, n) : x = Cut(w, n, t)
  BY <1>2, <1>3, SurvivorCases
<1>7. /\ x.frames = SubSeq(w.frames, 1, n) /\ x.synced = w.synced /\ x.hole = 0
      /\ n \in 0..Len(w.frames) /\ w.synced <= n
  <2>1. n \in 0..Len(w.frames) /\ w.synced <= n
    BY <1>2, <1>6
  <2> QED BY <1>2, <1>6, <2>1 DEF Cut, WalFile
<1>8. Len(x.frames) = n /\ \A i \in 1..n : x.frames[i] = w.frames[i]
  BY <1>2, <1>7
<1>9. wals' = [wals EXCEPT ![wal] = x] /\ Log' = x
  <2>1. wals' = [wals EXCEPT ![wal] = x]
    BY <1>2, <1>4, <1>5
  <2> QED BY <1>1, <1>2, <2>1 DEF Log
<1>10. SyncedInside'
  <2>1. x.synced <= Len(x.frames)
    BY <1>7, <1>8
  <2> QED BY <1>2, <1>7, <1>9, <2>1, SoundRewrite DEF RecInv
<1>11. LogInOrder'
  <2>1. OrderedLog(x.frames, base)
    BY <1>2, <1>3, <1>7, OrderedPrefix
  <2> QED BY <1>1, <1>9, <2>1 DEF RecInv, LogInv, LogInOrder
<1>12. MemoryCurrent'
  BY <1>1 DEF MemoryCurrent
<1>13. AckedDurable'
  <2>1. w.synced = 0 \/ w.synced \in 1..n
    BY <1>2, <1>7
  <2>2. DurableThrough(x, base) = DurableThrough(w, base)
    BY <1>7, <1>8, <2>1 DEF DurableThrough
  <2> QED BY <1>1, <1>2, <1>9, <2>2 DEF AckedDurable, RecInv, LogInv
<1>14. TargetFresh'
  BY <1>1 DEF TargetFresh, Idle
<1> QED BY <1>10, <1>11, <1>12, <1>13, <1>14 DEF RecInv, LogInv

\* Database::open rebuilds the memory from the log.
LEMMA OpenRec == ASSUME TypeInv, CurrentInv, RecInv, Open PROVE RecInv'
<1>1. /\ ~up /\ up' /\ UNCHANGED <<current, wals, op, acked>>
      /\ next' = LastSequence(Log, current.wal_start - 1) + 1
      /\ memtable' = FrameVersions(Log, Len(Log.frames))
      /\ head' = LastSequence(Log, current.durable)
  BY DEF Open, files, Log
<1>2. op = Idle
  BY <1>1 DEF TypeInv, Prepared
<1>3. current.wal_start - 1 = current.durable
  BY LogType DEF RecInv, LogInv, LogInOrder
<1>4. Log' = Log
  BY <1>1 DEF Log
<1>5. MemoryCurrent'
  BY <1>1, <1>3, <1>4 DEF MemoryCurrent
<1>6. LogInOrder' /\ AckedDurable'
  BY <1>1, <1>4 DEF RecInv, LogInv, LogInOrder, AckedDurable
<1>7. SyncedInside' /\ TargetFresh'
  BY <1>1, <1>2 DEF RecInv, SyncedInside, TargetFresh, Idle
<1> QED BY <1>5, <1>6, <1>7 DEF RecInv, LogInv

\* The repair syncs the log and cuts what follows it.
LEMMA RepairTornTailRec == ASSUME TypeInv, CurrentInv, RecInv, RepairTornTail PROVE RecInv'
<1> DEFINE x == [Synced(Log) EXCEPT !.tail = "clean"]
<1>1. /\ ~up /\ UNCHANGED <<current, up, next, poisoned, memtable, head, op, acked>>
      /\ wals' = [wals EXCEPT ![current.wal_start] = x]
  BY DEF RepairTornTail, memory, Log
<1>2. op = Idle /\ acked \in Nat
  BY <1>1 DEF TypeInv, TypeOK, Prepared
<1>3. Log \in WalFile /\ Log.hole = 0
  BY LogType DEF Log, RecInv, SyncedInside
<1>4. x.hole = 0 /\ x.frames = Log.frames /\ x.synced = Len(Log.frames)
  BY <1>3 DEF Synced, WalFile
<1>5. acked' \in Nat /\ acked' <= acked
  BY <1>1, <1>2
<1>6. SyncedInside' /\ LogInv'
  BY <1>1, <1>4, <1>5, SyncRec
<1>7. TargetFresh'
  BY <1>1, <1>2 DEF TargetFresh, Idle
<1> QED BY <1>6, <1>7 DEF RecInv

\* Garbage collection does not touch the log in use.
LEMMA GarbageCollectRec ==
    ASSUME TypeInv, CurrentInv, RecInv, NEW M \in SUBSET DeadManifests,
           NEW S \in SUBSET DeadSegments, NEW W \in SUBSET DeadWals, GarbageCollect(M, S, W)
    PROVE  RecInv'
<1>1. /\ op = Idle
      /\ UNCHANGED <<current, up, next, poisoned, memtable, head, op, acked>>
  BY DEF GarbageCollect, Ready, memory
<1>2. /\ wals \in [Start -> WalFile \cup {NoFile}]
      /\ \A s \in Start : wals'[s] = wals[s] \/ wals'[s] = NoFile
            \/ (wals[s] \in WalFile /\ wals[s] # NoFile /\ wals'[s] = [wals[s] EXCEPT !.named = TRUE])
  BY DEF GarbageCollect, TypeInv, TypeOK
<1>3. \A y \in WalFile : LET z == [y EXCEPT !.named = TRUE]
                         IN  z.frames = y.frames /\ z.synced = y.synced /\ z.hole = y.hole
  BY DEF WalFile
<1>4. SyncedInside'
  <2> SUFFICES ASSUME NEW s \in Start, wals'[s] # NoFile
               PROVE  wals'[s].hole = 0 /\ wals'[s].synced <= Len(wals'[s].frames)
    BY DEF SyncedInside
  <2>1. CASE wals'[s] = wals[s]
    BY <2>1 DEF RecInv, SyncedInside
  <2>2. CASE wals[s] \in WalFile /\ wals[s] # NoFile /\ wals'[s] = [wals[s] EXCEPT !.named = TRUE]
    <3>1. wals[s].hole = 0 /\ wals[s].synced <= Len(wals[s].frames)
      BY <2>2 DEF RecInv, SyncedInside
    <3> QED BY <1>3, <2>2, <3>1
  <2> QED BY <1>2, <2>1, <2>2
<1>5. Log'.frames = Log.frames /\ Log'.synced = Log.synced
  <2>1. current.wal_start \notin W
    BY DEF DeadWals, RetainedWals, RetainedManifests, CurrentInv
  <2>2. current.wal_start \in Start /\ Log # NoFile
    BY LogType
  <2>3. wals'[current.wal_start] # NoFile
    BY <2>1, <2>2, CollectedWals DEF Log
  <2> QED BY <1>1, <1>2, <1>3, <2>2, <2>3 DEF Log
<1>6. LogInv'
  BY <1>1, <1>5, LogKept DEF RecInv
<1>7. TargetFresh'
  BY <1>1 DEF TargetFresh, Idle
<1> QED BY <1>4, <1>6, <1>7 DEF RecInv

\* Steps that touch neither the logs nor what is in memory about them.
LEMMA QuietRec ==
    ASSUME RecInv, UNCHANGED <<current, wals, up, next, poisoned, memtable, head, acked>>,
           TargetFresh'
    PROVE  RecInv'
<1>1. Log' = Log
  BY DEF Log
<1>2. LogInv'
  BY <1>1, LogKept DEF RecInv
<1>3. SyncedInside'
  BY DEF RecInv, SyncedInside
<1> QED BY <1>2, <1>3 DEF RecInv

\* Every step keeps the invariant.
LEMMA NextRec ==
    ASSUME "sync" \notin Faults, "dirsync" \notin Faults,
           TypeInv, FilesInv, CurrentInv, RecInv, [Next]_vars
    PROVE  RecInv'
<1>1. CASE Next
  <2>1. ASSUME NEW batch \in WriteBatch, NEW authoritative \in BOOLEAN,
               Write(batch, authoritative)
        PROVE  RecInv'
    BY <2>1, WriteRec
  <2>2. ASSUME NEW batch \in WriteBatch, WriteFails(batch) PROVE RecInv'
    BY <2>2, WriteFailsRec
  <2>3. ASSUME NEW compact \in BOOLEAN, NEW protected, FlushSyncWal(compact, protected)
        PROVE  RecInv'
    BY <2>3, FlushSyncWalRec
  <2>4. CASE FlushWriteSegment
    <3>1. /\ UNCHANGED <<current, wals, up, next, poisoned, memtable, head, acked>>
          /\ op \in OpType /\ op' = [op EXCEPT !.stage = "segment"]
      BY <2>4 DEF FlushWriteSegment, TypeInv, TypeOK, OpType
    <3>2. TargetFresh'
      BY <3>1 DEF TargetFresh, OpType
    <3> QED BY <3>1, <3>2, QuietRec
  <2>5. ASSUME NEW bundle \in Bundle, InstallSegments(bundle) PROVE RecInv'
    <3>1. /\ UNCHANGED <<current, wals, up, next, poisoned, memtable, head, acked>>
          /\ op'.stage = "segment"
      BY <2>5 DEF InstallSegments, Idle
    <3>2. TargetFresh'
      BY <3>1 DEF TargetFresh
    <3> QED BY <3>1, <3>2, QuietRec
  <2>6. ASSUME NEW start \in Start, SuccessorInterrupted(start) PROVE RecInv'
    BY <2>6, SuccessorInterruptedRec
  <2>7. CASE PersistManifest
    <3>1. /\ UNCHANGED <<current, wals, up, next, poisoned, memtable, head, acked, manifest>>
          /\ op \in OpType /\ op.stage = "ready" /\ op' = [op EXCEPT !.stage = "persisted"]
      BY <2>7 DEF PersistManifest, TypeInv, TypeOK, OpType
    <3>2. op'.kind = op.kind /\ op'.target = op.target
      BY <3>1 DEF OpType
    <3>3. TargetFresh'
      BY <3>1, <3>2 DEF RecInv, TargetFresh
    <3> QED BY <3>1, <3>3, QuietRec
  <2>8. CASE Abort
    <3>1. /\ UNCHANGED <<current, wals, up, next, poisoned, memtable, head, acked>> /\ op' = Idle
      BY <2>8 DEF Abort, files
    <3>2. TargetFresh'
      BY <3>1 DEF TargetFresh, Idle
    <3> QED BY <3>1, <3>2, QuietRec
  <2>9. ASSUME TakeSnapshot \/ \E p \in pins : DropSnapshot(p) PROVE RecInv'
    <3>1. UNCHANGED <<files, memory, acked>>
      BY <2>9 DEF TakeSnapshot, DropSnapshot
    <3>2. TargetFresh'
      BY <3>1 DEF files, memory, RecInv, TargetFresh
    <3> QED BY <3>1, <3>2, QuietRec DEF files, memory
  <2>10. ASSUME NEW name \in Name, Checkpoint(name) \/ ReleaseCheckpoint(name) PROVE RecInv'
    <3>1. UNCHANGED <<current, wals, memory, acked>>
      BY <2>10 DEF Checkpoint, ReleaseCheckpoint
    <3>2. TargetFresh'
      BY <3>1 DEF memory, RecInv, TargetFresh
    <3> QED BY <3>1, <3>2, QuietRec DEF memory
  <2>11. ASSUME NEW M \in SUBSET DeadManifests, NEW S \in SUBSET DeadSegments,
                NEW W \in SUBSET DeadWals, GarbageCollect(M, S, W)
         PROVE  RecInv'
    BY <2>11, GarbageCollectRec
  <2>12. ~SyncFails /\ ~PublishPointerUnsynced
    BY DEF SyncFails, PublishPointerUnsynced
  <2> QED
    BY <1>1, <2>1, <2>2, <2>3, <2>4, <2>5, <2>6, <2>7, <2>8, <2>9, <2>10, <2>11, <2>12,
       DatabaseSyncRec, FlushSuccessorWalRec, CompactMergeRec, InstallSuccessorWalRec,
       PublishPointerRec, CrashRec, OpenRec, RepairTornTailRec
    DEF Next
<1>2. CASE UNCHANGED vars
  <2>1. TargetFresh'
    BY <1>2 DEF vars, RecInv, TargetFresh
  <2> QED BY <1>2, <2>1, QuietRec DEF vars
<1> QED BY <1>1, <1>2

\* The invariants together hold in every reachable state.
LEMMA RecoveryInvariant ==
    ASSUME FileSyncPersistsName = TRUE, "sync" \notin Faults, "dirsync" \notin Faults
    PROVE  Spec => [](TypeInv /\ CurrentInv /\ RecInv)
<1>1. Spec => [](TypeInv /\ FilesInv)
  BY InitType, NextType, InitFiles, NextFiles, PTL DEF Spec
<1>2. Spec => []CurrentInv
  BY <1>1, InitCurrent, NextCurrent, PTL DEF Spec
<1>3. Spec => []RecInv
  BY <1>1, <1>2, InitRec, NextRec, PTL DEF Spec
<1> QED BY <1>1, <1>2, <1>3, PTL

\* A restart changes nothing: in every reachable state, while the writer is sound,
\* Database::open would rebuild exactly the Database that is in memory.
THEOREM RestartChangesNothing ==
    ASSUME FileSyncPersistsName = TRUE, "sync" \notin Faults, "dirsync" \notin Faults
    PROVE  Spec => []MemoryMatchesFiles
<1>1. TypeInv /\ CurrentInv /\ RecInv => MemoryMatchesFiles
  <2> SUFFICES ASSUME TypeInv, CurrentInv, RecInv, up, ~poisoned
               PROVE  /\ manifest = current /\ wal = current.wal_start /\ Log # NoFile
                      /\ memtable = FrameVersions(Log, Len(Log.frames))
                      /\ head = LastSequence(Log, current.durable)
                      /\ next = head + 1
    BY DEF MemoryMatchesFiles, Log
  <2>1. manifest = current /\ wal = current.wal_start /\ Log # NoFile
    BY LogType DEF CurrentInv
  <2> QED BY <2>1 DEF RecInv, LogInv, MemoryCurrent
<1> QED BY <1>1, RecoveryInvariant, PTL

\* Nothing acknowledged as durable, by an Authoritative write, a sync or a flush,
\* is lost in a crash: CURRENT and its WAL recover to a state that includes it.
THEOREM AcknowledgedIsDurable ==
    ASSUME FileSyncPersistsName = TRUE, "sync" \notin Faults, "dirsync" \notin Faults
    PROVE  Spec => []AckedSurvives
<1>1. TypeInv /\ CurrentInv /\ RecInv => AckedSurvives
  <2> SUFFICES ASSUME TypeInv, CurrentInv, RecInv
               PROVE  Log # NoFile /\ acked <= LastSequence(Log, current.durable)
    BY DEF AckedSurvives, Log
  <2>1. /\ Log # NoFile /\ Log \in WalFile /\ current.durable \in Nat
        /\ Log.synced <= Len(Log.frames) /\ OrderedLog(Log.frames, current.durable)
    BY LogType DEF RecInv, SyncedInside, LogInv, LogInOrder, Log
  <2>2. acked \in Nat /\ acked <= DurableThrough(Log, current.durable)
    BY DEF TypeInv, TypeOK, RecInv, LogInv, AckedDurable
  <2>3. /\ DurableThrough(Log, current.durable) \in Nat
        /\ LastSequence(Log, current.durable) \in Nat
        /\ DurableThrough(Log, current.durable) <= LastSequence(Log, current.durable)
    BY <2>1, DurableInLog, LastIsLargest
  <2> QED BY <2>1, <2>2, <2>3
<1> QED BY <1>1, RecoveryInvariant, PTL

(***************************************************************************)
(* The files implement the abstract store.  Its trail has one state for    *)
(* each number of frames a crash can leave of the log; what reads are      *)
(* answered from is the state that the frames known to the Database        *)
(* recover to, all of them unless the last write failed.                   *)
(***************************************************************************)

\* A state of the abstract store.
State == [seq : Nat, view : [Key -> Value \cup {None}]]

\* The sequence that the first n frames of the log recover to.
SeqAt(n) == IF n = 0 THEN current.durable ELSE Log.frames[n].last

\* The open Database knows the first n frames: all of them, or all but the one whose write
\* failed.
Knows(n) ==
    /\ n \in Log.synced..Len(Log.frames)
    /\ head = SeqAt(n)
    /\ n = Len(Log.frames) \/ (n + 1 = Len(Log.frames) /\ head < Log.frames[n + 1].last)

\* Only an open Database can be poisoned, and it knows a prefix of the log.
KnownInv == poisoned => up /\ \E n \in Nat : Knows(n)

\* The invariants of the files, the log, the reads and the writer.
StoreInv == TypeInv /\ FilesInv /\ CurrentInv /\ RecInv /\ ReadInv /\ KnownInv

\* The log in use, and the sequences in it.
LEMMA LogFacts ==
    ASSUME StoreInv
    PROVE  /\ Log \in WalFile /\ Log # NoFile /\ Log.frames \in Seq(Frame)
           /\ Len(Log.frames) \in Nat /\ Log.synced \in 0..Len(Log.frames)
           /\ current.durable \in Nat /\ LogOK(Log.frames, current.durable)
           /\ Contents(current) \in SUBSET Version
           /\ \A v \in Contents(current) : v.seq <= current.durable
           /\ \A n \in 0..Len(Log.frames) : SeqAt(n) \in Nat /\ current.durable <= SeqAt(n)
<1>1. /\ Log \in WalFile /\ Log # NoFile /\ Log.frames \in Seq(Frame) /\ Log.synced \in Nat
      /\ current.durable \in Nat /\ current.wal_start \in Start
      /\ current.wal_start = current.durable + 1
      /\ Log.synced <= Len(Log.frames)
      /\ Contents(current) \in SUBSET Version /\ \A v \in Contents(current) : v.seq <= current.durable
  BY LogType, ReadTypes DEF StoreInv, RecInv, SyncedInside, ReadInv, Made, Log
<1>2. Len(Log.frames) \in Nat
  BY <1>1
<1>3. LogOK(Log.frames, current.durable)
  <2>1. current.wal_start - 1 = current.durable
    BY <1>1
  <2> QED BY <1>1, <2>1 DEF StoreInv, ReadInv, LogsOK, Log
<1>4. ASSUME NEW n \in 0..Len(Log.frames)
      PROVE  SeqAt(n) \in Nat /\ current.durable <= SeqAt(n)
  <2>1. CASE n = 0
    BY <1>1, <2>1 DEF SeqAt
  <2>2. CASE n # 0
    <3>1. n \in 1..Len(Log.frames)
      BY <2>2
    <3>2. Log.frames[n].last \in 1..MaxSeq /\ current.durable <= Log.frames[n].last
      BY <1>1, <1>3, <3>1, FramesType DEF LogOK, OrderedLog
    <3> QED BY <2>2, <3>2, BoundsAssumption DEF SeqAt
  <2> QED BY <2>1, <2>2
<1> QED BY <1>1, <1>2, <1>3, <1>4

\* What the first n frames hold is newer than the segments and within their sequence.
LEMMA FrameVersionsOK ==
    ASSUME StoreInv, NEW n \in 0..Len(Log.frames)
    PROVE  /\ FrameVersions(Log, n) \in SUBSET Version
           /\ \A v \in FrameVersions(Log, n) : current.durable < v.seq /\ v.seq <= SeqAt(n)
<1> SUFFICES ASSUME NEW i \in 1..n, NEW v \in Log.frames[i].versions
             PROVE  v \in Version /\ current.durable < v.seq /\ v.seq <= SeqAt(n)
  BY DEF FrameVersions
<1>1. i \in 1..Len(Log.frames) /\ n \in i..Len(Log.frames) /\ n \in 1..Len(Log.frames) /\ n # 0
  BY LogFacts
<1>2. /\ Log.frames[i].last \in 1..MaxSeq /\ Log.frames[n].last \in 1..MaxSeq
      /\ Log.frames[i].versions \in SUBSET Version
  BY <1>1, LogFacts, FramesType
<1>3. /\ current.durable < v.seq /\ v.seq <= Log.frames[i].last
      /\ Log.frames[i].last <= Log.frames[n].last
  BY <1>1, LogFacts DEF LogOK, OrderedLog
<1>4. v \in Version /\ v.seq \in Nat
  BY <1>2 DEF Version
<1> QED BY <1>1, <1>2, <1>3, <1>4, BoundsAssumption DEF SeqAt

\* The states a restart can find are states of the abstract store.
LEMMA RecoveredType ==
    ASSUME StoreInv, NEW n \in 0..Len(Log.frames)
    PROVE  /\ RecoveredState(n) = [seq  |-> SeqAt(n),
                                   view |-> ViewAt(Contents(current) \cup FrameVersions(Log, n), SeqAt(n))]
           /\ RecoveredState(n) \in State
<1>1. RecoveredState(n) = [seq  |-> SeqAt(n),
                           view |-> ViewAt(Contents(current) \cup FrameVersions(Log, n), SeqAt(n))]
  BY DEF RecoveredState, SeqAt, Log
<1>2. SeqAt(n) \in Nat /\ Contents(current) \cup FrameVersions(Log, n) \in SUBSET Version
  BY LogFacts, FrameVersionsOK
<1>3. ViewAt(Contents(current) \cup FrameVersions(Log, n), SeqAt(n)) \in [Key -> Value \cup {None}]
  BY <1>2, ReadAtType DEF ViewAt
<1>4. ASSUME NEW q \in Nat, NEW view \in [Key -> Value \cup {None}]
      PROVE  [seq |-> q, view |-> view] \in State
  BY DEF State
<1>5. [seq |-> SeqAt(n), view |-> ViewAt(Contents(current) \cup FrameVersions(Log, n), SeqAt(n))] \in State
  BY <1>2, <1>3, <1>4
<1> QED BY <1>1, <1>5

\* The trail has one state for every number of frames a crash can leave.
LEMMA TrailShape ==
    ASSUME StoreInv
    PROVE  LET m == Len(Log.frames) - Log.synced + 1
           IN  /\ m \in Nat \ {0} /\ trailBar \in Seq(State) /\ Len(trailBar) = m
               /\ \A i \in 1..m : trailBar[i] = RecoveredState(Log.synced + i - 1)
<1> DEFINE m == Len(Log.frames) - Log.synced + 1
<1>1. m \in Nat \ {0}
  BY LogFacts
<1>2. trailBar = [i \in 1..m |-> RecoveredState(Log.synced + i - 1)]
  BY DEF trailBar, Log
<1>3. \A i \in 1..m : Log.synced + i - 1 \in 0..Len(Log.frames)
  BY LogFacts
<1>4. \A i \in 1..m : RecoveredState(Log.synced + i - 1) \in State
  BY <1>3, RecoveredType
<1> HIDE DEF m
<1>5. trailBar \in [1..m -> State]
  BY <1>2, <1>4
<1>6. trailBar \in Seq(State) /\ Len(trailBar) = m
  BY <1>1, <1>5
<1> QED BY <1>1, <1>2, <1>6 DEF m

\* While the writer is sound the Database knows the whole log.
LEMMA KnowsAll ==
    ASSUME StoreInv, up, ~poisoned
    PROVE  Knows(Len(Log.frames)) /\ head = SeqAt(Len(Log.frames))
<1>1. head = LastSequence(Log, current.durable)
  BY DEF StoreInv, RecInv, LogInv, MemoryCurrent
<1>2. Log.frames = <<>> <=> Len(Log.frames) = 0
  BY LogFacts
<1>3. head = SeqAt(Len(Log.frames))
  BY <1>1, <1>2 DEF LastSequence, SeqAt
<1> QED BY <1>3, LogFacts DEF Knows

\* An open Database knows a prefix of the log.
LEMMA KnowsSome ==
    ASSUME StoreInv, up
    PROVE  \E n \in Nat : Knows(n)
<1>1. CASE poisoned
  BY <1>1 DEF StoreInv, KnownInv
<1>2. CASE ~poisoned
  BY <1>2, KnowsAll, LogFacts
<1> QED BY <1>1, <1>2

\* KnownFrames counts exactly those frames.
LEMMA KnownIsKnows ==
    ASSUME StoreInv, up, NEW n \in Nat, Knows(n)
    PROVE  KnownFrames = n
<1> DEFINE known == {i \in 1..Len(Log.frames) : Log.frames[i].last <= head}
<1>1. KnownFrames = Cardinality(known)
  BY DEF KnownFrames, Log
<1>2. /\ n \in 0..Len(Log.frames) /\ Len(Log.frames) \in Nat /\ head \in Nat
      /\ \A i \in 1..Len(Log.frames) : Log.frames[i].last \in Nat
  <2>1. \A i \in 1..Len(Log.frames) : Log.frames[i].last \in Nat
    BY LogFacts, FramesType, BoundsAssumption
  <2> QED BY <2>1, LogFacts DEF Knows, StoreInv, TypeInv, TypeOK
<1>3. ASSUME NEW i \in 1..Len(Log.frames)
      PROVE  Log.frames[i].last <= head <=> i <= n
  <2>1. CASE i <= n
    <3>1. n \in i..Len(Log.frames) /\ n # 0
      BY <1>2, <2>1
    <3>2. Log.frames[i].last <= Log.frames[n].last
      BY <3>1, LogFacts DEF LogOK, OrderedLog
    <3> QED BY <2>1, <3>1, <3>2 DEF Knows, SeqAt
  <2>2. CASE ~(i <= n)
    <3>1. i = n + 1 /\ n + 1 = Len(Log.frames) /\ head < Log.frames[n + 1].last
      BY <1>2, <2>2 DEF Knows
    <3> QED BY <1>2, <2>2, <3>1
  <2> QED BY <2>1, <2>2
<1>4. known = 1..n
  BY <1>2, <1>3
<1>5. Cardinality(1..n) = n
  BY <1>2, FS_Interval
<1> QED BY <1>1, <1>4, <1>5

\* The trail and the state that reads are answered from, with N frames in the log, S of
\* them durable and K of them known.
Shape(N, S, K) ==
    /\ N \in Nat /\ S \in 0..N /\ K \in S..N
    /\ Len(Log.frames) = N /\ Log.synced = S /\ KnownFrames = K
    /\ trailBar \in Seq(State) /\ Len(trailBar) = N - S + 1
    /\ \A i \in 1..(N - S + 1) : trailBar[i] = RecoveredState(S + i - 1)
    /\ seenBar = K - S + 1

\* It has that shape for some numbers; without a failed write every frame is known.
Shaped == \E N, S, K \in Nat : /\ Shape(N, S, K)
                               /\ up => SeqAt(K) = head
                               /\ ~up \/ ~poisoned => K = N

\* The invariant fixes the shape of the trail.
LEMMA ShapeHolds == StoreInv => Shaped
<1> SUFFICES ASSUME StoreInv PROVE Shaped
  OBVIOUS
<1> DEFINE N == Len(Log.frames)
           S == Log.synced
           K == KnownFrames
<1>1. seenBar = K - S + 1
  BY DEF seenBar, Log
<1>2. /\ K \in S..N
      /\ up => SeqAt(K) = head
      /\ ~up \/ ~poisoned => K = N
  <2>1. CASE up
    <3>1. PICK n \in Nat : Knows(n)
      BY <2>1, KnowsSome
    <3>2. KnownFrames = n /\ n \in Log.synced..Len(Log.frames) /\ head = SeqAt(n)
      BY <2>1, <3>1, KnownIsKnows DEF Knows
    <3>3. ~poisoned => KnownFrames = Len(Log.frames)
      BY <2>1, KnowsAll, KnownIsKnows, LogFacts
    <3> QED BY <2>1, <3>2, <3>3
  <2>2. CASE ~up
    <3>1. KnownFrames = Len(Log.frames)
      BY <2>2 DEF KnownFrames, Log
    <3>2. Len(Log.frames) \in Log.synced..Len(Log.frames)
      BY LogFacts
    <3> QED BY <2>2, <3>1, <3>2
  <2> QED BY <2>1, <2>2
<1>3. N \in Nat /\ S \in 0..N
  BY LogFacts
<1>4. K \in Nat /\ S \in Nat
  BY <1>2, <1>3
<1>5. Shape(N, S, K)
  BY <1>1, <1>2, <1>3, TrailShape DEF Shape
<1> HIDE DEF N, S, K
<1> QED BY <1>2, <1>3, <1>4, <1>5 DEF Shaped

(***************************************************************************)
(* How the trail moves when the log does.                                  *)
(***************************************************************************)

\* What a prefix of the log recovers to depends on that prefix and CURRENT alone.
LEMMA RecoveredSame ==
    ASSUME NEW n \in Nat, current' = current, \A i \in 1..n : Log'.frames[i] = Log.frames[i]
    PROVE  RecoveredState(n)' = RecoveredState(n) /\ SeqAt(n)' = SeqAt(n)
<1>1. SeqAt(n)' = SeqAt(n)
  BY DEF SeqAt
<1>2. FrameVersions(Log, n)' = FrameVersions(Log, n)
  BY DEF FrameVersions
<1>3. RecoveredState(n) = [seq  |-> SeqAt(n),
                           view |-> ViewAt(Contents(current) \cup FrameVersions(Log, n), SeqAt(n))]
  BY DEF RecoveredState, SeqAt, Log
<1>4. RecoveredState(n)' = [seq  |-> SeqAt(n),
                            view |-> ViewAt(Contents(current) \cup FrameVersions(Log, n), SeqAt(n))]'
  BY DEF RecoveredState, SeqAt, Log
<1>5. Contents(current)' = Contents(current)
  BY DEF Contents
<1> QED BY <1>1, <1>2, <1>3, <1>4, <1>5 DEF ViewAt

\* Nothing is lost or added: the abstract store stutters.
LEMMA TrailStays ==
    ASSUME NEW N, NEW S, NEW K, Shape(N, S, K), Shape(N, S, K)',
           \A n \in S..N : RecoveredState(n)' = RecoveredState(n)
    PROVE  trailBar' = trailBar /\ seenBar' = seenBar
<1> DEFINE m == N - S + 1
<1>1. m \in Nat /\ \A i \in 1..m : S + i - 1 \in S..N
  BY DEF Shape
<1>2. Len(trailBar) = m /\ Len(trailBar') = m /\ trailBar \in Seq(State) /\ trailBar' \in Seq(State)
  BY DEF Shape, State
<1>3. \A i \in 1..m : trailBar'[i] = trailBar[i]
  BY <1>1 DEF Shape
<1>4. trailBar' = trailBar
  BY <1>1, <1>2, <1>3
<1> QED BY <1>4 DEF Shape

\* Everything that is known becomes durable.
LEMMA TrailCollapses ==
    ASSUME NEW N, NEW S, Shape(N, S, N), NEW n, NEW k, Shape(n, n, k)',
           RecoveredState(n)' = RecoveredState(N)
    PROVE  /\ seenBar = Len(trailBar)
           /\ trailBar' = <<trailBar[seenBar]>> /\ seenBar' = 1
<1> DEFINE m == N - S + 1
<1>1. seenBar = Len(trailBar) /\ trailBar[seenBar] = RecoveredState(N)
  <2>1. N \in Nat /\ S \in 0..N /\ seenBar = m /\ Len(trailBar) = m
        /\ \A i \in 1..m : trailBar[i] = RecoveredState(S + i - 1)
    BY DEF Shape
  <2>2. m \in 1..m /\ S + m - 1 = N
    BY <2>1
  <2> QED BY <2>1, <2>2
<1>2. Len(trailBar') = 1 /\ trailBar' \in Seq(State) /\ trailBar'[1] = RecoveredState(n)' /\ seenBar' = 1
  <2>1. n \in Nat /\ k \in n..n /\ seenBar' = k - n + 1 /\ Len(trailBar') = n - n + 1
        /\ trailBar' \in Seq(State)
        /\ \A i \in 1..(n - n + 1) : trailBar'[i] = RecoveredState(n + i - 1)'
    BY DEF Shape, State
  <2>2. k = n /\ n - n + 1 = 1 /\ 1 \in 1..1 /\ n + 1 - 1 = n
    BY <2>1
  <2> QED BY <2>1, <2>2
<1> QED BY <1>1, <1>2

\* One more frame, not yet durable.
LEMMA TrailGrows ==
    ASSUME NEW N, NEW S, Shape(N, S, N), NEW k, Shape(N + 1, S, k)',
           \A n \in 0..N : RecoveredState(n)' = RecoveredState(n)
    PROVE  /\ seenBar = Len(trailBar) /\ trailBar[seenBar] = RecoveredState(N)
           /\ trailBar' = Append(trailBar, RecoveredState(N + 1)')
           /\ seenBar = N - S + 1 /\ seenBar' = k - S + 1
<1> DEFINE m == N - S + 1
           last == RecoveredState(N + 1)'
<1>1. /\ N \in Nat /\ S \in 0..N /\ m \in Nat \ {0}
      /\ seenBar = m /\ Len(trailBar) = m /\ trailBar \in Seq(State)
      /\ \A i \in 1..m : trailBar[i] = RecoveredState(S + i - 1)
  BY DEF Shape
<1>2. /\ Len(trailBar') = m + 1 /\ trailBar' \in Seq(State)
      /\ \A i \in 1..(m + 1) : trailBar'[i] = RecoveredState(S + i - 1)'
      /\ seenBar' = k - S + 1
  <2>1. (N + 1) - S + 1 = m + 1
    BY <1>1
  <2>2. /\ Len(trailBar') = (N + 1) - S + 1 /\ trailBar' \in Seq(State)
        /\ \A i \in 1..((N + 1) - S + 1) : trailBar'[i] = RecoveredState(S + i - 1)'
        /\ seenBar' = k - S + 1
    BY DEF Shape, State
  <2> QED BY <2>1, <2>2
<1>3. m \in 1..m /\ S + m - 1 = N /\ m + 1 \in 1..(m + 1)
      /\ S + (m + 1) - 1 = N + 1
      /\ \A i \in 1..m : i \in 1..(m + 1) /\ S + i - 1 \in 0..N
  BY <1>1
<1>4. trailBar[seenBar] = RecoveredState(N)
  BY <1>1, <1>3
<1>5. trailBar'[m + 1] = last
  BY <1>2, <1>3
<1>6. \A i \in 1..m : trailBar'[i] = trailBar[i]
  BY <1>1, <1>2, <1>3
<1>7. last \in State
  <2>1. trailBar'[m + 1] \in State
    BY <1>1, <1>2, <1>3
  <2> QED BY <1>5, <2>1
<1> HIDE DEF m, last
<1>8. trailBar' = Append(trailBar, last)
  <2>1. /\ Append(trailBar, last) \in Seq(State) /\ Len(Append(trailBar, last)) = m + 1
        /\ \A i \in 1..m : Append(trailBar, last)[i] = trailBar[i]
        /\ Append(trailBar, last)[m + 1] = last
    BY <1>1, <1>7
  <2>2. \A i \in 1..(m + 1) : trailBar'[i] = Append(trailBar, last)[i]
    <3> TAKE i \in 1..(m + 1)
    <3>1. i = m + 1 \/ i \in 1..m
      BY <1>1
    <3> QED BY <1>5, <1>6, <2>1, <3>1
  <2> QED BY <1>1, <1>2, <2>1, <2>2
<1> QED BY <1>1, <1>2, <1>4, <1>8 DEF last, m

\* A suffix of what is not durable is lost.
LEMMA TrailCut ==
    ASSUME NEW N, NEW S, NEW K, Shape(N, S, K), NEW n \in S..N, Shape(n, S, n)',
           \A i \in 0..n : RecoveredState(i)' = RecoveredState(i)
    PROVE  \E m \in 1..Len(trailBar) : trailBar' = SubSeq(trailBar, 1, m) /\ seenBar' = m
<1> DEFINE m == n - S + 1
<1>1. /\ N \in Nat /\ S \in 0..N /\ m \in Nat \ {0}
      /\ Len(trailBar) = N - S + 1 /\ m <= Len(trailBar) /\ trailBar \in Seq(State)
  BY DEF Shape
<1>2. \A i \in 1..m : trailBar[i] = RecoveredState(S + i - 1)
  <2>1. \A i \in 1..m : i \in 1..(N - S + 1)
    BY <1>1
  <2> QED BY <2>1 DEF Shape
<1>3. /\ Len(trailBar') = m /\ trailBar' \in Seq(State) /\ seenBar' = m
      /\ \A i \in 1..m : trailBar'[i] = RecoveredState(S + i - 1)'
  BY DEF Shape, State
<1>4. \A i \in 1..m : S + i - 1 \in 0..n
  BY <1>1
<1>5. \A i \in 1..m : trailBar'[i] = trailBar[i]
  BY <1>2, <1>3, <1>4
<1>6. m \in 1..Len(trailBar)
  BY <1>1
<1> HIDE DEF m
<1>7. trailBar' = SubSeq(trailBar, 1, m)
  <2>1. /\ SubSeq(trailBar, 1, m) \in Seq(State) /\ Len(SubSeq(trailBar, 1, m)) = m
        /\ \A i \in 1..m : SubSeq(trailBar, 1, m)[i] = trailBar[i]
    BY <1>1
  <2> QED BY <1>1, <1>3, <1>5, <2>1
<1> QED BY <1>3, <1>6, <1>7

(***************************************************************************)
(* What the operations do to the log in use.                               *)
(***************************************************************************)

\* The open Database writes to the log in use.
LEMMA LogInUse ==
    ASSUME StoreInv
    PROVE  /\ up => wals[wal] = Log /\ wal = current.wal_start
           /\ current.wal_start \in Start /\ Log \in WalFile /\ Log.hole = 0
           /\ \A x : wals' = [wals EXCEPT ![current.wal_start] = x] /\ current' = current => Log' = x
<1>1. /\ Log \in WalFile /\ Log # NoFile /\ current.wal_start \in Start
      /\ up => wal = current.wal_start
      /\ wals \in [Start -> WalFile \cup {NoFile}]
  BY LogType DEF StoreInv, TypeInv, TypeOK
<1>2. Log.hole = 0
  BY <1>1 DEF StoreInv, RecInv, SyncedInside, Log
<1> QED BY <1>1, <1>2 DEF Log

\* A write appends its frame to the log.
LEMMA WriteLog ==
    ASSUME StoreInv, NEW batch \in WriteBatch, NEW authoritative \in BOOLEAN,
           Write(batch, authoritative)
    PROVE  /\ up /\ ~poisoned /\ up' /\ ~poisoned' /\ current' = current
           /\ NewFrame(batch).last <= MaxSeq
           /\ Log'.frames = Append(Log.frames, NewFrame(batch))
           /\ Log'.synced = IF authoritative THEN Len(Log.frames) + 1 ELSE Log.synced
<1> DEFINE x == [Log EXCEPT !.frames = Append(Log.frames, NewFrame(batch)),
                            !.synced = IF authoritative THEN Len(Log.frames) + 1 ELSE Log.synced]
<1>1. /\ up /\ ~poisoned /\ up' /\ ~poisoned' /\ current' = current
      /\ NewFrame(batch).last <= MaxSeq
  BY DEF Write, Ready
<1>2. wals' = [wals EXCEPT ![current.wal_start] = x]
  BY <1>1, LogInUse DEF Write
<1>3. Log' = x
  BY <1>1, <1>2, LogInUse
<1>4. /\ x.frames = Append(Log.frames, NewFrame(batch))
      /\ x.synced = IF authoritative THEN Len(Log.frames) + 1 ELSE Log.synced
  BY LogInUse DEF WalFile
<1> QED BY <1>1, <1>3, <1>4

\* A failed write appends its frame, or leaves every frame as it was.
LEMMA WriteFailsLog ==
    ASSUME StoreInv, NEW batch \in WriteBatch, WriteFails(batch)
    PROVE  /\ up /\ ~poisoned /\ up' /\ poisoned' /\ current' = current /\ head' = head
           /\ NewFrame(batch).last <= MaxSeq
           /\ Log'.synced = Log.synced
           /\ \/ Log'.frames = Append(Log.frames, NewFrame(batch))
              \/ Log'.frames = Log.frames
<1>1. /\ up /\ ~poisoned /\ up' /\ poisoned' /\ current' = current /\ head' = head
      /\ NewFrame(batch).last <= MaxSeq
  BY DEF WriteFails, Ready
<1>2. CASE wals' = [wals EXCEPT ![wal].frames = Append(wals[wal].frames, NewFrame(batch))]
  <2> DEFINE x == [Log EXCEPT !.frames = Append(Log.frames, NewFrame(batch))]
  <2>1. wals' = [wals EXCEPT ![current.wal_start] = x]
    BY <1>1, <1>2, LogInUse
  <2>2. Log' = x
    BY <1>1, <2>1, LogInUse
  <2>3. x.frames = Append(Log.frames, NewFrame(batch)) /\ x.synced = Log.synced
    BY LogInUse DEF WalFile
  <2> QED BY <1>1, <2>2, <2>3
<1>3. CASE \E t \in {"clean", "short", "cut"} : wals' = [wals EXCEPT ![wal].tail = t]
  <2>1. PICK t \in {"clean", "short", "cut"} : wals' = [wals EXCEPT ![wal].tail = t]
    BY <1>3
  <2> DEFINE x == [Log EXCEPT !.tail = t]
  <2>2. wals' = [wals EXCEPT ![current.wal_start] = x]
    BY <1>1, <2>1, LogInUse
  <2>3. Log' = x
    BY <1>1, <2>2, LogInUse
  <2>4. x.frames = Log.frames /\ x.synced = Log.synced
    BY LogInUse DEF WalFile
  <2> QED BY <1>1, <2>3, <2>4
<1> QED BY <1>2, <1>3 DEF WriteFails

\* The steps that sync the log, of a sound writer or of the repair.
LEMMA SyncLog ==
    ASSUME StoreInv,
           \/ Sync
           \/ \E compact \in BOOLEAN : \E P : FlushSyncWal(compact, P)
           \/ RepairTornTail
    PROVE  /\ ~up \/ ~poisoned
           /\ current' = current /\ up' = up /\ poisoned' = poisoned /\ head' = head
           /\ Log'.frames = Log.frames /\ Log'.synced = Len(Log.frames)
<1>1. Synced(Log).frames = Log.frames /\ Synced(Log).synced = Len(Log.frames)
  BY LogInUse DEF Synced, WalFile
<1>2. CASE Sync \/ \E compact \in BOOLEAN : \E P : FlushSyncWal(compact, P)
  <2>1. /\ up /\ ~poisoned /\ current' = current /\ up' = up /\ poisoned' = poisoned /\ head' = head
        /\ wals' = [wals EXCEPT ![wal] = Synced(wals[wal])]
    BY <1>2 DEF Sync, FlushSyncWal, Ready, memory
  <2>2. Log' = Synced(Log)
    BY <2>1, LogInUse
  <2> QED BY <1>1, <2>1, <2>2
<1>3. CASE RepairTornTail
  <2> DEFINE x == [Synced(Log) EXCEPT !.tail = "clean"]
  <2>1. /\ ~up /\ current' = current /\ up' = up /\ poisoned' = poisoned /\ head' = head
        /\ wals' = [wals EXCEPT ![current.wal_start] = x]
    BY <1>3 DEF RepairTornTail, memory, Log
  <2>2. Log' = x
    BY <2>1, LogInUse
  <2>3. x.frames = Log.frames /\ x.synced = Len(Log.frames)
    BY LogInUse DEF Synced, WalFile
  <2> QED BY <2>1, <2>2, <2>3
<1> QED BY <1>2, <1>3

\* A crash leaves a prefix of the log with everything that was synced.
LEMMA CrashLog ==
    ASSUME StoreInv, Crash
    PROVE  /\ up /\ ~up' /\ ~poisoned' /\ current' = current
           /\ \E n \in Log.synced..Len(Log.frames) :
                 Log'.frames = SubSeq(Log.frames, 1, n) /\ Log'.synced = Log.synced
<1>1. up /\ ~up' /\ ~poisoned' /\ current' = current
  BY DEF Crash
<1>2. PICK x \in Survivor(Log),
         gone \in SUBSET {s \in Start : wals[s] # NoFile /\ ~wals[s].named} :
            wals' = [s \in Start |-> IF s \in gone THEN NoFile
                                     ELSE IF s = wal THEN x ELSE wals[s]]
  BY <1>1, LogInUse DEF Crash
<1>3. gone = {}
  BY DEF StoreInv, FilesInv, AllNamed
<1>4. Log' = x
  BY <1>1, <1>2, <1>3, LogInUse DEF Log
<1>5. PICK n \in Log.synced..Len(Log.frames) : \E t \in TailsAfter(Log, n) : x = Cut(Log, n, t)
  BY <1>2, LogInUse, SurvivorCases
<1>6. x.frames = SubSeq(Log.frames, 1, n) /\ x.synced = Log.synced
  BY <1>5, LogInUse DEF Cut, WalFile
<1> QED BY <1>1, <1>4, <1>5, <1>6

\* Database::open leaves the log alone.
LEMMA OpenLog ==
    ASSUME StoreInv, Open
    PROVE  /\ ~up /\ up' /\ ~poisoned' /\ current' = current /\ Log' = Log
<1>1. ~up /\ up' /\ poisoned' = poisoned /\ current' = current /\ wals' = wals
  BY DEF Open, files
<1> QED BY <1>1 DEF StoreInv, KnownInv, Log

\* Flush and installation start an empty log, compaction keeps the one in use.
LEMMA PublishLog ==
    ASSUME StoreInv, PublishPointer
    PROVE  /\ up /\ up' /\ current' = op.target /\ op.stage = "persisted" /\ op.kind \in {"flush", "compact", "install"}
           /\ op.kind = "compact" => /\ Log' = Log /\ head' = head /\ poisoned' = poisoned
                                     /\ current'.durable = current.durable
           /\ op.kind # "compact" => /\ Log'.frames = <<>> /\ Log'.synced = 0 /\ ~poisoned'
<1>1. /\ up /\ up' /\ current' = op.target /\ op.stage = "persisted" /\ AdoptTarget /\ wals' = wals
      /\ op \in OpType /\ op.kind \in {"flush", "compact", "install"}
  <2>1. op \in OpType /\ op.stage = "persisted"
    BY DEF PublishPointer, StoreInv, TypeInv, TypeOK, OpType
  <2>2. op.kind # "idle"
    BY <2>1 DEF StoreInv, ReadInv, TargetOK
  <2> QED BY <2>1, <2>2 DEF PublishPointer, OpType
<1>2. /\ op.target \in Manifest /\ wals[op.target.wal_start] # NoFile
      /\ op.target.wal_start \in Start
  BY <1>1 DEF StoreInv, TypeInv, Prepared, Manifest
<1>3. ASSUME op.kind = "compact"
      PROVE  Log' = Log /\ head' = head /\ poisoned' = poisoned /\ current'.durable = current.durable
  <2>1. op.target.wal_start = current.wal_start /\ op.target.durable = current.durable
    BY <1>1, <1>3 DEF StoreInv, TypeInv, Prepared, CurrentInv, RecInv, TargetFresh
  <2> QED BY <1>1, <1>3, <2>1 DEF AdoptTarget, Log
<1>4. ASSUME op.kind # "compact"
      PROVE  Log'.frames = <<>> /\ Log'.synced = 0 /\ ~poisoned'
  <2>1. Log' = wals[op.target.wal_start]
    BY <1>1 DEF Log
  <2>2. Log'.frames = <<>> /\ Len(Log'.frames) = 0
    BY <1>1, <1>4, <2>1 DEF StoreInv, RecInv, TargetFresh
  <2>3. wals[op.target.wal_start] \in WalFile
    BY <1>2 DEF StoreInv, TypeInv, TypeOK
  <2>4. Log'.synced \in Nat /\ Log'.synced <= 0
    BY <1>2, <2>1, <2>2, <2>3 DEF StoreInv, RecInv, SyncedInside, WalFile
  <2>5. ~poisoned'
    BY <1>1, <1>4 DEF AdoptTarget
  <2> QED BY <2>2, <2>4, <2>5
<1> QED BY <1>1, <1>3, <1>4

\* Every other step leaves the log, CURRENT and what is known of them alone.
Quiet ==
    /\ Log'.frames = Log.frames /\ Log'.synced = Log.synced
    /\ UNCHANGED <<current, up, head, poisoned>>

\* Steps that touch no log.
LEMMA QuietLog ==
    ASSUME wals' = wals, UNCHANGED <<current, up, head, poisoned>> PROVE Quiet
  BY DEF Quiet, Log

\* A successor is another log.
LEMMA SuccessorQuiet ==
    ASSUME StoreInv, NEW start \in Start, SuccessorWal(start), UNCHANGED <<current, up, head, poisoned>>
    PROVE  Quiet
<1>1. Log' = Log
  BY SuccessorRec DEF StoreInv
<1> QED BY <1>1 DEF Quiet

\* Collection keeps the log in use.
LEMMA GarbageCollectQuiet ==
    ASSUME StoreInv, NEW M \in SUBSET DeadManifests, NEW S \in SUBSET DeadSegments,
           NEW W \in SUBSET DeadWals, GarbageCollect(M, S, W)
    PROVE  Quiet
<1>1. UNCHANGED <<current, up, head, poisoned>>
  BY DEF GarbageCollect, memory
<1>2. current.wal_start \notin W
  BY DEF DeadWals, RetainedWals, RetainedManifests, StoreInv, CurrentInv
<1>3. Log' = Log \/ Log' = [Log EXCEPT !.named = TRUE]
  BY <1>1, <1>2, LogInUse, CollectedWals DEF Log, StoreInv
<1>4. LET z == [Log EXCEPT !.named = TRUE] IN z.frames = Log.frames /\ z.synced = Log.synced
  BY LogInUse DEF WalFile
<1> QED BY <1>1, <1>3, <1>4 DEF Quiet

\* A log without a header is not the one in use.
LEMMA SuccessorInterruptedQuiet ==
    ASSUME StoreInv, NEW start \in Start, SuccessorInterrupted(start)
    PROVE  Quiet
<1>1. /\ wals[start] = NoFile /\ \E x : wals' = [wals EXCEPT ![start] = x]
      /\ UNCHANGED <<current, up, head, poisoned>>
  BY DEF SuccessorInterrupted
<1>2. start # current.wal_start
  BY <1>1, LogType DEF StoreInv, Log
<1>3. Log' = Log
  BY <1>1, <1>2, LogInUse DEF Log, StoreInv, TypeInv, TypeOK
<1> QED BY <1>1, <1>3 DEF Quiet

\* The steps of the database, by what they do to the log.
LEMMA StepKinds ==
    ASSUME "sync" \notin Faults, "dirsync" \notin Faults, StoreInv, [Next]_vars
    PROVE  \/ \E batch \in WriteBatch :
                 \/ \E authoritative \in BOOLEAN : Write(batch, authoritative)
                 \/ WriteFails(batch)
           \/ Sync \/ (\E compact \in BOOLEAN : \E P : FlushSyncWal(compact, P)) \/ RepairTornTail
           \/ PublishPointer \/ Crash \/ Open
           \/ Quiet
<1>1. CASE Next
  <2>1. ASSUME FlushWriteSegment \/ CompactMerge \/ (\E bundle \in Bundle : InstallSegments(bundle))
                 \/ PersistManifest
        PROVE  Quiet
    <3>1. UNCHANGED <<wals, current, up, head, poisoned>>
      BY <2>1 DEF FlushWriteSegment, CompactMerge, InstallSegments, PersistManifest
    <3> QED BY <3>1, QuietLog
  <2>2. ASSUME Abort \/ TakeSnapshot \/ \E p \in pins : DropSnapshot(p)
        PROVE  Quiet
    <3>1. UNCHANGED <<wals, current, up, head, poisoned>>
      BY <2>2 DEF Abort, TakeSnapshot, DropSnapshot, files, memory
    <3> QED BY <3>1, QuietLog
  <2>3. ASSUME NEW name \in Name, Checkpoint(name) \/ ReleaseCheckpoint(name) PROVE Quiet
    <3>1. UNCHANGED <<wals, current, up, head, poisoned>>
      BY <2>3 DEF Checkpoint, ReleaseCheckpoint, memory
    <3> QED BY <3>1, QuietLog
  <2>4. CASE FlushSuccessorWal
    <3>1. SuccessorWal(next) /\ next \in Start /\ UNCHANGED <<current, up, head, poisoned>>
      BY <2>4 DEF FlushSuccessorWal, StoreInv, TypeInv, TypeOK
    <3> QED BY <3>1, SuccessorQuiet
  <2>5. CASE InstallSuccessorWal
    <3>1. /\ SuccessorWal(op.target.wal_start) /\ op.kind = "install" /\ op.stage = "segment"
          /\ UNCHANGED <<current, up, head, poisoned>>
      BY <2>5 DEF InstallSuccessorWal
    <3>2. op.target.wal_start \in Start
      BY <3>1 DEF StoreInv, TypeInv, Prepared, Manifest
    <3> QED BY <3>1, <3>2, SuccessorQuiet
  <2>6. ASSUME NEW start \in Start, SuccessorInterrupted(start) PROVE Quiet
    BY <2>6, SuccessorInterruptedQuiet
  <2>7. ASSUME NEW M \in SUBSET DeadManifests, NEW S \in SUBSET DeadSegments,
               NEW W \in SUBSET DeadWals, GarbageCollect(M, S, W)
        PROVE  Quiet
    BY <2>7, GarbageCollectQuiet
  <2>8. ~SyncFails /\ ~PublishPointerUnsynced
    BY DEF SyncFails, PublishPointerUnsynced
  <2> QED BY <1>1, <2>1, <2>2, <2>3, <2>4, <2>5, <2>6, <2>7, <2>8 DEF Next
<1>2. CASE UNCHANGED vars
  <2>1. UNCHANGED <<wals, current, up, head, poisoned>>
    BY <1>2 DEF vars
  <2> QED BY <2>1, QuietLog
<1> QED BY <1>1, <1>2

\* The Database goes on knowing the same frames.
LEMMA KnownKept ==
    ASSUME KnownInv, Log'.frames = Log.frames, Log'.synced = Log.synced,
           current'.durable = current.durable, UNCHANGED <<up, head, poisoned>>
    PROVE  KnownInv'
<1>1. \A n \in Nat : Knows(n)' <=> Knows(n)
  BY DEF Knows, SeqAt
<1> QED BY <1>1 DEF KnownInv

\* A poisoned writer knows all frames but the one whose write failed.
LEMMA NextKnown ==
    ASSUME "sync" \notin Faults, "dirsync" \notin Faults, StoreInv, [Next]_vars
    PROVE  KnownInv'
<1>1. ASSUME NEW batch \in WriteBatch, NEW authoritative \in BOOLEAN, Write(batch, authoritative)
      PROVE  KnownInv'
  BY <1>1, WriteLog DEF KnownInv
<1>2. ASSUME NEW batch \in WriteBatch, WriteFails(batch) PROVE KnownInv'
  <2> DEFINE f == NewFrame(batch)
  <2> PICK N \in Nat : N = Len(Log.frames)
    BY LogFacts
  <2>1. /\ up /\ ~poisoned /\ up' /\ poisoned' /\ current' = current /\ head' = head
        /\ f.last <= MaxSeq /\ Log'.synced = Log.synced
        /\ Log'.frames = Append(Log.frames, f) \/ Log'.frames = Log.frames
    BY <1>2, WriteFailsLog
  <2>2. /\ Log.frames \in Seq(Frame) /\ N \in Nat /\ Log.synced \in 0..N /\ head = SeqAt(N)
        /\ \A n \in 0..N : SeqAt(n) \in Nat
    BY <2>1, LogFacts, KnowsAll
  <2>3. f \in Frame /\ head < f.last
    BY <2>1, NewFrameOK DEF StoreInv
  <2>4. CASE Log'.frames = Log.frames
    <3>1. Knows(N)'
      <4>1. SeqAt(N)' = SeqAt(N)
        BY <2>1, <2>4 DEF SeqAt
      <4> QED BY <2>1, <2>2, <2>4, <4>1 DEF Knows
    <3> QED BY <2>1, <2>2, <3>1 DEF KnownInv
  <2>5. CASE Log'.frames = Append(Log.frames, f)
    <3>1. Len(Log'.frames) = N + 1 /\ Log'.frames[N + 1] = f /\ \A i \in 1..N : Log'.frames[i] = Log.frames[i]
      BY <2>2, <2>3, <2>5
    <3>2. SeqAt(N)' = SeqAt(N)
      BY <2>1, <2>2, <3>1 DEF SeqAt
    <3> HIDE DEF f
    <3>3. Knows(N)'
      <4>1. N \in Log'.synced..Len(Log'.frames)
        BY <2>1, <2>2, <3>1
      <4> QED BY <2>1, <2>2, <2>3, <3>1, <3>2, <4>1 DEF Knows
    <3> QED BY <2>1, <2>2, <3>3 DEF KnownInv
  <2> QED BY <2>1, <2>4, <2>5
<1>3. ASSUME \/ Sync
             \/ \E compact \in BOOLEAN : \E P : FlushSyncWal(compact, P)
             \/ RepairTornTail
      PROVE  KnownInv'
  <2>1. (~up \/ ~poisoned) /\ poisoned' = poisoned
    BY <1>3, SyncLog
  <2> QED BY <2>1 DEF StoreInv, KnownInv
<1>4. CASE PublishPointer
  <2>1. CASE op.kind = "compact"
    <3>1. Log' = Log /\ current'.durable = current.durable /\ UNCHANGED <<up, head, poisoned>>
      BY <1>4, <2>1, PublishLog
    <3> QED BY <3>1, KnownKept DEF StoreInv
  <2>2. CASE op.kind # "compact"
    BY <1>4, <2>2, PublishLog DEF KnownInv
  <2> QED BY <2>1, <2>2
<1>5. CASE Crash
  BY <1>5, CrashLog DEF KnownInv
<1>6. CASE Open
  BY <1>6, OpenLog DEF KnownInv
<1>7. CASE Quiet
  BY <1>7, KnownKept DEF Quiet, StoreInv
<1> QED BY <1>1, <1>2, <1>3, <1>4, <1>5, <1>6, <1>7, StepKinds

\* The invariants of the files, the reads and the log together.
LEMMA StoreInvariant ==
    ASSUME FileSyncPersistsName = TRUE, "sync" \notin Faults, "dirsync" \notin Faults
    PROVE  /\ Init => StoreInv
           /\ StoreInv /\ [Next]_vars => StoreInv'
<1>1. Init => StoreInv
  <2>1. Init => KnownInv
    BY DEF Init, KnownInv
  <2> QED BY <2>1, InitType, InitFiles, InitCurrent, InitRec, InitRead DEF StoreInv
<1>2. ASSUME StoreInv, [Next]_vars PROVE StoreInv'
  <2>1. TypeInv'
    BY <1>2, NextType DEF StoreInv
  <2>2. FilesInv'
    BY <1>2, NextFiles DEF StoreInv
  <2>3. CurrentInv'
    BY <1>2, <2>2, NextCurrent DEF StoreInv
  <2>4. RecInv'
    BY <1>2, NextRec DEF StoreInv
  <2>5. ReadInv'
    BY <1>2, NextRead DEF StoreInv
  <2>6. KnownInv'
    BY <1>2, NextKnown
  <2> QED BY <2>1, <2>2, <2>3, <2>4, <2>5, <2>6 DEF StoreInv
<1> QED BY <1>1, <1>2

(***************************************************************************)
(* Every step is a step of the abstract store.                             *)
(***************************************************************************)

\* Reading a batch gives the last mutation of each key.
LEMMA BatchRead ==
    ASSUME NEW batch \in WriteBatch, NEW first \in Nat, NEW k
    PROVE  LET vs == BatchVersions(batch, first)
               s  == first + Len(batch) - 1
           IN  /\ HasVersion(vs, k, s) <=> \E i \in DOMAIN batch : batch[i].key = k
               /\ HasVersion(vs, k, s) =>
                     ReadAt(vs, k, s) = batch[CHOOSE i \in DOMAIN batch :
                                                /\ batch[i].key = k
                                                /\ \A j \in DOMAIN batch : batch[j].key = k => j <= i].value
<1> DEFINE vs == BatchVersions(batch, first)
           s == first + Len(batch) - 1
           v(i) == [key |-> batch[i].key, seq |-> first + i - 1, value |-> batch[i].value]
           Newest(i) == /\ batch[i].key = k
                        /\ \A j \in DOMAIN batch : batch[j].key = k => j <= i
<1>1. /\ Len(batch) \in Nat \ {0} /\ DOMAIN batch = 1..Len(batch) /\ s \in Nat
      /\ vs \in SUBSET Version /\ vs = {v(i) : i \in DOMAIN batch}
  BY BatchIsSeq, BatchVersionsType DEF BatchVersions
<1>2. \A i \in DOMAIN batch : /\ v(i) \in vs /\ v(i).key = batch[i].key /\ v(i).value = batch[i].value
                              /\ v(i).seq = first + i - 1 /\ v(i).seq <= s
  BY <1>1
<1>3. \A u \in vs : \E i \in DOMAIN batch : u = v(i)
  BY <1>1
<1> HIDE DEF vs, s, v
<1>4. HasVersion(vs, k, s) <=> \E i \in DOMAIN batch : batch[i].key = k
  BY <1>2, <1>3 DEF HasVersion
<1>5. ASSUME HasVersion(vs, k, s)
      PROVE  ReadAt(vs, k, s) = batch[CHOOSE i \in DOMAIN batch : Newest(i)].value
  <2>1. PICK u \in vs : u.key = k /\ u.seq <= s
    BY <1>5 DEF HasVersion
  <2>2. PICK m \in vs : m.key = k /\ Visible(vs, m, s)
    BY <1>1, <2>1, NewestExists
  <2> DEFINE w == CHOOSE x \in vs : x.key = k /\ Visible(vs, x, s)
             c == CHOOSE i \in DOMAIN batch : Newest(i)
  <2>3. ReadAt(vs, k, s) = w.value /\ w \in vs /\ w.key = k /\ Visible(vs, w, s)
    BY <2>2 DEF ReadAt
  <2> HIDE DEF w
  <2>4. PICK j \in DOMAIN batch : w = v(j)
    BY <1>3, <2>3
  <2>5. Newest(j)
    <3>1. batch[j].key = k
      BY <1>2, <2>3, <2>4
    <3>2. ASSUME NEW i \in DOMAIN batch, batch[i].key = k PROVE i <= j
      <4>1. v(i).seq <= v(j).seq
        BY <1>2, <2>3, <2>4, <3>2 DEF Visible
      <4>2. v(i).seq = first + i - 1 /\ v(j).seq = first + j - 1
        BY <1>2
      <4>3. i \in Nat /\ j \in Nat
        BY <1>1
      <4> QED BY <4>1, <4>2, <4>3
    <3> QED BY <3>1, <3>2
  <2>6. c \in DOMAIN batch /\ Newest(c)
    BY <2>5
  <2> HIDE DEF c
  <2>7. c = j
    BY <1>1, <2>5, <2>6
  <2> QED BY <1>2, <2>3, <2>4, <2>7 DEF c
<1> QED BY <1>4, <1>5 DEF vs, s

\* A batch on top of versions that are all older: its keys are replaced, the others stay.
LEMMA BatchOnTop ==
    ASSUME NEW vs \in SUBSET Version, NEW d \in Nat, \A v \in vs : v.seq <= d,
           NEW batch \in WriteBatch
    PROVE  [seq |-> d + Len(batch),
            view |-> ViewAt(BatchVersions(batch, d + 1) \cup vs, d + Len(batch))]
             = Abstract!Apply([seq |-> d, view |-> ViewAt(vs, d)], batch)
<1> DEFINE s == d + Len(batch)
           bs == BatchVersions(batch, d + 1)
           Newest(i, k) == /\ batch[i].key = k
                           /\ \A j \in DOMAIN batch : batch[j].key = k => j <= i
           old == [seq |-> d, view |-> ViewAt(vs, d)]
           view == [k \in Key |->
                     IF \E i \in DOMAIN batch : batch[i].key = k
                       THEN batch[CHOOSE i \in DOMAIN batch : Newest(i, k)].value
                       ELSE old.view[k]]
<1>1. /\ s \in Nat /\ d <= s /\ s = (d + 1) + Len(batch) - 1 /\ d + 1 \in Nat
      /\ bs \in SUBSET Version /\ \A v \in bs : d < v.seq
  <2>1. Len(batch) \in Nat \ {0} /\ DOMAIN batch = 1..Len(batch)
    BY BatchIsSeq
  <2>2. bs \in SUBSET Version
    BY BatchVersionsType
  <2>3. \A v \in bs : d < v.seq
    BY <2>1 DEF BatchVersions
  <2> QED BY <2>1, <2>2, <2>3
<1> HIDE DEF bs, s
<1>2. ASSUME NEW k \in Key PROVE ReadAt(bs \cup vs, k, s) = view[k]
  <2>1. ReadAt(bs \cup vs, k, s)
          = IF HasVersion(bs, k, s) THEN ReadAt(bs, k, s) ELSE ReadAt(vs, k, s)
    <3>1. bs \in SUBSET Version /\ s \in Nat /\ \A v \in bs : d < v.seq
      BY <1>1
    <3> HIDE DEF old, view
    <3> QED BY <3>1, MemtableWins, SMTT(30)
  <2>2. ReadAt(vs, k, s) = old.view[k]
    BY <1>1, ReadBeyond DEF ViewAt
  <2>3. /\ HasVersion(bs, k, s) <=> \E i \in DOMAIN batch : batch[i].key = k
        /\ HasVersion(bs, k, s) =>
              ReadAt(bs, k, s) = batch[CHOOSE i \in DOMAIN batch : Newest(i, k)].value
    BY <1>1, BatchRead DEF bs
  <2> QED BY <2>1, <2>2, <2>3
<1>3. ViewAt(bs \cup vs, s) = view
  BY <1>2 DEF ViewAt
<1>4. Abstract!Apply(old, batch) = [seq |-> d + Len(batch), view |-> view]
  BY DEF Abstract!Apply
<1> QED BY <1>3, <1>4 DEF bs, s

\* A frame that is appended recovers to its batch applied to what the log held.
LEMMA FrameApplies ==
    ASSUME StoreInv, up, ~poisoned, NEW batch \in WriteBatch, NewFrame(batch).last <= MaxSeq,
           current' = current, Log'.frames = Append(Log.frames, NewFrame(batch)),
           NEW N \in Nat, N = Len(Log.frames)
    PROVE  /\ Len(Log'.frames) = N + 1
           /\ \A n \in 0..N : RecoveredState(n)' = RecoveredState(n)
           /\ RecoveredState(N + 1)' = Abstract!Apply(RecoveredState(N), batch)
<1> DEFINE f == NewFrame(batch)
           vs == Contents(current) \cup FrameVersions(Log, N)
<1>1. /\ Log.frames \in Seq(Frame) /\ head \in Nat /\ head = SeqAt(N)
      /\ vs \in SUBSET Version /\ \A v \in vs : v.seq <= head
  <2>1. /\ Log.frames \in Seq(Frame) /\ N \in 0..Len(Log.frames) /\ head = SeqAt(N) /\ SeqAt(N) \in Nat
        /\ current.durable \in Nat /\ current.durable <= SeqAt(N)
        /\ Contents(current) \in SUBSET Version /\ \A v \in Contents(current) : v.seq <= current.durable
    BY LogFacts, KnowsAll
  <2>2. FrameVersions(Log, N) \in SUBSET Version /\ \A v \in FrameVersions(Log, N) : v.seq <= SeqAt(N)
    BY <2>1, FrameVersionsOK
  <2>3. \A v \in Contents(current) : v.seq \in Nat
    BY <2>1 DEF Version
  <2> QED BY <2>1, <2>2, <2>3
<1>2. /\ next = head + 1 /\ f \in Frame
      /\ f.last = head + Len(batch) /\ f.versions = BatchVersions(batch, head + 1)
  <2>1. next = head + 1
    BY DEF StoreInv, ReadInv, DatabaseOK
  <2>2. f \in Frame
    BY NewFrameOK DEF StoreInv
  <2>3. Len(batch) \in Nat
    BY BatchIsSeq
  <2> QED BY <1>1, <2>1, <2>2, <2>3 DEF NewFrame
<1>3. /\ Len(Log'.frames) = N + 1 /\ Log'.frames[N + 1] = f
      /\ \A i \in 1..N : Log'.frames[i] = Log.frames[i]
  BY <1>1, <1>2
<1>4. \A n \in 0..N : RecoveredState(n)' = RecoveredState(n)
  <2> TAKE n \in 0..N
  <2>1. n \in Nat /\ \A i \in 1..n : Log'.frames[i] = Log.frames[i]
    BY <1>3
  <2> QED BY <2>1, RecoveredSame
<1>5. SeqAt(N + 1)' = head + Len(batch)
  BY <1>2, <1>3 DEF SeqAt
<1>6. FrameVersions(Log, N + 1)' = FrameVersions(Log, N) \cup f.versions
  <2>1. 1..(N + 1) = (1..N) \cup {N + 1}
    OBVIOUS
  <2>2. ASSUME NEW v PROVE v \in FrameVersions(Log, N + 1)' <=> v \in FrameVersions(Log, N) \cup f.versions
    BY <1>3, <2>1 DEF FrameVersions
  <2> QED BY <2>2
<1>7. RecoveredState(N + 1)' = [seq  |-> head + Len(batch),
                                view |-> ViewAt(f.versions \cup vs, head + Len(batch))]
  <2>1. RecoveredState(N + 1)' = [seq |-> SeqAt(N + 1),
                                  view |-> ViewAt(Contents(current) \cup FrameVersions(Log, N + 1), SeqAt(N + 1))]'
    BY DEF RecoveredState, SeqAt, Log
  <2>2. Contents(current)' \cup FrameVersions(Log, N + 1)' = f.versions \cup vs
    BY <1>6 DEF Contents
  <2> QED BY <1>5, <2>1, <2>2 DEF ViewAt
<1>8. RecoveredState(N) = [seq |-> head, view |-> ViewAt(vs, head)]
  <2>1. N \in 0..Len(Log.frames)
    BY LogFacts
  <2>2. RecoveredState(N) = [seq |-> SeqAt(N), view |-> ViewAt(vs, SeqAt(N))]
    BY <2>1, RecoveredType
  <2> QED BY <1>1, <2>2
<1> HIDE DEF vs
<1>9. [seq |-> head + Len(batch),
       view |-> ViewAt(BatchVersions(batch, head + 1) \cup vs, head + Len(batch))]
        = Abstract!Apply([seq |-> head, view |-> ViewAt(vs, head)], batch)
  BY <1>1, BatchOnTop
<1>10. RecoveredState(N + 1)' = Abstract!Apply(RecoveredState(N), batch)
  BY <1>2, <1>7, <1>8, <1>9
<1> QED BY <1>3, <1>4, <1>10

\* A write is one more batch; what it costs to make it durable decides which kind.
LEMMA WriteSimulates ==
    ASSUME StoreInv, Shaped, Shaped', NEW batch \in WriteBatch, NEW authoritative \in BOOLEAN,
           Write(batch, authoritative)
    PROVE  Abstract!WriteBuffered(batch) \/ Abstract!WriteAuthoritative(batch)
<1>1. /\ up /\ ~poisoned /\ up' /\ ~poisoned' /\ current' = current
      /\ NewFrame(batch).last <= MaxSeq
      /\ Log'.frames = Append(Log.frames, NewFrame(batch))
      /\ Log'.synced = IF authoritative THEN Len(Log.frames) + 1 ELSE Log.synced
  BY WriteLog
<1>2. PICK N, S \in Nat : Shape(N, S, N)
  BY <1>1 DEF Shaped
<1>3. PICK N1, S1 \in Nat : Shape(N1, S1, N1)'
  BY <1>1 DEF Shaped
<1>4. /\ N = Len(Log.frames) /\ S = Log.synced /\ N1 = Len(Log'.frames) /\ S1 = Log'.synced
  BY <1>2, <1>3 DEF Shape
<1>5. /\ N1 = N + 1
      /\ \A n \in 0..N : RecoveredState(n)' = RecoveredState(n)
      /\ RecoveredState(N + 1)' = Abstract!Apply(RecoveredState(N), batch)
  BY <1>1, <1>4, FrameApplies
<1>6. CASE ~authoritative
  <2>1. S1 = S
    BY <1>1, <1>4, <1>6
  <2>2. /\ seenBar = Len(trailBar) /\ trailBar[seenBar] = RecoveredState(N)
        /\ trailBar' = Append(trailBar, RecoveredState(N + 1)')
        /\ seenBar = N - S + 1 /\ seenBar' = (N + 1) - S + 1
    BY <1>2, <1>3, <1>5, <2>1, TrailGrows
  <2>3. seenBar' = seenBar + 1
    BY <2>2
  <2> QED BY <1>1, <1>5, <2>2, <2>3 DEF Abstract!WriteBuffered
<1>7. CASE authoritative
  <2>1. S1 = N1
    BY <1>1, <1>4, <1>5, <1>7
  <2>2. seenBar = Len(trailBar) /\ trailBar[seenBar] = RecoveredState(N)
    <3>1. /\ N - S + 1 \in 1..(N - S + 1) /\ S + (N - S + 1) - 1 = N
      BY <1>2 DEF Shape
    <3> QED BY <1>2, <3>1 DEF Shape
  <2>3. trailBar' = <<RecoveredState(N + 1)'>> /\ seenBar' = 1
    <3>1. /\ Len(trailBar') = N1 - N1 + 1 /\ trailBar' \in Seq(State) /\ seenBar' = N1 - N1 + 1
          /\ \A i \in 1..(N1 - N1 + 1) : trailBar'[i] = RecoveredState(N1 + i - 1)'
      BY <1>3, <2>1 DEF Shape, State
    <3>2. N1 - N1 + 1 = 1 /\ 1 \in 1..1 /\ N1 + 1 - 1 = N + 1
      BY <1>5
    <3>3. Len(trailBar') = 1 /\ trailBar'[1] = RecoveredState(N + 1)' /\ seenBar' = 1
      BY <3>1, <3>2
    <3> QED BY <3>1, <3>3
  <2> QED BY <1>1, <1>5, <2>2, <2>3 DEF Abstract!WriteAuthoritative
<1> QED BY <1>6, <1>7

\* A failed write that reached the log whole may be found again by a restart.
LEMMA WriteFailsSimulates ==
    ASSUME StoreInv, StoreInv', Shaped, Shaped', NEW batch \in WriteBatch, WriteFails(batch)
    PROVE  Abstract!WriteIndeterminate(batch) \/ UNCHANGED Abstract!svars
<1>1. /\ up /\ ~poisoned /\ up' /\ poisoned' /\ current' = current /\ head' = head
      /\ NewFrame(batch).last <= MaxSeq
      /\ Log'.synced = Log.synced
      /\ Log'.frames = Append(Log.frames, NewFrame(batch)) \/ Log'.frames = Log.frames
  BY WriteFailsLog
<1>2. PICK N, S \in Nat : Shape(N, S, N)
  BY <1>1 DEF Shaped
<1>3. PICK N1, S1, K1 \in Nat : Shape(N1, S1, K1)'
  BY DEF Shaped
<1>4. /\ N = Len(Log.frames) /\ S = Log.synced /\ N1 = Len(Log'.frames) /\ S1 = Log'.synced
      /\ S1 = S /\ KnownFrames = N /\ KnownFrames' = K1
  BY <1>1, <1>2, <1>3 DEF Shape
<1>5. CASE Log'.frames = Log.frames
  <2>1. N1 = N /\ K1 = N
    BY <1>1, <1>4, <1>5 DEF KnownFrames, Log
  <2>2. \A n \in S..N : RecoveredState(n)' = RecoveredState(n)
    <3>1. \A n \in S..N : n \in Nat
      BY <1>4
    <3> QED BY <1>1, <1>5, <3>1, RecoveredSame
  <2>3. trailBar' = trailBar /\ seenBar' = seenBar
    BY <1>2, <1>3, <1>4, <2>1, <2>2, TrailStays
  <2> QED BY <1>1, <2>3 DEF Abstract!svars
<1>6. CASE Log'.frames = Append(Log.frames, NewFrame(batch))
  <2>1. /\ N1 = N + 1
        /\ \A n \in 0..N : RecoveredState(n)' = RecoveredState(n)
        /\ RecoveredState(N + 1)' = Abstract!Apply(RecoveredState(N), batch)
    BY <1>1, <1>4, <1>6, FrameApplies
  <2>2. K1 = N
    <3> DEFINE known  == {i \in 1..N : Log.frames[i].last <= head}
               known1 == {i \in 1..N1 : Log'.frames[i].last <= head}
    <3>1. KnownFrames = Cardinality(known) /\ KnownFrames' = Cardinality(known1)
      BY <1>1, <1>4 DEF KnownFrames, Log
    <3>2. Log.frames \in Seq(Frame) /\ NewFrame(batch) \in Frame /\ head < NewFrame(batch).last
          /\ head \in Nat /\ NewFrame(batch).last \in Nat
      BY <1>1, LogFacts, NewFrameOK, ReadTypes DEF StoreInv
    <3>3. Log'.frames[N + 1] = NewFrame(batch) /\ \A i \in 1..N : Log'.frames[i] = Log.frames[i]
      BY <1>4, <1>6, <3>2
    <3>4. \A i \in 1..(N + 1) : i = N + 1 \/ i \in 1..N
      OBVIOUS
    <3>5. \A i \in 1..N : i \in 1..(N + 1)
      OBVIOUS
    <3>6. ~(NewFrame(batch).last <= head)
      BY <3>2
    <3>7. known1 = known
      BY <2>1, <3>3, <3>4, <3>5, <3>6
    <3> QED BY <1>4, <3>1, <3>7
  <2>3. /\ seenBar = Len(trailBar) /\ trailBar[seenBar] = RecoveredState(N)
        /\ trailBar' = Append(trailBar, RecoveredState(N + 1)')
        /\ seenBar = N - S + 1 /\ seenBar' = N - S + 1
    BY <1>2, <1>3, <1>4, <2>1, <2>2, TrailGrows
  <2> QED BY <1>1, <2>1, <2>3 DEF Abstract!WriteIndeterminate
<1> QED BY <1>1, <1>5, <1>6

\* Syncing the log makes durable what is visible.
LEMMA SyncSimulates ==
    ASSUME StoreInv, Shaped, Shaped',
           \/ Sync
           \/ \E compact \in BOOLEAN : \E P : FlushSyncWal(compact, P)
           \/ RepairTornTail
    PROVE  Abstract!Sync
<1>1. /\ ~up \/ ~poisoned
      /\ current' = current /\ up' = up /\ poisoned' = poisoned
      /\ Log'.frames = Log.frames /\ Log'.synced = Len(Log.frames)
  BY SyncLog
<1>2. PICK N, S \in Nat : Shape(N, S, N)
  BY <1>1 DEF Shaped
<1>3. PICK N1, S1, K1 \in Nat : Shape(N1, S1, K1)'
  BY DEF Shaped
<1>4. N = Len(Log.frames) /\ N1 = N /\ S1 = N
  BY <1>1, <1>2, <1>3 DEF Shape
<1>5. RecoveredState(N)' = RecoveredState(N)
  BY <1>1, RecoveredSame
<1>6. seenBar = Len(trailBar) /\ trailBar' = <<trailBar[seenBar]>> /\ seenBar' = 1
  BY <1>2, <1>3, <1>4, <1>5, TrailCollapses
<1> QED BY <1>1, <1>6 DEF Abstract!Sync

\* A crash keeps a prefix of the trail.
LEMMA CrashSimulates ==
    ASSUME StoreInv, Shaped, Shaped', Crash
    PROVE  Abstract!Crash
<1>1. /\ up /\ ~up' /\ current' = current
  BY CrashLog
<1>2. PICK n \in Log.synced..Len(Log.frames) :
          Log'.frames = SubSeq(Log.frames, 1, n) /\ Log'.synced = Log.synced
  BY CrashLog
<1>3. PICK N, S, K \in Nat : Shape(N, S, K)
  BY DEF Shaped
<1>4. PICK N1, S1 \in Nat : Shape(N1, S1, N1)'
  BY <1>1 DEF Shaped
<1>5. /\ N = Len(Log.frames) /\ S = Log.synced /\ N1 = Len(Log'.frames) /\ S1 = S
      /\ n \in S..N /\ n \in 0..N
  BY <1>2, <1>3, <1>4 DEF Shape
<1>6. N1 = n /\ \A i \in 1..n : Log'.frames[i] = Log.frames[i]
  BY <1>2, <1>5, LogFacts
<1>7. \A j \in 0..n : RecoveredState(j)' = RecoveredState(j)
  <2> TAKE j \in 0..n
  <2>1. j \in Nat /\ \A i \in 1..j : Log'.frames[i] = Log.frames[i]
    BY <1>5, <1>6
  <2> QED BY <1>1, <2>1, RecoveredSame
<1>8. \E m \in 1..Len(trailBar) : trailBar' = SubSeq(trailBar, 1, m) /\ seenBar' = m
  BY <1>3, <1>4, <1>5, <1>6, <1>7, TrailCut
<1> QED BY <1>1, <1>8 DEF Abstract!Crash

\* Opening the files shows what is in them.
LEMMA OpenSimulates ==
    ASSUME StoreInv, Shaped, Shaped', Open
    PROVE  Abstract!Open
<1>1. ~up /\ up' /\ ~poisoned' /\ current' = current /\ Log' = Log
  BY OpenLog
<1>2. PICK N, S \in Nat : Shape(N, S, N)
  BY <1>1 DEF Shaped
<1>3. PICK N1, S1 \in Nat : Shape(N1, S1, N1)'
  BY <1>1 DEF Shaped
<1>4. N1 = N /\ S1 = S
  BY <1>1, <1>2, <1>3 DEF Shape
<1>5. \A n \in S..N : RecoveredState(n)' = RecoveredState(n)
  BY <1>1, RecoveredSame
<1>6. trailBar' = trailBar /\ seenBar' = seenBar
  BY <1>2, <1>3, <1>4, <1>5, TrailStays
<1> QED BY <1>1, <1>6 DEF Abstract!Open

\* Nothing that leaves the log alone is visible.
LEMMA QuietSimulates ==
    ASSUME Shaped, Shaped', Quiet
    PROVE  UNCHANGED Abstract!svars
<1>1. PICK N, S, K \in Nat : Shape(N, S, K)
  BY DEF Shaped
<1>2. PICK N1, S1, K1 \in Nat : Shape(N1, S1, K1)'
  BY DEF Shaped
<1>3. KnownFrames' = KnownFrames
  BY DEF Quiet, KnownFrames, Log
<1>4. N1 = N /\ S1 = S /\ K1 = K
  BY <1>1, <1>2, <1>3 DEF Shape, Quiet
<1>5. \A n \in S..N : RecoveredState(n)' = RecoveredState(n)
  BY RecoveredSame DEF Quiet
<1>6. trailBar' = trailBar /\ seenBar' = seenBar
  BY <1>1, <1>2, <1>4, <1>5, TrailStays
<1> QED BY <1>6 DEF Quiet, Abstract!svars

\* A compaction changes no answer of a restart.
LEMMA CompactionSimulates ==
    ASSUME StoreInv, Shaped, Shaped', PublishPointer, op.kind = "compact"
    PROVE  UNCHANGED Abstract!svars
<1> DEFINE d == current.durable
           old == Contents(current)
           new == Contents(op.target)
<1>1. /\ up' = up /\ Log' = Log /\ head' = head /\ current'.durable = d /\ current' = op.target
      /\ op.stage = "persisted"
  BY PublishLog
<1>2. /\ new = Retained(old, Protected) /\ d \in Protected /\ Protected \in SUBSET Nat
      /\ old \in SUBSET Version /\ new \in SUBSET Version /\ d \in Nat
      /\ \A v \in old : v.seq <= d
      /\ \A v \in new : v.seq <= d
  <2>1. manifest = current /\ new = Retained(old, Protected)
    BY <1>1 DEF StoreInv, CurrentInv, ReadInv, TargetOK, CompactOK
  <2>2. d \in Nat /\ old \in SUBSET Version /\ \A v \in old : v.seq <= d
    BY LogFacts
  <2>3. d \in Protected /\ Protected \in SUBSET Nat
    BY <2>1, <2>2, ReadTypes DEF StoreInv, Protected, OpType
  <2>4. new \subseteq old
    BY <2>1 DEF Retained
  <2> QED BY <2>1, <2>2, <2>3, <2>4
<1>3. PICK N, S, K \in Nat : Shape(N, S, K)
  BY DEF Shaped
<1>4. PICK N1, S1, K1 \in Nat : Shape(N1, S1, K1)'
  BY DEF Shaped
<1>5. N1 = N /\ S1 = S /\ K1 = K /\ N = Len(Log.frames)
  <2>1. wals[current.wal_start]' = wals[current.wal_start]
    BY <1>1 DEF Log
  <2>2. KnownFrames' = KnownFrames
    BY <1>1, <2>1 DEF KnownFrames
  <2> QED BY <1>1, <1>3, <1>4, <2>2 DEF Shape
<1>6. ASSUME NEW n \in S..N PROVE RecoveredState(n)' = RecoveredState(n)
  <2> DEFINE fs == FrameVersions(Log, n)
             s == SeqAt(n)
  <2>1. n \in 0..Len(Log.frames)
    BY <1>5
  <2>2. /\ s \in Nat /\ d <= s /\ fs \in SUBSET Version /\ \A v \in fs : d < v.seq
    BY <2>1, LogFacts, FrameVersionsOK
  <2>3. SeqAt(n)' = s /\ FrameVersions(Log, n)' = fs
    BY <1>1 DEF SeqAt, FrameVersions
  <2>4. RecoveredState(n) = [seq |-> s, view |-> ViewAt(old \cup fs, s)]
    BY <2>1, RecoveredType
  <2>5. RecoveredState(n)' = [seq |-> s, view |-> ViewAt(new \cup fs, s)]
    <3>1. RecoveredState(n)' = [seq  |-> SeqAt(n),
                                view |-> ViewAt(Contents(current) \cup FrameVersions(Log, n), SeqAt(n))]'
      BY DEF RecoveredState, SeqAt, Log
    <3>2. Contents(current)' = new
      BY <1>1 DEF Contents
    <3> QED BY <2>3, <3>1, <3>2 DEF ViewAt
  <2> HIDE DEF fs, s, old, new, d
  <2>6. ASSUME NEW k \in Key PROVE ReadAt(new \cup fs, k, s) = ReadAt(old \cup fs, k, s)
    <3>1. ReadAt(fs \cup old, k, s)
            = IF HasVersion(fs, k, s) THEN ReadAt(fs, k, s) ELSE ReadAt(old, k, s)
      BY <1>2, <2>2, MemtableWins
    <3>2. ReadAt(fs \cup new, k, s)
            = IF HasVersion(fs, k, s) THEN ReadAt(fs, k, s) ELSE ReadAt(new, k, s)
      BY <1>2, <2>2, MemtableWins
    <3>3. ReadAt(old, k, s) = ReadAt(old, k, d) /\ ReadAt(new, k, s) = ReadAt(new, k, d)
      BY <1>2, <2>2, ReadBeyond
    <3>4. ReadAt(new, k, d) = ReadAt(old, k, d)
      BY <1>2, RetainedReads
    <3>5. fs \cup old = old \cup fs /\ fs \cup new = new \cup fs
      OBVIOUS
    <3> QED BY <3>1, <3>2, <3>3, <3>4, <3>5
  <2>7. ViewAt(new \cup fs, s) = ViewAt(old \cup fs, s)
    BY <2>6 DEF ViewAt
  <2> QED BY <2>4, <2>5, <2>7
<1>7. trailBar' = trailBar /\ seenBar' = seenBar
  BY <1>3, <1>4, <1>5, <1>6, TrailStays
<1> QED BY <1>1, <1>7 DEF Abstract!svars

\* A flush moves what was visible from the log into a segment, and makes it durable.
LEMMA FlushSimulates ==
    ASSUME StoreInv, Shaped, Shaped', PublishPointer, op.kind = "flush"
    PROVE  Abstract!Sync
<1>1. /\ up /\ up' /\ current' = op.target /\ op.stage = "persisted"
      /\ Log'.frames = <<>> /\ Log'.synced = 0
  BY PublishLog
<1>2. /\ ~poisoned /\ op.target.durable = head
      /\ op.target.segments = current.segments \cup {memtable}
  BY <1>1 DEF StoreInv, CurrentInv, ReadInv, TargetOK, FlushOK
<1>3. PICK N, S \in Nat : Shape(N, S, N)
  BY <1>2 DEF Shaped
<1>4. PICK N1, S1, K1 \in Nat : Shape(N1, S1, K1)'
  BY DEF Shaped
<1>5. N = Len(Log.frames) /\ N1 = 0 /\ S1 = 0
  BY <1>1, <1>3, <1>4 DEF Shape
<1>6. head = SeqAt(N) /\ memtable = FrameVersions(Log, N)
  BY <1>1, <1>2, <1>5, KnowsAll DEF StoreInv, RecInv, LogInv, MemoryCurrent
<1>7. RecoveredState(0)' = RecoveredState(N)
  <2>1. RecoveredState(0)' = [seq  |-> SeqAt(0),
                              view |-> ViewAt(Contents(current) \cup FrameVersions(Log, 0), SeqAt(0))]'
    BY DEF RecoveredState, SeqAt, Log
  <2>2. SeqAt(0)' = head
    BY <1>1, <1>2 DEF SeqAt
  <2>3. FrameVersions(Log, 0)' = {}
    BY DEF FrameVersions
  <2>4. Contents(current)' = Contents(current) \cup memtable
    BY <1>1, <1>2 DEF Contents
  <2>5. RecoveredState(0)' = [seq |-> head, view |-> ViewAt(Contents(current) \cup memtable, head)]
    BY <2>1, <2>2, <2>3, <2>4 DEF ViewAt
  <2>6. N \in 0..Len(Log.frames)
    BY <1>5
  <2>7. RecoveredState(N) = [seq |-> SeqAt(N), view |-> ViewAt(Contents(current) \cup FrameVersions(Log, N), SeqAt(N))]
    BY <2>6, RecoveredType
  <2> QED BY <1>6, <2>5, <2>7
<1>8. seenBar = Len(trailBar) /\ trailBar' = <<trailBar[seenBar]>> /\ seenBar' = 1
  BY <1>3, <1>4, <1>5, <1>7, TrailCollapses
<1> QED BY <1>1, <1>8 DEF Abstract!Sync

\* The abstract store reads and writes the same data.
LEMMA SameData ==
    /\ Abstract!WriteBatch = WriteBatch
    /\ \A vs, s : Abstract!ViewAt(vs, s) = ViewAt(vs, s)
<1>1. Abstract!WriteBatch = WriteBatch
  BY DEF Abstract!WriteBatch, WriteBatch, Abstract!Mutation, Mutation
<1>2. ASSUME NEW vs, NEW s, NEW k PROVE Abstract!ReadAt(vs, k, s) = ReadAt(vs, k, s)
  BY DEF Abstract!ReadAt, ReadAt, Abstract!Visible, Visible
<1> QED BY <1>1, <1>2 DEF Abstract!ViewAt, ViewAt

\* An installed bundle replaces the state altogether.
LEMMA InstallSimulates ==
    ASSUME StoreInv, Shaped, Shaped', PublishPointer, op.kind = "install"
    PROVE  \E bundle \in Bundle : Abstract!Install(bundle)
<1>1. /\ up /\ up' /\ current' = op.target /\ op.stage = "persisted"
      /\ Log'.frames = <<>> /\ Log'.synced = 0
  BY PublishLog
<1>2. PICK b \in Bundle : op.target.durable = b.sequence /\ op.target.segments = b.segments
  BY DEF StoreInv, ReadInv, TargetOK, InstallOK
<1>3. head < b.sequence
  BY <1>2 DEF StoreInv, ReadInv, TargetOK, InstallOK
<1>4. PICK N, S, K \in Nat : Shape(N, S, K) /\ SeqAt(K) = head
  BY <1>1 DEF Shaped
<1>5. PICK N1, S1, K1 \in Nat : Shape(N1, S1, K1)'
  BY DEF Shaped
<1>6. trailBar[seenBar].seq = head
  <2>1. K - S + 1 \in 1..(N - S + 1) /\ S + (K - S + 1) - 1 = K /\ K \in 0..N
        /\ N = Len(Log.frames)
    BY <1>4 DEF Shape
  <2>2. trailBar[seenBar] = RecoveredState(K)
    BY <1>4, <2>1 DEF Shape
  <2>3. RecoveredState(K) = [seq  |-> SeqAt(K),
                             view |-> ViewAt(Contents(current) \cup FrameVersions(Log, K), SeqAt(K))]
    BY <2>1, RecoveredType
  <2> QED BY <1>4, <2>2, <2>3
<1>7. N1 = 0 /\ S1 = 0 /\ K1 = 0
  BY <1>1, <1>5 DEF Shape
<1>8. RecoveredState(0)' = [seq |-> b.sequence, view |-> ViewAt(UNION b.segments, b.sequence)]
  <2>1. RecoveredState(0)' = [seq  |-> SeqAt(0),
                              view |-> ViewAt(Contents(current) \cup FrameVersions(Log, 0), SeqAt(0))]'
    BY DEF RecoveredState, SeqAt, Log
  <2>2. SeqAt(0)' = b.sequence
    BY <1>1, <1>2 DEF SeqAt
  <2>3. FrameVersions(Log, 0)' = {}
    BY DEF FrameVersions
  <2>4. Contents(current)' = UNION b.segments
    BY <1>1, <1>2 DEF Contents
  <2> QED BY <2>1, <2>2, <2>3, <2>4 DEF ViewAt
<1>9. trailBar' = <<RecoveredState(0)'>> /\ seenBar' = 1
  <2>1. /\ Len(trailBar') = 0 - 0 + 1 /\ trailBar' \in Seq(State) /\ seenBar' = 0 - 0 + 1
        /\ \A i \in 1..(0 - 0 + 1) : trailBar'[i] = RecoveredState(0 + i - 1)'
    BY <1>5, <1>7 DEF Shape, State
  <2>2. 0 - 0 + 1 = 1 /\ 1 \in 1..1 /\ 0 + 1 - 1 = 0
    OBVIOUS
  <2>3. Len(trailBar') = 1 /\ trailBar'[1] = RecoveredState(0)' /\ seenBar' = 1
    BY <2>1, <2>2
  <2> QED BY <2>1, <2>3
<1>10. b.sequence \in Nat /\ head \in Nat
  BY BundleAssumption, BoundsAssumption, ReadTypes DEF StoreInv
<1>11. Abstract!Install(b)
  <2>1. b.sequence > trailBar[seenBar].seq
    BY <1>3, <1>6, <1>10
  <2>2. trailBar' = <<[seq |-> b.sequence, view |-> Abstract!ViewAt(UNION b.segments, b.sequence)]>>
    BY <1>8, <1>9, SameData
  <2> QED BY <1>1, <1>9, <2>1, <2>2 DEF Abstract!Install
<1> QED BY <1>2, <1>11

\* The store starts empty.
LEMMA InitSimulates == ASSUME Init, Shaped PROVE Abstract!Init
<1>1. up /\ current = FirstManifest /\ ~poisoned /\ wals[1] = EmptyWal
  BY BoundsAssumption DEF Init, Start
<1>2. Log = EmptyWal /\ current.durable = 0 /\ Contents(current) = {}
  BY <1>1 DEF FirstManifest, Log, Contents
<1>3. Log.frames = <<>> /\ Log.synced = 0
  BY <1>2 DEF EmptyWal
<1>4. PICK N, S, K \in Nat : Shape(N, S, K)
  BY DEF Shaped
<1>5. N = 0 /\ S = 0 /\ K = 0
  BY <1>3, <1>4 DEF Shape
<1>6. RecoveredState(0) = Abstract!Empty
  <2>1. RecoveredState(0) = [seq |-> 0, view |-> ViewAt(Contents(current) \cup FrameVersions(Log, 0), 0)]
    BY <1>2 DEF RecoveredState, Log
  <2>2. Contents(current) \cup FrameVersions(Log, 0) = {}
    BY <1>2 DEF FrameVersions
  <2>3. ViewAt({}, 0) = [k \in Key |-> None]
    BY DEF ViewAt, ReadAt
  <2> QED BY <2>1, <2>2, <2>3 DEF Abstract!Empty
<1>7. trailBar = <<RecoveredState(0)>> /\ seenBar = 1
  <2>1. /\ Len(trailBar) = 0 - 0 + 1 /\ trailBar \in Seq(State) /\ seenBar = 0 - 0 + 1
        /\ \A i \in 1..(0 - 0 + 1) : trailBar[i] = RecoveredState(0 + i - 1)
    BY <1>4, <1>5 DEF Shape
  <2>2. 0 - 0 + 1 = 1 /\ 1 \in 1..1 /\ 0 + 1 - 1 = 0
    OBVIOUS
  <2>3. Len(trailBar) = 1 /\ trailBar[1] = RecoveredState(0) /\ seenBar = 1
    BY <2>1, <2>2
  <2> QED BY <2>1, <2>3
<1> QED BY <1>1, <1>6, <1>7 DEF Abstract!Init

\* Every step of the files is one of the abstract store, or invisible.
LEMMA NextSimulates ==
    ASSUME "sync" \notin Faults, "dirsync" \notin Faults,
           StoreInv, StoreInv', Shaped, Shaped', [Next]_vars
    PROVE  Abstract!Next \/ UNCHANGED Abstract!svars
<1>1. ASSUME NEW batch \in WriteBatch, NEW authoritative \in BOOLEAN, Write(batch, authoritative)
      PROVE  Abstract!Next
  BY <1>1, WriteSimulates, SameData DEF Abstract!Next
<1>2. ASSUME NEW batch \in WriteBatch, WriteFails(batch)
      PROVE  Abstract!Next \/ UNCHANGED Abstract!svars
  BY <1>2, WriteFailsSimulates, SameData DEF Abstract!Next
<1>3. ASSUME \/ Sync
             \/ \E compact \in BOOLEAN : \E P : FlushSyncWal(compact, P)
             \/ RepairTornTail
      PROVE  Abstract!Next
  BY <1>3, SyncSimulates DEF Abstract!Next
<1>4. CASE PublishPointer
  <2>1. op.kind \in {"flush", "compact", "install"}
    BY <1>4, PublishLog
  <2>2. CASE op.kind = "flush"
    BY <1>4, <2>2, FlushSimulates DEF Abstract!Next
  <2>3. CASE op.kind = "compact"
    BY <1>4, <2>3, CompactionSimulates
  <2>4. CASE op.kind = "install"
    BY <1>4, <2>4, InstallSimulates DEF Abstract!Next
  <2> QED BY <2>1, <2>2, <2>3, <2>4
<1>5. CASE Crash
  BY <1>5, CrashSimulates DEF Abstract!Next
<1>6. CASE Open
  BY <1>6, OpenSimulates DEF Abstract!Next
<1>7. CASE Quiet
  BY <1>7, QuietSimulates
<1> QED BY <1>1, <1>2, <1>3, <1>4, <1>5, <1>6, <1>7, StepKinds

\* The files implement the abstract durable store: whatever keys, values, bundles and
\* bounds, every write is one atomic batch, a crash between any two file operations loses
\* a suffix of the batches that were not synced and nothing else, an installation
\* replaces the state, and flush, compaction, collection and repair change no answer.
THEOREM Implements ==
    ASSUME FileSyncPersistsName = TRUE, "sync" \notin Faults, "dirsync" \notin Faults
    PROVE  Spec => ImplementsDurableStore
<1>1. Init => StoreInv
  BY StoreInvariant
<1>2. StoreInv /\ [Next]_vars => StoreInv'
  BY StoreInvariant
<1>3. Init /\ Shaped => Abstract!Init
  BY InitSimulates
<1>4. StoreInv /\ StoreInv' /\ Shaped /\ Shaped' /\ [Next]_vars => [Abstract!Next]_(Abstract!svars)
  BY NextSimulates
<1> QED BY <1>1, <1>2, <1>3, <1>4, ShapeHolds, PTL DEF Spec, ImplementsDurableStore, Abstract!Spec

=============================================================================
