--------------------------- MODULE ClaimProjection ---------------------------
(***************************************************************************)
(* The claim log of an Engine and the current-state projection the trait   *)
(* in engine.rs maintains over it: rebuild, ground, reset, and quarantine. *)
(*                                                                         *)
(* Each primitive takes the database's mutex once and is one action.  The  *)
(* provided operations call several primitives, so that appends, commits   *)
(* and a restart fall between them.  Operators run one of them at a time,  *)
(* as the commands of vyrm-cli do.                                         *)
(*                                                                         *)
(* A claim is its (subject, predicate) pair, its rank, which stands for    *)
(* (valid_from, tx_time), and its content.  Pair and rank make its key.    *)
(* A digest is what it authenticates, and times are left out.              *)
(***************************************************************************)
EXTENDS Naturals, Sequences

CONSTANTS
    Pairs,            \* (subject, predicate) pairs
    Ranks,            \* (valid_from, tx_time), in their order
    Objects,          \* contents
    AppendForm,       \* what append_batch stores in the sequence index
    CommitForm,       \* what a runtime commit stores there: "claim" or "key"
    CommitKeysReused, \* whether a key some commit wrote may be written again
    Tampering,        \* whether the stored projection may be altered from outside
    NoStamp,          \* last_grounded is None
    NoTask,           \* no operation is under way
    MaxClaims,        \* bound: sequence watermark
    MaxBatch,         \* bound: claims in a batch
    MaxBuffered       \* bound: projection writes not yet synced

ASSUME ConstantsAssumption ==
    /\ Ranks \subseteq Nat
    /\ {AppendForm, CommitForm} \subseteq {"claim", "key"}
    /\ {CommitKeysReused, Tampering} \subseteq BOOLEAN
    /\ {MaxClaims, MaxBatch, MaxBuffered} \subseteq Nat

VARIABLES
    appended,   \* the claims in the order they were appended (history variable)
    index,      \* SEQUENCE_INDEX; its length is SEQUENCE_WATERMARK
    claims,     \* CLAIMS: content by key
    blobs,      \* the stored projection: what is on stable storage, then each
                \* buffered write after it
    task        \* the operation under way and what it holds

vars == <<appended, index, claims, blobs, task>>

Claim == [pair : Pairs, rank : Ranks, object : Objects]
KeyOf(c) == <<c.pair, c.rank>>
Keys == Pairs \X Ranks

\* CurrentProjection::empty.  The field drifted is not stored: it records that the
\* entries were altered from outside.
EmptyProjection ==
    [watermark |-> 0, quarantined |-> FALSE, last_grounded |-> NoStamp,
     entries |-> <<>>, drifted |-> FALSE]

\* get_projection: the last write, synced or not.
Current == blobs[Len(blobs)]

\* An authoritative write syncs the log, and with it every buffered write before it.
Synced(bs) == <<bs[Len(bs)]>>

Init ==
    /\ appended = <<>>
    /\ index = <<>>
    /\ claims = <<>>
    /\ blobs = <<EmptyProjection>>
    /\ task = NoTask

-----------------------------------------------------------------------------
(* The claim log *)

\* encode_native_sequence_value, or the bare key.
IndexEntry(form, c) ==
    IF form = "claim" THEN [form |-> form, claim |-> c] ELSE [form |-> form, key |-> KeyOf(c)]

\* A batch in the claims keyspace: the last write of a key stays.
WithClaims(batch) ==
    [k \in DOMAIN claims \cup {KeyOf(batch[i]) : i \in DOMAIN batch} |->
       LET at == {i \in DOMAIN batch : KeyOf(batch[i]) = k}
       IN  IF at = {} THEN claims[k]
           ELSE batch[CHOOSE i \in at : \A j \in at : j <= i]]

\* Workloads that write a claim key a commit has written, or commit a key that is
\* there, are left to CommitKeysReused.
Fresh(batch) ==
    /\ \A j \in DOMAIN batch : KeyOf(batch[j]) \notin DOMAIN claims
    /\ \A i, j \in DOMAIN batch : i # j => KeyOf(batch[i]) # KeyOf(batch[j])
KeysAdmitted(form, batch) ==
    \/ CommitKeysReused
    \/ /\ form = "key" => Fresh(batch)
       /\ \A i \in DOMAIN index, j \in DOMAIN batch :
             index[i].form = "key" => index[i].key # KeyOf(batch[j])

\* Claims, index entries and watermark are one authoritative batch.
Write(form, batch) ==
    /\ Len(index) + Len(batch) <= MaxClaims
    /\ KeysAdmitted(form, batch)
    /\ appended' = appended \o batch
    /\ index' = index \o [i \in DOMAIN batch |-> IndexEntry(form, batch[i])]
    /\ claims' = WithClaims(batch)
    /\ blobs' = Synced(blobs)
    /\ UNCHANGED task

\* append_batch
AppendBatch(batch) == Write(AppendForm, batch)

\* The claims of a runtime commit, in its batch.
CommitClaims(batch) == Write(CommitForm, batch)

\* The claim at a position: the one in the index, or the one its key has now.
Decode(e) == IF e.form = "claim" THEN e.claim ELSE claims[e.key]

\* claims_in_range: the claims in (from, to].
ClaimsInRange(from, to) ==
    LET last == IF to <= Len(index) THEN to ELSE Len(index)
    IN  IF from >= last THEN <<>>
        ELSE [i \in 1..(last - from) |-> Decode(index[from + i])]

-----------------------------------------------------------------------------
(* The projection *)

FoldOne(entries, c) ==
    IF c.pair \in DOMAIN entries /\ c.rank < entries[c.pair].rank
      THEN entries
      ELSE [p \in DOMAIN entries \cup {c.pair} |-> IF p = c.pair THEN c ELSE entries[p]]

\* CurrentProjection::apply
Fold(entries, cs) ==
    LET after[n \in 0..Len(cs)] == IF n = 0 THEN entries ELSE FoldOne(after[n - 1], cs[n])
    IN  after[Len(cs)]

\* put_projection_with at its two durabilities.
PutBuffered(p) ==
    /\ Len(blobs) <= MaxBuffered
    /\ blobs' = Append(blobs, p)

PutAuthoritative(p) == blobs' = <<p>>

\* A task holds the projection it read, the watermark it will write and the claims
\* it will fold, as far as it got.
At(op, stage) == task # NoTask /\ task.op = op /\ task.stage = stage
Keep == UNCHANGED <<appended, index, claims>>

\* rebuild_current and ground_current load the projection and refuse a quarantined one.
Load(op) ==
    /\ task = NoTask
    /\ ~Current.quarantined
    /\ task' = [op |-> op, stage |-> "loaded", projection |-> Current, to |-> Current.watermark,
                interval |-> <<>>]
    /\ UNCHANGED blobs /\ Keep

\* reset_current discards it.
StartReset ==
    /\ task = NoTask
    /\ task' = [op |-> "reset", stage |-> "loaded", projection |-> EmptyProjection, to |-> 0,
                interval |-> <<>>]
    /\ UNCHANGED blobs /\ Keep

\* Both then ask for the sequence.
ReadSequence ==
    /\ At("rebuild", "loaded") \/ At("reset", "loaded")
    /\ task' = [task EXCEPT !.stage = "bounded", !.to = Len(index)]
    /\ UNCHANGED blobs /\ Keep

\* Mutant: the interval is read without the bound taken before.
ReadIntervalUnbounded ==
    /\ At("rebuild", "bounded") \/ At("reset", "bounded")
    /\ task' = [task EXCEPT !.stage = "read",
                            !.interval = ClaimsInRange(task.projection.watermark + 1, Len(index))]
    /\ UNCHANGED blobs /\ Keep

\* and for the claims up to it,
ReadInterval ==
    /\ At("rebuild", "bounded") \/ At("reset", "bounded")
    /\ task' = [task EXCEPT !.stage = "read",
                            !.interval = ClaimsInRange(task.projection.watermark, task.to)]
    /\ UNCHANGED blobs /\ Keep

\* fold them, and write entries and watermark as one blob.
PutRebuilt ==
    /\ At("rebuild", "read") \/ At("reset", "read")
    /\ PutBuffered([task.projection EXCEPT
                      !.watermark = task.to,
                      !.entries = Fold(task.projection.entries, task.interval)])
    /\ task' = NoTask
    /\ Keep

\* Mutant: the whole log is read, whatever the watermark.
GroundReadAll ==
    /\ At("ground", "loaded")
    /\ task' = [task EXCEPT !.stage = "read", !.interval = ClaimsInRange(0, Len(index))]
    /\ UNCHANGED blobs /\ Keep

\* ground_current reads the log up to the projection's own watermark,
GroundRead ==
    /\ At("ground", "loaded")
    /\ task' = [task EXCEPT !.stage = "read", !.interval = ClaimsInRange(0, task.to)]
    /\ UNCHANGED blobs /\ Keep

Recomputed == Fold(<<>>, task.interval)

\* GroundedStamp
Stamp(p) == [sequence |-> p.watermark, digest |-> p.entries]

\* stamps a projection that equals its recomputation,
GroundPasses ==
    /\ At("ground", "read")
    /\ Recomputed = task.projection.entries
    /\ PutBuffered([task.projection EXCEPT !.last_grounded = Stamp(task.projection)])
    /\ task' = NoTask
    /\ Keep

\* Mutant: the quarantine is written like any other projection.
GroundDivergesBuffered ==
    /\ At("ground", "read")
    /\ Recomputed # task.projection.entries
    /\ PutBuffered([task.projection EXCEPT !.quarantined = TRUE])
    /\ task' = NoTask
    /\ Keep

\* and quarantines one that differs.
GroundDiverges ==
    /\ At("ground", "read")
    /\ Recomputed # task.projection.entries
    /\ PutAuthoritative([task.projection EXCEPT !.quarantined = TRUE])
    /\ task' = NoTask
    /\ Keep

-----------------------------------------------------------------------------
(* Around the engine *)

\* A flush makes every buffered write durable.
Flush ==
    /\ blobs' = Synced(blobs)
    /\ UNCHANGED task /\ Keep

\* The process ends and the store is opened again: what is lost is a suffix of the
\* buffered writes.
Restart ==
    /\ \E i \in DOMAIN blobs : blobs' = <<blobs[i]>>
    /\ task' = NoTask
    /\ Keep

\* External: an entry of the stored projection changes under the engine.
Drift(pair, object) ==
    /\ Tampering
    /\ task = NoTask
    /\ ~Current.quarantined /\ ~Current.drifted
    /\ pair \in DOMAIN Current.entries /\ Current.entries[pair].object # object
    /\ PutBuffered([Current EXCEPT !.entries[pair].object = object, !.drifted = TRUE])
    /\ UNCHANGED task /\ Keep

Batches == UNION {[1..n -> Claim] : n \in 1..MaxBatch}

Next ==
    \/ \E batch \in Batches : AppendBatch(batch) \/ CommitClaims(batch)
    \/ Load("rebuild") \/ Load("ground") \/ StartReset
    \/ ReadSequence \/ ReadInterval \/ PutRebuilt
    \/ GroundRead \/ GroundPasses \/ GroundDiverges
    \/ Flush \/ Restart
    \/ \E pair \in Pairs, object \in Objects : Drift(pair, object)

Spec == Init /\ [][Next]_vars

-----------------------------------------------------------------------------
(* Properties *)

\* The newest claim of each pair among the first n appended: by rank, and the later
\* one of equals.
NewestOf(n) ==
    LET of(p) == {i \in 1..n : appended[i].pair = p}
        newer(i, j) == \/ appended[i].rank > appended[j].rank
                       \/ appended[i].rank = appended[j].rank /\ i >= j
    IN  [p \in {appended[i].pair : i \in 1..n} |->
           appended[CHOOSE i \in of(p) : \A j \in of(p) : newer(i, j)]]

ProjectionOK(p) ==
    /\ p.watermark \in 0..Len(appended)
    /\ DOMAIN p.entries \subseteq Pairs
    /\ p.quarantined \in BOOLEAN

\* Type invariant of the store.
TypeOK ==
    /\ appended \in Seq(Claim)
    /\ Len(index) = Len(appended)
    /\ DOMAIN claims \subseteq Keys
    /\ Len(blobs) \in 1..(MaxBuffered + 1)
    /\ \A i \in DOMAIN blobs : ProjectionOK(blobs[i])

\* Incremental maintenance equals batch computation: whatever was appended while a
\* rebuild ran and whichever of its writes a restart lost, a stored projection holds
\* the newest claim of each pair among those up to its watermark (rebuild_current,
\* reset_current, CurrentProjection::apply), and the evidence of its grounding is
\* true of the log: what was stamped is the newest claim of each pair at the sequence
\* it names, also after drift, restart and reset (GroundedStamp).
ProjectionIsNewest ==
    \A i \in DOMAIN blobs :
        LET s == blobs[i].last_grounded
        IN  /\ ~blobs[i].drifted => blobs[i].entries = NewestOf(blobs[i].watermark)
            /\ s # NoStamp => s.digest = NewestOf(s.sequence)

\* A projection is quarantined only if its entries were altered: a projection that
\* merely lags behind the log is not reported as diverged (ground_current).
OnlyDriftDiverges == \A i \in DOMAIN blobs : blobs[i].quarantined => blobs[i].drifted

\* Quarantine is left only by the last step of a reset; neither a restart nor a
\* rebuild that was under way undoes it (ground_current, rebuild_current).
LeftByReset ==
    Current.quarantined /\ ~Current'.quarantined => At("reset", "read")
QuarantineSticks == [][LeftByReset]_vars

=============================================================================
