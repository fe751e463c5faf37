--------------------------- MODULE SnapshotLease ---------------------------
(***************************************************************************)
(* Leases on runtime snapshots in the native engine (vyrm-store/native.rs, *)
(* SnapshotHandle in vyrm-core/runtime.rs).  A lease is a record in the    *)
(* database; what protects its history from garbage collection is a named  *)
(* checkpoint in the manifest store.  The two are written one after the    *)
(* other, and reconciled when the engine opens and before it compacts or   *)
(* collects.                                                               *)
(*                                                                         *)
(* A handle's identity is a digest of its stamp, owner and window, so it   *)
(* is modelled by these; opening the same lease twice gives one handle. A  *)
(* manifest is the cursor it covers.  The engine's mutex lets one          *)
(* operation run at a time, but it may fail, or the process may die,       *)
(* between any two of its writes.  Callers' clocks agree and never go      *)
(* back.                                                                   *)
(***************************************************************************)
EXTENDS Naturals, FiniteSets

CONSTANTS Owners, Ttls,
          MaxHead, MaxClock, MaxFaults   \* bounds on commits, time and faults

VARIABLES head,       \* the runtime log's cursor
          manifest,   \* the cursor the current manifest covers
          files,      \* manifests whose files exist
          records,    \* persisted lease records
          pins,       \* the checkpoints named after leases: <<handle, manifest>>
          op,         \* the operation under the engine's lock
          granted,    \* handles returned to a caller and not released since
          clock, faults

vars == <<head, manifest, files, records, pins, op, granted, clock, faults>>

Idle == [pc |-> "idle"]
Closed == [pc |-> "closed"]
Handle(owner, ttl) == [owner |-> owner, cursor |-> head, created |-> clock, expires |-> clock + ttl]
IsExpired(h, now) == now >= h.expires
Pinned == {p[1] : p \in pins}

Init ==
  /\ head = 0 /\ manifest = 0 /\ files = {0}
  /\ records = {} /\ pins = {} /\ granted = {}
  /\ op = Idle /\ clock = 0 /\ faults = 0

Commit == /\ op = Idle /\ head < MaxHead /\ head' = head + 1
          /\ UNCHANGED <<manifest, files, records, pins, op, granted, clock, faults>>
Tick == /\ clock < MaxClock /\ clock' = clock + 1
        /\ UNCHANGED <<head, manifest, files, records, pins, op, granted, faults>>

(* open_runtime_snapshot: the record is written first, unless the same     *)
(* lease is there already; a new record is deleted if the pin fails.       *)
OpenLease ==
  /\ op = Idle
  /\ \E owner \in Owners, ttl \in Ttls :
       LET h == Handle(owner, ttl) IN
       /\ records' = records \cup {h}
       /\ op' = [pc |-> IF h \in Pinned THEN "grant" ELSE "flush", handle |-> h,
                 new |-> h \notin records]
  /\ UNCHANGED <<head, manifest, files, pins, granted, clock, faults>>

(* ensure_runtime_checkpoint: flush the memtable, then name its manifest.  *)
FlushForLease ==
  /\ op.pc = "flush"
  /\ manifest' = head /\ files' = files \cup {head}
  /\ op' = [op EXCEPT !.pc = "checkpoint"]
  /\ UNCHANGED <<head, records, pins, granted, clock, faults>>

CheckpointLease ==
  /\ op.pc = "checkpoint"
  /\ pins' = pins \cup {<<op.handle, manifest>>}
  /\ op' = [op EXCEPT !.pc = "grant"]
  /\ UNCHANGED <<head, manifest, files, records, granted, clock, faults>>

Grant ==
  /\ op.pc = "grant"
  /\ granted' = granted \cup {op.handle}
  /\ op' = Idle
  /\ UNCHANGED <<head, manifest, files, records, pins, clock, faults>>

(* The deletion may fail as the pin did.                                   *)
PinFails ==
  /\ op.pc \in {"flush", "checkpoint"} /\ faults < MaxFaults /\ faults' = faults + 1
  /\ \/ records' = IF op.new THEN records \ {op.handle} ELSE records
     \/ UNCHANGED records
  /\ op' = Idle
  /\ UNCHANGED <<head, manifest, files, pins, granted, clock>>

(* release_runtime_snapshot: the record goes first, then the checkpoint.   *)
Release ==
  /\ op = Idle
  /\ \E h \in records :
       /\ records' = records \ {h} /\ granted' = granted \ {h}
       /\ op' = [pc |-> "unpin", handle |-> h]
  /\ UNCHANGED <<head, manifest, files, pins, clock, faults>>

Unpin ==
  /\ op.pc = "unpin"
  /\ pins' = {p \in pins : p[1] # op.handle}
  /\ op' = Idle
  /\ UNCHANGED <<head, manifest, files, records, granted, clock, faults>>

(* reconcile_runtime_checkpoints: on opening (no instant: every record     *)
(* counts) and before compaction and collection (the caller's instant).    *)
StartReconcile ==
  /\ \/ op = Closed /\ op' = [pc |-> "reconcile", desired |-> records, then |-> "open"]
     \/ op = Idle /\ op' = [pc |-> "reconcile", then |-> "collect",
                            desired |-> {h \in records : ~IsExpired(h, clock)}]
  /\ UNCHANGED <<head, manifest, files, records, pins, granted, clock, faults>>

(* Missing pins are made first, on a fresh manifest, then stale ones go.   *)
AddPin ==
  /\ op.pc = "reconcile"
  /\ \E h \in op.desired \ Pinned : pins' = pins \cup {<<h, head>>}
  /\ manifest' = head /\ files' = files \cup {head}
  /\ UNCHANGED <<head, records, op, granted, clock, faults>>

DropPin ==
  /\ op.pc = "reconcile" /\ op.desired \subseteq Pinned
  /\ \E p \in pins : p[1] \notin op.desired /\ pins' = pins \ {p}
  /\ UNCHANGED <<head, manifest, files, records, op, granted, clock, faults>>

Reconciled ==
  /\ op.pc = "reconcile" /\ op.desired = Pinned
  /\ op' = IF op.then = "open" THEN Idle ELSE [pc |-> "collect"]
  /\ UNCHANGED <<head, manifest, files, records, pins, granted, clock, faults>>

(* compact and garbage_collect: what neither CURRENT nor a checkpoint      *)
(* reaches is deleted.                                                     *)
CollectAll == {manifest}                                    \* a mutant
Retained == {manifest} \cup {p[2] : p \in pins}
Collect ==
  /\ op.pc = "collect"
  /\ files' = Retained
  /\ op' = Idle
  /\ UNCHANGED <<head, manifest, records, pins, granted, clock, faults>>

(* A release or a reconciliation returns an error halfway; the engine goes *)
(* on, unless it was being opened.                                         *)
Interrupt ==
  /\ op.pc \in {"unpin", "reconcile"} /\ faults < MaxFaults /\ faults' = faults + 1
  /\ op' = IF op.pc = "reconcile" /\ op.then = "open" THEN Closed ELSE Idle
  /\ UNCHANGED <<head, manifest, files, records, pins, granted, clock>>

Crash ==
  /\ op # Closed /\ faults < MaxFaults /\ faults' = faults + 1
  /\ op' = Closed
  /\ UNCHANGED <<head, manifest, files, records, pins, granted, clock>>

Next == \/ Commit \/ Tick \/ OpenLease \/ FlushForLease \/ CheckpointLease \/ Grant
        \/ PinFails \/ Release \/ Unpin \/ StartReconcile \/ AddPin \/ DropPin
        \/ Reconciled \/ Collect \/ Interrupt \/ Crash

Spec == Init /\ [][Next]_vars

-----------------------------------------------------------------------------
(* A lease that was granted, not released and not expired keeps a manifest *)
(* whose files exist and which covers its cursor, through failures between *)
(* the record and the checkpoint, restarts, and every collection.          *)
LeaseProtectsHistory ==
  op = Idle => \A h \in granted : ~IsExpired(h, clock) =>
     h \in records /\ \E p \in pins : p[1] = h /\ p[2] \in files /\ p[2] >= h.cursor
=============================================================================
