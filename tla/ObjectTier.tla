----------------------------- MODULE ObjectTier -----------------------------
(***************************************************************************)
(* Immutable objects beside the canonical log: writers publish bytes under *)
(* their digest, verify them, and commit a reference to them in a data     *)
(* transaction (vyrm-store: object.rs, s3.rs, ds.rs).                      *)
(*                                                                         *)
(* An object is what lies under its digest: nothing, the bytes the digest  *)
(* names, or other bytes (rot).  Publication is the sequence of file       *)
(* operations of LocalObjectStore, or the conditional put of the S3        *)
(* adapter; writers interleave between any two of them, and crash.  The    *)
(* log is the sequence of transactions committed, each bound to the cursor *)
(* it was built on; the engine's own commit is RuntimeLog's.               *)
(***************************************************************************)
EXTENDS Naturals, Sequences, FiniteSets, SequencesExt

CONSTANTS Digests, Writers,
          MaxCommits,     \* bound on the log
          MaxFaults       \* bound on crashes and on rotten objects

VARIABLES backend,   \* which adapter is used: "local" or "s3"
          objects,   \* what lies under each digest
          log,       \* committed transactions: [digest, cursor]
          writer,    \* each writer's step, digest and read stamp
          rotted,    \* digests whose object has ever rotted
          lost,      \* digests whose object rotted while referred to, and
                     \* was not published again
          kept,      \* digests of which quarantine/ holds a whole copy
          stranded,  \* digests left absent by a writer that died between
                     \* its quarantine and its rename
          faults

(* rotted, lost, kept and stranded only observe.                           *)
store == <<objects, rotted, lost, kept, stranded>>
vars == <<backend, store, log, writer, faults>>

Idle == [pc |-> "idle", digest |-> "none", cursor |-> 0]
At(w, pc) == writer[w].pc = pc
Go(w, pc) == writer' = [writer EXCEPT ![w].pc = pc]
Fail(w) == writer' = [writer EXCEPT ![w] = Idle]
Now(w) == objects[writer[w].digest]
Place(w, what) == objects' = [objects EXCEPT ![writer[w].digest] = what]
Install(w) ==
  /\ Place(w, "good")
  /\ lost' = lost \ {writer[w].digest} /\ stranded' = stranded \ {writer[w].digest}
  /\ UNCHANGED <<rotted, kept>>
Steady == UNCHANGED <<backend, faults>>

Init ==
  /\ backend \in {"local", "s3"}
  /\ objects = [d \in Digests |-> "none"]
  /\ log = <<>>
  /\ writer = [w \in Writers |-> Idle]
  /\ rotted = {} /\ lost = {} /\ kept = {} /\ stranded = {} /\ faults = 0

(* What the log refers to, and what a transaction that has been verified   *)
(* is about to refer to.                                                   *)
Referenced == {log[i].digest : i \in DOMAIN log}
Referring == {writer[w].digest : w \in {v \in Writers : At(v, "commit")}}

(* stage_object: the bytes are staged and synced under a name of their own *)
(* (put_file streams them, put has them in memory).                        *)
Stage(w) ==
  /\ writer[w] = Idle /\ Len(log) < MaxCommits
  /\ \E d \in Digests :
       writer' = [writer EXCEPT ![w] = [pc |-> "publish", digest |-> d, cursor |-> Len(log)]]
  /\ UNCHANGED <<store, log>> /\ Steady

(* publish_stage: an existing verified object is equivalent, a corrupt one *)
(* is moved out of the way first.                                          *)
Publish(w) ==
  /\ backend = "local" /\ At(w, "publish")
  /\ CASE Now(w) = "none" -> Install(w) /\ Go(w, "verify")
       [] Now(w) = "good" -> Go(w, "verify") /\ UNCHANGED store
       [] Now(w) = "rotten" -> Go(w, "quarantine") /\ UNCHANGED store
  /\ UNCHANGED log /\ Steady

(* quarantine moves whatever is there by now: another writer may have put  *)
(* whole bytes there since this one found them corrupt.                    *)
Quarantine(w) ==
  /\ At(w, "quarantine")
  /\ IF Now(w) = "none" THEN Fail(w) /\ UNCHANGED store
     ELSE /\ Place(w, "none") /\ Go(w, "rename")
          /\ kept' = IF Now(w) = "good" THEN kept \cup {writer[w].digest} ELSE kept
          /\ UNCHANGED <<rotted, lost, stranded>>
  /\ UNCHANGED log /\ Steady

Rename(w) ==
  /\ At(w, "rename")
  /\ Install(w) /\ Go(w, "verify")
  /\ UNCHANGED log /\ Steady

(* S3CompatibleObjectStore::put: the transport's conditional create.       *)
PutIfAbsent(w) ==
  /\ backend = "s3" /\ At(w, "publish")
  /\ IF Now(w) = "none" THEN Install(w) ELSE UNCHANGED store
  /\ Go(w, "verify")
  /\ UNCHANGED log /\ Steady

(* verify reads the bytes back and compares their digest.                  *)
Verified(w) == Now(w) = "good"

VerifyPut(w) ==
  /\ At(w, "verify")
  /\ IF Verified(w) THEN Go(w, "staged") ELSE Fail(w)
  /\ UNCHANGED <<store, log>> /\ Steady

(* DataRuntime::commit verifies every object of the transaction again ...  *)
AdmitStaged(w) == TRUE                        \* a mutant: what put returned is trusted
AdmitCommit(w) == Verified(w)
VerifyCommit(w) ==
  /\ At(w, "staged")
  /\ IF AdmitCommit(w) THEN Go(w, "commit") ELSE Fail(w)
  /\ UNCHANGED <<store, log>> /\ Steady

(* ... and commits it, unless this very transaction has been committed: a  *)
(* transaction built on another cursor is refused and leaves an orphan.    *)
Transaction(w) == [digest |-> writer[w].digest, cursor |-> writer[w].cursor]
Commit(w) ==
  /\ At(w, "commit")
  /\ CASE Transaction(w) \in ToSet(log) -> Go(w, "done") /\ UNCHANGED log
       [] Transaction(w) \notin ToSet(log) /\ writer[w].cursor = Len(log) ->
            log' = Append(log, Transaction(w)) /\ Go(w, "done")
       [] OTHER -> Fail(w) /\ UNCHANGED log
  /\ UNCHANGED store /\ Steady

(* The outcome arrives, or is lost and the transaction is committed again. *)
Acknowledge(w) == At(w, "done") /\ Fail(w) /\ UNCHANGED <<store, log>> /\ Steady
Retry(w) ==
  /\ At(w, "done") /\ faults < MaxFaults /\ faults' = faults + 1
  /\ Go(w, "staged")
  /\ UNCHANGED <<backend, store, log>>

Crash(w) ==
  /\ writer[w] # Idle /\ faults < MaxFaults
  /\ Fail(w) /\ faults' = faults + 1
  /\ stranded' = IF At(w, "rename") THEN stranded \cup {writer[w].digest} ELSE stranded
  /\ UNCHANGED <<backend, objects, rotted, lost, kept, log>>

Rot ==
  /\ faults < MaxFaults /\ faults' = faults + 1
  /\ \E d \in Digests : /\ objects[d] = "good"
                        /\ objects' = [objects EXCEPT ![d] = "rotten"]
                        /\ rotted' = rotted \cup {d}
                        /\ lost' = IF d \in Referenced \cup Referring THEN lost \cup {d} ELSE lost
  /\ UNCHANGED <<backend, kept, stranded, log, writer>>

(* inventory classifies what is there; reclaim_orphans deletes what its    *)
(* caller proved unreachable: not referenced, and no transaction that has  *)
(* been verified is about to refer to it.                                  *)
Orphans == {d \in Digests : objects[d] = "good" /\ d \notin Referenced}
Unreachable == Orphans \ Referring
Reclaim ==
  /\ Unreachable # {}
  /\ \E ds \in SUBSET Unreachable \ {{}} :
       objects' = [d \in Digests |-> IF d \in ds THEN "none" ELSE objects[d]]
  /\ UNCHANGED <<rotted, lost, kept, stranded, log, writer>> /\ Steady

(* An operator quarantines what the inventory reports corrupt.             *)
QuarantineCorrupt ==
  /\ backend = "local"
  /\ \E d \in Digests : objects[d] = "rotten" /\ objects' = [objects EXCEPT ![d] = "none"]
  /\ UNCHANGED <<rotted, lost, kept, stranded, log, writer>> /\ Steady

Next == \/ \E w \in Writers : \/ Stage(w) \/ Publish(w) \/ Quarantine(w) \/ Rename(w)
                              \/ PutIfAbsent(w) \/ VerifyPut(w) \/ VerifyCommit(w)
                              \/ Commit(w) \/ Acknowledge(w) \/ Retry(w) \/ Crash(w)
        \/ Rot \/ Reclaim \/ QuarantineCorrupt

Spec == Init /\ [][Next]_vars

-----------------------------------------------------------------------------
(* A writer that once found the object corrupt has moved the whole copy    *)
(* another put there into quarantine/, and has not come to rename its own  *)
(* into place, or died before it did.                                      *)
Displaced(d) ==
  /\ objects[d] = "none" /\ d \in kept /\ d \in rotted
  /\ d \in stranded \/ \E w \in Writers : At(w, "rename") /\ writer[w].digest = d

(* What the log refers to is there, whole, whatever orphans were reclaimed *)
(* and whoever crashed where, with two exceptions: the medium lost it      *)
(* while it was referred to and nobody published it again; or a second     *)
(* writer is at work on a digest that was found corrupt before, or died    *)
(* there, and then its bytes are whole in quarantine/.  And a transaction  *)
(* whose answer was lost is committed once.                                *)
ReferencesResolve ==
  /\ \A d \in Referenced : objects[d] = "good" \/ d \in lost \/ Displaced(d)
  /\ IsInjective(log)

(* What object.rs says of quarantine, that it moves corrupt objects out of *)
(* the addressable namespace: a whole object that the log refers to stays. *)
(* It does not hold: two writers that found one orphan corrupt refute it.  *)
ReferencesStay == \A d \in Referenced \ lost : objects[d] = "good"
=============================================================================
