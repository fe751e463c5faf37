----------------------------- MODULE GroupWriter -----------------------------
(***************************************************************************)
(* The group-commit writer of vyrm-store (writer.rs): client threads queue *)
(* claims with submit, one commit thread drains the queue in batches into  *)
(* the store, and flush waits until everything submitted before it is      *)
(* durable.  All share one mutex and three condition variables.            *)
(*                                                                         *)
(* One action is one critical section.  A thread that waits on a condition *)
(* variable is asleep and only a notification, a timeout or a spurious     *)
(* wake-up lets it run again; a notification sent when nobody sleeps is    *)
(* lost, as it is in std::sync::Condvar.  Claims are numbered in the order *)
(* submit accepted them.                                                   *)
(***************************************************************************)
EXTENDS Naturals, Sequences

CONSTANTS
    Client,          \* threads that share the Writer
    Owner,           \* the thread that shuts the Writer down or drops it
    MaxPerBatch,     \* WriterConfig::max_batch
    QueueCapacity,   \* WriterConfig::queue_capacity
    MaxClaims        \* bound: claims submitted

ASSUME OwnerAssumption == Owner \notin Client
ASSUME ConfigAssumption == MaxPerBatch \in Nat \ {0} /\ QueueCapacity \in Nat \ {0}
ASSUME MaxClaimsAssumption == MaxClaims \in Nat

VARIABLES
    pending,          \* State::pending
    submitted,        \* State::submitted
    durable_through,  \* State::durable_through
    failure,          \* State::failure is set
    flush_requested,  \* State::flush_requested
    shutdown,         \* State::shutdown
    stopping,         \* Writer::stopping
    pc,               \* where each client thread is
    target,           \* the local variable of a thread inside flush
    worker,           \* where the commit thread is
    batch,            \* the claims the commit thread took
    stored,           \* claims in the store
    promised          \* highest target of a flush that returned Ok

state == <<pending, submitted, durable_through, failure, flush_requested, shutdown>>
vars == <<pending, submitted, durable_through, failure, flush_requested, shutdown,
          stopping, pc, target, worker, batch, stored, promised>>

Thread == Client \cup {Owner}

\* A thread is idle, or inside submit: about to lock ("submit"), asleep on
\* drained ("submit_asleep"), about to notify work ("submit_notify"); or inside
\* flush: about to notify work ("flush_notify"), about to lock and look at the
\* progress ("flush_check"), asleep on progress ("flush_asleep"); or, for the
\* owner, inside stop after its flush returned.
ThreadPC == {"idle", "submit", "submit_asleep", "submit_notify",
             "flush", "flush_notify", "flush_check", "flush_asleep",
             "stop_set", "stop_notify", "stop_join", "stopped"}

\* The commit thread is about to lock and look for work ("look"), asleep on work
\* ("asleep"), inside append_batch ("append"), about to record its outcome
\* ("appended", "failed"), or has returned ("exited").
WorkerPC == {"look", "asleep", "append", "appended", "failed", "exited"}

Init ==
    /\ pending = <<>> /\ submitted = 0 /\ durable_through = 0
    /\ failure = FALSE /\ flush_requested = FALSE /\ shutdown = FALSE
    /\ stopping = FALSE
    /\ pc = [t \in Thread |-> "idle"]
    /\ target = [t \in Thread |-> 0]
    /\ worker = "look"
    /\ batch = <<>>
    /\ stored = <<>>
    /\ promised = 0

Goto(t, label) == pc' = [pc EXCEPT ![t] = label]

\* Condvar::notify_one and notify_all.
NotifyWork == worker' = IF worker = "asleep" THEN "look" ELSE worker
WakeAll(asleep, awake) == [t \in Thread |-> IF pc[t] = asleep THEN awake ELSE pc[t]]

(***************************************************************************)
(* Writer::submit                                                          *)
(***************************************************************************)

SubmitCall(c) ==
    /\ pc[c] = "idle" /\ ~stopping
    /\ submitted < MaxClaims
    /\ Goto(c, "submit")
    /\ UNCHANGED <<state, stopping, target, worker, batch, stored, promised>>

QueueFull == Len(pending) >= QueueCapacity

\* One pass of the loop: fail, push the claim, or wait for the queue to drain.
SubmitBody(c) ==
    /\ pc[c] = "submit"
    /\ \/ /\ failure \/ shutdown
          /\ Goto(c, "idle")
          /\ UNCHANGED <<pending, submitted>>
       \/ /\ ~failure /\ ~shutdown
          /\ ~QueueFull
          /\ pending' = Append(pending, submitted + 1)
          /\ submitted' = submitted + 1
          /\ Goto(c, IF Len(pending) + 1 >= MaxPerBatch THEN "submit_notify" ELSE "idle")
       \/ /\ ~failure /\ ~shutdown
          /\ QueueFull
          /\ Goto(c, "submit_asleep")
          /\ UNCHANGED <<pending, submitted>>
    /\ UNCHANGED <<durable_through, failure, flush_requested, shutdown,
                   stopping, target, worker, batch, stored, promised>>

\* After the lock is dropped, a full batch wakes the commit thread.
SubmitNotify(c) ==
    /\ pc[c] = "submit_notify"
    /\ NotifyWork
    /\ Goto(c, "idle")
    /\ UNCHANGED <<state, stopping, target, batch, stored, promised>>

(***************************************************************************)
(* Writer::flush, also called by stop                                      *)
(***************************************************************************)

\* Where a thread goes on when its flush returns: stop ignores the outcome.
AfterFlush(t) == IF t = Owner THEN "stop_set" ELSE "idle"

FlushCall(c) ==
    /\ pc[c] = "idle" /\ ~stopping
    /\ Goto(c, "flush")
    /\ UNCHANGED <<state, stopping, target, worker, batch, stored, promised>>

FlushBody(t) ==
    /\ pc[t] = "flush"
    /\ target' = [target EXCEPT ![t] = submitted]
    /\ \/ /\ failure
          /\ Goto(t, AfterFlush(t))
          /\ UNCHANGED <<flush_requested, promised>>
       \/ /\ ~failure /\ durable_through >= submitted
          /\ Goto(t, AfterFlush(t))
          /\ promised' = IF submitted > promised THEN submitted ELSE promised
          /\ UNCHANGED flush_requested
       \/ /\ ~failure /\ durable_through < submitted
          /\ flush_requested' = TRUE
          /\ Goto(t, "flush_notify")
          /\ UNCHANGED promised
    /\ UNCHANGED <<pending, submitted, durable_through, failure, shutdown,
                   stopping, worker, batch, stored>>

FlushNotify(t) ==
    /\ pc[t] = "flush_notify"
    /\ NotifyWork
    /\ Goto(t, "flush_check")
    /\ UNCHANGED <<state, stopping, target, batch, stored, promised>>

\* Mutant: flush returns Ok when the commit thread has failed.
FlushWaitIgnoringFailure(t) ==
    /\ pc[t] = "flush_check"
    /\ \/ /\ durable_through >= target[t] \/ failure
          /\ Goto(t, AfterFlush(t))
          /\ promised' = IF target[t] > promised THEN target[t] ELSE promised
       \/ /\ durable_through < target[t] /\ ~failure
          /\ Goto(t, "flush_asleep")
          /\ UNCHANGED promised
    /\ UNCHANGED <<state, stopping, target, worker, batch, stored>>

\* One pass of the waiting loop.
FlushWait(t) ==
    /\ pc[t] = "flush_check"
    /\ \/ /\ durable_through >= target[t]
          /\ Goto(t, AfterFlush(t))
          /\ promised' = IF target[t] > promised THEN target[t] ELSE promised
       \/ /\ durable_through < target[t] /\ failure
          /\ Goto(t, AfterFlush(t))
          /\ UNCHANGED promised
       \/ /\ durable_through < target[t] /\ ~failure
          /\ Goto(t, "flush_asleep")
          /\ UNCHANGED promised
    /\ UNCHANGED <<state, stopping, target, worker, batch, stored>>

(***************************************************************************)
(* Writer::stop.  shutdown takes the Writer by value and drop has it       *)
(* exclusively, so no client thread is inside a call.                      *)
(***************************************************************************)

Stop ==
    /\ ~stopping
    /\ \A t \in Thread : pc[t] = "idle"
    /\ stopping' = TRUE
    /\ Goto(Owner, "flush")
    /\ UNCHANGED <<state, target, worker, batch, stored, promised>>

StopSet ==
    /\ pc[Owner] = "stop_set"
    /\ shutdown' = TRUE
    /\ Goto(Owner, "stop_notify")
    /\ UNCHANGED <<pending, submitted, durable_through, failure, flush_requested,
                   stopping, target, worker, batch, stored, promised>>

\* Nobody can be asleep on drained here.
StopNotify ==
    /\ pc[Owner] = "stop_notify"
    /\ NotifyWork
    /\ Goto(Owner, "stop_join")
    /\ UNCHANGED <<state, stopping, target, batch, stored, promised>>

StopJoin ==
    /\ pc[Owner] = "stop_join"
    /\ worker = "exited"
    /\ Goto(Owner, "stopped")
    /\ UNCHANGED <<state, stopping, target, worker, batch, stored, promised>>

(***************************************************************************)
(* commit_loop                                                             *)
(***************************************************************************)

\* Mutant: the queue is cleared instead of drained.
TakeBatchAndClear ==
    LET take == IF Len(pending) < MaxPerBatch THEN Len(pending) ELSE MaxPerBatch
    IN  /\ batch' = SubSeq(pending, 1, take)
        /\ pending' = <<>>
        /\ flush_requested' = FALSE
        /\ pc' = WakeAll("submit_asleep", "submit")
        /\ worker' = "append"

\* Mutant: nobody waiting for room in the queue is woken.
TakeBatchSilently ==
    LET take == IF Len(pending) < MaxPerBatch THEN Len(pending) ELSE MaxPerBatch
    IN  /\ batch' = SubSeq(pending, 1, take)
        /\ pending' = SubSeq(pending, take + 1, Len(pending))
        /\ flush_requested' = IF take = Len(pending) THEN FALSE ELSE flush_requested
        /\ worker' = "append"
        /\ UNCHANGED pc

\* The end of the critical section that found work: drain a batch, drop the
\* flush request when nothing is left, and wake everyone waiting for room.
TakeBatch ==
    LET take == IF Len(pending) < MaxPerBatch THEN Len(pending) ELSE MaxPerBatch
    IN  /\ batch' = SubSeq(pending, 1, take)
        /\ pending' = SubSeq(pending, take + 1, Len(pending))
        /\ flush_requested' = IF take = Len(pending) THEN FALSE ELSE flush_requested
        /\ pc' = WakeAll("submit_asleep", "submit")
        /\ worker' = "append"

\* One pass of the inner loop up to the wait.
Look ==
    /\ worker = "look"
    /\ \/ /\ shutdown /\ pending = <<>>
          /\ worker' = "exited"
          /\ UNCHANGED <<pending, flush_requested, pc, batch>>
       \/ /\ pending # <<>>
          /\ Len(pending) >= MaxPerBatch \/ flush_requested \/ shutdown
          /\ TakeBatch
       \/ /\ ~shutdown /\ pending = <<>>
          /\ flush_requested' = FALSE
          /\ worker' = "asleep"
          /\ UNCHANGED <<pending, pc, batch>>
       \/ /\ pending # <<>>
          /\ Len(pending) < MaxPerBatch /\ ~flush_requested /\ ~shutdown
          /\ worker' = "asleep"
          /\ UNCHANGED <<pending, flush_requested, pc, batch>>
    /\ UNCHANGED <<submitted, durable_through, failure, shutdown,
                   stopping, target, stored, promised>>

\* Mutant: a partial batch is left in the queue when the wait expires.
WaitTimesOutFullBatchOnly ==
    /\ worker = "asleep"
    /\ worker' = "look"
    /\ UNCHANGED <<state, stopping, pc, target, batch, stored, promised>>

\* work.wait_timeout returns after flush_delay: whatever is queued is taken, a
\* partial batch too.
WaitTimesOut ==
    /\ worker = "asleep"
    /\ \/ /\ pending # <<>>
          /\ TakeBatch
       \/ /\ pending = <<>>
          /\ worker' = "look"
          /\ UNCHANGED <<pending, flush_requested, pc, batch>>
    /\ UNCHANGED <<submitted, durable_through, failure, shutdown,
                   stopping, target, stored, promised>>

\* store.append_batch, outside the lock: all of the batch or nothing.
AppendBatch ==
    /\ worker = "append"
    /\ \/ /\ stored' = stored \o batch
          /\ worker' = "appended"
       \/ /\ worker' = "failed"
          /\ UNCHANGED stored
    /\ UNCHANGED <<state, stopping, pc, target, batch, promised>>

RecordCommit ==
    /\ worker = "appended"
    /\ durable_through' = durable_through + Len(batch)
    /\ batch' = <<>>
    /\ pc' = WakeAll("flush_asleep", "flush_check")
    /\ worker' = "look"
    /\ UNCHANGED <<pending, submitted, failure, flush_requested, shutdown,
                   stopping, target, stored, promised>>

\* Mutant: a failure wakes the threads inside flush only.
RecordFailureToFlush ==
    /\ worker = "failed"
    /\ failure' = TRUE
    /\ shutdown' = TRUE
    /\ pc' = WakeAll("flush_asleep", "flush_check")
    /\ worker' = "exited"
    /\ UNCHANGED <<pending, submitted, durable_through, flush_requested,
                   stopping, target, batch, stored, promised>>

RecordFailure ==
    /\ worker = "failed"
    /\ failure' = TRUE
    /\ shutdown' = TRUE
    /\ pc' = [t \in Thread |-> CASE pc[t] = "flush_asleep"  -> "flush_check"
                                 [] pc[t] = "submit_asleep" -> "submit"
                                 [] OTHER -> pc[t]]
    /\ worker' = "exited"
    /\ UNCHANGED <<pending, submitted, durable_through, flush_requested,
                   stopping, target, batch, stored, promised>>

\* A condition variable may return without a notification.
SpuriousWake(t) ==
    /\ \/ pc[t] = "submit_asleep" /\ Goto(t, "submit")
       \/ pc[t] = "flush_asleep" /\ Goto(t, "flush_check")
    /\ UNCHANGED <<state, stopping, target, worker, batch, stored, promised>>

SpuriousWorkerWake ==
    /\ worker = "asleep"
    /\ worker' = "look"
    /\ UNCHANGED <<state, stopping, pc, target, batch, stored, promised>>

(***************************************************************************)
(* The specification.                                                      *)
(***************************************************************************)

Submit(c) == SubmitBody(c) \/ SubmitNotify(c)
Flush(t) == FlushBody(t) \/ FlushNotify(t) \/ FlushWait(t)
Shutdown == StopSet \/ StopNotify \/ StopJoin
CommitLoop == Look \/ WaitTimesOut \/ AppendBatch \/ RecordCommit \/ RecordFailure

Next ==
    \/ \E c \in Client : SubmitCall(c) \/ FlushCall(c) \/ Submit(c)
    \/ \E t \in Thread : Flush(t) \/ SpuriousWake(t)
    \/ Stop
    \/ Shutdown
    \/ CommitLoop
    \/ SpuriousWorkerWake

\* The operating system runs every thread that can run.  Every pass of the commit
\* thread waits for a full flush_delay again, so a wait that is cut short each
\* time would never expire: strong fairness says that spurious wake-ups do not
\* go on like that for ever.  Nobody has to call submit, flush or shutdown, and
\* nothing depends on a spurious wake-up.
Fairness ==
    /\ \A c \in Client : WF_vars(Submit(c))
    /\ \A t \in Thread : WF_vars(Flush(t))
    /\ WF_vars(Shutdown)
    /\ WF_vars(CommitLoop)
    /\ SF_vars(WaitTimesOut)

Spec == Init /\ [][Next]_vars
FairSpec == Spec /\ Fairness

(***************************************************************************)
(* Properties.                                                             *)
(***************************************************************************)

\* Every variable has its type; no count runs ahead of State::submitted.
TypeOK ==
    /\ pending \in Seq(Nat) /\ batch \in Seq(Nat) /\ stored \in Seq(Nat)
    /\ submitted \in Nat /\ durable_through \in 0..submitted
    /\ promised \in 0..submitted
    /\ failure \in BOOLEAN /\ flush_requested \in BOOLEAN
    /\ shutdown \in BOOLEAN /\ stopping \in BOOLEAN
    /\ pc \in [Thread -> ThreadPC]
    /\ target \in [Thread -> 0..submitted]
    /\ worker \in WorkerPC

\* "After flush returns Ok, every claim submitted before that call is durable."
FlushIsDurable == \A n \in 1..promised : n <= Len(stored)

\* Nothing is dropped, repeated or reordered, whatever batches it travels in: until an
\* append fails, the store, the batch being appended and the queue together are the
\* claims in the order they were accepted, and afterwards the store is a prefix of
\* them (submit, commit_loop).
AcceptedInOrder ==
    LET inHand == IF worker \in {"append", "failed"} THEN batch ELSE <<>>
        accepted == stored \o (IF failure THEN <<>> ELSE inHand \o pending)
    IN  /\ \A n \in DOMAIN accepted : accepted[n] = n
        /\ ~failure => Len(accepted) = submitted

\* No wake-up is lost or comes late: a client sleeps only while what it waits for
\* is false, and, since "flush commits immediately and bypasses the interval", once
\* a flush has sent its notification the commit thread does not sleep, with or
\* without a timeout, before the claims the flush waits for are stored.
NoLostWakeup ==
    \A t \in Thread :
        /\ pc[t] = "flush_asleep" => durable_through < target[t] /\ ~failure
        /\ pc[t] = "submit_asleep" => Len(pending) >= QueueCapacity /\ ~failure /\ ~shutdown
        /\ pc[t] \in {"flush_check", "flush_asleep"} /\ durable_through < target[t] /\ ~failure
               => worker # "asleep"

\* Every call returns, whatever the other threads do: a flush, and a submit that is
\* blocked by a full queue, get through or fail; and "a dropped writer must not leave
\* the commit thread running": stop ends with that thread gone, and with nothing
\* queued unless an append failed.
CallsReturn ==
    /\ \A c \in Client : pc[c] # "idle" ~> pc[c] = "idle"
    /\ stopping ~> (pc[Owner] = "stopped" /\ worker = "exited" /\ (failure \/ pending = <<>>))

\* "Maximum time a submitted claim waits before its batch is committed": with
\* nobody calling flush, every accepted claim is stored or the writer has failed.
ClaimsSettle ==
    \A n \in 1..MaxClaims : submitted >= n ~> (durable_through >= n \/ failure)

=============================================================================
