----------------------------- MODULE DurableStore -----------------------------
(***************************************************************************)
(* What a vyrm-kv database promises, with no files in sight.               *)
(*                                                                         *)
(* The store is a trail of states.  The first is durable: no failure takes *)
(* the store behind it.  Every later one is the result of one more atomic  *)
(* batch and may be lost, but only from the end, so that what survives a   *)
(* failure is always the result of a whole prefix of the batches.  A       *)
(* running store answers reads from state number seen; it differs from the *)
(* last one only after a batch whose write failed, when nobody can say     *)
(* whether the batch will be found again by a restart.                     *)
(***************************************************************************)
EXTENDS KvTypes

CONSTANT Bundle    \* the states a snapshot transfer can bring: [sequence, segments]

VARIABLES
    trail,    \* states, oldest first, each [seq, view]
    seen,     \* the state that reads are answered from
    up        \* the store is open

svars == <<trail, seen, up>>

Empty == [seq |-> 0, view |-> [k \in Key |-> None]]

\* The state after one more batch: the last mutation of a key wins.
Apply(state, batch) ==
    [seq  |-> state.seq + Len(batch),
     view |-> [k \in Key |->
                 IF \E i \in DOMAIN batch : batch[i].key = k
                   THEN batch[CHOOSE i \in DOMAIN batch :
                                /\ batch[i].key = k
                                /\ \A j \in DOMAIN batch : batch[j].key = k => j <= i].value
                   ELSE state.view[k]]]

Init ==
    /\ trail = <<Empty>>
    /\ seen = 1
    /\ up = TRUE

\* An accepted batch that is not yet claimed durable.
WriteBuffered(batch) ==
    /\ up
    /\ seen = Len(trail)
    /\ trail' = Append(trail, Apply(trail[seen], batch))
    /\ seen' = seen + 1
    /\ UNCHANGED up

\* An accepted batch that is acknowledged as durable, with all before it.
WriteAuthoritative(batch) ==
    /\ up
    /\ seen = Len(trail)
    /\ trail' = <<Apply(trail[seen], batch)>>
    /\ seen' = 1
    /\ UNCHANGED up

\* A batch whose write failed: it may or may not be found by a restart, and it
\* is not visible before one.
WriteIndeterminate(batch) ==
    /\ up
    /\ seen = Len(trail)
    /\ trail' = Append(trail, Apply(trail[seen], batch))
    /\ UNCHANGED <<seen, up>>

\* Everything visible becomes durable: on request of a client, or of an operator
\* who repairs the files of a stopped store.
Sync ==
    /\ seen = Len(trail)
    /\ trail' = <<trail[seen]>>
    /\ seen' = 1
    /\ UNCHANGED up

\* A newer state replaces this one altogether.
Install(bundle) ==
    /\ up
    /\ bundle.sequence > trail[seen].seq
    /\ trail' = <<[seq  |-> bundle.sequence,
                   view |-> ViewAt(UNION bundle.segments, bundle.sequence)]>>
    /\ seen' = 1
    /\ UNCHANGED up

\* A failure stops the store and keeps a prefix of the trail.
Crash ==
    /\ up
    /\ \E n \in 1..Len(trail) :
          /\ trail' = SubSeq(trail, 1, n)
          /\ seen' = n
    /\ up' = FALSE

Open ==
    /\ ~up
    /\ up' = TRUE
    /\ UNCHANGED <<trail, seen>>

Next ==
    \/ \E batch \in WriteBatch :
          \/ WriteBuffered(batch)
          \/ WriteAuthoritative(batch)
          \/ WriteIndeterminate(batch)
    \/ Sync
    \/ \E bundle \in Bundle : Install(bundle)
    \/ Crash
    \/ Open

Spec == Init /\ [][Next]_svars

=============================================================================
