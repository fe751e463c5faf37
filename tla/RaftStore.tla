------------------------------ MODULE RaftStore ------------------------------
(***************************************************************************)
(* VyrmRaftStore: the log store and the state machine OpenRaft drives on   *)
(* one node.  The log store keeps vote, log, commit and purge cursors and  *)
(* the reference to the cached snapshot in a node-local database; the      *)
(* state machine keeps the applied state in another, which snapshots       *)
(* replace as a whole.  Each call writes one authoritative batch, so that  *)
(* its effect is atomic and durable (module KvDatabase); what two calls or *)
(* two databases do is not, and a crash may fall between them.             *)
(*                                                                         *)
(* OpenRaft is external.  It calls these handlers for a log the cluster    *)
(* agrees on, chosen beforehand as the variable history, and for entries   *)
(* of deposed leaders, which differ from it.  Its calls are restricted     *)
(* only as far as the adapter relies on: entries follow the last log       *)
(* entry, committed entries are those of history, nothing committed is     *)
(* truncated, only what a snapshot or the state covers is purged, and the  *)
(* state machine worker applies and installs one at a time while the       *)
(* snapshot builder runs beside it.                                        *)
(***************************************************************************)
EXTENDS RaftApply

CONSTANTS
    Histories,    \* the logs the cluster may agree on
    MaxIndex,     \* bound: length of a history
    MaxTerm,      \* bound: terms
    MaxBatch,     \* bound: entries appended by one call
    NoSnapshot    \* KEY_SNAPSHOT is absent, or nothing is under way

ASSUME BoundsAssumption == MaxIndex \in Nat /\ MaxTerm \in Nat /\ MaxBatch \in Nat

\* VyrmRaftCommand::validate: no command is of placement epoch 0.
WellFormed(payload) ==
    \/ payload.kind \in {"blank", "membership"}
    \/ /\ payload.kind = "normal"
       /\ payload.command.placement_epoch \in Nat \ {0}
       /\ payload.command.operation.kind \in {"transition", "probe", "runtime"}

\* The logs are sequences of well-formed entries.
ASSUME HistoriesAssumption ==
    \A h \in Histories :
        /\ h \in Seq({h[i] : i \in DOMAIN h}) /\ Len(h) <= MaxIndex
        /\ \A i \in DOMAIN h : h[i].term \in 1..MaxTerm /\ WellFormed(h[i].payload)

VARIABLES
    history,      \* the log the cluster agrees on (external)
    vote,         \* KEY_VOTE; 0 when absent
    log,          \* the log/ keys: entries by index
    committed,    \* KEY_COMMITTED; 0 when absent
    purged,       \* KEY_PURGED; 0 when absent
    snapshot,     \* KEY_SNAPSHOT with the object it names
    state,        \* KEY_STATE and the canonical runtime beside it
    building,     \* build_snapshot between its two databases
    installing,   \* install_snapshot between its two databases
    up            \* whether the node runs

vars == <<history, vote, log, committed, purged, snapshot, state, building, installing, up>>

Index == 1..MaxIndex
Larger(a, b) == IF a >= b THEN a ELSE b

\* get_log_state: the last entry, or else the last one purged.
LastLogIndex == IF DOMAIN log = {} THEN purged
                ELSE CHOOSE i \in DOMAIN log : \A j \in DOMAIN log : j <= i

\* The log ends before the applied state: OpenRaft purges it before anything else,
\* after an installation and at start-up.
LogLags == LastLogIndex < state.last_applied

\* Entries of a deposed leader: they may take the place of the agreed ones from an
\* index on at which the term changed, and from there the two logs stay apart.
Stale(i) == [term |-> history[i].term - 1, payload |-> Blank]
CanFork(i) == history[i].term > 1 /\ (i > 1 => history[i - 1].term < history[i].term)
Diverged == \E i \in DOMAIN log : log[i] # history[i]

\* The state a replica has reached after k entries of the agreed log.
Agreed(k) == Replay(history)[k]

\* A snapshot: SnapshotMeta::last_log_id and the state record inside the bundle.
Bundle(s) == [last_log_id |-> s.last_applied, state |-> s]

Init ==
    /\ history \in Histories
    /\ vote = 0
    /\ log = <<>>
    /\ committed = 0
    /\ purged = 0
    /\ snapshot = NoSnapshot
    /\ state = InitialState
    /\ building = NoSnapshot
    /\ installing = NoSnapshot
    /\ up = TRUE

\* save_vote: a vote that regresses is refused.
SaveVote(v) ==
    /\ up
    /\ v >= vote
    /\ vote' = v
    /\ UNCHANGED <<history, log, committed, purged, snapshot, state, building, installing, up>>

\* append with its persist_entries: n entries behind the last one, written over
\* whatever is there; those from index fork on are a deposed leader's.
AppendEntries(n, fork) ==
    LET first == LastLogIndex + 1
        batch == first..(LastLogIndex + n)
        entry(i) == IF i < fork THEN history[i] ELSE Stale(i)
    IN  /\ up /\ installing = NoSnapshot /\ ~LogLags
        /\ batch \subseteq DOMAIN history
        /\ fork \in first..(first + n)
        /\ IF Diverged THEN fork = first ELSE fork \in batch => CanFork(fork)
        /\ \A i \in batch : entry(i).term <= vote
        /\ log' = [i \in DOMAIN log \cup batch |-> IF i \in batch THEN entry(i) ELSE log[i]]
        /\ UNCHANGED <<history, vote, committed, purged, snapshot, state, building, installing, up>>

KeptBelow(i) == {j \in DOMAIN log : j < i}

\* truncate: the entries from i on are deleted.
Truncate(i) ==
    /\ up /\ i \in DOMAIN log
    /\ i > Larger(committed, state.last_applied)
    /\ log' = [j \in KeptBelow(i) |-> log[j]]
    /\ UNCHANGED <<history, vote, committed, purged, snapshot, state, building, installing, up>>

\* save_committed: OpenRaft knows that the cluster agreed on the log up to i.
SaveCommitted(i) ==
    /\ up /\ installing = NoSnapshot
    /\ i > committed /\ i > state.last_applied
    /\ i \in DOMAIN log /\ log[i] = history[i]
    /\ committed' = i
    /\ UNCHANGED <<history, vote, log, purged, snapshot, state, building, installing, up>>

\* One entry of apply.  It also is what start-up applies again after a crash.
Apply ==
    LET i == state.last_applied + 1
    IN  /\ up /\ installing = NoSnapshot
        /\ i <= committed
        /\ i \in DOMAIN log
        /\ state' = ApplyEntry(state, i, log[i])
        /\ UNCHANGED <<history, vote, log, committed, purged, snapshot, building, installing, up>>

\* The entries purge deletes, in the batch that moves the purge cursor.
PurgeTo(i) ==
    /\ log' = [j \in {k \in DOMAIN log : k > i} |-> log[j]]
    /\ purged' = i
    /\ UNCHANGED <<history, vote, committed, snapshot, state, building, installing, up>>

\* purge, asked for up to an index the cached snapshot covers.
Purge(i) ==
    /\ up
    /\ snapshot # NoSnapshot /\ i <= snapshot.last_log_id
    /\ i > purged
    /\ PurgeTo(i)

\* purge of a log that ends before the state, after an installation and at start-up.
PurgeLagging == up /\ installing = NoSnapshot /\ LogLags /\ PurgeTo(state.last_applied)

\* build_snapshot under the state lock: the state record is read and the bundle
\* exported from the same database state.
BuildExport ==
    /\ up /\ building = NoSnapshot
    /\ building' = Bundle(state)
    /\ UNCHANGED <<history, vote, log, committed, purged, snapshot, state, installing, up>>

\* publish_snapshot_file at the end of build_snapshot: the reference is overwritten
\* whatever it was.
BuildPublish ==
    /\ up /\ building # NoSnapshot
    /\ snapshot' = building
    /\ building' = NoSnapshot
    /\ UNCHANGED <<history, vote, log, committed, purged, state, installing, up>>

\* Mutant: the node keeps its own requests when it installs a snapshot.
InstalledWithOwnRequests(k) == [Agreed(k) EXCEPT !.requests = state.requests]

\* The state database after a bundle of another replica was installed: its closure
\* replaces everything.
Installed(k) == Agreed(k)

\* Mutant: only the cache reference is written.
InstallCacheOnly(k) ==
    /\ up /\ installing = NoSnapshot
    /\ k \in DOMAIN history
    /\ k > Larger(committed, state.last_applied)
    /\ k \in DOMAIN log => log[k] = history[k]
    /\ installing' = Bundle(Installed(k))
    /\ UNCHANGED <<history, vote, log, committed, purged, snapshot, state, building, up>>

\* install_snapshot up to install_snapshot_file, for a snapshot of the first k agreed
\* entries, which must advance the state.
InstallState(k) ==
    /\ up /\ installing = NoSnapshot
    /\ k \in DOMAIN history
    /\ k > Larger(committed, state.last_applied)
    /\ k \in DOMAIN log => log[k] = history[k]
    /\ state' = Installed(k)
    /\ installing' = Bundle(Installed(k))
    /\ UNCHANGED <<history, vote, log, committed, purged, snapshot, building, up>>

\* publish_snapshot_file at the end of install_snapshot.
InstallPublish ==
    /\ up /\ installing # NoSnapshot
    /\ snapshot' = installing
    /\ installing' = NoSnapshot
    /\ UNCHANGED <<history, vote, log, committed, purged, state, building, up>>

\* The process ends between any two calls, or between the two databases of one.
Crash ==
    /\ up
    /\ up' = FALSE
    /\ building' = NoSnapshot /\ installing' = NoSnapshot
    /\ UNCHANGED <<history, vote, log, committed, purged, snapshot, state>>

\* VyrmRaftStore::open on databases that exist: both are what they were.
Open ==
    /\ ~up
    /\ up' = TRUE
    /\ UNCHANGED <<history, vote, log, committed, purged, snapshot, state, building, installing>>

Next ==
    \/ \E v \in 1..MaxTerm : SaveVote(v)
    \/ \E n \in 1..MaxBatch, fork \in 1..(MaxIndex + 1) : AppendEntries(n, fork)
    \/ \E i \in Index : Truncate(i) \/ SaveCommitted(i) \/ Purge(i) \/ InstallState(i)
    \/ Apply \/ PurgeLagging
    \/ BuildExport \/ BuildPublish \/ InstallPublish
    \/ Crash \/ Open

Spec == Init /\ [][Next]_vars

-----------------------------------------------------------------------------
(* Properties *)

SnapshotOK(s) == s = NoSnapshot \/ s.last_log_id \in 0..MaxIndex

\* Type invariant of the node's databases.
TypeOK ==
    /\ vote \in 0..MaxTerm
    /\ DOMAIN log \subseteq Index
    /\ committed \in 0..MaxIndex /\ purged \in 0..MaxIndex
    /\ state.last_applied \in 0..MaxIndex
    /\ SnapshotOK(snapshot) /\ SnapshotOK(building) /\ SnapshotOK(installing)
    /\ up \in BOOLEAN

\* The applied state is that of the agreed log up to last_applied, whatever crashes,
\* repeated applications and installed snapshots led to it (apply, install_snapshot),
\* and the cached snapshot is the agreed state at the index its metadata names, also
\* when entries are applied while it is built (build_snapshot, get_current_snapshot).
StateIsReplay ==
    /\ state = Agreed(state.last_applied)
    /\ snapshot # NoSnapshot => snapshot.state = Agreed(snapshot.last_log_id)

\* The two databases of a node fit together after any crash: what was purged from the
\* log is in the state, everything a restart has to apply again is in the log and is
\* what the cluster agreed on, and the log above the state has no hole (truncate,
\* purge, append; install_snapshot writes the state before the reference that lets
\* OpenRaft purge).
ReapplyPossible ==
    /\ purged <= state.last_applied
    /\ \A i \in (state.last_applied + 1)..committed : i \in DOMAIN log /\ log[i] = history[i]
    /\ \A i \in (state.last_applied + 1)..LastLogIndex : i \in DOMAIN log

RequestAt(i) == history[i].payload.command.request_id
Chain == state.state_digest

\* Within the retention window a request id takes effect at most once: two accepted
\* operations of one request lie further apart than the window; and what a retry is
\* told is what happened: a remembered request lies within the window and is
\* remembered as accepted exactly if its operation is in the digest chain
\* (apply_command, prune_request_history).
RequestTakesEffectOnce ==
    /\ \A a, b \in DOMAIN Chain :
          a < b /\ RequestAt(Chain[a].index) = RequestAt(Chain[b].index)
            => Chain[b].index - Chain[a].index > Retention
    /\ \A r \in DOMAIN state.requests :
          LET q == state.requests[r]
          IN  /\ q.first_applied_index + Retention > state.last_applied
              /\ RequestAt(q.first_applied_index) = r
              /\ q.accepted <=> \E a \in DOMAIN Chain : Chain[a].index = q.first_applied_index

\* The voters after i agreed entries.
VotersAt(i) ==
    LET changes == {j \in 1..i : history[j].payload.kind = "membership"}
    IN  IF changes = {} THEN NoBinding
        ELSE history[CHOOSE j \in changes : \A k \in changes : k <= j].payload.binding

\* Ordinary work is accepted only under a placement whose voters were in force at
\* every position since it was accepted: voters that changed and changed back fence
\* it as well (apply, apply_command).
PlacementFencesWork ==
    \A k \in DOMAIN Chain :
        Chain[k].operation.kind # "transition" =>
          \E t \in 1..(k - 1) :
             /\ Chain[t].operation.kind = "transition"
             /\ \A j \in (t + 1)..(k - 1) : Chain[j].operation.kind # "transition"
             /\ \A i \in Chain[t].index..Chain[k].index :
                   VotersAt(i) = Chain[t].operation.binding
=============================================================================
