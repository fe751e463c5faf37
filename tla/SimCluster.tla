----------------------------- MODULE SimCluster -----------------------------
(***************************************************************************)
(* The single-term, single-shard quorum model that vyrm-cluster ships as   *)
(* its consensus contract (sim.rs): a fixed leader appends proposals to    *)
(* its log, sends them to the other voters, counts acknowledgements and    *)
(* announces commits, while links, processes and disks fail.               *)
(*                                                                         *)
(* Which message is delivered next is the caller's choice (Deliver,        *)
(* Reorder), so that delivery ticks and delays only rule schedules out;    *)
(* they, the clock offsets that nothing reads, and the trace are left out. *)
(* Messages are content with multiplicity: an id only tells copies apart.  *)
(* Learners never receive a message in this model, so that the replicas    *)
(* are the voters.  Replica logs hold indexes 1..n without a gap because   *)
(* an append is refused when its predecessor is absent; a log is therefore *)
(* a sequence of commands.  All messages travel between the leader and a   *)
(* follower, so only those links are cut and restored.                     *)
(***************************************************************************)
EXTENDS Naturals, Sequences, FiniteSets, Bags

CONSTANTS
    Voter,         \* the voters of the placement
    Leader,        \* the voter that leads the only term
    Command,       \* what clients propose
    MaxIndex,      \* bound: proposals
    MaxInFlight    \* bound: messages are copied only while fewer are under way

ASSUME VoterAssumption == IsFiniteSet(Voter) /\ Leader \in Voter
ASSUME PlacementAssumption == Cardinality(Voter) >= 3 /\ Cardinality(Voter) % 2 = 1
ASSUME SimBoundsAssumption == MaxIndex \in Nat /\ MaxInFlight \in Nat

VARIABLES
    online,            \* voters that run
    disk,              \* voters whose disk is present
    log,               \* ReplicaState::log of each voter
    commit_index,      \* ReplicaState::commit_index of each voter
    blocked,           \* directed links that deliver nothing
    pending,           \* messages under way, as a bag
    acknowledgements,  \* voters known to hold each index
    acknowledged       \* indexes acknowledged to the client

vars == <<online, disk, log, commit_index, blocked, pending, acknowledgements, acknowledged>>

Index == 1..MaxIndex
Follower == Voter \ {Leader}

\* PlacementPolicy::quorum and tolerated_failures
Quorum == Cardinality(Voter) \div 2 + 1
Tolerated == (Cardinality(Voter) - 1) \div 2

\* SimCluster::disk_losses
DiskLosses == Voter \ disk

Message ==
    [kind : {"append"}, from : Voter, to : Voter, index : Index, command : Command]
      \cup [kind : {"ack", "commit"}, from : Voter, to : Voter, index : Index]

AppendMessage(f, i, c) ==
    [kind |-> "append", from |-> Leader, to |-> f, index |-> i, command |-> c]
AckMessage(m) == [kind |-> "ack", from |-> m.to, to |-> m.from, index |-> m.index]
CommitMessage(f, i) == [kind |-> "commit", from |-> Leader, to |-> f, index |-> i]

Init ==
    /\ online = Voter
    /\ disk = Voter
    /\ log = [n \in Voter |-> <<>>]
    /\ commit_index = [n \in Voter |-> 0]
    /\ blocked = {}
    /\ pending = EmptyBag
    /\ acknowledgements = [i \in Index |-> {}]
    /\ acknowledged = {}

\* Mutant: the leader's copy is counted twice.
CommitsEarly(i, voters) == i \notin acknowledged /\ Cardinality(voters) + 1 >= Quorum

\* maybe_commit(i) once the leader's copy and the given voters acknowledge it: the
\* first time a quorum does, the client is told, the leader's commit index is set
\* and every follower gets a commit message.
Commits(i, voters) == i \notin acknowledged /\ Cardinality(voters) >= Quorum

MaybeCommit(i, voters, sent, rest) ==
    /\ acknowledgements' = [acknowledgements EXCEPT ![i] = voters]
    /\ IF Commits(i, voters)
         THEN /\ acknowledged' = acknowledged \cup {i}
              /\ commit_index' = [commit_index EXCEPT ![Leader] = i]
              /\ pending' = (rest (+) SetToBag(sent))
                              (+) SetToBag({CommitMessage(f, i) : f \in Follower})
         ELSE /\ pending' = rest (+) SetToBag(sent)
              /\ UNCHANGED <<acknowledged, commit_index>>

\* SimCluster::propose
Propose(c) ==
    LET i == Len(log[Leader]) + 1
    IN  /\ Leader \in online /\ Leader \in disk
        /\ i <= MaxIndex
        /\ log' = [log EXCEPT ![Leader] = Append(@, c)]
        /\ MaybeCommit(i, acknowledgements[i] \cup {Leader},
                       {AppendMessage(f, i, c) : f \in Follower}, pending)
        /\ UNCHANGED <<online, disk, blocked>>

\* SimCluster::can_deliver
CanDeliver(m) ==
    /\ m.from \in online \cap disk
    /\ m.to \in online \cap disk
    /\ <<m.from, m.to>> \notin blocked

Without(m) == pending (-) SetToBag({m})

\* A follower refuses an entry whose predecessor it lacks, or that differs from
\* the one it holds.
Refuses(f, i, c) ==
    \/ i > Len(log[f]) + 1
    \/ i <= Len(log[f]) /\ log[f][i] # c

\* It appends any other entry and acknowledges it; a copy it already holds is
\* acknowledged again.  A refused message is gone: deliver has removed it from
\* the queue before it fails.
DeliverAppend(m) ==
    /\ m.kind = "append"
    /\ IF Refuses(m.to, m.index, m.command)
         THEN /\ pending' = Without(m)
              /\ UNCHANGED log
         ELSE /\ log' = IF m.index = Len(log[m.to]) + 1
                          THEN [log EXCEPT ![m.to] = Append(@, m.command)]
                          ELSE log
              /\ pending' = Without(m) (+) SetToBag({AckMessage(m)})
    /\ UNCHANGED <<commit_index, acknowledgements, acknowledged>>

DeliverAck(m) ==
    /\ m.kind = "ack"
    /\ MaybeCommit(m.index, acknowledgements[m.index] \cup {m.from}, {}, Without(m))
    /\ UNCHANGED log

\* A commit for an entry the follower does not hold is refused, and gone too.
DeliverCommit(m) ==
    /\ m.kind = "commit"
    /\ commit_index' =
         IF m.index <= Len(log[m.to]) /\ m.index > commit_index[m.to]
           THEN [commit_index EXCEPT ![m.to] = m.index]
           ELSE commit_index
    /\ pending' = Without(m)
    /\ UNCHANGED <<log, acknowledgements, acknowledged>>

\* SimCluster::deliver
Deliver(m) ==
    /\ CanDeliver(m)
    /\ DeliverAppend(m) \/ DeliverAck(m) \/ DeliverCommit(m)
    /\ UNCHANGED <<online, disk, blocked>>

\* SimFault::Duplicate
Duplicate(m) ==
    /\ BagCardinality(pending) < MaxInFlight
    /\ pending' = pending (+) SetToBag({m})
    /\ UNCHANGED <<online, disk, log, commit_index, blocked, acknowledgements, acknowledged>>

\* SimFault::Partition and Heal: both directions of a link.
Partition(a, b) ==
    /\ blocked' = blocked \cup {<<a, b>>, <<b, a>>}
    /\ UNCHANGED <<online, disk, log, commit_index, pending, acknowledgements, acknowledged>>

Heal(a, b) ==
    /\ blocked' = blocked \ {<<a, b>>, <<b, a>>}
    /\ UNCHANGED <<online, disk, log, commit_index, pending, acknowledgements, acknowledged>>

\* SimFault::Crash: the durable log survives.
Crash(n) ==
    /\ online' = online \ {n}
    /\ UNCHANGED <<disk, log, commit_index, blocked, pending, acknowledgements, acknowledged>>

\* SimFault::Restart is refused without a disk.
Restart(n) ==
    /\ n \in disk
    /\ online' = online \cup {n}
    /\ UNCHANGED <<disk, log, commit_index, blocked, pending, acknowledgements, acknowledged>>

\* SimFault::DiskLoss
DiskLoss(n) ==
    /\ online' = online \ {n}
    /\ disk' = disk \ {n}
    /\ log' = [log EXCEPT ![n] = <<>>]
    /\ commit_index' = [commit_index EXCEPT ![n] = 0]
    /\ UNCHANGED <<blocked, pending, acknowledgements, acknowledged>>

Next ==
    \/ \E c \in Command : Propose(c)
    \/ \E m \in BagToSet(pending) : Deliver(m) \/ Duplicate(m)
    \/ \E f \in Follower : Partition(Leader, f) \/ Heal(Leader, f)
    \/ \E n \in Voter : Crash(n) \/ Restart(n) \/ DiskLoss(n)

Spec == Init /\ [][Next]_vars

(***************************************************************************)
(* Properties.                                                             *)
(***************************************************************************)

\* Every variable has the type the code declares for it.
TypeOK ==
    /\ online \subseteq Voter /\ disk \subseteq Voter
    /\ log \in [Voter -> Seq(Command)]
    /\ commit_index \in [Voter -> 0..MaxIndex]
    /\ blocked \subseteq Voter \X Voter
    /\ BagToSet(pending) \subseteq Message
    /\ acknowledgements \in [Index -> SUBSET Voter]
    /\ acknowledged \subseteq Index

\* verify_safety, and more: no replica's commit index is beyond its own log,
\* replicas never hold different commands at an index, and an acknowledged entry,
\* with every entry before it, was stored by a quorum, each disk that is lost costs
\* at most one copy, and some disk still has it as long as no more are lost than the
\* placement tolerates.
VerifySafety ==
    /\ \A n \in Voter : commit_index[n] <= Len(log[n])
    /\ \A a, b \in Voter : \A i \in 1..Len(log[a]) : i <= Len(log[b]) => log[a][i] = log[b][i]
    /\ \A i \in acknowledged :
          LET copies == {n \in disk : i <= Len(log[n])}
          IN  /\ Cardinality(copies) + Cardinality(DiskLosses) >= Quorum
              /\ Cardinality(DiskLosses) <= Tolerated => copies # {}
=============================================================================
