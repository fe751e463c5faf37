------------------------------ MODULE RaftApply ------------------------------
(***************************************************************************)
(* The replicated state machine of openraft_adapter.rs as a pure function: *)
(* what applying one log entry does to the state record and to the         *)
(* canonical runtime history that lives in the same database.              *)
(*                                                                         *)
(* A digest is what it authenticates: state_digest is the sequence of      *)
(* accepted operations with their positions, a membership digest is the    *)
(* voter binding itself and a command digest the command without its       *)
(* request id.  Index 0 stands for "nothing applied", which the code maps  *)
(* to 0 wherever it looks, and epoch 0, which no valid command carries,    *)
(* for the time before the first placement.  Reasons and timestamps are    *)
(* left out.                                                               *)
(***************************************************************************)
EXTENDS Naturals, Sequences, FiniteSets

CONSTANTS
    NoBinding,   \* membership_binding returned None
    Retention    \* VYRM_RAFT_REQUEST_RETENTION_LOGS

ASSUME RetentionAssumption == Retention \in Nat \ {0}

\* VyrmRaftOperation.  A placement is its set of voters with their zones, a runtime
\* commit its content and the cursor it expects.
Transition(b) == [kind |-> "transition", binding |-> b]
Probe(p) == [kind |-> "probe", payload |-> p]
Runtime(c, cursor) == [kind |-> "runtime", commit |-> c, expected_cursor |-> cursor]

\* VyrmRaftCommand; expected_commit_index is {} or {n}.
Command(id, epoch, expected, operation) ==
    [request_id |-> id, placement_epoch |-> epoch,
     expected_commit_index |-> expected, operation |-> operation]

\* EntryPayload
Blank == [kind |-> "blank"]
Membership(b) == [kind |-> "membership", binding |-> b]
Normal(c) == [kind |-> "normal", command |-> c]

\* StateMachineData::default, and an empty canonical runtime.
InitialState ==
    [last_applied     |-> 0,
     last_membership  |-> NoBinding,
     voter_generation |-> 0,
     placement        |-> [epoch |-> 0, binding |-> NoBinding, generation |-> 0],
     state_digest     |-> <<>>,
     requests         |-> <<>>,
     runtime          |-> <<>>]

\* command_identity_digest
Identity(c) == <<c.placement_epoch, c.expected_commit_index, c.operation>>

IsTransition(c) == c.operation.kind = "transition"

EpochMatches(s, c) ==
    IF IsTransition(c) THEN c.placement_epoch = s.placement.epoch + 1
                       ELSE c.placement_epoch = s.placement.epoch

\* Mutant: only the digest of the voters is compared, not how often they changed.
MembershipMatchesByDigest(s, c) ==
    IsTransition(c) \/ s.placement.binding = s.last_membership

MembershipMatches(s, c) ==
    \/ IsTransition(c)
    \/ /\ s.placement.binding = s.last_membership
       /\ s.placement.generation = s.voter_generation

CommitIndexMatches(s, c) == \A n \in c.expected_commit_index : n = s.last_applied

\* native_runtime_commit_outcome and prepare_native_runtime_commit as the adapter
\* uses them: a commit that is already there is answered from its record, another is
\* applied at the cursor it expects and refused at any other.
AlreadyCommitted(s, op) == \E i \in DOMAIN s.runtime : s.runtime[i] = op.commit
Prepares(s, op) == op.expected_cursor = Len(s.runtime)

\* What the operation itself asks for once the command is admitted.
OperationAccepted(s, op) ==
    CASE op.kind = "transition" -> s.last_membership # NoBinding /\ op.binding = s.last_membership
      [] op.kind = "probe" -> TRUE
      [] op.kind = "runtime" -> AlreadyCommitted(s, op) \/ Prepares(s, op)

Accepted(s, c) ==
    /\ EpochMatches(s, c)
    /\ MembershipMatches(s, c)
    /\ CommitIndexMatches(s, c)
    /\ OperationAccepted(s, c.operation)

\* The state after an accepted operation at index i of the given term.
AfterOperation(s, i, term, op) ==
    [s EXCEPT
       !.placement = IF op.kind = "transition"
                       THEN [epoch |-> @.epoch + 1, binding |-> op.binding,
                             generation |-> s.voter_generation]
                       ELSE @,
       !.runtime = IF op.kind = "runtime" /\ ~AlreadyCommitted(s, op)
                     THEN Append(@, op.commit) ELSE @,
       !.state_digest = Append(@, [term |-> term, index |-> i, operation |-> op])]

\* The request is remembered with its response, whatever the decision.
Remember(s, i, c, accepted) ==
    [r \in DOMAIN s.requests \cup {c.request_id} |->
       IF r = c.request_id
         THEN [first_applied_index |-> i, identity |-> Identity(c), accepted |-> accepted]
         ELSE s.requests[r]]

\* apply_command: a remembered request id changes nothing, whether its command is the
\* remembered one (answered again) or another (refused).
ApplyCommand(s, i, term, c) ==
    IF c.request_id \in DOMAIN s.requests
      THEN s
      ELSE LET accepted == Accepted(s, c)
               t == IF accepted THEN AfterOperation(s, i, term, c.operation) ELSE s
           IN  [t EXCEPT !.requests = Remember(s, i, c, accepted)]

\* A membership entry: the generation grows when the voters or their zones change.
ApplyMembership(s, b) ==
    [s EXCEPT !.last_membership = b,
              !.voter_generation = IF s.last_membership # b THEN @ + 1 ELSE @]

\* Mutant: the window is one position too short.
OldestRetainedShort(i) == IF i >= Retention THEN i - (Retention - 2) ELSE 0

\* prune_request_history
OldestRetained(i) == IF i >= Retention THEN i - (Retention - 1) ELSE 0

PruneRequestHistory(s, i) ==
    [s EXCEPT !.requests =
       [r \in {q \in DOMAIN s.requests : s.requests[q].first_applied_index >= OldestRetained(i)}
          |-> s.requests[r]]]

\* One round of VyrmRaftStateMachine::apply: a single batch holds the state record and
\* the runtime operations, so that the result is durable as a whole or not at all.
ApplyEntry(s, i, e) ==
    LET t == CASE e.payload.kind = "blank" -> s
               [] e.payload.kind = "membership" -> ApplyMembership(s, e.payload.binding)
               [] e.payload.kind = "normal" -> ApplyCommand(s, i, e.term, e.payload.command)
    IN  PruneRequestHistory([t EXCEPT !.last_applied = i], i)

\* The state after each prefix of a log.
Replay(h) ==
    LET after[n \in 0..Len(h)] ==
          IF n = 0 THEN InitialState ELSE ApplyEntry(after[n - 1], n, h[n])
    IN  after
=============================================================================
