-------------------------- MODULE SimClusterProofs --------------------------
(***************************************************************************)
(* verify_safety of the simulated cluster, for any odd number of voters    *)
(* from three on, any commands and any schedule of faults.                 *)
(*                                                                         *)
(* The leader's log may be lost with its disk, so the argument is about    *)
(* the history h it once was: every replica holds a prefix of h, every     *)
(* message under way is about an entry of h (FromHistory), whoever         *)
(* acknowledged an entry holds it unless its disk is lost (AcksAreTrue),   *)
(* and what the client was told rests on a quorum of acknowledgements.     *)
(***************************************************************************)
EXTENDS SimCluster, FiniteSetTheorems, TLAPS

Holds(n, i) == i <= Len(log[n])

\* Appends and commits travel from the leader to a follower, acknowledgements back.
Route(m) ==
    IF m.kind = "ack" THEN m.from \in Follower /\ m.to = Leader
                      ELSE m.from = Leader /\ m.to \in Follower

FromHistory(h) ==
    /\ Len(h) <= MaxIndex
    /\ Leader \in disk => log[Leader] = h
    /\ \A n \in Voter : /\ Len(log[n]) <= Len(h)
                        /\ \A i \in 1..Len(log[n]) : log[n][i] = h[i]
    /\ \A m \in BagToSet(pending) :
          m.index <= Len(h) /\ (m.kind = "append" => m.command = h[m.index])

AcksAreTrue ==
    /\ \A m \in BagToSet(pending) :
          Route(m) /\ (m.kind = "ack" /\ m.from \in disk => Holds(m.from, m.index))
    /\ \A i \in Index : \A n \in acknowledgements[i] \cap disk : Holds(n, i)

Backed == \A i \in acknowledged : Cardinality(acknowledgements[i]) >= Quorum

CommitsHeld == \A n \in Voter : commit_index[n] <= Len(log[n])

SafetyInv ==
    /\ TypeOK
    /\ \E h \in Seq(Command) : FromHistory(h)
    /\ AcksAreTrue
    /\ Backed
    /\ CommitsHeld

\* What the bag operators do to the messages under way.
LEMMA BagFacts ==
    /\ \A B, C : BagToSet(B (+) C) = BagToSet(B) \cup BagToSet(C)
    /\ \A B, C : BagToSet(B (-) C) \subseteq BagToSet(B)
    /\ \A S : BagToSet(SetToBag(S)) = S
<1>1. \A B, C : BagToSet(B (+) C) = BagToSet(B) \cup BagToSet(C)
  BY DEF BagToSet, (+)
<1>2. \A B, C : BagToSet(B (-) C) \subseteq BagToSet(B)
  BY DEF BagToSet, (-)
<1>3. \A S : BagToSet(SetToBag(S)) = S
  BY DEF BagToSet, SetToBag
<1> QED BY <1>1, <1>2, <1>3

\* Sets of voters are finite, a larger one has no fewer members, and the quorum is more
\* than half.
LEMMA VoterCounts ==
    /\ Cardinality(Voter) \in Nat /\ Quorum \in Nat /\ Tolerated \in Nat
    /\ Tolerated < Quorum
    /\ \A S \in SUBSET Voter : IsFiniteSet(S) /\ Cardinality(S) \in Nat
    /\ \A S, T \in SUBSET Voter : S \subseteq T => Cardinality(S) <= Cardinality(T)
    /\ \A S, T \in SUBSET Voter : Cardinality(S \cup T) <= Cardinality(S) + Cardinality(T)
<1>1. Cardinality(Voter) \in Nat
  BY VoterAssumption, FS_CardinalityType
<1>2. Quorum \in Nat /\ Tolerated \in Nat /\ Tolerated < Quorum
  BY <1>1, PlacementAssumption DEF Quorum, Tolerated
<1>3. \A S \in SUBSET Voter : IsFiniteSet(S)
  BY VoterAssumption, FS_Subset
<1>4. \A S \in SUBSET Voter : Cardinality(S) \in Nat
  BY <1>3, FS_CardinalityType
<1>5. \A S, T \in SUBSET Voter : S \subseteq T => Cardinality(S) <= Cardinality(T)
  BY <1>3, FS_Subset
<1>6. ASSUME NEW S \in SUBSET Voter, NEW T \in SUBSET Voter
      PROVE  Cardinality(S \cup T) <= Cardinality(S) + Cardinality(T)
  <2>1. Cardinality(S \cup T) = Cardinality(S) + Cardinality(T) - Cardinality(S \cap T)
    BY <1>3, FS_Union
  <2>2. Cardinality(S \cap T) \in Nat /\ Cardinality(S) \in Nat /\ Cardinality(T) \in Nat
    BY <1>4
  <2> QED BY <2>1, <2>2
<1> QED BY <1>1, <1>2, <1>3, <1>4, <1>5, <1>6

\* Counting one more voter never withdraws a commit, and announces one only with a quorum
\* (maybe_commit).
LEMMA MaybeCommitKeeps ==
    ASSUME TypeOK, Backed, NEW i \in Index, NEW n \in Voter, NEW sent, NEW rest,
           MaybeCommit(i, acknowledgements[i] \cup {n}, sent, rest)
    PROVE  /\ acknowledgements' = [acknowledgements EXCEPT ![i] = acknowledgements[i] \cup {n}]
           /\ acknowledgements' \in [Index -> SUBSET Voter]
           /\ acknowledged' \subseteq Index
           /\ Backed'
           /\ \/ commit_index' = commit_index
              \/ commit_index' = [commit_index EXCEPT ![Leader] = i]
           /\ BagToSet(pending') \subseteq
                 BagToSet(rest) \cup sent \cup {CommitMessage(f, i) : f \in Follower}
<1> DEFINE voters == acknowledgements[i] \cup {n}
<1>1. /\ acknowledgements' = [acknowledgements EXCEPT ![i] = voters]
      /\ acknowledgements' \in [Index -> SUBSET Voter]
      /\ voters \in SUBSET Voter
  BY DEF MaybeCommit, TypeOK
<1>2. /\ acknowledged' \subseteq Index
      /\ acknowledged' = acknowledged \/ (acknowledged' = acknowledged \cup {i} /\ Cardinality(voters) >= Quorum)
  BY DEF MaybeCommit, Commits, TypeOK
<1>3. Backed'
  <2> SUFFICES ASSUME NEW j \in acknowledged'
               PROVE  Cardinality(acknowledgements'[j]) >= Quorum
    BY DEF Backed, Quorum
  <2>1. CASE j \in acknowledged /\ j # i
    BY <1>1, <2>1 DEF Backed, TypeOK
  <2>2. CASE j \in acknowledged /\ j = i
    <3>1. acknowledgements[i] \in SUBSET Voter /\ acknowledgements[i] \subseteq voters /\ acknowledgements'[i] = voters
      BY <1>1 DEF TypeOK
    <3>2. Cardinality(acknowledgements[i]) <= Cardinality(voters)
      BY <1>1, <3>1, VoterCounts
    <3>3. Cardinality(acknowledgements[i]) >= Quorum
      BY <2>2 DEF Backed
    <3>4. Cardinality(acknowledgements[i]) \in Nat /\ Cardinality(voters) \in Nat /\ Quorum \in Nat
      BY <1>1, <3>1, VoterCounts
    <3> HIDE DEF voters
    <3> QED BY <2>2, <3>1, <3>2, <3>3, <3>4
  <2>3. CASE j \notin acknowledged
    BY <1>1, <1>2, <2>3 DEF TypeOK
  <2> QED BY <2>1, <2>2, <2>3
<1>4. \/ commit_index' = commit_index
      \/ commit_index' = [commit_index EXCEPT ![Leader] = i]
  BY DEF MaybeCommit
<1>5. BagToSet(pending') \subseteq BagToSet(rest) \cup sent \cup {CommitMessage(f, i) : f \in Follower}
  BY BagFacts DEF MaybeCommit
<1> QED BY <1>1, <1>2, <1>3, <1>4, <1>5

\* propose extends the history by one entry, which only the leader holds.
LEMMA ProposeStep ==
    ASSUME SafetyInv, NEW c \in Command, Propose(c)
    PROVE  SafetyInv'
<1> DEFINE i == Len(log[Leader]) + 1
<1>1. PICK h \in Seq(Command) : FromHistory(h)
  BY DEF SafetyInv
<1>2. /\ Leader \in Voter /\ Leader \in disk /\ log[Leader] = h /\ Len(h) \in Nat /\ i = Len(h) + 1
      /\ i \in Index /\ log[Leader] \in Seq(Command)
  BY <1>1, VoterAssumption, SimBoundsAssumption DEF Propose, FromHistory, SafetyInv, TypeOK, Index
<1>3. /\ log' = [log EXCEPT ![Leader] = Append(h, c)]
      /\ UNCHANGED <<online, disk, blocked>>
      /\ MaybeCommit(i, acknowledgements[i] \cup {Leader},
                     {AppendMessage(f, i, c) : f \in Follower}, pending)
  BY <1>2 DEF Propose
<1> HIDE DEF i
<1>4. /\ acknowledgements' = [acknowledgements EXCEPT ![i] = acknowledgements[i] \cup {Leader}]
      /\ acknowledgements' \in [Index -> SUBSET Voter]
      /\ acknowledged' \subseteq Index
      /\ Backed'
      /\ \/ commit_index' = commit_index
         \/ commit_index' = [commit_index EXCEPT ![Leader] = i]
      /\ BagToSet(pending') \subseteq
            BagToSet(pending) \cup {AppendMessage(f, i, c) : f \in Follower}
               \cup {CommitMessage(f, i) : f \in Follower}
  BY <1>2, <1>3, MaybeCommitKeeps DEF SafetyInv
<1>5. /\ Append(h, c) \in Seq(Command) /\ Len(Append(h, c)) = Len(h) + 1
      /\ \A k \in 1..Len(h) : Append(h, c)[k] = h[k]
      /\ Append(h, c)[Len(h) + 1] = c
  BY <1>1
<1>6. /\ log' \in [Voter -> Seq(Command)] /\ log'[Leader] = Append(h, c)
      /\ \A n \in Voter \ {Leader} : log'[n] = log[n]
      /\ \A n \in Voter : Len(log[n]) \in Nat /\ Len(log[n]) <= Len(log'[n])
  BY <1>2, <1>3, <1>5 DEF SafetyInv, TypeOK
<1>7. TypeOK'
  <2>1. BagToSet(pending') \subseteq Message
    BY <1>2, <1>4, VoterAssumption DEF SafetyInv, TypeOK, Message, AppendMessage, CommitMessage, Follower
  <2>2. commit_index' \in [Voter -> 0..MaxIndex]
    <3>1. i \in 0..MaxIndex /\ commit_index \in [Voter -> 0..MaxIndex]
      BY <1>2, SimBoundsAssumption DEF SafetyInv, TypeOK, Index
    <3> QED BY <1>4, <3>1
  <2> QED BY <1>3, <1>4, <1>6, <2>1, <2>2 DEF SafetyInv, TypeOK
<1>8. \A m \in BagToSet(pending') :
         \/ m \in BagToSet(pending)
         \/ \E f \in Follower : m = AppendMessage(f, i, c) \/ m = CommitMessage(f, i)
  BY <1>4
<1>9. FromHistory(Append(h, c))'
  <2>1. Len(Append(h, c)) <= MaxIndex
    BY <1>2, <1>5, SimBoundsAssumption DEF Index
  <2>2. ASSUME NEW n \in Voter
        PROVE  /\ Len(log'[n]) <= Len(Append(h, c))
               /\ \A k \in 1..Len(log'[n]) : log'[n][k] = Append(h, c)[k]
    BY <1>1, <1>2, <1>5, <1>6 DEF FromHistory
  <2>3. ASSUME NEW m \in BagToSet(pending')
        PROVE  m.index <= Len(Append(h, c)) /\ (m.kind = "append" => m.command = Append(h, c)[m.index])
    <3>1. CASE m \in BagToSet(pending)
      <4>1. m.index \in 1..Len(h) /\ (m.kind = "append" => m.command = h[m.index])
        BY <1>1, <3>1, SimBoundsAssumption DEF FromHistory, SafetyInv, TypeOK, Message, Index
      <4> QED BY <1>2, <1>5, <4>1
    <3>2. CASE \E f \in Follower : m = AppendMessage(f, i, c) \/ m = CommitMessage(f, i)
      BY <1>2, <1>5, <3>2 DEF AppendMessage, CommitMessage
    <3> QED BY <1>8, <3>1, <3>2
  <2> QED BY <1>3, <1>6, <2>1, <2>2, <2>3 DEF FromHistory
<1>10. AcksAreTrue'
  <2>1. ASSUME NEW m \in BagToSet(pending')
        PROVE  Route(m) /\ (m.kind = "ack" /\ m.from \in disk => m.index <= Len(log'[m.from]))
    <3>1. CASE m \in BagToSet(pending)
      <4>1. Route(m) /\ (m.kind = "ack" /\ m.from \in disk => m.index <= Len(log[m.from]))
        BY <3>1 DEF SafetyInv, AcksAreTrue, Holds
      <4>2. m.from \in Voter /\ m.index \in Nat
        BY <3>1, SimBoundsAssumption DEF SafetyInv, TypeOK, Message, Index
      <4>3. Len(log'[m.from]) \in Nat
        BY <1>6, <4>2
      <4> QED BY <1>6, <4>1, <4>2, <4>3
    <3>2. CASE \E f \in Follower : m = AppendMessage(f, i, c) \/ m = CommitMessage(f, i)
      BY <3>2 DEF AppendMessage, CommitMessage, Route
    <3> QED BY <1>8, <3>1, <3>2
  <2>2. ASSUME NEW j \in Index, NEW n \in acknowledgements'[j] \cap disk
        PROVE  j <= Len(log'[n])
    <3>1. n \in Voter /\ j \in Nat /\ Len(log'[n]) \in Nat
      BY <1>6, SimBoundsAssumption DEF SafetyInv, TypeOK, Index
    <3>2. CASE n \in acknowledgements[j]
      BY <1>6, <3>1, <3>2 DEF SafetyInv, AcksAreTrue, Holds
    <3>3. CASE n \notin acknowledgements[j]
      <4>1. j = i /\ n = Leader
        BY <1>2, <1>4, <3>3 DEF SafetyInv, TypeOK
      <4> QED BY <1>2, <1>5, <1>6, <4>1
    <3> QED BY <3>2, <3>3
  <2> QED BY <1>3, <2>1, <2>2 DEF AcksAreTrue, Holds, Route
<1>11. CommitsHeld'
  <2> SUFFICES ASSUME NEW n \in Voter
               PROVE  commit_index'[n] <= Len(log'[n])
    BY DEF CommitsHeld
  <2>1. /\ commit_index \in [Voter -> 0..MaxIndex] /\ commit_index[n] \in Nat
        /\ commit_index[n] <= Len(log[n]) /\ Len(log[n]) \in Nat
        /\ Len(log[n]) <= Len(log'[n]) /\ Len(log'[n]) \in Nat
    BY <1>6, SimBoundsAssumption DEF SafetyInv, TypeOK, CommitsHeld
  <2>2. CASE commit_index'[n] = commit_index[n]
    BY <2>1, <2>2
  <2>3. CASE commit_index'[n] # commit_index[n]
    <3>1. n = Leader /\ commit_index'[n] = i
      BY <1>2, <1>4, <2>1, <2>3
    <3> QED BY <1>2, <1>5, <1>6, <3>1
  <2> QED BY <2>2, <2>3
<1> QED BY <1>4, <1>5, <1>7, <1>9, <1>10, <1>11 DEF SafetyInv

\* A follower appends the next entry of the history, or acknowledges one it holds.
LEMMA DeliverAppendStep ==
    ASSUME SafetyInv, NEW m \in BagToSet(pending), CanDeliver(m), DeliverAppend(m),
           UNCHANGED <<online, disk, blocked>>
    PROVE  SafetyInv'
<1>1. PICK h \in Seq(Command) : FromHistory(h)
  BY DEF SafetyInv
<1>2. /\ m \in Message /\ m.kind = "append" /\ m.from = Leader /\ m.to \in Follower
      /\ m.to \in disk /\ m.to \in Voter /\ m.index \in 1..Len(h) /\ m.command = h[m.index]
      /\ m.command \in Command /\ m.index \in Index /\ Len(h) \in Nat
  BY <1>1, SimBoundsAssumption
     DEF SafetyInv, TypeOK, Message, DeliverAppend, CanDeliver, AcksAreTrue, Route, FromHistory,
         Follower, Index
<1>3. /\ log' \in [Voter -> Seq(Command)]
      /\ \A n \in Voter : /\ Len(log[n]) \in Nat /\ Len(log'[n]) \in Nat
                          /\ Len(log[n]) <= Len(log'[n]) /\ Len(log'[n]) <= Len(h)
                          /\ \A k \in 1..Len(log'[n]) : log'[n][k] = h[k]
      /\ UNCHANGED <<commit_index, acknowledgements, acknowledged>>
      /\ log'[Leader] = log[Leader]
  <2>1. /\ log \in [Voter -> Seq(Command)] /\ UNCHANGED <<commit_index, acknowledgements, acknowledged>>
        /\ \A n \in Voter : /\ Len(log[n]) \in Nat /\ Len(log[n]) <= Len(h)
                            /\ \A k \in 1..Len(log[n]) : log[n][k] = h[k]
    BY <1>1 DEF SafetyInv, TypeOK, FromHistory, DeliverAppend
  <2>2. CASE log' = log
    BY <2>1, <2>2
  <2>3. CASE m.index = Len(log[m.to]) + 1 /\ log' = [log EXCEPT ![m.to] = Append(log[m.to], m.command)]
    <3>1. /\ Append(log[m.to], m.command) \in Seq(Command)
          /\ Len(Append(log[m.to], m.command)) = Len(log[m.to]) + 1
          /\ \A k \in 1..Len(log[m.to]) : Append(log[m.to], m.command)[k] = log[m.to][k]
          /\ Append(log[m.to], m.command)[Len(log[m.to]) + 1] = m.command
      BY <1>2, <2>1
    <3>2. /\ log' \in [Voter -> Seq(Command)] /\ log'[m.to] = Append(log[m.to], m.command)
          /\ \A n \in Voter \ {m.to} : log'[n] = log[n]
      BY <1>2, <2>1, <2>3, <3>1
    <3>3. ASSUME NEW k \in 1..(Len(log[m.to]) + 1)
          PROVE  log'[m.to][k] = h[k]
      <4>1. k \in 1..Len(log[m.to]) \/ k = Len(log[m.to]) + 1
        BY <1>2, <2>1
      <4> QED BY <1>2, <2>1, <2>3, <3>1, <3>2, <4>1
    <3>4. /\ Len(log'[m.to]) = Len(log[m.to]) + 1 /\ Len(log[m.to]) \in Nat /\ Len(log'[m.to]) \in Nat
          /\ Len(log'[m.to]) <= Len(h)
      BY <1>2, <2>1, <2>3, <3>1, <3>2
    <3>5. ASSUME NEW n \in Voter
          PROVE  /\ Len(log[n]) \in Nat /\ Len(log'[n]) \in Nat
                 /\ Len(log[n]) <= Len(log'[n]) /\ Len(log'[n]) <= Len(h)
                 /\ \A k \in 1..Len(log'[n]) : log'[n][k] = h[k]
      <4>1. CASE n = m.to
        BY <3>3, <3>4, <4>1
      <4>2. CASE n # m.to
        BY <2>1, <3>2, <4>2
      <4> QED BY <4>1, <4>2
    <3> QED BY <1>2, <2>1, <3>2, <3>5, VoterAssumption DEF Follower
  <2> QED BY <2>2, <2>3 DEF DeliverAppend
<1>4. /\ BagToSet(pending') \subseteq BagToSet(pending) \cup {AckMessage(m)}
      /\ AckMessage(m) \in BagToSet(pending') \ BagToSet(pending) => m.index <= Len(log'[m.to])
  <2>1. CASE Refuses(m.to, m.index, m.command)
    BY <2>1, BagFacts DEF DeliverAppend, Without
  <2>2. CASE ~Refuses(m.to, m.index, m.command)
    <3>1. BagToSet(pending') \subseteq BagToSet(pending) \cup {AckMessage(m)}
      BY <2>2, BagFacts DEF DeliverAppend, Without
    <3>2. m.index <= Len(log[m.to]) + 1
      BY <1>2, <1>3, <2>2 DEF Refuses
    <3>3. m.index <= Len(log'[m.to])
      BY <1>2, <1>3, <2>2, <3>2 DEF DeliverAppend, SafetyInv, TypeOK
    <3> QED BY <3>1, <3>3
  <2> QED BY <2>1, <2>2
<1>5. /\ AckMessage(m) \in Message
      /\ AckMessage(m).kind = "ack" /\ AckMessage(m).index = m.index
      /\ AckMessage(m).from = m.to /\ AckMessage(m).to = Leader
  BY <1>2, VoterAssumption DEF AckMessage, Message
<1>6. TypeOK'
  BY <1>3, <1>4, <1>5 DEF SafetyInv, TypeOK
<1>7. FromHistory(h)'
  <2>1. ASSUME NEW x \in BagToSet(pending')
        PROVE  x.index <= Len(h) /\ (x.kind = "append" => x.command = h[x.index])
    BY <1>1, <1>2, <1>4, <1>5 DEF FromHistory
  <2> QED BY <1>1, <1>3, <2>1 DEF FromHistory
<1>8. AcksAreTrue'
  <2>1. ASSUME NEW x \in BagToSet(pending')
        PROVE  Route(x) /\ (x.kind = "ack" /\ x.from \in disk => x.index <= Len(log'[x.from]))
    <3>1. CASE x \in BagToSet(pending)
      <4>1. Route(x) /\ (x.kind = "ack" /\ x.from \in disk => x.index <= Len(log[x.from]))
        BY <3>1 DEF SafetyInv, AcksAreTrue, Holds
      <4>2. x.from \in Voter /\ x.index \in Nat
        BY <3>1, SimBoundsAssumption DEF SafetyInv, TypeOK, Message, Index
      <4> QED BY <1>3, <4>1, <4>2
    <3>2. CASE x \notin BagToSet(pending)
      BY <1>2, <1>4, <1>5, <3>2 DEF Route
    <3> QED BY <3>1, <3>2
  <2>2. ASSUME NEW j \in Index, NEW n \in acknowledgements[j] \cap disk
        PROVE  j <= Len(log'[n])
    <3>1. n \in Voter /\ j \in Nat /\ j <= Len(log[n])
      BY SimBoundsAssumption DEF SafetyInv, TypeOK, Index, AcksAreTrue, Holds
    <3> QED BY <1>3, <3>1
  <2> QED BY <1>3, <2>1, <2>2 DEF AcksAreTrue, Holds, Route
<1>9. CommitsHeld'
  <2> SUFFICES ASSUME NEW n \in Voter
               PROVE  commit_index[n] <= Len(log'[n])
    BY <1>3 DEF CommitsHeld
  <2>1. commit_index[n] \in Nat /\ commit_index[n] <= Len(log[n])
    BY SimBoundsAssumption DEF SafetyInv, TypeOK, CommitsHeld
  <2> QED BY <1>3, <2>1
<1>10. Backed'
  BY <1>3 DEF SafetyInv, Backed, Quorum
<1> QED BY <1>6, <1>7, <1>8, <1>9, <1>10 DEF SafetyInv

\* The leader counts an acknowledgement, which its sender stands by.
LEMMA DeliverAckStep ==
    ASSUME SafetyInv, NEW m \in BagToSet(pending), CanDeliver(m), DeliverAck(m),
           UNCHANGED <<online, disk, blocked>>
    PROVE  SafetyInv'
<1>1. PICK h \in Seq(Command) : FromHistory(h)
  BY DEF SafetyInv
<1>2. /\ m \in Message /\ m.kind = "ack" /\ m.from \in Voter /\ m.to = Leader /\ m.from \in disk
      /\ m.index \in Index /\ m.index <= Len(h) /\ Holds(m.from, m.index)
      /\ Leader \in disk /\ log[Leader] = h /\ Leader \in Voter
  BY <1>1, SimBoundsAssumption, VoterAssumption
     DEF SafetyInv, TypeOK, Message, DeliverAck, CanDeliver, AcksAreTrue, Route, FromHistory, Follower
<1>3. /\ acknowledgements' = [acknowledgements EXCEPT ![m.index] = acknowledgements[m.index] \cup {m.from}]
      /\ acknowledgements' \in [Index -> SUBSET Voter]
      /\ acknowledged' \subseteq Index
      /\ Backed'
      /\ \/ commit_index' = commit_index
         \/ commit_index' = [commit_index EXCEPT ![Leader] = m.index]
      /\ BagToSet(pending') \subseteq
            BagToSet(Without(m)) \cup {} \cup {CommitMessage(f, m.index) : f \in Follower}
  <2>1. MaybeCommit(m.index, acknowledgements[m.index] \cup {m.from}, {}, Without(m))
    BY DEF DeliverAck
  <2> QED BY <1>2, <2>1, MaybeCommitKeeps DEF SafetyInv
<1>4. UNCHANGED log
  BY DEF DeliverAck
<1>5. \A x \in BagToSet(pending') :
         x \in BagToSet(pending) \/ \E f \in Follower : x = CommitMessage(f, m.index)
  BY <1>3, BagFacts DEF Without
<1>6. TypeOK'
  <2>1. BagToSet(pending') \subseteq Message
    BY <1>2, <1>5 DEF SafetyInv, TypeOK, Message, CommitMessage, Follower
  <2>2. commit_index' \in [Voter -> 0..MaxIndex]
    <3>1. m.index \in 0..MaxIndex /\ commit_index \in [Voter -> 0..MaxIndex]
      BY <1>2, SimBoundsAssumption DEF SafetyInv, TypeOK, Index
    <3> QED BY <1>3, <3>1
  <2> QED BY <1>3, <1>4, <2>1, <2>2 DEF SafetyInv, TypeOK
<1>7. FromHistory(h)'
  <2>1. ASSUME NEW x \in BagToSet(pending')
        PROVE  x.index <= Len(h) /\ (x.kind = "append" => x.command = h[x.index])
    BY <1>1, <1>2, <1>5 DEF FromHistory, CommitMessage
  <2> QED BY <1>1, <1>4, <2>1 DEF FromHistory
<1>8. AcksAreTrue'
  <2>1. ASSUME NEW x \in BagToSet(pending')
        PROVE  Route(x) /\ (x.kind = "ack" /\ x.from \in disk => Holds(x.from, x.index))
    BY <1>2, <1>5 DEF SafetyInv, AcksAreTrue, Route, CommitMessage
  <2>2. ASSUME NEW j \in Index, NEW n \in acknowledgements'[j] \cap disk
        PROVE  Holds(n, j)
    <3>1. CASE n \in acknowledgements[j]
      BY <3>1 DEF SafetyInv, AcksAreTrue
    <3>2. CASE n \notin acknowledgements[j]
      <4>1. j = m.index /\ n = m.from
        BY <1>2, <1>3, <3>2 DEF SafetyInv, TypeOK
      <4> QED BY <1>2, <4>1
    <3> QED BY <3>1, <3>2
  <2> QED BY <1>4, <2>1, <2>2 DEF AcksAreTrue, Holds, Route
<1>9. CommitsHeld'
  <2> SUFFICES ASSUME NEW n \in Voter
               PROVE  commit_index'[n] <= Len(log[n])
    BY <1>4 DEF CommitsHeld
  <2>1. /\ commit_index \in [Voter -> 0..MaxIndex]
        /\ commit_index[n] <= Len(log[n])
    BY DEF SafetyInv, TypeOK, CommitsHeld
  <2>2. CASE commit_index'[n] = commit_index[n]
    BY <2>1, <2>2
  <2>3. CASE commit_index'[n] # commit_index[n]
    <3>1. n = Leader /\ commit_index'[n] = m.index
      BY <1>2, <1>3, <2>1, <2>3
    <3> QED BY <1>2, <3>1
  <2> QED BY <2>2, <2>3
<1> QED BY <1>3, <1>6, <1>7, <1>8, <1>9 DEF SafetyInv

\* A follower commits only an entry it holds.
LEMMA DeliverCommitStep ==
    ASSUME SafetyInv, NEW m \in BagToSet(pending), CanDeliver(m), DeliverCommit(m),
           UNCHANGED <<online, disk, blocked>>
    PROVE  SafetyInv'
<1>1. /\ UNCHANGED <<online, disk, blocked, log, acknowledgements, acknowledged>>
      /\ BagToSet(pending') \subseteq BagToSet(pending)
  BY BagFacts DEF DeliverCommit, Without
<1>2. m.to \in Voter /\ m.index \in Index /\ m.index \in 0..MaxIndex
  BY SimBoundsAssumption DEF SafetyInv, TypeOK, Message, Index
<1>3. TypeOK'
  BY <1>1, <1>2 DEF SafetyInv, TypeOK, DeliverCommit
<1>4. CommitsHeld'
  <2> SUFFICES ASSUME NEW n \in Voter
               PROVE  commit_index'[n] <= Len(log[n])
    BY <1>1 DEF CommitsHeld
  <2>1. commit_index \in [Voter -> 0..MaxIndex] /\ commit_index[n] <= Len(log[n])
    BY DEF SafetyInv, TypeOK, CommitsHeld
  <2> QED BY <1>2, <2>1 DEF DeliverCommit
<1>5. \A h : FromHistory(h) => FromHistory(h)'
  BY <1>1 DEF FromHistory
<1>6. AcksAreTrue'
  BY <1>1 DEF SafetyInv, AcksAreTrue, Holds, Route
<1>7. Backed'
  BY <1>1 DEF SafetyInv, Backed, Quorum
<1> QED BY <1>3, <1>4, <1>5, <1>6, <1>7 DEF SafetyInv

\* A lost disk takes its copies with it, which the invariant does not count on.
LEMMA DiskLossStep ==
    ASSUME SafetyInv, NEW n \in Voter, DiskLoss(n)
    PROVE  SafetyInv'
<1>1. /\ online' = online \ {n} /\ disk' = disk \ {n} /\ log' = [log EXCEPT ![n] = <<>>]
      /\ commit_index' = [commit_index EXCEPT ![n] = 0]
      /\ UNCHANGED <<blocked, pending, acknowledgements, acknowledged>>
  BY DEF DiskLoss
<1>2. /\ log' \in [Voter -> Seq(Command)] /\ log'[n] = <<>> /\ Len(log'[n]) = 0
      /\ \A v \in Voter \ {n} : log'[v] = log[v]
  BY <1>1 DEF SafetyInv, TypeOK
<1>3. TypeOK'
  BY <1>1, <1>2, SimBoundsAssumption DEF SafetyInv, TypeOK
<1>4. ASSUME NEW h \in Seq(Command), FromHistory(h)
      PROVE  FromHistory(h)'
  <2>1. Leader \in disk' => log'[Leader] = h
    BY <1>1, <1>2, <1>4, VoterAssumption DEF FromHistory
  <2>2. ASSUME NEW v \in Voter
        PROVE  Len(log'[v]) <= Len(h) /\ \A i \in 1..Len(log'[v]) : log'[v][i] = h[i]
    BY <1>2, <1>4 DEF FromHistory
  <2> QED BY <1>1, <1>4, <2>1, <2>2 DEF FromHistory
<1>5. AcksAreTrue'
  <2>1. ASSUME NEW m \in BagToSet(pending)
        PROVE  Route(m) /\ (m.kind = "ack" /\ m.from \in disk' => m.index <= Len(log'[m.from]))
    <3>1. m.from \in Voter /\ Route(m) /\ (m.kind = "ack" /\ m.from \in disk => m.index <= Len(log[m.from]))
      BY DEF SafetyInv, TypeOK, Message, AcksAreTrue, Holds
    <3> QED BY <1>1, <1>2, <3>1
  <2>2. ASSUME NEW j \in Index, NEW v \in acknowledgements[j] \cap disk'
        PROVE  j <= Len(log'[v])
    <3>1. v \in Voter \ {n} /\ j <= Len(log[v])
      BY <1>1 DEF SafetyInv, TypeOK, AcksAreTrue, Holds
    <3> QED BY <1>2, <3>1
  <2> QED BY <1>1, <2>1, <2>2 DEF AcksAreTrue, Holds, Route
<1>6. CommitsHeld'
  <2> SUFFICES ASSUME NEW v \in Voter
               PROVE  commit_index'[v] <= Len(log'[v])
    BY DEF CommitsHeld
  <2> QED BY <1>1, <1>2 DEF SafetyInv, TypeOK, CommitsHeld
<1>7. Backed'
  BY <1>1 DEF SafetyInv, Backed, Quorum
<1> QED BY <1>3, <1>4, <1>5, <1>6, <1>7 DEF SafetyInv

\* A copied message, a cut or mended link, a crash and a restart touch neither a log nor
\* an acknowledgement.
LEMMA FaultStep ==
    ASSUME SafetyInv,
           \/ \E m \in BagToSet(pending) : Duplicate(m)
           \/ \E f \in Follower : Partition(Leader, f) \/ Heal(Leader, f)
           \/ \E n \in Voter : Crash(n) \/ Restart(n)
    PROVE  SafetyInv'
<1>1. /\ UNCHANGED <<disk, log, commit_index, acknowledgements, acknowledged>>
      /\ BagToSet(pending') = BagToSet(pending)
  <2>1. ASSUME NEW m \in BagToSet(pending), Duplicate(m)
        PROVE  BagToSet(pending') = BagToSet(pending)
    <3>1. pending' = pending (+) SetToBag({m})
      BY <2>1 DEF Duplicate
    <3>2. BagToSet(pending') = BagToSet(pending) \cup {m}
      BY <3>1, BagFacts
    <3> QED BY <3>2
  <2> QED BY <2>1 DEF Duplicate, Partition, Heal, Crash, Restart
<1>2. online' \subseteq Voter /\ blocked' \subseteq Voter \X Voter
  <2>1. Follower \subseteq Voter /\ Leader \in Voter
    BY VoterAssumption DEF Follower
  <2>2. online' \subseteq Voter
    BY DEF Duplicate, Partition, Heal, Crash, Restart, SafetyInv, TypeOK
  <2>3. blocked' \subseteq Voter \X Voter
    <3>1. \A f \in Follower : {<<Leader, f>>, <<f, Leader>>} \subseteq Voter \X Voter
      BY <2>1
    <3>2. \/ blocked' \subseteq blocked
          \/ \E f \in Follower : blocked' = blocked \cup {<<Leader, f>>, <<f, Leader>>}
      BY DEF Duplicate, Partition, Heal, Crash, Restart
    <3> QED BY <3>1, <3>2 DEF SafetyInv, TypeOK
  <2> QED BY <2>2, <2>3
<1>3. TypeOK'
  BY <1>1, <1>2 DEF SafetyInv, TypeOK
<1>4. \A h : FromHistory(h) => FromHistory(h)'
  BY <1>1 DEF FromHistory
<1>5. AcksAreTrue' /\ Backed' /\ CommitsHeld'
  BY <1>1 DEF SafetyInv, AcksAreTrue, Holds, Route, Backed, Quorum, CommitsHeld
<1> QED BY <1>3, <1>4, <1>5 DEF SafetyInv

\* SafetyInv holds in the first state and every step keeps it.
LEMMA SafetyInductive == Spec => []SafetyInv
<1>1. ASSUME Init
      PROVE  SafetyInv
  <2>1. BagToSet(pending) = {}
    BY <1>1 DEF Init, EmptyBag, SetToBag, BagToSet
  <2>2. TypeOK
    BY <1>1, <2>1, SimBoundsAssumption DEF Init, TypeOK
  <2>3. FromHistory(<<>>) /\ <<>> \in Seq(Command)
    BY <1>1, <2>1, VoterAssumption, SimBoundsAssumption DEF Init, FromHistory
  <2>4. AcksAreTrue /\ Backed /\ CommitsHeld
    BY <1>1, <2>1 DEF Init, AcksAreTrue, Backed, CommitsHeld
  <2> QED BY <2>2, <2>3, <2>4 DEF SafetyInv
<1>2. ASSUME SafetyInv, UNCHANGED vars
      PROVE  SafetyInv'
  <2>1. TypeOK' /\ AcksAreTrue' /\ Backed' /\ CommitsHeld'
    BY <1>2 DEF vars, SafetyInv, TypeOK, AcksAreTrue, Holds, Route, Backed, Quorum, CommitsHeld
  <2>2. \A h : FromHistory(h) => FromHistory(h)'
    BY <1>2 DEF vars, FromHistory
  <2> QED BY <1>2, <2>1, <2>2 DEF SafetyInv
<1>3. ASSUME SafetyInv, Next
      PROVE  SafetyInv'
  <2>1. ASSUME NEW m \in BagToSet(pending), Deliver(m)
        PROVE  SafetyInv'
    BY <1>3, <2>1, DeliverAppendStep, DeliverAckStep, DeliverCommitStep DEF Deliver
  <2> QED BY <1>3, <2>1, ProposeStep, DiskLossStep, FaultStep DEF Next
<1> QED BY <1>1, <1>2, <1>3, PTL DEF Spec

\* Every variable of the simulator keeps the type the code declares for it, and its
\* messages are appends, acknowledgements and commits within the log's range.
THEOREM ClusterTypes == Spec => []TypeOK
<1>1. SafetyInv => TypeOK
  BY DEF SafetyInv
<1> QED BY <1>1, SafetyInductive, PTL

\* What verify_safety checks after every simulated step, and more, for any odd number of
\* voters: no replica commits what it does not hold, no two replicas differ at an index,
\* and what the client was told survives every loss of disks the placement tolerates.
THEOREM ClusterSafe == Spec => []VerifySafety
<1>1. ASSUME SafetyInv
      PROVE  VerifySafety
  <2>1. PICK h \in Seq(Command) : FromHistory(h)
    BY <1>1 DEF SafetyInv
  <2>2. \A n \in Voter : commit_index[n] <= Len(log[n])
    BY <1>1 DEF SafetyInv, CommitsHeld
  <2>3. ASSUME NEW a \in Voter, NEW b \in Voter, NEW i \in 1..Len(log[a]), i <= Len(log[b])
        PROVE  log[a][i] = log[b][i]
    <3>1. i \in 1..Len(log[b])
      BY <1>1, <2>3 DEF SafetyInv, TypeOK
    <3> QED BY <2>1, <3>1 DEF FromHistory
  <2>4. ASSUME NEW i \in acknowledged
        PROVE  LET copies == {n \in disk : i <= Len(log[n])}
               IN  /\ Cardinality(copies) + Cardinality(DiskLosses) >= Quorum
                   /\ Cardinality(DiskLosses) <= Tolerated => copies # {}
    <3> DEFINE copies == {n \in disk : i <= Len(log[n])}
    <3>1. i \in Index /\ acknowledgements[i] \in SUBSET Voter
      BY <1>1 DEF SafetyInv, TypeOK
    <3>2. copies \in SUBSET Voter /\ DiskLosses \in SUBSET Voter
      BY <1>1 DEF SafetyInv, TypeOK, DiskLosses
    <3>3. acknowledgements[i] \subseteq copies \cup DiskLosses
      BY <1>1, <3>1 DEF SafetyInv, AcksAreTrue, Holds, DiskLosses
    <3>4. Cardinality(acknowledgements[i]) >= Quorum
      BY <1>1 DEF SafetyInv, Backed
    <3> HIDE DEF copies
    <3>5. copies \cup DiskLosses \in SUBSET Voter
      BY <3>2
    <3>6. /\ Cardinality(acknowledgements[i]) <= Cardinality(copies \cup DiskLosses)
          /\ Cardinality(copies \cup DiskLosses) <= Cardinality(copies) + Cardinality(DiskLosses)
          /\ Cardinality(copies) \in Nat /\ Cardinality(DiskLosses) \in Nat
          /\ Cardinality(copies \cup DiskLosses) \in Nat /\ Cardinality(acknowledgements[i]) \in Nat
          /\ Quorum \in Nat /\ Tolerated \in Nat /\ Tolerated < Quorum
      BY <3>1, <3>2, <3>3, <3>5, VoterCounts
    <3>7. Cardinality(copies) + Cardinality(DiskLosses) >= Quorum
      BY <3>4, <3>6
    <3>8. ASSUME Cardinality(DiskLosses) <= Tolerated, copies = {}
          PROVE  FALSE
      <4>1. Cardinality(copies) = 0
        BY <3>8, FS_EmptySet
      <4> QED BY <3>6, <3>7, <3>8, <4>1
    <3> QED BY <3>7, <3>8 DEF copies
  <2> QED BY <2>2, <2>3, <2>4 DEF VerifySafety
<1> QED BY <1>1, SafetyInductive, PTL
=============================================================================
