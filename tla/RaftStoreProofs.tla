--------------------------- MODULE RaftStoreProofs ---------------------------
(***************************************************************************)
(* What VyrmRaftStore keeps through every crash, repeated application,     *)
(* truncation, purge and installed snapshot, for any agreed log, any       *)
(* bounds and any retention window.                                        *)
(*                                                                         *)
(* First the two databases of a node: the state is a replay of the agreed  *)
(* log, and the log reaches from the state to the commit cursor.  Then the *)
(* replay itself, by induction along the log: no state is reached in which *)
(* a request took effect twice within the window, or work was accepted     *)
(* under a placement whose voters had changed.                             *)
(***************************************************************************)
EXTENDS RaftStore, WellFoundedInduction, TLAPS

\* The fields of StateMachineData.
Fields == DOMAIN InitialState

\* An entry that is the agreed one lies behind agreed ones only.
Matched ==
    \A i, j \in DOMAIN log : j < i /\ log[i] = history[i] => log[j] = history[j]

\* A snapshot, also one that is being built or installed, is the agreed state at its
\* index, and the node's state is at least as far.
Covered(s) ==
    s # NoSnapshot =>
        /\ s.last_log_id \in 0..state.last_applied
        /\ s.state = Agreed(s.last_log_id)

Located ==
    /\ history \in Histories
    /\ DOMAIN log \subseteq DOMAIN history
    /\ committed \in 0..Len(history) /\ purged \in 0..Len(history)
    /\ state.last_applied \in 0..Len(history)
    /\ vote \in 0..MaxTerm /\ up \in BOOLEAN

\* What is below the purge cursor is not in the log.
NodeInv ==
    /\ Located
    /\ Matched
    /\ state = Agreed(state.last_applied)
    /\ Covered(snapshot) /\ Covered(building) /\ Covered(installing)
    /\ ReapplyPossible

(***************************************************************************)
(* Least elements, and with them induction along a log.                    *)
(***************************************************************************)

\* A set of natural numbers has a least element.
LEMMA Least ==
    ASSUME NEW T \in SUBSET Nat, T # {}
    PROVE  \E x \in T : \A y \in T : x <= y
<1> DEFINE R == {ss \in Nat \X Nat : ss[1] < ss[2]}
<1>1. IsWellFoundedOn(R, Nat)
  BY NatLessThanWellFounded DEF OpToRel
<1> HIDE DEF R
<1>2. PICK x \in T : \A y \in T : ~(<<y, x>> \in R)
  BY <1>1, WFMin
<1>3. ASSUME NEW y \in T
      PROVE  x <= y
  <2>1. <<y, x>> \notin R
    BY <1>2
  <2>2. y \in Nat /\ x \in Nat
    OBVIOUS
  <2> QED BY <2>1, <2>2 DEF R
<1> QED BY <1>3

\* Induction: a set that holds 0 and with each number below n the next one holds all up to n.
LEMMA Induction ==
    ASSUME NEW n \in Nat, NEW G, 0 \in G, \A k \in 1..n : k - 1 \in G => k \in G
    PROVE  \A k \in 0..n : k \in G
<1> DEFINE T == {k \in 0..n : k \notin G}
<1> SUFFICES ASSUME T # {}
             PROVE  FALSE
  OBVIOUS
<1>1. PICK x \in T : \A y \in T : x <= y
  <2>1. T \in SUBSET Nat
    OBVIOUS
  <2> HIDE DEF T
  <2> QED BY <2>1, Least
<1>2. x \in 1..n /\ x - 1 \in 0..n /\ x - 1 < x
  OBVIOUS
<1>3. x - 1 \in G
  BY <1>1, <1>2
<1> QED BY <1>2, <1>3

\* A set of positions of a log has a last one.
LEMMA Largest ==
    ASSUME NEW n \in Nat, NEW D, D \subseteq 1..n, D # {}
    PROVE  LET m == CHOOSE i \in D : \A j \in D : j <= i
           IN  m \in D /\ \A j \in D : j <= m
<1> DEFINE T == {n - i : i \in D}
<1>1. T \in SUBSET Nat /\ T # {}
  <2>1. \A i \in D : n - i \in Nat
    OBVIOUS
  <2>2. \E i \in D : n - i \in T
    OBVIOUS
  <2> QED BY <2>1, <2>2
<1> HIDE DEF T
<1>2. PICK x \in T : \A y \in T : x <= y
  BY <1>1, Least
<1>3. PICK i \in D : x = n - i
  BY DEF T
<1>4. ASSUME NEW j \in D
      PROVE  j <= i
  <2>1. n - j \in T
    BY DEF T
  <2>2. n - i <= n - j
    BY <1>2, <1>3, <2>1
  <2> QED BY <2>2
<1> QED BY <1>4

(***************************************************************************)
(* The replay.                                                             *)
(***************************************************************************)

\* Applying an entry keeps the shape of the state and moves last_applied to its index.
LEMMA ApplyEntryShape ==
    ASSUME NEW s, DOMAIN s = Fields, NEW i, NEW e, WellFormed(e.payload)
    PROVE  DOMAIN ApplyEntry(s, i, e) = Fields /\ ApplyEntry(s, i, e).last_applied = i
<1>1. ASSUME NEW b
      PROVE  DOMAIN ApplyMembership(s, b) = Fields
  BY DEF Fields, InitialState, ApplyMembership
<1>2. ASSUME NEW term, NEW c
      PROVE  DOMAIN ApplyCommand(s, i, term, c) = Fields
  BY DEF Fields, InitialState, ApplyCommand, AfterOperation
<1>3. ASSUME NEW t, DOMAIN t = Fields
      PROVE  LET u == PruneRequestHistory([t EXCEPT !.last_applied = i], i)
             IN  DOMAIN u = Fields /\ u.last_applied = i
  BY <1>3 DEF Fields, InitialState, PruneRequestHistory
<1> DEFINE t == CASE e.payload.kind = "blank" -> s
                  [] e.payload.kind = "membership" -> ApplyMembership(s, e.payload.binding)
                  [] e.payload.kind = "normal" -> ApplyCommand(s, i, e.term, e.payload.command)
<1>4. DOMAIN t = Fields
  BY <1>1, <1>2 DEF WellFormed
<1>5. ApplyEntry(s, i, e) = PruneRequestHistory([t EXCEPT !.last_applied = i], i)
  BY DEF ApplyEntry
<1> HIDE DEF t
<1> QED BY <1>3, <1>4, <1>5

\* What a step of the replay is, with the entry's handling left closed.
ReplayStep(f, h, n) == IF n = 0 THEN InitialState ELSE ApplyEntry(f[n - 1], n, h[n])

\* The recursion that defines Replay has a solution.
LEMMA ReplayExists ==
    ASSUME NEW h, NEW n \in Nat
    PROVE  \E f : f = [k \in 0..n |-> ReplayStep(f, h, k)]
<1> DEFINE G == {k \in Nat : \E f : f = [j \in 0..k |-> ReplayStep(f, h, j)]}
<1>1. 0 \in G
  <2> DEFINE f == [j \in 0..0 |-> InitialState]
  <2>1. f = [j \in 0..0 |-> ReplayStep(f, h, j)]
    BY DEF ReplayStep
  <2> QED BY <2>1
<1>2. ASSUME NEW k \in 1..n, k - 1 \in G
      PROVE  k \in G
  <2>1. PICK f : f = [j \in 0..(k - 1) |-> ReplayStep(f, h, j)]
    BY <1>2
  <2> DEFINE g == [j \in 0..k |-> IF j = k THEN ApplyEntry(f[k - 1], k, h[k]) ELSE f[j]]
  <2>2. ASSUME NEW j \in 0..k
        PROVE  g[j] = ReplayStep(g, h, j)
    <3>1. CASE j = k
      BY <3>1 DEF ReplayStep
    <3>2. CASE j # k
      <4>1. j \in 0..(k - 1) /\ (j # 0 => j - 1 \in 0..(k - 1))
        BY <3>2
      <4>2. g[j] = f[j] /\ (j # 0 => g[j - 1] = f[j - 1])
        BY <3>2, <4>1
      <4>3. f[j] = ReplayStep(f, h, j)
        BY <2>1, <4>1
      <4> HIDE DEF g
      <4> QED BY <4>2, <4>3 DEF ReplayStep
    <3> QED BY <3>1, <3>2
  <2>3. g = [j \in 0..k |-> g[j]]
    OBVIOUS
  <2> HIDE DEF g
  <2>4. g = [j \in 0..k |-> ReplayStep(g, h, j)]
    BY <2>2, <2>3
  <2> QED BY <2>4
<1>3. n \in G
  <2> HIDE DEF G
  <2> QED BY <1>1, <1>2, Induction
<1> QED BY <1>3

\* Replay starts at InitialState and applies one entry after the other.
LEMMA ReplayUnfolds ==
    ASSUME NEW h, Len(h) \in Nat
    PROVE  /\ Replay(h)[0] = InitialState
           /\ \A n \in 1..Len(h) : Replay(h)[n] = ApplyEntry(Replay(h)[n - 1], n, h[n])
<1>1. Replay(h) = CHOOSE f : f = [n \in 0..Len(h) |-> ReplayStep(f, h, n)]
  BY DEF Replay, ReplayStep
<1>2. Replay(h) = [n \in 0..Len(h) |-> ReplayStep(Replay(h), h, n)]
  BY <1>1, ReplayExists
<1>3. \A n \in 0..Len(h) : Replay(h)[n] = ReplayStep(Replay(h), h, n)
  BY <1>2
<1> QED BY <1>3 DEF ReplayStep

\* What an agreed log is.
LEMMA HistoryShape ==
    ASSUME NEW h \in Histories
    PROVE  /\ Len(h) \in 0..MaxIndex /\ DOMAIN h = 1..Len(h)
           /\ \A i \in 1..Len(h) : h[i].term \in Nat /\ WellFormed(h[i].payload)
<1>1. h \in Seq({h[i] : i \in DOMAIN h}) /\ Len(h) <= MaxIndex
  BY HistoriesAssumption
<1>2. Len(h) \in Nat /\ DOMAIN h = 1..Len(h)
  BY <1>1
<1> QED BY <1>1, <1>2, HistoriesAssumption, BoundsAssumption

\* After k entries the replay has applied k entries.
LEMMA ReplayShape ==
    ASSUME NEW h \in Histories
    PROVE  \A k \in 0..Len(h) : DOMAIN Replay(h)[k] = Fields /\ Replay(h)[k].last_applied = k
<1> DEFINE G == {k \in Nat : DOMAIN Replay(h)[k] = Fields /\ Replay(h)[k].last_applied = k}
<1>1. Len(h) \in Nat
  BY HistoryShape
<1>2. 0 \in G
  BY <1>1, ReplayUnfolds DEF InitialState, Fields
<1>3. ASSUME NEW k \in 1..Len(h), k - 1 \in G
      PROVE  k \in G
  <2>1. Replay(h)[k] = ApplyEntry(Replay(h)[k - 1], k, h[k])
    BY <1>1, ReplayUnfolds
  <2>2. DOMAIN Replay(h)[k - 1] = Fields /\ WellFormed(h[k].payload)
    BY <1>3, HistoryShape
  <2> QED BY <1>1, <2>1, <2>2, ApplyEntryShape
<1>4. \A k \in 0..Len(h) : k \in G
  <2> HIDE DEF G
  <2> QED BY <1>1, <1>2, <1>3, Induction
<1> QED BY <1>4

(***************************************************************************)
(* The two databases of a node.                                            *)
(***************************************************************************)

\* The agreed log of a state, the end of the node's log, and the agreed states.
LEMMA NodeFacts ==
    ASSUME NodeInv
    PROVE  /\ Len(history) \in 0..MaxIndex /\ DOMAIN history = 1..Len(history)
           /\ \A i \in 1..Len(history) : history[i].term \in Nat /\ WellFormed(history[i].payload)
           /\ DOMAIN log \subseteq 1..Len(history)
           /\ \A k \in 0..Len(history) : Agreed(k).last_applied = k
           /\ \A k \in 1..Len(history) : Agreed(k) = ApplyEntry(Agreed(k - 1), k, history[k])
           /\ IF DOMAIN log = {} THEN LastLogIndex = purged
                                 ELSE LastLogIndex \in DOMAIN log /\ \A j \in DOMAIN log : j <= LastLogIndex
           /\ LastLogIndex \in 0..Len(history)
<1>1. history \in Histories
  BY DEF NodeInv, Located
<1>2. /\ Len(history) \in 0..MaxIndex /\ DOMAIN history = 1..Len(history)
      /\ \A i \in 1..Len(history) : history[i].term \in Nat /\ WellFormed(history[i].payload)
  BY <1>1, HistoryShape
<1>3. DOMAIN log \subseteq 1..Len(history)
  BY <1>2 DEF NodeInv, Located
<1>4. Len(history) \in Nat
  BY <1>2
<1>5. \A k \in 0..Len(history) : Agreed(k).last_applied = k
  BY <1>1, ReplayShape DEF Agreed
<1>6. \A k \in 1..Len(history) : Agreed(k) = ApplyEntry(Agreed(k - 1), k, history[k])
  BY <1>4, ReplayUnfolds DEF Agreed
<1>7. IF DOMAIN log = {} THEN LastLogIndex = purged
                         ELSE LastLogIndex \in DOMAIN log /\ \A j \in DOMAIN log : j <= LastLogIndex
  BY <1>3, <1>4, Largest DEF LastLogIndex
<1>8. LastLogIndex \in 0..Len(history)
  BY <1>3, <1>4, <1>7 DEF NodeInv, Located
<1> QED BY <1>2, <1>3, <1>5, <1>6, <1>7, <1>8

\* The end of the log in the next state.
LEMMA NextLastLog ==
    ASSUME NEW n \in Nat, DOMAIN log' \subseteq 1..n
    PROVE  IF DOMAIN log' = {} THEN LastLogIndex' = purged'
                               ELSE LastLogIndex' \in DOMAIN log' /\ \A j \in DOMAIN log' : j <= LastLogIndex'
  BY Largest DEF LastLogIndex

\* append puts entries behind the log: agreed ones onto an agreed log only.
LEMMA AppendEntriesStep ==
    ASSUME NodeInv, NEW n \in Nat \ {0}, NEW fork \in Nat, AppendEntries(n, fork)
    PROVE  NodeInv'
<1> DEFINE first == LastLogIndex + 1
           batch == first..(LastLogIndex + n)
           entry(i) == IF i < fork THEN history[i] ELSE Stale(i)
<1>1. /\ ~LogLags /\ batch \subseteq DOMAIN history /\ fork \in first..(first + n)
      /\ (Diverged => fork = first)
      /\ log' = [i \in DOMAIN log \cup batch |-> IF i \in batch THEN entry(i) ELSE log[i]]
      /\ UNCHANGED <<history, vote, committed, purged, snapshot, state, building, installing, up>>
  BY DEF AppendEntries
<1>2. /\ Len(history) \in Nat /\ DOMAIN history = 1..Len(history)
      /\ LastLogIndex \in Nat /\ state.last_applied \in Nat /\ purged \in Nat
      /\ DOMAIN log \subseteq 1..Len(history)
      /\ \A j \in DOMAIN log : j \in Nat /\ j <= LastLogIndex
  <2>1. IF DOMAIN log = {} THEN LastLogIndex = purged
                           ELSE LastLogIndex \in DOMAIN log /\ \A j \in DOMAIN log : j <= LastLogIndex
    BY NodeFacts
  <2> QED BY <2>1, NodeFacts DEF NodeInv, Located
<1>3. /\ DOMAIN log' = DOMAIN log \cup batch
      /\ \A j \in DOMAIN log : j \notin batch /\ log'[j] = log[j]
      /\ \A j \in batch : j \in Nat /\ j \notin DOMAIN log /\ log'[j] = entry(j)
  BY <1>1, <1>2
<1>4. \A j \in batch : j < fork => log'[j] = history[j] /\ ~Diverged
  BY <1>1, <1>2, <1>3
<1>5. ASSUME NEW j \in batch, j >= fork
      PROVE  log'[j] # history[j]
  <2>1. log'[j] = Stale(j) /\ j \in DOMAIN history
    BY <1>1, <1>2, <1>3, <1>5
  <2>2. history[j].term \in Nat
    BY <1>2, <2>1, NodeFacts
  <2>3. Stale(j).term = history[j].term - 1
    BY DEF Stale
  <2> QED BY <2>1, <2>2, <2>3
<1>6. Matched'
  <2> SUFFICES ASSUME NEW i \in DOMAIN log', NEW j \in DOMAIN log', j < i, log'[i] = history[i]
               PROVE  log'[j] = history[j]
    BY <1>1 DEF Matched
  <2>1. CASE i \in DOMAIN log
    <3>1. j \in DOMAIN log
      BY <1>2, <1>3, <2>1
    <3> QED BY <1>3, <2>1, <3>1 DEF NodeInv, Matched
  <2>2. CASE i \in batch
    <3>1. i < fork /\ ~Diverged
      <4>1. i \in Nat
        BY <1>3, <2>2
      <4>2. ~(i >= fork)
        BY <1>1, <1>5, <2>2
      <4>3. i < fork
        BY <4>1, <4>2
      <4> HIDE DEF batch
      <4> QED BY <1>4, <2>2, <4>3
    <3>2. CASE j \in batch
      <4>1. i \in Nat /\ j \in Nat
        BY <1>3, <2>2, <3>2
      <4>2. j < fork
        BY <3>1, <4>1
      <4> HIDE DEF batch
      <4> QED BY <1>4, <3>2, <4>2
    <3>3. CASE j \in DOMAIN log
      BY <1>3, <3>1, <3>3 DEF Diverged
    <3> QED BY <1>3, <3>2, <3>3
  <2> QED BY <1>3, <2>1, <2>2
<1>7. Located'
  BY <1>1, <1>2, <1>3 DEF NodeInv, Located
<1>8. LastLogIndex' = LastLogIndex + n
  <2>1. DOMAIN log' \subseteq 1..Len(history)
    BY <1>1, <1>2, <1>3
  <2>2. LastLogIndex + n \in DOMAIN log' /\ \A j \in DOMAIN log' : j <= LastLogIndex + n
    BY <1>2, <1>3
  <2>3. LastLogIndex' \in DOMAIN log' /\ \A j \in DOMAIN log' : j <= LastLogIndex'
    BY <1>2, <2>1, <2>2, NextLastLog
  <2> QED BY <1>2, <2>1, <2>2, <2>3
<1>9. ReapplyPossible'
  <2>1. purged' <= state'.last_applied
    BY <1>1 DEF NodeInv, ReapplyPossible
  <2>2. \A i \in (state.last_applied + 1)..committed : i \in DOMAIN log' /\ log'[i] = history[i]
    BY <1>3 DEF NodeInv, ReapplyPossible
  <2>3. ASSUME NEW i \in (state.last_applied + 1)..(LastLogIndex + n)
        PROVE  i \in DOMAIN log'
    <3>1. i \in (state.last_applied + 1)..LastLogIndex \/ i \in batch
      BY <1>2
    <3> QED BY <1>3, <3>1 DEF NodeInv, ReapplyPossible
  <2> QED BY <1>1, <1>8, <2>1, <2>2, <2>3 DEF ReapplyPossible
<1> QED BY <1>1, <1>6, <1>7, <1>9 DEF NodeInv, Covered, Agreed

\* Deleting entries that no restart needs, from the end (truncate) or from the beginning
\* (purge), leaves what a restart applies again.
LEMMA Shortened ==
    ASSUME NodeInv, NEW K, K \subseteq DOMAIN log, log' = [j \in K |-> log[j]],
           \A j \in DOMAIN log : j \in K \/ j <= state.last_applied \/ \A k \in K : k < j,
           \A j \in DOMAIN log : j \in (state.last_applied + 1)..committed => j \in K,
           purged' \in 0..state.last_applied,
           UNCHANGED <<history, vote, committed, snapshot, state, building, installing, up>>
    PROVE  NodeInv'
<1>1. /\ Len(history) \in Nat /\ DOMAIN log \subseteq 1..Len(history)
      /\ state.last_applied \in 0..Len(history) /\ LastLogIndex \in Nat
      /\ \A j \in DOMAIN log : j \in Nat /\ j <= LastLogIndex
  <2>1. IF DOMAIN log = {} THEN LastLogIndex = purged
                           ELSE LastLogIndex \in DOMAIN log /\ \A j \in DOMAIN log : j <= LastLogIndex
    BY NodeFacts
  <2> QED BY <2>1, NodeFacts DEF NodeInv, Located
<1>2. DOMAIN log' = K /\ \A j \in K : log'[j] = log[j]
  OBVIOUS
<1>3. Located'
  BY <1>1, <1>2 DEF NodeInv, Located
<1>4. Matched'
  BY <1>2 DEF NodeInv, Matched
<1>5. ASSUME NEW i \in (state.last_applied + 1)..LastLogIndex'
      PROVE  i \in K
  <2>1. IF K = {} THEN LastLogIndex' = purged'
                  ELSE LastLogIndex' \in K /\ \A j \in K : j <= LastLogIndex'
    BY <1>1, <1>2, NextLastLog
  <2>2. K # {} /\ LastLogIndex' \in K
    BY <1>1, <2>1
  <2>3. i \in (state.last_applied + 1)..LastLogIndex /\ i <= LastLogIndex' /\ LastLogIndex' \in Nat
    BY <1>1, <2>2
  <2>4. i \in DOMAIN log
    BY <2>3 DEF NodeInv, ReapplyPossible
  <2> QED BY <1>1, <2>2, <2>3, <2>4
<1>6. ReapplyPossible'
  <2>1. \A i \in (state.last_applied + 1)..committed : i \in K /\ log'[i] = history[i]
    BY <1>2 DEF NodeInv, ReapplyPossible
  <2>2. purged' <= state'.last_applied
    BY <1>1
  <2> QED BY <1>2, <1>5, <2>1, <2>2 DEF ReapplyPossible
<1> QED BY <1>3, <1>4, <1>6 DEF NodeInv, Covered, Agreed

\* truncate touches nothing committed or applied.
LEMMA TruncateStep ==
    ASSUME NodeInv, NEW i, Truncate(i)
    PROVE  NodeInv'
<1>1. /\ i \in DOMAIN log /\ i > Larger(committed, state.last_applied)
      /\ log' = [j \in KeptBelow(i) |-> log[j]] /\ UNCHANGED purged
      /\ UNCHANGED <<history, vote, committed, snapshot, state, building, installing, up>>
  BY DEF Truncate
<1>2. /\ DOMAIN log \subseteq Nat /\ state.last_applied \in Nat /\ committed \in Nat
      /\ purged \in 0..state.last_applied
  BY NodeFacts DEF NodeInv, Located, ReapplyPossible
<1>3. i > committed /\ i > state.last_applied
  BY <1>1, <1>2 DEF Larger
<1>4. /\ KeptBelow(i) \subseteq DOMAIN log
      /\ \A j \in DOMAIN log : j \in KeptBelow(i) \/ \A k \in KeptBelow(i) : k < j
      /\ \A j \in DOMAIN log : j \in (state.last_applied + 1)..committed => j \in KeptBelow(i)
  BY <1>1, <1>2, <1>3 DEF KeptBelow
<1> QED BY <1>1, <1>2, <1>4, Shortened

\* purge deletes what the state has applied.
LEMMA PurgeToStep ==
    ASSUME NodeInv, NEW i \in 0..state.last_applied, PurgeTo(i)
    PROVE  NodeInv'
<1> DEFINE K == {k \in DOMAIN log : k > i}
<1>1. /\ log' = [j \in K |-> log[j]] /\ purged' = i
      /\ UNCHANGED <<history, vote, committed, snapshot, state, building, installing, up>>
  BY DEF PurgeTo
<1>2. /\ DOMAIN log \subseteq Nat /\ state.last_applied \in Nat /\ committed \in Nat
  BY NodeFacts DEF NodeInv, Located
<1>3. /\ K \subseteq DOMAIN log
      /\ \A j \in DOMAIN log : j \in K \/ j <= state.last_applied
      /\ \A j \in DOMAIN log : j \in (state.last_applied + 1)..committed => j \in K
  BY <1>2
<1> HIDE DEF K
<1> QED BY <1>1, <1>3, Shortened

\* save_committed moves the cursor to an agreed entry, behind which the log is agreed.
LEMMA SaveCommittedStep ==
    ASSUME NodeInv, NEW i, SaveCommitted(i)
    PROVE  NodeInv'
<1>1. /\ i \in DOMAIN log /\ log[i] = history[i] /\ i > state.last_applied /\ committed' = i
      /\ UNCHANGED <<history, vote, log, purged, snapshot, state, building, installing, up>>
  BY DEF SaveCommitted
<1>2. /\ DOMAIN log \subseteq 1..Len(history) /\ Len(history) \in Nat /\ state.last_applied \in Nat
      /\ i <= LastLogIndex /\ LastLogIndex \in Nat
  BY <1>1, NodeFacts DEF NodeInv, Located
<1>3. ASSUME NEW j \in (state.last_applied + 1)..i
      PROVE  j \in DOMAIN log /\ log[j] = history[j]
  <2>1. j \in (state.last_applied + 1)..LastLogIndex
    BY <1>1, <1>2
  <2>2. j \in DOMAIN log
    BY <2>1 DEF NodeInv, ReapplyPossible
  <2>3. j = i \/ j < i
    BY <1>1, <1>2
  <2> QED BY <1>1, <2>2, <2>3 DEF NodeInv, Matched
<1>4. ReapplyPossible'
  BY <1>1, <1>3 DEF NodeInv, ReapplyPossible, LastLogIndex
<1>5. Located' /\ Matched'
  BY <1>1, <1>2 DEF NodeInv, Located, Matched
<1> QED BY <1>1, <1>4, <1>5 DEF NodeInv, Covered, Agreed

\* A state further along the agreed log, whether entries were applied or a snapshot
\* installed.
LEMMA Advanced ==
    ASSUME NodeInv, NEW k \in DOMAIN history, k > state.last_applied, state' = Agreed(k),
           UNCHANGED <<history, vote, log, committed, purged, snapshot, building, up>>,
           UNCHANGED installing \/ installing' = Bundle(Agreed(k))
    PROVE  NodeInv'
<1>1. /\ k \in 1..Len(history) /\ Len(history) \in Nat /\ state.last_applied \in Nat
      /\ purged \in Nat /\ committed \in Nat /\ LastLogIndex \in Nat
      /\ state'.last_applied = k /\ Agreed(k).last_applied = k
  BY NodeFacts DEF NodeInv, Located
<1>2. Located' /\ Matched'
  BY <1>1 DEF NodeInv, Located, Matched
<1>3. (state = Agreed(state.last_applied))'
  BY <1>1 DEF Agreed
<1>4. ASSUME NEW s, Covered(s)
      PROVE  s # NoSnapshot => s.last_log_id \in 0..k /\ s.state = Agreed(s.last_log_id)
  BY <1>1, <1>4 DEF Covered
<1>5. Covered(snapshot)' /\ Covered(building)'
  BY <1>1, <1>4 DEF NodeInv, Covered, Agreed
<1>6. Covered(installing)'
  <2>1. CASE UNCHANGED installing
    BY <1>1, <1>4, <2>1 DEF NodeInv, Covered, Agreed
  <2>2. CASE installing' = Bundle(Agreed(k))
    <3>1. installing'.last_log_id = k /\ installing'.state = Agreed(k)
      BY <1>1, <2>2 DEF Bundle
    <3> QED BY <1>1, <3>1 DEF Covered, Agreed
  <2> QED BY <2>1, <2>2
<1>7. ReapplyPossible'
  <2>1. LastLogIndex' = LastLogIndex
    BY DEF LastLogIndex
  <2>2. /\ purged <= k
        /\ \A i \in (k + 1)..committed : i \in (state.last_applied + 1)..committed
        /\ \A i \in (k + 1)..LastLogIndex : i \in (state.last_applied + 1)..LastLogIndex
    BY <1>1 DEF NodeInv, ReapplyPossible
  <2> QED BY <1>1, <2>1, <2>2 DEF NodeInv, ReapplyPossible
<1> QED BY <1>2, <1>3, <1>5, <1>6, <1>7 DEF NodeInv

\* apply takes the next entry of the log, which is the agreed one.
LEMMA ApplyStep ==
    ASSUME NodeInv, Apply
    PROVE  NodeInv'
<1> DEFINE i == state.last_applied + 1
<1>1. /\ i <= committed /\ i \in DOMAIN log /\ state' = ApplyEntry(state, i, log[i])
      /\ UNCHANGED <<history, vote, log, committed, purged, snapshot, building, installing, up>>
  BY DEF Apply
<1>2. /\ i \in 1..Len(history) /\ i - 1 = state.last_applied /\ DOMAIN history = 1..Len(history)
      /\ state.last_applied \in Nat /\ committed \in Nat
  BY <1>1, NodeFacts DEF NodeInv, Located
<1>3. log[i] = history[i]
  BY <1>1, <1>2 DEF NodeInv, ReapplyPossible
<1>4. state' = Agreed(i)
  <2>1. Agreed(i) = ApplyEntry(Agreed(i - 1), i, history[i])
    BY <1>2, NodeFacts
  <2> QED BY <1>1, <1>2, <1>3, <2>1 DEF NodeInv
<1>5. i > state.last_applied
  BY <1>2
<1> HIDE DEF i
<1> QED BY <1>1, <1>2, <1>4, <1>5, Advanced

\* install_snapshot replaces the state by a later one of the agreed log.
LEMMA InstallStateStep ==
    ASSUME NodeInv, NEW k, InstallState(k)
    PROVE  NodeInv'
<1>1. /\ k \in DOMAIN history /\ k > Larger(committed, state.last_applied)
      /\ state' = Agreed(k) /\ installing' = Bundle(Agreed(k))
      /\ UNCHANGED <<history, vote, log, committed, purged, snapshot, building, up>>
  BY DEF InstallState, Installed
<1>2. k > state.last_applied
  BY <1>1, NodeFacts DEF Larger, NodeInv, Located
<1> QED BY <1>1, <1>2, Advanced

\* Building, publishing, voting and the end or the start of the process move snapshots
\* about and change neither the log nor the state.
LEMMA SnapshotStep ==
    ASSUME NodeInv,
           \/ BuildExport \/ BuildPublish \/ InstallPublish \/ Crash \/ Open
           \/ \E v \in 1..MaxTerm : SaveVote(v)
    PROVE  NodeInv'
<1>1. /\ UNCHANGED <<history, log, committed, purged, state>>
      /\ vote' \in 0..MaxTerm /\ up' \in BOOLEAN
  <2>1. UNCHANGED <<history, log, committed, purged, state>>
    BY DEF BuildExport, BuildPublish, InstallPublish, Crash, Open, SaveVote
  <2>2. vote' = vote \/ vote' \in 1..MaxTerm
    BY DEF BuildExport, BuildPublish, InstallPublish, Crash, Open, SaveVote
  <2>3. up' \in BOOLEAN
    BY DEF BuildExport, BuildPublish, InstallPublish, Crash, Open, SaveVote, NodeInv, Located
  <2>4. vote' \in 0..MaxTerm
    BY <2>2, BoundsAssumption DEF NodeInv, Located
  <2> QED BY <2>1, <2>3, <2>4
<1>2. snapshot' \in {snapshot, building, installing}
  BY DEF BuildExport, BuildPublish, InstallPublish, Crash, Open, SaveVote
<1>3. building' \in {building, NoSnapshot, Bundle(state)}
  BY DEF BuildExport, BuildPublish, InstallPublish, Crash, Open, SaveVote
<1>4. installing' \in {installing, NoSnapshot}
  BY DEF BuildExport, BuildPublish, InstallPublish, Crash, Open, SaveVote
<1>5. Covered(Bundle(state)) /\ Covered(NoSnapshot)
  <2>1. /\ Bundle(state).last_log_id = state.last_applied /\ Bundle(state).state = state
        /\ state.last_applied \in 0..state.last_applied /\ state = Agreed(state.last_applied)
    BY NodeFacts DEF Bundle, NodeInv, Located
  <2> QED BY <2>1 DEF Covered
<1>6. ASSUME NEW s, Covered(s)
      PROVE  Covered(s)'
  BY <1>1, <1>6 DEF Covered, Agreed
<1>7. Covered(snapshot)' /\ Covered(building)' /\ Covered(installing)'
  BY <1>1, <1>2, <1>3, <1>4, <1>5 DEF NodeInv, Covered, Agreed
<1>8. Located' /\ Matched' /\ ReapplyPossible' /\ (state = Agreed(state.last_applied))'
  BY <1>1 DEF NodeInv, Located, Matched, ReapplyPossible, LastLogIndex, Agreed
<1> QED BY <1>7, <1>8 DEF NodeInv

\* NodeInv holds at first and every call keeps it.
LEMMA NodeInvInductive == Spec => []NodeInv
<1>1. ASSUME Init
      PROVE  NodeInv
  <2>1. /\ Len(history) \in Nat /\ Agreed(0) = InitialState /\ state.last_applied = 0
        /\ DOMAIN log = {} /\ history \in Histories
    <3>1. Len(history) \in Nat
      BY <1>1, HistoryShape DEF Init
    <3> QED BY <1>1, <3>1, ReplayUnfolds DEF Init, InitialState, Agreed
  <2>2. Located /\ Matched
    BY <1>1, <2>1, BoundsAssumption DEF Init, Located, Matched
  <2>3. ReapplyPossible
    BY <1>1, <2>1 DEF Init, ReapplyPossible, LastLogIndex
  <2> QED BY <1>1, <2>1, <2>2, <2>3 DEF Init, NodeInv, Covered
<1>2. ASSUME NodeInv, UNCHANGED vars
      PROVE  NodeInv'
  BY <1>2 DEF vars, NodeInv, Located, Matched, Covered, Agreed, ReapplyPossible, LastLogIndex
<1>3. ASSUME NodeInv, Next
      PROVE  NodeInv'
  <2>1. ASSUME NEW n \in 1..MaxBatch, NEW fork \in 1..(MaxIndex + 1), AppendEntries(n, fork)
        PROVE  NodeInv'
    BY <1>3, <2>1, AppendEntriesStep, BoundsAssumption
  <2>2. ASSUME NEW i \in Index, Purge(i)
        PROVE  NodeInv'
    <3>1. i \in 0..state.last_applied /\ PurgeTo(i)
      BY <1>3, <2>2, BoundsAssumption, NodeFacts DEF Purge, NodeInv, Covered, Index, Located
    <3> QED BY <1>3, <3>1, PurgeToStep
  <2>3. CASE PurgeLagging
    <3>1. state.last_applied \in 0..state.last_applied /\ PurgeTo(state.last_applied)
      BY <1>3, <2>3, NodeFacts DEF PurgeLagging, NodeInv, Located
    <3> QED BY <1>3, <3>1, PurgeToStep
  <2> QED BY <1>3, <2>1, <2>2, <2>3, TruncateStep, SaveCommittedStep, InstallStateStep, ApplyStep,
             SnapshotStep DEF Next
<1> QED BY <1>1, <1>2, <1>3, PTL DEF Spec

\* Whatever crashes, repeated applications and installed snapshots led to it, the state of
\* a node is the replay of the agreed log up to last_applied, and its cached snapshot the
\* replay up to the index in its metadata (apply, install_snapshot, build_snapshot).
THEOREM StateReplays == Spec => []StateIsReplay
<1>1. NodeInv => StateIsReplay
  BY DEF NodeInv, StateIsReplay, Covered
<1> QED BY <1>1, NodeInvInductive, PTL

\* After a crash anywhere, what was purged is in the state and what has to be applied
\* again is in the log and agreed (truncate, purge, append, install_snapshot).
THEOREM ReapplyWorks == Spec => []ReapplyPossible
<1>1. NodeInv => ReapplyPossible
  BY DEF NodeInv
<1> QED BY <1>1, NodeInvInductive, PTL

\* The cursors, votes and snapshots of a node keep their types.
THEOREM RaftStoreTypes == Spec => []TypeOK
<1>1. ASSUME NodeInv
      PROVE  TypeOK
  <2>1. /\ \A i \in 0..Len(history) : i \in 0..MaxIndex
        /\ \A i \in 1..Len(history) : i \in 1..MaxIndex
    BY <1>1, NodeFacts, BoundsAssumption
  <2>2. \A i \in 0..state.last_applied : i \in 0..MaxIndex
    BY <1>1, NodeFacts, BoundsAssumption DEF NodeInv, Located
  <2>3. \A s : Covered(s) => SnapshotOK(s)
    BY <2>2 DEF Covered, SnapshotOK
  <2>4. DOMAIN log \subseteq Index
    BY <1>1, <2>1, NodeFacts DEF Index
  <2> QED BY <1>1, <2>1, <2>3, <2>4 DEF NodeInv, Located, TypeOK
<1> QED BY <1>1, NodeInvInductive, PTL

(***************************************************************************)
(* What every replayed state satisfies: ReplayOK(s, k) for the state s     *)
(* after k entries.  chain is its state_digest, requests its request       *)
(* history.                                                                *)
(***************************************************************************)

ChainEntry(i) ==
    [term |-> history[i].term, index |-> i, operation |-> history[i].payload.command.operation]

IsChain(chain, k) ==
    /\ chain \in Seq({ChainEntry(i) : i \in DOMAIN history})
    /\ \A a \in 1..Len(chain) : chain[a].index \in 1..k

\* A remembered request lies in the window and tells what happened to it.
Truthful(chain, requests, k) ==
    \A r \in DOMAIN requests :
        /\ requests[r].first_applied_index \in 1..k
        /\ requests[r].first_applied_index + Retention > k
        /\ RequestAt(requests[r].first_applied_index) = r
        /\ requests[r].accepted
             <=> \E a \in 1..Len(chain) : chain[a].index = requests[r].first_applied_index

\* What took effect within the window is remembered.
Remembered(chain, requests, k) ==
    \A a \in 1..Len(chain) :
        chain[a].index + Retention > k =>
            /\ RequestAt(chain[a].index) \in DOMAIN requests
            /\ requests[RequestAt(chain[a].index)].first_applied_index = chain[a].index

Spaced(chain) ==
    \A a, b \in 1..Len(chain) :
        a < b /\ RequestAt(chain[a].index) = RequestAt(chain[b].index)
          => chain[b].index - chain[a].index > Retention

RequestsOK(chain, requests, k) ==
    Truthful(chain, requests, k) /\ Remembered(chain, requests, k) /\ Spaced(chain)

\* Transition t of the chain is the last of its first n operations.
LastTransition(chain, t, n) ==
    /\ t \in 1..n /\ chain[t].operation.kind = "transition"
    /\ \A j \in (t + 1)..n : chain[j].operation.kind # "transition"

\* The placement is that of the last transition, and as long as the generation of the
\* voters is the one it was accepted in, they were in force ever since.
PlacementOK(s, k) ==
    /\ s.last_membership = VotersAt(k)
    /\ s.voter_generation \in Nat /\ s.placement.epoch \in Nat
    /\ s.placement.generation \in 0..s.voter_generation
    /\ s.placement.epoch > 0 =>
          \E t \in 1..Len(s.state_digest) :
             /\ LastTransition(s.state_digest, t, Len(s.state_digest))
             /\ s.placement.binding = s.state_digest[t].operation.binding
             /\ s.placement.generation = s.voter_generation =>
                   \A i \in s.state_digest[t].index..k : VotersAt(i) = s.placement.binding

Fenced(chain) ==
    \A n \in 1..Len(chain) :
        chain[n].operation.kind # "transition" =>
          \E t \in 1..(n - 1) :
             /\ LastTransition(chain, t, n - 1)
             /\ \A i \in chain[t].index..chain[n].index :
                   VotersAt(i) = chain[t].operation.binding

ReplayOK(s, k) ==
    /\ IsChain(s.state_digest, k)
    /\ RequestsOK(s.state_digest, s.requests, k)
    /\ PlacementOK(s, k)
    /\ Fenced(s.state_digest)

\* The voters change with a membership entry and with no other.
LEMMA VotersStep ==
    ASSUME NEW k \in Nat \ {0}
    PROVE  VotersAt(k) = IF history[k].payload.kind = "membership"
                           THEN history[k].payload.binding ELSE VotersAt(k - 1)
<1> DEFINE C(i) == {j \in 1..i : history[j].payload.kind = "membership"}
<1>1. CASE history[k].payload.kind = "membership"
  <2>1. k \in C(k) /\ \A j \in C(k) : j \in Nat /\ j <= k
    BY <1>1
  <2>2. (CHOOSE j \in C(k) : \A i \in C(k) : i <= j) = k
    <3> HIDE DEF C
    <3>1. \A x \in C(k) : (\A i \in C(k) : i <= x) => x = k
      BY <2>1
    <3> QED BY <2>1, <3>1
  <2>3. C(k) # {}
    BY <2>1
  <2> QED BY <1>1, <2>2, <2>3 DEF VotersAt
<1>2. CASE history[k].payload.kind # "membership"
  <2>1. C(k) = C(k - 1)
    BY <1>2
  <2>2. \A i \in {k, k - 1} :
          VotersAt(i) = IF C(i) = {} THEN NoBinding
                        ELSE history[CHOOSE j \in C(i) : \A x \in C(i) : x <= j].payload.binding
    BY DEF VotersAt
  <2> HIDE DEF C
  <2>3. VotersAt(k) = VotersAt(k - 1)
    BY <2>1, <2>2
  <2> QED BY <1>2, <2>3
<1> QED BY <1>1, <1>2

\* prune_request_history keeps exactly the window.
LEMMA Window ==
    ASSUME NEW k \in Nat, NEW i \in Nat \ {0}
    PROVE  i >= OldestRetained(k) <=> i + Retention > k
  BY RetentionAssumption DEF OldestRetained

\* An accepted operation is put behind the chain.
LEMMA ChainGrows ==
    ASSUME NEW k \in DOMAIN history, k \in Nat \ {0}, NEW chain, IsChain(chain, k - 1)
    PROVE  LET more == Append(chain, ChainEntry(k))
           IN  /\ IsChain(more, k) /\ Len(chain) \in Nat /\ Len(more) = Len(chain) + 1
               /\ \A a \in 1..Len(chain) : more[a] = chain[a]
               /\ more[Len(chain) + 1] = ChainEntry(k) /\ more[Len(chain) + 1].index = k
               /\ more[Len(chain) + 1].operation = history[k].payload.command.operation
<1> DEFINE S == {ChainEntry(i) : i \in DOMAIN history}
           more == Append(chain, ChainEntry(k))
<1>1. chain \in Seq(S) /\ ChainEntry(k) \in S
  BY DEF IsChain
<1> HIDE DEF S
<1>2. /\ more \in Seq(S) /\ Len(chain) \in Nat /\ Len(more) = Len(chain) + 1
      /\ \A a \in 1..Len(chain) : more[a] = chain[a]
      /\ more[Len(chain) + 1] = ChainEntry(k)
  BY <1>1
<1>3. ChainEntry(k).index = k /\ ChainEntry(k).operation = history[k].payload.command.operation
  BY DEF ChainEntry
<1> HIDE DEF more
<1>4. ASSUME NEW a \in 1..Len(more)
      PROVE  more[a].index \in 1..k
  <2>1. CASE a \in 1..Len(chain)
    <3>1. chain[a].index \in 1..(k - 1) /\ more[a] = chain[a]
      BY <1>2, <2>1 DEF IsChain
    <3> QED BY <3>1
  <2>2. CASE a = Len(chain) + 1
    BY <1>2, <1>3, <2>2
  <2> QED BY <1>2, <2>1, <2>2
<1>5. IsChain(more, k)
  BY <1>2, <1>4 DEF IsChain, S
<1> QED BY <1>2, <1>3, <1>5 DEF more

\* The chain after entry k: as it was, or with the entry's operation.
Grows(chain, grown, k, acc) ==
    /\ acc \in BOOLEAN
    /\ grown = IF acc THEN Append(chain, ChainEntry(k)) ELSE chain

\* The request history after entry k: untouched, or with a request it did not know.
Learns(requests, known, k, acc) ==
    \/ known = requests /\ ~acc
    \/ /\ RequestAt(k) \notin DOMAIN requests
       /\ DOMAIN known = DOMAIN requests \cup {RequestAt(k)}
       /\ known[RequestAt(k)].first_applied_index = k
       /\ known[RequestAt(k)].accepted <=> acc
       /\ \A r \in DOMAIN requests : known[r] = requests[r]

\* What pruning keeps of it.
Keeps(known, kept, k) ==
    /\ DOMAIN kept = {r \in DOMAIN known : known[r].first_applied_index >= OldestRetained(k)}
    /\ \A r \in DOMAIN kept : kept[r] = known[r]

\* One entry keeps the request history true to the chain.
LEMMA RequestsStep ==
    ASSUME NEW k \in DOMAIN history, k \in Nat \ {0},
           NEW chain, NEW requests, IsChain(chain, k - 1), RequestsOK(chain, requests, k - 1),
           NEW acc, NEW grown, NEW known, NEW kept,
           Grows(chain, grown, k, acc), Learns(requests, known, k, acc), Keeps(known, kept, k)
    PROVE  IsChain(grown, k) /\ RequestsOK(grown, kept, k)
<1> USE DEF Grows, Learns, Keeps
<1>0. Retention \in Nat \ {0}
  BY RetentionAssumption
<1>1. /\ IsChain(grown, k) /\ Len(chain) \in Nat
      /\ Len(grown) = IF acc THEN Len(chain) + 1 ELSE Len(chain)
      /\ \A a \in 1..Len(chain) : grown[a] = chain[a] /\ chain[a].index \in 1..(k - 1)
      /\ acc => grown[Len(chain) + 1].index = k
  <2>1. CASE acc
    BY <2>1, ChainGrows DEF IsChain
  <2>2. CASE ~acc
    <3>1. Len(chain) \in Nat
      BY DEF IsChain
    <3> QED BY <2>2, <3>1 DEF IsChain
  <2> QED BY <2>1, <2>2
<1>2. \A a \in 1..Len(grown) : a \in 1..Len(chain) \/ (acc /\ a = Len(chain) + 1)
  BY <1>1
<1>3. acc => /\ RequestAt(k) \in DOMAIN known /\ RequestAt(k) \notin DOMAIN requests
             /\ known[RequestAt(k)].first_applied_index = k
  OBVIOUS
<1>4. ASSUME NEW r \in DOMAIN known
      PROVE  \/ r \in DOMAIN requests /\ known[r] = requests[r]
             \/ /\ r = RequestAt(k) /\ known[r].first_applied_index = k
                /\ known[r].accepted <=> acc
  OBVIOUS
<1>5. \A r \in DOMAIN requests : r \in DOMAIN known /\ known[r] = requests[r]
  OBVIOUS
<1>6. \A a \in 1..Len(chain) : grown[a].index = chain[a].index /\ chain[a].index < k
  BY <1>1
<1>7. Truthful(grown, kept, k)
  <2> SUFFICES ASSUME NEW r \in DOMAIN kept
               PROVE  /\ kept[r].first_applied_index \in 1..k
                      /\ kept[r].first_applied_index + Retention > k
                      /\ RequestAt(kept[r].first_applied_index) = r
                      /\ kept[r].accepted
                           <=> \E a \in 1..Len(grown) : grown[a].index = kept[r].first_applied_index
    BY DEF Truthful
  <2>1. r \in DOMAIN known /\ kept[r] = known[r] /\ known[r].first_applied_index >= OldestRetained(k)
    OBVIOUS
  <2>2. CASE r \in DOMAIN requests /\ known[r] = requests[r]
    <3>1. /\ requests[r].first_applied_index \in 1..(k - 1)
          /\ RequestAt(requests[r].first_applied_index) = r
          /\ requests[r].accepted
               <=> \E a \in 1..Len(chain) : chain[a].index = requests[r].first_applied_index
      BY <2>2 DEF RequestsOK, Truthful
    <3>2. requests[r].first_applied_index + Retention > k
      BY <2>1, <2>2, <3>1, Window
    <3>3. (\E a \in 1..Len(grown) : grown[a].index = requests[r].first_applied_index)
            <=> \E a \in 1..Len(chain) : chain[a].index = requests[r].first_applied_index
      BY <1>1, <1>2, <1>6, <3>1
    <3> QED BY <2>1, <2>2, <3>1, <3>2, <3>3
  <2>3. CASE /\ r = RequestAt(k) /\ known[r].first_applied_index = k
             /\ known[r].accepted <=> acc
    <3>1. (\E a \in 1..Len(grown) : grown[a].index = k) <=> acc
      BY <1>1, <1>2, <1>6
    <3>2. k + Retention > k /\ k \in 1..k
      BY <1>0
    <3> QED BY <2>1, <2>3, <3>1, <3>2
  <2> QED BY <1>4, <2>1, <2>2, <2>3
<1>8. Remembered(grown, kept, k)
  <2> SUFFICES ASSUME NEW a \in 1..Len(grown), grown[a].index + Retention > k
               PROVE  /\ RequestAt(grown[a].index) \in DOMAIN kept
                      /\ kept[RequestAt(grown[a].index)].first_applied_index = grown[a].index
    BY DEF Remembered
  <2>1. /\ RequestAt(grown[a].index) \in DOMAIN known
        /\ known[RequestAt(grown[a].index)].first_applied_index = grown[a].index
        /\ grown[a].index \in 1..k
    <3>1. CASE a \in 1..Len(chain)
      <4>1. grown[a].index = chain[a].index /\ chain[a].index \in 1..(k - 1)
        BY <1>1, <3>1
      <4>2. chain[a].index + Retention > k - 1
        BY <1>0, <4>1
      <4>3. /\ RequestAt(chain[a].index) \in DOMAIN requests
            /\ requests[RequestAt(chain[a].index)].first_applied_index = chain[a].index
        BY <3>1, <4>2 DEF RequestsOK, Remembered
      <4> QED BY <1>5, <4>1, <4>3
    <3>2. CASE acc /\ a = Len(chain) + 1
      BY <1>1, <1>3, <3>2
    <3> QED BY <1>2, <3>1, <3>2
  <2>2. grown[a].index >= OldestRetained(k)
    BY <2>1, Window
  <2> QED BY <2>1, <2>2
<1>9. Spaced(grown)
  <2> SUFFICES ASSUME NEW a \in 1..Len(grown), NEW b \in 1..Len(grown), a < b,
                      RequestAt(grown[a].index) = RequestAt(grown[b].index)
               PROVE  grown[b].index - grown[a].index > Retention
    BY DEF Spaced
  <2>1. CASE b \in 1..Len(chain)
    <3>1. a \in 1..Len(chain)
      BY <1>1, <2>1
    <3> QED BY <1>6, <2>1, <3>1 DEF RequestsOK, Spaced
  <2>2. CASE acc /\ b = Len(chain) + 1
    <3>1. a \in 1..Len(chain) /\ grown[b].index = k /\ grown[a].index = chain[a].index
          /\ chain[a].index \in 1..(k - 1)
      BY <1>1, <1>2, <2>2
    <3>2. RequestAt(chain[a].index) \notin DOMAIN requests
      BY <1>3, <2>2, <3>1
    <3>3. ~(chain[a].index + Retention > k - 1)
      BY <3>1, <3>2 DEF RequestsOK, Remembered
    <3> QED BY <1>0, <3>1, <3>3
  <2> QED BY <1>2, <2>1, <2>2
<1> QED BY <1>1, <1>7, <1>8, <1>9 DEF RequestsOK

\* Pruning changes the request history alone, and last_applied is set before it.
LEMMA PruneEffect ==
    ASSUME NEW t, DOMAIN t = Fields, NEW i
    PROVE  LET u == PruneRequestHistory([t EXCEPT !.last_applied = i], i)
           IN  /\ u.state_digest = t.state_digest /\ u.placement = t.placement
               /\ u.last_membership = t.last_membership /\ u.voter_generation = t.voter_generation
               /\ DOMAIN u.requests
                    = {r \in DOMAIN t.requests : t.requests[r].first_applied_index >= OldestRetained(i)}
               /\ \A r \in DOMAIN u.requests : u.requests[r] = t.requests[r]
  BY DEF Fields, InitialState, PruneRequestHistory

\* What a command of an unknown request does: it is remembered with the decision, an
\* accepted operation joins the chain and a transition becomes the placement.
LEMMA CommandEffect ==
    ASSUME NEW s, DOMAIN s = Fields, NEW i, NEW term, NEW c, NEW t,
           t = ApplyCommand(s, i, term, c), c.request_id \notin DOMAIN s.requests
    PROVE  /\ t.last_membership = s.last_membership
           /\ t.voter_generation = s.voter_generation
           /\ DOMAIN t.requests = DOMAIN s.requests \cup {c.request_id}
           /\ t.requests[c.request_id].first_applied_index = i
           /\ t.requests[c.request_id].accepted <=> Accepted(s, c)
           /\ \A r \in DOMAIN s.requests : t.requests[r] = s.requests[r]
           /\ ~Accepted(s, c) => t.state_digest = s.state_digest /\ t.placement = s.placement
           /\ Accepted(s, c) =>
                 /\ t.state_digest = Append(s.state_digest,
                       [term |-> term, index |-> i, operation |-> c.operation])
                 /\ t.placement = IF c.operation.kind = "transition"
                       THEN [epoch |-> s.placement.epoch + 1, binding |-> c.operation.binding,
                             generation |-> s.voter_generation]
                       ELSE s.placement
<1> DEFINE acc == Accepted(s, c)
           v == IF acc THEN AfterOperation(s, i, term, c.operation) ELSE s
<1>1. t = [v EXCEPT !.requests = Remember(s, i, c, acc)]
  BY DEF ApplyCommand
<1>2. DOMAIN v = Fields
  BY DEF AfterOperation, Fields, InitialState
<1>3. /\ v.last_membership = s.last_membership
      /\ v.voter_generation = s.voter_generation
      /\ ~acc => v.state_digest = s.state_digest /\ v.placement = s.placement
      /\ acc =>
           /\ v.state_digest = Append(s.state_digest,
                 [term |-> term, index |-> i, operation |-> c.operation])
           /\ v.placement = IF c.operation.kind = "transition"
                 THEN [epoch |-> s.placement.epoch + 1, binding |-> c.operation.binding,
                       generation |-> s.voter_generation]
                 ELSE s.placement
  BY DEF AfterOperation, Fields, InitialState
<1>4. acc \in BOOLEAN
  BY DEF Accepted, EpochMatches, MembershipMatches, CommitIndexMatches, OperationAccepted
<1> HIDE DEF acc, v
<1>5. /\ t.last_membership = v.last_membership /\ t.voter_generation = v.voter_generation
      /\ t.state_digest = v.state_digest /\ t.placement = v.placement
      /\ t.requests = Remember(s, i, c, acc)
  BY <1>1, <1>2 DEF Fields, InitialState
<1>6. /\ DOMAIN t.requests = DOMAIN s.requests \cup {c.request_id}
      /\ t.requests[c.request_id].first_applied_index = i
      /\ t.requests[c.request_id].accepted = acc
      /\ \A r \in DOMAIN s.requests : t.requests[r] = s.requests[r]
  BY <1>5 DEF Remember
<1> QED BY <1>3, <1>4, <1>5, <1>6 DEF acc

\* An entry that leaves chain and placement alone: the voters stay, or their generation
\* grows when they change.
LEMMA PlacementIdle ==
    ASSUME NEW k \in DOMAIN history, k \in Nat \ {0}, NEW s, NEW t,
           IsChain(s.state_digest, k - 1), PlacementOK(s, k - 1),
           t.state_digest = s.state_digest, t.placement = s.placement,
           t.last_membership = IF history[k].payload.kind = "membership"
                                 THEN history[k].payload.binding ELSE s.last_membership,
           t.voter_generation = IF t.last_membership # s.last_membership
                                  THEN s.voter_generation + 1 ELSE s.voter_generation
    PROVE  PlacementOK(t, k)
<1>1. VotersAt(k) = IF history[k].payload.kind = "membership"
                      THEN history[k].payload.binding ELSE VotersAt(k - 1)
  BY VotersStep
<1>2. /\ s.last_membership = VotersAt(k - 1) /\ s.voter_generation \in Nat /\ s.placement.epoch \in Nat
      /\ s.placement.generation \in 0..s.voter_generation
  BY DEF PlacementOK
<1>3. /\ t.last_membership = VotersAt(k) /\ t.voter_generation \in Nat /\ t.placement.epoch \in Nat
      /\ t.placement.generation \in 0..t.voter_generation
  BY <1>1, <1>2
<1>4. ASSUME t.placement.epoch > 0
      PROVE  \E x \in 1..Len(t.state_digest) :
                /\ LastTransition(t.state_digest, x, Len(t.state_digest))
                /\ t.placement.binding = t.state_digest[x].operation.binding
                /\ t.placement.generation = t.voter_generation =>
                      \A i \in t.state_digest[x].index..k : VotersAt(i) = t.placement.binding
  <2>1. PICK x \in 1..Len(s.state_digest) :
                /\ LastTransition(s.state_digest, x, Len(s.state_digest))
                /\ s.placement.binding = s.state_digest[x].operation.binding
                /\ s.placement.generation = s.voter_generation =>
                      \A i \in s.state_digest[x].index..(k - 1) : VotersAt(i) = s.placement.binding
    BY <1>4 DEF PlacementOK
  <2>2. s.state_digest[x].index \in 1..(k - 1)
    BY <2>1 DEF IsChain
  <2>3. ASSUME t.placement.generation = t.voter_generation,
               NEW i \in s.state_digest[x].index..k
        PROVE  VotersAt(i) = t.placement.binding
    <3>1. s.voter_generation = t.voter_generation /\ t.last_membership = s.last_membership
      BY <1>2, <2>3
    <3>2. VotersAt(k) = VotersAt(k - 1)
      BY <1>2, <1>3, <3>1
    <3>3. VotersAt(k - 1) = s.placement.binding
      BY <2>1, <2>2, <2>3, <3>1
    <3>4. i = k \/ i \in s.state_digest[x].index..(k - 1)
      BY <2>2
    <3> QED BY <2>1, <2>3, <3>1, <3>2, <3>3, <3>4
  <2> QED BY <2>1, <2>3
<1> QED BY <1>3, <1>4 DEF PlacementOK

\* A longer chain has the transitions of the shorter one.
LEMMA TransitionStays ==
    ASSUME NEW chain, NEW more, NEW len \in Nat, NEW n \in 0..len, NEW t,
           \A a \in 1..len : more[a] = chain[a],
           LastTransition(chain, t, n)
    PROVE  LastTransition(more, t, n)
  BY DEF LastTransition

\* An accepted operation: a transition takes the voters in force, other work is accepted
\* under a placement whose voters have been in force since.
LEMMA PlacementAccepts ==
    ASSUME NEW k \in DOMAIN history, k \in Nat \ {0}, NEW s, NEW t, NEW c,
           WellFormed(history[k].payload), history[k].payload.kind = "normal",
           c = history[k].payload.command,
           IsChain(s.state_digest, k - 1), PlacementOK(s, k - 1), Fenced(s.state_digest),
           Accepted(s, c),
           t.state_digest = Append(s.state_digest, ChainEntry(k)),
           t.placement = IF c.operation.kind = "transition"
                           THEN [epoch |-> s.placement.epoch + 1, binding |-> c.operation.binding,
                                 generation |-> s.voter_generation]
                           ELSE s.placement,
           t.last_membership = s.last_membership, t.voter_generation = s.voter_generation
    PROVE  PlacementOK(t, k) /\ Fenced(t.state_digest)
<1> DEFINE chain == s.state_digest
           more == t.state_digest
           len == Len(s.state_digest)
<1>1. /\ IsChain(more, k) /\ len \in Nat /\ Len(more) = len + 1
      /\ \A a \in 1..len : more[a] = chain[a]
      /\ more[len + 1].index = k /\ more[len + 1].operation = c.operation
  BY ChainGrows
<1>2. VotersAt(k) = VotersAt(k - 1)
  BY VotersStep
<1>3. /\ s.last_membership = VotersAt(k - 1) /\ s.voter_generation \in Nat /\ s.placement.epoch \in Nat
      /\ s.placement.generation \in 0..s.voter_generation
  BY DEF PlacementOK
<1>4. \A a \in 1..len : chain[a].index \in 1..(k - 1)
  BY DEF IsChain
<1>5. /\ t.last_membership = VotersAt(k) /\ t.voter_generation \in Nat
  BY <1>2, <1>3
<1>6. ASSUME NEW n \in 1..len, more[n].operation.kind # "transition"
      PROVE  \E x \in 1..(n - 1) :
               /\ LastTransition(more, x, n - 1)
               /\ \A i \in more[x].index..more[n].index : VotersAt(i) = more[x].operation.binding
  <2>1. more[n] = chain[n]
    BY <1>1
  <2>2. PICK x \in 1..(n - 1) :
               /\ LastTransition(chain, x, n - 1)
               /\ \A i \in chain[x].index..chain[n].index : VotersAt(i) = chain[x].operation.binding
    BY <1>6, <2>1 DEF Fenced
  <2>3. x \in 1..len /\ n - 1 \in 0..len
    BY <1>1, <2>2
  <2>4. more[x] = chain[x]
    BY <1>1, <2>3
  <2>5. LastTransition(more, x, n - 1)
    BY <1>1, <2>2, <2>3, TransitionStays
  <2> QED BY <2>1, <2>2, <2>4, <2>5
<1>7. CASE c.operation.kind = "transition"
  <2>1. c.operation.binding = s.last_membership
    BY <1>7 DEF Accepted, OperationAccepted
  <2>2. t.placement.epoch = s.placement.epoch + 1 /\ t.placement.binding = c.operation.binding
        /\ t.placement.generation = s.voter_generation
    BY <1>7
  <2>3. LastTransition(more, len + 1, len + 1)
    BY <1>1, <1>7 DEF LastTransition
  <2>4. \A i \in more[len + 1].index..k : VotersAt(i) = t.placement.binding
    BY <1>1, <1>2, <1>3, <2>1, <2>2
  <2>5. len + 1 \in 1..Len(more) /\ t.placement.binding = more[len + 1].operation.binding
    BY <1>1, <2>2
  <2>6. \E x \in 1..Len(more) :
             /\ LastTransition(more, x, Len(more))
             /\ t.placement.binding = more[x].operation.binding
             /\ \A i \in more[x].index..k : VotersAt(i) = t.placement.binding
    BY <1>1, <2>3, <2>4, <2>5
  <2>7. t.placement.epoch \in Nat /\ t.placement.generation \in 0..t.voter_generation
    BY <1>3, <2>2
  <2>8. PlacementOK(t, k)
    BY <1>5, <2>6, <2>7 DEF PlacementOK
  <2>9. \A n \in 1..Len(more) : n \in 1..len \/ more[n].operation.kind = "transition"
    BY <1>1, <1>7
  <2>10. Fenced(more)
    BY <1>6, <2>9 DEF Fenced
  <2> QED BY <2>8, <2>10
<1>8. CASE c.operation.kind # "transition"
  <2>1. c.placement_epoch = s.placement.epoch /\ c.placement_epoch \in Nat \ {0}
    BY <1>8 DEF Accepted, EpochMatches, IsTransition, WellFormed
  <2>2. s.placement.generation = s.voter_generation /\ t.placement = s.placement
    BY <1>8 DEF Accepted, MembershipMatches, IsTransition
  <2>3. PICK x \in 1..len :
                /\ LastTransition(chain, x, len)
                /\ s.placement.binding = chain[x].operation.binding
                /\ \A i \in chain[x].index..(k - 1) : VotersAt(i) = s.placement.binding
    BY <2>1, <2>2 DEF PlacementOK
  <2>4. more[x] = chain[x] /\ chain[x].index \in 1..(k - 1)
    BY <1>1, <1>4, <2>3
  <2>5. VotersAt(k) = s.placement.binding
    BY <1>2, <2>3, <2>4
  <2>6. \A i \in more[x].index..k : VotersAt(i) = s.placement.binding
    <3>1. \A i \in chain[x].index..k : i = k \/ i \in chain[x].index..(k - 1)
      BY <2>4
    <3> QED BY <2>3, <2>4, <2>5, <3>1
  <2>7. LastTransition(more, x, len)
    <3> len \in 0..len
      BY <1>1
    <3> QED BY <1>1, <2>3, TransitionStays
  <2>8. LastTransition(more, x, len + 1)
    BY <1>1, <1>8, <2>7 DEF LastTransition
  <2>9. PlacementOK(t, k)
    <3>1. x \in 1..Len(more) /\ LastTransition(more, x, Len(more))
      BY <1>1, <2>3, <2>8
    <3>2. t.placement.binding = more[x].operation.binding
      BY <2>2, <2>3, <2>4
    <3> QED BY <1>3, <1>5, <2>2, <2>6, <3>1, <3>2 DEF PlacementOK
  <2>10. ASSUME NEW n \in 1..Len(more), more[n].operation.kind # "transition"
         PROVE  \E y \in 1..(n - 1) :
                  /\ LastTransition(more, y, n - 1)
                  /\ \A i \in more[y].index..more[n].index : VotersAt(i) = more[y].operation.binding
    <3>1. CASE n \in 1..len
      BY <1>6, <2>10, <3>1
    <3>2. CASE n = len + 1
      <4>1. x \in 1..(n - 1) /\ LastTransition(more, x, n - 1) /\ more[n].index = k
        BY <1>1, <2>3, <2>7, <3>2
      <4>2. more[x].operation.binding = s.placement.binding
        BY <2>3, <2>4
      <4> QED BY <2>6, <4>1, <4>2
    <3> QED BY <1>1, <3>1, <3>2
  <2>11. Fenced(more)
    BY <2>10 DEF Fenced
  <2> QED BY <2>9, <2>11
<1> QED BY <1>7, <1>8

\* One entry keeps ReplayOK.
LEMMA ReplayOKStep ==
    ASSUME NEW k \in DOMAIN history, k \in Nat \ {0}, WellFormed(history[k].payload),
           NEW s, DOMAIN s = Fields, ReplayOK(s, k - 1)
    PROVE  ReplayOK(ApplyEntry(s, k, history[k]), k)
<1> DEFINE p == history[k].payload
           c == history[k].payload.command
           t == CASE p.kind = "blank" -> s
                  [] p.kind = "membership" -> ApplyMembership(s, p.binding)
                  [] p.kind = "normal" -> ApplyCommand(s, k, history[k].term, c)
           u == ApplyEntry(s, k, history[k])
<1>0. /\ IsChain(s.state_digest, k - 1) /\ RequestsOK(s.state_digest, s.requests, k - 1)
      /\ PlacementOK(s, k - 1) /\ Fenced(s.state_digest)
  BY DEF ReplayOK
<1>1. DOMAIN t = Fields
  BY DEF WellFormed, ApplyMembership, ApplyCommand, AfterOperation, Fields, InitialState
<1>2. u = PruneRequestHistory([t EXCEPT !.last_applied = k], k)
  BY DEF ApplyEntry
<1>3. ChainEntry(k) = [term |-> history[k].term, index |-> k, operation |-> c.operation]
  BY DEF ChainEntry
<1>4. RequestAt(k) = c.request_id
  BY DEF RequestAt
<1>5. \/ p.kind \in {"blank", "membership"}
      \/ p.kind = "normal" /\ c.request_id \in DOMAIN s.requests
      \/ p.kind = "normal" /\ c.request_id \notin DOMAIN s.requests /\ ~Accepted(s, c)
      \/ p.kind = "normal" /\ c.request_id \notin DOMAIN s.requests /\ Accepted(s, c)
  BY DEF WellFormed
<1>6. p.kind = "membership" =>
        /\ t.state_digest = s.state_digest /\ t.placement = s.placement /\ t.requests = s.requests
        /\ t.last_membership = p.binding
        /\ t.voter_generation = IF p.binding # s.last_membership
                                  THEN s.voter_generation + 1 ELSE s.voter_generation
  BY DEF ApplyMembership, Fields, InitialState
<1>7. p.kind = "blank" => t = s
  OBVIOUS
<1>8. p.kind = "normal" => t = ApplyCommand(s, k, history[k].term, c)
  OBVIOUS
<1> SUFFICES ReplayOK(u, k)
  OBVIOUS
<1> HIDE DEF t, u
<1>9. /\ u.state_digest = t.state_digest /\ u.placement = t.placement
      /\ u.last_membership = t.last_membership /\ u.voter_generation = t.voter_generation
      /\ DOMAIN u.requests
           = {r \in DOMAIN t.requests : t.requests[r].first_applied_index >= OldestRetained(k)}
      /\ \A r \in DOMAIN u.requests : u.requests[r] = t.requests[r]
  BY <1>1, <1>2, PruneEffect
<1>10. CASE p.kind \in {"blank", "membership"} \/ c.request_id \in DOMAIN s.requests
  <2>0. p.kind \notin {"blank", "membership"} => t = s
    BY <1>5, <1>8, <1>10 DEF ApplyCommand
  <2>1. t.state_digest = s.state_digest /\ t.placement = s.placement /\ t.requests = s.requests
    BY <1>6, <1>7, <2>0
  <2>2. /\ u.last_membership = IF p.kind = "membership" THEN p.binding ELSE s.last_membership
        /\ u.voter_generation = IF u.last_membership # s.last_membership
                                  THEN s.voter_generation + 1 ELSE s.voter_generation
    BY <1>6, <1>7, <1>9, <2>0
  <2>3. PlacementOK(u, k)
    BY <1>0, <1>9, <2>1, <2>2, PlacementIdle
  <2>4. IsChain(s.state_digest, k) /\ RequestsOK(s.state_digest, u.requests, k)
    <3>1. Keeps(s.requests, u.requests, k)
      BY <1>9, <2>1 DEF Keeps
    <3>2. Grows(s.state_digest, s.state_digest, k, FALSE) /\ Learns(s.requests, s.requests, k, FALSE)
      BY DEF Grows, Learns
    <3> QED BY <1>0, <3>1, <3>2, RequestsStep
  <2> QED BY <1>0, <1>9, <2>1, <2>3, <2>4 DEF ReplayOK
<1>11. CASE p.kind = "normal" /\ c.request_id \notin DOMAIN s.requests
  <2> DEFINE acc == Accepted(s, c)
             known == t.requests
  <2>1. acc \in BOOLEAN
    BY DEF Accepted, EpochMatches, MembershipMatches, CommitIndexMatches, OperationAccepted
  <2>2. /\ t.last_membership = s.last_membership /\ t.voter_generation = s.voter_generation
        /\ DOMAIN known = DOMAIN s.requests \cup {c.request_id}
        /\ known[c.request_id].first_applied_index = k
        /\ known[c.request_id].accepted <=> acc
        /\ \A r \in DOMAIN s.requests : known[r] = s.requests[r]
        /\ ~acc => t.state_digest = s.state_digest /\ t.placement = s.placement
        /\ acc => /\ t.state_digest = Append(s.state_digest, ChainEntry(k))
                  /\ t.placement = IF c.operation.kind = "transition"
                         THEN [epoch |-> s.placement.epoch + 1, binding |-> c.operation.binding,
                               generation |-> s.voter_generation]
                         ELSE s.placement
    <3>1. t = ApplyCommand(s, k, history[k].term, c) /\ c.request_id \notin DOMAIN s.requests
      BY <1>8, <1>11
    <3> QED BY <1>3, <3>1, CommandEffect
  <2>3. PlacementOK(u, k) /\ Fenced(u.state_digest)
    <3>1. CASE acc
      <4>1. /\ u.state_digest = Append(s.state_digest, ChainEntry(k))
            /\ u.placement = IF c.operation.kind = "transition"
                   THEN [epoch |-> s.placement.epoch + 1, binding |-> c.operation.binding,
                         generation |-> s.voter_generation]
                   ELSE s.placement
            /\ u.last_membership = s.last_membership /\ u.voter_generation = s.voter_generation
        BY <1>9, <2>2, <3>1
      <4>2. history[k].payload.kind = "normal" /\ Accepted(s, c)
        BY <1>11, <3>1
      <4> HIDE DEF acc, known
      <4> QED BY <1>0, <4>1, <4>2, PlacementAccepts
    <3>2. CASE ~acc
      <4>1. /\ u.last_membership = IF p.kind = "membership" THEN p.binding ELSE s.last_membership
            /\ u.voter_generation = IF u.last_membership # s.last_membership
                                      THEN s.voter_generation + 1 ELSE s.voter_generation
        BY <1>9, <1>11, <2>2
      <4>2. PlacementOK(u, k)
        BY <1>0, <1>9, <2>2, <3>2, <4>1, PlacementIdle
      <4> QED BY <1>0, <1>9, <2>2, <3>2, <4>2
    <3> QED BY <3>1, <3>2
  <2>4. Learns(s.requests, known, k, acc)
    BY <1>4, <1>11, <2>2 DEF Learns
  <2>5. Grows(s.state_digest, u.state_digest, k, acc)
    BY <1>9, <2>1, <2>2 DEF Grows
  <2>6. Keeps(known, u.requests, k)
    BY <1>9 DEF Keeps
  <2>7. IsChain(u.state_digest, k) /\ RequestsOK(u.state_digest, u.requests, k)
    <3> HIDE DEF acc, known
    <3> QED BY <1>0, <2>4, <2>5, <2>6, RequestsStep
  <2> QED BY <2>3, <2>7 DEF ReplayOK
<1> QED BY <1>5, <1>10, <1>11

\* Every state the agreed log leads to is as ReplayOK says, by induction along the log.
LEMMA AgreedOK ==
    ASSUME history \in Histories
    PROVE  \A k \in 0..Len(history) : ReplayOK(Agreed(k), k)
<1> DEFINE G == {k \in Nat : ReplayOK(Agreed(k), k)}
<1>1. Len(history) \in Nat /\ DOMAIN history = 1..Len(history)
  BY HistoryShape
<1>2. 0 \in G
  <2>1. Agreed(0) = InitialState
    BY <1>1, ReplayUnfolds DEF Agreed
  <2>2. VotersAt(0) = NoBinding
    BY DEF VotersAt
  <2>3. /\ InitialState.state_digest = <<>> /\ InitialState.requests = <<>>
        /\ InitialState.last_membership = NoBinding /\ InitialState.voter_generation = 0
        /\ InitialState.placement.epoch = 0 /\ InitialState.placement.generation = 0
    BY DEF InitialState
  <2>4. PlacementOK(InitialState, 0)
    BY <2>2, <2>3 DEF PlacementOK
  <2>5. /\ IsChain(<<>>, 0) /\ RequestsOK(<<>>, <<>>, 0) /\ Fenced(<<>>)
    BY DEF IsChain, RequestsOK, Truthful, Remembered, Spaced, Fenced
  <2>6. ReplayOK(InitialState, 0)
    BY <2>3, <2>4, <2>5 DEF ReplayOK
  <2> QED BY <2>1, <2>6
<1>3. ASSUME NEW k \in 1..Len(history), k - 1 \in G
      PROVE  k \in G
  <2>1. Agreed(k) = ApplyEntry(Agreed(k - 1), k, history[k])
    BY <1>1, ReplayUnfolds DEF Agreed
  <2>2. DOMAIN Agreed(k - 1) = Fields
    BY <1>1, ReplayShape DEF Agreed
  <2>3. WellFormed(history[k].payload)
    BY HistoryShape
  <2>4. ReplayOK(Agreed(k - 1), k - 1) /\ k \in Nat \ {0} /\ k \in DOMAIN history
    BY <1>1, <1>3
  <2>5. ReplayOK(Agreed(k), k)
    BY <2>1, <2>2, <2>3, <2>4, ReplayOKStep
  <2> QED BY <2>4, <2>5
<1>4. \A k \in 0..Len(history) : k \in G
  <2> HIDE DEF G
  <2> QED BY <1>1, <1>2, <1>3, Induction
<1> QED BY <1>4

\* The state of a node is as ReplayOK says.
LEMMA NodeReplayOK ==
    ASSUME NodeInv
    PROVE  ReplayOK(state, state.last_applied)
<1>1. history \in Histories /\ state.last_applied \in 0..Len(history)
      /\ state = Agreed(state.last_applied)
  BY DEF NodeInv, Located
<1> QED BY <1>1, AgreedOK

\* Within the retention window a request takes effect at most once on any node, whatever
\* it crashed through, applied again or installed, and what a retry is told is what
\* happened (apply_command, prune_request_history).
THEOREM EffectOnce == Spec => []RequestTakesEffectOnce
<1>1. ASSUME NodeInv
      PROVE  RequestTakesEffectOnce
  <2>1. /\ IsChain(Chain, state.last_applied)
        /\ RequestsOK(Chain, state.requests, state.last_applied)
    BY <1>1, NodeReplayOK DEF ReplayOK, Chain
  <2>2. DOMAIN Chain = 1..Len(Chain)
    BY <2>1 DEF IsChain
  <2> QED BY <2>1, <2>2 DEF RequestTakesEffectOnce, RequestsOK, Spaced, Truthful
<1> QED BY <1>1, NodeInvInductive, PTL

\* Ordinary work is in the digest chain of a node only when the voters of its placement
\* were in force at every position since the placement was accepted (apply, apply_command).
THEOREM WorkFenced == Spec => []PlacementFencesWork
<1>1. ASSUME NodeInv
      PROVE  PlacementFencesWork
  <2>1. IsChain(Chain, state.last_applied) /\ Fenced(Chain)
    BY <1>1, NodeReplayOK DEF ReplayOK, Chain
  <2>2. DOMAIN Chain = 1..Len(Chain)
    BY <2>1 DEF IsChain
  <2> QED BY <2>1, <2>2 DEF PlacementFencesWork, Fenced, LastTransition
<1> QED BY <1>1, NodeInvInductive, PTL
=============================================================================
