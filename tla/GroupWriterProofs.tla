-------------------------- MODULE GroupWriterProofs --------------------------
(***************************************************************************)
(* What the group-commit writer promises, for any number of clients, any   *)
(* batch size and any queue capacity: nothing accepted is lost, repeated   *)
(* or reordered, a flush that returned Ok covers what it waited for, and   *)
(* no wake-up is lost.                                                     *)
(*                                                                         *)
(* The argument is one of positions.  Claim n is at place n of the store,  *)
(* the batch in hand and the queue laid end to end (Sequenced), the        *)
(* counters follow the lengths (Counted), shutdown comes only when no      *)
(* client is inside a call (Phased), and a flush that still waits has its  *)
(* claims in the commit thread's hand or its request standing (Requested). *)
(***************************************************************************)
EXTENDS GroupWriter, SequenceTheorems, TLAPS

\* The claims the commit thread took and the store does not have.
InHand == IF worker \in {"append", "failed"} THEN batch ELSE <<>>

Numbered(s, from) == \A i \in 1..Len(s) : s[i] = from + i

Sequenced ==
    /\ Numbered(stored, 0)
    /\ Numbered(InHand, Len(stored))
    /\ ~failure => /\ Numbered(pending, Len(stored) + Len(InHand))
                   /\ submitted = Len(stored) + Len(InHand) + Len(pending)

Counted ==
    /\ Len(stored) <= submitted
    /\ durable_through = IF worker = "appended" THEN Len(stored) - Len(batch) ELSE Len(stored)
    /\ promised <= durable_through

OwnerPC == {"idle", "flush", "flush_notify", "flush_check", "flush_asleep",
            "stop_set", "stop_notify", "stop_join", "stopped"}
ClientPC == {"idle", "submit", "submit_asleep", "submit_notify",
             "flush", "flush_notify", "flush_check", "flush_asleep"}

Phased ==
    /\ failure => worker = "exited" /\ shutdown
    /\ shutdown => failure \/ stopping
    /\ pc[Owner] \in OwnerPC
    /\ \A c \in Client : pc[c] \in ClientPC /\ (stopping => pc[c] = "idle")
    /\ ~stopping => pc[Owner] = "idle"

\* A flush that still waits: its claims are in hand or stored, or its request stands.
Requested ==
    \A t \in Thread :
        pc[t] \in {"flush_notify", "flush_check", "flush_asleep"} /\ ~failure =>
            target[t] <= Len(stored) + Len(InHand) \/ flush_requested

WriterInv ==
    TypeOK /\ Sequenced /\ Counted /\ Phased /\ Requested /\ NoLostWakeup

\* Two runs of numbers laid end to end.
LEMMA Joined ==
    ASSUME NEW s \in Seq(Nat), NEW b \in Seq(Nat), NEW from \in Nat,
           Numbered(s, from), Numbered(b, from + Len(s))
    PROVE  /\ s \o b \in Seq(Nat) /\ Len(s \o b) = Len(s) + Len(b)
           /\ Numbered(s \o b, from)
<1>1. /\ s \o b \in Seq(Nat) /\ Len(s) \in Nat /\ Len(b) \in Nat /\ Len(s \o b) = Len(s) + Len(b)
      /\ \A i \in 1..(Len(s) + Len(b)) : (s \o b)[i] = IF i <= Len(s) THEN s[i] ELSE b[i - Len(s)]
  BY ConcatProperties
<1>2. ASSUME NEW i \in 1..(Len(s) + Len(b))
      PROVE  (s \o b)[i] = from + i
  <2>1. CASE i <= Len(s)
    BY <1>1, <2>1 DEF Numbered
  <2>2. CASE i > Len(s)
    <3>1. i - Len(s) \in 1..Len(b)
      BY <1>1, <2>2
    <3> QED BY <1>1, <2>2, <3>1 DEF Numbered
  <2> QED BY <1>1, <2>1, <2>2
<1> QED BY <1>1, <1>2 DEF Numbered

\* The next number after a run.
LEMMA Pushed ==
    ASSUME NEW s \in Seq(Nat), NEW from \in Nat, Numbered(s, from)
    PROVE  /\ Append(s, from + Len(s) + 1) \in Seq(Nat)
           /\ Len(Append(s, from + Len(s) + 1)) = Len(s) + 1
           /\ Numbered(Append(s, from + Len(s) + 1), from)
<1>1. Len(s) \in Nat /\ from + Len(s) + 1 \in Nat
  OBVIOUS
<1>2. /\ Append(s, from + Len(s) + 1) \in Seq(Nat)
      /\ Len(Append(s, from + Len(s) + 1)) = Len(s) + 1
      /\ \A i \in 1..Len(s) : Append(s, from + Len(s) + 1)[i] = s[i]
      /\ Append(s, from + Len(s) + 1)[Len(s) + 1] = from + Len(s) + 1
  BY <1>1, AppendProperties
<1>3. ASSUME NEW i \in 1..(Len(s) + 1)
      PROVE  Append(s, from + Len(s) + 1)[i] = from + i
  <2>1. i \in 1..Len(s) \/ i = Len(s) + 1
    BY <1>1
  <2> QED BY <1>1, <1>2, <2>1 DEF Numbered
<1> QED BY <1>2, <1>3 DEF Numbered

\* A run of numbers cut in two.
LEMMA Cut ==
    ASSUME NEW s \in Seq(Nat), NEW from \in Nat, NEW k \in 0..Len(s), Numbered(s, from)
    PROVE  /\ SubSeq(s, 1, k) \in Seq(Nat) /\ Len(SubSeq(s, 1, k)) = k
           /\ SubSeq(s, k + 1, Len(s)) \in Seq(Nat)
           /\ Len(SubSeq(s, k + 1, Len(s))) = Len(s) - k
           /\ Numbered(SubSeq(s, 1, k), from)
           /\ Numbered(SubSeq(s, k + 1, Len(s)), from + k)
<1>1. Len(s) \in Nat /\ k \in Nat
  OBVIOUS
<1>2. /\ SubSeq(s, 1, k) \in Seq(Nat) /\ Len(SubSeq(s, 1, k)) = k
      /\ \A i \in 1..k : SubSeq(s, 1, k)[i] = s[i]
  BY SubSeqProperties, <1>1
<1>3. /\ SubSeq(s, k + 1, Len(s)) \in Seq(Nat)
      /\ Len(SubSeq(s, k + 1, Len(s))) = Len(s) - k
      /\ \A i \in 1..(Len(s) - k) : SubSeq(s, k + 1, Len(s))[i] = s[k + i]
  BY SubSeqProperties, <1>1
<1>4. Numbered(SubSeq(s, 1, k), from)
  BY <1>1, <1>2 DEF Numbered
<1>5. Numbered(SubSeq(s, k + 1, Len(s)), from + k)
  BY <1>1, <1>3 DEF Numbered
<1> QED BY <1>2, <1>3, <1>4, <1>5

\* A client entering submit disturbs nothing.
LEMMA SubmitCallStep ==
    ASSUME WriterInv, NEW c \in Client, SubmitCall(c)
    PROVE  WriterInv'
<1> USE OwnerAssumption, ConfigAssumption DEF SubmitCall, Goto, state, Thread, WriterInv
<1>1. TypeOK'
  BY DEF TypeOK, ThreadPC, WorkerPC, Counted, Phased, Sequenced, InHand
<1>2. Sequenced'
  BY DEF TypeOK, Sequenced, InHand, Numbered, Phased, WorkerPC
<1>3. Counted'
  BY DEF TypeOK, Sequenced, InHand, Counted, Phased, WorkerPC
<1>4. Phased'
  BY DEF TypeOK, Phased, OwnerPC, ClientPC
<1>5. Requested'
  BY DEF TypeOK, Requested, InHand, Sequenced, Counted, Phased
<1>6. NoLostWakeup'
  BY DEF TypeOK, NoLostWakeup, Requested, InHand, Sequenced, Counted, Phased, ClientPC, OwnerPC
<1> QED BY <1>1, <1>2, <1>3, <1>4, <1>5, <1>6

\* A client entering flush disturbs nothing.
LEMMA FlushCallStep ==
    ASSUME WriterInv, NEW c \in Client, FlushCall(c)
    PROVE  WriterInv'
<1> USE OwnerAssumption, ConfigAssumption DEF FlushCall, Goto, state, Thread, WriterInv
<1>1. TypeOK'
  BY DEF TypeOK, ThreadPC, WorkerPC, Counted, Phased, Sequenced, InHand
<1>2. Sequenced'
  BY DEF TypeOK, Sequenced, InHand, Numbered, Phased, WorkerPC
<1>3. Counted'
  BY DEF TypeOK, Sequenced, InHand, Counted, Phased, WorkerPC
<1>4. Phased'
  BY DEF TypeOK, Phased, OwnerPC, ClientPC
<1>5. Requested'
  BY DEF TypeOK, Requested, InHand, Sequenced, Counted, Phased
<1>6. NoLostWakeup'
  BY DEF TypeOK, NoLostWakeup, Requested, InHand, Sequenced, Counted, Phased, ClientPC, OwnerPC
<1> QED BY <1>1, <1>2, <1>3, <1>4, <1>5, <1>6

\* submit numbers the claim it queues after everything queued, in hand and stored.
LEMMA SubmitBodyStep ==
    ASSUME WriterInv, NEW c \in Client, SubmitBody(c)
    PROVE  WriterInv'
<1> USE OwnerAssumption, ConfigAssumption DEF SubmitBody, Goto, state, QueueFull, Thread, WriterInv
<1>1. TypeOK'
  <2>1. pending' \in Seq(Nat) /\ batch' \in Seq(Nat) /\ stored' \in Seq(Nat)
    <3>1. pending' = pending \/ pending' = Append(pending, submitted + 1)
      OBVIOUS
    <3>2. pending \in Seq(Nat) /\ submitted + 1 \in Nat /\ UNCHANGED <<batch, stored>>
      BY DEF TypeOK
    <3>3. Append(pending, submitted + 1) \in Seq(Nat)
      BY <3>2, AppendProperties
    <3>4. batch' \in Seq(Nat) /\ stored' \in Seq(Nat)
      BY <3>2 DEF TypeOK
    <3> QED BY ONLY <3>1, <3>2, <3>3, <3>4
  <2>2. /\ submitted' \in Nat /\ durable_through' \in 0..submitted'
        /\ promised' \in 0..submitted'
    BY DEF TypeOK
  <2>3. /\ failure' \in BOOLEAN /\ flush_requested' \in BOOLEAN
        /\ shutdown' \in BOOLEAN /\ stopping' \in BOOLEAN
    BY DEF TypeOK
  <2>4. pc' \in [Thread -> ThreadPC]
    BY DEF TypeOK, ThreadPC
  <2>5. target' \in [Thread -> 0..submitted']
    BY DEF TypeOK
  <2>6. worker' \in WorkerPC
    BY DEF TypeOK, WorkerPC
  <2> QED BY <2>1, <2>2, <2>3, <2>4, <2>5, <2>6 DEF TypeOK
<1>2. Sequenced'
  <2>1. CASE UNCHANGED <<pending, submitted>>
    BY <2>1 DEF TypeOK, Sequenced, InHand, Numbered, Phased, WorkerPC
  <2>2. CASE ~failure /\ pending' = Append(pending, submitted + 1) /\ submitted' = submitted + 1
    <3>1. UNCHANGED <<InHand, stored, failure>>
      BY DEF InHand
    <3>2. /\ Len(stored) \in Nat /\ Len(InHand) \in Nat /\ Len(pending) \in Nat
          /\ submitted \in Nat /\ pending \in Seq(Nat)
      BY DEF TypeOK, InHand
    <3>3. /\ Numbered(pending, Len(stored) + Len(InHand))
          /\ submitted = Len(stored) + Len(InHand) + Len(pending)
          /\ Numbered(stored, 0) /\ Numbered(InHand, Len(stored))
      BY <2>2 DEF Sequenced
    <3>4. /\ Numbered(pending', Len(stored) + Len(InHand))
          /\ Len(pending') = Len(pending) + 1
      <4>1. Len(stored) + Len(InHand) \in Nat
        BY <3>2
      <4> HIDE DEF WriterInv, SubmitBody
      <4> QED BY <2>2, <3>2, <3>3, <4>1, Pushed
    <3>5. submitted' = Len(stored) + Len(InHand) + (Len(pending) + 1)
      BY <2>2, <3>2, <3>3
    <3> QED BY <3>1, <3>3, <3>4, <3>5 DEF Sequenced
  <2> QED BY <2>1, <2>2
<1>3. Counted'
  BY DEF TypeOK, Sequenced, InHand, Counted, Phased, WorkerPC
<1>4. Phased'
  BY DEF TypeOK, Phased, OwnerPC, ClientPC
<1>5. Requested'
  BY DEF TypeOK, Requested, InHand, Sequenced, Counted, Phased
<1>6. NoLostWakeup'
  BY DEF TypeOK, NoLostWakeup, Requested, InHand, Sequenced, Counted, Phased, ClientPC, OwnerPC
<1> QED BY <1>1, <1>2, <1>3, <1>4, <1>5, <1>6

\* The wake-up after a full batch disturbs nothing.
LEMMA SubmitNotifyStep ==
    ASSUME WriterInv, NEW c \in Client, SubmitNotify(c)
    PROVE  WriterInv'
<1> USE OwnerAssumption, ConfigAssumption DEF SubmitNotify, Goto, state, NotifyWork, Thread, WriterInv
<1>1. TypeOK'
  BY DEF TypeOK, ThreadPC, WorkerPC, Counted, Phased, Sequenced, InHand
<1>2. Sequenced'
  BY DEF TypeOK, Sequenced, InHand, Numbered, Phased, WorkerPC
<1>3. Counted'
  BY DEF TypeOK, Sequenced, InHand, Counted, Phased, WorkerPC
<1>4. Phased'
  BY DEF TypeOK, Phased, OwnerPC, ClientPC
<1>5. Requested'
  BY DEF TypeOK, Requested, InHand, Sequenced, Counted, Phased
<1>6. NoLostWakeup'
  BY DEF TypeOK, NoLostWakeup, Requested, InHand, Sequenced, Counted, Phased, ClientPC, OwnerPC
<1> QED BY <1>1, <1>2, <1>3, <1>4, <1>5, <1>6

\* flush fixes its target and, when it has to wait, leaves its request standing.
LEMMA FlushBodyStep ==
    ASSUME WriterInv, NEW t \in Thread, FlushBody(t)
    PROVE  WriterInv'
<1> USE OwnerAssumption, ConfigAssumption DEF FlushBody, Goto, state, AfterFlush, Thread, WriterInv
<1>1. TypeOK'
  <2>1. pending' \in Seq(Nat) /\ batch' \in Seq(Nat) /\ stored' \in Seq(Nat)
    BY DEF TypeOK
  <2>2. /\ submitted' \in Nat /\ durable_through' \in 0..submitted'
        /\ promised' \in 0..submitted'
    BY DEF TypeOK
  <2>3. /\ failure' \in BOOLEAN /\ flush_requested' \in BOOLEAN
        /\ shutdown' \in BOOLEAN /\ stopping' \in BOOLEAN
    BY DEF TypeOK
  <2>4. pc' \in [Thread -> ThreadPC]
    BY DEF TypeOK, ThreadPC
  <2>5. target' \in [Thread -> 0..submitted']
    BY DEF TypeOK
  <2>6. worker' \in WorkerPC
    BY DEF TypeOK, WorkerPC
  <2> QED BY <2>1, <2>2, <2>3, <2>4, <2>5, <2>6 DEF TypeOK
<1>2. Sequenced'
  BY DEF TypeOK, Sequenced, InHand, Numbered, Phased, WorkerPC
<1>3. Counted'
  BY DEF TypeOK, Sequenced, InHand, Counted, Phased, WorkerPC
<1>4. Phased'
  BY DEF TypeOK, Phased, OwnerPC, ClientPC
<1>5. Requested'
  BY DEF TypeOK, Requested, InHand, Sequenced, Counted, Phased
<1>6. NoLostWakeup'
  BY DEF TypeOK, NoLostWakeup, Requested, InHand, Sequenced, Counted, Phased, ClientPC, OwnerPC
<1> QED BY <1>1, <1>2, <1>3, <1>4, <1>5, <1>6

\* Once a flush has sent its notification the commit thread is awake.
LEMMA FlushNotifyStep ==
    ASSUME WriterInv, NEW t \in Thread, FlushNotify(t)
    PROVE  WriterInv'
<1> USE OwnerAssumption, ConfigAssumption DEF FlushNotify, Goto, state, NotifyWork, Thread, WriterInv
<1>1. TypeOK'
  BY DEF TypeOK, ThreadPC, WorkerPC, Counted, Phased, Sequenced, InHand
<1>2. Sequenced'
  BY DEF TypeOK, Sequenced, InHand, Numbered, Phased, WorkerPC
<1>3. Counted'
  BY DEF TypeOK, Sequenced, InHand, Counted, Phased, WorkerPC
<1>4. Phased'
  BY DEF TypeOK, Phased, OwnerPC, ClientPC
<1>5. Requested'
  BY DEF TypeOK, Requested, InHand, Sequenced, Counted, Phased
<1>6. NoLostWakeup'
  BY DEF TypeOK, NoLostWakeup, Requested, InHand, Sequenced, Counted, Phased, ClientPC, OwnerPC
<1> QED BY <1>1, <1>2, <1>3, <1>4, <1>5, <1>6

\* A flush returns Ok only for what is durable, and sleeps only while it is not.
LEMMA FlushWaitStep ==
    ASSUME WriterInv, NEW t \in Thread, FlushWait(t)
    PROVE  WriterInv'
<1> USE OwnerAssumption, ConfigAssumption DEF FlushWait, Goto, state, AfterFlush, Thread, WriterInv
<1>1. TypeOK'
  <2>1. pending' \in Seq(Nat) /\ batch' \in Seq(Nat) /\ stored' \in Seq(Nat)
    BY DEF TypeOK
  <2>2. /\ submitted' \in Nat /\ durable_through' \in 0..submitted'
        /\ promised' \in 0..submitted'
    BY DEF TypeOK
  <2>3. /\ failure' \in BOOLEAN /\ flush_requested' \in BOOLEAN
        /\ shutdown' \in BOOLEAN /\ stopping' \in BOOLEAN
    BY DEF TypeOK
  <2>4. pc' \in [Thread -> ThreadPC]
    BY DEF TypeOK, ThreadPC
  <2>5. target' \in [Thread -> 0..submitted']
    BY DEF TypeOK
  <2>6. worker' \in WorkerPC
    BY DEF TypeOK, WorkerPC
  <2> QED BY <2>1, <2>2, <2>3, <2>4, <2>5, <2>6 DEF TypeOK
<1>2. Sequenced'
  BY DEF TypeOK, Sequenced, InHand, Numbered, Phased, WorkerPC
<1>3. Counted'
  BY DEF TypeOK, Sequenced, InHand, Counted, Phased, WorkerPC
<1>4. Phased'
  BY DEF TypeOK, Phased, OwnerPC, ClientPC
<1>5. Requested'
  BY DEF TypeOK, Requested, InHand, Sequenced, Counted, Phased
<1>6. NoLostWakeup'
  BY DEF TypeOK, NoLostWakeup, Requested, InHand, Sequenced, Counted, Phased, ClientPC, OwnerPC
<1> QED BY <1>1, <1>2, <1>3, <1>4, <1>5, <1>6

\* A client that wakes without a notification disturbs nothing.
LEMMA SpuriousWakeStep ==
    ASSUME WriterInv, NEW t \in Thread, SpuriousWake(t)
    PROVE  WriterInv'
<1> USE OwnerAssumption, ConfigAssumption DEF SpuriousWake, Goto, state, Thread, WriterInv
<1>1. TypeOK'
  BY DEF TypeOK, ThreadPC, WorkerPC, Counted, Phased, Sequenced, InHand
<1>2. Sequenced'
  BY DEF TypeOK, Sequenced, InHand, Numbered, Phased, WorkerPC
<1>3. Counted'
  BY DEF TypeOK, Sequenced, InHand, Counted, Phased, WorkerPC
<1>4. Phased'
  BY DEF TypeOK, Phased, OwnerPC, ClientPC
<1>5. Requested'
  BY DEF TypeOK, Requested, InHand, Sequenced, Counted, Phased
<1>6. NoLostWakeup'
  BY DEF TypeOK, NoLostWakeup, Requested, InHand, Sequenced, Counted, Phased, ClientPC, OwnerPC
<1> QED BY <1>1, <1>2, <1>3, <1>4, <1>5, <1>6

\* stop begins when no client is inside a call.
LEMMA StopStep ==
    ASSUME WriterInv, Stop
    PROVE  WriterInv'
<1> USE OwnerAssumption, ConfigAssumption DEF Stop, Goto, state, Thread, WriterInv
<1>1. TypeOK'
  BY DEF TypeOK, ThreadPC, WorkerPC, Counted, Phased, Sequenced, InHand
<1>2. Sequenced'
  BY DEF TypeOK, Sequenced, InHand, Numbered, Phased, WorkerPC
<1>3. Counted'
  BY DEF TypeOK, Sequenced, InHand, Counted, Phased, WorkerPC
<1>4. Phased'
  BY DEF TypeOK, Phased, OwnerPC, ClientPC
<1>5. Requested'
  BY DEF TypeOK, Requested, InHand, Sequenced, Counted, Phased
<1>6. NoLostWakeup'
  BY DEF TypeOK, NoLostWakeup, Requested, InHand, Sequenced, Counted, Phased, ClientPC, OwnerPC
<1> QED BY <1>1, <1>2, <1>3, <1>4, <1>5, <1>6

\* stop raises shutdown when its flush has returned.
LEMMA StopSetStep ==
    ASSUME WriterInv, StopSet
    PROVE  WriterInv'
<1> USE OwnerAssumption, ConfigAssumption DEF StopSet, Goto, state, Thread, WriterInv
<1>1. TypeOK'
  BY DEF TypeOK, ThreadPC, WorkerPC, Counted, Phased, Sequenced, InHand
<1>2. Sequenced'
  BY DEF TypeOK, Sequenced, InHand, Numbered, Phased, WorkerPC
<1>3. Counted'
  BY DEF TypeOK, Sequenced, InHand, Counted, Phased, WorkerPC
<1>4. Phased'
  BY DEF TypeOK, Phased, OwnerPC, ClientPC
<1>5. Requested'
  BY DEF TypeOK, Requested, InHand, Sequenced, Counted, Phased
<1>6. NoLostWakeup'
  BY DEF TypeOK, NoLostWakeup, Requested, InHand, Sequenced, Counted, Phased, ClientPC, OwnerPC
<1> QED BY <1>1, <1>2, <1>3, <1>4, <1>5, <1>6

\* The wake-up of stop disturbs nothing.
LEMMA StopNotifyStep ==
    ASSUME WriterInv, StopNotify
    PROVE  WriterInv'
<1> USE OwnerAssumption, ConfigAssumption DEF StopNotify, Goto, state, NotifyWork, Thread, WriterInv
<1>1. TypeOK'
  BY DEF TypeOK, ThreadPC, WorkerPC, Counted, Phased, Sequenced, InHand
<1>2. Sequenced'
  BY DEF TypeOK, Sequenced, InHand, Numbered, Phased, WorkerPC
<1>3. Counted'
  BY DEF TypeOK, Sequenced, InHand, Counted, Phased, WorkerPC
<1>4. Phased'
  BY DEF TypeOK, Phased, OwnerPC, ClientPC
<1>5. Requested'
  BY DEF TypeOK, Requested, InHand, Sequenced, Counted, Phased
<1>6. NoLostWakeup'
  BY DEF TypeOK, NoLostWakeup, Requested, InHand, Sequenced, Counted, Phased, ClientPC, OwnerPC
<1> QED BY <1>1, <1>2, <1>3, <1>4, <1>5, <1>6

\* Joining the commit thread disturbs nothing.
LEMMA StopJoinStep ==
    ASSUME WriterInv, StopJoin
    PROVE  WriterInv'
<1> USE OwnerAssumption, ConfigAssumption DEF StopJoin, Goto, state, Thread, WriterInv
<1>1. TypeOK'
  BY DEF TypeOK, ThreadPC, WorkerPC, Counted, Phased, Sequenced, InHand
<1>2. Sequenced'
  BY DEF TypeOK, Sequenced, InHand, Numbered, Phased, WorkerPC
<1>3. Counted'
  BY DEF TypeOK, Sequenced, InHand, Counted, Phased, WorkerPC
<1>4. Phased'
  BY DEF TypeOK, Phased, OwnerPC, ClientPC
<1>5. Requested'
  BY DEF TypeOK, Requested, InHand, Sequenced, Counted, Phased
<1>6. NoLostWakeup'
  BY DEF TypeOK, NoLostWakeup, Requested, InHand, Sequenced, Counted, Phased, ClientPC, OwnerPC
<1> QED BY <1>1, <1>2, <1>3, <1>4, <1>5, <1>6

\* Draining a batch moves the front of the queue into the commit thread's hand: no claim
\* changes its place, whoever waited for room is awake, and a request is dropped only when
\* nothing is left in the queue (commit_loop).
LEMMA TakeBatchStep ==
    ASSUME WriterInv, worker \in {"look", "asleep"}, pending # <<>>, TakeBatch,
           UNCHANGED <<submitted, durable_through, failure, shutdown,
                       stopping, target, stored, promised>>
    PROVE  WriterInv'
<1> DEFINE take == IF Len(pending) < MaxPerBatch THEN Len(pending) ELSE MaxPerBatch
<1>1. /\ pending \in Seq(Nat) /\ stored \in Seq(Nat) /\ ~failure /\ InHand = <<>>
      /\ Numbered(stored, 0) /\ Numbered(pending, Len(stored))
      /\ submitted = Len(stored) + Len(pending)
  BY DEF WriterInv, TypeOK, Phased, Sequenced, InHand
<1>2. take \in 1..Len(pending)
  BY <1>1, ConfigAssumption
<1>3. /\ batch' = SubSeq(pending, 1, take)
      /\ pending' = SubSeq(pending, take + 1, Len(pending))
      /\ flush_requested' = IF take = Len(pending) THEN FALSE ELSE flush_requested
      /\ pc' = [t \in Thread |-> IF pc[t] = "submit_asleep" THEN "submit" ELSE pc[t]]
      /\ worker' = "append"
  BY DEF TakeBatch, WakeAll
<1> HIDE DEF take
<1>4. /\ batch' \in Seq(Nat) /\ Len(batch') = take
      /\ pending' \in Seq(Nat) /\ Len(pending') = Len(pending) - take
      /\ Numbered(batch', Len(stored)) /\ Numbered(pending', Len(stored) + take)
  <2>1. Len(stored) \in Nat /\ take \in 0..Len(pending)
    BY <1>1, <1>2
  <2> QED BY Cut, <1>1, <1>3, <2>1
<1>5. InHand' = batch'
  BY <1>3 DEF InHand
<1>6. TypeOK'
  <2>1. pc' \in [Thread -> ThreadPC]
    BY <1>3 DEF WriterInv, TypeOK, ThreadPC
  <2> QED BY <1>3, <1>4, <2>1 DEF WriterInv, TypeOK, WorkerPC
<1>7. Sequenced'
  <2>1. submitted = Len(stored) + take + (Len(pending) - take)
    BY <1>1, <1>2
  <2> QED BY <1>1, <1>4, <1>5, <2>1 DEF Sequenced
<1>8. Counted'
  BY <1>3 DEF WriterInv, Counted
<1>9. Phased'
  BY <1>1, <1>3, OwnerAssumption DEF WriterInv, TypeOK, Phased, OwnerPC, ClientPC, Thread
<1>10. Requested'
  <2> SUFFICES ASSUME NEW t \in Thread, pc'[t] \in {"flush_notify", "flush_check", "flush_asleep"}
               PROVE  target[t] <= Len(stored) + Len(batch') \/ flush_requested'
    BY <1>1, <1>5 DEF Requested
  <2>1. pc[t] = pc'[t]
    BY <1>3
  <2>2. CASE take = Len(pending)
    <3>1. target[t] \in 0..submitted
      BY DEF WriterInv, TypeOK
    <3> QED BY <1>1, <1>4, <2>2, <3>1
  <2>3. CASE take # Len(pending)
    <3>1. target[t] <= Len(stored) + Len(InHand) \/ flush_requested
      BY <1>1, <2>1 DEF WriterInv, Requested
    <3>2. target[t] \in Nat /\ Len(stored) \in Nat /\ Len(InHand) = 0 /\ take \in Nat
      BY <1>1, <1>2 DEF WriterInv, TypeOK
    <3> QED BY <1>3, <1>4, <2>3, <3>1, <3>2
  <2> QED BY <2>2, <2>3
<1>11. NoLostWakeup'
  BY <1>1, <1>3 DEF WriterInv, TypeOK, NoLostWakeup
<1> QED BY <1>6, <1>7, <1>8, <1>9, <1>10, <1>11 DEF WriterInv


\* A pass of the commit loop keeps the invariant; it does not go to sleep on a request.
LEMMA LookStep ==
    ASSUME WriterInv, Look
    PROVE  WriterInv'
<1>1. CASE pending # <<>> /\ TakeBatch
  BY <1>1, TakeBatchStep DEF Look
<1>2. CASE UNCHANGED <<pending, pc, batch>> /\ worker' \in {"exited", "asleep"}
             /\ (flush_requested' = flush_requested \/ pending = <<>>)
             /\ (worker' = "asleep" => ~shutdown /\ (pending = <<>> \/ ~flush_requested))
             /\ (worker' = "exited" => shutdown /\ pending = <<>>)
  <2> USE OwnerAssumption, ConfigAssumption DEF Look, state, Thread, WriterInv
  <2>1. TypeOK'
    BY <1>2 DEF TypeOK, ThreadPC, WorkerPC, Counted, Phased, Sequenced, InHand
  <2>2. Sequenced'
    BY <1>2 DEF TypeOK, Sequenced, InHand, Numbered, Phased, WorkerPC
  <2>3. Counted'
    BY <1>2 DEF TypeOK, Sequenced, InHand, Counted, Phased, WorkerPC
  <2>4. Phased'
    BY <1>2 DEF TypeOK, Phased, OwnerPC, ClientPC
  <2>5. Requested'
    BY <1>2 DEF TypeOK, Requested, InHand, Sequenced, Counted, Phased
  <2>6. NoLostWakeup'
    BY <1>2 DEF TypeOK, NoLostWakeup, Requested, InHand, Sequenced, Counted, Phased, ClientPC, OwnerPC
  <2> QED BY <2>1, <2>2, <2>3, <2>4, <2>5, <2>6
<1> QED BY <1>1, <1>2 DEF Look

\* A wait that expires takes whatever is queued.
LEMMA WaitTimesOutStep ==
    ASSUME WriterInv, WaitTimesOut
    PROVE  WriterInv'
<1>1. CASE pending # <<>> /\ TakeBatch
  BY <1>1, TakeBatchStep DEF WaitTimesOut
<1>2. CASE UNCHANGED <<pending, pc, batch, flush_requested>> /\ worker' = "look"
  <2> USE OwnerAssumption, ConfigAssumption DEF WaitTimesOut, state, Thread, WriterInv
  <2>1. TypeOK'
    BY <1>2 DEF TypeOK, ThreadPC, WorkerPC, Counted, Phased, Sequenced, InHand
  <2>2. Sequenced'
    BY <1>2 DEF TypeOK, Sequenced, InHand, Numbered, Phased, WorkerPC
  <2>3. Counted'
    BY <1>2 DEF TypeOK, Sequenced, InHand, Counted, Phased, WorkerPC
  <2>4. Phased'
    BY <1>2 DEF TypeOK, Phased, OwnerPC, ClientPC
  <2>5. Requested'
    BY <1>2 DEF TypeOK, Requested, InHand, Sequenced, Counted, Phased
  <2>6. NoLostWakeup'
    BY <1>2 DEF TypeOK, NoLostWakeup, Requested, InHand, Sequenced, Counted, Phased, ClientPC, OwnerPC
  <2> QED BY <2>1, <2>2, <2>3, <2>4, <2>5, <2>6
<1> QED BY <1>1, <1>2 DEF WaitTimesOut

\* An append moves the batch in hand to the end of the store, or nothing.
LEMMA AppendBatchStep ==
    ASSUME WriterInv, AppendBatch
    PROVE  WriterInv'
<1> USE OwnerAssumption, ConfigAssumption DEF AppendBatch, state, Thread, WriterInv
<1>1. TypeOK'
  <2>1. stored' = stored \o batch \/ stored' = stored
    OBVIOUS
  <2>2. stored' \in Seq(Nat)
    BY <2>1, ConcatProperties DEF TypeOK
  <2> QED BY <2>2 DEF TypeOK, WorkerPC
<1>2. Sequenced'
  <2>1. CASE UNCHANGED stored /\ worker' = "failed"
    BY <2>1 DEF TypeOK, Sequenced, InHand, Numbered, Phased, WorkerPC
  <2>2. CASE stored' = stored \o batch /\ worker' = "appended"
    <3>1. InHand = batch /\ InHand' = <<>>
      BY <2>2 DEF InHand
    <3>2. Numbered(stored, 0) /\ Numbered(batch, Len(stored)) /\ stored \in Seq(Nat) /\ batch \in Seq(Nat)
      BY <3>1 DEF Sequenced, TypeOK
    <3>3. Numbered(stored', 0) /\ Len(stored') = Len(stored) + Len(batch)
      BY <2>2, <3>2, Joined
    <3>4. Len(InHand') = 0 /\ Numbered(InHand', Len(stored'))
      BY <3>1 DEF Numbered
    <3>5. /\ ~failure /\ UNCHANGED <<failure, pending, submitted>>
          /\ Len(stored) \in Nat /\ Len(batch) \in Nat /\ Len(pending) \in Nat
      BY DEF TypeOK, Phased
    <3>6. /\ Numbered(pending, Len(stored) + Len(batch))
          /\ submitted = Len(stored) + Len(batch) + Len(pending)
      BY <3>1, <3>5 DEF Sequenced
    <3> QED BY <3>3, <3>4, <3>5, <3>6 DEF Sequenced
  <2> QED BY <2>1, <2>2
<1>3. Counted'
  BY DEF TypeOK, Sequenced, InHand, Counted, Phased, WorkerPC
<1>4. Phased'
  BY DEF TypeOK, Phased, OwnerPC, ClientPC
<1>5. Requested'
  BY DEF TypeOK, Requested, InHand, Sequenced, Counted, Phased
<1>6. NoLostWakeup'
  BY DEF TypeOK, NoLostWakeup, Requested, InHand, Sequenced, Counted, Phased, ClientPC, OwnerPC
<1> QED BY <1>1, <1>2, <1>3, <1>4, <1>5, <1>6

\* Recording a commit brings durable_through up to the store and wakes every flush.
LEMMA RecordCommitStep ==
    ASSUME WriterInv, RecordCommit
    PROVE  WriterInv'
<1> USE OwnerAssumption, ConfigAssumption DEF RecordCommit, WakeAll, state, Thread, WriterInv
<1>1. TypeOK'
  BY DEF TypeOK, ThreadPC, WorkerPC, Counted, Phased, Sequenced, InHand
<1>2. Sequenced'
  BY DEF TypeOK, Sequenced, InHand, Numbered, Phased, WorkerPC
<1>3. Counted'
  BY DEF TypeOK, Sequenced, InHand, Counted, Phased, WorkerPC
<1>4. Phased'
  BY DEF TypeOK, Phased, OwnerPC, ClientPC
<1>5. Requested'
  BY DEF TypeOK, Requested, InHand, Sequenced, Counted, Phased
<1>6. NoLostWakeup'
  BY DEF TypeOK, NoLostWakeup, Requested, InHand, Sequenced, Counted, Phased, ClientPC, OwnerPC
<1> QED BY <1>1, <1>2, <1>3, <1>4, <1>5, <1>6

\* Recording a failure wakes everyone who waits.
LEMMA RecordFailureStep ==
    ASSUME WriterInv, RecordFailure
    PROVE  WriterInv'
<1> USE OwnerAssumption, ConfigAssumption DEF RecordFailure, state, Thread, WriterInv
<1>1. TypeOK'
  BY DEF TypeOK, ThreadPC, WorkerPC, Counted, Phased, Sequenced, InHand
<1>2. Sequenced'
  BY DEF TypeOK, Sequenced, InHand, Numbered, Phased, WorkerPC
<1>3. Counted'
  BY DEF TypeOK, Sequenced, InHand, Counted, Phased, WorkerPC
<1>4. Phased'
  BY DEF TypeOK, Phased, OwnerPC, ClientPC
<1>5. Requested'
  BY DEF TypeOK, Requested, InHand, Sequenced, Counted, Phased
<1>6. NoLostWakeup'
  BY DEF TypeOK, NoLostWakeup, Requested, InHand, Sequenced, Counted, Phased, ClientPC, OwnerPC
<1> QED BY <1>1, <1>2, <1>3, <1>4, <1>5, <1>6

\* A commit thread that wakes without a notification disturbs nothing.
LEMMA SpuriousWorkerWakeStep ==
    ASSUME WriterInv, SpuriousWorkerWake
    PROVE  WriterInv'
<1> USE OwnerAssumption, ConfigAssumption DEF SpuriousWorkerWake, state, Thread, WriterInv
<1>1. TypeOK'
  BY DEF TypeOK, ThreadPC, WorkerPC, Counted, Phased, Sequenced, InHand
<1>2. Sequenced'
  BY DEF TypeOK, Sequenced, InHand, Numbered, Phased, WorkerPC
<1>3. Counted'
  BY DEF TypeOK, Sequenced, InHand, Counted, Phased, WorkerPC
<1>4. Phased'
  BY DEF TypeOK, Phased, OwnerPC, ClientPC
<1>5. Requested'
  BY DEF TypeOK, Requested, InHand, Sequenced, Counted, Phased
<1>6. NoLostWakeup'
  BY DEF TypeOK, NoLostWakeup, Requested, InHand, Sequenced, Counted, Phased, ClientPC, OwnerPC
<1> QED BY <1>1, <1>2, <1>3, <1>4, <1>5, <1>6

\* Init and every step: WriterInv is inductive.
LEMMA WriterInvInductive == Spec => []WriterInv
<1>1. ASSUME Init
      PROVE  WriterInv
  <2> USE <1>1 DEF Init
  <2>1. TypeOK
    <3>1. /\ pending \in Seq(Nat) /\ batch \in Seq(Nat) /\ stored \in Seq(Nat)
          /\ submitted \in Nat /\ durable_through \in 0..submitted /\ promised \in 0..submitted
      OBVIOUS
    <3>2. pc \in [Thread -> ThreadPC] /\ target \in [Thread -> 0..submitted]
      BY DEF ThreadPC
    <3> QED BY <3>1, <3>2 DEF TypeOK, WorkerPC
  <2>2. Sequenced /\ Counted
    BY DEF Sequenced, Numbered, InHand, Counted
  <2>3. Phased
    BY OwnerAssumption DEF Phased, OwnerPC, ClientPC, Thread
  <2>4. Requested /\ NoLostWakeup
    BY DEF Requested, NoLostWakeup
  <2> QED BY <2>1, <2>2, <2>3, <2>4 DEF WriterInv
<1>2. WriterInv /\ UNCHANGED vars => WriterInv'
  BY DEF vars, WriterInv, TypeOK, Sequenced, Numbered, InHand, Counted, Phased, Requested, NoLostWakeup
<1>3. ASSUME WriterInv, Next
      PROVE  WriterInv'
  <2>1. ASSUME NEW c \in Client, SubmitCall(c) \/ FlushCall(c) \/ Submit(c)
        PROVE  WriterInv'
    BY <1>3, <2>1, SubmitCallStep, FlushCallStep, SubmitBodyStep, SubmitNotifyStep DEF Submit
  <2>2. ASSUME NEW t \in Thread, Flush(t) \/ SpuriousWake(t)
        PROVE  WriterInv'
    BY <1>3, <2>2, FlushBodyStep, FlushNotifyStep, FlushWaitStep, SpuriousWakeStep DEF Flush
  <2>3. CASE Shutdown
    BY <1>3, <2>3, StopSetStep, StopNotifyStep, StopJoinStep DEF Shutdown
  <2>4. CASE CommitLoop
    BY <1>3, <2>4, LookStep, WaitTimesOutStep, AppendBatchStep, RecordCommitStep, RecordFailureStep
       DEF CommitLoop
  <2> QED BY <1>3, <2>1, <2>2, <2>3, <2>4, StopStep, SpuriousWorkerWakeStep DEF Next
<1> QED BY <1>1, <1>2, <1>3, PTL DEF Spec

\* The state of the writer keeps its types, and neither durable_through nor what a flush
\* promised ever passes State::submitted, for any number of threads and any configuration.
THEOREM WriterTypes == Spec => []TypeOK
<1>1. WriterInv => TypeOK
  BY DEF WriterInv
<1> QED BY <1>1, WriterInvInductive, PTL

\* When flush returns Ok, every claim submitted before it is in the store: the commit
\* thread counts a batch as durable only after append_batch returned.
THEOREM FlushDurable == Spec => []FlushIsDurable
<1>1. WriterInv => FlushIsDurable
  <2> SUFFICES ASSUME WriterInv, NEW n \in 1..promised
               PROVE  n <= Len(stored)
    BY DEF FlushIsDurable
  <2>1. /\ Len(stored) \in Nat /\ Len(batch) \in Nat /\ promised \in Nat
        /\ durable_through \in Nat /\ promised <= durable_through
    BY DEF WriterInv, TypeOK, Counted
  <2>2. durable_through <= Len(stored)
    BY <2>1 DEF WriterInv, Counted
  <2> QED BY <2>1, <2>2
<1> QED BY <1>1, WriterInvInductive, PTL

\* Claims reach the store in the order submit accepted them, none lost or repeated,
\* whatever the batch size and however the clients interleave.
THEOREM InOrder == Spec => []AcceptedInOrder
<1>1. WriterInv => AcceptedInOrder
  <2> SUFFICES ASSUME WriterInv
               PROVE  AcceptedInOrder
    OBVIOUS
  <2> DEFINE rest == IF failure THEN <<>> ELSE InHand \o pending
  <2>1. /\ stored \in Seq(Nat) /\ InHand \in Seq(Nat) /\ pending \in Seq(Nat)
        /\ Numbered(stored, 0) /\ Numbered(InHand, Len(stored))
        /\ ~failure => /\ Numbered(pending, Len(stored) + Len(InHand))
                       /\ submitted = Len(stored) + Len(InHand) + Len(pending)
    BY DEF WriterInv, TypeOK, Sequenced, InHand
  <2>2. /\ rest \in Seq(Nat) /\ Numbered(rest, Len(stored))
        /\ ~failure => Len(rest) = Len(InHand) + Len(pending)
    <3>1. CASE failure
      BY <3>1 DEF Numbered
    <3>2. CASE ~failure
      <4>1. Len(stored) \in Nat
        BY <2>1
      <4>2. Numbered(InHand \o pending, Len(stored)) /\ Len(InHand \o pending) = Len(InHand) + Len(pending)
        BY <2>1, <3>2, <4>1, Joined
      <4> QED BY <2>1, <3>2, <4>2
    <3> QED BY <3>1, <3>2
  <2> HIDE DEF rest
  <2>3. Numbered(stored \o rest, 0) /\ Len(stored \o rest) = Len(stored) + Len(rest)
    <3>1. 0 + Len(stored) = Len(stored)
      BY <2>1
    <3> QED BY <2>1, <2>2, <3>1, Joined
  <2>4. /\ \A n \in DOMAIN (stored \o rest) : (stored \o rest)[n] = n
        /\ ~failure => Len(stored \o rest) = submitted
    <3>1. /\ stored \o rest \in Seq(Nat) /\ DOMAIN (stored \o rest) = 1..Len(stored \o rest)
          /\ Len(stored) \in Nat /\ Len(InHand) \in Nat /\ Len(pending) \in Nat
      BY <2>1, <2>2
    <3>2. \A n \in 1..Len(stored \o rest) : (stored \o rest)[n] = n
      BY <2>3, <3>1 DEF Numbered
    <3>3. ASSUME ~failure
          PROVE  Len(stored \o rest) = submitted
      <4>1. /\ submitted = Len(stored) + Len(InHand) + Len(pending)
            /\ Len(rest) = Len(InHand) + Len(pending)
            /\ Len(stored \o rest) = Len(stored) + Len(rest)
        BY <2>1, <2>2, <2>3, <3>3
      <4> QED BY ONLY <3>1, <4>1
    <3> QED BY ONLY <3>1, <3>2, <3>3
  <2> QED BY <2>4 DEF AcceptedInOrder, InHand, rest
<1> QED BY <1>1, WriterInvInductive, PTL

\* No wake-up is lost: a client asleep on progress or drained has what it waits for still
\* to come, and the commit thread never sleeps on a flush that has notified it.
THEOREM NoWakeupLost == Spec => []NoLostWakeup
<1>1. WriterInv => NoLostWakeup
  BY DEF WriterInv
<1> QED BY <1>1, WriterInvInductive, PTL

=============================================================================
