---------------------------- MODULE MCKvDatabase ----------------------------
(***************************************************************************)
(* KvDatabase for TLC: the bundle another database of the same keys could  *)
(* send, and the symmetry of the keys.                                     *)
(***************************************************************************)
EXTENDS KvDatabase, TLC

CONSTANTS k1, v1

\* Databases that wrote k1 = v1 once, and twice with a compaction after it.
MCBundle ==
    {[sequence |-> n, segments |-> {{[key |-> k1, seq |-> n, value |-> v1]}}] : n \in 1..2}
NoBundle == {}

=============================================================================
