------------------------------- MODULE KvTypes -------------------------------
(***************************************************************************)
(* The data of the vyrm-kv storage engine, abstracted to what its reads    *)
(* can tell apart.                                                         *)
(*                                                                         *)
(* A version is one operation of an atomic batch together with the MVCC    *)
(* sequence number it was given.  Deleting a key stores the value None, so *)
(* a tombstone and an absent key answer a read alike, exactly as           *)
(* Option<Vec<u8>> does in the code.  Segments and manifests are addressed *)
(* by the SHA-256 of their content in the code; here a segment IS its set  *)
(* of versions and a manifest IS the record of its fields, which gives     *)
(* them the same identity.                                                 *)
(***************************************************************************)
EXTENDS Naturals, Sequences, FiniteSets

CONSTANTS
    Key,        \* the keys a client may write
    Value,      \* the values a client may put
    None,       \* "no value": the content of a tombstone, the answer for an absent key
    MaxBatch    \* bound: operations in one atomic batch

ASSUME NoneAssumption == None \notin Value
ASSUME MaxBatchAssumption == MaxBatch \in Nat \ {0}

Mutation == [key : Key, value : Value \cup {None}]

\* A batch is a non-empty sequence of mutations.
WriteBatch == UNION {[1..n -> Mutation] : n \in 1..MaxBatch}

Version == [key : Key, seq : Nat, value : Value \cup {None}]

\* The versions a batch becomes when its first operation gets number first.
BatchVersions(batch, first) ==
    {[key |-> batch[i].key, seq |-> first + i - 1, value |-> batch[i].value] :
        i \in DOMAIN batch}

\* v is the newest version of its key, in vs, that a read at sequence s sees.
Visible(vs, v, s) ==
    /\ v.seq <= s
    /\ \A w \in vs : w.key = v.key /\ w.seq <= s => w.seq <= v.seq

HasVersion(vs, k, s) == \E v \in vs : v.key = k /\ v.seq <= s

\* The answer of an MVCC read of vs: the newest version at or below s.
ReadAt(vs, k, s) ==
    IF \E v \in vs : v.key = k /\ Visible(vs, v, s)
      THEN (CHOOSE v \in vs : v.key = k /\ Visible(vs, v, s)).value
      ELSE None

\* The whole key space as a read at sequence s sees it.
ViewAt(vs, s) == [k \in Key |-> ReadAt(vs, k, s)]

=============================================================================
