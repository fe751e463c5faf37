--------------------------- MODULE RuntimeLogProofs ---------------------------
(***************************************************************************)
(* What the runtime log and its clients keep, for any scopes, clients,     *)
(* bodies, runs, former ledger and bounds.                                 *)
(*                                                                         *)
(* RuntimeInv comes first: the keyspaces are the replay of the log and     *)
(* what a client holds between two calls is still true of a beginning of   *)
(* it.  A commit extends the log by its own mutations (Extends), so each   *)
(* part of the invariant is shown once, of any commit, and then of the     *)
(* commits that the clients make.  From RuntimeInv follow the stamps; with *)
(* what a commit adds to traces (TraceInv) and to the ledger (LedgerInv),  *)
(* that a trace is committed once and the ledger stays linear; and last,   *)
(* that a commit makes the graph its preview showed.                       *)
(*                                                                         *)
(* A recursive function of the model is reasoned about along its values:   *)
(* the lemmas named Run give the function, those named Exists that there   *)
(* is one.                                                                 *)
(***************************************************************************)
EXTENDS RuntimeLog, SequenceTheorems, WellFoundedInduction, FiniteSetTheorems, TLAPS

\* A sequence, of whatever.
IsSeq(s) == /\ Len(s) \in Nat /\ DOMAIN s = 1..Len(s)
            /\ s = [i \in 1..Len(s) |-> s[i]]

LEMMA Elements ==
    ASSUME NEW s, IsSeq(s), NEW S, \A i \in 1..Len(s) : s[i] \in S
    PROVE  s \in Seq(S)
<1>1. s \in [1..Len(s) -> S] /\ Len(s) \in Nat
  BY DEF IsSeq
<1> QED BY <1>1

LEMMA Elemental ==
    ASSUME NEW S, NEW s \in Seq(S)
    PROVE  IsSeq(s)
BY DEF IsSeq

\* A concatenation holds what its parts hold.
LEMMA Concatenated ==
    ASSUME NEW s, NEW t, IsSeq(s), IsSeq(t)
    PROVE  /\ IsSeq(s \o t) /\ Len(s \o t) = Len(s) + Len(t)
           /\ \A i \in 1..Len(s) : (s \o t)[i] = s[i]
           /\ \A j \in 1..Len(t) : (s \o t)[Len(s) + j] = t[j]
<1> DEFINE S == {s[i] : i \in 1..Len(s)} \cup {t[i] : i \in 1..Len(t)}
<1>1. (\A i \in 1..Len(s) : s[i] \in S) /\ (\A i \in 1..Len(t) : t[i] \in S)
  OBVIOUS
<1> HIDE DEF S
<1>2. s \in Seq(S) /\ t \in Seq(S)
  BY <1>1, Elements
<1>3. s \o t \in Seq(S)
  BY <1>2
<1>4. IsSeq(s \o t)
  BY <1>3, Elemental
<1> QED BY <1>2, <1>4

\* A sequence written out as a function.
LEMMA Tabulated ==
    ASSUME NEW n \in Nat, NEW s, s = [i \in 1..n |-> s[i]]
    PROVE  IsSeq(s) /\ Len(s) = n
<1>1. Len(s) = n
  OBVIOUS
<1> QED BY <1>1 DEF IsSeq

-----------------------------------------------------------------------------
(* A commit that is not refused *)

\* At most one position of a commit is a schema.
LEMMA OneOfAtMostOne ==
    ASSUME NEW S, IsFiniteSet(S), Cardinality(S) <= 1, NEW a \in S, NEW b \in S
    PROVE  a = b
<1>1. IsFiniteSet(S \ {a}) /\ Cardinality(S \ {a}) = Cardinality(S) - 1
  BY FS_RemoveElement
<1>2. Cardinality(S) \in Nat /\ Cardinality(S \ {a}) \in Nat
  BY <1>1, FS_CardinalityType
<1>3. S \ {a} = {}
  BY <1>1, <1>2, FS_EmptySet
<1> QED BY <1>3

\* What a commit that is not refused has passed.
LEMMA NotRefused ==
    ASSUME NEW c, Refusal(c) = "none"
    PROVE  /\ CommitValid(c.mutations)
           /\ c.expected_cursor = Cursor
           /\ \A r \in Proposed(c.mutations) : r.revision = NextRevision(schemas[c.scope])
           /\ Effective(c) # NoSchema
           /\ ObjectsValid(Effective(c), c.mutations, records[c.scope], relations[c.scope])
           /\ ~Dangles(c)
BY DEF Refusal

LEMMA OneSchema ==
    ASSUME NEW ms, IsSeq(ms), CommitValid(ms),
           NEW i \in Positions(ms, "schema"), NEW j \in Positions(ms, "schema")
    PROVE  i = j
<1>0. 1 \in Int /\ Len(ms) \in Int
  BY DEF IsSeq
<1>1. IsFiniteSet(1..Len(ms))
  BY <1>0, FS_Interval
<1>2. IsFiniteSet(Positions(ms, "schema"))
  BY <1>1, FS_Subset DEF IsSeq, Positions
<1> QED BY <1>2, OneOfAtMostOne DEF CommitValid

\* The log of a commit: as before, and its mutations after that.
LEMMA AcceptedLog ==
    ASSUME IsSeq(changes), NEW c, IsSeq(c.mutations), Accept(c)
    PROVE  /\ IsSeq(changes')
           /\ Len(c.mutations) >= 1
           /\ Cursor' = Cursor + Len(c.mutations)
           /\ \A i \in 1..Cursor : changes'[i] = changes[i]
           /\ \A i \in 1..Len(c.mutations) : changes'[Cursor + i] = Change(c, i)
<1> DEFINE n == Len(c.mutations)
           new == [i \in 1..n |-> Change(c, i)]
<1>1. changes' = changes \o new /\ c.mutations # <<>>
  BY NotRefused DEF Accept, CommitValid
<1>2. n \in Nat /\ n >= 1
  BY <1>1 DEF IsSeq
<1>3. new = [i \in 1..n |-> new[i]] /\ \A i \in 1..n : new[i] = Change(c, i)
  OBVIOUS
<1> HIDE DEF new
<1>4. IsSeq(new) /\ Len(new) = n
  BY <1>2, <1>3, Tabulated
<1>5. /\ IsSeq(changes \o new) /\ Len(changes \o new) = Len(changes) + n
      /\ \A i \in 1..Len(changes) : (changes \o new)[i] = changes[i]
      /\ \A j \in 1..n : (changes \o new)[Len(changes) + j] = new[j]
  BY <1>4, Concatenated
<1> QED BY <1>1, <1>2, <1>3, <1>5 DEF Cursor
-----------------------------------------------------------------------------
(* Last positions *)

\* Induction up to a bound, from the principle of the least element.
LEMMA Induction ==
    ASSUME NEW G, NEW n \in Nat, 0 \in G, \A k \in 1..n : k - 1 \in G => k \in G
    PROVE  \A k \in 0..n : k \in G
<1> SUFFICES ASSUME NEW k \in 0..n, k \notin G PROVE FALSE
  OBVIOUS
<1> DEFINE Bad == {j \in Nat : j \in 0..n /\ j \notin G}
<1>1. Bad \subseteq Nat /\ k \in Bad
  OBVIOUS
<1>2. PICK j \in Bad : \A i \in Bad : <<i, j>> \notin OpToRel(<, Nat)
  BY <1>1, NatLessThanWellFounded, WFMin, Zenon
<1>3. \A i \in Bad : ~(i < j)
  BY <1>1, <1>2 DEF OpToRel
<1>4. j # 0 /\ j - 1 \in Nat /\ j - 1 < j
  OBVIOUS
<1>5. j - 1 \notin Bad
  BY <1>3, <1>4
<1> QED BY <1>4, <1>5

\* A set of positions has a last one.
LEMMA LastExists ==
    ASSUME NEW n \in Nat, NEW S \in SUBSET (1..n), NEW e \in S
    PROVE  \E m \in S : \A j \in S : j <= m
<1> DEFINE G == {k \in Nat : (\A j \in S : j <= k) => \E m \in S : \A j \in S : j <= m}
<1>1. 0 \in G
  OBVIOUS
<1>2. ASSUME NEW k \in 1..n, k - 1 \in G
      PROVE  k \in G
  <2>1. CASE k \in S
    BY <2>1
  <2>2. CASE k \notin S
    <3>1. (\A j \in S : j <= k) => \A j \in S : j <= k - 1
      BY <2>2
    <3> QED BY <1>2, <3>1
  <2> QED BY <2>1, <2>2
<1>3. n \in G
  <2> HIDE DEF G
  <2> QED BY <1>1, <1>2, Induction
<1> QED BY <1>3

\* The changes of a scope that write an object, and the last of them, in any log.
WritesTo(ch, n, scope, kind, ref) ==
    {i \in 1..n : /\ ch[i].scope = scope /\ ch[i].mutation.kind = kind
                  /\ ch[i].mutation[kind].reference = ref}
IsLastIn(S, m) == m \in S /\ \A j \in S : j <= m

\* An object map is what the first n changes of a log leave.
IsReplay(objects, ch, n, scope, kind) ==
    /\ objects = [ref \in DOMAIN objects |-> objects[ref]]
    /\ \A ref : ref \in DOMAIN objects <=> WritesTo(ch, n, scope, kind, ref) # {}
    /\ \A ref \in DOMAIN objects : \A m :
          IsLastIn(WritesTo(ch, n, scope, kind, ref), m) => objects[ref] = ch[m].mutation[kind]

LEMMA ReplayedIsReplay ==
    ASSUME NEW ch, IsSeq(ch), NEW s, NEW kind
    PROVE  /\ IsReplay(Replayed(ch, s, kind), ch, Len(ch), s, kind)
           /\ \A f : IsReplay(f, ch, Len(ch), s, kind) => f = Replayed(ch, s, kind)
<1>0. Len(ch) \in Nat
  BY DEF IsSeq
<1>1. ASSUME NEW ref, NEW m, IsLastIn(WritesTo(ch, Len(ch), s, kind, ref), m)
      PROVE  LastWrite(ch, s, kind, ref) = m
  <2> DEFINE x == LastWrite(ch, s, kind, ref)
  <2>1. /\ m \in Writes(ch, s, kind) /\ ch[m].mutation[kind].reference = ref
        /\ \A j \in Writes(ch, s, kind) : ch[j].mutation[kind].reference = ref => j <= m
    BY <1>1 DEF IsLastIn, WritesTo, Writes
  <2>2. /\ x \in Writes(ch, s, kind) /\ ch[x].mutation[kind].reference = ref
        /\ \A j \in Writes(ch, s, kind) : ch[j].mutation[kind].reference = ref => j <= x
    BY <2>1 DEF LastWrite
  <2>3. x <= m /\ m <= x /\ x \in Nat /\ m \in Nat
    BY <1>0, <2>1, <2>2 DEF Writes
  <2> HIDE DEF x
  <2>4. x = m
    BY <2>3
  <2> QED BY <2>4 DEF x
<1>2. \A ref : ref \in DOMAIN Replayed(ch, s, kind) <=> WritesTo(ch, Len(ch), s, kind, ref) # {}
  BY DEF Replayed, WritesTo, Writes
<1>3. \A ref \in DOMAIN Replayed(ch, s, kind) :
         \E m : IsLastIn(WritesTo(ch, Len(ch), s, kind, ref), m)
  <2> SUFFICES ASSUME NEW ref \in DOMAIN Replayed(ch, s, kind)
               PROVE  \E m : IsLastIn(WritesTo(ch, Len(ch), s, kind, ref), m)
    OBVIOUS
  <2> DEFINE S == WritesTo(ch, Len(ch), s, kind, ref)
  <2>1. S \in SUBSET (1..Len(ch)) /\ S # {}
    BY <1>2 DEF WritesTo
  <2> HIDE DEF S
  <2>2. \E m \in S : \A j \in S : j <= m
    BY <1>0, <2>1, LastExists
  <2> QED BY <2>2 DEF IsLastIn, S
<1>4. \A ref \in DOMAIN Replayed(ch, s, kind) :
         Replayed(ch, s, kind)[ref] = ch[LastWrite(ch, s, kind, ref)].mutation[kind]
  BY DEF Replayed
<1>5. Replayed(ch, s, kind) = [ref \in DOMAIN Replayed(ch, s, kind) |-> Replayed(ch, s, kind)[ref]]
  BY DEF Replayed
<1>6. IsReplay(Replayed(ch, s, kind), ch, Len(ch), s, kind)
  BY <1>1, <1>2, <1>4, <1>5 DEF IsReplay
<1>7. ASSUME NEW f, IsReplay(f, ch, Len(ch), s, kind)
      PROVE  f = Replayed(ch, s, kind)
  <2>1. DOMAIN f = DOMAIN Replayed(ch, s, kind)
    BY <1>2, <1>7 DEF IsReplay
  <2>2. \A ref \in DOMAIN f : f[ref] = Replayed(ch, s, kind)[ref]
    BY <1>1, <1>3, <1>4, <1>7, <2>1 DEF IsReplay
  <2>3. f = [ref \in DOMAIN f |-> f[ref]]
    BY <1>7 DEF IsReplay
  <2> QED BY <1>5, <2>1, <2>2, <2>3
<1> QED BY <1>6, <1>7
-----------------------------------------------------------------------------
(* A commit keeps the keyspaces the replay of the log *)

\* A log that goes on with the mutations of a commit.
Extends(ch, dh, c) ==
    /\ IsSeq(ch) /\ IsSeq(dh) /\ IsSeq(c.mutations)
    /\ Len(dh) = Len(ch) + Len(c.mutations)
    /\ \A i \in 1..Len(ch) : dh[i] = ch[i]
    /\ \A i \in 1..Len(c.mutations) : dh[Len(ch) + i] = Change(c, i)

\* A position of the longer log is one of the shorter or of the commit.
LEMMA ExtendsPositions ==
    ASSUME NEW ch, NEW dh, NEW c, Extends(ch, dh, c), NEW i \in 1..Len(dh)
    PROVE  \/ i \in 1..Len(ch) /\ dh[i] = ch[i]
           \/ \E j \in 1..Len(c.mutations) : i = Len(ch) + j /\ dh[i] = Change(c, j)
<1>0. Len(ch) \in Nat /\ Len(c.mutations) \in Nat
  BY DEF Extends, IsSeq
<1>1. CASE i <= Len(ch)
  BY <1>0, <1>1 DEF Extends
<1>2. CASE ~(i <= Len(ch))
  <2>1. i - Len(ch) \in 1..Len(c.mutations) /\ i = Len(ch) + (i - Len(ch))
    BY <1>0, <1>2 DEF Extends
  <2> QED BY <2>1 DEF Extends
<1> QED BY <1>1, <1>2

LEMMA ExtendsWrites ==
    ASSUME NEW ch, NEW dh, NEW c, Extends(ch, dh, c), NEW s, NEW kind, NEW ref
    PROVE  /\ \A i : i \in WritesTo(ch, Len(ch), s, kind, ref) => i \in WritesTo(dh, Len(dh), s, kind, ref)
           /\ \A i \in WritesTo(dh, Len(dh), s, kind, ref) :
                 \/ i \in WritesTo(ch, Len(ch), s, kind, ref)
                 \/ \E j \in Positions(c.mutations, kind) :
                       /\ s = c.scope /\ c.mutations[j][kind].reference = ref
                       /\ i = Len(ch) + j
           /\ s = c.scope => \A j \in Positions(c.mutations, kind) :
                 c.mutations[j][kind].reference = ref => Len(ch) + j \in WritesTo(dh, Len(dh), s, kind, ref)
<1>0. Len(ch) \in Nat /\ Len(c.mutations) \in Nat /\ Len(dh) = Len(ch) + Len(c.mutations)
      /\ DOMAIN c.mutations = 1..Len(c.mutations)
  BY DEF Extends, IsSeq
<1>1. ASSUME NEW i \in WritesTo(ch, Len(ch), s, kind, ref)
      PROVE  i \in WritesTo(dh, Len(dh), s, kind, ref)
  BY <1>0 DEF WritesTo, Extends
<1>2. ASSUME NEW i \in WritesTo(dh, Len(dh), s, kind, ref)
      PROVE  \/ i \in WritesTo(ch, Len(ch), s, kind, ref)
             \/ \E j \in Positions(c.mutations, kind) :
                   /\ s = c.scope /\ c.mutations[j][kind].reference = ref
                   /\ i = Len(ch) + j
  <2>1. i \in 1..Len(dh)
    BY DEF WritesTo
  <2>2. CASE i \in 1..Len(ch) /\ dh[i] = ch[i]
    BY <2>2 DEF WritesTo
  <2>3. ASSUME NEW j \in 1..Len(c.mutations), i = Len(ch) + j /\ dh[i] = Change(c, j)
        PROVE  j \in Positions(c.mutations, kind) /\ s = c.scope /\ c.mutations[j][kind].reference = ref
    BY <1>0, <2>3 DEF WritesTo, Change, Positions
  <2> QED BY <2>1, <2>2, <2>3, ExtendsPositions
<1>3. ASSUME s = c.scope, NEW j \in Positions(c.mutations, kind), c.mutations[j][kind].reference = ref
      PROVE  Len(ch) + j \in WritesTo(dh, Len(dh), s, kind, ref)
  <2>1. j \in 1..Len(c.mutations) /\ c.mutations[j].kind = kind
    BY <1>0 DEF Positions
  <2>2. dh[Len(ch) + j] = Change(c, j) /\ Len(ch) + j \in 1..Len(dh)
    BY <1>0, <2>1 DEF Extends
  <2> QED BY <1>3, <2>1, <2>2 DEF WritesTo, Change
<1> QED BY <1>1, <1>2, <1>3

\* The objects of another scope stay as they are,
LEMMA OtherScopeReplay ==
    ASSUME NEW ch, NEW dh, NEW c, Extends(ch, dh, c), NEW s, s # c.scope, NEW kind, NEW objects,
           IsReplay(objects, ch, Len(ch), s, kind)
    PROVE  IsReplay(objects, dh, Len(dh), s, kind)
<1>1. ASSUME NEW ref
      PROVE  WritesTo(dh, Len(dh), s, kind, ref) = WritesTo(ch, Len(ch), s, kind, ref)
  <2>1. \A i : i \in WritesTo(ch, Len(ch), s, kind, ref) => i \in WritesTo(dh, Len(dh), s, kind, ref)
    BY ExtendsWrites
  <2>2. \A i \in WritesTo(dh, Len(dh), s, kind, ref) : i \in WritesTo(ch, Len(ch), s, kind, ref)
    BY ExtendsWrites
  <2> QED BY <2>1, <2>2
<1>2. \A ref : \A m \in WritesTo(ch, Len(ch), s, kind, ref) : dh[m] = ch[m]
  BY DEF WritesTo, Extends
<1> QED BY <1>1, <1>2 DEF IsReplay, IsLastIn

\* and those of the commit's scope get its versions.
LEMMA OwnScopeReplay ==
    ASSUME NEW ch, NEW dh, NEW c, Extends(ch, dh, c), NEW kind, NEW objects,
           IsReplay(objects, ch, Len(ch), c.scope, kind)
    PROVE  IsReplay(Overlaid(objects, c.mutations, kind), dh, Len(dh), c.scope, kind)
<1> DEFINE ms == c.mutations
           new == Overlaid(objects, ms, kind)
           written == {ms[i][kind].reference : i \in Positions(ms, kind)}
<1>0. Len(ch) \in Nat /\ Len(ms) \in Nat /\ DOMAIN ms = 1..Len(ms)
  BY DEF Extends, IsSeq
<1>1. /\ new = [ref \in DOMAIN new |-> new[ref]]
      /\ DOMAIN new = DOMAIN objects \cup written
  BY DEF Overlaid
<1>2. \A ref : ref \in DOMAIN new <=> WritesTo(dh, Len(dh), c.scope, kind, ref) # {}
  <2>1. ASSUME NEW ref \in DOMAIN objects
        PROVE  WritesTo(dh, Len(dh), c.scope, kind, ref) # {}
    BY ExtendsWrites DEF IsReplay
  <2>2. ASSUME NEW ref \in written
        PROVE  WritesTo(dh, Len(dh), c.scope, kind, ref) # {}
    BY ExtendsWrites
  <2>3. ASSUME NEW ref, NEW i \in WritesTo(dh, Len(dh), c.scope, kind, ref)
        PROVE  ref \in DOMAIN objects \cup written
    BY ExtendsWrites DEF IsReplay
  <2> QED BY <1>1, <2>1, <2>2, <2>3
<1>3. ASSUME NEW ref \in DOMAIN new, NEW m, IsLastIn(WritesTo(dh, Len(dh), c.scope, kind, ref), m)
      PROVE  new[ref] = dh[m].mutation[kind]
  <2>1. m \in WritesTo(dh, Len(dh), c.scope, kind, ref)
        /\ \A j \in WritesTo(dh, Len(dh), c.scope, kind, ref) : j <= m
    BY <1>3 DEF IsLastIn
  <2>2. CASE ref \in written
    <3> DEFINE l == LastIn(ms, kind, ref)
               P == {i \in Positions(ms, kind) : ms[i][kind].reference = ref}
    <3>1. P \in SUBSET (1..Len(ms)) /\ P # {}
      BY <1>0, <2>2 DEF Positions
    <3>2. \E q \in P : \A j \in P : j <= q
      <4> HIDE DEF P
      <4> QED BY <1>0, <3>1, LastExists
    <3>3. /\ l \in Positions(ms, kind) /\ ms[l][kind].reference = ref
          /\ \A j \in Positions(ms, kind) : ms[j][kind].reference = ref => j <= l
      BY <3>2 DEF LastIn
    <3>4. new[ref] = ms[l][kind]
      BY <1>1, <2>2 DEF Overlaid
    <3> HIDE DEF l, P
    <3>5. l \in 1..Len(ms)
      BY <1>0, <3>3 DEF Positions
    <3>6. Len(ch) + l <= m
      BY <2>1, <3>3, ExtendsWrites
    <3>7. m \notin WritesTo(ch, Len(ch), c.scope, kind, ref)
      BY <1>0, <3>5, <3>6 DEF WritesTo
    <3>8. PICK j \in Positions(ms, kind) : ms[j][kind].reference = ref /\ m = Len(ch) + j
      BY <2>1, <3>7, ExtendsWrites
    <3>9. j = l
      BY <1>0, <3>3, <3>5, <3>6, <3>8 DEF Positions
    <3>10. dh[m] = Change(c, l)
      BY <3>5, <3>8, <3>9 DEF Extends
    <3> QED BY <3>4, <3>10 DEF Change
  <2>3. CASE ref \notin written
    <3>1. ref \in DOMAIN objects /\ new[ref] = objects[ref]
      BY <1>1, <2>3 DEF Overlaid
    <3>2. m \in WritesTo(ch, Len(ch), c.scope, kind, ref)
      BY <2>1, <2>3, ExtendsWrites
    <3>3. IsLastIn(WritesTo(ch, Len(ch), c.scope, kind, ref), m)
      BY <2>1, <3>2, ExtendsWrites DEF IsLastIn
    <3>4. dh[m] = ch[m]
      BY <3>2 DEF WritesTo, Extends
    <3> QED BY <3>1, <3>3, <3>4 DEF IsReplay
  <2> QED BY <2>2, <2>3
<1> HIDE DEF new, written
<1>4. IsReplay(new, dh, Len(dh), c.scope, kind)
  BY <1>1, <1>2, <1>3 DEF IsReplay
<1> QED BY <1>4 DEF new
\* RevisionAt in any log.
SchemasOf(ch, s, k) == {i \in 1..k : ch[i].scope = s /\ ch[i].mutation.kind = "schema"}
RevisionIn(ch, s, k) ==
    IF SchemasOf(ch, s, k) = {} THEN 0
    ELSE ch[CHOOSE i \in SchemasOf(ch, s, k) : \A j \in SchemasOf(ch, s, k) : j <= i].mutation.registry.revision

LEMMA RevisionAtIn ==
    ASSUME NEW s, NEW k
    PROVE  /\ RevisionAt(s, k) = RevisionIn(changes, s, k)
           /\ RevisionAt(s, k)' = RevisionIn(changes', s, k)
BY DEF RevisionAt, RevisionIn, SchemasOf

\* It depends on the changes it counts alone,
LEMMA RevisionPrefix ==
    ASSUME NEW ch, NEW dh, NEW k \in Nat, \A i \in 1..k : dh[i] = ch[i], NEW s
    PROVE  RevisionIn(dh, s, k) = RevisionIn(ch, s, k)
<1>1. SchemasOf(dh, s, k) = SchemasOf(ch, s, k)
  BY DEF SchemasOf
<1>2. CASE SchemasOf(ch, s, k) = {}
  BY <1>1, <1>2 DEF RevisionIn
<1>3. CASE SchemasOf(ch, s, k) # {}
  <2> DEFINE S == SchemasOf(ch, s, k)
             x == CHOOSE i \in S : \A j \in S : j <= i
  <2>1. S \in SUBSET (1..k)
    BY DEF SchemasOf
  <2>2. \E m \in S : \A j \in S : j <= m
    <3> HIDE DEF S
    <3> QED BY <1>3, <2>1, LastExists DEF S
  <2>3. x \in 1..k
    <3> HIDE DEF S
    <3> QED BY <2>1, <2>2
  <2>4. dh[x] = ch[x]
    BY <2>3
  <2> HIDE DEF x
  <2>5. RevisionIn(dh, s, k) = dh[x].mutation.registry.revision
    BY <1>1, <1>3 DEF RevisionIn, x
  <2>6. RevisionIn(ch, s, k) = ch[x].mutation.registry.revision
    BY <1>3 DEF RevisionIn, x
  <2> QED BY <2>4, <2>5, <2>6
<1> QED BY <1>2, <1>3

\* and is that of the last one.
LEMMA RevisionOfLast ==
    ASSUME NEW ch, NEW k \in Nat, NEW s, NEW m, IsLastIn(SchemasOf(ch, s, k), m)
    PROVE  RevisionIn(ch, s, k) = ch[m].mutation.registry.revision
<1> DEFINE S == SchemasOf(ch, s, k)
           x == CHOOSE i \in S : \A j \in S : j <= i
<1>1. m \in S /\ (\A j \in S : j <= m) /\ S \in SUBSET Nat
  BY DEF IsLastIn, SchemasOf
<1>2. RevisionIn(ch, s, k) = ch[x].mutation.registry.revision
  BY <1>1 DEF RevisionIn
<1> HIDE DEF S
<1>3. x \in S /\ \A j \in S : j <= x
  BY <1>1
<1> HIDE DEF x
<1>4. x = m
  BY <1>1, <1>3
<1> QED BY <1>2, <1>4

\* A commit with a schema leaves its revision, any other the one there was.
LEMMA ExtendsRevision ==
    ASSUME NEW ch, NEW dh, NEW c, Extends(ch, dh, c), CommitValid(c.mutations), NEW s
    PROVE  /\ (s # c.scope \/ Proposed(c.mutations) = {}) =>
                 RevisionIn(dh, s, Len(dh)) = RevisionIn(ch, s, Len(ch))
           /\ s = c.scope => \A r \in Proposed(c.mutations) :
                 RevisionIn(dh, s, Len(dh)) = r.revision
<1> DEFINE ms == c.mutations
<1>0. /\ Len(ch) \in Nat /\ Len(ms) \in Nat /\ Len(dh) = Len(ch) + Len(ms) /\ Len(dh) \in Nat
      /\ DOMAIN ms = 1..Len(ms) /\ IsSeq(ms)
  BY DEF Extends, IsSeq
<1>1. ASSUME s # c.scope \/ Proposed(ms) = {}
      PROVE  RevisionIn(dh, s, Len(dh)) = RevisionIn(ch, s, Len(ch))
  <2>1. SchemasOf(dh, s, Len(dh)) = SchemasOf(dh, s, Len(ch))
    <3>1. ASSUME NEW i \in SchemasOf(dh, s, Len(dh))
          PROVE  i \in SchemasOf(dh, s, Len(ch))
      <4>1. i \in 1..Len(dh)
        BY DEF SchemasOf
      <4>2. ASSUME NEW j \in 1..Len(ms), i = Len(ch) + j /\ dh[i] = Change(c, j)
            PROVE  FALSE
        <5>1. s = c.scope /\ ms[j].kind = "schema"
          BY <4>2 DEF SchemasOf, Change
        <5>2. ms[j].registry \in Proposed(ms)
          BY <1>0, <5>1 DEF Proposed, Positions
        <5> QED BY <1>1, <5>1, <5>2
      <4>3. i \in 1..Len(ch)
        BY <4>1, <4>2, ExtendsPositions
      <4> QED BY <4>3 DEF SchemasOf
    <3>2. ASSUME NEW i \in SchemasOf(dh, s, Len(ch))
          PROVE  i \in SchemasOf(dh, s, Len(dh))
      BY <1>0 DEF SchemasOf
    <3> QED BY <3>1, <3>2
  <2>2. RevisionIn(dh, s, Len(dh)) = RevisionIn(dh, s, Len(ch))
    BY <2>1 DEF RevisionIn
  <2>3. \A k \in Nat : k = Len(ch) => RevisionIn(dh, s, k) = RevisionIn(ch, s, k)
    <3> SUFFICES ASSUME NEW k \in Nat, k = Len(ch)
                 PROVE  RevisionIn(dh, s, k) = RevisionIn(ch, s, k)
      OBVIOUS
    <3>1. \A i \in 1..k : dh[i] = ch[i]
      BY DEF Extends
    <3> QED BY <3>1, RevisionPrefix
  <2>4. RevisionIn(dh, s, Len(ch)) = RevisionIn(ch, s, Len(ch))
    BY <1>0, <2>3
  <2> QED BY <2>2, <2>4
<1>2. ASSUME s = c.scope, NEW r \in Proposed(ms)
      PROVE  RevisionIn(dh, s, Len(dh)) = r.revision
  <2>1. PICK p \in Positions(ms, "schema") : r = ms[p].registry
    BY DEF Proposed
  <2>2. p \in 1..Len(ms) /\ ms[p].kind = "schema"
    BY <1>0 DEF Positions
  <2>3. dh[Len(ch) + p] = Change(c, p) /\ Len(ch) + p \in 1..Len(dh)
    BY <1>0, <2>2 DEF Extends
  <2>4. Len(ch) + p \in SchemasOf(dh, s, Len(dh))
    BY <1>2, <2>2, <2>3 DEF SchemasOf, Change
  <2>5. ASSUME NEW i \in SchemasOf(dh, s, Len(dh))
        PROVE  i <= Len(ch) + p
    <3>1. i \in 1..Len(dh)
      BY DEF SchemasOf
    <3>2. CASE i \in 1..Len(ch)
      BY <1>0, <2>2, <3>2
    <3>3. ASSUME NEW j \in 1..Len(ms), i = Len(ch) + j /\ dh[i] = Change(c, j)
          PROVE  i = Len(ch) + p
      <4>1. j \in Positions(ms, "schema")
        BY <1>0, <3>3 DEF SchemasOf, Change, Positions
      <4>2. j = p
        BY <1>0, <4>1, OneSchema
      <4> QED BY <3>3, <4>2
    <3> QED BY <1>0, <2>2, <3>1, <3>2, <3>3, ExtendsPositions
  <2>6. IsLastIn(SchemasOf(dh, s, Len(dh)), Len(ch) + p)
    BY <2>4, <2>5 DEF IsLastIn
  <2>7. RevisionIn(dh, s, Len(dh)) = dh[Len(ch) + p].mutation.registry.revision
    BY <1>0, <2>6, RevisionOfLast
  <2> QED BY <2>1, <2>3, <2>7 DEF Change
<1> QED BY <1>1, <1>2
-----------------------------------------------------------------------------
(* The log and its keyspaces *)

\* A commit as the clients make them.
Proper(c) ==
    /\ c.scope \in Scopes /\ IsSeq(c.mutations)
    /\ \A r \in Proposed(c.mutations) : r = Registry(r.revision, r.records, r.relations, r.events)

\* The registries are valid, and the log is ordered by the cursors its commits expected.
SchemaOK(r) ==
    /\ r = Registry(r.revision, r.records, r.relations, r.events)
    /\ r.revision \in Nat
    /\ r # NoSchema => RegistryValid(r)
LogType ==
    /\ IsSeq(changes)
    /\ DOMAIN schemas = Scopes /\ DOMAIN records = Scopes /\ DOMAIN relations = Scopes
    /\ \A s \in Scopes : SchemaOK(schemas[s])
    /\ \A i \in 1..Cursor : /\ changes[i].commit.expected_cursor \in Nat
                            /\ changes[i].commit.expected_cursor < i
LogInv == LogType /\ RuntimeSound

\* What an accepted commit does to its scope's registry.
LEMMA AcceptedSchema ==
    ASSUME LogType, NEW c, Proper(c), Refusal(c) = "none"
    PROVE  /\ Proposed(c.mutations) = {} => Effective(c) = schemas[c.scope]
           /\ Proposed(c.mutations) # {} => Effective(c) \in Proposed(c.mutations)
           /\ Effective(c) # NoSchema /\ SchemaOK(Effective(c))
<1>1. Proposed(c.mutations) = {} => Effective(c) = schemas[c.scope]
  BY DEF Effective
<1>2. Proposed(c.mutations) # {} => Effective(c) \in Proposed(c.mutations)
  BY DEF Effective
<1>3. /\ Effective(c) # NoSchema /\ RegistryValid(Effective(c))
      /\ \A r \in Proposed(c.mutations) : r.revision = schemas[c.scope].revision + 1
  BY NotRefused DEF ObjectsValid, NextRevision
<1>4. schemas[c.scope].revision \in Nat /\ SchemaOK(schemas[c.scope])
  BY DEF LogType, SchemaOK, Proper
<1>5. CASE Proposed(c.mutations) = {}
  BY <1>1, <1>2, <1>3, <1>4, <1>5
<1>6. CASE Proposed(c.mutations) # {}
  <2>1. Effective(c).revision \in Nat
    BY <1>2, <1>3, <1>4, <1>6
  <2>2. SchemaOK(Effective(c))
    BY <1>2, <1>3, <1>6, <2>1 DEF SchemaOK, Proper
  <2> QED BY <1>1, <1>2, <1>3, <2>2
<1> QED BY <1>5, <1>6

LEMMA AcceptExtends ==
    ASSUME LogType, NEW c, Proper(c), Accept(c)
    PROVE  Extends(changes, changes', c)
BY AcceptedLog DEF Extends, LogType, Proper, Cursor

LEMMA AcceptKeepsType ==
    ASSUME LogType, NEW c, Proper(c), Accept(c)
    PROVE  LogType'
<1>1. IsSeq(changes')
  BY AcceptExtends DEF Extends
<1>2. DOMAIN schemas' = Scopes /\ DOMAIN records' = Scopes /\ DOMAIN relations' = Scopes
  BY DEF LogType, Accept
<1>3. \A s \in Scopes : SchemaOK(schemas'[s])
  BY AcceptedSchema DEF LogType, Accept
<1>4. ASSUME NEW i \in 1..Len(changes')
      PROVE  /\ changes'[i].commit.expected_cursor \in Nat
             /\ changes'[i].commit.expected_cursor < i
  <2>1. CASE i \in 1..Len(changes) /\ changes'[i] = changes[i]
    BY <2>1 DEF LogType, Cursor
  <2>2. ASSUME NEW j \in 1..Len(c.mutations), i = Len(changes) + j /\ changes'[i] = Change(c, j)
        PROVE  /\ changes'[i].commit.expected_cursor \in Nat
               /\ changes'[i].commit.expected_cursor < i
    <3>1. c.expected_cursor = Len(changes) /\ Len(changes) \in Nat /\ Len(c.mutations) \in Nat
      BY NotRefused DEF Accept, Cursor, LogType, IsSeq, Proper
    <3> QED BY <2>2, <3>1 DEF Change
  <2> QED BY <2>1, <2>2, AcceptExtends, ExtendsPositions
<1> QED BY <1>1, <1>2, <1>3, <1>4 DEF LogType, Cursor

LEMMA AcceptKeepsKeyspaces ==
    ASSUME LogInv, NEW c, Proper(c), Accept(c)
    PROVE  KeyspacesAreReplay'
<1> USE DEF LogInv
<1>0. /\ Extends(changes, changes', c) /\ Len(changes) \in Nat /\ Len(c.mutations) \in Nat
      /\ IsSeq(changes) /\ IsSeq(changes') /\ Cursor = Len(changes) /\ Cursor' = Len(changes')
      /\ Len(changes') = Len(changes) + Len(c.mutations)
      /\ DOMAIN c.mutations = 1..Len(c.mutations)
      /\ c.expected_cursor = Len(changes) /\ CommitValid(c.mutations)
  BY AcceptExtends, NotRefused DEF Extends, IsSeq, Cursor, Accept
<1>1. ASSUME NEW s \in Scopes
      PROVE  Revision(schemas'[s]) = RevisionIn(changes', s, Len(changes'))
  <2>1. Revision(schemas[s]) = RevisionIn(changes, s, Len(changes))
    BY <1>0, RevisionAtIn DEF RuntimeSound, KeyspacesAreReplay
  <2>2. CASE s # c.scope
    <3>1. schemas'[s] = schemas[s]
      BY <2>2 DEF Accept, LogType
    <3> QED BY <1>0, <2>1, <2>2, <3>1, ExtendsRevision DEF Revision
  <2>3. CASE s = c.scope
    <3>1. schemas'[s] = Effective(c)
      BY <2>3 DEF Accept, LogType
    <3>2. /\ Proposed(c.mutations) = {} => Effective(c) = schemas[c.scope]
          /\ Proposed(c.mutations) # {} => Effective(c) \in Proposed(c.mutations)
      BY AcceptedSchema DEF Accept
    <3>3. /\ Proposed(c.mutations) = {} =>
                RevisionIn(changes', s, Len(changes')) = RevisionIn(changes, s, Len(changes))
          /\ \A r \in Proposed(c.mutations) : RevisionIn(changes', s, Len(changes')) = r.revision
      BY <1>0, <2>3, ExtendsRevision
    <3> QED BY <2>1, <2>3, <3>1, <3>2, <3>3 DEF Revision
  <2> QED BY <2>2, <2>3
<1>2. ASSUME NEW s \in Scopes
      PROVE  /\ records'[s] = Replayed(changes', s, "record")
             /\ relations'[s] = Replayed(changes', s, "relation")
  <2>1. /\ IsReplay(records[s], changes, Len(changes), s, "record")
        /\ IsReplay(relations[s], changes, Len(changes), s, "relation")
    BY <1>0, ReplayedIsReplay DEF RuntimeSound, KeyspacesAreReplay
  <2>2. /\ IsReplay(records'[s], changes', Len(changes'), s, "record")
        /\ IsReplay(relations'[s], changes', Len(changes'), s, "relation")
    <3>1. CASE s # c.scope
      <4>1. records'[s] = records[s] /\ relations'[s] = relations[s]
        BY <3>1 DEF Accept, LogType
      <4> QED BY <1>0, <2>1, <3>1, <4>1, OtherScopeReplay
    <3>2. CASE s = c.scope
      <4>1. /\ records'[s] = Overlaid(records[s], c.mutations, "record")
            /\ relations'[s] = Overlaid(relations[s], c.mutations, "relation")
        BY <3>2 DEF Accept, LogType
      <4> QED BY <1>0, <2>1, <3>2, <4>1, OwnScopeReplay
    <3> QED BY <3>1, <3>2
  <2> QED BY <1>0, <2>2, ReplayedIsReplay
<1>3. outbox' = UNION {{[source_cursor |-> i, family |-> f] :
                          f \in ProjectionFamily(changes'[i].mutation)} : i \in 1..Len(changes')}
  <2> DEFINE at(i, m) == {[source_cursor |-> i, family |-> f] : f \in ProjectionFamily(m)}
  <2>1. outbox = UNION {at(i, changes[i].mutation) : i \in 1..Len(changes)}
    BY <1>0 DEF RuntimeSound, KeyspacesAreReplay
  <2>2. outbox' = outbox \cup UNION {at(Len(changes) + j, c.mutations[j]) : j \in 1..Len(c.mutations)}
    BY <1>0 DEF Accept, Work
  <2>3. \A i \in 1..Len(changes) : changes'[i].mutation = changes[i].mutation /\ i \in 1..Len(changes')
    BY <1>0 DEF Extends
  <2>4. ASSUME NEW j \in 1..Len(c.mutations)
        PROVE  changes'[Len(changes) + j].mutation = c.mutations[j] /\ Len(changes) + j \in 1..Len(changes')
    <3>1. changes'[Len(changes) + j] = Change(c, j)
      BY <1>0 DEF Extends
    <3> QED BY <1>0, <3>1 DEF Change
  <2>5. \A i \in 1..Len(changes') :
           i \in 1..Len(changes) \/ \E j \in 1..Len(c.mutations) : i = Len(changes) + j
    BY <1>0, ExtendsPositions
  <2> HIDE DEF at
  <2>6. ASSUME NEW w
        PROVE  w \in outbox' <=> \E i \in 1..Len(changes') : w \in at(i, changes'[i].mutation)
    <3>1. w \in outbox' <=> \/ \E i \in 1..Len(changes) : w \in at(i, changes[i].mutation)
                           \/ \E j \in 1..Len(c.mutations) : w \in at(Len(changes) + j, c.mutations[j])
      BY <2>1, <2>2
    <3> QED BY <2>3, <2>4, <2>5, <3>1
  <2>7. outbox' = UNION {at(i, changes'[i].mutation) : i \in 1..Len(changes')}
    BY <2>6
  <2> QED BY <2>7 DEF at
<1>4. ASSUME NEW i \in 1..Len(changes')
      PROVE  /\ changes'[i].commit \in DOMAIN outcomes'
             /\ i = outcomes'[changes'[i].commit].first_cursor + changes'[i].ordinal
             /\ i <= outcomes'[changes'[i].commit].last_cursor
  <2>1. /\ DOMAIN outcomes' = DOMAIN outcomes \cup {c} /\ outcomes'[c] = Outcome(c)
        /\ \A k \in DOMAIN outcomes : k # c => outcomes'[k] = outcomes[k]
    BY DEF Accept
  <2>2. CASE i \in 1..Len(changes) /\ changes'[i] = changes[i]
    <3>1. changes[i].commit # c
      BY <1>0, <2>2 DEF LogType
    <3>2. /\ changes[i].commit \in DOMAIN outcomes
          /\ i = outcomes[changes[i].commit].first_cursor + changes[i].ordinal
          /\ i <= outcomes[changes[i].commit].last_cursor
      BY <1>0, <2>2 DEF RuntimeSound, KeyspacesAreReplay
    <3> QED BY <2>1, <2>2, <3>1, <3>2
  <2>3. ASSUME NEW j \in 1..Len(c.mutations), i = Len(changes) + j /\ changes'[i] = Change(c, j)
        PROVE  /\ changes'[i].commit \in DOMAIN outcomes'
               /\ i = outcomes'[changes'[i].commit].first_cursor + changes'[i].ordinal
               /\ i <= outcomes'[changes'[i].commit].last_cursor
    <3>1. changes'[i].commit = c /\ changes'[i].ordinal = j - 1
      BY <2>3 DEF Change
    <3>2. /\ Outcome(c).first_cursor = Len(changes) + 1
          /\ Outcome(c).last_cursor = Len(changes) + Len(c.mutations)
      BY <1>0 DEF Outcome
    <3> QED BY <1>0, <2>1, <2>3, <3>1, <3>2
  <2> QED BY <1>0, <2>2, <2>3, ExtendsPositions
<1>5. \A s \in Scopes : RevisionAt(s, Cursor)' = RevisionIn(changes', s, Len(changes'))
  BY <1>0 DEF RevisionAt, RevisionIn, SchemasOf
<1>6. \A s \in Scopes : (Revision(schemas[s]) = RevisionAt(s, Cursor))'
  BY <1>1, <1>5 DEF Revision
<1> QED BY <1>0, <1>2, <1>3, <1>4, <1>6 DEF KeyspacesAreReplay

LEMMA AcceptKeepsGraph ==
    ASSUME LogInv, NEW c, Proper(c), Accept(c)
    PROVE  LatestGraphSound'
<1> USE DEF LogInv
<1>0. /\ Extends(changes, changes', c) /\ Cursor' = Len(changes') /\ Cursor = Len(changes)
      /\ DOMAIN c.mutations = 1..Len(c.mutations)
  BY AcceptExtends DEF Extends, IsSeq, Cursor
<1>1. ASSUME NEW s \in Scopes, s # c.scope
      PROVE  /\ schemas'[s] = schemas[s] /\ records'[s] = records[s] /\ relations'[s] = relations[s]
  BY <1>1 DEF Accept, LogType
<1>2. /\ schemas'[c.scope] = Effective(c)
      /\ records'[c.scope] = Overlaid(records[c.scope], c.mutations, "record")
      /\ relations'[c.scope] = Overlaid(relations[c.scope], c.mutations, "relation")
  BY DEF Accept, LogType, Proper
<1>3. ASSUME NEW s \in Scopes, schemas'[s] # NoSchema
      PROVE  /\ RecordsUnique(schemas'[s], Values(records'[s]))
             /\ RelationsWithinLimits(schemas'[s], Values(relations'[s]))
  <2>1. CASE s # c.scope
    BY <1>1, <1>3, <2>1 DEF RuntimeSound, LatestGraphSound
  <2>2. CASE s = c.scope
    BY <1>2, <2>2, NotRefused DEF Accept, ObjectsValid
  <2> QED BY <2>1, <2>2
<1>4. \A s \in Scopes : DOMAIN records[s] \subseteq DOMAIN records'[s]
  <2>1. DOMAIN Overlaid(records[c.scope], c.mutations, "record")
          = DOMAIN records[c.scope] \cup {c.mutations[i]["record"].reference : i \in Positions(c.mutations, "record")}
    BY DEF Overlaid
  <2> QED BY <1>1, <1>2, <2>1
<1>5. NewRecords(c.mutations) \subseteq DOMAIN records'[c.scope]
  BY <1>2 DEF NewRecords, Overlaid
<1>6. ASSUME NEW i \in 1..Len(changes')
      PROVE  Mentions(changes'[i].mutation) \subseteq DOMAIN records'[changes'[i].scope]
             \/ changes'[i].scope \notin Scopes
  <2>1. CASE i \in 1..Len(changes) /\ changes'[i] = changes[i]
    BY <1>0, <1>4, <2>1 DEF RuntimeSound, LatestGraphSound
  <2>2. ASSUME NEW j \in 1..Len(c.mutations), i = Len(changes) + j /\ changes'[i] = Change(c, j)
        PROVE  Mentions(changes'[i].mutation) \subseteq DOMAIN records'[changes'[i].scope]
    <3>1. changes'[i].mutation = c.mutations[j] /\ changes'[i].scope = c.scope
      BY <2>2 DEF Change
    <3>2. \A ref \in Mentions(c.mutations[j]) :
             ref \in NewRecords(c.mutations) \/ ref \in DOMAIN records[c.scope]
      BY <1>0, NotRefused DEF Accept, Dangles
    <3> QED BY <1>4, <1>5, <3>1, <3>2 DEF Proper
  <2>3. \/ i \in 1..Len(changes) /\ changes'[i] = changes[i]
        \/ \E j \in 1..Len(c.mutations) : i = Len(changes) + j /\ changes'[i] = Change(c, j)
    <3>1. Extends(changes, changes', c)
      BY <1>0
    <3> QED BY <3>1, ExtendsPositions, SMTT(30)
  <2> QED BY <2>1, <2>2, <2>3
<1> QED BY <1>0, <1>3, <1>6 DEF LatestGraphSound

\* A step that leaves the log alone keeps all of this.
LEMMA SameLog ==
    ASSUME LogInv, UNCHANGED log
    PROVE  LogInv'
<1>1. /\ changes' = changes /\ schemas' = schemas /\ records' = records /\ relations' = relations
      /\ outbox' = outbox /\ outcomes' = outcomes
  BY DEF log
<1>2. LogType'
  BY <1>1 DEF LogInv, LogType, Cursor
<1>3. \A s, k : RevisionAt(s, k)' = RevisionAt(s, k)
  BY <1>1 DEF RevisionAt
<1>4. KeyspacesAreReplay'
  BY <1>1, <1>3 DEF LogInv, RuntimeSound, KeyspacesAreReplay, Cursor, Revision
<1>5. LatestGraphSound'
  BY <1>1 DEF LogInv, RuntimeSound, LatestGraphSound, Cursor
<1> QED BY <1>2, <1>4, <1>5 DEF LogInv, RuntimeSound

LEMMA AcceptKeepsLog ==
    ASSUME LogInv, NEW c, Proper(c), Accept(c)
    PROVE  LogInv'
BY AcceptKeepsType, AcceptKeepsKeyspaces, AcceptKeepsGraph DEF LogInv, RuntimeSound

LEMMA InitLog ==
    ASSUME Init
    PROVE  LogInv
<1>1. Len(changes) = 0 /\ Cursor = 0 /\ changes = <<>>
  BY DEF Init, Cursor
<1>2. IsSeq(changes)
  BY <1>1 DEF IsSeq
<1>3. SchemaOK(NoSchema)
  BY DEF SchemaOK, NoSchema, Registry
<1>4. LogType
  BY <1>1, <1>2, <1>3 DEF Init, LogType
<1>5. \A s \in Scopes : RevisionAt(s, 0) = 0
  BY DEF RevisionAt
<1>6. ASSUME NEW s \in Scopes, NEW kind
      PROVE  Replayed(changes, s, kind) = <<>>
  <2>1. Writes(changes, s, kind) = {}
    BY <1>1 DEF Writes
  <2>2. DOMAIN Replayed(changes, s, kind) = {}
    BY <2>1 DEF Replayed
  <2>3. Replayed(changes, s, kind) = [i \in {} |-> i]
    BY <2>2 DEF Replayed
  <2> QED BY <2>3
<1>7. KeyspacesAreReplay
  BY <1>1, <1>5, <1>6 DEF Init, KeyspacesAreReplay, Revision, NoSchema, Registry
<1>8. LatestGraphSound
  BY <1>1 DEF Init, LatestGraphSound
<1> QED BY <1>4, <1>7, <1>8 DEF LogInv, RuntimeSound

-----------------------------------------------------------------------------
(* The reasoning ledger of a log *)

\* The ledger in any log, one change after the other.
TypedStep(f, ch, k) == IF k = 0 THEN EmptyLedger ELSE Pushed(f[k - 1], ch[k])

LEMMA TypedExists ==
    ASSUME NEW ch, NEW n \in Nat
    PROVE  \E f : f = [k \in 0..n |-> TypedStep(f, ch, k)]
<1> DEFINE G == {k \in Nat : \E f : f = [j \in 0..k |-> TypedStep(f, ch, j)]}
<1>1. 0 \in G
  <2> DEFINE f == [j \in 0..0 |-> EmptyLedger]
  <2>1. f = [j \in 0..0 |-> TypedStep(f, ch, j)]
    BY DEF TypedStep
  <2> QED BY <2>1
<1>2. ASSUME NEW k \in 1..n, k - 1 \in G
      PROVE  k \in G
  <2>1. PICK f : f = [j \in 0..(k - 1) |-> TypedStep(f, ch, j)]
    BY <1>2
  <2> DEFINE g == [j \in 0..k |-> IF j = k THEN Pushed(f[k - 1], ch[k]) ELSE f[j]]
  <2>2. ASSUME NEW j \in 0..k
        PROVE  g[j] = TypedStep(g, ch, j)
    <3>1. CASE j = k
      BY <3>1 DEF TypedStep
    <3>2. CASE j # k
      <4>1. j \in 0..(k - 1) /\ (j # 0 => j - 1 \in 0..(k - 1))
        BY <3>2
      <4>2. g[j] = f[j] /\ (j # 0 => g[j - 1] = f[j - 1])
        BY <3>2, <4>1
      <4>3. f[j] = TypedStep(f, ch, j)
        BY <2>1, <4>1
      <4> HIDE DEF g
      <4> QED BY <4>2, <4>3 DEF TypedStep
    <3> QED BY <3>1, <3>2
  <2>3. g = [j \in 0..k |-> g[j]]
    OBVIOUS
  <2> HIDE DEF g
  <2>4. g = [j \in 0..k |-> TypedStep(g, ch, j)]
    BY <2>2, <2>3
  <2> QED BY <2>4
<1>3. n \in G
  <2> HIDE DEF G
  <2> QED BY <1>1, <1>2, Induction
<1> QED BY <1>3

\* TypedLedger in any log.
TypedIn(ch, k) ==
    LET after[n \in 0..k] == IF n = 0 THEN EmptyLedger ELSE Pushed(after[n - 1], ch[n])
    IN  after[k]

LEMMA TypedRun ==
    ASSUME NEW ch, NEW k \in Nat
    PROVE  \E f : /\ f[0] = EmptyLedger
                  /\ \A n \in 1..k : f[n] = Pushed(f[n - 1], ch[n])
                  /\ TypedIn(ch, k) = f[k]
<1> DEFINE f == CHOOSE f : f = [n \in 0..k |-> TypedStep(f, ch, n)]
<1>1. TypedIn(ch, k) = f[k]
  BY DEF TypedIn, TypedStep
<1>2. f = [n \in 0..k |-> TypedStep(f, ch, n)]
  BY TypedExists
<1> HIDE DEF f
<1>3. \A n \in 0..k : f[n] = TypedStep(f, ch, n)
  BY <1>2
<1> QED BY <1>1, <1>3 DEF TypedStep

\* It depends on the changes it counts alone,
LEMMA TypedSame ==
    ASSUME NEW ch, NEW dh, NEW k \in Nat, NEW l \in Nat, k <= l, \A i \in 1..k : dh[i] = ch[i],
           NEW f, f[0] = EmptyLedger, \A n \in 1..l : f[n] = Pushed(f[n - 1], dh[n])
    PROVE  TypedIn(ch, k) = f[k]
<1>1. PICK g : /\ g[0] = EmptyLedger
               /\ \A n \in 1..k : g[n] = Pushed(g[n - 1], ch[n])
               /\ TypedIn(ch, k) = g[k]
  BY TypedRun
<1> DEFINE G == {n \in Nat : g[n] = f[n]}
<1>2. 0 \in G
  BY <1>1
<1>3. ASSUME NEW n \in 1..k, n - 1 \in G
      PROVE  n \in G
  <2>1. g[n] = Pushed(g[n - 1], ch[n]) /\ n \in 1..l
    BY <1>1
  <2>2. f[n] = Pushed(f[n - 1], ch[n])
    BY <2>1
  <2> QED BY <1>3, <2>1, <2>2
<1>4. k \in G
  <2> HIDE DEF G
  <2> QED BY <1>2, <1>3, Induction
<1> QED BY <1>1, <1>4

LEMMA TypedPrefix ==
    ASSUME NEW ch, NEW dh, NEW k \in Nat, \A i \in 1..k : dh[i] = ch[i]
    PROVE  TypedIn(dh, k) = TypedIn(ch, k)
<1>1. PICK f : /\ f[0] = EmptyLedger
               /\ \A n \in 1..k : f[n] = Pushed(f[n - 1], dh[n])
               /\ TypedIn(dh, k) = f[k]
  BY TypedRun
<1> QED BY <1>1, TypedSame

\* and one more change is pushed on it.
LEMMA TypedUnfolds ==
    ASSUME NEW ch, NEW k \in Nat
    PROVE  /\ TypedIn(ch, 0) = EmptyLedger
           /\ TypedIn(ch, k + 1) = Pushed(TypedIn(ch, k), ch[k + 1])
<1>1. TypedIn(ch, 0) = EmptyLedger
  BY TypedRun
<1>2. PICK f : /\ f[0] = EmptyLedger
               /\ \A n \in 1..(k + 1) : f[n] = Pushed(f[n - 1], ch[n])
               /\ TypedIn(ch, k + 1) = f[k + 1]
  BY TypedRun
<1>3. TypedIn(ch, k) = f[k]
  BY <1>2, TypedSame
<1>4. f[k + 1] = Pushed(f[(k + 1) - 1], ch[k + 1]) /\ (k + 1) - 1 = k
  BY <1>2
<1> QED BY <1>1, <1>2, <1>3, <1>4

-----------------------------------------------------------------------------
(* What the clients commit *)

\* The whole ledger, one run after the other.
AllStep(f, ledger, k) == IF k = 0 THEN <<>> ELSE f[k - 1] \o WholeRun(ledger, RunOrder[k])

LEMMA AllExists ==
    ASSUME NEW ledger, NEW n \in Nat
    PROVE  \E f : f = [k \in 0..n |-> AllStep(f, ledger, k)]
<1> DEFINE G == {k \in Nat : \E f : f = [j \in 0..k |-> AllStep(f, ledger, j)]}
<1>1. 0 \in G
  <2> DEFINE f == [j \in 0..0 |-> <<>>]
  <2>1. f = [j \in 0..0 |-> AllStep(f, ledger, j)]
    BY DEF AllStep
  <2> QED BY <2>1
<1>2. ASSUME NEW k \in 1..n, k - 1 \in G
      PROVE  k \in G
  <2>1. PICK f : f = [j \in 0..(k - 1) |-> AllStep(f, ledger, j)]
    BY <1>2
  <2> DEFINE g == [j \in 0..k |-> IF j = k THEN AllStep(f, ledger, k) ELSE f[j]]
  <2>2. ASSUME NEW j \in 0..k
        PROVE  g[j] = AllStep(g, ledger, j)
    <3>1. CASE j = k
      <4>1. k - 1 \in 0..k /\ k - 1 # k /\ k \in 0..k /\ k # 0
        OBVIOUS
      <4>2. g[k - 1] = f[k - 1] /\ g[k] = AllStep(f, ledger, k)
        BY <4>1
      <4> HIDE DEF g
      <4> QED BY <3>1, <4>1, <4>2 DEF AllStep
    <3>2. CASE j # k
      <4>1. j \in 0..(k - 1) /\ (j # 0 => j - 1 \in 0..(k - 1))
        BY <3>2
      <4>2. g[j] = f[j] /\ (j # 0 => g[j - 1] = f[j - 1])
        BY <3>2, <4>1
      <4>3. f[j] = AllStep(f, ledger, j)
        BY <2>1, <4>1
      <4> HIDE DEF g
      <4> QED BY <4>2, <4>3 DEF AllStep
    <3> QED BY <3>1, <3>2
  <2>3. g = [j \in 0..k |-> g[j]]
    OBVIOUS
  <2> HIDE DEF g
  <2>4. g = [j \in 0..k |-> AllStep(g, ledger, j)]
    BY <2>2, <2>3
  <2> QED BY <2>4
<1>3. n \in G
  <2> HIDE DEF G
  <2> QED BY <1>1, <1>2, Induction
<1> QED BY <1>3

\* It is the end of such a sequence.
LEMMA AllRun ==
    ASSUME NEW ledger, Len(RunOrder) \in Nat
    PROVE  \E f : /\ f[0] = <<>>
                  /\ \A n \in 1..Len(RunOrder) : f[n] = f[n - 1] \o WholeRun(ledger, RunOrder[n])
                  /\ WholeLedger(ledger) = f[Len(RunOrder)]
<1> DEFINE f == CHOOSE f : f = [n \in 0..Len(RunOrder) |-> AllStep(f, ledger, n)]
<1>1. WholeLedger(ledger) = f[Len(RunOrder)]
  BY DEF WholeLedger, AllStep
<1>2. f = [n \in 0..Len(RunOrder) |-> AllStep(f, ledger, n)]
  BY AllExists
<1> HIDE DEF f
<1>3. \A n \in 0..Len(RunOrder) : f[n] = AllStep(f, ledger, n)
  BY <1>2
<1>4. f[0] = <<>>
  BY <1>3 DEF AllStep
<1>5. ASSUME NEW n \in 1..Len(RunOrder)
      PROVE  f[n] = f[n - 1] \o WholeRun(ledger, RunOrder[n])
  <2>1. f[n] = AllStep(f, ledger, n) /\ n # 0
    BY <1>3
  <2> QED BY <2>1 DEF AllStep
<1> QED BY <1>1, <1>4, <1>5

LEMMA RunOrderIsSeq ==
    /\ IsSeq(RunOrder) /\ Len(RunOrder) \in Nat
    /\ \A n \in 1..Len(RunOrder) : RunOrder[n] \in Runs
    /\ \A run \in Runs : \E n \in 1..Len(RunOrder) : run = RunOrder[n]
    /\ \A i, j \in 1..Len(RunOrder) : RunOrder[i] = RunOrder[j] => i = j
<1>1. IsSeq(RunOrder)
  BY RunOrderAssumption, Elemental
<1> QED BY <1>1, RunOrderAssumption DEF IsSeq, Runs, Range

LEMMA WholeRunIsSeq ==
    ASSUME NEW ledger, NEW run, IsSeq(ledger[run])
    PROVE  /\ IsSeq(WholeRun(ledger, run))
           /\ ledger[run] = <<>> => Len(WholeRun(ledger, run)) = 0
           /\ ledger[run] # <<>> =>
                 /\ Len(WholeRun(ledger, run)) = Len(ledger[run]) + 1
                 /\ WholeRun(ledger, run)[1] = RunRecord(run, ledger[run])
                 /\ \A i \in 1..Len(ledger[run]) :
                       WholeRun(ledger, run)[i + 1] = EventMutation(run, ledger[run][i])
<1> DEFINE n == Len(ledger[run])
           new == [i \in 1..n |-> EventMutation(run, ledger[run][i])]
<1>1. CASE ledger[run] = <<>>
  BY <1>1 DEF WholeRun, IsSeq
<1>2. CASE ledger[run] # <<>>
  <2>1. n \in Nat /\ DOMAIN ledger[run] = 1..n
    BY DEF IsSeq
  <2>2. WholeRun(ledger, run) = <<RunRecord(run, ledger[run])>> \o new
    BY <1>2, <2>1 DEF WholeRun
  <2>3. new = [i \in 1..n |-> new[i]] /\ \A i \in 1..n : new[i] = EventMutation(run, ledger[run][i])
    OBVIOUS
  <2> HIDE DEF new
  <2>4. IsSeq(new) /\ Len(new) = n
    BY <2>1, <2>3, Tabulated
  <2> DEFINE one == <<RunRecord(run, ledger[run])>>
  <2>5. IsSeq(one) /\ Len(one) = 1 /\ one[1] = RunRecord(run, ledger[run])
    BY DEF IsSeq
  <2> HIDE DEF one
  <2>6. /\ IsSeq(one \o new) /\ Len(one \o new) = Len(one) + Len(new)
        /\ \A i \in 1..Len(one) : (one \o new)[i] = one[i]
        /\ \A j \in 1..Len(new) : (one \o new)[Len(one) + j] = new[j]
    <3>1. IsSeq(one) /\ IsSeq(new)
      BY <2>4, <2>5
    <3> QED BY ONLY <3>1, Concatenated
  <2>7. WholeRun(ledger, run) = one \o new
    BY <2>2 DEF one
  <2> DEFINE all == WholeRun(ledger, run)
  <2>8. IsSeq(all) /\ Len(all) = n + 1 /\ all[1] = one[1] /\ \A j \in 1..n : all[1 + j] = new[j]
    <3> HIDE DEF all, n
    <3>1. 1 \in 1..Len(one) /\ Len(one) + Len(new) = n + 1
      BY <2>1, <2>4, <2>5
    <3>2. all = one \o new
      BY <2>7 DEF all
    <3> QED BY <2>4, <2>5, <2>6, <3>1, <3>2
  <2>9. \A j \in 1..n : 1 + j = j + 1
    BY <2>1
  <2> HIDE DEF all
  <2> QED BY <1>2, <2>3, <2>5, <2>8, <2>9 DEF all
<1> QED BY <1>1, <1>2

LEMMA WholeLedgerIsSeq ==
    ASSUME NEW ledger, \A run \in Runs : IsSeq(ledger[run])
    PROVE  IsSeq(WholeLedger(ledger))
<1>1. PICK f : /\ f[0] = <<>>
               /\ \A n \in 1..Len(RunOrder) : f[n] = f[n - 1] \o WholeRun(ledger, RunOrder[n])
               /\ WholeLedger(ledger) = f[Len(RunOrder)]
  BY RunOrderIsSeq, AllRun
<1> DEFINE G == {n \in Nat : IsSeq(f[n])}
<1>2. 0 \in G
  BY <1>1 DEF IsSeq
<1>3. ASSUME NEW n \in 1..Len(RunOrder), n - 1 \in G
      PROVE  n \in G
  <2>1. f[n] = f[n - 1] \o WholeRun(ledger, RunOrder[n]) /\ IsSeq(f[n - 1]) /\ n \in Nat
    <3>1. n \in Nat
      BY RunOrderIsSeq
    <3>2. IsSeq(f[n - 1])
      BY <1>3
    <3>3. f[n] = f[n - 1] \o WholeRun(ledger, RunOrder[n])
      BY <1>1
    <3> QED BY <3>1, <3>2, <3>3
  <2>2. IsSeq(WholeRun(ledger, RunOrder[n]))
    BY RunOrderIsSeq, WholeRunIsSeq
  <2>3. IsSeq(f[n - 1] \o WholeRun(ledger, RunOrder[n]))
    <3> DEFINE x == f[n - 1]
               y == WholeRun(ledger, RunOrder[n])
    <3>1. IsSeq(x) /\ IsSeq(y)
      BY <2>1, <2>2
    <3> HIDE DEF x, y
    <3>2. IsSeq(x \o y)
      BY ONLY <3>1, Concatenated
    <3> QED BY <3>2 DEF x, y
  <2> QED BY <2>1, <2>3
<1>4. Len(RunOrder) \in G
  <2> HIDE DEF G
  <2>1. Len(RunOrder) \in Nat /\ Len(RunOrder) \in 0..Len(RunOrder)
    BY RunOrderIsSeq
  <2> QED BY <1>2, <1>3, <2>1, Induction
<1> QED BY <1>1, <1>4

-----------------------------------------------------------------------------
(* What the clients hold *)

\* A beginning of the log stays what it is.
LEMMA SameBeginning ==
    ASSUME NEW ch, NEW dh, IsSeq(ch), IsSeq(dh), NEW k \in 0..Len(ch), Len(ch) <= Len(dh),
           \A i \in 1..Len(ch) : dh[i] = ch[i]
    PROVE  SubSeq(dh, 1, k) = SubSeq(ch, 1, k)
<1> DEFINE S == {ch[i] : i \in 1..Len(ch)}
           s == SubSeq(ch, 1, k)
           t == SubSeq(dh, 1, k)
<1>1. Len(ch) \in Nat /\ k \in Int /\ 1 \in Int /\ 1..k \subseteq 1..Len(ch)
  BY DEF IsSeq
<1>2. (\A i \in 1..k : ch[i] \in S) /\ (\A i \in 1..k : dh[i] \in S)
  BY <1>1
<1> HIDE DEF S
<1>3. s \in Seq(S) /\ Len(s) = k /\ \A i \in 1..k : s[i] = ch[i]
  <2>1. /\ s \in Seq(S) /\ Len(s) = IF 1 <= k THEN k - 1 + 1 ELSE 0
        /\ \A i \in 1..(k - 1 + 1) : s[i] = ch[1 + i - 1]
    BY <1>1, <1>2, SubSeqProperties
  <2> HIDE DEF s
  <2> QED BY <1>1, <2>1
<1>4. t \in Seq(S) /\ Len(t) = k /\ \A i \in 1..k : t[i] = dh[i]
  <2>1. /\ t \in Seq(S) /\ Len(t) = IF 1 <= k THEN k - 1 + 1 ELSE 0
        /\ \A i \in 1..(k - 1 + 1) : t[i] = dh[1 + i - 1]
    BY <1>1, <1>2, SubSeqProperties
  <2> HIDE DEF t
  <2> QED BY <1>1, <2>1
<1>5. \A i \in 1..k : s[i] = t[i]
  BY <1>1, <1>3, <1>4
<1> HIDE DEF s, t
<1>6. s = t
  BY <1>3, <1>4, <1>5, SeqEqual
<1> QED BY <1>6 DEF s, t

LEMMA WholeBeginning ==
    ASSUME NEW ch, IsSeq(ch)
    PROVE  SubSeq(ch, 1, Len(ch)) = ch
<1>1. ch \in Seq({ch[i] : i \in 1..Len(ch)})
  BY Elements
<1> QED BY <1>1, SubSeqFull

\* A stamp is of a beginning of the log,
StampOK(ch, read) ==
    /\ read.scope \in Scopes
    /\ read.commit_cursor \in 0..Len(ch)
    /\ read.head_digest = SubSeq(ch, 1, read.commit_cursor)
    /\ read.schema_revision = RevisionIn(ch, read.scope, read.commit_cursor)

\* a tracer that commits at the head has its schema,
TracerOK(ch, schema, r) ==
    /\ r.pc \in {"idle", "stamp", "schema", "commit", "done", "gave up"}
    /\ r.pc = "schema" => "read" \in DOMAIN r
    /\ r.pc = "commit" =>
          /\ r.cursor \in 0..Len(ch) /\ SchemaOK(r.schema)
          /\ r.cursor = Len(ch) => r.schema = schema

\* and a reasoner has a ledger, of the runs there are.
LedgerType(ledger) ==
    /\ DOMAIN ledger = Runs /\ ledger = [run \in Runs |-> ledger[run]]
    /\ \A run \in Runs : IsSeq(ledger[run])
ReasonerOK(ch, r) ==
    /\ r.pc \in {"idle", "loaded", "ready"}
    /\ r.pc \in {"loaded", "ready"} =>
          r.cursor \in 0..Len(ch) /\ r.run \in Runs /\ LedgerType(r.ledger)
    /\ r.pc = "ready" => SchemaOK(r.schema)

ClientOK(ch, schema, c, r) ==
    /\ "read" \in DOMAIN r => StampOK(ch, r.read)
    /\ c \in Authors => r.pc \in {"idle", "stamped"} /\ (r.pc = "stamped" => "read" \in DOMAIN r)
    /\ c \in Tracers => TracerOK(ch, schema, r)
    /\ c \in Reasoners => ReasonerOK(ch, r)

ClientInv ==
    /\ DOMAIN clients = Clients
    /\ \A c \in Clients : ClientOK(changes, schemas[Home], c, clients[c])

\* What a client holds stays good while the log grows.
LEMMA ClientKept ==
    ASSUME NEW ch, NEW dh, IsSeq(ch), IsSeq(dh), Len(ch) <= Len(dh), \A i \in 1..Len(ch) : dh[i] = ch[i],
           NEW old, NEW new, Len(dh) = Len(ch) => new = old,
           NEW c, NEW r, ClientOK(ch, old, c, r)
    PROVE  ClientOK(dh, new, c, r)
<1>1. Len(ch) \in Nat /\ Len(dh) \in Nat
  BY DEF IsSeq
<1>2. ASSUME "read" \in DOMAIN r
      PROVE  StampOK(dh, r.read)
  <2> DEFINE k == r.read.commit_cursor
  <2>1. StampOK(ch, r.read) /\ k \in 0..Len(ch) /\ k \in Nat
    BY <1>1, <1>2 DEF ClientOK, StampOK
  <2>2. k \in 0..Len(dh) /\ \A i \in 1..k : dh[i] = ch[i]
    BY <1>1, <2>1
  <2> HIDE DEF k
  <2>3. SubSeq(dh, 1, k) = SubSeq(ch, 1, k)
    BY <2>1, SameBeginning
  <2>4. RevisionIn(dh, r.read.scope, k) = RevisionIn(ch, r.read.scope, k)
    BY <2>1, <2>2, RevisionPrefix
  <2> QED BY <2>1, <2>2, <2>3, <2>4 DEF StampOK, k
<1>3. TracerOK(ch, old, r) => TracerOK(dh, new, r)
  <2> SUFFICES ASSUME TracerOK(ch, old, r) PROVE TracerOK(dh, new, r)
    OBVIOUS
  <2>1. ASSUME r.pc = "commit"
        PROVE  /\ r.cursor \in 0..Len(dh) /\ SchemaOK(r.schema)
               /\ r.cursor = Len(dh) => r.schema = new
    <3>1. r.cursor \in 0..Len(ch) /\ SchemaOK(r.schema) /\ (r.cursor = Len(ch) => r.schema = old)
      BY <2>1 DEF TracerOK
    <3>2. r.cursor \in 0..Len(dh) /\ (r.cursor = Len(dh) => Len(dh) = Len(ch))
      BY <1>1, <3>1
    <3> QED BY <3>1, <3>2
  <2> QED BY <2>1 DEF TracerOK
<1>4. ReasonerOK(ch, r) => ReasonerOK(dh, r)
  BY <1>1 DEF ReasonerOK
<1> QED BY <1>2, <1>3, <1>4 DEF ClientOK

IsRegistry(r) == r = Registry(r.revision, r.records, r.relations, r.events)

LEMMA AreRegistries ==
    /\ \A a, b, c, d : IsRegistry(Registry(a, b, c, d))
    /\ \A r : SchemaOK(r) => IsRegistry(r)
    /\ \A r, kind, contract : IsRegistry(WithEvents(r, kind, contract))
    /\ \A r : IsRegistry(WithRunSchema(r))
<1>1. \A a, b, c, d : IsRegistry(Registry(a, b, c, d))
  BY DEF IsRegistry, Registry
<1>2. \A r : SchemaOK(r) => IsRegistry(r)
  BY DEF SchemaOK, IsRegistry
<1>3. \A r, kind, contract : IsRegistry(WithEvents(r, kind, contract))
  BY <1>1 DEF WithEvents
<1>4. \A r : IsRegistry(WithRunSchema(r))
  BY <1>1 DEF WithRunSchema
<1> QED BY <1>1, <1>2, <1>3, <1>4

\* and the commits of the clients are proper.
LEMMA AuthorProper ==
    ASSUME ClientInv, NEW a \in Authors, At(a, "stamped"), NEW at, NEW body \in Bodies
    PROVE  Proper(AuthorCommitOf(a, at, body))
<1>1. IsSeq(body) /\ \A i \in Positions(body, "schema") : IsRegistry(body[i].registry)
  BY BodiesAssumption, Elemental DEF IsRegistry
<1>2. clients[a].read.scope \in Scopes
  BY DEF ClientInv, ClientOK, StampOK, At, Clients
<1> QED BY <1>1, <1>2 DEF Proper, AuthorCommitOf, Commit, Proposed, IsRegistry

\* Sequences of one and of two mutations, and what they propose.
LEMMA ShortSequences ==
    /\ \A a : IsSeq(<<a>>) /\ Len(<<a>>) = 1
    /\ \A a, b : IsSeq(<<a, b>>) /\ Len(<<a, b>>) = 2
BY DEF IsSeq

LEMMA TraceProper ==
    ASSUME ClientInv, NEW c \in Tracers, At(c, "commit")
    PROVE  Proper(TraceCommitOf(c))
<1> DEFINE w == WithEvents(clients[c].schema, TraceKind, TraceContract)
           ms == TraceCommitOf(c).mutations
<1>1. SchemaOK(clients[c].schema)
  BY DEF ClientInv, ClientOK, TracerOK, At, Clients
<1>2. IsRegistry(w)
  BY <1>1, AreRegistries
<1>3. TraceCommitOf(c).scope \in Scopes
  BY RuntimeAssumption DEF TraceCommitOf, Commit
<1>4. ms = <<TraceEvent(c)>> \/ ms = <<SchemaOf(w), TraceEvent(c)>>
  BY DEF TraceCommitOf, Commit
<1> HIDE DEF w, ms
<1>5. IsSeq(ms)
  BY <1>4, ShortSequences
<1>6. \A i \in Positions(ms, "schema") : ms[i].registry = w
  BY <1>4 DEF Positions, TraceEvent, EventOf, SchemaOf
<1> QED BY <1>2, <1>3, <1>5, <1>6 DEF Proper, Proposed, IsRegistry, ms

LEMMA HookProper ==
    ASSUME NEW c
    PROVE  Proper(HookCommitOf(c))
<1> DEFINE w == Registry(1, <<>>, <<>>, [observation |-> EventSchema(FALSE, {})])
           ms == HookCommitOf(c).mutations
<1>1. IsRegistry(w)
  BY AreRegistries
<1>2. HookCommitOf(c).scope \in Scopes
  BY RuntimeAssumption DEF HookCommitOf, Commit
<1>3. ms = <<ClaimOf(c)>> \/ ms = <<SchemaOf(w), ClaimOf(c)>>
  BY DEF HookCommitOf, Commit
<1> HIDE DEF w, ms
<1>5. IsSeq(ms)
  BY <1>3, ShortSequences
<1>6. \A i \in Positions(ms, "schema") : ms[i].registry = w
  BY <1>3 DEF Positions, ClaimOf, SchemaOf
<1> QED BY <1>1, <1>2, <1>5, <1>6 DEF Proper, Proposed, IsRegistry, ms

\* An element of a concatenation is one of a part.
LEMMA ConcatenatedElement ==
    ASSUME NEW s, NEW t, IsSeq(s), IsSeq(t), NEW i \in 1..Len(s \o t)
    PROVE  \/ i \in 1..Len(s) /\ (s \o t)[i] = s[i]
           \/ \E j \in 1..Len(t) : i = Len(s) + j /\ (s \o t)[i] = t[j]
<1>1. /\ Len(s \o t) = Len(s) + Len(t) /\ Len(s) \in Nat /\ Len(t) \in Nat
      /\ \A k \in 1..Len(s) : (s \o t)[k] = s[k]
      /\ \A j \in 1..Len(t) : (s \o t)[Len(s) + j] = t[j]
  BY ONLY IsSeq(s), IsSeq(t), Concatenated DEF IsSeq
<1> DEFINE a == Len(s)
           b == Len(t)
           u == s \o t
<1>2. a \in Nat /\ b \in Nat /\ i \in 1..(a + b) /\ (\A k \in 1..a : u[k] = s[k])
      /\ \A j \in 1..b : u[a + j] = t[j]
  BY <1>1
<1>3. \/ i \in 1..a /\ u[i] = s[i]
      \/ \E j \in 1..b : i = a + j /\ u[i] = t[j]
  <2> HIDE DEF a, b, u
  <2>1. CASE i <= a
    BY <1>2, <2>1
  <2>2. CASE ~(i <= a)
    <3>1. i - a \in 1..b /\ i = a + (i - a)
      BY <1>2, <2>2
    <3> QED BY <1>2, <3>1
  <2> QED BY <2>1, <2>2
<1> QED BY <1>3

\* The mutations of a run's history, and of the whole ledger.
HistoryOf(ledger, run, m) ==
    /\ ledger[run] # <<>>
    /\ \/ m = RunRecord(run, ledger[run])
       \/ \E j \in 1..Len(ledger[run]) : m = EventMutation(run, ledger[run][j])

LEMMA HistoryKinds ==
    ASSUME NEW ledger, NEW run, NEW m, HistoryOf(ledger, run, m)
    PROVE  m.kind \in {"record", "event"}
<1>1. RunRecord(run, ledger[run]).kind = "record"
  BY DEF RunRecord, RecordOf
<1>2. \A e : EventMutation(run, e).kind = "event"
  BY DEF EventMutation, EventOf
<1> QED BY <1>1, <1>2 DEF HistoryOf

LEMMA WholeRunElements ==
    ASSUME NEW ledger, NEW run, IsSeq(ledger[run]), NEW i \in 1..Len(WholeRun(ledger, run))
    PROVE  HistoryOf(ledger, run, WholeRun(ledger, run)[i])
<1> DEFINE all == WholeRun(ledger, run)
           n == Len(ledger[run])
<1>1. ledger[run] # <<>> /\ n \in Nat
  BY WholeRunIsSeq DEF IsSeq
<1>2. /\ Len(all) = n + 1 /\ all[1] = RunRecord(run, ledger[run])
      /\ \A j \in 1..n : all[j + 1] = EventMutation(run, ledger[run][j])
  BY <1>1, WholeRunIsSeq
<1>3. CASE i = 1
  BY <1>1, <1>2, <1>3 DEF HistoryOf
<1>4. CASE i # 1
  <2>1. i \in 1..(n + 1)
    BY <1>2
  <2>2. i - 1 \in 1..n /\ (i - 1) + 1 = i
    <3> HIDE DEF n
    <3> QED BY <1>1, <1>4, <2>1
  <2>3. all[i] = EventMutation(run, ledger[run][i - 1])
    BY <1>2, <2>2
  <2> QED BY <1>1, <2>2, <2>3 DEF HistoryOf
<1> QED BY <1>3, <1>4

LEMMA WholeElements ==
    ASSUME NEW ledger, \A run \in Runs : IsSeq(ledger[run])
    PROVE  \A i \in 1..Len(WholeLedger(ledger)) :
              \E run \in Runs : HistoryOf(ledger, run, WholeLedger(ledger)[i])
<1>1. PICK f : /\ f[0] = <<>>
               /\ \A n \in 1..Len(RunOrder) : f[n] = f[n - 1] \o WholeRun(ledger, RunOrder[n])
               /\ WholeLedger(ledger) = f[Len(RunOrder)]
  BY RunOrderIsSeq, AllRun
<1> DEFINE Good(s) == IsSeq(s) /\ \A i \in 1..Len(s) : \E run \in Runs : HistoryOf(ledger, run, s[i])
           G == {n \in Nat : Good(f[n])}
<1>2. 0 \in G
  BY <1>1 DEF IsSeq
<1>3. ASSUME NEW n \in 1..Len(RunOrder), n - 1 \in G
      PROVE  n \in G
  <2> DEFINE s == f[n - 1]
             run == RunOrder[n]
             t == WholeRun(ledger, run)
  <2>1. n \in Nat /\ Good(s) /\ run \in Runs
    BY <1>3, RunOrderIsSeq
  <2>2. f[n] = s \o t
    BY <1>1
  <2>3. IsSeq(t) /\ \A i \in 1..Len(t) : HistoryOf(ledger, run, t[i])
    BY <2>1, WholeRunIsSeq, WholeRunElements
  <2> HIDE DEF s, t, run
  <2>4. IsSeq(s \o t)
    BY <2>1, <2>3, Concatenated
  <2>5. ASSUME NEW i \in 1..Len(s \o t)
        PROVE  \E q \in Runs : HistoryOf(ledger, q, (s \o t)[i])
    <3>1. \/ i \in 1..Len(s) /\ (s \o t)[i] = s[i]
          \/ \E j \in 1..Len(t) : i = Len(s) + j /\ (s \o t)[i] = t[j]
      BY <2>1, <2>3, ConcatenatedElement
    <3> QED BY <2>1, <2>3, <3>1
  <2>6. Good(s \o t)
    BY <2>4, <2>5
  <2> HIDE DEF Good
  <2> QED BY <2>1, <2>2, <2>6
<1>4. Len(RunOrder) \in G
  <2> HIDE DEF G
  <2>1. Len(RunOrder) \in Nat /\ Len(RunOrder) \in 0..Len(RunOrder)
    BY RunOrderIsSeq
  <2> QED BY <1>2, <1>3, <2>1, Induction
<1> QED BY <1>1, <1>4

LEMMA ReasonProper ==
    ASSUME ClientInv, NEW c \in Reasoners, At(c, "ready")
    PROVE  Proper(ReasonCommitOf(c))
<1> DEFINE r == clients[c]
           w == WithRunSchema(r.schema)
           s == IF HasRunSchema(r.schema) THEN <<>> ELSE <<SchemaOf(w)>>
           two == <<RunRecord(r.run, r.ledger[r.run]),
                    EventMutation(r.run, r.ledger[r.run][Len(r.ledger[r.run])])>>
           t == IF Migrates(r.cursor) THEN WholeLedger(r.ledger) ELSE two
           ms == ReasonCommitOf(c).mutations
<1>1. \A run \in Runs : IsSeq(r.ledger[run])
  BY DEF ClientInv, ClientOK, ReasonerOK, LedgerType, At, Clients
<1>2. IsRegistry(w)
  BY AreRegistries
<1>3. ReasonCommitOf(c).scope \in Scopes
  BY RuntimeAssumption DEF ReasonCommitOf, Commit
<1>4. ms = s \o t
  BY DEF ReasonCommitOf, Commit, ReasonMutations
<1>5. IsSeq(s) /\ \A i \in 1..Len(s) : s[i].registry = w
  <2>1. CASE HasRunSchema(r.schema)
    BY <2>1 DEF IsSeq
  <2>2. CASE ~HasRunSchema(r.schema)
    <3>1. s = <<SchemaOf(w)>>
      BY <2>2
    <3> HIDE DEF s, w
    <3> QED BY <3>1 DEF IsSeq, SchemaOf
  <2> QED BY <2>1, <2>2
<1>6. IsSeq(t) /\ \A i \in 1..Len(t) : t[i].kind # "schema"
  <2>1. CASE Migrates(r.cursor)
    <3>1. t = WholeLedger(r.ledger)
      BY <2>1
    <3>2. ASSUME NEW i \in 1..Len(WholeLedger(r.ledger))
          PROVE  WholeLedger(r.ledger)[i].kind # "schema"
      <4>1. PICK run \in Runs : HistoryOf(r.ledger, run, WholeLedger(r.ledger)[i])
        BY <1>1, WholeElements
      <4> QED BY <4>1, HistoryKinds
    <3>3. IsSeq(WholeLedger(r.ledger))
      BY <1>1, WholeLedgerIsSeq
    <3> QED BY <3>1, <3>2, <3>3
  <2>2. CASE ~Migrates(r.cursor)
    <3>1. t = two
      BY <2>2
    <3>2. IsSeq(two) /\ Len(two) = 2
      BY ShortSequences
    <3>3. two[1].kind = "record" /\ two[2].kind = "event"
      BY DEF RunRecord, EventMutation, RecordOf, EventOf
    <3> HIDE DEF two, t
    <3> QED BY <3>1, <3>2, <3>3
  <2> QED BY <2>1, <2>2
<1> HIDE DEF r, w, s, t, two, ms
<1>7. IsSeq(ms)
  BY <1>4, <1>5, <1>6, Concatenated
<1>8. ASSUME NEW i \in Positions(ms, "schema")
      PROVE  ms[i].registry = w
  <2>1. i \in 1..Len(s \o t) /\ ms[i].kind = "schema"
    BY <1>4, <1>7 DEF Positions, IsSeq
  <2>2. \/ i \in 1..Len(s) /\ (s \o t)[i] = s[i]
        \/ \E j \in 1..Len(t) : i = Len(s) + j /\ (s \o t)[i] = t[j]
    <3>1. IsSeq(s) /\ IsSeq(t) /\ i \in 1..Len(s \o t)
      BY <1>5, <1>6, <2>1
    <3> QED BY ONLY <3>1, ConcatenatedElement, SMTT(60)
  <2> QED BY <1>4, <1>5, <1>6, <2>1, <2>2
<1> QED BY <1>2, <1>3, <1>7, <1>8 DEF Proper, Proposed, IsRegistry, ms

\* The ledger of a log has the runs there are, whatever was pushed.
LEMMA Appended ==
    ASSUME NEW s, IsSeq(s), NEW e
    PROVE  /\ IsSeq(Append(s, e)) /\ Len(Append(s, e)) = Len(s) + 1
           /\ Append(s, e)[Len(s) + 1] = e /\ Append(s, e) # <<>>
           /\ \A i \in 1..Len(s) : Append(s, e)[i] = s[i]
<1> DEFINE S == {s[i] : i \in 1..Len(s)} \cup {e}
<1>1. \A i \in 1..Len(s) : s[i] \in S
  OBVIOUS
<1>2. e \in S
  OBVIOUS
<1> HIDE DEF S
<1>3. s \in Seq(S) /\ Append(s, e) \in Seq(S)
  BY <1>1, <1>2, Elements
<1>4. IsSeq(Append(s, e))
  BY <1>3, Elemental
<1> QED BY <1>2, <1>3, <1>4

LEMMA PushedType ==
    ASSUME NEW ledger, LedgerType(ledger), NEW c
    PROVE  LedgerType(Pushed(ledger, c))
<1>1. CASE IsLedgerEvent(c)
  <2> DEFINE x == c.mutation.event.content.run
             e == c.mutation.event.content.event
  <2>1. Pushed(ledger, c) = [ledger EXCEPT ![x] = Append(ledger[x], e)]
    BY <1>1 DEF Pushed
  <2> HIDE DEF x, e
  <2>2. \A run \in Runs : IsSeq(Append(ledger[run], e))
    BY Appended DEF LedgerType
  <2> QED BY <2>1, <2>2 DEF LedgerType
<1>2. CASE ~IsLedgerEvent(c)
  BY <1>2 DEF Pushed
<1> QED BY <1>1, <1>2

LEMMA TypedType ==
    ASSUME NEW ch, NEW k \in Nat
    PROVE  LedgerType(TypedIn(ch, k))
<1>1. PICK f : /\ f[0] = EmptyLedger
               /\ \A n \in 1..k : f[n] = Pushed(f[n - 1], ch[n])
               /\ TypedIn(ch, k) = f[k]
  BY TypedRun
<1> DEFINE G == {n \in Nat : LedgerType(f[n])}
<1>2. 0 \in G
  BY <1>1 DEF LedgerType, EmptyLedger, IsSeq
<1>3. ASSUME NEW n \in 1..k, n - 1 \in G
      PROVE  n \in G
  <2>1. n \in Nat /\ f[n] = Pushed(f[n - 1], ch[n]) /\ LedgerType(f[n - 1])
    BY <1>1, <1>3
  <2> QED BY <2>1, PushedType
<1>4. k \in G
  <2> HIDE DEF G
  <2> QED BY <1>2, <1>3, Induction
<1> QED BY <1>1, <1>4

LEMMA LegacyType == LedgerType(LegacyLedger)
BY LegacyAssumption, Elemental DEF LedgerType

\* The ledger that load returns, in any log.
MigratesIn(ch, k) == (\A run \in Runs : TypedIn(ch, k)[run] = <<>>) /\ LegacyLedger # EmptyLedger
LedgerIn(ch, k) == IF MigratesIn(ch, k) THEN LegacyLedger ELSE TypedIn(ch, k)

LEMMA LedgersIn ==
    ASSUME NEW k
    PROVE  /\ TypedLedger(k) = TypedIn(changes, k)
           /\ Migrates(k) = MigratesIn(changes, k)
           /\ Ledger(k) = LedgerIn(changes, k)
<1>1. TypedLedger(k) = TypedIn(changes, k)
  BY DEF TypedLedger, TypedIn
<1>2. Migrates(k) = MigratesIn(changes, k)
  BY <1>1 DEF Migrates, MigratesIn
<1> QED BY <1>1, <1>2 DEF Ledger, LedgerIn

LEMMA LedgerHasType ==
    ASSUME NEW ch, NEW k \in Nat
    PROVE  LedgerType(LedgerIn(ch, k))
BY TypedType, LegacyType DEF LedgerIn

-----------------------------------------------------------------------------
(* The steps *)

\* A client that goes on while the log stays as it is,
LEMMA StepReads ==
    ASSUME LogInv, ClientInv, UNCHANGED log,
           NEW c \in Clients, NEW r, Become(c, r), ClientOK(changes, schemas[Home], c, r)
    PROVE  LogInv' /\ ClientInv'
<1>1. LogInv'
  BY SameLog
<1>2. changes' = changes /\ schemas' = schemas
  BY DEF log
<1>3. DOMAIN clients' = Clients /\ clients'[c] = r /\ \A e \in Clients : e # c => clients'[e] = clients[e]
  BY DEF Become, ClientInv
<1>4. \A e \in Clients : ClientOK(changes, schemas[Home], e, clients'[e])
  BY <1>3 DEF ClientInv
<1>5. ClientInv'
  BY <1>2, <1>3, <1>4 DEF ClientInv
<1> QED BY <1>1, <1>5

\* or with a commit.
LEMMA StepCommits ==
    ASSUME LogInv, ClientInv, NEW m, Proper(m), Accept(m),
           NEW c \in Clients, NEW r, Become(c, r), ClientOK(changes, schemas[Home], c, r)
    PROVE  LogInv' /\ ClientInv'
<1>1. LogInv'
  BY AcceptKeepsLog
<1>2. /\ IsSeq(changes) /\ IsSeq(changes') /\ Len(changes) \in Nat /\ Len(m.mutations) \in Nat
      /\ Len(changes') = Len(changes) + Len(m.mutations) /\ Len(m.mutations) >= 1
      /\ \A i \in 1..Len(changes) : changes'[i] = changes[i]
  BY AcceptedLog DEF LogInv, LogType, Proper, IsSeq, Cursor
<1>3. Len(changes) <= Len(changes') /\ Len(changes') # Len(changes)
  BY <1>2
<1>4. DOMAIN clients' = Clients /\ clients'[c] = r /\ \A e \in Clients : e # c => clients'[e] = clients[e]
  BY DEF Become, ClientInv
<1>5. \A e \in Clients : ClientOK(changes, schemas[Home], e, clients'[e])
  BY <1>4 DEF ClientInv
<1>6. ASSUME NEW e \in Clients
      PROVE  ClientOK(changes', schemas'[Home], e, clients'[e])
  BY <1>2, <1>3, <1>5, ClientKept
<1>7. ClientInv'
  BY <1>4, <1>6 DEF ClientInv
<1> QED BY <1>1, <1>7

\* A client that returns holds nothing.
LEMMA Idle ==
    ASSUME NEW c \in Clients
    PROVE  /\ ClientOK(changes, schemas[Home], c, [pc |-> "idle"])
           /\ c \in Tracers => \A pc \in {"done", "gave up"} :
                 ClientOK(changes, schemas[Home], c, [pc |-> pc])
           /\ c \in Tracers => \A n :
                 ClientOK(changes, schemas[Home], c, [pc |-> "stamp", tries |-> n])
           /\ c \in Hooks => \A i : ClientOK(changes, schemas[Home], c, [pc |-> "looked", install |-> i])
           /\ c \in Hooks => \A i, k :
                 ClientOK(changes, schemas[Home], c, [pc |-> "ready", install |-> i, cursor |-> k])
BY ClientsAssumption DEF ClientOK, TracerOK, ReasonerOK

-----------------------------------------------------------------------------
(* A trace commit at the head is never refused *)

\* A commit without records and relations leaves the latest versions as they are.
LEMMA NothingOverlaid ==
    ASSUME NEW objects, NEW ms, NEW kind, Positions(ms, kind) = {}
    PROVE  Values(Overlaid(objects, ms, kind)) = Values(objects)
<1> DEFINE new == Overlaid(objects, ms, kind)
<1>1. DOMAIN new = DOMAIN objects /\ \A ref \in DOMAIN objects : new[ref] = objects[ref]
  BY DEF Overlaid
<1> HIDE DEF new
<1>2. Values(new) = Values(objects)
  BY <1>1 DEF Values
<1> QED BY <1>2 DEF new

\* The registry asks of the latest versions what its record and relation types say.
LEMMA SameTypes ==
    ASSUME NEW r, NEW w, w.records = r.records, w.relations = r.relations, NEW R, NEW L
    PROVE  /\ RecordsUnique(r, R) => RecordsUnique(w, R)
           /\ RelationsWithinLimits(r, L) => RelationsWithinLimits(w, L)
<1>1. RecordsUnique(r, R) => RecordsUnique(w, R)
  BY Zenon DEF RecordsUnique
<1>2. RelationsWithinLimits(r, L) => RelationsWithinLimits(w, L)
  BY Zenon DEF RelationsWithinLimits
<1> QED BY <1>1, <1>2

LEMMA NoTypes ==
    ASSUME NEW R, NEW L
    PROVE  RecordsUnique(NoSchema, R) /\ RelationsWithinLimits(NoSchema, L)
<1>1. DOMAIN NoSchema.records = {} /\ DOMAIN NoSchema.relations = {}
  BY DEF NoSchema, Registry
<1> QED BY <1>1 DEF RecordsUnique, RelationsWithinLimits

\* A contract declared for events makes a valid registry of any that was there.
LEMMA WithEventsValid ==
    ASSUME NEW r, SchemaOK(r), NEW kind, NEW contract
    PROVE  LET w == WithEvents(r, kind, contract)
           IN  /\ w.revision = r.revision + 1 /\ w.records = r.records /\ w.relations = r.relations
               /\ kind \in DOMAIN w.events /\ w.events[kind] = contract
               /\ RegistryValid(w) /\ w # NoSchema
<1> DEFINE w == WithEvents(r, kind, contract)
<1>1. /\ w.revision = r.revision + 1 /\ w.records = r.records /\ w.relations = r.relations
      /\ w.events = Declared(r.events, kind, contract)
  BY DEF WithEvents, Registry
<1>2. kind \in DOMAIN w.events /\ w.events[kind] = contract
  BY <1>1 DEF Declared
<1> HIDE DEF w
<1>3. r.revision \in Nat /\ w.revision > 0
  BY <1>1 DEF SchemaOK
<1>4. w # NoSchema
  BY <1>3 DEF NoSchema, Registry
<1>5. CASE r = NoSchema
  <2>1. DOMAIN r.records = {} /\ DOMAIN r.relations = {}
    BY <1>5 DEF NoSchema, Registry
  <2> QED BY <1>1, <1>2, <1>3, <1>4, <2>1 DEF RegistryValid, w
<1>6. CASE r # NoSchema
  <2>1. RegistryValid(r)
    BY <1>6 DEF SchemaOK
  <2>2. RegistryValid(w)
    BY <1>1, <1>2, <1>3, <2>1 DEF RegistryValid
  <2> QED BY <1>1, <1>2, <1>4, <2>2 DEF w
<1> QED BY <1>5, <1>6

\* A commit of events that mention nothing, with or without a schema before them.
LEMMA TraceNotRefused ==
    ASSUME LogInv, ClientInv, NEW c \in Tracers, At(c, "commit")
    PROVE  Refusal(TraceCommitOf(c)) \in {"none", "conflict"}
<1> DEFINE m == TraceCommitOf(c)
           ms == m.mutations
           r == clients[c].schema
           w == WithEvents(r, TraceKind, TraceContract)
           has == HasEvents(r, TraceKind, TraceContract)
           eff == IF has THEN r ELSE w
<1>1. /\ SchemaOK(r) /\ clients[c].cursor \in 0..Len(changes)
      /\ clients[c].cursor = Len(changes) => r = schemas[Home]
  BY DEF ClientInv, ClientOK, TracerOK, At, Clients
<1>2. /\ m.scope = Home /\ m.expected_cursor = clients[c].cursor
      /\ has => ms = <<TraceEvent(c)>>
      /\ ~has => ms = <<SchemaOf(w), TraceEvent(c)>>
  BY DEF TraceCommitOf, Commit
<1>3. /\ TraceEvent(c).kind = "event" /\ TraceEvent(c).event.kind = TraceKind
      /\ TraceEvent(c).event.subject = {} /\ Mentions(TraceEvent(c)) = {}
      /\ SchemaOf(w).kind = "schema" /\ Mentions(SchemaOf(w)) = {} /\ SchemaOf(w).registry = w
  BY DEF TraceEvent, EventOf, SchemaOf, Mentions
<1> HIDE DEF m
<1>4. /\ DOMAIN ms \in {1..1, 1..2} /\ ms # <<>>
      /\ has => Positions(ms, "schema") = {} /\ Positions(ms, "event") = {1}
      /\ ~has => Positions(ms, "schema") = {1} /\ Positions(ms, "event") = {2}
      /\ Positions(ms, "record") = {} /\ Positions(ms, "relation") = {}
      /\ \A i \in DOMAIN ms : ms[i].kind \in {"schema", "event"} /\ Mentions(ms[i]) = {}
      /\ \A i \in Positions(ms, "event") : ms[i] = TraceEvent(c)
      /\ \A i \in Positions(ms, "schema") : ms[i].registry = w
  <2>1. CASE has
    <3>1. ms = <<TraceEvent(c)>>
      BY <1>2, <2>1
    <3> HIDE DEF has
    <3> QED BY <1>3, <2>1, <3>1 DEF Positions
  <2>2. CASE ~has
    <3>1. ms = <<SchemaOf(w), TraceEvent(c)>>
      BY <1>2, <2>2
    <3> HIDE DEF has, w
    <3> QED BY <1>3, <2>2, <3>1 DEF Positions
  <2> QED BY <2>1, <2>2
<1> HIDE DEF ms, w, r, has
<1>5. CommitValid(ms)
  <2>1. Cardinality({}) = 0 /\ Cardinality({1}) = 1
    BY FS_EmptySet, FS_Singleton
  <2>2. Cardinality(Positions(ms, "schema")) <= 1
    <3>1. Positions(ms, "schema") = {} \/ Positions(ms, "schema") = {1}
      BY <1>4
    <3>2. CASE Positions(ms, "schema") = {}
      BY <2>1, <3>2
    <3>3. CASE Positions(ms, "schema") = {1}
      BY <2>1, <3>3
    <3> QED BY <3>1, <3>2, <3>3
  <2>3. {i \in DOMAIN ms : ms[i].kind \in {"record", "relation", "data"}} = {}
    BY <1>4
  <2> QED BY <1>4, <2>2, <2>3 DEF CommitValid
<1>6. CASE m.expected_cursor # Cursor
  <2>1. Refusal(m) = "conflict"
    BY <1>5, <1>6 DEF Refusal, ms
  <2> QED BY <2>1 DEF m
<1>7. CASE m.expected_cursor = Cursor
  <2>1. r = schemas[Home] /\ r = schemas[m.scope]
    BY <1>1, <1>2, <1>7 DEF Cursor
  <2>2. /\ w.revision = r.revision + 1 /\ w.records = r.records /\ w.relations = r.relations
        /\ TraceKind \in DOMAIN w.events /\ w.events[TraceKind] = TraceContract
        /\ RegistryValid(w) /\ w # NoSchema
    BY <1>1, WithEventsValid DEF w
  <2>3. /\ has => Proposed(ms) = {}
        /\ ~has => Proposed(ms) = {w}
    BY <1>4 DEF Proposed
  <2>4. \A q \in Proposed(ms) : q.revision = NextRevision(schemas[m.scope])
    BY <2>1, <2>2, <2>3 DEF NextRevision
  <2>5. Effective(m) = eff
    BY <2>1, <2>3 DEF Effective, ms
  <2>6. /\ eff # NoSchema /\ RegistryValid(eff) /\ eff.records = r.records /\ eff.relations = r.relations
        /\ TraceKind \in DOMAIN eff.events /\ eff.events[TraceKind] = TraceContract
    <3>1. CASE has
      <4>1. TraceKind \in DOMAIN r.events /\ r.events[TraceKind] = TraceContract
        BY <3>1 DEF has, HasEvents
      <4>2. r # NoSchema
        BY <4>1 DEF NoSchema, Registry
      <4> QED BY <1>1, <3>1, <4>1, <4>2 DEF SchemaOK
    <3>2. CASE ~has
      BY <2>2, <3>2
    <3> QED BY <3>1, <3>2
  <2> HIDE DEF eff
  <2>7. EventValid(eff, TraceEvent(c).event)
    BY <1>3, <2>6 DEF EventValid, TraceContract, EventSchema
  <2>8. /\ RecordsUnique(r, Values(records[Home]))
        /\ RelationsWithinLimits(r, Values(relations[Home]))
    <3>1. CASE r = NoSchema
      BY <3>1, NoTypes
    <3>2. CASE r # NoSchema
      BY <2>1, <3>2, RuntimeAssumption DEF LogInv, RuntimeSound, LatestGraphSound
    <3> QED BY <3>1, <3>2
  <2>9. /\ RecordsUnique(eff, Values(records[Home]))
        /\ RelationsWithinLimits(eff, Values(relations[Home]))
    BY <2>6, <2>8, SameTypes
  <2>10. ObjectsValid(eff, ms, records[Home], relations[Home])
    BY <1>4, <2>6, <2>7, <2>9, NothingOverlaid DEF ObjectsValid
  <2>11. ~Dangles(m)
    BY <1>4 DEF Dangles, ms
  <2>12. Refusal(m) = "none"
    BY <1>2, <1>5, <1>7, <2>4, <2>5, <2>6, <2>10, <2>11 DEF Refusal, ms
  <2> QED BY <2>12 DEF m
<1> QED BY <1>6, <1>7 DEF m

-----------------------------------------------------------------------------
(* The inductive invariant *)

RuntimeInv == LogInv /\ ClientInv

LEMMA StampNow ==
    ASSUME LogInv, NEW s \in Scopes
    PROVE  StampOK(changes, ReadStamp(s))
<1>1. IsSeq(changes) /\ Len(changes) \in 0..Len(changes)
  BY DEF LogInv, LogType, IsSeq
<1>2. Revision(schemas[s]) = RevisionIn(changes, s, Len(changes))
  BY RevisionAtIn DEF LogInv, RuntimeSound, KeyspacesAreReplay, Cursor
<1> QED BY <1>1, <1>2, WholeBeginning DEF StampOK, ReadStamp, Cursor

LEMMA AuthorSteps ==
    ASSUME RuntimeInv, NEW a \in Authors,
           \/ \E scope \in Scopes : AuthorStamp(a, scope)
           \/ \E at \in Times, body \in Bodies : AuthorCommit(a, at, body)
    PROVE  RuntimeInv'
<1> USE DEF RuntimeInv
<1>0. a \in Clients
  BY DEF Clients
<1>1. ASSUME NEW scope \in Scopes, AuthorStamp(a, scope)
      PROVE  RuntimeInv'
  <2> DEFINE r == [pc |-> "stamped", read |-> ReadStamp(scope)]
  <2>1. ClientOK(changes, schemas[Home], a, r)
    BY <1>0, ClientsAssumption, StampNow DEF ClientOK
  <2>2. Become(a, r) /\ UNCHANGED log
    BY <1>1 DEF AuthorStamp
  <2> HIDE DEF r
  <2> QED BY <1>0, <2>1, <2>2, StepReads
<1>2. ASSUME NEW at \in Times, NEW body \in Bodies, AuthorCommit(a, at, body)
      PROVE  RuntimeInv'
  <2>1. ClientOK(changes, schemas[Home], a, [pc |-> "idle"]) /\ Become(a, [pc |-> "idle"])
    BY <1>0, <1>2, Idle DEF AuthorCommit
  <2>2. Proper(AuthorCommitOf(a, at, body))
    BY <1>2, AuthorProper DEF AuthorCommit
  <2>3. Accept(AuthorCommitOf(a, at, body)) \/ UNCHANGED log
    BY <1>2 DEF AuthorCommit
  <2> QED BY <1>0, <2>1, <2>2, <2>3, StepReads, StepCommits
<1> QED BY <1>1, <1>2

LEMMA TracerSteps ==
    ASSUME RuntimeInv, NEW c \in Tracers, TraceStart(c) \/ TraceStamp(c) \/ TraceSchema(c) \/ TraceCommit(c)
    PROVE  RuntimeInv'
<1> USE DEF RuntimeInv
<1>0. c \in Clients /\ ClientOK(changes, schemas[Home], c, clients[c]) /\ Home \in Scopes
      /\ c \notin Authors /\ c \notin Reasoners
  BY RuntimeAssumption, ClientsAssumption DEF Clients, ClientInv
<1>1. CASE TraceStart(c)
  <2>1. Become(c, [pc |-> "stamp", tries |-> 0]) /\ UNCHANGED log
    BY <1>1 DEF TraceStart
  <2>2. ClientOK(changes, schemas[Home], c, [pc |-> "stamp", tries |-> 0])
    BY <1>0, Idle
  <2> QED BY <1>0, <2>1, <2>2, StepReads
<1>2. CASE TraceStamp(c)
  <2>1. UNCHANGED log
    BY <1>2 DEF TraceStamp
  <2>2. CASE Become(c, [pc |-> "gave up"])
    <3>1. ClientOK(changes, schemas[Home], c, [pc |-> "gave up"])
      BY <1>0, Idle
    <3> QED BY <1>0, <2>1, <2>2, <3>1, StepReads
  <2>3. CASE Become(c, [pc |-> "schema", tries |-> clients[c].tries + 1, read |-> ReadStamp(Home)])
    <3> DEFINE r == [pc |-> "schema", tries |-> clients[c].tries + 1, read |-> ReadStamp(Home)]
    <3>1. "read" \in DOMAIN r /\ r.read = ReadStamp(Home) /\ r.pc = "schema"
      OBVIOUS
    <3>2. Become(c, r)
      BY <2>3
    <3> HIDE DEF r
    <3>3. ClientOK(changes, schemas[Home], c, r)
      BY <1>0, <3>1, StampNow DEF ClientOK, TracerOK
    <3> QED BY <1>0, <2>1, <3>2, <3>3, StepReads
  <2> QED BY <1>2, <2>2, <2>3 DEF TraceStamp
<1>3. CASE TraceSchema(c)
  <2>1. UNCHANGED log /\ clients[c].pc = "schema"
    BY <1>3 DEF TraceSchema, At
  <2>2. clients[c].read.commit_cursor \in 0..Len(changes)
    BY <1>0, <2>1 DEF ClientOK, TracerOK, StampOK
  <2>3. CASE Become(c, [pc |-> "stamp", tries |-> clients[c].tries])
    <3>1. ClientOK(changes, schemas[Home], c, [pc |-> "stamp", tries |-> clients[c].tries])
      BY <1>0, Idle
    <3> QED BY <1>0, <2>1, <2>3, <3>1, StepReads
  <2>4. CASE Become(c, [pc |-> "commit", tries |-> clients[c].tries,
                        cursor |-> clients[c].read.commit_cursor, schema |-> schemas[Home]])
    <3> DEFINE r == [pc |-> "commit", tries |-> clients[c].tries,
                     cursor |-> clients[c].read.commit_cursor, schema |-> schemas[Home]]
    <3>1. "read" \notin DOMAIN r /\ r.pc = "commit" /\ r.cursor \in 0..Len(changes) /\ r.schema = schemas[Home]
      BY <2>2
    <3>2. Become(c, r)
      BY <2>4
    <3> HIDE DEF r
    <3>3. SchemaOK(r.schema)
      BY <1>0, <3>1 DEF LogInv, LogType
    <3>4. ClientOK(changes, schemas[Home], c, r)
      BY <1>0, <3>1, <3>3 DEF ClientOK, TracerOK
    <3> QED BY <1>0, <2>1, <3>2, <3>4, StepReads
  <2> QED BY <1>3, <2>3, <2>4 DEF TraceSchema
<1>4. CASE TraceCommit(c)
  <2>1. Proper(TraceCommitOf(c)) /\ Refusal(TraceCommitOf(c)) \in {"none", "conflict"}
    BY <1>4, TraceProper, TraceNotRefused DEF TraceCommit
  <2>2. CASE Accept(TraceCommitOf(c)) /\ Become(c, [pc |-> "done"])
    <3>1. ClientOK(changes, schemas[Home], c, [pc |-> "done"])
      BY <1>0, Idle
    <3> QED BY <1>0, <2>1, <2>2, <3>1, StepCommits
  <2>3. CASE /\ Refusal(TraceCommitOf(c)) = "conflict"
             /\ Become(c, [pc |-> "stamp", tries |-> clients[c].tries]) /\ UNCHANGED log
    <3>1. ClientOK(changes, schemas[Home], c, [pc |-> "stamp", tries |-> clients[c].tries])
      BY <1>0, Idle
    <3> QED BY <1>0, <2>3, <3>1, StepReads
  <2> QED BY <1>4, <2>1, <2>2, <2>3 DEF TraceCommit
<1> QED BY <1>1, <1>2, <1>3, <1>4

LEMMA ReasonerSteps ==
    ASSUME RuntimeInv, NEW c \in Reasoners,
           \/ \E run \in Runs, payload \in Payloads : ReasonLoad(c, run, payload)
           \/ ReasonSchema(c) \/ ReasonCommit(c)
    PROVE  RuntimeInv'
<1> USE DEF RuntimeInv
<1>0. c \in Clients /\ ClientOK(changes, schemas[Home], c, clients[c]) /\ Home \in Scopes
      /\ c \notin Authors /\ c \notin Tracers /\ Len(changes) \in Nat
  BY RuntimeAssumption, ClientsAssumption DEF Clients, ClientInv, LogInv, LogType, IsSeq
<1>1. ASSUME NEW run \in Runs, NEW payload \in Payloads, ReasonLoad(c, run, payload)
      PROVE  RuntimeInv'
  <2> DEFINE old == Ledger(Cursor)[run]
             e == [ordinal |-> Len(old) + 1, payload |-> payload]
             ledger == [Ledger(Cursor) EXCEPT ![run] = Append(old, e)]
             r == [pc |-> "loaded", cursor |-> Cursor, run |-> run, ledger |-> ledger]
  <2>1. UNCHANGED log /\ Become(c, r)
    BY <1>1 DEF ReasonLoad
  <2>2. LedgerType(Ledger(Cursor))
    BY <1>0, LedgersIn, LedgerHasType DEF Cursor
  <2>3. IsSeq(old)
    BY <2>2 DEF LedgerType
  <2> HIDE DEF e, old
  <2>4. IsSeq(Append(old, e))
    BY <2>3, Appended
  <2>5. LedgerType(ledger)
    BY <2>2, <2>4 DEF LedgerType
  <2> HIDE DEF ledger
  <2>6. /\ "read" \notin DOMAIN r /\ r.pc = "loaded" /\ r.run \in Runs /\ r.cursor = Cursor
        /\ r.ledger = ledger
    OBVIOUS
  <2> HIDE DEF r
  <2>7. ClientOK(changes, schemas[Home], c, r)
    BY <1>0, <2>5, <2>6 DEF ClientOK, ReasonerOK, Cursor
  <2> QED BY <1>0, <2>1, <2>7, StepReads
<1>2. CASE ReasonSchema(c)
  <2> DEFINE q == clients[c]
             r == [pc |-> "ready", cursor |-> q.cursor, run |-> q.run, ledger |-> q.ledger,
                   schema |-> schemas[Home]]
  <2>1. UNCHANGED log /\ Become(c, r) /\ q.pc = "loaded"
    BY <1>2 DEF ReasonSchema, At
  <2>2. q.cursor \in 0..Len(changes) /\ q.run \in Runs /\ LedgerType(q.ledger)
    BY <1>0, <2>1 DEF ClientOK, ReasonerOK
  <2>3. /\ "read" \notin DOMAIN r /\ r.pc = "ready" /\ r.run = q.run /\ r.cursor = q.cursor
        /\ r.ledger = q.ledger /\ r.schema = schemas[Home]
    OBVIOUS
  <2> HIDE DEF r, q
  <2>4. SchemaOK(r.schema)
    BY <1>0, <2>3 DEF LogInv, LogType
  <2>5. ClientOK(changes, schemas[Home], c, r)
    BY <1>0, <2>2, <2>3, <2>4 DEF ClientOK, ReasonerOK
  <2> QED BY <1>0, <2>1, <2>5, StepReads
<1>3. CASE ReasonCommit(c)
  <2>1. ClientOK(changes, schemas[Home], c, [pc |-> "idle"]) /\ Become(c, [pc |-> "idle"])
    BY <1>0, <1>3, Idle DEF ReasonCommit
  <2>2. Proper(ReasonCommitOf(c))
    BY <1>3, ReasonProper DEF ReasonCommit
  <2>3. Accept(ReasonCommitOf(c)) \/ UNCHANGED log
    BY <1>3 DEF ReasonCommit
  <2> QED BY <1>0, <2>1, <2>2, <2>3, StepReads, StepCommits
<1> QED BY <1>1, <1>2, <1>3

LEMMA HookSteps ==
    ASSUME RuntimeInv, NEW c \in Hooks, HookSchema(c) \/ HookCursor(c) \/ HookCommit(c)
    PROVE  RuntimeInv'
<1> USE DEF RuntimeInv
<1>0. c \in Clients
  BY DEF Clients
<1>1. CASE HookSchema(c)
  <2> DEFINE r == [pc |-> "looked", install |-> schemas[Home] = NoSchema]
  <2>1. ClientOK(changes, schemas[Home], c, r)
    BY <1>0, Idle
  <2>2. Become(c, r) /\ UNCHANGED log
    BY <1>1 DEF HookSchema
  <2> HIDE DEF r
  <2> QED BY <1>0, <2>1, <2>2, StepReads
<1>2. CASE HookCursor(c)
  <2> DEFINE r == [pc |-> "ready", install |-> clients[c].install, cursor |-> Cursor]
  <2>1. ClientOK(changes, schemas[Home], c, r)
    BY <1>0, Idle
  <2>2. Become(c, r) /\ UNCHANGED log
    BY <1>2 DEF HookCursor
  <2> HIDE DEF r
  <2> QED BY <1>0, <2>1, <2>2, StepReads
<1>3. CASE HookCommit(c)
  <2>1. ClientOK(changes, schemas[Home], c, [pc |-> "idle"]) /\ Become(c, [pc |-> "idle"])
    BY <1>0, <1>3, Idle DEF HookCommit
  <2>2. Proper(HookCommitOf(c))
    BY HookProper
  <2>3. Accept(HookCommitOf(c)) \/ UNCHANGED log
    BY <1>3 DEF HookCommit
  <2> QED BY <1>0, <2>1, <2>2, <2>3, StepReads, StepCommits
<1> QED BY <1>1, <1>2, <1>3

LEMMA InitRuntime ==
    ASSUME Init
    PROVE  RuntimeInv
<1>1. \A c \in Clients : ClientOK(changes, schemas[Home], c, clients[c])
  BY Idle DEF Init
<1> QED BY <1>1, InitLog DEF RuntimeInv, ClientInv, Init

LEMMA RuntimeStep ==
    ASSUME RuntimeInv, [Next]_vars
    PROVE  RuntimeInv'
<1>1. CASE UNCHANGED vars
  <2>1. UNCHANGED log /\ changes' = changes /\ schemas' = schemas /\ clients' = clients
    BY <1>1 DEF vars, log
  <2> QED BY <2>1, SameLog DEF RuntimeInv, ClientInv
<1>2. CASE Next
  BY <1>2, AuthorSteps, TracerSteps, ReasonerSteps, HookSteps DEF Next
<1> QED BY <1>1, <1>2

LEMMA RuntimeInvariant == Spec => []RuntimeInv
<1>1. Init => RuntimeInv
  BY InitRuntime
<1>2. RuntimeInv /\ [Next]_vars => RuntimeInv'
  BY RuntimeStep
<1> QED BY <1>1, <1>2, PTL DEF Spec

\* Whatever commits raced: the keyspaces are the replay of the log, no reference in it
\* dangles, and the latest versions keep uniqueness and cardinality.
THEOREM CommitsKeepTheLogSound == Spec => []RuntimeSound
<1>1. RuntimeInv => RuntimeSound
  BY DEF RuntimeInv, LogInv
<1> QED BY <1>1, RuntimeInvariant, PTL

-----------------------------------------------------------------------------
(* Reading by pages *)

\* The reads of a consumer, one page after the other.
PageStep(f, head, limit, scope, k) ==
    IF k = 0 THEN [through_cursor |-> 0, changes |-> {}]
    ELSE ReadOn(f[k - 1], head, limit, scope)

LEMMA PageExists ==
    ASSUME NEW head, NEW limit, NEW scope, NEW n \in Nat
    PROVE  \E f : f = [k \in 0..n |-> PageStep(f, head, limit, scope, k)]
<1> DEFINE G == {k \in Nat : \E f : f = [j \in 0..k |-> PageStep(f, head, limit, scope, j)]}
<1>1. 0 \in G
  <2> DEFINE f == [j \in 0..0 |-> [through_cursor |-> 0, changes |-> {}]]
  <2>1. f = [j \in 0..0 |-> PageStep(f, head, limit, scope, j)]
    BY DEF PageStep
  <2> QED BY <2>1
<1>2. ASSUME NEW k \in 1..n, k - 1 \in G
      PROVE  k \in G
  <2>1. PICK f : f = [j \in 0..(k - 1) |-> PageStep(f, head, limit, scope, j)]
    BY <1>2
  <2> DEFINE g == [j \in 0..k |-> IF j = k THEN PageStep(f, head, limit, scope, k) ELSE f[j]]
  <2>2. ASSUME NEW j \in 0..k
        PROVE  g[j] = PageStep(g, head, limit, scope, j)
    <3>1. CASE j = k
      <4>1. k - 1 \in 0..k /\ k - 1 # k /\ k \in 0..k /\ k # 0
        OBVIOUS
      <4>2. g[k - 1] = f[k - 1] /\ g[k] = PageStep(f, head, limit, scope, k)
        BY <4>1
      <4> HIDE DEF g
      <4> QED BY <3>1, <4>1, <4>2 DEF PageStep
    <3>2. CASE j # k
      <4>1. j \in 0..(k - 1) /\ (j # 0 => j - 1 \in 0..(k - 1))
        BY <3>2
      <4>2. g[j] = f[j] /\ (j # 0 => g[j - 1] = f[j - 1])
        BY <3>2, <4>1
      <4>3. f[j] = PageStep(f, head, limit, scope, j)
        BY <2>1, <4>1
      <4> HIDE DEF g
      <4> QED BY <4>2, <4>3 DEF PageStep
    <3> QED BY <3>1, <3>2
  <2>3. g = [j \in 0..k |-> g[j]]
    OBVIOUS
  <2> HIDE DEF g
  <2>4. g = [j \in 0..k |-> PageStep(g, head, limit, scope, j)]
    BY <2>2, <2>3
  <2> QED BY <2>4
<1>3. n \in G
  <2> HIDE DEF G
  <2> QED BY <1>1, <1>2, Induction
<1> QED BY <1>3

\* What it has read at the end is the last of them.
LEMMA PageRun ==
    ASSUME NEW head, NEW limit, NEW scope, head \in Nat
    PROVE  \E f : /\ f[0] = [through_cursor |-> 0, changes |-> {}]
                  /\ \A n \in 1..head : f[n] = ReadOn(f[n - 1], head, limit, scope)
                  /\ Paged(head, limit, scope) = f[head]
<1> DEFINE f == CHOOSE f : f = [n \in 0..head |-> PageStep(f, head, limit, scope, n)]
<1>1. Paged(head, limit, scope) = f[head]
  BY DEF Paged, PageStep
<1>2. f = [n \in 0..head |-> PageStep(f, head, limit, scope, n)]
  BY PageExists
<1> HIDE DEF f
<1>3. \A n \in 0..head : f[n] = PageStep(f, head, limit, scope, n)
  BY <1>2
<1>4. f[0] = [through_cursor |-> 0, changes |-> {}]
  BY <1>3 DEF PageStep
<1>5. ASSUME NEW n \in 1..head
      PROVE  f[n] = ReadOn(f[n - 1], head, limit, scope)
  <2>1. f[n] = PageStep(f, head, limit, scope, n) /\ n # 0
    BY <1>3
  <2> QED BY <2>1 DEF PageStep
<1> QED BY <1>1, <1>4, <1>5

\* What a consumer has read up to a cursor.
ReadTo(scope, k) == [through_cursor |-> k, changes |-> {i \in 1..k : changes[i].scope = scope}]

\* A page goes on, and reads nothing twice and nothing past the head.
LEMMA ReadsOn ==
    ASSUME NEW head \in Nat, NEW k \in 0..head, NEW limit \in Nat, limit >= 1, NEW scope
    PROVE  \E l \in 0..head : /\ ReadOn(ReadTo(scope, k), head, limit, scope) = ReadTo(scope, l)
                              /\ l > k \/ l = head
<1> DEFINE l == PageEnd(head, k, limit, scope)
           old == {i \in 1..k : changes[i].scope = scope}
           new == {i \in (k + 1)..l : changes[i].scope = scope}
<1>1. l \in 0..head /\ k <= l /\ (l > k \/ l = head)
  BY DEF PageEnd
<1>2. ChangePage(head, k, limit, scope) = [through_cursor |-> l, changes |-> new]
  BY DEF ChangePage
<1>3. ReadTo(scope, k).through_cursor = k /\ ReadTo(scope, k).changes = old
  BY DEF ReadTo
<1> HIDE DEF l
<1>4. old \cup new = {i \in 1..l : changes[i].scope = scope}
  BY <1>1
<1> HIDE DEF old, new
<1>5. ReadOn(ReadTo(scope, k), head, limit, scope) = [through_cursor |-> l, changes |-> old \cup new]
  <2> DEFINE page == ChangePage(head, ReadTo(scope, k).through_cursor, limit, scope)
  <2>1. page.through_cursor = l /\ page.changes = new
    BY <1>2, <1>3
  <2>2. ReadOn(ReadTo(scope, k), head, limit, scope)
          = [through_cursor |-> page.through_cursor, changes |-> ReadTo(scope, k).changes \cup page.changes]
    BY DEF ReadOn
  <2> QED BY <1>3, <2>1, <2>2
<1> QED BY <1>1, <1>4, <1>5 DEF ReadTo

LEMMA PagesReadAll ==
    ASSUME NEW head \in Nat, NEW limit \in Nat, limit >= 1, NEW scope
    PROVE  Paged(head, limit, scope) = ReadTo(scope, head)
<1>1. PICK f : /\ f[0] = [through_cursor |-> 0, changes |-> {}]
               /\ \A n \in 1..head : f[n] = ReadOn(f[n - 1], head, limit, scope)
               /\ Paged(head, limit, scope) = f[head]
  BY PageRun
<1> DEFINE G == {n \in Nat : \E k \in 0..head : f[n] = ReadTo(scope, k) /\ (k >= n \/ k = head)}
<1>2. 0 \in G
  <2>1. ReadTo(scope, 0) = [through_cursor |-> 0, changes |-> {}]
    BY DEF ReadTo
  <2> QED BY <1>1, <2>1
<1>3. ASSUME NEW n \in 1..head, n - 1 \in G
      PROVE  n \in G
  <2>1. PICK k \in 0..head : f[n - 1] = ReadTo(scope, k) /\ (k >= n - 1 \/ k = head)
    BY <1>3
  <2>2. PICK l \in 0..head : ReadOn(ReadTo(scope, k), head, limit, scope) = ReadTo(scope, l) /\ (l > k \/ l = head)
    BY ReadsOn
  <2>3. f[n] = ReadTo(scope, l)
    BY <1>1, <2>1, <2>2
  <2>4. l >= n \/ l = head
    BY <2>1, <2>2
  <2> QED BY <2>3, <2>4
<1>4. head \in G
  <2> HIDE DEF G
  <2> QED BY <1>2, <1>3, Induction
<1>5. PICK k \in 0..head : f[head] = ReadTo(scope, k) /\ (k >= head \/ k = head)
  BY <1>4
<1>6. k = head
  BY <1>5
<1> QED BY <1>1, <1>5, <1>6

\* A stamp stays good while others commit: it is accepted, and a consumer that pages with
\* any limit reads each change of its scope up to the stamp once, and nothing later.
THEOREM StampsStayGood == Spec => []StampReadsExactly
<1>1. ASSUME RuntimeInv
      PROVE  StampReadsExactly
  <2> SUFFICES ASSUME NEW c \in Clients, "read" \in DOMAIN clients[c]
               PROVE  LET read == clients[c].read
                          k == read.commit_cursor
                      IN  /\ StampAccepted(read)
                          /\ \A limit \in 1..(k + 1) : Paged(k, limit, read.scope) = ReadTo(read.scope, k)
    BY DEF StampReadsExactly, ReadTo
  <2> DEFINE read == clients[c].read
             k == read.commit_cursor
  <2>1. StampOK(changes, read) /\ Len(changes) \in Nat
    BY <1>1 DEF RuntimeInv, ClientInv, ClientOK, LogInv, LogType, IsSeq
  <2>2. k \in Nat /\ k <= Len(changes)
    BY <2>1 DEF StampOK
  <2>3. StampAccepted(read)
    BY <2>1, <2>2, RevisionAtIn DEF StampOK, StampAccepted, Cursor
  <2> HIDE DEF k
  <2>4. \A limit \in 1..(k + 1) : Paged(k, limit, read.scope) = ReadTo(read.scope, k)
    BY <2>2, PagesReadAll
  <2> QED BY <2>3, <2>4 DEF k
<1> QED BY <1>1, RuntimeInvariant, PTL

-----------------------------------------------------------------------------
(* What a commit adds to traces and ledger *)

\* A mutation that is neither a trace nor of the ledger.
Foreign(m) ==
    /\ m.kind = "event" => m.event.kind \notin {TraceKind, LedgerKind}
    /\ m.kind = "record" => m.record.reference.kind # "run"

\* A reasoner's copy is the ledger it read and an event that it admits.
AddedTo(old, run, payload) ==
    [old EXCEPT ![run] = Append(@, [ordinal |-> Len(old[run]) + 1, payload |-> payload])]
Holds(ch, r) ==
    r.pc \in {"loaded", "ready"} =>
      \E payload \in Payloads :
          /\ Admits(LedgerIn(ch, r.cursor), r.run, payload)
          /\ r.ledger = AddedTo(LedgerIn(ch, r.cursor), r.run, payload)

\* Clients other than c stay where they are.
Others(c, r) ==
    /\ c \in Clients /\ clients'[c] = r
    /\ \A e \in Clients : e # c => clients'[e] = clients[e]

LEMMA BecomeOthers ==
    ASSUME RuntimeInv, NEW c \in Clients, NEW r, Become(c, r)
    PROVE  Others(c, r)
BY DEF Others, Become, RuntimeInv, ClientInv

LEMMA AuthorForeign ==
    ASSUME NEW a, NEW at, NEW body \in Bodies
    PROVE  \A j \in 1..Len(AuthorCommitOf(a, at, body).mutations) :
              Foreign(AuthorCommitOf(a, at, body).mutations[j])
<1>1. AuthorCommitOf(a, at, body).mutations = body
  BY DEF AuthorCommitOf, Commit
<1>2. DOMAIN body = 1..Len(body)
  BY BodiesAssumption, Elemental DEF IsSeq
<1> QED BY <1>1, <1>2, OwnKindsAssumption DEF Foreign

LEMMA SchemaForeign ==
    ASSUME NEW r
    PROVE  Foreign(SchemaOf(r)) /\ \A c : Foreign(ClaimOf(c))
BY DEF Foreign, SchemaOf, ClaimOf

LEMMA HookForeign ==
    ASSUME NEW c
    PROVE  \A j \in 1..Len(HookCommitOf(c).mutations) : Foreign(HookCommitOf(c).mutations[j])
<1> DEFINE w == Registry(1, <<>>, <<>>, [observation |-> EventSchema(FALSE, {})])
           ms == HookCommitOf(c).mutations
<1>1. ms = <<ClaimOf(c)>> \/ ms = <<SchemaOf(w), ClaimOf(c)>>
  BY DEF HookCommitOf, Commit
<1> HIDE DEF w, ms
<1>2. \A j \in 1..Len(ms) : ms[j] = ClaimOf(c) \/ ms[j] = SchemaOf(w)
  BY <1>1
<1>3. \A j \in 1..Len(ms) : Foreign(ms[j])
  BY <1>2, SchemaForeign
<1> QED BY <1>3 DEF ms

LEMMA TraceLast ==
    ASSUME NEW c
    PROVE  LET ms == TraceCommitOf(c).mutations
           IN  /\ Len(ms) \in Nat /\ Len(ms) >= 1 /\ ms[Len(ms)] = TraceEvent(c)
               /\ \A j \in 1..Len(ms) : j # Len(ms) => Foreign(ms[j])
<1> DEFINE w == WithEvents(clients[c].schema, TraceKind, TraceContract)
           ms == TraceCommitOf(c).mutations
<1>1. ms = <<TraceEvent(c)>> \/ ms = <<SchemaOf(w), TraceEvent(c)>>
  BY DEF TraceCommitOf, Commit
<1> HIDE DEF w, ms
<1>2. CASE ms = <<TraceEvent(c)>>
  <2>1. Len(ms) = 1 /\ ms[1] = TraceEvent(c)
    BY <1>2
  <2> QED BY <2>1 DEF ms
<1>3. CASE ms = <<SchemaOf(w), TraceEvent(c)>>
  <2>1. Len(ms) = 2 /\ ms[2] = TraceEvent(c) /\ ms[1] = SchemaOf(w)
    BY <1>3
  <2>2. \A j \in 1..2 : j # 2 => j = 1
    OBVIOUS
  <2> QED BY <2>1, <2>2, SchemaForeign DEF ms
<1> QED BY <1>1, <1>2, <1>3

\* A step reads, or is a commit of foreign mutations, of a trace, or of a ledger.
ReadingStep ==
    /\ UNCHANGED log
    /\ \A c \in Tracers : clients'[c].pc = "done" <=> clients[c].pc = "done"
    /\ \A c \in Reasoners : Holds(changes, clients[c]) => Holds(changes, clients'[c])
ForeignStep(m) ==
    /\ Proper(m) /\ Accept(m) /\ \A j \in 1..Len(m.mutations) : Foreign(m.mutations[j])
    /\ \A c \in Tracers \cup Reasoners : clients'[c] = clients[c]
TraceStep(c) ==
    /\ c \in Tracers /\ At(c, "commit") /\ Proper(TraceCommitOf(c)) /\ Accept(TraceCommitOf(c))
    /\ Others(c, [pc |-> "done"])
LedgerStep(c) ==
    /\ c \in Reasoners /\ At(c, "ready") /\ Proper(ReasonCommitOf(c)) /\ Accept(ReasonCommitOf(c))
    /\ Others(c, [pc |-> "idle"])

LEMMA Steps ==
    ASSUME RuntimeInv, [Next]_vars
    PROVE  \/ ReadingStep
           \/ \E m : ForeignStep(m)
           \/ \E c : TraceStep(c)
           \/ \E c : LedgerStep(c)
<1>0. /\ \A c \in Tracers : c \in Clients /\ c \notin Authors /\ c \notin Reasoners /\ c \notin Hooks
      /\ \A c \in Reasoners : c \in Clients /\ c \notin Authors /\ c \notin Tracers /\ c \notin Hooks
      /\ \A c \in Authors \cup Hooks : c \in Clients /\ c \notin Tracers /\ c \notin Reasoners
  BY ClientsAssumption DEF Clients
<1>1. CASE UNCHANGED vars
  BY <1>1 DEF vars, log, ReadingStep
<1>2. ASSUME NEW c \in Authors \cup Hooks, NEW r, Become(c, r), UNCHANGED log
      PROVE  ReadingStep
  BY <1>0, <1>2, BecomeOthers DEF Others, ReadingStep
<1>3. ASSUME NEW c \in Authors \cup Hooks, NEW r, Become(c, r), NEW m, Proper(m), Accept(m),
             \A j \in 1..Len(m.mutations) : Foreign(m.mutations[j])
      PROVE  ForeignStep(m)
  BY <1>0, <1>3, BecomeOthers DEF Others, ForeignStep
<1>4. ASSUME NEW c \in Tracers, NEW r, Become(c, r), UNCHANGED log, r.pc # "done", clients[c].pc # "done"
      PROVE  ReadingStep
  BY <1>0, <1>4, BecomeOthers DEF Others, ReadingStep
<1>5. ASSUME NEW c \in Reasoners, NEW r, Become(c, r), UNCHANGED log,
             Holds(changes, clients[c]) => Holds(changes, r)
      PROVE  ReadingStep
  BY <1>0, <1>5, BecomeOthers DEF Others, ReadingStep
<1>6. ASSUME NEW a \in Authors, NEW scope \in Scopes, AuthorStamp(a, scope)
      PROVE  ReadingStep
  BY <1>2, <1>6 DEF AuthorStamp
<1>7. ASSUME NEW a \in Authors, NEW at \in Times, NEW body \in Bodies, AuthorCommit(a, at, body)
      PROVE  ReadingStep \/ \E m : ForeignStep(m)
  <2>1. Become(a, [pc |-> "idle"]) /\ Proper(AuthorCommitOf(a, at, body))
    BY <1>7, AuthorProper DEF AuthorCommit, RuntimeInv
  <2>2. CASE UNCHANGED log
    BY <1>2, <2>1, <2>2
  <2>3. CASE Accept(AuthorCommitOf(a, at, body))
    BY <1>3, <2>1, <2>3, AuthorForeign
  <2> QED BY <1>7, <2>2, <2>3 DEF AuthorCommit
<1>8. ASSUME NEW c \in Hooks, HookSchema(c) \/ HookCursor(c)
      PROVE  ReadingStep
  BY <1>2, <1>8 DEF HookSchema, HookCursor
<1>9. ASSUME NEW c \in Hooks, HookCommit(c)
      PROVE  ReadingStep \/ \E m : ForeignStep(m)
  <2>1. Become(c, [pc |-> "idle"]) /\ Proper(HookCommitOf(c))
    BY <1>9, HookProper DEF HookCommit
  <2>2. CASE UNCHANGED log
    BY <1>2, <2>1, <2>2
  <2>3. CASE Accept(HookCommitOf(c))
    BY <1>3, <2>1, <2>3, HookForeign
  <2> QED BY <1>9, <2>2, <2>3 DEF HookCommit
<1>10. ASSUME NEW c \in Tracers, TraceStart(c) \/ TraceStamp(c) \/ TraceSchema(c)
       PROVE  ReadingStep
  <2>1. UNCHANGED log /\ clients[c].pc # "done"
    BY <1>10 DEF TraceStart, TraceStamp, TraceSchema, Begins, At
  <2>2. \E r : Become(c, r) /\ r.pc # "done"
    <3>1. CASE TraceStart(c)
      BY <3>1 DEF TraceStart
    <3>2. CASE TraceStamp(c)
      <4> DEFINE q == [pc |-> "schema", tries |-> clients[c].tries + 1, read |-> ReadStamp(Home)]
                 r == [pc |-> "gave up"]
      <4>1. Become(c, q) \/ Become(c, r)
        BY <3>2 DEF TraceStamp
      <4>2. q.pc # "done" /\ r.pc # "done"
        OBVIOUS
      <4> HIDE DEF q, r
      <4> QED BY <4>1, <4>2
    <3>3. CASE TraceSchema(c)
      <4> DEFINE q == [pc |-> "commit", tries |-> clients[c].tries,
                       cursor |-> clients[c].read.commit_cursor, schema |-> schemas[Home]]
                 r == [pc |-> "stamp", tries |-> clients[c].tries]
      <4>1. Become(c, q) \/ Become(c, r)
        BY <3>3 DEF TraceSchema
      <4>2. q.pc # "done" /\ r.pc # "done"
        OBVIOUS
      <4> HIDE DEF q, r
      <4> QED BY <4>1, <4>2
    <3> QED BY <1>10, <3>1, <3>2, <3>3
  <2> QED BY <1>4, <2>1, <2>2
<1>11. ASSUME NEW c \in Tracers, TraceCommit(c)
       PROVE  ReadingStep \/ TraceStep(c)
  <2>1. At(c, "commit") /\ Proper(TraceCommitOf(c)) /\ clients[c].pc # "done"
    BY <1>11, TraceProper DEF TraceCommit, RuntimeInv, At
  <2>2. CASE Accept(TraceCommitOf(c)) /\ Become(c, [pc |-> "done"])
    <3>1. Others(c, [pc |-> "done"])
      BY <1>0, <2>2, BecomeOthers
    <3> QED BY <2>1, <2>2, <3>1 DEF TraceStep
  <2>3. ASSUME NEW r, Become(c, r), UNCHANGED log, r.pc # "done"
        PROVE  ReadingStep
    BY <1>4, <2>1, <2>3
  <2> QED BY <1>11, <2>2, <2>3 DEF TraceCommit
<1>12. ASSUME NEW c \in Reasoners, NEW run \in Runs, NEW payload \in Payloads, ReasonLoad(c, run, payload)
       PROVE  ReadingStep
  <2> DEFINE old == Ledger(Cursor)
             r == [pc |-> "loaded", cursor |-> Cursor, run |-> run, ledger |-> AddedTo(old, run, payload)]
  <2>1. Become(c, r) /\ UNCHANGED log /\ Admits(old, run, payload)
    BY <1>12 DEF ReasonLoad, AddedTo
  <2>2. old = LedgerIn(changes, Cursor)
    BY LedgersIn
  <2> HIDE DEF old
  <2>3. Holds(changes, r)
    BY <2>1, <2>2 DEF Holds
  <2> HIDE DEF r
  <2> QED BY <1>5, <2>1, <2>3
<1>13. ASSUME NEW c \in Reasoners, ReasonSchema(c)
       PROVE  ReadingStep
  <2> DEFINE q == clients[c]
             r == [pc |-> "ready", cursor |-> q.cursor, run |-> q.run, ledger |-> q.ledger,
                   schema |-> schemas[Home]]
  <2>1. Become(c, r) /\ UNCHANGED log /\ q.pc = "loaded"
    BY <1>13 DEF ReasonSchema, At
  <2>2. Holds(changes, q) => Holds(changes, r)
    BY <2>1 DEF Holds
  <2> HIDE DEF r
  <2> QED BY <1>5, <2>1, <2>2
<1>14. ASSUME NEW c \in Reasoners, ReasonCommit(c)
       PROVE  ReadingStep \/ LedgerStep(c)
  <2>1. At(c, "ready") /\ Proper(ReasonCommitOf(c)) /\ Become(c, [pc |-> "idle"])
    BY <1>14, ReasonProper DEF ReasonCommit, RuntimeInv
  <2>2. CASE Accept(ReasonCommitOf(c))
    <3>1. Others(c, [pc |-> "idle"])
      BY <1>0, <2>1, BecomeOthers
    <3> QED BY <2>1, <2>2, <3>1 DEF LedgerStep
  <2>3. CASE UNCHANGED log
    <3>1. Holds(changes, [pc |-> "idle"])
      BY DEF Holds
    <3> QED BY <1>5, <2>1, <2>3, <3>1
  <2> QED BY <1>14, <2>2, <2>3 DEF ReasonCommit
<1> QED BY <1>1, <1>6, <1>7, <1>8, <1>9, <1>10, <1>11, <1>12, <1>13, <1>14 DEF Next

\* The mutations of a reasoner: a schema or none, then events of the ledger and records of runs.
TheTwo(r) ==
    <<RunRecord(r.run, r.ledger[r.run]),
      EventMutation(r.run, r.ledger[r.run][Len(r.ledger[r.run])])>>
OfLedger(r, m) ==
    \/ \E run \in Runs : HistoryOf(r.ledger, run, m)
    \/ m \in {TheTwo(r)[1], TheTwo(r)[2]}
ReasonParts(ms, r, s, t) ==
    /\ ms = s \o t /\ IsSeq(s) /\ IsSeq(t) /\ (\A i \in 1..Len(s) : Foreign(s[i]) /\ s[i].kind = "schema")
    /\ t = IF MigratesIn(changes, r.cursor) THEN WholeLedger(r.ledger) ELSE TheTwo(r)
    /\ \A i \in 1..Len(t) : OfLedger(r, t[i])

LEMMA ReasonShape ==
    ASSUME ClientInv, NEW c \in Reasoners, At(c, "ready")
    PROVE  \E s, t : ReasonParts(ReasonCommitOf(c).mutations, clients[c], s, t)
<1> DEFINE r == clients[c]
           w == WithRunSchema(r.schema)
           s == IF HasRunSchema(r.schema) THEN <<>> ELSE <<SchemaOf(w)>>
           t == IF MigratesIn(changes, r.cursor) THEN WholeLedger(r.ledger) ELSE TheTwo(r)
<1>1. \A run \in Runs : IsSeq(r.ledger[run])
  BY DEF ClientInv, ClientOK, ReasonerOK, LedgerType, At, Clients
<1>2. ReasonCommitOf(c).mutations = s \o t
  BY LedgersIn DEF ReasonCommitOf, Commit, ReasonMutations, TheTwo
<1>3. IsSeq(s) /\ \A i \in 1..Len(s) : Foreign(s[i]) /\ s[i].kind = "schema"
  <2>1. CASE HasRunSchema(r.schema)
    BY <2>1 DEF IsSeq
  <2>2. CASE ~HasRunSchema(r.schema)
    <3>1. s = <<SchemaOf(w)>>
      BY <2>2
    <3>2. Foreign(SchemaOf(w)) /\ SchemaOf(w).kind = "schema"
      BY SchemaForeign DEF SchemaOf
    <3> HIDE DEF s, w
    <3> QED BY <3>1, <3>2 DEF IsSeq
  <2> QED BY <2>1, <2>2
<1>4. IsSeq(t) /\ \A i \in 1..Len(t) : OfLedger(r, t[i])
  <2>1. CASE MigratesIn(changes, r.cursor)
    <3>1. t = WholeLedger(r.ledger)
      BY <2>1
    <3>2. IsSeq(WholeLedger(r.ledger))
      BY <1>1, WholeLedgerIsSeq
    <3>3. \A i \in 1..Len(WholeLedger(r.ledger)) : \E run \in Runs : HistoryOf(r.ledger, run, WholeLedger(r.ledger)[i])
      BY <1>1, WholeElements
    <3> HIDE DEF t
    <3> QED BY <3>1, <3>2, <3>3 DEF OfLedger
  <2>2. CASE ~MigratesIn(changes, r.cursor)
    <3>1. t = TheTwo(r)
      BY <2>2
    <3>2. IsSeq(TheTwo(r)) /\ Len(TheTwo(r)) = 2
      BY ShortSequences DEF TheTwo
    <3>3. \A i \in 1..2 : i = 1 \/ i = 2
      OBVIOUS
    <3> HIDE DEF t
    <3> QED BY <3>1, <3>2, <3>3 DEF OfLedger
  <2> QED BY <2>1, <2>2
<1>5. ReasonParts(ReasonCommitOf(c).mutations, r, s, t)
  BY <1>2, <1>3, <1>4 DEF ReasonParts
<1> QED BY <1>5

LEMMA OfLedgerKinds ==
    ASSUME NEW r, NEW m, OfLedger(r, m)
    PROVE  /\ m.kind \in {"record", "event"}
           /\ m.kind = "event" => m.event.kind = LedgerKind
<1>1. \A run, e : /\ RunRecord(run, e).kind = "record"
                  /\ EventMutation(run, e).kind = "event" /\ EventMutation(run, e).event.kind = LedgerKind
  BY DEF RunRecord, EventMutation, RecordOf, EventOf
<1>2. \A a, b : <<a, b>>[1] = a /\ <<a, b>>[2] = b
  OBVIOUS
<1>3. /\ TheTwo(r)[1] = RunRecord(r.run, r.ledger[r.run])
      /\ TheTwo(r)[2] = EventMutation(r.run, r.ledger[r.run][Len(r.ledger[r.run])])
  BY DEF TheTwo
<1>4. CASE \E run \in Runs : HistoryOf(r.ledger, run, m)
  BY <1>1, <1>4 DEF HistoryOf
<1>5. CASE m \in {TheTwo(r)[1], TheTwo(r)[2]}
  BY <1>1, <1>3, <1>5
<1> QED BY <1>4, <1>5 DEF OfLedger

LEMMA ReasonElements ==
    ASSUME NEW ms, NEW r, NEW s, NEW t, ReasonParts(ms, r, s, t), NEW j \in 1..Len(ms)
    PROVE  \/ j \in 1..Len(s) /\ ms[j] = s[j]
           \/ \E i \in 1..Len(t) : j = Len(s) + i /\ ms[j] = t[i]
<1>1. IsSeq(s) /\ IsSeq(t) /\ ms = s \o t
  BY DEF ReasonParts
<1>2. \/ j \in 1..Len(s) /\ (s \o t)[j] = s[j]
      \/ \E i \in 1..Len(t) : j = Len(s) + i /\ (s \o t)[j] = t[i]
  BY <1>1, ConcatenatedElement, SMTT(60)
<1> QED BY <1>1, <1>2

-----------------------------------------------------------------------------
(* A trace is committed once *)

TracedIn(ch, c) == {i \in 1..Len(ch) : ch[i].mutation = TraceEvent(c)}

TraceInv ==
    \A c \in Tracers :
        /\ clients[c].pc = "done" => \E i : TracedIn(changes, c) = {i}
        /\ clients[c].pc # "done" => TracedIn(changes, c) = {}

LEMMA NotATrace ==
    ASSUME NEW m, NEW c
    PROVE  /\ Foreign(m) => m # TraceEvent(c)
           /\ (m.kind = "event" => m.event.kind = LedgerKind) => m # TraceEvent(c)
           /\ \A e : TraceEvent(e) = TraceEvent(c) => e = c
<1>1. TraceEvent(c).kind = "event" /\ TraceEvent(c).event.kind = TraceKind
  BY DEF TraceEvent, EventOf
<1>2. \A e : TraceEvent(e).event.content = e
  BY DEF TraceEvent, EventOf
<1>3. TraceKind # LedgerKind
  BY DEF TraceKind, LedgerKind
<1> QED BY <1>1, <1>2, <1>3 DEF Foreign

LEMMA ExtendsTraced ==
    ASSUME NEW ch, NEW dh, NEW m, Extends(ch, dh, m), NEW c,
           \A j \in 1..Len(m.mutations) : m.mutations[j] # TraceEvent(c)
    PROVE  TracedIn(dh, c) = TracedIn(ch, c)
<1>1. Len(ch) \in Nat /\ Len(m.mutations) \in Nat /\ Len(dh) = Len(ch) + Len(m.mutations)
  BY DEF Extends, IsSeq
<1>2. ASSUME NEW i \in 1..Len(ch)
      PROVE  i \in 1..Len(dh) /\ dh[i] = ch[i]
  BY <1>1 DEF Extends
<1>3. ASSUME NEW i \in TracedIn(dh, c)
      PROVE  i \in TracedIn(ch, c)
  <2>1. i \in 1..Len(dh) /\ dh[i].mutation = TraceEvent(c)
    BY DEF TracedIn
  <2>2. \/ i \in 1..Len(ch) /\ dh[i] = ch[i]
        \/ \E j \in 1..Len(m.mutations) : i = Len(ch) + j /\ dh[i] = Change(m, j)
    BY <2>1, ExtendsPositions, SMTT(60)
  <2>3. \A j : Change(m, j).mutation = m.mutations[j]
    BY DEF Change
  <2> QED BY <2>1, <2>2, <2>3 DEF TracedIn
<1> QED BY <1>2, <1>3 DEF TracedIn

LEMMA ExtendsTracedOnce ==
    ASSUME NEW ch, NEW dh, NEW m, Extends(ch, dh, m), NEW c, TracedIn(ch, c) = {}, Len(m.mutations) >= 1,
           m.mutations[Len(m.mutations)] = TraceEvent(c),
           \A j \in 1..Len(m.mutations) : j # Len(m.mutations) => m.mutations[j] # TraceEvent(c)
    PROVE  TracedIn(dh, c) = {Len(dh)}
<1> DEFINE n == Len(m.mutations)
<1>1. Len(ch) \in Nat /\ n \in Nat /\ Len(dh) = Len(ch) + n /\ n \in 1..n /\ Len(dh) \in 1..Len(dh)
  BY DEF Extends, IsSeq
<1>2. dh[Len(dh)] = Change(m, n) /\ \A j : Change(m, j).mutation = m.mutations[j]
  BY <1>1 DEF Extends, Change
<1>3. Len(dh) \in TracedIn(dh, c)
  BY <1>1, <1>2 DEF TracedIn
<1>4. ASSUME NEW i \in TracedIn(dh, c)
      PROVE  i = Len(dh)
  <2>1. i \in 1..Len(dh) /\ dh[i].mutation = TraceEvent(c)
    BY DEF TracedIn
  <2>2. \/ i \in 1..Len(ch) /\ dh[i] = ch[i]
        \/ \E j \in 1..Len(m.mutations) : i = Len(ch) + j /\ dh[i] = Change(m, j)
    BY <2>1, ExtendsPositions, SMTT(60)
  <2>3. ~(i \in 1..Len(ch) /\ dh[i] = ch[i])
    BY <2>1 DEF TracedIn
  <2>4. PICK j \in 1..n : i = Len(ch) + j /\ dh[i] = Change(m, j)
    BY <2>2, <2>3
  <2>5. j = n
    BY <1>2, <2>1, <2>4
  <2> QED BY <1>1, <2>4, <2>5
<1> QED BY <1>3, <1>4

LEMMA TraceStepInv ==
    ASSUME RuntimeInv, TraceInv, [Next]_vars
    PROVE  TraceInv'
<1> SUFFICES ASSUME NEW c \in Tracers
             PROVE  /\ clients'[c].pc = "done" => \E i : TracedIn(changes', c) = {i}
                    /\ clients'[c].pc # "done" => TracedIn(changes', c) = {}
  BY DEF TraceInv, TracedIn
<1>0. /\ clients[c].pc = "done" => \E i : TracedIn(changes, c) = {i}
      /\ clients[c].pc # "done" => TracedIn(changes, c) = {}
  BY DEF TraceInv
<1>1. CASE ReadingStep
  <2>1. changes' = changes /\ (clients'[c].pc = "done" <=> clients[c].pc = "done")
    BY <1>1 DEF ReadingStep, log
  <2> QED BY <1>0, <2>1
<1>2. ASSUME NEW m, Proper(m), Accept(m), clients'[c] = clients[c],
             \A j \in 1..Len(m.mutations) : m.mutations[j] # TraceEvent(c)
      PROVE  /\ clients'[c].pc = "done" => \E i : TracedIn(changes', c) = {i}
             /\ clients'[c].pc # "done" => TracedIn(changes', c) = {}
  <2>1. Extends(changes, changes', m)
    BY <1>2, AcceptExtends DEF RuntimeInv, LogInv
  <2>2. TracedIn(changes', c) = TracedIn(changes, c)
    BY <1>2, <2>1, ExtendsTraced
  <2> QED BY <1>0, <1>2, <2>2
<1>3. ASSUME NEW m, ForeignStep(m)
      PROVE  /\ clients'[c].pc = "done" => \E i : TracedIn(changes', c) = {i}
             /\ clients'[c].pc # "done" => TracedIn(changes', c) = {}
  BY <1>2, <1>3, NotATrace DEF ForeignStep
<1>4. ASSUME NEW e, TraceStep(e)
      PROVE  /\ clients'[c].pc = "done" => \E i : TracedIn(changes', c) = {i}
             /\ clients'[c].pc # "done" => TracedIn(changes', c) = {}
  <2> DEFINE m == TraceCommitOf(e)
             n == Len(m.mutations)
  <2>1. /\ n \in Nat /\ n >= 1 /\ m.mutations[n] = TraceEvent(e)
        /\ \A j \in 1..n : j # n => Foreign(m.mutations[j])
    BY TraceLast
  <2>2. Proper(m) /\ Accept(m) /\ Others(e, [pc |-> "done"]) /\ clients[e].pc = "commit" /\ c \in Clients
    BY <1>4 DEF TraceStep, At, Clients
  <2> HIDE DEF m
  <2>3. CASE e # c
    <3>1. \A j \in 1..n : m.mutations[j] # TraceEvent(c)
      BY <2>1, <2>3, NotATrace
    <3>2. clients'[c] = clients[c]
      BY <2>2, <2>3 DEF Others
    <3> QED BY <1>2, <2>2, <3>1, <3>2
  <2>4. CASE e = c
    <3>1. TracedIn(changes, c) = {} /\ clients'[c].pc = "done"
      BY <1>0, <2>2, <2>4 DEF Others
    <3>2. Extends(changes, changes', m)
      BY <2>2, AcceptExtends DEF RuntimeInv, LogInv
    <3>3. \A j \in 1..n : j # n => m.mutations[j] # TraceEvent(c)
      BY <2>1, NotATrace
    <3>4. TracedIn(changes', c) = {Len(changes')}
      BY <2>1, <2>4, <3>1, <3>2, <3>3, ExtendsTracedOnce
    <3> QED BY <3>1, <3>4
  <2> QED BY <2>3, <2>4
<1>5. ASSUME NEW e, LedgerStep(e)
      PROVE  /\ clients'[c].pc = "done" => \E i : TracedIn(changes', c) = {i}
             /\ clients'[c].pc # "done" => TracedIn(changes', c) = {}
  <2> DEFINE m == ReasonCommitOf(e)
             ms == m.mutations
  <2>1. /\ Proper(m) /\ Accept(m) /\ e \in Reasoners /\ At(e, "ready")
        /\ Others(e, [pc |-> "idle"]) /\ c \in Clients /\ e # c
    BY <1>5, ClientsAssumption DEF LedgerStep, Clients
  <2>2. PICK s, t : ReasonParts(ms, clients[e], s, t)
    BY <2>1, ReasonShape DEF RuntimeInv
  <2> HIDE DEF m, ms
  <2>3. ASSUME NEW j \in 1..Len(ms)
        PROVE  ms[j] # TraceEvent(c)
    <3>1. \/ j \in 1..Len(s) /\ ms[j] = s[j]
          \/ \E i \in 1..Len(t) : j = Len(s) + i /\ ms[j] = t[i]
      BY <2>2, ReasonElements
    <3>2. Foreign(ms[j]) \/ OfLedger(clients[e], ms[j])
      BY <2>2, <3>1 DEF ReasonParts
    <3> QED BY <3>2, OfLedgerKinds, NotATrace
  <2>4. clients'[c] = clients[c]
    BY <2>1 DEF Others
  <2> QED BY <1>2, <2>1, <2>3, <2>4 DEF ms
<1> QED BY <1>1, <1>3, <1>4, <1>5, Steps

\* A trace event is committed once if the call succeeds and never otherwise, however often
\* it is retried, and concurrent schema migrations never refuse it.
THEOREM TracesAreCommittedOnce == Spec => []TraceOnce
<1>1. Init => TraceInv
  <2> SUFFICES ASSUME Init, NEW c \in Tracers
               PROVE  clients[c].pc = "idle" /\ TracedIn(changes, c) = {}
    BY DEF TraceInv
  <2> QED BY DEF Init, Clients, TracedIn
<1>2. RuntimeInv /\ TraceInv /\ [Next]_vars => TraceInv'
  BY TraceStepInv
<1>3. ASSUME RuntimeInv, TraceInv
      PROVE  TraceOnce
  <2> SUFFICES ASSUME NEW c \in Tracers
               PROVE  /\ Cardinality(TracedBy(c)) = IF At(c, "done") THEN 1 ELSE 0
                      /\ ~At(c, "refused")
    BY DEF TraceOnce
  <2>1. TracedBy(c) = TracedIn(changes, c)
    BY DEF TracedBy, TracedIn, Cursor
  <2>2. ~At(c, "refused")
    BY <1>3 DEF RuntimeInv, ClientInv, ClientOK, TracerOK, At, Clients
  <2>3. Cardinality({}) = 0 /\ \A i : Cardinality({i}) = 1
    BY FS_EmptySet, FS_Singleton
  <2>4. CASE clients[c].pc = "done"
    <3>1. PICK i : TracedIn(changes, c) = {i}
      BY <1>3, <2>4 DEF TraceInv
    <3> QED BY <2>1, <2>2, <2>3, <2>4, <3>1 DEF At
  <2>5. CASE clients[c].pc # "done"
    <3>1. TracedIn(changes, c) = {}
      BY <1>3, <2>5 DEF TraceInv
    <3> QED BY <2>1, <2>2, <2>3, <2>5, <3>1 DEF At
  <2> QED BY <2>4, <2>5
<1> QED BY <1>1, <1>2, <1>3, RuntimeInvariant, PTL DEF Spec

-----------------------------------------------------------------------------
(* Replaying a run *)

\* The run after each event.
RerunStep(f, events, k) == IF k = 0 THEN EmptyRun ELSE Stepped(f[k - 1], k, events[k])

LEMMA RerunExists ==
    ASSUME NEW events, NEW n \in Nat
    PROVE  \E f : f = [k \in 0..n |-> RerunStep(f, events, k)]
<1> DEFINE G == {k \in Nat : \E f : f = [j \in 0..k |-> RerunStep(f, events, j)]}
<1>1. 0 \in G
  <2> DEFINE f == [j \in 0..0 |-> EmptyRun]
  <2>1. f = [j \in 0..0 |-> RerunStep(f, events, j)]
    BY DEF RerunStep
  <2> QED BY <2>1
<1>2. ASSUME NEW k \in 1..n, k - 1 \in G
      PROVE  k \in G
  <2>1. PICK f : f = [j \in 0..(k - 1) |-> RerunStep(f, events, j)]
    BY <1>2
  <2> DEFINE g == [j \in 0..k |-> IF j = k THEN RerunStep(f, events, k) ELSE f[j]]
  <2>2. ASSUME NEW j \in 0..k
        PROVE  g[j] = RerunStep(g, events, j)
    <3>1. CASE j = k
      <4>1. k - 1 \in 0..k /\ k - 1 # k /\ k \in 0..k /\ k # 0
        OBVIOUS
      <4>2. g[k - 1] = f[k - 1] /\ g[k] = RerunStep(f, events, k)
        BY <4>1
      <4> HIDE DEF g
      <4> QED BY <3>1, <4>1, <4>2 DEF RerunStep
    <3>2. CASE j # k
      <4>1. j \in 0..(k - 1) /\ (j # 0 => j - 1 \in 0..(k - 1))
        BY <3>2
      <4>2. g[j] = f[j] /\ (j # 0 => g[j - 1] = f[j - 1])
        BY <3>2, <4>1
      <4>3. f[j] = RerunStep(f, events, j)
        BY <2>1, <4>1
      <4> HIDE DEF g
      <4> QED BY <4>2, <4>3 DEF RerunStep
    <3> QED BY <3>1, <3>2
  <2>3. g = [j \in 0..k |-> g[j]]
    OBVIOUS
  <2> HIDE DEF g
  <2>4. g = [j \in 0..k |-> RerunStep(g, events, j)]
    BY <2>2, <2>3
  <2> QED BY <2>4
<1>3. n \in G
  <2> HIDE DEF G
  <2> QED BY <1>1, <1>2, Induction
<1> QED BY <1>3

\* A replay is the last of them.
LEMMA RerunRun ==
    ASSUME NEW events, Len(events) \in Nat
    PROVE  \E f : /\ f[0] = EmptyRun
                  /\ \A n \in 1..Len(events) : f[n] = Stepped(f[n - 1], n, events[n])
                  /\ Replay(events) = f[Len(events)]
<1> DEFINE f == CHOOSE f : f = [n \in 0..Len(events) |-> RerunStep(f, events, n)]
<1>1. Replay(events) = f[Len(events)]
  BY DEF Replay, RerunStep
<1>2. f = [n \in 0..Len(events) |-> RerunStep(f, events, n)]
  BY RerunExists
<1> HIDE DEF f
<1>3. \A n \in 0..Len(events) : f[n] = RerunStep(f, events, n)
  BY <1>2
<1>4. f[0] = EmptyRun
  BY <1>3 DEF RerunStep
<1>5. ASSUME NEW n \in 1..Len(events)
      PROVE  f[n] = Stepped(f[n - 1], n, events[n])
  <2>1. f[n] = RerunStep(f, events, n) /\ n # 0
    BY <1>3
  <2> QED BY <2>1 DEF RerunStep
<1> QED BY <1>1, <1>4, <1>5

\* One event more is one step more.
LEMMA ReplayAppended ==
    ASSUME NEW s, IsSeq(s), NEW e
    PROVE  Replay(Append(s, e)) = Stepped(Replay(s), Len(s) + 1, e)
<1> DEFINE t == Append(s, e)
           n == Len(s)
<1>0. n \in Nat /\ IsSeq(t) /\ Len(t) = n + 1 /\ t[n + 1] = e /\ \A i \in 1..n : t[i] = s[i]
  BY Appended DEF IsSeq
<1> HIDE DEF t
<1>1. PICK f : /\ f[0] = EmptyRun
               /\ \A k \in 1..n : f[k] = Stepped(f[k - 1], k, s[k])
               /\ Replay(s) = f[n]
  BY <1>0, RerunRun
<1>2. PICK g : /\ g[0] = EmptyRun
               /\ \A k \in 1..(n + 1) : g[k] = Stepped(g[k - 1], k, t[k])
               /\ Replay(t) = g[n + 1]
  <2>1. Len(t) \in Nat
    BY <1>0
  <2>2. PICK g : /\ g[0] = EmptyRun
                 /\ \A k \in 1..Len(t) : g[k] = Stepped(g[k - 1], k, t[k])
                 /\ Replay(t) = g[Len(t)]
    BY <2>1, RerunRun
  <2> QED BY <1>0, <2>2
<1> HIDE DEF n
<1> DEFINE G == {k \in Nat : g[k] = f[k]}
<1>3. 0 \in G
  BY <1>1, <1>2
<1>4. ASSUME NEW k \in 1..n, k - 1 \in G
      PROVE  k \in G
  <2>1. k \in 1..(n + 1) /\ k \in Nat /\ t[k] = s[k]
    BY <1>0
  <2>2. f[k] = Stepped(f[k - 1], k, s[k]) /\ g[k] = Stepped(g[k - 1], k, t[k]) /\ g[k - 1] = f[k - 1]
    BY <1>1, <1>2, <1>4, <2>1
  <2> QED BY <2>1, <2>2
<1>5. n \in G
  <2> HIDE DEF G
  <2> QED BY <1>0, <1>3, <1>4, Induction
<1>6. g[n + 1] = Stepped(g[n], n + 1, e)
  <2>1. n + 1 \in 1..(n + 1) /\ (n + 1) - 1 = n
    BY <1>0
  <2> QED BY <1>0, <1>2, <2>1
<1> QED BY <1>1, <1>2, <1>5, <1>6 DEF t, n

\* What the contract allows leads to a state of a run.
LEMMA AdvancedIsValid ==
    ASSUME NEW run, NEW payload, Allowed(run, payload)
    PROVE  Advanced(run, payload).state # "Invalid"
<1> DEFINE t == CHOOSE t \in Transitions : t[1] = run.state /\ t[2] = payload
<1>1. \E u \in Transitions : u[1] = run.state /\ u[2] = payload
  <2>1. PICK to : <<run.state, payload, to>> \in Transitions
    BY DEF Allowed
  <2> QED BY <2>1
<1>2. t \in Transitions
  BY <1>1
<1>3. \A u \in Transitions : u[3] # "Invalid"
  <2> SUFFICES ASSUME NEW u \in Transitions PROVE u[3] # "Invalid"
    OBVIOUS
  <2>1. ASSUME NEW o \in Outcomes, u = <<"NeedsOutcome", o, "Complete">>
        PROVE  u[3] # "Invalid"
    BY <2>1
  <2>2. CASE u \notin {<<"NeedsOutcome", o, "Complete">> : o \in Outcomes}
    <3>1. u \in {<<"Empty", "goal", "NeedsPlan">>,
                 <<"NeedsPlan", "plan", "NeedsAttempt">>,
                 <<"NeedsAttempt", "attempt", "NeedsObservation">>,
                 <<"NeedsObservation", "observation", "NeedsDecision">>,
                 <<"NeedsDecision", "continue", "NeedsAttempt">>,
                 <<"NeedsDecision", "verify", "NeedsVerification">>,
                 <<"NeedsDecision", "stop", "NeedsVerification">>,
                 <<"NeedsVerification", "checks passed", "NeedsOutcome">>,
                 <<"NeedsVerification", "checks not passed", "NeedsPostVerificationDecision">>,
                 <<"NeedsPostVerificationDecision", "continue", "NeedsAttempt">>,
                 <<"NeedsPostVerificationDecision", "stop", "NeedsOutcome">>}
      BY <2>2, Zenon DEF Transitions
    <3>2. \A a, b, x : u = <<a, b, x>> /\ x # "Invalid" => u[3] # "Invalid"
      OBVIOUS
    <3> QED BY <3>1, <3>2, ZenonT(60)
  <2> QED BY <2>1, <2>2
<1>4. Advanced(run, payload).state = t[3]
  BY DEF Advanced
<1> HIDE DEF t
<1> QED BY <1>2, <1>3, <1>4

LEMMA EmptyReplay == Replay(<<>>).state # "Invalid"
<1>1. Len(<<>>) = 0
  OBVIOUS
<1>2. PICK f : f[0] = EmptyRun /\ Replay(<<>>) = f[Len(<<>>)]
  BY <1>1, RerunRun
<1> QED BY <1>1, <1>2 DEF EmptyRun

\* A ledger is valid: every run replays, and one run at most is active.
ValidLedger(ledger) ==
    /\ \A run \in Runs : Replay(ledger[run]).state # "Invalid"
    /\ \E run : Active(ledger) \subseteq {run}

LEMMA AddedLedger ==
    ASSUME NEW old, LedgerType(old), ValidLedger(old), NEW run \in Runs, NEW payload, Admits(old, run, payload)
    PROVE  LET new == AddedTo(old, run, payload)
           IN  /\ LedgerType(new) /\ ValidLedger(new) /\ new[run] # <<>>
               /\ new[run] = Append(old[run], new[run][Len(new[run])])
               /\ \A q \in Runs : q # run => new[q] = old[q]
<1> DEFINE new == AddedTo(old, run, payload)
           e == [ordinal |-> Len(old[run]) + 1, payload |-> payload]
<1>1. /\ DOMAIN new = Runs /\ new = [q \in Runs |-> new[q]]
      /\ new[run] = Append(old[run], e) /\ \A q \in Runs : q # run => new[q] = old[q]
  BY DEF AddedTo, LedgerType
<1>2. e.ordinal = Len(old[run]) + 1 /\ e.payload = payload
  OBVIOUS
<1> HIDE DEF new, e
<1>3. /\ IsSeq(old[run]) /\ IsSeq(new[run]) /\ new[run] # <<>>
      /\ Len(new[run]) = Len(old[run]) + 1 /\ new[run][Len(old[run]) + 1] = e
  <2> DEFINE x == old[run]
  <2>1. IsSeq(x)
    BY DEF LedgerType
  <2> HIDE DEF x
  <2>2. /\ IsSeq(Append(x, e)) /\ Append(x, e) # <<>>
        /\ Len(Append(x, e)) = Len(x) + 1 /\ Append(x, e)[Len(x) + 1] = e
    BY <2>1, Appended
  <2> QED BY <1>1, <2>1, <2>2 DEF x
<1>4. LedgerType(new)
  BY <1>1, <1>3 DEF LedgerType
<1>5. Replay(new[run]) = Advanced(Replay(old[run]), payload) /\ Replay(new[run]).state # "Invalid"
  <2>1. Replay(new[run]) = Stepped(Replay(old[run]), Len(old[run]) + 1, e)
    BY <1>1, <1>3, ReplayAppended
  <2>2. Allowed(Replay(old[run]), payload)
    BY DEF Admits
  <2>3. Replay(new[run]) = Advanced(Replay(old[run]), payload)
    BY <1>2, <2>1, <2>2 DEF Stepped
  <2> QED BY <2>2, <2>3, AdvancedIsValid
<1>6. \A q \in Runs : Replay(new[q]).state # "Invalid"
  BY <1>1, <1>5 DEF ValidLedger
<1>7. Active(new) \subseteq {run}
  <2>1. Active(old) \subseteq {run}
    BY DEF Admits
  <2>2. ASSUME NEW q \in Active(new), q # run
        PROVE  FALSE
    <3>1. q \in Runs /\ new[q] # <<>> /\ ~IsComplete(new[q])
      BY DEF Active
    <3>2. q \in Active(old)
      BY <1>1, <2>2, <3>1 DEF Active
    <3> QED BY <2>1, <2>2, <3>2
  <2> QED BY <2>2
<1>8. ValidLedger(new)
  BY <1>6, <1>7 DEF ValidLedger
<1> QED BY <1>1, <1>3, <1>4, <1>8 DEF new

-----------------------------------------------------------------------------
(* What a commit pushes to the ledger *)

LEMMA SameSequence ==
    ASSUME NEW s, NEW t, IsSeq(s), IsSeq(t), Len(s) = Len(t), \A i \in 1..Len(s) : s[i] = t[i]
    PROVE  s = t
BY DEF IsSeq

\* The first i elements of a sequence.
Begin(s, i) == [j \in 1..i |-> s[j]]

LEMMA BeginGrows ==
    ASSUME NEW s, IsSeq(s)
    PROVE  /\ Begin(s, 0) = <<>> /\ Begin(s, Len(s)) = s
           /\ \A i \in 1..Len(s) : Append(Begin(s, i - 1), s[i]) = Begin(s, i)
<1>1. ASSUME NEW i \in 0..Len(s)
      PROVE  IsSeq(Begin(s, i)) /\ Len(Begin(s, i)) = i /\ \A j \in 1..i : Begin(s, i)[j] = s[j]
  <2> DEFINE t == Begin(s, i)
  <2>1. t = [j \in 1..i |-> t[j]] /\ \A j \in 1..i : t[j] = s[j]
    BY DEF Begin
  <2>2. i \in Nat
    BY DEF IsSeq
  <2> HIDE DEF t
  <2>3. IsSeq(t) /\ Len(t) = i
    BY <2>1, <2>2, Tabulated
  <2> QED BY <2>1, <2>3 DEF t
<1>2. Begin(s, 0) = <<>>
  BY DEF Begin
<1>3. Begin(s, Len(s)) = s
  BY DEF Begin, IsSeq
<1>4. ASSUME NEW i \in 1..Len(s)
      PROVE  Append(Begin(s, i - 1), s[i]) = Begin(s, i)
  <2> DEFINE x == Begin(s, i - 1)
             y == Begin(s, i)
             e == s[i]
  <2>0. Len(s) \in Nat /\ i - 1 \in 0..Len(s) /\ i \in 0..Len(s) /\ (i - 1) + 1 = i
    BY DEF IsSeq
  <2>1. /\ IsSeq(x) /\ Len(x) = i - 1 /\ (\A j \in 1..(i - 1) : x[j] = s[j])
        /\ IsSeq(y) /\ Len(y) = i /\ (\A j \in 1..i : y[j] = s[j])
    BY <1>1, <2>0
  <2> HIDE DEF x, y, e
  <2>2. /\ IsSeq(Append(x, e)) /\ Len(Append(x, e)) = Len(x) + 1 /\ Append(x, e)[Len(x) + 1] = e
        /\ \A j \in 1..Len(x) : Append(x, e)[j] = x[j]
    BY <2>1, Appended
  <2>3. Len(Append(x, e)) = Len(y)
    BY <2>0, <2>1, <2>2
  <2>4. ASSUME NEW j \in 1..Len(Append(x, e))
        PROVE  Append(x, e)[j] = y[j]
    <3>1. CASE j = i
      BY <2>0, <2>1, <2>2, <3>1 DEF e
    <3>2. CASE j # i
      <4>1. j \in 1..(i - 1) /\ j \in 1..i
        BY <2>0, <2>1, <2>2, <3>2
      <4> QED BY <2>1, <2>2, <4>1
    <3> QED BY <3>1, <3>2
  <2>5. Append(x, e) = y
    BY <2>1, <2>2, <2>3, <2>4, SameSequence
  <2> QED BY <2>5 DEF x, y, e
<1> QED BY <1>2, <1>3, <1>4

\* Changes that are not of the ledger leave it.
LEMMA NothingPushed ==
    ASSUME NEW ch, NEW p \in Nat, NEW n \in Nat, \A i \in 1..n : ~IsLedgerEvent(ch[p + i])
    PROVE  TypedIn(ch, p + n) = TypedIn(ch, p)
<1> DEFINE G == {i \in Nat : TypedIn(ch, p + i) = TypedIn(ch, p)}
<1>1. 0 \in G
  OBVIOUS
<1>2. ASSUME NEW i \in 1..n, i - 1 \in G
      PROVE  i \in G
  <2>1. i \in Nat /\ p + (i - 1) \in Nat /\ (p + (i - 1)) + 1 = p + i
    OBVIOUS
  <2>2. \A k \in Nat : TypedIn(ch, k + 1) = Pushed(TypedIn(ch, k), ch[k + 1])
    BY TypedUnfolds
  <2>3. TypedIn(ch, p + i) = Pushed(TypedIn(ch, p + (i - 1)), ch[p + i])
    BY <2>1, <2>2
  <2>4. TypedIn(ch, p + (i - 1)) = TypedIn(ch, p) /\ ~IsLedgerEvent(ch[p + i])
    BY <1>2
  <2> QED BY <2>1, <2>3, <2>4 DEF Pushed
<1>3. n \in G
  <2> HIDE DEF G
  <2> QED BY <1>1, <1>2, Induction
<1> QED BY <1>3

\* Where mutations of the node's scope stand in a log.
StandsAt(ch, p, ms) ==
    \A i \in 1..Len(ms) : ch[p + i].scope = Home /\ ch[p + i].mutation = ms[i]

LEMMA EventPushed ==
    ASSUME NEW ch, NEW p \in Nat, NEW run \in Runs, NEW e,
           ch[p + 1].scope = Home, ch[p + 1].mutation = EventMutation(run, e)
    PROVE  TypedIn(ch, p + 1) = [TypedIn(ch, p) EXCEPT ![run] = Append(TypedIn(ch, p)[run], e)]
<1>1. /\ EventMutation(run, e).kind = "event" /\ EventMutation(run, e).event.kind = LedgerKind
      /\ EventMutation(run, e).event.content.run = run /\ EventMutation(run, e).event.content.event = e
  BY DEF EventMutation, EventOf
<1>2. TypedIn(ch, p + 1) = Pushed(TypedIn(ch, p), ch[p + 1])
  BY TypedUnfolds
<1> QED BY <1>1, <1>2 DEF Pushed, IsLedgerEvent

\* A run's history gives the run,
LEMMA RunPushed ==
    ASSUME NEW ch, NEW p \in Nat, NEW ledger, NEW run \in Runs, IsSeq(ledger[run]),
           TypedIn(ch, p)[run] = <<>>, StandsAt(ch, p, WholeRun(ledger, run))
    PROVE  TypedIn(ch, p + Len(WholeRun(ledger, run))) = [TypedIn(ch, p) EXCEPT ![run] = ledger[run]]
<1> DEFINE M == TypedIn(ch, p)
           s == ledger[run]
           n == Len(s)
<1>0. LedgerType(M) /\ n \in Nat /\ M[run] = <<>>
  BY TypedType DEF IsSeq
<1>1. CASE s = <<>>
  <2>1. p + Len(WholeRun(ledger, run)) = p
    BY <1>1, WholeRunIsSeq
  <2>2. [M EXCEPT ![run] = <<>>] = M
    BY <1>0 DEF LedgerType
  <2> QED BY <1>1, <2>1, <2>2
<1>2. CASE s # <<>>
  <2>1. /\ Len(WholeRun(ledger, run)) = n + 1
        /\ WholeRun(ledger, run)[1] = RunRecord(run, s)
        /\ \A i \in 1..n : WholeRun(ledger, run)[i + 1] = EventMutation(run, s[i])
    BY <1>2, WholeRunIsSeq
  <2>2. /\ ch[p + 1].mutation = RunRecord(run, s)
        /\ \A i \in 1..n : ch[p + (i + 1)].scope = Home /\ ch[p + (i + 1)].mutation = EventMutation(run, s[i])
    <3>1. 1 \in 1..(n + 1) /\ \A i \in 1..n : i + 1 \in 1..(n + 1)
      BY <1>0
    <3> QED BY <2>1, <3>1 DEF StandsAt
  <2>3. TypedIn(ch, p + 1) = M
    <3>1. ~IsLedgerEvent(ch[p + 1])
      BY <2>2 DEF IsLedgerEvent, RunRecord, RecordOf
    <3>2. TypedIn(ch, p + 1) = Pushed(TypedIn(ch, p), ch[p + 1])
      BY TypedUnfolds
    <3> QED BY <3>1, <3>2 DEF Pushed
  <2> HIDE DEF M, n, s
  <2>4. /\ Begin(s, 0) = <<>> /\ Begin(s, n) = s
        /\ \A i \in 1..n : Append(Begin(s, i - 1), s[i]) = Begin(s, i)
    BY BeginGrows DEF n, s
  <2> DEFINE G == {i \in Nat : TypedIn(ch, p + (i + 1)) = [M EXCEPT ![run] = Begin(s, i)]}
  <2>5. 0 \in G
    <3>1. [M EXCEPT ![run] = <<>>] = M
      BY <1>0 DEF LedgerType
    <3>2. p + (0 + 1) = p + 1
      OBVIOUS
    <3> QED BY <2>3, <2>4, <3>1, <3>2
  <2>6. ASSUME NEW i \in 1..n, i - 1 \in G
        PROVE  i \in G
    <3> DEFINE k == p + i
               B == [M EXCEPT ![run] = Begin(s, i - 1)]
    <3>1. k \in Nat /\ p + ((i - 1) + 1) = k /\ p + (i + 1) = k + 1 /\ i \in Nat
      BY <1>0
    <3>2. TypedIn(ch, k) = B
      <4>1. TypedIn(ch, p + ((i - 1) + 1)) = B
        BY <2>6
      <4> QED BY <3>1, <4>1
    <3>3. ch[k + 1].scope = Home /\ ch[k + 1].mutation = EventMutation(run, s[i])
      BY <2>2, <3>1
    <3>4. B[run] = Begin(s, i - 1)
      BY <1>0 DEF LedgerType
    <3> HIDE DEF k, B
    <3>5. TypedIn(ch, k + 1) = [TypedIn(ch, k) EXCEPT ![run] = Append(TypedIn(ch, k)[run], s[i])]
      BY <3>1, <3>3, EventPushed
    <3>6. TypedIn(ch, k + 1) = [B EXCEPT ![run] = Begin(s, i)]
      BY <2>4, <3>2, <3>4, <3>5
    <3>7. [B EXCEPT ![run] = Begin(s, i)] = [M EXCEPT ![run] = Begin(s, i)]
      BY DEF B
    <3>8. TypedIn(ch, p + (i + 1)) = [M EXCEPT ![run] = Begin(s, i)]
      BY <3>1, <3>6, <3>7, Zenon
    <3> QED BY <3>1, <3>8
  <2>7. n \in G
    <3> HIDE DEF G
    <3>1. n \in Nat /\ n \in 0..n
      BY <1>0
    <3>2. \A i \in 1..n : i - 1 \in G => i \in G
      BY <2>6
    <3>3. \A i \in 0..n : i \in G
      BY <2>5, <3>1, <3>2, Induction
    <3> QED BY <3>1, <3>3
  <2>8. TypedIn(ch, p + (n + 1)) = [M EXCEPT ![run] = s]
    BY <2>4, <2>7
  <2> QED BY <2>1, <2>8 DEF M, s
<1> QED BY <1>1, <1>2

\* and the whole ledger all of them.
LEMMA WholePushed ==
    ASSUME NEW ch, NEW p \in Nat, NEW ledger, LedgerType(ledger),
           TypedIn(ch, p) = EmptyLedger, StandsAt(ch, p, WholeLedger(ledger))
    PROVE  TypedIn(ch, p + Len(WholeLedger(ledger))) = ledger
<1>1. PICK f : /\ f[0] = <<>>
               /\ \A n \in 1..Len(RunOrder) : f[n] = f[n - 1] \o WholeRun(ledger, RunOrder[n])
               /\ WholeLedger(ledger) = f[Len(RunOrder)]
  BY RunOrderIsSeq, AllRun
<1> DEFINE Part(n) == [q \in Runs |-> IF \E i \in 1..n : RunOrder[i] = q THEN ledger[q] ELSE <<>>]
           Good(n) == IsSeq(f[n]) /\ (StandsAt(ch, p, f[n]) => TypedIn(ch, p + Len(f[n])) = Part(n))
           G == {n \in Nat : Good(n)}
<1>2. 0 \in G
  <2>1. IsSeq(f[0]) /\ Len(f[0]) = 0 /\ p + 0 = p
    BY <1>1 DEF IsSeq
  <2>2. Part(0) = EmptyLedger
    BY DEF EmptyLedger
  <2> QED BY <2>1, <2>2
<1>3. ASSUME NEW n \in 1..Len(RunOrder), n - 1 \in G
      PROVE  n \in G
  <2> DEFINE s == f[n - 1]
             run == RunOrder[n]
             t == WholeRun(ledger, run)
  <2>1. n \in Nat /\ run \in Runs /\ IsSeq(ledger[run]) /\ Len(RunOrder) \in Nat
    BY RunOrderIsSeq DEF LedgerType
  <2>2. IsSeq(s) /\ (StandsAt(ch, p, s) => TypedIn(ch, p + Len(s)) = Part(n - 1))
    BY <1>3
  <2>3. f[n] = s \o t
    BY <1>1
  <2>4. IsSeq(t)
    BY <2>1, WholeRunIsSeq
  <2> HIDE DEF s, t
  <2>5. /\ IsSeq(s \o t) /\ Len(s \o t) = Len(s) + Len(t) /\ Len(s) \in Nat /\ Len(t) \in Nat
        /\ \A i \in 1..Len(s) : (s \o t)[i] = s[i]
        /\ \A j \in 1..Len(t) : (s \o t)[Len(s) + j] = t[j]
    <3>1. IsSeq(s) /\ IsSeq(t)
      BY <2>2, <2>4
    <3> QED BY ONLY <3>1, Concatenated DEF IsSeq
  <2>6. ASSUME StandsAt(ch, p, s \o t)
        PROVE  TypedIn(ch, p + Len(s \o t)) = Part(n)
    <3> DEFINE k == p + Len(s)
    <3>1. k \in Nat /\ p + Len(s \o t) = k + Len(t)
      BY <2>5
    <3>2. StandsAt(ch, p, s)
      <4>1. \A i \in 1..Len(s) : i \in 1..Len(s \o t)
        BY <2>5
      <4> QED BY <2>5, <2>6, <4>1 DEF StandsAt
    <3>3. TypedIn(ch, k) = Part(n - 1)
      BY <2>2, <3>2
    <3>4. StandsAt(ch, k, t)
      <4>1. \A j \in 1..Len(t) : Len(s) + j \in 1..Len(s \o t) /\ p + (Len(s) + j) = k + j
        BY <2>5
      <4> QED BY <2>5, <2>6, <4>1 DEF StandsAt
    <3>5. Part(n - 1)[run] = <<>>
      <4>1. ~\E i \in 1..(n - 1) : RunOrder[i] = run
        BY <2>1, RunOrderIsSeq
      <4> QED BY <2>1, <4>1
    <3> HIDE DEF k
    <3>6. TypedIn(ch, k + Len(t)) = [Part(n - 1) EXCEPT ![run] = ledger[run]]
      <4>1. TypedIn(ch, k)[run] = <<>> /\ StandsAt(ch, k, WholeRun(ledger, run))
        BY <3>3, <3>4, <3>5 DEF t
      <4>2. TypedIn(ch, k + Len(WholeRun(ledger, run))) = [TypedIn(ch, k) EXCEPT ![run] = ledger[run]]
        <5>1. k \in Nat /\ run \in Runs /\ IsSeq(ledger[run])
          BY <2>1, <3>1
        <5> HIDE DEF run
        <5> QED BY ONLY <4>1, <5>1, RunPushed
      <4> QED BY <3>3, <4>2 DEF t
    <3>7. [Part(n - 1) EXCEPT ![run] = ledger[run]] = Part(n)
      <4>1. \A q : (\E i \in 1..n : RunOrder[i] = q) <=> q = run \/ \E i \in 1..(n - 1) : RunOrder[i] = q
        <5>1. \A i : i \in 1..n <=> i = n \/ i \in 1..(n - 1)
          BY <2>1
        <5> QED BY <5>1
      <4> HIDE DEF run
      <4> QED BY <2>1, <4>1
    <3> HIDE DEF Part
    <3> QED BY <3>1, <3>6, <3>7
  <2>7. Good(n)
    BY <2>3, <2>5, <2>6
  <2> HIDE DEF Good
  <2> QED BY <2>1, <2>7
<1>4. Good(Len(RunOrder))
  <2> HIDE DEF Good
  <2>1. Len(RunOrder) \in Nat /\ Len(RunOrder) \in 0..Len(RunOrder)
    BY RunOrderIsSeq
  <2>2. \A n \in 1..Len(RunOrder) : n - 1 \in G => n \in G
    BY <1>3
  <2>3. \A n \in 0..Len(RunOrder) : n \in G
    <3> HIDE DEF G
    <3> QED BY <1>2, <2>1, <2>2, Induction
  <2> QED BY <2>1, <2>3
<1>5. Part(Len(RunOrder)) = ledger
  <2>1. \A q \in Runs : \E i \in 1..Len(RunOrder) : RunOrder[i] = q
    BY RunOrderIsSeq
  <2>2. ledger = [q \in Runs |-> ledger[q]]
    BY DEF LedgerType
  <2> QED BY <2>1, <2>2
<1> QED BY <1>1, <1>4, <1>5

\* The whole ledger has the record of each of its runs.
LEMMA WholeRecords ==
    ASSUME NEW ledger, LedgerType(ledger), NEW q \in Runs, ledger[q] # <<>>
    PROVE  \E i \in 1..Len(WholeLedger(ledger)) : WholeLedger(ledger)[i] = RunRecord(q, ledger[q])
<1>1. PICK f : /\ f[0] = <<>>
               /\ \A n \in 1..Len(RunOrder) : f[n] = f[n - 1] \o WholeRun(ledger, RunOrder[n])
               /\ WholeLedger(ledger) = f[Len(RunOrder)]
  BY RunOrderIsSeq, AllRun
<1>2. PICK m \in 1..Len(RunOrder) : q = RunOrder[m]
  BY RunOrderIsSeq
<1> DEFINE Good(n) == IsSeq(f[n]) /\ (n >= m => \E i \in 1..Len(f[n]) : f[n][i] = RunRecord(q, ledger[q]))
           G == {n \in Nat : Good(n)}
<1>3. 0 \in G
  BY <1>1, RunOrderIsSeq DEF IsSeq
<1>4. ASSUME NEW n \in 1..Len(RunOrder), n - 1 \in G
      PROVE  n \in G
  <2> DEFINE s == f[n - 1]
             t == WholeRun(ledger, RunOrder[n])
  <2>1. n \in Nat /\ RunOrder[n] \in Runs /\ Len(RunOrder) \in Nat /\ m \in Nat
    BY RunOrderIsSeq
  <2>2. IsSeq(s) /\ (n - 1 >= m => \E i \in 1..Len(s) : s[i] = RunRecord(q, ledger[q]))
    BY <1>4
  <2>3. f[n] = s \o t
    BY <1>1
  <2>4. IsSeq(t) /\ (n = m => Len(t) \in Nat /\ Len(t) >= 1 /\ t[1] = RunRecord(q, ledger[q]))
    <3>1. IsSeq(ledger[RunOrder[n]])
      BY <2>1 DEF LedgerType
    <3>2. IsSeq(t)
      BY <3>1, WholeRunIsSeq
    <3>3. ASSUME n = m
          PROVE  Len(t) \in Nat /\ Len(t) >= 1 /\ t[1] = RunRecord(q, ledger[q])
      <4>1. RunOrder[n] = q
        BY <1>2, <3>3
      <4>2. Len(WholeRun(ledger, q)) = Len(ledger[q]) + 1 /\ WholeRun(ledger, q)[1] = RunRecord(q, ledger[q])
        BY <3>1, <4>1, WholeRunIsSeq
      <4>3. Len(ledger[q]) \in Nat
        BY <3>1, <4>1 DEF IsSeq
      <4> QED BY <4>1, <4>2, <4>3
    <3> QED BY <3>2, <3>3
  <2> HIDE DEF s, t
  <2>5. /\ IsSeq(s \o t) /\ Len(s \o t) = Len(s) + Len(t) /\ Len(s) \in Nat /\ Len(t) \in Nat
        /\ \A i \in 1..Len(s) : (s \o t)[i] = s[i]
        /\ \A j \in 1..Len(t) : (s \o t)[Len(s) + j] = t[j]
    <3>1. IsSeq(s) /\ IsSeq(t)
      BY <2>2, <2>4
    <3> QED BY ONLY <3>1, Concatenated DEF IsSeq
  <2>6. ASSUME n >= m
        PROVE  \E i \in 1..Len(s \o t) : (s \o t)[i] = RunRecord(q, ledger[q])
    <3>1. CASE n = m
      <4>1. 1 \in 1..Len(t) /\ Len(s) + 1 \in 1..Len(s \o t)
        BY <2>4, <2>5, <3>1
      <4>2. (s \o t)[Len(s) + 1] = RunRecord(q, ledger[q])
        BY <2>4, <2>5, <3>1, <4>1
      <4> QED BY <4>1, <4>2
    <3>2. CASE n # m
      <4>1. n - 1 >= m
        BY <2>1, <2>6, <3>2
      <4>2. PICK i \in 1..Len(s) : s[i] = RunRecord(q, ledger[q])
        BY <2>2, <4>1
      <4>3. i \in 1..Len(s \o t) /\ (s \o t)[i] = s[i]
        BY <2>5
      <4> QED BY <4>2, <4>3
    <3> QED BY <3>1, <3>2
  <2>7. Good(n)
    BY <2>3, <2>5, <2>6
  <2> HIDE DEF Good
  <2> QED BY <2>1, <2>7
<1>5. Good(Len(RunOrder))
  <2> HIDE DEF Good
  <2>1. Len(RunOrder) \in Nat /\ Len(RunOrder) \in 0..Len(RunOrder)
    BY RunOrderIsSeq
  <2>2. \A n \in 1..Len(RunOrder) : n - 1 \in G => n \in G
    BY <1>4
  <2>3. \A n \in 0..Len(RunOrder) : n \in G
    <3> HIDE DEF G
    <3> QED BY <1>3, <2>1, <2>2, Induction
  <2> QED BY <2>1, <2>3
<1> QED BY <1>1, <1>5, RunOrderIsSeq

-----------------------------------------------------------------------------
(* The ledger is linear *)

\* What a commit leaves of the record of an identity it does not write, and of one it writes.
LEMMA RecordUnwritten ==
    ASSUME NEW objects, NEW ms, NEW ref,
           \A j \in Positions(ms, "record") : ms[j].record.reference # ref
    PROVE  LET new == Overlaid(objects, ms, "record")
           IN  ref \in DOMAIN objects => ref \in DOMAIN new /\ new[ref] = objects[ref]
BY DEF Overlaid

WritesOnly(ms, ref, rec) ==
    /\ \E i \in Positions(ms, "record") : ms[i].record.reference = ref
    /\ \A j \in Positions(ms, "record") : ms[j].record.reference = ref => ms[j].record = rec
LEMMA RecordWritten ==
    ASSUME NEW objects, NEW ms, IsSeq(ms), NEW ref, NEW rec, WritesOnly(ms, ref, rec)
    PROVE  /\ ref \in DOMAIN Overlaid(objects, ms, "record")
           /\ Overlaid(objects, ms, "record")[ref] = rec
<1> DEFINE P == {j \in Positions(ms, "record") : ms[j].record.reference = ref}
           l == LastIn(ms, "record", ref)
<1>1. P \in SUBSET (1..Len(ms)) /\ P # {} /\ Len(ms) \in Nat
  BY DEF Positions, IsSeq, WritesOnly
<1>2. \E q \in P : \A j \in P : j <= q
  <2> HIDE DEF P
  <2> QED BY <1>1, LastExists
<1>3. l \in Positions(ms, "record") /\ ms[l].record.reference = ref
  BY <1>2 DEF LastIn
<1>4. ms[l].record = rec
  BY <1>3 DEF WritesOnly
<1> HIDE DEF l
<1>5. ref \in {ms[i].record.reference : i \in Positions(ms, "record")}
  BY <1>3
<1> QED BY <1>4, <1>5 DEF Overlaid, l

LEMMA RunRecords ==
    ASSUME NEW run, NEW events
    PROVE  LET m == RunRecord(run, events)
           IN  /\ m.kind = "record" /\ m.record.reference = RunRef(run)
               /\ m.record.properties.complete = IsComplete(events)
               /\ \A q : RunRef(q) = RunRef(run) => q = run
<1>1. \A q : RunRef(q).id = q
  BY DEF RunRef
<1> QED BY <1>1 DEF RunRecord, RecordOf

\* A sequence that starts with another.
Starts(s, t) == Len(s) <= Len(t) /\ \A i \in 1..Len(s) : t[i] = s[i]
RecordSays(objects, run, events) ==
    /\ RunRef(run) \in DOMAIN objects
    /\ objects[RunRef(run)].properties.complete = IsComplete(events)

\* A ledger that has events is a valid one that goes on from the former ledger, and its
\* runs have their records.
LedgerOK(typed, objects) ==
    /\ ValidLedger(typed)
    /\ (\E run \in Runs : typed[run] # <<>>) => \A run \in Runs : Starts(LegacyLedger[run], typed[run])
    /\ \A run \in Runs : typed[run] # <<>> => RecordSays(objects, run, typed[run])
LedgerInv ==
    /\ LedgerOK(TypedIn(changes, Len(changes)), records[Home])
    /\ \A c \in Reasoners : Holds(changes, clients[c])

\* What a reasoner has read stays as it was.
LEMMA HoldsKept ==
    ASSUME NEW ch, NEW dh, NEW m, Extends(ch, dh, m), NEW r, ReasonerOK(ch, r), Holds(ch, r)
    PROVE  Holds(dh, r)
<1> SUFFICES ASSUME r.pc \in {"loaded", "ready"}
             PROVE  Holds(dh, r)
  BY DEF Holds
<1>1. r.cursor \in Nat /\ \A i \in 1..r.cursor : dh[i] = ch[i]
  BY DEF ReasonerOK, Extends, IsSeq
<1>2. TypedIn(dh, r.cursor) = TypedIn(ch, r.cursor)
  BY <1>1, TypedPrefix
<1>3. LedgerIn(dh, r.cursor) = LedgerIn(ch, r.cursor)
  BY <1>2 DEF LedgerIn, MigratesIn
<1> QED BY <1>3 DEF Holds

\* A mutation that is not of the ledger,
NotOfLedger(m) ==
    /\ m.kind = "event" => m.event.kind # LedgerKind
    /\ m.kind = "record" => m.record.reference.kind # "run"

\* and what a commit of such mutations leaves.
LEMMA NotOfLedgerKept ==
    ASSUME NEW ch, NEW dh, NEW m, Extends(ch, dh, m), NEW n \in 0..Len(m.mutations),
           \A j \in 1..n : m.mutations[j].kind = "event" => m.mutations[j].event.kind # LedgerKind
    PROVE  TypedIn(dh, Len(ch) + n) = TypedIn(ch, Len(ch))
<1>1. Len(ch) \in Nat /\ Len(m.mutations) \in Nat /\ n \in Nat
  BY DEF Extends, IsSeq
<1>2. TypedIn(dh, Len(ch)) = TypedIn(ch, Len(ch))
  BY <1>1, TypedPrefix DEF Extends
<1>3. ASSUME NEW i \in 1..n
      PROVE  ~IsLedgerEvent(dh[Len(ch) + i])
  <2>1. i \in 1..Len(m.mutations)
    BY <1>1
  <2>2. dh[Len(ch) + i].mutation = m.mutations[i]
    <3>1. dh[Len(ch) + i] = Change(m, i)
      BY <2>1 DEF Extends
    <3> QED BY <3>1 DEF Change
  <2> QED BY <2>2 DEF IsLedgerEvent
<1>4. TypedIn(dh, Len(ch) + n) = TypedIn(dh, Len(ch))
  BY <1>1, <1>3, NothingPushed
<1> QED BY <1>2, <1>4

LEMMA OtherCommit ==
    ASSUME RuntimeInv, LedgerInv, NEW m, Proper(m), Accept(m),
           \A j \in 1..Len(m.mutations) : NotOfLedger(m.mutations[j]),
           \A c \in Reasoners : clients'[c] = clients[c]
    PROVE  LedgerInv'
<1> DEFINE typed == TypedIn(changes, Len(changes))
<1>1. Extends(changes, changes', m)
  BY AcceptExtends DEF RuntimeInv, LogInv
<1>2. Len(m.mutations) \in 0..Len(m.mutations) /\ Len(changes') = Len(changes) + Len(m.mutations)
      /\ DOMAIN m.mutations = 1..Len(m.mutations)
  BY <1>1 DEF Extends, IsSeq
<1>3. TypedIn(changes', Len(changes')) = typed
  BY <1>1, <1>2, NotOfLedgerKept DEF NotOfLedger
<1>4. ASSUME NEW run \in Runs, RecordSays(records[Home], run, typed[run])
      PROVE  RecordSays(records'[Home], run, typed[run])
  <2>1. CASE m.scope # Home
    BY <1>4, <2>1 DEF Accept
  <2>2. CASE m.scope = Home
    <3>1. records'[Home] = Overlaid(records[Home], m.mutations, "record")
      BY <2>2, RuntimeAssumption DEF Accept, RuntimeInv, LogInv, LogType
    <3>2. \A j \in Positions(m.mutations, "record") : m.mutations[j].record.reference # RunRef(run)
      BY <1>2 DEF Positions, NotOfLedger, RunRef
    <3>3. /\ RunRef(run) \in DOMAIN Overlaid(records[Home], m.mutations, "record")
          /\ Overlaid(records[Home], m.mutations, "record")[RunRef(run)] = records[Home][RunRef(run)]
      BY <1>4, <3>2, RecordUnwritten DEF RecordSays
    <3> QED BY <1>4, <3>1, <3>3 DEF RecordSays
  <2> QED BY <2>1, <2>2
<1>5. LedgerOK(typed, records'[Home])
  <2>1. LedgerOK(typed, records[Home])
    BY DEF LedgerInv
  <2> HIDE DEF typed
  <2> QED BY <1>4, <2>1 DEF LedgerOK
<1>6. ASSUME NEW c \in Reasoners
      PROVE  Holds(changes', clients'[c])
  <2>1. Holds(changes, clients[c]) /\ ReasonerOK(changes, clients[c])
    BY DEF LedgerInv, RuntimeInv, ClientInv, ClientOK, Clients
  <2> QED BY <1>1, <2>1, HoldsKept
<1>7. LedgerOK(TypedIn(changes', Len(changes')), records'[Home])
  BY <1>3, <1>5
<1> QED BY <1>6, <1>7 DEF LedgerInv

\* What a reasoner reads at the head,
LEMMA ReadLedger ==
    ASSUME NEW ch, Len(ch) \in Nat, NEW objects, LedgerOK(TypedIn(ch, Len(ch)), objects)
    PROVE  LET old == LedgerIn(ch, Len(ch))
           IN  /\ LedgerType(old) /\ ValidLedger(old)
               /\ \A run \in Runs : Starts(LegacyLedger[run], old[run])
<1> DEFINE old == LedgerIn(ch, Len(ch))
           typed == TypedIn(ch, Len(ch))
<1>1. LedgerType(old) /\ LedgerType(typed) /\ LedgerType(LegacyLedger)
  BY LedgerHasType, TypedType, LegacyType
<1>2. ValidLedger(LegacyLedger)
  <2> DEFINE A == Active(LegacyLedger)
  <2>1. IsFiniteSet(Runs)
    <3> DEFINE I == 1..Len(RunOrder)
    <3>1. IsFiniteSet(I)
      BY RunOrderIsSeq, FS_Interval
    <3>2. RunOrder \in [I -> Runs]
      BY RunOrderAssumption, RunOrderIsSeq DEF Runs
    <3>3. RunOrder \in Surjection(I, Runs)
      BY <3>2, RunOrderIsSeq DEF Surjection
    <3> HIDE DEF I
    <3> QED BY <3>1, <3>3, FS_Surjection
  <2>2. IsFiniteSet(A) /\ Cardinality(A) <= 1
    BY <2>1, FS_Subset, LegacyAssumption DEF Active, LedgerValid
  <2> HIDE DEF A
  <2>3. \E run : A \subseteq {run}
    BY <2>2, OneOfAtMostOne
  <2> QED BY <2>3, LegacyAssumption DEF A, ValidLedger, LedgerValid
<1>3. CASE MigratesIn(ch, Len(ch))
  <2>1. old = LegacyLedger
    BY <1>3 DEF LedgerIn
  <2>2. \A run \in Runs : Len(LegacyLedger[run]) \in Nat
    BY <1>1 DEF LedgerType, IsSeq
  <2>3. \A run \in Runs : Starts(LegacyLedger[run], LegacyLedger[run])
    BY <2>2 DEF Starts
  <2> QED BY <1>1, <1>2, <2>1, <2>3
<1>4. CASE ~MigratesIn(ch, Len(ch)) /\ \E run \in Runs : typed[run] # <<>>
  <2>1. old = typed
    BY <1>4 DEF LedgerIn
  <2> HIDE DEF typed, old
  <2> QED BY <1>1, <1>4, <2>1 DEF LedgerOK, typed, old
<1>5. CASE ~MigratesIn(ch, Len(ch)) /\ ~\E run \in Runs : typed[run] # <<>>
  <2>1. old = typed /\ LegacyLedger = EmptyLedger
    BY <1>5 DEF LedgerIn, MigratesIn
  <2>2. \A run \in Runs : LegacyLedger[run] = <<>> /\ typed[run] = <<>>
    BY <1>5, <2>1 DEF EmptyLedger
  <2>3. \A run \in Runs : Starts(LegacyLedger[run], typed[run])
    BY <2>2 DEF Starts
  <2>4. ValidLedger(typed)
    BY DEF LedgerOK
  <2> HIDE DEF typed, old
  <2> QED BY <1>1, <2>1, <2>3, <2>4 DEF old
<1> QED BY <1>3, <1>4, <1>5

LEMMA StartsAppended ==
    ASSUME NEW s, NEW t, IsSeq(s), IsSeq(t), Starts(s, t), NEW e
    PROVE  Starts(s, Append(t, e))
<1>1. /\ Len(Append(t, e)) = Len(t) + 1 /\ \A i \in 1..Len(t) : Append(t, e)[i] = t[i]
  BY Appended
<1>2. Len(s) \in Nat /\ Len(t) \in Nat
  BY DEF IsSeq
<1> QED BY <1>1, <1>2 DEF Starts

\* The log after a commit at the head that reasoning made, part by part: the schema adds
\* nothing to the ledger, and the rest makes it the reasoner's copy.
Reasoned(ch, dh, m, r, s, t) ==
    /\ Extends(ch, dh, m) /\ m.scope = Home /\ r.cursor = Len(ch)
    /\ m.mutations = s \o t /\ IsSeq(s) /\ IsSeq(t)
    /\ \A i \in 1..Len(s) : s[i].kind = "schema"
    /\ t = IF MigratesIn(ch, r.cursor) THEN WholeLedger(r.ledger) ELSE TheTwo(r)
    /\ r.run \in Runs /\ LedgerType(r.ledger)
    /\ LET old == LedgerIn(ch, Len(ch))
           e == r.ledger[r.run][Len(r.ledger[r.run])]
       IN  r.ledger = [old EXCEPT ![r.run] = Append(old[r.run], e)]
LEMMA LedgerPushed ==
    ASSUME NEW ch, NEW dh, NEW m, NEW r, NEW s, NEW t, Reasoned(ch, dh, m, r, s, t)
    PROVE  TypedIn(dh, Len(dh)) = r.ledger
<1> USE DEF Reasoned
<1> DEFINE p == Len(ch) + Len(s)
           e == r.ledger[r.run][Len(r.ledger[r.run])]
           typed == TypedIn(ch, Len(ch))
<1>1. /\ IsSeq(s \o t) /\ Len(s \o t) = Len(s) + Len(t) /\ Len(s) \in Nat /\ Len(t) \in Nat
      /\ \A i \in 1..Len(s) : (s \o t)[i] = s[i]
      /\ \A j \in 1..Len(t) : (s \o t)[Len(s) + j] = t[j]
  <2>1. IsSeq(s) /\ IsSeq(t)
    OBVIOUS
  <2> QED BY ONLY <2>1, Concatenated DEF IsSeq
<1> DEFINE ms == m.mutations
<1>2. /\ Len(ch) \in Nat /\ Len(ms) = Len(s) + Len(t) /\ Len(dh) = p + Len(t) /\ p \in Nat
      /\ Len(s) \in 0..Len(ms)
  <2>1. Len(ch) \in Nat /\ Len(dh) = Len(ch) + Len(ms) /\ Len(ms) = Len(s \o t)
    BY DEF Extends, IsSeq
  <2> HIDE DEF ms
  <2> DEFINE a == Len(s)
             b == Len(t)
             c == Len(s \o t)
  <2>2. a \in Nat /\ b \in Nat /\ c = a + b /\ Len(ms) = c
    BY <1>1, <2>1
  <2> HIDE DEF a, b, c
  <2>3. /\ Len(ch) \in Nat /\ Len(ms) = a + b /\ Len(dh) = (Len(ch) + a) + b /\ Len(ch) + a \in Nat
        /\ a \in 0..Len(ms)
    BY ONLY <2>1, <2>2
  <2> QED BY <2>3 DEF a, b
<1>3. (\A i \in 1..Len(s) : ms[i] = s[i]) /\ (\A j \in 1..Len(t) : ms[Len(s) + j] = t[j])
  BY <1>1
<1>4. \A i \in 1..Len(ms) : dh[Len(ch) + i].scope = Home /\ dh[Len(ch) + i].mutation = ms[i]
  <2>1. \A i : Change(m, i).scope = Home /\ Change(m, i).mutation = ms[i]
    BY DEF Change
  <2> QED BY <2>1 DEF Extends
<1> HIDE DEF ms
<1>5. StandsAt(dh, p, t)
  <2>1. ASSUME NEW j \in 1..Len(t)
        PROVE  dh[p + j].scope = Home /\ dh[p + j].mutation = t[j]
    <3>1. Len(s) + j \in 1..Len(ms) /\ Len(ch) + (Len(s) + j) = p + j
      BY <1>2
    <3>2. dh[Len(ch) + (Len(s) + j)].scope = Home /\ dh[Len(ch) + (Len(s) + j)].mutation = ms[Len(s) + j]
      BY <1>4, <3>1
    <3> QED BY <1>3, <3>1, <3>2
  <2> QED BY <2>1 DEF StandsAt
<1>6. TypedIn(dh, p) = typed
  <2>1. \A j \in 1..Len(s) : ms[j].kind # "event"
    BY <1>3
  <2> DEFINE a == Len(s)
  <2>2. /\ Extends(ch, dh, m) /\ a \in 0..Len(m.mutations)
        /\ \A j \in 1..a : m.mutations[j].kind = "event" => m.mutations[j].event.kind # LedgerKind
    BY <1>2, <2>1 DEF ms
  <2> HIDE DEF a
  <2>3. TypedIn(dh, Len(ch) + a) = typed
    BY ONLY <2>2, NotOfLedgerKept
  <2> QED BY <2>3 DEF a
<1>7. CASE MigratesIn(ch, r.cursor)
  <2>1. typed = EmptyLedger
    <3>1. typed = [run \in Runs |-> typed[run]]
      BY <1>2, TypedType DEF LedgerType
    <3>2. \A run \in Runs : typed[run] = <<>>
      BY <1>7 DEF MigratesIn
    <3> HIDE DEF typed
    <3>3. [run \in Runs |-> typed[run]] = [run \in Runs |-> <<>>]
      BY <3>2
    <3> QED BY <3>1, <3>3 DEF EmptyLedger
  <2>2. t = WholeLedger(r.ledger)
    BY <1>7
  <2> HIDE DEF p, typed
  <2>3. TypedIn(dh, p + Len(WholeLedger(r.ledger))) = r.ledger
    BY <1>2, <1>5, <1>6, <2>1, <2>2, WholePushed
  <2> QED BY <1>2, <2>2, <2>3
<1>8. CASE ~MigratesIn(ch, r.cursor)
  <2>1. t = <<RunRecord(r.run, r.ledger[r.run]), EventMutation(r.run, e)>>
    BY <1>8 DEF TheTwo
  <2>2. LedgerIn(ch, Len(ch)) = typed
    BY <1>8 DEF LedgerIn
  <2>3. r.ledger = [typed EXCEPT ![r.run] = Append(typed[r.run], e)]
    BY <2>2
  <2> HIDE DEF p, typed, e
  <2>4. Len(t) = 2 /\ t[1] = RunRecord(r.run, r.ledger[r.run]) /\ t[2] = EventMutation(r.run, e)
    BY <2>1
  <2>5. /\ dh[p + 1].mutation = RunRecord(r.run, r.ledger[r.run])
        /\ dh[p + 2].scope = Home /\ dh[p + 2].mutation = EventMutation(r.run, e)
    BY <1>5, <2>4 DEF StandsAt
  <2>6. TypedIn(dh, p + 1) = typed
    <3>1. ~IsLedgerEvent(dh[p + 1])
      BY <2>5, RunRecords DEF IsLedgerEvent
    <3>2. TypedIn(dh, p + 1) = Pushed(TypedIn(dh, p), dh[p + 1])
      BY <1>2, TypedUnfolds
    <3> QED BY <1>6, <3>1, <3>2 DEF Pushed
  <2>7. TypedIn(dh, (p + 1) + 1) = [typed EXCEPT ![r.run] = Append(typed[r.run], e)]
    <3> DEFINE q == p + 1
    <3>0. p \in Nat
      BY <1>2
    <3>1. q \in Nat /\ q + 1 = p + 2
      BY ONLY <3>0
    <3>2. dh[q + 1].scope = Home /\ dh[q + 1].mutation = EventMutation(r.run, e)
      BY <2>5, <3>1
    <3>3. TypedIn(dh, q) = typed
      BY <2>6
    <3> HIDE DEF q
    <3>4. TypedIn(dh, q + 1) = [TypedIn(dh, q) EXCEPT ![r.run] = Append(TypedIn(dh, q)[r.run], e)]
      <4> DEFINE run == r.run
      <4>1. run \in Runs /\ dh[q + 1].scope = Home /\ dh[q + 1].mutation = EventMutation(run, e)
        BY <3>2
      <4> HIDE DEF run
      <4>2. TypedIn(dh, q + 1) = [TypedIn(dh, q) EXCEPT ![run] = Append(TypedIn(dh, q)[run], e)]
        BY ONLY <3>1, <4>1, EventPushed
      <4> QED BY <4>2 DEF run
    <3>5. TypedIn(dh, q + 1) = [typed EXCEPT ![r.run] = Append(typed[r.run], e)]
      BY <3>3, <3>4
    <3> QED BY <3>5 DEF q
  <2>8. (p + 1) + 1 = Len(dh)
    <3>1. p \in Nat /\ Len(dh) = p + 2
      BY <1>2, <2>4
    <3> QED BY ONLY <3>1
  <2> QED BY <2>3, <2>7, <2>8
<1> QED BY <1>7, <1>8

\* Every run the reasoner's copy has gets the record of its state, or keeps it.
LEMMA LedgerRecords ==
    ASSUME NEW objects, NEW ms, NEW r, NEW s, NEW t, ReasonParts(ms, r, s, t), IsSeq(ms), r.run \in Runs,
           LedgerType(r.ledger), NEW q \in Runs, r.ledger[q] # <<>>,
           ~MigratesIn(changes, r.cursor) /\ q # r.run => RecordSays(objects, q, r.ledger[q])
    PROVE  RecordSays(Overlaid(objects, ms, "record"), q, r.ledger[q])
<1> DEFINE new == Overlaid(objects, ms, "record")
           rec == RunRecord(q, r.ledger[q])
<1>0. DOMAIN ms = 1..Len(ms)
  BY DEF IsSeq
<1>1. ASSUME NEW j \in Positions(ms, "record"), ms[j].record.reference = RunRef(q)
      PROVE  ms[j].record = rec.record
  <2>1. j \in 1..Len(ms) /\ ms[j].kind = "record"
    BY <1>0 DEF Positions
  <2>2. \/ j \in 1..Len(s) /\ ms[j] = s[j]
        \/ \E i \in 1..Len(t) : j = Len(s) + i /\ ms[j] = t[i]
    BY <2>1, ReasonElements
  <2>3. OfLedger(r, ms[j])
    BY <2>1, <2>2 DEF ReasonParts
  <2>4. \A run, e : EventMutation(run, e).kind # "record"
    BY DEF EventMutation, EventOf
  <2>5. \E run : ms[j] = RunRecord(run, r.ledger[run])
    <3>1. ASSUME NEW run \in Runs, HistoryOf(r.ledger, run, ms[j])
          PROVE  ms[j] = RunRecord(run, r.ledger[run])
      BY <2>1, <2>4, <3>1 DEF HistoryOf
    <3>2. ASSUME ms[j] \in {TheTwo(r)[1], TheTwo(r)[2]}
          PROVE  ms[j] = RunRecord(r.run, r.ledger[r.run])
      BY <2>1, <2>4, <3>2 DEF TheTwo
    <3> QED BY <2>3, <3>1, <3>2 DEF OfLedger
  <2>6. PICK run : ms[j] = RunRecord(run, r.ledger[run])
    BY <2>5
  <2>7. run = q
    BY <1>1, <2>6, RunRecords
  <2> QED BY <2>6, <2>7
<1>2. CASE \E i \in Positions(ms, "record") : ms[i].record.reference = RunRef(q)
  <2>1. PICK i \in Positions(ms, "record") : ms[i].record.reference = RunRef(q)
    BY <1>2
  <2>2. RunRef(q) \in DOMAIN new /\ new[RunRef(q)] = rec.record
    <3> DEFINE v == rec.record
    <3>1. \A j \in Positions(ms, "record") : ms[j].record.reference = RunRef(q) => ms[j].record = v
      BY <1>1
    <3>2. IsSeq(ms)
      OBVIOUS
    <3> HIDE DEF v
    <3> DEFINE ref == RunRef(q)
    <3>3. WritesOnly(ms, ref, v)
      BY <2>1, <3>1 DEF WritesOnly
    <3> HIDE DEF ref
    <3>4. ref \in DOMAIN Overlaid(objects, ms, "record") /\ Overlaid(objects, ms, "record")[ref] = v
      BY ONLY <3>2, <3>3, RecordWritten
    <3> QED BY <3>4 DEF v, ref
  <2>3. rec.record.properties.complete = IsComplete(r.ledger[q])
    BY RunRecords
  <2> QED BY <2>2, <2>3 DEF RecordSays
<1>3. CASE ~\E i \in Positions(ms, "record") : ms[i].record.reference = RunRef(q)
  <2>1. /\ ms = s \o t /\ IsSeq(s) /\ IsSeq(t)
        /\ t = IF MigratesIn(changes, r.cursor) THEN WholeLedger(r.ledger) ELSE TheTwo(r)
    BY DEF ReasonParts
  <2>2. /\ Len(s \o t) = Len(s) + Len(t) /\ Len(s) \in Nat /\ Len(t) \in Nat
        /\ \A j \in 1..Len(t) : (s \o t)[Len(s) + j] = t[j]
    <3>1. IsSeq(s) /\ IsSeq(t)
      BY <2>1
    <3> QED BY ONLY <3>1, Concatenated DEF IsSeq
  <2>3. ASSUME NEW j \in 1..Len(t)
        PROVE  t[j] # rec
    <3>1. Len(s) + j \in 1..Len(ms) /\ ms[Len(s) + j] = t[j]
      BY <2>1, <2>2
    <3>2. rec.kind = "record" /\ rec.record.reference = RunRef(q)
      BY RunRecords
    <3> HIDE DEF rec
    <3> QED BY <1>0, <1>3, <3>1, <3>2 DEF Positions
  <2>4. ~MigratesIn(changes, r.cursor)
    <3> HIDE DEF rec
    <3> QED BY <2>1, <2>3, WholeRecords DEF rec
  <2>5. q # r.run
    <3>1. t = <<RunRecord(r.run, r.ledger[r.run]), TheTwo(r)[2]>>
      BY <2>1, <2>4 DEF TheTwo
    <3>2. 1 \in 1..Len(t) /\ t[1] = RunRecord(r.run, r.ledger[r.run])
      BY <3>1
    <3> QED BY <2>3, <3>2
  <2>6. RecordSays(objects, q, r.ledger[q])
    BY <2>4, <2>5
  <2>7. RunRef(q) \in DOMAIN new /\ new[RunRef(q)] = objects[RunRef(q)]
    BY <1>3, <2>6, RecordUnwritten DEF RecordSays
  <2> QED BY <2>6, <2>7 DEF RecordSays
<1> QED BY <1>2, <1>3

LEMMA ReasoningCommit ==
    ASSUME RuntimeInv, LedgerInv, NEW c, LedgerStep(c)
    PROVE  LedgerInv'
<1> DEFINE m == ReasonCommitOf(c)
           r == clients[c]
           old == LedgerIn(changes, Len(changes))
           typed == TypedIn(changes, Len(changes))
<1>1. /\ c \in Reasoners /\ c \in Clients /\ At(c, "ready") /\ Proper(m) /\ Accept(m)
      /\ Others(c, [pc |-> "idle"]) /\ r.pc = "ready"
  BY DEF LedgerStep, Clients, At
<1>2. /\ ReasonerOK(changes, r) /\ Holds(changes, r)
      /\ r.run \in Runs /\ LedgerType(r.ledger) /\ LogType /\ Len(changes) \in Nat
  BY <1>1 DEF RuntimeInv, ClientInv, ClientOK, ReasonerOK, LedgerInv, LogInv, LogType, IsSeq
<1>3. m.scope = Home /\ r.cursor = Len(changes)
  <2>1. m.scope = Home /\ m.expected_cursor = r.cursor
    BY DEF ReasonCommitOf, Commit
  <2>2. m.expected_cursor = Cursor
    BY <1>1, NotRefused DEF Accept
  <2> QED BY <2>1, <2>2 DEF Cursor
<1>4. Extends(changes, changes', m)
  BY <1>1, <1>2, AcceptExtends
<1>5. PICK s, t : ReasonParts(m.mutations, r, s, t)
  BY <1>1, ReasonShape DEF RuntimeInv
<1>6. PICK payload \in Payloads : Admits(old, r.run, payload) /\ r.ledger = AddedTo(old, r.run, payload)
  BY <1>1, <1>2, <1>3 DEF Holds
<1>7. /\ LedgerType(old) /\ ValidLedger(old) /\ LedgerOK(typed, records[Home])
      /\ \A run \in Runs : Starts(LegacyLedger[run], old[run])
  BY <1>2, ReadLedger DEF LedgerInv
<1>8. records'[Home] = Overlaid(records[Home], m.mutations, "record")
  BY <1>1, <1>2, <1>3, RuntimeAssumption DEF Accept, LogType
<1> DEFINE e == r.ledger[r.run][Len(r.ledger[r.run])]
<1> HIDE DEF m, r, old, typed
<1>9. /\ ValidLedger(r.ledger) /\ r.ledger[r.run] # <<>>
      /\ r.ledger[r.run] = Append(old[r.run], e)
      /\ \A q \in Runs : q # r.run => r.ledger[q] = old[q]
  BY <1>2, <1>6, <1>7, AddedLedger
<1> HIDE DEF e
<1>10. r.ledger = [old EXCEPT ![r.run] = Append(old[r.run], e)]
  <2>1. r.ledger = [q \in Runs |-> r.ledger[q]]
    BY <1>2 DEF LedgerType
  <2>2. [old EXCEPT ![r.run] = Append(old[r.run], e)]
          = [q \in Runs |-> IF q = r.run THEN Append(old[r.run], e) ELSE old[q]]
    BY <1>7 DEF LedgerType
  <2>3. [q \in Runs |-> r.ledger[q]] = [q \in Runs |-> IF q = r.run THEN Append(old[r.run], e) ELSE old[q]]
    BY <1>9
  <2> QED BY <2>1, <2>2, <2>3
<1>11. /\ m.mutations = s \o t /\ IsSeq(s) /\ IsSeq(t) /\ IsSeq(m.mutations)
       /\ \A i \in 1..Len(s) : s[i].kind = "schema"
       /\ t = IF MigratesIn(changes, r.cursor) THEN WholeLedger(r.ledger) ELSE TheTwo(r)
  BY <1>4, <1>5 DEF ReasonParts, Extends
<1>12. TypedIn(changes', Len(changes')) = r.ledger
  <2>1. Reasoned(changes, changes', m, r, s, t)
    BY <1>2, <1>3, <1>4, <1>10, <1>11 DEF Reasoned, old, e
  <2> QED BY <2>1, LedgerPushed
<1>13. \A run \in Runs : Starts(LegacyLedger[run], r.ledger[run])
  <2>1. \A run \in Runs : IsSeq(LegacyLedger[run]) /\ IsSeq(old[run])
    BY <1>7, LegacyType DEF LedgerType
  <2>2. Starts(LegacyLedger[r.run], Append(old[r.run], e))
    BY <1>2, <1>7, <2>1, StartsAppended
  <2> QED BY <1>7, <1>9, <2>2
<1>14. ASSUME NEW q \in Runs, r.ledger[q] # <<>>
       PROVE  RecordSays(records'[Home], q, r.ledger[q])
  <2>1. ~MigratesIn(changes, r.cursor) /\ q # r.run => RecordSays(records[Home], q, r.ledger[q])
    <3> SUFFICES ASSUME ~MigratesIn(changes, r.cursor), q # r.run
                 PROVE  RecordSays(records[Home], q, r.ledger[q])
      OBVIOUS
    <3>1. old = typed
      BY <1>3 DEF LedgerIn, old, typed
    <3>2. r.ledger[q] = typed[q]
      BY <1>9, <3>1
    <3> QED BY <1>7, <1>14, <3>2 DEF LedgerOK
  <2> QED BY <1>2, <1>5, <1>8, <1>11, <1>14, <2>1, LedgerRecords
<1>15. LedgerOK(r.ledger, records'[Home])
  BY <1>9, <1>13, <1>14 DEF LedgerOK
<1>16. ASSUME NEW d \in Reasoners
       PROVE  Holds(changes', clients'[d])
  <2>1. Holds(changes, clients[d]) /\ ReasonerOK(changes, clients[d]) /\ d \in Clients
    BY DEF LedgerInv, RuntimeInv, ClientInv, ClientOK, Clients
  <2>2. CASE d = c
    <3>1. clients'[d].pc = "idle"
      BY <1>1, <2>2 DEF Others
    <3> QED BY <3>1 DEF Holds
  <2>3. CASE d # c
    <3>1. clients'[d] = clients[d]
      BY <1>1, <2>1, <2>3 DEF Others
    <3> QED BY <1>4, <2>1, <3>1, HoldsKept
  <2> QED BY <2>2, <2>3
<1>17. LedgerOK(TypedIn(changes', Len(changes')), records'[Home])
  BY <1>12, <1>15
<1> QED BY <1>16, <1>17 DEF LedgerInv

LEMMA LedgerStepInv ==
    ASSUME RuntimeInv, LedgerInv, [Next]_vars
    PROVE  LedgerInv'
<1>1. CASE ReadingStep
  <2>1. changes' = changes /\ records' = records
    BY <1>1 DEF ReadingStep, log
  <2>2. \A c \in Reasoners : Holds(changes, clients'[c])
    BY <1>1 DEF ReadingStep, LedgerInv
  <2>3. \A c \in Reasoners : Holds(changes', clients'[c])
    BY <2>1, <2>2
  <2>4. LedgerOK(TypedIn(changes', Len(changes')), records'[Home])
    BY <2>1 DEF LedgerInv
  <2> QED BY <2>3, <2>4 DEF LedgerInv
<1>2. ASSUME NEW m, ForeignStep(m)
      PROVE  LedgerInv'
  BY <1>2, OtherCommit DEF ForeignStep, Foreign, NotOfLedger
<1>3. ASSUME NEW c, TraceStep(c)
      PROVE  LedgerInv'
  <2> DEFINE m == TraceCommitOf(c)
             n == Len(m.mutations)
  <2>1. /\ n \in Nat /\ n >= 1 /\ m.mutations[n] = TraceEvent(c)
        /\ \A j \in 1..n : j # n => Foreign(m.mutations[j])
    BY TraceLast
  <2>2. /\ Proper(m) /\ Accept(m) /\ c \in Tracers /\ Others(c, [pc |-> "done"])
    BY <1>3 DEF TraceStep
  <2>3. \A d \in Reasoners : d \in Clients /\ d # c
    BY <2>2, ClientsAssumption DEF Clients
  <2>4. NotOfLedger(TraceEvent(c))
    BY DEF NotOfLedger, TraceEvent, EventOf, TraceKind, LedgerKind
  <2> HIDE DEF m
  <2>5. \A j \in 1..n : NotOfLedger(m.mutations[j])
    <3>1. \A x : Foreign(x) => NotOfLedger(x)
      BY DEF Foreign, NotOfLedger
    <3> QED BY <2>1, <2>4, <3>1
  <2>6. \A d \in Reasoners : clients'[d] = clients[d]
    BY <2>2, <2>3 DEF Others
  <2> QED BY <2>2, <2>5, <2>6, OtherCommit
<1>4. ASSUME NEW c, LedgerStep(c)
      PROVE  LedgerInv'
  BY <1>4, ReasoningCommit
<1> QED BY <1>1, <1>2, <1>3, <1>4, Steps

\* Whatever commits raced, the log has each run of the former ledger extended or as it
\* was, every run replays, one run at most is active, and a run's latest record says
\* whether it is complete.
THEOREM LedgersAreLinear == Spec => []LedgerLinear
<1>1. Init => LedgerInv
  <2> SUFFICES ASSUME Init
               PROVE  LedgerInv
    OBVIOUS
  <2>1. changes = <<>> /\ Len(changes) = 0
    BY DEF Init
  <2>2. TypedIn(changes, Len(changes)) = EmptyLedger
    BY <2>1, TypedUnfolds
  <2>3. \A run \in Runs : EmptyLedger[run] = <<>>
    BY DEF EmptyLedger
  <2>4. ValidLedger(EmptyLedger)
    <3>1. Active(EmptyLedger) = {}
      BY <2>3 DEF Active
    <3> QED BY <2>3, <3>1, EmptyReplay DEF ValidLedger
  <2>5. LedgerOK(EmptyLedger, records[Home])
    BY <2>3, <2>4 DEF LedgerOK
  <2>6. \A c \in Reasoners : clients[c].pc = "idle"
    BY DEF Init, Clients
  <2> QED BY <2>2, <2>5, <2>6 DEF LedgerInv, Holds
<1>2. RuntimeInv /\ LedgerInv /\ [Next]_vars => LedgerInv'
  BY LedgerStepInv
<1>3. ASSUME RuntimeInv, LedgerInv
      PROVE  LedgerLinear
  <2> DEFINE k == Len(changes)
             typed == TypedIn(changes, k)
             ledger == LedgerIn(changes, k)
  <2>1. Cursor = k /\ k \in Nat /\ LedgerOK(typed, records[Home])
    BY <1>3 DEF Cursor, RuntimeInv, LogInv, LogType, IsSeq, LedgerInv
  <2>2. /\ LedgerType(ledger) /\ ValidLedger(ledger)
        /\ \A run \in Runs : Starts(LegacyLedger[run], ledger[run])
    BY <2>1, ReadLedger
  <2>3. Ledger(Cursor) = ledger /\ TypedLedger(Cursor) = typed
    BY <2>1, LedgersIn
  <2>4. ASSUME NEW run \in Runs, typed[run] # <<>>
        PROVE  records[Home][RunRef(run)].properties.complete = IsComplete(ledger[run])
    <3>1. ledger = typed
      BY <2>4 DEF LedgerIn, MigratesIn
    <3> HIDE DEF typed, ledger
    <3> QED BY <2>1, <2>4, <3>1 DEF LedgerOK, RecordSays
  <2> HIDE DEF typed, ledger
  <2>5. Cardinality(Active(ledger)) <= 1
    <3>1. PICK run : Active(ledger) \subseteq {run}
      BY <2>2 DEF ValidLedger
    <3>2. Cardinality({}) = 0 /\ Cardinality({run}) = 1
      BY FS_EmptySet, FS_Singleton
    <3>3. Active(ledger) = {} \/ Active(ledger) = {run}
      BY <3>1
    <3> QED BY <3>2, <3>3
  <2>6. ASSUME NEW run \in Runs
        PROVE  IsPrefix(LegacyLedger[run], ledger[run])
    <3> DEFINE s == LegacyLedger[run]
               t == ledger[run]
    <3>1. IsSeq(s) /\ IsSeq(t) /\ Starts(s, t)
      BY <2>2, LegacyType DEF LedgerType
    <3>2. Len(s) \in 0..Len(s) /\ Len(s) <= Len(t) /\ \A i \in 1..Len(s) : t[i] = s[i]
      BY <3>1 DEF IsSeq, Starts
    <3> HIDE DEF s, t
    <3>3. SubSeq(t, 1, Len(s)) = SubSeq(s, 1, Len(s))
      BY <3>1, <3>2, SameBeginning
    <3>4. IsPrefix(s, t)
      BY <3>2, <3>3 DEF IsPrefix
    <3> QED BY <3>4 DEF s, t
  <2>7. \A run \in Runs : Replay(ledger[run]).state # "Invalid"
    BY <2>2 DEF ValidLedger
  <2> QED BY <2>3, <2>4, <2>5, <2>6, <2>7 DEF LedgerLinear
<1> QED BY <1>1, <1>2, <1>3, RuntimeInvariant, PTL DEF Spec

-----------------------------------------------------------------------------
(* A preview is what the commit makes *)

\* The graph of a log, one change after the other.
GraphStep(f, ch, scope, t, k) == IF k = 0 THEN EmptyGraph ELSE Resolved(f[k - 1], ch[k], k, scope, t)

LEMMA GraphExists ==
    ASSUME NEW ch, NEW scope, NEW t, NEW n \in Nat
    PROVE  \E f : f = [k \in 0..n |-> GraphStep(f, ch, scope, t, k)]
<1> DEFINE G == {k \in Nat : \E f : f = [j \in 0..k |-> GraphStep(f, ch, scope, t, j)]}
<1>1. 0 \in G
  <2> DEFINE f == [j \in 0..0 |-> EmptyGraph]
  <2>1. f = [j \in 0..0 |-> GraphStep(f, ch, scope, t, j)]
    BY DEF GraphStep
  <2> QED BY <2>1
<1>2. ASSUME NEW k \in 1..n, k - 1 \in G
      PROVE  k \in G
  <2>1. PICK f : f = [j \in 0..(k - 1) |-> GraphStep(f, ch, scope, t, j)]
    BY <1>2
  <2> DEFINE g == [j \in 0..k |-> IF j = k THEN GraphStep(f, ch, scope, t, k) ELSE f[j]]
  <2>2. ASSUME NEW j \in 0..k
        PROVE  g[j] = GraphStep(g, ch, scope, t, j)
    <3>1. CASE j = k
      <4>1. k - 1 \in 0..k /\ k - 1 # k /\ k \in 0..k /\ k # 0
        OBVIOUS
      <4>2. g[k - 1] = f[k - 1] /\ g[k] = GraphStep(f, ch, scope, t, k)
        BY <4>1
      <4> HIDE DEF g
      <4> QED BY <3>1, <4>1, <4>2 DEF GraphStep
    <3>2. CASE j # k
      <4>1. j \in 0..(k - 1) /\ (j # 0 => j - 1 \in 0..(k - 1))
        BY <3>2
      <4>2. g[j] = f[j] /\ (j # 0 => g[j - 1] = f[j - 1])
        BY <3>2, <4>1
      <4>3. f[j] = GraphStep(f, ch, scope, t, j)
        BY <2>1, <4>1
      <4> HIDE DEF g
      <4> QED BY <4>2, <4>3 DEF GraphStep
    <3> QED BY <3>1, <3>2
  <2>3. g = [j \in 0..k |-> g[j]]
    OBVIOUS
  <2> HIDE DEF g
  <2>4. g = [j \in 0..k |-> GraphStep(g, ch, scope, t, j)]
    BY <2>2, <2>3
  <2> QED BY <2>4
<1>3. n \in G
  <2> HIDE DEF G
  <2> QED BY <1>1, <1>2, Induction
<1> QED BY <1>3

\* A graph is the last of them.
LEMMA GraphRun ==
    ASSUME NEW ch, NEW scope, NEW t, NEW k \in Nat
    PROVE  \E f : /\ f[0] = EmptyGraph
                  /\ \A n \in 1..k : f[n] = Resolved(f[n - 1], ch[n], n, scope, t)
                  /\ GraphAfter(ch, scope, t, k) = f[k]
<1> DEFINE f == CHOOSE f : f = [n \in 0..k |-> GraphStep(f, ch, scope, t, n)]
<1>1. GraphAfter(ch, scope, t, k) = f[k]
  BY DEF GraphAfter, GraphStep
<1>2. f = [n \in 0..k |-> GraphStep(f, ch, scope, t, n)]
  BY GraphExists
<1> HIDE DEF f
<1>3. \A n \in 0..k : f[n] = GraphStep(f, ch, scope, t, n)
  BY <1>2
<1>4. f[0] = EmptyGraph
  BY <1>3 DEF GraphStep
<1>5. ASSUME NEW n \in 1..k
      PROVE  f[n] = Resolved(f[n - 1], ch[n], n, scope, t)
  <2>1. f[n] = GraphStep(f, ch, scope, t, n) /\ n # 0
    BY <1>3
  <2> QED BY <2>1 DEF GraphStep
<1> QED BY <1>1, <1>4, <1>5

\* A preview, one mutation after the other.
PendingStep(f, base, ms, at, t, k, i) ==
    IF i = 0 THEN [records |-> Identified(base.records), relations |-> Identified(base.relations)]
    ELSE Resolve(f[i - 1], ms[i], at, k + i, t)

LEMMA PendingExists ==
    ASSUME NEW base, NEW ms, NEW at, NEW t, NEW k, NEW n \in Nat
    PROVE  \E f : f = [i \in 0..n |-> PendingStep(f, base, ms, at, t, k, i)]
<1> DEFINE Step(f, i) == PendingStep(f, base, ms, at, t, k, i)
           First == [records |-> Identified(base.records), relations |-> Identified(base.relations)]
           G == {i \in Nat : \E f : f = [j \in 0..i |-> Step(f, j)]}
<1>1. 0 \in G
  <2> DEFINE f == [j \in 0..0 |-> First]
  <2>1. f = [j \in 0..0 |-> Step(f, j)]
    BY DEF PendingStep
  <2> QED BY <2>1
<1>2. ASSUME NEW i \in 1..n, i - 1 \in G
      PROVE  i \in G
  <2>1. PICK f : f = [j \in 0..(i - 1) |-> Step(f, j)]
    BY <1>2
  <2> DEFINE g == [j \in 0..i |-> IF j = i THEN Step(f, i) ELSE f[j]]
  <2>2. ASSUME NEW j \in 0..i
        PROVE  g[j] = Step(g, j)
    <3>1. CASE j = i
      <4>1. i - 1 \in 0..i /\ i - 1 # i /\ i \in 0..i /\ i # 0
        OBVIOUS
      <4>2. g[i - 1] = f[i - 1] /\ g[i] = Step(f, i)
        BY <4>1
      <4> HIDE DEF g
      <4> QED BY <3>1, <4>1, <4>2 DEF PendingStep
    <3>2. CASE j # i
      <4>1. j \in 0..(i - 1) /\ (j # 0 => j - 1 \in 0..(i - 1))
        BY <3>2
      <4>2. g[j] = f[j] /\ (j # 0 => g[j - 1] = f[j - 1])
        BY <3>2, <4>1
      <4>3. f[j] = Step(f, j)
        BY <2>1, <4>1
      <4> HIDE DEF g
      <4> QED BY <4>2, <4>3 DEF PendingStep
    <3> QED BY <3>1, <3>2
  <2>3. g = [j \in 0..i |-> g[j]]
    OBVIOUS
  <2> HIDE DEF g
  <2>4. g = [j \in 0..i |-> Step(g, j)]
    BY <2>2, <2>3
  <2> QED BY <2>4
<1>3. n \in G
  <2> HIDE DEF G
  <2> QED BY <1>1, <1>2, Induction
<1> QED BY <1>3

\* A preview is the visible part of the last of them.
LEMMA PendingRun ==
    ASSUME NEW base, NEW ms, NEW at, NEW t, NEW k, Len(ms) \in Nat
    PROVE  \E f : /\ f[0] = [records |-> Identified(base.records), relations |-> Identified(base.relations)]
                  /\ \A n \in 1..Len(ms) : f[n] = Resolve(f[n - 1], ms[n], at, k + n, t)
                  /\ Preview(base, ms, at, t, k) = Visible(f[Len(ms)], t)
<1> DEFINE f == CHOOSE f : f = [n \in 0..Len(ms) |-> PendingStep(f, base, ms, at, t, k, n)]
<1>1. Preview(base, ms, at, t, k) = Visible(f[Len(ms)], t)
  BY DEF Preview, PendingStep
<1>2. f = [n \in 0..Len(ms) |-> PendingStep(f, base, ms, at, t, k, n)]
  BY PendingExists
<1> HIDE DEF f
<1>3. \A n \in 0..Len(ms) : f[n] = PendingStep(f, base, ms, at, t, k, n)
  BY <1>2
<1>4. f[0] = [records |-> Identified(base.records), relations |-> Identified(base.relations)]
  BY <1>3 DEF PendingStep
<1>5. ASSUME NEW n \in 1..Len(ms)
      PROVE  f[n] = Resolve(f[n - 1], ms[n], at, k + n, t)
  <2>1. f[n] = PendingStep(f, base, ms, at, t, k, n) /\ n # 0
    BY <1>3
  <2> QED BY <2>1 DEF PendingStep
<1> QED BY <1>1, <1>4, <1>5

\* Objects by identity, and two maps of which an instant shows the same.
Keyed(objects) == \A ref \in DOMAIN objects : objects[ref].reference = ref
Shows(objects, ref, t) == ref \in DOMAIN objects /\ ValidAt(objects[ref], t)
Alike(x, y, t) ==
    \A ref : /\ Shows(x, ref, t) <=> Shows(y, ref, t)
             /\ Shows(x, ref, t) => x[ref] = y[ref]
GraphsAlike(g, h, t) ==
    /\ Keyed(g.records) /\ Keyed(g.relations) /\ Keyed(h.records) /\ Keyed(h.relations)
    /\ Alike(g.records, h.records, t) /\ Alike(g.relations, h.relations, t)

LEMMA WithAlike ==
    ASSUME NEW x, NEW y, NEW t, NEW o
    PROVE  /\ Keyed(x) => Keyed(With(x, o))
           /\ Alike(x, y, t) => Alike(With(x, o), With(y, o), t)
<1> DEFINE u == With(x, o)
           v == With(y, o)
<1>1. /\ DOMAIN u = DOMAIN x \cup {o.reference}
      /\ \A ref \in DOMAIN u : u[ref] = IF ref = o.reference THEN o ELSE x[ref]
  BY DEF With
<1>2. /\ DOMAIN v = DOMAIN y \cup {o.reference}
      /\ \A ref \in DOMAIN v : v[ref] = IF ref = o.reference THEN o ELSE y[ref]
  BY DEF With
<1> HIDE DEF u, v
<1>3. Keyed(x) => Keyed(u)
  BY <1>1 DEF Keyed
<1>4. ASSUME Alike(x, y, t), NEW ref
      PROVE  /\ Shows(u, ref, t) <=> Shows(v, ref, t)
             /\ Shows(u, ref, t) => u[ref] = v[ref]
  <2>1. CASE ref = o.reference
    <3>1. ref \in DOMAIN u /\ ref \in DOMAIN v /\ u[ref] = o /\ v[ref] = o
      BY <1>1, <1>2, <2>1
    <3> QED BY <3>1 DEF Shows
  <2>2. CASE ref # o.reference
    <3>1. /\ ref \in DOMAIN u <=> ref \in DOMAIN x
          /\ ref \in DOMAIN v <=> ref \in DOMAIN y
          /\ ref \in DOMAIN u => u[ref] = x[ref]
          /\ ref \in DOMAIN v => v[ref] = y[ref]
      BY <1>1, <1>2, <2>2
    <3> QED BY <1>4, <3>1 DEF Alike, Shows
  <2> QED BY <2>1, <2>2
<1>5. Alike(x, y, t) => Alike(u, v, t)
  BY <1>4 DEF Alike
<1> QED BY <1>3, <1>5 DEF u, v

\* A change keeps two graphs alike,
LEMMA ResolveAlike ==
    ASSUME NEW g, NEW h, NEW t, GraphsAlike(g, h, t), NEW m, NEW at, NEW cursor
    PROVE  GraphsAlike(Resolve(g, m, at, cursor, t), Resolve(h, m, at, cursor, t), t)
<1> DEFINE x == Resolve(g, m, at, cursor, t)
           y == Resolve(h, m, at, cursor, t)
<1> SUFFICES GraphsAlike(x, y, t)
  OBVIOUS
<1>1. ASSUME NEW o, x.records = With(g.records, o), y.records = With(h.records, o),
             x.relations = g.relations, y.relations = h.relations
      PROVE  GraphsAlike(x, y, t)
  <2> HIDE DEF x, y
  <2> QED BY <1>1, WithAlike DEF GraphsAlike
<1>2. ASSUME NEW o, x.relations = With(g.relations, o), y.relations = With(h.relations, o),
             x.records = g.records, y.records = h.records
      PROVE  GraphsAlike(x, y, t)
  <2> HIDE DEF x, y
  <2> QED BY <1>2, WithAlike DEF GraphsAlike
<1>3. ASSUME NEW o, NEW p, x.relations = With(g.relations, o), y.relations = With(h.relations, o),
             x.records = With(g.records, p), y.records = With(h.records, p)
      PROVE  GraphsAlike(x, y, t)
  <2> HIDE DEF x, y
  <2> QED BY <1>3, WithAlike DEF GraphsAlike
<1>4. CASE m.kind = "record" /\ m.record.valid_from <= t
  <2>1. /\ x = [records |-> With(g.records, m.record), relations |-> g.relations]
        /\ y = [records |-> With(h.records, m.record), relations |-> h.relations]
    BY <1>4 DEF Resolve
  <2> HIDE DEF x, y
  <2> DEFINE o == m.record
  <2>2. /\ x.records = With(g.records, o) /\ x.relations = g.relations
        /\ y.records = With(h.records, o) /\ y.relations = h.relations
    BY <2>1
  <2> HIDE DEF o
  <2> QED BY <1>1, <2>2
<1>5. CASE m.kind = "relation" /\ m.relation.valid_from <= t
  <2>1. /\ x = [records |-> g.records, relations |-> With(g.relations, m.relation)]
        /\ y = [records |-> h.records, relations |-> With(h.relations, m.relation)]
    BY <1>5 DEF Resolve
  <2> HIDE DEF x, y
  <2> DEFINE o == m.relation
  <2>2. /\ x.relations = With(g.relations, o) /\ x.records = g.records
        /\ y.relations = With(h.relations, o) /\ y.records = h.records
    BY <2>1
  <2> HIDE DEF o
  <2> QED BY <1>2, <2>2
<1>6. CASE m.kind = "event"
  <2> DEFINE p == EventRecord(m.event, at, cursor)
             e == CHOOSE e \in EventEdges(m.event, at, cursor) : TRUE
  <2>1. /\ x = [records |-> With(g.records, p),
                relations |-> IF m.event.subject = {} THEN g.relations ELSE With(g.relations, e)]
        /\ y = [records |-> With(h.records, p),
                relations |-> IF m.event.subject = {} THEN h.relations ELSE With(h.relations, e)]
    BY <1>6 DEF Resolve
  <2> HIDE DEF x, y, p, e
  <2>2. CASE m.event.subject = {}
    <3>1. /\ x.records = With(g.records, p) /\ x.relations = g.relations
          /\ y.records = With(h.records, p) /\ y.relations = h.relations
      BY <2>1, <2>2
    <3> QED BY <1>1, <3>1
  <2>3. CASE m.event.subject # {}
    <3>1. /\ x.records = With(g.records, p) /\ x.relations = With(g.relations, e)
          /\ y.records = With(h.records, p) /\ y.relations = With(h.relations, e)
      BY <2>1, <2>3
    <3> QED BY <1>3, <3>1
  <2> QED BY <2>2, <2>3
<1>7. CASE /\ ~(m.kind = "record" /\ m.record.valid_from <= t)
           /\ ~(m.kind = "relation" /\ m.relation.valid_from <= t)
           /\ m.kind # "event"
  <2>1. x = g /\ y = h
    BY <1>7 DEF Resolve
  <2> QED BY <2>1
<1> QED BY <1>4, <1>5, <1>6, <1>7

\* two that are alike show the same,
LEMMA AlikeVisible ==
    ASSUME NEW g, NEW h, NEW t, GraphsAlike(g, h, t)
    PROVE  Visible(g, t) = Visible(h, t)
<1>1. ASSUME NEW x, NEW y, Alike(x, y, t)
      PROVE  ValidObjects(x, t) \subseteq ValidObjects(y, t)
  <2>1. ASSUME NEW ref \in DOMAIN x, ValidAt(x[ref], t)
        PROVE  ref \in DOMAIN y /\ y[ref] = x[ref]
    BY <1>1, <2>1 DEF Alike, Shows
  <2> QED BY <2>1 DEF ValidObjects, Values
<1>2. ASSUME NEW x, NEW y, Alike(x, y, t)
      PROVE  ValidObjects(x, t) = ValidObjects(y, t)
  <2>1. Alike(y, x, t)
    BY <1>2 DEF Alike
  <2> QED BY <1>1, <1>2, <2>1
<1>3. ValidObjects(g.records, t) = ValidObjects(h.records, t)
  BY <1>2 DEF GraphsAlike
<1>4. ValidObjects(g.relations, t) = ValidObjects(h.relations, t)
  BY <1>2 DEF GraphsAlike
<1> QED BY <1>3, <1>4 DEF Visible

\* and a graph is alike to the one a preview makes of what it shows.
LEMMA IdentifiedAlike ==
    ASSUME NEW x, NEW t, Keyed(x)
    PROVE  /\ Keyed(Identified(ValidObjects(x, t)))
           /\ Alike(x, Identified(ValidObjects(x, t)), t)
<1> DEFINE S == ValidObjects(x, t)
           y == Identified(S)
<1>1. \A o : o \in S <=> \E ref \in DOMAIN x : o = x[ref] /\ ValidAt(o, t)
  BY DEF ValidObjects, Values
<1>2. /\ DOMAIN y = {o.reference : o \in S}
      /\ \A ref \in DOMAIN y : y[ref] = CHOOSE o \in S : o.reference = ref
  BY DEF Identified
<1> HIDE DEF S, y
<1>3. \A ref \in DOMAIN y : y[ref] \in S /\ y[ref].reference = ref
  BY <1>2
<1>4. ASSUME NEW ref
      PROVE  /\ Shows(x, ref, t) <=> Shows(y, ref, t)
             /\ Shows(x, ref, t) => x[ref] = y[ref]
  <2>1. ASSUME ref \in DOMAIN y
        PROVE  ref \in DOMAIN x /\ y[ref] = x[ref] /\ ValidAt(y[ref], t)
    <3>1. y[ref] \in S /\ y[ref].reference = ref
      BY <1>3, <2>1
    <3>2. PICK q \in DOMAIN x : y[ref] = x[q] /\ ValidAt(y[ref], t)
      BY <1>1, <3>1
    <3> QED BY <3>1, <3>2 DEF Keyed
  <2>2. ASSUME ref \in DOMAIN x, ValidAt(x[ref], t)
        PROVE  ref \in DOMAIN y
    BY <1>1, <1>2, <2>2 DEF Keyed
  <2> QED BY <2>1, <2>2 DEF Shows
<1>5. Keyed(y) /\ Alike(x, y, t)
  BY <1>3, <1>4 DEF Keyed, Alike
<1> QED BY <1>5 DEF y, S

\* The graph of a log is one of objects by identity, and depends on the changes it counts.
LEMMA ResolvedKeyed ==
    ASSUME NEW g, Keyed(g.records), Keyed(g.relations), NEW c, NEW cursor, NEW scope, NEW t
    PROVE  LET x == Resolved(g, c, cursor, scope, t) IN Keyed(x.records) /\ Keyed(x.relations)
<1> DEFINE x == Resolve(g, c.mutation, c.at, cursor, t)
<1>1. GraphsAlike(g, g, t)
  BY DEF GraphsAlike, Alike
<1>2. GraphsAlike(x, x, t)
  BY <1>1, ResolveAlike
<1>3. Keyed(x.records) /\ Keyed(x.relations)
  BY <1>2 DEF GraphsAlike
<1> HIDE DEF x
<1> QED BY <1>3 DEF Resolved, x

LEMMA GraphKeyed ==
    ASSUME NEW ch, NEW scope, NEW t, NEW k \in Nat
    PROVE  LET x == GraphAfter(ch, scope, t, k) IN Keyed(x.records) /\ Keyed(x.relations)
<1>1. PICK f : /\ f[0] = EmptyGraph
               /\ \A n \in 1..k : f[n] = Resolved(f[n - 1], ch[n], n, scope, t)
               /\ GraphAfter(ch, scope, t, k) = f[k]
  BY GraphRun
<1> DEFINE G == {n \in Nat : Keyed(f[n].records) /\ Keyed(f[n].relations)}
<1>2. 0 \in G
  BY <1>1 DEF EmptyGraph, Keyed
<1>3. ASSUME NEW n \in 1..k, n - 1 \in G
      PROVE  n \in G
  <2>1. n \in Nat /\ f[n] = Resolved(f[n - 1], ch[n], n, scope, t)
    BY <1>1
  <2> DEFINE g == f[n - 1]
  <2>2. Keyed(g.records) /\ Keyed(g.relations)
    BY <1>3
  <2> HIDE DEF g
  <2>3. Keyed(Resolved(g, ch[n], n, scope, t).records) /\ Keyed(Resolved(g, ch[n], n, scope, t).relations)
    BY <2>2, ResolvedKeyed
  <2> QED BY <2>1, <2>3 DEF g
<1>4. k \in G
  <2> HIDE DEF G
  <2>1. k \in 0..k /\ \A n \in 1..k : n - 1 \in G => n \in G
    BY <1>3
  <2> QED BY <1>2, <2>1, Induction
<1> QED BY <1>1, <1>4

LEMMA GraphSame ==
    ASSUME NEW ch, NEW dh, NEW scope, NEW t, NEW k \in Nat, NEW l \in Nat, k <= l,
           \A i \in 1..k : dh[i] = ch[i],
           NEW f, f[0] = EmptyGraph, \A n \in 1..l : f[n] = Resolved(f[n - 1], dh[n], n, scope, t)
    PROVE  GraphAfter(ch, scope, t, k) = f[k]
<1>1. PICK g : /\ g[0] = EmptyGraph
               /\ \A n \in 1..k : g[n] = Resolved(g[n - 1], ch[n], n, scope, t)
               /\ GraphAfter(ch, scope, t, k) = g[k]
  BY GraphRun
<1> DEFINE G == {n \in Nat : g[n] = f[n]}
<1>2. 0 \in G
  BY <1>1
<1>3. ASSUME NEW n \in 1..k, n - 1 \in G
      PROVE  n \in G
  <2>1. g[n] = Resolved(g[n - 1], ch[n], n, scope, t) /\ n \in 1..l
    BY <1>1
  <2>2. f[n] = Resolved(f[n - 1], ch[n], n, scope, t)
    BY <2>1
  <2> QED BY <1>3, <2>1, <2>2
<1>4. k \in G
  <2> HIDE DEF G
  <2>1. k \in 0..k /\ \A n \in 1..k : n - 1 \in G => n \in G
    BY <1>3
  <2> QED BY <1>2, <2>1, Induction
<1> QED BY <1>1, <1>4

\* A commit at the head makes the graph that its preview shows.
LEMMA PreviewMade ==
    ASSUME NEW ch, NEW dh, NEW c, Extends(ch, dh, c), NEW t
    PROVE  FromChanges(dh, c.scope, t, Len(dh))
             = Preview(FromChanges(ch, c.scope, t, Len(ch)), c.mutations, c.at, t, Len(ch))
<1> DEFINE k == Len(ch)
           ms == c.mutations
           old == GraphAfter(ch, c.scope, t, k)
           base == Visible(old, t)
<1>1. k \in Nat /\ Len(ms) \in Nat /\ Len(dh) = k + Len(ms) /\ Len(dh) \in Nat
  BY DEF Extends, IsSeq
<1>2. /\ FromChanges(ch, c.scope, t, k) = base
      /\ FromChanges(dh, c.scope, t, Len(dh)) = Visible(GraphAfter(dh, c.scope, t, Len(dh)), t)
  BY <1>1 DEF FromChanges
<1>3. PICK f : /\ f[0] = EmptyGraph
               /\ \A n \in 1..Len(dh) : f[n] = Resolved(f[n - 1], dh[n], n, c.scope, t)
               /\ GraphAfter(dh, c.scope, t, Len(dh)) = f[Len(dh)]
  <2> DEFINE l == Len(dh)
             sc == c.scope
  <2>1. l \in Nat
    BY <1>1
  <2> HIDE DEF l, sc
  <2>2. \E f : /\ f[0] = EmptyGraph
               /\ \A n \in 1..l : f[n] = Resolved(f[n - 1], dh[n], n, sc, t)
               /\ GraphAfter(dh, sc, t, l) = f[l]
    BY ONLY <2>1, GraphRun
  <2> QED BY <2>2 DEF l, sc
<1>4. PICK g : /\ g[0] = [records |-> Identified(base.records), relations |-> Identified(base.relations)]
               /\ \A n \in 1..Len(ms) : g[n] = Resolve(g[n - 1], ms[n], c.at, k + n, t)
               /\ Preview(base, ms, c.at, t, k) = Visible(g[Len(ms)], t)
  <2> HIDE DEF base, k
  <2> QED BY <1>1, PendingRun
<1>5. f[k] = old
  <2>1. \A i \in 1..k : dh[i] = ch[i]
    BY DEF Extends
  <2> DEFINE l == Len(dh)
             sc == c.scope
  <2>2. /\ k \in Nat /\ l \in Nat /\ k <= l /\ f[0] = EmptyGraph
        /\ \A n \in 1..l : f[n] = Resolved(f[n - 1], dh[n], n, sc, t)
    BY <1>1, <1>3
  <2> HIDE DEF k, l, sc
  <2>3. GraphAfter(ch, sc, t, k) = f[k]
    BY ONLY <2>1, <2>2, GraphSame
  <2> QED BY <2>3 DEF sc
<1>6. GraphsAlike(f[k], g[0], t)
  <2>1. Keyed(old.records) /\ Keyed(old.relations)
    BY <1>1, GraphKeyed
  <2>2. base.records = ValidObjects(old.records, t) /\ base.relations = ValidObjects(old.relations, t)
    BY DEF Visible
  <2> HIDE DEF old, base
  <2>3. /\ g[0].records = Identified(ValidObjects(old.records, t))
        /\ g[0].relations = Identified(ValidObjects(old.relations, t))
    BY <1>4, <2>2
  <2> QED BY <1>5, <2>1, <2>3, IdentifiedAlike DEF GraphsAlike
<1> HIDE DEF base, old
<1> DEFINE G == {n \in Nat : GraphsAlike(f[k + n], g[n], t)}
<1>7. 0 \in G
  <2>1. k + 0 = k
    BY <1>1
  <2> QED BY <1>6, <2>1
<1>8. ASSUME NEW n \in 1..Len(ms), n - 1 \in G
      PROVE  n \in G
  <2>1. /\ k + n \in 1..Len(dh) /\ n \in Nat /\ (k + n) - 1 = k + (n - 1)
    BY <1>1
  <2>2. dh[k + n] = Change(c, n)
    BY DEF Extends
  <2>3. Change(c, n).scope = c.scope /\ Change(c, n).mutation = ms[n] /\ Change(c, n).at = c.at
    BY DEF Change
  <2>4. f[k + n] = Resolved(f[(k + n) - 1], dh[k + n], k + n, c.scope, t)
    BY <1>3, <2>1
  <2>5. f[k + n] = Resolve(f[k + (n - 1)], ms[n], c.at, k + n, t)
    BY <2>1, <2>2, <2>3, <2>4 DEF Resolved
  <2>6. g[n] = Resolve(g[n - 1], ms[n], c.at, k + n, t)
    BY <1>4
  <2>7. GraphsAlike(f[k + (n - 1)], g[n - 1], t)
    BY <1>8
  <2>8. GraphsAlike(f[k + n], g[n], t)
    BY <2>5, <2>6, <2>7, ResolveAlike
  <2> QED BY <2>1, <2>8
<1>9. Len(ms) \in G
  <2> HIDE DEF G
  <2>1. Len(ms) \in 0..Len(ms) /\ \A n \in 1..Len(ms) : n - 1 \in G => n \in G
    BY <1>1, <1>8
  <2> DEFINE l == Len(ms)
  <2>2. l \in Nat /\ l \in 0..l /\ \A n \in 1..l : n - 1 \in G => n \in G
    BY <1>1, <2>1
  <2> HIDE DEF l
  <2>3. l \in G
    BY <1>7, <2>2, Induction
  <2> QED BY <2>3 DEF l
<1>10. Visible(f[Len(dh)], t) = Visible(g[Len(ms)], t)
  BY <1>1, <1>9, AlikeVisible
<1> QED BY <1>2, <1>3, <1>4, <1>10

\* The steps that authors commit in.
LEMMA CommitsByActor ==
    ASSUME RuntimeInv, [Next]_vars
    PROVE  \/ UNCHANGED log
           \/ \E a \in Authors, at \in Times, body \in Bodies :
                 /\ At(a, "stamped") /\ Proper(AuthorCommitOf(a, at, body)) /\ Accept(AuthorCommitOf(a, at, body))
           \/ \E m : Proper(m) /\ Accept(m) /\ m.actor \notin Authors
<1>1. CASE UNCHANGED vars
  BY <1>1 DEF vars, log
<1>2. ASSUME NEW a \in Authors, NEW scope \in Scopes, AuthorStamp(a, scope)
      PROVE  UNCHANGED log
  BY <1>2 DEF AuthorStamp
<1>3. ASSUME NEW a \in Authors, NEW at \in Times, NEW body \in Bodies, AuthorCommit(a, at, body)
      PROVE  UNCHANGED log \/ (/\ At(a, "stamped") /\ Proper(AuthorCommitOf(a, at, body))
                               /\ Accept(AuthorCommitOf(a, at, body)))
  BY <1>3, AuthorProper DEF AuthorCommit, RuntimeInv
<1>4. ASSUME NEW c \in Tracers, TraceStart(c) \/ TraceStamp(c) \/ TraceSchema(c) \/ TraceCommit(c)
      PROVE  UNCHANGED log \/ \E m : Proper(m) /\ Accept(m) /\ m.actor \notin Authors
  <2>1. CASE TraceStart(c) \/ TraceStamp(c) \/ TraceSchema(c)
    BY <2>1 DEF TraceStart, TraceStamp, TraceSchema
  <2>2. CASE TraceCommit(c)
    <3>1. TraceCommitOf(c).actor = c /\ c \notin Authors
      BY ClientsAssumption DEF TraceCommitOf, Commit
    <3>2. At(c, "commit") /\ (UNCHANGED log \/ Accept(TraceCommitOf(c)))
      BY <2>2 DEF TraceCommit
    <3>3. Proper(TraceCommitOf(c))
      BY <3>2, TraceProper DEF RuntimeInv
    <3> QED BY <3>1, <3>2, <3>3
  <2> QED BY <1>4, <2>1, <2>2
<1>5. ASSUME NEW c \in Reasoners,
             (\E run \in Runs, payload \in Payloads : ReasonLoad(c, run, payload)) \/ ReasonSchema(c) \/ ReasonCommit(c)
      PROVE  UNCHANGED log \/ \E m : Proper(m) /\ Accept(m) /\ m.actor \notin Authors
  <2>1. CASE (\E run \in Runs, payload \in Payloads : ReasonLoad(c, run, payload)) \/ ReasonSchema(c)
    BY <2>1 DEF ReasonLoad, ReasonSchema
  <2>2. CASE ReasonCommit(c)
    <3>1. ReasonCommitOf(c).actor = c /\ c \notin Authors
      BY ClientsAssumption DEF ReasonCommitOf, Commit
    <3>2. At(c, "ready") /\ (UNCHANGED log \/ Accept(ReasonCommitOf(c)))
      BY <2>2 DEF ReasonCommit
    <3>3. Proper(ReasonCommitOf(c))
      BY <3>2, ReasonProper DEF RuntimeInv
    <3> QED BY <3>1, <3>2, <3>3
  <2> QED BY <1>5, <2>1, <2>2
<1>6. ASSUME NEW c \in Hooks, HookSchema(c) \/ HookCursor(c) \/ HookCommit(c)
      PROVE  UNCHANGED log \/ \E m : Proper(m) /\ Accept(m) /\ m.actor \notin Authors
  <2>1. CASE HookSchema(c) \/ HookCursor(c)
    BY <2>1 DEF HookSchema, HookCursor
  <2>2. CASE HookCommit(c)
    <3>1. HookCommitOf(c).actor = c /\ c \notin Authors
      BY ClientsAssumption DEF HookCommitOf, Commit
    <3>2. UNCHANGED log \/ Accept(HookCommitOf(c))
      BY <2>2 DEF HookCommit
    <3>3. Proper(HookCommitOf(c))
      BY HookProper
    <3> QED BY <3>1, <3>2, <3>3
  <2> QED BY <1>6, <2>1, <2>2
<1> QED BY <1>1, <1>2, <1>3, <1>4, <1>5, <1>6 DEF Next

\* An accepted transaction makes exactly the graph its preview showed, at every instant.
THEOREM CommitsMakeTheirPreview == Spec => PreviewIsCommit
<1>1. ASSUME RuntimeInv, [Next]_vars
      PROVE  PreviewHeld
  <2> SUFFICES ASSUME Len(changes') > Len(changes),
                      changes'[Len(changes')].commit.actor \in Authors, NEW t \in Instants
               PROVE  LET c == changes'[Len(changes')].commit
                      IN  FromChanges(changes', c.scope, t, Len(changes'))
                            = PreviewOf(c.actor, c.at, c.mutations, t)
    BY DEF PreviewHeld
  <2>1. ~UNCHANGED log
    <3>1. Len(changes) \in Nat
      BY <1>1 DEF RuntimeInv, LogInv, LogType, IsSeq
    <3> QED BY <3>1 DEF log
  <2>2. ASSUME NEW m, Proper(m), Accept(m)
        PROVE  Extends(changes, changes', m) /\ changes'[Len(changes')].commit = m
    <3>1. Extends(changes, changes', m)
      BY <1>1, <2>2, AcceptExtends DEF RuntimeInv, LogInv
    <3> DEFINE n == Len(m.mutations)
    <3>2. n \in Nat /\ Len(changes) \in Nat /\ Len(changes') = Len(changes) + n
      BY <3>1 DEF Extends, IsSeq
    <3>3. n \in 1..n
      BY <3>2
    <3>4. changes'[Len(changes) + n] = Change(m, n)
      BY <3>1, <3>3 DEF Extends
    <3>5. Change(m, n).commit = m
      BY DEF Change
    <3> QED BY <3>1, <3>2, <3>4, <3>5
  <2>3. PICK a \in Authors, at \in Times, body \in Bodies :
           At(a, "stamped") /\ Proper(AuthorCommitOf(a, at, body)) /\ Accept(AuthorCommitOf(a, at, body))
    BY <1>1, <2>1, <2>2, CommitsByActor
  <2> DEFINE m == AuthorCommitOf(a, at, body)
  <2>4. /\ m.scope = clients[a].read.scope /\ m.at = at /\ m.actor = a /\ m.mutations = body
        /\ m.expected_cursor = clients[a].read.commit_cursor
    BY DEF AuthorCommitOf, Commit
  <2>5. clients[a].read.commit_cursor = Len(changes)
    <3>1. m.expected_cursor = Cursor
      BY <2>3, NotRefused DEF Accept
    <3> QED BY <2>4, <3>1 DEF Cursor
  <2>6. Extends(changes, changes', m) /\ changes'[Len(changes')].commit = m
    BY <2>2, <2>3
  <2> HIDE DEF m
  <2>7. FromChanges(changes', m.scope, t, Len(changes'))
          = Preview(FromChanges(changes, m.scope, t, Len(changes)), m.mutations, m.at, t, Len(changes))
    BY <2>6, PreviewMade
  <2>8. PreviewOf(m.actor, m.at, m.mutations, t)
          = Preview(FromChanges(changes, m.scope, t, Len(changes)), m.mutations, m.at, t, Len(changes))
    BY <2>4, <2>5 DEF PreviewOf
  <2> QED BY <2>6, <2>7, <2>8
<1>2. RuntimeInv /\ [Next]_vars => [PreviewHeld]_vars
  BY <1>1
<1> QED BY <1>2, RuntimeInvariant, PTL DEF Spec, PreviewIsCommit
=============================================================================
