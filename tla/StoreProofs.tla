----------------------------- MODULE StoreProofs -----------------------------
(***************************************************************************)
(* What five parts around the log keep, for any claims, handles, objects,  *)
(* models and bounds: the claim projection (ClaimProjection, extended),    *)
(* leases on runtime snapshots (SnapshotLease), the object tier            *)
(* (ObjectTier), embedding jobs (EmbeddingJobs) and the engines (Engines). *)
(* They share no state, as in MCStores and MCRuntime.                      *)
(*                                                                         *)
(* The projection first.  Its fold is the newest claim of each pair, by    *)
(* induction along the claims it folds.  In the store, what a task has     *)
(* read is a part of the log, so that what it writes is the fold of a      *)
(* prefix of the log, whatever commits, lost writes, restarts and          *)
(* alterations from outside fall between its steps.                        *)
(***************************************************************************)
EXTENDS ClaimProjection, WellFoundedInduction, FiniteSetTheorems, TLAPS

\* Every position of the index keeps leading to the claim appended there: it holds the
\* claim itself, or a key that is never written again.
PositionsHold == CommitKeysReused = FALSE \/ (AppendForm = "claim" /\ CommitForm = "claim")

\* Claim i of a log is at least as new as claim j.
Newer(log, i, j) ==
    log[i].rank > log[j].rank \/ (log[i].rank = log[j].rank /\ i >= j)

\* f holds the newest claim of each pair among the first n of a log.
IsNewest(log, f, n) ==
    /\ f = [p \in DOMAIN f |-> f[p]]
    /\ DOMAIN f = {log[i].pair : i \in 1..n}
    /\ \A p \in DOMAIN f :
         \E i \in 1..n : /\ log[i].pair = p /\ f[p] = log[i]
                         /\ \A j \in 1..n : log[j].pair = p => Newer(log, i, j)

\* A sequence of claims.
IsLog(log) ==
    /\ Len(log) \in Nat /\ DOMAIN log = 1..Len(log)
    /\ \A i \in 1..Len(log) : log[i].pair \in Pairs /\ log[i].rank \in Nat

\* Induction up to a bound, from the principle of the least element.
LEMMA Induction ==
    ASSUME NEW G, NEW n \in Nat, 0 \in G, \A k \in 1..n : k - 1 \in G => k \in G
    PROVE  \A k \in 0..n : k \in G
<1> SUFFICES ASSUME NEW k \in 0..n, k \notin G PROVE FALSE
  OBVIOUS
<1> DEFINE Bad == {j \in Nat : j \in 0..n /\ j \notin G}
<1>1. Bad \subseteq Nat /\ k \in Bad
  OBVIOUS
<1>2. PICK j \in Bad : \A i \in Bad : <<i, j>> \notin OpToRel(<, Nat)
  BY <1>1, NatLessThanWellFounded, WFMin, Zenon
<1>3. \A i \in Bad : ~(i < j)
  BY <1>1, <1>2 DEF OpToRel
<1>4. j # 0 /\ j - 1 \in Nat /\ j - 1 < j
  OBVIOUS
<1>5. j - 1 \notin Bad
  BY <1>3, <1>4
<1> QED BY <1>4, <1>5

-----------------------------------------------------------------------------
(* The fold *)

\* What a step of the fold is, with the claim's handling left closed.
FoldStep(f, entries, cs, n) == IF n = 0 THEN entries ELSE FoldOne(f[n - 1], cs[n])

\* The recursion that defines Fold has a solution.
LEMMA FoldExists ==
    ASSUME NEW entries, NEW cs, NEW n \in Nat
    PROVE  \E f : f = [k \in 0..n |-> FoldStep(f, entries, cs, k)]
<1> DEFINE G == {k \in Nat : \E f : f = [j \in 0..k |-> FoldStep(f, entries, cs, j)]}
<1>1. 0 \in G
  <2> DEFINE f == [j \in 0..0 |-> entries]
  <2>1. f = [j \in 0..0 |-> FoldStep(f, entries, cs, j)]
    BY DEF FoldStep
  <2> QED BY <2>1
<1>2. ASSUME NEW k \in 1..n, k - 1 \in G
      PROVE  k \in G
  <2>1. PICK f : f = [j \in 0..(k - 1) |-> FoldStep(f, entries, cs, j)]
    BY <1>2
  <2> DEFINE g == [j \in 0..k |-> IF j = k THEN FoldOne(f[k - 1], cs[k]) ELSE f[j]]
  <2>2. ASSUME NEW j \in 0..k
        PROVE  g[j] = FoldStep(g, entries, cs, j)
    <3>1. CASE j = k
      BY <3>1 DEF FoldStep
    <3>2. CASE j # k
      <4>1. j \in 0..(k - 1) /\ (j # 0 => j - 1 \in 0..(k - 1))
        BY <3>2
      <4>2. g[j] = f[j] /\ (j # 0 => g[j - 1] = f[j - 1])
        BY <3>2, <4>1
      <4>3. f[j] = FoldStep(f, entries, cs, j)
        BY <2>1, <4>1
      <4> HIDE DEF g
      <4> QED BY <4>2, <4>3 DEF FoldStep
    <3> QED BY <3>1, <3>2
  <2>3. g = [j \in 0..k |-> g[j]]
    OBVIOUS
  <2> HIDE DEF g
  <2>4. g = [j \in 0..k |-> FoldStep(g, entries, cs, j)]
    BY <2>2, <2>3
  <2> QED BY <2>4
<1>3. n \in G
  <2> HIDE DEF G
  <2> QED BY <1>1, <1>2, Induction
<1> QED BY <1>3

\* Fold is the last of a run that folds one claim after the other.
LEMMA FoldRun ==
    ASSUME NEW entries, NEW cs, Len(cs) \in Nat
    PROVE  \E f : /\ f[0] = entries
                  /\ \A n \in 1..Len(cs) : f[n] = FoldOne(f[n - 1], cs[n])
                  /\ Fold(entries, cs) = f[Len(cs)]
<1> DEFINE f == CHOOSE f : f = [n \in 0..Len(cs) |-> FoldStep(f, entries, cs, n)]
<1>1. Fold(entries, cs) = f[Len(cs)]
  BY DEF Fold, FoldStep
<1>2. f = [n \in 0..Len(cs) |-> FoldStep(f, entries, cs, n)]
  BY FoldExists
<1> HIDE DEF f
<1>3. \A n \in 0..Len(cs) : f[n] = FoldStep(f, entries, cs, n)
  BY <1>2
<1> QED BY <1>1, <1>3 DEF FoldStep

\* One more claim: it replaces what it is as new as.
LEMMA FoldOneNewest ==
    ASSUME NEW log, IsLog(log), NEW n \in Nat, n + 1 \in 1..Len(log),
           NEW f, IsNewest(log, f, n)
    PROVE  IsNewest(log, FoldOne(f, log[n + 1]), n + 1)
<1> DEFINE c == log[n + 1]
           g == FoldOne(f, c)
<1>0. /\ 1..(n + 1) = (1..n) \cup {n + 1} /\ n + 1 \notin 1..n
      /\ \A i \in 1..(n + 1) : log[i].rank \in Nat /\ i \in Nat
      /\ \A i \in 1..n : n + 1 > i
  BY DEF IsLog
<1>1. DOMAIN f = {log[i].pair : i \in 1..n}
  BY DEF IsNewest
<1>2. ASSUME NEW p \in DOMAIN f, p # c.pair
      PROVE  \E i \in 1..(n + 1) : /\ log[i].pair = p /\ f[p] = log[i]
                                   /\ \A j \in 1..(n + 1) : log[j].pair = p => Newer(log, i, j)
  BY <1>0, <1>2 DEF IsNewest
<1>3. CASE c.pair \in DOMAIN f /\ c.rank < f[c.pair].rank
  <2>1. g = f
    BY <1>3 DEF FoldOne
  <2>2. DOMAIN f = {log[i].pair : i \in 1..(n + 1)}
    BY <1>0, <1>1, <1>3
  <2>3. PICK i \in 1..n : /\ log[i].pair = c.pair /\ f[c.pair] = log[i]
                          /\ \A j \in 1..n : log[j].pair = c.pair => Newer(log, i, j)
    BY <1>3 DEF IsNewest
  <2>4. Newer(log, i, n + 1)
    BY <1>0, <1>3, <2>3 DEF Newer
  <2>5. i \in 1..(n + 1) /\ \A j \in 1..(n + 1) : log[j].pair = c.pair => Newer(log, i, j)
    BY <1>0, <2>3, <2>4
  <2>6. ASSUME NEW p \in DOMAIN f
        PROVE  \E k \in 1..(n + 1) : /\ log[k].pair = p /\ f[p] = log[k]
                                     /\ \A j \in 1..(n + 1) : log[j].pair = p => Newer(log, k, j)
    BY <1>2, <2>3, <2>5
  <2>7. IsNewest(log, f, n + 1)
    BY <2>2, <2>6 DEF IsNewest
  <2> QED BY <2>1, <2>7
<1>4. CASE ~(c.pair \in DOMAIN f /\ c.rank < f[c.pair].rank)
  <2>1. g = [p \in DOMAIN f \cup {c.pair} |-> IF p = c.pair THEN c ELSE f[p]]
    BY <1>4 DEF FoldOne
  <2>2. DOMAIN g = {log[i].pair : i \in 1..(n + 1)}
    BY <1>0, <1>1, <2>1
  <2>3. ASSUME NEW j \in 1..(n + 1), log[j].pair = c.pair
        PROVE  Newer(log, n + 1, j)
    <3>1. CASE j = n + 1
      BY <1>0, <3>1 DEF Newer
    <3>2. CASE j \in 1..n
      <4>1. c.pair \in DOMAIN f
        BY <1>1, <2>3, <3>2
      <4>2. PICK i \in 1..n : /\ f[c.pair] = log[i] /\ Newer(log, i, j)
        BY <2>3, <3>2, <4>1 DEF IsNewest
      <4>3. c.rank >= log[i].rank /\ log[i].rank >= log[j].rank
        BY <1>0, <1>4, <4>1, <4>2 DEF Newer
      <4> QED BY <1>0, <3>2, <4>3 DEF Newer
    <3> QED BY <1>0, <3>1, <3>2
  <2>4. ASSUME NEW p \in DOMAIN g
        PROVE  \E i \in 1..(n + 1) : /\ log[i].pair = p /\ g[p] = log[i]
                                     /\ \A j \in 1..(n + 1) : log[j].pair = p => Newer(log, i, j)
    <3>1. CASE p = c.pair
      <4>1. g[p] = log[n + 1] /\ n + 1 \in 1..(n + 1)
        BY <1>0, <2>1, <3>1
      <4> QED BY <2>3, <3>1, <4>1
    <3>2. CASE p # c.pair
      <4>1. p \in DOMAIN f /\ g[p] = f[p]
        BY <2>1, <2>4, <3>2
      <4> QED BY <1>2, <3>2, <4>1
    <3> QED BY <3>1, <3>2
  <2>5. g = [p \in DOMAIN g |-> g[p]]
    BY <2>1
  <2>6. IsNewest(log, g, n + 1)
    <3> HIDE DEF g
    <3> QED BY <2>2, <2>4, <2>5 DEF IsNewest
  <2> QED BY <2>6
<1> QED BY <1>3, <1>4

\* The claims cs are those of a log after the first a.
IsPart(log, cs, a, b) ==
    /\ a \in Nat /\ b \in Nat /\ a <= b /\ b <= Len(log)
    /\ Len(cs) = b - a
    /\ \A i \in 1..Len(cs) : cs[i] = log[a + i]

\* Folding the claims from a to b takes the newest at a to the newest at b.
LEMMA FoldNewest ==
    ASSUME NEW log, IsLog(log), NEW cs, NEW a, NEW b, IsPart(log, cs, a, b),
           NEW entries, IsNewest(log, entries, a)
    PROVE  IsNewest(log, Fold(entries, cs), b)
<1>1. /\ a \in Nat /\ b \in Nat /\ a <= b /\ b <= Len(log) /\ Len(log) \in Nat
      /\ Len(cs) = b - a /\ Len(cs) \in Nat /\ a + Len(cs) = b
      /\ \A i \in 1..Len(cs) : cs[i] = log[a + i]
  BY DEF IsPart, IsLog
<1>0. Len(cs) \in Nat
  BY <1>1
<1>2. PICK f : /\ f[0] = entries
               /\ \A n \in 1..Len(cs) : f[n] = FoldOne(f[n - 1], cs[n])
               /\ Fold(entries, cs) = f[Len(cs)]
  BY <1>0, FoldRun
<1> DEFINE G == {n \in Nat : IsNewest(log, f[n], a + n)}
<1>3. 0 \in G
  BY <1>1, <1>2
<1>4. ASSUME NEW n \in 1..Len(cs), n - 1 \in G
      PROVE  n \in G
  <2>1. /\ a + (n - 1) \in Nat /\ (a + (n - 1)) + 1 = a + n /\ a + n \in 1..Len(log)
        /\ n \in Nat
    BY <1>1
  <2>2. IsNewest(log, f[n - 1], a + (n - 1))
    BY <1>4
  <2>3. IsNewest(log, FoldOne(f[n - 1], log[(a + (n - 1)) + 1]), (a + (n - 1)) + 1)
    BY <2>1, <2>2, FoldOneNewest
  <2>4. f[n] = FoldOne(f[n - 1], log[a + n])
    BY <1>1, <1>2
  <2> QED BY <2>1, <2>3, <2>4
<1>5. Len(cs) \in G
  <2> HIDE DEF G
  <2>1. \A n \in 0..Len(cs) : n \in G
    BY <1>0, <1>3, <1>4, Induction
  <2> QED BY <1>0, <2>1
<1> QED BY <1>1, <1>2, <1>5

\* Before any claim there is none.
LEMMA EmptyNewest ==
    ASSUME NEW log
    PROVE  IsNewest(log, <<>>, 0)
<1>1. 1..0 = {}
  OBVIOUS
<1>2. DOMAIN <<>> = {} /\ <<>> = [p \in {} |-> <<>>[p]]
  OBVIOUS
<1> QED BY <1>1, <1>2 DEF IsNewest

\* There is one newest claim of each pair.
LEMMA NewestUnique ==
    ASSUME NEW log, IsLog(log), NEW n \in Nat, n <= Len(log),
           NEW f, NEW g, IsNewest(log, f, n), IsNewest(log, g, n)
    PROVE  f = g
<1>1. \A i \in 1..n : i \in Nat /\ log[i].rank \in Nat
  BY DEF IsLog
<1>2. DOMAIN f = DOMAIN g
  BY DEF IsNewest
<1>3. ASSUME NEW p \in DOMAIN f
      PROVE  f[p] = g[p]
  <2>1. PICK i \in 1..n : /\ log[i].pair = p /\ f[p] = log[i]
                          /\ \A k \in 1..n : log[k].pair = p => Newer(log, i, k)
    BY DEF IsNewest
  <2>2. PICK j \in 1..n : /\ log[j].pair = p /\ g[p] = log[j]
                          /\ \A k \in 1..n : log[k].pair = p => Newer(log, j, k)
    BY <1>2 DEF IsNewest
  <2>3. i = j
    BY <1>1, <2>1, <2>2 DEF Newer
  <2> QED BY <2>1, <2>2, <2>3
<1> QED BY <1>2, <1>3 DEF IsNewest

\* What holds the newest claims is what NewestOf says.
LEMMA NewestIsNewestOf ==
    ASSUME IsLog(appended), NEW n \in Nat, n <= Len(appended), NEW f, IsNewest(appended, f, n)
    PROVE  f = NewestOf(n)
<1> DEFINE of(p) == {i \in 1..n : appended[i].pair = p}
           newer(i, j) == \/ appended[i].rank > appended[j].rank
                          \/ appended[i].rank = appended[j].rank /\ i >= j
           at(p) == CHOOSE i \in of(p) : \A j \in of(p) : newer(i, j)
           g == NewestOf(n)
<1>1. g = [p \in {appended[i].pair : i \in 1..n} |-> appended[at(p)]]
  BY DEF NewestOf
<1>2. DOMAIN f = {appended[i].pair : i \in 1..n} /\ DOMAIN g = DOMAIN f
  BY <1>1 DEF IsNewest
<1>3. ASSUME NEW p \in DOMAIN f
      PROVE  at(p) \in of(p) /\ \A j \in of(p) : newer(at(p), j)
  <2>1. \E i \in of(p) : \A j \in of(p) : newer(i, j)
    BY DEF IsNewest, Newer
  <2> QED BY <2>1
<1> HIDE DEF at
<1>4. ASSUME NEW p \in DOMAIN g
      PROVE  \E i \in 1..n : /\ appended[i].pair = p /\ g[p] = appended[i]
                             /\ \A j \in 1..n : appended[j].pair = p => Newer(appended, i, j)
  <2>1. /\ at(p) \in 1..n /\ appended[at(p)].pair = p
        /\ \A j \in 1..n : appended[j].pair = p => Newer(appended, at(p), j)
    BY <1>2, <1>3 DEF Newer
  <2>2. g[p] = appended[at(p)]
    BY <1>1, <1>2
  <2> HIDE DEF g
  <2> QED BY <2>1, <2>2
<1>5. g = [p \in DOMAIN g |-> g[p]]
  BY <1>1
<1>6. IsNewest(appended, g, n)
  <2> HIDE DEF g
  <2> QED BY <1>2, <1>4, <1>5 DEF IsNewest
<1> QED BY <1>6, NewestUnique

-----------------------------------------------------------------------------
(* The store *)

\* A stored projection, or one a task holds: unless altered it is the newest of the
\* prefix its watermark names, its stamp is true, and only an altered one is quarantined.
Sound(log, p) ==
    /\ DOMAIN p = DOMAIN EmptyProjection
    /\ p.watermark \in 0..Len(log)
    /\ ~p.drifted => IsNewest(log, p.entries, p.watermark)
    /\ p.last_grounded # NoStamp =>
         /\ p.last_grounded.sequence \in 0..Len(log)
         /\ IsNewest(log, p.last_grounded.digest, p.last_grounded.sequence)
    /\ p.quarantined => p.drifted

IndexEntries == [form : {"claim"}, claim : Claim] \cup [form : {"key"}, key : Keys]

\* Every position of the index leads to the claim appended there.
Recorded ==
    /\ appended \in Seq(Claim) /\ index \in Seq(IndexEntries)
    /\ Len(index) = Len(appended)
    /\ \A i \in 1..Len(index) :
         /\ index[i].form = "claim" => index[i].claim = appended[i]
         /\ index[i].form = "key" =>
              /\ CommitKeysReused = FALSE
              /\ index[i].key \in DOMAIN claims /\ claims[index[i].key] = appended[i]

\* Only what is on stable storage may be quarantined.
Stored ==
    /\ Len(blobs) \in Nat \ {0} /\ blobs = [i \in 1..Len(blobs) |-> blobs[i]]
    /\ \A i \in 1..Len(blobs) : Sound(appended, blobs[i])
    /\ \A i \in 2..Len(blobs) : ~blobs[i].quarantined

\* What a task holds is of the log, and while it runs nothing is quarantined under it.
Tasked ==
    task # NoTask =>
        /\ DOMAIN task = {"op", "stage", "projection", "to", "interval"}
        /\ Sound(appended, task.projection) /\ ~task.projection.quarantined
        /\ task.op # "reset" => ~Current.quarantined
        /\ task.to \in task.projection.watermark..Len(appended)
        /\ task.op = "ground" => task.to = task.projection.watermark
        /\ task.stage = "read" =>
             IsPart(appended, task.interval,
                    IF task.op = "ground" THEN 0 ELSE task.projection.watermark, task.to)

ProjectionInv == Recorded /\ Stored /\ Tasked

\* A sequence of claims is a log.
LEMMA ClaimsAreLog ==
    ASSUME NEW log \in Seq(Claim)
    PROVE  IsLog(log)
<1>1. /\ Len(log) \in Nat /\ DOMAIN log = 1..Len(log)
      /\ \A i \in 1..Len(log) : log[i] \in Claim
  OBVIOUS
<1>2. ASSUME NEW c \in Claim
      PROVE  c.pair \in Pairs /\ c.rank \in Nat
  BY ConstantsAssumption DEF Claim
<1> QED BY <1>1, <1>2 DEF IsLog

\* A longer log says the same of its prefixes.
LEMMA SoundExtends ==
    ASSUME NEW log, NEW longer, Len(log) \in Nat, Len(longer) \in Nat, Len(log) <= Len(longer),
           \A i \in 1..Len(log) : longer[i] = log[i]
    PROVE  /\ \A p : Sound(log, p) => Sound(longer, p)
           /\ \A cs, a, b : IsPart(log, cs, a, b) => IsPart(longer, cs, a, b)
<1>1. ASSUME NEW f, NEW n \in 0..Len(log), IsNewest(log, f, n)
      PROVE  IsNewest(longer, f, n)
  <2>1. \A i \in 1..n : longer[i] = log[i]
    OBVIOUS
  <2>2. \A i, j \in 1..n : Newer(log, i, j) => Newer(longer, i, j)
    BY <2>1 DEF Newer
  <2>3. {longer[i].pair : i \in 1..n} = {log[i].pair : i \in 1..n}
    BY <2>1
  <2> QED BY <1>1, <2>1, <2>2, <2>3 DEF IsNewest
<1>2. ASSUME NEW p, Sound(log, p)
      PROVE  Sound(longer, p)
  BY <1>1, <1>2 DEF Sound
<1>3. ASSUME NEW cs, NEW a, NEW b, IsPart(log, cs, a, b)
      PROVE  IsPart(longer, cs, a, b)
  BY <1>3 DEF IsPart
<1> QED BY <1>2, <1>3

\* claims_in_range returns the claims appended there.
LEMMA RangeIsPart ==
    ASSUME Recorded, NEW from \in Nat, NEW to \in Nat, from <= to, to <= Len(index)
    PROVE  IsPart(appended, ClaimsInRange(from, to), from, to)
<1>1. Len(index) \in Nat /\ Len(appended) = Len(index)
  BY DEF Recorded
<1>2. \A i \in 1..Len(index) : Decode(index[i]) = appended[i]
  BY DEF Recorded, Decode, IndexEntries
<1>3. CASE from = to
  <2>1. ClaimsInRange(from, to) = <<>>
    BY <1>3 DEF ClaimsInRange
  <2> QED BY <1>1, <1>3, <2>1 DEF IsPart
<1>4. CASE from < to
  <2> DEFINE cs == [i \in 1..(to - from) |-> Decode(index[from + i])]
  <2>1. ClaimsInRange(from, to) = cs
    BY <1>4 DEF ClaimsInRange
  <2>2. Len(cs) = to - from
    BY <1>4
  <2>3. \A i \in 1..(to - from) : cs[i] = appended[from + i]
    BY <1>1, <1>2
  <2> HIDE DEF cs
  <2> QED BY <1>1, <2>1, <2>2, <2>3 DEF IsPart
<1> QED BY <1>3, <1>4

\* What a concatenation holds.
LEMMA Concatenated ==
    ASSUME NEW S, NEW s \in Seq(S), NEW t \in Seq(S)
    PROVE  /\ s \o t \in Seq(S) /\ Len(s \o t) = Len(s) + Len(t)
           /\ \A i \in 1..Len(s) : (s \o t)[i] = s[i]
           /\ \A j \in 1..Len(t) : (s \o t)[Len(s) + j] = t[j]
OBVIOUS

\* A write puts each claim where its position leads.
LEMMA WriteRecords ==
    ASSUME PositionsHold, Recorded, NEW form \in {AppendForm, CommitForm},
           NEW batch \in Batches, Write(form, batch)
    PROVE  /\ Recorded'
           /\ appended' = appended \o batch /\ Len(appended') = Len(appended) + Len(batch)
           /\ Len(batch) \in Nat
           /\ \A i \in 1..Len(appended) : appended'[i] = appended[i]
<1> DEFINE new == [i \in DOMAIN batch |-> IndexEntry(form, batch[i])]
<1>1. /\ batch \in Seq(Claim) /\ DOMAIN batch = 1..Len(batch) /\ Len(batch) \in Nat
      /\ \A j \in 1..Len(batch) : batch[j] \in Claim
  <2>1. PICK n \in 1..MaxBatch : batch \in [1..n -> Claim]
    BY DEF Batches
  <2>2. n \in Nat
    BY ConstantsAssumption
  <2> QED BY <2>1, <2>2
<1>2. /\ appended' = appended \o batch /\ index' = index \o new /\ claims' = WithClaims(batch)
      /\ KeysAdmitted(form, batch)
  BY DEF Write
<1>3. form \in {"claim", "key"} /\ (form = "key" => CommitKeysReused = FALSE)
  BY ConstantsAssumption DEF PositionsHold
<1>4. \A j \in 1..Len(batch) : IndexEntry(form, batch[j]) \in IndexEntries
  BY <1>1, <1>3 DEF IndexEntry, IndexEntries, KeyOf, Keys, Claim
<1>5. new \in Seq(IndexEntries) /\ Len(new) = Len(batch)
      /\ \A j \in 1..Len(batch) : new[j] = IndexEntry(form, batch[j])
  BY <1>1, <1>4
<1> HIDE DEF new
<1>6. /\ appended \in Seq(Claim) /\ index \in Seq(IndexEntries) /\ Len(index) = Len(appended)
      /\ Len(index) \in Nat
  BY DEF Recorded
<1>7. /\ appended' \in Seq(Claim) /\ Len(appended') = Len(appended) + Len(batch)
      /\ \A i \in 1..Len(appended) : appended'[i] = appended[i]
      /\ \A j \in 1..Len(batch) : appended'[Len(appended) + j] = batch[j]
  BY <1>1, <1>2, <1>6, Concatenated
<1>8. /\ index' \in Seq(IndexEntries) /\ Len(index') = Len(index) + Len(batch)
      /\ \A i \in 1..Len(index) : index'[i] = index[i]
      /\ \A j \in 1..Len(batch) : index'[Len(index) + j] = IndexEntry(form, batch[j])
  <2>1. index' = index \o new
    BY <1>2
  <2>2. index \in Seq(IndexEntries) /\ new \in Seq(IndexEntries)
    BY <1>5, <1>6
  <2>3. /\ index \o new \in Seq(IndexEntries) /\ Len(index \o new) = Len(index) + Len(new)
        /\ \A i \in 1..Len(index) : (index \o new)[i] = index[i]
        /\ \A j \in 1..Len(new) : (index \o new)[Len(index) + j] = new[j]
    BY <2>2, Concatenated
  <2> QED BY <1>5, <2>1, <2>3
<1>9. ASSUME NEW i \in 1..Len(index')
      PROVE  /\ index'[i].form = "claim" => index'[i].claim = appended'[i]
             /\ index'[i].form = "key" =>
                  /\ CommitKeysReused = FALSE
                  /\ index'[i].key \in DOMAIN claims' /\ claims'[index'[i].key] = appended'[i]
  <2>1. CASE i \in 1..Len(index)
    <3>1. index'[i] = index[i] /\ appended'[i] = appended[i]
      BY <1>6, <1>7, <1>8, <2>1
    <3>2. CASE index[i].form = "key"
      <4> DEFINE k == index[i].key
      <4>1. CommitKeysReused = FALSE /\ k \in DOMAIN claims /\ claims[k] = appended[i]
        BY <2>1, <3>2 DEF Recorded
      <4>2. \A j \in DOMAIN batch : KeyOf(batch[j]) # k
        BY <1>2, <1>6, <2>1, <3>2, <4>1 DEF KeysAdmitted
      <4>3. k \in DOMAIN claims' /\ claims'[k] = claims[k]
        BY <1>2, <4>1, <4>2 DEF WithClaims
      <4> QED BY <3>1, <3>2, <4>1, <4>3
    <3> QED BY <2>1, <3>1, <3>2 DEF Recorded
  <2>2. CASE i \notin 1..Len(index)
    <3>1. PICK j \in 1..Len(batch) : i = Len(index) + j
      <4>1. i - Len(index) \in 1..Len(batch) /\ i = Len(index) + (i - Len(index))
        BY <1>1, <1>6, <1>8, <2>2
      <4> QED BY <4>1
    <3>2. index'[i] = IndexEntry(form, batch[j]) /\ appended'[i] = batch[j]
      BY <1>6, <1>7, <1>8, <3>1
    <3>3. CASE form = "key"
      <4> DEFINE k == KeyOf(batch[j])
                 at == {m \in DOMAIN batch : KeyOf(batch[m]) = k}
      <4>1. Fresh(batch)
        BY <1>2, <1>3, <3>3 DEF KeysAdmitted
      <4>2. at = {j}
        BY <1>1, <4>1 DEF Fresh
      <4>3. (CHOOSE m \in at : \A l \in at : l <= m) = j
        BY <4>2
      <4>4. k \in DOMAIN claims' /\ claims'[k] = batch[CHOOSE m \in at : \A l \in at : l <= m]
        <5>1. k \in DOMAIN WithClaims(batch)
          BY <1>1 DEF WithClaims
        <5>2. at # {}
          BY <4>2
        <5> QED BY <1>2, <5>1, <5>2 DEF WithClaims
      <4>5. index'[i].form = "key" /\ index'[i].key = k
        BY <3>2, <3>3 DEF IndexEntry
      <4> HIDE DEF at, k
      <4> QED BY <1>3, <3>2, <3>3, <4>3, <4>4, <4>5
    <3>4. CASE form = "claim"
      BY <3>2, <3>4 DEF IndexEntry
    <3> QED BY <1>3, <3>3, <3>4
  <2> QED BY <2>1, <2>2
<1>10. Recorded'
  <2>1. Len(index') = Len(appended')
    BY <1>6, <1>7, <1>8
  <2> QED BY <1>7, <1>8, <1>9, <2>1 DEF Recorded
<1> QED BY <1>1, <1>2, <1>7, <1>10

\* What a sequence holds with one more element.
LEMMA Appended ==
    ASSUME NEW S, NEW s \in Seq(S), NEW x \in S
    PROVE  /\ Len(s) \in Nat /\ Len(Append(s, x)) = Len(s) + 1
           /\ \A i \in 1..Len(s) : Append(s, x)[i] = s[i]
           /\ Append(s, x)[Len(s) + 1] = x
           /\ Append(s, x) = [i \in 1..(Len(s) + 1) |-> Append(s, x)[i]]
<1>1. /\ Len(s) \in Nat /\ Len(Append(s, x)) = Len(s) + 1
      /\ \A i \in 1..Len(s) : Append(s, x)[i] = s[i]
      /\ Append(s, x)[Len(s) + 1] = x
  OBVIOUS
<1>2. Append(s, x) \in [1..Len(Append(s, x)) -> S]
  <2>1. PICK t : t = Append(s, x)
    OBVIOUS
  <2>2. t \in Seq(S)
    BY <2>1
  <2>3. t \in [1..Len(t) -> S]
    BY <2>2
  <2> QED BY <2>1, <2>3
<1> QED BY <1>1, <1>2

\* What is stored after one more buffered write.
LEMMA BufferedStored ==
    ASSUME Stored, NEW p, Sound(appended, p), ~p.quarantined,
           blobs' = Append(blobs, p), appended' = appended
    PROVE  Stored' /\ ~Current'.quarantined
<1> DEFINE S == {blobs[i] : i \in 1..Len(blobs)} \cup {p}
<1>1. Len(blobs) \in Nat \ {0} /\ blobs \in Seq(S) /\ p \in S
  BY DEF Stored
<1> HIDE DEF S
<1>2. /\ Len(blobs') = Len(blobs) + 1
      /\ \A i \in 1..Len(blobs) : blobs'[i] = blobs[i]
      /\ blobs'[Len(blobs) + 1] = p
      /\ blobs' = [i \in 1..(Len(blobs) + 1) |-> blobs'[i]]
  BY <1>1, Appended
<1>3. Len(blobs') \in Nat \ {0} /\ blobs' = [i \in 1..Len(blobs') |-> blobs'[i]]
  BY <1>1, <1>2
<1>4. \A i \in 1..Len(blobs') : i = Len(blobs) + 1 \/ i \in 1..Len(blobs)
  BY <1>1, <1>2
<1>5. \A i \in 1..Len(blobs') : Sound(appended', blobs'[i])
  BY <1>2, <1>4 DEF Stored
<1>6. \A i \in 2..Len(blobs') : ~blobs'[i].quarantined
  <2>1. \A i \in 2..Len(blobs') : i = Len(blobs) + 1 \/ i \in 2..Len(blobs)
    BY <1>1, <1>2
  <2>2. \A i \in 2..Len(blobs) : i \in 1..Len(blobs)
    BY <1>1
  <2> QED BY <1>2, <2>1, <2>2 DEF Stored
<1> QED BY <1>2, <1>3, <1>5, <1>6 DEF Stored, Current

\* What is stored when one projection is.
LEMMA SingleStored ==
    ASSUME NEW p, Sound(appended', p), blobs' = <<p>>
    PROVE  Stored' /\ Current' = p
<1>1. Len(blobs') = 1 /\ blobs'[1] = p /\ blobs' = [i \in 1..1 |-> blobs'[i]]
  OBVIOUS
<1>2. 1..Len(blobs') = {1} /\ 2..Len(blobs') = {} /\ Len(blobs') \in Nat \ {0}
  BY <1>1
<1> QED BY <1>1, <1>2 DEF Stored, Current

\* What is current is stored.
LEMMA CurrentSound ==
    ASSUME Stored
    PROVE  Sound(appended, Current)
BY DEF Stored, Current

\* The empty projection is that of the empty log.
LEMMA EmptySound ==
    ASSUME Len(appended) \in Nat
    PROVE  Sound(appended, EmptyProjection) /\ ~EmptyProjection.quarantined
<1>1. IsNewest(appended, <<>>, 0)
  BY EmptyNewest
<1> QED BY <1>1 DEF Sound, EmptyProjection

\* Outside the claim log nothing moves a position.
LEMMA KeepRecorded ==
    ASSUME Recorded, Keep
    PROVE  Recorded' /\ appended' = appended /\ index' = index
BY DEF Recorded, Keep

LEMMA WriteKeeps ==
    ASSUME PositionsHold, ProjectionInv, NEW form \in {AppendForm, CommitForm},
           NEW batch \in Batches, Write(form, batch)
    PROVE  ProjectionInv'
<1>1. /\ Recorded' /\ Len(appended') = Len(appended) + Len(batch) /\ Len(batch) \in Nat
      /\ \A i \in 1..Len(appended) : appended'[i] = appended[i]
  BY WriteRecords DEF ProjectionInv
<1>2. Len(appended) \in Nat /\ Len(appended') \in Nat /\ Len(appended) <= Len(appended')
  BY <1>1 DEF ProjectionInv, Recorded
<1>3. PICK longer : longer = appended'
  OBVIOUS
<1>4. /\ \A p : Sound(appended, p) => Sound(longer, p)
      /\ \A cs, a, b : IsPart(appended, cs, a, b) => IsPart(longer, cs, a, b)
  BY <1>1, <1>2, <1>3, SoundExtends
<1>5. blobs' = <<Current>> /\ task' = task
  BY DEF Write, Synced, Current
<1>6. Stored' /\ Current' = Current
  <2>1. Sound(longer, Current)
    BY <1>4, CurrentSound DEF ProjectionInv
  <2>2. PICK p : p = Current
    OBVIOUS
  <2> QED BY <1>3, <1>5, <2>1, <2>2, SingleStored
<1>7. Tasked'
  <2> SUFFICES ASSUME task' # NoTask PROVE Tasked'
    BY DEF Tasked
  <2>1. task # NoTask /\ Tasked
    BY <1>5 DEF ProjectionInv
  <2>2. Sound(longer, task.projection) /\ task.to \in task.projection.watermark..Len(longer)
    BY <1>2, <1>3, <1>4, <2>1 DEF Tasked, Sound
  <2>3. task.stage = "read" =>
          IsPart(longer, task.interval,
                 IF task.op = "ground" THEN 0 ELSE task.projection.watermark, task.to)
    BY <1>4, <2>1 DEF Tasked
  <2> QED BY <1>3, <1>5, <1>6, <2>1, <2>2, <2>3 DEF Tasked
<1> QED BY <1>1, <1>6, <1>7 DEF ProjectionInv

LEMMA LoadKeeps ==
    ASSUME ProjectionInv, NEW kind \in {"rebuild", "ground"}, Load(kind)
    PROVE  ProjectionInv'
<1>1. /\ Recorded' /\ appended' = appended /\ blobs' = blobs /\ Stored'
  BY KeepRecorded DEF Load, ProjectionInv, Stored
<1>2. Sound(appended, Current) /\ Len(appended) \in Nat
  BY CurrentSound DEF ProjectionInv, Recorded
<1>3. Current' = Current /\ ~Current.quarantined
  BY <1>1 DEF Current, Load
<1>4. task' = [op |-> kind, stage |-> "loaded", projection |-> Current, to |-> Current.watermark,
               interval |-> <<>>]
  BY DEF Load
<1>5. Current.watermark \in Current.watermark..Len(appended)
  BY <1>2 DEF Sound
<1>6. Tasked'
  BY <1>1, <1>2, <1>3, <1>4, <1>5 DEF Tasked
<1> QED BY <1>1, <1>6 DEF ProjectionInv

LEMMA StartResetKeeps ==
    ASSUME ProjectionInv, StartReset
    PROVE  ProjectionInv'
<1>1. /\ Recorded' /\ appended' = appended /\ blobs' = blobs /\ Stored'
  BY KeepRecorded DEF StartReset, ProjectionInv, Stored
<1>2. Len(appended) \in Nat
  BY DEF ProjectionInv, Recorded
<1>3. Sound(appended, EmptyProjection) /\ ~EmptyProjection.quarantined
      /\ EmptyProjection.watermark = 0
  BY <1>2, EmptySound DEF EmptyProjection
<1>4. task' = [op |-> "reset", stage |-> "loaded", projection |-> EmptyProjection, to |-> 0,
               interval |-> <<>>]
  BY DEF StartReset
<1>5. Tasked'
  BY <1>1, <1>2, <1>3, <1>4 DEF Tasked
<1> QED BY <1>1, <1>5 DEF ProjectionInv

\* What reading does to a task: it goes on with a part of the log.
LEMMA TaskReads ==
    ASSUME ProjectionInv, task # NoTask, NEW stage, NEW to, NEW interval,
           task' = [task EXCEPT !.stage = stage, !.to = to, !.interval = interval],
           to \in task.projection.watermark..Len(appended),
           task.op = "ground" => to = task.projection.watermark,
           stage = "read" => IsPart(appended, interval,
                               IF task.op = "ground" THEN 0 ELSE task.projection.watermark, to),
           blobs' = blobs, Keep
    PROVE  ProjectionInv'
<1>1. /\ Recorded' /\ appended' = appended /\ Stored'
  BY KeepRecorded DEF ProjectionInv, Stored
<1>2. Tasked /\ Current' = Current
  BY DEF ProjectionInv, Current
<1>3. /\ DOMAIN task' = DOMAIN task /\ task'.op = task.op /\ task'.projection = task.projection
      /\ task'.stage = stage /\ task'.to = to /\ task'.interval = interval
  BY <1>2 DEF Tasked
<1>4. Tasked'
  BY <1>1, <1>2, <1>3 DEF Tasked
<1> QED BY <1>1, <1>4 DEF ProjectionInv

LEMMA ReadSequenceKeeps ==
    ASSUME ProjectionInv, ReadSequence
    PROVE  ProjectionInv'
<1>1. task # NoTask /\ task.op \in {"rebuild", "reset"} /\ blobs' = blobs /\ Keep
  BY DEF ReadSequence, At
<1>2. Tasked /\ Len(index) = Len(appended) /\ Len(appended) \in Nat
  BY DEF ProjectionInv, Recorded
<1>3. Len(index) \in task.projection.watermark..Len(appended)
  BY <1>1, <1>2 DEF Tasked, Sound
<1>4. task' = [task EXCEPT !.stage = "bounded", !.to = Len(index), !.interval = task.interval]
  BY <1>1, <1>2 DEF ReadSequence, Tasked
<1> QED BY <1>1, <1>3, <1>4, TaskReads

LEMMA ReadIntervalKeeps ==
    ASSUME ProjectionInv, ReadInterval
    PROVE  ProjectionInv'
<1> DEFINE part == ClaimsInRange(task.projection.watermark, task.to)
<1>1. task # NoTask /\ task.op \in {"rebuild", "reset"} /\ blobs' = blobs /\ Keep
  BY DEF ReadInterval, At
<1>2. Tasked /\ Recorded /\ Len(index) = Len(appended) /\ Len(appended) \in Nat
  BY DEF ProjectionInv, Recorded
<1>3. /\ task.to \in task.projection.watermark..Len(appended)
      /\ task.projection.watermark \in Nat /\ task.to \in Nat
      /\ task.projection.watermark <= task.to /\ task.to <= Len(index)
  BY <1>1, <1>2 DEF Tasked, Sound
<1>4. IsPart(appended, part, task.projection.watermark, task.to)
  BY <1>2, <1>3, RangeIsPart
<1>5. task' = [task EXCEPT !.stage = "read", !.to = task.to, !.interval = part]
  BY <1>1, <1>2 DEF ReadInterval, Tasked
<1> HIDE DEF part
<1> QED BY <1>1, <1>3, <1>4, <1>5, TaskReads

LEMMA GroundReadKeeps ==
    ASSUME ProjectionInv, GroundRead
    PROVE  ProjectionInv'
<1> DEFINE part == ClaimsInRange(0, task.to)
<1>1. task # NoTask /\ task.op = "ground" /\ blobs' = blobs /\ Keep
  BY DEF GroundRead, At
<1>2. Tasked /\ Recorded /\ Len(index) = Len(appended) /\ Len(appended) \in Nat
  BY DEF ProjectionInv, Recorded
<1>3. /\ task.to \in task.projection.watermark..Len(appended)
      /\ task.to = task.projection.watermark
      /\ task.to \in Nat /\ 0 <= task.to /\ task.to <= Len(index)
  BY <1>1, <1>2 DEF Tasked, Sound
<1>4. IsPart(appended, part, 0, task.to)
  BY <1>2, <1>3, RangeIsPart
<1>5. task' = [task EXCEPT !.stage = "read", !.to = task.to, !.interval = part]
  BY <1>1, <1>2 DEF GroundRead, Tasked
<1> HIDE DEF part
<1> QED BY <1>1, <1>3, <1>4, <1>5, TaskReads

\* A task that ends leaves one projection to judge.
LEMMA TaskEnds ==
    ASSUME Recorded, Keep, task' = NoTask, Stored'
    PROVE  ProjectionInv'
BY KeepRecorded DEF ProjectionInv, Tasked

LEMMA PutRebuiltKeeps ==
    ASSUME ProjectionInv, PutRebuilt
    PROVE  ProjectionInv'
<1> DEFINE old == task.projection
           p == [old EXCEPT !.watermark = task.to, !.entries = Fold(old.entries, task.interval)]
<1>1. /\ task # NoTask /\ task.op \in {"rebuild", "reset"} /\ task.stage = "read"
      /\ blobs' = Append(blobs, p) /\ task' = NoTask /\ Keep
  BY DEF PutRebuilt, At, PutBuffered
<1>2. Recorded /\ Stored /\ Tasked /\ appended' = appended
  BY <1>1, KeepRecorded DEF ProjectionInv
<1>3. /\ Sound(appended, old) /\ ~old.quarantined
      /\ task.to \in old.watermark..Len(appended)
      /\ IsPart(appended, task.interval, old.watermark, task.to)
  BY <1>1, <1>2 DEF Tasked
<1>4. /\ DOMAIN p = DOMAIN EmptyProjection /\ p.watermark = task.to
      /\ p.entries = Fold(old.entries, task.interval) /\ p.drifted = old.drifted
      /\ p.last_grounded = old.last_grounded /\ p.quarantined = old.quarantined
  BY <1>3 DEF Sound, EmptyProjection
<1>5. IsLog(appended)
  BY <1>2, ClaimsAreLog DEF Recorded
<1>6. ~old.drifted => IsNewest(appended, Fold(old.entries, task.interval), task.to)
  BY <1>3, <1>5, FoldNewest DEF Sound
<1>7. task.to \in 0..Len(appended)
  BY <1>3, <1>5 DEF Sound, IsLog
<1> HIDE DEF p
<1>8. Sound(appended, p) /\ ~p.quarantined
  BY <1>3, <1>4, <1>6, <1>7 DEF Sound
<1>9. Stored'
  BY <1>1, <1>2, <1>8, BufferedStored
<1> QED BY <1>1, <1>2, <1>9, TaskEnds

\* What a grounding recomputes is the newest at the watermark of what it loaded.
LEMMA GroundRecomputes ==
    ASSUME ProjectionInv, At("ground", "read")
    PROVE  /\ IsLog(appended) /\ Sound(appended, task.projection) /\ ~task.projection.quarantined
           /\ IsNewest(appended, Recomputed, task.projection.watermark)
<1>1. /\ task # NoTask /\ task.op = "ground" /\ task.stage = "read"
  BY DEF At
<1>2. Recorded /\ Tasked
  BY DEF ProjectionInv
<1>3. /\ Sound(appended, task.projection) /\ ~task.projection.quarantined
      /\ IsPart(appended, task.interval, 0, task.projection.watermark)
  BY <1>1, <1>2 DEF Tasked
<1>4. IsLog(appended) /\ IsNewest(appended, <<>>, 0)
  BY <1>2, ClaimsAreLog, EmptyNewest DEF Recorded
<1> QED BY <1>3, <1>4, FoldNewest DEF Recomputed

LEMMA GroundPassesKeeps ==
    ASSUME ProjectionInv, GroundPasses
    PROVE  ProjectionInv'
<1> DEFINE old == task.projection
           p == [old EXCEPT !.last_grounded = Stamp(old)]
<1>1. /\ At("ground", "read") /\ Recomputed = old.entries
      /\ blobs' = Append(blobs, p) /\ task' = NoTask /\ Keep
  BY DEF GroundPasses, PutBuffered
<1>2. Recorded /\ Stored /\ appended' = appended
  BY <1>1, KeepRecorded DEF ProjectionInv
<1>3. /\ Sound(appended, old) /\ ~old.quarantined
      /\ IsNewest(appended, old.entries, old.watermark)
  BY <1>1, GroundRecomputes
<1>4. /\ DOMAIN p = DOMAIN EmptyProjection /\ p.watermark = old.watermark
      /\ p.entries = old.entries /\ p.drifted = old.drifted
      /\ p.last_grounded.sequence = old.watermark /\ p.last_grounded.digest = old.entries
      /\ p.quarantined = old.quarantined
  BY <1>3 DEF Sound, EmptyProjection, Stamp
<1> HIDE DEF p
<1>5. Sound(appended, p) /\ ~p.quarantined
  BY <1>3, <1>4 DEF Sound
<1>6. Stored'
  BY <1>1, <1>2, <1>5, BufferedStored
<1> QED BY <1>1, <1>2, <1>6, TaskEnds

LEMMA GroundDivergesKeeps ==
    ASSUME ProjectionInv, GroundDiverges
    PROVE  ProjectionInv'
<1> DEFINE old == task.projection
           p == [old EXCEPT !.quarantined = TRUE]
<1>1. /\ At("ground", "read") /\ Recomputed # old.entries
      /\ blobs' = <<p>> /\ task' = NoTask /\ Keep
  BY DEF GroundDiverges, PutAuthoritative
<1>2. Recorded /\ Stored /\ appended' = appended
  BY <1>1, KeepRecorded DEF ProjectionInv
<1>3. /\ IsLog(appended) /\ Sound(appended, old)
      /\ IsNewest(appended, Recomputed, old.watermark)
  BY <1>1, GroundRecomputes
<1>4. old.watermark \in Nat /\ old.watermark <= Len(appended)
  BY <1>3 DEF Sound, IsLog
<1>5. old.drifted
  <2> SUFFICES ASSUME ~old.drifted PROVE FALSE
    OBVIOUS
  <2>1. IsNewest(appended, old.entries, old.watermark)
    BY <1>3 DEF Sound
  <2> QED BY <1>1, <1>3, <1>4, <2>1, NewestUnique
<1>6. /\ DOMAIN p = DOMAIN EmptyProjection /\ p.watermark = old.watermark
      /\ p.entries = old.entries /\ p.drifted = old.drifted
      /\ p.last_grounded = old.last_grounded
  BY <1>3 DEF Sound, EmptyProjection
<1> HIDE DEF p
<1>7. Sound(appended', p)
  BY <1>2, <1>3, <1>5, <1>6 DEF Sound
<1>8. Stored'
  BY <1>1, <1>7, SingleStored
<1> QED BY <1>1, <1>2, <1>8, TaskEnds

LEMMA FlushKeeps ==
    ASSUME ProjectionInv, Flush
    PROVE  ProjectionInv'
<1>1. blobs' = <<Current>> /\ task' = task /\ Keep
  BY DEF Flush, Synced, Current
<1>2. Recorded' /\ appended' = appended /\ Tasked
  BY <1>1, KeepRecorded DEF ProjectionInv
<1>3. PICK p : p = Current
  OBVIOUS
<1>4. Sound(appended', p)
  BY <1>2, <1>3, CurrentSound DEF ProjectionInv
<1>5. Stored' /\ Current' = Current
  BY <1>1, <1>3, <1>4, SingleStored
<1>6. Tasked'
  BY <1>1, <1>2, <1>5 DEF Tasked
<1> QED BY <1>2, <1>5, <1>6 DEF ProjectionInv

LEMMA RestartKeeps ==
    ASSUME ProjectionInv, Restart
    PROVE  ProjectionInv'
<1>1. task' = NoTask /\ Keep
  BY DEF Restart
<1>2. Recorded /\ Stored /\ appended' = appended
  BY <1>1, KeepRecorded DEF ProjectionInv
<1>3. PICK i \in 1..Len(blobs) : blobs' = <<blobs[i]>>
  BY <1>2 DEF Restart, Stored
<1>4. PICK p : p = blobs[i]
  OBVIOUS
<1>5. Sound(appended', p) /\ blobs' = <<p>>
  BY <1>2, <1>3, <1>4 DEF Stored
<1>6. Stored'
  BY <1>5, SingleStored
<1> QED BY <1>1, <1>2, <1>6, TaskEnds

LEMMA DriftKeeps ==
    ASSUME ProjectionInv, NEW pair, NEW object, Drift(pair, object)
    PROVE  ProjectionInv'
<1> DEFINE p == [Current EXCEPT !.entries[pair].object = object, !.drifted = TRUE]
<1>1. /\ task = NoTask /\ task' = NoTask /\ Keep /\ ~Current.quarantined
      /\ blobs' = Append(blobs, p)
  BY DEF Drift, PutBuffered
<1>2. Recorded /\ Stored /\ appended' = appended
  BY <1>1, KeepRecorded DEF ProjectionInv
<1>3. Sound(appended, Current)
  BY <1>2, CurrentSound
<1>4. /\ DOMAIN p = DOMAIN EmptyProjection /\ p.watermark = Current.watermark
      /\ p.drifted = TRUE /\ p.quarantined = Current.quarantined
      /\ p.last_grounded = Current.last_grounded
  BY <1>3 DEF Sound, EmptyProjection
<1> HIDE DEF p
<1>5. Sound(appended, p) /\ ~p.quarantined
  BY <1>1, <1>3, <1>4 DEF Sound
<1>6. Stored'
  BY <1>1, <1>2, <1>5, BufferedStored
<1> QED BY <1>1, <1>2, <1>6, TaskEnds

-----------------------------------------------------------------------------
(* The theorems *)

\* Every stored projection, and the one a task holds, is sound in every state.
LEMMA ProjectionInvInductive ==
    ASSUME PositionsHold
    PROVE  Spec => []ProjectionInv
<1>1. Init => ProjectionInv
  <2> SUFFICES ASSUME Init PROVE ProjectionInv
    OBVIOUS
  <2>1. /\ appended = <<>> /\ index = <<>> /\ blobs = <<EmptyProjection>> /\ task = NoTask
    BY DEF Init
  <2>2. Recorded
    BY <2>1 DEF Recorded
  <2>3. Sound(appended, EmptyProjection)
    BY <2>1, EmptySound
  <2>4. Len(blobs) = 1 /\ blobs = [i \in 1..1 |-> blobs[i]] /\ blobs[1] = EmptyProjection
    BY <2>1
  <2>5. Stored
    BY <2>3, <2>4 DEF Stored
  <2> QED BY <2>1, <2>2, <2>5 DEF ProjectionInv, Tasked
<1>2. ProjectionInv /\ [Next]_vars => ProjectionInv'
  <2> SUFFICES ASSUME ProjectionInv, [Next]_vars
               PROVE  ProjectionInv'
    OBVIOUS
  <2>1. CASE UNCHANGED vars
    BY <2>1 DEF vars, ProjectionInv, Recorded, Stored, Tasked, Current
  <2>2. ASSUME NEW batch \in Batches, AppendBatch(batch) \/ CommitClaims(batch)
        PROVE  ProjectionInv'
    BY <2>2, WriteKeeps DEF AppendBatch, CommitClaims
  <2>3. CASE Load("rebuild") \/ Load("ground")
    BY <2>3, LoadKeeps
  <2>4. ASSUME NEW pair \in Pairs, NEW object \in Objects, Drift(pair, object)
        PROVE  ProjectionInv'
    BY <2>4, DriftKeeps
  <2> QED
    BY <2>1, <2>2, <2>3, <2>4, StartResetKeeps, ReadSequenceKeeps, ReadIntervalKeeps,
       PutRebuiltKeeps, GroundReadKeeps, GroundPassesKeeps, GroundDivergesKeeps, FlushKeeps,
       RestartKeeps
    DEF Next
<1> QED BY <1>1, <1>2, PTL DEF Spec

\* Whatever was appended or committed between the steps of a rebuild, a reset or a
\* grounding, and whatever writes a restart lost, a stored projection that nobody altered
\* holds the newest claim of each pair up to its watermark, and a grounding stamp is true
\* of the log (rebuild_current, reset_current, ground_current, CurrentProjection::apply).
\* The positions of the sequence index must hold: an engine that stores keys there relies
\* on keys not being written again.
THEOREM IncrementalIsBatch ==
    ASSUME PositionsHold
    PROVE  Spec => []ProjectionIsNewest
<1>1. ASSUME ProjectionInv
      PROVE  ProjectionIsNewest
  <2>1. /\ IsLog(appended) /\ DOMAIN blobs = 1..Len(blobs)
        /\ \A i \in 1..Len(blobs) : Sound(appended, blobs[i])
    BY <1>1, ClaimsAreLog DEF ProjectionInv, Recorded, Stored
  <2>2. ASSUME NEW i \in DOMAIN blobs
        PROVE  /\ ~blobs[i].drifted => blobs[i].entries = NewestOf(blobs[i].watermark)
               /\ blobs[i].last_grounded # NoStamp =>
                    blobs[i].last_grounded.digest = NewestOf(blobs[i].last_grounded.sequence)
    <3>1. Sound(appended, blobs[i]) /\ Len(appended) \in Nat
      BY <2>1 DEF IsLog
    <3>2. ASSUME NEW f, NEW n \in 0..Len(appended), IsNewest(appended, f, n)
          PROVE  f = NewestOf(n)
      BY <2>1, <3>1, <3>2, NewestIsNewestOf
    <3> QED BY <3>1, <3>2 DEF Sound
  <2> QED BY <2>2 DEF ProjectionIsNewest
<1> QED BY <1>1, ProjectionInvInductive, PTL

\* A projection that merely lags behind the log, or that a restart took back to an earlier
\* write, is never reported as diverged: grounding quarantines only what was altered from
\* outside (ground_current).
THEOREM LagIsNotDrift ==
    ASSUME PositionsHold
    PROVE  Spec => []OnlyDriftDiverges
<1>1. ProjectionInv => OnlyDriftDiverges
  BY DEF ProjectionInv, Stored, Sound, OnlyDriftDiverges
<1> QED BY <1>1, ProjectionInvInductive, PTL

\* A quarantine is left only by the last step of a reset: neither a restart nor a rebuild
\* or grounding that was under way undoes it (ground_current writes it authoritatively,
\* rebuild_current refuses a quarantined projection).
THEOREM QuarantineHolds ==
    ASSUME PositionsHold
    PROVE  Spec => QuarantineSticks
<1>1. ProjectionInv /\ [Next]_vars => [LeftByReset]_vars
  <2> SUFFICES ASSUME ProjectionInv, Next, Current.quarantined, ~Current'.quarantined
               PROVE  At("reset", "read")
    BY DEF LeftByReset
  <2>1. Stored /\ Tasked
    BY DEF ProjectionInv
  <2>2. Len(blobs) = 1 /\ DOMAIN blobs = {1} /\ Current = blobs[1]
    BY <2>1 DEF Stored, Current
  <2>3. blobs' # blobs /\ blobs' # <<Current>>
    BY DEF Current
  <2>4. /\ ~Flush /\ ~Restart /\ \A form, batch : ~Write(form, batch)
    BY <2>2, <2>3 DEF Flush, Restart, Write, Synced, Current
  <2>5. \A pair, object : ~Drift(pair, object)
    BY DEF Drift
  <2>6. /\ ~Load("rebuild") /\ ~Load("ground") /\ ~StartReset /\ ~ReadSequence
        /\ ~ReadInterval /\ ~GroundRead
    BY <2>3 DEF Load, StartReset, ReadSequence, ReadInterval, GroundRead
  <2>7. ~GroundPasses /\ ~GroundDiverges
    BY <2>1 DEF GroundPasses, GroundDiverges, At, Tasked
  <2>8. PutRebuilt
    BY <2>4, <2>5, <2>6, <2>7 DEF Next, AppendBatch, CommitClaims
  <2> QED BY <2>1, <2>8 DEF PutRebuilt, At, Tasked
<1> QED BY <1>1, ProjectionInvInductive, PTL DEF Spec, QuarantineSticks

-----------------------------------------------------------------------------
(***************************************************************************)
(* Leases on runtime snapshots (module SnapshotLease).  A lease is granted *)
(* only when its record and its checkpoint are both there, and what takes  *)
(* either away, a release, a failed pin or a reconciliation, takes it from *)
(* a lease that is released, was not granted or has expired.               *)
(***************************************************************************)

CONSTANTS Owners, Ttls, MaxHead, MaxClock, MaxFaults
VARIABLES head, manifest, files, records, pins, op, granted, clock, faults

Lease == INSTANCE SnapshotLease

\* A handle is for a cursor of the log and has an end.
HandlesOK ==
    /\ head \in Nat /\ clock \in Nat
    /\ \A h \in records : h.cursor \in Nat /\ h.cursor <= head
    /\ \A h \in records \cup granted : h.expires \in Nat

\* A checkpoint covers its lease's cursor and its files are there.
PinsOK ==
    /\ manifest \in files
    /\ \A p \in pins : p[2] \in files /\ p[2] >= p[1].cursor

\* What is granted and has not expired is recorded and pinned, whatever is under way.
GrantsHold ==
    \A h \in granted : ~Lease!IsExpired(h, clock) => h \in records /\ h \in Lease!Pinned

\* What the operation under way may still add or take away.
OpOK ==
    /\ op.pc \in {"idle", "closed", "flush", "checkpoint", "grant", "unpin", "reconcile", "collect"}
    /\ op.pc = "idle" => op = Lease!Idle
    /\ op.pc \in {"flush", "checkpoint", "grant"} =>
         /\ DOMAIN op = {"pc", "handle", "new"} /\ op.handle \in records
         /\ op.new /\ op.handle \in granted => op.pc = "grant" \/ Lease!IsExpired(op.handle, clock)
    /\ op.pc = "checkpoint" => manifest = head
    /\ op.pc = "grant" => op.handle \in Lease!Pinned
    /\ op.pc = "unpin" => op.handle \notin granted
    /\ op.pc = "reconcile" =>
         /\ op.desired \subseteq records
         /\ \A h \in granted : ~Lease!IsExpired(h, clock) => h \in op.desired

LeaseInv == HandlesOK /\ PinsOK /\ GrantsHold /\ OpOK

\* A lease that was granted, not released and not expired keeps a checkpoint whose files
\* exist and which covers its cursor, through failures between the record and the
\* checkpoint, restarts, and every collection (open_runtime_snapshot,
\* release_runtime_snapshot, reconcile_runtime_checkpoints).
THEOREM LeasesHold ==
    ASSUME Ttls \subseteq Nat
    PROVE  Lease!Spec => []Lease!LeaseProtectsHistory
<1> USE DEF Lease!Idle, Lease!Closed, Lease!IsExpired, Lease!Pinned
<1>1. Lease!Init => LeaseInv
  BY DEF Lease!Init, LeaseInv, HandlesOK, PinsOK, GrantsHold, OpOK
<1>2. LeaseInv /\ [Lease!Next]_(Lease!vars) => LeaseInv'
  <2> SUFFICES ASSUME LeaseInv, [Lease!Next]_(Lease!vars)
               PROVE  LeaseInv'
    OBVIOUS
  <2> USE DEF LeaseInv, HandlesOK, PinsOK, GrantsHold, OpOK
  <2>1. CASE UNCHANGED Lease!vars
    BY <2>1 DEF Lease!vars
  <2>2. CASE Lease!Commit
    BY <2>2 DEF Lease!Commit
  <2>3. CASE Lease!Tick
    BY <2>3 DEF Lease!Tick
  <2>4. CASE Lease!OpenLease
    <3>1. PICK owner \in Owners, ttl \in Ttls :
            LET h == Lease!Handle(owner, ttl)
            IN  /\ records' = records \cup {h}
                /\ op' = [pc |-> IF h \in Lease!Pinned THEN "grant" ELSE "flush", handle |-> h,
                          new |-> h \notin records]
      BY <2>4 DEF Lease!OpenLease
    <3> DEFINE h == Lease!Handle(owner, ttl)
    <3>2. UNCHANGED <<head, manifest, files, pins, granted, clock, faults>>
      BY <2>4 DEF Lease!OpenLease
    <3>3. h.cursor = head /\ h.expires \in Nat
      BY DEF Lease!Handle
    <3>4. h \in granted /\ h \notin records => Lease!IsExpired(h, clock)
      OBVIOUS
    <3> HIDE DEF h
    <3>5. /\ records' = records \cup {h} /\ op'.handle = h /\ DOMAIN op' = {"pc", "handle", "new"}
          /\ op'.pc \in {"flush", "grant"} /\ (op'.pc = "grant" => h \in Lease!Pinned)
          /\ op'.new = (h \notin records)
      BY <3>1 DEF h
    <3>6. HandlesOK' /\ PinsOK'
      BY <3>2, <3>3, <3>5
    <3>7. GrantsHold' /\ OpOK'
      BY <3>2, <3>3, <3>4, <3>5
    <3> QED BY <3>6, <3>7
  <2>5. CASE Lease!FlushForLease
    BY <2>5 DEF Lease!FlushForLease
  <2>6. CASE Lease!CheckpointLease
    <3>1. /\ op.pc = "checkpoint" /\ pins' = pins \cup {<<op.handle, manifest>>}
          /\ op' = [op EXCEPT !.pc = "grant"]
          /\ UNCHANGED <<head, manifest, files, records, granted, clock, faults>>
      BY <2>6 DEF Lease!CheckpointLease
    <3>2. /\ op'.pc = "grant" /\ op'.handle = op.handle /\ DOMAIN op' = DOMAIN op
          /\ op.handle.cursor <= manifest
      BY <3>1
    <3>3. op.handle \in Lease!Pinned' /\ Lease!Pinned \subseteq Lease!Pinned'
      BY <3>1
    <3>4. HandlesOK' /\ PinsOK'
      BY <3>1, <3>2
    <3>5. GrantsHold' /\ OpOK'
      BY <3>1, <3>2, <3>3
    <3> QED BY <3>4, <3>5
  <2>7. CASE Lease!Grant
    BY <2>7 DEF Lease!Grant
  <2>8. CASE Lease!PinFails
    BY <2>8 DEF Lease!PinFails
  <2>9. CASE Lease!Release
    BY <2>9 DEF Lease!Release
  <2>10. CASE Lease!Unpin
    BY <2>10 DEF Lease!Unpin
  <2>11. CASE Lease!StartReconcile
    BY <2>11 DEF Lease!StartReconcile
  <2>12. CASE Lease!AddPin
    BY <2>12 DEF Lease!AddPin
  <2>13. CASE Lease!DropPin
    BY <2>13 DEF Lease!DropPin
  <2>14. CASE Lease!Reconciled
    BY <2>14 DEF Lease!Reconciled
  <2>15. CASE Lease!Collect
    BY <2>15 DEF Lease!Collect, Lease!Retained
  <2>16. CASE Lease!Interrupt
    BY <2>16 DEF Lease!Interrupt
  <2>17. CASE Lease!Crash
    BY <2>17 DEF Lease!Crash
  <2> QED
    BY <2>1, <2>2, <2>3, <2>4, <2>5, <2>6, <2>7, <2>8, <2>9, <2>10, <2>11, <2>12, <2>13,
       <2>14, <2>15, <2>16, <2>17
    DEF Lease!Next
<1>3. LeaseInv => Lease!LeaseProtectsHistory
  BY DEF LeaseInv, PinsOK, GrantsHold, Lease!LeaseProtectsHistory
<1> QED BY <1>1, <1>2, <1>3, PTL DEF Lease!Spec

-----------------------------------------------------------------------------
(***************************************************************************)
(* The object tier (module ObjectTier).  An object leaves when it has      *)
(* rotted, when nothing refers to it or is about to, or when a writer that *)
(* once found its digest corrupt moves it, whole, to quarantine; a         *)
(* transaction is in the log at the cursor it was built on, hence once.    *)
(***************************************************************************)

CONSTANTS Digests, Writers, MaxCommits
VARIABLES backend, objects, olog, writer, rotted, lost, kept, stranded, ofaults

Object == INSTANCE ObjectTier WITH log <- olog, faults <- ofaults

\* A writer at work has a digest; one that quarantines has seen rot.
WritersOK ==
    /\ writer = [w \in Writers |-> writer[w]]
    /\ \A w \in Writers :
         /\ DOMAIN writer[w] = {"pc", "digest", "cursor"}
         /\ writer[w].pc # "idle" => writer[w].digest \in Digests
         /\ writer[w].pc \in {"quarantine", "rename"} => writer[w].digest \in rotted

\* An object is absent, whole or has rotted.
ObjectsOK ==
    /\ objects \in [Digests -> {"none", "good", "rotten"}]
    /\ \A d \in Digests : objects[d] = "rotten" => d \in rotted

\* An object that is whole, was lost by the medium, or has been moved, whole, by another
\* writer of its digest.
Accounted(d) == objects[d] = "good" \/ d \in lost \/ Object!Displaced(d)

\* So is what the log refers to, or a verified transaction is about to.
Reachable ==
    /\ \A i \in 1..Len(olog) : Accounted(olog[i].digest)
    /\ \A w \in Writers : writer[w].pc = "commit" => Accounted(writer[w].digest)

Transactions == [digest : Digests, cursor : Nat]

\* A transaction is at the cursor it was built on.
InTurn ==
    /\ olog \in Seq(Transactions)
    /\ \A i \in 1..Len(olog) : olog[i].cursor = i - 1

ObjectInv == WritersOK /\ ObjectsOK /\ Reachable /\ InTurn

LEMMA LogShape ==
    ASSUME InTurn
    PROVE  /\ Len(olog) \in Nat /\ DOMAIN olog = 1..Len(olog)
           /\ \A i \in 1..Len(olog) : olog[i].digest \in Digests
<1>1. /\ Len(olog) \in Nat /\ DOMAIN olog = 1..Len(olog)
      /\ \A i \in 1..Len(olog) : olog[i] \in Transactions
  BY DEF InTurn
<1>2. \A t \in Transactions : t.digest \in Digests
  BY DEF Transactions
<1> QED BY <1>1, <1>2

\* One writer moves on or fails, the others stay where they are.
Moves(w, pc) ==
    /\ writer' = [v \in Writers |-> writer'[v]]
    /\ \A v \in Writers : v # w => writer'[v] = writer[v]
    /\ DOMAIN writer'[w] = {"pc", "digest", "cursor"}
    /\ writer'[w].pc = pc
    /\ pc # "idle" => writer'[w].digest = writer[w].digest

LEMMA GoMoves ==
    ASSUME WritersOK, NEW w \in Writers
    PROVE  /\ \A pc : Object!Go(w, pc) => Moves(w, pc)
           /\ Object!Fail(w) => Moves(w, "idle")
BY DEF WritersOK, Moves, Object!Go, Object!Fail, Object!Idle

\* What a writer places lies under its digest, and nothing else changes.
LEMMA PlaceOne ==
    ASSUME ObjectsOK, NEW d \in Digests, NEW what \in {"none", "good", "rotten"},
           objects' = [objects EXCEPT ![d] = what]
    PROVE  /\ objects' \in [Digests -> {"none", "good", "rotten"}] /\ objects'[d] = what
           /\ \A e \in Digests : e # d => objects'[e] = objects[e]
BY DEF ObjectsOK

\* A writer's step outside the log keeps the invariant when it loses account of no object
\* and when what it is about to commit is whole.
LEMMA WriterStep ==
    ASSUME ObjectInv, NEW w \in Writers, writer[w].pc # "idle", NEW pc, Moves(w, pc),
           UNCHANGED <<olog, rotted>>, ObjectsOK',
           pc \in {"quarantine", "rename"} => writer[w].digest \in rotted,
           pc = "commit" => objects[writer[w].digest] = "good",
           \A e \in Digests : Accounted(e) => Accounted(e)'
    PROVE  ObjectInv'
<1> DEFINE d == writer[w].digest
<1>1. WritersOK /\ ObjectsOK /\ Reachable /\ InTurn /\ d \in Digests
  BY DEF ObjectInv, WritersOK
<1>2. WritersOK'
  BY <1>1 DEF WritersOK, Moves
<1>3. \A i \in 1..Len(olog) : olog[i].digest \in Digests
  BY <1>1, LogShape
<1>4. Reachable'
  <2>1. \A i \in 1..Len(olog) : Accounted(olog[i].digest)'
    <3> SUFFICES ASSUME NEW i \in 1..Len(olog) PROVE Accounted(olog[i].digest)'
      OBVIOUS
    <3>1. olog[i].digest \in Digests /\ Accounted(olog[i].digest) /\ olog'[i] = olog[i]
      BY <1>1, <1>3 DEF Reachable
    <3> QED BY <3>1 DEF Accounted
  <2>2. ASSUME NEW v \in Writers, writer'[v].pc = "commit"
        PROVE  Accounted(writer[v].digest)'
    <3>1. CASE v = w
      <4>1. Accounted(d) /\ writer'[v].digest = d
        BY <2>2, <3>1 DEF Moves, Accounted
      <4> QED BY <1>1, <3>1, <4>1 DEF Accounted
    <3>2. CASE v # w
      <4>1. writer'[v] = writer[v] /\ writer[v].digest \in Digests
        BY <1>1, <2>2, <3>2 DEF Moves, WritersOK
      <4>2. Accounted(writer[v].digest)
        BY <1>1, <2>2, <4>1 DEF Reachable
      <4> QED BY <4>1, <4>2 DEF Accounted
    <3> QED BY <3>1, <3>2
  <2> QED BY <2>1, <2>2 DEF Reachable
<1>5. InTurn'
  BY <1>1 DEF InTurn
<1> QED BY <1>2, <1>4, <1>5 DEF ObjectInv

\* A writer that is not between two renames and touches nothing.
LEMMA QuietStep ==
    ASSUME ObjectInv, NEW w \in Writers, writer[w].pc \notin {"idle", "rename"}, NEW pc, Moves(w, pc),
           UNCHANGED <<olog, objects, rotted, lost, kept, stranded>>,
           pc = "quarantine" => writer[w].digest \in rotted, pc # "rename",
           pc = "commit" => objects[writer[w].digest] = "good"
    PROVE  ObjectInv'
<1>1. ObjectsOK'
  BY DEF ObjectInv, ObjectsOK
<1>2. ASSUME NEW e \in Digests, Accounted(e) PROVE Accounted(e)'
  <2>1. CASE Object!Displaced(e)
    <3>1. \A v \in Writers : writer[v].pc = "rename" => writer'[v] = writer[v]
      BY DEF Moves
    <3>2. Object!Displaced(e)'
      BY <2>1, <3>1 DEF Object!Displaced, Object!At
    <3> QED BY <3>2 DEF Accounted
  <2> QED BY <1>2, <2>1 DEF Accounted
<1> QED BY <1>1, <1>2, WriterStep

\* A writer puts whole bytes in place.
LEMMA InstallStep ==
    ASSUME ObjectInv, NEW w \in Writers, writer[w].pc # "idle", Moves(w, "verify"),
           Object!Install(w), UNCHANGED olog
    PROVE  ObjectInv'
<1> DEFINE d == writer[w].digest
<1>1. WritersOK /\ ObjectsOK /\ d \in Digests
  BY DEF ObjectInv, WritersOK
<1>2. /\ objects' = [objects EXCEPT ![d] = "good"] /\ UNCHANGED <<rotted, kept>>
      /\ lost' = lost \ {d} /\ stranded' = stranded \ {d}
  BY DEF Object!Install, Object!Place
<1> HIDE DEF d
<1>3. /\ objects' \in [Digests -> {"none", "good", "rotten"}] /\ objects'[d] = "good"
      /\ \A e \in Digests : e # d => objects'[e] = objects[e]
  BY <1>1, <1>2, PlaceOne
<1>4. ObjectsOK'
  BY <1>1, <1>2, <1>3 DEF ObjectsOK
<1>5. ASSUME NEW e \in Digests, Accounted(e) PROVE Accounted(e)'
  <2>1. CASE e = d
    BY <1>3, <2>1 DEF Accounted
  <2>2. CASE e # d /\ Object!Displaced(e)
    <3>1. \A v \in Writers : writer[v].digest = e => writer'[v] = writer[v]
      BY <2>2 DEF Moves, d
    <3>2. Object!Displaced(e)'
      BY <1>2, <1>3, <2>2, <3>1 DEF Object!Displaced, Object!At
    <3> QED BY <3>2 DEF Accounted
  <2>3. CASE e # d /\ ~Object!Displaced(e)
    BY <1>2, <1>3, <1>5, <2>3 DEF Accounted
  <2> QED BY <2>1, <2>2, <2>3
<1> QED BY <1>2, <1>4, <1>5, WriterStep

\* A writer that found the object corrupt moves what is there now out of the way: whole
\* bytes are kept, and corrupt ones that something refers to the medium had lost.
LEMMA QuarantineStep ==
    ASSUME ObjectInv, NEW w \in Writers, Object!Quarantine(w), objects[writer[w].digest] # "none"
    PROVE  ObjectInv'
<1> DEFINE d == writer[w].digest
<1>1. WritersOK /\ ObjectsOK /\ writer[w].pc = "quarantine" /\ d \in Digests /\ d \in rotted
  BY DEF ObjectInv, WritersOK, Object!Quarantine, Object!At
<1>2. /\ objects' = [objects EXCEPT ![d] = "none"] /\ UNCHANGED <<olog, rotted, lost, stranded>>
      /\ kept \subseteq kept' /\ (objects[d] = "good" => d \in kept')
      /\ Object!Go(w, "rename")
  BY DEF Object!Quarantine, Object!Place, Object!Now
<1>3. Moves(w, "rename")
  BY <1>1, <1>2, GoMoves
<1>4. writer'[w].pc = "rename" /\ writer'[w].digest = d
  BY <1>3 DEF Moves
<1> HIDE DEF d
<1>5. /\ objects' \in [Digests -> {"none", "good", "rotten"}] /\ objects'[d] = "none"
      /\ \A e \in Digests : e # d => objects'[e] = objects[e]
  BY <1>1, <1>2, PlaceOne
<1>6. ObjectsOK'
  BY <1>1, <1>2, <1>5 DEF ObjectsOK
<1>7. ASSUME NEW e \in Digests, Accounted(e) PROVE Accounted(e)'
  <2>1. CASE e = d /\ objects[d] = "good"
    <3>1. Object!Displaced(e)'
      BY <1>1, <1>2, <1>4, <1>5, <2>1 DEF Object!Displaced, Object!At
    <3> QED BY <2>1, <3>1 DEF Accounted
  <2>2. CASE e = d /\ objects[d] # "good"
    <3>1. d \in lost
      BY <1>7, <2>2 DEF Accounted, Object!Displaced, d
    <3> QED BY <1>2, <2>2, <3>1 DEF Accounted
  <2>3. CASE e # d /\ Object!Displaced(e)
    <3>1. \A v \in Writers : writer[v].digest = e => writer'[v] = writer[v]
      BY <1>3, <2>3 DEF Moves, d
    <3>2. Object!Displaced(e)'
      BY <1>2, <1>5, <2>3, <3>1 DEF Object!Displaced, Object!At
    <3> QED BY <3>2 DEF Accounted
  <2>4. CASE e # d /\ ~Object!Displaced(e)
    BY <1>2, <1>5, <1>7, <2>4 DEF Accounted
  <2> QED BY <2>1, <2>2, <2>3, <2>4
<1> QED BY <1>1, <1>2, <1>3, <1>6, <1>7, WriterStep DEF d

\* A writer dies; between two renames it leaves its digest absent.
LEMMA CrashStep ==
    ASSUME ObjectInv, NEW w \in Writers, Object!Crash(w), writer[w].pc # "idle"
    PROVE  ObjectInv'
<1> DEFINE d == writer[w].digest
<1>1. /\ Moves(w, "idle") /\ UNCHANGED <<olog, objects, rotted, lost, kept>>
      /\ stranded \subseteq stranded' /\ (writer[w].pc = "rename" => d \in stranded')
  BY GoMoves DEF Object!Crash, Object!At, ObjectInv
<1>2. ObjectsOK'
  BY <1>1 DEF ObjectInv, ObjectsOK
<1>3. ASSUME NEW e \in Digests, Accounted(e) PROVE Accounted(e)'
  <2>1. CASE Object!Displaced(e)
    <3>1. \A v \in Writers : v # w => writer'[v] = writer[v]
      BY <1>1 DEF Moves
    <3>2. Object!Displaced(e)'
      BY <1>1, <2>1, <3>1 DEF Object!Displaced, Object!At
    <3> QED BY <3>2 DEF Accounted
  <2> QED BY <1>1, <1>3, <2>1 DEF Accounted
<1> QED BY <1>1, <1>2, <1>3, WriterStep

LEMMA StageKeeps ==
    ASSUME ObjectInv, NEW w \in Writers, Object!Stage(w)
    PROVE  ObjectInv'
<1>1. /\ WritersOK /\ ObjectsOK /\ Reachable /\ InTurn /\ writer[w].pc = "idle"
      /\ UNCHANGED <<olog, objects, rotted, lost, kept, stranded>>
  BY DEF ObjectInv, Object!Stage, Object!Steady, Object!store, Object!Idle
<1>2. PICK d \in Digests :
        writer' = [writer EXCEPT ![w] = [pc |-> "publish", digest |-> d, cursor |-> Len(olog)]]
  BY DEF Object!Stage
<1>3. /\ writer' = [v \in Writers |-> writer'[v]]
      /\ \A v \in Writers : v # w => writer'[v] = writer[v]
      /\ DOMAIN writer'[w] = {"pc", "digest", "cursor"}
      /\ writer'[w].pc = "publish" /\ writer'[w].digest = d
  BY <1>1, <1>2 DEF WritersOK
<1>4. WritersOK'
  BY <1>1, <1>3 DEF WritersOK
<1>5. \A v \in Writers : writer[v].pc \in {"rename", "commit"} \/ writer'[v].pc \in {"rename", "commit"}
                          => writer'[v] = writer[v]
  BY <1>1, <1>3
<1>6. Reachable'
  BY <1>1, <1>5 DEF Reachable, Accounted, Object!Displaced, Object!At
<1> QED BY <1>1, <1>4, <1>6 DEF ObjectInv, ObjectsOK, InTurn

LEMMA PublicationKeeps ==
    ASSUME ObjectInv, NEW w \in Writers,
           \/ Object!Publish(w) \/ Object!Quarantine(w) \/ Object!Rename(w)
           \/ Object!PutIfAbsent(w)
    PROVE  ObjectInv'
<1>1. /\ WritersOK /\ ObjectsOK /\ UNCHANGED olog
      /\ writer[w].pc # "idle" /\ writer[w].digest \in Digests
  BY DEF ObjectInv, WritersOK, Object!Publish, Object!Quarantine, Object!Rename,
         Object!PutIfAbsent, Object!Steady, Object!At
<1>2. /\ \A pc : Object!Go(w, pc) => Moves(w, pc)
      /\ Object!Fail(w) => Moves(w, "idle")
  BY <1>1, GoMoves
<1>3. CASE Object!Install(w) /\ Object!Go(w, "verify")
  BY <1>1, <1>2, <1>3, InstallStep
<1>4. CASE Object!Publish(w) /\ ~(Object!Install(w) /\ Object!Go(w, "verify"))
  <2>1. objects[writer[w].digest] \in {"none", "good", "rotten"} /\ writer[w].pc = "publish"
    BY <1>1, <1>4 DEF ObjectsOK, Object!Publish, Object!At
  <2>2. UNCHANGED <<objects, rotted, lost, kept, stranded>>
    BY <1>4, <2>1 DEF Object!Publish, Object!Now, Object!store
  <2>3. \/ Moves(w, "verify")
        \/ Moves(w, "quarantine") /\ objects[writer[w].digest] = "rotten"
    BY <1>2, <1>4, <2>1 DEF Object!Publish, Object!Now
  <2> QED BY <1>1, <2>1, <2>2, <2>3, QuietStep DEF ObjectsOK
<1>5. CASE Object!Quarantine(w) /\ objects[writer[w].digest] = "none"
  <2>1. /\ writer[w].pc = "quarantine" /\ Moves(w, "idle")
        /\ UNCHANGED <<objects, rotted, lost, kept, stranded>>
    BY <1>2, <1>5 DEF Object!Quarantine, Object!At, Object!Now, Object!store
  <2> QED BY <1>1, <2>1, QuietStep
<1>6. CASE Object!Quarantine(w) /\ objects[writer[w].digest] # "none"
  BY <1>6, QuarantineStep
<1>7. CASE Object!PutIfAbsent(w) /\ ~(Object!Install(w) /\ Object!Go(w, "verify"))
  <2>1. /\ writer[w].pc = "publish" /\ Moves(w, "verify")
        /\ UNCHANGED <<objects, rotted, lost, kept, stranded>>
    BY <1>2, <1>7 DEF Object!PutIfAbsent, Object!At, Object!store
  <2> QED BY <1>1, <2>1, QuietStep
<1> QED BY <1>3, <1>4, <1>5, <1>6, <1>7 DEF Object!Rename

LEMMA VerificationKeeps ==
    ASSUME ObjectInv, NEW w \in Writers,
           \/ Object!VerifyPut(w) \/ Object!VerifyCommit(w) \/ Object!Acknowledge(w)
           \/ Object!Retry(w)
    PROVE  ObjectInv'
<1>1. /\ WritersOK /\ UNCHANGED <<olog, objects, rotted, lost, kept, stranded>>
      /\ writer[w].pc \notin {"idle", "rename"}
  BY DEF ObjectInv, Object!VerifyPut, Object!VerifyCommit, Object!Acknowledge,
         Object!Retry, Object!Steady, Object!store, Object!At
<1>2. /\ \A pc : Object!Go(w, pc) => Moves(w, pc)
      /\ Object!Fail(w) => Moves(w, "idle")
  BY <1>1, GoMoves
<1>3. \/ Moves(w, "staged") \/ Moves(w, "idle")
      \/ Moves(w, "commit") /\ objects[writer[w].digest] = "good"
  BY <1>2 DEF Object!VerifyPut, Object!VerifyCommit, Object!AdmitCommit, Object!Verified,
              Object!Now, Object!Acknowledge, Object!Retry
<1> QED BY <1>1, <1>3, QuietStep

LEMMA CrashKeeps ==
    ASSUME ObjectInv, NEW w \in Writers, Object!Crash(w)
    PROVE  ObjectInv'
<1>1. CASE writer[w].pc # "idle"
  BY <1>1, CrashStep
<1>2. CASE writer[w].pc = "idle"
  <2>1. /\ Moves(w, "idle") /\ UNCHANGED <<olog, objects, rotted, lost, kept, stranded>>
    BY <1>2, GoMoves DEF Object!Crash, Object!At, ObjectInv
  <2>2. \A v \in Writers : writer'[v].pc # "idle" \/ writer[v].pc # "idle" => writer'[v] = writer[v]
    BY <1>2, <2>1 DEF Moves
  <2>3. Reachable'
    BY <2>1, <2>2 DEF ObjectInv, Reachable, Accounted, Object!Displaced, Object!At
  <2>4. WritersOK'
    BY <2>1, <2>2 DEF ObjectInv, WritersOK, Moves
  <2> QED BY <2>1, <2>3, <2>4 DEF ObjectInv, ObjectsOK, InTurn
<1> QED BY <1>1, <1>2

LEMMA CommitKeeps ==
    ASSUME ObjectInv, NEW w \in Writers, Object!Commit(w)
    PROVE  ObjectInv'
<1>1. /\ WritersOK /\ ObjectsOK /\ Reachable /\ InTurn
      /\ UNCHANGED <<objects, rotted, lost, kept, stranded>>
      /\ writer[w].pc = "commit" /\ writer[w].digest \in Digests
  BY DEF ObjectInv, WritersOK, Object!Commit, Object!Steady, Object!store, Object!At
<1>2. /\ \A pc : Object!Go(w, pc) => Moves(w, pc)
      /\ Object!Fail(w) => Moves(w, "idle")
  BY <1>1, GoMoves
<1>3. CASE olog' = olog /\ (Object!Go(w, "done") \/ Object!Fail(w))
  BY <1>1, <1>2, <1>3, QuietStep
<1>4. CASE /\ writer[w].cursor = Len(olog) /\ olog' = Append(olog, Object!Transaction(w))
           /\ Object!Go(w, "done")
  <2> DEFINE t == Object!Transaction(w)
  <2>0. Len(olog) \in Nat
    BY <1>1, LogShape
  <2>1. t \in Transactions /\ t.digest = writer[w].digest /\ t.cursor = Len(olog)
    BY <1>1, <1>4, <2>0 DEF Object!Transaction, Transactions
  <2> HIDE DEF t
  <2>2. /\ olog' \in Seq(Transactions) /\ Len(olog') = Len(olog) + 1
        /\ \A i \in 1..Len(olog) : olog'[i] = olog[i]
        /\ olog'[Len(olog) + 1] = t
    <3>1. olog \in Seq(Transactions) /\ olog' = Append(olog, t)
      BY <1>1, <1>4 DEF InTurn, t
    <3> QED BY <2>1, <3>1
  <2>3. \A i \in 1..Len(olog') : i \in 1..Len(olog) \/ i = Len(olog) + 1
    BY <2>0, <2>2
  <2>4. InTurn'
    BY <1>1, <2>0, <2>1, <2>2, <2>3 DEF InTurn
  <2>5. Moves(w, "done")
    BY <1>2, <1>4
  <2>6. WritersOK'
    BY <1>1, <2>5 DEF WritersOK, Moves
  <2>7. Reachable'
    <3>1. ASSUME NEW i \in 1..Len(olog')
          PROVE  Accounted(olog'[i].digest)
      BY <1>1, <2>1, <2>2, <2>3, <3>1 DEF Reachable
    <3>2. \A v \in Writers : writer[v].pc = "rename" \/ writer'[v].pc = "commit"
                              => writer'[v] = writer[v]
      BY <1>1, <2>5 DEF Moves
    <3>3. ASSUME NEW d, Accounted(d) PROVE Accounted(d)'
      BY <1>1, <3>2, <3>3 DEF Accounted, Object!Displaced, Object!At
    <3>4. \A v \in Writers : writer'[v].pc = "commit" => Accounted(writer'[v].digest)
      BY <1>1, <3>2 DEF Reachable
    <3> QED BY <3>1, <3>3, <3>4 DEF Reachable, Accounted, Object!Displaced, Object!At
  <2> QED BY <1>1, <2>4, <2>6, <2>7 DEF ObjectInv, ObjectsOK
<1> QED BY <1>3, <1>4 DEF Object!Commit

\* The medium, the reclamation of orphans and an operator's quarantine: what something
\* refers to stays, or is lost.
LEMMA StoreKeeps ==
    ASSUME ObjectInv, Object!Rot \/ Object!Reclaim \/ Object!QuarantineCorrupt
    PROVE  ObjectInv'
<1>1. /\ WritersOK /\ ObjectsOK /\ Reachable /\ InTurn /\ UNCHANGED <<olog, writer, kept, stranded>>
      /\ rotted \subseteq rotted' /\ lost \subseteq lost'
  BY DEF ObjectInv, Object!Rot, Object!Reclaim, Object!QuarantineCorrupt, Object!Steady
<1>2. DOMAIN olog = 1..Len(olog) /\ \A i \in 1..Len(olog) : olog[i].digest \in Digests
  BY <1>1, LogShape
<1> DEFINE Reach == Object!Referenced \cup Object!Referring
<1>3. /\ objects' \in [Digests -> {"none", "good", "rotten"}]
      /\ \A d \in Digests : objects'[d] # objects[d] =>
            \/ objects[d] = "rotten" /\ objects'[d] = "none"
            \/ d \in rotted' /\ objects[d] = "good" /\ (d \in Reach => d \in lost')
            \/ objects'[d] = "none" /\ d \notin Reach
  <2>1. CASE Object!Rot
    <3>1. PICK e \in Digests : /\ objects[e] = "good" /\ objects' = [objects EXCEPT ![e] = "rotten"]
                               /\ rotted' = rotted \cup {e} /\ (e \in Reach => lost' = lost \cup {e})
      BY <2>1 DEF Object!Rot
    <3> HIDE DEF Reach
    <3> QED BY <1>1, <3>1, PlaceOne
  <2>2. CASE Object!QuarantineCorrupt
    <3> HIDE DEF Reach
    <3> QED BY <1>1, <2>2, PlaceOne DEF Object!QuarantineCorrupt
  <2>3. CASE Object!Reclaim
    <3>1. PICK ds \in SUBSET Object!Unreachable :
            objects' = [d \in Digests |-> IF d \in ds THEN "none" ELSE objects[d]]
      BY <2>3 DEF Object!Reclaim
    <3>2. \A d \in ds : d \notin Reach
      BY <3>1 DEF Object!Unreachable, Object!Orphans
    <3> HIDE DEF Reach
    <3>3. objects' \in [Digests -> {"none", "good", "rotten"}]
      BY <1>1, <3>1 DEF ObjectsOK
    <3> QED BY <3>1, <3>2, <3>3
  <2> QED BY <2>1, <2>2, <2>3
<1>4. ObjectsOK'
  BY <1>1, <1>3 DEF ObjectsOK
<1>5. /\ \A i \in 1..Len(olog) : olog[i].digest \in Reach
      /\ \A w \in Writers : writer[w].pc = "commit" => writer[w].digest \in Reach
  BY <1>2 DEF Object!Referenced, Object!Referring, Object!At
<1> HIDE DEF Reach
<1>6. ASSUME NEW e \in Digests, e \in Reach, Accounted(e) PROVE Accounted(e)'
  <2>1. CASE objects'[e] = objects[e]
    BY <1>1, <1>6, <2>1 DEF Accounted, Object!Displaced, Object!At
  <2>2. CASE objects'[e] # objects[e] /\ objects[e] = "rotten"
    <3>1. e \in lost
      BY <1>6, <2>2 DEF Accounted, Object!Displaced
    <3> QED BY <1>1, <3>1 DEF Accounted
  <2>3. CASE objects'[e] # objects[e] /\ objects[e] # "rotten"
    <3>1. e \in lost'
      BY <1>3, <1>6, <2>3
    <3> QED BY <3>1 DEF Accounted
  <2> QED BY <2>1, <2>2, <2>3
<1>7. Reachable'
  <2>1. \A i \in 1..Len(olog) : Accounted(olog[i].digest)'
    BY <1>1, <1>2, <1>5, <1>6 DEF Reachable, Accounted, Object!Displaced, Object!At
  <2>2. \A w \in Writers : writer[w].pc = "commit" => Accounted(writer[w].digest)'
    BY <1>1, <1>5, <1>6 DEF Reachable, WritersOK, Accounted, Object!Displaced, Object!At
  <2> QED BY <1>1, <2>1, <2>2 DEF Reachable
<1> QED BY <1>1, <1>4, <1>7 DEF ObjectInv, WritersOK, InTurn

\* What committed transactions refer to is there and whole, whatever orphans were
\* reclaimed, whichever writer crashed between staging, publication, verification and
\* commit, and however writers of one digest interleaved, with two exceptions: the medium
\* lost it while it was referred to, or a writer that had found its digest corrupt has
\* moved it, whole, to quarantine and has not, or never, put its own copy there.  A
\* transaction whose answer was lost and that was sent again is in the log once
\* (LocalObjectStore::publish_stage, quarantine, DataRuntime::commit, reclaim_orphans).
THEOREM ReferencesHold == Object!Spec => []Object!ReferencesResolve
<1>1. Object!Init => ObjectInv
  BY DEF Object!Init, Object!Idle, ObjectInv, WritersOK, ObjectsOK, Reachable, InTurn
<1>2. ObjectInv /\ [Object!Next]_(Object!vars) => ObjectInv'
  <2> SUFFICES ASSUME ObjectInv, [Object!Next]_(Object!vars)
               PROVE  ObjectInv'
    OBVIOUS
  <2>1. CASE UNCHANGED Object!vars
    BY <2>1 DEF Object!vars, Object!store, ObjectInv, WritersOK, ObjectsOK, Reachable, InTurn,
                Accounted, Object!Displaced, Object!At
  <2> QED
    BY <2>1, StageKeeps, PublicationKeeps, VerificationKeeps, CrashKeeps, CommitKeeps, StoreKeeps
    DEF Object!Next
<1>3. ObjectInv => Object!ReferencesResolve
  <2> SUFFICES ASSUME ObjectInv PROVE Object!ReferencesResolve
    OBVIOUS
  <2>1. Reachable /\ InTurn /\ DOMAIN olog = 1..Len(olog)
    BY LogShape DEF ObjectInv
  <2>2. \A d \in Object!Referenced : Accounted(d)
    BY <2>1 DEF Reachable, Object!Referenced
  <2>3. \A i, j \in DOMAIN olog : olog[i] = olog[j] => i = j
    BY <2>1 DEF InTurn
  <2> QED BY <2>2, <2>3 DEF Accounted, Object!ReferencesResolve, Object!IsInjective
<1> QED BY <1>1, <1>2, <1>3, PTL DEF Object!Spec

-----------------------------------------------------------------------------
(***************************************************************************)
(* Embedding jobs (module EmbeddingJobs), which commit to the log of their *)
(* scope.  A vector is computed from what the source held at the second    *)
(* sample, and the log accepts it only while nothing was committed since   *)
(* the job was requested.                                                  *)
(***************************************************************************)

CONSTANTS First, Contents, Models, Backends, Workers, MaxLog, MaxJobs
VARIABLES elog, jobs, worker, sent

Embedding == INSTANCE EmbeddingJobs WITH log <- elog

\* The last edit of the source among the first n entries of a log.
SourceIn(log, n) ==
    LET edits == {i \in 1 .. n : log[i].kind = "source"}
    IN  log[CHOOSE i \in edits : \A j \in edits : j <= i].content

\* What stands behind the first n entries is true of the source they leave.
GroundedIn(log, v, n) ==
    v.kind = "vector" =>
        /\ v.source = SourceIn(log, n)
        /\ v.value = <<SourceIn(log, n), v.model>>

\* A coordinator works on a requested job with a backend the job permits; once prepared,
\* its vector is true of the source as long as the cursor of its job is the head.
WorkersOK ==
    /\ worker = [w \in Workers |-> worker[w]]
    /\ \A w \in Workers :
         /\ worker[w].pc \in {"embed", "resample"} =>
              /\ DOMAIN worker[w] = {"pc", "job", "backend", "input"}
              /\ worker[w].job \in jobs
              /\ Embedding!Permitted(worker[w].job, worker[w].backend)
         /\ worker[w].pc = "prepared" =>
              /\ worker[w].job \in jobs
              /\ worker[w].job.cursor = Len(elog) => GroundedIn(elog, worker[w].vector, Len(elog))

EntriesOK ==
    /\ Len(elog) \in Nat \ {0} /\ elog = [i \in 1..Len(elog) |-> elog[i]]
    /\ elog[1].kind = "source"
    /\ \A i \in 1..Len(elog) : GroundedIn(elog, elog[i], i - 1)
    /\ \A job \in jobs : job.cursor \in 0..Len(elog)

EmbeddingInv ==
    /\ EntriesOK /\ WorkersOK
    /\ \A pair \in sent : Embedding!Permitted(pair[1], pair[2])

\* A set of positions has a last one.
LEMMA LastPosition ==
    ASSUME NEW n \in Nat, NEW D \in SUBSET (1..n), D # {}
    PROVE  \E m \in D : \A j \in D : j <= m
<1> DEFINE G == {k \in Nat : \A E \in SUBSET (1..k) : E # {} => \E m \in E : \A j \in E : j <= m}
<1>1. 0 \in G
  <2>1. \A E \in SUBSET (1..0) : E = {}
    OBVIOUS
  <2> QED BY <2>1
<1>2. ASSUME NEW k \in 1..n, k - 1 \in G
      PROVE  k \in G
  <2> SUFFICES ASSUME NEW E \in SUBSET (1..k), E # {}
               PROVE  \E m \in E : \A j \in E : j <= m
    OBVIOUS
  <2>1. CASE k \in E
    BY <2>1
  <2>2. CASE k \notin E
    <3>1. E \in SUBSET (1..(k - 1))
      BY <2>2
    <3> QED BY <1>2, <3>1
  <2> QED BY <2>1, <2>2
<1>3. n \in G
  <2> HIDE DEF G
  <2>1. \A k \in 0..n : k \in G
    BY <1>1, <1>2, Induction
  <2> QED BY <2>1
<1> QED BY <1>3

\* What is committed later does not change the source of before.
LEMMA SourceStays ==
    ASSUME NEW log, NEW longer, NEW n \in Nat \ {0}, log[1].kind = "source",
           \A i \in 1..n : longer[i] = log[i]
    PROVE  SourceIn(longer, n) = SourceIn(log, n)
<1> DEFINE D == {i \in 1..n : log[i].kind = "source"}
           m == CHOOSE i \in D : \A j \in D : j <= i
<1>1. D \in SUBSET (1..n) /\ 1 \in D
  OBVIOUS
<1>2. m \in D
  <2> HIDE DEF D
  <2>1. \E i \in D : \A j \in D : j <= i
    BY <1>1, LastPosition
  <2> QED BY <2>1
<1>3. {i \in 1..n : longer[i].kind = "source"} = D
  OBVIOUS
<1>4. SourceIn(log, n) = log[m].content /\ SourceIn(longer, n) = longer[m].content
  BY <1>3 DEF SourceIn
<1> HIDE DEF m
<1> QED BY <1>2, <1>4

\* An entry that is true of the source may be appended; prepared vectors of earlier
\* cursors can no longer be.
LEMMA EntryAppended ==
    ASSUME EmbeddingInv, NEW e, GroundedIn(elog, e, Len(elog)),
           elog' = Append(elog, e), jobs' = jobs
    PROVE  /\ EntriesOK'
           /\ \A job \in jobs : job.cursor # Len(elog')
<1> DEFINE S == {elog[i] : i \in 1..Len(elog)} \cup {e}
<1>1. /\ Len(elog) \in Nat \ {0} /\ elog \in Seq(S) /\ e \in S /\ elog[1].kind = "source"
      /\ \A i \in 1..Len(elog) : GroundedIn(elog, elog[i], i - 1)
      /\ \A job \in jobs : job.cursor \in 0..Len(elog)
  BY DEF EmbeddingInv, EntriesOK
<1> HIDE DEF S
<1>2. PICK longer : longer = elog'
  OBVIOUS
<1>3. /\ Len(longer) = Len(elog) + 1
      /\ \A i \in 1..Len(elog) : longer[i] = elog[i]
      /\ longer[Len(elog) + 1] = e
      /\ longer = [i \in 1..(Len(elog) + 1) |-> longer[i]]
  BY <1>1, <1>2, Appended
<1>0. Len(elog) \in Nat \ {0} /\ Len(longer) = Len(elog) + 1
  BY <1>1, <1>3
<1>4. \A n \in 1..Len(elog) : SourceIn(longer, n) = SourceIn(elog, n)
  <2> TAKE n \in 1..Len(elog)
  <2>0. n \in Nat \ {0} /\ \A i \in 1..n : i \in 1..Len(elog)
    BY <1>0
  <2>1. n \in Nat \ {0} /\ \A i \in 1..n : longer[i] = elog[i]
    BY <1>3, <2>0
  <2> QED BY <1>1, <2>1, SourceStays
<1>5. ASSUME NEW i \in 1..Len(longer)
      PROVE  GroundedIn(longer, longer[i], i - 1)
  <2>1. CASE i = 1
    <3>1. 1 \in 1..Len(elog)
      BY <1>0
    <3>2. longer[i].kind = "source"
      BY ONLY <1>1, <1>3, <2>1, <3>1
    <3> QED BY ONLY <3>2 DEF GroundedIn
  <2>2. CASE i \in 2..Len(elog)
    <3>1. i \in 1..Len(elog) /\ i - 1 \in 1..Len(elog)
      BY <1>1, <2>2
    <3>2. longer[i] = elog[i] /\ SourceIn(longer, i - 1) = SourceIn(elog, i - 1)
      BY <1>3, <1>4, <3>1
    <3>3. GroundedIn(elog, elog[i], i - 1)
      BY <1>1, <3>1
    <3> QED BY <3>2, <3>3 DEF GroundedIn
  <2>3. CASE i = Len(elog) + 1
    <3>1. i - 1 = Len(elog) /\ Len(elog) \in 1..Len(elog)
      BY <1>1, <2>3
    <3>2. longer[i] = e /\ SourceIn(longer, i - 1) = SourceIn(elog, Len(elog))
      BY <1>3, <1>4, <2>3, <3>1
    <3> QED BY <3>2 DEF GroundedIn
  <2> QED BY <1>1, <1>3, <2>1, <2>2, <2>3
<1>6. \A job \in jobs : job.cursor \in 0..Len(longer) /\ job.cursor # Len(longer)
  <2>1. \A c \in 0..Len(elog) : c \in 0..Len(longer) /\ c # Len(longer)
    BY <1>0
  <2> QED BY <1>1, <2>1
<1>7. Len(longer) \in Nat \ {0} /\ longer[1].kind = "source"
  <2>1. 1 \in 1..Len(elog) /\ Len(longer) \in Nat \ {0}
    BY <1>0
  <2>2. longer[1] = elog[1]
    BY <1>3, <2>1
  <2> QED BY <1>1, <2>1, <2>2
<1> QED BY <1>2, <1>3, <1>5, <1>6, <1>7 DEF EntriesOK

\* One coordinator goes on, the log and the others stay.
LEMMA WorkerStep ==
    ASSUME EmbeddingInv, NEW w \in Workers, NEW state, UNCHANGED <<elog, jobs>>,
           worker' = [worker EXCEPT ![w] = state],
           state.pc \in {"embed", "resample"} =>
              /\ DOMAIN state = {"pc", "job", "backend", "input"}
              /\ state.job \in jobs /\ Embedding!Permitted(state.job, state.backend),
           state.pc = "prepared" =>
              /\ state.job \in jobs
              /\ state.job.cursor = Len(elog) => GroundedIn(elog, state.vector, Len(elog))
    PROVE  EntriesOK' /\ WorkersOK'
<1>1. EntriesOK'
  BY DEF EmbeddingInv, EntriesOK
<1>2. /\ worker' = [v \in Workers |-> worker'[v]] /\ worker'[w] = state
      /\ \A v \in Workers : v # w => worker'[v] = worker[v]
  BY DEF EmbeddingInv, WorkersOK
<1>3. WorkersOK'
  <2>1. ASSUME NEW v \in Workers
        PROVE  /\ worker'[v].pc \in {"embed", "resample"} =>
                    /\ DOMAIN worker'[v] = {"pc", "job", "backend", "input"}
                    /\ worker'[v].job \in jobs
                    /\ Embedding!Permitted(worker'[v].job, worker'[v].backend)
               /\ worker'[v].pc = "prepared" =>
                    /\ worker'[v].job \in jobs
                    /\ worker'[v].job.cursor = Len(elog) =>
                         GroundedIn(elog, worker'[v].vector, Len(elog))
    <3>1. CASE v = w
      BY <1>2, <3>1
    <3>2. CASE v # w
      BY <1>2, <3>2 DEF EmbeddingInv, WorkersOK
    <3> QED BY <3>1, <3>2
  <2> QED BY <1>2, <2>1 DEF WorkersOK, Embedding!Permitted
<1> QED BY <1>1, <1>3

LEMMA EditKeeps ==
    ASSUME EmbeddingInv, NEW c, Embedding!EditSource(c)
    PROVE  EmbeddingInv'
<1> DEFINE e == [kind |-> "source", content |-> c]
<1>1. elog' = Append(elog, e) /\ UNCHANGED <<jobs, worker, sent>>
  BY DEF Embedding!EditSource
<1>2. GroundedIn(elog, e, Len(elog))
  BY DEF GroundedIn
<1> HIDE DEF e
<1>3. EntriesOK' /\ \A job \in jobs : job.cursor # Len(elog')
  BY <1>1, <1>2, EntryAppended
<1>4. WorkersOK'
  BY <1>1, <1>3 DEF EmbeddingInv, WorkersOK, Embedding!Permitted
<1> QED BY <1>1, <1>3, <1>4 DEF EmbeddingInv, Embedding!Permitted

LEMMA RequestKeeps ==
    ASSUME EmbeddingInv, NEW model, NEW policy, NEW n, Embedding!Request(model, policy, n)
    PROVE  EmbeddingInv'
<1>1. /\ jobs' = jobs \cup {[cursor |-> Len(elog), expected |-> Embedding!SourceAt(n),
                             model |-> model, policy |-> policy]}
      /\ UNCHANGED <<elog, worker, sent>>
  BY DEF Embedding!Request
<1>2. EntriesOK'
  BY <1>1 DEF EmbeddingInv, EntriesOK
<1>3. WorkersOK'
  BY <1>1 DEF EmbeddingInv, WorkersOK, Embedding!Permitted
<1> QED BY <1>1, <1>2, <1>3 DEF EmbeddingInv, Embedding!Permitted

LEMMA SampleKeeps ==
    ASSUME EmbeddingInv, NEW w \in Workers, NEW job \in jobs, NEW b,
           Embedding!Sample(w, job, b)
    PROVE  EmbeddingInv'
<1> DEFINE state == [pc |-> "embed", job |-> job, backend |-> b,
                     input |-> Embedding!Current]
<1>1. /\ worker' = [worker EXCEPT ![w] = state] /\ UNCHANGED <<elog, jobs, sent>>
      /\ Embedding!Permitted(job, b)
  BY DEF Embedding!Sample
<1>2. /\ state.pc = "embed" /\ DOMAIN state = {"pc", "job", "backend", "input"}
      /\ state.job = job /\ state.backend = b
  OBVIOUS
<1> HIDE DEF state
<1>3. EntriesOK' /\ WorkersOK'
  BY <1>1, <1>2, WorkerStep
<1> QED BY <1>1, <1>3 DEF EmbeddingInv, Embedding!Permitted

\* What a coordinator becomes when it gives up.
LEMMA IdleKeeps ==
    ASSUME EmbeddingInv, NEW w \in Workers, UNCHANGED <<elog, jobs>>,
           worker' = [worker EXCEPT ![w] = Embedding!Idle]
    PROVE  EntriesOK' /\ WorkersOK'
<1>1. PICK state : state = Embedding!Idle
  OBVIOUS
<1>2. state.pc = "idle"
  BY <1>1 DEF Embedding!Idle
<1> QED BY <1>1, <1>2, WorkerStep

LEMMA EmbedKeeps ==
    ASSUME EmbeddingInv, NEW w \in Workers, Embedding!Embed(w)
    PROVE  EmbeddingInv'
<1>1. /\ worker[w].pc = "embed" /\ UNCHANGED <<elog, jobs>>
      /\ sent' = sent \cup {<<worker[w].job, worker[w].backend>>}
  BY DEF Embedding!Embed
<1>2. /\ DOMAIN worker[w] = {"pc", "job", "backend", "input"} /\ worker[w].job \in jobs
      /\ Embedding!Permitted(worker[w].job, worker[w].backend)
  BY <1>1 DEF EmbeddingInv, WorkersOK
<1>3. EntriesOK' /\ WorkersOK'
  <2>1. CASE worker' = [worker EXCEPT ![w].pc = "resample"]
    <3>1. PICK state : state = [worker[w] EXCEPT !.pc = "resample"]
      OBVIOUS
    <3>2. /\ state.pc = "resample" /\ DOMAIN state = DOMAIN worker[w]
          /\ state.job = worker[w].job /\ state.backend = worker[w].backend
      BY <1>2, <3>1
    <3>3. worker' = [worker EXCEPT ![w] = state]
      BY <2>1, <3>1
    <3> QED BY <1>1, <1>2, <3>2, <3>3, WorkerStep
  <2>2. CASE worker' = [worker EXCEPT ![w] = Embedding!Idle]
    BY <1>1, <2>2, IdleKeeps
  <2> QED BY <2>1, <2>2 DEF Embedding!Embed
<1>4. \A pair \in sent' : Embedding!Permitted(pair[1], pair[2])
  BY <1>1, <1>2 DEF EmbeddingInv
<1> QED BY <1>3, <1>4 DEF EmbeddingInv, Embedding!Permitted

LEMMA ResampleKeeps ==
    ASSUME EmbeddingInv, NEW w \in Workers, Embedding!Resample(w)
    PROVE  EmbeddingInv'
<1>1. worker[w].pc = "resample" /\ UNCHANGED <<elog, jobs, sent>>
  BY DEF Embedding!Resample
<1>2. worker[w].job \in jobs
  BY <1>1 DEF EmbeddingInv, WorkersOK
<1>3. EntriesOK' /\ WorkersOK'
  <2>1. CASE worker' = [worker EXCEPT ![w] = Embedding!Idle]
    BY <1>1, <2>1, IdleKeeps
  <2>2. CASE /\ Embedding!Current = worker[w].input
             /\ worker' = [worker EXCEPT ![w] = [pc |-> "prepared", job |-> worker[w].job,
                                                 vector |-> Embedding!Prepared(w)]]
    <3>1. PICK state : state = [pc |-> "prepared", job |-> worker[w].job,
                                vector |-> Embedding!Prepared(w)]
      OBVIOUS
    <3>2. Embedding!Current = SourceIn(elog, Len(elog))
      BY DEF Embedding!Current, Embedding!SourceAt, SourceIn
    <3>3. GroundedIn(elog, Embedding!Prepared(w), Len(elog))
      BY <2>2, <3>2 DEF GroundedIn, Embedding!Prepared
    <3>4. /\ state.pc = "prepared" /\ state.job = worker[w].job
          /\ state.vector = Embedding!Prepared(w) /\ worker' = [worker EXCEPT ![w] = state]
      BY <2>2, <3>1
    <3> QED BY <1>1, <1>2, <3>3, <3>4, WorkerStep
  <2> QED BY <2>1, <2>2 DEF Embedding!Resample
<1> QED BY <1>1, <1>3 DEF EmbeddingInv, Embedding!Permitted

LEMMA CommitVectorKeeps ==
    ASSUME EmbeddingInv, NEW w \in Workers, NEW job \in jobs, Embedding!Commit(w, job)
    PROVE  EmbeddingInv'
<1>1. /\ worker[w].pc = "prepared" /\ worker[w].job = job /\ job.cursor = Len(elog)
      /\ elog' = Append(elog, worker[w].vector) /\ UNCHANGED <<jobs, sent>>
      /\ worker' = [worker EXCEPT ![w] = Embedding!Idle]
  BY DEF Embedding!Commit, Embedding!SameJob
<1>2. GroundedIn(elog, worker[w].vector, Len(elog))
  BY <1>1 DEF EmbeddingInv, WorkersOK
<1>3. EntriesOK' /\ \A j \in jobs : j.cursor # Len(elog')
  BY <1>1, <1>2, EntryAppended
<1>4. /\ worker' = [v \in Workers |-> worker'[v]] /\ worker'[w].pc = "idle"
      /\ \A v \in Workers : v # w => worker'[v] = worker[v]
  BY <1>1 DEF EmbeddingInv, WorkersOK, Embedding!Idle
<1>5. WorkersOK'
  <2>1. ASSUME NEW v \in Workers
        PROVE  /\ worker'[v].pc \in {"embed", "resample"} =>
                    /\ DOMAIN worker'[v] = {"pc", "job", "backend", "input"}
                    /\ worker'[v].job \in jobs
                    /\ Embedding!Permitted(worker'[v].job, worker'[v].backend)
               /\ worker'[v].pc = "prepared" => worker'[v].job \in jobs
    BY <1>4 DEF EmbeddingInv, WorkersOK
  <2> QED BY <1>1, <1>3, <1>4, <2>1 DEF WorkersOK, Embedding!Permitted
<1> QED BY <1>1, <1>3, <1>5 DEF EmbeddingInv, Embedding!Permitted

\* Every vector in the log was computed, by the model it names, from the very bytes the
\* source holds at that point of the log, however long inference took and whoever edited
\* the source meanwhile; and no backend that needs the network saw the bytes of a job that
\* denies it (EmbeddingCoordinator::prepare, PreparedEmbedding::transaction).
THEOREM VectorsGrounded == Embedding!Spec => []Embedding!EmbeddingsGrounded
<1>1. Embedding!Init => EmbeddingInv
  <2> SUFFICES ASSUME Embedding!Init PROVE EmbeddingInv
    OBVIOUS
  <2>1. /\ Len(elog) = 1 /\ elog = [i \in 1..1 |-> elog[i]] /\ elog[1].kind = "source"
        /\ jobs = {} /\ sent = {}
    BY DEF Embedding!Init
  <2>2. EntriesOK
    BY <2>1 DEF EntriesOK, GroundedIn
  <2>3. WorkersOK
    BY DEF Embedding!Init, Embedding!Idle, WorkersOK
  <2> QED BY <2>1, <2>2, <2>3 DEF EmbeddingInv
<1>2. EmbeddingInv /\ [Embedding!Next]_(Embedding!vars) => EmbeddingInv'
  <2> SUFFICES ASSUME EmbeddingInv, [Embedding!Next]_(Embedding!vars)
               PROVE  EmbeddingInv'
    OBVIOUS
  <2>1. CASE UNCHANGED Embedding!vars
    BY <2>1 DEF Embedding!vars, EmbeddingInv, EntriesOK, WorkersOK, Embedding!Permitted
  <2>2. ASSUME NEW w \in Workers, Embedding!Discard(w)
        PROVE  EmbeddingInv'
    <3>1. EntriesOK' /\ WorkersOK' /\ sent' = sent
      BY <2>2, IdleKeeps DEF Embedding!Discard
    <3> QED BY <3>1 DEF EmbeddingInv, Embedding!Permitted
  <2> QED
    BY <2>1, <2>2, EditKeeps, RequestKeeps, SampleKeeps, EmbedKeeps, ResampleKeeps,
       CommitVectorKeeps
    DEF Embedding!Next
<1>3. EmbeddingInv => Embedding!EmbeddingsGrounded
  <2> SUFFICES ASSUME EmbeddingInv PROVE Embedding!EmbeddingsGrounded
    OBVIOUS
  <2>1. /\ DOMAIN elog = 1..Len(elog)
        /\ \A i \in 1..Len(elog) : GroundedIn(elog, elog[i], i - 1)
    BY DEF EmbeddingInv, EntriesOK
  <2>2. \A n : Embedding!SourceAt(n) = SourceIn(elog, n)
    BY DEF Embedding!SourceAt, SourceIn
  <2>3. \A pair \in sent : ~(pair[1].policy = "deny" /\ pair[2].network = "required")
    BY DEF EmbeddingInv, Embedding!Permitted
  <2> QED BY <2>1, <2>2, <2>3 DEF GroundedIn, Embedding!EmbeddingsGrounded
<1> QED BY <1>1, <1>2, <1>3, PTL DEF Embedding!Spec

-----------------------------------------------------------------------------
(***************************************************************************)
(* The engines (module Engines).  Every call changes the reference and the *)
(* two stores alike: their keyspaces stay equal, and what a store keeps as *)
(* rows of their own, the cursor, the watermark, the digest of the head    *)
(* and the sequence index, stays what the reference computes from its      *)
(* claims and changes in order.                                            *)
(***************************************************************************)

CONSTANTS NoEnd, Scopes, AppendBatches, Bodies, Readers, Instants, Outcomes, MaxCalls
VARIABLES memory, fjall, native, answers, calls

Engine == INSTANCE Engines WITH Batches <- AppendBatches

\* A sequence, of whatever.
IsSeq(s) == /\ Len(s) \in Nat /\ DOMAIN s = 1..Len(s)
            /\ s = [i \in 1..Len(s) |-> s[i]]

\* The claims the engines are given.
AppendedClaims == UNION {{b[i] : i \in DOMAIN b} : b \in AppendBatches}
CommittedClaims == UNION {{b[i].claim : i \in Engine!Positions(b, "claim")} : b \in Bodies}
GivenClaims == AppendedClaims \cup CommittedClaims

\* Calls are given sequences, no batch is empty, and no key is written with two contents:
\* empty batches are answered differently (engine.rs:481), and a key that is written
\* again shows where the index keeps keys (run projection_lag).
CallsOK ==
    /\ \A b \in AppendBatches : IsSeq(b) /\ b # <<>>
    /\ \A b \in Bodies : IsSeq(b)
    /\ \A c, d \in GivenClaims : Engine!ClaimKey(c) = Engine!ClaimKey(d) => c = d

\* A sequence of the elements it holds, and the shape of a typed one.
LEMMA SeqElements ==
    ASSUME NEW s, IsSeq(s), NEW S, \A i \in 1..Len(s) : s[i] \in S
    PROVE  s \in Seq(S)
<1>1. s \in [1..Len(s) -> S] /\ Len(s) \in Nat
  BY DEF IsSeq
<1> QED BY <1>1

LEMMA SeqShape ==
    ASSUME NEW S, NEW s \in Seq(S)
    PROVE  IsSeq(s)
BY DEF IsSeq

\* A concatenation of any two sequences, and an appended element.
LEMMA Joined ==
    ASSUME NEW s, NEW t, IsSeq(s), IsSeq(t)
    PROVE  /\ IsSeq(s \o t) /\ Len(s \o t) = Len(s) + Len(t)
           /\ \A i \in 1..Len(s) : (s \o t)[i] = s[i]
           /\ \A j \in 1..Len(t) : (s \o t)[Len(s) + j] = t[j]
<1> DEFINE S == {s[i] : i \in 1..Len(s)} \cup {t[i] : i \in 1..Len(t)}
<1>1. (\A i \in 1..Len(s) : s[i] \in S) /\ (\A i \in 1..Len(t) : t[i] \in S)
  OBVIOUS
<1> HIDE DEF S
<1>2. s \in Seq(S) /\ t \in Seq(S)
  BY <1>1, SeqElements
<1>3. s \o t \in Seq(S)
  BY <1>2
<1>4. IsSeq(s \o t)
  BY <1>3, SeqShape
<1> QED BY <1>2, <1>4

LEMMA Lengthened ==
    ASSUME NEW s, IsSeq(s), NEW e
    PROVE  /\ IsSeq(Append(s, e)) /\ Len(Append(s, e)) = Len(s) + 1
           /\ \A i \in 1..Len(s) : Append(s, e)[i] = s[i]
           /\ Append(s, e)[Len(s) + 1] = e
<1> DEFINE S == {s[i] : i \in 1..Len(s)} \cup {e}
<1>1. \A i \in 1..Len(s) : s[i] \in S
  OBVIOUS
<1>2. e \in S
  OBVIOUS
<1> HIDE DEF S
<1>3. s \in Seq(S)
  BY <1>1, SeqElements
<1>4. Append(s, e) \in Seq(S)
  BY <1>2, <1>3
<1>5. IsSeq(Append(s, e))
  BY <1>4, SeqShape
<1> QED BY <1>2, <1>3, <1>5

\* A sequence given as a table.
LEMMA Tabular ==
    ASSUME NEW n \in Nat, NEW s, s = [i \in 1..n |-> s[i]]
    PROVE  IsSeq(s) /\ Len(s) = n
<1>1. Len(s) = n
  OBVIOUS
<1> QED BY <1>1 DEF IsSeq

\* What Max gives of positions.
LEMMA MaxOf ==
    ASSUME NEW n \in Nat, NEW D \in SUBSET (1..n), D # {}
    PROVE  Engine!Max(D) \in D /\ \A j \in D : j <= Engine!Max(D)
<1>1. \E m \in D : \A j \in D : m >= j
  <2>1. \E m \in D : \A j \in D : j <= m
    BY LastPosition
  <2> QED BY <2>1
<1>2. Engine!Max(D) \in D /\ \A j \in D : Engine!Max(D) >= j
  BY <1>1 DEF Engine!Max
<1> QED BY <1>2

LEMMA MaxIs ==
    ASSUME NEW n \in Nat, NEW D \in SUBSET (1..n), NEW e \in D, \A j \in D : j <= e
    PROVE  Engine!Max(D) = e
<1> DEFINE top == Engine!Max(D)
<1>1. top \in D /\ \A j \in D : j <= top
  BY MaxOf
<1> HIDE DEF top
<1>2. top \in Nat /\ e \in Nat /\ top <= e /\ e <= top
  BY <1>1
<1>3. top = e
  BY <1>2
<1> QED BY <1>3 DEF top

-----------------------------------------------------------------------------
(* The claims of a commit *)

ClaimStep(f, ms, n) == IF n = 0 THEN <<>> ELSE Engine!WithClaimOf(f[n - 1], ms[n])

\* The recursion that defines Claims has a solution.
LEMMA ClaimsExist ==
    ASSUME NEW ms, NEW n \in Nat
    PROVE  \E f : f = [k \in 0..n |-> ClaimStep(f, ms, k)]
<1> DEFINE G == {k \in Nat : \E f : f = [j \in 0..k |-> ClaimStep(f, ms, j)]}
<1>1. 0 \in G
  <2> DEFINE f == [j \in 0..0 |-> <<>>]
  <2>1. f = [j \in 0..0 |-> ClaimStep(f, ms, j)]
    BY DEF ClaimStep
  <2> QED BY <2>1
<1>2. ASSUME NEW k \in 1..n, k - 1 \in G
      PROVE  k \in G
  <2>1. PICK f : f = [j \in 0..(k - 1) |-> ClaimStep(f, ms, j)]
    BY <1>2
  <2> DEFINE g == [j \in 0..k |-> IF j = k THEN Engine!WithClaimOf(f[k - 1], ms[k]) ELSE f[j]]
  <2>2. ASSUME NEW j \in 0..k
        PROVE  g[j] = ClaimStep(g, ms, j)
    <3>1. CASE j = k
      BY <3>1 DEF ClaimStep
    <3>2. CASE j # k
      <4>1. j \in 0..(k - 1) /\ (j # 0 => j - 1 \in 0..(k - 1))
        BY <3>2
      <4>2. g[j] = f[j] /\ (j # 0 => g[j - 1] = f[j - 1])
        BY <3>2, <4>1
      <4>3. f[j] = ClaimStep(f, ms, j)
        BY <2>1, <4>1
      <4> HIDE DEF g
      <4> QED BY <4>2, <4>3 DEF ClaimStep
    <3> QED BY <3>1, <3>2
  <2>3. g = [j \in 0..k |-> g[j]]
    OBVIOUS
  <2> HIDE DEF g
  <2>4. g = [j \in 0..k |-> ClaimStep(g, ms, j)]
    BY <2>2, <2>3
  <2> QED BY <2>4
<1>3. n \in G
  <2> HIDE DEF G
  <2> QED BY <1>1, <1>2, Induction
<1> QED BY <1>3

\* They are claims of its mutations.
LEMMA ClaimsOfMutations ==
    ASSUME NEW ms, IsSeq(ms)
    PROVE  /\ IsSeq(Engine!Claims(ms))
           /\ \A i \in 1..Len(Engine!Claims(ms)) :
                \E j \in DOMAIN ms : ms[j].kind = "claim" /\ Engine!Claims(ms)[i] = ms[j].claim
<1> DEFINE f == CHOOSE f : f = [n \in 0..Len(ms) |-> ClaimStep(f, ms, n)]
           Taken(s) == IsSeq(s) /\ \A i \in 1..Len(s) :
                         \E j \in DOMAIN ms : ms[j].kind = "claim" /\ s[i] = ms[j].claim
           G == {n \in 0..Len(ms) : Taken(f[n])}
<1>0. Len(ms) \in Nat /\ DOMAIN ms = 1..Len(ms)
  BY DEF IsSeq
<1>1. Engine!Claims(ms) = f[Len(ms)]
  BY DEF Engine!Claims, ClaimStep
<1>2. f = [n \in 0..Len(ms) |-> ClaimStep(f, ms, n)]
  BY <1>0, ClaimsExist
<1> HIDE DEF f
<1>3. \A n \in 0..Len(ms) : f[n] = ClaimStep(f, ms, n)
  BY <1>2
<1>4. 0 \in G
  <2>1. f[0] = <<>>
    BY <1>0, <1>3 DEF ClaimStep
  <2>2. Taken(<<>>)
    BY DEF IsSeq
  <2> HIDE DEF Taken
  <2> QED BY <1>0, <2>1, <2>2
<1>5. ASSUME NEW n \in 1..Len(ms), n - 1 \in G
      PROVE  n \in G
  <2>1. f[n] = Engine!WithClaimOf(f[n - 1], ms[n])
    BY <1>0, <1>3 DEF ClaimStep
  <2>2. Taken(f[n - 1])
    BY <1>5
  <2>3. Taken(f[n])
    <3>1. CASE ms[n].kind = "claim"
      <4> DEFINE s == f[n - 1]
                 e == ms[n].claim
      <4>1. f[n] = Append(s, e)
        BY <2>1, <3>1 DEF Engine!WithClaimOf
      <4> HIDE DEF s, e
      <4>2. IsSeq(s)
        BY <2>2 DEF s
      <4>3. /\ IsSeq(Append(s, e)) /\ Len(Append(s, e)) = Len(s) + 1 /\ Len(s) \in Nat
            /\ \A i \in 1..Len(s) : Append(s, e)[i] = s[i]
            /\ Append(s, e)[Len(s) + 1] = e
        BY <4>2, Lengthened DEF IsSeq
      <4>4. ASSUME NEW i \in 1..Len(f[n])
            PROVE  \E j \in DOMAIN ms : ms[j].kind = "claim" /\ f[n][i] = ms[j].claim
        <5>1. i \in 1..Len(s) \/ i = Len(s) + 1
          BY <4>1, <4>3, <4>4
        <5>2. CASE i \in 1..Len(s)
          BY <2>2, <4>1, <4>3, <5>2 DEF s
        <5>3. CASE i = Len(s) + 1
          BY <1>0, <3>1, <4>1, <4>3, <5>3 DEF e
        <5> QED BY <5>1, <5>2, <5>3
      <4> QED BY <4>1, <4>3, <4>4
    <3>2. CASE ms[n].kind # "claim"
      BY <2>1, <2>2, <3>2 DEF Engine!WithClaimOf
    <3> QED BY <3>1, <3>2
  <2> HIDE DEF Taken
  <2> QED BY <2>3
<1>6. Len(ms) \in G
  <2> HIDE DEF G
  <2> QED BY <1>0, <1>4, <1>5, Induction
<1> QED BY <1>1, <1>6

-----------------------------------------------------------------------------
(* Claims by key and in order *)

\* Every claim that was appended is found under its key, and nothing else is.
Held(byKey, order) ==
    /\ \A i \in 1..Len(order) :
         /\ order[i] \in GivenClaims
         /\ Engine!ClaimKey(order[i]) \in DOMAIN byKey
         /\ byKey[Engine!ClaimKey(order[i])] = order[i]
    /\ \A k \in DOMAIN byKey : \E i \in 1..Len(order) : k = Engine!ClaimKey(order[i])

\* What the engines are given next.
Given(batch) == IsSeq(batch) /\ \A i \in 1..Len(batch) : batch[i] \in GivenClaims

\* Where a batch writes a key.
WritesOf(batch, k) == {i \in 1..Len(batch) : Engine!ClaimKey(batch[i]) = k}

\* What a key holds after a batch.
LEMMA WithClaimsAt ==
    ASSUME NEW byKey, NEW batch, IsSeq(batch), NEW k,
           NEW new, new = Engine!WithClaims(byKey, batch), NEW at, at = WritesOf(batch, k)
    PROVE  /\ k \in DOMAIN byKey => k \in DOMAIN new
           /\ at # {} => k \in DOMAIN new /\ new[k] = batch[Engine!Max(at)]
           /\ at = {} /\ k \in DOMAIN byKey => new[k] = byKey[k]
<1>1. DOMAIN batch = 1..Len(batch)
  BY DEF IsSeq
<1>2. DOMAIN new = DOMAIN byKey \cup {Engine!ClaimKey(batch[i]) : i \in DOMAIN batch}
  BY DEF Engine!WithClaims
<1>3. k \in DOMAIN new => new[k] = IF at = {} THEN byKey[k] ELSE batch[Engine!Max(at)]
  BY <1>1, <1>2 DEF Engine!WithClaims, WritesOf
<1>4. at # {} => k \in DOMAIN new
  BY <1>1, <1>2 DEF WritesOf
<1> QED BY <1>2, <1>3, <1>4

\* A batch is found under its keys, and hides nothing that was there.
LEMMA HeldAfter ==
    ASSUME CallsOK, NEW byKey, NEW order, IsSeq(order), Held(byKey, order),
           NEW batch, Given(batch)
    PROVE  Held(Engine!WithClaims(byKey, batch), order \o batch)
<1> DEFINE new == Engine!WithClaims(byKey, batch)
           longer == order \o batch
<1>0. IsSeq(batch) /\ Len(batch) \in Nat /\ Len(order) \in Nat
  BY DEF Given, IsSeq
<1>1. /\ Len(longer) = Len(order) + Len(batch)
      /\ \A i \in 1..Len(order) : longer[i] = order[i]
      /\ \A j \in 1..Len(batch) : longer[Len(order) + j] = batch[j]
  BY <1>0, Joined
<1> HIDE DEF new, longer
\* A key that was written holds the one claim that has it.
<1>2. ASSUME NEW c \in GivenClaims, NEW j \in 1..Len(batch), Engine!ClaimKey(batch[j]) = Engine!ClaimKey(c)
      PROVE  Engine!ClaimKey(c) \in DOMAIN new /\ new[Engine!ClaimKey(c)] = c
  <2> DEFINE k == Engine!ClaimKey(c)
             at == WritesOf(batch, k)
  <2>1. at # {} /\ at \in SUBSET (1..Len(batch))
    BY <1>2 DEF WritesOf
  <2>2. k \in DOMAIN new /\ new[k] = batch[Engine!Max(at)]
    BY <1>0, <2>1, WithClaimsAt DEF new
  <2>3. Engine!Max(at) \in at
    <3> HIDE DEF at
    <3> QED BY <1>0, <2>1, MaxOf
  <2>4. /\ Engine!Max(at) \in 1..Len(batch) /\ Engine!ClaimKey(batch[Engine!Max(at)]) = k
    BY <2>3 DEF WritesOf
  <2>5. batch[Engine!Max(at)] \in GivenClaims
    BY <2>4 DEF Given
  <2>6. batch[Engine!Max(at)] = c
    <3> HIDE DEF at
    <3> QED BY <2>4, <2>5 DEF CallsOK
  <2> QED BY <2>2, <2>6
<1>3. ASSUME NEW i \in 1..Len(longer)
      PROVE  /\ longer[i] \in GivenClaims
             /\ Engine!ClaimKey(longer[i]) \in DOMAIN new
             /\ new[Engine!ClaimKey(longer[i])] = longer[i]
  <2>1. CASE i \in 1..Len(order)
    <3> DEFINE c == order[i]
               k == Engine!ClaimKey(c)
    <3>1. longer[i] = c /\ c \in GivenClaims /\ k \in DOMAIN byKey /\ byKey[k] = c
      BY <1>1, <2>1 DEF Held
    <3> HIDE DEF c
    <3>2. CASE \E j \in 1..Len(batch) : Engine!ClaimKey(batch[j]) = k
      BY <1>2, <3>1, <3>2
    <3>3. CASE ~\E j \in 1..Len(batch) : Engine!ClaimKey(batch[j]) = k
      <4>1. WritesOf(batch, k) = {}
        BY <3>3 DEF WritesOf
      <4>2. k \in DOMAIN new /\ new[k] = byKey[k]
        BY <1>0, <3>1, <4>1, WithClaimsAt DEF new
      <4> QED BY <3>1, <4>2
    <3> QED BY <3>2, <3>3
  <2>2. CASE i \notin 1..Len(order)
    <3> DEFINE j == i - Len(order)
    <3>1. j \in 1..Len(batch) /\ i = Len(order) + j
      BY <1>0, <1>1, <1>3, <2>2
    <3>2. longer[i] = batch[j] /\ batch[j] \in GivenClaims
      BY <1>1, <3>1 DEF Given
    <3> HIDE DEF j
    <3> QED BY <1>2, <3>1, <3>2
  <2> QED BY <2>1, <2>2
<1>4. ASSUME NEW k \in DOMAIN new
      PROVE  \E i \in 1..Len(longer) : k = Engine!ClaimKey(longer[i])
  <2>1. k \in DOMAIN byKey \/ \E j \in 1..Len(batch) : k = Engine!ClaimKey(batch[j])
    BY <1>0, <1>4 DEF new, Engine!WithClaims, IsSeq
  <2>2. CASE k \in DOMAIN byKey
    <3>1. PICK i \in 1..Len(order) : k = Engine!ClaimKey(order[i])
      BY <2>2 DEF Held
    <3>2. i \in 1..Len(longer) /\ longer[i] = order[i]
      BY <1>0, <1>1
    <3> QED BY <3>1, <3>2
  <2>3. CASE \E j \in 1..Len(batch) : k = Engine!ClaimKey(batch[j])
    <3>1. PICK j \in 1..Len(batch) : k = Engine!ClaimKey(batch[j])
      BY <2>3
    <3>2. Len(order) + j \in 1..Len(longer) /\ longer[Len(order) + j] = batch[j]
      BY <1>0, <1>1
    <3> QED BY <3>1, <3>2
  <2> QED BY <2>1, <2>2, <2>3
<1> QED BY <1>3, <1>4 DEF Held, new, longer

\* Each row of a sequence index leads to the claim appended there.
Leads(rowsAt, order) ==
    /\ IsSeq(rowsAt) /\ Len(rowsAt) = Len(order)
    /\ \A i \in 1..Len(order) :
         /\ rowsAt[i].key = Engine!ClaimKey(order[i])
         /\ rowsAt[i].claim = {} \/ rowsAt[i].claim = {order[i]}

\* Rows written for a batch continue the index.
LEMMA LeadsAfter ==
    ASSUME NEW rowsAt, NEW order, NEW rows, NEW batch, IsSeq(order), IsSeq(batch),
           Leads(rowsAt, order), Leads(rows, batch)
    PROVE  Leads(rowsAt \o rows, order \o batch)
<1>0. IsSeq(rowsAt) /\ IsSeq(rows) /\ Len(rowsAt) = Len(order) /\ Len(rows) = Len(batch)
  BY DEF Leads
<1>1. /\ IsSeq(rowsAt \o rows) /\ Len(rowsAt \o rows) = Len(order) + Len(batch)
      /\ \A i \in 1..Len(order) : (rowsAt \o rows)[i] = rowsAt[i]
      /\ \A j \in 1..Len(batch) : (rowsAt \o rows)[Len(order) + j] = rows[j]
  <2>1. /\ IsSeq(rowsAt \o rows) /\ Len(rowsAt \o rows) = Len(rowsAt) + Len(rows)
        /\ \A i \in 1..Len(rowsAt) : (rowsAt \o rows)[i] = rowsAt[i]
        /\ \A j \in 1..Len(rows) : (rowsAt \o rows)[Len(rowsAt) + j] = rows[j]
    BY <1>0, Joined
  <2> QED BY ONLY <1>0, <2>1
<1>2. /\ Len(order \o batch) = Len(order) + Len(batch)
      /\ \A i \in 1..Len(order) : (order \o batch)[i] = order[i]
      /\ \A j \in 1..Len(batch) : (order \o batch)[Len(order) + j] = batch[j]
  BY Joined
<1>3. Len(order) \in Nat /\ Len(batch) \in Nat
  BY DEF IsSeq
<1> DEFINE a == rowsAt \o rows
           b == order \o batch
<1> HIDE DEF a, b
<1>4. ASSUME NEW i \in 1..Len(b)
      PROVE  a[i].key = Engine!ClaimKey(b[i]) /\ (a[i].claim = {} \/ a[i].claim = {b[i]})
  <2>1. CASE i \in 1..Len(order)
    BY <1>1, <1>2, <2>1 DEF Leads, a, b
  <2>2. CASE i \notin 1..Len(order)
    <3> DEFINE j == i - Len(order)
    <3>1. j \in 1..Len(batch) /\ i = Len(order) + j
      BY <1>2, <1>3, <1>4, <2>2 DEF b
    <3>2. a[i] = rows[j] /\ b[i] = batch[j]
      BY <1>1, <1>2, <3>1 DEF a, b
    <3> HIDE DEF j
    <3> QED BY <3>1, <3>2 DEF Leads
  <2> QED BY <2>1, <2>2
<1> QED BY <1>1, <1>2, <1>4 DEF Leads, a, b

\* Rows of both forms lead to their claims.
LEMMA RowsLead ==
    ASSUME NEW batch, IsSeq(batch)
    PROVE  /\ Leads([i \in DOMAIN batch |-> Engine!KeyRow(batch[i])], batch)
           /\ Leads([i \in DOMAIN batch |-> Engine!ClaimRow(batch[i])], batch)
<1>1. DOMAIN batch = 1..Len(batch) /\ Len(batch) \in Nat
  BY DEF IsSeq
<1>2. ASSUME NEW rows, rows = [i \in 1..Len(batch) |-> rows[i]],
             \A i \in 1..Len(batch) : /\ rows[i].key = Engine!ClaimKey(batch[i])
                                      /\ rows[i].claim = {} \/ rows[i].claim = {batch[i]}
      PROVE  Leads(rows, batch)
  BY <1>1, <1>2, Tabular DEF Leads
<1>3. Leads([i \in 1..Len(batch) |-> Engine!KeyRow(batch[i])], batch)
  <2> DEFINE rows == [i \in 1..Len(batch) |-> Engine!KeyRow(batch[i])]
  <2>1. /\ rows = [i \in 1..Len(batch) |-> rows[i]]
        /\ \A i \in 1..Len(batch) : rows[i].key = Engine!ClaimKey(batch[i]) /\ rows[i].claim = {}
    BY DEF Engine!KeyRow
  <2> HIDE DEF rows
  <2>2. Leads(rows, batch)
    BY <1>2, <2>1
  <2> QED BY <2>2 DEF rows
<1>4. Leads([i \in 1..Len(batch) |-> Engine!ClaimRow(batch[i])], batch)
  <2> DEFINE rows == [i \in 1..Len(batch) |-> Engine!ClaimRow(batch[i])]
  <2>1. /\ rows = [i \in 1..Len(batch) |-> rows[i]]
        /\ \A i \in 1..Len(batch) : rows[i].key = Engine!ClaimKey(batch[i]) /\ rows[i].claim = {batch[i]}
    BY DEF Engine!ClaimRow
  <2> HIDE DEF rows
  <2>2. Leads(rows, batch)
    BY <1>2, <2>1
  <2> QED BY <2>2 DEF rows
<1> QED BY <1>1, <1>3, <1>4

\* Hence both engines read the same interval.
LEMMA RangesEqual ==
    ASSUME NEW m, NEW s, IsSeq(m.order), s.claims = m.claims, Held(m.claims, m.order),
           s.sequence = Len(m.order), Leads(s.index, m.order), NEW from \in Nat, NEW to \in Nat
    PROVE  Engine!MemoryInRange(m, from, to) = Engine!StoreInRange(s, from, to)
<1> DEFINE n == Len(m.order)
           last == IF to < n THEN to ELSE n
           len == IF from >= last THEN 0 ELSE last - from
<1>0. n \in Nat /\ last \in Nat /\ last <= n
  BY DEF IsSeq
<1>1. ASSUME NEW i \in 1..n
      PROVE  Engine!RowClaim(s, s.index[i]) = m.order[i]
  <2>1. /\ s.index[i].key = Engine!ClaimKey(m.order[i])
        /\ s.index[i].claim = {} \/ s.index[i].claim = {m.order[i]}
        /\ s.claims[Engine!ClaimKey(m.order[i])] = m.order[i]
    BY DEF Leads, Held
  <2>2. CASE s.index[i].claim = {}
    BY <2>1, <2>2 DEF Engine!RowClaim
  <2>3. CASE s.index[i].claim = {m.order[i]}
    BY <2>3 DEF Engine!RowClaim
  <2> QED BY <2>1, <2>2, <2>3
<1>2. Engine!StoreInRange(s, from, to) = [i \in 1..len |-> Engine!RowClaim(s, s.index[from + i])]
  BY DEF Engine!StoreInRange
<1>3. Engine!MemoryInRange(m, from, to) = SubSeq(m.order, from + 1, last)
  BY DEF Engine!MemoryInRange
<1>4. SubSeq(m.order, from + 1, last) = [i \in 1..len |-> m.order[from + i]]
  <2> DEFINE S == {m.order[i] : i \in 1..n}
  <2>1. m.order \in Seq(S)
    BY SeqElements
  <2>2. ASSUME NEW o \in Seq(S), NEW x \in Nat
        PROVE  SubSeq(o, from + 1, x) = [i \in 1..(IF from >= x THEN 0 ELSE x - from) |-> o[from + i]]
    <3> HIDE DEF S
    <3> QED OBVIOUS
  <2> HIDE DEF S, last
  <2> QED BY <1>0, <2>1, <2>2
<1>5. \A i \in 1..len : Engine!RowClaim(s, s.index[from + i]) = m.order[from + i]
  <2>1. \A i \in 1..len : from + i \in 1..n
    BY <1>0
  <2> QED BY <1>1, <2>1
<1> HIDE DEF n, last, len
<1> QED BY <1>2, <1>3, <1>4, <1>5

-----------------------------------------------------------------------------
(* Pages and stamps *)

\* A page of rows ends where the slice does.
SameLog(m, s) == s.runtime = m.runtime /\ IsSeq(m.runtime.changes)

LEMMA PagesEqual ==
    ASSUME NEW m, NEW s, SameLog(m, s),
           NEW last \in 0..Len(m.runtime.changes), NEW after \in Nat, NEW limit \in Nat \ {0}, NEW scope
    PROVE  Engine!MemoryPage(m, last, after, limit, scope) = Engine!StorePage(s, last, after, limit, scope)
<1> DEFINE ch == m.runtime.changes
           n == Len(ch)
           rows == {i \in DOMAIN ch : after < i /\ i <= last /\ i <= after + limit}
           through == IF rows = {} THEN after ELSE Engine!Max(rows)
           ends == {after + limit, last, n}
           end == Engine!Min(ends)
<1>0. n \in Nat /\ DOMAIN ch = 1..n /\ last \in Nat /\ last <= n
  BY DEF SameLog, IsSeq
<1>1. Engine!StorePage(s, last, after, limit, scope)
        = [through |-> through, head |-> last, changes |-> Engine!OfScope(ch, after, through, scope)]
  BY DEF SameLog, Engine!StorePage
<1>2. Engine!MemoryPage(m, last, after, limit, scope)
        = IF after >= last THEN [through |-> after, head |-> last, changes |-> <<>>]
          ELSE [through |-> end, head |-> last, changes |-> Engine!OfScope(ch, after, end, scope)]
  BY DEF Engine!MemoryPage
<1>3. CASE after >= last
  <2>1. rows = {}
    BY <1>0, <1>3
  <2>2. through = after
    BY <2>1
  <2> HIDE DEF through, ch
  <2>3. Engine!OfScope(ch, after, after, scope) = <<>>
    <3>1. {i \in (after + 1)..after : ch[i].scope = scope} = {}
      OBVIOUS
    <3>2. Engine!OfScope(ch, after, after, scope) = [i \in {} |-> ch[i]]
      BY <3>1 DEF Engine!OfScope
    <3>3. [i \in {} |-> ch[i]] = <<>>
      OBVIOUS
    <3> QED BY <3>2, <3>3
  <2> QED BY <1>1, <1>2, <1>3, <2>2, <2>3
<1>4. CASE after < last
  <2>1. PICK e \in ends : \A x \in ends : e <= x
    BY <1>0
  <2>2. end \in ends /\ \A x \in ends : end <= x
    BY <2>1 DEF Engine!Min
  <2>3. end \in Nat /\ end \in rows /\ \A i \in rows : i <= end
    <3> HIDE DEF end, ch, n
    <3> QED BY <1>0, <1>4, <2>2
  <2>4. rows \in SUBSET (1..n)
    BY <1>0
  <2>6. through = end
    <3> HIDE DEF rows, end, n
    <3>1. Engine!Max(rows) = end
      BY <1>0, <2>3, <2>4, MaxIs
    <3> QED BY <2>3, <3>1
  <2>7. ~(after >= last)
    BY <1>0, <1>4
  <2> HIDE DEF through, end, ch
  <2> QED BY <1>1, <1>2, <2>6, <2>7
<1> QED BY <1>0, <1>3, <1>4

\* A stamp is validated against the log up to its cursor.
LEMMA StampedPage ==
    ASSUME NEW s, IsSeq(s.runtime.changes), NEW k \in 0..Len(s.runtime.changes), NEW scope
    PROVE  Engine!StorePage(s, k, 0, k, scope).changes = Engine!OfScope(s.runtime.changes, 0, k, scope)
<1> DEFINE ch == s.runtime.changes
           rows == {i \in DOMAIN ch : 0 < i /\ i <= k /\ i <= 0 + k}
           through == IF rows = {} THEN 0 ELSE Engine!Max(rows)
<1>0. Len(ch) \in Nat /\ DOMAIN ch = 1..Len(ch) /\ k \in Nat /\ k <= Len(ch)
  BY DEF IsSeq
<1>1. Engine!StorePage(s, k, 0, k, scope).changes = Engine!OfScope(ch, 0, through, scope)
  BY DEF Engine!StorePage
<1>2. through = k
  <2>1. CASE k = 0
    <3>1. rows = {}
      BY <1>0, <2>1
    <3> QED BY <2>1, <3>1
  <2>2. CASE k # 0
    <3>1. k \in rows /\ rows \in SUBSET (1..Len(ch)) /\ \A i \in rows : i <= k
      BY <1>0, <2>2
    <3> HIDE DEF rows
    <3>2. Engine!Max(rows) = k
      BY <1>0, <3>1, MaxIs
    <3> QED BY <3>1, <3>2
  <2> QED BY <2>1, <2>2
<1> HIDE DEF through
<1> QED BY <1>1, <1>2

\* The revision that the first k changes of a log leave a scope with.
RevisionIn(ch, k, scope) == Engine!LastRevision(Engine!OfScope(ch, 0, k, scope))
SchemasIn(ch, k, scope) ==
    {i \in 1..k : ch[i].scope = scope /\ ch[i].mutation.kind = "schema"}

\* Only the last schema of the scope matters,
LEMMA RevisionIs ==
    ASSUME NEW ch, NEW k \in Nat, NEW scope, NEW D, D = SchemasIn(ch, k, scope)
    PROVE  RevisionIn(ch, k, scope)
             = IF D = {} THEN {} ELSE {ch[Engine!Max(D)].mutation.registry.revision}
<1> DEFINE page == Engine!OfScope(ch, 0, k, scope)
<1>1. /\ DOMAIN page = {i \in 1..k : ch[i].scope = scope}
      /\ \A i \in DOMAIN page : page[i] = ch[i]
  BY DEF Engine!OfScope
<1>2. {i \in DOMAIN page : page[i].mutation.kind = "schema"} = D
  <2> HIDE DEF page
  <2> QED BY <1>1 DEF SchemasIn
<1>3. RevisionIn(ch, k, scope) = IF D = {} THEN {} ELSE {page[Engine!Max(D)].mutation.registry.revision}
  <2>1. Engine!LastRevision(page) = IF D = {} THEN {} ELSE {page[Engine!Max(D)].mutation.registry.revision}
    <3> HIDE DEF page
    <3> QED BY <1>2 DEF Engine!LastRevision
  <2> QED BY <2>1 DEF RevisionIn
<1>4. D # {} => Engine!Max(D) \in DOMAIN page
  <2>1. D \in SUBSET (1..k) /\ D \subseteq DOMAIN page
    BY <1>1 DEF SchemasIn
  <2> HIDE DEF page
  <2> QED BY <2>1, MaxOf
<1> HIDE DEF page
<1> QED BY <1>1, <1>3, <1>4

\* so that later changes do not.
LEMMA RevisionStays ==
    ASSUME NEW ch, NEW longer, NEW k \in Nat, \A i \in 1..k : longer[i] = ch[i], NEW scope
    PROVE  RevisionIn(longer, k, scope) = RevisionIn(ch, k, scope)
<1>1. SchemasIn(longer, k, scope) = SchemasIn(ch, k, scope)
  BY DEF SchemasIn
<1> DEFINE D == SchemasIn(ch, k, scope)
<1>2. D # {} => Engine!Max(D) \in 1..k
  <2>1. D \in SUBSET (1..k)
    BY DEF SchemasIn
  <2> HIDE DEF D
  <2> QED BY <2>1, MaxOf
<1> HIDE DEF D
<1>3. /\ RevisionIn(ch, k, scope) = IF D = {} THEN {} ELSE {ch[Engine!Max(D)].mutation.registry.revision}
      /\ RevisionIn(longer, k, scope)
           = IF D = {} THEN {} ELSE {longer[Engine!Max(D)].mutation.registry.revision}
  BY <1>1, RevisionIs DEF D
<1> QED BY <1>2, <1>3

\* A stamp is true of the log.
StampOK(ch, read) ==
    /\ read.cursor \in 0..Len(ch)
    /\ read.digest = IF read.cursor = 0 THEN <<>> ELSE <<ch[read.cursor]>>
    /\ read.revision = RevisionIn(ch, read.cursor, read.scope)

\* A stamp stays true while the log grows.
LEMMA StampStays ==
    ASSUME NEW ch, NEW longer, IsSeq(ch), Len(longer) \in Nat, Len(ch) <= Len(longer),
           \A i \in 1..Len(ch) : longer[i] = ch[i], NEW read, StampOK(ch, read)
    PROVE  StampOK(longer, read)
<1>1. Len(ch) \in Nat /\ read.cursor \in Nat /\ read.cursor <= Len(ch)
  BY DEF IsSeq, StampOK
<1>2. RevisionIn(longer, read.cursor, read.scope) = RevisionIn(ch, read.cursor, read.scope)
  <2>1. \A i \in 1..read.cursor : longer[i] = ch[i]
    BY <1>1
  <2> QED BY <1>1, <2>1, RevisionStays
<1> QED BY <1>1, <1>2 DEF StampOK

-----------------------------------------------------------------------------
(* The invariant *)

RuntimeFields == {"changes", "schemas", "records", "relations", "data", "outbox", "outcomes",
                  "audit", "snapshots"}
StoreFields == {"claims", "index", "sequence", "cursor", "digest", "access", "invocations",
                "ordinal", "runtime"}

\* The schemas and the stamps of snapshots are what the changes say.
RuntimeOK(rt) ==
    /\ DOMAIN rt = RuntimeFields /\ IsSeq(rt.changes) /\ DOMAIN rt.schemas = Scopes
    /\ \A scope \in Scopes :
         Engine!RevisionOf(rt.schemas[scope]) = RevisionIn(rt.changes, Len(rt.changes), scope)
    /\ \A h \in rt.snapshots : StampOK(rt.changes, h.read)

MemoryOK(m) ==
    /\ DOMAIN m = {"claims", "order", "runtime"}
    /\ IsSeq(m.order) /\ Held(m.claims, m.order)
    /\ RuntimeOK(m.runtime)

\* A store has the keyspaces of the reference, and in rows of their own what the
\* reference computes.
Agrees(m, s) ==
    /\ DOMAIN s = StoreFields
    /\ s.runtime = m.runtime /\ s.claims = m.claims
    /\ s.sequence = Len(m.order) /\ Leads(s.index, m.order)
    /\ s.cursor = Len(m.runtime.changes)
    /\ s.digest = IF s.cursor = 0 THEN <<>> ELSE <<m.runtime.changes[s.cursor]>>

\* The keyspaces that the reference does not have.
Twins(f, n) == f.access = n.access /\ f.invocations = n.invocations /\ f.ordinal = n.ordinal

Answered(a) == \A i \in DOMAIN a : a[i] = a[1]

EnginesInv ==
    /\ MemoryOK(memory) /\ Agrees(memory, fjall) /\ Agrees(memory, native)
    /\ Twins(fjall, native) /\ Answered(answers)

\* append_batch.
LEMMA AppendKeeps ==
    ASSUME CallsOK, NEW m, MemoryOK(m), NEW batch \in AppendBatches
    PROVE  MemoryOK(Engine!MemoryAppend(m, batch).db)
<1>1. CASE \E i \in DOMAIN batch : ~Engine!ClaimValid(batch[i])
  BY <1>1 DEF Engine!MemoryAppend
<1>2. CASE ~\E i \in DOMAIN batch : ~Engine!ClaimValid(batch[i])
  <2> DEFINE byKey == Engine!WithClaims(m.claims, batch)
             order == m.order \o batch
             d == [m EXCEPT !.claims = byKey, !.order = order]
  <2>1. Engine!MemoryAppend(m, batch).db = d
    BY <1>2 DEF Engine!MemoryAppend
  <2> HIDE DEF byKey, order
  <2>2. Given(batch)
    <3>1. \A i \in 1..Len(batch) : batch[i] \in {batch[j] : j \in DOMAIN batch}
      BY DEF CallsOK, IsSeq
    <3>2. {batch[j] : j \in DOMAIN batch} \in {{b[i] : i \in DOMAIN b} : b \in AppendBatches}
      OBVIOUS
    <3>3. \A i \in 1..Len(batch) : batch[i] \in AppendedClaims
      BY <3>1, <3>2, Zenon DEF AppendedClaims
    <3> QED BY <3>3 DEF CallsOK, Given, GivenClaims
  <2>3. IsSeq(order) /\ Held(byKey, order)
    BY <2>2, Joined, HeldAfter DEF MemoryOK, Given, byKey, order
  <2>4. /\ DOMAIN d = {"claims", "order", "runtime"} /\ d.claims = byKey /\ d.order = order
        /\ d.runtime = m.runtime
    BY DEF MemoryOK
  <2> HIDE DEF d
  <2>5. MemoryOK(d)
    BY <2>3, <2>4 DEF MemoryOK
  <2> QED BY <2>1, <2>5
<1> QED BY <1>1, <1>2

\* A store appends what the reference does.
LEMMA AppendAgrees ==
    ASSUME CallsOK, NEW m, MemoryOK(m), NEW s, Agrees(m, s), NEW batch \in AppendBatches,
           NEW rows, Leads(rows, batch)
    PROVE  /\ Agrees(Engine!MemoryAppend(m, batch).db, Engine!StoreAppend(s, rows, batch).db)
           /\ Engine!MemoryAppend(m, batch).answer = Engine!StoreAppend(s, rows, batch).answer
           /\ Twins(Engine!StoreAppend(s, rows, batch).db, s)
<1>0. IsSeq(batch) /\ batch # <<>> /\ Len(batch) \in Nat
  BY DEF CallsOK, IsSeq
<1>1. CASE \E i \in DOMAIN batch : ~Engine!ClaimValid(batch[i])
  BY <1>1 DEF Engine!MemoryAppend, Engine!StoreAppend, Twins
<1>2. CASE ~\E i \in DOMAIN batch : ~Engine!ClaimValid(batch[i])
  <2> DEFINE byKey == Engine!WithClaims(m.claims, batch)
             order == m.order \o batch
             rowsAt == s.index \o rows
             last == s.sequence + Len(batch)
             d == [m EXCEPT !.claims = byKey, !.order = order]
             e == [s EXCEPT !.claims = byKey, !.sequence = last, !.index = rowsAt]
  <2>1. /\ Engine!MemoryAppend(m, batch).db = d
        /\ Engine!MemoryAppend(m, batch).answer
             = Engine!Appended(Len(m.order) + 1, Len(m.order) + Len(batch))
    BY <1>2 DEF Engine!MemoryAppend
  <2>2. /\ Engine!StoreAppend(s, rows, batch).db = e
        /\ Engine!StoreAppend(s, rows, batch).answer = Engine!Appended(s.sequence + 1, last)
    BY <1>0, <1>2 DEF Engine!StoreAppend, Agrees
  <2> HIDE DEF byKey, order, rowsAt
  <2>3. Leads(rowsAt, order) /\ Len(order) = Len(m.order) + Len(batch)
    BY <1>0, LeadsAfter, Joined DEF MemoryOK, Agrees, rowsAt, order
  <2>4. /\ DOMAIN d = {"claims", "order", "runtime"} /\ d.claims = byKey /\ d.order = order
        /\ d.runtime = m.runtime
    BY DEF MemoryOK
  <2>5. /\ DOMAIN e = StoreFields /\ e.claims = byKey /\ e.sequence = last /\ e.index = rowsAt
        /\ e.runtime = s.runtime /\ e.cursor = s.cursor /\ e.digest = s.digest
        /\ e.access = s.access /\ e.invocations = s.invocations /\ e.ordinal = s.ordinal
    BY DEF Agrees, StoreFields
  <2> HIDE DEF d, e
  <2>6. Agrees(d, e)
    BY <2>3, <2>4, <2>5 DEF Agrees
  <2>7. Twins(e, s)
    BY <2>5 DEF Twins
  <2> QED BY <2>1, <2>2, <2>6, <2>7 DEF Agrees
<1> QED BY <1>1, <1>2

-----------------------------------------------------------------------------
(* commit_runtime *)

\* Without constraints between objects there is nothing to read them for.
LEMMA Unconstrained ==
    ASSUME NEW r, NEW x
    PROVE  /\ ~Engine!ReadsRecords(r) => Engine!RecordsUnique(r, x)
           /\ ~Engine!ReadsRelations(r) => Engine!RelationsWithinLimits(r, x)
<1>1. ASSUME ~Engine!ReadsRecords(r)
      PROVE  Engine!RecordsUnique(r, x)
  BY <1>1 DEF Engine!ReadsRecords, Engine!RecordsUnique
<1>2. ASSUME ~Engine!ReadsRelations(r)
      PROVE  Engine!RelationsWithinLimits(r, x)
  BY <1>2 DEF Engine!ReadsRelations, Engine!RelationsWithinLimits
<1> QED BY <1>1, <1>2

\* What is not read would not have been refused.
LEMMA SameRefusal ==
    ASSUME NEW rt, NEW c, NEW cursor, NEW objs, NEW relations, NEW some, NEW few,
           Engine!ReadsRecords(Engine!Effective(rt, c)) => some = objs,
           Engine!ReadsRelations(Engine!Effective(rt, c)) => few = relations
    PROVE  Engine!Refusal(rt, c, cursor, some, few) = Engine!Refusal(rt, c, cursor, objs, relations)
<1> DEFINE r == Engine!Effective(rt, c)
<1>1. Engine!RecordsUnique(r, Engine!Values(Engine!Overlaid(some, c.mutations, "record")))
        <=> Engine!RecordsUnique(r, Engine!Values(Engine!Overlaid(objs, c.mutations, "record")))
  BY Unconstrained
<1>2. Engine!RelationsWithinLimits(r, Engine!Values(Engine!Overlaid(few, c.mutations, "relation")))
        <=> Engine!RelationsWithinLimits(r, Engine!Values(Engine!Overlaid(relations, c.mutations, "relation")))
  BY Unconstrained
<1> HIDE DEF r
<1>3. Engine!ObjectsValid(r, c.mutations, some, few) <=> Engine!ObjectsValid(r, c.mutations, objs, relations)
  BY <1>1, <1>2 DEF Engine!ObjectsValid
<1> QED BY <1>3 DEF Engine!Refusal, r

\* A set of at most one element has one element.
LEMMA AtMostOne ==
    ASSUME NEW S, IsFiniteSet(S), Cardinality(S) <= 1, NEW a \in S, NEW b \in S
    PROVE  a = b
<1>1. IsFiniteSet(S \ {a}) /\ Cardinality(S \ {a}) = Cardinality(S) - 1
  BY FS_RemoveElement
<1>2. Cardinality(S) \in Nat /\ Cardinality(S \ {a}) \in Nat
  BY <1>1, FS_CardinalityType
<1>3. S \ {a} = {}
  BY <1>1, <1>2, FS_EmptySet
<1> QED BY <1>3

\* The instance counts as this module does.
LEMMA SameCardinality ==
    ASSUME NEW S
    PROVE  Engine!Cardinality(S) = Cardinality(S)
BY DEF Engine!Cardinality, Cardinality

\* A commit that may be accepted: valid, and under a schema.
Acceptable(rt, c) ==
    /\ c.scope \in Scopes /\ IsSeq(c.mutations) /\ c.mutations # <<>>
    /\ Cardinality(Engine!Positions(c.mutations, "schema")) <= 1
    /\ Engine!Effective(rt, c) # Engine!NoSchema

\* The changes it appends.
ChangesOf(c, cursor) == [i \in DOMAIN c.mutations |-> Engine!Change(c, cursor, i)]
GoesOn(ch, c, longer) == longer = ch \o ChangesOf(c, Len(ch))

\* The log after a commit.
LEMMA ChangesAppended ==
    ASSUME NEW ch, IsSeq(ch), NEW c, IsSeq(c.mutations), c.mutations # <<>>,
           NEW longer, GoesOn(ch, c, longer)
    PROVE  /\ IsSeq(longer) /\ Len(longer) = Len(ch) + Len(c.mutations)
           /\ Len(ch) \in Nat /\ Len(c.mutations) \in Nat \ {0}
           /\ \A i \in 1..Len(ch) : longer[i] = ch[i]
           /\ \A j \in 1..Len(c.mutations) : longer[Len(ch) + j] = Engine!Change(c, Len(ch), j)
<1> DEFINE new == ChangesOf(c, Len(ch))
           n == Len(c.mutations)
<1>1. n \in Nat /\ DOMAIN c.mutations = 1..n /\ Len(ch) \in Nat
  BY DEF IsSeq
<1>2. n # 0
  <2>1. n = 0 => c.mutations = <<>>
    BY DEF IsSeq
  <2> QED BY <2>1
<1>3. new = [i \in 1..n |-> new[i]] /\ \A i \in 1..n : new[i] = Engine!Change(c, Len(ch), i)
  BY <1>1 DEF ChangesOf
<1>6. longer = ch \o new
  BY DEF GoesOn
<1> HIDE DEF new
<1>4. IsSeq(new) /\ Len(new) = n
  BY <1>1, <1>3, Tabular
<1>5. /\ IsSeq(longer) /\ Len(longer) = Len(ch) + Len(new)
      /\ \A i \in 1..Len(ch) : longer[i] = ch[i]
      /\ \A j \in 1..Len(new) : longer[Len(ch) + j] = new[j]
  <2>1. /\ IsSeq(ch \o new) /\ Len(ch \o new) = Len(ch) + Len(new)
        /\ \A i \in 1..Len(ch) : (ch \o new)[i] = ch[i]
        /\ \A j \in 1..Len(new) : (ch \o new)[Len(ch) + j] = new[j]
    <3>1. IsSeq(new)
      BY <1>4
    <3> QED BY ONLY IsSeq(ch), <3>1, Joined, SMTT(30)
  <2> QED BY ONLY <1>6, <2>1, Zenon
<1> QED BY <1>1, <1>2, <1>3, <1>4, <1>5

\* The schema that then governs is the last one in the log.
LEMMA RevisionAfter ==
    ASSUME NEW rt, NEW c, Acceptable(rt, c), NEW ch, IsSeq(ch), NEW scope \in Scopes,
           Engine!RevisionOf(rt.schemas[scope]) = RevisionIn(ch, Len(ch), scope),
           NEW longer, GoesOn(ch, c, longer)
    PROVE  Engine!RevisionOf(IF scope = c.scope THEN Engine!Effective(rt, c) ELSE rt.schemas[scope])
             = RevisionIn(longer, Len(longer), scope)
<1> DEFINE n == Len(ch)
           k == Len(c.mutations)
           D == SchemasIn(ch, n, scope)
           E == SchemasIn(longer, Len(longer), scope)
<1>0. IsSeq(c.mutations) /\ c.mutations # <<>>
  BY DEF Acceptable
<1>1. /\ Len(longer) = n + k /\ n \in Nat /\ k \in Nat \ {0}
      /\ \A i \in 1..n : longer[i] = ch[i]
      /\ \A j \in 1..k : longer[n + j] = Engine!Change(c, n, j)
  <2>1. /\ Len(longer) = Len(ch) + Len(c.mutations)
        /\ Len(ch) \in Nat /\ Len(c.mutations) \in Nat \ {0}
        /\ \A i \in 1..Len(ch) : longer[i] = ch[i]
        /\ \A j \in 1..Len(c.mutations) : longer[Len(ch) + j] = Engine!Change(c, Len(ch), j)
    BY ONLY IsSeq(ch), GoesOn(ch, c, longer), <1>0, ChangesAppended
  <2> QED BY <2>1
<1> HIDE DEF n, k
<1>2. \A j \in 1..k : longer[n + j].scope = c.scope /\ longer[n + j].mutation = c.mutations[j]
  <2>1. \A j \in 1..k : /\ Engine!Change(c, n, j).scope = c.scope
                        /\ Engine!Change(c, n, j).mutation = c.mutations[j]
    BY DEF Engine!Change
  <2> QED BY ONLY <1>1, <2>1
<1>3. RevisionIn(ch, n, scope) = IF D = {} THEN {} ELSE {ch[Engine!Max(D)].mutation.registry.revision}
  <2>1. n \in Nat
    BY <1>1
  <2> QED BY ONLY <2>1, RevisionIs
<1>4. RevisionIn(longer, Len(longer), scope)
        = IF E = {} THEN {} ELSE {longer[Engine!Max(E)].mutation.registry.revision}
  <2>1. Len(longer) \in Nat
    BY <1>1
  <2> QED BY ONLY <2>1, RevisionIs
<1>5. DOMAIN c.mutations = 1..k
  BY DEF Acceptable, IsSeq, k
<1>6. E = D \cup {n + j : j \in {j \in 1..k : c.scope = scope /\ c.mutations[j].kind = "schema"}}
  <2>1. ASSUME NEW i \in 1..(n + k)
        PROVE  i \in E <=> \/ i \in D
                           \/ \E j \in 1..k : i = n + j /\ c.scope = scope /\ c.mutations[j].kind = "schema"
    <3>1. CASE i \in 1..n
      BY <1>1, <3>1 DEF SchemasIn
    <3>2. CASE i \notin 1..n
      <4> DEFINE j == i - n
      <4>1. j \in 1..k /\ i = n + j
        BY <1>1, <3>2
      <4> HIDE DEF j
      <4>2. longer[i].scope = c.scope /\ longer[i].mutation = c.mutations[j]
        BY <1>2, <4>1
      <4>3. i \in E <=> c.scope = scope /\ c.mutations[j].kind = "schema"
        BY <1>1, <2>1, <4>2 DEF SchemasIn
      <4>4. i \notin D
        BY <3>2 DEF SchemasIn
      <4>5. \A l \in 1..k : i = n + l => l = j
        BY <1>1, <4>1
      <4> QED BY <4>1, <4>3, <4>4, <4>5
    <3> QED BY <3>1, <3>2
  <2>2. E \subseteq 1..(n + k) /\ D \subseteq 1..(n + k)
    BY <1>1 DEF SchemasIn
  <2>3. \A j \in 1..k : n + j \in 1..(n + k)
    BY <1>1
  <2> HIDE DEF D, E
  <2> QED BY <2>1, <2>2, <2>3
<1>7. D \in SUBSET (1..n)
  BY DEF SchemasIn
<1>8. CASE ~(c.scope = scope /\ Engine!Positions(c.mutations, "schema") # {})
  <2>1. E = D
    BY <1>5, <1>6, <1>8 DEF Engine!Positions
  <2>2. D # {} => Engine!Max(D) \in 1..n
    <3> HIDE DEF D
    <3> QED BY <1>1, <1>7, MaxOf
  <2>3. RevisionIn(longer, Len(longer), scope) = RevisionIn(ch, n, scope)
    <3> HIDE DEF D, E
    <3> QED BY <1>1, <1>3, <1>4, <2>1, <2>2
  <2>4. scope = c.scope => Engine!Effective(rt, c) = rt.schemas[scope]
    <3>1. scope = c.scope => Engine!Registries(c) = {}
      BY <1>8 DEF Engine!Registries
    <3> QED BY <3>1 DEF Engine!Effective
  <2> QED BY <2>3, <2>4 DEF n
<1>9. CASE c.scope = scope /\ Engine!Positions(c.mutations, "schema") # {}
  <2>1. PICK p \in Engine!Positions(c.mutations, "schema") : TRUE
    BY <1>9
  <2>2. Engine!Positions(c.mutations, "schema") = {p}
    <3>1. Engine!Positions(c.mutations, "schema") \subseteq 1..k
      BY <1>5 DEF Engine!Positions
    <3>2. IsFiniteSet(1..k)
      BY <1>1, FS_Interval
    <3>3. IsFiniteSet(Engine!Positions(c.mutations, "schema"))
      BY <3>1, <3>2, FS_Subset
    <3>4. \A q \in Engine!Positions(c.mutations, "schema") : q = p
      BY <2>1, <3>3, AtMostOne DEF Acceptable
    <3> QED BY <2>1, <3>4
  <2>3. p \in 1..k /\ c.mutations[p].kind = "schema"
    BY <1>5 DEF Engine!Positions
  <2>4. Engine!Effective(rt, c) = c.mutations[p].registry
    <3>1. Engine!Registries(c) = {c.mutations[p].registry}
      BY <2>2 DEF Engine!Registries
    <3> QED BY <3>1 DEF Engine!Effective
  <2>5. n + p \in E /\ (\A i \in E : i <= n + p) /\ E \in SUBSET (1..(n + k))
    <3>1. {j \in 1..k : c.scope = scope /\ c.mutations[j].kind = "schema"} = {p}
      BY <1>5, <1>9, <2>2, <2>3 DEF Engine!Positions
    <3>2. E = D \cup {n + p}
      <4> HIDE DEF D, E
      <4> QED BY <1>6, <3>1
    <3> HIDE DEF D, E
    <3>3. \A i \in D : i \in 1..(n + k) /\ i <= n + p
      BY <1>1, <1>7, <2>3
    <3>4. n + p \in 1..(n + k) /\ n + p <= n + p
      BY <1>1, <2>3
    <3> QED BY <3>2, <3>3, <3>4
  <2>6. Engine!Max(E) = n + p
    <3> HIDE DEF E
    <3>1. n + k \in Nat
      BY <1>1
    <3> QED BY <2>5, <3>1, MaxIs
  <2>7. RevisionIn(longer, Len(longer), scope) = {c.mutations[p].registry.revision}
    <3> HIDE DEF E, D
    <3> QED BY <1>2, <1>4, <2>3, <2>5, <2>6
  <2>8. Engine!RevisionOf(Engine!Effective(rt, c)) = {c.mutations[p].registry.revision}
    BY <2>4 DEF Acceptable, Engine!RevisionOf
  <2> QED BY <1>9, <2>7, <2>8
<1> QED BY <1>8, <1>9

\* The runtime after it.
Accepted(rt, c, new) == \E sequence : new = Engine!Applied(rt, c, Len(rt.changes), sequence)

\* An accepted commit leaves schemas and stamps true.
LEMMA AppliedOK ==
    ASSUME NEW rt, RuntimeOK(rt), NEW c, Acceptable(rt, c), NEW new, Accepted(rt, c, new)
    PROVE  RuntimeOK(new) /\ GoesOn(rt.changes, c, new.changes)
<1> DEFINE ch == rt.changes
           longer == ch \o ChangesOf(c, Len(ch))
<1>1. DOMAIN rt = RuntimeFields /\ IsSeq(ch) /\ DOMAIN rt.schemas = Scopes /\ c.scope \in Scopes
  BY DEF RuntimeOK, Acceptable
<1>2. /\ DOMAIN new = RuntimeFields /\ new.changes = longer /\ new.snapshots = rt.snapshots
      /\ new.schemas = [rt.schemas EXCEPT ![c.scope] = Engine!Effective(rt, c)]
  <2>1. PICK sequence : new = Engine!Applied(rt, c, Len(rt.changes), sequence)
    BY DEF Accepted
  <2> QED BY <1>1, <2>1 DEF Engine!Applied, ChangesOf, RuntimeFields
<1>7. GoesOn(ch, c, longer)
  BY DEF GoesOn
<1> HIDE DEF longer, ch
<1>3. /\ IsSeq(longer) /\ Len(longer) \in Nat /\ Len(ch) \in Nat /\ Len(ch) <= Len(longer)
      /\ \A i \in 1..Len(ch) : longer[i] = ch[i]
  <2>1. IsSeq(c.mutations) /\ c.mutations # <<>>
    BY DEF Acceptable
  <2>2. /\ IsSeq(longer) /\ Len(longer) = Len(ch) + Len(c.mutations)
        /\ Len(ch) \in Nat /\ Len(c.mutations) \in Nat \ {0}
        /\ \A i \in 1..Len(ch) : longer[i] = ch[i]
    BY ONLY <1>1, <1>7, <2>1, ChangesAppended
  <2> QED BY ONLY <2>2
<1>4. /\ DOMAIN new.schemas = Scopes
      /\ \A scope \in Scopes :
           new.schemas[scope] = IF scope = c.scope THEN Engine!Effective(rt, c) ELSE rt.schemas[scope]
  BY <1>1, <1>2
<1>5. ASSUME NEW scope \in Scopes
      PROVE  Engine!RevisionOf(new.schemas[scope]) = RevisionIn(longer, Len(longer), scope)
  <2>1. Engine!RevisionOf(rt.schemas[scope]) = RevisionIn(ch, Len(ch), scope)
    BY DEF RuntimeOK, ch
  <2>2. Engine!RevisionOf(IF scope = c.scope THEN Engine!Effective(rt, c) ELSE rt.schemas[scope])
          = RevisionIn(longer, Len(longer), scope)
    BY ONLY <1>1, <1>7, <2>1, Acceptable(rt, c), scope \in Scopes, RevisionAfter
  <2> QED BY <1>4, <2>2
<1>6. \A h \in new.snapshots : StampOK(longer, h.read)
  <2>1. \A h \in new.snapshots : StampOK(ch, h.read)
    BY <1>2 DEF RuntimeOK, ch
  <2> QED BY ONLY <1>1, <1>3, <2>1, StampStays
<1>8. RuntimeOK(new)
  BY <1>2, <1>3, <1>4, <1>5, <1>6 DEF RuntimeOK
<1> QED BY <1>2, <1>7, <1>8 DEF ch

MemoryRefusal(m, c) ==
    Engine!Refusal(m.runtime, c, Len(m.runtime.changes), m.runtime.records[c.scope],
                   m.runtime.relations[c.scope])

\* What a client may commit.
Committable(c) ==
    \E scope \in Scopes, cursor \in Nat, body \in Bodies : c = Engine!Commit(scope, cursor, body)

\* A commit holds claims the engines are given.
LEMMA CommitGiven ==
    ASSUME CallsOK, NEW c, Committable(c)
    PROVE  c.scope \in Scopes /\ IsSeq(c.mutations) /\ Given(Engine!Claims(c.mutations))
<1>1. PICK scope \in Scopes, cursor \in Nat, body \in Bodies : c = Engine!Commit(scope, cursor, body)
  BY DEF Committable
<1>2. c.scope = scope /\ c.mutations = body
  BY <1>1 DEF Engine!Commit
<1>3. IsSeq(body)
  BY DEF CallsOK
<1>4. \A j \in DOMAIN body : body[j].kind = "claim" => body[j].claim \in GivenClaims
  <2> DEFINE P == {body[i].claim : i \in Engine!Positions(body, "claim")}
  <2>1. \A j \in DOMAIN body : body[j].kind = "claim" => body[j].claim \in P
    BY DEF Engine!Positions
  <2>2. P \in {{b[i].claim : i \in Engine!Positions(b, "claim")} : b \in Bodies}
    OBVIOUS
  <2> HIDE DEF P
  <2>3. P \subseteq CommittedClaims
    BY <2>2 DEF CommittedClaims
  <2>4. P \subseteq GivenClaims
    BY <2>3 DEF GivenClaims
  <2> QED BY ONLY <2>1, <2>4
<1> DEFINE given == Engine!Claims(body)
<1>5. /\ IsSeq(given)
      /\ \A i \in 1..Len(given) : \E j \in DOMAIN body : body[j].kind = "claim" /\ given[i] = body[j].claim
  BY <1>3, ClaimsOfMutations
<1> HIDE DEF given
<1>6. Given(given)
  BY <1>4, <1>5 DEF Given
<1> QED BY <1>2, <1>3, <1>6 DEF given

\* What is not refused was acceptable.
LEMMA AcceptedIsAcceptable ==
    ASSUME CallsOK, NEW m, NEW c, Committable(c), MemoryRefusal(m, c) = "none"
    PROVE  Acceptable(m.runtime, c)
<1>1. /\ Engine!CommitValid(c.mutations)
      /\ Engine!Effective(m.runtime, c) # Engine!NoSchema
  BY DEF MemoryRefusal, Engine!Refusal
<1>2. /\ c.mutations # <<>> /\ Cardinality(Engine!Positions(c.mutations, "schema")) <= 1
  BY <1>1, SameCardinality DEF Engine!CommitValid
<1> QED BY <1>1, <1>2, CommitGiven DEF Acceptable

\* A store refuses what the reference refuses.
LEMMA StoreRefusal ==
    ASSUME NEW m, NEW s, Agrees(m, s), NEW c
    PROVE  /\ MemoryRefusal(m, c) # "none" =>
                Engine!StoreCommit(s, c) = [db |-> s, answer |-> Engine!Refused(MemoryRefusal(m, c))]
           /\ MemoryRefusal(m, c) = "none" =>
                Engine!StoreCommit(s, c)
                  = [db |-> Engine!StoreApplied(s, c), answer |-> Engine!Committed(c, s.cursor, s.sequence)]
<1> DEFINE rt == s.runtime
           schema == Engine!Effective(rt, c)
           known == schema # Engine!NoSchema
           some == IF known /\ Engine!ReadsRecords(schema) THEN rt.records[c.scope] ELSE <<>>
           few == IF known /\ Engine!ReadsRelations(schema) THEN rt.relations[c.scope] ELSE <<>>
           refusal == Engine!Refusal(rt, c, s.cursor, some, few)
<1>1. Engine!StoreCommit(s, c)
        = IF refusal # "none" THEN [db |-> s, answer |-> Engine!Refused(refusal)]
          ELSE [db |-> Engine!StoreApplied(s, c), answer |-> Engine!Committed(c, s.cursor, s.sequence)]
  BY DEF Engine!StoreCommit
<1>2. ~Engine!ReadsRecords(Engine!NoSchema) /\ ~Engine!ReadsRelations(Engine!NoSchema)
  BY DEF Engine!ReadsRecords, Engine!ReadsRelations, Engine!NoSchema, Engine!Registry
<1>3. /\ Engine!ReadsRecords(schema) => some = rt.records[c.scope]
      /\ Engine!ReadsRelations(schema) => few = rt.relations[c.scope]
  <2> HIDE DEF schema
  <2> QED BY <1>2
<1> HIDE DEF some, few
<1>4. refusal = Engine!Refusal(rt, c, s.cursor, rt.records[c.scope], rt.relations[c.scope])
  BY ONLY <1>3, SameRefusal
<1>5. refusal = MemoryRefusal(m, c)
  BY <1>4 DEF MemoryRefusal, Agrees
<1> HIDE DEF refusal
<1> QED BY <1>1, <1>5

\* The reference commits what it does not refuse.
LEMMA MemoryCommits ==
    ASSUME NEW m, NEW c
    PROVE  /\ MemoryRefusal(m, c) # "none" =>
                Engine!MemoryCommit(m, c) = [db |-> m, answer |-> Engine!Refused(MemoryRefusal(m, c))]
           /\ MemoryRefusal(m, c) = "none" =>
                Engine!MemoryCommit(m, c)
                  = [db |-> Engine!MemoryApplied(m, c),
                     answer |-> Engine!Committed(c, Len(m.runtime.changes), Len(m.order))]
BY DEF MemoryRefusal, Engine!MemoryCommit

\* The reference after an accepted commit.
LEMMA MemoryAfter ==
    ASSUME NEW m, MemoryOK(m), NEW c, NEW d, d = Engine!MemoryApplied(m, c)
    PROVE  /\ DOMAIN d = {"claims", "order", "runtime"}
           /\ d.runtime = Engine!Applied(m.runtime, c, Len(m.runtime.changes), Len(m.order))
           /\ d.claims = Engine!WithClaims(m.claims, Engine!Claims(c.mutations))
           /\ d.order = m.order \o Engine!Claims(c.mutations)
BY DEF MemoryOK, Engine!MemoryApplied

\* A store after an accepted commit.
LEMMA StoreAfter ==
    ASSUME NEW m, NEW s, Agrees(m, s), NEW c, NEW e, e = Engine!StoreApplied(s, c)
    PROVE  LET given == Engine!Claims(c.mutations)
               n == Len(c.mutations)
           IN  /\ DOMAIN e = StoreFields
               /\ e.runtime = Engine!Applied(s.runtime, c, s.cursor, s.sequence)
               /\ e.claims = Engine!WithClaims(s.claims, given)
               /\ e.index = s.index \o [i \in DOMAIN given |-> Engine!KeyRow(given[i])]
               /\ e.sequence = s.sequence + Len(given) /\ e.cursor = s.cursor + n
               /\ e.digest = <<Engine!Change(c, s.cursor, n)>>
               /\ Twins(e, s)
BY DEF Agrees, StoreFields, Engine!StoreApplied, Twins

\* Any commit keeps the reference sound,
LEMMA CommitKeepsMemory ==
    ASSUME CallsOK, NEW m, MemoryOK(m), NEW c, Committable(c)
    PROVE  MemoryOK(Engine!MemoryCommit(m, c).db)
<1>1. CASE MemoryRefusal(m, c) # "none"
  BY <1>1, MemoryCommits
<1>2. CASE MemoryRefusal(m, c) = "none"
  <2> DEFINE d == Engine!MemoryApplied(m, c)
             given == Engine!Claims(c.mutations)
  <2>1. Engine!MemoryCommit(m, c).db = d
    BY <1>2, MemoryCommits
  <2>2. /\ DOMAIN d = {"claims", "order", "runtime"}
        /\ d.runtime = Engine!Applied(m.runtime, c, Len(m.runtime.changes), Len(m.order))
        /\ d.claims = Engine!WithClaims(m.claims, given)
        /\ d.order = m.order \o given
    BY MemoryAfter
  <2>3. Given(given)
    BY CommitGiven
  <2> HIDE DEF d, given
  <2>4. IsSeq(m.order) /\ Held(m.claims, m.order) /\ RuntimeOK(m.runtime)
    BY DEF MemoryOK
  <2>5. IsSeq(d.order)
    <3>1. IsSeq(given)
      BY <2>3 DEF Given
    <3>2. IsSeq(m.order \o given)
      BY ONLY <2>4, <3>1, Joined
    <3> QED BY ONLY <2>2, <3>2
  <2>6. Held(d.claims, d.order)
    <3>1. Held(Engine!WithClaims(m.claims, given), m.order \o given)
      BY ONLY CallsOK, <2>3, <2>4, HeldAfter
    <3> QED BY ONLY <2>2, <3>1
  <2>7. RuntimeOK(d.runtime)
    <3>1. Acceptable(m.runtime, c)
      BY <1>2, AcceptedIsAcceptable
    <3>2. Accepted(m.runtime, c, d.runtime)
      BY <2>2 DEF Accepted
    <3> QED BY ONLY <2>4, <3>1, <3>2, AppliedOK
  <2>8. MemoryOK(d)
    BY <2>2, <2>5, <2>6, <2>7 DEF MemoryOK
  <2> QED BY <2>1, <2>8
<1> QED BY <1>1, <1>2

\* and the stores in agreement with it.
LEMMA CommitAgrees ==
    ASSUME CallsOK, NEW m, MemoryOK(m), NEW s, Agrees(m, s), NEW c, Committable(c)
    PROVE  /\ Agrees(Engine!MemoryCommit(m, c).db, Engine!StoreCommit(s, c).db)
           /\ Engine!MemoryCommit(m, c).answer = Engine!StoreCommit(s, c).answer
           /\ Twins(Engine!StoreCommit(s, c).db, s)
<1>1. CASE MemoryRefusal(m, c) # "none"
  BY <1>1, MemoryCommits, StoreRefusal DEF Twins
<1>2. CASE MemoryRefusal(m, c) = "none"
  <2> DEFINE d == Engine!MemoryApplied(m, c)
             e == Engine!StoreApplied(s, c)
             given == Engine!Claims(c.mutations)
             rows == [i \in DOMAIN given |-> Engine!KeyRow(given[i])]
             ch == m.runtime.changes
             n == Len(c.mutations)
  <2>1. /\ Engine!MemoryCommit(m, c).db = d
        /\ Engine!MemoryCommit(m, c).answer = Engine!Committed(c, Len(ch), Len(m.order))
    BY <1>2, MemoryCommits
  <2>2. /\ Engine!StoreCommit(s, c).db = e
        /\ Engine!StoreCommit(s, c).answer = Engine!Committed(c, s.cursor, s.sequence)
    BY <1>2, StoreRefusal
  <2>3. /\ d.runtime = Engine!Applied(m.runtime, c, Len(ch), Len(m.order))
        /\ d.claims = Engine!WithClaims(m.claims, given)
        /\ d.order = m.order \o given
    BY MemoryAfter
  <2>4. /\ DOMAIN e = StoreFields
        /\ e.runtime = Engine!Applied(s.runtime, c, s.cursor, s.sequence)
        /\ e.claims = Engine!WithClaims(s.claims, given)
        /\ e.index = s.index \o rows
        /\ e.sequence = s.sequence + Len(given) /\ e.cursor = s.cursor + n
        /\ e.digest = <<Engine!Change(c, s.cursor, n)>>
        /\ Twins(e, s)
    BY StoreAfter
  <2>5. IsSeq(given) /\ Leads(rows, given)
    BY CommitGiven, RowsLead DEF Given
  <2>6. /\ s.runtime = m.runtime /\ s.claims = m.claims /\ s.sequence = Len(m.order)
        /\ Leads(s.index, m.order) /\ s.cursor = Len(ch)
    BY DEF Agrees
  <2>7. IsSeq(m.order) /\ RuntimeOK(m.runtime) /\ IsSeq(ch)
    BY DEF MemoryOK, RuntimeOK
  <2>8. Acceptable(m.runtime, c)
    BY <1>2, AcceptedIsAcceptable
  <2> HIDE DEF d, e, given, rows
  <2>9. Leads(e.index, d.order) /\ e.sequence = Len(d.order)
    <3>1. Leads(s.index \o rows, m.order \o given)
      BY ONLY <2>5, <2>6, <2>7, LeadsAfter
    <3>2. Len(m.order \o given) = Len(m.order) + Len(given)
      BY ONLY <2>5, <2>7, Joined
    <3> QED BY ONLY <2>3, <2>4, <2>6, <3>1, <3>2
  <2>10. e.runtime = d.runtime /\ e.claims = d.claims
    BY ONLY <2>3, <2>4, <2>6
  <2>11. GoesOn(ch, c, d.runtime.changes)
    <3>1. Accepted(m.runtime, c, d.runtime)
      BY <2>3 DEF Accepted
    <3> QED BY ONLY <2>7, <2>8, <3>1, AppliedOK
  <2>12. /\ Len(d.runtime.changes) = Len(ch) + n /\ Len(ch) \in Nat /\ n \in Nat \ {0}
         /\ \A j \in 1..n : d.runtime.changes[Len(ch) + j] = Engine!Change(c, Len(ch), j)
    <3>1. IsSeq(c.mutations) /\ c.mutations # <<>>
      BY <2>8 DEF Acceptable
    <3> DEFINE longer == d.runtime.changes
    <3>2. GoesOn(ch, c, longer)
      BY <2>11
    <3> HIDE DEF ch, longer
    <3>3. /\ Len(longer) = Len(ch) + Len(c.mutations)
          /\ Len(ch) \in Nat /\ Len(c.mutations) \in Nat \ {0}
          /\ \A j \in 1..Len(c.mutations) : longer[Len(ch) + j] = Engine!Change(c, Len(ch), j)
      BY ONLY <2>7, <3>1, <3>2, ChangesAppended
    <3> QED BY ONLY <3>3 DEF longer
  <2>13. /\ e.cursor = Len(d.runtime.changes) /\ e.cursor # 0
         /\ e.digest = <<d.runtime.changes[e.cursor]>>
    <3> HIDE DEF ch, n
    <3>1. e.cursor = Len(ch) + n /\ e.cursor = Len(d.runtime.changes)
      BY ONLY <2>4, <2>6, <2>12
    <3>2. d.runtime.changes[Len(ch) + n] = Engine!Change(c, Len(ch), n)
      BY ONLY <2>12
    <3>3. Len(ch) + n # 0
      BY ONLY <2>12
    <3>4. e.digest = <<Engine!Change(c, Len(ch), n)>>
      BY ONLY <2>4, <2>6
    <3> QED BY ONLY <3>1, <3>2, <3>3, <3>4
  <2>14. Agrees(d, e)
    BY ONLY <2>4, <2>9, <2>10, <2>13 DEF Agrees
  <2>15. Engine!Committed(c, Len(ch), Len(m.order)) = Engine!Committed(c, s.cursor, s.sequence)
    BY ONLY <2>6
  <2> QED BY ONLY <2>1, <2>2, <2>4, <2>14, <2>15
<1> QED BY <1>1, <1>2

-----------------------------------------------------------------------------
(* The other calls *)

\* Both engines stamp the same, and what they stamp is true.
LEMMA StampsEqual ==
    ASSUME NEW m, MemoryOK(m), NEW s, Agrees(m, s), NEW scope \in Scopes
    PROVE  /\ Engine!MemoryStamp(m, scope) = Engine!StoreStamp(s, scope)
           /\ StampOK(m.runtime.changes, Engine!MemoryStamp(m, scope))
<1> DEFINE ch == m.runtime.changes
           n == Len(ch)
           read == Engine!MemoryStamp(m, scope)
<1>1. IsSeq(ch) /\ n \in Nat /\ (ch = <<>> <=> n = 0)
  BY DEF MemoryOK, RuntimeOK, IsSeq
<1>2. read = [scope |-> scope, revision |-> Engine!RevisionOf(m.runtime.schemas[scope]), cursor |-> n,
              digest |-> IF n = 0 THEN <<>> ELSE <<ch[n]>>]
  BY <1>1 DEF Engine!MemoryStamp, Engine!Last
<1>3. Engine!StoreStamp(s, scope)
        = [scope |-> scope, revision |-> Engine!RevisionOf(m.runtime.schemas[scope]), cursor |-> n,
           digest |-> IF n = 0 THEN <<>> ELSE <<ch[n]>>]
  BY DEF Engine!StoreStamp, Agrees
<1>4. Engine!RevisionOf(m.runtime.schemas[scope]) = RevisionIn(ch, n, scope)
  BY DEF MemoryOK, RuntimeOK
<1> HIDE DEF ch, read
<1>5. StampOK(ch, read)
  BY <1>1, <1>2, <1>4 DEF StampOK
<1> QED BY <1>2, <1>3, <1>5 DEF ch, read

\* Snapshots that change and stay true of the log.
Become(s, e, new) == e = [s EXCEPT !.runtime.snapshots = new]

LEMMA SnapshotsChange ==
    ASSUME NEW m, MemoryOK(m), NEW new, \A h \in new : StampOK(m.runtime.changes, h.read),
           NEW d, Become(m, d, new),
           NEW s, Agrees(m, s), NEW e, Become(s, e, new)
    PROVE  MemoryOK(d) /\ Agrees(d, e) /\ Twins(e, s)
<1>1. /\ DOMAIN d = {"claims", "order", "runtime"} /\ d.claims = m.claims /\ d.order = m.order
      /\ d.runtime = [m.runtime EXCEPT !.snapshots = new]
  BY DEF MemoryOK, Become
<1>2. /\ DOMAIN e = StoreFields /\ e.claims = s.claims /\ e.index = s.index /\ e.sequence = s.sequence
      /\ e.cursor = s.cursor /\ e.digest = s.digest
      /\ e.access = s.access /\ e.invocations = s.invocations /\ e.ordinal = s.ordinal
      /\ e.runtime = [s.runtime EXCEPT !.snapshots = new]
  BY DEF Agrees, StoreFields, Become
<1>3. /\ DOMAIN d.runtime = RuntimeFields /\ d.runtime.changes = m.runtime.changes
      /\ d.runtime.schemas = m.runtime.schemas /\ d.runtime.snapshots = new
  BY <1>1 DEF MemoryOK, RuntimeOK, RuntimeFields
<1>4. RuntimeOK(d.runtime)
  BY <1>3 DEF MemoryOK, RuntimeOK
<1>5. MemoryOK(d)
  BY <1>1, <1>4 DEF MemoryOK
<1>6. e.runtime = d.runtime
  BY <1>1, <1>2 DEF Agrees
<1>7. Agrees(d, e)
  BY <1>1, <1>2, <1>3, <1>6 DEF Agrees
<1> QED BY <1>2, <1>5, <1>7 DEF Twins

\* Each store changes as it would alone.
LEMMA TwinsOfTwins ==
    ASSUME NEW f, NEW n, NEW f2, NEW n2, Twins(f, n), Twins(f2, f), Twins(n2, n)
    PROVE  Twins(f2, n2)
BY DEF Twins

LEMMA ThreeAnswers ==
    ASSUME NEW a, NEW b, NEW c, a = b, a = c
    PROVE  Answered(<<a, b, c>>)
BY DEF Answered

LEMMA AppendBatchKeeps ==
    ASSUME CallsOK, EnginesInv, Engine!AppendBatch
    PROVE  EnginesInv'
<1>1. PICK batch \in AppendBatches :
        Engine!Take(Engine!MemoryAppend(memory, batch),
                    Engine!StoreAppend(fjall, [i \in DOMAIN batch |-> Engine!KeyRow(batch[i])], batch),
                    Engine!StoreAppend(native, [i \in DOMAIN batch |-> Engine!ClaimRow(batch[i])], batch))
  BY DEF Engine!AppendBatch
<1> DEFINE keys == [i \in DOMAIN batch |-> Engine!KeyRow(batch[i])]
           held == [i \in DOMAIN batch |-> Engine!ClaimRow(batch[i])]
           m == Engine!MemoryAppend(memory, batch)
           f == Engine!StoreAppend(fjall, keys, batch)
           n == Engine!StoreAppend(native, held, batch)
<1>2. memory' = m.db /\ fjall' = f.db /\ native' = n.db /\ answers' = <<m.answer, f.answer, n.answer>>
  BY <1>1 DEF Engine!Take
<1>3. Leads(keys, batch) /\ Leads(held, batch)
  BY RowsLead DEF CallsOK
<1> HIDE DEF keys, held
<1>4. MemoryOK(memory) /\ Agrees(memory, fjall) /\ Agrees(memory, native) /\ Twins(fjall, native)
  BY DEF EnginesInv
<1>5. MemoryOK(m.db)
  BY ONLY CallsOK, <1>4, batch \in AppendBatches, AppendKeeps
<1>6. Agrees(m.db, f.db) /\ m.answer = f.answer /\ Twins(f.db, fjall)
  BY ONLY CallsOK, <1>3, <1>4, batch \in AppendBatches, AppendAgrees
<1>7. Agrees(m.db, n.db) /\ m.answer = n.answer /\ Twins(n.db, native)
  BY ONLY CallsOK, <1>3, <1>4, batch \in AppendBatches, AppendAgrees
<1> HIDE DEF m, f, n
<1>8. Twins(f.db, n.db)
  BY ONLY <1>4, <1>6, <1>7, TwinsOfTwins
<1>9. Answered(<<m.answer, f.answer, n.answer>>)
  BY ONLY <1>6, <1>7, ThreeAnswers
<1> QED BY ONLY <1>2, <1>5, <1>6, <1>7, <1>8, <1>9 DEF EnginesInv

LEMMA CommitRuntimeKeeps ==
    ASSUME CallsOK, EnginesInv, Engine!CommitRuntime
    PROVE  EnginesInv'
<1>1. PICK scope \in Scopes, body \in Bodies, behind \in {0, 1} :
        /\ behind <= Len(memory.runtime.changes)
        /\ LET c == Engine!Commit(scope, Len(memory.runtime.changes) - behind, body)
           IN  Engine!Take(Engine!MemoryCommit(memory, c), Engine!StoreCommit(fjall, c),
                           Engine!StoreCommit(native, c))
  BY DEF Engine!CommitRuntime
<1> DEFINE c == Engine!Commit(scope, Len(memory.runtime.changes) - behind, body)
           m == Engine!MemoryCommit(memory, c)
           f == Engine!StoreCommit(fjall, c)
           n == Engine!StoreCommit(native, c)
<1>2. memory' = m.db /\ fjall' = f.db /\ native' = n.db /\ answers' = <<m.answer, f.answer, n.answer>>
  BY <1>1 DEF Engine!Take
<1>3. Committable(c)
  <2>1. Len(memory.runtime.changes) \in Nat
    BY DEF EnginesInv, MemoryOK, RuntimeOK, IsSeq
  <2>2. Len(memory.runtime.changes) - behind \in Nat
    BY <1>1, <2>1
  <2> QED BY <2>2 DEF Committable
<1> HIDE DEF c
<1>4. MemoryOK(memory) /\ Agrees(memory, fjall) /\ Agrees(memory, native) /\ Twins(fjall, native)
  BY DEF EnginesInv
<1>5. MemoryOK(m.db)
  BY ONLY CallsOK, <1>3, <1>4, CommitKeepsMemory
<1>6. Agrees(m.db, f.db) /\ m.answer = f.answer /\ Twins(f.db, fjall)
  BY ONLY CallsOK, <1>3, <1>4, CommitAgrees
<1>7. Agrees(m.db, n.db) /\ m.answer = n.answer /\ Twins(n.db, native)
  BY ONLY CallsOK, <1>3, <1>4, CommitAgrees
<1> HIDE DEF m, f, n
<1>8. Twins(f.db, n.db)
  BY ONLY <1>4, <1>6, <1>7, TwinsOfTwins
<1>9. Answered(<<m.answer, f.answer, n.answer>>)
  BY ONLY <1>6, <1>7, ThreeAnswers
<1> QED BY ONLY <1>2, <1>5, <1>6, <1>7, <1>8, <1>9 DEF EnginesInv

\* A snapshot that is opened or released in all three.
LEMMA SnapshotCallKeeps ==
    ASSUME EnginesInv, NEW new, \A h \in new : StampOK(memory.runtime.changes, h.read),
           Become(memory, memory', new), Become(fjall, fjall', new), Become(native, native', new),
           Answered(answers')
    PROVE  EnginesInv'
<1>1. MemoryOK(memory) /\ Agrees(memory, fjall) /\ Agrees(memory, native) /\ Twins(fjall, native)
  BY DEF EnginesInv
<1>2. MemoryOK(memory') /\ Agrees(memory', fjall') /\ Twins(fjall', fjall)
  BY <1>1, SnapshotsChange
<1>3. Agrees(memory', native') /\ Twins(native', native)
  BY <1>1, SnapshotsChange
<1>4. Twins(fjall', native')
  BY ONLY <1>1, <1>2, <1>3, TwinsOfTwins
<1> QED BY <1>2, <1>3, <1>4 DEF EnginesInv

LEMMA OpenSnapshotKeeps ==
    ASSUME EnginesInv, Engine!OpenSnapshot
    PROVE  EnginesInv'
<1>1. PICK scope \in Scopes, now \in Instants :
        Engine!Take(Engine!WithSnapshot(memory, Engine!SnapshotAt(Engine!MemoryStamp(memory, scope), now)),
                    Engine!WithSnapshot(fjall, Engine!SnapshotAt(Engine!StoreStamp(fjall, scope), now)),
                    Engine!WithSnapshot(native, Engine!SnapshotAt(Engine!StoreStamp(native, scope), now)))
  BY DEF Engine!OpenSnapshot
<1>2. MemoryOK(memory) /\ Agrees(memory, fjall) /\ Agrees(memory, native)
  BY DEF EnginesInv
<1> DEFINE read == Engine!MemoryStamp(memory, scope)
           h == Engine!SnapshotAt(read, now)
           new == memory.runtime.snapshots \cup {h}
<1>3. /\ Engine!StoreStamp(fjall, scope) = read /\ Engine!StoreStamp(native, scope) = read
      /\ StampOK(memory.runtime.changes, read)
  BY ONLY <1>2, scope \in Scopes, StampsEqual
<1>4. h.read = read
  BY DEF Engine!SnapshotAt
<1>5. Engine!Take(Engine!WithSnapshot(memory, h), Engine!WithSnapshot(fjall, h), Engine!WithSnapshot(native, h))
  BY ONLY <1>1, <1>3
<1>6. fjall.runtime = memory.runtime /\ native.runtime = memory.runtime
  BY <1>2 DEF Agrees
<1> HIDE DEF read, h
<1>7. /\ Become(memory, memory', new) /\ Become(fjall, fjall', new) /\ Become(native, native', new)
      /\ answers' = <<h, h, h>>
  BY <1>5, <1>6 DEF Engine!Take, Engine!WithSnapshot, Become
<1>8. \A g \in new : StampOK(memory.runtime.changes, g.read)
  BY <1>2, <1>3, <1>4 DEF MemoryOK, RuntimeOK
<1>9. Answered(answers')
  BY <1>7, ThreeAnswers
<1> HIDE DEF new
<1> QED BY ONLY EnginesInv, <1>7, <1>8, <1>9, SnapshotCallKeeps

LEMMA ReleaseSnapshotKeeps ==
    ASSUME EnginesInv, Engine!ReleaseSnapshot
    PROVE  EnginesInv'
<1>1. PICK h \in memory.runtime.snapshots :
        Engine!Take(Engine!Without(memory, h), Engine!Without(fjall, h), Engine!Without(native, h))
  BY DEF Engine!ReleaseSnapshot
<1>2. MemoryOK(memory) /\ Agrees(memory, fjall) /\ Agrees(memory, native)
  BY DEF EnginesInv
<1> DEFINE new == memory.runtime.snapshots \ {h}
           was == h \in memory.runtime.snapshots
<1>3. fjall.runtime = memory.runtime /\ native.runtime = memory.runtime
  BY <1>2 DEF Agrees
<1>4. /\ Become(memory, memory', new) /\ Become(fjall, fjall', new) /\ Become(native, native', new)
      /\ answers' = <<was, was, was>>
  BY <1>1, <1>3 DEF Engine!Take, Engine!Without, Become
<1>5. \A g \in new : StampOK(memory.runtime.changes, g.read)
  BY <1>2 DEF MemoryOK, RuntimeOK
<1>6. Answered(answers')
  <2> HIDE DEF was
  <2> QED BY <1>4, ThreeAnswers
<1> HIDE DEF new
<1> QED BY ONLY EnginesInv, <1>4, <1>5, <1>6, SnapshotCallKeeps

\* The calls that only the stores take.
Telemetry(s, e) ==
    /\ DOMAIN e = DOMAIN s
    /\ \A x \in {"claims", "index", "sequence", "cursor", "digest", "runtime"} : e[x] = s[x]

LEMMA TelemetryKeeps ==
    ASSUME EnginesInv, memory' = memory, Telemetry(fjall, fjall'), Telemetry(native, native'),
           Twins(fjall', native'), Answered(answers')
    PROVE  EnginesInv'
<1>1. ASSUME NEW m, NEW s, NEW e, Agrees(m, s), Telemetry(s, e)
      PROVE  Agrees(m, e)
  <2>1. /\ DOMAIN e = StoreFields /\ e.claims = s.claims /\ e.index = s.index /\ e.sequence = s.sequence
        /\ e.cursor = s.cursor /\ e.digest = s.digest /\ e.runtime = s.runtime
    BY <1>1 DEF Agrees, Telemetry
  <2> QED BY <1>1, <2>1 DEF Agrees
<1>2. Agrees(memory, fjall') /\ Agrees(memory, native')
  BY <1>1 DEF EnginesInv
<1> QED BY <1>2 DEF EnginesInv

LEMMA NoAnswer == Answered(<<>>)
BY DEF Answered

LEMMA ObserveKeeps ==
    ASSUME EnginesInv, Engine!Observe
    PROVE  EnginesInv'
<1>1. PICK reader \in Readers, k \in DOMAIN fjall.claims, at \in Instants :
        Engine!OfStores(Engine!Observed(fjall, reader, k[1], k[2], at),
                        Engine!Observed(native, reader, k[1], k[2], at))
  BY DEF Engine!Observe
<1> DEFINE row == <<at, reader, k[1], k[2]>>
<1>2. /\ fjall' = [fjall EXCEPT !.access = @ \cup {row}] /\ native' = [native EXCEPT !.access = @ \cup {row}]
      /\ memory' = memory /\ answers' = <<>>
  BY <1>1 DEF Engine!OfStores, Engine!Observed
<1> HIDE DEF row
<1>3. DOMAIN fjall = StoreFields /\ DOMAIN native = StoreFields /\ Twins(fjall, native)
  BY DEF EnginesInv, Agrees
<1>4. Telemetry(fjall, fjall') /\ Telemetry(native, native')
  BY <1>2, <1>3 DEF Telemetry, StoreFields
<1>5. Twins(fjall', native')
  BY <1>2, <1>3 DEF Twins, StoreFields
<1> QED BY <1>2, <1>4, <1>5, NoAnswer, TelemetryKeeps

LEMMA RecordInvocationKeeps ==
    ASSUME EnginesInv, Engine!RecordInvocation
    PROVE  EnginesInv'
<1>1. PICK at \in Instants, recall \in BOOLEAN :
        Engine!OfStores(Engine!Recorded(fjall, at, recall), Engine!Recorded(native, at, recall))
  BY DEF Engine!RecordInvocation
<1>3. DOMAIN fjall = StoreFields /\ DOMAIN native = StoreFields /\ Twins(fjall, native)
  BY DEF EnginesInv, Agrees
<1> DEFINE o == fjall.ordinal + 1
           v == Engine!Put(fjall.invocations, <<at, o>>,
                           [ordinal |-> o, recall |-> recall, outcome |-> "unknown"])
<1>2. /\ fjall' = [fjall EXCEPT !.ordinal = o, !.invocations = v]
      /\ native' = [native EXCEPT !.ordinal = o, !.invocations = v]
      /\ memory' = memory /\ answers' = <<>>
  BY <1>1, <1>3 DEF Engine!OfStores, Engine!Recorded, Twins
<1> HIDE DEF o, v
<1>4. Telemetry(fjall, fjall') /\ Telemetry(native, native')
  BY <1>2, <1>3 DEF Telemetry, StoreFields
<1>5. Twins(fjall', native')
  BY <1>2, <1>3 DEF Twins, StoreFields
<1> QED BY <1>2, <1>4, <1>5, NoAnswer, TelemetryKeeps

\* The stores find the same record to judge.
LEMMA JudgeKeeps ==
    ASSUME NEW f, NEW n, DOMAIN f = StoreFields, DOMAIN n = StoreFields, Twins(f, n), NEW ordinal, NEW outcome
    PROVE  LET x == Engine!Judge(f, ordinal, outcome)
               y == Engine!Judge(n, ordinal, outcome)
           IN  /\ Telemetry(f, x.db) /\ Telemetry(n, y.db) /\ Twins(x.db, y.db)
               /\ x.answer = y.answer
<1> DEFINE x == Engine!Judge(f, ordinal, outcome)
           y == Engine!Judge(n, ordinal, outcome)
           inv == f.invocations
           keys == {k \in DOMAIN inv : inv[k].ordinal = ordinal}
           new == [inv EXCEPT ![CHOOSE k \in keys : TRUE].outcome = outcome]
<1>0. n.invocations = inv
  BY DEF Twins
<1>1. CASE \E k \in keys : inv[k].recall
  <2>1. x = [db |-> [f EXCEPT !.invocations = new], answer |-> outcome]
    BY <1>1 DEF Engine!Judge
  <2>2. y = [db |-> [n EXCEPT !.invocations = new], answer |-> outcome]
    BY <1>0, <1>1 DEF Engine!Judge
  <2> HIDE DEF new, x, y
  <2>3. Telemetry(f, x.db) /\ Telemetry(n, y.db)
    BY <2>1, <2>2 DEF Telemetry, StoreFields
  <2>4. Twins(x.db, y.db) /\ x.answer = y.answer
    BY <2>1, <2>2 DEF Twins, StoreFields
  <2> QED BY <2>3, <2>4 DEF x, y
<1>2. CASE ~\E k \in keys : inv[k].recall
  <2>1. x = [db |-> f, answer |-> "refused"] /\ y = [db |-> n, answer |-> "refused"]
    BY <1>0, <1>2 DEF Engine!Judge
  <2> HIDE DEF x, y
  <2>2. /\ Telemetry(f, x.db) /\ Telemetry(n, y.db) /\ Twins(x.db, y.db) /\ x.answer = y.answer
    BY <2>1 DEF Telemetry
  <2> QED BY <2>2 DEF x, y
<1> QED BY <1>1, <1>2

LEMMA SetRecallOutcomeKeeps ==
    ASSUME EnginesInv, Engine!SetRecallOutcome
    PROVE  EnginesInv'
<1>1. PICK ordinal \in 1..(fjall.ordinal + 1), outcome \in Outcomes :
        LET f == Engine!Judge(fjall, ordinal, outcome)
            n == Engine!Judge(native, ordinal, outcome) IN
        /\ fjall' = f.db /\ native' = n.db /\ answers' = <<f.answer, n.answer>>
        /\ UNCHANGED memory
  BY DEF Engine!SetRecallOutcome
<1> DEFINE f == Engine!Judge(fjall, ordinal, outcome)
           n == Engine!Judge(native, ordinal, outcome)
<1>2. DOMAIN fjall = StoreFields /\ DOMAIN native = StoreFields /\ Twins(fjall, native)
  BY DEF EnginesInv, Agrees
<1>3. /\ Telemetry(fjall, f.db) /\ Telemetry(native, n.db) /\ Twins(f.db, n.db)
      /\ f.answer = n.answer
  BY ONLY <1>2, JudgeKeeps
<1>4. fjall' = f.db /\ native' = n.db /\ answers' = <<f.answer, n.answer>> /\ memory' = memory
  BY <1>1
<1> HIDE DEF f, n
<1>5. Answered(answers')
  BY ONLY <1>3, <1>4 DEF Answered
<1> QED BY ONLY EnginesInv, <1>3, <1>4, <1>5, TelemetryKeeps

\* A migrated store agrees because its source does.
LEMMA MigrateKeeps ==
    ASSUME EnginesInv, Engine!Migrate
    PROVE  EnginesInv'
<1>1. memory' = memory /\ fjall' = fjall /\ native' = fjall /\ answers' = <<>>
  BY DEF Engine!Migrate
<1> QED BY <1>1, NoAnswer DEF EnginesInv, Twins

-----------------------------------------------------------------------------

\* Equal keyspaces and rows are read alike.
LEMMA ReadAlike ==
    ASSUME NEW m, MemoryOK(m), NEW s, Agrees(m, s)
    PROVE  Engine!SameReads(m, s)
<1> DEFINE ch == m.runtime.changes
           last == Len(ch)
           top == Len(m.order) + 1
<1>1. IsSeq(ch) /\ last \in Nat /\ IsSeq(m.order) /\ top \in Nat
  BY DEF MemoryOK, RuntimeOK, IsSeq
<1>2. s.runtime = m.runtime /\ s.claims = m.claims /\ s.cursor = last
  BY DEF Agrees
<1>3. \A from \in 0..top, to \in 0..top : Engine!MemoryInRange(m, from, to) = Engine!StoreInRange(s, from, to)
  <2>1. Held(m.claims, m.order) /\ s.sequence = Len(m.order) /\ Leads(s.index, m.order)
    BY DEF MemoryOK, Agrees
  <2>2. \A from \in Nat, to \in Nat : Engine!MemoryInRange(m, from, to) = Engine!StoreInRange(s, from, to)
    BY ONLY <1>1, <1>2, <2>1, RangesEqual
  <2> HIDE DEF top
  <2> QED BY <1>1, <2>2
<1>4. \A scope \in Scopes : Engine!MemoryStamp(m, scope) = Engine!StoreStamp(s, scope)
  BY StampsEqual
<1>5. ASSUME NEW k \in 0..last, NEW after \in Nat, NEW limit \in Nat \ {0}, NEW scope
      PROVE  Engine!MemoryPage(m, k, after, limit, scope) = Engine!StorePage(s, k, after, limit, scope)
  <2>1. SameLog(m, s)
    BY <1>1, <1>2 DEF SameLog
  <2> QED BY ONLY <1>5, <2>1, PagesEqual
<1>6. ASSUME NEW scope \in Scopes, NEW after \in 0..(last + 1), NEW limit \in 1..(last + 1)
      PROVE  Engine!MemoryPage(m, last, after, limit, scope) = Engine!StorePage(s, s.cursor, after, limit, scope)
  <2>1. last \in 0..last /\ after \in Nat /\ limit \in Nat \ {0}
    <3> HIDE DEF last
    <3> QED BY <1>1
  <2> HIDE DEF last
  <2> QED BY <1>2, <1>5, <2>1
<1>7. ASSUME NEW h \in m.runtime.snapshots
      PROVE  /\ Engine!MemoryStampValid(m, h.read) /\ Engine!StoreStampValid(s, h.read)
             /\ \A now \in Instants :
                  Engine!MemorySnapshotPage(m, h, 0, 1, now) = Engine!StoreSnapshotPage(s, h, 0, 1, now)
  <2> DEFINE read == h.read
             k == read.cursor
  <2>1. StampOK(ch, read)
    BY DEF MemoryOK, RuntimeOK
  <2>2. k \in 0..last /\ k <= last
    BY <1>1, <2>1 DEF StampOK
  <2>3. Engine!MemoryStampValid(m, read)
    BY <2>1, <2>2 DEF Engine!MemoryStampValid, StampOK, RevisionIn
  <2>4. Engine!StoreStampValid(s, read)
    <3>1. IsSeq(s.runtime.changes) /\ k \in 0..Len(s.runtime.changes)
      BY <1>1, <1>2, <2>2
    <3>2. Engine!StorePage(s, k, 0, k, read.scope).changes = Engine!OfScope(s.runtime.changes, 0, k, read.scope)
      BY ONLY <3>1, StampedPage
    <3> QED BY <1>2, <2>1, <2>2, <3>2 DEF Engine!StoreStampValid, StampOK, RevisionIn
  <2>5. ASSUME NEW now \in Instants
        PROVE  Engine!MemorySnapshotPage(m, h, 0, 1, now) = Engine!StoreSnapshotPage(s, h, 0, 1, now)
    <3>1. Engine!MemoryPage(m, k, 0, 1, read.scope) = Engine!StorePage(s, k, 0, 1, read.scope)
      <4> HIDE DEF k, last
      <4> QED BY <1>5, <2>2
    <3> QED BY <1>2, <3>1 DEF Engine!MemorySnapshotPage, Engine!StoreSnapshotPage
  <2> QED BY <2>3, <2>4, <2>5
<1> QED BY <1>2, <1>3, <1>4, <1>6, <1>7 DEF Engine!SameReads

\* The invariant holds, whatever calls are made.
LEMMA EnginesKept ==
    ASSUME CallsOK
    PROVE  Engine!Spec => []EnginesInv
<1>1. Engine!Init => EnginesInv
  <2> SUFFICES ASSUME Engine!Init
               PROVE  EnginesInv
    OBVIOUS
  <2> DEFINE rt == Engine!Runtime0
  <2>1. memory = Engine!Memory0 /\ fjall = Engine!Store0 /\ native = Engine!Store0 /\ answers = <<>>
    BY DEF Engine!Init
  <2>2. IsSeq(<<>>) /\ Len(<<>>) = 0
    BY DEF IsSeq
  <2>3. /\ DOMAIN rt = RuntimeFields /\ rt.changes = <<>> /\ rt.snapshots = {}
        /\ rt.schemas = [scope \in Scopes |-> Engine!NoSchema]
    BY DEF Engine!Runtime0, RuntimeFields
  <2>4. ASSUME NEW scope \in Scopes
        PROVE  Engine!RevisionOf(rt.schemas[scope]) = RevisionIn(<<>>, 0, scope)
    <3>1. SchemasIn(<<>>, 0, scope) = {}
      BY DEF SchemasIn
    <3>2. RevisionIn(<<>>, 0, scope) = {}
      BY <3>1, RevisionIs
    <3> QED BY <2>3, <3>2 DEF Engine!RevisionOf
  <2> HIDE DEF rt
  <2>5. RuntimeOK(rt)
    BY <2>2, <2>3, <2>4 DEF RuntimeOK
  <2>6. /\ DOMAIN Engine!Memory0 = {"claims", "order", "runtime"} /\ Engine!Memory0.claims = <<>>
        /\ Engine!Memory0.order = <<>> /\ Engine!Memory0.runtime = rt
    BY DEF Engine!Memory0, rt
  <2>7. /\ DOMAIN Engine!Store0 = StoreFields /\ Engine!Store0.claims = <<>> /\ Engine!Store0.index = <<>>
        /\ Engine!Store0.sequence = 0 /\ Engine!Store0.cursor = 0 /\ Engine!Store0.digest = <<>>
        /\ Engine!Store0.runtime = rt
    BY DEF Engine!Store0, StoreFields, rt
  <2>8. MemoryOK(memory)
    BY <2>1, <2>2, <2>5, <2>6 DEF MemoryOK, Held
  <2>9. Agrees(memory, fjall) /\ Agrees(memory, native)
    BY <2>1, <2>2, <2>3, <2>6, <2>7 DEF Agrees, Leads
  <2> QED BY <2>1, <2>8, <2>9, NoAnswer DEF EnginesInv, Twins
<1>2. EnginesInv /\ [Engine!Next]_(Engine!vars) => EnginesInv'
  <2> SUFFICES ASSUME EnginesInv, [Engine!Next]_(Engine!vars)
               PROVE  EnginesInv'
    OBVIOUS
  <2>1. CASE UNCHANGED Engine!vars
    BY <2>1 DEF Engine!vars, EnginesInv
  <2>2. CASE Engine!AppendBatch
    BY <2>2, AppendBatchKeeps
  <2>3. CASE Engine!CommitRuntime
    BY <2>3, CommitRuntimeKeeps
  <2>4. CASE Engine!OpenSnapshot
    BY <2>4, OpenSnapshotKeeps
  <2>5. CASE Engine!ReleaseSnapshot
    BY <2>5, ReleaseSnapshotKeeps
  <2>6. CASE Engine!Observe
    BY <2>6, ObserveKeeps
  <2>7. CASE Engine!RecordInvocation
    BY <2>7, RecordInvocationKeeps
  <2>8. CASE Engine!SetRecallOutcome
    BY <2>8, SetRecallOutcomeKeeps
  <2>9. CASE Engine!Migrate
    BY <2>9, MigrateKeeps
  <2> QED BY <2>1, <2>2, <2>3, <2>4, <2>5, <2>6, <2>7, <2>8, <2>9 DEF Engine!Next
<1> QED BY <1>1, <1>2, PTL DEF Engine!Spec

\* Whatever calls are made, the reference, the Fjall store and the native store give the
\* same answers and are read alike afterwards (MemoryEngine, Store, NativeEngine).
THEOREM EnginesNeverDiffer ==
    ASSUME CallsOK
    PROVE  Engine!Spec => []Engine!EnginesAgree
<1>1. EnginesInv => Engine!EnginesAgree
  <2> SUFFICES ASSUME EnginesInv
               PROVE  Engine!EnginesAgree
    OBVIOUS
  <2>1. Engine!SameReads(memory, fjall) /\ Engine!SameReads(memory, native)
    BY ReadAlike DEF EnginesInv
  <2>2. /\ fjall.claims = native.claims /\ fjall.access = native.access
        /\ fjall.invocations = native.invocations
    BY DEF EnginesInv, Agrees, Twins
  <2>3. \A i \in DOMAIN answers : answers[i] = answers[1]
    BY DEF EnginesInv, Answered
  <2> QED BY <2>1, <2>2, <2>3 DEF Engine!EnginesAgree
<1> QED BY <1>1, EnginesKept, PTL

-----------------------------------------------------------------------------
(* The order of keys *)

\* Names compare as numbers do, and times are numbers.
KeysOK ==
    /\ \A c \in GivenClaims : /\ c.subject \in Nat /\ c.predicate \in Nat
                              /\ c.from \in Nat /\ c.tx \in Nat
    /\ Instants \subseteq Nat

ClaimKeys == Nat \X Nat \X Nat \X Nat

\* Names ascend, times descend.
Before(k, l) ==
    \/ k[1] < l[1]
    \/ k[1] = l[1] /\ k[2] < l[2]
    \/ k[1] = l[1] /\ k[2] = l[2] /\ k[3] > l[3]
    \/ k[1] = l[1] /\ k[2] = l[2] /\ k[3] = l[3] /\ k[4] > l[4]

\* The order of the encoding, part by part.
LEMMA PrecedesIsBefore ==
    ASSUME NEW k \in ClaimKeys, NEW l \in ClaimKeys
    PROVE  Engine!Precedes(k, l) <=> Before(k, l)
<1> DEFINE Decides(i) == /\ \A j \in 1..(i - 1) : k[j] = l[j]
                         /\ IF i <= 2 THEN k[i] < l[i] ELSE k[i] > l[i]
<1>1. Engine!Precedes(k, l) <=> \E i \in 1..4 : Decides(i)
  BY DEF Engine!Precedes
<1>2. Decides(1) <=> k[1] < l[1]
  OBVIOUS
<1>3. Decides(2) <=> k[1] = l[1] /\ k[2] < l[2]
  OBVIOUS
<1>4. Decides(3) <=> k[1] = l[1] /\ k[2] = l[2] /\ k[3] > l[3]
  OBVIOUS
<1>5. Decides(4) <=> k[1] = l[1] /\ k[2] = l[2] /\ k[3] = l[3] /\ k[4] > l[4]
  OBVIOUS
<1>6. 1..4 = {1, 2, 3, 4}
  OBVIOUS
<1> HIDE DEF Decides
<1>7. (\E i \in 1..4 : Decides(i)) <=> Decides(1) \/ Decides(2) \/ Decides(3) \/ Decides(4)
  BY <1>6
<1> QED BY <1>1, <1>2, <1>3, <1>4, <1>5, <1>7 DEF Before

\* It is a strict order in which any two keys compare.
LEMMA BeforeIsOrder ==
    ASSUME NEW k \in ClaimKeys, NEW l \in ClaimKeys, NEW m \in ClaimKeys
    PROVE  /\ ~Before(k, k) /\ (k # l => Before(k, l) \/ Before(l, k))
           /\ Before(k, l) /\ Before(l, m) => Before(k, m)
<1>1. \A x \in ClaimKeys : /\ x[1] \in Nat /\ x[2] \in Nat /\ x[3] \in Nat /\ x[4] \in Nat
                           /\ x = <<x[1], x[2], x[3], x[4]>>
  BY DEF ClaimKeys
<1>2. k # l => k[1] # l[1] \/ k[2] # l[2] \/ k[3] # l[3] \/ k[4] # l[4]
  BY <1>1
<1> QED BY <1>1, <1>2 DEF Before

IsLeast(k, K) == k \in K /\ \A l \in K : l # k => Before(k, l)

\* A finite set of keys has a least one.
LEMMA LeastExists ==
    ASSUME NEW K \in SUBSET ClaimKeys, IsFiniteSet(K), K # {}
    PROVE  \E k : IsLeast(k, K)
<1> DEFINE Has(n) == \A S \in SUBSET ClaimKeys :
                       IsFiniteSet(S) /\ S # {} /\ Cardinality(S) <= n => \E k : IsLeast(k, S)
           G == {n \in Nat : Has(n)}
<1>1. Cardinality(K) \in Nat
  BY FS_CardinalityType
<1>2. 0 \in G
  <2>1. ASSUME NEW S \in SUBSET ClaimKeys, IsFiniteSet(S), S # {}
        PROVE  ~(Cardinality(S) <= 0)
    BY <2>1, FS_CardinalityType, FS_EmptySet
  <2> QED BY <2>1
<1>3. ASSUME NEW n \in 1..Cardinality(K), n - 1 \in G
      PROVE  n \in G
  <2>1. Has(n - 1)
    BY <1>3
  <2>2. ASSUME NEW S \in SUBSET ClaimKeys, IsFiniteSet(S), S # {}, Cardinality(S) <= n
        PROVE  \E k : IsLeast(k, S)
    <3>1. PICK x : x \in S
      BY <2>2
    <3> DEFINE R == S \ {x}
    <3>2. IsFiniteSet(R) /\ Cardinality(R) = Cardinality(S) - 1 /\ R \in SUBSET ClaimKeys
      BY <2>2, <3>1, FS_RemoveElement
    <3>3. Cardinality(R) <= n - 1
      BY <1>1, <2>2, <3>2, FS_CardinalityType
    <3>4. CASE R = {}
      BY <3>1, <3>4 DEF IsLeast
    <3>5. CASE R # {}
      <4>1. PICK y : IsLeast(y, R)
        <5> HIDE DEF R
        <5> QED BY <2>1, <3>2, <3>3, <3>5
      <4>2. x \in ClaimKeys /\ y \in ClaimKeys /\ y \in S /\ x # y
        BY <3>1, <3>2, <4>1 DEF IsLeast
      <4>3. CASE Before(y, x)
        BY <4>1, <4>2, <4>3 DEF IsLeast
      <4>4. CASE Before(x, y)
        <5>1. ASSUME NEW l \in S, l # x
              PROVE  Before(x, l)
          <6>1. CASE l = y
            BY <4>4, <6>1
          <6>2. CASE l # y
            <7>1. Before(y, l) /\ l \in ClaimKeys
              BY <4>1, <5>1, <6>2 DEF IsLeast
            <7> QED BY <4>2, <4>4, <7>1, BeforeIsOrder
          <6> QED BY <6>1, <6>2
        <5> QED BY <3>1, <5>1 DEF IsLeast
      <4> QED BY <4>2, <4>3, <4>4, BeforeIsOrder
    <3> QED BY <3>4, <3>5
  <2> QED BY <2>2
<1>4. Cardinality(K) \in G
  <2> HIDE DEF G
  <2>1. \A n \in 0..Cardinality(K) : n \in G
    BY <1>1, <1>2, <1>3, Induction
  <2> QED BY <1>1, <2>1
<1> QED BY <1>1, <1>4

\* What a walk takes next.
LEMMA LeastIs ==
    ASSUME NEW K \in SUBSET ClaimKeys, IsFiniteSet(K), K # {}
    PROVE  IsLeast(Engine!Least(K), K)
<1>1. \A k, l \in K : Engine!Precedes(k, l) <=> Before(k, l)
  BY PrecedesIsBefore
<1>2. PICK k : IsLeast(k, K)
  BY LeastExists
<1>3. k \in K /\ \A l \in K : l # k => Engine!Precedes(k, l)
  BY <1>1, <1>2 DEF IsLeast
<1>4. /\ Engine!Least(K) \in K
      /\ \A l \in K : l # Engine!Least(K) => Engine!Precedes(Engine!Least(K), l)
  BY <1>3 DEF Engine!Least
<1> QED BY <1>1, <1>4 DEF IsLeast

-----------------------------------------------------------------------------
(* A walk through keys *)

LeftStep(f, K, n) == IF n = 0 THEN K ELSE f[n - 1] \ {Engine!Least(f[n - 1])}

\* The recursion of the walk has a solution.
LEMMA LeftExists ==
    ASSUME NEW K, NEW n \in Nat
    PROVE  \E f : f = [k \in 0..n |-> LeftStep(f, K, k)]
<1> DEFINE G == {k \in Nat : \E f : f = [j \in 0..k |-> LeftStep(f, K, j)]}
<1>1. 0 \in G
  <2> DEFINE f == [j \in 0..0 |-> K]
  <2>1. f = [j \in 0..0 |-> LeftStep(f, K, j)]
    BY DEF LeftStep
  <2> QED BY <2>1
<1>2. ASSUME NEW k \in 1..n, k - 1 \in G
      PROVE  k \in G
  <2>1. PICK f : f = [j \in 0..(k - 1) |-> LeftStep(f, K, j)]
    BY <1>2
  <2> DEFINE g == [j \in 0..k |-> IF j = k THEN f[k - 1] \ {Engine!Least(f[k - 1])} ELSE f[j]]
  <2>2. ASSUME NEW j \in 0..k
        PROVE  g[j] = LeftStep(g, K, j)
    <3>1. CASE j = k
      BY <3>1 DEF LeftStep
    <3>2. CASE j # k
      <4>1. j \in 0..(k - 1) /\ (j # 0 => j - 1 \in 0..(k - 1))
        BY <3>2
      <4>2. g[j] = f[j] /\ (j # 0 => g[j - 1] = f[j - 1])
        BY <3>2, <4>1
      <4>3. f[j] = LeftStep(f, K, j)
        BY <2>1, <4>1
      <4> HIDE DEF g
      <4> QED BY <4>2, <4>3 DEF LeftStep
    <3> QED BY <3>1, <3>2
  <2>3. g = [j \in 0..k |-> g[j]]
    OBVIOUS
  <2> HIDE DEF g
  <2>4. g = [j \in 0..k |-> LeftStep(g, K, j)]
    BY <2>2, <2>3
  <2> QED BY <2>4
<1>3. \A k \in 0..n : k \in G
  <2> HIDE DEF G
  <2> QED BY <1>1, <1>2, Induction
<1> QED BY <1>3

\* An order of keys: each of them once, and before the later ones.
IsOrder(o, K) ==
    /\ o \in [1..Cardinality(K) -> K]
    /\ \A i, j \in 1..Cardinality(K) : i < j => Before(o[i], o[j])
    /\ \A k \in K : \E i \in 1..Cardinality(K) : o[i] = k

\* A walk lists the claims of the keys in their order.
LEMMA WalkInOrder ==
    ASSUME NEW K \in SUBSET ClaimKeys, IsFiniteSet(K), NEW byKey
    PROVE  \E o : /\ IsOrder(o, K)
                 /\ Engine!InKeyOrder(byKey, K) = [i \in 1..Cardinality(K) |-> byKey[o[i]]]
<1> DEFINE n == Engine!Cardinality(K)
           f == CHOOSE f : f = [k \in 0..n |-> LeftStep(f, K, k)]
           o == [i \in 1..n |-> Engine!Least(f[i - 1])]
<1>1. Engine!InKeyOrder(byKey, K) = [i \in 1..n |-> byKey[Engine!Least(f[i - 1])]]
  BY DEF Engine!InKeyOrder, LeftStep
<1>2. n = Cardinality(K) /\ n \in Nat
  BY SameCardinality, FS_CardinalityType
<1> HIDE DEF n
<1>3. f = [k \in 0..n |-> LeftStep(f, K, k)]
  BY <1>2, LeftExists
<1> HIDE DEF f
<1>4. /\ f[0] = K
      /\ \A i \in 1..n : f[i] = f[i - 1] \ {Engine!Least(f[i - 1])}
  <2>1. \A i \in 0..n : f[i] = LeftStep(f, K, i)
    BY <1>3
  <2>2. 0 \in 0..n /\ \A i \in 1..n : i \in 0..n /\ i # 0
    BY <1>2
  <2> QED BY ONLY <2>1, <2>2 DEF LeftStep
<1>5. \A i \in 0..n : f[i] \in SUBSET K /\ IsFiniteSet(f[i]) /\ Cardinality(f[i]) = n - i
  <2> DEFINE G == {i \in 0..n : f[i] \in SUBSET K /\ IsFiniteSet(f[i]) /\ Cardinality(f[i]) = n - i}
  <2>1. 0 \in G
    BY <1>2, <1>4
  <2>2. ASSUME NEW i \in 1..n, i - 1 \in G
        PROVE  i \in G
    <3>1. /\ f[i - 1] \in SUBSET K /\ IsFiniteSet(f[i - 1]) /\ Cardinality(f[i - 1]) = n - (i - 1)
      BY <2>2
    <3>2. f[i - 1] # {}
      BY <1>2, <3>1, FS_EmptySet
    <3>3. Engine!Least(f[i - 1]) \in f[i - 1]
      BY <3>1, <3>2, LeastIs DEF IsLeast
    <3>4. IsFiniteSet(f[i]) /\ Cardinality(f[i]) = Cardinality(f[i - 1]) - 1
      BY <1>4, <3>1, <3>3, FS_RemoveElement
    <3>5. f[i] \in SUBSET K
      BY <1>4, <3>1
    <3>6. Cardinality(f[i]) = n - i
      BY <1>2, <3>1, <3>4
    <3> QED BY <3>4, <3>5, <3>6
  <2>3. \A i \in 0..n : i \in G
    <3> HIDE DEF G
    <3> QED BY <1>2, <2>1, <2>2, Induction
  <2> QED BY <2>3
\* What is taken is the least of what is left.
<1>6. ASSUME NEW i \in 1..n
      PROVE  IsLeast(o[i], f[i - 1]) /\ f[i] = f[i - 1] \ {o[i]} /\ o[i] \in K
  <2>1. i - 1 \in 0..n
    BY <1>2
  <2>2. f[i - 1] \in SUBSET K /\ IsFiniteSet(f[i - 1]) /\ Cardinality(f[i - 1]) = n - (i - 1)
    BY <1>5, <2>1
  <2>3. f[i - 1] # {}
    BY <1>2, <2>2, FS_EmptySet
  <2>4. IsLeast(Engine!Least(f[i - 1]), f[i - 1])
    BY <2>2, <2>3, LeastIs
  <2> QED BY <1>4, <2>2, <2>4 DEF IsLeast
<1>7. o \in [1..n -> K]
  <2>1. o = [i \in 1..n |-> o[i]]
    OBVIOUS
  <2> HIDE DEF o
  <2> QED BY <1>6, <2>1
<1> HIDE DEF o
\* What is left was left before.
<1>8. ASSUME NEW i \in 0..n
      PROVE  \A j \in 0..n : i <= j => f[j] \subseteq f[i]
  <2> DEFINE G == {j \in 0..n : i <= j => f[j] \subseteq f[i]}
  <2>1. 0 \in G
    BY <1>2
  <2>2. ASSUME NEW j \in 1..n, j - 1 \in G
        PROVE  j \in G
    <3>1. i <= j - 1 => f[j - 1] \subseteq f[i]
      BY <2>2
    <3>2. f[j] \subseteq f[j - 1]
      BY <1>6
    <3>3. i <= j => i = j \/ i <= j - 1
      OBVIOUS
    <3> QED BY <3>1, <3>2, <3>3
  <2>3. \A j \in 0..n : j \in G
    <3> HIDE DEF G
    <3> QED BY <1>2, <2>1, <2>2, Induction
  <2> QED BY <2>3
<1>9. ASSUME NEW i \in 1..n, NEW j \in 1..n, i < j
      PROVE  Before(o[i], o[j])
  <2>1. i \in 0..n /\ j - 1 \in 0..n /\ i <= j - 1
    BY <1>2, <1>9
  <2>2. o[j] \in f[i]
    BY <1>6, <1>8, <2>1 DEF IsLeast
  <2>3. o[j] \in f[i - 1] /\ o[j] # o[i]
    BY <1>6, <2>2
  <2> QED BY <1>6, <2>3 DEF IsLeast
<1>10. ASSUME NEW k \in K
       PROVE  \E i \in 1..n : o[i] = k
  <2> SUFFICES ASSUME \A i \in 1..n : o[i] # k
               PROVE  FALSE
    OBVIOUS
  <2> DEFINE G == {j \in 0..n : k \in f[j]}
  <2>1. 0 \in G
    BY <1>2, <1>4
  <2>2. ASSUME NEW j \in 1..n, j - 1 \in G
        PROVE  j \in G
    BY <1>6, <2>2
  <2>3. \A j \in 0..n : j \in G
    <3> HIDE DEF G
    <3> QED BY <1>2, <2>1, <2>2, Induction
  <2>4. k \in f[n] /\ IsFiniteSet(f[n]) /\ Cardinality(f[n]) = 0
    BY <1>2, <1>5, <2>3
  <2> QED BY <2>4, FS_EmptySet
<1>11. IsOrder(o, K)
  BY <1>2, <1>7, <1>9, <1>10 DEF IsOrder
<1>12. Engine!InKeyOrder(byKey, K) = [i \in 1..n |-> byKey[o[i]]]
  BY <1>1 DEF o
<1> QED BY <1>2, <1>11, <1>12

\* A claim is found under its own key.
Keyed(byKey) ==
    /\ DOMAIN byKey \in SUBSET ClaimKeys /\ IsFiniteSet(DOMAIN byKey)
    /\ \A k \in DOMAIN byKey : /\ byKey[k].subject = k[1] /\ byKey[k].predicate = k[2]
                               /\ byKey[k].from = k[3] /\ byKey[k].tx = k[4]

\* So it is in the reference.
LEMMA HeldIsKeyed ==
    ASSUME KeysOK, NEW byKey, NEW order, IsSeq(order), Held(byKey, order)
    PROVE  Keyed(byKey)
<1> DEFINE S == {Engine!ClaimKey(order[i]) : i \in 1..Len(order)}
<1>1. DOMAIN byKey \subseteq S
  BY DEF Held
<1>2. IsFiniteSet(S)
  <2>1. Len(order) \in Nat
    BY DEF IsSeq
  <2>2. IsFiniteSet(1..Len(order))
    BY <2>1, FS_Interval
  <2> DEFINE g == [i \in 1..Len(order) |-> Engine!ClaimKey(order[i])]
  <2>3. g \in Surjection(1..Len(order), S)
    BY DEF Surjection
  <2> HIDE DEF g, S
  <2> QED BY <2>2, <2>3, FS_Surjection
<1>3. IsFiniteSet(DOMAIN byKey)
  <2> HIDE DEF S
  <2> QED BY <1>1, <1>2, FS_Subset
<1>4. ASSUME NEW k \in DOMAIN byKey
      PROVE  /\ k \in ClaimKeys
             /\ byKey[k].subject = k[1] /\ byKey[k].predicate = k[2]
             /\ byKey[k].from = k[3] /\ byKey[k].tx = k[4]
  <2>1. PICK i \in 1..Len(order) : k = Engine!ClaimKey(order[i])
    BY DEF Held
  <2>2. PICK c \in GivenClaims : c = order[i]
    BY DEF Held
  <2>3. byKey[k] = c
    BY <2>1, <2>2 DEF Held
  <2>4. k = <<c.subject, c.predicate, c.from, c.tx>>
    BY <2>1, <2>2 DEF Engine!ClaimKey
  <2>5. c.subject \in Nat /\ c.predicate \in Nat /\ c.from \in Nat /\ c.tx \in Nat
    BY DEF KeysOK
  <2> QED BY <2>3, <2>4, <2>5 DEF ClaimKeys
<1> QED BY <1>3, <1>4 DEF Keyed

-----------------------------------------------------------------------------
(* The subjects *)

SubjectStep(f, all, n) == IF n = 0 THEN <<>> ELSE Engine!WithSubject(f[n - 1], all[n])

\* The recursion of the subjects has a solution.
LEMMA SubjectsExist ==
    ASSUME NEW all, NEW n \in Nat
    PROVE  \E f : f = [k \in 0..n |-> SubjectStep(f, all, k)]
<1> DEFINE G == {k \in Nat : \E f : f = [j \in 0..k |-> SubjectStep(f, all, j)]}
<1>1. 0 \in G
  <2> DEFINE f == [j \in 0..0 |-> <<>>]
  <2>1. f = [j \in 0..0 |-> SubjectStep(f, all, j)]
    BY DEF SubjectStep
  <2> QED BY <2>1
<1>2. ASSUME NEW k \in 1..n, k - 1 \in G
      PROVE  k \in G
  <2>1. PICK f : f = [j \in 0..(k - 1) |-> SubjectStep(f, all, j)]
    BY <1>2
  <2> DEFINE g == [j \in 0..k |-> IF j = k THEN Engine!WithSubject(f[k - 1], all[k]) ELSE f[j]]
  <2>2. ASSUME NEW j \in 0..k
        PROVE  g[j] = SubjectStep(g, all, j)
    <3>1. CASE j = k
      BY <3>1 DEF SubjectStep
    <3>2. CASE j # k
      <4>1. j \in 0..(k - 1) /\ (j # 0 => j - 1 \in 0..(k - 1))
        BY <3>2
      <4>2. g[j] = f[j] /\ (j # 0 => g[j - 1] = f[j - 1])
        BY <3>2, <4>1
      <4>3. f[j] = SubjectStep(f, all, j)
        BY <2>1, <4>1
      <4> HIDE DEF g
      <4> QED BY <4>2, <4>3 DEF SubjectStep
    <3> QED BY <3>1, <3>2
  <2>3. g = [j \in 0..k |-> g[j]]
    OBVIOUS
  <2> HIDE DEF g
  <2>4. g = [j \in 0..k |-> SubjectStep(g, all, j)]
    BY <2>2, <2>3
  <2> QED BY <2>4
<1>3. \A k \in 0..n : k \in G
  <2> HIDE DEF G
  <2> QED BY <1>1, <1>2, Induction
<1> QED BY <1>3

\* out lists the subjects of the first n claims, each once.
Lists(out, all, n) ==
    /\ IsSeq(out)
    /\ \A i \in 1..Len(out) : \E j \in 1..n : out[i] = all[j].subject
    /\ \A j \in 1..n : \E i \in 1..Len(out) : out[i] = all[j].subject
    /\ \A i, j \in 1..Len(out) : i < j => out[i] < out[j]
    /\ n # 0 => Len(out) # 0 /\ out[Len(out)] = all[n].subject

\* The claims of a walk ascend by subject.
Ascend(all) ==
    /\ IsSeq(all)
    /\ \A i \in 1..Len(all) : all[i].subject \in Nat
    /\ \A i, j \in 1..Len(all) : i < j => all[i].subject <= all[j].subject

\* One more claim.
LEMMA ListsOneMore ==
    ASSUME NEW all, Ascend(all), NEW n \in 1..Len(all), NEW out, Lists(out, all, n - 1)
    PROVE  Lists(Engine!WithSubject(out, all[n]), all, n)
<1> DEFINE e == all[n].subject
<1>0. Len(all) \in Nat /\ Len(out) \in Nat /\ DOMAIN out = 1..Len(out) /\ e \in Nat
  BY DEF Ascend, Lists, IsSeq
<1>1. out # <<>> <=> Len(out) # 0
  BY DEF Lists, IsSeq
<1>2. CASE Len(out) # 0 /\ out[Len(out)] = e
  <2>1. Engine!WithSubject(out, all[n]) = out
    BY <1>1, <1>2 DEF Engine!WithSubject
  <2>2. \A j \in 1..n : j \in 1..(n - 1) \/ j = n
    BY <1>0
  <2>3. Len(out) \in 1..Len(out) /\ \A j \in 1..(n - 1) : j \in 1..n
    BY <1>0, <1>2
  <2>4. Lists(out, all, n)
    BY <1>2, <2>2, <2>3 DEF Lists
  <2> QED BY <2>1, <2>4
<1>3. CASE ~(Len(out) # 0 /\ out[Len(out)] = e)
  <2> DEFINE longer == Append(out, e)
             m == Len(out)
  <2>1. Engine!WithSubject(out, all[n]) = longer
    BY <1>1, <1>3 DEF Engine!WithSubject
  <2>2. /\ IsSeq(longer) /\ Len(longer) = m + 1 /\ m \in Nat
        /\ \A i \in 1..m : longer[i] = out[i]
        /\ longer[m + 1] = e
    <3>1. IsSeq(out)
      BY DEF Lists
    <3> QED BY <1>0, <3>1, Lengthened
  <2>3. ASSUME NEW i \in 1..m
        PROVE  out[i] \in Nat /\ out[i] < e
    <3>1. PICK j \in 1..(n - 1) : out[i] = all[j].subject
      BY DEF Lists
    <3>2. j \in 1..Len(all) /\ j < n /\ n - 1 # 0 /\ n - 1 \in 1..Len(all) /\ n - 1 < n
      BY <1>0
    <3>3. out[m] = all[n - 1].subject /\ m # 0
      BY <3>2 DEF Lists
    <3>4. all[n - 1].subject \in Nat /\ all[n - 1].subject <= e /\ all[n - 1].subject # e
      BY <1>3, <3>2, <3>3 DEF Ascend
    <3>5. i < m => out[i] < out[m]
      BY <2>2 DEF Lists
    <3>6. out[i] \in Nat
      BY <3>1, <3>2 DEF Ascend
    <3>7. CASE i = m
      BY <1>0, <3>3, <3>4, <3>7
    <3>8. CASE i < m
      <4>1. out[i] < out[m] /\ out[m] < e /\ out[m] \in Nat
        BY <1>0, <3>3, <3>4, <3>5, <3>8
      <4> QED BY <1>0, <3>6, <4>1
    <3> QED BY <2>2, <3>7, <3>8
  <2> HIDE DEF longer, e
  <2>4. Lists(longer, all, n)
    <3>1. \A i \in 1..Len(longer) : i \in 1..m \/ i = m + 1
      BY <2>2
    <3>2. \A j \in 1..n : j \in 1..(n - 1) \/ j = n
      BY <1>0
    <3>3. /\ \A i \in 1..m : i \in 1..Len(longer)
          /\ \A j \in 1..(n - 1) : j \in 1..n
          /\ n \in 1..n /\ m + 1 \in 1..Len(longer)
      BY <1>0, <2>2
    <3>4. \A i \in 1..Len(longer) : \E j \in 1..n : longer[i] = all[j].subject
      <4> TAKE i \in 1..Len(longer)
      <4>1. CASE i = m + 1
        BY <2>2, <3>3, <4>1 DEF e
      <4>2. CASE i \in 1..m
        <5>1. PICK j \in 1..(n - 1) : out[i] = all[j].subject
          BY <4>2 DEF Lists
        <5> QED BY <2>2, <3>3, <4>2, <5>1
      <4> QED BY <3>1, <4>1, <4>2
    <3>5. \A j \in 1..n : \E i \in 1..Len(longer) : longer[i] = all[j].subject
      BY <2>2, <3>2, <3>3 DEF Lists, e
    <3>6. ASSUME NEW i \in 1..Len(longer), NEW j \in 1..Len(longer), i < j
          PROVE  longer[i] < longer[j]
      <4>1. i \in 1..m
        BY <2>2, <3>6
      <4>2. CASE j \in 1..m
        BY <2>2, <3>6, <4>1, <4>2 DEF Lists
      <4>3. CASE j = m + 1
        BY <2>2, <2>3, <4>1, <4>3
      <4> QED BY <3>1, <4>2, <4>3
    <3>7. Len(longer) # 0 /\ longer[Len(longer)] = all[n].subject
      BY <2>2 DEF e
    <3> QED BY <2>2, <3>4, <3>5, <3>6, <3>7 DEF Lists
  <2> QED BY <2>1, <2>4
<1> QED BY <1>2, <1>3

\* Every subject is listed once, in order.
ListsSubjects(listed, byKey) ==
    /\ {listed[i] : i \in DOMAIN listed} = {k[1] : k \in DOMAIN byKey}
    /\ \A i, j \in DOMAIN listed : i < j => listed[i] < listed[j]

LEMMA SubjectsOnce ==
    ASSUME NEW byKey, Keyed(byKey)
    PROVE  ListsSubjects(Engine!Subjects(byKey), byKey)
<1> DEFINE K == DOMAIN byKey
           all == Engine!InKeyOrder(byKey, K)
           n == Cardinality(K)
           f == CHOOSE f : f = [k \in 0..Len(all) |-> SubjectStep(f, all, k)]
           listed == Engine!Subjects(byKey)
<1>1. K \in SUBSET ClaimKeys /\ IsFiniteSet(K) /\ n \in Nat
  BY FS_CardinalityType DEF Keyed
<1>2. listed = f[Len(all)]
  BY DEF Engine!Subjects, SubjectStep
<1> HIDE DEF f, listed
<1>3. PICK o : IsOrder(o, K) /\ all = [i \in 1..n |-> byKey[o[i]]]
  BY <1>1, WalkInOrder
<1> HIDE DEF all, n
<1>4. IsSeq(all) /\ Len(all) = n
  BY <1>1, <1>3, Tabular
<1>5. \A i \in 1..n : o[i] \in K /\ o[i] \in ClaimKeys /\ all[i].subject = o[i][1]
  <2>1. \A i \in 1..n : o[i] \in K
    BY <1>3 DEF IsOrder, n
  <2>2. \A i \in 1..n : all[i] = byKey[o[i]]
    BY <1>3
  <2> QED BY <1>1, <2>1, <2>2 DEF Keyed
<1>6. Ascend(all)
  <2>1. \A k \in ClaimKeys : k[1] \in Nat
    BY DEF ClaimKeys
  <2>2. \A i \in 1..n : all[i].subject \in Nat
    BY <1>5, <2>1
  <2>3. ASSUME NEW i \in 1..n, NEW j \in 1..n, i < j
        PROVE  all[i].subject <= all[j].subject
    <3>1. Before(o[i], o[j])
      BY <1>3, <2>3 DEF IsOrder, n
    <3>2. o[i][1] \in Nat /\ o[j][1] \in Nat
      BY <1>5, <2>1
    <3>3. o[i][1] <= o[j][1]
      BY <3>1, <3>2 DEF Before
    <3> QED BY <1>5, <3>3
  <2> QED BY <1>4, <2>2, <2>3 DEF Ascend
<1>7. f = [k \in 0..Len(all) |-> SubjectStep(f, all, k)]
  BY <1>1, <1>4, SubjectsExist DEF f
<1>8. /\ f[0] = <<>>
      /\ \A i \in 1..n : f[i] = Engine!WithSubject(f[i - 1], all[i])
  <2>1. \A i \in 0..n : f[i] = SubjectStep(f, all, i)
    BY <1>4, <1>7
  <2>2. 0 \in 0..n /\ \A i \in 1..n : i \in 0..n /\ i # 0
    BY <1>1
  <2> QED BY ONLY <2>1, <2>2 DEF SubjectStep
<1>9. Lists(f[n], all, n)
  <2> DEFINE G == {k \in 0..n : Lists(f[k], all, k)}
  <2>1. 0 \in G
    <3>1. Lists(<<>>, all, 0)
      BY DEF Lists, IsSeq
    <3> QED BY <1>1, <1>8, <3>1
  <2>2. ASSUME NEW k \in 1..n, k - 1 \in G
        PROVE  k \in G
    <3>1. Lists(f[k - 1], all, k - 1)
      BY <2>2
    <3>2. Lists(f[k], all, k)
      BY <1>4, <1>6, <1>8, <3>1, ListsOneMore
    <3> QED BY <3>2
  <2>3. \A k \in 0..n : k \in G
    <3> HIDE DEF G
    <3> QED BY <1>1, <2>1, <2>2, Induction
  <2>4. n \in 0..n
    BY <1>1
  <2> QED BY <2>3, <2>4
<1>10. Lists(listed, all, n) /\ DOMAIN listed = 1..Len(listed)
  BY <1>2, <1>4, <1>9 DEF Lists, IsSeq
<1>11. \A k \in K : \E i \in 1..n : o[i] = k
  BY <1>3 DEF IsOrder, n
<1>12. \A i \in DOMAIN listed : \E k \in K : listed[i] = k[1]
  <2> TAKE i \in DOMAIN listed
  <2>1. PICK j \in 1..n : listed[i] = all[j].subject
    BY <1>10 DEF Lists
  <2> QED BY <1>5, <2>1
<1>13. \A k \in K : \E i \in DOMAIN listed : listed[i] = k[1]
  <2> TAKE k \in K
  <2>1. PICK j \in 1..n : o[j] = k
    BY <1>11
  <2>2. all[j].subject = k[1]
    BY <1>5, <2>1
  <2> QED BY <1>10, <2>2 DEF Lists
<1>14. \A i, j \in DOMAIN listed : i < j => listed[i] < listed[j]
  BY <1>10 DEF Lists
<1>15. {listed[i] : i \in DOMAIN listed} = {k[1] : k \in K}
  BY <1>12, <1>13
<1> QED BY <1>14, <1>15 DEF ListsSubjects, listed

-----------------------------------------------------------------------------
(* What is resolved at an instant *)

\* The keys of a pair up to an instant, and all of them.
KeysTo(byKey, s, p, t) == {k \in DOMAIN byKey : k[1] = s /\ k[2] = p /\ k[3] <= t}
KeysOf(byKey, s, p) == {k \in DOMAIN byKey : k[1] = s /\ k[2] = p}

\* The newest correction of its beginning.
Stands(byKey, k) ==
    \A l \in KeysOf(byKey, k[1], k[2]) : l[3] = k[3] => l[4] <= k[4]

\* Where a walk meets a new beginning.
IsHead(o, i) == i = 1 \/ o[i - 1][3] # o[i][3]

\* The versions of a pair come newest first.
LEMMA NewestFirst ==
    ASSUME NEW byKey, Keyed(byKey), NEW s, NEW p, NEW t, NEW K, K = KeysTo(byKey, s, p, t),
           NEW o, IsOrder(o, K)
    PROVE  \A i, j \in 1..Cardinality(K) :
             /\ o[i] \in K /\ o[i] \in ClaimKeys /\ o[i][3] \in Nat /\ o[i][4] \in Nat
             /\ i < j => o[i][3] > o[j][3] \/ (o[i][3] = o[j][3] /\ o[i][4] > o[j][4])
<1> TAKE i, j \in 1..Cardinality(K)
<1>1. /\ o[i] \in K /\ o[j] \in K /\ (i < j => Before(o[i], o[j]))
  BY DEF IsOrder
<1>2. /\ o[i] \in ClaimKeys /\ o[j] \in ClaimKeys
      /\ o[i][1] = s /\ o[i][2] = p /\ o[j][1] = s /\ o[j][2] = p
  BY <1>1 DEF KeysTo, Keyed
<1>3. \A k \in ClaimKeys : k[1] \in Nat /\ k[2] \in Nat /\ k[3] \in Nat /\ k[4] \in Nat
  BY DEF ClaimKeys
<1>4. i < j => o[i][3] > o[j][3] \/ (o[i][3] = o[j][3] /\ o[i][4] > o[j][4])
  BY <1>1, <1>2, <1>3 DEF Before
<1> QED BY <1>1, <1>2, <1>3, <1>4

\* The versions that count are the newest corrections.
LEMMA HeadsStand ==
    ASSUME NEW byKey, Keyed(byKey), NEW s, NEW p, NEW t \in Nat,
           NEW K, K = KeysTo(byKey, s, p, t), IsFiniteSet(K), NEW o, IsOrder(o, K),
           NEW i \in 1..Cardinality(K)
    PROVE  IsHead(o, i) <=> Stands(byKey, o[i])
<1> DEFINE n == Cardinality(K)
<1>0. n \in Nat
  BY FS_CardinalityType
<1>1. \A a, b \in 1..n :
             /\ o[a] \in K /\ o[a] \in ClaimKeys /\ o[a][3] \in Nat /\ o[a][4] \in Nat
             /\ a < b => o[a][3] > o[b][3] \/ (o[a][3] = o[b][3] /\ o[a][4] > o[b][4])
  BY NewestFirst
<1>2. \A k \in K : \E j \in 1..n : o[j] = k
  BY DEF IsOrder
<1> HIDE DEF n
<1>3. o[i][1] = s /\ o[i][2] = p /\ o[i][3] <= t /\ i \in 1..n
  BY <1>1 DEF KeysTo, n
<1>4. ASSUME IsHead(o, i), NEW l \in KeysOf(byKey, s, p), l[3] = o[i][3]
      PROVE  l[4] <= o[i][4]
  <2>1. l \in K
    BY <1>3, <1>4 DEF KeysOf, KeysTo
  <2>2. PICK j \in 1..n : o[j] = l
    BY <1>2, <2>1
  <2>3. CASE j < i
    <3>1. i - 1 \in 1..n /\ i # 1 /\ i - 1 < i /\ (j < i - 1 \/ j = i - 1)
      BY <1>0, <1>3, <2>3
    <3>2. o[i - 1][3] # o[i][3]
      BY <1>4, <3>1 DEF IsHead
    <3>3. o[i - 1][3] > o[i][3]
      BY <1>1, <1>3, <3>1, <3>2
    <3>4. o[j][3] >= o[i - 1][3]
      BY <1>1, <3>1
    <3>5. o[j][3] > o[i][3] /\ o[j][3] = o[i][3]
      BY <1>1, <1>3, <1>4, <2>2, <3>1, <3>3, <3>4
    <3> QED BY <1>1, <1>3, <3>5
  <2>4. CASE j = i
    BY <1>1, <1>3, <2>2, <2>4
  <2>5. CASE i < j
    BY <1>1, <1>3, <1>4, <2>2, <2>5
  <2> QED BY <1>3, <2>3, <2>4, <2>5
<1>5. ASSUME ~IsHead(o, i)
      PROVE  ~Stands(byKey, o[i])
  <2>1. i - 1 \in 1..n /\ i - 1 < i /\ o[i - 1][3] = o[i][3]
    BY <1>0, <1>3, <1>5 DEF IsHead
  <2>2. o[i - 1][4] > o[i][4] /\ o[i - 1][4] \in Nat /\ o[i][4] \in Nat
    BY <1>1, <1>3, <2>1
  <2>3. o[i - 1] \in KeysOf(byKey, s, p)
    BY <1>1, <2>1 DEF KeysTo, KeysOf
  <2>4. ~(o[i - 1][4] <= o[i][4])
    BY <2>2
  <2> QED BY <1>3, <2>1, <2>3, <2>4 DEF Stands
<1>6. IsHead(o, i) => Stands(byKey, o[i])
  BY <1>3, <1>4 DEF Stands
<1> QED BY <1>5, <1>6

\* The first of some positions.
LEMMA MinOf ==
    ASSUME NEW n \in Nat, NEW D \in SUBSET (1..n), D # {}
    PROVE  Engine!Min(D) \in D /\ \A j \in D : Engine!Min(D) <= j
<1>1. D \subseteq Nat /\ \E d : d \in D
  OBVIOUS
<1>2. PICK e \in D : \A i \in D : <<i, e>> \notin OpToRel(<, Nat)
  BY <1>1, NatLessThanWellFounded, WFMin, Zenon
<1>3. \A i \in D : ~(i < e) /\ i \in Nat /\ e \in Nat
  BY <1>1, <1>2 DEF OpToRel
<1>4. \A i \in D : e <= i
  BY <1>3
<1> QED BY <1>4 DEF Engine!Min

\* What counts of a pair at an instant: the newest corrections that are valid then.
Counts(byKey, s, p, t, k) ==
    k \in KeysOf(byKey, s, p) /\ Stands(byKey, k) /\ Engine!ClaimValidAt(byKey[k], t)

\* Of these, those that begin last.
Latest(byKey, s, p, t) ==
    {k \in KeysOf(byKey, s, p) :
       Counts(byKey, s, p, t, k) /\ \A l : Counts(byKey, s, p, t, l) => l[3] <= k[3]}

\* These are in force.
LEMMA InForceIsLatest ==
    ASSUME Keyed(memory.claims), NEW s, NEW p, NEW t
    PROVE  Engine!InForce(s, p, t) = {memory.claims[k] : k \in Latest(memory.claims, s, p, t)}
<1> DEFINE byKey == memory.claims
           KO == KeysOf(byKey, s, p)
           asserted == {byKey[k] : k \in {k \in DOMAIN byKey : k[1] = s /\ k[2] = p}}
           standing == {c \in asserted : \A d \in asserted : d.from = c.from => d.tx <= c.tx}
           V(c) == Engine!ClaimValidAt(c, t)
<1>1. Engine!InForce(s, p, t) = {c \in standing : V(c) /\ \A d \in standing : V(d) => d.from <= c.from}
  BY DEF Engine!InForce
<1>2. asserted = {byKey[k] : k \in KO}
  BY DEF KeysOf
<1> HIDE DEF asserted, byKey, V
<1>3. \A k \in KO : byKey[k].from = k[3] /\ byKey[k].tx = k[4] /\ k[1] = s /\ k[2] = p
  BY DEF Keyed, KeysOf, byKey
<1> HIDE DEF KO
<1>4. ASSUME NEW k \in KO
      PROVE  byKey[k] \in standing <=> Stands(byKey, k)
  <2>1. Stands(byKey, k) <=> \A l \in KO : l[3] = k[3] => l[4] <= k[4]
    BY <1>3 DEF Stands, KO
  <2>2. byKey[k] \in standing <=> \A d \in asserted : d.from = byKey[k].from => d.tx <= byKey[k].tx
    BY <1>2
  <2> HIDE DEF standing
  <2> QED BY <1>2, <1>3, <2>1, <2>2
<1>5. standing = {byKey[k] : k \in {k \in KO : Stands(byKey, k)}}
  <2>1. standing \subseteq asserted
    OBVIOUS
  <2> HIDE DEF standing
  <2> QED BY <1>2, <1>4, <2>1
<1> HIDE DEF standing
<1>6. \A k : Counts(byKey, s, p, t, k) <=> k \in KO /\ Stands(byKey, k) /\ V(byKey[k])
  BY DEF Counts, KO, V
<1>7. ASSUME NEW k \in KO, Stands(byKey, k), V(byKey[k])
      PROVE  (\A d \in standing : V(d) => d.from <= byKey[k].from)
               <=> \A l : Counts(byKey, s, p, t, l) => l[3] <= k[3]
  BY <1>3, <1>5, <1>6
<1>8. ASSUME NEW k \in KO, Stands(byKey, k)
      PROVE  (V(byKey[k]) /\ \A d \in standing : V(d) => d.from <= byKey[k].from)
               <=> k \in Latest(byKey, s, p, t)
  BY <1>6, <1>7, <1>8 DEF Latest, KO
<1>9. \A k \in Latest(byKey, s, p, t) : k \in KO /\ Stands(byKey, k)
  BY <1>6 DEF Latest, KO
<1>10. {c \in standing : V(c) /\ \A d \in standing : V(d) => d.from <= c.from}
         = {byKey[k] : k \in Latest(byKey, s, p, t)}
  <2> DEFINE W(c) == V(c) /\ \A d \in standing : V(d) => d.from <= c.from
  <2>1. \A k \in KO : Stands(byKey, k) => (W(byKey[k]) <=> k \in Latest(byKey, s, p, t))
    BY <1>8
  <2> HIDE DEF W
  <2>2. {c \in standing : W(c)} = {byKey[k] : k \in Latest(byKey, s, p, t)}
    BY <1>5, <1>9, <2>1
  <2> QED BY <2>2 DEF W
<1> QED BY <1>1, <1>10 DEF byKey

\* A recall resolves what is in force.
LEMMA ResolvesLatest ==
    ASSUME NEW byKey, Keyed(byKey), NEW s, NEW p, NEW t \in Nat
    PROVE  Engine!ResolveAsOf(Engine!VersionsAtOrBefore(byKey, s, p, t), t)
             = {byKey[k] : k \in Latest(byKey, s, p, t)}
<1> DEFINE K == KeysTo(byKey, s, p, t)
           n == Cardinality(K)
           v == Engine!VersionsAtOrBefore(byKey, s, p, t)
           V(c) == Engine!ClaimValidAt(c, t)
           L == Latest(byKey, s, p, t)
<1>1. K \in SUBSET ClaimKeys /\ IsFiniteSet(K) /\ n \in Nat
  <2>1. K \in SUBSET ClaimKeys /\ K \subseteq DOMAIN byKey
    BY DEF Keyed, KeysTo
  <2> HIDE DEF K
  <2>2. IsFiniteSet(K)
    BY <2>1, FS_Subset DEF Keyed
  <2> QED BY <2>1, <2>2, FS_CardinalityType
<1>2. v = Engine!InKeyOrder(byKey, K)
  BY DEF Engine!VersionsAtOrBefore, KeysTo
<1> HIDE DEF v, K
<1>3. PICK o : IsOrder(o, K) /\ v = [i \in 1..n |-> byKey[o[i]]]
  BY <1>1, <1>2, WalkInOrder
<1>4. \A i, j \in 1..n :
             /\ o[i] \in K /\ o[i] \in ClaimKeys /\ o[i][3] \in Nat /\ o[i][4] \in Nat
             /\ i < j => o[i][3] > o[j][3] \/ (o[i][3] = o[j][3] /\ o[i][4] > o[j][4])
  BY <1>3, NewestFirst DEF K
<1>5. \A i \in 1..n : IsHead(o, i) <=> Stands(byKey, o[i])
  BY <1>1, <1>3, HeadsStand DEF K
<1>6. \A k \in K : \E i \in 1..n : o[i] = k
  BY <1>3 DEF IsOrder
<1> HIDE DEF n
<1>7. /\ DOMAIN v = 1..n
      /\ \A i \in 1..n : v[i] = byKey[o[i]] /\ v[i].from = o[i][3]
  <2>1. \A i \in 1..n : v[i] = byKey[o[i]] /\ o[i] \in DOMAIN byKey
    BY <1>3, <1>4 DEF K, KeysTo
  <2> QED BY <1>3, <2>1 DEF Keyed
<1> DEFINE heads == {i \in DOMAIN v : i = 1 \/ v[i - 1].from # v[i].from}
           found == {i \in heads : V(v[i])}
<1>8. Engine!ResolveAsOf(v, t) = IF found = {} THEN {} ELSE {v[Engine!Min(found)]}
  BY DEF Engine!ResolveAsOf
<1>9. \A i \in 1..n : i \in heads <=> Stands(byKey, o[i])
  <2>1. \A i \in 1..n : i # 1 => i - 1 \in 1..n
    BY <1>1
  <2>2. \A i \in 1..n : (i = 1 \/ v[i - 1].from # v[i].from) <=> IsHead(o, i)
    BY <1>7, <2>1 DEF IsHead
  <2> QED BY <1>5, <1>7, <2>2
<1> HIDE DEF heads
<1>10. ASSUME NEW i \in 1..n
       PROVE  i \in found <=> Counts(byKey, s, p, t, o[i])
  <2>1. o[i] \in KeysOf(byKey, s, p)
    BY <1>4 DEF K, KeysTo, KeysOf
  <2>2. i \in found <=> Stands(byKey, o[i]) /\ V(byKey[o[i]])
    BY <1>7, <1>9
  <2> QED BY <2>1, <2>2 DEF Counts
<1>11. found \in SUBSET (1..n)
  BY <1>7 DEF heads
<1> HIDE DEF found, V
<1>12. ASSUME NEW k, Counts(byKey, s, p, t, k)
       PROVE  \E i \in found : o[i] = k
  <2>1. k \in DOMAIN byKey /\ k[1] = s /\ k[2] = p /\ byKey[k].from <= t
    BY <1>12 DEF Counts, KeysOf, Engine!ClaimValidAt
  <2>2. k \in K
    BY <2>1 DEF K, KeysTo, Keyed
  <2>3. PICK i \in 1..n : o[i] = k
    BY <1>6, <2>2
  <2> QED BY <1>10, <1>12, <2>3
<1>13. CASE found = {}
  <2>1. L = {}
    BY <1>12, <1>13 DEF Latest
  <2> QED BY <1>8, <1>13, <2>1 DEF v
<1>14. CASE found # {}
  <2> DEFINE m == Engine!Min(found)
  <2>1. m \in found /\ \A j \in found : m <= j
    BY <1>1, <1>11, <1>14, MinOf
  <2>2. Engine!ResolveAsOf(v, t) = {v[m]}
    BY <1>8, <1>14
  <2> HIDE DEF m
  <2>3. m \in 1..n /\ v[m] = byKey[o[m]] /\ Counts(byKey, s, p, t, o[m])
    BY <1>7, <1>10, <1>11, <2>1
  <2>4. ASSUME NEW l, Counts(byKey, s, p, t, l)
        PROVE  /\ l[3] <= o[m][3]
               /\ o[m][3] <= l[3] => l = o[m]
    <3>1. PICK j \in found : o[j] = l
      BY <1>12, <2>4
    <3>2. j \in 1..n /\ m <= j
      BY <1>11, <2>1
    <3>3. CASE j = m
      BY <1>4, <2>3, <3>1, <3>3
    <3>4. CASE m < j
      <4>1. o[m][3] >= o[j][3] /\ o[m][3] \in Nat /\ o[j][3] \in Nat
        BY <1>4, <2>3, <3>2, <3>4
      <4>2. o[m][3] <= o[j][3] => o[m][3] = o[j][3] /\ o[m][4] > o[j][4]
        BY <1>4, <2>3, <3>2, <3>4
      <4>3. o[m][3] = o[j][3] => o[m][4] <= o[j][4]
        <5>1. Stands(byKey, l) /\ l[1] = s /\ l[2] = p /\ o[m] \in KeysOf(byKey, s, p)
          BY <2>3, <2>4 DEF Counts, KeysOf
        <5> QED BY <3>1, <5>1 DEF Stands
      <4>4. o[m][4] \in Nat /\ o[j][4] \in Nat
        BY <1>4, <2>3, <3>2
      <4> QED BY <3>1, <4>1, <4>2, <4>3, <4>4
    <3> QED BY <2>3, <3>2, <3>3, <3>4
  <2>5. o[m] \in L
    BY <2>3, <2>4 DEF Latest, Counts
  <2>6. \A l \in L : l = o[m]
    BY <2>3, <2>4 DEF Latest
  <2>7. {byKey[k] : k \in L} = {byKey[o[m]]}
    <3> HIDE DEF L
    <3> QED BY <2>5, <2>6
  <2> QED BY <2>2, <2>3, <2>7 DEF v
<1> QED BY <1>13, <1>14

\* Whatever calls are made, a recall lists every subject once and resolves at an instant
\* what was last asserted of the latest beginning that still holds (Store::subjects,
\* versions_at_or_before, resolve_as_of).
THEOREM RecallFindsWhatHolds ==
    ASSUME CallsOK, KeysOK
    PROVE  Engine!Spec => []Engine!ResolvesWhatHolds
<1>1. EnginesInv => Engine!ResolvesWhatHolds
  <2> SUFFICES ASSUME EnginesInv
               PROVE  Engine!ResolvesWhatHolds
    OBVIOUS
  <2>1. native.claims = memory.claims /\ Keyed(memory.claims)
    BY HeldIsKeyed DEF EnginesInv, Agrees, MemoryOK
  <2>2. ListsSubjects(Engine!Subjects(native.claims), native.claims)
    BY <2>1, SubjectsOnce
  <2>3. ASSUME NEW k \in DOMAIN native.claims, NEW t \in Instants
        PROVE  Engine!ResolveAsOf(Engine!VersionsAtOrBefore(native.claims, k[1], k[2], t), t)
                 = Engine!InForce(k[1], k[2], t)
    <3>1. t \in Nat
      BY DEF KeysOK
    <3>2. PICK s, p : s = k[1] /\ p = k[2]
      OBVIOUS
    <3>3. Engine!InForce(s, p, t) = {memory.claims[l] : l \in Latest(memory.claims, s, p, t)}
      BY <2>1, InForceIsLatest
    <3>4. Engine!ResolveAsOf(Engine!VersionsAtOrBefore(memory.claims, s, p, t), t)
            = {memory.claims[l] : l \in Latest(memory.claims, s, p, t)}
      BY <2>1, <3>1, ResolvesLatest
    <3> QED BY <2>1, <3>2, <3>3, <3>4
  <2> QED BY <2>2, <2>3 DEF Engine!ResolvesWhatHolds, ListsSubjects
<1> QED BY <1>1, EnginesKept, PTL
=============================================================================
