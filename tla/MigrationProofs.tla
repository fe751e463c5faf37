--------------------------- MODULE MigrationProofs ----------------------------
(***************************************************************************)
(* What the migration to the native engine and its rollback keep, for any  *)
(* writes and any number of crashes: no write an application was           *)
(* acknowledged is lost, and the database it may open shows all of them,   *)
(* but for one made at a path that a rollback had left empty.              *)
(*                                                                         *)
(* The argument is where the data lies.  There are six layouts of the      *)
(* directories, and a marker fits the layout its phase was written for or  *)
(* the next one, which a crash between a rename and its marker leaves      *)
(* behind.  Nothing is written while the marker forbids opening, so that   *)
(* the inventory stays the set of all acknowledged writes until it is      *)
(* settled; from then on a rollback is refused once the native store has   *)
(* moved on.  The sixth layout is the one an application makes that opens  *)
(* the database in the window of a rollback; no command leaves it.         *)
(***************************************************************************)
EXTENDS Migration, TLAPS

Fjall(p, data) == dir[p] = [kind |-> "fjall", data |-> data]
Native(p, data) == dir[p] = [kind |-> "native", data |-> data]
Empty(p) == dir[p] = Absent

\* The Fjall store is in its place and archived.
InPlace(i) ==
    /\ Fjall("source", i) /\ dir["archive"] = [kind |-> "archive", data |-> i]
    /\ Empty("backup") /\ Empty("retired")
\* It has been moved to its backup; the native store is staged.
Moved(i) == Empty("source") /\ Fjall("backup", i) /\ Native("staging", i) /\ Empty("retired")
\* The native store is visible.
Visible(i, data) ==
    Native("source", data) /\ Fjall("backup", i) /\ Empty("staging") /\ Empty("retired")
\* A rollback has retired it.
Retired(i) == Empty("source") /\ Fjall("backup", i) /\ Native("retired", i)
\* An application was given a new database beside what the rollback had retired.
Beside(i) == IsNative("source") /\ Fjall("backup", i) /\ Native("retired", i)
\* The Fjall store is back.
Restored(data) == Fjall("source", data) /\ Empty("backup") /\ Exists("retired")

\* Where the data lies when the marker is r.
Lies(r) ==
    LET i == r.inventory
    IN  \/ /\ r = None
           /\ Fjall("source", acked) /\ Empty("backup") /\ Empty("retired")
        \/ /\ r.phase \in {"Exported", "Imported"} /\ acked = i
           /\ InPlace(i)
        \/ /\ r.phase = "Verified" /\ acked = i
           /\ (InPlace(i) /\ Native("staging", i)) \/ Moved(i)
        \/ /\ r.phase = "SourceMoved" /\ acked = i
           /\ Moved(i) \/ Visible(i, i)
        \/ /\ r.phase = "Cutover" /\ acked = i /\ r.token = {i}
           /\ Visible(i, i) \/ Retired(i)
        \/ /\ r.phase = "Complete" /\ r.token = {i}
           /\ \/ Visible(i, acked)
              \/ Retired(i) /\ acked = i
              \/ Beside(i) /\ acked = dir["source"].data \cup i
        \/ /\ r.phase = "RollbackNativeMoved" /\ acked = i
           /\ Retired(i) \/ Restored(i)
        \/ /\ r.phase = "RolledBack"
           /\ Restored(acked)

\* What the running command relies on.
Runs ==
    \/ proc = Idle
    \/ proc.pc = "export" /\ marker = None
    \/ proc.pc = "write" /\ proc.report.phase # "none" /\ Lies(proc.report)
    \/ proc.pc = "loop" /\ proc.report = marker /\ marker.phase \in Resumable
    \/ proc.pc = "import" /\ proc.report = marker /\ marker.phase = "Exported"
       /\ IsNative("staging")
    \/ proc.pc = "retire" /\ proc.report = marker /\ marker.phase \in {"Cutover", "Complete"}
       /\ acked = marker.inventory /\ Visible(acked, acked)
    \/ proc.pc = "restore" /\ proc.report = marker /\ marker.phase \in Rolling

\* Reports and directory entries are records.
Shaped(r) == r = Report(r.phase, r.inventory, r.token)
Directories ==
    DOMAIN dir = Paths /\ \A p \in Paths : dir[p] = [kind |-> dir[p].kind, data |-> dir[p].data]

MigrationInv ==
    /\ Directories /\ Shaped(marker) /\ Shaped(proc.report)
    /\ Lies(marker)
    /\ Runs
    /\ app => proc = Idle /\ OpenAllowed /\ Exists("source")


\* The initial state: the Fjall store alone.
LEMMA InitHolds == Init => MigrationInv
<1> SUFFICES ASSUME Init PROVE MigrationInv
  OBVIOUS
<1>1. DOMAIN dir = Paths /\ Fjall("source", acked) /\ \A p \in Paths \ {"source"} : dir[p] = Absent
  BY DEF Init, Paths, Fjall
<1>2. Directories
  BY <1>1 DEF Directories, Absent, Paths, Fjall
<1>3. marker = None /\ proc = Idle /\ ~app
  BY DEF Init
<1>4. Shaped(marker) /\ Shaped(proc.report)
  BY <1>3 DEF Shaped, Report, None, Idle
<1>5. Lies(marker)
  BY <1>1, <1>3 DEF Lies, Empty, Paths
<1> QED BY <1>2, <1>3, <1>4, <1>5 DEF MigrationInv, Runs

\* A step that leaves the directories, the writes and the marker alone leaves them where
\* they lie, and what remains is what the command relies on next.
LEMMA Idles ==
    ASSUME MigrationInv, UNCHANGED <<dir, marker, acked>>, Shaped(proc.report)', Runs',
           app' => proc' = Idle /\ OpenAllowed /\ Exists("source")
    PROVE  MigrationInv'
<1>1. Directories' /\ Shaped(marker)' /\ (OpenAllowed' <=> OpenAllowed) /\ (Exists("source")' <=> Exists("source"))
  BY DEF MigrationInv, Directories, Shaped, OpenAllowed, Exists
<1>2. Lies(marker)'
  BY DEF MigrationInv, Lies, Fjall, Native, Empty, InPlace, Moved, Visible, Retired, Beside, IsNative, Restored, Exists
<1> QED BY <1>1, <1>2 DEF MigrationInv

\* What a directory step leaves behind.
LEMMA DirectoryStep ==
    ASSUME MigrationInv, NEW q \in Paths, NEW k, NEW data,
           dir' = [dir EXCEPT ![q] = [kind |-> k, data |-> data]]
    PROVE  /\ Directories' /\ dir'[q] = [kind |-> k, data |-> data]
           /\ \A p \in Paths \ {q} : dir'[p] = dir[p]
  BY DEF MigrationInv, Directories

\* begin, and the archive that is complete before the marker is written.
LEMMA ExportStep ==
    ASSUME MigrationInv, Begin \/ Export
    PROVE  MigrationInv'
<1>1. CASE Begin
  <2>1. /\ ~app /\ marker = None /\ UNCHANGED <<dir, marker, app, acked>>
        /\ proc' = [pc |-> "export", report |-> None]
    BY <1>1 DEF Begin, Goto, Outside
  <2>2. Shaped(proc.report)' /\ Runs'
    BY <2>1 DEF Shaped, Report, None, Runs
  <2> QED BY <2>1, <2>2, Idles
<1>2. CASE Export
  <2> DEFINE d == dir["source"].data
             e == [kind |-> "archive", data |-> d]
  <2>1. /\ marker = None /\ proc.pc = "export" /\ ~app
        /\ dir' = [dir EXCEPT !["archive"] = e]
        /\ proc' = [pc |-> "write", report |-> Report("Exported", d, {})]
        /\ UNCHANGED <<marker, app, acked, crashes>>
    BY <1>2 DEF Export, Goto, Outside, MigrationInv, Runs, Idle
  <2>2. Fjall("source", acked) /\ Empty("backup") /\ Empty("retired") /\ d = acked
    BY <2>1 DEF MigrationInv, Lies, None, Fjall
  <2>3. Directories' /\ dir'["archive"] = e /\ \A p \in Paths \ {"archive"} : dir'[p] = dir[p]
    BY <2>1, DirectoryStep DEF Paths
  <2>4. proc'.report = [phase |-> "Exported", inventory |-> acked, token |-> {}]
    BY <2>1, <2>2 DEF Report
  <2>5. InPlace(acked)' /\ Fjall("source", acked)' /\ Empty("backup")' /\ Empty("retired")'
    BY <2>1, <2>2, <2>3 DEF InPlace, Fjall, Empty, Paths
  <2>6. Lies(marker)' /\ Lies(proc.report)'
    BY <2>1, <2>4, <2>5 DEF Lies
  <2>7. Runs'
    BY <2>1, <2>4, <2>6 DEF Runs
  <2>8. Shaped(marker)' /\ Shaped(proc.report)'
    BY <2>1, <2>4 DEF Shaped, MigrationInv, Report
  <2> QED BY <2>1, <2>3, <2>6, <2>7, <2>8 DEF MigrationInv
<1> QED BY <1>1, <1>2

\* The phases of a migration are told apart.
LEMMA Phases ==
    /\ Resumable = {"Exported", "Imported", "Verified", "SourceMoved", "Cutover"}
    /\ Rolling = {"RollbackNativeMoved"} /\ Settled = {"Complete", "RolledBack"}
  BY DEF Resumable, BeforeMove, Rolling, Settled

\* A report that the running command holds may become the marker.
LEMMA WriteReportStep ==
    ASSUME MigrationInv, WriteReport
    PROVE  MigrationInv'
<1>1. proc.pc = "write" /\ marker' = proc.report /\ UNCHANGED <<dir, app, acked>> /\ ~app
  BY DEF WriteReport, Outside, MigrationInv, Idle
<1>2. proc.report.phase # "none" /\ Lies(proc.report) /\ Shaped(proc.report)
  BY <1>1 DEF MigrationInv, Runs, Idle
<1>3. Directories' /\ Shaped(marker)'
  BY <1>1, <1>2 DEF MigrationInv, Directories, Shaped
<1>4. Lies(marker)'
  BY <1>1, <1>2 DEF Lies, Fjall, Native, Empty, InPlace, Moved, Visible, Retired, Beside, IsNative, Restored, Exists
<1>5. proc.report.phase \in Resumable \cup Rolling \cup Settled
  BY <1>2, Phases DEF Lies, None
<1>6. Shaped(proc.report)' /\ Runs'
  <2>1. CASE proc.report.phase \in Settled
    <3>1. proc' = Idle
      BY <2>1, Phases DEF WriteReport
    <3> QED BY <3>1 DEF Runs, Shaped, Idle, None, Report
  <2>2. CASE proc.report.phase \in Rolling
    <3>1. proc' = [pc |-> "restore", report |-> proc.report]
      BY <2>2, Phases DEF WriteReport, Goto
    <3> QED BY <1>1, <1>2, <2>2, <3>1 DEF Runs, Shaped
  <2>3. CASE proc.report.phase \in Resumable
    <3>1. proc' = [pc |-> "loop", report |-> proc.report]
      BY <2>3, Phases DEF WriteReport, Goto
    <3> QED BY <1>1, <1>2, <2>3, <3>1 DEF Runs, Shaped
  <2> QED BY <1>5, <2>1, <2>2, <2>3
<1> QED BY <1>1, <1>3, <1>4, <1>6 DEF MigrationInv

\* A command that is refused, or dies, leaves the directories and the marker alone.
LEMMA RefuseStep ==
    ASSUME MigrationInv, proc' = Idle, UNCHANGED <<dir, marker, app, acked>>
    PROVE  MigrationInv'
<1>1. Shaped(proc.report)' /\ Runs'
  BY DEF Shaped, Report, Idle, None, Runs
<1> QED BY <1>1, Idles DEF MigrationInv

\* A command goes on to write a report that fits what lies where.
LEMMA ReportStep ==
    ASSUME MigrationInv, NEW r, UNCHANGED <<dir, marker, app, acked>>, ~app,
           proc' = [pc |-> "write", report |-> r], Shaped(r), r.phase # "none", Lies(r)
    PROVE  MigrationInv'
<1>1. Lies(proc.report)'
  BY DEF Lies, Fjall, Native, Empty, InPlace, Moved, Visible, Retired, Beside, IsNative, Restored, Exists
<1>2. Shaped(proc.report)' /\ Runs'
  BY <1>1 DEF Shaped, Runs
<1> QED BY <1>2, Idles

\* An advanced report keeps its inventory and its token.
LEMMA AdvanceShape ==
    ASSUME NEW r, Shaped(r), NEW phase
    PROVE  /\ Shaped(Advance(r, phase)) /\ Advance(r, phase).phase = phase
           /\ Advance(r, phase).inventory = r.inventory /\ Advance(r, phase).token = r.token
<1>1. r = [phase |-> r.phase, inventory |-> r.inventory, token |-> r.token]
  BY DEF Shaped, Report
<1>2. Advance(r, phase) = [phase |-> phase, inventory |-> r.inventory, token |-> r.token]
  BY <1>1 DEF Advance
<1> QED BY <1>2 DEF Shaped, Report

\* migrate_inner with a marker: a rename that was not recorded is recognised.
LEMMA ResumeStep ==
    ASSUME MigrationInv, Resume
    PROVE  MigrationInv'
<1> DEFINE i == marker.inventory
           r == Reconcile(marker)
<1>1. ~app /\ marker.phase \in Resumable /\ UNCHANGED <<dir, marker, app, acked>>
  BY DEF Resume, Outside
<1>2. CASE r = None
  <2>1. marker # None
    BY <1>1, Phases DEF None
  <2>2. proc' = Idle
    BY <1>2, <2>1 DEF Resume, Refuse
  <2> QED BY <1>1, <2>2, RefuseStep
<1>3. CASE r # None /\ r = marker
  <2>1. proc' = [pc |-> "loop", report |-> marker]
    BY <1>3 DEF Resume, Goto
  <2>2. Shaped(proc.report)' /\ Runs'
    BY <1>1, <2>1 DEF Shaped, MigrationInv, Runs
  <2> QED BY <1>1, <2>2, Idles
<1>4. CASE r # None /\ r # marker
  <2>1. proc' = [pc |-> "write", report |-> r]
    BY <1>4 DEF Resume, Goto
  <2>2. Shaped(r) /\ r.phase # "none" /\ Lies(r)
    <3>1. CASE marker.phase \in BeforeMove \cup {"SourceMoved"} /\ IsNative("source")
      <4>1. r = Report("Cutover", i, {NativeState("source")})
        BY <1>4, <3>1 DEF Reconcile, IsNative, Exists
      <4>2. acked = i /\ Visible(i, i)
        BY <3>1 DEF MigrationInv, Lies, IsNative, BeforeMove, Fjall, Empty, InPlace, Moved, Absent, None
      <4>3. NativeState("source") = i
        BY <4>2 DEF Visible, Native, NativeState
      <4>4. r.phase = "Cutover" /\ r.inventory = i /\ r.token = {i} /\ Shaped(r)
        BY <4>1, <4>3 DEF Report, Shaped
      <4> HIDE DEF r
      <4> QED BY <4>2, <4>4 DEF Lies
    <3>2. CASE ~(marker.phase \in BeforeMove \cup {"SourceMoved"} /\ IsNative("source"))
      <4>1. marker.phase \in BeforeMove /\ ~Exists("source") /\ r = Advance(marker, "SourceMoved")
        BY <1>4, <3>2 DEF Reconcile
      <4>2. acked = i /\ Moved(i)
        BY <4>1 DEF MigrationInv, Lies, Exists, BeforeMove, Fjall, InPlace, Absent, None
      <4>3. r.phase = "SourceMoved" /\ r.inventory = i /\ Shaped(r)
        BY <4>1, AdvanceShape DEF MigrationInv
      <4> HIDE DEF r
      <4> QED BY <4>2, <4>3 DEF Lies
    <3> QED BY <3>1, <3>2
  <2> QED BY <1>1, <2>1, <2>2, ReportStep
<1> QED BY <1>2, <1>3, <1>4

\* At a phase of the loop the marker is the report the command holds.
LEMMA AtLoop ==
    ASSUME MigrationInv, proc.pc \in {"loop", "import"}
    PROVE  proc.report = marker /\ marker.phase \in Resumable /\ Shaped(marker) /\ ~app
  BY Phases DEF MigrationInv, Runs, Idle

\* rebuild_staging: only the staging directory is touched, while the Fjall store is in place.
LEMMA StagingStep ==
    ASSUME MigrationInv, ClearStaging \/ ImportBatch
    PROVE  MigrationInv'
<1> DEFINE i == marker.inventory
<1>1. /\ proc.report = marker /\ marker.phase = "Exported" /\ Shaped(marker) /\ ~app
      /\ UNCHANGED <<marker, app, acked>>
  <2>1. CASE ClearStaging
    BY <2>1, AtLoop DEF ClearStaging, AtPhase, Outside
  <2>2. CASE ImportBatch
    BY <2>2, AtLoop DEF ImportBatch, Outside, MigrationInv, Runs, Idle
  <2> QED BY <2>1, <2>2
<1>2. acked = i /\ InPlace(i)
  BY <1>1 DEF MigrationInv, Lies, None
<1>3. proc'.pc = "import" /\ proc'.report = proc.report
  <2>1. CASE ClearStaging
    BY <2>1 DEF ClearStaging, Goto
  <2>2. CASE ImportBatch
    BY <2>2 DEF ImportBatch, MigrationInv, Runs, Idle
  <2> QED BY <2>1, <2>2
<1>4. \E data : dir' = [dir EXCEPT !["staging"] = [kind |-> "native", data |-> data]]
  <2>1. CASE ClearStaging
    BY <2>1 DEF ClearStaging
  <2>2. CASE ImportBatch
    <3>1. PICK w : dir' = [dir EXCEPT !["staging"].data = @ \cup {w}]
      BY <2>2 DEF ImportBatch
    <3>2. IsNative("staging")
      BY <2>2 DEF MigrationInv, Runs, Idle, ImportBatch
    <3>3. dir["staging"] = [kind |-> "native", data |-> dir["staging"].data]
      BY <3>2 DEF MigrationInv, Directories, Paths, IsNative
    <3>4. dir' = [dir EXCEPT !["staging"] = [kind |-> "native", data |-> dir["staging"].data \cup {w}]]
      <4>1. [dir["staging"] EXCEPT !.data = @ \cup {w}]
              = [kind |-> "native", data |-> dir["staging"].data \cup {w}]
        BY <3>3
      <4>2. dir' = [dir EXCEPT !["staging"] = [dir["staging"] EXCEPT !.data = @ \cup {w}]]
        BY <3>1
      <4> QED BY <4>1, <4>2
    <3> QED BY <3>4
  <2> QED BY <2>1, <2>2
<1>5. PICK data : dir' = [dir EXCEPT !["staging"] = [kind |-> "native", data |-> data]]
  BY <1>4
<1>6. /\ Directories' /\ dir'["staging"] = [kind |-> "native", data |-> data]
      /\ \A p \in Paths \ {"staging"} : dir'[p] = dir[p]
  BY <1>5, DirectoryStep DEF Paths
<1>7. InPlace(i)' /\ IsNative("staging")'
  BY <1>1, <1>2, <1>6 DEF InPlace, Fjall, Empty, Paths, IsNative
<1>8. Lies(marker)'
  BY <1>1, <1>2, <1>7 DEF Lies
<1>9. Runs'
  BY <1>1, <1>3, <1>7 DEF Runs
<1> QED BY <1>1, <1>3, <1>6, <1>8, <1>9 DEF MigrationInv, Shaped

\* The end of the import and the verification of the staging store.
LEMMA VerifyStep ==
    ASSUME MigrationInv, Imported \/ VerifyStaging
    PROVE  MigrationInv'
<1> DEFINE i == marker.inventory
<1>1. /\ proc.report = marker /\ Shaped(marker) /\ ~app /\ UNCHANGED <<dir, marker, app, acked>>
  BY AtLoop DEF Imported, VerifyStaging, AtPhase, Outside
<1>2. CASE proc' = Idle
  BY <1>1, <1>2, RefuseStep
<1>3. CASE Imported /\ proc' # Idle
  <2>1. proc' = [pc |-> "write", report |-> Advance(marker, "Imported")]
    BY <1>1, <1>3 DEF Imported, Goto, Refuse
  <2>2. marker.phase = "Exported"
    BY <1>3 DEF Imported, MigrationInv, Runs, Idle
  <2>3. acked = i /\ InPlace(i)
    BY <2>2 DEF MigrationInv, Lies, None
  <2>4. /\ Shaped(Advance(marker, "Imported")) /\ Advance(marker, "Imported").phase = "Imported"
        /\ Advance(marker, "Imported").inventory = i
    BY <1>1, AdvanceShape
  <2>5. Lies(Advance(marker, "Imported"))
    BY <2>3, <2>4 DEF Lies
  <2> QED BY <1>1, <2>1, <2>4, <2>5, ReportStep
<1>4. CASE VerifyStaging /\ proc' # Idle
  <2>1. /\ proc' = [pc |-> "write", report |-> Advance(marker, "Verified")]
        /\ IsNative("staging") /\ dir["staging"].data = i
    BY <1>1, <1>4 DEF VerifyStaging, Goto, Refuse
  <2>2. marker.phase = "Imported"
    BY <1>1, <1>4 DEF VerifyStaging, AtPhase
  <2>3. acked = i /\ InPlace(i)
    BY <2>2 DEF MigrationInv, Lies, None
  <2>4. Native("staging", i)
    BY <2>1 DEF MigrationInv, Directories, Paths, Native, IsNative
  <2>5. /\ Shaped(Advance(marker, "Verified")) /\ Advance(marker, "Verified").phase = "Verified"
        /\ Advance(marker, "Verified").inventory = i
    BY <1>1, AdvanceShape
  <2>6. Lies(Advance(marker, "Verified"))
    BY <2>3, <2>4, <2>5 DEF Lies
  <2> QED BY <1>1, <2>1, <2>5, <2>6, ReportStep
<1> QED BY <1>2, <1>3, <1>4

\* A rename puts one directory where another was, or nothing.
LEMMA MoveEffect ==
    ASSUME MigrationInv, NEW p \in Paths, NEW q \in Paths, p # q, Move(p, q)
    PROVE  /\ Directories' /\ dir'[q] = dir[p] /\ dir'[p] = Absent
           /\ \A o \in Paths \ {p, q} : dir'[o] = dir[o]
  BY DEF Move, MigrationInv, Directories, Absent

\* A step that moved directories: what is still to be shown of it.
LEMMA MovedOn ==
    ASSUME MigrationInv, NEW r, UNCHANGED <<marker, app, acked>>, ~app, Directories', Lies(marker)',
           proc' = [pc |-> "write", report |-> r], Shaped(r), r.phase # "none", Lies(proc.report)'
    PROVE  MigrationInv'
<1>1. Shaped(marker)' /\ Shaped(proc.report)'
  BY DEF MigrationInv, Shaped
<1>2. Runs'
  BY DEF Runs
<1> QED BY <1>1, <1>2 DEF MigrationInv

\* The Fjall store moves to its backup.
LEMMA MoveSourceStep ==
    ASSUME MigrationInv, MoveSource
    PROVE  MigrationInv'
<1> DEFINE i == marker.inventory
           r == Advance(marker, "SourceMoved")
<1>1. /\ proc.report = marker /\ Shaped(marker) /\ ~app /\ UNCHANGED <<marker, app, acked>>
      /\ marker.phase = "Verified"
  BY AtLoop DEF MoveSource, AtPhase, Outside
<1>2. CASE Exists("source") /\ ~Exists("backup")
  <2>1. Move("source", "backup") /\ proc' = [pc |-> "write", report |-> r]
    BY <1>1, <1>2 DEF MoveSource, Goto
  <2>2. acked = i /\ InPlace(i) /\ Native("staging", i)
    BY <1>1, <1>2 DEF MigrationInv, Lies, None, Moved, Empty, Exists, Absent
  <2>3. /\ Directories' /\ dir'["backup"] = dir["source"] /\ dir'["source"] = Absent
        /\ dir'["staging"] = dir["staging"] /\ dir'["retired"] = dir["retired"]
    <3>1. /\ Directories' /\ dir'["backup"] = dir["source"] /\ dir'["source"] = Absent
          /\ \A o \in Paths \ {"source", "backup"} : dir'[o] = dir[o]
      BY <2>1, MoveEffect DEF Paths
    <3> QED BY <3>1 DEF Paths
  <2>4. Moved(i)'
    BY <1>1, <2>2, <2>3 DEF Moved, InPlace, Fjall, Native, Empty
  <2>5. Shaped(r) /\ r.phase = "SourceMoved" /\ r.inventory = i
    BY <1>1, AdvanceShape
  <2> HIDE DEF r
  <2>6. Lies(marker)' /\ Lies(proc.report)'
    BY <1>1, <2>1, <2>2, <2>4, <2>5 DEF Lies
  <2> QED BY <1>1, <2>1, <2>3, <2>5, <2>6, MovedOn
<1>3. CASE ~(Exists("source") /\ ~Exists("backup"))
  BY <1>1, <1>3, RefuseStep DEF MoveSource, Refuse
<1> QED BY <1>2, <1>3

\* The staging store moves to the database path.
LEMMA CutOverStep ==
    ASSUME MigrationInv, CutOver
    PROVE  MigrationInv'
<1> DEFINE i == marker.inventory
           r == Report("Cutover", marker.inventory, {NativeState("staging")})
<1>1. /\ proc.report = marker /\ Shaped(marker) /\ ~app /\ UNCHANGED <<marker, app, acked>>
      /\ marker.phase = "SourceMoved"
  BY AtLoop DEF CutOver, AtPhase, Outside
<1>2. CASE ~Exists("source") /\ Exists("staging") /\ Exists("backup")
  <2>1. Move("staging", "source") /\ proc' = [pc |-> "write", report |-> r]
    BY <1>1, <1>2 DEF CutOver, Goto
  <2>2. acked = i /\ Moved(i)
    BY <1>1, <1>2 DEF MigrationInv, Lies, None, Visible, Native, Exists
  <2>3. /\ Directories' /\ dir'["source"] = dir["staging"] /\ dir'["staging"] = Absent
        /\ dir'["backup"] = dir["backup"] /\ dir'["retired"] = dir["retired"]
    <3>1. /\ Directories' /\ dir'["source"] = dir["staging"] /\ dir'["staging"] = Absent
          /\ \A o \in Paths \ {"source", "staging"} : dir'[o] = dir[o]
      BY <2>1, MoveEffect DEF Paths
    <3> QED BY <3>1 DEF Paths
  <2>4. Visible(i, i)'
    BY <1>1, <2>2, <2>3 DEF Moved, Visible, Fjall, Native, Empty
  <2>5. Shaped(r) /\ r.phase = "Cutover" /\ r.inventory = i /\ r.token = {i}
    BY <2>2 DEF Shaped, Report, NativeState, Moved, Native
  <2> HIDE DEF r
  <2>6. Lies(marker)' /\ Lies(proc.report)'
    BY <1>1, <2>1, <2>2, <2>4, <2>5 DEF Lies
  <2> QED BY <1>1, <2>1, <2>3, <2>5, <2>6, MovedOn
<1>3. CASE ~(~Exists("source") /\ Exists("staging") /\ Exists("backup"))
  BY <1>1, <1>3, RefuseStep DEF CutOver, Refuse
<1> QED BY <1>2, <1>3

\* The migration is settled.
LEMMA FinishStep ==
    ASSUME MigrationInv, Finish
    PROVE  MigrationInv'
<1> DEFINE i == marker.inventory
           r == Report("Complete", marker.inventory, {NativeState("source")})
<1>1. /\ proc.report = marker /\ Shaped(marker) /\ ~app /\ UNCHANGED <<dir, marker, app, acked>>
      /\ marker.phase = "Cutover"
  BY AtLoop DEF Finish, AtPhase, Outside
<1>2. CASE VisibleNativeIs(proc.report.token)
  <2>1. proc' = [pc |-> "write", report |-> r]
    BY <1>1, <1>2 DEF Finish, Goto
  <2>2. acked = i /\ Visible(i, i)
    BY <1>1, <1>2 DEF MigrationInv, Lies, None, Retired, Empty, Absent, VisibleNativeIs, IsNative
  <2>3. Shaped(r) /\ r.phase = "Complete" /\ r.inventory = i /\ r.token = {i}
    BY <2>2 DEF Shaped, Report, NativeState, Visible, Native
  <2> HIDE DEF r
  <2>4. Lies(r)
    BY <2>2, <2>3 DEF Lies
  <2> QED BY <1>1, <2>1, <2>3, <2>4, ReportStep
<1>3. CASE ~VisibleNativeIs(proc.report.token)
  BY <1>1, <1>3, RefuseStep DEF Finish, Refuse
<1> QED BY <1>2, <1>3

\* rollback: where a former one stopped, or from a native store that nothing was written to.
LEMMA RollbackStep ==
    ASSUME MigrationInv, Rollback
    PROVE  MigrationInv'
<1> DEFINE i == marker.inventory
           fresh == marker.phase \notin Rolling
<1>1. /\ ~app /\ Shaped(marker) /\ marker.phase \in {"Cutover", "Complete", "RollbackNativeMoved"}
      /\ UNCHANGED <<dir, marker, app, acked>>
  BY Phases DEF Rollback, Outside, MigrationInv
<1>2. fresh <=> marker.phase \in {"Cutover", "Complete"}
  BY <1>1, Phases
<1>3. CASE NativeRetired /\ fresh /\ proc' = [pc |-> "write", report |-> Advance(marker, "RollbackNativeMoved")]
  <2> DEFINE r == Advance(marker, "RollbackNativeMoved")
  <2>1. acked = i /\ Retired(i)
    BY <1>2, <1>3 DEF MigrationInv, Lies, None, Visible, Beside, IsNative, Native, NativeRetired, Exists
  <2>2. Shaped(r) /\ r.phase = "RollbackNativeMoved" /\ r.inventory = i
    BY <1>1, AdvanceShape
  <2>3. proc' = [pc |-> "write", report |-> r]
    BY <1>3
  <2> HIDE DEF r
  <2>4. Lies(r)
    BY <2>1, <2>2 DEF Lies
  <2> QED BY <1>1, <2>2, <2>3, <2>4, ReportStep
<1>4. CASE ~fresh /\ proc' = [pc |-> "restore", report |-> marker]
  <2>1. Shaped(proc.report)' /\ Runs'
    BY <1>1, <1>4 DEF Shaped, Runs
  <2> QED BY <1>1, <2>1, Idles
<1>5. CASE FjallRestored /\ proc' = [pc |-> "write", report |-> Advance(marker, "RolledBack")]
  <2> DEFINE r == Advance(marker, "RolledBack")
  <2>1. Restored(acked)
    BY <1>1, <1>5 DEF MigrationInv, Lies, None, Visible, Retired, Beside, Native, Fjall, Empty, Absent,
           FjallRestored, Exists, IsNative
  <2>2. Shaped(r) /\ r.phase = "RolledBack"
    BY <1>1, AdvanceShape
  <2>3. proc' = [pc |-> "write", report |-> r]
    BY <1>5
  <2> HIDE DEF r
  <2>4. Lies(r)
    BY <2>1, <2>2 DEF Lies
  <2> QED BY <1>1, <2>2, <2>3, <2>4, ReportStep
<1>6. CASE /\ fresh /\ VisibleNativeIs(marker.token) /\ ~Exists("retired")
           /\ proc' = [pc |-> "retire", report |-> marker]
  <2>1. marker.token = {i} /\ (Visible(i, acked) \/ Retired(i))
    BY <1>2, <1>6 DEF MigrationInv, Lies, None, Beside, Native, Exists
  <2>2. Visible(i, acked)
    BY <1>6, <2>1 DEF Retired, Empty, Absent, VisibleNativeIs, IsNative
  <2>3. acked = i
    BY <1>6, <2>1, <2>2 DEF VisibleNativeIs, NativeState, Visible, Native
  <2>4. Shaped(proc.report)' /\ Runs'
    BY <1>1, <1>2, <1>6, <2>2, <2>3 DEF Shaped, Runs, Visible, Native, Fjall, Empty
  <2> QED BY <1>1, <2>4, Idles
<1> QED BY <1>3, <1>4, <1>5, <1>6 DEF Rollback, Goto

\* The native store is retired.
LEMMA RetireStep ==
    ASSUME MigrationInv, RetireNative
    PROVE  MigrationInv'
<1> DEFINE i == marker.inventory
           r == Advance(marker, "RollbackNativeMoved")
<1>1. /\ proc.report = marker /\ Shaped(marker) /\ ~app /\ UNCHANGED <<marker, app, acked>>
      /\ marker.phase \in {"Cutover", "Complete"} /\ acked = i /\ Visible(i, i)
  BY DEF RetireNative, Outside, MigrationInv, Runs, Idle
<1>2. Move("source", "retired") /\ proc' = [pc |-> "write", report |-> r]
  BY <1>1 DEF RetireNative, Goto
<1>3. /\ Directories' /\ dir'["retired"] = dir["source"] /\ dir'["source"] = Absent
      /\ dir'["backup"] = dir["backup"]
  <2>1. /\ Directories' /\ dir'["retired"] = dir["source"] /\ dir'["source"] = Absent
        /\ \A o \in Paths \ {"source", "retired"} : dir'[o] = dir[o]
    BY <1>2, MoveEffect DEF Paths
  <2> QED BY <2>1 DEF Paths
<1>4. Retired(i)'
  BY <1>1, <1>3 DEF Visible, Retired, Native, Fjall, Empty
<1>5. Shaped(r) /\ r.phase = "RollbackNativeMoved" /\ r.inventory = i
  BY <1>1, AdvanceShape
<1>6. marker.token = {i}
  BY <1>1 DEF MigrationInv, Lies, None
<1> HIDE DEF r
<1>7. Lies(marker)' /\ Lies(proc.report)'
  BY <1>1, <1>2, <1>4, <1>5, <1>6 DEF Lies
<1> QED BY <1>1, <1>2, <1>3, <1>5, <1>7, MovedOn

\* The Fjall store moves back.
LEMMA RestoreStep ==
    ASSUME MigrationInv, RestoreFjall
    PROVE  MigrationInv'
<1> DEFINE i == marker.inventory
           r == Advance(marker, "RolledBack")
<1>1. /\ proc.report = marker /\ Shaped(marker) /\ ~app /\ UNCHANGED <<marker, app, acked>>
      /\ marker.phase = "RollbackNativeMoved"
  BY Phases DEF RestoreFjall, Outside, MigrationInv, Runs, Idle
<1>2. CASE FjallCopyIs("backup", proc.report.inventory)
  <2>1. Move("backup", "source") /\ proc' = [pc |-> "write", report |-> r]
    BY <1>1, <1>2 DEF RestoreFjall, Goto
  <2>2. acked = i /\ Retired(i)
    BY <1>1, <1>2 DEF MigrationInv, Lies, None, Restored, Empty, Absent, FjallCopyIs
  <2>3. /\ Directories' /\ dir'["source"] = dir["backup"] /\ dir'["backup"] = Absent
        /\ dir'["retired"] = dir["retired"]
    <3>1. /\ Directories' /\ dir'["source"] = dir["backup"] /\ dir'["backup"] = Absent
          /\ \A o \in Paths \ {"source", "backup"} : dir'[o] = dir[o]
      BY <2>1, MoveEffect DEF Paths
    <3> QED BY <3>1 DEF Paths
  <2>4. Restored(i)'
    BY <1>1, <2>2, <2>3 DEF Retired, Restored, Native, Fjall, Empty, Exists
  <2>5. Shaped(r) /\ r.phase = "RolledBack"
    BY <1>1, AdvanceShape
  <2> HIDE DEF r
  <2>6. Lies(marker)' /\ Lies(proc.report)'
    BY <1>1, <2>1, <2>2, <2>4, <2>5 DEF Lies
  <2> QED BY <1>1, <2>1, <2>3, <2>5, <2>6, MovedOn
<1>3. CASE ~FjallCopyIs("backup", proc.report.inventory)
  BY <1>1, <1>3, RefuseStep DEF RestoreFjall, Refuse
<1> QED BY <1>2, <1>3

\* An application opens, writes to and closes a database; one that is not there is made.
LEMMA AppStep ==
    ASSUME MigrationInv, AppOpen \/ AppWrite \/ AppClose
    PROVE  MigrationInv'
<1>1. CASE AppOpen /\ Exists("source")
  <2>1. /\ UNCHANGED <<dir, marker, proc, acked>> /\ proc = Idle /\ OpenAllowed /\ Exists("source")
    BY <1>1 DEF AppOpen
  <2>2. Shaped(proc.report)' /\ Runs'
    BY <2>1 DEF Shaped, Idle, None, Report, Runs
  <2> QED BY <2>1, <2>2, Idles
<1>2. CASE AppOpen /\ ~Exists("source")
  <2> DEFINE i == marker.inventory
             none == {}
  <2>1. /\ UNCHANGED <<marker, proc, acked>> /\ proc = Idle /\ OpenAllowed
        /\ dir' = [dir EXCEPT !["source"] = [kind |-> "native", data |-> none]]
    BY <1>2 DEF AppOpen
  <2>2. marker.phase \in {"none", "Complete", "RolledBack"}
    BY <2>1, Phases DEF OpenAllowed
  <2>3. marker.phase = "Complete" /\ marker.token = {i} /\ Retired(i) /\ acked = i
    BY <1>2, <2>2 DEF MigrationInv, Lies, None, Visible, Restored, Beside, IsNative, Fjall, Native, Exists
  <2>4. "source" \in Paths
    BY DEF Paths
  <2>5. /\ Directories' /\ dir'["source"] = [kind |-> "native", data |-> none]
        /\ \A p \in Paths \ {"source"} : dir'[p] = dir[p]
    <3> HIDE DEF none
    <3> QED BY <2>1, <2>4, DirectoryStep
  <2>6. /\ dir'["source"].kind = "native" /\ dir'["source"].data = {}
        /\ dir'["backup"] = dir["backup"] /\ dir'["retired"] = dir["retired"]
    BY <2>5 DEF Paths
  <2>7. Beside(i)' /\ acked' = dir'["source"].data \cup i
    BY <2>1, <2>3, <2>6 DEF Beside, Retired, IsNative, Fjall, Native
  <2>8. Lies(marker)'
    BY <2>1, <2>3, <2>7 DEF Lies
  <2>9. OpenAllowed' /\ Exists("source")'
    BY <2>1, <2>6 DEF OpenAllowed, Exists
  <2>10. Shaped(marker)' /\ Shaped(proc.report)' /\ Runs'
    BY <2>1 DEF MigrationInv, Shaped, Runs
  <2> QED BY <2>1, <2>5, <2>8, <2>9, <2>10 DEF MigrationInv
<1>3. CASE AppClose
  <2>1. UNCHANGED <<dir, marker, proc, acked>> /\ proc = Idle /\ ~app'
    BY <1>3 DEF AppClose, MigrationInv
  <2>2. Shaped(proc.report)' /\ Runs'
    BY <2>1 DEF Shaped, Idle, None, Report, Runs
  <2> QED BY <2>1, <2>2, Idles
<1>4. CASE AppWrite
  <2>1. PICK w : /\ dir' = [dir EXCEPT !["source"].data = @ \cup {w}]
                 /\ acked' = acked \cup {w}
    BY <1>4 DEF AppWrite
  <2>2. UNCHANGED <<marker, proc, app>> /\ proc = Idle /\ OpenAllowed /\ Exists("source")
    BY <1>4 DEF AppWrite, MigrationInv
  <2>3. dir["source"] = [kind |-> dir["source"].kind, data |-> dir["source"].data]
    BY DEF MigrationInv, Directories, Paths
  <2>4. dir' = [dir EXCEPT !["source"] = [kind |-> dir["source"].kind, data |-> dir["source"].data \cup {w}]]
    <3>1. [dir["source"] EXCEPT !.data = @ \cup {w}]
            = [kind |-> dir["source"].kind, data |-> dir["source"].data \cup {w}]
      BY <2>3
    <3>2. dir' = [dir EXCEPT !["source"] = [dir["source"] EXCEPT !.data = @ \cup {w}]]
      BY <2>1
    <3> QED BY <3>1, <3>2
  <2>5. /\ Directories'
        /\ dir'["source"] = [kind |-> dir["source"].kind, data |-> dir["source"].data \cup {w}]
        /\ \A p \in Paths \ {"source"} : dir'[p] = dir[p]
    <3> DEFINE k == dir["source"].kind
               data == dir["source"].data \cup {w}
    <3>1. "source" \in Paths /\ dir' = [dir EXCEPT !["source"] = [kind |-> k, data |-> data]]
      BY <2>4 DEF Paths
    <3> HIDE DEF k, data
    <3>2. /\ Directories' /\ dir'["source"] = [kind |-> k, data |-> data]
          /\ \A p \in Paths \ {"source"} : dir'[p] = dir[p]
      BY <3>1, DirectoryStep
    <3> QED BY <3>2 DEF k, data
  <2>6. /\ dir'["backup"] = dir["backup"] /\ dir'["staging"] = dir["staging"]
        /\ dir'["retired"] = dir["retired"]
    BY <2>5 DEF Paths
  <2>7. marker.phase \in {"none", "Complete", "RolledBack"}
    BY <2>2, Phases DEF OpenAllowed
  <2>8. Lies(marker)'
    <3>1. CASE marker.phase = "none"
      <4>1. marker = None /\ Fjall("source", acked) /\ Empty("backup") /\ Empty("retired")
        BY <3>1 DEF MigrationInv, Lies
      <4>2. Fjall("source", acked)' /\ Empty("backup")' /\ Empty("retired")'
        BY <2>1, <2>5, <2>6, <4>1 DEF Fjall, Empty
      <4> QED BY <2>2, <4>1, <4>2 DEF Lies
    <3>2. CASE marker.phase = "Complete"
      <4> DEFINE i == marker.inventory
      <4>1. /\ marker.token = {i}
            /\ Visible(i, acked) \/ (Beside(i) /\ acked = dir["source"].data \cup i)
        BY <2>2, <3>2 DEF MigrationInv, Lies, None, Retired, Empty, Exists, Absent
      <4>2. CASE Visible(i, acked)
        <5>1. Visible(i, acked)'
          BY <2>1, <2>2, <2>5, <2>6, <4>2 DEF Visible, Native, Fjall, Empty
        <5> QED BY <2>2, <3>2, <4>1, <5>1 DEF Lies
      <4>3. CASE Beside(i) /\ acked = dir["source"].data \cup i
        <5>1. Beside(i)'
          BY <2>2, <2>5, <2>6, <4>3 DEF Beside, IsNative, Native, Fjall
        <5>2. acked' = dir'["source"].data \cup i
          BY <2>1, <2>5, <4>3
        <5> QED BY <2>2, <3>2, <4>1, <5>1, <5>2 DEF Lies
      <4> QED BY <4>1, <4>2, <4>3
    <3>3. CASE marker.phase = "RolledBack"
      <4>1. Restored(acked)
        BY <3>3 DEF MigrationInv, Lies, None
      <4>2. Restored(acked)'
        BY <2>1, <2>5, <2>6, <4>1 DEF Restored, Fjall, Empty, Exists
      <4> QED BY <2>2, <3>3, <4>2 DEF Lies
    <3> QED BY <2>7, <3>1, <3>2, <3>3
  <2>9. OpenAllowed' /\ Exists("source")'
    BY <2>2, <2>5 DEF OpenAllowed, Exists
  <2>10. Shaped(marker)' /\ Shaped(proc.report)' /\ Runs'
    BY <2>2 DEF MigrationInv, Shaped, Runs
  <2> QED BY <2>2, <2>5, <2>8, <2>9, <2>10 DEF MigrationInv
<1> QED BY <1>1, <1>2, <1>3, <1>4

\* Every step keeps the data where the marker says it lies.
LEMMA MigrationInvInductive == Spec => []MigrationInv
<1>1. MigrationInv /\ UNCHANGED vars => MigrationInv'
  <2> SUFFICES ASSUME MigrationInv, UNCHANGED vars
               PROVE  MigrationInv'
    OBVIOUS
  <2>1. Shaped(proc.report)' /\ Runs'
    BY DEF vars, MigrationInv, Shaped, Runs, Lies, Fjall, Native, Empty, InPlace, Moved, Visible,
           Retired, Beside, Restored, Exists, IsNative
  <2> QED BY <2>1, Idles DEF vars, MigrationInv
<1>2. MigrationInv /\ Next => MigrationInv'
  <2>1. MigrationInv /\ Command => MigrationInv'
    BY ExportStep, WriteReportStep, StagingStep, VerifyStep, MoveSourceStep, CutOverStep, FinishStep,
       RetireStep, RestoreStep DEF Command
  <2>2. MigrationInv /\ Crash => MigrationInv'
    BY RefuseStep DEF Crash
  <2> QED BY <2>1, <2>2, ExportStep, ResumeStep, RollbackStep, AppStep DEF Next
<1> QED BY InitHolds, <1>1, <1>2, PTL DEF Spec

\* Whatever the migration, its crashes, its rollbacks and the applications that open the
\* database in between did, no acknowledged write is lost: the database shows all of them,
\* or an application made it at a path that a rollback had left empty, and then the retired
\* store and the backup each hold all the writes made before (PersistentEngine::open,
\* migrate_inner, reconcile_filesystem, rollback_fjall_migration).
THEOREM NoWriteIsLost == Spec => []EveryWriteKept
<1>1. MigrationInv => EveryWriteKept
  <2> SUFFICES ASSUME MigrationInv, OpenAllowed, Exists("source")
               PROVE  EveryWriteKept
    BY DEF EveryWriteKept
  <2>1. marker.phase \in {"none", "Complete", "RolledBack"}
    BY Phases DEF OpenAllowed
  <2>2. dir["source"] # Absent
    BY DEF Exists, Absent
  <2>3. CASE ~OpenedInWindow
    <3>1. dir["source"].data = acked
      BY <2>1, <2>2, <2>3 DEF MigrationInv, Lies, None, Visible, Retired, Beside, Restored, Fjall, Native,
         Empty, OpenedInWindow, Exists
    <3> QED BY <2>3, <3>1 DEF EveryWriteKept
  <2>4. CASE OpenedInWindow
    <3>1. Beside(marker.inventory) /\ acked = dir["source"].data \cup marker.inventory
      BY <2>1, <2>4 DEF MigrationInv, Lies, None, Visible, Retired, Restored, Fjall, Native,
         Empty, Absent, OpenedInWindow, IsNative, Exists
    <3>2. dir["retired"].data = marker.inventory /\ dir["backup"].data = marker.inventory
      BY <3>1 DEF Beside, Native, Fjall
    <3> QED BY <2>4, <3>1, <3>2 DEF EveryWriteKept
  <2> QED BY <2>3, <2>4
<1> QED BY <1>1, MigrationInvInductive, PTL
=============================================================================
