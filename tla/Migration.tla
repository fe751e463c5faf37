----------------------------- MODULE Migration -----------------------------
(***************************************************************************)
(* The offline migration of a Fjall store to a native vyrmKV store, its    *)
(* rollback, and the applications that open the database in between        *)
(* (vyrm-store/src/migration.rs, PersistentEngine::open).                  *)
(*                                                                         *)
(* The file system is authoritative: four sibling directories (the         *)
(* database path itself, the native staging directory, the retained Fjall  *)
(* backup and the retired native store), the archive and the marker.  A    *)
(* rename, the publication of the archive and the publication of the       *)
(* marker each are one step: every one of them is followed by a sync of    *)
(* the one parent directory, and a crash before that sync leaves the state *)
(* before or after the step.  A command works on the marker it has read    *)
(* and may crash between any two steps.                                    *)
(*                                                                         *)
(* The data of a directory is the set of writes it holds.  The archive's   *)
(* digest and counters and the native state token are functions of that    *)
(* set and are modelled by it.  The migration is offline: a command starts *)
(* only while no application has the database open, and the store's lock   *)
(* keeps it closed meanwhile.                                              *)
(***************************************************************************)
EXTENDS Naturals, FiniteSets

CONSTANTS Writes,              \* writes an application may make
          Seed,                \* the writes the Fjall store holds at first
          MaxCrashes           \* bound on crashes

VARIABLES dir,       \* what lies at each path
          marker,    \* the durable report, or None
          proc,      \* the running command: where it is, its report in memory
          app,       \* an application has the database open
          acked,     \* every write ever acknowledged to an application
          crashes

vars == <<dir, marker, proc, app, acked, crashes>>

Absent == [kind |-> "none", data |-> {}]
Paths == {"source", "archive", "staging", "backup", "retired"}
None == [phase |-> "none", inventory |-> {}, token |-> {}]
Idle == [pc |-> "idle", report |-> None]

(* Artifacts: what exists at a path; a directory with CURRENT is native.   *)
Exists(p) == dir[p].kind # "none"
IsNative(p) == dir[p].kind = "native"

(* A report carries the phase, the inventory of the archive and, from      *)
(* cutover on, the token of the visible native store: token is {} or {it}. *)
Report(phase, inventory, token) ==
  [phase |-> phase, inventory |-> inventory, token |-> token]
Advance(r, phase) == [r EXCEPT !.phase = phase]

BeforeMove == {"Exported", "Imported", "Verified"}
Resumable == BeforeMove \cup {"SourceMoved", "Cutover"}
Rolling == {"RollbackNativeMoved"}
Settled == {"Complete", "RolledBack"}

Init ==
  /\ dir = [p \in Paths |-> IF p = "source" THEN [kind |-> "fjall", data |-> Seed]
                                            ELSE Absent]
  /\ marker = None
  /\ proc = Idle
  /\ app = FALSE /\ acked = Seed /\ crashes = 0

Goto(pc, report) == proc' = [pc |-> pc, report |-> report]
Refuse == proc' = Idle                        \* an error: the command returns
Move(p, q) == dir' = [dir EXCEPT ![q] = dir[p], ![p] = Absent]
Outside == UNCHANGED <<app, acked, crashes>>

(* native_state, verify_visible_native: native writes since the token was  *)
(* taken show as another sequence or manifest.                             *)
NativeState(p) == dir[p].data
VisibleNativeAny(token) == IsNative("source") /\ token # {}           \* a mutant
VisibleNativeIs(token) == IsNative("source") /\ token = {NativeState("source")}

(* verify_fjall_copy: a retained copy is exported again and compared.      *)
FjallCopyIs(p, inventory) == dir[p].kind = "fjall" /\ dir[p].data = inventory

-----------------------------------------------------------------------------
(* migrate_inner without a marker: begin refuses anything but a Fjall      *)
(* directory with no artifact beside it.                                   *)
Begin ==
  /\ proc = Idle /\ ~app /\ marker = None
  /\ dir["source"].kind = "fjall"
  /\ \A p \in Paths \ {"source"} : ~Exists(p)
  /\ Goto("export", None)
  /\ UNCHANGED <<dir, marker>> /\ Outside

(* ArchiveWriter: the archive appears whole, under its final name, before  *)
(* the marker is written.                                                  *)
Export ==
  /\ proc.pc = "export"
  /\ dir' = [dir EXCEPT !["archive"] = [kind |-> "archive", data |-> dir["source"].data]]
  /\ Goto("write", Report("Exported", dir["source"].data, {}))
  /\ UNCHANGED marker /\ Outside

(* reconcile_filesystem: a rename that was made durable before its marker  *)
(* is recognised by what lies where.  The report, or None when the state   *)
(* is refused as ambiguous.                                                *)
ReconcileByMarker(r) == r                                            \* a mutant
Reconcile(r) ==
  LET landed == Exists("backup") /\ ~Exists("staging") IN
  CASE r.phase \in BeforeMove \cup {"SourceMoved"} /\ IsNative("source") ->
         IF landed THEN Report("Cutover", r.inventory, {NativeState("source")}) ELSE None
    [] r.phase \in BeforeMove /\ ~Exists("source") /\ Exists("backup") /\ Exists("staging") ->
         Advance(r, "SourceMoved")
    [] OTHER -> r

(* migrate_inner with a marker: a changed report is written first.         *)
Resume ==
  /\ proc = Idle /\ ~app /\ marker.phase \in Resumable
  /\ LET r == Reconcile(marker) IN
       CASE r = None -> Refuse
         [] r = marker -> Goto("loop", r)
         [] OTHER -> Goto("write", r)
  /\ UNCHANGED <<dir, marker>> /\ Outside

(* write_report: temporary file, sync, rename, directory sync.             *)
WriteReport ==
  /\ proc.pc = "write"
  /\ marker' = proc.report
  /\ CASE proc.report.phase \in Settled -> proc' = Idle
       [] proc.report.phase \in Rolling -> Goto("restore", proc.report)
       [] OTHER -> Goto("loop", proc.report)
  /\ UNCHANGED dir /\ Outside

Archived == dir["archive"].data
AtPhase(phase) == proc.pc = "loop" /\ proc.report.phase = phase

(* rebuild_staging: what a former attempt left is removed, and the archive *)
(* is imported in batches of bounded size.                                 *)
ClearStaging ==
  /\ AtPhase("Exported")
  /\ dir' = [dir EXCEPT !["staging"] = [kind |-> "native", data |-> {}]]
  /\ Goto("import", proc.report)
  /\ UNCHANGED marker /\ Outside

ImportBatch ==
  /\ proc.pc = "import"
  /\ \E w \in Archived \ dir["staging"].data :
       dir' = [dir EXCEPT !["staging"].data = @ \cup {w}]
  /\ UNCHANGED <<marker, proc>> /\ Outside

(* Its end: the inventory must be the one exported, then sync and flush.   *)
Imported ==
  /\ proc.pc = "import" /\ dir["staging"].data = Archived
  /\ IF Archived = proc.report.inventory
       THEN Goto("write", Advance(proc.report, "Imported")) ELSE Refuse
  /\ UNCHANGED <<dir, marker>> /\ Outside

(* verify_staging: the staging store shows the archive and nothing else.   *)
VerifyStaging ==
  /\ AtPhase("Imported")
  /\ IF IsNative("staging") /\ dir["staging"].data = Archived /\ Archived = proc.report.inventory
       THEN Goto("write", Advance(proc.report, "Verified")) ELSE Refuse
  /\ UNCHANGED <<dir, marker>> /\ Outside

MoveSource ==
  /\ AtPhase("Verified")
  /\ IF Exists("source") /\ ~Exists("backup")
       THEN Move("source", "backup") /\ Goto("write", Advance(proc.report, "SourceMoved"))
       ELSE Refuse /\ UNCHANGED dir
  /\ UNCHANGED marker /\ Outside

(* The rename to the database path; the token is read after it.            *)
CutOver ==
  /\ AtPhase("SourceMoved")
  /\ IF ~Exists("source") /\ Exists("staging") /\ Exists("backup")
       THEN /\ Move("staging", "source")
            /\ Goto("write", Report("Cutover", proc.report.inventory, {NativeState("staging")}))
       ELSE Refuse /\ UNCHANGED dir
  /\ UNCHANGED marker /\ Outside

Finish ==
  /\ AtPhase("Cutover")
  /\ IF VisibleNativeIs(proc.report.token)
       THEN Goto("write", Report("Complete", proc.report.inventory, {NativeState("source")}))
       ELSE Refuse
  /\ UNCHANGED <<dir, marker>> /\ Outside

-----------------------------------------------------------------------------
(* rollback_fjall_migration.  The two states in which a former rollback    *)
(* stopped between a rename and its marker, and the state a rollback may   *)
(* start from.                                                             *)
NativeRetired == ~Exists("source") /\ Exists("retired") /\ Exists("backup")
FjallRestored == Exists("source") /\ ~IsNative("source") /\ Exists("retired") /\ ~Exists("backup")

Rollback ==
  /\ proc = Idle /\ ~app
  /\ marker.phase \in {"Cutover", "Complete"} \cup Rolling
  /\ LET fresh == marker.phase \notin Rolling IN
     \/ /\ NativeRetired
        /\ IF fresh THEN Goto("write", Advance(marker, "RollbackNativeMoved"))
                    ELSE Goto("restore", marker)
     \/ /\ FjallRestored /\ FjallCopyIs("source", marker.inventory)
        /\ Goto("write", Advance(marker, "RolledBack"))
     \/ /\ ~NativeRetired /\ ~FjallRestored /\ fresh
        /\ VisibleNativeIs(marker.token) /\ FjallCopyIs("backup", marker.inventory)
        /\ ~Exists("retired")
        /\ Goto("retire", marker)
  /\ UNCHANGED <<dir, marker>> /\ Outside

RetireNative ==
  /\ proc.pc = "retire"
  /\ Move("source", "retired")
  /\ Goto("write", Advance(proc.report, "RollbackNativeMoved"))
  /\ UNCHANGED marker /\ Outside

RestoreFjall ==
  /\ proc.pc = "restore"
  /\ IF FjallCopyIs("backup", proc.report.inventory)
       THEN Move("backup", "source") /\ Goto("write", Advance(proc.report, "RolledBack"))
       ELSE Refuse /\ UNCHANGED dir
  /\ UNCHANGED marker /\ Outside

-----------------------------------------------------------------------------
(* PersistentEngine::open: refused while a migration is active; a missing  *)
(* path becomes an empty native store, any other directory keeps its       *)
(* backend.                                                                *)
OpenAllowed == marker.phase \in Settled \cup {"none"}

AppOpen ==
  /\ proc = Idle /\ ~app /\ OpenAllowed
  /\ app' = TRUE
  /\ dir' = IF Exists("source") THEN dir
            ELSE [dir EXCEPT !["source"] = [kind |-> "native", data |-> {}]]
  /\ UNCHANGED <<marker, proc, acked, crashes>>

AppWrite ==
  /\ app
  /\ \E w \in Writes \ acked :
       /\ dir' = [dir EXCEPT !["source"].data = @ \cup {w}]
       /\ acked' = acked \cup {w}
  /\ UNCHANGED <<marker, proc, app, crashes>>

AppClose ==
  /\ app /\ app' = FALSE
  /\ UNCHANGED <<dir, marker, proc, acked, crashes>>

(* The process that runs a command dies between two of its steps.          *)
Crash ==
  /\ proc # Idle /\ crashes < MaxCrashes
  /\ proc' = Idle /\ crashes' = crashes + 1
  /\ UNCHANGED <<dir, marker, app, acked>>

Command == \/ Export \/ WriteReport \/ ClearStaging \/ ImportBatch \/ Imported
           \/ VerifyStaging \/ MoveSource \/ CutOver \/ Finish
           \/ RetireNative \/ RestoreFjall

Next == \/ Begin \/ Resume \/ Rollback \/ Command
        \/ AppOpen \/ AppWrite \/ AppClose \/ Crash

(* A started command runs; an operator resumes an interrupted migration,   *)
(* and does not for ever retry the migration of a database whose rollback  *)
(* was interrupted: the rollback is run again too.                         *)
Interrupted == ~Exists("source") \/ marker.phase \in Rolling
Fairness == WF_vars(Command) /\ WF_vars(Resume) /\ SF_vars(Interrupted /\ Rollback)

Spec == Init /\ [][Next]_vars /\ Fairness

-----------------------------------------------------------------------------
(* An application opened the path between the retirement of the native     *)
(* store and the marker that says so, and was given a new database.        *)
OpenedInWindow == IsNative("source") /\ Exists("retired") /\ Exists("backup")

(* Whatever the migration, its crashes and its rollbacks did, no write an  *)
(* application was acknowledged is lost.  A database that                  *)
(* PersistentEngine::open accepts shows all of them: a cutover brings all  *)
(* of Fjall's writes, and a rollback never discards a native one.  Only a  *)
(* database made in the window of a rollback that died shows the writes    *)
(* made through it alone; then the retired store and the backup both hold  *)
(* all the others, and no later command touches them.                      *)
EveryWriteKept ==
  OpenAllowed /\ Exists("source") /\ proc = Idle =>
    IF OpenedInWindow
      THEN /\ dir["retired"].data = marker.inventory /\ dir["backup"].data = marker.inventory
           /\ dir["source"].data \cup marker.inventory = acked
      ELSE dir["source"].data = acked

(* What docs/vyrmkv-migration.md says of the cutover window: a missing     *)
(* path cannot become a new empty database, so that whatever               *)
(* PersistentEngine::open accepts shows every write ever acknowledged.     *)
(* It does not hold: RetireNative, Crash and AppOpen refute it.            *)
OpenShowsEveryWrite ==
  OpenAllowed /\ Exists("source") /\ proc = Idle => dir["source"].data = acked

(* A migration or a rollback that was interrupted anywhere comes to rest,  *)
(* when it is run again, with a database at its path that may be opened:   *)
(* no crash leaves a state the resumption refuses.  (An application that   *)
(* opens the path in the window of a rollback also puts one there.)        *)
MigrationSettles ==
  (~OpenAllowed \/ ~Exists("source")) ~> (OpenAllowed /\ Exists("source"))
=============================================================================
