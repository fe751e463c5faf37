------------------------------- MODULE MCWriter -------------------------------
(***************************************************************************)
(* The two parts whose progress is checked, for TLC: the group-commit      *)
(* writer and the engine migration.  They share no state, so a behaviour   *)
(* follows one of them, the one "part" names, and the fairness of an       *)
(* action counts where its part runs.  No symmetry: the run checks         *)
(* liveness.                                                               *)
(***************************************************************************)
EXTENDS MCGroupWriter

CONSTANTS a1, a2, a3     \* writes of an application

VARIABLES part, dir, marker, proc, app, acked, crashes

migrationVars == <<dir, marker, proc, app, acked, crashes>>
allVars == <<part, vars, migrationVars>>

Engine == INSTANCE Migration
            WITH Writes <- {a1, a2, a3}, Seed <- {a1, a2}, MaxCrashes <- 2

InWriter(A) == part = "writer" /\ A /\ UNCHANGED <<part, migrationVars>>
InMigration(A) == part = "migration" /\ A /\ UNCHANGED <<part, vars>>

WriterInit == part \in {"writer", "migration"} /\ Init /\ Engine!Init

WriterNext == InWriter(Next) \/ InMigration(Engine!Next)

\* Fairness of GroupWriter and of Migration, action by action.
WriterFairness ==
    /\ \A c \in Client : WF_allVars(InWriter(Submit(c)))
    /\ \A t \in Thread : WF_allVars(InWriter(Flush(t)))
    /\ WF_allVars(InWriter(Shutdown))
    /\ WF_allVars(InWriter(CommitLoop))
    /\ SF_allVars(InWriter(WaitTimesOut))
    /\ WF_allVars(InMigration(Engine!Command))
    /\ WF_allVars(InMigration(Engine!Resume))
    /\ SF_allVars(InMigration(Engine!Interrupted /\ Engine!Rollback))

WriterSpec == WriterInit /\ [][WriterNext]_allVars /\ WriterFairness

\* Wherever the migration or its rollback died, and whenever an application
\* opened the database, no acknowledged write is lost: the database shows all of
\* them, or was made at a path a rollback had left empty, and then the retired
\* store and the backup hold the others (PersistentEngine::open,
\* rollback_fjall_migration).
EveryWriteKept == part = "migration" => Engine!EveryWriteKept

\* A migration or a rollback that died comes to rest, once it is run again, with
\* a database that may be opened (migrate_inner,
\* rollback_fjall_migration).
MigrationSettles == part = "migration" => Engine!MigrationSettles
=============================================================================
