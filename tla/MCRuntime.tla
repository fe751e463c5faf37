------------------------------- MODULE MCRuntime ------------------------------
(***************************************************************************)
(* The runtime log and what reads it, for TLC: the log with its clients,   *)
(* the vector projections built from it, and the coordinators that embed   *)
(* what it holds.  The last two keep the log as they see it, so a          *)
(* behaviour follows one part, the one "part" names.                       *)
(***************************************************************************)
EXTENDS MCRuntimeLog

CONSTANTS b1, b2,     \* builders of vector projections
          e1, e2      \* embedding coordinators

VARIABLES part,
          catalog, artifacts, pending,
          elog, jobs, worker, sent

vectorVars == <<catalog, artifacts, pending>>
embedVars == <<elog, jobs, worker, sent>>
allVars == <<part, vars, vectorVars, embedVars>>

\* The text field of scope "a" holds six vectors in eight versions: 1 is replaced,
\* 2 ends at instant 1 and is given again, and 3 moves to the field "image" with the
\* last commit.  Scope "b" has a field of the same name.  A scan costs 12, a segment of
\* the text field up to 8, and a graph 8, 12 or 32 for the three widths.
Open == 99                \* an open window: later than any instant used
Candidate(scope, field, ref, cursor, from, to, property, val) ==
    [ref |-> ref, cursor |-> cursor, scope |-> scope, field |-> field, model |-> "m",
     from |-> from, to |-> to, property |-> property, val |-> val]
VectorText(ref, cursor, from, to, property, val) ==
    Candidate("a", "text", ref, cursor, from, to, property, val)
VectorCandidates ==
    {VectorText(1, 1, 0, Open, "red", 1), VectorText(2, 2, 0, 1, "blue", 4),
     VectorText(3, 3, 0, Open, "red", 2), VectorText(4, 4, 0, Open, "blue", 3),
     VectorText(5, 5, 1, Open, "red", 5), VectorText(1, 6, 1, Open, "blue", 2),
     VectorText(6, 6, 0, Open, "blue", 6), VectorText(2, 7, 0, Open, "red", 4),
     Candidate("a", "image", 3, 7, 0, Open, "red", 2),
     Candidate("b", "text", 7, 2, 0, Open, "red", 3), Candidate("b", "text", 7, 7, 0, Open, "red", 5),
     Candidate("b", "image", 8, 5, 0, Open, "blue", 1)}
VectorLevels ==
    [ref \in 1..8 |-> [cursor \in 1..7 |-> IF <<ref, cursor>> \in {<<2, 2>>, <<5, 5>>} THEN 1 ELSE 0]]
VectorConfig(kind, id, scope, props, compact) ==
    [kind |-> kind, id |-> id, scope |-> scope, field |-> "text", model |-> "any",
     props |-> props, compact |-> compact]
VectorRequest(scope, field, cursor, at, query, mode, filter) ==
    [scope |-> scope, cursor |-> cursor, at |-> at, field |-> field, query |-> query,
     model |-> "any", topk |-> 2, mode |-> mode, rerank |-> 2, filter |-> filter]
NoFilter == [refers |-> FALSE, values |-> {}]
RedOnly == [refers |-> TRUE, values |-> {"red"}]
Modes == {"Exact", "AllowApproximate", "RequireApproximate"}
VectorRequests ==
    {VectorRequest("a", "text", cursor, at, query, mode, filter) :
        cursor \in {4, 7}, at \in {0, 1}, query \in {1, 4}, mode \in Modes,
        filter \in {NoFilter, RedOnly}}
    \cup {VectorRequest("b", "text", cursor, 1, 1, mode, NoFilter) : cursor \in {4, 7}, mode \in Modes}
    \cup {VectorRequest("a", "image", 7, 1, 1, mode, NoFilter) : mode \in Modes}

Vector == INSTANCE VectorCatalog
            WITH Levels <- VectorLevels, M <- 2, EfBuild <- 2, Canonical <- VectorCandidates,
                 Configs <- {VectorConfig("hnsw", 1, "a", TRUE, FALSE),
                             VectorConfig("segment", 3, "a", FALSE, FALSE),
                             VectorConfig("segment", 4, "a", TRUE, TRUE),
                             VectorConfig("segment", 5, "b", TRUE, FALSE)},
                 ScanId <- 2, Cursors <- {4, 7}, MaxRevision <- 3, Builders <- {b1, b2},
                 Requests <- VectorRequests, Efs <- {2, 3, 8}

Content(media, size, tag) == [media |-> media, size |-> size, tag |-> tag]
TextModel == [name |-> "m1", modality |-> "text", limit |-> 1]
ImageModel == [name |-> "m2", modality |-> "image", limit |-> 2]

Embed == INSTANCE EmbeddingJobs
           WITH First <- Content("text", 1, 1),
                Contents <- {Content("text", 1, 2), Content("image", 2, 1)},
                Models <- {TextModel, ImageModel},
                Backends <- {[model |-> TextModel, network |-> "none"],
                             [model |-> ImageModel, network |-> "none"],
                             [model |-> TextModel, network |-> "required"]},
                Workers <- {e1, e2}, MaxLog <- 3, MaxJobs <- 2, log <- elog

RuntimeInit ==
    /\ part \in {"log", "vectors", "embeddings"}
    /\ Init /\ Vector!Init /\ Embed!Init

RuntimeNext ==
    /\ \/ part = "log" /\ Next /\ UNCHANGED <<vectorVars, embedVars>>
       \/ part = "vectors" /\ Vector!Next /\ UNCHANGED <<vars, embedVars>>
       \/ part = "embeddings" /\ Embed!Next /\ UNCHANGED <<vars, vectorVars>>
    /\ UNCHANGED part

RuntimeSpec == RuntimeInit /\ [][RuntimeNext]_allVars

\* Whatever was published, replaced, quarantined or retired meanwhile, a plan's
\* answer is made of versions the request may see among those of its field, with
\* their own scores, and an exact answer is the nearest of them; only a projection of
\* another scope refuses a request it was planned for (VectorPlanner, VectorCatalog,
\* VectorRuntime::search).
AnswersAreFaithful == part = "vectors" => Vector!AnswersAreFaithful

\* Every vector in the log was computed from what its source held just before it,
\* however long inference took (vyrm-embed EmbeddingCoordinator).
EmbeddingsGrounded == part = "embeddings" => Embed!EmbeddingsGrounded
=============================================================================
