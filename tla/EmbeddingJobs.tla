---------------------------- MODULE EmbeddingJobs ----------------------------
(***************************************************************************)
(* Embedding jobs (vyrm-embed): a job names a source, the digest its bytes *)
(* must have, a model and the read stamp it was built on; a coordinator    *)
(* samples the source, runs a backend, samples the source again and        *)
(* prepares a vector; a transaction bound to the job's stamp commits it.   *)
(* Inference is slow, so writers of the same scope commit meanwhile.       *)
(*                                                                         *)
(* The scope is its log: edits of the source and committed vectors.  The   *)
(* bytes of the source stand for their digest; a vector stands for the     *)
(* bytes and the model it was computed from.                               *)
(***************************************************************************)
EXTENDS Naturals, Sequences, FiniteSets

CONSTANTS
    First,      \* what the source holds first
    Contents,   \* what the source may hold: [media, size, tag]
    Models,     \* [name, modality, limit]: EmbeddingModelSpec
    Backends,   \* [model, network]: EmbeddingBackendDescriptor
    Workers,    \* coordinators
    MaxLog,     \* bound on the log
    MaxJobs     \* bound on jobs requested

VARIABLES
    log,     \* [kind |-> "source", content] or [kind |-> "vector", ...]
    jobs,    \* jobs requested so far
    worker,  \* what each coordinator is doing
    sent     \* <<job, backend>>: bytes of the job handed to the backend

vars == <<log, jobs, worker, sent>>

Idle == [pc |-> "idle"]

\* The source as the log has it after its first n entries.
SourceAt(n) ==
    LET edits == {i \in 1 .. n : log[i].kind = "source"}
    IN  log[CHOOSE i \in edits : \A j \in edits : j <= i].content

Current == SourceAt(Len(log))

Init ==
    /\ log = <<[kind |-> "source", content |-> First]>>
    /\ jobs = {}
    /\ worker = [w \in Workers |-> Idle]
    /\ sent = {}

\* A writer of the scope changes the source.
EditSource(c) ==
    /\ Len(log) < MaxLog
    /\ log' = Append(log, [kind |-> "source", content |-> c])
    /\ UNCHANGED <<jobs, worker, sent>>

\* A job over the state its read stamp names; the digest is the caller's, who
\* may have taken it from an earlier state.
Request(model, policy, n) ==
    /\ Cardinality(jobs) < MaxJobs
    /\ n \in 1 .. Len(log)
    /\ jobs' = jobs \cup {[cursor |-> Len(log), expected |-> SourceAt(n),
                           model |-> model, policy |-> policy]}
    /\ UNCHANGED <<log, worker, sent>>

\* The first checks of prepare: the backend is the requested model, and the
\* network it needs is not denied.
Permitted(job, backend) ==
    /\ backend.model = job.model
    /\ ~ (job.policy = "deny" /\ backend.network = "required")

\* validate_source.
ValidateSource(job, content) ==
    /\ content = job.expected
    /\ content.size <= job.model.limit
    /\ content.media = job.model.modality

\* prepare up to the request handed to the backend.
Sample(w, job, backend) ==
    /\ worker[w] = Idle
    /\ Permitted(job, backend)
    /\ ValidateSource(job, Current)
    /\ worker' = [worker EXCEPT ![w] =
         [pc |-> "embed", job |-> job, backend |-> backend, input |-> Current]]
    /\ UNCHANGED <<log, jobs, sent>>

\* embed: inference over the sampled bytes, or an error.
Embed(w) ==
    /\ worker[w].pc = "embed"
    /\ sent' = sent \cup {<<worker[w].job, worker[w].backend>>}
    /\ \/ worker' = [worker EXCEPT ![w].pc = "resample"]
       \/ worker' = [worker EXCEPT ![w] = Idle]
    /\ UNCHANGED <<log, jobs>>

\* The vector prepare builds, with its provenance.
Prepared(w) ==
    [kind |-> "vector", source |-> worker[w].input, model |-> worker[w].backend.model,
     value |-> <<worker[w].input, worker[w].backend.model>>]

\* The second sample: a source that changed during inference ends the job.
Resample(w) ==
    /\ worker[w].pc = "resample"
    /\ worker' = [worker EXCEPT ![w] =
         IF Current = worker[w].input /\ ValidateSource(worker[w].job, Current)
         THEN [pc |-> "prepared", job |-> worker[w].job, vector |-> Prepared(w)]
         ELSE Idle]
    /\ UNCHANGED <<log, jobs, sent>>

\* Mutant: a prepared vector is taken for any job on the same target.
SameTarget(prepared, job) == prepared.job.model = job.model

\* transaction: the vector is only ever committed for the job it was prepared
\* for.
SameJob(prepared, job) == prepared.job = job

\* PreparedEmbedding::transaction and the commit it builds, bound to the
\* cursor of the job's read stamp; the log accepts it only there.
Commit(w, job) ==
    /\ worker[w].pc = "prepared"
    /\ Len(log) < MaxLog
    /\ SameJob(worker[w], job)
    /\ job.cursor = Len(log)
    /\ log' = Append(log, worker[w].vector)
    /\ worker' = [worker EXCEPT ![w] = Idle]
    /\ UNCHANGED <<jobs, sent>>

\* A refused transaction, or a coordinator that gives up.
Discard(w) ==
    /\ worker[w] # Idle
    /\ worker' = [worker EXCEPT ![w] = Idle]
    /\ UNCHANGED <<log, jobs, sent>>

Next ==
    \/ \E c \in Contents : EditSource(c)
    \/ \E m \in Models, policy \in {"deny", "allow"}, n \in 1 .. MaxLog : Request(m, policy, n)
    \/ \E w \in Workers :
          \/ \E j \in jobs, b \in Backends : Sample(w, j, b)
          \/ Embed(w)
          \/ Resample(w)
          \/ \E j \in jobs : Commit(w, j)
          \/ Discard(w)

Spec == Init /\ [][Next]_vars

\* Every vector in the log was computed, by the model it names, from the very
\* bytes the source holds at that point of the log, however long inference
\* took and whoever edited or embedded the source meanwhile; and no backend
\* that needs the network saw the bytes of a job that denies it (vyrm-embed
\* EmbeddingCoordinator::prepare, PreparedEmbedding::transaction).
EmbeddingsGrounded ==
    /\ \A i \in DOMAIN log :
          log[i].kind = "vector" =>
             /\ log[i].source = SourceAt(i - 1)
             /\ log[i].value = <<SourceAt(i - 1), log[i].model>>
    /\ \A pair \in sent : ~ (pair[1].policy = "deny" /\ pair[2].network = "required")
=============================================================================
