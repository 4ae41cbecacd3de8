------------------------------ MODULE Ingestion ------------------------------
(***************************************************************************)
(* Asynchronous ingestion of documents: the upload handler, the Redis      *)
(* ingestion stream, the worker's process_ingestion_job, the dead-letter   *)
(* queue and the handler that replays it.  Every store (Postgres, Redis,   *)
(* the chunk index) commits on its own, so each action below is the code   *)
(* between two such commits; other processes run in between.               *)
(*                                                                         *)
(* The repository holds no loop that reads the ingestion stream.  Take and *)
(* Ack model the consumer that a deployment must supply (EXTERNAL): it     *)
(* either removes a job before running it (AckLate = FALSE, as             *)
(* InMemoryIngestionQueue.pop_all does) or acknowledges it afterwards      *)
(* (AckLate = TRUE, a Redis consumer group).                               *)
(*                                                                         *)
(* A call that is executed but whose reply is lost leads to the state of   *)
(* the call followed by an error at the next step, so it has an action of  *)
(* its own only where that is not so: the last commit of the worker        *)
(* (FinishReplyLost), and XADD, which redis-py may send again (Resend,     *)
(* BuryAgain; redis >= 5.0.0 in pyproject.toml admits clients that retry). *)
(***************************************************************************)
EXTENDS Naturals, FiniteSets

CONSTANTS
    Tenant,      \* tenants
    Doc,         \* document identifiers
    Worker,      \* ingestion workers
    Api,         \* API processes (a handler runs without awaiting once it
                 \* has read the upload, so a process runs one at a time)
    ChunkCount,  \* number of chunks chunk_text makes of a document's text;
                 \* 0 exactly when the text is blank
    StrayJob,    \* jobs on the stream that no upload of ours put there
    AckLate,     \* TRUE: a job whose worker died is delivered again
    FaultKind,   \* what may fail, a subset of AllFaults
    MaxFault,    \* BOUND on the number of failures in a behaviour
    MaxRetry,    \* BOUND on retry_count (the code has none)
    None         \* no value

AllFaults == {"postgres", "redis", "index", "crash"}

Job == [doc : Doc, tenant : Tenant, retry : 0..MaxRetry]

ASSUME ConstantsAssumption ==
    /\ ChunkCount \in [Doc -> Nat]
    /\ StrayJob \subseteq Job
    /\ AckLate \in BOOLEAN
    /\ FaultKind \subseteq AllFaults
    /\ MaxFault \in Nat /\ MaxRetry \in Nat
    /\ None \notin Tenant /\ None \notin Job

VARIABLES
    documents,  \* the documents table in Postgres; status "absent": no row
    stream,     \* the ingestion stream: how many times it holds each job
    held,       \* the chunk index: how many different chunks of each document it
                \* holds, and whether it holds any of them twice
    dlq,        \* the dead-letter stream: its entries
    dlqId,      \* the last id Redis gave to a dead-letter entry
    api,        \* what each API process is doing
    worker,     \* what each worker is doing
    faults,     \* failures so far
    lost        \* HISTORY: documents whose job died with the process that
                \* alone held it; no action reads it

vars == <<documents, stream, held, dlq, dlqId, api, worker, faults, lost>>

Status == {"absent", "pending", "indexing", "indexed", "failed"}
Row == [tenant : Tenant \cup {None}, status : Status, chunk_count : Nat, error : BOOLEAN]
NoRow == [tenant |-> None, status |-> "absent", chunk_count |-> 0, error |-> FALSE]

Share == [chunks : Nat, twice : BOOLEAN]
NoShare == [chunks |-> 0, twice |-> FALSE]

Stage == {"load_document", "index_document"}
Entry == [id : Nat, job : Job, stage : Stage]

ApiPc == {"idle", "enqueue", "requeue", "delete"}
IdleApi == [pc |-> "idle", caller |-> None, job |-> None, id |-> 0]

\* A worker at a Stage is about to write the dead-letter entry of that stage.
WorkerPc == {"idle", "load", "mark", "reload", "index", "finish", "fail", "ack"} \cup Stage
IdleWorker == [pc |-> "idle", job |-> None, seen |-> NoRow]

Init ==
    /\ documents = [d \in Doc |-> NoRow]
    /\ stream = [j \in Job |-> IF j \in StrayJob THEN 1 ELSE 0]
    /\ held = [d \in Doc |-> NoShare]
    /\ dlq = {}
    /\ dlqId = 0
    /\ api = [a \in Api |-> IdleApi]
    /\ worker = [w \in Worker |-> IdleWorker]
    /\ faults = 0
    /\ lost = {}

-----------------------------------------------------------------------------
(* Helpers                                                                 *)

Stored(d) == documents[d].status # "absent"

DocOf(w) == worker[w].job.doc

Goto(w, pc) == worker' = [worker EXCEPT ![w].pc = pc]

\* XADD to the ingestion stream.
Put(job) == stream' = [stream EXCEPT ![job] = @ + 1]

\* One more failure, of one of these kinds.
Fault(kinds) ==
    /\ kinds \cap FaultKind # {}
    /\ faults < MaxFault
    /\ faults' = faults + 1

\* The row an UPDATE leaves: the unit of work writes only the attributes whose
\* new value differs from the one it loaded; the rest keep what the table has.
Written(d, seen, status, count, error) ==
    [documents EXCEPT
        ![d].status = IF seen.status # status THEN status ELSE @,
        ![d].chunk_count = IF seen.chunk_count # count THEN count ELSE @,
        ![d].error = IF seen.error # error THEN error ELSE @]

\* The index once index_chunks has appended the first k chunks of d.  What is there
\* already are first chunks, too, of earlier runs: a longer run adds different ones,
\* and any run repeats those before.
Indexed(d, k) ==
    [held EXCEPT ![d] = [chunks |-> IF k > @.chunks THEN k ELSE @.chunks,
                         twice |-> @.twice \/ (k > 0 /\ @.chunks > 0)]]

\* PLAUSIBLE BUG: the sign is wrong.
RetriedBackwards(job) == [job EXCEPT !.retry = @ - 1]

\* A replayed job is the dead job with its retry count raised.
Retried(job) == [job EXCEPT !.retry = @ + 1]

-----------------------------------------------------------------------------
(* Plausible bugs: variants of actions below that the properties must tell *)
(* from the code.  They are not part of the specification.                 *)

\* The row is never committed.
StoreUncommitted(a, t, d) ==
    /\ api[a].pc = "idle"
    /\ ~Stored(d)
    /\ ChunkCount[d] > 0
    /\ api' = [api EXCEPT ![a] = [pc |-> "enqueue", caller |-> t, id |-> 0,
                                  job |-> [doc |-> d, tenant |-> t, retry |-> 0]]]
    /\ UNCHANGED <<documents, stream, held, dlq, dlqId, worker, faults, lost>>

\* The entry goes before its job is queued again, as in InMemoryDLQ.replay.
FindAndPop(a, t, e) ==
    /\ api[a].pc = "idle"
    /\ e.job.tenant = t
    /\ e.job.retry < MaxRetry
    /\ dlq' = dlq \ {e}
    /\ api' = [api EXCEPT ![a] = [pc |-> "requeue", caller |-> t, id |-> e.id,
                                  job |-> Retried(e.job)]]
    /\ UNCHANGED <<documents, stream, held, dlqId, worker, faults, lost>>

\* A replayed entry stays in the dead-letter queue.
DeleteForgotten(a) ==
    /\ api[a].pc = "delete"
    /\ api' = [api EXCEPT ![a] = IdleApi]
    /\ UNCHANGED <<documents, stream, held, dlq, dlqId, worker, faults, lost>>

\* The tenant of the row is not checked.
LoadAnyTenant(w) ==
    LET row == documents[DocOf(w)]
    IN  /\ worker[w].pc = "load"
        /\ worker' = [worker EXCEPT
                        ![w].pc = IF row.status = "absent" THEN "load_document" ELSE "mark",
                        ![w].seen = row]
        /\ UNCHANGED <<documents, stream, held, dlq, dlqId, api, faults, lost>>

\* The except clause forgets the error message.
FailWithoutError(w) ==
    /\ worker[w].pc = "fail"
    /\ documents' = [documents EXCEPT ![DocOf(w)].status = "failed"]
    /\ Goto(w, "index_document")
    /\ UNCHANGED <<stream, held, dlq, dlqId, api, faults, lost>>

\* The except clause forgets the dead-letter queue.
FailUnburied(w) ==
    /\ worker[w].pc = "fail"
    /\ documents' = [documents EXCEPT ![DocOf(w)] = [@ EXCEPT !.status = "failed", !.error = TRUE]]
    /\ Goto(w, "ack")
    /\ UNCHANGED <<stream, held, dlq, dlqId, api, faults, lost>>

\* The worker runs the job again itself.
RaiseAndRetry(w) ==
    /\ worker[w].pc \in {"mark", "reload", "finish"}
    /\ Fault({"postgres"})
    /\ Goto(w, "reload")
    /\ UNCHANGED <<documents, stream, held, dlq, dlqId, api, lost>>

\* Only the first failure of a job is buried.
BuryFirst(w) ==
    /\ worker[w].pc \in Stage
    /\ dlqId' = dlqId + 1
    /\ dlq' = IF worker[w].job.retry > 0
                THEN dlq
                ELSE dlq \cup {[id |-> dlqId + 1, job |-> worker[w].job, stage |-> worker[w].pc]}
    /\ Goto(w, "ack")
    /\ UNCHANGED <<documents, stream, held, api, faults, lost>>

\* An error of the index is swallowed.
IndexFailsSilently(w) ==
    /\ worker[w].pc = "index"
    /\ Fault({"index"})
    /\ \E k \in 0..ChunkCount[DocOf(w)] - 1 : held' = Indexed(DocOf(w), k)
    /\ Goto(w, "finish")
    /\ UNCHANGED <<documents, stream, dlq, dlqId, api, lost>>

-----------------------------------------------------------------------------
(* API process: POST /documents and POST /admin/dlq/replay                 *)

\* POST /documents: the row is committed; a blank upload was refused before.
Store(a, t, d) ==
    /\ api[a].pc = "idle"
    /\ ~Stored(d)
    /\ ChunkCount[d] > 0
    /\ documents' = [documents EXCEPT ![d] = [NoRow EXCEPT !.tenant = t, !.status = "pending"]]
    /\ api' = [api EXCEPT ![a] = [pc |-> "enqueue", caller |-> t, id |-> 0,
                                  job |-> [doc |-> d, tenant |-> t, retry |-> 0]]]
    /\ UNCHANGED <<stream, held, dlq, dlqId, worker, faults, lost>>

\* The second half of the upload: the job goes to the stream, the client gets 202.
Enqueue(a) ==
    /\ api[a].pc = "enqueue"
    /\ Put(api[a].job)
    /\ api' = [api EXCEPT ![a] = IdleApi]
    /\ UNCHANGED <<documents, held, dlq, dlqId, worker, faults, lost>>

\* Replay, XRANGE: the entry must exist and belong to the caller, else 404.
Find(a, t, e) ==
    /\ api[a].pc = "idle"
    /\ e.job.tenant = t
    /\ e.job.retry < MaxRetry
    /\ api' = [api EXCEPT ![a] = [pc |-> "requeue", caller |-> t, id |-> e.id,
                                  job |-> Retried(e.job)]]
    /\ UNCHANGED <<documents, stream, held, dlq, dlqId, worker, faults, lost>>

\* Replay, XADD: the job goes back to the ingestion stream.
Requeue(a) ==
    /\ api[a].pc = "requeue"
    /\ Put(api[a].job)
    /\ api' = [api EXCEPT ![a].pc = "delete"]
    /\ UNCHANGED <<documents, held, dlq, dlqId, worker, faults, lost>>

\* Replay, XDEL: the entry goes, if another replay has not removed it already.
Delete(a) ==
    /\ api[a].pc = "delete"
    /\ dlq' = {e \in dlq : e.id # api[a].id}
    /\ api' = [api EXCEPT ![a] = IdleApi]
    /\ UNCHANGED <<documents, stream, held, dlqId, worker, faults, lost>>

\* The reply to XADD is lost and the client is about to send it again.
Resend(a) ==
    /\ api[a].pc \in {"enqueue", "requeue"}
    /\ Fault({"redis"})
    /\ Put(api[a].job)
    /\ UNCHANGED <<documents, held, dlq, dlqId, api, worker, lost>>

\* The next call of the handler raises (500), or the process dies.
ApiAbort(a) ==
    /\ api[a].pc # "idle"
    /\ Fault(IF api[a].pc = "enqueue" THEN {"postgres", "redis", "crash"} ELSE {"redis", "crash"})
    /\ lost' = IF api[a].pc = "enqueue" THEN lost \cup {api[a].job.doc} ELSE lost
    /\ api' = [api EXCEPT ![a] = IdleApi]
    /\ UNCHANGED <<documents, stream, held, dlq, dlqId, worker>>

-----------------------------------------------------------------------------
(* Worker: process_ingestion_job                                           *)

\* EXTERNAL: the consumer hands some queued job to a free worker.
Take(w, job) ==
    /\ worker[w].pc = "idle"
    /\ stream[job] > 0
    /\ stream' = [stream EXCEPT ![job] = @ - 1]
    /\ worker' = [worker EXCEPT ![w] = [pc |-> "load", job |-> job, seen |-> NoRow]]
    /\ UNCHANGED <<documents, held, dlq, dlqId, api, faults, lost>>

\* db.get: a job whose document is missing or another tenant's is refused.
Load(w) ==
    LET job == worker[w].job
        row == documents[job.doc]
        found == row.status # "absent" /\ row.tenant = job.tenant
    IN  /\ worker[w].pc = "load"
        /\ worker' = [worker EXCEPT ![w] =
                        [pc |-> IF found THEN "mark" ELSE "load_document",
                         job |-> job, seen |-> row]]
        /\ UNCHANGED <<documents, stream, held, dlq, dlqId, api, faults, lost>>

\* status = "indexing", committed.
Mark(w) ==
    LET seen == worker[w].seen
    IN  /\ worker[w].pc = "mark"
        /\ documents' = Written(DocOf(w), seen, "indexing", seen.chunk_count, seen.error)
        /\ Goto(w, "reload")
        /\ UNCHANGED <<stream, held, dlq, dlqId, api, faults, lost>>

\* The commit expired the attributes, so the first access selects the row again;
\* then the text is chunked, and no chunks is an error.
Reload(w) ==
    /\ worker[w].pc = "reload"
    /\ worker' = [worker EXCEPT ![w] =
                    [pc |-> IF ChunkCount[DocOf(w)] = 0 THEN "fail" ELSE "index",
                     job |-> worker[w].job, seen |-> documents[DocOf(w)]]]
    /\ UNCHANGED <<documents, stream, held, dlq, dlqId, api, faults, lost>>

\* index.index_chunks(chunks)
Index(w) ==
    /\ worker[w].pc = "index"
    /\ held' = Indexed(DocOf(w), ChunkCount[DocOf(w)])
    /\ Goto(w, "finish")
    /\ UNCHANGED <<documents, stream, dlq, dlqId, api, faults, lost>>

\* status = "indexed", the chunk count and no error, committed.
Finish(w) ==
    LET d == DocOf(w)
    IN  /\ worker[w].pc = "finish"
        /\ documents' = Written(d, worker[w].seen, "indexed", ChunkCount[d], FALSE)
        /\ Goto(w, "ack")
        /\ UNCHANGED <<stream, held, dlq, dlqId, api, faults, lost>>

\* The except clause: rollback expired the row, so both writes are emitted.
Fail(w) ==
    /\ worker[w].pc = "fail"
    /\ documents' = [documents EXCEPT ![DocOf(w)] = [@ EXCEPT !.status = "failed", !.error = TRUE]]
    /\ Goto(w, "index_document")
    /\ UNCHANGED <<stream, held, dlq, dlqId, api, faults, lost>>

\* dlq.write
Bury(w) ==
    /\ worker[w].pc \in Stage
    /\ dlqId' = dlqId + 1
    /\ dlq' = dlq \cup {[id |-> dlqId + 1, job |-> worker[w].job, stage |-> worker[w].pc]}
    /\ Goto(w, "ack")
    /\ UNCHANGED <<documents, stream, held, api, faults, lost>>

\* EXTERNAL: process_ingestion_job returned, the consumer is done with the job.
Ack(w) ==
    /\ worker[w].pc = "ack"
    /\ worker' = [worker EXCEPT ![w] = IdleWorker]
    /\ UNCHANGED <<documents, stream, held, dlq, dlqId, api, faults, lost>>

-----------------------------------------------------------------------------
(* Failures inside the worker                                              *)

\* A statement of the try block raises before it takes effect.
Raise(w) ==
    /\ worker[w].pc \in {"mark", "reload", "finish"}
    /\ Fault({"postgres"})
    /\ Goto(w, "fail")
    /\ UNCHANGED <<documents, stream, held, dlq, dlqId, api, lost>>

\* The index takes some of the chunks, in order, then raises.
IndexFails(w) ==
    /\ worker[w].pc = "index"
    /\ Fault({"index"})
    /\ \E k \in 0..ChunkCount[DocOf(w)] - 1 : held' = Indexed(DocOf(w), k)
    /\ Goto(w, "fail")
    /\ UNCHANGED <<documents, stream, dlq, dlqId, api, lost>>

\* The last commit took effect but the worker sees an error.
FinishReplyLost(w) ==
    LET d == DocOf(w)
    IN  /\ worker[w].pc = "finish"
        /\ Fault({"postgres"})
        /\ documents' = Written(d, worker[w].seen, "indexed", ChunkCount[d], FALSE)
        /\ Goto(w, "fail")
        /\ UNCHANGED <<stream, held, dlq, dlqId, api, lost>>

\* The reply to the XADD of dlq.write is lost and the client is about to resend.
BuryAgain(w) ==
    /\ worker[w].pc \in Stage
    /\ Fault({"redis"})
    /\ dlqId' = dlqId + 1
    /\ dlq' = dlq \cup {[id |-> dlqId + 1, job |-> worker[w].job, stage |-> worker[w].pc]}
    /\ UNCHANGED <<documents, stream, held, api, worker, lost>>

\* What makes process_ingestion_job raise or die at each point; errors of the
\* try block are caught (Raise, IndexFails) and only a crash gets out of it.
Fatal(pc) ==
    CASE pc \in {"load", "fail"} -> {"postgres", "crash"}
      [] pc \in Stage -> {"postgres", "redis", "crash"}
      [] pc = "ack" -> {"redis", "crash"}
      [] OTHER -> {"crash"}

\* The worker loses its job: it is delivered again if it was not acknowledged,
\* and gone otherwise (unless process_ingestion_job had finished with it).
WorkerAbort(w) ==
    LET job == worker[w].job
    IN  /\ worker[w].pc # "idle"
        /\ Fault(Fatal(worker[w].pc))
        /\ worker' = [worker EXCEPT ![w] = IdleWorker]
        /\ IF AckLate
             THEN Put(job) /\ UNCHANGED lost
             ELSE /\ UNCHANGED stream
                  /\ lost' = IF worker[w].pc = "ack" THEN lost ELSE lost \cup {job.doc}
        /\ UNCHANGED <<documents, held, dlq, dlqId, api>>

-----------------------------------------------------------------------------

Upload(a) == \E t \in Tenant, d \in Doc : Store(a, t, d)
Replay(a) == \E t \in Tenant, e \in dlq : Find(a, t, e)
Continue(a) == Enqueue(a) \/ Requeue(a) \/ Delete(a)

Work(w) ==
    \/ \E job \in Job : Take(w, job)
    \/ Load(w) \/ Mark(w) \/ Reload(w) \/ Index(w) \/ Finish(w)
    \/ Fail(w) \/ Bury(w) \/ Ack(w)

Failure(w) ==
    Raise(w) \/ IndexFails(w) \/ FinishReplyLost(w) \/ BuryAgain(w) \/ WorkerAbort(w)

Next ==
    \/ \E a \in Api : Upload(a) \/ Replay(a) \/ Continue(a) \/ Resend(a) \/ ApiAbort(a)
    \/ \E w \in Worker : Work(w) \/ Failure(w)

Spec == Init /\ [][Next]_vars

\* Workers keep running while there are jobs, handlers run to completion, and
\* an operator keeps replaying what the dead-letter queue shows.  Uploads and
\* failures are never forced.
Fairness ==
    /\ \A w \in Worker : WF_vars(Work(w))
    /\ \A a \in Api : WF_vars(Continue(a)) /\ WF_vars(Replay(a))

FairSpec == Spec /\ Fairness

-----------------------------------------------------------------------------
(* Who holds a document's job                                              *)

\* A job the worker will run on d: jobs are checked against the row's tenant.
JobOf(d, job) == job.doc = d /\ job.tenant = documents[d].tenant

\* A handler that has stored d and will enqueue its job.
Uploads(a, d) == api[a].pc = "enqueue" /\ JobOf(d, api[a].job)

\* A worker that will still index d or bury its job.  One that saw d indexed when
\* it read the row will not write the status again.
Works(w, d) ==
    /\ worker[w].pc \in {"load", "mark", "reload", "index", "finish", "fail"} \cup Stage
    /\ JobOf(d, worker[w].job)
    /\ worker[w].pc \in {"index", "finish"} => worker[w].seen.status # "indexed"

\* A dead job of d that no replay is about to delete.
Keeps(e, d) ==
    /\ JobOf(d, e.job)
    /\ \A a \in Api : api[a].pc = "delete" => api[a].id # e.id

\* Some process or queue holds a job that will still run on d or can be replayed.
Carried(d) ==
    \/ \E a \in Api : Uploads(a, d)
    \/ \E job \in Job : JobOf(d, job) /\ stream[job] > 0
    \/ \E w \in Worker : Works(w, d)
    \/ \E e \in dlq : Keeps(e, d)

-----------------------------------------------------------------------------
(* Properties                                                              *)

\* Every variable keeps its shape.
TypeOK ==
    /\ documents \in [Doc -> Row]
    /\ stream \in [Job -> Nat]
    /\ held \in [Doc -> Share]
    /\ dlq \subseteq Entry
    /\ dlqId \in Nat
    /\ api \in [Api -> [pc : ApiPc, caller : Tenant \cup {None}, job : Job \cup {None}, id : Nat]]
    /\ \A a \in Api : api[a].pc # "idle" => api[a].job \in Job
    /\ worker \in [Worker -> [pc : WorkerPc, job : Job \cup {None}, seen : Row]]
    /\ \A w \in Worker : worker[w].pc # "idle" => worker[w].job \in Job
    /\ faults \in Nat
    /\ lost \subseteq Doc

\* The job is one that no upload of ours enqueued, or a retry of such a job.
Stray(job) == \E s \in StrayJob : s.doc = job.doc /\ s.tenant = job.tenant

\* The job names a stored, non-blank document of its own tenant, or it is stray.
Sound(job) ==
    \/ /\ Stored(job.doc)
       /\ documents[job.doc].tenant = job.tenant
       /\ ChunkCount[job.doc] > 0
    \/ Stray(job)

\* No process ever handles a job before the commit it depends on: every job in
\* the stream, with a worker, in a handler or in the dead-letter queue is sound,
\* and process_ingestion_job refuses ("load_document") only stray ones.  This
\* holds whatever crashes, is delivered twice or is replayed twice.
JobsNameStoredDocuments ==
    /\ \A job \in Job : stream[job] > 0 => Sound(job)
    /\ \A w \in Worker :
          /\ worker[w].pc # "idle" => Sound(worker[w].job)
          /\ worker[w].pc = "load_document" => Stray(worker[w].job)
    /\ \A a \in Api : api[a].pc # "idle" => Sound(api[a].job)
    /\ \A e \in dlq :
          /\ Sound(e.job)
          /\ e.stage = "load_document" => Stray(e.job)

\* Past db.get and its tenant check.
Past == {"mark", "reload", "index", "finish", "fail", "index_document"}

\* Nobody acts on another tenant's document: a worker past db.get works on a row
\* of its job's tenant, and a job that RedisDLQ replays goes back on behalf of its
\* own tenant.  (Replays of an InMemoryDLQ: ReplaysStayInTenant.)
TenantIsolation ==
    /\ \A w \in Worker :
          worker[w].pc \in Past =>
              Stored(DocOf(w)) /\ documents[DocOf(w)].tenant = worker[w].job.tenant
    /\ \A a \in Api : api[a].pc # "idle" => api[a].caller = api[a].job.tenant

\* A document reported "indexed" has all its chunks in the index and reports
\* their number, whatever other workers do to the same row at the same time.
IndexedIsSearchable ==
    \A d \in Doc :
        documents[d].status = "indexed" =>
            /\ held[d].chunks >= ChunkCount[d]
            /\ documents[d].chunk_count = ChunkCount[d]

\* A stored document that is not indexed has a job that will still run or can be
\* replayed: in the stream, with a worker, in the dead-letter queue or about to
\* be enqueued.  The only exception is a job that died with its only holder.
NoSilentLoss ==
    \A d \in Doc :
        Stored(d) /\ documents[d].status # "indexed" /\ d \notin lost =>
            Carried(d)

\* With one API process and no lost acknowledgement or delete, a document has at
\* most one live job: replaying moves a job and never copies it.
OneJobPerDocument ==
    \A d \in Doc :
        Stored(d) /\ (\A s \in StrayJob : ~JobOf(d, s)) =>
            Cardinality({a \in Api : Uploads(a, d)})
            + Cardinality({p \in Job \X (1..2) : JobOf(d, p[1]) /\ p[2] <= stream[p[1]]})
            + Cardinality({w \in Worker : Works(w, d)})
            + Cardinality({e \in dlq : Keeps(e, d)})
            <= 1

\* While a document has one job at a time, its row tells one story: "indexed" has
\* no error, "failed" has one, and "pending" means no worker ever touched it.
RowIsCoherent ==
    \A d \in Doc :
        /\ documents[d].status = "indexed" => ~documents[d].error
        /\ documents[d].status = "failed" => documents[d].error
        /\ documents[d].status = "pending" => held[d].chunks = 0 /\ ~documents[d].error

AllIndexed ==
    \A d \in Doc : Stored(d) => documents[d].status = "indexed" \/ d \in lost

\* Once failures stop, every stored document ends up indexed and stays so, except
\* one whose job died with its only holder.
EventuallyAllIndexed == <>[]AllIndexed

-----------------------------------------------------------------------------
(* What the documentation says and the code does not do                    *)

\* README.md:203-211: failures during ingestion are observable and replayable.
\* A stored document that is not indexed has a job somewhere, lost or not.
FailuresAreReplayable ==
    \A d \in Doc :
        Stored(d) /\ documents[d].status # "indexed" =>
            Carried(d)

\* failure_cases/ingestion_failure.md:9-11: a failed document has status
\* "failed" and its chunk count remains zero.
FailedHasNoChunks ==
    \A d \in Doc : documents[d].status = "failed" => documents[d].chunk_count = 0
=============================================================================
