--------------------------- MODULE IngestionProofs ---------------------------
(***************************************************************************)
(* Proofs about Ingestion, for every set of tenants, documents, workers    *)
(* and API processes, every kind of chunk index and consumer, and every    *)
(* number of failures and retries.                                         *)
(***************************************************************************)
EXTENDS Ingestion, TLAPS

\* The records processes keep, named for the provers.
ApiState == [pc : ApiPc, caller : Tenant \cup {None}, job : Job \cup {None}, id : Nat]
WorkerState == [pc : WorkerPc, job : Job \cup {None}, seen : Row]

-----------------------------------------------------------------------------
(* Operators                                                               *)

\* An UPDATE leaves well-formed rows.
LEMMA WrittenType ==
    ASSUME documents \in [Doc -> Row], NEW d \in Doc, NEW seen \in Row,
           NEW status \in Status, NEW count \in Nat, NEW error \in BOOLEAN
    PROVE  Written(d, seen, status, count, error) \in [Doc -> Row]
<1> DEFINE st == IF seen.status # status THEN status ELSE documents[d].status
           ct == IF seen.chunk_count # count THEN count ELSE documents[d].chunk_count
           er == IF seen.error # error THEN error ELSE documents[d].error
<1>1. documents[d] \in Row /\ st \in Status /\ ct \in Nat /\ er \in BOOLEAN
  BY DEF Row
<1>2. Written(d, seen, status, count, error) =
        [documents EXCEPT ![d].status = st, ![d].chunk_count = ct, ![d].error = er]
  BY <1>1, Zenon DEF Written, Row
<1> HIDE DEF st, ct, er
<1>3. [documents EXCEPT ![d].status = st, ![d].chunk_count = ct, ![d].error = er] \in [Doc -> Row]
  BY <1>1 DEF Row
<1>. QED
  BY <1>2, <1>3

\* Indexing keeps a share of the index for every document and never removes a chunk.
LEMMA IndexedType ==
    ASSUME held \in [Doc -> Share], NEW d \in Doc, NEW k \in Nat
    PROVE  /\ Indexed(d, k) \in [Doc -> Share]
           /\ \A x \in Doc : Indexed(d, k)[x].chunks >= held[x].chunks
           /\ Indexed(d, k)[d].chunks >= k
<1> DEFINE longer == IF k > held[d].chunks THEN k ELSE held[d].chunks
           again == held[d].twice \/ (k > 0 /\ held[d].chunks > 0)
           share == [chunks |-> longer, twice |-> again]
<1>1. \A x \in Doc : held[x].chunks \in Nat /\ held[x].twice \in BOOLEAN
  BY DEF Share
<1>2. longer \in Nat /\ longer >= k /\ longer >= held[d].chunks
  BY <1>1
<1>3. again \in BOOLEAN
  BY <1>1
<1>4. Indexed(d, k) = [held EXCEPT ![d] = share]
  BY DEF Indexed
<1> HIDE DEF longer, again
<1>5. share \in Share /\ share.chunks = longer
  BY <1>2, <1>3 DEF Share
<1> HIDE DEF share
<1>6. Indexed(d, k)[d] = share /\ \A x \in Doc : x # d => Indexed(d, k)[x] = held[x]
  BY <1>4
<1>. QED
  BY <1>1, <1>2, <1>4, <1>5, <1>6

\* A replayed job is a job of the same document and tenant.
LEMMA RetriedType ==
    ASSUME NEW job \in Job, job.retry < MaxRetry
    PROVE  /\ Retried(job) \in Job
           /\ Retried(job).doc = job.doc
           /\ Retried(job).tenant = job.tenant
  BY ConstantsAssumption DEF Retried, Job

-----------------------------------------------------------------------------
(* Type correctness                                                        *)

LEMMA InitTypeOK == Init => TypeOK
<1> SUFFICES ASSUME Init PROVE TypeOK
  OBVIOUS
<1>1. NoRow \in Row /\ NoShare \in Share /\ IdleApi \in ApiState /\ IdleWorker \in WorkerState
  BY DEF NoRow, Row, Status, NoShare, Share, IdleApi, ApiState, ApiPc, IdleWorker, WorkerState, WorkerPc, Stage
<1>2. IdleApi.pc = "idle" /\ IdleWorker.pc = "idle"
  BY DEF IdleApi, IdleWorker
<1>. QED
  BY <1>1, <1>2 DEF Init, TypeOK, ApiState, WorkerState

\* The part of TypeOK a process's new state must satisfy.
LEMMA ApiType ==
    ASSUME TypeOK, NEW a \in Api, NEW s \in ApiState, s.pc # "idle" => s.job \in Job,
           api' = [api EXCEPT ![a] = s]
    PROVE  /\ api' \in [Api -> ApiState]
           /\ \A b \in Api : api'[b].pc # "idle" => api'[b].job \in Job
  BY DEF TypeOK, ApiState

LEMMA WorkerType ==
    ASSUME TypeOK, NEW w \in Worker, NEW s \in WorkerState, s.pc # "idle" => s.job \in Job,
           worker' = [worker EXCEPT ![w] = s]
    PROVE  /\ worker' \in [Worker -> WorkerState]
           /\ \A v \in Worker : worker'[v].pc # "idle" => worker'[v].job \in Job
  BY DEF TypeOK, WorkerState

LEMMA GotoType ==
    ASSUME TypeOK, NEW w \in Worker, NEW pc \in WorkerPc, worker[w].pc # "idle", Goto(w, pc)
    PROVE  /\ worker' \in [Worker -> WorkerState]
           /\ \A v \in Worker : worker'[v].pc # "idle" => worker'[v].job \in Job
  BY DEF TypeOK, WorkerState, Goto

\* What TypeOK says of a busy worker.
LEMMA BusyType ==
    ASSUME TypeOK, NEW w \in Worker, worker[w].pc # "idle"
    PROVE  /\ worker[w].job \in Job
           /\ DocOf(w) \in Doc
           /\ ChunkCount[DocOf(w)] \in Nat
           /\ worker[w].seen \in Row
           /\ documents[DocOf(w)] \in Row
  BY ConstantsAssumption DEF TypeOK, Job, DocOf, WorkerState

LEMMA NextTypeOK == TypeOK /\ [Next]_vars => TypeOK'
<1> SUFFICES ASSUME TypeOK, [Next]_vars PROVE TypeOK'
  OBVIOUS
<1> USE DEF ApiState, WorkerState
<1>0. IdleApi \in ApiState /\ IdleApi.pc = "idle" /\ IdleWorker \in WorkerState /\ IdleWorker.pc = "idle" /\ NoRow \in Row
  BY DEF IdleApi, ApiPc, IdleWorker, WorkerPc, Stage, NoRow, Row, Status
<1>1. ASSUME NEW a \in Api, NEW t \in Tenant, NEW d \in Doc, Store(a, t, d) PROVE TypeOK'
  <2> DEFINE job == [doc |-> d, tenant |-> t, retry |-> 0]
             s == [pc |-> "enqueue", caller |-> t, id |-> 0, job |-> job]
  <2>1. job \in Job
    BY ConstantsAssumption DEF Job
  <2>2. s \in ApiState /\ s.job \in Job /\ api' = [api EXCEPT ![a] = s]
    BY <1>1, <2>1 DEF Store, ApiPc
  <2> HIDE DEF s
  <2>3. [NoRow EXCEPT !.tenant = t, !.status = "pending"] \in Row
    BY <1>0 DEF Row, Status, NoRow
  <2>. QED
    BY <1>1, <2>2, <2>3, ApiType DEF Store, TypeOK
<1>2. ASSUME NEW a \in Api, Enqueue(a) PROVE TypeOK'
  BY <1>2, <1>0, ApiType DEF Enqueue, Put, TypeOK
<1>23. ASSUME NEW a \in Api, Resend(a) PROVE TypeOK'
  BY <1>23 DEF Resend, Put, Fault, TypeOK
<1>3. ASSUME NEW a \in Api, NEW t \in Tenant, NEW e \in dlq, Find(a, t, e) PROVE TypeOK'
  <2> DEFINE s == [pc |-> "requeue", caller |-> t, id |-> e.id, job |-> Retried(e.job)]
  <2>1. e \in Entry /\ e.job \in Job /\ e.id \in Nat
    BY DEF TypeOK, Entry
  <2>2. s \in ApiState /\ s.job \in Job /\ api' = [api EXCEPT ![a] = s]
    BY <1>3, <2>1, RetriedType DEF Find, ApiPc
  <2> HIDE DEF s
  <2>. QED
    BY <1>3, <2>2, ApiType DEF Find, TypeOK
<1>4. ASSUME NEW a \in Api, Requeue(a) PROVE TypeOK'
  BY <1>4 DEF Requeue, Put, TypeOK, ApiPc
<1>5. ASSUME NEW a \in Api, Delete(a) PROVE TypeOK'
  BY <1>5, <1>0, ApiType DEF Delete, TypeOK
<1>6. ASSUME NEW a \in Api, ApiAbort(a) PROVE TypeOK'
  <2>1. api[a].job \in Job /\ api[a].job.doc \in Doc
    BY <1>6 DEF ApiAbort, TypeOK, Job
  <2>. QED
    BY <1>6, <1>0, <2>1, ApiType DEF ApiAbort, Fault, TypeOK
<1>7. ASSUME NEW w \in Worker, NEW job \in Job, Take(w, job) PROVE TypeOK'
  <2> DEFINE s == [pc |-> "load", job |-> job, seen |-> NoRow]
  <2>1. s \in WorkerState /\ s.job \in Job /\ worker' = [worker EXCEPT ![w] = s]
    BY <1>7, <1>0 DEF Take, WorkerPc
  <2> HIDE DEF s
  <2>. QED
    BY <1>7, <2>1, WorkerType DEF Take, TypeOK
<1>8. ASSUME NEW w \in Worker, Load(w) PROVE TypeOK'
  <2>1. PICK pc \in WorkerPc : worker' = [worker EXCEPT ![w] =
            [pc |-> pc, job |-> worker[w].job, seen |-> documents[worker[w].job.doc]]]
    BY <1>8 DEF Load, WorkerPc, Stage
  <2> DEFINE s == [pc |-> pc, job |-> worker[w].job, seen |-> documents[worker[w].job.doc]]
  <2>2. s \in WorkerState /\ s.job \in Job
    BY <1>8, BusyType DEF Load, DocOf
  <2> HIDE DEF s
  <2>. QED
    BY <1>8, <2>1, <2>2, WorkerType DEF Load, TypeOK, s
<1>9. ASSUME NEW w \in Worker, Mark(w) PROVE TypeOK'
  <2>1. worker[w].pc # "idle" /\ "reload" \in WorkerPc /\ "indexing" \in Status
    BY <1>9 DEF Mark, WorkerPc, Status
  <2>2. documents' \in [Doc -> Row]
    BY <1>9, <2>1, BusyType, WrittenType DEF Mark, TypeOK, Row
  <2>. QED
    BY <1>9, <2>1, <2>2, GotoType DEF Mark, TypeOK
<1>10. ASSUME NEW w \in Worker, Reload(w) PROVE TypeOK'
  <2>1. PICK pc \in WorkerPc : worker' = [worker EXCEPT ![w] =
            [pc |-> pc, job |-> worker[w].job, seen |-> documents[DocOf(w)]]]
    BY <1>10 DEF Reload, WorkerPc
  <2> DEFINE s == [pc |-> pc, job |-> worker[w].job, seen |-> documents[DocOf(w)]]
  <2>2. s \in WorkerState /\ s.job \in Job
    BY <1>10, BusyType DEF Reload
  <2> HIDE DEF s
  <2>. QED
    BY <1>10, <2>1, <2>2, WorkerType DEF Reload, TypeOK, s
<1>11. ASSUME NEW w \in Worker, Index(w) PROVE TypeOK'
  <2>1. worker[w].pc # "idle" /\ "finish" \in WorkerPc
    BY <1>11 DEF Index, WorkerPc
  <2>. QED
    BY <1>11, <2>1, BusyType, GotoType, IndexedType DEF Index, TypeOK
<1>12. ASSUME NEW w \in Worker, NEW pc \in {"ack", "fail"}, worker[w].pc = "finish", Goto(w, pc),
              documents' = Written(DocOf(w), worker[w].seen, "indexed", ChunkCount[DocOf(w)], FALSE),
              faults' \in Nat, UNCHANGED <<stream, held, dlq, dlqId, api, lost>>
       PROVE  TypeOK'
  <2>1. worker[w].pc # "idle" /\ pc \in WorkerPc /\ "indexed" \in Status
    BY <1>12 DEF WorkerPc, Status
  <2>2. documents' \in [Doc -> Row]
    BY <1>12, <2>1, BusyType, WrittenType DEF TypeOK
  <2>. QED
    BY <1>12, <2>1, <2>2, GotoType DEF TypeOK
<1>13. ASSUME NEW w \in Worker, Fail(w) PROVE TypeOK'
  <2>1. worker[w].pc # "idle" /\ "index_document" \in WorkerPc
    BY <1>13 DEF Fail, WorkerPc, Stage
  <2>2. [documents[DocOf(w)] EXCEPT !.status = "failed", !.error = TRUE] \in Row
    BY <2>1, BusyType DEF Row, Status
  <2>3. documents' \in [Doc -> Row]
    BY <1>13, <2>2 DEF Fail, TypeOK
  <2>. QED
    BY <1>13, <2>1, <2>3, GotoType DEF Fail, TypeOK
<1>14. ASSUME NEW w \in Worker, Bury(w) PROVE TypeOK'
  <2>1. worker[w].pc # "idle" /\ "ack" \in WorkerPc
    BY <1>14 DEF Bury, WorkerPc, Stage
  <2>2. [id |-> dlqId + 1, job |-> worker[w].job, stage |-> worker[w].pc] \in Entry
    BY <1>14, <2>1, BusyType DEF Bury, Entry, TypeOK
  <2>. QED
    BY <1>14, <2>1, <2>2, GotoType DEF Bury, TypeOK
<1>24. ASSUME NEW w \in Worker, BuryAgain(w) PROVE TypeOK'
  <2>1. worker[w].pc # "idle"
    BY <1>24 DEF BuryAgain, Stage
  <2>2. [id |-> dlqId + 1, job |-> worker[w].job, stage |-> worker[w].pc] \in Entry
    BY <1>24, <2>1, BusyType DEF BuryAgain, Entry, TypeOK
  <2>. QED
    BY <1>24, <2>2 DEF BuryAgain, Fault, TypeOK
<1>15. ASSUME NEW w \in Worker, Ack(w) PROVE TypeOK'
  BY <1>15, <1>0, WorkerType DEF Ack, TypeOK
<1>16. ASSUME NEW w \in Worker, Raise(w) PROVE TypeOK'
  <2>1. worker[w].pc # "idle" /\ "fail" \in WorkerPc
    BY <1>16 DEF Raise, WorkerPc
  <2>. QED
    BY <1>16, <2>1, GotoType DEF Raise, Fault, TypeOK
<1>17. ASSUME NEW w \in Worker, IndexFails(w) PROVE TypeOK'
  <2>1. worker[w].pc # "idle" /\ "fail" \in WorkerPc
    BY <1>17 DEF IndexFails, WorkerPc
  <2>2. PICK k \in 0..ChunkCount[DocOf(w)] - 1 : held' = Indexed(DocOf(w), k)
    BY <1>17 DEF IndexFails
  <2>3. held' \in [Doc -> Share]
    BY <2>1, <2>2, BusyType, IndexedType DEF TypeOK
  <2>. QED
    BY <1>17, <2>1, <2>3, GotoType DEF IndexFails, Fault, TypeOK
<1>18. ASSUME NEW w \in Worker, WorkerAbort(w) PROVE TypeOK'
  <2>1. worker[w].job \in Job /\ worker[w].job.doc \in Doc
    BY <1>18, BusyType DEF WorkerAbort, DocOf
  <2>2. stream' \in [Job -> Nat] /\ lost' \subseteq Doc
    BY <1>18, <2>1 DEF WorkerAbort, Put, TypeOK
  <2>. QED
    BY <1>18, <1>0, <2>2, WorkerType DEF WorkerAbort, Fault, TypeOK
<1>19. ASSUME UNCHANGED vars PROVE TypeOK'
  BY <1>19 DEF vars, TypeOK
<1>20. ASSUME NEW a \in Api, Upload(a) \/ Replay(a) \/ Continue(a) \/ Resend(a) \/ ApiAbort(a)
       PROVE  TypeOK'
  BY <1>1, <1>2, <1>3, <1>4, <1>5, <1>6, <1>20, <1>23 DEF Upload, Replay, Continue
<1>21. ASSUME NEW w \in Worker, Work(w) PROVE TypeOK'
  <2>1. CASE Finish(w)
    BY <2>1, <1>12 DEF Finish, TypeOK
  <2>. QED
    BY <1>7, <1>8, <1>9, <1>10, <1>11, <1>13, <1>14, <1>15, <1>21, <2>1 DEF Work
<1>22. ASSUME NEW w \in Worker, Failure(w) PROVE TypeOK'
  <2>1. CASE FinishReplyLost(w)
    <3>1. faults' \in Nat
      BY <2>1 DEF FinishReplyLost, Fault, TypeOK
    <3>. QED
      BY <2>1, <3>1, <1>12 DEF FinishReplyLost
  <2>. QED
    BY <1>16, <1>17, <1>18, <1>22, <1>24, <2>1 DEF Failure
<1>. QED
  BY <1>19, <1>20, <1>21, <1>22 DEF Next

\* Every variable keeps its shape in every behaviour.
THEOREM TypeCorrectness == Spec => []TypeOK
  BY InitTypeOK, NextTypeOK, PTL DEF Spec

-----------------------------------------------------------------------------
(* Jobs and the documents they name                                        *)

\* JobsNameStoredDocuments and TenantIsolation, one process at a time.
WorkerSound(w) ==
    /\ worker[w].pc # "idle" => Sound(worker[w].job)
    /\ worker[w].pc = "load_document" => Stray(worker[w].job)
    /\ worker[w].pc \in Past =>
          Stored(DocOf(w)) /\ documents[DocOf(w)].tenant = worker[w].job.tenant

ApiSound(a) ==
    api[a].pc # "idle" => Sound(api[a].job) /\ api[a].caller = api[a].job.tenant

EntrySound(e) ==
    /\ Sound(e.job)
    /\ e.stage = "load_document" => Stray(e.job)

Soundness ==
    /\ \A job \in Job : stream[job] > 0 => Sound(job)
    /\ \A w \in Worker : WorkerSound(w)
    /\ \A a \in Api : ApiSound(a)
    /\ \A e \in dlq : EntrySound(e)

LEMMA SoundnessIsBoth == Soundness <=> JobsNameStoredDocuments /\ TenantIsolation
  BY DEF Soundness, WorkerSound, ApiSound, EntrySound, JobsNameStoredDocuments, TenantIsolation

\* No statement ever deletes a row or gives it to another tenant.
RowStays(d) == Stored(d) => Stored(d)' /\ documents'[d].tenant = documents[d].tenant

LEMMA WrittenStays ==
    ASSUME TypeOK, NEW x \in Doc, NEW d \in Doc, NEW seen, NEW status \in Status \ {"absent"},
           NEW count, NEW error, documents' = Written(x, seen, status, count, error)
    PROVE  RowStays(d)
<1>1. documents \in [Doc -> Row]
  BY DEF TypeOK
<1>2. documents'[d].tenant = documents[d].tenant
  BY <1>1 DEF Written, Row
<1>3. documents'[d].status = documents[d].status \/ documents'[d].status = status
  BY <1>1 DEF Written, Row
<1>. QED
  BY <1>2, <1>3 DEF RowStays, Stored

LEMMA RowsStay ==
    ASSUME TypeOK, [Next]_vars, NEW d \in Doc
    PROVE  RowStays(d)
<1>1. ASSUME NEW a \in Api, NEW t \in Tenant, NEW x \in Doc, Store(a, t, x) PROVE RowStays(d)
  BY <1>1 DEF Store, RowStays, Stored, TypeOK
<1>2. ASSUME NEW w \in Worker, Mark(w) PROVE RowStays(d)
  <2>1. DocOf(w) \in Doc
    BY <1>2, BusyType DEF Mark
  <2>. QED
    BY <1>2, <2>1, WrittenStays DEF Mark, Status
<1>3. ASSUME NEW w \in Worker, Finish(w) \/ FinishReplyLost(w) PROVE RowStays(d)
  <2>1. DocOf(w) \in Doc
    BY <1>3, BusyType DEF Finish, FinishReplyLost
  <2>. QED
    BY <1>3, <2>1, WrittenStays DEF Finish, FinishReplyLost, Status
<1>4. ASSUME NEW w \in Worker, Fail(w) PROVE RowStays(d)
  BY <1>4 DEF Fail, RowStays, Stored, TypeOK, Row
<1>5. ASSUME UNCHANGED documents PROVE RowStays(d)
  BY <1>5 DEF RowStays, Stored
<1>. QED
  BY <1>1, <1>2, <1>3, <1>4, <1>5
     DEF Next, vars, Upload, Replay, Continue, Work, Failure, Enqueue, Find, Requeue, Delete,
         Resend, ApiAbort, Take, Load, Reload, Index, Bury, Ack, Raise, IndexFails, BuryAgain, WorkerAbort

LEMMA SoundStays ==
    ASSUME TypeOK, [Next]_vars, NEW job \in Job, Sound(job)
    PROVE  Sound(job)'
<1>1. job.doc \in Doc
  BY DEF Job
<1>. QED
  BY <1>1, RowsStay DEF Sound, RowStays, Stray

\* A retry of a sound job is sound.
LEMMA RetriedSound ==
    ASSUME NEW job \in Job, job.retry < MaxRetry, Sound(job)
    PROVE  Sound(Retried(job)) /\ Retried(job).tenant = job.tenant
  BY RetriedType DEF Sound, Stray, Stored

\* What the steps leave alone stays sound.
LEMMA SoundFrame ==
    ASSUME TypeOK, [Next]_vars, Soundness
    PROVE  /\ \A job \in Job : stream[job] > 0 => Sound(job)'
           /\ \A w \in Worker : worker'[w] = worker[w] => WorkerSound(w)'
           /\ \A a \in Api : api'[a] = api[a] => ApiSound(a)'
           /\ \A e \in dlq : EntrySound(e)'
<1>1. \A job \in Job : stream[job] > 0 => Sound(job)'
  BY SoundStays DEF Soundness
<1>2. ASSUME NEW w \in Worker, worker'[w] = worker[w] PROVE WorkerSound(w)'
  <2>1. CASE worker[w].pc = "idle"
    BY <1>2, <2>1 DEF WorkerSound, Past
  <2>2. CASE worker[w].pc # "idle"
    <3>1. worker[w].job \in Job /\ DocOf(w) \in Doc /\ DocOf(w)' = DocOf(w)
      BY <1>2, <2>2, BusyType DEF DocOf
    <3>2. Sound(worker[w].job)' 
      BY <2>2, <3>1, <1>2, SoundStays DEF Soundness, WorkerSound
    <3>. QED
      BY <1>2, <3>1, <3>2, RowsStay DEF Soundness, WorkerSound, RowStays, Stray
  <2>. QED
    BY <2>1, <2>2
<1>3. ASSUME NEW a \in Api, api'[a] = api[a] PROVE ApiSound(a)'
  <2>1. api[a].pc # "idle" => api[a].job \in Job
    BY DEF TypeOK
  <2>. QED
    BY <1>3, <2>1, SoundStays DEF Soundness, ApiSound
<1>4. ASSUME NEW e \in dlq PROVE EntrySound(e)'
  <2>1. e.job \in Job
    BY DEF TypeOK, Entry
  <2>. QED
    BY <2>1, SoundStays DEF Soundness, EntrySound, Stray
<1>. QED
  BY <1>1, <1>2, <1>3, <1>4

LEMMA InitSoundness == Init => Soundness
<1> SUFFICES ASSUME Init PROVE Soundness
  OBVIOUS
<1>1. ASSUME NEW job \in Job, stream[job] > 0 PROVE Sound(job)
  BY <1>1 DEF Init, Sound, Stray
<1>. QED
  BY <1>1 DEF Init, Soundness, WorkerSound, ApiSound, IdleWorker, IdleApi, Past

\* A worker that keeps its job and stays past, or before, the tenant check.
LEMMA GotoSound ==
    ASSUME TypeOK, [Next]_vars, Soundness, NEW w \in Worker,
           NEW pc \in {"reload", "finish", "fail", "index_document", "ack"}, Goto(w, pc),
           worker[w].pc \in Past \/ (pc = "ack" /\ worker[w].pc # "idle")
    PROVE  \A v \in Worker : WorkerSound(v)'
<1>1. worker[w].pc # "idle"
  BY DEF Past
<1>2. PICK job \in Job : job = worker[w].job /\ job.doc \in Doc
  BY <1>1, BusyType DEF DocOf
<1>3. worker'[w].pc = pc /\ worker'[w].job = job
  BY <1>2 DEF Goto, TypeOK
<1>4. Sound(job)'
  BY <1>1, <1>2, SoundStays DEF Soundness, WorkerSound
<1>5. WorkerSound(w)'
  BY <1>1, <1>2, <1>3, <1>4, RowsStay DEF Soundness, WorkerSound, RowStays, Past, DocOf, Stored
<1>6. \A v \in Worker \ {w} : worker'[v] = worker[v]
  BY DEF Goto, TypeOK
<1>. QED
  BY <1>5, <1>6, SoundFrame

LEMMA NextSoundness == TypeOK /\ Soundness /\ [Next]_vars => Soundness'
<1> SUFFICES ASSUME TypeOK, Soundness, [Next]_vars PROVE Soundness'
  OBVIOUS
<1>f. /\ \A job \in Job : stream[job] > 0 => Sound(job)'
      /\ \A w \in Worker : worker'[w] = worker[w] => WorkerSound(w)'
      /\ \A a \in Api : api'[a] = api[a] => ApiSound(a)'
      /\ \A e \in dlq : EntrySound(e)'
  BY SoundFrame
<1>1. ASSUME NEW a \in Api, NEW t \in Tenant, NEW d \in Doc, Store(a, t, d) PROVE Soundness'
  <2>1. api'[a].job.doc = d /\ api'[a].job.tenant = t /\ api'[a].caller = t
    BY <1>1 DEF Store, TypeOK
  <2>2. documents'[d].status = "pending" /\ documents'[d].tenant = t /\ ChunkCount[d] > 0
    BY <1>1 DEF Store, TypeOK, NoRow
  <2>3. ApiSound(a)'
    BY <2>1, <2>2 DEF ApiSound, Sound, Stored
  <2>4. \A b \in Api \ {a} : api'[b] = api[b]
    BY <1>1 DEF Store, TypeOK
  <2>. QED
    BY <1>1, <1>f, <2>3, <2>4 DEF Store, Soundness
<1>2. ASSUME NEW a \in Api, Enqueue(a) \/ Requeue(a) \/ Resend(a) PROVE Soundness'
  <2>1. PICK job \in Job : job = api[a].job /\ Sound(job)
    BY <1>2 DEF Enqueue, Requeue, Resend, TypeOK, Soundness, ApiSound
  <2>2. Sound(job)'
    BY <2>1, SoundStays
  <2>3. \A j \in Job : stream'[j] > 0 => Sound(j)'
    BY <1>2, <1>f, <2>1, <2>2 DEF Enqueue, Requeue, Resend, Put, TypeOK
  <2>4. \A b \in Api : b # a => api'[b] = api[b]
    BY <1>2 DEF Enqueue, Requeue, Resend, TypeOK
  <2>5. CASE Enqueue(a)
    <3>1. ApiSound(a)'
      BY <2>5 DEF Enqueue, ApiSound, IdleApi, TypeOK
    <3>. QED
      BY <1>f, <2>3, <2>4, <2>5, <3>1 DEF Enqueue, Soundness
  <2>6. CASE Requeue(a)
    <3>1. api[a].caller = api[a].job.tenant
      BY <2>6 DEF Requeue, Soundness, ApiSound
    <3>2. ApiSound(a)'
      BY <2>1, <2>2, <2>6, <3>1 DEF Requeue, ApiSound, TypeOK
    <3>. QED
      BY <1>f, <2>3, <2>4, <2>6, <3>2 DEF Requeue, Soundness
  <2>7. CASE Resend(a)
    BY <1>f, <2>3, <2>7 DEF Resend, Soundness
  <2>. QED
    BY <1>2, <2>5, <2>6, <2>7
<1>3. ASSUME NEW a \in Api, NEW t \in Tenant, NEW e \in dlq, Find(a, t, e) PROVE Soundness'
  <2>1. e.job \in Job /\ e.job.retry < MaxRetry /\ e.job.tenant = t /\ Sound(e.job)
    BY <1>3 DEF Find, TypeOK, Entry, Soundness, EntrySound
  <2>2. PICK job \in Job : job = Retried(e.job) /\ job.tenant = t /\ Sound(job)
    BY <2>1, RetriedType, RetriedSound
  <2>3. Sound(job)'
    BY <2>2, SoundStays
  <2>4. api'[a].job = job /\ api'[a].caller = t
    BY <1>3, <2>2 DEF Find, TypeOK
  <2>5. ApiSound(a)'
    BY <2>2, <2>3, <2>4 DEF ApiSound
  <2>6. \A b \in Api : b # a => api'[b] = api[b]
    BY <1>3 DEF Find, TypeOK
  <2>. QED
    BY <1>3, <1>f, <2>5, <2>6 DEF Find, Soundness
<1>4. ASSUME NEW a \in Api, Delete(a) \/ ApiAbort(a) PROVE Soundness'
  <2>1. api'[a] = IdleApi /\ \A b \in Api : b # a => api'[b] = api[b]
    BY <1>4 DEF Delete, ApiAbort, TypeOK
  <2>2. ApiSound(a)'
    BY <2>1 DEF ApiSound, IdleApi
  <2>. QED
    BY <1>4, <1>f, <2>1, <2>2 DEF Delete, ApiAbort, Soundness
<1>5. ASSUME NEW w \in Worker, NEW job \in Job, Take(w, job) PROVE Soundness'
  <2>1. worker'[w].pc = "load" /\ worker'[w].job = job /\ \A v \in Worker : v # w => worker'[v] = worker[v]
    BY <1>5 DEF Take, TypeOK
  <2>2. WorkerSound(w)'
    BY <1>5, <1>f, <2>1 DEF Take, WorkerSound, Past
  <2>3. \A j \in Job : stream'[j] > 0 => stream[j] > 0
    BY <1>5 DEF Take, TypeOK
  <2>. QED
    BY <1>5, <1>f, <2>1, <2>2, <2>3 DEF Take, Soundness
<1>6. ASSUME NEW w \in Worker, Load(w) PROVE Soundness'
  <2>1. PICK job \in Job : job = worker[w].job /\ job.doc \in Doc /\ Sound(job)
    BY <1>6, BusyType DEF Load, DocOf, Soundness, WorkerSound
  <2>2. Sound(job)'
    BY <2>1, SoundStays
  <2>3. worker'[w].job = job /\ worker'[w].pc \in {"mark", "load_document"}
    BY <1>6, <2>1 DEF Load, TypeOK
  <2>4. worker'[w].pc = "mark" => Stored(job.doc) /\ documents[job.doc].tenant = job.tenant
    BY <1>6, <2>1 DEF Load, TypeOK, Stored
  <2>5. worker'[w].pc = "load_document" => Stray(job)
    BY <1>6, <2>1 DEF Load, TypeOK, Stored, Sound
  <2>6. documents' = documents
    BY <1>6 DEF Load
  <2>7. WorkerSound(w)'
    BY <2>1, <2>2, <2>3, <2>4, <2>5, <2>6 DEF WorkerSound, Past, Stray, Stored, DocOf
  <2>8. \A v \in Worker : v # w => worker'[v] = worker[v]
    BY <1>6 DEF Load, TypeOK
  <2>. QED
    BY <1>6, <1>f, <2>7, <2>8 DEF Load, Soundness
<1>7. ASSUME NEW w \in Worker, Reload(w) PROVE Soundness'
  <2>1. worker'[w].job = worker[w].job /\ worker'[w].pc \in {"index", "fail"} /\ documents' = documents
    BY <1>7 DEF Reload, TypeOK
  <2>2. WorkerSound(w)'
    BY <1>7, <2>1 DEF Reload, Soundness, WorkerSound, Past, DocOf, Stored, Sound, Stray
  <2>3. \A v \in Worker : v # w => worker'[v] = worker[v]
    BY <1>7 DEF Reload, TypeOK
  <2>. QED
    BY <1>7, <1>f, <2>2, <2>3 DEF Reload, Soundness
<1>8. ASSUME NEW w \in Worker,
             Mark(w) \/ Index(w) \/ Finish(w) \/ Fail(w) \/ Raise(w) \/ IndexFails(w) \/ FinishReplyLost(w)
      PROVE  Soundness'
  <2>1. \A v \in Worker : WorkerSound(v)'
    BY <1>8, GotoSound DEF Mark, Index, Finish, Fail, Raise, IndexFails, FinishReplyLost, Past
  <2>. QED
    BY <1>8, <1>f, <2>1 DEF Mark, Index, Finish, Fail, Raise, IndexFails, FinishReplyLost, Soundness
<1>9. ASSUME NEW w \in Worker, Bury(w) \/ BuryAgain(w) PROVE Soundness'
  <2>1. PICK job \in Job : worker[w].pc # "idle" /\ job = worker[w].job
    BY <1>9, BusyType DEF Bury, BuryAgain, Stage
  <2>e. PICK e : e = [id |-> dlqId + 1, job |-> job, stage |-> worker[w].pc]
    OBVIOUS
  <2>2. \A v \in Worker : WorkerSound(v)'
    BY <1>9, <1>f, <2>1, GotoSound DEF Bury, BuryAgain
  <2>3. Sound(job)'
    BY <2>1, SoundStays DEF Soundness, WorkerSound
  <2>4. EntrySound(e)'
    BY <2>1, <2>3, <2>e DEF EntrySound, Soundness, WorkerSound, Stray
  <2>5. dlq' = dlq \cup {e}
    BY <1>9, <2>1, <2>e DEF Bury, BuryAgain
  <2>. QED
    BY <1>9, <1>f, <2>2, <2>4, <2>5 DEF Bury, BuryAgain, Soundness
<1>10. ASSUME NEW w \in Worker, Ack(w) \/ WorkerAbort(w) PROVE Soundness'
  <2>1. worker'[w] = IdleWorker /\ \A v \in Worker : v # w => worker'[v] = worker[v]
    BY <1>10 DEF Ack, WorkerAbort, TypeOK
  <2>2. WorkerSound(w)'
    BY <2>1 DEF WorkerSound, IdleWorker, Past
  <2>3. \A job \in Job : stream'[job] > 0 => Sound(job)'
    <3>1. CASE Ack(w)
      BY <1>f, <3>1 DEF Ack
    <3>2. CASE WorkerAbort(w)
      <4>1. PICK job \in Job : job = worker[w].job /\ Sound(job)
        BY <3>2, BusyType DEF WorkerAbort, Soundness, WorkerSound
      <4>2. Sound(job)'
        BY <4>1, SoundStays
      <4>. QED
        BY <1>f, <3>2, <4>1, <4>2 DEF WorkerAbort, Put, TypeOK
    <3>. QED
      BY <1>10, <3>1, <3>2
  <2>. QED
    BY <1>10, <1>f, <2>1, <2>2, <2>3 DEF Ack, WorkerAbort, Soundness
<1>11. ASSUME UNCHANGED vars PROVE Soundness'
  BY <1>11, <1>f DEF vars, Soundness
<1>. QED
  BY <1>1, <1>2, <1>3, <1>4, <1>5, <1>6, <1>7, <1>8, <1>9, <1>10, <1>11
     DEF Next, Upload, Replay, Continue, Work, Failure

\* The ordering of the upload (commit, then enqueue) protects every later step,
\* and tenants stay apart, whatever fails and whoever runs at the same time.
THEOREM OwnershipSafety == Spec => [](JobsNameStoredDocuments /\ TenantIsolation)
<1>1. Init => Soundness
  BY InitSoundness
<1>2. TypeOK /\ Soundness /\ [Next]_vars => Soundness'
  BY NextSoundness
<1>3. Soundness => JobsNameStoredDocuments /\ TenantIsolation
  BY SoundnessIsBoth
<1>. QED
  BY <1>1, <1>2, <1>3, TypeCorrectness, PTL DEF Spec

\* In particular no process handles a job before the commit that the job names.
THEOREM JobsSafety == Spec => []JobsNameStoredDocuments
  BY OwnershipSafety, PTL

-----------------------------------------------------------------------------
(* A document reported indexed is in the index                             *)

RowCounted(d) ==
    documents[d].status = "indexed" =>
        held[d].chunks >= ChunkCount[d] /\ documents[d].chunk_count = ChunkCount[d]

\* A worker finishes after indexing, and a chunk count it found right stays right.
WorkerCounted(w) ==
    /\ worker[w].pc = "finish" => held[DocOf(w)].chunks >= ChunkCount[DocOf(w)]
    /\ worker[w].pc \in {"index", "finish"} =>
         (worker[w].seen.chunk_count = ChunkCount[DocOf(w)] =>
             documents[DocOf(w)].chunk_count = ChunkCount[DocOf(w)])

Counted ==
    /\ \A d \in Doc : RowCounted(d)
    /\ \A w \in Worker : WorkerCounted(w)

\* What every step does to the row and the chunks of a stored document.
CountStays(d) ==
    /\ held'[d].chunks >= held[d].chunks
    /\ Stored(d) /\ documents[d].chunk_count = ChunkCount[d] =>
          documents'[d].chunk_count = ChunkCount[d]

\* The row after Finish, whether or not the worker learns of it.
LEMMA FinishCounts ==
    ASSUME TypeOK, Counted, NEW w \in Worker, Finish(w) \/ FinishReplyLost(w)
    PROVE  /\ \A d \in Doc : CountStays(d)
           /\ \A d \in Doc : RowCounted(d)'
<1>1. PICK x \in Doc : x = DocOf(w)
  BY BusyType DEF Finish, FinishReplyLost
<1>0. /\ worker[w].pc = "finish"
      /\ documents' = Written(x, worker[w].seen, "indexed", ChunkCount[x], FALSE)
  BY <1>1 DEF Finish, FinishReplyLost
<1>2. documents'[x].chunk_count = ChunkCount[x]
  BY <1>0, <1>1 DEF Written, TypeOK, Row, Counted, WorkerCounted
<1>3. held[x].chunks >= ChunkCount[x]
  BY <1>0, <1>1 DEF Counted, WorkerCounted
<1>4. \A d \in Doc : d # x => documents'[d] = documents[d]
  BY <1>0 DEF Written, TypeOK
<1>5. held' = held /\ \A d \in Doc : held[d].chunks \in Nat
  BY DEF TypeOK, Share, Finish, FinishReplyLost
<1>6. CountStays(x) /\ RowCounted(x)'
  BY <1>2, <1>3, <1>5 DEF RowCounted, CountStays
<1>7. \A d \in Doc : d # x => CountStays(d) /\ RowCounted(d)'
  BY <1>4, <1>5 DEF Counted, RowCounted, CountStays
<1>. QED
  BY <1>6, <1>7 DEF RowCounted, CountStays

\* The row after Mark: a status other than "indexed", or nothing new.
LEMMA MarkCounts ==
    ASSUME TypeOK, Counted, NEW w \in Worker, Mark(w)
    PROVE  /\ \A d \in Doc : CountStays(d)
           /\ \A d \in Doc : RowCounted(d)'
<1>1. PICK x \in Doc : x = DocOf(w)
  BY BusyType DEF Mark
<1>2. /\ documents'[x].chunk_count = documents[x].chunk_count
      /\ documents'[x].status \in {documents[x].status, "indexing"}
  BY <1>1 DEF Mark, Written, TypeOK, Row
<1>3. \A d \in Doc : d # x => documents'[d] = documents[d]
  BY <1>1 DEF Mark, Written, TypeOK
<1>4. held' = held /\ \A d \in Doc : held[d].chunks \in Nat
  BY DEF Mark, TypeOK, Share
<1>5. CountStays(x) /\ RowCounted(x)'
  BY <1>2, <1>4 DEF Counted, RowCounted, CountStays
<1>6. \A d \in Doc : d # x => CountStays(d) /\ RowCounted(d)'
  BY <1>3, <1>4 DEF Counted, RowCounted, CountStays
<1>. QED
  BY <1>5, <1>6 DEF RowCounted, CountStays

LEMMA NextCounts ==
    ASSUME TypeOK, Counted, [Next]_vars
    PROVE  /\ \A d \in Doc : CountStays(d)
           /\ \A d \in Doc : RowCounted(d)'
<1>t. \A d \in Doc : held[d].chunks \in Nat /\ ChunkCount[d] \in Nat
  BY ConstantsAssumption DEF TypeOK, Share
<1>1. ASSUME NEW a \in Api, NEW t \in Tenant, NEW x \in Doc, Store(a, t, x)
      PROVE  \A d \in Doc : CountStays(d) /\ RowCounted(d)'
  BY <1>1, <1>t DEF Store, CountStays, RowCounted, Counted, TypeOK, Stored, NoRow
<1>2. ASSUME NEW w \in Worker, Index(w) \/ IndexFails(w)
      PROVE  \A d \in Doc : CountStays(d) /\ RowCounted(d)'
  <2>1. PICK x \in Doc : x = DocOf(w)
    BY <1>2, BusyType DEF Index, IndexFails
  <2>2. PICK k \in Nat : held' = Indexed(x, k)
    BY <1>2, <1>t, <2>1 DEF Index, IndexFails
  <2>3. \A d \in Doc : held'[d].chunks >= held[d].chunks /\ held'[d].chunks \in Nat
    BY <2>2, IndexedType DEF TypeOK, Share
  <2>. QED
    BY <1>2, <1>t, <2>3 DEF Index, IndexFails, CountStays, RowCounted, Counted
<1>3. ASSUME NEW w \in Worker, Fail(w)
      PROVE  \A d \in Doc : CountStays(d) /\ RowCounted(d)'
  BY <1>3, <1>t DEF Fail, CountStays, RowCounted, Counted, TypeOK, Row
<1>4. ASSUME NEW w \in Worker, Finish(w) \/ FinishReplyLost(w)
      PROVE  \A d \in Doc : CountStays(d) /\ RowCounted(d)'
  BY <1>4, FinishCounts DEF Finish, FinishReplyLost
<1>5. ASSUME UNCHANGED <<documents, held>>
      PROVE  \A d \in Doc : CountStays(d) /\ RowCounted(d)'
  BY <1>5, <1>t DEF CountStays, RowCounted, Counted
<1>. QED
  BY <1>1, <1>2, <1>3, <1>4, <1>5, MarkCounts
     DEF Next, vars, Upload, Replay, Continue, Work, Failure, Enqueue, Find, Requeue, Delete,
         Resend, ApiAbort, Take, Load, Reload, Bury, Ack, Raise, BuryAgain, WorkerAbort

LEMMA InitCounted == Init => Counted
  BY DEF Init, Counted, RowCounted, WorkerCounted, NoRow, IdleWorker

\* A worker that keeps its place: what it knows of its document stays true.
LEMMA CountedFrame ==
    ASSUME TypeOK, Soundness, Counted, [Next]_vars, NEW w \in Worker, worker'[w] = worker[w]
    PROVE  WorkerCounted(w)'
<1>1. CASE worker[w].pc \notin {"index", "finish"}
  BY <1>1 DEF WorkerCounted
<1>2. CASE worker[w].pc \in {"index", "finish"}
  <2>1. PICK x \in Doc : x = DocOf(w) /\ x = DocOf(w)' /\ Stored(x)
    BY <1>2, BusyType DEF Soundness, WorkerSound, Past, DocOf
  <2>2. CountStays(x) /\ held[x].chunks \in Nat /\ held'[x].chunks \in Nat /\ ChunkCount[x] \in Nat
    BY <2>1, NextCounts, NextTypeOK, ConstantsAssumption DEF TypeOK, Share
  <2>3. WorkerCounted(w)
    BY DEF Counted
  <2>4. worker[w].pc = "finish" => held'[x].chunks >= ChunkCount[x]
    BY <2>1, <2>2, <2>3 DEF WorkerCounted, CountStays
  <2>5. worker[w].seen.chunk_count = ChunkCount[x] => documents'[x].chunk_count = ChunkCount[x]
    BY <1>2, <2>1, <2>2, <2>3 DEF WorkerCounted, CountStays
  <2>. QED
    BY <2>1, <2>4, <2>5 DEF WorkerCounted
<1>. QED
  BY <1>1, <1>2

LEMMA NextCounted == TypeOK /\ Soundness /\ Counted /\ [Next]_vars => Counted'
<1> SUFFICES ASSUME TypeOK, Soundness, Counted, [Next]_vars, NEW w \in Worker
             PROVE  WorkerCounted(w)'
  BY NextCounts DEF Counted
<1>1. CASE worker'[w].pc \notin {"index", "finish"}
  BY <1>1 DEF WorkerCounted
<1>2. CASE worker'[w] = worker[w]
  BY <1>2, CountedFrame
<1>3. CASE Reload(w)
  <2>1. PICK x : x = DocOf(w) /\ x = DocOf(w)'
    BY <1>3 DEF Reload, TypeOK, DocOf
  <2>3. worker'[w].pc # "finish" /\ worker'[w].seen = documents[x]
    BY <1>3, <2>1 DEF Reload, TypeOK
  <2>2. documents' = documents
    BY <1>3 DEF Reload
  <2>. QED
    BY <2>1, <2>2, <2>3 DEF WorkerCounted
<1>4. CASE Index(w)
  <2>1. PICK x \in Doc : x = DocOf(w) /\ x = DocOf(w)'
    BY <1>4, BusyType DEF Index, Goto, DocOf, TypeOK
  <2>2. held'[x].chunks >= ChunkCount[x]
    BY <1>4, <2>1, IndexedType, ConstantsAssumption DEF Index, TypeOK
  <2>3. documents' = documents /\ worker'[w].seen = worker[w].seen
    BY <1>4 DEF Index, Goto, TypeOK
  <2>. QED
    BY <1>4, <2>1, <2>2, <2>3 DEF Index, Counted, WorkerCounted
<1>5. ASSUME worker'[w].pc \in {"index", "finish"}, worker'[w] # worker[w] PROVE Reload(w) \/ Index(w)
  <2>1. ASSUME NEW a \in Api, Upload(a) \/ Replay(a) \/ Continue(a) \/ Resend(a) \/ ApiAbort(a) PROVE FALSE
    BY <1>5, <2>1 DEF Upload, Replay, Continue, Resend, ApiAbort, Store, Enqueue, Find, Requeue, Delete
  <2>2. ASSUME NEW v \in Worker, Work(v) \/ Failure(v) PROVE v = w
    BY <1>5, <2>2 DEF Work, Failure, Goto, TypeOK, Take, Load, Mark, Reload, Index, Finish, Fail,
                      Bury, Ack, Raise, IndexFails, FinishReplyLost, BuryAgain, WorkerAbort
  <2>3. worker'[w].pc \notin {"load", "mark", "reload", "fail", "ack", "idle"} \cup Stage
    BY <1>5 DEF Stage
  <2>4. ASSUME NEW pc, Goto(w, pc) PROVE worker'[w].pc = pc
    BY <2>4 DEF Goto, TypeOK
  <2>5. ASSUME worker' = [worker EXCEPT ![w] = IdleWorker] PROVE worker'[w].pc = "idle"
    BY <2>5 DEF TypeOK, IdleWorker
  <2>6. ~(\E job \in Job : Take(w, job)) /\ ~Load(w)
    BY <2>3 DEF Take, Load, TypeOK, Stage
  <2>7. ~Mark(w) /\ ~Finish(w) /\ ~Fail(w) /\ ~Bury(w) /\ ~Raise(w) /\ ~IndexFails(w) /\ ~FinishReplyLost(w)
    BY <2>3, <2>4 DEF Mark, Finish, Fail, Bury, Raise, IndexFails, FinishReplyLost, Stage
  <2>8. ~Ack(w) /\ ~WorkerAbort(w) /\ ~BuryAgain(w)
    BY <1>5, <2>3, <2>5 DEF Ack, WorkerAbort, BuryAgain
  <2>. QED
    BY <1>5, <2>1, <2>2, <2>6, <2>7, <2>8 DEF Next, vars, Work, Failure
<1>. QED
  BY <1>1, <1>2, <1>3, <1>4, <1>5

\* A document reported indexed has all its chunks in the index, and says how many,
\* with any number of workers on it, any duplicates of its job and any failures.
THEOREM IndexedSafety == Spec => []IndexedIsSearchable
<1>1. Counted => IndexedIsSearchable
  BY DEF Counted, RowCounted, IndexedIsSearchable
<1>. QED
  BY <1>1, InitTypeOK, NextTypeOK, InitSoundness, NextSoundness, InitCounted, NextCounted, PTL DEF Spec

-----------------------------------------------------------------------------
(* No stored document is silently lost                                     *)

\* Redis never gives an id twice, and a replay that has read an entry will delete
\* no other: the entry with that id is still a job of the same document.
Linked ==
    /\ \A e \in dlq : e.id <= dlqId
    /\ \A e, f \in dlq : e.id = f.id => e = f
    /\ \A a \in Api : api[a].pc \in {"requeue", "delete"} => api[a].id <= dlqId
    /\ \A a \in Api, e \in dlq :
          api[a].pc = "requeue" /\ e.id = api[a].id =>
              e.job.doc = api[a].job.doc /\ e.job.tenant = api[a].job.tenant

\* What the argument below needs of it; it is all that is left of Linked when ids are
\* given again (MemoryDLQProofs).
Points ==
    /\ \A a \in Api : api[a].pc = "delete" => api[a].id <= dlqId
    /\ \A a \in Api, e \in dlq :
          api[a].pc = "requeue" /\ e.id = api[a].id =>
              e.job.doc = api[a].job.doc /\ e.job.tenant = api[a].job.tenant

LEMMA LinkedPoints == Linked => Points
  BY DEF Linked, Points

LEMMA InitLinked == Init => Linked
  BY DEF Init, Linked, IdleApi

LEMMA NextLinked == TypeOK /\ Linked /\ [Next]_vars => Linked'
<1> SUFFICES ASSUME TypeOK, Linked, [Next]_vars PROVE Linked'
  OBVIOUS
<1>1. ASSUME NEW a \in Api, NEW t \in Tenant, NEW d \in Doc, Store(a, t, d) PROVE Linked'
  BY <1>1 DEF Store, Linked, TypeOK
<1>2. ASSUME NEW a \in Api, NEW t \in Tenant, NEW e \in dlq, Find(a, t, e) PROVE Linked'
  <2>1. api'[a].id = e.id /\ api'[a].job.doc = e.job.doc /\ api'[a].job.tenant = e.job.tenant
    <3>1. e.job \in Job /\ e.job.retry < MaxRetry
      BY <1>2 DEF Find, TypeOK, Entry
    <3>. QED
      BY <1>2, <3>1, RetriedType DEF Find, TypeOK
  <2>2. \A b \in Api : b # a => api'[b] = api[b]
    BY <1>2 DEF Find, TypeOK
  <2>. QED
    BY <1>2, <2>1, <2>2 DEF Find, Linked
<1>3. ASSUME NEW a \in Api, Enqueue(a) \/ Requeue(a) \/ Delete(a) \/ ApiAbort(a) PROVE Linked'
  <2>1. \A b \in Api : b # a => api'[b] = api[b]
    BY <1>3 DEF Enqueue, Requeue, Delete, ApiAbort, TypeOK
  <2>2. \/ api'[a].pc = "idle"
        \/ api[a].pc = "requeue" /\ api'[a].pc = "delete" /\ api'[a].id = api[a].id
    BY <1>3 DEF Enqueue, Requeue, Delete, ApiAbort, TypeOK, IdleApi
  <2>3. dlq' \subseteq dlq /\ dlqId' = dlqId
    BY <1>3 DEF Enqueue, Requeue, Delete, ApiAbort
  <2>. QED
    BY <2>1, <2>2, <2>3 DEF Linked
<1>4. ASSUME NEW w \in Worker, Bury(w) \/ BuryAgain(w) PROVE Linked'
  <2>1. PICK e : e = [id |-> dlqId + 1, job |-> worker[w].job, stage |-> worker[w].pc]
    OBVIOUS
  <2>2. dlq' = dlq \cup {e} /\ dlqId' = dlqId + 1 /\ e.id = dlqId + 1 /\ api' = api
    BY <1>4, <2>1 DEF Bury, BuryAgain
  <2>3. dlqId \in Nat /\ (\A f \in dlq : f.id \in Nat) /\ (\A a \in Api : api[a].id \in Nat)
    BY DEF TypeOK, Entry
  <2>. QED
    BY <2>2, <2>3 DEF Linked
<1>5. ASSUME UNCHANGED <<api, dlq, dlqId>> PROVE Linked'
  BY <1>5 DEF Linked
<1>. QED
  BY <1>1, <1>2, <1>3, <1>4, <1>5
     DEF Next, vars, Upload, Replay, Continue, Resend, Work, Failure, Take, Load, Mark, Reload, Index,
         Finish, Fail, Ack, Raise, IndexFails, FinishReplyLost, WorkerAbort

\* Ways for a stored document to be carried after a step.
LEMMA StillCarried ==
    ASSUME TypeOK, [Next]_vars, NEW d \in Doc, Stored(d)
    PROVE  /\ \A a \in Api : Uploads(a, d) /\ api'[a] = api[a] => Carried(d)'
           /\ \A job \in Job : JobOf(d, job) /\ stream'[job] > 0 => Carried(d)'
           /\ \A w \in Worker : Works(w, d) /\ worker'[w] = worker[w] => Carried(d)'
           /\ \A e \in dlq' :
                 JobOf(d, e.job) /\ (\A a \in Api : api'[a].pc = "delete" => api'[a].id # e.id)
                     => Carried(d)'
<1>1. documents'[d].tenant = documents[d].tenant
  BY RowsStay DEF RowStays
<1>2. \A a \in Api : Uploads(a, d) /\ api'[a] = api[a] => Carried(d)'
  BY <1>1 DEF Uploads, JobOf, Carried
<1>3. \A job \in Job : JobOf(d, job) /\ stream'[job] > 0 => Carried(d)'
  BY <1>1 DEF JobOf, Carried
<1>4. \A w \in Worker : Works(w, d) /\ worker'[w] = worker[w] => Carried(d)'
  BY <1>1 DEF Works, JobOf, Carried
<1>5. \A e \in dlq' :
         JobOf(d, e.job) /\ (\A a \in Api : api'[a].pc = "delete" => api'[a].id # e.id)
             => Carried(d)'
  BY <1>1 DEF Keeps, JobOf, Carried
<1>. QED
  BY <1>2, <1>3, <1>4, <1>5

\* A worker that goes on with a job of d carries d.
LEMMA GoesOn ==
    ASSUME TypeOK, [Next]_vars, NEW d \in Doc, Stored(d), NEW w \in Worker,
           NEW job \in Job, JobOf(d, job), worker'[w].job = job,
           \/ worker'[w].pc \in {"load", "mark", "reload", "fail"} \cup Stage
           \/ worker'[w].pc \in {"index", "finish"} /\ worker'[w].seen.status # "indexed"
    PROVE  Carried(d)'
<1>1. documents'[d].tenant = documents[d].tenant
  BY RowsStay DEF RowStays
<1>. QED
  BY <1>1 DEF Works, JobOf, Carried, Stage

\* A worker's step takes the job of d from nobody but the stream or itself.
LEMMA OthersCarry ==
    ASSUME TypeOK, [Next]_vars, NEW d \in Doc, Stored(d), Carried(d), NEW w \in Worker, ~Works(w, d),
           \A v \in Worker : v # w => worker'[v] = worker[v],
           \A job \in Job : stream[job] > 0 => stream'[job] > 0,
           api' = api, dlq \subseteq dlq'
    PROVE  Carried(d)'
  BY StillCarried DEF Carried, Keeps

\* A job of d at a worker past the tenant check, and nobody else's row.
LEMMA WorkerOnDoc ==
    ASSUME TypeOK, Soundness, NEW w \in Worker, worker[w].pc \in Past, NEW d \in Doc, DocOf(w) = d
    PROVE  /\ worker[w].job \in Job
           /\ JobOf(d, worker[w].job)
           /\ Stored(d)
<1>1. worker[w].pc # "idle"
  BY DEF Past
<1>. QED
  BY <1>1, BusyType DEF Soundness, WorkerSound, DocOf, JobOf

LEMMA ApiCarries ==
    ASSUME TypeOK, Points, NoSilentLoss, [Next]_vars, NEW d \in Doc,
           Stored(d)', documents'[d].status # "indexed", d \notin lost', NEW a \in Api,
           Upload(a) \/ Replay(a) \/ Continue(a) \/ Resend(a) \/ ApiAbort(a)
    PROVE  Carried(d)'
<1>o. ASSUME documents'[d] = documents[d], lost \subseteq lost' PROVE Stored(d) /\ Carried(d)
  BY <1>o DEF NoSilentLoss, Stored
<1>1. ASSUME NEW t \in Tenant, NEW x \in Doc, Store(a, t, x) PROVE Carried(d)'
  <2>1. CASE x = d
    BY <1>1, <2>1 DEF Store, Carried, Uploads, JobOf, TypeOK, NoRow
  <2>2. CASE x # d
    <3>1. Stored(d) /\ Carried(d)
      BY <1>1, <1>o, <2>2 DEF Store, TypeOK
    <3>2. \A b \in Api : b # a => api'[b] = api[b]
      BY <1>1 DEF Store, TypeOK
    <3>3. ~Uploads(a, d) /\ api'[a].pc # "delete"
      BY <1>1 DEF Store, Uploads, TypeOK
    <3>4. stream' = stream /\ worker' = worker /\ dlq' = dlq
      BY <1>1 DEF Store
    <3>. QED
      BY <3>1, <3>2, <3>3, <3>4, StillCarried DEF Carried, Keeps
  <2>. QED
    BY <2>1, <2>2
<1>2. CASE Enqueue(a)
  <2>1. Stored(d) /\ Carried(d)
    BY <1>2, <1>o DEF Enqueue
  <2>2. (\A b \in Api : b # a => api'[b] = api[b]) /\ api'[a].pc # "delete"
    BY <1>2 DEF Enqueue, TypeOK, IdleApi
  <2>3. api[a].job \in Job /\ stream'[api[a].job] > 0 /\ \A job \in Job : stream[job] > 0 => stream'[job] > 0
    BY <1>2 DEF Enqueue, Put, TypeOK
  <2>4. CASE Uploads(a, d)
    BY <2>1, <2>3, <2>4, StillCarried DEF Uploads
  <2>5. CASE ~Uploads(a, d)
    <3>1. worker' = worker /\ dlq' = dlq
      BY <1>2 DEF Enqueue
    <3>. QED
      BY <2>1, <2>2, <2>3, <2>5, <3>1, StillCarried DEF Carried, Keeps
  <2>. QED
    BY <2>4, <2>5
<1>3. ASSUME NEW t \in Tenant, NEW e \in dlq, Find(a, t, e) PROVE Carried(d)'
  <2>1. Stored(d) /\ Carried(d)
    BY <1>3, <1>o DEF Find
  <2>2. (\A b \in Api : b # a => api'[b] = api[b]) /\ api'[a].pc # "delete" /\ ~Uploads(a, d)
    BY <1>3 DEF Find, TypeOK, Uploads
  <2>3. stream' = stream /\ worker' = worker /\ dlq' = dlq
    BY <1>3 DEF Find
  <2>. QED
    BY <2>1, <2>2, <2>3, StillCarried DEF Carried, Keeps
<1>4. CASE Requeue(a)
  <2>1. Stored(d) /\ Carried(d)
    BY <1>4, <1>o DEF Requeue
  <2>2. (\A b \in Api : b # a => api'[b] = api[b]) /\ api'[a].id = api[a].id /\ ~Uploads(a, d)
    BY <1>4 DEF Requeue, TypeOK, Uploads
  <2>3. api[a].job \in Job /\ stream'[api[a].job] > 0 /\ \A job \in Job : stream[job] > 0 => stream'[job] > 0
    BY <1>4 DEF Requeue, Put, TypeOK
  <2>4. worker' = worker /\ dlq' = dlq
    BY <1>4 DEF Requeue
  <2>5. ASSUME NEW e \in dlq, Keeps(e, d) PROVE Carried(d)'
    <3>1. CASE e.id = api[a].id
      <4>1. JobOf(d, api[a].job)
        BY <1>4, <2>5, <3>1 DEF Points, Keeps, JobOf, Requeue
      <4>. QED
        BY <2>1, <2>3, <4>1, StillCarried
    <3>2. CASE e.id # api[a].id
      BY <2>1, <2>2, <2>4, <2>5, <3>2, StillCarried DEF Keeps
    <3>. QED
      BY <3>1, <3>2
  <2>. QED
    BY <2>1, <2>2, <2>3, <2>4, <2>5, StillCarried DEF Carried
<1>5. CASE Delete(a)
  <2>1. Stored(d) /\ Carried(d)
    BY <1>5, <1>o DEF Delete
  <2>2. (\A b \in Api : b # a => api'[b] = api[b]) /\ api'[a].pc # "delete" /\ ~Uploads(a, d)
    BY <1>5 DEF Delete, TypeOK, IdleApi, Uploads
  <2>3. stream' = stream /\ worker' = worker
    BY <1>5 DEF Delete
  <2>4. \A e \in dlq : Keeps(e, d) => e \in dlq'
    BY <1>5 DEF Delete, Keeps
  <2>. QED
    BY <2>1, <2>2, <2>3, <2>4, StillCarried DEF Carried, Keeps
<1>6. CASE ApiAbort(a)
  <2>1. Stored(d) /\ Carried(d)
    BY <1>6, <1>o DEF ApiAbort
  <2>2. (\A b \in Api : b # a => api'[b] = api[b]) /\ api'[a].pc # "delete"
    BY <1>6 DEF ApiAbort, TypeOK, IdleApi
  <2>3. ~Uploads(a, d)
    BY <1>6 DEF ApiAbort, Uploads, JobOf
  <2>4. stream' = stream /\ worker' = worker /\ dlq' = dlq
    BY <1>6 DEF ApiAbort
  <2>. QED
    BY <2>1, <2>2, <2>3, <2>4, StillCarried DEF Carried, Keeps
<1>7. CASE Resend(a)
  <2>1. Stored(d) /\ Carried(d)
    BY <1>7, <1>o DEF Resend
  <2>2. \A job \in Job : stream[job] > 0 => stream'[job] > 0
    BY <1>7 DEF Resend, Put, TypeOK
  <2>3. api' = api /\ worker' = worker /\ dlq' = dlq
    BY <1>7 DEF Resend
  <2>. QED
    BY <2>1, <2>2, <2>3, StillCarried DEF Carried, Keeps
<1>. QED
  BY <1>1, <1>2, <1>3, <1>4, <1>5, <1>6, <1>7 DEF Upload, Replay, Continue

LEMMA WorkerCarries ==
    ASSUME TypeOK, Soundness, Points, NoSilentLoss, [Next]_vars, NEW d \in Doc,
           Stored(d)', documents'[d].status # "indexed", d \notin lost', NEW w \in Worker,
           Work(w) \/ Failure(w)
    PROVE  Carried(d)'
<1>o. ASSUME documents'[d] = documents[d], lost \subseteq lost' PROVE Stored(d) /\ Carried(d)
  BY <1>o DEF NoSilentLoss, Stored
<1>v. \A v \in Worker : v # w => worker'[v] = worker[v]
  BY DEF Work, Failure, Goto, TypeOK, Take, Load, Mark, Reload, Index, Finish, Fail, Bury, Ack,
         Raise, IndexFails, FinishReplyLost, BuryAgain, WorkerAbort
<1>a. api' = api /\ lost \subseteq lost' /\ dlq \subseteq dlq'
  BY DEF Work, Failure, Take, Load, Mark, Reload, Index, Finish, Fail, Bury, Ack,
         Raise, IndexFails, FinishReplyLost, BuryAgain, WorkerAbort
<1>g. ASSUME NEW pc, Goto(w, pc)
      PROVE  worker'[w].pc = pc /\ worker'[w].job = worker[w].job /\ worker'[w].seen = worker[w].seen
  BY <1>g DEF Goto, TypeOK
<1>w. ASSUME Works(w, d) PROVE worker[w].job \in Job /\ JobOf(d, worker[w].job) /\ DocOf(w) = d
  BY <1>w, BusyType DEF Works, Stage, DocOf, JobOf
<1>1. ASSUME NEW job \in Job, Take(w, job) PROVE Carried(d)'
  <2>1. Stored(d) /\ Carried(d)
    BY <1>1, <1>a, <1>o DEF Take
  <2>2. worker'[w].pc = "load" /\ worker'[w].job = job /\ ~Works(w, d)
    BY <1>1 DEF Take, TypeOK, Works, Stage
  <2>3. CASE JobOf(d, job)
    BY <2>1, <2>2, <2>3, GoesOn
  <2>4. CASE ~JobOf(d, job)
    <3>1. \A j \in Job : j # job => stream'[j] = stream[j]
      BY <1>1 DEF Take, TypeOK
    <3>2. dlq' = dlq
      BY <1>1 DEF Take
    <3>. QED
      BY <1>a, <1>v, <2>1, <2>2, <2>4, <3>1, <3>2, StillCarried DEF Carried, Keeps
  <2>. QED
    BY <2>3, <2>4
<1>2. CASE Load(w) \/ Reload(w)
  <2>1. Stored(d) /\ Carried(d) /\ documents' = documents /\ stream' = stream
    BY <1>2, <1>a, <1>o DEF Load, Reload
  <2>2. CASE Works(w, d)
    <3>1. PICK job \in Job : job = worker[w].job /\ JobOf(d, job) /\ DocOf(w) = d
      BY <1>w, <2>2
    <3>2. /\ worker'[w].job = job
          /\ \/ worker'[w].pc \in {"mark", "load_document", "fail"}
             \/ worker'[w].pc = "index" /\ worker'[w].seen = documents[d]
      BY <1>2, <3>1 DEF Load, Reload, TypeOK
    <3>. QED
      BY <2>1, <3>1, <3>2, GoesOn DEF Stage
  <2>3. CASE ~Works(w, d)
    BY <1>a, <1>v, <2>1, <2>3, OthersCarry
  <2>. QED
    BY <2>2, <2>3
<1>3. ASSUME NEW pc \in {"reload", "fail", "index_document"}, Goto(w, pc), worker[w].pc \in Past,
             stream' = stream, \A x \in Doc : x # DocOf(w) => documents'[x] = documents[x]
      PROVE  Carried(d)'
  <2>1. CASE DocOf(w) = d
    <3>1. PICK job \in Job : job = worker[w].job /\ JobOf(d, job) /\ Stored(d)
      BY <1>3, <2>1, WorkerOnDoc
    <3>. QED
      BY <1>3, <1>g, <3>1, GoesOn DEF Stage
  <2>2. CASE DocOf(w) # d
    <3>1. Stored(d) /\ Carried(d) /\ ~Works(w, d)
      BY <1>3, <1>a, <1>o, <1>w, <2>2
    <3>. QED
      BY <1>3, <1>a, <1>v, <3>1, OthersCarry
  <2>. QED
    BY <2>1, <2>2
<1>4. CASE Mark(w) \/ Fail(w) \/ Raise(w) \/ IndexFails(w) \/ FinishReplyLost(w)
  <2>1. \A x \in Doc : x # DocOf(w) => documents'[x] = documents[x]
    BY <1>4 DEF Mark, Fail, Raise, IndexFails, FinishReplyLost, Written, TypeOK
  <2>. QED
    BY <1>3, <1>4, <2>1 DEF Mark, Fail, Raise, IndexFails, FinishReplyLost, Past
<1>5. CASE Index(w)
  <2>1. Stored(d) /\ Carried(d) /\ stream' = stream
    BY <1>5, <1>a, <1>o DEF Index
  <2>2. CASE Works(w, d)
    <3>1. PICK job \in Job : job = worker[w].job /\ JobOf(d, job)
      BY <1>w, <2>2
    <3>2. worker'[w].pc = "finish" /\ worker'[w].job = job /\ worker'[w].seen.status # "indexed"
      BY <1>5, <1>g, <2>2, <3>1 DEF Index, Works
    <3>. QED
      BY <2>1, <3>1, <3>2, GoesOn
  <2>3. CASE ~Works(w, d)
    BY <1>a, <1>v, <2>1, <2>3, OthersCarry
  <2>. QED
    BY <2>2, <2>3
<1>6. CASE Finish(w)
  <2>1. PICK x \in Doc : x = DocOf(w) /\ Stored(x)
    BY <1>6, BusyType DEF Finish, Soundness, WorkerSound, Past
  <2>2. documents' = Written(x, worker[w].seen, "indexed", ChunkCount[x], FALSE)
    BY <1>6, <2>1 DEF Finish
  <2>3. documents'[d].status = documents[d].status /\ ~Works(w, d)
    <3>1. CASE x = d
      <4>1. worker[w].seen.status = "indexed"
        BY <2>2, <3>1 DEF Written, TypeOK, Row
      <4>2. documents'[d].status = documents[d].status
        BY <2>2, <3>1, <4>1 DEF Written, TypeOK, Row
      <4>. QED
        BY <1>6, <4>1, <4>2 DEF Finish, Works
    <3>2. CASE x # d
      BY <1>w, <2>1, <2>2, <3>2 DEF Written, TypeOK
    <3>. QED
      BY <3>1, <3>2
  <2>4. Stored(d) /\ Carried(d)
    BY <1>a, <2>3 DEF NoSilentLoss, Stored
  <2>5. stream' = stream
    BY <1>6 DEF Finish
  <2>. QED
    BY <1>a, <1>v, <2>3, <2>4, <2>5, OthersCarry
<1>7. CASE Bury(w)
  <2>1. Stored(d) /\ Carried(d) /\ stream' = stream
    BY <1>7, <1>a, <1>o DEF Bury
  <2>2. CASE Works(w, d)
    <3>1. PICK e : e = [id |-> dlqId + 1, job |-> worker[w].job, stage |-> worker[w].pc]
      OBVIOUS
    <3>2. e \in dlq' /\ e.id = dlqId + 1 /\ JobOf(d, e.job)
      BY <1>7, <1>w, <2>2, <3>1 DEF Bury
    <3>3. \A a \in Api : api'[a].pc = "delete" => api'[a].id # e.id
      BY <1>a, <3>2 DEF Points, TypeOK
    <3>. QED
      BY <2>1, <3>2, <3>3, StillCarried
  <2>3. CASE ~Works(w, d)
    BY <1>a, <1>v, <2>1, <2>3, OthersCarry
  <2>. QED
    BY <2>2, <2>3
<1>10. CASE BuryAgain(w)
  <2>1. Stored(d) /\ Carried(d)
    BY <1>10, <1>a, <1>o DEF BuryAgain
  <2>2. worker' = worker /\ stream' = stream
    BY <1>10 DEF BuryAgain
  <2>. QED
    BY <1>a, <2>1, <2>2, StillCarried DEF Carried, Keeps
<1>8. CASE Ack(w)
  <2>1. Stored(d) /\ Carried(d) /\ stream' = stream /\ ~Works(w, d)
    BY <1>8, <1>a, <1>o DEF Ack, Works, Stage
  <2>. QED
    BY <1>a, <1>v, <2>1, OthersCarry
<1>9. CASE WorkerAbort(w)
  <2>1. Stored(d) /\ Carried(d)
    BY <1>9, <1>a, <1>o DEF WorkerAbort
  <2>2. worker[w].job \in Job
    BY <1>9, BusyType DEF WorkerAbort
  <2>3. \A job \in Job : stream[job] > 0 => stream'[job] > 0
    BY <1>9, <2>2 DEF WorkerAbort, Put, TypeOK
  <2>4. CASE Works(w, d) /\ AckLate
    <3>1. PICK job \in Job : job = worker[w].job /\ JobOf(d, job)
      BY <1>w, <2>4
    <3>2. stream'[job] > 0
      BY <1>9, <2>4, <3>1 DEF WorkerAbort, Put, TypeOK
    <3>. QED
      BY <2>1, <3>1, <3>2, StillCarried
  <2>5. ~(Works(w, d) /\ ~AckLate)
    <3> SUFFICES ASSUME Works(w, d), ~AckLate PROVE FALSE
      OBVIOUS
    <3>1. worker[w].pc # "ack" /\ worker[w].job.doc = d
      BY DEF Works, JobOf, Stage
    <3>. QED
      BY <1>9, <3>1 DEF WorkerAbort
  <2>6. CASE ~Works(w, d)
    BY <1>a, <1>v, <2>1, <2>3, <2>6, OthersCarry
  <2>. QED
    BY <2>4, <2>5, <2>6
<1>. QED
  BY <1>1, <1>2, <1>4, <1>5, <1>6, <1>7, <1>8, <1>9, <1>10 DEF Work, Failure

LEMMA InitNoSilentLoss == Init => NoSilentLoss
  BY DEF Init, NoSilentLoss, Stored, NoRow

LEMMA NextNoSilentLoss ==
    TypeOK /\ Soundness /\ Points /\ NoSilentLoss /\ [Next]_vars => NoSilentLoss'
<1> SUFFICES ASSUME TypeOK, Soundness, Points, NoSilentLoss, [Next]_vars, NEW d \in Doc,
                    Stored(d)', documents'[d].status # "indexed", d \notin lost'
             PROVE  Carried(d)'
  BY DEF NoSilentLoss
<1>1. CASE UNCHANGED vars
  <2>1. Stored(d) /\ Carried(d)
    BY <1>1 DEF vars, NoSilentLoss, Stored
  <2>. QED
    BY <1>1, <2>1, StillCarried DEF vars, Carried, Keeps
<1>2. CASE Next
  BY <1>2, ApiCarries, WorkerCarries DEF Next
<1>. QED
  BY <1>1, <1>2

\* No interleaving of uploads, workers, redeliveries and replays drops the job of
\* a stored document: only a process that dies as its single holder can.
THEOREM LossSafety == Spec => []NoSilentLoss
  BY InitTypeOK, NextTypeOK, InitSoundness, NextSoundness, InitLinked, NextLinked, LinkedPoints,
     InitNoSilentLoss, NextNoSilentLoss, PTL DEF Spec
=============================================================================
