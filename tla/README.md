# A TLA+ verification of agentops-rag

agentops-rag is a multi-tenant document question-answering service: text is
uploaded, chunked and indexed in the background, and questions are answered from
the tenant's own chunks with citations, or refused. This directory models the parts
of it whose behaviour depends on order, failure or arithmetic at a boundary, checks
them with TLC on small instances, and proves the most important safety properties
with TLAPS for every value of the constants.

## 1. The system

| Component | State it keeps | Operations | Talks to |
|---|---|---|---|
| Documents API (`app/api/routes_documents.py`) | rows of `documents` in Postgres | upload; list and get only read | Postgres, then the ingestion stream |
| Ingestion queue (`app/ingestion/pipeline.py`) | the Redis stream of jobs | `enqueue` (XADD) | read by a consumer that is not in the repository |
| Worker (`app/workers/ingestion_worker.py`) | none of its own | `process_ingestion_job` | Postgres, the chunk index, the DLQ |
| Dead-letter queue (`app/workers/dlq.py`, `app/api/routes_admin.py`) | the Redis stream of dead jobs | `write`, `list`, `replay` | the ingestion stream |
| Chunker (`app/ingestion/chunker.py`) | none (a loop) | `chunk_text` | called by the worker |
| Rate limiter (`app/rate_limit/`) | one sorted set and expiry per tenant and endpoint | `check`, the FastAPI dependency | Redis, in front of three endpoints |
| Agent runtime (`app/agents/`) | local to a run | planner, drafter, critic, finalizer | hybrid retrieval |
| Hybrid retrieval (`app/retrieval/`) | the chunk index | `bm25_search`, `vector_search`, `fuse_hits`, `index_chunk(s)` | OpenSearch or memory |
| Ask API (`app/api/routes_ask.py`) | a new runtime and index per request | `ask` | agent runtime |
| Evaluation (`app/evals/`, `scripts/run_eval.py`) | results so far | load, ask, score, report | agent runtime |
| Benchmark (`scripts/benchmark.py`) | a counter, the measured latencies, a semaphore | one task per request, report | agent runtime |
| Auth, scripts, shell | none that matters here | stateless helpers, wiring | all of the above |

What makes them hard:

* **Ingestion** writes to three stores (Postgres, Redis, the index), each of which
  commits on its own. There is no transaction over two of them: every line between
  two commits is a place to fail, a redelivered or resent job runs twice, and two
  workers on one row mix their updates column by column, since SQLAlchemy writes only
  what differs from what it read. Correct means: no job outruns its row or touches
  another tenant's; *indexed* implies searchable; *not indexed* implies that some job
  is still there; and all get indexed once failures stop.
* **The rate limiter** stamps a request with the clock of an API process and judges
  it later in Redis. Correct means: the quota holds, the set stays small, a promised
  reset time is kept and a refusal is deserved, up to the clocks' differences.
* **The chunker** is boundary arithmetic. Correct means: no text is lost, phrases up
  to the overlap stay whole, and the loop ends.
* **Answering** awaits the index twice while others write to it, then fuses two
  rankings. Correct means: what is cited was indexed, for this tenant; what is quoted
  is cited; the fusion respects what both rankings agree on; the critic refuses what
  it should and nothing else.
* **Evaluation and benchmark** turn answers into verdicts. Correct means: a case passes
  exactly when the response is what it expects, fractions and empty lists
  notwithstanding; a report accounts for every case and request, failed ones included;
  the percentiles are right; and the benchmark ends.

PROJECT.json lists every hazard at its line with the properties that cover it.

## 2. Modules

| Module | Models | Proofs | Instances |
|---|---|---|---|
| `Ingestion` | upload, stream, worker, RedisDLQ, replay | `IngestionProofs` | `MCIngestion` |
| `MemoryDLQ`, extends `Ingestion` | the same with `InMemoryDLQ` or `RedisDLQ` | `MemoryDLQProofs` | `MCMemoryDLQ` |
| `Quota` | ABSTRACT: what any rate limiter promises | | |
| `RateLimit`, implements `Quota` | dependency, Redis limiter, Lua script | `RateLimitProofs` | |
| `Limiters`, extends `RateLimit`, implements `Quota` | the service with the Redis or the in-memory limiter | `LimitersProofs` | `MCRateLimit` |
| `Chunker` | `chunk_text` | `ChunkerProofs` | `MCChunker` |
| `AgentRuntime` | `AgentRuntime.run`, `hybrid_search`, both search indexes | `AgentRuntimeProofs`, `FusionProofs` | `MCAgentRuntime` |
| `AskApi`, extends `AgentRuntime` | `POST /ask` beside the corpus that workers fill | | `MCAskApi` |
| `Percentile` | `percentile` of metrics and benchmark, and its definition | `HarnessProofs` | |
| `Evals`, extends `AgentRuntime`, `Percentile` | `run_eval.py`, the eval runner and its metrics | `HarnessProofs` | `MCHarness` |
| `Benchmark`, extends `AgentRuntime`, `Percentile` | `benchmark.py` | `HarnessProofs` | `MCHarness` |

Each module also holds a few operators marked PLAUSIBLE BUG: variants of a definition
that a slip of the programmer could produce. They are not part of the specification;
each property was seen to fail with one of them in place of the right definition.

### Ingestion

*State.* `documents` (tenant, status, chunk count, whether there is an error message),
`stream` (a bag of jobs), `held` (of each document, how many different chunks the index
holds and whether it holds any of them twice; what a run indexes are always the first
chunks, so two runs have the shorter one's in common, and the index appends),
`dlq` with Redis's entry ids, what each API process and each worker is doing, the
number of failures so far, and the history variable `lost`.

*Actions.* One per stretch of code between two commits. The upload is `Store`, then
`Enqueue`; replay is `Find`, `Requeue`, `Delete`; `process_ingestion_job` is `Load`,
`Mark`, `Reload`, `Index`, `Finish`, or `Fail` and `Bury`. `Take` and `Ack` are the
consumer, which the repository does not have: `AckLate` says whether a job is removed
before it runs (as `InMemoryIngestionQueue.pop_all` does) or acknowledged afterwards
(as a Redis consumer group would).

*Failures.* Any call of Postgres, Redis or the index may raise (`Raise`, `IndexFails`,
`ApiAbort`, `WorkerAbort`), a process may die anywhere, and a call may take effect and
lose its reply. That last case is the effect followed by an error at the next step,
so it needs an action only for the worker's last commit (`FinishReplyLost`) and for XADD,
which a redis client that retries sends again (`Resend`, `BuryAgain`). Index errors
leave a prefix of the chunks.

*The row.* `Written` is the UPDATE of SQLAlchemy's unit of work: only the attributes
whose new value differs from the loaded one. `Reload` is the SELECT that the first
access after `db.commit()` causes, since a commit expires the attributes. After
`db.rollback()` the old values are unknown, so `Fail` writes unconditionally.

### MemoryDLQ

`EitherSpec` is the system of `Ingestion` with the dead-letter queue chosen at the start.
With `InMemoryDLQ`, `entries` is its list and `dlq` the set of its members;
`WriteInMemory` numbers an entry by the length of the list, `ReplayInMemory` finds the
first entry with the id and the caller's tenant, pops it and enqueues its job, in one
step, since the class is used with the in-memory queue in one process, where nothing
comes in between and neither call can fail. The history variable `replayed` keeps who
asked for which id in that step and which job was the answer. A worker's dead letter goes to the chosen queue only: `Bury` and
`BuryAgain`, which write to the Redis stream, are steps of the service with `RedisDLQ`.
As list and in-memory queue are as durable as their process, the run has neither Redis
failures nor crashes.

### RateLimit

One key, since tenants and endpoints have separate keys. `ReadClock` is the client half of
`check`; `Admit` and `Deny` are the Lua script, which Redis runs atomically, with the
dependency's answer; `LoseReply` is a script whose reply is lost, with the request sent
again or given up; `RaiseRedisError` is the `except RedisError` clause, which
serves on `/ask` and answers 503 elsewhere. The run has an endpoint that fails closed
(`FailOpen` is FALSE). The theorems hold for both policies, and `Refinement` and
`EitherRefinement` say what an outage does under either: it ends its own request without a
place in the window and takes no place from another. `Ahead` and `Late` bound how far a stamp may
be ahead of and behind Redis's clock when the script runs. The X-RateLimit-Reset header
rounds `reset_time` down to a second, so a client that goes by it alone may come back
up to a second too soon; it is left out.

### Quota and Limiters

`Quota` is the promise without sets, deques, stamps or expiry: `Admit` when fewer than
`Limit` requests were served in the last window and no promised time is still to come,
`Deny` when `Limit` requests took a place in it, `Waste` for a place whose request did
not get its answer, `GiveUp` for an outage. `Lead` and `Slack` are what clocks may cost.
`RateLimit` implements it under the mapping of `ImplementsQuota` (a request is `waiting`
until its fate is known; it was `placed` when the script last added it). `Limiters` adds
`InMemoryRateLimiter`: its deque drops from the left only, so when its process's clock
is set back it may be out of order, and it still implements `Quota`, for every positive
limit. With a limit of zero `check` raises IndexError; that request ends in `error`.

### Chunker

`Enter` is the code before the loop, `Cut` one iteration. A character is a letter or
white space. A chunk body is the set of positions it holds in the normalised text.

### AgentRuntime

`Refuse` and `Retrieve` are the planner's two kinds of decision, `Bm25Search` the first
awaited search, `VectorSearch` the second with everything after it, which never awaits:
fusion, draft, critic, finalizer. `Fail` is a search that raises (500). `IndexChunk` is
a write becoming visible at any moment; with `InMemorySearchIndex`, whose methods never
suspend, it cannot fall between two searches. Which chunks match and with which scores
is left open, as far as the tenant filter, `top_k`, and the sign of scores allow.
`openSearch` is the kind of index the runtime was given: the two differ in what the vector
search returns. A text is its set of tokens and the set of meaningful tokens of its quote,
the last of which `short_quote` may have cut. Scores are integers: `Fused` is
`fused_score` multiplied by the sum of weights and both spreads, which changes no
comparison. The report of unsupported tokens is not cut at five.

### AskApi, Evals, Benchmark

All three drive the actions of `AgentRuntime`. `AskApi` serves them from indexes that are
empty for every request, as `get_agent_runtime` does, beside the `corpus` that ingestion
fills.

`Evals` is `run_eval.py`: `Build` the demo index, `Load` the dataset (an invalid line
ends the program), then for each case the steps of its run and `ScoreCase`, and
`WriteReport`. Scores are integers out of `Unit`, rounded down. `Ratio` rounds no partial
score up to a perfect one; the other way, `EvalAssumption` wants a unit large enough (13
words of a refusal times the number of cases) that the mean of the claim rates is not
rounded to zero when one of them is positive. The instance has `Unit` = 78, a multiple
of every denominator too (2 terms, 2 documents or citations, 13 words, 3 cases). A dataset
has at most as many cases as there are requests, numbered from 1. `Shown` stands for `answer.lower()`:
expected terms are words of texts, not of the fixed sentence around the quotes.

`Benchmark` has one task at a time: neither `FakeEmbeddingClient` nor
`InMemorySearchIndex` suspends, so a task that got its permit runs to its end before
another starts, whatever `--concurrency` says. `Acquire` is the semaphore, `RunTask` the
awaited run, `Count` the counter with the finally clause and the release.
`rate_limit_block_rate` is the constant 0.0 and left out.

`Percentile` computes in hundredths, so that interpolation stays exact. `IsPercentile` is
what it is checked against: the height, at p, of the line through the ordered values.

## 3. What is checked

| Run | Instance | Shows |
|---|---|---|
| `ingest_safety` | 1 document of 2 chunks, 2 workers, 2 API processes, redelivery, 3 failures of any kind, 2 retries | `TypeOK`, `IndexedIsSearchable`, `NoSilentLoss` |
| `ingest_tenants` | 2 tenants, 2 documents (one blank), either DLQ, 1 worker, 1 API process, stray jobs, removal before running, 2 failures | `JobsNameStoredDocuments`, `TenantIsolation`, `OneJobPerDocument`, `RowIsCoherent`, `NoSilentLoss`, `ReplayMovesOneEntry`, `ReplaysStayInTenant`, `OnlyReplaysRepeat` |
| `ingest_recovery` | 1 document, 2 workers, 1 API process, redelivery, 2 failures of any kind; fairness | `EventuallyAllIndexed` |
| `ingest_stranded` | a single Redis failure | `FailuresAreReplayable` is violated |
| `ingest_failed_chunks` | index failures only | `FailedHasNoChunks` is violated |
| `limit_clocks` | either limiter, 4 requests, limit 2, window 4, clocks 1 ahead and 1 late, 6 ticks, endpoint that fails closed | `TypeOK`, `QuotaHolds`, `StorageBounded`, `NoEarlyAdmission`, `DenialIsJustified`, `ResetLeavesRoom`, `ImplementsQuota` |
| `chunk_texts` | every text of up to 7 characters, sizes -1 to 4 | `TypeOK`, `PhrasesStayWhole`, `ChunksFit`, `NothingLost`, `ChunksBringText`, `WindowsAdvance` |
| `ask_answers` | 1 run, 3 chunks of one tenant and 1 of another, 3 texts, top_k 2, 4 writes, both indexes | `TypeOK`, `CitationsWereIndexed`, `AnswersAreCited`, `DominanceRespected`, `AnswersWhenItCan`, `RefusesInMemory` |
| `ask_unsupported` | as above, 2 writes | `UnsupportedIsReported` is violated |
| `ask_evidence` | as above, 2 writes | `RefusesWithoutEvidence` is violated |
| `ask_empty` | `POST /ask`, 2 writes to the corpus | `AsksSearchTheCorpus` is violated |
| `harness_reports` | the eval runner over 11 datasets and 3 corpora, or the benchmark with 3 requests and 2 permits | `PassedMeansExpected`, `PassesStayInTenant`, `ReportAddsUp`, `LatenciesAreRanked`, `SummaryAddsUp`, `BenchmarkEnds` |

**Why these bounds.** Documents only meet in the queues, so one shows every race on
a row; two workers and two API processes are needed for a race, and three would
add no new kind of one. Two chunks let an index call stop half-way. Three failures reach
a duplicate job (one) that fails (two) and whose dead-letter write fails (three).
`ingest_tenants` uses one worker and one API process because `OneJobPerDocument` and
`RowIsCoherent` claim nothing for duplicated jobs: they say that replay alone never makes
two jobs of one. Two documents and two tenants also give an id of the list to entries of
both. Four requests with limit 2 fill the window, are refused and get in
again; seven ticks let a window of four pass. Seven characters allow three windows with
overlap and white space at any place. Three chunks are one more than `top_k`, and four
writes fill the index and rewrite a chunk between the searches of one run; runs share
nothing but the index, so one is enough. Its symmetry, and that of the other runs,
permutes elements that only equality tells apart. The datasets of `harness_reports` are
empty, end early, or put two cases in a row, each of which can pass and can fail (an
expected document missing, cited twice or another tenant's; no expectation at all; a
refusal, right or wrong); with three requests for two permits a permit must come back.
`HarnessInit` chooses one of the two tools; the variables of the other stay as they are.

**Deadlock.** The counters are bounded and every system here may come to rest (no jobs,
no requests, a returned call), so the runs do not look for deadlock.

**Fairness.** `FairSpec` assumes weak fairness of each worker's own steps, of handlers
in progress (FastAPI runs a handler that has started) and of `Replay`. Workers as a
running consumer loop and an operator who keeps replaying dead jobs are
assumptions about the deployment: the repository provides neither, and without them nothing
is ever indexed. `HarnessSpec` assumes weak fairness of the next step: both tools are
sequential programs on one event loop. No failure and no upload is ever forced. Weak fairness suffices, as each of
these, once enabled, stays enabled until it is taken by someone.

**Where the code departs from its documents.**

1. `ingest_stranded`: a failing XADD, after the row was committed
   (`routes_documents.py:54` and `68`), leaves a pending document without a job or a
   dead-letter entry; README.md:211 calls ingestion failures replayable. `NoSilentLoss`
   states exactly what does hold: nothing else loses a document.
2. `ingest_failed_chunks`: a document that was indexed and then fails in a second run keeps
   its chunk count; `failure_cases/ingestion_failure.md` says it remains zero.
3. `ask_unsupported`: the critic finds unsupported tokens and drops them, with
   `supported=True`, up to 65% of the answer; `failure_cases/unsupported_answer.md` says
   it reports them. A quote cut in a word is enough.
4. `ask_evidence`: with `OpenSearchIndex` a question that nothing in the corpus
   has to do with is answered from the corpus; `docs/eval-methodology.md` says it is
   refused. `RefusesInMemory` shows that `InMemorySearchIndex` does not do this.
5. `ask_empty`: `get_agent_runtime` (`routes_ask.py:22`) gives every request an index of
   its own, so an ask finds nothing of what was ingested; README.md:64 draws the
   OpenSearch index there.

One wish of the documents is met only in part. `failure_cases/ingestion_failure.md:27`
lists, among the things to fix or mitigate, to keep ingestion idempotent. `InMemoryChunkIndex`
(`ingestion_worker.py:25`), the one `ChunkIndex` of the repository, appends, so a job that
stopped after it had indexed chunks leaves them twice when it is replayed. Two things do hold:
no chunk of an indexed document is missing (`IndexedIsSearchable`), and a chunk comes twice
by a replay only (`OnlyReplaysRepeat`), where no job is delivered twice.

## 4. What is proved

All theorems hold for every value of the constants, from the named assumptions of the
modules (`ConstantsAssumption`, `CharacterAssumption`, `EvalAssumption`,
`BenchmarkAssumption`) and the library's facts on finite sets and well-founded relations
alone. The further hypotheses are `Limit > 0` in `EitherRefinement` of `LimitersProofs` and those of the last four
theorems of `MemoryDLQProofs`, given there.

* **`IngestionProofs`.** `TypeCorrectness`, first. `OwnershipSafety` and `JobsSafety`
  (jobs are sound and tenants isolated) need an invariant that also says of every handler
  and worker, at each point of its code, what it knows of the row, because a worker past
  `db.get` relies on a tenant that nobody changes. `IndexedSafety`: `IndexedIsSearchable`
  is not inductive, as a row may become indexed by an UPDATE that writes only part of the
  columns; the strengthening says what each worker's memory (`seen`) implies about the
  count in the row and the index. `LossSafety`: `NoSilentLoss` needs to know
  which dead-letter entry a replay in progress is about to delete, and that its job
  is already on the stream; what each worker saw of the row decides whether it still
  counts as holding a job. Each action that gives up a job is then shown to leave another
  holder, to have indexed the document or to have recorded it in `lost`. What it needs of
  the ids is stated apart (`Points`), because that much is also true of a queue that gives
  ids again.
* **`MemoryDLQProofs`.** The service with either dead-letter queue. `EitherTypeCorrectness`
  has as its second half `MemoryOK`: the list's members and `dlq` are the same entries.
  `ReplayMoves` is the action property: whatever entry leaves the list, its job is back on
  the stream, though another entry may have had its id. `ReplayTenancy` is what an id that
  several tenants have does not break: the entry that moves and the job of the answer are
  the caller's, and no other tenant's entry or job is touched. `EitherOwnership` and
  `EitherLossSafety` carry the two results of `IngestionProofs` over to `InMemoryDLQ`, the
  steps of the rest of the service by the lemmas proved there.
  `OneJobSafety` says that a document has one live job at most, under two hypotheses that
  each rule out a way to get two: one API process (two replays of one entry both find it)
  and neither Redis failures nor crashes (a resend, a replay that stopped before its delete,
  a redelivery). Any number of workers, both acknowledgement disciplines and stray jobs are
  allowed. `OneJobPerDocument` is not inductive: `OneInv` also says that what a replay has
  read is still in the queue (`Replaying`), that the list has one entry of the document,
  live or not (`Listed`), and that the one worker on a row has seen it as it is (`SeenOK`),
  without which a worker that took the row for indexed would not count as a holder until it
  failed and held the job after all. TLC checked `OneInv` on the instance of `ingest_tenants` and on one with two
  workers and late acknowledgement before it was proved.
  `RowIsCoherent` is false when two workers are on one row. It is proved from either thing
  that prevents it: one worker, whatever fails or is delivered twice (`OneWorkerRows`), or
  one job per document (`OneJobRows`: the hypotheses of `OneJobSafety`, and no stray jobs).
  `RepeatSafety`: of a document that has chunks in the index, whatever job is still to be
  indexed was replayed (`IndexedBefore`). It follows from one job per document: the worker
  that indexes is then the only holder, and leaves only by acknowledging its job or by the
  dead-letter queue, whose replay raises the retry count. Its further hypothesis is that a
  job is removed before it runs (`~AckLate`), as a second delivery repeats the chunks too.
  `ingest_tenants` satisfies the hypotheses of `OneJobSafety`, `OneWorkerRows` and
  `RepeatSafety`.
* **`RateLimitProofs`.** One invariant: stamps stay within the clocks' bounds of the run
  of the script (`Clocks`), an added member that still counts is in the set and the key
  has not expired (`Remembered`), and a promise to a refused request keeps the set full
  until then (`Promises`). From it: `BoundedStorage`, `QuotaSafety`, `WaitSafety`,
  `DenialSafety`, the last two as action properties, and `Refinement`: every step is a
  step of `Quota` or a stutter.
* **`LimitersProofs`.** The same for the deque, which need not be sorted: every admitted
  request that still counts is in it, and a promise stands as long as the request at its
  left end does. `EitherInvariance` and `EitherRefinement` then hold of the service with
  either. `ResetSafety`: of the members that a refusal leaves, the oldest in the set or the
  one at the left end of the deque is purged for a request of the reset time, and no limiter
  keeps more than `Limit`.
* **`ChunkerProofs`.** The invariant `SoFar` says that every phrase which starts at or
  before the next window's start is already whole in a chunk. From it `PhrasesSafety`;
  `LoopAdvances` follows from `TypeOK`, which keeps the checked sizes during the loop.
  `FitSafety` is inductive given that a slice which is not blank has a first and a last
  letter. For `LossSafety`, `Normalize` is shown to list the kept positions in order,
  without a gap (`Placed`, `NormalizeLists`), so that a kept space has a letter on either
  side (`SpacesStand`), and every letter is a phrase of one character. `NoRepeats` needs that
  some text lies behind the windows so far while the loop goes on (`Behind`): a further
  window that is not blank then has a letter there, the last of the text or one of the two
  characters after the window before. The least element
  of a set of naturals comes from the library's `WFMin`, which, unlike its induction
  theorems, takes no operator.
* **`AgentRuntimeProofs`.** Lemmas state what the searches, the fusion, the draft and the
  critic return, whatever the outcome of the searches. The invariant adds to the
  properties that a run under way has seen all that the index holds (`Watches`), that
  what its first search found stays evidence though the index may have changed since
  (`Found`), that an answer cites exactly the hits of its draft (`Cited`) and that a new
  run has nothing (`Fresh`). From it `TypeCorrectness`, `CitationsSafety` and
  `AnswersSafety`.
* **`FusionProofs`.** A second invariant, `Ran`: lists are sorted, in memory each score of
  the vector search is positive, and a finished run's hits are the fusion of its lists
  and its answer is what they deserve. `DominanceSafety` then rests on
  `DominantPrecedes`: normalising keeps the order of scores, though only weakly when the
  worse chunk is missing from a list, and the stable sort decides when the fused scores
  are equal. `RefusalSafety` and `AnswerSafety` say when the critic refuses.
* **`HarnessProofs`.** `EvalSpec` and `BenchSpec` are the two tools by themselves; a behaviour
  of `HarnessSpec` is a behaviour of one of them. `EvalInvariance` keeps, beside the
  invariant of `AgentRuntime`, that each result is the score of the case in its place by
  the final answer of its own run (`Scored`) and that a report is that of all of them
  (`Written`). From it: `VerdictCorrectness`, by what each metric returns (`ContainsIs`,
  `PrecisionIs`, `RecallIs`, `RateIs`: no fraction short of the whole is rounded up to it,
  and empty lists count as the code has it); `VerdictsStayInTenant`, since a passing case
  has cited what it expects and what is cited was indexed for its tenant, which is the
  invariant behind `CitationsSafety`; `ReportCorrectness`, since a mean of scores up to
  `Unit` is `Unit` only when all are, and a mean of claim rates is 0 only when all are; and
  `LatencyCorrectness`. `SummaryCorrectness` has an invariant of its own, `BenchInv`: each
  task that is over is counted once under its outcome and measured once (`Tallied`),
  whatever the number of permits.
  The percentiles are those of lists of any length. `NthIs` says how many values are at or
  below the value of a rank, `PlaceIs` that `Interpolated` lies on the line between two
  neighbouring ranks, `Joined` that such a point is the percentile of its place,
  `PercentilesGrow` that a higher place has no lower value, and `MedianIs` that
  `statistics.median` is the interpolation at 50. `TotalIs` shows that the recursion of
  `Total` defines the partial sums. The inductions these need (on a rank, on the length of a
  prefix) go by the least counterexample: `LeastNumber` is the library's `WFMin`, and
  `Climb` says that a set which holds 0 and the successor of each member below n holds
  every number up to n.

Only model-checked: liveness (`EventuallyAllIndexed`, `BenchmarkEnds`), as TLAPS here has
no support for `ENABLED`. Every invariant and every other action property of the passing
runs is a theorem. One fact about data is assumed and evaluated by TLC instead of proved:
that `CasesOf` makes of each dataset a sequence of cases, no more than there are
requests (`EvalAssumption`), because `SelectSeq` is recursive in the library.

## 5. What is not modelled

* Scores themselves (BM25, hashed embeddings), wording, logging, tracing, HTTP shapes,
  index and table creation, throughput, the layout of reports, the demo scripts that only
  print.
* Authentication and `tenants/isolation.py`: a signature, an expiry and a comparison,
  without state. The tenant that they yield is the `caller` or `tenant` of every action.
* Ingestion and answering over one index. The worker writes through a synchronous
  `ChunkIndex` and the runtime reads an asynchronous `SearchIndex`; no class of the
  repository is both and nothing wires them together. `AskApi` states what follows for
  `POST /ask`; `IndexChunk` and `held` are the two sides of the missing piece.
* `retry_count` is never compared with anything, so a job that always fails can be
  replayed for ever; there is no bound in the code to state. `MaxRetry` is a bound of the
  model.

## 6. Plan

1. An abstract specification of ingestion (a document is accepted, then indexed or
   replayable), implemented by `Ingestion`, first checked and then proved.
2. A proof that `HarnessSpec` allows nothing that `EvalSpec` and `BenchSpec` do not, and that
   `AskApi` keeps the invariant of `AgentRuntime`.
