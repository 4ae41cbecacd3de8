----------------------------- MODULE Benchmark -----------------------------
(***************************************************************************)
(* scripts/benchmark.py: one task per request, all on one event loop, each *)
(* behind a semaphore.  Neither FakeEmbeddingClient nor InMemorySearchIndex *)
(* ever suspends, so a task that got its permit runs to its end before     *)
(* another one starts, whatever the concurrency.                           *)
(***************************************************************************)
EXTENDS AgentRuntime, Percentile

CONSTANTS
    BenchCorpora,  \* what the index may be built with
    Concurrency,   \* permits of the semaphore
    Elapsed,       \* what the clock may measure for one request
    NoSummary

ASSUME BenchmarkAssumption ==
    /\ IsFiniteSet(Request) /\ Request = 1 .. Cardinality(Request) /\ Request # {}
    /\ Concurrency \in Nat \ {0}
    /\ BenchCorpora \subseteq [Chunk -> Text \cup {Absent}]
    /\ Elapsed \subseteq Nat

VARIABLES
    step,      \* how far the program is; "off": it does not run
    permits,   \* what the semaphore has left
    task,      \* the task that runs, 0: none
    created,   \* tasks of the gather that have not yet run
    outcomes,  \* the Counter
    latencies, \* one for each finished request
    summary    \* what was written

benchOnly == <<step, permits, task, created, outcomes, latencies, summary>>

BenchInit ==
    /\ Init /\ ~openSearch
    /\ tenant = [r \in Request |-> CHOOSE t \in Tenant : TRUE]
    /\ step = "build"
    /\ permits = Concurrency
    /\ task = 0
    /\ created = {}
    /\ outcomes = [answered |-> 0, refused |-> 0, failed |-> 0]
    /\ latencies = <<>>
    /\ summary = NoSummary

\* build_runtime, and the tasks of the gather.
BuildRuntime ==
    /\ step = "build"
    /\ step' = "gather"
    /\ index' \in BenchCorpora
    /\ created' = Request
    /\ UNCHANGED <<openSearch, writes, pc, tenant, bm25, vector, hits, answer, seen,
                   permits, task, outcomes, latencies, summary>>

\* The next task, in the order of their creation, gets a permit.
Acquire(r) ==
    /\ task = 0
    /\ r \in created /\ \A q \in created : r <= q
    /\ permits > 0
    /\ permits' = permits - 1
    /\ task' = r
    /\ created' = created \ {r}
    /\ UNCHANGED <<vars, step, outcomes, latencies, summary>>

\* await runtime.run
RunTask ==
    /\ task # 0
    /\ \/ Refuse(task) \/ Retrieve(task) \/ Bm25Search(task) \/ VectorSearch(task) \/ Fail(task)
    /\ UNCHANGED benchOnly

Outcome(r) ==
    CASE pc[r] = "failed" -> "failed"
      [] pc[r] = "done" /\ answer[r].refused -> "refused"
      [] OTHER -> "answered"

\* PLAUSIBLE BUG: a request that raises is not measured.
MeasuredOnSuccess(r, latency) ==
    IF pc[r] = "failed" THEN latencies ELSE Append(latencies, latency)

\* The finally clause.
Measured(r, latency) == Append(latencies, latency)

\* PLAUSIBLE BUG: acquire and release without async with; an exception keeps the permit.
ReleasedOnSuccess(r) == IF pc[r] = "failed" THEN permits ELSE permits + 1

Released(r) == permits + 1

Count ==
    /\ task # 0
    /\ pc[task] \in {"done", "failed"}
    /\ outcomes' = [outcomes EXCEPT ![Outcome(task)] = @ + 1]
    /\ \E latency \in Elapsed : latencies' = Measured(task, latency)
    /\ permits' = Released(task)
    /\ task' = 0
    /\ UNCHANGED <<vars, step, created, summary>>

\* gather has returned: the report is made and written.
Summarize ==
    /\ step = "gather"
    /\ task = 0 /\ created = {}
    /\ step' = "summarized"
    /\ summary' = [request_count |-> Cardinality(Request),
                   p50 |-> PercentileOf(latencies, 50),
                   p95 |-> PercentileOf(latencies, 95),
                   failed |-> outcomes.failed,
                   refused |-> outcomes.refused]
    /\ UNCHANGED <<vars, permits, task, created, outcomes, latencies>>

BenchNext ==
    \/ BuildRuntime \/ RunTask \/ Count \/ Summarize
    \/ \E r \in Request : Acquire(r)

BenchSpec == BenchInit /\ [][BenchNext]_<<vars, benchOnly>>

-----------------------------------------------------------------------------
(* Properties                                                              *)

\* The summary accounts for every request once, those that raised included: each is
\* counted under what became of it, and each has been measured.
SummaryAddsUp ==
    summary # NoSummary =>
        /\ Len(latencies) = summary.request_count
        /\ summary.failed = Cardinality({r \in Request : pc[r] = "failed"})
        /\ summary.refused =
              Cardinality({r \in Request : pc[r] = "done" /\ answer[r].refused})
        /\ outcomes.answered = summary.request_count - summary.failed - summary.refused
        /\ IsPercentile(latencies, 50, summary.p50)
        /\ IsPercentile(latencies, 95, summary.p95)

\* The benchmark ends with a summary, with more requests than permits and however
\* many of them raise: no permit is lost and nobody waits for one for ever.
BenchmarkEnds == (step = "gather") ~> (step = "summarized")
=============================================================================
