------------------------------- MODULE Evals -------------------------------
(***************************************************************************)
(* scripts/run_eval.py: the demo corpus is built in memory, the dataset is *)
(* loaded, and its cases are put to one AgentRuntime, one after another.   *)
(* Each answer is scored against what the case expects, and the report is  *)
(* written when all are done.  A question is any question: the planner may *)
(* refuse it, and the searches may find anything of the case's tenant.     *)
(***************************************************************************)
EXTENDS AgentRuntime, Percentile

CONSTANTS
    Corpora,     \* what the index may be built with
    Datasets,    \* sequences of rows
    Document,    \* document ids, stored ones and others
    Term,        \* what a case may expect in an answer
    DocumentOf,  \* the document of each chunk
    Latency,     \* what the clock may measure
    Unit,        \* the score 1.0; scores are rounded down to integers
    NoReport

\* Words in the answer of finalize_response when it refuses.
RefusalLength == 13

\* load_eval_cases skips blank lines.
CasesOf(data) == SelectSeq(data, LAMBDA row : row.kind = "case")

\* An EvalCase, lists as sets.
Case == [kind : {"case"}, tenant : Tenant, terms : SUBSET Term, docs : SUBSET Document,
         should_refuse : BOOLEAN]

\* There is a request for each case, and Unit is fine enough: of as many scores as there
\* may be, the mean is not rounded down to zero when one is a refusal with a claim.
ASSUME EvalAssumption ==
    /\ IsFiniteSet(Request) /\ Request = 1 .. Cardinality(Request) /\ Request # {}
    /\ IsFiniteSet(Document) /\ IsFiniteSet(Term)
    /\ \A data \in Datasets : /\ CasesOf(data) \in Seq(Case)
                              /\ Len(CasesOf(data)) <= Cardinality(Request)
    /\ Corpora \subseteq [Chunk -> Text \cup {Absent}]
    /\ Latency \subseteq Nat
    /\ Unit \in Nat \ {0} /\ Unit >= RefusalLength * Cardinality(Request)

VARIABLES
    stage,    \* how far the program is; "off": it does not run
    rows,     \* the lines of the dataset
    results,  \* the results so far
    report    \* what was written

evalOnly == <<stage, rows, results, report>>

Cases == CasesOf(rows)

EvalInit ==
    /\ Init /\ ~openSearch
    /\ rows \in Datasets
    /\ \A k \in Request :
          tenant[k] = IF k <= Len(Cases) THEN Cases[k].tenant ELSE CHOOSE t \in Tenant : TRUE
    /\ stage = "build"
    /\ results = <<>>
    /\ report = NoReport

-----------------------------------------------------------------------------
(* Metrics                                                                 *)

Ratio(part, whole) == (Unit * part) \div whole

CitedDocs(response) ==
    [i \in DOMAIN response.citations |-> DocumentOf[response.citations[i].chunk]]
CitedSet(response) == {CitedDocs(response)[i] : i \in DOMAIN response.citations}

\* An answer shows the words it quotes; a case expects none of the fixed wording around
\* them, nor of a refusal.
Shown(response) == AnswerTokens(response.citations)

AnswerContainsScore(case, response) ==
    IF case.terms = {}
    THEN Unit
    ELSE Ratio(Cardinality(case.terms \cap Shown(response)), Cardinality(case.terms))

CitationPrecision(case, response) ==
    LET cited == CitedDocs(response)
    IN  IF cited = <<>>
        THEN IF case.docs = {} THEN Unit ELSE 0
        ELSE Ratio(Cardinality({i \in DOMAIN cited : cited[i] \in case.docs}), Len(cited))

\* PLAUSIBLE BUG: one expected document is enough.
SomeRecall(case, response) ==
    IF case.docs = {} \/ case.docs \cap CitedSet(response) # {} THEN Unit ELSE 0

CitationRecall(case, response) ==
    IF case.docs = {}
    THEN Unit
    ELSE Ratio(Cardinality(case.docs \cap CitedSet(response)), Cardinality(case.docs))

\* Only a refusal reports claims.
UnsupportedClaimRate(response) ==
    LET claims == Cardinality(response.unsupported)
    IN  IF claims > RefusalLength THEN Unit ELSE Ratio(claims, RefusalLength)

\* One EvalCaseResult.
Result(case, response, latency) ==
    LET contains == AnswerContainsScore(case, response)
        precision == CitationPrecision(case, response)
        recall == CitationRecall(case, response)
        correct == response.refused = case.should_refuse
        rate == UnsupportedClaimRate(response)
    IN  [case |-> case, response |-> response, latency |-> latency,
         contains |-> contains, precision |-> precision, recall |-> recall,
         refusal |-> IF correct THEN Unit ELSE 0, rate |-> rate,
         passed |-> /\ contains = Unit /\ precision = Unit /\ recall = Unit
                    /\ correct /\ rate = 0]

Total(scores) ==
    LET upTo[k \in 0 .. Len(scores)] == IF k = 0 THEN 0 ELSE upTo[k - 1] + scores[k]
    IN  upTo[Len(scores)]

\* PLAUSIBLE BUG: scores of zero are left out, as missing ones would be.
MeanOfScored(scores) ==
    LET scored == SelectSeq(scores, LAMBDA s : s > 0)
    IN  IF scored = <<>> THEN 0 ELSE Total(scored) \div Len(scored)

Mean(scores) == IF scores = <<>> THEN 0 ELSE Total(scores) \div Len(scores)

Column(field) == [i \in DOMAIN results |-> results[i][field]]

Report ==
    [case_count |-> Len(results),
     passed_count |-> Cardinality({i \in DOMAIN results : results[i].passed}),
     contains |-> Mean(Column("contains")),
     precision |-> Mean(Column("precision")),
     recall |-> Mean(Column("recall")),
     refusal |-> Mean(Column("refusal")),
     rate |-> Mean(Column("rate")),
     p50 |-> PercentileOf(Column("latency"), 50),
     p95 |-> PercentileOf(Column("latency"), 95)]

-----------------------------------------------------------------------------
(* run                                                                     *)

\* build_demo_runtime
Build ==
    /\ stage = "build"
    /\ index' \in Corpora
    /\ stage' = "load"
    /\ UNCHANGED <<openSearch, writes, pc, tenant, bm25, vector, hits, answer, seen,
                   rows, results, report>>

\* An invalid line ends the program before a question is asked.
Load ==
    /\ stage = "load"
    /\ stage' = IF \E i \in DOMAIN rows : rows[i].kind = "invalid" THEN "died" ELSE "ask"
    /\ UNCHANGED <<vars, rows, results, report>>

\* The case at hand, asked and not scored yet.
Current == Len(results) + 1

\* await ask(request): an exception ends the program.
AskCase ==
    /\ stage = "ask"
    /\ Current <= Len(Cases)
    /\ \/ /\ Refuse(Current) \/ Retrieve(Current) \/ Bm25Search(Current) \/ VectorSearch(Current)
          /\ UNCHANGED stage
       \/ Fail(Current) /\ stage' = "died"
    /\ UNCHANGED <<rows, results, report>>

ScoreCase ==
    /\ stage = "ask"
    /\ Current <= Len(Cases)
    /\ pc[Current] = "done"
    /\ \E latency \in Latency :
          results' = Append(results, Result(Cases[Current], answer[Current], latency))
    /\ UNCHANGED <<vars, stage, rows, report>>

\* write_eval_report, once every case has a result.
WriteReport ==
    /\ stage = "ask"
    /\ Current > Len(Cases)
    /\ report' = Report
    /\ stage' = "reported"
    /\ UNCHANGED <<vars, rows, results>>

EvalNext == Build \/ Load \/ AskCase \/ ScoreCase \/ WriteReport

EvalSpec == EvalInit /\ [][EvalNext]_<<vars, evalOnly>>

-----------------------------------------------------------------------------
(* Properties                                                              *)

\* docs/eval-methodology.md: a case passes exactly when the response refuses as it
\* should, cites the expected documents and no others, shows every expected term and
\* reports no unsupported claim, whatever scores its fractions add up to and however
\* often one document is cited.
PassedMeansExpected ==
    \A i \in DOMAIN results :
        LET case == results[i].case
            response == results[i].response
        IN  results[i].passed <=>
                /\ response.refused = case.should_refuse
                /\ CitedSet(response) = case.docs
                /\ case.terms \subseteq Shown(response)
                /\ response.unsupported = {}

\* A case that expects an answer from another tenant's document never passes: what
\* the searches of the runtime may see decides what the metrics can accept.
PassesStayInTenant ==
    \A i \in DOMAIN results :
        results[i].passed =>
            \A d \in results[i].case.docs :
                \E c \in Chunk : DocumentOf[c] = d /\ Owner[c] = results[i].case.tenant

\* A report speaks of every case of a dataset without invalid lines, once and in
\* order, and its scores are all perfect exactly when all its cases passed.
ReportAddsUp ==
    report # NoReport =>
        /\ \A i \in DOMAIN rows : rows[i].kind # "invalid"
        /\ [i \in DOMAIN results |-> results[i].case] = Cases
        /\ report.case_count = Len(Cases)
        /\ Cases # <<>> =>
              ( report.passed_count = report.case_count <=>
                  /\ report.contains = Unit /\ report.precision = Unit /\ report.recall = Unit
                  /\ report.refusal = Unit /\ report.rate = 0 )

\* The reported latencies are percentiles of what was measured, in order.
LatenciesAreRanked ==
    report # NoReport /\ results # <<>> =>
        /\ IsPercentile(Column("latency"), 50, report.p50)
        /\ IsPercentile(Column("latency"), 95, report.p95)
        /\ report.p50 <= report.p95
=============================================================================
