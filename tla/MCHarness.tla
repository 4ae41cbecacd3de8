----------------------------- MODULE MCHarness -----------------------------
(***************************************************************************)
(* The two command-line tools over the same small runtime: at the start    *)
(* one of them is chosen, and the variables of the other never change.     *)
(* Both are sequential programs, so their next step is never put off.      *)
(***************************************************************************)
EXTENDS MCAgentRuntime, Evals, Benchmark

CONSTANTS
    Main,   \* a chunk of Ours
    Second, \* another one of the same document
    Others  \* the chunks of the other document of Ours

MCDocumentOf ==
    [c \in Chunk |-> IF c \in Theirs THEN "d3" ELSE IF c \in Others THEN "d2" ELSE "d1"]

\* The index with one text for each of these chunks.
Corpus(ours, text) ==
    [c \in Chunk |-> IF c = Main \/ c \in Theirs THEN "whole"
                     ELSE IF c \in ours THEN text ELSE Absent]

\* Two chunks of one document, or two documents; what is not cut may be refused.
MCCorpora ==
    {Corpus({Second}, "whole"), Corpus(Others, "whole"), Corpus(Others, "endless")}

\* What a request finds matters little to the benchmark: one chunk.
MCBenchCorpora == {Corpus({}, Absent)}

Blank == [kind |-> "blank"]
Invalid == [kind |-> "invalid"]
Expecting(t, terms, docs, refuse) ==
    [kind |-> "case", tenant |-> t, terms |-> terms, docs |-> docs, should_refuse |-> refuse]

OneDocument == Expecting("ta", {"audit"}, {"d1"}, FALSE)
TwoDocuments == Expecting("ta", {"log"}, {"d1", "d2"}, FALSE)
AnyAnswer == Expecting("ta", {"audit", "retention"}, {}, FALSE)
ARefusal == Expecting("ta", {}, {}, TRUE)
NotTheirs == Expecting("ta", {}, {"d3"}, FALSE)

MCDatasets ==
    {<<>>, <<OneDocument, Invalid>>}
    \cup {<<Blank, first, second>> :
            first \in {OneDocument, TwoDocuments, ARefusal},
            second \in {OneDocument, AnyAnswer, NotTheirs}}

EvalOff == stage = "off" /\ rows = <<>> /\ results = <<>> /\ report = NoReport
BenchOff ==
    /\ step = "off" /\ permits = 0 /\ task = 0 /\ created = {}
    /\ outcomes = [answered |-> 0, refused |-> 0, failed |-> 0]
    /\ latencies = <<>> /\ summary = NoSummary

HarnessInit == (EvalInit /\ BenchOff) \/ (BenchInit /\ EvalOff)

HarnessNext ==
    \/ EvalNext /\ UNCHANGED benchOnly
    \/ BenchNext /\ UNCHANGED evalOnly

harnessVars == <<vars, evalOnly, benchOnly>>

HarnessSpec == HarnessInit /\ [][HarnessNext]_harnessVars /\ WF_harnessVars(HarnessNext)
=============================================================================
