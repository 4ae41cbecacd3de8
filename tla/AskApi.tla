------------------------------- MODULE AskApi -------------------------------
(***************************************************************************)
(* POST /ask as the application serves it.  get_agent_runtime builds a     *)
(* runtime, with a new InMemorySearchIndex, for every request, and nothing *)
(* is ever written to one of those: the index of AgentRuntime stays empty  *)
(* and stands for all of them.  What the workers index goes to the index   *)
(* of the deployment (EXTERNAL).                                           *)
(***************************************************************************)
EXTENDS AgentRuntime

VARIABLES
    corpus,  \* what ingestion has indexed: chunks with their texts
    known    \* HISTORY: the corpus when each run began to retrieve

askVars == <<vars, corpus, known>>

AskInit ==
    /\ Init /\ ~openSearch
    /\ corpus = {}
    /\ known = [r \in Request |-> {}]

\* A worker indexes a chunk of an uploaded document.
Ingest(c, t) ==
    /\ writes < MaxWrite
    /\ writes' = writes + 1
    /\ corpus' = {p \in corpus : p[1] # c} \cup {<<c, t>>}
    /\ UNCHANGED <<openSearch, index, pc, tenant, bm25, vector, hits, answer, seen, known>>

\* The handler awaits runtime.run of the request's own runtime.
Ask(r) ==
    /\ \/ Retrieve(r) /\ known' = [known EXCEPT ![r] = corpus]
       \/ (Refuse(r) \/ Bm25Search(r) \/ VectorSearch(r) \/ Fail(r)) /\ UNCHANGED known
    /\ UNCHANGED corpus

AskNext ==
    \/ \E r \in Request : Ask(r)
    \/ \E c \in Chunk, t \in Text : Ingest(c, t)

AskSpec == AskInit /\ [][AskNext]_askVars

-----------------------------------------------------------------------------
\* README.md:43-64: the retriever of an ask searches the index that the ingestion
\* workers fill.  A run whose tenant had chunks there when it began finds some of
\* them, since a vector search of OpenSearch returns any chunk of the tenant.
AsksSearchTheCorpus ==
    \A r \in Request :
        pc[r] = "done" /\ vector[r] = <<>> /\ bm25[r] = <<>> /\ hits[r] = <<>> =>
            \A p \in known[r] : Owner[p[1]] # tenant[r]
=============================================================================
