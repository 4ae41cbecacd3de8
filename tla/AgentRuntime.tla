---------------------------- MODULE AgentRuntime ----------------------------
(***************************************************************************)
(* AgentRuntime.run: planner, the two searches of hybrid_search, score     *)
(* fusion, drafter, critic and finalizer, for requests of several tenants  *)
(* that run at the same time as workers write to the index.                *)
(*                                                                         *)
(* A run awaits the index twice.  Everything after the vector search runs  *)
(* without awaiting, so it is one step.  The index is a SearchIndex of the *)
(* code: OpenSearchIndex, which other processes write between the two      *)
(* searches, or InMemorySearchIndex.  Which documents match, and how well, *)
(* is any outcome of a search engine (EXTERNAL).                           *)
(*                                                                         *)
(* A text stands for what the code reads of it: its tokens, and the        *)
(* meaningful tokens of its quote, whose last one may be cut short.        *)
(***************************************************************************)
EXTENDS Integers, Sequences, FiniteSets

CONSTANTS
    Tenant, Request,
    Chunk,      \* chunk ids
    Owner,      \* the tenant_id stored with each chunk
    Text,       \* texts that a chunk may have
    Words,      \* the tokens of each text
    Quoted,     \* meaningful tokens of short_quote of each text
    Absent,     \* the text of a chunk the index does not hold
    TopK,       \* top_k of the runtime
    Bm25Weight, VectorWeight,
    Scores,     \* BM25 scores of matching chunks
    Cosines,    \* cosine similarities, in a unit of which Opposite is -1.0
    Opposite,
    MaxWrite    \* BOUND on the writes to the index

ASSUME ConstantsAssumption ==
    /\ IsFiniteSet(Chunk)
    /\ Owner \in [Chunk -> Tenant]
    /\ Absent \notin Text
    /\ \A t \in Text : IsFiniteSet(Quoted[t])
    /\ TopK \in Nat \ {0}
    /\ Bm25Weight \in Nat /\ VectorWeight \in Nat /\ Bm25Weight + VectorWeight > 0
    /\ Scores \subseteq Nat \ {0}
    /\ Opposite \in Int /\ Opposite < 0 /\ \A c \in Cosines : c \in Int /\ c >= Opposite
    /\ MaxWrite \in Nat

VARIABLES
    openSearch, \* TRUE: the runtime has an OpenSearchIndex, FALSE: an InMemorySearchIndex
    index,      \* the text of each chunk, as searches find it
    writes,     \* writes so far
    pc, tenant, \* where each run is, and for whom
    bm25, vector,  \* what the searches of each run returned
    hits,       \* the fused hits of each run
    answer,     \* the response of each run
    seen        \* HISTORY: what the index has held during each run

vars == <<openSearch, index, writes, pc, tenant, bm25, vector, hits, answer, seen>>

NoAnswer == [refused |-> FALSE, supported |-> FALSE, unsupported |-> {}, citations |-> <<>>]

Held == {<<c, index[c]>> : c \in {d \in Chunk : index[d] # Absent}}

Init ==
    /\ openSearch \in BOOLEAN
    /\ index = [c \in Chunk |-> Absent]
    /\ writes = 0
    /\ pc = [r \in Request |-> "new"]
    /\ tenant \in [Request -> Tenant]
    /\ bm25 = [r \in Request |-> <<>>]
    /\ vector = [r \in Request |-> <<>>]
    /\ hits = [r \in Request |-> <<>>]
    /\ answer = [r \in Request |-> NoAnswer]
    /\ seen = [r \in Request |-> {}]

-----------------------------------------------------------------------------
(* Searches                                                                *)

\* PLAUSIBLE BUG: a search without its tenant filter.
VisibleToAll(r) == {c \in Chunk : index[c] # Absent}

\* What the tenant filter of every search lets through.
Visible(r) == {c \in Chunk : index[c] # Absent /\ Owner[c] = tenant[r]}

\* PLAUSIBLE BUG: the cut at top_k is off by one.
OneMore(n) == IF n <= TopK THEN n ELSE TopK + 1

Kept(n) == IF n < TopK THEN n ELSE TopK

\* The lists of the TopK best of S.  Those that neither is better than the other
\* may come in any order.
Ranked(S, Better(_, _)) ==
    LET size == Kept(Cardinality(S))
    IN  {s \in [1 .. size -> S] :
            /\ \A i, j \in 1 .. size : i < j => s[i] # s[j] /\ ~Better(s[j], s[i])
            /\ \A c \in S \ {s[i] : i \in 1 .. size}, i \in 1 .. size : ~Better(c, s[i])}

Results(matching, score) ==
    {[i \in DOMAIN s |-> [chunk |-> s[i], text |-> index[s[i]], score |-> score[s[i]]]] :
        s \in Ranked(matching, LAMBDA c, d : score[c] > score[d])}

\* A chunk is found when it shares a term with the query, so with a positive score.
Bm25Results(r) ==
    UNION {UNION {Results(m, score) : score \in [m -> Scores]} : m \in SUBSET Visible(r)}

\* PLAUSIBLE BUG: chunks without similarity are hits in memory too.
EveryChunk(r, cosine) == Visible(r)

\* In memory, only positive similarities are hits.  OpenSearch returns every chunk
\* of the tenant, since its script_score has no other condition.
Similar(r, cosine) == {c \in Visible(r) : openSearch \/ cosine[c] > 0}

\* OpenSearch scores are cosines plus 1.0.
Unrelated == IF openSearch THEN 0 - Opposite ELSE 0

VectorResults(r) ==
    UNION {Results(Similar(r, cosine), [c \in Visible(r) |-> cosine[c] + Unrelated]) :
              cosine \in [Visible(r) -> Cosines]}

-----------------------------------------------------------------------------
(* fuse_hits                                                               *)

ScoresOf(list) == {list[i].score : i \in DOMAIN list}
Least(S) == CHOOSE x \in S : \A y \in S : x <= y
Greatest(S) == CHOOSE x \in S : \A y \in S : x >= y

\* Scores of a list are spread over 0 .. Spread; all equal, they are all the best.
Spread(list) ==
    IF list = <<>> \/ Least(ScoresOf(list)) = Greatest(ScoresOf(list))
    THEN 1
    ELSE Greatest(ScoresOf(list)) - Least(ScoresOf(list))

Finds(list, c) == \E i \in DOMAIN list : list[i].chunk = c
PlaceOf(list, c) == CHOOSE i \in DOMAIN list : list[i].chunk = c
HitOf(list, c) == list[PlaceOf(list, c)]
ScoreOf(list, c) == IF Finds(list, c) THEN HitOf(list, c).score ELSE 0

\* PLAUSIBLE BUG: a chunk missing from a list gets the best score, not the worst.
DefaultToBest(list, c) ==
    IF ~Finds(list, c) \/ Least(ScoresOf(list)) = Greatest(ScoresOf(list))
    THEN Spread(list)
    ELSE ScoreOf(list, c) - Least(ScoresOf(list))

Normalized(list, c) ==
    IF ~Finds(list, c)
    THEN 0
    ELSE IF Least(ScoresOf(list)) = Greatest(ScoresOf(list))
         THEN Spread(list)
         ELSE ScoreOf(list, c) - Least(ScoresOf(list))

\* fused_score, times the weights' sum and both spreads.
Fused(b, v, c) ==
    Bm25Weight * Normalized(b, c) * Spread(v) + VectorWeight * Normalized(v, c) * Spread(b)

ChunksOf(list) == {list[i].chunk : i \in DOMAIN list}

\* The hit kept for a chunk, and its place, in bm25_hits + vector_hits.
First(b, v, c) == IF Finds(b, c) THEN HitOf(b, c) ELSE HitOf(v, c)
Place(b, v, c) == IF Finds(b, c) THEN PlaceOf(b, c) ELSE Len(b) + PlaceOf(v, c)

\* Sorted by fused score, stably: one list is the outcome.
Fusions(b, v) ==
    LET Before(c, d) ==
            \/ Fused(b, v, c) > Fused(b, v, d)
            \/ Fused(b, v, c) = Fused(b, v, d) /\ Place(b, v, c) < Place(b, v, d)
    IN  {[k \in DOMAIN s |-> [chunk |-> s[k], text |-> First(b, v, s[k]).text]] :
            s \in Ranked(ChunksOf(b) \cup ChunksOf(v), Before)}

-----------------------------------------------------------------------------
(* draft_answer_from_hits, critique_answer, finalize_response              *)

\* The hits the draft quotes.
Used(fused) == SubSeq(fused, 1, IF Len(fused) < 2 THEN Len(fused) ELSE 2)

\* PLAUSIBLE BUG: only the best hit is cited.
CitesFirst(fused) == SubSeq(fused, 1, IF Len(fused) < 1 THEN Len(fused) ELSE 1)

Citations(fused) == Used(fused)

AnswerTokens(used) == UNION {Quoted[used[i].text] : i \in DOMAIN used}
EvidenceTokens(used) == UNION {Words[used[i].text] : i \in DOMAIN used}
Unsupported(used) == AnswerTokens(used) \ EvidenceTokens(used)

\* The critic refuses a draft without evidence, one that does not cite what it used,
\* and one with more than 65% of its tokens unsupported.  (The draft's fixed words
\* are all stopwords, and a draft with evidence is never blank.)
CitesAll(used, citations) == ChunksOf(used) \subseteq ChunksOf(citations)

ShouldRefuse(used, citations) ==
    \/ used = <<>>
    \/ ~CitesAll(used, citations)
    \/ 100 * Cardinality(Unsupported(used)) > 65 * Cardinality(AnswerTokens(used))

\* Tokens are looked at, and reported, only when the citations are in order.
Reported(used, citations) == IF CitesAll(used, citations) THEN Unsupported(used) ELSE {}

\* PLAUSIBLE BUG: a refusal keeps the citations of its draft.
RefusalWithCitations(used, citations) ==
    [refused |-> TRUE, supported |-> FALSE, unsupported |-> Reported(used, citations),
     citations |-> citations]

Refusal(used, citations) ==
    [refused |-> TRUE, supported |-> FALSE, unsupported |-> Reported(used, citations),
     citations |-> <<>>]

Response(used, citations) ==
    IF ShouldRefuse(used, citations)
    THEN Refusal(used, citations)
    ELSE [refused |-> FALSE, supported |-> TRUE, unsupported |-> {}, citations |-> citations]

-----------------------------------------------------------------------------
Goto(r, place) == pc' = [pc EXCEPT ![r] = place]

\* The planner refuses a sensitive question and sends a blank one back.
Refuse(r) ==
    /\ pc[r] = "new"
    /\ answer' = [answer EXCEPT ![r] = Refusal(<<>>, <<>>)]
    /\ Goto(r, "done")
    /\ UNCHANGED <<openSearch, index, writes, tenant, bm25, vector, hits, seen>>

\* Any other question is searched for.
Retrieve(r) ==
    /\ pc[r] = "new"
    /\ Goto(r, "bm25")
    /\ seen' = [seen EXCEPT ![r] = Held]
    /\ UNCHANGED <<openSearch, index, writes, tenant, bm25, vector, hits, answer>>

Bm25Search(r) ==
    /\ pc[r] = "bm25"
    /\ \E list \in Bm25Results(r) : bm25' = [bm25 EXCEPT ![r] = list]
    /\ Goto(r, "vector")
    /\ UNCHANGED <<openSearch, index, writes, tenant, vector, hits, answer, seen>>

\* The second search, and all that follows it.
VectorSearch(r) ==
    /\ pc[r] = "vector"
    /\ \E list \in VectorResults(r) : \E fused \in Fusions(bm25[r], list) :
          /\ vector' = [vector EXCEPT ![r] = list]
          /\ hits' = [hits EXCEPT ![r] = fused]
          /\ answer' = [answer EXCEPT ![r] = Response(Used(fused), Citations(fused))]
    /\ Goto(r, "done")
    /\ UNCHANGED <<openSearch, index, writes, tenant, bm25, seen>>

\* An embedding or search call raises: the client gets a 500.
Fail(r) ==
    /\ pc[r] \in {"bm25", "vector"}
    /\ Goto(r, "failed")
    /\ UNCHANGED <<openSearch, index, writes, tenant, bm25, vector, hits, answer, seen>>

\* index_chunk: a write becomes visible, over the text with the same chunk_id.
\* An InMemorySearchIndex shares the event loop with the runs, which never suspend
\* on it, and is given a chunk id once.
IndexChunk(c, t) ==
    /\ writes < MaxWrite
    /\ openSearch \/ (index[c] = Absent /\ \A r \in Request : pc[r] \notin {"bm25", "vector"})
    /\ writes' = writes + 1
    /\ index' = [index EXCEPT ![c] = t]
    /\ seen' = [r \in Request |-> IF pc[r] \in {"bm25", "vector"} THEN seen[r] \cup {<<c, t>>}
                                                                 ELSE seen[r]]
    /\ UNCHANGED <<openSearch, pc, tenant, bm25, vector, hits, answer>>

Next ==
    \/ \E r \in Request :
          Refuse(r) \/ Retrieve(r) \/ Bm25Search(r) \/ VectorSearch(r) \/ Fail(r)
    \/ \E c \in Chunk, t \in Text : IndexChunk(c, t)

Spec == Init /\ [][Next]_vars

-----------------------------------------------------------------------------
(* Properties                                                              *)

Hit == [chunk : Chunk, text : Text]
ScoredHit == [chunk : Chunk, text : Text, score : Nat]
Answer == [refused : BOOLEAN, supported : BOOLEAN,
           unsupported : SUBSET UNION {Quoted[t] : t \in Text}, citations : Seq(Hit)]

\* Every variable keeps its shape: what is missing in the index is never a hit, no
\* list is longer than top_k, and no response has more than two citations.
TypeOK ==
    /\ openSearch \in BOOLEAN
    /\ index \in [Chunk -> Text \cup {Absent}]
    /\ writes \in 0 .. MaxWrite
    /\ pc \in [Request -> {"new", "bm25", "vector", "done", "failed"}]
    /\ tenant \in [Request -> Tenant]
    /\ bm25 \in [Request -> Seq(ScoredHit)]
    /\ vector \in [Request -> Seq(ScoredHit)]
    /\ hits \in [Request -> Seq(Hit)]
    /\ answer \in [Request -> Answer]
    /\ seen \in [Request -> SUBSET (Chunk \X Text)]
    /\ \A r \in Request :
          /\ Len(bm25[r]) <= TopK /\ Len(vector[r]) <= TopK /\ Len(hits[r]) <= TopK
          /\ Len(answer[r].citations) <= 2

\* Whatever is written while a run is between its two searches, every passage it
\* cites belongs to its own tenant and is one the index held, under that chunk id,
\* at some time during the run: hybrid_search never pairs a chunk with a text it
\* did not have, nor leaks one from the other list.
CitationsWereIndexed ==
    \A r \in Request : \A i \in DOMAIN answer[r].citations :
        LET cited == answer[r].citations[i]
        IN  /\ <<cited.chunk, cited.text>> \in seen[r]
            /\ Owner[cited.chunk] = tenant[r]

\* A finished run either refuses, and then cites nothing, or cites, once each, the
\* hits its answer quotes, of which there is at least one.  (critique_answer and
\* finalize_response, over what fuse_hits merged from two lists of hits.)
AnswersAreCited ==
    \A r \in Request : pc[r] = "done" =>
        LET cited == answer[r].citations
        IN  IF answer[r].refused
            THEN cited = <<>>
            ELSE /\ cited # <<>>
                 /\ \A i, j \in DOMAIN cited : i # j => cited[i].chunk # cited[j].chunk
                 /\ \A i \in DOMAIN hits[r] : i <= 2 => hits[r][i].chunk \in ChunksOf(cited)

\* Score fusion never prefers a chunk to one that both searches scored higher: the
\* better one is among the hits whenever the worse one is, and before it.
DominanceRespected ==
    \A r \in Request : \A d \in ChunksOf(hits[r]) :
        \A c \in ChunksOf(bm25[r]) \cup ChunksOf(vector[r]) :
            ( /\ ScoreOf(bm25[r], c) > ScoreOf(bm25[r], d)
              /\ ScoreOf(vector[r], c) > ScoreOf(vector[r], d) )
            => Finds(hits[r], c) /\ PlaceOf(hits[r], c) < PlaceOf(hits[r], d)

\* The critic never turns down a draft for want of evidence when there is some: a run
\* that got hits, none of whose quotes ends in half a word, answers.
AnswersWhenItCan ==
    \A r \in Request :
        ( /\ pc[r] = "done" /\ hits[r] # <<>>
          /\ \A i \in DOMAIN hits[r] : Quoted[hits[r][i].text] \subseteq Words[hits[r][i].text] )
        => ~answer[r].refused

\* A question is unrelated to what the searches saw when no chunk shares a term with
\* it and none is any nearer to it than an unrelated text, with a cosine of zero.
HasEvidence(r) == bm25[r] # <<>> \/ \E i \in DOMAIN vector[r] : vector[r][i].score > Unrelated

\* With an InMemorySearchIndex a question without evidence is refused, never answered
\* from chunks that have nothing to do with it.
RefusesInMemory ==
    \A r \in Request : pc[r] = "done" /\ ~openSearch /\ ~HasEvidence(r) => answer[r].refused

-----------------------------------------------------------------------------
(* What the documents say, and the code does not do                        *)

\* failure_cases/unsupported_answer.md: when the answer contains claims that the
\* retrieved evidence does not have, the critic finds it not supported and lists them.
UnsupportedIsReported ==
    \A r \in Request :
        pc[r] = "done" /\ Unsupported(Used(hits[r])) # {}
        => ~answer[r].supported /\ answer[r].unsupported # {}

\* docs/eval-methodology.md: if the evidence is missing, the correct behavior is to
\* refuse.
RefusesWithoutEvidence ==
    \A r \in Request : pc[r] = "done" /\ ~HasEvidence(r) => answer[r].refused
=============================================================================
