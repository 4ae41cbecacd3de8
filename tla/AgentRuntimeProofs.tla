------------------------- MODULE AgentRuntimeProofs -------------------------
(***************************************************************************)
(* Proofs about AgentRuntime, for every number of runs, tenants, chunks,   *)
(* texts and writes, every top_k, and every outcome of the searches.       *)
(***************************************************************************)
EXTENDS AgentRuntime, FiniteSetTheorems, TLAPS

\* A text that the index held for a chunk of the run's tenant, during the run.
Evidence(r, hit) == <<hit.chunk, hit.text>> \in seen[r] /\ Owner[hit.chunk] = tenant[r]

Same(hit, other) == hit.chunk = other.chunk /\ hit.text = other.text

-----------------------------------------------------------------------------
(* What the operators return                                               *)

\* top_k cuts every list.
LEMMA KeptIs ==
    ASSUME NEW S, IsFiniteSet(S)
    PROVE  Kept(Cardinality(S)) \in Nat /\ Kept(Cardinality(S)) <= TopK
<1>1. Cardinality(S) \in Nat
  BY FS_CardinalityType
<1>. QED
  BY <1>1, ConstantsAssumption DEF Kept

\* A search returns what the index holds for the tenant, and no more than top_k.
LEMMA ResultsAre ==
    ASSUME TypeOK, NEW r \in Request, NEW m \in SUBSET Visible(r),
           NEW score, \A c \in m : score[c] \in Nat,
           NEW list \in Results(m, score)
    PROVE  /\ list \in Seq(ScoredHit)
           /\ Len(list) <= TopK
           /\ \A i \in DOMAIN list : /\ <<list[i].chunk, list[i].text>> \in Held
                                     /\ Owner[list[i].chunk] = tenant[r]
<1> DEFINE size == Kept(Cardinality(m))
<1>1. size \in Nat /\ size <= TopK
  <2>1. m \subseteq Chunk
    BY DEF Visible
  <2>2. IsFiniteSet(m)
    BY <2>1, FS_Subset, ConstantsAssumption
  <2>. QED
    BY <2>2, KeptIs
<1>2. PICK s \in [1 .. size -> m] :
         list = [i \in DOMAIN s |-> [chunk |-> s[i], text |-> index[s[i]], score |-> score[s[i]]]]
  BY DEF Results, Ranked
<1> HIDE DEF size
<1>3. DOMAIN s = 1 .. size
  BY <1>2
<1>4. \A i \in 1 .. size : /\ s[i] \in Chunk /\ index[s[i]] \in Text
                           /\ index[s[i]] # Absent /\ Owner[s[i]] = tenant[r]
                           /\ score[s[i]] \in Nat
  BY <1>2 DEF Visible, TypeOK
<1>5. list = [i \in 1 .. size |-> [chunk |-> s[i], text |-> index[s[i]], score |-> score[s[i]]]]
  BY <1>2, <1>3
<1>6. \A i \in 1 .. size : /\ list[i] \in ScoredHit
                           /\ list[i].chunk = s[i] /\ list[i].text = index[s[i]]
  BY <1>4, <1>5 DEF ScoredHit
<1>7. list \in Seq(ScoredHit) /\ Len(list) = size
  BY <1>1, <1>5, <1>6
<1>8. \A i \in 1 .. size : <<list[i].chunk, list[i].text>> \in Held
  BY <1>4, <1>6 DEF Held
<1>. QED
  BY <1>1, <1>4, <1>5, <1>6, <1>7, <1>8

LEMMA Bm25ResultsAre ==
    ASSUME TypeOK, NEW r \in Request, NEW list \in Bm25Results(r)
    PROVE  /\ list \in Seq(ScoredHit)
           /\ Len(list) <= TopK
           /\ \A i \in DOMAIN list : /\ <<list[i].chunk, list[i].text>> \in Held
                                     /\ Owner[list[i].chunk] = tenant[r]
<1>1. PICK m \in SUBSET Visible(r) : \E score \in [m -> Scores] : list \in Results(m, score)
  BY DEF Bm25Results
<1>2. PICK score \in [m -> Scores] : list \in Results(m, score)
  BY <1>1
<1>3. \A c \in m : score[c] \in Nat
  BY <1>2, ConstantsAssumption
<1>. QED
  BY <1>2, <1>3, ResultsAre

LEMMA VectorResultsAre ==
    ASSUME TypeOK, NEW r \in Request, NEW list \in VectorResults(r)
    PROVE  /\ list \in Seq(ScoredHit)
           /\ Len(list) <= TopK
           /\ \A i \in DOMAIN list : /\ <<list[i].chunk, list[i].text>> \in Held
                                     /\ Owner[list[i].chunk] = tenant[r]
<1>1. PICK cosine \in [Visible(r) -> Cosines] :
         list \in Results(Similar(r, cosine), [c \in Visible(r) |-> cosine[c] + Unrelated])
  BY DEF VectorResults
<1>2. Similar(r, cosine) \in SUBSET Visible(r)
  BY DEF Similar
<1>3. \A c \in Similar(r, cosine) : cosine[c] + Unrelated \in Nat
  BY <1>1, ConstantsAssumption DEF Similar, Unrelated, TypeOK
<1>4. [c \in Visible(r) |-> cosine[c] + Unrelated] \in [Visible(r) -> Int]
  BY <1>1, ConstantsAssumption DEF Unrelated
<1>5. PICK m \in SUBSET Visible(r) : \E score \in [Visible(r) -> Int] :
         list \in Results(m, score) /\ \A c \in m : score[c] \in Nat
  BY <1>1, <1>2, <1>3, <1>4
<1>6. PICK score \in [Visible(r) -> Int] :
         list \in Results(m, score) /\ \A c \in m : score[c] \in Nat
  BY <1>5
<1>. QED
  BY <1>6, ResultsAre

LEMMA HitsAre ==
    ASSUME NEW list \in Seq(ScoredHit)
    PROVE  \A i \in DOMAIN list : list[i].chunk \in Chunk /\ list[i].text \in Text
<1>1. \A i \in DOMAIN list : list[i] \in ScoredHit
  OBVIOUS
<1>. QED
  BY <1>1 DEF ScoredHit

\* Fusion returns hits of its two lists, each chunk once, and no more than top_k.
LEMMA FusionsAre ==
    ASSUME NEW b \in Seq(ScoredHit), NEW v \in Seq(ScoredHit), NEW fused \in Fusions(b, v)
    PROVE  /\ fused \in Seq(Hit)
           /\ Len(fused) <= TopK
           /\ \A i, j \in DOMAIN fused : i # j => fused[i].chunk # fused[j].chunk
           /\ \A k \in DOMAIN fused : \/ \E i \in DOMAIN b : Same(fused[k], b[i])
                                      \/ \E i \in DOMAIN v : Same(fused[k], v[i])
<1> DEFINE S == ChunksOf(b) \cup ChunksOf(v)
           size == Kept(Cardinality(S))
<1>1. size \in Nat /\ size <= TopK
  <2>1. S \subseteq Chunk
    BY HitsAre DEF ChunksOf
  <2>2. IsFiniteSet(S)
    BY <2>1, FS_Subset, ConstantsAssumption
  <2>. QED
    BY <2>2, KeptIs
<1>2. PICK s \in [1 .. size -> S] :
         /\ \A i, j \in 1 .. size : i < j => s[i] # s[j]
         /\ fused = [k \in DOMAIN s |-> [chunk |-> s[k], text |-> First(b, v, s[k]).text]]
  BY DEF Fusions, Ranked
<1>3. \A c \in S : \/ \E i \in DOMAIN b : c = b[i].chunk /\ First(b, v, c) = b[i]
                   \/ \E i \in DOMAIN v : c = v[i].chunk /\ First(b, v, c) = v[i]
  <2> SUFFICES ASSUME NEW c \in S
               PROVE  \/ \E i \in DOMAIN b : c = b[i].chunk /\ First(b, v, c) = b[i]
                      \/ \E i \in DOMAIN v : c = v[i].chunk /\ First(b, v, c) = v[i]
    OBVIOUS
  <2>1. CASE Finds(b, c)
    <3>1. PlaceOf(b, c) \in DOMAIN b /\ b[PlaceOf(b, c)].chunk = c
      BY <2>1 DEF Finds, PlaceOf
    <3>. QED
      BY <2>1, <3>1 DEF First, HitOf
  <2>2. CASE ~Finds(b, c)
    <3>1. \E i \in DOMAIN v : v[i].chunk = c
      BY <2>2 DEF Finds, ChunksOf
    <3>2. PlaceOf(v, c) \in DOMAIN v /\ v[PlaceOf(v, c)].chunk = c
      BY <3>1 DEF PlaceOf
    <3>. QED
      BY <2>2, <3>2 DEF First, HitOf
  <2>. QED
    BY <2>1, <2>2
<1> HIDE DEF size, S
<1>4. fused = [k \in 1 .. size |-> [chunk |-> s[k], text |-> First(b, v, s[k]).text]]
  BY <1>2
<1>5. \A k \in 1 .. size : fused[k].chunk = s[k] /\ fused[k].text = First(b, v, s[k]).text
  BY <1>4
<1>6. \A k \in 1 .. size : \/ \E i \in DOMAIN b : Same(fused[k], b[i])
                           \/ \E i \in DOMAIN v : Same(fused[k], v[i])
  BY <1>2, <1>3, <1>5 DEF Same
<1>7. \A i \in DOMAIN b : b[i].chunk \in Chunk /\ b[i].text \in Text
  BY HitsAre
<1>8. \A i \in DOMAIN v : v[i].chunk \in Chunk /\ v[i].text \in Text
  BY HitsAre
<1>9. \A k \in 1 .. size : fused[k] \in Hit
  BY <1>4, <1>5, <1>6, <1>7, <1>8 DEF Same, Hit
<1>10. fused \in Seq(Hit) /\ Len(fused) = size /\ DOMAIN fused = 1 .. size
  BY <1>1, <1>4, <1>9
<1>11. \A i, j \in 1 .. size : i # j => fused[i].chunk # fused[j].chunk
  BY <1>1, <1>2, <1>5
<1>. QED
  BY <1>1, <1>6, <1>10, <1>11

\* The draft uses the first two hits.
LEMMA UsedAre ==
    ASSUME NEW fused \in Seq(Hit)
    PROVE  /\ Used(fused) \in Seq(Hit)
           /\ Len(Used(fused)) <= 2
           /\ \A i \in DOMAIN Used(fused) : i \in DOMAIN fused /\ Used(fused)[i] = fused[i]
           /\ \A i \in DOMAIN fused : i <= 2 => i \in DOMAIN Used(fused)
<1> DEFINE n == IF Len(fused) < 2 THEN Len(fused) ELSE 2
<1>1. n \in Nat /\ n <= 2 /\ n <= Len(fused) /\ (Len(fused) >= 2 => n = 2)
                /\ (Len(fused) < 2 => n = Len(fused))
  OBVIOUS
<1>2. Used(fused) = SubSeq(fused, 1, n)
  BY DEF Used
<1> HIDE DEF n
<1>3. Used(fused) = [i \in 1 .. n |-> fused[i]]
  BY <1>1, <1>2
<1>4. \A i \in 1 .. n : fused[i] \in Hit
  BY <1>1
<1>. QED
  BY <1>1, <1>3, <1>4
-----------------------------------------------------------------------------
(* The inductive invariant                                                 *)

\* While a run searches, everything the index holds counts as seen by it.
Watches == \A r \in Request : pc[r] \in {"bm25", "vector"} => Held \subseteq seen[r]

\* What the first search found stays evidence, though the index may forget it.
Found == \A r \in Request : \A i \in DOMAIN bm25[r] : Evidence(r, bm25[r][i])

\* An answer cites the hits its draft used; no chunk is a hit twice.
Cited ==
    \A r \in Request :
        /\ \A i, j \in DOMAIN hits[r] : i # j => hits[r][i].chunk # hits[r][j].chunk
        /\ pc[r] = "done" =>
              IF answer[r].refused
              THEN answer[r].citations = <<>>
              ELSE hits[r] # <<>> /\ answer[r].citations = Used(hits[r])

\* A run that has not started has nothing.
Fresh ==
    \A r \in Request : pc[r] = "new" => bm25[r] = <<>> /\ answer[r].citations = <<>>

Inv == TypeOK /\ Fresh /\ Watches /\ Found /\ Cited /\ CitationsWereIndexed

LEMMA InitInv == Init => Inv
<1> SUFFICES ASSUME Init PROVE Inv
  OBVIOUS
<1>1. TypeOK
  <2>1. NoAnswer \in Answer
    BY DEF NoAnswer, Answer
  <2>2. NoAnswer.citations = <<>> /\ Len(<<>>) = 0
    BY DEF NoAnswer
  <2>. QED
    BY <2>1, <2>2, ConstantsAssumption DEF Init, TypeOK
<1>2. Fresh /\ Watches /\ Found /\ Cited /\ CitationsWereIndexed
  BY DEF Init, Fresh, Watches, Found, Cited, CitationsWereIndexed, NoAnswer
<1>. QED
  BY <1>1, <1>2 DEF Inv

LEMMA RefusalIs ==
    ASSUME NEW used \in Seq(Hit)
    PROVE  /\ Refusal(used, used) \in Answer
           /\ Refusal(used, used).refused
           /\ Refusal(used, used).citations = <<>>
<1> DEFINE tokens == UNION {Quoted[t] : t \in Text}
<1>1. \A i \in DOMAIN used : used[i] \in Hit
  OBVIOUS
<1>2. \A i \in DOMAIN used : used[i].text \in Text
  BY <1>1 DEF Hit
<1>3. Reported(used, used) \in SUBSET tokens
  BY <1>2 DEF Reported, Unsupported, AnswerTokens
<1>4. Refusal(used, used) =
        [refused |-> TRUE, supported |-> FALSE,
         unsupported |-> Reported(used, used), citations |-> <<>>]
  BY DEF Refusal
<1>. QED
  BY <1>3, <1>4 DEF Answer

\* A draft cites what it used, so the critic never misses a citation; what it lets
\* through has evidence.
LEMMA ResponseIs ==
    ASSUME NEW fused \in Seq(Hit)
    PROVE  LET response == Response(Used(fused), Citations(fused))
           IN  /\ response \in Answer
               /\ Len(response.citations) <= 2
               /\ IF response.refused
                  THEN response.citations = <<>>
                  ELSE fused # <<>> /\ response.citations = Used(fused)
<1> DEFINE used == Used(fused)
           response == Response(used, used)
<1>1. used \in Seq(Hit) /\ Len(used) <= 2
  BY UsedAre
<1>2. CASE ShouldRefuse(used, used)
  <2>1. response = Refusal(used, used)
    BY <1>2 DEF Response
  <2> HIDE DEF used, response
  <2>. QED
    BY <1>1, <2>1, RefusalIs DEF Citations, response, used
<1>3. CASE ~ShouldRefuse(used, used)
  <2>1. response = [refused |-> FALSE, supported |-> TRUE, unsupported |-> {}, citations |-> used]
    BY <1>3 DEF Response
  <2>2. used # <<>>
    BY <1>3 DEF ShouldRefuse
  <2>3. fused # <<>>
    BY <2>2 DEF Used
  <2> HIDE DEF used, response
  <2>4. response \in Answer
    BY <1>1, <2>1 DEF Answer
  <2>. QED
    BY <1>1, <2>1, <2>3, <2>4 DEF Citations, response, used
<1>. QED
  BY <1>2, <1>3

-----------------------------------------------------------------------------
(* Every step preserves it                                                 *)

LEMMA RefuseInv == ASSUME Inv, NEW r \in Request, Refuse(r) PROVE Inv'
<1> DEFINE refusal == Refusal(<<>>, <<>>)
<1> USE DEF Inv
<1>1. refusal \in Answer /\ refusal.refused /\ refusal.citations = <<>> /\ Len(<<>>) = 0
  <2>1. <<>> \in Seq(Hit) /\ Len(<<>>) = 0
    OBVIOUS
  <2>. QED
    BY <2>1, RefusalIs
<1>2. answer' = [answer EXCEPT ![r] = refusal]
  BY DEF Refuse
<1> HIDE DEF refusal
<1>3. TypeOK'
  BY <1>1, <1>2 DEF Refuse, Goto, TypeOK
<1>4. Fresh' /\ Watches' /\ Found'
  BY DEF Refuse, Goto, TypeOK, Fresh, Watches, Found, Held, Evidence
<1>5. Cited'
  BY <1>1, <1>2 DEF Refuse, Goto, TypeOK, Cited
<1>6. CitationsWereIndexed'
  <2>1. \A q \in Request : answer'[q].citations = IF q = r THEN <<>> ELSE answer[q].citations
    BY <1>1, <1>2 DEF TypeOK
  <2>2. \A q \in Request : \A i \in DOMAIN answer'[q].citations :
           q # r /\ answer'[q].citations = answer[q].citations
    BY <2>1
  <2>. QED
    BY <2>2 DEF Refuse, CitationsWereIndexed
<1>. QED
  BY <1>3, <1>4, <1>5, <1>6

LEMMA RetrieveInv == ASSUME Inv, NEW r \in Request, Retrieve(r) PROVE Inv'
<1> USE DEF Inv
<1>1. Held \subseteq Chunk \X Text
  BY DEF Held, TypeOK
<1>2. TypeOK'
  BY <1>1 DEF Retrieve, Goto, TypeOK
<1>3. Fresh' /\ Watches'
  BY DEF Retrieve, Goto, TypeOK, Fresh, Watches, Held
<1>4. Found'
  BY DEF Retrieve, TypeOK, Found, Evidence, Fresh
<1>5. Cited'
  BY DEF Retrieve, Goto, TypeOK, Cited
<1>6. CitationsWereIndexed'
  <2>1. \A q \in Request : \A i \in DOMAIN answer[q].citations : q # r
    BY DEF Retrieve, Fresh
  <2>2. \A q \in Request : q # r => seen'[q] = seen[q]
    BY DEF Retrieve, TypeOK
  <2>. QED
    BY <2>1, <2>2 DEF Retrieve, CitationsWereIndexed
<1>. QED
  BY <1>2, <1>3, <1>4, <1>5, <1>6

LEMMA Bm25SearchInv == ASSUME Inv, NEW r \in Request, Bm25Search(r) PROVE Inv'
<1> USE DEF Inv
<1>1. PICK list \in Bm25Results(r) : bm25' = [bm25 EXCEPT ![r] = list]
  BY DEF Bm25Search
<1>2. /\ list \in Seq(ScoredHit) /\ Len(list) <= TopK
      /\ \A i \in DOMAIN list : /\ <<list[i].chunk, list[i].text>> \in Held
                                /\ Owner[list[i].chunk] = tenant[r]
  BY Bm25ResultsAre
<1>3. Held \subseteq seen[r]
  BY DEF Bm25Search, Watches
<1>4. TypeOK'
  BY <1>1, <1>2 DEF Bm25Search, Goto, TypeOK
<1>5. Fresh' /\ Watches'
  BY DEF Bm25Search, Goto, TypeOK, Fresh, Watches, Held
<1>6. Found'
  BY <1>1, <1>2, <1>3 DEF Bm25Search, TypeOK, Found, Evidence
<1>7. Cited' /\ CitationsWereIndexed'
  BY DEF Bm25Search, Goto, TypeOK, Cited, CitationsWereIndexed
<1>. QED
  BY <1>4, <1>5, <1>6, <1>7

LEMMA VectorSearchInv == ASSUME Inv, NEW r \in Request, VectorSearch(r) PROVE Inv'
<1> USE DEF Inv
<1>1. PICK list \in VectorResults(r) : \E fused \in Fusions(bm25[r], list) :
         /\ vector' = [vector EXCEPT ![r] = list]
         /\ hits' = [hits EXCEPT ![r] = fused]
         /\ answer' = [answer EXCEPT ![r] = Response(Used(fused), Citations(fused))]
  BY DEF VectorSearch
<1>2. PICK fused \in Fusions(bm25[r], list) :
         /\ vector' = [vector EXCEPT ![r] = list]
         /\ hits' = [hits EXCEPT ![r] = fused]
         /\ answer' = [answer EXCEPT ![r] = Response(Used(fused), Citations(fused))]
  BY <1>1
<1>3. /\ list \in Seq(ScoredHit) /\ Len(list) <= TopK
      /\ \A i \in DOMAIN list : Evidence(r, list[i])
  <2>1. Held \subseteq seen[r]
    BY DEF VectorSearch, Watches
  <2>. QED
    BY <2>1, VectorResultsAre DEF Evidence
<1>4. bm25[r] \in Seq(ScoredHit)
  BY DEF TypeOK
<1>5. /\ fused \in Seq(Hit) /\ Len(fused) <= TopK
      /\ \A i, j \in DOMAIN fused : i # j => fused[i].chunk # fused[j].chunk
      /\ \A k \in DOMAIN fused : \/ \E i \in DOMAIN bm25[r] : Same(fused[k], bm25[r][i])
                                 \/ \E i \in DOMAIN list : Same(fused[k], list[i])
  BY <1>3, <1>4, FusionsAre
<1>6. \A k \in DOMAIN fused : Evidence(r, fused[k])
  <2>1. \A i \in DOMAIN bm25[r] : Evidence(r, bm25[r][i])
    BY DEF Found
  <2>2. ASSUME NEW hit, NEW other, Same(hit, other), Evidence(r, other) PROVE Evidence(r, hit)
    BY <2>2 DEF Same, Evidence
  <2>. QED
    BY <1>3, <1>5, <2>1, <2>2
<1> DEFINE response == Response(Used(fused), Citations(fused))
<1>7. /\ response \in Answer /\ Len(response.citations) <= 2
      /\ IF response.refused
         THEN response.citations = <<>>
         ELSE fused # <<>> /\ response.citations = Used(fused)
  BY <1>5, ResponseIs
<1>8. answer' = [answer EXCEPT ![r] = response]
  BY <1>2
<1> HIDE DEF response
<1>9. \A i \in DOMAIN response.citations : Evidence(r, response.citations[i])
  BY <1>5, <1>6, <1>7, UsedAre
<1>10. TypeOK'
  BY <1>2, <1>3, <1>5, <1>7, <1>8 DEF VectorSearch, Goto, TypeOK
<1>11. Fresh' /\ Watches' /\ Found'
  BY <1>8 DEF VectorSearch, Goto, TypeOK, Fresh, Watches, Found, Held, Evidence
<1>12. Cited'
  BY <1>2, <1>5, <1>7, <1>8 DEF VectorSearch, Goto, TypeOK, Cited
<1>13. CitationsWereIndexed'
  <2>1. answer'[r] = response /\ \A q \in Request : q # r => answer'[q] = answer[q]
    BY <1>8 DEF TypeOK
  <2>2. seen' = seen /\ tenant' = tenant
    BY DEF VectorSearch
  <2> SUFFICES ASSUME NEW q \in Request, NEW i \in DOMAIN answer'[q].citations
               PROVE  /\ <<answer'[q].citations[i].chunk, answer'[q].citations[i].text>> \in seen'[q]
                      /\ Owner[answer'[q].citations[i].chunk] = tenant'[q]
    BY DEF CitationsWereIndexed
  <2>3. CASE q = r
    BY <1>9, <2>1, <2>2, <2>3 DEF Evidence
  <2>4. CASE q # r
    BY <2>1, <2>2, <2>4 DEF CitationsWereIndexed
  <2>. QED
    BY <2>3, <2>4
<1>. QED
  BY <1>10, <1>11, <1>12, <1>13

LEMMA FailInv == ASSUME Inv, NEW r \in Request, Fail(r) PROVE Inv'
<1> USE DEF Inv
<1>1. TypeOK'
  BY DEF Fail, Goto, TypeOK
<1>2. Fresh' /\ Watches' /\ Found'
  BY DEF Fail, Goto, TypeOK, Fresh, Watches, Found, Held, Evidence
<1>3. Cited' /\ CitationsWereIndexed'
  BY DEF Fail, Goto, TypeOK, Cited, CitationsWereIndexed
<1>. QED
  BY <1>1, <1>2, <1>3

LEMMA IndexChunkInv ==
    ASSUME Inv, NEW c \in Chunk, NEW t \in Text, IndexChunk(c, t) PROVE Inv'
<1> USE DEF Inv
<1>1. TypeOK'
  BY ConstantsAssumption DEF IndexChunk, TypeOK
<1>2. \A r \in Request : seen[r] \subseteq seen'[r]
  BY DEF IndexChunk, TypeOK
<1>3. Held' \subseteq Held \cup {<<c, t>>}
  BY DEF IndexChunk, TypeOK, Held
<1>4. Fresh' /\ Watches'
  BY <1>3 DEF IndexChunk, TypeOK, Fresh, Watches
<1>5. Found' /\ CitationsWereIndexed'
  BY <1>2 DEF IndexChunk, Found, Evidence, CitationsWereIndexed
<1>6. Cited'
  BY DEF IndexChunk, Cited
<1>. QED
  BY <1>1, <1>4, <1>5, <1>6

LEMMA NextInv == Inv /\ [Next]_vars => Inv'
<1> SUFFICES ASSUME Inv, [Next]_vars PROVE Inv'
  OBVIOUS
<1>1. ASSUME NEW r \in Request,
             Refuse(r) \/ Retrieve(r) \/ Bm25Search(r) \/ VectorSearch(r) \/ Fail(r)
      PROVE  Inv'
  BY <1>1, RefuseInv, RetrieveInv, Bm25SearchInv, VectorSearchInv, FailInv
<1>2. ASSUME NEW c \in Chunk, NEW t \in Text, IndexChunk(c, t) PROVE Inv'
  BY <1>2, IndexChunkInv
<1>3. CASE UNCHANGED vars
  BY <1>3 DEF vars, Inv, TypeOK, Fresh, Watches, Found, Cited, CitationsWereIndexed, Held, Evidence
<1>. QED
  BY <1>1, <1>2, <1>3 DEF Next

\* The invariant of AgentRuntime.run: what it found is evidence, what it cites it used.
THEOREM Invariance == Spec => []Inv
<1>1. Init => Inv
  BY InitInv
<1>2. Inv /\ [Next]_vars => Inv'
  BY NextInv
<1>. QED
  BY <1>1, <1>2, PTL DEF Spec

\* Every variable keeps its shape; top_k and the two citations of a draft bound lists.
THEOREM TypeCorrectness == Spec => []TypeOK
BY Invariance, PTL DEF Inv

\* Whatever is written between the two searches of a run, it cites only what the index
\* held for its tenant while it ran.
THEOREM CitationsSafety == Spec => []CitationsWereIndexed
BY Invariance, PTL DEF Inv

LEMMA InvCited == Inv => AnswersAreCited
<1> SUFFICES ASSUME Inv, NEW r \in Request, pc[r] = "done"
             PROVE  IF answer[r].refused
                    THEN answer[r].citations = <<>>
                    ELSE LET cited == answer[r].citations
                         IN  /\ cited # <<>>
                             /\ \A i, j \in DOMAIN cited : i # j => cited[i].chunk # cited[j].chunk
                             /\ \A i \in DOMAIN hits[r] : i <= 2 => hits[r][i].chunk \in ChunksOf(cited)
  BY DEF AnswersAreCited
<1> SUFFICES ASSUME ~answer[r].refused
             PROVE  LET cited == answer[r].citations
                    IN  /\ cited # <<>>
                        /\ \A i, j \in DOMAIN cited : i # j => cited[i].chunk # cited[j].chunk
                        /\ \A i \in DOMAIN hits[r] : i <= 2 => hits[r][i].chunk \in ChunksOf(cited)
  BY DEF Inv, Cited
<1> DEFINE cited == answer[r].citations
<1>1. hits[r] # <<>> /\ cited = Used(hits[r]) /\ hits[r] \in Seq(Hit)
  BY DEF Inv, Cited, TypeOK
<1>2. /\ \A i \in DOMAIN cited : i \in DOMAIN hits[r] /\ cited[i] = hits[r][i]
      /\ \A i \in DOMAIN hits[r] : i <= 2 => i \in DOMAIN cited
  BY <1>1, UsedAre
<1> HIDE DEF cited
<1>3. \A i, j \in DOMAIN cited : i # j => cited[i].chunk # cited[j].chunk
  BY <1>2 DEF Inv, Cited
<1>4. \A i \in DOMAIN hits[r] : i <= 2 => hits[r][i].chunk \in ChunksOf(cited)
  BY <1>2 DEF ChunksOf
<1>5. cited # <<>>
  <2>1. 1 \in DOMAIN hits[r]
    BY <1>1
  <2>. QED
    BY <1>2, <2>1
<1>. QED
  BY <1>3, <1>4, <1>5 DEF cited

\* A run refuses without citations or cites, once each, the hits that it quotes.
THEOREM AnswersSafety == Spec => []AnswersAreCited
BY Invariance, InvCited, PTL

=============================================================================
