---------------------------- MODULE FusionProofs ----------------------------
(***************************************************************************)
(* Proofs about what AgentRuntime makes of its two lists of hits: their    *)
(* fusion respects dominance, and the critic refuses a draft for want of   *)
(* evidence, and only then.  For the same constants as AgentRuntimeProofs, *)
(* and all weights.                                                        *)
(***************************************************************************)
EXTENDS AgentRuntimeProofs

\* A search returns its hits best first, each chunk once.
Sorted(list) ==
    \A i, j \in DOMAIN list : i < j => /\ list[i].score >= list[j].score
                                       /\ list[i].chunk # list[j].chunk

Ordered(list) == list \in Seq(ScoredHit) /\ Sorted(list)

-----------------------------------------------------------------------------
(* Lists                                                                   *)

LEMMA EmptyList ==
    ASSUME NEW list \in Seq(Hit), DOMAIN list = {}
    PROVE  list = <<>>
<1>1. Len(list) \in Nat /\ DOMAIN list = 1 .. Len(list)
  OBVIOUS
<1>2. Len(list) = 0
  <2>1. Len(list) > 0 => 1 \in 1 .. Len(list)
    BY <1>1
  <2>. QED
    BY <1>1, <2>1
<1>. QED
  BY <1>2

LEMMA ScoresAre ==
    ASSUME NEW list, Ordered(list)
    PROVE  \A i \in DOMAIN list : list[i].score \in Nat
<1>1. \A i \in DOMAIN list : list[i] \in ScoredHit
  BY DEF Ordered
<1>. QED
  BY <1>1 DEF ScoredHit

LEMMA ResultsSorted ==
    ASSUME TypeOK, NEW r \in Request, NEW m \in SUBSET Visible(r), NEW score,
           \A c \in m : score[c] \in Nat, NEW list \in Results(m, score)
    PROVE  /\ Ordered(list)
           /\ \A i \in DOMAIN list : \E c \in m : list[i].score = score[c]
<1> DEFINE size == Kept(Cardinality(m))
<1>1. PICK s \in [1 .. size -> m] :
         /\ \A i, j \in 1 .. size : i < j => s[i] # s[j] /\ ~(score[s[j]] > score[s[i]])
         /\ list = [i \in DOMAIN s |-> [chunk |-> s[i], text |-> index[s[i]], score |-> score[s[i]]]]
  BY DEF Results, Ranked
<1>2. list \in Seq(ScoredHit)
  BY ResultsAre
<1>3. list = [i \in 1 .. size |-> [chunk |-> s[i], text |-> index[s[i]], score |-> score[s[i]]]]
  BY <1>1
<1> HIDE DEF size
<1>4. DOMAIN list = 1 .. size
  BY <1>3
<1>5. \A i \in 1 .. size : /\ list[i].chunk = s[i] /\ list[i].score = score[s[i]]
                           /\ s[i] \in m /\ score[s[i]] \in Nat
  BY <1>1, <1>3
<1>6. Sorted(list)
  BY <1>1, <1>4, <1>5 DEF Sorted
<1>. QED
  BY <1>2, <1>4, <1>5, <1>6 DEF Ordered

LEMMA Bm25Sorted ==
    ASSUME TypeOK, NEW r \in Request, NEW list \in Bm25Results(r)
    PROVE  Ordered(list)
<1>1. PICK m \in SUBSET Visible(r) : \E score \in [m -> Scores] : list \in Results(m, score)
  BY DEF Bm25Results
<1>2. PICK score \in [m -> Scores] : list \in Results(m, score)
  BY <1>1
<1>3. \A c \in m : score[c] \in Nat
  BY <1>2, ConstantsAssumption
<1>. QED
  BY <1>2, <1>3, ResultsSorted

\* In memory, every hit of the vector search has something to do with the question.
LEMMA VectorSorted ==
    ASSUME TypeOK, NEW r \in Request, NEW list \in VectorResults(r)
    PROVE  /\ Ordered(list)
           /\ ~openSearch => \A i \in DOMAIN list : list[i].score > Unrelated
<1>1. PICK cosine \in [Visible(r) -> Cosines] :
         list \in Results(Similar(r, cosine), [c \in Visible(r) |-> cosine[c] + Unrelated])
  BY DEF VectorResults
<1> DEFINE m == Similar(r, cosine)
           score == [c \in Visible(r) |-> cosine[c] + Unrelated]
<1>2. m \in SUBSET Visible(r)
  BY DEF Similar
<1>3. \A c \in m : score[c] \in Nat /\ (~openSearch => score[c] > Unrelated)
  <2>1. \A c \in m : score[c] = cosine[c] + Unrelated /\ cosine[c] \in Int /\ cosine[c] >= Opposite
    BY <1>2, ConstantsAssumption
  <2>2. Unrelated \in Int /\ (openSearch => Unrelated = 0 - Opposite) /\ (~openSearch => Unrelated = 0)
    BY ConstantsAssumption DEF Unrelated
  <2>3. ~openSearch => \A c \in m : cosine[c] > 0
    BY DEF Similar
  <2>. QED
    BY <2>1, <2>2, <2>3, ConstantsAssumption
<1> HIDE DEF m, score
<1>4. list \in Results(m, score)
  BY <1>1 DEF m, score
<1>5. Ordered(list) /\ \A i \in DOMAIN list : \E c \in m : list[i].score = score[c]
  <2>1. \A c \in m : score[c] \in Nat
    BY <1>3
  <2>. QED
    BY <1>2, <1>4, <2>1, ResultsSorted
<1>. QED
  BY <1>3, <1>5

\* The best and the worst score of a list are its first and its last.
LEMMA Ends ==
    ASSUME NEW list, Ordered(list), list # <<>>
    PROVE  /\ Least(ScoresOf(list)) \in Nat /\ Greatest(ScoresOf(list)) \in Nat
           /\ \A i \in DOMAIN list : /\ list[i].score \in Nat
                                     /\ Least(ScoresOf(list)) <= list[i].score
                                     /\ list[i].score <= Greatest(ScoresOf(list))
<1> DEFINE S == ScoresOf(list)
           n == Len(list)
<1>1. n \in Nat /\ n >= 1 /\ DOMAIN list = 1 .. n
  BY DEF Ordered
<1>2. \A i \in 1 .. n : list[i].score \in Nat
  BY <1>1, ScoresAre
<1>3. \A i \in 1 .. n : list[n].score <= list[i].score /\ list[i].score <= list[1].score
  BY <1>1, <1>2 DEF Ordered, Sorted
<1>4. \A x \in S : \E i \in 1 .. n : x = list[i].score
  BY <1>1 DEF ScoresOf
<1>5. \A i \in 1 .. n : list[i].score \in S
  BY <1>1 DEF ScoresOf
<1> HIDE DEF S, n
<1>6. \E x \in S : \A y \in S : x <= y
  <2>1. n \in 1 .. n
    BY <1>1
  <2>2. list[n].score \in S
    BY <1>5, <2>1
  <2>3. ASSUME NEW y \in S PROVE list[n].score <= y
    BY <1>3, <1>4
  <2>. QED
    BY <2>2, <2>3
<1>7. \E x \in S : \A y \in S : x >= y
  <2>1. list[1].score \in S
    <3>1. 1 \in 1 .. n
      BY <1>1
    <3>. QED
      BY <1>5, <3>1
  <2>2. ASSUME NEW y \in S PROVE list[1].score >= y
    <3>1. PICK i \in 1 .. n : y = list[i].score
      BY <1>4
    <3>2. 1 \in 1 .. n /\ list[1].score \in Nat
      BY <1>1, <1>2
    <3>. QED
      BY <1>2, <1>3, <3>1, <3>2
  <2>. QED
    BY <2>1, <2>2
<1>8. Least(S) \in S /\ \A y \in S : Least(S) <= y
  BY <1>6 DEF Least
<1>9. Greatest(S) \in S /\ \A y \in S : Greatest(S) >= y
  BY <1>7 DEF Greatest
<1>10. \A x \in S : x \in Nat
  BY <1>2, <1>4
<1>. QED
  BY <1>1, <1>2, <1>5, <1>8, <1>9, <1>10 DEF S

LEMMA SpreadIs ==
    ASSUME NEW list, Ordered(list)
    PROVE  Spread(list) \in Nat \ {0}
<1>1. CASE list = <<>>
  BY <1>1 DEF Spread
<1>2. CASE list # <<>>
  <2>1. 1 \in DOMAIN list
    BY <1>2 DEF Ordered
  <2>2. /\ Least(ScoresOf(list)) \in Nat /\ Greatest(ScoresOf(list)) \in Nat
        /\ Least(ScoresOf(list)) <= Greatest(ScoresOf(list))
    BY <1>2, <2>1, Ends
  <2>. QED
    BY <2>2 DEF Spread
<1>. QED
  BY <1>1, <1>2

LEMMA PlaceIs ==
    ASSUME NEW list, NEW c, Finds(list, c)
    PROVE  /\ PlaceOf(list, c) \in DOMAIN list /\ list[PlaceOf(list, c)].chunk = c
           /\ HitOf(list, c) = list[PlaceOf(list, c)]
  BY DEF Finds, PlaceOf, HitOf

LEMMA ScoreIs ==
    ASSUME NEW list, Ordered(list), NEW c
    PROVE  ScoreOf(list, c) \in Nat
  BY ScoresAre, PlaceIs DEF ScoreOf

\* Normalising keeps the order of the scores, strictly among the chunks of a list.
LEMMA NormalizedKeepsOrder ==
    ASSUME NEW list, Ordered(list), NEW c, NEW d, ScoreOf(list, c) > ScoreOf(list, d)
    PROVE  /\ Finds(list, c)
           /\ Normalized(list, c) \in Nat /\ Normalized(list, d) \in Nat
           /\ Normalized(list, c) >= Normalized(list, d)
           /\ Finds(list, d) => /\ Normalized(list, c) > Normalized(list, d)
                                /\ PlaceOf(list, c) < PlaceOf(list, d)
<1> DEFINE low == Least(ScoresOf(list))
           high == Greatest(ScoresOf(list))
<1>1. ScoreOf(list, c) \in Nat /\ ScoreOf(list, d) \in Nat
  BY ScoreIs
<1>2. Finds(list, c)
  BY <1>1 DEF ScoreOf
<1>3. list # <<>> /\ PlaceOf(list, c) \in DOMAIN list
      /\ ScoreOf(list, c) = list[PlaceOf(list, c)].score
  BY <1>2, PlaceIs DEF ScoreOf
<1>4. /\ low \in Nat /\ high \in Nat /\ low <= ScoreOf(list, c) /\ ScoreOf(list, c) <= high
  BY <1>3, Ends
<1>5. Spread(list) \in Nat \ {0}
  BY SpreadIs
<1> HIDE DEF low, high
<1>6. Normalized(list, c) = IF low = high THEN Spread(list) ELSE ScoreOf(list, c) - low
  BY <1>2 DEF Normalized, low, high
<1>7. CASE ~Finds(list, d)
  <2>1. Normalized(list, d) = 0
    BY <1>7 DEF Normalized
  <2>. QED
    BY <1>1, <1>2, <1>4, <1>5, <1>6, <1>7, <2>1
<1>8. CASE Finds(list, d)
  <2>1. PlaceOf(list, d) \in DOMAIN list /\ ScoreOf(list, d) = list[PlaceOf(list, d)].score
    BY <1>8, PlaceIs DEF ScoreOf
  <2>2. low <= ScoreOf(list, d)
    BY <1>3, <2>1, Ends DEF low
  <2>3. low # high
    BY <1>1, <1>4, <2>2
  <2>4. Normalized(list, d) = ScoreOf(list, d) - low
    BY <1>8, <2>3 DEF Normalized, low, high
  <2>5. PlaceOf(list, c) < PlaceOf(list, d)
    <3>1. PlaceOf(list, c) \in Nat /\ PlaceOf(list, d) \in Nat
      BY <1>3, <2>1 DEF Ordered
    <3>2. PlaceOf(list, d) <= PlaceOf(list, c) => ScoreOf(list, d) >= ScoreOf(list, c)
      BY <1>1, <1>3, <2>1, <3>1 DEF Ordered, Sorted
    <3>. QED
      BY <1>1, <3>1, <3>2
  <2>. QED
    BY <1>1, <1>2, <1>4, <1>6, <2>2, <2>3, <2>4, <2>5
<1>. QED
  BY <1>7, <1>8

-----------------------------------------------------------------------------
(* Fusion                                                                  *)

LEMMA Products ==
    ASSUME NEW w \in Nat, NEW x \in Nat, NEW y \in Nat, NEW s \in Nat \ {0}, x >= y
    PROVE  /\ w * x * s \in Nat /\ w * y * s \in Nat
           /\ w * x * s >= w * y * s
           /\ w > 0 /\ x > y => w * x * s > w * y * s
<1>1. w * x \in Nat /\ w * y \in Nat
  OBVIOUS
<1>2. w * x >= w * y /\ (w > 0 /\ x > y => w * x > w * y)
  OBVIOUS
<1>3. \A p, q \in Nat : p * s \in Nat /\ q * s \in Nat /\ (p >= q => p * s >= q * s)
                        /\ (p > q => p * s > q * s)
  OBVIOUS
<1>. QED
  BY <1>1, <1>2, <1>3

\* A chunk that both searches scored higher comes first in the order of the fusion.
Precedes(b, v, c, d) ==
    \/ Fused(b, v, c) > Fused(b, v, d)
    \/ Fused(b, v, c) = Fused(b, v, d) /\ Place(b, v, c) < Place(b, v, d)

LEMMA DominantPrecedes ==
    ASSUME NEW b, NEW v, Ordered(b), Ordered(v), NEW c, NEW d,
           ScoreOf(b, c) > ScoreOf(b, d), ScoreOf(v, c) > ScoreOf(v, d),
           Finds(b, d) \/ Finds(v, d)
    PROVE  /\ Precedes(b, v, c, d) /\ ~Precedes(b, v, d, c)
<1>1. /\ Finds(b, c)
      /\ Normalized(b, c) \in Nat /\ Normalized(b, d) \in Nat /\ Normalized(b, c) >= Normalized(b, d)
      /\ Finds(b, d) => Normalized(b, c) > Normalized(b, d) /\ PlaceOf(b, c) < PlaceOf(b, d)
  BY NormalizedKeepsOrder
<1>2. /\ Finds(v, c)
      /\ Normalized(v, c) \in Nat /\ Normalized(v, d) \in Nat /\ Normalized(v, c) >= Normalized(v, d)
      /\ Finds(v, d) => Normalized(v, c) > Normalized(v, d) /\ PlaceOf(v, c) < PlaceOf(v, d)
  BY NormalizedKeepsOrder
<1>3. Spread(b) \in Nat \ {0} /\ Spread(v) \in Nat \ {0} /\ Bm25Weight \in Nat /\ VectorWeight \in Nat
  BY SpreadIs, ConstantsAssumption
<1>4. /\ Bm25Weight * Normalized(b, c) * Spread(v) \in Nat
      /\ Bm25Weight * Normalized(b, d) * Spread(v) \in Nat
      /\ Bm25Weight * Normalized(b, c) * Spread(v) >= Bm25Weight * Normalized(b, d) * Spread(v)
  BY <1>1, <1>3, Products
<1>5. /\ VectorWeight * Normalized(v, c) * Spread(b) \in Nat
      /\ VectorWeight * Normalized(v, d) * Spread(b) \in Nat
      /\ VectorWeight * Normalized(v, c) * Spread(b) >= VectorWeight * Normalized(v, d) * Spread(b)
  BY <1>2, <1>3, Products
<1>6. Fused(b, v, c) \in Nat /\ Fused(b, v, d) \in Nat /\ Fused(b, v, c) >= Fused(b, v, d)
  BY <1>4, <1>5 DEF Fused
<1>7. Place(b, v, c) < Place(b, v, d) /\ Place(b, v, c) \in Nat /\ Place(b, v, d) \in Nat
  <2>1. Place(b, v, c) = PlaceOf(b, c) /\ PlaceOf(b, c) \in 1 .. Len(b) /\ Len(b) \in Nat
    BY <1>1, PlaceIs DEF Place, Ordered
  <2>2. CASE Finds(b, d)
    <3>1. Place(b, v, d) = PlaceOf(b, d) /\ PlaceOf(b, d) \in 1 .. Len(b)
      BY <2>2, PlaceIs DEF Place, Ordered
    <3>. QED
      BY <1>1, <2>1, <2>2, <3>1
  <2>3. CASE ~Finds(b, d)
    <3>1. PlaceOf(v, d) \in 1 .. Len(v) /\ Len(v) \in Nat
      BY <2>3, PlaceIs DEF Ordered
    <3>2. Place(b, v, d) = Len(b) + PlaceOf(v, d)
      BY <2>3 DEF Place
    <3>. QED
      BY <2>1, <3>1, <3>2
  <2>. QED
    BY <2>2, <2>3
<1>. QED
  BY <1>6, <1>7 DEF Precedes

LEMMA FusionRespectsDominance ==
    ASSUME NEW b, NEW v, Ordered(b), Ordered(v), NEW fused \in Fusions(b, v),
           NEW d \in ChunksOf(fused), NEW c,
           ScoreOf(b, c) > ScoreOf(b, d), ScoreOf(v, c) > ScoreOf(v, d)
    PROVE  Finds(fused, c) /\ PlaceOf(fused, c) < PlaceOf(fused, d)
<1> DEFINE S == ChunksOf(b) \cup ChunksOf(v)
           size == Kept(Cardinality(S))
<1>1. PICK s \in [1 .. size -> S] :
         /\ \A i, j \in 1 .. size : i < j => s[i] # s[j] /\ ~Precedes(b, v, s[j], s[i])
         /\ \A x \in S \ {s[i] : i \in 1 .. size}, i \in 1 .. size : ~Precedes(b, v, x, s[i])
         /\ fused = [k \in DOMAIN s |-> [chunk |-> s[k], text |-> First(b, v, s[k]).text]]
  BY DEF Fusions, Ranked, Precedes
<1>2. \A x \in S : Finds(b, x) \/ Finds(v, x)
  BY DEF Finds, ChunksOf
<1>3. Finds(b, c)
  BY NormalizedKeepsOrder
<1>4. c \in S
  BY <1>3 DEF Finds, ChunksOf
<1>5. size \in Nat
  <2>1. S \subseteq Chunk
    BY HitsAre DEF Ordered, ChunksOf
  <2>2. IsFiniteSet(S)
    BY <2>1, FS_Subset, ConstantsAssumption
  <2>. QED
    BY <2>2, KeptIs
<1> HIDE DEF S
<1> HIDE DEF size
<1>6. DOMAIN fused = 1 .. size /\ \A k \in 1 .. size : fused[k].chunk = s[k] /\ s[k] \in S
  BY <1>1
<1>7. PICK k \in 1 .. size : s[k] = d
  BY <1>6 DEF ChunksOf
<1>8. Precedes(b, v, c, d) /\ ~Precedes(b, v, d, c)
  BY <1>2, <1>6, <1>7, DominantPrecedes
<1>9. PICK n \in 1 .. size : s[n] = c
  BY <1>1, <1>4, <1>7, <1>8
<1>10. n < k
  BY <1>1, <1>5, <1>7, <1>8, <1>9
<1>11. \A i, j \in 1 .. size : fused[i].chunk = fused[j].chunk => i = j
  BY <1>1, <1>5, <1>6
<1>12. Finds(fused, c) /\ Finds(fused, d)
  BY <1>6, <1>7, <1>9 DEF Finds
<1>13. PlaceOf(fused, c) = n /\ PlaceOf(fused, d) = k
  <2>1. /\ PlaceOf(fused, c) \in 1 .. size /\ fused[PlaceOf(fused, c)].chunk = c
        /\ PlaceOf(fused, d) \in 1 .. size /\ fused[PlaceOf(fused, d)].chunk = d
    BY <1>6, <1>12, PlaceIs
  <2>2. fused[n].chunk = c /\ fused[k].chunk = d
    BY <1>6, <1>7, <1>9
  <2>. QED
    BY <1>11, <2>1, <2>2
<1>. QED
  BY <1>10, <1>12, <1>13

-----------------------------------------------------------------------------
(* What a run has done                                                     *)

\* A finished run answers what its hits, the fusion of its two lists, deserve; or the
\* planner refused.
Concluded(r) ==
    \/ hits[r] = <<>> /\ answer[r].refused
    \/ /\ hits[r] \in Fusions(bm25[r], vector[r])
       /\ answer[r] = Response(Used(hits[r]), Citations(hits[r]))

Ran ==
    \A r \in Request :
        /\ Ordered(bm25[r]) /\ Ordered(vector[r])
        /\ ~openSearch => \A i \in DOMAIN vector[r] : vector[r][i].score > Unrelated
        /\ pc[r] # "done" => hits[r] = <<>>
        /\ pc[r] = "done" => Concluded(r)

LEMMA InitRan == Init => Ran
<1>1. Ordered(<<>>)
  BY DEF Ordered, Sorted
<1>. QED
  BY <1>1 DEF Init, Ran

\* A step that leaves what a run found and answered alone.
LEMMA Untouched ==
    ASSUME Ran, NEW r \in Request, UNCHANGED <<openSearch, bm25[r], vector[r], hits[r], answer[r]>>,
           pc'[r] = "done" <=> pc[r] = "done"
    PROVE  /\ Ordered(bm25'[r]) /\ Ordered(vector'[r])
           /\ ~openSearch' => \A i \in DOMAIN vector'[r] : vector'[r][i].score > Unrelated'
           /\ pc'[r] # "done" => hits'[r] = <<>>
           /\ pc'[r] = "done" => Concluded(r)'
<1>1. Unrelated' = Unrelated
  BY DEF Unrelated
<1>2. pc[r] = "done" => Concluded(r)'
  BY DEF Ran, Concluded
<1>. QED
  BY <1>1, <1>2 DEF Ran

LEMMA NextRan == Inv /\ Ran /\ [Next]_vars => Ran'
<1> SUFFICES ASSUME Inv, Ran, [Next]_vars PROVE Ran'
  OBVIOUS
<1> USE DEF Inv
<1>1. ASSUME NEW r \in Request, Refuse(r) PROVE Ran'
  <2>1. hits' = hits /\ hits[r] = <<>> /\ answer'[r].refused
    BY <1>1 DEF Refuse, Ran, Refusal, TypeOK
  <2>2. Concluded(r)'
    BY <2>1 DEF Concluded
  <2>3. ASSUME NEW q \in Request, q # r PROVE pc'[q] = pc[q] /\ answer'[q] = answer[q]
    BY <1>1, <2>3 DEF Refuse, Goto, TypeOK
  <2>4. pc'[r] = "done" /\ UNCHANGED <<openSearch, bm25, vector, hits>>
    BY <1>1 DEF Refuse, Goto, TypeOK
  <2>5. Unrelated' = Unrelated
    BY <2>4 DEF Unrelated
  <2>. QED
    BY <2>2, <2>3, <2>4, <2>5, Untouched DEF Ran
<1>2. ASSUME NEW r \in Request, Retrieve(r) \/ Fail(r) PROVE Ran'
  <2>1. UNCHANGED <<openSearch, bm25, vector, hits, answer>>
    BY <1>2 DEF Retrieve, Fail
  <2>2. \A q \in Request : pc'[q] = "done" <=> pc[q] = "done"
    BY <1>2 DEF Retrieve, Fail, Goto, TypeOK
  <2>. QED
    BY <2>1, <2>2, Untouched DEF Ran
<1>3. ASSUME NEW r \in Request, Bm25Search(r) PROVE Ran'
  <2>1. PICK list \in Bm25Results(r) : bm25' = [bm25 EXCEPT ![r] = list]
    BY <1>3 DEF Bm25Search
  <2>2. Ordered(list) /\ bm25'[r] = list
    BY <2>1, Bm25Sorted DEF TypeOK
  <2>3. /\ UNCHANGED <<openSearch, vector, hits, answer>>
        /\ pc[r] # "done" /\ pc'[r] # "done"
        /\ \A q \in Request : q # r => pc'[q] = pc[q] /\ bm25'[q] = bm25[q]
    BY <1>3, <2>1 DEF Bm25Search, Goto, TypeOK
  <2>4. Unrelated' = Unrelated
    BY <2>3 DEF Unrelated
  <2>. QED
    BY <2>2, <2>3, <2>4, Untouched DEF Ran
<1>4. ASSUME NEW r \in Request, VectorSearch(r) PROVE Ran'
  <2>1. PICK list \in VectorResults(r) : \E fused \in Fusions(bm25[r], list) :
           /\ vector' = [vector EXCEPT ![r] = list]
           /\ hits' = [hits EXCEPT ![r] = fused]
           /\ answer' = [answer EXCEPT ![r] = Response(Used(fused), Citations(fused))]
    BY <1>4 DEF VectorSearch
  <2>2. PICK fused \in Fusions(bm25[r], list) :
           /\ vector' = [vector EXCEPT ![r] = list]
           /\ hits' = [hits EXCEPT ![r] = fused]
           /\ answer' = [answer EXCEPT ![r] = Response(Used(fused), Citations(fused))]
    BY <2>1
  <2>3. /\ vector'[r] = list /\ hits'[r] = fused /\ bm25'[r] = bm25[r] /\ pc'[r] = "done"
        /\ answer'[r] = Response(Used(fused), Citations(fused))
        /\ UNCHANGED <<openSearch, bm25>>
    BY <1>4, <2>2 DEF VectorSearch, Goto, TypeOK
  <2>4. \A q \in Request : q # r =>
           pc'[q] = pc[q] /\ vector'[q] = vector[q] /\ hits'[q] = hits[q] /\ answer'[q] = answer[q]
    BY <1>4, <2>2 DEF VectorSearch, Goto, TypeOK
  <2>5. Ordered(list) /\ (~openSearch => \A i \in DOMAIN list : list[i].score > Unrelated)
    BY VectorSorted
  <2>6. Concluded(r)'
    BY <2>2, <2>3 DEF Concluded
  <2>7. Unrelated' = Unrelated
    BY <2>3 DEF Unrelated
  <2>. QED
    BY <2>3, <2>4, <2>5, <2>6, <2>7, Untouched DEF Ran
<1>5. ASSUME NEW c \in Chunk, NEW t \in Text, IndexChunk(c, t) PROVE Ran'
  BY <1>5, Untouched DEF IndexChunk, Ran
<1>6. CASE UNCHANGED vars
  BY <1>6, Untouched DEF vars, Ran
<1>. QED
  BY <1>1, <1>2, <1>3, <1>4, <1>5, <1>6 DEF Next

LEMMA Histories == Spec => [](Inv /\ Ran)
  BY InitInv, NextInv, InitRan, NextRan, PTL DEF Spec

-----------------------------------------------------------------------------
\* fuse_hits never ranks a chunk above one that both searches scored higher.
THEOREM DominanceSafety == Spec => []DominanceRespected
<1>1. Inv /\ Ran => DominanceRespected
  <2> SUFFICES ASSUME Inv, Ran, NEW r \in Request, NEW d \in ChunksOf(hits[r]),
                      NEW c \in ChunksOf(bm25[r]) \cup ChunksOf(vector[r]),
                      ScoreOf(bm25[r], c) > ScoreOf(bm25[r], d),
                      ScoreOf(vector[r], c) > ScoreOf(vector[r], d)
               PROVE  Finds(hits[r], c) /\ PlaceOf(hits[r], c) < PlaceOf(hits[r], d)
    BY DEF DominanceRespected
  <2>1. hits[r] # <<>>
    BY DEF ChunksOf
  <2>2. hits[r] \in Fusions(bm25[r], vector[r]) /\ Ordered(bm25[r]) /\ Ordered(vector[r])
    BY <2>1 DEF Ran, Concluded
  <2>. QED
    BY <2>2, FusionRespectsDominance
<1>. QED
  BY <1>1, Histories, PTL

\* With an InMemorySearchIndex, a question without evidence is refused.
THEOREM RefusalSafety == Spec => []RefusesInMemory
<1>1. Inv /\ Ran => RefusesInMemory
  <2> SUFFICES ASSUME Inv, Ran, NEW r \in Request, pc[r] = "done", ~openSearch, ~HasEvidence(r)
               PROVE  answer[r].refused
    BY DEF RefusesInMemory
  <2>1. CASE hits[r] = <<>> /\ answer[r].refused
    BY <2>1
  <2>2. CASE /\ hits[r] \in Fusions(bm25[r], vector[r])
             /\ answer[r] = Response(Used(hits[r]), Citations(hits[r]))
    <3>1. bm25[r] = <<>> /\ vector[r] = <<>>
      <4>1. bm25[r] = <<>> /\ DOMAIN vector[r] = {}
        BY DEF HasEvidence, Ran
      <4>. QED
        BY <4>1 DEF Inv, TypeOK
    <3>2. bm25[r] \in Seq(ScoredHit) /\ vector[r] \in Seq(ScoredHit)
      BY DEF Inv, TypeOK
    <3>3. /\ hits[r] \in Seq(Hit)
          /\ \A k \in DOMAIN hits[r] : \/ \E i \in DOMAIN bm25[r] : Same(hits[r][k], bm25[r][i])
                                       \/ \E i \in DOMAIN vector[r] : Same(hits[r][k], vector[r][i])
      BY <2>2, <3>2, FusionsAre
    <3>4. hits[r] = <<>>
      <4>1. DOMAIN hits[r] = {}
        BY <3>1, <3>3
      <4>. QED
        BY <3>3, <4>1, EmptyList
    <3>5. Used(hits[r]) = <<>>
      BY <3>4 DEF Used
    <3>. QED
      BY <2>2, <3>5 DEF Response, ShouldRefuse, Refusal
  <2>. QED
    BY <2>1, <2>2 DEF Ran, Concluded
<1>. QED
  BY <1>1, Histories, PTL

\* The critic refuses only for want of evidence: a run whose hits are quoted in whole
\* words answers.
THEOREM AnswerSafety == Spec => []AnswersWhenItCan
<1>1. Inv /\ Ran => AnswersWhenItCan
  <2> SUFFICES ASSUME Inv, Ran, NEW r \in Request, pc[r] = "done", hits[r] # <<>>,
                      \A i \in DOMAIN hits[r] : Quoted[hits[r][i].text] \subseteq Words[hits[r][i].text]
               PROVE  ~answer[r].refused
    BY DEF AnswersWhenItCan
  <2> DEFINE used == Used(hits[r])
  <2>1. hits[r] \in Seq(Hit) /\ answer[r] = Response(used, used)
    BY DEF Inv, TypeOK, Ran, Concluded, Citations
  <2>2. /\ used \in Seq(Hit) /\ Len(used) <= 2
        /\ \A i \in DOMAIN used : i \in DOMAIN hits[r] /\ used[i] = hits[r][i]
        /\ \A i \in DOMAIN hits[r] : i <= 2 => i \in DOMAIN used
    BY <2>1, UsedAre
  <2> HIDE DEF used
  <2>3. used # <<>> /\ Len(used) # 0
    <3>1. 1 \in DOMAIN hits[r]
      BY <2>1
    <3>2. 1 \in DOMAIN used
      BY <2>2, <3>1
    <3>. QED
      BY <2>2, <3>2
  <2>4. Unsupported(used) = {}
    <3>1. \A i \in DOMAIN used : Quoted[used[i].text] \subseteq Words[used[i].text]
      BY <2>2
    <3>. QED
      BY <3>1 DEF Unsupported, AnswerTokens, EvidenceTokens
  <2>5. Cardinality(AnswerTokens(used)) \in Nat
    <3>1. \A i \in DOMAIN used : used[i] \in Hit
      BY <2>2
    <3>2. \A i \in DOMAIN used : IsFiniteSet(Quoted[used[i].text])
      BY <3>1, ConstantsAssumption DEF Hit
    <3>3. CASE Len(used) = 1
      <4>1. DOMAIN used = {1}
        BY <2>2, <3>3
      <4>2. AnswerTokens(used) = Quoted[used[1].text]
        BY <4>1 DEF AnswerTokens
      <4>. QED
        BY <3>2, <4>1, <4>2, FS_CardinalityType
    <3>4. CASE Len(used) = 2
      <4>1. DOMAIN used = {1, 2}
        BY <2>2, <3>4
      <4>2. AnswerTokens(used) = Quoted[used[1].text] \cup Quoted[used[2].text]
        BY <4>1 DEF AnswerTokens
      <4>3. IsFiniteSet(Quoted[used[1].text]) /\ IsFiniteSet(Quoted[used[2].text])
        BY <3>2, <4>1
      <4>4. IsFiniteSet(AnswerTokens(used))
        BY <4>2, <4>3, FS_Union
      <4>. QED
        BY <4>4, FS_CardinalityType
    <3>5. Len(used) = 1 \/ Len(used) = 2
      <4>1. Len(used) \in Nat /\ Len(used) <= 2 /\ Len(used) # 0
        BY <2>2, <2>3
      <4> DEFINE n == Len(used)
      <4> HIDE DEF n
      <4>2. n \in Nat /\ n <= 2 /\ n # 0
        BY <4>1 DEF n
      <4>3. n = 1 \/ n = 2
        BY <4>2
      <4>. QED
        BY <4>3 DEF n
    <3>. QED
      BY <3>3, <3>4, <3>5
  <2>6. ~ShouldRefuse(used, used)
    <3>1. Cardinality(Unsupported(used)) = 0
      BY <2>4, FS_EmptySet
    <3>. QED
      BY <2>3, <2>5, <3>1 DEF ShouldRefuse, CitesAll
  <2>. QED
    BY <2>1, <2>6 DEF Response
<1>. QED
  BY <1>1, Histories, PTL
=============================================================================
