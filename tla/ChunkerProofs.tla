---------------------------- MODULE ChunkerProofs ----------------------------
(***************************************************************************)
(* Proofs about Chunker, for texts of every length and every max_chars and *)
(* overlap_chars.                                                          *)
(***************************************************************************)
EXTENDS Chunker, FiniteSetTheorems, WellFoundedInduction, TLAPS

Positions == 1 .. Len(normalized)

\* A phrase that overlap_chars is meant to keep whole.
Phrase(i, j) == i <= j /\ j - i <= overlap_chars /\ Solid(i) /\ Solid(j)

Whole(i, j) == \E c \in 1 .. Len(chunks) : i .. j \subseteq chunks[c].text

Fresh == pc = "called" => start = 0 /\ ordinal = 0 /\ chunks = <<>>

\* The windows behind start have kept every phrase that begins there.
SoFar == pc = "loop" => \A i, j \in Positions : Phrase(i, j) /\ i <= start => Whole(i, j)

Inv == TypeOK /\ Fresh /\ SoFar /\ PhrasesStayWhole

-----------------------------------------------------------------------------
\* Normalising does not lengthen a text.
LEMMA NormalizeLength ==
    ASSUME NEW t \in Texts
    PROVE  Len(Normalize(t)) \in Nat /\ Len(Normalize(t)) <= Len(t) /\ Len(t) \in Nat
<1>1. Len(t) \in Nat
  BY CharacterAssumption
<1>2. IsFiniteSet(1 .. Len(t)) /\ Cardinality(1 .. Len(t)) = Len(t)
  <2>1. ASSUME NEW n \in Nat PROVE IsFiniteSet(1 .. n) /\ Cardinality(1 .. n) = n
    BY FS_Interval
  <2>. QED
    BY <1>1, <2>1
<1>3. KeptIn(t) \subseteq 1 .. Len(t)
  BY DEF KeptIn
<1>4. Cardinality(KeptIn(t)) \in Nat /\ Cardinality(KeptIn(t)) <= Len(t)
  BY <1>2, <1>3, FS_Subset, FS_CardinalityType
<1>5. Len(Normalize(t)) = Cardinality(KeptIn(t))
  BY <1>4 DEF Normalize
<1>. QED
  BY <1>1, <1>4, <1>5

\* A window ends behind its start, at most max_chars further.
LEMMA EndIs ==
    ASSUME TypeOK, pc = "loop"
    PROVE  /\ start \in Nat /\ max_chars \in Int /\ overlap_chars \in Int /\ Len(normalized) \in Nat
           /\ End \in Nat /\ start < End /\ End <= Len(normalized)
           /\ End # Len(normalized) => /\ End - overlap_chars \in Nat
                                       /\ start < End - overlap_chars
                                       /\ End - overlap_chars < Len(normalized)
<1>1. Len(normalized) \in Nat
  BY CharacterAssumption DEF TypeOK
<1>. QED
  BY <1>1, CharacterAssumption DEF TypeOK, Valid, End

\* Saving a slice keeps the chunks there are and adds the slice unless it is blank.
LEMMA SaveBodyKeeps ==
    ASSUME TypeOK, NEW body \in SUBSET Positions, SaveBody(body), UNCHANGED normalized
    PROVE  /\ chunks' \in Seq([ordinal : Nat, text : SUBSET (1 .. Len(normalized))])
           /\ ordinal' = Len(chunks')
           /\ Len(chunks) <= Len(chunks')
           /\ \A c \in 1 .. Len(chunks) : chunks'[c] = chunks[c]
           /\ body # {} => chunks'[Len(chunks')].text = body /\ Len(chunks') >= 1
<1> DEFINE C == [ordinal : Nat, text : SUBSET (1 .. Len(normalized))]
           new == [ordinal |-> ordinal, text |-> body]
<1>1. chunks \in Seq(C) /\ ordinal = Len(chunks) /\ Len(chunks) \in Nat
  BY DEF TypeOK
<1>2. CASE body = {}
  BY <1>1, <1>2 DEF SaveBody
<1>3. CASE body # {}
  <2>1. new \in C
    BY <1>1 DEF Positions
  <2>2. chunks' = Append(chunks, new) /\ ordinal' = ordinal + 1
    BY <1>3 DEF SaveBody
  <2>3. new.text = body
    OBVIOUS
  <2> HIDE DEF C, new
  <2>4. /\ chunks' \in Seq(C) /\ Len(chunks') = Len(chunks) + 1
        /\ \A c \in 1 .. Len(chunks) : chunks'[c] = chunks[c]
        /\ chunks'[Len(chunks) + 1] = new
    BY <1>1, <2>1, <2>2
  <2>. QED
    BY <1>1, <2>2, <2>3, <2>4 DEF C
<1>. QED
  BY <1>2, <1>3

-----------------------------------------------------------------------------
LEMMA InitInv == Init => Inv
<1> SUFFICES ASSUME Init PROVE Inv
  OBVIOUS
<1>1. Len(text) \in Nat
  BY CharacterAssumption DEF Init
<1>2. TypeOK
  BY <1>1 DEF Init, TypeOK
<1>. QED
  BY <1>2 DEF Init, Inv, Fresh, SoFar, PhrasesStayWhole

LEMMA EnterInv == ASSUME Inv, Enter PROVE Inv'
<1>1. /\ pc = "called" /\ start = 0 /\ ordinal = 0 /\ chunks = <<>> /\ text \in Texts
      /\ normalized' = Normalize(text) /\ pc' \in {"loop", "raised", "returned"}
      /\ UNCHANGED <<text, max_chars, overlap_chars, start, ordinal, chunks>>
  BY DEF Inv, Fresh, TypeOK, Enter, arguments
<1>2. /\ pc' = "loop" => Valid /\ Len(normalized') # 0
      /\ pc' = "returned" => Len(normalized') = 0
  BY <1>1 DEF Enter
<1>3. Len(normalized)' \in Nat /\ Len(normalized') <= Len(text)
  BY <1>1, NormalizeLength
<1>5. TypeOK'
  BY <1>1, <1>2, <1>3 DEF Inv, TypeOK, Valid
<1>6. SoFar'
  BY <1>1 DEF SoFar, Positions
<1>7. PhrasesStayWhole'
  BY <1>1, <1>2, <1>3 DEF PhrasesStayWhole
<1>. QED
  BY <1>1, <1>5, <1>6, <1>7 DEF Inv, Fresh

LEMMA CutInv == ASSUME Inv, Cut PROVE Inv'
<1> DEFINE body == Body(start, End)
<1>0. TypeOK /\ pc = "loop" /\ UNCHANGED <<text, max_chars, overlap_chars, normalized>>
  BY DEF Inv, Cut, arguments
<1>1. /\ start \in Nat /\ max_chars \in Int /\ overlap_chars \in Int /\ Len(normalized) \in Nat
      /\ End \in Nat /\ start < End /\ End <= Len(normalized)
      /\ End # Len(normalized) => /\ End - overlap_chars \in Nat
                                  /\ start < End - overlap_chars
                                  /\ End - overlap_chars < Len(normalized)
  BY <1>0, EndIs
<1>2. body \in SUBSET Positions
  BY <1>1 DEF Body, Positions
<1>3. /\ chunks' \in Seq([ordinal : Nat, text : SUBSET (1 .. Len(normalized))])
      /\ ordinal' = Len(chunks')
      /\ Len(chunks) <= Len(chunks')
      /\ \A c \in 1 .. Len(chunks) : chunks'[c] = chunks[c]
      /\ body # {} => chunks'[Len(chunks')].text = body /\ Len(chunks') >= 1
  BY <1>0, <1>2, SaveBodyKeeps DEF Cut
<1>4. /\ End = Len(normalized) => pc' = "returned" /\ start' = start
      /\ End # Len(normalized) => pc' = "loop" /\ start' = End - overlap_chars
  BY <1>1 DEF Cut
<1>5. TypeOK'
  BY <1>0, <1>1, <1>3, <1>4 DEF TypeOK, Valid
<1>6. Len(chunks) \in Nat /\ Len(chunks') \in Nat
  BY <1>0, <1>3 DEF TypeOK
<1>7. ASSUME NEW i \in Positions, NEW j \in Positions, Phrase(i, j), i <= start \/ j <= End
      PROVE  Whole(i, j)'
  <2>1. CASE i <= start
    <3>1. PICK c \in 1 .. Len(chunks) : i .. j \subseteq chunks[c].text
      BY <1>0, <1>7, <2>1 DEF Inv, SoFar, Whole
    <3>. QED
      BY <1>3, <1>6, <3>1 DEF Whole
  <2>2. CASE i > start /\ j <= End
    <3>1. i \in start + 1 .. End /\ j \in start + 1 .. End /\ i <= j /\ Solid(i) /\ Solid(j)
      BY <1>1, <1>7, <2>2 DEF Phrase, Positions
    <3>2. \A p \in i .. j : p \in start + 1 .. End /\ i <= p /\ p <= j
      BY <1>1, <3>1
    <3>3. i .. j \subseteq body /\ i \in i .. j
      BY <3>1, <3>2 DEF Body
    <3>4. body # {}
      BY <3>3
    <3> HIDE DEF body
    <3>. QED
      BY <1>3, <1>6, <3>3, <3>4 DEF Whole
  <2>. QED
    BY <1>1, <1>7, <2>1, <2>2 DEF Positions
<1>8. \A i, j \in Positions : Phrase(i, j)' <=> Phrase(i, j)
  BY <1>0 DEF Phrase, Solid
<1>9. SoFar'
  <2> SUFFICES ASSUME pc' = "loop", NEW i \in Positions', NEW j \in Positions', Phrase(i, j)', i <= start'
               PROVE  Whole(i, j)'
    BY DEF SoFar
  <2>1. i \in Positions /\ j \in Positions /\ Phrase(i, j)
    BY <1>0, <1>8 DEF Positions
  <2>2. i <= End - overlap_chars
    BY <1>4
  <2>3. j <= End
    BY <1>1, <2>1, <2>2 DEF Phrase, Positions
  <2>. QED
    BY <1>7, <2>1, <2>3
<1>10. PhrasesStayWhole'
  <2> SUFFICES ASSUME pc' = "returned", NEW i \in Positions', NEW j \in Positions', Phrase(i, j)'
               PROVE  Whole(i, j)'
    BY DEF PhrasesStayWhole, Positions, Phrase, Whole
  <2>1. i \in Positions /\ j \in Positions /\ Phrase(i, j)
    BY <1>0, <1>8 DEF Positions
  <2>2. j <= End
    BY <1>4, <2>1 DEF Positions
  <2>. QED
    BY <1>7, <2>1, <2>2
<1>. QED
  BY <1>4, <1>5, <1>9, <1>10 DEF Inv, Fresh

LEMMA NextInv == Inv /\ [Next]_vars => Inv'
<1> SUFFICES ASSUME Inv, [Next]_vars PROVE Inv'
  OBVIOUS
<1>1. CASE Enter
  BY <1>1, EnterInv
<1>2. CASE Cut
  BY <1>2, CutInv
<1>3. CASE UNCHANGED vars
  <2>1. TypeOK' /\ Fresh'
    BY <1>3 DEF vars, Inv, TypeOK, Valid, Fresh
  <2>2. SoFar'
    BY <1>3 DEF vars, Inv, SoFar, Positions, Phrase, Whole, Solid
  <2>3. PhrasesStayWhole'
    BY <1>3 DEF vars, Inv, PhrasesStayWhole, Solid
  <2>. QED
    BY <2>1, <2>2, <2>3 DEF Inv
<1>. QED
  BY <1>1, <1>2, <1>3 DEF Next

THEOREM Invariance == Spec => []Inv
  BY InitInv, NextInv, PTL DEF Spec

-----------------------------------------------------------------------------
\* Type correctness: every variable keeps its shape, and the loop is only left by
\* its break.
THEOREM TypeCorrectness == Spec => []TypeOK
  BY Invariance, PTL DEF Inv

\* No phrase of up to overlap_chars + 1 characters is split between chunks.
THEOREM PhrasesSafety == Spec => []PhrasesStayWhole
  BY Invariance, PTL DEF Inv

\* Every iteration of chunk_text's loop begins further on, so that it ends.
THEOREM LoopAdvances == Spec => WindowsAdvance
<1>1. Inv /\ [Next]_vars => [pc = "loop" /\ pc' = "loop" => start' > start]_vars
  <2> SUFFICES ASSUME Inv, [Next]_vars, pc = "loop", pc' = "loop", vars' # vars PROVE start' > start
    OBVIOUS
  <2>1. Cut
    BY DEF Next, Enter
  <2>2. End # Len(normalized) /\ start' = End - overlap_chars
    BY <2>1 DEF Cut
  <2>3. start \in Nat /\ start < End - overlap_chars /\ End - overlap_chars \in Nat
    BY <2>2, EndIs DEF Inv
  <2>. QED
    BY <2>2, <2>3
<1>. QED
  BY <1>1, Invariance, PTL DEF Spec, WindowsAdvance
-----------------------------------------------------------------------------
(* Chunks fit                                                              *)

\* Natural numbers are well-founded.
LEMMA Smallest ==
    ASSUME NEW T \in SUBSET Nat, T # {}
    PROVE  \E m \in T : \A k \in T : m <= k
<1> DEFINE R == OpToRel(<, Nat)
<1>1. IsWellFoundedOn(R, Nat)
  BY NatLessThanWellFounded
<1>2. ASSUME NEW x \in Nat, NEW y \in Nat, y < x PROVE <<y, x>> \in R
  BY <1>2, Zenon DEF OpToRel
<1> HIDE DEF R
<1>3. PICK x \in T : \A y \in T : ~ (<<y, x>> \in R)
  BY <1>1, WFMin
<1>4. \A y \in T : ~(y < x)
  BY <1>2, <1>3
<1>. QED
  BY <1>4

LEMMA Largest ==
    ASSUME NEW T \in SUBSET Nat, T # {}, NEW n \in Nat, \A k \in T : k <= n
    PROVE  \E m \in T : \A k \in T : k <= m
<1> DEFINE U == {n - k : k \in T}
<1>1. \A k \in T : n - k \in Nat
  OBVIOUS
<1>2. U \in SUBSET Nat /\ U # {}
  BY <1>1
<1>3. PICK u \in U : \A v \in U : u <= v
  BY <1>2, Smallest
<1>4. PICK m \in T : u = n - m
  OBVIOUS
<1>5. ASSUME NEW k \in T PROVE k <= m
  <2>1. n - m <= n - k
    BY <1>3, <1>4
  <2>. QED
    BY <2>1
<1>. QED
  BY <1>5

\* A saved slice runs from a letter to a letter.
Fits(body) == \E i, j \in body : Solid(i) /\ Solid(j) /\ body = i .. j /\ j - i < max_chars

\* strip() leaves a slice that is not blank from its first letter to its last.
LEMMA BodyFits ==
    ASSUME NEW first \in Nat, NEW end \in Nat, max_chars \in Int, end - first <= max_chars,
           Body(first, end) # {}
    PROVE  Fits(Body(first, end))
<1> DEFINE S == {i \in first + 1 .. end : Solid(i)}
<1>1. S \in SUBSET Nat /\ S # {} /\ \A i \in S : i <= end
  BY DEF Body
<1>2. PICK lo \in S : \A i \in S : lo <= i
  BY <1>1, Smallest
<1>3. PICK hi \in S : \A i \in S : i <= hi
  BY <1>1, Largest
<1>4. lo \in first + 1 .. end /\ hi \in first + 1 .. end /\ Solid(lo) /\ Solid(hi) /\ lo <= hi
  BY <1>2, <1>3
<1>5. ASSUME NEW p \in Body(first, end) PROVE p \in lo .. hi
  <2>1. PICK i, j \in S : p \in first + 1 .. end /\ i <= p /\ p <= j
    BY DEF Body
  <2>. QED
    BY <1>1, <1>2, <1>3, <2>1
<1>6. ASSUME NEW p \in lo .. hi PROVE p \in Body(first, end)
  <2>1. p \in first + 1 .. end /\ lo <= p /\ p <= hi
    BY <1>4
  <2>. QED
    BY <1>4, <2>1 DEF Body
<1>7. Body(first, end) = lo .. hi
  BY <1>5, <1>6, Zenon
<1>8. lo \in lo .. hi /\ hi \in lo .. hi
  BY <1>4
<1>9. hi - lo < max_chars
  BY <1>4
<1>. QED
  BY <1>4, <1>7, <1>8, <1>9 DEF Fits

LEMMA NextFits == Inv /\ ChunksFit /\ [Next]_vars => ChunksFit'
<1> SUFFICES ASSUME Inv, ChunksFit, [Next]_vars PROVE ChunksFit'
  OBVIOUS
<1>1. CASE Enter
  <2>1. Len(chunks') = 0
    BY <1>1 DEF Inv, Fresh, Enter
  <2>. QED
    BY <2>1 DEF ChunksFit
<1>2. CASE Cut
  <2> DEFINE body == Body(start, End)
             new == [ordinal |-> ordinal, text |-> body]
  <2>1. TypeOK /\ UNCHANGED <<text, max_chars, normalized>> /\ ordinal = Len(chunks) /\ Len(chunks) \in Nat
    BY <1>2 DEF Inv, Cut, TypeOK, arguments
  <2>2. start \in Nat /\ End \in Nat /\ max_chars \in Int /\ End - start <= max_chars
    <3>1. start \in Nat /\ End \in Nat /\ max_chars \in Int /\ Len(normalized) \in Nat
      BY <1>2, <2>1, EndIs DEF Cut
    <3>. QED
      BY <3>1 DEF End
  <2>3. body # {} => Fits(body)
    BY <2>2, BodyFits
  <2>4. \A b : Fits(b)' <=> Fits(b)
    BY <2>1 DEF Fits, Solid
  <2>5. \A c \in 1 .. Len(chunks) : chunks[c].ordinal = c - 1 /\ Fits(chunks[c].text)
    BY DEF ChunksFit, Fits
  <2>6. CASE body = {}
    <3>1. chunks' = chunks
      BY <1>2, <2>6 DEF Cut, SaveBody
    <3>. QED
      BY <2>4, <2>5, <3>1 DEF ChunksFit, Fits
  <2>7. CASE body # {}
    <3>1. chunks' = Append(chunks, new)
      BY <1>2, <2>7 DEF Cut, SaveBody
    <3>2. new.ordinal = Len(chunks) /\ new.text = body
      BY <2>1
    <3> HIDE DEF new
    <3>3. \A c \in 1 .. Len(chunks') :
             chunks'[c] = IF c <= Len(chunks) THEN chunks[c] ELSE new
      BY <2>1, <3>1 DEF TypeOK
    <3>4. \A c \in 1 .. Len(chunks') : c <= Len(chunks) \/ c = Len(chunks) + 1
      BY <2>1, <3>1 DEF TypeOK
    <3>5. \A c \in 1 .. Len(chunks') : chunks'[c].ordinal = c - 1 /\ Fits(chunks'[c].text)
      BY <2>1, <2>3, <2>5, <2>7, <3>2, <3>3, <3>4
    <3>. QED
      BY <2>4, <3>5 DEF ChunksFit, Fits
  <2>. QED
    BY <2>6, <2>7
<1>3. CASE UNCHANGED vars
  BY <1>3 DEF vars, ChunksFit, Solid
<1>. QED
  BY <1>1, <1>2, <1>3 DEF Next

\* Chunks have at most max_chars characters, begin and end with a letter, and are
\* numbered from zero without a gap.
THEOREM FitSafety == Spec => []ChunksFit
<1>1. Init => ChunksFit
  BY DEF Init, ChunksFit
<1>. QED
  BY <1>1, NextFits, Invariance, PTL DEF Spec
-----------------------------------------------------------------------------
(* Nothing is lost                                                         *)

\* The place of position i among the kept ones: Normalize lists them by it.
UpTo(t, i) == {j \in KeptIn(t) : j <= i}
Rank(t, i) == Cardinality(UpTo(t, i))

LEMMA KeptFinite ==
    ASSUME NEW t \in Texts
    PROVE  /\ Len(t) \in Nat /\ KeptIn(t) \subseteq 1 .. Len(t) /\ KeptIn(t) \subseteq Nat
           /\ IsFiniteSet(KeptIn(t)) /\ Cardinality(KeptIn(t)) \in Nat
           /\ \A i \in KeptIn(t) : IsFiniteSet(UpTo(t, i)) /\ Rank(t, i) \in 1 .. Cardinality(KeptIn(t))
<1>1. Len(t) \in Nat
  BY CharacterAssumption
<1>2. KeptIn(t) \subseteq 1 .. Len(t) /\ KeptIn(t) \subseteq Nat
  BY <1>1 DEF KeptIn
<1>3. IsFiniteSet(1 .. Len(t))
  <2>1. ASSUME NEW n \in Nat PROVE IsFiniteSet(1 .. n)
    BY FS_Interval
  <2>. QED
    BY <1>1, <2>1
<1>4. IsFiniteSet(KeptIn(t))
  BY <1>2, <1>3, FS_Subset
<1>5. Cardinality(KeptIn(t)) \in Nat
  BY <1>4, FS_CardinalityType
<1>6. ASSUME NEW i \in KeptIn(t)
      PROVE  IsFiniteSet(UpTo(t, i)) /\ Rank(t, i) \in 1 .. Cardinality(KeptIn(t))
  <2>1. UpTo(t, i) \in SUBSET KeptIn(t) /\ i \in UpTo(t, i)
    BY <1>2 DEF UpTo
  <2>2. IsFiniteSet(UpTo(t, i)) /\ Cardinality(UpTo(t, i)) <= Cardinality(KeptIn(t))
    BY <1>4, <2>1, FS_Subset
  <2>3. Cardinality(UpTo(t, i)) \in Nat
    BY <2>2, FS_CardinalityType
  <2>4. Cardinality(UpTo(t, i)) # 0
    BY <2>1, <2>2, FS_EmptySet
  <2>. QED
    BY <1>5, <2>2, <2>3, <2>4 DEF Rank
<1>. QED
  BY <1>1, <1>2, <1>4, <1>5, <1>6

LEMMA RankMonotone ==
    ASSUME NEW t \in Texts, NEW i \in KeptIn(t), NEW j \in KeptIn(t), i < j
    PROVE  Rank(t, i) < Rank(t, j)
<1>1. KeptIn(t) \subseteq Nat /\ IsFiniteSet(UpTo(t, i)) /\ IsFiniteSet(UpTo(t, j))
  BY KeptFinite
<1>2. UpTo(t, i) \in SUBSET UpTo(t, j) /\ j \in UpTo(t, j) /\ j \notin UpTo(t, i)
  BY <1>1 DEF UpTo
<1>3. Rank(t, i) <= Rank(t, j) /\ Rank(t, i) # Rank(t, j)
  BY <1>1, <1>2, FS_Subset DEF Rank
<1>. QED
  BY <1>3, KeptFinite

\* Neighbours among the kept positions have consecutive places.
LEMMA Adjacent ==
    ASSUME NEW t \in Texts, NEW i \in KeptIn(t), NEW j \in KeptIn(t), i < j,
           \A k \in KeptIn(t) : ~(i < k /\ k < j)
    PROVE  Rank(t, j) = Rank(t, i) + 1
<1>1. KeptIn(t) \subseteq Nat /\ IsFiniteSet(UpTo(t, i))
  BY KeptFinite
<1>2. j \notin UpTo(t, i)
  BY <1>1 DEF UpTo
<1>3. ASSUME NEW k PROVE k \in UpTo(t, j) <=> k \in UpTo(t, i) \cup {j}
  BY <1>1 DEF UpTo
<1>4. UpTo(t, j) = UpTo(t, i) \cup {j}
  BY <1>3, Zenon
<1>. QED
  BY <1>1, <1>2, <1>4, FS_AddElement DEF Rank

\* No place is left out.
LEMMA Placed ==
    ASSUME NEW t \in Texts, NEW k \in 1 .. Cardinality(KeptIn(t))
    PROVE  \E i \in KeptIn(t) : Rank(t, i) = k
<1> DEFINE K == KeptIn(t)
           T == {i \in K : Rank(t, i) >= k}
<1>1. /\ Len(t) \in Nat /\ K \subseteq 1 .. Len(t) /\ K \subseteq Nat
      /\ IsFiniteSet(K) /\ Cardinality(K) \in Nat /\ k \in Nat /\ 1 <= k /\ k <= Cardinality(K)
      /\ \A i \in K : Rank(t, i) \in Nat
  BY KeptFinite
<1>2. K # {}
  BY <1>1, FS_EmptySet
<1>3. PICK last \in K : \A i \in K : i <= last
  <2>1. K \in SUBSET Nat /\ \A i \in K : i <= Len(t)
    BY <1>1
  <2> HIDE DEF K
  <2>. QED
    BY <1>1, <1>2, <2>1, Largest
<1>4. UpTo(t, last) = K
  BY <1>3 DEF UpTo
<1>5. last \in T
  BY <1>1, <1>4 DEF Rank
<1>6. PICK i \in T : \A j \in T : i <= j
  <2>1. T \in SUBSET Nat /\ T # {}
    BY <1>1, <1>5
  <2>. QED
    BY <2>1, Smallest
<1>7. CASE \E j \in K : j < i
  <2> DEFINE Lower == {j \in K : j < i}
  <2>1. Lower \in SUBSET Nat /\ Lower # {} /\ i \in Nat /\ \A j \in Lower : j <= i
    BY <1>1, <1>7
  <2>2. PICK p \in Lower : \A j \in Lower : j <= p
    BY <2>1, Largest
  <2>3. p \in K /\ p < i /\ \A j \in K : ~(p < j /\ j < i)
    BY <1>1, <2>2
  <2>4. Rank(t, i) = Rank(t, p) + 1
    BY <2>3, Adjacent
  <2>5. p \notin T
    BY <1>1, <1>6, <2>3
  <2>6. Rank(t, p) < k
    BY <1>1, <2>3, <2>5
  <2>. QED
    BY <1>1, <1>6, <2>3, <2>4, <2>6
<1>8. CASE ~ \E j \in K : j < i
  <2>1. ASSUME NEW j PROVE j \in UpTo(t, i) <=> j = i
    BY <1>1, <1>6, <1>8 DEF UpTo
  <2>2. UpTo(t, i) = {i}
    BY <2>1, Zenon
  <2>3. Rank(t, i) = 1
    BY <2>2, FS_Singleton DEF Rank
  <2>. QED
    BY <1>1, <1>6, <2>3
<1>. QED
  BY <1>7, <1>8

\* Normalising lists the kept positions in their order, each once.
LEMMA NormalizeLists ==
    ASSUME NEW t \in Texts
    PROVE  /\ Len(Normalize(t)) = Cardinality(KeptIn(t))
           /\ \A k \in 1 .. Len(Normalize(t)) :
                 Normalize(t)[k] \in KeptIn(t) /\ Rank(t, Normalize(t)[k]) = k
           /\ \A i \in KeptIn(t) :
                 Rank(t, i) \in 1 .. Len(Normalize(t)) /\ Normalize(t)[Rank(t, i)] = i
<1>1. KeptIn(t) \subseteq Nat /\ Cardinality(KeptIn(t)) \in Nat
  BY KeptFinite
<1>2. Len(Normalize(t)) = Cardinality(KeptIn(t))
  BY <1>1 DEF Normalize
<1>3. ASSUME NEW k \in 1 .. Cardinality(KeptIn(t))
      PROVE  Normalize(t)[k] \in KeptIn(t) /\ Rank(t, Normalize(t)[k]) = k
  <2>1. \E i \in KeptIn(t) : Rank(t, i) = k
    BY Placed
  <2>2. Normalize(t)[k] = CHOOSE i \in KeptIn(t) : Rank(t, i) = k
    BY DEF Normalize, Rank, UpTo
  <2>. QED
    BY <2>1, <2>2, Zenon
<1>4. ASSUME NEW i \in KeptIn(t) PROVE Normalize(t)[Rank(t, i)] = i
  <2>1. Rank(t, i) \in 1 .. Cardinality(KeptIn(t))
    BY KeptFinite
  <2>2. PICK j \in KeptIn(t) : j = Normalize(t)[Rank(t, i)] /\ Rank(t, j) = Rank(t, i)
    BY <1>3, <2>1
  <2>3. ~(i < j) /\ ~(j < i)
    BY <2>2, RankMonotone, KeptFinite
  <2>. QED
    BY <1>1, <2>2, <2>3
<1>. QED
  BY <1>2, <1>3, <1>4, KeptFinite

\* The space between two words is kept with a letter on either side of it.
LEMMA SpacesStand ==
    ASSUME NEW t \in Texts, NEW p \in 1 .. Len(Normalize(t)), t[Normalize(t)[p]] # Letter
    PROVE  /\ 1 < p /\ p < Len(Normalize(t))
           /\ t[Normalize(t)[p - 1]] = Letter /\ t[Normalize(t)[p + 1]] = Letter
<1> DEFINE K == KeptIn(t)
           N == Normalize(t)
           i == N[p]
           After == {j \in K : i < j}
<1>1. /\ K \subseteq 1 .. Len(t) /\ K \subseteq Nat /\ Len(t) \in Nat
      /\ Len(N) \in Nat /\ p \in Nat /\ 1 <= p /\ p <= Len(N)
      /\ \A k \in K : Rank(t, k) \in 1 .. Len(N) /\ N[Rank(t, k)] = k
      /\ i \in K /\ Rank(t, i) = p
  BY KeptFinite, NormalizeLists
<1> HIDE DEF N
<1>2. i \in 1 .. Len(t) /\ i > 1 /\ t[i - 1] = Letter /\ \E j \in i .. Len(t) : t[j] = Letter
  BY <1>1 DEF KeptIn, N
<1>3. i - 1 \in K
  BY <1>1, <1>2 DEF KeptIn
<1>4. Rank(t, i) = Rank(t, i - 1) + 1
  <2>1. \A k \in K : ~(i - 1 < k /\ k < i)
    BY <1>1, <1>2
  <2>. QED
    BY <1>1, <1>2, <1>3, <2>1, Adjacent
<1>5. 1 < p /\ N[p - 1] = i - 1
  <2>1. Rank(t, i - 1) \in 1 .. Len(N) /\ N[Rank(t, i - 1)] = i - 1
    BY <1>1, <1>3
  <2>2. Rank(t, i - 1) = p - 1
    BY <1>1, <1>4, <2>1
  <2>. QED
    BY <1>1, <2>1, <2>2
<1>6. PICK last \in i .. Len(t) : t[last] = Letter
  BY <1>2
<1>7. last \in After
  BY <1>1, <1>2, <1>6 DEF KeptIn, N
<1>8. PICK next \in After : \A k \in After : next <= k
  <2>1. After \in SUBSET Nat /\ After # {}
    BY <1>1, <1>7
  <2>. QED
    BY <2>1, Smallest
<1>9. next \in K /\ i < next /\ \A k \in K : ~(i < k /\ k < next)
  BY <1>1, <1>8
<1>10. Rank(t, next) = p + 1
  BY <1>1, <1>9, Adjacent
<1>11. p < Len(N) /\ N[p + 1] = next
  <2>1. Rank(t, next) \in 1 .. Len(N) /\ N[Rank(t, next)] = next
    BY <1>1, <1>9
  <2>. QED
    BY <1>1, <1>10, <2>1
<1>12. t[next] = Letter
  <2> SUFFICES ASSUME t[next] # Letter PROVE FALSE
    OBVIOUS
  <2>1. next \in 1 .. Len(t) /\ next > 1 /\ t[next - 1] = Letter
    BY <1>9 DEF KeptIn
  <2>2. next - 1 \in K
    BY <1>1, <2>1 DEF KeptIn
  <2>3. next - 1 # i
    BY <2>1 DEF N
  <2>. QED
    BY <1>1, <1>9, <2>2, <2>3
<1>. QED
  BY <1>2, <1>5, <1>11, <1>12 DEF N

\* The loop works on the normalised text, and only valid sizes cut anything.
Read ==
    pc # "called" =>
        /\ normalized = Normalize(text)
        /\ pc = "returned" /\ Len(normalized) # 0 => overlap_chars >= 0

LEMMA NextRead == Inv /\ Read /\ [Next]_vars => Read'
<1> SUFFICES ASSUME Inv, Read, [Next]_vars PROVE Read'
  OBVIOUS
<1>1. CASE Enter
  <2>1. normalized' = Normalize(text)' /\ (pc' = "returned" => Len(normalized') = 0)
    BY <1>1 DEF Enter, arguments
  <2>. QED
    BY <2>1 DEF Read
<1>2. CASE Cut
  <2>1. normalized' = Normalize(text)' /\ overlap_chars' = overlap_chars /\ overlap_chars >= 0
    BY <1>2 DEF Inv, TypeOK, Valid, Read, Cut, arguments
  <2>. QED
    BY <2>1 DEF Read
<1>3. CASE UNCHANGED vars
  BY <1>3 DEF vars, Read
<1>. QED
  BY <1>1, <1>2, <1>3 DEF Next

LEMMA InvReadGiveNothingLost == Inv /\ Read => NothingLost
<1> SUFFICES ASSUME Inv, Read, pc = "returned" PROVE NothingLost
  BY DEF NothingLost
<1>1. text \in Texts /\ normalized = Normalize(text) /\ Len(normalized) \in Nat /\ Len(text) \in Nat
  BY NormalizeLength DEF Inv, TypeOK, Read
<1>2. ASSUME NEW i \in 1 .. Len(text), text[i] = Letter
      PROVE  \E c \in 1 .. Len(chunks) : \E p \in chunks[c].text : normalized[p] = i
  <2>1. i \in KeptIn(text)
    BY <1>2 DEF KeptIn
  <2>2. PICK p \in 1 .. Len(normalized) : normalized[p] = i
    BY <1>1, <2>1, NormalizeLists
  <2>3. overlap_chars >= 0 /\ overlap_chars \in Int
    BY <1>1, <2>2, CharacterAssumption DEF Read, Inv, TypeOK
  <2>4. p <= p /\ p - p <= overlap_chars /\ Solid(p)
    BY <1>1, <1>2, <2>2, <2>3 DEF Solid
  <2>5. PICK c \in 1 .. Len(chunks) : p .. p \subseteq chunks[c].text
    BY <2>2, <2>4 DEF Inv, PhrasesStayWhole
  <2>. QED
    BY <1>1, <2>2, <2>5
<1>3. ASSUME NEW p \in 1 .. Len(normalized), ~Solid(p)
      PROVE  1 < p /\ p < Len(normalized) /\ Solid(p - 1) /\ Solid(p + 1)
  BY <1>1, <1>3, SpacesStand DEF Solid
<1>. QED
  BY <1>2, <1>3 DEF NothingLost

\* What a document says can be found: chunking drops nothing but white space.
THEOREM LossSafety == Spec => []NothingLost
<1>1. Init => Read
  BY DEF Init, Read
<1>. QED
  BY <1>1, NextRead, InvReadGiveNothingLost, Invariance, PTL DEF Spec

-----------------------------------------------------------------------------
(* No text is chunked again on its own                                     *)

\* While the loop goes on, some of the text lies behind what the chunks have.
Behind ==
    pc = "loop" /\ chunks # <<>> =>
        /\ start + overlap_chars < Len(normalized)
        /\ \A c \in 1 .. Len(chunks) : chunks[c].text \subseteq 1 .. start + overlap_chars

\* A letter that the next window has and no chunk so far.
NewLetter(p) == p \in Body(start, End) /\ Solid(p) /\ \A c \in 1 .. Len(chunks) : p \notin chunks[c].text

LEMMA NextBehind == ASSUME Inv, Behind, Cut PROVE Behind'
<1> SUFFICES ASSUME pc' = "loop"
             PROVE  /\ start' + overlap_chars < Len(normalized)
                    /\ \A c \in 1 .. Len(chunks') : chunks'[c].text \subseteq 1 .. start' + overlap_chars
  BY DEF Behind, Cut, arguments
<1> DEFINE body == Body(start, End)
<1>1. /\ TypeOK /\ pc = "loop" /\ End # Len(normalized) /\ start' = End - overlap_chars
      /\ SaveBody(body) /\ UNCHANGED normalized
  BY DEF Inv, Cut
<1>2. /\ start \in Nat /\ overlap_chars \in Int /\ overlap_chars >= 0 /\ overlap_chars < max_chars
      /\ max_chars \in Int /\ Len(normalized) \in Nat
      /\ End = start + max_chars /\ End < Len(normalized) /\ start' + overlap_chars = End
  BY <1>1, EndIs DEF TypeOK, Valid, End
<1>3. body \subseteq 1 .. End /\ body \in SUBSET Positions
  BY <1>2 DEF Body, Positions
<1> HIDE DEF body
<1>4. \A c \in 1 .. Len(chunks) : chunks[c].text \subseteq 1 .. End
  <2> SUFFICES ASSUME NEW c \in 1 .. Len(chunks) PROVE chunks[c].text \subseteq 1 .. End
    OBVIOUS
  <2>1. chunks[c].text \subseteq 1 .. start + overlap_chars
    BY <1>1 DEF Behind
  <2>2. 1 .. start + overlap_chars \subseteq 1 .. End
    BY <1>2
  <2>. QED
    BY <2>1, <2>2
<1>5. \A c \in 1 .. Len(chunks') : chunks'[c].text \subseteq 1 .. End
  <2>1. Len(chunks) \in Nat
    BY <1>1 DEF TypeOK
  <2>2. CASE body = {}
    BY <1>1, <1>4, <2>2 DEF SaveBody
  <2>3. CASE body # {}
    <3>1. chunks' = Append(chunks, [ordinal |-> ordinal, text |-> body])
      BY <1>1, <2>3 DEF SaveBody
    <3>2. \A c \in 1 .. Len(chunks') :
             chunks'[c] = IF c <= Len(chunks) THEN chunks[c] ELSE [ordinal |-> ordinal, text |-> body]
      BY <1>1, <3>1 DEF TypeOK
    <3>3. ASSUME NEW c \in 1 .. Len(chunks') PROVE chunks'[c].text \subseteq 1 .. End
      <4>1. CASE c <= Len(chunks)
        BY <1>4, <2>1, <3>2, <4>1
      <4>2. CASE ~(c <= Len(chunks))
        BY <1>3, <3>2, <4>2
      <4>. QED
        BY <4>1, <4>2
    <3>. QED
      BY <3>3
  <2>. QED
    BY <2>2, <2>3
<1>. QED
  BY <1>2, <1>5

\* Every window that is not blank has a new letter: the end of the text, or one of the
\* two characters that follow the window before.
LEMMA WindowsBringText ==
    ASSUME Inv, Read, Behind, pc = "loop", max_chars - overlap_chars > 1, Body(start, End) # {}
    PROVE  \E p : NewLetter(p)
<1>1. /\ TypeOK /\ text \in Texts /\ normalized = Normalize(text) /\ Valid
      /\ start \in Nat /\ max_chars \in Int /\ overlap_chars \in Int /\ Len(normalized) \in Nat
      /\ overlap_chars >= 0 /\ End \in Nat /\ start < End /\ End <= Len(normalized)
  BY EndIs DEF Inv, TypeOK, Read, Valid
<1>2. \A p \in 1 .. Len(normalized) : ~Solid(p) => p < Len(normalized) /\ Solid(p + 1)
  BY <1>1, SpacesStand DEF Solid
<1>3. ASSUME NEW p \in start + 1 .. End, Solid(p) PROVE p \in Body(start, End)
  BY <1>1, <1>3 DEF Body
<1>4. CASE chunks = <<>>
  <2>1. PICK p \in Body(start, End) : Solid(p)
    BY DEF Body
  <2>. QED
    BY <1>4, <2>1 DEF NewLetter
<1>5. CASE chunks # <<>>
  <2> DEFINE past == start + overlap_chars
  <2>1. past \in Nat /\ past < Len(normalized) /\ past >= start
    BY <1>1, <1>5 DEF Behind
  <2>2. ASSUME NEW p \in start + 1 .. End, Solid(p), p > past PROVE NewLetter(p)
    <3>1. \A c \in 1 .. Len(chunks) : chunks[c].text \subseteq 1 .. past
      BY <1>5 DEF Behind
    <3>2. p \notin 1 .. past
      BY <1>1, <2>1, <2>2
    <3>. QED
      BY <1>3, <2>2, <3>1, <3>2 DEF NewLetter
  <2>3. CASE End = Len(normalized)
    <3>1. Solid(End) /\ End \in start + 1 .. End /\ End > past
      BY <1>1, <1>2, <2>1, <2>3
    <3>. QED
      BY <2>2, <3>1
  <2>4. CASE End # Len(normalized)
    <3>1. End = start + max_chars
      BY <1>1, <2>4 DEF End
    <3>2. /\ past + 1 \in start + 1 .. End /\ past + 2 \in start + 1 .. End
          /\ past + 1 \in 1 .. Len(normalized) /\ (past + 1) + 1 = past + 2
      BY <1>1, <2>1, <3>1
    <3>3. Solid(past + 1) \/ Solid(past + 2)
      BY <1>2, <3>2
    <3>4. past + 1 > past /\ past + 2 > past
      BY <2>1
    <3> HIDE DEF past
    <3>. QED
      BY <2>2, <3>2, <3>3, <3>4
  <2>. QED
    BY <2>3, <2>4
<1>. QED
  BY <1>4, <1>5

LEMMA CutBringsText ==
    ASSUME Inv, Read, Behind, ChunksBringText, Cut
    PROVE  ChunksBringText'
<1> DEFINE body == Body(start, End)
           Brings(p, d, list) == /\ p \in list[d].text /\ Solid(p)
                                 /\ \A c \in 1 .. d - 1 : p \notin list[c].text
<1>1. /\ TypeOK /\ pc = "loop" /\ SaveBody(body)
      /\ UNCHANGED <<text, max_chars, overlap_chars, normalized>>
      /\ Len(chunks) \in Nat
  BY DEF Inv, Cut, TypeOK, arguments
<1> SUFFICES ASSUME max_chars - overlap_chars > 1, NEW d \in 1 .. Len(chunks')
             PROVE  \E p : Brings(p, d, chunks')
  BY <1>1 DEF ChunksBringText, Solid
<1>2. ASSUME NEW k \in 1 .. Len(chunks) PROVE \E p : Brings(p, k, chunks)
  BY DEF ChunksBringText
<1>3. CASE body = {}
  <2>1. chunks' = chunks
    BY <1>1, <1>3 DEF SaveBody
  <2>. QED
    BY <1>2, <2>1
<1>4. CASE body # {}
  <2> DEFINE new == [ordinal |-> ordinal, text |-> body]
  <2>1. chunks' = Append(chunks, new) /\ new.text = body
    BY <1>1, <1>4 DEF SaveBody
  <2> HIDE DEF new
  <2>2. /\ Len(chunks') = Len(chunks) + 1
        /\ \A c \in 1 .. Len(chunks) : chunks'[c] = chunks[c]
        /\ chunks'[Len(chunks) + 1] = new
    BY <1>1, <2>1 DEF TypeOK
  <2>3. CASE d <= Len(chunks)
    <3>1. PICK p : Brings(p, d, chunks)
      BY <1>1, <1>2, <2>3
    <3>2. \A c \in 1 .. d : chunks'[c] = chunks[c]
      BY <1>1, <2>2, <2>3
    <3>3. d \in 1 .. d /\ \A c \in 1 .. d - 1 : c \in 1 .. d
      BY <1>1
    <3>4. Brings(p, d, chunks')
      BY <3>1, <3>2, <3>3
    <3>. QED
      BY <3>4
  <2>4. CASE d = Len(chunks) + 1
    <3>1. PICK p : NewLetter(p)
      BY <1>1, <1>4, WindowsBringText
    <3>2. \A c \in 1 .. d - 1 : chunks'[c] = chunks[c] /\ c \in 1 .. Len(chunks)
      BY <1>1, <2>2, <2>4
    <3>3. Brings(p, d, chunks')
      BY <2>1, <2>2, <2>4, <3>1, <3>2 DEF NewLetter
    <3>. QED
      BY <3>3
  <2>. QED
    BY <1>1, <2>2, <2>3, <2>4
<1>. QED
  BY <1>3, <1>4

\* Unless windows start one character apart, no chunk repeats only what earlier ones have: the
\* end of a text, too, is chunked once.
THEOREM NoRepeats == Spec => []ChunksBringText
<1>1. Init => Read /\ Behind /\ ChunksBringText
  BY DEF Init, Read, Behind, ChunksBringText
<1>2. Inv /\ Read /\ Behind /\ ChunksBringText /\ [Next]_vars => Behind' /\ ChunksBringText'
  <2> SUFFICES ASSUME Inv, Read, Behind, ChunksBringText, [Next]_vars
               PROVE  Behind' /\ ChunksBringText'
    OBVIOUS
  <2>1. CASE Enter
    <3>1. chunks' = <<>> /\ Len(chunks') = 0
      BY <2>1 DEF Inv, Fresh, Enter
    <3>. QED
      BY <3>1 DEF Behind, ChunksBringText
  <2>2. CASE Cut
    BY <2>2, NextBehind, CutBringsText
  <2>3. CASE UNCHANGED vars
    BY <2>3 DEF vars, Behind, ChunksBringText, Solid
  <2>. QED
    BY <2>1, <2>2, <2>3 DEF Next
<1>. QED
  BY <1>1, <1>2, NextRead, Invariance, PTL DEF Spec
=============================================================================
