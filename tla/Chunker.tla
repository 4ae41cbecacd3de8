------------------------------- MODULE Chunker -------------------------------
(***************************************************************************)
(* chunk_text: how the text of a document becomes the chunks that are      *)
(* indexed and cited.  The text is cut in windows of max_chars characters, *)
(* each repeating the last overlap_chars of the one before.                *)
(*                                                                         *)
(* A character matters only for being white space or not.  Positions are   *)
(* counted from 1, so Python's slice [start:end] is start+1 .. end.        *)
(***************************************************************************)
EXTENDS Integers, Sequences, FiniteSets

CONSTANTS
    Texts,     \* texts that may be passed: sequences of Letter and Space
    Letter, Space,
    Sizes      \* values of max_chars and overlap_chars that may be passed

ASSUME CharacterAssumption ==
    /\ Texts \subseteq Seq({Letter, Space})
    /\ Sizes \subseteq Int
    /\ Letter # Space

VARIABLES
    pc,
    text, max_chars, overlap_chars,  \* the arguments
    normalized,                      \* the positions of text that are kept
    start, ordinal, chunks

vars == <<pc, text, max_chars, overlap_chars, normalized, start, ordinal, chunks>>
arguments == <<text, max_chars, overlap_chars>>

Init ==
    /\ pc = "called"
    /\ text \in Texts
    /\ max_chars \in Sizes /\ overlap_chars \in Sizes
    /\ normalized = <<>>
    /\ start = 0 /\ ordinal = 0
    /\ chunks = <<>>

-----------------------------------------------------------------------------
\* PLAUSIBLE BUG: white space runs become one space, at the ends of the text too.
CollapsedIn(t) ==
    {i \in 1 .. Len(t) : t[i] = Letter \/ i = 1 \/ t[i - 1] = Letter}

\* " ".join(text.split()) keeps the words and one space between two of them.
KeptIn(t) ==
    {i \in 1 .. Len(t) :
        \/ t[i] = Letter
        \/ /\ i > 1 /\ t[i - 1] = Letter
           /\ \E j \in i .. Len(t) : t[j] = Letter}

Normalize(t) ==
    [k \in 1 .. Cardinality(KeptIn(t)) |->
        CHOOSE i \in KeptIn(t) : Cardinality({j \in KeptIn(t) : j <= i}) = k]

Solid(p) == text[normalized[p]] = Letter

\* PLAUSIBLE BUG: windows may overlap completely.
LooseValid == max_chars > 0 /\ overlap_chars >= 0 /\ overlap_chars <= max_chars

Valid == max_chars > 0 /\ overlap_chars >= 0 /\ overlap_chars < max_chars

\* PLAUSIBLE BUG: strip() only decides whether a slice is blank.
UnstrippedBody(first, end) == {p \in first + 1 .. end : \E i \in first + 1 .. end : Solid(i)}

\* What strip() leaves of a slice.
Body(first, end) ==
    {p \in first + 1 .. end :
        \E i, j \in first + 1 .. end : i <= p /\ p <= j /\ Solid(i) /\ Solid(j)}

End == IF start + max_chars < Len(normalized) THEN start + max_chars ELSE Len(normalized)

-----------------------------------------------------------------------------
\* The checks before the loop, in the code's order: a blank text is not refused
\* whatever the sizes.
Enter ==
    /\ pc = "called"
    /\ normalized' = Normalize(text)
    /\ pc' = IF Len(normalized') = 0 THEN "returned" ELSE IF Valid THEN "loop" ELSE "raised"
    /\ UNCHANGED <<arguments, start, ordinal, chunks>>

\* PLAUSIBLE BUG: blank slices are counted.
CountBody(body) ==
    /\ chunks' = IF body = {} THEN chunks
                 ELSE Append(chunks, [ordinal |-> ordinal, text |-> body])
    /\ ordinal' = ordinal + 1

SaveBody(body) ==
    IF body = {}
    THEN UNCHANGED <<ordinal, chunks>>
    ELSE /\ chunks' = Append(chunks, [ordinal |-> ordinal, text |-> body])
         /\ ordinal' = ordinal + 1

\* PLAUSIBLE BUG: each window starts where the one before ended.
CutWithoutOverlap ==
    /\ pc = "loop"
    /\ SaveBody(Body(start, End))
    /\ start' = IF End = Len(normalized) THEN start ELSE End
    /\ pc' = IF End = Len(normalized) THEN "returned" ELSE "loop"
    /\ UNCHANGED <<arguments, normalized>>

\* PLAUSIBLE BUG: > for >= in the test that ends the loop, so a window that reaches
\* just to the end of the text is followed by another of what it has in common with it.
CutPastEnd ==
    /\ pc = "loop"
    /\ SaveBody(Body(start, End))
    /\ start' = IF start + max_chars > Len(normalized) THEN start ELSE End - overlap_chars
    /\ pc' = IF start + max_chars > Len(normalized) \/ start' >= Len(normalized)
             THEN "returned" ELSE "loop"
    /\ UNCHANGED <<arguments, normalized>>

\* One iteration, with the test of the while after it.
Cut ==
    /\ pc = "loop"
    /\ SaveBody(Body(start, End))
    /\ start' = IF End = Len(normalized) THEN start ELSE End - overlap_chars
    /\ pc' = IF End = Len(normalized) \/ start' >= Len(normalized) THEN "returned" ELSE "loop"
    /\ UNCHANGED <<arguments, normalized>>

Next == Enter \/ Cut

Spec == Init /\ [][Next]_vars

-----------------------------------------------------------------------------
\* Every variable keeps its shape, and the loop never runs out of text: it is
\* always left by its break.
TypeOK ==
    /\ pc \in {"called", "loop", "returned", "raised"}
    /\ text \in Texts /\ max_chars \in Sizes /\ overlap_chars \in Sizes
    /\ Len(normalized) <= Len(text)
    /\ start \in Nat
    /\ pc = "loop" => Valid /\ start < Len(normalized)
    /\ ordinal = Len(chunks)
    /\ chunks \in Seq([ordinal : Nat, text : SUBSET (1 .. Len(normalized))])

\* No phrase of up to overlap_chars + 1 characters is split: some chunk has all of
\* it.  In particular no word of the text is lost.
PhrasesStayWhole ==
    pc = "returned" =>
        \A i, j \in 1 .. Len(normalized) :
            i <= j /\ j - i <= overlap_chars /\ Solid(i) /\ Solid(j) =>
                \E c \in 1 .. Len(chunks) : i .. j \subseteq chunks[c].text

\* What is cited reads well: chunks have at most max_chars characters, none is blank,
\* begins or ends with white space, and no two have the same ordinal, hence chunk_id.
ChunksFit ==
    \A c \in 1 .. Len(chunks) :
        LET body == chunks[c].text
        IN  /\ chunks[c].ordinal = c - 1
            /\ \E i, j \in body : /\ Solid(i) /\ Solid(j)
                                  /\ body = i .. j
                                  /\ j - i < max_chars

\* Nothing but blank texts makes no chunk (the worker fails a document without
\* chunks), nothing but white space is dropped, and no white space run survives.
NothingLost ==
    pc = "returned" =>
        /\ \A i \in 1 .. Len(text) : text[i] = Letter =>
              \E c \in 1 .. Len(chunks) : \E p \in chunks[c].text : normalized[p] = i
        /\ \A p \in 1 .. Len(normalized) : ~Solid(p) =>
              1 < p /\ p < Len(normalized) /\ Solid(p - 1) /\ Solid(p + 1)

\* No text is chunked again on its own: a chunk has a letter that none of the chunks
\* before it has, the last one too.  (Windows that start one character apart may
\* differ by a space only, which strip() takes away.)
ChunksBringText ==
    max_chars - overlap_chars > 1 =>
        \A d \in 1 .. Len(chunks) :
            \E p \in chunks[d].text :
                Solid(p) /\ \A c \in 1 .. d - 1 : p \notin chunks[c].text

\* The loop ends: while it goes on, each window starts after the one before.
WindowsAdvance == [][pc = "loop" /\ pc' = "loop" => start' > start]_vars
=============================================================================
