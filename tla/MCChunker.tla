------------------------------ MODULE MCChunker ------------------------------
(***************************************************************************)
(* All texts of up to MaxLength characters, for TLC.                       *)
(***************************************************************************)
EXTENDS Chunker

CONSTANT MaxLength  \* BOUND on the length of a text

ShortTexts == UNION {[1 .. n -> {Letter, Space}] : n \in 0 .. MaxLength}
SmallSizes == -1 .. 4
=============================================================================
