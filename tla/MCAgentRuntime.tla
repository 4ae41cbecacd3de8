--------------------------- MODULE MCAgentRuntime ---------------------------
(***************************************************************************)
(* Three chunks of one tenant, one more than the runtime keeps, and one of *)
(* another.  A text is quoted whole, or with one of its two tokens cut, or *)
(* is one long token, cut.                                                 *)
(***************************************************************************)
EXTENDS AgentRuntime, TLC

CONSTANTS Ours, Theirs

MCChunk == Ours \cup Theirs
MCOwner == [c \in Chunk |-> IF c \in Theirs THEN "tb" ELSE "ta"]

\* Chunks of a tenant differ in their ids only, and no CHOOSE depends on the id.
Ids == Permutations(Ours)

MCWords == [t \in Text |-> CASE t = "whole" -> {"audit", "log"}
                             [] t = "cut" -> {"audit", "retention"}
                             [] t = "endless" -> {"pneumono"}]

MCQuoted == [t \in Text |-> CASE t = "whole" -> {"audit", "log"}
                              [] t = "cut" -> {"audit", "reten"}
                              [] t = "endless" -> {"pneum"}]

MCOpposite == -1
MCCosines == -1 .. 1
=============================================================================
