------------------------------ MODULE MCAskApi ------------------------------
(***************************************************************************)
(* The small instance of MCAgentRuntime behind POST /ask.                  *)
(***************************************************************************)
EXTENDS MCAgentRuntime, AskApi
=============================================================================
