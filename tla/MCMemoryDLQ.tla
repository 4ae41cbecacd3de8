----------------------------- MODULE MCMemoryDLQ -----------------------------
(***************************************************************************)
(* The small instance of MCIngestion with a choice of dead-letter queue.   *)
(***************************************************************************)
EXTENDS MCIngestion, MemoryDLQ
=============================================================================
