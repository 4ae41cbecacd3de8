----------------------------- MODULE MCIngestion -----------------------------
(***************************************************************************)
(* Small instances of Ingestion for TLC: model values for tenants,         *)
(* documents, workers and API processes; two chunks per document, so that  *)
(* an index call can stop half-way.                                        *)
(***************************************************************************)
EXTENDS Ingestion, TLC

TwoChunks == [d \in Doc |-> 2]

\* The text of one document is blank, so no upload ever stores it.
BlankText == CHOOSE d \in Doc : TRUE
OneBlank == [TwoChunks EXCEPT ![BlankText] = 0]

NoStray == {}

\* A job for each document under one of the tenants: for a missing document
\* (tests/test_ingestion_dlq.py:53-69), or for one that another tenant may own.
StrayOfOneTenant ==
    LET t == CHOOSE t \in Tenant : TRUE
    IN  {[doc |-> d, tenant |-> t, retry |-> 0] : d \in Doc}

Symmetric == Permutations(Worker) \cup Permutations(Api)
=============================================================================
