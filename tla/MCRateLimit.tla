---------------------------- MODULE MCRateLimit ----------------------------
(***************************************************************************)
(* Small instances of Limiters for TLC.  Requests are interchangeable.    *)
(***************************************************************************)
EXTENDS Limiters, TLC

Symmetric == Permutations(Request)
=============================================================================
