----------------------------- MODULE MCParallel -----------------------------
(* The combinators of three awaitables for TLC.                            *)
EXTENDS Parallel
=============================================================================
