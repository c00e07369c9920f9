------------------------------ MODULE MCStream ------------------------------
(* One stream with a few readers and writers for TLC.                      *)
EXTENDS Stream
=============================================================================
