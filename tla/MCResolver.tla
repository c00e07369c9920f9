----------------------------- MODULE MCResolver -----------------------------
(* A few requests with few ids, so that ids collide and run out, for TLC.  *)
EXTENDS Resolver
=============================================================================
