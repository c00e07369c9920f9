------------------------------ MODULE MCReactor ------------------------------
(* Model-checking instance of Reactor. *)
EXTENDS Reactor, TLC

Symmetry == Permutations(Tasks \ {Main, Reporter})
=============================================================================
