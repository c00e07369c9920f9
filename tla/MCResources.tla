---------------------------- MODULE MCResources ----------------------------
(***************************************************************************)
(* What coroutines own, for TLC: memory (Allocator), vectors in it         *)
(* (Vector) and file descriptors (Descriptors).  The three share no state  *)
(* (Vector asks for memory, and may or may not get it), so that one of     *)
(* them, part, moves in a behaviour and the others stay where they begin.  *)
(***************************************************************************)
EXTENDS Allocator, Descriptors, Vector, TLC

VARIABLE part

allVars == <<part, vars, vectorVars, fdVars>>

MemoryRuns ==
  /\ part = "memory" /\ Next
  /\ UNCHANGED <<part, vectorVars, fdVars>>

VectorRuns ==
  /\ part = "vectors" /\ VectorNext
  /\ UNCHANGED <<part, vars, fdVars>>

FdRuns ==
  /\ part = "descriptors" /\ FdNext
  /\ UNCHANGED <<part, vars, vectorVars>>

ResourceInit ==
  /\ part \in {"memory", "vectors", "descriptors"}
  /\ Init /\ VectorInit /\ FdInit

ResourceSpec ==
  /\ ResourceInit
  /\ [][MemoryRuns \/ VectorRuns \/ FdRuns]_allVars

-----------------------------------------------------------------------------
MCRanges == {<<>>, <<"a">>, <<"b", "a">>}
Symmetry == Permutations(Vecs)
(* What tells states apart: not the record of the last call. *)
MemoryView == <<part, vars, vec, mem, fdVars>>
=============================================================================
