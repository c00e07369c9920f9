----------------------------- MODULE HeapPromise -----------------------------
(***************************************************************************)
(* What the callers of corosig::Allocator may rely on (the contract of     *)
(* allocate() and deallocate() in container/Allocator.hpp): memory is      *)
(* handed out in chunks that lie in the buffer, are aligned as asked for   *)
(* and share nothing with each other.  How free memory is found, split and *)
(* merged is left open.  Every chunk has the block in front of it, where   *)
(* get_metadata_idx_from_addr() looks for its metadata, to itself.         *)
(***************************************************************************)
EXTENDS Naturals

CONSTANTS Blocks, Base, Payloads, Alignments

VARIABLE given  \* payload and alignment of each pointer given out

Init == given = [p \in {} |-> 0]

(* The blocks of a chunk at ptr, and the one in front of it. *)
Extent(ptr, payload) == ptr - 1 .. ptr + payload - 1

Allocate(ptr, p, a) ==
  /\ Extent(ptr, p) \subseteq 0 .. Blocks - 1
  /\ (Base + ptr) % a = 0
  /\ \A q \in DOMAIN given : Extent(ptr, p) \cap Extent(q, given[q].payload) = {}
  /\ given' = [q \in DOMAIN given \cup {ptr} |->
                  IF q = ptr THEN [payload |-> p, alignment |-> a] ELSE given[q]]

Deallocate(ptr) == given' = [q \in DOMAIN given \ {ptr} |-> given[q]]

Next ==
  \/ \E ptr \in 1 .. Blocks, p \in Payloads, a \in Alignments : Allocate(ptr, p, a)
  \/ \E ptr \in DOMAIN given : Deallocate(ptr)

Spec == Init /\ [][Next]_given
=============================================================================
