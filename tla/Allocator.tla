------------------------------ MODULE Allocator ------------------------------
(***************************************************************************)
(* corosig::Allocator (container/Allocator.hpp, src/container/             *)
(* Allocator.cpp): memory for coroutine frames and containers inside a     *)
(* fixed buffer.                                                           *)
(*                                                                         *)
(* The buffer is a row of blocks.  A run of blocks starts with a block     *)
(* that holds its BlockMetadata; the runs tile the buffer, and the free    *)
(* ones are linked in a doubly linked list by block index.  Sizes and      *)
(* alignments are counted in blocks: a request for size bytes is its       *)
(* payload, the blocks that size rounds up to, and an alignment of at most *)
(* BLOCK_SIZE is 1.  Of the sizes no buffer can hold, only the largest     *)
(* payload, SizeT - 1, is requested.                                       *)
(***************************************************************************)
EXTENDS Naturals, FiniteSets

CONSTANTS
  Blocks,      \* blocks_amount()
  Base,        \* address of the buffer, in blocks
  Payloads,    \* payloads that are requested
  Alignments,  \* alignments that are requested
  SizeT        \* number of values of size_t, in blocks

ASSUME AllocatorAssumption ==
  /\ Blocks \in Nat \ {0} /\ Base \in Nat
  /\ SizeT \in Nat /\ SizeT > Base + 2 * Blocks
  /\ Payloads \subseteq (0 .. Blocks) \cup {SizeT - 1}
  /\ Alignments \subseteq 1 .. Blocks

VARIABLES
  meta,    \* the BlockMetadata in each block that has one
  first,   \* m_first_free_block_idx
  last,    \* m_last_free_block_idx
  used,    \* m_used, in blocks
  peak,    \* m_peak, in blocks
  chunks   \* what the callers have: payload and alignment of each pointer they were given

vars == <<meta, first, last, used, peak, chunks>>

Idx == 0 .. Blocks - 1

(* INVALID_IDX: an index that is not below blocks_amount(). *)
Invalid == Blocks

(* The bytes of a block that holds no metadata are the callers'; nothing  *)
(* is known of them.                                                      *)
Foreign == [before |-> Blocks, isUsed |-> TRUE, owned |-> Blocks, prev |-> Invalid, next |-> Invalid]

Metadata == [before : 0 .. Blocks, isUsed : BOOLEAN, owned : 0 .. Blocks,
             prev : 0 .. Blocks, next : 0 .. Blocks]

Init ==
  /\ meta = [i \in Idx |->
               IF i = 0 THEN [before |-> 0, isUsed |-> FALSE, owned |-> Blocks,
                              prev |-> Invalid, next |-> Invalid]
               ELSE Foreign]
  /\ first = 0
  /\ last = 0
  /\ used = 0
  /\ peak = 0
  /\ chunks = [p \in {} |-> 0]

-----------------------------------------------------------------------------
(***************************************************************************)
(* The helpers work on a heap: the metadata and the ends of the free list. *)
(***************************************************************************)
Heap == [meta |-> meta, first |-> first, last |-> last]

(* Mutant of SetBlocksOwned: the run behind is not told. *)
SetBlocksOwnedAlone(h, i, n) == [h EXCEPT !.meta[i].owned = n]

SetBlocksOwned(h, i, n) ==
  LET g == [h EXCEPT !.meta[i].owned = n]
  IN IF i + n < Blocks THEN [g EXCEPT !.meta[i + n].before = n] ELSE g

DefaultInitialize(h, i) ==
  [h EXCEPT !.meta[i].prev = Invalid, !.meta[i].next = Invalid, !.meta[i].isUsed = FALSE]

(* A big run goes to the front of the free list, any other to the back. *)
PushFreeNode(h, i) ==
  IF h.first = Invalid THEN [h EXCEPT !.first = i, !.last = i]
  ELSE IF h.meta[i].owned > Blocks \div 4
  THEN [h EXCEPT !.meta[h.first].prev = i, !.meta[i].next = h.first, !.first = i]
  ELSE [h EXCEPT !.meta[h.last].next = i, !.meta[i].prev = h.last, !.last = i]

(* Mutant of UnlinkFreeNode: the end of the list is not updated. *)
UnlinkFreeNodeKeepsLast(h, i) ==
  LET prev == h.meta[i].prev
      next == h.meta[i].next
      g == IF next # Invalid THEN [h EXCEPT !.meta[next].prev = prev] ELSE h
      k == IF prev # Invalid THEN [g EXCEPT !.meta[prev].next = next] ELSE g
  IN [k EXCEPT !.first = IF @ = i THEN next ELSE @,
               !.meta[i].prev = Invalid, !.meta[i].next = Invalid]

UnlinkFreeNode(h, i) ==
  LET prev == h.meta[i].prev
      next == h.meta[i].next
      g == IF next # Invalid THEN [h EXCEPT !.meta[next].prev = prev] ELSE h
      k == IF prev # Invalid THEN [g EXCEPT !.meta[prev].next = next] ELSE g
  IN [k EXCEPT !.first = IF @ = i THEN next ELSE @,
               !.last = IF @ = i THEN prev ELSE @,
               !.meta[i].prev = Invalid, !.meta[i].next = Invalid]

-----------------------------------------------------------------------------
(* allocate(size, alignment) *)

(* Blocks to skip so that the memory behind the metadata in block i is    *)
(* aligned (align_right_diff).                                            *)
AlignSkip(i, a) == (a - ((Base + i + 1) % a)) % a

(* Mutant of BlocksNeeded: the metadata is forgotten. *)
BlocksNeededWithoutMetadata(i, p, a) == (p + AlignSkip(i, a)) % SizeT

(* ceil_div(sizeof(BlockMetadata) + size + align_diff, BLOCK_SIZE). *)
BlocksNeeded(i, p, a) == (1 + p + AlignSkip(i, a)) % SizeT

Fits(i, p, a) == meta[i].owned >= BlocksNeeded(i, p, a)

(* The free list from its front on. *)
FreeNode[n \in Nat] ==
  IF n = 0 THEN first
  ELSE LET i == FreeNode[n - 1] IN IF i = Invalid THEN Invalid ELSE meta[i].next

(* n is the position in the free list of the first run that fits. *)
FirstFit(n, p, a) ==
  /\ FreeNode[n] # Invalid /\ Fits(FreeNode[n], p, a)
  /\ \A k \in 0 .. n - 1 : ~Fits(FreeNode[k], p, a)

(* Split off the blocks in front of an aligned run; they stay free. *)
SkipForAlignment(h, i, skip) ==
  IF skip = 0 THEN h
  ELSE LET g == SetBlocksOwned(h, i, skip)
           k == PushFreeNode(UnlinkFreeNode(g, i), i)
       IN SetBlocksOwned(DefaultInitialize(k, i + skip), i + skip, h.meta[i].owned - skip)

(* Use n blocks of the free run at i; the rest becomes a free run. *)
TakeRun(h, i, n) ==
  LET g == [UnlinkFreeNode(h, i) EXCEPT !.meta[i].isUsed = TRUE]
      rest == h.meta[i].owned - n
      k == SetBlocksOwned(g, i, n)
  IN IF n < h.meta[i].owned
     THEN PushFreeNode(SetBlocksOwned(DefaultInitialize(k, i + n), i + n, rest), i + n)
     ELSE k

(* Mutant of Used: the blocks skipped for alignment are counted too. *)
UsedWithSkip(n, skip) == used + n + skip

(* m_used behind an allocation of n blocks, skip blocks into a free run. *)
Used(n, skip) == used + n

(* allocate() finds a run at i; a request no run fits changes nothing. *)
AllocateAt(i, p, a) ==
  LET skip == AlignSkip(i, a)
      at == i + skip
      n == BlocksNeeded(i, p, a) - skip
      h == TakeRun(SkipForAlignment(Heap, i, skip), at, n)
  IN /\ meta' = [b \in Idx |-> IF b \in at + 1 .. at + p THEN Foreign ELSE h.meta[b]]
     /\ first' = h.first
     /\ last' = h.last
     /\ used' = Used(n, skip)
     /\ peak' = IF used' > peak THEN used' ELSE peak
     /\ chunks' = [q \in DOMAIN chunks \cup {at + 1} |->
                      IF q = at + 1 THEN [payload |-> p, alignment |-> a] ELSE chunks[q]]

Allocate(p, a) ==
  \E n \in Idx : FirstFit(n, p, a) /\ AllocateAt(FreeNode[n], p, a)

-----------------------------------------------------------------------------
(* deallocate(ptr) *)

(* The run that takes in run i: the one before it when that is free. *)
Previous(i) ==
  IF meta[i].before # 0 /\ ~meta[i - meta[i].before].isUsed
  THEN i - meta[i].before ELSE i

MergePrevious(h, i) ==
  LET j == Previous(i)
  IN IF j = i THEN h
     ELSE UnlinkFreeNode(SetBlocksOwned(h, j, h.meta[j].owned + h.meta[i].owned), j)

(* Mutant of MergeNext: the run behind is left alone. *)
MergeNextNever(h, j) == h

MergeNext(h, j) ==
  LET k == j + h.meta[j].owned
  IN IF k < Blocks /\ ~h.meta[k].isUsed
     THEN UnlinkFreeNode(SetBlocksOwned(h, j, h.meta[j].owned + h.meta[k].owned), k)
     ELSE h

(* The run is merged with the free runs next to it and put on the list. *)
Deallocate(ptr) ==
  LET i == ptr - 1
      j == Previous(i)
      merged == MergeNext(MergePrevious(Heap, i), j)
      h == PushFreeNode(UnlinkFreeNode([merged EXCEPT !.meta[j].isUsed = FALSE], j), j)
  IN /\ meta' = [b \in Idx |-> IF b \in j + 1 .. j + h.meta[j].owned - 1 THEN Foreign ELSE h.meta[b]]
     /\ first' = h.first
     /\ last' = h.last
     /\ used' = used - meta[i].owned
     /\ chunks' = [q \in DOMAIN chunks \ {ptr} |-> chunks[q]]
     /\ UNCHANGED peak

Next ==
  \/ \E p \in Payloads, a \in Alignments : Allocate(p, a)
  \/ \E ptr \in DOMAIN chunks : Deallocate(ptr)

Spec == Init /\ [][Next]_vars

-----------------------------------------------------------------------------
(* The blocks that hold metadata, and the runs that are free or in use. *)
Heads == {i \in Idx : meta[i] # Foreign}

FreeHeads == {i \in Heads : ~meta[i].isUsed}

UsedHeads == {i \in Heads : meta[i].isUsed}

Run(i) == i .. i + meta[i].owned - 1

(* The type invariant. *)
TypeOK ==
  /\ meta \in [Idx -> Metadata]
  /\ first \in 0 .. Blocks
  /\ last \in 0 .. Blocks
  /\ used \in 0 .. Blocks
  /\ peak \in used .. Blocks
  /\ DOMAIN chunks \subseteq 1 .. Blocks

(* The runs tile the buffer and each knows the length of the one in front *)
(* (set_blocks_owned), so deallocate() finds its neighbours.              *)
Tiling ==
  /\ TypeOK
  /\ 0 \in Heads /\ meta[0].before = 0
  /\ \A i \in Heads :
       /\ meta[i].owned > 0 /\ i + meta[i].owned <= Blocks
       /\ Run(i) \cap Heads = {i}
       /\ i + meta[i].owned # Blocks =>
            /\ i + meta[i].owned \in Heads
            /\ meta[i + meta[i].owned].before = meta[i].owned

(* Walking the free list from m_first_free_block_idx meets every free run *)
(* once and ends at m_last_free_block_idx, and the links back agree       *)
(* (push_free_node, unlink_free_node): allocate() overlooks no run.       *)
FreeListExact ==
  LET walk == {n \in 0 .. Blocks : FreeNode[n] # Invalid}
  IN /\ {FreeNode[n] : n \in walk} = FreeHeads
     /\ Cardinality(walk) = Cardinality(FreeHeads)
     /\ \A n \in walk : meta[FreeNode[n]].prev = IF n = 0 THEN Invalid ELSE FreeNode[n - 1]
     /\ last = IF FreeHeads = {} THEN Invalid ELSE FreeNode[Cardinality(FreeHeads) - 1]

(* Free runs are merged as soon as they touch (deallocate()), so a request *)
(* fails for want of a gap and never because a gap is split in two; with   *)
(* everything deallocated the buffer is one free run again.                *)
Coalesced ==
  \A i \in FreeHeads : i + meta[i].owned \notin FreeHeads

(* current_memory() is what the runs in use add up to, and every run in    *)
(* use is some caller's: a deallocate() gives back what its allocate()     *)
(* took, alignment included.                                               *)
UsedIsSum ==
  /\ used = Cardinality(UNION {Run(i) : i \in UsedHeads})
  /\ DOMAIN chunks = {i + 1 : i \in UsedHeads}

(* What callers of an allocator rely on. *)
Contract == INSTANCE HeapPromise WITH given <- chunks

(* allocate() and deallocate() give out memory that is inside the buffer,  *)
(* aligned as asked for, nobody else's, and not the allocator's metadata.  *)
KeepsPromise == Contract!Spec
=============================================================================
