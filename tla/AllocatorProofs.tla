--------------------------- MODULE AllocatorProofs ---------------------------
(***************************************************************************)
(* The allocator for a buffer of any size at any address, with any         *)
(* alignments and every request that is small enough for its size          *)
(* computation not to wrap (NoWrap).                                       *)
(***************************************************************************)
EXTENDS Allocator, BasicLemmas

(* Requests for payloads that a buffer could hold. *)
NoWrap == Payloads \subseteq 0 .. Blocks

Heaps == [meta : [Idx -> Metadata], first : 0 .. Blocks, last : 0 .. Blocks]

(* The heads S divide the buffer into runs, each next to the one before.    *)
Tiled(m, S) ==
  /\ S \subseteq Idx
  /\ 0 \in S /\ m[0].before = 0
  /\ \A i \in S :
       /\ m[i].owned > 0 /\ i + m[i].owned <= Blocks
       /\ \A x \in S : x <= i \/ i + m[i].owned <= x
       /\ i + m[i].owned # Blocks =>
            i + m[i].owned \in S /\ m[i + m[i].owned].before = m[i].owned
  /\ \A i \in S \ {0} :
       /\ m[i].before > 0 /\ i - m[i].before \in S
       /\ m[i - m[i].before].owned = m[i].before

(* s is the free list of heap h. *)
Linked(h, s) ==
  /\ s \in Seq(Idx) /\ IsInjective(s)
  /\ h.first = IF s = <<>> THEN Invalid ELSE s[1]
  /\ h.last = IF s = <<>> THEN Invalid ELSE s[Len(s)]
  /\ \A k \in 1 .. Len(s) :
       /\ h.meta[s[k]].prev = IF k = 1 THEN Invalid ELSE s[k - 1]
       /\ h.meta[s[k]].next = IF k = Len(s) THEN Invalid ELSE s[k + 1]

Alone(h, i) == h.meta[i].prev = Invalid /\ h.meta[i].next = Invalid

-----------------------------------------------------------------------------
(* The sizes of the buffer. *)
LEMMA Numbers ==
  /\ Blocks \in Nat /\ Blocks > 0 /\ Base \in Nat /\ Invalid = Blocks
  /\ Idx = 0 .. Blocks - 1 /\ Idx \subseteq 0 .. Blocks /\ 0 \in Idx
  /\ SizeT \in Nat /\ SizeT > Base + 2 * Blocks
  /\ Alignments \subseteq 1 .. Blocks
BY AllocatorAssumption DEF AllocatorAssumption, Invalid, Idx

(* Two records of metadata with the same fields are the same. *)
LEMMA SameRecord ==
  ASSUME NEW r \in Metadata, NEW q \in Metadata,
         r.before = q.before, r.isUsed = q.isUsed, r.owned = q.owned,
         r.prev = q.prev, r.next = q.next
  PROVE  r = q
BY DEF Metadata

(* The records r and q differ at most in the given field. *)
Same(r, q, field) ==
  /\ field # "before" => r.before = q.before
  /\ field # "isUsed" => r.isUsed = q.isUsed
  /\ field # "owned" => r.owned = q.owned
  /\ field # "prev" => r.prev = q.prev
  /\ field # "next" => r.next = q.next

(* Heap g is h but for a field of block i. *)
Edited(g, h, i, field) ==
  /\ g \in Heaps /\ g.first = h.first /\ g.last = h.last
  /\ \A b \in Idx \ {i} : g.meta[b] = h.meta[b]
  /\ Same(g.meta[i], h.meta[i], field)

(* Assigning the length of a run. *)
LEMMA EditOwned ==
  ASSUME NEW h \in Heaps, NEW i \in Idx, NEW v \in 0 .. Blocks
  PROVE  /\ Edited([h EXCEPT !.meta[i].owned = v], h, i, "owned")
         /\ [h EXCEPT !.meta[i].owned = v].meta[i].owned = v
<1> DEFINE q == [h.meta[i] EXCEPT !.owned = v]
           g == [h EXCEPT !.meta[i].owned = v]
<1>1. q \in Metadata /\ q.owned = v /\ Same(q, h.meta[i], "owned")
  BY DEF Heaps, Metadata, Same
<1> HIDE DEF q
<1>2. /\ g.meta[i] = q /\ g \in Heaps /\ g.first = h.first /\ g.last = h.last
      /\ \A b \in Idx \ {i} : g.meta[b] = h.meta[b]
  BY <1>1 DEF Heaps, q
<1> HIDE DEF g
<1>3. Edited(g, h, i, "owned") /\ g.meta[i].owned = v
  BY <1>1, <1>2 DEF Edited
<1> QED
  BY <1>3 DEF g

(* Assigning the length of the run in front. *)
LEMMA EditBefore ==
  ASSUME NEW h \in Heaps, NEW i \in Idx, NEW v \in 0 .. Blocks
  PROVE  /\ Edited([h EXCEPT !.meta[i].before = v], h, i, "before")
         /\ [h EXCEPT !.meta[i].before = v].meta[i].before = v
<1> DEFINE q == [h.meta[i] EXCEPT !.before = v]
           g == [h EXCEPT !.meta[i].before = v]
<1>1. q \in Metadata /\ q.before = v /\ Same(q, h.meta[i], "before")
  BY DEF Heaps, Metadata, Same
<1> HIDE DEF q
<1>2. /\ g.meta[i] = q /\ g \in Heaps /\ g.first = h.first /\ g.last = h.last
      /\ \A b \in Idx \ {i} : g.meta[b] = h.meta[b]
  BY <1>1 DEF Heaps, q
<1> HIDE DEF g
<1>3. Edited(g, h, i, "before") /\ g.meta[i].before = v
  BY <1>1, <1>2 DEF Edited
<1> QED
  BY <1>3 DEF g

(* Assigning a link. *)
LEMMA EditPrev ==
  ASSUME NEW h \in Heaps, NEW i \in Idx, NEW v \in 0 .. Blocks
  PROVE  /\ Edited([h EXCEPT !.meta[i].prev = v], h, i, "prev")
         /\ [h EXCEPT !.meta[i].prev = v].meta[i].prev = v
<1> DEFINE q == [h.meta[i] EXCEPT !.prev = v]
           g == [h EXCEPT !.meta[i].prev = v]
<1>1. q \in Metadata /\ q.prev = v /\ Same(q, h.meta[i], "prev")
  BY DEF Heaps, Metadata, Same
<1> HIDE DEF q
<1>2. /\ g.meta[i] = q /\ g \in Heaps /\ g.first = h.first /\ g.last = h.last
      /\ \A b \in Idx \ {i} : g.meta[b] = h.meta[b]
  BY <1>1 DEF Heaps, q
<1> HIDE DEF g
<1>3. Edited(g, h, i, "prev") /\ g.meta[i].prev = v
  BY <1>1, <1>2 DEF Edited
<1> QED
  BY <1>3 DEF g

(* Assigning a link. *)
LEMMA EditNext ==
  ASSUME NEW h \in Heaps, NEW i \in Idx, NEW v \in 0 .. Blocks
  PROVE  /\ Edited([h EXCEPT !.meta[i].next = v], h, i, "next")
         /\ [h EXCEPT !.meta[i].next = v].meta[i].next = v
<1> DEFINE q == [h.meta[i] EXCEPT !.next = v]
           g == [h EXCEPT !.meta[i].next = v]
<1>1. q \in Metadata /\ q.next = v /\ Same(q, h.meta[i], "next")
  BY DEF Heaps, Metadata, Same
<1> HIDE DEF q
<1>2. /\ g.meta[i] = q /\ g \in Heaps /\ g.first = h.first /\ g.last = h.last
      /\ \A b \in Idx \ {i} : g.meta[b] = h.meta[b]
  BY <1>1 DEF Heaps, q
<1> HIDE DEF g
<1>3. Edited(g, h, i, "next") /\ g.meta[i].next = v
  BY <1>1, <1>2 DEF Edited
<1> QED
  BY <1>3 DEF g

(* Assigning the mark of a run in use. *)
LEMMA EditIsUsed ==
  ASSUME NEW h \in Heaps, NEW i \in Idx, NEW v \in BOOLEAN
  PROVE  /\ Edited([h EXCEPT !.meta[i].isUsed = v], h, i, "isUsed")
         /\ [h EXCEPT !.meta[i].isUsed = v].meta[i].isUsed = v
<1> DEFINE q == [h.meta[i] EXCEPT !.isUsed = v]
           g == [h EXCEPT !.meta[i].isUsed = v]
<1>1. q \in Metadata /\ q.isUsed = v /\ Same(q, h.meta[i], "isUsed")
  BY DEF Heaps, Metadata, Same
<1> HIDE DEF q
<1>2. /\ g.meta[i] = q /\ g \in Heaps /\ g.first = h.first /\ g.last = h.last
      /\ \A b \in Idx \ {i} : g.meta[b] = h.meta[b]
  BY <1>1 DEF Heaps, q
<1> HIDE DEF g
<1>3. Edited(g, h, i, "isUsed") /\ g.meta[i].isUsed = v
  BY <1>1, <1>2 DEF Edited
<1> QED
  BY <1>3 DEF g

(* Links and marks of the runs are the same; their lengths may differ. *)
SameLinks(g, h) ==
  /\ g.first = h.first /\ g.last = h.last
  /\ \A b \in Idx : /\ g.meta[b].isUsed = h.meta[b].isUsed
                    /\ g.meta[b].prev = h.meta[b].prev
                    /\ g.meta[b].next = h.meta[b].next

(* Lengths and marks of the runs are the same; the links may differ. *)
SameRuns(g, h) ==
  \A b \in Idx : /\ g.meta[b].owned = h.meta[b].owned
                 /\ g.meta[b].before = h.meta[b].before
                 /\ g.meta[b].isUsed = h.meta[b].isUsed

(* The run at i has n blocks, and the one behind it knows. *)
Resized(g, h, i, n) ==
  /\ g \in Heaps /\ SameLinks(g, h)
  /\ \A b \in Idx : /\ g.meta[b].owned = IF b = i THEN n ELSE h.meta[b].owned
                    /\ g.meta[b].before = IF b = i + n THEN n ELSE h.meta[b].before
  /\ \A b \in Idx \ {i, i + n} : g.meta[b] = h.meta[b]

(* set_blocks_owned() changes lengths only. *)
LEMMA SetOwnedFields ==
  ASSUME NEW h \in Heaps, NEW i \in Idx, NEW n \in 0 .. Blocks
  PROVE  Resized(SetBlocksOwned(h, i, n), h, i, n)
<1> DEFINE c == i + n
           k == [h EXCEPT !.meta[i].owned = n]
           g == [k EXCEPT !.meta[c].before = n]
<1>1. Edited(k, h, i, "owned") /\ k.meta[i].owned = n
  BY EditOwned, Zenon
<1>2. SetBlocksOwned(h, i, n) = IF i + n < Blocks THEN g ELSE k
  BY DEF SetBlocksOwned
<1> HIDE DEF k
<1>3. k \in Heaps
  BY <1>1 DEF Edited
<1>4. CASE i + n < Blocks
  <2>1. c \in Idx
    BY <1>4, Numbers
  <2> HIDE DEF c
  <2>2. Edited(g, k, c, "before") /\ g.meta[c].before = n
    BY <1>3, <2>1, EditBefore
  <2> HIDE DEF g
  <2>3. Resized(g, h, i, n)
    BY <1>1, <2>1, <2>2 DEF Edited, Same, Resized, SameLinks, c
  <2> QED
    BY <1>2, <1>4, <2>3
<1>5. CASE ~(i + n < Blocks)
  <2>1. \A b \in Idx : b # i + n
    BY <1>5, Numbers
  <2>2. Resized(k, h, i, n)
    BY <1>1, <2>1 DEF Edited, Same, Resized, SameLinks
  <2> QED
    BY <1>2, <1>5, <2>2
<1> QED
  BY <1>4, <1>5

(* Block i holds a free run that is in no list. *)
Initialized(g, h, i) ==
  /\ g \in Heaps /\ g.first = h.first /\ g.last = h.last
  /\ ~g.meta[i].isUsed /\ Alone(g, i)
  /\ g.meta[i].owned = h.meta[i].owned /\ g.meta[i].before = h.meta[i].before
  /\ \A b \in Idx \ {i} : g.meta[b] = h.meta[b]

(* default_initialize() *)
LEMMA DefaultInitializeFields ==
  ASSUME NEW h \in Heaps, NEW i \in Idx
  PROVE  Initialized(DefaultInitialize(h, i), h, i)
<1> DEFINE k == [h EXCEPT !.meta[i].prev = Invalid]
           l == [k EXCEPT !.meta[i].next = Invalid]
           g == [l EXCEPT !.meta[i].isUsed = FALSE]
<1>0. Invalid \in 0 .. Blocks /\ FALSE \in BOOLEAN
  BY Numbers
<1>1. Edited(k, h, i, "prev") /\ k.meta[i].prev = Invalid
  BY <1>0, EditPrev, Zenon
<1>2. DefaultInitialize(h, i) = g
  BY DEF DefaultInitialize
<1> HIDE DEF k
<1>3. k \in Heaps
  BY <1>1 DEF Edited
<1>4. Edited(l, k, i, "next") /\ l.meta[i].next = Invalid
  BY <1>0, <1>3, EditNext, Zenon
<1> HIDE DEF l
<1>5. l \in Heaps
  BY <1>4 DEF Edited
<1>6. Edited(g, l, i, "isUsed") /\ g.meta[i].isUsed = FALSE
  BY <1>0, <1>5, EditIsUsed, Zenon
<1> HIDE DEF g
<1>7. Initialized(g, h, i)
  BY <1>1, <1>4, <1>6 DEF Edited, Same, Initialized, Alone
<1> QED
  BY <1>2, <1>7

-----------------------------------------------------------------------------
(* The free list.                                                           *)

(* The links back of block a and on of block c are set. *)
Relinked(g, h, a, x, c, y) ==
  /\ g \in Heaps /\ SameRuns(g, h)
  /\ \A b \in Idx : /\ g.meta[b].prev = IF b = a THEN x ELSE h.meta[b].prev
                    /\ g.meta[b].next = IF b = c THEN y ELSE h.meta[b].next
  /\ \A b \in Idx \ {a, c} : g.meta[b] = h.meta[b]

(* One assignment after the other does that, in either order. *)
LEMMA Relink ==
  ASSUME NEW h \in Heaps, NEW a \in Idx, NEW c \in Idx, NEW x \in 0 .. Blocks, NEW y \in 0 .. Blocks
  PROVE  /\ Relinked([h EXCEPT !.meta[a].prev = x, !.meta[c].next = y], h, a, x, c, y)
         /\ Relinked([h EXCEPT !.meta[c].next = y, !.meta[a].prev = x], h, a, x, c, y)
<1>1. Relinked([h EXCEPT !.meta[a].prev = x, !.meta[c].next = y], h, a, x, c, y)
  <2> DEFINE k == [h EXCEPT !.meta[a].prev = x]
             g == [k EXCEPT !.meta[c].next = y]
  <2>1. Edited(k, h, a, "prev") /\ k.meta[a].prev = x
    BY EditPrev, Zenon
  <2>2. [h EXCEPT !.meta[a].prev = x, !.meta[c].next = y] = g
    OBVIOUS
  <2> HIDE DEF k
  <2>3. k \in Heaps
    BY <2>1 DEF Edited
  <2>4. Edited(g, k, c, "next") /\ g.meta[c].next = y
    BY <2>3, EditNext, Zenon
  <2> HIDE DEF g
  <2>5. Relinked(g, h, a, x, c, y)
    BY <2>1, <2>4 DEF Edited, Same, Relinked, SameRuns
  <2> QED
    BY <2>2, <2>5, Zenon
<1>2. Relinked([h EXCEPT !.meta[c].next = y, !.meta[a].prev = x], h, a, x, c, y)
  <2> DEFINE k == [h EXCEPT !.meta[c].next = y]
             g == [k EXCEPT !.meta[a].prev = x]
  <2>1. Edited(k, h, c, "next") /\ k.meta[c].next = y
    BY EditNext, Zenon
  <2>2. [h EXCEPT !.meta[c].next = y, !.meta[a].prev = x] = g
    OBVIOUS
  <2> HIDE DEF k
  <2>3. k \in Heaps
    BY <2>1 DEF Edited
  <2>4. Edited(g, k, a, "prev") /\ g.meta[a].prev = x
    BY <2>3, EditPrev, Zenon
  <2> HIDE DEF g
  <2>5. Relinked(g, h, a, x, c, y)
    BY <2>1, <2>4 DEF Edited, Same, Relinked, SameRuns
  <2> QED
    BY <2>2, <2>5, Zenon
<1> QED
  BY <1>1, <1>2, Zenon

(* What Linked says of the indexes of the list. *)
LEMMA LinkedIndexes ==
  ASSUME NEW h, NEW s, Linked(h, s)
  PROVE  /\ s \in Seq(Idx) /\ Len(s) \in Nat /\ DOMAIN s = 1 .. Len(s)
         /\ \A k \in 1 .. Len(s) : s[k] \in Idx /\ s[k] \in ToSet(s)
         /\ \A k, l \in 1 .. Len(s) : s[k] = s[l] => k = l
         /\ \A b \in ToSet(s) : \E k \in 1 .. Len(s) : b = s[k]
         /\ ToSet(s) \subseteq Idx
BY DEF Linked, IsInjective, ToSet

(* A list that is not empty, with i linked in front of it. *)
LEMMA LinkedFront ==
  ASSUME NEW h, NEW s, Linked(h, s), s # <<>>, NEW i \in Idx, i \notin ToSet(s), Alone(h, i),
         NEW g, g.first = i, g.last = h.last, Relinked(g, h, h.first, i, i, h.first)
  PROVE  \E t : Linked(g, t) /\ ToSet(t) = ToSet(s) \cup {i}
<1>0. \A b \in Idx : /\ g.meta[b].prev = IF b = h.first THEN i ELSE h.meta[b].prev
                     /\ g.meta[b].next = IF b = i THEN h.first ELSE h.meta[b].next
  BY DEF Relinked
<1>1. s \in Seq(Idx) /\ Len(s) \in Nat /\ Len(s) > 0
  BY DEF Linked
<1>2. \A k \in 1 .. Len(s) : s[k] \in Idx /\ s[k] # i
  BY LinkedIndexes
<1>3. h.first = s[1] /\ h.last = s[Len(s)]
  BY DEF Linked
<1>4. \A k \in 1 .. Len(s) : s[k] = h.first => k = 1
  <2>1. 1 \in 1 .. Len(s)
    BY <1>1
  <2> QED
    BY <1>3, <2>1, LinkedIndexes
<1> DEFINE t == <<i>> \o s
<1>6. /\ t \in Seq(Idx) /\ Len(t) = Len(s) + 1
      /\ t[1] = i /\ \A k \in 1 .. Len(s) : t[k + 1] = s[k]
      /\ IsInjective(t) /\ ToSet(t) = ToSet(s) \cup {i}
  <2>1. IsInjective(s)
    BY DEF Linked
  <2> QED
    BY <1>1, <2>1, PrependOnce
<1> HIDE DEF t
<1>7. \A k \in 1 .. Len(s) :
        /\ h.meta[s[k]].prev = IF k = 1 THEN Invalid ELSE s[k - 1]
        /\ h.meta[s[k]].next = IF k = Len(s) THEN Invalid ELSE s[k + 1]
  BY DEF Linked
<1>8. /\ g.meta[t[1]].prev = Invalid /\ g.meta[t[1]].next = t[1 + 1]
  <2>1. t[1 + 1] = s[1] /\ s[1] # i
    BY <1>1, <1>2, <1>6
  <2> QED
    BY <1>0, <1>1, <1>3, <1>6, <2>1 DEF Alone
<1>9. ASSUME NEW j \in 1 .. Len(s)
      PROVE  /\ g.meta[t[j + 1]].prev = t[j]
             /\ g.meta[t[j + 1]].next = IF j = Len(s) THEN Invalid ELSE t[j + 2]
  <2>1. t[j + 1] = s[j] /\ s[j] \in Idx /\ s[j] # i
    BY <1>2, <1>6
  <2>2. ASSUME j = 1 PROVE g.meta[t[j + 1]].prev = t[j]
    BY <1>0, <1>3, <1>6, <2>1, <2>2
  <2>3. ASSUME j # 1 PROVE g.meta[t[j + 1]].prev = t[j]
    <3>1. g.meta[s[j]].prev = s[j - 1]
      BY <1>0, <1>4, <1>7, <2>1, <2>3
    <3>2. j - 1 \in 1 .. Len(s) /\ (j - 1) + 1 = j
      BY <1>1, <2>3
    <3>3. t[j] = s[j - 1]
      BY <1>6, <3>2
    <3> QED
      BY <2>1, <3>1, <3>3
  <2>4. g.meta[s[j]].next = IF j = Len(s) THEN Invalid ELSE s[j + 1]
    BY <1>0, <1>7, <2>1
  <2>5. j # Len(s) => s[j + 1] = t[j + 2]
    <3>1. j # Len(s) => j + 1 \in 1 .. Len(s) /\ (j + 1) + 1 = j + 2
      BY <1>1
    <3> QED
      BY <1>6, <3>1
  <2>6. g.meta[t[j + 1]].prev = t[j]
    BY <2>2, <2>3
  <2> QED
    BY <2>1, <2>4, <2>5, <2>6
<1>10. ASSUME NEW k \in 1 .. Len(t)
       PROVE  /\ g.meta[t[k]].prev = IF k = 1 THEN Invalid ELSE t[k - 1]
              /\ g.meta[t[k]].next = IF k = Len(t) THEN Invalid ELSE t[k + 1]
  <2>1. CASE k = 1
    BY <1>1, <1>6, <1>8, <2>1
  <2>2. CASE k # 1
    <3>1. /\ k - 1 \in 1 .. Len(s) /\ (k - 1) + 1 = k /\ (k - 1) + 2 = k + 1
          /\ (k - 1 = Len(s) <=> k = Len(t))
      BY <1>1, <1>6, <2>2
    <3>2. /\ g.meta[t[(k - 1) + 1]].prev = t[k - 1]
          /\ g.meta[t[(k - 1) + 1]].next = IF k - 1 = Len(s) THEN Invalid ELSE t[(k - 1) + 2]
      BY <1>9, <3>1
    <3> QED
      BY <2>2, <3>1, <3>2
  <2> QED
    BY <2>1, <2>2
<1>11. t # <<>> /\ t[Len(t)] = s[Len(s)]
  <2>1. Len(s) \in 1 .. Len(s)
    BY <1>1
  <2> QED
    BY <1>1, <1>6, <2>1
<1>12. Linked(g, t)
  BY <1>3, <1>6, <1>10, <1>11 DEF Linked
<1> QED
  BY <1>6, <1>12

(* A list that is not empty, with i linked behind it. *)
LEMMA LinkedBack ==
  ASSUME NEW h, NEW s, Linked(h, s), s # <<>>, NEW i \in Idx, i \notin ToSet(s), Alone(h, i),
         NEW g, g.first = h.first, g.last = i, Relinked(g, h, i, h.last, h.last, i)
  PROVE  \E t : Linked(g, t) /\ ToSet(t) = ToSet(s) \cup {i}
<1>0. \A b \in Idx : /\ g.meta[b].prev = IF b = i THEN h.last ELSE h.meta[b].prev
                     /\ g.meta[b].next = IF b = h.last THEN i ELSE h.meta[b].next
  BY DEF Relinked
<1>1. s \in Seq(Idx) /\ Len(s) \in Nat /\ Len(s) > 0 /\ IsInjective(s)
  BY DEF Linked
<1>2. \A k \in 1 .. Len(s) : s[k] \in Idx /\ s[k] # i
  BY LinkedIndexes
<1>3. h.first = s[1] /\ h.last = s[Len(s)]
  BY DEF Linked
<1>4. \A k \in 1 .. Len(s) : s[k] = h.last <=> k = Len(s)
  <2>1. Len(s) \in 1 .. Len(s)
    BY <1>1
  <2> QED
    BY <1>3, <2>1, LinkedIndexes
<1>5. PICK t : t = Append(s, i)
  OBVIOUS
<1>6. /\ t \in Seq(Idx) /\ Len(t) = Len(s) + 1 /\ IsInjective(t) /\ ToSet(t) = ToSet(s) \cup {i}
  BY <1>1, <1>5, AppendOnce
<1>7. t[Len(s) + 1] = i /\ \A k \in 1 .. Len(s) : t[k] = s[k]
  BY <1>1, <1>5
<1>8. \A k \in 1 .. Len(s) :
        /\ h.meta[s[k]].prev = IF k = 1 THEN Invalid ELSE s[k - 1]
        /\ h.meta[s[k]].next = IF k = Len(s) THEN Invalid ELSE s[k + 1]
  BY DEF Linked
<1>9. ASSUME NEW k \in 1 .. Len(t)
      PROVE  /\ g.meta[t[k]].prev = IF k = 1 THEN Invalid ELSE t[k - 1]
             /\ g.meta[t[k]].next = IF k = Len(t) THEN Invalid ELSE t[k + 1]
  <2>1. CASE k = Len(s) + 1
    <3>1. i # h.last /\ k # 1 /\ t[k - 1] = s[Len(s)]
      BY <1>1, <1>2, <1>3, <1>7, <2>1
    <3>2. g.meta[i].prev = h.last /\ g.meta[i].next = Invalid
      BY <1>0, <3>1 DEF Alone
    <3> QED
      BY <1>3, <1>6, <1>7, <2>1, <3>1, <3>2
  <2>2. CASE k \in 1 .. Len(s)
    <3>1. t[k] = s[k] /\ s[k] \in Idx /\ s[k] # i /\ k # Len(t)
      BY <1>1, <1>2, <1>6, <1>7, <2>2
    <3>2. g.meta[s[k]].prev = IF k = 1 THEN Invalid ELSE s[k - 1]
      BY <1>0, <1>8, <2>2, <3>1
    <3>3. k # 1 => t[k - 1] = s[k - 1]
      BY <1>1, <1>7, <2>2
    <3>4. g.meta[s[k]].next = t[k + 1]
      <4>1. CASE k = Len(s)
        BY <1>0, <1>4, <1>7, <2>2, <3>1, <4>1
      <4>2. CASE k # Len(s)
        <5>1. k + 1 \in 1 .. Len(s)
          BY <1>1, <2>2, <4>2
        <5> QED
          BY <1>0, <1>4, <1>7, <1>8, <2>2, <3>1, <4>2, <5>1
      <4> QED
        BY <4>1, <4>2
    <3> QED
      BY <3>1, <3>2, <3>3, <3>4
  <2> QED
    BY <1>1, <1>6, <2>1, <2>2
<1>10. t # <<>> /\ t[1] = s[1] /\ t[Len(t)] = i
  BY <1>1, <1>6, <1>7
<1>11. Linked(g, t)
  BY <1>3, <1>6, <1>9, <1>10 DEF Linked
<1> QED
  BY <1>6, <1>11

(* The free list has the runs F. *)
ListOf(h, F) == \E t : Linked(h, t) /\ ToSet(t) = F

(* The run at i is in the list with F, nothing else has changed. *)
Pushed(g, h, F, i) ==
  /\ g \in Heaps /\ SameRuns(g, h)
  /\ \A b \in Idx \ (F \cup {i}) : g.meta[b] = h.meta[b]
  /\ ListOf(g, F \cup {i})

(* push_free_node() links a run at one end of the list. *)
LEMMA PushLinked ==
  ASSUME NEW h \in Heaps, NEW s, Linked(h, s), NEW i \in Idx, i \notin ToSet(s), Alone(h, i)
  PROVE  Pushed(PushFreeNode(h, i), h, ToSet(s), i)
<1>0. i \in 0 .. Blocks /\ Invalid \notin Idx
  BY Numbers
<1>1. CASE s = <<>>
  <2>1. h.first = Invalid
    BY <1>1 DEF Linked
  <2> DEFINE g == [h EXCEPT !.first = i, !.last = i]
  <2>2. PushFreeNode(h, i) = g
    BY <2>1 DEF PushFreeNode
  <2>3. g \in Heaps /\ g.meta = h.meta /\ g.first = i /\ g.last = i
    BY <1>0 DEF Heaps
  <2> HIDE DEF g
  <2>4. Linked(g, <<i>>)
    <3>1. <<i>> \in Seq(Idx) /\ Len(<<i>>) = 1 /\ <<i>>[1] = i /\ <<i>> # <<>> /\ IsInjective(<<i>>)
      BY DEF IsInjective
    <3>2. \A k \in 1 .. Len(<<i>>) : k = 1
      BY <3>1
    <3> QED
      BY <2>3, <3>1, <3>2 DEF Linked, Alone
  <2>5. ToSet(<<i>>) = ToSet(s) \cup {i}
    BY <1>1 DEF ToSet
  <2> QED
    BY <2>2, <2>3, <2>4, <2>5 DEF SameRuns, Pushed, ListOf
<1>2. CASE s # <<>>
  <2>1. h.first = s[1] /\ h.last = s[Len(s)] /\ Len(s) > 0
    BY <1>2 DEF Linked
  <2>2. h.first \in Idx /\ h.first \in ToSet(s) /\ h.last \in Idx /\ h.last \in ToSet(s)
    <3>1. 1 \in 1 .. Len(s) /\ Len(s) \in 1 .. Len(s)
      BY <2>1, LinkedIndexes
    <3> QED
      BY <2>1, <3>1, LinkedIndexes
  <2>3. h.first \in 0 .. Blocks /\ h.last \in 0 .. Blocks /\ h.first # Invalid
    BY <1>0, <2>2, Numbers
  <2>4. CASE h.meta[i].owned > Blocks \div 4
    <3> DEFINE k == [h EXCEPT !.meta[h.first].prev = i, !.meta[i].next = h.first]
               g == [k EXCEPT !.first = i]
    <3>1. Relinked(k, h, h.first, i, i, h.first) /\ k.first = h.first /\ k.last = h.last
      <4>1. Relinked(k, h, h.first, i, i, h.first)
        BY <1>0, <2>2, <2>3, Relink, Zenon
      <4>2. k.first = h.first
        BY DEF Heaps
      <4>3. k.last = h.last
        BY DEF Heaps
      <4> QED
        BY <4>1, <4>2, <4>3
    <3>2. PushFreeNode(h, i) = g
      BY <2>3, <2>4 DEF PushFreeNode
    <3> HIDE DEF k
    <3>3. g \in Heaps /\ g.meta = k.meta /\ g.first = i /\ g.last = h.last
      BY <1>0, <3>1 DEF Heaps, Relinked
    <3> HIDE DEF g
    <3>4. Relinked(g, h, h.first, i, i, h.first)
      BY <3>1, <3>3 DEF Relinked, SameRuns
    <3>5. \E t : Linked(g, t) /\ ToSet(t) = ToSet(s) \cup {i}
      BY <1>2, <3>3, <3>4, LinkedFront
    <3>6. Pushed(g, h, ToSet(s), i)
      BY <2>2, <3>4, <3>5 DEF Pushed, ListOf, Relinked
    <3> QED
      BY <3>2, <3>6
  <2>5. CASE ~(h.meta[i].owned > Blocks \div 4)
    <3> DEFINE k == [h EXCEPT !.meta[h.last].next = i, !.meta[i].prev = h.last]
               g == [k EXCEPT !.last = i]
    <3>1. Relinked(k, h, i, h.last, h.last, i) /\ k.first = h.first /\ k.last = h.last
      <4>1. Relinked(k, h, i, h.last, h.last, i)
        BY <1>0, <2>2, <2>3, Relink, Zenon
      <4>2. k.first = h.first
        BY DEF Heaps
      <4>3. k.last = h.last
        BY DEF Heaps
      <4> QED
        BY <4>1, <4>2, <4>3
    <3>2. PushFreeNode(h, i) = g
      BY <2>3, <2>5 DEF PushFreeNode
    <3> HIDE DEF k
    <3>3. g \in Heaps /\ g.meta = k.meta /\ g.first = h.first /\ g.last = i
      BY <1>0, <3>1 DEF Heaps, Relinked
    <3> HIDE DEF g
    <3>4. Relinked(g, h, i, h.last, h.last, i)
      BY <3>1, <3>3 DEF Relinked, SameRuns
    <3>5. \E t : Linked(g, t) /\ ToSet(t) = ToSet(s) \cup {i}
      BY <1>2, <3>3, <3>4, LinkedBack
    <3>6. Pushed(g, h, ToSet(s), i)
      BY <2>2, <3>4, <3>5 DEF Pushed, ListOf, Relinked
    <3> QED
      BY <3>2, <3>6
  <2> QED
    BY <2>4, <2>5
<1> QED
  BY <1>1, <1>2

(* The neighbours of block i, or the ends of the list, pass over it. *)
Detached(g, h, i) ==
  /\ g \in Heaps /\ SameRuns(g, h) /\ Alone(g, i)
  /\ g.first = IF h.first = i THEN h.meta[i].next ELSE h.first
  /\ g.last = IF h.last = i THEN h.meta[i].prev ELSE h.last
  /\ \A b \in Idx \ {i} :
       /\ g.meta[b].prev = IF b = h.meta[i].next THEN h.meta[i].prev ELSE h.meta[b].prev
       /\ g.meta[b].next = IF b = h.meta[i].prev THEN h.meta[i].next ELSE h.meta[b].next
       /\ b # h.meta[i].next /\ b # h.meta[i].prev => g.meta[b] = h.meta[b]

(* unlink_free_node() on any block. *)
LEMMA UnlinkFields ==
  ASSUME NEW h \in Heaps, NEW i \in Idx
  PROVE  Detached(UnlinkFreeNode(h, i), h, i)
<1> DEFINE pv == h.meta[i].prev
           nx == h.meta[i].next
           k1 == IF nx # Invalid THEN [h EXCEPT !.meta[nx].prev = pv] ELSE h
           k2 == IF pv # Invalid THEN [k1 EXCEPT !.meta[pv].next = nx] ELSE k1
           k3 == [k2 EXCEPT !.first = IF k2.first = i THEN nx ELSE k2.first,
                            !.last = IF k2.last = i THEN pv ELSE k2.last]
           g == [k3 EXCEPT !.meta[i].prev = Invalid, !.meta[i].next = Invalid]
<1>0. UnlinkFreeNode(h, i) = g
  BY DEF UnlinkFreeNode
<1>1. /\ pv \in 0 .. Blocks /\ nx \in 0 .. Blocks /\ Invalid \in 0 .. Blocks
      /\ (pv # Invalid => pv \in Idx) /\ (nx # Invalid => nx \in Idx) /\ Invalid \notin Idx
  <2>1. h.meta[i] \in Metadata
    BY DEF Heaps
  <2>2. pv \in 0 .. Blocks /\ nx \in 0 .. Blocks
    BY <2>1 DEF Metadata
  <2> HIDE DEF pv, nx
  <2> QED
    BY <2>2, Numbers
<1> HIDE DEF pv, nx
<1>2. /\ k1 \in Heaps /\ k1.first = h.first /\ k1.last = h.last
      /\ \A b \in Idx \ {nx} : k1.meta[b] = h.meta[b]
      /\ nx \in Idx => k1.meta[nx].prev = pv /\ Same(k1.meta[nx], h.meta[nx], "prev")
  <2>1. CASE nx # Invalid
    <3> DEFINE k == [h EXCEPT !.meta[nx].prev = pv]
    <3>1. Edited(k, h, nx, "prev") /\ k.meta[nx].prev = pv
      BY <1>1, <2>1, EditPrev, Zenon
    <3>2. k1 = k
      BY <2>1
    <3> HIDE DEF k, k1
    <3> QED
      BY <3>1, <3>2 DEF Edited
  <2>2. CASE nx = Invalid
    BY <1>1, <2>2
  <2> QED
    BY <2>1, <2>2
<1> HIDE DEF k1
<1>3. /\ k2 \in Heaps /\ k2.first = k1.first /\ k2.last = k1.last
      /\ \A b \in Idx \ {pv} : k2.meta[b] = k1.meta[b]
      /\ pv \in Idx => k2.meta[pv].next = nx /\ Same(k2.meta[pv], k1.meta[pv], "next")
  <2>0. k1 \in Heaps
    BY <1>2
  <2>1. CASE pv # Invalid
    <3> DEFINE k == [k1 EXCEPT !.meta[pv].next = nx]
    <3>1. Edited(k, k1, pv, "next") /\ k.meta[pv].next = nx
      BY <1>1, <2>0, <2>1, EditNext, Zenon
    <3>2. k2 = k
      BY <2>1
    <3> HIDE DEF k, k2
    <3> QED
      BY <3>1, <3>2 DEF Edited
  <2>2. CASE pv = Invalid
    BY <1>1, <2>0, <2>2
  <2> QED
    BY <2>1, <2>2
<1> HIDE DEF k2
<1>4. /\ k3 \in Heaps /\ k3.meta = k2.meta
      /\ k3.first = IF k2.first = i THEN nx ELSE k2.first
      /\ k3.last = IF k2.last = i THEN pv ELSE k2.last
  <2>1. k2 \in Heaps
    BY <1>3
  <2> QED
    BY <1>1, <2>1 DEF Heaps
<1> HIDE DEF k3
<1>5. Relinked(g, k3, i, Invalid, i, Invalid)
  BY <1>1, <1>4, Relink, Zenon
<1>6. g.first = k3.first /\ g.last = k3.last
  BY <1>4 DEF Heaps
<1> HIDE DEF g
<1>7. \A b \in Idx \ {i} :
        /\ g.meta[b].prev = IF b = nx THEN pv ELSE h.meta[b].prev
        /\ g.meta[b].next = IF b = pv THEN nx ELSE h.meta[b].next
        /\ b # nx /\ b # pv => g.meta[b] = h.meta[b]
  <2> SUFFICES ASSUME NEW b \in Idx \ {i}
               PROVE  /\ g.meta[b].prev = IF b = nx THEN pv ELSE h.meta[b].prev
                      /\ g.meta[b].next = IF b = pv THEN nx ELSE h.meta[b].next
                      /\ b # nx /\ b # pv => g.meta[b] = h.meta[b]
    OBVIOUS
  <2>1. g.meta[b] = k2.meta[b]
    BY <1>4, <1>5 DEF Relinked
  <2>2. k2.meta[b].prev = k1.meta[b].prev
    BY <1>3 DEF Same
  <2>3. k1.meta[b].next = h.meta[b].next
    BY <1>2 DEF Same
  <2> QED
    BY <1>2, <1>3, <2>1, <2>2, <2>3
<1>8. SameRuns(k1, h)
  BY <1>2 DEF Same, SameRuns
<1>9. SameRuns(k2, k1)
  BY <1>3 DEF Same, SameRuns
<1>10. SameRuns(g, k2)
  BY <1>4, <1>5 DEF Relinked, SameRuns
<1>11. g \in Heaps /\ SameRuns(g, h) /\ Alone(g, i)
  BY <1>5, <1>8, <1>9, <1>10 DEF Relinked, SameRuns, Alone
<1>12. /\ g.first = IF h.first = i THEN nx ELSE h.first
       /\ g.last = IF h.last = i THEN pv ELSE h.last
  BY <1>2, <1>3, <1>4, <1>6
<1>13. Detached(g, h, i)
  BY <1>7, <1>11, <1>12 DEF Detached, nx, pv
<1> QED
  BY <1>0, <1>13

(* The run at i is not in the list with F, nothing else has changed. *)
Unlinked(g, h, F, i) ==
  /\ g \in Heaps /\ SameRuns(g, h) /\ Alone(g, i)
  /\ \A b \in Idx \ (F \cup {i}) : g.meta[b] = h.meta[b]
  /\ ListOf(g, F \ {i})

(* unlink_free_node() on a run in the list, *)
LEMMA UnlinkMember ==
  ASSUME NEW h \in Heaps, NEW s, Linked(h, s), NEW i \in ToSet(s)
  PROVE  Unlinked(UnlinkFreeNode(h, i), h, ToSet(s), i)
<1>1. s \in Seq(Idx) /\ Len(s) \in Nat /\ IsInjective(s)
  BY DEF Linked
<1>2. \A a, c \in 1 .. Len(s) : s[a] = s[c] => a = c
  BY LinkedIndexes
<1>3. \A k \in 1 .. Len(s) : s[k] \in Idx /\ s[k] \in ToSet(s) /\ s[k] # Invalid
  BY LinkedIndexes, Numbers
<1>4. PICK k \in 1 .. Len(s) : i = s[k]
  BY LinkedIndexes
<1>5. i \in Idx
  BY <1>3, <1>4
<1>6. \A l \in 1 .. Len(s) :
        /\ h.meta[s[l]].prev = IF l = 1 THEN Invalid ELSE s[l - 1]
        /\ h.meta[s[l]].next = IF l = Len(s) THEN Invalid ELSE s[l + 1]
  BY DEF Linked
<1> DEFINE g == UnlinkFreeNode(h, i)
           t == RemoveAt(s, k)
           pv == h.meta[i].prev
           nx == h.meta[i].next
<1>7. Detached(g, h, i)
  BY <1>5, UnlinkFields
<1>8. /\ t \in Seq(Idx) /\ Len(t) = Len(s) - 1
      /\ \A l \in 1 .. Len(s) - 1 : t[l] = IF l < k THEN s[l] ELSE s[l + 1]
  BY <1>1, RemoveAtOnce
<1>9. IsInjective(t) /\ ToSet(t) = ToSet(s) \ {i}
  BY <1>1, <1>4, RemoveAtOnce
<1> HIDE DEF g, t
<1>10. /\ pv = IF k = 1 THEN Invalid ELSE s[k - 1]
       /\ nx = IF k = Len(s) THEN Invalid ELSE s[k + 1]
  BY <1>4, <1>6
<1> HIDE DEF pv, nx
<1>11. \A b \in Idx \ {i} : /\ g.meta[b].prev = IF b = nx THEN pv ELSE h.meta[b].prev
                            /\ g.meta[b].next = IF b = pv THEN nx ELSE h.meta[b].next
  BY <1>7 DEF Detached, pv, nx
<1>12. ASSUME NEW l \in 1 .. Len(s), l # k
       PROVE  /\ s[l] \in Idx \ {i}
              /\ (s[l] = nx <=> l = k + 1) /\ (s[l] = pv <=> l = k - 1)
  <2>1. s[l] \in Idx \ {i} /\ s[l] # Invalid
    BY <1>2, <1>3, <1>4, <1>12
  <2>2. s[l] = nx <=> l = k + 1
    <3>1. CASE k = Len(s)
      BY <1>1, <1>10, <2>1, <3>1
    <3>2. CASE k # Len(s)
      <4>1. k + 1 \in 1 .. Len(s)
        BY <1>1, <3>2
      <4> QED
        BY <1>2, <1>10, <3>2, <4>1
    <3> QED
      BY <3>1, <3>2
  <2>3. s[l] = pv <=> l = k - 1
    <3>1. CASE k = 1
      BY <1>1, <1>10, <2>1, <3>1
    <3>2. CASE k # 1
      <4>1. k - 1 \in 1 .. Len(s)
        BY <1>1, <3>2
      <4> QED
        BY <1>2, <1>10, <3>2, <4>1
    <3> QED
      BY <3>1, <3>2
  <2> QED
    BY <2>1, <2>2, <2>3
<1>13. ASSUME NEW l \in 1 .. Len(t)
       PROVE  /\ g.meta[t[l]].prev = IF l = 1 THEN Invalid ELSE t[l - 1]
              /\ g.meta[t[l]].next = IF l = Len(t) THEN Invalid ELSE t[l + 1]
  <2>1. l \in 1 .. Len(s) - 1 /\ l \in Nat /\ k \in Nat /\ k <= Len(s)
    BY <1>1, <1>8
  <2>2. CASE l < k
    <3>1. t[l] = s[l] /\ l \in 1 .. Len(s) /\ l # k
      BY <1>1, <1>8, <2>1, <2>2
    <3>2. s[l] \in Idx \ {i} /\ s[l] # nx /\ (s[l] = pv <=> l = k - 1)
      BY <1>12, <2>1, <2>2, <3>1
    <3>3. g.meta[s[l]].prev = IF l = 1 THEN Invalid ELSE s[l - 1]
      BY <1>6, <1>11, <3>1, <3>2
    <3>4. l # 1 => t[l - 1] = s[l - 1]
      <4>1. l # 1 => l - 1 \in 1 .. Len(s) - 1 /\ l - 1 < k
        BY <1>1, <2>1, <2>2
      <4> QED
        BY <1>8, <4>1
    <3>5. CASE l = k - 1
      <4>1. g.meta[s[l]].next = nx
        BY <1>11, <3>2, <3>5
      <4>2. CASE k = Len(s)
        BY <1>8, <1>10, <3>1, <3>3, <3>4, <3>5, <4>1, <4>2
      <4>3. CASE k # Len(s)
        <5>1. k \in 1 .. Len(s) - 1 /\ ~(k < k) /\ l + 1 = k /\ l # Len(t)
          BY <1>1, <1>8, <2>1, <3>5, <4>3
        <5>2. t[l + 1] = s[k + 1]
          BY <1>8, <5>1
        <5> QED
          BY <1>10, <3>1, <3>3, <3>4, <4>1, <4>3, <5>1, <5>2
      <4> QED
        BY <4>2, <4>3
    <3>6. CASE l # k - 1
      <4>1. l + 1 \in 1 .. Len(s) - 1 /\ l + 1 < k /\ l # Len(t) /\ l # Len(s)
        BY <1>1, <1>8, <2>1, <2>2, <3>6
      <4>2. t[l + 1] = s[l + 1]
        BY <1>8, <4>1
      <4>3. g.meta[s[l]].next = s[l + 1]
        BY <1>6, <1>11, <3>1, <3>2, <3>6, <4>1
      <4> QED
        BY <3>1, <3>3, <3>4, <4>1, <4>2, <4>3
    <3> QED
      BY <3>5, <3>6
  <2>3. CASE ~(l < k)
    <3>1. t[l] = s[l + 1] /\ l + 1 \in 1 .. Len(s) /\ l + 1 # k /\ l + 1 # k - 1
      BY <1>1, <1>8, <2>1, <2>3
    <3>2. s[l + 1] \in Idx \ {i} /\ s[l + 1] # pv /\ (s[l + 1] = nx <=> l + 1 = k + 1)
      BY <1>12, <3>1
    <3>3. g.meta[s[l + 1]].next = IF l + 1 = Len(s) THEN Invalid ELSE s[(l + 1) + 1]
      BY <1>6, <1>11, <3>1, <3>2
    <3>4. l # Len(t) => t[l + 1] = s[(l + 1) + 1]
      <4>1. l # Len(t) => l + 1 \in 1 .. Len(s) - 1 /\ ~(l + 1 < k)
        BY <1>1, <1>8, <2>1, <2>3
      <4> QED
        BY <1>8, <4>1
    <3>5. l = Len(t) <=> l + 1 = Len(s)
      BY <1>1, <1>8, <2>1
    <3>6. CASE l = k
      <4>1. g.meta[s[l + 1]].prev = pv
        BY <1>11, <2>1, <3>2, <3>6
      <4>2. pv = IF l = 1 THEN Invalid ELSE t[l - 1]
        <5>1. CASE k = 1
          BY <1>10, <3>6, <5>1
        <5>2. CASE k # 1
          <6>1. l - 1 \in 1 .. Len(s) - 1 /\ l - 1 < k
            BY <1>1, <2>1, <3>6, <5>2
          <6> QED
            BY <1>8, <1>10, <3>6, <5>2, <6>1
        <5> QED
          BY <5>1, <5>2
      <4> QED
        BY <3>1, <3>3, <3>4, <3>5, <4>1, <4>2
    <3>7. CASE l # k
      <4>1. /\ l # 1 /\ l - 1 \in 1 .. Len(s) - 1 /\ ~(l - 1 < k) /\ (l - 1) + 1 = l
            /\ (l + 1) - 1 = l /\ l + 1 # 1 /\ l + 1 # k + 1
        BY <1>1, <2>1, <2>3, <3>7
      <4>2. t[l - 1] = s[l]
        BY <1>8, <4>1
      <4>3. g.meta[s[l + 1]].prev = s[l]
        BY <1>6, <1>11, <3>1, <3>2, <4>1
      <4> QED
        BY <3>1, <3>3, <3>4, <3>5, <4>1, <4>2, <4>3
    <3> QED
      BY <3>6, <3>7
  <2> QED
    BY <2>2, <2>3
<1>14. h.first = s[1] /\ h.last = s[Len(s)]
  BY <1>1, <1>4 DEF Linked
<1>15. g.first = IF t = <<>> THEN Invalid ELSE t[1]
  <2>1. g.first = IF s[1] = i THEN nx ELSE s[1]
    BY <1>7, <1>14 DEF Detached, nx
  <2>2. 1 \in 1 .. Len(s) /\ (s[1] = i <=> k = 1)
    BY <1>1, <1>2, <1>4
  <2>3. CASE Len(s) = 1
    BY <1>1, <1>8, <1>10, <2>1, <2>2, <2>3
  <2>4. CASE Len(s) # 1
    <3>1. 1 \in 1 .. Len(s) - 1 /\ t # <<>>
      BY <1>1, <1>4, <1>8, <2>4
    <3>2. t[1] = IF 1 < k THEN s[1] ELSE s[1 + 1]
      BY <1>8, <3>1
    <3> QED
      BY <1>10, <2>1, <2>2, <2>4, <3>1, <3>2
  <2> QED
    BY <2>3, <2>4
<1>16. g.last = IF t = <<>> THEN Invalid ELSE t[Len(t)]
  <2>1. g.last = IF s[Len(s)] = i THEN pv ELSE s[Len(s)]
    BY <1>7, <1>14 DEF Detached, pv
  <2>2. Len(s) \in 1 .. Len(s) /\ (s[Len(s)] = i <=> k = Len(s))
    BY <1>1, <1>2, <1>4
  <2>3. CASE Len(s) = 1
    BY <1>1, <1>8, <1>10, <2>1, <2>2, <2>3
  <2>4. CASE Len(s) # 1
    <3>1. Len(s) - 1 \in 1 .. Len(s) - 1 /\ t # <<>> /\ (Len(s) - 1) + 1 = Len(s)
      BY <1>1, <1>4, <1>8, <2>4
    <3>2. t[Len(t)] = IF Len(s) - 1 < k THEN s[Len(s) - 1] ELSE s[Len(s)]
      BY <1>8, <3>1
    <3>3. Len(s) - 1 < k <=> k = Len(s)
      BY <1>1
    <3> QED
      BY <1>10, <2>1, <2>2, <2>4, <3>1, <3>2, <3>3
  <2> QED
    BY <2>3, <2>4
<1>17. Linked(g, t)
  BY <1>8, <1>9, <1>13, <1>15, <1>16 DEF Linked
<1>18. \A b \in Idx \ (ToSet(s) \cup {i}) : g.meta[b] = h.meta[b]
  <2>1. (nx \in ToSet(s) \/ nx = Invalid) /\ (pv \in ToSet(s) \/ pv = Invalid)
    <3>1. k # Len(s) => k + 1 \in 1 .. Len(s)
      BY <1>1
    <3>2. k # 1 => k - 1 \in 1 .. Len(s)
      BY <1>1
    <3> QED
      BY <1>3, <1>10, <3>1, <3>2
  <2>2. Invalid \notin Idx
    BY Numbers
  <2> QED
    BY <1>7, <2>1, <2>2 DEF Detached, nx, pv
<1>19. Unlinked(g, h, ToSet(s), i)
  BY <1>7, <1>9, <1>17, <1>18 DEF Detached, Unlinked, ListOf
<1> QED
  BY <1>19 DEF g

(* and on one that is in none. *)
LEMMA UnlinkStranger ==
  ASSUME NEW h \in Heaps, NEW s, Linked(h, s), NEW i \in Idx, i \notin ToSet(s), Alone(h, i)
  PROVE  Unlinked(UnlinkFreeNode(h, i), h, ToSet(s), i)
<1> DEFINE g == UnlinkFreeNode(h, i)
<1>1. Detached(g, h, i)
  BY UnlinkFields
<1> HIDE DEF g
<1>2. \A k \in 1 .. Len(s) : s[k] \in Idx /\ s[k] # i
  BY LinkedIndexes
<1>3. s # <<>> => 1 \in 1 .. Len(s) /\ Len(s) \in 1 .. Len(s)
  BY LinkedIndexes
<1>4. h.first # i /\ h.last # i
  <2>1. Invalid # i
    BY Numbers
  <2> QED
    BY <1>2, <1>3, <2>1 DEF Linked
<1>5. \A b \in Idx \ {i} : g.meta[b] = h.meta[b]
  <2>1. Invalid \notin Idx
    BY Numbers
  <2> QED
    BY <1>1, <2>1 DEF Detached, Alone
<1>6. g.first = h.first /\ g.last = h.last
  BY <1>1, <1>4 DEF Detached
<1>7. Linked(g, s)
  BY <1>2, <1>5, <1>6 DEF Linked
<1>8. ToSet(s) = ToSet(s) \ {i}
  OBVIOUS
<1>9. Unlinked(g, h, ToSet(s), i)
  BY <1>1, <1>5, <1>7, <1>8 DEF Detached, Unlinked, ListOf
<1> QED
  BY <1>9 DEF g

-----------------------------------------------------------------------------
(* The runs.                                                                *)

(* The fields that Tiled reads are numbers. *)
LEMMA MetaTypes ==
  ASSUME NEW m \in [Idx -> Metadata], NEW b \in Idx
  PROVE  /\ m[b].owned \in Nat /\ m[b].owned <= Blocks /\ m[b].owned \in 0 .. Blocks
         /\ m[b].before \in Nat /\ m[b].before <= Blocks
         /\ m[b].isUsed \in BOOLEAN /\ b \in Nat /\ b < Blocks
<1>1. m[b] \in Metadata
  OBVIOUS
<1>2. m[b].owned \in 0 .. Blocks /\ m[b].before \in 0 .. Blocks /\ m[b].isUsed \in BOOLEAN
  BY <1>1 DEF Metadata
<1> QED
  BY <1>2, Numbers

(* The runs do not depend on links and marks. *)
LEMMA TiledKept ==
  ASSUME NEW m, NEW m2, NEW S, Tiled(m, S),
         \A b \in S : m2[b].owned = m[b].owned /\ m2[b].before = m[b].before
  PROVE  Tiled(m2, S)
<1>1. S \subseteq Idx /\ 0 \in S /\ m[0].before = 0
  BY DEF Tiled
<1>2. ASSUME NEW b \in S
      PROVE  /\ m2[b].owned > 0 /\ b + m2[b].owned <= Blocks
             /\ \A x \in S : x <= b \/ b + m2[b].owned <= x
             /\ b + m2[b].owned # Blocks =>
                  b + m2[b].owned \in S /\ m2[b + m2[b].owned].before = m2[b].owned
  <2>1. m2[b].owned = m[b].owned
    BY <1>1
  <2>2. /\ m[b].owned > 0 /\ b + m[b].owned <= Blocks
        /\ \A x \in S : x <= b \/ b + m[b].owned <= x
        /\ b + m[b].owned # Blocks =>
             b + m[b].owned \in S /\ m[b + m[b].owned].before = m[b].owned
    BY DEF Tiled
  <2> QED
    BY <1>1, <2>1, <2>2
<1>3. ASSUME NEW b \in S \ {0}
      PROVE  /\ m2[b].before > 0 /\ b - m2[b].before \in S
             /\ m2[b - m2[b].before].owned = m2[b].before
  <2>1. m2[b].before = m[b].before
    BY <1>1
  <2>2. /\ m[b].before > 0 /\ b - m[b].before \in S
        /\ m[b - m[b].before].owned = m[b].before
    BY DEF Tiled
  <2> QED
    BY <1>1, <2>1, <2>2
<1> QED
  BY <1>1, <1>2, <1>3 DEF Tiled

(* m2 has the run at i of m in two parts, the first of n blocks. *)
SplitAt(m2, m, S, i, n) ==
  /\ m2[i].owned = n /\ m2[i].before = m[i].before
  /\ m2[i + n].owned = m[i].owned - n /\ m2[i + n].before = n
  /\ \A b \in S \ {i} :
       /\ m2[b].owned = m[b].owned
       /\ m2[b].before = IF b = i + m[i].owned THEN m[i].owned - n ELSE m[b].before

(* Splitting a run leaves the buffer tiled. *)
LEMMA SplitTiled ==
  ASSUME NEW m \in [Idx -> Metadata], NEW m2 \in [Idx -> Metadata], NEW S, Tiled(m, S),
         NEW i \in S, NEW n \in Nat, n > 0, n < m[i].owned, SplitAt(m2, m, S, i, n)
  PROVE  Tiled(m2, S \cup {i + n}) /\ i + n \in Idx /\ i + n \notin S
<1>1. S \subseteq Idx /\ 0 \in S /\ i \in Idx
  BY DEF Tiled
<1>2. \A b \in Idx : b \in Nat /\ b < Blocks /\ m[b].owned \in Nat /\ m[b].before \in Nat
  BY MetaTypes
<1>3. \A b \in S : /\ m[b].owned > 0 /\ b + m[b].owned <= Blocks
                   /\ \A x \in S : x <= b \/ b + m[b].owned <= x
                   /\ b + m[b].owned # Blocks =>
                        b + m[b].owned \in S /\ m[b + m[b].owned].before = m[b].owned
  BY DEF Tiled
<1>4. \A b \in S \ {0} : /\ m[b].before > 0 /\ b - m[b].before \in S
                         /\ m[b - m[b].before].owned = m[b].before
  BY DEF Tiled
<1>5. /\ m2[i].owned = n /\ m2[i].before = m[i].before
      /\ m2[i + n].owned = m[i].owned - n /\ m2[i + n].before = n
  BY DEF SplitAt
<1>6. \A b \in S \ {i} : /\ m2[b].owned = m[b].owned
                         /\ m2[b].before = IF b = i + m[i].owned THEN m[i].owned - n ELSE m[b].before
  BY DEF SplitAt
<1> DEFINE e == i + m[i].owned
           c == i + n
<1>7. /\ i \in Nat /\ i < Blocks /\ m[i].owned \in Nat /\ e \in Nat /\ e <= Blocks /\ c \in Nat
      /\ i < c /\ c < e /\ Blocks \in Nat
  BY <1>1, <1>2, <1>3, Numbers
<1>8. c \in Idx /\ c \notin S /\ c # i /\ c # 0 /\ e # i
  <2>1. \A x \in S : x <= i \/ e <= x
    BY <1>3
  <2> QED
    BY <1>7, <2>1, Numbers
<1> HIDE DEF e, c
<1>9. \A b \in S \ {i} : b + m[b].owned <= i \/ e <= b
  <2> SUFFICES ASSUME NEW b \in S \ {i} PROVE b + m[b].owned <= i \/ e <= b
    OBVIOUS
  <2>1. b <= i \/ e <= b
    BY <1>3 DEF e
  <2>2. i <= b \/ b + m[b].owned <= i
    BY <1>3
  <2> QED
    BY <1>1, <1>2, <1>7, <2>1, <2>2
<1>10. 0 \in S \cup {c} /\ m2[0].before = 0
  <2>1. m[0].before = 0
    BY DEF Tiled
  <2>2. CASE i = 0
    BY <1>1, <1>5, <2>1, <2>2
  <2>3. CASE i # 0
    <3>1. 0 # e
      BY <1>7
    <3> QED
      BY <1>1, <1>6, <2>1, <2>3, <3>1 DEF e
  <2> QED
    BY <1>1, <2>2, <2>3
<1>11. ASSUME NEW b \in S \cup {c}
       PROVE  /\ m2[b].owned > 0 /\ b + m2[b].owned <= Blocks
              /\ \A x \in S \cup {c} : x <= b \/ b + m2[b].owned <= x
              /\ b + m2[b].owned # Blocks =>
                   b + m2[b].owned \in S \cup {c} /\ m2[b + m2[b].owned].before = m2[b].owned
  <2>1. CASE b = i
    <3>1. m2[b].owned = n /\ b + m2[b].owned = c
      BY <1>5, <2>1 DEF c
    <3>2. \A x \in S : x <= i \/ e <= x
      BY <1>3 DEF e
    <3>3. \A x \in S \cup {c} : x <= b \/ c <= x
      BY <1>1, <1>2, <1>7, <2>1, <3>2
    <3>4. m2[c].before = n
      BY <1>5 DEF c
    <3> QED
      BY <1>7, <3>1, <3>3, <3>4
  <2>2. CASE b = c
    <3>1. m2[b].owned = m[i].owned - n /\ b + m2[b].owned = e
      BY <1>5, <1>7, <2>2 DEF c, e
    <3>2. \A x \in S : x <= i \/ e <= x
      BY <1>3 DEF e
    <3>3. \A x \in S \cup {c} : x <= b \/ e <= x
      BY <1>1, <1>2, <1>7, <2>2, <3>2
    <3>4. e # Blocks => e \in S /\ m2[e].before = m[i].owned - n
      BY <1>3, <1>6, <1>8 DEF e
    <3>5. m[i].owned - n > 0
      BY <1>7
    <3> QED
      BY <1>7, <3>1, <3>3, <3>4, <3>5
  <2>3. CASE b \in S \ {i}
    <3>1. m2[b].owned = m[b].owned /\ b \in Nat /\ m[b].owned \in Nat
      BY <1>1, <1>2, <1>6, <2>3
    <3>2. /\ m[b].owned > 0 /\ b + m[b].owned <= Blocks
          /\ \A x \in S : x <= b \/ b + m[b].owned <= x
      BY <1>3, <2>3
    <3>3. c <= b \/ b + m[b].owned <= c
      BY <1>7, <1>9, <2>3, <3>1
    <3>4. ASSUME b + m[b].owned # Blocks
          PROVE  b + m[b].owned \in S /\ m2[b + m[b].owned].before = m[b].owned
      <4>1. b + m[b].owned \in S /\ m[b + m[b].owned].before = m[b].owned
        BY <1>3, <2>3, <3>4
      <4>2. CASE b + m[b].owned = i
        BY <1>5, <4>1, <4>2
      <4>3. CASE b + m[b].owned # i
        <5>1. b + m[b].owned # e
          <6>1. \A x \in S : x <= b \/ b + m[b].owned <= x
            BY <3>2
          <6>2. i <= b \/ b + m[b].owned <= i
            BY <6>1
          <6> QED
            BY <1>7, <1>9, <2>3, <3>1, <3>2, <6>2
        <5> QED
          BY <1>6, <4>1, <4>3, <5>1 DEF e
      <4> QED
        BY <4>2, <4>3
    <3> QED
      BY <3>1, <3>2, <3>3, <3>4
  <2> QED
    BY <2>1, <2>2, <2>3
<1>12. ASSUME NEW b \in (S \cup {c}) \ {0}
       PROVE  /\ m2[b].before > 0 /\ b - m2[b].before \in S \cup {c}
              /\ m2[b - m2[b].before].owned = m2[b].before
  <2>1. CASE b = c
    <3>1. m2[b].before = n /\ b - n = i
      BY <1>5, <1>7, <2>1 DEF c
    <3> QED
      BY <1>5, <3>1
  <2>2. CASE b = e /\ b # c
    <3>1. b \in S \ {i}
      BY <1>8, <2>2
    <3>2. m2[b].before = m[i].owned - n /\ b - m2[b].before = c
      BY <1>6, <1>7, <2>2, <3>1 DEF c, e
    <3>3. m2[c].owned = m[i].owned - n
      BY <1>5 DEF c
    <3> QED
      BY <1>7, <3>2, <3>3
  <2>3. CASE b \in S /\ b # e
    <3>1. /\ m[b].before > 0 /\ b - m[b].before \in S
          /\ m[b - m[b].before].owned = m[b].before
      BY <1>4, <2>3
    <3>2. m2[b].before = m[b].before
      BY <1>5, <1>6, <2>3 DEF e
    <3>3. b - m[b].before # i
      <4>1. b \in Nat /\ m[b].before \in Nat
        BY <1>1, <1>2, <2>3
      <4>2. b - m[b].before = i => b = i + m[i].owned
        BY <1>7, <3>1, <4>1
      <4> QED
        BY <2>3, <4>2 DEF e
    <3>4. m2[b - m[b].before].owned = m[b].before
      BY <1>6, <3>1, <3>3
    <3> QED
      BY <3>1, <3>2, <3>4
  <2> QED
    BY <2>1, <2>2, <2>3
<1>13. S \cup {c} \subseteq Idx
  BY <1>1, <1>8
<1>14. Tiled(m2, S \cup {c})
  BY <1>10, <1>11, <1>12, <1>13 DEF Tiled
<1> QED
  BY <1>8, <1>14 DEF c

(* m2 has the runs at i and behind it at k in one. *)
MergedAt(m2, m, S, i, k) ==
  /\ m2[i].owned = m[i].owned + m[k].owned /\ m2[i].before = m[i].before
  /\ \A b \in S \ {i, k} :
       /\ m2[b].owned = m[b].owned
       /\ m2[b].before = IF b = k + m[k].owned THEN m[i].owned + m[k].owned ELSE m[b].before

(* Merging two runs leaves the buffer tiled. *)
LEMMA MergeTiled ==
  ASSUME NEW m \in [Idx -> Metadata], NEW m2 \in [Idx -> Metadata], NEW S, Tiled(m, S),
         NEW i \in S, NEW k \in S, k = i + m[i].owned, MergedAt(m2, m, S, i, k)
  PROVE  Tiled(m2, S \ {k}) /\ k # 0 /\ k # i
<1>1. S \subseteq Idx /\ 0 \in S /\ i \in Idx /\ k \in Idx
  BY DEF Tiled
<1>2. \A b \in Idx : b \in Nat /\ b < Blocks /\ m[b].owned \in Nat /\ m[b].before \in Nat
  BY MetaTypes
<1>3. \A b \in S : /\ m[b].owned > 0 /\ b + m[b].owned <= Blocks
                   /\ \A x \in S : x <= b \/ b + m[b].owned <= x
                   /\ b + m[b].owned # Blocks =>
                        b + m[b].owned \in S /\ m[b + m[b].owned].before = m[b].owned
  BY DEF Tiled
<1>4. \A b \in S \ {0} : /\ m[b].before > 0 /\ b - m[b].before \in S
                         /\ m[b - m[b].before].owned = m[b].before
  BY DEF Tiled
<1> DEFINE n == m[i].owned + m[k].owned
           e == k + m[k].owned
<1>5. m2[i].owned = n /\ m2[i].before = m[i].before
  BY DEF MergedAt
<1>6. \A b \in S \ {i, k} : /\ m2[b].owned = m[b].owned
                            /\ m2[b].before = IF b = e THEN n ELSE m[b].before
  BY DEF MergedAt
<1>7. /\ i \in Nat /\ k \in Nat /\ m[i].owned \in Nat /\ m[k].owned \in Nat /\ n \in Nat /\ e \in Nat
      /\ e <= Blocks /\ i < k /\ k < e /\ Blocks \in Nat /\ i + n = e /\ n > 0
  BY <1>1, <1>2, <1>3, Numbers
<1> HIDE DEF e, n
<1>8. \A b \in S \ {i, k} : b + m[b].owned <= i \/ e <= b
  <2> SUFFICES ASSUME NEW b \in S \ {i, k} PROVE b + m[b].owned <= i \/ e <= b
    OBVIOUS
  <2>1. b <= i \/ k <= b
    BY <1>3
  <2>2. i <= b \/ b + m[b].owned <= i
    BY <1>3
  <2>3. b <= k \/ e <= b
    BY <1>3 DEF e
  <2>4. b \in Nat /\ m[b].owned \in Nat
    BY <1>1, <1>2
  <2> QED
    BY <1>7, <2>1, <2>2, <2>3, <2>4
<1>9. 0 \in S \ {k} /\ m2[0].before = 0
  <2>1. m[0].before = 0
    BY DEF Tiled
  <2>2. CASE i = 0
    BY <1>1, <1>5, <1>7, <2>1, <2>2
  <2>3. CASE i # 0
    <3>1. 0 # e /\ 0 # k
      BY <1>7
    <3> QED
      BY <1>1, <1>6, <2>1, <2>3, <3>1
  <2> QED
    BY <2>2, <2>3
<1>10. ASSUME NEW b \in S \ {k}
       PROVE  /\ m2[b].owned > 0 /\ b + m2[b].owned <= Blocks
              /\ \A x \in S \ {k} : x <= b \/ b + m2[b].owned <= x
              /\ b + m2[b].owned # Blocks =>
                   b + m2[b].owned \in S \ {k} /\ m2[b + m2[b].owned].before = m2[b].owned
  <2>1. CASE b = i
    <3>1. m2[b].owned = n /\ b + m2[b].owned = e
      BY <1>5, <1>7, <2>1
    <3>2. \A x \in S \ {k} : x <= b \/ e <= x
      <4> SUFFICES ASSUME NEW x \in S \ {i, k} PROVE x <= i \/ e <= x
        BY <1>7, <2>1
      <4>1. x \in Nat /\ m[x].owned \in Nat
        BY <1>1, <1>2
      <4> QED
        BY <1>7, <1>8, <4>1
    <3>3. e # Blocks => e \in S \ {i, k} /\ m2[e].before = n
      <4>1. e # Blocks => e \in S
        BY <1>3 DEF e
      <4> QED
        BY <1>6, <1>7, <4>1
    <3> QED
      BY <1>7, <3>1, <3>2, <3>3
  <2>2. CASE b # i
    <3>1. m2[b].owned = m[b].owned /\ b \in Nat /\ m[b].owned \in Nat
      BY <1>1, <1>2, <1>6, <2>2
    <3>2. /\ m[b].owned > 0 /\ b + m[b].owned <= Blocks
          /\ \A x \in S : x <= b \/ b + m[b].owned <= x
      BY <1>3
    <3>3. ASSUME b + m[b].owned # Blocks
          PROVE  b + m[b].owned \in S \ {k} /\ m2[b + m[b].owned].before = m[b].owned
      <4>1. b + m[b].owned \in S /\ m[b + m[b].owned].before = m[b].owned
        BY <1>3, <3>3
      <4>2. b + m[b].owned # k /\ b + m[b].owned # e
        BY <1>7, <1>8, <2>2, <3>1, <3>2
      <4>3. CASE b + m[b].owned = i
        BY <1>5, <4>1, <4>2, <4>3
      <4>4. CASE b + m[b].owned # i
        BY <1>6, <4>1, <4>2, <4>4
      <4> QED
        BY <4>3, <4>4
    <3> QED
      BY <3>1, <3>2, <3>3
  <2> QED
    BY <2>1, <2>2
<1>11. ASSUME NEW b \in (S \ {k}) \ {0}
       PROVE  /\ m2[b].before > 0 /\ b - m2[b].before \in S \ {k}
              /\ m2[b - m2[b].before].owned = m2[b].before
  <2>1. CASE b = e
    <3>1. b \in S \ {i, k}
      BY <1>7, <2>1
    <3>2. m2[b].before = n /\ b - n = i
      BY <1>6, <1>7, <2>1, <3>1
    <3> QED
      BY <1>5, <1>7, <3>2
  <2>2. CASE b # e
    <3>1. /\ m[b].before > 0 /\ b - m[b].before \in S
          /\ m[b - m[b].before].owned = m[b].before
      BY <1>4
    <3>2. m2[b].before = m[b].before
      BY <1>5, <1>6, <2>2
    <3>3. b - m[b].before # i /\ b - m[b].before # k
      <4>1. b \in Nat /\ m[b].before \in Nat
        BY <1>1, <1>2
      <4>2. b - m[b].before = i => b = i + m[i].owned
        BY <1>7, <3>1, <4>1
      <4>3. b - m[b].before = k => b = k + m[k].owned
        BY <1>7, <3>1, <4>1
      <4> QED
        BY <2>2, <4>2, <4>3 DEF e
    <3>4. m2[b - m[b].before].owned = m[b].before
      BY <1>6, <3>1, <3>3
    <3> QED
      BY <3>1, <3>2, <3>3, <3>4
  <2> QED
    BY <2>1, <2>2
<1>12. S \ {k} \subseteq Idx
  BY <1>1
<1>13. k # 0 /\ k # i
  BY <1>7
<1> QED
  BY <1>9, <1>10, <1>11, <1>12, <1>13 DEF Tiled

(* A place inside a run is not the head of another. *)
LEMMA Inside ==
  ASSUME NEW m \in [Idx -> Metadata], NEW S, Tiled(m, S),
         NEW i \in S, NEW n \in Nat, n > 0, n < m[i].owned
  PROVE  i + n \in Idx /\ i + n \notin S
<1>1. i \in Idx /\ S \subseteq Idx
  BY DEF Tiled
<1>2. i \in Nat /\ m[i].owned \in Nat /\ i + m[i].owned <= Blocks
  BY <1>1, MetaTypes DEF Tiled
<1>3. \A x \in S : x <= i \/ i + m[i].owned <= x
  BY DEF Tiled
<1> QED
  BY <1>2, <1>3, Numbers

(* push_free_node() puts a run that is in no list into the list, *)
LEMMA PushRun ==
  ASSUME NEW h \in Heaps, NEW F, ListOf(h, F), NEW i \in Idx, i \notin F, Alone(h, i)
  PROVE  Pushed(PushFreeNode(h, i), h, F, i)
BY PushLinked DEF ListOf

(* unlink_free_node() takes one out, and does nothing to one that is in none. *)
LEMMA UnlinkRun ==
  ASSUME NEW h \in Heaps, NEW F, ListOf(h, F), NEW i \in Idx, i \in F \/ Alone(h, i)
  PROVE  Unlinked(UnlinkFreeNode(h, i), h, F, i)
BY UnlinkMember, UnlinkStranger DEF ListOf

(* The list is what the links of the runs in it say. *)
LEMMA ListKept ==
  ASSUME NEW h, NEW g, NEW F, ListOf(h, F), g.first = h.first, g.last = h.last,
         \A b \in F : g.meta[b].prev = h.meta[b].prev /\ g.meta[b].next = h.meta[b].next
  PROVE  ListOf(g, F)
<1>1. PICK t : Linked(h, t) /\ ToSet(t) = F
  BY DEF ListOf
<1>2. \A k \in 1 .. Len(t) : t[k] \in F
  BY <1>1, LinkedIndexes
<1>3. Linked(g, t)
  BY <1>1, <1>2 DEF Linked
<1> QED
  BY <1>1, <1>3 DEF ListOf

-----------------------------------------------------------------------------
(* allocate()                                                               *)

(* Heap g has a free run at i + skip, split off the run at i of h; the runs *)
(* F of the list are the same but perhaps for that one.                     *)
Skipped(g, h, S, F, i, skip) ==
  /\ g \in Heaps /\ Tiled(g.meta, S \cup {i + skip})
  /\ g.meta[i + skip].owned = h.meta[i].owned - skip /\ ~g.meta[i + skip].isUsed
  /\ \A b \in S : g.meta[b].isUsed = h.meta[b].isUsed
  /\ \A b \in S \ {i} : g.meta[b].owned = h.meta[b].owned
  /\ skip # 0 => g.meta[i].owned = skip
  /\ \A b \in S \ F : g.meta[b].prev = h.meta[b].prev /\ g.meta[b].next = h.meta[b].next
  /\ \A b \in Idx \ (S \cup {i + skip}) : g.meta[b] = h.meta[b]
  /\ ListOf(g, F) /\ (i + skip \in F \/ Alone(g, i + skip))

(* Splitting off the blocks in front of an aligned place. *)
LEMMA SkipStep ==
  ASSUME NEW h \in Heaps, NEW S, Tiled(h.meta, S), NEW F, F \subseteq S, ListOf(h, F),
         NEW i \in F, ~h.meta[i].isUsed, NEW skip \in Nat, skip < h.meta[i].owned
  PROVE  Skipped(SkipForAlignment(h, i, skip), h, S, F, i, skip)
<1>1. h.meta \in [Idx -> Metadata] /\ i \in S /\ S \subseteq Idx /\ i \in Idx /\ F \subseteq Idx
  BY DEF Heaps, Tiled
<1>2. i \in Nat /\ h.meta[i].owned \in Nat /\ h.meta[i].owned <= Blocks
  BY <1>1, MetaTypes
<1>3. CASE skip = 0
  <2>1. SkipForAlignment(h, i, skip) = h /\ i + skip = i /\ h.meta[i].owned - skip = h.meta[i].owned
    BY <1>2, <1>3 DEF SkipForAlignment
  <2>2. S \cup {i} = S
    BY <1>1
  <2>3. Skipped(h, h, S, F, i, skip)
    BY <1>1, <1>3, <2>1, <2>2 DEF Skipped
  <2> QED
    BY <2>1, <2>3
<1>4. CASE skip # 0
  <2> DEFINE at == i + skip
             rest == h.meta[i].owned - skip
             g == SetBlocksOwned(h, i, skip)
             u == UnlinkFreeNode(g, i)
             k == PushFreeNode(u, i)
             d == DefaultInitialize(k, at)
             r == SetBlocksOwned(d, at, rest)
  <2>0. SkipForAlignment(h, i, skip) = r
    BY <1>4 DEF SkipForAlignment
  <2>1. /\ at \in Idx /\ at \notin S /\ at # i /\ at \in Nat /\ skip \in 0 .. Blocks
        /\ rest \in 0 .. Blocks /\ rest > 0 /\ at + rest = i + h.meta[i].owned
    <3>1. at \in Idx /\ at \notin S
      BY <1>1, <1>4, Inside
    <3>2. at # i /\ at \in Nat /\ rest > 0 /\ at + rest = i + h.meta[i].owned
      BY <1>2, <1>4
    <3>3. skip \in 0 .. Blocks
      BY <1>2, Numbers
    <3>4. rest \in 0 .. Blocks
      <4> HIDE DEF rest
      <4>1. rest \in Nat /\ rest <= h.meta[i].owned
        BY <1>2 DEF rest
      <4> QED
        BY <1>2, <4>1, Numbers
    <3> QED
      BY <3>1, <3>2, <3>3, <3>4
  <2> HIDE DEF at, rest
  <2>2. Resized(g, h, i, skip)
    BY <1>1, <2>1, SetOwnedFields
  <2> HIDE DEF g
  <2>3. g \in Heaps /\ ListOf(g, F)
    <3>1. g \in Heaps /\ SameLinks(g, h)
      BY <2>2 DEF Resized
    <3> QED
      BY <1>1, <3>1, ListKept DEF SameLinks
  <2>4. Unlinked(u, g, F, i)
    BY <1>1, <2>3, UnlinkRun
  <2> HIDE DEF u
  <2>5. u \in Heaps /\ ListOf(u, F \ {i}) /\ i \notin F \ {i} /\ Alone(u, i)
    BY <2>4 DEF Unlinked
  <2>6. Pushed(k, u, F \ {i}, i)
    BY <1>1, <2>5, PushRun
  <2> HIDE DEF k
  <2>7. k \in Heaps /\ ListOf(k, F)
    <3>1. (F \ {i}) \cup {i} = F
      OBVIOUS
    <3> QED
      BY <2>6, <3>1 DEF Pushed
  <2>8. Initialized(d, k, at)
    BY <2>1, <2>7, DefaultInitializeFields
  <2> HIDE DEF d
  <2>9. d \in Heaps /\ ListOf(d, F)
    <3>1. at \notin F
      BY <2>1
    <3> QED
      BY <1>1, <2>7, <2>8, <3>1, ListKept DEF Initialized
  <2>10. Resized(r, d, at, rest)
    BY <2>1, <2>9, SetOwnedFields
  <2> HIDE DEF r
  <2>11. r \in Heaps /\ ListOf(r, F) /\ r.meta \in [Idx -> Metadata]
    <3>1. r \in Heaps /\ SameLinks(r, d)
      BY <2>10 DEF Resized
    <3> QED
      BY <1>1, <2>9, <3>1, ListKept DEF SameLinks, Heaps
  <2>12. \A b \in Idx : /\ k.meta[b].owned = g.meta[b].owned
                        /\ k.meta[b].before = g.meta[b].before
                        /\ k.meta[b].isUsed = g.meta[b].isUsed
    BY <2>4, <2>6 DEF Unlinked, Pushed, SameRuns
  <2>13. \A b \in Idx :
           /\ r.meta[b].owned = IF b = at THEN rest ELSE IF b = i THEN skip ELSE h.meta[b].owned
           /\ r.meta[b].before = IF b = at + rest THEN rest
                                 ELSE IF b = at THEN skip ELSE h.meta[b].before
           /\ b # at => r.meta[b].isUsed = h.meta[b].isUsed
    <3> SUFFICES ASSUME NEW b \in Idx
                 PROVE  /\ r.meta[b].owned = IF b = at THEN rest
                                             ELSE IF b = i THEN skip ELSE h.meta[b].owned
                        /\ r.meta[b].before = IF b = at + rest THEN rest
                                              ELSE IF b = at THEN skip ELSE h.meta[b].before
                        /\ b # at => r.meta[b].isUsed = h.meta[b].isUsed
      OBVIOUS
    <3>1. /\ r.meta[b].owned = IF b = at THEN rest ELSE d.meta[b].owned
          /\ r.meta[b].before = IF b = at + rest THEN rest ELSE d.meta[b].before
          /\ r.meta[b].isUsed = d.meta[b].isUsed
      BY <2>10 DEF Resized, SameLinks
    <3>2. /\ d.meta[b].owned = k.meta[b].owned /\ d.meta[b].before = k.meta[b].before
          /\ b # at => d.meta[b].isUsed = k.meta[b].isUsed
      BY <2>8 DEF Initialized
    <3>3. /\ g.meta[b].owned = IF b = i THEN skip ELSE h.meta[b].owned
          /\ g.meta[b].before = IF b = at THEN skip ELSE h.meta[b].before
          /\ g.meta[b].isUsed = h.meta[b].isUsed
      BY <2>2 DEF Resized, SameLinks, at
    <3> QED
      BY <2>12, <3>1, <3>2, <3>3
  <2>14. SplitAt(r.meta, h.meta, S, i, skip)
    <3>1. r.meta[i].owned = skip /\ r.meta[i].before = h.meta[i].before
      <4>1. i # at + rest
        BY <1>2, <1>4, <2>1
      <4> QED
        BY <1>1, <2>1, <2>13, <4>1
    <3>2. r.meta[at].owned = rest /\ r.meta[at].before = skip
      <4>1. at # at + rest
        BY <2>1
      <4> QED
        BY <2>1, <2>13, <4>1
    <3>3. \A b \in S \ {i} :
            /\ r.meta[b].owned = h.meta[b].owned
            /\ r.meta[b].before = IF b = i + h.meta[i].owned THEN rest ELSE h.meta[b].before
      BY <1>1, <2>1, <2>13
    <3> QED
      BY <3>1, <3>2, <3>3 DEF SplitAt, at, rest
  <2>15. Tiled(r.meta, S \cup {at})
    <3>1. skip > 0
      BY <1>4
    <3> QED
      BY <1>1, <2>11, <2>14, <3>1, SplitTiled DEF at
  <2>16. \A b \in Idx \ (F \cup {i, at}) :
           r.meta[b].prev = h.meta[b].prev /\ r.meta[b].next = h.meta[b].next
    <3> SUFFICES ASSUME NEW b \in Idx \ (F \cup {i, at})
                 PROVE  r.meta[b].prev = h.meta[b].prev /\ r.meta[b].next = h.meta[b].next
      OBVIOUS
    <3>1. r.meta[b].prev = d.meta[b].prev /\ r.meta[b].next = d.meta[b].next
      BY <2>10 DEF Resized, SameLinks
    <3>2. d.meta[b] = k.meta[b]
      BY <2>8 DEF Initialized
    <3>3. k.meta[b] = u.meta[b]
      BY <2>6 DEF Pushed
    <3>4. u.meta[b] = g.meta[b]
      BY <2>4 DEF Unlinked
    <3>5. g.meta[b].prev = h.meta[b].prev /\ g.meta[b].next = h.meta[b].next
      BY <2>2 DEF Resized, SameLinks
    <3> QED
      BY <3>1, <3>2, <3>3, <3>4, <3>5
  <2>17. ASSUME NEW b \in Idx \ (S \cup {at}) PROVE r.meta[b] = h.meta[b]
    <3>1. b # at + rest
      <4>1. i + h.meta[i].owned # Blocks => i + h.meta[i].owned \in S
        BY <1>1 DEF Tiled
      <4>2. b # Blocks
        BY Numbers
      <4> QED
        BY <2>1, <4>1, <4>2
    <3>2. b # i /\ b \notin F
      BY <1>1
    <3>3. r.meta[b] \in Metadata /\ h.meta[b] \in Metadata
      BY <1>1, <2>11
    <3> QED
      BY <2>13, <2>16, <3>1, <3>2, <3>3, SameRecord
  <2>18. ~r.meta[at].isUsed /\ Alone(r, at)
    <3>1. /\ r.meta[at].isUsed = d.meta[at].isUsed
          /\ r.meta[at].prev = d.meta[at].prev /\ r.meta[at].next = d.meta[at].next
      BY <2>1, <2>10 DEF Resized, SameLinks
    <3> QED
      BY <2>8, <3>1 DEF Initialized, Alone
  <2>19. r.meta[at].owned = rest /\ r.meta[i].owned = skip
    BY <1>1, <2>1, <2>13
  <2>20. \A b \in S : /\ r.meta[b].isUsed = h.meta[b].isUsed
                      /\ b # i => r.meta[b].owned = h.meta[b].owned
    BY <1>1, <2>1, <2>13
  <2>21. \A b \in S \ F : r.meta[b].prev = h.meta[b].prev /\ r.meta[b].next = h.meta[b].next
    BY <1>1, <2>1, <2>16
  <2>22. Skipped(r, h, S, F, i, skip)
    BY <2>11, <2>15, <2>17, <2>18, <2>19, <2>20, <2>21 DEF Skipped, at, rest
  <2> QED
    BY <2>0, <2>22
<1> QED
  BY <1>3, <1>4

(* The head of what is left of the run at i when n blocks are taken. *)
Rest(h, i, n) == IF n < h.meta[i].owned THEN {i + n} ELSE {}

(* Heap g has a run of n blocks in use at i, what was left of the run at i  *)
(* of h is free.                                                            *)
Taken(g, h, S, F, i, n) ==
  /\ g \in Heaps /\ Tiled(g.meta, S \cup Rest(h, i, n))
  /\ g.meta[i].owned = n /\ g.meta[i].isUsed /\ Alone(g, i)
  /\ \A b \in S \ {i} :
       g.meta[b].isUsed = h.meta[b].isUsed /\ g.meta[b].owned = h.meta[b].owned
  /\ \A b \in Rest(h, i, n) :
       g.meta[b].owned = h.meta[i].owned - n /\ ~g.meta[b].isUsed /\ b \notin S
  /\ \A b \in S \ (F \cup {i}) : g.meta[b].prev = h.meta[b].prev /\ g.meta[b].next = h.meta[b].next
  /\ \A b \in Idx \ (S \cup Rest(h, i, n)) : g.meta[b] = h.meta[b]
  /\ ListOf(g, (F \ {i}) \cup Rest(h, i, n))

(* Taking n blocks of a free run and giving the rest back to the list. *)
LEMMA TakeStep ==
  ASSUME NEW h \in Heaps, NEW S, Tiled(h.meta, S), NEW F, F \subseteq S, ListOf(h, F),
         NEW i \in S, i \in F \/ Alone(h, i), NEW n \in Nat, n > 0, n <= h.meta[i].owned
  PROVE  Taken(TakeRun(h, i, n), h, S, F, i, n)
<1>1. h.meta \in [Idx -> Metadata] /\ S \subseteq Idx /\ i \in Idx /\ F \subseteq Idx
  BY DEF Heaps, Tiled
<1>2. i \in Nat /\ h.meta[i].owned \in Nat /\ h.meta[i].owned <= Blocks
  BY <1>1, MetaTypes
<1>3. n \in 0 .. Blocks
  BY <1>2, Numbers
<1> DEFINE u == UnlinkFreeNode(h, i)
           g == [u EXCEPT !.meta[i].isUsed = TRUE]
           k == SetBlocksOwned(g, i, n)
           c == i + n
           rest == h.meta[i].owned - n
           d == DefaultInitialize(k, c)
           r == SetBlocksOwned(d, c, rest)
           q == PushFreeNode(r, c)
<1>0. TakeRun(h, i, n) = IF n < h.meta[i].owned THEN q ELSE k
  BY DEF TakeRun
<1>4. Unlinked(u, h, F, i)
  BY <1>1, UnlinkRun
<1> HIDE DEF u
<1>5. u \in Heaps /\ ListOf(u, F \ {i}) /\ TRUE \in BOOLEAN
  BY <1>4 DEF Unlinked
<1>6. Edited(g, u, i, "isUsed") /\ g.meta[i].isUsed = TRUE
  BY <1>1, <1>5, EditIsUsed, Zenon
<1> HIDE DEF g
<1>7. g \in Heaps
  BY <1>6 DEF Edited
<1>8. ListOf(g, F \ {i})
  <2>1. g.first = u.first /\ g.last = u.last /\ \A b \in F \ {i} : g.meta[b] = u.meta[b]
    BY <1>1, <1>6 DEF Edited
  <2> QED
    BY <1>5, <2>1, ListKept
<1>9. Resized(k, g, i, n)
  BY <1>1, <1>3, <1>7, SetOwnedFields
<1> HIDE DEF k
<1>10. k \in Heaps /\ ListOf(k, F \ {i})
  <2>1. k \in Heaps /\ SameLinks(k, g)
    BY <1>9 DEF Resized
  <2> QED
    BY <1>1, <1>8, <2>1, ListKept DEF SameLinks
<1>11. \A b \in Idx :
         /\ k.meta[b].owned = IF b = i THEN n ELSE h.meta[b].owned
         /\ k.meta[b].before = IF b = c THEN n ELSE h.meta[b].before
         /\ k.meta[b].isUsed = IF b = i THEN TRUE ELSE h.meta[b].isUsed
  <2> SUFFICES ASSUME NEW b \in Idx
               PROVE  /\ k.meta[b].owned = IF b = i THEN n ELSE h.meta[b].owned
                      /\ k.meta[b].before = IF b = c THEN n ELSE h.meta[b].before
                      /\ k.meta[b].isUsed = IF b = i THEN TRUE ELSE h.meta[b].isUsed
    OBVIOUS
  <2>1. /\ k.meta[b].owned = IF b = i THEN n ELSE g.meta[b].owned
        /\ k.meta[b].before = IF b = c THEN n ELSE g.meta[b].before
        /\ k.meta[b].isUsed = g.meta[b].isUsed
    BY <1>9 DEF Resized, SameLinks
  <2>2. /\ g.meta[b].owned = u.meta[b].owned /\ g.meta[b].before = u.meta[b].before
        /\ g.meta[b].isUsed = IF b = i THEN TRUE ELSE u.meta[b].isUsed
    BY <1>6 DEF Edited, Same
  <2>3. /\ u.meta[b].owned = h.meta[b].owned /\ u.meta[b].before = h.meta[b].before
        /\ u.meta[b].isUsed = h.meta[b].isUsed
    BY <1>4 DEF Unlinked, SameRuns
  <2> QED
    BY <2>1, <2>2, <2>3
<1>12. Alone(k, i)
  <2>1. k.meta[i].prev = g.meta[i].prev /\ k.meta[i].next = g.meta[i].next
    BY <1>1, <1>9 DEF Resized, SameLinks
  <2>2. g.meta[i].prev = u.meta[i].prev /\ g.meta[i].next = u.meta[i].next
    BY <1>6 DEF Edited, Same
  <2>3. Alone(u, i)
    BY <1>4 DEF Unlinked
  <2> QED
    BY <2>1, <2>2, <2>3 DEF Alone
<1>13. \A b \in Idx \ (F \cup {i}) :
         k.meta[b].prev = h.meta[b].prev /\ k.meta[b].next = h.meta[b].next
  <2> SUFFICES ASSUME NEW b \in Idx \ (F \cup {i})
               PROVE  k.meta[b].prev = h.meta[b].prev /\ k.meta[b].next = h.meta[b].next
    OBVIOUS
  <2>1. k.meta[b].prev = g.meta[b].prev /\ k.meta[b].next = g.meta[b].next
    BY <1>9 DEF Resized, SameLinks
  <2>2. g.meta[b] = u.meta[b]
    BY <1>6 DEF Edited
  <2>3. u.meta[b] = h.meta[b]
    BY <1>4 DEF Unlinked
  <2> QED
    BY <2>1, <2>2, <2>3
<1>14. \A b \in Idx \ (F \cup {i, c}) : k.meta[b] = h.meta[b]
  <2> SUFFICES ASSUME NEW b \in Idx \ (F \cup {i, c})
               PROVE  k.meta[b] = h.meta[b]
    OBVIOUS
  <2>1. k.meta[b] = g.meta[b]
    BY <1>9 DEF Resized
  <2>2. g.meta[b] = u.meta[b]
    BY <1>6 DEF Edited
  <2>3. u.meta[b] = h.meta[b]
    BY <1>4 DEF Unlinked
  <2> QED
    BY <2>1, <2>2, <2>3
<1>15. CASE n = h.meta[i].owned
  <2>1. TakeRun(h, i, n) = k /\ Rest(h, i, n) = {}
    BY <1>0, <1>2, <1>15 DEF Rest
  <2>2. c \in Idx => c \in S /\ h.meta[c].before = n
    <3>1. c # Blocks => c \in S /\ h.meta[c].before = n
      BY <1>15 DEF Tiled
    <3> QED
      BY <3>1, Numbers
  <2>3. \A b \in Idx : k.meta[b].owned = h.meta[b].owned /\ k.meta[b].before = h.meta[b].before
    BY <1>11, <1>15, <2>2
  <2>4. Tiled(k.meta, S)
    <3> DEFINE m1 == h.meta
               m2 == k.meta
    <3>1. \A b \in S : m2[b].owned = m1[b].owned /\ m2[b].before = m1[b].before
      BY <1>1, <2>3
    <3>2. Tiled(m1, S)
      OBVIOUS
    <3> HIDE DEF m1, m2
    <3>3. Tiled(m2, S)
      BY <3>1, <3>2, TiledKept
    <3> QED
      BY <3>3 DEF m2
  <2>5. k.meta[i].owned = n /\ k.meta[i].isUsed
    BY <1>1, <1>11
  <2>6. \A b \in S \ {i} : k.meta[b].isUsed = h.meta[b].isUsed /\ k.meta[b].owned = h.meta[b].owned
    BY <1>1, <1>11
  <2>7. \A b \in Idx \ S : k.meta[b] = h.meta[b]
    BY <1>14, <2>2
  <2>8. Taken(k, h, S, F, i, n)
    BY <1>1, <1>10, <1>12, <1>13, <2>1, <2>4, <2>5, <2>6, <2>7 DEF Taken
  <2> QED
    BY <2>1, <2>8
<1>16. CASE n < h.meta[i].owned
  <2>1. TakeRun(h, i, n) = q /\ Rest(h, i, n) = {c}
    BY <1>0, <1>16 DEF Rest
  <2>2. /\ c \in Idx /\ c \notin S /\ c # i /\ c \in Nat
        /\ rest \in 0 .. Blocks /\ rest > 0 /\ c + rest = i + h.meta[i].owned
    <3>1. c \in Idx /\ c \notin S
      BY <1>1, <1>16, Inside
    <3>2. c # i /\ c \in Nat /\ rest > 0 /\ c + rest = i + h.meta[i].owned
      BY <1>2, <1>16
    <3>3. rest \in 0 .. Blocks
      BY <1>2, <1>16, Numbers
    <3> QED
      BY <3>1, <3>2, <3>3
  <2> HIDE DEF c, rest
  <2>3. Initialized(d, k, c)
    BY <1>10, <2>2, DefaultInitializeFields
  <2> HIDE DEF d
  <2>4. d \in Heaps /\ ListOf(d, F \ {i})
    <3>1. d.first = k.first /\ d.last = k.last /\ \A b \in F \ {i} : d.meta[b] = k.meta[b]
      BY <1>1, <2>2, <2>3 DEF Initialized
    <3>2. d \in Heaps
      BY <2>3 DEF Initialized
    <3> QED
      BY <1>10, <3>1, <3>2, ListKept
  <2>5. Resized(r, d, c, rest)
    BY <2>2, <2>4, SetOwnedFields
  <2> HIDE DEF r
  <2>6. r \in Heaps /\ ListOf(r, F \ {i})
    <3>1. r \in Heaps /\ SameLinks(r, d)
      BY <2>5 DEF Resized
    <3> QED
      BY <1>1, <2>4, <3>1, ListKept DEF SameLinks
  <2>7. Alone(r, c) /\ ~r.meta[c].isUsed
    <3>1. /\ r.meta[c].prev = d.meta[c].prev /\ r.meta[c].next = d.meta[c].next
          /\ r.meta[c].isUsed = d.meta[c].isUsed
      BY <2>2, <2>5 DEF Resized, SameLinks
    <3> QED
      BY <2>3, <3>1 DEF Initialized, Alone
  <2>8. c \notin F \ {i}
    BY <2>2
  <2>9. Pushed(q, r, F \ {i}, c)
    BY <2>2, <2>6, <2>7, <2>8, PushRun
  <2> HIDE DEF q
  <2>10. q \in Heaps /\ q.meta \in [Idx -> Metadata] /\ ListOf(q, (F \ {i}) \cup {c})
    BY <2>9 DEF Pushed, Heaps
  <2>11. \A b \in Idx :
           /\ q.meta[b].owned = IF b = c THEN rest ELSE IF b = i THEN n ELSE h.meta[b].owned
           /\ q.meta[b].before = IF b = c + rest THEN rest
                                 ELSE IF b = c THEN n ELSE h.meta[b].before
           /\ q.meta[b].isUsed = IF b = c THEN FALSE ELSE IF b = i THEN TRUE ELSE h.meta[b].isUsed
    <3> SUFFICES ASSUME NEW b \in Idx
                 PROVE  /\ q.meta[b].owned = IF b = c THEN rest
                                             ELSE IF b = i THEN n ELSE h.meta[b].owned
                        /\ q.meta[b].before = IF b = c + rest THEN rest
                                              ELSE IF b = c THEN n ELSE h.meta[b].before
                        /\ q.meta[b].isUsed = IF b = c THEN FALSE
                                              ELSE IF b = i THEN TRUE ELSE h.meta[b].isUsed
      OBVIOUS
    <3>1. /\ q.meta[b].owned = r.meta[b].owned /\ q.meta[b].before = r.meta[b].before
          /\ q.meta[b].isUsed = r.meta[b].isUsed
      BY <2>9 DEF Pushed, SameRuns
    <3>2. /\ r.meta[b].owned = IF b = c THEN rest ELSE d.meta[b].owned
          /\ r.meta[b].before = IF b = c + rest THEN rest ELSE d.meta[b].before
          /\ r.meta[b].isUsed = d.meta[b].isUsed
      BY <2>5 DEF Resized, SameLinks
    <3>3. /\ d.meta[b].owned = k.meta[b].owned /\ d.meta[b].before = k.meta[b].before
          /\ b # c => d.meta[b].isUsed = k.meta[b].isUsed
      BY <2>3 DEF Initialized
    <3>4. b = c => r.meta[b].isUsed = FALSE
      <4>1. r.meta[c].isUsed \in BOOLEAN
        BY <2>2, <2>6, MetaTypes DEF Heaps
      <4> QED
        BY <2>7, <4>1
    <3> QED
      BY <1>11, <3>1, <3>2, <3>3, <3>4
  <2>12. \A b \in Idx \ (F \cup {i, c}) :
           q.meta[b].prev = h.meta[b].prev /\ q.meta[b].next = h.meta[b].next
    <3> SUFFICES ASSUME NEW b \in Idx \ (F \cup {i, c})
                 PROVE  q.meta[b].prev = h.meta[b].prev /\ q.meta[b].next = h.meta[b].next
      OBVIOUS
    <3>1. q.meta[b] = r.meta[b]
      BY <2>9 DEF Pushed
    <3>2. r.meta[b].prev = d.meta[b].prev /\ r.meta[b].next = d.meta[b].next
      BY <2>5 DEF Resized, SameLinks
    <3>3. d.meta[b] = k.meta[b]
      BY <2>3 DEF Initialized
    <3> QED
      BY <1>13, <3>1, <3>2, <3>3
  <2>13. Alone(q, i)
    <3>1. q.meta[i] = r.meta[i]
      BY <1>1, <2>2, <2>9 DEF Pushed
    <3>2. r.meta[i].prev = d.meta[i].prev /\ r.meta[i].next = d.meta[i].next
      BY <1>1, <2>5 DEF Resized, SameLinks
    <3>3. d.meta[i] = k.meta[i]
      BY <1>1, <2>2, <2>3 DEF Initialized
    <3> QED
      BY <1>12, <3>1, <3>2, <3>3 DEF Alone
  <2>14. SplitAt(q.meta, h.meta, S, i, n)
    <3>1. q.meta[i].owned = n /\ q.meta[i].before = h.meta[i].before
      <4>1. i # c + rest
        BY <1>2, <1>16, <2>2
      <4> QED
        BY <1>1, <2>2, <2>11, <4>1
    <3>2. q.meta[c].owned = rest /\ q.meta[c].before = n
      <4>1. c # c + rest
        BY <2>2
      <4> QED
        BY <2>2, <2>11, <4>1
    <3>3. \A b \in S \ {i} :
            /\ q.meta[b].owned = h.meta[b].owned
            /\ q.meta[b].before = IF b = i + h.meta[i].owned THEN rest ELSE h.meta[b].before
      BY <1>1, <2>2, <2>11
    <3> QED
      BY <3>1, <3>2, <3>3 DEF SplitAt, c, rest
  <2>15. Tiled(q.meta, S \cup {c})
    BY <1>1, <1>16, <2>10, <2>14, SplitTiled DEF c
  <2>16. ASSUME NEW b \in Idx \ (S \cup {c}) PROVE q.meta[b] = h.meta[b]
    <3>1. b # c + rest
      <4>1. i + h.meta[i].owned # Blocks => i + h.meta[i].owned \in S
        BY <1>1 DEF Tiled
      <4>2. b # Blocks
        BY Numbers
      <4> QED
        BY <2>2, <4>1, <4>2
    <3>2. b # i /\ b \notin F /\ b # c
      OBVIOUS
    <3>3. q.meta[b] \in Metadata /\ h.meta[b] \in Metadata
      BY <1>1, <2>10
    <3>4. /\ q.meta[b].owned = h.meta[b].owned /\ q.meta[b].before = h.meta[b].before
          /\ q.meta[b].isUsed = h.meta[b].isUsed
      BY <2>11, <3>1, <3>2
    <3>5. q.meta[b].prev = h.meta[b].prev /\ q.meta[b].next = h.meta[b].next
      BY <2>12, <3>2
    <3> QED
      BY <3>3, <3>4, <3>5, SameRecord
  <2>17. q.meta[c].owned = rest /\ ~q.meta[c].isUsed /\ q.meta[i].owned = n /\ q.meta[i].isUsed
    BY <1>1, <2>2, <2>11
  <2>18. \A b \in S \ {i} : q.meta[b].isUsed = h.meta[b].isUsed /\ q.meta[b].owned = h.meta[b].owned
    BY <1>1, <2>2, <2>11
  <2>19. \A b \in S \ (F \cup {i}) :
           q.meta[b].prev = h.meta[b].prev /\ q.meta[b].next = h.meta[b].next
    BY <1>1, <2>2, <2>12
  <2>20. Taken(q, h, S, F, i, n)
    BY <2>1, <2>2, <2>10, <2>13, <2>15, <2>16, <2>17, <2>18, <2>19 DEF Taken, rest
  <2> QED
    BY <2>1, <2>20
<1> QED
  BY <1>2, <1>15, <1>16

-----------------------------------------------------------------------------
(* deallocate()                                                             *)

(* Heap g has the runs at j and k of h in one, and the run at x, one of the *)
(* two, is no longer in the list.                                           *)
Merged(g, h, S, F, j, k, x) ==
  /\ g \in Heaps /\ Tiled(g.meta, S \ {k})
  /\ g.meta[j].owned = h.meta[j].owned + h.meta[k].owned
  /\ \A b \in S \ {j, k} : g.meta[b].owned = h.meta[b].owned
  /\ \A b \in S : g.meta[b].isUsed = h.meta[b].isUsed
  /\ \A b \in S \ (F \cup {x}) : g.meta[b].prev = h.meta[b].prev /\ g.meta[b].next = h.meta[b].next
  /\ \A b \in Idx \ S : g.meta[b] = h.meta[b]
  /\ ListOf(g, F \ {x}) /\ Alone(g, x)

(* set_blocks_owned() and unlink_free_node() as deallocate() uses them. *)
LEMMA MergeStep ==
  ASSUME NEW h \in Heaps, NEW S, Tiled(h.meta, S), NEW F, F \subseteq S, ListOf(h, F),
         NEW j \in S, NEW k \in S, k = j + h.meta[j].owned, NEW x \in F, x = j \/ x = k
  PROVE  Merged(UnlinkFreeNode(SetBlocksOwned(h, j, h.meta[j].owned + h.meta[k].owned), x),
                h, S, F, j, k, x)
<1>1. h.meta \in [Idx -> Metadata] /\ S \subseteq Idx /\ j \in Idx /\ k \in Idx /\ x \in Idx
  BY DEF Heaps, Tiled
<1>2. /\ j \in Nat /\ k \in Nat /\ h.meta[j].owned \in Nat /\ h.meta[k].owned \in Nat
      /\ h.meta[j].owned > 0 /\ h.meta[k].owned > 0 /\ k + h.meta[k].owned <= Blocks
  BY <1>1, MetaTypes DEF Tiled
<1> DEFINE n == h.meta[j].owned + h.meta[k].owned
           g == SetBlocksOwned(h, j, n)
           r == UnlinkFreeNode(g, x)
<1>3. n \in 0 .. Blocks /\ j + n = k + h.meta[k].owned /\ j + n # j
  <2>1. n \in Nat /\ n > 0 /\ j + n = k + h.meta[k].owned
    BY <1>2
  <2> HIDE DEF n
  <2> QED
    BY <1>2, <2>1, Numbers
<1> HIDE DEF n
<1>4. Resized(g, h, j, n)
  BY <1>1, <1>3, SetOwnedFields
<1> HIDE DEF g
<1>5. g \in Heaps /\ ListOf(g, F)
  <2>1. g \in Heaps /\ SameLinks(g, h)
    BY <1>4 DEF Resized
  <2> QED
    BY <1>1, <2>1, ListKept DEF SameLinks
<1>6. Unlinked(r, g, F, x)
  BY <1>1, <1>5, UnlinkRun
<1> HIDE DEF r
<1>7. r \in Heaps /\ r.meta \in [Idx -> Metadata] /\ ListOf(r, F \ {x}) /\ Alone(r, x)
  BY <1>6 DEF Unlinked, Heaps
<1>8. \A b \in Idx :
        /\ r.meta[b].owned = IF b = j THEN n ELSE h.meta[b].owned
        /\ r.meta[b].before = IF b = j + n THEN n ELSE h.meta[b].before
        /\ r.meta[b].isUsed = h.meta[b].isUsed
  <2> SUFFICES ASSUME NEW b \in Idx
               PROVE  /\ r.meta[b].owned = IF b = j THEN n ELSE h.meta[b].owned
                      /\ r.meta[b].before = IF b = j + n THEN n ELSE h.meta[b].before
                      /\ r.meta[b].isUsed = h.meta[b].isUsed
    OBVIOUS
  <2>1. /\ r.meta[b].owned = g.meta[b].owned /\ r.meta[b].before = g.meta[b].before
        /\ r.meta[b].isUsed = g.meta[b].isUsed
    BY <1>6 DEF Unlinked, SameRuns
  <2>2. /\ g.meta[b].owned = IF b = j THEN n ELSE h.meta[b].owned
        /\ g.meta[b].before = IF b = j + n THEN n ELSE h.meta[b].before
        /\ g.meta[b].isUsed = h.meta[b].isUsed
    BY <1>4 DEF Resized, SameLinks
  <2> QED
    BY <2>1, <2>2
<1>9. MergedAt(r.meta, h.meta, S, j, k)
  <2>1. r.meta[j].owned = n /\ r.meta[j].before = h.meta[j].before
    BY <1>1, <1>3, <1>8
  <2>2. \A b \in S \ {j, k} :
          /\ r.meta[b].owned = h.meta[b].owned
          /\ r.meta[b].before = IF b = k + h.meta[k].owned THEN n ELSE h.meta[b].before
    BY <1>1, <1>3, <1>8
  <2> QED
    BY <2>1, <2>2 DEF MergedAt, n
<1>10. Tiled(r.meta, S \ {k})
  BY <1>1, <1>7, <1>9, MergeTiled
<1>11. \A b \in Idx \ (F \cup {x}) : r.meta[b].prev = h.meta[b].prev /\ r.meta[b].next = h.meta[b].next
  <2> SUFFICES ASSUME NEW b \in Idx \ (F \cup {x})
               PROVE  r.meta[b].prev = h.meta[b].prev /\ r.meta[b].next = h.meta[b].next
    OBVIOUS
  <2>1. r.meta[b] = g.meta[b]
    BY <1>6 DEF Unlinked
  <2>2. g.meta[b].prev = h.meta[b].prev /\ g.meta[b].next = h.meta[b].next
    BY <1>4 DEF Resized, SameLinks
  <2> QED
    BY <2>1, <2>2
<1>12. ASSUME NEW b \in Idx \ S PROVE r.meta[b] = h.meta[b]
  <2>1. b # j + n
    <3>1. k + h.meta[k].owned # Blocks => k + h.meta[k].owned \in S
      BY DEF Tiled
    <3>2. b # Blocks
      BY Numbers
    <3> QED
      BY <1>3, <3>1, <3>2
  <2>2. r.meta[b] = g.meta[b]
    BY <1>6 DEF Unlinked
  <2>3. g.meta[b] = h.meta[b]
    BY <1>4, <2>1 DEF Resized
  <2> QED
    BY <2>2, <2>3
<1>13. /\ r.meta[j].owned = h.meta[j].owned + h.meta[k].owned
       /\ \A b \in S \ {j, k} : r.meta[b].owned = h.meta[b].owned
       /\ \A b \in S : r.meta[b].isUsed = h.meta[b].isUsed
  BY <1>1, <1>8 DEF n
<1>14. \A b \in S \ (F \cup {x}) : r.meta[b].prev = h.meta[b].prev /\ r.meta[b].next = h.meta[b].next
  BY <1>1, <1>11
<1>15. Merged(r, h, S, F, j, k, x)
  BY <1>7, <1>10, <1>12, <1>13, <1>14 DEF Merged
<1> QED
  BY <1>15 DEF r, g, n

-----------------------------------------------------------------------------
(* The heap as a whole: S are the heads of its runs, F those of the free    *)
(* ones, which are the ones in the list; no two free runs touch.            *)
SoundHeap(h, S, F) ==
  /\ h \in Heaps /\ Tiled(h.meta, S)
  /\ F = {b \in S : ~h.meta[b].isUsed} /\ ListOf(h, F)
  /\ \A b \in F : b + h.meta[b].owned \notin F
  /\ \A b \in S \ F : Alone(h, b)

(* A run ends in front of another or begins behind it. *)
LEMMA Apart ==
  ASSUME NEW m \in [Idx -> Metadata], NEW S, Tiled(m, S), NEW b \in S, NEW i \in S, b # i
  PROVE  /\ b + m[b].owned <= i \/ i + m[i].owned <= b
         /\ b \in Nat /\ i \in Nat /\ m[b].owned \in Nat /\ m[i].owned \in Nat
         /\ m[b].owned > 0 /\ m[i].owned > 0
         /\ b + m[b].owned <= Blocks /\ i + m[i].owned <= Blocks
<1>1. b \in Idx /\ i \in Idx
  BY DEF Tiled
<1>2. /\ b \in Nat /\ i \in Nat /\ m[b].owned \in Nat /\ m[i].owned \in Nat
  BY <1>1, MetaTypes
<1>3. (b <= i \/ i + m[i].owned <= b) /\ (i <= b \/ b + m[b].owned <= i)
  BY DEF Tiled
<1>4. /\ m[b].owned > 0 /\ m[i].owned > 0
      /\ b + m[b].owned <= Blocks /\ i + m[i].owned <= Blocks
  BY DEF Tiled
<1> QED
  BY <1>2, <1>3, <1>4

(* Heap g has one run in use more than h, of n blocks at c. *)
Grown(g, h, S, F, c, n, S2, F2) ==
  /\ SoundHeap(g, S2, F2) /\ S \subseteq S2 /\ c \notin S \ F /\ c \in S2
  /\ S2 \ F2 = (S \ F) \cup {c}
  /\ g.meta[c].owned = n
  /\ \A b \in S \ F : g.meta[b].owned = h.meta[b].owned
  /\ \A b \in Idx \ S2 : g.meta[b] = h.meta[b]

(* allocate() takes n blocks, skip blocks into the free run at i. *)
LEMMA AllocateHeap ==
  ASSUME NEW h, NEW S, NEW F, SoundHeap(h, S, F), NEW i \in F,
         NEW skip \in Nat, NEW n \in Nat, n > 0, skip + n <= h.meta[i].owned
  PROVE  \E S2, F2 : Grown(TakeRun(SkipForAlignment(h, i, skip), i + skip, n),
                           h, S, F, i + skip, n, S2, F2)
<1>1. /\ h \in Heaps /\ Tiled(h.meta, S) /\ F = {b \in S : ~h.meta[b].isUsed} /\ ListOf(h, F)
      /\ F \subseteq S /\ i \in S /\ ~h.meta[i].isUsed
  BY DEF SoundHeap
<1>2. \A b \in F : b + h.meta[b].owned \notin F
  BY DEF SoundHeap
<1>3. \A b \in S \ F : Alone(h, b)
  BY DEF SoundHeap
<1>4. h.meta \in [Idx -> Metadata] /\ S \subseteq Idx /\ i \in Idx
  BY <1>1 DEF Heaps, Tiled
<1>5. i \in Nat /\ h.meta[i].owned \in Nat
  BY <1>4, MetaTypes
<1>6. skip < h.meta[i].owned
  BY <1>5
<1> DEFINE at == i + skip
           k == SkipForAlignment(h, i, skip)
           T == S \cup {at}
           g == TakeRun(k, at, n)
           R == Rest(k, at, n)
           F2 == (F \ {at}) \cup R
           S2 == T \cup R
<1>7. Skipped(k, h, S, F, i, skip)
  BY <1>1, <1>6, SkipStep
<1> HIDE DEF k
<1>8. /\ k \in Heaps /\ Tiled(k.meta, T) /\ ListOf(k, F) /\ (at \in F \/ Alone(k, at))
      /\ k.meta[at].owned = h.meta[i].owned - skip /\ ~k.meta[at].isUsed
  BY <1>7 DEF Skipped
<1>9. at \in Nat /\ n <= k.meta[at].owned /\ at + k.meta[at].owned = i + h.meta[i].owned
  BY <1>5, <1>8
<1>10. F \subseteq T /\ at \in T
  BY <1>1
<1> HIDE DEF at
<1>11. Taken(g, k, T, F, at, n)
  BY <1>8, <1>9, <1>10, TakeStep
<1> HIDE DEF g
<1>12. g \in Heaps /\ Tiled(g.meta, S2) /\ ListOf(g, F2)
  BY <1>11 DEF Taken
<1>13. g.meta[at].owned = n /\ g.meta[at].isUsed /\ Alone(g, at)
  BY <1>11 DEF Taken
<1>14. \A b \in T \ {at} : g.meta[b].isUsed = k.meta[b].isUsed /\ g.meta[b].owned = k.meta[b].owned
  BY <1>11 DEF Taken
<1>15. \A b \in R : g.meta[b].owned = k.meta[at].owned - n /\ ~g.meta[b].isUsed /\ b \notin T
  BY <1>11 DEF Taken
<1>16. \A b \in S : k.meta[b].isUsed = h.meta[b].isUsed
  BY <1>7 DEF Skipped
<1>17. \A b \in S \ {i} : k.meta[b].owned = h.meta[b].owned
  BY <1>7 DEF Skipped
<1>18. F2 = {b \in S2 : ~g.meta[b].isUsed}
  <2>1. \A b \in S2 : b \in F2 <=> ~g.meta[b].isUsed
    BY <1>1, <1>13, <1>14, <1>15, <1>16
  <2>2. F2 \subseteq S2
    BY <1>1
  <2> QED
    BY <2>1, <2>2
<1>19. at \notin S \ F /\ (skip = 0 => at = i) /\ (skip # 0 => at \notin S /\ k.meta[i].owned = skip)
  <2>1. CASE skip = 0
    BY <1>5, <2>1 DEF at
  <2>2. CASE skip # 0
    <3>1. skip > 0
      BY <2>2
    <3>2. at \notin S
      BY <1>1, <1>4, <1>6, <3>1, Inside DEF at
    <3>3. k.meta[i].owned = skip
      BY <1>7, <2>2 DEF Skipped
    <3> QED
      BY <2>2, <3>2, <3>3
  <2> QED
    BY <2>1, <2>2
<1>20. S2 \ F2 = (S \ F) \cup {at}
  BY <1>1, <1>15, <1>19
<1>21. ASSUME NEW b \in F2 PROVE b + g.meta[b].owned \notin F2
  <2>1. \A x \in R : x = at + n /\ n < k.meta[at].owned
    BY DEF Rest
  <2>2. CASE b \in R
    <3>1. b = at + n /\ g.meta[b].owned = k.meta[at].owned - n /\ n < k.meta[at].owned
      BY <1>15, <2>1, <2>2
    <3>2. b + g.meta[b].owned = i + h.meta[i].owned /\ b + g.meta[b].owned # at + n
      BY <1>5, <1>8, <1>9, <3>1
    <3> QED
      BY <1>2, <2>1, <3>2
  <2>3. CASE b = i /\ b \notin R
    <3>1. b \in F \ {at}
      BY <2>3
    <3>2. skip # 0
      BY <1>19, <2>3, <3>1
    <3>3. g.meta[b].owned = skip
      BY <1>1, <1>14, <1>19, <2>3, <3>1, <3>2
    <3>4. b + g.meta[b].owned = at
      BY <2>3, <3>3 DEF at
    <3> QED
      BY <1>15, <3>4 DEF T
  <2>4. CASE b \in F \ {i, at}
    <3>1. g.meta[b].owned = h.meta[b].owned
      BY <1>1, <1>14, <1>17, <2>4
    <3>2. b + g.meta[b].owned \notin F
      BY <1>2, <2>4, <3>1
    <3>3. b + g.meta[b].owned \notin R
      <4>1. /\ b + h.meta[b].owned <= i \/ i + h.meta[i].owned <= b
            /\ b \in Nat /\ h.meta[b].owned \in Nat
        BY <1>1, <1>4, <2>4, Apart
      <4>2. n < k.meta[at].owned => b + h.meta[b].owned # at + n
        <5>1. n < k.meta[at].owned => i < at + n /\ at + n < i + h.meta[i].owned
          BY <1>5, <1>8, <1>9 DEF at
        <5> QED
          BY <1>5, <1>9, <4>1, <5>1
      <4> QED
        BY <2>1, <3>1, <4>2
    <3> QED
      BY <3>2, <3>3
  <2> QED
    BY <2>2, <2>3, <2>4
<1>22. ASSUME NEW b \in S2 \ F2 PROVE Alone(g, b)
  <2>1. CASE b = at
    BY <1>13, <2>1
  <2>2. CASE b # at
    <3>1. b \in S \ F
      BY <1>20, <2>2
    <3>2. k.meta[b].prev = h.meta[b].prev /\ k.meta[b].next = h.meta[b].next
      BY <1>7, <3>1 DEF Skipped
    <3>3. g.meta[b].prev = k.meta[b].prev /\ g.meta[b].next = k.meta[b].next
      BY <1>11, <2>2, <3>1 DEF Taken
    <3>4. Alone(h, b)
      BY <1>3, <3>1
    <3> QED
      BY <3>2, <3>3, <3>4 DEF Alone
  <2> QED
    BY <2>1, <2>2
<1>23. SoundHeap(g, S2, F2)
  BY <1>12, <1>18, <1>21, <1>22 DEF SoundHeap
<1>24. \A b \in S \ F : g.meta[b].owned = h.meta[b].owned
  BY <1>1, <1>14, <1>17, <1>19
<1>25. ASSUME NEW b \in Idx \ S2 PROVE g.meta[b] = h.meta[b]
  <2>1. g.meta[b] = k.meta[b]
    BY <1>11 DEF Taken
  <2>2. k.meta[b] = h.meta[b]
    BY <1>7 DEF Skipped, at
  <2> QED
    BY <2>1, <2>2
<1>26. Grown(g, h, S, F, at, n, S2, F2)
  BY <1>13, <1>19, <1>20, <1>23, <1>24, <1>25 DEF Grown
<1> QED
  BY <1>26 DEF g, k, at

(* Heap k is h with the run at i in the one at j, which is in no list and   *)
(* has no free run in front; T are the heads that are left, G the free ones *)
(* among them.                                                              *)
Joined(k, h, S, F, i, j, T, G) ==
  /\ k \in Heaps /\ Tiled(k.meta, T) /\ ListOf(k, G)
  /\ S \subseteq Idx /\ T \subseteq S /\ j \in T /\ j \notin G /\ Alone(k, j)
  /\ G = {b \in T \ {j} : ~k.meta[b].isUsed}
  /\ T \ (G \cup {j}) = (S \ F) \ {i}
  /\ \A b \in T \ {j} : k.meta[b].owned = h.meta[b].owned
  /\ \A b \in T \ (G \cup {j}) : Alone(k, b)
  /\ \A b \in Idx \ S : k.meta[b] = h.meta[b]
  /\ \A b \in S \ T : j < b /\ b < j + k.meta[j].owned
  /\ \A b \in G : b + k.meta[b].owned # j /\ b + k.meta[b].owned \notin G

(* The run that is given back is joined with the free one before it. *)
LEMMA JoinPrevious ==
  ASSUME NEW S, NEW F, SoundHeap(Heap, S, F), NEW i \in S \ F
  PROVE  \E T, G : Joined(MergePrevious(Heap, i), Heap, S, F, i, Previous(i), T, G)
<1> DEFINE h == Heap
           j == Previous(i)
           k == MergePrevious(h, i)
<1>1. /\ h \in Heaps /\ Tiled(h.meta, S) /\ F = {b \in S : ~h.meta[b].isUsed} /\ ListOf(h, F)
      /\ F \subseteq S /\ i \in S /\ i \notin F
  BY DEF SoundHeap
<1>2. \A b \in F : b + h.meta[b].owned \notin F
  BY DEF SoundHeap
<1>3. \A b \in S \ F : Alone(h, b)
  BY DEF SoundHeap
<1>4. h.meta = meta
  BY DEF Heap
<1>5. h.meta \in [Idx -> Metadata] /\ S \subseteq Idx /\ i \in Idx
  BY <1>1 DEF Heaps, Tiled
<1>6. i \in Nat /\ h.meta[i].before \in Nat
  BY <1>5, MetaTypes
<1>7. k = IF j = i THEN h
          ELSE UnlinkFreeNode(SetBlocksOwned(h, j, h.meta[j].owned + h.meta[i].owned), j)
  BY DEF MergePrevious
<1>8. j = IF h.meta[i].before # 0 /\ ~h.meta[i - h.meta[i].before].isUsed
          THEN i - h.meta[i].before ELSE i
  BY <1>4 DEF Previous
<1> HIDE DEF h, j, k
<1>9. CASE h.meta[i].before # 0 /\ ~h.meta[i - h.meta[i].before].isUsed
  <2>1. j = i - h.meta[i].before /\ i # 0
    BY <1>1, <1>8, <1>9 DEF Tiled
  <2>2. j \in S /\ h.meta[j].owned = h.meta[i].before
    BY <1>1, <2>1 DEF Tiled
  <2>3. j \in F
    BY <1>1, <1>9, <2>1, <2>2
  <2>4. j # i /\ i = j + h.meta[j].owned /\ j \in Nat
    BY <1>5, <1>6, <1>9, <2>1, <2>2, MetaTypes
  <2>5. k = UnlinkFreeNode(SetBlocksOwned(h, j, h.meta[j].owned + h.meta[i].owned), j)
    BY <1>7, <2>4
  <2>6. Merged(k, h, S, F, j, i, j)
    BY <1>1, <2>2, <2>3, <2>4, <2>5, MergeStep
  <2> DEFINE T == S \ {i}
             G == F \ {j}
  <2>7. /\ k \in Heaps /\ Tiled(k.meta, T) /\ ListOf(k, G) /\ Alone(k, j)
        /\ k.meta[j].owned = h.meta[j].owned + h.meta[i].owned
    BY <2>6 DEF Merged
  <2>8. T \subseteq S /\ j \in T /\ j \notin G /\ T \ (G \cup {j}) = (S \ F) \ {i}
    BY <1>1, <2>2, <2>3, <2>4
  <2>9. \A b \in S : k.meta[b].isUsed = h.meta[b].isUsed
    BY <2>6 DEF Merged
  <2>10. G = {b \in T \ {j} : ~k.meta[b].isUsed}
    BY <1>1, <2>9
  <2>11. \A b \in T \ {j} : k.meta[b].owned = h.meta[b].owned
    BY <2>6 DEF Merged
  <2>12. ASSUME NEW b \in T \ (G \cup {j}) PROVE Alone(k, b)
    <3>1. b \in S \ (F \cup {j}) /\ Alone(h, b)
      BY <1>3
    <3>2. k.meta[b].prev = h.meta[b].prev /\ k.meta[b].next = h.meta[b].next
      BY <2>6, <3>1 DEF Merged
    <3> QED
      BY <3>1, <3>2 DEF Alone
  <2>13. \A b \in Idx \ S : k.meta[b] = h.meta[b]
    BY <2>6 DEF Merged
  <2>14. \A b \in S \ T : j < b /\ b < j + k.meta[j].owned
    <3>1. /\ h.meta[j].owned \in Nat /\ h.meta[i].owned \in Nat
          /\ h.meta[j].owned > 0 /\ h.meta[i].owned > 0
      BY <1>1, <1>5, <2>2, <2>4, Apart
    <3>2. j < i /\ i < j + k.meta[j].owned
      BY <2>4, <2>7, <3>1
    <3> QED
      BY <3>2
  <2>15. ASSUME NEW b \in G PROVE b + k.meta[b].owned # j /\ b + k.meta[b].owned \notin G
    <3>1. k.meta[b].owned = h.meta[b].owned
      BY <1>1, <2>11
    <3> QED
      BY <1>2, <2>3, <3>1
  <2>16. Joined(k, h, S, F, i, j, T, G)
    BY <1>5, <2>7, <2>8, <2>10, <2>11, <2>12, <2>13, <2>14, <2>15 DEF Joined
  <2> QED
    BY <2>16 DEF h, j, k
<1>10. CASE ~(h.meta[i].before # 0 /\ ~h.meta[i - h.meta[i].before].isUsed)
  <2>1. j = i /\ k = h
    BY <1>7, <1>8, <1>10
  <2>2. h.meta[i].isUsed
    BY <1>1
  <2>3. F = {b \in S \ {i} : ~h.meta[b].isUsed}
    BY <1>1, <2>2
  <2>4. ASSUME NEW b \in F PROVE b + h.meta[b].owned # i
    <3>1. b \in S /\ ~h.meta[b].isUsed
      BY <1>1
    <3>2. h.meta[b].owned > 0 /\ h.meta[b].owned \in Nat /\ b \in Nat /\ i < Blocks
      BY <1>1, <1>5, <3>1, MetaTypes, Apart
    <3>3. ASSUME b + h.meta[b].owned = i PROVE FALSE
      <4>1. h.meta[i].before = h.meta[b].owned
        <5>1. b + h.meta[b].owned # Blocks => h.meta[b + h.meta[b].owned].before = h.meta[b].owned
          BY <1>1, <3>1 DEF Tiled
        <5>2. i # Blocks
          BY <1>5, Numbers
        <5> QED
          BY <3>3, <5>1, <5>2
      <4>2. i - h.meta[i].before = b
        BY <1>6, <3>2, <3>3, <4>1
      <4> QED
        BY <1>10, <3>1, <3>2, <4>1, <4>2
    <3> QED
      BY <3>3
  <2>5. Joined(h, h, S, F, i, i, S, F)
    BY <1>1, <1>2, <1>3, <1>5, <2>3, <2>4 DEF Joined
  <2>6. Joined(k, h, S, F, i, j, S, F)
    BY <2>1, <2>5
  <2> QED
    BY <2>6 DEF h, j, k
<1> QED
  BY <1>9, <1>10

(* and then with the free one behind it. *)
LEMMA JoinNext ==
  ASSUME NEW h, NEW S, NEW F, NEW i, NEW j, NEW k, NEW T, NEW G, Joined(k, h, S, F, i, j, T, G)
  PROVE  \E T2, G2 : /\ Joined(MergeNext(k, j), h, S, F, i, j, T2, G2)
                     /\ j + MergeNext(k, j).meta[j].owned \notin G2
<1>1. /\ k \in Heaps /\ Tiled(k.meta, T) /\ ListOf(k, G)
      /\ S \subseteq Idx /\ T \subseteq S /\ j \in T /\ j \notin G /\ Alone(k, j)
  BY DEF Joined
<1>2. G = {b \in T \ {j} : ~k.meta[b].isUsed} /\ T \ (G \cup {j}) = (S \ F) \ {i}
  BY DEF Joined
<1>3. /\ \A b \in T \ {j} : k.meta[b].owned = h.meta[b].owned
      /\ \A b \in Idx \ S : k.meta[b] = h.meta[b]
      /\ \A b \in G : b + k.meta[b].owned # j /\ b + k.meta[b].owned \notin G
  BY DEF Joined
<1>4. /\ \A b \in T \ (G \cup {j}) : Alone(k, b)
      /\ \A b \in S \ T : j < b /\ b < j + k.meta[j].owned
  BY DEF Joined
<1>5. k.meta \in [Idx -> Metadata] /\ T \subseteq Idx /\ j \in Idx
  BY <1>1 DEF Heaps, Tiled
<1>6. /\ j \in Nat /\ k.meta[j].owned \in Nat /\ k.meta[j].owned > 0
  BY <1>1, <1>5, MetaTypes DEF Tiled
<1> DEFINE l == j + k.meta[j].owned
           r == UnlinkFreeNode(SetBlocksOwned(k, j, k.meta[j].owned + k.meta[l].owned), l)
<1>7. MergeNext(k, j) = IF l < Blocks /\ ~k.meta[l].isUsed THEN r ELSE k
  BY DEF MergeNext
<1>8. l # Blocks => l \in T
  BY <1>1 DEF Tiled
<1>9. CASE l < Blocks /\ ~k.meta[l].isUsed
  <2>1. l \in T /\ l # j /\ l \in Nat
    BY <1>6, <1>8, <1>9, Numbers
  <2>2. l \in G /\ G \subseteq T
    BY <1>2, <1>9, <2>1
  <2>3. Merged(r, k, T, G, j, l, l)
    BY <1>1, <2>1, <2>2, MergeStep
  <2>4. MergeNext(k, j) = r
    BY <1>7, <1>9
  <2> HIDE DEF r
  <2> DEFINE T2 == T \ {l}
             G2 == G \ {l}
  <2>5. /\ r \in Heaps /\ Tiled(r.meta, T2) /\ ListOf(r, G2)
        /\ r.meta[j].owned = k.meta[j].owned + k.meta[l].owned
    BY <2>3 DEF Merged
  <2>6. \A b \in T \ {j, l} : r.meta[b].owned = k.meta[b].owned
    BY <2>3 DEF Merged
  <2>7. \A b \in T : r.meta[b].isUsed = k.meta[b].isUsed
    BY <2>3 DEF Merged
  <2>8. ASSUME NEW b \in T \ G PROVE Alone(r, b)
    <3>1. Alone(k, b)
      BY <1>1, <1>4
    <3>2. r.meta[b].prev = k.meta[b].prev /\ r.meta[b].next = k.meta[b].next
      BY <2>2, <2>3 DEF Merged
    <3> QED
      BY <3>1, <3>2 DEF Alone
  <2>9. T2 \subseteq S /\ j \in T2 /\ j \notin G2 /\ Alone(r, j)
    BY <1>1, <2>1, <2>8
  <2>10. G2 = {b \in T2 \ {j} : ~r.meta[b].isUsed}
    BY <1>2, <2>7
  <2>11. T2 \ (G2 \cup {j}) = (S \ F) \ {i}
    <3>1. T2 \ (G2 \cup {j}) = T \ (G \cup {j})
      BY <2>2
    <3> QED
      BY <1>2, <3>1
  <2>12. \A b \in T2 \ {j} : r.meta[b].owned = h.meta[b].owned
    BY <1>3, <2>6
  <2>13. \A b \in T2 \ (G2 \cup {j}) : Alone(r, b)
    BY <2>8
  <2>14. ASSUME NEW b \in Idx \ S PROVE r.meta[b] = h.meta[b]
    <3>1. b \in Idx \ T
      BY <1>1
    <3>2. r.meta[b] = k.meta[b]
      BY <2>3, <3>1 DEF Merged
    <3> QED
      BY <1>3, <3>2
  <2>15. /\ k.meta[l].owned \in Nat /\ k.meta[l].owned > 0
    BY <1>1, <1>5, <2>1, MetaTypes DEF Tiled
  <2>16. ASSUME NEW b \in S \ T2 PROVE j < b /\ b < j + r.meta[j].owned
    <3>1. CASE b = l
      BY <1>6, <2>5, <2>15, <3>1
    <3>2. CASE b # l
      <4>1. j < b /\ b < j + k.meta[j].owned
        BY <1>4, <3>2
      <4> QED
        <5>1. b \in Idx
          BY <1>1
        <5>2. b \in Nat
          BY <5>1, Numbers
        <5> QED
          BY <1>6, <2>5, <2>15, <4>1, <5>2
    <3> QED
      BY <3>1, <3>2
  <2>17. ASSUME NEW b \in G2 PROVE b + r.meta[b].owned # j /\ b + r.meta[b].owned \notin G2
    <3>1. r.meta[b].owned = k.meta[b].owned
      BY <1>1, <2>2, <2>6
    <3> QED
      BY <1>3, <3>1
  <2>18. Joined(r, h, S, F, i, j, T2, G2)
    BY <1>1, <2>5, <2>9, <2>10, <2>11, <2>12, <2>13, <2>14, <2>16, <2>17 DEF Joined
  <2>19. j + r.meta[j].owned \notin G2
    <3>1. j + r.meta[j].owned = l + k.meta[l].owned
      BY <1>6, <2>5, <2>15
    <3> QED
      BY <1>3, <2>2, <3>1
  <2> QED
    BY <2>4, <2>18, <2>19
<1>10. CASE ~(l < Blocks /\ ~k.meta[l].isUsed)
  <2>1. MergeNext(k, j) = k
    BY <1>7, <1>10
  <2>2. l \notin G
    <3>1. \A b \in Idx : b < Blocks
      BY Numbers
    <3> QED
      BY <1>2, <1>5, <1>10, <3>1
  <2> QED
    BY <2>1, <2>2
<1> QED
  BY <1>9, <1>10

(* Heap g has the run at i of h no longer in use; it is in the free run at  *)
(* j, with the free runs next to it.                                        *)
Shrunk(g, h, S, F, i, j, S2, F2) ==
  /\ SoundHeap(g, S2, F2) /\ S2 \subseteq S /\ j \in S2
  /\ S2 \ F2 = (S \ F) \ {i}
  /\ \A b \in S2 \ F2 : g.meta[b].owned = h.meta[b].owned
  /\ \A b \in Idx \ S : g.meta[b] = h.meta[b]
  /\ \A b \in S \ S2 : j < b /\ b < j + g.meta[j].owned

(* What deallocate() leaves of the heap. *)
Freed(i) ==
  LET j == Previous(i)
      merged == MergeNext(MergePrevious(Heap, i), j)
  IN PushFreeNode(UnlinkFreeNode([merged EXCEPT !.meta[j].isUsed = FALSE], j), j)

(* The merged run goes to the list, and the heap is as sound as before. *)
LEMMA DeallocateHeap ==
  ASSUME NEW S, NEW F, SoundHeap(Heap, S, F), NEW i \in S \ F
  PROVE  \E S2, F2 : Shrunk(Freed(i), Heap, S, F, i, Previous(i), S2, F2)
<1> DEFINE h == Heap
           j == Previous(i)
           k == MergePrevious(h, i)
           m == MergeNext(k, j)
           f == [m EXCEPT !.meta[j].isUsed = FALSE]
           u == UnlinkFreeNode(f, j)
           g == PushFreeNode(u, j)
<1>0. Freed(i) = g
  BY DEF Freed
<1>1. PICK T0, G0 : Joined(k, h, S, F, i, j, T0, G0)
  BY JoinPrevious
<1> HIDE DEF h, j, k
<1>2. PICK T, G : Joined(m, h, S, F, i, j, T, G) /\ j + m.meta[j].owned \notin G
  BY <1>1, JoinNext
<1> HIDE DEF m
<1>3. /\ m \in Heaps /\ Tiled(m.meta, T) /\ ListOf(m, G) /\ S \subseteq Idx
      /\ T \subseteq S /\ j \in T /\ j \notin G /\ Alone(m, j)
  BY <1>2 DEF Joined
<1>4. G = {b \in T \ {j} : ~m.meta[b].isUsed} /\ T \ (G \cup {j}) = (S \ F) \ {i}
  BY <1>2 DEF Joined
<1>5. /\ \A b \in T \ {j} : m.meta[b].owned = h.meta[b].owned
      /\ \A b \in Idx \ S : m.meta[b] = h.meta[b]
      /\ \A b \in G : b + m.meta[b].owned # j /\ b + m.meta[b].owned \notin G
  BY <1>2 DEF Joined
<1>6. /\ \A b \in T \ (G \cup {j}) : Alone(m, b)
      /\ \A b \in S \ T : j < b /\ b < j + m.meta[j].owned
  BY <1>2 DEF Joined
<1>7. j \in Idx /\ FALSE \in BOOLEAN /\ T \subseteq Idx
  BY <1>3
<1>8. Edited(f, m, j, "isUsed") /\ f.meta[j].isUsed = FALSE
  BY <1>3, <1>7, EditIsUsed, Zenon
<1> HIDE DEF f
<1>9. f \in Heaps /\ ListOf(f, G) /\ Alone(f, j)
  <2>1. f \in Heaps /\ f.first = m.first /\ f.last = m.last /\ \A b \in G : f.meta[b] = m.meta[b]
    BY <1>3, <1>4, <1>7, <1>8 DEF Edited
  <2>2. Alone(f, j)
    BY <1>3, <1>8 DEF Edited, Same, Alone
  <2> QED
    BY <1>3, <2>1, <2>2, ListKept
<1>10. Unlinked(u, f, G, j)
  BY <1>7, <1>9, UnlinkRun
<1> HIDE DEF u
<1>11. u \in Heaps /\ ListOf(u, G) /\ Alone(u, j)
  <2>1. G \ {j} = G
    BY <1>3
  <2> QED
    BY <1>10, <2>1 DEF Unlinked
<1>12. Pushed(g, u, G, j)
  BY <1>3, <1>7, <1>11, PushRun
<1> HIDE DEF g
<1>13. g \in Heaps /\ ListOf(g, G \cup {j})
  BY <1>12 DEF Pushed
<1>14. ASSUME NEW b \in Idx
       PROVE  /\ g.meta[b].owned = m.meta[b].owned /\ g.meta[b].before = m.meta[b].before
              /\ g.meta[b].isUsed = IF b = j THEN FALSE ELSE m.meta[b].isUsed
  <2>1. /\ g.meta[b].owned = u.meta[b].owned /\ g.meta[b].before = u.meta[b].before
        /\ g.meta[b].isUsed = u.meta[b].isUsed
    BY <1>12 DEF Pushed, SameRuns
  <2>2. /\ u.meta[b].owned = f.meta[b].owned /\ u.meta[b].before = f.meta[b].before
        /\ u.meta[b].isUsed = f.meta[b].isUsed
    BY <1>10 DEF Unlinked, SameRuns
  <2>3. /\ f.meta[b].owned = m.meta[b].owned /\ f.meta[b].before = m.meta[b].before
        /\ f.meta[b].isUsed = IF b = j THEN FALSE ELSE m.meta[b].isUsed
    BY <1>8 DEF Edited, Same
  <2> QED
    BY <2>1, <2>2, <2>3
<1>15. ASSUME NEW b \in Idx \ (G \cup {j}) PROVE g.meta[b] = m.meta[b]
  <2>1. g.meta[b] = u.meta[b]
    BY <1>12 DEF Pushed
  <2>2. u.meta[b] = f.meta[b]
    BY <1>10 DEF Unlinked
  <2>3. f.meta[b] = m.meta[b]
    BY <1>8 DEF Edited
  <2> QED
    BY <2>1, <2>2, <2>3
<1> DEFINE F2 == G \cup {j}
<1>16. Tiled(g.meta, T)
  <2> DEFINE m1 == m.meta
             m2 == g.meta
  <2>1. \A b \in T : m2[b].owned = m1[b].owned /\ m2[b].before = m1[b].before
    BY <1>7, <1>14
  <2>2. Tiled(m1, T)
    BY <1>3
  <2> HIDE DEF m1, m2
  <2>3. Tiled(m2, T)
    BY <2>1, <2>2, TiledKept
  <2> QED
    BY <2>3 DEF m2
<1>17. F2 = {b \in T : ~g.meta[b].isUsed}
  BY <1>3, <1>4, <1>7, <1>14
<1>18. ASSUME NEW b \in F2 PROVE b + g.meta[b].owned \notin F2
  <2>1. b \in Idx /\ g.meta[b].owned = m.meta[b].owned
    BY <1>4, <1>7, <1>14
  <2>2. CASE b = j
    <3>1. j + m.meta[j].owned # j
      <4>1. m.meta[j].owned > 0 /\ m.meta[j].owned \in Nat /\ j \in Nat
        <5>1. m.meta \in [Idx -> Metadata]
          BY <1>3 DEF Heaps
        <5>2. m.meta[j].owned > 0
          BY <1>3 DEF Tiled
        <5> QED
          BY <1>7, <5>1, <5>2, MetaTypes
      <4> QED
        BY <4>1
    <3> QED
      BY <1>2, <2>1, <2>2, <3>1
  <2>3. CASE b \in G
    BY <1>5, <2>1, <2>3
  <2> QED
    BY <2>2, <2>3
<1>19. ASSUME NEW b \in T \ F2 PROVE Alone(g, b)
  <2>1. Alone(m, b) /\ g.meta[b] = m.meta[b]
    BY <1>6, <1>7, <1>15
  <2> QED
    BY <2>1 DEF Alone
<1>20. SoundHeap(g, T, F2)
  BY <1>13, <1>16, <1>17, <1>18, <1>19 DEF SoundHeap
<1>21. \A b \in T \ F2 : g.meta[b].owned = h.meta[b].owned
  BY <1>5, <1>7, <1>14
<1>22. \A b \in Idx \ S : g.meta[b] = h.meta[b]
  BY <1>3, <1>4, <1>5, <1>15
<1>23. \A b \in S \ T : j < b /\ b < j + g.meta[j].owned
  BY <1>6, <1>7, <1>14
<1>24. Shrunk(g, h, S, F, i, j, T, F2)
  BY <1>3, <1>4, <1>20, <1>21, <1>22, <1>23 DEF Shrunk
<1> QED
  BY <1>0, <1>24 DEF h, j

(* What the callers write inside their runs, and the bytes of blocks that   *)
(* are no heads any more, do not touch the heap.                            *)
LEMMA Overlay ==
  ASSUME NEW g, NEW S, NEW F, SoundHeap(g, S, F), NEW O, O \cap S = {},
         \A b \in Idx \ S : b \in O \/ g.meta[b] = Foreign,
         NEW m, m = [b \in Idx |-> IF b \in O THEN Foreign ELSE g.meta[b]]
  PROVE  /\ SoundHeap([meta |-> m, first |-> g.first, last |-> g.last], S, F)
         /\ {b \in Idx : m[b] # Foreign} = S
         /\ \A b \in S : m[b] = g.meta[b]
<1>1. /\ g \in Heaps /\ Tiled(g.meta, S) /\ F = {b \in S : ~g.meta[b].isUsed} /\ ListOf(g, F)
      /\ F \subseteq S
  BY DEF SoundHeap
<1>2. S \subseteq Idx /\ g.meta \in [Idx -> Metadata]
  BY <1>1 DEF Heaps, Tiled
<1>3. \A b \in S : m[b] = g.meta[b]
  BY <1>2
<1>4. Foreign \in Metadata
  BY Numbers DEF Foreign, Metadata
<1>5. m \in [Idx -> Metadata]
  BY <1>2, <1>4
<1>6. ASSUME NEW b \in S PROVE g.meta[b] # Foreign
  <2>1. /\ g.meta[b].owned \in Nat /\ b \in Nat /\ b + g.meta[b].owned <= Blocks
    BY <1>1, <1>2, MetaTypes DEF Tiled
  <2>2. g.meta[0].before = 0
    BY <1>1 DEF Tiled
  <2>3. Foreign.owned = Blocks /\ Foreign.before = Blocks
    BY DEF Foreign
  <2>4. g.meta[b].owned = Blocks => b = 0
    BY <2>1, Numbers
  <2> QED
    BY <2>2, <2>3, <2>4, Numbers
<1>7. {b \in Idx : m[b] # Foreign} = S
  BY <1>2, <1>3, <1>6
<1> DEFINE k == [meta |-> m, first |-> g.first, last |-> g.last]
<1>8. k \in Heaps /\ k.meta = m /\ k.first = g.first /\ k.last = g.last
  BY <1>1, <1>5 DEF Heaps
<1> HIDE DEF k
<1>9. Tiled(k.meta, S)
  <2>1. \A b \in S : m[b].owned = g.meta[b].owned /\ m[b].before = g.meta[b].before
    BY <1>3
  <2>2. Tiled(m, S)
    BY <1>1, <2>1, TiledKept, Zenon
  <2> QED
    BY <1>8, <2>2
<1>10. ListOf(k, F)
  BY <1>1, <1>3, <1>8, ListKept
<1>11. F = {b \in S : ~k.meta[b].isUsed}
  BY <1>1, <1>3, <1>8
<1>12. \A b \in F : b + k.meta[b].owned \notin F
  BY <1>1, <1>3, <1>8 DEF SoundHeap
<1>13. \A b \in S \ F : Alone(k, b)
  BY <1>3, <1>8 DEF SoundHeap, Alone
<1>14. SoundHeap(k, S, F)
  BY <1>8, <1>9, <1>10, <1>11, <1>12, <1>13 DEF SoundHeap
<1> QED
  BY <1>3, <1>7, <1>14 DEF k

-----------------------------------------------------------------------------
(* Numbers of blocks.                                                       *)

(* align_right_diff(): the memory behind the metadata is aligned. *)
LEMMA Aligned ==
  ASSUME NEW i \in Idx, NEW a \in Alignments
  PROVE  /\ AlignSkip(i, a) \in Nat /\ AlignSkip(i, a) < a /\ a <= Blocks
         /\ (Base + (i + AlignSkip(i, a) + 1)) % a = 0
<1>1. i \in Nat /\ a \in Nat /\ a > 0 /\ a <= Blocks /\ Base \in Nat
  BY Numbers
<1> DEFINE x == Base + i + 1
           q == x % a
           d == x \div a
<1>2. x \in Nat /\ AlignSkip(i, a) = (a - q) % a
  BY <1>1 DEF AlignSkip
<1> HIDE DEF x
<1>3. q \in Nat /\ q < a /\ d \in Nat /\ x = a * d + q
  BY <1>1, <1>2
<1>4. CASE q = 0
  <2>1. (a - q) % a = 0
    BY <1>1, <1>4
  <2>2. Base + (i + 0 + 1) = x
    BY <1>1 DEF x
  <2> QED
    BY <1>1, <1>2, <1>4, <2>1, <2>2
<1>5. CASE q # 0
  <2> HIDE DEF q, d
  <2>1. (a - q) % a = a - q
    BY <1>1, <1>3, <1>5
  <2>2. Base + (i + (a - q) + 1) = a * d + a
    BY <1>1, <1>3 DEF x
  <2>3. a * d + a = a * (d + 1)
    BY <1>1, <1>3
  <2>4. (a * (d + 1)) % a = 0
    BY <1>1, <1>3
  <2> QED
    BY <1>1, <1>2, <1>3, <1>5, <2>1, <2>2, <2>3, <2>4
<1> QED
  BY <1>4, <1>5

(* The size computation does not wrap for a payload that a buffer may hold. *)
LEMMA Needed ==
  ASSUME NoWrap, NEW i \in Idx, NEW p \in Payloads, NEW a \in Alignments
  PROVE  BlocksNeeded(i, p, a) = 1 + p + AlignSkip(i, a)
<1>1. p \in Nat /\ p <= Blocks
  BY Numbers DEF NoWrap
<1>2. AlignSkip(i, a) \in Nat /\ AlignSkip(i, a) < Blocks
  <2>1. AlignSkip(i, a) \in Nat /\ AlignSkip(i, a) < a /\ a <= Blocks
    BY Aligned
  <2>2. a \in Nat
    BY Numbers
  <2> DEFINE y == AlignSkip(i, a)
  <2> HIDE DEF y
  <2>3. y \in Nat /\ y < a /\ a <= Blocks => y < Blocks
    BY <2>2, Numbers
  <2> QED
    BY <2>1, <2>3 DEF y
<1>3. 1 + p + AlignSkip(i, a) \in Nat /\ 1 + p + AlignSkip(i, a) < SizeT
  BY <1>1, <1>2, Numbers
<1> DEFINE x == 1 + p + AlignSkip(i, a)
<1> HIDE DEF x
<1>4. x \in Nat /\ x < SizeT /\ SizeT \in Nat => x % SizeT = x
  OBVIOUS
<1> QED
  BY <1>3, <1>4, Numbers DEF BlocksNeeded, x

(* The blocks of the runs in U. *)
Span(m, U) == UNION {b .. b + m[b].owned - 1 : b \in U}

(* They are blocks of the buffer, and one run more is that many more. *)
LEMMA AddRun ==
  ASSUME NEW m \in [Idx -> Metadata], NEW S, Tiled(m, S), NEW U, U \subseteq S, NEW c \in S, c \notin U
  PROVE  /\ Cardinality(Span(m, U \cup {c})) = Cardinality(Span(m, U)) + m[c].owned
         /\ Cardinality(Span(m, U)) \in Nat
<1>1. \A b \in S : b \in Nat /\ m[b].owned \in Nat /\ m[b].owned > 0 /\ b + m[b].owned <= Blocks
  <2>1. S \subseteq Idx
    BY DEF Tiled
  <2> QED
    BY <2>1, MetaTypes DEF Tiled
<1> DEFINE R == c .. c + m[c].owned - 1
<1>2. Span(m, U) \subseteq Idx
  BY <1>1, Numbers DEF Span
<1>3. IsFiniteSet(Idx)
  BY FS_Interval, Numbers
<1>4. IsFiniteSet(Span(m, U)) /\ Cardinality(Span(m, U)) \in Nat
  BY <1>2, <1>3, FS_Subset, FS_CardinalityType
<1>5. IsFiniteSet(R) /\ Cardinality(R) = m[c].owned
  <2>1. c \in Int /\ c + m[c].owned - 1 \in Int /\ ~(c > c + m[c].owned - 1)
        /\ (c + m[c].owned - 1) - c + 1 = m[c].owned
    BY <1>1
  <2> QED
    BY <2>1, FS_Interval
<1>6. Span(m, U \cup {c}) = Span(m, U) \cup R
  BY DEF Span
<1>7. Span(m, U) \cap R = {}
  <2> SUFFICES ASSUME NEW b \in U, NEW x \in b .. b + m[b].owned - 1, x \in R PROVE FALSE
    BY DEF Span
  <2>1. b + m[b].owned <= c \/ c + m[c].owned <= b
    BY Apart
  <2>2. b \in Nat /\ m[b].owned \in Nat /\ c \in Nat /\ m[c].owned \in Nat
    BY <1>1
  <2> QED
    BY <2>1, <2>2
<1>8. Cardinality(Span(m, U) \cap R) = 0
  BY <1>7, FS_EmptySet
<1> HIDE DEF R
<1>9. m[c].owned \in Nat
  BY <1>1
<1>10. Cardinality(Span(m, U) \cup R)
         = Cardinality(Span(m, U)) + Cardinality(R) - Cardinality(Span(m, U) \cap R)
  BY <1>4, <1>5, FS_Union
<1>11. Cardinality(Span(m, U \cup {c})) = Cardinality(Span(m, U) \cup R)
  BY <1>6, Zenon
<1> DEFINE x == Cardinality(Span(m, U))
           y == Cardinality(Span(m, U) \cup R)
<1>12. x \in Nat /\ y = x + m[c].owned - 0
  BY <1>4, <1>5, <1>8, <1>10
<1> HIDE DEF x, y
<1>13. y = x + m[c].owned
  BY <1>9, <1>12
<1> QED
  BY <1>11, <1>12, <1>13, Zenon DEF x, y

(* Some runs never have more blocks than the buffer. *)
LEMMA SpanBound ==
  ASSUME NEW m \in [Idx -> Metadata], NEW S, Tiled(m, S), NEW U, U \subseteq S
  PROVE  Cardinality(Span(m, U)) \in 0 .. Blocks
<1>1. \A b \in S : b \in Nat /\ m[b].owned \in Nat /\ b + m[b].owned <= Blocks
  <2>1. S \subseteq Idx
    BY DEF Tiled
  <2> QED
    BY <2>1, MetaTypes DEF Tiled
<1>2. Span(m, U) \subseteq Idx
  BY <1>1, Numbers DEF Span
<1>3. IsFiniteSet(Idx) /\ Cardinality(Idx) = Blocks
  BY FS_Interval, Numbers
<1>4. Cardinality(Span(m, U)) \in Nat /\ Cardinality(Span(m, U)) <= Cardinality(Idx)
  BY <1>2, <1>3, FS_Subset, FS_CardinalityType
<1> QED
  BY <1>3, <1>4, Numbers

(* Only the lengths matter. *)
LEMMA SameSpan ==
  ASSUME NEW m, NEW m2, NEW U, \A b \in U : m2[b].owned = m[b].owned
  PROVE  Span(m2, U) = Span(m, U)
BY DEF Span

-----------------------------------------------------------------------------
(* Walking the free list.                                                   *)

(* FreeNode is what its recursive definition says. *)
LEMMA FreeNodeDef ==
  ASSUME NEW s, Linked(Heap, s)
  PROVE  \A n \in Nat : FreeNode[n] = IF n < Len(s) THEN s[n + 1] ELSE Invalid
<1> DEFINE W(f) == [n \in Nat |-> IF n = 0 THEN first
                                  ELSE LET i == f[n - 1]
                                       IN IF i = Invalid THEN Invalid ELSE meta[i].next]
           w == [n \in Nat |-> IF n < Len(s) THEN s[n + 1] ELSE Invalid]
<1>1. s \in Seq(Idx) /\ Len(s) \in Nat /\ \A k \in 1 .. Len(s) : s[k] \in Idx /\ s[k] # Invalid
  BY LinkedIndexes, Numbers
<1>2. first = IF s = <<>> THEN Invalid ELSE s[1]
  BY DEF Linked, Heap
<1>3. \A k \in 1 .. Len(s) : meta[s[k]].next = IF k = Len(s) THEN Invalid ELSE s[k + 1]
  BY DEF Linked, Heap
<1>4. ASSUME NEW n \in Nat
      PROVE  w[n] = IF n = 0 THEN first
                    ELSE IF w[n - 1] = Invalid THEN Invalid ELSE meta[w[n - 1]].next
  <2>1. CASE n = 0
    <3>1. s = <<>> <=> ~(0 < Len(s))
      BY <1>1
    <3> QED
      BY <1>2, <2>1, <3>1
  <2>2. CASE n # 0 /\ n - 1 < Len(s)
    <3>1. n \in 1 .. Len(s) /\ n - 1 \in Nat /\ (n - 1) + 1 = n /\ (n = Len(s) <=> ~(n < Len(s)))
      BY <1>1, <2>2
    <3>2. w[n - 1] = s[n] /\ s[n] # Invalid
      BY <1>1, <2>2, <3>1
    <3> QED
      BY <1>3, <2>2, <3>1, <3>2
  <2>3. CASE n # 0 /\ ~(n - 1 < Len(s))
    <3>1. n - 1 \in Nat /\ ~(n < Len(s))
      BY <1>1, <2>3
    <3> QED
      BY <2>3, <3>1
  <2> QED
    BY <2>1, <2>2, <2>3
<1>5. w = W(w)
  <2> HIDE DEF w
  <2>1. w = [n \in Nat |-> w[n]]
    BY DEF w
  <2> QED
    BY <1>4, <2>1
<1>6. FreeNode = CHOOSE f : f = W(f)
  BY DEF FreeNode
<1>7. FreeNode = W(FreeNode)
  <2> HIDE DEF W
  <2> QED
    BY <1>5, <1>6
<1> DEFINE D == {n \in Nat : FreeNode[n] = w[n]}
<1>8. 0 \in D
  BY <1>4, <1>7
<1>9. ASSUME NEW n \in Nat, n \in D PROVE n + 1 \in D
  <2>1. n + 1 \in Nat /\ n + 1 # 0 /\ (n + 1) - 1 = n
    OBVIOUS
  <2> HIDE DEF w
  <2> QED
    BY <1>4, <1>7, <1>9, <2>1
<1>10. Nat \subseteq D
  <2> HIDE DEF D
  <2> QED
    BY <1>8, <1>9, NatSetInduction
<1> QED
  BY <1>10

-----------------------------------------------------------------------------
(* The inductive invariant.                                                 *)

(* U are the runs in use; each is as long as its caller asked for. *)
Accounts(m, U, u, pk, ch) ==
  /\ u = Cardinality(Span(m, U)) /\ pk \in u .. Blocks
  /\ DOMAIN ch = {b + 1 : b \in U}
  /\ \A b \in U : ch[b + 1].payload \in Nat /\ m[b].owned = 1 + ch[b + 1].payload

(* Heads and lists are in order, a run in use is linked nowhere, and the    *)
(* counters and the callers agree with the runs.                            *)
IInv ==
  /\ SoundHeap(Heap, Heads, FreeHeads)
  /\ Accounts(meta, Heads \ FreeHeads, used, peak, chunks)

(* The parts of SoundHeap that most proofs start from. *)
LEMMA SoundTypes ==
  ASSUME NEW h, NEW S, NEW F, SoundHeap(h, S, F)
  PROVE  /\ h \in Heaps /\ h.meta \in [Idx -> Metadata] /\ Tiled(h.meta, S) /\ S \subseteq Idx
         /\ F \subseteq S /\ ListOf(h, F) /\ F = {b \in S : ~h.meta[b].isUsed}
BY DEF SoundHeap, Heaps, Tiled

(* The constructor makes the whole buffer one free run. *)
LEMMA InitIInv == Init => IInv
<1> SUFFICES ASSUME Init PROVE IInv
  OBVIOUS
<1> DEFINE r == [before |-> 0, isUsed |-> FALSE, owned |-> Blocks, prev |-> Invalid, next |-> Invalid]
<1>1. meta = [i \in Idx |-> IF i = 0 THEN r ELSE Foreign] /\ meta[0] = r
  BY Numbers DEF Init
<1>2. first = 0 /\ last = 0 /\ used = 0 /\ peak = 0 /\ chunks = [p \in {} |-> 0]
  BY DEF Init
<1>3. r \in Metadata /\ Foreign \in Metadata /\ r # Foreign
  BY Numbers DEF Metadata, Foreign
<1>4. r.before = 0 /\ r.isUsed = FALSE /\ r.owned = Blocks /\ r.prev = Invalid /\ r.next = Invalid
  OBVIOUS
<1> HIDE DEF r
<1>5. Heads = {0} /\ FreeHeads = {0}
  BY <1>1, <1>3, <1>4, Numbers DEF Heads, FreeHeads
<1>6. Heap \in Heaps /\ Heap.meta = meta /\ Heap.first = 0 /\ Heap.last = 0
  BY <1>1, <1>2, <1>3, Numbers DEF Heaps, Heap
<1>7. Tiled(meta, {0})
  BY <1>1, <1>4, Numbers DEF Tiled
<1>8. ListOf(Heap, {0})
  <2> DEFINE t == <<0>>
  <2>1. t \in Seq(Idx) /\ Len(t) = 1 /\ t[1] = 0 /\ t # <<>>
    BY Numbers
  <2>2. IsInjective(t) /\ ToSet(t) = {0}
    BY <2>1 DEF IsInjective, ToSet
  <2> HIDE DEF t
  <2>3. Linked(Heap, t)
    BY <1>1, <1>4, <1>6, <2>1, <2>2 DEF Linked
  <2> QED
    BY <2>2, <2>3 DEF ListOf
<1>9. SoundHeap(Heap, {0}, {0})
  <2>1. 0 + meta[0].owned \notin {0}
    BY <1>1, <1>4, Numbers
  <2> QED
    BY <1>1, <1>4, <1>6, <1>7, <1>8, <2>1 DEF SoundHeap
<1>10. Accounts(meta, {}, used, peak, chunks)
  <2>1. Span(meta, {}) = {}
    BY DEF Span
  <2>2. Cardinality(Span(meta, {})) = 0
    BY <2>1, FS_EmptySet
  <2> QED
    BY <1>2, <2>2, Numbers DEF Accounts
<1>11. Heads \ FreeHeads = {}
  BY <1>5
<1> QED
  BY <1>5, <1>9, <1>10, <1>11 DEF IInv

(* allocate() *)
LEMMA AllocateIInv ==
  ASSUME NoWrap, IInv, NEW p \in Payloads, NEW a \in Alignments, Allocate(p, a)
  PROVE  IInv' /\ Contract!Next
<1>1. PICK n \in Idx : FirstFit(n, p, a) /\ AllocateAt(FreeNode[n], p, a)
  BY DEF Allocate
<1> DEFINE i == FreeNode[n]
           S == Heads
           F == FreeHeads
           U == S \ F
           skip == AlignSkip(i, a)
           at == i + skip
           h == TakeRun(SkipForAlignment(Heap, i, skip), at, p + 1)
<1>2. SoundHeap(Heap, S, F) /\ Accounts(meta, U, used, peak, chunks)
  BY DEF IInv
<1>3. Heap.meta = meta /\ meta \in [Idx -> Metadata] /\ S \subseteq Idx /\ F \subseteq S
      /\ Tiled(meta, S) /\ ListOf(Heap, F)
  <2>1. Heap.meta = meta
    BY DEF Heap
  <2> QED
    BY <1>2, <2>1, SoundTypes
<1>4. i \in F
  <2>1. PICK s : Linked(Heap, s) /\ ToSet(s) = F
    BY <1>3 DEF ListOf
  <2>2. n \in Nat
    BY Numbers
  <2>3. i = IF n < Len(s) THEN s[n + 1] ELSE Invalid
    BY <2>1, <2>2, FreeNodeDef
  <2>4. n < Len(s) /\ Len(s) \in Nat /\ i = s[n + 1]
    <3>1. i # Invalid
      BY <1>1 DEF FirstFit
    <3> QED
      BY <2>1, <2>3, <3>1, LinkedIndexes
  <2>5. n + 1 \in 1 .. Len(s)
    BY <2>2, <2>4
  <2> QED
    BY <2>1, <2>4, <2>5, LinkedIndexes
<1>5. i \in Idx /\ i \in Nat /\ meta[i].owned \in Nat
  BY <1>3, <1>4, MetaTypes
<1>6. p \in Nat /\ skip \in Nat /\ BlocksNeeded(i, p, a) = 1 + p + skip
  <2>1. p \in Nat
    BY Numbers DEF NoWrap
  <2>2. skip \in Nat
    BY <1>5, Aligned
  <2>3. BlocksNeeded(i, p, a) = 1 + p + skip
    BY <1>5, Needed
  <2> QED
    BY <2>1, <2>2, <2>3
<1>7. skip + (p + 1) <= meta[i].owned /\ BlocksNeeded(i, p, a) - skip = p + 1
  <2>1. meta[i].owned >= BlocksNeeded(i, p, a)
    BY <1>1 DEF FirstFit, Fits
  <2> QED
    BY <1>5, <1>6, <2>1
<1>8. /\ meta' = [b \in Idx |-> IF b \in at + 1 .. at + p THEN Foreign ELSE h.meta[b]]
      /\ first' = h.first /\ last' = h.last /\ used' = used + (p + 1)
      /\ peak' = IF used' > peak THEN used' ELSE peak
      /\ chunks' = [q \in DOMAIN chunks \cup {at + 1} |->
                      IF q = at + 1 THEN [payload |-> p, alignment |-> a] ELSE chunks[q]]
  BY <1>1, <1>7 DEF AllocateAt, Used
<1>9. /\ skip < a /\ a <= Blocks /\ (Base + (i + skip + 1)) % a = 0
  BY <1>5, Aligned
<1> HIDE DEF i, skip
<1>10. \E S2, F2 : Grown(h, Heap, S, F, at, p + 1, S2, F2)
  <2>1. p + 1 \in Nat /\ p + 1 > 0
    BY <1>6
  <2> QED
    BY <1>2, <1>3, <1>4, <1>6, <1>7, <2>1, AllocateHeap
<1> HIDE DEF h, at, S, F
<1>11. PICK S2, F2 : Grown(h, Heap, S, F, at, p + 1, S2, F2)
  BY <1>10
<1>12. /\ SoundHeap(h, S2, F2) /\ S \subseteq S2 /\ at \notin U /\ at \in S2
       /\ S2 \ F2 = U \cup {at} /\ h.meta[at].owned = p + 1
       /\ \A b \in U : h.meta[b].owned = meta[b].owned
       /\ \A b \in Idx \ S2 : h.meta[b] = meta[b]
  BY <1>3, <1>11 DEF Grown
<1>13. h \in Heaps /\ h.meta \in [Idx -> Metadata] /\ Tiled(h.meta, S2) /\ S2 \subseteq Idx
  BY <1>12, SoundTypes
<1>14. at \in Nat
  BY <1>12, <1>13, Numbers
<1> DEFINE O == at + 1 .. at + p
<1>15. O \cap S2 = {}
  <2> SUFFICES ASSUME NEW b \in S2, b \in O PROVE FALSE
    OBVIOUS
  <2>1. b <= at \/ at + h.meta[at].owned <= b
    BY <1>12, <1>13 DEF Tiled
  <2> QED
    BY <1>6, <1>12, <1>14, <2>1
<1>16. \A b \in Idx \ S2 : b \in O \/ h.meta[b] = Foreign
  <2>1. \A b \in Idx \ S : meta[b] = Foreign
    BY DEF Heads, S
  <2> QED
    BY <1>12, <2>1
<1>17. meta' = [b \in Idx |-> IF b \in O THEN Foreign ELSE h.meta[b]]
  BY <1>8
<1> HIDE DEF O
<1>18. /\ SoundHeap([meta |-> meta', first |-> h.first, last |-> h.last], S2, F2)
       /\ {b \in Idx : meta'[b] # Foreign} = S2
       /\ \A b \in S2 : meta'[b] = h.meta[b]
  BY <1>12, <1>15, <1>16, <1>17, Overlay
<1>19. Heap' = [meta |-> meta', first |-> h.first, last |-> h.last]
  BY <1>8 DEF Heap
<1>20. SoundHeap(Heap', S2, F2) /\ Heap'.meta = meta'
  BY <1>18, <1>19
<1>21. meta' \in [Idx -> Metadata] /\ Tiled(meta', S2) /\ F2 = {b \in S2 : ~meta'[b].isUsed}
  BY <1>20, SoundTypes
<1>22. Heads' = S2 /\ FreeHeads' = F2
  BY <1>18, <1>21 DEF Heads, FreeHeads
<1>23. used' = Cardinality(Span(meta', U \cup {at})) /\ used' \in 0 .. Blocks
  <2>1. U \subseteq S2
    BY <1>12
  <2>2. \A b \in U : meta'[b].owned = meta[b].owned
    BY <1>12, <1>18, <2>1
  <2>3. Span(meta', U) = Span(meta, U)
    BY <2>2, SameSpan, Zenon
  <2>4. Cardinality(Span(meta', U \cup {at})) = Cardinality(Span(meta', U)) + meta'[at].owned
    <3> DEFINE m == meta'
    <3>1. m \in [Idx -> Metadata] /\ Tiled(m, S2) /\ at \in S2 /\ at \notin U
      BY <1>12, <1>21
    <3> HIDE DEF m, U
    <3>2. Cardinality(Span(m, U \cup {at})) = Cardinality(Span(m, U)) + m[at].owned
      BY <2>1, <3>1, AddRun
    <3> QED
      BY <3>2 DEF m
  <2>5. meta'[at].owned = p + 1
    BY <1>12, <1>18
  <2>6. used = Cardinality(Span(meta, U))
    BY <1>2 DEF Accounts
  <2>7. U \cup {at} \subseteq S2
    BY <1>12
  <2>8. Cardinality(Span(meta', U \cup {at})) \in 0 .. Blocks
    BY <1>21, <2>7, SpanBound
  <2>9. used' = Cardinality(Span(meta', U \cup {at}))
    BY <1>8, <2>3, <2>4, <2>5, <2>6
  <2> QED
    BY <2>8, <2>9
<1>24. peak' \in used' .. Blocks
  <2>1. peak \in used .. Blocks /\ used \in Nat
    <3>1. peak \in used .. Blocks /\ used = Cardinality(Span(meta, U))
      BY <1>2 DEF Accounts
    <3>2. Cardinality(Span(meta, U)) \in 0 .. Blocks
      BY <1>3, SpanBound DEF S
    <3> QED
      BY <3>1, <3>2, Numbers
  <2> QED
    BY <1>6, <1>8, <1>23, <2>1, Numbers
<1>25. DOMAIN chunks = {b + 1 : b \in U} /\ \A b \in U : /\ chunks[b + 1].payload \in Nat
                                                         /\ meta[b].owned = 1 + chunks[b + 1].payload
  BY <1>2 DEF Accounts
<1>26. DOMAIN chunks' = {b + 1 : b \in U \cup {at}}
  BY <1>8, <1>25
<1>27. ASSUME NEW b \in U \cup {at}
       PROVE  chunks'[b + 1].payload \in Nat /\ meta'[b].owned = 1 + chunks'[b + 1].payload
  <2>1. b \in S2 /\ meta'[b].owned = h.meta[b].owned
    BY <1>12, <1>18
  <2>2. CASE b = at
    <3>1. chunks'[b + 1].payload = p
      BY <1>8, <2>2
    <3> QED
      BY <1>6, <1>12, <2>1, <2>2, <3>1
  <2>3. CASE b \in U
    <3>1. b + 1 # at + 1
      <4>1. b # at /\ b \in Nat
        BY <1>12, <1>13, <2>1, <2>3, Numbers
      <4> QED
        BY <1>14, <4>1
    <3>2. chunks'[b + 1] = chunks[b + 1]
      BY <1>8, <1>25, <2>3, <3>1
    <3> QED
      BY <1>12, <1>25, <2>1, <2>3, <3>2
  <2> QED
    BY <2>2, <2>3
<1>28. Accounts(meta', U \cup {at}, used', peak', chunks')
  BY <1>23, <1>24, <1>26, <1>27 DEF Accounts
<1>29. IInv'
  <2>1. SoundHeap(Heap', Heads', FreeHeads')
    BY <1>20, <1>22
  <2>2. Heads' \ FreeHeads' = U \cup {at}
    BY <1>12, <1>22
  <2>3. Accounts(meta', Heads' \ FreeHeads', used', peak', chunks')
    BY <1>28, <2>2
  <2> QED
    BY <2>1, <2>3 DEF IInv
<1>30. Contract!Allocate(at + 1, p, a)
  <2>1. Contract!Extent(at + 1, p) = at .. at + p
    BY <1>6, <1>14 DEF Contract!Extent
  <2>2. at + p < Blocks
    <3>1. at + h.meta[at].owned <= Blocks
      BY <1>12, <1>13 DEF Tiled
    <3> QED
      BY <1>6, <1>12, <1>14, <3>1, Numbers
  <2>3. Contract!Extent(at + 1, p) \subseteq 0 .. Blocks - 1
    BY <1>6, <1>14, <2>1, <2>2, Numbers
  <2>4. (Base + (at + 1)) % a = 0
    BY <1>9 DEF at
  <2>5. ASSUME NEW q \in DOMAIN chunks
        PROVE  Contract!Extent(at + 1, p) \cap Contract!Extent(q, chunks[q].payload) = {}
    <3>1. PICK b \in U : q = b + 1
      BY <1>25
    <3>2. b \in S2 /\ b # at
      BY <1>12
    <3>3. /\ b + h.meta[b].owned <= at \/ at + h.meta[at].owned <= b
          /\ b \in Nat
      BY <1>12, <1>13, <3>2, Apart
    <3>4. chunks[q].payload \in Nat /\ h.meta[b].owned = 1 + chunks[q].payload
      BY <1>12, <1>25, <3>1
    <3>5. Contract!Extent(q, chunks[q].payload) = b .. b + chunks[q].payload
      BY <3>1, <3>3, <3>4 DEF Contract!Extent
    <3>6. b + (1 + chunks[q].payload) <= at \/ at + (p + 1) <= b
      BY <1>12, <3>3, <3>4
    <3> QED
      BY <1>6, <1>14, <2>1, <3>3, <3>4, <3>5, <3>6
  <2> QED
    BY <1>8, <2>3, <2>4, <2>5 DEF Contract!Allocate
<1>31. Contract!Next
  <2>1. at + 1 \in 1 .. Blocks
    BY <1>12, <1>13, <1>14, Numbers
  <2> QED
    BY <1>30, <2>1 DEF Contract!Next
<1> QED
  BY <1>29, <1>31

(* deallocate() *)
LEMMA DeallocateIInv ==
  ASSUME IInv, NEW ptr \in DOMAIN chunks, Deallocate(ptr)
  PROVE  IInv' /\ Contract!Next
<1> DEFINE i == ptr - 1
           j == Previous(i)
           h == Freed(i)
           S == Heads
           F == FreeHeads
           U == S \ F
           O == j + 1 .. j + h.meta[j].owned - 1
<1>1. SoundHeap(Heap, S, F) /\ Accounts(meta, U, used, peak, chunks)
  BY DEF IInv
<1>2. Heap.meta = meta /\ meta \in [Idx -> Metadata] /\ S \subseteq Idx /\ F \subseteq S /\ Tiled(meta, S)
  <2>1. Heap.meta = meta
    BY DEF Heap
  <2> QED
    BY <1>1, <2>1, SoundTypes
<1>3. DOMAIN chunks = {b + 1 : b \in U} /\ \A b \in U : /\ chunks[b + 1].payload \in Nat
                                                        /\ meta[b].owned = 1 + chunks[b + 1].payload
  BY <1>1 DEF Accounts
<1>4. i \in U /\ ptr = i + 1 /\ i \in Nat
  <2>1. PICK b \in U : ptr = b + 1
    BY <1>3
  <2>2. b \in Nat
    BY <1>2, Numbers
  <2> QED
    BY <2>1, <2>2
<1>5. /\ meta' = [b \in Idx |-> IF b \in O THEN Foreign ELSE h.meta[b]]
      /\ first' = h.first /\ last' = h.last /\ used' = used - meta[i].owned
      /\ chunks' = [q \in DOMAIN chunks \ {ptr} |-> chunks[q]]
      /\ peak' = peak
  BY DEF Deallocate, Freed
<1> HIDE DEF i
<1>6. \E S2, F2 : Shrunk(h, Heap, S, F, i, j, S2, F2)
  BY <1>1, <1>4, DeallocateHeap
<1> HIDE DEF h, j, S, F
<1>7. PICK S2, F2 : Shrunk(h, Heap, S, F, i, j, S2, F2)
  BY <1>6
<1>8. /\ SoundHeap(h, S2, F2) /\ S2 \subseteq S /\ j \in S2
      /\ S2 \ F2 = U \ {i}
      /\ \A b \in U \ {i} : h.meta[b].owned = meta[b].owned
      /\ \A b \in Idx \ S : h.meta[b] = meta[b]
      /\ \A b \in S \ S2 : j < b /\ b < j + h.meta[j].owned
  BY <1>2, <1>7 DEF Shrunk
<1>9. h \in Heaps /\ h.meta \in [Idx -> Metadata] /\ Tiled(h.meta, S2) /\ S2 \subseteq Idx
  BY <1>8, SoundTypes
<1>10. j \in Nat /\ h.meta[j].owned \in Nat
  BY <1>8, <1>9, MetaTypes
<1>11. O \cap S2 = {}
  <2> SUFFICES ASSUME NEW b \in S2, b \in O PROVE FALSE
    OBVIOUS
  <2>1. b <= j \/ j + h.meta[j].owned <= b
    BY <1>8, <1>9 DEF Tiled
  <2> QED
    BY <1>10, <2>1
<1>12. ASSUME NEW b \in Idx \ S2 PROVE b \in O \/ h.meta[b] = Foreign
  <2>1. CASE b \in S
    <3>1. j < b /\ b < j + h.meta[j].owned
      BY <1>8, <2>1
    <3>2. b \in Nat
      BY Numbers
    <3> QED
      BY <1>10, <3>1, <3>2
  <2>2. CASE b \notin S
    <3>1. meta[b] = Foreign
      BY <2>2 DEF Heads, S
    <3> QED
      BY <1>8, <2>2, <3>1
  <2> QED
    BY <2>1, <2>2
<1> HIDE DEF O
<1>13. /\ SoundHeap([meta |-> meta', first |-> h.first, last |-> h.last], S2, F2)
       /\ {b \in Idx : meta'[b] # Foreign} = S2
       /\ \A b \in S2 : meta'[b] = h.meta[b]
  <2>1. meta' = [b \in Idx |-> IF b \in O THEN Foreign ELSE h.meta[b]]
    BY <1>5
  <2> QED
    BY <1>8, <1>11, <1>12, <2>1, Overlay
<1>14. Heap' = [meta |-> meta', first |-> h.first, last |-> h.last]
  BY <1>5 DEF Heap
<1>15. SoundHeap(Heap', S2, F2) /\ Heap'.meta = meta'
  BY <1>13, <1>14
<1>16. meta' \in [Idx -> Metadata] /\ Tiled(meta', S2) /\ F2 = {b \in S2 : ~meta'[b].isUsed}
  BY <1>15, SoundTypes
<1>17. Heads' = S2 /\ FreeHeads' = F2
  BY <1>13, <1>16 DEF Heads, FreeHeads
<1> DEFINE V == U \ {i}
<1>18. \A b \in V : meta'[b].owned = meta[b].owned
  BY <1>8, <1>13
<1>19. used' = Cardinality(Span(meta', V)) /\ used' \in Nat /\ used' <= used /\ used \in Nat
  <2>1. V \subseteq S /\ i \in S /\ i \notin V /\ V \cup {i} = U /\ meta[i].owned \in Nat
    BY <1>2, <1>4, MetaTypes
  <2>2. used = Cardinality(Span(meta, U))
    BY <1>1 DEF Accounts
  <2> HIDE DEF U, V
  <2>3. /\ Cardinality(Span(meta, V \cup {i})) = Cardinality(Span(meta, V)) + meta[i].owned
        /\ Cardinality(Span(meta, V)) \in Nat
    <3> DEFINE m == meta
    <3>1. m \in [Idx -> Metadata] /\ Tiled(m, S) /\ i \in S /\ i \notin V /\ V \subseteq S
      BY <1>2, <2>1
    <3> HIDE DEF m
    <3>2. /\ Cardinality(Span(m, V \cup {i})) = Cardinality(Span(m, V)) + m[i].owned
          /\ Cardinality(Span(m, V)) \in Nat
      BY <3>1, AddRun
    <3> QED
      BY <3>2 DEF m
  <2>4. Span(meta', V) = Span(meta, V)
    BY <1>18, SameSpan, Zenon
  <2> DEFINE x == Cardinality(Span(meta, V))
  <2>5. used = x + meta[i].owned /\ x \in Nat
    BY <2>1, <2>2, <2>3
  <2> HIDE DEF x
  <2>6. used' = x
    BY <1>5, <2>1, <2>5
  <2>7. used' <= used /\ used \in Nat /\ used' \in Nat
    BY <2>1, <2>5, <2>6
  <2> QED
    BY <2>4, <2>6, <2>7 DEF x
<1>20. peak' \in used' .. Blocks
  <2>1. peak \in used .. Blocks
    BY <1>1 DEF Accounts
  <2> QED
    BY <1>5, <1>19, <2>1, Numbers
<1>21. \A b \in U : b + 1 = ptr <=> b = i
  <2>1. \A b \in U : b \in Nat
    BY <1>2, Numbers
  <2> QED
    BY <1>4, <2>1
<1>22. DOMAIN chunks' = {b + 1 : b \in V}
  BY <1>3, <1>5, <1>21
<1>23. ASSUME NEW b \in V
       PROVE  chunks'[b + 1].payload \in Nat /\ meta'[b].owned = 1 + chunks'[b + 1].payload
  <2>1. chunks'[b + 1] = chunks[b + 1]
    BY <1>3, <1>5, <1>21
  <2> QED
    BY <1>3, <1>18, <2>1
<1>24. Accounts(meta', V, used', peak', chunks')
  BY <1>19, <1>20, <1>22, <1>23 DEF Accounts
<1>25. IInv'
  <2>1. SoundHeap(Heap', Heads', FreeHeads')
    BY <1>15, <1>17
  <2>2. Heads' \ FreeHeads' = V
    BY <1>8, <1>17
  <2>3. Accounts(meta', Heads' \ FreeHeads', used', peak', chunks')
    BY <1>24, <2>2
  <2> QED
    BY <2>1, <2>3 DEF IInv
<1>26. Contract!Next
  BY <1>5 DEF Contract!Next, Contract!Deallocate
<1> QED
  BY <1>25, <1>26

(* Every step keeps the invariant and is one the contract allows. *)
LEMMA NextIInv == NoWrap /\ IInv /\ [Next]_vars => IInv' /\ [Contract!Next]_chunks
<1> SUFFICES ASSUME NoWrap, IInv, [Next]_vars PROVE IInv' /\ [Contract!Next]_chunks
  OBVIOUS
<1>1. CASE UNCHANGED vars
  <2>1. /\ meta' = meta /\ first' = first /\ last' = last /\ used' = used /\ peak' = peak
        /\ chunks' = chunks
    BY <1>1 DEF vars
  <2>2. Heap' = Heap /\ Heads' = Heads /\ FreeHeads' = FreeHeads
    BY <2>1 DEF Heap, Heads, FreeHeads
  <2> QED
    BY <2>1, <2>2 DEF IInv
<1>2. CASE \E p \in Payloads, a \in Alignments : Allocate(p, a)
  BY <1>2, AllocateIInv
<1>3. CASE \E ptr \in DOMAIN chunks : Deallocate(ptr)
  BY <1>3, DeallocateIInv
<1> QED
  BY <1>1, <1>2, <1>3 DEF Next

(* The invariant always holds. *)
LEMMA AlwaysIInv == ASSUME NoWrap PROVE Spec => []IInv
<1>1. IInv /\ [Next]_vars => IInv'
  BY NextIInv
<1> QED
  BY InitIInv, <1>1, PTL DEF Spec

-----------------------------------------------------------------------------
(* What the invariant says, in the terms of the runs.                       *)
LEMMA IInvTiling == IInv => Tiling
<1> SUFFICES ASSUME IInv PROVE Tiling
  OBVIOUS
<1> DEFINE S == Heads
           U == Heads \ FreeHeads
<1>1. SoundHeap(Heap, S, FreeHeads) /\ Accounts(meta, U, used, peak, chunks)
  BY DEF IInv
<1>2. Heap.meta = meta /\ Heap.first = first /\ Heap.last = last
  BY DEF Heap
<1>3. Heap \in Heaps /\ meta \in [Idx -> Metadata] /\ Tiled(meta, S) /\ S \subseteq Idx
  BY <1>1, <1>2, SoundTypes
<1>4. first \in 0 .. Blocks /\ last \in 0 .. Blocks
  BY <1>2, <1>3 DEF Heaps
<1>5. used \in 0 .. Blocks /\ peak \in used .. Blocks
  <2>1. Cardinality(Span(meta, U)) \in 0 .. Blocks
    BY <1>3, SpanBound
  <2> QED
    BY <1>1, <2>1 DEF Accounts
<1>6. DOMAIN chunks \subseteq 1 .. Blocks
  <2>1. DOMAIN chunks = {b + 1 : b \in U}
    BY <1>1 DEF Accounts
  <2>2. \A b \in U : b + 1 \in 1 .. Blocks
    BY <1>3, Numbers
  <2> QED
    BY <2>1, <2>2
<1>7. TypeOK
  BY <1>3, <1>4, <1>5, <1>6 DEF TypeOK
<1>8. 0 \in S /\ meta[0].before = 0
  BY <1>3 DEF Tiled
<1>9. ASSUME NEW i \in S
      PROVE  /\ meta[i].owned > 0 /\ i + meta[i].owned <= Blocks
             /\ Run(i) \cap S = {i}
             /\ i + meta[i].owned # Blocks =>
                  i + meta[i].owned \in S /\ meta[i + meta[i].owned].before = meta[i].owned
  <2>1. /\ meta[i].owned > 0 /\ i + meta[i].owned <= Blocks
        /\ i + meta[i].owned # Blocks =>
             i + meta[i].owned \in S /\ meta[i + meta[i].owned].before = meta[i].owned
    BY <1>3 DEF Tiled
  <2>2. \A x \in S : x <= i \/ i + meta[i].owned <= x
    BY <1>3 DEF Tiled
  <2>3. i \in Nat /\ meta[i].owned \in Nat
    BY <1>3, MetaTypes
  <2>4. \A x \in S : x \in Nat
    BY <1>3, Numbers
  <2>5. i \in Run(i)
    BY <2>1, <2>3 DEF Run
  <2>6. \A x \in S : x \in Run(i) => x = i
    BY <2>2, <2>3, <2>4 DEF Run
  <2> QED
    BY <2>1, <2>5, <2>6
<1> QED
  BY <1>7, <1>8, <1>9 DEF Tiling

(* The list as a walk through it. *)
LEMMA IInvFreeList == IInv => FreeListExact
<1> SUFFICES ASSUME IInv PROVE FreeListExact
  OBVIOUS
<1> DEFINE F == FreeHeads
           walk == {n \in 0 .. Blocks : FreeNode[n] # Invalid}
<1>1. ListOf(Heap, F)
  BY SoundTypes DEF IInv
<1>2. PICK s : Linked(Heap, s) /\ ToSet(s) = F
  BY <1>1 DEF ListOf
<1>3. /\ s \in Seq(Idx) /\ Len(s) \in Nat /\ DOMAIN s = 1 .. Len(s) /\ F \subseteq Idx
      /\ \A k \in 1 .. Len(s) : s[k] \in F /\ s[k] \in Idx
      /\ \A k, l \in 1 .. Len(s) : s[k] = s[l] => k = l
      /\ \A b \in F : \E k \in 1 .. Len(s) : b = s[k]
  BY <1>2, LinkedIndexes
<1>4. \A k \in 1 .. Len(s) : s[k] # Invalid
  BY <1>3, Numbers
<1>5. Cardinality(F) = Len(s)
  <2>1. s \in [1 .. Len(s) -> F]
    BY <1>3
  <2>2. s \in Bijection(1 .. Len(s), F)
    <3>1. s \in Injection(1 .. Len(s), F)
      BY <1>3, <2>1 DEF Injection, IsInjective
    <3>2. \A b \in F : \E k \in 1 .. Len(s) : s[k] = b
      BY <1>3
    <3>3. s \in Surjection(1 .. Len(s), F)
      BY <2>1, <3>2 DEF Surjection
    <3> QED
      BY <3>1, <3>3 DEF Bijection
  <2>3. ExistsBijection(1 .. Len(s), F)
    BY <2>2 DEF ExistsBijection
  <2> QED
    BY <1>3, <2>3, FS_CountingElements
<1>6. Len(s) <= Blocks
  <2>1. IsFiniteSet(Idx) /\ Cardinality(Idx) = Blocks
    BY FS_Interval, Numbers
  <2>2. Cardinality(F) <= Cardinality(Idx)
    BY <1>3, <2>1, FS_Subset
  <2> QED
    BY <1>5, <2>1, <2>2
<1>7. \A n \in Nat : FreeNode[n] = IF n < Len(s) THEN s[n + 1] ELSE Invalid
  BY <1>2, FreeNodeDef
<1>8. ASSUME NEW n \in Nat
      PROVE  n \in walk <=> n < Len(s)
  <2>1. CASE n < Len(s)
    <3>1. n \in 0 .. Blocks /\ n + 1 \in 1 .. Len(s)
      BY <1>3, <1>6, <2>1, Numbers
    <3> QED
      BY <1>4, <1>7, <2>1, <3>1
  <2>2. CASE ~(n < Len(s))
    BY <1>7, <2>2
  <2> QED
    BY <2>1, <2>2
<1>9. walk = 0 .. Len(s) - 1
  <2>1. walk \subseteq Nat
    BY Numbers
  <2> HIDE DEF walk
  <2>2. \A n \in Nat : n < Len(s) <=> n \in 0 .. Len(s) - 1
    BY <1>3
  <2>3. 0 .. Len(s) - 1 \subseteq Nat
    BY <1>3
  <2> QED
    BY <1>8, <2>1, <2>2, <2>3
<1>10. Cardinality(walk) = Cardinality(F)
  <2>1. 0 \in Int /\ Len(s) - 1 \in Int
    BY <1>3
  <2>2. Cardinality(0 .. Len(s) - 1) = IF 0 > Len(s) - 1 THEN 0 ELSE (Len(s) - 1) - 0 + 1
    BY <2>1, FS_Interval
  <2> HIDE DEF walk, F
  <2>3. Cardinality(walk) = Len(s)
    <3>1. Cardinality(walk) = Cardinality(0 .. Len(s) - 1)
      BY <1>9
    <3> QED
      BY <1>3, <2>2, <3>1
  <2> QED
    BY <1>5, <2>3
<1>11. \A n \in walk : FreeNode[n] = s[n + 1] /\ n \in Nat /\ n + 1 \in 1 .. Len(s)
  BY <1>3, <1>7, <1>9
<1>12. {FreeNode[n] : n \in walk} = F
  <2>1. \A n \in walk : FreeNode[n] \in F
    BY <1>3, <1>11
  <2>2. ASSUME NEW b \in F PROVE \E n \in walk : FreeNode[n] = b
    <3>1. PICK k \in 1 .. Len(s) : b = s[k]
      BY <1>3
    <3>2. k - 1 \in walk /\ (k - 1) + 1 = k
      BY <1>3, <1>9
    <3> QED
      BY <1>11, <3>1, <3>2
  <2> QED
    BY <2>1, <2>2
<1>13. \A k \in 1 .. Len(s) : meta[s[k]].prev = IF k = 1 THEN Invalid ELSE s[k - 1]
  BY <1>2 DEF Linked, Heap
<1>14. ASSUME NEW n \in walk
       PROVE  meta[FreeNode[n]].prev = IF n = 0 THEN Invalid ELSE FreeNode[n - 1]
  <2>1. FreeNode[n] = s[n + 1] /\ n \in Nat /\ n + 1 \in 1 .. Len(s)
    BY <1>11
  <2>2. meta[s[n + 1]].prev = IF n + 1 = 1 THEN Invalid ELSE s[(n + 1) - 1]
    BY <1>13, <2>1
  <2>3. n # 0 => FreeNode[n - 1] = s[n]
    <3>1. n # 0 => n - 1 \in Nat /\ n - 1 < Len(s) /\ (n - 1) + 1 = n
      BY <1>3, <2>1
    <3> QED
      BY <1>7, <3>1
  <2>4. (n + 1) - 1 = n /\ (n + 1 = 1 <=> n = 0)
    BY <2>1
  <2> QED
    BY <2>1, <2>2, <2>3, <2>4
<1>15. last = IF F = {} THEN Invalid ELSE FreeNode[Cardinality(F) - 1]
  <2>1. last = IF s = <<>> THEN Invalid ELSE s[Len(s)]
    BY <1>2 DEF Linked, Heap
  <2>2. s = <<>> <=> Len(s) = 0
    BY <1>3
  <2>3. F = {} <=> Len(s) = 0
    <3>1. Len(s) # 0 => 1 \in 1 .. Len(s)
      BY <1>3
    <3>2. Len(s) = 0 => 1 .. Len(s) = {}
      OBVIOUS
    <3> QED
      BY <1>3, <3>1, <3>2
  <2>4. Len(s) # 0 => FreeNode[Len(s) - 1] = s[Len(s)]
    <3>1. Len(s) # 0 => Len(s) - 1 \in Nat /\ Len(s) - 1 < Len(s) /\ (Len(s) - 1) + 1 = Len(s)
      BY <1>3
    <3> QED
      BY <1>7, <3>1
  <2> QED
    BY <1>5, <2>1, <2>2, <2>3, <2>4
<1> QED
  BY <1>10, <1>12, <1>14, <1>15 DEF FreeListExact

(* The sums. *)
LEMMA IInvUsed == IInv => UsedIsSum
<1> SUFFICES ASSUME IInv PROVE UsedIsSum
  OBVIOUS
<1>1. UsedHeads = Heads \ FreeHeads
  BY DEF UsedHeads, FreeHeads
<1>2. UNION {Run(i) : i \in UsedHeads} = Span(meta, UsedHeads)
  BY DEF Run, Span
<1>3. Accounts(meta, UsedHeads, used, peak, chunks)
  BY <1>1 DEF IInv
<1> QED
  BY <1>2, <1>3 DEF UsedIsSum, Accounts

-----------------------------------------------------------------------------
(* allocate() and deallocate() keep the runs next to each other, from the   *)
(* first block of the buffer to the last: set_blocks_owned() tells the run  *)
(* behind whenever a length changes.                                        *)
THEOREM RunsTile == ASSUME NoWrap PROVE Spec => []Tiling
BY AlwaysIInv, IInvTiling, PTL

(* push_free_node() and unlink_free_node() keep the list of exactly the     *)
(* free runs, in both directions.                                           *)
THEOREM FreeListIsExact == ASSUME NoWrap PROVE Spec => []FreeListExact
BY AlwaysIInv, IInvFreeList, PTL

(* deallocate() leaves no two free runs next to each other, and splitting   *)
(* for alignment puts a run in use between the two parts.                   *)
THEOREM GapsAreWhole == ASSUME NoWrap PROVE Spec => []Coalesced
<1>1. IInv => Coalesced
  BY DEF IInv, SoundHeap, Coalesced, Heap
<1> QED
  BY AlwaysIInv, <1>1, PTL

(* current_memory() is the sum of the runs in use, which are the callers'.  *)
THEOREM MemoryIsCounted == ASSUME NoWrap PROVE Spec => []UsedIsSum
BY AlwaysIInv, IInvUsed, PTL

(* The allocator implements its contract: the memory it hands out is in the *)
(* buffer, aligned, and shared with nobody.                                 *)
THEOREM ImplementsPromise == ASSUME NoWrap PROVE Spec => KeepsPromise
<1>1. Init => Contract!Init
  BY DEF Init, Contract!Init
<1>2. IInv /\ [Next]_vars => [Contract!Next]_chunks
  BY NextIInv
<1> QED
  BY AlwaysIInv, <1>1, <1>2, PTL DEF Spec, KeepsPromise, Contract!Spec
=============================================================================
