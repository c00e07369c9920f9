--------------------------- MODULE VectorPromise ---------------------------
(***************************************************************************)
(* What users of corosig::Vector can rely on (container/Vector.hpp:        *)
(* "designed to repeat std::vector's behaviour"): a vector is a sequence   *)
(* of items, a call changes it as its std::vector namesake would, and one  *)
(* that returns an error changes nothing.  Three kinds of call are spoilt: *)
(* they do less for elements of some types.  Buffers, capacity and the     *)
(* order in which elements are moved do not appear.                        *)
(***************************************************************************)
EXTENDS Naturals, SequencesExt

CONSTANTS Vecs, Fresh

VARIABLES
  items,  \* the elements of each vector
  last    \* the last call with its arguments, and whether it was successful

Init ==
  /\ items = [v \in Vecs |-> <<>>]
  /\ last = [call |-> [op |-> "none"], ok |-> TRUE]

Repeat(x, n) == [k \in 1 .. n |-> x]

(* s cut or filled up to n elements. *)
Resized(s, n, x) == IF n < Len(s) THEN SubSeq(s, 1, n) ELSE s \o Repeat(x, n - Len(s))

Inserted(s, i, xs) == SubSeq(s, 1, i) \o xs \o SubSeq(s, i + 1, Len(s))

Erased(s, i, j) == SubSeq(s, 1, i) \o SubSeq(s, j + 1, Len(s))

(* What the items are after call c on vectors with the items s. *)
Effect(s, c) ==
  CASE c.op = "push_back"            -> [s EXCEPT ![c.v] = Append(@, c.x)]
    [] c.op = "pop_back"             -> [s EXCEPT ![c.v] = Front(@)]
    [] c.op = "clear"                -> [s EXCEPT ![c.v] = <<>>]
    [] c.op = "resize"               -> [s EXCEPT ![c.v] = Resized(@, c.n, c.x)]
    [] c.op = "resize_uninitialized" -> [s EXCEPT ![c.v] = Resized(@, c.n, Fresh)]
    [] c.op = "insert"               -> [s EXCEPT ![c.v] = Inserted(@, c.i, c.xs)]
    [] c.op = "erase"                -> [s EXCEPT ![c.v] = Erased(@, c.i, c.j)]
    [] c.op = "assign"               -> [s EXCEPT ![c.v] = c.xs]
    [] c.op = "clone"                -> [s EXCEPT ![c.v] = s[c.w]]
    [] c.op = "move"                 -> [s EXCEPT ![c.v] = s[c.w], ![c.w] = <<>>]
    [] OTHER                         -> s  \* reserve, shrink_to_fit

(* Where the code does not keep to it: insert() and erase() of an empty     *)
(* range, and resize() with a value that is an element of the same vector.  *)
Spoilt(c) ==
  \/ c.op = "insert" /\ c.xs = <<>>
  \/ c.op = "erase" /\ c.i = c.j
  \/ c.op = "resize" /\ c.own

(* The elements that even these calls keep: those before the range, and the *)
(* old ones.                                                                *)
KeptOf(s, c) ==
  IF c.op = "resize" THEN IF c.n < Len(s[c.v]) THEN c.n ELSE Len(s[c.v])
  ELSE c.i

(* The items t are an outcome of call c on vectors with the items s. *)
Does(s, c, t) ==
  IF Spoilt(c)
  THEN /\ Len(t[c.v]) = Len(Effect(s, c)[c.v])
       /\ \A k \in 1 .. KeptOf(s, c) : t[c.v][k] = s[c.v][k]
       /\ t = [s EXCEPT ![c.v] = t[c.v]]
  ELSE t = Effect(s, c)

Next == IF last'.ok THEN Does(items, last'.call, items') ELSE items' = items

Spec == Init /\ [][Next]_<<items, last>>
=============================================================================
