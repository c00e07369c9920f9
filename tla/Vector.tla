------------------------------- MODULE Vector -------------------------------
(***************************************************************************)
(* corosig::Vector (include/corosig/container/Vector.hpp).  No method      *)
(* suspends, so an action is one call.  Its parts work on the memory as it *)
(* goes through the call; each gives the set of its outcomes, since every  *)
(* allocation, and every copy of an element by its clone(), may fail.  The *)
(* vector that clone(), assign(), resize() and shrink_to_fit() build is    *)
(* Temp.  What is passed as an rvalue, and the ranges that are inserted or *)
(* assigned, lie outside the vector, as std::vector requires, too; the     *)
(* value that resize() is given may be an element of it.                   *)
(***************************************************************************)
EXTENDS Naturals, SequencesExt, FiniteSetsExt

CONSTANTS
  Vecs,      \* vectors
  Values,    \* what elements are
  Ranges,    \* what is inserted and assigned
  Buffers,   \* bound on buffers that are allocated at a time
  HeapCells, \* bound on cells that are allocated at a time
  MinGrow,   \* the least growth of push_back and insert, 16
  MaxSize    \* bound on the elements of all vectors

Temp == "temp"

ASSUME VectorAssumption ==
  /\ Temp \notin Vecs
  /\ Values # {} /\ Ranges \subseteq Seq(Values)
  /\ {Buffers, HeapCells, MaxSize} \subseteq Nat /\ MinGrow \in Nat \ {0}

VARIABLES
  vec,       \* m_data, m_size and m_capacity of every vector
  mem,       \* the cells of every buffer, or NoBuffer
  lastCall   \* the last call and whether it was successful

vectorVars == <<vec, mem, lastCall>>

Null == 0
NoBuffer == <<>>
Places == 1 .. Buffers

(* A cell holds no object or one that was never constructed (Raw), one that *)
(* was moved from, or a value.                                              *)
Raw == "raw"
Moved == "moved"

NoVec == [data |-> Null, size |-> 0, cap |-> 0]
RawCells(n) == [k \in 1 .. n |-> Raw]

VectorInit ==
  /\ vec = [v \in Vecs \cup {Temp} |-> NoVec]
  /\ mem = [b \in Places |-> NoBuffer]
  /\ lastCall = [call |-> [op |-> "none"], ok |-> TRUE]

-----------------------------------------------------------------------------
(* Parts of calls.  s is [vec |-> ..., mem |-> ...].                        *)

Ok(s) == [ok |-> TRUE, s |-> s]
Failure(s) == [ok |-> FALSE, s |-> s]

(* COROSIG_TRY: go on with F where the part before was successful. *)
Then(outcomes, F(_)) == UNION {IF r.ok THEN F(r.s) ELSE {r} : r \in outcomes}

Cells(s, v) == IF s.vec[v].data = Null THEN <<>> ELSE s.mem[s.vec[v].data]
WithCells(s, v, cells, n) ==
  [vec |-> [s.vec EXCEPT ![v].size = n],
   mem |-> IF s.vec[v].data = Null THEN s.mem ELSE [s.mem EXCEPT ![s.vec[v].data] = cells]]

Released(m, b) == IF b = Null THEN m ELSE [m EXCEPT ![b] = NoBuffer]

CellsIn(m) == FoldFunction(LAMBDA cells, sum : Len(cells) + sum, 0, m)

(* The buffers that the allocator may give for n cells. *)
FreeBuffers(m, n) == {b \in Places : m[b] = NoBuffer /\ n + CellsIn(m) <= HeapCells}

(* m_data and m_capacity after reserve(). *)
WithBuffer(h, b, n) == [h EXCEPT !.data = b, !.cap = n]

(* reserve() *)
Reserve(s, v, n) ==
  IF n <= s.vec[v].cap THEN {Ok(s)}
  ELSE LET free == FreeBuffers(s.mem, n)
           cells == [k \in 1 .. n |-> IF k <= s.vec[v].size THEN Cells(s, v)[k] ELSE Raw]
           moved(b) == [vec |-> [s.vec EXCEPT ![v] = WithBuffer(@, b, n)],
                        mem |-> [Released(s.mem, s.vec[v].data) EXCEPT ![b] = cells]]
       IN {Failure(s)} \cup {Ok(moved(b)) : b \in IF free = {} THEN {} ELSE {Min(free)}}

Grown(n) == Max({MinGrow, 2 * n})

(* push_back() *)
Push(s, v, x) ==
  Then(IF s.vec[v].size = s.vec[v].cap THEN Reserve(s, v, Grown(s.vec[v].size)) ELSE {Ok(s)},
       LAMBDA t : LET n == t.vec[v].size + 1
                  IN {Ok(WithCells(t, v, [Cells(t, v) EXCEPT ![n] = x], n))})

PushAll(s, v, xs) ==
  LET upTo[k \in 0 .. Len(xs)] ==
        IF k = 0 THEN {Ok(s)} ELSE Then(upTo[k - 1], LAMBDA t : Push(t, v, xs[k]))
  IN upTo[Len(xs)]

(* The same with copies of xs, one by one: each of them may fail. *)
CopyAll(s, v, xs) ==
  PushAll(s, v, xs) \cup
    {Failure(r.s) : r \in UNION {PushAll(s, v, SubSeq(xs, 1, k)) : k \in 0 .. Len(xs) - 1}}

(* pop_back() until n are left; clear() leaves none. *)
PopTo(s, v, n) ==
  WithCells(s, v, [k \in DOMAIN Cells(s, v) |->
                     IF k \in n + 1 .. s.vec[v].size THEN Raw ELSE Cells(s, v)[k]], n)

(* ~Vector() *)
Destroy(s, v) == [vec |-> [s.vec EXCEPT ![v] = NoVec], mem |-> Released(s.mem, s.vec[v].data)]

(* Mutant: a moved-from vector keeps its members. *)
MoveKeeping(s, v, w) ==
  LET t == Destroy(s, v) IN [t EXCEPT !.vec = [@ EXCEPT ![v] = t.vec[w]]]

(* operator=(Vector &&) of different vectors. *)
MoveAssign(s, v, w) ==
  LET t == Destroy(s, v) IN [t EXCEPT !.vec = [@ EXCEPT ![v] = t.vec[w], ![w] = NoVec]]

(* Temp becomes v, or is destroyed. *)
Finish(outcomes, v) ==
  {IF r.ok THEN Ok(MoveAssign(r.s, v, Temp)) ELSE Failure(Destroy(r.s, Temp)) : r \in outcomes}

(* resize_uninitialized(): what new elements are is not specified. *)
ResizeUninitialized(s, v, n) ==
  IF n <= s.vec[v].size THEN {Ok(PopTo(s, v, n))}
  ELSE Then(Reserve(s, v, n),
            LAMBDA t : {Ok(WithCells(t, v, [k \in DOMAIN Cells(t, v) |->
                             IF k \in s.vec[v].size + 1 .. n THEN Raw ELSE Cells(t, v)[k]], n))})

(* What the value given to resize() is once v's memory is that of t: where *)
(* it was an element of v and the memory is another, anything.             *)
Referred(s, t, v, x, own) ==
  IF own /\ t.vec[v].data # s.vec[v].data THEN Values \cup {Raw, Moved} ELSE {x}

Repeated(x, n) == [k \in 1 .. n |-> x]

(* resize() to more elements, which can be copied without failing: to      *)
(* size() + count capacity, where count would do.                          *)
Extend(s, v, n, x, own) ==
  LET size == s.vec[v].size
  IN Then(Reserve(s, v, size + n),
          LAMBDA t : UNION {PushAll(t, v, Repeated(y, n - size)) : y \in Referred(s, t, v, x, own)})

(* resize() to more elements, which may fail to be copied: to a vector of   *)
(* their own first, and they are moved from there.                          *)
ExtendByCopies(s, v, n, x) ==
  LET size == s.vec[v].size
      xs == Repeated(x, n - size)
      copied == Then(Reserve(s, Temp, n), LAMBDA t : CopyAll(t, Temp, xs))
      moved == Then(Then(copied, LAMBDA t : Reserve(t, v, size + n)), LAMBDA t : PushAll(t, v, xs))
  IN {[r EXCEPT !.s = Destroy(@, Temp)] : r \in moved}

(* resize() *)
Resize(s, v, n, x, own) ==
  IF n <= s.vec[v].size THEN {Ok(PopTo(s, v, n))}
  ELSE Extend(s, v, n, x, own) \cup ExtendByCopies(s, v, n, x)

(* clone() and assign(): the values are copied to a vector of their own. *)
Copied(s, v, xs) == Finish(Then(Reserve(s, Temp, Len(xs)), LAMBDA t : CopyAll(t, Temp, xs)), v)

(* shrink_to_fit() *)
Shrink(s, v) ==
  LET n == s.vec[v].size
  IN Finish(Then(ResizeUninitialized(s, Temp, n),
                 LAMBDA t : {Ok(WithCells(t, Temp, SubSeq(Cells(t, v), 1, n), n))}), v)

(* The object in one cell moved to another; left is what stays behind. *)
MoveCell(c, from, to, left) == [c EXCEPT ![to] = c[from], ![from] = left]

(* Mutant: from the front. *)
ShiftOrderUp(from, to) == [k \in 1 .. to - from + 1 |-> from + k - 1]

(* The order in which insert() moves elements back: from the end. *)
ShiftOrder(from, to) == [k \in 1 .. to - from + 1 |-> to - k + 1]

(* The cells after that, each moved n places back. *)
Shifted(c, from, to, n) ==
  LET order == ShiftOrder(from, to)
      upTo[m \in 0 .. Len(order)] ==
        IF m = 0 THEN c ELSE MoveCell(upTo[m - 1], order[m] - n, order[m], Raw)
  IN upTo[Len(order)]

(* What insert() and erase() do of an empty range: the elements behind i    *)
(* are moved to themselves, which some types survive and others do not.     *)
SelfMoved(s, v, i, left) ==
  LET size == s.vec[v].size
  IN {Ok(s), Ok(WithCells(s, v, [k \in DOMAIN Cells(s, v) |->
                                   IF k \in i + 1 .. size THEN left ELSE Cells(s, v)[k]], size))}

(* insert(): with room for the new elements it may still reserve, the       *)
(* condition being the wrong way round; resize_uninitialized() makes up for *)
(* it.  Of an empty range, what is behind it is then destroyed; and at the  *)
(* front the index of that loop wraps around and the call does not return.  *)
Insert(s, v, i, xs) ==
  LET n == Len(xs)
      size == s.vec[v].size
      filled(c) == [k \in DOMAIN c |-> IF k \in i + 1 .. i + n THEN xs[k - i] ELSE c[k]]
      shifted(t) == WithCells(t, v, filled(Shifted(Cells(t, v), i + n + 1, size + n, n)), size + n)
  IN Then(Then(IF size + n < s.vec[v].cap THEN Reserve(s, v, Grown(size)) ELSE {Ok(s)},
               LAMBDA t : ResizeUninitialized(t, v, size + n)),
          LAMBDA t : IF n > 0 THEN {Ok(shifted(t))} ELSE IF i > 0 THEN SelfMoved(t, v, i, Raw) ELSE {})

(* erase(): what is behind the range is moved to its place, one by one. *)
Erase(s, v, i, j) ==
  LET size == s.vec[v].size
      destroyed == [k \in DOMAIN Cells(s, v) |-> IF k \in i + 1 .. j THEN Raw ELSE Cells(s, v)[k]]
      upTo[k \in 0 .. size - j] ==
        IF k = 0 THEN destroyed ELSE MoveCell(upTo[k - 1], j + k, i + k, Moved)
  IN WithCells(s, v, upTo[size - j], size - (j - i))

-----------------------------------------------------------------------------
State == [vec |-> vec, mem |-> mem]
Size(v) == vec[v].size
Room == MaxSize - FoldFunction(LAMBDA h, sum : h.size + sum, 0, vec)
Items(v) == SubSeq(Cells(State, v), 1, Size(v))

(* The call c has one of the outcomes. *)
Call(c, outcomes) ==
  \E r \in outcomes :
    /\ vec' = r.s.vec
    /\ mem' = r.s.mem
    /\ lastCall' = [call |-> c, ok |-> r.ok]

(* Of an rvalue, or of a copy. *)
PushBack(v, x) ==
  /\ Room >= 1
  /\ Call([op |-> "push_back", v |-> v, x |-> x], {Failure(State)} \cup Push(State, v, x))

PopBack(v) ==
  Size(v) > 0 /\ Call([op |-> "pop_back", v |-> v], {Ok(PopTo(State, v, Size(v) - 1))})

Clear(v) == Call([op |-> "clear", v |-> v], {Ok(PopTo(State, v, 0))})

ReserveFor(v, n) == Call([op |-> "reserve", v |-> v], Reserve(State, v, n))

ShrinkToFit(v) == Call([op |-> "shrink_to_fit", v |-> v], Shrink(State, v))

ResizeTo(v, n, x) ==
  /\ n <= Size(v) + Room
  /\ Call([op |-> "resize", v |-> v, n |-> n, x |-> x, own |-> FALSE], Resize(State, v, n, x, FALSE))

(* resize(n, v[k]) *)
ResizeToOwn(v, n, k) ==
  /\ n <= Size(v) + Room /\ k <= Size(v)
  /\ LET x == Items(v)[k]
     IN Call([op |-> "resize", v |-> v, n |-> n, x |-> x, own |-> TRUE], Resize(State, v, n, x, TRUE))

ResizeRaw(v, n) ==
  n <= Size(v) + Room /\ Call([op |-> "resize_uninitialized", v |-> v, n |-> n], ResizeUninitialized(State, v, n))

InsertAll(v, i, xs) ==
  /\ i <= Size(v) /\ Len(xs) <= Room
  /\ Call([op |-> "insert", v |-> v, i |-> i, xs |-> xs], Insert(State, v, i, xs))

EraseRange(v, i, j) ==
  /\ i <= j /\ j <= Size(v)
  /\ Call([op |-> "erase", v |-> v, i |-> i, j |-> j],
          IF i < j THEN {Ok(Erase(State, v, i, j))} ELSE SelfMoved(State, v, i, Moved))

AssignAll(v, xs) ==
  Len(xs) <= Size(v) + Room /\ Call([op |-> "assign", v |-> v, xs |-> xs], Copied(State, v, xs))

(* v = w.clone().value() *)
Clone(v, w) ==
  v # w /\ Size(w) <= Size(v) + Room /\ Call([op |-> "clone", v |-> v, w |-> w], Copied(State, v, Items(w)))

MoveTo(v, w) == v # w /\ Call([op |-> "move", v |-> v, w |-> w], {Ok(MoveAssign(State, v, w))})

VectorNext ==
  \E v \in Vecs :
    \/ PopBack(v) \/ Clear(v) \/ ShrinkToFit(v)
    \/ \E x \in Values : PushBack(v, x)
    \/ \E n \in 0 .. MaxSize : ReserveFor(v, n) \/ ResizeRaw(v, n)
    \/ \E n \in 0 .. MaxSize, x \in Values : ResizeTo(v, n, x)
    \/ \E n \in 0 .. MaxSize, k \in 1 .. MaxSize : ResizeToOwn(v, n, k)
    \/ \E i \in 0 .. MaxSize, xs \in Ranges : InsertAll(v, i, xs)
    \/ \E i, j \in 0 .. MaxSize : EraseRange(v, i, j)
    \/ \E xs \in Ranges : AssignAll(v, xs)
    \/ \E w \in Vecs : Clone(v, w) \/ MoveTo(v, w)

VectorSpec == VectorInit /\ [][VectorNext]_vectorVars

-----------------------------------------------------------------------------
(* The vectors as sequences: what the iterators go through. *)
Promise == INSTANCE VectorPromise WITH
             items <- [v \in Vecs |-> Items(v)], last <- lastCall, Fresh <- Raw

(* A call does to the elements what its std::vector namesake does, but for  *)
(* the calls that VectorPromise names as spoilt, or it fails and leaves     *)
(* them alone, through every growth, shift, failed allocation and failed    *)
(* copy.                                                                    *)
KeepsItems == Promise!Spec

(* Every buffer that is allocated belongs to one vector, which knows its    *)
(* size; and behind its last element a vector has nothing left to destroy   *)
(* but the moved-from objects that erase() leaves.  Copies made for a call  *)
(* that fails are gone after it.                                            *)
BuffersOwned ==
  /\ \A b \in Places : mem[b] # NoBuffer => Cardinality({v \in Vecs : vec[v].data = b}) = 1
  /\ \A v \in Vecs : vec[v].data # Null => mem[vec[v].data] # NoBuffer
  /\ \A v \in Vecs :
       /\ vec[v].size <= vec[v].cap /\ Len(Cells(State, v)) = vec[v].cap
       /\ \A k \in vec[v].size + 1 .. vec[v].cap : Cells(State, v)[k] \in {Raw, Moved}
=============================================================================
