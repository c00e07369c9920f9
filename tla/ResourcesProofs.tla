-------------------------- MODULE ResourcesProofs --------------------------
(***************************************************************************)
(* What owns what.  Every descriptor has one owner and none is lost, for   *)
(* any number of handles and coroutines and any size of the descriptor     *)
(* table; and every buffer belongs to one vector, whose elements are what  *)
(* its callers made them, for any vectors, values and bounds.              *)
(***************************************************************************)
EXTENDS Descriptors, Vector, BasicLemmas

(* A descriptor that nothing owns is never closed. *)
UnboundStayOpen == unbound \subseteq open

(* The two properties are inductive together with UnboundStayOpen: an       *)
(* owner's descriptor is open, so the number the kernel gives next is       *)
(* nobody's, nor one that was lost; descriptors are pairwise different, so  *)
(* closing one takes nobody else's away.                                    *)
IInv == SoleOwner /\ NothingElseLeaks /\ UnboundStayOpen

(* The kernel's choice, the lowest free number, is a free one. *)
LEMMA LowestIsFree ==
  ASSUME Free # {}
  PROVE  Lowest \in Fds /\ Lowest \notin open /\ Lowest # NoFd
<1>1. Free \subseteq Nat
  BY DescriptorsAssumption DEF Free, Fds
<1>2. Lowest \in Free
  BY <1>1, MinNat DEF Lowest
<1> QED
  BY <1>2, DescriptorsAssumption DEF Free, Fds, NoFd

(* pipe() gives two different free numbers. *)
LEMMA SecondIsFree ==
  ASSUME Cardinality(Free) >= 2
  PROVE  /\ Free # {}
         /\ Min(Free \ {Lowest}) \in Fds \ {Lowest}
         /\ Min(Free \ {Lowest}) \notin open
         /\ Min(Free \ {Lowest}) # NoFd
<1>1. IsFiniteSet(Free)
  <2>1. IsFiniteSet(0 .. MaxFd)
    BY FS_Interval, DescriptorsAssumption
  <2> QED
    BY <2>1, FS_Subset DEF Free, Fds
<1>2. Free # {}
  BY FS_EmptySet
<1>3. Free \ {Lowest} # {}
  <2> SUFFICES ASSUME Free \ {Lowest} = {} PROVE FALSE
    OBVIOUS
  <2>1. Free = {Lowest}
    BY <1>2
  <2>2. Cardinality(Free) = 1
    BY <2>1, FS_Singleton
  <2> QED
    BY <2>2
<1>4. Free \ {Lowest} \subseteq Nat
  BY DescriptorsAssumption DEF Free, Fds
<1>5. Min(Free \ {Lowest}) \in Free \ {Lowest}
  BY <1>3, <1>4, MinNat
<1> QED
  BY <1>2, <1>5, DescriptorsAssumption DEF Free, Fds, NoFd

(* At the start there are no descriptors at all. *)
LEMMA InitIInv ==
  ASSUME FdInit
  PROVE  IInv
BY DescriptorsAssumption DEF FdInit, IInv, SoleOwner, NothingElseLeaks, UnboundStayOpen, FdTypeOK,
       Owners, Fds, NoFd, States

(* The handle that a factory's result is assigned to owns the new          *)
(* descriptor and has closed the old one.                                  *)
LEMMA MakeStep ==
  ASSUME IInv, NEW h \in Handles, Make(h)
  PROVE  IInv'
<1>1. Lowest \in Fds /\ Lowest \notin open /\ Lowest # NoFd
  BY LowestIsFree DEF Make
<1>2. SoleOwner'
  BY <1>1, DescriptorsAssumption DEF IInv, SoleOwner, UnboundStayOpen, FdTypeOK, Make, Assign, Owners, Fds, NoFd
<1>3. NothingElseLeaks'
  BY <1>1 DEF IInv, SoleOwner, NothingElseLeaks, FdTypeOK, Make, Assign, Owners, Fds, NoFd
<1>4. UnboundStayOpen'
  BY DEF IInv, SoleOwner, UnboundStayOpen, FdTypeOK, Owners, Fds, NoFd, Make, Assign
<1> QED
  BY <1>2, <1>3, <1>4 DEF IInv

(* Closing forgets the number. *)
LEMMA CloseStep ==
  ASSUME IInv, NEW h \in Handles, Close(h)
  PROVE  IInv'
<1>1. SoleOwner'
  BY DescriptorsAssumption DEF IInv, SoleOwner, FdTypeOK, Close, Forget, Owners, Fds, NoFd
<1>2. NothingElseLeaks'
  BY DEF IInv, SoleOwner, NothingElseLeaks, FdTypeOK, Close, Forget, Owners, Fds, NoFd
<1>3. UnboundStayOpen'
  BY DEF IInv, SoleOwner, UnboundStayOpen, FdTypeOK, Owners, Fds, NoFd, Close
<1> QED
  BY <1>1, <1>2, <1>3 DEF IInv

(* The two ends of a pipe go to two handles that had nothing. *)
LEMMA MakePipeStep ==
  ASSUME IInv, NEW h \in Handles, NEW g \in Handles, MakePipe(h, g)
  PROVE  IInv'
<1> DEFINE second == Min(Free \ {Lowest})
<1>1. Lowest \in Fds /\ Lowest \notin open /\ Lowest # NoFd
  BY LowestIsFree, SecondIsFree DEF MakePipe
<1>2. second \in Fds \ {Lowest} /\ second \notin open /\ second # NoFd
  BY SecondIsFree DEF MakePipe
<1>3. /\ own' = [own EXCEPT ![h] = Lowest, ![g] = second]
      /\ open' = open \cup {Lowest, second}
      /\ UNCHANGED <<st, backlog, unbound>>
      /\ h # g /\ own[h] = NoFd /\ own[g] = NoFd
  BY DEF MakePipe
<1> HIDE DEF second
<1>4. SoleOwner'
  BY <1>1, <1>2, <1>3, DescriptorsAssumption DEF IInv, SoleOwner, UnboundStayOpen, FdTypeOK, Owners, Fds, NoFd
<1>5. NothingElseLeaks'
  <2> SUFFICES ASSUME NEW x \in open', x \notin unbound'
               PROVE  \E o \in Owners : own'[o] = x
    BY DEF NothingElseLeaks
  <2>1. h \in Owners /\ g \in Owners /\ own \in [Owners -> Fds \cup {NoFd}]
    BY DEF Owners, IInv, SoleOwner, FdTypeOK
  <2>2. CASE x \in {Lowest, second}
    BY <1>3, <2>1, <2>2
  <2>3. CASE x \notin {Lowest, second}
    <3>1. x \in open /\ x \notin unbound /\ x # NoFd
      BY <1>3, <2>3 DEF IInv, SoleOwner, FdTypeOK, Fds, NoFd
    <3>2. PICK o \in Owners : own[o] = x
      BY <3>1 DEF IInv, NothingElseLeaks
    <3> QED
      BY <1>3, <2>1, <3>1, <3>2
  <2> QED
    BY <2>2, <2>3
<1>6. UnboundStayOpen'
  BY <1>3 DEF IInv, UnboundStayOpen
<1> QED
  BY <1>4, <1>5, <1>6 DEF IInv

(* A move closes the target's descriptor and leaves the source without. *)
LEMMA MoveStep ==
  ASSUME IInv, NEW h \in Handles, NEW g \in Handles, Move(h, g)
  PROVE  IInv'
<1>1. SoleOwner'
  BY DescriptorsAssumption DEF IInv, SoleOwner, FdTypeOK, Move, MoveInto, Owners, Fds, NoFd
<1>2. NothingElseLeaks'
  BY DEF IInv, SoleOwner, NothingElseLeaks, FdTypeOK, Move, MoveInto, Owners, Fds, NoFd
<1>3. UnboundStayOpen'
  BY DEF IInv, SoleOwner, UnboundStayOpen, FdTypeOK, Owners, Fds, NoFd, Move
<1> QED
  BY <1>1, <1>2, <1>3 DEF IInv

(* connect: the socket is in the frame, whatever ::connect answers. *)
LEMMA ConnectStep ==
  ASSUME IInv, NEW c \in Coros, Connect(c)
  PROVE  IInv'
<1>1. Lowest \in Fds /\ Lowest \notin open /\ Lowest # NoFd
  BY LowestIsFree DEF Connect
<1>2. SoleOwner'
  BY <1>1, DescriptorsAssumption DEF IInv, SoleOwner, UnboundStayOpen, FdTypeOK, Connect, Ends,
     Owners, Fds, NoFd, States
<1>3. NothingElseLeaks'
  BY <1>1 DEF IInv, SoleOwner, NothingElseLeaks, FdTypeOK, Connect, Owners, Fds, NoFd
<1>4. UnboundStayOpen'
  BY DEF IInv, UnboundStayOpen, Connect
<1> QED
  BY <1>2, <1>3, <1>4 DEF IInv

(* connect_from with a failed bind: the number is in no object. *)
LEMMA BindFailsStep ==
  ASSUME IInv, NEW c \in Coros, BindFails(c)
  PROVE  IInv'
<1>1. Lowest \in Fds /\ Lowest \notin open /\ Lowest # NoFd
  BY LowestIsFree DEF BindFails
<1>2. SoleOwner'
  BY <1>1, DescriptorsAssumption DEF IInv, SoleOwner, UnboundStayOpen, FdTypeOK, BindFails, Ends,
     Owners, Fds, NoFd, States
<1>3. NothingElseLeaks'
  BY <1>1 DEF IInv, SoleOwner, NothingElseLeaks, FdTypeOK, BindFails, Owners, Fds, NoFd
<1>4. UnboundStayOpen'
  BY DEF IInv, UnboundStayOpen, BindFails
<1> QED
  BY <1>2, <1>3, <1>4 DEF IInv

(* Steps that leave every descriptor where it is. *)
LEMMA QuietStep ==
  ASSUME IInv, UNCHANGED <<open, own, unbound>>,
         backlog' \in 0 .. MaxBacklog,
         \/ UNCHANGED st
         \/ \E c \in Coros, s \in States :
              /\ Ends(c, s)
              /\ s \in {"idle", "accepting", "woken"} => own[c] = NoFd
              /\ s \in {"connecting", "ready"} => own[c] # NoFd
  PROVE  IInv'
<1>1. FdTypeOK'
  BY DEF IInv, SoleOwner, FdTypeOK, Ends
<1>2. SoleOwner'
  BY <1>1 DEF IInv, SoleOwner
<1>3. NothingElseLeaks'
  BY DEF IInv, NothingElseLeaks
<1>4. UnboundStayOpen'
  BY DEF IInv, UnboundStayOpen
<1> QED
  BY <1>2, <1>3, <1>4 DEF IInv

(* An accepted connection belongs to the coroutine that accepted it. *)
LEMMA AcceptedStep ==
  ASSUME IInv, NEW c \in Coros,
         st[c] \in {"idle", "woken"}, Accepted(c)
  PROVE  IInv'
<1>1. Lowest \in Fds /\ Lowest \notin open /\ Lowest # NoFd
  BY LowestIsFree DEF Accepted
<1>2. own[c] = NoFd /\ c \in Owners
  BY DEF IInv, SoleOwner, FdTypeOK, Owners
<1>3. backlog' \in 0 .. MaxBacklog
  BY DescriptorsAssumption DEF Accepted, IInv, SoleOwner, FdTypeOK
<1>4. CASE Ends(c, "failed") /\ UNCHANGED <<open, own>>
  BY <1>2, <1>3, <1>4, QuietStep DEF Accepted, States
<1>5. CASE /\ open' = open \cup {Lowest}
           /\ own' = [own EXCEPT ![c] = Lowest]
           /\ Ends(c, "ready")
  <2>1. FdTypeOK'
    BY <1>1, <1>2, <1>3, <1>5 DEF Accepted, Ends, IInv, SoleOwner, FdTypeOK, Owners, States
  <2>2. SoleOwner'
    BY <1>1, <1>2, <1>5, <2>1 DEF Accepted, IInv, SoleOwner, UnboundStayOpen, FdTypeOK
  <2>3. NothingElseLeaks'
    BY <1>1, <1>2, <1>5 DEF Accepted, IInv, SoleOwner, NothingElseLeaks, FdTypeOK, Fds, NoFd
  <2>4. UnboundStayOpen'
    BY <1>5 DEF Accepted, IInv, UnboundStayOpen
  <2> QED
    BY <2>2, <2>3, <2>4 DEF IInv
<1> QED
  BY <1>4, <1>5 DEF Accepted

(* The result of a coroutine moves to a handle. *)
LEMMA TakeResultStep ==
  ASSUME IInv, NEW c \in Coros, NEW h \in Handles, TakeResult(c, h)
  PROVE  IInv'
<1>1. h # c
  BY DescriptorsAssumption
<1>2. SoleOwner'
  BY <1>1, DescriptorsAssumption DEF IInv, SoleOwner, FdTypeOK, TakeResult, MoveInto, Ends, Owners,
     Fds, NoFd, States
<1>3. NothingElseLeaks'
  <2> SUFFICES ASSUME NEW x \in open', x \notin unbound'
               PROVE  \E o \in Owners : own'[o] = x
    BY DEF NothingElseLeaks
  <2>1. x \in open /\ x # own[h] /\ x \notin unbound
    BY DEF TakeResult
  <2>2. PICK o \in Owners : own[o] = x
    BY <2>1 DEF IInv, NothingElseLeaks
  <2>3. own' = [own EXCEPT ![h] = own[c], ![c] = NoFd] /\ own \in [Owners -> Fds \cup {NoFd}]
    BY DEF TakeResult, MoveInto, IInv, SoleOwner, FdTypeOK
  <2>4. CASE o = c
    BY <1>1, <2>2, <2>3, <2>4 DEF Owners
  <2>5. CASE o # c
    BY <2>1, <2>2, <2>3, <2>5 DEF Owners
  <2> QED
    BY <2>4, <2>5
<1>4. UnboundStayOpen'
  BY DEF IInv, SoleOwner, UnboundStayOpen, FdTypeOK, Owners, Fds, NoFd, TakeResult
<1> QED
  BY <1>2, <1>3, <1>4 DEF IInv

(* A dropped future closes what its frame or its result owns. *)
LEMMA DropStep ==
  ASSUME IInv, NEW c \in Coros, Drop(c)
  PROVE  IInv'
<1>1. SoleOwner'
  BY DescriptorsAssumption DEF IInv, SoleOwner, FdTypeOK, Drop, Forget, Ends, Owners, Fds, NoFd, States
<1>2. NothingElseLeaks'
  BY DEF IInv, SoleOwner, NothingElseLeaks, FdTypeOK, Drop, Forget, Owners, Fds, NoFd
<1>3. UnboundStayOpen'
  BY DEF IInv, SoleOwner, UnboundStayOpen, FdTypeOK, Owners, Fds, NoFd, Drop
<1> QED
  BY <1>1, <1>2, <1>3 DEF IInv

(* Every step keeps the two properties. *)
LEMMA NextIInv ==
  ASSUME IInv, [FdNext]_fdVars
  PROVE  IInv'
<1>1. FdTypeOK /\ backlog \in 0 .. MaxBacklog
  BY DEF IInv, SoleOwner, FdTypeOK
<1>2. CASE UNCHANGED fdVars
  BY <1>1, <1>2, QuietStep DEF fdVars
<1>3. ASSUME NEW h \in Handles, Make(h) \/ Close(h) PROVE IInv'
  BY <1>3, MakeStep, CloseStep
<1>4. ASSUME NEW h \in Handles, NEW g \in Handles, MakePipe(h, g) \/ Move(h, g) PROVE IInv'
  BY <1>4, MakePipeStep, MoveStep
<1>5. ASSUME NEW c \in Coros, SocketFails(c) PROVE IInv'
  BY <1>1, <1>5, QuietStep DEF SocketFails, States
<1>6. ASSUME NEW c \in Coros, Connect(c) \/ BindFails(c) \/ Drop(c) PROVE IInv'
  BY <1>6, ConnectStep, BindFailsStep, DropStep
<1>7. ASSUME NEW c \in Coros, ConnectEnds(c) PROVE IInv'
  <2>1. own[c] # NoFd
    BY <1>1, <1>7 DEF FdTypeOK, ConnectEnds
  <2> QED
    BY <1>1, <1>7, <2>1, QuietStep DEF ConnectEnds, States
<1>8. ASSUME NEW c \in Coros, Accept(c) PROVE IInv'
  <2>1. own[c] = NoFd
    BY <1>1, <1>8 DEF FdTypeOK, Accept
  <2>2. CASE Accepted(c)
    BY <1>8, <2>2, AcceptedStep DEF Accept
  <2>3. CASE ~Accepted(c)
    BY <1>1, <1>8, <2>1, <2>3, QuietStep DEF Accept, States
  <2> QED
    BY <2>2, <2>3
<1>9. ASSUME NEW c \in Coros, AcceptWakes(c) PROVE IInv'
  <2>1. own[c] = NoFd
    BY <1>1, <1>9 DEF FdTypeOK, AcceptWakes
  <2> QED
    BY <1>1, <1>9, <2>1, QuietStep DEF AcceptWakes, States
<1>10. ASSUME NEW c \in Coros, AcceptAgain(c) PROVE IInv'
  <2>1. CASE Accepted(c)
    BY <1>10, <2>1, AcceptedStep DEF AcceptAgain
  <2>2. CASE ~Accepted(c)
    BY <1>1, <1>10, <2>2, QuietStep DEF AcceptAgain, States
  <2> QED
    BY <2>1, <2>2
<1>11. ASSUME NEW c \in Coros, NEW h \in Handles, TakeResult(c, h) PROVE IInv'
  BY <1>11, TakeResultStep
<1>12. CASE Incoming
  <2>1. backlog' \in 0 .. MaxBacklog
    BY <1>1, <1>12, DescriptorsAssumption DEF Incoming
  <2> QED
    BY <1>12, <2>1, QuietStep DEF Incoming
<1> QED
  BY <1>2, <1>3, <1>4, <1>5, <1>6, <1>7, <1>8, <1>9, <1>10, <1>11, <1>12 DEF FdNext

(* A descriptor is owned by one handle, frame or result, and what is owned  *)
(* is open: no number is closed twice or after it went to somebody else     *)
(* (SetDefaultOnMove, close() and the destructors of the handle classes).   *)
THEOREM OneOwner ==
  FdSpec => []SoleOwner
<1>1. FdInit => IInv
  BY InitIInv
<1>2. IInv /\ [FdNext]_fdVars => IInv'
  BY NextIInv
<1>3. IInv => SoleOwner
  BY DEF IInv
<1> QED
  BY <1>1, <1>2, <1>3, PTL DEF FdSpec

(* An open descriptor is owned, or is one that connect_from could not bind: *)
(* no other failure, no move and no drop of a suspended coroutine loses one. *)
THEOREM OnlyUnboundLeaks ==
  FdSpec => []NothingElseLeaks
<1>1. FdInit => IInv
  BY InitIInv
<1>2. IInv /\ [FdNext]_fdVars => IInv'
  BY NextIInv
<1>3. IInv => NothingElseLeaks
  BY DEF IInv
<1> QED
  BY <1>1, <1>2, <1>3, PTL DEF FdSpec

-----------------------------------------------------------------------------
(* Vectors. *)

(* Every vector, with the one that some calls build. *)
AllVecs == Vecs \cup {Temp}

Cell == Values \cup {Raw, Moved}
Header == [data : 0 .. Buffers, size : Nat, cap : Nat]

(* m_size and m_capacity are right, and nothing is left to destroy behind   *)
(* the last element.                                                        *)
Fits(s, v) ==
  /\ s.vec[v].size <= s.vec[v].cap /\ Len(Cells(s, v)) = s.vec[v].cap
  /\ \A k \in s.vec[v].size + 1 .. s.vec[v].cap : Cells(s, v)[k] \in {Raw, Moved}
  /\ s.vec[v].data # Null => s.mem[s.vec[v].data] # NoBuffer

(* Memory in which every buffer belongs to one vector. *)
Sound(s) ==
  /\ s \in [vec : [AllVecs -> Header], mem : [Places -> Seq(Cell)]]
  /\ \A v \in AllVecs : Fits(s, v)
  /\ \A b \in Places : s.mem[b] # NoBuffer => \E v \in AllVecs : s.vec[v].data = b
  /\ \A v, w \in AllVecs : v # w /\ s.vec[v].data # Null => s.vec[v].data # s.vec[w].data

Memory == {s \in [vec : [AllVecs -> Header], mem : [Places -> Seq(Cell)]] : Sound(s)}
Outcomes == [ok : BOOLEAN, s : Memory]

Elements(s, v) == SubSeq(Cells(s, v), 1, s.vec[v].size)

(* From s to t only vector v changes; it has the elements xs then. *)
Becomes(s, t, v, xs) ==
  /\ Sound(t) /\ Elements(t, v) = xs
  /\ \A w \in AllVecs \ {v} : t.vec[w] = s.vec[w] /\ Cells(t, w) = Cells(s, w)

(* Cells as sequences. *)
LEMMA FunctionIsSeq ==
  ASSUME NEW S, NEW n \in Nat, NEW f \in [1 .. n -> S]
  PROVE  f \in Seq(S) /\ Len(f) = n /\ DOMAIN f = 1 .. n
OBVIOUS

LEMMA OutcomeOf ==
  ASSUME NEW s, Sound(s)
  PROVE  s \in Memory /\ Ok(s) \in Outcomes /\ Failure(s) \in Outcomes
BY DEF Sound, Memory, Outcomes, Ok, Failure

(* What is known of the cells of a vector. *)
LEMMA CellsOf ==
  ASSUME NEW s, Sound(s), NEW v \in AllVecs
  PROVE  /\ s.vec[v] \in Header /\ s.vec[v].size \in Nat /\ s.vec[v].cap \in Nat
         /\ s.vec[v].size <= s.vec[v].cap
         /\ Cells(s, v) \in Seq(Cell) /\ Len(Cells(s, v)) = s.vec[v].cap /\ DOMAIN Cells(s, v) = 1 .. s.vec[v].cap
         /\ \A k \in s.vec[v].size + 1 .. s.vec[v].cap : Cells(s, v)[k] \in {Raw, Moved}
         /\ s.vec[v].data # Null => /\ s.vec[v].data \in Places /\ Cells(s, v) = s.mem[s.vec[v].data]
                                    /\ s.mem[s.vec[v].data] # NoBuffer
         /\ s.vec[v].data = Null => Cells(s, v) = <<>> /\ s.vec[v].cap = 0 /\ s.vec[v].size = 0
<1>1. s.vec[v] \in Header /\ s.mem \in [Places -> Seq(Cell)] /\ Fits(s, v)
  BY DEF Sound
<1>2. s.vec[v].data # Null => s.vec[v].data \in Places
  BY <1>1, VectorAssumption DEF Header, Places, Null
<1>3. Cells(s, v) \in Seq(Cell)
  BY <1>1, <1>2 DEF Cells
<1> QED
  BY <1>1, <1>2, <1>3 DEF Cells, Fits, Header

(* The elements of a vector, one by one. *)
LEMMA ElementsOf ==
  ASSUME NEW s, Sound(s), NEW v \in AllVecs
  PROVE  /\ Elements(s, v) \in Seq(Cell) /\ Len(Elements(s, v)) = s.vec[v].size
         /\ \A k \in 1 .. s.vec[v].size : Elements(s, v)[k] = Cells(s, v)[k]
BY CellsOf DEF Elements

LEMMA ElementsAre ==
  ASSUME NEW s, Sound(s), NEW v \in AllVecs, NEW S, NEW xs \in Seq(S), Len(xs) = s.vec[v].size,
         \A k \in 1 .. s.vec[v].size : Cells(s, v)[k] = xs[k]
  PROVE  Elements(s, v) = xs
BY ElementsOf

(* One change after another. *)
LEMMA BecomesThen ==
  ASSUME NEW s, NEW t, NEW u, NEW v \in AllVecs, NEW xs, NEW ys, Becomes(s, t, v, xs), Becomes(t, u, v, ys)
  PROVE  Becomes(s, u, v, ys)
BY DEF Becomes

(* One vector gets other members, and perhaps another buffer.               *)
LEMMA SoundChange ==
  ASSUME NEW s, Sound(s), NEW v \in AllVecs, NEW t \in [vec : [AllVecs -> Header], mem : [Places -> Seq(Cell)]],
         \A w \in AllVecs \ {v} : t.vec[w] = s.vec[w],
         \A b \in Places : b # s.vec[v].data /\ b # t.vec[v].data => t.mem[b] = s.mem[b],
         t.vec[v].data = s.vec[v].data
         \/ /\ s.vec[v].data # Null => t.mem[s.vec[v].data] = NoBuffer
            /\ t.vec[v].data # Null => s.mem[t.vec[v].data] = NoBuffer,
         Fits(t, v)
  PROVE  Sound(t) /\ \A w \in AllVecs \ {v} : t.vec[w] = s.vec[w] /\ Cells(t, w) = Cells(s, w)
<1> DEFINE h == t.vec[v]
           m == t.mem
<1> HIDE DEF h, m
<1>1. /\ s.vec \in [AllVecs -> Header] /\ s.mem \in [Places -> Seq(Cell)]
      /\ \A w \in AllVecs : Fits(s, w)
      /\ \A b \in Places : s.mem[b] # NoBuffer => \E w \in AllVecs : s.vec[w].data = b
      /\ \A w, x \in AllVecs : w # x /\ s.vec[w].data # Null => s.vec[w].data # s.vec[x].data
  BY DEF Sound
<1>2. t.vec \in [AllVecs -> Header] /\ t.mem = m /\ t.vec[v] = h /\ \A w \in AllVecs \ {v} : t.vec[w] = s.vec[w]
  BY DEF h, m
<1>3. \A w \in AllVecs : s.vec[w].data # Null => s.vec[w].data \in Places /\ s.mem[s.vec[w].data] # NoBuffer
  BY CellsOf
<1>4. h.data # Null => h.data \in Places
  BY <1>2, VectorAssumption DEF Header, Places, Null
<1>5. \A w \in AllVecs \ {v} : s.vec[w].data # Null => m[s.vec[w].data] = s.mem[s.vec[w].data]
  BY <1>1, <1>3, <1>4 DEF h, m
<1>6. \A w \in AllVecs \ {v} : Cells(t, w) = Cells(s, w)
  BY <1>2, <1>5 DEF Cells
<1>7. ASSUME NEW w \in AllVecs PROVE Fits(t, w)
  <2>1. CASE w = v
    BY <2>1
  <2>2. CASE w # v
    <3>1. t.vec[w] = s.vec[w] /\ Cells(t, w) = Cells(s, w) /\ Fits(s, w)
      BY <1>1, <1>2, <1>6, <2>2
    <3>2. s.vec[w].data # Null => t.mem[s.vec[w].data] # NoBuffer
      BY <1>2, <1>3, <1>5, <2>2
    <3> QED
      BY <3>1, <3>2 DEF Fits
  <2> QED
    BY <2>1, <2>2
<1>8. ASSUME NEW b \in Places, m[b] # NoBuffer PROVE \E w \in AllVecs : t.vec[w].data = b
  <2>1. CASE b = h.data
    BY <1>2, <2>1
  <2>2. CASE b # h.data
    <3>1. b # s.vec[v].data
      BY <1>8, <2>2 DEF Null, Places, h, m
    <3>2. PICK w \in AllVecs : s.vec[w].data = b
      BY <1>1, <1>8, <2>2, <3>1 DEF h, m
    <3> QED
      BY <1>2, <3>1, <3>2
  <2> QED
    BY <2>1, <2>2
<1>9. ASSUME NEW w \in AllVecs, NEW x \in AllVecs, w # x, t.vec[w].data # Null PROVE t.vec[w].data # t.vec[x].data
  <2>1. CASE w # v /\ x # v
    BY <1>1, <1>2, <1>9, <2>1
  <2>2. CASE w = v
    BY <1>1, <1>2, <1>3, <1>9, <2>2 DEF h
  <2>3. CASE x = v
    BY <1>1, <1>2, <1>3, <1>9, <2>3 DEF h
  <2> QED
    BY <2>1, <2>2, <2>3
<1> QED
  BY <1>2, <1>6, <1>7, <1>8, <1>9 DEF Sound

-----------------------------------------------------------------------------
(* The parts of calls. *)

(* Other cells and another size, in the same buffer. *)
LEMMA WithCellsSound ==
  ASSUME NEW s, Sound(s), NEW v \in AllVecs, NEW cells \in Seq(Cell), Len(cells) = s.vec[v].cap,
         NEW n \in Nat, n <= s.vec[v].cap, \A k \in n + 1 .. s.vec[v].cap : cells[k] \in {Raw, Moved}
  PROVE  LET t == WithCells(s, v, cells, n)
         IN /\ Becomes(s, t, v, SubSeq(cells, 1, n))
            /\ t.vec[v].size = n /\ t.vec[v].cap = s.vec[v].cap /\ Cells(t, v) = cells
<1> DEFINE t == WithCells(s, v, cells, n)
           h == [s.vec[v] EXCEPT !.size = n]
           m == IF s.vec[v].data = Null THEN s.mem ELSE [s.mem EXCEPT ![s.vec[v].data] = cells]
<1>1. /\ s.vec \in [AllVecs -> Header] /\ s.mem \in [Places -> Seq(Cell)] /\ s.vec[v] \in Header
      /\ s.vec[v].data # Null => s.vec[v].data \in Places /\ s.mem[s.vec[v].data] # NoBuffer
      /\ s.vec[v].data # Null => Cells(s, v) = s.mem[s.vec[v].data]
      /\ s.vec[v].data = Null => s.vec[v].cap = 0
      /\ Len(Cells(s, v)) = s.vec[v].cap
  BY CellsOf DEF Sound
<1>2. t = [vec |-> [s.vec EXCEPT ![v] = h], mem |-> m]
  BY <1>1 DEF WithCells
<1>3. h \in Header /\ h.data = s.vec[v].data /\ h.cap = s.vec[v].cap /\ h.size = n
  BY <1>1 DEF Header
<1>4. m \in [Places -> Seq(Cell)] /\ \A b \in Places : b # s.vec[v].data => m[b] = s.mem[b]
  BY <1>1
<1>5. s.vec[v].data # Null => m[s.vec[v].data] = cells /\ cells # NoBuffer
  BY <1>1 DEF NoBuffer
<1> HIDE DEF t, h, m
<1>6. t.vec[v] = h /\ t.mem = m
  BY <1>1, <1>2
<1>7. Cells(t, v) = cells
  BY <1>1, <1>3, <1>5, <1>6 DEF Cells
<1>8. Fits(t, v)
  BY <1>3, <1>5, <1>6, <1>7 DEF Fits
<1>9. Sound(t) /\ \A w \in AllVecs \ {v} : t.vec[w] = s.vec[w] /\ Cells(t, w) = Cells(s, w)
  <2>1. t \in [vec : [AllVecs -> Header], mem : [Places -> Seq(Cell)]]
    BY <1>1, <1>2, <1>3, <1>4, <1>6
  <2>2. \A w \in AllVecs \ {v} : t.vec[w] = s.vec[w]
    BY <1>1, <1>2, <1>3, <1>4, <1>6
  <2>3. \A b \in Places : b # s.vec[v].data /\ b # t.vec[v].data => t.mem[b] = s.mem[b]
    BY <1>1, <1>2, <1>3, <1>4, <1>6
  <2>4. \/ t.vec[v].data = s.vec[v].data
       \/ /\ s.vec[v].data # Null => t.mem[s.vec[v].data] = NoBuffer
          /\ t.vec[v].data # Null => s.mem[t.vec[v].data] = NoBuffer
    BY <1>1, <1>2, <1>3, <1>4, <1>6
  <2> QED
    BY <2>1, <2>2, <2>3, <2>4, <1>8, SoundChange
<1>10. Elements(t, v) = SubSeq(cells, 1, n)
  BY <1>3, <1>6, <1>7 DEF Elements
<1> QED
  BY <1>3, <1>6, <1>7, <1>9, <1>10 DEF Becomes, t

(* reserve() *)
LEMMA ReserveSound ==
  ASSUME NEW s, Sound(s), NEW v \in AllVecs, NEW n \in Nat, NEW r \in Reserve(s, v, n)
  PROVE  /\ r \in Outcomes /\ Becomes(s, r.s, v, Elements(s, v)) /\ r.s.vec[v].size = s.vec[v].size
         /\ r.ok => r.s.vec[v].cap = IF n <= s.vec[v].cap THEN s.vec[v].cap ELSE n
         /\ ~r.ok => r.s = s
<1>1. /\ s.vec[v] \in Header /\ s.vec[v].size \in Nat /\ s.vec[v].cap \in Nat /\ s.vec[v].size <= s.vec[v].cap
      /\ Cells(s, v) \in Seq(Cell) /\ Len(Cells(s, v)) = s.vec[v].cap /\ DOMAIN Cells(s, v) = 1 .. s.vec[v].cap
      /\ s.vec[v].data # Null => s.vec[v].data \in Places
      /\ s.vec \in [AllVecs -> Header] /\ s.mem \in [Places -> Seq(Cell)]
      /\ s.vec[v].data # Null => s.mem[s.vec[v].data] # NoBuffer
  BY CellsOf DEF Sound
<1>2. Becomes(s, s, v, Elements(s, v))
  BY DEF Becomes
<1>3. CASE r = Ok(s) /\ n <= s.vec[v].cap
  BY <1>1, <1>2, <1>3, OutcomeOf DEF Ok
<1>4. CASE r = Failure(s)
  BY <1>1, <1>2, <1>4, OutcomeOf DEF Failure
<1> DEFINE cells == [k \in 1 .. n |-> IF k <= s.vec[v].size THEN Cells(s, v)[k] ELSE Raw]
           h(b) == WithBuffer(s.vec[v], b, n)
           m(b) == [Released(s.mem, s.vec[v].data) EXCEPT ![b] = cells]
           t(b) == [vec |-> [s.vec EXCEPT ![v] = h(b)], mem |-> m(b)]
<1>5. CASE ~(n <= s.vec[v].cap) /\ \E b \in Places : s.mem[b] = NoBuffer /\ r = Ok(t(b))
  <2>1. PICK b \in Places : s.mem[b] = NoBuffer /\ r = Ok(t(b))
    BY <1>5
  <2>2. cells \in [1 .. n -> Cell]
    BY <1>1 DEF Cell
  <2>3. cells \in Seq(Cell) /\ Len(cells) = n /\ \A k \in 1 .. n : cells[k] = IF k <= s.vec[v].size THEN Cells(s, v)[k] ELSE Raw
    BY <2>2
  <2> HIDE DEF cells
  <2>4. b # s.vec[v].data /\ b # Null /\ b \in 0 .. Buffers
    BY <1>1, <2>1, VectorAssumption DEF Places, Null
  <2>5. h(b) \in Header /\ h(b).data = b /\ h(b).cap = n /\ h(b).size = s.vec[v].size
    BY <1>1, <2>4 DEF WithBuffer, Header
  <2>6. Released(s.mem, s.vec[v].data) \in [Places -> Seq(Cell)]
    BY <1>1 DEF Released, NoBuffer
  <2>7. /\ m(b) \in [Places -> Seq(Cell)] /\ m(b)[b] = cells
        /\ \A c \in Places : c # s.vec[v].data /\ c # b => m(b)[c] = s.mem[c]
        /\ s.vec[v].data # Null => m(b)[s.vec[v].data] = NoBuffer
    BY <1>1, <2>3, <2>4, <2>6 DEF Released
  <2> DEFINE hb == h(b)
             mb == m(b)
             tb == t(b)
  <2>8. tb = [vec |-> [s.vec EXCEPT ![v] = hb], mem |-> mb]
    OBVIOUS
  <2> HIDE DEF h, m, t
  <2>9. tb.vec[v] = hb /\ tb.mem = mb
    BY <1>1, <2>8
  <2>10. Cells(tb, v) = cells
    BY <2>4, <2>5, <2>7, <2>9 DEF Cells
  <2>11. Fits(tb, v)
    <3>1. cells # NoBuffer
      BY <1>1, <1>5, <2>3 DEF NoBuffer
    <3> QED
      BY <1>1, <1>5, <2>3, <2>5, <2>7, <2>9, <2>10, <3>1 DEF Fits
  <2>12. Sound(tb) /\ \A w \in AllVecs \ {v} : tb.vec[w] = s.vec[w] /\ Cells(tb, w) = Cells(s, w)
    <3>1. tb \in [vec : [AllVecs -> Header], mem : [Places -> Seq(Cell)]]
      BY <1>1, <2>1, <2>5, <2>7, <2>8, <2>9
    <3>2. \A w \in AllVecs \ {v} : tb.vec[w] = s.vec[w]
      BY <1>1, <2>1, <2>5, <2>7, <2>8, <2>9
    <3>3. \A a \in Places : a # s.vec[v].data /\ a # tb.vec[v].data => tb.mem[a] = s.mem[a]
      BY <1>1, <2>1, <2>5, <2>7, <2>8, <2>9
    <3>4. \/ tb.vec[v].data = s.vec[v].data
         \/ /\ s.vec[v].data # Null => tb.mem[s.vec[v].data] = NoBuffer
            /\ tb.vec[v].data # Null => s.mem[tb.vec[v].data] = NoBuffer
      BY <1>1, <2>1, <2>5, <2>7, <2>8, <2>9
    <3> QED
      BY <3>1, <3>2, <3>3, <3>4, <2>11, SoundChange
  <2>13. Elements(tb, v) = Elements(s, v)
    <3>1. \A k \in 1 .. s.vec[v].size : cells[k] = Cells(s, v)[k]
      BY <1>1, <1>5, <2>3
    <3> QED
      BY <2>5, <2>9, <2>10, <2>12, <3>1, ElementsOf, ElementsAre
  <2> QED
    BY <1>1, <1>5, <2>1, <2>5, <2>9, <2>12, <2>13, OutcomeOf DEF Becomes, Ok
<1>6. (r = Ok(s) /\ n <= s.vec[v].cap) \/ r = Failure(s) \/ (~(n <= s.vec[v].cap) /\ \E b \in Places : s.mem[b] = NoBuffer /\ r = Ok(t(b)))
  <2>1. CASE n <= s.vec[v].cap
    BY <2>1 DEF Reserve
  <2>2. CASE ~(n <= s.vec[v].cap)
    <3> DEFINE free == FreeBuffers(s.mem, n)
    <3>1. r = Failure(s) \/ \E b \in IF free = {} THEN {} ELSE {Min(free)} : r = Ok(t(b))
      BY <2>2 DEF Reserve
    <3>2. free \subseteq {b \in Places : s.mem[b] = NoBuffer} /\ free \subseteq Nat
      BY DEF FreeBuffers, Places
    <3> HIDE DEF free, t
    <3>3. free # {} => Min(free) \in free
      BY <3>2, MinNat
    <3> QED
      BY <2>2, <3>1, <3>2, <3>3
  <2> QED
    BY <2>1, <2>2
<1> QED
  BY <1>3, <1>4, <1>5, <1>6

(* push_back() where there is room. *)
LEMMA PushExact ==
  ASSUME NEW s, NEW v, NEW x, s.vec[v].size # s.vec[v].cap
  PROVE  Push(s, v, x) = {Ok(WithCells(s, v, [Cells(s, v) EXCEPT ![s.vec[v].size + 1] = x], s.vec[v].size + 1))}
<1> DEFINE Put(t) == {Ok(WithCells(t, v, [Cells(t, v) EXCEPT ![t.vec[v].size + 1] = x], t.vec[v].size + 1))}
<1>1. Push(s, v, x) = UNION {IF r.ok THEN Put(r.s) ELSE {r} : r \in {Ok(s)}}
  BY DEF Push, Then
<1> HIDE DEF Put
<1>2. UNION {IF r.ok THEN Put(r.s) ELSE {r} : r \in {Ok(s)}} = Put(s)
  BY DEF Ok
<1> QED
  BY <1>1, <1>2 DEF Put

LEMMA PushRoom ==
  ASSUME NEW s, Sound(s), NEW v \in AllVecs, NEW x \in Cell, s.vec[v].size < s.vec[v].cap, NEW r \in Push(s, v, x)
  PROVE  /\ r \in Outcomes /\ r.ok /\ Becomes(s, r.s, v, Append(Elements(s, v), x))
         /\ r.s.vec[v].size = s.vec[v].size + 1 /\ r.s.vec[v].cap = s.vec[v].cap
<1> DEFINE n == s.vec[v].size + 1
           cells == [Cells(s, v) EXCEPT ![n] = x]
           t == WithCells(s, v, cells, n)
<1>1. /\ s.vec[v].size \in Nat /\ s.vec[v].cap \in Nat /\ Cells(s, v) \in Seq(Cell) /\ Len(Cells(s, v)) = s.vec[v].cap
      /\ \A k \in s.vec[v].size + 1 .. s.vec[v].cap : Cells(s, v)[k] \in {Raw, Moved}
  BY CellsOf
<1>2. r = Ok(t)
  BY <1>1, PushExact
<1>3. n \in 1 .. s.vec[v].cap
  BY <1>1
<1>4. cells \in Seq(Cell) /\ Len(cells) = s.vec[v].cap /\ \A k \in 1 .. s.vec[v].cap : cells[k] = IF k = n THEN x ELSE Cells(s, v)[k]
  BY <1>1, <1>3, ExceptSeq
<1>5. \A k \in n + 1 .. s.vec[v].cap : cells[k] \in {Raw, Moved}
  BY <1>1, <1>3, <1>4
<1> HIDE DEF cells
<1>6. Becomes(s, t, v, SubSeq(cells, 1, n)) /\ t.vec[v].size = n /\ t.vec[v].cap = s.vec[v].cap
  BY <1>3, <1>4, <1>5, WithCellsSound
<1>7. SubSeq(cells, 1, n) = Append(Elements(s, v), x)
  <2>1. SubSeq(cells, 1, n) \in Seq(Cell) /\ Len(SubSeq(cells, 1, n)) = n /\ \A k \in 1 .. n : SubSeq(cells, 1, n)[k] = cells[k]
    BY <1>3, <1>4
  <2>2. Elements(s, v) \in Seq(Cell) /\ Len(Elements(s, v)) = n - 1 /\ \A k \in 1 .. n - 1 : Elements(s, v)[k] = Cells(s, v)[k]
    BY <1>1, ElementsOf
  <2> DEFINE e == Elements(s, v)
             f == SubSeq(cells, 1, n)
             g == Append(e, x)
  <2>3. /\ g \in Seq(Cell) /\ Len(g) = n /\ \A k \in 1 .. n - 1 : g[k] = e[k]
        /\ g[n] = x
    BY <1>1, <2>2, AppendProperties
  <2>4. \A k \in 1 .. n : f[k] = g[k]
    <3> HIDE DEF f, g, e
    <3>1. \A k \in 1 .. n : k = n \/ k \in 1 .. n - 1
      BY <1>3
    <3>2. \A k \in 1 .. n - 1 : k \in 1 .. s.vec[v].cap /\ k # n
      BY <1>1, <1>3
    <3> QED
      BY <1>3, <1>4, <2>1, <2>2, <2>3, <3>1, <3>2 DEF e, f
  <2> HIDE DEF f, g, e
  <2> QED
    BY <2>1, <2>3, <2>4, SeqEqual DEF f, g, e
<1> QED
  BY <1>2, <1>6, <1>7, OutcomeOf DEF Ok, Becomes

(* A vector that grows gets more room. *)
LEMMA GrownMore ==
  ASSUME NEW n \in Nat
  PROVE  Grown(n) \in Nat /\ Grown(n) > n
<1> DEFINE S == {MinGrow, 2 * n}
<1>1. S \subseteq Nat /\ MinGrow \in S /\ 2 * n \in S /\ MinGrow > 0
  BY VectorAssumption
<1>2. MinGrow <= 2 * n => Max(S) = 2 * n
  BY <1>1 DEF Max
<1>3. ~(MinGrow <= 2 * n) => Max(S) = MinGrow
  BY <1>1 DEF Max
<1> QED
  BY <1>1, <1>2, <1>3 DEF Grown

(* push_back() at any time. *)
LEMMA PushSound ==
  ASSUME NEW s, Sound(s), NEW v \in AllVecs, NEW x \in Cell, NEW r \in Push(s, v, x)
  PROVE  /\ r \in Outcomes
         /\ r.ok => Becomes(s, r.s, v, Append(Elements(s, v), x))
         /\ ~r.ok => r.s = s
<1>1. s.vec[v].size \in Nat /\ s.vec[v].cap \in Nat /\ s.vec[v].size <= s.vec[v].cap
  BY CellsOf
<1>2. CASE s.vec[v].size # s.vec[v].cap
  BY <1>1, <1>2, PushRoom
<1>3. CASE s.vec[v].size = s.vec[v].cap
  <2> DEFINE n == Grown(s.vec[v].size)
  <2>1. n \in Nat /\ n > s.vec[v].size
    BY <1>1, GrownMore
  <2> HIDE DEF n
  <2> DEFINE Put(t) == WithCells(t, v, [Cells(t, v) EXCEPT ![t.vec[v].size + 1] = x], t.vec[v].size + 1)
  <2>2. PICK q \in Reserve(s, v, n) : (q.ok /\ r = Ok(Put(q.s))) \/ (~q.ok /\ r = q)
    BY <1>3 DEF Push, Then, n
  <2>3. /\ q \in Outcomes /\ Becomes(s, q.s, v, Elements(s, v)) /\ q.s.vec[v].size = s.vec[v].size
        /\ q.ok => q.s.vec[v].cap >= n
        /\ ~q.ok => q.s = s
    BY <1>1, <2>1, ReserveSound
  <2>4. CASE q.ok
    <3>1. Sound(q.s) /\ q.s.vec[v].cap \in Nat
      BY <2>3, CellsOf DEF Becomes
    <3>2. q.s.vec[v].size < q.s.vec[v].cap
      BY <1>1, <2>1, <2>3, <2>4, <3>1
    <3>3. r \in Push(q.s, v, x)
      <4> DEFINE t == q.s
      <4>1. t.vec[v].size # t.vec[v].cap
        BY <1>1, <2>3, <3>1, <3>2
      <4> HIDE DEF t
      <4>2. Push(t, v, x) = {Ok(Put(t))}
        BY <4>1, PushExact
      <4> QED
        BY <2>2, <2>4, <4>2 DEF t
    <3>4. r \in Outcomes /\ r.ok /\ Becomes(q.s, r.s, v, Append(Elements(q.s, v), x))
      BY <3>1, <3>2, <3>3, PushRoom
    <3>5. Elements(q.s, v) = Elements(s, v)
      BY <2>3 DEF Becomes
    <3> QED
      BY <2>3, <3>4, <3>5, BecomesThen
  <2>5. CASE ~q.ok
    BY <2>2, <2>3, <2>5
  <2> QED
    BY <2>4, <2>5
<1> QED
  BY <1>2, <1>3

(* A sequence continued with another, element by element. *)
Continues(a, b) ==
  /\ a \o SubSeq(b, 1, 0) = a
  /\ a \o SubSeq(b, 1, Len(b)) = a \o b
  /\ \A n \in 1 .. Len(b) : a \o SubSeq(b, 1, n) = Append(a \o SubSeq(b, 1, n - 1), b[n])

LEMMA Continued ==
  ASSUME NEW S, NEW a \in Seq(S), NEW b \in Seq(S)
  PROVE  Continues(a, b)
<1>1. a \o SubSeq(b, 1, 0) = a
  OBVIOUS
<1>2. SubSeq(b, 1, Len(b)) = b
  OBVIOUS
<1>3. ASSUME NEW n \in 1 .. Len(b)
      PROVE  a \o SubSeq(b, 1, n) = Append(a \o SubSeq(b, 1, n - 1), b[n])
  <2> DEFINE c == SubSeq(b, 1, n)
             d == SubSeq(b, 1, n - 1)
  <2>1. /\ c \in Seq(S) /\ Len(c) = n /\ \A k \in 1 .. n : c[k] = b[k]
        /\ d \in Seq(S) /\ Len(d) = n - 1 /\ \A k \in 1 .. n - 1 : d[k] = b[k]
        /\ b[n] \in S /\ n - 1 \in Nat
    OBVIOUS
  <2> HIDE DEF c, d
  <2>2. c = Append(d, b[n])
    <3>1. Append(d, b[n]) \in Seq(S) /\ Len(Append(d, b[n])) = n
      BY <2>1, AppendProperties
    <3>2. \A k \in 1 .. n : c[k] = Append(d, b[n])[k]
      BY <2>1, AppendProperties
    <3> QED
      BY <2>1, <3>1, <3>2, SeqEqual
  <2>3. a \o Append(d, b[n]) = Append(a \o d, b[n])
    BY <2>1
  <2> QED
    BY <2>2, <2>3 DEF c, d
<1> QED
  BY <1>1, <1>2, <1>3 DEF Continues

(* push_back() of several elements for which there is room. *)
LEMMA PushAllRoom ==
  ASSUME NEW s, Sound(s), NEW v \in AllVecs, NEW xs \in Seq(Cell),
         s.vec[v].size + Len(xs) <= s.vec[v].cap, NEW r \in PushAll(s, v, xs)
  PROVE  r \in Outcomes /\ r.ok /\ Becomes(s, r.s, v, Elements(s, v) \o xs)
<1> DEFINE N == Len(xs)
           Step(k, x) == UNION {IF q.ok THEN Push(q.s, v, xs[k]) ELSE {q} : q \in x}
           base == {Ok(s)}
           Def(f) == [k \in 0 .. N |-> IF k = 0 THEN base
                                       ELSE UNION {IF q.ok THEN Push(q.s, v, xs[k]) ELSE {q} : q \in f[k - 1]}]
           F == CHOOSE f : f = Def(f)
           S == SUBSET Outcomes
           e == Elements(s, v)
           At(n) == e \o SubSeq(xs, 1, n)
           size == s.vec[v].size
           cap == s.vec[v].cap
           Good(n, q) == q.ok /\ Becomes(s, q.s, v, At(n)) /\ q.s.vec[v].size = size + n /\ q.s.vec[v].cap = cap
<1>1. PushAll(s, v, xs) = F[N]
  BY DEF PushAll, Then
<1>2. /\ N \in Nat /\ DOMAIN xs = 1 .. N /\ (\A k \in 1 .. N : xs[k] \in Cell)
      /\ size \in Nat /\ cap \in Nat /\ e \in Seq(Cell) /\ size + N <= cap
  BY CellsOf, ElementsOf
<1>0. At(0) = e /\ At(N) = e \o xs /\ \A n \in 1 .. N : At(n) = Append(At(n - 1), xs[n])
  <2>1. e \in Seq(Cell) /\ N = Len(xs)
    BY <1>2
  <2> HIDE DEF e, N
  <2>2. Continues(e, xs)
    BY <2>1, Continued
  <2> QED
    BY <2>1, <2>2 DEF Continues
<1> HIDE DEF N, size, cap, e, At
<1>E. base \in S /\ \A k \in 1 .. N : \A x \in S : Step(k, x) \in S
  <2>1. base \in S
    BY OutcomeOf
  <2>2. ASSUME NEW k \in 1 .. N, NEW x \in S, NEW p \in Step(k, x) PROVE p \in Outcomes
    <3>1. PICK q \in x : p \in IF q.ok THEN Push(q.s, v, xs[k]) ELSE {q}
      BY <2>2
    <3>2. q \in Outcomes /\ Sound(q.s)
      BY <2>2 DEF Outcomes, Memory
    <3> QED
      BY <1>2, <3>1, <3>2, PushSound
  <2> QED
    BY <2>1, <2>2
<1>T. \A x \in S : x \subseteq Outcomes
  OBVIOUS
<1> HIDE DEF S, base
<1>4. F = Def(F)
  <2> DEFINE G == [k \in 1 .. N |-> [x \in S |-> Step(k, x)]]
  <2> HIDE DEF Step
  <2>1. G \in [1 .. N -> [S -> S]]
    BY <1>E
  <2>2. Iterations(S, N, base, G) # {}
    <3>1. N \in Nat /\ base \in S
      BY <1>2, <1>E
    <3> HIDE DEF G
    <3> QED
      BY <3>1, <2>1, Iterate
  <2>3. PICK f \in [0 .. N -> S] : f[0] = base /\ \A n \in 1 .. N : f[n] = G[n][f[n - 1]]
    BY <2>2 DEF Iterations
  <2>4. \A n \in 1 .. N : f[n] = Step(n, f[n - 1])
    <3> SUFFICES ASSUME NEW n \in 1 .. N PROVE f[n] = Step(n, f[n - 1])
      OBVIOUS
    <3>1. f[n - 1] \in S
      BY <1>2
    <3> QED
      BY <2>3, <3>1
  <2>5. f = Def(f)
    <3>1. \A k \in 0 .. N : k = 0 \/ k \in 1 .. N
      BY <1>2
    <3> QED
      BY <2>3, <2>4, <3>1 DEF Step
  <2> HIDE DEF Def
  <2> QED
    BY <2>5
<1>5. F[0] = base /\ \A n \in 1 .. N : F[n] = Step(n, F[n - 1])
  <2> HIDE DEF F
  <2>1. \A n \in 1 .. N : n \in 0 .. N /\ n # 0
    BY <1>2
  <2>2. F[0] = base
    BY <1>2, <1>4
  <2> QED
    BY <1>4, <2>1, <2>2
<1>G. ASSUME NEW n \in 1 .. N, NEW p \in Outcomes, Good(n - 1, p), NEW q \in Push(p.s, v, xs[n]) PROVE Good(n, q)
  <2>1. Sound(p.s) /\ Elements(p.s, v) = At(n - 1) /\ p.s.vec[v].size = size + (n - 1) /\ p.s.vec[v].cap = cap
    BY <1>G DEF Becomes
  <2> HIDE DEF Good
  <2>2. p.s.vec[v].size < p.s.vec[v].cap
    BY <1>2, <2>1
  <2>3. /\ q.ok /\ Becomes(p.s, q.s, v, Append(At(n - 1), xs[n]))
        /\ q.s.vec[v].size = p.s.vec[v].size + 1 /\ q.s.vec[v].cap = p.s.vec[v].cap
    BY <1>2, <1>G, <2>1, <2>2, PushRoom
  <2>4. Becomes(s, q.s, v, At(n))
    <3>1. Becomes(s, p.s, v, At(n - 1)) /\ Becomes(p.s, q.s, v, At(n))
      BY <1>0, <1>G, <2>3 DEF Good
    <3> QED
      BY <3>1, BecomesThen
  <2> QED
    BY <1>2, <2>1, <2>3, <2>4 DEF Good
<1> HIDE DEF F, Good, Step
<1> DEFINE A == {n \in 0 .. N : F[n] \in S /\ \A q \in F[n] : Good(n, q)}
<1>6. 0 .. N \subseteq A
  <2>1. 0 \in A
    <3>1. Good(0, Ok(s))
      BY <1>0, <1>2 DEF Good, Ok, Becomes, size, cap, e
    <3>2. F[0] = {Ok(s)} /\ F[0] \in S
      BY <1>5, <1>E DEF base
    <3>3. 0 \in 0 .. N /\ \A q \in F[0] : Good(0, q)
      BY <1>2, <3>1, <3>2
    <3> QED
      BY <3>2, <3>3
  <2>2. ASSUME NEW n \in 1 .. N, n - 1 \in A PROVE n \in A
    <3>1. F[n - 1] \in S /\ F[n - 1] \subseteq Outcomes /\ \A p \in F[n - 1] : Good(n - 1, p)
      BY <1>T, <2>2
    <3>2. F[n] = Step(n, F[n - 1]) /\ F[n] \in S
      BY <1>5, <1>E, <3>1
    <3>3. ASSUME NEW q \in F[n] PROVE Good(n, q)
      <4>1. PICK p \in F[n - 1] : q \in IF p.ok THEN Push(p.s, v, xs[n]) ELSE {p}
        BY <3>2, <3>3 DEF Step
      <4>2. p \in Outcomes /\ Good(n - 1, p) /\ p.ok
        BY <3>1 DEF Good
      <4> QED
        BY <1>G, <4>1, <4>2
    <3> QED
      BY <1>2, <3>2, <3>3
  <2> HIDE DEF A
  <2> QED
    BY <1>2, <2>1, <2>2, UpTo
<1>7. N \in A
  BY <1>2, <1>6
<1> QED
  BY <1>0, <1>1, <1>7, <1>T DEF Good, e

(* Copies of several elements for which there is room. *)
LEMMA CopyAllRoom ==
  ASSUME NEW s, Sound(s), NEW v \in AllVecs, NEW xs \in Seq(Cell),
         s.vec[v].size + Len(xs) <= s.vec[v].cap, NEW r \in CopyAll(s, v, xs)
  PROVE  /\ r \in Outcomes /\ Becomes(s, r.s, v, Elements(r.s, v))
         /\ r.ok => Elements(r.s, v) = Elements(s, v) \o xs
<1>1. s.vec[v].size \in Nat /\ s.vec[v].cap \in Nat /\ Len(xs) \in Nat
  BY CellsOf
<1>2. CASE r \in PushAll(s, v, xs)
  BY <1>2, PushAllRoom DEF Becomes
<1>3. CASE \E k \in 0 .. Len(xs) - 1 : \E p \in PushAll(s, v, SubSeq(xs, 1, k)) : r = Failure(p.s)
  <2>1. PICK k \in 0 .. Len(xs) - 1 : \E p \in PushAll(s, v, SubSeq(xs, 1, k)) : r = Failure(p.s)
    BY <1>3
  <2>2. PICK p \in PushAll(s, v, SubSeq(xs, 1, k)) : r = Failure(p.s)
    BY <2>1
  <2> DEFINE ys == SubSeq(xs, 1, k)
  <2>3. ys \in Seq(Cell) /\ Len(ys) = k /\ k \in Nat /\ k <= Len(xs)
    BY <1>1
  <2> HIDE DEF ys
  <2>4. s.vec[v].size + Len(ys) <= s.vec[v].cap
    BY <1>1, <2>3
  <2>5. p \in Outcomes /\ Becomes(s, p.s, v, Elements(s, v) \o ys)
    BY <2>2, <2>3, <2>4, PushAllRoom DEF ys
  <2>6. Becomes(s, p.s, v, Elements(p.s, v)) /\ Sound(p.s)
    BY <2>5 DEF Becomes
  <2> QED
    BY <2>2, <2>6, OutcomeOf DEF Failure
<1> QED
  BY <1>2, <1>3 DEF CopyAll

(* pop_back() *)
LEMMA PopToSound ==
  ASSUME NEW s, Sound(s), NEW v \in AllVecs, NEW n \in 0 .. s.vec[v].size
  PROVE  Becomes(s, PopTo(s, v, n), v, SubSeq(Elements(s, v), 1, n)) /\ PopTo(s, v, n).vec[v].size = n
<1> DEFINE c == Cells(s, v)
           size == s.vec[v].size
           cap == s.vec[v].cap
           d == [k \in DOMAIN c |-> IF k \in n + 1 .. size THEN Raw ELSE c[k]]
<1>1. /\ size \in Nat /\ cap \in Nat /\ size <= cap /\ n \in Nat /\ n <= size
      /\ c \in Seq(Cell) /\ Len(c) = cap /\ DOMAIN c = 1 .. cap
      /\ \A k \in size + 1 .. cap : c[k] \in {Raw, Moved}
  BY CellsOf
<1>2. PopTo(s, v, n) = WithCells(s, v, d, n)
  BY DEF PopTo
<1> HIDE DEF c, size, cap
<1>3. d \in [1 .. cap -> Cell]
  BY <1>1 DEF Cell
<1>4. d \in Seq(Cell) /\ Len(d) = cap /\ \A k \in 1 .. cap : d[k] = IF k \in n + 1 .. size THEN Raw ELSE c[k]
  BY <1>1, <1>3
<1> HIDE DEF d
<1>5. \A k \in n + 1 .. cap : d[k] \in {Raw, Moved}
  BY <1>1, <1>4
<1>6. Becomes(s, WithCells(s, v, d, n), v, SubSeq(d, 1, n)) /\ WithCells(s, v, d, n).vec[v].size = n
  BY <1>1, <1>4, <1>5, WithCellsSound DEF cap
<1>7. SubSeq(d, 1, n) = SubSeq(Elements(s, v), 1, n)
  <2> DEFINE e == Elements(s, v)
  <2>1. e \in Seq(Cell) /\ Len(e) = size /\ \A k \in 1 .. size : e[k] = c[k]
    BY ElementsOf DEF size, c
  <2> HIDE DEF e
  <2>2. /\ SubSeq(d, 1, n) \in Seq(Cell) /\ Len(SubSeq(d, 1, n)) = n
        /\ \A k \in 1 .. n : SubSeq(d, 1, n)[k] = d[k]
    BY <1>1, <1>4
  <2>3. /\ SubSeq(e, 1, n) \in Seq(Cell) /\ Len(SubSeq(e, 1, n)) = n
        /\ \A k \in 1 .. n : SubSeq(e, 1, n)[k] = e[k]
    BY <1>1, <2>1
  <2>4. \A k \in 1 .. n : d[k] = e[k]
    BY <1>1, <1>4, <2>1
  <2>5. SubSeq(d, 1, n) = SubSeq(e, 1, n)
    BY <2>2, <2>3, <2>4, SeqEqual
  <2> QED
    BY <2>5 DEF e
<1> QED
  BY <1>2, <1>6, <1>7

(* A vector without a buffer. *)
LEMMA NoVecFits ==
  ASSUME NEW t, NEW v, t.vec[v] = NoVec
  PROVE  Fits(t, v) /\ Cells(t, v) = <<>> /\ Elements(t, v) = <<>>
BY DEF NoVec, Null, Fits, Cells, Elements

(* ~Vector() *)
LEMMA DestroySound ==
  ASSUME NEW s, Sound(s), NEW v \in AllVecs
  PROVE  Becomes(s, Destroy(s, v), v, <<>>) /\ Destroy(s, v).vec[v] = NoVec
<1> DEFINE t == Destroy(s, v)
<1>1. /\ s.vec \in [AllVecs -> Header] /\ s.mem \in [Places -> Seq(Cell)]
      /\ s.vec[v].data # Null => s.vec[v].data \in Places
  BY CellsOf DEF Sound
<1>2. NoVec \in Header /\ NoVec.data = Null
  BY VectorAssumption DEF NoVec, Header, Null
<1>3. t = [vec |-> [s.vec EXCEPT ![v] = NoVec], mem |-> Released(s.mem, s.vec[v].data)]
  BY DEF Destroy
<1>4. t.vec \in [AllVecs -> Header] /\ t.vec[v] = NoVec /\ \A w \in AllVecs \ {v} : t.vec[w] = s.vec[w]
  BY <1>1, <1>2, <1>3
<1>5. /\ t.mem \in [Places -> Seq(Cell)]
      /\ \A b \in Places : b # s.vec[v].data => t.mem[b] = s.mem[b]
      /\ s.vec[v].data # Null => t.mem[s.vec[v].data] = NoBuffer
  BY <1>1, <1>3 DEF Released, NoBuffer
<1>6. t \in [vec : [AllVecs -> Header], mem : [Places -> Seq(Cell)]]
  BY <1>3, <1>4, <1>5
<1> HIDE DEF t
<1>7. Fits(t, v) /\ Elements(t, v) = <<>>
  BY <1>4, NoVecFits
<1>8. Sound(t) /\ \A w \in AllVecs \ {v} : t.vec[w] = s.vec[w] /\ Cells(t, w) = Cells(s, w)
  <2>1. /\ s.vec[v].data # Null => t.mem[s.vec[v].data] = NoBuffer
        /\ t.vec[v].data # Null => s.mem[t.vec[v].data] = NoBuffer
    BY <1>2, <1>4, <1>5
  <2>2. \A b \in Places : b # s.vec[v].data /\ b # t.vec[v].data => t.mem[b] = s.mem[b]
    BY <1>5
  <2> QED
    BY <1>4, <1>6, <1>7, <2>1, <2>2, SoundChange
<1> QED
  BY <1>4, <1>7, <1>8 DEF Becomes, t

(* operator=(Vector &&) *)
LEMMA MoveAssignSound ==
  ASSUME NEW s, Sound(s), NEW v \in AllVecs, NEW w \in AllVecs, v # w
  PROVE  LET t == MoveAssign(s, v, w)
         IN /\ Sound(t) /\ Elements(t, v) = Elements(s, w) /\ t.vec[w] = NoVec
            /\ \A u \in AllVecs \ {v, w} : t.vec[u] = s.vec[u] /\ Cells(t, u) = Cells(s, u)
<1> DEFINE d == Destroy(s, v)
           t == MoveAssign(s, v, w)
<1>1. /\ Sound(d) /\ d.vec[v] = NoVec
      /\ \A u \in AllVecs \ {v} : d.vec[u] = s.vec[u] /\ Cells(d, u) = Cells(s, u)
  BY DestroySound DEF Becomes
<1>2. t = [d EXCEPT !.vec = [@ EXCEPT ![v] = d.vec[w], ![w] = NoVec]]
  BY DEF MoveAssign
<1> HIDE DEF d, t
<1>3. /\ d \in [vec : [AllVecs -> Header], mem : [Places -> Seq(Cell)]]
      /\ \A u \in AllVecs : Fits(d, u)
      /\ \A b \in Places : d.mem[b] # NoBuffer => \E u \in AllVecs : d.vec[u].data = b
      /\ \A u, x \in AllVecs : u # x /\ d.vec[u].data # Null => d.vec[u].data # d.vec[x].data
  BY <1>1 DEF Sound
<1>4. NoVec \in Header /\ NoVec.data = Null
  BY VectorAssumption DEF NoVec, Header, Null
<1>5. /\ t \in [vec : [AllVecs -> Header], mem : [Places -> Seq(Cell)]]
      /\ t.mem = d.mem /\ t.vec[v] = d.vec[w] /\ t.vec[w] = NoVec /\ \A u \in AllVecs \ {v, w} : t.vec[u] = d.vec[u]
  BY <1>2, <1>3, <1>4
<1>6. Cells(t, v) = Cells(d, w) /\ \A u \in AllVecs \ {v, w} : Cells(t, u) = Cells(d, u)
  BY <1>5 DEF Cells
<1>7. ASSUME NEW u \in AllVecs PROVE Fits(t, u)
  <2>1. CASE u = w
    BY <1>5, <2>1, NoVecFits
  <2>2. CASE u = v
    BY <1>3, <1>5, <1>6, <2>2 DEF Fits
  <2>3. CASE u # v /\ u # w
    BY <1>3, <1>5, <1>6, <2>3 DEF Fits
  <2> QED
    BY <2>1, <2>2, <2>3
<1>8. ASSUME NEW b \in Places, t.mem[b] # NoBuffer PROVE \E u \in AllVecs : t.vec[u].data = b
  <2>1. PICK u \in AllVecs : d.vec[u].data = b
    BY <1>3, <1>5, <1>8
  <2>2. u # v
    BY <1>1, <1>4, <2>1 DEF Null, Places
  <2> QED
    BY <1>5, <2>1, <2>2
<1>9. ASSUME NEW u \in AllVecs, NEW x \in AllVecs, u # x, t.vec[u].data # Null PROVE t.vec[u].data # t.vec[x].data
  <2>1. u # w
    BY <1>4, <1>5, <1>9
  <2>2. CASE x = w
    BY <1>4, <1>5, <1>9, <2>2
  <2>3. CASE x # w
    BY <1>3, <1>5, <1>9, <2>1, <2>3
  <2> QED
    BY <2>2, <2>3
<1>10. Elements(t, v) = Elements(s, w)
  BY <1>1, <1>5, <1>6 DEF Elements
<1>11. Sound(t)
  BY <1>5, <1>7, <1>8, <1>9 DEF Sound
<1> QED
  BY <1>1, <1>5, <1>6, <1>10, <1>11 DEF t

(* Temp becomes v, or is destroyed. *)
LEMMA FinishSound ==
  ASSUME NEW s, Sound(s), s.vec[Temp] = NoVec, NEW v \in Vecs, NEW outcomes, outcomes \subseteq Outcomes,
         NEW xs, \A q \in outcomes : Becomes(s, q.s, Temp, Elements(q.s, Temp)) /\ (q.ok => Elements(q.s, Temp) = xs),
         NEW r \in Finish(outcomes, v)
  PROVE  r \in Outcomes /\ Becomes(s, r.s, v, IF r.ok THEN xs ELSE Elements(s, v))
<1>1. PICK q \in outcomes : r = IF q.ok THEN Ok(MoveAssign(q.s, v, Temp)) ELSE Failure(Destroy(q.s, Temp))
  BY DEF Finish
<1>2. v \in AllVecs /\ Temp \in AllVecs /\ v # Temp /\ AllVecs \ {v} = (AllVecs \ {v, Temp}) \cup {Temp}
  BY VectorAssumption DEF AllVecs
<1>3. /\ q \in Outcomes /\ Sound(q.s) /\ (q.ok => Elements(q.s, Temp) = xs)
      /\ \A w \in AllVecs \ {Temp} : q.s.vec[w] = s.vec[w] /\ Cells(q.s, w) = Cells(s, w)
  BY DEF Becomes
<1>4. Cells(s, Temp) = <<>>
  BY NoVecFits
<1>5. CASE q.ok
  <2> DEFINE t == MoveAssign(q.s, v, Temp)
  <2>1. /\ Sound(t) /\ Elements(t, v) = xs /\ t.vec[Temp] = NoVec
        /\ \A u \in AllVecs \ {v, Temp} : t.vec[u] = q.s.vec[u] /\ Cells(t, u) = Cells(q.s, u)
    <3> DEFINE p == q.s
    <3>1. Sound(p) /\ Elements(p, Temp) = xs
      BY <1>3, <1>5
    <3> HIDE DEF p
    <3>2. /\ Sound(MoveAssign(p, v, Temp)) /\ MoveAssign(p, v, Temp).vec[Temp] = NoVec
          /\ Elements(MoveAssign(p, v, Temp), v) = Elements(p, Temp)
          /\ \A u \in AllVecs \ {v, Temp} : /\ MoveAssign(p, v, Temp).vec[u] = p.vec[u]
                                          /\ Cells(MoveAssign(p, v, Temp), u) = Cells(p, u)
      BY <1>2, <3>1, MoveAssignSound
    <3> QED
      BY <3>1, <3>2 DEF p
  <2> HIDE DEF t
  <2>2. Cells(t, Temp) = <<>>
    BY <2>1, NoVecFits
  <2>3. Becomes(s, t, v, xs)
    BY <1>2, <1>3, <1>4, <2>1, <2>2 DEF Becomes
  <2>4. r = Ok(t)
    BY <1>1, <1>5 DEF t
  <2> QED
    BY <2>1, <2>3, <2>4, OutcomeOf DEF Ok
<1>6. CASE ~q.ok
  <2> DEFINE t == Destroy(q.s, Temp)
  <2>1. /\ Sound(t) /\ t.vec[Temp] = NoVec
        /\ \A u \in AllVecs \ {Temp} : t.vec[u] = q.s.vec[u] /\ Cells(t, u) = Cells(q.s, u)
    BY <1>2, <1>3, DestroySound DEF Becomes
  <2> HIDE DEF t
  <2>2. Cells(t, Temp) = <<>>
    BY <2>1, NoVecFits
  <2>3. Elements(t, v) = Elements(s, v)
    BY <1>2, <1>3, <2>1 DEF Elements
  <2>4. Becomes(s, t, v, Elements(s, v))
    BY <1>2, <1>3, <1>4, <2>1, <2>2, <2>3 DEF Becomes
  <2>5. r = Failure(t)
    BY <1>1, <1>6 DEF t
  <2> QED
    BY <2>1, <2>4, <2>5, OutcomeOf DEF Failure
<1> QED
  BY <1>5, <1>6

(* A sequence cut or filled up, element by element. *)
IsResized(z, e, n, S, x) ==
  /\ z \in Seq(S) /\ Len(z) = n
  /\ \A k \in 1 .. n : z[k] = IF k <= Len(e) THEN e[k] ELSE x
  /\ n <= Len(e) => z = SubSeq(e, 1, n)

LEMMA ResizedIs ==
  ASSUME NEW S, NEW e \in Seq(S), NEW n \in Nat, NEW x \in S
  PROVE  IsResized(Promise!Resized(e, n, x), e, n, S, x)
<1> DEFINE m == Len(e)
           z == Promise!Resized(e, n, x)
<1>1. m \in Nat
  OBVIOUS
<1>2. CASE n < m
  <2>1. z = SubSeq(e, 1, n)
    BY <1>2 DEF Promise!Resized
  <2>2. z \in Seq(S) /\ Len(z) = n /\ \A k \in 1 .. n : z[k] = e[k] /\ k <= m
    BY <1>1, <1>2, <2>1
  <2> QED
    BY <2>1, <2>2 DEF IsResized
<1>3. CASE ~(n < m)
  <2> DEFINE d == n - m
             b == [k \in 1 .. d |-> x]
  <2>1. d \in Nat /\ n = m + d
    BY <1>1, <1>3
  <2>2. z = e \o b
    BY <1>3 DEF Promise!Resized, Promise!Repeat
  <2>3. b \in Seq(S) /\ Len(b) = d /\ \A k \in 1 .. d : b[k] = x
    <3>1. b \in [1 .. d -> S] /\ \A k \in 1 .. d : b[k] = x
      OBVIOUS
    <3> HIDE DEF d, b
    <3> QED
      BY <2>1, <3>1, FunctionIsSeq
  <2> HIDE DEF b, z, d
  <2>4. z \in Seq(S) /\ Len(z) = m + d /\ \A k \in 1 .. m + d : z[k] = IF k <= m THEN e[k] ELSE b[k - m]
    BY <2>2, <2>3, ConcatProperties
  <2>5. ASSUME NEW k \in 1 .. n PROVE z[k] = IF k <= m THEN e[k] ELSE x
    <3>1. CASE k <= m
      BY <2>1, <2>4, <3>1
    <3>2. CASE ~(k <= m)
      <4>1. k - m \in 1 .. d
        BY <1>1, <2>1, <3>2
      <4> QED
        BY <1>1, <2>1, <2>3, <2>4, <3>2, <4>1
    <3> QED
      BY <3>1, <3>2
  <2>6. n <= m => z = SubSeq(e, 1, n)
    <3> SUFFICES ASSUME n <= m PROVE z = SubSeq(e, 1, n)
      OBVIOUS
    <3>1. n = m /\ SubSeq(e, 1, n) = e
      BY <1>1, <1>3
    <3>2. \A k \in 1 .. m : z[k] = e[k]
      BY <1>1, <2>5, <3>1
    <3> QED
      BY <2>1, <2>4, <3>1, <3>2, SeqEqual
  <2> QED
    BY <2>1, <2>4, <2>5, <2>6 DEF z, IsResized
<1> QED
  BY <1>2, <1>3

(* resize_uninitialized() *)
LEMMA ResizeRawSound ==
  ASSUME NEW s, Sound(s), NEW v \in AllVecs, NEW n \in Nat, NEW r \in ResizeUninitialized(s, v, n)
  PROVE  /\ r \in Outcomes
         /\ r.ok => /\ Becomes(s, r.s, v, Promise!Resized(Elements(s, v), n, Raw)) /\ r.s.vec[v].size = n
                    /\ r.s.vec[v].cap = IF n <= s.vec[v].cap THEN s.vec[v].cap ELSE n
         /\ ~r.ok => r.s = s
<1> DEFINE e == Elements(s, v)
           size == s.vec[v].size
           cap == s.vec[v].cap
           z == Promise!Resized(e, n, Raw)
<1>1. size \in Nat /\ cap \in Nat /\ size <= cap /\ e \in Seq(Cell) /\ Len(e) = size
  BY CellsOf, ElementsOf
<1>2. Raw \in Cell
  BY DEF Cell
<1>3. z \in Seq(Cell) /\ Len(z) = n /\ (\A k \in 1 .. n : z[k] = IF k <= size THEN e[k] ELSE Raw)
      /\ (n <= size => z = SubSeq(e, 1, n))
  <2>1. e \in Seq(Cell) /\ Len(e) = size /\ z = Promise!Resized(e, n, Raw)
    BY <1>1
  <2> HIDE DEF e, size, z
  <2>2. IsResized(Promise!Resized(e, n, Raw), e, n, Cell, Raw)
    BY <1>2, <2>1, ResizedIs
  <2> HIDE DEF z
  <2>3. IsResized(z, e, n, Cell, Raw)
    BY <2>2 DEF z
  <2> QED
    BY <2>1, <2>3 DEF IsResized
<1> HIDE DEF e, z, size, cap
<1>4. CASE n <= size
  <2>1. r = Ok(PopTo(s, v, n))
    BY <1>4 DEF ResizeUninitialized, size
  <2>2. Becomes(s, PopTo(s, v, n), v, SubSeq(e, 1, n)) /\ PopTo(s, v, n).vec[v].size = n
    <3>1. n \in 0 .. s.vec[v].size
      BY <1>1, <1>4 DEF size
    <3> QED
      BY <3>1, PopToSound DEF e
  <2>3. PopTo(s, v, n).vec[v].cap = cap
    <3>1. s.vec \in [AllVecs -> Header]
      BY DEF Sound
    <3> QED
      BY <3>1 DEF PopTo, WithCells, Header, cap
  <2>4. n <= cap
    BY <1>1, <1>4
  <2> QED
    BY <1>3, <1>4, <2>1, <2>2, <2>3, <2>4, OutcomeOf DEF Ok, Becomes, e, z, cap
<1>5. CASE ~(n <= size)
  <2> DEFINE D(t) == [k \in DOMAIN Cells(t, v) |-> IF k \in size + 1 .. n THEN Raw ELSE Cells(t, v)[k]]
  <2>1. PICK q \in Reserve(s, v, n) : (q.ok /\ r = Ok(WithCells(q.s, v, D(q.s), n))) \/ (~q.ok /\ r = q)
    BY <1>5 DEF ResizeUninitialized, Then, size
  <2>2. /\ q \in Outcomes /\ Becomes(s, q.s, v, e) /\ q.s.vec[v].size = size
        /\ q.ok => q.s.vec[v].cap = IF n <= cap THEN cap ELSE n
        /\ ~q.ok => q.s = s
    BY ReserveSound DEF e, size, cap
  <2>3. CASE q.ok
    <3> DEFINE t == q.s
               d == D(t)
               c == Cells(t, v)
               u == WithCells(t, v, d, n)
               big == t.vec[v].cap
    <3>1. /\ Sound(t) /\ Elements(t, v) = e /\ t.vec[v].size = size /\ big = IF n <= cap THEN cap ELSE n
          /\ r = Ok(u)
      BY <2>1, <2>2, <2>3 DEF Becomes
    <3>2. /\ big \in Nat /\ c \in Seq(Cell) /\ Len(c) = big /\ DOMAIN c = 1 .. big /\ size <= big
          /\ \A k \in size + 1 .. big : c[k] \in {Raw, Moved}
      BY <3>1, CellsOf
    <3>3. n <= big
      BY <1>1, <3>1
    <3>4. \A k \in 1 .. size : c[k] = e[k]
      BY <3>1, ElementsOf
    <3> HIDE DEF c, big
    <3>5. d \in [1 .. big -> Cell] /\ \A k \in 1 .. big : d[k] = IF k \in size + 1 .. n THEN Raw ELSE c[k]
      BY <1>2, <3>2 DEF c
    <3> HIDE DEF d, t
    <3>6. d \in Seq(Cell) /\ Len(d) = big
      BY <3>2, <3>5, FunctionIsSeq
    <3>7. \A k \in n + 1 .. big : d[k] \in {Raw, Moved}
      BY <1>1, <1>5, <3>2, <3>3, <3>5
    <3>8. Becomes(t, u, v, SubSeq(d, 1, n)) /\ u.vec[v].size = n /\ u.vec[v].cap = big
      BY <3>1, <3>3, <3>6, <3>7, WithCellsSound DEF big
    <3>9. SubSeq(d, 1, n) = z
      <4>1. /\ SubSeq(d, 1, n) \in Seq(Cell) /\ Len(SubSeq(d, 1, n)) = n
            /\ \A k \in 1 .. n : SubSeq(d, 1, n)[k] = d[k]
        BY <3>2, <3>3, <3>6
      <4>2. \A k \in 1 .. n : d[k] = z[k]
        BY <1>1, <1>3, <1>5, <3>2, <3>3, <3>4, <3>5
      <4> QED
        BY <1>3, <4>1, <4>2, SeqEqual
    <3> HIDE DEF u
    <3>10. Becomes(s, u, v, z)
      <4>1. Becomes(s, t, v, e)
        BY <2>2 DEF t, e
      <4>2. Becomes(t, u, v, z)
        BY <3>8, <3>9
      <4> QED
        BY <4>1, <4>2, BecomesThen
    <3> QED
      BY <3>1, <3>8, <3>10, OutcomeOf DEF Ok, Becomes, e, z, cap, t
  <2>4. CASE ~q.ok
    BY <2>1, <2>2, <2>4
  <2> QED
    BY <2>3, <2>4
<1> QED
  BY <1>4, <1>5

(* A vector without elements. *)
LEMMA NoVecElements ==
  ASSUME NEW s, NEW v, s.vec[v] = NoVec
  PROVE  s.vec[v].size = 0 /\ s.vec[v].cap = 0 /\ Elements(s, v) = <<>>
BY NoVecFits DEF NoVec

(* Elements added at the end are what resize() promises. *)
LEMMA ResizedMore ==
  ASSUME NEW S, NEW e \in Seq(S), NEW n \in Nat, NEW x \in S, n > Len(e)
  PROVE  /\ Promise!Resized(e, n, x) = e \o Repeated(x, n - Len(e))
         /\ Repeated(x, n - Len(e)) \in Seq(S) /\ Len(Repeated(x, n - Len(e))) = n - Len(e)
<1>1. Len(e) \in Nat /\ n - Len(e) \in Nat /\ ~(n < Len(e))
  OBVIOUS
<1>2. Promise!Resized(e, n, x) = e \o Repeated(x, n - Len(e))
  BY <1>1 DEF Promise!Resized, Promise!Repeat, Repeated
<1> DEFINE d == n - Len(e)
           b == Repeated(x, d)
<1>3. b \in [1 .. d -> S]
  BY DEF Repeated
<1> HIDE DEF b
<1>4. d \in Nat
  BY <1>1
<1> HIDE DEF d
<1>5. b \in Seq(S) /\ Len(b) = d
  BY <1>3, <1>4, FunctionIsSeq
<1> QED
  BY <1>2, <1>5 DEF b, d

(* v has n elements in t, and where it has more than in s the new ones are x, *)
(* if that was no element of v.                                              *)
Enlarged(s, t, v, n, x, mine) ==
  \E y \in Cell : Becomes(s, t, v, Promise!Resized(Elements(s, v), n, y)) /\ (mine = FALSE => y = x)

(* resize() where copies do not fail: the new elements are the value, or,   *)
(* when it was freed with the memory, all something else.                   *)
LEMMA ExtendSound ==
  ASSUME NEW s, Sound(s), NEW v \in AllVecs, NEW n \in Nat, n > s.vec[v].size, NEW x \in Cell, NEW mine,
         NEW r \in Extend(s, v, n, x, mine)
  PROVE  /\ r \in Outcomes
         /\ r.ok => Enlarged(s, r.s, v, n, x, mine)
         /\ ~r.ok => r.s = s
<1> DEFINE e == Elements(s, v)
           size == s.vec[v].size
           cap == s.vec[v].cap
           m == size + n
<1>1. size \in Nat /\ cap \in Nat /\ size <= cap /\ e \in Seq(Cell) /\ Len(e) = size /\ m \in Nat
  BY CellsOf, ElementsOf
<1>2. PICK q \in Reserve(s, v, m) :
        \/ q.ok /\ \E y \in Referred(s, q.s, v, x, mine) : r \in PushAll(q.s, v, Repeated(y, n - size))
        \/ ~q.ok /\ r = q
  BY DEF Extend, Then
<1>3. /\ q \in Outcomes /\ Becomes(s, q.s, v, e) /\ q.s.vec[v].size = size
      /\ q.ok => q.s.vec[v].cap = IF m <= cap THEN cap ELSE m
      /\ ~q.ok => q.s = s
  BY <1>1, ReserveSound
<1>4. CASE ~q.ok
  BY <1>2, <1>3, <1>4
<1>5. CASE q.ok
  <2> DEFINE t == q.s
  <2>1. PICK y \in Referred(s, t, v, x, mine) : r \in PushAll(t, v, Repeated(y, n - size))
    BY <1>2, <1>5
  <2>2. y \in Cell
    BY DEF Referred, Cell
  <2>8. mine = FALSE => y = x
    BY DEF Referred
  <2>3. /\ Sound(t) /\ Elements(t, v) = e /\ t.vec[v].size = size /\ Becomes(s, t, v, e)
        /\ t.vec[v].cap = IF m <= cap THEN cap ELSE m
    BY <1>3, <1>5 DEF Becomes
  <2> DEFINE b == Repeated(y, n - size)
             z == Promise!Resized(e, n, y)
  <2>4. z = e \o b /\ b \in Seq(Cell) /\ Len(b) = n - size
    <3>1. n > Len(e) /\ size = Len(e)
      BY <1>1
    <3> HIDE DEF e, size
    <3>2. /\ Promise!Resized(e, n, y) = e \o Repeated(y, n - Len(e))
          /\ Repeated(y, n - Len(e)) \in Seq(Cell) /\ Len(Repeated(y, n - Len(e))) = n - Len(e)
      BY <1>1, <2>2, <3>1, ResizedMore
    <3> QED
      BY <3>1, <3>2
  <2> HIDE DEF b, z, t, e
  <2>5. t.vec[v].size + Len(b) <= t.vec[v].cap
    <3>1. Len(b) = n - size /\ t.vec[v].size = size /\ t.vec[v].cap = IF m <= cap THEN cap ELSE m
      BY <2>3, <2>4
    <3>2. n > size
      OBVIOUS
    <3> HIDE DEF size, cap
    <3> QED
      BY <1>1, <3>1, <3>2
  <2>6. r \in Outcomes /\ r.ok /\ Becomes(t, r.s, v, e \o b)
    BY <2>1, <2>3, <2>4, <2>5, PushAllRoom DEF b
  <2>7. Becomes(s, r.s, v, z)
    BY <2>3, <2>4, <2>6, BecomesThen
  <2> QED
    BY <2>2, <2>6, <2>7, <2>8 DEF Enlarged, z, e
<1> QED
  BY <1>4, <1>5

(* From s to t only v and Temp change; v has the elements xs then. *)
Apart(s, t, v, xs) ==
  /\ Sound(t) /\ Elements(t, v) = xs
  /\ \A w \in AllVecs \ {v, Temp} : t.vec[w] = s.vec[w] /\ Cells(t, w) = Cells(s, w)

LEMMA ApartThen ==
  ASSUME NEW s, NEW t, NEW u, NEW v \in Vecs, NEW xs, NEW ys, Apart(s, t, v, xs)
  PROVE  /\ Becomes(t, u, Temp, ys) => Apart(s, u, v, xs)
         /\ Becomes(t, u, v, ys) => Apart(s, u, v, ys)
<1>1. v \in AllVecs /\ v # Temp /\ Temp \in AllVecs
  BY VectorAssumption DEF AllVecs
<1>2. ASSUME Becomes(t, u, Temp, ys) PROVE Apart(s, u, v, xs)
  <2>1. u.vec[v] = t.vec[v] /\ Cells(u, v) = Cells(t, v)
    BY <1>1, <1>2 DEF Becomes
  <2>2. Elements(u, v) = Elements(t, v)
    BY <2>1 DEF Elements
  <2> QED
    BY <1>1, <1>2, <2>2 DEF Becomes, Apart
<1>3. ASSUME Becomes(t, u, v, ys) PROVE Apart(s, u, v, ys)
  BY <1>1, <1>3 DEF Becomes, Apart
<1> QED
  BY <1>2, <1>3

(* When Temp is destroyed only v has changed. *)
LEMMA ApartDestroyed ==
  ASSUME NEW s, Sound(s), s.vec[Temp] = NoVec, NEW t, NEW v \in Vecs, NEW xs, Apart(s, t, v, xs)
  PROVE  Becomes(s, Destroy(t, Temp), v, xs)
<1> DEFINE u == Destroy(t, Temp)
<1>1. v \in AllVecs /\ v # Temp /\ Temp \in AllVecs /\ Sound(t)
  BY VectorAssumption DEF AllVecs, Apart
<1>2. Becomes(t, u, Temp, <<>>) /\ u.vec[Temp] = NoVec
  BY <1>1, DestroySound
<1> HIDE DEF u
<1>3. Apart(s, u, v, xs)
  BY <1>2, ApartThen
<1>4. Cells(u, Temp) = Cells(s, Temp)
  BY <1>2, NoVecFits
<1> QED
  BY <1>2, <1>3, <1>4 DEF Apart, Becomes, u

(* resize() where copies may fail. *)
LEMMA ExtendByCopiesSound ==
  ASSUME NEW s, Sound(s), s.vec[Temp] = NoVec, NEW v \in Vecs, NEW n \in Nat, n > s.vec[v].size, NEW x \in Cell,
         NEW r \in ExtendByCopies(s, v, n, x)
  PROVE  /\ r \in Outcomes
         /\ r.ok => Becomes(s, r.s, v, Promise!Resized(Elements(s, v), n, x))
         /\ ~r.ok => Becomes(s, r.s, v, Elements(s, v))
<1> DEFINE e == Elements(s, v)
           size == s.vec[v].size
           m == size + n
           xs == Repeated(x, n - size)
           copied == Then(Reserve(s, Temp, n), LAMBDA t : CopyAll(t, Temp, xs))
           room == Then(copied, LAMBDA t : Reserve(t, v, m))
           moved == Then(room, LAMBDA t : PushAll(t, v, xs))
<1>1. v \in AllVecs /\ v # Temp /\ Temp \in AllVecs
  BY VectorAssumption DEF AllVecs
<1>2. size \in Nat /\ e \in Seq(Cell) /\ Len(e) = size /\ m \in Nat
  BY <1>1, CellsOf, ElementsOf
<1>3. Promise!Resized(e, n, x) = e \o xs /\ xs \in Seq(Cell) /\ Len(xs) = n - size
  <2>1. n > Len(e) /\ size = Len(e)
    BY <1>2
  <2> HIDE DEF e, size
  <2>2. /\ Promise!Resized(e, n, x) = e \o Repeated(x, n - Len(e))
        /\ Repeated(x, n - Len(e)) \in Seq(Cell) /\ Len(Repeated(x, n - Len(e))) = n - Len(e)
    BY <1>2, <2>1, ResizedMore
  <2> QED
    BY <2>1, <2>2
<1>4. PICK w \in moved : r = [w EXCEPT !.s = Destroy(@, Temp)]
  BY DEF ExtendByCopies
<1>5. PICK p \in room : (p.ok /\ w \in PushAll(p.s, v, xs)) \/ (~p.ok /\ w = p)
  BY DEF Then
<1>6. PICK q \in copied : (q.ok /\ p \in Reserve(q.s, v, m)) \/ (~q.ok /\ p = q)
  BY DEF Then
<1>7. PICK o \in Reserve(s, Temp, n) : (o.ok /\ q \in CopyAll(o.s, Temp, xs)) \/ (~o.ok /\ q = o)
  BY DEF Then
<1> HIDE DEF e, size, m, xs, copied, room, moved
<1>8. q \in Outcomes /\ Apart(s, q.s, v, e)
  <2>1. s.vec[Temp].size = 0 /\ s.vec[Temp].cap = 0 /\ Elements(s, Temp) = <<>>
    BY NoVecElements
  <2>2. /\ o \in Outcomes /\ Becomes(s, o.s, Temp, <<>>) /\ o.s.vec[Temp].size = 0
        /\ o.ok => o.s.vec[Temp].cap = IF n <= 0 THEN 0 ELSE n
    BY <1>1, <2>1, ReserveSound
  <2>3. Apart(s, s, v, e)
    BY DEF Apart, e
  <2>4. Apart(s, o.s, v, e)
    BY <2>2, <2>3, ApartThen
  <2>5. CASE ~o.ok
    BY <1>7, <2>2, <2>4, <2>5
  <2>6. CASE o.ok
    <3> DEFINE t == o.s
    <3>1. Sound(t) /\ q \in CopyAll(t, Temp, xs) /\ t.vec[Temp].size = 0 /\ t.vec[Temp].cap = n
      BY <1>7, <2>2, <2>6 DEF Becomes
    <3>2. Apart(s, t, v, e)
      BY <2>4
    <3> HIDE DEF t
    <3>3. t.vec[Temp].size + Len(xs) <= t.vec[Temp].cap
      BY <1>2, <1>3, <3>1
    <3>4. q \in Outcomes /\ Becomes(t, q.s, Temp, Elements(q.s, Temp))
      BY <1>1, <1>3, <3>1, <3>3, CopyAllRoom
    <3> QED
      BY <3>2, <3>4, ApartThen
  <2> QED
    BY <2>5, <2>6
<1>9. /\ p \in Outcomes /\ Apart(s, p.s, v, e)
      /\ p.ok => p.s.vec[v].size = size /\ p.s.vec[v].cap \in Nat /\ p.s.vec[v].cap >= m
  <2>1. CASE ~q.ok
    BY <1>6, <1>8, <2>1
  <2>2. CASE q.ok
    <3> DEFINE t == q.s
    <3>1. Apart(s, t, v, e) /\ Sound(t) /\ Elements(t, v) = e /\ p \in Reserve(t, v, m)
      BY <1>6, <1>8, <2>2 DEF Apart
    <3> HIDE DEF t
    <3>2. t.vec[v].size = size /\ t.vec[v].cap \in Nat
      BY <1>1, <1>2, <3>1, CellsOf, ElementsOf
    <3>3. /\ p \in Outcomes /\ Becomes(t, p.s, v, e) /\ p.s.vec[v].size = size
          /\ p.ok => p.s.vec[v].cap = IF m <= t.vec[v].cap THEN t.vec[v].cap ELSE m
      BY <1>1, <1>2, <3>1, <3>2, ReserveSound
    <3>4. Apart(s, p.s, v, e)
      BY <3>1, <3>3, ApartThen
    <3> QED
      BY <1>2, <3>2, <3>3, <3>4
  <2> QED
    BY <2>1, <2>2
<1>10. w \in Outcomes /\ Apart(s, w.s, v, IF w.ok THEN e \o xs ELSE e)
  <2>1. CASE ~p.ok
    BY <1>5, <1>9, <2>1
  <2>2. CASE p.ok
    <3> DEFINE t == p.s
    <3>1. Apart(s, t, v, e) /\ Sound(t) /\ Elements(t, v) = e /\ w \in PushAll(t, v, xs)
      BY <1>5, <1>9, <2>2 DEF Apart
    <3>2. t.vec[v].size = size /\ t.vec[v].cap \in Nat /\ t.vec[v].cap >= m
      BY <1>9, <2>2
    <3> HIDE DEF t
    <3>3. t.vec[v].size + Len(xs) <= t.vec[v].cap
      BY <1>2, <1>3, <3>2 DEF m
    <3>4. w \in Outcomes /\ w.ok /\ Becomes(t, w.s, v, e \o xs)
      BY <1>1, <1>3, <3>1, <3>3, PushAllRoom
    <3> DEFINE ys == e \o xs
    <3> HIDE DEF ys
    <3>5. Becomes(t, w.s, v, ys)
      BY <3>4 DEF ys
    <3>6. Apart(s, w.s, v, ys)
      BY <3>1, <3>5, ApartThen
    <3> QED
      BY <3>4, <3>6 DEF ys
  <2> QED
    BY <2>1, <2>2
<1> DEFINE ys == IF w.ok THEN e \o xs ELSE e
           d == Destroy(w.s, Temp)
<1>11. r.ok = w.ok /\ r.s = d /\ r = [ok |-> w.ok, s |-> d] /\ w.ok \in BOOLEAN
  BY <1>4, <1>10 DEF Outcomes
<1> HIDE DEF ys, d
<1>12. Becomes(s, d, v, ys)
  BY <1>10, ApartDestroyed DEF ys, d
<1>13. d \in Memory
  BY <1>12, OutcomeOf DEF Becomes
<1>14. r \in Outcomes
  BY <1>11, <1>13 DEF Outcomes
<1> QED
  BY <1>3, <1>11, <1>12, <1>14 DEF ys, e

(* resize() *)
LEMMA ResizeSound ==
  ASSUME NEW s, Sound(s), s.vec[Temp] = NoVec, NEW v \in Vecs, NEW n \in Nat, NEW x \in Cell, NEW mine,
         NEW r \in Resize(s, v, n, x, mine)
  PROVE  /\ r \in Outcomes
         /\ r.ok => Enlarged(s, r.s, v, n, x, mine)
         /\ ~r.ok => Becomes(s, r.s, v, Elements(s, v))
<1> DEFINE e == Elements(s, v)
           size == s.vec[v].size
<1>0. v \in AllVecs
  BY DEF AllVecs
<1>1. size \in Nat /\ e \in Seq(Cell) /\ Len(e) = size
  BY <1>0, CellsOf, ElementsOf
<1>2. CASE n <= size
  <2>1. r = Ok(PopTo(s, v, n))
    BY <1>2 DEF Resize
  <2>2. Becomes(s, PopTo(s, v, n), v, SubSeq(e, 1, n))
    <3>1. n \in 0 .. s.vec[v].size
      BY <1>1, <1>2
    <3> QED
      BY <1>0, <3>1, PopToSound
  <2> HIDE DEF e, size
  <2>3. Promise!Resized(e, n, x) = SubSeq(e, 1, n)
    <3>1. IsResized(Promise!Resized(e, n, x), e, n, Cell, x)
      BY <1>1, ResizedIs
    <3> QED
      BY <1>1, <1>2, <3>1 DEF IsResized
  <2> QED
    BY <2>1, <2>2, <2>3, OutcomeOf DEF Ok, Becomes, Enlarged, e
<1>3. CASE ~(n <= size)
  <2>1. n > s.vec[v].size
    BY <1>1, <1>3
  <2>2. CASE r \in Extend(s, v, n, x, mine)
    <3>1. Becomes(s, s, v, Elements(s, v))
      BY DEF Becomes
    <3> QED
      BY <1>0, <2>1, <2>2, <3>1, ExtendSound
  <2>3. CASE r \in ExtendByCopies(s, v, n, x)
    BY <2>1, <2>3, ExtendByCopiesSound DEF Enlarged
  <2> QED
    BY <1>3, <2>2, <2>3 DEF Resize
<1> QED
  BY <1>2, <1>3

(* clone() and assign() *)
LEMMA CopiedSound ==
  ASSUME NEW s, Sound(s), s.vec[Temp] = NoVec, NEW v \in Vecs, NEW xs \in Seq(Cell), NEW r \in Copied(s, v, xs)
  PROVE  r \in Outcomes /\ Becomes(s, r.s, v, IF r.ok THEN xs ELSE Elements(s, v))
<1> DEFINE n == Len(xs)
           all == Then(Reserve(s, Temp, n), LAMBDA t : CopyAll(t, Temp, xs))
<1>1. n \in Nat /\ Temp \in AllVecs
  BY DEF AllVecs
<1>2. r \in Finish(all, v)
  BY DEF Copied
<1>3. s.vec[Temp].size = 0 /\ s.vec[Temp].cap = 0 /\ Elements(s, Temp) = <<>>
  BY NoVecElements
<1>4. ASSUME NEW p \in all
      PROVE  p \in Outcomes /\ Becomes(s, p.s, Temp, Elements(p.s, Temp)) /\ (p.ok => Elements(p.s, Temp) = xs)
  <2>1. PICK q \in Reserve(s, Temp, n) : (q.ok /\ p \in CopyAll(q.s, Temp, xs)) \/ (~q.ok /\ p = q)
    BY <1>4 DEF Then
  <2>2. /\ q \in Outcomes /\ Becomes(s, q.s, Temp, <<>>) /\ q.s.vec[Temp].size = 0
        /\ q.ok => q.s.vec[Temp].cap = IF n <= 0 THEN 0 ELSE n
        /\ ~q.ok => q.s = s
    BY <1>1, <1>3, ReserveSound
  <2>3. CASE q.ok
    <3> DEFINE t == q.s
    <3>1. /\ Sound(t) /\ Elements(t, Temp) = <<>> /\ t.vec[Temp].size = 0 /\ p \in CopyAll(t, Temp, xs)
          /\ t.vec[Temp].cap = IF n <= 0 THEN 0 ELSE n
      BY <2>1, <2>2, <2>3 DEF Becomes
    <3>2. Becomes(s, t, Temp, <<>>)
      BY <2>2
    <3> HIDE DEF t
    <3>3. t.vec[Temp].size + Len(xs) <= t.vec[Temp].cap
      BY <1>1, <3>1
    <3> DEFINE ys == Elements(p.s, Temp)
    <3>4. p \in Outcomes /\ Becomes(t, p.s, Temp, ys) /\ (p.ok => ys = <<>> \o xs)
      BY <1>1, <3>1, <3>3, CopyAllRoom
    <3>5. <<>> \o xs = xs
      OBVIOUS
    <3> HIDE DEF ys
    <3>6. Becomes(s, p.s, Temp, ys)
      BY <1>1, <3>2, <3>4, BecomesThen
    <3> QED
      BY <3>4, <3>5, <3>6 DEF ys
  <2>4. CASE ~q.ok
    BY <2>1, <2>2, <2>4 DEF Becomes
  <2> QED
    BY <2>3, <2>4
<1> HIDE DEF all
<1> QED
  BY <1>2, <1>4, FinishSound

(* The vector that shrink_to_fit() builds. *)
LEMMA ShrunkSound ==
  ASSUME NEW s, Sound(s), s.vec[Temp] = NoVec, NEW v \in Vecs, NEW n \in Nat, n = s.vec[v].size,
         NEW q \in ResizeUninitialized(s, Temp, n)
  PROVE  /\ q \in Outcomes
         /\ q.ok => Becomes(s, WithCells(q.s, Temp, SubSeq(Cells(q.s, v), 1, n), n), Temp, Elements(s, v))
         /\ ~q.ok => q.s = s
<1> DEFINE e == Elements(s, v)
           t == q.s
<1>1. Temp \in AllVecs /\ v \in AllVecs /\ v \in AllVecs \ {Temp}
  BY VectorAssumption DEF AllVecs
<1>2. s.vec[Temp].size = 0 /\ s.vec[Temp].cap = 0
  BY NoVecElements
<1>3. /\ q \in Outcomes
      /\ q.ok => /\ Becomes(s, q.s, Temp, Promise!Resized(Elements(s, Temp), n, Raw)) /\ q.s.vec[Temp].size = n
                 /\ q.s.vec[Temp].cap = IF n <= s.vec[Temp].cap THEN s.vec[Temp].cap ELSE n
      /\ ~q.ok => q.s = s
  BY <1>1, ResizeRawSound
<1>4. e \in Seq(Cell) /\ Len(e) = n
  BY <1>1, ElementsOf
<1>5. CASE q.ok
  <2>1. /\ Sound(t) /\ t.vec[v] = s.vec[v] /\ Cells(t, v) = Cells(s, v) /\ t.vec[Temp].cap = n
        /\ Becomes(s, t, Temp, Promise!Resized(Elements(s, Temp), n, Raw))
    BY <1>1, <1>2, <1>3, <1>5 DEF Becomes
  <2>2. SubSeq(Cells(t, v), 1, n) = e
    BY <2>1 DEF Elements
  <2> HIDE DEF e, t
  <2>3. SubSeq(e, 1, n) = e
    BY <1>4
  <2>4. n <= t.vec[Temp].cap /\ \A k \in n + 1 .. t.vec[Temp].cap : e[k] \in {Raw, Moved}
    BY <2>1
  <2>5. Becomes(t, WithCells(t, Temp, e, n), Temp, SubSeq(e, 1, n))
    BY <1>1, <1>4, <2>1, <2>4, WithCellsSound
  <2>6. Becomes(s, WithCells(t, Temp, e, n), Temp, e)
    <3> DEFINE u == WithCells(t, Temp, e, n)
               z == Promise!Resized(Elements(s, Temp), n, Raw)
    <3>1. Becomes(s, t, Temp, z) /\ Becomes(t, u, Temp, e)
      BY <2>1, <2>3, <2>5
    <3> HIDE DEF u, z
    <3>2. Becomes(s, u, Temp, e)
      BY <1>1, <3>1, BecomesThen
    <3> QED
      BY <3>2 DEF u
  <2> QED
    BY <1>3, <1>5, <2>2, <2>6 DEF t, e
<1> QED
  BY <1>3, <1>5

(* shrink_to_fit() *)
LEMMA ShrinkSound ==
  ASSUME NEW s, Sound(s), s.vec[Temp] = NoVec, NEW v \in Vecs, NEW r \in Shrink(s, v)
  PROVE  r \in Outcomes /\ Becomes(s, r.s, v, Elements(s, v))
<1> DEFINE n == s.vec[v].size
           Put(t) == WithCells(t, Temp, SubSeq(Cells(t, v), 1, n), n)
           all == Then(ResizeUninitialized(s, Temp, n), LAMBDA t : {Ok(Put(t))})
<1>1. n \in Nat
  BY CellsOf DEF AllVecs
<1>2. r \in Finish(all, v)
  BY DEF Shrink
<1>3. ASSUME NEW p \in all
      PROVE  /\ p \in Outcomes /\ Becomes(s, p.s, Temp, Elements(p.s, Temp))
             /\ p.ok => Elements(p.s, Temp) = Elements(s, v)
  <2>1. PICK q \in ResizeUninitialized(s, Temp, n) : (q.ok /\ p = Ok(Put(q.s))) \/ (~q.ok /\ p = q)
    BY <1>3 DEF Then
  <2> HIDE DEF all
  <2>2. /\ q \in Outcomes
        /\ q.ok => Becomes(s, Put(q.s), Temp, Elements(s, v))
        /\ ~q.ok => q.s = s
    BY <1>1, ShrunkSound
  <2> HIDE DEF Put
  <2> QED
    BY <2>1, <2>2, OutcomeOf DEF Ok, Becomes
<1> HIDE DEF all
<1>4. r \in Outcomes /\ Becomes(s, r.s, v, IF r.ok THEN Elements(s, v) ELSE Elements(s, v))
  BY <1>2, <1>3, FinishSound
<1> QED
  BY <1>4
(* An object moved from one cell to another. *)
LEMMA MoveCellExact ==
  ASSUME NEW cap \in Nat, NEW c \in [1 .. cap -> Cell], NEW a \in 1 .. cap, NEW b \in 1 .. cap, a # b, NEW left \in Cell
  PROVE  /\ MoveCell(c, a, b, left) \in [1 .. cap -> Cell]
         /\ \A k \in 1 .. cap : MoveCell(c, a, b, left)[k] = IF k = a THEN left ELSE IF k = b THEN c[a] ELSE c[k]
BY DEF MoveCell

(* insert() moves every element behind its place once, before anything is   *)
(* moved over it.                                                           *)
IsShifted(x, c, cap, from, to, n) ==
  /\ x \in [1 .. cap -> Cell]
  /\ \A k \in 1 .. cap : k < from - n \/ k > to => x[k] = c[k]
  /\ \A k \in from .. to : x[k] = c[k - n]

LEMMA ShiftedExact ==
  ASSUME NEW cap \in Nat, NEW c \in [1 .. cap -> Cell], NEW n \in Nat \ {0}, NEW from \in Nat, NEW to \in Nat,
         n < from, from <= to + 1, to <= cap
  PROVE  IsShifted(Shifted(c, from, to, n), c, cap, from, to, n)
<1> DEFINE order == ShiftOrder(from, to)
           N == Len(order)
           Step(m, x) == MoveCell(x, order[m] - n, order[m], Raw)
           Def(f) == [m \in 0 .. N |-> IF m = 0 THEN c ELSE MoveCell(f[m - 1], order[m] - n, order[m], Raw)]
           F == CHOOSE f : f = Def(f)
           S == [1 .. cap -> Cell]
<1>1. Shifted(c, from, to, n) = F[N]
  BY DEF Shifted
<1>2. N \in Nat /\ N = to - from + 1 /\ \A m \in 1 .. N : order[m] = to - m + 1
  <2> DEFINE d == to - from + 1
  <2>1. d \in Nat /\ order \in [1 .. d -> Int] /\ \A m \in 1 .. d : order[m] = to - m + 1
    BY DEF ShiftOrder
  <2> HIDE DEF order, d
  <2>2. Len(order) = d
    BY <2>1, FunctionIsSeq
  <2> QED
    BY <2>1, <2>2 DEF d
<1> HIDE DEF order, N
<1>3. Raw \in Cell
  BY DEF Cell
<1>E. c \in S /\ \A m \in 1 .. N : \A x \in S : Step(m, x) \in S
  <2>1. ASSUME NEW m \in 1 .. N, NEW x \in S PROVE Step(m, x) \in S
    <3>1. order[m] \in 1 .. cap /\ order[m] - n \in 1 .. cap /\ order[m] - n # order[m]
      BY <1>2
    <3> QED
      BY <1>3, <3>1, MoveCellExact
  <2> QED
    BY <2>1
<1>4. F = Def(F)
  <2> DEFINE G == [k \in 1 .. N |-> [x \in S |-> Step(k, x)]]
  <2> HIDE DEF Step
  <2>1. G \in [1 .. N -> [S -> S]]
    BY <1>E
  <2>2. Iterations(S, N, c, G) # {}
    <3>1. N \in Nat /\ c \in S
      BY <1>2, <1>E
    <3> HIDE DEF G
    <3> QED
      BY <3>1, <2>1, Iterate
  <2>3. PICK f \in [0 .. N -> S] : f[0] = c /\ \A k \in 1 .. N : f[k] = G[k][f[k - 1]]
    BY <2>2 DEF Iterations
  <2>4. \A k \in 1 .. N : f[k] = Step(k, f[k - 1])
    <3> SUFFICES ASSUME NEW k \in 1 .. N PROVE f[k] = Step(k, f[k - 1])
      OBVIOUS
    <3>1. f[k - 1] \in S
      BY <1>2
    <3> QED
      BY <2>3, <3>1
  <2>5. f = Def(f)
    <3>1. \A k \in 0 .. N : k = 0 \/ k \in 1 .. N
      BY <1>2
    <3> QED
      BY <2>3, <2>4, <3>1 DEF Step
  <2> HIDE DEF Def
  <2> QED
    BY <2>5
<1>5. F[0] = c /\ \A k \in 1 .. N : F[k] = Step(k, F[k - 1])
  <2> HIDE DEF F
  <2>1. \A k \in 1 .. N : k \in 0 .. N /\ k # 0
    BY <1>2
  <2>2. F[0] = c
    BY <1>2, <1>4
  <2> QED
    BY <1>4, <2>1, <2>2
<1> HIDE DEF F
<1> DEFINE Good(m, x) == /\ \A k \in 1 .. cap : k < to - m - n + 1 \/ k > to => x[k] = c[k]
                         /\ \A k \in to - m + 1 .. to : x[k] = c[k - n]
           A == {m \in 0 .. N : F[m] \in S /\ Good(m, F[m])}
<1>G. ASSUME NEW m \in 1 .. N, NEW x \in S, Good(m - 1, x) PROVE Good(m, Step(m, x))
  <2> DEFINE p == order[m]
             y == Step(m, x)
  <2>1. p \in 1 .. cap /\ p - n \in 1 .. cap /\ p - n # p /\ p = to - m + 1
    BY <1>2
  <2>2. y = MoveCell(x, p - n, p, Raw)
    OBVIOUS
  <2> HIDE DEF p, y
  <2>3. \A k \in 1 .. cap : y[k] = IF k = p - n THEN Raw ELSE IF k = p THEN x[p - n] ELSE x[k]
    <3> DEFINE q == p - n
    <3>1. q \in 1 .. cap /\ q # p /\ y = MoveCell(x, q, p, Raw)
      BY <2>1, <2>2
    <3> HIDE DEF q, Good, Step
    <3>2. \A k \in 1 .. cap : MoveCell(x, q, p, Raw)[k] = IF k = q THEN Raw ELSE IF k = p THEN x[q] ELSE x[k]
      BY <2>1, <3>1 DEF MoveCell
    <3> QED
      BY <3>1, <3>2 DEF q
  <2>4. x[p - n] = c[p - n]
    BY <1>2, <1>G, <2>1
  <2>5. ASSUME NEW k \in 1 .. cap, k < to - m - n + 1 \/ k > to PROVE y[k] = c[k]
    BY <1>2, <1>G, <2>1, <2>3, <2>5
  <2>6. ASSUME NEW k \in to - m + 1 .. to PROVE y[k] = c[k - n]
    <3>1. CASE k = p
      BY <1>2, <2>1, <2>3, <2>4, <3>1
    <3>2. CASE k # p
      <4>1. k \in to - (m - 1) + 1 .. to /\ k \in 1 .. cap /\ k # p - n
        BY <1>2, <2>1, <3>2
      <4> QED
        BY <1>G, <2>3, <3>2, <4>1
    <3> QED
      BY <3>1, <3>2
  <2> QED
    BY <2>5, <2>6 DEF y
<1> HIDE DEF Step, Good
<1>6. 0 .. N \subseteq A
  <2>1. 0 \in A
    <3>1. Good(0, c)
      BY <1>2 DEF Good
    <3> QED
      BY <1>2, <1>5, <1>E, <3>1
  <2>2. ASSUME NEW m \in 1 .. N, m - 1 \in A PROVE m \in A
    BY <1>2, <1>5, <1>E, <1>G, <2>2
  <2> HIDE DEF A
  <2> QED
    BY <1>2, <2>1, <2>2, UpTo
<1>7. F[N] \in S /\ Good(N, F[N])
  BY <1>2, <1>6
<1>8. to - N - n + 1 = from - n /\ to - N + 1 = from
  BY <1>2
<1> QED
  BY <1>1, <1>7, <1>8 DEF Good, IsShifted

(* Sequences with a part put in or taken out, element by element. *)
IsInserted(z, e, xs, i, S) ==
  /\ z \in Seq(S) /\ Len(z) = Len(e) + Len(xs)
  /\ \A k \in 1 .. Len(e) + Len(xs) :
       z[k] = IF k <= i THEN e[k] ELSE IF k <= i + Len(xs) THEN xs[k - i] ELSE e[k - Len(xs)]

LEMMA InsertedIs ==
  ASSUME NEW S, NEW e \in Seq(S), NEW xs \in Seq(S), NEW i \in 0 .. Len(e)
  PROVE  IsInserted(Promise!Inserted(e, i, xs), e, xs, i, S)
<1> DEFINE n == Len(xs)
           a == SubSeq(e, 1, i)
           b == SubSeq(e, i + 1, Len(e))
           c == a \o xs
           z == Promise!Inserted(e, i, xs)
<1>1. n \in Nat /\ Len(e) \in Nat /\ i \in Nat /\ i <= Len(e)
  OBVIOUS
<1>2. a \in Seq(S) /\ Len(a) = i /\ \A k \in 1 .. i : a[k] = e[k]
  BY <1>1
<1>3. b \in Seq(S) /\ Len(b) = Len(e) - i /\ \A k \in 1 .. Len(e) - i : b[k] = e[i + k]
  BY <1>1
<1>4. z = c \o b
  BY DEF Promise!Inserted
<1> HIDE DEF a, b, c, z, n
<1>5. c \in Seq(S) /\ Len(c) = i + n /\ \A k \in 1 .. i + n : c[k] = IF k <= i THEN a[k] ELSE xs[k - i]
  BY <1>1, <1>2, ConcatProperties DEF c, n
<1>6. z \in Seq(S) /\ Len(z) = (i + n) + (Len(e) - i)
      /\ \A k \in 1 .. (i + n) + (Len(e) - i) : z[k] = IF k <= i + n THEN c[k] ELSE b[k - (i + n)]
  <2>1. z \in Seq(S) /\ Len(z) = Len(c) + Len(b)
        /\ \A k \in 1 .. Len(c) + Len(b) : z[k] = IF k <= Len(c) THEN c[k] ELSE b[k - Len(c)]
    BY <1>3, <1>4, <1>5, ConcatProperties
  <2> QED
    BY <1>3, <1>5, <2>1
<1>7. (i + n) + (Len(e) - i) = Len(e) + n
  BY <1>1
<1>8. ASSUME NEW k \in 1 .. Len(e) + n
      PROVE  z[k] = IF k <= i THEN e[k] ELSE IF k <= i + n THEN xs[k - i] ELSE e[k - n]
  <2>1. CASE k <= i
    <3>1. k \in 1 .. i + n /\ k \in 1 .. i
      BY <1>1, <2>1
    <3> QED
      BY <1>1, <1>2, <1>5, <1>6, <1>7, <2>1, <3>1
  <2>2. CASE ~(k <= i) /\ k <= i + n
    <3>1. k \in 1 .. i + n
      BY <1>1, <2>2
    <3> QED
      BY <1>1, <1>5, <1>6, <1>7, <2>2, <3>1
  <2>3. CASE ~(k <= i + n)
    <3>1. k - (i + n) \in 1 .. Len(e) - i /\ i + (k - (i + n)) = k - n /\ ~(k <= i)
      BY <1>1, <2>3
    <3> QED
      BY <1>1, <1>3, <1>6, <1>7, <2>3, <3>1
  <2> QED
    BY <2>1, <2>2, <2>3
<1>9. IsInserted(z, e, xs, i, S)
  BY <1>6, <1>7, <1>8 DEF IsInserted, n
<1> QED
  BY <1>9 DEF z

IsErasedSeq(z, e, n, i, d, S) ==
  /\ z \in Seq(S) /\ Len(z) = n
  /\ \A k \in 1 .. n : z[k] = IF k <= i THEN e[k] ELSE e[k + d]

LEMMA ErasedIs ==
  ASSUME NEW S, NEW e \in Seq(S), NEW i \in Nat, NEW j \in Nat, i <= j, j <= Len(e)
  PROVE  IsErasedSeq(Promise!Erased(e, i, j), e, Len(e) - (j - i), i, j - i, S)
<1> DEFINE a == SubSeq(e, 1, i)
           b == SubSeq(e, j + 1, Len(e))
           z == Promise!Erased(e, i, j)
<1>1. Len(e) \in Nat
  OBVIOUS
<1>2. a \in Seq(S) /\ Len(a) = i /\ \A k \in 1 .. i : a[k] = e[k]
  BY <1>1
<1>3. b \in Seq(S) /\ Len(b) = Len(e) - j /\ \A k \in 1 .. Len(e) - j : b[k] = e[j + k]
  BY <1>1
<1>4. z = a \o b
  BY DEF Promise!Erased
<1> HIDE DEF a, b, z
<1>5. z \in Seq(S) /\ Len(z) = i + (Len(e) - j)
      /\ \A k \in 1 .. i + (Len(e) - j) : z[k] = IF k <= i THEN a[k] ELSE b[k - i]
  <2>1. z \in Seq(S) /\ Len(z) = Len(a) + Len(b)
        /\ \A k \in 1 .. Len(a) + Len(b) : z[k] = IF k <= Len(a) THEN a[k] ELSE b[k - Len(a)]
    BY <1>2, <1>3, <1>4, ConcatProperties
  <2> QED
    BY <1>2, <1>3, <2>1
<1>6. i + (Len(e) - j) = Len(e) - (j - i)
  BY <1>1
<1>7. ASSUME NEW k \in 1 .. Len(e) - (j - i) PROVE z[k] = IF k <= i THEN e[k] ELSE e[k + (j - i)]
  <2>1. CASE k <= i
    BY <1>1, <1>2, <1>5, <1>6, <2>1
  <2>2. CASE ~(k <= i)
    <3>1. k - i \in 1 .. Len(e) - j /\ j + (k - i) = k + (j - i)
      BY <1>1, <2>2
    <3> QED
      BY <1>1, <1>3, <1>5, <1>6, <2>2, <3>1
  <2> QED
    BY <2>1, <2>2
<1>8. IsErasedSeq(z, e, Len(e) - (j - i), i, j - i, S)
  BY <1>5, <1>6, <1>7 DEF IsErasedSeq
<1> QED
  BY <1>8 DEF z

LEMMA FrontOf ==
  ASSUME NEW S, NEW s \in Seq(S), NEW n \in Nat, n <= Len(s), NEW z \in Seq(S), Len(z) = n, \A k \in 1 .. n : s[k] = z[k]
  PROVE  SubSeq(s, 1, n) = z
<1>1. SubSeq(s, 1, n) \in Seq(S) /\ Len(SubSeq(s, 1, n)) = n /\ \A k \in 1 .. n : SubSeq(s, 1, n)[k] = s[k]
  OBVIOUS
<1> QED
  BY <1>1, SeqEqual

(* insert(): the cells when there is room for the new elements. *)
Filled(c, xs, i) == [k \in DOMAIN c |-> IF k \in i + 1 .. i + Len(xs) THEN xs[k - i] ELSE c[k]]

IsFilled(d, c, xs, cap, i, m, n) ==
  /\ d \in [1 .. cap -> Cell]
  /\ \A k \in 1 .. cap : k <= i \/ k > m => d[k] = c[k]
  /\ \A k \in i + 1 .. i + n : d[k] = xs[k - i]
  /\ \A k \in i + n + 1 .. m : d[k] = c[k - n]

LEMMA FilledCells ==
  ASSUME NEW cap \in Nat, NEW c \in [1 .. cap -> Cell], NEW xs \in Seq(Cell), NEW n \in Nat \ {0}, n = Len(xs),
         NEW i \in Nat, NEW m \in Nat, i + n <= m, m <= cap,
         NEW d, d = Filled(Shifted(c, i + n + 1, m, n), xs, i)
  PROVE  IsFilled(d, c, xs, cap, i, m, n)
<1> DEFINE from == i + n + 1
           x == Shifted(c, from, m, n)
<1>0. n \in Nat \ {0} /\ i + n <= m /\ d = Filled(x, xs, i)
  OBVIOUS
<1>1. \A k \in i + 1 .. i + n : xs[k - i] \in Cell
  OBVIOUS
<1>2. from \in Nat /\ n < from /\ from <= m + 1 /\ from - n = i + 1
  OBVIOUS
<1> HIDE DEF from
<1>3. /\ x \in [1 .. cap -> Cell]
      /\ \A k \in 1 .. cap : k < from - n \/ k > m => x[k] = c[k]
      /\ \A k \in from .. m : x[k] = c[k - n]
  <2>1. from \in Nat /\ n < from /\ from <= m + 1 /\ n \in Nat \ {0}
    BY <1>0, <1>2
  <2>2. IsShifted(x, c, cap, from, m, n)
    BY <2>1, ShiftedExact
  <2> HIDE DEF x
  <2> QED
    BY <2>2 DEF IsShifted
<1> HIDE DEF x
<1>4. d \in [1 .. cap -> Cell] /\ \A k \in 1 .. cap : d[k] = IF k \in i + 1 .. i + n THEN xs[k - i] ELSE x[k]
  BY <1>0, <1>1, <1>3 DEF Filled
<1>5. ASSUME NEW k \in 1 .. cap, k <= i \/ k > m PROVE d[k] = c[k]
  <2>1. k < from - n \/ k > m
    BY <1>2, <1>5
  <2>2. k \notin i + 1 .. i + n
    BY <1>0, <1>5
  <2> QED
    BY <1>3, <1>4, <2>1, <2>2
<1>6. ASSUME NEW k \in i + 1 .. i + n PROVE d[k] = xs[k - i]
  <2>1. k \in 1 .. cap
    BY <1>0
  <2> QED
    BY <1>4, <2>1
<1>7. ASSUME NEW k \in i + n + 1 .. m PROVE d[k] = c[k - n]
  <2>1. k \in 1 .. cap /\ k \notin i + 1 .. i + n /\ k \in from .. m
    BY <1>0 DEF from
  <2> QED
    BY <1>3, <1>4, <2>1
<1> QED
  BY <1>4, <1>5, <1>6, <1>7 DEF IsFilled

LEMMA FilledSound ==
  ASSUME NEW t, Sound(t), NEW v \in AllVecs, NEW e \in Seq(Cell), NEW xs \in Seq(Cell), xs # <<>>, NEW i \in 0 .. Len(e),
         NEW m \in Nat, m = Len(e) + Len(xs), t.vec[v].size = m, \A k \in 1 .. Len(e) : Cells(t, v)[k] = e[k],
         NEW d \in [1 .. t.vec[v].cap -> Cell],
         \A k \in 1 .. t.vec[v].cap : k <= i \/ k > m => d[k] = Cells(t, v)[k],
         \A k \in i + 1 .. i + Len(xs) : d[k] = xs[k - i],
         \A k \in i + Len(xs) + 1 .. m : d[k] = Cells(t, v)[k - Len(xs)]
  PROVE  Becomes(t, WithCells(t, v, d, m), v, Promise!Inserted(e, i, xs))
<1> DEFINE n == Len(xs)
           c == Cells(t, v)
           cap == t.vec[v].cap
           z == Promise!Inserted(e, i, xs)
<1>1. /\ cap \in Nat /\ c \in Seq(Cell) /\ Len(c) = cap /\ m <= cap
      /\ \A k \in m + 1 .. cap : c[k] \in {Raw, Moved}
  BY CellsOf
<1>2. n \in Nat \ {0} /\ i \in Nat /\ i <= Len(e) /\ Len(e) \in Nat /\ m = Len(e) + n
  BY EmptySeq
<1>3. z \in Seq(Cell) /\ Len(z) = m /\ \A k \in 1 .. m : z[k] = IF k <= i THEN e[k] ELSE IF k <= i + n THEN xs[k - i] ELSE e[k - n]
  <2>1. IsInserted(Promise!Inserted(e, i, xs), e, xs, i, Cell)
    BY InsertedIs
  <2> HIDE DEF z
  <2>2. IsInserted(z, e, xs, i, Cell)
    BY <2>1 DEF z
  <2> QED
    BY <1>2, <2>2 DEF IsInserted
<1>4. /\ \A k \in 1 .. cap : k <= i \/ k > m => d[k] = c[k]
      /\ \A k \in i + 1 .. i + n : d[k] = xs[k - i]
      /\ \A k \in i + n + 1 .. m : d[k] = c[k - n]
      /\ \A k \in 1 .. Len(e) : c[k] = e[k]
      /\ d \in [1 .. cap -> Cell]
  OBVIOUS
<1> HIDE DEF n, c, cap, z
<1>5. d \in Seq(Cell) /\ Len(d) = cap
  BY <1>1, <1>4, FunctionIsSeq
<1>6. ASSUME NEW k \in m + 1 .. cap PROVE d[k] \in {Raw, Moved}
  <2>1. k \in 1 .. cap /\ k > m
    BY <1>1, <1>2
  <2> QED
    BY <1>1, <1>4, <2>1
<1>7. ASSUME NEW k \in 1 .. m PROVE d[k] = z[k]
  <2>1. CASE k <= i
    <3>1. k \in 1 .. cap /\ k \in 1 .. Len(e)
      BY <1>1, <1>2, <2>1
    <3> QED
      BY <1>3, <1>4, <2>1, <3>1
  <2>2. CASE ~(k <= i) /\ k <= i + n
    <3>1. k \in i + 1 .. i + n
      BY <1>2, <2>2
    <3> QED
      BY <1>3, <1>4, <2>2, <3>1
  <2>3. CASE ~(k <= i + n)
    <3>1. k \in i + n + 1 .. m /\ k - n \in 1 .. Len(e) /\ ~(k <= i)
      BY <1>2, <2>3
    <3> QED
      BY <1>3, <1>4, <2>3, <3>1
  <2> QED
    BY <2>1, <2>2, <2>3
<1>8. SubSeq(d, 1, m) = z
  <2>1. m <= Len(d)
    BY <1>1, <1>5
  <2> QED
    BY <1>3, <1>5, <1>7, <2>1, FrontOf
<1>9. Becomes(t, WithCells(t, v, d, m), v, SubSeq(d, 1, m))
  BY <1>1, <1>5, <1>6, WithCellsSound DEF cap
<1> QED
  BY <1>8, <1>9 DEF z

(* The elements are where they were after resize_uninitialized(). *)
Starts(c, e) == \A k \in 1 .. Len(e) : c[k] = e[k]

LEMMA RoomFor ==
  ASSUME NEW s, NEW t, NEW v \in AllVecs, NEW e \in Seq(Cell), NEW m \in Nat, Len(e) <= m,
         Becomes(s, t, v, Promise!Resized(e, m, Raw))
  PROVE  Starts(Cells(t, v), e)
<1> DEFINE z == Promise!Resized(e, m, Raw)
<1>1. z \in Seq(Cell) /\ Len(z) = m /\ \A k \in 1 .. m : z[k] = IF k <= Len(e) THEN e[k] ELSE Raw
  <2>1. Raw \in Cell
    BY DEF Cell
  <2>2. IsResized(z, e, m, Cell, Raw)
    BY <2>1, ResizedIs
  <2> HIDE DEF z
  <2> QED
    BY <2>2 DEF IsResized
<1>2. Sound(t) /\ Elements(t, v) = z
  BY DEF Becomes
<1> HIDE DEF z
<1>3. Len(z) = t.vec[v].size /\ \A k \in 1 .. t.vec[v].size : z[k] = Cells(t, v)[k]
  BY <1>2, ElementsOf
<1>4. \A k \in 1 .. Len(e) : k \in 1 .. m /\ k <= Len(e)
  OBVIOUS
<1> QED
  BY <1>1, <1>3, <1>4 DEF Starts

(* insert() makes room, whatever it reserved before. *)
RoomMade(s, v, m) ==
  Then(IF m < s.vec[v].cap THEN Reserve(s, v, Grown(s.vec[v].size)) ELSE {Ok(s)},
       LAMBDA t : ResizeUninitialized(t, v, m))

LEMMA RoomMadeSound ==
  ASSUME NEW s, Sound(s), NEW v \in AllVecs, NEW m \in Nat, NEW q \in RoomMade(s, v, m)
  PROVE  /\ q \in Outcomes
         /\ q.ok => Becomes(s, q.s, v, Promise!Resized(Elements(s, v), m, Raw)) /\ q.s.vec[v].size = m
         /\ ~q.ok => Becomes(s, q.s, v, Elements(s, v))
<1> DEFINE size == s.vec[v].size
           e == Elements(s, v)
           first == IF m < s.vec[v].cap THEN Reserve(s, v, Grown(size)) ELSE {Ok(s)}
<1>1. size \in Nat
  BY CellsOf
<1>2. PICK p \in first : (p.ok /\ q \in ResizeUninitialized(p.s, v, m)) \/ (~p.ok /\ q = p)
  BY DEF RoomMade, Then
<1>3. p \in Outcomes /\ Becomes(s, p.s, v, e)
  <2>1. Becomes(s, s, v, e)
    BY DEF Becomes
  <2>2. CASE p = Ok(s)
    BY <2>1, <2>2, OutcomeOf DEF Ok
  <2>3. CASE p \in Reserve(s, v, Grown(size))
    <3>1. Grown(size) \in Nat
      BY <1>1, GrownMore
    <3> QED
      BY <2>3, <3>1, ReserveSound
  <2> QED
    BY <2>2, <2>3
<1> HIDE DEF first, e
<1>4. CASE ~p.ok
  BY <1>2, <1>3, <1>4 DEF e
<1>5. CASE p.ok
  <2> DEFINE t == p.s
  <2>1. Sound(t) /\ Elements(t, v) = e /\ q \in ResizeUninitialized(t, v, m) /\ Becomes(s, t, v, e)
    BY <1>2, <1>3, <1>5 DEF Becomes
  <2> HIDE DEF t
  <2>2. /\ q \in Outcomes
        /\ q.ok => Becomes(t, q.s, v, Promise!Resized(Elements(t, v), m, Raw)) /\ q.s.vec[v].size = m
        /\ ~q.ok => q.s = t
    BY <2>1, ResizeRawSound
  <2> DEFINE z == Promise!Resized(e, m, Raw)
  <2>3. q.ok => Becomes(t, q.s, v, z)
    BY <2>1, <2>2
  <2> HIDE DEF z
  <2>4. q.ok => Becomes(s, q.s, v, z)
    BY <2>1, <2>3, BecomesThen
  <2> QED
    BY <2>1, <2>2, <2>4 DEF z, e
<1> QED
  BY <1>4, <1>5

(* insert() of something. *)
LEMMA InsertSound ==
  ASSUME NEW s, Sound(s), NEW v \in AllVecs, NEW xs \in Seq(Cell), xs # <<>>, NEW i \in 0 .. s.vec[v].size,
         NEW r \in Insert(s, v, i, xs)
  PROVE  r \in Outcomes /\ Becomes(s, r.s, v, IF r.ok THEN Promise!Inserted(Elements(s, v), i, xs) ELSE Elements(s, v))
<1> DEFINE n == Len(xs)
           size == s.vec[v].size
           m == size + n
           e == Elements(s, v)
           Put(t) == WithCells(t, v, Filled(Shifted(Cells(t, v), i + n + 1, m, n), xs, i), m)
<1>1. size \in Nat /\ e \in Seq(Cell) /\ Len(e) = size /\ n \in Nat \ {0} /\ n > 0 /\ m \in Nat
  BY CellsOf, ElementsOf, EmptySeq
<1>2. PICK q \in RoomMade(s, v, m) : (q.ok /\ r = Ok(Put(q.s))) \/ (~q.ok /\ r = q)
  BY <1>1 DEF Insert, Then, Filled, RoomMade
<1> HIDE DEF Put
<1>5. q \in Outcomes /\ (~q.ok => Becomes(s, q.s, v, e))
      /\ (q.ok => Becomes(s, q.s, v, Promise!Resized(e, m, Raw)) /\ q.s.vec[v].size = m)
  BY <1>1, <1>2, RoomMadeSound
<1>6. CASE ~q.ok
  BY <1>2, <1>5, <1>6
<1>7. CASE q.ok
  <2> DEFINE t == q.s
             c == Cells(t, v)
             cap == t.vec[v].cap
             d == Filled(Shifted(c, i + n + 1, m, n), xs, i)
             z == Promise!Resized(e, m, Raw)
  <2>1. Sound(t) /\ Elements(t, v) = z /\ t.vec[v].size = m /\ Becomes(s, t, v, z)
    BY <1>5, <1>7 DEF Becomes
  <2>2. Raw \in Cell
    BY DEF Cell
  <2>3. \A k \in 1 .. Len(e) : c[k] = e[k]
    <3>1. m \in Nat /\ Len(e) <= m
      BY <1>1
    <3> HIDE DEF m, e, t, c
    <3> QED
      <4>1. Starts(Cells(t, v), e)
        BY <1>1, <2>1, <3>1, RoomFor DEF z
      <4> QED
        BY <4>1 DEF c, Starts
  <2>4. cap \in Nat /\ c \in Seq(Cell) /\ Len(c) = cap /\ m <= cap
    BY <2>1, CellsOf
  <2> HIDE DEF z, c, cap
  <2>5. c \in [1 .. cap -> Cell] /\ xs \in [1 .. n -> Cell]
    BY <1>1, <2>4
  <2>6. i \in Nat /\ i + n <= m
    BY <1>1
  <2> HIDE DEF n, m
  <2>7. /\ d \in [1 .. cap -> Cell]
        /\ \A k \in 1 .. cap : k <= i \/ k > m => d[k] = c[k]
        /\ \A k \in i + 1 .. i + n : d[k] = xs[k - i]
        /\ \A k \in i + n + 1 .. m : d[k] = c[k - n]
    <3>1. n \in Nat \ {0} /\ m \in Nat /\ m <= cap /\ cap \in Nat /\ Len(xs) = n
      BY <1>1, <2>4 DEF n, m
    <3>2. d = Filled(Shifted(c, i + n + 1, m, n), xs, i) /\ n = Len(xs) /\ xs \in Seq(Cell)
      BY <3>1
    <3>3. c \in [1 .. cap -> Cell] /\ i \in Nat /\ i + n <= m
      BY <2>5, <2>6
    <3> HIDE DEF d
    <3>4. IsFilled(d, c, xs, cap, i, m, n)
      BY <3>1, <3>2, <3>3, FilledCells
    <3> QED
      BY <3>4 DEF IsFilled
  <2> HIDE DEF d
  <2>8. Becomes(t, WithCells(t, v, d, m), v, Promise!Inserted(e, i, xs))
    <3>1. i \in 0 .. Len(e) /\ m = Len(e) + Len(xs) /\ m \in Nat
      BY <1>1 DEF m, n
    <3> HIDE DEF e, t
    <3> QED
      BY <1>1, <2>1, <2>3, <2>7, <3>1, FilledSound DEF n, c, cap
  <2> DEFINE u == WithCells(t, v, d, m)
             y == Promise!Inserted(e, i, xs)
  <2>9. Becomes(s, u, v, y)
    <3> HIDE DEF u, y, t
    <3>1. Becomes(t, u, v, y)
      BY <2>8 DEF u, y
    <3> QED
      BY <2>1, <3>1, BecomesThen
  <2>10. r = Ok(u)
    BY <1>2, <1>7 DEF Put, d, c, n, m
  <2> HIDE DEF u, y
  <2> QED
    BY <2>9, <2>10, OutcomeOf DEF Ok, Becomes, y
<1> QED
  BY <1>6, <1>7

(* The elements before the i-th are what they were, and none is missing.    *)
Spared(xs, e, i) == Len(xs) = Len(e) /\ \A k \in 1 .. i : xs[k] = e[k]

(* Elements that are moved to themselves. *)
LEMMA SelfMovedSound ==
  ASSUME NEW s, Sound(s), NEW v \in AllVecs, NEW i \in 0 .. s.vec[v].size, NEW left \in {Raw, Moved},
         NEW r \in SelfMoved(s, v, i, left)
  PROVE  r \in Outcomes /\ r.ok /\ \E xs \in Seq(Cell) : Spared(xs, Elements(s, v), i) /\ Becomes(s, r.s, v, xs)
<1> DEFINE size == s.vec[v].size
           cap == s.vec[v].cap
           c == Cells(s, v)
           e == Elements(s, v)
           d == [k \in DOMAIN c |-> IF k \in i + 1 .. size THEN left ELSE c[k]]
<1>1. /\ size \in Nat /\ cap \in Nat /\ size <= cap /\ i \in Nat /\ i <= size
      /\ c \in Seq(Cell) /\ Len(c) = cap /\ DOMAIN c = 1 .. cap
      /\ \A k \in size + 1 .. cap : c[k] \in {Raw, Moved}
  BY CellsOf
<1>2. e \in Seq(Cell) /\ Len(e) = size /\ \A k \in 1 .. size : e[k] = c[k]
  BY ElementsOf
<1>3. CASE r = Ok(s)
  <2>1. Spared(e, e, i) /\ Becomes(s, s, v, e)
    BY DEF Spared, Becomes
  <2> HIDE DEF e
  <2> QED
    BY <1>2, <1>3, <2>1, OutcomeOf DEF Ok, e
<1>4. CASE r = Ok(WithCells(s, v, d, size))
  <2> HIDE DEF c, e, size, cap
  <2>1. d \in [1 .. cap -> Cell]
    BY <1>1 DEF Cell
  <2>2. d \in Seq(Cell) /\ Len(d) = cap /\ \A k \in 1 .. cap : d[k] = IF k \in i + 1 .. size THEN left ELSE c[k]
    BY <1>1, <2>1
  <2> HIDE DEF d
  <2>3. \A k \in size + 1 .. cap : d[k] \in {Raw, Moved}
    BY <1>1, <2>2
  <2> DEFINE xs == SubSeq(d, 1, size)
             t == WithCells(s, v, d, size)
  <2>4. Becomes(s, t, v, xs)
    BY <1>1, <2>2, <2>3, WithCellsSound DEF cap
  <2>5. xs \in Seq(Cell) /\ Len(xs) = size /\ \A k \in 1 .. size : xs[k] = d[k]
    BY <1>1, <2>2
  <2>6. \A k \in 1 .. i : xs[k] = e[k]
    BY <1>1, <1>2, <2>2, <2>5
  <2> HIDE DEF xs, t
  <2>7. Spared(xs, e, i)
    BY <1>2, <2>5, <2>6 DEF Spared
  <2>8. r \in Outcomes /\ r.ok /\ r.s = t
    BY <1>4, <2>4, OutcomeOf DEF Ok, Becomes, t
  <2> QED
    BY <2>4, <2>5, <2>7, <2>8 DEF e
<1> QED
  BY <1>3, <1>4 DEF SelfMoved

(* insert() of nothing spares what is before its place. *)
LEMMA InsertNothing ==
  ASSUME NEW s, Sound(s), NEW v \in AllVecs, NEW i \in 0 .. s.vec[v].size, NEW r \in Insert(s, v, i, <<>>)
  PROVE  /\ r \in Outcomes
         /\ r.ok => \E xs \in Seq(Cell) : Spared(xs, Elements(s, v), i) /\ Becomes(s, r.s, v, xs)
         /\ ~r.ok => Becomes(s, r.s, v, Elements(s, v))
<1> DEFINE size == s.vec[v].size
           e == Elements(s, v)
<1>1. size \in Nat /\ e \in Seq(Cell) /\ Len(e) = size /\ Len(<<>>) = 0 /\ size + Len(<<>>) = size
  BY CellsOf, ElementsOf
<1>2. PICK q \in RoomMade(s, v, size) : (q.ok /\ r \in SelfMoved(q.s, v, i, Raw)) \/ (~q.ok /\ r = q)
  <2>1. PICK q \in RoomMade(s, v, size + Len(<<>>)) : (q.ok /\ r \in SelfMoved(q.s, v, i, Raw)) \/ (~q.ok /\ r = q)
    BY <1>1 DEF Insert, Then, RoomMade
  <2> QED
    BY <1>1, <2>1
<1> HIDE DEF e, size
<1>3. Promise!Resized(e, size, Raw) = e
  <2>1. Raw \in Cell
    BY DEF Cell
  <2> DEFINE z == Promise!Resized(e, size, Raw)
  <2>2. IsResized(z, e, size, Cell, Raw)
    BY <1>1, <2>1, ResizedIs
  <2> HIDE DEF z
  <2>3. z \in Seq(Cell) /\ Len(z) = Len(e) /\ \A k \in 1 .. Len(e) : z[k] = e[k]
    BY <1>1, <2>2 DEF IsResized
  <2>4. z = e
    BY <1>1, <2>3, SeqEqual
  <2> QED
    BY <2>4 DEF z
<1>4. /\ q \in Outcomes
      /\ q.ok => Becomes(s, q.s, v, e) /\ q.s.vec[v].size = size
      /\ ~q.ok => Becomes(s, q.s, v, e)
  BY <1>1, <1>2, <1>3, RoomMadeSound DEF e
<1>5. CASE ~q.ok
  BY <1>2, <1>4, <1>5 DEF e
<1>6. CASE q.ok
  <2> DEFINE t == q.s
  <2>1. Sound(t) /\ Elements(t, v) = e /\ t.vec[v].size = size /\ r \in SelfMoved(t, v, i, Raw) /\ Becomes(s, t, v, e)
    BY <1>2, <1>4, <1>6 DEF Becomes
  <2> HIDE DEF t
  <2>2. r \in Outcomes /\ r.ok /\ \E xs \in Seq(Cell) : Spared(xs, Elements(t, v), i) /\ Becomes(t, r.s, v, xs)
    BY <2>1, SelfMovedSound DEF size
  <2>3. PICK xs \in Seq(Cell) : Spared(xs, Elements(t, v), i) /\ Becomes(t, r.s, v, xs)
    BY <2>2
  <2>4. Spared(xs, e, i) /\ Becomes(s, r.s, v, xs)
    BY <2>1, <2>3, BecomesThen
  <2> QED
    BY <2>2, <2>4 DEF e
<1> QED
  BY <1>5, <1>6

(* erase() moves every element behind the range to its place; behind them   *)
(* nothing is left to destroy.                                              *)
IsErased(x, c, cap, size, i, j) ==
  /\ x \in [1 .. cap -> Cell]
  /\ \A k \in 1 .. i : x[k] = c[k]
  /\ \A k \in i + 1 .. size - (j - i) : x[k] = c[k + (j - i)]
  /\ \A k \in size - (j - i) + 1 .. size : x[k] \in {Raw, Moved}
  /\ \A k \in size + 1 .. cap : x[k] = c[k]

LEMMA ErasedCells ==
  ASSUME NEW s, Sound(s), NEW v \in AllVecs, NEW i \in Nat, NEW j \in Nat, i < j, j <= s.vec[v].size
  PROVE  \E x : /\ Erase(s, v, i, j) = WithCells(s, v, x, s.vec[v].size - (j - i))
                /\ IsErased(x, Cells(s, v), s.vec[v].cap, s.vec[v].size, i, j)
<1> DEFINE size == s.vec[v].size
           cap == s.vec[v].cap
           c == Cells(s, v)
           N == size - j
           base == [k \in DOMAIN c |-> IF k \in i + 1 .. j THEN Raw ELSE c[k]]
           Step(k, x) == MoveCell(x, j + k, i + k, Moved)
           Def(f) == [k \in 0 .. N |-> IF k = 0 THEN base ELSE MoveCell(f[k - 1], j + k, i + k, Moved)]
           F == CHOOSE f : f = Def(f)
           S == [1 .. cap -> Cell]
<1>1. Erase(s, v, i, j) = WithCells(s, v, F[N], size - (j - i))
  BY DEF Erase
<1>2. N \in Nat /\ size \in Nat /\ cap \in Nat /\ size <= cap /\ N = size - j /\ j <= size
  BY CellsOf
<1>3. c \in S /\ DOMAIN c = 1 .. cap
  <2>1. c \in Seq(Cell) /\ Len(c) = cap
    BY CellsOf
  <2> HIDE DEF c
  <2> QED
    BY <2>1
<1>4a. Raw \in Cell /\ Moved \in Cell
  BY DEF Cell
<1> HIDE DEF size, cap, c, N
<1>4b. base \in [1 .. cap -> Cell] /\ \A k \in 1 .. cap : base[k] = IF k \in i + 1 .. j THEN Raw ELSE c[k]
  BY <1>3, <1>4a
<1> HIDE DEF base
<1>E. base \in S /\ \A k \in 1 .. N : \A x \in S : Step(k, x) \in S
  <2>1. ASSUME NEW k \in 1 .. N, NEW x \in S PROVE Step(k, x) \in S
    <3>1. j + k \in 1 .. cap /\ i + k \in 1 .. cap /\ j + k # i + k
      BY <1>2
    <3> QED
      BY <1>4a, <3>1 DEF MoveCell
  <2> QED
    BY <1>4b, <2>1
<1>4. F = Def(F)
  <2> DEFINE G == [k \in 1 .. N |-> [x \in S |-> Step(k, x)]]
  <2> HIDE DEF Step
  <2>1. G \in [1 .. N -> [S -> S]]
    BY <1>E
  <2>2. Iterations(S, N, base, G) # {}
    <3>1. N \in Nat /\ base \in S
      BY <1>2, <1>E
    <3> HIDE DEF G
    <3> QED
      BY <3>1, <2>1, Iterate
  <2>3. PICK f \in [0 .. N -> S] : f[0] = base /\ \A n \in 1 .. N : f[n] = G[n][f[n - 1]]
    BY <2>2 DEF Iterations
  <2>4. \A n \in 1 .. N : f[n] = Step(n, f[n - 1])
    <3> SUFFICES ASSUME NEW n \in 1 .. N PROVE f[n] = Step(n, f[n - 1])
      OBVIOUS
    <3>1. f[n - 1] \in S
      BY <1>2
    <3> QED
      BY <2>3, <3>1
  <2>5. f = Def(f)
    <3>1. \A k \in 0 .. N : k = 0 \/ k \in 1 .. N
      BY <1>2
    <3> QED
      BY <2>3, <2>4, <3>1 DEF Step
  <2> HIDE DEF Def
  <2> QED
    BY <2>5
<1>5. F[0] = base /\ \A n \in 1 .. N : F[n] = Step(n, F[n - 1])
  <2> HIDE DEF F
  <2>1. \A n \in 1 .. N : n \in 0 .. N /\ n # 0
    BY <1>2
  <2>2. F[0] = base
    BY <1>2, <1>4
  <2> QED
    BY <1>4, <2>1, <2>2
<1> HIDE DEF F
<1> DEFINE Good(m, x) == /\ \A k \in 1 .. i : x[k] = c[k]
                         /\ \A k \in i + 1 .. i + m : x[k] = c[k + (j - i)]
                         /\ \A k \in i + m + 1 .. j + m : x[k] \in {Raw, Moved}
                         /\ \A k \in j + m + 1 .. cap : x[k] = c[k]
           A == {m \in 0 .. N : F[m] \in S /\ Good(m, F[m])}
<1>G. ASSUME NEW m \in 1 .. N, NEW x \in S, Good(m - 1, x) PROVE Good(m, Step(m, x))
  <2> DEFINE p == j + m
             q == i + m
             y == Step(m, x)
  <2>1. p \in 1 .. cap /\ q \in 1 .. cap /\ q < p /\ m \in Nat
    BY <1>2
  <2>2. y = MoveCell(x, p, q, Moved)
    OBVIOUS
  <2>a. p = j + m /\ q = i + m
    OBVIOUS
  <2> HIDE DEF p, q, y
  <2>3. \A k \in 1 .. cap : y[k] = IF k = p THEN Moved ELSE IF k = q THEN x[p] ELSE x[k]
    BY <2>1, <2>2 DEF MoveCell
  <2>4. x[p] = c[p]
    BY <1>G, <2>1, <2>a
  <2>5. ASSUME NEW k \in 1 .. i PROVE y[k] = c[k]
    BY <1>2, <1>G, <2>1, <2>3, <2>a
  <2>6. ASSUME NEW k \in i + 1 .. i + m PROVE y[k] = c[k + (j - i)]
    <3>1. CASE k = q
      <4>1. q # p /\ p = q + (j - i)
        BY <1>2, <2>1, <2>a
      <4>2. y[q] = c[p]
        BY <2>1, <2>3, <2>4, <4>1
      <4> QED
        BY <3>1, <4>1, <4>2
    <3>2. CASE k # q
      <4>1. k \in i + 1 .. i + (m - 1) /\ k \in 1 .. cap /\ k # p
        BY <1>2, <2>1, <2>a, <3>2
      <4> QED
        BY <1>G, <2>3, <3>2, <4>1
    <3> QED
      BY <3>1, <3>2
  <2>7. ASSUME NEW k \in i + m + 1 .. j + m PROVE y[k] \in {Raw, Moved}
    <3>1. k \in 1 .. cap /\ k # q /\ (k = p \/ k \in i + (m - 1) + 1 .. j + (m - 1))
      BY <1>2, <2>1, <2>a
    <3> QED
      BY <1>G, <2>3, <3>1
  <2>8. ASSUME NEW k \in j + m + 1 .. cap PROVE y[k] = c[k]
    <3>1. k \in 1 .. cap /\ k # q /\ k # p /\ k \in j + (m - 1) + 1 .. cap
      BY <1>2, <2>1, <2>a
    <3> QED
      BY <1>G, <2>3, <3>1
  <2> QED
    BY <2>5, <2>6, <2>7, <2>8 DEF y
<1> HIDE DEF Step
<1>6. 0 .. N \subseteq A
  <2>1. 0 \in A
    <3>1. Good(0, base)
      <4>1. \A k \in 1 .. i : k \in 1 .. cap /\ k \notin i + 1 .. j
        BY <1>2
      <4>2. \A k \in j + 0 + 1 .. cap : k \in 1 .. cap /\ k \notin i + 1 .. j
        BY <1>2
      <4>3. \A k \in i + 0 + 1 .. j + 0 : k \in 1 .. cap /\ k \in i + 1 .. j
        BY <1>2
      <4>4. \A k \in i + 1 .. i + 0 : FALSE
        BY <1>2
      <4> QED
        BY <1>4b, <4>1, <4>2, <4>3, <4>4
    <3> HIDE DEF Good
    <3> QED
      BY <1>2, <1>5, <1>E, <3>1
  <2> HIDE DEF Good
  <2>2. ASSUME NEW m \in 1 .. N, m - 1 \in A PROVE m \in A
    BY <1>2, <1>5, <1>E, <1>G, <2>2
  <2> HIDE DEF A
  <2> QED
    BY <1>2, <2>1, <2>2, UpTo
<1>7. F[N] \in S /\ Good(N, F[N])
  <2> HIDE DEF Good
  <2> QED
    BY <1>2, <1>6
<1>8. i + N = size - (j - i) /\ j + N = size
  BY <1>2
<1>9. IsErased(F[N], c, cap, size, i, j)
  BY <1>7, <1>8 DEF IsErased
<1> QED
  BY <1>1, <1>9 DEF c, cap, size

(* erase() *)
LEMMA EraseSound ==
  ASSUME NEW s, Sound(s), NEW v \in AllVecs, NEW i \in Nat, NEW j \in Nat, i < j, j <= s.vec[v].size
  PROVE  Becomes(s, Erase(s, v, i, j), v, Promise!Erased(Elements(s, v), i, j))
<1> DEFINE size == s.vec[v].size
           cap == s.vec[v].cap
           c == Cells(s, v)
           e == Elements(s, v)
           n == size - (j - i)
           z == Promise!Erased(e, i, j)
<1>1. /\ size \in Nat /\ cap \in Nat /\ size <= cap /\ j <= size
      /\ \A k \in size + 1 .. cap : c[k] \in {Raw, Moved}
  BY CellsOf
<1>2. e \in Seq(Cell) /\ Len(e) = size /\ \A k \in 1 .. size : e[k] = c[k]
  BY ElementsOf
<1>3. PICK x : Erase(s, v, i, j) = WithCells(s, v, x, n) /\ IsErased(x, c, cap, size, i, j)
  BY ErasedCells
<1>4. n \in Nat /\ n <= cap /\ n = size - (j - i)
  BY <1>1
<1> HIDE DEF size, cap, c, e, n, z
<1>5. IsErasedSeq(z, e, n, i, j - i, Cell)
  <2>1. i <= j /\ j <= Len(e)
    BY <1>1, <1>2
  <2>2. IsErasedSeq(Promise!Erased(e, i, j), e, Len(e) - (j - i), i, j - i, Cell)
    BY <1>2, <2>1, ErasedIs
  <2> QED
    BY <1>2, <1>4, <2>2 DEF z
<1>6. x \in [1 .. cap -> Cell]
  BY <1>3 DEF IsErased
<1>7. x \in Seq(Cell) /\ Len(x) = cap
  BY <1>1, <1>6, FunctionIsSeq
<1>8. ASSUME NEW k \in n + 1 .. cap PROVE x[k] \in {Raw, Moved}
  <2>1. k \in size - (j - i) + 1 .. size \/ k \in size + 1 .. cap
    BY <1>1, <1>4
  <2> QED
    BY <1>1, <1>3, <2>1 DEF IsErased
<1>9. ASSUME NEW k \in 1 .. n PROVE x[k] = z[k]
  <2>1. CASE k <= i
    <3>1. k \in 1 .. i /\ k \in 1 .. size
      BY <1>1, <1>4, <2>1
    <3> QED
      BY <1>2, <1>3, <1>5, <2>1, <3>1 DEF IsErased, IsErasedSeq
  <2>2. CASE ~(k <= i)
    <3>1. k \in i + 1 .. size - (j - i) /\ k + (j - i) \in 1 .. size
      BY <1>1, <1>4, <2>2
    <3> QED
      BY <1>2, <1>3, <1>5, <2>2, <3>1 DEF IsErased, IsErasedSeq
  <2> QED
    BY <2>1, <2>2
<1>10. SubSeq(x, 1, n) = z
  <2>1. n <= Len(x) /\ z \in Seq(Cell) /\ Len(z) = n
    BY <1>4, <1>5, <1>7 DEF IsErasedSeq
  <2> QED
    BY <1>4, <1>7, <1>9, <2>1, FrontOf
<1>11. Becomes(s, WithCells(s, v, x, n), v, SubSeq(x, 1, n))
  BY <1>4, <1>7, <1>8, WithCellsSound DEF cap
<1> QED
  BY <1>3, <1>10, <1>11 DEF z, e

-----------------------------------------------------------------------------
(* The calls. *)

(* Between two calls no vector is being built. *)
Settled(s) == Sound(s) /\ s.vec[Temp] = NoVec

ItemsOf(s) == [v \in Vecs |-> Elements(s, v)]

(* An outcome of call c in s is what it promises. *)
Keeps(s, c, r) ==
  /\ r \in Outcomes /\ Settled(r.s)
  /\ IF r.ok THEN Promise!Does(ItemsOf(s), c, ItemsOf(r.s)) ELSE ItemsOf(r.s) = ItemsOf(s)

LEMMA OneChanges ==
  ASSUME NEW s, Settled(s), NEW v \in Vecs, NEW t, NEW xs, Becomes(s, t, v, xs)
  PROVE  /\ Settled(t) /\ ItemsOf(t) = [ItemsOf(s) EXCEPT ![v] = xs]
         /\ ItemsOf(t)[v] = xs /\ ItemsOf(s)[v] = Elements(s, v)
         /\ xs = Elements(s, v) => ItemsOf(t) = ItemsOf(s)
<1>1. v \in AllVecs /\ Temp \in AllVecs \ {v} /\ Vecs \subseteq AllVecs
  BY VectorAssumption DEF AllVecs
<1>2. Settled(t)
  BY <1>1 DEF Becomes, Settled
<1>3. Elements(t, v) = xs /\ \A w \in Vecs \ {v} : Elements(t, w) = Elements(s, w)
  BY <1>1 DEF Becomes, Elements
<1> QED
  BY <1>2, <1>3 DEF ItemsOf

LEMMA KeepsOne ==
  ASSUME NEW s, Settled(s), NEW v \in Vecs, NEW r \in Outcomes, NEW xs,
         Becomes(s, r.s, v, IF r.ok THEN xs ELSE Elements(s, v)),
         NEW c, ~Promise!Spoilt(c), Promise!Effect(ItemsOf(s), c) = [ItemsOf(s) EXCEPT ![v] = xs]
  PROVE  Keeps(s, c, r)
<1> DEFINE t == r.s
           ys == IF r.ok THEN xs ELSE Elements(s, v)
<1>1. Becomes(s, t, v, ys)
  OBVIOUS
<1> HIDE DEF t, ys
<1>2. /\ Settled(t) /\ ItemsOf(t) = [ItemsOf(s) EXCEPT ![v] = ys]
      /\ ys = Elements(s, v) => ItemsOf(t) = ItemsOf(s)
  BY <1>1, OneChanges
<1>3. CASE r.ok
  BY <1>2, <1>3 DEF Keeps, Promise!Does, t, ys
<1>4. CASE ~r.ok
  BY <1>2, <1>4 DEF Keeps, t, ys
<1> QED
  BY <1>3, <1>4

LEMMA KeepsSpoilt ==
  ASSUME NEW s, Settled(s), NEW v \in Vecs, NEW r \in Outcomes, NEW xs, Becomes(s, r.s, v, xs),
         NEW c, Promise!Spoilt(c), c.v = v,
         r.ok => /\ Len(xs) = Len(Promise!Effect(ItemsOf(s), c)[v])
                 /\ \A k \in 1 .. Promise!KeptOf(ItemsOf(s), c) : xs[k] = Elements(s, v)[k],
         ~r.ok => xs = Elements(s, v)
  PROVE  Keeps(s, c, r)
<1> DEFINE t == r.s
           f == ItemsOf(s)
           g == ItemsOf(t)
<1>1. Settled(t) /\ g = [f EXCEPT ![v] = xs] /\ g[v] = xs /\ f[v] = Elements(s, v) /\ (xs = Elements(s, v) => g = f)
  BY OneChanges
<1> HIDE DEF f, g
<1>2. CASE r.ok
  <2>1. Len(g[c.v]) = Len(Promise!Effect(f, c)[c.v])
    BY <1>1, <1>2 DEF f
  <2>2. \A k \in 1 .. Promise!KeptOf(f, c) : g[c.v][k] = f[c.v][k]
    BY <1>1, <1>2 DEF f
  <2>3. g = [f EXCEPT ![c.v] = g[c.v]]
    BY <1>1
  <2>4. Promise!Does(f, c, g)
    BY <2>1, <2>2, <2>3 DEF Promise!Does
  <2> QED
    BY <1>1, <1>2, <2>4 DEF Keeps, f, g
<1>3. CASE ~r.ok
  BY <1>1, <1>3 DEF Keeps, f, g
<1> QED
  BY <1>2, <1>3

LEMMA PushKeeps ==
  ASSUME NEW s, Settled(s), NEW v \in Vecs, NEW x \in Values, NEW r \in {Failure(s)} \cup Push(s, v, x)
  PROVE  Keeps(s, [op |-> "push_back", v |-> v, x |-> x], r)
<1>1. v \in AllVecs /\ x \in Cell /\ Sound(s)
  BY DEF AllVecs, Cell, Settled
<1>2. /\ r \in Outcomes
      /\ r.ok => Becomes(s, r.s, v, Append(Elements(s, v), x))
      /\ ~r.ok => r.s = s
  <2>1. CASE r = Failure(s)
    BY <1>1, <2>1, OutcomeOf DEF Failure
  <2>2. CASE r \in Push(s, v, x)
    BY <1>1, <2>2, PushSound
  <2> QED
    BY <2>1, <2>2
<1> DEFINE xs == Append(Elements(s, v), x)
           c == [op |-> "push_back", v |-> v, x |-> x]
<1>3. Promise!Effect(ItemsOf(s), c) = [ItemsOf(s) EXCEPT ![v] = xs]
  BY DEF Promise!Effect, ItemsOf
<1>0. ~Promise!Spoilt(c)
  BY DEF Promise!Spoilt
<1> HIDE DEF xs, c
<1>4. Becomes(s, r.s, v, IF r.ok THEN xs ELSE Elements(s, v))
  BY <1>1, <1>2 DEF Becomes, xs
<1>5. Keeps(s, c, r)
  BY <1>0, <1>2, <1>3, <1>4, KeepsOne
<1> QED
  BY <1>5 DEF c

LEMMA PopBackKeeps ==
  ASSUME NEW s, Settled(s), NEW v \in Vecs, s.vec[v].size > 0, NEW r \in {Ok(PopTo(s, v, s.vec[v].size - 1))}
  PROVE  Keeps(s, [op |-> "pop_back", v |-> v], r)
<1> DEFINE n == s.vec[v].size - 1
           e == Elements(s, v)
           xs == SubSeq(e, 1, n)
           c == [op |-> "pop_back", v |-> v]
<1>1. v \in AllVecs /\ Sound(s)
  BY DEF AllVecs, Settled
<1>2. n \in 0 .. s.vec[v].size /\ Len(e) - 1 = n
  BY <1>1, CellsOf, ElementsOf
<1>3. Becomes(s, PopTo(s, v, n), v, xs)
  BY <1>1, <1>2, PopToSound
<1>4. Promise!Effect(ItemsOf(s), c) = [ItemsOf(s) EXCEPT ![v] = xs]
  <2>1. Promise!Effect(ItemsOf(s), c) = [ItemsOf(s) EXCEPT ![v] = Front(@)]
    BY DEF Promise!Effect, Promise!Front, Front
  <2>2. ItemsOf(s)[v] = e /\ Front(e) = xs
    BY <1>2 DEF ItemsOf, Front
  <2> HIDE DEF e, xs, c
  <2> QED
    BY <2>1, <2>2
<1>0. ~Promise!Spoilt(c)
  BY DEF Promise!Spoilt
<1> HIDE DEF n, e, xs, c
<1>5. r = Ok(PopTo(s, v, n))
  BY DEF n
<1>6. r \in Outcomes /\ r.ok /\ Becomes(s, r.s, v, xs)
  BY <1>3, <1>5, OutcomeOf DEF Ok, Becomes
<1>7. Keeps(s, c, r)
  BY <1>0, <1>4, <1>6, KeepsOne
<1> QED
  BY <1>7 DEF c

LEMMA ClearKeeps ==
  ASSUME NEW s, Settled(s), NEW v \in Vecs, NEW r \in {Ok(PopTo(s, v, 0))}
  PROVE  Keeps(s, [op |-> "clear", v |-> v], r)
<1> DEFINE e == Elements(s, v)
           c == [op |-> "clear", v |-> v]
<1>1. v \in AllVecs /\ Sound(s)
  BY DEF AllVecs, Settled
<1>2. Becomes(s, PopTo(s, v, 0), v, SubSeq(e, 1, 0))
  <2>1. 0 \in 0 .. s.vec[v].size
    BY <1>1, CellsOf
  <2> QED
    BY <1>1, <2>1, PopToSound
<1>3. SubSeq(e, 1, 0) = <<>>
  <2>1. e \in Seq(Cell)
    BY <1>1, ElementsOf
  <2> HIDE DEF e
  <2> QED
    BY <2>1
<1>4. Promise!Effect(ItemsOf(s), c) = [ItemsOf(s) EXCEPT ![v] = <<>>]
  BY DEF Promise!Effect
<1>0. ~Promise!Spoilt(c)
  BY DEF Promise!Spoilt
<1> HIDE DEF e, c
<1>5. r \in Outcomes /\ r.ok /\ Becomes(s, r.s, v, <<>>)
  BY <1>2, <1>3, OutcomeOf DEF Ok, Becomes
<1>6. Keeps(s, c, r)
  BY <1>0, <1>4, <1>5, KeepsOne
<1> QED
  BY <1>6 DEF c

LEMMA ReserveKeeps ==
  ASSUME NEW s, Settled(s), NEW v \in Vecs, NEW n \in Nat, NEW r \in Reserve(s, v, n)
  PROVE  Keeps(s, [op |-> "reserve", v |-> v], r)
<1> DEFINE e == Elements(s, v)
           c == [op |-> "reserve", v |-> v]
<1>1. v \in AllVecs /\ Sound(s)
  BY DEF AllVecs, Settled
<1>2. r \in Outcomes /\ Becomes(s, r.s, v, e)
  BY <1>1, ReserveSound
<1>3. Promise!Effect(ItemsOf(s), c) = [ItemsOf(s) EXCEPT ![v] = e]
  <2>1. Promise!Effect(ItemsOf(s), c) = ItemsOf(s)
    BY DEF Promise!Effect
  <2> QED
    BY <2>1 DEF ItemsOf
<1>0. ~Promise!Spoilt(c)
  BY DEF Promise!Spoilt
<1> HIDE DEF c
<1>4. Keeps(s, c, r)
  BY <1>0, <1>2, <1>3, KeepsOne
<1> QED
  BY <1>4 DEF c

LEMMA ShrinkKeeps ==
  ASSUME NEW s, Settled(s), NEW v \in Vecs, NEW r \in Shrink(s, v)
  PROVE  Keeps(s, [op |-> "shrink_to_fit", v |-> v], r)
<1> DEFINE e == Elements(s, v)
           c == [op |-> "shrink_to_fit", v |-> v]
<1>1. r \in Outcomes /\ Becomes(s, r.s, v, e)
  BY ShrinkSound DEF Settled
<1>2. Promise!Effect(ItemsOf(s), c) = [ItemsOf(s) EXCEPT ![v] = e]
  <2>1. Promise!Effect(ItemsOf(s), c) = ItemsOf(s)
    BY DEF Promise!Effect
  <2> QED
    BY <2>1 DEF ItemsOf
<1>0. ~Promise!Spoilt(c)
  BY DEF Promise!Spoilt
<1> HIDE DEF c
<1>3. Keeps(s, c, r)
  BY <1>0, <1>1, <1>2, KeepsOne
<1> QED
  BY <1>3 DEF c

LEMMA ResizeKeeps ==
  ASSUME NEW s, Settled(s), NEW v \in Vecs, NEW n \in Nat, NEW x \in Cell, NEW r \in Resize(s, v, n, x, FALSE)
  PROVE  Keeps(s, [op |-> "resize", v |-> v, n |-> n, x |-> x, own |-> FALSE], r)
<1> DEFINE e == Elements(s, v)
           xs == Promise!Resized(e, n, x)
           c == [op |-> "resize", v |-> v, n |-> n, x |-> x, own |-> FALSE]
<1>1. /\ r \in Outcomes
      /\ r.ok => Enlarged(s, r.s, v, n, x, FALSE)
      /\ ~r.ok => Becomes(s, r.s, v, e)
  <2> HIDE DEF e
  <2>1. Sound(s) /\ s.vec[Temp] = NoVec
    BY DEF Settled
  <2> QED
    BY <2>1, ResizeSound DEF e
<1>2. r.ok => Becomes(s, r.s, v, xs)
  BY <1>1 DEF Enlarged
<1>3. Promise!Effect(ItemsOf(s), c) = [ItemsOf(s) EXCEPT ![v] = xs]
  <2>1. Promise!Effect(ItemsOf(s), c) = [ItemsOf(s) EXCEPT ![v] = Promise!Resized(@, n, x)]
    BY DEF Promise!Effect
  <2> QED
    BY <2>1 DEF ItemsOf
<1>4. ~Promise!Spoilt(c)
  BY DEF Promise!Spoilt
<1> HIDE DEF xs, c
<1>5. Becomes(s, r.s, v, IF r.ok THEN xs ELSE Elements(s, v))
  BY <1>1, <1>2
<1>6. Keeps(s, c, r)
  BY <1>1, <1>3, <1>4, <1>5, KeepsOne
<1> QED
  BY <1>6 DEF c

LEMMA ResizeOwnKeeps ==
  ASSUME NEW s, Settled(s), NEW v \in Vecs, NEW n \in Nat, NEW x \in Cell, NEW r \in Resize(s, v, n, x, TRUE)
  PROVE  Keeps(s, [op |-> "resize", v |-> v, n |-> n, x |-> x, own |-> TRUE], r)
<1> DEFINE e == Elements(s, v)
           f == ItemsOf(s)
           c == [op |-> "resize", v |-> v, n |-> n, x |-> x, own |-> TRUE]
<1>1. /\ r \in Outcomes
      /\ r.ok => Enlarged(s, r.s, v, n, x, TRUE)
      /\ ~r.ok => Becomes(s, r.s, v, e)
  <2> HIDE DEF e
  <2>1. Sound(s) /\ s.vec[Temp] = NoVec
    BY DEF Settled
  <2> QED
    BY <2>1, ResizeSound DEF e
<1>2. e \in Seq(Cell) /\ Len(e) \in Nat /\ f[v] = e
  BY ElementsOf DEF AllVecs, Settled, ItemsOf
<1>3. Promise!Spoilt(c) /\ c.v = v
  BY DEF Promise!Spoilt
<1>4. Promise!Effect(f, c)[v] = Promise!Resized(e, n, x)
  <2>1. Promise!Effect(f, c) = [f EXCEPT ![v] = Promise!Resized(@, n, x)]
    BY DEF Promise!Effect
  <2> QED
    BY <2>1 DEF ItemsOf
<1>5. Promise!KeptOf(f, c) = IF n < Len(e) THEN n ELSE Len(e)
  <2> HIDE DEF e, f
  <2> QED
    BY <1>2 DEF Promise!KeptOf
<1> HIDE DEF e, f, c
<1>6. CASE ~r.ok
  <2>1. Keeps(s, c, r)
    BY <1>1, <1>3, <1>6, KeepsSpoilt DEF e
  <2> QED
    BY <2>1 DEF c
<1>7. CASE r.ok
  <2>1. PICK y \in Cell : Becomes(s, r.s, v, Promise!Resized(e, n, y))
    BY <1>1, <1>7 DEF Enlarged, e
  <2> DEFINE xs == Promise!Resized(e, n, y)
             z == Promise!Resized(e, n, x)
  <2>2. IsResized(xs, e, n, Cell, y) /\ IsResized(z, e, n, Cell, x)
    BY <1>2, ResizedIs
  <2>3. Becomes(s, r.s, v, xs) /\ Promise!Effect(f, c)[v] = z
    BY <1>4, <2>1
  <2> HIDE DEF xs, z
  <2>4. Len(xs) = Len(z) /\ \A k \in 1 .. n : k <= Len(e) => xs[k] = e[k]
    BY <2>2 DEF IsResized
  <2>5. \A k \in 1 .. Promise!KeptOf(f, c) : xs[k] = e[k]
    BY <1>2, <1>5, <2>4
  <2>6. Keeps(s, c, r)
    BY <1>1, <1>3, <1>7, <2>3, <2>4, <2>5, KeepsSpoilt DEF e, f
  <2> QED
    BY <2>6 DEF c
<1> QED
  BY <1>6, <1>7

LEMMA ResizeRawKeeps ==
  ASSUME NEW s, Settled(s), NEW v \in Vecs, NEW n \in Nat, NEW r \in ResizeUninitialized(s, v, n)
  PROVE  Keeps(s, [op |-> "resize_uninitialized", v |-> v, n |-> n], r)
<1> DEFINE e == Elements(s, v)
           xs == Promise!Resized(e, n, Raw)
           c == [op |-> "resize_uninitialized", v |-> v, n |-> n]
<1>1. v \in AllVecs /\ Sound(s)
  BY DEF AllVecs, Settled
<1>2. r \in Outcomes /\ (r.ok => Becomes(s, r.s, v, xs)) /\ (~r.ok => r.s = s)
  BY <1>1, ResizeRawSound
<1>3. Promise!Effect(ItemsOf(s), c) = [ItemsOf(s) EXCEPT ![v] = xs]
  <2>1. Promise!Effect(ItemsOf(s), c) = [ItemsOf(s) EXCEPT ![v] = Promise!Resized(@, n, Raw)]
    BY DEF Promise!Effect
  <2> QED
    BY <2>1 DEF ItemsOf
<1>0. ~Promise!Spoilt(c)
  BY DEF Promise!Spoilt
<1> HIDE DEF xs, c
<1>4. Becomes(s, r.s, v, IF r.ok THEN xs ELSE Elements(s, v))
  BY <1>1, <1>2 DEF Becomes
<1>5. Keeps(s, c, r)
  BY <1>0, <1>2, <1>3, <1>4, KeepsOne
<1> QED
  BY <1>5 DEF c

(* Of an empty range. *)
LEMMA SparedKeeps ==
  ASSUME NEW s, Settled(s), NEW v \in Vecs, NEW i \in 0 .. s.vec[v].size, NEW r \in Outcomes,
         r.ok => \E xs \in Seq(Cell) : Spared(xs, Elements(s, v), i) /\ Becomes(s, r.s, v, xs),
         ~r.ok => Becomes(s, r.s, v, Elements(s, v)),
         NEW c, Promise!Spoilt(c), c.v = v, Promise!KeptOf(ItemsOf(s), c) = i,
         Len(Promise!Effect(ItemsOf(s), c)[v]) = Len(Elements(s, v))
  PROVE  Keeps(s, c, r)
<1> DEFINE e == Elements(s, v)
<1>1. CASE ~r.ok
  BY <1>1, KeepsSpoilt
<1>2. CASE r.ok
  <2>1. PICK xs \in Seq(Cell) : Spared(xs, e, i) /\ Becomes(s, r.s, v, xs)
    BY <1>2
  <2>2. Len(xs) = Len(e) /\ \A k \in 1 .. i : xs[k] = e[k]
    BY <2>1 DEF Spared
  <2> QED
    BY <1>2, <2>1, <2>2, KeepsSpoilt
<1> QED
  BY <1>1, <1>2

LEMMA InsertKeeps ==
  ASSUME NEW s, Settled(s), NEW v \in Vecs, NEW ys \in Seq(Cell), NEW i \in 0 .. s.vec[v].size,
         NEW r \in Insert(s, v, i, ys)
  PROVE  Keeps(s, [op |-> "insert", v |-> v, i |-> i, xs |-> ys], r)
<1> DEFINE e == Elements(s, v)
           xs == Promise!Inserted(e, i, ys)
           c == [op |-> "insert", v |-> v, i |-> i, xs |-> ys]
<1>1. v \in AllVecs /\ Sound(s)
  BY DEF AllVecs, Settled
<1>2. Promise!Effect(ItemsOf(s), c) = [ItemsOf(s) EXCEPT ![v] = xs]
  <2>1. Promise!Effect(ItemsOf(s), c) = [ItemsOf(s) EXCEPT ![v] = Promise!Inserted(@, i, ys)]
    BY DEF Promise!Effect
  <2> QED
    BY <2>1 DEF ItemsOf
<1>3. c.v = v /\ (Promise!Spoilt(c) <=> ys = <<>>) /\ Promise!KeptOf(ItemsOf(s), c) = i
  BY DEF Promise!Spoilt, Promise!KeptOf
<1> HIDE DEF c, e
<1>4. CASE ys # <<>>
  <2>1. r \in Outcomes /\ Becomes(s, r.s, v, IF r.ok THEN xs ELSE Elements(s, v))
    BY <1>1, <1>4, InsertSound DEF e
  <2> HIDE DEF xs
  <2>2. Keeps(s, c, r)
    BY <1>2, <1>3, <1>4, <2>1, KeepsOne
  <2> QED
    BY <2>2 DEF c
<1>5. CASE ys = <<>>
  <2>1. /\ r \in Outcomes
        /\ r.ok => \E zs \in Seq(Cell) : Spared(zs, Elements(s, v), i) /\ Becomes(s, r.s, v, zs)
        /\ ~r.ok => Becomes(s, r.s, v, Elements(s, v))
    BY <1>1, <1>5, InsertNothing
  <2>2. e \in Seq(Cell) /\ i \in 0 .. Len(e)
    BY <1>1, ElementsOf DEF e
  <2>3. Len(xs) = Len(e)
    <3>1. IsInserted(Promise!Inserted(e, i, ys), e, ys, i, Cell)
      BY <2>2, InsertedIs
    <3>2. IsInserted(xs, e, ys, i, Cell) /\ Len(ys) = 0 /\ Len(e) \in Nat
      BY <1>5, <2>2, <3>1
    <3> HIDE DEF xs
    <3> QED
      BY <3>2 DEF IsInserted
  <2> HIDE DEF xs
  <2>4. Promise!Effect(ItemsOf(s), c)[v] = xs
    BY <1>2 DEF ItemsOf
  <2>5. Keeps(s, c, r)
    BY <1>3, <1>5, <2>1, <2>3, <2>4, SparedKeeps DEF e
  <2> QED
    BY <2>5 DEF c
<1> QED
  BY <1>4, <1>5

LEMMA EraseKeeps ==
  ASSUME NEW s, Settled(s), NEW v \in Vecs, NEW i \in Nat, NEW j \in Nat, i <= j, j <= s.vec[v].size,
         NEW r \in IF i < j THEN {Ok(Erase(s, v, i, j))} ELSE SelfMoved(s, v, i, Moved)
  PROVE  Keeps(s, [op |-> "erase", v |-> v, i |-> i, j |-> j], r)
<1> DEFINE e == Elements(s, v)
           xs == Promise!Erased(e, i, j)
           c == [op |-> "erase", v |-> v, i |-> i, j |-> j]
<1>1. v \in AllVecs /\ Sound(s)
  BY DEF AllVecs, Settled
<1>2. Promise!Effect(ItemsOf(s), c) = [ItemsOf(s) EXCEPT ![v] = xs]
  <2>1. Promise!Effect(ItemsOf(s), c) = [ItemsOf(s) EXCEPT ![v] = Promise!Erased(@, i, j)]
    BY DEF Promise!Effect
  <2> QED
    BY <2>1 DEF ItemsOf
<1>3. c.v = v /\ (Promise!Spoilt(c) <=> i = j) /\ Promise!KeptOf(ItemsOf(s), c) = i
  BY DEF Promise!Spoilt, Promise!KeptOf
<1> HIDE DEF c, e
<1>4. CASE i < j
  <2>1. Becomes(s, Erase(s, v, i, j), v, xs)
    BY <1>1, <1>4, EraseSound DEF e
  <2> HIDE DEF xs
  <2>2. r \in Outcomes /\ r.ok /\ Becomes(s, r.s, v, xs)
    BY <1>4, <2>1, OutcomeOf DEF Ok, Becomes
  <2>3. Keeps(s, c, r)
    BY <1>2, <1>3, <1>4, <2>2, KeepsOne
  <2> QED
    BY <2>3 DEF c
<1>5. CASE i = j
  <2>1. e \in Seq(Cell) /\ Len(e) = s.vec[v].size /\ s.vec[v].size \in Nat
    BY <1>1, CellsOf, ElementsOf DEF e
  <2>2. i \in 0 .. s.vec[v].size /\ r \in SelfMoved(s, v, i, Moved)
    BY <1>5, <2>1
  <2>3. r \in Outcomes /\ r.ok /\ \E zs \in Seq(Cell) : Spared(zs, Elements(s, v), i) /\ Becomes(s, r.s, v, zs)
    BY <1>1, <2>2, SelfMovedSound
  <2>4. Len(xs) = Len(e)
    <3>1. IsErasedSeq(Promise!Erased(e, i, j), e, Len(e) - (j - i), i, j - i, Cell)
      BY <2>1, ErasedIs
    <3>2. IsErasedSeq(xs, e, Len(e) - (j - i), i, j - i, Cell) /\ Len(e) - (j - i) = Len(e)
      BY <1>5, <2>1, <3>1
    <3> HIDE DEF xs
    <3> QED
      BY <3>2 DEF IsErasedSeq
  <2> HIDE DEF xs
  <2>5. Promise!Effect(ItemsOf(s), c)[v] = xs
    BY <1>2 DEF ItemsOf
  <2>6. Keeps(s, c, r)
    BY <1>3, <1>5, <2>2, <2>3, <2>4, <2>5, SparedKeeps DEF e
  <2> QED
    BY <2>6 DEF c
<1> QED
  BY <1>4, <1>5

LEMMA AssignKeeps ==
  ASSUME NEW s, Settled(s), NEW v \in Vecs, NEW ys \in Seq(Cell), NEW r \in Copied(s, v, ys)
  PROVE  Keeps(s, [op |-> "assign", v |-> v, xs |-> ys], r)
<1> DEFINE c == [op |-> "assign", v |-> v, xs |-> ys]
<1>1. r \in Outcomes /\ Becomes(s, r.s, v, IF r.ok THEN ys ELSE Elements(s, v))
  BY CopiedSound DEF Settled
<1>2. Promise!Effect(ItemsOf(s), c) = [ItemsOf(s) EXCEPT ![v] = ys]
  BY DEF Promise!Effect
<1>0. ~Promise!Spoilt(c)
  BY DEF Promise!Spoilt
<1> HIDE DEF c
<1>3. Keeps(s, c, r)
  BY <1>0, <1>1, <1>2, KeepsOne
<1> QED
  BY <1>3 DEF c

LEMMA CloneKeeps ==
  ASSUME NEW s, Settled(s), NEW v \in Vecs, NEW w \in Vecs, NEW r \in Copied(s, v, Elements(s, w))
  PROVE  Keeps(s, [op |-> "clone", v |-> v, w |-> w], r)
<1> DEFINE c == [op |-> "clone", v |-> v, w |-> w]
           ys == Elements(s, w)
<1>1. ys \in Seq(Cell)
  BY ElementsOf DEF AllVecs, Settled
<1>2. r \in Outcomes /\ Becomes(s, r.s, v, IF r.ok THEN ys ELSE Elements(s, v))
  <2>1. r \in Copied(s, v, ys)
    OBVIOUS
  <2> HIDE DEF ys
  <2> QED
    BY <1>1, <2>1, CopiedSound DEF Settled
<1>3. Promise!Effect(ItemsOf(s), c) = [ItemsOf(s) EXCEPT ![v] = ys]
  BY DEF Promise!Effect, ItemsOf
<1>0. ~Promise!Spoilt(c)
  BY DEF Promise!Spoilt
<1> HIDE DEF c, ys
<1>4. Keeps(s, c, r)
  BY <1>0, <1>2, <1>3, KeepsOne
<1> QED
  BY <1>4 DEF c

LEMMA MoveKeeps ==
  ASSUME NEW s, Settled(s), NEW v \in Vecs, NEW w \in Vecs, v # w, NEW r \in {Ok(MoveAssign(s, v, w))}
  PROVE  Keeps(s, [op |-> "move", v |-> v, w |-> w], r)
<1> DEFINE c == [op |-> "move", v |-> v, w |-> w]
           t == MoveAssign(s, v, w)
<1>1. v \in AllVecs /\ w \in AllVecs /\ Sound(s) /\ Temp \in AllVecs \ {v, w} /\ Vecs \subseteq AllVecs
  BY VectorAssumption DEF AllVecs, Settled
<1>2. /\ Sound(t) /\ Elements(t, v) = Elements(s, w) /\ t.vec[w] = NoVec
      /\ \A u \in AllVecs \ {v, w} : t.vec[u] = s.vec[u] /\ Cells(t, u) = Cells(s, u)
  BY <1>1, MoveAssignSound
<1> HIDE DEF t
<1>3. Elements(t, w) = <<>>
  BY <1>2, NoVecElements
<1>4. \A u \in Vecs : Elements(t, u) = IF u = v THEN Elements(s, w) ELSE IF u = w THEN <<>> ELSE Elements(s, u)
  BY <1>1, <1>2, <1>3 DEF Elements
<1>5. Promise!Effect(ItemsOf(s), c) = [ItemsOf(s) EXCEPT ![v] = ItemsOf(s)[w], ![w] = <<>>]
  BY DEF Promise!Effect
<1>6. ItemsOf(t) = [ItemsOf(s) EXCEPT ![v] = ItemsOf(s)[w], ![w] = <<>>]
  BY <1>4 DEF ItemsOf
<1>7. Settled(t)
  BY <1>1, <1>2 DEF Settled
<1>8. r = Ok(t)
  BY DEF t
<1>9. r \in Outcomes /\ r.ok /\ r.s = t
  BY <1>2, <1>8, OutcomeOf DEF Ok
<1>0. ~Promise!Spoilt(c)
  BY DEF Promise!Spoilt
<1> HIDE DEF c
<1>10. Keeps(s, c, r)
  BY <1>0, <1>5, <1>6, <1>7, <1>9 DEF Keeps, Promise!Does
<1> QED
  BY <1>10 DEF c

-----------------------------------------------------------------------------
(* Every call keeps what it promises. *)
LEMMA CallKeeps ==
  ASSUME NEW c, NEW STATE outcomes, \A r \in outcomes : Keeps(State, c, r), Call(c, outcomes)
  PROVE  Settled(State)' /\ Promise!Next
<1>1. PICK r \in outcomes : vec' = r.s.vec /\ mem' = r.s.mem /\ lastCall' = [call |-> c, ok |-> r.ok]
  BY DEF Call
<1>2. Keeps(State, c, r)
  BY <1>1
<1>3. State' = r.s
  BY <1>1, <1>2 DEF State, Keeps, Outcomes, Memory
<1>4. Settled(State)'
  <2>1. Settled(State')
    BY <1>2, <1>3 DEF Keeps
  <2> QED
    BY <2>1 DEF Settled, Sound, Fits, Cells
<1>5. IF r.ok THEN Promise!Does(ItemsOf(State), c, ItemsOf(State')) ELSE ItemsOf(State') = ItemsOf(State)
  BY <1>2, <1>3 DEF Keeps
<1>6. [v \in Vecs |-> Items(v)] = ItemsOf(State) /\ [v \in Vecs |-> Items(v)]' = ItemsOf(State')
  BY DEF Items, ItemsOf, Elements, Size, State
<1> QED
  BY <1>1, <1>4, <1>5, <1>6 DEF Promise!Next

(* The inductive invariant. *)
VectorInvariant == Settled(State)

LEMMA NextKeeps ==
  ASSUME VectorInvariant, VectorNext
  PROVE  VectorInvariant' /\ Promise!Next
<1>1. Settled(State) /\ Sound(State)
  BY DEF VectorInvariant, Settled
<1>2. /\ \A v \in Vecs : Size(v) = State.vec[v].size /\ Size(v) \in Nat /\ Items(v) = Elements(State, v)
      /\ Values \subseteq Cell /\ \A xs \in Ranges : xs \in Seq(Cell)
      /\ \A w \in Vecs : Items(w) \in Seq(Cell) /\ Len(Items(w)) = Size(w)
      /\ 0 .. MaxSize \subseteq Nat
  <2>1. ASSUME NEW v \in Vecs
        PROVE  /\ Size(v) = State.vec[v].size /\ Size(v) \in Nat /\ Items(v) = Elements(State, v)
               /\ Items(v) \in Seq(Cell) /\ Len(Items(v)) = Size(v)
    <3>1. /\ State.vec[v].size \in Nat
          /\ Elements(State, v) \in Seq(Cell) /\ Len(Elements(State, v)) = State.vec[v].size
      BY <1>1, CellsOf, ElementsOf DEF AllVecs
    <3> QED
      BY <3>1 DEF Size, State, Items, Elements
  <2>2. Values \subseteq Cell
    BY DEF Cell
  <2>3. \A xs \in Ranges : xs \in Seq(Cell)
    BY <2>2, VectorAssumption
  <2>4. 0 .. MaxSize \subseteq Nat
    BY VectorAssumption
  <2> QED
    BY <2>1, <2>2, <2>3, <2>4
<1>3. PICK v \in Vecs :
        \/ PopBack(v) \/ Clear(v) \/ ShrinkToFit(v)
        \/ \E x \in Values : PushBack(v, x)
        \/ \E n \in 0 .. MaxSize : ReserveFor(v, n) \/ ResizeRaw(v, n)
        \/ \E n \in 0 .. MaxSize, x \in Values : ResizeTo(v, n, x)
        \/ \E n \in 0 .. MaxSize, k \in 1 .. MaxSize : ResizeToOwn(v, n, k)
        \/ \E i \in 0 .. MaxSize, xs \in Ranges : InsertAll(v, i, xs)
        \/ \E i, j \in 0 .. MaxSize : EraseRange(v, i, j)
        \/ \E xs \in Ranges : AssignAll(v, xs)
        \/ \E w \in Vecs : Clone(v, w) \/ MoveTo(v, w)
  BY DEF VectorNext
<1> SUFFICES Settled(State)' /\ Promise!Next
  BY DEF VectorInvariant
<1>4. CASE PopBack(v)
  <2>1. \A r \in {Ok(PopTo(State, v, Size(v) - 1))} : Keeps(State, [op |-> "pop_back", v |-> v], r)
    BY <1>1, <1>2, <1>4, PopBackKeeps DEF PopBack
  <2> QED
    BY <1>4, <2>1, CallKeeps DEF PopBack
<1>5. CASE Clear(v)
  <2>1. \A r \in {Ok(PopTo(State, v, 0))} : Keeps(State, [op |-> "clear", v |-> v], r)
    BY <1>1, ClearKeeps
  <2> QED
    BY <1>5, <2>1, CallKeeps DEF Clear
<1>6. CASE ShrinkToFit(v)
  <2>1. \A r \in Shrink(State, v) : Keeps(State, [op |-> "shrink_to_fit", v |-> v], r)
    BY <1>1, ShrinkKeeps
  <2> QED
    BY <1>6, <2>1, CallKeeps DEF ShrinkToFit
<1>7. ASSUME NEW x \in Values, PushBack(v, x) PROVE Settled(State)' /\ Promise!Next
  <2>1. \A r \in {Failure(State)} \cup Push(State, v, x) : Keeps(State, [op |-> "push_back", v |-> v, x |-> x], r)
    BY <1>1, PushKeeps
  <2> QED
    BY <1>7, <2>1, CallKeeps DEF PushBack
<1>8. ASSUME NEW n \in 0 .. MaxSize, ReserveFor(v, n) PROVE Settled(State)' /\ Promise!Next
  <2>1. \A r \in Reserve(State, v, n) : Keeps(State, [op |-> "reserve", v |-> v], r)
    BY <1>1, <1>2, ReserveKeeps
  <2> QED
    BY <1>8, <2>1, CallKeeps DEF ReserveFor
<1>9. ASSUME NEW n \in 0 .. MaxSize, ResizeRaw(v, n) PROVE Settled(State)' /\ Promise!Next
  <2>1. \A r \in ResizeUninitialized(State, v, n) : Keeps(State, [op |-> "resize_uninitialized", v |-> v, n |-> n], r)
    BY <1>1, <1>2, ResizeRawKeeps
  <2> QED
    BY <1>9, <2>1, CallKeeps DEF ResizeRaw
<1>10. ASSUME NEW n \in 0 .. MaxSize, NEW x \in Values, ResizeTo(v, n, x) PROVE Settled(State)' /\ Promise!Next
  <2>1. \A r \in Resize(State, v, n, x, FALSE) :
          Keeps(State, [op |-> "resize", v |-> v, n |-> n, x |-> x, own |-> FALSE], r)
    BY <1>1, <1>2, ResizeKeeps
  <2> QED
    BY <1>10, <2>1, CallKeeps DEF ResizeTo
<1>11. ASSUME NEW i \in 0 .. MaxSize, NEW xs \in Ranges, InsertAll(v, i, xs) PROVE Settled(State)' /\ Promise!Next
  <2>1. i \in 0 .. State.vec[v].size /\ xs \in Seq(Cell)
    BY <1>2, <1>11 DEF InsertAll
  <2>2. \A r \in Insert(State, v, i, xs) : Keeps(State, [op |-> "insert", v |-> v, i |-> i, xs |-> xs], r)
    BY <1>1, <2>1, InsertKeeps
  <2> QED
    BY <1>11, <2>2, CallKeeps DEF InsertAll
<1>12. ASSUME NEW i \in 0 .. MaxSize, NEW j \in 0 .. MaxSize, EraseRange(v, i, j) PROVE Settled(State)' /\ Promise!Next
  <2>1. i \in Nat /\ j \in Nat /\ i <= j /\ j <= State.vec[v].size
    BY <1>2, <1>12 DEF EraseRange
  <2>2. \A r \in IF i < j THEN {Ok(Erase(State, v, i, j))} ELSE SelfMoved(State, v, i, Moved) :
          Keeps(State, [op |-> "erase", v |-> v, i |-> i, j |-> j], r)
    BY <1>1, <2>1, EraseKeeps
  <2> QED
    BY <1>12, <2>2, CallKeeps DEF EraseRange
<1>16. ASSUME NEW n \in 0 .. MaxSize, NEW k \in 1 .. MaxSize, ResizeToOwn(v, n, k) PROVE Settled(State)' /\ Promise!Next
  <2> DEFINE x == Items(v)[k]
  <2>1. x \in Cell
    <3>1. Items(v) \in Seq(Cell) /\ k \in 1 .. Len(Items(v))
      BY <1>2, <1>16 DEF ResizeToOwn
    <3> QED
      BY <3>1
  <2>2. Call([op |-> "resize", v |-> v, n |-> n, x |-> x, own |-> TRUE], Resize(State, v, n, x, TRUE))
    BY <1>16 DEF ResizeToOwn
  <2> HIDE DEF x
  <2>3. \A r \in Resize(State, v, n, x, TRUE) :
          Keeps(State, [op |-> "resize", v |-> v, n |-> n, x |-> x, own |-> TRUE], r)
    BY <1>1, <1>2, <2>1, ResizeOwnKeeps
  <2> QED
    BY <2>2, <2>3, CallKeeps
<1>13. ASSUME NEW xs \in Ranges, AssignAll(v, xs) PROVE Settled(State)' /\ Promise!Next
  <2>1. \A r \in Copied(State, v, xs) : Keeps(State, [op |-> "assign", v |-> v, xs |-> xs], r)
    BY <1>1, <1>2, AssignKeeps
  <2> QED
    BY <1>13, <2>1, CallKeeps DEF AssignAll
<1>14. ASSUME NEW w \in Vecs, Clone(v, w) PROVE Settled(State)' /\ Promise!Next
  <2>1. \A r \in Copied(State, v, Items(w)) : Keeps(State, [op |-> "clone", v |-> v, w |-> w], r)
    BY <1>1, <1>2, CloneKeeps
  <2> QED
    BY <1>14, <2>1, CallKeeps DEF Clone
<1>15. ASSUME NEW w \in Vecs, MoveTo(v, w) PROVE Settled(State)' /\ Promise!Next
  <2>1. \A r \in {Ok(MoveAssign(State, v, w))} : Keeps(State, [op |-> "move", v |-> v, w |-> w], r)
    BY <1>1, <1>15, MoveKeeps DEF MoveTo
  <2> QED
    BY <1>15, <2>1, CallKeeps DEF MoveTo
<1> QED
  BY <1>3, <1>4, <1>5, <1>6, <1>7, <1>8, <1>9, <1>10, <1>11, <1>12, <1>13, <1>14, <1>15, <1>16

LEMMA InitKeeps ==
  ASSUME VectorInit
  PROVE  VectorInvariant /\ Promise!Init
<1>1. State.vec = [v \in AllVecs |-> NoVec] /\ State.mem = [b \in Places |-> <<>>]
      /\ State = [vec |-> State.vec, mem |-> State.mem]
  BY DEF VectorInit, State, AllVecs, NoBuffer
<1>2. NoVec \in Header /\ NoVec.data = Null
  BY VectorAssumption DEF NoVec, Header, Null
<1>3. \A v \in AllVecs : State.vec[v] = NoVec
  BY <1>1
<1>4. \A v \in AllVecs : Fits(State, v) /\ Elements(State, v) = <<>>
  BY <1>3, NoVecFits
<1>5. <<>> \in Seq(Cell)
  OBVIOUS
<1>6. State \in [vec : [AllVecs -> Header], mem : [Places -> Seq(Cell)]]
  BY <1>1, <1>2, <1>5
<1>7. Sound(State)
  BY <1>1, <1>2, <1>3, <1>4, <1>6 DEF Sound, NoBuffer
<1>8. \A v \in Vecs : Items(v) = <<>>
  BY <1>4 DEF Items, Elements, Size, State, AllVecs
<1> QED
  BY <1>3, <1>7, <1>8 DEF VectorInvariant, Settled, Promise!Init, VectorInit, AllVecs

LEMMA StutterKeeps ==
  ASSUME UNCHANGED vectorVars
  PROVE  /\ VectorInvariant => VectorInvariant'
         /\ UNCHANGED <<[v \in Vecs |-> Items(v)], lastCall>>
<1>1. vec' = vec /\ mem' = mem /\ lastCall' = lastCall
  BY DEF vectorVars
<1> QED
  BY <1>1 DEF VectorInvariant, Settled, Sound, Fits, Cells, State, Items, Size

(* No buffer is lost, owned twice or too small for what is in it, however   *)
(* calls grow, shift, copy, move and fail (include/corosig/container/       *)
(* Vector.hpp).                                                             *)
THEOREM VectorOwnsBuffers == VectorSpec => []BuffersOwned
<1>1. VectorInit => VectorInvariant
  BY InitKeeps
<1>2. VectorInvariant /\ [VectorNext]_vectorVars => VectorInvariant'
  BY NextKeeps, StutterKeeps
<1>3. VectorInvariant => BuffersOwned
  <2> SUFFICES ASSUME VectorInvariant PROVE BuffersOwned
    OBVIOUS
  <2>1. Sound(State) /\ vec[Temp] = NoVec /\ State.vec = vec /\ State.mem = mem
    BY DEF VectorInvariant, Settled, State
  <2>2. ASSUME NEW b \in Places, mem[b] # NoBuffer PROVE Cardinality({v \in Vecs : vec[v].data = b}) = 1
    <3>1. PICK v \in AllVecs : vec[v].data = b
      BY <2>1, <2>2 DEF Sound
    <3>2. b # Null
      BY DEF Places, Null
    <3>3. v \in Vecs
      BY <2>1, <3>1, <3>2 DEF AllVecs, NoVec, Null
    <3>4. \A w \in Vecs : vec[w].data = b => w = v
      BY <2>1, <3>1, <3>2, <3>3 DEF Sound, AllVecs
    <3>5. {w \in Vecs : vec[w].data = b} = {v}
      BY <3>1, <3>3, <3>4
    <3> QED
      BY <3>5, FS_Singleton
  <2>3. \A v \in Vecs : Fits(State, v)
    BY <2>1 DEF Sound, AllVecs
  <2> QED
    BY <2>1, <2>2, <2>3 DEF BuffersOwned, Fits, State
<1> QED
  BY <1>1, <1>2, <1>3, PTL DEF VectorSpec

(* A vector is the sequence that its callers take it for: a call does to    *)
(* the elements what its std::vector namesake does, or nothing when an      *)
(* allocation or a copy failed.  Of insert() and erase() of an empty range  *)
(* and of resize() with one of the vector's own elements only this is true: *)
(* the elements before the range, or the old ones, stay, and the size is    *)
(* right (include/corosig/container/Vector.hpp).                            *)
THEOREM VectorKeepsItems == VectorSpec => KeepsItems
<1>1. VectorInit => VectorInvariant /\ Promise!Init
  BY InitKeeps
<1>2. VectorInvariant /\ [VectorNext]_vectorVars => VectorInvariant'
  BY NextKeeps, StutterKeeps
<1>3. VectorInvariant /\ [VectorNext]_vectorVars => [Promise!Next]_<<[v \in Vecs |-> Items(v)], lastCall>>
  BY NextKeeps, StutterKeeps
<1> QED
  BY <1>1, <1>2, <1>3, PTL DEF VectorSpec, KeepsItems, Promise!Spec
=============================================================================
