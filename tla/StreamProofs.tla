---------------------------- MODULE StreamProofs ----------------------------
(***************************************************************************)
(* The read and write loops of FdOps.cpp for any number of readers and     *)
(* writers, any sizes of their buffers and of the kernel's queue.          *)
(***************************************************************************)
EXTENDS Stream, BasicLemmas

(* Buffers belong to readers. *)
BuffersTyped == got \in [Readers -> Seq(Bytes)]

(* A writer is in its loop only while bytes are missing. *)
WriterLoops ==
  \A w \in Writers : /\ st[w] = "idle" => written[w] = 0
                     /\ st[w] \in {"polling", "woken"} => written[w] < WriteSize

(* poll() told a reader of read() the truth, unless somebody else has been  *)
(* faster.                                                                  *)
WokenForData ==
  \A r \in Readers :
    (st[r] = "woken" /\ op[r] = "all")
      => pipe # <<>> \/ ~writeOpen \/ \E q \in Readers \ {r} : got[q] # <<>>

(* The inductive invariant: TypeOK, which NothingLost contains, needs       *)
(* WriterLoops; ErrorLosesNothing needs NothingLost; FullOrEnd needs        *)
(* WokenForData.                                                            *)
IInv ==
  /\ NothingLost /\ ErrorLosesNothing /\ FullOrEnd
  /\ BuffersTyped /\ WriterLoops /\ WokenForData

(* The bytes handed out, without their readers. *)
Out == [i \in DOMAIN taken |-> taken[i][1]]

(* What NothingLost says of one buffer. *)
Exact(r) ==
  /\ Len(got[r]) = Cardinality(TakenBy(r))
  /\ \A i \in TakenBy(r) : got[r][Cardinality({j \in TakenBy(r) : j <= i})] = taken[i][1]

-----------------------------------------------------------------------------
(* The sizes are positive numbers. *)
LEMMA Sizes ==
  /\ ReadSize \in Nat /\ ReadSize > 0
  /\ WriteSize \in Nat /\ WriteSize > 0
  /\ Capacity \in Nat /\ Capacity > 0
BY StreamAssumption DEF StreamAssumption

(* Out is a sequence of bytes, as long as taken. *)
LEMMA OutIsSeq ==
  ASSUME taken \in Seq(Bytes \X Readers)
  PROVE  /\ Out \in Seq(Bytes) /\ Len(Out) = Len(taken)
         /\ \A i \in 1 .. Len(taken) : Out[i] = taken[i][1]
<1>1. Len(taken) \in Nat /\ DOMAIN taken = 1 .. Len(taken)
  OBVIOUS
<1>2. \A i \in 1 .. Len(taken) : taken[i][1] \in Bytes
  OBVIOUS
<1>3. Out = [i \in 1 .. Len(taken) |-> taken[i][1]]
  BY <1>1 DEF Out
<1> QED
  BY <1>1, <1>2, <1>3

(* The places of a reader's bytes are finitely many. *)
LEMMA TakenByFinite ==
  ASSUME taken \in Seq(Bytes \X Readers), NEW r
  PROVE  /\ TakenBy(r) \subseteq 1 .. Len(taken)
         /\ IsFiniteSet(TakenBy(r)) /\ Cardinality(TakenBy(r)) \in Nat
<1>1. TakenBy(r) \subseteq 1 .. Len(taken)
  BY DEF TakenBy
<1>2. IsFiniteSet(1 .. Len(taken))
  BY FS_Interval
<1>3. IsFiniteSet(TakenBy(r))
  BY <1>1, <1>2, FS_Subset
<1> QED
  BY <1>1, <1>3, FS_CardinalityType

(* At the start nothing has been sent or taken. *)
LEMMA InitIInv ==
  ASSUME Init
  PROVE  IInv
<1>1. TypeOK
  <2>1. <<>> \in Seq(Bytes) /\ <<>> \in Seq(Bytes \X Readers) /\ Len(<<>>) = 0
    OBVIOUS
  <2>2. 0 \in 0 .. 2 * WriteSize - 1
    BY Sizes
  <2> QED
    BY <2>1, <2>2, Sizes DEF Init, TypeOK, States
<1>2. \A r : TakenBy(r) = {}
  BY DEF Init, TakenBy
<1>3. NothingLost
  <2>1. Out \in Seq(Bytes) /\ Len(Out) = 0
    BY OutIsSeq DEF Init
  <2>2. Out \o pipe = <<>>
    BY <2>1 DEF Init
  <2>3. sent = Out \o pipe
    BY <2>2 DEF Init
  <2> QED
    BY <1>1, <1>2, <2>3, FS_EmptySet DEF NothingLost, Out, Init
<1>4. ErrorLosesNothing /\ FullOrEnd /\ WokenForData
  BY DEF Init, ErrorLosesNothing, FullOrEnd, WokenForData, Coros
<1>5. BuffersTyped /\ WriterLoops
  BY Sizes DEF Init, BuffersTyped, WriterLoops, Coros
<1> QED
  BY <1>3, <1>4, <1>5 DEF IInv

(* Steps that move no byte: a coroutine changes its state, an end is        *)
(* closed.                                                                  *)
LEMMA QuietStep ==
  ASSUME IInv, UNCHANGED <<op, got, written, pipe, sent, taken>>,
         last' \in [Readers -> {"none", "data", "end", "again", "error"}],
         st' \in [Coros -> States],
         readOpen' \in BOOLEAN, writeOpen' \in BOOLEAN, writeOpen' => writeOpen,
         \A r \in Readers :
           \/ st'[r] = st[r] /\ last'[r] = last[r]
           \/ st'[r] = "polling"
           \/ st'[r] = "gone"
           \/ st'[r] = "woken" /\ (op[r] # "all" \/ Readable)
           \/ st'[r] = "done" /\ last'[r] = "end"
           \/ st'[r] = "done" /\ last'[r] = "error" /\ Len(got[r]) # 0
           \/ st'[r] = "done" /\ st[r] = "woken" /\ pipe = <<>> /\ writeOpen
           \/ st'[r] = "done" /\ op[r] # "all"
           \/ st'[r] = "failed" /\ Len(got[r]) = 0,
         \A w \in Writers : \/ st'[w] = st[w]
                            \/ st'[w] \in {"polling", "woken"} /\ st[w] \in {"idle", "polling"}
                            \/ st'[w] \in Ended
  PROVE  IInv'
<1>0. TypeOK /\ NothingLost
  BY DEF IInv, NothingLost
<1>1. TypeOK'
  BY <1>0 DEF TypeOK
<1>2. NothingLost'
  <2>1. \A r : TakenBy(r)' = TakenBy(r)
    BY DEF TakenBy
  <2> QED
    BY <1>0, <1>1, <2>1 DEF NothingLost
<1>3. ErrorLosesNothing'
  <2> SUFFICES ASSUME NEW r \in Readers, st'[r] = "failed", NEW i \in DOMAIN taken
               PROVE  taken[i][2] # r
    BY DEF ErrorLosesNothing
  <2>1. CASE st[r] = "failed"
    BY <2>1 DEF IInv, ErrorLosesNothing
  <2>2. CASE Len(got[r]) = 0
    <3>1. Cardinality(TakenBy(r)) = 0 /\ IsFiniteSet(TakenBy(r))
      BY <1>0, <2>2, TakenByFinite DEF NothingLost, TypeOK
    <3>2. TakenBy(r) = {}
      BY <3>1, FS_EmptySet
    <3> QED
      BY <3>2 DEF TakenBy
  <2> QED
    BY <2>1, <2>2
<1>4. FullOrEnd'
  BY <1>0 DEF IInv, FullOrEnd, WokenForData, TypeOK
<1>5. BuffersTyped'
  BY DEF IInv, BuffersTyped
<1>6. WriterLoops'
  BY Sizes DEF IInv, WriterLoops, Ended
<1>7. WokenForData'
  BY DEF IInv, WokenForData, Readable
<1> QED
  BY <1>2, <1>3, <1>4, <1>5, <1>6, <1>7 DEF IInv

-----------------------------------------------------------------------------
(* Reading n bytes.                                                         *)

(* The first n bytes of the queue leave it, in order. *)
LEMMA SplitPipe ==
  ASSUME NEW S, NEW p \in Seq(S), NEW n \in 1 .. Len(p)
  PROVE  /\ SubSeq(p, 1, n) \in Seq(S) /\ Len(SubSeq(p, 1, n)) = n
         /\ SubSeq(p, n + 1, Len(p)) \in Seq(S) /\ Len(SubSeq(p, n + 1, Len(p))) = Len(p) - n
         /\ p = SubSeq(p, 1, n) \o SubSeq(p, n + 1, Len(p))
<1>1. Len(p) \in Nat /\ n \in Nat /\ n >= 1 /\ n <= Len(p)
  OBVIOUS
<1>2. SubSeq(p, 1, n) \in Seq(S) /\ Len(SubSeq(p, 1, n)) = n
  BY <1>1
<1>3. SubSeq(p, n + 1, Len(p)) \in Seq(S) /\ Len(SubSeq(p, n + 1, Len(p))) = Len(p) - n
  BY <1>1
<1>4. SubSeq(p, 1, n) \o SubSeq(p, n + 1, Len(p)) = SubSeq(p, 1, Len(p))
  BY <1>1, ConcatAdjacentSubSeq
<1>5. SubSeq(p, 1, Len(p)) = p
  BY SubSeqFull
<1> QED
  BY <1>2, <1>3, <1>4, <1>5

(* The bytes that one call of ::read adds to taken. *)
LEMMA TakenGrows ==
  ASSUME taken \in Seq(Bytes \X Readers), NEW r \in Readers, NEW n \in Nat,
         NEW bytes \in Seq(Bytes), Len(bytes) = n,
         taken' = taken \o [i \in 1 .. n |-> <<bytes[i], r>>]
  PROVE  /\ taken' \in Seq(Bytes \X Readers)
         /\ Len(taken') = Len(taken) + n
         /\ \A i \in 1 .. Len(taken) : taken'[i] = taken[i]
         /\ \A i \in 1 .. n : taken'[Len(taken) + i] = <<bytes[i], r>>
<1> DEFINE new == [i \in 1 .. n |-> <<bytes[i], r>>]
<1>1. new \in Seq(Bytes \X Readers) /\ Len(new) = n /\ \A i \in 1 .. n : new[i] = <<bytes[i], r>>
  <2>1. \A i \in 1 .. n : <<bytes[i], r>> \in Bytes \X Readers
    OBVIOUS
  <2> QED
    BY <2>1
<1>2. taken' = taken \o new /\ Len(taken) \in Nat
  OBVIOUS
<1> HIDE DEF new
<1>3. /\ taken \o new \in Seq(Bytes \X Readers) /\ Len(taken \o new) = Len(taken) + n
      /\ \A i \in 1 .. Len(taken) + n :
           (taken \o new)[i] = IF i <= Len(taken) THEN taken[i] ELSE new[i - Len(taken)]
  BY <1>1, ConcatProperties
<1>4. ASSUME NEW i \in 1 .. n PROVE taken'[Len(taken) + i] = <<bytes[i], r>>
  <2>1. Len(taken) + i \in 1 .. Len(taken) + n /\ ~(Len(taken) + i <= Len(taken))
        /\ (Len(taken) + i) - Len(taken) = i
    BY <1>2
  <2> QED
    BY <1>1, <1>2, <1>3, <2>1
<1>5. ASSUME NEW i \in 1 .. Len(taken) PROVE taken'[i] = taken[i]
  BY <1>2, <1>3
<1> QED
  BY <1>2, <1>3, <1>4, <1>5

(* They come out in the order in which they were sent. *)
LEMMA OutGrows ==
  ASSUME taken \in Seq(Bytes \X Readers), NEW r \in Readers, NEW n \in Nat,
         NEW bytes \in Seq(Bytes), Len(bytes) = n,
         taken' = taken \o [i \in 1 .. n |-> <<bytes[i], r>>]
  PROVE  Out' = Out \o bytes
<1> DEFINE cat == Out \o bytes
<1>1. /\ taken' \in Seq(Bytes \X Readers) /\ Len(taken') = Len(taken) + n /\ Len(taken) \in Nat
      /\ \A i \in 1 .. Len(taken) : taken'[i] = taken[i]
      /\ \A i \in 1 .. n : taken'[Len(taken) + i] = <<bytes[i], r>>
  BY TakenGrows
<1>2. /\ Out \in Seq(Bytes) /\ Len(Out) = Len(taken)
      /\ \A i \in 1 .. Len(taken) : Out[i] = taken[i][1]
  BY OutIsSeq
<1>3. DOMAIN taken' = 1 .. Len(taken) + n
  BY <1>1
<1>4. Out' = [i \in 1 .. Len(taken) + n |-> taken'[i][1]]
  BY <1>3 DEF Out
<1>5. \A i \in 1 .. Len(taken) + n : taken'[i][1] \in Bytes
  BY <1>1, <1>3
<1>6. /\ Out' \in Seq(Bytes) /\ Len(Out') = Len(taken) + n
      /\ \A i \in 1 .. Len(taken) + n : Out'[i] = taken'[i][1]
  BY <1>1, <1>4, <1>5
<1>7. /\ cat \in Seq(Bytes) /\ Len(cat) = Len(taken) + n
      /\ \A i \in 1 .. Len(taken) + n :
           cat[i] = IF i <= Len(taken) THEN Out[i] ELSE bytes[i - Len(taken)]
  <2>1. /\ cat \in Seq(Bytes) /\ Len(cat) = Len(Out) + Len(bytes)
        /\ \A i \in 1 .. Len(Out) + Len(bytes) :
             cat[i] = IF i <= Len(Out) THEN Out[i] ELSE bytes[i - Len(Out)]
    BY <1>2, ConcatProperties, Zenon
  <2> QED
    BY <1>2, <2>1
<1> HIDE DEF cat
<1>8. ASSUME NEW i \in 1 .. Len(taken) + n PROVE Out'[i] = cat[i]
  <2>1. CASE i <= Len(taken)
    <3>1. i \in 1 .. Len(taken)
      BY <1>1, <2>1
    <3>2. cat[i] = Out[i]
      BY <1>7, <2>1
    <3>3. Out[i] = taken[i][1]
      BY <1>2, <3>1
    <3>4. Out'[i] = taken'[i][1] /\ taken'[i] = taken[i]
      BY <1>1, <1>6, <3>1
    <3> QED
      BY <3>2, <3>3, <3>4
  <2>2. CASE ~(i <= Len(taken))
    <3>1. i - Len(taken) \in 1 .. n /\ Len(taken) + (i - Len(taken)) = i
      BY <1>1, <2>2
    <3>2. taken'[i] = <<bytes[i - Len(taken)], r>>
      BY <1>1, <3>1
    <3> QED
      BY <1>6, <1>7, <2>2, <3>2
  <2> QED
    BY <2>1, <2>2
<1> QED
  BY <1>6, <1>7, <1>8, SeqEqual DEF cat

(* Counting places when m are added behind the last of them. *)
LEMMA CountBehind ==
  ASSUME NEW L \in Nat, NEW T, T \subseteq 1 .. L, NEW m \in Nat
  PROVE  Cardinality(T \cup (L + 1 .. L + m)) = Cardinality(T) + m
<1>1. IsFiniteSet(T)
  <2>1. IsFiniteSet(1 .. L)
    BY FS_Interval
  <2> QED
    BY <2>1, FS_Subset
<1>2. IsFiniteSet(L + 1 .. L + m) /\ Cardinality(L + 1 .. L + m) = m
  <2>1. L + 1 \in Int /\ L + m \in Int /\ (L + m) - (L + 1) + 1 = m /\ (L + 1 > L + m <=> m = 0)
    OBVIOUS
  <2> QED
    BY <2>1, FS_Interval
<1>3. T \cap (L + 1 .. L + m) = {}
  OBVIOUS
<1>4. Cardinality(T \cup (L + 1 .. L + m))
        = Cardinality(T) + Cardinality(L + 1 .. L + m) - Cardinality(T \cap (L + 1 .. L + m))
  BY <1>1, <1>2, FS_Union
<1>5. Cardinality(T) \in Nat /\ Cardinality(T \cap (L + 1 .. L + m)) = 0
  BY <1>1, <1>3, FS_CardinalityType, FS_EmptySet
<1> QED
  BY <1>2, <1>4, <1>5

(* The place of a byte among those of its reader. *)
LEMMA RankInRange ==
  ASSUME NEW L \in Nat, NEW T, T \subseteq 1 .. L, NEW i \in T
  PROVE  Cardinality({j \in T : j <= i}) \in 1 .. Cardinality(T)
<1> DEFINE P == {j \in T : j <= i}
<1>1. IsFiniteSet(T)
  <2>1. IsFiniteSet(1 .. L)
    BY FS_Interval
  <2> QED
    BY <2>1, FS_Subset
<1>2. IsFiniteSet(P) /\ Cardinality(P) <= Cardinality(T) /\ P # {}
  <2>1. P \subseteq T /\ i \in P
    OBVIOUS
  <2> HIDE DEF P
  <2> QED
    BY <1>1, <2>1, FS_Subset
<1>3. Cardinality(P) \in Nat /\ Cardinality(T) \in Nat /\ Cardinality(P) # 0
  <2> HIDE DEF P
  <2> QED
    BY <1>1, <1>2, FS_CardinalityType, FS_EmptySet
<1> QED
  BY <1>2, <1>3

(* The place of the bytes behind them. *)
LEMMA RankBehind ==
  ASSUME NEW L \in Nat, NEW T, T \subseteq 1 .. L, NEW n \in Nat,
         NEW U, U = T \cup (L + 1 .. L + n), NEW i \in L + 1 .. L + n
  PROVE  Cardinality({j \in U : j <= i}) = Cardinality(T) + (i - L)
<1>1. i \in Nat /\ i - L \in Nat /\ L + (i - L) = i /\ i <= L + n /\ i >= L + 1
  OBVIOUS
<1>2. {j \in U : j <= i} \subseteq T \cup (L + 1 .. i)
  BY <1>1
<1>3. T \cup (L + 1 .. i) \subseteq {j \in U : j <= i}
  BY <1>1
<1>4. {j \in U : j <= i} = T \cup (L + 1 .. L + (i - L))
  <2>1. L + 1 .. i = L + 1 .. L + (i - L)
    BY <1>1
  <2> QED
    BY <1>2, <1>3, <2>1, Zenon
<1>5. Cardinality(T \cup (L + 1 .. L + (i - L))) = Cardinality(T) + (i - L)
  BY <1>1, CountBehind
<1> QED
  BY <1>4, <1>5, Zenon

(* The reader's buffer has the new bytes behind the old ones; the buffers   *)
(* of the others and their places in taken stay.                            *)
LEMMA BufferGrows ==
  ASSUME taken \in Seq(Bytes \X Readers), NEW r \in Readers, NEW n \in Nat,
         NEW bytes \in Seq(Bytes), Len(bytes) = n,
         taken' = taken \o [i \in 1 .. n |-> <<bytes[i], r>>],
         got \in [Readers -> Seq(Bytes)], got' = [got EXCEPT ![r] = got[r] \o bytes],
         NEW q \in Readers, Exact(q)
  PROVE  Exact(q)'
<1> DEFINE L == Len(taken)
           T == TakenBy(q)
<1>1. /\ taken' \in Seq(Bytes \X Readers) /\ Len(taken') = L + n /\ L \in Nat
      /\ \A i \in 1 .. L : taken'[i] = taken[i]
      /\ \A i \in 1 .. n : taken'[L + i] = <<bytes[i], r>>
  <2>1. L \in Nat
    OBVIOUS
  <2> QED
    BY <2>1, TakenGrows, Zenon
<1>2. T \subseteq 1 .. L /\ DOMAIN taken = 1 .. L /\ DOMAIN taken' = 1 .. L + n
  BY <1>1, TakenByFinite
<1>5. \A i \in L + 1 .. L + n : i - L \in 1 .. n /\ taken'[i] = <<bytes[i - L], r>>
  <2> SUFFICES ASSUME NEW i \in L + 1 .. L + n
               PROVE  i - L \in 1 .. n /\ taken'[i] = <<bytes[i - L], r>>
    OBVIOUS
  <2>1. i - L \in 1 .. n /\ L + (i - L) = i
    BY <1>1
  <2> QED
    BY <1>1, <2>1
<1>3. CASE q # r
  <2>1. TakenBy(q)' = T
    BY <1>1, <1>2, <1>5, <1>3 DEF TakenBy
  <2>2. got'[q] = got[q]
    BY <1>3
  <2> QED
    BY <1>1, <1>2, <2>1, <2>2 DEF Exact
<1>4. CASE q = r
  <2>1. TakenBy(q)' = T \cup (L + 1 .. L + n)
    BY <1>1, <1>2, <1>5, <1>4 DEF TakenBy
  <2>2. /\ Len(got[q]) = Cardinality(T) /\ got[q] \in Seq(Bytes)
        /\ \A i \in T : got[q][Cardinality({j \in T : j <= i})] = taken[i][1]
    BY DEF Exact
  <2> HIDE DEF T, L
  <2> DEFINE new == got[q] \o bytes
  <2>3. got'[q] = new
    BY <1>4
  <2>4. /\ new \in Seq(Bytes) /\ Len(new) = Len(got[q]) + n
        /\ \A i \in 1 .. Len(got[q]) + n :
             new[i] = IF i <= Len(got[q]) THEN got[q][i] ELSE bytes[i - Len(got[q])]
    BY <2>2, ConcatProperties, Zenon
  <2> HIDE DEF new
  <2>5. Len(got'[q]) = Cardinality(TakenBy(q)')
    <3>1. Cardinality(T \cup (L + 1 .. L + n)) = Cardinality(T) + n
      BY <1>1, <1>2, CountBehind
    <3> QED
      BY <2>1, <2>2, <2>3, <2>4, <3>1
  <2>6. ASSUME NEW i \in TakenBy(q)'
        PROVE  got'[q][Cardinality({j \in TakenBy(q)' : j <= i})] = taken'[i][1]
    <3>1. CASE i \in T
      <4>1. {j \in TakenBy(q)' : j <= i} = {j \in T : j <= i}
        BY <1>1, <1>2, <2>1, <3>1
      <4>2. Cardinality({j \in T : j <= i}) \in 1 .. Len(got[q])
        BY <1>1, <1>2, <2>2, <3>1, RankInRange
      <4>3. new[Cardinality({j \in T : j <= i})] = got[q][Cardinality({j \in T : j <= i})]
        BY <2>2, <2>4, <4>2
      <4>4. taken'[i] = taken[i]
        BY <1>1, <1>2, <3>1
      <4> QED
        BY <2>2, <2>3, <3>1, <4>1, <4>3, <4>4
    <3>2. CASE i \in L + 1 .. L + n
      <4> DEFINE m == i - L
      <4>1. m \in 1 .. n /\ L + m = i /\ m \in Nat
        BY <1>1, <3>2
      <4>3. taken'[i] = <<bytes[m], r>>
        BY <1>5, <3>2
      <4> HIDE DEF m
      <4>4. Cardinality({j \in TakenBy(q)' : j <= i}) = Len(got[q]) + m
        <5>1. Cardinality({j \in TakenBy(q)' : j <= i}) = Cardinality(T) + (i - L)
          <6>1. L \in Nat /\ T \subseteq 1 .. L
            BY <1>1, <1>2
          <6>2. \A U : U = T \cup (L + 1 .. L + n)
                      => Cardinality({j \in U : j <= i}) = Cardinality(T) + (i - L)
            BY <3>2, <6>1, RankBehind, Zenon
          <6> QED
            BY <2>1, <6>2, Zenon
        <5> QED
          BY <2>2, <5>1 DEF m
      <4>5. new[Len(got[q]) + m] = bytes[m]
        <5>1. /\ Len(got[q]) + m \in 1 .. Len(got[q]) + n /\ ~(Len(got[q]) + m <= Len(got[q]))
              /\ (Len(got[q]) + m) - Len(got[q]) = m
          BY <2>2, <4>1
        <5> QED
          BY <2>4, <5>1
      <4>6. taken'[i][1] = bytes[m]
        <5>1. <<bytes[m], r>>[1] = bytes[m]
          OBVIOUS
        <5> QED
          BY <4>3, <5>1, Zenon
      <4> QED
        BY <2>3, <4>4, <4>5, <4>6, Zenon
    <3> QED
      BY <2>1, <2>6, <3>1, <3>2
  <2> QED
    BY <2>5, <2>6 DEF Exact
<1> QED
  BY <1>3, <1>4

(* One call of ::read: the bytes leave the queue and enter the buffer.      *)
LEMMA ReadDataStep ==
  ASSUME IInv, NEW r \in Readers, ReadData(r)
  PROVE  IInv'
<1>0. /\ TypeOK /\ NothingLost /\ BuffersTyped
      /\ taken \in Seq(Bytes \X Readers) /\ pipe \in Seq(Bytes) /\ sent \in Seq(Bytes)
      /\ got \in [Readers -> Seq(Bytes)]
  BY DEF IInv, NothingLost, TypeOK, BuffersTyped
<1>1. /\ st[r] = "woken" /\ last' = [last EXCEPT ![r] = "data"]
      /\ UNCHANGED <<op, written, sent, readOpen, writeOpen>>
  BY DEF ReadData
<1>2. PICK n \in 1 .. Len(pipe) :
        /\ n <= ReadSize - Len(got[r])
        /\ got' = [got EXCEPT ![r] = got[r] \o SubSeq(pipe, 1, n)]
        /\ taken' = taken \o [i \in 1 .. n |-> <<SubSeq(pipe, 1, n)[i], r>>]
        /\ pipe' = SubSeq(pipe, n + 1, Len(pipe))
        /\ st' = [st EXCEPT ![r] = AfterRead(r, Len(got'[r]))]
  BY DEF ReadData, Moves, Fill
<1>3. n \in Nat /\ n > 0
  BY <1>0
<1> DEFINE bytes == SubSeq(pipe, 1, n)
           rest == SubSeq(pipe, n + 1, Len(pipe))
<1>4. /\ bytes \in Seq(Bytes) /\ Len(bytes) = n
      /\ rest \in Seq(Bytes) /\ Len(rest) = Len(pipe) - n
      /\ pipe = bytes \o rest
  BY <1>0, SplitPipe
<1>5. /\ got' = [got EXCEPT ![r] = got[r] \o bytes]
      /\ taken' = taken \o [i \in 1 .. n |-> <<bytes[i], r>>]
      /\ pipe' = rest
  BY <1>2
<1> HIDE DEF bytes, rest
<1>6. taken' \in Seq(Bytes \X Readers)
  BY <1>0, <1>3, <1>4, <1>5, TakenGrows
<1>7. /\ got[r] \o bytes \in Seq(Bytes) /\ Len(got[r] \o bytes) = Len(got[r]) + n
      /\ Len(got[r]) \in Nat
  <2>1. got[r] \in Seq(Bytes)
    BY <1>0
  <2>2. Len(got[r]) \in Nat
    BY <2>1
  <2>3. got[r] \o bytes \in Seq(Bytes) /\ Len(got[r] \o bytes) = Len(got[r]) + Len(bytes)
    BY <1>4, <2>1, ConcatProperties, Zenon
  <2> QED
    BY <1>4, <2>2, <2>3, Zenon
<1>8. /\ got' \in [Readers -> Seq(Bytes)] /\ Len(got'[r]) = Len(got[r]) + n
      /\ got'[r] # <<>> /\ \A q \in Readers \ {r} : got'[q] = got[q]
  <2>1. got'[r] = got[r] \o bytes
    BY <1>0, <1>5
  <2>2. Len(got'[r]) # 0
    BY <1>3, <1>7, <2>1
  <2> QED
    BY <1>0, <1>5, <1>7, <2>1, <2>2
<1>9. st' \in [Coros -> States] /\ st'[r] \in {"polling", "done"}
      /\ \A c \in Coros \ {r} : st'[c] = st[c]
  BY <1>0, <1>2 DEF TypeOK, AfterRead, States, Coros
<1>10. TypeOK'
  <2>1. \A q \in Readers : got'[q] \in Seq(Bytes) /\ Len(got'[q]) <= ReadSize
    <3>1. Len(got'[r]) <= ReadSize
      BY <1>2, <1>3, <1>7, <1>8, Sizes
    <3> QED
      BY <1>0, <1>8, <3>1 DEF TypeOK
  <2>2. pipe' \in Seq(Bytes) /\ Len(pipe') <= Capacity
    BY <1>0, <1>3, <1>4, <1>5, Sizes DEF TypeOK
  <2>3. last' \in [Readers -> {"none", "data", "end", "again", "error"}]
    BY <1>0, <1>1 DEF TypeOK
  <2> QED
    BY <1>0, <1>1, <1>6, <1>9, <2>1, <2>2, <2>3 DEF TypeOK
<1>11. NothingLost'
  <2>1. sent = Out \o pipe
    BY <1>0 DEF NothingLost, Out
  <2>2. Out \in Seq(Bytes)
    BY <1>0, OutIsSeq
  <2>3. Out \o (bytes \o rest) = (Out \o bytes) \o rest
    BY <1>4, <2>2, ConcatAssociative
  <2>4. Out' = Out \o bytes
    BY <1>0, <1>3, <1>4, <1>5, OutGrows
  <2>5. sent' = Out' \o pipe'
    BY <1>1, <1>4, <1>5, <2>1, <2>3, <2>4, Zenon
  <2>6. \A q \in Readers : Exact(q)
    BY <1>0 DEF NothingLost, Exact
  <2>7. \A q \in Readers : Exact(q)'
    BY <1>0, <1>3, <1>4, <1>5, <2>6, BufferGrows
  <2> QED
    BY <1>10, <2>5, <2>7 DEF NothingLost, Exact, Out
<1>12. ErrorLosesNothing'
  <2> SUFFICES ASSUME NEW q \in Readers, st'[q] = "failed"
               PROVE  \A i \in DOMAIN taken' : taken'[i][2] # q
    BY DEF ErrorLosesNothing
  <2>1. q # r /\ st[q] = "failed"
    BY <1>9 DEF Coros
  <2>2. \A i \in 1 .. Len(taken) : taken[i][2] # q
    BY <1>0, <2>1 DEF IInv, ErrorLosesNothing
  <2>3. /\ Len(taken') = Len(taken) + n /\ Len(taken) \in Nat
        /\ \A i \in 1 .. Len(taken) : taken'[i] = taken[i]
        /\ \A i \in 1 .. n : taken'[Len(taken) + i] = <<bytes[i], r>>
    <3>1. Len(taken) \in Nat
      BY <1>0
    <3> QED
      BY <1>0, <1>3, <1>4, <1>5, <3>1, TakenGrows, Zenon
  <2>4. ASSUME NEW i \in 1 .. Len(taken) + n PROVE taken'[i][2] # q
    <3>1. CASE i <= Len(taken)
      BY <2>2, <2>3, <3>1
    <3>2. CASE ~(i <= Len(taken))
      <4>1. i - Len(taken) \in 1 .. n /\ Len(taken) + (i - Len(taken)) = i
        BY <2>3, <3>2
      <4>2. taken'[i] = <<bytes[i - Len(taken)], r>>
        BY <2>3, <4>1
      <4> QED
        BY <2>1, <4>2
    <3> QED
      BY <3>1, <3>2
  <2>5. DOMAIN taken' = 1 .. Len(taken) + n
    BY <1>6, <2>3
  <2> QED
    BY <2>4, <2>5
<1>13. FullOrEnd'
  <2> SUFFICES ASSUME NEW q \in Readers,
                      st'[q] = "done", op[q] = "all", Len(got'[q]) < ReadSize
               PROVE  \/ last'[q] = "end"
                      \/ last'[q] = "error" /\ got'[q] # <<>>
                      \/ \E p \in Readers \ {q} : got'[p] # <<>>
    BY <1>1 DEF FullOrEnd
  <2>1. CASE q # r
    BY <1>8, <2>1
  <2>2. CASE q = r
    BY <1>0, <1>2, <2>2 DEF AfterRead, TypeOK, Coros
  <2> QED
    BY <2>1, <2>2
<1>14. WokenForData'
  <2> SUFFICES ASSUME NEW q \in Readers, st'[q] = "woken"
               PROVE  \E p \in Readers \ {q} : got'[p] # <<>>
    BY DEF WokenForData
  <2>1. q # r
    BY <1>9
  <2> QED
    BY <1>8, <2>1
<1>15. WriterLoops'
  <2>1. \A w \in Writers : w # r /\ w \in Coros
    BY StreamAssumption DEF StreamAssumption, Coros
  <2> QED
    BY <1>1, <1>9, <2>1 DEF IInv, WriterLoops
<1> QED
  BY <1>8, <1>11, <1>12, <1>13, <1>14, <1>15 DEF IInv, BuffersTyped

(* One call of ::write: the bytes enter the queue behind the others.        *)
LEMMA WriteDataStep ==
  ASSUME IInv, NEW w \in Writers, WriteData(w)
  PROVE  IInv'
<1>0. /\ TypeOK /\ NothingLost
      /\ taken \in Seq(Bytes \X Readers) /\ pipe \in Seq(Bytes) /\ sent \in Seq(Bytes)
      /\ written[w] \in Nat /\ written[w] < WriteSize
  <2>1. TypeOK /\ NothingLost /\ WriterLoops
    BY DEF IInv, NothingLost
  <2>2. written[w] \in 0 .. 2 * WriteSize - 1 /\ 2 * WriteSize - 1 \in Int
    BY <2>1, Sizes DEF TypeOK
  <2>3. written[w] < WriteSize
    BY <2>1 DEF WriterLoops, WriteData
  <2>4. taken \in Seq(Bytes \X Readers) /\ pipe \in Seq(Bytes) /\ sent \in Seq(Bytes)
    BY <2>1 DEF TypeOK
  <2> QED
    BY <2>1, <2>2, <2>3, <2>4
<1>1. UNCHANGED <<op, got, last, taken, readOpen, writeOpen>> /\ st[w] = "woken"
  BY DEF WriteData
<1>2. PICK n \in 1 .. WriteSize :
        /\ n <= Capacity - Len(pipe)
        /\ pipe' = pipe \o SubSeq(Offered(w), 1, n)
        /\ sent' = sent \o SubSeq(Offered(w), 1, n)
        /\ written' = [written EXCEPT ![w] = written[w] + n]
        /\ st' = [st EXCEPT ![w] = IF MoreToWrite(w, written'[w]) THEN "polling" ELSE "done"]
  BY DEF WriteData, Moves
<1> DEFINE bytes == SubSeq(Offered(w), 1, n)
<1>3. bytes \in Seq(Bytes) /\ Len(bytes) = n /\ n \in Nat /\ n > 0
  <2>1. Offered(w) \in Seq(Bytes) /\ Len(Offered(w)) = WriteSize
    <3>1. \A i \in 1 .. WriteSize : <<w, i>> \in Bytes
      BY DEF Bytes
    <3> QED
      BY <3>1, Sizes DEF Offered
  <2>2. n \in 1 .. Len(Offered(w)) /\ n \in Nat /\ n > 0
    BY <2>1, Sizes
  <2> QED
    BY <2>1, <2>2, SplitPipe
<1>4. pipe' = pipe \o bytes /\ sent' = sent \o bytes
  BY <1>2
<1> HIDE DEF bytes
<1>a. /\ pipe \o bytes \in Seq(Bytes) /\ Len(pipe \o bytes) = Len(pipe) + n /\ Len(pipe) \in Nat
      /\ sent \o bytes \in Seq(Bytes)
  <2>1. Len(pipe) \in Nat
    BY <1>0
  <2>2. /\ pipe \o bytes \in Seq(Bytes) /\ Len(pipe \o bytes) = Len(pipe) + Len(bytes)
        /\ sent \o bytes \in Seq(Bytes)
    BY <1>0, <1>3, ConcatProperties, Zenon
  <2> QED
    BY <1>3, <2>1, <2>2, Zenon
<1>5. \A r \in Readers : r # w /\ r \in Coros
  BY StreamAssumption DEF StreamAssumption, Coros
<1>6. /\ st' \in [Coros -> States]
      /\ \A c \in Coros \ {w} : st'[c] = st[c]
      /\ st'[w] = "done" \/ (st'[w] = "polling" /\ written'[w] < WriteSize)
  BY <1>0, <1>2 DEF TypeOK, States, Coros, MoreToWrite
<1>7. TypeOK'
  <2>1. /\ pipe' \in Seq(Bytes) /\ Len(pipe') = Len(pipe) + n /\ Len(pipe) \in Nat
        /\ sent' \in Seq(Bytes)
    BY <1>4, <1>a
  <2>2. Len(pipe') <= Capacity
    BY <1>2, <1>3, <2>1, Sizes
  <2>3. written' \in [Writers -> 0 .. 2 * WriteSize - 1]
    BY <1>0, <1>2, <1>3, Sizes DEF TypeOK
  <2> QED
    BY <1>0, <1>1, <1>6, <2>1, <2>2, <2>3 DEF TypeOK
<1>8. NothingLost'
  <2>1. sent = Out \o pipe /\ Out' = Out
    BY <1>0, <1>1 DEF NothingLost, Out
  <2>2. Out \in Seq(Bytes)
    BY <1>0, OutIsSeq
  <2>3. (Out \o pipe) \o bytes = Out \o (pipe \o bytes)
    <3>1. pipe \in Seq(Bytes) /\ bytes \in Seq(Bytes)
      BY <1>0, <1>3
    <3> QED
      BY <2>2, <3>1, ConcatAssociative
  <2>4. sent' = Out' \o pipe'
    BY <1>4, <2>1, <2>3, Zenon
  <2>5. \A r : TakenBy(r)' = TakenBy(r)
    BY <1>1 DEF TakenBy
  <2> QED
    BY <1>0, <1>1, <1>7, <2>4, <2>5 DEF NothingLost, Out
<1>9. ErrorLosesNothing' /\ FullOrEnd' /\ BuffersTyped'
  BY <1>1, <1>5, <1>6 DEF IInv, ErrorLosesNothing, FullOrEnd, BuffersTyped
<1>10. WokenForData'
  <2>1. pipe' # <<>>
    <3>1. Len(pipe \o bytes) = Len(pipe) + n /\ Len(pipe) \in Nat
      BY <1>a
    <3> QED
      BY <1>3, <1>4, <3>1
  <2> QED
    BY <2>1 DEF WokenForData
<1>11. WriterLoops'
  <2> SUFFICES ASSUME NEW v \in Writers
               PROVE  /\ st'[v] = "idle" => written'[v] = 0
                      /\ st'[v] \in {"polling", "woken"} => written'[v] < WriteSize
    BY DEF WriterLoops
  <2>1. CASE v = w
    BY <1>6, <2>1
  <2>2. CASE v # w
    BY <1>0, <1>2, <1>6, <2>2 DEF IInv, WriterLoops, Coros, TypeOK
  <2> QED
    BY <2>1, <2>2
<1> QED
  BY <1>8, <1>9, <1>10, <1>11 DEF IInv

-----------------------------------------------------------------------------
(* The other steps move no byte. *)
LEMMA OtherSteps ==
  ASSUME IInv,
         \/ \E r \in Readers : Start(r, ReadSize) \/ Wake(r) \/ ReadEnd(r)
                               \/ ReadAgain(r) \/ ReadError(r)
         \/ \E w \in Writers : Start(w, WriteSize) \/ Wake(w) \/ WriteError(w)
         \/ \E c \in Coros : Drop(c)
         \/ CloseRead \/ CloseWrite
  PROVE  IInv'
<1>0. TypeOK /\ WriterLoops
  BY DEF IInv, NothingLost
<1>a. \A r \in Readers : r \in Coros /\ r \notin Writers
  BY StreamAssumption DEF StreamAssumption, Coros
<1>b. \A w \in Writers : w \in Coros /\ w \notin Readers
  BY StreamAssumption DEF StreamAssumption, Coros
<1>1. ASSUME NEW r \in Readers, Start(r, ReadSize) PROVE IInv'
  <2>1. st' = [st EXCEPT ![r] = "polling"] \/ (op[r] # "all" /\ st' = [st EXCEPT ![r] = "woken"])
    BY <1>0, <1>1, <1>a, Sizes DEF Start, Moves, TypeOK, Operations
  <2> QED
    BY <1>0, <1>1, <1>a, <1>b, <2>1, QuietStep DEF Start, TypeOK, States
<1>2. ASSUME NEW r \in Readers, Wake(r) PROVE IInv'
  BY <1>0, <1>2, <1>a, <1>b, QuietStep DEF Wake, Moves, TypeOK, States
<1>3. ASSUME NEW r \in Readers, ReadEnd(r) PROVE IInv'
  BY <1>0, <1>3, <1>a, <1>b, QuietStep DEF ReadEnd, Moves, TypeOK, States
<1>4. ASSUME NEW r \in Readers, ReadAgain(r) PROVE IInv'
  BY <1>0, <1>4, <1>a, <1>b, QuietStep DEF ReadAgain, OnReadError, Moves, TypeOK, States
<1>11. ASSUME NEW r \in Readers, ReadError(r) PROVE IInv'
  BY <1>0, <1>11, <1>a, <1>b, QuietStep DEF ReadError, OnReadError, Moves, TypeOK, States
<1>5. ASSUME NEW w \in Writers, Start(w, WriteSize) PROVE IInv'
  <2>1. st' = [st EXCEPT ![w] = "polling"] \/ st' = [st EXCEPT ![w] = "woken"]
    BY <1>0, <1>5, <1>b, Sizes DEF Start, Moves, TypeOK, Operations
  <2> QED
    BY <1>0, <1>5, <1>a, <1>b, <2>1, QuietStep DEF Start, TypeOK, States
<1>6. ASSUME NEW w \in Writers, Wake(w) PROVE IInv'
  BY <1>0, <1>6, <1>a, <1>b, QuietStep DEF Wake, Moves, TypeOK, States
<1>7. ASSUME NEW w \in Writers, WriteError(w) PROVE IInv'
  BY <1>0, <1>7, <1>a, <1>b, QuietStep DEF WriteError, Moves, TypeOK, States, Ended
<1>8. ASSUME NEW c \in Coros, Drop(c) PROVE IInv'
  BY <1>0, <1>8, <1>a, <1>b, QuietStep DEF Drop, Moves, TypeOK, States, Ended
<1>9. ASSUME CloseRead PROVE IInv'
  BY <1>0, <1>9, QuietStep DEF CloseRead, TypeOK
<1>10. ASSUME CloseWrite PROVE IInv'
  BY <1>0, <1>10, QuietStep DEF CloseWrite, TypeOK
<1> QED
  BY <1>1, <1>2, <1>3, <1>4, <1>5, <1>6, <1>7, <1>8, <1>9, <1>10, <1>11

(* Every step keeps the inductive invariant. *)
LEMMA NextIInv ==
  ASSUME IInv, [Next]_vars
  PROVE  IInv'
<1>1. CASE UNCHANGED vars
  <2>1. \A r : TakenBy(r)' = TakenBy(r)
    BY <1>1 DEF vars, TakenBy
  <2>2. TypeOK' /\ ErrorLosesNothing' /\ FullOrEnd' /\ BuffersTyped' /\ WriterLoops' /\ WokenForData'
    BY <1>1 DEF vars, IInv, NothingLost, TypeOK, ErrorLosesNothing, FullOrEnd, BuffersTyped,
                WriterLoops, WokenForData
  <2>3. NothingLost'
    BY <1>1, <2>1, <2>2 DEF vars, IInv, NothingLost
  <2> QED
    BY <2>2, <2>3 DEF IInv
<1>2. CASE Next
  BY <1>2, ReadDataStep, WriteDataStep, OtherSteps DEF Next, ReadStep, WriteStep
<1> QED
  BY <1>1, <1>2

(* The inductive invariant holds in every reachable state. *)
LEMMA IInvHolds == Spec => []IInv
<1>1. Init => IInv
  BY InitIInv
<1>2. IInv /\ [Next]_vars => IInv'
  BY NextIInv
<1> QED
  BY <1>1, <1>2, PTL DEF Spec

(* The loops of read() and read_some() (FdOps.cpp) lose, repeat and reorder *)
(* no byte of the stream, whoever else reads and writes and however short   *)
(* the reads and writes of the kernel are, and overrun no buffer.           *)
THEOREM StreamKeepsBytes == Spec => []NothingLost
<1>1. IInv => NothingLost
  BY DEF IInv
<1> QED
  BY <1>1, IInvHolds, PTL

(* A read that returns an error has taken no byte out of the stream.        *)
THEOREM ErrorsLoseNothing == Spec => []ErrorLosesNothing
<1>1. IInv => ErrorLosesNothing
  BY DEF IInv
<1> QED
  BY <1>1, IInvHolds, PTL

(* read() of a reader that nobody competes with returns a short count only  *)
(* when the stream has ended, or when an error came after some bytes.       *)
THEOREM ShortOnlyAtEnd == Spec => []FullOrEnd
<1>1. IInv => FullOrEnd
  BY DEF IInv
<1> QED
  BY <1>1, IInvHolds, PTL

=============================================================================
