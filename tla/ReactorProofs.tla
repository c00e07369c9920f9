---------------------------- MODULE ReactorProofs ----------------------------
(***************************************************************************)
(* The event loop and the signal handler for any number of coroutines,     *)
(* descriptors and events, any poll buffer, delays and timeout.            *)
(*                                                                         *)
(* IInv is the inductive invariant.  It says where every coroutine is      *)
(* (Placed), who awaits and owns whom (Waiters, Families), that the frames *)
(* form trees (Forest), and that no coroutine runs on top of one it owns   *)
(* (StackOrder): without the last two, destroying a Fut could destroy a    *)
(* coroutine that runs, and a drain could leave a ring of frames behind.   *)
(***************************************************************************)
EXTENDS Reactor, BasicLemmas

-----------------------------------------------------------------------------
(* The list r has the elements of s at the indexes I, in their order: g     *)
(* tells where each one was.                                                *)
Thinned(r, s, I) ==
  \E g \in [1 .. Len(r) -> I] :
    /\ \A j \in 1 .. Len(r) : r[j] = s[g[j]]
    /\ \A j, k \in 1 .. Len(r) : j < k => g[j] < g[k]
    /\ \A i \in I : \E j \in 1 .. Len(r) : g[j] = i

(* What Kept leaves of a list. *)
LEMMA KeptProperties ==
  ASSUME NEW T, NEW s \in Seq(T), NEW I, I \subseteq 1 .. Len(s)
  PROVE  Kept(s, I) \in Seq(T) /\ Thinned(Kept(s, I), s, I)
<1> DEFINE Def(f) ==
      [n \in 0 .. Len(s) |->
         IF n = 0 THEN <<>>
         ELSE IF n \in I THEN Append(f[n - 1], s[n]) ELSE f[n - 1]]
           F == CHOOSE f : f = Def(f)
           Follows(f, n) ==
             /\ f[0] = <<>>
             /\ \A m \in 1 .. n : f[m] = IF m \in I THEN Append(f[m - 1], s[m]) ELSE f[m - 1]
           A == {n \in Nat : n <= Len(s) => \E f \in [0 .. n -> Seq(T)] : Follows(f, n)}
<1>1. Kept(s, I) = F[Len(s)]
  BY DEF Kept
<1>2. Len(s) \in Nat /\ \A n \in 1 .. Len(s) : s[n] \in T
  OBVIOUS
<1>I. \A i \in I : i \in Nat
  OBVIOUS
<1>3. \E f : f = Def(f)
  <2>1. 0 \in A
    <3>1. [n \in 0 .. 0 |-> <<>>] \in [0 .. 0 -> Seq(T)]
      OBVIOUS
    <3>2. Follows([n \in 0 .. 0 |-> <<>>], 0)
      OBVIOUS
    <3> QED
      BY <3>1, <3>2
  <2>2. ASSUME NEW n \in Nat, n \in A PROVE n + 1 \in A
    <3> HIDE DEF Follows
    <3> SUFFICES ASSUME n + 1 <= Len(s)
                 PROVE  \E f \in [0 .. n + 1 -> Seq(T)] : Follows(f, n + 1)
      OBVIOUS
    <3>1. PICK f \in [0 .. n -> Seq(T)] : Follows(f, n)
      BY <2>2, <1>2
    <3> USE DEF Follows
    <3> DEFINE e == IF n + 1 \in I THEN Append(f[n], s[n + 1]) ELSE f[n]
               h == [m \in 0 .. n + 1 |-> IF m = n + 1 THEN e ELSE f[m]]
    <3>2. f[n] \in Seq(T) /\ s[n + 1] \in T
      BY <1>2
    <3>3. e \in Seq(T)
      BY <3>2
    <3> HIDE DEF e
    <3>4. h \in [0 .. n + 1 -> Seq(T)]
      BY <3>3
    <3>5. /\ h[0] = f[0] /\ h[n + 1] = e
          /\ \A m \in 1 .. n : h[m] = f[m] /\ h[m - 1] = f[m - 1]
      OBVIOUS
    <3>6. h[(n + 1) - 1] = f[n]
      OBVIOUS
    <3> HIDE DEF h
    <3>7. ASSUME NEW m \in 1 .. n + 1
          PROVE  h[m] = IF m \in I THEN Append(h[m - 1], s[m]) ELSE h[m - 1]
      <4>1. CASE m = n + 1
        BY <4>1, <3>5, <3>6 DEF e
      <4>2. CASE m \in 1 .. n
        BY <4>2, <3>1, <3>5
      <4> QED
        BY <4>1, <4>2
    <3>8. Follows(h, n + 1)
      BY <3>1, <3>5, <3>7
    <3> QED
      BY <3>4, <3>8
  <2>3. Len(s) \in A
    <3> HIDE DEF A
    <3> QED
      BY <1>2, <2>1, <2>2, NatSetInduction
  <2>4. PICK f \in [0 .. Len(s) -> Seq(T)] : Follows(f, Len(s))
    BY <1>2, <2>3
  <2>5. \A n \in 0 .. Len(s) : f[n] = Def(f)[n]
    <3> SUFFICES ASSUME NEW n \in 0 .. Len(s) PROVE f[n] = Def(f)[n]
      OBVIOUS
    <3>1. CASE n = 0
      BY <3>1, <2>4
    <3>2. CASE n # 0
      <4>1. n \in 1 .. Len(s)
        BY <1>2, <3>2
      <4> QED
        BY <4>1, <2>4
    <3> QED
      BY <3>1, <3>2
  <2>6. f = Def(f)
    BY <2>4, <2>5
  <2> QED
    BY <2>6
<1>4. F = Def(F)
  BY <1>3
<1>5. Follows(F, Len(s))
  <2> HIDE DEF F
  <2>1. \A n \in 0 .. Len(s) : F[n] = Def(F)[n]
    BY <1>4
  <2> QED
    BY <1>2, <2>1
<1> HIDE DEF F
<1> DEFINE Good(n, g) ==
             /\ g \in [1 .. Len(F[n]) -> I]
             /\ \A j \in 1 .. Len(F[n]) : g[j] <= n /\ F[n][j] = s[g[j]]
             /\ \A j, k \in 1 .. Len(F[n]) : j < k => g[j] < g[k]
             /\ \A i \in I : i <= n => \E j \in 1 .. Len(F[n]) : g[j] = i
           B == {n \in Nat : n <= Len(s) => F[n] \in Seq(T) /\ \E g : Good(n, g)}
<1>6. 0 \in B
  <2>1. F[0] = <<>> /\ Len(F[0]) = 0 /\ F[0] \in Seq(T)
    BY <1>5
  <2>2. Good(0, [i \in 1 .. 0 |-> 0])
    BY <1>2, <2>1
  <2> QED
    BY <2>1, <2>2
<1>7. ASSUME NEW n \in Nat, n \in B PROVE n + 1 \in B
  <2> SUFFICES ASSUME n + 1 <= Len(s)
               PROVE  F[n + 1] \in Seq(T) /\ \E g : Good(n + 1, g)
    OBVIOUS
  <2>1. n <= Len(s) /\ F[n] \in Seq(T)
    BY <1>2, <1>7
  <2>2. PICK g : Good(n, g)
    BY <1>7, <2>1
  <2>3. F[n + 1] = IF n + 1 \in I THEN Append(F[n], s[n + 1]) ELSE F[n]
    <3>1. n + 1 \in 1 .. Len(s) /\ (n + 1) - 1 = n
      BY <1>2
    <3> QED
      BY <1>5, <3>1
  <2>4. CASE n + 1 \notin I
    <3>1. F[n + 1] = F[n]
      BY <2>3, <2>4
    <3>2. \A i \in I : i <= n + 1 => i <= n
      BY <1>2, <2>4
    <3>3. \A j \in 1 .. Len(F[n]) : g[j] <= n + 1
      <4>1. ASSUME NEW j \in 1 .. Len(F[n]) PROVE g[j] \in Nat /\ g[j] <= n
        <5>1. g[j] \in I /\ g[j] <= n
          BY <2>2
        <5> QED
          BY <5>1, <1>I
      <4> QED
        BY <4>1
    <3>4. Good(n + 1, g)
      BY <2>2, <3>1, <3>2, <3>3
    <3> QED
      BY <2>1, <3>1, <3>4
  <2>5. CASE n + 1 \in I
    <3> DEFINE L == Len(F[n])
               h == [j \in 1 .. L + 1 |-> IF j = L + 1 THEN n + 1 ELSE g[j]]
    <3>1. /\ s[n + 1] \in T /\ L \in Nat
      BY <1>2, <2>1
    <3>2. /\ F[n + 1] \in Seq(T) /\ Len(F[n + 1]) = L + 1
          /\ F[n + 1][L + 1] = s[n + 1]
          /\ \A j \in 1 .. L : F[n + 1][j] = F[n][j]
      BY <2>1, <2>3, <2>5, <3>1
    <3>3. /\ h[L + 1] = n + 1 /\ \A j \in 1 .. L : h[j] = g[j]
      BY <3>1
    <3>4. h \in [1 .. L + 1 -> I]
      BY <2>2, <2>5, <3>1
    <3> HIDE DEF h
    <3>5. ASSUME NEW j \in 1 .. L
          PROVE  g[j] \in I /\ g[j] \in Nat /\ g[j] <= n /\ F[n][j] = s[g[j]]
      <4>1. g[j] \in I /\ g[j] <= n /\ F[n][j] = s[g[j]]
        BY <2>2
      <4> QED
        BY <4>1, <1>I
    <3>6. ASSUME NEW j \in 1 .. L + 1 PROVE h[j] <= n + 1 /\ F[n + 1][j] = s[h[j]]
      <4>1. CASE j = L + 1
        BY <4>1, <3>2, <3>3
      <4>2. CASE j \in 1 .. L
        <5>1. h[j] = g[j] /\ F[n + 1][j] = F[n][j] /\ g[j] \in Nat /\ g[j] <= n /\ F[n][j] = s[g[j]]
          BY <4>2, <3>2, <3>3, <3>5
        <5> QED
          BY <5>1
      <4> QED
        BY <3>1, <4>1, <4>2
    <3>7. ASSUME NEW j \in 1 .. L + 1, NEW k \in 1 .. L + 1, j < k PROVE h[j] < h[k]
      <4>1. j \in 1 .. L
        BY <3>1, <3>7
      <4>2. h[j] = g[j] /\ g[j] \in Nat /\ g[j] <= n
        BY <4>1, <3>3, <3>5
      <4>3. CASE k = L + 1
        BY <4>2, <4>3, <3>3
      <4>4. CASE k \in 1 .. L
        BY <4>1, <4>2, <4>4, <3>3, <3>7, <2>2
      <4> QED
        BY <3>1, <4>3, <4>4
    <3>8. ASSUME NEW i \in I, i <= n + 1 PROVE \E j \in 1 .. L + 1 : h[j] = i
      <4>1. CASE i = n + 1
        BY <4>1, <3>1, <3>3
      <4>2. CASE i # n + 1
        <5>1. i <= n
          BY <1>2, <3>8, <4>2
        <5>2. PICK j \in 1 .. L : g[j] = i
          BY <2>2, <5>1
        <5> QED
          BY <5>2, <3>1, <3>3
      <4> QED
        BY <4>1, <4>2
    <3>9. Good(n + 1, h)
      BY <3>2, <3>4, <3>6, <3>7, <3>8
    <3> QED
      BY <3>2, <3>9
  <2> QED
    BY <2>4, <2>5
<1>8. Len(s) \in B
  <2> HIDE DEF B
  <2> QED
    BY <1>2, <1>6, <1>7, NatSetInduction
<1>9. F[Len(s)] \in Seq(T) /\ \E g : Good(Len(s), g)
  BY <1>2, <1>8
<1>10. PICK g : Good(Len(s), g)
  BY <1>9
<1>11. \A i \in I : i <= Len(s)
  BY <1>2
<1> QED
  BY <1>1, <1>9, <1>10, <1>11 DEF Thinned

-----------------------------------------------------------------------------
(* Lists of coroutines and lists of nodes, by what is linked in them.       *)

In(t, s) == \E i \in 1 .. Len(s) : s[i] = t

InNode(t, s) == \E i \in 1 .. Len(s) : s[i].task = t

(* No coroutine twice. *)
Once(s) == \A i, j \in 1 .. Len(s) : s[i] = s[j] => i = j

OnceNode(s) == \A i, j \in 1 .. Len(s) : s[i].task = s[j].task => i = j

(* Later in the list, later to wake. *)
Sorted(s) == \A i, j \in 1 .. Len(s) : i < j => s[i].at <= s[j].at

(* Linking at the back. *)
LEMMA LinkLast ==
  ASSUME NEW T, NEW s \in Seq(T), NEW t \in T
  PROVE  /\ Append(s, t) \in Seq(T)
         /\ \A x : In(x, Append(s, t)) <=> In(x, s) \/ x = t
         /\ \A x : InNode(x, Append(s, t)) <=> InNode(x, s) \/ x = t.task
         /\ Once(s) /\ ~In(t, s) => Once(Append(s, t))
         /\ OnceNode(s) /\ ~InNode(t.task, s) => OnceNode(Append(s, t))
<1> DEFINE r == Append(s, t)
<1>1. /\ r \in Seq(T) /\ Len(r) = Len(s) + 1 /\ Len(s) \in Nat
      /\ \A i \in 1 .. Len(s) : r[i] = s[i]
      /\ r[Len(s) + 1] = t
  OBVIOUS
<1> HIDE DEF r
<1>2. \A i \in 1 .. Len(r) : i \in 1 .. Len(s) \/ i = Len(s) + 1
  BY <1>1
<1>3. \A i \in 1 .. Len(s) : i \in 1 .. Len(r)
  BY <1>1
<1>4. Len(s) + 1 \in 1 .. Len(r)
  BY <1>1
<1>5. ASSUME NEW x PROVE In(x, r) <=> In(x, s) \/ x = t
  BY <1>1, <1>2, <1>3, <1>4 DEF In
<1>6. ASSUME NEW x PROVE InNode(x, r) <=> InNode(x, s) \/ x = t.task
  BY <1>1, <1>2, <1>3, <1>4 DEF InNode
<1>7. Once(s) /\ ~In(t, s) => Once(r)
  BY <1>1, <1>2, <1>3, <1>4 DEF In, Once
<1>8. OnceNode(s) /\ ~InNode(t.task, s) => OnceNode(r)
  BY <1>1, <1>2, <1>3, <1>4 DEF InNode, OnceNode
<1> QED
  BY <1>1, <1>5, <1>6, <1>7, <1>8 DEF r

(* Linking in front. *)
LEMMA LinkFirst ==
  ASSUME NEW T, NEW s \in Seq(T), NEW t \in T
  PROVE  /\ <<t>> \o s \in Seq(T)
         /\ \A x : In(x, <<t>> \o s) <=> In(x, s) \/ x = t
         /\ Once(s) /\ ~In(t, s) => Once(<<t>> \o s)
<1> DEFINE r == <<t>> \o s
<1>1. /\ r \in Seq(T) /\ Len(r) = Len(s) + 1 /\ Len(s) \in Nat
      /\ r[1] = t
      /\ \A i \in 1 .. Len(s) : r[i + 1] = s[i]
  OBVIOUS
<1> HIDE DEF r
<1>2. \A i \in 1 .. Len(r) : i = 1 \/ (i - 1 \in 1 .. Len(s) /\ r[i] = s[i - 1])
  <2>1. ASSUME NEW i \in 1 .. Len(r), i # 1 PROVE i - 1 \in 1 .. Len(s) /\ (i - 1) + 1 = i
    BY <1>1, <2>1
  <2> QED
    BY <1>1, <2>1
<1>3. \A i \in 1 .. Len(s) : i + 1 \in 1 .. Len(r)
  BY <1>1
<1>4. 1 \in 1 .. Len(r)
  BY <1>1
<1>5. ASSUME NEW x PROVE In(x, r) <=> In(x, s) \/ x = t
  <2>1. ASSUME In(x, r) PROVE In(x, s) \/ x = t
    <3>1. PICK i \in 1 .. Len(r) : r[i] = x
      BY <2>1 DEF In
    <3> QED
      BY <1>1, <1>2, <3>1 DEF In
  <2>2. ASSUME In(x, s) PROVE In(x, r)
    <3>1. PICK i \in 1 .. Len(s) : s[i] = x
      BY <2>2 DEF In
    <3>2. i + 1 \in 1 .. Len(r) /\ r[i + 1] = x
      BY <1>1, <1>3, <3>1
    <3> QED
      BY <3>2 DEF In
  <2>3. ASSUME x = t PROVE In(x, r)
    BY <1>1, <1>4, <2>3 DEF In
  <2> QED
    BY <2>1, <2>2, <2>3
<1>6. ASSUME Once(s), ~In(t, s) PROVE Once(r)
  <2> SUFFICES ASSUME NEW i \in 1 .. Len(r), NEW j \in 1 .. Len(r), r[i] = r[j] PROVE i = j
    BY DEF Once
  <2>1. CASE i = 1 \/ j = 1
    BY <1>1, <1>2, <1>6, <2>1 DEF In
  <2>2. CASE i # 1 /\ j # 1
    <3>1. i - 1 = j - 1
      BY <1>2, <1>6, <2>2 DEF Once
    <3> QED
      BY <3>1
  <2> QED
    BY <2>1, <2>2
<1> QED
  BY <1>1, <1>5, <1>6 DEF r

(* Unlinking the last one, as a coroutine that suspends leaves the stack. *)
LEMMA UnlinkLast ==
  ASSUME NEW T, NEW s \in Seq(T), s # <<>>, Once(s)
  PROVE  /\ SubSeq(s, 1, Len(s) - 1) \in Seq(T)
         /\ Len(SubSeq(s, 1, Len(s) - 1)) = Len(s) - 1
         /\ \A i \in 1 .. Len(s) - 1 : SubSeq(s, 1, Len(s) - 1)[i] = s[i]
         /\ s[Len(s)] \in T /\ In(s[Len(s)], s)
         /\ \A x : In(x, SubSeq(s, 1, Len(s) - 1)) <=> In(x, s) /\ x # s[Len(s)]
         /\ Once(SubSeq(s, 1, Len(s) - 1))
<1> DEFINE r == SubSeq(s, 1, Len(s) - 1)
<1>0. Len(s) \in Nat \ {0} /\ s[Len(s)] \in T /\ \A i \in 1 .. Len(s) : s[i] \in T
  <2>1. Len(s) \in Nat /\ Len(s) # 0
    OBVIOUS
  <2> QED
    BY <2>1
<1>1. /\ r \in Seq(T) /\ Len(s) \in Nat \ {0} /\ Len(r) = Len(s) - 1
      /\ \A i \in 1 .. Len(s) - 1 : r[i] = s[i]
      /\ s[Len(s)] \in T
  <2>1. /\ r \in Seq(T) /\ Len(r) = IF 1 <= Len(s) - 1 THEN (Len(s) - 1) - 1 + 1 ELSE 0
        /\ \A i \in 1 .. (Len(s) - 1) - 1 + 1 : r[i] = s[1 + i - 1]
    <3>1. 1 \in Int /\ Len(s) - 1 \in Int /\ \A i \in 1 .. Len(s) - 1 : s[i] \in T
      BY <1>0
    <3> QED
      BY <3>1, SubSeqProperties
  <2> HIDE DEF r
  <2>2. Len(r) = Len(s) - 1
    <3> DEFINE n == Len(s)
    <3>0. n \in Nat /\ n # 0 /\ Len(r) = IF 1 <= n - 1 THEN (n - 1) - 1 + 1 ELSE 0
      BY <1>0, <2>1
    <3> HIDE DEF n
    <3>1. Len(r) = n - 1
      BY <3>0
    <3> QED
      BY <3>1 DEF n
  <2>3. \A i \in 1 .. Len(s) - 1 : i \in 1 .. (Len(s) - 1) - 1 + 1 /\ 1 + i - 1 = i
    BY <1>0
  <2>4. \A i \in 1 .. Len(s) - 1 : r[i] = s[i]
    BY <2>1, <2>3
  <2> QED
    BY <1>0, <2>1, <2>2, <2>4
<1> HIDE DEF r
<1>2. /\ \A i \in 1 .. Len(r) : i \in 1 .. Len(s) /\ i # Len(s) /\ r[i] = s[i]
      /\ \A i \in 1 .. Len(s) : i # Len(s) => i \in 1 .. Len(r)
      /\ Len(s) \in 1 .. Len(s)
  BY <1>1
<1>3. ASSUME NEW x PROVE In(x, r) <=> In(x, s) /\ x # s[Len(s)]
  BY <1>2 DEF In, Once
<1>4. Once(r)
  BY <1>2 DEF Once
<1> QED
  BY <1>1, <1>2, <1>3, <1>4 DEF r, In

(* Unlinking the first one, as the loop takes from its lists. *)
LEMMA UnlinkFirst ==
  ASSUME NEW T, NEW s \in Seq(T), s # <<>>
  PROVE  /\ Tail(s) \in Seq(T) /\ s[1] \in T /\ Head(s) = s[1] /\ In(s[1], s)
         /\ InNode(s[1].task, s)
         /\ Len(Tail(s)) = Len(s) - 1
         /\ \A i \in 1 .. Len(s) - 1 : Tail(s)[i] = s[i + 1]
         /\ Once(s) => Once(Tail(s)) /\ \A x : In(x, Tail(s)) <=> In(x, s) /\ x # s[1]
         /\ OnceNode(s) =>
              OnceNode(Tail(s)) /\ \A x : InNode(x, Tail(s)) <=> InNode(x, s) /\ x # s[1].task
<1> DEFINE r == Tail(s)
<1>1. /\ r \in Seq(T) /\ Len(s) \in Nat \ {0} /\ Len(r) = Len(s) - 1
      /\ \A i \in 1 .. Len(s) - 1 : r[i] = s[i + 1]
      /\ s[1] \in T /\ Head(s) = s[1]
  OBVIOUS
<1> HIDE DEF r
<1>2. /\ \A i \in 1 .. Len(r) : i + 1 \in 1 .. Len(s) /\ i + 1 # 1 /\ r[i] = s[i + 1]
      /\ \A i \in 1 .. Len(s) : i # 1 => i - 1 \in 1 .. Len(r) /\ r[i - 1] = s[i]
      /\ 1 \in 1 .. Len(s)
  <2>1. ASSUME NEW i \in 1 .. Len(s), i # 1 PROVE i - 1 \in 1 .. Len(r) /\ r[i - 1] = s[i]
    <3>1. i - 1 \in 1 .. Len(s) - 1 /\ (i - 1) + 1 = i
      BY <1>1, <2>1
    <3> QED
      BY <1>1, <3>1
  <2> QED
    BY <1>1, <2>1
<1>3. ASSUME Once(s), NEW x PROVE In(x, r) <=> In(x, s) /\ x # s[1]
  <2>1. ASSUME In(x, r) PROVE In(x, s) /\ x # s[1]
    BY <1>2, <1>3, <2>1 DEF In, Once
  <2>2. ASSUME In(x, s), x # s[1] PROVE In(x, r)
    BY <1>2, <2>2 DEF In
  <2> QED
    BY <2>1, <2>2
<1>4. ASSUME OnceNode(s), NEW x PROVE InNode(x, r) <=> InNode(x, s) /\ x # s[1].task
  <2>1. ASSUME InNode(x, r) PROVE InNode(x, s) /\ x # s[1].task
    BY <1>2, <1>4, <2>1 DEF InNode, OnceNode
  <2>2. ASSUME InNode(x, s), x # s[1].task PROVE InNode(x, r)
    BY <1>2, <2>2 DEF InNode
  <2> QED
    BY <2>1, <2>2
<1>5. Once(s) => Once(r)
  <2> SUFFICES ASSUME Once(s), NEW i \in 1 .. Len(r), NEW j \in 1 .. Len(r), r[i] = r[j]
               PROVE  i = j
    BY DEF Once
  <2>1. i + 1 = j + 1
    BY <1>2 DEF Once
  <2> QED
    BY <2>1
<1>6. OnceNode(s) => OnceNode(r)
  <2> SUFFICES ASSUME OnceNode(s), NEW i \in 1 .. Len(r), NEW j \in 1 .. Len(r),
                      r[i].task = r[j].task
               PROVE  i = j
    BY DEF OnceNode
  <2>1. i + 1 = j + 1
    BY <1>2 DEF OnceNode
  <2> QED
    BY <2>1
<1>7. In(s[1], s) /\ InNode(s[1].task, s)
  BY <1>2 DEF In, InNode
<1> QED
  BY <1>1, <1>3, <1>4, <1>5, <1>6, <1>7 DEF r

(* Joining two lists of coroutines. *)
LEMMA JoinTasks ==
  ASSUME NEW T, NEW s \in Seq(T), NEW r \in Seq(T), Once(s), Once(r),
         \A x : ~(In(x, s) /\ In(x, r))
  PROVE  /\ s \o r \in Seq(T)
         /\ \A x : In(x, s \o r) <=> In(x, s) \/ In(x, r)
         /\ Once(s \o r)
<1> DEFINE q == s \o r
<1>1. /\ q \in Seq(T) /\ Len(q) = Len(s) + Len(r) /\ Len(s) \in Nat /\ Len(r) \in Nat
      /\ \A i \in 1 .. Len(s) + Len(r) : q[i] = IF i <= Len(s) THEN s[i] ELSE r[i - Len(s)]
  <2>1. Len(s) \in Nat /\ Len(r) \in Nat
    OBVIOUS
  <2> QED
    BY <2>1, ConcatProperties, Zenon
<1> HIDE DEF q
<1>2. \A i \in 1 .. Len(s) : i \in 1 .. Len(q) /\ q[i] = s[i]
  BY <1>1
<1>3. ASSUME NEW i \in 1 .. Len(r) PROVE Len(s) + i \in 1 .. Len(q) /\ q[Len(s) + i] = r[i]
  <2>1. Len(s) + i \in 1 .. Len(s) + Len(r) /\ ~(Len(s) + i <= Len(s)) /\ (Len(s) + i) - Len(s) = i
    BY <1>1
  <2> QED
    BY <1>1, <2>1
<1>4. ASSUME NEW i \in 1 .. Len(q)
      PROVE  \/ i \in 1 .. Len(s) /\ q[i] = s[i]
             \/ i - Len(s) \in 1 .. Len(r) /\ q[i] = r[i - Len(s)]
  <2>1. CASE i <= Len(s)
    BY <1>1, <2>1
  <2>2. CASE ~(i <= Len(s))
    <3>1. i - Len(s) \in 1 .. Len(r) /\ i \in 1 .. Len(s) + Len(r)
      BY <1>1, <2>2
    <3> QED
      BY <1>1, <2>2, <3>1
  <2> QED
    BY <2>1, <2>2
<1>5. ASSUME NEW x PROVE In(x, q) <=> In(x, s) \/ In(x, r)
  <2>1. ASSUME In(x, q) PROVE In(x, s) \/ In(x, r)
    <3>1. PICK i \in 1 .. Len(q) : q[i] = x
      BY <2>1 DEF In
    <3> QED
      BY <1>4, <3>1 DEF In
  <2>2. ASSUME In(x, s) PROVE In(x, q)
    BY <1>2, <2>2 DEF In
  <2>3. ASSUME In(x, r) PROVE In(x, q)
    <3>1. PICK i \in 1 .. Len(r) : r[i] = x
      BY <2>3 DEF In
    <3>2. Len(s) + i \in 1 .. Len(q) /\ q[Len(s) + i] = x
      BY <1>3, <3>1
    <3> QED
      BY <3>2 DEF In
  <2> QED
    BY <2>1, <2>2, <2>3
<1>6. Once(q)
  <2> SUFFICES ASSUME NEW i \in 1 .. Len(q), NEW j \in 1 .. Len(q), q[i] = q[j]
               PROVE  i = j
    BY DEF Once
  <2>1. CASE i \in 1 .. Len(s) /\ q[i] = s[i] /\ j \in 1 .. Len(s) /\ q[j] = s[j]
    BY <2>1 DEF Once
  <2>2. CASE /\ i - Len(s) \in 1 .. Len(r) /\ q[i] = r[i - Len(s)]
             /\ j - Len(s) \in 1 .. Len(r) /\ q[j] = r[j - Len(s)]
    <3>1. i - Len(s) = j - Len(s)
      BY <2>2 DEF Once
    <3> QED
      BY <1>1, <3>1
  <2>3. CASE i \in 1 .. Len(s) /\ q[i] = s[i] /\ j - Len(s) \in 1 .. Len(r) /\ q[j] = r[j - Len(s)]
    BY <2>3 DEF In
  <2>4. CASE j \in 1 .. Len(s) /\ q[j] = s[j] /\ i - Len(s) \in 1 .. Len(r) /\ q[i] = r[i - Len(s)]
    BY <2>4 DEF In
  <2> QED
    BY <1>4, <2>1, <2>2, <2>3, <2>4
<1> QED
  BY <1>1, <1>5, <1>6 DEF q

(* Joining two lists of nodes. *)
LEMMA JoinLists ==
  ASSUME NEW T, NEW s \in Seq(T), NEW r \in Seq(T), OnceNode(s), OnceNode(r),
         \A x : ~(InNode(x, s) /\ InNode(x, r))
  PROVE  /\ s \o r \in Seq(T)
         /\ \A x : InNode(x, s \o r) <=> InNode(x, s) \/ InNode(x, r)
         /\ OnceNode(s \o r)
<1> DEFINE q == s \o r
<1>1. /\ q \in Seq(T) /\ Len(q) = Len(s) + Len(r) /\ Len(s) \in Nat /\ Len(r) \in Nat
      /\ \A i \in 1 .. Len(s) + Len(r) : q[i] = IF i <= Len(s) THEN s[i] ELSE r[i - Len(s)]
  <2>1. Len(s) \in Nat /\ Len(r) \in Nat
    OBVIOUS
  <2> QED
    BY <2>1, ConcatProperties, Zenon
<1> HIDE DEF q
<1>2. \A i \in 1 .. Len(s) : i \in 1 .. Len(q) /\ q[i] = s[i]
  BY <1>1
<1>3. ASSUME NEW i \in 1 .. Len(r) PROVE Len(s) + i \in 1 .. Len(q) /\ q[Len(s) + i] = r[i]
  <2>1. Len(s) + i \in 1 .. Len(s) + Len(r) /\ ~(Len(s) + i <= Len(s)) /\ (Len(s) + i) - Len(s) = i
    BY <1>1
  <2> QED
    BY <1>1, <2>1
<1>4. ASSUME NEW i \in 1 .. Len(q)
      PROVE  \/ i \in 1 .. Len(s) /\ q[i] = s[i]
             \/ i - Len(s) \in 1 .. Len(r) /\ q[i] = r[i - Len(s)]
  <2>1. CASE i <= Len(s)
    BY <1>1, <2>1
  <2>2. CASE ~(i <= Len(s))
    <3>1. i - Len(s) \in 1 .. Len(r) /\ i \in 1 .. Len(s) + Len(r)
      BY <1>1, <2>2
    <3> QED
      BY <1>1, <2>2, <3>1
  <2> QED
    BY <2>1, <2>2
<1>5. ASSUME NEW x PROVE InNode(x, q) <=> InNode(x, s) \/ InNode(x, r)
  <2>1. ASSUME InNode(x, q) PROVE InNode(x, s) \/ InNode(x, r)
    <3>1. PICK i \in 1 .. Len(q) : q[i].task = x
      BY <2>1 DEF InNode
    <3> QED
      BY <1>4, <3>1 DEF InNode
  <2>2. ASSUME InNode(x, s) PROVE InNode(x, q)
    BY <1>2, <2>2 DEF InNode
  <2>3. ASSUME InNode(x, r) PROVE InNode(x, q)
    <3>1. PICK i \in 1 .. Len(r) : r[i].task = x
      BY <2>3 DEF InNode
    <3>2. Len(s) + i \in 1 .. Len(q) /\ q[Len(s) + i].task = x
      BY <1>3, <3>1
    <3> QED
      BY <3>2 DEF InNode
  <2> QED
    BY <2>1, <2>2, <2>3
<1>6. OnceNode(q)
  <2> SUFFICES ASSUME NEW i \in 1 .. Len(q), NEW j \in 1 .. Len(q), q[i].task = q[j].task
               PROVE  i = j
    BY DEF OnceNode
  <2>1. CASE i \in 1 .. Len(s) /\ q[i] = s[i] /\ j \in 1 .. Len(s) /\ q[j] = s[j]
    BY <2>1 DEF OnceNode
  <2>2. CASE /\ i - Len(s) \in 1 .. Len(r) /\ q[i] = r[i - Len(s)]
             /\ j - Len(s) \in 1 .. Len(r) /\ q[j] = r[j - Len(s)]
    <3>1. i - Len(s) = j - Len(s)
      BY <2>2 DEF OnceNode
    <3> QED
      BY <1>1, <3>1
  <2>3. CASE i \in 1 .. Len(s) /\ q[i] = s[i] /\ j - Len(s) \in 1 .. Len(r) /\ q[j] = r[j - Len(s)]
    BY <2>3 DEF InNode
  <2>4. CASE j \in 1 .. Len(s) /\ q[j] = s[j] /\ i - Len(s) \in 1 .. Len(r) /\ q[i] = r[i - Len(s)]
    BY <2>4 DEF InNode
  <2> QED
    BY <1>4, <2>1, <2>2, <2>3, <2>4
<1> QED
  BY <1>1, <1>5, <1>6 DEF q

(* Unlinking the coroutines S, wherever they are. *)
LEMMA UnlinkTasks ==
  ASSUME NEW T, NEW s \in Seq(T), NEW S
  PROVE  /\ KeepTasks(s, S) \in Seq(T)
         /\ \A x : In(x, KeepTasks(s, S)) <=> In(x, s) /\ x \notin S
         /\ Once(s) => Once(KeepTasks(s, S))
<1> DEFINE I == {i \in 1 .. Len(s) : s[i] \notin S}
           r == KeepTasks(s, S)
<1>1. PICK g \in [1 .. Len(r) -> I] :
        /\ r \in Seq(T)
        /\ \A j \in 1 .. Len(r) : r[j] = s[g[j]]
        /\ \A j, k \in 1 .. Len(r) : j < k => g[j] < g[k]
        /\ \A i \in I : \E j \in 1 .. Len(r) : g[j] = i
  <2>1. I \subseteq 1 .. Len(s) /\ r = Kept(s, I)
    BY DEF KeepTasks
  <2> HIDE DEF I, r
  <2>2. r \in Seq(T) /\ Thinned(r, s, I)
    BY <2>1, KeptProperties
  <2> QED
    BY <2>2 DEF Thinned
<1> HIDE DEF r
<1>2. \A j \in 1 .. Len(r) : g[j] \in I
  BY <1>1
<1>3. ASSUME NEW x PROVE In(x, r) <=> In(x, s) /\ x \notin S
  <2>1. ASSUME In(x, r) PROVE In(x, s) /\ x \notin S
    BY <1>1, <1>2, <2>1 DEF In
  <2>2. ASSUME In(x, s), x \notin S PROVE In(x, r)
    <3>1. PICK i \in I : s[i] = x
      BY <2>2 DEF In
    <3>2. PICK j \in 1 .. Len(r) : g[j] = i
      BY <1>1
    <3> QED
      BY <1>1, <3>1, <3>2 DEF In
  <2> QED
    BY <2>1, <2>2
<1>4. Len(r) \in Nat /\ Len(s) \in Nat
  BY <1>1
<1>5. ASSUME Once(s) PROVE Once(r)
  <2> SUFFICES ASSUME NEW i \in 1 .. Len(r), NEW j \in 1 .. Len(r), r[i] = r[j] PROVE i = j
    BY DEF Once
  <2>1. g[i] = g[j] /\ g[i] \in Nat
    BY <1>1, <1>2, <1>4, <1>5 DEF Once
  <2> QED
    BY <1>1, <1>4, <2>1
<1> QED
  BY <1>1, <1>3, <1>5 DEF r

(* The same for lists of nodes; what was in order stays in order. *)
LEMMA UnlinkNodes ==
  ASSUME NEW T, NEW s \in Seq(T), NEW S
  PROVE  /\ KeepNodes(s, S) \in Seq(T)
         /\ \A x : InNode(x, KeepNodes(s, S)) <=> InNode(x, s) /\ x \notin S
         /\ OnceNode(s) => OnceNode(KeepNodes(s, S))
         /\ Sorted(s) => Sorted(KeepNodes(s, S))
<1> DEFINE I == {i \in 1 .. Len(s) : s[i].task \notin S}
           r == KeepNodes(s, S)
<1>1. PICK g \in [1 .. Len(r) -> I] :
        /\ r \in Seq(T)
        /\ \A j \in 1 .. Len(r) : r[j] = s[g[j]]
        /\ \A j, k \in 1 .. Len(r) : j < k => g[j] < g[k]
        /\ \A i \in I : \E j \in 1 .. Len(r) : g[j] = i
  <2>1. I \subseteq 1 .. Len(s) /\ r = Kept(s, I)
    BY DEF KeepNodes
  <2> HIDE DEF I, r
  <2>2. r \in Seq(T) /\ Thinned(r, s, I)
    BY <2>1, KeptProperties
  <2> QED
    BY <2>2 DEF Thinned
<1> HIDE DEF r
<1>2. \A j \in 1 .. Len(r) : g[j] \in I
  BY <1>1
<1>3. ASSUME NEW x PROVE InNode(x, r) <=> InNode(x, s) /\ x \notin S
  <2>1. ASSUME InNode(x, r) PROVE InNode(x, s) /\ x \notin S
    BY <1>1, <1>2, <2>1 DEF InNode
  <2>2. ASSUME InNode(x, s), x \notin S PROVE InNode(x, r)
    <3>1. PICK i \in I : s[i].task = x
      BY <2>2 DEF InNode
    <3>2. PICK j \in 1 .. Len(r) : g[j] = i
      BY <1>1
    <3> QED
      BY <1>1, <3>1, <3>2 DEF InNode
  <2> QED
    BY <2>1, <2>2
<1>4. Len(r) \in Nat /\ Len(s) \in Nat
  BY <1>1
<1>5. ASSUME OnceNode(s) PROVE OnceNode(r)
  <2> SUFFICES ASSUME NEW i \in 1 .. Len(r), NEW j \in 1 .. Len(r), r[i].task = r[j].task
               PROVE  i = j
    BY DEF OnceNode
  <2>1. g[i] = g[j] /\ g[i] \in Nat
    BY <1>1, <1>2, <1>4, <1>5 DEF OnceNode
  <2> QED
    BY <1>1, <1>4, <2>1
<1>6. ASSUME Sorted(s) PROVE Sorted(r)
  <2> SUFFICES ASSUME NEW i \in 1 .. Len(r), NEW j \in 1 .. Len(r), i < j
               PROVE  r[i].at <= r[j].at
    BY DEF Sorted
  <2>1. g[i] < g[j] /\ g[i] \in 1 .. Len(s) /\ g[j] \in 1 .. Len(s)
    BY <1>1, <1>2
  <2>2. s[g[i]].at <= s[g[j]].at
    BY <2>1, <1>6 DEF Sorted
  <2> QED
    BY <1>1, <2>2
<1> QED
  BY <1>1, <1>3, <1>5, <1>6 DEF r

(* The nodes of a sleepers' list. *)
LEMMA SleepNodes ==
  ASSUME NEW s \in Seq(SleepNode)
  PROVE  Len(s) \in Nat /\ \A i \in 1 .. Len(s) :
                                s[i] \in SleepNode /\ s[i].at \in Nat /\ s[i].task \in Tasks
<1>1. Len(s) \in Nat /\ \A i \in 1 .. Len(s) : s[i] \in SleepNode
  OBVIOUS
<1>2. \A n \in SleepNode : n.at \in Nat /\ n.task \in Tasks
  BY DEF SleepNode
<1> QED
  BY <1>1, <1>2

(* NotLater counts a prefix: those that wake at the given time or before. *)
LEMMA NotLaterPrefix ==
  ASSUME sleeping \in Seq(SleepNode), Sorted(sleeping), NEW at \in Nat
  PROVE  /\ NotLater(at) \in 0 .. Len(sleeping)
         /\ \A i \in 1 .. Len(sleeping) : i <= NotLater(at) <=> sleeping[i].at <= at
<1> DEFINE n == Len(sleeping)
           D == {i \in 1 .. n : sleeping[i].at <= at}
           E == {i \in 1 .. n + 1 : i \notin D}
<1>1. n \in Nat /\ \A i \in 1 .. n : sleeping[i].at \in Nat
  BY SleepNodes
<1>2. n + 1 \in E /\ E \subseteq Nat
  BY <1>1
<1>3. PICK m \in E : \A e \in E : m <= e
  <2> HIDE DEF E
  <2> QED
    BY <1>2, LeastNat
<1>4. m \in 1 .. n + 1 /\ m \notin D
  OBVIOUS
<1>5. ASSUME NEW i \in 1 .. n PROVE i <= m - 1 <=> i \in D
  <2>1. ASSUME i <= m - 1 PROVE i \in D
    <3>1. ~(m <= i) /\ i \in 1 .. n + 1
      BY <1>1, <1>4, <2>1
    <3> QED
      BY <1>3, <3>1
  <2>2. ASSUME i \in D, ~(i <= m - 1) PROVE FALSE
    <3>1. m <= i /\ m # i /\ m \in 1 .. n
      BY <1>1, <1>4, <2>2
    <3>2. sleeping[m].at <= sleeping[i].at
      BY <3>1 DEF Sorted
    <3>3. sleeping[m].at \in Nat /\ sleeping[i].at \in Nat /\ sleeping[i].at <= at
      BY <1>1, <3>1, <2>2
    <3>4. m \in D
      BY <3>1, <3>2, <3>3
    <3> QED
      BY <1>4, <3>4
  <2> QED
    BY <2>1, <2>2
<1>6. D = 1 .. m - 1
  <2>1. \A i \in D : i \in 1 .. n /\ i \in 1 .. m - 1
    BY <1>1, <1>4, <1>5
  <2>2. \A i \in 1 .. m - 1 : i \in D
    BY <1>1, <1>4, <1>5
  <2> HIDE DEF D
  <2> QED
    BY <2>1, <2>2
<1>7. NotLater(at) = m - 1
  <2>1. NotLater(at) = Cardinality(D)
    BY DEF NotLater
  <2>2. Cardinality(1 .. m - 1) = m - 1
    <3>1. 1 \in Int /\ m - 1 \in Int
      BY <1>1, <1>4
    <3>2. Cardinality(1 .. m - 1) = IF 1 > m - 1 THEN 0 ELSE (m - 1) - 1 + 1
      BY <3>1, FS_Interval
    <3> QED
      BY <1>1, <1>4, <3>2
  <2> HIDE DEF D
  <2> QED
    BY <1>6, <2>1, <2>2
<1> QED
  BY <1>1, <1>4, <1>5, <1>7

(* m_sleeping is a multiset by awake time: a new node goes behind those     *)
(* that wake at its time.                                                   *)
LEMMA InsertInOrder ==
  ASSUME sleeping \in Seq(SleepNode), Sorted(sleeping), NEW n \in SleepNode
  PROVE  /\ InsertSleeper(n) \in Seq(SleepNode)
         /\ \A x : InNode(x, InsertSleeper(n)) <=> InNode(x, sleeping) \/ x = n.task
         /\ OnceNode(sleeping) /\ ~InNode(n.task, sleeping) => OnceNode(InsertSleeper(n))
         /\ Sorted(InsertSleeper(n))
<1> DEFINE s == sleeping
           k == NotLater(n.at)
           p == SubSeq(s, 1, k)
           q == SubSeq(s, k + 1, Len(s))
           r == InsertSleeper(n)
<1>1. Len(s) \in Nat /\ n.at \in Nat /\ \A i \in 1 .. Len(s) : s[i] \in SleepNode /\ s[i].at \in Nat
  BY SleepNodes DEF SleepNode
<1>2. k \in 0 .. Len(s) /\ \A i \in 1 .. Len(s) : i <= k <=> s[i].at <= n.at
  BY <1>1, NotLaterPrefix
<1> HIDE DEF k
<1>3. p \in Seq(SleepNode) /\ Len(p) = k /\ \A i \in 1 .. k : p[i] = s[i]
  <2>1. 1 \in Int /\ k \in Int /\ \A i \in 1 .. k : s[i] \in SleepNode
    BY <1>1, <1>2
  <2>2. /\ p \in Seq(SleepNode) /\ Len(p) = IF 1 <= k THEN k - 1 + 1 ELSE 0
        /\ \A i \in 1 .. k - 1 + 1 : p[i] = s[1 + i - 1]
    BY <2>1, SubSeqProperties
  <2> HIDE DEF p, s
  <2>3. \A i \in 1 .. k : i \in 1 .. k - 1 + 1 /\ 1 + i - 1 = i
    BY <2>1
  <2> QED
    BY <1>1, <1>2, <2>2, <2>3
<1>4. /\ q \in Seq(SleepNode) /\ Len(q) = Len(s) - k
      /\ \A i \in 1 .. Len(s) - k : q[i] = s[k + i]
  <2>1. k + 1 \in Int /\ Len(s) \in Int /\ \A i \in k + 1 .. Len(s) : s[i] \in SleepNode
    BY <1>1, <1>2
  <2>2. /\ q \in Seq(SleepNode)
        /\ Len(q) = IF k + 1 <= Len(s) THEN Len(s) - (k + 1) + 1 ELSE 0
        /\ \A i \in 1 .. Len(s) - (k + 1) + 1 : q[i] = s[(k + 1) + i - 1]
    BY <2>1, SubSeqProperties
  <2> HIDE DEF q, s
  <2>3. \A i \in 1 .. Len(s) - k : i \in 1 .. Len(s) - (k + 1) + 1 /\ (k + 1) + i - 1 = k + i
    BY <1>1, <1>2
  <2> QED
    BY <1>1, <1>2, <2>2, <2>3
<1>5. r = (p \o <<n>>) \o q
  BY DEF InsertSleeper, k
<1> HIDE DEF r, p, q
<1>6. /\ p \o <<n>> \in Seq(SleepNode) /\ Len(p \o <<n>>) = k + 1
      /\ (p \o <<n>>)[k + 1] = n
      /\ \A i \in 1 .. k : (p \o <<n>>)[i] = s[i]
  BY <1>1, <1>2, <1>3
<1> DEFINE pn == p \o <<n>>
<1> HIDE DEF pn
<1>7. /\ r \in Seq(SleepNode) /\ Len(r) = (k + 1) + (Len(s) - k)
      /\ \A i \in 1 .. (k + 1) + (Len(s) - k) :
           r[i] = IF i <= k + 1 THEN pn[i] ELSE q[i - (k + 1)]
  <2>1. /\ pn \o q \in Seq(SleepNode) /\ Len(pn \o q) = Len(pn) + Len(q)
        /\ \A i \in 1 .. Len(pn) + Len(q) :
             (pn \o q)[i] = IF i <= Len(pn) THEN pn[i] ELSE q[i - Len(pn)]
    <3>1. pn \in Seq(SleepNode) /\ q \in Seq(SleepNode)
      BY <1>4, <1>6 DEF pn
    <3> QED
      BY <3>1, ConcatProperties, Zenon
  <2> QED
    BY <1>4, <1>5, <1>6, <2>1 DEF pn
<1>8. Len(r) = Len(s) + 1
  BY <1>1, <1>2, <1>7
<1>9. ASSUME NEW i \in 1 .. k PROVE i \in 1 .. Len(r) /\ i \in 1 .. Len(s) /\ r[i] = s[i]
  BY <1>1, <1>2, <1>6, <1>7, <1>8 DEF pn
<1>10. k + 1 \in 1 .. Len(r) /\ r[k + 1] = n
  <2>1. k + 1 \in 1 .. (k + 1) + (Len(s) - k) /\ k + 1 <= k + 1
    BY <1>1, <1>2
  <2>2. r[k + 1] = pn[k + 1]
    BY <1>7, <2>1
  <2> QED
    BY <1>6, <1>7, <2>1, <2>2 DEF pn
<1>11. ASSUME NEW i \in k + 1 .. Len(s)
       PROVE  i \in 1 .. Len(s) /\ i + 1 \in 1 .. Len(r) /\ r[i + 1] = s[i]
  <2>1. /\ i + 1 \in 1 .. (k + 1) + (Len(s) - k) /\ ~(i + 1 <= k + 1)
        /\ (i + 1) - (k + 1) \in 1 .. Len(s) - k /\ k + ((i + 1) - (k + 1)) = i
    BY <1>1, <1>2
  <2> QED
    BY <1>1, <1>2, <1>4, <1>7, <1>8, <2>1
<1>12. ASSUME NEW i \in 1 .. Len(r)
       PROVE  \/ i \in 1 .. k
              \/ i = k + 1
              \/ i - 1 \in k + 1 .. Len(s) /\ (i - 1) + 1 = i /\ r[i] = s[i - 1]
  <2>1. CASE i <= k + 1
    BY <1>1, <1>2, <1>8, <2>1
  <2>2. CASE ~(i <= k + 1)
    <3>1. i - 1 \in k + 1 .. Len(s) /\ (i - 1) + 1 = i
      BY <1>1, <1>2, <1>8, <2>2
    <3> QED
      BY <1>11, <3>1
  <2> QED
    BY <2>1, <2>2
<1>13. \A i \in 1 .. Len(s) : i \in 1 .. k \/ i \in k + 1 .. Len(s)
  BY <1>1, <1>2
<1> HIDE DEF s
<1>14. ASSUME NEW x PROVE InNode(x, r) <=> InNode(x, s) \/ x = n.task
  <2>1. ASSUME InNode(x, r) PROVE InNode(x, s) \/ x = n.task
    <3>1. PICK i \in 1 .. Len(r) : r[i].task = x
      BY <2>1 DEF InNode
    <3> QED
      BY <1>9, <1>10, <1>11, <1>12, <3>1 DEF InNode
  <2>2. ASSUME InNode(x, s) PROVE InNode(x, r)
    BY <1>9, <1>11, <1>13, <2>2 DEF InNode
  <2>3. InNode(n.task, r)
    BY <1>10 DEF InNode
  <2> QED
    BY <2>1, <2>2, <2>3
<1>15. ASSUME OnceNode(s), ~InNode(n.task, s) PROVE OnceNode(r)
  <2> SUFFICES ASSUME NEW i \in 1 .. Len(r), NEW j \in 1 .. Len(r), r[i].task = r[j].task
               PROVE  i = j
    BY DEF OnceNode
  <2> DEFINE Old(a) == IF a \in 1 .. k THEN a ELSE a - 1
  <2>1. ASSUME NEW a \in 1 .. Len(r), a # k + 1
        PROVE  Old(a) \in 1 .. Len(s) /\ r[a] = s[Old(a)] /\ a \in Int /\ Old(a) \in Int
               /\ (Old(a) <= k <=> a <= k) /\ Old(a) = IF a <= k THEN a ELSE a - 1
    <3>1. CASE a \in 1 .. k
      BY <1>1, <1>2, <1>9, <3>1
    <3>2. CASE a \notin 1 .. k
      <4>1. a - 1 \in k + 1 .. Len(s) /\ r[a] = s[a - 1]
        BY <1>12, <2>1, <3>2
      <4> QED
        BY <1>1, <1>2, <1>11, <3>2, <4>1
    <3> QED
      BY <3>1, <3>2
  <2> HIDE DEF Old
  <2>2. CASE i = k + 1 \/ j = k + 1
    <3>1. ASSUME NEW a \in 1 .. Len(r), a # k + 1 PROVE r[a].task # n.task
      BY <1>15, <2>1, <3>1 DEF InNode
    <3> QED
      BY <1>10, <2>2, <3>1
  <2>3. CASE i # k + 1 /\ j # k + 1
    <3>1. Old(i) = Old(j)
      BY <1>15, <2>1, <2>3 DEF OnceNode
    <3> QED
      BY <1>2, <2>1, <2>3, <3>1
  <2> QED
    BY <2>2, <2>3
<1>16. Sorted(r)
  <2> SUFFICES ASSUME NEW i \in 1 .. Len(r), NEW j \in 1 .. Len(r), i < j
               PROVE  r[i].at <= r[j].at
    BY DEF Sorted
  <2>0. Sorted(s)
    BY DEF s
  <2>1. CASE i \in 1 .. k
    <3>1. i \in 1 .. Len(s) /\ r[i] = s[i] /\ s[i].at <= n.at /\ i <= k
      BY <1>2, <1>9, <2>1 DEF s
    <3>2. CASE j \in 1 .. k
      BY <1>9, <2>0, <2>1, <3>1, <3>2 DEF Sorted
    <3>3. CASE j = k + 1
      BY <1>10, <3>1, <3>3
    <3>4. CASE j - 1 \in k + 1 .. Len(s) /\ r[j] = s[j - 1]
      <4>1. j - 1 \in 1 .. Len(s) /\ i < j - 1
        BY <1>2, <1>11, <3>1, <3>4
      <4> QED
        BY <2>0, <3>1, <3>4, <4>1 DEF Sorted
    <3> QED
      BY <1>12, <3>2, <3>3, <3>4
  <2>2. CASE i = k + 1
    <3>1. j - 1 \in k + 1 .. Len(s) /\ r[j] = s[j - 1]
      BY <1>1, <1>2, <1>12, <2>2
    <3>2. j - 1 \in 1 .. Len(s) /\ ~(j - 1 <= k)
      BY <1>1, <1>2, <3>1
    <3>3. ~(s[j - 1].at <= n.at) /\ s[j - 1].at \in Nat
      BY <1>1, <1>2, <3>2 DEF s
    <3> QED
      BY <1>1, <1>10, <2>2, <3>1, <3>3
  <2>3. CASE i - 1 \in k + 1 .. Len(s) /\ r[i] = s[i - 1]
    <3>1. j - 1 \in k + 1 .. Len(s) /\ r[j] = s[j - 1]
      BY <1>1, <1>2, <1>12, <2>3
    <3>2. i - 1 \in 1 .. Len(s) /\ j - 1 \in 1 .. Len(s) /\ i - 1 < j - 1
      BY <1>1, <1>2, <2>3, <3>1
    <3> QED
      BY <2>0, <2>3, <3>1, <3>2 DEF Sorted
  <2> QED
    BY <1>12, <2>1, <2>2, <2>3
<1> QED
  BY <1>7, <1>14, <1>15, <1>16 DEF r, s

-----------------------------------------------------------------------------
(* The inductive invariant.                                                 *)

Awaits(t) == \E c \in Tasks : waiter[c] = t

(* Every hook is linked at most once. *)
HooksOnce ==
  /\ Once(stack) /\ Once(ready) /\ Once(gcList)
  /\ OnceNode(sleeping) /\ OnceNode(polled) /\ OnceNode(batch)
  /\ \A t \in parked : ~In(t, ready)

(* What has been, or can be, scheduled by another coroutine. *)
Queued(t) == In(t, ready) \/ t \in parked

(* Exactly one of six if so, else none of them. *)
OneIf(so, a, b, c, d, e, f) ==
  /\ so <=> a \/ b \/ c \/ d \/ e \/ f
  /\ a => ~(b \/ c \/ d \/ e \/ f)
  /\ b => ~(c \/ d \/ e \/ f)
  /\ c => ~(d \/ e \/ f)
  /\ d => ~(e \/ f)
  /\ e => ~f

(* OnePlace without counting. *)
Placed ==
  \A t \in Tasks :
    OneIf(life[t] = "live", In(t, stack), Queued(t), InNode(t, sleeping),
          InNode(t, polled), InNode(t, batch), Awaits(t))

(* A coroutine awaits one of its own, and only one; f and w stand for life  *)
(* and waiter, as in Destroy.                                               *)
WaitersIn(f, w) ==
  /\ \A c \in Tasks : w[c] # None => f[c] = "live" /\ owner[c] = w[c]
  /\ \A c, d \in Tasks : w[c] # None /\ w[c] = w[d] => c = d

Waiters == WaitersIn(life, waiter)

(* A Fut is in a frame that is still allocated; what has a frame and no     *)
(* owner is a background coroutine or one the handler called itself.        *)
FamiliesIn(f) ==
  /\ \A t \in Tasks : f[t] \in {"unborn", "freed"} => owner[t] = None
  /\ \A t \in Tasks : owner[t] # None =>
       f[owner[t]] \in {"live", "done"} /\ t \notin {Main, Reporter} /\ t \notin background
  /\ \A t \in Tasks : f[t] \in {"live", "done", "failed"} =>
       owner[t] # None \/ t \in background \/ t \in {Main, Reporter}
  /\ \A t \in background : f[t] \in {"live", "done"} /\ t \notin {Main, Reporter}

Families == FamiliesIn(life)

(* The frames form trees: some coroutine of every set is not owned by one   *)
(* of the set, and some coroutine owns none of the set.                     *)
Forest ==
  /\ \A U \in SUBSET Tasks : U # {} => \E t \in U : owner[t] \notin U
  /\ \A U \in SUBSET Tasks : U # {} => \E t \in U : \A c \in U : owner[c] # t

(* U has with a coroutine everything that it owns. *)
Below(U) == \A t \in Tasks : owner[t] \in U => t \in U

(* What runs on top of a coroutine does not own it, directly or not; and    *)
(* only the innermost call of the event loop is awaited.                    *)
StackOrder ==
  /\ \A i, j \in 1 .. Len(stack) :
       i < j => \E U \in SUBSET Tasks : Below(U) /\ stack[j] \in U /\ stack[i] \notin U
  /\ \A i \in 2 .. Len(stack) : waiter[stack[i]] = None

(* What the signal handler has made of its two coroutines. *)
Handler ==
  /\ mode = "main" => life[Main] \in {"live", "done"} /\ life[Reporter] = "unborn"
  /\ mode # "main" => life[Main] = "freed"
  /\ mode = "report" => life[Reporter] \in {"live", "done", "failed"}
  /\ mode \in {"drain", "exit", "aborted"} => life[Reporter] \in {"unborn", "freed"}
  /\ mode \in {"exit", "aborted"} => stack = <<>> /\ batch = <<>>
  /\ phase # "dispatch" => batch = <<>>

(* gc() will find the finished background coroutines. *)
Garbage == \A t \in Tasks : In(t, gcList) <=> t \in background /\ life[t] = "done"

(* The clock, and the order of m_sleeping. *)
Times == now <= MaxTime /\ sampled <= now /\ Sorted(sleeping)

IInv ==
  /\ TypeOK /\ HooksOnce /\ Placed /\ Waiters /\ Families /\ Forest /\ StackOrder
  /\ Handler /\ Garbage /\ Times

-----------------------------------------------------------------------------
(* What the invariant says of the properties.                               *)

(* Counting the elements of a list without duplicates. *)
LEMMA CountOnce ==
  ASSUME NEW T, NEW s \in Seq(T)
  PROVE  /\ Once(s) => Cardinality(Elems(s)) = Len(s)
         /\ OnceNode(s) => Cardinality(TasksOf(s)) = Len(s)
<1>1. Len(s) \in Nat
  OBVIOUS
<1>2. IsFiniteSet(1 .. Len(s)) /\ Cardinality(1 .. Len(s)) = Len(s)
  <2>1. /\ IsFiniteSet(1 .. Len(s))
        /\ Cardinality(1 .. Len(s)) = IF 1 > Len(s) THEN 0 ELSE Len(s) - 1 + 1
    BY <1>1, FS_Interval
  <2> QED
    BY <1>1, <2>1
<1>3. ASSUME Once(s) PROVE Cardinality(Elems(s)) = Len(s)
  <2> DEFINE f == [i \in 1 .. Len(s) |-> s[i]]
  <2>1. f \in Bijection(1 .. Len(s), Elems(s))
    BY <1>3 DEF Once, Elems, Bijection, Injection, Surjection, IsInjective
  <2>2. Cardinality(Elems(s)) = Cardinality(1 .. Len(s))
    BY <1>2, <2>1, FS_Bijection DEF ExistsBijection
  <2> QED
    BY <1>2, <2>2
<1>4. ASSUME OnceNode(s) PROVE Cardinality(TasksOf(s)) = Len(s)
  <2> DEFINE f == [i \in 1 .. Len(s) |-> s[i].task]
  <2>1. f \in Bijection(1 .. Len(s), TasksOf(s))
    BY <1>4 DEF OnceNode, Elems, TasksOf, Bijection, Injection, Surjection, IsInjective
  <2>2. Cardinality(TasksOf(s)) = Cardinality(1 .. Len(s))
    BY <1>2, <2>1, FS_Bijection DEF ExistsBijection
  <2> QED
    BY <1>2, <2>2
<1> QED
  BY <1>3, <1>4

(* Membership in the sets of OnePlace. *)
LEMMA Members ==
  ASSUME NEW t, NEW s
  PROVE  /\ In(t, s) <=> t \in Elems(s)
         /\ InNode(t, s) <=> t \in TasksOf(s)
BY DEF In, InNode, Elems, TasksOf

(* IInv counts as OnePlace does. *)
LEMMA InvOnePlace ==
  ASSUME IInv
  PROVE  OnePlace
<1> USE DEF IInv
<1>1. NoRepeats(stack) /\ NoRepeats(ready) /\ NoRepeats(gcList)
  BY CountOnce DEF NoRepeats, HooksOnce, TypeOK
<1>2. /\ Cardinality(TasksOf(sleeping)) = Len(sleeping)
      /\ Cardinality(TasksOf(polled)) = Len(polled)
      /\ Cardinality(TasksOf(batch)) = Len(batch)
  BY CountOnce DEF HooksOnce, TypeOK
<1>3. ASSUME NEW t \in Tasks
      PROVE  Cardinality({p \in DOMAIN Places(t) : Places(t)[p]}) = IF life[t] = "live" THEN 1 ELSE 0
  <2> DEFINE a == t \in Elems(stack)
             b == t \in Elems(ready)
             c == t \in TasksOf(sleeping)
             d == t \in TasksOf(polled)
             e == t \in TasksOf(batch)
             g == t \in parked
             f == \E x \in Tasks : waiter[x] = t /\ life[x] = "live"
  <2>0. /\ a \in BOOLEAN /\ b \in BOOLEAN /\ c \in BOOLEAN /\ d \in BOOLEAN
        /\ e \in BOOLEAN /\ g \in BOOLEAN /\ f \in BOOLEAN
    OBVIOUS
  <2>1. Awaits(t) <=> f
    BY ReactorAssumption DEF Awaits, Waiters, WaitersIn
  <2>2. /\ In(t, stack) <=> a
        /\ Queued(t) <=> b \/ g
        /\ g => ~b
        /\ InNode(t, sleeping) <=> c
        /\ InNode(t, polled) <=> d
        /\ InNode(t, batch) <=> e
    BY Members DEF Queued, HooksOnce
  <2>3. Places(t) = [running |-> a, ready |-> b, sleeping |-> c, polled |-> d, batch |-> e,
                     parked |-> g, awaiting |-> f]
    BY DEF Places
  <2> HIDE DEF a, b, c, d, e, f, g
  <2>4. /\ a => ~(b \/ c \/ d \/ e \/ g \/ f)
        /\ b => ~(c \/ d \/ e \/ g \/ f)
        /\ c => ~(d \/ e \/ g \/ f)
        /\ d => ~(e \/ g \/ f)
        /\ e => ~(g \/ f)
        /\ g => ~f
        /\ life[t] = "live" <=> a \/ b \/ c \/ d \/ e \/ g \/ f
    BY <2>1, <2>2, Zenon DEF Placed, OneIf
  <2> DEFINE r == Places(t)
             P == {p \in DOMAIN r : r[p]}
  <2>5. DOMAIN r = {"running", "ready", "sleeping", "polled", "batch", "parked", "awaiting"}
    BY <2>3
  <2>6. /\ r["running"] = a /\ r["ready"] = b /\ r["sleeping"] = c
        /\ r["polled"] = d /\ r["batch"] = e /\ r["parked"] = g /\ r["awaiting"] = f
    BY <2>3
  <2> HIDE DEF r
  <2>7. ASSUME NEW p, P = {p} PROVE Cardinality(P) = 1
    BY <2>7, FS_Singleton
  <2>8. CASE a
    <3>1. P = {"running"}
      BY <2>0, <2>4, <2>5, <2>6, <2>8
    <3> QED
      BY <2>4, <2>7, <2>8, <3>1 DEF r
  <2>9. CASE b
    <3>1. P = {"ready"}
      BY <2>0, <2>4, <2>5, <2>6, <2>9
    <3> QED
      BY <2>4, <2>7, <2>9, <3>1 DEF r
  <2>10. CASE c
    <3>1. P = {"sleeping"}
      BY <2>0, <2>4, <2>5, <2>6, <2>10
    <3> QED
      BY <2>4, <2>7, <2>10, <3>1 DEF r
  <2>11. CASE d
    <3>1. P = {"polled"}
      BY <2>0, <2>4, <2>5, <2>6, <2>11
    <3> QED
      BY <2>4, <2>7, <2>11, <3>1 DEF r
  <2>12. CASE e
    <3>1. P = {"batch"}
      BY <2>0, <2>4, <2>5, <2>6, <2>12
    <3> QED
      BY <2>4, <2>7, <2>12, <3>1 DEF r
  <2>13. CASE g
    <3>1. P = {"parked"}
      BY <2>0, <2>4, <2>5, <2>6, <2>13
    <3> QED
      BY <2>4, <2>7, <2>13, <3>1 DEF r
  <2>14. CASE f
    <3>1. P = {"awaiting"}
      BY <2>0, <2>4, <2>5, <2>6, <2>14
    <3> QED
      BY <2>4, <2>7, <2>14, <3>1 DEF r
  <2>15. CASE ~(a \/ b \/ c \/ d \/ e \/ g \/ f)
    <3>1. P = {}
      BY <2>5, <2>6, <2>15
    <3> QED
      BY <2>4, <2>15, <3>1, FS_EmptySet DEF r
  <2> QED
    BY <2>8, <2>9, <2>10, <2>11, <2>12, <2>13, <2>14, <2>15
<1>4. \A t, c \in Tasks : waiter[c] = t => life[c] = "live" /\ life[t] = "live"
  <2> SUFFICES ASSUME NEW t \in Tasks, NEW c \in Tasks, waiter[c] = t
               PROVE  life[c] = "live" /\ life[t] = "live"
    OBVIOUS
  <2>1. Awaits(t)
    BY DEF Awaits
  <2>2. life[t] = "live"
    BY <2>1 DEF Placed, OneIf
  <2> QED
    BY <2>2, ReactorAssumption DEF Waiters, WaitersIn
<1>5. Elems(gcList) = {t \in background : life[t] = "done"}
  <2>1. \A t \in Elems(gcList) : t \in Tasks
    BY DEF Elems, TypeOK
  <2>2. \A t \in background : t \in Tasks
    BY DEF TypeOK
  <2>3. \A t \in Tasks : t \in Elems(gcList) <=> t \in background /\ life[t] = "done"
    BY Members DEF Garbage
  <2> QED
    BY <2>1, <2>2, <2>3
<1> QED
  BY <1>1, <1>2, <1>3, <1>4, <1>5 DEF OnePlace

-----------------------------------------------------------------------------
(* Ownership.                                                               *)

(* A freed coroutine has no owner, so that Closed need not look at life. *)
LEMMA ClosedBelow ==
  ASSUME TypeOK, Families, NEW U \in SUBSET Tasks
  PROVE  Closed(U) <=> Below(U)
<1>1. None \notin U
  BY ReactorAssumption
<1> QED
  BY <1>1 DEF Closed, Below, Families, FamiliesIn

(* Subtree(R) is the least set that has R and what is owned by the set. *)
LEMMA SubtreeProperties ==
  ASSUME TypeOK, Families, NEW R \in SUBSET Tasks
  PROVE  /\ Subtree(R) \in SUBSET Tasks
         /\ R \subseteq Subtree(R)
         /\ Below(Subtree(R))
         /\ \A U \in SUBSET Tasks : R \subseteq U /\ Below(U) => Subtree(R) \subseteq U
         /\ \A c \in Subtree(R) : c \notin R => owner[c] \in Subtree(R)
<1> DEFINE S == Subtree(R)
<1>1. S \in SUBSET Tasks /\ R \subseteq S
  BY DEF Subtree
<1>2. ASSUME NEW U \in SUBSET Tasks, R \subseteq U, Below(U) PROVE S \subseteq U
  BY <1>2, ClosedBelow DEF Subtree
<1>3. Below(S)
  <2> SUFFICES ASSUME NEW t \in Tasks, owner[t] \in S,
                      NEW U \in SUBSET Tasks, R \subseteq U, Closed(U)
               PROVE  t \in U
    BY DEF Below, Subtree
  <2>1. owner[t] \in U
    BY DEF Subtree
  <2>2. Below(U)
    BY ClosedBelow
  <2> QED
    BY <2>1, <2>2 DEF Below
<1> HIDE DEF S
<1>4. ASSUME NEW c \in S, c \notin R, owner[c] \notin S PROVE FALSE
  <2> DEFINE U == S \ {c}
  <2>1. U \in SUBSET Tasks /\ R \subseteq U
    BY <1>1, <1>4
  <2>2. Below(U)
    BY <1>1, <1>3, <1>4 DEF Below
  <2> HIDE DEF U
  <2>3. S \subseteq U
    BY <1>2, <2>1, <2>2
  <2> QED
    BY <2>3 DEF U
<1> QED
  BY <1>1, <1>2, <1>3, <1>4 DEF S

(* With no coroutine running and none that sleeps or polls, below an        *)
(* unfinished one is one that is ready or waits outside the lists: each of  *)
(* the others would await one it owns, and so on without end.               *)
LEMMA WaitsBelow ==
  ASSUME IInv, stack = <<>>, sleeping = <<>>, polled = <<>>, batch = <<>>,
         NEW r \in Tasks, life[r] = "live"
  PROVE  \E t \in Subtree({r}) : Queued(t)
<1> DEFINE S == Subtree({r})
           L == {t \in S : life[t] = "live"}
<1>1. S \in SUBSET Tasks /\ r \in S /\ Below(S)
  BY SubtreeProperties DEF IInv
<1> HIDE DEF S
<1>2. L \in SUBSET Tasks /\ L # {}
  BY <1>1
<1>3. PICK t \in L : \A c \in L : owner[c] # t
  <2> HIDE DEF L
  <2> QED
    BY <1>2 DEF IInv, Forest
<1>4. t \in Tasks /\ t \in S /\ life[t] = "live"
  BY <1>1
<1>5. /\ \A x : ~In(x, stack)
      /\ \A x : ~InNode(x, sleeping) /\ ~InNode(x, polled) /\ ~InNode(x, batch)
  BY DEF In, InNode
<1>6. ASSUME Awaits(t) PROVE FALSE
  <2>1. PICK c \in Tasks : waiter[c] = t
    BY <1>6 DEF Awaits
  <2>2. waiter[c] # None
    BY <1>4, <2>1, ReactorAssumption
  <2>3. life[c] = "live" /\ owner[c] = t
    BY <2>1, <2>2 DEF IInv, Waiters, WaitersIn
  <2>4. c \in S
    BY <1>1, <1>4, <2>3 DEF Below
  <2> QED
    BY <1>3, <2>3, <2>4
<1>7. Queued(t)
  BY <1>4, <1>5, <1>6 DEF IInv, Placed, OneIf
<1> QED
  BY <1>4, <1>7 DEF S

(* The main coroutine, or the reporter, is unfinished: below it is one in a *)
(* list, or one that waits outside them.                                    *)
LEMMA InvSomethingToProcess ==
  ASSUME IInv
  PROVE  SomethingToProcess
<1> SUFFICES ASSUME LoopAt("start"), LoopContinues, ~HasActiveTasks PROVE BlockedOutside
  BY DEF SomethingToProcess
<1>1. stack = <<>> /\ batch = <<>> /\ ready = <<>> /\ sleeping = <<>> /\ polled = <<>>
  BY DEF LoopAt, HasActiveTasks, IInv, Handler
<1>2. BlockedOn \in Tasks /\ life[BlockedOn] = "live"
  BY ReactorAssumption DEF BlockedOn, LoopContinues, Completed, IInv, Handler
<1>3. PICK t \in Subtree({BlockedOn}) : Queued(t)
  BY <1>1, <1>2, WaitsBelow
<1>4. t \in parked
  BY <1>1, <1>3 DEF Queued, In
<1> QED
  BY <1>3, <1>4 DEF BlockedOutside

(* What draining leaves, once no background coroutine is finished: from     *)
(* any coroutine the owners lead to a background one, and below that one is *)
(* one that waits, or was scheduled too late.                               *)
LEMMA OnlyStuckLeft ==
  ASSUME IInv, mode = "exit", sleeping = <<>>, polled = <<>>, gcList = <<>>
  PROVE  NothingLeft
<1>1. /\ stack = <<>> /\ life[Main] = "freed" /\ life[Reporter] \in {"unborn", "freed"}
      /\ TypeOK /\ Families /\ Forest
  BY DEF IInv, Handler
<1>2. batch = <<>>
  BY DEF IInv, Handler
<1> SUFFICES ASSUME NEW t \in Tasks, life[t] \notin {"unborn", "freed"}
             PROVE  \E b \in background :
                      /\ t \in Subtree({b})
                      /\ \E u \in parked \cup Elems(ready) : u \in Subtree({b})
  BY DEF NothingLeft
<1>3. \A b \in background :
        b \in Tasks /\ b \in Subtree({b}) /\ Below(Subtree({b}))
  <2> SUFFICES ASSUME NEW b \in background
               PROVE  b \in Tasks /\ b \in Subtree({b}) /\ Below(Subtree({b}))
    OBVIOUS
  <2>1. {b} \in SUBSET Tasks
    BY <1>1 DEF TypeOK
  <2> QED
    BY <1>1, <2>1, SubtreeProperties
<1> DEFINE U == {x \in Tasks : /\ life[x] \notin {"unborn", "freed"}
                               /\ \A b \in background : x \notin Subtree({b})}
<1>4. U = {}
  <2> SUFFICES ASSUME U # {} PROVE FALSE
    OBVIOUS
  <2>1. PICK x \in U : owner[x] \notin U
    BY <1>1 DEF Forest
  <2>2. /\ x \in Tasks /\ x \notin {Main, Reporter} /\ x \notin background
        /\ life[x] \in {"live", "done", "failed"}
    BY <1>1, <1>3 DEF TypeOK, Lives
  <2>3. owner[x] # None /\ owner[x] \in Tasks /\ life[owner[x]] \in {"live", "done"}
    BY <1>1, <2>2 DEF Families, FamiliesIn, TypeOK
  <2>4. PICK b \in background : owner[x] \in Subtree({b})
    BY <2>1, <2>3
  <2>5. x \in Subtree({b})
    BY <1>3, <2>2, <2>4 DEF Below
  <2> QED
    BY <2>5
<1>5. PICK b \in background : t \in Subtree({b})
  BY <1>4
<1>6. ~In(b, gcList) /\ life[b] \in {"live", "done"} /\ b \in Tasks
  <2>1. b \in Tasks
    BY <1>3
  <2>2. ~In(b, gcList)
    BY DEF In
  <2>3. life[b] \in {"live", "done"}
    BY <1>1 DEF Families, FamiliesIn
  <2> QED
    BY <2>1, <2>2, <2>3
<1>7. life[b] = "live"
  BY <1>6 DEF IInv, Garbage
<1>8. PICK u \in Subtree({b}) : Queued(u)
  BY <1>1, <1>2, <1>6, <1>7, WaitsBelow
<1>9. u \in parked \cup Elems(ready)
  BY <1>8, Members DEF Queued
<1> QED
  BY <1>5, <1>8, <1>9

(* No coroutine is below what it owns. *)
LEMMA NotBelowItself ==
  ASSUME TypeOK, Families, Forest, NEW t \in Tasks, NEW R \in SUBSET Tasks,
         \A c \in R : owner[c] = t
  PROVE  t \notin Subtree(R)
<1> SUFFICES ASSUME t \in Subtree(R) PROVE FALSE
  OBVIOUS
<1> DEFINE S == Subtree(R)
<1>1. S \in SUBSET Tasks /\ \A c \in S : c \notin R => owner[c] \in S
  BY SubtreeProperties
<1> HIDE DEF S
<1>2. t \in S
  BY DEF S
<1>3. PICK c \in S : owner[c] \notin S
  BY <1>1, <1>2 DEF Forest
<1> QED
  BY <1>1, <1>2, <1>3

(* When owners are only forgotten, the frames still form trees and what was *)
(* below a coroutine still is.                                              *)
LEMMA FewerOwners ==
  ASSUME Forest, \A t \in Tasks : owner'[t] \in {owner[t], None}
  PROVE  /\ Forest'
         /\ \A U \in SUBSET Tasks : Below(U) => Below(U)'
<1>0. \A U \in SUBSET Tasks : None \notin U
  BY ReactorAssumption
<1>1. ASSUME NEW U \in SUBSET Tasks, U # {} PROVE \E t \in U : owner'[t] \notin U
  <2>1. PICK t \in U : owner[t] \notin U
    BY <1>1 DEF Forest
  <2> QED
    BY <1>0, <2>1
<1>2. ASSUME NEW U \in SUBSET Tasks, U # {} PROVE \E t \in U : \A c \in U : owner'[c] # t
  <2>1. PICK t \in U : \A c \in U : owner[c] # t
    BY <1>2 DEF Forest
  <2> QED
    BY <1>0, <2>1
<1>3. ASSUME NEW U \in SUBSET Tasks, Below(U) PROVE Below(U)'
  BY <1>0, <1>3 DEF Below
<1> QED
  BY <1>1, <1>2, <1>3 DEF Forest

(* A coroutine that had no owner and owned nothing gets an owner. *)
LEMMA NewOwner ==
  ASSUME TypeOK, Forest, NEW c \in Tasks, NEW t \in Tasks, c # t,
         owner[c] = None, \A x \in Tasks : owner[x] # c,
         owner' = [owner EXCEPT ![c] = t]
  PROVE  /\ Forest'
         /\ \A U \in SUBSET Tasks : Below(U) => Below(U \cup {c})'
<1>0. /\ \A x \in Tasks : owner'[x] = IF x = c THEN t ELSE owner[x]
      /\ \A U \in SUBSET Tasks : None \notin U
  BY ReactorAssumption DEF TypeOK
<1>1. ASSUME NEW U \in SUBSET Tasks, U # {} PROVE \E x \in U : owner'[x] \notin U
  <2>1. CASE U = {c}
    BY <1>0, <2>1
  <2>2. CASE U # {c}
    <3>1. U \ {c} \in SUBSET Tasks /\ U \ {c} # {}
      BY <1>1, <2>2
    <3>2. PICK x \in U \ {c} : owner[x] \notin U \ {c}
      BY <3>1 DEF Forest
    <3> QED
      BY <1>0, <3>2
  <2> QED
    BY <2>1, <2>2
<1>2. ASSUME NEW U \in SUBSET Tasks, U # {} PROVE \E x \in U : \A y \in U : owner'[y] # x
  <2>1. CASE c \in U
    BY <1>0, <2>1
  <2>2. CASE c \notin U
    <3>1. PICK x \in U : \A y \in U : owner[y] # x
      BY <1>2 DEF Forest
    <3> QED
      BY <1>0, <2>2, <3>1
  <2> QED
    BY <2>1, <2>2
<1>3. ASSUME NEW U \in SUBSET Tasks, Below(U) PROVE Below(U \cup {c})'
  BY <1>0, <1>3 DEF Below
<1> QED
  BY <1>1, <1>2, <1>3 DEF Forest

(* A coroutine that had no owner and owned nothing becomes the owner of G. *)
LEMMA NewParent ==
  ASSUME TypeOK, Forest, NEW b \in Tasks, NEW G \in SUBSET Tasks, b \notin G,
         owner[b] = None, \A x \in Tasks : owner[x] # b,
         owner' = [x \in Tasks |-> IF x \in G THEN b ELSE owner[x]]
  PROVE  /\ Forest'
         /\ \A U \in SUBSET Tasks : Below(U) => Below(U \ {b})'
         /\ \A U \in SUBSET Tasks : Below(U) /\ G \subseteq U => Below(U \cup {b})'
<1>0. /\ \A x \in Tasks : owner'[x] = IF x \in G THEN b ELSE owner[x]
      /\ \A U \in SUBSET Tasks : None \notin U
  BY ReactorAssumption DEF TypeOK
<1>1. ASSUME NEW U \in SUBSET Tasks, U # {} PROVE \E x \in U : owner'[x] \notin U
  <2>1. CASE b \in U
    BY <1>0, <2>1
  <2>2. CASE b \notin U
    <3>1. PICK x \in U : owner[x] \notin U
      BY <1>1 DEF Forest
    <3> QED
      BY <1>0, <2>2, <3>1
  <2> QED
    BY <2>1, <2>2
<1>2. ASSUME NEW U \in SUBSET Tasks, U # {} PROVE \E x \in U : \A y \in U : owner'[y] # x
  <2>1. CASE U = {b}
    BY <1>0, <2>1, ReactorAssumption
  <2>2. CASE U # {b}
    <3>1. U \ {b} \in SUBSET Tasks /\ U \ {b} # {}
      BY <1>2, <2>2
    <3>2. PICK x \in U \ {b} : \A y \in U \ {b} : owner[y] # x
      BY <3>1 DEF Forest
    <3>3. x \in Tasks /\ x # b /\ x # None
      BY <1>0
    <3> QED
      BY <1>0, <3>2, <3>3
  <2> QED
    BY <2>1, <2>2
<1>3. ASSUME NEW U \in SUBSET Tasks, Below(U) PROVE Below(U \ {b})'
  <2> SUFFICES ASSUME NEW x \in Tasks, owner'[x] \in U \ {b} PROVE x \in U \ {b}
    BY DEF Below
  <2>1. owner[x] = owner'[x] /\ owner[x] \in U /\ x # b
    BY <1>0
  <2> QED
    BY <1>3, <2>1 DEF Below
<1>4. ASSUME NEW U \in SUBSET Tasks, Below(U), G \subseteq U PROVE Below(U \cup {b})'
  BY <1>0, <1>4 DEF Below
<1> QED
  BY <1>1, <1>2, <1>3, <1>4 DEF Forest

-----------------------------------------------------------------------------
(* Destruction.                                                             *)

(* What destruction schedules waited outside the lists, each once. *)
LEMMA WokenOnce ==
  ASSUME parked \subseteq Tasks, NEW S, NEW woken \in Wakings(S)
  PROVE  /\ woken \in Seq(Tasks) /\ Once(woken)
         /\ \A x : In(x, woken) => x \in parked /\ x \notin S
<1>1. CASE S = {}
  BY <1>1 DEF Wakings, Once, In
<1>2. CASE S # {}
  <2>1. PICK W \in SUBSET (parked \ S) : woken \in SetToSeqs(W)
    BY <1>2 DEF Wakings, SetToAllKPermutations
  <2> DEFINE n == Cardinality(W)
  <2>2. n \in Nat
    <3>1. W \subseteq Tasks
      BY <2>1
    <3>2. IsFiniteSet(W)
      BY <3>1, FS_Subset, ReactorAssumption
    <3> QED
      BY <3>2, FS_CardinalityType
  <2>3. /\ woken \in [1 .. n -> W]
        /\ \A i, j \in 1 .. n : i # j => woken[i] # woken[j]
    BY <2>1 DEF SetToSeqs
  <2> HIDE DEF n
  <2>4. woken \in Seq(W) /\ Len(woken) = n
    BY <2>2, <2>3
  <2>5. woken \in Seq(Tasks)
    <3>1. \A i \in 1 .. Len(woken) : woken[i] \in Tasks
      BY <2>1, <2>3, <2>4
    <3> QED
      BY <2>2, <2>3, <2>4, <3>1
  <2> QED
    BY <2>1, <2>3, <2>4, <2>5 DEF Once, In
<1> QED
  BY <1>1, <1>2

(* The lists without what was destroyed. *)
LEMMA DestroyLists ==
  ASSUME TypeOK, HooksOnce, Sorted(sleeping), NEW S, NEW f, NEW w, Destroy(S, f, w)
  PROVE  /\ ready' \in Seq(Tasks) /\ sleeping' \in Seq(SleepNode)
         /\ polled' \in Seq(PollNode) /\ batch' \in Seq(PollNode)
         /\ Once(ready') /\ OnceNode(sleeping') /\ OnceNode(polled') /\ OnceNode(batch')
         /\ Sorted(sleeping')
         /\ parked' \subseteq Tasks /\ \A x \in parked' : ~In(x, ready')
         /\ \A x : Queued(x)' <=> Queued(x) /\ x \notin S
         /\ \A x : InNode(x, sleeping') <=> InNode(x, sleeping) /\ x \notin S
         /\ \A x : InNode(x, polled') <=> InNode(x, polled) /\ x \notin S
         /\ \A x : InNode(x, batch') <=> InNode(x, batch) /\ x \notin S
         /\ batch = <<>> => batch' = <<>>
<1>1. /\ sleeping' = KeepNodes(sleeping, S)
      /\ polled' = KeepNodes(polled, S) /\ batch' = KeepNodes(batch, S)
  BY DEF Destroy
<1>2. /\ ready \in Seq(Tasks) /\ sleeping \in Seq(SleepNode)
      /\ polled \in Seq(PollNode) /\ batch \in Seq(PollNode) /\ parked \subseteq Tasks
  BY DEF TypeOK
<1>3. /\ ready' \in Seq(Tasks) /\ Once(ready')
      /\ parked' \subseteq Tasks /\ \A x \in parked' : ~In(x, ready')
      /\ \A x : Queued(x)' <=> Queued(x) /\ x \notin S
  <2> DEFINE r == KeepTasks(ready, S)
  <2>1. /\ r \in Seq(Tasks) /\ Once(r) /\ \A x : In(x, r) <=> In(x, ready) /\ x \notin S
    BY <1>2, UnlinkTasks DEF HooksOnce
  <2>2. PICK woken \in Wakings(S) :
          ready' = r \o woken /\ parked' = (parked \ S) \ Elems(woken)
    BY DEF Destroy
  <2>3. /\ woken \in Seq(Tasks) /\ Once(woken)
        /\ \A x : In(x, woken) => x \in parked /\ x \notin S
    BY <1>2, <2>2, WokenOnce
  <2> HIDE DEF r
  <2>4. \A x : ~(In(x, r) /\ In(x, woken))
    BY <2>1, <2>3 DEF HooksOnce
  <2>5. /\ ready' \in Seq(Tasks) /\ Once(ready')
        /\ \A x : In(x, ready') <=> In(x, r) \/ In(x, woken)
    BY <2>1, <2>2, <2>3, <2>4, JoinTasks
  <2>6. \A x : x \in parked' <=> x \in parked /\ x \notin S /\ ~In(x, woken)
    BY <2>2, Members
  <2> QED
    BY <1>2, <2>1, <2>3, <2>5, <2>6 DEF Queued, HooksOnce
<1>4. /\ sleeping' \in Seq(SleepNode) /\ OnceNode(sleeping') /\ Sorted(sleeping')
      /\ \A x : InNode(x, sleeping') <=> InNode(x, sleeping) /\ x \notin S
  BY <1>1, <1>2, UnlinkNodes DEF HooksOnce
<1>5. /\ polled' \in Seq(PollNode) /\ OnceNode(polled')
      /\ \A x : InNode(x, polled') <=> InNode(x, polled) /\ x \notin S
  BY <1>1, <1>2, UnlinkNodes DEF HooksOnce
<1>6. /\ batch' \in Seq(PollNode) /\ OnceNode(batch')
      /\ \A x : InNode(x, batch') <=> InNode(x, batch) /\ x \notin S
  BY <1>1, <1>2, UnlinkNodes DEF HooksOnce
<1>7. ASSUME batch = <<>>, batch' # <<>> PROVE FALSE
  <2>1. InNode(batch'[1].task, batch')
    BY <1>6, <1>7, UnlinkFirst
  <2>2. InNode(batch'[1].task, batch)
    BY <1>6, <2>1
  <2> QED
    BY <1>7, <2>2 DEF InNode
<1> QED
  BY <1>3, <1>4, <1>5, <1>6, <1>7

(* The coroutines without what was destroyed, when with a coroutine goes    *)
(* all that it owns, and with an awaited one the one that awaits it.        *)
LEMMA DestroyCoros ==
  ASSUME TypeOK, Waiters, Forest, NEW S \in SUBSET Tasks, Below(S),
         \A c \in S : waiter[c] # None => waiter[c] \in S,
         NEW f \in [Tasks -> Lives], FamiliesIn(f),
         NEW w \in [Tasks -> Tasks \cup {None}], WaitersIn(f, w),
         \A c \in Tasks : w[c] \in {waiter[c], None},
         Destroy(S, f, w)
  PROVE  /\ life' \in [Tasks -> Lives] /\ background' \subseteq Tasks
         /\ owner' \in [Tasks -> Tasks \cup {None}]
         /\ waiter' \in [Tasks -> Tasks \cup {None}]
         /\ Forest' /\ Families' /\ Waiters'
         /\ \A U \in SUBSET Tasks : Below(U) => Below(U)'
         /\ \A x \in Tasks : life'[x] = IF x \in S THEN "freed" ELSE f[x]
         /\ \A x \in Tasks : waiter'[x] \in {w[x], None}
         /\ \A x \in Tasks : Awaits(x)' <=> x \notin S /\ \E c \in Tasks : w[c] = x
<1>1. /\ \A x \in Tasks : life'[x] = IF x \in S THEN "freed" ELSE f[x]
      /\ \A x \in Tasks : owner'[x] = IF x \in S THEN None ELSE owner[x]
      /\ \A x \in Tasks : waiter'[x] = IF x \in S THEN None ELSE w[x]
      /\ background' = background \ S
  BY DEF Destroy, FreedIn, ForgottenIn
<1>2. /\ life' \in [Tasks -> Lives] /\ background' \subseteq Tasks
      /\ owner' \in [Tasks -> Tasks \cup {None}]
      /\ waiter' \in [Tasks -> Tasks \cup {None}]
  BY DEF Destroy, FreedIn, ForgottenIn, TypeOK, Lives
<1>3. /\ Forest' /\ \A U \in SUBSET Tasks : Below(U) => Below(U)'
  BY <1>1, FewerOwners
<1>4. Waiters'
  BY <1>1 DEF Waiters, WaitersIn
<1>5. Families'
  <2>1. ASSUME NEW t \in Tasks, owner'[t] # None
        PROVE  /\ t \notin S /\ owner'[t] = owner[t] /\ owner[t] \in Tasks /\ owner[t] \notin S
               /\ life'[owner'[t]] = f[owner[t]]
    <3>1. t \notin S /\ owner'[t] = owner[t]
      BY <1>1, <2>1
    <3>2. owner[t] \in Tasks /\ owner[t] \notin S
      BY <2>1, <3>1 DEF TypeOK, Below
    <3> QED
      BY <1>1, <3>1, <3>2
  <2>2. \A t \in Tasks : life'[t] \in {"unborn", "freed"} => owner'[t] = None
    BY <1>1 DEF FamiliesIn
  <2>3. \A t \in Tasks : owner'[t] # None =>
          life'[owner'[t]] \in {"live", "done"} /\ t \notin {Main, Reporter} /\ t \notin background'
    BY <1>1, <2>1 DEF FamiliesIn
  <2>4. \A t \in Tasks : life'[t] \in {"live", "done", "failed"} =>
          owner'[t] # None \/ t \in background' \/ t \in {Main, Reporter}
    BY <1>1 DEF FamiliesIn
  <2>5. \A t \in background' : life'[t] \in {"live", "done"} /\ t \notin {Main, Reporter}
    BY <1>1 DEF FamiliesIn, TypeOK
  <2> QED
    BY <2>2, <2>3, <2>4, <2>5 DEF Families, FamiliesIn
<1>6. ASSUME NEW x \in Tasks PROVE Awaits(x)' <=> x \notin S /\ \E c \in Tasks : w[c] = x
  <2>0. x # None
    BY ReactorAssumption
  <2>1. ASSUME NEW c \in Tasks, waiter'[c] = x PROVE x \notin S /\ w[c] = x
    <3>1. c \notin S /\ w[c] = x /\ waiter[c] = x
      BY <1>1, <2>0, <2>1
    <3>2. owner[c] = x
      BY <2>0, <3>1 DEF Waiters, WaitersIn
    <3> QED
      BY <3>1, <3>2 DEF Below
  <2>2. ASSUME NEW c \in Tasks, w[c] = x, x \notin S PROVE waiter'[c] = x
    BY <1>1, <2>0, <2>2
  <2> QED
    BY <2>1, <2>2 DEF Awaits
<1> QED
  BY <1>1, <1>2, <1>3, <1>4, <1>5, <1>6

(* What a step that destroys S, with f and w as in Destroy, may do to the   *)
(* stack, to m_gc_list and to the loop.                                     *)
StackFits(S, f, w) ==
  /\ stack' \in Seq(Tasks) /\ Once(stack')
  /\ \A x \in S : ~In(x, stack')
  /\ \A x \in Tasks \ S :
       OneIf(f[x] = "live", In(x, stack'), Queued(x), InNode(x, sleeping),
             InNode(x, polled), InNode(x, batch), \E c \in Tasks : w[c] = x)
  /\ \A i, j \in 1 .. Len(stack') :
       i < j => \E U \in SUBSET Tasks : Below(U) /\ stack'[j] \in U /\ stack'[i] \notin U
  /\ \A i \in 2 .. Len(stack') : w[stack'[i]] = None

GarbageFits(S, f) ==
  /\ gcList' \in Seq(Tasks) /\ Once(gcList')
  /\ \A t \in Tasks : In(t, gcList') <=> t \in background \ S /\ f[t] = "done"

LoopFits ==
  /\ UNCHANGED <<pollfds, left, now, fallback>>
  /\ sampled' \in {sampled, now} /\ phase' \in Phases /\ mode' \in Modes
  /\ allocFlag' \in BOOLEAN

(* S can be destroyed: with a coroutine goes all that it owns, and with an  *)
(* awaited one the one that awaits it.                                      *)
Separate(S) == Below(S) /\ \A c \in S : waiter[c] # None => waiter[c] \in S

(* Such a step keeps the invariant. *)
LEMMA DestroyStep ==
  ASSUME IInv, NEW S \in SUBSET Tasks, Separate(S),
         NEW f \in [Tasks -> Lives], FamiliesIn(f),
         NEW w \in [Tasks -> Tasks \cup {None}], WaitersIn(f, w),
         \A c \in Tasks : w[c] \in {waiter[c], None},
         Destroy(S, f, w), StackFits(S, f, w), GarbageFits(S, f), LoopFits, Handler'
  PROVE  IInv'
<1> USE DEF IInv, StackFits, GarbageFits, LoopFits, Separate
<1>1. /\ ready' \in Seq(Tasks) /\ sleeping' \in Seq(SleepNode)
      /\ polled' \in Seq(PollNode) /\ batch' \in Seq(PollNode)
      /\ Once(ready') /\ OnceNode(sleeping') /\ OnceNode(polled') /\ OnceNode(batch')
      /\ Sorted(sleeping')
      /\ parked' \subseteq Tasks /\ \A x \in parked' : ~In(x, ready')
      /\ \A x : Queued(x)' <=> Queued(x) /\ x \notin S
      /\ \A x : InNode(x, sleeping') <=> InNode(x, sleeping) /\ x \notin S
      /\ \A x : InNode(x, polled') <=> InNode(x, polled) /\ x \notin S
      /\ \A x : InNode(x, batch') <=> InNode(x, batch) /\ x \notin S
  BY DestroyLists DEF Times
<1>2. /\ life' \in [Tasks -> Lives] /\ background' \subseteq Tasks
      /\ owner' \in [Tasks -> Tasks \cup {None}]
      /\ waiter' \in [Tasks -> Tasks \cup {None}]
      /\ Forest' /\ Families' /\ Waiters'
      /\ \A U \in SUBSET Tasks : Below(U) => Below(U)'
      /\ \A x \in Tasks : life'[x] = IF x \in S THEN "freed" ELSE f[x]
      /\ \A x \in Tasks : waiter'[x] \in {w[x], None}
      /\ \A x \in Tasks : Awaits(x)' <=> x \notin S /\ \E c \in Tasks : w[c] = x
  BY DestroyCoros
<1>3. TypeOK'
  BY <1>1, <1>2 DEF TypeOK
<1>4. HooksOnce'
  BY <1>1 DEF HooksOnce
<1>5. Placed'
  <2> SUFFICES ASSUME NEW x \in Tasks
               PROVE  OneIf(life'[x] = "live", In(x, stack'), Queued(x)', InNode(x, sleeping'),
                            InNode(x, polled'), InNode(x, batch'), Awaits(x)')
    BY DEF Placed
  <2>1. CASE x \in S
    <3>1. life'[x] # "live" /\ ~Awaits(x)'
      BY <1>2, <2>1
    <3>2. /\ ~In(x, stack') /\ ~Queued(x)' /\ ~InNode(x, sleeping')
          /\ ~InNode(x, polled') /\ ~InNode(x, batch')
      BY <1>1, <2>1
    <3> QED
      BY <3>1, <3>2 DEF OneIf
  <2>2. CASE x \notin S
    <3>1. /\ life'[x] = f[x] /\ (Awaits(x)' <=> \E c \in Tasks : w[c] = x)
      BY <1>2, <2>2
    <3>2. /\ Queued(x)' <=> Queued(x)
          /\ InNode(x, sleeping') <=> InNode(x, sleeping)
          /\ InNode(x, polled') <=> InNode(x, polled)
          /\ InNode(x, batch') <=> InNode(x, batch)
      BY <1>1, <2>2
    <3>3. OneIf(f[x] = "live", In(x, stack'), Queued(x), InNode(x, sleeping),
                InNode(x, polled), InNode(x, batch), \E c \in Tasks : w[c] = x)
      BY <2>2
    <3> QED
      BY <3>1, <3>2, <3>3 DEF OneIf
  <2> QED
    BY <2>1, <2>2
<1>6. StackOrder'
  <2>1. ASSUME NEW i \in 1 .. Len(stack'), NEW j \in 1 .. Len(stack'), i < j
        PROVE  \E U \in SUBSET Tasks : Below(U)' /\ stack'[j] \in U /\ stack'[i] \notin U
    <3>1. PICK U \in SUBSET Tasks : Below(U) /\ stack'[j] \in U /\ stack'[i] \notin U
      BY <2>1
    <3> QED
      BY <1>2, <3>1
  <2>2. ASSUME NEW i \in 2 .. Len(stack') PROVE waiter'[stack'[i]] = None
    <3>1. stack'[i] \in Tasks
      OBVIOUS
    <3> QED
      BY <1>2, <3>1
  <2> QED
    BY <2>1, <2>2 DEF StackOrder
<1>7. Garbage'
  BY <1>2 DEF Garbage, Destroy
<1>8. Times'
  BY <1>1 DEF Times, TypeOK
<1> QED
  BY <1>2, <1>3, <1>4, <1>5, <1>6, <1>7, <1>8

(* The same when nothing else happens to the coroutines. *)
LEMMA OnlyDestroyStep ==
  ASSUME IInv, NEW S \in SUBSET Tasks, Separate(S), Destroy(S, life, waiter),
         UNCHANGED stack, \A x \in S : ~In(x, stack),
         GarbageFits(S, life), LoopFits, Handler'
  PROVE  IInv'
<1>1. /\ life \in [Tasks -> Lives] /\ FamiliesIn(life)
      /\ waiter \in [Tasks -> Tasks \cup {None}] /\ WaitersIn(life, waiter)
      /\ \A c \in Tasks : waiter[c] \in {waiter[c], None}
  BY DEF IInv, TypeOK, Families, Waiters
<1>2. stack' \in Seq(Tasks) /\ Once(stack') /\ \A x \in S : ~In(x, stack')
  BY DEF IInv, TypeOK, HooksOnce
<1>3. \A x \in Tasks \ S :
        OneIf(life[x] = "live", In(x, stack'), Queued(x), InNode(x, sleeping),
              InNode(x, polled), InNode(x, batch), \E c \in Tasks : waiter[c] = x)
  BY DEF IInv, Placed, Awaits
<1>4. /\ \A i, j \in 1 .. Len(stack') :
           i < j => \E U \in SUBSET Tasks : Below(U) /\ stack'[j] \in U /\ stack'[i] \notin U
      /\ \A i \in 2 .. Len(stack') : waiter[stack'[i]] = None
  BY DEF IInv, StackOrder
<1>5. StackFits(S, life, waiter)
  BY <1>2, <1>3, <1>4 DEF StackFits
<1> QED
  BY <1>1, <1>5, DestroyStep

-----------------------------------------------------------------------------
(* What a running coroutine does.                                           *)

(* The running coroutine and those below it on the stack. *)
LEMMA OnTop ==
  ASSUME IInv, NEW t \in Tasks, Running(t)
  PROVE  /\ Len(stack) \in Nat \ {0} /\ t = stack[Len(stack)] /\ In(t, stack)
         /\ Caller \in Seq(Tasks) /\ Once(Caller) /\ Len(Caller) = Len(stack) - 1
         /\ \A i \in 1 .. Len(stack) - 1 : Caller[i] = stack[i]
         /\ \A x : In(x, Caller) <=> In(x, stack) /\ x # t
         /\ life[t] = "live" /\ mode \in {"main", "report", "drain"}
         /\ ~Queued(t) /\ ~InNode(t, sleeping) /\ ~InNode(t, polled) /\ ~InNode(t, batch)
         /\ \A c \in Tasks : waiter[c] # t
         /\ \A i, j \in 1 .. Len(Caller) :
              i < j => \E U \in SUBSET Tasks : Below(U) /\ Caller[j] \in U /\ Caller[i] \notin U
         /\ \A i \in 2 .. Len(Caller) : waiter[Caller[i]] = None
<1>1. /\ stack \in Seq(Tasks) /\ stack # <<>> /\ t = stack[Len(stack)] /\ Once(stack)
      /\ mode \in Modes
  BY DEF Running, IInv, TypeOK, HooksOnce
<1>2. /\ Caller \in Seq(Tasks) /\ Once(Caller) /\ Len(Caller) = Len(stack) - 1
      /\ \A i \in 1 .. Len(stack) - 1 : Caller[i] = stack[i]
      /\ \A x : In(x, Caller) <=> In(x, stack) /\ x # t
      /\ In(t, stack)
  BY <1>1, UnlinkLast DEF Caller
<1>3. Len(stack) \in Nat \ {0}
  BY <1>1
<1>4. mode \in {"main", "report", "drain"}
  BY <1>1 DEF IInv, Handler, Modes
<1>5. /\ life[t] = "live" /\ ~Awaits(t)
      /\ ~Queued(t) /\ ~InNode(t, sleeping) /\ ~InNode(t, polled) /\ ~InNode(t, batch)
  BY <1>2 DEF IInv, Placed, OneIf
<1>6. \A c \in Tasks : waiter[c] # t
  BY <1>5 DEF Awaits
<1>7. \A i \in 1 .. Len(Caller) : i \in 1 .. Len(stack) /\ Caller[i] = stack[i]
  BY <1>2, <1>3
<1>8. \A i, j \in 1 .. Len(Caller) :
        i < j => \E U \in SUBSET Tasks : Below(U) /\ Caller[j] \in U /\ Caller[i] \notin U
  BY <1>7 DEF IInv, StackOrder
<1>9. \A i \in 2 .. Len(Caller) : waiter[Caller[i]] = None
  <2>1. \A i \in 2 .. Len(Caller) : i \in 1 .. Len(Caller) /\ i \in 2 .. Len(stack)
    BY <1>2, <1>3
  <2> QED
    BY <1>7, <2>1 DEF IInv, StackOrder
<1> QED
  BY <1>1, <1>2, <1>3, <1>4, <1>5, <1>6, <1>8, <1>9

(* What is below the Futs of the running coroutine neither runs nor is      *)
(* awaited from outside, and is none of the coroutines without an owner.    *)
LEMMA BelowTop ==
  ASSUME IInv, NEW t \in Tasks, Running(t), NEW R \in SUBSET Owned(t)
  PROVE  /\ Subtree(R) \in SUBSET Tasks /\ Separate(Subtree(R)) /\ R \subseteq Subtree(R)
         /\ \A x \in Subtree(R) : ~In(x, stack) /\ owner[x] # None
         /\ \A x \in Subtree(R) : x \notin background /\ x \notin {Main, Reporter}
<1> DEFINE S == Subtree(R)
<1>1. R \in SUBSET Tasks /\ \A c \in R : owner[c] = t
  BY DEF Owned
<1>2. /\ S \in SUBSET Tasks /\ R \subseteq S /\ Below(S)
      /\ \A U \in SUBSET Tasks : R \subseteq U /\ Below(U) => S \subseteq U
      /\ \A c \in S : c \notin R => owner[c] \in S
  BY <1>1, SubtreeProperties DEF IInv
<1>3. t \notin S
  BY <1>1, NotBelowItself DEF IInv
<1> HIDE DEF S
<1>4. ASSUME NEW x \in S, In(x, stack) PROVE FALSE
  <2>1. /\ Len(stack) \in Nat \ {0} /\ t = stack[Len(stack)]
    BY OnTop
  <2>2. PICK i \in 1 .. Len(stack) : stack[i] = x
    BY <1>4 DEF In
  <2>3. i < Len(stack) /\ Len(stack) \in 1 .. Len(stack)
    BY <1>3, <2>1, <2>2
  <2>4. PICK U \in SUBSET Tasks : Below(U) /\ t \in U /\ x \notin U
    BY <2>1, <2>2, <2>3 DEF IInv, StackOrder
  <2>5. R \subseteq U
    BY <1>1, <2>4 DEF Below
  <2> QED
    BY <1>2, <2>4, <2>5
<1>5. ASSUME NEW x \in S PROVE owner[x] \in Tasks
  BY <1>1, <1>2
<1>6. \A x \in S : owner[x] # None
  BY <1>5, ReactorAssumption
<1>7. ASSUME NEW c \in S, waiter[c] # None PROVE waiter[c] \in S
  <2>1. waiter[c] = owner[c] /\ c \in Tasks
    BY <1>2, <1>7 DEF IInv, Waiters, WaitersIn
  <2>2. waiter[c] # t
    BY <2>1, OnTop
  <2> QED
    BY <1>1, <1>2, <2>1, <2>2
<1>8. \A x \in S : x \notin background /\ x \notin {Main, Reporter}
  BY <1>2, <1>6 DEF IInv, Families, FamiliesIn
<1> QED
  BY <1>2, <1>4, <1>6, <1>7, <1>8 DEF S, Separate

(* Destroying a Fut. *)
LEMMA DropStep ==
  ASSUME IInv, NEW t \in Tasks, NEW c \in Tasks, Drop(t, c)
  PROVE  IInv'
<1> DEFINE S == Subtree({c})
<1>0. Running(t) /\ {c} \in SUBSET Owned(t)
  BY DEF Drop
<1>1. /\ S \in SUBSET Tasks /\ Separate(S)
      /\ \A x \in S : ~In(x, stack)
      /\ \A x \in S : x \notin background /\ x \notin {Main, Reporter}
  BY <1>0, BelowTop
<1>2. /\ Destroy(S, life, waiter)
      /\ UNCHANGED <<stack, gcList, pollfds, left, now, sampled, phase, mode, fallback, allocFlag>>
  BY DEF Drop, loop
<1> HIDE DEF S
<1>3. TypeOK /\ HooksOnce /\ Sorted(sleeping)
  BY DEF IInv, Times
<1>4. \A x \in Tasks : In(x, gcList') <=> x \in background \ S /\ life[x] = "done"
  BY <1>1, <1>2 DEF IInv, Garbage
<1>5. life'[Main] = life[Main] /\ life'[Reporter] = life[Reporter]
  BY <1>1, <1>2, ReactorAssumption DEF Destroy, FreedIn
<1>6. batch = <<>> => batch' = <<>>
  BY <1>2, <1>3, DestroyLists
<1>7. Handler'
  BY <1>2, <1>5, <1>6 DEF IInv, Handler
<1>8. GarbageFits(S, life) /\ LoopFits
  BY <1>2, <1>3, <1>4 DEF TypeOK, HooksOnce, GarbageFits, LoopFits
<1> QED
  BY <1>1, <1>2, <1>7, <1>8, OnlyDestroyStep

(* co_return. *)
LEMMA ReturnStep ==
  ASSUME IInv, NEW t \in Tasks, NEW kept \in SUBSET Tasks, Return(t, kept)
  PROVE  IInv'
<1> DEFINE R == Owned(t) \ kept
           S == Subtree(R)
           f == [life EXCEPT ![t] = "done"]
           w == [waiter EXCEPT ![t] = None]
<1>0. Running(t) /\ R \in SUBSET Owned(t)
  BY DEF Return
<1>1. /\ S \in SUBSET Tasks /\ Separate(S)
      /\ \A x \in S : ~In(x, stack) /\ owner[x] # None
      /\ \A x \in S : x \notin background /\ x \notin {Main, Reporter}
  <2> HIDE DEF R
  <2> QED
    BY <1>0, BelowTop
<1>2. /\ Destroy(S, f, w)
      /\ stack' = IF waiter[t] = None THEN Caller ELSE Append(Caller, waiter[t])
      /\ gcList' = IF t \in background THEN <<t>> \o gcList ELSE gcList
      /\ UNCHANGED <<pollfds, left, now, sampled, phase, mode, fallback, allocFlag>>
  BY DEF Return, loop
<1> HIDE DEF S
<1>3. TypeOK /\ HooksOnce /\ Sorted(sleeping) /\ Waiters /\ Families
  BY DEF IInv, Times
<1>4. /\ Len(stack) \in Nat \ {0} /\ t = stack[Len(stack)] /\ In(t, stack)
      /\ Caller \in Seq(Tasks) /\ Once(Caller) /\ Len(Caller) = Len(stack) - 1
      /\ \A x : In(x, Caller) <=> In(x, stack) /\ x # t
      /\ life[t] = "live"
      /\ ~Queued(t) /\ ~InNode(t, sleeping) /\ ~InNode(t, polled) /\ ~InNode(t, batch)
      /\ \A c \in Tasks : waiter[c] # t
      /\ \A i, j \in 1 .. Len(Caller) :
           i < j => \E U \in SUBSET Tasks : Below(U) /\ Caller[j] \in U /\ Caller[i] \notin U
      /\ \A i \in 2 .. Len(Caller) : waiter[Caller[i]] = None
  BY <1>0, OnTop
<1>5. /\ f \in [Tasks -> Lives] /\ \A x \in Tasks : f[x] = IF x = t THEN "done" ELSE life[x]
      /\ w \in [Tasks -> Tasks \cup {None}]
      /\ \A x \in Tasks : w[x] = IF x = t THEN None ELSE waiter[x]
  BY <1>3 DEF TypeOK, Lives
<1>6. \A c \in Tasks : w[c] \in {waiter[c], None}
  BY <1>5
<1> HIDE DEF f, w, R
<1>7. FamiliesIn(f)
  BY <1>3, <1>4, <1>5 DEF Families, FamiliesIn, TypeOK
<1>8. WaitersIn(f, w)
  BY <1>3, <1>5 DEF Waiters, WaitersIn
(* The awaiting coroutine, when there is one, takes the place of t, which   *)
(* is then the only one on the stack.                                       *)
<1>9. ASSUME waiter[t] # None
      PROVE  /\ waiter[t] \in Tasks /\ waiter[t] \notin S /\ ~In(waiter[t], stack)
             /\ Len(Caller) = 0
  <2>1. waiter[t] \in Tasks /\ owner[t] = waiter[t]
    BY <1>3, <1>9 DEF TypeOK, Waiters, WaitersIn
  <2>2. waiter[t] \notin S
    BY <1>1, <1>4, <2>1 DEF Below, Separate
  <2>3. Awaits(waiter[t])
    BY DEF Awaits
  <2>4. ~In(waiter[t], stack)
    BY <2>1, <2>3 DEF IInv, Placed, OneIf
  <2>5. Len(stack) = 1
    <3>1. ASSUME Len(stack) # 1 PROVE FALSE
      <4>1. Len(stack) \in 2 .. Len(stack)
        BY <1>4, <3>1
      <4> QED
        BY <1>4, <1>9, <4>1 DEF IInv, StackOrder
    <3> QED
      BY <3>1
  <2> QED
    BY <1>4, <2>1, <2>2, <2>4, <2>5
<1>10. /\ stack' \in Seq(Tasks) /\ Once(stack')
       /\ \A x \in Tasks : In(x, stack') <=> (In(x, stack) /\ x # t) \/ x = waiter[t]
  <2>1. CASE waiter[t] = None
    BY <1>2, <1>4, <2>1, ReactorAssumption
  <2>2. CASE waiter[t] # None
    <3>1. ~In(waiter[t], Caller) /\ waiter[t] \in Tasks
      BY <1>4, <1>9, <2>2
    <3>2. stack' = Append(Caller, waiter[t])
      BY <1>2, <2>2
    <3> QED
      BY <1>4, <3>1, <3>2, LinkLast
  <2> QED
    BY <2>1, <2>2
<1>11. \A x \in S : ~In(x, stack')
  <2>1. ASSUME NEW x \in S, x = waiter[t] PROVE FALSE
    BY <1>1, <1>9, <2>1, ReactorAssumption
  <2> QED
    BY <1>1, <1>10, <2>1
<1>12. ASSUME NEW x \in Tasks \ S
       PROVE  OneIf(f[x] = "live", In(x, stack'), Queued(x), InNode(x, sleeping),
                    InNode(x, polled), InNode(x, batch), \E c \in Tasks : w[c] = x)
  <2>0. x \in Tasks /\ x # None
    BY ReactorAssumption
  <2>1. OneIf(life[x] = "live", In(x, stack), Queued(x), InNode(x, sleeping),
              InNode(x, polled), InNode(x, batch), Awaits(x))
    BY DEF IInv, Placed
  <2>2. CASE x = t
    <3>1. ~In(x, stack')
      BY <1>4, <1>10, <2>2
    <3>2. ~ \E c \in Tasks : w[c] = x
      BY <1>4, <1>5, <2>0, <2>2
    <3>3. f[x] # "live"
      BY <1>5, <2>2
    <3> QED
      BY <1>4, <2>2, <3>1, <3>2, <3>3 DEF OneIf
  <2>3. CASE x # t /\ x = waiter[t]
    <3>1. In(x, stack') /\ f[x] = life[x]
      BY <1>5, <1>10, <2>3
    <3>2. Awaits(x)
      BY <2>3 DEF Awaits
    <3>3. ~ \E c \in Tasks : w[c] = x
      BY <1>3, <1>5, <2>0, <2>3 DEF Waiters, WaitersIn
    <3> QED
      BY <2>1, <3>1, <3>2, <3>3 DEF OneIf
  <2>4. CASE x # t /\ x # waiter[t]
    <3>1. f[x] = life[x] /\ (In(x, stack') <=> In(x, stack))
      BY <1>5, <1>10, <2>4
    <3>2. Awaits(x) <=> \E c \in Tasks : w[c] = x
      BY <1>5, <2>0, <2>4 DEF Awaits
    <3> QED
      BY <2>1, <3>1, <3>2 DEF OneIf
  <2> QED
    BY <2>2, <2>3, <2>4
<1>13. /\ \A i, j \in 1 .. Len(stack') :
            i < j => \E U \in SUBSET Tasks : Below(U) /\ stack'[j] \in U /\ stack'[i] \notin U
       /\ \A i \in 2 .. Len(stack') : w[stack'[i]] = None
  <2>1. CASE waiter[t] = None
    <3>1. stack' = Caller
      BY <1>2, <2>1
    <3>2. \A i \in 2 .. Len(Caller) : Caller[i] \in Tasks
      BY <1>4
    <3> QED
      BY <1>4, <1>6, <3>1, <3>2
  <2>2. CASE waiter[t] # None
    <3>1. Len(stack') = 1
      BY <1>2, <1>4, <1>9, <2>2
    <3> QED
      BY <3>1
  <2> QED
    BY <2>1, <2>2
<1>14. /\ gcList' \in Seq(Tasks) /\ Once(gcList')
       /\ \A x \in Tasks : In(x, gcList') <=> x \in background \ S /\ f[x] = "done"
  <2>1. gcList \in Seq(Tasks) /\ Once(gcList) /\ ~In(t, gcList)
    BY <1>3, <1>4 DEF TypeOK, HooksOnce, IInv, Garbage
  <2>2. \A x \in Tasks : In(x, gcList) <=> x \in background \ S /\ life[x] = "done"
    BY <1>1 DEF IInv, Garbage
  <2>3. t \notin S
    BY <1>1, <1>4
  <2>4. CASE t \in background
    <3>1. gcList' = <<t>> \o gcList
      BY <1>2, <2>4
    <3>2. /\ gcList' \in Seq(Tasks) /\ Once(gcList')
          /\ \A x : In(x, gcList') <=> In(x, gcList) \/ x = t
      BY <2>1, <3>1, LinkFirst
    <3> QED
      BY <1>5, <2>2, <2>3, <2>4, <3>2
  <2>5. CASE t \notin background
    BY <1>2, <1>5, <2>1, <2>2, <2>5
  <2> QED
    BY <2>4, <2>5
<1>15. Handler'
  <2>1. /\ life'[Main] = IF Main = t THEN "done" ELSE life[Main]
        /\ life'[Reporter] = IF Reporter = t THEN "done" ELSE life[Reporter]
    BY <1>1, <1>2, <1>5, ReactorAssumption DEF Destroy, FreedIn
  <2>2. batch = <<>> => batch' = <<>>
    BY <1>2, <1>3, DestroyLists
  <2>3. mode \in {"main", "report", "drain"}
    BY <1>0, OnTop
  <2> QED
    BY <1>2, <1>4, <2>1, <2>2, <2>3 DEF IInv, Handler
<1>16. LoopFits /\ Destroy(S, f, w)
  BY <1>2, <1>3 DEF TypeOK, LoopFits
<1>17. StackFits(S, f, w) /\ GarbageFits(S, f)
  BY <1>10, <1>11, <1>12, <1>13, <1>14 DEF StackFits, GarbageFits
<1> QED
  BY <1>1, <1>5, <1>6, <1>7, <1>8, <1>15, <1>16, <1>17, DestroyStep

(* Steps that leave the coroutines and m_gc_list alone. *)
LEMMA SameCoros ==
  ASSUME IInv, UNCHANGED <<life, background, owner, waiter, gcList>>
  PROVE  /\ Waiters' /\ Families' /\ Forest' /\ Garbage'
         /\ \A U : Below(U)' <=> Below(U)
         /\ \A x : Awaits(x)' <=> Awaits(x)
<1>1. /\ life' = life /\ background' = background /\ owner' = owner /\ waiter' = waiter
      /\ gcList' = gcList
  OBVIOUS
<1>2. \A U : Below(U)' <=> Below(U)
  BY <1>1 DEF Below
<1>3. \A x : Awaits(x)' <=> Awaits(x)
  BY <1>1 DEF Awaits
<1>4. Waiters'
  BY <1>1 DEF IInv, Waiters, WaitersIn
<1>5. Families'
  BY <1>1 DEF IInv, Families, FamiliesIn
<1>6. Forest'
  BY <1>1 DEF IInv, Forest
<1>7. Garbage'
  BY <1>1 DEF IInv, Garbage
<1> QED
  BY <1>2, <1>3, <1>4, <1>5, <1>6, <1>7

(* The running coroutine t suspends into one of the lists. *)
LEMMA SuspendStep ==
  ASSUME IInv, NEW t \in Tasks, Running(t), stack' = Caller,
         UNCHANGED <<life, background, owner, waiter, gcList, batch, loop, allocFlag>>,
         ready' \in Seq(Tasks), sleeping' \in Seq(SleepNode), polled' \in Seq(PollNode),
         Once(ready'), OnceNode(sleeping'), OnceNode(polled'), Sorted(sleeping'),
         \/ /\ \A x : In(x, ready') <=> In(x, ready) \/ x = t
            /\ UNCHANGED <<sleeping, polled, parked>>
         \/ /\ parked' = parked \cup {t}
            /\ UNCHANGED <<sleeping, polled, ready>>
         \/ /\ \A x : InNode(x, sleeping') <=> InNode(x, sleeping) \/ x = t
            /\ UNCHANGED <<ready, polled, parked>>
         \/ /\ \A x : InNode(x, polled') <=> InNode(x, polled) \/ x = t
            /\ UNCHANGED <<ready, sleeping, parked>>
  PROVE  IInv'
<1>1. /\ Waiters' /\ Families' /\ Forest' /\ Garbage'
      /\ \A U : Below(U)' <=> Below(U)
      /\ \A x : Awaits(x)' <=> Awaits(x)
  BY SameCoros
<1>2. /\ In(t, stack) /\ Caller \in Seq(Tasks) /\ Once(Caller)
      /\ \A x : In(x, Caller) <=> In(x, stack) /\ x # t
      /\ life[t] = "live" /\ mode \in {"main", "report", "drain"}
      /\ ~Queued(t) /\ ~InNode(t, sleeping) /\ ~InNode(t, polled) /\ ~InNode(t, batch)
      /\ \A c \in Tasks : waiter[c] # t
      /\ \A i, j \in 1 .. Len(Caller) :
           i < j => \E U \in SUBSET Tasks : Below(U) /\ Caller[j] \in U /\ Caller[i] \notin U
      /\ \A i \in 2 .. Len(Caller) : waiter[Caller[i]] = None
  BY OnTop
<1>3. /\ life' = life /\ waiter' = waiter /\ UNCHANGED <<now, sampled, phase, mode, gcList, batch>>
      /\ parked' \subseteq Tasks
  BY DEF loop, IInv, TypeOK
<1>4. TypeOK'
  BY <1>2, <1>3 DEF IInv, TypeOK, loop
<1>5. HooksOnce'
  BY <1>2, <1>3 DEF IInv, HooksOnce, Queued
<1>6. Placed'
  <2> SUFFICES ASSUME NEW x \in Tasks
               PROVE  OneIf(life'[x] = "live", In(x, stack'), Queued(x)', InNode(x, sleeping'),
                            InNode(x, polled'), InNode(x, batch'), Awaits(x)')
    BY DEF Placed
  <2>1. OneIf(life[x] = "live", In(x, stack), Queued(x), InNode(x, sleeping),
              InNode(x, polled), InNode(x, batch), Awaits(x))
    BY DEF IInv, Placed
  <2>2. life'[x] = life[x] /\ (Awaits(x)' <=> Awaits(x))
    BY <1>1, <1>3
  <2>3. In(x, stack') <=> In(x, stack) /\ x # t
    BY <1>2
  <2>4. InNode(x, batch') <=> InNode(x, batch)
    BY <1>3
  <2>5. x = t => In(x, stack)
    BY <1>2
  <2> QED
    BY <2>1, <2>2, <2>3, <2>4, <2>5 DEF OneIf, Queued
<1>7. StackOrder'
  BY <1>1, <1>2, <1>3 DEF StackOrder
<1>8. Handler'
  BY <1>2, <1>3 DEF IInv, Handler
<1>9. Times'
  BY <1>3 DEF IInv, Times
<1> QED
  BY <1>1, <1>4, <1>5, <1>6, <1>7, <1>8, <1>9 DEF IInv

(* co_await Yield{}. *)
LEMMA YieldStep ==
  ASSUME IInv, NEW t \in Tasks, Yield(t)
  PROVE  IInv'
<1>1. Running(t) /\ ready' = Append(ready, t) /\ stack' = Caller
      /\ UNCHANGED <<coros, sleeping, polled, gcList, batch, loop, allocFlag>>
  BY DEF Yield
<1>2. ~In(t, ready)
  BY <1>1, OnTop DEF Queued
<1>3. TypeOK /\ HooksOnce /\ Sorted(sleeping)
  BY DEF IInv, Times
<1>4. /\ ready' \in Seq(Tasks) /\ Once(ready')
      /\ \A x : In(x, ready') <=> In(x, ready) \/ x = t
  BY <1>1, <1>2, <1>3, LinkLast DEF TypeOK, HooksOnce
<1>5. /\ sleeping' \in Seq(SleepNode) /\ polled' \in Seq(PollNode)
      /\ OnceNode(sleeping') /\ OnceNode(polled') /\ Sorted(sleeping')
  BY <1>1, <1>3 DEF TypeOK, HooksOnce
<1> QED
  BY <1>1, <1>4, <1>5, SuspendStep DEF coros

(* co_await Sleep{d}. *)
LEMMA SleepStep ==
  ASSUME IInv, NEW t \in Tasks, NEW d \in Delays, Sleep(t, d)
  PROVE  IInv'
<1> DEFINE n == [task |-> t, at |-> now + d]
<1>1. Running(t) /\ sleeping' = InsertSleeper(n) /\ stack' = Caller
      /\ UNCHANGED <<coros, ready, polled, gcList, batch, loop, allocFlag>>
  BY DEF Sleep
<1>2. ~InNode(t, sleeping)
  BY <1>1, OnTop
<1>3. TypeOK /\ HooksOnce /\ Sorted(sleeping)
  BY DEF IInv, Times
<1>4. n \in SleepNode /\ n.task = t
  BY <1>3, ReactorAssumption DEF TypeOK, SleepNode
<1> HIDE DEF n
<1>5. /\ sleeping' \in Seq(SleepNode) /\ OnceNode(sleeping') /\ Sorted(sleeping')
      /\ \A x : InNode(x, sleeping') <=> InNode(x, sleeping) \/ x = t
  BY <1>1, <1>2, <1>3, <1>4, InsertInOrder DEF TypeOK, HooksOnce
<1>6. /\ ready' \in Seq(Tasks) /\ polled' \in Seq(PollNode)
      /\ Once(ready') /\ OnceNode(polled')
  BY <1>1, <1>3 DEF TypeOK, HooksOnce
<1> QED
  BY <1>1, <1>5, <1>6, SuspendStep DEF coros

(* co_await PollEvent{f, e}. *)
LEMMA PollStep ==
  ASSUME IInv, NEW t \in Tasks, NEW f \in Fds, NEW e \in Events, Poll(t, f, e)
  PROVE  IInv'
<1> DEFINE n == [task |-> t, fd |-> f, ev |-> e]
<1>1. Running(t) /\ polled' = Append(polled, n) /\ stack' = Caller
      /\ UNCHANGED <<coros, ready, sleeping, gcList, batch, loop, allocFlag>>
  BY DEF Poll
<1>2. ~InNode(t, polled)
  BY <1>1, OnTop
<1>3. TypeOK /\ HooksOnce /\ Sorted(sleeping)
  BY DEF IInv, Times
<1>4. n \in PollNode /\ n.task = t
  BY DEF PollNode
<1> HIDE DEF n
<1>5. /\ polled' \in Seq(PollNode) /\ OnceNode(polled')
      /\ \A x : InNode(x, polled') <=> InNode(x, polled) \/ x = t
  BY <1>1, <1>2, <1>3, <1>4, LinkLast DEF TypeOK, HooksOnce
<1>6. /\ ready' \in Seq(Tasks) /\ sleeping' \in Seq(SleepNode)
      /\ Once(ready') /\ OnceNode(sleeping') /\ Sorted(sleeping')
  BY <1>1, <1>3 DEF TypeOK, HooksOnce
<1> QED
  BY <1>1, <1>5, <1>6, SuspendStep DEF coros

(* co_await on what is in none of the lists. *)
LEMMA ParkStep ==
  ASSUME IInv, NEW t \in Tasks, Park(t)
  PROVE  IInv'
<1>1. /\ Running(t) /\ parked' = parked \cup {t} /\ stack' = Caller
      /\ UNCHANGED <<life, background, owner, waiter, gcList, batch, loop, allocFlag>>
      /\ UNCHANGED <<ready, sleeping, polled>>
  BY DEF Park, lists
<1>2. TypeOK /\ HooksOnce /\ Sorted(sleeping)
  BY DEF IInv, Times
<1>3. /\ ready' \in Seq(Tasks) /\ sleeping' \in Seq(SleepNode) /\ polled' \in Seq(PollNode)
      /\ Once(ready') /\ OnceNode(sleeping') /\ OnceNode(polled') /\ Sorted(sleeping')
  BY <1>1, <1>2 DEF TypeOK, HooksOnce
<1> QED
  BY <1>1, <1>3, SuspendStep

(* What waits outside the lists is scheduled: it stays queued. *)
LEMMA WakeStep ==
  ASSUME IInv, NEW t \in Tasks, NEW u \in Tasks, Wake(t, u)
  PROVE  IInv'
<1>1. /\ Running(t) /\ u \in parked /\ parked' = parked \ {u} /\ ready' = Append(ready, u)
      /\ UNCHANGED <<life, background, owner, waiter, stack, sleeping, polled, gcList, batch>>
      /\ UNCHANGED <<pollfds, left, now, sampled, phase, mode, fallback, allocFlag>>
  BY DEF Wake, loop
<1>2. TypeOK /\ HooksOnce /\ ~In(u, ready)
  BY <1>1 DEF IInv, HooksOnce
<1>3. /\ ready' \in Seq(Tasks) /\ Once(ready')
      /\ \A x : In(x, ready') <=> In(x, ready) \/ x = u
  BY <1>1, <1>2, LinkLast DEF TypeOK, HooksOnce
<1>4. \A x : Queued(x)' <=> Queued(x)
  BY <1>1, <1>3 DEF Queued
<1>5. /\ Waiters' /\ Families' /\ Forest' /\ Garbage'
      /\ \A U : Below(U)' <=> Below(U)
      /\ \A x : Awaits(x)' <=> Awaits(x)
  BY <1>1, SameCoros
<1>6. TypeOK'
  BY <1>1, <1>2, <1>3 DEF TypeOK
<1>7. HooksOnce'
  BY <1>1, <1>2, <1>3 DEF HooksOnce
<1>8. Placed'
  BY <1>1, <1>4, <1>5 DEF IInv, Placed, OneIf
<1>9. StackOrder' /\ Handler' /\ Times'
  BY <1>1, <1>5 DEF IInv, StackOrder, Handler, Times
<1> QED
  BY <1>5, <1>6, <1>7, <1>8, <1>9 DEF IInv

(* co_await on a Fut: the awaited coroutine is not on the stack. *)
LEMMA AwaitStep ==
  ASSUME IInv, NEW t \in Tasks, NEW c \in Tasks, Await(t, c)
  PROVE  IInv'
<1>1. /\ Running(t) /\ {c} \in SUBSET Owned(t) /\ owner[c] = t /\ life[c] = "live"
      /\ waiter' = [waiter EXCEPT ![c] = t] /\ stack' = Caller
      /\ UNCHANGED <<life, background, owner, parked, ready, sleeping, polled, gcList, batch>>
      /\ UNCHANGED <<pollfds, left, now, sampled, phase, mode, fallback, allocFlag>>
  BY DEF Await, Owned, lists, loop
<1>2. TypeOK /\ HooksOnce /\ Waiters /\ Families /\ Forest /\ Garbage
  BY DEF IInv
<1>3. /\ In(t, stack) /\ Caller \in Seq(Tasks) /\ Once(Caller)
      /\ \A x : In(x, Caller) <=> In(x, stack) /\ x # t
      /\ life[t] = "live" /\ mode \in {"main", "report", "drain"}
      /\ ~Queued(t) /\ ~InNode(t, sleeping) /\ ~InNode(t, polled) /\ ~InNode(t, batch)
      /\ \A x \in Tasks : waiter[x] # t
      /\ \A i, j \in 1 .. Len(Caller) :
           i < j => \E U \in SUBSET Tasks : Below(U) /\ Caller[j] \in U /\ Caller[i] \notin U
      /\ \A i \in 2 .. Len(Caller) : waiter[Caller[i]] = None
  BY <1>1, OnTop
<1>4. ~In(c, stack)
  <2>1. {c} \subseteq Subtree({c}) /\ \A x \in Subtree({c}) : ~In(x, stack)
    BY <1>1, BelowTop
  <2> QED
    BY <2>1
<1>5. t # None /\ waiter[c] = None
  BY <1>1, <1>2, <1>3, ReactorAssumption DEF Waiters, WaitersIn
<1>6. /\ \A x \in Tasks : waiter'[x] = IF x = c THEN t ELSE waiter[x]
      /\ waiter' \in [Tasks -> Tasks \cup {None}]
  BY <1>1, <1>2 DEF TypeOK
<1>7. TypeOK'
  BY <1>1, <1>2, <1>3, <1>6 DEF TypeOK
<1>8. HooksOnce'
  BY <1>1, <1>2, <1>3 DEF HooksOnce
<1>9. Waiters'
  BY <1>1, <1>2, <1>3, <1>6 DEF Waiters, WaitersIn
<1>10. Placed'
  <2> SUFFICES ASSUME NEW x \in Tasks
               PROVE  OneIf(life'[x] = "live", In(x, stack'), Queued(x)', InNode(x, sleeping'),
                            InNode(x, polled'), InNode(x, batch'), Awaits(x)')
    BY DEF Placed
  <2>1. OneIf(life[x] = "live", In(x, stack), Queued(x), InNode(x, sleeping),
              InNode(x, polled), InNode(x, batch), Awaits(x))
    BY DEF IInv, Placed
  <2>2. Awaits(x)' <=> Awaits(x) \/ x = t
    <3>1. x # None
      BY ReactorAssumption
    <3> QED
      BY <1>5, <1>6, <3>1 DEF Awaits
  <2>3. In(x, stack') <=> In(x, stack) /\ x # t
    BY <1>1, <1>3
  <2>4. x = t => In(x, stack)
    BY <1>3
  <2> QED
    BY <1>1, <2>1, <2>2, <2>3, <2>4 DEF OneIf, Queued
<1>11. Families' /\ Forest' /\ Garbage'
  BY <1>1, <1>2 DEF Families, FamiliesIn, Forest, Garbage
<1>12. StackOrder'
  <2>1. ASSUME NEW i \in 2 .. Len(Caller) PROVE waiter'[Caller[i]] = None
    <3>1. Caller[i] \in Tasks /\ In(Caller[i], Caller)
      <4>1. i \in 1 .. Len(Caller)
        BY <1>3
      <4> QED
        BY <1>3, <4>1 DEF In
    <3>2. Caller[i] # c
      BY <1>3, <1>4, <3>1
    <3> QED
      BY <1>3, <1>6, <3>1, <3>2
  <2>2. \A U : Below(U)' <=> Below(U)
    BY <1>1 DEF Below
  <2> QED
    BY <1>1, <1>3, <2>1, <2>2 DEF StackOrder
<1>13. Handler' /\ Times'
  BY <1>1, <1>3 DEF IInv, Handler, Times
<1> QED
  BY <1>7, <1>8, <1>9, <1>10, <1>11, <1>12, <1>13 DEF IInv

(* A coroutine that has not been called is nowhere. *)
LEMMA Unborn ==
  ASSUME IInv, NEW c \in Tasks, life[c] = "unborn"
  PROVE  /\ owner[c] = None /\ waiter[c] = None /\ c \notin background
         /\ \A x \in Tasks : owner[x] # c /\ waiter[x] # c
         /\ ~In(c, stack) /\ ~Queued(c) /\ ~InNode(c, sleeping) /\ ~InNode(c, polled)
         /\ ~InNode(c, batch) /\ ~In(c, gcList) /\ ~Awaits(c)
<1>1. /\ ~In(c, stack) /\ ~Queued(c) /\ ~InNode(c, sleeping) /\ ~InNode(c, polled)
      /\ ~InNode(c, batch) /\ ~Awaits(c)
  BY DEF IInv, Placed, OneIf
<1>2. owner[c] = None /\ c \notin background /\ \A x \in Tasks : owner[x] # c
  BY ReactorAssumption DEF IInv, Families, FamiliesIn
<1>3. waiter[c] = None
  BY DEF IInv, Waiters, WaitersIn
<1>4. \A x \in Tasks : waiter[x] # c
  BY <1>1 DEF Awaits
<1>5. ~In(c, gcList)
  BY <1>2 DEF IInv, Garbage
<1> QED
  BY <1>1, <1>2, <1>3, <1>4, <1>5

(* Calling a coroutine. *)
LEMMA SpawnStep ==
  ASSUME IInv, NEW t \in Tasks, NEW c \in Tasks, NEW allocated \in BOOLEAN,
         Spawn(t, c, allocated)
  PROVE  IInv'
<1>1. /\ Running(t) /\ c \notin {Main, Reporter} /\ life[c] = "unborn"
      /\ owner' = [owner EXCEPT ![c] = t]
      /\ life' = [life EXCEPT ![c] = IF allocated THEN "live" ELSE "failed"]
      /\ stack' = IF allocated THEN Append(stack, c) ELSE stack
      /\ UNCHANGED <<background, waiter, parked, ready, sleeping, polled, gcList, batch>>
      /\ UNCHANGED <<pollfds, left, now, sampled, phase, mode, fallback, allocFlag>>
  BY DEF Spawn, lists, loop
<1>2. TypeOK /\ HooksOnce /\ Waiters /\ Families /\ Forest /\ Garbage
  BY DEF IInv
<1>3. /\ In(t, stack) /\ life[t] = "live" /\ mode \in {"main", "report", "drain"}
  BY <1>1, OnTop
<1>4. /\ owner[c] = None /\ waiter[c] = None /\ c \notin background
      /\ \A x \in Tasks : owner[x] # c /\ waiter[x] # c
      /\ ~In(c, stack) /\ ~Queued(c) /\ ~InNode(c, sleeping) /\ ~InNode(c, polled)
      /\ ~InNode(c, batch) /\ ~In(c, gcList) /\ ~Awaits(c)
  BY <1>1, Unborn
<1>5. t # None /\ c # t
  BY <1>1, <1>3, ReactorAssumption
<1>6. /\ \A x \in Tasks : owner'[x] = IF x = c THEN t ELSE owner[x]
      /\ owner' \in [Tasks -> Tasks \cup {None}]
      /\ \A x \in Tasks : life'[x] = IF x # c THEN life[x] ELSE IF allocated THEN "live" ELSE "failed"
      /\ life' \in [Tasks -> Lives]
  BY <1>1, <1>2 DEF TypeOK, Lives
<1>7. /\ stack' \in Seq(Tasks) /\ Once(stack')
      /\ \A x : In(x, stack') <=> In(x, stack) \/ (allocated /\ x = c)
  <2>1. stack \in Seq(Tasks) /\ Once(stack)
    BY <1>2 DEF TypeOK, HooksOnce
  <2>2. CASE allocated
    BY <1>1, <1>4, <2>1, <2>2, LinkLast
  <2>3. CASE ~allocated
    BY <1>1, <2>1, <2>3
  <2> QED
    BY <2>2, <2>3
<1>8. TypeOK'
  BY <1>1, <1>2, <1>6, <1>7 DEF TypeOK
<1>9. HooksOnce'
  BY <1>1, <1>2, <1>7 DEF HooksOnce
<1>10. Placed'
  <2> SUFFICES ASSUME NEW x \in Tasks
               PROVE  OneIf(life'[x] = "live", In(x, stack'), Queued(x)', InNode(x, sleeping'),
                            InNode(x, polled'), InNode(x, batch'), Awaits(x)')
    BY DEF Placed
  <2>1. OneIf(life[x] = "live", In(x, stack), Queued(x), InNode(x, sleeping),
              InNode(x, polled), InNode(x, batch), Awaits(x))
    BY DEF IInv, Placed
  <2>2. Awaits(x)' <=> Awaits(x)
    BY <1>1 DEF Awaits
  <2>3. /\ Queued(x)' <=> Queued(x)
        /\ InNode(x, sleeping') <=> InNode(x, sleeping)
        /\ InNode(x, polled') <=> InNode(x, polled)
        /\ InNode(x, batch') <=> InNode(x, batch)
    BY <1>1 DEF Queued
  <2>4. In(x, stack') <=> In(x, stack) \/ (allocated /\ x = c)
    BY <1>7
  <2>5. CASE x = c
    <3>1. life'[x] = "live" <=> allocated
      BY <1>6, <2>5
    <3> QED
      BY <1>4, <2>2, <2>3, <2>4, <2>5, <3>1 DEF OneIf
  <2>6. CASE x # c
    <3>1. life'[x] = life[x]
      BY <1>6, <2>6
    <3> QED
      BY <2>1, <2>2, <2>3, <2>4, <2>6, <3>1 DEF OneIf
  <2> QED
    BY <2>5, <2>6
<1>11. Waiters'
  BY <1>1, <1>2, <1>4, <1>6 DEF Waiters, WaitersIn
<1>12. Families'
  BY <1>1, <1>2, <1>3, <1>4, <1>5, <1>6 DEF Families, FamiliesIn, TypeOK
<1>13. /\ Forest' /\ \A U \in SUBSET Tasks : Below(U) => Below(U \cup {c})'
  BY <1>1, <1>2, <1>4, <1>5, NewOwner
<1>14. StackOrder'
  <2>0. /\ Len(stack) \in Nat /\ \A i \in 1 .. Len(stack) : stack[i] \in Tasks /\ stack[i] # c
    BY <1>2, <1>4 DEF TypeOK, In
  <2>1. ASSUME NEW i \in 1 .. Len(stack), NEW j \in 1 .. Len(stack), i < j
        PROVE  \E U \in SUBSET Tasks : Below(U)' /\ stack[j] \in U /\ stack[i] \notin U
    <3>1. PICK U \in SUBSET Tasks : Below(U) /\ stack[j] \in U /\ stack[i] \notin U
      BY <2>1 DEF IInv, StackOrder
    <3>2. Below(U \cup {c})' /\ U \cup {c} \in SUBSET Tasks
      BY <1>13, <3>1
    <3>3. stack[j] \in U \cup {c} /\ stack[i] \notin U \cup {c}
      BY <2>0, <3>1
    <3> QED
      BY <3>2, <3>3
  <2>2. Below({c})'
    BY <1>4, <1>5, <1>6 DEF Below
  <2>3. \A i \in 2 .. Len(stack) : waiter'[stack[i]] = None
    BY <1>1 DEF IInv, StackOrder
  <2>4. CASE ~allocated
    BY <1>1, <2>1, <2>3, <2>4 DEF StackOrder
  <2>5. CASE allocated
    <3>1. /\ Len(stack') = Len(stack) + 1 /\ stack'[Len(stack) + 1] = c
          /\ \A i \in 1 .. Len(stack) : stack'[i] = stack[i]
      BY <1>1, <1>2, <2>5 DEF TypeOK
    <3>2. ASSUME NEW i \in 1 .. Len(stack'), NEW j \in 1 .. Len(stack'), i < j
          PROVE  \E U \in SUBSET Tasks : Below(U)' /\ stack'[j] \in U /\ stack'[i] \notin U
      <4>1. i \in 1 .. Len(stack)
        BY <2>0, <3>1, <3>2
      <4>2. CASE j = Len(stack) + 1
        <5>1. stack'[j] \in {c} /\ stack'[i] \notin {c} /\ {c} \in SUBSET Tasks
          BY <2>0, <3>1, <4>1, <4>2
        <5> QED
          BY <2>2, <5>1
      <4>3. CASE j \in 1 .. Len(stack)
        BY <2>1, <3>1, <3>2, <4>1, <4>3
      <4> QED
        BY <2>0, <3>1, <4>2, <4>3
    <3>3. ASSUME NEW i \in 2 .. Len(stack') PROVE waiter'[stack'[i]] = None
      <4>1. CASE i = Len(stack) + 1
        BY <1>1, <1>4, <3>1, <4>1
      <4>2. CASE i \in 2 .. Len(stack)
        <5>1. i \in 1 .. Len(stack)
          BY <2>0, <4>2
        <5> QED
          BY <2>3, <3>1, <4>2, <5>1
      <4> QED
        BY <2>0, <3>1, <4>1, <4>2
    <3> QED
      BY <3>2, <3>3 DEF StackOrder
  <2> QED
    BY <2>4, <2>5
<1>15. Handler' /\ Times'
  BY <1>1, <1>3, <1>6, ReactorAssumption DEF IInv, Handler, Times
<1>16. Garbage'
  BY <1>1, <1>2, <1>4, <1>6 DEF Garbage
<1> QED
  BY <1>8, <1>9, <1>10, <1>11, <1>12, <1>13, <1>14, <1>15, <1>16 DEF IInv

(* Calling a background coroutine that gets its frame. *)
LEMMA SpawnBackgroundStep ==
  ASSUME IInv, NEW t \in Tasks, NEW b \in Tasks, NEW given \in SUBSET Tasks,
         SpawnBackground(t, b, given, TRUE)
  PROVE  IInv'
<1>1. /\ Running(t) /\ b \notin {Main, Reporter} /\ life[b] = "unborn"
      /\ given \in SUBSET Owned(t) /\ \A x \in given : owner[x] = t
      /\ owner' = [x \in Tasks |-> IF x \in given THEN b ELSE owner[x]]
      /\ life' = [life EXCEPT ![b] = "live"] /\ background' = background \cup {b}
      /\ stack' = Append(stack, b) /\ allocFlag' = FALSE
      /\ UNCHANGED <<waiter, parked, ready, sleeping, polled, gcList, batch>>
      /\ UNCHANGED <<pollfds, left, now, sampled, phase, mode, fallback>>
  BY DEF SpawnBackground, Owned, lists, loop
<1>2. TypeOK /\ HooksOnce /\ Waiters /\ Families /\ Forest /\ Garbage
  BY DEF IInv
<1>3. /\ In(t, stack) /\ life[t] = "live" /\ mode \in {"main", "report", "drain"}
      /\ \A x \in Tasks : waiter[x] # t
  BY <1>1, OnTop
<1>4. /\ owner[b] = None /\ waiter[b] = None /\ b \notin background
      /\ \A x \in Tasks : owner[x] # b /\ waiter[x] # b
      /\ ~In(b, stack) /\ ~Queued(b) /\ ~InNode(b, sleeping) /\ ~InNode(b, polled)
      /\ ~InNode(b, batch) /\ ~In(b, gcList) /\ ~Awaits(b)
  BY <1>1, Unborn
<1>5. t # None /\ b # None /\ b # t /\ b \notin given
  BY <1>1, <1>3, <1>4, ReactorAssumption
<1>6. /\ \A x \in Tasks : owner'[x] = IF x \in given THEN b ELSE owner[x]
      /\ owner' \in [Tasks -> Tasks \cup {None}]
      /\ \A x \in Tasks : life'[x] = IF x = b THEN "live" ELSE life[x]
      /\ life' \in [Tasks -> Lives]
  BY <1>1, <1>2 DEF TypeOK, Lives
<1>7. /\ stack' \in Seq(Tasks) /\ Once(stack')
      /\ \A x : In(x, stack') <=> In(x, stack) \/ x = b
  BY <1>1, <1>2, <1>4, LinkLast DEF TypeOK, HooksOnce
<1>8. TypeOK'
  BY <1>1, <1>2, <1>6, <1>7 DEF TypeOK
<1>9. HooksOnce'
  BY <1>1, <1>2, <1>7 DEF HooksOnce
<1>10. Placed'
  <2> SUFFICES ASSUME NEW x \in Tasks
               PROVE  OneIf(life'[x] = "live", In(x, stack'), Queued(x)', InNode(x, sleeping'),
                            InNode(x, polled'), InNode(x, batch'), Awaits(x)')
    BY DEF Placed
  <2>1. OneIf(life[x] = "live", In(x, stack), Queued(x), InNode(x, sleeping),
              InNode(x, polled), InNode(x, batch), Awaits(x))
    BY DEF IInv, Placed
  <2>2. Awaits(x)' <=> Awaits(x)
    BY <1>1 DEF Awaits
  <2>3. /\ Queued(x)' <=> Queued(x)
        /\ InNode(x, sleeping') <=> InNode(x, sleeping)
        /\ InNode(x, polled') <=> InNode(x, polled)
        /\ InNode(x, batch') <=> InNode(x, batch)
    BY <1>1 DEF Queued
  <2>4. In(x, stack') <=> In(x, stack) \/ x = b
    BY <1>7
  <2>5. CASE x = b
    <3>1. life'[x] = "live"
      BY <1>6, <2>5
    <3> QED
      BY <1>4, <2>2, <2>3, <2>4, <2>5, <3>1 DEF OneIf
  <2>6. CASE x # b
    <3>1. life'[x] = life[x]
      BY <1>6, <2>6
    <3> QED
      BY <2>1, <2>2, <2>3, <2>4, <2>6, <3>1 DEF OneIf
  <2> QED
    BY <2>5, <2>6
<1>11. Waiters'
  <2>1. \A x \in given : waiter[x] = None
    BY <1>1, <1>2, <1>3 DEF Waiters, WaitersIn
  <2> QED
    BY <1>1, <1>2, <1>4, <1>6, <2>1 DEF Waiters, WaitersIn
<1>12. Families'
  <2>1. \A x \in given :
          x \notin {Main, Reporter} /\ x \notin background /\ life[x] \notin {"unborn", "freed"}
    BY <1>1, <1>2, <1>5 DEF Families, FamiliesIn
  <2>2. \A x \in Tasks : life'[x] \in {"unborn", "freed"} => owner'[x] = None
    BY <1>2, <1>4, <1>6, <2>1 DEF Families, FamiliesIn
  <2>3. \A x \in Tasks : owner'[x] # None =>
          life'[owner'[x]] \in {"live", "done"} /\ x \notin {Main, Reporter} /\ x \notin background'
    BY <1>1, <1>2, <1>4, <1>5, <1>6, <2>1 DEF Families, FamiliesIn, TypeOK
  <2>4. \A x \in Tasks : life'[x] \in {"live", "done", "failed"} =>
          owner'[x] # None \/ x \in background' \/ x \in {Main, Reporter}
    BY <1>1, <1>2, <1>5, <1>6 DEF Families, FamiliesIn
  <2>5. \A x \in background' : life'[x] \in {"live", "done"} /\ x \notin {Main, Reporter}
    BY <1>1, <1>2, <1>6 DEF Families, FamiliesIn, TypeOK
  <2> QED
    BY <2>2, <2>3, <2>4, <2>5 DEF Families, FamiliesIn
<1>13. /\ Forest' /\ \A U \in SUBSET Tasks : Below(U) => Below(U \ {b})'
       /\ \A U \in SUBSET Tasks : Below(U) /\ given \subseteq U => Below(U \cup {b})'
  BY <1>1, <1>2, <1>4, <1>5, NewParent
<1>14. StackOrder'
  <2>0. /\ Len(stack) \in Nat /\ \A i \in 1 .. Len(stack) : stack[i] \in Tasks /\ stack[i] # b
    BY <1>2, <1>4 DEF TypeOK, In
  <2>1. ASSUME NEW i \in 1 .. Len(stack), NEW j \in 1 .. Len(stack), i < j
        PROVE  \E U \in SUBSET Tasks : Below(U)' /\ stack[j] \in U /\ stack[i] \notin U
    <3>1. PICK U \in SUBSET Tasks : Below(U) /\ stack[j] \in U /\ stack[i] \notin U
      BY <2>1 DEF IInv, StackOrder
    <3>2. Below(U \ {b})' /\ U \ {b} \in SUBSET Tasks
      BY <1>13, <3>1
    <3>3. stack[j] \in U \ {b} /\ stack[i] \notin U \ {b}
      BY <2>0, <3>1
    <3> QED
      BY <3>2, <3>3
  <2>2. PICK V \in SUBSET Tasks :
          Below(V)' /\ b \in V /\ \A i \in 1 .. Len(stack) : stack[i] \notin V
    <3>1. PICK S \in SUBSET Tasks : Below(S) /\ given \subseteq S /\ \A x \in S : ~In(x, stack)
      <4>1. /\ Subtree(given) \in SUBSET Tasks /\ Separate(Subtree(given))
            /\ given \subseteq Subtree(given) /\ \A x \in Subtree(given) : ~In(x, stack)
        BY <1>1, BelowTop
      <4> QED
        BY <4>1, Zenon DEF Separate
    <3>2. S \cup {b} \in SUBSET Tasks /\ Below(S \cup {b})'
      BY <1>13, <3>1
    <3>3. \A i \in 1 .. Len(stack) : stack[i] \notin S \cup {b}
      BY <2>0, <3>1 DEF In
    <3> QED
      BY <3>2, <3>3
  <2>3. \A i \in 2 .. Len(stack) : waiter'[stack[i]] = None
    BY <1>1 DEF IInv, StackOrder
  <2>4. /\ Len(stack') = Len(stack) + 1 /\ stack'[Len(stack) + 1] = b
        /\ \A i \in 1 .. Len(stack) : stack'[i] = stack[i]
    BY <1>1, <1>2 DEF TypeOK
  <2>5. ASSUME NEW i \in 1 .. Len(stack'), NEW j \in 1 .. Len(stack'), i < j
        PROVE  \E U \in SUBSET Tasks : Below(U)' /\ stack'[j] \in U /\ stack'[i] \notin U
    <3>1. i \in 1 .. Len(stack)
      BY <2>0, <2>4, <2>5
    <3>2. CASE j = Len(stack) + 1
      <4>1. stack'[j] \in V /\ stack'[i] \notin V
        BY <2>2, <2>4, <3>1, <3>2
      <4> QED
        BY <2>2, <4>1
    <3>3. CASE j \in 1 .. Len(stack)
      BY <2>1, <2>4, <2>5, <3>1, <3>3
    <3> QED
      BY <2>0, <2>4, <3>2, <3>3
  <2>6. ASSUME NEW i \in 2 .. Len(stack') PROVE waiter'[stack'[i]] = None
    <3>1. CASE i = Len(stack) + 1
      BY <1>1, <1>4, <2>4, <3>1
    <3>2. CASE i \in 2 .. Len(stack)
      <4>1. i \in 1 .. Len(stack)
        BY <2>0, <3>2
      <4> QED
        BY <2>3, <2>4, <3>2, <4>1
    <3> QED
      BY <2>0, <2>4, <3>1, <3>2
  <2> QED
    BY <2>5, <2>6 DEF StackOrder
<1>15. Handler' /\ Times'
  BY <1>1, <1>3, <1>6, ReactorAssumption DEF IInv, Handler, Times
<1>16. Garbage'
  BY <1>1, <1>2, <1>4, <1>6 DEF Garbage
<1> QED
  BY <1>8, <1>9, <1>10, <1>11, <1>12, <1>13, <1>14, <1>15, <1>16 DEF IInv

(* Calling a background coroutine that gets none: what it was given goes. *)
LEMMA SpawnBackgroundFailStep ==
  ASSUME IInv, NEW t \in Tasks, NEW b \in Tasks, NEW given \in SUBSET Tasks,
         SpawnBackground(t, b, given, FALSE)
  PROVE  IInv'
<1> DEFINE S == Subtree(given)
           f == [life EXCEPT ![b] = "freed"]
<1>0. Running(t) /\ given \in SUBSET Owned(t)
  BY DEF SpawnBackground
<1>1. /\ S \in SUBSET Tasks /\ Separate(S)
      /\ \A x \in S : ~In(x, stack) /\ owner[x] # None
      /\ \A x \in S : x \notin background /\ x \notin {Main, Reporter}
  BY <1>0, BelowTop
<1>2. /\ b \notin {Main, Reporter} /\ life[b] = "unborn"
      /\ Destroy(S, f, waiter) /\ allocFlag' = TRUE
      /\ UNCHANGED <<stack, gcList, pollfds, left, now, sampled, phase, mode, fallback>>
  BY DEF SpawnBackground, loop
<1> HIDE DEF S
<1>3. TypeOK /\ HooksOnce /\ Sorted(sleeping) /\ Waiters /\ Families
  BY DEF IInv, Times
<1>4. /\ owner[b] = None /\ waiter[b] = None /\ b \notin background
      /\ \A x \in Tasks : owner[x] # b /\ waiter[x] # b
      /\ ~In(b, stack) /\ ~Queued(b) /\ ~InNode(b, sleeping) /\ ~InNode(b, polled)
      /\ ~InNode(b, batch) /\ ~In(b, gcList) /\ ~Awaits(b)
  BY <1>2, Unborn
<1>5. /\ f \in [Tasks -> Lives] /\ \A x \in Tasks : f[x] = IF x = b THEN "freed" ELSE life[x]
      /\ waiter \in [Tasks -> Tasks \cup {None}]
      /\ \A c \in Tasks : waiter[c] \in {waiter[c], None}
  BY <1>3 DEF TypeOK, Lives
<1> HIDE DEF f
<1>6. FamiliesIn(f)
  BY <1>3, <1>4, <1>5 DEF Families, FamiliesIn, TypeOK
<1>7. WaitersIn(f, waiter)
  BY <1>3, <1>4, <1>5 DEF Waiters, WaitersIn
<1>8. ASSUME NEW x \in Tasks \ S
      PROVE  OneIf(f[x] = "live", In(x, stack), Queued(x), InNode(x, sleeping),
                   InNode(x, polled), InNode(x, batch), \E c \in Tasks : waiter[c] = x)
  <2>1. OneIf(life[x] = "live", In(x, stack), Queued(x), InNode(x, sleeping),
              InNode(x, polled), InNode(x, batch), \E c \in Tasks : waiter[c] = x)
    BY DEF IInv, Placed, Awaits
  <2>2. f[x] = "live" <=> life[x] = "live"
    BY <1>2, <1>5
  <2> QED
    BY <2>1, <2>2 DEF OneIf
<1>9. StackFits(S, f, waiter)
  <2>1. /\ stack' \in Seq(Tasks) /\ Once(stack') /\ \A x \in S : ~In(x, stack')
    BY <1>1, <1>2, <1>3 DEF TypeOK, HooksOnce
  <2> QED
    BY <1>2, <1>8, <2>1 DEF StackFits, IInv, StackOrder
<1>10. GarbageFits(S, f) /\ LoopFits
  <2>1. \A x \in Tasks : In(x, gcList') <=> x \in background \ S /\ f[x] = "done"
    BY <1>1, <1>2, <1>4, <1>5 DEF IInv, Garbage
  <2> QED
    BY <1>2, <1>3, <2>1 DEF GarbageFits, LoopFits, TypeOK, HooksOnce
<1>11. Handler'
  <2>1. life'[Main] = life[Main] /\ life'[Reporter] = life[Reporter]
    BY <1>1, <1>2, <1>5, ReactorAssumption DEF Destroy, FreedIn
  <2>2. batch = <<>> => batch' = <<>>
    BY <1>2, <1>3, DestroyLists
  <2> QED
    BY <1>2, <2>1, <2>2 DEF IInv, Handler
<1> QED
  BY <1>1, <1>2, <1>5, <1>6, <1>7, <1>9, <1>10, <1>11, DestroyStep

-----------------------------------------------------------------------------
(* What the event loop and the signal handler destroy.                      *)

(* What is below coroutines without an owner can be destroyed, and holds no *)
(* other coroutine without an owner.                                        *)
LEMMA BelowRoots ==
  ASSUME IInv, NEW R \in SUBSET Tasks, \A c \in R : owner[c] = None
  PROVE  /\ Subtree(R) \in SUBSET Tasks /\ Separate(Subtree(R)) /\ R \subseteq Subtree(R)
         /\ \A x \in background : x \in Subtree(R) => x \in R
         /\ Main \in Subtree(R) => Main \in R
         /\ Reporter \in Subtree(R) => Reporter \in R
<1> DEFINE S == Subtree(R)
<1>1. /\ S \in SUBSET Tasks /\ R \subseteq S /\ Below(S)
      /\ \A c \in S : c \notin R => owner[c] \in S
  BY SubtreeProperties DEF IInv
<1> HIDE DEF S
<1>2. None \notin S
  BY <1>1, ReactorAssumption
<1>3. ASSUME NEW c \in S, waiter[c] # None PROVE waiter[c] \in S
  <2>1. owner[c] = waiter[c]
    BY <1>1, <1>3 DEF IInv, Waiters, WaitersIn
  <2> QED
    BY <1>1, <1>3, <2>1
<1>4. \A x \in Tasks : x \in background \cup {Main, Reporter} => owner[x] = None
  BY DEF IInv, Families, FamiliesIn
<1>5. background \cup {Main, Reporter} \subseteq Tasks
  BY ReactorAssumption DEF IInv, TypeOK
<1>6. \A x \in background \cup {Main, Reporter} : x \in S => x \in R
  BY <1>1, <1>2, <1>4, <1>5
<1> QED
  BY <1>1, <1>3, <1>6 DEF S, Separate

(* gc(). *)
LEMMA CollectStep ==
  ASSUME IInv, stack = <<>>, UNCHANGED stack, CollectGarbage, LoopFits, phase # "dispatch",
         mode' = mode \/ (mode = "drain" /\ mode' \in {"exit", "aborted"})
  PROVE  IInv'
<1> DEFINE R == Elems(gcList)
           S == Subtree(R)
<1>1. Destroy(S, life, waiter) /\ gcList' = <<>>
  BY DEF CollectGarbage
<1>2. TypeOK /\ HooksOnce /\ Sorted(sleeping)
  BY DEF IInv, Times
<1>3. R \in SUBSET Tasks
  BY <1>2 DEF TypeOK, Elems
<1>4. \A t \in Tasks : t \in R <=> t \in background /\ life[t] = "done"
  BY Members DEF IInv, Garbage
<1>5. \A c \in R : owner[c] = None /\ c \in background
  BY <1>3, <1>4 DEF IInv, Families, FamiliesIn
<1>6. Main \notin R /\ Reporter \notin R
  BY <1>5 DEF IInv, Families, FamiliesIn
<1> HIDE DEF R
<1>7. /\ S \in SUBSET Tasks /\ Separate(S) /\ R \subseteq S
      /\ Main \notin S /\ Reporter \notin S
  BY <1>3, <1>5, <1>6, BelowRoots
<1> HIDE DEF S
<1>8. \A x \in S : ~In(x, stack)
  BY DEF In
<1>9. GarbageFits(S, life)
  <2>1. gcList' \in Seq(Tasks) /\ Once(gcList') /\ \A t \in Tasks : ~In(t, gcList')
    BY <1>1 DEF Once, In
  <2> QED
    BY <1>4, <1>7, <2>1 DEF GarbageFits
<1>10. Handler'
  <2>1. life'[Main] = life[Main] /\ life'[Reporter] = life[Reporter]
    BY <1>1, <1>7, ReactorAssumption DEF Destroy, FreedIn
  <2>2. batch = <<>>
    BY DEF IInv, Handler
  <2>3. batch' = <<>>
    BY <1>1, <1>2, <2>2, DestroyLists
  <2> QED
    BY <2>1, <2>3 DEF IInv, Handler
<1> QED
  BY <1>1, <1>7, <1>8, <1>9, <1>10, OnlyDestroyStep

(* The handler leaves its first block_on. *)
LEMMA LeaveMainStep ==
  ASSUME IInv, stack = <<>>, mode = "main", phase # "dispatch",
         NEW failed \in BOOLEAN, NEW allocated \in BOOLEAN, LeaveMain(failed, allocated)
  PROVE  IInv'
<1> DEFINE S == Subtree({Main})
           g == IF failed THEN IF allocated THEN "live" ELSE "failed" ELSE "unborn"
           f == [life EXCEPT ![Reporter] = g]
<1>1. TypeOK /\ HooksOnce /\ Sorted(sleeping) /\ Waiters /\ Families
  BY DEF IInv, Times
<1>2. life[Main] \in {"live", "done"} /\ life[Reporter] = "unborn" /\ batch = <<>>
  BY DEF IInv, Handler
<1>3. Main \in Tasks /\ Reporter \in Tasks /\ Main # Reporter /\ None \notin Tasks
  BY ReactorAssumption
<1>4. /\ owner[Reporter] = None /\ waiter[Reporter] = None /\ Reporter \notin background
      /\ \A x \in Tasks : owner[x] # Reporter /\ waiter[x] # Reporter
      /\ ~Queued(Reporter) /\ ~InNode(Reporter, sleeping) /\ ~InNode(Reporter, polled)
      /\ ~InNode(Reporter, batch) /\ ~Awaits(Reporter)
  BY <1>2, <1>3, Unborn
<1>5. owner[Main] = None /\ Main \notin background
  BY <1>1, <1>3 DEF Families, FamiliesIn
<1>6. /\ S \in SUBSET Tasks /\ Separate(S) /\ Main \in S /\ Reporter \notin S
      /\ \A x \in background : x \notin S
  <2>1. {Main} \in SUBSET Tasks /\ \A c \in {Main} : owner[c] = None
    BY <1>3, <1>5
  <2> QED
    BY <1>3, <1>5, <2>1, BelowRoots
<1>7. life = [life EXCEPT ![Reporter] = "unborn"]
  BY <1>1, <1>2 DEF TypeOK
<1>8. /\ Destroy(S, f, waiter)
      /\ stack' = IF g = "live" THEN <<Reporter>> ELSE <<>>
      /\ mode' = IF failed THEN "report" ELSE "drain"
      /\ phase' = "start"
      /\ UNCHANGED <<gcList, pollfds, left, now, sampled, fallback, allocFlag>>
  <2>1. CASE failed
    BY <2>1 DEF LeaveMain
  <2>2. CASE ~failed
    BY <1>7, <2>2 DEF LeaveMain
  <2> QED
    BY <2>1, <2>2
<1>9. g \in {"live", "failed", "unborn"} /\ (g = "unborn" <=> ~failed)
  OBVIOUS
<1> HIDE DEF S, g
<1>10. /\ f \in [Tasks -> Lives] /\ f[Reporter] = g
       /\ \A x \in Tasks : x # Reporter => f[x] = life[x]
  BY <1>1, <1>3, <1>9 DEF TypeOK, Lives
<1> HIDE DEF f
<1>11. FamiliesIn(f)
  BY <1>1, <1>3, <1>4, <1>9, <1>10 DEF Families, FamiliesIn, TypeOK
<1>12. /\ WaitersIn(f, waiter) /\ waiter \in [Tasks -> Tasks \cup {None}]
       /\ \A c \in Tasks : waiter[c] \in {waiter[c], None}
  BY <1>1, <1>4, <1>10 DEF Waiters, WaitersIn, TypeOK
<1>13. /\ stack' \in Seq(Tasks) /\ Len(stack') \in 0 .. 1
       /\ \A x : In(x, stack') <=> x = Reporter /\ g = "live"
  BY <1>3, <1>8 DEF In
<1>14. ASSUME NEW x \in Tasks \ S
       PROVE  OneIf(f[x] = "live", In(x, stack'), Queued(x), InNode(x, sleeping),
                    InNode(x, polled), InNode(x, batch), \E c \in Tasks : waiter[c] = x)
  <2>1. OneIf(life[x] = "live", In(x, stack), Queued(x), InNode(x, sleeping),
              InNode(x, polled), InNode(x, batch), Awaits(x))
    BY DEF IInv, Placed
  <2>2. ~In(x, stack)
    BY DEF In
  <2>3. CASE x = Reporter
    BY <1>4, <1>9, <1>10, <1>13, <2>3 DEF OneIf, Awaits
  <2>4. CASE x # Reporter
    <3>1. f[x] = life[x] /\ ~In(x, stack')
      BY <1>10, <1>13, <2>4
    <3> QED
      BY <2>1, <2>2, <3>1 DEF OneIf, Awaits
  <2> QED
    BY <2>3, <2>4
<1>15. StackFits(S, f, waiter)
  <2>1. Once(stack')
    BY <1>13 DEF Once
  <2>2. \A x \in S : ~In(x, stack')
    BY <1>6, <1>13
  <2>3. /\ \A i, j \in 1 .. Len(stack') : ~(i < j)
        /\ \A i \in 2 .. Len(stack') : FALSE
    BY <1>13
  <2> QED
    BY <1>13, <1>14, <2>1, <2>2, <2>3 DEF StackFits
<1>16. GarbageFits(S, f)
  BY <1>1, <1>4, <1>6, <1>8, <1>10 DEF GarbageFits, IInv, Garbage, TypeOK, HooksOnce
<1>17. LoopFits
  BY <1>1, <1>8 DEF LoopFits, Phases, Modes, TypeOK
<1>18. Handler'
  <2>1. life'[Main] = "freed" /\ life'[Reporter] = g
    BY <1>3, <1>6, <1>8, <1>10 DEF Destroy, FreedIn
  <2>2. batch' = <<>>
    BY <1>1, <1>2, <1>8, DestroyLists
  <2> QED
    BY <1>8, <1>9, <2>1, <2>2 DEF Handler
<1> QED
  BY <1>6, <1>8, <1>10, <1>11, <1>12, <1>15, <1>16, <1>17, <1>18, DestroyStep

(* And its second one. *)
LEMMA LeaveReportStep ==
  ASSUME IInv, stack = <<>>, mode = "report", phase # "dispatch", LeaveReport
  PROVE  IInv'
<1> DEFINE S == Subtree({Reporter})
<1>1. TypeOK /\ HooksOnce /\ Sorted(sleeping) /\ Families
  BY DEF IInv, Times
<1>2. life[Main] = "freed" /\ batch = <<>>
  BY DEF IInv, Handler
<1>3. Main \in Tasks /\ Reporter \in Tasks /\ Main # Reporter
  BY ReactorAssumption
<1>4. owner[Reporter] = None /\ Reporter \notin background
  BY <1>1, <1>3 DEF Families, FamiliesIn
<1>5. /\ S \in SUBSET Tasks /\ Separate(S) /\ Reporter \in S /\ Main \notin S
      /\ \A x \in background : x \notin S
  <2>1. {Reporter} \in SUBSET Tasks /\ \A c \in {Reporter} : owner[c] = None
    BY <1>3, <1>4
  <2> QED
    BY <1>3, <1>4, <2>1, BelowRoots
<1>6. /\ Destroy(S, life, waiter) /\ mode' = "drain" /\ phase' = "start"
      /\ UNCHANGED <<stack, gcList, pollfds, left, now, sampled, fallback, allocFlag>>
  BY DEF LeaveReport
<1> HIDE DEF S
<1>7. \A x \in S : ~In(x, stack)
  BY DEF In
<1>8. GarbageFits(S, life)
  BY <1>1, <1>5, <1>6 DEF GarbageFits, IInv, Garbage, TypeOK, HooksOnce
<1>9. LoopFits
  BY <1>1, <1>6 DEF LoopFits, Phases, Modes, TypeOK
<1>10. Handler'
  <2>1. life'[Main] = "freed" /\ life'[Reporter] = "freed"
    BY <1>2, <1>3, <1>5, <1>6 DEF Destroy, FreedIn
  <2>2. batch' = <<>>
    BY <1>1, <1>2, <1>6, DestroyLists
  <2> QED
    BY <1>6, <2>1, <2>2 DEF Handler
<1> QED
  BY <1>5, <1>6, <1>7, <1>8, <1>9, <1>10, OnlyDestroyStep

-----------------------------------------------------------------------------
(* The event loop between two coroutines.                                   *)

(* Steps that only move coroutines between the lists and the stack. *)
LEMMA MoveStep ==
  ASSUME IInv, UNCHANGED <<coros, gcList, mode>>, TypeOK', HooksOnce', Times',
         mode \in {"main", "report", "drain"},
         phase' # "dispatch" => batch' = <<>>,
         stack' = stack \/ Len(stack') = 1,
         \A x \in Tasks :
           OneIf(life[x] = "live", In(x, stack'), Queued(x)', InNode(x, sleeping'),
                 InNode(x, polled'), InNode(x, batch'), Awaits(x))
  PROVE  IInv'
<1>1. /\ Waiters' /\ Families' /\ Forest' /\ Garbage'
      /\ \A U : Below(U)' <=> Below(U)
      /\ \A x : Awaits(x)' <=> Awaits(x)
  BY SameCoros DEF coros
<1>2. life' = life /\ waiter' = waiter
  BY DEF coros
<1>3. Placed'
  <2> SUFFICES ASSUME NEW x \in Tasks
               PROVE  OneIf(life'[x] = "live", In(x, stack'), Queued(x)', InNode(x, sleeping'),
                            InNode(x, polled'), InNode(x, batch'), Awaits(x)')
    BY DEF Placed
  <2>1. OneIf(life[x] = "live", In(x, stack'), Queued(x)', InNode(x, sleeping'),
              InNode(x, polled'), InNode(x, batch'), Awaits(x))
    OBVIOUS
  <2>2. life'[x] = life[x] /\ (Awaits(x)' <=> Awaits(x))
    BY <1>1, <1>2
  <2> QED
    BY <2>1, <2>2 DEF OneIf
<1>4. StackOrder'
  <2>1. CASE stack' = stack
    BY <1>1, <1>2, <2>1 DEF IInv, StackOrder
  <2>2. CASE Len(stack') = 1
    <3>1. /\ \A i, j \in 1 .. Len(stack') : ~(i < j)
          /\ \A i \in 2 .. Len(stack') : FALSE
      BY <2>2
    <3> QED
      BY <3>1 DEF StackOrder
  <2> QED
    BY <2>1, <2>2
<1>5. Handler'
  BY <1>2 DEF IInv, Handler
<1> QED
  BY <1>1, <1>3, <1>4, <1>5 DEF IInv

(* Steps that leave the lists alone. *)
LEMMA QuietStep ==
  ASSUME IInv, UNCHANGED <<coros, stack, lists, sampled, mode, fallback, allocFlag>>,
         pollfds' \in Seq(PollFd), left' \in Nat, phase' \in Phases,
         now' \in Nat, now <= now', now' <= MaxTime,
         mode \in {"main", "report", "drain"},
         phase' # "dispatch" => batch = <<>>
  PROVE  IInv'
<1>1. /\ UNCHANGED <<life, background, owner, waiter, parked>>
      /\ UNCHANGED <<ready, sleeping, polled, gcList, batch>>
  BY DEF coros, lists
<1>2. TypeOK'
  BY <1>1 DEF IInv, TypeOK
<1>3. HooksOnce'
  BY <1>1 DEF IInv, HooksOnce
<1>4. Times'
  BY <1>1 DEF IInv, Times, TypeOK
<1>5. \A x \in Tasks :
        OneIf(life[x] = "live", In(x, stack'), Queued(x)', InNode(x, sleeping'),
              InNode(x, polled'), InNode(x, batch'), Awaits(x))
  BY <1>1 DEF IInv, Placed, Queued
<1> QED
  BY <1>1, <1>2, <1>3, <1>4, <1>5, MoveStep

(* SleepersDone, ReadyDone, SkipPoll, SkipEntry and Tick. *)
LEMMA QuietSteps ==
  ASSUME IInv, SleepersDone \/ ReadyDone \/ SkipPoll \/ SkipEntry \/ Tick
  PROVE  IInv'
<1>1. /\ pollfds \in Seq(PollFd) /\ left \in Nat /\ now \in Nat /\ phase \in Phases
      /\ now <= MaxTime /\ now <= now /\ (phase # "dispatch" => batch = <<>>)
  BY DEF IInv, TypeOK, Times, Handler
<1>2. CASE SleepersDone \/ ReadyDone \/ SkipPoll
  <2>1. /\ UNCHANGED <<coros, stack, lists, sampled, mode, fallback, allocFlag>>
        /\ UNCHANGED <<pollfds, left, now>>
        /\ mode \in {"main", "report", "drain"} /\ phase # "dispatch" /\ phase' \in Phases
    BY <1>2 DEF SleepersDone, ReadyDone, SkipPoll, LoopAt, Phases
  <2> QED
    BY <1>1, <2>1, QuietStep
<1>3. CASE SkipEntry
  <2>1. /\ UNCHANGED <<coros, stack, lists, sampled, mode, fallback, allocFlag>>
        /\ UNCHANGED <<now, phase>> /\ phase = "dispatch"
        /\ mode \in {"main", "report", "drain"} /\ left > 0 /\ pollfds # <<>>
        /\ pollfds' = Tail(pollfds) /\ left' \in {left, left - 1}
    BY <1>3 DEF SkipEntry, NodeGone, Dispatching, LoopAt
  <2>2. pollfds' \in Seq(PollFd) /\ left' \in Nat
    BY <1>1, <2>1
  <2> QED
    BY <1>1, <2>1, <2>2, QuietStep
<1>4. CASE Tick
  <2>1. /\ UNCHANGED <<coros, stack, lists, sampled, mode, fallback, allocFlag>>
        /\ UNCHANGED <<pollfds, left, phase>>
        /\ mode \in {"main", "report", "drain"} /\ now < MaxTime /\ now' = now + 1
    BY <1>4 DEF Tick
  <2>2. now' \in Nat /\ now <= now' /\ now' <= MaxTime
    BY <1>1, <2>1, ReactorAssumption
  <2> QED
    BY <1>1, <2>1, <2>2, QuietStep
<1> QED
  BY <1>2, <1>3, <1>4

(* The loop takes t from one of its lists and resumes it. *)
LEMMA ResumeStep ==
  ASSUME IInv, stack = <<>>, NEW t \in Tasks, stack' = <<t>>,
         UNCHANGED <<coros, gcList, now, sampled, phase, mode, fallback, allocFlag>>,
         ready' \in Seq(Tasks), sleeping' \in Seq(SleepNode),
         polled' = polled, batch' \in Seq(PollNode),
         Once(ready'), OnceNode(sleeping'), OnceNode(batch'), Sorted(sleeping'),
         pollfds' \in Seq(PollFd), left' \in Nat,
         mode \in {"main", "report", "drain"},
         phase # "dispatch" => batch' = batch,
         \/ /\ In(t, ready) /\ \A x : In(x, ready') <=> In(x, ready) /\ x # t
            /\ UNCHANGED <<sleeping, batch>>
         \/ /\ InNode(t, sleeping) /\ \A x : InNode(x, sleeping') <=> InNode(x, sleeping) /\ x # t
            /\ UNCHANGED <<ready, batch>>
         \/ /\ InNode(t, batch) /\ \A x : InNode(x, batch') <=> InNode(x, batch) /\ x # t
            /\ UNCHANGED <<ready, sleeping>>
  PROVE  IInv'
<1>1. /\ stack' \in Seq(Tasks) /\ Len(stack') = 1 /\ Once(stack')
      /\ \A x : In(x, stack') <=> x = t
      /\ \A x : ~In(x, stack)
  BY DEF Once, In
<1>2. UNCHANGED <<life, background, owner, waiter, parked>>
  BY DEF coros
<1>3. TypeOK'
  BY <1>1, <1>2 DEF IInv, TypeOK
<1>4. HooksOnce'
  BY <1>1, <1>2 DEF IInv, HooksOnce
<1>5. Times'
  BY DEF IInv, Times
<1>6. phase' # "dispatch" => batch' = <<>>
  BY DEF IInv, Handler
<1>7. ASSUME NEW x \in Tasks
      PROVE  OneIf(life[x] = "live", In(x, stack'), Queued(x)', InNode(x, sleeping'),
                   InNode(x, polled'), InNode(x, batch'), Awaits(x))
  <2>1. OneIf(life[x] = "live", In(x, stack), Queued(x), InNode(x, sleeping),
              InNode(x, polled), InNode(x, batch), Awaits(x))
    BY DEF IInv, Placed
  <2>2. (In(x, stack') <=> x = t) /\ ~In(x, stack) /\ (InNode(x, polled') <=> InNode(x, polled))
    BY <1>1
  <2>3. CASE /\ In(t, ready) /\ \A y : In(y, ready') <=> In(y, ready) /\ y # t
             /\ UNCHANGED <<sleeping, batch>>
    <3>1. x = t => Queued(x) /\ ~Queued(x)'
      BY <1>2, <2>3 DEF Queued, IInv, HooksOnce
    <3>2. x # t => (Queued(x)' <=> Queued(x))
      BY <1>2, <2>3 DEF Queued
    <3> QED
      BY <2>1, <2>2, <2>3, <3>1, <3>2 DEF OneIf
  <2>4. CASE /\ InNode(t, sleeping)
             /\ \A y : InNode(y, sleeping') <=> InNode(y, sleeping) /\ y # t
             /\ UNCHANGED <<ready, batch>>
    BY <1>2, <2>1, <2>2, <2>4 DEF OneIf, Queued
  <2>5. CASE /\ InNode(t, batch) /\ \A y : InNode(y, batch') <=> InNode(y, batch) /\ y # t
             /\ UNCHANGED <<ready, sleeping>>
    BY <1>2, <2>1, <2>2, <2>5 DEF OneIf, Queued
  <2> QED
    BY <2>3, <2>4, <2>5
<1> QED
  BY <1>1, <1>3, <1>4, <1>5, <1>6, <1>7, MoveStep

(* The order of the sleepers, without the first of them. *)
LEMMA TailSorted ==
  ASSUME NEW s \in Seq(SleepNode), s # <<>>, Sorted(s)
  PROVE  Sorted(Tail(s)) /\ \A n \in Elems(Tail(s)) : s[1].at <= n.at
<1> DEFINE r == Tail(s)
<1>1. Len(r) = Len(s) - 1 /\ Len(s) \in Nat /\ \A i \in 1 .. Len(s) - 1 : r[i] = s[i + 1]
  OBVIOUS
<1> HIDE DEF r
<1>2. \A i \in 1 .. Len(r) : i + 1 \in 1 .. Len(s) /\ 1 < i + 1 /\ r[i] = s[i + 1] /\ 1 \in 1 .. Len(s)
  BY <1>1
<1>3. ASSUME NEW i \in 1 .. Len(r), NEW j \in 1 .. Len(r), i < j PROVE r[i].at <= r[j].at
  <2>1. i + 1 < j + 1
    BY <1>3
  <2> QED
    BY <1>2, <2>1 DEF Sorted
<1>4. \A i \in 1 .. Len(r) : s[1].at <= r[i].at
  BY <1>2 DEF Sorted
<1> QED
  BY <1>3, <1>4 DEF r, Sorted, Elems

(* From m_sleeping. *)
LEMMA ResumeSleeperStep ==
  ASSUME IInv, ResumeSleeper
  PROVE  IInv'
<1>1. /\ stack = <<>> /\ mode \in {"main", "report", "drain"} /\ sleeping # <<>>
      /\ stack' = <<sleeping[1].task>> /\ sleeping' = Tail(sleeping)
      /\ UNCHANGED <<coros, ready, polled, gcList, batch, allocFlag>>
      /\ UNCHANGED <<pollfds, left, now, sampled, phase, mode, fallback>>
  BY DEF ResumeSleeper, LoopAt, SleeperDue, loop
<1>2. TypeOK /\ HooksOnce /\ Sorted(sleeping)
  BY DEF IInv, Times
<1>3. /\ sleeping' \in Seq(SleepNode) /\ sleeping[1] \in SleepNode /\ OnceNode(sleeping')
      /\ InNode(sleeping[1].task, sleeping)
      /\ \A x : InNode(x, sleeping') <=> InNode(x, sleeping) /\ x # sleeping[1].task
  BY <1>1, <1>2, UnlinkFirst DEF TypeOK, HooksOnce
<1>4. sleeping[1].task \in Tasks
  BY <1>3 DEF SleepNode
<1>5. Sorted(sleeping')
  BY <1>1, <1>2, TailSorted DEF TypeOK
<1>6. /\ ready' \in Seq(Tasks) /\ batch' \in Seq(PollNode) /\ Once(ready') /\ OnceNode(batch')
      /\ pollfds' \in Seq(PollFd) /\ left' \in Nat
  BY <1>1, <1>2 DEF TypeOK, HooksOnce
<1> QED
  BY <1>1, <1>3, <1>4, <1>5, <1>6, ResumeStep

(* From m_ready. *)
LEMMA ResumeReadyStep ==
  ASSUME IInv, ResumeReady
  PROVE  IInv'
<1>1. /\ stack = <<>> /\ mode \in {"main", "report", "drain"} /\ ready # <<>>
      /\ stack' = <<Head(ready)>> /\ ready' = Tail(ready)
      /\ UNCHANGED <<coros, sleeping, polled, gcList, batch, allocFlag>>
      /\ UNCHANGED <<pollfds, left, now, sampled, phase, mode, fallback>>
  BY DEF ResumeReady, LoopAt, loop
<1>2. TypeOK /\ HooksOnce /\ Sorted(sleeping)
  BY DEF IInv, Times
<1>3. /\ ready' \in Seq(Tasks) /\ Head(ready) \in Tasks /\ Once(ready') /\ In(Head(ready), ready)
      /\ \A x : In(x, ready') <=> In(x, ready) /\ x # Head(ready)
  BY <1>1, <1>2, UnlinkFirst DEF TypeOK, HooksOnce
<1>4. /\ sleeping' \in Seq(SleepNode) /\ batch' \in Seq(PollNode)
      /\ OnceNode(sleeping') /\ OnceNode(batch') /\ Sorted(sleeping')
      /\ pollfds' \in Seq(PollFd) /\ left' \in Nat
  BY <1>1, <1>2 DEF TypeOK, HooksOnce
<1> QED
  BY <1>1, <1>3, <1>4, ResumeStep

(* From the list being dispatched. *)
LEMMA ResumePolledStep ==
  ASSUME IInv, ResumePolled
  PROVE  IInv'
<1>1. /\ stack = <<>> /\ mode \in {"main", "report", "drain"} /\ phase = "dispatch"
      /\ batch # <<>> /\ pollfds # <<>> /\ left > 0
      /\ stack' = <<batch[1].task>> /\ batch' = Tail(batch)
      /\ pollfds' = Tail(pollfds) /\ left' = left - 1
      /\ UNCHANGED <<coros, ready, sleeping, polled, gcList, allocFlag>>
      /\ UNCHANGED <<now, sampled, phase, mode, fallback>>
  BY DEF ResumePolled, NodeMatches, Dispatching, LoopAt
<1>2. TypeOK /\ HooksOnce /\ Sorted(sleeping)
  BY DEF IInv, Times
<1>3. /\ batch' \in Seq(PollNode) /\ batch[1] \in PollNode /\ OnceNode(batch')
      /\ InNode(batch[1].task, batch)
      /\ \A x : InNode(x, batch') <=> InNode(x, batch) /\ x # batch[1].task
  BY <1>1, <1>2, UnlinkFirst DEF TypeOK, HooksOnce
<1>4. batch[1].task \in Tasks
  BY <1>3 DEF PollNode
<1>5. pollfds' \in Seq(PollFd) /\ left' \in Nat
  BY <1>1, <1>2 DEF TypeOK
<1>6. /\ ready' \in Seq(Tasks) /\ sleeping' \in Seq(SleepNode)
      /\ Once(ready') /\ OnceNode(sleeping') /\ Sorted(sleeping')
  BY <1>1, <1>2 DEF TypeOK, HooksOnce
<1> QED
  BY <1>1, <1>3, <1>4, <1>5, <1>6, ResumeStep

(* Nodes move between m_polled and the list being dispatched. *)
LEMMA SpliceStep ==
  ASSUME IInv, UNCHANGED <<coros, stack, ready, sleeping, gcList>>,
         UNCHANGED <<sampled, mode, fallback, allocFlag>>,
         polled' \in Seq(PollNode), batch' \in Seq(PollNode), OnceNode(polled'), OnceNode(batch'),
         \A x : InNode(x, polled') \/ InNode(x, batch') <=> InNode(x, polled) \/ InNode(x, batch),
         \A x : ~(InNode(x, polled') /\ InNode(x, batch')),
         pollfds' \in Seq(PollFd), left' \in Nat, phase' \in Phases,
         now' \in Nat, now <= now', now' <= MaxTime,
         mode \in {"main", "report", "drain"},
         phase' # "dispatch" => batch' = <<>>
  PROVE  IInv'
<1>1. UNCHANGED <<life, background, owner, waiter, parked>>
  BY DEF coros
<1>2. TypeOK'
  BY <1>1 DEF IInv, TypeOK
<1>3. HooksOnce'
  BY <1>1 DEF IInv, HooksOnce
<1>4. Times'
  BY DEF IInv, Times, TypeOK
<1>5. ASSUME NEW x \in Tasks
      PROVE  OneIf(life[x] = "live", In(x, stack'), Queued(x)', InNode(x, sleeping'),
                   InNode(x, polled'), InNode(x, batch'), Awaits(x))
  <2>1. OneIf(life[x] = "live", In(x, stack), Queued(x), InNode(x, sleeping),
              InNode(x, polled), InNode(x, batch), Awaits(x))
    BY DEF IInv, Placed
  <2>2. /\ InNode(x, polled') \/ InNode(x, batch') <=> InNode(x, polled) \/ InNode(x, batch)
        /\ ~(InNode(x, polled') /\ InNode(x, batch'))
    OBVIOUS
  <2>3. /\ In(x, stack') <=> In(x, stack)
        /\ Queued(x)' <=> Queued(x)
        /\ InNode(x, sleeping') <=> InNode(x, sleeping)
    BY <1>1 DEF Queued
  <2> QED
    BY <2>1, <2>2, <2>3 DEF OneIf
<1> QED
  BY <1>2, <1>3, <1>4, <1>5, MoveStep

(* The entries that poll() is given, and how many of them are hit. *)
LEMMA PollEntries ==
  ASSUME NEW fds \in Seq(PollFd)
  PROVE  Hits(fds) \in Nat
<1>1. Len(fds) \in Nat
  OBVIOUS
<1>2. IsFiniteSet(1 .. Len(fds))
  BY <1>1, FS_Interval
<1>3. IsFiniteSet({i \in 1 .. Len(fds) : fds[i].hit})
  BY <1>2, FS_Subset
<1> QED
  BY <1>3, FS_CardinalityType DEF Hits

(* No coroutine is in m_polled and being dispatched. *)
LEMMA PolledOrBatch ==
  ASSUME IInv
  PROVE  \A x : ~(InNode(x, polled) /\ InNode(x, batch))
<1> SUFFICES ASSUME NEW x, InNode(x, polled), InNode(x, batch) PROVE FALSE
  OBVIOUS
<1>1. x \in Tasks
  <2>1. \A i \in 1 .. Len(polled) : polled[i] \in PollNode
    BY DEF IInv, TypeOK
  <2> QED
    BY <2>1 DEF InNode, PollNode
<1>2. OneIf(life[x] = "live", In(x, stack), Queued(x), InNode(x, sleeping),
            InNode(x, polled), InNode(x, batch), Awaits(x))
  BY <1>1 DEF IInv, Placed
<1> QED
  BY <1>2 DEF OneIf

(* poll() returns, and the whole list is taken for dispatching. *)
LEMMA PollOkStep ==
  ASSUME IInv, NEW n \in 1 .. Len(polled), NEW R \in SUBSET (Fds \X Events),
         NEW k \in 0 .. DefaultTimeout, PollOk(n, R, k)
  PROVE  IInv'
<1> DEFINE fds == [i \in 1 .. n |->
                     [fd |-> polled[i].fd, ev |-> polled[i].ev,
                      hit |-> <<polled[i].fd, polled[i].ev>> \in R]]
<1>1. /\ phase = "poll" /\ mode \in {"main", "report", "drain"}
      /\ pollfds' = fds /\ left' = Hits(fds) /\ now' = Lesser(now + k, MaxTime)
      /\ batch' = polled /\ polled' = <<>> /\ phase' = "dispatch"
      /\ UNCHANGED <<coros, stack, ready, sleeping, gcList, sampled, mode, fallback, allocFlag>>
  BY DEF PollOk, LoopAt
<1>2. TypeOK /\ HooksOnce /\ now <= MaxTime /\ batch = <<>>
  BY <1>1 DEF IInv, Times, Handler
<1>3. polled \in Seq(PollNode) /\ Len(polled) \in Nat /\ n \in Nat /\ now \in Nat
  BY <1>2 DEF TypeOK
<1>4. fds \in Seq(PollFd)
  <2>1. ASSUME NEW i \in 1 .. n
        PROVE  [fd |-> polled[i].fd, ev |-> polled[i].ev,
                hit |-> <<polled[i].fd, polled[i].ev>> \in R] \in PollFd
    <3>1. polled[i] \in PollNode
      BY <1>3
    <3>2. polled[i].fd \in Fds /\ polled[i].ev \in Events
      BY <3>1 DEF PollNode
    <3>3. (<<polled[i].fd, polled[i].ev>> \in R) \in BOOLEAN
      OBVIOUS
    <3> HIDE DEF fds
    <3> QED
      BY <3>2, <3>3, Zenon DEF PollFd
  <2> QED
    BY <1>3, <2>1
<1> HIDE DEF fds
<1>5. left' \in Nat
  BY <1>1, <1>4, PollEntries
<1>6. now' \in Nat /\ now <= now' /\ now' <= MaxTime
  BY <1>1, <1>2, <1>3, ReactorAssumption DEF Lesser
<1>7. /\ polled' \in Seq(PollNode) /\ batch' \in Seq(PollNode)
      /\ OnceNode(polled') /\ OnceNode(batch')
  BY <1>1, <1>2, <1>3 DEF HooksOnce, OnceNode
<1>8. \A x : ~InNode(x, polled') /\ ~InNode(x, batch) /\ (InNode(x, batch') <=> InNode(x, polled))
  BY <1>1, <1>2 DEF InNode
<1>9. phase' \in Phases /\ (phase' # "dispatch" => batch' = <<>>) /\ pollfds' \in Seq(PollFd)
  BY <1>1, <1>4 DEF Phases
<1> QED
  BY <1>1, <1>5, <1>6, <1>7, <1>8, <1>9, SpliceStep

(* A node without an event goes back. *)
LEMMA KeepPollingStep ==
  ASSUME IInv, KeepPolling
  PROVE  IInv'
<1>1. /\ phase = "dispatch" /\ mode \in {"main", "report", "drain"}
      /\ batch # <<>> /\ pollfds # <<>>
      /\ batch' = Tail(batch) /\ polled' = Append(polled, batch[1])
      /\ pollfds' = Tail(pollfds)
      /\ UNCHANGED <<coros, stack, ready, sleeping, gcList, left, now, sampled, phase, mode,
                     fallback, allocFlag>>
  BY DEF KeepPolling, NodeMatches, Dispatching, LoopAt
<1>2. TypeOK /\ HooksOnce /\ now <= MaxTime
  BY DEF IInv, Times
<1>3. /\ batch' \in Seq(PollNode) /\ batch[1] \in PollNode /\ OnceNode(batch')
      /\ InNode(batch[1].task, batch)
      /\ \A x : InNode(x, batch') <=> InNode(x, batch) /\ x # batch[1].task
  BY <1>1, <1>2, UnlinkFirst DEF TypeOK, HooksOnce
<1>4. \A x : ~(InNode(x, polled) /\ InNode(x, batch))
  BY PolledOrBatch
<1>5. /\ polled' \in Seq(PollNode) /\ OnceNode(polled')
      /\ \A x : InNode(x, polled') <=> InNode(x, polled) \/ x = batch[1].task
  BY <1>1, <1>2, <1>3, <1>4, LinkLast DEF TypeOK, HooksOnce
<1>6. /\ pollfds' \in Seq(PollFd) /\ left' \in Nat /\ phase' \in Phases
      /\ now' \in Nat /\ now <= now' /\ now' <= MaxTime
  BY <1>1, <1>2 DEF TypeOK
<1>7. /\ \A x : InNode(x, polled') \/ InNode(x, batch') <=> InNode(x, polled) \/ InNode(x, batch)
      /\ \A x : ~(InNode(x, polled') /\ InNode(x, batch'))
  BY <1>3, <1>4, <1>5
<1> QED
  BY <1>1, <1>3, <1>5, <1>6, <1>7, SpliceStep

(* So do the nodes that were not reached. *)
LEMMA DispatchDoneStep ==
  ASSUME IInv, DispatchDone
  PROVE  IInv'
<1>1. /\ mode \in {"main", "report", "drain"} /\ phase' = "start"
      /\ polled' = polled \o batch /\ batch' = <<>> /\ pollfds' = <<>> /\ left' = 0
      /\ UNCHANGED <<coros, stack, ready, sleeping, gcList, now, sampled, mode,
                     fallback, allocFlag>>
  BY DEF DispatchDone, LoopAt
<1>2. TypeOK /\ HooksOnce /\ now <= MaxTime
  BY DEF IInv, Times
<1>3. \A x : ~(InNode(x, polled) /\ InNode(x, batch))
  BY PolledOrBatch
<1>4. /\ polled' \in Seq(PollNode) /\ OnceNode(polled')
      /\ \A x : InNode(x, polled') <=> InNode(x, polled) \/ InNode(x, batch)
  BY <1>1, <1>2, <1>3, JoinLists DEF TypeOK, HooksOnce
<1>5. /\ batch' \in Seq(PollNode) /\ OnceNode(batch') /\ \A x : ~InNode(x, batch')
      /\ pollfds' \in Seq(PollFd) /\ left' \in Nat /\ phase' \in Phases
      /\ now' \in Nat /\ now <= now' /\ now' <= MaxTime
  BY <1>1, <1>2 DEF TypeOK, OnceNode, InNode, Phases
<1> QED
  BY <1>1, <1>4, <1>5, SpliceStep

-----------------------------------------------------------------------------
(* The invariant is inductive.                                              *)

(* The handler has called the main coroutine. *)
LEMMA InitInv ==
  ASSUME Init
  PROVE  IInv
<1> USE DEF Init
<1>0. Main \in Tasks /\ Reporter \in Tasks /\ Main # Reporter /\ None \notin Tasks
  BY ReactorAssumption
<1>1. TypeOK
  <2>1. fallback \in BOOLEAN /\ allocFlag \in BOOLEAN
    OBVIOUS
  <2>2. life \in [Tasks -> Lives]
    BY DEF Lives
  <2>3. /\ background \subseteq Tasks /\ parked \subseteq Tasks
        /\ owner \in [Tasks -> Tasks \cup {None}] /\ waiter \in [Tasks -> Tasks \cup {None}]
        /\ left \in Nat /\ now \in Nat /\ sampled \in Nat
        /\ phase \in Phases /\ mode \in Modes
    BY DEF Phases, Modes
  <2>4. /\ stack \in Seq(Tasks) /\ ready \in Seq(Tasks) /\ gcList \in Seq(Tasks)
        /\ sleeping \in Seq(SleepNode)
        /\ polled \in Seq(PollNode) /\ batch \in Seq(PollNode)
        /\ pollfds \in Seq(PollFd)
    BY <1>0
  <2> QED
    BY <2>1, <2>2, <2>3, <2>4, Zenon DEF TypeOK
<1>2. HooksOnce
  BY DEF HooksOnce, Once, OnceNode
<1>3. /\ \A x : In(x, stack) <=> x = Main
      /\ \A x : ~Queued(x) /\ ~In(x, gcList)
      /\ \A x : ~InNode(x, sleeping) /\ ~InNode(x, polled) /\ ~InNode(x, batch)
      /\ \A x \in Tasks : ~Awaits(x)
      /\ \A x \in Tasks : life[x] = "live" <=> x = Main
  BY <1>0 DEF In, Queued, InNode, Awaits
<1>4. Placed
  BY <1>3 DEF Placed, OneIf
<1>5. Waiters /\ Families
  BY <1>0 DEF Waiters, WaitersIn, Families, FamiliesIn
<1>6. Forest
  BY <1>0 DEF Forest
<1>7. StackOrder
  BY DEF StackOrder
<1>8. Handler
  BY <1>0 DEF Handler
<1>9. Garbage
  BY <1>3 DEF Garbage
<1>10. Times
  BY ReactorAssumption DEF Times, Sorted
<1> QED
  BY <1>1, <1>2, <1>4, <1>5, <1>6, <1>7, <1>8, <1>9, <1>10 DEF IInv

(* Whatever a running coroutine does. *)
LEMMA CoroutineStepInv ==
  ASSUME IInv, NEW t \in Tasks, CoroutineStep(t)
  PROVE  IInv'
<1>1. CASE Yield(t)
  BY <1>1, YieldStep
<1>2. CASE \E d \in Delays : Sleep(t, d)
  BY <1>2, SleepStep
<1>3. CASE \E f \in Fds, e \in Events : Poll(t, f, e)
  BY <1>3, PollStep
<1>4. CASE \E c \in Tasks : Await(t, c) \/ Drop(t, c)
  BY <1>4, AwaitStep, DropStep
<1>5. CASE \E c \in Tasks, allocated \in BOOLEAN : Spawn(t, c, allocated)
  BY <1>5, SpawnStep
<1>6. CASE \E b \in Tasks, given \in SUBSET Tasks, allocated \in BOOLEAN :
             SpawnBackground(t, b, given, allocated)
  <2>1. PICK b \in Tasks, given \in SUBSET Tasks, allocated \in BOOLEAN :
          SpawnBackground(t, b, given, allocated)
    BY <1>6
  <2>2. CASE allocated = TRUE
    BY <2>1, <2>2, SpawnBackgroundStep
  <2>3. CASE allocated = FALSE
    BY <2>1, <2>3, SpawnBackgroundFailStep
  <2> QED
    BY <2>2, <2>3
<1>7. CASE \E kept \in SUBSET Tasks : Return(t, kept)
  BY <1>7, ReturnStep
<1>8. CASE Park(t) \/ \E u \in Tasks : Wake(t, u)
  BY <1>8, ParkStep, WakeStep
<1> QED
  BY <1>1, <1>2, <1>3, <1>4, <1>5, <1>6, <1>7, <1>8 DEF CoroutineStep

(* Where gc() is called. *)
LEMMA CollectSteps ==
  ASSUME IInv,
         \/ StartIteration
         \/ FinishDrain
         \/ /\ LoopAt("poll") /\ mode = "drain" /\ CollectGarbage
            /\ mode' = "aborted" /\ phase' = "start"
            /\ UNCHANGED <<stack, pollfds, left, now, sampled, fallback, allocFlag>>
  PROVE  IInv'
<1>1. /\ stack = <<>> /\ UNCHANGED stack /\ CollectGarbage /\ phase # "dispatch"
      /\ mode' = mode \/ (mode = "drain" /\ mode' \in {"exit", "aborted"})
  BY DEF StartIteration, FinishDrain, LoopAt
<1>2. LoopFits
  BY DEF StartIteration, FinishDrain, LoopAt, LoopFits, IInv, TypeOK, Phases, Modes
<1> QED
  BY <1>1, <1>2, CollectStep

(* Every step. *)
LEMMA NextInv ==
  ASSUME IInv, [Next]_vars
  PROVE  IInv'
<1>1. CASE \E t \in Tasks : CoroutineStep(t)
  BY <1>1, CoroutineStepInv
<1>2. CASE StartIteration \/ FinishDrain
  BY <1>2, CollectSteps
<1>3. CASE ResumeSleeper \/ ResumeReady \/ ResumePolled
  BY <1>3, ResumeSleeperStep, ResumeReadyStep, ResumePolledStep
<1>4. CASE SleepersDone \/ ReadyDone \/ SkipPoll \/ SkipEntry \/ Tick
  BY <1>4, QuietSteps
<1>5. CASE \E n \in 1 .. Len(polled), R \in SUBSET (Fds \X Events), k \in 0 .. DefaultTimeout :
             PollOk(n, R, k)
  BY <1>5, PollOkStep
<1>6. CASE KeepPolling \/ DispatchDone
  BY <1>6, KeepPollingStep, DispatchDoneStep
<1>7. CASE \E failed, allocated \in BOOLEAN : FinishMain(failed, allocated)
  <2>1. PICK failed \in BOOLEAN, allocated \in BOOLEAN : FinishMain(failed, allocated)
    BY <1>7
  <2>2. stack = <<>> /\ mode = "main" /\ phase # "dispatch" /\ LeaveMain(failed, allocated)
    BY <2>1 DEF FinishMain, LoopAt
  <2> QED
    BY <2>2, LeaveMainStep
<1>8. CASE FinishReport
  <2>1. stack = <<>> /\ mode = "report" /\ phase # "dispatch" /\ LeaveReport
    BY <1>8 DEF FinishReport, LoopAt
  <2> QED
    BY <2>1, LeaveReportStep
<1>9. CASE PollFail
  <2>1. stack = <<>> /\ phase # "dispatch" /\ LoopAt("poll")
    BY <1>9 DEF PollFail, LoopAt
  <2>2. CASE mode = "main" /\ \E allocated \in BOOLEAN : LeaveMain(TRUE, allocated)
    BY <2>1, <2>2, LeaveMainStep
  <2>3. CASE mode = "report" /\ LeaveReport
    BY <2>1, <2>3, LeaveReportStep
  <2>4. CASE /\ mode = "drain" /\ CollectGarbage
             /\ mode' = "aborted" /\ phase' = "start"
             /\ UNCHANGED <<stack, pollfds, left, now, sampled, fallback, allocFlag>>
    BY <2>1, <2>4, CollectSteps
  <2> QED
    BY <1>9, <2>2, <2>3, <2>4 DEF PollFail
<1>10. CASE UNCHANGED vars
  <2>1. /\ UNCHANGED <<life, background, owner, waiter, parked, stack>>
        /\ UNCHANGED <<ready, sleeping, polled, gcList, batch>>
        /\ UNCHANGED <<pollfds, left, now, sampled, phase, mode, fallback, allocFlag>>
    BY <1>10 DEF vars, coros, lists, loop
  <2>2. TypeOK' /\ HooksOnce' /\ Waiters' /\ Families' /\ Handler' /\ Garbage' /\ Times'
    BY <2>1 DEF IInv, TypeOK, HooksOnce, Waiters, WaitersIn, Families, FamiliesIn, Handler,
                Garbage, Times
  <2>3. Forest'
    BY <2>1 DEF IInv, Forest
  <2>4. Placed'
    BY <2>1 DEF IInv, Placed, Awaits, Queued
  <2>5. \A U : Below(U)' <=> Below(U)
    BY <2>1 DEF Below
  <2>6. StackOrder'
    BY <2>1, <2>5 DEF IInv, StackOrder
  <2> QED
    BY <2>2, <2>3, <2>4, <2>6 DEF IInv
<1> QED
  BY <1>1, <1>2, <1>3, <1>4, <1>5, <1>6, <1>7, <1>8, <1>9, <1>10 DEF Next, LoopStep

(* The invariant holds in every state of every behaviour. *)
THEOREM Invariance == Spec => []IInv
<1>1. Init => IInv
  BY InitInv
<1>2. IInv /\ [Next]_vars => IInv'
  BY NextInv
<1> QED
  BY <1>1, <1>2, PTL DEF Spec

-----------------------------------------------------------------------------
(* The safety properties.                                                   *)

(* A coroutine that has not finished is running, in exactly one of the      *)
(* reactor's lists, waiting outside them, or awaiting one unfinished        *)
(* coroutine it owns; one that has finished or was destroyed is in none of  *)
(* these places, and gc() finds the finished background coroutines, each    *)
(* once.                                                                    *)
THEOREM EachInOnePlace == Spec => []OnePlace
<1>1. IInv => OnePlace
  BY InvOnePlace
<1> QED
  BY <1>1, Invariance, PTL

(* do_event_loop_iteration's assertion against a deadlock fails in real     *)
(* deadlocks only: when the coroutine that block_on waits for, or one it    *)
(* owns, waits outside the lists for what no coroutine has given it.        *)
THEOREM NeverStarved == Spec => []SomethingToProcess
<1>1. IInv => SomethingToProcess
  BY InvSomethingToProcess
<1> QED
  BY <1>1, Invariance, PTL

(* The handler's modes. *)
LEMMA ModeStep ==
  ASSUME IInv, Next
  PROVE  /\ mode \in {"main", "report", "drain"}
         /\ mode' = mode \/ mode' \in {"report", "drain", "aborted"} \/ FinishDrain
<1>1. CASE \E t \in Tasks : CoroutineStep(t)
  <2>1. PICK t \in Tasks : CoroutineStep(t)
    BY <1>1
  <2>2. Running(t) /\ mode' = mode
    BY <2>1 DEF CoroutineStep, Yield, Sleep, Poll, Await, Drop, Park, Wake, Spawn,
                SpawnBackground, Return, loop
  <2> QED
    BY <2>2, OnTop
<1>2. CASE LoopStep
  BY <1>2 DEF LoopStep, StartIteration, ResumeSleeper, SleepersDone, ResumeReady, ReadyDone,
              SkipPoll, PollOk, SkipEntry, KeepPolling, ResumePolled, DispatchDone, FinishMain,
              LeaveMain, FinishReport, LeaveReport, FinishDrain, LoopAt, NodeGone, NodeMatches,
              Dispatching, loop
<1>3. CASE PollFail
  BY <1>3 DEF PollFail, LeaveMain, LeaveReport, LoopAt
<1>4. CASE Tick
  BY <1>4 DEF Tick
<1> QED
  BY <1>1, <1>2, <1>3, <1>4 DEF Next

(* Nothing sleeps, polls or is to be collected once draining has succeeded. *)
Emptied == mode = "exit" => sleeping = <<>> /\ polled = <<>> /\ gcList = <<>>

LEMMA DrainEmpties ==
  ASSUME IInv, FinishDrain
  PROVE  Emptied'
<1>1. PICK S : Destroy(S, life, waiter) /\ gcList' = <<>>
  BY DEF FinishDrain, CollectGarbage
<1>2. TypeOK /\ HooksOnce /\ Sorted(sleeping)
  BY DEF IInv, Times
<1>3. \A x : ~InNode(x, sleeping) /\ ~InNode(x, polled)
  BY DEF FinishDrain, HasActiveTasks, InNode
<1>4. /\ sleeping' \in Seq(SleepNode) /\ polled' \in Seq(PollNode)
      /\ \A x : ~InNode(x, sleeping') /\ ~InNode(x, polled')
  BY <1>1, <1>2, <1>3, DestroyLists
<1>5. sleeping' = <<>> /\ polled' = <<>>
  BY <1>4, UnlinkFirst
<1> QED
  BY <1>1, <1>5 DEF Emptied

(* When drain_remaining_tasks has succeeded nothing sleeps, polls or waits  *)
(* for gc(), and every frame was destroyed but those of background          *)
(* coroutines with one below them that is stuck outside the lists, or was   *)
(* scheduled by the last gc() only.                                         *)
THEOREM DrainLeavesNothing == Spec => []NothingLeft
<1>1. Init => IInv /\ Emptied
  <2>1. Init => Emptied
    BY DEF Init, Emptied
  <2> QED
    BY <2>1, InitInv
<1>2. IInv /\ Emptied /\ [Next]_vars => IInv' /\ Emptied'
  <2> SUFFICES ASSUME IInv, Emptied, [Next]_vars PROVE Emptied'
    BY NextInv
  <2>1. CASE FinishDrain
    BY <2>1, DrainEmpties
  <2>2. CASE Next /\ ~FinishDrain
    <3>1. mode' # "exit"
      BY <2>2, ModeStep
    <3> QED
      BY <3>1 DEF Emptied
  <2>3. CASE UNCHANGED vars
    BY <2>3 DEF Emptied, vars, lists, loop
  <2> QED
    BY <2>1, <2>2, <2>3
<1>3. IInv /\ Emptied => NothingLeft
  <2> SUFFICES ASSUME IInv, Emptied, mode = "exit" PROVE NothingLeft
    BY DEF NothingLeft
  <2> QED
    BY OnlyStuckLeft DEF Emptied
<1> QED
  BY <1>1, <1>2, <1>3, PTL DEF Spec

(* What a step may put on the stack: a coroutine that runs already, that    *)
(* was in one of the lists or was awaiting, or a new one; from the sleepers *)
(* only ResumeSleeper takes one, the first.                                 *)
LEMMA WhoRuns ==
  ASSUME IInv, Next, NEW x \in Tasks, In(x, stack')
  PROVE  \/ In(x, stack) \/ In(x, ready) \/ InNode(x, batch) \/ Awaits(x) \/ life[x] = "unborn"
         \/ ResumeSleeper /\ x = sleeping[1].task
<1>0. TypeOK /\ HooksOnce
  BY DEF IInv
<1>1. CASE \E t \in Tasks : CoroutineStep(t)
  <2>1. PICK t \in Tasks : CoroutineStep(t)
    BY <1>1
  <2>2. Running(t)
    BY <2>1 DEF CoroutineStep, Yield, Sleep, Poll, Await, Drop, Park, Wake, Spawn,
                SpawnBackground, Return
  <2>3. Caller \in Seq(Tasks) /\ \A y : In(y, Caller) => In(y, stack)
    BY <2>2, OnTop
  <2>4. CASE stack' = Caller \/ stack' = stack
    BY <2>3, <2>4
  <2>5. CASE \E c \in Tasks : life[c] = "unborn" /\ stack' = Append(stack, c)
    <3>1. PICK c \in Tasks : life[c] = "unborn" /\ stack' = Append(stack, c)
      BY <2>5
    <3>2. In(x, stack) \/ x = c
      BY <1>0, <3>1, LinkLast DEF TypeOK
    <3> QED
      BY <3>1, <3>2
  <2>6. CASE waiter[t] # None /\ stack' = Append(Caller, waiter[t])
    <3>1. waiter[t] \in Tasks
      BY <1>0, <2>6 DEF TypeOK
    <3>2. In(x, Caller) \/ x = waiter[t]
      BY <2>3, <2>6, <3>1, LinkLast
    <3> QED
      BY <2>3, <3>2 DEF Awaits
  <2>7. \/ stack' = Caller \/ stack' = stack
        \/ \E c \in Tasks : life[c] = "unborn" /\ stack' = Append(stack, c)
        \/ waiter[t] # None /\ stack' = Append(Caller, waiter[t])
    BY <2>1 DEF CoroutineStep, Yield, Sleep, Poll, Await, Drop, Park, Wake, Spawn,
                SpawnBackground, Return
  <2> QED
    BY <2>4, <2>5, <2>6, <2>7
<1>2. CASE stack' = stack \/ stack' = <<>>
  BY <1>2 DEF In
<1>3. CASE ResumeSleeper
  BY <1>3 DEF ResumeSleeper, In
<1>4. CASE ResumeReady
  <2>1. ready # <<>> /\ stack' = <<Head(ready)>>
    BY <1>4 DEF ResumeReady
  <2>2. In(Head(ready), ready)
    BY <1>0, <2>1, UnlinkFirst DEF TypeOK
  <2> QED
    BY <2>1, <2>2 DEF In
<1>5. CASE ResumePolled
  <2>1. batch # <<>> /\ stack' = <<batch[1].task>>
    BY <1>5 DEF ResumePolled, NodeMatches, Dispatching
  <2>2. InNode(batch[1].task, batch)
    BY <1>0, <2>1, UnlinkFirst DEF TypeOK
  <2>3. x = batch[1].task
    BY <2>1 DEF In
  <2> QED
    BY <2>2, <2>3
<1>6. CASE mode = "main" /\ \E failed, allocated \in BOOLEAN : LeaveMain(failed, allocated)
  <2>1. life[Reporter] = "unborn"
    BY <1>6 DEF IInv, Handler
  <2>2. stack' = stack \/ stack' = <<>> \/ stack' = <<Reporter>>
    BY <1>6 DEF LeaveMain
  <2> QED
    BY <1>2, <2>1, <2>2 DEF In
<1>7. CASE LoopStep \/ PollFail \/ Tick
  <2>1. \/ ResumeSleeper \/ ResumeReady \/ ResumePolled
        \/ mode = "main" /\ \E failed, allocated \in BOOLEAN : LeaveMain(failed, allocated)
        \/ stack' = stack
    BY <1>7 DEF LoopStep, StartIteration, SleepersDone, ReadyDone, SkipPoll, PollOk, SkipEntry,
                KeepPolling, DispatchDone, FinishMain, FinishReport, LeaveReport, FinishDrain,
                PollFail, Tick
  <2> QED
    BY <1>2, <1>3, <1>4, <1>5, <1>6, <2>1
<1> QED
  BY <1>1, <1>7 DEF Next

(* resume_ready_sleepers resumes no coroutine before the time it asked for, *)
(* and none before one that wakes earlier.                                  *)
THEOREM SleepersInOrder == Spec => WakeInOrder
<1>1. IInv /\ [Next]_vars =>
        [\A i \in 1 .. Len(sleeping) :
           sleeping[i].task \in Elems(stack') =>
             /\ sleeping[i].at <= now
             /\ \A n \in Elems(sleeping') : sleeping[i].at <= n.at]_vars
  <2> SUFFICES ASSUME IInv, Next, NEW i \in 1 .. Len(sleeping), sleeping[i].task \in Elems(stack')
               PROVE  /\ sleeping[i].at <= now
                      /\ \A n \in Elems(sleeping') : sleeping[i].at <= n.at
    OBVIOUS
  <2> DEFINE x == sleeping[i].task
  <2>1. TypeOK /\ HooksOnce /\ Sorted(sleeping) /\ sampled <= now
    BY DEF IInv, Times
  <2>2. sleeping[i] \in SleepNode
    BY <2>1 DEF TypeOK
  <2>3. x \in Tasks /\ InNode(x, sleeping) /\ In(x, stack')
    BY <2>2, Members DEF SleepNode, InNode
  <2>4. OneIf(life[x] = "live", In(x, stack), Queued(x), InNode(x, sleeping),
              InNode(x, polled), InNode(x, batch), Awaits(x))
    BY <2>3 DEF IInv, Placed
  <2>5. ResumeSleeper /\ x = sleeping[1].task
    BY <2>3, <2>4, WhoRuns DEF OneIf, Queued
  <2>6. sleeping # <<>> /\ sleeping[1].at <= sampled /\ sleeping' = Tail(sleeping)
    BY <2>5 DEF ResumeSleeper, SleeperDue
  <2>7. 1 \in 1 .. Len(sleeping) /\ sleeping[1] \in SleepNode
    BY <2>1, <2>6 DEF TypeOK
  <2>8. i = 1
    BY <2>1, <2>5, <2>7 DEF HooksOnce, OnceNode
  <2>9. sleeping[1].at <= now
    BY <2>1, <2>6, <2>7 DEF TypeOK, SleepNode
  <2> QED
    BY <2>1, <2>6, <2>8, <2>9, TailSorted DEF TypeOK
<1> QED
  BY <1>1, Invariance, PTL DEF Spec, WakeInOrder

(* Rounding up to milliseconds adds less than one. *)
LEMMA CeilBounds ==
  ASSUME NEW d \in Nat
  PROVE  ceil_to_millis(d) \in Nat /\ ceil_to_millis(d) < d + Milli
<1> DEFINE e == d + Milli - 1
           q == e \div Milli
<1>1. Milli \in Nat \ {0} /\ e \in Nat
  BY ReactorAssumption
<1>2. ceil_to_millis(d) = q * Milli /\ e < d + Milli
  BY <1>1 DEF ceil_to_millis
<1> HIDE DEF e
<1>3. q \in Nat /\ e % Milli \in Nat /\ e = Milli * q + (e % Milli)
  BY <1>1, Divided
<1> HIDE DEF q
<1>4. q * Milli = Milli * q /\ q * Milli \in Nat
  BY <1>1, <1>3
<1> QED
  BY <1>1, <1>2, <1>3, <1>4

(* poll() does not block until a millisecond past the awake time of any     *)
(* sleeper: poll_timeout looks at the first one only, and it is the         *)
(* earliest; the time is rounded up to whole milliseconds.                  *)
THEOREM PollWakesInTime == Spec => NoOversleep
<1>1. IInv /\ [Next]_vars =>
        [phase = "poll" /\ phase' = "dispatch" =>
           \A n \in Elems(sleeping) : now' < n.at + Milli \/ now' = now]_vars
  <2> SUFFICES ASSUME IInv, Next, phase = "poll", phase' = "dispatch", NEW n \in Elems(sleeping)
               PROVE  now' < n.at + Milli \/ now' = now
    OBVIOUS
  <2>1. PICK m \in 1 .. Len(polled), R \in SUBSET (Fds \X Events), k \in 0 .. DefaultTimeout :
          PollOk(m, R, k)
    <3>1. ~\E t \in Tasks : CoroutineStep(t)
      BY DEF CoroutineStep, Yield, Sleep, Poll, Await, Drop, Park, Wake, Spawn,
             SpawnBackground, Return, loop
    <3>2. ~(PollFail \/ Tick)
      BY DEF PollFail, LeaveMain, LeaveReport, Tick
    <3> QED
      BY <3>1, <3>2 DEF Next, LoopStep, StartIteration, ResumeSleeper, SleepersDone, ResumeReady,
                        ReadyDone, SkipPoll, SkipEntry, KeepPolling, ResumePolled, DispatchDone,
                        FinishMain, LeaveMain, FinishReport, LeaveReport, FinishDrain, LoopAt,
                        NodeGone, NodeMatches, loop
  <2>2. k \in 0 .. PollTimeout /\ now' = Lesser(now + k, MaxTime)
    BY <2>1 DEF PollOk
  <2>3. /\ now \in Nat /\ MaxTime \in Nat /\ now <= MaxTime /\ DefaultTimeout \in Nat /\ k \in Nat
        /\ sleeping \in Seq(SleepNode) /\ Sorted(sleeping)
    BY ReactorAssumption DEF IInv, TypeOK, Times
  <2>4. PICK i \in 1 .. Len(sleeping) : n = sleeping[i]
    BY DEF Elems
  <2>5. /\ sleeping # <<>> /\ 1 \in 1 .. Len(sleeping)
        /\ sleeping[1] \in SleepNode /\ n \in SleepNode
    BY <2>3, <2>4
  <2>6. sleeping[1].at \in Nat /\ n.at \in Nat
    BY <2>5 DEF SleepNode
  <2>7. sleeping[1].at <= n.at
    BY <2>3, <2>4, <2>5, <2>6 DEF Sorted
  <2>8. CASE sleeping[1].at <= now \/ ready # <<>>
    <3>1. k = 0
      BY <2>2, <2>5, <2>8 DEF PollTimeout
    <3> QED
      BY <2>2, <2>3, <3>1 DEF Lesser
  <2>9. CASE ~(sleeping[1].at <= now) /\ ready = <<>>
    <3> DEFINE d == sleeping[1].at - now
    <3>1. d \in Nat \ {0}
      BY <2>3, <2>6, <2>9
    <3>2. PollTimeout = Lesser(ceil_to_millis(d), DefaultTimeout)
      BY <2>5, <2>9 DEF PollTimeout
    <3> HIDE DEF d
    <3>3. ceil_to_millis(d) \in Nat /\ ceil_to_millis(d) < d + Milli
      BY <3>1, CeilBounds
    <3>4. k < d + Milli
      BY <2>2, <2>3, <3>1, <3>2, <3>3, ReactorAssumption DEF Lesser
    <3>5. now' <= now + k
      BY <2>2, <2>3 DEF Lesser
    <3> QED
      BY <2>2, <2>3, <2>6, <2>7, <3>4, <3>5, ReactorAssumption DEF d, Lesser
  <2> QED
    BY <2>8, <2>9
<1> QED
  BY <1>1, Invariance, PTL DEF Spec, NoOversleep

=============================================================================
