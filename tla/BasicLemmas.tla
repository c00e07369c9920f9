----------------------------- MODULE BasicLemmas -----------------------------
(***************************************************************************)
(* Facts about numbers, sets and sequences that the proofs of several      *)
(* components need.  Nothing here is about the program.                    *)
(***************************************************************************)
EXTENDS Integers, FiniteSetsExt, SequencesExt, FiniteSetTheorems, SequenceTheorems, TLAPS

(* Induction over the natural numbers for a set S instead of a predicate:   *)
(* a number that is not in S gives, among the intervals 0 .. k that end     *)
(* outside S, a least one, whose end is neither 0 nor a successor.          *)
LEMMA NatSetInduction ==
  ASSUME NEW S, 0 \in S, \A n \in Nat : n \in S => n + 1 \in S
  PROVE  Nat \subseteq S
<1> SUFFICES ASSUME NEW x \in Nat, x \notin S PROVE FALSE
  OBVIOUS
<1> DEFINE T == {X \in SUBSET (0 .. x) : \E k \in 0 .. x : X = 0 .. k /\ k \notin S}
<1>1. T \subseteq FiniteSubsetsOf(0 .. x)
  <2>1. IsFiniteSet(0 .. x)
    BY FS_Interval
  <2> QED
    BY <2>1, FS_Subset DEF FiniteSubsetsOf
<1>2. (0 .. x) \in T
  OBVIOUS
<1>3. PICK X \in T : \A Y \in T : <<Y, X>> \notin StrictSubsetOrdering(0 .. x)
  <2>1. IsWellFoundedOn(StrictSubsetOrdering(0 .. x), FiniteSubsetsOf(0 .. x))
    BY FS_StrictSubsetOrderingWellFounded
  <2>2. T # {}
    BY <1>2
  <2> HIDE DEF T
  <2> QED
    BY <1>1, <2>1, <2>2, WFMin
<1>4. PICK k \in 0 .. x : X = 0 .. k /\ k \notin S
  OBVIOUS
<1>5. k # 0
  BY <1>4
<1>6. k - 1 \in 0 .. x /\ k - 1 \in Nat /\ (k - 1) + 1 = k
  BY <1>5
<1>7. k - 1 \notin S
  BY <1>4, <1>6
<1>8. 0 .. k - 1 \in T
  <2>1. 0 .. k - 1 \in SUBSET (0 .. x)
    BY <1>6
  <2> QED
    BY <1>6, <1>7, <2>1
<1>9. <<0 .. k - 1, X>> \in StrictSubsetOrdering(0 .. x)
  <2>1. 0 .. k - 1 \subseteq X /\ 0 .. k - 1 # X
    <3>1. k \in X /\ k \notin 0 .. k - 1
      BY <1>4
    <3> QED
      BY <3>1, <1>4
  <2>2. 0 .. k - 1 \in SUBSET (0 .. x) /\ X \in SUBSET (0 .. x)
    BY <1>6
  <2> QED
    BY <2>1, <2>2 DEF StrictSubsetOrdering
<1> QED
  BY <1>3, <1>8, <1>9

(* Every set of natural numbers that is not empty has a least element. *)
LEMMA LeastNat ==
  ASSUME NEW S, S \subseteq Nat, S # {}
  PROVE  \E m \in S : \A n \in S : m <= n
<1> SUFFICES ASSUME \A m \in S : \E n \in S : n < m PROVE FALSE
  OBVIOUS
<1> DEFINE U == {n \in Nat : \A m \in S : n < m}
<1>1. 0 \in U
  OBVIOUS
<1>2. ASSUME NEW n \in Nat, n \in U PROVE n + 1 \in U
  BY <1>2
<1>3. Nat \subseteq U
  <2> HIDE DEF U
  <2> QED
    BY <1>1, <1>2, NatSetInduction
<1>4. PICK m \in S : TRUE
  OBVIOUS
<1>5. m \in Nat /\ m \in U
  BY <1>3
<1> QED
  BY <1>5

(* Min of FiniteSetsExt is that least element. *)
LEMMA MinNat ==
  ASSUME NEW S, S \subseteq Nat, S # {}
  PROVE  Min(S) \in S /\ \A n \in S : Min(S) <= n
BY LeastNat DEF Min

-----------------------------------------------------------------------------
(* Sequences without duplicates, as intrusive lists are.                    *)

(* Appending an element that is not there. *)
LEMMA AppendOnce ==
  ASSUME NEW S, NEW s \in Seq(S), NEW e \in S, IsInjective(s), e \notin ToSet(s)
  PROVE  /\ Append(s, e) \in Seq(S)
         /\ Len(Append(s, e)) = Len(s) + 1
         /\ IsInjective(Append(s, e))
         /\ ToSet(Append(s, e)) = ToSet(s) \cup {e}
<1> DEFINE r == Append(s, e)
<1>1. /\ r \in Seq(S) /\ Len(r) = Len(s) + 1 /\ Len(s) \in Nat
      /\ \A i \in 1 .. Len(s) : r[i] = s[i]
      /\ r[Len(s) + 1] = e
  OBVIOUS
<1>2. DOMAIN s = 1 .. Len(s) /\ DOMAIN r = 1 .. Len(s) + 1
  BY <1>1
<1> HIDE DEF r
<1>3. IsInjective(r)
  BY <1>1, <1>2 DEF IsInjective, ToSet
<1>4. ToSet(r) \subseteq ToSet(s) \cup {e}
  BY <1>1, <1>2 DEF ToSet
<1>5. ToSet(s) \cup {e} \subseteq ToSet(r)
  BY <1>1, <1>2 DEF ToSet
<1> QED
  BY <1>1, <1>3, <1>4, <1>5 DEF r

(* Putting such an element in front. *)
LEMMA PrependOnce ==
  ASSUME NEW S, NEW s \in Seq(S), NEW e \in S, IsInjective(s), e \notin ToSet(s)
  PROVE  /\ <<e>> \o s \in Seq(S) /\ Len(<<e>> \o s) = Len(s) + 1
         /\ (<<e>> \o s)[1] = e /\ \A i \in 1 .. Len(s) : (<<e>> \o s)[i + 1] = s[i]
         /\ IsInjective(<<e>> \o s)
         /\ ToSet(<<e>> \o s) = ToSet(s) \cup {e}
<1> DEFINE r == <<e>> \o s
<1>0. Len(s) \in Nat /\ DOMAIN s = 1 .. Len(s)
  OBVIOUS
<1>1. /\ r \in Seq(S) /\ Len(r) = Len(<<e>>) + Len(s)
      /\ \A i \in 1 .. Len(<<e>>) + Len(s) :
           r[i] = IF i <= Len(<<e>>) THEN <<e>>[i] ELSE s[i - Len(<<e>>)]
  <2>1. <<e>> \in Seq(S)
    OBVIOUS
  <2> QED
    BY <2>1, ConcatProperties, Zenon
<1> HIDE DEF r
<1>2. Len(<<e>>) = 1 /\ <<e>>[1] = e
  OBVIOUS
<1>3. Len(r) = Len(s) + 1 /\ DOMAIN r = 1 .. Len(s) + 1
  BY <1>0, <1>1, <1>2
<1>4. r[1] = e
  BY <1>0, <1>1, <1>2
<1>5. \A i \in 1 .. Len(s) : r[i + 1] = s[i]
  <2> SUFFICES ASSUME NEW i \in 1 .. Len(s) PROVE r[i + 1] = s[i]
    OBVIOUS
  <2>1. i + 1 \in 1 .. 1 + Len(s) /\ ~(i + 1 <= 1) /\ (i + 1) - 1 = i
    BY <1>0
  <2> QED
    BY <1>1, <1>2, <2>1
<1>6. \A i \in 2 .. Len(s) + 1 : i - 1 \in 1 .. Len(s) /\ r[i] = s[i - 1]
  <2> SUFFICES ASSUME NEW i \in 2 .. Len(s) + 1 PROVE i - 1 \in 1 .. Len(s) /\ r[i] = s[i - 1]
    OBVIOUS
  <2>1. i - 1 \in 1 .. Len(s) /\ (i - 1) + 1 = i
    BY <1>0
  <2> QED
    BY <1>5, <2>1
<1>7. IsInjective(r)
  <2> SUFFICES ASSUME NEW i \in 1 .. Len(s) + 1, NEW j \in 1 .. Len(s) + 1, r[i] = r[j]
               PROVE  i = j
    BY <1>3 DEF IsInjective
  <2>1. i = 1 \/ i \in 2 .. Len(s) + 1
    BY <1>0
  <2>2. j = 1 \/ j \in 2 .. Len(s) + 1
    BY <1>0
  <2>3. \A k \in 2 .. Len(s) + 1 : r[k] \in ToSet(s)
    BY <1>0, <1>6 DEF ToSet
  <2>4. CASE i \in 2 .. Len(s) + 1 /\ j \in 2 .. Len(s) + 1
    <3>1. i - 1 = j - 1
      <4>1. i - 1 \in DOMAIN s /\ j - 1 \in DOMAIN s /\ s[i - 1] = s[j - 1]
        BY <1>0, <1>6, <2>4
      <4> QED
        BY <4>1 DEF IsInjective
    <3> QED
      BY <2>4, <3>1
  <2> QED
    BY <1>4, <2>1, <2>2, <2>3, <2>4
<1>8. ToSet(r) \subseteq ToSet(s) \cup {e}
  <2> SUFFICES ASSUME NEW i \in 1 .. Len(s) + 1 PROVE r[i] \in ToSet(s) \cup {e}
    BY <1>3 DEF ToSet
  <2>1. i = 1 \/ i \in 2 .. Len(s) + 1
    BY <1>0
  <2> QED
    BY <1>0, <1>4, <1>6, <2>1 DEF ToSet
<1>9. ToSet(s) \cup {e} \subseteq ToSet(r)
  <2>1. e \in ToSet(r)
    BY <1>0, <1>3, <1>4 DEF ToSet
  <2>2. ASSUME NEW i \in 1 .. Len(s) PROVE s[i] \in ToSet(r)
    <3>1. i + 1 \in 1 .. Len(s) + 1
      BY <1>0
    <3> QED
      BY <1>3, <1>5, <3>1 DEF ToSet
  <2> QED
    BY <1>0, <2>1, <2>2 DEF ToSet
<1> QED
  BY <1>1, <1>3, <1>4, <1>5, <1>7, <1>8, <1>9 DEF r

(* SelectInSeq finds the first index of e. *)
LEMMA IndexOf ==
  ASSUME NEW S, NEW s \in Seq(S), NEW e, \E i \in 1 .. Len(s) : s[i] = e
  PROVE  /\ SelectInSeq(s, LAMBDA v : v = e) \in 1 .. Len(s)
         /\ s[SelectInSeq(s, LAMBDA v : v = e)] = e
<1> DEFINE I == {i \in 1 .. Len(s) : s[i] = e}
<1>1. SelectInSeq(s, LAMBDA v : v = e) = IF I # {} THEN Min(I) ELSE 0
  BY DEF SelectInSeq
<1>2. I \subseteq Nat /\ I # {}
  OBVIOUS
<1>3. Min(I) \in I
  <2> HIDE DEF I
  <2> QED
    BY <1>2, MinNat
<1> QED
  BY <1>1, <1>2, <1>3

(* Taking the element at k out: those behind it close up. *)
LEMMA RemoveAtIndex ==
  ASSUME NEW S, NEW s \in Seq(S), NEW k \in 1 .. Len(s)
  PROVE  /\ RemoveAt(s, k) \in Seq(S)
         /\ Len(RemoveAt(s, k)) = Len(s) - 1
         /\ \A i \in 1 .. Len(s) - 1 : RemoveAt(s, k)[i] = IF i < k THEN s[i] ELSE s[i + 1]
<1>1. Len(s) \in Nat /\ k \in Nat /\ k >= 1 /\ k <= Len(s)
  OBVIOUS
<1> DEFINE a == SubSeq(s, 1, k - 1)
           b == SubSeq(s, k + 1, Len(s))
<1>2. a \in Seq(S) /\ Len(a) = k - 1 /\ \A i \in 1 .. k - 1 : a[i] = s[i]
  BY <1>1
<1>3. b \in Seq(S) /\ Len(b) = Len(s) - k /\ \A i \in 1 .. Len(s) - k : b[i] = s[i + k]
  BY <1>1
<1> HIDE DEF a, b
<1>4. /\ a \o b \in Seq(S) /\ Len(a \o b) = Len(s) - 1
      /\ \A i \in 1 .. Len(s) - 1 : (a \o b)[i] = IF i < k THEN s[i] ELSE s[i + 1]
  <2>1. a \o b \in Seq(S) /\ Len(a \o b) = Len(s) - 1
    <3>1. a \o b \in Seq(S) /\ Len(a \o b) = Len(a) + Len(b)
      BY <1>2, <1>3, ConcatProperties
    <3> QED
      BY <1>1, <1>2, <1>3, <3>1
  <2>2. ASSUME NEW i \in 1 .. Len(s) - 1, i < k PROVE (a \o b)[i] = s[i]
    BY <1>1, <1>2, <1>3, <2>2
  <2>3. ASSUME NEW i \in 1 .. Len(s) - 1, ~(i < k) PROVE (a \o b)[i] = s[i + 1]
    <3>1. i - (k - 1) \in 1 .. Len(s) - k /\ (i - (k - 1)) + k = i + 1
      BY <1>1, <2>3
    <3>2. (a \o b)[i] = b[i - (k - 1)]
      BY <1>1, <1>2, <1>3, <2>3
    <3> QED
      BY <1>3, <3>1, <3>2
  <2> QED
    BY <2>1, <2>2, <2>3
<1> QED
  BY <1>4 DEF RemoveAt, a, b

(* The element at k leaves a list in which it is linked once. *)
LEMMA RemoveAtOnce ==
  ASSUME NEW S, NEW s \in Seq(S), IsInjective(s), NEW k \in 1 .. Len(s)
  PROVE  /\ RemoveAt(s, k) \in Seq(S)
         /\ Len(RemoveAt(s, k)) = Len(s) - 1
         /\ \A i \in 1 .. Len(s) - 1 : RemoveAt(s, k)[i] = IF i < k THEN s[i] ELSE s[i + 1]
         /\ IsInjective(RemoveAt(s, k))
         /\ ToSet(RemoveAt(s, k)) = ToSet(s) \ {s[k]}
<1>0. Len(s) \in Nat /\ DOMAIN s = 1 .. Len(s)
  OBVIOUS
<1> DEFINE e == s[k]
           r == RemoveAt(s, k)
<1>1. k \in 1 .. Len(s) /\ s[k] = e
  OBVIOUS
<1> HIDE DEF e
<1>3. /\ r \in Seq(S) /\ Len(r) = Len(s) - 1
      /\ \A i \in 1 .. Len(s) - 1 : r[i] = IF i < k THEN s[i] ELSE s[i + 1]
  BY RemoveAtIndex
<1> HIDE DEF r
<1>4. DOMAIN r = 1 .. Len(s) - 1
  BY <1>0, <1>3
<1>2. \A i, j \in 1 .. Len(s) : s[i] = s[j] => i = j
  BY <1>0 DEF IsInjective
<1>5. IsInjective(r)
  <2> SUFFICES ASSUME NEW i \in 1 .. Len(s) - 1, NEW j \in 1 .. Len(s) - 1, r[i] = r[j]
               PROVE  i = j
    BY <1>4 DEF IsInjective
  <2>1. i \in 1 .. Len(s) /\ i + 1 \in 1 .. Len(s) /\ j \in 1 .. Len(s) /\ j + 1 \in 1 .. Len(s)
    BY <1>0
  <2> QED
    BY <1>0, <1>1, <1>3, <1>2, <2>1
<1>6. ASSUME NEW x \in ToSet(r) PROVE x \in ToSet(s) \ {e}
  <2>1. PICK i \in 1 .. Len(s) - 1 : r[i] = x
    BY <1>4, <1>6 DEF ToSet
  <2>2. CASE i < k
    <3>1. i \in 1 .. Len(s) /\ s[i] = x /\ i # k
      BY <1>0, <1>1, <1>3, <2>1, <2>2
    <3> QED
      BY <1>0, <1>1, <1>2, <3>1 DEF ToSet
  <2>3. CASE ~(i < k)
    <3>1. i + 1 \in 1 .. Len(s) /\ s[i + 1] = x /\ i + 1 # k
      BY <1>0, <1>1, <1>3, <2>1, <2>3
    <3> QED
      BY <1>0, <1>1, <1>2, <3>1 DEF ToSet
  <2> QED
    BY <2>2, <2>3
<1>7. ASSUME NEW x \in ToSet(s) \ {e} PROVE x \in ToSet(r)
  <2>1. PICK i \in 1 .. Len(s) : s[i] = x
    BY <1>0, <1>7 DEF ToSet
  <2>2. i # k
    BY <1>1, <1>7, <2>1
  <2>3. CASE i < k
    BY <1>0, <1>1, <1>3, <1>4, <2>1, <2>3 DEF ToSet
  <2>4. CASE i > k
    <3>1. i - 1 \in 1 .. Len(s) - 1 /\ ~(i - 1 < k) /\ (i - 1) + 1 = i
      BY <1>0, <1>1, <2>4
    <3>2. r[i - 1] = x
      BY <1>3, <2>1, <3>1
    <3> QED
      BY <1>4, <3>1, <3>2 DEF ToSet
  <2> QED
    BY <1>0, <1>1, <2>2, <2>3, <2>4
<1> QED
  BY <1>3, <1>5, <1>6, <1>7 DEF r, e

(* A node leaves a list in which it is linked at most once. *)
LEMMA RemoveOnce ==
  ASSUME NEW S, NEW s \in Seq(S), IsInjective(s), NEW e
  PROVE  /\ RemoveFirst(s, e) \in Seq(S)
         /\ Len(RemoveFirst(s, e)) <= Len(s)
         /\ IsInjective(RemoveFirst(s, e))
         /\ ToSet(RemoveFirst(s, e)) = ToSet(s) \ {e}
<1>0. Len(s) \in Nat /\ DOMAIN s = 1 .. Len(s)
  OBVIOUS
<1>1. CASE ~\E i \in 1 .. Len(s) : s[i] = e
  <2>1. RemoveFirst(s, e) = s
    BY <1>1 DEF RemoveFirst
  <2> QED
    BY <1>0, <1>1, <2>1 DEF ToSet
<1>2. CASE \E i \in 1 .. Len(s) : s[i] = e
  <2> DEFINE k == SelectInSeq(s, LAMBDA v : v = e)
  <2>1. k \in 1 .. Len(s) /\ s[k] = e
    BY <1>2, IndexOf
  <2>2. RemoveFirst(s, e) = RemoveAt(s, k)
    BY <1>2 DEF RemoveFirst
  <2> HIDE DEF k
  <2>3. /\ RemoveAt(s, k) \in Seq(S) /\ Len(RemoveAt(s, k)) = Len(s) - 1
        /\ IsInjective(RemoveAt(s, k)) /\ ToSet(RemoveAt(s, k)) = ToSet(s) \ {s[k]}
    BY <2>1, RemoveAtOnce
  <2> QED
    BY <1>0, <2>1, <2>2, <2>3
<1> QED
  BY <1>1, <1>2

(* Induction up to N. *)
LEMMA UpTo ==
  ASSUME NEW N \in Nat, NEW A, 0 \in A, \A n \in 1 .. N : n - 1 \in A => n \in A
  PROVE  0 .. N \subseteq A
<1> DEFINE B == {n \in Nat : n <= N => n \in A}
<1>1. 0 \in B
  OBVIOUS
<1>2. ASSUME NEW n \in Nat, n \in B PROVE n + 1 \in B
  <2> SUFFICES ASSUME n + 1 <= N PROVE n + 1 \in A
    OBVIOUS
  <2>1. n + 1 \in 1 .. N /\ (n + 1) - 1 = n /\ n \in A
    BY <1>2
  <2> QED
    BY <2>1
<1>3. Nat \subseteq B
  <2> HIDE DEF B
  <2> QED
    BY <1>1, <1>2, NatSetInduction
<1> QED
  BY <1>3

(* The values on the way from base through N steps, the n-th by G[n]. *)
Iterations(S, N, base, G) ==
  {f \in [0 .. N -> S] : f[0] = base /\ \A n \in 1 .. N : f[n] = G[n][f[n - 1]]}

(* There are such values. *)
LEMMA Iterate ==
  ASSUME NEW S, NEW N \in Nat, NEW base \in S, NEW G \in [1 .. N -> [S -> S]]
  PROVE  Iterations(S, N, base, G) # {}
<1> DEFINE Follows(f, n) == f[0] = base /\ \A m \in 1 .. n : f[m] = G[m][f[m - 1]]
           A == {n \in 0 .. N : \E f \in [0 .. n -> S] : Follows(f, n)}
<1>1. 0 \in A
  <2>1. [n \in 0 .. 0 |-> base] \in [0 .. 0 -> S] /\ Follows([n \in 0 .. 0 |-> base], 0)
    OBVIOUS
  <2>2. \E f \in [0 .. 0 -> S] : Follows(f, 0)
    BY <2>1
  <2>3. 0 \in 0 .. N
    OBVIOUS
  <2> HIDE DEF Follows
  <2> QED
    BY <2>2, <2>3
<1>2. ASSUME NEW n \in 1 .. N, n - 1 \in A PROVE n \in A
  <2>1. PICK f \in [0 .. n - 1 -> S] : Follows(f, n - 1)
    BY <1>2
  <2> DEFINE e == G[n][f[n - 1]]
             h == [m \in 0 .. n |-> IF m = n THEN e ELSE f[m]]
  <2>2. e \in S
    OBVIOUS
  <2> HIDE DEF e
  <2>3. h \in [0 .. n -> S]
    BY <2>2
  <2>4. /\ h[0] = f[0] /\ h[n] = e /\ h[n - 1] = f[n - 1]
        /\ \A m \in 1 .. n - 1 : h[m] = f[m] /\ h[m - 1] = f[m - 1]
    OBVIOUS
  <2> HIDE DEF h
  <2>5. ASSUME NEW m \in 1 .. n PROVE h[m] = G[m][h[m - 1]]
    <3>1. CASE m = n
      BY <2>4, <3>1 DEF e
    <3>2. CASE m \in 1 .. n - 1
      BY <2>1, <2>4, <3>2
    <3> QED
      BY <3>1, <3>2
  <2>6. Follows(h, n)
    BY <2>1, <2>4, <2>5
  <2> QED
    BY <2>3, <2>6
<1>3. N \in A
  <2> HIDE DEF A
  <2>1. 0 .. N \subseteq A
    BY <1>1, <1>2, UpTo
  <2> QED
    BY <2>1
<1> QED
  BY <1>3 DEF Iterations

(* How many numbers of an ordered sequence are at most x: those before a    *)
(* boundary, and no others.                                                 *)
LEMMA Boundary ==
  ASSUME NEW n \in Nat, NEW K \in [1 .. n -> Int], NEW x \in Int,
         \A i, j \in 1 .. n : i < j => K[i] <= K[j]
  PROVE  /\ Cardinality({k \in 1 .. n : K[k] <= x}) \in 0 .. n
         /\ \A k \in 1 .. n : K[k] <= x <=> k <= Cardinality({i \in 1 .. n : K[i] <= x})
<1> DEFINE I == {k \in 1 .. n : K[k] <= x}
           B == {k \in 1 .. n : ~(K[k] <= x)}
<1> SUFFICES /\ Cardinality(I) \in 0 .. n
             /\ \A k \in 1 .. n : K[k] <= x <=> k <= Cardinality(I)
  OBVIOUS
<1>1. CASE B = {}
  <2>1. I = 1 .. n
    BY <1>1
  <2>2. Cardinality(1 .. n) = n
    BY FS_Interval
  <2>3. \A k \in 1 .. n : K[k] <= x
    BY <1>1
  <2> HIDE DEF I
  <2> QED
    BY <2>1, <2>2, <2>3
<1>2. CASE B # {}
  <2>1. B \subseteq Nat
    OBVIOUS
  <2>2. PICK m \in B : \A k \in B : m <= k
    <3> HIDE DEF B
    <3> QED
      BY <1>2, <2>1, LeastNat
  <2>3. ASSUME NEW k \in 1 .. n, k < m PROVE K[k] <= x
    BY <2>2, <2>3
  <2>4. ASSUME NEW k \in 1 .. n, ~(k < m) PROVE ~(K[k] <= x)
    <3>1. CASE k = m
      BY <2>2, <3>1
    <3>2. CASE m < k
      <4>1. K[m] <= K[k] /\ ~(K[m] <= x) /\ K[m] \in Int /\ K[k] \in Int
        BY <2>2, <3>2
      <4> QED
        BY <4>1
    <3> QED
      BY <2>2, <2>4, <3>1, <3>2
  <2>5. m \in 1 .. n
    BY <2>2
  <2>6. I = 1 .. m - 1
    BY <2>3, <2>4, <2>5
  <2>7. Cardinality(1 .. m - 1) = m - 1
    BY <2>5, FS_Interval
  <2> HIDE DEF I
  <2> QED
    BY <2>3, <2>4, <2>5, <2>6, <2>7
<1> QED
  BY <1>1, <1>2

(* Counting some indexes of a sequence of length n. *)
LEMMA CountUpTo ==
  ASSUME NEW n \in Nat, NEW I, I \subseteq 1 .. n
  PROVE  Cardinality(I) \in 0 .. n
<1>1. IsFiniteSet(1 .. n) /\ Cardinality(1 .. n) = n
  BY FS_Interval
<1>2. IsFiniteSet(I) /\ Cardinality(I) <= n
  BY <1>1, FS_Subset
<1>3. Cardinality(I) \in Nat
  BY <1>2, FS_CardinalityType
<1> QED
  BY <1>2, <1>3

(* A finite set as a sequence. *)
LEMMA SetToSeqExact ==
  ASSUME NEW S, IsFiniteSet(S)
  PROVE  SetToSeq(S) \in Seq(S) /\ ToSet(SetToSeq(S)) = S
<1> DEFINE n == Cardinality(S)
           f == SetToSeq(S)
<1>1. n \in Nat /\ ExistsBijection(1 .. n, S)
  BY FS_CardinalityType
<1>2. PICK g \in [1 .. n -> S] : IsInjective(g)
  BY <1>1 DEF ExistsBijection, Bijection, Injection
<1>3. f \in [1 .. n -> S] /\ IsInjective(f)
  BY <1>2 DEF SetToSeq
<1> HIDE DEF f
<1>4. f \in Injection(1 .. n, S)
  BY <1>3 DEF Injection
<1>5. Cardinality(1 .. n) = n
  BY <1>1, FS_Interval
<1>6. f \in Surjection(1 .. n, S)
  <2> HIDE DEF n
  <2> QED
    BY <1>4, <1>5, FS_Injection DEF n
<1>7. f \in Seq(S)
  BY <1>1, <1>3
<1>8. ToSet(f) = S
  BY <1>3, <1>6 DEF ToSet, Surjection
<1> QED
  BY <1>7, <1>8 DEF f

(* r is s with e at place i. *)
HasAt(r, s, i, e) ==
  /\ Len(r) = Len(s) + 1
  /\ \A j \in 1 .. Len(s) + 1 : r[j] = IF j < i THEN s[j] ELSE IF j = i THEN e ELSE s[j - 1]

(* Putting an element at place i: those from there on make room. *)
LEMMA InsertAtIndex ==
  ASSUME NEW S, NEW s \in Seq(S), NEW e \in S, NEW i \in 1 .. Len(s) + 1
  PROVE  InsertAt(s, i, e) \in Seq(S) /\ HasAt(InsertAt(s, i, e), s, i, e)
<1>1. Len(s) \in Nat /\ i \in Nat /\ i >= 1 /\ i <= Len(s) + 1
  OBVIOUS
<1> DEFINE a == SubSeq(s, 1, i - 1)
           b == SubSeq(s, i, Len(s))
           c == Append(a, e)
<1>2. a \in Seq(S) /\ Len(a) = i - 1 /\ \A j \in 1 .. i - 1 : a[j] = s[j]
  BY <1>1
<1>3. b \in Seq(S) /\ Len(b) = Len(s) - i + 1 /\ \A j \in 1 .. Len(s) - i + 1 : b[j] = s[j + i - 1]
  BY <1>1
<1>4. InsertAt(s, i, e) = c \o b
  <2>1. a \o <<e>> = c
    BY <1>2, AppendIsConcat
  <2> QED
    BY <2>1 DEF InsertAt
<1> HIDE DEF a, b
<1>5. c \in Seq(S) /\ Len(c) = i /\ c[i] = e /\ \A j \in 1 .. i - 1 : c[j] = s[j]
  BY <1>1, <1>2
<1> HIDE DEF c
<1>6. /\ c \o b \in Seq(S) /\ Len(c \o b) = Len(s) + 1
      /\ \A j \in 1 .. Len(c) + Len(b) : (c \o b)[j] = IF j <= Len(c) THEN c[j] ELSE b[j - Len(c)]
  <2>1. c \o b \in Seq(S) /\ Len(c \o b) = Len(c) + Len(b)
    BY <1>3, <1>5, ConcatProperties
  <2> QED
    BY <1>1, <1>3, <1>5, <2>1, ConcatProperties
<1>7. ASSUME NEW j \in 1 .. Len(s) + 1
      PROVE  (c \o b)[j] = IF j < i THEN s[j] ELSE IF j = i THEN e ELSE s[j - 1]
  <2>1. j \in 1 .. Len(c) + Len(b)
    BY <1>1, <1>3, <1>5
  <2>2. CASE j <= i
    BY <1>1, <1>5, <1>6, <2>1, <2>2
  <2>3. CASE j > i
    <3>1. j - i \in 1 .. Len(s) - i + 1 /\ (j - i) + i - 1 = j - 1
      BY <1>1, <2>3
    <3> QED
      BY <1>1, <1>3, <1>5, <1>6, <2>1, <2>3, <3>1
  <2>4. j <= i \/ j > i
    BY <1>1
  <2> QED
    BY <2>2, <2>3, <2>4
<1> QED
  BY <1>4, <1>6, <1>7 DEF HasAt

(* Putting an element that is not there at place i. *)
LEMMA InsertOnce ==
  ASSUME NEW S, NEW s \in Seq(S), NEW e \in S, NEW i \in 1 .. Len(s) + 1,
         IsInjective(s), e \notin ToSet(s)
  PROVE  /\ IsInjective(InsertAt(s, i, e))
         /\ ToSet(InsertAt(s, i, e)) = ToSet(s) \cup {e}
<1> DEFINE r == InsertAt(s, i, e)
<1>0. Len(s) \in Nat /\ DOMAIN s = 1 .. Len(s) /\ i \in Nat
  OBVIOUS
<1>1. /\ r \in Seq(S) /\ Len(r) = Len(s) + 1
      /\ \A j \in 1 .. Len(s) + 1 : r[j] = IF j < i THEN s[j] ELSE IF j = i THEN e ELSE s[j - 1]
  BY InsertAtIndex DEF HasAt
<1> HIDE DEF r
<1>2. DOMAIN r = 1 .. Len(s) + 1
  BY <1>0, <1>1
<1>3. \A j, k \in 1 .. Len(s) : s[j] = s[k] => j = k
  BY <1>0 DEF IsInjective
<1>4. \A j \in 1 .. Len(s) : s[j] # e
  BY <1>0 DEF ToSet
<1>5. ASSUME NEW j \in 1 .. Len(s) + 1, NEW k \in 1 .. Len(s) + 1, r[j] = r[k] PROVE j = k
  <2>1. /\ j < i => j \in 1 .. Len(s)
        /\ j > i => j - 1 \in 1 .. Len(s)
        /\ k < i => k \in 1 .. Len(s)
        /\ k > i => k - 1 \in 1 .. Len(s)
    BY <1>0
  <2> QED
    BY <1>0, <1>1, <1>3, <1>4, <1>5, <2>1
<1>6. IsInjective(r)
  BY <1>2, <1>5 DEF IsInjective
<1>7. ASSUME NEW j \in 1 .. Len(s) + 1 PROVE r[j] \in ToSet(s) \cup {e}
  <2>1. (j < i => j \in 1 .. Len(s)) /\ (j > i => j - 1 \in 1 .. Len(s))
    BY <1>0
  <2>2. \A k \in 1 .. Len(s) : s[k] \in ToSet(s)
    BY <1>0 DEF ToSet
  <2>3. j < i \/ j = i \/ j > i
    BY <1>0
  <2> QED
    BY <1>0, <1>1, <2>1, <2>2, <2>3
<1>8. ASSUME NEW j \in 1 .. Len(s) PROVE s[j] \in ToSet(r)
  <2>1. CASE j < i
    <3>1. j \in 1 .. Len(s) + 1 /\ r[j] = s[j]
      BY <1>0, <1>1, <2>1
    <3> QED
      BY <1>2, <3>1 DEF ToSet
  <2>2. CASE ~(j < i)
    <3>1. j + 1 \in 1 .. Len(s) + 1 /\ (j + 1) - 1 = j /\ ~(j + 1 < i) /\ j + 1 # i
      BY <1>0, <2>2
    <3>2. r[j + 1] = s[j]
      BY <1>1, <3>1
    <3> QED
      BY <1>2, <3>1, <3>2 DEF ToSet
  <2> QED
    BY <2>1, <2>2
<1>9. e \in ToSet(r)
  BY <1>0, <1>1, <1>2 DEF ToSet
<1> QED
  BY <1>0, <1>2, <1>6, <1>7, <1>8, <1>9 DEF ToSet, r

(* The first element leaves a list in which it is linked once. *)
LEMMA TailOnce ==
  ASSUME NEW S, NEW s \in Seq(S), s # <<>>, IsInjective(s)
  PROVE  /\ Head(s) = s[1] /\ 1 \in DOMAIN s /\ Head(s) \in ToSet(s)
         /\ Tail(s) \in Seq(S) /\ Len(Tail(s)) = Len(s) - 1
         /\ \A i \in 1 .. Len(s) - 1 : Tail(s)[i] = s[i + 1]
         /\ IsInjective(Tail(s)) /\ ToSet(Tail(s)) = ToSet(s) \ {Head(s)}
<1> DEFINE r == Tail(s)
           e == Head(s)
<1>1. /\ Len(s) \in Nat \ {0} /\ DOMAIN s = 1 .. Len(s) /\ e = s[1]
      /\ r \in Seq(S) /\ Len(r) = Len(s) - 1 /\ \A i \in 1 .. Len(s) - 1 : r[i] = s[i + 1]
  OBVIOUS
<1> HIDE DEF r, e
<1>2. DOMAIN r = 1 .. Len(s) - 1
  BY <1>1
<1>3. \A i, j \in 1 .. Len(s) : s[i] = s[j] => i = j
  BY <1>1 DEF IsInjective
<1>4. \A i \in 1 .. Len(s) - 1 : i + 1 \in 1 .. Len(s) /\ i + 1 # 1
  BY <1>1
<1>5. IsInjective(r)
  <2> SUFFICES ASSUME NEW i \in 1 .. Len(s) - 1, NEW j \in 1 .. Len(s) - 1, r[i] = r[j] PROVE i = j
    BY <1>2 DEF IsInjective
  <2>1. i + 1 = j + 1
    BY <1>1, <1>3, <1>4
  <2> QED
    BY <2>1
<1>6. ASSUME NEW i \in 1 .. Len(s) - 1 PROVE r[i] \in ToSet(s) \ {e}
  <2>1. r[i] = s[i + 1] /\ s[i + 1] \in ToSet(s)
    BY <1>1, <1>4 DEF ToSet
  <2>2. s[i + 1] # s[1]
    BY <1>1, <1>3, <1>4
  <2> QED
    BY <1>1, <2>1, <2>2
<1>7. ASSUME NEW i \in 1 .. Len(s), s[i] # e PROVE s[i] \in ToSet(r)
  <2>1. i # 1
    BY <1>1, <1>7
  <2>2. i - 1 \in 1 .. Len(s) - 1 /\ (i - 1) + 1 = i
    BY <1>1, <2>1
  <2>3. r[i - 1] = s[i]
    BY <1>1, <2>2
  <2> QED
    BY <1>2, <2>2, <2>3 DEF ToSet
<1>8. ToSet(r) = ToSet(s) \ {e}
  BY <1>1, <1>2, <1>6, <1>7 DEF ToSet
<1>9. 1 \in DOMAIN s /\ e \in ToSet(s)
  BY <1>1 DEF ToSet
<1> QED
  BY <1>1, <1>5, <1>8, <1>9 DEF r, e

(* What is left of a list keeps its order. *)
LEMMA RemoveFirstOrder ==
  ASSUME NEW S, NEW s \in Seq(S), NEW e, NEW i \in DOMAIN RemoveFirst(s, e), NEW j \in DOMAIN RemoveFirst(s, e), i < j
  PROVE  \E k, l \in DOMAIN s : k < l /\ s[k] = RemoveFirst(s, e)[i] /\ s[l] = RemoveFirst(s, e)[j]
<1>0. Len(s) \in Nat /\ DOMAIN s = 1 .. Len(s)
  OBVIOUS
<1>1. CASE ~\E m \in 1 .. Len(s) : s[m] = e
  <2>1. RemoveFirst(s, e) = s
    BY <1>1 DEF RemoveFirst
  <2> QED
    BY <2>1
<1>2. CASE \E m \in 1 .. Len(s) : s[m] = e
  <2> DEFINE p == SelectInSeq(s, LAMBDA v : v = e)
             r == RemoveAt(s, p)
  <2>1. p \in 1 .. Len(s) /\ s[p] = e
    BY <1>2, IndexOf
  <2>2. RemoveFirst(s, e) = r
    BY <1>2 DEF RemoveFirst
  <2> HIDE DEF p
  <2>3. /\ r \in Seq(S) /\ Len(r) = Len(s) - 1
        /\ \A m \in 1 .. Len(s) - 1 : r[m] = IF m < p THEN s[m] ELSE s[m + 1]
    BY <2>1, RemoveAtIndex
  <2>4. i \in 1 .. Len(s) - 1 /\ j \in 1 .. Len(s) - 1
    BY <2>2, <2>3
  <2> HIDE DEF r
  <2> DEFINE at(m) == IF m < p THEN m ELSE m + 1
  <2>5. at(i) \in DOMAIN s /\ at(j) \in DOMAIN s /\ at(i) < at(j) /\ s[at(i)] = r[i] /\ s[at(j)] = r[j]
    BY <1>0, <2>1, <2>3, <2>4
  <2> QED
    BY <2>2, <2>5
<1> QED
  BY <1>1, <1>2

(* Dividing with a remainder, from below. *)
LEMMA Divided ==
  ASSUME NEW u \in Nat \ {0}, NEW m \in Nat
  PROVE  m \div u \in Nat /\ m % u \in 0 .. u - 1 /\ m = u * (m \div u) + (m % u)
  OBVIOUS

=============================================================================
