--------------------------- MODULE SemaphoreProofs ---------------------------
(***************************************************************************)
(* Proofs about Semaphore for any set of tasks, any limit and any requests *)
(* that do not make would_block()'s addition wrap around.                  *)
(***************************************************************************)
EXTENDS Semaphore, TLAPS, FiniteSetTheorems

(* The additions of would_block() and take_units() stay below 2^64. *)
NoWrap == \A u \in Requests : MaxParallelism + u < SizeT

(* What a task's m_units can be: 0 when it has neither a Holder nor an     *)
(* awaiter, and what hold() was called with while its awaiter is linked.   *)
UnitsKnown ==
  \A t \in Tasks :
    /\ st[t] \in {"active", "gone"} => units[t] = 0
    /\ st[t] \in {"waiting", "granted"} => units[t] \in Requests /\ units[t] <= MaxParallelism

(* NoStrandedWaiter, told from the counter. *)
Contended == waiters # <<>> /\ ~freeing => current > 0

(* The inductive invariant. *)
IInv == TypeOK /\ UnitsKnown /\ LinkedOnce /\ Conservation /\ Contended

-----------------------------------------------------------------------------
(* The units of finitely many tasks are finitely many. *)
LEMMA UnitsFinite ==
  ASSUME NEW S \in SUBSET Tasks, NEW f
  PROVE  IsFiniteSet(UnitsOf(S, f)) /\ Cardinality(UnitsOf(S, f)) \in Nat
<1>1. IsFiniteSet(S)
  BY FS_Subset, SemaphoreAssumption DEF SemaphoreAssumption
<1>2. IsFiniteSet(1 .. SizeT)
  BY FS_Interval, SemaphoreAssumption DEF SemaphoreAssumption
<1>3. IsFiniteSet(S \X (1 .. SizeT))
  BY <1>1, <1>2, FS_Product
<1>4. UnitsOf(S, f) \in SUBSET (S \X (1 .. SizeT))
  BY DEF UnitsOf
<1>5. IsFiniteSet(UnitsOf(S, f))
  BY <1>3, <1>4, FS_Subset
<1> QED
  BY <1>5, FS_CardinalityType

(* Only the units of the tasks in S matter. *)
LEMMA SameUnits ==
  ASSUME NEW S, NEW f, NEW g, \A s \in S : f[s] = g[s]
  PROVE  UnitsOf(S, f) = UnitsOf(S, g)
BY DEF UnitsOf

(* A new owner adds its units. *)
LEMMA AddOwner ==
  ASSUME NEW S \in SUBSET Tasks, NEW t \in Tasks, t \notin S,
         NEW f \in [Tasks -> 0 .. SizeT - 1]
  PROVE  Cardinality(UnitsOf(S \cup {t}, f)) = Cardinality(UnitsOf(S, f)) + f[t]
<1> DEFINE U == UnitsOf(S, f)
           V == {t} \X (1 .. f[t])
<1>1. f[t] \in Nat /\ f[t] < SizeT /\ SizeT \in Nat
  BY SemaphoreAssumption DEF SemaphoreAssumption
<1>2. UnitsOf(S \cup {t}, f) = U \cup V
  <2>1. ASSUME NEW p \in UnitsOf(S \cup {t}, f) PROVE p \in U \cup V
    BY <1>1 DEF UnitsOf
  <2>2. ASSUME NEW p \in U \cup V PROVE p \in UnitsOf(S \cup {t}, f)
    BY <1>1 DEF UnitsOf
  <2> QED BY <2>1, <2>2
<1>3. U \cap V = {}
  BY DEF UnitsOf
<1>4. IsFiniteSet(V) /\ Cardinality(V) = f[t]
  <2>1. IsFiniteSet({t}) /\ Cardinality({t}) = 1
    BY FS_Singleton
  <2>2. IsFiniteSet(1 .. f[t]) /\ Cardinality(1 .. f[t]) = f[t]
    BY <1>1, FS_Interval
  <2>3. IsFiniteSet(V) /\ Cardinality(V) = Cardinality({t}) * Cardinality(1 .. f[t])
    BY <2>1, <2>2, FS_Product
  <2> QED BY <1>1, <2>1, <2>2, <2>3
<1>5. IsFiniteSet(U) /\ Cardinality(U) \in Nat
  BY UnitsFinite
<1>6. Cardinality(U \cup V) = Cardinality(U) + Cardinality(V) - Cardinality(U \cap V)
  BY <1>4, <1>5, FS_Union
<1>7. Cardinality(U \cap V) = 0
  BY <1>3, FS_EmptySet
<1> HIDE DEF U, V
<1>8. Cardinality(U \cup V) = Cardinality(U) + f[t]
  BY <1>1, <1>4, <1>5, <1>6, <1>7
<1> QED
  BY <1>2, <1>8 DEF U

-----------------------------------------------------------------------------
(* Queueing at the back. *)
LEMMA LinkAppend ==
  ASSUME NEW s \in Seq(Tasks), NoDuplicates(s), NEW t \in Tasks, ~Linked(s, t)
  PROVE  /\ Append(s, t) \in Seq(Tasks)
         /\ NoDuplicates(Append(s, t))
         /\ \A x : Linked(Append(s, t), x) <=> Linked(s, x) \/ x = t
<1>1. /\ Append(s, t) \in Seq(Tasks)
      /\ Len(Append(s, t)) = Len(s) + 1 /\ Len(s) \in Nat
      /\ \A i \in 1 .. Len(s) : Append(s, t)[i] = s[i]
      /\ Append(s, t)[Len(s) + 1] = t
  OBVIOUS
<1>2. NoDuplicates(Append(s, t))
  BY <1>1 DEF NoDuplicates, Linked
<1>3. ASSUME NEW x PROVE Linked(Append(s, t), x) <=> Linked(s, x) \/ x = t
  BY <1>1 DEF Linked
<1> QED BY <1>1, <1>2, <1>3

(* Leaving from the front. *)
LEMMA LinkTail ==
  ASSUME NEW s \in Seq(Tasks), NoDuplicates(s), s # <<>>
  PROVE  /\ Tail(s) \in Seq(Tasks) /\ Head(s) \in Tasks
         /\ NoDuplicates(Tail(s))
         /\ Linked(s, Head(s))
         /\ \A x : Linked(Tail(s), x) <=> Linked(s, x) /\ x # Head(s)
<1>1. /\ Tail(s) \in Seq(Tasks) /\ Len(s) \in Nat \ {0}
      /\ Len(Tail(s)) = Len(s) - 1
      /\ \A i \in 1 .. Len(s) - 1 : Tail(s)[i] = s[i + 1]
      /\ Head(s) = s[1] /\ s[1] \in Tasks
  OBVIOUS
<1>2. NoDuplicates(Tail(s))
  BY <1>1 DEF NoDuplicates
<1>3. Linked(s, Head(s))
  BY <1>1 DEF Linked
<1>4. ASSUME NEW x, Linked(Tail(s), x) PROVE Linked(s, x) /\ x # Head(s)
  BY <1>1, <1>4 DEF Linked, NoDuplicates
<1>5. ASSUME NEW x, Linked(s, x), x # Head(s) PROVE Linked(Tail(s), x)
  <2>1. PICK i \in 1 .. Len(s) : s[i] = x
    BY <1>5 DEF Linked
  <2>2. i - 1 \in 1 .. Len(s) - 1
    BY <1>1, <1>5, <2>1
  <2>3. Tail(s)[i - 1] = s[(i - 1) + 1]
    BY <1>1, <2>2
  <2> QED BY <1>1, <2>1, <2>2, <2>3 DEF Linked
<1> QED BY <1>1, <1>2, <1>3, <1>4, <1>5

(* Leaving from the middle. *)
LEMMA LinkUnlink ==
  ASSUME NEW s \in Seq(Tasks), NoDuplicates(s), NEW t \in Tasks
  PROVE  /\ Unlink(s, t) \in Seq(Tasks)
         /\ NoDuplicates(Unlink(s, t))
         /\ \A x : Linked(Unlink(s, t), x) <=> Linked(s, x) /\ x # t
<1>1. CASE ~Linked(s, t)
  BY <1>1 DEF Unlink, Linked
<1>2. CASE Linked(s, t)
  <2> DEFINE k == CHOOSE i \in 1 .. Len(s) : s[i] = t
             r == [i \in 1 .. Len(s) - 1 |-> IF i < k THEN s[i] ELSE s[i + 1]]
  <2>1. k \in 1 .. Len(s) /\ s[k] = t
    BY <1>2 DEF Linked
  <2>2. Unlink(s, t) = r
    BY <1>2 DEF Unlink
  <2> HIDE DEF k
  <2>3. Len(s) \in Nat /\ \A i \in 1 .. Len(s) : s[i] \in Tasks
    OBVIOUS
  <2>4. Len(s) - 1 \in Nat /\ \A i \in 1 .. Len(s) - 1 : r[i] \in Tasks
    BY <2>1, <2>3
  <2>5. r \in Seq(Tasks) /\ Len(r) = Len(s) - 1
    BY <2>4
  <2>6. \A i \in 1 .. Len(s) - 1 : r[i] = IF i < k THEN s[i] ELSE s[i + 1]
    OBVIOUS
  <2> HIDE DEF r
  <2>7. NoDuplicates(r)
    BY <2>1, <2>3, <2>5, <2>6 DEF NoDuplicates
  <2>8. ASSUME NEW x, Linked(r, x) PROVE Linked(s, x) /\ x # t
    <3>1. PICK i \in 1 .. Len(s) - 1 : r[i] = x
      BY <2>5, <2>8 DEF Linked
    <3>2. CASE i < k
      BY <2>1, <2>3, <2>6, <3>1, <3>2 DEF Linked, NoDuplicates
    <3>3. CASE ~(i < k)
      BY <2>1, <2>3, <2>6, <3>1, <3>3 DEF Linked, NoDuplicates
    <3> QED BY <3>2, <3>3
  <2>9. ASSUME NEW x, Linked(s, x), x # t PROVE Linked(r, x)
    <3>1. PICK i \in 1 .. Len(s) : s[i] = x
      BY <2>9 DEF Linked
    <3>2. i # k
      BY <2>1, <2>9, <3>1
    <3>3. CASE i < k
      BY <2>1, <2>3, <2>5, <2>6, <3>1, <3>3 DEF Linked
    <3>4. CASE i > k
      <4>1. i - 1 \in 1 .. Len(s) - 1 /\ ~(i - 1 < k) /\ (i - 1) + 1 = i
        BY <2>1, <2>3, <3>4
      <4>2. r[i - 1] = x
        BY <2>6, <3>1, <4>1
      <4> QED BY <2>5, <4>1, <4>2 DEF Linked
    <3> QED BY <2>1, <2>3, <3>2, <3>3, <3>4
  <2> QED BY <2>2, <2>5, <2>7, <2>8, <2>9
<1> QED BY <1>1, <1>2

-----------------------------------------------------------------------------
(* How a step changes the units in use. *)
LEMMA KeepOwners ==
  ASSUME Counted' = Counted, \A s \in Counted : units'[s] = units[s]
  PROVE  UnitsInUse' = UnitsInUse
<1>1. UnitsOf(Counted, units') = UnitsOf(Counted, units)
  BY SameUnits
<1> QED BY <1>1 DEF UnitsInUse, UnitsOf

(* A task comes to own units. *)
LEMMA GainOwner ==
  ASSUME TypeOK', NEW t \in Tasks, t \notin Counted, Counted' = Counted \cup {t},
         \A s \in Counted : units'[s] = units[s]
  PROVE  Cardinality(UnitsInUse') = Cardinality(UnitsInUse) + units'[t]
<1>1. Counted \in SUBSET Tasks /\ units' \in [Tasks -> 0 .. SizeT - 1]
  BY DEF Counted, Owners, Lost, TypeOK
<1>2. UnitsOf(Counted, units') = UnitsOf(Counted, units)
  BY SameUnits
<1>3. Cardinality(UnitsOf(Counted \cup {t}, units')) = Cardinality(UnitsOf(Counted, units')) + units'[t]
  BY <1>1, AddOwner
<1> QED BY <1>2, <1>3 DEF UnitsInUse, UnitsOf

(* A task gives its units up. *)
LEMMA LoseOwner ==
  ASSUME TypeOK, NEW t \in Counted, Counted' = Counted \ {t},
         \A s \in Counted \ {t} : units'[s] = units[s]
  PROVE  /\ Cardinality(UnitsInUse') \in Nat
         /\ Cardinality(UnitsInUse) = Cardinality(UnitsInUse') + units[t]
<1> DEFINE R == Counted \ {t}
<1>1. R \in SUBSET Tasks /\ t \in Tasks /\ units \in [Tasks -> 0 .. SizeT - 1]
  BY DEF Counted, Owners, Lost, TypeOK
<1>2. UnitsOf(R, units') = UnitsOf(R, units)
  BY SameUnits
<1>3. R \cup {t} = Counted
  OBVIOUS
<1>4. Cardinality(UnitsOf(R \cup {t}, units)) = Cardinality(UnitsOf(R, units)) + units[t]
  BY <1>1, AddOwner
<1>5. Cardinality(UnitsOf(R, units)) \in Nat
  BY <1>1, UnitsFinite
<1>6. UnitsInUse' = UnitsOf(R, units)
  BY <1>2 DEF UnitsInUse, UnitsOf
<1> QED BY <1>3, <1>4, <1>5, <1>6 DEF UnitsInUse

(* Below 2^64 size_t adds and subtracts like the naturals. *)
LEMMA NoWrapAdd ==
  ASSUME NoWrap, NEW c \in 0 .. MaxParallelism, NEW u \in Requests
  PROVE  Plus(c, u) = c + u /\ c + u < SizeT /\ u \in 0 .. SizeT - 1 /\ SizeT \in Nat
BY SemaphoreAssumption DEF SemaphoreAssumption, NoWrap, Plus

(* Subtraction does not wrap either. *)
LEMMA NoWrapSub ==
  ASSUME NEW c \in Nat, NEW u \in Nat, u <= c
  PROVE  Minus(c, u) = c - u
BY DEF Minus

-----------------------------------------------------------------------------
(* The steps, one by one. *)
LEMMA InitIInv == Init => IInv
<1> SUFFICES ASSUME Init PROVE IInv
  OBVIOUS
<1>1. TypeOK
  <2>1. 0 \in 0 .. MaxParallelism /\ 0 \in 0 .. SizeT - 1 /\ MaxHolds \in 0 .. MaxHolds
    BY SemaphoreAssumption DEF SemaphoreAssumption
  <2>2. <<>> \in Seq(Tasks)
    OBVIOUS
  <2>3. st \in [Tasks -> States]
    BY DEF Init, States
  <2>4. units \in [Tasks -> 0 .. SizeT - 1] /\ holdsLeft \in [Tasks -> 0 .. MaxHolds]
    BY <2>1 DEF Init
  <2> QED BY <2>1, <2>2, <2>3, <2>4, Zenon DEF Init, TypeOK
<1>2. UnitsKnown /\ LinkedOnce /\ Contended
  BY DEF Init, UnitsKnown, LinkedOnce, NoDuplicates, Linked, Contended
<1>3. UnitsInUse = {}
  BY DEF Init, UnitsInUse, UnitsOf, Counted, Owners, Lost
<1>4. Conservation
  BY <1>3, FS_EmptySet DEF Init, Conservation
<1> QED BY <1>1, <1>2, <1>4 DEF IInv

(* co_await hold(): units are taken at once, or the awaiter queues. *)
LEMMA HoldStep ==
  ASSUME NoWrap, IInv, NEW t \in Tasks, NEW u \in Requests, Hold(t, u)
  PROVE  IInv'
<1> USE DEF IInv
<1>0. /\ current \in 0 .. MaxParallelism /\ MaxParallelism \in Nat /\ u \in 0 .. SizeT - 1
      /\ Plus(current, u) = current + u /\ st[t] = "active" /\ ~Linked(waiters, t) /\ ~freeing
      /\ u <= MaxParallelism /\ MaxHolds \in Nat
  BY NoWrapAdd, SemaphoreAssumption DEF SemaphoreAssumption, TypeOK, Hold, Idle, LinkedOnce
<1>1. CASE WouldBlock(u)
  <2>1. /\ st' = [st EXCEPT ![t] = "waiting"] /\ waiters' = Append(waiters, t)
        /\ units' = [units EXCEPT ![t] = u] /\ holdsLeft' = [holdsLeft EXCEPT ![t] = @ - 1]
        /\ UNCHANGED <<current, ready, freeing, alive>> /\ holdsLeft[t] > 0
    BY <1>1 DEF Hold
  <2>2. /\ waiters' \in Seq(Tasks) /\ NoDuplicates(waiters')
        /\ \A x : Linked(waiters', x) <=> Linked(waiters, x) \/ x = t
    BY <1>0, <2>1, LinkAppend DEF TypeOK, LinkedOnce
  <2>3. TypeOK'
    BY <1>0, <2>1, <2>2 DEF TypeOK, States
  <2>4. UnitsKnown'
    BY <1>0, <2>1 DEF UnitsKnown, TypeOK
  <2>5. LinkedOnce'
    BY <1>0, <2>1, <2>2 DEF LinkedOnce, TypeOK
  <2>6. UnitsInUse' = UnitsInUse
    <3>1. Counted' = Counted /\ \A s \in Counted : units'[s] = units[s]
      BY <1>0, <2>1 DEF Counted, Owners, Lost, TypeOK
    <3> QED BY <3>1, KeepOwners
  <2>7. Conservation'
    BY <2>1, <2>6 DEF Conservation
  <2>8. Contended'
    BY <1>0, <1>1, <2>1 DEF Contended, WouldBlock
  <2> QED BY <2>3, <2>4, <2>5, <2>7, <2>8
<1>2. CASE ~WouldBlock(u)
  <2>1. /\ st' = [st EXCEPT ![t] = "holding"] /\ current' = current + u
        /\ units' = [units EXCEPT ![t] = u] /\ holdsLeft' = [holdsLeft EXCEPT ![t] = @ - 1]
        /\ UNCHANGED <<waiters, ready, freeing, alive>> /\ holdsLeft[t] > 0
    BY <1>0, <1>2 DEF Hold, TakeUnits
  <2>2. current + u <= MaxParallelism
    BY <1>0, <1>2 DEF WouldBlock
  <2>3. TypeOK'
    BY <1>0, <2>1, <2>2 DEF TypeOK, States
  <2>4. UnitsKnown'
    BY <1>0, <2>1 DEF UnitsKnown, TypeOK
  <2>5. LinkedOnce'
    BY <1>0, <2>1 DEF LinkedOnce, TypeOK
  <2>6. Cardinality(UnitsInUse') = Cardinality(UnitsInUse) + units'[t]
    <3>1. /\ t \notin Counted /\ Counted' = Counted \cup {t}
          /\ \A s \in Counted : units'[s] = units[s]
      BY <1>0, <2>1 DEF Counted, Owners, Lost, TypeOK
    <3> QED BY <2>3, <3>1, GainOwner
  <2>7. Conservation'
    BY <2>1, <2>6 DEF Conservation, TypeOK
  <2>8. Contended'
    BY <1>0, <2>1 DEF Contended
  <2> QED BY <2>3, <2>4, <2>5, <2>7, <2>8
<1> QED BY <1>1, <1>2

(* try_hold(): a Holder, or nothing changes. *)
LEMMA TryHoldStep ==
  ASSUME NoWrap, IInv, NEW t \in Tasks, NEW u \in Requests, TryHold(t, u)
  PROVE  IInv'
<1> USE DEF IInv
<1>0. /\ current \in 0 .. MaxParallelism /\ MaxParallelism \in Nat /\ u \in 0 .. SizeT - 1
      /\ Plus(current, u) = current + u /\ st[t] = "active" /\ MaxHolds \in Nat
  BY NoWrapAdd, SemaphoreAssumption DEF SemaphoreAssumption, TypeOK, TryHold, Idle
<1>1. /\ st' = [st EXCEPT ![t] = "holding"] /\ current' = current + u
      /\ units' = [units EXCEPT ![t] = u] /\ holdsLeft' = [holdsLeft EXCEPT ![t] = @ - 1]
      /\ UNCHANGED <<waiters, ready, freeing, alive>> /\ holdsLeft[t] > 0
  BY <1>0 DEF TryHold, TakeUnits
<1>2. current + u <= MaxParallelism
  BY <1>0 DEF TryHold, WouldBlock
<1>3. TypeOK'
  BY <1>0, <1>1, <1>2 DEF TypeOK, States
<1>4. UnitsKnown'
  BY <1>0, <1>1 DEF UnitsKnown, TypeOK
<1>5. LinkedOnce'
  BY <1>0, <1>1 DEF LinkedOnce, TypeOK
<1>6. Cardinality(UnitsInUse') = Cardinality(UnitsInUse) + units'[t]
  <2>1. /\ t \notin Counted /\ Counted' = Counted \cup {t}
        /\ \A s \in Counted : units'[s] = units[s]
    BY <1>0, <1>1 DEF Counted, Owners, Lost, TypeOK
  <2> QED BY <1>3, <2>1, GainOwner
<1>7. Conservation'
  BY <1>1, <1>6 DEF Conservation, TypeOK
<1>8. Contended'
  BY <1>0, <1>1 DEF Contended
<1> QED BY <1>3, <1>4, <1>5, <1>7, <1>8

(* The reactor resumes a granted awaiter, which gets its Holder. *)
LEMMA ResumeStep ==
  ASSUME IInv, Resume
  PROVE  IInv'
<1> USE DEF IInv
<1> DEFINE h == Head(ready)
<1>1. /\ st' = [st EXCEPT ![h] = "holding"] /\ ready' = Tail(ready)
      /\ UNCHANGED <<current, waiters, units, freeing, alive, holdsLeft>>
  BY DEF Resume
<1>2. /\ ready' \in Seq(Tasks) /\ h \in Tasks /\ NoDuplicates(ready') /\ Linked(ready, h)
      /\ \A x : Linked(ready', x) <=> Linked(ready, x) /\ x # h
  BY <1>1, LinkTail DEF Resume, TypeOK, LinkedOnce
<1> HIDE DEF h
<1>3. st[h] = "granted"
  BY <1>2 DEF LinkedOnce
<1>4. TypeOK'
  BY <1>1, <1>2 DEF TypeOK, States
<1>5. UnitsKnown'
  BY <1>1, <1>2 DEF UnitsKnown, TypeOK
<1>6. LinkedOnce'
  BY <1>1, <1>2, <1>3 DEF LinkedOnce, TypeOK
<1>7. UnitsInUse' = UnitsInUse
  <2>1. Counted' = Counted /\ \A s \in Counted : units'[s] = units[s]
    BY <1>1, <1>2, <1>3 DEF Counted, Owners, Lost, TypeOK
  <2> QED BY <2>1, KeepOwners
<1>8. Conservation' /\ Contended'
  BY <1>1, <1>7 DEF Conservation, Contended
<1> QED BY <1>4, <1>5, <1>6, <1>8

(* One turn of free_units's loop. *)
LEMMA GrantStep ==
  ASSUME NoWrap, IInv, Grant
  PROVE  IInv'
<1> USE DEF IInv
<1> DEFINE h == Head(waiters)
<1>1. /\ st' = [st EXCEPT ![h] = "granted"] /\ waiters' = Tail(waiters)
      /\ ready' = Append(ready, h) /\ current' = Plus(current, units[h])
      /\ UNCHANGED <<units, freeing, alive, holdsLeft>>
      /\ ~WouldBlock(units[h]) /\ freeing
  BY DEF Grant, TakeUnits, FrontFits
<1>2. /\ waiters' \in Seq(Tasks) /\ h \in Tasks /\ NoDuplicates(waiters') /\ Linked(waiters, h)
      /\ \A x : Linked(waiters', x) <=> Linked(waiters, x) /\ x # h
  BY <1>1, LinkTail DEF Grant, FrontFits, TypeOK, LinkedOnce
<1> HIDE DEF h
<1>3. st[h] = "waiting" /\ ~Linked(ready, h)
  BY <1>2 DEF LinkedOnce
<1>4. /\ ready' \in Seq(Tasks) /\ NoDuplicates(ready')
      /\ \A x : Linked(ready', x) <=> Linked(ready, x) \/ x = h
  BY <1>1, <1>2, <1>3, LinkAppend DEF TypeOK, LinkedOnce
<1>5. /\ current \in 0 .. MaxParallelism /\ MaxParallelism \in Nat /\ units[h] \in Nat
      /\ current' = current + units[h] /\ current + units[h] <= MaxParallelism
  <2>1. units[h] \in Requests
    BY <1>2, <1>3 DEF UnitsKnown
  <2>2. Plus(current, units[h]) = current + units[h] /\ units[h] \in 0 .. SizeT - 1
    BY <2>1, NoWrapAdd DEF TypeOK
  <2> QED
    BY <1>1, <2>2, SemaphoreAssumption DEF SemaphoreAssumption, TypeOK, WouldBlock
<1>6. TypeOK'
  BY <1>1, <1>2, <1>4, <1>5 DEF TypeOK, States
<1>7. UnitsKnown'
  BY <1>1, <1>2, <1>3 DEF UnitsKnown, TypeOK
<1>8. LinkedOnce'
  BY <1>1, <1>2, <1>3, <1>4 DEF LinkedOnce, TypeOK
<1>9. Cardinality(UnitsInUse') = Cardinality(UnitsInUse) + units'[h]
  <2>1. /\ h \notin Counted /\ Counted' = Counted \cup {h}
        /\ \A s \in Counted : units'[s] = units[s]
    BY <1>1, <1>2, <1>3 DEF Counted, Owners, Lost, TypeOK
  <2> QED BY <1>2, <1>6, <2>1, GainOwner
<1>10. Conservation'
  BY <1>1, <1>5, <1>9 DEF Conservation
<1>11. Contended'
  BY <1>1 DEF Contended
<1> QED BY <1>6, <1>7, <1>8, <1>10, <1>11

(* free_units's loop ends: nobody waits, or the front would block. *)
LEMMA FreeDoneStep ==
  ASSUME NoWrap, IInv, FreeDone
  PROVE  IInv'
<1> USE DEF IInv
<1>1. UNCHANGED <<current, waiters, ready, st, units, alive, holdsLeft>> /\ freeing' = FALSE
  BY DEF FreeDone
<1>2. TypeOK' /\ UnitsKnown' /\ LinkedOnce'
  BY <1>1 DEF TypeOK, UnitsKnown, LinkedOnce
<1>3. UnitsInUse' = UnitsInUse
  BY <1>1 DEF UnitsInUse, UnitsOf, Counted, Owners, Lost
<1>4. ASSUME waiters # <<>> PROVE current > 0
  <2> DEFINE u == units[Head(waiters)]
  <2>1. Head(waiters) \in Tasks /\ st[Head(waiters)] = "waiting"
    BY <1>4, LinkTail DEF TypeOK, LinkedOnce
  <2>2. u \in Requests /\ u <= MaxParallelism
    BY <2>1 DEF UnitsKnown
  <2>3. WouldBlock(u)
    BY <1>4 DEF FreeDone, FrontFits
  <2> HIDE DEF u
  <2>4. current \in 0 .. MaxParallelism /\ MaxParallelism \in Nat
    BY SemaphoreAssumption DEF SemaphoreAssumption, TypeOK
  <2>5. Plus(current, u) = current + u /\ u \in 0 .. SizeT - 1 /\ SizeT \in Nat
    BY <2>2, <2>4, NoWrapAdd
  <2> QED BY <2>2, <2>3, <2>4, <2>5 DEF WouldBlock
<1>5. Conservation' /\ Contended'
  BY <1>1, <1>3, <1>4 DEF Conservation, Contended
<1> QED BY <1>2, <1>5

(* reset() on a Holder of u units that current still counts. *)
LEMMA ResetSub ==
  ASSUME TypeOK, NEW u \in Nat, u <= current, Reset(u)
  PROVE  /\ current' = current - u
         /\ freeing' \in BOOLEAN
         /\ ~freeing' => u = 0 /\ ~freeing
<1>1. current \in Nat /\ freeing \in BOOLEAN
  BY SemaphoreAssumption DEF SemaphoreAssumption, TypeOK
<1>2. CASE u = 0
  BY <1>1, <1>2 DEF Reset
<1>3. CASE u # 0
  <2>1. current' = Minus(current, u) /\ freeing' = TRUE
    BY <1>3 DEF Reset, FreeUnits
  <2> QED BY <1>1, <1>3, <2>1, NoWrapSub
<1> QED BY <1>2, <1>3

(* A Holder is reset or destroyed. *)
LEMMA ReleaseStep ==
  ASSUME IInv, NEW t \in Tasks, Release(t)
  PROVE  IInv'
<1> USE DEF IInv
<1>1. /\ st' = [st EXCEPT ![t] = "active"] /\ units' = [units EXCEPT ![t] = 0]
      /\ UNCHANGED <<waiters, ready, alive, holdsLeft>>
      /\ st[t] = "holding" /\ Reset(units[t])
  BY DEF Release
<1>2. /\ Cardinality(UnitsInUse') \in Nat
      /\ Cardinality(UnitsInUse) = Cardinality(UnitsInUse') + units[t]
  <2>1. /\ t \in Counted /\ Counted' = Counted \ {t}
        /\ \A s \in Counted \ {t} : units'[s] = units[s]
    BY <1>1 DEF Counted, Owners, Lost, TypeOK
  <2> QED BY <2>1, LoseOwner
<1>3. /\ units[t] \in Nat /\ units[t] <= current /\ current \in 0 .. MaxParallelism
      /\ MaxParallelism \in Nat /\ SizeT \in Nat \ {0}
  BY <1>2, SemaphoreAssumption DEF SemaphoreAssumption, Conservation, TypeOK
<1>4. /\ current' = current - units[t] /\ freeing' \in BOOLEAN
      /\ ~freeing' => units[t] = 0 /\ ~freeing
  BY <1>1, <1>3, ResetSub
<1>5. TypeOK'
  BY <1>1, <1>3, <1>4 DEF TypeOK, States
<1>6. UnitsKnown'
  BY <1>1 DEF UnitsKnown, TypeOK
<1>7. LinkedOnce'
  BY <1>1 DEF LinkedOnce, TypeOK
<1>8. Conservation'
  BY <1>2, <1>3, <1>4 DEF Conservation
<1>9. Contended'
  BY <1>1, <1>3, <1>4 DEF Contended
<1> QED BY <1>5, <1>6, <1>7, <1>8, <1>9

(* A suspended coroutine is destroyed: its awaiter unlinks itself. *)
LEMMA DestroyStep ==
  ASSUME IInv, NEW t \in Tasks, Destroy(t)
  PROVE  IInv'
<1> USE DEF IInv
<1>1. /\ st' = [st EXCEPT ![t] = IF @ = "granted" THEN "lost" ELSE "gone"]
      /\ units' = [units EXCEPT ![t] = IF st[t] = "granted" THEN @ ELSE 0]
      /\ waiters' = Unlink(waiters, t) /\ ready' = Unlink(ready, t)
      /\ UNCHANGED <<alive, holdsLeft>>
      /\ st[t] \in {"active", "waiting", "granted", "holding"} /\ ~freeing
  BY DEF Destroy
<1>2. /\ waiters' \in Seq(Tasks) /\ NoDuplicates(waiters')
      /\ \A x : Linked(waiters', x) <=> Linked(waiters, x) /\ x # t
      /\ ready' \in Seq(Tasks) /\ NoDuplicates(ready')
      /\ \A x : Linked(ready', x) <=> Linked(ready, x) /\ x # t
  BY <1>1, LinkUnlink DEF TypeOK, LinkedOnce
<1>3. waiters' # <<>> => waiters # <<>>
  BY <1>1 DEF Unlink, Linked, TypeOK
<1>4. LinkedOnce'
  BY <1>1, <1>2 DEF LinkedOnce, TypeOK
<1>5. UnitsKnown'
  BY <1>1 DEF UnitsKnown, TypeOK
<1>6. /\ current \in 0 .. MaxParallelism /\ MaxParallelism \in Nat
      /\ SizeT \in Nat \ {0} /\ units[t] \in Nat
  BY SemaphoreAssumption DEF SemaphoreAssumption, TypeOK
<1>7. CASE st[t] = "holding"
  <2>1. /\ Cardinality(UnitsInUse') \in Nat
        /\ Cardinality(UnitsInUse) = Cardinality(UnitsInUse') + units[t]
    <3>1. /\ t \in Counted /\ Counted' = Counted \ {t}
          /\ \A s \in Counted \ {t} : units'[s] = units[s]
      BY <1>1, <1>7 DEF Counted, Owners, Lost, TypeOK
    <3> QED BY <3>1, LoseOwner
  <2>2. units[t] <= current
    BY <1>6, <2>1 DEF Conservation
  <2>3. /\ current' = current - units[t] /\ freeing' \in BOOLEAN
        /\ ~freeing' => units[t] = 0 /\ ~freeing
    <3>1. Reset(units[t])
      BY <1>7 DEF Destroy
    <3> QED BY <1>6, <2>2, <3>1, ResetSub
  <2>4. TypeOK'
    BY <1>1, <1>2, <1>6, <2>2, <2>3 DEF TypeOK, States
  <2>5. Conservation' /\ Contended'
    BY <1>3, <1>6, <2>1, <2>3 DEF Conservation, Contended
  <2> QED BY <1>4, <1>5, <2>4, <2>5
<1>8. CASE st[t] # "holding"
  <2>1. UNCHANGED <<current, freeing>>
    BY <1>8 DEF Destroy
  <2>2. UnitsInUse' = UnitsInUse
    <3>1. Counted' = Counted /\ \A s \in Counted : units'[s] = units[s]
      BY <1>1, <1>8 DEF Counted, Owners, Lost, TypeOK
    <3> QED BY <3>1, KeepOwners
  <2>3. TypeOK'
    BY <1>1, <1>2, <1>6, <2>1 DEF TypeOK, States
  <2>4. Conservation' /\ Contended'
    BY <1>3, <2>1, <2>2 DEF Conservation, Contended
  <2> QED BY <1>4, <1>5, <2>3, <2>4
<1> QED BY <1>7, <1>8

(* A Holder is moved: the old units are released, the new ones change hands. *)
LEMMA MoveHolderStep ==
  ASSUME IInv, NEW t \in Tasks, NEW s \in Tasks, MoveHolder(t, s)
  PROVE  IInv'
<1> USE DEF IInv
<1> DEFINE R == Counted \ {t, s}
           c == Cardinality(UnitsOf(R, units))
<1>1. /\ st' = [st EXCEPT ![t] = "active", ![s] = "holding"]
      /\ units' = [units EXCEPT ![t] = 0, ![s] = units[t]]
      /\ holdsLeft' = [holdsLeft EXCEPT ![s] = @ - 1] /\ holdsLeft[s] > 0
      /\ UNCHANGED <<waiters, ready, alive>> /\ Reset(units[s])
      /\ s # t /\ st[t] = "holding" /\ st[s] \in {"active", "holding"}
  BY DEF MoveHolder
<1>2. /\ current \in 0 .. MaxParallelism /\ MaxParallelism \in Nat /\ MaxHolds \in Nat
      /\ SizeT \in Nat \ {0} /\ units[t] \in 0 .. SizeT - 1 /\ units[s] \in 0 .. SizeT - 1
  BY SemaphoreAssumption DEF SemaphoreAssumption, TypeOK
<1>3. units' \in [Tasks -> 0 .. SizeT - 1]
  <2>1. 0 \in 0 .. SizeT - 1
    BY <1>2
  <2>2. [units EXCEPT ![t] = 0] \in [Tasks -> 0 .. SizeT - 1]
    BY <2>1, Zenon DEF TypeOK
  <2> QED BY <1>1, <1>2, <2>2, Zenon
<1>4. R \in SUBSET Tasks /\ t \notin R /\ s \notin R /\ R \cup {t} \in SUBSET Tasks
  BY DEF Counted, Owners, Lost
<1>5. c \in Nat
  BY <1>4, UnitsFinite
<1>6. Cardinality(UnitsOf(R \cup {t}, units)) = c + units[t]
  BY <1>4, AddOwner DEF TypeOK
<1>7. Cardinality(UnitsInUse) = c + units[t] + units[s]
  <2>1. CASE st[s] = "holding"
    <3>1. Counted = (R \cup {t}) \cup {s}
      BY <1>1, <2>1 DEF Counted, Owners, Lost
    <3>2. Cardinality(UnitsOf((R \cup {t}) \cup {s}, units)) = (c + units[t]) + units[s]
      BY <1>1, <1>4, <1>6, AddOwner DEF TypeOK
    <3> QED BY <1>2, <1>5, <3>1, <3>2 DEF UnitsInUse
  <2>2. CASE st[s] = "active"
    <3>1. Counted = R \cup {t}
      BY <1>1, <2>2 DEF Counted, Owners, Lost
    <3>2. units[s] = 0
      BY <2>2 DEF UnitsKnown
    <3>3. Cardinality(UnitsInUse) = c + units[t]
      BY <1>6, <3>1 DEF UnitsInUse
    <3> HIDE DEF c
    <3> QED BY <1>2, <1>5, <3>2, <3>3
  <2> QED BY <1>1, <2>1, <2>2
<1>8. Cardinality(UnitsInUse') = c + units[t]
  <2>1. Counted' = R \cup {s}
    BY <1>1 DEF Counted, Owners, Lost, TypeOK
  <2>2. UnitsOf(R, units') = UnitsOf(R, units)
    <3>1. \A x \in R : units'[x] = units[x]
      BY <1>1, <1>4 DEF TypeOK
    <3> QED BY <3>1, SameUnits
  <2>3. Cardinality(UnitsOf(R \cup {s}, units')) = Cardinality(UnitsOf(R, units')) + units'[s]
    BY <1>3, <1>4, AddOwner
  <2>4. units'[s] = units[t]
    BY <1>1 DEF TypeOK
  <2>5. UnitsInUse' = UnitsOf(R \cup {s}, units')
    BY <2>1 DEF UnitsInUse, UnitsOf
  <2> QED BY <2>2, <2>3, <2>4, <2>5
<1> HIDE DEF c, R
<1>9. units[s] \in Nat /\ units[s] <= current
  BY <1>2, <1>5, <1>7 DEF Conservation
<1>10. /\ current' = current - units[s] /\ freeing' \in BOOLEAN
       /\ ~freeing' => units[s] = 0 /\ ~freeing
  BY <1>1, <1>9, ResetSub
<1>11. TypeOK'
  <2>1. st' \in [Tasks -> States]
    <3>1. [st EXCEPT ![t] = "active"] \in [Tasks -> States]
      BY DEF TypeOK, States
    <3> QED BY <1>1, <3>1 DEF States
  <2>2. holdsLeft' \in [Tasks -> 0 .. MaxHolds]
    BY <1>1, <1>2 DEF TypeOK
  <2>3. current' \in 0 .. MaxParallelism
    BY <1>2, <1>9, <1>10
  <2> QED BY <1>1, <1>3, <1>10, <2>1, <2>2, <2>3 DEF TypeOK
<1>12. UnitsKnown'
  BY <1>1 DEF UnitsKnown, TypeOK
<1>13. LinkedOnce'
  BY <1>1 DEF LinkedOnce, TypeOK
<1>14. Conservation'
  BY <1>2, <1>5, <1>7, <1>8, <1>10 DEF Conservation
<1>15. Contended'
  BY <1>1, <1>2, <1>10 DEF Contended
<1> QED BY <1>11, <1>12, <1>13, <1>14, <1>15

(* ~Semaphore(). *)
LEMMA DestroySemaphoreStep ==
  ASSUME IInv, DestroySemaphore
  PROVE  IInv'
<1> USE DEF IInv
<1>1. UNCHANGED <<current, waiters, ready, st, units, freeing, holdsLeft>> /\ alive' = FALSE
  BY DEF DestroySemaphore
<1>2. UnitsInUse' = UnitsInUse
  BY <1>1 DEF UnitsInUse, UnitsOf, Counted, Owners, Lost
<1> QED
  BY <1>1, <1>2 DEF TypeOK, UnitsKnown, LinkedOnce, Conservation, Contended

(* Every step preserves the inductive invariant. *)
LEMMA NextIInv ==
  ASSUME NoWrap, IInv, [Next]_vars
  PROVE  IInv'
<1>1. ASSUME NEW t \in Tasks, NEW u \in Requests, Hold(t, u) PROVE IInv'
  BY <1>1, HoldStep
<1>2. ASSUME NEW t \in Tasks, NEW u \in Requests, TryHold(t, u) PROVE IInv'
  BY <1>2, TryHoldStep
<1>3. ASSUME NEW t \in Tasks, Release(t) PROVE IInv'
  BY <1>3, ReleaseStep
<1>4. ASSUME NEW t \in Tasks, Destroy(t) PROVE IInv'
  BY <1>4, DestroyStep
<1>5. ASSUME NEW t \in Tasks, NEW s \in Tasks, MoveHolder(t, s) PROVE IInv'
  BY <1>5, MoveHolderStep
<1>6. CASE Resume
  BY <1>6, ResumeStep
<1>7. CASE Grant
  BY <1>7, GrantStep
<1>8. CASE FreeDone
  BY <1>8, FreeDoneStep
<1>9. CASE DestroySemaphore
  BY <1>9, DestroySemaphoreStep
<1>10. CASE UNCHANGED vars
  <2>1. UNCHANGED <<current, waiters, ready, st, units, freeing, alive, holdsLeft>>
    BY <1>10 DEF vars
  <2>2. UnitsInUse' = UnitsInUse
    BY <2>1 DEF UnitsInUse, UnitsOf, Counted, Owners, Lost
  <2> QED
    BY <2>1, <2>2 DEF IInv, TypeOK, UnitsKnown, LinkedOnce, Conservation, Contended
<1> QED
  BY <1>1, <1>2, <1>3, <1>4, <1>5, <1>6, <1>7, <1>8, <1>9, <1>10 DEF Next

(* Every reachable state of the semaphore satisfies the invariant. *)
LEMMA Inductive == ASSUME NoWrap PROVE Spec => []IInv
<1>1. IInv /\ [Next]_vars => IInv'
  BY NextIInv
<1> QED
  BY <1>1, InitIInv, PTL DEF Spec

-----------------------------------------------------------------------------
(* Type correctness: m_current_parallelism stays between 0 and the limit,  *)
(* and the queues hold tasks only.                                         *)
THEOREM TypeCorrect == ASSUME NoWrap PROVE Spec => []TypeOK
<1>1. IInv => TypeOK
  BY DEF IInv
<1> QED BY <1>1, Inductive, PTL

(* take_units() and free_units() conserve units, whatever is moved,        *)
(* released, granted or destroyed, and in whatever order.                  *)
THEOREM UnitsConserved == ASSUME NoWrap PROVE Spec => []Conservation
<1>1. IInv => Conservation
  BY DEF IInv
<1> QED BY <1>1, Inductive, PTL

(* would_block() limits what Holders and granted awaiters own together.    *)
THEOREM ParallelismLimited == ASSUME NoWrap PROVE Spec => []WithinMax
<1>1. IInv => WithinMax
  <2> SUFFICES ASSUME IInv PROVE WithinMax
    OBVIOUS
  <2>1. current \in 0 .. MaxParallelism /\ MaxParallelism \in Nat
    BY SemaphoreAssumption DEF SemaphoreAssumption, IInv, TypeOK
  <2> QED BY <2>1 DEF IInv, Conservation, WithinMax
<1> QED BY <1>1, Inductive, PTL

(* An awaiter is linked exactly while it waits in m_waiters or m_ready,    *)
(* and in one place: the hook that free_units() pops is never linked       *)
(* elsewhere, nor left behind by a destroyed coroutine.                    *)
THEOREM HooksLinkedOnce == ASSUME NoWrap PROVE Spec => []LinkedOnce
<1>1. IInv => LinkedOnce
  BY DEF IInv
<1> QED BY <1>1, Inductive, PTL

(* No lost wakeup: as long as no units were lost with an awaiter that was  *)
(* destroyed after its grant, whoever is queued is queued behind units of  *)
(* a coroutine that is alive, whose release runs free_units()'s loop.      *)
THEOREM NobodyStranded == ASSUME NoWrap PROVE Spec => []NoStrandedWaiter
<1>1. IInv => NoStrandedWaiter
  <2> SUFFICES ASSUME IInv, waiters # <<>>, ~freeing, UnitsOf(Lost, units) = {}
               PROVE  UnitsOf(Owners, units) # {}
    BY DEF NoStrandedWaiter
  <2>1. current \in Nat /\ current > 0 /\ current = Cardinality(UnitsInUse)
    BY SemaphoreAssumption DEF SemaphoreAssumption, IInv, TypeOK, Contended, Conservation
  <2>2. UnitsInUse = {} => Cardinality(UnitsInUse) = 0
    BY FS_EmptySet, Zenon
  <2>3. UnitsInUse # {}
    BY <2>1, <2>2
  <2>4. UnitsInUse = UnitsOf(Owners, units) \cup UnitsOf(Lost, units)
    BY DEF UnitsInUse, UnitsOf, Counted
  <2> QED BY <2>3, <2>4
<1> QED BY <1>1, Inductive, PTL

(* free_units() serves the waiters in the order in which they queued.      *)
THEOREM ServedInOrder == ASSUME NoWrap PROVE Spec => Fifo
<1>1. ASSUME IInv, [Next]_vars PROVE FifoStep
  <2> SUFFICES ASSUME NEW i \in 1 .. Len(waiters), NEW j \in 1 .. Len(waiters), i < j,
                      st'[waiters[j]] = "granted"
               PROVE  FALSE
    BY DEF FifoStep
  <2>1. /\ waiters \in Seq(Tasks) /\ waiters[j] \in Tasks /\ st[waiters[j]] = "waiting"
        /\ NoDuplicates(waiters) /\ st \in [Tasks -> States]
    BY <1>1 DEF IInv, TypeOK, LinkedOnce, Linked
  <2>2. ASSUME NEW t \in Tasks, NEW u \in Requests, Hold(t, u) \/ TryHold(t, u) PROVE FALSE
    BY <2>1, <2>2 DEF Hold, TryHold
  <2>3. ASSUME NEW t \in Tasks, Release(t) \/ Destroy(t) PROVE FALSE
    BY <2>1, <2>3 DEF Release, Destroy
  <2>4. ASSUME NEW t \in Tasks, NEW s \in Tasks, MoveHolder(t, s) PROVE FALSE
    BY <2>1, <2>4 DEF MoveHolder
  <2>5. CASE Resume
    BY <2>1, <2>5 DEF Resume
  <2>6. CASE Grant
    <3>1. waiters # <<>> /\ Head(waiters) = waiters[1] /\ 1 \in 1 .. Len(waiters) /\ j # 1
      BY <2>1
    <3>2. waiters[j] # Head(waiters)
      BY <2>1, <3>1 DEF NoDuplicates
    <3> QED BY <2>1, <2>6, <3>2 DEF Grant
  <2>7. CASE FreeDone \/ DestroySemaphore \/ UNCHANGED vars
    BY <2>1, <2>7 DEF FreeDone, DestroySemaphore, vars
  <2> QED
    BY <1>1, <2>2, <2>3, <2>4, <2>5, <2>6, <2>7 DEF Next
<1>2. IInv /\ [Next]_vars => [FifoStep]_vars
  BY <1>1
<1> QED
  BY <1>2, Inductive, PTL DEF Spec, Fifo
=============================================================================
