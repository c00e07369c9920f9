------------------------------ MODULE Semaphore ------------------------------
(***************************************************************************)
(* corosig::Semaphore (include/corosig/Semaphore.hpp, src/Semaphore.cpp):  *)
(* a counting semaphore for the coroutines of one reactor.                 *)
(*                                                                         *)
(* A task stands for a coroutine together with the one Holder, or the one  *)
(* HolderAwaiter, that it has in its frame.  Everything runs on the        *)
(* reactor's thread, so one method runs at a time; what interleaves is the *)
(* order in which coroutines are resumed, and a coroutine may be destroyed *)
(* (its Fut dropped) at any point where it is suspended.                   *)
(***************************************************************************)
EXTENDS Naturals, Sequences, FiniteSets

CONSTANTS
  Tasks,           \* coroutines that use the semaphore
  MaxParallelism,  \* m_max_parallelism
  Requests,        \* unit counts passed to hold() and try_hold()
  SizeT,           \* number of values of size_t (2^64 in the build)
  MaxHolds         \* bound on the Holders one task asks for or is given

ASSUME SemaphoreAssumption ==
  /\ IsFiniteSet(Tasks)
  /\ SizeT \in Nat \ {0}
  /\ MaxParallelism \in 0 .. SizeT - 1
  /\ Requests \subseteq 0 .. SizeT - 1
  /\ MaxHolds \in Nat

VARIABLES
  current,   \* m_current_parallelism
  waiters,   \* m_waiters: tasks whose awaiter is queued in the semaphore
  ready,     \* the awaiters queued in the reactor's m_ready
  st,        \* what each task is doing
  units,     \* m_units of the task's Holder or HolderAwaiter
  freeing,   \* the loop of free_units() is running
  alive,     \* ~Semaphore() has not run
  holdsLeft  \* how many more Holders each task may come to have

vars == <<current, waiters, ready, st, units, freeing, alive, holdsLeft>>

(***************************************************************************)
(* "active": the coroutine is alive and owns nothing; "waiting": linked in *)
(* m_waiters; "granted": units taken on its behalf, linked in m_ready;     *)
(* "holding": it has a Holder; "gone": destroyed; "lost": destroyed while  *)
(* granted.                                                                *)
(***************************************************************************)
States == {"active", "waiting", "granted", "holding", "gone", "lost"}

Init ==
  /\ current = 0
  /\ waiters = <<>>
  /\ ready = <<>>
  /\ st = [t \in Tasks |-> "active"]
  /\ units = [t \in Tasks |-> 0]
  /\ freeing = FALSE
  /\ alive = TRUE
  /\ holdsLeft = [t \in Tasks |-> MaxHolds]

(* size_t arithmetic: operands are below SizeT and the result wraps. *)
Plus(a, b) == IF a + b < SizeT THEN a + b ELSE (a + b) - SizeT

Minus(a, b) == IF a >= b THEN a - b ELSE (a + SizeT) - b

(* Mutant of WouldBlock: one unit too many is given out. *)
WouldBlockOffByOne(u) == Plus(current, u) > MaxParallelism + 1

(* Mutant of WouldBlock: refuses a request that would use the last unit. *)
WouldBlockTooStrict(u) == Plus(current, u) >= MaxParallelism

WouldBlock(u) == Plus(current, u) > MaxParallelism

TakeUnits(u) == current' = Plus(current, u)

Linked(s, t) == \E i \in 1 .. Len(s) : s[i] = t

(* What intrusive auto_unlink does when the node of task t is destroyed: a *)
(* hook that is linked leaves its list, the others close up.               *)
Unlink(s, t) ==
  IF Linked(s, t)
  THEN LET k == CHOOSE i \in 1 .. Len(s) : s[i] = t
       IN [i \in 1 .. Len(s) - 1 |-> IF i < k THEN s[i] ELSE s[i + 1]]
  ELSE s

Idle(t) == alive /\ ~freeing /\ st[t] = "active"

(* co_await hold(u): await_ready takes the units at once when they fit,   *)
(* whoever is queued; otherwise await_suspend queues the awaiter.         *)
Hold(t, u) ==
  /\ Idle(t) /\ holdsLeft[t] > 0 /\ u <= MaxParallelism
  /\ holdsLeft' = [holdsLeft EXCEPT ![t] = @ - 1]
  /\ units' = [units EXCEPT ![t] = u]
  /\ IF WouldBlock(u)
     THEN /\ st' = [st EXCEPT ![t] = "waiting"]
          /\ waiters' = Append(waiters, t)
          /\ UNCHANGED current
     ELSE /\ st' = [st EXCEPT ![t] = "holding"]
          /\ TakeUnits(u)
          /\ UNCHANGED waiters
  /\ UNCHANGED <<ready, freeing, alive>>

(* try_hold(u) when it succeeds (a nullopt changes nothing). *)
TryHold(t, u) ==
  /\ Idle(t) /\ holdsLeft[t] > 0 /\ ~WouldBlock(u)
  /\ holdsLeft' = [holdsLeft EXCEPT ![t] = @ - 1]
  /\ units' = [units EXCEPT ![t] = u]
  /\ st' = [st EXCEPT ![t] = "holding"]
  /\ TakeUnits(u)
  /\ UNCHANGED <<waiters, ready, freeing, alive>>

(* The reactor resumes the front awaiter; await_resume builds its Holder. *)
Resume ==
  /\ alive /\ ~freeing /\ ready # <<>>
  /\ st' = [st EXCEPT ![Head(ready)] = "holding"]
  /\ ready' = Tail(ready)
  /\ UNCHANGED <<current, waiters, units, freeing, alive, holdsLeft>>

(* Mutant of FreeUnits: the queue is not looked at. *)
FreeUnitsSilently(u) == current' = Minus(current, u) /\ freeing' = FALSE

(* free_units(u) up to its loop, which the Grant steps run before anything *)
(* else happens.                                                           *)
FreeUnits(u) == current' = Minus(current, u) /\ freeing' = TRUE

(* Holder::reset() on a Holder of u units. *)
Reset(u) == IF u # 0 THEN FreeUnits(u) ELSE UNCHANGED <<current, freeing>>

(* The owner calls reset(), or the Holder goes out of scope. *)
Release(t) ==
  /\ alive /\ ~freeing /\ st[t] = "holding"
  /\ Reset(units[t])
  /\ st' = [st EXCEPT ![t] = "active"]
  /\ units' = [units EXCEPT ![t] = 0]
  /\ UNCHANGED <<waiters, ready, alive, holdsLeft>>

(* Mutant of MoveHolder: the moved-from Holder keeps its units. *)
MoveHolderCopies(t, s) ==
  /\ alive /\ ~freeing /\ s # t /\ holdsLeft[s] > 0
  /\ holdsLeft' = [holdsLeft EXCEPT ![s] = @ - 1]
  /\ st[t] = "holding" /\ st[s] \in {"active", "holding"}
  /\ Reset(units[s])
  /\ st' = [st EXCEPT ![s] = "holding"]
  /\ units' = [units EXCEPT ![s] = units[t]]
  /\ UNCHANGED <<waiters, ready, alive>>

(* A Holder is moved from t to s: into a new object when s has none, or by *)
(* move assignment, which first destroys the Holder that s has.            *)
MoveHolder(t, s) ==
  /\ alive /\ ~freeing /\ s # t /\ holdsLeft[s] > 0
  /\ holdsLeft' = [holdsLeft EXCEPT ![s] = @ - 1]
  /\ st[t] = "holding" /\ st[s] \in {"active", "holding"}
  /\ Reset(units[s])
  /\ st' = [st EXCEPT ![t] = "active", ![s] = "holding"]
  /\ units' = [units EXCEPT ![t] = 0, ![s] = units[t]]
  /\ UNCHANGED <<waiters, ready, alive>>

(* The condition of free_units()'s loop. *)
FrontFits == waiters # <<>> /\ ~WouldBlock(units[Head(waiters)])

(* Mutant of Grant: the most recent waiter is served first. *)
GrantLast ==
  /\ freeing /\ waiters # <<>> /\ ~WouldBlock(units[waiters[Len(waiters)]])
  /\ TakeUnits(units[waiters[Len(waiters)]])
  /\ waiters' = SubSeq(waiters, 1, Len(waiters) - 1)
  /\ ready' = Append(ready, waiters[Len(waiters)])
  /\ st' = [st EXCEPT ![waiters[Len(waiters)]] = "granted"]
  /\ UNCHANGED <<units, freeing, alive, holdsLeft>>

(* Mutant of Grant: the units are counted only when the waiter runs. *)
GrantWithoutTaking ==
  /\ freeing /\ FrontFits
  /\ waiters' = Tail(waiters)
  /\ ready' = Append(ready, Head(waiters))
  /\ st' = [st EXCEPT ![Head(waiters)] = "granted"]
  /\ UNCHANGED <<current, units, freeing, alive, holdsLeft>>

(* One round of free_units()'s loop: take the units for the front waiter  *)
(* and schedule it.                                                       *)
Grant ==
  /\ freeing /\ FrontFits
  /\ TakeUnits(units[Head(waiters)])
  /\ waiters' = Tail(waiters)
  /\ ready' = Append(ready, Head(waiters))
  /\ st' = [st EXCEPT ![Head(waiters)] = "granted"]
  /\ UNCHANGED <<units, freeing, alive, holdsLeft>>

(* free_units() returns when the front waiter does not fit. *)
FreeDone ==
  /\ freeing /\ ~FrontFits
  /\ freeing' = FALSE
  /\ UNCHANGED <<current, waiters, ready, st, units, alive, holdsLeft>>

(* Mutant of Destroy: a destroyed awaiter stays in the queue. *)
DestroyStaysLinked(t) ==
  /\ alive /\ ~freeing /\ st[t] \in {"active", "waiting", "granted", "holding"}
  /\ IF st[t] = "holding" THEN Reset(units[t]) ELSE UNCHANGED <<current, freeing>>
  /\ ready' = Unlink(ready, t)
  /\ st' = [st EXCEPT ![t] = IF @ = "granted" THEN "lost" ELSE "gone"]
  /\ units' = [units EXCEPT ![t] = IF st[t] = "granted" THEN @ ELSE 0]
  /\ UNCHANGED <<waiters, alive, holdsLeft>>

(* The coroutine is destroyed.  A Holder in its frame frees its units; an *)
(* awaiter is unlinked and has no destructor of its own, so units already *)
(* taken for a granted awaiter are not given back.                        *)
Destroy(t) ==
  /\ alive /\ ~freeing /\ st[t] \in {"active", "waiting", "granted", "holding"}
  /\ IF st[t] = "holding" THEN Reset(units[t]) ELSE UNCHANGED <<current, freeing>>
  /\ waiters' = Unlink(waiters, t)
  /\ ready' = Unlink(ready, t)
  /\ st' = [st EXCEPT ![t] = IF @ = "granted" THEN "lost" ELSE "gone"]
  /\ units' = [units EXCEPT ![t] = IF st[t] = "granted" THEN @ ELSE 0]
  /\ UNCHANGED <<alive, holdsLeft>>

(* ~Semaphore(), when no coroutine refers to it any more. *)
DestroySemaphore ==
  /\ alive /\ ~freeing
  /\ \A t \in Tasks : st[t] \in {"active", "gone", "lost"}
  /\ alive' = FALSE
  /\ UNCHANGED <<current, waiters, ready, st, units, freeing, holdsLeft>>

Next ==
  \/ \E t \in Tasks, u \in Requests : Hold(t, u) \/ TryHold(t, u)
  \/ \E t \in Tasks : Release(t) \/ Destroy(t)
  \/ \E t, s \in Tasks : MoveHolder(t, s)
  \/ Resume
  \/ Grant
  \/ FreeDone
  \/ DestroySemaphore

Spec == Init /\ [][Next]_vars

(***************************************************************************)
(* The reactor keeps resuming what is in m_ready, free_units() is a plain  *)
(* loop, and the coroutines that use the semaphore release what they hold. *)
(***************************************************************************)
Fairness ==
  /\ WF_vars(Resume)
  /\ WF_vars(Grant)
  /\ WF_vars(FreeDone)
  /\ \A t \in Tasks : WF_vars(Release(t))

FairSpec == Spec /\ Fairness

-----------------------------------------------------------------------------
(* The type invariant. *)
TypeOK ==
  /\ current \in 0 .. MaxParallelism
  /\ waiters \in Seq(Tasks)
  /\ ready \in Seq(Tasks)
  /\ st \in [Tasks -> States]
  /\ units \in [Tasks -> 0 .. SizeT - 1]
  /\ freeing \in BOOLEAN
  /\ alive \in BOOLEAN
  /\ holdsLeft \in [Tasks -> 0 .. MaxHolds]

(* The tasks that have units and will give them back: by reset(), by       *)
(* ~Holder(), or once resumed with a Holder.                               *)
Owners == {t \in Tasks : st[t] \in {"holding", "granted"}}

(* The tasks destroyed between grant and resumption: nobody gives their    *)
(* units back.                                                             *)
Lost == {t \in Tasks : st[t] = "lost"}

(* The tasks for which units are counted in current. *)
Counted == Owners \cup Lost

(* The units of the tasks of S, one element <<t, i>> for each unit i of t. *)
UnitsOf(S, u) == {p \in S \X (1 .. SizeT) : p[2] <= u[p[1]]}

UnitsInUse == UnitsOf(Counted, units)

(* Units are conserved (take_units/free_units): m_current_parallelism is   *)
(* what the Holders, the granted awaiters and the awaiters destroyed in    *)
(* between add up to - nothing is freed twice, by a moved-from Holder for  *)
(* instance, and nothing else is forgotten.                                *)
Conservation == current = Cardinality(UnitsInUse)

(* The semaphore limits parallelism (would_block): what Holders and        *)
(* granted awaiters own, lost units included, never exceeds                *)
(* m_max_parallelism.                                                      *)
WithinMax == Cardinality(UnitsInUse) <= MaxParallelism

NoDuplicates(s) == \A i, j \in 1 .. Len(s) : s[i] = s[j] => i = j

(* An awaiter has one hook (CoroListNode), so it is linked in m_waiters or *)
(* in m_ready, never in both or twice, and never after it was destroyed.   *)
LinkedOnce ==
  /\ NoDuplicates(waiters) /\ NoDuplicates(ready)
  /\ \A t \in Tasks :
       /\ st[t] = "waiting" <=> Linked(waiters, t)
       /\ st[t] = "granted" <=> Linked(ready, t)

(* No lost wakeup (free_units's loop): unless units were lost with an      *)
(* awaiter destroyed after its grant, nobody is queued without a coroutine *)
(* that owns units and whose release will look at the queue again.  Units  *)
(* that were lost can strand a waiter for good: nothing gives them back.   *)
NoStrandedWaiter ==
  waiters # <<>> /\ ~freeing /\ UnitsOf(Lost, units) = {} => UnitsOf(Owners, units) # {}

(* Waiters are served in the order they queued (m_waiters.pop_front): a    *)
(* step that grants one leaves nobody waiting who was ahead of it.         *)
FifoStep ==
  \A i, j \in 1 .. Len(waiters) :
    i < j /\ st'[waiters[j]] = "granted" => st'[waiters[i]] # "waiting"

Fifo == [][FifoStep]_vars

(* A queued awaiter is resumed, or destroyed, or units were lost with an   *)
(* awaiter that was destroyed after its grant (free_units, Resume).  The   *)
(* bound on Holders matters: await_ready looks at the units and not at     *)
(* m_waiters, so small requests that keep coming could pass a large one    *)
(* for ever; it is served once they stop.                                  *)
WaitersServed ==
  \A t \in Tasks :
    st[t] = "waiting" ~> (st[t] # "waiting" \/ Lost # {})
=============================================================================
