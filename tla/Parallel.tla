------------------------------ MODULE Parallel ------------------------------
(***************************************************************************)
(* The combinators of include/corosig/Parallel.hpp: when_all and           *)
(* when_all_succeed, parallel_foreach, and with_deadline around some of    *)
(* the awaitables of the former two.                                       *)
(*                                                                         *)
(* A task is one awaited computation.  A task in Guarded is wrapped in     *)
(* with_deadline, which owns two coroutines: the "guard" awaits the task,  *)
(* the "timer" sleeps until the deadline, and either resumes the waiting   *)
(* coroutine directly, from inside its own frame.  Completions come from   *)
(* the reactor, so they happen while the combinator is suspended and, for  *)
(* the awaitables of when_all*, which are references to what the caller    *)
(* owns, also before it starts and after it has ended.                     *)
(***************************************************************************)
EXTENDS Naturals, Sequences, FiniteSetsExt

CONSTANTS
  N,        \* number of awaitables, or of values in the range
  Guarded   \* positions wrapped in with_deadline (when_all* only)

ASSUME ParallelAssumption == N \in Nat \ {0} /\ Guarded \subseteq 1 .. N

VARIABLES
  combinator,  \* which function was called
  phase,       \* where it is
  pos,         \* the awaitable being launched or awaited
  task,        \* the awaited computations
  frame,       \* the two coroutines of every with_deadline
  result,      \* m_result of every WithDeadlineAwaiter
  awaits,      \* m_waiting_coro is the combinator's coroutine
  running,     \* the with_deadline coroutine that is inside resume()
  outs,        \* results collected so far
  ret          \* what the combinator returned

vars == <<combinator, phase, pos, task, frame, result, awaits, running, outs, ret>>

Idx == 1 .. N
Combinators == {"all", "foreachSized", "foreach"}

(* "finished": the combinator has returned or was dropped, its awaitables   *)
(* are still there; "over": they were destroyed; "misresumed": its          *)
(* coroutine is resumed at its final suspension point, or after it was      *)
(* freed, and nothing more can be said.                                     *)
Phases == {"launching", "checking", "suspended", "resumed", "finished", "over", "misresumed"}
TaskStates == {"unborn", "pending", "ok", "error", "dropped"}

(* "resuming": inside m_waiting_coro.resume(). *)
FrameStates == {"none", "suspended", "resuming", "returned", "destroyed"}

IsGuarded(i) == combinator = "all" /\ i \in Guarded

Nothing == [kind |-> "nothing", at |-> 0]
Success == [kind |-> "ok", at |-> 0]
AllocationFailure == [kind |-> "allocation", at |-> 0]
FailureOf(i) == [kind |-> "failed", at |-> i]

Init ==
  /\ combinator \in Combinators
  /\ phase = "launching"
  /\ pos = 1
  /\ task = [i \in Idx |-> "unborn"]
  /\ frame = [k \in {"guard", "timer"} |-> [i \in Idx |-> "none"]]
  /\ result = [i \in Idx |-> "notReady"]
  /\ awaits = [i \in Idx |-> FALSE]
  /\ running = <<>>
  /\ outs = <<>>
  /\ ret = Nothing

-----------------------------------------------------------------------------
(* Launching.  Coroutines start eagerly: a future may be complete at once   *)
(* (a frame that cannot be allocated gives a failed future).                *)

LaunchPlain ==
  /\ phase = "launching" /\ pos \in Idx /\ ~IsGuarded(pos)
  /\ \E s \in {"pending", "ok", "error"} : task' = [task EXCEPT ![pos] = s]
  /\ pos' = pos + 1
  /\ UNCHANGED <<combinator, phase, frame, result, awaits, running, outs, ret>>

(* The constructor of WithDeadlineAwaiter: each of the two frames is        *)
(* allocated or not; a failed one is a ready Fut that nobody reads.         *)
LaunchGuarded ==
  /\ phase = "launching" /\ pos \in Idx /\ IsGuarded(pos)
  /\ \E s \in {"pending", "ok", "error"}, g, t \in {"none", "suspended"} :
       LET through == g # "none" /\ s # "pending" IN
       /\ task' = [task EXCEPT ![pos] = s]
       /\ frame' = [frame EXCEPT !["guard"][pos] = IF through THEN "returned" ELSE g,
                                 !["timer"][pos] = t]
       /\ result' = [result EXCEPT ![pos] = IF through THEN "value" ELSE "notReady"]
  /\ pos' = pos + 1
  /\ UNCHANGED <<combinator, phase, awaits, running, outs, ret>>

(* The combinator's own frame, tasks.reserve() of a sized range, or         *)
(* tasks.push_back() of an unsized one cannot be allocated.                 *)
AllocationFails ==
  /\ phase = "launching"
  /\ CASE combinator = "all" -> pos = N + 1
       [] combinator = "foreachSized" -> pos = 1
       [] combinator = "foreach" -> pos \in Idx
  /\ ret' = AllocationFailure
  /\ phase' = "finished"
  /\ UNCHANGED <<combinator, pos, task, frame, result, awaits, running, outs>>

StartAwaiting ==
  /\ phase = "launching" /\ pos = N + 1
  /\ phase' = "checking"
  /\ pos' = 1
  /\ UNCHANGED <<combinator, task, frame, result, awaits, running, outs, ret>>

-----------------------------------------------------------------------------
(* Awaiting, one position after the other.                                  *)

(* await_ready of Fut and of WithDeadlineAwaiter. *)
Ready(i) == IF IsGuarded(i) THEN result[i] # "notReady" ELSE task[i] \in {"ok", "error"}

(* What await_resume gives.  with_deadline wraps a result in a result: what *)
(* the guarded task itself answered is not a failure of the combinator.     *)
Outcome(i) ==
  IF IsGuarded(i) THEN IF result[i] = "timedOut" THEN "error" ELSE "ok" ELSE task[i]

(* Mutant: the loop is left at the first failure. *)
TakeUntilFailure ==
  /\ outs' = Append(outs, Outcome(pos))
  /\ pos' = IF Outcome(pos) = "error" THEN N + 1 ELSE pos + 1
  /\ phase' = "checking"

Take ==
  /\ outs' = Append(outs, Outcome(pos))
  /\ pos' = pos + 1
  /\ phase' = "checking"

AwaitReady ==
  /\ phase = "checking" /\ pos \in Idx /\ Ready(pos)
  /\ Take
  /\ UNCHANGED <<combinator, task, frame, result, awaits, running, ret>>

AwaitSuspend ==
  /\ phase = "checking" /\ pos \in Idx /\ ~Ready(pos)
  /\ awaits' = [awaits EXCEPT ![pos] = TRUE]
  /\ phase' = "suspended"
  /\ UNCHANGED <<combinator, pos, task, frame, result, running, outs, ret>>

(* await_resume asserts that a result is there. *)
AwaitResume ==
  /\ phase = "resumed" /\ Ready(pos)
  /\ Take
  /\ UNCHANGED <<combinator, task, frame, result, awaits, running, ret>>

(* Mutant: a later failure replaces the one that is kept. *)
LastFailure(s) ==
  LET failed == {i \in DOMAIN s : s[i] = "error"} IN
  IF failed = {} THEN Success ELSE FailureOf(Max(failed))

(* The first failure in argument order, not in time. *)
FirstFailure(s) ==
  LET failed == {i \in DOMAIN s : s[i] = "error"} IN
  IF failed = {} THEN Success ELSE FailureOf(Min(failed))

Return ==
  /\ phase = "checking" /\ pos = N + 1
  /\ ret' = FirstFailure(outs)
  /\ phase' = "finished"
  /\ UNCHANGED <<combinator, pos, task, frame, result, awaits, running, outs>>

(* Every future and awaiter of the expression is destroyed, with the frames *)
(* of the coroutines that it owns.                                          *)
DestroyAll ==
  /\ task' = [i \in Idx |-> IF task[i] = "pending" THEN "dropped" ELSE task[i]]
  /\ frame' = [k \in DOMAIN frame |->
                 [i \in Idx |-> IF frame[k][i] = "none" THEN "none" ELSE "destroyed"]]
  /\ phase' = "over"

(* The end of the caller's full expression. *)
LeaveScope ==
  /\ phase = "finished"
  /\ DestroyAll
  /\ UNCHANGED <<combinator, pos, result, awaits, running, outs, ret>>

(* The caller's own future is dropped while all of this is suspended. *)
Cancel ==
  /\ phase = "suspended" /\ running = <<>>
  /\ DestroyAll
  /\ UNCHANGED <<combinator, pos, result, awaits, running, outs, ret>>

(* The combinator's future is dropped, and the awaitables that the caller   *)
(* has named outlive it: m_waiting_coro is not reset.                       *)
Abandon ==
  /\ phase = "suspended" /\ running = <<>> /\ combinator = "all"
  /\ phase' = "finished"
  /\ UNCHANGED <<combinator, pos, task, frame, result, awaits, running, outs, ret>>

-----------------------------------------------------------------------------
(* Steps of the reactor.                                                    *)

ReactorRuns ==
  /\ running = <<>>
  /\ phase = "suspended" \/ (phase \in {"launching", "finished"} /\ combinator = "all")

(* The combinator's coroutine is resumed, wherever it is by now. *)
Resumed == IF phase = "suspended" THEN "resumed" ELSE "misresumed"

(* Mutant: whoever waits is resumed, whatever it waits for. *)
CompleteResumesAlways(i) ==
  /\ ReactorRuns /\ ~IsGuarded(i) /\ task[i] = "pending"
  /\ \E s \in {"ok", "error"} : task' = [task EXCEPT ![i] = s]
  /\ phase' = IF phase = "suspended" THEN "resumed" ELSE phase
  /\ UNCHANGED <<combinator, pos, frame, result, awaits, running, outs, ret>>

(* A plain future completes and transfers to whoever awaits it. *)
CompletePlain(i) ==
  /\ ReactorRuns /\ ~IsGuarded(i) /\ task[i] = "pending"
  /\ \E s \in {"ok", "error"} : task' = [task EXCEPT ![i] = s]
  /\ phase' = IF awaits[i] THEN Resumed ELSE phase
  /\ UNCHANGED <<combinator, pos, frame, result, awaits, running, outs, ret>>

(* Mutant: m_result is set and nobody is told. *)
SetResultOnly(k, i) ==
  /\ frame' = [frame EXCEPT ![k][i] = "returned"]
  /\ UNCHANGED <<phase, running>>

(* Coroutine k of awaiter i has set m_result and calls m_waiting_coro's     *)
(* resume(), which is a no-op until the awaiter is awaited.                 *)
ResumeWaiter(k, i) ==
  IF awaits[i]
    THEN /\ phase' = Resumed
         /\ running' = <<k, i>>
         /\ frame' = [frame EXCEPT ![k][i] = "resuming"]
    ELSE /\ frame' = [frame EXCEPT ![k][i] = "returned"]
         /\ UNCHANGED <<phase, running>>

(* The guard stores the result, whatever m_result holds by now. *)
CompleteGuarded(i) ==
  /\ ReactorRuns /\ IsGuarded(i) /\ task[i] = "pending"
  /\ \E s \in {"ok", "error"} : task' = [task EXCEPT ![i] = s]
  /\ IF frame["guard"][i] = "suspended"
       THEN result' = [result EXCEPT ![i] = "value"] /\ ResumeWaiter("guard", i)
       ELSE UNCHANGED <<result, phase, running, frame>>
  /\ UNCHANGED <<combinator, pos, awaits, outs, ret>>

(* The timer stores TimedOutError only if nothing is there. *)
TimerFires(i) ==
  /\ ReactorRuns /\ frame["timer"][i] = "suspended"
  /\ IF result[i] = "notReady"
       THEN result' = [result EXCEPT ![i] = "timedOut"] /\ ResumeWaiter("timer", i)
       ELSE /\ frame' = [frame EXCEPT !["timer"][i] = "returned"]
            /\ UNCHANGED <<result, phase, running>>
  /\ UNCHANGED <<combinator, pos, task, awaits, outs, ret>>

(* resume() returns to the coroutine that called it, which co_returns: into *)
(* a frame that may be destroyed by now.                                    *)
ResumeReturns ==
  /\ running # <<>> /\ phase \in {"suspended", "finished", "over"}
  /\ frame' = [frame EXCEPT ![running[1]][running[2]] =
                 IF @ = "destroyed" THEN @ ELSE "returned"]
  /\ running' = <<>>
  /\ UNCHANGED <<combinator, phase, pos, task, result, awaits, outs, ret>>

Next ==
  \/ LaunchPlain \/ LaunchGuarded \/ AllocationFails \/ StartAwaiting
  \/ AwaitReady \/ AwaitSuspend \/ AwaitResume \/ Return
  \/ LeaveScope \/ Cancel \/ Abandon \/ ResumeReturns
  \/ \E i \in Idx : CompletePlain(i) \/ CompleteGuarded(i) \/ TimerFires(i)

Spec == Init /\ [][Next]_vars

(* Code that can run does; plain tasks complete and sleepers wake.  Nothing *)
(* is assumed of a guarded task: it may never complete.                     *)
Fairness ==
  /\ WF_vars(LaunchPlain \/ LaunchGuarded \/ StartAwaiting)
  /\ WF_vars(AwaitReady \/ AwaitSuspend \/ AwaitResume \/ Return \/ LeaveScope \/ ResumeReturns)
  /\ \A i \in Idx : WF_vars(CompletePlain(i)) /\ WF_vars(TimerFires(i))

FairSpec == Spec /\ Fairness

-----------------------------------------------------------------------------
(* Every variable stays in the range the types of Parallel.hpp give it. *)
TypeOK ==
  /\ combinator \in Combinators
  /\ phase \in Phases
  /\ pos \in 1 .. N + 1
  /\ task \in [Idx -> TaskStates]
  /\ frame \in [{"guard", "timer"} -> [Idx -> FrameStates]]
  /\ result \in [Idx -> {"notReady", "timedOut", "value"}]
  /\ awaits \in [Idx -> BOOLEAN]
  /\ running \in {<<>>} \cup ({"guard", "timer"} \X Idx)
  /\ outs \in UNION {[1 .. n -> {"ok", "error"}] : n \in 0 .. N}
  /\ ret \in {Nothing, Success, AllocationFailure} \cup {FailureOf(i) : i \in Idx}

(* An awaitable failed: a plain one with the result of its task, one with a *)
(* deadline when its deadline passed first, whatever its guard stores later.*)
Failed(i) == IF IsGuarded(i) THEN outs[i] = "error" ELSE task[i] = "error"

(* A combinator that ran to its end names the failed awaitable with the     *)
(* least position, however late it failed, and succeeds only if none did    *)
(* ("or an error from first failed task").  A deadline counts as a failure  *)
(* exactly if its timer answered before the guarded task.                   *)
FirstFailureReported ==
  /\ ret.kind = "ok" => \A i \in Idx : ~Failed(i)
  /\ ret.kind = "failed" => Failed(ret.at) /\ \A i \in Idx : i < ret.at => ~Failed(i)
  /\ ret.kind \in {"ok", "failed"} =>
       \A i \in Idx : IsGuarded(i) =>
         /\ result[i] = "timedOut" => Failed(i)
         /\ Failed(i) => frame["timer"][i] \notin {"none", "suspended"}

(* Nothing is abandoned half-way: a combinator that did not fail to         *)
(* allocate has waited for every awaitable without a deadline, the ones     *)
(* after a failure included, and has one result for each position.          *)
NoneAbandoned ==
  /\ TypeOK
  /\ ret.kind \in {"ok", "failed"} =>
       /\ Len(outs) = N
       /\ \A i \in Idx : ~IsGuarded(i) => task[i] \in {"ok", "error"}

(* await_resume's assertion (Coro.hpp:299, Parallel.hpp:180): whenever the  *)
(* combinator is resumed, the result it waits for is there.                 *)
ResumedWhenReady == phase = "resumed" => Ready(pos)

(* The combinator runs again without the result it waits for, or although   *)
(* it has ended. *)
Misresumed == phase = "misresumed" \/ ~ResumedWhenReady

(* A guarded task has completed after its deadline was reported. *)
LateGuard == \E i \in Idx : i < pos /\ running = <<"guard", i>> /\ outs[i] = "error"

(* Resuming the combinator goes wrong in two ways only: the guarded task of *)
(* a deadline that was already reported completes late (Parallel.hpp:149,   *)
(* m_waiting_coro is not reset), or the combinator was dropped while it     *)
(* waited for awaitables that outlive it.                                   *)
MisresumedOnlyLate == Misresumed => LateGuard \/ (phase = "misresumed" /\ ret = Nothing)

(* A combinator that suspends comes to its end when plain tasks complete,   *)
(* also if a guarded task never does, unless the guarded one's timer frame  *)
(* could not be allocated, or it is resumed wrongly on the way.             *)
Finishes ==
  (phase = "suspended") ~>
    \/ phase = "over" \/ Misresumed
    \/ pos \in Idx /\ IsGuarded(pos) /\ frame["timer"][pos] = "none"

=============================================================================
