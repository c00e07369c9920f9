--------------------------- MODULE ParallelProofs ---------------------------
(***************************************************************************)
(* The combinators of Parallel.hpp for any number of awaitables and for    *)
(* deadlines on any of them.                                               *)
(***************************************************************************)
EXTENDS Parallel, BasicLemmas

(* The combinator is in its loop over the awaitables. *)
Awaiting == phase \in {"checking", "suspended", "resumed"}

(* What the loop has done up to its position. *)
LoopState ==
  /\ phase = "launching" => outs = <<>> /\ \A i \in Idx : ~awaits[i]
  /\ Awaiting => /\ Len(outs) = pos - 1
                 /\ \A i \in Idx : i < pos /\ ~IsGuarded(i) => task[i] \in {"ok", "error"}
                 /\ \A i \in Idx : awaits[i] => i <= pos
  /\ phase \in {"suspended", "resumed"} => pos \in Idx
  /\ phase \notin {"finished", "over", "misresumed"} => ret = Nothing

(* Only with_deadline makes coroutines of its own, and only they resume. *)
FramesOfGuarded ==
  /\ \A k \in {"guard", "timer"}, i \in Idx : frame[k][i] # "none" => IsGuarded(i)
  /\ \A k \in {"guard", "timer"}, i \in Idx : running = <<k, i>> => IsGuarded(i)

(* The inductive invariant of NoneAbandoned. *)
IInv == NoneAbandoned /\ LoopState /\ FramesOfGuarded

-----------------------------------------------------------------------------
(* The type of the collected results, as a sequence. *)
LEMMA OutsType ==
  ASSUME NEW s, N \in Nat
  PROVE  (s \in UNION {[1 .. n -> {"ok", "error"}] : n \in 0 .. N})
           <=> (s \in Seq({"ok", "error"}) /\ Len(s) <= N)
<1>1. ASSUME NEW n \in 0 .. N, s \in [1 .. n -> {"ok", "error"}]
      PROVE  s \in Seq({"ok", "error"}) /\ Len(s) <= N
  <2>1. n \in Nat /\ n <= N
    OBVIOUS
  <2>2. s \in Seq({"ok", "error"}) /\ Len(s) = n
    BY <1>1, <2>1
  <2> QED
    BY <2>1, <2>2
<1>2. ASSUME s \in Seq({"ok", "error"}), Len(s) <= N
      PROVE  \E n \in 0 .. N : s \in [1 .. n -> {"ok", "error"}]
  <2>1. Len(s) \in 0 .. N /\ s \in [1 .. Len(s) -> {"ok", "error"}]
    BY <1>2, LenProperties
  <2> QED
    BY <2>1
<1> QED
  BY <1>1, <1>2

(* The ranges that the steps below use. *)
LEMMA Typed ==
  ASSUME TypeOK
  PROVE  /\ N \in Nat /\ N > 0
         /\ outs \in Seq({"ok", "error"}) /\ Len(outs) <= N
         /\ Guarded \subseteq Idx
BY OutsType, ParallelAssumption DEF TypeOK, ParallelAssumption, Idx

(* A result is there when something is ready. *)
LEMMA OutcomeOfReady ==
  ASSUME TypeOK, NEW i \in Idx, Ready(i)
  PROVE  Outcome(i) \in {"ok", "error"}
BY DEF TypeOK, Ready, Outcome

(* Before anything is launched. *)
LEMMA InitIInv ==
  ASSUME Init
  PROVE  IInv
<1>1. N \in Nat /\ N > 0
  BY ParallelAssumption DEF ParallelAssumption
<1>2. outs \in UNION {[1 .. n -> {"ok", "error"}] : n \in 0 .. N}
  <2>1. outs \in Seq({"ok", "error"}) /\ Len(outs) <= N
    BY <1>1 DEF Init
  <2> QED
    BY <1>1, <2>1, OutsType
<1>3. TypeOK
  BY <1>1, <1>2 DEF Init, TypeOK, Phases, TaskStates, FrameStates
<1>4. NoneAbandoned
  BY <1>3 DEF Init, NoneAbandoned, Nothing
<1> QED
  BY <1>1, <1>4 DEF Init, IInv, LoopState, FramesOfGuarded, Awaiting

(* A plain awaitable is launched. *)
LEMMA LaunchPlainStep ==
  ASSUME IInv, LaunchPlain
  PROVE  IInv'
<1>0. N \in Nat
  BY ParallelAssumption DEF ParallelAssumption
<1>1. TypeOK'
  BY <1>0 DEF IInv, NoneAbandoned, TypeOK, LaunchPlain, Idx, TaskStates
<1>2. NoneAbandoned' /\ LoopState' /\ FramesOfGuarded'
  BY <1>1 DEF IInv, NoneAbandoned, LoopState, FramesOfGuarded, LaunchPlain, Awaiting, Nothing, IsGuarded
<1> QED
  BY <1>2 DEF IInv

(* An awaitable with a deadline is launched. *)
LEMMA LaunchGuardedStep ==
  ASSUME IInv, LaunchGuarded
  PROVE  IInv'
<1>1. PICK s \in {"pending", "ok", "error"}, g \in {"none", "suspended"}, t \in {"none", "suspended"},
           x \in {"returned", "none", "suspended"}, y \in {"value", "notReady"} :
        /\ task' = [task EXCEPT ![pos] = s]
        /\ frame' = [frame EXCEPT !["guard"][pos] = x, !["timer"][pos] = t]
        /\ result' = [result EXCEPT ![pos] = y]
  BY DEF LaunchGuarded
<1>2. /\ phase = "launching" /\ pos \in Idx /\ IsGuarded(pos) /\ pos' = pos + 1
      /\ UNCHANGED <<combinator, phase, awaits, running, outs, ret>>
  BY DEF LaunchGuarded
<1>3. TypeOK'
  <2>1. N \in Nat
    BY ParallelAssumption DEF ParallelAssumption
  <2>2. task' \in [Idx -> TaskStates] /\ result' \in [Idx -> {"notReady", "timedOut", "value"}]
    BY <1>1 DEF IInv, NoneAbandoned, TypeOK, TaskStates
  <2>3. frame' \in [{"guard", "timer"} -> [Idx -> FrameStates]]
    BY <1>1 DEF IInv, NoneAbandoned, TypeOK, FrameStates
  <2> QED
    BY <1>2, <2>1, <2>2, <2>3 DEF IInv, NoneAbandoned, TypeOK, Idx
<1>4. NoneAbandoned' /\ LoopState'
  BY <1>2, <1>3 DEF IInv, NoneAbandoned, LoopState, Awaiting, Nothing, IsGuarded
<1>5. FramesOfGuarded'
  BY <1>1, <1>2 DEF IInv, NoneAbandoned, TypeOK, FramesOfGuarded, IsGuarded
<1> QED
  BY <1>4, <1>5 DEF IInv

(* Memory runs out before anything is awaited. *)
LEMMA AllocationFailsStep ==
  ASSUME IInv, AllocationFails
  PROVE  IInv'
<1>1. TypeOK'
  BY DEF IInv, NoneAbandoned, TypeOK, AllocationFails, Phases
<1>2. NoneAbandoned' /\ LoopState' /\ FramesOfGuarded'
  BY <1>1 DEF IInv, NoneAbandoned, LoopState, FramesOfGuarded, AllocationFails, Awaiting,
              AllocationFailure, IsGuarded
<1> QED
  BY <1>2 DEF IInv

(* The loop begins at the first position. *)
LEMMA StartAwaitingStep ==
  ASSUME IInv, StartAwaiting
  PROVE  IInv'
<1>0. N \in Nat /\ N > 0
  BY ParallelAssumption DEF ParallelAssumption
<1>1. TypeOK'
  BY <1>0 DEF IInv, NoneAbandoned, TypeOK, StartAwaiting, Phases
<1>2. LoopState'
  BY <1>0 DEF IInv, LoopState, StartAwaiting, Awaiting, Idx
<1>3. NoneAbandoned' /\ FramesOfGuarded'
  BY <1>1 DEF IInv, NoneAbandoned, LoopState, FramesOfGuarded, StartAwaiting, Nothing, IsGuarded
<1> QED
  BY <1>2, <1>3 DEF IInv

(* One more result is collected. *)
LEMMA TakeStep ==
  ASSUME IInv, Awaiting, pos \in Idx, Ready(pos), Take,
         UNCHANGED <<combinator, task, frame, result, awaits, running, ret>>
  PROVE  IInv'
<1>0. /\ N \in Nat /\ outs \in Seq({"ok", "error"}) /\ Len(outs) = pos - 1 /\ TypeOK
      /\ pos \in 1 .. N /\ ret = Nothing
  BY Typed DEF IInv, NoneAbandoned, LoopState, Awaiting, Idx
<1>1. outs' \in Seq({"ok", "error"}) /\ Len(outs') = pos
  <2>1. Outcome(pos) \in {"ok", "error"}
    BY <1>0, OutcomeOfReady
  <2> QED
    BY <1>0, <2>1, AppendProperties DEF Take
<1>2. outs' \in UNION {[1 .. n -> {"ok", "error"}] : n \in 0 .. N}
  BY <1>0, <1>1, OutsType
<1>3. TypeOK'
  BY <1>0, <1>2 DEF TypeOK, Take, Phases
<1>4. LoopState'
  <2>1. \A i \in Idx : i < pos + 1 /\ ~IsGuarded(i) => task[i] \in {"ok", "error"}
    BY <1>0 DEF IInv, LoopState, Awaiting, Idx, Ready
  <2>2. \A i \in Idx : awaits[i] => i <= pos + 1
    BY <1>0 DEF IInv, LoopState, Awaiting, Idx
  <2> QED
    BY <1>0, <1>1, <2>1, <2>2 DEF LoopState, Take, Awaiting, IsGuarded
<1>5. NoneAbandoned' /\ FramesOfGuarded'
  BY <1>0, <1>3 DEF IInv, NoneAbandoned, FramesOfGuarded, Nothing, IsGuarded
<1> QED
  BY <1>4, <1>5 DEF IInv

(* The combinator suspends at its position. *)
LEMMA AwaitSuspendStep ==
  ASSUME IInv, AwaitSuspend
  PROVE  IInv'
<1>1. TypeOK'
  BY DEF IInv, NoneAbandoned, TypeOK, AwaitSuspend, Phases
<1>2. LoopState'
  BY DEF IInv, NoneAbandoned, TypeOK, LoopState, AwaitSuspend, Awaiting, Idx, IsGuarded
<1>3. NoneAbandoned' /\ FramesOfGuarded'
  BY <1>1 DEF IInv, NoneAbandoned, LoopState, FramesOfGuarded, AwaitSuspend, Nothing, IsGuarded
<1> QED
  BY <1>2, <1>3 DEF IInv

(* The first failure among the collected results. *)
LEMMA FirstFailureIs ==
  ASSUME NEW s \in Seq({"ok", "error"})
  PROVE  \/ /\ FirstFailure(s) = Success
            /\ \A i \in 1 .. Len(s) : s[i] # "error"
         \/ \E m \in 1 .. Len(s) : /\ FirstFailure(s) = FailureOf(m)
                                   /\ s[m] = "error"
                                   /\ \A i \in 1 .. Len(s) : i < m => s[i] # "error"
<1> DEFINE failed == {i \in DOMAIN s : s[i] = "error"}
<1>1. DOMAIN s = 1 .. Len(s) /\ Len(s) \in Nat
  OBVIOUS
<1>2. CASE failed = {}
  BY <1>1, <1>2 DEF FirstFailure
<1>3. CASE failed # {}
  <2>1. failed \subseteq Nat
    BY <1>1
  <2>2. PICK m \in failed : m = Min(failed) /\ \A n \in failed : m <= n
    <3> HIDE DEF failed
    <3> QED
      BY <1>3, <2>1, MinNat
  <2>3. FirstFailure(s) = FailureOf(m)
    BY <1>3, <2>2 DEF FirstFailure
  <2>4. m \in 1 .. Len(s) /\ s[m] = "error"
    BY <1>1
  <2>5. ASSUME NEW i \in 1 .. Len(s), i < m PROVE s[i] # "error"
    <3> SUFFICES ASSUME s[i] = "error" PROVE FALSE
      OBVIOUS
    <3>1. i \in failed
      BY <1>1
    <3>2. m <= i
      <4> HIDE DEF failed
      <4> QED
        BY <2>2, <3>1
    <3> QED
      BY <1>1, <2>4, <2>5, <3>2
  <2> QED
    BY <2>3, <2>4, <2>5
<1> QED
  BY <1>2, <1>3

(* The loop is over: every position has been waited for. *)
LEMMA ReturnStep ==
  ASSUME IInv, Return
  PROVE  IInv'
<1>0. /\ N \in Nat /\ outs \in Seq({"ok", "error"}) /\ Len(outs) = N /\ TypeOK
      /\ \A i \in Idx : ~IsGuarded(i) => task[i] \in {"ok", "error"}
  BY Typed DEF IInv, NoneAbandoned, LoopState, Awaiting, Return, Idx
<1>1. ret' \in {Success} \cup {FailureOf(i) : i \in Idx}
  BY <1>0, FirstFailureIs DEF Return, Idx
<1>2. TypeOK'
  BY <1>0, <1>1 DEF TypeOK, Return, Phases
<1>3. NoneAbandoned' /\ LoopState' /\ FramesOfGuarded'
  BY <1>0, <1>2 DEF IInv, NoneAbandoned, LoopState, Awaiting, FramesOfGuarded, Return, IsGuarded
<1> QED
  BY <1>3 DEF IInv

(* Destruction drops what is pending, which is nothing once the loop is     *)
(* over, guarded tasks apart.                                               *)
LEMMA DestroyStep ==
  ASSUME IInv, LeaveScope \/ Cancel
  PROVE  IInv'
<1>0. /\ TypeOK /\ phase' = "over"
      /\ task' = [i \in Idx |-> IF task[i] = "pending" THEN "dropped" ELSE task[i]]
      /\ frame' = [k \in DOMAIN frame |->
                     [i \in Idx |-> IF frame[k][i] = "none" THEN "none" ELSE "destroyed"]]
      /\ UNCHANGED <<combinator, pos, result, awaits, running, outs, ret>>
  BY DEF IInv, NoneAbandoned, LeaveScope, Cancel, DestroyAll
<1>1. TypeOK'
  <2>1. task' \in [Idx -> TaskStates]
    BY <1>0 DEF TypeOK, TaskStates
  <2>2. frame' \in [{"guard", "timer"} -> [Idx -> FrameStates]]
    BY <1>0 DEF TypeOK, FrameStates
  <2> QED
    BY <1>0, <2>1, <2>2 DEF TypeOK, Phases
<1>2. NoneAbandoned'
  BY <1>0, <1>1 DEF IInv, NoneAbandoned, IsGuarded
<1>3. LoopState'
  BY <1>0 DEF LoopState, Awaiting
<1>4. FramesOfGuarded'
  BY <1>0 DEF IInv, FramesOfGuarded, TypeOK, IsGuarded
<1> QED
  BY <1>2, <1>3, <1>4 DEF IInv

(* A task ends: from pending to a result, so nothing that was done is       *)
(* undone.  The combinator, if it waits for the task, is resumed.           *)
LEMMA CompletionStep ==
  ASSUME IInv, NEW i \in Idx, ReactorRuns,
         \/ UNCHANGED task
         \/ task[i] = "pending" /\ \E s \in {"ok", "error"} : task' = [task EXCEPT ![i] = s],
         phase' = phase \/ (awaits[i] /\ phase' = Resumed),
         result' \in [Idx -> {"notReady", "timedOut", "value"}],
         \/ UNCHANGED frame
         \/ \E k \in {"guard", "timer"}, f \in {"resuming", "returned"} :
              frame' = [frame EXCEPT ![k][i] = f] /\ IsGuarded(i),
         \/ running' = <<>>
         \/ \E k \in {"guard", "timer"} : running' = <<k, i>> /\ IsGuarded(i),
         UNCHANGED <<combinator, pos, awaits, outs, ret>>
  PROVE  IInv'
<1>0. TypeOK /\ phase \in {"suspended", "launching", "finished"}
  BY DEF IInv, NoneAbandoned, ReactorRuns
<1>1. TypeOK'
  <2>1. task' \in [Idx -> TaskStates]
    BY <1>0 DEF TypeOK, TaskStates
  <2>2. frame' \in [{"guard", "timer"} -> [Idx -> FrameStates]]
    <3>1. CASE UNCHANGED frame
      BY <1>0, <3>1 DEF TypeOK
    <3>2. ASSUME NEW k \in {"guard", "timer"}, NEW f \in {"resuming", "returned"},
                 frame' = [frame EXCEPT ![k][i] = f]
          PROVE  frame' \in [{"guard", "timer"} -> [Idx -> FrameStates]]
      BY <1>0, <3>2 DEF TypeOK, FrameStates
    <3> QED
      BY <3>1, <3>2
  <2>3. running' \in {<<>>} \cup ({"guard", "timer"} \X Idx)
    OBVIOUS
  <2>4. phase' \in Phases
    BY <1>0 DEF Phases, Resumed
  <2> QED
    BY <1>0, <2>1, <2>2, <2>3, <2>4 DEF TypeOK
<1>2. \A j \in Idx : task[j] \in {"ok", "error"} => task'[j] \in {"ok", "error"}
  BY <1>0 DEF TypeOK
<1>3. LoopState'
  <2>1. CASE phase' = phase
    BY <1>0, <1>2, <2>1 DEF IInv, LoopState, Awaiting, IsGuarded
  <2>2. CASE awaits[i] /\ phase = "suspended" /\ phase' = "resumed"
    BY <1>0, <1>2, <2>2 DEF IInv, LoopState, Awaiting, IsGuarded
  <2>3. CASE awaits[i] /\ phase' = "misresumed"
    BY <1>0, <2>3 DEF LoopState, Awaiting
  <2> QED
    BY <1>0, <2>1, <2>2, <2>3 DEF Resumed
<1>4. NoneAbandoned'
  BY <1>1, <1>2 DEF IInv, NoneAbandoned, IsGuarded
<1>5. FramesOfGuarded'
  BY <1>0 DEF IInv, FramesOfGuarded, TypeOK, IsGuarded
<1> QED
  BY <1>3, <1>4, <1>5 DEF IInv

(* The three ways in which the reactor's steps complete something. *)
LEMMA CompleteStep ==
  ASSUME IInv, NEW i \in Idx, CompletePlain(i) \/ CompleteGuarded(i) \/ TimerFires(i)
  PROVE  IInv'
<1>0. TypeOK
  BY DEF IInv, NoneAbandoned
<1>1. CASE CompletePlain(i)
  BY <1>0, <1>1, CompletionStep DEF CompletePlain, ReactorRuns, TypeOK
<1>2. CASE CompleteGuarded(i)
  <2>1. result' \in [Idx -> {"notReady", "timedOut", "value"}]
    BY <1>0, <1>2 DEF CompleteGuarded, TypeOK
  <2>2. /\ phase' = phase \/ (awaits[i] /\ phase' = Resumed)
        /\ running' = <<>> \/ running' = <<"guard", i>>
        /\ \/ UNCHANGED frame
           \/ \E f \in {"resuming", "returned"} : frame' = [frame EXCEPT !["guard"][i] = f]
    BY <1>0, <1>2 DEF CompleteGuarded, ReactorRuns, ResumeWaiter, TypeOK
  <2> QED
    BY <1>2, <2>1, <2>2, CompletionStep DEF CompleteGuarded
<1>3. CASE TimerFires(i)
  <2>1. result' \in [Idx -> {"notReady", "timedOut", "value"}]
    BY <1>0, <1>3 DEF TimerFires, TypeOK
  <2>2. /\ phase' = phase \/ (awaits[i] /\ phase' = Resumed)
        /\ running' = <<>> \/ running' = <<"timer", i>>
        /\ \/ UNCHANGED frame
           \/ \E f \in {"resuming", "returned"} : frame' = [frame EXCEPT !["timer"][i] = f]
    BY <1>0, <1>3 DEF TimerFires, ReactorRuns, ResumeWaiter, TypeOK
  <2>3. IsGuarded(i)
    BY <1>3 DEF TimerFires, IInv, FramesOfGuarded
  <2> QED
    BY <1>3, <2>1, <2>2, <2>3, CompletionStep DEF TimerFires
<1> QED
  BY <1>1, <1>2, <1>3

(* The combinator is dropped and leaves its awaitables behind. *)
LEMMA AbandonStep ==
  ASSUME IInv, Abandon
  PROVE  IInv'
<1>1. TypeOK'
  BY DEF IInv, NoneAbandoned, TypeOK, Abandon, Phases
<1>2. NoneAbandoned' /\ LoopState' /\ FramesOfGuarded'
  BY <1>1 DEF IInv, NoneAbandoned, LoopState, FramesOfGuarded, Abandon, Awaiting, IsGuarded
<1> QED
  BY <1>2 DEF IInv

(* resume() returns into a with_deadline coroutine. *)
LEMMA ResumeReturnsStep ==
  ASSUME IInv, ResumeReturns
  PROVE  IInv'
<1>0. TypeOK
  BY DEF IInv, NoneAbandoned
<1>1. PICK k \in {"guard", "timer"}, i \in Idx : running = <<k, i>>
  BY <1>0 DEF TypeOK, ResumeReturns
<1>2. frame' = [frame EXCEPT ![k][i] = IF @ = "destroyed" THEN @ ELSE "returned"]
  BY <1>1 DEF ResumeReturns
<1>3. TypeOK'
  <2>1. frame' \in [{"guard", "timer"} -> [Idx -> FrameStates]]
    BY <1>0, <1>2 DEF TypeOK, FrameStates
  <2> QED
    BY <1>0, <2>1 DEF TypeOK, ResumeReturns
<1>4. NoneAbandoned' /\ LoopState'
  BY <1>3 DEF IInv, NoneAbandoned, LoopState, Awaiting, ResumeReturns, IsGuarded
<1>5. IsGuarded(i)
  BY <1>1 DEF IInv, FramesOfGuarded
<1>6. FramesOfGuarded'
  BY <1>0, <1>2, <1>5 DEF IInv, FramesOfGuarded, TypeOK, ResumeReturns, IsGuarded
<1> QED
  BY <1>4, <1>6 DEF IInv

(* Every step keeps the inductive invariant. *)
LEMMA NextIInv ==
  ASSUME IInv, [Next]_vars
  PROVE  IInv'
<1>1. CASE UNCHANGED vars
  BY <1>1 DEF vars, IInv, NoneAbandoned, TypeOK, LoopState, Awaiting, FramesOfGuarded, IsGuarded
<1>2. CASE AwaitReady
  BY <1>2, TakeStep DEF AwaitReady, Awaiting
<1>3. CASE AwaitResume
  <2>1. pos \in Idx /\ Awaiting
    BY <1>3 DEF AwaitResume, IInv, LoopState, Awaiting
  <2> QED
    BY <1>3, <2>1, TakeStep DEF AwaitResume
<1> QED
  BY <1>1, <1>2, <1>3, LaunchPlainStep, LaunchGuardedStep, AllocationFailsStep,
     StartAwaitingStep, AwaitSuspendStep, ReturnStep, DestroyStep, AbandonStep, CompleteStep,
     ResumeReturnsStep DEF Next

(* A combinator that returns a result has waited for every awaitable        *)
(* without a deadline, whatever failed before and wherever deadlines are    *)
(* (when_all, when_all_succeed and parallel_foreach await in a loop that    *)
(* no failure leaves).                                                      *)
THEOREM AllAwaited == Spec => []NoneAbandoned
<1>1. Init => IInv
  BY InitIInv
<1>2. IInv /\ [Next]_vars => IInv'
  BY NextIInv
<1>3. IInv => NoneAbandoned
  BY DEF IInv
<1> QED
  BY <1>1, <1>2, <1>3, PTL DEF Spec

-----------------------------------------------------------------------------
(* What was collected, and when a resumption may go wrong.                  *)

(* m_result of a WithDeadlineAwaiter is a value once its task is done, and  *)
(* TimedOutError once its timer has woken.                                  *)
ResultsTrue ==
  \A i \in Idx : IsGuarded(i) =>
    /\ result[i] = "value" => task[i] \in {"ok", "error"}
    /\ result[i] = "timedOut" => frame["timer"][i] \notin {"none", "suspended"}

(* Results are being collected, or have been. *)
Collected == Awaiting \/ ret.kind \in {"ok", "failed"}

(* What position i has answered. *)
OutTrue(i) ==
  /\ ~IsGuarded(i) => outs[i] = task[i]
  /\ IsGuarded(i) => /\ result[i] # "notReady"
                     /\ result[i] = "timedOut" => outs[i] = "error"
                     /\ outs[i] = "error" => frame["timer"][i] \notin {"none", "suspended"}

(* All that was collected is true. *)
OutsTrue == Collected => \A i \in Idx : i < pos => OutTrue(i)

(* Where the returned result comes from. *)
Returned ==
  /\ ret.kind \in {"ok", "failed"} => ret = FirstFailure(outs) /\ pos = N + 1
  /\ ret = AllocationFailure => \A i \in Idx : ~awaits[i]

(* The inductive invariant of FirstFailureReported and MisresumedOnlyLate.  *)
LateIInv == IInv /\ ResultsTrue /\ OutsTrue /\ Returned /\ MisresumedOnlyLate

(* At the start there is no result. *)
LEMMA InitLateIInv ==
  ASSUME Init
  PROVE  LateIInv
BY InitIInv DEF Init, LateIInv, ResultsTrue, Collected, OutsTrue, Returned, MisresumedOnlyLate,
   Misresumed, ResumedWhenReady, Awaiting, Nothing, AllocationFailure

(* Nothing is collected while awaitables are launched. *)
LEMMA LaunchKeeps ==
  ASSUME LateIInv, LaunchPlain \/ LaunchGuarded \/ AllocationFails \/ StartAwaiting
  PROVE  ResultsTrue' /\ OutsTrue' /\ Returned' /\ MisresumedOnlyLate'
<1>0. /\ phase = "launching" /\ phase' \in {"launching", "finished", "checking"}
      /\ UNCHANGED ret \/ ret' = AllocationFailure
      /\ phase' = "checking" => pos' = 1
      /\ UNCHANGED <<combinator, awaits>>
  <2>1. CASE LaunchPlain
    BY <2>1 DEF LaunchPlain
  <2>2. CASE LaunchGuarded
    BY <2>2, Zenon DEF LaunchGuarded
  <2>3. CASE AllocationFails
    BY <2>3 DEF AllocationFails
  <2>4. CASE StartAwaiting
    BY <2>4 DEF StartAwaiting
  <2> QED
    BY <2>1, <2>2, <2>3, <2>4
<1>1. /\ TypeOK /\ ret = Nothing /\ \A i \in Idx : ~awaits[i]
      /\ ret'.kind \notin {"ok", "failed"}
  BY <1>0 DEF LateIInv, IInv, NoneAbandoned, LoopState, Nothing, AllocationFailure
<1>2. ResultsTrue'
  <2>1. CASE LaunchPlain
    BY <1>1, <2>1 DEF LateIInv, ResultsTrue, LaunchPlain, IsGuarded, TypeOK
  <2>2. CASE LaunchGuarded
    <3>1. PICK s \in {"pending", "ok", "error"}, g \in {"none", "suspended"}, t \in {"none", "suspended"},
               x \in {"returned", "none", "suspended"}, y \in {"value", "notReady"} :
            /\ task' = [task EXCEPT ![pos] = s]
            /\ frame' = [frame EXCEPT !["guard"][pos] = x, !["timer"][pos] = t]
            /\ result' = [result EXCEPT ![pos] = y]
            /\ y = "value" => s # "pending"
      BY <2>2 DEF LaunchGuarded
    <3> QED
      BY <1>0, <1>1, <3>1 DEF LateIInv, ResultsTrue, IsGuarded, TypeOK
  <2>3. CASE AllocationFails \/ StartAwaiting
    BY <2>3 DEF LateIInv, ResultsTrue, AllocationFails, StartAwaiting, IsGuarded
  <2> QED
    BY <2>1, <2>2, <2>3
<1>3. OutsTrue' /\ Returned' /\ MisresumedOnlyLate'
  BY <1>0, <1>1 DEF OutsTrue, Collected, Awaiting, Returned, MisresumedOnlyLate, Misresumed,
     ResumedWhenReady, Idx
<1> QED
  BY <1>2, <1>3

(* The result that is collected is the one the awaitable answers. *)
LEMMA TakeKeeps ==
  ASSUME LateIInv, Awaiting, pos \in Idx, Ready(pos), Take,
         UNCHANGED <<combinator, task, frame, result, awaits, running, ret>>
  PROVE  ResultsTrue' /\ OutsTrue' /\ Returned' /\ MisresumedOnlyLate'
<1>0. /\ N \in Nat /\ outs \in Seq({"ok", "error"}) /\ Len(outs) = pos - 1 /\ TypeOK
      /\ pos \in 1 .. N /\ ret = Nothing
  BY Typed DEF LateIInv, IInv, NoneAbandoned, LoopState, Awaiting, Idx
<1>1. /\ outs' = Append(outs, Outcome(pos)) /\ pos' = pos + 1 /\ phase' = "checking"
      /\ Outcome(pos) \in {"ok", "error"}
  BY <1>0, OutcomeOfReady DEF Take
<1>2. \A i \in 1 .. pos - 1 : outs'[i] = outs[i]
  BY <1>0, <1>1, AppendProperties
<1>3. outs'[pos] = Outcome(pos)
  BY <1>0, <1>1, AppendProperties
<1>4. OutsTrue'
  <2> SUFFICES ASSUME NEW i \in Idx, i < pos + 1 PROVE OutTrue(i)'
    BY <1>1 DEF OutsTrue
  <2>1. CASE i < pos
    <3>1. OutTrue(i) /\ outs'[i] = outs[i]
      BY <1>0, <1>2, <2>1 DEF LateIInv, OutsTrue, Collected, Idx
    <3> QED
      BY <3>1 DEF OutTrue, IsGuarded
  <2>2. CASE i = pos
    BY <1>0, <1>3, <2>2 DEF LateIInv, ResultsTrue, OutTrue, IsGuarded, Outcome, Ready, TypeOK
  <2> QED
    BY <1>0, <2>1, <2>2 DEF Idx
<1>5. ResultsTrue' /\ Returned' /\ MisresumedOnlyLate'
  BY <1>0, <1>1 DEF LateIInv, ResultsTrue, Returned, MisresumedOnlyLate, Misresumed,
     ResumedWhenReady, IsGuarded, Nothing, AllocationFailure
<1> QED
  BY <1>4, <1>5

(* Suspending, returning, leaving and dropping change no result that was    *)
(* collected.                                                               *)
LEMMA OthersKeep ==
  ASSUME LateIInv, AwaitSuspend \/ Return \/ LeaveScope \/ Cancel \/ Abandon \/ ResumeReturns
  PROVE  ResultsTrue' /\ OutsTrue' /\ Returned' /\ MisresumedOnlyLate'
<1>0. /\ TypeOK /\ UNCHANGED <<combinator, result, pos, outs>>
      /\ phase' \in {"suspended", "finished", "over"}
  BY DEF LateIInv, IInv, NoneAbandoned, AwaitSuspend, Return, LeaveScope, Cancel, DestroyAll,
     Abandon, ResumeReturns
<1>1. MisresumedOnlyLate'
  BY <1>0 DEF MisresumedOnlyLate, Misresumed, ResumedWhenReady
<1>2. CASE AwaitSuspend \/ Return \/ Abandon
  <2>1. UNCHANGED <<task, frame>>
    BY <1>2 DEF AwaitSuspend, Return, Abandon
  <2>2. ResultsTrue'
    BY <1>0, <2>1 DEF LateIInv, ResultsTrue, IsGuarded
  <2>3. Collected' => Collected
    BY <1>2 DEF AwaitSuspend, Return, Abandon, Collected, Awaiting
  <2>4. OutsTrue'
    BY <1>0, <2>1, <2>3 DEF LateIInv, OutsTrue, OutTrue, IsGuarded
  <2>5. Returned'
    <3>1. CASE Return
      <4>1. ret' # AllocationFailure
        BY <3>1, Typed, <1>0, FirstFailureIs DEF Return, Success, FailureOf, AllocationFailure
      <4> QED
        BY <3>1, <4>1 DEF Returned, Return
    <3>2. CASE AwaitSuspend
      BY <1>0, <3>2 DEF LateIInv, IInv, LoopState, AwaitSuspend, Returned, Nothing, AllocationFailure
    <3>3. CASE Abandon
      BY <1>0, <3>3 DEF LateIInv, Abandon, Returned
    <3> QED
      BY <1>2, <3>1, <3>2, <3>3
  <2> QED
    BY <1>1, <2>2, <2>4, <2>5
<1>3. CASE LeaveScope \/ Cancel
  <2>1. /\ task' = [i \in Idx |-> IF task[i] = "pending" THEN "dropped" ELSE task[i]]
        /\ frame' = [k \in DOMAIN frame |->
                       [i \in Idx |-> IF frame[k][i] = "none" THEN "none" ELSE "destroyed"]]
        /\ UNCHANGED <<awaits, ret>> /\ phase' = "over"
    BY <1>3 DEF LeaveScope, Cancel, DestroyAll
  <2>2. \A i \in Idx : frame["timer"][i] \notin {"none", "suspended"}
                          => frame'["timer"][i] \notin {"none", "suspended"}
    BY <1>0, <2>1 DEF TypeOK
  <2>3. ResultsTrue'
    BY <1>0, <2>1, <2>2 DEF LateIInv, ResultsTrue, IsGuarded
  <2>4. OutsTrue'
    <3>1. Collected' => Collected /\ \A i \in Idx : ~IsGuarded(i) => task[i] \in {"ok", "error"}
      BY <2>1 DEF Collected, Awaiting, LateIInv, IInv, NoneAbandoned
    <3> QED
      BY <1>0, <2>1, <2>2, <3>1 DEF LateIInv, OutsTrue, OutTrue, IsGuarded
  <2>5. Returned'
    BY <1>0, <2>1 DEF LateIInv, Returned
  <2> QED
    BY <1>1, <2>3, <2>4, <2>5
<1>4. CASE ResumeReturns
  <2>1. PICK k \in {"guard", "timer"}, i \in Idx : running = <<k, i>>
    BY <1>0, <1>4 DEF TypeOK, ResumeReturns
  <2>2. /\ frame' = [frame EXCEPT ![k][i] = IF @ = "destroyed" THEN @ ELSE "returned"]
        /\ UNCHANGED <<task, awaits, ret, phase>>
    BY <1>4, <2>1 DEF ResumeReturns
  <2>3. \A j \in Idx : frame["timer"][j] \notin {"none", "suspended"}
                          => frame'["timer"][j] \notin {"none", "suspended"}
    BY <1>0, <2>2 DEF TypeOK
  <2>4. ResultsTrue'
    BY <1>0, <2>2, <2>3 DEF LateIInv, ResultsTrue, IsGuarded
  <2>5. OutsTrue' /\ Returned'
    BY <1>0, <2>2, <2>3 DEF LateIInv, OutsTrue, Collected, Awaiting, OutTrue, Returned, IsGuarded
  <2> QED
    BY <1>1, <2>4, <2>5
<1> QED
  BY <1>2, <1>3, <1>4

(* A completion touches its own awaitable only.  If that was collected      *)
(* before, it is the guarded task of a deadline that was reported.          *)
LEMMA CompletionKeeps ==
  ASSUME LateIInv, NEW i \in Idx, CompletePlain(i) \/ CompleteGuarded(i) \/ TimerFires(i)
  PROVE  ResultsTrue' /\ OutsTrue' /\ Returned' /\ MisresumedOnlyLate'
<1>0. /\ TypeOK /\ UNCHANGED <<combinator, pos, outs, ret, awaits>>
      /\ phase \in {"suspended", "launching", "finished"} /\ N \in Nat
      /\ \A j \in Idx : IsGuarded(j)' = IsGuarded(j)
  BY ParallelAssumption DEF ParallelAssumption, LateIInv, IInv, NoneAbandoned, ReactorRuns,
     CompletePlain, CompleteGuarded, TimerFires, IsGuarded
<1>1. TimerFires(i) => IsGuarded(i)
  BY DEF TimerFires, LateIInv, IInv, FramesOfGuarded
<1>2. \A j \in Idx : j # i => UNCHANGED <<task[j], result[j], frame["timer"][j]>>
  BY <1>0 DEF CompletePlain, CompleteGuarded, TimerFires, ResumeWaiter, TypeOK
<1>3. frame["timer"][i] \notin {"none", "suspended"} => frame'["timer"][i] \notin {"none", "suspended"}
  BY <1>0 DEF CompletePlain, CompleteGuarded, TimerFires, ResumeWaiter, TypeOK
<1>4. ResultsTrue'
  <2>1. CASE CompletePlain(i)
    BY <1>0, <1>2, <1>3, <2>1 DEF CompletePlain, LateIInv, ResultsTrue
  <2>2. CASE CompleteGuarded(i)
    <3>1. task'[i] \in {"ok", "error"} /\ result'[i] \in {result[i], "value"}
      BY <1>0, <2>2 DEF CompleteGuarded, TypeOK
    <3> QED
      BY <1>0, <1>2, <1>3, <3>1 DEF LateIInv, ResultsTrue
  <2>3. CASE TimerFires(i)
    <3>1. /\ UNCHANGED task /\ frame'["timer"][i] \in {"resuming", "returned"}
          /\ result'[i] = "value" => result[i] = "value"
      BY <1>0, <2>3 DEF TimerFires, ResumeWaiter, TypeOK
    <3> QED
      BY <1>0, <1>2, <3>1 DEF LateIInv, ResultsTrue
  <2> QED
    BY <2>1, <2>2, <2>3
<1>5. Collected /\ i < pos => /\ OutTrue(i) /\ ~CompletePlain(i)
                              /\ TimerFires(i) => UNCHANGED <<result, phase>>
                              /\ CompleteGuarded(i) => result'[i] \in {result[i], "value"}
  <2> SUFFICES ASSUME Collected, i < pos
               PROVE  /\ OutTrue(i) /\ ~CompletePlain(i)
                      /\ TimerFires(i) => UNCHANGED <<result, phase>>
                      /\ CompleteGuarded(i) => result'[i] \in {result[i], "value"}
    OBVIOUS
  <2>1. OutTrue(i)
    BY DEF LateIInv, OutsTrue
  <2>2. ~CompletePlain(i)
    BY DEF CompletePlain, Collected, LateIInv, IInv, LoopState, NoneAbandoned
  <2>3. TimerFires(i) => UNCHANGED <<result, phase>>
    BY <1>1, <2>1 DEF OutTrue, TimerFires
  <2>4. CompleteGuarded(i) => result'[i] \in {result[i], "value"}
    BY <1>0 DEF CompleteGuarded, TypeOK
  <2> QED
    BY <2>1, <2>2, <2>3, <2>4
<1>6. Collected' => Collected
  <2>1. phase' = "resumed" => phase = "suspended"
    BY <1>0 DEF CompletePlain, CompleteGuarded, TimerFires, ResumeWaiter, Resumed
  <2>2. phase' \in {phase, "resumed", "misresumed"}
    BY <1>0 DEF CompletePlain, CompleteGuarded, TimerFires, ResumeWaiter, Resumed
  <2> QED
    BY <1>0, <2>1, <2>2 DEF Collected, Awaiting
<1>7. OutsTrue'
  <2> SUFFICES ASSUME Collected, NEW j \in Idx, j < pos PROVE OutTrue(j)'
    BY <1>0, <1>6 DEF OutsTrue
  <2>1. OutTrue(j)
    BY DEF LateIInv, OutsTrue
  <2>2. CASE j # i
    BY <1>0, <1>2, <2>1, <2>2 DEF OutTrue
  <2>3. CASE j = i
    <3>1. IsGuarded(i)
      BY <1>1, <1>5, <2>3 DEF CompleteGuarded
    <3>2. result'[i] \in {result[i], "value"}
      BY <1>5, <2>3
    <3> QED
      BY <1>0, <1>3, <2>1, <2>3, <3>1, <3>2 DEF OutTrue
  <2> QED
    BY <2>2, <2>3
<1>8. Returned'
  BY <1>0 DEF LateIInv, Returned
<1>9. MisresumedOnlyLate'
  <2> SUFFICES ASSUME Misresumed', ~(phase' = "misresumed" /\ ret = Nothing) PROVE LateGuard'
    BY <1>0 DEF MisresumedOnlyLate
  <2>1. awaits[i] /\ phase' = Resumed /\ phase' # phase
    BY <1>0 DEF CompletePlain, CompleteGuarded, TimerFires, ResumeWaiter, Resumed, Misresumed, ResumedWhenReady
  <2>2. phase = "suspended" => i <= pos /\ pos \in 1 .. N /\ Collected
    BY <2>1 DEF LateIInv, IInv, LoopState, Awaiting, Collected, Idx
  <2>3. phase # "suspended" => Collected /\ i < pos
    <3> SUFFICES ASSUME phase # "suspended" PROVE Collected /\ i < pos
      OBVIOUS
    <3>1. phase = "finished" /\ phase' = "misresumed"
      BY <1>0, <2>1 DEF LateIInv, IInv, LoopState, Resumed
    <3>2. ret # Nothing /\ ret # AllocationFailure
      BY <2>1, <3>1 DEF LateIInv, Returned
    <3>3. ret.kind \in {"ok", "failed"}
      BY <1>0, <3>2 DEF TypeOK, Success, FailureOf
    <3> QED
      BY <1>0, <3>1, <3>3 DEF LateIInv, Returned, Collected, Idx
  <2>4. i # pos
    <3> SUFFICES ASSUME i = pos PROVE FALSE
      OBVIOUS
    <3>1. phase = "suspended" /\ phase' = "resumed"
      BY <1>0, <2>1, <2>3 DEF Resumed, Idx
    <3>2. Ready(pos)'
      <4>1. CASE CompletePlain(i)
        BY <1>0, <4>1 DEF CompletePlain, Ready, TypeOK
      <4>2. CASE CompleteGuarded(i) \/ TimerFires(i)
        <5>1. IsGuarded(i) /\ result'[i] # "notReady"
          BY <1>0, <1>1, <3>1, <4>2 DEF CompleteGuarded, TimerFires, TypeOK
        <5> QED
          BY <1>0, <5>1 DEF Ready
      <4> QED
        BY <4>1, <4>2
    <3> QED
      BY <3>1, <3>2 DEF Misresumed, ResumedWhenReady
  <2>5. Collected /\ i < pos
    BY <1>0, <2>2, <2>3, <2>4 DEF Idx
  <2>6. CompleteGuarded(i) /\ OutTrue(i)
    BY <1>5, <2>1, <2>5
  <2>7. task[i] = "pending" /\ IsGuarded(i)
    BY <2>6 DEF CompleteGuarded
  <2>8. result[i] = "timedOut"
    BY <1>0, <2>6, <2>7 DEF LateIInv, ResultsTrue, OutTrue, TypeOK
  <2>9. outs[i] = "error"
    BY <2>6, <2>7, <2>8 DEF OutTrue
  <2>10. running' = <<"guard", i>>
    BY <2>1, <2>6 DEF CompleteGuarded, ResumeWaiter
  <2> QED
    BY <1>0, <2>5, <2>9, <2>10 DEF LateGuard
<1> QED
  BY <1>4, <1>7, <1>8, <1>9

(* Every step keeps the inductive invariant, wherever the deadlines are.    *)
LEMMA NextLateIInv ==
  ASSUME LateIInv, [Next]_vars
  PROVE  LateIInv'
<1>1. IInv'
  BY NextIInv DEF LateIInv
<1>2. ResultsTrue' /\ OutsTrue' /\ Returned' /\ MisresumedOnlyLate'
  <2>1. CASE AwaitReady
    BY <2>1, TakeKeeps DEF AwaitReady, Awaiting
  <2>2. CASE AwaitResume
    <3>1. pos \in Idx /\ Awaiting
      BY <2>2 DEF AwaitResume, LateIInv, IInv, LoopState, Awaiting
    <3> QED
      BY <2>2, <3>1, TakeKeeps DEF AwaitResume
  <2>3. CASE UNCHANGED vars
    BY <2>3 DEF vars, LateIInv, ResultsTrue, OutsTrue, Collected, Awaiting, OutTrue, Returned,
       MisresumedOnlyLate, Misresumed, ResumedWhenReady, LateGuard, Ready, IsGuarded
  <2> QED
    BY <2>1, <2>2, <2>3, LaunchKeeps, OthersKeep, CompletionKeeps DEF Next
<1> QED
  BY <1>1, <1>2 DEF LateIInv

(* The inductive invariant holds in every reachable state. *)
LEMMA LateIInvHolds == Spec => []LateIInv
<1>1. Init => LateIInv
  BY InitLateIInv
<1>2. LateIInv /\ [Next]_vars => LateIInv'
  BY NextLateIInv
<1> QED
  BY <1>1, <1>2, PTL DEF Spec

(* Wherever deadlines are, the combinator reports the failure with the      *)
(* least position, however late it came, and success only if nothing failed *)
(* (when_all_succeed, parallel_foreach); a deadline fails exactly if its    *)
(* timer was first, also when the task completes afterwards.                *)
THEOREM ReportsFirstFailure == Spec => []FirstFailureReported
<1>1. ASSUME LateIInv PROVE FirstFailureReported
  <2> SUFFICES ASSUME ret.kind \in {"ok", "failed"} PROVE FirstFailureReported
    BY DEF FirstFailureReported
  <2>1. /\ N \in Nat /\ outs \in Seq({"ok", "error"}) /\ Len(outs) = N
        /\ ret = FirstFailure(outs) /\ \A i \in Idx : OutTrue(i)
    <3>1. TypeOK /\ Len(outs) = N /\ ret = FirstFailure(outs) /\ pos = N + 1
      BY <1>1 DEF LateIInv, IInv, NoneAbandoned, Returned
    <3>2. N \in Nat /\ outs \in Seq({"ok", "error"})
      BY <3>1, Typed
    <3>3. \A i \in Idx : i < pos
      BY <3>1, <3>2 DEF Idx
    <3> QED
      BY <1>1, <3>1, <3>2, <3>3 DEF LateIInv, OutsTrue, Collected
  <2>2. \A i \in 1 .. N : outs[i] = "error" <=> Failed(i)
    BY <2>1 DEF OutTrue, Failed, Idx
  <2>3. \A i \in Idx : IsGuarded(i) => /\ result[i] = "timedOut" => Failed(i)
                                       /\ Failed(i) => frame["timer"][i] \notin {"none", "suspended"}
    BY <2>1 DEF OutTrue, Failed
  <2>4. CASE FirstFailure(outs) = Success /\ \A i \in 1 .. N : outs[i] # "error"
    BY <2>1, <2>2, <2>3, <2>4 DEF FirstFailureReported, Success, Idx
  <2>5. ASSUME NEW m \in 1 .. N, FirstFailure(outs) = FailureOf(m), outs[m] = "error",
               \A i \in 1 .. N : i < m => outs[i] # "error"
        PROVE  FirstFailureReported
    BY <2>1, <2>2, <2>3, <2>5 DEF FirstFailureReported, FailureOf, Idx
  <2> QED
    BY <2>1, <2>4, <2>5, FirstFailureIs
<1> QED
  BY <1>1, LateIInvHolds, PTL

(* Wherever deadlines are and however long awaitables live, the combinator  *)
(* is resumed without its result, or after its end, in two ways only: by    *)
(* the late completion of a task whose deadline was reported                *)
(* (Parallel.hpp:149), or when it was dropped while it waited.              *)
THEOREM ResumedWrongOnlyLate == Spec => []MisresumedOnlyLate
<1>1. LateIInv => MisresumedOnlyLate
  BY DEF LateIInv
<1> QED
  BY <1>1, LateIInvHolds, PTL

=============================================================================
