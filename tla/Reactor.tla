------------------------------- MODULE Reactor -------------------------------
(***************************************************************************)
(* corosig's core: the Reactor's event loop (src/reactor/Reactor.cpp), the *)
(* life of the coroutines it runs (Coro.hpp, Background.hpp), their        *)
(* suspension points (Yield.hpp, Sleep.hpp, PollEvent.hpp), and the signal *)
(* handler that drives them (Sighandler.hpp).                              *)
(*                                                                         *)
(* One thread runs everything.  The handler calls the main coroutine, and  *)
(* from then on control is a stack of coroutines: the event loop resumes   *)
(* one, a coroutine that calls another one runs it at once on top of       *)
(* itself, and a coroutine that returns hands over to the one awaiting it. *)
(* What a coroutine does between two suspension points is up to its code:  *)
(* every choice it has is an action here.  It may suspend in the reactor's *)
(* lists, or in an awaitable that keeps it somewhere else until another    *)
(* coroutine schedules it: a Semaphore, a pending request of the resolver. *)
(* (A with_deadline resumes its coroutine directly, out of another one:    *)
(* that is modelled in Parallel; here it is one that nothing schedules, as *)
(* when its frames could not be allocated.)  The frames form trees: a      *)
(* coroutine owns the Futs it has in its frame, and destroying a Fut       *)
(* destroys the coroutine and everything below it, wherever suspended.     *)
(***************************************************************************)
EXTENDS Naturals, FiniteSets, SequencesExt

CONSTANTS
  Tasks,           \* coroutines, one element for one activation
  Main,            \* the coroutine F(reactor, sig) of the signal handler
  Reporter,        \* the handler's STDERR.write coroutine
  None,            \* no coroutine
  Fds, Events,     \* descriptors and the events awaited on them
  PollCap,         \* entries of the poll buffer that are always there
  Delays,          \* durations passed to Sleep
  Milli,           \* clock ticks in a millisecond
  DefaultTimeout,  \* longest time poll() may block
  MaxTime          \* bound on the clock

ASSUME ReactorAssumption ==
  /\ IsFiniteSet(Tasks)
  /\ Main \in Tasks /\ Reporter \in Tasks /\ Main # Reporter /\ None \notin Tasks
  /\ PollCap \in Nat \ {0}
  /\ Milli \in Nat \ {0}
  /\ Delays \subseteq Nat /\ DefaultTimeout \in Nat /\ MaxTime \in Nat

VARIABLES
  life,      \* life cycle of each coroutine
  background,\* the coroutines that are BackgroundTasks
  owner,     \* the coroutine whose frame holds the Fut
  waiter,    \* m_waiting_coro
  parked,    \* coroutines suspended outside the reactor's lists
  stack,     \* coroutines that are running, the innermost last
  ready,     \* m_ready
  sleeping,  \* m_sleeping, in awake_time order
  polled,    \* m_polled
  gcList,    \* m_gc_list
  batch,     \* the local list "polled" of poll_and_resume_impl
  pollfds,   \* poll_fds from the loop index on
  left,      \* ret - handled
  now,       \* SteadyClock
  sampled,   \* "now" of resume_ready_sleepers
  phase,     \* where do_event_loop_iteration is
  mode,      \* where the signal handler is
  fallback,  \* m_poll_and_resume_method is poll_and_resume_fallback
  allocFlag  \* m_current_coro_was_allocated

coros == <<life, background, owner, waiter, parked>>
lists == <<ready, sleeping, polled, gcList, batch>>
loop == <<pollfds, left, now, sampled, phase, mode, fallback>>
vars == <<coros, stack, lists, loop, allocFlag>>

(***************************************************************************)
(* "unborn"; "live": started, not finished; "done": at its final           *)
(* suspension point, frame still allocated; "failed": a Fut made ready     *)
(* because no frame could be allocated; "freed": destroyed.                *)
(***************************************************************************)
Lives == {"unborn", "live", "done", "failed", "freed"}
Modes == {"main", "report", "drain", "exit", "aborted"}
Phases == {"start", "sleepers", "ready", "poll", "dispatch"}

SleepNode == [task : Tasks, at : Nat]
PollNode == [task : Tasks, fd : Fds, ev : Events]
PollFd == [fd : Fds, ev : Events, hit : BOOLEAN]

Init ==
  /\ life = [t \in Tasks |-> IF t = Main THEN "live" ELSE "unborn"]
  /\ background = {}
  /\ owner = [t \in Tasks |-> None]
  /\ waiter = [t \in Tasks |-> None]
  /\ parked = {}
  /\ stack = <<Main>>
  /\ ready = <<>> /\ sleeping = <<>> /\ polled = <<>> /\ gcList = <<>> /\ batch = <<>>
  /\ pollfds = <<>> /\ left = 0
  /\ now = 0 /\ sampled = 0
  /\ phase = "start" /\ mode = "main"
  /\ fallback \in BOOLEAN
  /\ allocFlag = FALSE

Elems(s) == {s[i] : i \in 1 .. Len(s)}

TasksOf(nodes) == {n.task : n \in Elems(nodes)}

HasActiveTasks == polled # <<>> \/ ready # <<>> \/ sleeping # <<>>

Running(t) == stack # <<>> /\ t = stack[Len(stack)]

Caller == SubSeq(stack, 1, Len(stack) - 1)

LoopAt(p) == stack = <<>> /\ phase = p /\ mode \in {"main", "report", "drain"}

-----------------------------------------------------------------------------
(***************************************************************************)
(* Destruction.  Fut::drop and BackgroundCoroutinePromiseType::destroy     *)
(* destroy a frame with all that it owns, release its memory, and every    *)
(* list node in it unlinks itself.  A Holder in a frame gives its units    *)
(* back, which may schedule coroutines that wait for them elsewhere.       *)
(***************************************************************************)
Closed(S) == \A t \in Tasks : owner[t] \in S /\ life[t] # "freed" => t \in S

(* The coroutines of S and all they own, directly or not. *)
Subtree(S) ==
  {t \in Tasks : \A U \in SUBSET Tasks : S \subseteq U /\ Closed(U) => t \in U}

Owned(t) == {c \in Tasks : owner[c] = t /\ life[c] # "freed"}

(* What is left of the list s when only the elements at the indexes I stay. *)
Kept(s, I) ==
  LET upTo[n \in 0 .. Len(s)] ==
        IF n = 0 THEN <<>>
        ELSE IF n \in I THEN Append(upTo[n - 1], s[n]) ELSE upTo[n - 1]
  IN upTo[Len(s)]

KeepTasks(s, S) == Kept(s, {i \in 1 .. Len(s) : s[i] \notin S})

KeepNodes(s, S) == Kept(s, {i \in 1 .. Len(s) : s[i].task \notin S})

FreedIn(S, f) == [t \in Tasks |-> IF t \in S THEN "freed" ELSE f[t]]

ForgottenIn(S, f) == [t \in Tasks |-> IF t \in S THEN None ELSE f[t]]

(* The coroutines that may be scheduled when S is destroyed, in any order. *)
Wakings(S) == IF S = {} THEN {<<>>} ELSE SetToAllKPermutations(parked \ S)

(* Destroy the coroutines S; f and w are life and waiter so far. *)
Destroy(S, f, w) ==
  /\ life' = FreedIn(S, f)
  /\ owner' = ForgottenIn(S, owner)
  /\ waiter' = ForgottenIn(S, w)
  /\ background' = background \ S
  /\ sleeping' = KeepNodes(sleeping, S)
  /\ polled' = KeepNodes(polled, S)
  /\ batch' = KeepNodes(batch, S)
  /\ \E woken \in Wakings(S) :
       /\ ready' = KeepTasks(ready, S) \o woken
       /\ parked' = (parked \ S) \ Elems(woken)

-----------------------------------------------------------------------------
(***************************************************************************)
(* What a running coroutine does.                                          *)
(***************************************************************************)

(* co_await Yield{}. *)
Yield(t) ==
  /\ Running(t) /\ t # Reporter
  /\ ready' = Append(ready, t)
  /\ stack' = Caller
  /\ UNCHANGED <<coros, sleeping, polled, gcList, batch, loop, allocFlag>>

(* Position of a node with the given awake time in the multiset: after the *)
(* nodes that are not later.                                               *)
NotLater(at) == Cardinality({i \in 1 .. Len(sleeping) : sleeping[i].at <= at})

(* Mutant of InsertSleeper: the sleepers are a plain list. *)
AppendSleeper(n) == Append(sleeping, n)

InsertSleeper(n) ==
  SubSeq(sleeping, 1, NotLater(n.at)) \o <<n>>
    \o SubSeq(sleeping, NotLater(n.at) + 1, Len(sleeping))

(* co_await Sleep{delay}. *)
Sleep(t, delay) ==
  /\ Running(t) /\ t # Reporter
  /\ now + delay <= MaxTime
  /\ sleeping' = InsertSleeper([task |-> t, at |-> now + delay])
  /\ stack' = Caller
  /\ UNCHANGED <<coros, ready, polled, gcList, batch, loop, allocFlag>>

(* co_await PollEvent{f, e}. *)
Poll(t, f, e) ==
  /\ Running(t)
  /\ polled' = Append(polled, [task |-> t, fd |-> f, ev |-> e])
  /\ stack' = Caller
  /\ UNCHANGED <<coros, ready, sleeping, gcList, batch, loop, allocFlag>>

(* co_await on an awaitable that is in none of the reactor's lists. *)
Park(t) ==
  /\ Running(t) /\ t # Reporter
  /\ parked' = parked \cup {t}
  /\ stack' = Caller
  /\ UNCHANGED <<life, background, owner, waiter, lists, loop, allocFlag>>

(* The running coroutine schedules one that waits so: it gives units of a *)
(* Semaphore back, or it has the answer to a request.                     *)
Wake(t, u) ==
  /\ Running(t) /\ t # Reporter /\ u \in parked
  /\ parked' = parked \ {u}
  /\ ready' = Append(ready, u)
  /\ UNCHANGED <<life, background, owner, waiter, stack, sleeping, polled, gcList, batch, loop,
                 allocFlag>>

(* Calling a coroutine: its frame is allocated (or not: the memory is     *)
(* shared with everything else) and, initial_suspend being suspend_never, *)
(* it runs at once; without a frame the Fut is ready.                     *)
Spawn(t, c, allocated) ==
  /\ Running(t) /\ t # Reporter /\ c \notin {Main, Reporter} /\ life[c] = "unborn"
  /\ owner' = [owner EXCEPT ![c] = t]
  /\ IF allocated
     THEN /\ life' = [life EXCEPT ![c] = "live"]
          /\ stack' = Append(stack, c)
     ELSE /\ life' = [life EXCEPT ![c] = "failed"]
          /\ UNCHANGED stack
  /\ UNCHANGED <<background, waiter, parked, lists, loop, allocFlag>>

(* Calling a background coroutine, which may be given a Fut of the caller  *)
(* (run_in_background).  operator new sets the flag that tells the promise *)
(* to free the frame; the promise's constructor takes it back, but without *)
(* memory there is no promise.                                             *)
SpawnBackground(t, b, given, allocated) ==
  /\ Running(t) /\ t # Reporter /\ b \notin {Main, Reporter} /\ life[b] = "unborn"
  /\ given = {} \/ given \in {{c} : c \in Owned(t)}
  /\ IF allocated
     THEN /\ life' = [life EXCEPT ![b] = "live"]
          /\ background' = background \cup {b}
          /\ owner' = [c \in Tasks |-> IF c \in given THEN b ELSE owner[c]]
          /\ stack' = Append(stack, b)
          /\ allocFlag' = FALSE
          /\ UNCHANGED <<waiter, parked, lists>>
     ELSE /\ allocFlag' = TRUE
          /\ Destroy(Subtree(given), [life EXCEPT ![b] = "freed"], waiter)
          /\ UNCHANGED <<stack, gcList>>
  /\ UNCHANGED loop

(* co_await on a Fut that is not completed. *)
Await(t, c) ==
  /\ Running(t) /\ c \in Owned(t) /\ life[c] = "live"
  /\ waiter' = [waiter EXCEPT ![c] = t]
  /\ stack' = Caller
  /\ UNCHANGED <<life, background, owner, parked, lists, loop, allocFlag>>

(* A Fut is destroyed: its coroutine is cancelled, or was done. *)
Drop(t, c) ==
  /\ Running(t) /\ c \in Owned(t)
  /\ Destroy(Subtree({c}), life, waiter)
  /\ UNCHANGED <<stack, gcList, loop, allocFlag>>

(* Mutant of Return: the awaiting coroutine is not resumed. *)
ReturnToCallerOnly(t, kept) ==
  /\ Running(t)
  /\ kept \subseteq Owned(t)
  /\ Destroy(Subtree(Owned(t) \ kept), [life EXCEPT ![t] = "done"],
             [waiter EXCEPT ![t] = None])
  /\ stack' = Caller
  /\ gcList' = IF t \in background THEN <<t>> \o gcList ELSE gcList
  /\ UNCHANGED <<loop, allocFlag>>

(* co_return: the result is stored in the Fut, the locals are destroyed    *)
(* (a Fut passed as a parameter, in kept, lives as long as the frame), and *)
(* at the final suspension point control goes to the awaiting coroutine;   *)
(* a background coroutine has none and queues itself for destruction.      *)
Return(t, kept) ==
  /\ Running(t)
  /\ kept \subseteq Owned(t)
  /\ Destroy(Subtree(Owned(t) \ kept), [life EXCEPT ![t] = "done"],
             [waiter EXCEPT ![t] = None])
  /\ stack' = IF waiter[t] = None THEN Caller ELSE Append(Caller, waiter[t])
  /\ gcList' = IF t \in background THEN <<t>> \o gcList ELSE gcList
  /\ UNCHANGED <<loop, allocFlag>>

-----------------------------------------------------------------------------
(***************************************************************************)
(* The event loop, when no coroutine runs.                                 *)
(***************************************************************************)

Completed(t) == life[t] \in {"done", "failed"}

(* The condition of the loop of block_on, or of drain_remaining_tasks. *)
LoopContinues ==
  \/ mode = "main" /\ ~Completed(Main)
  \/ mode = "report" /\ ~Completed(Reporter)
  \/ mode = "drain" /\ HasActiveTasks

(* gc(): destroy the background coroutines that have finished. *)
CollectGarbage ==
  /\ Destroy(Subtree(Elems(gcList)), life, waiter)
  /\ gcList' = <<>>

(* do_event_loop_iteration starts: gc, and the time is taken once. *)
StartIteration ==
  /\ LoopAt("start") /\ LoopContinues
  /\ CollectGarbage
  /\ phase' = "sleepers" /\ sampled' = now
  /\ UNCHANGED <<stack, pollfds, left, now, mode, fallback, allocFlag>>

(* A sleeper whose time has come when the phase started. *)
SleeperDue == sleeping # <<>> /\ sleeping[1].at <= sampled

ResumeSleeper ==
  /\ LoopAt("sleepers") /\ SleeperDue
  /\ stack' = <<sleeping[1].task>>
  /\ sleeping' = Tail(sleeping)
  /\ UNCHANGED <<coros, ready, polled, gcList, batch, loop, allocFlag>>

SleepersDone ==
  /\ LoopAt("sleepers") /\ ~SleeperDue
  /\ phase' = "ready"
  /\ UNCHANGED <<coros, stack, lists, pollfds, left, now, sampled, mode, fallback, allocFlag>>

(* resume_ready() works on m_ready itself, so what is scheduled meanwhile *)
(* is resumed in the same loop.                                           *)
ResumeReady ==
  /\ LoopAt("ready") /\ ready # <<>>
  /\ stack' = <<Head(ready)>>
  /\ ready' = Tail(ready)
  /\ UNCHANGED <<coros, sleeping, polled, gcList, batch, loop, allocFlag>>

ReadyDone ==
  /\ LoopAt("ready") /\ ready = <<>>
  /\ phase' = "poll"
  /\ UNCHANGED <<coros, stack, lists, pollfds, left, now, sampled, mode, fallback, allocFlag>>

Lesser(a, b) == IF a < b THEN a ELSE b

(* Mutant of PollTimeout: sleepers are not considered. *)
PollTimeoutDefault == IF ready # <<>> THEN 0 ELSE DefaultTimeout

(* The time d in whole milliseconds, rounded up. *)
ceil_to_millis(d) == ((d + Milli - 1) \div Milli) * Milli

(* How long poll() may block. *)
PollTimeout ==
  IF ready # <<>> THEN 0
  ELSE IF sleeping = <<>> THEN DefaultTimeout
  ELSE IF sleeping[1].at <= now THEN 0
  ELSE Lesser(ceil_to_millis(sleeping[1].at - now), DefaultTimeout)

(* Nothing to poll: the iteration is over without blocking. *)
SkipPoll ==
  /\ LoopAt("poll") /\ polled = <<>>
  /\ phase' = "start"
  /\ UNCHANGED <<coros, stack, lists, pollfds, left, now, sampled, mode, fallback, allocFlag>>

(* How many nodes get an entry: the fallback's array has PollCap of them,  *)
(* and m_poll_buf grows beyond PollCap as long as memory can be allocated. *)
BufferSizes ==
  IF fallback THEN {Lesser(PollCap, Len(polled))}
  ELSE Lesser(PollCap, Len(polled)) .. Len(polled)

Hits(fds) == Cardinality({i \in 1 .. Len(fds) : fds[i].hit})

(* poll() on the first n nodes finds the conditions R; it blocks the whole *)
(* timeout when no entry is hit.                                           *)
PollOk(n, R, blocked) ==
  LET fds == [i \in 1 .. n |->
                [fd |-> polled[i].fd, ev |-> polled[i].ev,
                 hit |-> <<polled[i].fd, polled[i].ev>> \in R]]
  IN /\ LoopAt("poll") /\ polled # <<>>
     /\ n \in BufferSizes
     /\ blocked \in 0 .. PollTimeout
     /\ Hits(fds) = 0 => blocked = PollTimeout
     /\ pollfds' = fds
     /\ left' = Hits(fds)
     /\ now' = Lesser(now + blocked, MaxTime)
     /\ batch' = polled
     /\ polled' = <<>>
     /\ phase' = "dispatch"
     /\ UNCHANGED <<coros, stack, ready, sleeping, gcList, sampled, mode, fallback, allocFlag>>

Dispatching == left > 0 /\ pollfds # <<>> /\ batch # <<>>

(* One entry of poll_fds against the front node. *)
NodeGone == LoopAt("dispatch") /\ Dispatching /\ pollfds[1].fd # batch[1].fd
NodeMatches == LoopAt("dispatch") /\ Dispatching /\ pollfds[1].fd = batch[1].fd

(* The entry's node was destroyed by a coroutine resumed before. *)
SkipEntry ==
  /\ NodeGone
  /\ left' = IF pollfds[1].hit THEN left - 1 ELSE left
  /\ pollfds' = Tail(pollfds)
  /\ UNCHANGED <<coros, stack, lists, now, sampled, phase, mode, fallback, allocFlag>>

(* Mutant of KeepPolling: a node without event is forgotten. *)
KeepPollingNot ==
  /\ NodeMatches /\ ~pollfds[1].hit
  /\ batch' = Tail(batch)
  /\ pollfds' = Tail(pollfds)
  /\ UNCHANGED <<coros, stack, ready, sleeping, polled, gcList, left, now, sampled, phase, mode,
                 fallback, allocFlag>>

(* No event: the node goes back to m_polled. *)
KeepPolling ==
  /\ NodeMatches /\ ~pollfds[1].hit
  /\ batch' = Tail(batch)
  /\ polled' = Append(polled, batch[1])
  /\ pollfds' = Tail(pollfds)
  /\ UNCHANGED <<coros, stack, ready, sleeping, gcList, left, now, sampled, phase, mode,
                 fallback, allocFlag>>

(* An event: the node is unlinked and its coroutine resumed. *)
ResumePolled ==
  /\ NodeMatches /\ pollfds[1].hit
  /\ batch' = Tail(batch)
  /\ pollfds' = Tail(pollfds)
  /\ left' = left - 1
  /\ stack' = <<batch[1].task>>
  /\ UNCHANGED <<coros, ready, sleeping, polled, gcList, now, sampled, phase, mode, fallback,
                 allocFlag>>

(* Mutant of DispatchDone: the nodes that were not reached are dropped. *)
DispatchDoneForgets ==
  /\ LoopAt("dispatch") /\ ~Dispatching
  /\ batch' = <<>>
  /\ pollfds' = <<>> /\ left' = 0
  /\ phase' = "start"
  /\ UNCHANGED <<coros, stack, ready, sleeping, polled, gcList, now, sampled, mode, fallback,
                 allocFlag>>

(* The nodes not looked at are spliced back after the others. *)
DispatchDone ==
  /\ LoopAt("dispatch") /\ ~Dispatching
  /\ polled' = polled \o batch
  /\ batch' = <<>>
  /\ pollfds' = <<>> /\ left' = 0
  /\ phase' = "start"
  /\ UNCHANGED <<coros, stack, ready, sleeping, gcList, now, sampled, mode, fallback, allocFlag>>

-----------------------------------------------------------------------------
(***************************************************************************)
(* The signal handler around the loop.                                     *)
(***************************************************************************)

(* The Fut of the main coroutine is destroyed at the end of the statement *)
(* that called block_on; when it failed, the handler calls STDERR.write.  *)
LeaveMain(failed, allocated) ==
  /\ phase' = "start"
  /\ IF failed
     THEN /\ mode' = "report"
          /\ Destroy(Subtree({Main}),
                     [life EXCEPT ![Reporter] = IF allocated THEN "live" ELSE "failed"], waiter)
          /\ stack' = IF allocated THEN <<Reporter>> ELSE <<>>
     ELSE /\ mode' = "drain"
          /\ Destroy(Subtree({Main}), life, waiter)
          /\ UNCHANGED stack
  /\ UNCHANGED <<gcList, pollfds, left, now, sampled, fallback, allocFlag>>

(* block_on returns the result of the main coroutine, an error or not. *)
FinishMain(failed, allocated) ==
  LoopAt("start") /\ mode = "main" /\ Completed(Main) /\ LeaveMain(failed, allocated)

LeaveReport ==
  /\ mode' = "drain" /\ phase' = "start"
  /\ Destroy(Subtree({Reporter}), life, waiter)
  /\ UNCHANGED <<stack, gcList, pollfds, left, now, sampled, fallback, allocFlag>>

FinishReport == LoopAt("start") /\ mode = "report" /\ Completed(Reporter) /\ LeaveReport

(* Mutant of FinishDrain: what has finished is not collected. *)
FinishDrainWithoutGc ==
  /\ LoopAt("start") /\ mode = "drain" /\ ~HasActiveTasks
  /\ mode' = "exit"
  /\ UNCHANGED <<coros, stack, lists, pollfds, left, now, sampled, phase, fallback, allocFlag>>

(* drain_remaining_tasks is through; ~Reactor follows. *)
FinishDrain ==
  /\ LoopAt("start") /\ mode = "drain" /\ ~HasActiveTasks
  /\ CollectGarbage
  /\ mode' = "exit"
  /\ UNCHANGED <<stack, pollfds, left, now, sampled, phase, fallback, allocFlag>>

(* poll() returned -1 (EINTR, ENOMEM): the iteration fails, and with it    *)
(* block_on or drain_remaining_tasks; the handler ignores the latter and   *)
(* goes on to ~Reactor, which collects garbage.                            *)
PollFail ==
  /\ LoopAt("poll") /\ polled # <<>>
  /\ \/ mode = "main" /\ \E allocated \in BOOLEAN : LeaveMain(TRUE, allocated)
     \/ mode = "report" /\ LeaveReport
     \/ /\ mode = "drain"
        /\ CollectGarbage
        /\ mode' = "aborted" /\ phase' = "start"
        /\ UNCHANGED <<stack, pollfds, left, now, sampled, fallback, allocFlag>>

Tick ==
  /\ mode \in {"main", "report", "drain"} /\ now < MaxTime
  /\ now' = now + 1
  /\ UNCHANGED <<coros, stack, lists, pollfds, left, sampled, phase, mode, fallback, allocFlag>>

CoroutineStep(t) ==
  \/ Yield(t)
  \/ \E d \in Delays : Sleep(t, d)
  \/ \E f \in Fds, e \in Events : Poll(t, f, e)
  \/ Park(t)
  \/ \E u \in Tasks : Wake(t, u)
  \/ \E c \in Tasks : Await(t, c) \/ Drop(t, c)
  \/ \E c \in Tasks, allocated \in BOOLEAN : Spawn(t, c, allocated)
  \/ \E b \in Tasks, given \in SUBSET Tasks, allocated \in BOOLEAN :
       SpawnBackground(t, b, given, allocated)
  \/ \E kept \in SUBSET Tasks : Return(t, kept)

LoopStep ==
  \/ StartIteration
  \/ ResumeSleeper \/ SleepersDone
  \/ ResumeReady \/ ReadyDone
  \/ SkipPoll
  \/ \E n \in 1 .. Len(polled), R \in SUBSET (Fds \X Events), k \in 0 .. DefaultTimeout :
       PollOk(n, R, k)
  \/ SkipEntry \/ KeepPolling \/ ResumePolled \/ DispatchDone
  \/ \E failed, allocated \in BOOLEAN : FinishMain(failed, allocated)
  \/ FinishReport \/ FinishDrain

Next ==
  \/ \E t \in Tasks : CoroutineStep(t)
  \/ LoopStep
  \/ PollFail
  \/ Tick

Spec == Init /\ [][Next]_vars

(***************************************************************************)
(* The loop is plain code: it goes on, and so does a running coroutine,    *)
(* whatever it chooses to do next.                                         *)
(***************************************************************************)
LoopFairness ==
  /\ WF_vars(LoopStep)
  /\ \A t \in Tasks : WF_vars(CoroutineStep(t))

FairLoopSpec == Spec /\ LoopFairness

(***************************************************************************)
(* On top of it, the code that runs on the reactor behaves: a coroutine    *)
(* that keeps being resumed returns some day; and time passes.             *)
(***************************************************************************)
FairTasksSpec ==
  /\ FairLoopSpec
  /\ WF_vars(Tick)
  /\ \A t \in Tasks : SF_vars(\E kept \in SUBSET Tasks : Return(t, kept))

(* And poll() at times finds every descriptor it is given ready. *)
FairSpec ==
  /\ FairTasksSpec
  /\ SF_vars(\E n \in 1 .. Len(polled), k \in 0 .. DefaultTimeout : PollOk(n, Fds \X Events, k))

-----------------------------------------------------------------------------
(* The type invariant. *)
TypeOK ==
  /\ life \in [Tasks -> Lives]
  /\ background \subseteq Tasks
  /\ owner \in [Tasks -> Tasks \cup {None}]
  /\ waiter \in [Tasks -> Tasks \cup {None}]
  /\ parked \subseteq Tasks
  /\ stack \in Seq(Tasks) /\ ready \in Seq(Tasks) /\ gcList \in Seq(Tasks)
  /\ sleeping \in Seq(SleepNode)
  /\ polled \in Seq(PollNode) /\ batch \in Seq(PollNode)
  /\ pollfds \in Seq(PollFd)
  /\ left \in Nat /\ now \in Nat /\ sampled \in Nat
  /\ phase \in Phases /\ mode \in Modes
  /\ fallback \in BOOLEAN /\ allocFlag \in BOOLEAN

NoRepeats(s) == Cardinality(Elems(s)) = Len(s)

(* The places where something will, or may, make coroutine t continue. *)
Places(t) ==
  [running  |-> t \in Elems(stack),
   ready    |-> t \in Elems(ready),
   sleeping |-> t \in TasksOf(sleeping),
   polled   |-> t \in TasksOf(polled),
   batch    |-> t \in TasksOf(batch),
   parked   |-> t \in parked,
   awaiting |-> \E c \in Tasks : waiter[c] = t /\ life[c] = "live"]

(* No coroutine is lost and none is resumed twice: a coroutine that has    *)
(* not finished is running, linked in exactly one of the reactor's lists,  *)
(* waiting in an awaitable outside them, or awaiting one unfinished        *)
(* coroutine; a finished or destroyed one is in                            *)
(* no list and nobody awaits it (schedule, auto_unlink, return_value's and *)
(* poll_and_resume_impl's asserts). The background coroutines queued for   *)
(* gc() are the finished ones, each once (final_suspend, destroy_later).   *)
OnePlace ==
  /\ TypeOK
  /\ NoRepeats(stack) /\ NoRepeats(ready) /\ NoRepeats(gcList)
  /\ Cardinality(TasksOf(sleeping)) = Len(sleeping)
  /\ Cardinality(TasksOf(polled)) = Len(polled)
  /\ Cardinality(TasksOf(batch)) = Len(batch)
  /\ \A t \in Tasks :
       Cardinality({p \in DOMAIN Places(t) : Places(t)[p]}) = IF life[t] = "live" THEN 1 ELSE 0
  /\ \A t, c \in Tasks : waiter[c] = t => life[c] = "live" /\ life[t] = "live"
  /\ Elems(gcList) = {t \in background : life[t] = "done"}

(* The coroutine that block_on waits for. *)
BlockedOn == IF mode = "main" THEN Main ELSE Reporter

(* It, or one it owns, waits outside the reactor's lists. *)
BlockedOutside == \E t \in parked : t \in Subtree({BlockedOn})

(* What do_event_loop_iteration asserts, "Nothing to process. Deadlock     *)
(* will happen", fails in real deadlocks only: as long as block_on is not  *)
(* done there is something in the lists, whatever coroutines were awaited, *)
(* dropped or cancelled, unless its coroutine or one below it waits for    *)
(* something that no other coroutine has given it (Semaphore::hold, a      *)
(* pending request): the reactor itself never loses one.                   *)
SomethingToProcess ==
  LoopAt("start") /\ LoopContinues => HasActiveTasks \/ BlockedOutside

(* A coroutine that sleeps is resumed no earlier than it asked for, and    *)
(* before every sleeper that wakes later (resume_ready_sleepers, and the   *)
(* order of m_sleeping).                                                   *)
WakeInOrder ==
  [][\A i \in 1 .. Len(sleeping) :
       sleeping[i].task \in Elems(stack') =>
         /\ sleeping[i].at <= now
         /\ \A n \in Elems(sleeping') : sleeping[i].at <= n.at]_vars

(* poll() does not block until a whole millisecond past the awake time of  *)
(* a sleeper (poll_timeout, which is rounded up to milliseconds).          *)
NoOversleep ==
  [][phase = "poll" /\ phase' = "dispatch" =>
       \A n \in Elems(sleeping) : now' < n.at + Milli \/ now' = now]_vars

(* When draining succeeded only stuck coroutines are left: nothing sleeps, *)
(* polls or waits for gc(), and every frame was destroyed but those of     *)
(* background coroutines with one below them that still waits outside the  *)
(* lists, or that only the last gc() has scheduled (drain_remaining_tasks, *)
(* Fut::drop, gc).  Without such waits ~Reactor finds its lists empty and  *)
(* ~Allocator all memory released.                                         *)
NothingLeft ==
  mode = "exit" =>
    /\ sleeping = <<>> /\ polled = <<>> /\ gcList = <<>>
    /\ \A t \in Tasks : life[t] \notin {"unborn", "freed"} =>
         \E b \in background :
           /\ t \in Subtree({b})
           /\ \E u \in parked \cup Elems(ready) : u \in Subtree({b})

(* The signal handler returns when its coroutines do: no coroutine is left *)
(* waiting for something that will not come (block_on,                     *)
(* drain_remaining_tasks, final_suspend's transfer to the awaiter), unless *)
(* it waits outside the lists for something that no coroutine gives it.    *)
Terminates == <>(mode \in {"exit", "aborted"}) \/ <>[]BlockedOutside

-----------------------------------------------------------------------------
(* What a comment of the source says, and the code does not keep to. *)

(* resume_ready: "snapshot of all ready coros is taken to prevent          *)
(* deadlocks in case when the only one yield task is pushed in a loop".    *)
ReadyPhaseEnds == phase = "ready" ~> phase # "ready"
=============================================================================
