# Verification of corosig in TLA+

corosig is a C++ library for writing signal handlers as coroutines. Everything runs on
one thread, inside a fixed memory buffer, in a process that may be about to die: there is
no second thread to race with, but every suspension point is a place where any other
coroutine may run, be dropped, fail to get memory, or finish. This directory holds models
of the library's core, the TLC configurations that check them on small instances, and
proofs that TLAPS checks for every instance. `PROJECT.json` maps every definition to the
lines it models and lists runs, mutants, hazards, findings and theorems.

## 1. Inventory

| Component | State | Operations | What makes it correct |
|---|---|---|---|
| Reactor (`reactor/Reactor.*`, the four list headers) | `m_ready`, `m_sleeping`, `m_polled`, `m_gc_list`, the poll buffer, normal or fallback mode | one iteration: garbage, due sleepers, ready list, `poll`, dispatch; `drain_remaining_tasks` | no coroutine is in two lists or in none; sleepers wake in order and on time; the loop never loses what it waits for |
| Coroutines (`Coro.hpp`, `Background.hpp`, `Yield`, `Sleep`, `PollEvent`) | frame, result, awaiter, owner | call, await, drop, return, background start and end | the awaiter of a finished coroutine runs; a dropped one leaves nothing behind |
| Signal handler (`Sighandler.hpp`) | stage of the handler | main, error report, drain, exit | the handler returns and leaves nothing |
| Semaphore (`Semaphore.*`) | units in use, queue of waiters | `hold`, `try_hold`, Holder move and reset, destruction of either side | units conserved and limited, first come first granted, nobody stranded |
| Allocator (`container/Allocator.*`) | metadata in the buffer, free list, use and peak | allocate, deallocate | runs tile the buffer, free list exact, chunks disjoint and aligned |
| Combinators (`Parallel.hpp`) | futures, results, deadline coroutines | `when_all`, `when_all_succeed`, `parallel_foreach`, `with_deadline` | the right failure, nobody abandoned, resumed once and when ready, also by awaitables that outlive the combinator |
| Stream I/O (`io/posix/FdOps.*` behind File, Pipe, TcpSocket) | buffer and position of each operation, kernel queue | read/write, all, some or try; close | bytes neither lost, repeated nor reordered; operations end |
| Descriptor ownership (`io/*.cpp`, `SetDefaultOnMove.hpp`) | `m_fd` of each handle and frame | open, bind, connect, accept, move, close | one owner each, none leaked |
| CachelessResolver (`io/dns/Resolver.*`) | pending requests, sender of each, shared receiver | start, send, repeat, receive, cancel | the answer to the right question; no request forgotten |
| Memory cache (`io/dns/MemoryCache.*`, caching `Resolver`) | names tree, address headers in two indexes | prune, pull, push, destruction | the indexes agree; exactly what was pushed and is not expired |
| Combined cache (`io/dns/Cache.hpp`) | the two caches it joins | pull from the hosts file, then from memory | a lookup sees the memory cache as it is after the suspension |
| Hosts-file cache (`io/dns/HostsFileCache.cpp`) | a buffer sliding over the file, the parser's state | one turn of `parse_and_collect` | the right addresses wherever the buffer cuts the file; it ends |
| DNS names (`io/dns/Protocol.*`) | compression map; position, length and octets to consume | encode, parse, iterate over labels | what is encoded is read back; the iterator stays inside what was checked |
| DNS answers (`io/dns/Protocol.cpp`, `Resolver.cpp`) | what of the message has been consumed, addresses written | validate, consume records section by section | exactly the complete answers are taken |
| Vector (`container/Vector.hpp`) | buffer, size, capacity | push, pop, insert, erase, resize, reserve, assign, clone, move, shrink | behaves as `std::vector`, or fails and changes nothing |
| Promise, Result, UniquePtr, random, addresses, clock | | | not modelled, see section 8 |

How they interact. Awaitables end in one of the reactor's intrusive lists, or in a list of the
semaphore or of the resolver; the hooks are `auto_unlink`, so destroying a frame removes it
from wherever it waits. A `Fut` owns
its frame, so frames form trees that are destroyed from the root. The semaphore and the
resolver move their own nodes into the reactor with `Reactor::schedule`. All memory comes
from the allocator and may be refused at any call. The kernel (`poll`, sockets, pipes) and
the network are external.

What is hard here: dropping a coroutine while its node is in a batch being dispatched;
units or results handed to a coroutine that is destroyed before it runs; a deadline racing
the completion it guards; one of several steps failing for lack of memory; answers that
come late, twice, or to a reused id; size and alignment arithmetic at the boundaries. The
list, line by line, is "hazards" in `PROJECT.json`.

## 2. Plan

1. The core: Reactor with the coroutine life cycle and the signal handler; Semaphore with
   its proofs; Allocator with its abstract contract. *Done.*
2. What is built on the core: Parallel, Stream, Descriptors, Resolver, DnsCache. *Done.*
3. Data and messages: names, answers and the hosts file under the resolver; the combined
   cache; Vector. Abstract specifications for the three data structures that the rest
   builds on (HeapPromise, VectorPromise, CachePromise), shown to be implemented. *Done.*
4. Proofs of Descriptors, Resolver, Parallel and Stream, and of the allocator with its
   refinement of HeapPromise. *Done.*
5. Proofs of Reactor: its invariants and action properties. *Done.*
6. Proofs of the memory cache and of Vector: their invariants and their refinements of
   CachePromise and VectorPromise. *Done.*
7. Proofs of what answers, names and the hosts file are read to, and that names that are
   encoded are read back. *Done.*
8. Left to TLC: all liveness.

## 3. Modules

- **Reactor** - one coroutine is one element of `Tasks`. `stack` is the chain of resumed
  coroutines; when it is empty the loop runs and `phase` says where
  `do_event_loop_iteration` is. Coroutine code is arbitrary: a running coroutine chooses
  among `Yield`, `Sleep`, `Poll`, `Park`, `Wake`, `Spawn`, `SpawnBackground`, `Await`, `Drop`,
  `Return`. `Park` suspends outside the reactor's lists, as in `Semaphore::hold`, in a pending
  request of the resolver or in a `with_deadline` without frames; `parked` are the coroutines
  that wait so, and `Wake` schedules one of them. `Drop` and `Return` destroy whole subtrees
  (`Destroy`), unlinking all their nodes, and may schedule parked coroutines (`Wakings`): a
  Holder in a destroyed frame gives its units back. `ceil_to_millis` rounds the timeout of
  `poll` up to whole milliseconds, of `Milli` units of the clock. The loop's
  actions are `CollectGarbage`, `StartIteration`, `ResumeSleeper`, `SleepersDone`,
  `ResumeReady`, `ReadyDone`, `SkipPoll`, `PollOk`, `SkipEntry`, `KeepPolling`,
  `ResumePolled`, `DispatchDone`, `PollFail`. `mode` is the handler's stage. `batch`,
  `pollfds` and `left` are the local variables of `poll_and_resume_impl`, because
  coroutines that it resumes change the lists under it. `now` is the external clock.
- **Semaphore** - a task is a coroutine with its one Holder or HolderAwaiter. `free_units`
  is split (`FreeUnits`, `Grant`, `FreeDone`): the loop is atomic with respect to
  coroutines, `freeing` blocks everything else. Arithmetic wraps at `SizeT`. A waiter
  destroyed after its grant is `"lost"`: its units are never released, as in the code.
  `Owners` are the tasks that will release theirs, `Lost` the others whose units are counted.
- **Allocator** - the buffer is a row of blocks, metadata is a record in the first block
  of a run, and all helpers (`PushFreeNode`, `UnlinkFreeNode`, `SetBlocksOwned`) work on
  the heap as the C++ functions do. **HeapPromise** is what callers rely on: each chunk
  inside the buffer, aligned, disjoint from every other chunk and its metadata.
- **Parallel** - a combinator awaits `N` computations; positions in `Guarded` are wrapped
  in `with_deadline`, whose two coroutines resume the waiter from inside their frames. The
  awaitables of `when_all` and `when_all_succeed` are the caller's: they may complete before
  the combinator starts and, in phase `"finished"`, after it has returned or was dropped
  (`Abandon`), until the caller destroys them (`LeaveScope`, phase `"over"`). Since
  `m_waiting_coro` is never reset such a completion may resume a coroutine that has ended
  (`"misresumed"`), of which nothing more can be said.
- **Stream** - readers and writers with one operation each on one stream; the kernel's
  queue is bounded, transfers are short at will, poll announcements can be stale, and any
  read may fail (`ReadAgain` is EWOULDBLOCK, `ReadError` every other error).
- **Descriptors** - handles and coroutines own descriptor numbers, which the kernel reuses
  lowest first. `unbound` collects the descriptors that `connect_from` leaks (section 7).
- **Resolver** - requests, one sender each, one receiver; a message is the question it
  answers and whether it is valid. `broken` records a hook linked twice, `"spinning"` a
  loop that does not end; the thread stops there, and so does the model.
- **Vector** - a call is one action, built from parts (`Reserve`, `Push`, `PopTo`, ...)
  that each give the set of their outcomes, because any allocation may fail, and any copy of
  an element by its `clone()` (`CopyAll`); `Then` is the code's `COROSIG_TRY`. `resize` is the
  choice between the two branches of the code, for elements that are copied without failing
  (`Extend`) and others (`ExtendByCopies`), and its value may be an element of the vector.
  A cell of a buffer holds a value, nothing, or a moved-from object, and `Insert` and
  `Erase` move elements one at a time in the order of the code's loops. Of an empty range these loops move elements to themselves (`SelfMoved`).
  **VectorPromise** has only sequences: a call does what its `std::vector` namesake does,
  or returns `AllocationError` and changes nothing. The calls in `Spoilt` are excepted, because
  the code breaks them (section 7): `insert` and `erase` of an empty range and `resize` with an
  element of the vector itself. Of these it is only promised that the size is right and that
  the elements before the range, or the old ones, stay.
- **DnsCache** - the caches under the caching resolver. The methods of the memory cache do
  not suspend but are cut at every allocation, so a failure may come at each. A client
  suspends twice: in the hosts file, between `prune` and the lookup in memory, and while
  it asks the servers. **CachePromise** is a set of facts (name, address, expiry): pushed
  together or not at all, and there until they expire. The mapping takes what lookups
  reach, leaving out the headers that a push in progress may take back.
- **HostsFile** - the buffer is a window `pos .. fill - 1` of the file; each action is one
  turn of the loop in one of the parser's three states.
- **DnsName** - octets with scaled limits: `Mark` stands for 0xC0, `MaxLabel` for 63,
  `MaxName` for 255. Encoder, `parse_domain_name` and `LabelsIterator` one after the
  other on the same message. What is behind the end of a message is any octet.
- **DnsAnswer** - a message is a header (its flags packed into and taken out of 16 bits),
  a question and records with the number of fields that are really there; the actions are
  the steps of `validate_response` and `process_server_answer_impl`.
- **ReactorProofs**, **SemaphoreProofs**, **AllocatorProofs**, **ParallelProofs** and
  **StreamProofs** hold the theorems about the module each is named after,
  **ResourcesProofs** those about Descriptors and Vector, **DnsProofs** those about Resolver,
  DnsCache, DnsAnswer, DnsName and HostsFile; **BasicLemmas** has what they need of numbers, sets, sequences and recursion.
- The **MC** modules are the instances for TLC. **MCResources** joins Allocator, Vector and Descriptors, and **MCDns** joins DnsCache,
  HostsFile, DnsName and DnsAnswer: in each behaviour one of them moves and the others stay
  in their initial state, which is the sum of their state spaces and not the product. They
  share no state, so nothing is lost.

The type invariant of a module is the first conjunct of its main invariant
(`Reactor!OnePlace`, `Parallel!NoneAbandoned`, `Stream!NothingLost`,
`Resolver!PendingExact`, `Allocator!Tiling`, `Descriptors!SoleOwner`,
`DnsCache!IndexesAgree`); Semaphore's is checked and proved by itself.

## 4. Runs

| Run | Instance | What it shows |
|---|---|---|
| `reactor` | main, reporter and two more coroutines, 2 descriptors, fallback buffer of 2, delays 0 and 1, milliseconds of 2 | `OnePlace`, `SomethingToProcess`, `NothingLeft`, `WakeInOrder`, `NoOversleep`: whatever coroutines do, none is lost or resumed twice, the loop's own assertion fails only in deadlocks that coroutines make, a drain leaves only stuck coroutines |
| `reactor_live` | one coroutine besides main and reporter | `Terminates`: the handler returns, or is blocked for ever on what waits outside the lists |
| `reactor_yield` | main yields | violation of `ReadyPhaseEnds` (section 7) |
| `semaphore` | 4 coroutines, 2 units, requests of 0 to 2, two Holders each | conservation, limit, hooks, order, no stranded waiter, `WaitersServed` |
| `resources` | allocator: 8 blocks, payloads 0 to 2, alignments 1 and 4, misaligned base; vectors: 2, up to 3 elements, 3 buffers of 5 cells in all, ranges of 0 to 2; descriptors: 2 handles, 2 coroutines, 4 numbers | `Tiling`, `FreeListExact`, `Coalesced`, `UsedIsSum`, the refinements `KeepsPromise` and `KeepsItems`, `BuffersOwned`, `SoleOwner`, `NothingElseLeaks` |
| `parallel` | 3 computations, deadlines on the first and the last | first failure by position, none abandoned, `MisresumedOnlyLate`, `Finishes` |
| `parallel_deadline` | 2 computations, a deadline on the first | violation of `ResumedWhenReady` |
| `stream` | 2 readers and 2 writers of 2 bytes, kernel queue of 2 | nothing lost, errors lose nothing, `FullOrEnd`, `AllEnd` |
| `stream_write` | one writer of 3 bytes | violation of `WritesBuffer` |
| `resolver` | 2 requests, 2 questions, ids 0 to 2 | `RightAnswer`, `PendingExact`, `Resolved` |
| `dns` | caches: 2 clients, 2 names, 4 headers, clock to 1; hosts files of up to 3 lines through a buffer of 9; messages of up to 5 octets and up to 3 names in one message; answers with up to 3 records | `IndexesAgree`, the refinement `KeepsFacts`, `HostsExact`, `NamesAgree`, `EchoDecodes`, `AnswerExact`, `LookupEnds` |
| `dns_leftover` | one client that reuses its buffer | violation of `AnsweredOnly` (section 7) |

Why the bounds are enough. In `reactor` two free coroutines suffice for each of them to
own, await, drop or be dispatched before or after the other, and two nodes for a batch in
which the first resumption removes the second node. In `semaphore` four coroutines give a
holder, two waiters of different sizes and a newcomer at once. Eight blocks allow three
chunks with free runs between them, both merges, and an alignment skip. Two readers make
every poll announcement stale for one of them. Three ids with two requests allow
collisions, reuse, exhaustion of the map, and the largest id. Four headers in the cache
run out in the middle of a push. In each module a bound is a named constant.

Two vectors with a temporary one give clones and moves between all of them; three elements
and a range of two make `insert` shift across its own range, and five cells are used up by
one growth. A buffer of nine characters is longer than the ordinary lines and shorter than
most pairs of them, so it cuts lines and names at every place. Five octets hold a label, a
pointer back into it, a pointer to a pointer and a loop of two; `MaxName` of five is
reached by names of two labels. Three records are counted in every way over the sections.

`resources` uses symmetry of the vectors, and a view that leaves out the record of the
last call: no action reads it, and action properties are evaluated on every step, also one
to a state that was seen. `dns` and `dns_leftover` do not check deadlock, because a lookup
that has ended has nothing to do; `LookupEnds` says that it does end.

The `dns` instance asks for lower-case names; with mixed case the cache does not
find what it stored (section 7). In `parallel` a deadline comes first, so that a late
completion finds the combinator waiting for something else, and one comes last, so that it
finds the combinator returned; both go wrong, and `MisresumedOnlyLate` says that nothing else
does.
The `stream` run says nothing of what writers offer; that is `stream_write`.

## 5. Fairness

- Reactor: the loop is plain code, so weak fairness of `LoopStep` and of every running
  coroutine. For `Terminates`, coroutines return if resumed again and again (strong
  fairness of `Return`: a handler whose coroutines never return never ends, by design),
  the clock advances, and `poll` at times reports everything it is given (otherwise a
  coroutine waits on a silent descriptor for ever). Nothing is assumed of `Wake`: whether
  units or an answer come is up to the coroutines, so `Terminates` excepts a handler that is
  blocked on a parked coroutine.
- Semaphore: the reactor resumes, loops go on, holders release. `WaitersServed` holds as
  each coroutine asks a bounded number of times: `await_ready` does not look at the queue,
  so an endless stream of small requests could pass a large one.
- Parallel: plain tasks complete and timers fire; nothing is assumed of guarded tasks.
- Stream: resumed coroutines go on, and owners close the ends eventually.
- Hosts file and names: weak fairness of one turn of their loops, which is plain code (the
  reads of a file are answered by the kernel, with an error at worst).
- Resolver: strong fairness for the arrival of a valid answer to a query that is repeated
  for ever, and for a receiver that gets its frame now and then.

## 6. Proofs

Each theorem says of every value of the constants what a run shows of one instance. None of
the properties is inductive alone; each proof has an invariant that is (`IInv`, in the
modules that hold two proofs under names of their own), one lemma per action, and theorems
that follow from it.

**ReactorProofs**, for any finite set of coroutines and any descriptors, events, delays, poll
buffer and timeout, and any number of clock units in a millisecond: `EachInOnePlace`,
`NeverStarved`, `DrainLeavesNothing`, `SleepersInOrder` and `PollWakesInTime`. The second says
that the loop has something to process or that the coroutine of `block_on`, or one below it, is
parked; the third excepts the trees of background coroutines in which one is parked or was
scheduled by the last `gc`; the fifth allows the rounding, which `poll` overshoots by less than
a millisecond. The only assumptions are those on the constants
(`ReactorAssumption`). `IInv` has ten parts. `Placed` is `OnePlace` without counting
(`CountOnce` relates the two), with `HooksOnce` and `Garbage` for the lists. `Waiters` says
that a coroutine awaits one that it owns, and one at most; `Families` that an owner's frame
is still allocated, and that only background coroutines and the handler's two have no owner.
`Forest` says that ownership has no cycles, as a statement about sets: some member of every
set is owned by none of the set, and some member owns none of the set. `StackOrder` says that
of two running coroutines the upper one does not own the lower one, directly or not, and that
only the lowest may be awaited. `Handler` ties the mode of the signal handler to its two
coroutines, and `Times` has the order of the sleepers and `sampled <= now <= MaxTime`.

The heart of it is destruction. `SubtreeProperties` shows that `Subtree(R)` is the least set
with `R` that is closed under ownership, and `DestroyStep` that destroying such a set keeps
`IInv` if the set holds no running coroutine and with an awaited coroutine the one awaiting
it. Every action that destroys is brought to that form: `BelowTop` for what the running
coroutine owns, which `StackOrder` shows not to be running, and `BelowRoots` for what the
handler and `gc` destroy. `NeverStarved` and `DrainLeavesNothing` use `Forest` in its two
directions: from an unfinished coroutine down the awaited ones to one that is in a list or
parked (`InvSomethingToProcess`), and from any frame that a drain leaves up its owners to a
background coroutine and down again to what it is stuck on (`OnlyStuckLeft`). `WhoRuns` lists what a step can put on the stack, from which the order
of the sleepers follows. That unlinking keeps order and multiplicity (`KeptProperties`) is an
induction over the list, done with `NatSetInduction`.

**SemaphoreProofs**, for any finite set of coroutines, any limit and any requests:
`TypeCorrect`, `UnitsConserved`, `ParallelismLimited`, `HooksLinkedOnce`, `NobodyStranded`
and `ServedInOrder`. Assumptions: those on the constants (`SemaphoreAssumption`) and
`NoWrap`, that limit plus request is below 2^64; without it `would_block` lets a huge request
in and the theorems are false. `IInv` joins the types, `UnitsKnown` (units are zero for
coroutines that have neither Holder nor awaiter; a queued request is within the limit, as
`hold` asserts), `LinkedOnce`, `Conservation` and `Contended` (when somebody waits and no
release is under way, the counter is positive). `LinkedOnce` is needed for `Conservation`:
only if a granted awaiter is linked once are its units counted once. `Conservation` is needed
for the types: a release subtracts units that the counter contains, so it does not wrap.
`Contended` is `NoStrandedWaiter` told from the counter, which `Conservation` turns into
tasks whose units are counted: if none is lost, one is alive and will release. With lost units
the conclusion is false, and `NobodyStranded` claims it only without.

**AllocatorProofs**, for a buffer of any size at any address, any alignments and any
payloads up to the size of the buffer: `RunsTile`, `FreeListIsExact`, `GapsAreWhole`,
`MemoryIsCounted` and the refinement `ImplementsPromise`. Assumptions: those on the constants
(`AllocatorAssumption`) and `NoWrap`, that no payload is so large that the computation of the
blocks needed wraps. With one that does, `allocate` takes a run of no blocks (section 7) and
the theorems are false. `IInv` is `SoundHeap` and `Accounts`. `SoundHeap(h, S, F)` says that
the runs with heads `S` tile the buffer, each knowing its length and the one in front; that
the links form a list without repetition of the free heads `F`; that no two free runs touch;
and that a run in use is linked nowhere, which no property says but without which the
`unlink_free_node` in `deallocate` could take out somebody else's links. `Accounts` says that
every run in use is as long as its caller asked for plus its metadata, which is what makes
chunks disjoint. The argument goes bottom up. Each assignment to a field is `Edited`; each
helper of the code has a lemma that says what it changes and what it leaves (`Resized`,
`Initialized`, `Pushed`, `Unlinked`); on these rest the lemmas on splitting and merging runs
(`SplitTiled`, `MergeTiled`) and on the list (`LinkedFront`, `LinkedBack`, `UnlinkMember`);
on those the two halves of `allocate` (`SkipStep`, `TakeStep`) and the two merges of
`deallocate` (`JoinPrevious`, `JoinNext`). `Overlay` shows that what callers write into their
chunks does not matter, `Aligned` and `Needed` are the arithmetic of alignment and size, and
`FreeNodeDef` shows that the walk of `allocate` visits the list in order.

**ParallelProofs**, for any number of awaitables, with deadlines anywhere and awaitables that
outlive the combinator as long as they like: `AllAwaited`, `ReportsFirstFailure` and
`ResumedWrongOnlyLate`. `IInv` adds to `NoneAbandoned` the state of the loop (which results have
been collected) and that only guarded positions have frames of deadlines. `LateIInv` adds what
is true of results already collected (`OutsTrue`, `ResultsTrue`): that of a plain awaitable is
the one its task has, and a reported deadline is one whose timer has woken, although a guard
that completes later may have replaced `m_result` by its value. That guard is the only one that
finds the combinator in something else, unless the combinator was dropped while it waited.

**StreamProofs**, for any readers, writers and sizes: `StreamKeepsBytes`,
`ErrorsLoseNothing`, `ShortOnlyAtEnd`. `IInv` adds that the buffers are typed, that a writer
in its loop has not written everything, and that a woken reader without competitors finds
data or the end. `NothingLost` is stated by positions (the buffer of a reader holds, in
order, the positions of the stream it took, counted by cardinalities), a form that an append
to the log of taken bytes preserves one index at a time.

**ResourcesProofs**, descriptors, for any handles, coroutines and numbers: `OneOwner` and
`OnlyUnboundLeaks`. They are inductive together with `UnboundStayOpen`: an owner's descriptor
is open, so the number the kernel gives next is nobody's.

**ResourcesProofs**, vectors, for any vectors, values, ranges and bounds:
`VectorOwnsBuffers` and the refinement `VectorKeepsItems`, which says of the spoilt calls only
what `VectorPromise` does. The only assumptions are those on
the constants (`VectorAssumption`). The inductive invariant is `Sound`, and that no vector is
being built between two calls. `Sound` is `BuffersOwned` for the temporary vector too, with
the types: size and capacity fit the buffer, what is behind the last element needs no
destructor, every buffer that is allocated has a vector and no two vectors have the same.
`Becomes(s, t, v, xs)` says that from `s` to `t` only `v` changes, to the elements `xs`; each
part of a call has a lemma of that form (`ReserveSound`, `PushSound`, `ResizeSound`,
`MoveAssignSound`, `ShrinkSound`, `CopiedSound`, `InsertSound`, `EraseSound`), and a call
chains them (`BecomesThen`). A part that fails gives the memory it was given, but for the
buffer that a vector may already have been given and the temporary one. `RoomMadeSound`,
`SelfMovedSound` and `InsertNothing` are about empty ranges, `ResizeOwnKeeps` about a value whose
place is reallocated under it, and `SparedKeeps` and `KeepsSpoilt` turn both into the promise. The loops
are the hard part: `ShiftedExact` says which cells `insert` has moved after `m` turns, so that none is
overwritten before it has moved, and `ErasedCells` what `erase` has moved and what it leaves
behind, a cell that was destroyed or moved from. Each call then has a lemma that relates its
effect to `VectorPromise` (`PushKeeps` to `MoveKeeps`), and `CallKeeps` turns them into steps.

**DnsProofs**, resolver, for any requests, ids and questions: `PendingIsExact` and
`AnswersOwnQuestion`, with `NoResultYet` (a request enters the list without a result) and
`SendersServe` (a sender that fails takes its own request, still suspended, out of the list).

**DnsProofs**, memory cache, for any clients, names, headers and any failed allocation:
`CacheIndexes`, and the refinement `CacheKeepsFacts` under `AskedLower`, that names are asked
for in lower case. Without it the refinement is false: `push` looks a name up as given and
stores it in lower case (section 7). `CacheIndexes` needs no such assumption. `CacheInv` has
`NamesLinked` (the list of each name is its headers, without repetition), `ExpiryLinked` (the
second index has every header but those that a push in progress made, in the order in which
they expire) and `PushLinked` (those headers belong to the name that is being pushed, and can
be taken back). `FactsInv` adds `NamesOrdered`, that the names of the
tree stand in strictly increasing order (so that none occurs twice), and `PushFresh`, that a
push under way is about the name it was asked for and that neither what it has still to store
nor a header it made has expired; from it follows that a lookup reaches the headers that are
not expired and no others, which is the set `Visible`. `prune` stops at
the first header that is not expired; that it leaves nothing behind rests on the order of the
index, by the counting argument `Boundary`.

**DnsProofs**, answers, for any messages, families and sizes of the caller's buffer:
`AnswersTakenExactly`. Assumptions (`AnswerAssumption`): sizes and counts are natural numbers,
and the fields of a header fit their bits, which `set_bitfield` asserts. `AnswerInv` says in
each phase what has been checked so far, and that `got` is the first `size` of the wanted
records among those consumed, in order (`Collected`, by the rank of each entry, so that one
more record changes one entry at most). `SetExact` shows that setting a field sets it and
leaves the fields above it, by division, and `FlagsRead` that reading the flags gives what the
server wrote, whatever was there before.

**DnsProofs**, names, for any messages and starts, any pointers in them and any lists of
names to encode: `NamesReadAsWritten`. Assumptions (`DnsNameAssumption`): messages and names
are sequences of octets and dots, and the limits are in their order. The iterator over the
labels checks nothing, so its safety rests on what `parse_domain_name` saw. `Way` is the path
of positions and labels that a message prescribes from a start; it does not depend on who
takes it. `Parsing` says that the parser has come such a way, `Walking` that the iterator is
on the one the parser completed, with the root label at its end, and `IteratorThere` that at
every position of it the iterator can do one thing only. `Aligned` is about
`bytes_to_consume`: up to the first pointer, all octets seen are the name in place, and the
remainder of a sum is the remainder of sums of remainders (`Uint8Sum`). `LabelOctets` and
`PointerOctets` show that what the encoder writes is octets, so a message that it wrote is one
that the parser may be given.

**DnsProofs**, names that are encoded, for any lists of names, any choice among the nodes of
the compression map that stand for the same rest of a name, and any nodes that it had no
memory for: `EncodedNamesDecode`. What a position of the message stands for is not a function
that could be defined without recursion; `EchoInv` says instead that there is a set of pieces
(a position, the rest of a name that begins there, and the name in whose octets it lies), which
contains the beginning of every name and the label of every node of the map (`StoredIn`), and
of which each piece but the one being written is filled by a root label, by a label that the
next piece follows, or by a pointer to a piece that begins with a label (`Filled`). Adding
octets leaves the pieces that are there (`PiecesStay`). That no pointer leads to a pointer is
what keeps `parse_domain_name` from taking one for a loop. `ReadingAt` says where a reader is:
at the piece for the rest of its name, with the labels before it in order, told by their rank
(`Spelled`), and with a count of octets in place that the octets of the whole name exceed, which
is why the `uint8_t` cannot wrap. That the labels are those of `split_into_labels` rests on
`LabelBegun`, `LabelFits` and `NameEndsThere`: what is left of a name tells whether a label is
next and which. The reader gives up on the names that `EchoDecodes` excepts and on no others,
those whose encoding is longer than the limit although their string is not (`EchoLabelFails`).

**DnsProofs**, hosts file, for any files, names, room for addresses and size of the buffer:
`HostsReadExactly`. Assumptions (`HostsFileAssumption`): files and names are sequences of
characters, and the buffer has room for one. `HostsExact` itself says which files it is about:
their lines end and fit the buffer, and the name that is sought has a character. `HostsInv`
says where a lookup is, `ScanOK`, in each of the parser's three states: at the beginning of a
line (`AT_IP`), at a blank behind a word of a line whose first word is an address and that no
comment sign has cut so far (`AT_NAME`), or somewhere in a line that gives nothing more
(`SKIPPING_LINE`); and that the addresses found are those of the words up to there,
`FoundUpTo`, told by the rank of each such word, so that a turn which passes no word changes
nothing (`NoneBetween`) and one which passes one appends one (`OneBetween`). That the buffer
never cuts a word in two is `TokenThere`: since the rest of a line fits what
`read_to_free_buffer` fills, `skip_ws` and `find_next_ws` stop at or before its line feed.
`TokenStarts` says that a turn meets at most one word and `AddressAfter` that all words behind
the first of a line have the same address.

**BasicLemmas** has induction over the natural numbers as a statement about sets
(`NatSetInduction`, from the well-foundedness of finite subsets, and `UpTo` for an interval),
the existence of functions defined by recursion (`Iterate`), the least element of a set of
numbers, and appending to, prepending to, inserting into and removing from sequences without
repetition.

Only model-checked is all liveness (`Terminates`, `WaitersServed`, `Finishes`, `AllEnd`,
`Resolved`, `LookupEnds`): fairness and `ENABLED` are outside what the prover does.

## 7. Findings and observations

Shown by runs that end in a violation:

- **`resume_ready` takes no snapshot** (`reactor_yield`). The comment at
  `Reactor.cpp:208` promises one; the loop runs until the list is empty, and a coroutine
  that yields in a loop starves sleepers and descriptors.
- **`write` repeats the beginning of the buffer** (`stream_write`). After a short write
  `FdOps.cpp:66` passes the whole buffer again.
- **A timed-out `with_deadline` resumes its waiter a second time** (`parallel_deadline`).
  When the task completes late, `Parallel.hpp:149` resumes the coroutine that awaited it,
  which may be suspended in something else by then; `Coro.hpp:299` asserts otherwise. When
  the combinator has returned, or was dropped, and the caller's awaitable is still there, the
  same line resumes a coroutine at its final suspension point or one that was freed.
- **The caching resolver stores what was not resolved** (`dns_leftover`).
  `Resolver.hpp:266` pushes the whole buffer of the caller. What an earlier call for
  another name has left behind the new addresses is stored under this name.

Met while modelling, from reading; the models contain the behaviour where they cover the
code, and the properties are stated around it:

- Semaphore: units granted to an awaiter that is destroyed before it runs are lost
  (`Semaphore.hpp:59`), and then `~Semaphore` asserts; destroying the front waiter does
  not look at the next one; `would_block` wraps (`Semaphore.cpp:68`).
- Reactor: `block_on` returns when its future is ready with other tasks left, where
  `Coro.hpp:256` says "and there is no more tasks in reactor"; a failed drain is ignored
  (`Sighandler.hpp:24`); results of `poll` are matched to nodes by descriptor alone
  (`Reactor.cpp:166`), so after a removal a node may take the result of another node of
  the same descriptor; with the fallback buffer the nodes beyond it wait for the first. The
  assertion at `Reactor.cpp:71` fails when `block_on` waits for a coroutine that is parked in
  `Semaphore::hold`, in a pending request whose sender and receiver are gone, or in a
  `with_deadline` for which no frame could be allocated. The last `gc` of a drain may destroy a
  Holder and so schedule a waiter that nobody resumes any more: `~Reactor` asserts that
  `m_ready` is empty. Rounding the timeout up lets `poll` block up to a millisecond too long.
- Background: a refused allocation leaves the flag set that `Background.hpp:82` asserts.
- Allocator: a chunk of size zero may point to the end of the buffer, which `deallocate`
  asserts against; the size computation wraps for sizes close to 2^64.
- `with_deadline`: resuming the waiter may destroy the running frame; if neither frame can
  be allocated the waiter is never resumed; a late value replaces the timeout.
- Descriptors: `connect_from` leaks its descriptor when `bind` fails
  (`TcpSocket.cpp:124`); `accept` returns the second `EWOULDBLOCK` as an error.
- Resolver: the loop against id collisions never changes the id (`Resolver.cpp:152`) and
  spins when all pending ids are the largest; a send that fails after the answer came
  schedules the request twice; a refused frame for the sender goes unnoticed.
- Cache: `push` looks a name up as given but stores it in lower case
  (`MemoryCache.hpp:288`), so mixed case adds a second header; a name whose addresses have
  all expired when they are pushed keeps a header that `prune` never comes to.
- Hosts file: a last line without a line feed is lost, or skipped by one character more
  than there is, against which `adwance` asserts (`HostsFileCache.cpp:158`); a line as long
  as the buffer ends the search; the array of delimiters includes its terminating zero, at
  which the loop over names makes no progress. An empty name would be found behind a blank at
  the end of a line. `HostsExact` and `HostsEnds` name these.
- Names: of compression pointers that form a loop only those through the first pointer are
  found (`Protocol.cpp:143`); the encoder accepts names up to two octets longer than the
  decoder; a name of 256 octets in place is consumed as one of none.
- Answers: types and classes are compared by their low octet (`Protocol.cpp:359`).
- Streams: `read` returns a short count after any error, not only at the end of the stream
  (`FdOps.cpp:37`); the error itself is dropped.
- Vector: inserting or erasing an empty range moves what is behind it to itself and destroys
  it, or leaves it moved from (`Vector.hpp:236` and `261`; the tests in
  `test/cases/container/Vector.cpp:498` use a type that survives it), and inserting nothing at
  the front does not return, as the index wraps; `resize` with an element of the vector reads
  it after its buffer was released; `resize` reserves `size() + count`; the
  condition of the growth in `insert` is the wrong way round, so it reserves when there is
  room and grows to the exact size when there is none; `erase` leaves moved-from objects
  undestroyed.

## 8. Not modelled

Result, Variant, error types and concepts (values without state); UniquePtr and
StdAllocator (they forward to the allocator); the random generator (any id may come out,
and its arithmetic is a matter of test vectors); socket address conversion and byte order
(conversions without state); the standard streams (they forward to what Stream models).
Promise cannot be awaited as it stands: `Promise.hpp:95` assigns to a member that does not
exist, so the template does not compile when used, and there is no behaviour to model.
In DnsCache, moving a cache and two address families at once are left out; in DnsAnswer,
the octets of fields other than names; in Stream, file offsets; in Vector, rvalues and
ranges that lie in the vector itself, which `std::vector` forbids too.
Two hazards have no property: the flag of `Background.hpp:82`, which is set only after an
allocation has failed and only read by an assertion, and the wrap of `Semaphore.cpp:68`,
which the proofs exclude by `NoWrap`.
