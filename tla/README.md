# Verification of Wx_coroutine_lib

The repository grows a C++ coroutine library in six lesson stages; `src/6hook` is the
last one and holds the whole library: fibers on `ucontext`, an N-thread scheduler, timers,
an epoll-driven `IOManager`, and hooks that turn blocking calls into fiber switches.  The
modules here model that stage, and in `Lesson` the fibers and the scheduler of the stages 2 and
3, which differ from it.  Stage 5's `fiber.cc`, `schedule.cc`, `iomanager.cc` and `thread.cc`
are those of stage 6, and its and stage 4's timers differ from stage 6's in details of the
interface only.  Paths below are relative to `src/6hook` unless they say otherwise.

## 1. The system

| part | state | operations | interacts with |
|---|---|---|---|
| `Thread`, `Semaphore` (thread.cc) | thread id, callback, start semaphore | constructor waits for `run`, `join` | created by `Scheduler::start` |
| `Fiber` (fiber.cc) | `m_state` (READY, RUNNING, TERM), context, `m_mutex` | `resume`, `yeid`, `reset`, `MainFunc` | resumed by `Scheduler::run` under `m_mutex` |
| `Scheduler` (schedule.cc/.h) | `m_tasks`, `m_stopping`, active and idle counts | `scheduleLock`, `run`, `start`, `stop`, `stopping` | calls the virtual `tickle`, `idle`, `stopping` |
| `TimeManager`, `Timer` (timer.cc) | `m_timers` (a set ordered by deadline), `m_tickle`, `m_cb` of each timer | `addTimer`, `cancel`, `refresh`, `reset`, `listExpiredCb`, `geteralistTime` | calls `onTimerInsertedAtFront` = `tickle` |
| `IOManager` (iomanager.cc) | epoll set, tickle pipe, `m_fdContexts`, `m_pendingEventCount` | `addEvent`, `delEvent`, `cancelEvent`, `cancelAll`, `idle`, `tickle`, `stopping` | is a `Scheduler` and a `TimeManager` |
| `FdManager`, `FdCtx` (fd_manager.cc) | table of descriptor contexts, timeouts, non-blocking flags | `get`, `del`, `setTimeout` | used by the hooks |
| hooks (hook.cc) | `t_hook_enable`, original functions | `io_do`, `connect_with_timeout`, `sleep`, `socket`, `close`, ... | `addEvent`, `addTimer`, `yeid`, `FdManager` |
| first fibers and scheduler (`src/2fiber`, `src/3schedule`) | `t_fiber`, `t_scheduler_fiber` and the other globals, contexts, `m_tasks` | `resume`, `yeid`, `reset`, `scheduleLock`, `run`, `stop` | one thread executes them all |

Every worker thread executes `Scheduler::run()`: it scans the queue, locks the mutex of the
fiber it takes, resumes it, and otherwise resumes its own idle fiber, which is
`IOManager::idle()`: ask `stopping()`, compute a timeout, sleep in `epoll_wait`, push the
callbacks of expired timers, trigger the reported descriptors, yield.  The thread that built
the scheduler joins in when it calls `stop()`.

What is hard here is what several threads do to shared state between two locks: the fiber
whose state says READY before its context is saved, the counters that are plain `int`s, the
four separate reads that make up `stopping()`, the edge-triggered tickle pipe, the timer set
that knows deadlines only, and `reset()`, which lets go of the lock half-way.  `PROJECT.json`
lists each of these hazards at its line.

What makes each part correct:

- *Fiber*: on one thread at a time; `resume()` only from READY; TERM is final.
- *Scheduler*: a scheduled fiber is run; `stop()` returns, and when it does nothing that was
  scheduled or registered is left; the active count is exact.
- *Timers*: a cancelled callback is not extracted any more; a one-shot fires once; a
  recurring timer stays in the heap; nobody sleeps past the earliest deadline.
- *Event table*: a registration is scheduled once and never lost; the pending count equals the
  registered events.
- *Hooks*: a fiber that waits has exactly one cause to be woken; a blocked call returns when its
  descriptor is ready, or with a timeout.
- *FdManager*: a context is stored inside the table and stays until its descriptor is closed; no
  call blocks on the table's lock for ever.
- *Threads*: `start()` returns and knows every thread's id; `stop()` leaves behind no task whose
  thread was still at work when it was pushed.
- *First fibers*: `t_fiber` names the running fiber; a context holds its own stack; `stop()` lets
  every queued fiber run, if the queue is used with care.

## 2. Modules

| module | models |
|---|---|
| `TaskPool` | what a scheduler promises, with no threads: a requested fiber is run or found finished, by one runner at a time; the pool closes when no request is left.  `Scheduler` and `Startup` implement it |
| `Registry` | what the event table promises, with no table: a direction of a descriptor is a place for one waiter, who leaves it by being scheduled.  `EventTable` implements it, `HookIo` is its client |
| `Scheduler` | the worker threads, the queue, fibers and their mutexes, the idle loop, and `stop()` |
| `MCScheduler` | symmetry sets for TLC |
| `SchedulerProofs`, `SchedulerShutdownProofs` | theorems about `Scheduler` |
| `TimeManager` | the timer interface under concurrent users, and the pollers' rounds |
| `MCTimeManager`, `TimeManagerProofs` | its instances and theorems |
| `EventTable` | `addEvent` racing over `m_fdContexts`, the epoll interest list, and the handling of reports in `idle()` |
| `MCEventTable`, `EventTableProofs` | its instances and theorems |
| `HookIo` | the calls that wait: `io_do`, `connect`, the sleeps, with `addEvent`, the condition timers, `cancelEvent`, `close` |
| `MCHookIo`, `HookIoProofs` | its instances and theorems |
| `FdManager`, `FdManagerProofs` | the table of `FdCtx`s, its `shared_mutex`, and the hooks that consult it without waiting |
| `Startup`, `StartupProofs` | `Thread`, `Semaphore`, the constructor, `start()`, `stop()` and destructor of a plain `Scheduler`, whose threads wait on `m_cond` |
| `Lesson`, `LessonProofs` | `src/2fiber` and `src/3schedule` on one thread |

`Scheduler` keeps the program counter of each thread (`pc`): `scan` is the queue loop of
`run()`, `dispatch` the wait for the fiber's mutex, `fiber` user code, `swap` the window
between writing the state and `swapcontext`, `finish` and `store` the decrement, `idle` the
entry to the idle fiber, `ask1`..`ask3` the reads of `stopping()`, `wait` `epoll_wait`,
`timers` and `collect` the loops after it, `settle` the decrement of the pending count.
`mustTickle[t]` says that the next step of `t` is the `tickle()` that its last step, after
releasing a lock, still owes.  Each action is what the code does between two points where
another thread can observe or change something: a critical section, or a single unlocked read
or write.

Abstractions of `Scheduler`:

- A callback task is a fiber, because `run()` wraps it in one before resuming it.
- A registration (descriptor event or timer) is the fiber it will schedule: `armed[f]`.  A
  timer callback that schedules a sleeper (the sleep hooks) is a fiber that posts another.
- The several `tickle()` calls of `stop()` are one: a pipe that is already readable stays so.
- The pipe is one bit: it is edge-triggered and drained by whoever wakes.
- With `Races = FALSE` counter updates are atomic.  With `Races = TRUE` the decrement is a load
  and a store, and `hasIdleThreads()`, which reads a racing `int`, may answer anything.  Only
  `m_activeThreadCount--` is split; splitting the increments would lose updates in the same way.
- `InitialCounts` are the values the two uninitialised counters may start with.  Liveness assumes 0: with any
  other active count `stopping()` is never true (schedule.h:92).
- `m_stopping`, a plain `bool` read under a mutex but written without, is atomic.

`TimeManager` keeps the heap as a set of timers with unique deadlines (`Inserted` and `Twins`
behave like `std::set::insert` and `find` under a comparator that sees deadlines only).  The
constructor's and `reset`'s reading of the clock are merged with the insertion that follows.
The clock does not roll over (it is `steady_clock`), the truncation to milliseconds of
`geteralistTime` is left out, and calls that fail without changing anything are stuttering.
If a deadline changes while the timer is in the heap (two resets and a refresh with a shared
deadline), the real tree would be out of order; the model goes on as if it were sorted.

`EventTable` numbers the `FdContext`s made for a descriptor: `gen[fd]` is the newest, which is in
the table while `fd < size`; a context that `resize()` dropped is an older number, or the newest
while `fd >= size`, and is still what epoll hands back.  A slot is one direction of one context;
`armed` are the bits of `events`, `waiter` the `EventContext`s, kept apart because the code
triggers directions whose bit is not set.  `interest` is the kernel's interest list, for which
`EPOLL_CTL_ADD` fails on a descriptor it has and `MOD` on one it has not.  The poller's steps are
`Wait` (the array `epoll_wait` fills, at most `MaxEvents` descriptors) and, per entry,
`Ignore` or `Handle`, each one critical section of `FdContext::m_mutex`.  `addEvent` is `Lookup`
and `Grow` (its two table locks) and `Refuse` or `Register` (the context's mutex).  `Scheduler`
abstracts all this to `armed[f]`, and `HookIo` to what `Registry` says.  The model leaves out a
registered descriptor that is closed (`cancelAll` does nothing, so the registration stays and
`stopping()` with it), the arithmetic of `EPOLLET` (a readiness is reported again after every
registration), and calls of `delEvent`, `cancelEvent` and `cancelAll` with a descriptor beyond the
table, which read out of range.

`HookIo` follows each fiber (`pc`): `app` is user code, `raw` the original function, `try` the call
on a descriptor that FdManager manages, `add` the call of `addEvent`, `yield` the time between being
registered and `yeid()`, `check` the code after the wait.  `waiter` is who is registered for a
direction, `timers` are the timers the hooks added and nobody cancels (the variable that should
name them stays null), `queued` the task queue.  `Scheduler` and `EventTable` are abstracted to
what they promise: a fiber that is queued is resumed by one thread at a time once it has yielded
(`TaskPool`), a registration is reported once (`Registry`).  Expiry may come at any time.  Decisions:

- Whether a thread has its hooks on (`Hooked`) is chosen before `run()`; a fiber that waits may
  come back on a thread that has not.
- What `FdManager` knows of a descriptor is chosen at the start: `get(fd, true)` creates nothing for
  a descriptor below the size of the table, so that in this code a socket gets a context with
  `m_isSocket` only when the application calls `init()` on one.
- `cancelEvent`, `cancelAll` and `delEvent` keep their early return `fd > size()` with the table size
  as a constant; for descriptors of the table they never do anything.
- A call's timers carry its number; several timers of one call are one, because only the first
  that fires has an effect.  `cancelled` holds the number of the timer that set it, not just a truth
  value, so that `NoForeignTimeout` can say that it is the number of the call that is marked.
- `addEvent` may fail at any time: the direction is taken, or `epoll_ctl` refuses.
- `io_do` falls off its end without a return statement after a wait: the value is undefined and no
  property reads it.  Values and `errno` are left out.

`FdManager` splits `get()` where other threads can come between: the look under the shared lock
(`Beyond`, `Look`), the copy of the `shared_ptr` (`Retain`), the resize under the exclusive lock
(`Grow`, `SelfLock`).  `seen` is the size a thread found too small.  A context that is copied after
its last reference has gone is `Dangling`; using it gives any outcome.  `SelfLock` is `init()` on a
socket: it calls `fcntl`, whose hook calls `get()` on the same thread while it owns `m_mutex`.  That
is undefined; glibc's lock detects it (`Detects`) and the exception leaves the hook.  Kept as the
code has it: the timeout 0 is stored like any other (hook.cc:567), `fcntl` sets `sysNonblock` where
`ioctl` sets `userNonblock` (hook.cc:444), `!(flags)&O_NONBLOCK` (fd_manager.cc:34) is 0, so that
`init()` never makes a socket non-blocking, and the hooked `close()` never calls `close_f`.

`Startup` has a program counter per thread.  `next`, `id`, `count` and `ids` are the handshake
of `Thread`'s constructor; `Starting` says that `start()` holds `m_mutex`.  `t_scheduler` is one
plain global in the source, hence one variable.  The application and every task may push a task for
any thread, also for one that has left `run()`: such a task is `Stranded`, nobody takes it, and it is
still queued when `stop()` has returned.  To `TaskPool` it is no request (`Requested`).

`Lesson` names stacks after fibers: `saved[f]` is the stack that `f`'s `m_ctx` holds, `cpu` the
running one.  `src/3schedule` keeps `t_fiber` and the like in globals shared by all threads, so only
`threads = 1, user_caller = true` has a defined meaning (the lesson's own test asks for three
threads, which race on those globals).  `scheduleLock` and `reset()` ask nothing of a fiber, so the
model schedules fibers that are queued already, that run, or that have ended, and a fiber that yields
goes on only if somebody schedules or resumes it again.  A fiber is resumed from the context of its
own kind only (main for direct fibers, the scheduler's for tasks); from the other one `swapcontext`
would store the wrong stack.  `m_stopping` is uninitialised and starts with any value.  The idle fiber is READY again
after its last yield, so `run()` is never left by its `return` and `stop()` does not come back: the
code after it is not reachable and not modelled.

## 3. Runs

| run | constants | shows |
|---|---|---|
| `SchedulerLive` | 2 threads, 2 fibers, events, atomic counters from 0, fairness | `NothingAbandoned`, `StopReturns`, `ImplementsFairPool` |
| `SchedulerAnyCount` | 2 threads, pinned tasks, racing and stale counters | `FiberOnOneThread`, `ResumeReady`, `ImplementsOpenPool` |
| `OneTimer` | 2 users, 2 pollers, 1 timer, fairness | `NotForgotten`, `CancelFinal`, `DueServed` |
| `TwoTimers` | 1 user, 2 pollers, a one-shot and a recurring timer | `OneShotOnce`, `NoLateTimer` |
| `EventTable` | 2 users, 2 pollers, 2 descriptors, 3 calls, fairness | `Conserved`, `Watched`, `ImplementsRegistry`, `Served`, `ReadersCounted` |
| `HookIo` | 2 fibers, 2 threads, one hooked, 1 descriptor, 2 calls, fairness | `Wakeable`, `NoForeignTimeout`, `UsesRegistry`, `AllEnd` |
| `FdManager` | 2 callers, 2 descriptors, 3 calls, fairness | `EntriesSurvive`, `CallsEnd` |
| `Startup` | 2 threads and the caller, 3 tasks, fairness | `IdsPublished`, `ImplementsPool`, `StartReturns`, `CallerServes` |
| `Lesson` | 3 scheduled fibers, 1 direct, 4 calls of `scheduleLock`, 3 yields and resets, fairness | `CurrentIsExecuting`, `ContextsOwn`, `StopServes` |

Each run also checks the type invariant of its module, except `SchedulerLive` and `TwoTimers`, whose
modules have theirs in `SchedulerAnyCount` and `OneTimer`.

`SchedulerLive` is about what `stopping()` does with a count that is right: the code's is not, as
`SchedulerCount` shows, and `SchedulerAnyCount` runs with lost decrements, other
first values, timers and pinned tasks, and shows what holds anyway.  `StopServes` has the faults of
`src/3schedule` as hypotheses: no fiber is queued for any thread (-1, the default of `scheduleLock`,
on which `run()` spins), none is queued after its end (the process ends when it is resumed), and
`m_stopping` was false at first.  What is left says that no queued fiber is passed over, in whatever
order fibers schedule themselves and one another, before the process exits from inside `stop()`.

`NotForgotten` is checked for one timer only: with two, the shared-deadline defect below makes
it false; that nothing else does is a theorem (`OnlyTwinsForgotten`).  `ReadersCounted` is about the
behaviours of the run in which nobody asks for `WRITE`: in the others two pollers get
`m_pendingEventCount` wrong, as the table below says.

Runs that exhibit a disagreement between the code and what the repository says of it:

| run | what happens |
|---|---|
| `SchedulerCount` | the unlocked `m_activeThreadCount--` (schedule.cc:199) of one thread overwrites the increment of another: the "number of active threads" (schedule.h:91) is 0 while a thread holds a task |
| `RecurringDropped` | two recurring timers with the same period that expire in one round: the second is dropped from the set (timer.cc:319) |
| `HookTimeout` | the timer of a blocked read expires and the fiber is not woken, because `cancelEvent` returns at once (iomanager.cc:164); with a silent peer the call never returns |

Other disagreements that the modules reproduce under the constants given, without a configuration
of their own; the formulas are in the modules:

| where | what happens |
|---|---|
| iomanager.cc:326, `NothingAbandoned` with `Kinds` containing timers | `stopping()` reads the timers first and the queue afterwards: a fiber that arms a timer in between is abandoned by `stop()` |
| schedule.cc:227, `WakeupNotLost` | a worker between an empty scan and `m_idleThreadCount++` is not tickled; with all workers asleep the task waits for the epoll timeout |
| schedule.cc:171, `StopReturns` with `Targets = {t1, anyone}` | under an IOManager, a task for a thread that has left `run()` is never taken, `stopping()` stays false and `stop()` does not return, even with exact counters |
| schedule.cc:171, `Stranded` in `Startup` | in a plain scheduler the same task is left in the queue when `stop()` returns |
| schedule.h:92, `StopReturns` with `InitialCounts` other than `{0}` | with another first value of `m_activeThreadCount` `stopping()` is never true |
| timer.cc:245, `CancelRemoves` | `cancel()` inside the unlocked window of `reset()` leaves the timer in the heap |
| iomanager.cc:313, `PendingExact` with two pollers | a report of both directions, handled after another poller has unregistered one of them, decrements `m_pendingEventCount` twice; as a `size_t` it wraps |
| schedule.cc:134, `Startup` | the base class waits on `m_cond`, which nobody notifies: without spurious wake-ups the workers of a plain `Scheduler` that once slept never leave, and `stop()` waits for them |
| schedule.cc:83, `Startup` | with `user_caller = false` the assertion of `stop()` fails always, because `t_scheduler` names this scheduler on every thread |
| fd_manager.cc:75, `Resized` in `FdManager` | a resize decided on an older size cuts contexts of open descriptors off the table |
| fd_manager.cc:83, `Erase` in `FdManager` | `del()` writes the table under a shared lock; a context that another thread is copying may be gone (`Dangling`) |
| src/3schedule/schedule.cc:129, `Spin` in `Lesson` | tasks pushed with the default thread -1, as in src/3schedule/test.cc:60-80, are never run: `run()` does not get past the first of them, nor does `stop()` return |
| src/2fiber/fiber.cc:81, `ResumeIdle` in `Lesson` | the idle fiber is READY after its end, so `run()` resumes it again and the process ends inside `stop()`; src/3schedule/day3.md:69 speaks of threads that leave correctly |
| src/3schedule/schedule.h:77, `StopEarly` in `Lesson` | `m_stopping` is uninitialised: `stop()` may return at once with everything unrun |

Bounds.  `MaxRequests` counts the calls of `scheduleLock`, `addEvent` and `addTimer` by user
code, `MaxCalls` those of the timer interface, `MaxTime` the clock; `extracted` stops counting
at 2.  Two fibers and two threads are enough for every pair of steps of `run()` to
interleave, for a fiber to be queued twice, to be queued while it runs, and to be found
terminated; two users and two pollers do the same for the timers.  Safety runs use symmetry of
the created threads (never when tasks are pinned) and fibers, liveness runs none.  Three calls on
descriptors 2 and 4 with a table of 2 entries are enough to grow the table, shrink it again below a
registered descriptor, make a second context for that and have epoll refuse it.  The timer and
event runs do not check deadlock because the bounded clock and the bounded calls stop; `HookIo`,
`FdManager`, `Startup` and `Lesson` do not because fibers end, calls run out, `stop()` returns or aborts, and the process of
`Lesson` exits.  In `HookIo` two calls of two fibers are enough for a timer to outlive its call, for
two fibers to want one direction, and for a fiber to change threads between calls.  `FdManager` uses
descriptors 3 and 5 with a table of 2 entries, so that each order of the two resizes occurs (5 then
3 shrinks it); its calls leave out `accept` and `sndtimeo`, which take the same steps as `socket`
and `rcvtimeo`.  In `Lesson` four calls of `scheduleLock` let a fiber be queued twice,
by itself too, with another behind it, and three yields or resets let it be resumed, reset and resumed
again.

Fairness.  Every thread keeps being scheduled (weak fairness of its steps), the program calls
`stop()` in the end, and a descriptor that is registered becomes ready, a deadline passes, and
is reported to a thread that keeps asking (strong fairness per fiber: any single round of
`epoll_wait` may report others).  The first is the kernel's, the other two are assumptions on
the environment without which `stop()` waits by design.  User code need not call anything.
In `EventTable`, likewise, every thread that is in `addEvent` or has reports to handle goes on,
and a direction that is watched is reported again and again until somebody handles it (strong
fairness of `Reports`): the descriptor becomes ready.
In `HookIo` a thread runs its fiber on, the fiber gives way in the end, a queued fiber is taken
by some thread again and again offered (strong fairness of `Resume`, because threads are busy in
between), timers expire, and epoll reports.  `AllEnd` adds that the peer does not fall silent;
`TimeoutEnds` is about a peer that does, and leaves it out.  `FdManager` assumes that a call goes on
and that the exclusive lock is granted in the end (strong fairness: readers come and go).  `Startup`
assumes weak fairness of every step but the spurious wake-up, which the kernel does not owe;
`Lesson` of the one thread, and that the application calls `stop()`.

## 4. Proofs

All theorems hold for every number of threads, fibers, timers, descriptors and calls.

- `SchedulerProofs`: `TypeCorrect`; then `LockInvariant`: a thread in `fiber` or `swap` owns the
  mutex of its task, and a fiber that is RUNNING is owned.  `OneThread` (`FiberOnOneThread`) and
  `ResumeAsserted` (`ResumeReady`) follow.  Nothing is assumed about the counters.
- `SchedulerShutdownProofs` is about `stop()` with timers, pinned tasks and counters that race and
  start anywhere.  Two things can make it abandon something, and the code does both: the active count
  reads 0 while a thread holds a task (`ZeroMeansIdle` fails), or a timer is armed after `stop()` was
  called (`NoLateTimers` fails).  `StopAbandonsNothing` says that nothing else can: in a behaviour
  without either, whatever else the counters do, `stop()` returns with nothing queued or registered.
  It needs more than the state at the end: once a thread has read an empty queue with nobody active,
  no new work can appear but from an event, and the thread that then reads a pending count of 0
  knows there is none; `DrainInv` carries this from the first thread that quits to the return of
  `stop()`, and `PendingStep` counts registered and unsettled events.  `PoolImplemented` is the
  refinement of `TaskPool` in the same behaviours.  A request is served at the moment the
  mutex is locked, which needs `StackInv` (a held mutex belongs to the thread on the fiber's stack,
  and a fiber there is RUNNING until it yields or ends), and `Close` needs `NothingAbandoned`.
  `OpenPoolImplemented` assumes nothing of the behaviour: the scheduler always implements the pool,
  except that the pool is never known to be closed.  Requests are in four places (queue,
  registrations, batches of expired timers, hands of a thread), no step drops one on the way from one
  to the next, and `BatchInv` says that a batch exists only between `timers` and `collect`.
  `ActiveCountUndisturbed` says what is wrong with the count: it is off by its first value, and by
  nothing else until another thread's update falls between a load and a store (`Undisturbed`).
- `TimeManagerProofs`: `CancelledForGood` (`Disarmed`: a cancelled timer has no callback),
  `FiresOnce` (`Unfired`: a one-shot with a callback has not been extracted) and
  `PollersPrompt`, whose invariant is the `m_tickle` handshake: once every poller sleeps and no
  wake-up is on its way, `m_tickle` is clear, so the next insertion at the front tickles; and
  `refresh()` never moves a deadline to an earlier time (`Soon`).
  `OnlyTwinsForgotten` (`NotForgotten`) assumes of a behaviour that no two timers that are in the
  heap or armed ever have the same deadline (`DistinctDeadlines`); without that it is false, because
  `insert` drops a timer whose deadline is taken and `find` may return another one, which is then
  erased.  What remains to prove is that the race of `reset()` with `cancel()`, `refresh()`, expiry
  and another `reset()` loses no timer: a timer that `reset()` has taken out of the heap
  belongs to that `reset()` alone, with its callback unless it was cancelled meanwhile (`MovedOnce`);
  and of the recurring timers with one period that expire in one round the earliest is
  inserted again, so that the others, if dropped, have its deadline (`RearmedOrTwin`).  That an
  earliest one exists is `LeastNat`, from the library's well-foundedness of `<` on `Nat`; deadlines
  are natural numbers because no timer starts before time 0 (`StartInPast`).  `OneTimerKept` is
  the case of one timer, which has no twins, for any number of threads.
- `EventTableProofs`: `TypeCorrect` needs `Counted`, which pays for each context and each
  registration with a call of `addEvent`.  `EventsConserved` (`Conserved`) follows from
  `Registrations`: a slot that is not armed is empty (the assertion at iomanager.cc:122), an armed
  one holds a registration of its own that was not scheduled.  `RegisteredIsWatched` (`Watched`) is
  inductive by itself: the kernel refuses `ADD` and `MOD` whenever the context found is not the one
  it watches.  `OnePollerCountsExactly` (`PendingExact`) assumes one thread in `idle()`: what was
  reported is then still registered when it is handled (`Current`), which
  fails with two.  `OneWayCountsExactly` has the same conclusion for any number of pollers when each
  descriptor is used in one direction: a report is ignored unless something ready is
  registered, and then it is the only thing that can be ready (`Ways`).  Both rest on `Counting` and on
  two lemmas (`RegisterCounts`, `HandleCounts`) that say when the decrements of `idle()` are right;
  `ReadersAreCounted` is the case TLC checks.  So the count goes wrong only where several threads
  poll and a descriptor is waited on in both directions.
  `RegistryImplemented` is the refinement: seen from `addEvent`'s callers the contexts, the
  table and epoll are not there.  The waiter of a place is the one in the context that epoll watches; by
  `Registrations` and `Watched` no other context of the descriptor holds anything
  (`WatchedAlone`), so a registration goes to an empty place, and a handled report, whatever
  directions it names, is a `Report` of the places it empties.
- `StartupProofs`: `TypeCorrect`.  `IdsArePublished` rests on `Handshake` (the semaphore
  is signalled once, after the id was stored, and threads are created in order) and on
  `IdsInOrder`, which says what `m_threadIds` holds at every step.  `PoolImplemented` is the refinement
  of `TaskPool`, whatever is pushed for whichever thread: a task is in the queue or in one thread's
  hands (`Hands`); idle fibers end, and threads leave `run()`, only after `stop()` was called, which
  returns when all have left (`Closing`); and no thread strands a task by leaving, because it has looked
  at the queue in the same critical section (`TaskCases`), so that a task is stranded by its push or
  never.  What is left when `stop()` returns is therefore stranded (`ClosedEmpty`), and the pool can
  `Close`.
- `LessonProofs`: `Known` (the scheduler's fiber is recorded before any fiber but main runs)
  makes `CurrentIsExecuting` and `ContextsOwn` inductive together: a `resume()` is called by the fiber
  it will return to, so that `swapcontext` stores each stack where it belongs.
  Nothing is assumed of who is queued, how often, or in what state.
- `HookIoProofs`: `OwnTimeouts` (`NoForeignTimeout`) rests on `OwnTimers` (a timer carries the number of
  the call that is under way or of an earlier one, and its condition is alive only for the former).  `OneWakeup` is proved as `Caused`, which counts the three kinds of
  causes apart: registrations, sleep timers and places in the queue; every step moves a cause or
  creates the first of a fiber that has none.  `RegistryUsed` (`UsesRegistry`) follows: a fiber that
  calls `addEvent` runs, hence has no cause, hence registers in no second place; a sleeper's only
  cause is its timer; `close`, `delEvent` and the timers of `io_do` do not touch the registry at
  all (`UseCases`).
- `FdManagerProofs`: `SoundTable` needs `InCall` (a thread that resizes saw a table of at least two
  entries and not larger than its descriptor) and that `fd * 1.5` exceeds `fd` from 2 on.
  `EntriesAreKept` is an action property from the same invariant (`ResizeKeeps`).  They assume
  `InitialSize >= 2`; the source has 64.

Every type invariant and every safety property of the passing runs is a theorem.  Some need more than
the ranges of the constants: `NothingAbandoned` and the safety half of `ImplementsFairPool`
are proved of behaviours in which `ZeroMeansIdle` and `NoLateTimers` hold, `NotForgotten` of those
with `DistinctDeadlines`; each of them is false otherwise.

Only model-checked: liveness (`StopReturns`, `DueServed`, `Served`, the fairness that
`ImplementsFairPool` adds to `ImplementsPool`, `AllEnd`, `CallsEnd`, `StartReturns`,
`CallerServes`, `StopServes`), which is out of the prover's reach, and the three
counterexamples.

## 5. Not modelled

- The product of `Scheduler`, `EventTable` and `HookIo`, which is beyond TLC at instances where anything
  happens.  They meet in contracts instead: `EventTable` implements the `Registry` that `HookIo`
  uses, and the registration that `Scheduler` takes as atomic is one of its steps; `Scheduler` and
  `Startup` implement the `TaskPool` from whose queue the fibers of `HookIo` come back.
- `Fiber::reset()` that races the end of the same fiber on another thread, and fibers resumed by
  fibers on several threads (stage 6).
- Registered descriptors that are closed by the kernel or reused, and descriptors outside the table
  given to `delEvent`, `cancelEvent` and `cancelAll`, which read out of bounds.
- Clock rollover (the clock is steady), the milliseconds lost by rounding.
- Two `del()` of one entry at once, a data race on one `shared_ptr`; they are taken one after the
  other.
- The `fcntl` commands that are passed on, `getsockopt`, `dlsym`; thread names; a `pthread_create`
  that fails.
- Fibers of the early stages that are resumed from the context of the other kind, and from other
  fibers.
- Runs of the early stages with several threads, whose globals have no defined meaning then.
- The example servers (`src/epoll`, `src/libevent`) and the demonstration programs.

Next: `HookIo` as a client of `TaskPool`, as it is one of `Registry`; an abstract timer service that
`TimeManager` implements where deadlines differ.
