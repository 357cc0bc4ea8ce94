----------------------------- MODULE Scheduler -----------------------------
(* The scheduling core of the library: worker threads executing            *)
(* Scheduler::run(), the shared task queue, the fibers and their mutexes,  *)
(* the idle fiber of IOManager, and the shutdown protocol of stop().       *)
(*                                                                         *)
(* A callback task is a fiber too: run() wraps it in a new Fiber before it *)
(* resumes it.  A registration (an fd event of addEvent, or a timer of     *)
(* addTimer) is abstracted to the fiber it makes runnable: armed[f].       *)
EXTENDS Integers, FiniteSets, SequencesExt

CONSTANTS
  Created,        \* the threads start() creates
  Root,           \* the thread that built the scheduler and calls stop()
  Fibers,
  Anyone,            \* thread argument -1 of scheduleLock
  None,
  Targets,        \* thread arguments that callers of scheduleLock pass
  Kinds,          \* registrations in use: "Event", "Timer"
  Races,          \* whether m_activeThreadCount-- is split into load and store
  InitialCounts,  \* what the two uninitialised counters may hold at first
  MaxRequests     \* bound on the calls of scheduleLock, addEvent and addTimer by user code

Threads == Created \cup {Root}

ASSUME FiniteAssumption == IsFiniteSet(Created) /\ IsFiniteSet(Fibers)
ASSUME NamesAssumption == /\ Root \notin Created
                          /\ None \notin Threads \cup Fibers
                          /\ Anyone \notin Threads
                          /\ Targets \subseteq Threads \cup {Anyone}
ASSUME ModeAssumption == /\ Kinds \subseteq {"Event", "Timer"}
                         /\ Races \in BOOLEAN
                         /\ InitialCounts \subseteq Int
                         /\ MaxRequests \in Nat

VARIABLES
  tasks,         \* m_tasks: sequence of [fiber, thread]
  stopping,      \* m_stopping
  activeCount,   \* m_activeThreadCount
  idleCount,     \* m_idleThreadCount
  pendingCount,  \* m_pendingEventCount
  state,         \* Fiber::m_state
  owner,         \* who holds Fiber::m_mutex
  armed,         \* the registration that will schedule the fiber, or "None"
  edge,          \* an unconsumed write to the tickle pipe
  requests,      \* calls counted against MaxRequests
  pc,            \* where each thread is
  task,          \* the local `task' of run()
  loaded,        \* the value a racing decrement has read
  expired,       \* callbacks listExpiredCb returned and not pushed yet
  reported,      \* fibers whose fd epoll_wait reported and not handled yet
  mustTickle,    \* the thread's next step is tickle()
  idleTerm       \* the thread's idle fiber has terminated

queueVars  == <<tasks, stopping, activeCount>>
fiberVars  == <<state, owner>>
eventVars  == <<armed, pendingCount>>
tickleVars == <<edge, idleCount>>
localVars  == <<task, loaded, expired, reported, idleTerm>>
vars == <<queueVars, fiberVars, eventVars, tickleVars, localVars, pc, mustTickle, requests>>

Labels == {"user", "scan", "dispatch", "fiber", "swap", "finish", "store", "idle", "ask1",
           "ask2", "ask3", "wait", "timers", "collect", "settle", "join", "stopped", "done"}

Tasks == [fiber : Fibers, thread : Threads \cup {Anyone}]

TypeOK ==
  /\ tasks \in Seq(Tasks)
  /\ stopping \in BOOLEAN
  /\ activeCount \in Int /\ idleCount \in Int /\ pendingCount \in Int
  /\ state \in [Fibers -> {"READY", "RUNNING", "TERM"}]
  /\ owner \in [Fibers -> Threads \cup {None}]
  /\ armed \in [Fibers -> {"None", "Event", "Timer"}]
  /\ edge \in BOOLEAN
  /\ requests \in 0..MaxRequests
  /\ pc \in [Threads -> Labels]
  /\ task \in [Threads -> Fibers \cup {None}]
  /\ loaded \in [Threads -> Int]
  /\ expired \in [Threads -> SUBSET Fibers]
  /\ reported \in [Threads -> SUBSET Fibers]
  /\ mustTickle \in [Threads -> BOOLEAN]
  /\ idleTerm \in [Threads -> BOOLEAN]

(* The state once the constructor has run start(): the created threads are *)
(* in run(), the root thread is still in the program that built the        *)
(* scheduler.                                                              *)
Init ==
  /\ tasks = <<>>
  /\ stopping = FALSE
  /\ activeCount \in InitialCounts /\ idleCount \in InitialCounts
  /\ pendingCount = 0
  /\ state = [f \in Fibers |-> "READY"]
  /\ owner = [f \in Fibers |-> None]
  /\ armed = [f \in Fibers |-> "None"]
  /\ edge = FALSE
  /\ requests = 0
  /\ pc = [t \in Threads |-> IF t = Root THEN "user" ELSE "scan"]
  /\ task = [t \in Threads |-> None]
  /\ loaded = [t \in Threads |-> 0]
  /\ expired = [t \in Threads |-> {}]
  /\ reported = [t \in Threads |-> {}]
  /\ mustTickle = [t \in Threads |-> FALSE]
  /\ idleTerm = [t \in Threads |-> FALSE]

---------------------------------------------------------------------------
At(t, label) == pc[t] = label /\ ~mustTickle[t]
Goto(t, label) == pc' = [pc EXCEPT ![t] = label]
Armed(kind) == {f \in Fibers : armed[f] = kind}

(* Mutants.  Each operator named ...Wrong... is the definition that follows*)
(* it with a plausible mistake; no action uses one.                        *)
(* Mutant of Push: schedules the caller's own fiber.                       *)
PushWrongFiber(t, f, target) ==
  /\ tasks' = Append(tasks, [fiber |-> task[t], thread |-> target])
  /\ mustTickle' = [mustTickle EXCEPT ![t] = (tasks = <<>>)]

(* scheduleLock: append under m_mutex, tickle() after the unlock if the    *)
(* queue was empty.                                                        *)
Push(t, f, target) ==
  /\ tasks' = Append(tasks, [fiber |-> f, thread |-> target])
  /\ mustTickle' = [mustTickle EXCEPT ![t] = (tasks = <<>>)]

(* IOManager::tickle: writes to the pipe if some thread is counted idle.   *)
(* With racing counters hasIdleThreads() may answer anything.              *)
Tickle(t) ==
  /\ mustTickle[t]
  /\ mustTickle' = [mustTickle EXCEPT ![t] = FALSE]
  /\ edge' \in {edge \/ hasIdle : hasIdle \in IF Races THEN BOOLEAN ELSE {idleCount > 0}}
  /\ UNCHANGED <<queueVars, fiberVars, eventVars, localVars, idleCount, pc, requests>>

---------------------------------------------------------------------------
(* run(): the scan of the queue under m_mutex.                             *)
Eligible(t, i) == tasks[i].thread \in {Anyone, t}

ScanTake(t) ==
  /\ At(t, "scan")
  /\ \E i \in DOMAIN tasks :
       /\ Eligible(t, i)
       /\ \A j \in 1..(i - 1) : ~Eligible(t, j)
       /\ task' = [task EXCEPT ![t] = tasks[i].fiber]
       /\ tasks' = RemoveAt(tasks, i)
  /\ activeCount' = activeCount + 1
  /\ mustTickle' = [mustTickle EXCEPT ![t] = Len(tasks) > 1]
  /\ Goto(t, "dispatch")
  /\ UNCHANGED <<stopping, fiberVars, eventVars, tickleVars, loaded, expired, reported, idleTerm, requests>>

ScanNone(t) ==
  /\ At(t, "scan")
  /\ \A i \in DOMAIN tasks : ~Eligible(t, i)
  /\ mustTickle' = [mustTickle EXCEPT ![t] = tasks # <<>>]
  /\ Goto(t, "idle")
  /\ UNCHANGED <<queueVars, fiberVars, eventVars, tickleVars, localVars, requests>>

(* Mutant of Resume: the mutex is not taken.                               *)
ResumeWrongNoLock(t) ==
  /\ At(t, "dispatch")
  /\ state[task[t]] # "TERM"
  /\ owner' = [owner EXCEPT ![task[t]] = t]
  /\ state' = [state EXCEPT ![task[t]] = "RUNNING"]
  /\ Goto(t, "fiber")
  /\ UNCHANGED <<queueVars, eventVars, tickleVars, localVars, mustTickle, requests>>

(* run(): lock the fiber's mutex, then resume it or find it terminated.    *)
Resume(t) ==
  LET f == task[t] IN
  /\ At(t, "dispatch")
  /\ owner[f] = None
  /\ state[f] # "TERM"
  /\ owner' = [owner EXCEPT ![f] = t]
  /\ state' = [state EXCEPT ![f] = "RUNNING"]
  /\ Goto(t, "fiber")
  /\ UNCHANGED <<queueVars, eventVars, tickleVars, localVars, mustTickle, requests>>

SkipTerminated(t) ==
  /\ At(t, "dispatch")
  /\ owner[task[t]] = None
  /\ state[task[t]] = "TERM"
  /\ Goto(t, "finish")
  /\ UNCHANGED <<queueVars, fiberVars, eventVars, tickleVars, localVars, mustTickle, requests>>

(* yeid() and the end of MainFunc(): the state is written while the thread *)
(* still runs on the fiber's stack; swapcontext comes after ("swap").      *)
SetState(t, s) ==
  /\ At(t, "fiber")
  /\ state' = [state EXCEPT ![task[t]] = s]
  /\ Goto(t, "swap")
  /\ UNCHANGED <<queueVars, owner, eventVars, tickleVars, localVars, mustTickle, requests>>

(* Mutant of Yield: the fiber stays RUNNING.                               *)
YieldWrongState(t) == SetState(t, "RUNNING")

Yield(t) == SetState(t, "READY")
Finish(t) == SetState(t, "TERM")

(* swapcontext returns into run(), which unlocks the fiber's mutex.        *)
Release(t) ==
  /\ At(t, "swap")
  /\ owner' = [owner EXCEPT ![task[t]] = None]
  /\ Goto(t, "finish")
  /\ UNCHANGED <<queueVars, state, eventVars, tickleVars, localVars, mustTickle, requests>>

(* m_activeThreadCount--, outside m_mutex; task.reset().                   *)
Decrement(t) ==
  /\ At(t, "finish")
  /\ ~Races
  /\ activeCount' = activeCount - 1
  /\ task' = [task EXCEPT ![t] = None]
  /\ Goto(t, "scan")
  /\ UNCHANGED <<tasks, stopping, fiberVars, eventVars, tickleVars, loaded, expired, reported,
                 idleTerm, mustTickle, requests>>

LoadCount(t) ==
  /\ At(t, "finish")
  /\ Races
  /\ loaded' = [loaded EXCEPT ![t] = activeCount]
  /\ Goto(t, "store")
  /\ UNCHANGED <<queueVars, fiberVars, eventVars, tickleVars, task, expired, reported, idleTerm,
                 mustTickle, requests>>

StoreCount(t) ==
  /\ At(t, "store")
  /\ activeCount' = loaded[t] - 1
  /\ task' = [task EXCEPT ![t] = None]
  /\ Goto(t, "scan")
  /\ UNCHANGED <<tasks, stopping, fiberVars, eventVars, tickleVars, loaded, expired, reported,
                 idleTerm, mustTickle, requests>>

---------------------------------------------------------------------------
(* run() found nothing: it enters its idle fiber, or leaves if that fiber  *)
(* has terminated.                                                         *)
EnterIdle(t) ==
  /\ At(t, "idle")
  /\ ~idleTerm[t]
  /\ idleCount' = idleCount + 1
  /\ Goto(t, "ask1")
  /\ UNCHANGED <<queueVars, fiberVars, eventVars, localVars, edge, mustTickle, requests>>

LeaveRun(t) ==
  /\ At(t, "idle")
  /\ idleTerm[t]
  /\ Goto(t, IF t = Root THEN "join" ELSE "done")
  /\ UNCHANGED <<queueVars, fiberVars, eventVars, tickleVars, localVars, mustTickle, requests>>

(* IOManager::stopping(): first the timers, then the queue and the active  *)
(* count under m_mutex, then the pending events.                           *)
CheckTimers(t) ==
  /\ At(t, "ask1")
  /\ Goto(t, IF Armed("Timer") = {} THEN "ask2" ELSE "wait")
  /\ UNCHANGED <<queueVars, fiberVars, eventVars, tickleVars, localVars, mustTickle, requests>>

(* Mutant of CheckQueue: threads that hold a task are forgotten.           *)
CheckQueueWrongIdle(t) ==
  /\ At(t, "ask2")
  /\ Goto(t, IF stopping /\ tasks = <<>> THEN "ask3" ELSE "wait")
  /\ UNCHANGED <<queueVars, fiberVars, eventVars, tickleVars, localVars, mustTickle, requests>>

CheckQueue(t) ==
  /\ At(t, "ask2")
  /\ Goto(t, IF stopping /\ tasks = <<>> /\ activeCount = 0 THEN "ask3" ELSE "wait")
  /\ UNCHANGED <<queueVars, fiberVars, eventVars, tickleVars, localVars, mustTickle, requests>>

(* The last check fails: on to epoll_wait.                                 *)
StayIdle(t) ==
  /\ At(t, "ask3")
  /\ pendingCount # 0
  /\ Goto(t, "wait")
  /\ UNCHANGED <<queueVars, fiberVars, eventVars, tickleVars, localVars, mustTickle, requests>>

(* It succeeds: idle() returns, its fiber terminates, run() takes over.    *)
QuitIdle(t) ==
  /\ At(t, "ask3")
  /\ pendingCount = 0
  /\ idleTerm' = [idleTerm EXCEPT ![t] = TRUE]
  /\ idleCount' = idleCount - 1
  /\ Goto(t, "scan")
  /\ UNCHANGED <<queueVars, fiberVars, eventVars, edge, task, loaded, expired, reported,
                 mustTickle, requests>>

(* epoll_wait returns: ready descriptors, the tickle pipe, or the timeout. *)
WakeUp(t, ready) ==
  /\ At(t, "wait")
  /\ ready \subseteq Armed("Event")
  /\ reported' = [reported EXCEPT ![t] = ready]
  /\ edge' = FALSE
  /\ Goto(t, "timers")
  /\ UNCHANGED <<queueVars, fiberVars, eventVars, idleCount, task, loaded, expired, idleTerm,
                 mustTickle, requests>>

(* listExpiredCb takes the timers that are due.                            *)
ExpireTimers(t, due) ==
  /\ At(t, "timers")
  /\ due \subseteq Armed("Timer")
  /\ expired' = [expired EXCEPT ![t] = due]
  /\ armed' = [f \in Fibers |-> IF f \in due THEN "None" ELSE armed[f]]
  /\ Goto(t, "collect")
  /\ UNCHANGED <<queueVars, fiberVars, pendingCount, tickleVars, task, loaded, reported, idleTerm,
                 mustTickle, requests>>

(* Mutant of PushExpired: the vector is cleared after its first callback.  *)
PushExpiredWrongBatch(t, f) ==
  /\ At(t, "collect")
  /\ f \in expired[t]
  /\ expired' = [expired EXCEPT ![t] = {}]
  /\ Push(t, f, Anyone)
  /\ UNCHANGED <<stopping, activeCount, fiberVars, eventVars, tickleVars, task, loaded, reported,
                 idleTerm, pc, requests>>

(* The loops of idle(): expired callbacks are pushed first, then each      *)
(* reported descriptor is handled.                                         *)
PushExpired(t, f) ==
  /\ At(t, "collect")
  /\ f \in expired[t]
  /\ expired' = [expired EXCEPT ![t] = @ \ {f}]
  /\ Push(t, f, Anyone)
  /\ UNCHANGED <<stopping, activeCount, fiberVars, eventVars, tickleVars, task, loaded, reported,
                 idleTerm, pc, requests>>

HandleEvent(t, f) ==
  /\ At(t, "collect")
  /\ expired[t] = {}
  /\ f \in reported[t]
  /\ reported' = [reported EXCEPT ![t] = @ \ {f}]

(* Mutant of TriggerEvent: the event is unregistered, nobody is scheduled. *)
TriggerWrongLost(t, f) ==
  /\ HandleEvent(t, f)
  /\ armed[f] = "Event"
  /\ armed' = [armed EXCEPT ![f] = "None"]
  /\ Goto(t, "settle")
  /\ UNCHANGED <<queueVars, fiberVars, pendingCount, tickleVars, task, loaded, expired, idleTerm,
                 mustTickle, requests>>

(* The event is still registered: unregister it and schedule its fiber.    *)
TriggerEvent(t, f) ==
  /\ HandleEvent(t, f)
  /\ armed[f] = "Event"
  /\ armed' = [armed EXCEPT ![f] = "None"]
  /\ Push(t, f, Anyone)
  /\ Goto(t, "settle")
  /\ UNCHANGED <<stopping, activeCount, fiberVars, pendingCount, tickleVars, task, loaded, expired,
                 idleTerm, requests>>

(* Somebody else handled it first: (fd_ctx->events & event) == NONE.       *)
DropEvent(t, f) ==
  /\ HandleEvent(t, f)
  /\ armed[f] # "Event"
  /\ UNCHANGED <<queueVars, fiberVars, eventVars, tickleVars, task, loaded, expired, idleTerm, pc,
                 mustTickle, requests>>

(* Mutant of SettleEvent: the event stays counted.                         *)
SettleWrongCount(t) ==
  /\ At(t, "settle")
  /\ Goto(t, "collect")
  /\ UNCHANGED <<queueVars, fiberVars, eventVars, tickleVars, localVars, mustTickle, requests>>

(* m_pendingEventCount-- follows the trigger.                              *)
SettleEvent(t) ==
  /\ At(t, "settle")
  /\ pendingCount' = pendingCount - 1
  /\ Goto(t, "collect")
  /\ UNCHANGED <<queueVars, fiberVars, armed, tickleVars, localVars, mustTickle, requests>>

(* The idle fiber yields; run() scans again.                               *)
YieldIdle(t) ==
  /\ At(t, "collect")
  /\ expired[t] = {} /\ reported[t] = {}
  /\ idleCount' = idleCount - 1
  /\ Goto(t, "scan")
  /\ UNCHANGED <<queueVars, fiberVars, eventVars, edge, localVars, mustTickle, requests>>

---------------------------------------------------------------------------
(* User code: the root thread before stop(), and every running fiber.      *)
InUserCode(t) == /\ At(t, "user") \/ At(t, "fiber")
                 /\ requests < MaxRequests
                 /\ requests' = requests + 1

Post(t, f, target) ==
  /\ InUserCode(t)
  /\ Push(t, f, target)
  /\ UNCHANGED <<stopping, activeCount, fiberVars, eventVars, tickleVars, localVars, pc>>

(* addEvent counts the pending event; addTimer calls tickle() when the     *)
(* timer became the earliest one.                                          *)
Register(t, f, kind) ==
  /\ InUserCode(t)
  /\ armed[f] = "None"
  /\ state[f] # "TERM"
  /\ armed' = [armed EXCEPT ![f] = kind]
  /\ pendingCount' = IF kind = "Event" THEN pendingCount + 1 ELSE pendingCount
  /\ \E atFront \in IF kind = "Timer" THEN BOOLEAN ELSE {FALSE} :
       mustTickle' = [mustTickle EXCEPT ![t] = atFront]
  /\ UNCHANGED <<queueVars, fiberVars, tickleVars, localVars, pc>>

(* stop() on the root thread: set the flag, tickle, and resume the         *)
(* scheduler fiber, which executes run().                                  *)
StopCall ==
  /\ At(Root, "user")
  /\ stopping' = TRUE
  /\ mustTickle' = [mustTickle EXCEPT ![Root] = TRUE]
  /\ Goto(Root, "scan")
  /\ UNCHANGED <<tasks, activeCount, fiberVars, eventVars, tickleVars, localVars, requests>>

(* run() is over on the root thread too: join the created threads.         *)
Join ==
  /\ At(Root, "join")
  /\ \A t \in Created : pc[t] = "done"
  /\ Goto(Root, "stopped")
  /\ UNCHANGED <<queueVars, fiberVars, eventVars, tickleVars, localVars, mustTickle, requests>>

Terminating == pc[Root] = "stopped" /\ UNCHANGED vars

---------------------------------------------------------------------------
Dispatch(t) == \/ ScanTake(t) \/ ScanNone(t) \/ Resume(t) \/ SkipTerminated(t) \/ Yield(t)
               \/ Finish(t) \/ Release(t) \/ Decrement(t) \/ LoadCount(t) \/ StoreCount(t)

Idle(t) == \/ EnterIdle(t) \/ LeaveRun(t) \/ CheckTimers(t) \/ CheckQueue(t)
           \/ StayIdle(t) \/ QuitIdle(t) \/ SettleEvent(t) \/ YieldIdle(t)
           \/ \E set \in SUBSET Fibers : WakeUp(t, set) \/ ExpireTimers(t, set)
           \/ \E f \in Fibers : PushExpired(t, f) \/ TriggerEvent(t, f) \/ DropEvent(t, f)

Step(t) == Tickle(t) \/ Dispatch(t) \/ Idle(t)

UserCall(t) == \E f \in Fibers : \/ \E target \in Targets : Post(t, f, target)
                                 \/ \E kind \in Kinds : Register(t, f, kind)

Next == \/ \E t \in Threads : Step(t) \/ UserCall(t)
        \/ StopCall \/ Join \/ Terminating

Spec == Init /\ [][Next]_vars

(* Every thread is scheduled by the kernel, the program stops at last, and *)
(* every registration comes due: a descriptor gets ready, a deadline       *)
(* passes, and is reported to some thread that keeps asking.               *)
ComesDue(f) == \E t \in Threads, set \in SUBSET Fibers :
                 f \in set /\ (WakeUp(t, set) \/ ExpireTimers(t, set))

Fairness == /\ \A t \in Threads : WF_vars(Step(t))
            /\ WF_vars(StopCall) /\ WF_vars(Join)
            /\ \A f \in Fibers : SF_vars(ComesDue(f))

FairSpec == Spec /\ Fairness

---------------------------------------------------------------------------
(* No two threads are ever on the stack of the same fiber, the window      *)
(* between writing READY and saving the context included (fiber.cc:125).   *)
FiberOnOneThread ==
  \A t, u \in Threads : (t # u /\ {pc[t], pc[u]} \subseteq {"fiber", "swap"}) => task[t] # task[u]

(* Whoever takes a fiber's mutex finds it READY or TERM, so the assertion  *)
(* m_state==READY in Fiber::resume() (fiber.cc:90) never fails in run().   *)
ResumeReady == \A f \in Fibers : owner[f] = None => state[f] # "RUNNING"

(* The threads that hold a task.                                           *)
Busy == {t \in Threads : pc[t] \in {"dispatch", "fiber", "swap", "finish", "store"}}

(* m_activeThreadCount is the number of threads that hold a task, as its   *)
(* comment says (schedule.h:91) and stopping() takes for granted.  The     *)
(* unlocked decrement (schedule.cc:199) loses updates of other threads.    *)
ActiveExact == activeCount = Cardinality(Busy)

(* When stop() has returned no task is queued and no registration armed.   *)
NothingAbandoned == pc[Root] = "stopped" => tasks = <<>> /\ \A f \in Fibers : armed[f] = "None"

(* A queued task that every worker may run does not sit there while all    *)
(* workers sleep in epoll_wait with no wake-up on its way (day3.md, 6).    *)
WakeupNotLost ==
  LET workers == {t \in Threads : pc[t] \notin {"user", "done"}}
  IN ~ /\ \E i \in DOMAIN tasks : tasks[i].thread = Anyone
       /\ ~edge
       /\ workers # {} /\ \A t \in workers : pc[t] = "wait"
       /\ \A t \in Threads : ~mustTickle[t]

(* stop() returns: all threads leave run() and are joined.                 *)
StopReturns == stopping ~> (pc[Root] = "stopped")

---------------------------------------------------------------------------
(* The scheduler implements TaskPool: a fiber is requested while it is in  *)
(* the queue, registered, in a batch of expired callbacks, or taken by a   *)
(* thread that has not locked it yet.                                      *)
Requested == {tasks[i].fiber : i \in DOMAIN tasks}
             \cup {f \in Fibers : armed[f] # "None"}
             \cup (UNION {expired[t] : t \in Threads})
             \cup {task[t] : t \in {u \in Threads : pc[u] = "dispatch"}}

Pool == INSTANCE TaskPool WITH requested <- Requested, closed <- (pc[Root] = "stopped")

ImplementsPool == Pool!Spec
ImplementsFairPool == Pool!FairSpec

(* It does so with timers and with counters that race or start anywhere    *)
(* too, except that the pool is never known to be closed: no request is    *)
(* dropped, but stop() may return with some of them left.                  *)
OpenPool == INSTANCE TaskPool WITH requested <- Requested, closed <- FALSE

ImplementsOpenPool == OpenPool!Spec
=============================================================================
