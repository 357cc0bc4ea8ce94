------------------------------- MODULE Lesson -------------------------------
(* The lesson stages 2fiber and 3schedule: fibers on ucontext, and the     *)
(* first Scheduler, built with threads = 1 and user_caller = true, so that *)
(* one thread runs everything.  A stack is named after the fiber it was    *)
(* made for; a context (m_ctx) remembers a stack, and swapcontext stores   *)
(* the running stack in one context and goes on with that of another.      *)
EXTENDS Integers, Sequences

CONSTANTS
  Tasks,      \* fibers of the application for the scheduler
  Direct,     \* fibers it resumes itself: run_in_scheduler = false
  MainFiber, SchedulerFiber, IdleFiber, None,
  MaxSchedules, \* bound on the calls of scheduleLock()
  MaxYields     \* bound on the yields and resets

ASSUME FibersAssumption ==
  /\ Tasks \cap Direct = {}
  /\ {MainFiber, SchedulerFiber, IdleFiber, None} \cap (Tasks \cup Direct) = {}
  /\ None \notin {MainFiber, SchedulerFiber, IdleFiber}
  /\ MainFiber # SchedulerFiber /\ MainFiber # IdleFiber /\ SchedulerFiber # IdleFiber
ASSUME BoundsAssumption == MaxSchedules \in Nat /\ MaxYields \in Nat

Fibers == Tasks \cup Direct \cup {MainFiber, SchedulerFiber, IdleFiber}

VARIABLES
  cpu,             \* the stack that is running, None when the process has ended
  saved,           \* the stack each m_ctx holds
  state,           \* m_state
  tFiber,          \* t_fiber
  tSchedulerFiber, \* t_scheduler_fiber; t_thread_fiber is the main fiber
  point,           \* where the code on each stack is
  queue,           \* m_tasks: a fiber, and whether for this thread
  stopping,        \* m_stopping, not initialised
  schedules, yields

bounds == <<schedules, yields>>
contexts == <<cpu, saved, state, tFiber, tSchedulerFiber>>
vars == <<contexts, point, queue, stopping, bounds>>

Points == {"none", "new", "app", "resumed", "stop", "end", "scan", "spin", "body", "ended"}

TypeOK ==
  /\ cpu \in Fibers \cup {None}
  /\ saved \in [Fibers -> Fibers]
  /\ state \in [Fibers -> {"READY", "RUNNING", "TERM"}]
  /\ tFiber \in Fibers \cup {None} /\ tSchedulerFiber \in Fibers \cup {None}
  /\ point \in [Fibers -> Points]
  /\ queue \in Seq([fiber : Tasks, mine : BOOLEAN])
  /\ stopping \in BOOLEAN
  /\ schedules \in 0..MaxSchedules /\ yields \in 0..MaxYields

(* Fiber::Fiber(cb): READY, with a context that starts MainFunc.           *)
Fresh == saved = [f \in Fibers |-> f] /\ state = [f \in Fibers |-> "READY"]

Init ==
  /\ cpu = MainFiber
  /\ Fresh
  /\ tFiber = None /\ tSchedulerFiber = None
  /\ point = [f \in Fibers |-> IF f = MainFiber THEN "none" ELSE "new"]
  /\ queue = << >>
  /\ stopping \in BOOLEAN
  /\ schedules = 0 /\ yields = 0

---------------------------------------------------------------------------
InScheduler(f) == f \notin Direct \cup {SchedulerFiber}

(* The fiber a resume() comes from and a yeid() goes to.                   *)
Back(f) == IF InScheduler(f) THEN tSchedulerFiber ELSE MainFiber

Swapped(from, to) == /\ saved' = [saved EXCEPT ![from] = cpu]
                     /\ cpu' = saved[to]

(* Fiber::resume(): no state is refused.                                   *)
Resumed(f) ==
  /\ state' = [state EXCEPT ![f] = "RUNNING"]
  /\ tFiber' = f
  /\ Swapped(Back(f), f)
  /\ UNCHANGED tSchedulerFiber

(* Mutant of Yielded: t_fiber is not set back.                             *)
YieldedWrongCurrent(f) ==
  /\ state' = [state EXCEPT ![f] = "READY"]
  /\ Swapped(f, Back(f))
  /\ UNCHANGED <<tFiber, tSchedulerFiber>>

(* Fiber::yeid(): READY, whatever the state was, TERM included.            *)
Yielded(f) ==
  /\ state' = [state EXCEPT ![f] = "READY"]
  /\ tFiber' = Back(f)
  /\ Swapped(f, Back(f))
  /\ UNCHANGED tSchedulerFiber

At(f, label) == cpu = f /\ point[f] = label
Goto(f, label) == point' = [point EXCEPT ![f] = label]

(* Fiber::GetThis() makes the main fiber, which is RUNNING.                *)
MainFiberMade == /\ tFiber' = MainFiber
                 /\ state' = [state EXCEPT ![MainFiber] = "RUNNING"]

(* Mutant of Construct: the scheduler's fiber is not made known.           *)
ConstructWrongMain ==
  /\ At(MainFiber, "none")
  /\ MainFiberMade /\ tSchedulerFiber' = MainFiber
  /\ Goto(MainFiber, "app")
  /\ UNCHANGED <<cpu, saved, queue, stopping, bounds>>

(* The constructor of the Scheduler: the main fiber, m_schedulerFiber and  *)
(* SetScheduler.  start() creates no thread.                               *)
Construct ==
  /\ At(MainFiber, "none")
  /\ MainFiberMade /\ tSchedulerFiber' = SchedulerFiber
  /\ Goto(MainFiber, "app")
  /\ UNCHANGED <<cpu, saved, queue, stopping, bounds>>

---------------------------------------------------------------------------
(* The fiber whose code is the application's: main, a task or a direct one.*)
Application == /\ cpu \in Tasks \cup Direct \cup {MainFiber}
               /\ point[cpu] \in {"app", "body"}

(* Mutant of Schedule: the fiber that calls is pushed.                     *)
ScheduleWrongSelf(f, mine) ==
  /\ Application
  /\ schedules < MaxSchedules /\ schedules' = schedules + 1
  /\ queue' = Append(queue, [fiber |-> cpu, mine |-> mine])
  /\ UNCHANGED <<contexts, point, stopping, yields>>

(* scheduleLock, for this thread or for any: the fiber may be queued       *)
(* already, be the one that calls, or have ended; nothing is asked.        *)
Schedule(f, mine) ==
  /\ Application
  /\ schedules < MaxSchedules /\ schedules' = schedules + 1
  /\ queue' = Append(queue, [fiber |-> f, mine |-> mine])
  /\ UNCHANGED <<contexts, point, stopping, yields>>

(* A fiber is entered or goes on; one that has ended returns from MainFunc *)
(* and, having no uc_link, ends the process.                               *)
Entered(f) == IF point[f] = "ended" THEN "none" ELSE "body"

Continued(f) ==
  IF point[f] = "ended"
  THEN /\ cpu' = None
       /\ UNCHANGED <<saved, state, tFiber, tSchedulerFiber>>
  ELSE Resumed(f)

(* Main resumes a fiber itself; getState() does not tell one that has      *)
(* ended.                                                                  *)
RunDirect(f) ==
  /\ At(MainFiber, "app")
  /\ point' = [point EXCEPT ![MainFiber] = "resumed", ![f] = Entered(f)]
  /\ Continued(f)
  /\ UNCHANGED <<queue, stopping, bounds>>

Returned ==
  /\ At(MainFiber, "resumed")
  /\ Goto(MainFiber, "app")
  /\ UNCHANGED <<contexts, queue, stopping, bounds>>

(* Fiber::reset() of another fiber makes a new context; no state is asked. *)
Reset(f) ==
  /\ Application /\ f # cpu
  /\ yields < MaxYields /\ yields' = yields + 1
  /\ state' = [state EXCEPT ![f] = "READY"]
  /\ saved' = [saved EXCEPT ![f] = f]
  /\ Goto(f, "new")
  /\ UNCHANGED <<cpu, tFiber, tSchedulerFiber, queue, stopping, schedules>>

(* stop(): nothing when m_stopping is set already, else the scheduler's    *)
(* fiber is resumed.                                                       *)
StopEarly ==
  /\ At(MainFiber, "app") /\ stopping
  /\ Goto(MainFiber, "end")
  /\ UNCHANGED <<contexts, queue, stopping, bounds>>

Stop ==
  /\ At(MainFiber, "app") /\ ~stopping
  /\ stopping' = TRUE
  /\ point' = [point EXCEPT ![MainFiber] = "stop", ![SchedulerFiber] = "scan"]
  /\ Resumed(SchedulerFiber)
  /\ UNCHANGED <<queue, bounds>>

---------------------------------------------------------------------------
ResumedBy(f) == Goto(f, Entered(f)) /\ Continued(f)

(* Mutant of Take: the vector is cleared where one element is erased.      *)
TakeWrongLost ==
  /\ At(SchedulerFiber, "scan")
  /\ queue # << >> /\ Head(queue).mine
  /\ queue' = << >>
  /\ ResumedBy(Head(queue).fiber)
  /\ UNCHANGED <<stopping, bounds>>

(* run(): a first task for this thread is taken and resumed; a callback    *)
(* gets a fiber of its own before, so that it is a task like the others.   *)
Take ==
  /\ At(SchedulerFiber, "scan")
  /\ queue # << >> /\ Head(queue).mine
  /\ queue' = Tail(queue)
  /\ ResumedBy(Head(queue).fiber)
  /\ UNCHANGED <<stopping, bounds>>

(* A first task for any thread: `continue' without advancing the iterator. *)
Spin ==
  /\ At(SchedulerFiber, "scan")
  /\ queue # << >> /\ ~Head(queue).mine
  /\ Goto(SchedulerFiber, "spin")
  /\ UNCHANGED <<contexts, queue, stopping, bounds>>

(* No task: the idle fiber is resumed unless it is TERM.  It is READY when *)
(* run() tests it, also after its end, so run() is never left this way and *)
(* stop() does not return.                                                 *)
ResumeIdle ==
  /\ At(SchedulerFiber, "scan")
  /\ queue = << >> /\ state[IdleFiber] # "TERM"
  /\ ResumedBy(IdleFiber)
  /\ UNCHANGED <<queue, stopping, bounds>>

(* A fiber yields; it goes on when somebody resumes or schedules it again. *)
YieldTask(f) ==
  /\ At(f, "body")
  /\ yields < MaxYields /\ yields' = yields + 1
  /\ Yielded(tFiber)
  /\ UNCHANGED <<point, queue, stopping, schedules>>

(* MainFunc(): m_cb has returned; the fiber that t_fiber named at the      *)
(* start yields for the last time.                                         *)
End(f) ==
  /\ At(f, "body")
  /\ Goto(f, "ended")
  /\ Yielded(f)
  /\ UNCHANGED <<queue, stopping, bounds>>

(* idle(): nothing wakes its wait, which it enters unless m_stopping is    *)
(* set; but the idle fiber runs only after stop() was called.              *)
Idle == stopping /\ End(IdleFiber)

---------------------------------------------------------------------------
Next ==
  \/ Construct \/ Returned \/ StopEarly \/ Stop
  \/ Take \/ Spin \/ ResumeIdle \/ Idle
  \/ \E f \in Tasks, mine \in BOOLEAN : Schedule(f, mine)
  \/ \E f \in Direct : RunDirect(f)
  \/ \E f \in Tasks \cup Direct : Reset(f) \/ YieldTask(f) \/ End(f)

Spec == Init /\ [][Next]_vars

(* The process is scheduled, and the application calls stop() in the end.  *)
FairSpec == Spec /\ WF_vars(Next) /\ WF_vars(Stop \/ StopEarly)

---------------------------------------------------------------------------
(* t_fiber names the fiber on whose stack the code runs, in fibers resumed *)
(* by main and by the scheduler alike (2fiber/fiber.cc:72, 88): yeid() and *)
(* GetThis() rely on it.                                                   *)
CurrentIsExecuting == cpu # None /\ tFiber # None => tFiber = cpu

(* A context that is not running holds its own stack, so that a resume()   *)
(* or yeid() never goes on with another fiber's code.                      *)
ContextsOwn == \A f \in Fibers : saved[f] = f

(* What a program can rely on at the end.  Orderly: no fiber is queued for *)
(* any thread, on which run() spins (3schedule/schedule.cc:129), nor after *)
(* its end, when resuming it ends the process (fiber.cc:108).  Then, if    *)
(* m_stopping happened to be false at first, every fiber that is queued    *)
(* when stop() is called, or later, gets the processor before run() lets   *)
(* the process end.                                                        *)
Queued(f) == \E i \in 1..Len(queue) : queue[i].fiber = f
Orderly == \A i \in 1..Len(queue) : queue[i].mine /\ point[queue[i].fiber] # "ended"

StopServes == ~stopping /\ []Orderly => \A f \in Tasks : stopping /\ Queued(f) ~> cpu = f
=============================================================================
