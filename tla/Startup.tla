------------------------------ MODULE Startup ------------------------------
(* A Scheduler that is no IOManager: its constructor, start(), which       *)
(* creates the threads one by one under m_mutex and waits for each on a    *)
(* semaphore, run() with the idle() of the base class, and stop().         *)
(* tickle() of the base class is empty and nobody notifies m_cond: a       *)
(* thread in idle() goes on when the wait wakes up spuriously, if ever.    *)
EXTENDS Integers, Sequences

CONSTANTS
  N,           \* how many threads start() creates: m_threadNum
  Tasks        \* the tasks of the application

ASSUME NAssumption == N \in Nat

Main == 0
Workers == 1..N
Threads == 0..N
Unset == N + 1  \* m_id = -1
Any == N + 1    \* thread = -1

VARIABLES
  userCaller,  \* m_user_caller: whether the creating thread works too
  current,   \* t_scheduler, one plain global: whether it is this scheduler
  pc,        \* where each thread is
  next,      \* i of start(): the thread it creates; in stop() the one it joins
  id,        \* Thread::m_id of each worker
  count,     \* Semaphore::count of each worker's Thread
  ids,       \* m_threadIds
  stopping,  \* m_stopping
  state,     \* of each task: "new", "queued", "taken" or "done"
  target,    \* the thread a task is for, or Any
  work,      \* the tasks a thread has taken
  idle       \* whether its idle fiber has ended

startVars == <<userCaller, current, next, id, count, ids>>
taskVars  == <<state, target, work>>
vars == <<startVars, pc, stopping, taskVars, idle>>

MainLabels   == {"new", "create", "wait", "push", "app", "join", "over", "gone", "aborted"}
WorkerLabels == {"none", "born", "signal", "exit"}
RunLabels    == {"run", "scan", "task", "enter", "sleep", "woken"}

TypeOK ==
  /\ userCaller \in BOOLEAN /\ current \in BOOLEAN
  /\ pc \in [Threads -> MainLabels \cup WorkerLabels \cup RunLabels]
  /\ next \in 1..(N + 1)
  /\ id \in [Workers -> Workers \cup {Unset}]
  /\ count \in [Workers -> 0..1]
  /\ ids \in Seq(Threads \cup {Unset})
  /\ stopping \in BOOLEAN
  /\ state \in [Tasks -> {"new", "queued", "taken", "done"}]
  /\ target \in [Tasks -> Threads \cup {Any}]
  /\ work \in [Threads -> SUBSET Tasks]
  /\ idle \in [Threads -> BOOLEAN]

Init ==
  /\ userCaller \in BOOLEAN /\ current = FALSE
  /\ pc = [t \in Threads |-> IF t = Main THEN "new" ELSE "none"]
  /\ next = 1
  /\ id = [w \in Workers |-> Unset]
  /\ count = [w \in Workers |-> 0]
  /\ ids = << >>
  /\ stopping = FALSE
  /\ state = [k \in Tasks |-> "new"]
  /\ target = [k \in Tasks |-> Any]
  /\ work = [t \in Threads |-> {}]
  /\ idle = [t \in Threads |-> FALSE]

---------------------------------------------------------------------------
Goto(t, label) == pc' = [pc EXCEPT ![t] = label]

(* start() holds m_mutex until every thread has been created.              *)
Starting == pc[Main] \in {"create", "wait", "push"}

(* The constructor: no scheduler may exist yet; the caller is thread one.  *)
Construct ==
  /\ pc[Main] = "new" /\ ~current
  /\ current' = TRUE
  /\ ids' = IF userCaller THEN <<Main>> ELSE << >>
  /\ Goto(Main, "create")
  /\ UNCHANGED <<userCaller, next, id, count, stopping, taskVars, idle>>

(* new Thread: pthread_create, then m_semaphore.wait().                    *)
Create ==
  /\ pc[Main] = "create" /\ next <= N
  /\ pc' = [pc EXCEPT ![Main] = "wait", ![next] = "born"]
  /\ UNCHANGED <<startVars, stopping, taskVars, idle>>

Wait ==
  /\ pc[Main] = "wait" /\ count[next] > 0
  /\ count' = [count EXCEPT ![next] = @ - 1]
  /\ Goto(Main, "push")
  /\ UNCHANGED <<userCaller, current, next, id, ids, stopping, taskVars, idle>>

PushId ==
  /\ pc[Main] = "push"
  /\ ids' = Append(ids, id[next])
  /\ next' = next + 1
  /\ Goto(Main, "create")
  /\ UNCHANGED <<userCaller, current, id, count, stopping, taskVars, idle>>

Started ==
  /\ pc[Main] = "create" /\ next > N
  /\ next' = 1
  /\ Goto(Main, "app")
  /\ UNCHANGED <<userCaller, current, id, count, ids, stopping, taskVars, idle>>

(* Mutant of Publish: the semaphore is signalled first.                    *)
PublishWrongLate(w) ==
  /\ pc[w] = "born"
  /\ count' = [count EXCEPT ![w] = @ + 1]
  /\ Goto(w, "signal")
  /\ UNCHANGED <<userCaller, current, next, id, ids, stopping, taskVars, idle>>

(* Mutant of Publish: the semaphore is signalled here, and again later.    *)
PublishWrongTwice(w) ==
  /\ pc[w] = "born"
  /\ id' = [id EXCEPT ![w] = w]
  /\ count' = [count EXCEPT ![w] = @ + 1]
  /\ Goto(w, "signal")
  /\ UNCHANGED <<userCaller, current, next, ids, stopping, taskVars, idle>>

(* Thread::run: the new thread makes its id known.                         *)
Publish(w) ==
  /\ pc[w] = "born"
  /\ id' = [id EXCEPT ![w] = w]
  /\ Goto(w, "signal")
  /\ UNCHANGED <<userCaller, current, next, count, ids, stopping, taskVars, idle>>

(* Mutant of Signal: run() is entered, and waits for m_mutex, before the   *)
(* semaphore is signalled.                                                 *)
SignalWrongAfter(w) ==
  /\ pc[w] = "signal" /\ ~Starting
  /\ count' = [count EXCEPT ![w] = @ + 1]
  /\ Goto(w, "run")
  /\ UNCHANGED <<userCaller, current, next, id, ids, stopping, taskVars, idle>>

(* m_semaphore.singal(), then cb(), which is Scheduler::run.               *)
Signal(w) ==
  /\ pc[w] = "signal"
  /\ count' = [count EXCEPT ![w] = @ + 1]
  /\ Goto(w, "run")
  /\ UNCHANGED <<userCaller, current, next, id, ids, stopping, taskVars, idle>>

(* run(): SetThis(), and a new idle fiber.                                 *)
EnterRun(t) ==
  /\ pc[t] = "run"
  /\ current' = TRUE
  /\ Goto(t, "scan")
  /\ UNCHANGED <<userCaller, next, id, count, ids, stopping, taskVars, idle>>

---------------------------------------------------------------------------
(* scheduleLock by the application or by a task, for any thread or for a   *)
(* named one: nothing asks whether that thread still looks for tasks.      *)
Push(k, for) ==
  /\ state[k] = "new"
  /\ state' = [state EXCEPT ![k] = "queued"]
  /\ target' = [target EXCEPT ![k] = for]

Post(k, for) ==
  /\ pc[Main] = "app"
  /\ Push(k, for)
  /\ UNCHANGED <<startVars, pc, stopping, work, idle>>

PostFromTask(t, k, for) ==
  /\ pc[t] = "task"
  /\ Push(k, for)
  /\ UNCHANGED <<startVars, pc, stopping, work, idle>>

(* Mutant of Mine: tasks for any thread are passed over.                   *)
MineWrongOwn(t) == {k \in Tasks : state[k] = "queued" /\ target[k] = t}

(* run() under m_mutex: the first task for this thread or for any.         *)
Mine(t) == {k \in Tasks : state[k] = "queued" /\ target[k] \in {t, Any}}

Take(t, k) ==
  /\ pc[t] = "scan" /\ ~Starting
  /\ k \in Mine(t)
  /\ state' = [state EXCEPT ![k] = "taken"]
  /\ work' = [work EXCEPT ![t] = {k}]
  /\ Goto(t, "task")
  /\ UNCHANGED <<startVars, stopping, target, idle>>

Finish(t) ==
  /\ pc[t] = "task"
  /\ state' = [k \in Tasks |-> IF k \in work[t] THEN "done" ELSE state[k]]
  /\ work' = [work EXCEPT ![t] = {}]
  /\ Goto(t, "scan")
  /\ UNCHANGED <<startVars, stopping, target, idle>>

(* Mutant of Leave: a thread leaves whatever is queued, once its idle      *)
(* fiber has ended.                                                        *)
LeaveWrongEarly(t) ==
  /\ pc[t] = "scan" /\ ~Starting
  /\ idle[t]
  /\ Goto(t, IF t = Main THEN "join" ELSE "exit")
  /\ UNCHANGED <<startVars, stopping, taskVars, idle>>

(* No task: run() ends when the idle fiber has, else resumes it.           *)
Leave(t) ==
  /\ pc[t] = "scan" /\ ~Starting
  /\ Mine(t) = {} /\ idle[t]
  /\ Goto(t, IF t = Main THEN "join" ELSE "exit")
  /\ UNCHANGED <<startVars, stopping, taskVars, idle>>

ResumeIdle(t) ==
  /\ pc[t] = "scan" /\ ~Starting
  /\ Mine(t) = {} /\ ~idle[t]
  /\ Goto(t, "enter")
  /\ UNCHANGED <<startVars, stopping, taskVars, idle>>

(* idle() locks and tests m_stopping, the first time and after a yield.    *)
Idle(t) ==
  /\ pc[t] = "enter" /\ ~Starting
  /\ idle' = [idle EXCEPT ![t] = stopping]
  /\ Goto(t, IF stopping THEN "scan" ELSE "sleep")
  /\ UNCHANGED <<startVars, stopping, taskVars>>

(* m_cond.wait(lock) returns, spuriously, and the idle fiber yields.       *)
WakeUp(t) ==
  /\ pc[t] = "sleep" /\ ~Starting
  /\ Goto(t, "woken")
  /\ UNCHANGED <<startVars, stopping, taskVars, idle>>

YieldIdle(t) ==
  /\ pc[t] = "woken"
  /\ Goto(t, "scan")
  /\ UNCHANGED <<startVars, stopping, taskVars, idle>>

---------------------------------------------------------------------------
(* stop(): m_stopping, the assertion on t_scheduler, then the caller's own *)
(* run().                                                                  *)
Stop ==
  /\ pc[Main] = "app" /\ ~stopping
  /\ stopping' = TRUE
  /\ Goto(Main, IF userCaller # current THEN "aborted"
                ELSE IF userCaller THEN "run" ELSE "join")
  /\ UNCHANGED <<startVars, taskVars, idle>>

Join ==
  /\ pc[Main] = "join" /\ next <= N
  /\ pc[next] = "exit"
  /\ next' = next + 1
  /\ UNCHANGED <<userCaller, current, id, count, ids, pc, stopping, taskVars, idle>>

Stopped ==
  /\ pc[Main] = "join" /\ next > N
  /\ Goto(Main, "over")
  /\ UNCHANGED <<startVars, stopping, taskVars, idle>>

(* The destructor.                                                         *)
Destroy ==
  /\ pc[Main] = "over"
  /\ current' = FALSE
  /\ Goto(Main, "gone")
  /\ UNCHANGED <<userCaller, next, id, count, ids, stopping, taskVars, idle>>

---------------------------------------------------------------------------
StartStep == Construct \/ Create \/ Wait \/ PushId \/ Started

RunStep(t) == \/ EnterRun(t)
              \/ \E k \in Tasks : Take(t, k)
              \/ Finish(t) \/ Leave(t) \/ ResumeIdle(t) \/ Idle(t) \/ YieldIdle(t)

Next ==
  /\ pc[Main] # "aborted"
  /\ \/ StartStep \/ Stop \/ Join \/ Stopped \/ Destroy
     \/ \E w \in Workers : Publish(w) \/ Signal(w)
     \/ \E t \in Threads : RunStep(t) \/ WakeUp(t)
     \/ \E k \in Tasks, for \in Threads \cup {Any} :
          Post(k, for) \/ \E t \in Threads : PostFromTask(t, k, for)

Spec == Init /\ [][Next]_vars

(* Threads are scheduled.  Nothing makes a wait on m_cond wake up.         *)
FairSpec == /\ Spec
            /\ WF_vars(pc[Main] # "aborted" /\ (StartStep \/ Join \/ Stopped))
            /\ \A w \in Workers : WF_vars(pc[Main] # "aborted" /\ (Publish(w) \/ Signal(w)))
            /\ \A t \in Threads : WF_vars(pc[Main] # "aborted" /\ RunStep(t))

---------------------------------------------------------------------------
(* m_threadIds never receives the -1 of a thread that has not yet stored   *)
(* its id: the constructor of Thread waits for it (thread.cc:23, 50).      *)
IdsPublished ==
  /\ \A i \in 1..Len(ids) : ids[i] # Unset
  /\ \A i, j \in 1..Len(ids) : ids[i] = ids[j] => i = j

(* start() returns although it holds m_mutex, for which every new thread   *)
(* asks in run(), while it waits for that thread (schedule.cc:50, 61).     *)
StartReturns == <>(pc[Main] = "app")

(* A task that was pushed for a thread after that thread had left run():   *)
(* nobody else takes it, and it is still queued when stop() has returned.  *)
Left(t) == pc[t] \in {"exit", "join", "over", "gone"}
Stranded(k) == state[k] = "queued" /\ target[k] # Any /\ Left(target[k])
Requested == {k \in Tasks : state[k] = "queued" /\ ~Stranded(k)}

(* To the application this scheduler is the pool that an IOManager is too: *)
(* a queued task is requested, and run by one thread (schedule.cc:148-206),*)
(* and the pool closes when stop() returns.  Only a push for a thread that *)
(* has already left is no request: it strands its task.  No other task is  *)
(* left behind, because a thread that leaves looked at the queue after its *)
(* idle fiber had ended (schedule.cc:216).                                 *)
Stage(k) == CASE state[k] \in {"new", "queued"} -> "READY"
              [] state[k] = "taken" -> "RUNNING"
              [] state[k] = "done" -> "TERM"

Pool == INSTANCE TaskPool WITH
          Fibers <- Tasks,
          state <- [k \in Tasks |-> Stage(k)],
          requested <- Requested,
          closed <- pc[Main] \in {"over", "gone"}

ImplementsPool == Pool!Spec

(* Every task that is due to the caller, or to any thread, is run after    *)
(* stop() was called, whatever the other threads do in idle(); except what *)
(* is pushed for the caller when it has left run().                        *)
CallerServes ==
  stopping /\ userCaller ~>
    \A k \in Requested : target[k] \notin {Main, Any}
=============================================================================
