------------------------------- MODULE HookIo -------------------------------
(* The hooked calls that wait: io_do (read, write, recv, send, accept and  *)
(* their variants), connect and the sleeps.  A fiber that would block      *)
(* registers itself with the IOManager or adds a timer, and yields; a      *)
(* report or the timer puts it in the task queue, and any thread resumes   *)
(* it.  A timer may expire at any time.  What FdManager answers for a      *)
(* descriptor is given from the start: a socket has a context only after   *)
(* the application called init() on one that was made earlier (FdManager). *)
EXTENDS FiniteSets, Integers

CONSTANTS
  Fibers,     \* fibers that make calls
  Threads,    \* worker threads
  Hooked,     \* those whose t_hook_enable the application has set
  Fds,        \* descriptors, below TableSize
  Contexts,   \* the contexts FdManager may hold for a descriptor
  TableSize,  \* m_fdContexts.size()
  NoThread, Nobody, Callback,
  MaxCalls    \* bound on the calls of a fiber

Dirs == {"READ", "WRITE"}
Context == [known : BOOLEAN, closed : BOOLEAN, socket : BOOLEAN,
            userNonblock : BOOLEAN, timed : SUBSET Dirs]

ASSUME ContextsAssumption == Contexts \subseteq Context
ASSUME SizeAssumption == TableSize \in Nat /\ Fds \subseteq 0..(TableSize - 1)
ASSUME CallsAssumption == MaxCalls \in Nat
ASSUME NamesAssumption == /\ Hooked \subseteq Threads
                          /\ NoThread \notin Threads
                          /\ Nobody \notin Fibers /\ Callback \notin Fibers /\ Nobody # Callback

VARIABLES
  ctx,        \* what FdManager::get answers for a descriptor
  nonblock,   \* O_NONBLOCK in the kernel
  ready,      \* the directions a call would not block in
  waiter,     \* who waits for a direction: a fiber or a callback
  timers,     \* the timers of the hooks, until they expire
  queued,     \* the fibers in the task queue
  on,         \* the thread a fiber runs on
  pc, op,     \* where it is, and in which call
  number,     \* its calls so far
  cancelled   \* timer_info::cancelled of its call: the number of the call whose timer
              \* set it, 0 while it is not set

kernelVars == <<nonblock, ready>>
vars == <<ctx, kernelVars, waiter, timers, queued, on, pc, op, number, cancelled>>

Operations == [name : {"io"}, fd : Fds, dir : Dirs, timed : {FALSE}]
              \cup [name : {"connect"}, fd : Fds, dir : {"WRITE"}, timed : BOOLEAN]
Sleeps == [name : {"sleep", "usleep"}]
Asleep == [name |-> "sleep"]
NoCall == [name |-> "none"]

TypeOK ==
  /\ ctx \in [Fds -> Context]
  /\ nonblock \in [Fds -> BOOLEAN]
  /\ ready \in [Fds -> SUBSET Dirs]
  /\ waiter \in [Fds -> [Dirs -> Fibers \cup {Nobody, Callback}]]
  /\ timers \subseteq [fiber : Fibers, number : 1..MaxCalls, kind : {"io", "sleep"}]
  /\ queued \subseteq Fibers
  /\ on \in [Fibers -> Threads \cup {NoThread}]
  /\ pc \in [Fibers -> {"app", "raw", "try", "add", "yield", "check", "sockopt", "return", "end"}]
  /\ op \in [Fibers -> Operations \cup Sleeps \cup {NoCall}]
  /\ number \in [Fibers -> 0..MaxCalls]
  /\ cancelled \in [Fibers -> 0..MaxCalls]

(* Every fiber is scheduled.                                               *)
Init ==
  /\ ctx \in [Fds -> Contexts]
  /\ nonblock \in [Fds -> BOOLEAN]
  /\ ready = [d \in Fds |-> {}]
  /\ waiter = [d \in Fds |-> [dir \in Dirs |-> Nobody]]
  /\ timers = {}
  /\ queued = Fibers
  /\ on = [f \in Fibers |-> NoThread]
  /\ pc = [f \in Fibers |-> "app"]
  /\ op = [f \in Fibers |-> NoCall]
  /\ number = [f \in Fibers |-> 0]
  /\ cancelled = [f \in Fibers |-> 0]

---------------------------------------------------------------------------
Goto(f, label) == pc' = [pc EXCEPT ![f] = label]
At(f, label) == on[f] # NoThread /\ pc[f] = label
Waits(f) == op[f].name \in {"io", "connect"}

(* The call is over; its timer_info is destroyed.                          *)
Return(f) == /\ Goto(f, "app")
             /\ op' = [op EXCEPT ![f] = NoCall]
             /\ cancelled' = [cancelled EXCEPT ![f] = 0]

(* The timer a call adds: SO_RCVTIMEO or SO_SNDTIMEO of the context, or    *)
(* the argument of connect_with_timeout.                                   *)
Timed(f) == IF op[f].name = "io" THEN op[f].dir \in ctx[op[f].fd].timed ELSE op[f].timed
Timer(f, kind) == [fiber |-> f, number |-> number[f], kind |-> kind]

HookEnabled(f) == on[f] \in Hooked

Begin(f, call) ==
  /\ At(f, "app")
  /\ number[f] < MaxCalls
  /\ number' = [number EXCEPT ![f] = @ + 1]
  /\ UNCHANGED <<ctx, kernelVars, waiter, queued, on, cancelled>>
Enter(f, call, label) == Goto(f, label) /\ op' = [op EXCEPT ![f] = call]

(* The hooks are off, the descriptor is no socket, or the user wants it    *)
(* non-blocking: the original function is called.                          *)
Plain(d) == ctx[d].known /\ ~ctx[d].closed /\ (~ctx[d].socket \/ ctx[d].userNonblock)

CallRaw(f, call) ==
  /\ Begin(f, call)
  /\ HookEnabled(f) => call \in Operations /\ Plain(call.fd)
  /\ Enter(f, call, "raw")
  /\ UNCHANGED timers

(* No context, or a closed one: -1.                                        *)
CallRefused(f, call) ==
  /\ Begin(f, call)
  /\ HookEnabled(f) /\ call \in Operations
  /\ ~ctx[call.fd].known \/ ctx[call.fd].closed
  /\ UNCHANGED <<timers, pc, op>>

CallTry(f, call) ==
  /\ Begin(f, call)
  /\ HookEnabled(f) /\ call \in Operations
  /\ ctx[call.fd].known /\ ~ctx[call.fd].closed /\ ~Plain(call.fd)
  /\ Enter(f, call, "try")
  /\ UNCHANGED timers

(* sleep, usleep and nanosleep: a timer schedules the fiber.               *)
CallSleep(f, call) ==
  /\ Begin(f, call)
  /\ HookEnabled(f) /\ call \in Sleeps
  /\ timers' = timers \cup {[fiber |-> f, number |-> number'[f], kind |-> "sleep"]}
  /\ Enter(f, Asleep, "yield")

(* The original function: it blocks the thread unless the descriptor is    *)
(* ready or non-blocking.  usleep goes on to the timer.                    *)
Consumed(f) == IF op[f].name = "io" THEN [ready EXCEPT ![op[f].fd] = @ \ {op[f].dir}] ELSE ready

RawDone(f) ==
  /\ At(f, "raw")
  /\ op[f].name # "usleep"
  /\ Waits(f) => \/ ~ctx[op[f].fd].socket \/ nonblock[op[f].fd]
                 \/ op[f].dir \in ready[op[f].fd]
  /\ ready' = Consumed(f)
  /\ Return(f)
  /\ UNCHANGED <<ctx, nonblock, waiter, timers, queued, on, number>>

RawSlept(f) ==
  /\ At(f, "raw")
  /\ op[f].name = "usleep"
  /\ timers' = timers \cup {Timer(f, "sleep")}
  /\ Enter(f, Asleep, "yield")
  /\ UNCHANGED <<ctx, kernelVars, waiter, queued, on, number, cancelled>>

---------------------------------------------------------------------------
(* The first call succeeds.  connect returns 0; io_do ends without a       *)
(* return statement.                                                       *)
TryDone(f) ==
  /\ At(f, "try")
  /\ op[f].dir \in ready[op[f].fd]
  /\ ready' = Consumed(f)
  /\ Return(f)
  /\ UNCHANGED <<ctx, nonblock, waiter, timers, queued, on, number>>

(* EAGAIN or EINPROGRESS, which only a non-blocking descriptor gives: the  *)
(* timer is added, and the variable that should name it stays null.        *)
TryAgain(f) ==
  /\ At(f, "try")
  /\ op[f].dir \notin ready[op[f].fd] /\ nonblock[op[f].fd]
  /\ timers' = IF Timed(f) THEN timers \cup {Timer(f, "io")} ELSE timers
  /\ Goto(f, "add")
  /\ UNCHANGED <<ctx, kernelVars, waiter, queued, on, op, number, cancelled>>

(* Mutant of Registered: the worker is registered, not the fiber.          *)
RegisteredWrongThread(f) == on[f]

(* ctx.fiber = Fiber::GetThis().                                           *)
Registered(f) == f

(* addEvent without a callback: the fiber waits for the direction.         *)
AddEvent(f) ==
  /\ At(f, "add")
  /\ waiter[op[f].fd][op[f].dir] = Nobody
  /\ waiter' = [waiter EXCEPT ![op[f].fd][op[f].dir] = Registered(f)]
  /\ Goto(f, "yield")
  /\ UNCHANGED <<ctx, kernelVars, timers, queued, on, op, number, cancelled>>

(* addEvent returns -1, because the direction has a waiter or because      *)
(* epoll_ctl fails: io_do ends without a return statement, connect goes on *)
(* as if it had waited.                                                    *)
AddRefused(f) ==
  /\ At(f, "add")
  /\ IF op[f].name = "connect" THEN Goto(f, "sockopt") /\ UNCHANGED <<op, cancelled>>
     ELSE Return(f)
  /\ UNCHANGED <<ctx, kernelVars, waiter, timers, queued, on, number>>

Yield(f) ==
  /\ At(f, "yield")
  /\ on' = [on EXCEPT ![f] = NoThread]
  /\ Goto(f, IF Waits(f) THEN "check" ELSE "return")
  /\ UNCHANGED <<ctx, kernelVars, waiter, timers, queued, op, number, cancelled>>

(* A thread takes the fiber from the queue, once it has yielded.           *)
Resume(f, t) ==
  /\ f \in queued /\ on[f] = NoThread
  /\ \A g \in Fibers : on[g] # t
  /\ queued' = queued \ {f}
  /\ on' = [on EXCEPT ![f] = t]
  /\ UNCHANGED <<ctx, kernelVars, waiter, timers, pc, op, number, cancelled>>

(* After the wait io_do compares the bool `cancelled' with ETIMEDOUT, so   *)
(* it always tries again; connect fails with errno 1.                      *)
Check(f) ==
  /\ At(f, "check")
  /\ IF op[f].name = "connect" /\ cancelled[f] # 0 THEN Return(f)
     ELSE /\ Goto(f, IF op[f].name = "io" THEN "try" ELSE "sockopt")
          /\ UNCHANGED <<op, cancelled>>
  /\ UNCHANGED <<ctx, kernelVars, waiter, timers, queued, on, number>>

(* connect asks for SO_ERROR.                                              *)
SockOpt(f) ==
  /\ At(f, "sockopt")
  /\ Return(f)
  /\ UNCHANGED <<ctx, kernelVars, waiter, timers, queued, on, number>>

Slept(f) ==
  /\ At(f, "return")
  /\ Return(f)
  /\ UNCHANGED <<ctx, kernelVars, waiter, timers, queued, on, number>>

---------------------------------------------------------------------------
(* Triggering a slot: whoever waits there is scheduled.                    *)
Triggered(d, dir) == queued \cup ({waiter[d][dir]} \cap Fibers)

(* Mutant of Emptied: the whole context is reset, not the direction.       *)
EmptiedWrongBoth(d, dir) == [waiter EXCEPT ![d] = [x \in Dirs |-> Nobody]]

(* The slot is free again.                                                 *)
Emptied(d, dir) == [waiter EXCEPT ![d][dir] = Nobody]

(* Mutants of Report: the slot is not emptied; only reads are reported.    *)
ReportWrongKept(d, dir) ==
  /\ dir \in ready[d] /\ waiter[d][dir] # Nobody
  /\ queued' = Triggered(d, dir)
  /\ UNCHANGED <<ctx, kernelVars, waiter, timers, on, pc, op, number, cancelled>>

ReportWrongReads(d, dir) ==
  /\ dir = "READ" /\ dir \in ready[d] /\ waiter[d][dir] # Nobody
  /\ queued' = Triggered(d, dir)
  /\ waiter' = Emptied(d, dir)
  /\ UNCHANGED <<ctx, kernelVars, timers, on, pc, op, number, cancelled>>

(* idle() handles the report of a direction that is ready.                 *)
Report(d, dir) ==
  /\ dir \in ready[d] /\ waiter[d][dir] # Nobody
  /\ queued' = Triggered(d, dir)
  /\ waiter' = Emptied(d, dir)
  /\ UNCHANGED <<ctx, kernelVars, timers, on, pc, op, number, cancelled>>

(* cancelEvent returns early unless fd > size().                           *)
CancelEvent(d, dir) ==
  IF d > TableSize THEN queued' = Triggered(d, dir) /\ waiter' = Emptied(d, dir)
                   ELSE UNCHANGED <<queued, waiter>>

(* Mutant of Alive: the condition is not tied to one call.                 *)
AliveWrongAny(timer) == Waits(timer.fiber)

(* The weak condition of a timer: timer_info lives as long as the call.    *)
Alive(timer) == number[timer.fiber] = timer.number /\ pc[timer.fiber] \notin {"app", "end"}

FireIo(timer) ==
  /\ timer \in timers /\ timer.kind = "io"
  /\ timers' = timers \ {timer}
  /\ IF Alive(timer) /\ cancelled[timer.fiber] = 0
     THEN /\ cancelled' = [cancelled EXCEPT ![timer.fiber] = timer.number]
          /\ CancelEvent(op[timer.fiber].fd, op[timer.fiber].dir)
     ELSE UNCHANGED <<cancelled, queued, waiter>>
  /\ UNCHANGED <<ctx, kernelVars, on, pc, op, number>>

FireSleep(timer) ==
  /\ timer \in timers /\ timer.kind = "sleep"
  /\ timers' = timers \ {timer}
  /\ queued' = queued \cup {timer.fiber}
  /\ UNCHANGED <<ctx, kernelVars, waiter, on, pc, op, number, cancelled>>

(* The application calls delEvent, which has the same early return and     *)
(* else empties the slot without scheduling anybody.                       *)
DelEvent(f, d, dir) ==
  /\ At(f, "app")
  /\ number[f] < MaxCalls
  /\ number' = [number EXCEPT ![f] = @ + 1]
  /\ waiter' = IF d > TableSize THEN Emptied(d, dir) ELSE waiter
  /\ UNCHANGED <<ctx, kernelVars, timers, queued, on, pc, op, cancelled>>

(* cancelAll(d) has the same early return.                                 *)
CancelAll(d) ==
  IF d > TableSize
  THEN /\ queued' = queued \cup ({waiter[d][dir] : dir \in Dirs} \cap Fibers)
       /\ waiter' = [waiter EXCEPT ![d] = [dir \in Dirs |-> Nobody]]
  ELSE UNCHANGED <<queued, waiter>>

(* close() with hooks: cancelAll and FdManager::del.                       *)
Close(f, d) ==
  /\ At(f, "app")
  /\ HookEnabled(f) /\ ctx[d].known
  /\ CancelAll(d)
  /\ ctx' = [ctx EXCEPT ![d].known = FALSE]
  /\ UNCHANGED <<kernelVars, timers, on, pc, op, number, cancelled>>

(* The application registers a callback with IOManager::addEvent.          *)
RegisterCallback(f, d, dir) ==
  /\ At(f, "app")
  /\ number[f] < MaxCalls
  /\ number' = [number EXCEPT ![f] = @ + 1]
  /\ waiter[d][dir] = Nobody
  /\ waiter' = [waiter EXCEPT ![d][dir] = Callback]
  /\ UNCHANGED <<ctx, kernelVars, timers, queued, on, pc, op, cancelled>>

(* The function of the fiber returns.                                      *)
End(f) ==
  /\ At(f, "app")
  /\ Goto(f, "end")
  /\ on' = [on EXCEPT ![f] = NoThread]
  /\ UNCHANGED <<ctx, kernelVars, waiter, timers, queued, op, number, cancelled>>

(* The peer sends, or makes room.                                          *)
BecomeReady(d, dir) ==
  /\ dir \notin ready[d]
  /\ ready' = [ready EXCEPT ![d] = @ \cup {dir}]
  /\ UNCHANGED <<ctx, nonblock, waiter, timers, queued, on, pc, op, number, cancelled>>

---------------------------------------------------------------------------
Call(f, call) == \/ CallRaw(f, call) \/ CallRefused(f, call)
                 \/ CallTry(f, call) \/ CallSleep(f, call)

Step(f) == \/ RawDone(f) \/ RawSlept(f) \/ TryDone(f) \/ TryAgain(f)
           \/ AddEvent(f) \/ AddRefused(f) \/ Yield(f) \/ Check(f) \/ SockOpt(f) \/ Slept(f)

App(f) == \/ \E call \in Operations \cup Sleeps : Call(f, call)
          \/ \E d \in Fds : Close(f, d)
          \/ \E d \in Fds, dir \in Dirs : RegisterCallback(f, d, dir) \/ DelEvent(f, d, dir)
          \/ End(f)

Next == \/ \E f \in Fibers : Step(f) \/ App(f) \/ \E t \in Threads : Resume(f, t)
        \/ \E timer \in timers : FireIo(timer) \/ FireSleep(timer)
        \/ \E d \in Fds, dir \in Dirs : Report(d, dir) \/ BecomeReady(d, dir)

Spec == Init /\ [][Next]_vars

(* A thread runs its fiber on, which gives way in the end; queued fibers   *)
(* are taken, timers expire, and epoll reports.                            *)
Fairness == /\ \A f \in Fibers : /\ WF_vars(Step(f)) /\ WF_vars(End(f))
                                 /\ SF_vars(\E t \in Threads : Resume(f, t))
            /\ WF_vars(\E timer \in timers : FireIo(timer) \/ FireSleep(timer))
            /\ \A d \in Fds, dir \in Dirs : WF_vars(Report(d, dir))

TimeoutSpec == Spec /\ Fairness

(* And the peer does not fall silent.                                      *)
FairSpec == Spec /\ Fairness /\ \A d \in Fds, dir \in Dirs : WF_vars(BecomeReady(d, dir))

---------------------------------------------------------------------------
(* What will put a fiber into the queue, or has: a registration, the timer *)
(* of a sleep, its place in the queue.                                     *)
Causes(f) ==
  {s \in {"event"} \X Fds \X Dirs : waiter[s[2]][s[3]] = f}
  \cup {s \in {"timer"} \X (1..MaxCalls) \X {"sleep"} :
          [fiber |-> f, number |-> s[2], kind |-> s[3]] \in timers}
  \cup {s \in {"queue"} \X {0} \X {""} : f \in queued}

Suspended(f) == pc[f] = "yield" \/ (on[f] = NoThread /\ pc[f] # "end")

(* A fiber that waits, or is about to, has exactly one cause to be woken:  *)
(* it is neither forgotten nor scheduled twice; a fiber that runs has none *)
(* left over that would wake it out of a later call (hook.cc:107, 334).    *)
Wakeable == \A f \in Fibers : IF Suspended(f) THEN \E c \in Causes(f) : Causes(f) = {c}
                              ELSE Causes(f) = {}

(* The calls use IOManager the way Registry allows: a fiber registers in   *)
(* one place, when neither another nor the timer of a sleep nor the queue  *)
(* has it, and leaves that place by being scheduled (hook.cc:323, 334).    *)
Events == INSTANCE Registry WITH
            Places <- Fds \X Dirs, Waiters <- Fibers \cup {Callback}, Anonymous <- {Callback},
            held <- [p \in Fds \X Dirs |-> waiter[p[1]][p[2]]],
            scheduled <- queued

UsesRegistry == Events!ClientSpec

(* A call is marked as timed out only by a timer that it added itself, and *)
(* only if it has a timeout: the timers of earlier calls, never cancelled  *)
(* because `timer' stays null, find their condition gone even when they    *)
(* expire during a later timed call of the same fiber (hook.cc:309).       *)
NoForeignTimeout == \A f \in Fibers : cancelled[f] # 0 =>
                      cancelled[f] = number[f] /\ Waits(f) /\ Timed(f)

(* Every fiber comes to its end when its peers do not fall silent: no      *)
(* call waits for ever, whatever direction, retry or thread it takes.      *)
AllEnd == <>(\A f \in Fibers : pc[f] = "end")

(* "IO 就绪恢复后继续调用，或者超时返回" (hook.cc:346): a call whose timer has  *)
(* expired returns.                                                        *)
TimeoutEnds == \A f \in Fibers : cancelled[f] # 0 ~> cancelled[f] = 0
=============================================================================
