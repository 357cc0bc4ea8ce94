---------------------------- MODULE TimeManager ----------------------------
(* The timers: Timer::cancel, refresh and reset called by several threads, *)
(* the heap m_timers, which is a std::set ordered by deadline alone, and   *)
(* the threads that poll it from IOManager::idle().  Time is an integer;   *)
(* deadlines and periods are in its units.                                 *)
EXTENDS Integers, FiniteSets

CONSTANTS
  Users,       \* threads that call the timer interface
  Pollers,     \* threads that execute idle()
  Timers,
  Recurring,   \* the timers created with recurring = true
  Periods,     \* values of the ms argument
  MaxTimeout,  \* MAX_TIMEOUT of idle()
  MaxTime,     \* bound on the clock
  MaxCalls     \* bound on the calls of addTimer, cancel, refresh and reset

ASSUME ThreadsAssumption == /\ Users \cap Pollers = {}
                            /\ Pollers # {}
                            /\ Recurring \subseteq Timers
ASSUME BoundsAssumption == /\ Periods \subseteq Nat
                           /\ MaxTimeout \in Nat /\ MaxTime \in Nat /\ MaxCalls \in Nat

VARIABLES
  now,        \* steady_clock
  heap,       \* m_timers
  next,       \* m_next of every timer
  ms,         \* m_ms
  live,       \* the timers whose m_cb is not null
  tickled,    \* m_tickle
  edge,       \* an unconsumed write to the tickle pipe
  pc,         \* where each thread is
  call,       \* the arguments of the reset() in progress
  wake,       \* when the epoll_wait of a sleeping thread times out
  clock,      \* the local `now' of listExpiredCb
  batch,      \* callbacks extracted by listExpiredCb and not pushed yet
  calls,
  extracted,  \* history: how often a timer's callback was extracted (at most 2 is recorded)
  cancelled   \* history: timers whose cancel() returned true

userVars == <<call, calls, cancelled>>
pollVars == <<wake, clock, batch, extracted>>
heapVars == <<heap, next, ms, live>>
vars == <<now, heapVars, tickled, edge, pc, userVars, pollVars>>

Threads == Users \cup Pollers
NoCall == [timer |-> {}, ms |-> 0, fromNow |-> FALSE]

Labels == {"free", "tickle", "reset", "work", "peek", "ask", "asleep", "clock", "expire", "push"}

TypeOK ==
  /\ now \in 0..MaxTime
  /\ heap \subseteq Timers /\ live \subseteq Timers /\ cancelled \subseteq Timers
  /\ next \in [Timers -> Int] /\ ms \in [Timers -> Nat]
  /\ tickled \in BOOLEAN /\ edge \in BOOLEAN
  /\ pc \in [Threads -> Labels]
  /\ call \in [Users -> [timer : SUBSET Timers, ms : Nat, fromNow : BOOLEAN]]
  /\ wake \in [Pollers -> Int] /\ clock \in [Pollers -> Nat]
  /\ batch \in [Pollers -> SUBSET Timers]
  /\ calls \in 0..MaxCalls
  /\ extracted \in [Timers -> 0..2]

Init ==
  /\ now = 0
  /\ heap = {} /\ live = {}
  /\ next = [i \in Timers |-> 0] /\ ms = [i \in Timers |-> 0]
  /\ tickled = FALSE /\ edge = FALSE
  /\ pc = [t \in Threads |-> IF t \in Users THEN "free" ELSE "work"]
  /\ call = [u \in Users |-> NoCall]
  /\ wake = [t \in Pollers |-> 0] /\ clock = [t \in Pollers |-> 0]
  /\ batch = [t \in Pollers |-> {}]
  /\ calls = 0
  /\ extracted = [i \in Timers |-> 0]
  /\ cancelled = {}

---------------------------------------------------------------------------
Goto(t, label) == pc' = [pc EXCEPT ![t] = label]

Begin(u) == /\ pc[u] = "free"
            /\ calls < MaxCalls
            /\ calls' = calls + 1

(* std::set::find and insert see deadlines only: a timer finds whoever has *)
(* its deadline, and is not inserted next to somebody who has it.          *)
Twins(i) == {j \in heap : next[j] = next[i]}
Erased(i) == {heap \ {j} : j \in Twins(i)}
Inserted(set, i, deadline) == IF \E j \in set : deadline[j] = deadline[i] THEN set ELSE set \cup {i}

(* Mutants.  Each operator named ...Wrong... is the definition that follows*)
(* it with a plausible mistake; no action uses one.                        *)
(* Mutant of AddToHeap: only the first timer of all wakes a poller.        *)
AddWrongFront(u, i, set, deadline) ==
  LET atFront == ~tickled /\ set = {}
  IN /\ heap' = Inserted(set, i, deadline)
     /\ tickled' = (tickled \/ atFront)
     /\ Goto(u, IF atFront THEN "tickle" ELSE "free")

(* addTimer(timer): insert under the lock; the caller goes on to tickle if *)
(* the timer is the earliest one and nobody was tickled since the last     *)
(* geteralistTime().                                                       *)
AddToHeap(u, i, set, deadline) ==
  LET atFront == ~tickled /\ \A j \in set : deadline[i] <= deadline[j]
  IN /\ heap' = Inserted(set, i, deadline)
     /\ tickled' = (tickled \/ atFront)
     /\ Goto(u, IF atFront THEN "tickle" ELSE "free")

(* addTimer(ms, cb, recurring): a new timer, used once.                    *)
Add(u, i, period) ==
  /\ Begin(u)
  /\ i \notin live /\ extracted[i] = 0 /\ i \notin cancelled
  /\ live' = live \cup {i}
  /\ ms' = [ms EXCEPT ![i] = period]
  /\ next' = [next EXCEPT ![i] = now + period]
  /\ AddToHeap(u, i, heap, next')
  /\ UNCHANGED <<now, edge, call, cancelled, pollVars>>

(* onTimerInsertedAtFront(): tickle(), after the lock is released.         *)
TickleUser(u) ==
  /\ pc[u] = "tickle"
  /\ edge' = (edge \/ \E t \in Pollers : pc[t] # "work")
  /\ Goto(u, "free")
  /\ UNCHANGED <<now, heapVars, tickled, userVars, pollVars>>

(* Mutant of Cancel: the callback is kept.                                 *)
CancelWrongCallback(u, i) ==
  /\ Begin(u)
  /\ i \in live
  /\ heap' \in IF Twins(i) = {} THEN {heap} ELSE Erased(i)
  /\ cancelled' = cancelled \cup {i}
  /\ UNCHANGED <<now, next, ms, live, tickled, edge, pc, call, pollVars>>

(* Timer::cancel: drop the callback, erase what find() returns.            *)
Cancel(u, i) ==
  /\ Begin(u)
  /\ i \in live
  /\ live' = live \ {i}
  /\ heap' \in IF Twins(i) = {} THEN {heap} ELSE Erased(i)
  /\ cancelled' = cancelled \cup {i}
  /\ UNCHANGED <<now, next, ms, tickled, edge, pc, call, pollVars>>

(* Mutant of Refresh: the timer is not inserted again.                     *)
RefreshWrongErased(u, i) ==
  /\ Begin(u)
  /\ i \in live
  /\ heap' \in Erased(i)
  /\ next' = [next EXCEPT ![i] = now + ms[i]]
  /\ UNCHANGED <<now, ms, live, tickled, edge, pc, call, cancelled, pollVars>>

(* Timer::refresh: erase and insert under one lock.                        *)
Refresh(u, i) ==
  /\ Begin(u)
  /\ i \in live
  /\ next' = [next EXCEPT ![i] = now + ms[i]]
  /\ \E rest \in Erased(i) : heap' = Inserted(rest, i, next')
  /\ UNCHANGED <<now, ms, live, tickled, edge, pc, call, cancelled, pollVars>>

(* Timer::reset: erase under the lock, release it, compute the deadline,   *)
(* and insert under the lock again.                                        *)
ResetErase(u, i, period, fromNow) ==
  /\ Begin(u)
  /\ ms[i] # period \/ fromNow
  /\ i \in live
  /\ heap' \in Erased(i)
  /\ call' = [call EXCEPT ![u] = [timer |-> {i}, ms |-> period, fromNow |-> fromNow]]
  /\ Goto(u, "reset")
  /\ UNCHANGED <<now, next, ms, live, tickled, edge, cancelled, pollVars>>

(* Mutant of ResetInsert: the period is shortened by the time gone.        *)
ResetWrongPeriod(u, i) ==
  /\ pc[u] = "reset"
  /\ call[u].timer = {i}
  /\ ms' = [ms EXCEPT ![i] = call[u].ms - (now - next[i])]
  /\ next' = [next EXCEPT ![i] = now + call[u].ms]
  /\ AddToHeap(u, i, heap, next')
  /\ call' = [call EXCEPT ![u] = NoCall]
  /\ UNCHANGED <<now, live, edge, calls, cancelled, pollVars>>

ResetInsert(u, i) ==
  LET start == IF call[u].fromNow THEN now ELSE next[i] - ms[i]
  IN /\ pc[u] = "reset"
     /\ call[u].timer = {i}
     /\ ms' = [ms EXCEPT ![i] = call[u].ms]
     /\ next' = [next EXCEPT ![i] = start + call[u].ms]
     /\ AddToHeap(u, i, heap, next')
     /\ call' = [call EXCEPT ![u] = NoCall]
     /\ UNCHANGED <<now, live, edge, calls, cancelled, pollVars>>

---------------------------------------------------------------------------
(* One round of idle(): stopping() asks for the earliest timer, idle()     *)
(* asks again for its timeout, sleeps, and extracts what has expired.      *)
Move(t, from, to) == pc[t] = from /\ Goto(t, to)

EnterIdle(t) == /\ Move(t, "work", "peek")
                /\ UNCHANGED <<now, heapVars, tickled, edge, userVars, pollVars>>

(* geteralistTime() clears m_tickle whatever it returns.                   *)
Peek(t) == /\ Move(t, "peek", "ask")
           /\ tickled' = FALSE
           /\ UNCHANGED <<now, heapVars, edge, userVars, pollVars>>

(* Mutant of Ask: the earliest deadline does not bound the timeout.        *)
AskWrongTimeout(t) ==
  /\ Move(t, "ask", "asleep")
  /\ tickled' = FALSE
  /\ wake' = [wake EXCEPT ![t] = now + MaxTimeout]
  /\ UNCHANGED <<now, heapVars, edge, userVars, clock, batch, extracted>>

Ask(t) ==
  /\ Move(t, "ask", "asleep")
  /\ tickled' = FALSE
  /\ \E due \in {next[i] : i \in heap} \cup {now + MaxTimeout} :
       /\ \A i \in heap : due <= next[i]
       /\ due <= now + MaxTimeout
       /\ wake' = [wake EXCEPT ![t] = due]
  /\ UNCHANGED <<now, heapVars, edge, userVars, clock, batch, extracted>>

(* epoll_wait returns on the tickle or on the timeout.                     *)
Wake(t) == /\ Move(t, "asleep", "clock")
           /\ edge \/ wake[t] <= now
           /\ edge' = FALSE
           /\ wake' = [wake EXCEPT ![t] = 0]
           /\ UNCHANGED <<now, heapVars, tickled, userVars, clock, batch, extracted>>

(* listExpiredCb reads the clock before it takes the lock.                 *)
ReadClock(t) == /\ Move(t, "clock", "expire")
                /\ clock' = [clock EXCEPT ![t] = now]
                /\ UNCHANGED <<now, heapVars, tickled, edge, userVars, wake, batch, extracted>>

(* Mutant of Expire: every timer is inserted again.                        *)
ExpireWrongAgain(t) ==
  LET due == {i \in heap : next[i] < clock[t]}
  IN /\ Move(t, "expire", "push")
     /\ next' = [i \in Timers |-> IF i \in due THEN clock[t] + ms[i] ELSE next[i]]
     /\ batch' = [batch EXCEPT ![t] = due \cap live]
     /\ extracted' = [i \in Timers |-> IF i \in due \cap live /\ extracted[i] < 2
                                       THEN extracted[i] + 1 ELSE extracted[i]]
     /\ clock' = [clock EXCEPT ![t] = 0]
     /\ UNCHANGED <<now, heap, ms, live, tickled, edge, userVars, wake>>

(* The loop of listExpiredCb, in order of deadline: a recurring timer gets *)
(* its next deadline and is inserted again, unless an unexpired timer or a *)
(* recurring timer handled before it has that deadline.                    *)
Expire(t) ==
  LET due == {i \in heap : next[i] < clock[t]}
      again == due \cap Recurring
      dropped == {i \in again : \/ \E j \in heap \ due : next[j] = clock[t] + ms[i]
                                \/ \E j \in again : next[j] < next[i] /\ ms[j] = ms[i]}
  IN /\ Move(t, "expire", "push")
     /\ heap' = (heap \ due) \cup (again \ dropped)
     /\ next' = [i \in Timers |-> IF i \in again THEN clock[t] + ms[i] ELSE next[i]]
     /\ live' = live \ (due \ Recurring)
     /\ batch' = [batch EXCEPT ![t] = due \cap live]
     /\ extracted' = [i \in Timers |-> IF i \in due \cap live /\ extracted[i] < 2
                                       THEN extracted[i] + 1 ELSE extracted[i]]
     /\ clock' = [clock EXCEPT ![t] = 0]
     /\ UNCHANGED <<now, ms, tickled, edge, userVars, wake>>

(* The callbacks are pushed and idle() yields.                             *)
YieldIdle(t) == /\ Move(t, "push", "work")
                /\ batch' = [batch EXCEPT ![t] = {}]
                /\ UNCHANGED <<now, heapVars, tickled, edge, userVars, wake, clock, extracted>>

Tick == /\ now < MaxTime
        /\ now' = now + 1
        /\ UNCHANGED <<heapVars, tickled, edge, pc, userVars, pollVars>>

---------------------------------------------------------------------------
UserStep(u) == TickleUser(u) \/ \E i \in Timers : ResetInsert(u, i)

UserCall(u) ==
  \E i \in Timers : \/ \E period \in Periods : Add(u, i, period)
                    \/ Cancel(u, i)
                    \/ Refresh(u, i)
                    \/ \E period \in Periods, fromNow \in BOOLEAN : ResetErase(u, i, period, fromNow)

PollStep(t) == EnterIdle(t) \/ Peek(t) \/ Ask(t) \/ Wake(t) \/ ReadClock(t) \/ Expire(t) \/ YieldIdle(t)

Next == \/ \E u \in Users : UserStep(u) \/ UserCall(u)
        \/ \E t \in Pollers : PollStep(t)
        \/ Tick

Spec == Init /\ [][Next]_vars

(* Threads are scheduled; a call of reset() that has begun goes on.        *)
Fairness == /\ \A u \in Users : WF_vars(UserStep(u))
            /\ \A t \in Pollers : WF_vars(PollStep(t))
            /\ WF_vars(Tick)

FairSpec == Spec /\ Fairness

---------------------------------------------------------------------------
(* The callback of a one-shot timer is extracted at most once, whatever    *)
(* refresh() and reset() do to the timer meanwhile (4day.md:4).            *)
OneShotOnce == \A i \in Timers \ Recurring : extracted[i] <= 1

(* Once cancel() has returned true no thread extracts the callback again,  *)
(* even when a concurrent reset() puts the timer back into the heap.       *)
CancelFinal == [][\A t \in Pollers : (batch'[t] \ batch[t]) \cap cancelled = {}]_vars

(* The pollers are not all asleep past the earliest deadline: when a timer *)
(* is in the heap, some poller is awake, will wake in time, or is about to *)
(* be woken by the tickle (m_tickle, timer.cc:267 and 344).                *)
NoLateTimer ==
  \/ heap = {} \/ edge
  \/ \E u \in Users : pc[u] = "tickle"
  \/ \E t \in Pollers : pc[t] # "asleep" \/ \A i \in heap : wake[t] <= next[i]

(* An armed timer that no reset() is moving is in the heap.                *)
NotForgotten ==
  \A i \in live : i \in heap \/ \E u \in Users : pc[u] = "reset" /\ call[u].timer = {i}

(* cancel() takes the timer out of the heap for good (timer.h:91).         *)
CancelRemoves == heap \cap cancelled = {}

(* Recurring timers whose callbacks are extracted in the same round all    *)
(* stay in the heap (4day.md:3: they fire every ms milliseconds).          *)
RecurringRearmed ==
  [][\A t \in Pollers : LET fired == (batch'[t] \ batch[t]) \cap Recurring
                        IN Cardinality(fired) > 1 => fired \subseteq heap']_vars

(* A timer that is overdue is extracted or moved.                          *)
DueServed == \A i \in Timers : (i \in heap /\ next[i] < now) ~> ~(i \in heap /\ next[i] < now)
=============================================================================
