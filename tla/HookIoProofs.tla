---------------------------- MODULE HookIoProofs ----------------------------
(* For any fibers, threads and descriptors below the size of the table: a  *)
(* fiber that waits has exactly one cause to be woken, and no call is      *)
(* marked as timed out by the timer of another.                            *)
EXTENDS HookIo, TLAPS

Anything == Operations \cup Sleeps \cup {NoCall}

LEMMA CallNames ==
  /\ \A o \in Operations : /\ o.name \in {"io", "connect"} /\ o.fd \in Fds
                           /\ o.dir \in Dirs /\ o.timed \in BOOLEAN
  /\ \A o \in Sleeps : o.name \in {"sleep", "usleep"}
  /\ Asleep \in Sleeps /\ Asleep.name = "sleep" /\ NoCall.name = "none"
  BY DEF Operations, Sleeps, Asleep, NoCall, Dirs

(* The test fd > size() of cancelEvent, cancelAll and delEvent.            *)
LEMMA NeverBeyond == \A d \in Fds : ~(d > TableSize)
  BY SizeAssumption

(* In which call a fiber can be at each point, and where it gives way.     *)
Phases ==
  \A f \in Fibers :
    /\ pc[f] \in {"app", "end"} => op[f] = NoCall
    /\ pc[f] \notin {"app", "end"} => number[f] >= 1
    /\ pc[f] \in {"try", "add", "check"} => op[f] \in Operations
    /\ pc[f] = "raw" => op[f] \in Operations \cup Sleeps
    /\ pc[f] = "yield" => op[f] \in Operations \cup {Asleep}
    /\ on[f] = NoThread => pc[f] \in {"app", "check", "return", "end"}

Points == {"app", "raw", "try", "add", "yield", "check", "sockopt", "return", "end"}
Given == /\ ctx \in [Fds -> Context]
         /\ nonblock \in [Fds -> BOOLEAN]
         /\ ready \in [Fds -> SUBSET Dirs]
Marks == cancelled \in [Fibers -> 0..MaxCalls]
Slots == waiter \in [Fds -> [Dirs -> Fibers \cup {Nobody, Callback}]]
Pending == timers \subseteq [fiber : Fibers, number : 1..MaxCalls, kind : {"io", "sleep"}]
Places == /\ queued \subseteq Fibers
          /\ on \in [Fibers -> Threads \cup {NoThread}]
          /\ pc \in [Fibers -> Points]
          /\ op \in [Fibers -> Anything]
          /\ number \in [Fibers -> 0..MaxCalls]

(* TypeOK in parts.                                                        *)
LEMMA Parts == TypeOK <=> Given /\ Marks /\ Slots /\ Pending /\ Places
  BY DEF TypeOK, Given, Marks, Slots, Pending, Places, Points, Anything

Inv0 == TypeOK /\ Phases

LEMMA InitInv0 == Init => Inv0
<1> SUFFICES ASSUME Init PROVE Inv0
  OBVIOUS
<1>1. Given /\ Marks
  <2>1. Contexts \subseteq Context
    BY ContextsAssumption
  <2> HIDE DEF Context
  <2> QED
    BY <2>1, CallsAssumption DEF Init, Given, Marks
<1>2. Slots /\ Pending /\ Places /\ Phases
  BY CallsAssumption DEF Init, Slots, Pending, Places, Phases, Points, Anything
<1> QED
  BY <1>1, <1>2, Parts DEF Inv0

(* A call that succeeds leaves the direction it used.                      *)
LEMMA ConsumedType ==
  ASSUME ready \in [Fds -> SUBSET Dirs], Places, NEW f \in Fibers
  PROVE  Consumed(f) \in [Fds -> SUBSET Dirs]
<1>1. op[f] \in Anything
  BY DEF Places
<1>2. op[f].name = "io" => op[f].fd \in Fds
  BY <1>1, CallNames DEF Anything
<1> QED
  BY <1>2 DEF Consumed

LEMMA StepGiven == Given /\ Places /\ Phases /\ [Next]_vars => Given'
<1> SUFFICES ASSUME Given, Places, Phases, [Next]_vars PROVE Given'
  OBVIOUS
<1>0. Given /\ Places /\ Phases
  OBVIOUS
<1> USE <1>0, CallNames DEF Given, Begin, Enter, At, Goto, Return, kernelVars
<1> HIDE DEF Operations, Sleeps, Asleep, NoCall
<1>1. ASSUME NEW f \in Fibers, NEW call \in Operations \cup Sleeps, CallRaw(f, call) PROVE Given'
  BY <1>1 DEF CallRaw
<1>2. ASSUME NEW f \in Fibers, NEW call \in Operations \cup Sleeps, CallRefused(f, call) PROVE Given'
  BY <1>2 DEF CallRefused
<1>3. ASSUME NEW f \in Fibers, NEW call \in Operations \cup Sleeps, CallTry(f, call) PROVE Given'
  BY <1>3 DEF CallTry
<1>4. ASSUME NEW f \in Fibers, NEW call \in Operations \cup Sleeps, CallSleep(f, call) PROVE Given'
  BY <1>4 DEF CallSleep
<1>5. ASSUME NEW f \in Fibers, RawDone(f) PROVE Given'
  <2>1. UNCHANGED <<ctx, nonblock>> /\ ready' = Consumed(f)
    BY <1>5 DEF RawDone
  <2> QED
    BY <2>1, ConsumedType
<1>6. ASSUME NEW f \in Fibers, RawSlept(f) PROVE Given'
  BY <1>6 DEF RawSlept
<1>7. ASSUME NEW f \in Fibers, TryDone(f) PROVE Given'
  <2>1. UNCHANGED <<ctx, nonblock>> /\ ready' = Consumed(f)
    BY <1>7 DEF TryDone
  <2> QED
    BY <2>1, ConsumedType
<1>8. ASSUME NEW f \in Fibers, TryAgain(f) PROVE Given'
  BY <1>8 DEF TryAgain
<1>9. ASSUME NEW f \in Fibers, AddEvent(f) PROVE Given'
  BY <1>9 DEF AddEvent
<1>10. ASSUME NEW f \in Fibers, AddRefused(f) PROVE Given'
  BY <1>10 DEF AddRefused
<1>11. ASSUME NEW f \in Fibers, Yield(f) PROVE Given'
  BY <1>11 DEF Yield
<1>12. ASSUME NEW f \in Fibers, Check(f) PROVE Given'
  BY <1>12 DEF Check
<1>13. ASSUME NEW f \in Fibers, SockOpt(f) PROVE Given'
  BY <1>13 DEF SockOpt
<1>14. ASSUME NEW f \in Fibers, Slept(f) PROVE Given'
  BY <1>14 DEF Slept
<1>15. ASSUME NEW f \in Fibers, NEW d \in Fds, Close(f, d) PROVE Given'
  <2>1. UNCHANGED <<nonblock, ready>> /\ ctx' = [ctx EXCEPT ![d].known = FALSE]
    BY <1>15 DEF Close
  <2>2. ctx[d] \in Context
    OBVIOUS
  <2>3. [ctx[d] EXCEPT !.known = FALSE] \in Context
    BY <2>2 DEF Context
  <2>4. ctx' = [ctx EXCEPT ![d] = [ctx[d] EXCEPT !.known = FALSE]]
    BY <2>1
  <2> QED
    BY <2>1, <2>3, <2>4
<1>16. ASSUME NEW f \in Fibers, NEW d \in Fds, NEW dir \in Dirs, RegisterCallback(f, d, dir) PROVE Given'
  BY <1>16 DEF RegisterCallback
<1>17. ASSUME NEW f \in Fibers, NEW d \in Fds, NEW dir \in Dirs, DelEvent(f, d, dir) PROVE Given'
  BY <1>17 DEF DelEvent
<1>18. ASSUME NEW f \in Fibers, End(f) PROVE Given'
  BY <1>18 DEF End
<1>19. ASSUME NEW f \in Fibers, NEW t \in Threads, Resume(f, t) PROVE Given'
  BY <1>19 DEF Resume
<1>20. ASSUME NEW timer \in timers, FireIo(timer) PROVE Given'
  BY <1>20 DEF FireIo
<1>21. ASSUME NEW timer \in timers, FireSleep(timer) PROVE Given'
  BY <1>21 DEF FireSleep
<1>22. ASSUME NEW d \in Fds, NEW dir \in Dirs, Report(d, dir) PROVE Given'
  BY <1>22 DEF Report
<1>23. ASSUME NEW d \in Fds, NEW dir \in Dirs, BecomeReady(d, dir) PROVE Given'
  BY <1>23 DEF BecomeReady
<1>24. CASE UNCHANGED vars
  BY <1>24 DEF vars
<1> HIDE DEF Given, Begin, Enter, At, Goto, Return, kernelVars
<1> QED
  BY <1>1, <1>2, <1>3, <1>4, <1>5, <1>6, <1>7, <1>8, <1>9, <1>10, <1>11, <1>12, <1>13,
     <1>14, <1>15, <1>16, <1>17, <1>18, <1>19, <1>20, <1>21, <1>22, <1>23, <1>24
     DEF Next, Step, App, Call

LEMMA StepMarks == Marks /\ Places /\ Pending /\ [Next]_vars => Marks'
<1> SUFFICES ASSUME Marks, Places, Pending, [Next]_vars PROVE Marks'
  OBVIOUS
<1>0. Marks /\ Pending /\ MaxCalls \in Nat
  BY CallsAssumption
<1> USE <1>0 DEF Marks, Begin, Enter, At, Goto, Return, kernelVars
<1>1. ASSUME NEW f \in Fibers, NEW call \in Operations \cup Sleeps, CallRaw(f, call) PROVE Marks'
  BY <1>1 DEF CallRaw
<1>2. ASSUME NEW f \in Fibers, NEW call \in Operations \cup Sleeps, CallRefused(f, call) PROVE Marks'
  BY <1>2 DEF CallRefused
<1>3. ASSUME NEW f \in Fibers, NEW call \in Operations \cup Sleeps, CallTry(f, call) PROVE Marks'
  BY <1>3 DEF CallTry
<1>4. ASSUME NEW f \in Fibers, NEW call \in Operations \cup Sleeps, CallSleep(f, call) PROVE Marks'
  BY <1>4 DEF CallSleep
<1>5. ASSUME NEW f \in Fibers, RawDone(f) PROVE Marks'
  BY <1>5 DEF RawDone
<1>6. ASSUME NEW f \in Fibers, RawSlept(f) PROVE Marks'
  BY <1>6 DEF RawSlept
<1>7. ASSUME NEW f \in Fibers, TryDone(f) PROVE Marks'
  BY <1>7 DEF TryDone
<1>8. ASSUME NEW f \in Fibers, TryAgain(f) PROVE Marks'
  BY <1>8 DEF TryAgain
<1>9. ASSUME NEW f \in Fibers, AddEvent(f) PROVE Marks'
  BY <1>9 DEF AddEvent
<1>10. ASSUME NEW f \in Fibers, AddRefused(f) PROVE Marks'
  BY <1>10 DEF AddRefused
<1>11. ASSUME NEW f \in Fibers, Yield(f) PROVE Marks'
  BY <1>11 DEF Yield
<1>12. ASSUME NEW f \in Fibers, Check(f) PROVE Marks'
  BY <1>12 DEF Check
<1>13. ASSUME NEW f \in Fibers, SockOpt(f) PROVE Marks'
  BY <1>13 DEF SockOpt
<1>14. ASSUME NEW f \in Fibers, Slept(f) PROVE Marks'
  BY <1>14 DEF Slept
<1>15. ASSUME NEW f \in Fibers, NEW d \in Fds, Close(f, d) PROVE Marks'
  BY <1>15 DEF Close
<1>16. ASSUME NEW f \in Fibers, NEW d \in Fds, NEW dir \in Dirs, RegisterCallback(f, d, dir) PROVE Marks'
  BY <1>16 DEF RegisterCallback
<1>17. ASSUME NEW f \in Fibers, NEW d \in Fds, NEW dir \in Dirs, DelEvent(f, d, dir) PROVE Marks'
  BY <1>17 DEF DelEvent
<1>18. ASSUME NEW f \in Fibers, End(f) PROVE Marks'
  BY <1>18 DEF End
<1>19. ASSUME NEW f \in Fibers, NEW t \in Threads, Resume(f, t) PROVE Marks'
  BY <1>19 DEF Resume
<1>20. ASSUME NEW timer \in timers, FireIo(timer) PROVE Marks'
  <2>1. timer.fiber \in Fibers /\ timer.number \in 1..MaxCalls
    BY DEF Pending
  <2> QED
    BY <1>20, <2>1 DEF FireIo
<1>21. ASSUME NEW timer \in timers, FireSleep(timer) PROVE Marks'
  BY <1>21 DEF FireSleep
<1>22. ASSUME NEW d \in Fds, NEW dir \in Dirs, Report(d, dir) PROVE Marks'
  BY <1>22 DEF Report
<1>23. ASSUME NEW d \in Fds, NEW dir \in Dirs, BecomeReady(d, dir) PROVE Marks'
  BY <1>23 DEF BecomeReady
<1>24. CASE UNCHANGED vars
  BY <1>24 DEF vars
<1> HIDE DEF Marks, Begin, Enter, At, Goto, Return, kernelVars
<1> QED
  BY <1>1, <1>2, <1>3, <1>4, <1>5, <1>6, <1>7, <1>8, <1>9, <1>10, <1>11, <1>12, <1>13,
     <1>14, <1>15, <1>16, <1>17, <1>18, <1>19, <1>20, <1>21, <1>22, <1>23, <1>24
     DEF Next, Step, App, Call

(* The timer of a call that has returned is not alive; one that is belongs *)
(* to a call that waits and has a timeout.                                 *)
OwnTimers ==
  \A timer \in timers : timer.kind = "io" =>
    /\ timer.number <= number[timer.fiber]
    /\ Alive(timer) => Waits(timer.fiber) /\ Timed(timer.fiber)

Placed == Slots /\ Pending /\ Places /\ Phases

(* The callback of a timer changes nothing but `cancelled'.                *)
LEMMA FireIoKeeps ==
  ASSUME Places, OwnTimers, Pending, NEW timer \in timers, FireIo(timer)
  PROVE  UNCHANGED <<queued, waiter>>
<1>1. ASSUME Alive(timer), cancelled[timer.fiber] = 0 PROVE UNCHANGED <<queued, waiter>>
  <2>1. CancelEvent(op[timer.fiber].fd, op[timer.fiber].dir)
    BY <1>1 DEF FireIo
  <2>2. timer.fiber \in Fibers /\ op[timer.fiber].name \in {"io", "connect"}
    BY <1>1 DEF FireIo, OwnTimers, Waits, Pending
  <2>3. op[timer.fiber].fd \in Fds
    <3>1. op[timer.fiber] \in Anything
      BY <2>2 DEF Places
    <3> HIDE DEF Operations, Sleeps, NoCall
    <3> QED
      BY <2>2, <3>1, CallNames DEF Anything
  <2> QED
    BY <2>1, <2>3, NeverBeyond DEF CancelEvent
<1> QED
  BY <1>1 DEF FireIo

LEMMA StepPlaced == Inv0 /\ OwnTimers /\ [Next]_vars => Placed'
<1> SUFFICES ASSUME Inv0, OwnTimers, [Next]_vars PROVE Placed'
  OBVIOUS
<1>0. Slots /\ Pending /\ Places /\ Phases /\ MaxCalls \in Nat
  BY Parts, CallsAssumption DEF Inv0
<1> USE <1>0, CallNames, NamesAssumption DEF Placed, Slots, Pending, Places, Phases, Points, Anything,
        Begin, Enter, At, Goto, Return, kernelVars, Waits, Timer
<1>1. ASSUME NEW f \in Fibers, NEW call \in Operations \cup Sleeps, CallRaw(f, call) PROVE Placed'
  BY <1>1 DEF CallRaw
<1>2. ASSUME NEW f \in Fibers, NEW call \in Operations \cup Sleeps, CallRefused(f, call) PROVE Placed'
  BY <1>2 DEF CallRefused
<1>3. ASSUME NEW f \in Fibers, NEW call \in Operations \cup Sleeps, CallTry(f, call) PROVE Placed'
  BY <1>3 DEF CallTry
<1>4. ASSUME NEW f \in Fibers, NEW call \in Operations \cup Sleeps, CallSleep(f, call) PROVE Placed'
  BY <1>4 DEF CallSleep
<1>5. ASSUME NEW f \in Fibers, RawDone(f) PROVE Placed'
  BY <1>5 DEF RawDone
<1>6. ASSUME NEW f \in Fibers, RawSlept(f) PROVE Placed'
  BY <1>6 DEF RawSlept
<1>7. ASSUME NEW f \in Fibers, TryDone(f) PROVE Placed'
  BY <1>7 DEF TryDone
<1>8. ASSUME NEW f \in Fibers, TryAgain(f) PROVE Placed'
  BY <1>8 DEF TryAgain
<1>9. ASSUME NEW f \in Fibers, AddEvent(f) PROVE Placed'
  <2>1. op[f].fd \in Fds /\ op[f].dir \in Dirs
    BY <1>9 DEF AddEvent
  <2>2. Slots'
    BY <1>9, <2>1 DEF AddEvent, Registered
  <2> QED
    BY <1>9, <2>2 DEF AddEvent
<1>10. ASSUME NEW f \in Fibers, AddRefused(f) PROVE Placed'
  BY <1>10 DEF AddRefused
<1>11. ASSUME NEW f \in Fibers, Yield(f) PROVE Placed'
  BY <1>11 DEF Yield
<1>12. ASSUME NEW f \in Fibers, Check(f) PROVE Placed'
  BY <1>12 DEF Check
<1>13. ASSUME NEW f \in Fibers, SockOpt(f) PROVE Placed'
  BY <1>13 DEF SockOpt
<1>14. ASSUME NEW f \in Fibers, Slept(f) PROVE Placed'
  BY <1>14 DEF Slept
<1>15. ASSUME NEW f \in Fibers, NEW d \in Fds, Close(f, d) PROVE Placed'
  <2>1. UNCHANGED <<queued, waiter>>
    BY <1>15, NeverBeyond DEF Close, CancelAll
  <2> QED
    BY <1>15, <2>1 DEF Close
<1>16. ASSUME NEW f \in Fibers, NEW d \in Fds, NEW dir \in Dirs, RegisterCallback(f, d, dir) PROVE Placed'
  BY <1>16 DEF RegisterCallback
<1>17. ASSUME NEW f \in Fibers, NEW d \in Fds, NEW dir \in Dirs, DelEvent(f, d, dir) PROVE Placed'
  <2>1. UNCHANGED waiter
    BY <1>17, NeverBeyond DEF DelEvent
  <2> QED
    BY <1>17, <2>1 DEF DelEvent
<1>18. ASSUME NEW f \in Fibers, End(f) PROVE Placed'
  BY <1>18 DEF End
<1>19. ASSUME NEW f \in Fibers, NEW t \in Threads, Resume(f, t) PROVE Placed'
  BY <1>19 DEF Resume
<1>20. ASSUME NEW timer \in timers, FireIo(timer) PROVE Placed'
  <2>1. UNCHANGED <<queued, waiter>>
    BY <1>20, FireIoKeeps
  <2> QED
    BY <1>20, <2>1 DEF FireIo
<1>21. ASSUME NEW timer \in timers, FireSleep(timer) PROVE Placed'
  BY <1>21 DEF FireSleep
<1>22. ASSUME NEW d \in Fds, NEW dir \in Dirs, Report(d, dir) PROVE Placed'
  <2>1. waiter' = [waiter EXCEPT ![d][dir] = Nobody]
    BY <1>22 DEF Report, Emptied
  <2>2. Slots'
    BY <2>1
  <2>3. queued' \subseteq Fibers
    BY <1>22 DEF Report, Triggered
  <2> QED
    BY <1>22, <2>2, <2>3 DEF Report
<1>23. ASSUME NEW d \in Fds, NEW dir \in Dirs, BecomeReady(d, dir) PROVE Placed'
  BY <1>23 DEF BecomeReady
<1>24. CASE UNCHANGED vars
  BY <1>24 DEF vars
<1> HIDE DEF Placed, Begin, Enter, At, Goto, Return, kernelVars, Slots, Pending, Places, Phases
<1> QED
  BY <1>1, <1>2, <1>3, <1>4, <1>5, <1>6, <1>7, <1>8, <1>9, <1>10, <1>11, <1>12, <1>13,
     <1>14, <1>15, <1>16, <1>17, <1>18, <1>19, <1>20, <1>21, <1>22, <1>23, <1>24
     DEF Next, Step, App, Call

LEMMA StepInv0 == Inv0 /\ OwnTimers /\ [Next]_vars => Inv0'
<1>1. Inv0 => Given /\ Marks /\ Slots /\ Pending /\ Places /\ Phases
  BY Parts DEF Inv0
<1>2. Inv0 /\ OwnTimers /\ [Next]_vars => Given' /\ Marks' /\ Placed'
  BY <1>1, StepGiven, StepMarks, StepPlaced
<1>3. (Given /\ Marks /\ Placed)' => Inv0'
  <2>1. Given /\ Marks /\ Placed => Inv0
    BY Parts DEF Inv0, Placed
  <2> QED
    BY <2>1, PTL
<1> QED
  BY <1>2, <1>3

---------------------------------------------------------------------------
Own == OwnTimers /\ NoForeignTimeout

LEMMA StepOwn == Inv0 /\ Own /\ [Next]_vars => Own'
<1> SUFFICES ASSUME Inv0, Own, [Next]_vars PROVE Own'
  OBVIOUS
<1>0. Marks /\ Pending /\ Places /\ Phases /\ MaxCalls \in Nat
  BY Parts, CallsAssumption DEF Inv0
<1> USE <1>0, CallNames DEF Own, OwnTimers, NoForeignTimeout, Alive, Waits, Timed, Timer,
        Marks, Pending, Places, Phases, Points, Anything, Begin, Enter, At, Goto, Return, kernelVars
<1> HIDE DEF Operations, Sleeps, Asleep, NoCall
<1>1. ASSUME NEW f \in Fibers, NEW call \in Operations \cup Sleeps, CallRaw(f, call) PROVE Own'
  BY <1>1 DEF CallRaw
<1>2. ASSUME NEW f \in Fibers, NEW call \in Operations \cup Sleeps, CallRefused(f, call) PROVE Own'
  BY <1>2 DEF CallRefused
<1>3. ASSUME NEW f \in Fibers, NEW call \in Operations \cup Sleeps, CallTry(f, call) PROVE Own'
  BY <1>3 DEF CallTry
<1>4. ASSUME NEW f \in Fibers, NEW call \in Operations \cup Sleeps, CallSleep(f, call) PROVE Own'
  BY <1>4 DEF CallSleep
<1>5. ASSUME NEW f \in Fibers, RawDone(f) PROVE Own'
  BY <1>5 DEF RawDone
<1>6. ASSUME NEW f \in Fibers, RawSlept(f) PROVE Own'
  BY <1>6 DEF RawSlept
<1>7. ASSUME NEW f \in Fibers, TryDone(f) PROVE Own'
  BY <1>7 DEF TryDone
<1>8. ASSUME NEW f \in Fibers, TryAgain(f) PROVE Own'
  BY <1>8 DEF TryAgain
<1>9. ASSUME NEW f \in Fibers, AddEvent(f) PROVE Own'
  BY <1>9 DEF AddEvent
<1>10. ASSUME NEW f \in Fibers, AddRefused(f) PROVE Own'
  BY <1>10 DEF AddRefused
<1>11. ASSUME NEW f \in Fibers, Yield(f) PROVE Own'
  BY <1>11 DEF Yield
<1>12. ASSUME NEW f \in Fibers, Check(f) PROVE Own'
  BY <1>12 DEF Check
<1>13. ASSUME NEW f \in Fibers, SockOpt(f) PROVE Own'
  BY <1>13 DEF SockOpt
<1>14. ASSUME NEW f \in Fibers, Slept(f) PROVE Own'
  BY <1>14 DEF Slept
<1>15. ASSUME NEW f \in Fibers, NEW d \in Fds, Close(f, d) PROVE Own'
  BY <1>15 DEF Close
<1>16. ASSUME NEW f \in Fibers, NEW d \in Fds, NEW dir \in Dirs, RegisterCallback(f, d, dir) PROVE Own'
  BY <1>16 DEF RegisterCallback
<1>17. ASSUME NEW f \in Fibers, NEW d \in Fds, NEW dir \in Dirs, DelEvent(f, d, dir) PROVE Own'
  BY <1>17 DEF DelEvent
<1>18. ASSUME NEW f \in Fibers, End(f) PROVE Own'
  BY <1>18 DEF End
<1>19. ASSUME NEW f \in Fibers, NEW t \in Threads, Resume(f, t) PROVE Own'
  BY <1>19 DEF Resume
<1>20. ASSUME NEW timer \in timers, FireIo(timer) PROVE Own'
  BY <1>20 DEF FireIo
<1>21. ASSUME NEW timer \in timers, FireSleep(timer) PROVE Own'
  BY <1>21 DEF FireSleep
<1>22. ASSUME NEW d \in Fds, NEW dir \in Dirs, Report(d, dir) PROVE Own'
  BY <1>22 DEF Report
<1>23. ASSUME NEW d \in Fds, NEW dir \in Dirs, BecomeReady(d, dir) PROVE Own'
  BY <1>23 DEF BecomeReady
<1>24. CASE UNCHANGED vars
  BY <1>24 DEF vars
<1> HIDE DEF Own, OwnTimers, NoForeignTimeout, Marks, Pending, Places, Phases, At, Goto
<1> QED
  BY <1>1, <1>2, <1>3, <1>4, <1>5, <1>6, <1>7, <1>8, <1>9, <1>10, <1>11, <1>12, <1>13,
     <1>14, <1>15, <1>16, <1>17, <1>18, <1>19, <1>20, <1>21, <1>22, <1>23, <1>24
     DEF Next, Step, App, Call

---------------------------------------------------------------------------
(* Wakeable in terms of the three kinds of causes.                         *)
NoSlot(f) == \A d \in Fds, dir \in Dirs : waiter[d][dir] # f
OneSlot(f) == \E d \in Fds, dir \in Dirs :
                /\ waiter[d][dir] = f
                /\ \A e \in Fds, other \in Dirs : waiter[e][other] = f => e = d /\ other = dir
NoSleep(f) == \A timer \in timers : timer.kind = "sleep" => timer.fiber # f
OneSleep(f) == \E timer \in timers :
                 /\ timer.kind = "sleep" /\ timer.fiber = f
                 /\ \A other \in timers : other.kind = "sleep" /\ other.fiber = f => other = timer

NoCause(f) == f \notin queued /\ NoSlot(f) /\ NoSleep(f)
OneCause(f) == \/ f \in queued /\ NoSlot(f) /\ NoSleep(f)
               \/ f \notin queued /\ OneSlot(f) /\ NoSleep(f)
               \/ f \notin queued /\ NoSlot(f) /\ OneSleep(f)

Caused == \A f \in Fibers : IF Suspended(f) THEN OneCause(f) ELSE NoCause(f)

(* A fiber that runs and adds the timer of a sleep.                        *)
LEMMA SleepAdded ==
  ASSUME Inv0, Caused, NEW f \in Fibers, ~Suspended(f), NEW timer,
         timer.kind = "sleep", timer.fiber = f, timers' = timers \cup {timer},
         UNCHANGED <<waiter, queued, on>>, pc' = [pc EXCEPT ![f] = "yield"]
  PROVE  Caused'
<1>0. Places /\ NoCause(f)
  BY Parts DEF Inv0, Caused
<1>1. Suspended(f)' /\ OneCause(f)'
  BY <1>0 DEF Places, Suspended, OneCause, NoCause, NoSlot, NoSleep, OneSleep
<1>2. ASSUME NEW g \in Fibers, g # f PROVE IF Suspended(g)' THEN OneCause(g)' ELSE NoCause(g)'
  <2>1. Suspended(g)' <=> Suspended(g)
    BY <1>0, <1>2 DEF Places, Suspended
  <2>2. NoSlot(g)' <=> NoSlot(g)
    BY DEF NoSlot
  <2>3. OneSlot(g)' <=> OneSlot(g)
    BY DEF OneSlot
  <2>4. NoSleep(g)' <=> NoSleep(g)
    BY <1>2 DEF NoSleep
  <2>5. OneSleep(g)' <=> OneSleep(g)
    BY <1>2 DEF OneSleep
  <2>6. IF Suspended(g) THEN OneCause(g) ELSE NoCause(g)
    BY DEF Caused
  <2> QED
    BY <2>1, <2>2, <2>3, <2>4, <2>5, <2>6 DEF OneCause, NoCause
<1> QED
  BY <1>1, <1>2 DEF Caused

LEMMA StepCaused == Inv0 /\ Caused /\ OwnTimers /\ [Next]_vars => Caused'
<1> SUFFICES ASSUME Inv0, Caused, OwnTimers, [Next]_vars PROVE Caused'
  OBVIOUS
<1>0. Slots /\ Pending /\ Places /\ Phases /\ MaxCalls \in Nat
  BY Parts, CallsAssumption DEF Inv0
<1> USE <1>0, CallNames, NamesAssumption DEF Caused, NoCause, OneCause, NoSlot, OneSlot, NoSleep, OneSleep, Suspended,
        Slots, Pending, Places, Phases, Points, Anything, Begin, Enter, At, Goto, Return, kernelVars, Timer
<1> HIDE DEF Operations, Sleeps, Asleep, NoCall
<1>1. ASSUME NEW f \in Fibers, NEW call \in Operations \cup Sleeps, CallRaw(f, call) PROVE Caused'
  BY <1>1 DEF CallRaw
<1>2. ASSUME NEW f \in Fibers, NEW call \in Operations \cup Sleeps, CallRefused(f, call) PROVE Caused'
  BY <1>2 DEF CallRefused
<1>3. ASSUME NEW f \in Fibers, NEW call \in Operations \cup Sleeps, CallTry(f, call) PROVE Caused'
  BY <1>3 DEF CallTry
<1>4. ASSUME NEW f \in Fibers, NEW call \in Operations \cup Sleeps, CallSleep(f, call) PROVE Caused'
  <2> DEFINE timer == [fiber |-> f, number |-> number'[f], kind |-> "sleep"]
  <2>1. /\ ~Suspended(f) /\ timers' = timers \cup {timer} /\ UNCHANGED <<waiter, queued, on>>
        /\ pc' = [pc EXCEPT ![f] = "yield"]
    BY <1>4 DEF CallSleep
  <2>2. timer.kind = "sleep" /\ timer.fiber = f
    OBVIOUS
  <2> HIDE DEF timer
  <2> QED
    BY <2>1, <2>2, SleepAdded
<1>5. ASSUME NEW f \in Fibers, RawDone(f) PROVE Caused'
  BY <1>5 DEF RawDone
<1>6. ASSUME NEW f \in Fibers, RawSlept(f) PROVE Caused'
  <2>1. /\ ~Suspended(f) /\ timers' = timers \cup {Timer(f, "sleep")} /\ UNCHANGED <<waiter, queued, on>>
        /\ pc' = [pc EXCEPT ![f] = "yield"]
    BY <1>6 DEF RawSlept
  <2>2. Timer(f, "sleep").kind = "sleep" /\ Timer(f, "sleep").fiber = f
    OBVIOUS
  <2> HIDE DEF Timer
  <2> QED
    BY <2>1, <2>2, SleepAdded
<1>7. ASSUME NEW f \in Fibers, TryDone(f) PROVE Caused'
  BY <1>7 DEF TryDone
<1>8. ASSUME NEW f \in Fibers, TryAgain(f) PROVE Caused'
  BY <1>8 DEF TryAgain
<1>9. ASSUME NEW f \in Fibers, AddEvent(f) PROVE Caused'
  <2> DEFINE d == op[f].fd
             dir == op[f].dir
  <2>1. d \in Fds /\ dir \in Dirs /\ waiter[d][dir] = Nobody /\ ~Suspended(f)
    BY <1>9 DEF AddEvent
  <2>2. /\ waiter' = [waiter EXCEPT ![d][dir] = f] /\ UNCHANGED <<timers, queued, on>>
        /\ pc' = [pc EXCEPT ![f] = "yield"]
    BY <1>9 DEF AddEvent, Registered
  <2> HIDE DEF d, dir
  <2>3. \A e \in Fds, other \in Dirs :
          waiter'[e][other] = IF e = d /\ other = dir THEN f ELSE waiter[e][other]
    BY <2>1, <2>2
  <2>4. OneSlot(f)' /\ Suspended(f)'
    BY <2>1, <2>2, <2>3
  <2>5. \A g \in Fibers : g # f => (Suspended(g)' <=> Suspended(g))
    BY <2>1, <2>2
  <2>6. ASSUME NEW g \in Fibers, g # f
        PROVE  \A e \in Fds, other \in Dirs : waiter'[e][other] = g <=> waiter[e][other] = g
    BY <2>1, <2>3, <2>6
  <2>7. \A g \in Fibers : g # f => (NoSlot(g)' <=> NoSlot(g)) /\ (OneSlot(g)' <=> OneSlot(g))
    BY <2>6
  <2> QED
    BY <2>1, <2>2, <2>4, <2>5, <2>7
<1>10. ASSUME NEW f \in Fibers, AddRefused(f) PROVE Caused'
  BY <1>10 DEF AddRefused
<1>11. ASSUME NEW f \in Fibers, Yield(f) PROVE Caused'
  BY <1>11 DEF Yield
<1>12. ASSUME NEW f \in Fibers, Check(f) PROVE Caused'
  BY <1>12 DEF Check
<1>13. ASSUME NEW f \in Fibers, SockOpt(f) PROVE Caused'
  BY <1>13 DEF SockOpt
<1>14. ASSUME NEW f \in Fibers, Slept(f) PROVE Caused'
  BY <1>14 DEF Slept
<1>15. ASSUME NEW f \in Fibers, NEW d \in Fds, Close(f, d) PROVE Caused'
  <2>1. UNCHANGED <<queued, waiter>>
    BY <1>15, NeverBeyond DEF Close, CancelAll
  <2> QED
    BY <1>15, <2>1 DEF Close
<1>16. ASSUME NEW f \in Fibers, NEW d \in Fds, NEW dir \in Dirs, RegisterCallback(f, d, dir) PROVE Caused'
  BY <1>16 DEF RegisterCallback
<1>17. ASSUME NEW f \in Fibers, NEW d \in Fds, NEW dir \in Dirs, DelEvent(f, d, dir) PROVE Caused'
  <2>1. UNCHANGED waiter
    BY <1>17, NeverBeyond DEF DelEvent
  <2> QED
    BY <1>17, <2>1 DEF DelEvent
<1>18. ASSUME NEW f \in Fibers, End(f) PROVE Caused'
  BY <1>18 DEF End
<1>19. ASSUME NEW f \in Fibers, NEW t \in Threads, Resume(f, t) PROVE Caused'
  BY <1>19 DEF Resume
<1>20. ASSUME NEW timer \in timers, FireIo(timer) PROVE Caused'
  <2>1. UNCHANGED <<queued, waiter, on, pc>> /\ timers' = timers \ {timer} /\ timer.kind = "io"
    BY <1>20, FireIoKeeps DEF FireIo
  <2>2. \A g \in Fibers : (NoSleep(g)' <=> NoSleep(g)) /\ (OneSleep(g)' <=> OneSleep(g))
    BY <2>1
  <2> QED
    BY <2>1, <2>2
<1>21. ASSUME NEW timer \in timers, FireSleep(timer) PROVE Caused'
  <2>1. /\ timer.kind = "sleep" /\ timers' = timers \ {timer}
        /\ queued' = queued \cup {timer.fiber} /\ UNCHANGED <<waiter, on, pc>>
    BY <1>21 DEF FireSleep
  <2>2. \A g \in Fibers : /\ (Suspended(g)' <=> Suspended(g))
                         /\ (NoSlot(g)' <=> NoSlot(g)) /\ (OneSlot(g)' <=> OneSlot(g))
    BY <2>1
  <2>3. ASSUME NEW g \in Fibers PROVE IF Suspended(g)' THEN OneCause(g)' ELSE NoCause(g)'
    <3>1. CASE g = timer.fiber
      <4>1. Suspended(g) /\ NoSlot(g) /\ OneSleep(g)
        BY <2>1, <3>1
      <4>2. NoSleep(g)'
        BY <2>1, <3>1, <4>1
      <4> QED
        BY <2>1, <2>2, <3>1, <4>1, <4>2
    <3>2. CASE g # timer.fiber
      <4>1. g \in queued' <=> g \in queued
        BY <2>1, <3>2
      <4>2. (NoSleep(g)' <=> NoSleep(g)) /\ (OneSleep(g)' <=> OneSleep(g))
        BY <2>1, <3>2
      <4> QED
        BY <2>2, <4>1, <4>2
    <3> QED
      BY <3>1, <3>2
  <2> QED
    BY <2>3
<1>22. ASSUME NEW d \in Fds, NEW dir \in Dirs, Report(d, dir) PROVE Caused'
  <2>1. /\ queued' = queued \cup ({waiter[d][dir]} \cap Fibers)
        /\ waiter' = [waiter EXCEPT ![d][dir] = Nobody] /\ UNCHANGED <<timers, on, pc>>
    BY <1>22 DEF Report, Triggered, Emptied
  <2>2. \A e \in Fds, other \in Dirs :
          waiter'[e][other] = IF e = d /\ other = dir THEN Nobody ELSE waiter[e][other]
    BY <2>1
  <2>3. ASSUME NEW g \in Fibers PROVE IF Suspended(g)' THEN OneCause(g)' ELSE NoCause(g)'
    <3>1. Suspended(g)' <=> Suspended(g)
      BY <2>1
    <3>2. CASE waiter[d][dir] = g
      <4>1. Suspended(g) /\ OneSlot(g) /\ NoSleep(g)
        BY <3>2
      <4>2. NoSlot(g)'
        BY <2>2, <3>2, <4>1
      <4> QED
        BY <2>1, <3>1, <3>2, <4>1, <4>2
    <3>3. CASE waiter[d][dir] # g
      <4>1. g \in queued' <=> g \in queued
        BY <2>1, <3>3
      <4>2. \A e \in Fds, other \in Dirs : waiter'[e][other] = g <=> waiter[e][other] = g
        BY <2>2, <3>3
      <4>3. NoSlot(g)' <=> NoSlot(g)
        BY <4>2
      <4>4. OneSlot(g)' <=> OneSlot(g)
        <5> HIDE DEF Slots, Pending, Places, Phases, NoSlot, NoSleep, OneSleep, Suspended
        <5> QED
          BY <4>2
      <4> QED
        BY <2>1, <3>1, <4>1, <4>3, <4>4
    <3> QED
      BY <3>2, <3>3
  <2> QED
    BY <2>3
<1>23. ASSUME NEW d \in Fds, NEW dir \in Dirs, BecomeReady(d, dir) PROVE Caused'
  BY <1>23 DEF BecomeReady
<1>24. CASE UNCHANGED vars
  BY <1>24 DEF vars
<1> HIDE DEF Caused, NoCause, OneCause, NoSlot, OneSlot, NoSleep, OneSleep, Suspended, Slots, Pending, Places, Phases, At, Goto
<1> QED
  BY <1>1, <1>2, <1>3, <1>4, <1>5, <1>6, <1>7, <1>8, <1>9, <1>10, <1>11, <1>12, <1>13,
     <1>14, <1>15, <1>16, <1>17, <1>18, <1>19, <1>20, <1>21, <1>22, <1>23, <1>24
     DEF Next, Step, App, Call

(* The causes by name.                                                     *)
Event(d, dir) == <<"event", d, dir>>
Expiry(n) == <<"timer", n, "sleep">>
Scheduled == <<"queue", 0, "">>

LEMMA Unfolded ==
  ASSUME Inv0, Caused
  PROVE  Wakeable
<1>0. Pending
  BY Parts DEF Inv0
<1>1. ASSUME NEW f \in Fibers, NEW c
      PROVE  c \in Causes(f) <=>
               \/ \E d \in Fds, dir \in Dirs : c = Event(d, dir) /\ waiter[d][dir] = f
               \/ \E timer \in timers : /\ timer.kind = "sleep" /\ timer.fiber = f
                                        /\ c = Expiry(timer.number)
               \/ c = Scheduled /\ f \in queued
  <2> DEFINE InSlots == {s \in {"event"} \X Fds \X Dirs : waiter[s[2]][s[3]] = f}
             Expiring == {s \in {"timer"} \X (1..MaxCalls) \X {"sleep"} :
                            [fiber |-> f, number |-> s[2], kind |-> s[3]] \in timers}
             InQueue == {s \in {"queue"} \X {0} \X {""} : f \in queued}
  <2>1. c \in InSlots <=> \E d \in Fds, dir \in Dirs : c = Event(d, dir) /\ waiter[d][dir] = f
    BY DEF Event
  <2>2. c \in Expiring <=> \E n \in 1..MaxCalls :
          c = Expiry(n) /\ [fiber |-> f, number |-> n, kind |-> "sleep"] \in timers
    <3>1. \A n \in 1..MaxCalls : Expiry(n)[2] = n /\ Expiry(n)[3] = "sleep"
                                 /\ Expiry(n) \in {"timer"} \X (1..MaxCalls) \X {"sleep"}
      BY DEF Expiry
    <3>2. c \in {"timer"} \X (1..MaxCalls) \X {"sleep"} => \E n \in 1..MaxCalls : c = Expiry(n)
      BY DEF Expiry
    <3>3. \A n \in 1..MaxCalls : Expiry(n) \in Expiring
            <=> [fiber |-> f, number |-> n, kind |-> "sleep"] \in timers
      BY <3>1
    <3>4. c \in Expiring => c \in {"timer"} \X (1..MaxCalls) \X {"sleep"}
      OBVIOUS
    <3> HIDE DEF Expiring
    <3> QED
      BY <3>2, <3>3, <3>4
  <2>3. c \in Expiring <=> \E timer \in timers : /\ timer.kind = "sleep" /\ timer.fiber = f
                                                 /\ c = Expiry(timer.number)
    <3>1. \A timer \in timers : timer.kind = "sleep" /\ timer.fiber = f
            => /\ timer.number \in 1..MaxCalls
               /\ timer = [fiber |-> f, number |-> timer.number, kind |-> "sleep"]
      BY <1>0 DEF Pending
    <3>2. \A n \in 1..MaxCalls : [fiber |-> f, number |-> n, kind |-> "sleep"].number = n
      OBVIOUS
    <3> HIDE DEF Expiring
    <3> QED
      BY <2>2, <3>1, <3>2
  <2>4. c \in InQueue <=> c = Scheduled /\ f \in queued
    BY DEF Scheduled
  <2>5. Causes(f) = InSlots \cup Expiring \cup InQueue
    BY DEF Causes
  <2> HIDE DEF InSlots, Expiring, InQueue
  <2> QED
    BY <2>1, <2>3, <2>4, <2>5
<1>2. ASSUME NEW f \in Fibers, NoCause(f) PROVE Causes(f) = {}
  BY <1>1, <1>2 DEF NoCause, NoSlot, NoSleep
<1>3. ASSUME NEW f \in Fibers, OneCause(f) PROVE \E c \in Causes(f) : Causes(f) = {c}
  <2>1. CASE f \in queued /\ NoSlot(f) /\ NoSleep(f)
    <3>1. Causes(f) = {Scheduled}
      BY <1>1, <2>1 DEF NoSlot, NoSleep
    <3> QED
      BY <3>1
  <2>2. CASE f \notin queued /\ OneSlot(f) /\ NoSleep(f)
    <3>1. PICK d \in Fds, dir \in Dirs :
            /\ waiter[d][dir] = f
            /\ \A e \in Fds, other \in Dirs : waiter[e][other] = f => e = d /\ other = dir
      BY <2>2 DEF OneSlot
    <3>2. \A c : c \in Causes(f) <=> c = Event(d, dir)
      BY <1>1, <2>2, <3>1 DEF NoSleep
    <3> QED
      BY <3>2
  <2>3. CASE f \notin queued /\ NoSlot(f) /\ OneSleep(f)
    <3>1. PICK timer \in timers :
            /\ timer.kind = "sleep" /\ timer.fiber = f
            /\ \A other \in timers : other.kind = "sleep" /\ other.fiber = f => other = timer
      BY <2>3 DEF OneSleep
    <3>2. \A c : c \in Causes(f) <=> c = Expiry(timer.number)
      BY <1>1, <2>3, <3>1 DEF NoSlot
    <3> QED
      BY <3>2
  <2> QED
    BY <1>3, <2>1, <2>2, <2>3 DEF OneCause
<1> QED
  BY <1>2, <1>3 DEF Caused, Wakeable

---------------------------------------------------------------------------
IInv == Inv0 /\ Own /\ Caused

LEMMA InitIInv == Init => IInv
<1> SUFFICES ASSUME Init PROVE IInv
  OBVIOUS
<1>1. Own
  BY DEF Init, Own, OwnTimers, NoForeignTimeout
<1>2. Caused
  BY NamesAssumption DEF Init, Caused, Suspended, OneCause, NoSlot, NoSleep
<1> QED
  BY <1>1, <1>2, InitInv0 DEF IInv

LEMMA StepIInv == IInv /\ [Next]_vars => IInv'
<1>1. IInv => Inv0 /\ Own /\ OwnTimers /\ Caused
  BY DEF IInv, Own
<1>2. IInv /\ [Next]_vars => Inv0' /\ Own' /\ Caused'
  BY <1>1, StepInv0, StepOwn, StepCaused
<1> QED
  BY <1>2 DEF IInv

LEMMA Invariance == Spec => []IInv
  BY InitIInv, StepIInv, PTL DEF Spec

(* The variables keep their types.                                         *)
THEOREM TypeCorrect == Spec => []TypeOK
<1>1. IInv => TypeOK
  BY DEF IInv, Inv0
<1> QED
  BY <1>1, Invariance, PTL

(* A fiber that waits has one cause to be woken, one that runs has none.   *)
THEOREM OneWakeup == Spec => []Wakeable
<1>1. IInv => Wakeable
  BY Unfolded DEF IInv
<1> QED
  BY <1>1, Invariance, PTL

(* A call is marked as timed out only by a timer that it added itself,     *)
(* however many timers of earlier calls are left, and only if it has a     *)
(* timeout.                                                                *)
THEOREM OwnTimeouts == Spec => []NoForeignTimeout
<1>1. IInv => NoForeignTimeout
  BY DEF IInv, Own
<1> QED
  BY <1>1, Invariance, PTL

---------------------------------------------------------------------------
(* The steps that register, schedule or resume; the others, those of       *)
(* close, delEvent and the timers of io_do included, do neither.           *)
LEMMA UseCases ==
  ASSUME Inv0, OwnTimers, [Next]_vars
  PROVE  \/ \E f \in Fibers : AddEvent(f)
         \/ \E f \in Fibers, d \in Fds, dir \in Dirs : RegisterCallback(f, d, dir)
         \/ \E f \in Fibers, t \in Threads : Resume(f, t)
         \/ \E timer \in timers : FireSleep(timer)
         \/ \E d \in Fds, dir \in Dirs : Report(d, dir)
         \/ UNCHANGED <<waiter, queued>>
<1> DEFINE Quiet == UNCHANGED <<waiter, queued>>
<1>1. ASSUME NEW f \in Fibers, \E call \in Operations \cup Sleeps : Call(f, call) PROVE Quiet
  BY <1>1 DEF Call, CallRaw, CallRefused, CallTry, CallSleep, Begin
<1>2. ASSUME NEW f \in Fibers, Step(f), ~AddEvent(f) PROVE Quiet
  BY <1>2 DEF Step, RawDone, RawSlept, TryDone, TryAgain, AddRefused, Yield, Check, SockOpt, Slept
<1>3. ASSUME NEW f \in Fibers, End(f) PROVE Quiet
  BY <1>3 DEF End
<1>4. ASSUME NEW f \in Fibers, NEW d \in Fds, Close(f, d) PROVE Quiet
  BY <1>4, NeverBeyond DEF Close, CancelAll
<1>5. ASSUME NEW f \in Fibers, NEW d \in Fds, NEW dir \in Dirs, DelEvent(f, d, dir) PROVE Quiet
  BY <1>5, NeverBeyond DEF DelEvent
<1>6. ASSUME NEW timer \in timers, FireIo(timer) PROVE Quiet
  <2>1. Places /\ Pending
    BY Parts DEF Inv0
  <2> QED
    BY <1>6, <2>1, FireIoKeeps
<1>7. ASSUME NEW d \in Fds, NEW dir \in Dirs, BecomeReady(d, dir) PROVE Quiet
  BY <1>7 DEF BecomeReady
<1>8. CASE UNCHANGED vars
  BY <1>8 DEF vars
<1> QED
  BY <1>1, <1>2, <1>3, <1>4, <1>5, <1>6, <1>7, <1>8 DEF Next, App

(* What the places of Registry hold.                                       *)
Held == [p \in Fds \X Dirs |-> waiter[p[1]][p[2]]]

LEMMA HeldChanges ==
  ASSUME Slots, NEW d \in Fds, NEW dir \in Dirs, NEW w,
         waiter' = [waiter EXCEPT ![d][dir] = w]
  PROVE  /\ Held' = [Held EXCEPT ![<<d, dir>>] = w]
         /\ Held[<<d, dir>>] = waiter[d][dir]
<1>1. \A e \in Fds, other \in Dirs :
        waiter'[e][other] = IF e = d /\ other = dir THEN w ELSE waiter[e][other]
  BY DEF Slots
<1>2. ASSUME NEW p \in Fds \X Dirs
      PROVE  waiter'[p[1]][p[2]] = IF p = <<d, dir>> THEN w ELSE waiter[p[1]][p[2]]
  <2>1. p[1] \in Fds /\ p[2] \in Dirs /\ (p = <<d, dir>> <=> p[1] = d /\ p[2] = dir)
    OBVIOUS
  <2> QED
    BY <1>1, <2>1
<1> QED
  BY <1>2 DEF Held

LEMMA NoSlotIsApart ==
  ASSUME NEW f \in Fibers, f \notin queued, NoSlot(f)
  PROVE  Events!Apart(f)
<1>1. \A p \in Fds \X Dirs : waiter[p[1]][p[2]] # f
  BY DEF NoSlot
<1> QED
  BY <1>1 DEF Events!Apart

Used == \/ Events!Next
        \/ \E w \in Fibers \cup {Callback} : Events!Resume(w) \/ Events!Wake(w)

(* addEvent, called for a fiber that runs: nothing else will wake it.      *)
LEMMA RegistersApart ==
  ASSUME Inv0, Caused, NEW f \in Fibers, AddEvent(f)
  PROVE  Used
<1> DEFINE d == op[f].fd
           dir == op[f].dir
<1>1. op[f] \in Operations /\ ~Suspended(f)
  BY DEF AddEvent, At, Suspended, Inv0, Phases
<1>2. d \in Fds /\ dir \in Dirs
  BY <1>1, CallNames
<1>3. /\ waiter[d][dir] = Nobody /\ waiter' = [waiter EXCEPT ![d][dir] = f]
      /\ UNCHANGED queued
  BY DEF AddEvent, Registered
<1>4. Slots
  BY Parts DEF Inv0
<1>5. Events!Apart(f)
  BY <1>1, NoSlotIsApart DEF Caused, NoCause
<1> HIDE DEF d, dir
<1>6. Held[<<d, dir>>] = Nobody /\ Held' = [Held EXCEPT ![<<d, dir>>] = f]
  BY <1>2, <1>3, <1>4, HeldChanges
<1>7. Events!Register(<<d, dir>>, f)
  BY <1>3, <1>5, <1>6 DEF Events!Register, Held
<1>8. Events!Next
  BY <1>2, <1>7 DEF Events!Next, Events!Register
<1> QED
  BY <1>8 DEF Used

LEMMA RegistersCallback ==
  ASSUME Inv0, NEW f \in Fibers, NEW d \in Fds, NEW dir \in Dirs, RegisterCallback(f, d, dir)
  PROVE  Used
<1>1. /\ waiter[d][dir] = Nobody /\ waiter' = [waiter EXCEPT ![d][dir] = Callback]
      /\ UNCHANGED queued
  BY DEF RegisterCallback
<1>2. Slots
  BY Parts DEF Inv0
<1>3. Held[<<d, dir>>] = Nobody /\ Held' = [Held EXCEPT ![<<d, dir>>] = Callback]
  BY <1>1, <1>2, HeldChanges
<1>4. Events!Register(<<d, dir>>, Callback)
  BY <1>1, <1>3 DEF Events!Register, Held
<1>5. Events!Next
  BY <1>4 DEF Events!Next, Events!Register
<1> QED
  BY <1>5 DEF Used

LEMMA ReportsOne ==
  ASSUME Inv0, NEW d \in Fds, NEW dir \in Dirs, Report(d, dir)
  PROVE  Used
<1> DEFINE set == {<<d, dir>>}
<1>1. /\ waiter[d][dir] # Nobody /\ waiter' = [waiter EXCEPT ![d][dir] = Nobody]
      /\ queued' = queued \cup ({waiter[d][dir]} \cap Fibers)
  BY DEF Report, Triggered, Emptied
<1>2. Slots
  BY Parts DEF Inv0
<1>3. Held[<<d, dir>>] = waiter[d][dir] /\ Held' = [Held EXCEPT ![<<d, dir>>] = Nobody]
  BY <1>1, <1>2, HeldChanges
<1>4. Held' = [p \in Fds \X Dirs |-> IF p \in set THEN Nobody ELSE Held[p]]
  BY <1>3 DEF Held
<1>5. waiter[d][dir] \in Fibers \cup {Callback}
  BY <1>1, <1>2 DEF Slots
<1>6. {Held[p] : p \in set} = {waiter[d][dir]}
  BY <1>3
<1>7. queued' = queued \cup ({Held[p] : p \in set} \ {Callback})
  BY <1>1, <1>5, <1>6, NamesAssumption
<1>8. set # {} /\ (\A p \in set : Held[p] # Nobody) /\ set \in SUBSET (Fds \X Dirs)
  BY <1>1, <1>3
<1> HIDE DEF set
<1>9. Events!Report(set)
  BY <1>4, <1>7, <1>8 DEF Events!Report, Held
<1>10. Events!Next
  BY <1>8, <1>9 DEF Events!Next, Events!Report
<1> QED
  BY <1>10 DEF Used

(* A sleep of a fiber ends while it waits for nothing else.                *)
LEMMA WakesApart ==
  ASSUME Inv0, Caused, NEW timer \in timers, FireSleep(timer)
  PROVE  Used
<1>1. timer.kind = "sleep" /\ queued' = queued \cup {timer.fiber} /\ UNCHANGED waiter
  BY DEF FireSleep
<1>2. timer.fiber \in Fibers
  BY Parts DEF Inv0, Pending
<1>3. timer.fiber \notin queued /\ NoSlot(timer.fiber)
  BY <1>1, <1>2 DEF Caused, NoCause, OneCause, NoSleep
<1>4. Events!Wake(timer.fiber)
  BY <1>1, <1>2, <1>3, NoSlotIsApart DEF Events!Wake
<1> QED
  BY <1>2, <1>4 DEF Used

LEMMA StepUses == IInv /\ [Next]_vars => [Used]_(Events!vars)
<1> SUFFICES ASSUME IInv, [Next]_vars PROVE [Used]_(Events!vars)
  OBVIOUS
<1>1. Inv0 /\ OwnTimers /\ Caused
  BY DEF IInv, Own
<1>2. ASSUME NEW f \in Fibers, NEW t \in Threads, Resume(f, t) PROVE Used
  <2>1. Events!Resume(f)
    BY <1>2 DEF Resume, Events!Resume
  <2> QED
    BY <2>1 DEF Used
<1>3. CASE UNCHANGED <<waiter, queued>>
  BY <1>3 DEF Events!vars
<1> QED
  BY <1>1, <1>2, <1>3, UseCases, RegistersApart, RegistersCallback, ReportsOne, WakesApart

(* The calls keep to the contract of the registry they wait with: a fiber  *)
(* registers in one place, with nothing else that could schedule it, so    *)
(* that no report finds it running, queued or waiting elsewhere.           *)
THEOREM RegistryUsed == Spec => UsesRegistry
<1>1. Init => Events!Init
  BY DEF Init, Events!Init
<1>2. IInv /\ [Next]_vars => [Used]_(Events!vars)
  BY StepUses
<1> QED
  BY <1>1, <1>2, InitIInv, StepIInv, PTL DEF Spec, UsesRegistry, Events!ClientSpec, Used
=============================================================================
