-------------------------- MODULE SchedulerProofs --------------------------
(* Theorems about Scheduler, for every value of its constants.             *)
EXTENDS Scheduler, FiniteSetTheorems, TLAPS

(* Removing an element of a sequence keeps the type of the others.         *)
LEMMA RemoveAtType ==
  ASSUME NEW S, NEW s \in Seq(S), NEW i \in DOMAIN s
  PROVE  RemoveAt(s, i) \in Seq(S)
<1>1. i \in 1..Len(s)
  OBVIOUS
<1>2. SubSeq(s, 1, i - 1) \in Seq(S)
  BY <1>1
<1>3. SubSeq(s, i + 1, Len(s)) \in Seq(S)
  BY <1>1
<1>4. QED
  BY <1>2, <1>3 DEF RemoveAt

(* Every variable keeps its type.                                          *)
LEMMA TypeStep == TypeOK /\ [Next]_vars => TypeOK'
<1> SUFFICES ASSUME TypeOK, [Next]_vars PROVE TypeOK'
  OBVIOUS
<1> USE NamesAssumption, ModeAssumption DEF TypeOK, At, Goto, Labels,
        queueVars, fiberVars, eventVars, tickleVars, localVars
<1>1. CASE UNCHANGED vars
  BY <1>1 DEF vars
<1>2. ASSUME NEW t \in Threads, Tickle(t) PROVE TypeOK'
  BY <1>2 DEF Tickle
<1>3. ASSUME NEW t \in Threads, ScanTake(t) PROVE TypeOK'
  <2>1. PICK i \in DOMAIN tasks : /\ task' = [task EXCEPT ![t] = tasks[i].fiber]
                                  /\ tasks' = RemoveAt(tasks, i)
    BY <1>3 DEF ScanTake
  <2>2. tasks' \in Seq(Tasks)
    BY <2>1, RemoveAtType
  <2>3. tasks[i] \in Tasks
    OBVIOUS
  <2>4. task' \in [Threads -> Fibers \cup {None}]
    BY <2>1, <2>3 DEF Tasks
  <2>5. QED
    BY <1>3, <2>2, <2>4 DEF ScanTake
<1>4. ASSUME NEW t \in Threads, ScanNone(t) PROVE TypeOK'
  BY <1>4 DEF ScanNone
<1>5. ASSUME NEW t \in Threads, Resume(t) PROVE TypeOK'
  BY <1>5 DEF Resume
<1>6. ASSUME NEW t \in Threads, SkipTerminated(t) PROVE TypeOK'
  BY <1>6 DEF SkipTerminated
<1>7. ASSUME NEW t \in Threads, Yield(t) \/ Finish(t) PROVE TypeOK'
  <2>1. PICK s \in {"READY", "TERM"} : SetState(t, s)
    BY <1>7 DEF Yield, Finish
  <2>2. state' \in [Fibers -> {"READY", "RUNNING", "TERM"}] /\ pc' \in [Threads -> Labels]
    BY <2>1 DEF SetState
  <2> QED
    BY <2>1, <2>2 DEF SetState
<1>8. ASSUME NEW t \in Threads, Release(t) PROVE TypeOK'
  BY <1>8 DEF Release
<1>9. ASSUME NEW t \in Threads, Decrement(t) \/ LoadCount(t) \/ StoreCount(t) PROVE TypeOK'
  <2>1. CASE Decrement(t)
    BY <2>1 DEF Decrement
  <2>2. CASE LoadCount(t)
    BY <2>2 DEF LoadCount
  <2>3. CASE StoreCount(t)
    BY <2>3 DEF StoreCount
  <2>4. QED
    BY <1>9, <2>1, <2>2, <2>3
<1>10. ASSUME NEW t \in Threads, EnterIdle(t) PROVE TypeOK'
  BY <1>10 DEF EnterIdle
<1>11. ASSUME NEW t \in Threads, LeaveRun(t) PROVE TypeOK'
  BY <1>11 DEF LeaveRun
<1>12. ASSUME NEW t \in Threads, CheckTimers(t) \/ CheckQueue(t) PROVE TypeOK'
  <2>1. PICK label \in {"ask2", "ask3", "wait"} : pc' = [pc EXCEPT ![t] = label]
    BY <1>12 DEF CheckTimers, CheckQueue
  <2>2. pc' \in [Threads -> Labels]
    BY <2>1
  <2> QED
    BY <1>12, <2>2 DEF CheckTimers, CheckQueue
<1>13. ASSUME NEW t \in Threads, StayIdle(t) \/ QuitIdle(t) PROVE TypeOK'
  <2>1. CASE StayIdle(t)
    BY <2>1 DEF StayIdle
  <2>2. CASE QuitIdle(t)
    BY <2>2 DEF QuitIdle
  <2>3. QED
    BY <1>13, <2>1, <2>2
<1>14. ASSUME NEW t \in Threads, NEW ready \in SUBSET Fibers, WakeUp(t, ready) PROVE TypeOK'
  BY <1>14 DEF WakeUp
<1>15. ASSUME NEW t \in Threads, NEW due \in SUBSET Fibers, ExpireTimers(t, due) PROVE TypeOK'
  BY <1>15 DEF ExpireTimers
<1>16. ASSUME NEW t \in Threads, NEW f \in Fibers, PushExpired(t, f) PROVE TypeOK'
  BY <1>16 DEF PushExpired, Push, Tasks
<1>17. ASSUME NEW t \in Threads, NEW f \in Fibers, TriggerEvent(t, f) PROVE TypeOK'
  BY <1>17 DEF TriggerEvent, HandleEvent, Push, Tasks
<1>18. ASSUME NEW t \in Threads, NEW f \in Fibers, DropEvent(t, f) PROVE TypeOK'
  BY <1>18 DEF DropEvent, HandleEvent
<1>19. ASSUME NEW t \in Threads, SettleEvent(t) \/ YieldIdle(t) PROVE TypeOK'
  <2>1. CASE SettleEvent(t)
    BY <2>1 DEF SettleEvent
  <2>2. CASE YieldIdle(t)
    BY <2>2 DEF YieldIdle
  <2>3. QED
    BY <1>19, <2>1, <2>2
<1>20. ASSUME NEW t \in Threads, NEW f \in Fibers, NEW target \in Targets, Post(t, f, target)
       PROVE  TypeOK'
  BY <1>20 DEF Post, InUserCode, Push, Tasks
<1>21. ASSUME NEW t \in Threads, NEW f \in Fibers, NEW kind \in Kinds, Register(t, f, kind)
       PROVE  TypeOK'
  <2>1. mustTickle' \in [Threads -> BOOLEAN]
    BY <1>21 DEF Register
  <2>2. armed' \in [Fibers -> {"None", "Event", "Timer"}]
    BY <1>21 DEF Register
  <2>3. pendingCount' \in Int
    BY <1>21 DEF Register
  <2>4. QED
    BY <1>21, <2>1, <2>2, <2>3 DEF Register, InUserCode
<1>22. CASE StopCall \/ Join
  <2>1. Root \in Threads
    BY DEF Threads
  <2>2. CASE StopCall
    BY <2>1, <2>2 DEF StopCall
  <2>3. CASE Join
    BY <2>1, <2>3 DEF Join
  <2> QED
    BY <1>22, <2>2, <2>3
<1>23. QED
  BY <1>1, <1>2, <1>3, <1>4, <1>5, <1>6, <1>7, <1>8, <1>9, <1>10, <1>11, <1>12, <1>13, <1>14,
     <1>15, <1>16, <1>17, <1>18, <1>19, <1>20, <1>21, <1>22
     DEF Next, Step, Dispatch, Idle, UserCall, Terminating

(* Every variable keeps its type, whatever the constants are: the counters *)
(* are integers even when they start from uninitialised memory, and the    *)
(* calls of user code stay within the bound.                               *)
THEOREM TypeCorrect == Spec => []TypeOK
<1>1. Init => TypeOK
  <2> SUFFICES ASSUME Init PROVE TypeOK
    OBVIOUS
  <2>1. tasks \in Seq(Tasks)
    BY DEF Init
  <2>2. pc \in [Threads -> Labels]
    BY DEF Init, Labels
  <2>3. /\ activeCount \in Int /\ idleCount \in Int /\ pendingCount \in Int
        /\ requests \in 0..MaxRequests
    BY ModeAssumption DEF Init
  <2>4. /\ state \in [Fibers -> {"READY", "RUNNING", "TERM"}]
        /\ owner \in [Fibers -> Threads \cup {None}]
        /\ armed \in [Fibers -> {"None", "Event", "Timer"}]
    BY DEF Init
  <2>5. /\ task \in [Threads -> Fibers \cup {None}]
        /\ loaded \in [Threads -> Int]
        /\ expired \in [Threads -> SUBSET Fibers]
        /\ reported \in [Threads -> SUBSET Fibers]
    BY DEF Init
  <2>6. /\ mustTickle \in [Threads -> BOOLEAN]
        /\ idleTerm \in [Threads -> BOOLEAN]
    BY DEF Init
  <2>7. QED
    BY <2>1, <2>2, <2>3, <2>4, <2>5, <2>6 DEF Init, TypeOK
<1>2. QED
  BY <1>1, TypeStep, PTL DEF Spec

---------------------------------------------------------------------------
(* The inductive invariant behind the two facts about fibers: a thread     *)
(* that holds a task knows which fiber it is, one that is on a fiber's     *)
(* stack owns the fiber's mutex, and the state is no longer RUNNING when   *)
(* the context switch out of the fiber begins.                             *)
BusyLabels == {"dispatch", "fiber", "swap", "finish", "store"}

TaskKnown == \A t \in Threads : pc[t] \in BusyLabels => task[t] \in Fibers
StackOwned == \A t \in Threads : pc[t] \in {"fiber", "swap"} => owner[task[t]] = t
SwapSettled == \A t \in Threads : pc[t] = "swap" => state[task[t]] # "RUNNING"
LockInv == TaskKnown /\ StackOwned /\ SwapSettled /\ ResumeReady

(* A step that leaves the fibers alone and brings no thread to a new place *)
(* in the execution of a task preserves the invariant.                     *)
LEMMA LockFrame ==
  ASSUME LockInv, UNCHANGED <<state, owner>>,
         \A t \in Threads : pc'[t] \in BusyLabels => pc'[t] = pc[t] /\ task'[t] = task[t]
  PROVE  LockInv'
BY DEF LockInv, TaskKnown, StackOwned, SwapSettled, ResumeReady, BusyLabels

LEMMA LockStep == TypeOK /\ LockInv /\ [Next]_vars => LockInv'
<1> SUFFICES ASSUME TypeOK, LockInv, [Next]_vars PROVE LockInv'
  OBVIOUS
<1> DEFINE Calm == /\ UNCHANGED <<state, owner>>
                   /\ \A t \in Threads : pc'[t] \in BusyLabels
                                           => pc'[t] = pc[t] /\ task'[t] = task[t]
<1> pc \in [Threads -> Labels] /\ task \in [Threads -> Fibers \cup {None}]
  BY DEF TypeOK
<1> owner \in [Fibers -> Threads \cup {None}] /\ state \in [Fibers -> {"READY", "RUNNING", "TERM"}]
  BY DEF TypeOK
<1>1. CASE UNCHANGED vars
  <2>1. Calm
    BY <1>1 DEF vars, fiberVars, localVars
  <2>2. QED
    BY <2>1, LockFrame
<1>2. ASSUME NEW t \in Threads, Idle(t) \/ Tickle(t) \/ ScanNone(t) \/ Decrement(t) \/ StoreCount(t)
      PROVE  LockInv'
  <2>1. CASE Tickle(t)
    BY <2>1, LockFrame DEF Tickle, fiberVars, localVars
  <2>2. CASE ScanNone(t) \/ Decrement(t) \/ StoreCount(t)
    <3>1. Calm
      BY <2>2 DEF ScanNone, Decrement, StoreCount, Goto, fiberVars, localVars, BusyLabels
    <3>2. QED
      BY <3>1, LockFrame
  <2>3. CASE Idle(t)
    <3>1. UNCHANGED <<state, owner, task>>
      BY <2>3 DEF Idle, EnterIdle, LeaveRun, CheckTimers, CheckQueue, StayIdle, QuitIdle, SettleEvent,
         YieldIdle, WakeUp, ExpireTimers, PushExpired, TriggerEvent, DropEvent, fiberVars, localVars
    <3>2. \E label \in Labels \ BusyLabels : pc' = [pc EXCEPT ![t] = label] \/ UNCHANGED pc
      BY <2>3 DEF Idle, EnterIdle, LeaveRun, CheckTimers, CheckQueue, StayIdle, QuitIdle, SettleEvent,
         YieldIdle, WakeUp, ExpireTimers, PushExpired, TriggerEvent, DropEvent, HandleEvent, Goto,
         Labels, BusyLabels
    <3>3. Calm
      BY <3>1, <3>2
    <3>4. QED
      BY <3>3, LockFrame
  <2>4. QED
    BY <1>2, <2>1, <2>2, <2>3
<1>3. ASSUME NEW t \in Threads, ScanTake(t) PROVE LockInv'
  <2>1. PICK i \in DOMAIN tasks : task' = [task EXCEPT ![t] = tasks[i].fiber]
    BY <1>3 DEF ScanTake
  <2>2. tasks[i].fiber \in Fibers
    <3>1. tasks[i] \in Tasks
      BY DEF TypeOK
    <3>2. QED
      BY <3>1 DEF Tasks
  <2>3. pc' = [pc EXCEPT ![t] = "dispatch"] /\ UNCHANGED <<state, owner>>
    BY <1>3 DEF ScanTake, Goto, fiberVars
  <2>4. QED
    BY <2>1, <2>2, <2>3 DEF LockInv, TaskKnown, StackOwned, SwapSettled, ResumeReady, BusyLabels
<1>4. ASSUME NEW t \in Threads, Resume(t) PROVE LockInv'
  BY <1>4, NamesAssumption
     DEF Resume, At, Goto, LockInv, TaskKnown, StackOwned, SwapSettled, ResumeReady, BusyLabels, localVars
<1>5. ASSUME NEW t \in Threads, SkipTerminated(t) \/ LoadCount(t) PROVE LockInv'
  BY <1>5 DEF SkipTerminated, LoadCount, At, Goto, LockInv, TaskKnown, StackOwned, SwapSettled,
              ResumeReady, BusyLabels, fiberVars, localVars
<1>6. ASSUME NEW t \in Threads, NEW s \in {"READY", "TERM"}, SetState(t, s) PROVE LockInv'
  BY <1>6, NamesAssumption
     DEF SetState, At, Goto, LockInv, TaskKnown, StackOwned, SwapSettled, ResumeReady, BusyLabels, localVars
<1>7. ASSUME NEW t \in Threads, Release(t) PROVE LockInv'
  BY <1>7, NamesAssumption
     DEF Release, At, Goto, LockInv, TaskKnown, StackOwned, SwapSettled, ResumeReady, BusyLabels, localVars
<1>8. ASSUME NEW t \in Threads, UserCall(t) PROVE LockInv'
  BY <1>8, LockFrame DEF UserCall, Post, Register, fiberVars, localVars
<1>9. CASE StopCall \/ Join
  <2>1. /\ UNCHANGED <<state, owner, task>>
        /\ pc' = [pc EXCEPT ![Root] = "scan"] \/ pc' = [pc EXCEPT ![Root] = "stopped"]
    BY <1>9 DEF StopCall, Join, Goto, fiberVars, localVars
  <2>2. Calm
    BY <2>1 DEF BusyLabels
  <2>3. QED
    BY <2>2, LockFrame
<1>10. QED
  BY <1>1, <1>2, <1>3, <1>4, <1>5, <1>6, <1>7, <1>8, <1>9
     DEF Next, Step, Dispatch, Yield, Finish, Terminating

LEMMA LockInvariant == Spec => []LockInv
<1>1. Init => LockInv
  BY DEF Init, LockInv, TaskKnown, StackOwned, SwapSettled, ResumeReady, BusyLabels
<1>2. QED
  BY <1>1, TypeCorrect, LockStep, PTL DEF Spec

(* No fiber is on two threads at once, for any number of threads, fibers   *)
(* and requests, and however the counters race: the fiber's mutex covers   *)
(* the window in which it is READY but its context is not saved yet.       *)
THEOREM OneThread == Spec => []FiberOnOneThread
<1>1. TypeOK /\ LockInv => FiberOnOneThread
  BY DEF TypeOK, LockInv, TaskKnown, StackOwned, FiberOnOneThread, BusyLabels
<1>2. QED
  BY <1>1, TypeCorrect, LockInvariant, PTL

(* run() never calls resume() on a fiber that is RUNNING.                  *)
THEOREM ResumeAsserted == Spec => []ResumeReady
<1>1. LockInv => ResumeReady
  BY DEF LockInv
<1>2. QED
  BY <1>1, LockInvariant, PTL
=============================================================================
