---------------------------- MODULE LessonProofs ----------------------------
(* For any fibers and any number of calls and yields: t_fiber is the fiber *)
(* whose code runs, and no context ever holds the stack of another fiber.  *)
EXTENDS Lesson, SequenceTheorems, TLAPS

(* The scheduler's fiber is known before any other than the main fiber     *)
(* runs; until the constructor has run there is no current fiber.          *)
Known ==
  /\ tFiber = None => cpu = MainFiber /\ point[MainFiber] = "none"
  /\ tFiber # None => point[MainFiber] # "none" /\ tSchedulerFiber = SchedulerFiber

Inv == TypeOK /\ CurrentIsExecuting /\ ContextsOwn /\ Known

LEMMA InitInv == Init => Inv
<1> USE FibersAssumption, BoundsAssumption
    DEF Init, Fresh, Inv, CurrentIsExecuting, ContextsOwn, Known, Fibers, Points
<1>1. Init => TypeOK
  BY DEF TypeOK
<1> QED
  BY <1>1

(* A resume() from the fiber it is going to return to.                     *)
LEMMA ResumeKeeps ==
  ASSUME Inv, NEW f \in Fibers, f # MainFiber, cpu = Back(f), tFiber # None, Resumed(f)
  PROVE  /\ cpu' = f /\ tFiber' = f /\ tSchedulerFiber' = tSchedulerFiber
         /\ saved' = saved
         /\ state' \in [Fibers -> {"READY", "RUNNING", "TERM"}]
<1>1. saved[f] = f /\ saved[Back(f)] = Back(f) /\ saved \in [Fibers -> Fibers]
  BY FibersAssumption DEF Inv, ContextsOwn, TypeOK, Known, Back, Fibers
<1>2. saved' = [saved EXCEPT ![Back(f)] = cpu]
  BY DEF Resumed, Swapped
<1>3. saved' = saved
  BY <1>1, <1>2
<1> QED
  BY <1>1, <1>3 DEF Resumed, Swapped, Inv, TypeOK

(* A yeid() of the fiber that runs.                                        *)
LEMMA YieldKeeps ==
  ASSUME Inv, NEW f \in Fibers, cpu = f, tFiber # None, Yielded(f)
  PROVE  /\ cpu' = Back(f) /\ tFiber' = Back(f) /\ tSchedulerFiber' = tSchedulerFiber
         /\ Back(f) \in {MainFiber, SchedulerFiber}
         /\ saved' = saved
         /\ state' \in [Fibers -> {"READY", "RUNNING", "TERM"}]
<1>1. saved[f] = f /\ saved \in [Fibers -> Fibers]
  BY DEF Inv, ContextsOwn, TypeOK
<1>2. Back(f) \in {MainFiber, SchedulerFiber} /\ saved[Back(f)] = Back(f)
  BY DEF Inv, ContextsOwn, Known, Back, Fibers
<1>3. saved' = [saved EXCEPT ![f] = cpu]
  BY DEF Yielded, Swapped
<1>4. saved' = saved
  BY <1>1, <1>3
<1> QED
  BY <1>1, <1>2, <1>4 DEF Yielded, Swapped, Inv, TypeOK

LEMMA ResumedByKeeps ==
  ASSUME Inv, NEW f \in Tasks \cup {IdleFiber}, cpu = SchedulerFiber, ResumedBy(f),
         queue' \in Seq([fiber : Tasks, mine : BOOLEAN]), UNCHANGED <<stopping, bounds>>
  PROVE  Inv'
<1> USE FibersAssumption
<1>1. f \in Fibers /\ f # MainFiber /\ tFiber # None /\ point \in [Fibers -> Points]
  BY DEF Fibers, Inv, Known, TypeOK
<1>2. cpu = Back(f)
  BY <1>1 DEF Inv, Known, Back, InScheduler
<1>3. point' = [point EXCEPT ![f] = Entered(f)] /\ Entered(f) \in {"none", "body"}
  BY DEF ResumedBy, Goto, Entered
<1>4. point' \in [Fibers -> Points] /\ point'[MainFiber] = point[MainFiber]
  BY <1>1, <1>3 DEF Points, Fibers
<1>5. queue' \in Seq([fiber : Tasks, mine : BOOLEAN]) /\ UNCHANGED <<stopping, schedules, yields>>
  BY DEF bounds
<1>6. CASE point[f] = "ended"
  <2>1. cpu' = None /\ UNCHANGED <<saved, state, tFiber, tSchedulerFiber>>
    BY <1>6 DEF ResumedBy, Continued
  <2> QED
    BY <1>1, <1>4, <1>5, <2>1 DEF Inv, TypeOK, CurrentIsExecuting, ContextsOwn, Known
<1>7. CASE point[f] # "ended"
  <2>1. Resumed(f)
    BY <1>7 DEF ResumedBy, Continued
  <2>2. /\ cpu' = f /\ tFiber' = f /\ tSchedulerFiber' = tSchedulerFiber
        /\ saved' = saved /\ state' \in [Fibers -> {"READY", "RUNNING", "TERM"}]
    BY <1>1, <1>2, <2>1, ResumeKeeps
  <2> QED
    BY <1>1, <1>4, <1>5, <2>2 DEF Inv, TypeOK, CurrentIsExecuting, ContextsOwn, Known, Fibers
<1> QED
  BY <1>6, <1>7

LEMMA StepInv == Inv /\ [Next]_vars => Inv'
<1> SUFFICES ASSUME Inv, [Next]_vars PROVE Inv'
  OBVIOUS
<1>0. TypeOK /\ CurrentIsExecuting /\ ContextsOwn /\ Known
  BY DEF Inv
<1> USE FibersAssumption, BoundsAssumption, <1>0
    DEF Inv, CurrentIsExecuting, ContextsOwn, Known, TypeOK, At, Goto, contexts, bounds
<1>1. CASE Construct
  <2>1. MainFiber \in Fibers /\ SchedulerFiber \in Fibers /\ "app" \in Points /\ "app" # "none"
    BY DEF Fibers, Points
  <2> QED
    BY <1>1, <2>1 DEF Construct, MainFiberMade
<1>2. CASE Returned
  <2>1. MainFiber \in Fibers /\ "app" \in Points
    BY DEF Fibers, Points
  <2> QED
    BY <1>2, <2>1 DEF Returned
<1>3. CASE StopEarly
  <2>1. MainFiber \in Fibers /\ "end" \in Points
    BY DEF Fibers, Points
  <2> QED
    BY <1>3, <2>1 DEF StopEarly
<1>4. CASE Stop
  <2>1. MainFiber \in Fibers /\ SchedulerFiber \in Fibers /\ {"stop", "scan"} \subseteq Points
    BY DEF Fibers, Points
  <2>2. cpu = MainFiber /\ Back(SchedulerFiber) = MainFiber /\ tFiber # None
    BY <1>4 DEF Stop, Back, InScheduler
  <2>3. Resumed(SchedulerFiber)
    BY <1>4 DEF Stop
  <2>4. /\ cpu' = SchedulerFiber /\ tFiber' = SchedulerFiber
        /\ tSchedulerFiber' = tSchedulerFiber /\ saved' = saved
        /\ state' \in [Fibers -> {"READY", "RUNNING", "TERM"}]
    BY <2>1, <2>2, <2>3, ResumeKeeps
  <2>5. point' \in [Fibers -> Points] /\ point'[MainFiber] = "stop"
    BY <1>4, <2>1 DEF Stop
  <2> QED
    BY <1>4, <2>1, <2>2, <2>4, <2>5 DEF Stop
<1>5. CASE Take
  <2>1. queue # << >> /\ queue \in Seq([fiber : Tasks, mine : BOOLEAN])
    BY <1>5 DEF Take
  <2>2. Head(queue) \in [fiber : Tasks, mine : BOOLEAN]
        /\ Tail(queue) \in Seq([fiber : Tasks, mine : BOOLEAN])
    BY <2>1, HeadTailProperties
  <2> QED
    BY <1>5, <2>2, ResumedByKeeps DEF Take
<1>6. CASE Spin
  <2>1. SchedulerFiber \in Fibers /\ "spin" \in Points
    BY DEF Fibers, Points
  <2> QED
    BY <1>6, <2>1 DEF Spin
<1>7. CASE ResumeIdle
  BY <1>7, ResumedByKeeps DEF ResumeIdle
<1>8. ASSUME NEW f \in Tasks \cup Direct \cup {IdleFiber}, End(f) PROVE Inv'
  <2>1. f \in Fibers /\ "ended" \in Points /\ f # MainFiber /\ f # None
    BY DEF Fibers, Points
  <2>2. cpu = f /\ tFiber # None /\ Yielded(f)
    BY <1>8, <2>1 DEF End
  <2>3. /\ cpu' = Back(f) /\ tFiber' = Back(f) /\ tSchedulerFiber' = tSchedulerFiber
        /\ Back(f) \in {MainFiber, SchedulerFiber}
        /\ saved' = saved /\ state' \in [Fibers -> {"READY", "RUNNING", "TERM"}]
    BY <2>1, <2>2, YieldKeeps
  <2>4. Back(f) \in Fibers /\ Back(f) # None
    BY <2>3 DEF Fibers
  <2>5. point' \in [Fibers -> Points] /\ point'[MainFiber] = point[MainFiber]
    BY <1>8, <2>1 DEF End, Fibers
  <2> QED
    BY <1>8, <2>2, <2>3, <2>4, <2>5 DEF End
<1>9. CASE Idle
  BY <1>8, <1>9 DEF Idle
<1>10. ASSUME NEW f \in Tasks, NEW mine \in BOOLEAN, Schedule(f, mine) PROVE Inv'
  <2>1. queue' \in Seq([fiber : Tasks, mine : BOOLEAN])
    BY <1>10, AppendProperties DEF Schedule
  <2>2. schedules' \in 0..MaxSchedules
    BY <1>10 DEF Schedule
  <2> QED
    BY <1>10, <2>1, <2>2 DEF Schedule
<1>11. ASSUME NEW f \in Direct, RunDirect(f) PROVE Inv'
  <2>1. f \in Fibers /\ MainFiber \in Fibers /\ {"resumed", "body", "none"} \subseteq Points /\ f # MainFiber /\ f # None
    BY DEF Fibers, Points
  <2>2. cpu = MainFiber /\ Back(f) = MainFiber /\ tFiber # None /\ Continued(f)
    BY <1>11 DEF RunDirect, Back, InScheduler
  <2>3. point' \in [Fibers -> Points] /\ point'[MainFiber] = "resumed"
    BY <1>11, <2>1 DEF RunDirect, Entered
  <2>4. CASE point[f] = "ended"
    <3>1. cpu' = None /\ UNCHANGED <<saved, state, tFiber, tSchedulerFiber>>
      BY <2>2, <2>4 DEF Continued
    <3> QED
      BY <1>11, <2>2, <2>3, <3>1 DEF RunDirect
  <2>5. CASE point[f] # "ended"
    <3>1. Resumed(f)
      BY <2>2, <2>5 DEF Continued
    <3>2. /\ cpu' = f /\ tFiber' = f /\ tSchedulerFiber' = tSchedulerFiber
          /\ saved' = saved /\ state' \in [Fibers -> {"READY", "RUNNING", "TERM"}]
      BY <2>1, <2>2, <3>1, ResumeKeeps
    <3> QED
      BY <1>11, <2>1, <2>2, <2>3, <3>2 DEF RunDirect
  <2> QED
    BY <2>4, <2>5
<1>12. ASSUME NEW f \in Tasks \cup Direct, Reset(f) PROVE Inv'
  <2>1. f \in Fibers /\ "new" \in Points /\ f # MainFiber
    BY DEF Fibers, Points
  <2>2. saved' = saved
    BY <1>12, <2>1 DEF Reset
  <2>3. yields' \in 0..MaxYields
    BY <1>12 DEF Reset
  <2> QED
    BY <1>12, <2>1, <2>2, <2>3 DEF Reset
<1>13. ASSUME NEW f \in Tasks \cup Direct, YieldTask(f) PROVE Inv'
  <2>1. f \in Fibers /\ f # MainFiber /\ f # None
    BY DEF Fibers
  <2>2. cpu = f /\ tFiber # None /\ tFiber = f /\ Yielded(f)
    BY <1>13, <2>1 DEF YieldTask
  <2>3. /\ cpu' = Back(f) /\ tFiber' = Back(f) /\ tSchedulerFiber' = tSchedulerFiber
        /\ Back(f) \in {MainFiber, SchedulerFiber}
        /\ saved' = saved /\ state' \in [Fibers -> {"READY", "RUNNING", "TERM"}]
    BY <2>1, <2>2, YieldKeeps
  <2>4. Back(f) \in Fibers /\ Back(f) # None
    BY <2>3 DEF Fibers
  <2>6. yields' \in 0..MaxYields
    BY <1>13 DEF YieldTask
  <2> QED
    BY <1>13, <2>2, <2>3, <2>4, <2>6 DEF YieldTask
<1>14. CASE UNCHANGED vars
  BY <1>14 DEF vars
<1> HIDE DEF Inv, At, Goto
<1> QED
  BY <1>1, <1>2, <1>3, <1>4, <1>5, <1>6, <1>7, <1>8, <1>9, <1>10, <1>11, <1>12, <1>13, <1>14
     DEF Next

LEMMA Invariance == Spec => []Inv
  BY InitInv, StepInv, PTL DEF Spec

(* The variables keep their types.                                         *)
THEOREM TypeCorrect == Spec => []TypeOK
<1>1. Inv => TypeOK
  BY DEF Inv
<1> QED
  BY <1>1, Invariance, PTL

(* t_fiber is the fiber whose code runs, whoever resumed it.               *)
THEOREM RunningIsCurrent == Spec => []CurrentIsExecuting
<1>1. Inv => CurrentIsExecuting
  BY DEF Inv
<1> QED
  BY <1>1, Invariance, PTL

(* No m_ctx ever holds the stack of another fiber.                         *)
THEOREM OwnStacks == Spec => []ContextsOwn
<1>1. Inv => ContextsOwn
  BY DEF Inv
<1> QED
  BY <1>1, Invariance, PTL

=============================================================================
