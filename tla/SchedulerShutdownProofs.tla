---------------------- MODULE SchedulerShutdownProofs ----------------------
(* The shutdown protocol: what makes stop() abandon something, and the    *)
(* abstract pool that the scheduler implements.                            *)
EXTENDS SchedulerProofs, SequenceTheorems

(* What the counter must never do to mislead stopping(): read 0 while a    *)
(* thread holds a task.  It does so in the code when an update is lost or  *)
(* when its first value is not 0.                                          *)
ZeroMeansIdle == stopping /\ activeCount = 0 => Busy = {}

(* No timer is left or added once stop() has been called.                  *)
NoLateTimers == stopping => Armed("Timer") = {}

(* No update of the counter falls between the load and the store of the    *)
(* unlocked decrement of another thread.                                   *)
Undisturbed == \A t \in Threads : pc[t] = "store" => loaded[t] = activeCount

Settling == {t \in Threads : pc[t] = "settle"}

(* m_pendingEventCount counts the registered events, plus those triggered  *)
(* by a thread that has not decremented it yet.                            *)
PendingExact == pendingCount = Cardinality(Armed("Event")) + Cardinality(Settling)

(* Which places a thread can be in before and after its idle fiber is over,*)
(* and that the root thread gets into run() by stop() only.                *)
TermPlaces ==
  /\ \A t \in Threads : pc[t] \in {"user", "ask1", "ask2", "ask3", "wait", "timers", "collect", "settle"}
                        => ~idleTerm[t]
  /\ \A t \in Threads : pc[t] \in {"join", "stopped", "done"} => idleTerm[t]
  /\ pc[Root] = "stopped" => \A t \in Created : pc[t] = "done"

(* While there is work, some thread is still obliged to look at the queue: *)
(* its idle fiber is alive, and it is not about to let it die.             *)
Work == tasks # <<>> \/ Armed("Event") # {} \/ Busy # {}
Watches(t) == ~idleTerm[t] /\ (pc[t] = "ask3" => Armed("Event") # {})
Watched == Work => \E t \in Threads : Watches(t)

StopKnown == pc[Root] # "user" => stopping

DrainInv == PendingExact /\ TermPlaces /\ StopKnown /\ Watched

---------------------------------------------------------------------------
LEMMA ThreadsFinite == IsFiniteSet(Threads)
BY FiniteAssumption, FS_AddElement DEF Threads

(* How the sizes of a finite set and of the set after a step are related.  *)
LEMMA Shrinks ==
  ASSUME NEW S, NEW T, NEW x, IsFiniteSet(S), x \in S, T = S \ {x}
  PROVE  Cardinality(T) = Cardinality(S) - 1
BY FS_RemoveElement

LEMMA Grows ==
  ASSUME NEW S, NEW T, NEW x, IsFiniteSet(S), x \notin S, T = S \cup {x}
  PROVE  Cardinality(T) = Cardinality(S) + 1
BY FS_AddElement

LEMMA TermStep ==
  ASSUME TypeOK, TermPlaces, [Next]_vars
  PROVE  TermPlaces'
<1> USE NamesAssumption DEF TermPlaces, TypeOK, Goto, At
<1>1. CASE UNCHANGED <<pc, idleTerm>>
  BY <1>1
<1>2. ASSUME NEW t \in Threads, Dispatch(t) PROVE TermPlaces'
  <2>1. UNCHANGED idleTerm
    BY <1>2 DEF Dispatch, ScanTake, ScanNone, Resume, SkipTerminated, Yield, Finish, SetState, Release,
                Decrement, LoadCount, StoreCount, localVars
  <2>2. \E label \in {"dispatch", "fiber", "swap", "finish", "store", "scan", "idle"} : pc' = [pc EXCEPT ![t] = label]
    BY <1>2 DEF Dispatch, ScanTake, ScanNone, Resume, SkipTerminated, Yield, Finish, SetState, Release,
                Decrement, LoadCount, StoreCount
  <2>3. pc[t] \notin {"done", "stopped"}
    BY <1>2 DEF Dispatch, ScanTake, ScanNone, Resume, SkipTerminated, Yield, Finish, SetState, Release,
                Decrement, LoadCount, StoreCount
  <2>4. QED
    BY <2>1, <2>2, <2>3 DEF Threads
<1>3. ASSUME NEW t \in Threads, EnterIdle(t) PROVE TermPlaces'
  BY <1>3 DEF EnterIdle, localVars, Threads
<1>4. ASSUME NEW t \in Threads, LeaveRun(t) PROVE TermPlaces'
  BY <1>4 DEF LeaveRun, localVars, Threads
<1>5. ASSUME NEW t \in Threads,
             CheckTimers(t) \/ CheckQueue(t) \/ StayIdle(t) \/ SettleEvent(t) \/ YieldIdle(t)
      PROVE  TermPlaces'
  <2>1. UNCHANGED idleTerm /\ pc[t] \in {"ask1", "ask2", "ask3", "settle", "collect"}
    BY <1>5 DEF CheckTimers, CheckQueue, StayIdle, SettleEvent, YieldIdle, localVars
  <2>2. \E label \in {"ask2", "ask3", "wait", "collect", "scan"} : pc' = [pc EXCEPT ![t] = label]
    BY <1>5 DEF CheckTimers, CheckQueue, StayIdle, SettleEvent, YieldIdle
  <2>3. QED
    BY <2>1, <2>2 DEF Threads
<1>6. ASSUME NEW t \in Threads, QuitIdle(t) PROVE TermPlaces'
  BY <1>6 DEF QuitIdle, Threads
<1>7. ASSUME NEW t \in Threads, NEW set \in SUBSET Fibers, WakeUp(t, set) \/ ExpireTimers(t, set)
      PROVE  TermPlaces'
  <2>1. UNCHANGED idleTerm /\ pc[t] \in {"wait", "timers"}
    BY <1>7 DEF WakeUp, ExpireTimers
  <2>2. \E label \in {"timers", "collect"} : pc' = [pc EXCEPT ![t] = label]
    BY <1>7 DEF WakeUp, ExpireTimers
  <2>3. QED
    BY <2>1, <2>2 DEF Threads
<1>8. ASSUME NEW t \in Threads, NEW f \in Fibers, TriggerEvent(t, f) PROVE TermPlaces'
  BY <1>8 DEF TriggerEvent, HandleEvent, Threads
<1>9. CASE StopCall
  BY <1>9 DEF StopCall, localVars, Threads
<1>10. CASE Join
  BY <1>10 DEF Join, localVars, Threads
<1>11. QED
  BY <1>1, <1>2, <1>3, <1>4, <1>5, <1>6, <1>7, <1>8, <1>9, <1>10
     DEF Next, Step, Idle, UserCall, Terminating, vars, localVars, Tickle, PushExpired, DropEvent,
         HandleEvent, Post, Register

LEMMA StopKnownStep ==
  ASSUME TypeOK, StopKnown, [Next]_vars
  PROVE  StopKnown'
<1> Root \in Threads /\ pc \in [Threads -> Labels]
  BY DEF TypeOK, Threads
<1> USE DEF StopKnown
<1>1. CASE StopCall
  BY <1>1 DEF StopCall
<1>2. CASE UNCHANGED <<stopping, pc>>
  BY <1>2
<1>3. ASSUME NEW t \in Threads, NEW label, pc' = [pc EXCEPT ![t] = label], pc[t] # "user", UNCHANGED stopping
      PROVE  StopKnown'
  BY <1>3
<1>4. CASE Join
  BY <1>3, <1>4 DEF Join, At, Goto, queueVars
<1>5. ASSUME NEW t \in Threads, Dispatch(t) PROVE StopKnown'
  BY <1>3, <1>5 DEF Dispatch, ScanTake, ScanNone, Resume, SkipTerminated, Yield, Finish, SetState, Release,
                    Decrement, LoadCount, StoreCount, At, Goto, queueVars
<1>6. ASSUME NEW t \in Threads, Idle(t) PROVE StopKnown'
  BY <1>2, <1>3, <1>6 DEF Idle, EnterIdle, LeaveRun, CheckTimers, CheckQueue, StayIdle, QuitIdle, SettleEvent,
                    YieldIdle, WakeUp, ExpireTimers, PushExpired, TriggerEvent, DropEvent, HandleEvent, At, Goto,
                    queueVars
<1>7. ASSUME NEW t \in Threads, Tickle(t) \/ UserCall(t) PROVE StopKnown'
  BY <1>2, <1>7 DEF Tickle, UserCall, Post, Register, queueVars
<1> QED
  BY <1>1, <1>2, <1>4, <1>5, <1>6, <1>7 DEF Next, Step, Terminating, vars, queueVars

LEMMA PendingStep ==
  ASSUME TypeOK, PendingExact, [Next]_vars
  PROVE  PendingExact'
<1> /\ IsFiniteSet(Settling) /\ IsFiniteSet(Armed("Event"))
    /\ Cardinality(Settling) \in Nat /\ Cardinality(Armed("Event")) \in Nat
  BY ThreadsFinite, FiniteAssumption, FS_Subset, FS_CardinalityType DEF Settling, Armed
<1> USE DEF TypeOK, Goto, At, Labels
<1> DEFINE Events == Armed("Event")
           Frame == UNCHANGED <<Events, Settling, pendingCount>>
<1>1. Frame => PendingExact'
  BY DEF PendingExact
<1>2. CASE UNCHANGED <<pc, armed, pendingCount>>
  BY <1>1, <1>2 DEF Settling, Armed
<1>3. ASSUME NEW t \in Threads,
             \/ Dispatch(t) \/ EnterIdle(t) \/ LeaveRun(t) \/ CheckTimers(t) \/ CheckQueue(t)
             \/ StayIdle(t) \/ QuitIdle(t) \/ YieldIdle(t)
      PROVE  PendingExact'
  <2>1. UNCHANGED <<armed, pendingCount>> /\ pc[t] # "settle"
    BY <1>3 DEF Dispatch, ScanTake, ScanNone, Resume, SkipTerminated, Yield, Finish, SetState, Release,
                Decrement, LoadCount, StoreCount, EnterIdle, LeaveRun, CheckTimers, CheckQueue, StayIdle,
                QuitIdle, YieldIdle, eventVars
  <2>2. \E label \in Labels \ {"settle"} : pc' = [pc EXCEPT ![t] = label]
    BY <1>3 DEF Dispatch, ScanTake, ScanNone, Resume, SkipTerminated, Yield, Finish, SetState, Release,
                Decrement, LoadCount, StoreCount, EnterIdle, LeaveRun, CheckTimers, CheckQueue, StayIdle,
                QuitIdle, YieldIdle
  <2>3. Frame
    BY <2>1, <2>2 DEF Settling, Armed
  <2>4. QED
    BY <1>1, <2>3
<1>4. ASSUME NEW t \in Threads, NEW set \in SUBSET Fibers, WakeUp(t, set) \/ ExpireTimers(t, set)
      PROVE  PendingExact'
  <2>1. UNCHANGED pendingCount /\ pc[t] # "settle"
    BY <1>4 DEF WakeUp, ExpireTimers, eventVars
  <2>2. \E label \in Labels \ {"settle"} : pc' = [pc EXCEPT ![t] = label]
    BY <1>4 DEF WakeUp, ExpireTimers
  <2>3. Events' = Events
    BY <1>4 DEF WakeUp, ExpireTimers, eventVars, Armed
  <2>4. Settling' = Settling
    BY <2>1, <2>2 DEF Settling
  <2>5. QED
    BY <1>1, <2>1, <2>3, <2>4
<1>5. ASSUME NEW t \in Threads, NEW f \in Fibers, TriggerEvent(t, f) PROVE PendingExact'
  <2>0. armed[f] = "Event" /\ armed' = [armed EXCEPT ![f] = "None"]
    BY <1>5 DEF TriggerEvent, HandleEvent
  <2>1. Events' = Events \ {f} /\ f \in Events
    BY <2>0 DEF Armed
  <2>2. Settling' = Settling \cup {t} /\ t \notin Settling
    BY <1>5 DEF TriggerEvent, HandleEvent, Settling
  <2>3. Cardinality(Events') = Cardinality(Events) - 1
    BY <2>1, Shrinks
  <2>4. Cardinality(Settling') = Cardinality(Settling) + 1
    BY <2>2, Grows
  <2>5. QED
    BY <1>5, <2>3, <2>4 DEF TriggerEvent, PendingExact
<1>6. ASSUME NEW t \in Threads, SettleEvent(t) PROVE PendingExact'
  <2>1. Settling' = Settling \ {t} /\ t \in Settling
    BY <1>6 DEF SettleEvent, Settling
  <2>2. Cardinality(Settling') = Cardinality(Settling) - 1
    BY <2>1, Shrinks
  <2>3. Events' = Events
    BY <1>6 DEF SettleEvent, Armed
  <2>4. QED
    BY <1>6, <2>2, <2>3 DEF SettleEvent, PendingExact
(* A timer changes neither side.                                           *)
<1>7. ASSUME NEW t \in Threads, NEW f \in Fibers, Register(t, f, "Event")
      PROVE  PendingExact'
  <2>2. Events' = Events \cup {f} /\ f \notin Events
    BY <1>7 DEF Register, Armed
  <2>3. Cardinality(Events') = Cardinality(Events) + 1
    BY <2>2, Grows
  <2>4. Settling' = Settling /\ pendingCount' = pendingCount + 1
    BY <1>7 DEF Register, Settling
  <2>5. QED
    BY <2>3, <2>4 DEF PendingExact
<1>10. ASSUME NEW t \in Threads, NEW f \in Fibers, Register(t, f, "Timer") PROVE PendingExact'
  <2>1. pendingCount' = pendingCount /\ UNCHANGED pc
    BY <1>10 DEF Register
  <2>2. armed[f] = "None" /\ armed' = [armed EXCEPT ![f] = "Timer"]
    BY <1>10 DEF Register
  <2>3. Events' = Events
    BY <2>2 DEF Armed
  <2>4. Frame
    BY <2>1, <2>3 DEF Settling
  <2> QED
    BY <1>1, <2>4
<1>11. ASSUME NEW t \in Threads, NEW f \in Fibers, NEW kind \in Kinds, Register(t, f, kind) PROVE PendingExact'
  BY <1>7, <1>10, <1>11, ModeAssumption
<1>8. CASE StopCall \/ Join
  <2>1. UNCHANGED <<armed, pendingCount>> /\ pc[Root] # "settle"
    BY <1>8 DEF StopCall, Join, eventVars
  <2>2. \E label \in Labels \ {"settle"} : pc' = [pc EXCEPT ![Root] = label]
    BY <1>8 DEF StopCall, Join
  <2>3. Frame
    BY <2>1, <2>2 DEF Settling, Armed
  <2>4. QED
    BY <1>1, <2>3
<1>9. QED
  BY <1>2, <1>3, <1>4, <1>5, <1>6, <1>8, <1>11
     DEF Next, Step, Idle, UserCall, Terminating, vars, eventVars, Tickle, PushExpired, DropEvent,
         HandleEvent, Post

(* A step that adds no work, and takes from no thread its obligation.      *)
LEMMA WatchFrame ==
  ASSUME Watched, Work' => Work, Armed("Event") \subseteq Armed("Event")',
         \A t \in Threads : ~idleTerm[t] => ~idleTerm'[t] /\ (pc'[t] = "ask3" => pc[t] = "ask3")
  PROVE  Watched'
<1> SUFFICES ASSUME Work' PROVE \E t \in Threads : Watches(t)'
  BY DEF Watched
<1>1. PICK t \in Threads : Watches(t)
  BY DEF Watched
<1>2. Watches(t)'
  BY <1>1 DEF Watches
<1>3. QED
  BY <1>2

LEMMA WatchStep ==
  ASSUME TypeOK, DrainInv, ZeroMeansIdle, [Next]_vars
  PROVE  Watched'
<1> Watched /\ TermPlaces
  BY DEF DrainInv
<1> USE DEF TypeOK, Goto, At, Labels
<1>1. CASE UNCHANGED <<tasks, armed, pc, idleTerm>>
  BY <1>1 DEF Watched, Watches, Work, Armed, Busy
<1>2. ASSUME NEW t \in Threads,
             \/ Resume(t) \/ SkipTerminated(t) \/ Yield(t) \/ Finish(t) \/ Release(t) \/ Decrement(t)
             \/ LoadCount(t) \/ StoreCount(t)
      PROVE  Watched'
  <2>1. UNCHANGED <<tasks, armed, idleTerm>> /\ t \in Busy
    BY <1>2 DEF Resume, SkipTerminated, Yield, Finish, SetState, Release, Decrement, LoadCount, StoreCount,
                Busy, queueVars, eventVars, localVars
  <2>2. \E label \in Labels \ {"ask3"} : pc' = [pc EXCEPT ![t] = label]
    BY <1>2 DEF Resume, SkipTerminated, Yield, Finish, SetState, Release, Decrement, LoadCount, StoreCount
  <2>3. QED
    BY <2>1, <2>2, WatchFrame DEF Work, Armed
<1>3. ASSUME NEW t \in Threads, ScanTake(t) PROVE Watched'
  <2>1. tasks # <<>>
    BY <1>3 DEF ScanTake
  <2>2. UNCHANGED <<armed, idleTerm>> /\ pc' = [pc EXCEPT ![t] = "dispatch"]
    BY <1>3 DEF ScanTake, eventVars
  <2>3. QED
    BY <2>1, <2>2, WatchFrame DEF Work, Armed
<1>4. ASSUME NEW t \in Threads,
             \/ ScanNone(t) \/ EnterIdle(t) \/ LeaveRun(t) \/ CheckTimers(t) \/ StayIdle(t)
             \/ SettleEvent(t) \/ YieldIdle(t)
      PROVE  Watched'
  <2>1. UNCHANGED <<tasks, armed, idleTerm>> /\ pc[t] \notin BusyLabels
    BY <1>4 DEF ScanNone, EnterIdle, LeaveRun, CheckTimers, StayIdle, SettleEvent, YieldIdle, BusyLabels,
                queueVars, eventVars, localVars
  <2>2. \E label \in Labels \ (BusyLabels \cup {"ask3"}) : pc' = [pc EXCEPT ![t] = label]
    BY <1>4 DEF ScanNone, EnterIdle, LeaveRun, CheckTimers, StayIdle, SettleEvent, YieldIdle, BusyLabels
  <2>3. Busy' = Busy /\ Armed("Event")' = Armed("Event")
    BY <2>1, <2>2 DEF Busy, BusyLabels, Armed
  <2>4. QED
    BY <2>1, <2>2, <2>3, WatchFrame DEF Work
<1>5. ASSUME NEW t \in Threads, NEW set \in SUBSET Fibers, WakeUp(t, set) \/ ExpireTimers(t, set)
      PROVE  Watched'
  <2>1. UNCHANGED <<tasks, idleTerm>> /\ pc[t] \notin BusyLabels
    BY <1>5 DEF WakeUp, ExpireTimers, BusyLabels, queueVars
  <2>2. \E label \in Labels \ (BusyLabels \cup {"ask3"}) : pc' = [pc EXCEPT ![t] = label]
    BY <1>5 DEF WakeUp, ExpireTimers, BusyLabels
  <2>3. Busy' = Busy
    BY <2>1, <2>2 DEF Busy, BusyLabels
  <2>4. Armed("Event")' = Armed("Event")
    BY <1>5 DEF WakeUp, ExpireTimers, eventVars, Armed
  <2>5. QED
    BY <2>1, <2>2, <2>3, <2>4, WatchFrame DEF Work
(* The worker that may start to leave saw an empty queue and nobody busy.  *)
<1>6. ASSUME NEW t \in Threads, CheckQueue(t) PROVE Watched'
  <2>1. CASE stopping /\ tasks = <<>> /\ activeCount = 0
    <3>1. Busy = {}
      BY <2>1 DEF ZeroMeansIdle
    <3>2. UNCHANGED <<tasks, armed, idleTerm>> /\ pc' = [pc EXCEPT ![t] = "ask3"]
      BY <1>6, <2>1 DEF CheckQueue, queueVars, eventVars, localVars
    <3>3. Busy' = Busy
      BY <1>6, <3>2 DEF CheckQueue, Busy
    <3>4. QED
      BY <2>1, <3>1, <3>2, <3>3 DEF Watched, Watches, Work, Armed
  <2>2. CASE ~(stopping /\ tasks = <<>> /\ activeCount = 0)
    <3>1. UNCHANGED <<tasks, armed, idleTerm>> /\ pc' = [pc EXCEPT ![t] = "wait"]
      BY <1>6, <2>2 DEF CheckQueue, queueVars, eventVars, localVars
    <3>2. Busy' = Busy
      BY <1>6, <3>1 DEF CheckQueue, Busy
    <3>3. QED
      BY <3>1, <3>2, WatchFrame DEF Work, Armed
  <2>3. QED
    BY <2>1, <2>2
(* The worker that does leave found no event, so it was not the one        *)
(* obliged to stay.                                                        *)
<1>7. ASSUME NEW t \in Threads, QuitIdle(t) PROVE Watched'
  <2>1. Armed("Event") = {}
    <3>1. IsFiniteSet(Armed("Event")) /\ IsFiniteSet(Settling)
      BY ThreadsFinite, FiniteAssumption, FS_Subset DEF Armed, Settling
    <3>2. Cardinality(Armed("Event")) = 0
      BY <1>7, <3>1, FS_CardinalityType DEF QuitIdle, DrainInv, PendingExact
    <3>3. QED
      BY <3>1, <3>2, FS_EmptySet
  <2>2. ~Watches(t)
    BY <1>7, <2>1 DEF QuitIdle, Watches
  <2>3. UNCHANGED <<tasks, armed>> /\ pc' = [pc EXCEPT ![t] = "scan"] /\ idleTerm' = [idleTerm EXCEPT ![t] = TRUE]
    BY <1>7 DEF QuitIdle, queueVars, eventVars
  <2>4. Busy' = Busy
    BY <1>7, <2>3 DEF QuitIdle, Busy
  <2>5. \A u \in Threads : Watches(u) => Watches(u)'
    BY <2>2, <2>3 DEF Watches, Armed
  <2>6. QED
    BY <2>3, <2>4, <2>5 DEF Watched, Work, Armed
<1>8. ASSUME NEW t \in Threads, NEW f \in Fibers, TriggerEvent(t, f) PROVE Watched'
  <2>1. ~idleTerm'[t] /\ pc'[t] = "settle"
    BY <1>8 DEF TriggerEvent, HandleEvent, TermPlaces
  <2>2. QED
    BY <2>1 DEF Watched, Watches
<1>9. ASSUME NEW t \in Threads, UserCall(t) PROVE Watched'
  <2>1. /\ UNCHANGED <<pc, idleTerm>>
        /\ pc[t] \in {"user", "fiber"}
    BY <1>9 DEF UserCall, Post, Register, InUserCode, localVars
  <2>2. Armed("Event") \subseteq Armed("Event")'
    BY <1>9 DEF UserCall, Post, Register, eventVars, Armed
  <2>3. CASE pc[t] = "user"
    BY <2>1, <2>3 DEF TermPlaces, Watched, Watches
  <2>4. CASE pc[t] = "fiber"
    <3>1. Work
      BY <2>4 DEF Work, Busy
    <3>2. QED
      BY <2>1, <2>2, <3>1, WatchFrame
  <2>5. QED
    BY <2>1, <2>3, <2>4
<1>10. CASE StopCall \/ Join
  <2>1. UNCHANGED <<tasks, armed, idleTerm>> /\ pc[Root] \notin BusyLabels
    BY <1>10 DEF StopCall, Join, BusyLabels, queueVars, eventVars, localVars
  <2>2. \E label \in Labels \ (BusyLabels \cup {"ask3"}) : pc' = [pc EXCEPT ![Root] = label]
    BY <1>10 DEF StopCall, Join, BusyLabels
  <2>3. Busy' = Busy /\ Armed("Event")' = Armed("Event")
    BY <2>1, <2>2 DEF Busy, BusyLabels, Armed
  <2>4. QED
    BY <2>1, <2>2, <2>3, WatchFrame DEF Work
<1>11. ASSUME NEW t \in Threads, NEW f \in Fibers, PushExpired(t, f) PROVE Watched'
  <2>1. ~idleTerm'[t] /\ pc'[t] = "collect"
    BY <1>11 DEF PushExpired, TermPlaces
  <2>2. QED
    BY <2>1 DEF Watched, Watches
<1>12. QED
  BY <1>1, <1>2, <1>3, <1>4, <1>5, <1>6, <1>7, <1>8, <1>9, <1>10, <1>11
     DEF Next, Step, Dispatch, Idle, Terminating, vars, queueVars, eventVars, localVars, Tickle, DropEvent,
         HandleEvent

LEMMA DrainInvariant == Spec /\ []ZeroMeansIdle => []DrainInv
<1>1. Init => DrainInv
  <2> SUFFICES ASSUME Init PROVE DrainInv
    OBVIOUS
  <2>1. TermPlaces /\ StopKnown
    <3>1. (\A t \in Threads : pc[t] \in {"user", "scan"} /\ ~idleTerm[t]) /\ pc[Root] = "user"
      BY DEF Init, Threads
    <3>2. QED
      BY <3>1 DEF TermPlaces, StopKnown, Threads
  <2>2. Busy = {} /\ Armed("Event") = {} /\ Settling = {}
    BY DEF Init, Busy, Armed, Settling
  <2>3. PendingExact
    <3>1. Cardinality({}) = 0 /\ pendingCount = 0
      BY FS_EmptySet DEF Init
    <3> QED
      BY <2>2, <3>1 DEF PendingExact
  <2>4. Watched
    BY <2>2 DEF Init, Watched, Work
  <2>5. QED
    BY <2>1, <2>3, <2>4 DEF DrainInv
<1>2. TypeOK /\ DrainInv /\ ZeroMeansIdle /\ [Next]_vars => DrainInv'
  BY PendingStep, TermStep, StopKnownStep, WatchStep DEF DrainInv
<1>3. QED
  BY <1>1, <1>2, TypeCorrect, PTL DEF Spec

(* When every thread has left run() there is no work, but for the timers.  *)
LEMMA StoppedIdle ==
  ASSUME TypeOK, DrainInv, pc[Root] = "stopped"
  PROVE  stopping /\ tasks = <<>> /\ Armed("Event") = {}
<1>1. \A t \in Threads : pc[t] \in {"stopped", "done"}
  BY DEF DrainInv, TermPlaces, Threads
<1>2. \A t \in Threads : idleTerm[t]
  BY <1>1 DEF DrainInv, TermPlaces
<1>3. ~Work
  BY <1>2 DEF DrainInv, Watched, Watches
<1>4. stopping
  BY DEF DrainInv, StopKnown
<1> QED
  BY <1>3, <1>4 DEF Work

(* stop() can abandon something in two ways only: the active count has     *)
(* read 0 while a thread held a task, or a timer was armed after stop()    *)
(* was called.  With timers, pinned tasks and counters that race or start  *)
(* anywhere, for any number of threads, fibers and requests: as long as    *)
(* neither happens, stop() returns with nothing queued or registered.      *)
THEOREM StopAbandonsNothing == Spec /\ []ZeroMeansIdle /\ []NoLateTimers => []NothingAbandoned
<1>1. TypeOK /\ DrainInv /\ NoLateTimers => NothingAbandoned
  <2> SUFFICES ASSUME TypeOK, DrainInv, NoLateTimers, pc[Root] = "stopped"
               PROVE  tasks = <<>> /\ \A f \in Fibers : armed[f] = "None"
    BY DEF NothingAbandoned
  <2>1. stopping /\ tasks = <<>> /\ Armed("Event") = {}
    BY StoppedIdle
  <2>2. \A f \in Fibers : armed[f] \in {"None", "Event", "Timer"}
    BY DEF TypeOK
  <2>3. QED
    BY <2>1, <2>2 DEF Armed, NoLateTimers
<1>2. QED
  BY <1>1, TypeCorrect, DrainInvariant, PTL

---------------------------------------------------------------------------
(* The counter is exact up to its first value, which nothing initialises.  *)
Off(d) == activeCount = d + Cardinality(Busy)

LEMMA BusyFrame ==
  ASSUME TypeOK, UNCHANGED activeCount, NEW d \in Int,
         NEW t \in Threads, NEW label \in Labels, pc' = [pc EXCEPT ![t] = label],
         pc[t] \in BusyLabels <=> label \in BusyLabels, Off(d)
  PROVE  Off(d)'
<1>1. Busy' = Busy
  BY DEF Busy, BusyLabels, TypeOK
<1>2. QED
  BY <1>1 DEF Off

LEMMA ActiveStep ==
  ASSUME TypeOK, NEW d \in Int, Off(d), Undisturbed, [Next]_vars
  PROVE  Off(d)'
<1> IsFiniteSet(Busy) /\ IsFiniteSet(Threads) /\ Cardinality(Busy) \in Nat
  BY ThreadsFinite, FS_Subset, FS_CardinalityType DEF Busy
<1> USE DEF TypeOK, Goto, At, Labels
<1>1. CASE UNCHANGED <<pc, activeCount>>
  BY <1>1 DEF Off, Busy
<1>2. ASSUME NEW t \in Threads, ScanTake(t) PROVE Off(d)'
  <2>1. Busy' = Busy \cup {t} /\ t \notin Busy
    BY <1>2 DEF ScanTake, Busy
  <2>2. Cardinality(Busy') = Cardinality(Busy) + 1
    BY <2>1, Grows
  <2>3. QED
    BY <1>2, <2>2 DEF ScanTake, Off
(* The value stored is the current one less 1, because nobody came between.*)
<1>3. ASSUME NEW t \in Threads, Decrement(t) \/ StoreCount(t) PROVE Off(d)'
  <2>1. Busy' = Busy \ {t} /\ t \in Busy
    BY <1>3 DEF Decrement, StoreCount, Busy
  <2>2. Cardinality(Busy') = Cardinality(Busy) - 1
    BY <2>1, Shrinks
  <2>3. QED
    BY <1>3, <2>2 DEF Decrement, StoreCount, Undisturbed, Off
<1>4. ASSUME NEW t \in Threads, Resume(t) \/ SkipTerminated(t) \/ Yield(t) \/ Finish(t) \/ Release(t) \/ LoadCount(t)
      PROVE  Off(d)'
  <2>1. UNCHANGED activeCount /\ pc[t] \in BusyLabels
    BY <1>4 DEF Resume, SkipTerminated, Yield, Finish, SetState, Release, LoadCount, queueVars, BusyLabels
  <2>2. \E label \in BusyLabels : pc' = [pc EXCEPT ![t] = label]
    BY <1>4 DEF Resume, SkipTerminated, Yield, Finish, SetState, Release, LoadCount, BusyLabels
  <2>3. QED
    BY <2>1, <2>2, BusyFrame DEF BusyLabels
<1>5. ASSUME NEW t \in Threads,
             \/ ScanNone(t) \/ EnterIdle(t) \/ LeaveRun(t) \/ CheckTimers(t) \/ CheckQueue(t)
             \/ StayIdle(t) \/ QuitIdle(t) \/ SettleEvent(t) \/ YieldIdle(t)
      PROVE  Off(d)'
  <2>1. UNCHANGED activeCount /\ pc[t] \notin BusyLabels
    BY <1>5 DEF ScanNone, EnterIdle, LeaveRun, CheckTimers, CheckQueue, StayIdle, QuitIdle, SettleEvent,
                YieldIdle, queueVars, BusyLabels
  <2>2. \E label \in Labels \ BusyLabels : pc' = [pc EXCEPT ![t] = label]
    BY <1>5 DEF ScanNone, EnterIdle, LeaveRun, CheckTimers, CheckQueue, StayIdle, QuitIdle, SettleEvent,
                YieldIdle, BusyLabels
  <2>3. QED
    BY <2>1, <2>2, BusyFrame
<1>6. ASSUME NEW t \in Threads, NEW set \in SUBSET Fibers, WakeUp(t, set) \/ ExpireTimers(t, set)
      PROVE  Off(d)'
  <2>1. UNCHANGED activeCount /\ pc[t] \notin BusyLabels
    BY <1>6 DEF WakeUp, ExpireTimers, queueVars, BusyLabels
  <2>2. \E label \in Labels \ BusyLabels : pc' = [pc EXCEPT ![t] = label]
    BY <1>6 DEF WakeUp, ExpireTimers, BusyLabels
  <2>3. QED
    BY <2>1, <2>2, BusyFrame
<1>7. ASSUME NEW t \in Threads, NEW f \in Fibers, TriggerEvent(t, f) PROVE Off(d)'
  BY <1>7, BusyFrame DEF TriggerEvent, HandleEvent, BusyLabels
<1>8. CASE StopCall \/ Join
  <2>1. UNCHANGED activeCount /\ pc[Root] \notin BusyLabels /\ Root \in Threads
    BY <1>8 DEF StopCall, Join, queueVars, BusyLabels, Threads
  <2>2. \E label \in Labels \ BusyLabels : pc' = [pc EXCEPT ![Root] = label]
    BY <1>8 DEF StopCall, Join, BusyLabels
  <2>3. QED
    BY <2>1, <2>2, BusyFrame
<1>10. ASSUME NEW t \in Threads, Tickle(t) \/ UserCall(t) \/ \E f \in Fibers : PushExpired(t, f) \/ DropEvent(t, f)
       PROVE  UNCHANGED <<pc, activeCount>>
  BY <1>10 DEF Tickle, UserCall, Post, Register, PushExpired, DropEvent, HandleEvent, queueVars
<1>11. CASE UNCHANGED vars \/ Terminating
  BY <1>1, <1>11 DEF Terminating, vars, queueVars
<1>12. QED
  BY <1>1, <1>2, <1>3, <1>4, <1>5, <1>6, <1>7, <1>8, <1>10, <1>11 DEF Next, Step, Dispatch, Idle

(* The count of schedule.h:91 is wrong for two reasons only, a first value *)
(* that is not 0 and an update lost by the unlocked decrement: until the   *)
(* first lost one it is the number of threads that hold a task, plus what  *)
(* the memory held at first, for any number of threads.                    *)
THEOREM ActiveCountUndisturbed ==
  ASSUME NEW d \in Int
  PROVE  Spec /\ activeCount = d /\ []Undisturbed => [](activeCount = d + Cardinality(Busy))
<1>1. Init /\ activeCount = d => Off(d)
  <2> SUFFICES ASSUME Init, activeCount = d PROVE Off(d)
    OBVIOUS
  <2>1. Busy = {}
    BY DEF Init, Busy
  <2> QED
    BY <2>1, FS_EmptySet DEF Off
<1>2. TypeOK /\ Off(d) /\ Undisturbed /\ [Next]_vars => Off(d)'
  BY ActiveStep
<1>3. Off(d) => activeCount = d + Cardinality(Busy)
  BY DEF Off
<1>4. QED
  BY <1>1, <1>2, <1>3, TypeCorrect, PTL DEF Spec

---------------------------------------------------------------------------
(* The scheduler implements TaskPool.  Two more facts about the fibers are *)
(* needed: a fiber whose mutex is held is on the stack of the holder, so   *)
(* that none is RUNNING when all threads have left run(); and a fiber that *)
(* is about to yield or to end is RUNNING.                                 *)
OwnerOnStack == \A f \in Fibers : owner[f] # None => /\ pc[owner[f]] \in {"fiber", "swap"}
                                                     /\ task[owner[f]] = f
FiberRunning == \A t \in Threads : pc[t] = "fiber" => state[task[t]] = "RUNNING"
StackInv == OwnerOnStack /\ FiberRunning

LEMMA StackStep == TypeOK /\ LockInv /\ StackInv /\ [Next]_vars => StackInv'
<1> SUFFICES ASSUME TypeOK, LockInv, StackInv, [Next]_vars PROVE StackInv'
  OBVIOUS
<1> /\ pc \in [Threads -> Labels] /\ task \in [Threads -> Fibers \cup {None}]
    /\ owner \in [Fibers -> Threads \cup {None}] /\ state \in [Fibers -> {"READY", "RUNNING", "TERM"}]
  BY DEF TypeOK
<1> USE NamesAssumption DEF StackInv, OwnerOnStack, FiberRunning, LockInv, TaskKnown, StackOwned, BusyLabels
(* A thread that is not on a fiber's stack steps to a place that is none.  *)
<1>1. ASSUME NEW t \in Threads, pc[t] \notin {"fiber", "swap"}, UNCHANGED <<state, owner>>,
             \E label \in Labels \ {"fiber", "swap"} : pc' = [pc EXCEPT ![t] = label],
             \A u \in Threads : u # t => task'[u] = task[u]
      PROVE  StackInv'
  BY <1>1
<1>2. CASE UNCHANGED <<state, owner, pc, task>>
  BY <1>2
<1>3. ASSUME NEW t \in Threads, Resume(t) PROVE StackInv'
  BY <1>3 DEF Resume, At, Goto, localVars
<1>4. ASSUME NEW t \in Threads, NEW s \in {"READY", "TERM"}, SetState(t, s) PROVE StackInv'
  BY <1>4 DEF SetState, At, Goto, localVars
<1>5. ASSUME NEW t \in Threads, Release(t) PROVE StackInv'
  BY <1>5 DEF Release, At, Goto, localVars
<1>6. ASSUME NEW t \in Threads,
             \/ ScanTake(t) \/ ScanNone(t) \/ SkipTerminated(t) \/ Decrement(t) \/ LoadCount(t)
             \/ StoreCount(t)
      PROVE  StackInv'
  <2>1. /\ pc[t] \notin {"fiber", "swap"} /\ UNCHANGED <<state, owner>>
        /\ \E label \in Labels \ {"fiber", "swap"} : pc' = [pc EXCEPT ![t] = label]
    BY <1>6 DEF ScanTake, ScanNone, SkipTerminated, Decrement, LoadCount, StoreCount, At, Goto,
                fiberVars, Labels
  <2>2. \A u \in Threads : u # t => task'[u] = task[u]
    BY <1>6 DEF ScanTake, ScanNone, SkipTerminated, Decrement, LoadCount, StoreCount, localVars
  <2> QED
    BY <1>1, <2>1, <2>2
<1>7. ASSUME NEW t \in Threads, Idle(t) PROVE StackInv'
  <2>1. UNCHANGED <<state, owner, task>> /\ pc[t] \notin {"fiber", "swap"}
    BY <1>7 DEF Idle, EnterIdle, LeaveRun, CheckTimers, CheckQueue, StayIdle, QuitIdle, SettleEvent, At,
       YieldIdle, WakeUp, ExpireTimers, PushExpired, TriggerEvent, DropEvent, HandleEvent, fiberVars, localVars
  <2>2. \/ \E label \in Labels \ {"fiber", "swap"} : pc' = [pc EXCEPT ![t] = label]
        \/ UNCHANGED pc
    BY <1>7 DEF Idle, EnterIdle, LeaveRun, CheckTimers, CheckQueue, StayIdle, QuitIdle, SettleEvent,
       YieldIdle, WakeUp, ExpireTimers, PushExpired, TriggerEvent, DropEvent, Goto, Labels
  <2> QED
    BY <1>1, <1>2, <2>1, <2>2
<1>8. CASE StopCall \/ Join
  <2>1. /\ pc[Root] \notin {"fiber", "swap"} /\ UNCHANGED <<state, owner, task>> /\ Root \in Threads
        /\ \E label \in Labels \ {"fiber", "swap"} : pc' = [pc EXCEPT ![Root] = label]
    BY <1>8 DEF StopCall, Join, At, Goto, fiberVars, localVars, Labels, Threads
  <2> QED
    BY <1>1, <2>1
<1> QED
  BY <1>2, <1>3, <1>4, <1>5, <1>6, <1>7, <1>8
     DEF Next, Step, Dispatch, Yield, Finish, Tickle, UserCall, Post, Register, Terminating, vars, fiberVars,
         localVars

LEMMA StackInvariant == Spec => []StackInv
<1>1. Init => StackInv
  BY DEF Init, StackInv, OwnerOnStack, FiberRunning
<1>2. QED
  BY <1>1, TypeCorrect, LockInvariant, StackStep, PTL DEF Spec

---------------------------------------------------------------------------
(* Where a requested fiber is.                                             *)
Queued == {tasks[i].fiber : i \in DOMAIN tasks}
Registered == {f \in Fibers : armed[f] # "None"}
Batched == UNION {expired[t] : t \in Threads}
Taken == {task[t] : t \in {u \in Threads : pc[u] = "dispatch"}}

(* Removing the element at i from a sequence removes nothing but it.       *)
LEMMA RemoveAtElements ==
  ASSUME NEW S, NEW s \in Seq(S), NEW i \in DOMAIN s
  PROVE  {s[j] : j \in DOMAIN s} = {RemoveAt(s, i)[j] : j \in DOMAIN RemoveAt(s, i)} \cup {s[i]}
<1> DEFINE r == RemoveAt(s, i)
<1>1. i \in 1..Len(s) /\ Len(s) \in Nat /\ DOMAIN s = 1..Len(s)
  OBVIOUS
<1>2. /\ SubSeq(s, 1, i - 1) \in Seq(S) /\ Len(SubSeq(s, 1, i - 1)) = i - 1
      /\ \A j \in 1..(i - 1) : SubSeq(s, 1, i - 1)[j] = s[j]
  BY <1>1
<1>3. /\ SubSeq(s, i + 1, Len(s)) \in Seq(S) /\ Len(SubSeq(s, i + 1, Len(s))) = Len(s) - i
      /\ \A j \in 1..(Len(s) - i) : SubSeq(s, i + 1, Len(s))[j] = s[i + j]
  <2> DEFINE right == SubSeq(s, i + 1, Len(s))
  <2>1. i + 1 \in Int /\ Len(s) \in Int /\ \A j \in (i + 1)..Len(s) : s[j] \in S
    BY <1>1
  <2>2. /\ right \in Seq(S) /\ Len(right) = IF i + 1 <= Len(s) THEN Len(s) - (i + 1) + 1 ELSE 0
        /\ \A j \in 1..(Len(s) - (i + 1) + 1) : right[j] = s[i + 1 + j - 1]
    BY <2>1, SubSeqProperties
  <2> HIDE DEF right
  <2>3. right \in Seq(S) /\ Len(right) = Len(s) - i
    BY <1>1, <2>2
  <2>4. ASSUME NEW j \in 1..(Len(s) - i) PROVE right[j] = s[i + j]
    <3>1. j \in 1..(Len(s) - (i + 1) + 1) /\ i + 1 + j - 1 = i + j
      BY <1>1
    <3>2. right[j] = s[i + 1 + j - 1]
      BY <2>2, <3>1
    <3> QED
      BY <3>1, <3>2
  <2> QED
    BY <2>3, <2>4 DEF right
<1>4. /\ DOMAIN r = 1..(Len(s) - 1)
      /\ \A j \in 1..(Len(s) - 1) : r[j] = IF j < i THEN s[j] ELSE s[j + 1]
  <2> DEFINE left == SubSeq(s, 1, i - 1)
             right == SubSeq(s, i + 1, Len(s))
  <2>1. left \in Seq(S) /\ right \in Seq(S) /\ Len(left) = i - 1 /\ Len(right) = Len(s) - i
    BY <1>2, <1>3
  <2>2. r = left \o right
    BY DEF RemoveAt
  <2>3. \A j \in 1..(i - 1) : left[j] = s[j]
    BY <1>2
  <2>4. \A j \in 1..(Len(s) - i) : right[j] = s[i + j]
    BY <1>3
  <2> HIDE DEF left, right, r
  <2>5. Len(left) + Len(right) = Len(s) - 1
    BY <1>1, <2>1
  <2>6. /\ DOMAIN r = 1..(Len(left) + Len(right))
        /\ \A j \in 1..(Len(left) + Len(right)) :
              r[j] = IF j <= Len(left) THEN left[j] ELSE right[j - Len(left)]
    <3>1. /\ r \in Seq(S) /\ Len(r) = Len(left) + Len(right)
          /\ \A j \in 1..(Len(left) + Len(right)) :
                r[j] = IF j <= Len(left) THEN left[j] ELSE right[j - Len(left)]
      BY <2>1, <2>2, ConcatProperties
    <3>2. DOMAIN r = 1..Len(r)
      BY <3>1
    <3> QED
      BY <3>1, <3>2
  <2>7. ASSUME NEW j \in 1..(Len(s) - 1) PROVE r[j] = IF j < i THEN s[j] ELSE s[j + 1]
    <3>1. CASE j < i
      BY <1>1, <2>1, <2>3, <2>5, <2>6, <3>1
    <3>2. CASE ~(j < i)
      <4>1. /\ j - (i - 1) \in 1..(Len(s) - i) /\ i + (j - (i - 1)) = j + 1
            /\ i \in Int /\ j \in Int
        BY <1>1, <3>2
      <4>2. right[j - (i - 1)] = s[j + 1]
        BY <2>4, <4>1
      <4>3. r[j] = right[j - (i - 1)]
        BY <1>1, <2>1, <2>5, <2>6, <3>2
      <4> QED
        BY <3>2, <4>2, <4>3
    <3> QED
      BY <3>1, <3>2
  <2> QED
    BY <2>5, <2>6, <2>7
<1>5. ASSUME NEW j \in DOMAIN s, j # i PROVE \E k \in DOMAIN r : r[k] = s[j]
  <2>1. CASE j < i
    <3>1. j \in DOMAIN r /\ r[j] = s[j]
      BY <1>1, <1>4, <2>1
    <3> QED
      BY <3>1
  <2>2. CASE j > i
    <3>1. j - 1 \in DOMAIN r /\ r[j - 1] = s[j]
      BY <1>1, <1>4, <2>2
    <3> QED
      BY <3>1
  <2>3. j \in Int /\ i \in Int /\ j # i
    BY <1>1, <1>5
  <2>4. j < i \/ j > i
    BY <2>3
  <2> QED
    BY <2>1, <2>2, <2>4
<1>6. ASSUME NEW k \in DOMAIN r PROVE \E j \in DOMAIN s : r[k] = s[j]
  <2>1. /\ k \in DOMAIN s /\ k + 1 \in DOMAIN s
        /\ r[k] = s[k] \/ r[k] = s[k + 1]
    BY <1>1, <1>4
  <2> QED
    BY <2>1
<1> HIDE DEF r
<1>7. {s[j] : j \in DOMAIN s} = {r[j] : j \in DOMAIN r} \cup {s[i]}
  BY <1>5, <1>6
<1> QED
  BY <1>7 DEF r

(* Appending a task adds its fiber.                                        *)
LEMMA PushAdds ==
  ASSUME TypeOK, NEW t \in Threads, NEW f \in Fibers, NEW target, Push(t, f, target)
  PROVE  Queued' = Queued \cup {f}
<1> DEFINE new == [fiber |-> f, thread |-> target]
<1>1. tasks \in Seq(Tasks) /\ tasks' = Append(tasks, new)
  BY DEF TypeOK, Push
<1>2. /\ DOMAIN tasks = 1..Len(tasks) /\ DOMAIN tasks' = 1..(Len(tasks) + 1) /\ Len(tasks) \in Nat
      /\ \A i \in 1..Len(tasks) : tasks'[i] = tasks[i]
      /\ tasks'[Len(tasks) + 1] = new
  BY <1>1
<1>3. new.fiber = f
  OBVIOUS
<1> HIDE DEF new
<1>4. ASSUME NEW i \in DOMAIN tasks' PROVE i \in DOMAIN tasks \/ tasks'[i] = new
  BY <1>2
<1>5. Len(tasks) + 1 \in DOMAIN tasks' /\ DOMAIN tasks \subseteq DOMAIN tasks'
  BY <1>2
<1> QED
  BY <1>2, <1>3, <1>4, <1>5 DEF Queued

LEMMA WhereRequested == Requested = Queued \cup Registered \cup Batched \cup Taken
  BY DEF Requested, Queued, Registered, Batched, Taken

(* A batch of callbacks is emptied before its thread goes on: the next     *)
(* round of listExpiredCb overwrites none.                                 *)
BatchInv == \A t \in Threads : expired[t] # {} => pc[t] = "collect"

LEMMA BatchStep == TypeOK /\ BatchInv /\ [Next]_vars => BatchInv'
<1> SUFFICES ASSUME TypeOK, BatchInv, [Next]_vars PROVE BatchInv'
  OBVIOUS
<1> pc \in [Threads -> Labels] /\ expired \in [Threads -> SUBSET Fibers]
  BY DEF TypeOK
<1> USE DEF BatchInv
<1>1. ASSUME NEW t \in Threads, expired[t] = {} \/ pc[t] # "collect", UNCHANGED expired,
             \E label \in Labels : pc' = [pc EXCEPT ![t] = label]
      PROVE  BatchInv'
  BY <1>1
<1>2. CASE UNCHANGED <<expired, pc>>
  BY <1>2
<1>3. ASSUME NEW t \in Threads, Dispatch(t) PROVE BatchInv'
  <2>1. UNCHANGED expired /\ pc[t] # "collect"
    BY <1>3 DEF Dispatch, ScanTake, ScanNone, Resume, SkipTerminated, Yield, Finish, SetState, Release,
                Decrement, LoadCount, StoreCount, At, localVars
  <2>2. \E label \in Labels : pc' = [pc EXCEPT ![t] = label]
    BY <1>3 DEF Dispatch, ScanTake, ScanNone, Resume, SkipTerminated, Yield, Finish, SetState, Release,
                Decrement, LoadCount, StoreCount, Goto, Labels
  <2> QED
    BY <1>1, <2>1, <2>2
<1>4. ASSUME NEW t \in Threads,
             \/ EnterIdle(t) \/ LeaveRun(t) \/ CheckTimers(t) \/ CheckQueue(t) \/ StayIdle(t)
             \/ QuitIdle(t) \/ SettleEvent(t) \/ YieldIdle(t)
      PROVE  BatchInv'
  <2>1. UNCHANGED expired /\ (expired[t] = {} \/ pc[t] # "collect")
    BY <1>4 DEF EnterIdle, LeaveRun, CheckTimers, CheckQueue, StayIdle, QuitIdle, SettleEvent, YieldIdle, At,
                localVars
  <2>2. \E label \in Labels : pc' = [pc EXCEPT ![t] = label]
    BY <1>4 DEF EnterIdle, LeaveRun, CheckTimers, CheckQueue, StayIdle, QuitIdle, SettleEvent, YieldIdle,
                Goto, Labels
  <2> QED
    BY <1>1, <2>1, <2>2
<1>5. ASSUME NEW t \in Threads, NEW ready \in SUBSET Fibers, WakeUp(t, ready) PROVE BatchInv'
  BY <1>1, <1>5 DEF WakeUp, At, Goto, Labels
<1>6. ASSUME NEW t \in Threads, NEW due \in SUBSET Fibers, ExpireTimers(t, due) PROVE BatchInv'
  BY <1>6 DEF ExpireTimers, Goto, Labels
<1>7. ASSUME NEW t \in Threads, NEW f \in Fibers, PushExpired(t, f) PROVE BatchInv'
  BY <1>7 DEF PushExpired, At
<1>8. ASSUME NEW t \in Threads, NEW f \in Fibers, TriggerEvent(t, f) \/ DropEvent(t, f) PROVE BatchInv'
  BY <1>1, <1>2, <1>8 DEF TriggerEvent, DropEvent, HandleEvent, Goto, Labels
<1>9. CASE StopCall \/ Join
  <2>1. Root \in Threads /\ pc[Root] # "collect" /\ UNCHANGED expired
    BY <1>9 DEF StopCall, Join, At, localVars, Threads
  <2>2. \E label \in Labels : pc' = [pc EXCEPT ![Root] = label]
    BY <1>9 DEF StopCall, Join, Goto, Labels
  <2> QED
    BY <1>1, <2>1, <2>2
<1>10. ASSUME NEW t \in Threads, Tickle(t) \/ UserCall(t) PROVE UNCHANGED <<expired, pc>>
  BY <1>10 DEF Tickle, UserCall, Post, Register, localVars
<1>11. CASE Terminating \/ UNCHANGED vars
  BY <1>2, <1>11 DEF Terminating, vars, localVars
<1> QED
  BY <1>2, <1>3, <1>4, <1>5, <1>6, <1>7, <1>8, <1>9, <1>10, <1>11 DEF Next, Step, Idle

LEMMA BatchInvariant == Spec => []BatchInv
<1>1. Init => BatchInv
  BY DEF Init, BatchInv
<1> QED
  BY <1>1, TypeCorrect, BatchStep, PTL DEF Spec

(* The steps that the pool does not see.                                   *)
LEMMA Unseen ==
  ASSUME UNCHANGED <<tasks, armed, expired, state>>, Taken' = Taken
  PROVE  UNCHANGED OpenPool!vars
<1>1. Queued' = Queued /\ Registered' = Registered /\ Batched' = Batched
  BY DEF Queued, Registered, Batched
<1>2. Requested' = Queued' \cup Registered' \cup Batched' \cup Taken'
  BY DEF Requested, Queued, Registered, Batched, Taken
<1>3. Requested' = Requested
  BY <1>1, <1>2, WhereRequested
<1> QED
  BY <1>3 DEF OpenPool!vars

(* Every step of the scheduler is a step of the pool or leaves it alone.   *)
LEMMA OpenPoolStep ==
  ASSUME TypeOK, LockInv, StackInv, BatchInv, [Next]_vars
  PROVE  [OpenPool!Next]_(OpenPool!vars)
<1> /\ pc \in [Threads -> Labels] /\ task \in [Threads -> Fibers \cup {None}]
    /\ owner \in [Fibers -> Threads \cup {None}] /\ state \in [Fibers -> {"READY", "RUNNING", "TERM"}]
    /\ tasks \in Seq(Tasks) /\ armed \in [Fibers -> {"None", "Event", "Timer"}]
    /\ expired \in [Threads -> SUBSET Fibers]
  BY DEF TypeOK
<1> Root \in Threads
  BY DEF Threads
<1>0. /\ Requested = Queued \cup Registered \cup Batched \cup Taken
      /\ Requested' = Queued' \cup Registered' \cup Batched' \cup Taken'
  BY DEF Requested, Queued, Registered, Batched, Taken
(* A thread that is outside of "dispatch" and remains outside.             *)
<1>1. ASSUME NEW t \in Threads, UNCHANGED <<tasks, armed, expired, state>>, pc[t] # "dispatch",
             \E label \in Labels \ {"dispatch"} : pc' = [pc EXCEPT ![t] = label],
             \A u \in Threads : u # t => task'[u] = task[u]
      PROVE  UNCHANGED OpenPool!vars
  <2>1. Taken' = Taken
    BY <1>1 DEF Taken
  <2> QED
    BY <1>1, <2>1, Unseen
<1>2. ASSUME UNCHANGED <<tasks, armed, expired, state, pc, task>> PROVE UNCHANGED OpenPool!vars
  <2>1. Taken' = Taken
    BY <1>2 DEF Taken
  <2> QED
    BY <1>2, <2>1, Unseen
<1>3. ASSUME NEW t \in Threads, ScanTake(t) PROVE UNCHANGED OpenPool!vars
  <2>1. PICK i \in DOMAIN tasks : /\ task' = [task EXCEPT ![t] = tasks[i].fiber]
                                  /\ tasks' = RemoveAt(tasks, i)
    BY <1>3 DEF ScanTake
  <2>2. Queued = Queued' \cup {tasks[i].fiber}
    <3> DEFINE left == RemoveAt(tasks, i)
    <3>1. {tasks[j] : j \in DOMAIN tasks} = {left[j] : j \in DOMAIN left} \cup {tasks[i]}
      BY RemoveAtElements
    <3> HIDE DEF left
    <3>2. {tasks[j].fiber : j \in DOMAIN tasks} = {left[j].fiber : j \in DOMAIN left} \cup {tasks[i].fiber}
      <4>1. ASSUME NEW j \in DOMAIN tasks PROVE tasks[j] = tasks[i] \/ \E k \in DOMAIN left : left[k] = tasks[j]
        BY <3>1
      <4>2. ASSUME NEW k \in DOMAIN left PROVE \E j \in DOMAIN tasks : tasks[j] = left[k]
        BY <3>1
      <4> QED
        BY <4>1, <4>2
    <3>3. tasks' = left
      BY <2>1 DEF left
    <3> QED
      BY <3>2, <3>3 DEF Queued
  <2>3. pc' = [pc EXCEPT ![t] = "dispatch"] /\ pc[t] = "scan" /\ UNCHANGED <<armed, expired, state>>
    BY <1>3 DEF ScanTake, At, Goto, fiberVars, eventVars
  <2>4. Taken' = Taken \cup {tasks[i].fiber}
    BY <2>1, <2>3 DEF Taken
  <2>5. Registered' = Registered /\ Batched' = Batched
    BY <2>3 DEF Registered, Batched
  <2>6. Requested' = Requested
    BY <1>0, <2>2, <2>4, <2>5
  <2> QED
    BY <2>3, <2>6 DEF OpenPool!vars
(* The request that is served may not have been the only one.              *)
<1>4. ASSUME NEW t \in Threads, Resume(t) \/ SkipTerminated(t) PROVE OpenPool!Serve(task[t])
  <2>1. /\ pc[t] = "dispatch" /\ UNCHANGED <<tasks, armed, expired, task>>
        /\ pc' = [pc EXCEPT ![t] = "fiber"] \/ pc' = [pc EXCEPT ![t] = "finish"]
    BY <1>4 DEF Resume, SkipTerminated, At, Goto, queueVars, eventVars, localVars
  <2>2. Taken = Taken' \cup {task[t]}
    BY <2>1 DEF Taken
  <2>3. Queued' = Queued /\ Registered' = Registered /\ Batched' = Batched
    BY <2>1 DEF Queued, Registered, Batched
  <2>4. Requested = Requested' \cup {task[t]}
    BY <1>0, <2>2, <2>3
  <2>5. Requested' \in {Requested, Requested \ {task[t]}}
    BY <2>4
  <2> QED
    BY <2>4, <2>5 DEF OpenPool!Serve
<1>5. ASSUME NEW t \in Threads, Resume(t) PROVE OpenPool!Start(task[t]) /\ task[t] \in Fibers
  <2>1. /\ pc[t] = "dispatch" /\ owner[task[t]] = None /\ state[task[t]] # "TERM"
        /\ state' = [state EXCEPT ![task[t]] = "RUNNING"]
    BY <1>5 DEF Resume, At
  <2>2. task[t] \in Fibers /\ state[task[t]] = "READY"
    BY <2>1 DEF LockInv, TaskKnown, BusyLabels, ResumeReady
  <2> QED
    BY <1>4, <1>5, <2>1, <2>2 DEF OpenPool!Start
<1>6. ASSUME NEW t \in Threads, SkipTerminated(t) PROVE OpenPool!Skip(task[t]) /\ task[t] \in Fibers
  <2>1. pc[t] = "dispatch" /\ state[task[t]] = "TERM" /\ UNCHANGED state
    BY <1>6 DEF SkipTerminated, At, fiberVars
  <2>2. task[t] \in Fibers
    BY <2>1 DEF LockInv, TaskKnown, BusyLabels
  <2> QED
    BY <1>4, <1>6, <2>1, <2>2 DEF OpenPool!Skip
<1>7. ASSUME NEW t \in Threads, NEW s \in {"READY", "TERM"}, SetState(t, s)
      PROVE  /\ task[t] \in Fibers /\ state[task[t]] = "RUNNING" /\ state' = [state EXCEPT ![task[t]] = s]
             /\ UNCHANGED Requested
  <2>1. /\ pc[t] = "fiber" /\ pc' = [pc EXCEPT ![t] = "swap"] /\ UNCHANGED <<tasks, armed, expired, task>>
        /\ state' = [state EXCEPT ![task[t]] = s]
    BY <1>7 DEF SetState, At, Goto, queueVars, eventVars, localVars
  <2>2. task[t] \in Fibers /\ state[task[t]] = "RUNNING"
    BY <2>1 DEF LockInv, TaskKnown, BusyLabels, StackInv, FiberRunning
  <2>3. Taken' = Taken
    BY <2>1 DEF Taken
  <2>4. Queued' = Queued /\ Registered' = Registered /\ Batched' = Batched
    BY <2>1 DEF Queued, Registered, Batched
  <2>5. Requested' = Requested
    BY <1>0, <2>3, <2>4
  <2> QED
    BY <2>1, <2>2, <2>5
<1>8. ASSUME NEW t \in Threads, NEW f \in Fibers, NEW target \in Targets, Post(t, f, target)
      PROVE  OpenPool!Request(f)
  <2>1. UNCHANGED <<armed, expired, state, pc, task>> /\ Push(t, f, target)
    BY <1>8 DEF Post, fiberVars, eventVars, localVars
  <2>2. Queued' = Queued \cup {f}
    BY <2>1, PushAdds
  <2>3. Registered' = Registered /\ Batched' = Batched /\ Taken' = Taken
    BY <2>1 DEF Registered, Batched, Taken
  <2>4. Requested' = Requested \cup {f}
    BY <1>0, <2>2, <2>3
  <2> QED
    BY <2>1, <2>4 DEF OpenPool!Request
<1>9. ASSUME NEW t \in Threads, NEW f \in Fibers, NEW kind \in Kinds, Register(t, f, kind)
      PROVE  OpenPool!Request(f)
  <2>1. UNCHANGED <<tasks, expired, state, pc, task>> /\ armed' = [armed EXCEPT ![f] = kind]
    BY <1>9 DEF Register, queueVars, fiberVars, localVars
  <2>2. kind # "None"
    BY ModeAssumption
  <2>3. Registered' = Registered \cup {f}
    BY <2>1, <2>2 DEF Registered
  <2>4. Queued' = Queued /\ Batched' = Batched /\ Taken' = Taken
    BY <2>1 DEF Queued, Batched, Taken
  <2>5. Requested' = Requested \cup {f}
    BY <1>0, <2>3, <2>4
  <2> QED
    BY <2>1, <2>5 DEF OpenPool!Request
<1>10. ASSUME NEW t \in Threads, NEW f \in Fibers, TriggerEvent(t, f) PROVE UNCHANGED OpenPool!vars
  <2>1. /\ pc[t] = "collect" /\ pc' = [pc EXCEPT ![t] = "settle"] /\ UNCHANGED <<expired, state, task>>
        /\ armed[f] = "Event" /\ armed' = [armed EXCEPT ![f] = "None"] /\ Push(t, f, Anyone)
    BY <1>10 DEF TriggerEvent, HandleEvent, At, Goto, fiberVars
  <2>2. Queued' = Queued \cup {f}
    BY <2>1, PushAdds
  <2>3. f \in Registered /\ Registered' = Registered \ {f}
    BY <2>1 DEF Registered
  <2>4. Taken' = Taken /\ Batched' = Batched
    BY <2>1 DEF Taken, Batched
  <2>5. Requested' = Requested
    BY <1>0, <2>2, <2>3, <2>4
  <2> QED
    BY <2>1, <2>5 DEF OpenPool!vars
(* The timers that are due become callbacks of the batch, which was empty. *)
<1>11. ASSUME NEW t \in Threads, NEW due \in SUBSET Fibers, ExpireTimers(t, due) PROVE UNCHANGED OpenPool!vars
  <2>1. /\ pc[t] = "timers" /\ pc' = [pc EXCEPT ![t] = "collect"] /\ UNCHANGED <<tasks, state, task>>
        /\ due \subseteq Armed("Timer") /\ expired' = [expired EXCEPT ![t] = due]
        /\ armed' = [f \in Fibers |-> IF f \in due THEN "None" ELSE armed[f]]
    BY <1>11 DEF ExpireTimers, At, Goto, queueVars, fiberVars
  <2>2. expired[t] = {}
    BY <2>1 DEF BatchInv
  <2>3. Batched' = Batched \cup due
    <3>1. expired'[t] = due /\ \A u \in Threads : u # t => expired'[u] = expired[u]
      BY <2>1
    <3>2. ASSUME NEW f PROVE (\E u \in Threads : f \in expired'[u]) <=> f \in due \/ \E u \in Threads : f \in expired[u]
      BY <2>2, <3>1
    <3> QED
      BY <3>2 DEF Batched
  <2>4. Registered' = Registered \ due /\ due \subseteq Registered
    BY <2>1 DEF Registered, Armed
  <2>5. Queued' = Queued /\ Taken' = Taken
    BY <2>1 DEF Queued, Taken
  <2>6. Requested' = Requested
    BY <1>0, <2>3, <2>4, <2>5
  <2> QED
    BY <2>1, <2>6 DEF OpenPool!vars
<1>12. ASSUME NEW t \in Threads, NEW f \in Fibers, PushExpired(t, f) PROVE UNCHANGED OpenPool!vars
  <2>1. /\ f \in expired[t] /\ expired' = [expired EXCEPT ![t] = @ \ {f}]
        /\ Push(t, f, Anyone) /\ UNCHANGED <<armed, state, task, pc>>
    BY <1>12 DEF PushExpired, fiberVars, eventVars
  <2>2. Queued' = Queued \cup {f}
    BY <2>1, PushAdds
  <2>3. f \in Batched /\ Batched' \cup {f} = Batched
    <3>1. expired'[t] = expired[t] \ {f} /\ \A u \in Threads : u # t => expired'[u] = expired[u]
      BY <2>1
    <3>2. ASSUME NEW g, g # f PROVE (\E u \in Threads : g \in expired'[u]) <=> \E u \in Threads : g \in expired[u]
      BY <3>1, <3>2
    <3>3. f \in Batched
      BY <2>1 DEF Batched
    <3> QED
      BY <3>2, <3>3 DEF Batched
  <2>4. Registered' = Registered /\ Taken' = Taken
    BY <2>1 DEF Registered, Taken
  <2>5. Requested' = Requested
    BY <1>0, <2>2, <2>3, <2>4
  <2> QED
    BY <2>1, <2>5 DEF OpenPool!vars
<1>13. ASSUME NEW t \in Threads,
              ScanNone(t) \/ Release(t) \/ Decrement(t) \/ LoadCount(t) \/ StoreCount(t)
       PROVE  UNCHANGED OpenPool!vars
  <2>1. /\ UNCHANGED <<tasks, armed, expired, state>> /\ pc[t] # "dispatch"
        /\ \A u \in Threads : u # t => task'[u] = task[u]
    BY <1>13 DEF ScanNone, Release, Decrement, LoadCount, StoreCount, At, queueVars, eventVars, fiberVars,
                 localVars
  <2>2. \E label \in Labels \ {"dispatch"} : pc' = [pc EXCEPT ![t] = label]
    BY <1>13 DEF ScanNone, Release, Decrement, LoadCount, StoreCount, Goto, Labels
  <2> QED
    BY <1>1, <2>1, <2>2
<1>14. ASSUME NEW t \in Threads,
              \/ EnterIdle(t) \/ LeaveRun(t) \/ CheckTimers(t) \/ CheckQueue(t) \/ StayIdle(t)
              \/ QuitIdle(t) \/ SettleEvent(t) \/ YieldIdle(t)
              \/ \E ready \in SUBSET Fibers : WakeUp(t, ready)
       PROVE  UNCHANGED OpenPool!vars
  <2>1. UNCHANGED <<tasks, armed, expired, state, task>> /\ pc[t] # "dispatch"
    BY <1>14 DEF EnterIdle, LeaveRun, CheckTimers, CheckQueue, StayIdle, QuitIdle, SettleEvent, YieldIdle,
                 WakeUp, At, queueVars, eventVars, fiberVars, localVars
  <2>2. \E label \in Labels \ {"dispatch"} : pc' = [pc EXCEPT ![t] = label]
    BY <1>14 DEF EnterIdle, LeaveRun, CheckTimers, CheckQueue, StayIdle, QuitIdle, SettleEvent, YieldIdle,
                 WakeUp, Goto, Labels
  <2> QED
    BY <1>1, <2>1, <2>2
<1>15. CASE StopCall \/ Join
  <2>1. UNCHANGED <<tasks, armed, expired, state, task>> /\ pc[Root] # "dispatch"
    BY <1>15 DEF StopCall, Join, At, queueVars, eventVars, fiberVars, localVars
  <2>2. \E label \in Labels \ {"dispatch"} : pc' = [pc EXCEPT ![Root] = label]
    BY <1>15 DEF StopCall, Join, Goto, Labels
  <2> QED
    BY <1>1, <2>1, <2>2
<1>16. ASSUME NEW t \in Threads, Yield(t) \/ Finish(t)
       PROVE  \E f \in Fibers : OpenPool!Suspend(f) \/ OpenPool!Finish(f)
  BY <1>7, <1>16 DEF Yield, Finish, OpenPool!Suspend, OpenPool!Finish
<1>17. ASSUME NEW t \in Threads, Tickle(t) PROVE UNCHANGED OpenPool!vars
  BY <1>2, <1>17 DEF Tickle, queueVars, fiberVars, eventVars, localVars
<1>18. ASSUME NEW t \in Threads, NEW f \in Fibers, DropEvent(t, f) PROVE UNCHANGED OpenPool!vars
  BY <1>2, <1>18 DEF DropEvent, HandleEvent, queueVars, fiberVars, eventVars
<1>19. ASSUME NEW t \in Threads, Dispatch(t) PROVE [OpenPool!Next]_(OpenPool!vars)
  BY <1>3, <1>5, <1>6, <1>13, <1>16, <1>19 DEF Dispatch, OpenPool!Next
<1>20. ASSUME NEW t \in Threads, Idle(t) PROVE UNCHANGED OpenPool!vars
  BY <1>10, <1>11, <1>12, <1>14, <1>18, <1>20 DEF Idle
<1>21. ASSUME NEW t \in Threads, UserCall(t) PROVE OpenPool!Next
  BY <1>8, <1>9, <1>21 DEF UserCall, OpenPool!Next
<1>22. ASSUME UNCHANGED vars \/ Terminating PROVE UNCHANGED OpenPool!vars
  BY <1>2, <1>22 DEF vars, Terminating, queueVars, fiberVars, eventVars, localVars
<1> QED
  BY <1>15, <1>17, <1>19, <1>20, <1>21, <1>22 DEF Next, Step

(* The scheduler implements the pool that stays open, for any number of    *)
(* threads, fibers and requests, with timers, racing counters and any      *)
(* first values of them: a fiber runs only when it was asked for, on one   *)
(* thread, never again after its end, and no request is ever dropped.      *)
THEOREM OpenPoolImplemented == Spec => ImplementsOpenPool
<1>1. Init => OpenPool!Init
  <2> SUFFICES ASSUME Init PROVE OpenPool!Init
    OBVIOUS
  <2>1. Queued = {} /\ Registered = {} /\ Batched = {} /\ Taken = {}
    BY DEF Init, Queued, Registered, Batched, Taken
  <2>2. Requested = {}
    BY <2>1, WhereRequested
  <2> QED
    BY <2>2 DEF Init, OpenPool!Init
<1> QED
  BY <1>1, OpenPoolStep, TypeCorrect, LockInvariant, StackInvariant, BatchInvariant, PTL
     DEF Spec, ImplementsOpenPool, OpenPool!Spec

(* Once stop() has returned every thread has left run(), and no step but a *)
(* late tickle() is left.                                                  *)
LEMMA ClosedQuiet ==
  ASSUME TypeOK, TermPlaces, [Next]_vars, pc[Root] = "stopped"
  PROVE  UNCHANGED <<tasks, armed, expired, state, pc, task>>
<1>1. \A t \in Threads : pc[t] \in {"stopped", "done"}
  BY DEF TermPlaces, Threads
<1>2. ASSUME NEW t \in Threads PROVE ~Dispatch(t) /\ ~Idle(t) /\ ~UserCall(t)
  <2>1. pc[t] \in {"stopped", "done"}
    BY <1>1
  <2>2. ~Dispatch(t)
    BY <2>1 DEF Dispatch, ScanTake, ScanNone, Resume, SkipTerminated, Yield, Finish, SetState, Release,
       Decrement, LoadCount, StoreCount, At
  <2>3. /\ ~EnterIdle(t) /\ ~LeaveRun(t) /\ ~CheckTimers(t) /\ ~CheckQueue(t) /\ ~StayIdle(t)
        /\ ~QuitIdle(t) /\ ~SettleEvent(t) /\ ~YieldIdle(t)
    BY <2>1 DEF EnterIdle, LeaveRun, CheckTimers, CheckQueue, StayIdle, QuitIdle, SettleEvent, YieldIdle, At
  <2>4. \A set \in SUBSET Fibers : ~WakeUp(t, set) /\ ~ExpireTimers(t, set)
    BY <2>1 DEF WakeUp, ExpireTimers, At
  <2>5. \A f \in Fibers : ~PushExpired(t, f) /\ ~TriggerEvent(t, f) /\ ~DropEvent(t, f)
    BY <2>1 DEF PushExpired, TriggerEvent, DropEvent, HandleEvent, At
  <2>6. ~UserCall(t)
    BY <2>1 DEF UserCall, Post, Register, InUserCode, At
  <2> QED
    BY <2>2, <2>3, <2>4, <2>5, <2>6 DEF Idle
<1>3. ~StopCall /\ ~Join
  BY <1>1 DEF StopCall, Join, At, Threads
<1> QED
  BY <1>2, <1>3 DEF Next, Step, Tickle, Terminating, vars, queueVars, fiberVars, eventVars, localVars

(* Under the assumption a step of the open pool is one of the pool, and    *)
(* the end of stop() closes it.                                            *)
LEMMA PoolStep ==
  ASSUME TypeOK, LockInv, StackInv, BatchInv, TermPlaces, NothingAbandoned, NothingAbandoned',
         [Next]_vars
  PROVE  [Pool!Next]_(Pool!vars)
<1> DEFINE closed == pc[Root] = "stopped"
<1>1. [OpenPool!Next]_(OpenPool!vars)
  BY OpenPoolStep
<1>2. CASE closed
  <2>1. UNCHANGED <<tasks, armed, expired, state, pc, task>>
    BY <1>2, ClosedQuiet
  <2>2. Taken' = Taken
    BY <2>1 DEF Taken
  <2>3. UNCHANGED <<state, Requested>>
    BY <2>1, <2>2, Unseen DEF OpenPool!vars
  <2> QED
    BY <2>1, <2>3 DEF Pool!vars
<1>3. CASE ~closed /\ ~closed'
  BY <1>1, <1>3 DEF OpenPool!Next, OpenPool!vars, OpenPool!Request, OpenPool!Start, OpenPool!Skip,
     OpenPool!Serve, OpenPool!Suspend, OpenPool!Finish, OpenPool!Close,
     Pool!Next, Pool!vars, Pool!Request, Pool!Start, Pool!Skip, Pool!Serve, Pool!Suspend, Pool!Finish
<1>4. CASE ~closed /\ closed'
  <2>1. Join
    <3>1. Root \in Threads /\ pc \in [Threads -> Labels]
      BY DEF TypeOK, Threads
    <3>2. ASSUME NEW t \in Threads, Dispatch(t) PROVE \E label \in Labels \ {"stopped"} : pc' = [pc EXCEPT ![t] = label]
      BY <3>2 DEF Dispatch, ScanTake, ScanNone, Resume, SkipTerminated, Yield, Finish, SetState, Release,
         Decrement, LoadCount, StoreCount, Goto, Labels
    <3>3. ASSUME NEW t \in Threads, Idle(t)
          PROVE  UNCHANGED pc \/ \E label \in Labels \ {"stopped"} : pc' = [pc EXCEPT ![t] = label]
      BY <3>3 DEF Idle, EnterIdle, LeaveRun, CheckTimers, CheckQueue, StayIdle, QuitIdle, SettleEvent,
         YieldIdle, WakeUp, ExpireTimers, PushExpired, TriggerEvent, DropEvent, Goto, Labels
    <3>4. ASSUME NEW t \in Threads, Tickle(t) \/ UserCall(t) PROVE UNCHANGED pc
      BY <3>4 DEF Tickle, UserCall, Post, Register
    <3>5. ASSUME StopCall PROVE pc'[Root] = "scan"
      BY <3>1, <3>5 DEF StopCall, Goto
    <3> QED
      BY <1>4, <3>1, <3>2, <3>3, <3>4, <3>5 DEF Next, Step, Terminating, vars
  <2>2. /\ pc[Root] = "join" /\ UNCHANGED <<tasks, armed, expired, state, task>>
        /\ pc' = [pc EXCEPT ![Root] = "stopped"] /\ \A t \in Created : pc[t] = "done"
    BY <2>1 DEF Join, At, Goto, queueVars, eventVars, fiberVars, localVars
  <2>3. \A t \in Threads : pc[t] \in {"join", "done"}
    BY <2>2 DEF Threads
  <2>a. ASSUME NEW f \in Fibers PROVE owner[f] = None
    <3>1. owner[f] \in Threads \cup {None}
      BY DEF TypeOK
    <3> QED
      BY <2>3, <3>1 DEF StackInv, OwnerOnStack
  <2>4. \A f \in Fibers : state[f] # "RUNNING"
    BY <2>a DEF LockInv, ResumeReady
  <2>5. tasks = <<>> /\ \A f \in Fibers : armed[f] = "None"
    BY <1>4, <2>2 DEF NothingAbandoned
  <2>6. Queued = {} /\ Registered = {} /\ Batched = {} /\ Taken = {}
    <3>1. \A t \in Threads : expired[t] = {}
      BY <2>3 DEF BatchInv
    <3> QED
      BY <2>3, <2>5, <3>1 DEF Queued, Registered, Batched, Taken
  <2>7. Requested = {}
    BY <2>6, WhereRequested
  <2>8. Taken' = Taken
    BY <2>2, <2>3 DEF Taken, TypeOK, Threads
  <2>9. UNCHANGED <<state, Requested>>
    BY <2>2, <2>8, Unseen DEF OpenPool!vars
  <2> QED
    BY <1>4, <2>4, <2>7, <2>9 DEF Pool!Close, Pool!Next
<1> QED
  BY <1>2, <1>3, <1>4

(* As long as stop() abandons nothing in the two ways named above, the     *)
(* scheduler implements TaskPool, whose Close needs that no request is left*)
(* and no fiber is RUNNING: whatever is asked of the queue, the            *)
(* descriptors, the timers and stop() is a history that the pool allows.   *)
THEOREM PoolImplemented == Spec /\ []ZeroMeansIdle /\ []NoLateTimers => ImplementsPool
<1>1. Init => Pool!Init
  <2> SUFFICES ASSUME Init PROVE Pool!Init
    OBVIOUS
  <2>1. Queued = {} /\ Registered = {} /\ Batched = {} /\ Taken = {}
    BY DEF Init, Queued, Registered, Batched, Taken
  <2>2. Requested = {}
    BY <2>1, WhereRequested
  <2>3. pc[Root] = "user"
    BY DEF Init, Threads
  <2> QED
    BY <2>2, <2>3 DEF Init, Pool!Init
<1>2. DrainInv => TermPlaces
  BY DEF DrainInv
<1>3. /\ TypeOK /\ LockInv /\ StackInv /\ BatchInv /\ TermPlaces
      /\ NothingAbandoned /\ NothingAbandoned' /\ [Next]_vars
      => [Pool!Next]_(Pool!vars)
  BY PoolStep
<1> QED
  BY <1>1, <1>2, <1>3, StopAbandonsNothing, DrainInvariant, TypeCorrect, LockInvariant, StackInvariant,
     BatchInvariant, PTL
     DEF Spec, ImplementsPool, Pool!Spec
=============================================================================
